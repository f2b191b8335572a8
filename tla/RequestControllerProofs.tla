---------------------- MODULE RequestControllerProofs ----------------------
(***************************************************************************)
(* Theorems about RequestController: its types, and that no                *)
(* TroubleshootRequest is diagnosed twice, for any number of requests,     *)
(* edits, failed writes and restarts; and that the controller implements   *)
(* the lifecycle RequestLifecycle promises, while the names of requests    *)
(* that are worked on are not used again.                                  *)
(*                                                                         *)
(* The log of an object only grows, so what a worker has read stays where  *)
(* it was read.  A claim that succeeds claims the latest version, which is *)
(* Pending; from then on no version of that request is Pending again.      *)
(***************************************************************************)
EXTENDS RequestController, TLAPS

-----------------------------------------------------------------------------
(* The versions. *)

\* Versions are added and none is changed.
Grows ==
  /\ log' \in [Names -> Seq(Objects)]
  /\ \A m \in Names : /\ Len(log[m]) <= Len(log'[m])
                      /\ \A i \in 1 .. Len(log[m]) : log'[m][i] = log[m][i]

\* An object always has a version, and its versions are objects.
LEMMA LatestTyped ==
  ASSUME TypeOK, NEW n \in Names
  PROVE  /\ Len(log[n]) \in Nat \ {0}
         /\ Latest(n) \in Objects /\ Cached(n) \in Objects
         /\ Exists(n) <=> Latest(n).uid # 0
<1>1. log[n] \in Seq(Objects) /\ seen[n] \in 1 .. Len(log[n])
  BY DEF TypeOK
<1>2. Latest(n) \in Objects /\ Cached(n) \in Objects /\ Len(log[n]) \in Nat \ {0}
  BY <1>1 DEF Latest, Cached
<1> QED
  BY <1>2 DEF Exists, Objects

\* A write by whomever adds one version to one object.
LEMMA WriteAdds ==
  ASSUME TypeOK, NEW n \in Names, NEW obj \in Objects, Write(n, obj)
  PROVE  /\ Grows
         /\ Len(log'[n]) = Len(log[n]) + 1
         /\ log'[n][Len(log[n]) + 1] = obj
         /\ Latest(n)' = obj
         /\ \A m \in Names \ {n} : log'[m] = log[m] /\ Latest(m)' = Latest(m)
<1>1. log \in [Names -> Seq(Objects)] /\ log[n] \in Seq(Objects)
  BY DEF TypeOK
<1>2. log'[n] = Append(log[n], obj) /\ \A m \in Names \ {n} : log'[m] = log[m]
  BY <1>1 DEF Write
<1>3. /\ Append(log[n], obj) \in Seq(Objects)
      /\ Len(Append(log[n], obj)) = Len(log[n]) + 1
      /\ Append(log[n], obj)[Len(log[n]) + 1] = obj
      /\ \A i \in 1 .. Len(log[n]) : Append(log[n], obj)[i] = log[n][i]
  BY <1>1
<1>4. log' \in [Names -> Seq(Objects)]
  BY <1>1, <1>3 DEF Write
<1>5. Grows
  <2> SUFFICES ASSUME NEW m \in Names
               PROVE  /\ Len(log[m]) <= Len(log'[m])
                      /\ \A i \in 1 .. Len(log[m]) : log'[m][i] = log[m][i]
    BY <1>4 DEF Grows
  <2>1. Len(log[m]) \in Nat
    BY <1>1
  <2> QED
    BY <1>2, <1>3, <2>1
<1> QED
  BY <1>2, <1>3, <1>5 DEF Latest

\* A step that writes nothing leaves every version.
LEMMA SameGrows ==
  ASSUME TypeOK, UNCHANGED log
  PROVE  Grows /\ \A m \in Names : Latest(m)' = Latest(m)
<1>1. \A m \in Names : Len(log[m]) \in Nat
  BY DEF TypeOK
<1> QED
  BY <1>1 DEF Grows, Latest, TypeOK

-----------------------------------------------------------------------------
(* The workers. *)

WorkersOK == worker \in [Controllers -> Workers] /\ \A c \in Controllers : BusyOK(worker[c], c)
SeenOK == seen \in [Names -> Nat] /\ \A n \in Names : seen[n] \in 1 .. Len(log[n])

\* Every name has a controller, which is not the other one's.
LEMMA OneController ==
  ASSUME NEW n \in Names
  PROVE  /\ ControllerOf(n) \in Controllers /\ n \in ControllerOf(n)
         /\ n \in Troubleshoot => ControllerOf(n) = Troubleshoot
         /\ n \in Health => ControllerOf(n) # Troubleshoot
  BY NamesAssumption DEF Names, Controllers, ControllerOf

\* A worker that does nothing is still right after a write.
LEMMA WorkersWait ==
  ASSUME TypeOK, Grows, UNCHANGED worker
  PROVE  WorkersOK'
<1> SUFFICES ASSUME NEW c \in Controllers, worker[c].pc # "idle"
             PROVE  BusyOK(worker[c], c)'
  BY DEF WorkersOK, TypeOK, BusyOK
<1>1. BusyOK(worker[c], c) /\ worker[c].name \in Names
  BY DEF TypeOK, Controllers, Names, BusyOK
<1>2. Len(log[worker[c].name]) \in Nat /\ Len(log'[worker[c].name]) \in Nat
  BY <1>1 DEF TypeOK, Grows
<1> QED
  BY <1>1, <1>2 DEF BusyOK, Grows

\* A worker may take any step that leaves it with a version of its object.
LEMMA WorkersStep ==
  ASSUME TypeOK, Grows, NEW n \in Names, NEW new \in Workers, Become(n, new),
         new.pc # "idle" => /\ new.name = n
                            /\ new.rv \in 1 .. Len(log'[n]) /\ log'[n][new.rv].uid # 0
                            /\ new.pc = "finish" => new.result # "none"
  PROVE  /\ WorkersOK'
         /\ worker'[ControllerOf(n)] = new
         /\ n \in Health => worker'[Troubleshoot] = worker[Troubleshoot]
<1>1. /\ worker' \in [Controllers -> Workers]
      /\ worker'[ControllerOf(n)] = new
      /\ \A c \in Controllers \ {ControllerOf(n)} : worker'[c] = worker[c]
  BY OneController DEF Become, TypeOK
<1>2. ASSUME NEW c \in Controllers PROVE BusyOK(worker[c], c)'
  <2>1. CASE c = ControllerOf(n)
    BY <1>1, <2>1, OneController DEF BusyOK
  <2>2. CASE c # ControllerOf(n)
    <3>1. worker'[c] = worker[c] /\ BusyOK(worker[c], c)
      BY <1>1, <2>2 DEF TypeOK
    <3> SUFFICES ASSUME worker[c].pc # "idle" PROVE BusyOK(worker[c], c)'
      BY <3>1 DEF BusyOK
    <3>2. worker[c].name \in Names
      BY <3>1 DEF Controllers, Names, BusyOK
    <3>3. Len(log[worker[c].name]) \in Nat /\ Len(log'[worker[c].name]) \in Nat
      BY <3>2 DEF TypeOK, Grows
    <3> QED
      BY <3>1, <3>2, <3>3 DEF BusyOK, Grows
  <2> QED
    BY <2>1, <2>2
<1>3. n \in Health => worker'[Troubleshoot] = worker[Troubleshoot]
  BY <1>1, OneController DEF Controllers
<1> QED
  BY <1>1, <1>2, <1>3 DEF WorkersOK

\* A worker that returns from Reconcile is idle.
LEMMA WorkersReturn ==
  ASSUME TypeOK, Grows, NEW n \in Names, Return(n)
  PROVE  /\ WorkersOK'
         /\ worker'[ControllerOf(n)] = IdleWorker
         /\ n \in Health => worker'[Troubleshoot] = worker[Troubleshoot]
<1>1. IdleWorker \in Workers /\ IdleWorker.pc = "idle"
  BY DEF IdleWorker, Workers
<1> QED
  BY <1>1, WorkersStep DEF Return

\* What the cache has seen stays a version.
LEMMA SeenKept ==
  ASSUME TypeOK, Grows, UNCHANGED seen
  PROVE  SeenOK'
<1>1. \A m \in Names : Len(log[m]) \in Nat /\ Len(log'[m]) \in Nat
  BY DEF TypeOK, Grows
<1> QED
  BY <1>1 DEF SeenOK, TypeOK, Grows

-----------------------------------------------------------------------------
(* The invariant. *)

RestOK ==
  /\ queue \subseteq Names /\ delayed \subseteq Names
  /\ notifying \in 0 .. NotifyCapacity
  /\ executed \in [Names -> [1 .. MaxCreates -> Nat]]
  /\ creates \in 0 .. MaxCreates

Uid(obj, u) == obj.phase = "Pending" /\ obj.uid = u
Holds(w, t, pc) == w.name = t /\ w.pc = pc

\* A request that was not made, or is Pending, was not worked on; the worker has
\* claimed one that was Pending, and one it works on was not worked on before and
\* is not Pending any more.
Unworked(t) ==
  /\ \A u \in 1 .. MaxCreates : executed[t][u] \in {0, 1} /\ (u > creates => executed[t][u] = 0)
  /\ \A u \in 1 .. MaxCreates : Uid(Latest(t), u) => executed[t][u] = 0
ClaimsPending(w, t) == Holds(w, t, "claim") => log[t][w.rv].phase = "Pending"
WorksOnce(w, t) ==
  Holds(w, t, "work") => LET u == log[t][w.rv].uid IN
                         u <= creates /\ executed[t][u] = 0 /\ ~Uid(Latest(t), u)
Once(t) ==
  Unworked(t) /\ ClaimsPending(worker[Troubleshoot], t) /\ WorksOnce(worker[Troubleshoot], t)

Issued == \A n \in Names : Latest(n).uid <= creates

\* The inductive invariant.
IInv == TypeOK /\ Issued /\ \A t \in Troubleshoot : Once(t)

\* A step that makes no request, works on none, makes none Pending and lets the
\* worker at most claim one that was.
LEMMA QuietStep ==
  ASSUME IInv, Grows, SeenOK', WorkersOK', RestOK', executed' = executed, creates' = creates,
         \A m \in Names : \/ Latest(m)' = Latest(m)
                          \/ Latest(m)'.phase # "Pending" /\ Latest(m)'.uid \in {0, Latest(m).uid},
         \/ worker'[Troubleshoot] = worker[Troubleshoot]
         \/ /\ worker'[Troubleshoot].pc # "work"
            /\ \A t \in Troubleshoot : ClaimsPending(worker[Troubleshoot], t)'
  PROVE  IInv'
<1>1. TypeOK'
  BY DEF Grows, SeenOK, WorkersOK, RestOK, TypeOK
<1>2. Issued'
  <2> SUFFICES ASSUME NEW m \in Names PROVE Latest(m)'.uid <= creates
    BY DEF Issued
  <2>1. Latest(m).uid <= creates /\ 0 <= creates
    BY DEF IInv, Issued, TypeOK
  <2> QED
    BY <2>1
<1>3. ASSUME NEW t \in Troubleshoot PROVE Once(t)'
  <2>1. t \in Names /\ Once(t) /\ TypeOK
    BY DEF IInv, Names
  <2>2. Unworked(t)'
    BY <2>1 DEF Once, Unworked, Uid
  <2>3. CASE worker'[Troubleshoot] # worker[Troubleshoot]
    BY <2>2, <2>3 DEF Once, WorksOnce, Holds
  <2>4. CASE worker'[Troubleshoot] = worker[Troubleshoot]
    <3> DEFINE w == worker[Troubleshoot]
    <3>1. BusyOK(w, Troubleshoot)
      BY DEF IInv, TypeOK, Controllers
    <3>2. w.name = t /\ w.pc # "idle" => log'[t][w.rv] = log[t][w.rv]
      BY <2>1, <3>1 DEF BusyOK, Grows
    <3>3. ClaimsPending(worker[Troubleshoot], t)'
      BY <2>1, <2>4, <3>2 DEF Once, ClaimsPending, Holds
    <3>4. WorksOnce(worker[Troubleshoot], t)'
      <4> SUFFICES ASSUME Holds(w, t, "work")
                   PROVE  LET u == log'[t][w.rv].uid IN
                          u <= creates /\ executed[t][u] = 0 /\ ~Uid(Latest(t)', u)
        BY <2>4 DEF WorksOnce, Holds, Uid
      <4>1. log'[t][w.rv] = log[t][w.rv]
        BY <3>2 DEF Holds
      <4>2. LET u == log[t][w.rv].uid IN
            u <= creates /\ executed[t][u] = 0 /\ ~Uid(Latest(t), u)
        BY <2>1 DEF Once, WorksOnce
      <4>3. Latest(t)' = Latest(t) \/ Latest(t)'.phase # "Pending"
        BY <2>1
      <4> QED
        BY <4>1, <4>2, <4>3 DEF Uid
    <3> QED
      BY <2>2, <3>3, <3>4 DEF Once
  <2> QED
    BY <2>3, <2>4
<1> QED
  BY <1>1, <1>2, <1>3 DEF IInv

-----------------------------------------------------------------------------
(* The actions. *)

\* No name and no object: what is there when nothing is.
LEMMA Constants ==
  /\ Absent \in Objects /\ Absent.phase = "absent" /\ Absent.uid = 0
  /\ \A u \in 1 .. MaxCreates, ttl \in BOOLEAN :
       /\ Request(u, ttl) \in Objects
       /\ Request(u, ttl).phase = "Pending" /\ Request(u, ttl).uid = u
  /\ IdleWorker \in Workers /\ IdleWorker.pc = "idle"
<1>1. Absent \in Objects /\ Absent.phase = "absent" /\ Absent.uid = 0
  BY BoundsAssumption DEF Absent, Objects, Phases
<1>2. ASSUME NEW u \in 1 .. MaxCreates, NEW ttl \in BOOLEAN
      PROVE  /\ Request(u, ttl) \in Objects
             /\ Request(u, ttl).phase = "Pending" /\ Request(u, ttl).uid = u
  BY <1>2, BoundsAssumption DEF Request, Objects, Phases
<1>3. IdleWorker \in Workers /\ IdleWorker.pc = "idle"
  BY DEF IdleWorker, Workers
<1> QED
  BY <1>1, <1>2, <1>3

\* What Reconcile writes keeps the identity of the request.
LEMMA Written ==
  ASSUME NEW obj \in Objects, obj.uid # 0, NEW version \in Nat,
         NEW phase \in {"Completed", "Failed"}
  PROVE  /\ Started(obj) \in Objects /\ Ended(obj, phase, version) \in Objects
         /\ Started(obj).phase = "Running" /\ Started(obj).uid = obj.uid
         /\ Ended(obj, phase, version).phase = phase /\ Ended(obj, phase, version).uid = obj.uid
<1> DEFINE a == [obj EXCEPT !.phase = "Running"]
           b == [obj EXCEPT !.phase = phase]
<1>1. a \in Objects /\ a.phase = "Running" /\ a.uid = obj.uid
  BY DEF Objects, Phases
<1>2. b \in Objects /\ b.phase = phase /\ b.uid = obj.uid
  BY DEF Objects, Phases
<1>3. Started(obj) = [a EXCEPT !.startedAt = TRUE]
  BY Zenon DEF Started
<1>4. Ended(obj, phase, version) = [b EXCEPT !.completedAt = version]
  BY Zenon DEF Ended
<1> HIDE DEF a, b
<1> QED
  BY <1>1, <1>2, <1>3, <1>4 DEF Objects, Phases

\* A worker that has claimed a request keeps its name (the first status write).
LEMMA ClaimedWorker ==
  ASSUME NEW w \in Workers, w.pc # "idle", NEW version \in Nat
  PROVE  /\ Claimed(w, version) \in Workers /\ Claimed(w, version).pc = "work"
         /\ Claimed(w, version).name = w.name /\ Claimed(w, version).rv = version
<1> DEFINE a == [w EXCEPT !.pc = "work"]
<1>1. a \in Workers /\ a.pc = "work" /\ a.name = w.name
  BY DEF Workers, IdleWorker
<1>2. Claimed(w, version) = [a EXCEPT !.rv = version]
  BY Zenon DEF Claimed
<1> HIDE DEF a
<1> QED
  BY <1>1, <1>2 DEF Workers, IdleWorker

\* So does one that has done the work (the final status write is next).
LEMMA WorkedWorker ==
  ASSUME NEW w \in Workers, w.pc # "idle", NEW result \in {"Completed", "Failed"}
  PROVE  /\ Worked(w, result) \in Workers /\ Worked(w, result).pc = "finish"
         /\ Worked(w, result).name = w.name /\ Worked(w, result).rv = w.rv
         /\ Worked(w, result).result = result
<1> DEFINE a == [w EXCEPT !.pc = "finish"]
<1>1. a \in Workers /\ a.pc = "finish" /\ a.name = w.name /\ a.rv = w.rv
  BY DEF Workers, IdleWorker
<1>2. Worked(w, result) = [a EXCEPT !.result = result]
  BY Zenon DEF Worked
<1> HIDE DEF a
<1> QED
  BY <1>1, <1>2 DEF Workers, IdleWorker

\* Initially there is nothing.
LEMMA InitIInv == Init => IInv
<1> SUFFICES ASSUME Init PROVE IInv
  OBVIOUS
<1>1. \A n \in Names : log[n] = <<Absent>> /\ Len(log[n]) = 1 /\ Latest(n) = Absent
  BY DEF Init, Latest
<1>2. TypeOK
  BY <1>1, Constants, BoundsAssumption, CapacityAssumption DEF Init, TypeOK, BusyOK
<1>3. Issued
  BY <1>1, Constants DEF Init, Issued
<1>4. worker[Troubleshoot].pc = "idle"
  BY Constants DEF Init, Controllers
<1>5. ASSUME NEW t \in Troubleshoot PROVE Once(t)
  BY <1>1, <1>4, Constants
  DEF Init, Once, Unworked, ClaimsPending, WorksOnce, Holds, Uid, Names
<1> QED
  BY <1>2, <1>3, <1>5 DEF IInv

\* Users' writes other than the creation of a request.
LEMMA UserKeeps ==
  ASSUME IInv, NEW n \in Names, Edit(n) \/ UserDeletes(n)
  PROVE  IInv'
<1>1. TypeOK
  BY DEF IInv
<1>2. PICK obj \in Objects : Write(n, obj) /\ obj \in {Latest(n), Absent}
  BY <1>1, LatestTyped, Constants DEF Edit, UserDeletes
<1>3. Grows /\ Latest(n)' = obj /\ \A m \in Names \ {n} : Latest(m)' = Latest(m)
  BY <1>1, <1>2, WriteAdds
<1>4. UNCHANGED <<seen, worker>>
  BY DEF Edit, UserDeletes
<1>5. SeenOK' /\ WorkersOK'
  BY <1>1, <1>3, <1>4, SeenKept, WorkersWait
<1>6. RestOK' /\ UNCHANGED <<executed, creates>>
  BY <1>1 DEF Edit, UserDeletes, TypeOK, RestOK, queueVars, userVars
<1> QED
  BY <1>2, <1>3, <1>4, <1>5, <1>6, Constants, QuietStep

\* A new request has a number of its own.
LEMMA CreateKeeps ==
  ASSUME IInv, NEW n \in Names, Create(n)
  PROVE  IInv'
<1> DEFINE new == creates + 1
<1>1. TypeOK /\ new \in 1 .. MaxCreates /\ creates' = new /\ creates \in Nat
  BY BoundsAssumption DEF IInv, TypeOK, Create
<1>2. PICK ttl \in BOOLEAN : Write(n, Request(new, ttl))
  BY DEF Create
<1>3. Request(new, ttl) \in Objects /\ Request(new, ttl).uid = new
  BY <1>1, Constants
<1>4. /\ Grows /\ Latest(n)' = Request(new, ttl)
      /\ \A m \in Names \ {n} : Latest(m)' = Latest(m)
  BY <1>1, <1>2, <1>3, WriteAdds
<1>5. UNCHANGED <<seen, worker, executed>>
  BY DEF Create
<1>6. SeenOK' /\ WorkersOK'
  BY <1>1, <1>4, <1>5, SeenKept, WorkersWait
<1>7. TypeOK'
  BY <1>1, <1>4, <1>5, <1>6 DEF Create, Grows, SeenOK, WorkersOK, TypeOK, queueVars
<1>8. Issued'
  <2> SUFFICES ASSUME NEW m \in Names PROVE Latest(m)'.uid <= new
    BY <1>1 DEF Issued
  <2>1. Latest(m) \in Objects /\ Latest(m).uid <= creates
    BY <1>1, LatestTyped DEF IInv, Issued
  <2>2. Latest(m).uid \in Int
    BY <2>1, BoundsAssumption DEF Objects
  <2> QED
    BY <1>1, <1>3, <1>4, <2>1, <2>2
<1>9. ASSUME NEW t \in Troubleshoot PROVE Once(t)'
  <2> DEFINE w == worker[Troubleshoot]
  <2>1. t \in Names /\ Once(t)
    BY DEF IInv, Names
  <2>2. Latest(t)' = Latest(t) \/ Latest(t)'.uid = new
    BY <1>3, <1>4, <2>1
  <2>3. \A u \in 1 .. MaxCreates : u > new => u > creates
    BY <1>1
  <2>4. Unworked(t)'
    BY <1>1, <1>5, <2>1, <2>2, <2>3 DEF Once, Unworked, Uid
  <2>5. BusyOK(w, Troubleshoot)
    BY <1>1 DEF TypeOK, Controllers
  <2>6. w.name = t /\ w.pc # "idle" => /\ log'[t][w.rv] = log[t][w.rv]
                                       /\ log[t][w.rv] \in Objects
    BY <1>1, <1>4, <2>1, <2>5 DEF BusyOK, Grows, TypeOK
  <2>7. ClaimsPending(worker[Troubleshoot], t)'
    BY <1>5, <2>1, <2>6 DEF Once, ClaimsPending, Holds
  <2>8. WorksOnce(worker[Troubleshoot], t)'
    <3> SUFFICES ASSUME Holds(w, t, "work")
                 PROVE  LET u == log'[t][w.rv].uid IN
                        u <= new /\ executed[t][u] = 0 /\ ~Uid(Latest(t)', u)
      BY <1>1, <1>5 DEF WorksOnce, Holds, Uid
    <3>1. log'[t][w.rv] = log[t][w.rv] /\ log[t][w.rv].uid \in Int
      BY <2>6, BoundsAssumption DEF Holds, Objects
    <3>2. LET u == log[t][w.rv].uid IN
          u <= creates /\ executed[t][u] = 0 /\ ~Uid(Latest(t), u)
      BY <2>1 DEF Once, WorksOnce
    <3> QED
      BY <1>1, <2>2, <3>1, <3>2 DEF Uid
  <2> QED
    BY <2>4, <2>7, <2>8 DEF Once
<1> QED
  BY <1>7, <1>8, <1>9 DEF IInv

\* The cache, the queue, the timers and a restart write nothing.
LEMMA AroundKeeps ==
  ASSUME IInv,
         (\E n \in Names : Observe(n) \/ Requeue(n) \/ TTLEnds(n)) \/ NotificationEnds \/ Restart
  PROVE  IInv'
<1>1. TypeOK /\ \A n \in Names : Len(log[n]) \in Nat \ {0}
  BY LatestTyped DEF IInv
<1>2. UNCHANGED <<log, executed, creates>>
  BY DEF Observe, Requeue, TTLEnds, NotificationEnds, Restart, serverVars, userVars
<1>3. Grows /\ \A m \in Names : Latest(m)' = Latest(m)
  BY <1>1, <1>2, SameGrows
<1>4. SeenOK'
  <2>1. CASE UNCHANGED seen
    BY <1>1, <1>3, <2>1, SeenKept
  <2>2. CASE Restart
    BY <1>1, <1>2, <2>2 DEF Restart, SeenOK
  <2>3. ASSUME NEW n \in Names, Observe(n) PROVE SeenOK'
    BY <1>1, <1>2, <2>3 DEF Observe, SeenOK, TypeOK
  <2> QED
    BY <2>1, <2>2, <2>3 DEF Requeue, TTLEnds, NotificationEnds, serverVars
<1>5. RestOK'
  <2> USE <1>1, <1>2 DEF RestOK, TypeOK, queueVars
  <2>1. ASSUME NEW n \in Names, Observe(n) \/ Requeue(n) \/ TTLEnds(n) PROVE RestOK'
    BY <2>1 DEF Observe, Requeue, TTLEnds
  <2>2. CASE NotificationEnds
    BY <2>2, CapacityAssumption DEF NotificationEnds
  <2>3. CASE Restart
    BY <2>3, CapacityAssumption DEF Restart
  <2> QED
    BY <2>1, <2>2, <2>3
<1>6. CASE UNCHANGED worker
  BY <1>1, <1>2, <1>3, <1>4, <1>5, <1>6, WorkersWait, QuietStep
<1>7. CASE Restart
  <2>1. WorkersOK' /\ worker'[Troubleshoot].pc = "idle"
    BY <1>7, Constants DEF Restart, WorkersOK, BusyOK, Controllers
  <2>2. \A t \in Troubleshoot : ClaimsPending(worker[Troubleshoot], t)'
    BY <2>1 DEF ClaimsPending, Holds
  <2> QED
    BY <1>2, <1>3, <1>4, <1>5, <2>1, <2>2, QuietStep
<1> QED
  BY <1>6, <1>7 DEF Observe, Requeue, TTLEnds, NotificationEnds

\* A write of Reconcile makes no request Pending; a worker that has neither claimed
\* nor works on anything afterwards cannot repeat a request.
LEMMA ReconcileWrites ==
  ASSUME IInv, NEW n \in Names, NEW obj \in Objects,
         Write(n, obj) \/ UNCHANGED log,
         obj.phase # "Pending", obj.uid \in {0, Latest(n).uid},
         WorkersOK', worker'[Troubleshoot] = worker[Troubleshoot]
                     \/ worker'[Troubleshoot].pc \notin {"claim", "work"},
         RestOK', UNCHANGED <<seen, executed, creates>>
  PROVE  IInv'
<1>1. TypeOK
  BY DEF IInv
<1>2. /\ Grows
      /\ \A m \in Names : Latest(m)' = Latest(m) \/ (m = n /\ Latest(m)' = obj)
  BY <1>1, WriteAdds, SameGrows
<1>3. SeenOK'
  BY <1>1, <1>2, SeenKept
<1>4. \/ worker'[Troubleshoot] = worker[Troubleshoot]
      \/ /\ worker'[Troubleshoot].pc # "work"
         /\ \A t \in Troubleshoot : ClaimsPending(worker[Troubleshoot], t)'
  BY DEF ClaimsPending, Holds
<1> QED
  BY <1>2, <1>3, <1>4, QuietStep

\* A worker that returns holds nothing.
LEMMA ReturnHolds ==
  ASSUME TypeOK, Grows, NEW n \in Names, Return(n)
  PROVE  /\ WorkersOK'
         /\ \/ worker'[Troubleshoot] = worker[Troubleshoot]
            \/ worker'[Troubleshoot].pc \notin {"claim", "work"}
<1>1. n \in Health \/ ControllerOf(n) = Troubleshoot
  BY OneController DEF Names
<1> QED
  BY <1>1, WorkersReturn, Constants

\* A write that may have failed leaves the worker idle and the name delayed.
LEMMA FailureKeeps ==
  ASSUME IInv, NEW n \in Names, NEW obj \in Objects, NEW accepted \in BOOLEAN,
         \/ WriteFails(n, accepted, obj)
         \/ ReturnError(n) /\ UNCHANGED <<log, faults>>,
         obj.phase # "Pending", obj.uid \in {0, Latest(n).uid},
         UNCHANGED <<seen, due, queue, notifying, executed, userVars>>
  PROVE  IInv'
<1>1. TypeOK /\ Return(n) /\ delayed' = delayed \cup {n}
  BY DEF IInv, WriteFails, ReturnError
<1>2. Write(n, obj) \/ UNCHANGED log
  BY DEF WriteFails
<1>3. Grows
  BY <1>1, <1>2, WriteAdds, SameGrows
<1>4. RestOK' /\ UNCHANGED creates
  BY <1>1 DEF RestOK, TypeOK, userVars
<1>5. WorkersOK' /\ \/ worker'[Troubleshoot] = worker[Troubleshoot]
                    \/ worker'[Troubleshoot].pc \notin {"claim", "work"}
  BY <1>1, <1>3, ReturnHolds
<1> QED
  BY <1>2, <1>4, <1>5, ReconcileWrites

\* Reconcile reads the cache (r.Get) and decides.
LEMMA FetchKeeps ==
  ASSUME IInv, NEW n \in Names, Fetch(n)
  PROVE  IInv'
<1> DEFINE at(pc) == [pc |-> pc, name |-> n, rv |-> seen[n], result |-> "none"]
<1>1. TypeOK /\ UNCHANGED <<log, seen, executed, creates, notifying>>
  BY DEF IInv, Fetch, serverVars, userVars
<1>2. Grows /\ \A m \in Names : Latest(m)' = Latest(m)
  BY <1>1, SameGrows
<1>3. SeenOK'
  BY <1>1, <1>2, SeenKept
<1>4. RestOK'
  BY <1>1 DEF Fetch, AwaitTTL, RestOK, TypeOK
<1>5. seen[n] \in 1 .. Len(log[n]) /\ Cached(n) = log[n][seen[n]] /\ Cached(n) \in Objects
  BY <1>1, LatestTyped DEF TypeOK, Cached
<1>6. CASE UNCHANGED worker
  BY <1>1, <1>2, <1>3, <1>4, <1>6, WorkersWait, QuietStep
<1>7. ASSUME NEW pc \in {"claim", "delete"}, Become(n, at(pc)), Cached(n).phase # "absent",
             pc = "claim" => Cached(n).phase = "Pending"
      PROVE  IInv'
  <2>1. at(pc) \in Workers /\ at(pc).pc = pc /\ at(pc).name = n /\ at(pc).rv = seen[n]
    BY <1>1, <1>7 DEF Workers, TypeOK
  <2>2. log'[n][seen[n]].uid # 0
    BY <1>1, <1>5, <1>7 DEF Objects
  <2>3. /\ WorkersOK' /\ worker'[ControllerOf(n)] = at(pc)
        /\ n \in Health => worker'[Troubleshoot] = worker[Troubleshoot]
    BY <1>1, <1>2, <1>5, <1>7, <2>1, <2>2, WorkersStep
  <2>4. CASE n \in Health
    BY <1>1, <1>2, <1>3, <1>4, <2>3, <2>4, QuietStep
  <2>5. CASE n \in Troubleshoot
    <3>1. worker'[Troubleshoot] = at(pc)
      BY <2>3, <2>5, OneController
    <3>2. worker'[Troubleshoot].pc # "work"
      BY <1>7, <2>1, <3>1
    <3>3. \A t \in Troubleshoot : ClaimsPending(worker[Troubleshoot], t)'
      BY <1>1, <1>5, <1>7, <2>1, <3>1 DEF ClaimsPending, Holds
    <3> QED
      BY <1>1, <1>2, <1>3, <1>4, <2>3, <3>2, <3>3, QuietStep
  <2> QED
    BY <2>4, <2>5 DEF Names
<1> QED
  BY <1>6, <1>7 DEF Fetch, ToStart, Finished

\* The write of Running: an accepted one claims the latest version, which is Pending
\* when it is the one that was read.
LEMMA ClaimKeeps ==
  ASSUME IInv, NEW n \in Names, Claim(n)
  PROVE  IInv'
<1> DEFINE running == Started(Latest(n))
           w == WorkerOf(n)
           new == Claimed(w, Len(log[n]) + 1)
<1>1. /\ TypeOK /\ At(n, "claim") /\ UNCHANGED <<seen, due, queue, notifying, executed, userVars>>
      /\ Latest(n) \in Objects /\ Len(log[n]) \in Nat \ {0}
      /\ Exists(n) <=> Latest(n).uid # 0
  BY LatestTyped DEF IInv, Claim
<1>2. Exists(n) => /\ running \in Objects
                   /\ running.phase = "Running" /\ running.uid = Latest(n).uid
  BY <1>1, Written
<1>3. CASE Accepts(n) /\ Write(n, running) /\ Become(n, new) /\ UNCHANGED <<delayed, faults>>
  <2>1. Exists(n) /\ running \in Objects
    BY <1>2, <1>3 DEF Accepts
  <2>2. /\ Grows /\ Len(log'[n]) = Len(log[n]) + 1 /\ log'[n][Len(log[n]) + 1] = running
        /\ Latest(n)' = running /\ \A m \in Names \ {n} : Latest(m)' = Latest(m)
    BY <1>1, <1>3, <2>1, WriteAdds
  <2>3. w \in Workers /\ w.pc = "claim" /\ w.name = n
    BY <1>1, OneController DEF TypeOK, At, WorkerOf
  <2>4. /\ new \in Workers /\ new.pc = "work" /\ new.name = n /\ new.rv = Len(log[n]) + 1
    BY <1>1, <2>3, ClaimedWorker
  <2>5. /\ WorkersOK' /\ worker'[ControllerOf(n)] = new
        /\ n \in Health => worker'[Troubleshoot] = worker[Troubleshoot]
    BY <1>1, <1>2, <1>3, <2>1, <2>2, <2>4, WorkersStep
  <2>6. SeenOK' /\ RestOK' /\ UNCHANGED <<executed, creates>>
    BY <1>1, <1>3, <2>2, SeenKept DEF RestOK, TypeOK, userVars
  <2>7. CASE n \in Health
    BY <1>2, <2>1, <2>2, <2>5, <2>6, <2>7, QuietStep
  <2>8. CASE n \in Troubleshoot
    <3> DEFINE u == Latest(n).uid
    <3>1. TypeOK'
      BY <2>2, <2>5, <2>6 DEF Grows, SeenOK, WorkersOK, RestOK, TypeOK
    <3>2. Issued'
      BY <1>2, <2>1, <2>2, <2>6 DEF IInv, Issued
    <3>3. Latest(n).phase = "Pending"
      BY <1>1, <1>3, <2>8, OneController DEF IInv, Once, ClaimsPending, Holds, Accepts,
                                             At, WorkerOf, Latest
    <3>4. u \in 1 .. MaxCreates /\ u <= creates
      BY <1>1, <2>1, BoundsAssumption DEF Objects, IInv, Issued
    <3>5. executed[n][u] = 0
      BY <2>8, <3>3, <3>4 DEF IInv, Once, Unworked, Uid
    <3>6. worker'[Troubleshoot] = new
      BY <2>5, <2>8, OneController
    <3>7. ASSUME NEW t \in Troubleshoot PROVE Once(t)'
      <4>1. t \in Names /\ Once(t)
        BY DEF IInv, Names
      <4>2. Latest(t)' = Latest(t) \/ Latest(t)'.phase # "Pending"
        BY <1>2, <2>1, <2>2, <4>1
      <4>3. Unworked(t)'
        BY <2>6, <4>1, <4>2 DEF Once, Unworked, Uid
      <4>4. ClaimsPending(worker[Troubleshoot], t)'
        BY <2>4, <3>6 DEF ClaimsPending, Holds
      <4>5. WorksOnce(worker[Troubleshoot], t)'
        BY <1>2, <2>1, <2>2, <2>4, <2>6, <3>4, <3>5, <3>6 DEF WorksOnce, Holds, Uid
      <4> QED
        BY <4>3, <4>4, <4>5 DEF Once
    <3> QED
      BY <3>1, <3>2, <3>7 DEF IInv
  <2> QED
    BY <2>7, <2>8 DEF Names
<1>4. CASE ~Accepts(n) /\ ReturnError(n) /\ UNCHANGED <<log, faults>>
  BY <1>1, <1>4, Constants, FailureKeeps
<1>5. CASE WriteFails(n, Accepts(n), running)
  <2>1. CASE Accepts(n)
    <3>1. Exists(n) /\ WriteFails(n, TRUE, running)
      BY <1>5, <2>1 DEF Accepts, WriteFails
    <3> QED
      BY <1>1, <1>2, <1>5, <3>1, FailureKeeps
  <2>2. CASE ~Accepts(n)
    <3>1. WriteFails(n, FALSE, Absent)
      BY <1>5, <2>2 DEF WriteFails
    <3> QED
      BY <1>1, <3>1, Constants, FailureKeeps
  <2> QED
    BY <2>1, <2>2
<1> QED
  BY <1>3, <1>4, <1>5 DEF Claim

\* Checks and diagnosis: the request counts as worked on, and is not Pending.
LEMMA WorkKeeps ==
  ASSUME IInv, NEW n \in Names, Work(n)
  PROVE  IInv'
<1> DEFINE w == WorkerOf(n)
           u == log[n][w.rv].uid
<1>1. /\ TypeOK /\ w \in Workers /\ w.pc = "work" /\ w.name = n
      /\ w.rv \in 1 .. Len(log[n]) /\ u # 0
  <2>1. TypeOK /\ w.pc = "work" /\ w.name = n
    BY DEF IInv, Work, At
  <2>2. w \in Workers /\ BusyOK(w, ControllerOf(n))
    BY <2>1, OneController DEF TypeOK, WorkerOf
  <2> QED
    BY <2>1, <2>2 DEF BusyOK
<1>2. u \in 1 .. MaxCreates
  <2>1. log[n][w.rv] \in Objects
    BY <1>1 DEF TypeOK
  <2> QED
    BY <1>1, <2>1, BoundsAssumption DEF Objects
<1>3. PICK result \in {"Completed", "Failed"} : Become(n, Worked(w, result))
  BY DEF Work
<1>4. UNCHANGED <<log, seen, queue, delayed, notifying, creates>>
  BY DEF Work, serverVars, queueVars, userVars
<1>5. executed' = [executed EXCEPT ![n][u] = @ + 1]
  BY Zenon DEF Work
<1>6. Grows /\ \A m \in Names : Latest(m)' = Latest(m)
  BY <1>1, <1>4, SameGrows
<1>7. /\ Worked(w, result) \in Workers /\ Worked(w, result).pc = "finish"
      /\ Worked(w, result).name = n /\ Worked(w, result).rv = w.rv
      /\ Worked(w, result).result = result
  BY <1>1, WorkedWorker
<1>8. /\ WorkersOK' /\ worker'[ControllerOf(n)] = Worked(w, result)
      /\ n \in Health => worker'[Troubleshoot] = worker[Troubleshoot]
  BY <1>1, <1>3, <1>4, <1>6, <1>7, WorkersStep
<1>9. SeenOK'
  BY <1>1, <1>4, <1>6, SeenKept
<1>10. /\ executed' \in [Names -> [1 .. MaxCreates -> Nat]]
       /\ \A m \in Names \ {n} : executed'[m] = executed[m]
       /\ executed'[n][u] = executed[n][u] + 1
       /\ \A v \in (1 .. MaxCreates) \ {u} : executed'[n][v] = executed[n][v]
  <2> DEFINE k == executed[n][u] + 1
             row == [executed[n] EXCEPT ![u] = k]
  <2>1. executed \in [Names -> [1 .. MaxCreates -> Nat]]
    BY <1>1 DEF TypeOK
  <2>2. executed' = [executed EXCEPT ![n] = row]
    BY <1>5
  <2> HIDE DEF u
  <2>3. executed[n] \in [1 .. MaxCreates -> Nat]
    BY <2>1
  <2>4. k \in Nat
    <3>1. executed[n][u] \in Nat
      BY <1>2, <2>3
    <3> QED
      BY <3>1
  <2> HIDE DEF k
  <2>5. /\ row \in [1 .. MaxCreates -> Nat] /\ row[u] = k
        /\ \A v \in (1 .. MaxCreates) \ {u} : row[v] = executed[n][v]
    BY <1>2, <2>3, <2>4
  <2> HIDE DEF row
  <2> QED
    BY <2>1, <2>2, <2>5 DEF k
<1>11. TypeOK'
  BY <1>1, <1>4, <1>6, <1>8, <1>9, <1>10 DEF Grows, SeenOK, WorkersOK, TypeOK
<1>12. Issued'
  BY <1>4, <1>6 DEF IInv, Issued
<1>13. ASSUME NEW t \in Troubleshoot PROVE Once(t)'
  <2>1. t \in Names /\ Once(t)
    BY DEF IInv, Names
  <2>2. CASE n \in Health
    <3>1. t # n /\ worker'[Troubleshoot] = worker[Troubleshoot]
      BY <1>8, <2>2, NamesAssumption
    <3> QED
      BY <1>4, <1>6, <1>10, <2>1, <3>1
      DEF Once, Unworked, ClaimsPending, WorksOnce, Holds, Uid
  <2>3. CASE n \in Troubleshoot
    <3>1. worker'[Troubleshoot] = Worked(w, result) /\ worker[Troubleshoot] = w
      BY <1>8, <2>3, OneController DEF WorkerOf
    <3>2. ClaimsPending(worker[Troubleshoot], t)' /\ WorksOnce(worker[Troubleshoot], t)'
      BY <1>7, <3>1 DEF ClaimsPending, WorksOnce, Holds
    <3>3. CASE t # n
      BY <1>4, <1>6, <1>10, <2>1, <3>2, <3>3 DEF Once, Unworked, Uid
    <3>4. CASE t = n
      <4>1. u <= creates /\ executed[n][u] = 0 /\ ~Uid(Latest(n), u)
        BY <1>1, <2>1, <3>1, <3>4 DEF Once, WorksOnce, Holds
      <4>2. executed'[n][u] = 1
        BY <1>10, <4>1
      <4>3. ASSUME NEW v \in 1 .. MaxCreates
            PROVE  /\ executed'[n][v] \in {0, 1}
                   /\ v > creates => executed'[n][v] = 0
                   /\ Uid(Latest(n), v) => executed'[n][v] = 0
        <5>1. CASE v = u
          <6>1. ~(v > creates)
            BY <1>1, <1>2, <4>1, <5>1 DEF TypeOK
          <6> QED
            BY <4>1, <4>2, <5>1, <6>1
        <5>2. CASE v # u
          BY <1>10, <2>1, <3>4, <5>2 DEF Once, Unworked
        <5> QED
          BY <5>1, <5>2
      <4> QED
        BY <1>4, <1>6, <2>1, <3>2, <3>4, <4>3 DEF Once, Unworked, Uid
    <3> QED
      BY <3>3, <3>4
  <2> QED
    BY <2>1, <2>2, <2>3 DEF Names
<1> QED
  BY <1>11, <1>12, <1>13 DEF IInv

\* The final status write: accepted, refused or failed, the request is not Pending.
LEMMA FinishKeeps ==
  ASSUME IInv, NEW n \in Names, Finish(n)
  PROVE  IInv'
<1> DEFINE w == WorkerOf(n)
           finished == Ended(Latest(n), w.result, Len(log[n]) + 1)
<1>1. /\ TypeOK /\ UNCHANGED <<seen, due, queue, notifying, executed, userVars>>
      /\ Latest(n) \in Objects /\ Len(log[n]) \in Nat
      /\ Exists(n) <=> Latest(n).uid # 0
      /\ w.pc = "finish" /\ w.name = n
  BY LatestTyped DEF IInv, Finish, At
<1>2. w \in Workers /\ BusyOK(w, ControllerOf(n))
  BY <1>1, OneController DEF TypeOK, WorkerOf
<1>3. w.result \in {"Completed", "Failed"}
  BY <1>1, <1>2 DEF Workers, IdleWorker, BusyOK
<1>4. Exists(n) => /\ finished \in Objects /\ finished.phase # "Pending"
                   /\ finished.uid = Latest(n).uid
  <2> DEFINE obj == Latest(n)
             version == Len(log[n]) + 1
             result == w.result
  <2>1. /\ obj \in Objects /\ version \in Nat /\ result \in {"Completed", "Failed"}
        /\ Exists(n) => obj.uid # 0
    BY <1>1, <1>3
  <2>2. result # "Pending"
    BY <1>3
  <2> HIDE DEF obj, version, result
  <2>3. Exists(n) => /\ Ended(obj, result, version) \in Objects
                     /\ Ended(obj, result, version).phase = result
                     /\ Ended(obj, result, version).uid = obj.uid
    BY <2>1, Written
  <2> QED
    BY <2>2, <2>3 DEF obj, version, result
<1>5. CASE /\ Exists(n) /\ Write(n, finished) /\ UNCHANGED <<delayed, faults>>
           /\ IF n \in Health /\ w.result = "Completed" THEN Goto(n, "notify") ELSE Return(n)
  <2>1. Grows /\ Len(log'[n]) = Len(log[n]) + 1 /\ \A i \in 1 .. Len(log[n]) : log'[n][i] = log[n][i]
    BY <1>1, <1>4, <1>5, WriteAdds DEF Grows
  <2>2. RestOK' /\ UNCHANGED creates
    BY <1>1, <1>5 DEF RestOK, TypeOK, userVars
  <2>3. CASE Return(n)
    BY <1>1, <1>4, <1>5, <2>1, <2>2, <2>3, ReturnHolds, ReconcileWrites
  <2>4. CASE n \in Health /\ Goto(n, "notify")
    <3> DEFINE new == [w EXCEPT !.pc = "notify"]
    <3>1. new \in Workers /\ new.pc = "notify" /\ new.name = n /\ new.rv = w.rv
      BY <1>1, <1>2 DEF Workers, IdleWorker
    <3>2. Become(n, new)
      BY <2>4 DEF Goto
    <3>3. new.rv \in 1 .. Len(log'[n]) /\ log'[n][new.rv].uid # 0
      BY <1>1, <1>2, <2>1, <3>1 DEF BusyOK
    <3> HIDE DEF new
    <3>4. WorkersOK' /\ worker'[Troubleshoot] = worker[Troubleshoot]
      BY <1>1, <2>1, <2>4, <3>1, <3>2, <3>3, WorkersStep
    <3> QED
      BY <1>1, <1>4, <1>5, <2>2, <3>4, ReconcileWrites
  <2> QED
    BY <1>5, <2>3, <2>4
<1>6. CASE ~Exists(n) /\ ReturnError(n) /\ UNCHANGED <<log, faults>>
  BY <1>1, <1>6, Constants, FailureKeeps
<1>7. CASE WriteFails(n, Exists(n), finished)
  <2>1. CASE Exists(n)
    <3>1. WriteFails(n, TRUE, finished)
      BY <1>7, <2>1 DEF WriteFails
    <3> QED
      BY <1>1, <1>4, <2>1, <3>1, FailureKeeps
  <2>2. CASE ~Exists(n)
    <3>1. WriteFails(n, FALSE, Absent)
      BY <1>7, <2>2 DEF WriteFails
    <3> QED
      BY <1>1, <3>1, Constants, FailureKeeps
  <2> QED
    BY <2>1, <2>2
<1> QED
  BY <1>5, <1>6, <1>7 DEF Finish, FinalPhase

\* Notifications: at most as many as there are slots (launchNotifications).
LEMMA LaunchKeeps ==
  ASSUME IInv, NEW n \in Names, LaunchNotifications(n)
  PROVE  IInv'
<1>1. TypeOK /\ Return(n) /\ UNCHANGED <<log, seen, queue, delayed, executed, creates>>
  BY DEF IInv, LaunchNotifications, serverVars, queueVars, userVars
<1>2. notifying' \in 0 .. NotifyCapacity
  BY <1>1, CapacityAssumption DEF TypeOK, LaunchNotifications, HasSlot
<1>3. RestOK'
  BY <1>1, <1>2 DEF RestOK, TypeOK
<1>4. Grows
  BY <1>1, SameGrows
<1> QED
  BY <1>1, <1>3, <1>4, Constants, ReturnHolds, ReconcileWrites

\* The deletion of an expired request.
LEMMA DeleteKeeps ==
  ASSUME IInv, NEW n \in Names, DeleteExpired(n)
  PROVE  IInv'
<1>1. TypeOK /\ UNCHANGED <<seen, due, queue, notifying, executed, userVars>>
  BY DEF IInv, DeleteExpired
<1>2. CASE Write(n, Absent) /\ Return(n) /\ UNCHANGED <<delayed, faults>>
  <2>1. Grows
    BY <1>1, <1>2, Constants, WriteAdds
  <2>2. RestOK' /\ UNCHANGED creates
    BY <1>1, <1>2 DEF RestOK, TypeOK, userVars
  <2> QED
    BY <1>1, <1>2, <2>1, <2>2, Constants, ReturnHolds, ReconcileWrites
<1>3. CASE ~Exists(n) /\ ReturnError(n) /\ UNCHANGED <<log, faults>>
  BY <1>1, <1>3, Constants, FailureKeeps
<1>4. CASE WriteFails(n, Exists(n), Absent)
  <2>1. WriteFails(n, TRUE, Absent)
    BY <1>4 DEF WriteFails
  <2> QED
    BY <1>1, <2>1, Constants, FailureKeeps
<1> QED
  BY <1>2, <1>3, <1>4 DEF DeleteExpired

\* Every step keeps the invariant.
LEMMA NextIInv == IInv /\ [Next]_vars => IInv'
<1> SUFFICES ASSUME IInv, [Next]_vars PROVE IInv'
  OBVIOUS
<1>1. CASE UNCHANGED vars
  <2>1. TypeOK /\ UNCHANGED <<log, seen, queue, delayed, worker, notifying, executed, creates>>
    BY <1>1 DEF IInv, vars, serverVars, queueVars, userVars
  <2>2. Grows /\ \A m \in Names : Latest(m)' = Latest(m)
    BY <2>1, SameGrows
  <2>3. SeenOK' /\ WorkersOK' /\ RestOK'
    BY <2>1, <2>2, SeenKept, WorkersWait DEF TypeOK, RestOK
  <2> QED
    BY <2>1, <2>2, <2>3, QuietStep
<1>2. ASSUME NEW n \in Names, ReconcileStep(n) PROVE IInv'
  BY <1>2, ClaimKeeps, WorkKeeps, FinishKeeps, LaunchKeeps, DeleteKeeps DEF ReconcileStep
<1>3. ASSUME NEW n \in Names, \/ Create(n) \/ Edit(n) \/ UserDeletes(n)
                              \/ Observe(n) \/ Requeue(n) \/ TTLEnds(n) \/ Fetch(n)
      PROVE  IInv'
  BY <1>3, CreateKeeps, UserKeeps, AroundKeeps, FetchKeeps
<1> QED
  BY <1>1, <1>2, <1>3, AroundKeeps DEF Next

\* The invariant holds in every state of the two controllers.
THEOREM Invariant == Spec => []IInv
  BY InitIInv, NextIInv, PTL DEF Spec

\* Phases, cache, workers and notification slots keep their types: among them that a
\* worker holds a version that exists, and that no more notifications are under way
\* than NotifySem has slots.
THEOREM TypeCorrect == Spec => []TypeOK
<1>1. IInv => TypeOK
  BY DEF IInv
<1> QED
  BY <1>1, Invariant, PTL

\* A TroubleshootRequest is diagnosed at most once, for any number of requests, edits,
\* failed or lost writes and restarts (the update under the version that was read,
\* troubleshootrequest_controller.go).
THEOREM ExecutedOnceHolds == Spec => []ExecutedOnce
<1>1. IInv => ExecutedOnce
  <2> SUFFICES ASSUME IInv, NEW n \in Troubleshoot, NEW u \in DOMAIN executed[n]
               PROVE  executed[n][u] <= 1
    BY DEF ExecutedOnce
  <2>1. u \in 1 .. MaxCreates
    BY DEF IInv, TypeOK, Names
  <2>2. executed[n][u] \in {0, 1}
    BY <2>1 DEF IInv, Once, Unworked
  <2> QED
    BY <2>2
<1> QED
  BY <1>1, Invariant, PTL

-----------------------------------------------------------------------------
(***************************************************************************)
(* The life cycle of a TroubleshootRequest.  The final status patch is     *)
(* applied to whatever object has the name by then, so that a request made *)
(* anew while the worker diagnoses its predecessor would be finished       *)
(* without having been started.  Unless that happens, a request that is    *)
(* being worked on is Running or gone, and each write of a worker is a     *)
(* step of the life cycle.                                                 *)
(***************************************************************************)

WorksOn(t) == At(t, "work") \/ At(t, "finish")

\* No name is given to a new request while the worker is busy with the old one.
NotReusedWhileWorkedOn == \A t \in Troubleshoot : Create(t) => ~WorksOn(t)

RunningWhileWorkedOn ==
  \A t \in Troubleshoot : WorksOn(t) => Latest(t).phase \in {"Running", "absent"}

\* The phase a life cycle may put in the place of another.
Allowed(from, to) ==
  \/ from = "absent" /\ to = "Pending"
  \/ from = "Pending" /\ to = "Running"
  \/ from = "Running" /\ to \in {"Completed", "Failed"}
  \/ from # "absent" /\ to = "absent"

LifeStep ==
  \/ \A t \in Troubleshoot : Latest(t)' = Latest(t)
  \/ \E t \in Troubleshoot :
       /\ \A s \in Troubleshoot \ {t} : Latest(s)' = Latest(s)
       /\ Allowed(Latest(t).phase, Latest(t)'.phase)

\* The worker of a TroubleshootRequest is that of their controller.
LEMMA TroubleshootWorker ==
  ASSUME NEW t \in Troubleshoot
  PROVE  /\ t \in Names
         /\ WorksOn(t) <=> /\ worker[Troubleshoot].name = t
                           /\ worker[Troubleshoot].pc \in {"work", "finish"}
         /\ WorksOn(t)' <=> /\ worker'[Troubleshoot].name = t
                            /\ worker'[Troubleshoot].pc \in {"work", "finish"}
<1>1. t \in Names /\ ControllerOf(t) = Troubleshoot
  BY OneController DEF Names
<1> QED
  BY <1>1 DEF WorksOn, At, WorkerOf

\* A write changes the phase of at most one request, a worker's of one of its own.
LEMMA WriteMoves ==
  ASSUME TypeOK, NEW n \in Names, NEW obj \in Objects, Write(n, obj),
         n \in Troubleshoot => Allowed(Latest(n).phase, obj.phase)
  PROVE  LifeStep
<1>1. Latest(n)' = obj /\ \A m \in Names \ {n} : Latest(m)' = Latest(m)
  BY WriteAdds
<1>2. CASE n \in Troubleshoot
  BY <1>1, <1>2 DEF LifeStep, Names
<1>3. CASE n \notin Troubleshoot
  BY <1>1, <1>3 DEF LifeStep, Names
<1> QED
  BY <1>2, <1>3

\* A step that starts no work, and finishes or makes no request that is worked on.
LEMMA StillRunning ==
  ASSUME RunningWhileWorkedOn,
         \/ worker'[Troubleshoot] = worker[Troubleshoot]
         \/ worker'[Troubleshoot].pc \notin {"work", "finish"},
         \A t \in Troubleshoot : \/ Latest(t)' = Latest(t) \/ ~WorksOn(t)
                                 \/ Latest(t)'.phase \in {"Running", "absent"}
  PROVE  RunningWhileWorkedOn'
<1> SUFFICES ASSUME NEW t \in Troubleshoot, WorksOn(t)'
             PROVE  Latest(t)'.phase \in {"Running", "absent"}
  BY DEF RunningWhileWorkedOn
<1>1. WorksOn(t)
  BY TroubleshootWorker
<1> QED
  BY <1>1 DEF RunningWhileWorkedOn

\* A worker that returns from Reconcile, with or without a write.
LEMMA ReturnLife ==
  ASSUME TypeOK, RunningWhileWorkedOn, NEW n \in Names, Return(n),
         \/ UNCHANGED log
         \/ \E obj \in Objects :
              Write(n, obj) /\ (n \in Troubleshoot => Allowed(Latest(n).phase, obj.phase))
  PROVE  LifeStep /\ RunningWhileWorkedOn'
<1>1. Grows /\ \A m \in Names \ {n} : Latest(m)' = Latest(m)
  BY WriteAdds, SameGrows
<1>2. LifeStep
  <2>1. CASE UNCHANGED log
    BY <2>1, SameGrows DEF LifeStep, Names
  <2> QED
    BY <2>1, WriteMoves
<1>3. RunningWhileWorkedOn'
  <2>1. CASE n \in Health
    <3>1. worker'[Troubleshoot] = worker[Troubleshoot]
      BY <1>1, <2>1, WorkersReturn
    <3>2. \A t \in Troubleshoot : Latest(t)' = Latest(t)
      BY <1>1, <2>1, NamesAssumption DEF Names
    <3> QED
      BY <3>1, <3>2, StillRunning
  <2>2. CASE n \in Troubleshoot
    <3>1. worker'[Troubleshoot].pc = "idle"
      BY <1>1, <2>2, WorkersReturn, OneController, Constants
    <3> QED
      BY <3>1, TroubleshootWorker DEF RunningWhileWorkedOn
  <2> QED
    BY <2>1, <2>2 DEF Names
<1> QED
  BY <1>2, <1>3

\* A write that may have failed: its effect, if it had one, is allowed.
LEMMA FailureLife ==
  ASSUME TypeOK, RunningWhileWorkedOn, NEW n \in Names, NEW obj,
         \/ WriteFails(n, Exists(n), obj)
         \/ ReturnError(n) /\ UNCHANGED log
         \/ Return(n) /\ Exists(n) /\ Write(n, obj),
         Exists(n) => obj \in Objects /\ (n \in Troubleshoot => Allowed(Latest(n).phase, obj.phase))
  PROVE  LifeStep /\ RunningWhileWorkedOn'
<1>1. Return(n) /\ (UNCHANGED log \/ (Exists(n) /\ Write(n, obj)))
  BY DEF WriteFails, ReturnError
<1> QED
  BY <1>1, ReturnLife

\* Users make requests and delete them.
LEMMA UserLife ==
  ASSUME IInv, RunningWhileWorkedOn, NotReusedWhileWorkedOn,
         NEW n \in Names, Create(n) \/ Edit(n) \/ UserDeletes(n)
  PROVE  LifeStep /\ RunningWhileWorkedOn'
<1>1. TypeOK /\ worker' = worker /\ Latest(n) \in Objects
  BY LatestTyped DEF IInv, Create, Edit, UserDeletes
<1>2. CASE Create(n)
  <2>1. PICK ttl \in BOOLEAN : Write(n, Request(creates + 1, ttl))
    BY <1>2 DEF Create
  <2>2. Request(creates + 1, ttl) \in Objects /\ Request(creates + 1, ttl).phase = "Pending"
    BY <1>1, <1>2, Constants, BoundsAssumption DEF Create, TypeOK
  <2>3. Latest(n).phase = "absent"
    BY <1>2 DEF Create, Exists
  <2>4. LifeStep
    BY <1>1, <2>1, <2>2, <2>3, WriteMoves DEF Allowed
  <2>5. \A m \in Names \ {n} : Latest(m)' = Latest(m)
    BY <1>1, <2>1, <2>2, WriteAdds
  <2>6. \A t \in Troubleshoot : Latest(t)' = Latest(t) \/ ~WorksOn(t)
    BY <1>2, <2>5 DEF NotReusedWhileWorkedOn, Names
  <2> QED
    BY <1>1, <2>4, <2>6, StillRunning
<1>3. CASE Edit(n)
  <2>1. \A m \in Names : Latest(m)' = Latest(m)
    BY <1>1, <1>3, WriteAdds DEF Edit
  <2> QED
    BY <1>1, <2>1, StillRunning DEF LifeStep, Names
<1>4. CASE UserDeletes(n)
  <2>1. Write(n, Absent) /\ Latest(n).phase # "absent"
    BY <1>4 DEF UserDeletes, Exists
  <2>2. LifeStep
    BY <1>1, <2>1, Constants, WriteMoves DEF Allowed
  <2>3. \A m \in Names : Latest(m)' = Latest(m) \/ Latest(m)'.phase = "absent"
    BY <1>1, <2>1, Constants, WriteAdds
  <2> QED
    BY <1>1, <2>2, <2>3, StillRunning DEF Names
<1> QED
  BY <1>2, <1>3, <1>4

\* The cache, the queue, the timers, a restart and a read write nothing, and start
\* no work.
LEMMA AroundLife ==
  ASSUME IInv, RunningWhileWorkedOn,
         \/ \E n \in Names : Observe(n) \/ Requeue(n) \/ TTLEnds(n) \/ Fetch(n)
         \/ NotificationEnds \/ Restart
  PROVE  LifeStep /\ RunningWhileWorkedOn'
<1>1. TypeOK /\ UNCHANGED log
  BY DEF IInv, Observe, Requeue, TTLEnds, Fetch, NotificationEnds, Restart, serverVars
<1>2. \A t \in Troubleshoot : Latest(t)' = Latest(t)
  BY <1>1, SameGrows DEF Names
<1>3. \/ worker'[Troubleshoot] = worker[Troubleshoot]
      \/ worker'[Troubleshoot].pc \notin {"work", "finish"}
  <2>1. CASE UNCHANGED worker
    BY <2>1
  <2>2. CASE Restart
    BY <2>2, Constants DEF Restart, Controllers
  <2>3. ASSUME NEW n \in Names, NEW pc \in {"claim", "delete"},
               Become(n, [pc |-> pc, name |-> n, rv |-> seen[n], result |-> "none"])
        PROVE  \/ worker'[Troubleshoot] = worker[Troubleshoot]
               \/ worker'[Troubleshoot].pc \notin {"work", "finish"}
    BY <1>1, <2>3 DEF Become, TypeOK, Controllers
  <2> QED
    BY <2>1, <2>2, <2>3 DEF Observe, Requeue, TTLEnds, Fetch, NotificationEnds
<1> QED
  BY <1>2, <1>3, StillRunning DEF LifeStep

\* The write of Running takes a Pending request to Running.
LEMMA ClaimLife ==
  ASSUME IInv, RunningWhileWorkedOn, NEW n \in Names, Claim(n)
  PROVE  LifeStep /\ RunningWhileWorkedOn'
<1> DEFINE running == Started(Latest(n))
           w == WorkerOf(n)
<1>1. /\ TypeOK /\ At(n, "claim") /\ Latest(n) \in Objects
      /\ Exists(n) <=> Latest(n).uid # 0
      /\ w \in Workers /\ w.pc = "claim" /\ w.name = n
  BY LatestTyped, OneController DEF IInv, Claim, TypeOK, At, WorkerOf
<1>2. Exists(n) => running \in Objects /\ running.phase = "Running"
  BY <1>1, Written
<1>3. Accepts(n) /\ n \in Troubleshoot => Latest(n).phase = "Pending"
  BY <1>1, OneController DEF IInv, Once, ClaimsPending, Holds, Accepts, At, WorkerOf, Latest
<1>4. CASE Accepts(n) /\ Write(n, running) /\ Become(n, Claimed(w, Len(log[n]) + 1))
  <2>1. Exists(n)
    BY <1>4 DEF Accepts
  <2>2. LifeStep
    BY <1>1, <1>2, <1>3, <1>4, <2>1, WriteMoves DEF Allowed
  <2>3. Latest(n)' = running /\ \A m \in Names \ {n} : Latest(m)' = Latest(m)
    BY <1>1, <1>2, <1>4, <2>1, WriteAdds
  <2>4. CASE n \in Troubleshoot
    <3>1. worker'[Troubleshoot].name = n
      <4>1. Claimed(w, Len(log[n]) + 1).name = n
        BY <1>1, LatestTyped, ClaimedWorker
      <4> QED
        BY <1>1, <1>4, <2>4, <4>1, OneController DEF Become, TypeOK
    <3> SUFFICES ASSUME NEW t \in Troubleshoot, WorksOn(t)'
                 PROVE  Latest(t)'.phase \in {"Running", "absent"}
      BY <2>2 DEF RunningWhileWorkedOn
    <3>2. t = n
      BY <3>1, TroubleshootWorker
    <3> QED
      BY <1>2, <2>1, <2>3, <3>2
  <2>5. CASE n \in Health
    <3>1. worker'[Troubleshoot] = worker[Troubleshoot]
      BY <1>1, <1>4, <2>5, OneController DEF Become, TypeOK, Controllers
    <3>2. \A t \in Troubleshoot : Latest(t)' = Latest(t)
      BY <2>3, <2>5, NamesAssumption DEF Names
    <3> QED
      BY <2>2, <3>1, <3>2, StillRunning
  <2> QED
    BY <2>4, <2>5 DEF Names
<1>5. CASE ReturnError(n) /\ UNCHANGED log
  BY <1>1, <1>5, ReturnLife DEF ReturnError
<1>6. CASE WriteFails(n, Accepts(n), running)
  <2>1. Return(n) /\ (UNCHANGED log \/ (Accepts(n) /\ Write(n, running)))
    BY <1>6 DEF WriteFails, ReturnError
  <2>2. Accepts(n) => /\ running \in Objects
                      /\ n \in Troubleshoot => Allowed(Latest(n).phase, running.phase)
    BY <1>2, <1>3 DEF Accepts, Allowed
  <2> QED
    BY <1>1, <2>1, <2>2, ReturnLife
<1> QED
  BY <1>4, <1>5, <1>6 DEF Claim

\* The diagnosis writes nothing and goes on to the final write.
LEMMA WorkLife ==
  ASSUME IInv, RunningWhileWorkedOn, NEW n \in Names, Work(n)
  PROVE  LifeStep /\ RunningWhileWorkedOn'
<1> DEFINE w == WorkerOf(n)
<1>1. /\ TypeOK /\ UNCHANGED log /\ w.pc = "work" /\ w.name = n /\ w \in Workers
  BY OneController DEF IInv, Work, At, TypeOK, WorkerOf, serverVars
<1>2. PICK result \in {"Completed", "Failed"} : Become(n, Worked(w, result))
  BY DEF Work
<1>3. \A t \in Troubleshoot : Latest(t)' = Latest(t)
  BY <1>1, SameGrows DEF Names
<1>4. CASE n \in Troubleshoot
  <2>1. worker'[Troubleshoot].name = n /\ WorksOn(n)
    <3>1. Worked(w, result).name = n
      BY <1>1, WorkedWorker
    <3> QED
      BY <1>1, <1>2, <1>4, <3>1, OneController DEF Become, TypeOK, WorksOn, At
  <2>2. ASSUME NEW t \in Troubleshoot, WorksOn(t)' PROVE WorksOn(t)
    BY <2>1, <2>2, TroubleshootWorker
  <2> QED
    BY <1>3, <2>2 DEF LifeStep, RunningWhileWorkedOn
<1>5. CASE n \in Health
  <2>1. worker'[Troubleshoot] = worker[Troubleshoot]
    BY <1>1, <1>2, <1>5, OneController DEF Become, TypeOK, Controllers
  <2> QED
    BY <1>3, <2>1, StillRunning DEF LifeStep
<1> QED
  BY <1>4, <1>5 DEF Names

\* The final write ends a Running request.
LEMMA FinishLife ==
  ASSUME IInv, RunningWhileWorkedOn, NEW n \in Names, Finish(n)
  PROVE  LifeStep /\ RunningWhileWorkedOn'
<1> DEFINE w == WorkerOf(n)
           result == w.result
           finished == Ended(Latest(n), result, Len(log[n]) + 1)
<1>1. /\ TypeOK /\ Latest(n) \in Objects /\ Len(log[n]) \in Nat
      /\ Exists(n) <=> Latest(n).uid # 0
      /\ w.pc = "finish" /\ w.name = n /\ At(n, "finish")
  BY LatestTyped DEF IInv, Finish, At
<1>2. w \in Workers /\ BusyOK(w, ControllerOf(n))
  BY <1>1, OneController DEF TypeOK, WorkerOf
<1>3. result \in {"Completed", "Failed"}
  BY <1>1, <1>2 DEF Workers, IdleWorker, BusyOK
<1>4. Exists(n) => /\ finished \in Objects /\ finished.phase \in {"Completed", "Failed"}
                   /\ n \in Troubleshoot => Allowed(Latest(n).phase, finished.phase)
  <2> SUFFICES ASSUME Exists(n)
               PROVE  /\ finished \in Objects /\ finished.phase \in {"Completed", "Failed"}
                      /\ n \in Troubleshoot => Allowed(Latest(n).phase, finished.phase)
    OBVIOUS
  <2> DEFINE version == Len(log[n]) + 1
  <2>1. version \in Nat
    BY <1>1
  <2> HIDE DEF version, result
  <2>2. Ended(Latest(n), result, version) \in Objects /\ Ended(Latest(n), result, version).phase = result
    BY <1>1, <1>3, <2>1, Written
  <2>3. n \in Troubleshoot => Latest(n).phase = "Running"
    BY <1>1 DEF RunningWhileWorkedOn, WorksOn, Exists
  <2> QED
    BY <1>3, <2>2, <2>3 DEF Allowed, version
<1>5. CASE n \in Health /\ Goto(n, "notify") /\ Exists(n) /\ Write(n, finished)
  <2>1. worker'[Troubleshoot] = worker[Troubleshoot]
    BY <1>1, <1>5, OneController DEF Goto, Become, TypeOK, Controllers
  <2>2. LifeStep
    BY <1>1, <1>4, <1>5, WriteMoves
  <2>3. \A t \in Troubleshoot : Latest(t)' = Latest(t)
    BY <1>1, <1>4, <1>5, WriteAdds, NamesAssumption DEF Names
  <2> QED
    BY <2>1, <2>2, <2>3, StillRunning
<1>6. CASE \/ Return(n) /\ Exists(n) /\ Write(n, finished)
           \/ ReturnError(n) /\ UNCHANGED log
           \/ WriteFails(n, Exists(n), finished)
  BY <1>1, <1>4, <1>6, FailureLife
<1> QED
  BY <1>5, <1>6 DEF Finish, FinalPhase

\* The deletion of an expired request ends its life, whatever its phase.
LEMMA DeleteLife ==
  ASSUME IInv, RunningWhileWorkedOn, NEW n \in Names, DeleteExpired(n)
  PROVE  LifeStep /\ RunningWhileWorkedOn'
<1>1. TypeOK
  BY DEF IInv
<1>2. Exists(n) => Allowed(Latest(n).phase, Absent.phase)
  BY Constants DEF Exists, Allowed
<1>3. \/ Return(n) /\ Exists(n) /\ Write(n, Absent)
      \/ ReturnError(n) /\ UNCHANGED log
      \/ WriteFails(n, Exists(n), Absent)
  BY DEF DeleteExpired
<1> QED
  BY <1>1, <1>2, <1>3, Constants, FailureLife

\* Every step is a step of the life cycle, or none.
LEMMA NextLife ==
  ASSUME IInv, RunningWhileWorkedOn, NotReusedWhileWorkedOn, Next
  PROVE  LifeStep /\ RunningWhileWorkedOn'
<1>1. ASSUME NEW n \in Names, LaunchNotifications(n)
      PROVE  LifeStep /\ RunningWhileWorkedOn'
  BY <1>1, ReturnLife DEF LaunchNotifications, serverVars, IInv
<1> QED
  BY <1>1, UserLife, AroundLife, ClaimLife, WorkLife, FinishLife, DeleteLife
  DEF Next, ReconcileStep

\* A move that is allowed is an action of the life cycle.
LEMMA LifeImplemented ==
  ASSUME TypeOK, LifeStep
  PROVE  [Life!Next]_([n \in Troubleshoot |-> Latest(n).phase])
<1> DEFINE phase == [n \in Troubleshoot |-> Latest(n).phase]
<1>1. CASE \A t \in Troubleshoot : Latest(t)' = Latest(t)
  BY <1>1
<1>2. ASSUME NEW t \in Troubleshoot,
             \A s \in Troubleshoot \ {t} : Latest(s)' = Latest(s),
             Allowed(Latest(t).phase, Latest(t)'.phase)
      PROVE  Life!Next
  <2>1. phase' = [phase EXCEPT ![t] = Latest(t)'.phase]
    BY <1>2
  <2>2. Latest(t).phase \in Phases
    BY LatestTyped DEF Names, Objects
  <2>3. \/ Life!Create(t) \/ Life!Start(t) \/ Life!Finish(t) \/ Life!Remove(t)
    BY <1>2, <2>1, <2>2
    DEF Allowed, Phases, Life!Moves, Life!Create, Life!Start, Life!Finish, Life!Remove
  <2> QED
    BY <2>3 DEF Life!Next
<1> QED
  BY <1>1, <1>2 DEF LifeStep

\* The phases of a TroubleshootRequest follow its life cycle, for any number of
\* requests, edits, failed or lost writes, stale reads and restarts, as long as no
\* name is given to a new request while the worker still diagnoses the old one (the
\* update of troubleshootrequest_controller.go:112 and the final patch).
THEOREM LifecycleHolds ==
  Spec /\ [][NotReusedWhileWorkedOn]_vars => TroubleshootLifecycle
<1> DEFINE phase == [n \in Troubleshoot |-> Latest(n).phase]
<1>1. Init => Life!Init /\ RunningWhileWorkedOn
  <2> SUFFICES ASSUME Init PROVE Life!Init /\ RunningWhileWorkedOn
    OBVIOUS
  <2>1. \A t \in Troubleshoot : Latest(t) = Absent
    BY DEF Init, Latest, Names
  <2> QED
    BY <2>1, Constants DEF Life!Init, RunningWhileWorkedOn
<1>2. /\ IInv /\ RunningWhileWorkedOn /\ [Next]_vars /\ [NotReusedWhileWorkedOn]_vars
      => RunningWhileWorkedOn' /\ [Life!Next]_phase
  <2> SUFFICES ASSUME IInv, RunningWhileWorkedOn, [Next]_vars, [NotReusedWhileWorkedOn]_vars
               PROVE  RunningWhileWorkedOn' /\ [Life!Next]_phase
    OBVIOUS
  <2>1. TypeOK
    BY DEF IInv
  <2>2. CASE UNCHANGED vars
    <3>1. UNCHANGED <<log, worker>>
      BY <2>2 DEF vars, serverVars
    <3>2. \A t \in Troubleshoot : Latest(t)' = Latest(t)
      BY <2>1, <3>1, SameGrows DEF Names
    <3> QED
      BY <2>1, <3>1, <3>2, StillRunning, LifeImplemented DEF LifeStep
  <2>3. CASE Next /\ NotReusedWhileWorkedOn
    BY <2>1, <2>3, NextLife, LifeImplemented
  <2> QED
    BY <2>2, <2>3
<1> QED
  BY <1>1, <1>2, Invariant, PTL DEF Spec, TroubleshootLifecycle, Life!Spec
=============================================================================
