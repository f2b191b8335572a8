-------------------------- MODULE CheckRegistryProofs --------------------------
(***************************************************************************)
(* Theorems about CheckRegistry, for any set of plugins, any number of      *)
(* changes by the users, failed calls and restarts, and any delay of the    *)
(* informer's cache: a registered checker has an object that the finalizer  *)
(* holds, a ready plugin that is alone with its name is registered as it is *)
(* now, and a run of the checks reports it so.                              *)
(*                                                                          *)
(* Reconcile acts on what the cache showed when it began.  The invariant    *)
(* says what of that can still be relied on: only Reconcile releases an     *)
(* object, so a finalizer seen on an object that was not being deleted is   *)
(* still there, and a deletion that was seen goes on until Reconcile ends   *)
(* it.  Between two syncs the cache does not change, so the registry is     *)
(* compared with the cache, not with the object.                            *)
(***************************************************************************)
EXTENDS CheckRegistry, TLAPS

-----------------------------------------------------------------------------
(* The inductive invariant. *)

WorkerPcs == {"idle", "finalize", "compile", "status", "unregister", "release"}

\* The locals have their shape.
LocalsOK ==
  /\ worker \in [pc : WorkerPcs, plugin : Plugins \cup {Nobody}, copy : Objects]
  /\ run = [active |-> run.active, got |-> run.got]
  /\ run.got = [n \in DOMAIN run.got |-> run.got[n]]

\* Only a finalized object becomes ready or is marked as deleted.
WellFormed(object) ==
  /\ object.ready \/ object.deleting => object.finalizer
  /\ object.finalizer => object.exists

\* What the cache shows of the finalizer and of a deletion can be relied on.
ObjectInv ==
  \A p \in Plugins :
    /\ WellFormed(objects[p]) /\ WellFormed(cache[p])
    /\ cache[p].finalizer /\ ~cache[p].deleting => objects[p].finalizer
    /\ cache[p].deleting /\ objects[p].finalizer => objects[p].deleting

\* What Reconcile can still rely on, at each of its steps.
WorkerInv ==
  LET p == worker.plugin IN
  /\ worker.pc = "finalize" => (cache[p].deleting => objects[p].deleting)
  /\ worker.pc \in {"compile", "status"} => objects[p].finalizer
  /\ worker.pc \in {"unregister", "release"} =>
       /\ cache[p].finalizer => cache[p].deleting
       /\ objects[p].finalizer => objects[p].deleting
  /\ worker.pc = "release" => registry[Name(p)] = NoChecker

Seen(p) == [plugin |-> p, spec |-> cache[p].spec]

\* A plugin that the cache shows as ready is worked on with what the cache
\* holds, or was: it is registered so, or its readiness was taken back.
RegistryInv ==
  \A p \in Plugins :
    Sole(p) /\ p \notin queue /\ cache[p].ready /\ ~cache[p].deleting =>
      /\ worker.plugin = p => worker.pc \in {"compile", "status"} /\ worker.copy = cache[p]
      /\ \/ worker.plugin = p /\ worker.pc = "compile"
         \/ cache[p].spec # Broken /\ registry[Name(p)] = Seen(p)
         \/ cache[p].spec = Broken /\ (worker.plugin = p \/ ~objects[p].ready)

\* While a run owes the report of a checker, every read of its plugin, also a
\* stale one, finds the same specification.
DueInv ==
  \A k \in due :
    LET p == k.plugin IN
    /\ run.active /\ Sole(p)
    /\ \A object \in {objects[p], cache[p]} :
         object.finalizer /\ ~object.deleting /\ object.spec = k.spec
    /\ worker.plugin = p => worker.pc \in {"compile", "status"} /\ worker.copy.spec = k.spec
    /\ registry[Name(p)] = k
    /\ Name(p) \in DOMAIN run.got
    /\ run.got[Name(p)] \in {NoChecker, k, Panicked}

IInv ==
  /\ TypeOK /\ LocalsOK /\ ObjectInv /\ WorkerInv
  /\ NeverOrphaned /\ RegistryInv /\ DueInv

-----------------------------------------------------------------------------
(* The API server and the informer. *)

\* Every plugin has a name, and one that is alone with it shares no entry.
LEMMA NameTyped ==
  ASSUME NEW p \in Plugins
  PROVE  /\ Name(p) \in Names /\ p # Nobody
         /\ \A q \in Plugins : Sole(p) /\ Name(q) = Name(p) => q = p
BY PluginsAssumption DEF Names, Sole

\* What a user does to an object keeps its finalizer, makes nothing ready, and
\* is not done to an object that is being deleted.
LEMMA ChangeKeeps ==
  ASSUME IInv, NEW p \in Plugins, NEW object \in Objects, Change(p, object),
         WellFormed(object), ~objects[p].deleting,
         object.finalizer <=> objects[p].finalizer,
         object.ready => objects[p].ready
  PROVE  IInv'
<1>1. /\ objects' \in [Plugins -> Objects]
      /\ objects'[p] = object
      /\ \A q \in Plugins \ {p} : objects'[q] = objects[q]
  BY DEF IInv, TypeOK, Change
<1>2. TypeOK' /\ LocalsOK'
  BY <1>1 DEF IInv, TypeOK, LocalsOK, Change, WellFormed
<1>3. ObjectInv'
  BY <1>1 DEF IInv, ObjectInv, Change, WellFormed
<1>4. WorkerInv'
  BY <1>1, NameTyped DEF IInv, TypeOK, LocalsOK, WorkerInv, Change
<1>5. NeverOrphaned'
  BY <1>1 DEF IInv, TypeOK, NeverOrphaned, Change, Checkers
<1>6. RegistryInv'
  BY <1>1 DEF IInv, RegistryInv, Change, Sole, Seen
<1>7. DueInv'
  <2> SUFFICES ASSUME NEW k \in due' PROVE k \in due /\ objects'[k.plugin] = objects[k.plugin]
    BY DEF IInv, DueInv, Change, Sole
  <2>1. k \in due /\ Name(k.plugin) # Name(p) /\ k.plugin \in Plugins
    BY DEF Change, Touched, IInv, TypeOK, Checkers
  <2> QED
    BY <1>1, <2>1
<1> QED
  BY <1>2, <1>3, <1>4, <1>5, <1>6, <1>7 DEF IInv

\* A user creates a plugin: a new object, which Reconcile has not seen yet.
LEMMA CreateKeeps ==
  ASSUME IInv, NEW p \in Plugins, Create(p)
  PROVE  IInv'
<1> PICK s \in Specs \cup {Broken} : Change(p, [Absent EXCEPT !.exists = TRUE, !.spec = s])
  BY DEF Create
<1>1. ~objects[p].finalizer /\ ~objects[p].deleting
  BY DEF IInv, ObjectInv, WellFormed, Create
<1> QED
  BY <1>1, ChangeKeeps DEF Absent, Objects, WellFormed, IInv, TypeOK

\* A user edits the specification: what was seen of the object is one change older.
LEMMA EditKeeps ==
  ASSUME IInv, NEW p \in Plugins, Edit(p)
  PROVE  IInv'
<1> PICK s \in Specs \cup {Broken} : Change(p, [objects[p] EXCEPT !.spec = s])
  BY DEF Edit
<1>1. objects[p] \in Objects /\ WellFormed(objects[p]) /\ ~objects[p].deleting
  BY DEF IInv, TypeOK, ObjectInv, Edit
<1> QED
  BY <1>1, ChangeKeeps DEF Objects, WellFormed

\* A user deletes a plugin: it stays as long as the finalizer holds it.
LEMMA DeleteKeeps ==
  ASSUME IInv, NEW p \in Plugins, Delete(p)
  PROVE  IInv'
<1>1. /\ objects[p] \in Objects /\ WellFormed(objects[p])
      /\ ~objects[p].deleting /\ objects[p].exists
  BY DEF IInv, TypeOK, ObjectInv, Delete
<1>2. CASE objects[p].finalizer
  BY <1>1, <1>2, ChangeKeeps DEF Objects, WellFormed, Delete
<1>3. CASE ~objects[p].finalizer
  BY <1>1, <1>3, ChangeKeeps DEF Objects, Absent, WellFormed, Delete
<1> QED
  BY <1>2, <1>3

\* The cache catches up with one object, which is then queued.
LEMMA SyncKeeps ==
  ASSUME IInv, NEW p \in Plugins, Sync(p)
  PROVE  IInv'
<1>1. /\ cache' \in [Plugins -> Objects]
      /\ cache'[p] = objects[p]
      /\ \A q \in Plugins \ {p} : cache'[q] = cache[q]
  BY DEF IInv, TypeOK, Sync
<1>2. TypeOK' /\ LocalsOK'
  BY <1>1 DEF IInv, TypeOK, LocalsOK, Sync, runVars
<1>3. ObjectInv'
  BY <1>1 DEF IInv, ObjectInv, Sync
<1>4. WorkerInv'
  BY <1>1, NameTyped DEF IInv, TypeOK, LocalsOK, WorkerInv, Sync
<1>5. NeverOrphaned'
  BY DEF IInv, NeverOrphaned, Sync
<1>6. RegistryInv'
  BY <1>1 DEF IInv, RegistryInv, Sync, Sole, Seen
<1>7. DueInv'
  BY <1>1 DEF IInv, TypeOK, Checkers, DueInv, Sync, Sole, runVars
<1> QED
  BY <1>2, <1>3, <1>4, <1>5, <1>6, <1>7 DEF IInv

-----------------------------------------------------------------------------
(* Reconcile. *)

\* Reconcile begins with the first step that what the cache shows calls for.
LEMMA FetchKeeps ==
  ASSUME IInv, NEW p \in Plugins, Fetch(p)
  PROVE  IInv'
<1> USE DEF IInv
<1>1. /\ cache[p] \in Objects /\ p # Nobody /\ worker.plugin = Nobody
      /\ FirstStep(cache[p]) \in {"idle", "unregister", "compile", "finalize"}
  BY NameTyped DEF TypeOK, Fetch, FirstStep
<1>2. CASE ~cache[p].exists \/ FirstStep(cache[p]) = "idle"
  <2>1. worker' = IdleWorker /\ ~(cache[p].ready /\ ~cache[p].deleting)
    BY <1>1, <1>2 DEF Fetch, FirstStep, ObjectInv, WellFormed
  <2>2. TypeOK' /\ LocalsOK'
    BY <2>1 DEF TypeOK, LocalsOK, WorkerPcs, Fetch, IdleWorker, Absent, Objects, apiVars, runVars
  <2>3. WorkerInv' /\ ObjectInv' /\ NeverOrphaned'
    BY <2>1 DEF WorkerInv, IdleWorker, ObjectInv, NeverOrphaned, Fetch, apiVars, runVars
  <2>4. RegistryInv'
    BY <2>1, NameTyped, <1>1 DEF RegistryInv, IdleWorker, Fetch, Sole, Seen, apiVars
  <2>5. DueInv'
    BY <2>1, NameTyped DEF DueInv, IdleWorker, Fetch, Sole, TypeOK, Checkers, apiVars, runVars
  <2> QED
    BY <2>2, <2>3, <2>4, <2>5
<1>3. CASE cache[p].exists /\ FirstStep(cache[p]) # "idle"
  <2>1. worker' = [pc |-> FirstStep(cache[p]), plugin |-> p, copy |-> cache[p]]
    BY <1>3 DEF Fetch
  <2>2. TypeOK' /\ LocalsOK'
    BY <2>1, <1>1, <1>3 DEF TypeOK, LocalsOK, WorkerPcs, Fetch, Objects, apiVars, runVars
  <2>3. WorkerInv'
    BY <2>1, <1>3 DEF WorkerInv, ObjectInv, Fetch, FirstStep, apiVars, runVars
  <2>4. ObjectInv' /\ NeverOrphaned'
    BY DEF ObjectInv, NeverOrphaned, Fetch, apiVars
  <2>5. RegistryInv'
    <3> SUFFICES ASSUME NEW q \in Plugins, Sole(q), q \notin queue', cache[q].ready, ~cache[q].deleting
                 PROVE  /\ worker'.plugin = q => worker'.pc \in {"compile", "status"} /\ worker'.copy = cache[q]
                        /\ \/ worker'.plugin = q /\ worker'.pc = "compile"
                           \/ cache[q].spec # Broken /\ registry[Name(q)] = Seen(q)
                           \/ cache[q].spec = Broken /\ (worker'.plugin = q \/ ~objects[q].ready)
      BY DEF RegistryInv, Fetch, Sole, Seen, apiVars
    <3>1. CASE q = p
      BY <3>1, <2>1 DEF FirstStep, ObjectInv, WellFormed
    <3>2. CASE q # p
      BY <3>2, <2>1, <1>1, NameTyped DEF RegistryInv, Fetch
    <3> QED
      BY <3>1, <3>2
  <2>6. DueInv'
    BY <2>1, <1>1 DEF DueInv, Fetch, FirstStep, Sole, apiVars, runVars
  <2> QED
    BY <2>2, <2>3, <2>4, <2>5, <2>6
<1> QED
  BY <1>2, <1>3

\* An error ends a reconcile, and its plugin is queued again.
LEMMA FailKeeps ==
  ASSUME IInv, worker.pc # "idle", Fail,
         UNCHANGED <<objects, cache, changes, registry, runVars>>
  PROVE  IInv'
<1> USE DEF IInv
<1>1. worker' = IdleWorker /\ queue' = queue \cup {worker.plugin} /\ worker.plugin \in Plugins
  BY DEF Fail, Return, TypeOK
<1>2. TypeOK' /\ LocalsOK'
  BY <1>1 DEF TypeOK, LocalsOK, WorkerPcs, IdleWorker, Absent, Objects, runVars
<1>3. WorkerInv' /\ ObjectInv' /\ NeverOrphaned'
  BY <1>1 DEF WorkerInv, IdleWorker, ObjectInv, NeverOrphaned, runVars
<1>4. RegistryInv'
  BY <1>1, NameTyped DEF RegistryInv, IdleWorker, Sole, Seen
<1>5. DueInv'
  BY <1>1, NameTyped DEF DueInv, IdleWorker, Sole, TypeOK, Checkers, runVars
<1> QED
  BY <1>2, <1>3, <1>4, <1>5

\* Reconcile puts the finalizer on the object, unless that is gone or the call fails.
LEMMA AddFinalizerKeeps ==
  ASSUME IInv, AddFinalizer
  PROVE  IInv'
<1> USE DEF IInv
<1> DEFINE p == worker.plugin
<1>1. p \in Plugins /\ p # Nobody /\ worker.pc = "finalize" /\ objects[p] \in Objects
  BY DEF AddFinalizer, TypeOK
<1>2. CASE Fail /\ UNCHANGED objects
  BY <1>1, <1>2, FailKeeps DEF AddFinalizer
<1>3. CASE /\ objects[p].exists
           /\ objects' = [objects EXCEPT ![p] = [objects[p] EXCEPT !.finalizer = TRUE]]
           /\ worker' = [worker EXCEPT !.pc = "compile", !.copy = [objects[p] EXCEPT !.finalizer = TRUE]]
           /\ UNCHANGED <<queue, faults>>
  <2> DEFINE finalized == [objects[p] EXCEPT !.finalizer = TRUE]
  <2>1. /\ finalized \in Objects /\ finalized.finalizer
        /\ finalized.exists = objects[p].exists /\ finalized.ready = objects[p].ready
        /\ finalized.deleting = objects[p].deleting /\ finalized.spec = objects[p].spec
    BY <1>1 DEF Objects
  <2>2. /\ objects' \in [Plugins -> Objects] /\ objects'[p] = finalized
        /\ \A q \in Plugins \ {p} : objects'[q] = objects[q]
    BY <1>1, <1>3, <2>1 DEF TypeOK
  <2>3. worker' = [pc |-> "compile", plugin |-> p, copy |-> finalized]
    BY <1>3 DEF LocalsOK
  <2> HIDE DEF finalized
  <2>4. TypeOK' /\ LocalsOK'
    BY <2>1, <2>2, <2>3, <1>1, <1>3 DEF TypeOK, LocalsOK, WorkerPcs, AddFinalizer, runVars
  <2>5. ObjectInv' /\ NeverOrphaned'
    BY <2>1, <2>2, <1>1, <1>3 DEF ObjectInv, WellFormed, NeverOrphaned, WorkerInv, AddFinalizer, TypeOK, Checkers
  <2>6. WorkerInv'
    BY <2>1, <2>2, <2>3 DEF WorkerInv
  <2>7. RegistryInv'
    BY <2>1, <2>2, <2>3, <1>1, <1>3 DEF RegistryInv, Sole, Seen, AddFinalizer
  <2>8. DueInv'
    BY <2>1, <2>2, <2>3, <1>1, <1>3 DEF DueInv, Sole, AddFinalizer, runVars, TypeOK, Checkers
  <2> QED
    BY <2>4, <2>5, <2>6, <2>7, <2>8
<1> QED
  BY <1>2, <1>3 DEF AddFinalizer

\* The checker that is registered is of the specification that was read.
LEMMA CompileKeeps ==
  ASSUME IInv, Compile
  PROVE  IInv'
<1> USE DEF IInv
<1> DEFINE p == worker.plugin
           checker == [plugin |-> p, spec |-> worker.copy.spec]
<1>1. /\ p \in Plugins /\ p # Nobody /\ worker.pc = "compile" /\ Name(p) \in Names
      /\ worker.copy.spec \in Specs \cup {Broken}
  BY NameTyped DEF Compile, TypeOK, Objects
<1>2. worker' = [pc |-> "status", plugin |-> p, copy |-> worker.copy]
  BY DEF Compile, Goto, LocalsOK
<1>3. /\ registry' \in [Names -> Checkers \cup {NoChecker}]
      /\ worker.copy.spec = Broken => registry' = registry
      /\ worker.copy.spec # Broken => registry'[Name(p)] = checker /\ checker \in Checkers
      /\ \A n \in Names \ {Name(p)} : registry'[n] = registry[n]
  BY <1>1 DEF Compile, Compiles, Replaced, TypeOK, Checkers
<1>4. TypeOK' /\ LocalsOK'
  BY <1>1, <1>2, <1>3 DEF TypeOK, LocalsOK, WorkerPcs, Compile, apiVars, runVars
<1>5. ObjectInv' /\ WorkerInv'
  BY <1>1, <1>2 DEF ObjectInv, WorkerInv, Compile, apiVars
<1>6. NeverOrphaned'
  BY <1>1, <1>3 DEF NeverOrphaned, WorkerInv, Compile, apiVars
<1>7. RegistryInv'
  BY <1>1, <1>2, <1>3, NameTyped DEF RegistryInv, Sole, Seen, Compile, apiVars
<1>8. DueInv'
  BY <1>1, <1>2, <1>3, NameTyped DEF DueInv, Sole, Compile, apiVars, runVars, TypeOK, Checkers
<1> QED
  BY <1>4, <1>5, <1>6, <1>7, <1>8

\* The status patch says whether the specification compiled, which was registered then.
LEMMA UpdateStatusKeeps ==
  ASSUME IInv, UpdateStatus
  PROVE  IInv'
<1> USE DEF IInv
<1> USE DEF Compiles
<1> DEFINE p == worker.plugin
           ready == worker.copy.spec # Broken
<1>1. /\ p \in Plugins /\ p # Nobody /\ worker.pc = "status" /\ objects[p] \in Objects
      /\ worker.copy \in Objects
  BY DEF UpdateStatus, TypeOK
<1>2. CASE Fail /\ UNCHANGED objects
  BY <1>1, <1>2, FailKeeps DEF UpdateStatus
<1>3. CASE /\ objects' = IF ready = worker.copy.ready THEN objects ELSE [objects EXCEPT ![p].ready = ready]
           /\ objects[p].exists
           /\ Return
           /\ UNCHANGED <<queue, faults>>
  <2>1. /\ objects' \in [Plugins -> Objects]
        /\ \A q \in Plugins \ {p} : objects'[q] = objects[q]
        /\ objects'[p].exists = objects[p].exists /\ objects'[p].spec = objects[p].spec
        /\ objects'[p].deleting = objects[p].deleting /\ objects'[p].finalizer = objects[p].finalizer
        /\ objects'[p].ready = IF ready = worker.copy.ready THEN objects[p].ready ELSE ready
    BY <1>1, <1>3 DEF TypeOK, Objects
  <2>2. worker' = IdleWorker /\ objects[p].finalizer
    BY <1>1, <1>3 DEF Return, WorkerInv
  <2>3. TypeOK' /\ LocalsOK'
    BY <2>1, <2>2, <1>3 DEF TypeOK, LocalsOK, WorkerPcs, IdleWorker, Absent, Objects, UpdateStatus, runVars
  <2>4. ObjectInv' /\ NeverOrphaned' /\ WorkerInv'
    BY <2>1, <2>2, <1>1 DEF ObjectInv, WellFormed, NeverOrphaned, WorkerInv, IdleWorker, UpdateStatus, TypeOK, Checkers
  <2>5. RegistryInv'
    <3> SUFFICES ASSUME NEW q \in Plugins, Sole(q), q \notin queue, cache[q].ready, ~cache[q].deleting
                 PROVE  \/ cache[q].spec # Broken /\ registry[Name(q)] = Seen(q)
                        \/ cache[q].spec = Broken /\ ~objects'[q].ready
      BY <2>2, <1>3, NameTyped DEF RegistryInv, UpdateStatus, Sole, Seen, IdleWorker
    <3>1. CASE q = p
      BY <3>1, <2>1, <1>1 DEF RegistryInv
    <3>2. CASE q # p
      BY <3>2, <2>1, <1>1 DEF RegistryInv
    <3> QED
      BY <3>1, <3>2
  <2>6. DueInv'
    BY <2>1, <2>2, <1>1, <1>3, NameTyped DEF DueInv, Sole, UpdateStatus, IdleWorker, runVars, TypeOK, Checkers
  <2> QED
    BY <2>3, <2>4, <2>5, <2>6
<1> QED
  BY <1>2, <1>3 DEF UpdateStatus

\* What is unregistered is the only entry that the plugin can have.
LEMMA UnregisterKeeps ==
  ASSUME IInv, Unregister
  PROVE  IInv'
<1> USE DEF IInv
<1> DEFINE p == worker.plugin
<1>1. p \in Plugins /\ p # Nobody /\ worker.pc = "unregister" /\ Name(p) \in Names
  BY NameTyped DEF Unregister, TypeOK
<1>2. worker' = [pc |-> "release", plugin |-> p, copy |-> worker.copy]
  BY DEF Unregister, Goto, LocalsOK
<1>3. /\ registry' \in [Names -> Checkers \cup {NoChecker}]
      /\ registry'[Name(p)] = NoChecker
      /\ \A n \in Names \ {Name(p)} : registry'[n] = registry[n]
  BY <1>1 DEF Unregister, TypeOK
<1>4. TypeOK' /\ LocalsOK'
  BY <1>1, <1>2, <1>3 DEF TypeOK, LocalsOK, WorkerPcs, Unregister, apiVars, runVars
<1>5. ObjectInv' /\ WorkerInv' /\ NeverOrphaned'
  BY <1>1, <1>2, <1>3 DEF ObjectInv, WorkerInv, NeverOrphaned, Unregister, apiVars
<1>6. RegistryInv'
  BY <1>1, <1>2, <1>3, NameTyped DEF RegistryInv, Sole, Seen, Unregister, apiVars
<1>7. DueInv'
  BY <1>1, <1>2, <1>3, NameTyped DEF DueInv, Sole, Unregister, apiVars, runVars, TypeOK, Checkers
<1> QED
  BY <1>4, <1>5, <1>6, <1>7

\* The object that is released has no entry, and one that came back under its
\* name has no finalizer yet.
LEMMA RemoveFinalizerKeeps ==
  ASSUME IInv, RemoveFinalizer
  PROVE  IInv'
<1> USE DEF IInv
<1> DEFINE p == worker.plugin
<1>1. p \in Plugins /\ p # Nobody /\ worker.pc = "release" /\ objects[p] \in Objects
  BY DEF RemoveFinalizer, TypeOK
<1>2. CASE Fail /\ UNCHANGED objects
  BY <1>1, <1>2, FailKeeps DEF RemoveFinalizer
<1>3. CASE /\ objects' = [objects EXCEPT ![p] = IF @.deleting THEN Absent
                                                ELSE [@ EXCEPT !.finalizer = FALSE]]
           /\ Return
           /\ UNCHANGED <<queue, faults>>
  <2>1. /\ objects' \in [Plugins -> Objects]
        /\ \A q \in Plugins \ {p} : objects'[q] = objects[q]
        /\ ~objects'[p].finalizer
        /\ objects'[p].ready => objects[p].ready /\ ~objects[p].deleting
        /\ objects'[p].deleting => objects[p].deleting /\ FALSE
    <3>1. CASE objects[p].deleting
      BY <3>1, <1>1, <1>3 DEF TypeOK, Objects, Absent
    <3>2. CASE ~objects[p].deleting
      BY <3>2, <1>1, <1>3 DEF TypeOK, Objects
    <3> QED
      BY <3>1, <3>2
  <2>2. /\ worker' = IdleWorker
        /\ registry[Name(p)] = NoChecker
        /\ cache[p].finalizer => cache[p].deleting
        /\ ~objects'[p].ready
    BY <2>1, <1>1, <1>3 DEF Return, WorkerInv, ObjectInv, WellFormed
  <2>3. TypeOK' /\ LocalsOK'
    BY <2>1, <2>2, <1>3 DEF TypeOK, LocalsOK, WorkerPcs, IdleWorker, Absent, Objects, RemoveFinalizer, runVars
  <2>4. ObjectInv' /\ WorkerInv'
    BY <2>1, <2>2, <1>1 DEF ObjectInv, WellFormed, WorkerInv, IdleWorker, RemoveFinalizer
  <2>5. NeverOrphaned'
    BY <2>1, <2>2, <1>1 DEF NeverOrphaned, RemoveFinalizer, TypeOK, Checkers
  <2>6. RegistryInv'
    BY <2>1, <2>2, <1>1, <1>3, NameTyped DEF RegistryInv, IdleWorker, RemoveFinalizer, Sole, Seen, ObjectInv, WellFormed
  <2>7. DueInv'
    BY <2>1, <2>2, <1>1, <1>3, NameTyped DEF DueInv, Sole, RemoveFinalizer, IdleWorker, runVars, TypeOK, Checkers
  <2> QED
    BY <2>3, <2>4, <2>5, <2>6, <2>7
<1> QED
  BY <1>2, <1>3 DEF RemoveFinalizer

\* After a restart the cache is the API server, and every object is queued.
LEMMA RestartKeeps ==
  ASSUME IInv, Restart
  PROVE  IInv'
<1> USE DEF IInv
<1>1. TypeOK' /\ LocalsOK'
  BY DEF TypeOK, LocalsOK, WorkerPcs, Restart, IdleWorker, IdleRun, Absent, Objects
<1>2. ObjectInv' /\ WorkerInv' /\ NeverOrphaned' /\ DueInv'
  BY DEF ObjectInv, WorkerInv, NeverOrphaned, DueInv, Restart, IdleWorker
<1>3. RegistryInv'
  BY DEF ObjectInv, WellFormed, RegistryInv, Restart
<1> QED
  BY <1>1, <1>2, <1>3

-----------------------------------------------------------------------------
(* The runs of the checks. *)

\* A plugin that has settled is registered as it is now.
LEMMA SettledRegistered ==
  ASSUME IInv, NEW p \in Plugins, Settled(p), Sole(p)
  PROVE  /\ registry[Name(p)] = Current(p) /\ Current(p) \in Checkers
         /\ registry[Name(p)] # NoChecker
         /\ objects[p].finalizer /\ objects[p].spec \in Specs
<1>1. objects[p] \in Objects /\ cache[p] = objects[p] /\ objects[p].finalizer
  BY DEF IInv, TypeOK, ObjectInv, WellFormed, Settled
<1>2. cache[p].spec # Broken /\ registry[Name(p)] = Seen(p)
  BY <1>1 DEF IInv, RegistryInv, Settled
<1> QED
  BY <1>1, <1>2, PluginsAssumption, BrokenAssumption DEF Current, Seen, Checkers, NoChecker, Objects

\* RunAll lists the registered names: those of ready plugins are among them.
LEMMA BeginRunKeeps ==
  ASSUME IInv, BeginRun
  PROVE  IInv'
<1> DEFINE names == {n \in Names : registry[n] # NoChecker}
<1>1. /\ run' = [active |-> TRUE, got |-> [n \in names |-> NoChecker]]
      /\ UNCHANGED <<objects, cache, changes, queue, worker, registry, faults>>
  BY DEF BeginRun, apiVars
<1>2. ASSUME NEW k \in due'
      PROVE  /\ k \in Checkers /\ k.plugin \in Plugins /\ Settled(k.plugin) /\ Sole(k.plugin)
             /\ k = Current(k.plugin) /\ registry[Name(k.plugin)] = k
             /\ Name(k.plugin) \in names /\ objects[k.plugin].finalizer
  <2> PICK q \in Plugins : Settled(q) /\ Sole(q) /\ k = Current(q)
    BY DEF BeginRun
  <2>1. k.plugin = q
    BY DEF Current
  <2> QED
    BY <2>1, SettledRegistered, NameTyped
<1>3. TypeOK' /\ LocalsOK'
  BY <1>1, <1>2 DEF IInv, TypeOK, LocalsOK
<1>4. ObjectInv' /\ WorkerInv' /\ NeverOrphaned' /\ RegistryInv'
  BY <1>1 DEF IInv, ObjectInv, WorkerInv, NeverOrphaned, RegistryInv, Sole, Seen
<1>5. DueInv'
  <2> SUFFICES ASSUME NEW k \in due'
               PROVE  LET p == k.plugin IN
                      /\ \A object \in {objects[p], cache[p]} :
                           object.finalizer /\ ~object.deleting /\ object.spec = k.spec
                      /\ worker.plugin # p
    BY <1>1, <1>2 DEF DueInv, Sole
  <2> QED
    BY <1>2 DEF Settled, Current
<1> QED
  BY <1>3, <1>4, <1>5 DEF IInv

\* The registry still holds what the run owes when it is read again.
LEMMA RunCheckerKeeps ==
  ASSUME IInv, NEW n \in Names, RunChecker(n)
  PROVE  IInv'
<1> PICK result : /\ result \in IF registry[n] = NoChecker THEN {Missing} ELSE {registry[n], Panicked}
                  /\ run' = [run EXCEPT !.got[n] = result]
  BY DEF RunChecker, CheckerName
<1>1. UNCHANGED <<objects, cache, changes, queue, worker, registry, due, faults>>
  BY DEF RunChecker, apiVars
<1>2. /\ n \in DOMAIN run.got
      /\ run' = [active |-> run.active, got |-> [run.got EXCEPT ![n] = result]]
  BY DEF IInv, LocalsOK, RunChecker, Waited
<1>3. /\ run'.active = run.active /\ DOMAIN run'.got = DOMAIN run.got
      /\ run'.got[n] = result
      /\ \A m \in DOMAIN run.got \ {n} : run'.got[m] = run.got[m]
      /\ run'.got = [m \in DOMAIN run'.got |-> run'.got[m]]
  BY <1>2
<1>4. TypeOK' /\ LocalsOK'
  BY <1>1, <1>2, <1>3 DEF IInv, TypeOK, LocalsOK
<1>5. ObjectInv' /\ WorkerInv' /\ NeverOrphaned' /\ RegistryInv'
  BY <1>1 DEF IInv, ObjectInv, WorkerInv, NeverOrphaned, RegistryInv, Sole, Seen
<1>6. DueInv'
  <2> SUFFICES ASSUME NEW k \in due
               PROVE  run'.got[Name(k.plugin)] \in {NoChecker, k, Panicked}
    BY <1>1, <1>3 DEF IInv, DueInv, Sole
  <2>1. k \in Checkers /\ registry[Name(k.plugin)] = k /\ Name(k.plugin) \in DOMAIN run.got
        /\ run.got[Name(k.plugin)] \in {NoChecker, k, Panicked}
    BY DEF IInv, TypeOK, DueInv
  <2>2. k # NoChecker
    BY <2>1, PluginsAssumption DEF Checkers, NoChecker
  <2> QED
    BY <2>1, <2>2, <1>3
<1> QED
  BY <1>4, <1>5, <1>6 DEF IInv

\* The end of a run: nothing is due any more.
LEMMA EndRunKeeps ==
  ASSUME IInv, EndRun
  PROVE  IInv'
<1>1. /\ run' = IdleRun /\ due' = {}
      /\ UNCHANGED <<objects, cache, changes, queue, worker, registry, faults>>
  BY DEF EndRun, apiVars
<1>2. TypeOK' /\ LocalsOK'
  BY <1>1 DEF IInv, TypeOK, LocalsOK, IdleRun
<1> QED
  BY <1>1, <1>2 DEF IInv, ObjectInv, WorkerInv, NeverOrphaned, RegistryInv, DueInv, Sole, Seen

-----------------------------------------------------------------------------
\* Nothing exists yet.
LEMMA InitInv ==
  ASSUME Init
  PROVE  IInv
<1>1. TypeOK /\ LocalsOK
  BY DEF Init, TypeOK, LocalsOK, WorkerPcs, IdleWorker, IdleRun, Absent, Objects
<1>2. ObjectInv /\ WorkerInv /\ NeverOrphaned /\ RegistryInv /\ DueInv
  BY DEF Init, ObjectInv, WellFormed, WorkerInv, NeverOrphaned, RegistryInv, DueInv, IdleWorker, Absent
<1> QED
  BY <1>1, <1>2 DEF IInv

\* Every step of the users, the informer, Reconcile and a run keeps the invariant.
LEMMA NextInv ==
  ASSUME IInv, [Next]_vars
  PROVE  IInv'
<1>1. CASE \E p \in Plugins : Create(p) \/ Edit(p) \/ Delete(p) \/ Sync(p) \/ Fetch(p)
  BY <1>1, CreateKeeps, EditKeeps, DeleteKeeps, SyncKeeps, FetchKeeps
<1>2. CASE AddFinalizer
  BY <1>2, AddFinalizerKeeps
<1>3. CASE Compile
  BY <1>3, CompileKeeps
<1>4. CASE UpdateStatus
  BY <1>4, UpdateStatusKeeps
<1>5. CASE Unregister
  BY <1>5, UnregisterKeeps
<1>6. CASE RemoveFinalizer
  BY <1>6, RemoveFinalizerKeeps
<1>7. CASE Restart
  BY <1>7, RestartKeeps
<1>8. CASE BeginRun
  BY <1>8, BeginRunKeeps
<1>9. CASE EndRun
  BY <1>9, EndRunKeeps
<1>10. CASE \E n \in Names : RunChecker(n)
  BY <1>10, RunCheckerKeeps
<1>11. CASE UNCHANGED vars
  BY <1>11 DEF vars, IInv, TypeOK, LocalsOK, ObjectInv, WorkerInv, NeverOrphaned, RegistryInv, DueInv, Sole, Seen
<1> QED
  BY <1>1, <1>2, <1>3, <1>4, <1>5, <1>6, <1>7, <1>8, <1>9, <1>10, <1>11 DEF Next

\* The inductive invariant, from which the theorems below follow.
THEOREM Invariance == Spec => []IInv
<1>1. Init => IInv
  BY InitInv
<1>2. IInv /\ [Next]_vars => IInv'
  BY NextInv
<1> QED
  BY <1>1, <1>2, PTL DEF Spec

\* Every variable has its type; the entry under a name is of that name, and only
\* an object that the finalizer holds is marked as deleted.
THEOREM TypeCorrect == Spec => []TypeOK
<1>1. IInv => TypeOK
  BY DEF IInv
<1> QED
  BY <1>1, Invariance, PTL

\* The finalizer's promise: a registered checker has an object that is held until
\* the checker is unregistered, however stale Reconcile's reads are
\* (checkplugin_controller.go:73 to 90).
THEOREM NeverOrphanedHolds == Spec => []NeverOrphaned
<1>1. IInv => NeverOrphaned
  BY DEF IInv
<1> QED
  BY <1>1, Invariance, PTL

\* A plugin whose status says ready, and about which nothing is on its way, runs
\* as it is now (checkplugin_types.go:85).
THEOREM ReadyRegisteredHolds == Spec => []ReadyRegistered
<1>1. IInv => ReadyRegistered
  BY SettledRegistered DEF ReadyRegistered
<1> QED
  BY <1>1, Invariance, PTL

\* A run that is done has a result of every plugin that had settled when it began
\* and was left alone since (registry.go:118 to 168).
THEOREM ReportsCurrentHolds == Spec => []ReportsCurrent
<1>1. IInv => ReportsCurrent
  <2> SUFFICES ASSUME IInv, Waited = {}, NEW k \in due
               PROVE  /\ Name(k.plugin) \in DOMAIN run.got
                      /\ run.got[Name(k.plugin)] \in {k, Panicked}
    BY DEF ReportsCurrent
  <2>1. /\ Name(k.plugin) \in DOMAIN run.got
        /\ run.got[Name(k.plugin)] \in {NoChecker, k, Panicked}
    BY DEF IInv, DueInv
  <2>2. run.got[Name(k.plugin)] # NoChecker
    BY <2>1 DEF Waited
  <2> QED
    BY <2>1, <2>2
<1> QED
  BY <1>1, Invariance, PTL
=============================================================================
