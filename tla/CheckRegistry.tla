---------------------------- MODULE CheckRegistry ----------------------------
(***************************************************************************)
(* The checker registry and the CheckPlugin controller (internal/checker:   *)
(* registry.go, plugin/checker.go; internal/controller:                     *)
(* checkplugin_controller.go).  Users create, change and delete CheckPlugin *)
(* objects; the controller compiles a plugin, puts its checker into the     *)
(* registry under the plugin's name and writes the outcome to the status;   *)
(* the runs of the dashboard and of the health requests take the registered *)
(* names, then look each up and check in a goroutine of its own.            *)
(*                                                                          *)
(* A specification is an element of Specs, or Broken when one of its CEL    *)
(* expressions does not compile; a checker is its plugin and specification. *)
(* The controller reads the informer's cache, which follows the API server. *)
(***************************************************************************)
EXTENDS Naturals, FiniteSets

CONSTANTS
  Plugins,      \* pairs of a namespace and a name
  Specs,        \* specifications that compile
  Broken,       \* one that does not (the admission webhook is optional)
  Nobody,       \* no plugin
  MaxChanges,   \* bound on what the users do
  MaxFaults     \* bound on failed API calls and restarts

ASSUME PluginsAssumption == Plugins \subseteq (STRING \X STRING) /\ Nobody \notin Plugins
ASSUME BrokenAssumption == Broken \notin Specs
ASSUME ChangesAssumption == MaxChanges \in Nat /\ MaxFaults \in Nat

VARIABLES
  objects,   \* the CheckPlugin objects in the API server
  cache,     \* the informer's copy
  queue,     \* the controller's work queue
  worker,    \* the locals of Reconcile
  registry,  \* r.checkers, the plugins' part: name to checker
  run,       \* the locals of RunAll
  due,       \* the checkers a run has to report (history)
  changes, faults

vars == <<objects, cache, queue, worker, registry, run, due, changes, faults>>
apiVars == <<objects, cache, changes>>
runVars == <<run, due>>

Name(p) == p[2]
Names == {Name(p) : p \in Plugins}

Absent == [exists |-> FALSE, spec |-> Broken, deleting |-> FALSE,
           finalizer |-> FALSE, ready |-> FALSE]
NoChecker == [plugin |-> Nobody, spec |-> Broken]
Checkers == [plugin : Plugins, spec : Specs]
\* The error results of a run.
Missing == [plugin |-> Nobody, spec |-> "not found"]
Panicked == [plugin |-> Nobody, spec |-> "panicked"]

IdleWorker == [pc |-> "idle", plugin |-> Nobody, copy |-> Absent]
IdleRun == [active |-> FALSE, got |-> [n \in {} |-> NoChecker]]

Init ==
  /\ objects = [p \in Plugins |-> Absent]
  /\ cache = objects
  /\ queue = {}
  /\ worker = IdleWorker
  /\ registry = [n \in Names |-> NoChecker]
  /\ run = IdleRun
  /\ due = {}
  /\ changes = 0 /\ faults = 0

-----------------------------------------------------------------------------
(* The API server and the informer. *)

\* A run no longer owes a report of a plugin that is being changed, nor of the
\* others of its name, whose checkers go through the same registry entry.
Touched(p) == {k \in due : Name(k.plugin) = Name(p)}

Change(p, object) ==
  /\ changes < MaxChanges
  /\ changes' = changes + 1
  /\ objects' = [objects EXCEPT ![p] = object]
  /\ due' = due \ Touched(p)
  /\ UNCHANGED <<cache, queue, worker, registry, run, faults>>

Create(p) ==
  /\ ~objects[p].exists
  /\ \E s \in Specs \cup {Broken} :
       Change(p, [Absent EXCEPT !.exists = TRUE, !.spec = s])

Edit(p) ==
  /\ objects[p].exists /\ ~objects[p].deleting
  /\ \E s \in (Specs \cup {Broken}) \ {objects[p].spec} :
       Change(p, [objects[p] EXCEPT !.spec = s])

\* An object with a finalizer is only marked.
Delete(p) ==
  /\ objects[p].exists /\ ~objects[p].deleting
  /\ Change(p, IF objects[p].finalizer THEN [objects[p] EXCEPT !.deleting = TRUE]
               ELSE Absent)

\* The watch delivers the object as it is now, and the plugin is queued; also
\* when only lastUpdated differs, which every status patch changes, or nothing.
Sync(p) ==
  /\ objects[p].exists \/ cache[p].exists
  /\ cache' = [cache EXCEPT ![p] = objects[p]]
  /\ queue' = queue \cup {p}
  /\ UNCHANGED <<objects, worker, registry, runVars, changes, faults>>

-----------------------------------------------------------------------------
(* CheckPluginReconciler.Reconcile.  One reconcile runs at a time. *)

Goto(pc) == worker' = [worker EXCEPT !.pc = pc]
Return == worker' = IdleWorker
\* An error is returned: the plugin is queued again.
Fail ==
  /\ Return
  /\ queue' = queue \cup {worker.plugin}
Fault == faults < MaxFaults /\ faults' = faults + 1

\* Mutation: the checker is registered before the finalizer is in place.
FirstStepEarly(copy) ==
  IF copy.deleting THEN (IF copy.finalizer THEN "unregister" ELSE "idle")
  ELSE "compile"
\* What Reconcile does first with the object it read.
FirstStep(copy) ==
  IF copy.deleting THEN (IF copy.finalizer THEN "unregister" ELSE "idle")
  ELSE IF copy.finalizer THEN "compile" ELSE "finalize"

\* Get, from the cache.
Fetch(p) ==
  /\ worker.pc = "idle"
  /\ p \in queue
  /\ queue' = queue \ {p}
  /\ worker' = IF ~cache[p].exists \/ FirstStep(cache[p]) = "idle" THEN IdleWorker
               ELSE [pc |-> FirstStep(cache[p]), plugin |-> p, copy |-> cache[p]]
  /\ UNCHANGED <<apiVars, registry, runVars, faults>>

\* The patch that adds the finalizer, unless the object is gone or the API
\* server does not answer; the object is then what the API server returned.
AddFinalizer ==
  LET p == worker.plugin
      finalized == [objects[p] EXCEPT !.finalizer = TRUE]
  IN
  /\ worker.pc = "finalize"
  /\ \/ /\ objects[p].exists
        /\ objects' = [objects EXCEPT ![p] = finalized]
        /\ worker' = [worker EXCEPT !.pc = "compile", !.copy = finalized]
        /\ UNCHANGED <<queue, faults>>
     \/ /\ ~objects[p].exists
        /\ Fail
        /\ UNCHANGED <<objects, faults>>
     \/ /\ Fault
        /\ Fail
        /\ UNCHANGED objects
  /\ UNCHANGED <<cache, changes, registry, runVars>>

\* Mutation: Register instead of Replace, whose error is only logged.
Registered(n, checker) == IF registry[n] = NoChecker THEN checker ELSE registry[n]
\* Registry.Replace.
Replaced(n, checker) == checker

\* Mutation: a compile error is ignored, and the plugin is registered all the same.
CompilesAnyway(spec) == TRUE
\* NewPluginChecker returning no error.
Compiles(spec) == spec # Broken

\* A plugin that compiles replaces the checker of its name, one that
\* does not leaves it there.
Compile ==
  LET p == worker.plugin
      checker == [plugin |-> p, spec |-> worker.copy.spec]
  IN
  /\ worker.pc = "compile"
  /\ registry' = IF Compiles(worker.copy.spec)
                 THEN [registry EXCEPT ![Name(p)] = Replaced(Name(p), checker)]
                 ELSE registry
  /\ Goto("status")
  /\ UNCHANGED <<apiVars, queue, runVars, faults>>

\* updateStatus: the merge patch holds what differs from the object that was
\* read; an object that is gone cannot be patched.
UpdateStatus ==
  LET p == worker.plugin
      ready == Compiles(worker.copy.spec)
  IN
  /\ worker.pc = "status"
  /\ \/ /\ objects[p].exists
        /\ objects' = IF ready = worker.copy.ready THEN objects
                      ELSE [objects EXCEPT ![p].ready = ready]
        /\ Return
        /\ UNCHANGED <<queue, faults>>
     \/ /\ ~objects[p].exists
        /\ Fail
        /\ UNCHANGED <<objects, faults>>
     \/ /\ Fault
        /\ Fail
        /\ UNCHANGED objects
  /\ UNCHANGED <<cache, changes, registry, runVars>>

\* Registry.Unregister, by the plugin's name.
Unregister ==
  /\ worker.pc = "unregister"
  /\ registry' = [registry EXCEPT ![Name(worker.plugin)] = NoChecker]
  /\ Goto("release")
  /\ UNCHANGED <<apiVars, queue, runVars, faults>>

\* The patch that removes the finalizer, with which a deleted object goes.
RemoveFinalizer ==
  LET p == worker.plugin IN
  /\ worker.pc = "release"
  /\ \/ /\ objects[p].exists
        /\ objects' = [objects EXCEPT ![p] = IF @.deleting THEN Absent
                                             ELSE [@ EXCEPT !.finalizer = FALSE]]
        /\ Return
        /\ UNCHANGED <<queue, faults>>
     \/ /\ ~objects[p].exists
        /\ Fail
        /\ UNCHANGED <<objects, faults>>
     \/ /\ Fault
        /\ Fail
        /\ UNCHANGED objects
  /\ UNCHANGED <<cache, changes, registry, runVars>>

\* The operator restarts: the registry is empty, the cache is filled anew and
\* every plugin is queued.
Restart ==
  /\ Fault
  /\ registry' = [n \in Names |-> NoChecker]
  /\ worker' = IdleWorker
  /\ cache' = objects
  /\ queue' = {p \in Plugins : objects[p].exists}
  /\ run' = IdleRun /\ due' = {}
  /\ UNCHANGED <<objects, changes>>

-----------------------------------------------------------------------------
(* Registry.RunAll, with no names given: the dashboard's runs. *)

\* The plugins the users see as ready, and nothing about them is on its way.
Settled(p) ==
  /\ objects[p].exists /\ objects[p].ready /\ ~objects[p].deleting
  /\ cache[p] = objects[p]
  /\ p \notin queue /\ worker.plugin # p
\* No plugin of another namespace has the name.
Sole(p) == \A q \in Plugins \ {p} : Name(q) # Name(p)

Current(p) == [plugin |-> p, spec |-> objects[p].spec]

\* Read lock: the registered names.
BeginRun ==
  LET names == {n \in Names : registry[n] # NoChecker} IN
  /\ ~run.active
  /\ run' = [active |-> TRUE, got |-> [n \in names |-> NoChecker]]
  /\ due' = {Current(p) : p \in {q \in Plugins : Settled(q) /\ Sole(q)}}
  /\ UNCHANGED <<apiVars, queue, worker, registry, faults>>

\* The names whose goroutines have not sent a result yet.
Waited == {n \in DOMAIN run.got : run.got[n] = NoChecker}

\* Mutation: the goroutines share the loop's variable.
Captured(n) == CHOOSE last \in DOMAIN run.got : TRUE
\* The goroutine's argument.
CheckerName(n) == n

\* Registry.Run in the goroutine of name n: the checker is looked up again.  It
\* returns a result, or panics, which is recovered and reported; the registry is
\* not read any more.
RunChecker(n) ==
  LET checker == registry[CheckerName(n)] IN
  /\ run.active /\ n \in Waited
  /\ \E result \in IF checker = NoChecker THEN {Missing} ELSE {checker, Panicked} :
       run' = [run EXCEPT !.got[n] = result]
  /\ UNCHANGED <<apiVars, queue, worker, registry, due, faults>>

\* The channel is closed when every goroutine is done; the results are returned.
EndRun ==
  /\ run.active /\ Waited = {}
  /\ run' = IdleRun /\ due' = {}
  /\ UNCHANGED <<apiVars, queue, worker, registry, faults>>

-----------------------------------------------------------------------------
Next ==
  \/ \E p \in Plugins : Create(p) \/ Edit(p) \/ Delete(p) \/ Sync(p) \/ Fetch(p)
  \/ AddFinalizer \/ Compile \/ UpdateStatus \/ Unregister \/ RemoveFinalizer
  \/ Restart
  \/ BeginRun \/ EndRun \/ \E n \in Names : RunChecker(n)

Spec == Init /\ [][Next]_vars

-----------------------------------------------------------------------------
Objects == [exists : BOOLEAN, spec : Specs \cup {Broken}, deleting : BOOLEAN,
            finalizer : BOOLEAN, ready : BOOLEAN]

TypeOK ==
  /\ objects \in [Plugins -> Objects] /\ cache \in [Plugins -> Objects]
  /\ queue \subseteq Plugins
  /\ worker.pc \in {"idle", "finalize", "compile", "status", "unregister", "release"}
  /\ worker.plugin \in Plugins \cup {Nobody} /\ worker.copy \in Objects
  /\ worker.pc = "idle" <=> worker.plugin = Nobody
  /\ registry \in [Names -> Checkers \cup {NoChecker}]
  /\ \A n \in Names : registry[n] # NoChecker => Name(registry[n].plugin) = n
  /\ \A p \in Plugins : objects[p].deleting => objects[p].finalizer
  /\ DOMAIN run.got \subseteq Names
  /\ due \subseteq Checkers

\* The checker of a plugin is registered only while its object is there, held
\* by the finalizer: when a deletion ends, however reads are stale, patches fail
\* and the operator restarts, nothing of the plugin runs any more
\* (checkplugin_controller.go:73 to 90, "unregister handled by finalizer" :65).
NeverOrphaned ==
  \A n \in Names : registry[n] # NoChecker =>
    objects[registry[n].plugin].finalizer

\* "ready indicates if the plugin is compiled and ready" (checkplugin_types.go:85):
\* when nothing about it is on its way, a ready plugin is in the registry with
\* the specification it has now.  Only for a plugin that is alone with its name:
\* the registry's key leaves the namespace out (checkplugin_controller.go:70).
ReadyRegistered ==
  \A p \in Plugins : Settled(p) /\ Sole(p) => registry[Name(p)] = Current(p)

\* A run reports every plugin that was settled when it began, by the checker of
\* its current specification, unless the plugin was changed meanwhile or its
\* checker panicked; a name that went away in between costs only its own result
\* (registry.go:118 to 168).
ReportsCurrent ==
  run.active /\ Waited = {} =>
    \A k \in due : /\ Name(k.plugin) \in DOMAIN run.got
                   /\ run.got[Name(k.plugin)] \in {k, Panicked}
=============================================================================
