---------------------------- MODULE WorkerFleet ----------------------------
(***************************************************************************)
(* The build workers and the modules assigned to them: WorkerRegistry      *)
(* (worker/registry.py), the AssignmentOrchestrator that spreads modules   *)
(* over workers (worker/assignment.py), the graceful shutdown of a worker  *)
(* (worker/lifecycle.py) and the routes that call them                     *)
(* (api/worker_routes.py).                                                 *)
(*                                                                         *)
(* Each call of the registry is atomic under its lock.  A route that makes *)
(* several holds no lock between them and decides on what an earlier call  *)
(* returned.  Priorities, tags and budgets only order or filter choices:   *)
(* where they decide, any choice they can lead to is taken.  The           *)
(* autoscaler registers and unregisters workers like an operator.          *)
(***************************************************************************)
EXTENDS Naturals, Sequences, FiniteSets

CONSTANTS
    Workers,        \* worker_id values, unknown until they are registered
    Modules,        \* module_id values
    Threads,        \* threads of the server's pool
    NoWorker,       \* no worker_id
    SetStates,      \* the statuses operators set on a worker
    SetStatuses,    \* the statuses workers and operators set on an assignment
    Capacity,       \* Capacity[w]: the modules worker w is registered for
    MaxAssignments  \* bound on the assignments ever created

ASSUME FleetAssumption ==
    /\ Capacity \in [Workers -> Nat]
    /\ MaxAssignments \in Nat \ {0} /\ NoWorker \notin Workers

VARIABLES
    worker,         \* worker_registry.status, "unknown" before and "removed" after
    listed,         \* worker_registry.assigned_modules: the rows it was made from
    row,            \* worker_assignments in the order of creation, "deleted" after
    call,           \* call[th]: the route thread th is in the middle of
    \* kept for the properties only
    contended,      \* modules not handled by one orchestration at a time
    lost,           \* modules whose move ended between its delete and its create
    unsynced        \* workers whose pending sync was dropped

vars == <<worker, listed, row, call, contended, lost, unsynced>>

Assignments == DOMAIN row

Working == {"assigned", "in_progress"}
RowStatuses == {"deleted", "completed", "failed", "blocked"} \cup Working

WorkerStates == {"unknown", "active", "inactive", "draining", "offline", "removed"}

ASSUME StatusAssumption ==
    /\ SetStatuses \subseteq RowStatuses \ {"deleted"}
    /\ SetStates \subseteq WorkerStates \ {"unknown", "removed"}

NoSnapshot == [w \in {} |-> 0]

Idle == [op |-> "idle", at |-> "idle", worker |-> NoWorker, row |-> 0, target |-> NoWorker,
         todo |-> {}, mods |-> {}, seen |-> NoSnapshot]

Ops   == {"idle", "update", "shutdown", "rebalance", "auto_assign"}
Steps == {"idle", "list", "next", "block", "sync", "delete", "resync", "create",
          "list_assigned", "list_in_progress", "assign"}

\* Steps on one assignment.
Handling == {"block", "sync", "delete", "resync", "create"}

Rows == [worker : Workers, module : Modules, status : RowStatuses]

\* What list_workers returned: the load of each worker it found.
Snapshots == UNION {[S -> 0..MaxAssignments] : S \in SUBSET Workers}

\* What a thread can be in the middle of when n assignments were created.
CallRecords(n) == [op : Ops, at : Steps, worker : Workers \cup {NoWorker}, row : 0..n,
                   target : Workers \cup {NoWorker}, todo : SUBSET (1..n),
                   mods : SUBSET Modules, seen : Snapshots]

Calls(n) == {c \in CallRecords(n) :
               /\ c.at \in Handling => c.row # 0
               /\ c.at \in {"delete", "resync", "create"} => c.target # NoWorker}

TypeOK ==
    /\ worker \in [Workers -> WorkerStates]
    /\ listed \in [Workers -> SUBSET Assignments]
    /\ row \in Seq(Rows) /\ Len(row) <= MaxAssignments
    /\ call \in [Threads -> Calls(Len(row))]
    /\ contended \subseteq Modules /\ lost \subseteq Modules /\ unsynced \subseteq Workers

Init ==
    /\ worker = [w \in Workers |-> "unknown"]
    /\ listed = [w \in Workers |-> {}]
    /\ row = <<>>
    /\ call = [th \in Threads |-> Idle]
    /\ contended = {} /\ lost = {} /\ unsynced = {}

-----------------------------------------------------------------------------
Registered(w) == worker[w] \notin {"unknown", "removed"}
Exists(a)     == row[a].status # "deleted"

WorkingOn(rows, w) == {a \in DOMAIN rows : rows[a].worker = w /\ rows[a].status \in Working}

ModulesIn(status) == {row[a].module : a \in {b \in Assignments : row[b].status = status}}

Load(w) == Cardinality(listed[w])

\* A shutdown counts a worker registered for no module as one with room for one.
Slots(w) == IF Capacity[w] = 0 THEN 1 ELSE Capacity[w]

HasRoom(w, load)   == load < Capacity[w]
HasASlot(w, load)  == load < Slots(w)

\* list_workers(status="active"), with the load each row shows.
ActiveLoads == [w \in {v \in Workers : worker[v] = "active"} |-> Load(w)]

\* Of the candidates, those with the least load for their capacity.
LeastLoaded(candidates, load) ==
    {w \in candidates : \A v \in candidates : load[w] * Slots(v) <= load[v] * Slots(w)}

\* _sync_assigned_modules: assigned_modules is made anew from the table.
Sync(rows, w) ==
    /\ listed' = IF Registered(w) THEN [listed EXCEPT ![w] = WorkingOn(rows, w)] ELSE listed
    /\ unsynced' = unsynced \ {w}

\* Its UPDATE is refused: what was committed before it stays.
SyncRefused(w) ==
    /\ unsynced' = unsynced \cup {w}
    /\ UNCHANGED listed

\* The INSERT of create_assignment: the id is new, the worker is not looked up.
Insert(w, m) ==
    /\ Len(row) < MaxAssignments
    /\ row' = Append(row, [worker |-> w, module |-> m, status |-> "assigned"])

Goto(th, at) ==
    call' = [call EXCEPT ![th] =
               CASE at = "idle" -> Idle
                 [] at = "next" -> [@ EXCEPT !.at = at, !.row = 0, !.target = NoWorker]
                 [] OTHER       -> [@ EXCEPT !.at = at]]

Orchestrating == {th \in Threads : call[th].op \in {"shutdown", "rebalance", "auto_assign"}}

\* An orchestration that starts while another runs contends for every module.
Overlap == IF Orchestrating = {} THEN {} ELSE Modules

ThreadFree == \E th \in Threads : call[th] = Idle

-----------------------------------------------------------------------------
(* Routes of one registry call.                                            *)

RegisterWorker(w) ==
    /\ worker[w] = "unknown"
    /\ worker' = [worker EXCEPT ![w] = "active"]
    /\ UNCHANGED <<listed, row, call, contended, lost, unsynced>>

\* DELETE /workers/{id}: its load goes with its row, its assignments stay.
UnregisterWorker(w) ==
    /\ Registered(w)
    /\ worker' = [worker EXCEPT ![w] = "removed"]
    /\ listed' = [listed EXCEPT ![w] = {}]
    /\ unsynced' = unsynced \ {w}
    /\ UNCHANGED <<row, call, contended, lost>>

PatchWorker(w, state) ==
    /\ Registered(w)
    /\ worker' = [worker EXCEPT ![w] = state]
    /\ UNCHANGED <<listed, row, call, contended, lost, unsynced>>

\* POST /workers/{id}/assignments: neither the worker nor its load is checked.
CreateAssignment(w, m) ==
    /\ ThreadFree /\ worker[w] # "unknown"
    /\ Insert(w, m)
    /\ Sync(row', w) \/ SyncRefused(w)
    /\ contended' = IF Orchestrating # {} \/ \E s \in Working : m \in ModulesIn(s)
                    THEN contended \cup {m} ELSE contended
    /\ UNCHANGED <<worker, call, lost>>

-----------------------------------------------------------------------------
(* PATCH .../assignments/{id} and POST .../patch: update_assignment takes  *)
(* any status from any status, and syncs in a second critical section.     *)

UpdateAssignment(th, a, status) ==
    /\ call[th] = Idle /\ Exists(a)
    /\ row' = [row EXCEPT ![a].status = status]
    /\ call' = [call EXCEPT ![th] = [Idle EXCEPT !.op = "update", !.at = "sync", !.row = a]]
    /\ contended' = IF \/ status \in Working /\ row[a].status \notin Working
                       \/ \E t \in Threads : call[t].at = "list_in_progress"
                    THEN contended \cup {row[a].module} ELSE contended
    /\ UNCHANGED <<worker, listed, lost, unsynced>>

\* The second section first reads the row again: deleted meanwhile, no sync.
SyncUpdated(th) ==
    LET a == call[th].row IN
    /\ call[th].at = "sync"
    /\ \/ Sync(row, row[a].worker)
       \/ ~Exists(a) /\ UNCHANGED <<listed, unsynced>>
    /\ Goto(th, IF call[th].op = "update" THEN "idle" ELSE "next")
    /\ UNCHANGED <<worker, row, contended, lost>>

-----------------------------------------------------------------------------
(* POST /workers/{id}/graceful-shutdown.                                   *)

\* The worker drains, and what it works on is listed: nothing another call does
\* depends on which of the two came first.
BeginShutdown(th, w) ==
    /\ call[th] = Idle /\ Registered(w)
    /\ worker' = [worker EXCEPT ![w] = "draining"]
    /\ contended' = contended \cup Overlap
    /\ call' = [call EXCEPT ![th] = [Idle EXCEPT !.op = "shutdown", !.at = "next", !.worker = w,
                                                 !.todo = WorkingOn(row, w)]]
    /\ UNCHANGED <<listed, row, lost, unsynced>>

\* Take up assignment a: move it to the target, or go on at the given step.
TakeUp(th, a, at, target) ==
    call' = [call EXCEPT ![th] = [call[th] EXCEPT !.at = at, !.row = a, !.target = target,
                                                  !.todo = call[th].todo \ {a}]]

\* Mutant: that no worker has room is not looked at.
PickTargetAnyway(th) ==
    LET loads == ActiveLoads
        open  == {v \in DOMAIN loads \ {call[th].worker} : HasASlot(v, loads[v])}
    IN
    /\ call[th].op = "shutdown" /\ call[th].at = "next"
    /\ \E a \in call[th].todo :
         IF open = {} THEN TakeUp(th, a, "delete", NoWorker)
         ELSE \E v \in LeastLoaded(open, loads) : TakeUp(th, a, "delete", v)
    /\ UNCHANGED <<worker, listed, row, contended, lost, unsynced>>

\* _find_target_worker, on the fleet as it is now.
PickTarget(th) ==
    LET loads == ActiveLoads
        open  == {v \in DOMAIN loads \ {call[th].worker} : HasASlot(v, loads[v])}
    IN
    /\ call[th].op = "shutdown" /\ call[th].at = "next"
    /\ \E a \in call[th].todo :
         IF open = {} THEN TakeUp(th, a, "block", NoWorker)
         ELSE \E v \in LeastLoaded(open, loads) : TakeUp(th, a, "delete", v)
    /\ UNCHANGED <<worker, listed, row, contended, lost, unsynced>>

\* update_assignment(status="blocked"); nothing to do if the row is gone.
BlockRow(th) ==
    LET a == call[th].row IN
    /\ call[th].at = "block"
    /\ IF Exists(a)
       THEN row' = [row EXCEPT ![a].status = "blocked"] /\ Goto(th, "sync")
       ELSE UNCHANGED row /\ Goto(th, "next")
    /\ UNCHANGED <<worker, listed, contended, lost, unsynced>>

FinishShutdown(th) ==
    LET w == call[th].worker IN
    /\ call[th].op = "shutdown" /\ call[th].at = "next" /\ call[th].todo = {}
    /\ worker' = IF Registered(w) THEN [worker EXCEPT ![w] = "offline"] ELSE worker
    /\ Goto(th, "idle")
    /\ UNCHANGED <<listed, row, contended, lost, unsynced>>

\* Mutant: delete_assignment does not sync the worker the row was on.
DeleteUnsynced(th) ==
    LET a == call[th].row IN
    /\ call[th].at = "delete"
    /\ row' = IF Exists(a) THEN [row EXCEPT ![a].status = "deleted"] ELSE row
    /\ Goto(th, "create")
    /\ UNCHANGED <<worker, listed, contended, lost, unsynced>>

\* A move, of a shutdown or of a rebalance.  delete_assignment deletes, then
\* syncs; its answer is not looked at, so a row that is gone moves as well.
DeleteMoved(th) ==
    LET a == call[th].row IN
    /\ call[th].at = "delete"
    /\ IF Exists(a)
       THEN row' = [row EXCEPT ![a].status = "deleted"] /\ Goto(th, "resync")
       ELSE UNCHANGED row /\ Goto(th, "create")
    /\ UNCHANGED <<worker, listed, contended, lost, unsynced>>

SyncDeleted(th) ==
    /\ call[th].at = "resync"
    /\ Sync(row, row[call[th].row].worker)
    /\ Goto(th, "create")
    /\ UNCHANGED <<worker, row, contended, lost>>

\* Mutant: the move is given up when its target is no longer active.
CreateMovedIfActive(th) ==
    LET v == call[th].target IN
    /\ call[th].at = "create"
    /\ IF worker[v] = "active"
       THEN /\ Insert(v, row[call[th].row].module)
            /\ Sync(row', v)
       ELSE UNCHANGED <<row, listed, unsynced>>
    /\ Goto(th, "next")
    /\ UNCHANGED <<worker, contended, lost>>

CreateMoved(th) ==
    LET v == call[th].target IN
    /\ call[th].at = "create"
    /\ Insert(v, row[call[th].row].module)
    /\ \/ Sync(row', v) /\ Goto(th, "next")
       \/ SyncRefused(v) /\ Goto(th, "idle")
    /\ UNCHANGED <<worker, contended, lost>>

-----------------------------------------------------------------------------
(* POST /workers/assignments/rebalance.                                    *)

BeginRebalance(th) ==
    /\ call[th] = Idle /\ DOMAIN ActiveLoads # {}
    /\ contended' = contended \cup Overlap
    /\ call' = [call EXCEPT ![th] = [Idle EXCEPT !.op = "rebalance", !.at = "list",
                                                 !.seen = ActiveLoads]]
    /\ UNCHANGED <<worker, listed, row, lost, unsynced>>

\* The rows above capacity: [:overflow] of the assigned rows of each worker.  With
\* none to move, the route has answered.
ListOverflow(th) ==
    LET seen == call[th].seen
        assigned(w) == {a \in Assignments : row[a].worker = w /\ row[a].status = "assigned"}
        over == {w \in DOMAIN seen : seen[w] > Capacity[w]}
        moved(w, rows) == /\ rows \subseteq assigned(w)
                          /\ Cardinality(rows) <= seen[w] - Capacity[w]
                          /\ \/ Cardinality(rows) = seen[w] - Capacity[w]
                             \/ rows = assigned(w)
    IN
    /\ call[th].op = "rebalance" /\ call[th].at = "list"
    /\ \E todo \in SUBSET UNION {assigned(w) : w \in over} :
         /\ \A w \in over : moved(w, todo \cap assigned(w))
         /\ IF todo = {} THEN Goto(th, "idle")
            ELSE call' = [call EXCEPT ![th].at = "next", ![th].todo = todo]
    /\ UNCHANGED <<worker, listed, row, contended, lost, unsynced>>

\* _find_underloaded_worker, on the loads seen at the start.
PickUnderloaded(th) ==
    LET seen == call[th].seen IN
    /\ call[th].op = "rebalance" /\ call[th].at = "next"
    /\ \E a \in call[th].todo :
         LET open == {v \in DOMAIN seen \ {row[a].worker} : HasRoom(v, seen[v])} IN
         IF open = {} THEN call' = [call EXCEPT ![th].todo = @ \ {a}]
         ELSE \E v \in LeastLoaded(open, seen) : TakeUp(th, a, "delete", v)
    /\ UNCHANGED <<worker, listed, row, contended, lost, unsynced>>

FinishRebalance(th) ==
    /\ call[th].op = "rebalance" /\ call[th].at = "next" /\ call[th].todo = {}
    /\ Goto(th, "idle")
    /\ UNCHANGED <<worker, listed, row, contended, lost, unsynced>>

-----------------------------------------------------------------------------
(* POST /workers/assignments/orchestrate.                                  *)

BeginAutoAssign(th, mods) ==
    /\ call[th] = Idle /\ DOMAIN ActiveLoads # {}
    /\ contended' = contended \cup Overlap
    /\ call' = [call EXCEPT ![th] = [Idle EXCEPT !.op = "auto_assign", !.at = "list_assigned",
                                                 !.mods = mods, !.seen = ActiveLoads]]
    /\ UNCHANGED <<worker, listed, row, lost, unsynced>>

\* Mutant: only the modules in status assigned count as taken.
ListAssignedOnly(th) ==
    /\ call[th].at = "list_assigned"
    /\ call' = [call EXCEPT ![th].at = "assign", ![th].mods = @ \ ModulesIn("assigned")]
    /\ UNCHANGED <<worker, listed, row, contended, lost, unsynced>>

\* Two queries: a row set back to assigned between them is seen by neither.  With
\* every module taken, the route has answered.
ListAssigned(th) ==
    /\ call[th].at = "list_assigned"
    /\ call' = [call EXCEPT ![th].at = "list_in_progress", ![th].mods = @ \ ModulesIn("assigned")]
    /\ UNCHANGED <<worker, listed, row, contended, lost, unsynced>>

ListInProgress(th) ==
    /\ call[th].at = "list_in_progress"
    /\ IF call[th].mods \subseteq ModulesIn("in_progress") THEN Goto(th, "idle")
       ELSE call' = [call EXCEPT ![th].at = "assign", ![th].mods = @ \ ModulesIn("in_progress")]
    /\ UNCHANGED <<worker, listed, row, contended, lost, unsynced>>

\* _pick_worker and create_assignment; tags and budgets score the workers that
\* have room.  The row of the chosen worker is read again for the next pick, unless
\* the create raised after its commit: that is caught, and the next module is taken.
AssignNext(th, m, w) ==
    LET seen == call[th].seen IN
    /\ call[th].at = "assign" /\ m \in call[th].mods
    /\ w \in DOMAIN seen /\ HasRoom(w, seen[w])
    /\ Insert(w, m)
    /\ \/ /\ Sync(row', w)
          /\ call' = [call EXCEPT ![th].mods = @ \ {m}, ![th].seen[w] =
                                    IF Registered(w) THEN Cardinality(listed'[w]) ELSE @]
       \/ /\ SyncRefused(w)
          /\ call' = [call EXCEPT ![th].mods = @ \ {m}]
    /\ UNCHANGED <<worker, contended, lost>>

\* What is left has no worker with room or budget, or depends on itself.
FinishAutoAssign(th) ==
    /\ call[th].at = "assign"
    /\ Goto(th, "idle")
    /\ UNCHANGED <<worker, listed, row, contended, lost, unsynced>>

-----------------------------------------------------------------------------
\* Modules a move has deleted and not created yet.
Held == {row[call[th].row].module : th \in {t \in Threads : call[t].at \in {"resync", "create"}}}

\* Workers whose table some thread has changed and not synced yet.
Unsynced == {row[call[th].row].worker :
               th \in {t \in Threads : \/ call[t].at = "resync"
                                       \/ call[t].at = "sync" /\ Exists(call[t].row)}}

\* SQLite refuses the next write of a call, or it stays locked for too long: the
\* route answers 500 and goes no further, whatever it has written before.
StatementRefused(th) ==
    LET a == call[th].row IN
    /\ call[th].at \in Handling
    /\ lost' = IF call[th].at \in {"resync", "create"} THEN lost \cup {row[a].module} ELSE lost
    /\ unsynced' = IF call[th].at = "resync" \/ (call[th].at = "sync" /\ Exists(a))
                   THEN unsynced \cup {row[a].worker} ELSE unsynced
    /\ Goto(th, "idle")
    /\ UNCHANGED <<worker, listed, row, contended>>

\* The process restarts: the two tables are on disk, the threads are gone.
Crash ==
    /\ lost' = lost \cup Held /\ unsynced' = unsynced \cup Unsynced
    /\ call' = [th \in Threads |-> Idle]
    /\ UNCHANGED <<worker, listed, row, contended>>

\* The same, between the two commits of the create_assignment of a route.
CrashInCreate(w, m) ==
    /\ ThreadFree /\ worker[w] # "unknown"
    /\ Insert(w, m)
    /\ contended' = IF \E s \in Working : m \in ModulesIn(s)
                    THEN contended \cup {m} ELSE contended
    /\ lost' = lost \cup Held /\ unsynced' = unsynced \cup Unsynced \cup {w}
    /\ call' = [th \in Threads |-> Idle]
    /\ UNCHANGED <<worker, listed>>

Operator ==
    \/ \E w \in Workers : \/ RegisterWorker(w) \/ UnregisterWorker(w)
                          \/ \E s \in SetStates : PatchWorker(w, s)
                          \/ \E m \in Modules : CreateAssignment(w, m)

Begin(th) ==
    \/ \E a \in Assignments, s \in SetStatuses : UpdateAssignment(th, a, s)
    \/ \E w \in Workers : BeginShutdown(th, w)
    \/ BeginRebalance(th)
    \/ \E mods \in SUBSET Modules \ {{}} : BeginAutoAssign(th, mods)

Continue(th) ==
    \/ SyncUpdated(th)
    \/ PickTarget(th) \/ BlockRow(th) \/ FinishShutdown(th)
    \/ DeleteMoved(th) \/ SyncDeleted(th) \/ CreateMoved(th)
    \/ ListOverflow(th) \/ PickUnderloaded(th) \/ FinishRebalance(th)
    \/ ListAssigned(th) \/ ListInProgress(th) \/ FinishAutoAssign(th)
    \/ \E m \in Modules, w \in Workers : AssignNext(th, m, w)
    \/ StatementRefused(th)

Restart == Crash \/ \E w \in Workers, m \in Modules : CrashInCreate(w, m)

Next == Operator \/ Restart \/ \E th \in Threads : Begin(th) \/ Continue(th)

Spec == Init /\ [][Next]_vars
-----------------------------------------------------------------------------
(* assigned_modules, the load every placement decides on, is what the      *)
(* table of assignments says, unless a call between its write and its sync *)
(* is still running, or was cut off by a restart or a refused statement    *)
(* (registry.py, _sync_assigned_modules).                                  *)
LoadIsTrue ==
    \A w \in Workers : Registered(w) /\ w \notin Unsynced \cup unsynced =>
        listed[w] = WorkingOn(row, w)

(* No module drops out of the fleet: when the row of a module is deleted,  *)
(* another one of it exists, or the move that deleted it is still on its   *)
(* way to the create, or a restart or a refused statement cut it off.      *)
ModuleKept ==
    \A a \in Assignments : row[a].status = "deleted" =>
        \/ \E b \in Assignments : Exists(b) /\ row[b].module = row[a].module
        \/ row[a].module \in Held \cup lost

(* Handled by one orchestration at a time, a module is being built by one  *)
(* worker: placing, moving, blocking and building it never leave two rows  *)
(* of it assigned or in progress.                                          *)
OneBuilder ==
    \A a, b \in Assignments :
        /\ row[a].status \in Working /\ row[b].status \in Working
        /\ row[a].module = row[b].module /\ row[a].module \notin contended
        => a = b

(* assignment.py: a rebalance moves work when "any worker is over capacity *)
(* and another is under": what it moves lands on a worker with room.       *)
MovesIntoRoom ==
    [][\A th \in Threads :
         call[th].op = "rebalance" /\ call[th].at = "create" /\ call'[th].at = "next" =>
            Load(call[th].target) < Capacity[call[th].target]]_vars
=============================================================================
