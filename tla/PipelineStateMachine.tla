------------------------ MODULE PipelineStateMachine ------------------------
(***************************************************************************)
(* pipeline/state_machine.py's PipelineStateMachine: the lifecycle of a    *)
(* pipeline run, its pauses and its rollback after a decision change.      *)
(* transition() takes the time of its log row, then waits for the lock,    *)
(* then is one locked SQLite transaction.  pause, resume, cancel and       *)
(* handle_decision_change read the state, release the lock, decide, and    *)
(* then call transition(), which checks ALLOWED_TRANSITIONS against the    *)
(* state it finds.  get_history orders the rows by the time they carry.    *)
(* The routes of api/pipeline_routes.py call it from one event loop, one   *)
(* call at a time (a single thread here); the class itself says it is safe *)
(* for several.                                                            *)
(***************************************************************************)
EXTENDS Naturals, Sequences, FiniteSets

CONSTANTS
    Runs,           \* run_id values
    Threads,        \* callers of the state machine
    InitialStates,  \* the initial_state callers give create_run ("idle" by default)
    MaxClock        \* bound on the calls of transition(), allowed and refused

VARIABLES
    current,      \* pipeline_run_states.current_state, "absent" before create_run
    pausedFrom,   \* paused_from, "none" for NULL
    revisions,    \* total_revisions
    log,          \* pipeline_state_log of each run in commit order, as <<from, to, created_at>>
    call,         \* call[th]: the run, the state th decided on, the time transition() took
    clock,        \* time.time(): no two readings are equal, and none goes back
    raced         \* runs two callers were inside transition() for at once

vars == <<current, pausedFrom, revisions, log, call, clock, raced>>

Working  == {"planning", "planned", "generating", "reviewing"}
Revising == {"generating", "reviewing"}
States   == {"idle", "complete", "archived", "paused", "cancelled", "release_candidate",
             "production_ready", "blocked_by_test"} \cup Working

\* ALLOWED_TRANSITIONS
Allowed ==
    [s \in States |->
        CASE s = "idle"              -> {"planning"}
          [] s = "planning"          -> {"planned", "cancelled", "paused"}
          [] s = "planned"           -> {"generating", "cancelled", "paused"}
          [] s = "generating"        -> {"reviewing", "cancelled", "paused", "planning"}
          [] s = "reviewing"         -> {"complete", "generating", "cancelled", "paused",
                                         "planning"}
          [] s = "complete"          -> {"archived", "release_candidate"}
          [] s = "paused"            -> {"idle", "cancelled"} \cup Working
          [] s = "release_candidate" -> {"production_ready", "blocked_by_test", "archived",
                                         "cancelled"}
          [] s = "production_ready"  -> {"archived", "blocked_by_test"}
          [] s = "blocked_by_test"   -> {"release_candidate", "cancelled"}
          [] OTHER                   -> {}]

\* create_run checks nothing, but no caller starts a run paused or ended.
ASSUME MachineAssumption ==
    /\ InitialStates \subseteq {"idle"} \cup Working
    /\ MaxClock \in Nat

\* at = 0: transition() is not called yet.
Idle == [runs |-> {}, to |-> "none", at |-> 0]

Rows == <<current, pausedFrom, revisions, log>>

TypeOK ==
    /\ current \in [Runs -> States \cup {"absent"}]
    /\ pausedFrom \in [Runs -> States \cup {"none"}]
    /\ revisions \in [Runs -> Nat]
    /\ log \in [Runs -> Seq(States \X States \X Nat)]
    /\ call \in [Threads -> [runs : SUBSET Runs, to : States \cup {"none"}, at : Nat]]
    /\ clock \in Nat
    /\ raced \subseteq Runs

Init ==
    /\ current = [r \in Runs |-> "absent"]
    /\ pausedFrom = [r \in Runs |-> "none"]
    /\ revisions = [r \in Runs |-> 0]
    /\ log = [r \in Runs |-> <<>>]
    /\ call = [th \in Threads |-> Idle]
    /\ clock = 0
    /\ raced = {}

-----------------------------------------------------------------------------
\* Mutant: the run starts in a state that is none of STATES.
CreateRunSubmitted(r) ==
    /\ current[r] = "absent"
    /\ current' = [current EXCEPT ![r] = "submitted"]
    /\ UNCHANGED <<pausedFrom, revisions, log, call, clock, raced>>

CreateRun(r) ==
    /\ current[r] = "absent"
    /\ \E initial \in InitialStates : current' = [current EXCEPT ![r] = initial]
    /\ UNCHANGED <<pausedFrom, revisions, log, call, clock, raced>>

\* Mutant: the decision made on the earlier read is not checked again.
CanMoveUnchecked(r, to) ==
    current[r] # "absent"

CanMove(r, to) ==
    /\ current[r] # "absent"
    /\ to \in Allowed[current[r]]

\* Mutant: a run cancelled while paused keeps paused_from.
PauseOutlivesCancel(r, to) ==
    IF to = "paused" THEN current[r]
    ELSE IF current[r] = "paused" /\ to # "cancelled" THEN "none"
    ELSE pausedFrom[r]

\* paused_from after the transition of r to the state to.
PausedFromAfter(r, to) ==
    IF to = "paused" THEN current[r]
    ELSE IF to = "cancelled" \/ current[r] = "paused" THEN "none"
    ELSE pausedFrom[r]

\* Mutant: every return to generating is counted, a resume too.
RevisionsAtGenerating(r, to) == revisions[r] + IF to = "generating" THEN 1 ELSE 0

RevisionsAfter(r, to) ==
    revisions[r] + IF current[r] = "reviewing" /\ to = "generating" THEN 1 ELSE 0

\* The locked body of transition(), with the time taken before the lock.
Move(r, to, at) ==
    /\ CanMove(r, to)
    /\ current' = [current EXCEPT ![r] = to]
    /\ pausedFrom' = [pausedFrom EXCEPT ![r] = PausedFromAfter(r, to)]
    /\ revisions' = [revisions EXCEPT ![r] = RevisionsAfter(r, to)]
    /\ log' = [log EXCEPT ![r] = Append(@, <<current[r], to, at>>)]

-----------------------------------------------------------------------------
(* What comes before transition(): read the state, decide.                 *)

Decide(th, r, to) ==
    /\ call[th] = Idle
    /\ call' = [call EXCEPT ![th] = [runs |-> {r}, to |-> to, at |-> 0]]
    /\ UNCHANGED <<Rows, clock, raced>>

ReadForPause(th, r) ==
    /\ current[r] \notin {"absent", "paused", "cancelled", "complete", "archived"}
    /\ Decide(th, r, "paused")

ReadForResume(th, r) ==
    /\ current[r] = "paused"
    /\ pausedFrom[r] # "none"
    /\ Decide(th, r, pausedFrom[r])

ReadForCancel(th, r) ==
    /\ current[r] \notin {"absent", "cancelled"}
    /\ Decide(th, r, "cancelled")

\* Any other state: "no action needed", a run paused in generating included.
ReadForDecisionChange(th, r) ==
    /\ current[r] \in Revising
    /\ Decide(th, r, "planning")

\* POST .../state reads nothing: the caller names the state.
Transition(th, r, to) == Decide(th, r, to)

-----------------------------------------------------------------------------
(* transition(): take the time, then the lock.                             *)

\* The other callers inside transition() for r.
Inside(th, r) == {other \in Threads \ {th} : r \in call[other].runs /\ call[other].at > 0}

\* now = time.time(), outside the lock.
TakeTime(th) ==
    \E r \in call[th].runs :
        /\ call[th].at = 0
        /\ clock < MaxClock
        /\ clock' = clock + 1
        /\ call' = [call EXCEPT ![th].at = clock + 1]
        /\ raced' = IF Inside(th, r) = {} THEN raced ELSE raced \cup {r}
        /\ UNCHANGED Rows

Finish(th) ==
    /\ call' = [call EXCEPT ![th] = Idle]
    /\ UNCHANGED <<clock, raced>>

Act(th) ==
    \E r \in call[th].runs :
        /\ call[th].at > 0
        /\ Move(r, call[th].to, call[th].at)
        /\ Finish(th)

\* "not found" or "invalid transition": ValueError, nothing changes.
ActRefused(th) ==
    \E r \in call[th].runs :
        /\ call[th].at > 0
        /\ current[r] # "absent" => call[th].to \notin Allowed[current[r]]
        /\ Finish(th)
        /\ UNCHANGED Rows

Next ==
    \/ \E r \in Runs : CreateRun(r)
    \/ \E th \in Threads, r \in Runs :
        \/ \E to \in States : Transition(th, r, to)
        \/ ReadForPause(th, r) \/ ReadForResume(th, r) \/ ReadForCancel(th, r)
        \/ ReadForDecisionChange(th, r)
    \/ \E th \in Threads : TakeTime(th) \/ Act(th) \/ ActRefused(th)

Spec == Init /\ [][Next]_vars
-----------------------------------------------------------------------------
(* The log is the history of the run.  Whatever callers interleave, the    *)
(* rows in the order they were committed are a path of allowed transitions *)
(* from an initial state to the current one, with one revision for each    *)
(* edge from reviewing to generating.  Their created_at, by which          *)
(* get_history orders them, increases along that path as long as no two    *)
(* callers were inside transition() for the run at once: then the time is  *)
(* taken outside the lock, and the history may be read back out of order.  *)
LogIsHistory ==
    \A r \in Runs : LET n == Len(log[r]) IN
        /\ \A k \in 1..n : log[r][k][2] \in Allowed[log[r][k][1]]
        /\ \A k \in 2..n : log[r][k][1] = log[r][k - 1][2]
        /\ n > 0 => log[r][1][1] \in InitialStates /\ current[r] = log[r][n][2]
        /\ revisions[r] = Cardinality({k \in 1..n : log[r][k][1] = "reviewing"
                                                 /\ log[r][k][2] = "generating"})
        /\ r \notin raced => \A k \in 2..n : log[r][k - 1][3] < log[r][k][3]

(* A paused run knows where it was: paused_from is set exactly while the   *)
(* run is paused, and names the work its last committed row interrupted.   *)
PauseRemembered ==
    \A r \in Runs : LET n == Len(log[r]) IN
        /\ (current[r] = "paused") <=> (pausedFrom[r] # "none")
        /\ current[r] = "paused" =>
             /\ pausedFrom[r] \in Working
             /\ log[r][n][1] = pausedFrom[r] /\ log[r][n][2] = "paused"

(* A cancelled or archived run never moves again, even when a thread had   *)
(* already decided on an earlier state of it.                              *)
EndsForGood ==
    [][\A r \in Runs : current[r] \in {"cancelled", "archived"} =>
         current'[r] = current[r] /\ log'[r] = log[r]]_vars
=============================================================================
