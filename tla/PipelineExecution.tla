------------------------- MODULE PipelineExecution -------------------------
(***************************************************************************)
(* core/pipeline_controller.py driven by api/pipeline_routes.py: a run is  *)
(* executed by a daemon thread that keeps its own copy of the row and      *)
(* writes the whole row back at each phase (_persist_run), while           *)
(* cancel_run updates the row from the event loop and the process may      *)
(* restart with the row in any phase.  The set of running executions lives *)
(* in memory only.                                                         *)
(***************************************************************************)
EXTENDS Naturals, Sequences

CONSTANTS
    Runs,            \* run_id values
    Threads,         \* daemon threads the routes can start
    PlanSteps,       \* steps in the planner's plan
    MaxExecutions,   \* bound on POST .../execute
    MaxCrashes       \* bound on the restarts

ASSUME ExecutionAssumption ==
    /\ PlanSteps \in Nat \ {0}
    /\ MaxExecutions \in Nat /\ MaxCrashes \in Nat

VARIABLES
    status,          \* pipeline_runs.status, "absent" before submit_idea
    steps,           \* pipeline_runs.steps_json: the outcome of each step
    active,          \* _active_executions
    thread,          \* thread[th]: the execution daemon thread th is in
    cancelled,       \* runs whose last request was answered "cancelled"
    checked,         \* the run whose execute request has read the status only
    executions, crashes

vars == <<status, steps, active, thread, cancelled, checked, executions, crashes>>

Finished   == {"complete", "failed"}
InProgress == {"planning", "generating"}
Statuses   == {"absent", "pending", "cancelled"} \cup InProgress \cup Finished

\* pc: what the thread does next; steps and start: its copy of the run's steps
\* and how many of them an earlier execution had recorded.
Phases == {"none", "load", "planning", "plan", "steps", "discard"}
NoThread == [pc |-> "none", runs |-> {}, steps |-> <<>>, start |-> 0]

TypeOK ==
    /\ status \in [Runs -> Statuses]
    /\ steps \in [Runs -> Seq(Finished)]
    /\ active \subseteq Runs /\ cancelled \subseteq Runs
    /\ checked \subseteq Runs /\ \A a, b \in checked : a = b
    /\ thread \in [Threads -> [pc : Phases, runs : SUBSET Runs,
                               steps : Seq(Finished), start : Nat]]
    /\ executions \in 0..MaxExecutions /\ crashes \in 0..MaxCrashes

Init ==
    /\ status = [r \in Runs |-> "absent"]
    /\ steps = [r \in Runs |-> <<>>]
    /\ active = {} /\ cancelled = {} /\ checked = {}
    /\ thread = [th \in Threads |-> NoThread]
    /\ executions = 0 /\ crashes = 0
-----------------------------------------------------------------------------
(* The routes.  They run on the event loop, so no other route comes in the *)
(* middle of one, but the daemon threads go on between its reads.          *)

SubmitIdea(r) ==
    /\ checked = {}
    /\ status[r] = "absent"
    /\ status' = [status EXCEPT ![r] = "pending"]
    /\ UNCHANGED <<steps, active, thread, cancelled, checked, executions, crashes>>

\* POST .../execute reads the row and answers at once while it says the run is
\* in progress; a finished or a cancelled run may be executed again.
CheckStatus(r) ==
    /\ checked = {}
    /\ status[r] \notin {"absent"} \cup InProgress
    /\ executions < MaxExecutions /\ executions' = executions + 1
    /\ checked' = {r}
    /\ UNCHANGED <<status, steps, active, thread, cancelled, crashes>>

StartThread(r) ==
    /\ active' = active \cup {r}
    /\ \E th \in Threads :
        /\ thread[th] = NoThread
        /\ thread' = [thread EXCEPT ![th] = [NoThread EXCEPT !.pc = "load", !.runs = {r}]]
    /\ cancelled' = cancelled \ {r}
    /\ UNCHANGED <<status, steps, executions, crashes>>

\* Mutant: only the row guards the start of an execution.
ExecuteUnregistered(r) ==
    /\ r \in checked /\ checked' = {}
    /\ StartThread(r)

\* Then it looks into _active_executions.  What the row says by now is not read
\* again: a thread may have left it in progress, raised and gone since.
Execute(r) ==
    /\ r \in checked /\ checked' = {}
    /\ r \notin active
    /\ StartThread(r)

AlreadyActive(r) ==
    /\ r \in checked /\ checked' = {}
    /\ r \in active
    /\ UNCHANGED <<status, steps, active, thread, cancelled, executions, crashes>>

\* cancel_run only marks the row: it does not tell the thread.
Cancel(r) ==
    /\ checked = {}
    /\ status[r] \notin {"absent"} \cup Finished
    /\ status' = [status EXCEPT ![r] = "cancelled"]
    /\ cancelled' = cancelled \cup {r}
    /\ UNCHANGED <<steps, active, thread, checked, executions, crashes>>
-----------------------------------------------------------------------------
(* execute_run, in the daemon thread.                                      *)

\* _persist_run: INSERT OR REPLACE of the whole row from the thread's copy.
Persist(r, st, sq) ==
    /\ status' = [status EXCEPT ![r] = st]
    /\ steps' = [steps EXCEPT ![r] = sq]

Continue(th, pc) == thread' = [thread EXCEPT ![th].pc = pc]

\* Mutant: an execution starts from an empty list of steps.
LoadFresh(th, r) ==
    /\ thread[th].pc = "load"
    /\ Continue(th, "planning")
    /\ UNCHANGED <<status, steps, active, cancelled, checked, executions, crashes>>

LoadRun(th, r) ==
    /\ thread[th].pc = "load"
    /\ thread' = [thread EXCEPT ![th] =
                    [@ EXCEPT !.pc = "planning", !.steps = steps[r],
                              !.start = Len(steps[r])]]
    /\ UNCHANGED <<status, steps, active, cancelled, checked, executions, crashes>>

StartPlanning(th, r) ==
    /\ thread[th].pc = "planning"
    /\ Persist(r, "planning", thread[th].steps)
    /\ Continue(th, "plan")
    /\ UNCHANGED <<active, cancelled, checked, executions, crashes>>

\* Mutant: a failed planner ends the thread before its finally.
PlanFailsEarly(th, r) ==
    /\ thread[th].pc = "plan"
    /\ \/ Persist(r, "generating", thread[th].steps) /\ Continue(th, "steps")
       \/ /\ Persist(r, "failed", thread[th].steps)
          /\ thread' = [thread EXCEPT ![th] = NoThread]
    /\ UNCHANGED <<active, cancelled, checked, executions, crashes>>

\* The planner answers, or raises and the run is failed at once.
Plan(th, r) ==
    /\ thread[th].pc = "plan"
    /\ \/ Persist(r, "generating", thread[th].steps) /\ Continue(th, "steps")
       \/ Persist(r, "failed", thread[th].steps) /\ Continue(th, "discard")
    /\ UNCHANGED <<active, cancelled, checked, executions, crashes>>

StepsDone(th) == Len(thread[th].steps) - thread[th].start

\* Mutant: a step can be recorded while it is still under review.
RunStepUndecided(th) ==
    /\ thread[th].pc = "steps"
    /\ StepsDone(th) < PlanSteps
    /\ \E outcome \in Finished \cup {"reviewing"} :
        thread' = [thread EXCEPT ![th].steps = Append(@, outcome)]
    /\ UNCHANGED <<status, steps, active, cancelled, checked, executions, crashes>>

\* One step of the plan: generated, reviewed by the decision gate, recorded in
\* the thread's copy only.
RunStep(th) ==
    /\ thread[th].pc = "steps"
    /\ StepsDone(th) < PlanSteps
    /\ \E outcome \in Finished :
        thread' = [thread EXCEPT ![th].steps = Append(@, outcome)]
    /\ UNCHANGED <<status, steps, active, cancelled, checked, executions, crashes>>

\* Mutant: the last step decides.
LastFailed(th) == thread[th].steps[Len(thread[th].steps)] = "failed"

\* Mutant: the failures of an earlier execution count as well.
AnyEverFailed(th) ==
    \E k \in 1..Len(thread[th].steps) : thread[th].steps[k] = "failed"

\* any_failed looks at the steps of this execution only.
AnyFailed(th) ==
    \E k \in (thread[th].start + 1)..Len(thread[th].steps) :
        thread[th].steps[k] = "failed"

Finalize(th, r) ==
    /\ thread[th].pc = "steps"
    /\ StepsDone(th) = PlanSteps
    /\ Persist(r, IF AnyFailed(th) THEN "failed" ELSE "complete", thread[th].steps)
    /\ Continue(th, "discard")
    /\ UNCHANGED <<active, cancelled, checked, executions, crashes>>

\* execute_run raises between its phases (a refused write, a subscriber of its
\* events): the row stays as it is, and the route's thread only logs it.
ExecutionRaises(th) ==
    /\ thread[th].pc \in {"load", "planning", "plan", "steps"}
    /\ Continue(th, "discard")
    /\ UNCHANGED <<status, steps, active, cancelled, checked, executions, crashes>>

\* The finally of _execute_in_background.
Discard(th, r) ==
    /\ thread[th].pc = "discard"
    /\ active' = active \ {r}
    /\ thread' = [thread EXCEPT ![th] = NoThread]
    /\ UNCHANGED <<status, steps, cancelled, checked, executions, crashes>>

ThreadStep(th) ==
    \/ RunStep(th)
    \/ \E r \in thread[th].runs :
        \/ LoadRun(th, r) \/ StartPlanning(th, r) \/ Plan(th, r)
        \/ Finalize(th, r) \/ Discard(th, r)

\* Daemon threads die with the process; the rows stay as they were written.
Crash ==
    /\ crashes < MaxCrashes /\ crashes' = crashes + 1
    /\ active' = {} /\ checked' = {}
    /\ thread' = [th \in Threads |-> NoThread]
    /\ UNCHANGED <<status, steps, cancelled, executions>>

Next ==
    \/ \E r \in Runs :
        SubmitIdea(r) \/ CheckStatus(r) \/ Execute(r) \/ AlreadyActive(r) \/ Cancel(r)
    \/ \E th \in Threads : ThreadStep(th) \/ ExecutionRaises(th)
    \/ Crash

Spec == Init /\ [][Next]_vars

\* The planner, the code agent and the gate return: every started thread runs on.
FairSpec == Spec /\ \A th \in Threads : WF_vars(ThreadStep(th))
-----------------------------------------------------------------------------
(* _active_executions and the daemon threads tell the same story: at most  *)
(* one thread works on a run, and a run is registered exactly while one    *)
(* does, across overlapping requests, failures and restarts.               *)
OneExecutorPerRun ==
    /\ active = UNION {thread[th].runs : th \in Threads}
    /\ \A a, b \in Threads : a # b => thread[a].runs \cap thread[b].runs = {}

(* What an execution recorded is never lost: the thread's whole-row writes *)
(* only ever extend the list of steps, although each comes from a copy.    *)
StepsOnlyGrow ==
    [][\A r \in Runs : /\ Len(steps'[r]) >= Len(steps[r])
                       /\ SubSeq(steps'[r], 1, Len(steps[r])) = steps[r]]_vars

(* A run becomes complete only with a full plan's worth of new steps, all  *)
(* of them complete.                                                       *)
CompleteIsEarned ==
    [][\A r \in Runs : status[r] # "complete" /\ status'[r] = "complete" =>
         LET n == Len(steps'[r]) IN
         /\ n >= PlanSteps
         /\ \A k \in (n - PlanSteps + 1)..n : steps'[r][k] = "complete"]_vars

\* What RunLedger calls the stage of a run: the phase its thread is in.
StageOf ==
    [none |-> "idle", load |-> "started", planning |-> "started", plan |-> "planning",
     steps |-> "generating", discard |-> "ending"]

Stage ==
    [r \in Runs |->
        IF \E th \in Threads : r \in thread[th].runs
        THEN StageOf[thread[CHOOSE th \in Threads : r \in thread[th].runs].pc]
        ELSE "idle"]

(* The threads implement the promise of RunLedger: although each keeps its *)
(* own copy of a row and writes the whole of it several times, a reader    *)
(* sees steps appended once per execution, by one execution at a time.     *)
Ledger == INSTANCE RunLedger WITH stage <- Stage

ImplementsLedger == Ledger!Spec

(* An execution that was started ends and unregisters its run, whatever    *)
(* fails or is cancelled meanwhile.  (An execution that raised may leave   *)
(* the row in progress; then only a cancel lets it be executed again.)     *)
ExecutionEnds == \A r \in Runs : r \in active ~> r \notin active

-----------------------------------------------------------------------------
(* What comments of the code say, and the code does not keep.              *)

(* pipeline_controller.py: cancel_run does "Cancel a running pipeline";    *)
(* a run answered as cancelled stays so until it is executed again.        *)
CancelHolds == \A r \in cancelled : status[r] = "cancelled"

(* pipeline_controller.py: "SQLite-backed for restart recovery"; a run in  *)
(* progress has a thread, or POST .../execute would start one.             *)
InterruptedRunRecovers == \A r \in Runs : status[r] \in InProgress => r \in active
=============================================================================
