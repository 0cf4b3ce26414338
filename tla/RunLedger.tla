----------------------------- MODULE RunLedger -----------------------------
(***************************************************************************)
(* What the pipeline controller promises the readers of a run: a row whose *)
(* steps grow by one whole plan at the end of an execution and never       *)
(* otherwise, and one execution at a time, which goes through its phases   *)
(* in order.  There are no threads here and no copies of a row:            *)
(* PipelineExecution implements it with daemon threads that each write     *)
(* back a copy they took when they started.                                *)
(***************************************************************************)
EXTENDS Naturals, Sequences

CONSTANTS Runs,        \* run_id values
          PlanSteps    \* steps in the planner's plan

VARIABLES status,      \* status[r]: the status any reader is told
          steps,       \* steps[r]: the outcomes any reader is told
          stage        \* stage[r]: where the execution of r stands

vars == <<status, steps, stage>>

Finished   == {"complete", "failed"}
InProgress == {"planning", "generating"}
Running    == {"started"} \cup InProgress
Stages     == {"idle", "ending"} \cup Running

Init ==
    /\ status = [r \in Runs |-> "absent"]
    /\ steps = [r \in Runs |-> <<>>]
    /\ stage = [r \in Runs |-> "idle"]

Goes(r, to) == stage' = [stage EXCEPT ![r] = to]

Shows(r, st) == status' = [status EXCEPT ![r] = st]

Submit(r) ==
    /\ status[r] = "absent"
    /\ Shows(r, "pending")
    /\ UNCHANGED <<steps, stage>>

\* Cancelling is about the row only: it leaves an execution where it is.
Cancel(r) ==
    /\ status[r] \notin {"absent"} \cup Finished
    /\ Shows(r, "cancelled")
    /\ UNCHANGED <<steps, stage>>

\* The row may say anything: an execution that aborts leaves it in progress, and
\* can end after the request that begins the next one has read the row.
Begin(r) ==
    /\ stage[r] = "idle"
    /\ status[r] # "absent"
    /\ Goes(r, "started")
    /\ UNCHANGED <<status, steps>>

Planning(r) ==
    /\ stage[r] = "started"
    /\ Goes(r, "planning") /\ Shows(r, "planning")
    /\ UNCHANGED steps

Planned(r) ==
    /\ stage[r] = "planning"
    /\ Goes(r, "generating") /\ Shows(r, "generating")
    /\ UNCHANGED steps

PlannerFails(r) ==
    /\ stage[r] = "planning"
    /\ Goes(r, "ending") /\ Shows(r, "failed")
    /\ UNCHANGED steps

\* All steps of the plan are recorded at once, with the verdict they imply.
Report(r) ==
    /\ stage[r] = "generating"
    /\ Goes(r, "ending")
    /\ \E done \in [1..PlanSteps -> Finished] :
        /\ steps' = [steps EXCEPT ![r] = @ \o done]
        /\ Shows(r, IF \E k \in 1..PlanSteps : done[k] = "failed"
                    THEN "failed" ELSE "complete")

\* An execution that raises leaves the row as it last wrote it.
Abort(r) ==
    /\ stage[r] \in Running
    /\ Goes(r, "ending")
    /\ UNCHANGED <<status, steps>>

End(r) ==
    /\ stage[r] = "ending"
    /\ Goes(r, "idle")
    /\ UNCHANGED <<status, steps>>

\* A restart ends every execution and changes no row.
Restart ==
    /\ stage' = [r \in Runs |-> "idle"]
    /\ UNCHANGED <<status, steps>>

Next ==
    \/ Restart
    \/ \E r \in Runs :
        \/ Submit(r) \/ Cancel(r) \/ Begin(r) \/ Planning(r) \/ Planned(r)
        \/ PlannerFails(r) \/ Report(r) \/ Abort(r) \/ End(r)

Spec == Init /\ [][Next]_vars
=============================================================================
