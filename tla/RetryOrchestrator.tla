------------------------- MODULE RetryOrchestrator -------------------------
(***************************************************************************)
(* The retry budget of failed operations and their dead letter queue:      *)
(* RetryOrchestrator (execution/retry_orchestrator.py), whose calls come   *)
(* from POST /retry/attempts and from code that holds the orchestrator.    *)
(*                                                                         *)
(* register_attempt counts the attempts of an operation in one critical    *)
(* section, inserts the next one in a second and moves the operation to    *)
(* the queue in a third.  The other calls are one critical section each.   *)
(* Policies come and go at any time, so a call may find any budget, and    *)
(* any error may or may not be retryable.  Delays decide nothing here.     *)
(***************************************************************************)
EXTENDS Naturals, FiniteSets

CONSTANTS
    Operations,     \* pairs of operation_type and operation_id
    Threads,        \* threads that call the orchestrator
    NoOperation,    \* no operation
    Budgets,        \* max_retries of the policies a call may find
    MaxBudget,      \* the largest of them
    MaxRows         \* bound on the attempts of an operation

ASSUME BudgetAssumption ==
    /\ IsFiniteSet(Threads)
    /\ MaxBudget \in Nat \ {0} /\ Budgets \subseteq 0..MaxBudget
    /\ MaxRows \in Nat

VARIABLES
    attempts,       \* retry_attempts: how many rows of each kind an operation has
    dlq,            \* dead_letter_queue: the entry of an operation
    call,           \* call[th]: the register_attempt thread th is in the middle of
    \* kept for the properties only
    peak,           \* the most calls ever between the count and the insert at once
    dropped,        \* operations whose move to the queue was dropped
    overtaken       \* operations retried from the queue before a move that was due

vars == <<attempts, dlq, call, peak, dropped, overtaken>>

\* A failed row whose caller is told to retry, one that used up the budget, one
\* of an error that is not retryable, and a success.
Kinds == {"retry", "last", "skipped", "success"}

NoAttempts == [kind \in Kinds |-> 0]

Idle == [at |-> "idle", op |-> NoOperation, kind |-> "none"]

Calls == {Idle} \cup [at : {"insert", "move"}, op : Operations,
                      kind : {"retry", "last", "skipped"}]

TypeOK ==
    /\ attempts \in [Operations -> [Kinds -> Nat]]
    /\ dlq \in [Operations -> {"none", "waiting", "reviewed"}]
    /\ call \in [Threads -> Calls]
    /\ peak \in [Operations -> Nat \ {0}]
    /\ dropped \subseteq Operations /\ overtaken \subseteq Operations
    /\ \A th \in Threads : /\ call[th].at = "insert" => call[th].kind # "skipped"
                           /\ call[th].at = "move" => call[th].kind # "retry"

Init ==
    /\ attempts = [op \in Operations |-> NoAttempts]
    /\ dlq = [op \in Operations |-> "none"]
    /\ call = [th \in Threads |-> Idle]
    /\ peak = [op \in Operations |-> 1]
    /\ dropped = {} /\ overtaken = {}

-----------------------------------------------------------------------------
\* SELECT COUNT(*): every row counts, whatever its result.
Rows(op) == attempts[op]["retry"] + attempts[op]["last"]
            + attempts[op]["skipped"] + attempts[op]["success"]

Inserting(op) == {th \in Threads : call[th].at = "insert" /\ call[th].op = op}
Moving(op)    == {th \in Threads : call[th].at = "move" /\ call[th].op = op}

HasRoom(op) == Rows(op) + Cardinality(Inserting(op)) < MaxRows

Step(th, at, op, kind) == call' = [call EXCEPT ![th] = [at |-> at, op |-> op, kind |-> kind]]

Add(op, kind) == attempts' = [attempts EXCEPT ![op][kind] = @ + 1]

\* Mutant: the attempt that uses up the budget is answered with one more retry.
CountAttemptsLate(th, op, budget) ==
    /\ call[th] = Idle /\ HasRoom(op)
    /\ Step(th, "insert", op, IF Rows(op) < budget THEN "retry" ELSE "last")
    /\ peak' = [peak EXCEPT ![op] = IF Cardinality(Inserting(op)) >= @ THEN @ + 1 ELSE @]
    /\ UNCHANGED <<attempts, dlq, dropped, overtaken>>

\* register_attempt up to the count: the number of this attempt, and the answer.
CountAttempts(th, op, budget) ==
    /\ call[th] = Idle /\ HasRoom(op)
    /\ Step(th, "insert", op, IF Rows(op) + 1 < budget THEN "retry" ELSE "last")
    /\ peak' = [peak EXCEPT ![op] = IF Cardinality(Inserting(op)) >= @ THEN @ + 1 ELSE @]
    /\ UNCHANGED <<attempts, dlq, dropped, overtaken>>

\* Mutant: what a call counted is not looked at after the insert.
InsertAttemptOnly(th) ==
    LET c == call[th] IN
    /\ c.at = "insert"
    /\ Add(c.op, c.kind)
    /\ call' = [call EXCEPT ![th] = Idle]
    /\ UNCHANGED <<dlq, peak, dropped, overtaken>>

\* Mutant: every failed attempt is moved to the queue.
InsertAttemptMoves(th) ==
    LET c == call[th] IN
    /\ c.at = "insert"
    /\ Add(c.op, c.kind)
    /\ Step(th, "move", c.op, c.kind)
    /\ UNCHANGED <<dlq, peak, dropped, overtaken>>

\* The INSERT of the failed attempt.
InsertAttempt(th) ==
    LET c == call[th] IN
    /\ c.at = "insert"
    /\ Add(c.op, c.kind)
    /\ IF c.kind = "last" THEN Step(th, "move", c.op, "last")
                          ELSE call' = [call EXCEPT ![th] = Idle]
    /\ UNCHANGED <<dlq, peak, dropped, overtaken>>

\* An error that the policy does not retry is inserted without a count.
InsertSkipped(th, op) ==
    /\ call[th] = Idle /\ HasRoom(op)
    /\ Add(op, "skipped")
    /\ Step(th, "move", op, "skipped")
    /\ UNCHANGED <<dlq, peak, dropped, overtaken>>

\* _move_to_dlq: a new entry, or an update of the old one that voids its review.
MoveToDlq(th) ==
    LET op == call[th].op IN
    /\ call[th].at = "move"
    /\ dlq' = [dlq EXCEPT ![op] = "waiting"]
    /\ call' = [call EXCEPT ![th] = Idle]
    /\ dropped' = dropped \ {op}
    /\ UNCHANGED <<attempts, peak, overtaken>>

RecordSuccess(op) ==
    /\ HasRoom(op)
    /\ Add(op, "success")
    /\ UNCHANGED <<dlq, call, peak, dropped, overtaken>>

ReviewDlqEntry(op) ==
    /\ dlq[op] # "none"
    /\ dlq' = [dlq EXCEPT ![op] = "reviewed"]
    /\ UNCHANGED <<attempts, call, peak, dropped, overtaken>>

\* Mutant: the entry stays in the queue until the next attempt fails.
RetryDlqEntryKept(op) ==
    /\ dlq[op] # "none"
    /\ attempts' = [attempts EXCEPT ![op] = NoAttempts]
    /\ overtaken' = IF Moving(op) # {} THEN overtaken \cup {op} ELSE overtaken \ {op}
    /\ UNCHANGED <<dlq, call, peak, dropped>>

\* retry_dlq_entry: attempts and entry are deleted, so that the operation starts
\* fresh; a move that is still due puts it back into the queue.
RetryDlqEntry(op) ==
    /\ dlq[op] # "none"
    /\ attempts' = [attempts EXCEPT ![op] = NoAttempts]
    /\ dlq' = [dlq EXCEPT ![op] = "none"]
    /\ overtaken' = IF Moving(op) # {} THEN overtaken \cup {op} ELSE overtaken \ {op}
    /\ UNCHANGED <<call, peak, dropped>>

\* Calls end before their next section: what they inserted stays, a move that
\* was due is not made.
CallsLost(gone) ==
    /\ call' = [th \in Threads |-> IF th \in gone THEN Idle ELSE call[th]]
    /\ dropped' = dropped \cup {op \in Operations : Moving(op) \cap gone # {}}
    /\ UNCHANGED <<attempts, dlq, peak, overtaken>>

\* SQLite refuses the statement of a section ("database is locked"): it raises
\* out of register_attempt.
StatementRefused(th) == call[th] # Idle /\ CallsLost({th})

\* The process restarts: both tables are on disk, the calls are gone.
Restart == CallsLost(Threads)

Next ==
    \/ \E th \in Threads, op \in Operations :
         \/ \E budget \in Budgets : CountAttempts(th, op, budget)
         \/ InsertSkipped(th, op)
    \/ \E th \in Threads : InsertAttempt(th) \/ MoveToDlq(th) \/ StatementRefused(th)
    \/ \E op \in Operations : RecordSuccess(op) \/ ReviewDlqEntry(op) \/ RetryDlqEntry(op)
    \/ Restart

Spec == Init /\ [][Next]_vars
-----------------------------------------------------------------------------
Exhausted(op) == attempts[op]["last"] + attempts[op]["skipped"] > 0

(* "When an operation exhausts its retry budget it is moved to the dead    *)
(* letter queue": an operation with an attempt that exhausted it is in the *)
(* queue, or a call is about to move it, or that move was dropped (the     *)
(* process restarted before it, or SQLite refused it), which nothing makes *)
(* up for until the operation fails again.                                 *)
ExhaustedIsQueued ==
    \A op \in Operations :
        Exhausted(op) => dlq[op] # "none" \/ Moving(op) # {} \/ op \in dropped

(* No operation waits in the queue that still has its budget: an entry has *)
(* an attempt that exhausted it, unless the entry was retried between the  *)
(* insert of such an attempt and its move (retry_dlq_entry deletes the     *)
(* attempt, and the move that was due brings the entry back).              *)
QueueIsEarned ==
    \A op \in Operations : dlq[op] # "none" => Exhausted(op) \/ op \in overtaken

(* How far the budget can be overrun: a call that counts while others are  *)
(* between count and insert misses their attempts, so max_retries bounds   *)
(* the retries granted only up to the calls that were there at once; for   *)
(* an operation with one call at a time it bounds them exactly.            *)
OverrunIsBounded ==
    \A op \in Operations : attempts[op]["retry"] + 2 <= MaxBudget + peak[op]
=============================================================================
