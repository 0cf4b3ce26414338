---------------------- MODULE RetryOrchestratorProofs ----------------------
(***************************************************************************)
(* The retry budget and the dead letter queue for any operations, threads, *)
(* policies and restarts.  TypeOK is inductive; each of the other three is *)
(* proved from it, the overrun with one strengthening: the retries that    *)
(* calls have counted and not inserted yet are within the bound as well.   *)
(***************************************************************************)
EXTENDS RetryOrchestrator, FiniteSetTheorems, TLAPS

\* The calls that are going to insert a retry of op.
Granting(op) == {th \in Inserting(op) : call[th].kind = "retry"}

(* The retries granted, inserted or not, and the calls counted in peak.    *)
OverrunInv ==
    \A op \in Operations :
        /\ attempts[op]["retry"] + Cardinality(Granting(op)) + 2 <= MaxBudget + peak[op]
        /\ Cardinality(Inserting(op)) <= peak[op]
        /\ Granting(op) # {} => MaxBudget >= 2

-----------------------------------------------------------------------------
(* An update of one call leaves the other calls where they were.           *)
LEMMA StepSets ==
    ASSUME TypeOK, NEW th \in Threads, NEW c \in Calls, call' = [call EXCEPT ![th] = c],
           NEW op \in Operations
    PROVE  \A t :
             /\ t \in Inserting(op)' <=> IF t = th THEN c.at = "insert" /\ c.op = op
                                                   ELSE t \in Inserting(op)
             /\ t \in Moving(op)' <=> IF t = th THEN c.at = "move" /\ c.op = op
                                                ELSE t \in Moving(op)
             /\ t \in Granting(op)' <=>
                  IF t = th THEN c.at = "insert" /\ c.op = op /\ c.kind = "retry"
                            ELSE t \in Granting(op)
<1>1. \A t \in Threads : call'[t] = IF t = th THEN c ELSE call[t]
      BY DEF TypeOK
<1> QED BY <1>1 DEF Inserting, Moving, Granting

(* A step that leaves the calls alone leaves these sets alone.             *)
LEMMA SameSets ==
    ASSUME UNCHANGED call, NEW op \in Operations
    PROVE  /\ Inserting(op)' = Inserting(op) /\ Moving(op)' = Moving(op)
           /\ Granting(op)' = Granting(op)
BY DEF Inserting, Moving, Granting

(* The sets of calls are finite, and idle calls are in none of them.       *)
LEMMA SetsFinite ==
    ASSUME NEW op \in Operations
    PROVE  /\ IsFiniteSet(Inserting(op)) /\ IsFiniteSet(Granting(op))
           /\ Cardinality(Inserting(op)) \in Nat /\ Cardinality(Granting(op)) \in Nat
           /\ Cardinality(Granting(op)) <= Cardinality(Inserting(op))
<1>1. Inserting(op) \subseteq Threads /\ Granting(op) \subseteq Inserting(op)
      BY DEF Inserting, Granting
<1> QED BY <1>1, BudgetAssumption, FS_Subset, FS_CardinalityType

LEMMA IdleIsCall ==
    /\ Idle \in Calls /\ Idle.at = "idle"
    /\ \A c \in Calls : c.at \in {"idle", "insert", "move"}
    /\ \A c \in Calls : c.at # "idle" =>
         /\ c.op \in Operations /\ c.kind \in {"retry", "last", "skipped"}
         /\ c = [at |-> c.at, op |-> c.op, kind |-> c.kind]
BY DEF Calls, Idle

(* One more row of a kind is one more row.                                 *)
LEMMA AddCounts ==
    ASSUME TypeOK, NEW op \in Operations, NEW kind \in Kinds, Add(op, kind)
    PROVE  /\ attempts' \in [Operations -> [Kinds -> Nat]]
           /\ \A o \in Operations, k \in Kinds :
                attempts'[o][k] = IF o = op /\ k = kind THEN attempts[o][k] + 1
                                                        ELSE attempts[o][k]
BY DEF TypeOK, Add
-----------------------------------------------------------------------------
(* Every step keeps the types.                                             *)
LEMMA TypeStep == TypeOK /\ [Next]_vars => TypeOK'
<1> SUFFICES ASSUME TypeOK, [Next]_vars PROVE TypeOK'
    OBVIOUS
<1> USE IdleIsCall
<1> DEFINE Fits(c) == /\ c.at = "insert" => c.kind # "skipped"
                      /\ c.at = "move" => c.kind # "retry"
<1>1. ASSUME NEW th \in Threads, NEW c \in Calls, call' = [call EXCEPT ![th] = c], Fits(c)
      PROVE  /\ call' \in [Threads -> Calls]
             /\ \A t \in Threads : Fits(call'[t])
      BY <1>1 DEF TypeOK
<1>2. ASSUME NEW th \in Threads, NEW op \in Operations, NEW budget \in Budgets,
             CountAttempts(th, op, budget)
      PROVE  TypeOK'
  <2> DEFINE kind == IF Rows(op) + 1 < budget THEN "retry" ELSE "last"
             c == [at |-> "insert", op |-> op, kind |-> kind]
  <2>1. c \in Calls /\ Fits(c) /\ call' = [call EXCEPT ![th] = c]
        BY <1>2 DEF Calls, CountAttempts, Step
  <2>2. peak' \in [Operations -> Nat \ {0}]
        BY <1>2 DEF TypeOK, CountAttempts
  <2> QED BY <1>1, <1>2, <2>1, <2>2 DEF TypeOK, CountAttempts
<1>3. ASSUME NEW th \in Threads, NEW op \in Operations, InsertSkipped(th, op)
      PROVE  TypeOK'
  <2> DEFINE c == [at |-> "move", op |-> op, kind |-> "skipped"]
  <2>1. c \in Calls /\ Fits(c) /\ call' = [call EXCEPT ![th] = c]
        BY <1>3 DEF Calls, InsertSkipped, Step
  <2>2. attempts' \in [Operations -> [Kinds -> Nat]]
        BY <1>3, AddCounts DEF InsertSkipped, Kinds
  <2> QED BY <1>1, <1>3, <2>1, <2>2 DEF TypeOK, InsertSkipped
<1>4. ASSUME NEW th \in Threads, InsertAttempt(th)
      PROVE  TypeOK'
  <2>1. /\ call[th] \in Calls /\ call[th].at = "insert" /\ call[th].kind \in Kinds
        /\ call[th].op \in Operations
        BY <1>4 DEF TypeOK, InsertAttempt, Kinds
  <2>2. attempts' \in [Operations -> [Kinds -> Nat]]
        BY <1>4, <2>1, AddCounts DEF InsertAttempt
  <2> DEFINE c == [at |-> "move", op |-> call[th].op, kind |-> "last"]
  <2>3. c \in Calls /\ Fits(c) /\ Fits(Idle)
        BY <2>1 DEF Calls
  <2>4. call' = [call EXCEPT ![th] = c] \/ call' = [call EXCEPT ![th] = Idle]
        BY <1>4 DEF InsertAttempt, Step
  <2>5. call' \in [Threads -> Calls] /\ \A t \in Threads : Fits(call'[t])
        BY <1>1, <2>3, <2>4
  <2> QED BY <1>4, <2>2, <2>5 DEF TypeOK, InsertAttempt
<1>5. ASSUME NEW th \in Threads, MoveToDlq(th)
      PROVE  TypeOK'
  <2>1. Fits(Idle) /\ call' = [call EXCEPT ![th] = Idle]
        BY <1>5 DEF MoveToDlq
  <2>2. call' \in [Threads -> Calls] /\ \A t \in Threads : Fits(call'[t])
        BY <1>1, <2>1
  <2> QED BY <1>5, <2>2 DEF TypeOK, MoveToDlq
<1>6. ASSUME NEW op \in Operations, RecordSuccess(op)
      PROVE  TypeOK'
  <2>1. attempts' \in [Operations -> [Kinds -> Nat]]
        BY <1>6, AddCounts DEF RecordSuccess, Kinds
  <2> QED BY <1>6, <2>1 DEF TypeOK, RecordSuccess
<1>7. ASSUME NEW op \in Operations, ReviewDlqEntry(op)
      PROVE  TypeOK'
      BY <1>7 DEF TypeOK, ReviewDlqEntry
<1>8. ASSUME NEW op \in Operations, RetryDlqEntry(op)
      PROVE  TypeOK'
      BY <1>8 DEF TypeOK, RetryDlqEntry, NoAttempts
<1>9. ASSUME NEW gone \in SUBSET Threads, CallsLost(gone)
      PROVE  TypeOK'
      BY <1>9 DEF TypeOK, CallsLost
<1>10. CASE UNCHANGED vars
      BY <1>10 DEF TypeOK, vars
<1> QED BY <1>2, <1>3, <1>4, <1>5, <1>6, <1>7, <1>8, <1>9, <1>10
           DEF Next, StatementRefused, Restart

(* The tables, the calls in flight and the bookkeeping keep their types,   *)
(* and a call only inserts a counted attempt or moves an exhausted one.    *)
THEOREM TypeCorrect == Spec => []TypeOK
<1>1. Init => TypeOK
      BY IdleIsCall DEF Init, TypeOK, NoAttempts
<1> QED BY <1>1, TypeStep, PTL DEF Spec
-----------------------------------------------------------------------------
(* A move about to be made stays so until it is made, and an insert of an  *)
(* exhausting attempt is followed by one.                                  *)
LEMMA QueuedStep == TypeOK /\ ExhaustedIsQueued /\ [Next]_vars => ExhaustedIsQueued'
<1> SUFFICES ASSUME TypeOK, ExhaustedIsQueued, [Next]_vars, NEW op \in Operations, Exhausted(op)'
             PROVE  dlq'[op] # "none" \/ Moving(op)' # {} \/ op \in dropped'
    BY DEF ExhaustedIsQueued
<1> DEFINE Queued == dlq[op] # "none" \/ Moving(op) # {} \/ op \in dropped
<1> USE IdleIsCall
<1>0. Exhausted(op) => Queued
      BY DEF ExhaustedIsQueued
<1>1. ASSUME NEW th \in Threads, NEW o \in Operations, NEW budget \in Budgets,
             CountAttempts(th, o, budget)
      PROVE  dlq'[op] # "none" \/ Moving(op)' # {} \/ op \in dropped'
  <2> DEFINE kind == IF Rows(o) + 1 < budget THEN "retry" ELSE "last"
             c == [at |-> "insert", op |-> o, kind |-> kind]
  <2>1. /\ c \in Calls /\ c.at = "insert" /\ c.op = o /\ th \notin Moving(op)
        /\ call' = [call EXCEPT ![th] = c]
        BY <1>1 DEF Calls, CountAttempts, Step, Moving
  <2> HIDE DEF c
  <2>2. Moving(op) \subseteq Moving(op)'
        BY <2>1, StepSets
  <2>3. Exhausted(op)
        BY <1>1 DEF CountAttempts, Exhausted
  <2> QED BY <1>0, <1>1, <2>2, <2>3 DEF CountAttempts
<1>2. ASSUME NEW th \in Threads, NEW o \in Operations, InsertSkipped(th, o)
      PROVE  dlq'[op] # "none" \/ Moving(op)' # {} \/ op \in dropped'
  <2> DEFINE c == [at |-> "move", op |-> o, kind |-> "skipped"]
  <2>1. /\ c \in Calls /\ c.at = "move" /\ c.op = o /\ th \notin Moving(op)
        /\ call' = [call EXCEPT ![th] = c]
        BY <1>2 DEF Calls, InsertSkipped, Step, Moving
  <2> HIDE DEF c
  <2>2. Moving(op) \subseteq Moving(op)' /\ (o = op => th \in Moving(op)')
        BY <2>1, StepSets
  <2>3. o # op => Exhausted(op)
        BY <1>2, AddCounts DEF InsertSkipped, Exhausted, Kinds
  <2> QED BY <1>0, <1>2, <2>2, <2>3 DEF InsertSkipped
<1>3. ASSUME NEW th \in Threads, InsertAttempt(th)
      PROVE  dlq'[op] # "none" \/ Moving(op)' # {} \/ op \in dropped'
  <2>1. /\ call[th] \in Calls /\ call[th].at = "insert" /\ call[th].kind \in {"retry", "last"}
        /\ call[th].op \in Operations /\ th \notin Moving(op)
        BY <1>3 DEF TypeOK, InsertAttempt, Moving
  <2>2. Moving(op) \subseteq Moving(op)'
    <3> DEFINE c == [at |-> "move", op |-> call[th].op, kind |-> "last"]
    <3>1. c \in Calls /\ c.at = "move" /\ c.op = call[th].op
          BY <2>1 DEF Calls
    <3>2. call' = [call EXCEPT ![th] = c] \/ call' = [call EXCEPT ![th] = Idle]
          BY <1>3 DEF InsertAttempt, Step
    <3> HIDE DEF c
    <3>3. call' = [call EXCEPT ![th] = c] => Moving(op) \subseteq Moving(op)'
          BY <2>1, <3>1, StepSets
    <3>4. call' = [call EXCEPT ![th] = Idle] => Moving(op) \subseteq Moving(op)'
          BY <2>1, StepSets
    <3> QED BY <3>2, <3>3, <3>4
  <2>3. CASE call[th].kind = "last" /\ call[th].op = op
        BY <1>3, <2>3 DEF InsertAttempt, Step, TypeOK, Moving
  <2>4. CASE ~(call[th].kind = "last" /\ call[th].op = op)
    <3>1. Exhausted(op)
          BY <1>3, <2>1, <2>4, AddCounts DEF InsertAttempt, Exhausted, Kinds
    <3> QED BY <1>0, <1>3, <2>2, <3>1 DEF InsertAttempt
  <2> QED BY <2>3, <2>4
<1>4. ASSUME NEW th \in Threads, MoveToDlq(th)
      PROVE  dlq'[op] # "none" \/ Moving(op)' # {} \/ op \in dropped'
  <2>1. Exhausted(op) /\ (op = call[th].op => dlq'[op] # "none")
        BY <1>4 DEF MoveToDlq, Exhausted, TypeOK
  <2>2. op # call[th].op => Moving(op)' = Moving(op)
    <3>1. \A t : t \in Moving(op)' <=> t # th /\ t \in Moving(op)
          BY <1>4, StepSets DEF MoveToDlq
    <3> QED BY <3>1 DEF Moving
  <2> QED BY <1>0, <1>4, <2>1, <2>2 DEF MoveToDlq, TypeOK
<1>5. ASSUME NEW o \in Operations, RecordSuccess(o)
      PROVE  dlq'[op] # "none" \/ Moving(op)' # {} \/ op \in dropped'
  <2>1. Exhausted(op)
        BY <1>5, AddCounts DEF RecordSuccess, Exhausted, Kinds
  <2> QED BY <1>0, <1>5, <2>1, SameSets DEF RecordSuccess
<1>6. ASSUME NEW o \in Operations, ReviewDlqEntry(o)
      PROVE  dlq'[op] # "none" \/ Moving(op)' # {} \/ op \in dropped'
  <2>1. Exhausted(op) /\ (dlq[op] # "none" => dlq'[op] # "none")
        BY <1>6 DEF ReviewDlqEntry, Exhausted, TypeOK
  <2> QED BY <1>0, <1>6, <2>1, SameSets DEF ReviewDlqEntry
<1>7. ASSUME NEW o \in Operations, RetryDlqEntry(o)
      PROVE  dlq'[op] # "none" \/ Moving(op)' # {} \/ op \in dropped'
  <2>1. o # op
        BY <1>7 DEF RetryDlqEntry, Exhausted, NoAttempts, Kinds, TypeOK
  <2>2. Exhausted(op) /\ dlq'[op] = dlq[op]
        BY <1>7, <2>1 DEF RetryDlqEntry, Exhausted, TypeOK
  <2> QED BY <1>0, <1>7, <2>2, SameSets DEF RetryDlqEntry
<1>8. ASSUME NEW gone \in SUBSET Threads, CallsLost(gone)
      PROVE  dlq'[op] # "none" \/ Moving(op)' # {} \/ op \in dropped'
  <2>1. Moving(op) \ gone \subseteq Moving(op)'
        BY <1>8 DEF CallsLost, Moving
  <2>2. Moving(op) \cap gone # {} => op \in dropped'
        BY <1>8 DEF CallsLost
  <2> QED BY <1>0, <1>8, <2>1, <2>2 DEF CallsLost, Exhausted
<1>9. CASE UNCHANGED vars
      BY <1>0, <1>9, SameSets DEF vars, Exhausted
<1> QED BY <1>1, <1>2, <1>3, <1>4, <1>5, <1>6, <1>7, <1>8, <1>9
           DEF Next, StatementRefused, Restart

(* An exhausted operation is in the dead letter queue, about to be moved   *)
(* there, or its move was dropped by a restart or a refused statement.     *)
THEOREM ExhaustedAreQueued == Spec => []ExhaustedIsQueued
<1>1. Init => ExhaustedIsQueued
      BY DEF Init, ExhaustedIsQueued, Exhausted, NoAttempts, Kinds
<1> QED BY <1>1, QueuedStep, TypeCorrect, PTL DEF Spec
-----------------------------------------------------------------------------
(* A call that is going to move an operation has exhausted it, unless the  *)
(* entry was retried meanwhile; so has every entry of the queue.           *)
EarnedInv ==
    \A op \in Operations :
        dlq[op] # "none" \/ Moving(op) # {} => Exhausted(op) \/ op \in overtaken

LEMMA EarnedStep == TypeOK /\ EarnedInv /\ [Next]_vars => EarnedInv'
<1> SUFFICES ASSUME TypeOK, EarnedInv, [Next]_vars, NEW op \in Operations,
                    dlq'[op] # "none" \/ Moving(op)' # {}
             PROVE  Exhausted(op)' \/ op \in overtaken'
    BY DEF EarnedInv
<1> USE IdleIsCall
<1>0. dlq[op] # "none" \/ Moving(op) # {} => Exhausted(op) \/ op \in overtaken
      BY DEF EarnedInv
<1>1. ASSUME NEW th \in Threads, NEW o \in Operations, NEW budget \in Budgets,
             CountAttempts(th, o, budget)
      PROVE  Exhausted(op)' \/ op \in overtaken'
  <2> DEFINE kind == IF Rows(o) + 1 < budget THEN "retry" ELSE "last"
             c == [at |-> "insert", op |-> o, kind |-> kind]
  <2>1. /\ c \in Calls /\ c.at = "insert" /\ c.op = o
        /\ call' = [call EXCEPT ![th] = c]
        BY <1>1 DEF Calls, CountAttempts, Step
  <2> HIDE DEF c
  <2>2. Moving(op)' \subseteq Moving(op)
        BY <2>1, StepSets
  <2> QED BY <1>0, <1>1, <2>2 DEF CountAttempts, Exhausted
<1>2. ASSUME NEW th \in Threads, NEW o \in Operations, InsertSkipped(th, o)
      PROVE  Exhausted(op)' \/ op \in overtaken'
  <2> DEFINE c == [at |-> "move", op |-> o, kind |-> "skipped"]
  <2>1. /\ c \in Calls /\ c.at = "move" /\ c.op = o
        /\ call' = [call EXCEPT ![th] = c]
        BY <1>2 DEF Calls, InsertSkipped, Step
  <2> HIDE DEF c
  <2>2. o # op => Moving(op)' \subseteq Moving(op)
        BY <2>1, StepSets
  <2>3. /\ o = op => Exhausted(op)'
        /\ Exhausted(op) => Exhausted(op)'
        BY <1>2, AddCounts DEF InsertSkipped, Exhausted, Kinds, TypeOK
  <2> QED BY <1>0, <1>2, <2>2, <2>3 DEF InsertSkipped
<1>3. ASSUME NEW th \in Threads, InsertAttempt(th)
      PROVE  Exhausted(op)' \/ op \in overtaken'
  <2>1. /\ call[th] \in Calls /\ call[th].at = "insert" /\ call[th].kind \in {"retry", "last"}
        /\ call[th].op \in Operations
        BY <1>3 DEF TypeOK, InsertAttempt
  <2>2. /\ Exhausted(op) => Exhausted(op)'
        /\ call[th].kind = "last" /\ call[th].op = op => Exhausted(op)'
        BY <1>3, <2>1, AddCounts DEF InsertAttempt, Exhausted, Kinds, TypeOK
  <2>3. ~(call[th].kind = "last" /\ call[th].op = op) => Moving(op)' \subseteq Moving(op)
    <3> DEFINE c == [at |-> "move", op |-> call[th].op, kind |-> "last"]
    <3>1. c \in Calls /\ c.at = "move" /\ c.op = call[th].op
          BY <2>1 DEF Calls
    <3>2. \/ call[th].kind = "last" /\ call' = [call EXCEPT ![th] = c]
          \/ call' = [call EXCEPT ![th] = Idle]
          BY <1>3 DEF InsertAttempt, Step
    <3> HIDE DEF c
    <3>3. call' = [call EXCEPT ![th] = c] /\ call[th].op # op => Moving(op)' \subseteq Moving(op)
          BY <3>1, StepSets
    <3>4. call' = [call EXCEPT ![th] = Idle] => Moving(op)' \subseteq Moving(op)
          BY StepSets
    <3> QED BY <3>2, <3>3, <3>4
  <2> QED BY <1>0, <1>3, <2>2, <2>3 DEF InsertAttempt
<1>4. ASSUME NEW th \in Threads, MoveToDlq(th)
      PROVE  Exhausted(op)' \/ op \in overtaken'
  <2>1. Moving(op)' \subseteq Moving(op)
        BY <1>4, StepSets DEF MoveToDlq
  <2>2. dlq'[op] # "none" => dlq[op] # "none" \/ th \in Moving(op)
        BY <1>4 DEF MoveToDlq, TypeOK, Moving
  <2> QED BY <1>0, <1>4, <2>1, <2>2 DEF MoveToDlq, Exhausted
<1>5. ASSUME NEW o \in Operations, RecordSuccess(o)
      PROVE  Exhausted(op)' \/ op \in overtaken'
  <2>1. Exhausted(op) => Exhausted(op)'
        BY <1>5, AddCounts DEF RecordSuccess, Exhausted, Kinds, TypeOK
  <2> QED BY <1>0, <1>5, <2>1, SameSets DEF RecordSuccess
<1>6. ASSUME NEW o \in Operations, ReviewDlqEntry(o)
      PROVE  Exhausted(op)' \/ op \in overtaken'
  <2>1. dlq'[op] # "none" => dlq[op] # "none"
        BY <1>6 DEF ReviewDlqEntry, TypeOK
  <2> QED BY <1>0, <1>6, <2>1, SameSets DEF ReviewDlqEntry, Exhausted
<1>7. ASSUME NEW o \in Operations, RetryDlqEntry(o)
      PROVE  Exhausted(op)' \/ op \in overtaken'
  <2>1. Moving(op)' = Moving(op)
        BY <1>7, SameSets DEF RetryDlqEntry
  <2>2. CASE o = op
        BY <1>7, <2>1, <2>2 DEF RetryDlqEntry, TypeOK
  <2>3. CASE o # op
    <3>1. attempts'[op] = attempts[op] /\ dlq'[op] = dlq[op]
          BY <1>7, <2>3 DEF RetryDlqEntry, TypeOK
    <3> QED BY <1>0, <1>7, <2>1, <2>3, <3>1 DEF RetryDlqEntry, Exhausted
  <2> QED BY <2>2, <2>3
<1>8. ASSUME NEW gone \in SUBSET Threads, CallsLost(gone)
      PROVE  Exhausted(op)' \/ op \in overtaken'
  <2>1. Moving(op)' \subseteq Moving(op)
        BY <1>8 DEF CallsLost, Moving
  <2> QED BY <1>0, <1>8, <2>1 DEF CallsLost, Exhausted
<1>9. CASE UNCHANGED vars
      BY <1>0, <1>9, SameSets DEF vars, Exhausted
<1> QED BY <1>1, <1>2, <1>3, <1>4, <1>5, <1>6, <1>7, <1>8, <1>9
           DEF Next, StatementRefused, Restart

(* Every entry of the queue has an attempt that exhausted its operation,   *)
(* except where a retry of the entry overtook a move that was due.         *)
THEOREM EntriesAreEarned == Spec => []QueueIsEarned
<1>1. Init => EarnedInv
      BY IdleIsCall DEF Init, EarnedInv, Moving
<1>2. EarnedInv => QueueIsEarned
      BY DEF EarnedInv, QueueIsEarned
<1> QED BY <1>1, <1>2, EarnedStep, TypeCorrect, PTL DEF Spec
-----------------------------------------------------------------------------
(* A set without th, and the same set with it.                             *)
LEMMA OneMore ==
    ASSUME NEW S, NEW T, NEW th, IsFiniteSet(S), th \notin S, \A t : t \in T <=> t \in S \/ t = th
    PROVE  Cardinality(T) = Cardinality(S) + 1
<1>1. T = S \cup {th}
      OBVIOUS
<1> QED BY <1>1, FS_AddElement

(* The bound on the overrun holds of each operation through a step on the  *)
(* calls and the rows of it that the premises describe.                    *)
LEMMA OverrunStep == TypeOK /\ OverrunInv /\ [Next]_vars => OverrunInv'
<1> SUFFICES ASSUME TypeOK, OverrunInv, [Next]_vars, NEW op \in Operations
             PROVE  /\ attempts'[op]["retry"] + Cardinality(Granting(op)') + 2
                         <= MaxBudget + peak'[op]
                    /\ Cardinality(Inserting(op)') <= peak'[op]
                    /\ Granting(op)' # {} => MaxBudget >= 2
    BY DEF OverrunInv
<1> DEFINE n == attempts[op]["retry"]
           g == Cardinality(Granting(op))
           i == Cardinality(Inserting(op))
<1> USE IdleIsCall, BudgetAssumption
<1>a. /\ n + g + 2 <= MaxBudget + peak[op] /\ i <= peak[op]
      /\ Granting(op) # {} => MaxBudget >= 2
      /\ n \in Nat /\ g \in Nat /\ i \in Nat /\ peak[op] \in Nat \ {0} /\ g <= i
      BY SetsFinite DEF OverrunInv, TypeOK, Kinds
<1>f. IsFiniteSet(Inserting(op)) /\ IsFiniteSet(Granting(op))
      BY SetsFinite
<1>b. ASSUME UNCHANGED call, attempts'[op]["retry"] = n, peak' = peak
      PROVE  /\ attempts'[op]["retry"] + Cardinality(Granting(op)') + 2 <= MaxBudget + peak'[op]
             /\ Cardinality(Inserting(op)') <= peak'[op]
             /\ Granting(op)' # {} => MaxBudget >= 2
      BY <1>a, <1>b, SameSets
\* A call that stays away from op, or leaves its insert.
<1>c. ASSUME NEW th \in Threads, NEW c \in Calls, call' = [call EXCEPT ![th] = c],
             c.at # "insert" \/ c.op # op, th \notin Inserting(op)
      PROVE  Inserting(op)' = Inserting(op) /\ Granting(op)' = Granting(op)
  <2>1. \A t : /\ t \in Inserting(op)' <=> t \in Inserting(op)
               /\ t \in Granting(op)' <=> t \in Granting(op)
    <3>1. th \notin Granting(op)
          BY <1>c DEF Granting
    <3>2. \A t : /\ t \in Inserting(op)' <=> IF t = th THEN FALSE ELSE t \in Inserting(op)
                 /\ t \in Granting(op)' <=> IF t = th THEN FALSE ELSE t \in Granting(op)
          BY <1>c, StepSets
    <3> QED BY <1>c, <3>1, <3>2
  <2> QED BY <2>1
<1>1. ASSUME NEW th \in Threads, NEW o \in Operations, NEW budget \in Budgets,
             CountAttempts(th, o, budget)
      PROVE  /\ attempts'[op]["retry"] + Cardinality(Granting(op)') + 2 <= MaxBudget + peak'[op]
             /\ Cardinality(Inserting(op)') <= peak'[op]
             /\ Granting(op)' # {} => MaxBudget >= 2
  <2> DEFINE kind == IF Rows(o) + 1 < budget THEN "retry" ELSE "last"
             c == [at |-> "insert", op |-> o, kind |-> kind]
  <2>1. /\ c \in Calls /\ c.at = "insert" /\ c.op = o /\ c.kind = kind
        /\ call' = [call EXCEPT ![th] = c] /\ th \notin Inserting(op)
        /\ attempts' = attempts
        BY <1>1 DEF Calls, CountAttempts, Step, Inserting
  <2>2. kind = "retry" /\ o = op => n <= MaxBudget - 2 /\ MaxBudget >= 2
    <3> SUFFICES ASSUME kind = "retry", o = op PROVE n <= MaxBudget - 2 /\ MaxBudget >= 2
        OBVIOUS
    <3>1. Rows(o) + 1 < budget /\ budget \in Nat /\ budget <= MaxBudget
          BY SMT
    <3>2. n <= Rows(o) /\ Rows(o) \in Nat
          BY DEF Rows, TypeOK, Kinds
    <3> QED BY <3>1, <3>2, <1>a
  <2> HIDE DEF c, kind
  <2>3. CASE o # op
    <3>1. peak'[op] = peak[op]
          BY <1>1, <2>3 DEF CountAttempts, TypeOK
    <3> QED BY <1>a, <1>c, <2>1, <2>3, <3>1
  <2>4. CASE o = op
    <3>1. Cardinality(Inserting(op)') = i + 1
      <4>1. \A t : t \in Inserting(op)' <=> t \in Inserting(op) \/ t = th
            BY <2>1, <2>4, StepSets
      <4> QED BY <4>1, <2>1, <1>f, OneMore
    <3>2. peak'[op] = IF i >= peak[op] THEN peak[op] + 1 ELSE peak[op]
          BY <1>1, <2>4 DEF CountAttempts, TypeOK
    <3>3. CASE kind = "retry"
      <4>1. \A t : t \in Granting(op)' <=> t \in Granting(op) \/ t = th
            BY <2>1, <2>4, <3>3, StepSets
      <4>2. th \notin Granting(op)
            BY <2>1 DEF Granting
      <4>3. Cardinality(Granting(op)') = g + 1
            BY <4>1, <4>2, <1>f, OneMore
      <4> QED BY <1>a, <2>1, <2>2, <2>4, <3>1, <3>2, <3>3, <4>3
    <3>4. CASE kind # "retry"
      <4>1. Granting(op)' = Granting(op)
        <5>1. \A t : t \in Granting(op)' <=> t \in Granting(op)
              BY <2>1, <3>4, StepSets DEF Granting
        <5> QED BY <5>1
      <4> QED BY <1>a, <2>1, <3>1, <3>2, <4>1
    <3> QED BY <3>3, <3>4
  <2> QED BY <2>3, <2>4
<1>2. ASSUME NEW th \in Threads, NEW o \in Operations, InsertSkipped(th, o)
      PROVE  /\ attempts'[op]["retry"] + Cardinality(Granting(op)') + 2 <= MaxBudget + peak'[op]
             /\ Cardinality(Inserting(op)') <= peak'[op]
             /\ Granting(op)' # {} => MaxBudget >= 2
  <2> DEFINE c == [at |-> "move", op |-> o, kind |-> "skipped"]
  <2>1. /\ c \in Calls /\ c.at = "move" /\ call' = [call EXCEPT ![th] = c]
        /\ th \notin Inserting(op)
        BY <1>2 DEF Calls, InsertSkipped, Step, Inserting
  <2> HIDE DEF c
  <2>2. attempts'[op]["retry"] = n /\ peak' = peak
        BY <1>2, AddCounts DEF InsertSkipped, Kinds
  <2> QED BY <1>a, <1>c, <2>1, <2>2
<1>3. ASSUME NEW th \in Threads, InsertAttempt(th)
      PROVE  /\ attempts'[op]["retry"] + Cardinality(Granting(op)') + 2 <= MaxBudget + peak'[op]
             /\ Cardinality(Inserting(op)') <= peak'[op]
             /\ Granting(op)' # {} => MaxBudget >= 2
  <2>1. /\ call[th] \in Calls /\ call[th].at = "insert" /\ call[th].kind \in {"retry", "last"}
        /\ call[th].op \in Operations /\ peak' = peak
        BY <1>3 DEF TypeOK, InsertAttempt
  <2>2. PICK c \in Calls : call' = [call EXCEPT ![th] = c] /\ c.at # "insert"
    <3>1. [at |-> "move", op |-> call[th].op, kind |-> "last"] \in Calls
          BY <2>1 DEF Calls
    <3> QED BY <1>3, <3>1 DEF InsertAttempt, Step
  <2>3. attempts'[op]["retry"] = IF call[th].op = op /\ call[th].kind = "retry"
                                 THEN n + 1 ELSE n
        BY <1>3, <2>1, AddCounts DEF InsertAttempt, Kinds
  <2>4. CASE call[th].op # op
    <3>1. th \notin Inserting(op)
          BY <2>4 DEF Inserting
    <3> QED BY <1>a, <1>c, <2>1, <2>2, <2>3, <2>4, <3>1
  <2>5. CASE call[th].op = op
    <3>1. i = Cardinality(Inserting(op)') + 1 /\ Cardinality(Inserting(op)') \in Nat
      <4>1. /\ \A t : t \in Inserting(op) <=> t \in Inserting(op)' \/ t = th
            /\ th \notin Inserting(op)'
        <5>1. th \in Inserting(op)
              BY <2>1, <2>5 DEF Inserting
        <5>2. \A t : t \in Inserting(op)' <=> IF t = th THEN FALSE ELSE t \in Inserting(op)
              BY <2>2, StepSets
        <5> QED BY <5>1, <5>2
      <4>2. IsFiniteSet(Inserting(op)')
            BY <1>f, <4>1, FS_Subset
      <4> QED BY <4>1, <4>2, OneMore, FS_CardinalityType
    <3>2. CASE call[th].kind = "retry"
      <4>1. /\ \A t : t \in Granting(op) <=> t \in Granting(op)' \/ t = th
            /\ th \notin Granting(op)'
        <5>1. th \in Granting(op)
              BY <2>1, <2>5, <3>2 DEF Granting, Inserting
        <5>2. \A t : t \in Granting(op)' <=> IF t = th THEN FALSE ELSE t \in Granting(op)
              BY <2>2, StepSets
        <5> QED BY <5>1, <5>2
      <4>2. IsFiniteSet(Granting(op)')
            BY <1>f, <4>1, FS_Subset
      <4>3. g = Cardinality(Granting(op)') + 1 /\ Cardinality(Granting(op)') \in Nat
            BY <4>1, <4>2, OneMore, FS_CardinalityType
      <4> QED BY <1>a, <2>1, <2>3, <2>5, <3>1, <3>2, <4>1, <4>3
    <3>3. CASE call[th].kind # "retry"
      <4>1. Granting(op)' = Granting(op)
        <5>1. \A t : t \in Granting(op)' <=> t \in Granting(op)
              BY <2>2, <3>3, StepSets DEF Granting
        <5> QED BY <5>1
      <4> QED BY <1>a, <2>1, <2>3, <3>1, <3>3, <4>1
    <3> QED BY <3>2, <3>3
  <2> QED BY <2>4, <2>5
<1>4. ASSUME NEW th \in Threads, MoveToDlq(th)
      PROVE  /\ attempts'[op]["retry"] + Cardinality(Granting(op)') + 2 <= MaxBudget + peak'[op]
             /\ Cardinality(Inserting(op)') <= peak'[op]
             /\ Granting(op)' # {} => MaxBudget >= 2
  <2>1. th \notin Inserting(op)
        BY <1>4 DEF MoveToDlq, Inserting
  <2> QED BY <1>4, <1>a, <1>c, <2>1 DEF MoveToDlq
<1>5. ASSUME NEW o \in Operations, RecordSuccess(o)
      PROVE  UNCHANGED call /\ attempts'[op]["retry"] = n /\ peak' = peak
      BY <1>5, AddCounts DEF RecordSuccess, Kinds
<1>6. ASSUME NEW o \in Operations, ReviewDlqEntry(o)
      PROVE  UNCHANGED call /\ attempts'[op]["retry"] = n /\ peak' = peak
      BY <1>6 DEF ReviewDlqEntry
<1>7. ASSUME NEW o \in Operations, RetryDlqEntry(o)
      PROVE  /\ attempts'[op]["retry"] + Cardinality(Granting(op)') + 2 <= MaxBudget + peak'[op]
             /\ Cardinality(Inserting(op)') <= peak'[op]
             /\ Granting(op)' # {} => MaxBudget >= 2
  <2>1. /\ UNCHANGED call /\ peak' = peak
        /\ attempts'[op]["retry"] = n \/ attempts'[op]["retry"] = 0
        BY <1>7 DEF RetryDlqEntry, NoAttempts, Kinds, TypeOK
  <2> QED BY <1>a, <2>1, SameSets
<1>8. ASSUME NEW gone \in SUBSET Threads, CallsLost(gone)
      PROVE  /\ attempts'[op]["retry"] + Cardinality(Granting(op)') + 2 <= MaxBudget + peak'[op]
             /\ Cardinality(Inserting(op)') <= peak'[op]
             /\ Granting(op)' # {} => MaxBudget >= 2
  <2>1. Inserting(op)' \subseteq Inserting(op) /\ Granting(op)' \subseteq Granting(op)
        BY <1>8 DEF CallsLost, Inserting, Granting
  <2>2. IsFiniteSet(Inserting(op)) /\ IsFiniteSet(Granting(op))
        BY SetsFinite
  <2>3. /\ Cardinality(Inserting(op)') <= Cardinality(Inserting(op))
        /\ Cardinality(Granting(op)') <= Cardinality(Granting(op))
        /\ Cardinality(Inserting(op)') \in Nat /\ Cardinality(Granting(op)') \in Nat
        /\ Cardinality(Inserting(op)) \in Nat /\ Cardinality(Granting(op)) \in Nat
        BY <2>1, <2>2, FS_Subset, FS_CardinalityType
  <2>4. UNCHANGED <<attempts, peak>> /\ (Granting(op)' # {} => Granting(op) # {})
        BY <1>8, <2>1 DEF CallsLost
  <2> QED BY <1>a, <2>3, <2>4, BudgetAssumption
<1>9. CASE UNCHANGED vars
      BY <1>9, <1>b DEF vars
<1> QED BY <1>b, <1>1, <1>2, <1>3, <1>4, <1>5, <1>6, <1>7, <1>8, <1>9
           DEF Next, StatementRefused, Restart

(* However many calls report failures of an operation at once, it is never *)
(* granted more retries than its budget and the calls that were between    *)
(* their count and their insert together allow.                            *)
THEOREM OverrunsAreBounded == Spec => []OverrunIsBounded
<1>1. Init => OverrunInv
  <2> SUFFICES ASSUME Init PROVE OverrunInv
      OBVIOUS
  <2>1. \A op \in Operations : Inserting(op) = {} /\ Granting(op) = {}
        BY IdleIsCall DEF Init, Inserting, Granting
  <2>2. Cardinality({}) = 0
        BY FS_EmptySet
  <2>3. ASSUME NEW op \in Operations
        PROVE  attempts[op]["retry"] = 0 /\ peak[op] = 1
        BY DEF Init, NoAttempts, Kinds
  <2> HIDE DEF Init
  <2> SUFFICES ASSUME NEW op \in Operations
               PROVE  /\ attempts[op]["retry"] + Cardinality(Granting(op)) + 2
                           <= MaxBudget + peak[op]
                      /\ Cardinality(Inserting(op)) <= peak[op]
                      /\ Granting(op) # {} => MaxBudget >= 2
      BY DEF OverrunInv
  <2>4. Cardinality(Granting(op)) = 0 /\ Cardinality(Inserting(op)) = 0 /\ Granting(op) = {}
        BY <2>1, <2>2
  <2> QED BY <2>3, <2>4, BudgetAssumption
<1>2. TypeOK /\ OverrunInv => OverrunIsBounded
  <2> SUFFICES ASSUME TypeOK, OverrunInv, NEW op \in Operations
               PROVE  attempts[op]["retry"] + 2 <= MaxBudget + peak[op]
      BY DEF OverrunIsBounded
  <2>1. Cardinality(Granting(op)) \in Nat
        BY SetsFinite
  <2> QED BY <2>1, BudgetAssumption DEF OverrunInv, TypeOK, Kinds
<1> QED BY <1>1, <1>2, OverrunStep, TypeCorrect, PTL DEF Spec
=============================================================================
