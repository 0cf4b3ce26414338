--------------------- MODULE PipelineStateMachineProofs ---------------------
(***************************************************************************)
(* Theorems about PipelineStateMachine, for any runs, callers and bounds.  *)
(*                                                                         *)
(* A caller's decision may be out of date when it acts, so nothing can be  *)
(* said of call[th] beyond its type: every invariant has to follow from    *)
(* what the locked body of transition() checks again.                      *)
(***************************************************************************)
EXTENDS PipelineStateMachine, FiniteSetTheorems, TLAPS

\* A run that has not moved is in a state it was created in.
Unmoved ==
    \A r \in Runs :
        /\ log[r] = <<>> => current[r] \in InitialStates \cup {"absent"}
        /\ current[r] = "absent" => log[r] = <<>>

-----------------------------------------------------------------------------
(* What the table of transitions says of the states the properties name.   *)

LEMMA AllowedFacts ==
    /\ \A s \in States : Allowed[s] \subseteq States
    /\ \A s \in States : "paused" \in Allowed[s] => s \in Working
    /\ Allowed["cancelled"] = {} /\ Allowed["archived"] = {}
<1>1. \A s \in States : Allowed[s] \subseteq States
  BY DEF Allowed, States, Working
<1>2. \A s \in States : "paused" \in Allowed[s] => s \in Working
  BY DEF Allowed, States, Working
<1>3. Allowed["cancelled"] = {} /\ Allowed["archived"] = {}
  BY DEF Allowed, States
<1> QED BY <1>1, <1>2, <1>3

LEMMA StatesFacts ==
    /\ "absent" \notin States /\ "none" \notin States
    /\ "paused" \in States /\ "cancelled" \in States /\ "planning" \in States
    /\ InitialStates \subseteq States
    /\ "paused" \notin InitialStates /\ "paused" \notin Working
BY MachineAssumption DEF States, Working

\* Every step creates a run, moves one as transition() allows, or leaves the
\* rows alone.
Created(r) ==
    /\ current[r] = "absent"
    /\ \E initial \in InitialStates : current' = [current EXCEPT ![r] = initial]
    /\ UNCHANGED <<pausedFrom, revisions, log>>

LEMMA StepCases ==
    ASSUME [Next]_vars, TypeOK
    PROVE  \/ \E r \in Runs : Created(r)
           \/ \E r \in Runs, to \in States, at \in Nat : Move(r, to, at)
           \/ UNCHANGED Rows
<1>1. CASE \E r \in Runs : CreateRun(r)
  BY <1>1 DEF CreateRun, Created
<1>2. CASE \E th \in Threads, r \in Runs :
              \/ \E to \in States : Transition(th, r, to)
              \/ ReadForPause(th, r) \/ ReadForResume(th, r)
              \/ ReadForCancel(th, r) \/ ReadForDecisionChange(th, r)
  BY <1>2 DEF Transition, ReadForPause, ReadForResume, ReadForCancel,
              ReadForDecisionChange, Decide
<1>3. CASE \E th \in Threads : TakeTime(th) \/ ActRefused(th)
  BY <1>3 DEF TakeTime, ActRefused
<1>4. ASSUME NEW th \in Threads, Act(th)
      PROVE  \E r \in Runs, to \in States, at \in Nat : Move(r, to, at)
  <2>1. PICK r \in call[th].runs : Move(r, call[th].to, call[th].at)
    BY <1>4 DEF Act
  <2>2. r \in Runs /\ call[th].to \in States \cup {"none"} /\ call[th].at \in Nat
    BY <2>1 DEF TypeOK
  <2>3. current[r] \in States /\ call[th].to \in Allowed[current[r]]
    BY <2>1, <2>2 DEF Move, CanMove, TypeOK
  <2>4. call[th].to \in States
    BY <2>3, AllowedFacts
  <2> QED BY <2>1, <2>2, <2>4
<1>5. CASE UNCHANGED vars
  BY <1>5 DEF vars, Rows
<1> QED BY <1>1, <1>2, <1>3, <1>4, <1>5 DEF Next

-----------------------------------------------------------------------------
LEMMA TypeInit == Init => TypeOK
BY DEF Init, TypeOK, Idle

LEMMA MoveType ==
    ASSUME TypeOK, NEW r \in Runs, NEW to \in States, NEW at \in Nat, Move(r, to, at)
    PROVE  /\ current' \in [Runs -> States \cup {"absent"}]
           /\ pausedFrom' \in [Runs -> States \cup {"none"}]
           /\ revisions' \in [Runs -> Nat]
           /\ log' \in [Runs -> Seq(States \X States \X Nat)]
           /\ current[r] \in States
<1>1. current[r] \in States /\ Len(log[r]) \in Nat
  BY DEF Move, CanMove, TypeOK
<1>2. current' \in [Runs -> States \cup {"absent"}]
  BY DEF Move, TypeOK
<1>3. PausedFromAfter(r, to) \in States \cup {"none"}
  BY <1>1 DEF PausedFromAfter, TypeOK
<1>4. RevisionsAfter(r, to) \in Nat
  BY DEF RevisionsAfter, TypeOK
<1>5. Append(log[r], <<current[r], to, at>>) \in Seq(States \X States \X Nat)
  BY <1>1 DEF TypeOK
<1>6. pausedFrom' \in [Runs -> States \cup {"none"}]
  BY <1>3 DEF Move, TypeOK
<1>7. revisions' \in [Runs -> Nat]
  BY <1>4 DEF Move, TypeOK
<1>8. log' \in [Runs -> Seq(States \X States \X Nat)]
  BY <1>5 DEF Move, TypeOK
<1> QED BY <1>1, <1>2, <1>6, <1>7, <1>8

Calls == [runs : SUBSET Runs, to : States \cup {"none"}, at : Nat]

LEMMA CallType ==
    ASSUME TypeOK, [Next]_vars
    PROVE  call' \in [Threads -> Calls] /\ clock' \in Nat /\ raced' \subseteq Runs
<1>1. call \in [Threads -> Calls] /\ clock \in Nat /\ raced \subseteq Runs
  BY DEF TypeOK, Calls
<1>2. ASSUME NEW th \in Threads, NEW c \in Calls, call' = [call EXCEPT ![th] = c]
      PROVE  call' \in [Threads -> Calls]
  BY <1>1, <1>2
<1>3. ASSUME NEW th \in Threads, NEW r \in Runs, NEW to \in States, Decide(th, r, to)
      PROVE  call' \in [Threads -> Calls] /\ UNCHANGED <<clock, raced>>
  <2>1. [runs |-> {r}, to |-> to, at |-> 0] \in Calls
    BY DEF Calls
  <2> QED BY <1>2, <1>3, <2>1 DEF Decide
<1>4. ASSUME NEW th \in Threads, NEW r \in Runs,
             \/ \E to \in States : Transition(th, r, to)
             \/ ReadForPause(th, r) \/ ReadForCancel(th, r) \/ ReadForDecisionChange(th, r)
      PROVE  call' \in [Threads -> Calls] /\ UNCHANGED <<clock, raced>>
  BY <1>3, <1>4, StatesFacts DEF Transition, ReadForPause, ReadForCancel, ReadForDecisionChange
<1>5. ASSUME NEW th \in Threads, NEW r \in Runs, ReadForResume(th, r)
      PROVE  call' \in [Threads -> Calls] /\ UNCHANGED <<clock, raced>>
  <2>1. pausedFrom[r] \in States /\ Decide(th, r, pausedFrom[r])
    BY <1>5 DEF ReadForResume, TypeOK
  <2> QED BY <1>3, <2>1
<1>6. ASSUME NEW th \in Threads, Act(th) \/ ActRefused(th)
      PROVE  call' \in [Threads -> Calls] /\ UNCHANGED <<clock, raced>>
  <2>1. Idle \in Calls
    BY DEF Idle, Calls
  <2>2. call' = [call EXCEPT ![th] = Idle] /\ UNCHANGED <<clock, raced>>
    BY <1>6 DEF Act, ActRefused, Finish
  <2> QED BY <1>2, <2>1, <2>2
<1>7. ASSUME NEW th \in Threads, TakeTime(th)
      PROVE  call' \in [Threads -> Calls] /\ clock' \in Nat /\ raced' \subseteq Runs
  <2>1. /\ clock' = clock + 1 /\ call' = [call EXCEPT ![th].at = clock + 1]
        /\ \E r \in call[th].runs : raced' \in {raced, raced \cup {r}}
    BY <1>7 DEF TakeTime
  <2>2. call[th] \in Calls /\ call[th].runs \subseteq Runs
    BY <1>1 DEF Calls
  <2>3. [call[th] EXCEPT !.at = clock + 1] \in Calls
    BY <1>1, <2>2 DEF Calls
  <2> QED BY <1>1, <1>2, <2>1, <2>2, <2>3
<1>8. CASE (\E r \in Runs : CreateRun(r)) \/ UNCHANGED vars
  BY <1>1, <1>8 DEF CreateRun, vars
<1> QED BY <1>1, <1>4, <1>5, <1>6, <1>7, <1>8 DEF Next

LEMMA TypeStep == TypeOK /\ [Next]_vars => TypeOK'
<1> SUFFICES ASSUME TypeOK, [Next]_vars PROVE TypeOK'
  OBVIOUS
<1>1. ASSUME NEW r \in Runs, Created(r) PROVE TypeOK'
  BY <1>1, CallType, StatesFacts DEF Created, TypeOK, Calls
<1>2. ASSUME NEW r \in Runs, NEW to \in States, NEW at \in Nat, Move(r, to, at) PROVE TypeOK'
  BY <1>2, MoveType, CallType DEF TypeOK, Calls
<1>3. CASE UNCHANGED Rows
  BY <1>3, CallType DEF Rows, TypeOK, Calls
<1> QED BY <1>1, <1>2, <1>3, StepCases

(* Every variable keeps its type: no state is reached that the table does  *)
(* not know.                                                               *)
THEOREM TypeCorrect == Spec => []TypeOK
BY TypeInit, TypeStep, PTL DEF Spec

-----------------------------------------------------------------------------
LEMMA PauseStep == TypeOK /\ PauseRemembered /\ [Next]_vars => PauseRemembered'
<1> SUFFICES ASSUME TypeOK, PauseRemembered, [Next]_vars, NEW q \in Runs
             PROVE  /\ (current'[q] = "paused") <=> (pausedFrom'[q] # "none")
                    /\ current'[q] = "paused" =>
                         /\ pausedFrom'[q] \in Working
                         /\ log'[q][Len(log'[q])][1] = pausedFrom'[q]
                         /\ log'[q][Len(log'[q])][2] = "paused"
  BY DEF PauseRemembered
<1>1. ASSUME NEW r \in Runs, Created(r)
      PROVE  /\ UNCHANGED <<pausedFrom, log>>
             /\ current'[q] = "paused" <=> current[q] = "paused"
  BY <1>1, StatesFacts DEF Created, TypeOK
<1>2. ASSUME NEW r \in Runs, NEW to \in States, NEW at \in Nat, Move(r, to, at), r # q
      PROVE  current'[q] = current[q] /\ pausedFrom'[q] = pausedFrom[q] /\ log'[q] = log[q]
  BY <1>2 DEF Move, TypeOK
<1>3. ASSUME NEW to \in States, NEW at \in Nat, Move(q, to, at)
      PROVE  /\ (current'[q] = "paused") <=> (pausedFrom'[q] # "none")
             /\ current'[q] = "paused" =>
                  /\ pausedFrom'[q] \in Working
                  /\ log'[q][Len(log'[q])][1] = pausedFrom'[q]
                  /\ log'[q][Len(log'[q])][2] = "paused"
  <2>1. /\ current'[q] = to /\ pausedFrom'[q] = PausedFromAfter(q, to)
        /\ log'[q] = Append(log[q], <<current[q], to, at>>)
        /\ current[q] \in States /\ to \in Allowed[current[q]]
    BY <1>3 DEF Move, CanMove, TypeOK
  <2>2. CASE to = "paused"
    <3>1. current[q] \in Working /\ pausedFrom'[q] = current[q]
      BY <2>1, <2>2, AllowedFacts DEF PausedFromAfter
    <3>2. log[q] \in Seq(States \X States \X Nat) /\ Len(log'[q]) = Len(log[q]) + 1
      BY <2>1 DEF TypeOK
    <3>3. log'[q][Len(log'[q])] = <<current[q], to, at>>
      BY <2>1, <3>2
    <3> QED BY <2>1, <2>2, <3>1, <3>3, StatesFacts DEF Working
  <2>3. CASE to # "paused"
    BY <2>1, <2>3 DEF PausedFromAfter, PauseRemembered
  <2> QED BY <2>2, <2>3
<1>4. CASE UNCHANGED Rows
  BY <1>4 DEF Rows, PauseRemembered
<1> QED BY <1>1, <1>2, <1>3, <1>4, StepCases DEF PauseRemembered

(* paused_from is set exactly while a run is paused, and is the working    *)
(* state that its last logged transition interrupted, for any number of    *)
(* callers acting on states they read earlier.                             *)
THEOREM PausesAreRemembered == Spec => []PauseRemembered
<1>1. Init => PauseRemembered
  BY StatesFacts DEF Init, PauseRemembered
<1> QED BY <1>1, TypeCorrect, PauseStep, PTL DEF Spec

(* A cancelled or archived run never moves again.                          *)
THEOREM EndsAreFinal == Spec => EndsForGood
<1>1. TypeOK /\ [Next]_vars =>
        [\A r \in Runs : current[r] \in {"cancelled", "archived"} =>
            current'[r] = current[r] /\ log'[r] = log[r]]_vars
  <2> SUFFICES ASSUME TypeOK, [Next]_vars, NEW q \in Runs,
                      current[q] \in {"cancelled", "archived"}
               PROVE  current'[q] = current[q] /\ log'[q] = log[q]
    OBVIOUS
  <2>1. ASSUME NEW r \in Runs, Created(r)
        PROVE  current'[q] = current[q] /\ log'[q] = log[q]
    BY <2>1 DEF Created, TypeOK
  <2>2. ASSUME NEW r \in Runs, NEW to \in States, NEW at \in Nat, Move(r, to, at)
        PROVE  current'[q] = current[q] /\ log'[q] = log[q]
    BY <2>2, AllowedFacts DEF Move, CanMove, TypeOK
  <2>3. CASE UNCHANGED Rows
    BY <2>3 DEF Rows
  <2> QED BY <2>1, <2>2, <2>3, StepCases
<1> QED BY <1>1, TypeCorrect, PTL DEF Spec, EndsForGood

-----------------------------------------------------------------------------
(* LogIsHistory, run by run.                                               *)

Path(r) ==
    /\ \A k \in 1..Len(log[r]) : log[r][k][2] \in Allowed[log[r][k][1]]
    /\ \A k \in 2..Len(log[r]) : log[r][k][1] = log[r][k - 1][2]
    /\ Len(log[r]) > 0 => /\ log[r][1][1] \in InitialStates
                          /\ current[r] = log[r][Len(log[r])][2]

Revisions(r) == {k \in 1..Len(log[r]) : log[r][k][1] = "reviewing" /\ log[r][k][2] = "generating"}

History(r) == Path(r) /\ revisions[r] = Cardinality(Revisions(r))

\* created_at increases along the log of a run whose calls never overlapped.
Ordered(r) == r \notin raced => \A k \in 2..Len(log[r]) : log[r][k - 1][3] < log[r][k][3]

LEMMA HistoryIs == (\A r \in Runs : History(r) /\ Ordered(r)) => LogIsHistory
BY DEF LogIsHistory, History, Path, Revisions, Ordered

LEMMA RevisionsFinite ==
    ASSUME TypeOK, NEW r \in Runs
    PROVE  IsFiniteSet(Revisions(r))
<1>1. Len(log[r]) \in Nat
  BY DEF TypeOK
<1>2. IsFiniteSet(1..Len(log[r]))
  BY <1>1, FS_Interval
<1> QED BY <1>2, FS_Subset DEF Revisions

\* What a move appends to the log of its own run.
LEMMA MoveAppends ==
    ASSUME TypeOK, NEW r \in Runs, NEW to \in States, NEW at \in Nat, Move(r, to, at)
    PROVE  /\ current[r] \in States /\ current'[r] = to /\ to \in Allowed[current[r]]
           /\ Len(log[r]) \in Nat /\ Len(log'[r]) = Len(log[r]) + 1
           /\ \A k \in 1..Len(log[r]) : log'[r][k] = log[r][k]
           /\ log'[r][Len(log[r]) + 1] = <<current[r], to, at>>
           /\ revisions'[r] = RevisionsAfter(r, to)
<1>1. /\ current[r] \in States /\ current'[r] = to /\ to \in Allowed[current[r]]
      /\ log'[r] = Append(log[r], <<current[r], to, at>>)
      /\ revisions'[r] = RevisionsAfter(r, to)
  BY DEF Move, CanMove, TypeOK
<1>2. log[r] \in Seq(States \X States \X Nat)
  BY DEF TypeOK
<1> QED BY <1>1, <1>2

LEMMA PathStep ==
    ASSUME TypeOK, Unmoved, NEW r \in Runs, Path(r), NEW to \in States, NEW at \in Nat, Move(r, to, at)
    PROVE  Path(r)'
<1> DEFINE n == Len(log[r])
<1>1. /\ n \in Nat /\ Len(log'[r]) = n + 1
      /\ \A k \in 1..n : log'[r][k] = log[r][k]
      /\ log'[r][n + 1] = <<current[r], to, at>>
      /\ current'[r] = to /\ to \in Allowed[current[r]] /\ current[r] \in States
  BY MoveAppends
<1> HIDE DEF n
<1>2. ASSUME NEW k \in 1..(n + 1) PROVE log'[r][k][2] \in Allowed[log'[r][k][1]]
  <2>1. CASE k \in 1..n
    <3>1. log[r][k][2] \in Allowed[log[r][k][1]]
      BY <2>1 DEF Path, n
    <3> QED BY <1>1, <2>1, <3>1
  <2>2. CASE k = n + 1
    BY <1>1, <2>2
  <2> QED BY <1>1, <2>1, <2>2
<1>3. ASSUME NEW k \in 2..(n + 1) PROVE log'[r][k][1] = log'[r][k - 1][2]
  <2>1. CASE k \in 2..n
    <3>1. log[r][k][1] = log[r][k - 1][2]
      BY <2>1 DEF Path, n
    <3>2. k \in 1..n /\ k - 1 \in 1..n
      BY <1>1, <2>1
    <3> QED BY <1>1, <3>1, <3>2
  <2>2. CASE k = n + 1
    <3>1. n > 0 /\ k - 1 = n
      BY <1>1, <1>3, <2>2
    <3>2. log'[r][n] = log[r][n] /\ current[r] = log[r][n][2]
      BY <1>1, <3>1 DEF Path, n
    <3> QED BY <1>1, <2>2, <3>1, <3>2
  <2> QED BY <1>1, <2>1, <2>2
<1>4. log'[r][1][1] \in InitialStates
  <2>1. CASE n = 0
    <3>1. log[r] = <<>>
      BY <2>1 DEF TypeOK, n
    <3>2. current[r] \in InitialStates
      BY <1>1, <3>1, StatesFacts DEF Unmoved
    <3> QED BY <1>1, <2>1, <3>2
  <2>2. CASE n > 0
    BY <1>1, <2>2 DEF Path, n
  <2> QED BY <1>1, <2>1, <2>2
<1>5. current'[r] = log'[r][n + 1][2]
  BY <1>1
<1> QED BY <1>1, <1>2, <1>3, <1>4, <1>5 DEF Path

LEMMA RevisionsStep ==
    ASSUME TypeOK, NEW r \in Runs, revisions[r] = Cardinality(Revisions(r)),
           NEW to \in States, NEW at \in Nat, Move(r, to, at)
    PROVE  revisions'[r] = Cardinality(Revisions(r)')
<1> DEFINE n == Len(log[r])
<1>1. /\ n \in Nat /\ Len(log'[r]) = n + 1
      /\ \A k \in 1..n : log'[r][k] = log[r][k]
      /\ log'[r][n + 1] = <<current[r], to, at>>
      /\ revisions'[r] = RevisionsAfter(r, to)
  BY MoveAppends
<1>2. IsFiniteSet(Revisions(r)) /\ n + 1 \notin Revisions(r)
  <2>1. IsFiniteSet(Revisions(r))
    BY RevisionsFinite
  <2>2. n + 1 \notin Revisions(r)
    BY <1>1 DEF Revisions
  <2> QED BY <2>1, <2>2
<1>3. Revisions(r)' = {k \in 1..(n + 1) : log'[r][k][1] = "reviewing" /\ log'[r][k][2] = "generating"}
  BY <1>1 DEF Revisions
<1>4. CASE current[r] = "reviewing" /\ to = "generating"
  <2>1. Revisions(r)' = Revisions(r) \cup {n + 1}
    BY <1>1, <1>3, <1>4 DEF Revisions
  <2>2. Cardinality(Revisions(r)') = Cardinality(Revisions(r)) + 1
    BY <1>2, <2>1, FS_AddElement
  <2> QED BY <1>1, <1>4, <2>2 DEF RevisionsAfter
<1>5. CASE ~(current[r] = "reviewing" /\ to = "generating")
  <2>1. Revisions(r)' = Revisions(r)
    BY <1>1, <1>3, <1>5 DEF Revisions
  <2> QED BY <1>1, <1>5, <2>1 DEF RevisionsAfter, TypeOK
<1> QED BY <1>4, <1>5

LEMMA HistoryKept ==
    ASSUME NEW r \in Runs, History(r), UNCHANGED <<revisions[r], log[r]>>,
           Len(log[r]) > 0 => UNCHANGED current[r]
    PROVE  History(r)'
<1>1. Revisions(r)' = Revisions(r)
  BY DEF Revisions
<1>2. Path(r)'
  BY DEF History, Path
<1> QED BY <1>1, <1>2 DEF History

-----------------------------------------------------------------------------
(* The times.  A caller is inside transition() from its reading of the     *)
(* clock to its commit.  While a run is not raced there is at most one     *)
(* caller inside for it, and it took its time after every row of the log.  *)

Callers(r) == {th \in Threads : r \in call[th].runs /\ call[th].at > 0}

Alone(r) ==
    /\ \A one, two \in Callers(r) : one = two
    /\ \A th \in Callers(r), k \in 1..Len(log[r]) : log[r][k][3] < call[th].at

Timed ==
    /\ \A th \in Threads :
        /\ call[th].at <= clock
        /\ \A one, two \in call[th].runs : one = two
    /\ \A r \in Runs :
        /\ \A k \in 1..Len(log[r]) : log[r][k][3] <= clock
        /\ r \notin raced => Alone(r)
        /\ Ordered(r)

\* Rows kept, no new caller inside: nothing to show.
LEMMA TimedKept ==
    ASSUME Timed, NEW r \in Runs, Len(log[r]) \in Nat, UNCHANGED log[r], UNCHANGED clock,
           r \notin raced' => r \notin raced,
           \A th \in Callers(r)' : th \in Callers(r) /\ call'[th].at = call[th].at
    PROVE  /\ \A k \in 1..Len(log'[r]) : log'[r][k][3] <= clock'
           /\ r \notin raced' => Alone(r)'
           /\ Ordered(r)'
<1>1. r \notin raced' => Alone(r)'
  <2> SUFFICES ASSUME r \notin raced' PROVE Alone(r)'
    OBVIOUS
  <2>1. Alone(r)
    BY DEF Timed
  <2> QED BY <2>1 DEF Alone
<1>2. Ordered(r)'
  BY DEF Timed, Ordered
<1> QED BY <1>1, <1>2 DEF Timed

LEMMA DecideTimed ==
    ASSUME TypeOK, Timed, NEW th \in Threads, NEW r \in Runs, NEW to, Decide(th, r, to)
    PROVE  Timed'
<1>1. /\ call[th] = Idle /\ call' = [call EXCEPT ![th] = [runs |-> {r}, to |-> to, at |-> 0]]
      /\ UNCHANGED <<log, clock, raced>> /\ DOMAIN call = Threads
  BY DEF Decide, Rows, TypeOK
<1>2. ASSUME NEW other \in Threads
      PROVE  /\ call'[other].at <= clock'
             /\ \A one, two \in call'[other].runs : one = two
             /\ call'[other].at = call[other].at
             /\ call'[other].at > 0 => other # th
  BY <1>1 DEF Timed, Idle, TypeOK
<1>3. ASSUME NEW q \in Runs, NEW other \in Callers(q)'
      PROVE  other \in Callers(q) /\ call'[other].at = call[other].at
  BY <1>1, <1>2, <1>3 DEF Callers
<1>4. \A q \in Runs : Len(log[q]) \in Nat
  BY DEF TypeOK
<1> QED BY <1>1, <1>2, <1>3, <1>4, TimedKept DEF Timed

LEMMA TakeTimeTimed ==
    ASSUME TypeOK, Timed, NEW th \in Threads, TakeTime(th)
    PROVE  Timed'
<1>1. PICK r \in call[th].runs :
        /\ call[th].at = 0 /\ clock' = clock + 1 /\ UNCHANGED log
        /\ call' = [call EXCEPT ![th].at = clock + 1]
        /\ raced' = IF Inside(th, r) = {} THEN raced ELSE raced \cup {r}
  BY DEF TakeTime, Rows
<1>2. /\ call[th].runs = {r} /\ r \in Runs /\ clock \in Nat /\ DOMAIN call = Threads
      /\ call'[th].runs = {r} /\ call'[th].at = clock + 1
  BY <1>1 DEF Timed, TypeOK
<1>3. \A other \in Threads : other # th => call'[other] = call[other]
  BY <1>1, <1>2
<1>4. ASSUME NEW other \in Threads
      PROVE  call'[other].at <= clock' /\ \A one, two \in call'[other].runs : one = two
  BY <1>1, <1>2, <1>3 DEF Timed, TypeOK
<1>5. ASSUME NEW q \in Runs
      PROVE  /\ \A k \in 1..Len(log'[q]) : log'[q][k][3] <= clock'
             /\ Ordered(q)'
  <2>1. ASSUME NEW k \in 1..Len(log'[q]) PROVE log'[q][k][3] <= clock'
    <3>1. log[q][k][3] <= clock /\ log[q][k][3] \in Nat
      BY <1>1, <2>1 DEF Timed, TypeOK
    <3> QED BY <1>1, <1>2, <3>1
  <2>2. Ordered(q) /\ (q \in raced => q \in raced') /\ log' = log
    BY <1>1 DEF Timed
  <2> QED BY <2>1, <2>2 DEF Ordered
<1>6. ASSUME NEW q \in Runs, q \notin raced' PROVE Alone(q)'
  <2>1. q \notin raced /\ Alone(q)
    BY <1>1, <1>6 DEF Timed
  <2>2. CASE q # r
    <3>1. Callers(q)' = Callers(q) /\ \A other \in Callers(q) : call'[other] = call[other]
      BY <1>2, <1>3, <2>2 DEF Callers
    <3> QED BY <1>1, <2>1, <3>1 DEF Alone
  <2>3. CASE q = r
    <3>1. Inside(th, r) = {}
      BY <1>1, <1>6, <2>3
    <3>2. \A other \in Callers(r)' : other = th
      BY <1>3, <3>1 DEF Callers, Inside
    <3>3. ASSUME NEW k \in 1..Len(log'[r]) PROVE log'[r][k][3] < clock + 1
      <4>1. log[r][k][3] <= clock /\ log[r][k][3] \in Nat
        BY <1>1, <1>2, <3>3 DEF Timed, TypeOK
      <4> QED BY <1>1, <1>2, <4>1
    <3> QED BY <1>2, <2>3, <3>2, <3>3 DEF Alone
  <2> QED BY <2>2, <2>3
<1> QED BY <1>4, <1>5, <1>6 DEF Timed

\* What a caller that returns leaves behind.
LEMMA FinishCallers ==
    ASSUME TypeOK, Timed, NEW th \in Threads, Finish(th)
    PROVE  /\ UNCHANGED <<clock, raced>>
           /\ \A other \in Threads :
                /\ call'[other].at <= clock'
                /\ \A one, two \in call'[other].runs : one = two
           /\ \A q \in Runs : \A other \in Callers(q)' :
                other # th /\ other \in Callers(q) /\ call'[other].at = call[other].at
<1>1. /\ UNCHANGED <<clock, raced>> /\ call'[th] = Idle
      /\ \A other \in Threads : other # th => call'[other] = call[other]
  BY DEF Finish, TypeOK
<1>2. call'[th].at = 0 /\ call'[th].runs = {} /\ clock \in Nat
  BY <1>1 DEF Idle, TypeOK
<1>3. ASSUME NEW other \in Threads
      PROVE  call'[other].at <= clock' /\ \A one, two \in call'[other].runs : one = two
  BY <1>1, <1>2 DEF Timed
<1>4. ASSUME NEW q \in Runs, NEW other \in Threads, other \in Callers(q)'
      PROVE  other # th /\ other \in Callers(q) /\ call'[other].at = call[other].at
  <2>1. other # th
    BY <1>2, <1>4 DEF Callers
  <2> QED BY <1>1, <1>4, <2>1 DEF Callers
<1>5. \A q \in Runs : Callers(q)' \subseteq Threads
  BY DEF Callers
<1> QED BY <1>1, <1>3, <1>4, <1>5

LEMMA ActTimed ==
    ASSUME TypeOK, Timed, NEW th \in Threads, Act(th)
    PROVE  Timed'
<1>1. PICK r \in call[th].runs : /\ call[th].at > 0 /\ Finish(th)
                                 /\ Move(r, call[th].to, call[th].at)
  BY DEF Act
<1> DEFINE n == Len(log[r])
           at == call[th].at
<1>2. /\ r \in Runs /\ th \in Callers(r) /\ at \in Nat /\ at <= clock /\ clock \in Nat
      /\ log' = [log EXCEPT ![r] = Append(@, <<current[r], call[th].to, at>>)]
  BY <1>1 DEF Callers, Move, Timed, TypeOK
<1>3. /\ n \in Nat /\ Len(log'[r]) = n + 1 /\ log'[r][n + 1][3] = at
      /\ \A k \in 1..n : log'[r][k] = log[r][k] /\ log[r][k][3] \in Nat
  <2>1. log[r] \in Seq(States \X States \X Nat)
    BY <1>2 DEF TypeOK
  <2>2. log'[r] = Append(log[r], <<current[r], call[th].to, at>>)
    BY <1>2 DEF TypeOK
  <2> QED BY <2>1, <2>2
<1>4. UNCHANGED <<clock, raced>>
  BY <1>1, FinishCallers
<1>5. ASSUME NEW q \in Runs, q # r
      PROVE  /\ \A k \in 1..Len(log'[q]) : log'[q][k][3] <= clock'
             /\ q \notin raced' => Alone(q)'
             /\ Ordered(q)'
  <2>1. UNCHANGED log[q] /\ Len(log[q]) \in Nat
    BY <1>2, <1>5 DEF TypeOK
  <2> QED BY <1>1, <1>4, <2>1, FinishCallers, TimedKept
<1> HIDE DEF n, at
<1>6. \A k \in 1..Len(log'[r]) : log'[r][k][3] <= clock'
  <2> SUFFICES ASSUME NEW k \in 1..(n + 1) PROVE log'[r][k][3] <= clock
    BY <1>3, <1>4
  <2>1. CASE k \in 1..n
    BY <1>2, <1>3, <2>1 DEF Timed, n
  <2>2. CASE k = n + 1
    BY <1>2, <1>3, <2>2
  <2> QED BY <1>3, <2>1, <2>2
<1>7. ASSUME r \notin raced' PROVE Alone(r)' /\ Ordered(r)'
  <2>1. Alone(r) /\ Ordered(r) /\ r \notin raced
    BY <1>2, <1>4, <1>7 DEF Timed
  <2>2. Callers(r)' = {}
    BY <1>1, <1>2, <2>1, FinishCallers DEF Alone
  <2>3. ASSUME NEW k \in 2..(n + 1) PROVE log'[r][k - 1][3] < log'[r][k][3]
    <3>1. CASE k \in 2..n
      <4>1. k \in 1..n /\ k - 1 \in 1..n
        BY <1>3, <3>1
      <4>2. log[r][k - 1][3] < log[r][k][3]
        BY <2>1, <3>1 DEF Ordered, n
      <4> QED BY <1>3, <4>1, <4>2
    <3>2. CASE k = n + 1
      <4>1. k - 1 = n /\ n \in 1..n
        BY <1>3, <2>3, <3>2
      <4>2. log[r][n][3] < at
        BY <1>2, <2>1, <4>1 DEF Alone, n, at
      <4> QED BY <1>3, <3>2, <4>1, <4>2
    <3> QED BY <1>3, <2>3, <3>1, <3>2
  <2> QED BY <1>3, <2>2, <2>3 DEF Alone, Ordered
<1>8. Ordered(r)'
  BY <1>7 DEF Ordered
<1> QED BY <1>1, <1>5, <1>6, <1>7, <1>8, FinishCallers DEF Timed

LEMMA TimedStep == TypeOK /\ Timed /\ [Next]_vars => Timed'
<1> SUFFICES ASSUME TypeOK, Timed, [Next]_vars PROVE Timed'
  OBVIOUS
<1>1. ASSUME UNCHANGED <<log, call, clock, raced>> PROVE Timed'
  BY <1>1 DEF Timed, Alone, Ordered, Callers
<1>2. CASE (\E r \in Runs : CreateRun(r)) \/ UNCHANGED vars
  BY <1>1, <1>2 DEF CreateRun, vars
<1>3. CASE \E th \in Threads, r \in Runs :
              \/ \E to \in States : Transition(th, r, to)
              \/ ReadForPause(th, r) \/ ReadForResume(th, r)
              \/ ReadForCancel(th, r) \/ ReadForDecisionChange(th, r)
  BY <1>3, DecideTimed DEF Transition, ReadForPause, ReadForResume, ReadForCancel,
                           ReadForDecisionChange
<1>4. CASE \E th \in Threads : TakeTime(th)
  BY <1>4, TakeTimeTimed
<1>5. CASE \E th \in Threads : Act(th)
  BY <1>5, ActTimed
<1>6. CASE \E th \in Threads : ActRefused(th)
  <2>1. PICK th \in Threads : Finish(th) /\ UNCHANGED log
    BY <1>6 DEF ActRefused, Rows
  <2>2. \A r \in Runs : Len(log[r]) \in Nat
    BY DEF TypeOK
  <2> QED BY <2>1, <2>2, FinishCallers, TimedKept DEF Timed
<1> QED BY <1>2, <1>3, <1>4, <1>5, <1>6 DEF Next

-----------------------------------------------------------------------------
MachineInv == TypeOK /\ Unmoved /\ Timed /\ \A r \in Runs : History(r)

LEMMA MachineStep == MachineInv /\ [Next]_vars => MachineInv'
<1> SUFFICES ASSUME MachineInv, [Next]_vars PROVE MachineInv'
  OBVIOUS
<1>1. TypeOK /\ Unmoved /\ TypeOK' /\ Timed' /\ \A r \in Runs : History(r)
  BY TypeStep, TimedStep DEF MachineInv
<1>2. SUFFICES ASSUME NEW q \in Runs
               PROVE  /\ log'[q] = <<>> => current'[q] \in InitialStates \cup {"absent"}
                      /\ current'[q] = "absent" => log'[q] = <<>>
                      /\ History(q)'
  BY <1>1 DEF MachineInv, Unmoved
<1>3. ASSUME NEW r \in Runs, Created(r)
      PROVE  /\ log'[q] = <<>> => current'[q] \in InitialStates \cup {"absent"}
             /\ current'[q] = "absent" => log'[q] = <<>>
             /\ History(q)'
  <2>1. current'[q] = current[q] \/ (current[q] = "absent" /\ current'[q] \in InitialStates)
    BY <1>1, <1>3 DEF Created, TypeOK
  <2>2. UNCHANGED <<revisions[q], log[q]>>
    BY <1>3 DEF Created
  <2>3. Len(log[q]) > 0 => UNCHANGED current[q]
    <3>1. current[q] = "absent" => Len(log[q]) = 0
      BY <1>1 DEF Unmoved
    <3> QED BY <2>1, <3>1
  <2>4. History(q)'
    BY <1>1, <2>2, <2>3, HistoryKept
  <2> QED BY <1>1, <2>1, <2>2, <2>4, StatesFacts DEF Unmoved
<1>4. ASSUME NEW r \in Runs, NEW to \in States, NEW at \in Nat, Move(r, to, at), r # q
      PROVE  /\ log'[q] = <<>> => current'[q] \in InitialStates \cup {"absent"}
             /\ current'[q] = "absent" => log'[q] = <<>>
             /\ History(q)'
  <2>1. UNCHANGED <<current[q], revisions[q], log[q]>>
    BY <1>1, <1>4 DEF Move, TypeOK
  <2> QED BY <1>1, <2>1, HistoryKept DEF Unmoved
<1>5. ASSUME NEW to \in States, NEW at \in Nat, Move(q, to, at)
      PROVE  /\ log'[q] = <<>> => current'[q] \in InitialStates \cup {"absent"}
             /\ current'[q] = "absent" => log'[q] = <<>>
             /\ History(q)'
  <2>1. current'[q] # "absent" /\ Len(log'[q]) > 0
    BY <1>1, <1>5, MoveAppends, StatesFacts
  <2>2. Path(q)'
    BY <1>1, <1>5, PathStep DEF History
  <2>3. revisions'[q] = Cardinality(Revisions(q)')
    BY <1>1, <1>5, RevisionsStep DEF History
  <2> QED BY <2>1, <2>2, <2>3 DEF History
<1>6. CASE UNCHANGED Rows
  <2>1. UNCHANGED <<current[q], revisions[q], log[q]>>
    BY <1>6 DEF Rows
  <2> QED BY <1>1, <2>1, HistoryKept DEF Unmoved
<1> QED BY <1>1, <1>3, <1>4, <1>5, <1>6, StepCases

(* The log of a run is a path of allowed transitions from the state it was *)
(* created in to its current one, and total_revisions counts the returns   *)
(* from reviewing to generating in it, whatever callers interleave; and    *)
(* the times of its rows, by which get_history orders them, increase along *)
(* that path unless two callers were inside transition() for it at once.   *)
THEOREM LogsAreHistories == Spec => []LogIsHistory
<1>1. Init => MachineInv
  <2> SUFFICES ASSUME Init PROVE MachineInv
    OBVIOUS
  <2>1. \A r \in Runs : log[r] = <<>> /\ current[r] = "absent" /\ revisions[r] = 0
    BY DEF Init
  <2>3. Timed
    BY DEF Init, Timed, Alone, Ordered, Callers, Idle
  <2>2. ASSUME NEW r \in Runs PROVE History(r)
    <3>1. Revisions(r) = {}
      BY <2>1 DEF Revisions
    <3> QED BY <2>1, <3>1, FS_EmptySet DEF History, Path
  <2> QED BY <2>1, <2>2, <2>3, TypeInit DEF MachineInv, Unmoved
<1>2. MachineInv => LogIsHistory
  BY HistoryIs DEF MachineInv, Timed
<1> QED BY <1>1, <1>2, MachineStep, PTL DEF Spec
=============================================================================
