----------------------- MODULE PipelineExecutionProofs -----------------------
(***************************************************************************)
(* Safety theorems about PipelineExecution, for any runs, threads, plans   *)
(* and bounds.                                                             *)
(*                                                                         *)
(* That no write loses a step is not inductive: a thread overwrites the    *)
(* row with a copy it took earlier.  One also has to know that the copy    *)
(* extends the row all along, and that is so because the run has no other  *)
(* thread that could write the row meanwhile.  That the writes look to a   *)
(* reader like one append per execution needs more: until the plan is      *)
(* there the copy is the row, and after it the row and at most a plan's    *)
(* worth of new steps.                                                     *)
(***************************************************************************)
EXTENDS PipelineExecution, SequenceTheorems, TLAPS

ThreadState == [pc : Phases, runs : SUBSET Runs, steps : Seq(Finished), start : Nat]

\* A thread executes one run.
OneRun == \A th \in Threads : thread[th].runs = {} \/ \E r \in Runs : thread[th].runs = {r}

Extends(s, t) ==
    /\ Len(t) <= Len(s)
    /\ \A k \in 1..Len(t) : s[k] = t[k]

\* From its first write to its last, a thread's copy extends the row.
CopyExtends ==
    \A th \in Threads : \A r \in thread[th].runs :
        thread[th].pc \in {"planning", "plan", "steps"} => Extends(thread[th].steps, steps[r])

ExecInv == TypeOK /\ OneRun /\ OneExecutorPerRun /\ CopyExtends

-----------------------------------------------------------------------------
(* The actions of a thread, by what they do to the rows and the threads.   *)

\* th goes on to the phase pc with the copy copy; start is set by LoadRun only.
Works(th, pc, copy, from) ==
    thread' = [thread EXCEPT ![th] = [@ EXCEPT !.pc = pc, !.steps = copy, !.start = from]]

LEMMA NoThreadType == NoThread \in ThreadState /\ NoThread.pc = "none" /\ NoThread.runs = {}
BY DEF NoThread, ThreadState, Phases

\* What a change of one thread leaves of the others.
LEMMA WorksOn ==
    ASSUME TypeOK, NEW th \in Threads, NEW pc \in Phases, NEW copy \in Seq(Finished),
           NEW from \in Nat, Works(th, pc, copy, from)
    PROVE  /\ thread' \in [Threads -> ThreadState]
           /\ thread'[th].pc = pc /\ thread'[th].steps = copy /\ thread'[th].start = from
           /\ \A t \in Threads : thread'[t].runs = thread[t].runs
           /\ \A t \in Threads : t # th => thread'[t] = thread[t]
<1>1. thread \in [Threads -> ThreadState]
  BY DEF TypeOK, ThreadState
<1>2. thread[th] \in ThreadState
  BY <1>1
<1> DEFINE new == [thread[th] EXCEPT !.pc = pc, !.steps = copy, !.start = from]
<1>3. /\ new \in ThreadState /\ new.runs = thread[th].runs
      /\ new.pc = pc /\ new.steps = copy /\ new.start = from
  BY <1>2 DEF ThreadState
<1>4. thread' = [thread EXCEPT ![th] = new]
  BY DEF Works
<1> HIDE DEF new
<1> QED BY <1>1, <1>3, <1>4

\* Every step of a thread before Discard changes its own state only, except
\* that it may write its row from its copy.
Writes(th, copy) ==
    \E r \in thread[th].runs, st \in Statuses : Persist(r, st, copy)

RowsKept == UNCHANGED <<status, steps>>

Proceeds(th) ==
    \/ /\ thread[th].pc = "load" /\ RowsKept
       /\ \E r \in thread[th].runs : Works(th, "planning", steps[r], Len(steps[r]))
    \/ /\ thread[th].pc \in {"planning", "plan", "steps"}
       /\ Writes(th, thread[th].steps)
       /\ \E pc \in {"plan", "steps", "discard"} :
            Works(th, pc, thread[th].steps, thread[th].start)
    \/ /\ thread[th].pc = "steps" /\ RowsKept
       /\ \E outcome \in Finished :
            Works(th, "steps", Append(thread[th].steps, outcome), thread[th].start)
    \/ /\ RowsKept
       /\ Works(th, "discard", thread[th].steps, thread[th].start)

LEMMA ThreadCases ==
    ASSUME TypeOK, NEW th \in Threads, ThreadStep(th) \/ ExecutionRaises(th)
    PROVE  \/ Proceeds(th) /\ UNCHANGED <<active, cancelled, checked, executions, crashes>>
           \/ \E r \in thread[th].runs : Discard(th, r)
<1>1. thread[th] \in ThreadState /\ thread[th].runs \subseteq Runs
  BY DEF TypeOK, ThreadState
<1>2. ASSUME NEW pc \in Phases, Continue(th, pc)
      PROVE  Works(th, pc, thread[th].steps, thread[th].start)
  <2>1. [thread[th] EXCEPT !.pc = pc] =
        [thread[th] EXCEPT !.pc = pc, !.steps = thread[th].steps, !.start = thread[th].start]
    BY <1>1 DEF ThreadState
  <2> QED BY <1>2, <2>1 DEF Continue, Works
<1>3. CASE RunStep(th)
  <2>1. PICK outcome \in Finished :
          thread' = [thread EXCEPT ![th].steps = Append(thread[th].steps, outcome)]
    BY <1>3 DEF RunStep, TypeOK
  <2>2. [thread[th] EXCEPT !.steps = Append(thread[th].steps, outcome)] =
        [thread[th] EXCEPT !.pc = "steps", !.steps = Append(thread[th].steps, outcome),
                           !.start = thread[th].start]
    BY <1>1, <1>3 DEF ThreadState, RunStep
  <2>3. Works(th, "steps", Append(thread[th].steps, outcome), thread[th].start)
    BY <2>1, <2>2 DEF Works
  <2> QED BY <1>3, <2>3 DEF RunStep, Proceeds, RowsKept
<1>4. ASSUME NEW r \in thread[th].runs, LoadRun(th, r)
      PROVE  Proceeds(th) /\ UNCHANGED <<active, cancelled, checked, executions, crashes>>
  BY <1>4 DEF LoadRun, Works, Proceeds, RowsKept
<1>5. ASSUME NEW r \in thread[th].runs, NEW st \in Statuses, NEW pc \in {"plan", "steps", "discard"},
             thread[th].pc \in {"planning", "plan", "steps"},
             Persist(r, st, thread[th].steps), Continue(th, pc)
      PROVE  Proceeds(th)
  <2>1. Works(th, pc, thread[th].steps, thread[th].start)
    BY <1>2, <1>5 DEF Phases
  <2> QED BY <1>5, <2>1 DEF Proceeds, Writes
<1>6. ASSUME NEW r \in thread[th].runs, StartPlanning(th, r) \/ Plan(th, r) \/ Finalize(th, r)
      PROVE  Proceeds(th) /\ UNCHANGED <<active, cancelled, checked, executions, crashes>>
  <2>1. {"planning", "generating", "failed", "complete"} \subseteq Statuses
    BY DEF Statuses, InProgress, Finished
  <2> QED BY <1>5, <1>6, <2>1 DEF StartPlanning, Plan, Finalize
<1>7. CASE ExecutionRaises(th)
  <2>1. Works(th, "discard", thread[th].steps, thread[th].start)
    BY <1>2, <1>7 DEF ExecutionRaises, Phases
  <2> QED BY <1>7, <2>1 DEF ExecutionRaises, Proceeds, RowsKept
<1> QED BY <1>3, <1>4, <1>6, <1>7 DEF ThreadStep, RunStep

-----------------------------------------------------------------------------
LEMMA TypeInit == Init => TypeOK
<1> SUFFICES ASSUME Init PROVE TypeOK
  OBVIOUS
<1>1. 0 \in 0..MaxExecutions /\ 0 \in 0..MaxCrashes
  BY ExecutionAssumption
<1>2. thread \in [Threads -> ThreadState]
  BY NoThreadType DEF Init
<1>3. status \in [Runs -> Statuses] /\ steps \in [Runs -> Seq(Finished)]
  BY DEF Init, Statuses
<1> QED BY <1>1, <1>2, <1>3 DEF Init, TypeOK, ThreadState

LEMMA ProceedsType ==
    ASSUME TypeOK, NEW th \in Threads, Proceeds(th)
    PROVE  /\ thread' \in [Threads -> ThreadState]
           /\ status' \in [Runs -> Statuses] /\ steps' \in [Runs -> Seq(Finished)]
           /\ \A t \in Threads : thread'[t].runs = thread[t].runs
           /\ \A t \in Threads : t # th => thread'[t] = thread[t]
<1>1. /\ thread[th].steps \in Seq(Finished) /\ thread[th].start \in Nat
      /\ thread[th].runs \subseteq Runs /\ thread[th].pc \in Phases
  BY DEF TypeOK
<1>2. CASE /\ thread[th].pc = "load" /\ RowsKept
           /\ \E r \in thread[th].runs : Works(th, "planning", steps[r], Len(steps[r]))
  <2>1. PICK r \in thread[th].runs : Works(th, "planning", steps[r], Len(steps[r]))
    BY <1>2
  <2>2. steps[r] \in Seq(Finished) /\ Len(steps[r]) \in Nat /\ "planning" \in Phases
    BY <1>1 DEF TypeOK, Phases
  <2> QED BY <1>2, <2>1, <2>2, WorksOn DEF RowsKept, TypeOK
<1>3. CASE /\ Writes(th, thread[th].steps)
           /\ \E pc \in {"plan", "steps", "discard"} :
                Works(th, pc, thread[th].steps, thread[th].start)
  <2>1. PICK pc \in Phases : Works(th, pc, thread[th].steps, thread[th].start)
    BY <1>3 DEF Phases
  <2>2. PICK r \in Runs, st \in Statuses : Persist(r, st, thread[th].steps)
    BY <1>1, <1>3 DEF Writes
  <2>3. status' \in [Runs -> Statuses] /\ steps' \in [Runs -> Seq(Finished)]
    BY <1>1, <2>2 DEF Persist, TypeOK
  <2> QED BY <1>1, <2>1, <2>3, WorksOn
<1>4. CASE /\ RowsKept
           /\ \E outcome \in Finished :
                Works(th, "steps", Append(thread[th].steps, outcome), thread[th].start)
  <2>1. PICK outcome \in Finished :
          Works(th, "steps", Append(thread[th].steps, outcome), thread[th].start)
    BY <1>4
  <2>2. Append(thread[th].steps, outcome) \in Seq(Finished) /\ "steps" \in Phases
    BY <1>1 DEF Phases
  <2> QED BY <1>1, <1>4, <2>1, <2>2, WorksOn DEF RowsKept, TypeOK
<1>5. CASE RowsKept /\ Works(th, "discard", thread[th].steps, thread[th].start)
  <2>1. "discard" \in Phases
    BY DEF Phases
  <2> QED BY <1>1, <1>5, <2>1, WorksOn DEF RowsKept, TypeOK
<1> QED BY <1>2, <1>3, <1>4, <1>5 DEF Proceeds

\* A daemon thread is started: the only way a thread gets a run.
Starts(th, r) ==
    /\ thread[th] = NoThread
    /\ thread' = [thread EXCEPT ![th] = [NoThread EXCEPT !.pc = "load", !.runs = {r}]]

LEMMA StartsType ==
    ASSUME TypeOK, NEW th \in Threads, NEW r \in Runs, Starts(th, r)
    PROVE  /\ thread' \in [Threads -> ThreadState]
           /\ thread[th].runs = {}
           /\ thread'[th].pc = "load" /\ thread'[th].runs = {r}
           /\ \A t \in Threads : t # th => thread'[t] = thread[t]
<1>1. thread \in [Threads -> ThreadState]
  BY DEF TypeOK, ThreadState
<1> DEFINE new == [NoThread EXCEPT !.pc = "load", !.runs = {r}]
<1>2. new \in ThreadState /\ new.pc = "load" /\ new.runs = {r}
  <2>1. "load" \in Phases
    BY DEF Phases
  <2> QED BY <2>1, NoThreadType DEF ThreadState
<1>3. thread' = [thread EXCEPT ![th] = new]
  BY DEF Starts
<1> HIDE DEF new
<1> QED BY <1>1, <1>2, <1>3, NoThreadType DEF Starts

LEMMA DiscardType ==
    ASSUME TypeOK, NEW th \in Threads, NEW r \in thread[th].runs, Discard(th, r)
    PROVE  /\ thread' \in [Threads -> ThreadState]
           /\ thread'[th].runs = {}
           /\ \A t \in Threads : t # th => thread'[t] = thread[t]
<1>1. thread \in [Threads -> ThreadState]
  BY DEF TypeOK, ThreadState
<1> QED BY <1>1, NoThreadType DEF Discard

\* The reads of the execute route that start nothing.
Asks(r) == CheckStatus(r) \/ AlreadyActive(r)

LEMMA TypeStep == TypeOK /\ [Next]_vars => TypeOK'
<1> SUFFICES ASSUME TypeOK, [Next]_vars PROVE TypeOK'
  OBVIOUS
<1>1. ASSUME NEW r \in Runs, SubmitIdea(r) \/ Asks(r) \/ Cancel(r) PROVE TypeOK'
  <2>1. status' \in [Runs -> Statuses]
    BY <1>1 DEF SubmitIdea, Asks, CheckStatus, AlreadyActive, Cancel, TypeOK, Statuses
  <2>2. executions' \in 0..MaxExecutions
    BY <1>1, ExecutionAssumption DEF SubmitIdea, Asks, CheckStatus, AlreadyActive, Cancel, TypeOK
  <2>3. checked' \subseteq Runs /\ \A a, b \in checked' : a = b
    BY <1>1 DEF SubmitIdea, Asks, CheckStatus, AlreadyActive, Cancel, TypeOK
  <2> QED BY <1>1, <2>1, <2>2, <2>3
        DEF SubmitIdea, Asks, CheckStatus, AlreadyActive, Cancel, TypeOK
<1>2. ASSUME NEW r \in Runs, Execute(r) PROVE TypeOK'
  <2>1. PICK th \in Threads : Starts(th, r)
    BY <1>2 DEF Execute, StartThread, Starts
  <2>2. thread' \in [Threads -> ThreadState]
    BY <2>1, StartsType
  <2>3. executions' \in 0..MaxExecutions
    BY <1>2, ExecutionAssumption DEF Execute, StartThread, TypeOK
  <2> QED BY <1>2, <2>2, <2>3 DEF Execute, StartThread, TypeOK, ThreadState
<1>3. ASSUME NEW th \in Threads, ThreadStep(th) \/ ExecutionRaises(th) PROVE TypeOK'
  <2>1. CASE Proceeds(th) /\ UNCHANGED <<active, cancelled, checked, executions, crashes>>
    BY <2>1, ProceedsType DEF TypeOK, ThreadState
  <2>2. ASSUME NEW r \in thread[th].runs, Discard(th, r) PROVE TypeOK'
    BY <2>2, DiscardType DEF Discard, TypeOK, ThreadState
  <2> QED BY <1>3, <2>1, <2>2, ThreadCases
<1>4. CASE Crash
  <2>1. thread' \in [Threads -> ThreadState]
    BY <1>4, NoThreadType DEF Crash
  <2>2. crashes' \in 0..MaxCrashes
    BY <1>4, ExecutionAssumption DEF Crash, TypeOK
  <2> QED BY <1>4, <2>1, <2>2 DEF Crash, TypeOK, ThreadState
<1>5. CASE UNCHANGED vars
  BY <1>5 DEF vars, TypeOK
<1> QED BY <1>1, <1>2, <1>3, <1>4, <1>5 DEF Next, Asks

(* Rows, threads and counters keep their types.                            *)
THEOREM TypeCorrect == Spec => []TypeOK
BY TypeInit, TypeStep, PTL DEF Spec

-----------------------------------------------------------------------------
(* One executor per run.                                                   *)

Runner == OneRun /\ OneExecutorPerRun

\* Of the three ways active changes, each changes the same thread.
LEMMA RunnerStep == TypeOK /\ Runner /\ [Next]_vars => Runner'
<1> SUFFICES ASSUME TypeOK, OneRun, OneExecutorPerRun, [Next]_vars
             PROVE  Runner'
  BY DEF Runner
<1>1. /\ \A r : r \in active <=> \E t \in Threads : r \in thread[t].runs
      /\ \A a, b \in Threads : a # b => thread[a].runs \cap thread[b].runs = {}
  BY DEF OneExecutorPerRun
<1>2. ASSUME active' = active, \A t \in Threads : thread'[t].runs = thread[t].runs
      PROVE  Runner'
  <2>1. \A r : r \in active' <=> \E t \in Threads : r \in thread'[t].runs
    BY <1>1, <1>2
  <2>2. active' = UNION {thread'[t].runs : t \in Threads}
    BY <2>1
  <2> QED BY <1>1, <1>2, <2>2 DEF Runner, OneRun, OneExecutorPerRun
<1>3. ASSUME NEW r \in Runs, Execute(r) PROVE Runner'
  <2>1. PICK th \in Threads : Starts(th, r)
    BY <1>3 DEF Execute, StartThread, Starts
  <2>2. /\ thread[th].runs = {} /\ thread'[th].runs = {r}
        /\ \A t \in Threads : t # th => thread'[t] = thread[t]
    BY <2>1, StartsType
  <2>3. r \notin active /\ active' = active \cup {r}
    BY <1>3 DEF Execute, StartThread
  <2>4. \A t \in Threads : r \notin thread[t].runs
    BY <1>1, <2>3
  <2>5. \A q : q \in active' <=> \E t \in Threads : q \in thread'[t].runs
    BY <1>1, <2>2, <2>3
  <2>6. active' = UNION {thread'[t].runs : t \in Threads}
    BY <2>5
  <2>7. \A a, b \in Threads : a # b => thread'[a].runs \cap thread'[b].runs = {}
    BY <1>1, <2>2, <2>4
  <2>8. OneRun'
    BY <2>2 DEF OneRun
  <2> QED BY <2>6, <2>7, <2>8 DEF Runner, OneExecutorPerRun
<1>4. ASSUME NEW th \in Threads, NEW r \in thread[th].runs, Discard(th, r) PROVE Runner'
  <2>1. /\ thread'[th].runs = {}
        /\ \A t \in Threads : t # th => thread'[t] = thread[t]
    BY <1>4, DiscardType
  <2>2. thread[th].runs = {r} /\ active' = active \ {r}
    BY <1>4 DEF Discard, OneRun
  <2>3. \A q : q \in active' <=> \E t \in Threads : q \in thread'[t].runs
    BY <1>1, <2>1, <2>2
  <2>4. active' = UNION {thread'[t].runs : t \in Threads}
    BY <2>3
  <2>5. \A a, b \in Threads : a # b => thread'[a].runs \cap thread'[b].runs = {}
    BY <1>1, <2>1
  <2>6. OneRun'
    BY <2>1 DEF OneRun
  <2> QED BY <2>4, <2>5, <2>6 DEF Runner, OneExecutorPerRun
<1>5. CASE Crash
  <2>1. active' = {} /\ \A t \in Threads : thread'[t].runs = {}
    BY <1>5, NoThreadType DEF Crash
  <2>2. active' = UNION {thread'[t].runs : t \in Threads}
    BY <2>1
  <2> QED BY <2>1, <2>2 DEF Runner, OneRun, OneExecutorPerRun
<1>6. CASE UNCHANGED vars \/ \E r \in Runs : SubmitIdea(r) \/ Asks(r) \/ Cancel(r)
  BY <1>2, <1>6 DEF vars, SubmitIdea, Asks, CheckStatus, AlreadyActive, Cancel
<1>7. ASSUME NEW th \in Threads, ThreadStep(th) \/ ExecutionRaises(th) PROVE Runner'
  <2>1. CASE Proceeds(th) /\ UNCHANGED active
    BY <1>2, <2>1, ProceedsType
  <2> QED BY <1>4, <1>7, <2>1, ThreadCases
<1> QED BY <1>3, <1>5, <1>6, <1>7 DEF Next, Asks

LEMMA RunnerInit == Init => Runner
<1> SUFFICES ASSUME Init PROVE Runner
  OBVIOUS
<1>1. active = {} /\ \A t \in Threads : thread[t].runs = {}
  BY NoThreadType DEF Init
<1>2. active = UNION {thread[t].runs : t \in Threads}
  BY <1>1
<1> QED BY <1>1, <1>2 DEF Runner, OneRun, OneExecutorPerRun

(* No two threads ever execute one run, and a run is registered exactly    *)
(* while a thread executes it.                                             *)
THEOREM OneExecutor == Spec => []OneExecutorPerRun
<1>1. Runner => OneExecutorPerRun
  BY DEF Runner
<1> QED BY <1>1, RunnerInit, RunnerStep, TypeCorrect, PTL DEF Spec

-----------------------------------------------------------------------------
(* Steps are never lost.                                                   *)

LEMMA ExtendsFacts ==
    /\ \A s \in Seq(Finished) : Extends(s, s)
    /\ \A s, t \in Seq(Finished), x \in Finished : Extends(s, t) => Extends(Append(s, x), t)
<1>1. ASSUME NEW s \in Seq(Finished) PROVE Extends(s, s)
  BY DEF Extends
<1>2. ASSUME NEW s \in Seq(Finished), NEW t \in Seq(Finished), NEW x \in Finished,
             Extends(s, t)
      PROVE  Extends(Append(s, x), t)
  <2>1. /\ Len(s) \in Nat /\ Len(t) \in Nat /\ Len(t) <= Len(s)
        /\ Len(Append(s, x)) = Len(s) + 1
        /\ \A k \in 1..Len(s) : Append(s, x)[k] = s[k]
    BY <1>2 DEF Extends
  <2>2. \A k \in 1..Len(t) : Append(s, x)[k] = t[k]
    BY <1>2, <2>1 DEF Extends
  <2> QED BY <2>1, <2>2 DEF Extends
<1> QED BY <1>1, <1>2

\* What Extends says is what StepsOnlyGrow asks for.
LEMMA ExtendsIsPrefix ==
    ASSUME NEW s \in Seq(Finished), NEW t \in Seq(Finished), Extends(s, t)
    PROVE  Len(s) >= Len(t) /\ SubSeq(s, 1, Len(t)) = t
<1>1. Len(s) \in Nat /\ Len(t) \in Nat /\ Len(t) <= Len(s)
  BY DEF Extends
<1>2. \A k \in 1..Len(t) : s[k] \in Finished
  BY <1>1
<1>3. /\ SubSeq(s, 1, Len(t)) \in Seq(Finished)
      /\ Len(SubSeq(s, 1, Len(t))) = Len(t)
      /\ \A k \in 1..Len(t) : SubSeq(s, 1, Len(t))[k] = s[k]
  BY <1>1, <1>2, SubSeqProperties
<1>4. SubSeq(s, 1, Len(t)) = t
  BY <1>3, SeqEqual DEF Extends
<1> QED BY <1>1, <1>4

\* How one thread's step changes rows and copies.
LEMMA CopyProceeds ==
    ASSUME TypeOK, OneRun, OneExecutorPerRun, CopyExtends, NEW th \in Threads, Proceeds(th)
    PROVE  /\ CopyExtends'
           /\ \A r \in Runs : Extends(steps'[r], steps[r])
<1>1. /\ \A t \in Threads : thread'[t].runs = thread[t].runs
      /\ \A t \in Threads : t # th => thread'[t] = thread[t]
      /\ steps' \in [Runs -> Seq(Finished)]
  BY ProceedsType
<1>2. /\ thread[th].steps \in Seq(Finished) /\ thread[th].start \in Nat
      /\ thread[th].runs \subseteq Runs
      /\ \A r \in Runs : steps[r] \in Seq(Finished) /\ Len(steps[r]) \in Nat
  BY DEF TypeOK
<1>3. ASSUME NEW q \in thread[th].runs
      PROVE  /\ thread[th].runs = {q}
             /\ \A t \in Threads : t # th => q \notin thread[t].runs
  BY <1>3 DEF OneRun, OneExecutorPerRun
\* The rows of other runs stay, and so do the copies of other threads.
<1>4. ASSUME \A r \in Runs \ thread[th].runs : steps'[r] = steps[r],
             \A r \in thread[th].runs :
                /\ Extends(steps'[r], steps[r])
                /\ thread'[th].pc \in {"planning", "plan", "steps"} =>
                     Extends(thread'[th].steps, steps'[r])
      PROVE  /\ CopyExtends'
             /\ \A r \in Runs : Extends(steps'[r], steps[r])
  <2>1. ASSUME NEW t \in Threads, NEW r \in thread'[t].runs,
               thread'[t].pc \in {"planning", "plan", "steps"}
        PROVE  Extends(thread'[t].steps, steps'[r])
    <3>1. CASE t = th
      BY <1>1, <1>4, <2>1, <3>1
    <3>2. CASE t # th
      <4>1. r \notin thread[th].runs /\ thread'[t] = thread[t] /\ r \in thread[t].runs
        BY <1>1, <1>3, <2>1, <3>2
      <4>2. r \in Runs
        BY <4>1 DEF TypeOK
      <4> QED BY <1>4, <2>1, <4>1, <4>2 DEF CopyExtends
    <3> QED BY <3>1, <3>2
  <2>2. ASSUME NEW r \in Runs PROVE Extends(steps'[r], steps[r])
    BY <1>2, <1>4, ExtendsFacts
  <2> QED BY <2>1, <2>2 DEF CopyExtends
<1>5. CASE /\ thread[th].pc = "load" /\ RowsKept
           /\ \E r \in thread[th].runs : Works(th, "planning", steps[r], Len(steps[r]))
  <2>1. PICK r \in thread[th].runs : Works(th, "planning", steps[r], Len(steps[r]))
    BY <1>5
  <2>2. r \in Runs /\ "planning" \in Phases
    BY <1>2 DEF Phases
  <2>3. thread'[th].steps = steps[r] /\ thread[th].runs = {r}
    BY <1>2, <1>3, <2>1, <2>2, WorksOn
  <2> QED BY <1>2, <1>4, <1>5, <2>2, <2>3, ExtendsFacts DEF RowsKept
<1>6. CASE /\ thread[th].pc \in {"planning", "plan", "steps"}
           /\ Writes(th, thread[th].steps)
           /\ \E pc \in {"plan", "steps", "discard"} :
                Works(th, pc, thread[th].steps, thread[th].start)
  <2>1. PICK pc \in Phases : Works(th, pc, thread[th].steps, thread[th].start)
    BY <1>6 DEF Phases
  <2>2. PICK r \in thread[th].runs, st \in Statuses : Persist(r, st, thread[th].steps)
    BY <1>6 DEF Writes
  <2>3. thread'[th].steps = thread[th].steps /\ thread[th].runs = {r} /\ r \in Runs
    BY <1>2, <1>3, <2>1, <2>2, WorksOn
  <2>4. steps'[r] = thread[th].steps /\ \A q \in Runs \ {r} : steps'[q] = steps[q]
    BY <2>2, <2>3 DEF Persist, TypeOK
  <2>5. Extends(thread[th].steps, steps[r])
    BY <1>6, <2>2 DEF CopyExtends
  <2> QED BY <1>2, <1>4, <2>3, <2>4, <2>5, ExtendsFacts
<1>7. CASE /\ thread[th].pc = "steps" /\ RowsKept
           /\ \E outcome \in Finished :
                Works(th, "steps", Append(thread[th].steps, outcome), thread[th].start)
  <2>1. PICK outcome \in Finished :
          Works(th, "steps", Append(thread[th].steps, outcome), thread[th].start)
    BY <1>7
  <2> DEFINE copy == Append(thread[th].steps, outcome)
  <2>2. Works(th, "steps", copy, thread[th].start) /\ copy \in Seq(Finished) /\ "steps" \in Phases
    BY <1>2, <2>1 DEF Phases
  <2>3. thread'[th].steps = copy
    <3> HIDE DEF copy
    <3> QED BY <1>2, <2>2, WorksOn
  <2>4. \A r \in thread[th].runs : Extends(thread[th].steps, steps[r])
    BY <1>7 DEF CopyExtends
  <2> QED BY <1>2, <1>4, <1>7, <2>3, <2>4, ExtendsFacts DEF RowsKept
<1>8. CASE RowsKept /\ Works(th, "discard", thread[th].steps, thread[th].start)
  <2>1. "discard" \in Phases
    BY DEF Phases
  <2>2. thread'[th].pc = "discard"
    BY <1>2, <1>8, <2>1, WorksOn
  <2> QED BY <1>2, <1>4, <1>8, <2>2, ExtendsFacts DEF RowsKept
<1> QED BY <1>5, <1>6, <1>7, <1>8 DEF Proceeds

LEMMA ExecStep ==
    ASSUME ExecInv, [Next]_vars
    PROVE  CopyExtends' /\ \A r \in Runs : Extends(steps'[r], steps[r])
<1>1. TypeOK /\ OneRun /\ OneExecutorPerRun /\ CopyExtends
  BY DEF ExecInv
<1>2. ASSUME UNCHANGED steps PROVE \A r \in Runs : Extends(steps'[r], steps[r])
  BY <1>1, <1>2, ExtendsFacts DEF TypeOK
\* A thread that is idle, loading or done has no copy to speak of.
<1>3. ASSUME UNCHANGED steps,
             \A t \in Threads : \/ thread'[t] = thread[t]
                                \/ thread'[t].runs = {}
                                \/ thread'[t].pc = "load"
      PROVE  CopyExtends'
  BY <1>1, <1>3 DEF CopyExtends
<1>4. ASSUME NEW r \in Runs, Execute(r)
      PROVE  CopyExtends' /\ UNCHANGED steps
  <2>1. PICK th \in Threads : Starts(th, r)
    BY <1>4 DEF Execute, StartThread, Starts
  <2>2. \A t \in Threads : thread'[t] = thread[t] \/ thread'[t].pc = "load"
    BY <1>1, <2>1, StartsType
  <2> QED BY <1>3, <1>4, <2>2 DEF Execute, StartThread
<1>5. ASSUME NEW th \in Threads, NEW r \in thread[th].runs, Discard(th, r)
      PROVE  CopyExtends' /\ UNCHANGED steps
  <2>1. \A t \in Threads : thread'[t] = thread[t] \/ thread'[t].runs = {}
    BY <1>1, <1>5, DiscardType
  <2> QED BY <1>3, <1>5, <2>1 DEF Discard
<1>6. ASSUME NEW th \in Threads, ThreadStep(th) \/ ExecutionRaises(th)
      PROVE  CopyExtends' /\ \A r \in Runs : Extends(steps'[r], steps[r])
  BY <1>1, <1>2, <1>5, <1>6, ThreadCases, CopyProceeds
<1>7. CASE Crash
  <2>1. \A t \in Threads : thread'[t].runs = {}
    BY <1>7, NoThreadType DEF Crash
  <2> QED BY <1>2, <1>3, <1>7, <2>1 DEF Crash
<1>8. CASE UNCHANGED vars \/ \E r \in Runs : SubmitIdea(r) \/ Asks(r) \/ Cancel(r)
  BY <1>2, <1>3, <1>8 DEF vars, SubmitIdea, Asks, CheckStatus, AlreadyActive, Cancel
<1> QED BY <1>2, <1>4, <1>6, <1>7, <1>8 DEF Next, Asks

LEMMA ExecInvariant == Spec => []ExecInv
<1>1. Init => ExecInv
  BY TypeInit, RunnerInit, NoThreadType DEF Init, ExecInv, Runner, CopyExtends
<1>2. ExecInv /\ [Next]_vars => ExecInv'
  BY TypeStep, RunnerStep, ExecStep DEF ExecInv, Runner
<1> QED BY <1>1, <1>2, PTL DEF Spec

(* The recorded steps of a run are only ever extended, although each write *)
(* replaces the row with a thread's copy.                                  *)
THEOREM StepsAreKept == Spec => StepsOnlyGrow
<1>1. ExecInv /\ [Next]_vars =>
        [\A r \in Runs : /\ Len(steps'[r]) >= Len(steps[r])
                         /\ SubSeq(steps'[r], 1, Len(steps[r])) = steps[r]]_vars
  <2> SUFFICES ASSUME ExecInv, [Next]_vars, NEW r \in Runs
               PROVE  /\ Len(steps'[r]) >= Len(steps[r])
                      /\ SubSeq(steps'[r], 1, Len(steps[r])) = steps[r]
    OBVIOUS
  <2>1. steps[r] \in Seq(Finished) /\ steps'[r] \in Seq(Finished)
    BY TypeStep DEF ExecInv, TypeOK
  <2>2. Extends(steps'[r], steps[r])
    BY ExecStep
  <2> QED BY <2>1, <2>2, ExtendsIsPrefix
<1> QED BY <1>1, ExecInvariant, PTL DEF Spec, StepsOnlyGrow

-----------------------------------------------------------------------------
(* A run becomes complete only at the end of an execution none of whose    *)
(* steps failed.                                                           *)
THEOREM CompletionIsEarned == Spec => CompleteIsEarned
<1>1. ASSUME TypeOK, [Next]_vars, NEW r \in Runs,
             status[r] # "complete", status'[r] = "complete"
      PROVE  /\ Len(steps'[r]) >= PlanSteps
             /\ \A k \in (Len(steps'[r]) - PlanSteps + 1)..Len(steps'[r]) :
                  steps'[r][k] = "complete"
  <2>0. PICK th \in Threads : \E q \in thread[th].runs : Finalize(th, q)
    <3>1. ASSUME NEW q \in Runs, SubmitIdea(q) \/ Asks(q) \/ Execute(q) \/ Cancel(q) PROVE FALSE
      BY <1>1, <3>1 DEF SubmitIdea, Asks, CheckStatus, AlreadyActive, Execute, StartThread, Cancel, TypeOK
    <3>2. ASSUME NEW th \in Threads,
                 \/ ExecutionRaises(th) \/ RunStep(th)
                 \/ \E q \in thread[th].runs : LoadRun(th, q) \/ Discard(th, q)
          PROVE FALSE
      BY <1>1, <3>2 DEF ExecutionRaises, RunStep, LoadRun, Discard
    <3>3. ASSUME NEW th \in Threads, NEW q \in thread[th].runs,
                 StartPlanning(th, q) \/ Plan(th, q)
          PROVE FALSE
      BY <1>1, <3>3 DEF StartPlanning, Plan, Persist, TypeOK
    <3>4. CASE Crash \/ UNCHANGED vars
      BY <1>1, <3>4 DEF Crash, vars
    <3> QED BY <1>1, <3>1, <3>2, <3>3, <3>4 DEF Next, Asks, ThreadStep
  <2>1. PICK q \in thread[th].runs : Finalize(th, q)
    BY <2>0
  <2>2. /\ thread[th].steps \in Seq(Finished) /\ thread[th].start \in Nat
        /\ Len(thread[th].steps) \in Nat /\ PlanSteps \in Nat
        /\ q \in Runs
    BY <1>1, ExecutionAssumption DEF TypeOK
  <2>3. r = q /\ ~AnyFailed(th) /\ steps'[r] = thread[th].steps
    BY <1>1, <2>1, <2>2 DEF Finalize, Persist, TypeOK
  <2>4. Len(thread[th].steps) - thread[th].start = PlanSteps
    BY <2>1 DEF Finalize, StepsDone
  <2>5. ASSUME NEW k \in (thread[th].start + 1)..Len(thread[th].steps)
        PROVE  thread[th].steps[k] = "complete"
    <3>1. thread[th].steps[k] \in Finished
      BY <2>2, <2>5
    <3> QED BY <2>3, <2>5, <3>1 DEF AnyFailed, Finished
  <2>6. /\ Len(thread[th].steps) >= PlanSteps
        /\ Len(thread[th].steps) - PlanSteps + 1 = thread[th].start + 1
    BY <2>2, <2>4
  <2> QED BY <2>3, <2>5, <2>6
<1>2. TypeOK /\ [Next]_vars =>
        [\A r \in Runs : status[r] # "complete" /\ status'[r] = "complete" =>
           LET n == Len(steps'[r]) IN
           /\ n >= PlanSteps
           /\ \A k \in (n - PlanSteps + 1)..n : steps'[r][k] = "complete"]_vars
  BY <1>1
<1> QED BY <1>2, TypeCorrect, PTL DEF Spec, CompleteIsEarned

-----------------------------------------------------------------------------
(* The copy and the row, exactly.                                          *)

\* What a thread's copy has to do with the row: the row as it was loaded until
\* the plan is there, then that row and at most one plan's worth of new steps.
InStep(c, row) ==
    /\ c.pc \in {"planning", "plan", "steps"} => c.start = Len(row)
    /\ c.pc \in {"planning", "plan"} => c.steps = row
    /\ c.pc = "steps" => Len(c.steps) <= c.start + PlanSteps

CopyInStep ==
    \A th \in Threads : \A r \in thread[th].runs : InStep(thread[th], steps[r])

\* A thread goes on to the phase pc and keeps its copy.
LEMMA ContinueFacts ==
    ASSUME TypeOK, NEW th \in Threads, NEW pc \in Phases, Continue(th, pc)
    PROVE  /\ thread'[th].pc = pc
           /\ thread'[th].steps = thread[th].steps /\ thread'[th].start = thread[th].start
           /\ \A t \in Threads : thread'[t].runs = thread[t].runs
           /\ \A t \in Threads : t # th => thread'[t] = thread[t]
<1>1. thread[th] \in ThreadState
  BY DEF TypeOK, ThreadState
<1> DEFINE new == [thread[th] EXCEPT !.pc = pc]
<1>2. /\ new.pc = pc /\ new.steps = thread[th].steps
      /\ new.start = thread[th].start /\ new.runs = thread[th].runs
  BY <1>1 DEF ThreadState
<1>3. thread' = [thread EXCEPT ![th] = new]
  BY DEF Continue
<1> HIDE DEF new
<1> QED BY <1>2, <1>3 DEF TypeOK

LEMMA LoadFacts ==
    ASSUME TypeOK, NEW th \in Threads, NEW r \in Runs, LoadRun(th, r)
    PROVE  /\ thread'[th].pc = "planning"
           /\ thread'[th].steps = steps[r] /\ thread'[th].start = Len(steps[r])
           /\ \A t \in Threads : thread'[t].runs = thread[t].runs
           /\ \A t \in Threads : t # th => thread'[t] = thread[t]
<1>1. thread[th] \in ThreadState
  BY DEF TypeOK, ThreadState
<1> DEFINE new == [thread[th] EXCEPT !.pc = "planning", !.steps = steps[r],
                                     !.start = Len(steps[r])]
<1>2. /\ new.pc = "planning" /\ new.steps = steps[r]
      /\ new.start = Len(steps[r]) /\ new.runs = thread[th].runs
  BY <1>1 DEF ThreadState
<1>3. thread' = [thread EXCEPT ![th] = new]
  BY DEF LoadRun
<1> HIDE DEF new
<1> QED BY <1>2, <1>3 DEF TypeOK

LEMMA RunStepFacts ==
    ASSUME TypeOK, NEW th \in Threads, RunStep(th)
    PROVE  /\ thread'[th].pc = "steps" /\ thread'[th].start = thread[th].start
           /\ Len(thread'[th].steps) = Len(thread[th].steps) + 1
           /\ \A t \in Threads : thread'[t].runs = thread[t].runs
           /\ \A t \in Threads : t # th => thread'[t] = thread[t]
<1>1. thread[th] \in ThreadState
  BY DEF TypeOK, ThreadState
<1>2. PICK outcome \in Finished :
        thread' = [thread EXCEPT ![th].steps = Append(@, outcome)]
  BY DEF RunStep
<1> DEFINE new == [thread[th] EXCEPT !.steps = Append(thread[th].steps, outcome)]
<1>3. /\ new.pc = thread[th].pc /\ new.start = thread[th].start
      /\ new.runs = thread[th].runs /\ new.steps = Append(thread[th].steps, outcome)
  BY <1>1 DEF ThreadState
<1>4. Len(new.steps) = Len(thread[th].steps) + 1
  BY <1>1, <1>3 DEF ThreadState
<1>5. thread' = [thread EXCEPT ![th] = new]
  BY <1>2 DEF TypeOK
<1> HIDE DEF new
<1> QED BY <1>3, <1>4, <1>5 DEF TypeOK, RunStep

\* Only the thread's own run has its row written, and by no other thread.
LEMMA OwnRun ==
    ASSUME ExecInv, NEW th \in Threads, NEW r \in thread[th].runs
    PROVE  /\ thread[th].runs = {r} /\ r \in Runs
           /\ \A t \in Threads : t # th => r \notin thread[t].runs
BY DEF ExecInv, OneRun, OneExecutorPerRun, TypeOK

LEMMA InStepStep == ExecInv /\ CopyInStep /\ [Next]_vars => CopyInStep'
<1> SUFFICES ASSUME ExecInv, CopyInStep, [Next]_vars PROVE CopyInStep'
  OBVIOUS
<1>1. TypeOK
  BY DEF ExecInv
<1>2. ASSUME UNCHANGED steps,
             \A t \in Threads : \/ thread'[t] = thread[t]
                                \/ thread'[t].runs = {}
                                \/ thread'[t].pc \in {"load", "discard"}
      PROVE  CopyInStep'
  BY <1>2 DEF CopyInStep, InStep
\* One thread works on its run.
<1>3. ASSUME NEW th \in Threads, NEW r \in thread[th].runs,
             \A t \in Threads : thread'[t].runs = thread[t].runs,
             \A t \in Threads : t # th => thread'[t] = thread[t],
             \A q \in Runs : q # r => steps'[q] = steps[q],
             InStep(thread'[th], steps'[r])
      PROVE  CopyInStep'
  <2>1. ASSUME NEW t \in Threads, NEW q \in thread'[t].runs
        PROVE  InStep(thread'[t], steps'[q])
    <3>1. q \in thread[t].runs /\ q \in Runs
      BY <1>1, <1>3, <2>1 DEF TypeOK
    <3>2. CASE t = th
      BY <1>3, <3>1, <3>2, OwnRun
    <3>3. CASE t # th
      <4>1. q # r /\ thread'[t] = thread[t]
        BY <1>3, <3>1, <3>3, OwnRun
      <4> QED BY <1>3, <3>1, <4>1 DEF CopyInStep
    <3> QED BY <3>2, <3>3
  <2> QED BY <2>1 DEF CopyInStep
<1>4. ASSUME NEW r \in Runs, Execute(r) PROVE CopyInStep'
  <2>1. PICK th \in Threads : Starts(th, r)
    BY <1>4 DEF Execute, StartThread, Starts
  <2> QED BY <1>1, <1>2, <1>4, <2>1, StartsType DEF Execute, StartThread
<1>5. ASSUME NEW th \in Threads, ExecutionRaises(th) PROVE CopyInStep'
  <2>1. "discard" \in Phases
    BY DEF Phases
  <2> QED BY <1>1, <1>2, <1>5, <2>1, ContinueFacts DEF ExecutionRaises
<1>6. ASSUME NEW th \in Threads, NEW r \in thread[th].runs, Discard(th, r)
      PROVE  CopyInStep'
  BY <1>1, <1>2, <1>6, DiscardType DEF Discard
<1>7. CASE Crash
  BY <1>2, <1>7, NoThreadType DEF Crash
<1>8. CASE UNCHANGED vars \/ \E r \in Runs : SubmitIdea(r) \/ Asks(r) \/ Cancel(r)
  BY <1>2, <1>8 DEF vars, SubmitIdea, Asks, CheckStatus, AlreadyActive, Cancel
<1>9. ASSUME NEW th \in Threads, NEW r \in thread[th].runs, LoadRun(th, r)
      PROVE  CopyInStep'
  <2>1. r \in Runs /\ UNCHANGED steps
    BY <1>1, <1>9 DEF TypeOK, LoadRun
  <2>2. InStep(thread'[th], steps'[r])
    BY <1>1, <1>9, <2>1, LoadFacts DEF InStep
  <2> QED BY <1>1, <1>3, <1>9, <2>1, <2>2, LoadFacts
<1>10. ASSUME NEW th \in Threads, NEW r \in thread[th].runs, NEW st \in Statuses,
              NEW pc \in {"plan", "steps", "discard"},
              Persist(r, st, thread[th].steps), Continue(th, pc),
              pc # "discard" => thread[th].pc \in {"planning", "plan"}
       PROVE  CopyInStep'
  <2>1. r \in Runs /\ pc \in Phases /\ steps \in [Runs -> Seq(Finished)]
    BY <1>1 DEF TypeOK, Phases
  <2>2. steps'[r] = thread[th].steps /\ \A q \in Runs : q # r => steps'[q] = steps[q]
    BY <1>10, <2>1 DEF Persist
  <2>3. /\ thread'[th].pc = pc
        /\ thread'[th].steps = thread[th].steps /\ thread'[th].start = thread[th].start
    BY <1>1, <1>10, <2>1, ContinueFacts
  <2>4. InStep(thread'[th], steps'[r])
    <3>1. CASE pc = "discard"
      BY <2>3, <3>1 DEF InStep
    <3>2. CASE pc # "discard"
      <4>1. thread[th].steps = steps[r] /\ thread[th].start = Len(steps[r])
        BY <1>10, <3>2 DEF CopyInStep, InStep
      <4>2. Len(steps[r]) \in Nat /\ PlanSteps \in Nat
        BY <2>1, ExecutionAssumption
      <4>3. Len(steps[r]) <= Len(steps[r]) + PlanSteps
        BY <4>2
      <4> QED BY <2>2, <2>3, <4>1, <4>3 DEF InStep
    <3> QED BY <3>1, <3>2
  <2> QED BY <1>1, <1>3, <1>10, <2>1, <2>2, <2>4, ContinueFacts
<1>11. ASSUME NEW th \in Threads, NEW r \in thread[th].runs,
              StartPlanning(th, r) \/ Plan(th, r) \/ Finalize(th, r)
       PROVE  CopyInStep'
  <2>1. {"planning", "generating", "failed", "complete"} \subseteq Statuses
    BY DEF Statuses, InProgress, Finished
  <2> QED BY <1>10, <1>11, <2>1 DEF StartPlanning, Plan, Finalize
<1>12. ASSUME NEW th \in Threads, RunStep(th) PROVE CopyInStep'
  <2>1. CASE thread[th].runs = {}
    BY <1>1, <1>2, <1>12, <2>1, RunStepFacts DEF RunStep
  <2>2. ASSUME NEW r \in thread[th].runs PROVE CopyInStep'
    <3>1. UNCHANGED steps /\ InStep(thread[th], steps[r])
      BY <1>12 DEF RunStep, CopyInStep
    <3>2. /\ thread'[th].pc = "steps" /\ thread'[th].start = thread[th].start
          /\ Len(thread'[th].steps) = Len(thread[th].steps) + 1
      BY <1>1, <1>12, RunStepFacts
    <3>3. /\ Len(thread[th].steps) \in Nat /\ thread[th].start \in Nat /\ PlanSteps \in Nat
      BY <1>1, ExecutionAssumption DEF TypeOK
    <3>4. Len(thread[th].steps) - thread[th].start < PlanSteps
      BY <1>12 DEF RunStep, StepsDone
    <3>5. Len(thread[th].steps) + 1 <= thread[th].start + PlanSteps
      BY <3>3, <3>4
    <3>6. InStep(thread'[th], steps'[r])
      BY <1>12, <3>1, <3>2, <3>5 DEF InStep, RunStep
    <3> QED BY <1>1, <1>3, <1>12, <3>1, <3>6, RunStepFacts
  <2> QED BY <2>1, <2>2
<1> QED BY <1>4, <1>5, <1>6, <1>7, <1>8, <1>9, <1>11, <1>12 DEF Next, Asks, ThreadStep

LEMMA InStepInvariant == Spec => []CopyInStep
<1>1. Init => CopyInStep
  BY NoThreadType DEF Init, CopyInStep
<1> QED BY <1>1, InStepStep, ExecInvariant, PTL DEF Spec

-----------------------------------------------------------------------------
(* The threads implement RunLedger.                                        *)

\* A run's stage is the phase of its thread, and idle when it has none.
StageRight ==
    \A r \in Runs :
        /\ \A th \in Threads : r \in thread[th].runs => Stage[r] = StageOf[thread[th].pc]
        /\ (\A th \in Threads : r \notin thread[th].runs) => Stage[r] = "idle"

LEMMA StageIsRight ==
    /\ OneExecutorPerRun => StageRight
    /\ OneExecutorPerRun' => StageRight'
<1>1. ASSUME OneExecutorPerRun PROVE StageRight
  <2>1. \A a, b \in Threads : a # b => thread[a].runs \cap thread[b].runs = {}
    BY <1>1 DEF OneExecutorPerRun
  <2> SUFFICES ASSUME NEW r \in Runs
               PROVE  /\ \A th \in Threads : r \in thread[th].runs => Stage[r] = StageOf[thread[th].pc]
                      /\ (\A th \in Threads : r \notin thread[th].runs) => Stage[r] = "idle"
    BY DEF StageRight
  <2>2. ASSUME NEW th \in Threads, r \in thread[th].runs PROVE Stage[r] = StageOf[thread[th].pc]
    <3>1. \A t \in Threads : r \in thread[t].runs => t = th
      BY <2>1, <2>2
    <3>2. (CHOOSE t \in Threads : r \in thread[t].runs) = th
      BY <2>2, <3>1
    <3> QED BY <2>2, <3>2 DEF Stage
  <2>3. ASSUME \A th \in Threads : r \notin thread[th].runs PROVE Stage[r] = "idle"
    BY <2>3 DEF Stage
  <2> QED BY <2>2, <2>3
<1>2. ASSUME OneExecutorPerRun' PROVE StageRight'
  <2>1. \A a, b \in Threads : a # b => thread'[a].runs \cap thread'[b].runs = {}
    BY <1>2 DEF OneExecutorPerRun
  <2> SUFFICES ASSUME NEW r \in Runs
               PROVE  /\ \A th \in Threads : r \in thread'[th].runs => Stage'[r] = StageOf[thread'[th].pc]
                      /\ (\A th \in Threads : r \notin thread'[th].runs) => Stage'[r] = "idle"
    BY DEF StageRight, StageOf
  <2>2. ASSUME NEW th \in Threads, r \in thread'[th].runs PROVE Stage'[r] = StageOf[thread'[th].pc]
    <3>1. \A t \in Threads : r \in thread'[t].runs => t = th
      BY <2>1, <2>2
    <3>2. (CHOOSE t \in Threads : r \in thread'[t].runs) = th
      BY <2>2, <3>1
    <3> QED BY <2>2, <3>2 DEF Stage, StageOf
  <2>3. ASSUME \A th \in Threads : r \notin thread'[th].runs PROVE Stage'[r] = "idle"
    BY <2>3 DEF Stage
  <2> QED BY <2>2, <2>3
<1> QED BY <1>1, <1>2

LEMMA StageValues ==
    /\ StageOf["none"] = "idle" /\ StageOf["load"] = "started"
    /\ StageOf["planning"] = "started" /\ StageOf["plan"] = "planning"
    /\ StageOf["steps"] = "generating" /\ StageOf["discard"] = "ending"
BY DEF StageOf

\* A step that leaves each thread its run and the stage of its phase.
LEMMA StageStays ==
    ASSUME StageRight, StageRight',
           \A t \in Threads : /\ thread'[t].runs = thread[t].runs
                              /\ \/ StageOf[thread'[t].pc] = StageOf[thread[t].pc]
                                 \/ thread[t].runs = {}
    PROVE  Stage' = Stage
<1>1. ASSUME NEW r \in Runs PROVE Stage'[r] = Stage[r]
  <2>1. CASE \A t \in Threads : r \notin thread[t].runs
    BY <2>1 DEF StageRight
  <2>2. ASSUME NEW t \in Threads, r \in thread[t].runs PROVE Stage'[r] = Stage[r]
    <3>1. Stage[r] = StageOf[thread[t].pc]
      BY <2>2 DEF StageRight
    <3>2. Stage'[r] = StageOf[thread'[t].pc]
      BY <2>2 DEF StageRight, StageOf
    <3>3. StageOf[thread'[t].pc] = StageOf[thread[t].pc]
      BY <2>2
    <3> QED BY <3>1, <3>2, <3>3
  <2> QED BY <2>1, <2>2
<1>2. Stage = [r \in Runs |-> Stage[r]] /\ Stage' = [r \in Runs |-> Stage'[r]]
  BY DEF Stage
<1> QED BY <1>1, <1>2

\* A step of one thread moves the stage of its run alone.
LEMMA StageGoes ==
    ASSUME StageRight, StageRight', NEW r \in Runs, NEW st,
           Stage'[r] = st,
           NEW th \in Threads,
           \A t \in Threads : t # th => thread'[t] = thread[t],
           \A q \in Runs : q # r => q \notin thread[th].runs /\ q \notin thread'[th].runs
    PROVE  Ledger!Goes(r, st)
<1>1. ASSUME NEW q \in Runs, q # r PROVE Stage'[q] = Stage[q]
  <2>1. CASE \A t \in Threads : q \notin thread[t].runs
    BY <1>1, <2>1 DEF StageRight
  <2>2. ASSUME NEW t \in Threads, q \in thread[t].runs PROVE Stage'[q] = Stage[q]
    <3>0. thread'[t] = thread[t]
      BY <1>1, <2>2
    <3>1. Stage[q] = StageOf[thread[t].pc]
      BY <2>2 DEF StageRight
    <3>2. Stage'[q] = StageOf[thread'[t].pc]
      BY <2>2, <3>0 DEF StageRight, StageOf
    <3> QED BY <3>0, <3>1, <3>2
  <2> QED BY <2>1, <2>2
<1>2. Stage = [q \in Runs |-> Stage[q]] /\ Stage' = [q \in Runs |-> Stage'[q]]
  BY DEF Stage
<1>3. Stage' = [Stage EXCEPT ![r] = st]
  BY <1>1, <1>2
<1> QED BY <1>3 DEF Ledger!Goes

\* A request in the middle of the execute route has found the row.
CheckedExist == \A r \in checked : status[r] # "absent"

LEMMA CheckedStep == TypeOK /\ TypeOK' /\ CheckedExist /\ [Next]_vars => CheckedExist'
<1> SUFFICES ASSUME TypeOK, TypeOK', CheckedExist, [Next]_vars, NEW r \in Runs, r \in checked'
             PROVE  status'[r] # "absent"
  BY DEF CheckedExist, TypeOK
<1>1. status[r] # "absent"
  <2>1. ASSUME NEW th \in Threads, ThreadStep(th) \/ ExecutionRaises(th)
        PROVE  checked' = checked
    BY <2>1 DEF ThreadStep, RunStep, LoadRun, StartPlanning, Plan, Finalize, Discard,
                ExecutionRaises
  <2>2. ASSUME NEW q \in Runs, SubmitIdea(q) \/ Execute(q) \/ AlreadyActive(q) \/ Cancel(q)
        PROVE  checked' = checked \/ checked' = {}
    BY <2>2 DEF SubmitIdea, Execute, AlreadyActive, Cancel
  <2>3. ASSUME NEW q \in Runs, CheckStatus(q) PROVE status[r] # "absent"
    BY <2>3 DEF CheckStatus
  <2>4. CASE Crash \/ UNCHANGED vars
    BY <2>4 DEF Crash, vars, CheckedExist
  <2> QED BY <2>1, <2>2, <2>3, <2>4 DEF Next, CheckedExist
<1> QED BY <1>1 DEF Next, SubmitIdea, CheckStatus, AlreadyActive, Execute, StartThread, Cancel,
                    ThreadStep, RunStep, LoadRun, StartPlanning, Plan, Finalize, Discard,
                    ExecutionRaises, Crash, Persist, vars, TypeOK

LEMMA LedgerStep ==
    ASSUME ExecInv, CopyInStep, CheckedExist, StageRight, StageRight', [Next]_vars
    PROVE  [Ledger!Next]_(Ledger!vars)
<1>1. TypeOK
  BY DEF ExecInv
<1>2. /\ Ledger!Finished = Finished /\ Ledger!InProgress = InProgress
      /\ "planning" \in Phases /\ "plan" \in Phases /\ "steps" \in Phases /\ "discard" \in Phases
  BY DEF Ledger!Finished, Ledger!InProgress, Finished, InProgress, Phases
<1>3. ASSUME Stage' = Stage, RowsKept PROVE UNCHANGED Ledger!vars
  BY <1>3 DEF Ledger!vars, RowsKept
<1>4. ASSUME thread' = thread PROVE Stage' = Stage
  BY <1>4, StageStays
<1>5. ASSUME NEW r \in Runs, SubmitIdea(r) \/ Asks(r) \/ Cancel(r)
      PROVE  Ledger!Submit(r) \/ Ledger!Cancel(r) \/ UNCHANGED Ledger!vars
  <2>1. Stage' = Stage
    BY <1>4, <1>5 DEF SubmitIdea, Asks, CheckStatus, AlreadyActive, Cancel
  <2>2. Asks(r) => RowsKept
    BY DEF Asks, CheckStatus, AlreadyActive, RowsKept
  <2> QED BY <1>2, <1>3, <1>5, <2>1, <2>2
        DEF SubmitIdea, Cancel, Ledger!Submit, Ledger!Cancel, Ledger!Shows
<1>6. ASSUME NEW r \in Runs, Execute(r) PROVE Ledger!Begin(r)
  <2>1. PICK th \in Threads : Starts(th, r)
    BY <1>6 DEF Execute, StartThread, Starts
  <2>2. Stage[r] = "idle"
    <3>1. r \notin active
      BY <1>6 DEF Execute, StartThread
    <3>2. \A t \in Threads : r \notin thread[t].runs
      BY <3>1 DEF ExecInv, OneExecutorPerRun
    <3> QED BY <3>2 DEF StageRight
  <2>3. /\ thread[th].runs = {} /\ thread'[th].runs = {r} /\ thread'[th].pc = "load"
        /\ \A t \in Threads : t # th => thread'[t] = thread[t]
    BY <1>1, <2>1, StartsType
  <2>4. Stage'[r] = "started"
    BY <2>3, StageValues DEF StageRight, StageOf
  <2>5. Ledger!Goes(r, "started")
    BY <2>3, <2>4, StageGoes
  <2>6. status[r] # "absent"
    BY <1>6 DEF Execute, CheckedExist
  <2> QED BY <1>6, <2>2, <2>5, <2>6 DEF Execute, StartThread, Ledger!Begin
\* The stages of a run whose thread goes on to the phase pc.
<1>7. ASSUME NEW th \in Threads, NEW r \in thread[th].runs, NEW pc \in Phases, Continue(th, pc)
      PROVE  /\ r \in Runs
             /\ Stage[r] = StageOf[thread[th].pc]
             /\ Ledger!Goes(r, StageOf[pc])
  <2>1. /\ thread[th].runs = {r} /\ r \in Runs
        /\ thread'[th].runs = {r} /\ thread'[th].pc = pc
        /\ \A t \in Threads : t # th => thread'[t] = thread[t]
    BY <1>1, <1>7, OwnRun, ContinueFacts
  <2>2. Stage[r] = StageOf[thread[th].pc]
    BY <2>1 DEF StageRight
  <2>3. Stage'[r] = StageOf[pc]
    BY <2>1 DEF StageRight, StageOf
  <2>4. Ledger!Goes(r, StageOf[pc])
    BY <2>1, <2>3, StageGoes
  <2> QED BY <2>1, <2>2, <2>4
\* A write before the report leaves the steps as they are.
<1>8. ASSUME NEW th \in Threads, NEW r \in thread[th].runs, NEW st,
             thread[th].pc \in {"planning", "plan"}, Persist(r, st, thread[th].steps)
      PROVE  Ledger!Shows(r, st) /\ UNCHANGED steps
  <2>1. thread[th].steps = steps[r] /\ r \in Runs
    BY <1>1, <1>8 DEF CopyInStep, InStep, TypeOK
  <2> QED BY <1>1, <1>8, <2>1 DEF Persist, Ledger!Shows, TypeOK
<1>9. ASSUME NEW th \in Threads, NEW r \in thread[th].runs, StartPlanning(th, r)
      PROVE  r \in Runs /\ Ledger!Planning(r)
  <2>1. /\ thread[th].pc = "planning" /\ Continue(th, "plan")
        /\ Persist(r, "planning", thread[th].steps)
    BY <1>9 DEF StartPlanning
  <2>2. /\ r \in Runs /\ Stage[r] = "started" /\ Ledger!Goes(r, "planning")
    BY <1>2, <1>7, <2>1, StageValues
  <2>3. Ledger!Shows(r, "planning") /\ UNCHANGED steps
    BY <1>8, <2>1
  <2> QED BY <2>2, <2>3 DEF Ledger!Planning
<1>10. ASSUME NEW th \in Threads, NEW r \in thread[th].runs, Plan(th, r)
       PROVE  r \in Runs /\ (Ledger!Planned(r) \/ Ledger!PlannerFails(r))
  <2>1. thread[th].pc = "plan"
    BY <1>10 DEF Plan
  <2>2. CASE Persist(r, "generating", thread[th].steps) /\ Continue(th, "steps")
    <3>1. /\ r \in Runs /\ Stage[r] = "planning" /\ Ledger!Goes(r, "generating")
      BY <1>2, <1>7, <2>1, <2>2, StageValues
    <3>2. Ledger!Shows(r, "generating") /\ UNCHANGED steps
      BY <1>8, <2>1, <2>2
    <3> QED BY <3>1, <3>2 DEF Ledger!Planned
  <2>3. CASE Persist(r, "failed", thread[th].steps) /\ Continue(th, "discard")
    <3>1. /\ r \in Runs /\ Stage[r] = "planning" /\ Ledger!Goes(r, "ending")
      BY <1>2, <1>7, <2>1, <2>3, StageValues
    <3>2. Ledger!Shows(r, "failed") /\ UNCHANGED steps
      BY <1>8, <2>1, <2>3
    <3> QED BY <3>1, <3>2 DEF Ledger!PlannerFails
  <2> QED BY <1>10, <2>2, <2>3 DEF Plan
<1>11. ASSUME NEW th \in Threads, NEW r \in thread[th].runs, Finalize(th, r)
       PROVE  r \in Runs /\ Ledger!Report(r)
  <2> DEFINE copy == thread[th].steps
             from == thread[th].start
             done == [k \in 1..PlanSteps |-> copy[from + k]]
  <2>1. /\ copy \in Seq(Finished) /\ from \in Nat /\ r \in Runs
        /\ Len(copy) \in Nat /\ PlanSteps \in Nat
        /\ steps \in [Runs -> Seq(Finished)] /\ status \in [Runs -> Statuses]
    BY <1>1, ExecutionAssumption DEF TypeOK
  <2>2. /\ thread[th].pc = "steps" /\ Continue(th, "discard")
        /\ Len(copy) - from = PlanSteps
        /\ Persist(r, IF AnyFailed(th) THEN "failed" ELSE "complete", copy)
    BY <1>11 DEF Finalize, StepsDone
  <2>3. /\ Stage[r] = "generating" /\ Ledger!Goes(r, "ending")
    BY <1>2, <1>7, <2>2, StageValues
  <2>4. from = Len(steps[r]) /\ \A k \in 1..from : copy[k] = steps[r][k]
    <3>1. from = Len(steps[r])
      BY <2>2 DEF CopyInStep, InStep
    <3>2. Extends(copy, steps[r])
      BY <2>2 DEF ExecInv, CopyExtends
    <3> QED BY <3>1, <3>2 DEF Extends
  <2>5. Len(copy) = from + PlanSteps
    BY <2>1, <2>2
  <2>6. done \in [1..PlanSteps -> Finished]
    <3>1. \A k \in 1..PlanSteps : from + k \in 1..Len(copy)
      BY <2>1, <2>5
    <3> QED BY <2>1, <3>1
  <2>7. done \in Seq(Finished) /\ Len(done) = PlanSteps
    <3> HIDE DEF done
    <3> QED BY <2>1, <2>6
  <2>8. copy = steps[r] \o done
    <3>1. steps[r] \in Seq(Finished)
      BY <2>1
    <3>2. /\ steps[r] \o done \in Seq(Finished)
          /\ Len(steps[r] \o done) = from + PlanSteps
      BY <2>1, <2>4, <2>7, <3>1 DEF copy, from
    <3>3. ASSUME NEW k \in 1..Len(copy) PROVE copy[k] = (steps[r] \o done)[k]
      <4>1. CASE k <= from
        <5>1. (steps[r] \o done)[k] = steps[r][k]
          <6> HIDE DEF done
          <6> QED BY <2>1, <2>4, <2>7, <3>1, <3>3, <4>1
        <5> QED BY <2>1, <2>4, <3>3, <4>1, <5>1
      <4>2. CASE k > from
        <5>1. k - from \in 1..PlanSteps /\ from + (k - from) = k
          BY <2>1, <2>5, <3>3, <4>2
        <5>2. (steps[r] \o done)[k] = done[k - from]
          <6> HIDE DEF done
          <6> QED BY <2>1, <2>4, <2>7, <3>1, <3>3, <4>2, <5>1
        <5> QED BY <5>1, <5>2
      <4>3. k \in Nat
        BY <2>1, <3>3
      <4>4. k <= from \/ k > from
        BY <2>1, <4>3
      <4> QED BY <4>1, <4>2, <4>4
    <3> HIDE DEF done, copy
    <3> QED BY <2>1, <2>5, <3>2, <3>3, SeqEqual
  <2>9. AnyFailed(th) <=> \E k \in 1..PlanSteps : done[k] = "failed"
    <3>1. ASSUME NEW k \in (from + 1)..Len(copy), copy[k] = "failed"
          PROVE  \E j \in 1..PlanSteps : done[j] = "failed"
      <4>1. k - from \in 1..PlanSteps /\ from + (k - from) = k
        BY <2>1, <2>5
      <4> QED BY <3>1, <4>1
    <3>2. ASSUME NEW j \in 1..PlanSteps, done[j] = "failed"
          PROVE  \E k \in (from + 1)..Len(copy) : copy[k] = "failed"
      <4>1. from + j \in (from + 1)..Len(copy)
        BY <2>1, <2>5
      <4> QED BY <3>2, <4>1
    <3> QED BY <3>1, <3>2 DEF AnyFailed
  <2>10. /\ Ledger!Shows(r, IF \E k \in 1..PlanSteps : done[k] = "failed"
                            THEN "failed" ELSE "complete")
         /\ steps' = [steps EXCEPT ![r] = steps[r] \o done]
    <3> HIDE DEF done
    <3> QED BY <2>2, <2>8, <2>9 DEF Persist, Ledger!Shows
  <2> HIDE DEF done
  <2> QED BY <1>2, <2>1, <2>3, <2>6, <2>10 DEF Ledger!Report
<1>12. ASSUME NEW th \in Threads, ExecutionRaises(th)
       PROVE  (\E r \in Runs : Ledger!Abort(r)) \/ UNCHANGED Ledger!vars
  <2>1. /\ thread[th].pc \in {"load", "planning", "plan", "steps"}
        /\ Continue(th, "discard") /\ RowsKept
    BY <1>12 DEF ExecutionRaises, RowsKept
  <2>2. CASE thread[th].runs = {}
    BY <1>1, <1>2, <1>3, <2>1, <2>2, ContinueFacts, StageStays
  <2>3. ASSUME NEW r \in thread[th].runs PROVE r \in Runs /\ Ledger!Abort(r)
    <3>1. /\ r \in Runs /\ Stage[r] = StageOf[thread[th].pc] /\ Ledger!Goes(r, "ending")
      BY <1>2, <1>7, <2>1, StageValues
    <3>2. Stage[r] \in Ledger!Running
      BY <2>1, <3>1, StageValues DEF Ledger!Running, Ledger!InProgress
    <3> QED BY <2>1, <3>1, <3>2 DEF Ledger!Abort, RowsKept
  <2> QED BY <2>2, <2>3
<1>13. ASSUME NEW th \in Threads, NEW r \in thread[th].runs, Discard(th, r)
       PROVE  r \in Runs /\ Ledger!End(r)
  <2>1. /\ thread[th].runs = {r} /\ r \in Runs
        /\ \A t \in Threads : t # th => r \notin thread[t].runs
    BY OwnRun
  <2>2. /\ thread'[th].runs = {}
        /\ \A t \in Threads : t # th => thread'[t] = thread[t]
    BY <1>1, <1>13, DiscardType
  <2>3. Stage[r] = "ending" /\ RowsKept
    BY <1>13, <2>1, StageValues DEF StageRight, Discard, RowsKept
  <2>4. Stage'[r] = "idle"
    BY <2>1, <2>2 DEF StageRight
  <2>5. Ledger!Goes(r, "idle")
    BY <2>1, <2>2, <2>4, StageGoes
  <2> QED BY <2>1, <2>3, <2>5 DEF Ledger!End, RowsKept
<1>14. ASSUME NEW th \in Threads,
              RunStep(th) \/ \E r \in thread[th].runs : LoadRun(th, r)
       PROVE  UNCHANGED Ledger!vars
  <2>1. RowsKept
    BY <1>14 DEF RunStep, LoadRun, RowsKept
  <2>2. CASE RunStep(th)
    <3>1. Stage' = Stage
      BY <1>1, <2>2, RunStepFacts, StageStays DEF RunStep
    <3> QED BY <1>3, <2>1, <3>1
  <2>3. ASSUME NEW r \in thread[th].runs, LoadRun(th, r) PROVE UNCHANGED Ledger!vars
    <3>1. r \in Runs /\ thread[th].pc = "load"
      BY <1>1, <2>3 DEF TypeOK, LoadRun
    <3>2. Stage' = Stage
      BY <1>1, <2>3, <3>1, LoadFacts, StageStays, StageValues
    <3> QED BY <1>3, <2>1, <3>2
  <2> QED BY <1>14, <2>2, <2>3
<1>15. CASE Crash
  <2>1. \A t \in Threads : thread'[t].runs = {}
    BY <1>15, NoThreadType DEF Crash
  <2>2. \A r \in Runs : Stage'[r] = "idle"
    BY <2>1 DEF StageRight
  <2>3. Stage' = [r \in Runs |-> Stage'[r]]
    BY DEF Stage
  <2>4. Stage' = [r \in Runs |-> "idle"]
    BY <2>2, <2>3
  <2>5. Ledger!Restart
    BY <1>15, <2>4 DEF Crash, Ledger!Restart
  <2> QED BY <2>5 DEF Ledger!Next
<1>16. CASE UNCHANGED vars
  BY <1>3, <1>4, <1>16 DEF vars, RowsKept
<1> QED BY <1>5, <1>6, <1>9, <1>10, <1>11, <1>12, <1>13, <1>14, <1>15, <1>16
     DEF Next, Asks, ThreadStep, Ledger!Next

(* Whole-row writes from copies implement a row whose steps grow by one    *)
(* plan at a time, under one execution at a time.                          *)
THEOREM ControllerImplementsLedger == Spec => ImplementsLedger
<1>1. Init => Ledger!Init
  <2> SUFFICES ASSUME Init PROVE Ledger!Init
    OBVIOUS
  <2>1. \A r \in Runs, th \in Threads : r \notin thread[th].runs
    BY NoThreadType DEF Init
  <2>2. Stage = [r \in Runs |-> "idle"]
    BY <2>1 DEF Stage
  <2> QED BY <2>2 DEF Init, Ledger!Init
<1>2. /\ ExecInv /\ CopyInStep /\ CheckedExist /\ ExecInv' /\ [Next]_vars
      => [Ledger!Next]_(Ledger!vars)
  BY StageIsRight, LedgerStep DEF ExecInv
<1>3. Init => CheckedExist
  BY DEF Init, CheckedExist
<1>4. ExecInv /\ CheckedExist /\ [Next]_vars => CheckedExist'
  BY CheckedStep, TypeStep DEF ExecInv
<1> QED BY <1>1, <1>2, <1>3, <1>4, ExecInvariant, InStepInvariant, PTL DEF Spec, ImplementsLedger, Ledger!Spec

-----------------------------------------------------------------------------
(* Executions run out of steps.                                            *)

\* A daemon thread in its phases, and the steps it can still take.
Working == {"load", "planning", "plan", "steps", "discard"}

LeftOf(c) ==
    CASE c.pc = "load"     -> PlanSteps + 5
      [] c.pc = "planning" -> PlanSteps + 4
      [] c.pc = "plan"     -> PlanSteps + 3
      [] c.pc = "steps"    -> PlanSteps + 2 - (Len(c.steps) - c.start)
      [] c.pc = "discard"  -> 1
      [] OTHER             -> 0

\* A thread that was started has its one run, is in a phase, and has recorded
\* no more steps than the plan has, so that ThreadStep has an action for it.
NeverStuck ==
    \A th \in Threads :
        \/ thread[th] = NoThread
        \/ /\ \E r \in Runs : thread[th].runs = {r}
           /\ thread[th].pc \in Working
           /\ thread[th].pc = "steps" => StepsDone(th) \in 0..PlanSteps

\* Until its end, whatever a thread does or suffers leaves it less to do.
WindsDown ==
    [][\A th \in Threads :
          \/ thread[th] = NoThread
          \/ thread'[th] = thread[th]
          \/ LeftOf(thread'[th]) \in Nat /\ LeftOf(thread'[th]) < LeftOf(thread[th])]_vars

Started == \A th \in Threads :
    thread[th] = NoThread \/ (thread[th].runs # {} /\ thread[th].pc \in Working)

LEMMA StartedInvariant == Spec => []Started
<1>1. Init => Started
  BY DEF Init, Started
<1>2. TypeOK /\ Started /\ [Next]_vars => Started'
  <2> SUFFICES ASSUME TypeOK, Started, [Next]_vars PROVE Started'
    OBVIOUS
  <2>1. ASSUME \A t \in Threads : \/ thread'[t] = thread[t] \/ thread'[t] = NoThread
                                  \/ thread'[t].runs # {} /\ thread'[t].pc \in Working
        PROVE  Started'
    BY <2>1 DEF Started
  \* A thread that is not idle goes on to a phase of Working.
  <2>2. ASSUME NEW th \in Threads, thread[th].runs # {}, thread'[th].pc \in Working,
               \A t \in Threads : thread'[t].runs = thread[t].runs,
               \A t \in Threads : t # th => thread'[t] = thread[t]
        PROVE  Started'
    BY <2>1, <2>2
  <2>3. ASSUME NEW r \in Runs, Execute(r) PROVE Started'
    <3>1. PICK th \in Threads : Starts(th, r)
      BY <2>3 DEF Execute, StartThread, Starts
    <3> QED BY <2>1, <3>1, StartsType DEF Working
  <2>4. ASSUME NEW th \in Threads, NEW pc \in {"plan", "steps", "discard"},
               thread[th].pc \in Working, Continue(th, pc)
        PROVE  Started'
    <3>1. pc \in Phases /\ pc \in Working
      BY DEF Phases, Working
    <3>2. thread[th].runs # {}
      BY <2>4, NoThreadType DEF Started, Working
    <3> QED BY <2>2, <2>4, <3>1, <3>2, ContinueFacts
  <2>5. ASSUME NEW th \in Threads, NEW r \in thread[th].runs,
               StartPlanning(th, r) \/ Plan(th, r) \/ Finalize(th, r)
        PROVE  Started'
    BY <2>4, <2>5 DEF StartPlanning, Plan, Finalize, Working
  <2>6. ASSUME NEW th \in Threads, ExecutionRaises(th) PROVE Started'
    BY <2>4, <2>6 DEF ExecutionRaises, Working
  <2>7. ASSUME NEW th \in Threads, NEW r \in thread[th].runs, LoadRun(th, r) PROVE Started'
    BY <2>2, <2>7, LoadFacts DEF Working, TypeOK
  <2>8. ASSUME NEW th \in Threads, RunStep(th) PROVE Started'
    <3>1. thread[th].runs # {}
      BY <2>8, NoThreadType DEF Started, RunStep
    <3> QED BY <2>2, <2>8, <3>1, RunStepFacts DEF Working
  <2>9. ASSUME NEW th \in Threads, NEW r \in thread[th].runs, Discard(th, r) PROVE Started'
    BY <2>1, <2>9 DEF Discard, TypeOK
  <2>10. CASE Crash
    BY <2>1, <2>10 DEF Crash
  <2>11. CASE UNCHANGED vars \/ \E r \in Runs : SubmitIdea(r) \/ Asks(r) \/ Cancel(r)
    BY <2>1, <2>11 DEF vars, SubmitIdea, Asks, CheckStatus, AlreadyActive, Cancel
  <2> QED BY <2>3, <2>5, <2>6, <2>7, <2>8, <2>9, <2>10, <2>11 DEF Next, Asks, ThreadStep
<1> QED BY <1>1, <1>2, TypeCorrect, PTL DEF Spec

LEMMA NeverStuckHere ==
    ASSUME ExecInv, CopyInStep, Started
    PROVE  NeverStuck
<1> SUFFICES ASSUME NEW th \in Threads, thread[th] # NoThread
             PROVE  /\ \E r \in Runs : thread[th].runs = {r}
                    /\ thread[th].pc \in Working
                    /\ thread[th].pc = "steps" => StepsDone(th) \in 0..PlanSteps
  BY DEF NeverStuck
<1>1. thread[th].runs # {} /\ thread[th].pc \in Working
  BY DEF Started
<1>2. PICK r \in Runs : thread[th].runs = {r}
  BY <1>1 DEF ExecInv, OneRun
<1>3. ASSUME thread[th].pc = "steps" PROVE StepsDone(th) \in 0..PlanSteps
  <2>1. /\ thread[th].start = Len(steps[r])
        /\ Len(thread[th].steps) <= thread[th].start + PlanSteps
    BY <1>2, <1>3 DEF CopyInStep, InStep
  <2>2. Len(steps[r]) <= Len(thread[th].steps)
    BY <1>2, <1>3 DEF ExecInv, CopyExtends, Extends
  <2>3. /\ Len(thread[th].steps) \in Nat /\ thread[th].start \in Nat /\ PlanSteps \in Nat
    BY ExecutionAssumption DEF ExecInv, TypeOK
  <2> QED BY <2>1, <2>2, <2>3 DEF StepsDone
<1> QED BY <1>1, <1>2, <1>3

LEMMA LeftStep ==
    ASSUME ExecInv, CopyInStep, Started, [Next]_vars, NEW th \in Threads,
           thread[th] # NoThread, thread'[th] # thread[th]
    PROVE  LeftOf(thread'[th]) \in Nat /\ LeftOf(thread'[th]) < LeftOf(thread[th])
<1>1. /\ TypeOK /\ PlanSteps \in Nat
      /\ Len(thread[th].steps) \in Nat /\ thread[th].start \in Nat
  BY ExecutionAssumption DEF ExecInv, TypeOK
<1>2. thread[th].pc \in Working
  BY DEF Started
<1>3. thread[th].pc = "steps" => StepsDone(th) \in 0..PlanSteps
  BY NeverStuckHere DEF NeverStuck
\* What is left, phase by phase.
<1>4. /\ thread[th].pc = "load" => LeftOf(thread[th]) = PlanSteps + 5
      /\ thread[th].pc = "planning" => LeftOf(thread[th]) = PlanSteps + 4
      /\ thread[th].pc = "plan" => LeftOf(thread[th]) = PlanSteps + 3
      /\ thread[th].pc = "steps" => LeftOf(thread[th]) = PlanSteps + 2 - StepsDone(th)
      /\ thread[th].pc = "discard" => LeftOf(thread[th]) = 1
  BY DEF LeftOf, StepsDone
<1>5. LeftOf(thread[th]) \in Nat /\ LeftOf(thread[th]) >= 1
  BY <1>1, <1>2, <1>3, <1>4 DEF Working
<1>6. ASSUME thread'[th] = NoThread
      PROVE  LeftOf(thread'[th]) = 0
  BY <1>6, NoThreadType DEF LeftOf
<1>7. ASSUME NEW pc \in {"plan", "steps", "discard"}, Continue(th, pc),
             \/ thread[th].pc = "planning" /\ pc = "plan"
             \/ thread[th].pc = "plan" /\ pc = "steps"
             \/ thread[th].pc \in {"load", "planning", "plan", "steps"} /\ pc = "discard"
      PROVE  LeftOf(thread'[th]) \in Nat /\ LeftOf(thread'[th]) < LeftOf(thread[th])
  <2>1. /\ thread'[th].pc = pc
        /\ thread'[th].steps = thread[th].steps /\ thread'[th].start = thread[th].start
    BY <1>1, ContinueFacts, <1>7 DEF Phases
  <2>2. CASE pc = "discard"
    <3>1. LeftOf(thread'[th]) = 1
      BY <2>1, <2>2 DEF LeftOf
    <3>2. LeftOf(thread[th]) >= 2
      BY <1>1, <1>3, <1>4, <1>7, <2>2
    <3> QED BY <1>5, <3>1, <3>2
  <2>3. CASE pc = "plan"
    <3>1. LeftOf(thread'[th]) = PlanSteps + 3
      BY <2>1, <2>3 DEF LeftOf
    <3>2. LeftOf(thread[th]) = PlanSteps + 4
      BY <1>4, <1>7, <2>3
    <3> QED BY <1>1, <3>1, <3>2
  <2>4. CASE pc = "steps"
    <3>1. LeftOf(thread'[th]) = PlanSteps + 2 - (Len(thread[th].steps) - thread[th].start)
      BY <2>1, <2>4 DEF LeftOf
    <3>2. LeftOf(thread[th]) = PlanSteps + 3
      BY <1>4, <1>7, <2>4
    <3>3. Len(thread[th].steps) = thread[th].start
      <4>1. PICK r \in thread[th].runs : TRUE
        BY DEF Started
      <4>2. thread[th].steps = steps[r] /\ thread[th].start = Len(steps[r])
        BY <1>7, <2>4 DEF CopyInStep, InStep
      <4> QED BY <4>2
    <3>4. LeftOf(thread'[th]) = PlanSteps + 2
      BY <1>1, <3>1, <3>3
    <3> QED BY <1>1, <3>2, <3>4
  <2> QED BY <2>2, <2>3, <2>4
<1>8. ASSUME NEW t \in Threads, ThreadStep(t) \/ ExecutionRaises(t)
      PROVE  t = th
  <2>1. CASE Proceeds(t)
    BY <1>1, <2>1, ProceedsType
  <2>2. ASSUME NEW r \in thread[t].runs, Discard(t, r) PROVE t = th
    BY <1>1, <2>2, DiscardType
  <2> QED BY <1>1, <1>8, <2>1, <2>2, ThreadCases
<1>9. ASSUME NEW r \in Runs, SubmitIdea(r) \/ Asks(r) \/ Execute(r) \/ Cancel(r) PROVE FALSE
  <2>1. CASE Execute(r)
    <3>1. PICK t \in Threads : Starts(t, r)
      BY <2>1 DEF Execute, StartThread, Starts
    <3> QED BY <1>1, <3>1, StartsType DEF Starts
  <2> QED BY <1>9, <2>1 DEF SubmitIdea, Asks, CheckStatus, AlreadyActive, Cancel
<1>10. CASE ExecutionRaises(th)
  BY <1>7, <1>10 DEF ExecutionRaises
<1>11. CASE RunStep(th)
  <2>1. /\ thread'[th].pc = "steps" /\ thread'[th].start = thread[th].start
        /\ Len(thread'[th].steps) = Len(thread[th].steps) + 1
    BY <1>1, <1>11, RunStepFacts
  <2>2. LeftOf(thread'[th]) = PlanSteps + 2 - (Len(thread'[th].steps) - thread'[th].start)
    BY <2>1 DEF LeftOf
  <2>3. /\ Len(thread[th].steps) - thread[th].start < PlanSteps
        /\ LeftOf(thread[th]) = PlanSteps + 2 - (Len(thread[th].steps) - thread[th].start)
    BY <1>4, <1>11 DEF RunStep, StepsDone
  <2> DEFINE n == Len(thread[th].steps)
             m == thread[th].start
  <2>4. /\ LeftOf(thread'[th]) = PlanSteps + 2 - (n + 1 - m)
        /\ LeftOf(thread[th]) = PlanSteps + 2 - (n - m)
        /\ n - m < PlanSteps /\ n \in Nat /\ m \in Nat
    <3>1. n \in Nat /\ m \in Nat
      BY <1>1
    <3>2. n - m < PlanSteps /\ LeftOf(thread[th]) = PlanSteps + 2 - (n - m)
      BY <2>3
    <3>3. Len(thread'[th].steps) = n + 1 /\ thread'[th].start = m
      BY <2>1
    <3> HIDE DEF n, m
    <3>4. LeftOf(thread'[th]) = PlanSteps + 2 - (n + 1 - m)
      BY <1>1, <2>2, <3>1, <3>3
    <3> QED BY <3>1, <3>2, <3>4
  <2> HIDE DEF n, m
  <2> QED BY <1>1, <2>4
<1>12. ASSUME NEW r \in thread[th].runs, LoadRun(th, r)
       PROVE  LeftOf(thread'[th]) \in Nat /\ LeftOf(thread'[th]) < LeftOf(thread[th])
  <2>1. thread'[th].pc = "planning"
    BY <1>1, <1>12, LoadFacts DEF TypeOK
  <2>2. LeftOf(thread'[th]) = PlanSteps + 4
    BY <2>1 DEF LeftOf
  <2>3. LeftOf(thread[th]) = PlanSteps + 5
    BY <1>4, <1>12 DEF LoadRun
  <2> QED BY <1>1, <2>2, <2>3
<1>13. ASSUME NEW r \in thread[th].runs, StartPlanning(th, r) \/ Plan(th, r) \/ Finalize(th, r)
       PROVE  LeftOf(thread'[th]) \in Nat /\ LeftOf(thread'[th]) < LeftOf(thread[th])
  BY <1>7, <1>13 DEF StartPlanning, Plan, Finalize
<1>14. ASSUME NEW r \in thread[th].runs, Discard(th, r)
       PROVE  LeftOf(thread'[th]) \in Nat /\ LeftOf(thread'[th]) < LeftOf(thread[th])
  BY <1>1, <1>5, <1>6, <1>14 DEF Discard, TypeOK
<1>15. CASE Crash
  BY <1>5, <1>6, <1>15 DEF Crash
<1>16. CASE UNCHANGED vars
  BY <1>16 DEF vars
<1> QED BY <1>8, <1>9, <1>10, <1>11, <1>12, <1>13, <1>14, <1>15, <1>16 DEF Next, Asks, ThreadStep

(* The safety core of ExecutionEnds: a thread that was started always has  *)
(* an action it can take, and every step it takes, whatever is cancelled   *)
(* or fails meanwhile, leaves it fewer to take.                            *)
THEOREM ExecutionsWindDown == Spec => []NeverStuck /\ WindsDown
<1>1. ExecInv /\ CopyInStep /\ Started => NeverStuck
  BY NeverStuckHere
<1>2. ExecInv /\ CopyInStep /\ Started /\ [Next]_vars =>
        [\A th \in Threads :
            \/ thread[th] = NoThread
            \/ thread'[th] = thread[th]
            \/ LeftOf(thread'[th]) \in Nat /\ LeftOf(thread'[th]) < LeftOf(thread[th])]_vars
  BY LeftStep
<1> QED BY <1>1, <1>2, ExecInvariant, InStepInvariant, StartedInvariant, PTL DEF Spec, WindsDown
=============================================================================
