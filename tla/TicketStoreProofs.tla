------------------------- MODULE TicketStoreProofs -------------------------
(***************************************************************************)
(* Theorems about TicketStore, for any tickets and any bounds.             *)
(*                                                                         *)
(* The inductive invariant says what a connection that never rolls back    *)
(* may hold: outside a "dirty" transaction the view is what is on disk,    *)
(* inside one it is at most one legal move ahead of it, and the operation  *)
(* that holds the lock still satisfies the guard it checked.               *)
(***************************************************************************)
EXTENDS TicketStore, TLAPS

\* The operation's guard still holds when it reaches its write.
GuardHeld ==
    op.step \in {"chain", "row"} => op.to \in Lifecycle!Later(row[op.ticket])

\* Uncommitted writes exist only inside a "dirty" transaction.
CleanView == tx # "dirty" => row = diskRow /\ log = diskLog

WritesAreDirty == op.step \in {"log", "commit"} => tx = "dirty"

\* Only an operation that skipped the chain can write on top of leftovers.
ChainedIsClean ==
    op.step = "row" =>
        IF op.ref = 0 THEN op.to = "pending" /\ op.ticket \in CallerRef
                      ELSE tx # "dirty"

\* The view is at most one legal move ahead of the disk.
OneMoveAhead ==
    \A t \in Tickets : row[t] = diskRow[t] \/ row[t] \in Lifecycle!Later(diskRow[t])

StateInv ==
    TypeOK /\ GuardHeld /\ CleanView /\ WritesAreDirty /\ ChainedIsClean /\ OneMoveAhead

-----------------------------------------------------------------------------
LEMMA IdleType == Idle \in Operation /\ Idle.ticket = NoTicket /\ Idle.step = "idle"
BY DEF Idle, Operation, States

LEMMA TypeInit == Init => TypeOK
<1> SUFFICES ASSUME Init PROVE TypeOK
  OBVIOUS
<1>1. row \in [Tickets -> States] /\ log \in [Tickets -> Seq(LogEntry)]
  BY DEF Init, States
<1>2. chain \in Seq(ChainEntry) /\ tx \in TxStates /\ acked \in [Tickets -> SUBSET States]
  BY DEF Init, TxStates
<1>3. op \in Operation /\ ((op.ticket = NoTicket) <=> (op.step = "idle"))
  BY IdleType DEF Init
<1>4. 0 \in 0..MaxFaults /\ 0 \in 0..MaxCrashes
  BY StoreAssumption
<1> QED BY <1>1, <1>2, <1>3, <1>4 DEF Init, TypeOK

LEMMA TypeStep == TypeOK /\ [Next]_vars => TypeOK'
<1> SUFFICES ASSUME TypeOK, [Next]_vars PROVE TypeOK'
  OBVIOUS
<1> USE StoreAssumption, IdleType DEF TypeOK
<1>1. CASE Begin
  <2>1. \/ \E t \in Tickets : ResolveDenied(t) \/ SubmitAgain(t)
        \/ \E t \in Tickets, to \in States, step \in {"chain", "row"} : Start(t, to, step)
    BY <1>1 DEF Begin, Submit, Resolve, Withdraw, Escalate, States, Final, Decisions
  <2>2. CASE \E t \in Tickets : ResolveDenied(t) \/ SubmitAgain(t)
    BY <2>2 DEF ResolveDenied, SubmitAgain, view, disk, told
  <2>3. ASSUME NEW t \in Tickets, NEW to \in States, NEW step \in {"chain", "row"},
               Start(t, to, step)
        PROVE  TypeOK'
    BY <2>3 DEF Start, Operation, view, disk, told
  <2> QED BY <2>1, <2>2, <2>3
<1>2. CASE AppendChain
  <2>1. [ticket |-> op.ticket, to |-> op.to] \in ChainEntry
    BY <1>2 DEF AppendChain, Operation, ChainEntry
  <2>2. chain' \in Seq(ChainEntry)
    BY <1>2, <2>1 DEF AppendChain
  <2>3. Len(chain) + 1 \in Nat
    OBVIOUS
  <2>4. op' \in Operation /\ op'.ticket = op.ticket /\ op'.step = "row"
    BY <1>2, <2>3 DEF AppendChain, Operation
  <2>5. tx' \in TxStates
    BY <1>2 DEF AppendChain, TxStates
  <2> QED BY <1>2, <2>2, <2>4, <2>5 DEF AppendChain, view, disk, told
<1>3. CASE AppendRefused \/ AppendFails
  BY <1>3 DEF AppendRefused, AppendFails, Raise, view, disk, told
<1>4. CASE WriteRow
  BY <1>4 DEF WriteRow, Operation, TxStates, view, disk, told
<1>5. CASE WriteRowRefused \/ WriteRowFails
  BY <1>5 DEF WriteRowRefused, WriteRowFails, Raise, TxStates, view, disk, told
<1>6. CASE RecordEvent
  <2>1. op.ticket \in Tickets /\ [to |-> op.to, ref |-> op.ref] \in LogEntry
    BY <1>6 DEF RecordEvent, Operation, LogEntry
  <2>2. log' \in [Tickets -> Seq(LogEntry)]
    BY <1>6, <2>1 DEF RecordEvent
  <2> QED BY <1>6, <2>2 DEF RecordEvent, Operation, view, disk, told
<1>7. CASE Commit
  <2>1. op.ticket \in Tickets /\ op.to \in States
    BY <1>7 DEF Commit, Operation
  <2>2. acked' \in [Tickets -> SUBSET States]
    BY <1>7, <2>1 DEF Commit
  <2>3. row' = row /\ log' = log /\ diskRow' = row /\ diskLog' = log
    BY <1>7 DEF Commit, view
  <2> QED BY <1>7, <2>2, <2>3 DEF Commit, TxStates, told
<1>8. CASE WriteFails
  BY <1>8 DEF WriteFails, Raise, TxStates, view, disk, told
<1>9. CASE Crash
  <2>1. crashes' \in 0..MaxCrashes
    BY <1>9 DEF Crash
  <2>2. op' \in Operation /\ ((op'.ticket = NoTicket) <=> (op'.step = "idle"))
    BY <1>9 DEF Crash
  <2> QED BY <1>9, <2>1, <2>2 DEF Crash, TxStates, disk, told
<1>10. CASE UNCHANGED vars
  BY <1>10 DEF vars, told, view, disk
<1> QED BY <1>1, <1>2, <1>3, <1>4, <1>5, <1>6, <1>7, <1>8, <1>9, <1>10 DEF Next

(* Every variable keeps its type, the lock is held exactly while an        *)
(* operation runs, and the bounds are respected.                           *)
THEOREM TypeCorrect == Spec => []TypeOK
BY TypeInit, TypeStep, PTL DEF Spec

-----------------------------------------------------------------------------
LEMMA LaterFacts ==
    /\ \A s \in Lifecycle!States : Lifecycle!Later(s) \subseteq Lifecycle!States
    /\ \A s \in States : "absent" \notin Lifecycle!Later(s)
    /\ \A s \in States : "pending" \in Lifecycle!Later(s) => s = "absent"
    /\ \A s \in Final : Lifecycle!Later(s) = {}
    /\ Lifecycle!States = States /\ Lifecycle!Final = Final
BY DEF Lifecycle!Later, Lifecycle!States, Lifecycle!Final, Lifecycle!Decisions,
       States, Final, Decisions

(* Every operation starts with a legal move of the row it has read.        *)
LEMMA BeginIsLegal ==
    ASSUME TypeOK, Begin
    PROVE  \/ UNCHANGED <<view, disk, chain, tx, spineOpen, op, acked>>
           \/ /\ UNCHANGED <<view, disk, chain, tx, spineOpen, acked>>
              /\ op = Idle
              /\ op' \in Operation /\ op'.ref = 0 /\ op'.ticket \in Tickets
              /\ op'.to \in Lifecycle!Later(row[op'.ticket])
              /\ \/ op'.step = "chain"
                 \/ op'.step = "row" /\ op'.to = "pending" /\ op'.ticket \in CallerRef
<1> USE DEF States, Final, Decisions, Operation, TypeOK,
            Lifecycle!Later, Lifecycle!Final, Lifecycle!Decisions
<1>1. CASE \E t \in Tickets : Submit(t)
  BY <1>1 DEF Submit, Start
<1>2. CASE \E t \in Tickets : Withdraw(t) \/ Escalate(t)
  BY <1>2 DEF Withdraw, Escalate, Start
<1>3. CASE \E t \in Tickets : ResolveDenied(t) \/ SubmitAgain(t)
  BY <1>3 DEF ResolveDenied, SubmitAgain
<1>4. CASE \E t \in Tickets, d \in Decisions : Resolve(t, d)
  BY <1>4 DEF Resolve, Start
<1> QED BY <1>1, <1>2, <1>3, <1>4 DEF Begin

LEMMA StateInvariant == Spec => []StateInv
<1>1. Init => StateInv
  BY TypeInit DEF Init, StateInv, GuardHeld, CleanView, WritesAreDirty, ChainedIsClean,
                  OneMoveAhead, Idle
<1>2. StateInv /\ [Next]_vars => StateInv'
  <2> SUFFICES ASSUME StateInv, [Next]_vars PROVE StateInv'
    OBVIOUS
  <2> USE DEF StateInv
  <2>t. TypeOK'
    BY TypeStep
  <2> DEFINE Rest == GuardHeld /\ CleanView /\ WritesAreDirty /\ ChainedIsClean /\ OneMoveAhead
  <2> SUFFICES Rest'
    BY <2>t
  <2>1. CASE Begin
    BY <2>1, BeginIsLegal DEF GuardHeld, CleanView, WritesAreDirty, ChainedIsClean,
                              OneMoveAhead, view, disk
  <2>2. CASE AppendChain
    <3>1. Len(chain) + 1 # 0 /\ Len(chain) \in Nat
      BY DEF TypeOK
    <3> QED BY <2>2, <3>1 DEF AppendChain, TypeOK, Operation, GuardHeld, CleanView, WritesAreDirty, ChainedIsClean,
                        OneMoveAhead, view, disk
  <2>3. CASE AppendRefused \/ AppendFails
    BY <2>3 DEF AppendRefused, AppendFails, Raise, Idle, GuardHeld, CleanView, WritesAreDirty,
                ChainedIsClean, OneMoveAhead, view, disk
  <2>4. CASE WriteRow
    <3>1. op.ticket \in Tickets /\ op.to \in Lifecycle!Later(row[op.ticket])
      BY <2>4 DEF WriteRow, GuardHeld, TypeOK, Operation
    <3>2. OneMoveAhead'
      <4> SUFFICES ASSUME NEW t \in Tickets
                   PROVE  row'[t] = diskRow[t] \/ row'[t] \in Lifecycle!Later(diskRow[t])
        BY <2>4 DEF WriteRow, OneMoveAhead, disk
      <4>1. CASE t # op.ticket
        BY <2>4, <4>1 DEF WriteRow, OneMoveAhead, TypeOK
      <4>2. CASE t = op.ticket /\ tx # "dirty"
        BY <2>4, <3>1, <4>2 DEF WriteRow, CleanView, TypeOK
      <4>3. CASE t = op.ticket /\ tx = "dirty"
        <5>1. op.to = "pending" /\ row[t] = "absent"
          BY <2>4, <3>1, <4>3, LaterFacts DEF WriteRow, ChainedIsClean, TypeOK
        <5>2. diskRow[t] = "absent"
          BY <5>1, LaterFacts DEF OneMoveAhead, TypeOK
        <5> QED BY <2>4, <3>1, <4>3, <5>1, <5>2 DEF WriteRow, TypeOK
      <4> QED BY <4>1, <4>2, <4>3
    <3> QED BY <2>4, <3>2 DEF WriteRow, TypeOK, Operation, GuardHeld, CleanView,
                              WritesAreDirty, ChainedIsClean
  <2>5. CASE WriteRowRefused \/ WriteRowFails
    BY <2>5 DEF WriteRowRefused, WriteRowFails, Raise, Idle, GuardHeld, CleanView,
                WritesAreDirty, ChainedIsClean, OneMoveAhead, view, disk
  <2>6. CASE RecordEvent
    BY <2>6 DEF RecordEvent, TypeOK, Operation, GuardHeld, CleanView, WritesAreDirty,
                ChainedIsClean, OneMoveAhead, disk
  <2>7. CASE Commit
    BY <2>7 DEF Commit, Idle, GuardHeld, CleanView, WritesAreDirty, ChainedIsClean,
                OneMoveAhead, view
  <2>8. CASE WriteFails
    BY <2>8 DEF WriteFails, Raise, Idle, GuardHeld, CleanView, WritesAreDirty,
                ChainedIsClean, OneMoveAhead, view, disk
  <2>9. CASE Crash
    BY <2>9 DEF Crash, Idle, GuardHeld, CleanView, WritesAreDirty, ChainedIsClean,
                OneMoveAhead, disk
  <2>10. CASE UNCHANGED vars
    BY <2>10 DEF vars, told, view, disk, GuardHeld, CleanView, WritesAreDirty, ChainedIsClean,
                 OneMoveAhead
  <2> QED BY <2>1, <2>2, <2>3, <2>4, <2>5, <2>6, <2>7, <2>8, <2>9, <2>10 DEF Next
<1> QED BY <1>1, <1>2, PTL DEF Spec

(* What is committed is one lifecycle per ticket: every step of the store, *)
(* its failures and restarts included, is a legal move of TicketLifecycle  *)
(* or no move at all.                                                      *)
THEOREM StoreImplementsLifecycle == Spec => ImplementsLifecycle
<1>1. Init => Lifecycle!Init
  BY DEF Init, Lifecycle!Init
<1>2. StateInv /\ [Next]_vars => [Lifecycle!Next]_diskRow
  <2> SUFFICES ASSUME StateInv, [Next]_vars PROVE [Lifecycle!Next]_diskRow
    OBVIOUS
  <2>1. CASE Commit
    <3>1. diskRow' \in [Tickets -> Lifecycle!States]
      BY <2>1, LaterFacts DEF Commit, StateInv, TypeOK
    <3> QED BY <2>1, <3>1 DEF Commit, StateInv, OneMoveAhead, Lifecycle!Next
  <2>2. CASE ~Commit
    BY <2>2 DEF Next, vars, disk, Begin, Submit, Resolve, Withdraw, Escalate, Start,
                ResolveDenied, SubmitAgain, AppendChain, AppendRefused, AppendFails, WriteRow,
                WriteRowRefused, WriteRowFails, RecordEvent, WriteFails, Crash
  <2> QED BY <2>1, <2>2
<1> QED BY <1>1, <1>2, StateInvariant, PTL DEF Spec, ImplementsLifecycle, Lifecycle!Spec

(* What is on disk as decided stays so, whatever is asked, fails or        *)
(* restarts afterwards: FinalForever of TicketLifecycle, for its reader.   *)
THEOREM DecisionsAreKept == Spec => Lifecycle!FinalForever
<1>1. Lifecycle!Next =>
        \A t \in Tickets : diskRow[t] \in Lifecycle!Final => diskRow'[t] = diskRow[t]
  BY DEF Lifecycle!Next, Lifecycle!Later, Lifecycle!Final, Lifecycle!Decisions
<1>2. Lifecycle!Spec => Lifecycle!FinalForever
  BY <1>1, PTL DEF Lifecycle!Spec, Lifecycle!FinalForever
<1> QED BY <1>2, StoreImplementsLifecycle DEF ImplementsLifecycle

-----------------------------------------------------------------------------
(***************************************************************************)
(* The audit chain.  The entry appended for the running operation stays    *)
(* ahead of every reference the ticket's log holds, and a ticket that is   *)
(* absent has an empty log, so only a first event can lack an entry.       *)
(***************************************************************************)
EntryReady ==
    /\ op.step = "log" => row[op.ticket] # "absent"
    /\ op.step \in {"row", "log"} =>
           IF op.ref = 0
           THEN log[op.ticket] = <<>> /\ op.ticket \in CallerRef
           ELSE /\ op.ref \in DOMAIN chain
                /\ chain[op.ref] = [ticket |-> op.ticket, to |-> op.to]
                /\ \A j \in DOMAIN log[op.ticket] : log[op.ticket][j].ref < op.ref

AbsentIsEmpty ==
    \A t \in Tickets : /\ row[t] = "absent" => log[t] = <<>>
                       /\ diskRow[t] = "absent" => diskLog[t] = <<>>

AuditInv == StateInv /\ Audited(log) /\ Audited(diskLog) /\ EntryReady /\ AbsentIsEmpty

LEMMA ChainGrows ==
    ASSUME TypeOK, NEW e \in ChainEntry, chain' = Append(chain, e)
    PROVE  /\ Len(chain) \in Nat
           /\ DOMAIN chain = 1..Len(chain) /\ DOMAIN chain' = 1..(Len(chain) + 1)
           /\ \A k \in DOMAIN chain : chain'[k] = chain[k]
           /\ chain'[Len(chain) + 1] = e
BY DEF TypeOK

LEMMA LogGrows ==
    ASSUME NEW s \in Seq(LogEntry), NEW e \in LogEntry
    PROVE  /\ Len(s) \in Nat
           /\ DOMAIN s = 1..Len(s) /\ DOMAIN Append(s, e) = 1..(Len(s) + 1)
           /\ \A k \in DOMAIN s : Append(s, e)[k] = s[k]
           /\ Append(s, e)[Len(s) + 1] = e
OBVIOUS

LEMMA AuditInvariant == Spec => []AuditInv
<1>1. Init /\ StateInv => AuditInv
  BY DEF Init, AuditInv, Audited, Names, EntryReady, AbsentIsEmpty, Idle
<1>2. AuditInv /\ StateInv /\ StateInv' /\ [Next]_vars => AuditInv'
  <2> SUFFICES ASSUME AuditInv, StateInv, StateInv', [Next]_vars PROVE AuditInv'
    OBVIOUS
  <2> DEFINE Rest == Audited(log) /\ Audited(diskLog) /\ EntryReady /\ AbsentIsEmpty
  <2> SUFFICES Rest'
    BY DEF AuditInv
  <2>0. Rest /\ TypeOK
    BY DEF AuditInv, StateInv
  <2>i. op' = Idle => EntryReady'
    BY DEF EntryReady, Idle
  <2>l. ASSUME UNCHANGED <<log, chain>> PROVE Audited(log)'
    <3>1. Audited(log)
      BY <2>0
    <3>2. log' = log /\ chain' = chain
      BY <2>l
    <3> QED BY <3>1, <3>2 DEF Audited, Names
  <2>d. UNCHANGED <<diskLog, chain>> => Audited(diskLog)'
    BY <2>0 DEF Audited, Names
  <2>a. UNCHANGED <<view, disk>> => AbsentIsEmpty'
    BY <2>0 DEF AbsentIsEmpty, view, disk
  <2>1. CASE Begin
    <3>1. UNCHANGED <<view, disk, chain>>
      BY <2>0, <2>1, BeginIsLegal
    <3>2. EntryReady'
      BY <2>0, <2>1, BeginIsLegal, LaterFacts DEF EntryReady, AbsentIsEmpty, TypeOK, view, Operation
    <3> QED BY <2>0, <3>1, <3>2 DEF Audited, Names, AbsentIsEmpty, view, disk
  <2>2. CASE AppendChain
    <3> DEFINE e == [ticket |-> op.ticket, to |-> op.to]
    <3>1. e \in ChainEntry /\ op.ticket \in Tickets /\ Len(chain) + 1 # 0
      BY <2>0, <2>2 DEF AppendChain, TypeOK, Operation, ChainEntry
    <3>2. chain' = Append(chain, e) /\ log' = log /\ diskLog' = diskLog
          /\ row' = row /\ diskRow' = diskRow
      BY <2>2 DEF AppendChain, view, disk
    <3>g. /\ DOMAIN chain \subseteq DOMAIN chain' /\ Len(chain) + 1 \in DOMAIN chain'
          /\ \A k \in DOMAIN chain : chain'[k] = chain[k] /\ k < Len(chain) + 1
          /\ chain'[Len(chain) + 1] = e
      BY <2>0, <3>1, <3>2, ChainGrows
    <3>n. \A t \in Tickets : \A i \in DOMAIN log[t] : Names(log, t, i) => Names(log, t, i)'
      BY <3>2, <3>g DEF Names
    <3>d. \A t \in Tickets : \A i \in DOMAIN diskLog[t] :
              Names(diskLog, t, i) => Names(diskLog, t, i)'
      BY <3>2, <3>g DEF Names
    <3>3. Audited(log)' /\ Audited(diskLog)'
      BY <2>0, <3>2, <3>n, <3>d DEF Audited
    <3>4. op' = [op EXCEPT !.step = "row", !.ref = Len(chain) + 1]
      BY <2>2 DEF AppendChain
    <3>5. op'.ref = Len(chain) + 1 /\ op'.ticket = op.ticket /\ op'.to = op.to
      BY <2>0, <3>4 DEF TypeOK, Operation
    <3>r. \A j \in DOMAIN log[op.ticket] : log[op.ticket][j].ref < Len(chain) + 1
      <4> SUFFICES ASSUME NEW j \in DOMAIN log[op.ticket]
                   PROVE  log[op.ticket][j].ref < Len(chain) + 1
        OBVIOUS
      <4>1. Names(log, op.ticket, j) \/ log[op.ticket][j].ref = 0
        BY <2>0, <3>1 DEF Audited
      <4>2. 0 < Len(chain) + 1
        BY <2>0, <3>1, <3>2, ChainGrows
      <4> QED BY <4>1, <4>2, <3>g DEF Names
    <3>s. op'.step = "row"
      BY <2>0, <3>4 DEF TypeOK, Operation
    <3>6. EntryReady'
      BY <3>1, <3>2, <3>5, <3>g, <3>r, <3>s DEF EntryReady
    <3> QED BY <2>0, <3>2, <3>3, <3>6 DEF AbsentIsEmpty
  <2>3. CASE AppendRefused \/ AppendFails
    BY <2>3, <2>i, <2>l, <2>d, <2>a DEF AppendRefused, AppendFails, Raise, view, disk
  <2>4. CASE WriteRow
    <3>1. op.ticket \in Tickets /\ op.to # "absent"
      BY <2>4, LaterFacts DEF WriteRow, StateInv, GuardHeld, TypeOK, Operation
    <3>2. AbsentIsEmpty'
      BY <2>0, <2>4, <3>1 DEF WriteRow, AbsentIsEmpty, TypeOK, disk
    <3>3. /\ op'.ticket = op.ticket /\ op'.to = op.to /\ op'.ref = op.ref
          /\ row'[op.ticket] = op.to /\ op.step = "row"
      BY <2>0, <2>4, <3>1 DEF WriteRow, TypeOK, Operation
    <3>4. EntryReady'
      BY <2>0, <2>4, <3>1, <3>3 DEF WriteRow, EntryReady
    <3> QED BY <2>4, <2>l, <2>d, <3>2, <3>4 DEF WriteRow, disk
  <2>5. CASE WriteRowRefused \/ WriteRowFails
    BY <2>5, <2>i, <2>l, <2>d, <2>a DEF WriteRowRefused, WriteRowFails, Raise, view, disk
  <2>6. CASE RecordEvent
    <3> DEFINE e == [to |-> op.to, ref |-> op.ref]
    <3>1. op.ticket \in Tickets /\ e \in LogEntry /\ tx = "dirty" /\ op.step = "log"
      BY <2>6 DEF RecordEvent, StateInv, WritesAreDirty, TypeOK, Operation, LogEntry
    <3>2. /\ \A t \in Tickets : t # op.ticket => log'[t] = log[t]
          /\ log'[op.ticket] = Append(log[op.ticket], e)
      BY <2>0, <2>6, <3>1 DEF RecordEvent, TypeOK
    <3>3. /\ DOMAIN log'[op.ticket] = 1..(Len(log[op.ticket]) + 1)
          /\ DOMAIN log[op.ticket] = 1..Len(log[op.ticket])
          /\ \A i \in DOMAIN log[op.ticket] : log'[op.ticket][i] = log[op.ticket][i]
          /\ log'[op.ticket][Len(log[op.ticket]) + 1] = e
          /\ Len(log[op.ticket]) \in Nat
      BY <2>0, <3>1, <3>2, LogGrows DEF TypeOK
    <3>c. chain' = chain
      BY <2>6 DEF RecordEvent
    <3>n. \A t \in Tickets : \A i \in DOMAIN log[t] :
              (Names(log, t, i) => Names(log, t, i)') /\ log'[t][i] = log[t][i]
      <4> SUFFICES ASSUME NEW t \in Tickets, NEW i \in DOMAIN log[t]
                   PROVE  (Names(log, t, i) => Names(log, t, i)') /\ log'[t][i] = log[t][i]
        OBVIOUS
      <4>1. CASE t # op.ticket
        BY <3>2, <3>c, <4>1 DEF Names
      <4>2. CASE t = op.ticket
        <5>1. i \in 1..Len(log[op.ticket])
          BY <3>3, <4>2
        <5>2. \A j \in 1..(i - 1) : j \in DOMAIN log[op.ticket]
          BY <3>3, <5>1
        <5>3. /\ log'[t][i] = log[t][i]
              /\ \A j \in 1..(i - 1) : log'[t][j] = log[t][j]
          BY <3>3, <4>2, <5>1, <5>2
        <5> QED BY <3>c, <5>3 DEF Names
      <4> QED BY <4>1, <4>2
    <3> DEFINE top == Len(log[op.ticket]) + 1
    <3>w. \/ /\ e.ref \in DOMAIN chain
             /\ chain[e.ref] = [ticket |-> op.ticket, to |-> e.to]
             /\ \A j \in 1..(top - 1) : log'[op.ticket][j].ref < e.ref
          \/ top = 1 /\ e.ref = 0 /\ op.ticket \in CallerRef
      <4>1. CASE op.ref = 0
        BY <2>0, <3>1, <3>3, <4>1 DEF EntryReady
      <4>2. CASE op.ref # 0
        <5>1. /\ op.ref \in DOMAIN chain
              /\ chain[op.ref] = [ticket |-> op.ticket, to |-> op.to]
              /\ \A j \in DOMAIN log[op.ticket] : log[op.ticket][j].ref < op.ref
          BY <2>0, <3>1, <4>2 DEF EntryReady
        <5> QED BY <3>3, <5>1
      <4> QED BY <4>1, <4>2
    <3>4. Audited(log)'
      <4> SUFFICES ASSUME NEW t \in Tickets, NEW i \in DOMAIN log'[t]
                   PROVE  Names(log, t, i)'
                            \/ (i = 1 /\ log'[t][i].ref = 0 /\ t \in CallerRef)
        BY DEF Audited
      <4>1. CASE i \in DOMAIN log[t]
        <5>1. Names(log, t, i) \/ (i = 1 /\ log[t][i].ref = 0 /\ t \in CallerRef)
          BY <2>0, <4>1 DEF Audited
        <5> QED BY <3>n, <4>1, <5>1
      <4>2. CASE i \notin DOMAIN log[t]
        <5>1. t = op.ticket /\ i = top /\ log'[t][i] = e
          BY <3>1, <3>2, <3>3, <4>2
        <5>2. CASE top = 1 /\ e.ref = 0 /\ op.ticket \in CallerRef
          BY <5>1, <5>2
        <5>3. CASE /\ e.ref \in DOMAIN chain
                   /\ chain[e.ref] = [ticket |-> op.ticket, to |-> e.to]
                   /\ \A j \in 1..(top - 1) : log'[op.ticket][j].ref < e.ref
          <6>1. log'[t] = log'[op.ticket] /\ log'[t][i] = e
            BY <5>1
          <6> QED BY <3>c, <5>1, <5>3, <6>1 DEF Names
        <5> QED BY <3>w, <5>2, <5>3
      <4> QED BY <4>1, <4>2
    <3>5. row'[op.ticket] # "absent"
      BY <2>0, <2>6, <3>1 DEF RecordEvent, EntryReady
    <3>6. op'.step = "commit" /\ row' = row /\ diskRow' = diskRow /\ diskLog' = diskLog
      BY <2>0, <2>6 DEF RecordEvent, TypeOK, Operation, disk
    <3>7. Audited(diskLog)'
      BY <2>0, <3>6, <3>c DEF Audited, Names
    <3>8. AbsentIsEmpty'
      BY <2>0, <3>2, <3>5, <3>6 DEF AbsentIsEmpty
    <3> QED BY <3>4, <3>6, <3>7, <3>8 DEF EntryReady
  <2>7. CASE Commit
    BY <2>0, <2>7 DEF Commit, Idle, Audited, Names, EntryReady, AbsentIsEmpty, view
  <2>8. CASE WriteFails
    BY <2>0, <2>8 DEF WriteFails, Raise, Idle, Audited, Names, EntryReady, AbsentIsEmpty, view, disk
  <2>9. CASE Crash
    BY <2>0, <2>9 DEF Crash, Idle, Audited, Names, EntryReady, AbsentIsEmpty, disk
  <2>10. CASE UNCHANGED vars
    BY <2>0, <2>10 DEF vars, told, view, disk, Audited, Names, EntryReady, AbsentIsEmpty
  <2> QED BY <2>1, <2>2, <2>3, <2>4, <2>5, <2>6, <2>7, <2>8, <2>9, <2>10 DEF Next
<1>3. QED BY <1>1, <1>2, StateInvariant, PTL DEF Spec

(* Nothing reaches a ticket's committed event log before it is in the      *)
(* audit chain, for any tickets, any number of failures and restarts.      *)
THEOREM AuditNeverLags == Spec => []AuditBeforeState
BY AuditInvariant, PTL DEF AuditInv, AuditBeforeState

-----------------------------------------------------------------------------
(***************************************************************************)
(* The event log tells the state, as long as every submit appends to the   *)
(* chain: the chain's own commit is refused while leftovers of a failed    *)
(* operation are pending, so no later commit can publish them.             *)
(***************************************************************************)
Halfway ==
    /\ op.step = "log" => /\ row = [diskRow EXCEPT ![op.ticket] = op.to]
                          /\ log = diskLog
    /\ op.step = "commit" => Tells(row, log)

TellsInv == StateInv /\ Tells(diskRow, diskLog) /\ Halfway

LEMMA TellsInvariant ==
    ASSUME CallerRef = {}
    PROVE  Spec => []TellsInv
<1>1. Init /\ StateInv => TellsInv
  BY DEF Init, TellsInv, Tells, Halfway, Idle
<1>2. TellsInv /\ StateInv /\ StateInv' /\ [Next]_vars => TellsInv'
  <2> SUFFICES ASSUME TellsInv, StateInv, StateInv', [Next]_vars PROVE TellsInv'
    OBVIOUS
  <2>0. TypeOK /\ Tells(diskRow, diskLog) /\ Halfway
    BY DEF TellsInv, StateInv
  <2>i. op' = Idle => Halfway'
    BY DEF Halfway, Idle
  <2>d. UNCHANGED disk => Tells(diskRow, diskLog)'
    BY <2>0 DEF Tells, disk
  <2>s. Tells(diskRow, diskLog)' /\ Halfway' => TellsInv'
    BY DEF TellsInv
  <2>1. CASE Begin
    <3>1. op' = op \/ op'.step \in {"chain", "row"}
      BY <2>0, <2>1, BeginIsLegal
    <3>2. UNCHANGED <<row, log, disk>>
      BY <2>0, <2>1, BeginIsLegal DEF view
    <3> QED BY <2>0, <2>d, <2>s, <3>1, <3>2 DEF Halfway, Tells, disk
  <2>2. CASE AppendChain
    BY <2>0, <2>2, <2>d, <2>s DEF AppendChain, TypeOK, Operation, Halfway
  <2>3. CASE AppendRefused \/ AppendFails \/ WriteRowRefused \/ WriteRowFails
              \/ WriteFails \/ Crash
    BY <2>3, <2>i, <2>d, <2>s DEF AppendRefused, AppendFails, WriteRowRefused, WriteRowFails,
                                  WriteFails, Crash, Raise
  <2>4. CASE WriteRow
    <3>1. row = diskRow /\ log = diskLog
      BY <2>4 DEF WriteRow, StateInv, ChainedIsClean, CleanView
    <3>2. op'.step = "log" /\ op'.ticket = op.ticket /\ op'.to = op.to
      BY <2>0, <2>4 DEF WriteRow, TypeOK, Operation
    <3> QED BY <2>4, <2>d, <2>s, <3>1, <3>2 DEF WriteRow, Halfway, disk
  <2>5. CASE RecordEvent
    <3> DEFINE e == [to |-> op.to, ref |-> op.ref]
    <3>1. op.ticket \in Tickets /\ e \in LogEntry
      BY <2>0, <2>5 DEF RecordEvent, TypeOK, Operation, LogEntry
    <3>2. row = [diskRow EXCEPT ![op.ticket] = op.to] /\ log = diskLog
      BY <2>0, <2>5 DEF RecordEvent, Halfway
    <3>3. log' = [log EXCEPT ![op.ticket] = Append(log[op.ticket], e)] /\ row' = row
      BY <2>5 DEF RecordEvent
    <3>4. Tells(row, log)'
      <4> SUFFICES ASSUME NEW t \in Tickets
                   PROVE  row'[t] = IF log'[t] = <<>> THEN "absent"
                                    ELSE log'[t][Len(log'[t])].to
        BY DEF Tells
      <4>1. CASE t # op.ticket
        BY <2>0, <3>1, <3>2, <3>3, <4>1 DEF Tells, TypeOK
      <4>2. CASE t = op.ticket
        <5>1. log'[t] = Append(log[t], e) /\ log[t] \in Seq(LogEntry) /\ row'[t] = op.to
          BY <2>0, <3>1, <3>2, <3>3, <4>2 DEF TypeOK
        <5>2. Len(log'[t]) = Len(log[t]) + 1 /\ log'[t][Len(log[t]) + 1] = e /\ log'[t] # <<>>
          BY <3>1, <5>1
        <5> QED BY <5>1, <5>2
      <4> QED BY <4>1, <4>2
    <3>5. op'.step = "commit"
      BY <2>0, <2>5 DEF RecordEvent, TypeOK, Operation
    <3> QED BY <2>5, <2>d, <2>s, <3>4, <3>5 DEF RecordEvent, Halfway
  <2>6. CASE Commit
    <3>1. row' = row /\ log' = log /\ diskRow' = row /\ diskLog' = log /\ Tells(row, log)
      BY <2>0, <2>6 DEF Commit, Halfway, view
    <3> QED BY <2>6, <2>i, <2>s, <3>1 DEF Commit, Tells
  <2>7. CASE UNCHANGED vars
    BY <2>0, <2>7, <2>d, <2>s DEF vars, view, Halfway, Tells
  <2> QED BY <2>1, <2>2, <2>3, <2>4, <2>5, <2>6, <2>7 DEF Next
<1> QED BY <1>1, <1>2, StateInvariant, PTL DEF Spec

(* When every submit appends to the chain, no failure or restart leaves a  *)
(* ticket whose committed state its committed event log does not tell.     *)
THEOREM LogAlwaysTells ==
    ASSUME CallerRef = {}
    PROVE  Spec => []LogTellsState
<1>1. TellsInv => LogTellsState
  BY DEF TellsInv, LogTellsState, Tells
<1> QED BY <1>1, TellsInvariant, PTL

-----------------------------------------------------------------------------
(***************************************************************************)
(* What callers were told.  The view shows all that the disk shows, so a   *)
(* commit never takes an acknowledged event away.                          *)
(***************************************************************************)
Shows(l, t, s) == \E i \in DOMAIN l[t] : l[t][i].to = s

AckInv ==
    /\ \A t \in Tickets : \A s \in acked[t] : Shows(diskLog, t, s)
    /\ \A t \in Tickets, s \in States : Shows(diskLog, t, s) => Shows(log, t, s)
    /\ op.step = "commit" => Shows(log, op.ticket, op.to)

LEMMA AckStep == StateInv /\ AckInv /\ [Next]_vars => AckInv'
<1> SUFFICES ASSUME StateInv, AckInv, [Next]_vars PROVE AckInv'
  OBVIOUS
<1>0. TypeOK
  BY DEF StateInv
<1>k. ASSUME UNCHANGED acked, log' = log \/ log' = diskLog, UNCHANGED diskLog, op'.step # "commit"
      PROVE  AckInv'
  BY <1>k DEF AckInv, Shows
<1>1. CASE Begin
  <2>1. op' = op \/ op'.step \in {"chain", "row"}
    BY <1>0, <1>1, BeginIsLegal
  <2>2. UNCHANGED <<log, diskLog, acked>>
    BY <1>0, <1>1, BeginIsLegal DEF view, disk
  <2> QED BY <2>1, <2>2 DEF AckInv, Shows
<1>2. CASE AppendChain \/ WriteRow
  <2>1. op'.step # "commit" /\ UNCHANGED <<log, diskLog, acked>>
    BY <1>0, <1>2 DEF AppendChain, WriteRow, TypeOK, Operation, view, disk
  <2> QED BY <1>k, <2>1
<1>3. CASE \/ AppendRefused \/ AppendFails \/ WriteRowRefused \/ WriteRowFails
           \/ WriteFails \/ Crash
  <2>1. op' = Idle /\ (log' = log \/ log' = diskLog) /\ UNCHANGED <<diskLog, acked>>
    BY <1>3 DEF AppendRefused, AppendFails, WriteRowRefused, WriteRowFails, WriteFails, Crash,
                Raise, view, disk
  <2> QED BY <1>k, <2>1, IdleType
<1>4. CASE RecordEvent
  <2> DEFINE e == [to |-> op.to, ref |-> op.ref]
  <2>1. op.ticket \in Tickets /\ e \in LogEntry
    BY <1>0, <1>4 DEF RecordEvent, TypeOK, Operation, LogEntry
  <2>2. /\ log' = [log EXCEPT ![op.ticket] = Append(log[op.ticket], e)]
        /\ op'.ticket = op.ticket /\ op'.to = op.to /\ UNCHANGED <<diskLog, acked>>
    BY <1>0, <1>4 DEF RecordEvent, TypeOK, Operation, disk
  <2>3. /\ DOMAIN log'[op.ticket] = 1..(Len(log[op.ticket]) + 1) /\ Len(log[op.ticket]) \in Nat
        /\ DOMAIN log[op.ticket] = 1..Len(log[op.ticket])
        /\ \A i \in DOMAIN log[op.ticket] : log'[op.ticket][i] = log[op.ticket][i]
        /\ log'[op.ticket][Len(log[op.ticket]) + 1] = e
    BY <1>0, <2>1, <2>2, LogGrows DEF TypeOK
  <2>4. ASSUME NEW t \in Tickets, NEW s \in States, Shows(log, t, s)
        PROVE  Shows(log, t, s)'
    <3>1. CASE t # op.ticket
      BY <1>0, <2>2, <2>4, <3>1 DEF Shows, TypeOK
    <3>2. CASE t = op.ticket
      BY <2>3, <2>4, <3>2 DEF Shows
    <3> QED BY <3>1, <3>2
  <2>5. Shows(log, op.ticket, op.to)'
    <3>1. Len(log[op.ticket]) + 1 \in DOMAIN log'[op.ticket]
      BY <2>3
    <3>2. log'[op.ticket][Len(log[op.ticket]) + 1].to = op'.to
      BY <2>2, <2>3
    <3> QED BY <2>2, <3>1, <3>2 DEF Shows
  <2> QED BY <2>2, <2>4, <2>5 DEF AckInv, Shows
<1>5. CASE Commit
  <2>1. /\ log' = log /\ diskLog' = log /\ op' = Idle
        /\ acked' = [acked EXCEPT ![op.ticket] = @ \cup {op.to}]
        /\ op.step = "commit"
    BY <1>5 DEF Commit, view
  <2>2. ASSUME NEW t \in Tickets, NEW s \in acked'[t] PROVE Shows(log, t, s)
    <3>1. CASE s \in acked[t]
      BY <1>0, <3>1 DEF AckInv, TypeOK
    <3>2. CASE s \notin acked[t]
      <4>1. t = op.ticket /\ s = op.to
        BY <1>0, <2>1, <2>2, <3>2 DEF TypeOK
      <4> QED BY <2>1, <4>1 DEF AckInv
    <3> QED BY <3>1, <3>2
  <2> QED BY <2>1, <2>2, IdleType DEF AckInv, Shows
<1>6. CASE UNCHANGED vars
  BY <1>6 DEF vars, told, view, disk, AckInv, Shows
<1> QED BY <1>1, <1>2, <1>3, <1>4, <1>5, <1>6 DEF Next

-----------------------------------------------------------------------------
(***************************************************************************)
(* Answers of calls that change nothing.  While no statement fails, no     *)
(* operation leaves a transaction behind, so the row that resolve() or     *)
(* submit() reads is what is on disk.                                      *)
(***************************************************************************)
ToldInv ==
    faults = 0 =>
        /\ ~spineOpen
        /\ op.step \in {"idle", "chain", "row"} => tx = "none"
        /\ \A t \in denied : diskRow[t] \in Final
        /\ \A t \in resubmitted : diskRow[t] # "absent"

LEMMA ToldStep == StateInv /\ ToldInv /\ [Next]_vars => ToldInv'
<1> SUFFICES ASSUME StateInv, ToldInv, [Next]_vars, faults' = 0
             PROVE  /\ ~spineOpen'
                    /\ op'.step \in {"idle", "chain", "row"} => tx' = "none"
                    /\ \A t \in denied' : diskRow'[t] \in Final
                    /\ \A t \in resubmitted' : diskRow'[t] # "absent"
  BY DEF ToldInv
<1>0. TypeOK /\ faults \in Nat
  BY DEF StateInv, TypeOK
<1>1. faults = 0
  BY <1>0 DEF Next, Begin, Submit, Resolve, Withdraw, Escalate, Start, ResolveDenied, SubmitAgain,
              AppendChain, AppendRefused, AppendFails, WriteRow, WriteRowRefused, WriteRowFails,
              RecordEvent, Commit, WriteFails, Crash, vars
<1>2. /\ ~spineOpen /\ (op.step \in {"idle", "chain", "row"} => tx = "none")
      /\ \A t \in denied : diskRow[t] \in Final
      /\ \A t \in resubmitted : diskRow[t] # "absent"
  BY <1>1 DEF ToldInv
<1>3. CASE Begin
  <2>1. CASE \E t \in Tickets : ResolveDenied(t) \/ SubmitAgain(t)
    <3>1. row = diskRow /\ tx = "none"
      BY <1>2, <2>1, IdleType DEF ResolveDenied, SubmitAgain, StateInv, CleanView
    <3> QED BY <1>2, <2>1, <3>1 DEF ResolveDenied, SubmitAgain, disk
  <2>2. CASE ~\E t \in Tickets : ResolveDenied(t) \/ SubmitAgain(t)
    BY <1>2, <1>3, <2>2, IdleType DEF Begin, Submit, Resolve, Withdraw, Escalate, Start, disk, told
  <2> QED BY <2>1, <2>2
<1>4. CASE AppendChain \/ WriteRow \/ RecordEvent
  BY <1>0, <1>2, <1>4 DEF AppendChain, WriteRow, RecordEvent, TypeOK, Operation, disk, told
<1>5. CASE AppendRefused \/ WriteRowRefused
  BY <1>2, <1>5 DEF AppendRefused, WriteRowRefused
<1>6. CASE AppendFails \/ WriteRowFails \/ WriteFails
  BY <1>0, <1>1, <1>6 DEF AppendFails, WriteRowFails, WriteFails
<1>7. CASE Commit
  <2>1. /\ tx' = "none" /\ UNCHANGED <<spineOpen, denied, resubmitted>> /\ diskRow' = row
    BY <1>7 DEF Commit, told
  <2>2. ASSUME NEW t \in denied PROVE diskRow'[t] \in Final
    <3>1. t \in Tickets /\ diskRow[t] \in Final
      BY <1>0, <1>2, <2>2 DEF TypeOK
    <3> QED BY <2>1, <3>1, LaterFacts DEF StateInv, OneMoveAhead
  <2>3. ASSUME NEW t \in resubmitted PROVE diskRow'[t] # "absent"
    <3>1. t \in Tickets /\ diskRow[t] # "absent" /\ diskRow[t] \in States
      BY <1>0, <1>2, <2>3 DEF TypeOK
    <3> QED BY <2>1, <3>1, LaterFacts DEF StateInv, OneMoveAhead
  <2> QED BY <1>2, <2>1, <2>2, <2>3
<1>8. CASE Crash
  BY <1>2, <1>8 DEF Crash, disk, told
<1>9. CASE UNCHANGED vars
  BY <1>2, <1>9 DEF vars, disk, told
<1> QED BY <1>3, <1>4, <1>5, <1>6, <1>7, <1>8, <1>9 DEF Next

(* What a caller was told happened is in the committed event log for good, *)
(* for any tickets, any number of failures and restarts; and as long as no *)
(* statement fails, a submit that found the row answered for a ticket that *)
(* is on disk.                                                             *)
THEOREM AcksAreDurable == Spec => []AckDurable
<1>1. Init => AckInv
  BY IdleType DEF Init, AckInv, Shows
<1>2. Init => ToldInv
  BY DEF Init, ToldInv
<1>3. AckInv /\ ToldInv => AckDurable
  BY DEF AckInv, ToldInv, AckDurable, Shows
<1> QED BY <1>1, <1>2, <1>3, AckStep, ToldStep, StateInvariant, PTL DEF Spec

(* As long as no statement fails, resolve() denies only what is final on   *)
(* disk, whatever operations and restarts come between.                    *)
THEOREM DenialsAreFinal == Spec => []DeniedIsFinal
<1>1. Init => ToldInv
  BY DEF Init, ToldInv
<1>2. ToldInv => DeniedIsFinal
  BY DEF ToldInv, DeniedIsFinal
<1> QED BY <1>1, <1>2, ToldStep, StateInvariant, PTL DEF Spec
-----------------------------------------------------------------------------
(* An operation that has appended to the chain has outdated the snapshot   *)
(* its SELECT took: it never reaches its write in a transaction that is    *)
(* merely open.                                                            *)
Outdated == op.step = "row" /\ op.ref # 0 => tx # "open"

LEMMA OutdatedInvariant == Spec => []Outdated
<1>1. Init => Outdated
  BY DEF Init, Idle, Outdated
<1>2. StateInv /\ Outdated /\ [Next]_vars => Outdated'
  <2> SUFFICES ASSUME StateInv, Outdated, [Next]_vars PROVE Outdated'
    OBVIOUS
  <2>0. TypeOK
    BY DEF StateInv
  <2>1. CASE Begin
    BY <2>0, <2>1, BeginIsLegal DEF Outdated
  <2>2. CASE AppendChain
    BY <2>2 DEF AppendChain, Outdated
  <2>3. CASE AppendRefused \/ AppendFails \/ WriteRowRefused \/ WriteRowFails \/ WriteFails \/ Crash
    BY <2>3 DEF AppendRefused, AppendFails, WriteRowRefused, WriteRowFails, WriteFails, Crash,
                Raise, Idle, Outdated
  <2>4. CASE WriteRow \/ Commit
    BY <2>4 DEF WriteRow, Commit, Idle, Outdated
  <2>5. CASE RecordEvent
    BY <2>0, <2>5 DEF RecordEvent, TypeOK, Operation, Outdated
  <2>6. CASE UNCHANGED vars
    BY <2>6 DEF vars, Outdated
  <2> QED BY <2>1, <2>2, <2>3, <2>4, <2>5, <2>6 DEF Next
<1> QED BY <1>1, <1>2, StateInvariant, PTL DEF Spec

(* One refused UPDATE stops every later decision: from then on nothing is  *)
(* committed, and only a restart, or a submit that skips the chain before  *)
(* any operation that does not, ends it.                                   *)
THEOREM WedgeLasts == Spec => WedgedUntilRestart
<1> DEFINE Stuck == /\ UNCHANGED disk
                    /\ Wedged' \/ crashes' > crashes \/ (op.step = "row" /\ op.ref = 0)
<1>1. StateInv /\ Outdated /\ [Next]_vars => [Wedged => Stuck]_vars
  <2> SUFFICES ASSUME StateInv, Outdated, Next, Wedged PROVE Stuck
    OBVIOUS
  <2>0. TypeOK /\ op.step \notin {"log", "commit"}
    BY DEF StateInv, WritesAreDirty, Wedged
  <2>1. CASE Begin
    <3>1. UNCHANGED <<disk, tx>>
      BY <2>0, <2>1, BeginIsLegal
    <3> QED BY <3>1 DEF Wedged
  <2>2. CASE AppendChain \/ AppendRefused \/ AppendFails
    BY <2>2 DEF AppendChain, AppendRefused, AppendFails, Wedged
  <2>3. CASE WriteRow
    BY <2>3 DEF WriteRow, Wedged, Outdated
  <2>4. CASE WriteRowRefused \/ WriteRowFails
    BY <2>4 DEF WriteRowRefused, WriteRowFails, Wedged
  <2>5. CASE RecordEvent \/ Commit \/ WriteFails
    BY <2>0, <2>5 DEF RecordEvent, Commit, WriteFails
  <2>6. CASE Crash
    <3>1. crashes' > crashes
      BY <2>0, <2>6, StoreAssumption DEF Crash, TypeOK
    <3> QED BY <2>6, <3>1 DEF Crash
  <2> QED BY <2>1, <2>2, <2>3, <2>4, <2>5, <2>6 DEF Next
<1> QED BY <1>1, StateInvariant, OutdatedInvariant, PTL DEF Spec, WedgedUntilRestart
=============================================================================
