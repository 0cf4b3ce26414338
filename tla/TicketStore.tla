---------------------------- MODULE TicketStore ----------------------------
(***************************************************************************)
(* governance/ticket.py's TicketStore and the audit chain it writes to     *)
(* (governance/audit_chain.py over governance/evidence_spine.py).          *)
(*                                                                         *)
(* The two live in one SQLite file behind two connections.  An operation   *)
(* holds the store's lock while it                                         *)
(*    1. reads the ticket and checks its guard,                            *)
(*    2. appends to the chain, which commits on the chain's connection,    *)
(*    3. writes the ticket row,                                            *)
(*    4. records the event in governance_ticket_events, and                *)
(*    5. commits on its own connection,                                    *)
(* so a failure between two of these leaves the two logs apart.  Neither   *)
(* class ever rolls back: a failed statement leaves its connection inside  *)
(* a transaction, which is what tx and spineOpen record.                   *)
(***************************************************************************)
EXTENDS Naturals, Sequences

CONSTANTS
    Tickets,      \* ticket_id values
    CallerRef,    \* tickets submitted with a caller's audit_chain_ref
    NoTicket,     \* op.ticket while no operation is running
    MaxChain,     \* bound on the entries of the chain
    MaxFaults,    \* bound on the statements SQLite refuses
    MaxCrashes    \* bound on the process restarts

ASSUME StoreAssumption ==
    /\ CallerRef \subseteq Tickets
    /\ NoTicket \notin Tickets
    /\ MaxChain \in Nat /\ MaxFaults \in Nat /\ MaxCrashes \in Nat

VARIABLES
    row,          \* governance_tickets.state as the store's connection sees it
    log,          \* governance_ticket_events of each ticket, same view
    diskRow,      \* row, as committed
    diskLog,      \* log, as committed
    chain,        \* spine_entries, committed, in sequence_num order
    tx,           \* the store connection's transaction
    spineOpen,    \* the chain's connection was left inside BEGIN IMMEDIATE
    op,           \* the operation holding the store's lock
    acked,        \* acked[t]: the states a True answer reported for t
    denied,       \* tickets resolve() answered False for, as already final
    resubmitted,  \* tickets submit() answered for, as already there
    faults, crashes

vars == <<row, log, diskRow, diskLog, chain, tx, spineOpen, op, acked, denied,
          resubmitted, faults, crashes>>

disk == <<diskRow, diskLog>>
view == <<row, log>>
told == <<denied, resubmitted>>

Decisions == {"approved", "rejected", "expired"}
Final     == Decisions \cup {"withdrawn"}
States    == {"absent", "pending", "escalated"} \cup Final

ChainEntry == [ticket : Tickets, to : States]
LogEntry   == [to : States, ref : Nat]   \* ref: the entry of the chain, 0 for a caller's

(***************************************************************************)
(* "none": autocommit.  "open": an UPDATE was refused and its implicit     *)
(* BEGIN not undone, so the next SELECT pins a snapshot.  "stale": someone *)
(* committed since that SELECT.  "dirty": there are uncommitted writes, so *)
(* this connection holds the file's write lock.                            *)
(***************************************************************************)
TxStates == {"none", "open", "stale", "dirty"}

Operation == [step   : {"idle", "chain", "row", "log", "commit"},
              ticket : Tickets \cup {NoTicket},
              to     : States,
              ref    : Nat]

Idle == [step |-> "idle", ticket |-> NoTicket, to |-> "absent", ref |-> 0]

TypeOK ==
    /\ row \in [Tickets -> States] /\ diskRow \in [Tickets -> States]
    /\ log \in [Tickets -> Seq(LogEntry)] /\ diskLog \in [Tickets -> Seq(LogEntry)]
    /\ chain \in Seq(ChainEntry)
    /\ tx \in TxStates /\ spineOpen \in BOOLEAN
    /\ op \in Operation
    /\ (op.ticket = NoTicket) <=> (op.step = "idle")
    /\ acked \in [Tickets -> SUBSET States]
    /\ denied \subseteq Tickets /\ resubmitted \subseteq Tickets
    /\ faults \in 0..MaxFaults /\ crashes \in 0..MaxCrashes

Init ==
    /\ row = [t \in Tickets |-> "absent"] /\ diskRow = row
    /\ log = [t \in Tickets |-> <<>>] /\ diskLog = log
    /\ chain = <<>>
    /\ tx = "none" /\ spineOpen = FALSE
    /\ op = Idle
    /\ acked = [t \in Tickets |-> {}] /\ denied = {} /\ resubmitted = {}
    /\ faults = 0 /\ crashes = 0

-----------------------------------------------------------------------------
(* Step 1: take the lock, read the row, check the guard.                   *)

Start(t, to, step) ==
    /\ op = Idle
    /\ step = "chain" => Len(chain) < MaxChain
    /\ op' = [step |-> step, ticket |-> t, to |-> to, ref |-> 0]
    /\ UNCHANGED <<view, disk, chain, tx, spineOpen, acked, told, faults, crashes>>

Submit(t) ==
    /\ row[t] = "absent"
    /\ Start(t, "pending", IF t \in CallerRef THEN "row" ELSE "chain")

\* submit() of a ticket it reads a row of: answers its id, changes nothing.
SubmitAgain(t) ==
    /\ op = Idle
    /\ row[t] # "absent"
    /\ resubmitted' = resubmitted \cup {t}
    /\ UNCHANGED <<view, disk, chain, tx, spineOpen, op, acked, denied, faults, crashes>>

\* Mutant: a final ticket can be resolved again.
ResolveAgain(t, decision) ==
    /\ row[t] # "absent"
    /\ Start(t, decision, "chain")

Resolve(t, decision) ==
    /\ row[t] \in {"pending", "escalated"}
    /\ Start(t, decision, "chain")

Withdraw(t) ==
    /\ row[t] = "pending"
    /\ Start(t, "withdrawn", "chain")

Escalate(t) ==
    /\ row[t] \in {"pending", "escalated"}
    /\ Start(t, "escalated", "chain")

\* Mutant: resolve takes an escalated ticket for a final one.
ResolvePendingOnly(t) ==
    /\ op = Idle
    /\ row[t] \notin {"absent", "pending"}
    /\ denied' = denied \cup {t}
    /\ UNCHANGED <<view, disk, chain, tx, spineOpen, op, acked, resubmitted, faults, crashes>>

\* resolve() of a ticket it reads as final: answers False, changes nothing.
ResolveDenied(t) ==
    /\ op = Idle
    /\ row[t] \in Final
    /\ denied' = denied \cup {t}
    /\ UNCHANGED <<view, disk, chain, tx, spineOpen, op, acked, resubmitted, faults, crashes>>

-----------------------------------------------------------------------------
(* Step 2: the chain append.  Its commit outdates the snapshot that the    *)
(* SELECT of step 1 took inside an open transaction.                       *)

\* Mutant: the exception leaves the lock held for its ticket.
RaiseHoldingTicket == op' = [op EXCEPT !.step = "idle"]

Raise == op' = Idle     \* the exception leaves the with block: lock released

AppendChain ==
    /\ op.step = "chain"
    /\ tx # "dirty" /\ ~spineOpen
    /\ chain' = Append(chain, [ticket |-> op.ticket, to |-> op.to])
    /\ tx' = IF tx = "open" THEN "stale" ELSE tx
    /\ op' = [op EXCEPT !.step = "row", !.ref = Len(chain) + 1]
    /\ UNCHANGED <<view, disk, spineOpen, acked, told, faults, crashes>>

\* BEGIN IMMEDIATE: "database is locked" when the store's own connection holds
\* the write lock, "cannot start a transaction" when the last one is still open.
AppendRefused ==
    /\ op.step = "chain"
    /\ tx = "dirty" \/ spineOpen
    /\ Raise
    /\ UNCHANGED <<view, disk, chain, tx, spineOpen, acked, told, faults, crashes>>

\* Mutant: a failed append is swallowed and the operation goes on without it.
AppendSwallowed ==
    /\ op.step = "chain"
    /\ tx # "dirty" /\ ~spineOpen
    /\ faults < MaxFaults /\ faults' = faults + 1
    /\ spineOpen' \in BOOLEAN
    /\ op' = [op EXCEPT !.step = "row"]
    /\ UNCHANGED <<view, disk, chain, tx, acked, told, crashes>>

\* The BEGIN is refused (lock held elsewhere past the timeout), or a later
\* statement is and the transaction stays open.
AppendFails ==
    /\ op.step = "chain"
    /\ tx # "dirty" /\ ~spineOpen
    /\ faults < MaxFaults /\ faults' = faults + 1
    /\ spineOpen' \in BOOLEAN
    /\ Raise
    /\ UNCHANGED <<view, disk, chain, tx, acked, told, crashes>>

-----------------------------------------------------------------------------
(* Steps 3 to 5: the store's own transaction.                              *)

\* Mutant: a snapshot that is out of date does not stop the write.
WriteRowUnchecked ==
    /\ op.step = "row"
    /\ ~spineOpen
    /\ row' = [row EXCEPT ![op.ticket] = op.to]
    /\ tx' = "dirty"
    /\ op' = [op EXCEPT !.step = "log"]
    /\ UNCHANGED <<log, disk, chain, spineOpen, acked, told, faults, crashes>>

\* A snapshot that is out of date cannot be upgraded to a write.
WriteRow ==
    /\ op.step = "row"
    /\ ~spineOpen
    /\ tx # "stale"
    /\ row' = [row EXCEPT ![op.ticket] = op.to]
    /\ tx' = "dirty"
    /\ op' = [op EXCEPT !.step = "log"]
    /\ UNCHANGED <<log, disk, chain, spineOpen, acked, told, faults, crashes>>

\* "database is locked" for a snapshot that is out of date, or for the write
\* lock the chain's connection kept.
WriteRowRefused ==
    /\ op.step = "row"
    /\ tx = "stale" \/ (spineOpen /\ tx # "dirty")
    /\ tx' = IF tx = "stale" THEN "stale" ELSE "open"
    /\ Raise
    /\ UNCHANGED <<view, disk, chain, spineOpen, acked, told, faults, crashes>>

\* The same error from another writer of the shared file.
WriteRowFails ==
    /\ op.step = "row"
    /\ tx # "dirty"
    /\ faults < MaxFaults /\ faults' = faults + 1
    /\ tx' = IF tx = "none" THEN "open" ELSE "stale"
    /\ Raise
    /\ UNCHANGED <<view, disk, chain, spineOpen, acked, told, crashes>>

RecordEvent ==
    /\ op.step = "log"
    /\ log' = [log EXCEPT ![op.ticket] = Append(@, [to |-> op.to, ref |-> op.ref])]
    /\ op' = [op EXCEPT !.step = "commit"]
    /\ UNCHANGED <<row, disk, chain, tx, spineOpen, acked, told, faults, crashes>>

\* Mutant: True is answered with the transaction left to the next commit.
CommitLater ==
    /\ op.step = "commit"
    /\ acked' = [acked EXCEPT ![op.ticket] = @ \cup {op.to}]
    /\ op' = Idle
    /\ UNCHANGED <<view, disk, chain, tx, spineOpen, told, faults, crashes>>

\* Mutant: the row is committed before its event.
CommitRowOnly ==
    /\ op.step = "commit"
    /\ diskRow' = row /\ diskLog' = diskLog
    /\ tx' = "none"
    /\ acked' = [acked EXCEPT ![op.ticket] = @ \cup {op.to}]
    /\ op' = Idle
    /\ UNCHANGED <<view, chain, spineOpen, told, faults, crashes>>

Commit ==
    /\ op.step = "commit"
    /\ diskRow' = row /\ diskLog' = log
    /\ tx' = "none"
    /\ acked' = [acked EXCEPT ![op.ticket] = @ \cup {op.to}]
    /\ op' = Idle
    /\ UNCHANGED <<view, chain, spineOpen, told, faults, crashes>>

\* The event's INSERT or the COMMIT fails (full disk, I/O error): SQLite either
\* abandons the whole transaction or leaves it open, with what it already wrote.
WriteFails ==
    /\ op.step \in {"log", "commit"}
    /\ faults < MaxFaults /\ faults' = faults + 1
    /\ \/ UNCHANGED <<view, tx>>
       \/ row' = diskRow /\ log' = diskLog /\ tx' = "none"
    /\ Raise
    /\ UNCHANGED <<disk, chain, spineOpen, acked, told, crashes>>

-----------------------------------------------------------------------------
(* The process dies and restarts: what was not committed is gone, and so   *)
(* are the connections and their transactions.                             *)
Crash ==
    /\ crashes < MaxCrashes /\ crashes' = crashes + 1
    /\ row' = diskRow /\ log' = diskLog
    /\ tx' = "none" /\ spineOpen' = FALSE
    /\ op' = Idle
    /\ UNCHANGED <<disk, chain, acked, told, faults>>

Begin ==
    \E t \in Tickets :
        \/ Submit(t) \/ SubmitAgain(t) \/ Withdraw(t) \/ Escalate(t) \/ ResolveDenied(t)
        \/ \E d \in Decisions : Resolve(t, d)

Next ==
    \/ Begin
    \/ AppendChain \/ AppendRefused \/ AppendFails
    \/ WriteRow \/ WriteRowRefused \/ WriteRowFails
    \/ RecordEvent \/ Commit \/ WriteFails
    \/ Crash

Spec == Init /\ [][Next]_vars
-----------------------------------------------------------------------------
\* The i-th event of l[t] names an entry of the chain about this ticket and
\* this transition, later than those of the events before it.
Names(l, t, i) ==
    /\ l[t][i].ref \in DOMAIN chain
    /\ chain[l[t][i].ref] = [ticket |-> t, to |-> l[t][i].to]
    /\ \A j \in 1..(i - 1) : l[t][j].ref < l[t][i].ref

\* Only the first event of a ticket submitted with a caller's audit_chain_ref
\* names no entry of the chain.
Audited(l) ==
    \A t \in Tickets : \A i \in DOMAIN l[t] :
        Names(l, t, i) \/ (i = 1 /\ l[t][i].ref = 0 /\ t \in CallerRef)

(* The audit chain never lags behind the store: every event committed to a *)
(* ticket's log was in the chain first, whatever failed or restarted.      *)
AuditBeforeState == Audited(diskLog)

(* What a caller was told it did is on disk and in the log, whatever       *)
(* failed or crashed since: an operation answers only after its commit.    *)
(* The answer of a submit that did nothing, because there was a row, is    *)
(* only as good as that row: as long as no statement fails, the ticket is  *)
(* on disk (a failed commit leaves rows that are read, not kept).          *)
AckDurable ==
    /\ \A t \in Tickets : \A s \in acked[t] :
         \E i \in DOMAIN diskLog[t] : diskLog[t][i].to = s
    /\ faults = 0 => \A t \in resubmitted : diskRow[t] # "absent"

\* The rows r are what the last events of the logs l say.
Tells(r, l) ==
    \A t \in Tickets : r[t] = IF l[t] = <<>> THEN "absent" ELSE l[t][Len(l[t])].to

(* The event log alone tells the ticket's state, so the append-only history *)
(* a reader of /tickets/{id}/events gets never contradicts the ticket.  Of *)
(* the failures, only one followed by a submit that appends nothing to the *)
(* chain breaks it: that submit commits the row another one left behind.   *)
LogTellsState ==
    (faults = 0 \/ \A t \in CallerRef : diskRow[t] = "absent") => Tells(diskRow, diskLog)

(* resolve() answers False only about a decision that is really final: as  *)
(* long as no statement fails, a restart does not bring the denied ticket  *)
(* back as pending (a failed commit leaves rows that are read, not kept).  *)
DeniedIsFinal == faults = 0 => \A t \in denied : diskRow[t] \in Final

(* Every submitted ticket has its "submitted" entry in the chain           *)
(* (audit_chain.py: "Every TicketStore.submit/... appends to this chain"). *)
EverySubmitChained ==
    \A t \in Tickets : diskRow[t] # "absent" =>
        \E i \in DOMAIN chain : chain[i] = [ticket |-> t, to |-> "pending"]

(* One refused UPDATE stops every later decision: without a rollback each  *)
(* operation appends to the chain, outdates its own snapshot by that, and  *)
(* fails.  Only a restart helps, or a submit that skips the chain and      *)
(* comes before any operation that does not.                               *)
Wedged == tx \in {"open", "stale"}

WedgedUntilRestart ==
    [][Wedged => /\ UNCHANGED disk
                 /\ Wedged' \/ crashes' > crashes \/ (op.step = "row" /\ op.ref = 0)]_vars

(* The store implements the promise of TicketLifecycle for what is         *)
(* committed: one legal move at a time, and a final decision stays.        *)
Lifecycle == INSTANCE TicketLifecycle WITH state <- diskRow

ImplementsLifecycle == Lifecycle!Spec
=============================================================================
