---------------------------- MODULE AutonomyLoop ----------------------------
(***************************************************************************)
(* autonomy/stage_machine.py's AutonomyStageMachine: the phase loop of a   *)
(* project.  advance and steer hold the machine's lock while they          *)
(*    1. submit a governance ticket (for D2 and above, and every steer),   *)
(*    2. append to the audit chain,                                        *)
(*    3. insert the transition and commit, and                             *)
(*    4. update the phase and commit again;                                *)
(* a failure of 1 or 2 is logged and the transition goes on without, the   *)
(* process may die between any two of them, and SQLite may refuse 3, 4 or  *)
(* the write of record_event while another connection to the same file has *)
(* the write lock.  A refused statement raises with its transaction left   *)
(* open (tx); the next SELECT then pins a snapshot, and once another       *)
(* connection commits, the machine can write no more until it is           *)
(* restarted.  A COMMIT that is refused is not modelled.                   *)
(***************************************************************************)
EXTENDS Naturals, Sequences, FiniteSets

CONSTANTS
    Projects,         \* project_id values
    Threshold,        \* event_threshold
    MaxEvents,        \* bound on the events of a project
    MaxTransitions,   \* bound on the transitions of a project
    MaxFaults,        \* bound on the calls that fail and are only logged
    MaxRefusals,      \* bound on the statements of the machine SQLite refuses
    MaxCrashes        \* bound on the restarts

ASSUME LoopAssumption ==
    /\ Threshold \in Nat \ {0}
    /\ MaxEvents \in Nat /\ MaxTransitions \in Nat
    /\ MaxFaults \in Nat /\ MaxRefusals \in Nat /\ MaxCrashes \in Nat

VARIABLES
    phase,      \* autonomy_phase_state.phase, observe for a project without a row
    events,     \* event_count; counts beyond the threshold are not told apart
    log,        \* autonomy_transitions of each project, in the order committed
    op,         \* the transition holding the lock
    recorded,   \* recorded[p]: all the events recorded for p so far
    tx,         \* the machine's connection: no transaction, one left open, one left
                \* open whose snapshot is out of date
    cut,        \* cut[p]: the transitions of p committed without their phase
    faults, refusals, crashes

vars == <<phase, events, log, op, recorded, tx, cut, faults, refusals, crashes>>

Phases == {"observe", "propose", "simulate", "execute_low_risk", "escalate", "review"}

\* D2 stands for D2 to D5, which no line tells apart.
Classes   == {"D0", "D1", "D2"}
Ticketing == {"D2"}                     \* _TICKET_TRIGGERING_CLASSES

Transition == [from : Phases, to : Phases, class : Classes, steered : BOOLEAN,
               ticket : BOOLEAN, audit : BOOLEAN]

\* ticket and audit: ticket_id and audit_entry_id are not NULL.
Steps == {"ticket", "audit", "persist", "update"}
Idle  == [step |-> "idle", projects |-> {}]

TypeOK ==
    /\ phase \in [Projects -> Phases]
    /\ events \in [Projects -> 0..Threshold]
    /\ log \in [Projects -> Seq(Transition)]
    /\ op \in {Idle} \cup [step : Steps, projects : {{p} : p \in Projects},
                           move : Transition]
    /\ recorded \in [Projects -> 0..MaxEvents]
    /\ tx \in {"none", "open", "stale"}
    /\ cut \in [Projects -> Nat]
    /\ faults \in 0..MaxFaults /\ refusals \in 0..MaxRefusals /\ crashes \in 0..MaxCrashes

Init ==
    /\ phase = [p \in Projects |-> "observe"]
    /\ events = [p \in Projects |-> 0]
    /\ log = [p \in Projects |-> <<>>]
    /\ op = Idle
    /\ recorded = [p \in Projects |-> 0]
    /\ tx = "none"
    /\ cut = [p \in Projects |-> 0]
    /\ faults = 0 /\ refusals = 0 /\ crashes = 0

-----------------------------------------------------------------------------
\* Mutant: the loop ends in a phase that is none of AutonomyPhase.
NextThenIdle(s) ==
    CASE s = "observe"  -> "propose"
      [] s = "propose"  -> "simulate"
      [] s = "simulate" -> "execute_low_risk"
      [] s = "escalate" -> "review"
      [] OTHER          -> "idle"

\* Mutant: a low-risk execution ends in an escalation, as the diagram has it.
NextInOrder(s) ==
    CASE s = "observe"          -> "propose"
      [] s = "propose"          -> "simulate"
      [] s = "simulate"         -> "execute_low_risk"
      [] s = "execute_low_risk" -> "escalate"
      [] s = "escalate"         -> "review"
      [] s = "review"           -> "observe"

\* _NEXT_PHASE
NextPhase(s) ==
    CASE s = "observe"          -> "propose"
      [] s = "propose"          -> "simulate"
      [] s = "simulate"         -> "execute_low_risk"
      [] s = "execute_low_risk" -> "observe"
      [] s = "escalate"         -> "review"
      [] s = "review"           -> "observe"

(* The machine's own connection.                                           *)

\* A write statement and the COMMIT after it, which ends a transaction left open.
Commits ==
    /\ tx # "stale"
    /\ tx' = "none"
    /\ UNCHANGED refusals

\* The statement raises: "database is locked".
Refuses ==
    \/ tx = "stale" /\ UNCHANGED <<tx, refusals>>
    \/ tx # "stale" /\ tx' = "open" /\ refusals < MaxRefusals /\ refusals' = refusals + 1

\* Any reader of the machine pins a snapshot, and another connection commits.
Outdate ==
    /\ tx = "open" /\ tx' = "stale"
    /\ UNCHANGED <<phase, events, log, op, recorded, cut, faults, refusals, crashes>>

\* The store or the chain commits in the middle of a transition, which has
\* read the phase of its project.
CommitsElsewhere(done) == tx' = IF done /\ tx = "open" THEN "stale" ELSE tx

-----------------------------------------------------------------------------
RecordEvent(p) ==
    /\ op = Idle
    /\ Commits
    /\ recorded[p] < MaxEvents
    /\ recorded' = [recorded EXCEPT ![p] = @ + 1]
    /\ events' = [events EXCEPT ![p] = IF @ < Threshold THEN @ + 1 ELSE @]
    /\ UNCHANGED <<phase, log, op, cut, faults, crashes>>

RecordRefused ==
    /\ op = Idle
    /\ Refuses
    /\ UNCHANGED <<phase, events, log, op, recorded, cut, faults, crashes>>

Begin(p, to, class, steered) ==
    /\ op = Idle
    /\ Len(log[p]) < MaxTransitions
    /\ op' = [step |-> "ticket", projects |-> {p},
              move |-> [from |-> phase[p], to |-> to, class |-> class,
                        steered |-> steered, ticket |-> FALSE, audit |-> FALSE]]
    /\ UNCHANGED <<phase, events, log, recorded, tx, cut, faults, refusals, crashes>>

Advance(p, class) ==
    /\ phase[p] = "observe" => events[p] >= Threshold
    /\ Begin(p, IF class \in Ticketing THEN "escalate" ELSE NextPhase(phase[p]),
             class, FALSE)

Steer(p, to) == Begin(p, to, "D2", TRUE)

-----------------------------------------------------------------------------
\* A call that may fail: the result is TRUE, or FALSE and a warning.
Attempt(result) ==
    \/ result = TRUE /\ UNCHANGED faults
    \/ result = FALSE /\ faults < MaxFaults /\ faults' = faults + 1

\* Mutant: a steer submits no ticket.
SubmitUnlessSteered ==
    /\ op.step = "ticket"
    /\ \E done \in BOOLEAN :
        /\ IF op.move.class \in Ticketing /\ ~op.move.steered
           THEN Attempt(done) ELSE ~done /\ UNCHANGED faults
        /\ op' = [op EXCEPT !.step = "audit", !.move.ticket = done]
        /\ CommitsElsewhere(done)
    /\ UNCHANGED <<phase, events, log, recorded, cut, refusals, crashes>>

SubmitTicket ==
    /\ op.step = "ticket"
    /\ \E done \in BOOLEAN :
        /\ IF op.move.class \in Ticketing \/ op.move.steered
           THEN Attempt(done) ELSE ~done /\ UNCHANGED faults
        /\ op' = [op EXCEPT !.step = "audit", !.move.ticket = done]
        /\ CommitsElsewhere(done)
    /\ UNCHANGED <<phase, events, log, recorded, cut, refusals, crashes>>

AppendAudit ==
    /\ op.step = "audit"
    /\ \E done \in BOOLEAN :
        /\ Attempt(done)
        /\ op' = [op EXCEPT !.step = "persist", !.move.audit = done]
        /\ CommitsElsewhere(done)
    /\ UNCHANGED <<phase, events, log, recorded, cut, refusals, crashes>>

\* Mutant: the phase is written before the transition it belongs to is.
PersistUnlogged ==
    /\ op.step = "persist"
    /\ Commits
    /\ UNCHANGED log
    /\ op' = [op EXCEPT !.step = "update"]
    /\ UNCHANGED <<phase, events, recorded, cut, faults, crashes>>

PersistTransition ==
    /\ op.step = "persist"
    /\ Commits
    /\ \E p \in op.projects : log' = [log EXCEPT ![p] = Append(@, op.move)]
    /\ op' = [op EXCEPT !.step = "update"]
    /\ UNCHANGED <<phase, events, recorded, cut, faults, crashes>>

\* The INSERT raises out of advance or steer: ticket and audit entry stay.
PersistRefused ==
    /\ op.step = "persist"
    /\ Refuses
    /\ op' = Idle
    /\ UNCHANGED <<phase, events, log, recorded, cut, faults, crashes>>

\* Mutant: the counter survives the transition.
UpdateKeepingEvents ==
    /\ op.step = "update"
    /\ Commits
    /\ \E p \in op.projects : phase' = [phase EXCEPT ![p] = op.move.to]
    /\ op' = Idle
    /\ UNCHANGED <<events, log, recorded, cut, faults, crashes>>

UpdatePhase ==
    /\ op.step = "update"
    /\ Commits
    /\ \E p \in op.projects :
        /\ phase' = [phase EXCEPT ![p] = op.move.to]
        /\ events' = IF op.move.steered \/ op.move.to # op.move.from
                     THEN [events EXCEPT ![p] = 0] ELSE events
    /\ op' = Idle
    /\ UNCHANGED <<log, recorded, cut, faults, crashes>>

\* cut of the project whose transition is in the log, when its phase is lost.
CutAfter == [p \in Projects |-> IF op.step = "update" /\ p \in op.projects
                                THEN cut[p] + 1 ELSE cut[p]]

\* The transition is committed, but phase and events stay what they were.
UpdateRefused ==
    /\ op.step = "update"
    /\ Refuses
    /\ cut' = CutAfter
    /\ op' = Idle
    /\ UNCHANGED <<phase, events, log, recorded, faults, crashes>>

Crash ==
    /\ crashes < MaxCrashes /\ crashes' = crashes + 1
    /\ cut' = CutAfter
    /\ op' = Idle
    /\ tx' = "none"
    /\ UNCHANGED <<phase, events, log, recorded, faults, refusals>>

Next ==
    \/ \E p \in Projects :
        \/ RecordEvent(p)
        \/ \E class \in Classes : Advance(p, class)
        \/ \E to \in Phases : Steer(p, to)
    \/ SubmitTicket \/ AppendAudit \/ PersistTransition \/ UpdatePhase
    \/ RecordRefused \/ PersistRefused \/ UpdateRefused
    \/ Outdate
    \/ Crash

Spec == Init /\ [][Next]_vars
-----------------------------------------------------------------------------
Last(p) == log[p][Len(log[p])]

(* The log and the phase never drift apart by more than one transition:    *)
(* each transition starts where the one before it ended or, when that one  *)
(* was cut off between its two commits, where it had started.  A project   *)
(* none of whose transitions was cut off, by a restart or by a refused     *)
(* statement, is in the phase its last transition leads to.                *)
LogWithinOne ==
    \A p \in Projects :
        /\ \A k \in 2..Len(log[p]) :
             log[p][k].from \in {log[p][k - 1].to, log[p][k - 1].from}
        /\ log[p] = <<>> => phase[p] = "observe"
        /\ log[p] # <<>> =>
             /\ phase[p] \in {Last(p).to, Last(p).from}
             /\ cut[p] = 0 /\ op.step # "update" => phase[p] = Last(p).to

\* The last entry into escalate before entry k was decided, and the project
\* stayed there until k.
StaysEscalated(p, k) ==
    \E j \in 1..(k - 1) :
        /\ log[p][j].to = "escalate" /\ log[p][j].class \in Ticketing
        /\ \A i \in (j + 1)..k : log[p][i].from = "escalate"

(* stage_machine.py: escalate and review "are reachable only via D2+       *)
(* decisions or explicit operator steer".  Each entry to escalate is such  *)
(* a decision itself; each entry to review is one, or leaves the very stay *)
(* in escalate that one began.  (A steer is recorded as D2.)               *)
EscalationIsDecided ==
    \A p \in Projects : \A k \in 1..Len(log[p]) :
        log[p][k].to \in {"escalate", "review"} =>
            \/ log[p][k].class \in Ticketing
            \/ log[p][k].to = "review" /\ StaysEscalated(p, k)

(* Each time the loop leaves observe on its own it has used up a threshold *)
(* of events of its own, except after a transition whose phase was lost    *)
(* between the two commits, to a restart or to a refused statement: each   *)
(* lets the loop leave once more on the same events.                       *)
CyclesAreEarned ==
    \A p \in Projects :
        LET left == {k \in 1..Len(log[p]) : log[p][k].from = "observe" /\ ~log[p][k].steered}
        IN  Threshold * Cardinality(left) <= recorded[p] + Threshold * cut[p]

(* There are never more transitions without the ticket they need, and      *)
(* without an audit entry, than calls to the store and the chain failed:   *)
(* no path but a failed call leaves one out.                               *)
MissingIsFailed ==
    \A p \in Projects :
        LET lost == {k \in 1..Len(log[p]) : log[p][k].class \in Ticketing /\ ~log[p][k].ticket}
            dark == {k \in 1..Len(log[p]) : ~log[p][k].audit}
        IN  Cardinality(lost) + Cardinality(dark) <= faults
=============================================================================
