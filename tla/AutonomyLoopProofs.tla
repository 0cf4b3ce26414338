------------------------- MODULE AutonomyLoopProofs -------------------------
(***************************************************************************)
(* Safety theorems about AutonomyLoop, for any projects and bounds.        *)
(*                                                                         *)
(* The transition under way starts at the phase the project is in, for the *)
(* lock keeps others away (MoveInv).  Log and phase then differ by at most *)
(* the last transition (DriftInv), which is what a restart or a refused    *)
(* statement between the two commits leaves behind for good.               *)
(***************************************************************************)
EXTENDS AutonomyLoop, FiniteSetTheorems, TLAPS

Ops == [step : Steps, projects : {{p} : p \in Projects}, move : Transition]

\* Project p has a transition under way.
Moving(p) == op # Idle /\ p \in op.projects

Decides(m) == m.class \in Ticketing \/ m.to = NextPhase(m.from)
Leaves(m)  == m.from = "observe" /\ ~m.steered

MoveInv ==
    \A p \in Projects : Moving(p) =>
        /\ op.move.from = phase[p]
        /\ Decides(op.move)
        /\ op.step = "update" => log[p] # <<>> /\ Last(p) = op.move
        /\ Leaves(op.move) => events[p] >= Threshold /\ op.move.to # "observe"

DriftInv ==
    \A p \in Projects :
        /\ \A k \in 2..Len(log[p]) :
             log[p][k].from \in {log[p][k - 1].to, log[p][k - 1].from}
        /\ log[p] = <<>> => phase[p] = "observe"
        /\ log[p] # <<>> =>
             /\ phase[p] \in {Last(p).to, Last(p).from}
             /\ cut[p] = 0 /\ ~(Moving(p) /\ op.step = "update") => phase[p] = Last(p).to

LoopInv == TypeOK /\ MoveInv /\ DriftInv
-----------------------------------------------------------------------------
(* Shapes of a step.                                                       *)

LEMMA OpFacts ==
    ASSUME TypeOK
    PROVE  /\ op = Idle \/ op \in Ops
           /\ Idle.step = "idle" /\ Idle.projects = {}
           /\ op # Idle <=> op \in Ops
           /\ op \in Ops => op.step \in Steps /\ op.move \in Transition
                            /\ \E p \in Projects : op.projects = {p}
<1>1. op \in {Idle} \cup Ops
      BY DEF TypeOK, Ops
<1>2. Idle.step = "idle" /\ Idle.projects = {} /\ "idle" \notin Steps
      BY DEF Idle, Steps
<1> QED BY <1>1, <1>2 DEF Ops

LEMMA NextPhaseIs ==
    \A s \in Phases : NextPhase(s) \in Phases /\ (NextPhase(s) = "review" => s = "escalate")
                      /\ NextPhase(s) # "escalate" /\ (s = "observe" => NextPhase(s) # "observe")
BY DEF NextPhase, Phases

LEMMA BeginStep ==
    ASSUME TypeOK, NEW p \in Projects, NEW to \in Phases, NEW class \in Classes,
           NEW steered \in BOOLEAN, Begin(p, to, class, steered)
    PROVE  /\ op = Idle /\ op' \in Ops /\ op'.step = "ticket" /\ op'.projects = {p}
           /\ op'.move.from = phase[p] /\ op'.move.to = to /\ op'.move.class = class
           /\ op'.move.steered = steered
           /\ UNCHANGED <<phase, events, log, recorded, faults, cut>>
<1> DEFINE m == [from |-> phase[p], to |-> to, class |-> class,
                 steered |-> steered, ticket |-> FALSE, audit |-> FALSE]
<1>1. m \in Transition /\ m.from = phase[p] /\ m.to = to /\ m.class = class /\ m.steered = steered
      BY DEF TypeOK, Transition
<1>2. op = Idle /\ op' = [step |-> "ticket", projects |-> {p}, move |-> m]
      BY DEF Begin
<1> HIDE DEF m
<1>3. op' \in Ops /\ op'.step = "ticket" /\ op'.projects = {p} /\ op'.move = m
      BY <1>1, <1>2 DEF Ops, Steps
<1> QED BY <1>1, <1>2, <1>3 DEF Begin

\* The transition under way goes on: its ticket, its audit entry, its insert.
GoesOn(m) ==
    /\ op \in Ops /\ op' \in Ops /\ op'.projects = op.projects /\ op'.move = m
    /\ m \in Transition /\ m.from = op.move.from /\ m.to = op.move.to
    /\ m.class = op.move.class /\ m.steered = op.move.steered

LEMMA SubmitStep ==
    ASSUME TypeOK, SubmitTicket
    PROVE  /\ GoesOn(op'.move) /\ op.step = "ticket" /\ op'.step = "audit"
           /\ UNCHANGED <<phase, events, log, recorded, cut>>
           /\ faults' \in {faults, faults + 1} /\ faults' \in 0..MaxFaults
           /\ op'.move.class \in Ticketing /\ ~op'.move.ticket => faults' = faults + 1
<1>1. op \in Ops /\ op.step = "ticket"
      BY OpFacts DEF SubmitTicket
<1>2. PICK done \in BOOLEAN :
        /\ IF op.move.class \in Ticketing \/ op.move.steered
           THEN Attempt(done) ELSE ~done /\ UNCHANGED faults
        /\ op' = [op EXCEPT !.step = "audit", !.move.ticket = done]
      BY DEF SubmitTicket
<1> DEFINE m == [op.move EXCEPT !.ticket = done]
<1>3. /\ m \in Transition /\ m.from = op.move.from /\ m.to = op.move.to
      /\ m.class = op.move.class /\ m.steered = op.move.steered /\ m.ticket = done
      BY <1>1 DEF Ops, Transition
<1>4. op' = [op EXCEPT !.step = "audit", !.move = m]
      BY <1>2
<1> HIDE DEF m
<1>5. op' \in Ops /\ op'.step = "audit" /\ op'.projects = op.projects /\ op'.move = m
      BY <1>1, <1>3, <1>4 DEF Ops, Steps
<1>6. faults' \in {faults, faults + 1} /\ faults' \in 0..MaxFaults
      BY <1>2, LoopAssumption DEF Attempt, TypeOK
<1>7. m.class \in Ticketing /\ ~m.ticket => faults' = faults + 1
      BY <1>2, <1>3 DEF Attempt
<1> QED BY <1>1, <1>3, <1>5, <1>6, <1>7 DEF GoesOn, SubmitTicket

LEMMA AuditStep ==
    ASSUME TypeOK, AppendAudit
    PROVE  /\ GoesOn(op'.move) /\ op.step = "audit" /\ op'.step = "persist"
           /\ UNCHANGED <<phase, events, log, recorded, cut>>
           /\ faults' \in {faults, faults + 1} /\ faults' \in 0..MaxFaults
           /\ op'.move.ticket = op.move.ticket
           /\ ~op'.move.audit => faults' = faults + 1
<1>1. op \in Ops /\ op.step = "audit"
      BY OpFacts DEF AppendAudit
<1>2. PICK done \in BOOLEAN :
        Attempt(done) /\ op' = [op EXCEPT !.step = "persist", !.move.audit = done]
      BY DEF AppendAudit
<1> DEFINE m == [op.move EXCEPT !.audit = done]
<1>3. /\ m \in Transition /\ m.from = op.move.from /\ m.to = op.move.to
      /\ m.class = op.move.class /\ m.steered = op.move.steered /\ m.audit = done
      /\ m.ticket = op.move.ticket
      BY <1>1 DEF Ops, Transition
<1>4. op' = [op EXCEPT !.step = "persist", !.move = m]
      BY <1>2
<1> HIDE DEF m
<1>5. op' \in Ops /\ op'.step = "persist" /\ op'.projects = op.projects /\ op'.move = m
      BY <1>1, <1>3, <1>4 DEF Ops, Steps
<1>6. faults' \in {faults, faults + 1} /\ faults' \in 0..MaxFaults
      BY <1>2, LoopAssumption DEF Attempt, TypeOK
<1>7. ~m.audit => faults' = faults + 1
      BY <1>2, <1>3 DEF Attempt
<1> QED BY <1>1, <1>3, <1>5, <1>6, <1>7 DEF GoesOn, AppendAudit

\* What Append does to a log.
LEMMA AppendFacts ==
    ASSUME NEW s \in Seq(Transition), NEW m \in Transition
    PROVE  /\ Append(s, m) \in Seq(Transition) /\ Append(s, m) # <<>>
           /\ Len(Append(s, m)) = Len(s) + 1 /\ Len(s) \in Nat
           /\ \A k \in 1..Len(s) : Append(s, m)[k] = s[k]
           /\ Append(s, m)[Len(s) + 1] = m
OBVIOUS

LEMMA PersistStep ==
    ASSUME TypeOK, PersistTransition
    PROVE  /\ GoesOn(op.move) /\ op.step = "persist" /\ op'.step = "update"
           /\ UNCHANGED <<phase, events, recorded, faults, cut>>
           /\ log' \in [Projects -> Seq(Transition)]
           /\ \A p \in Projects :
                log'[p] = IF p \in op.projects THEN Append(log[p], op.move) ELSE log[p]
<1>1. op \in Ops /\ op.step = "persist" /\ op.move \in Transition /\ log \in [Projects -> Seq(Transition)]
      BY OpFacts DEF PersistTransition, TypeOK
<1>2. PICK p \in Projects : op.projects = {p}
      BY <1>1, OpFacts
<1>3. log' = [log EXCEPT ![p] = Append(log[p], op.move)] /\ op' = [op EXCEPT !.step = "update"]
      BY <1>2 DEF PersistTransition
<1>4. op' \in Ops /\ op'.step = "update" /\ op'.projects = op.projects /\ op'.move = op.move
      BY <1>1, <1>3 DEF Ops, Steps
<1>5. Append(log[p], op.move) \in Seq(Transition)
      BY <1>1, AppendFacts
<1> QED BY <1>1, <1>2, <1>3, <1>4, <1>5 DEF GoesOn, PersistTransition

LEMMA UpdateStep ==
    ASSUME TypeOK, UpdatePhase
    PROVE  /\ op \in Ops /\ op.step = "update" /\ op' = Idle /\ UNCHANGED <<log, recorded, faults, cut>>
           /\ phase' \in [Projects -> Phases] /\ events' \in [Projects -> 0..Threshold]
           /\ \A p \in Projects :
                /\ phase'[p] = IF p \in op.projects THEN op.move.to ELSE phase[p]
                /\ events'[p] = IF p \in op.projects /\ (op.move.steered \/ op.move.to # op.move.from)
                                THEN 0 ELSE events[p]
<1>1. op \in Ops /\ op.step = "update" /\ op.move.to \in Phases
      BY OpFacts DEF UpdatePhase, Transition
<1>2. PICK p \in Projects : op.projects = {p}
      BY <1>1, OpFacts
<1>3. /\ phase' = [phase EXCEPT ![p] = op.move.to]
      /\ events' = IF op.move.steered \/ op.move.to # op.move.from
                   THEN [events EXCEPT ![p] = 0] ELSE events
      BY <1>2 DEF UpdatePhase
<1> QED BY <1>1, <1>2, <1>3, LoopAssumption DEF UpdatePhase, TypeOK

LEMMA RecordStep ==
    ASSUME TypeOK, NEW p \in Projects, RecordEvent(p)
    PROVE  /\ op = Idle /\ UNCHANGED <<phase, log, op, faults, cut>>
           /\ events' \in [Projects -> 0..Threshold] /\ recorded' \in [Projects -> 0..MaxEvents]
           /\ recorded'[p] = recorded[p] + 1 /\ events'[p] \in {events[p], events[p] + 1}
           /\ \A q \in Projects : q # p => recorded'[q] = recorded[q] /\ events'[q] = events[q]
BY LoopAssumption DEF RecordEvent, TypeOK

\* A refused statement, or a commit elsewhere: nothing but the connection.
Rests == UNCHANGED <<phase, events, log, op, recorded, cut, faults>>

\* The transition under way is given up, its phase too if it was committed.
Drops == /\ op' = Idle /\ cut' = CutAfter
         /\ UNCHANGED <<phase, events, log, recorded, faults>>

LEMMA DropStep ==
    ASSUME TypeOK, PersistRefused \/ UpdateRefused \/ Crash
    PROVE  Drops
<1>1. CASE PersistRefused
  <2>1. CutAfter = cut
        BY <1>1 DEF PersistRefused, CutAfter, TypeOK
  <2> QED BY <1>1, <2>1 DEF PersistRefused, Drops
<1>2. CASE UpdateRefused \/ Crash
      BY <1>2 DEF UpdateRefused, Crash, Drops
<1> QED BY <1>1, <1>2

LEMMA CutFacts ==
    ASSUME TypeOK, Drops
    PROVE  /\ cut' \in [Projects -> Nat]
           /\ \A p \in Projects :
                cut'[p] = IF op.step = "update" /\ p \in op.projects THEN cut[p] + 1 ELSE cut[p]
BY DEF Drops, CutAfter, TypeOK

LEMMA ConnectionType ==
    ASSUME TypeOK, [Next]_vars
    PROVE  /\ tx' \in {"none", "open", "stale"} /\ refusals' \in 0..MaxRefusals
           /\ crashes' \in 0..MaxCrashes
<1>t. /\ tx \in {"none", "open", "stale"} /\ refusals \in 0..MaxRefusals
      /\ crashes \in 0..MaxCrashes
      BY DEF TypeOK
<1>1. Commits \/ Refuses \/ UNCHANGED <<tx, refusals>> =>
        tx' \in {"none", "open", "stale"} /\ refusals' \in 0..MaxRefusals
      BY <1>t, LoopAssumption DEF Commits, Refuses
<1>2. CASE \E p \in Projects : RecordEvent(p)
      BY <1>1, <1>2, <1>t DEF RecordEvent
<1>3. CASE \E p \in Projects : \/ \E class \in Classes : Advance(p, class)
                               \/ \E to \in Phases : Steer(p, to)
      BY <1>3, <1>t DEF Advance, Steer, Begin
<1>4. CASE SubmitTicket \/ AppendAudit
      BY <1>4, <1>t DEF SubmitTicket, AppendAudit, CommitsElsewhere
<1>5. CASE PersistTransition \/ UpdatePhase
      BY <1>1, <1>5, <1>t DEF PersistTransition, UpdatePhase
<1>6. CASE RecordRefused \/ PersistRefused \/ UpdateRefused
      BY <1>1, <1>6, <1>t DEF RecordRefused, PersistRefused, UpdateRefused
<1>7. CASE Outdate \/ Crash
      BY <1>7, <1>t, LoopAssumption DEF Outdate, Crash
<1>8. CASE UNCHANGED vars
      BY <1>8, <1>t DEF vars
<1> QED BY <1>2, <1>3, <1>4, <1>5, <1>6, <1>7, <1>8 DEF Next

LEMMA TypeStep == TypeOK /\ [Next]_vars => TypeOK'
<1> SUFFICES ASSUME TypeOK, [Next]_vars PROVE TypeOK'
    OBVIOUS
<1>c. /\ tx' \in {"none", "open", "stale"} /\ refusals' \in 0..MaxRefusals
      /\ crashes' \in 0..MaxCrashes
      BY ConnectionType
<1>1. ASSUME NEW p \in Projects, RecordEvent(p) PROVE TypeOK'
      BY <1>1, <1>c, RecordStep DEF TypeOK
<1>2. ASSUME NEW p \in Projects, NEW to \in Phases, NEW class \in Classes, NEW steered \in BOOLEAN,
             Begin(p, to, class, steered)
      PROVE  TypeOK'
  <2>1. op' \in Ops /\ UNCHANGED <<phase, events, log, recorded, cut, faults>>
        BY <1>2, BeginStep
  <2> QED BY <1>c, <2>1 DEF TypeOK, Ops
<1>3. CASE SubmitTicket
      BY <1>3, <1>c, SubmitStep DEF TypeOK, GoesOn, Ops
<1>4. CASE AppendAudit
      BY <1>4, <1>c, AuditStep DEF TypeOK, GoesOn, Ops
<1>5. CASE PersistTransition
      BY <1>5, <1>c, PersistStep DEF TypeOK, GoesOn, Ops
<1>6. CASE UpdatePhase
      BY <1>6, <1>c, UpdateStep DEF TypeOK
<1>7. CASE PersistRefused \/ UpdateRefused \/ Crash
      BY <1>7, <1>c, DropStep, CutFacts DEF Drops, TypeOK
<1>8. CASE UNCHANGED vars
      BY <1>8 DEF vars, TypeOK
<1>11. CASE RecordRefused \/ Outdate
      BY <1>11, <1>c DEF RecordRefused, Outdate, TypeOK
<1>9. ASSUME NEW p \in Projects, NEW class \in Classes, Advance(p, class) PROVE TypeOK'
  <2>1. (IF class \in Ticketing THEN "escalate" ELSE NextPhase(phase[p])) \in Phases
        BY NextPhaseIs DEF TypeOK, Phases
  <2> QED BY <1>2, <1>9, <2>1 DEF Advance
<1>10. ASSUME NEW p \in Projects, NEW to \in Phases, Steer(p, to) PROVE TypeOK'
      BY <1>2, <1>10 DEF Steer, Classes
<1> QED BY <1>1, <1>3, <1>4, <1>5, <1>6, <1>7, <1>8, <1>9, <1>10, <1>11 DEF Next

LEMMA TypeInit == Init => TypeOK
BY LoopAssumption DEF Init, TypeOK, Phases

(* Phases, counters, logs and the transition under way keep their types.   *)
THEOREM TypeCorrect == Spec => []TypeOK
BY TypeInit, TypeStep, PTL DEF Spec
-----------------------------------------------------------------------------
(* Log and phase.                                                          *)

\* A transition begins: where, why, and on which events.
Starts(p) ==
    /\ op = Idle /\ op' \in Ops /\ op'.step = "ticket" /\ op'.projects = {p}
    /\ op'.move.from = phase[p] /\ Decides(op'.move)
    /\ Leaves(op'.move) => events[p] >= Threshold /\ op'.move.to # "observe"
    /\ UNCHANGED <<phase, events, log, recorded, faults, cut>>

LEMMA StartStep ==
    ASSUME TypeOK, NEW p \in Projects,
           \/ \E class \in Classes : Advance(p, class)
           \/ \E to \in Phases : Steer(p, to)
    PROVE  Starts(p)
<1>p. phase[p] \in Phases
      BY DEF TypeOK
<1>1. ASSUME NEW class \in Classes, Advance(p, class) PROVE Starts(p)
  <2> DEFINE to == IF class \in Ticketing THEN "escalate" ELSE NextPhase(phase[p])
  <2>1. to \in Phases /\ (phase[p] = "observe" => to # "observe") /\ Begin(p, to, class, FALSE)
        BY <1>1, <1>p, NextPhaseIs DEF Advance, Phases
  <2>2. class \in Ticketing \/ to = NextPhase(phase[p])
        OBVIOUS
  <2>3. phase[p] = "observe" => events[p] >= Threshold
        BY <1>1 DEF Advance
  <2> HIDE DEF to
  <2> QED BY <2>1, <2>2, <2>3, BeginStep DEF Starts, Decides, Leaves
<1>2. ASSUME NEW to \in Phases, Steer(p, to) PROVE Starts(p)
  <2>1. Begin(p, to, "D2", TRUE) /\ "D2" \in Classes /\ "D2" \in Ticketing
        BY <1>2 DEF Steer, Classes, Ticketing
  <2> QED BY <2>1, BeginStep DEF Starts, Decides, Leaves
<1> QED BY <1>1, <1>2

LEMMA Steps6 ==
    ASSUME TypeOK, [Next]_vars
    PROVE  \/ \E p \in Projects : RecordEvent(p) \/ Starts(p)
           \/ SubmitTicket \/ AppendAudit \/ PersistTransition \/ UpdatePhase
           \/ Drops \/ Rests
BY StartStep, DropStep DEF Next, RecordRefused, Outdate, Rests, vars

LEMMA MoveStep == TypeOK /\ MoveInv /\ [Next]_vars => MoveInv'
<1> SUFFICES ASSUME TypeOK, MoveInv, [Next]_vars, NEW p \in Projects, Moving(p)'
             PROVE  /\ op'.move.from = phase'[p]
                    /\ Decides(op'.move)
                    /\ op'.step = "update" => log'[p] # <<>> /\ Last(p)' = op'.move
                    /\ Leaves(op'.move) => events'[p] >= Threshold /\ op'.move.to # "observe"
    BY DEF MoveInv, Decides, Leaves
<1>1. ASSUME NEW q \in Projects, RecordEvent(q) PROVE FALSE
      BY <1>1, RecordStep DEF Moving
<1>2. ASSUME NEW q \in Projects, Starts(q)
      PROVE  /\ op'.move.from = phase'[p]
             /\ Decides(op'.move)
             /\ op'.step = "update" => log'[p] # <<>> /\ Last(p)' = op'.move
             /\ Leaves(op'.move) => events'[p] >= Threshold /\ op'.move.to # "observe"
      BY <1>2 DEF Starts, Moving
<1>3. ASSUME GoesOn(op'.move), op.step # "update", UNCHANGED <<phase, events>>
      PROVE  /\ op'.move.from = phase'[p]
             /\ Decides(op'.move)
             /\ Leaves(op'.move) => events'[p] >= Threshold /\ op'.move.to # "observe"
  <2>1. Moving(p)
        BY <1>3, OpFacts DEF GoesOn, Moving
  <2> QED BY <1>3, <2>1 DEF GoesOn, MoveInv, Decides, Leaves
<1>4. CASE SubmitTicket
      BY <1>3, <1>4, SubmitStep
<1>5. CASE AppendAudit
      BY <1>3, <1>5, AuditStep
<1>6. CASE PersistTransition
  <2>1. /\ GoesOn(op.move) /\ op.step # "update" /\ UNCHANGED <<phase, events>>
        /\ log'[p] = Append(log[p], op.move) /\ op'.move = op.move /\ op.move \in Transition
        BY <1>6, PersistStep DEF GoesOn, Moving
  <2>2. log[p] \in Seq(Transition)
        BY DEF TypeOK
  <2>3. /\ log'[p] # <<>> /\ Len(log'[p]) = Len(log[p]) + 1
        /\ log'[p][Len(log[p]) + 1] = op.move
        BY <2>1, <2>2, AppendFacts
  <2>4. Last(p)' = op.move
        BY <2>3 DEF Last
  <2> QED BY <1>3, <2>1, <2>3, <2>4
<1>7. CASE UpdatePhase
      BY <1>7, UpdateStep DEF Moving
<1>8. CASE Drops
      BY <1>8 DEF Drops, Moving
<1>9. CASE Rests
      BY <1>9 DEF Rests, MoveInv, Moving, Last
<1> QED BY <1>1, <1>2, <1>4, <1>5, <1>6, <1>7, <1>8, <1>9, Steps6

LEMMA DriftStep == TypeOK /\ MoveInv /\ DriftInv /\ [Next]_vars => DriftInv'
<1> SUFFICES ASSUME TypeOK, MoveInv, DriftInv, [Next]_vars, NEW p \in Projects
             PROVE  /\ \A k \in 2..Len(log'[p]) :
                         log'[p][k].from \in {log'[p][k - 1].to, log'[p][k - 1].from}
                    /\ log'[p] = <<>> => phase'[p] = "observe"
                    /\ log'[p] # <<>> =>
                         /\ phase'[p] \in {Last(p)'.to, Last(p)'.from}
                         /\ cut'[p] = 0 /\ ~(Moving(p)' /\ op'.step = "update") =>
                              phase'[p] = Last(p)'.to
    BY DEF DriftInv
<1>t. log[p] \in Seq(Transition) /\ cut[p] \in Nat
      BY DEF TypeOK
<1>d. /\ \A k \in 2..Len(log[p]) : log[p][k].from \in {log[p][k - 1].to, log[p][k - 1].from}
      /\ log[p] = <<>> => phase[p] = "observe"
      /\ log[p] # <<>> =>
           /\ phase[p] \in {Last(p).to, Last(p).from}
           /\ cut[p] = 0 /\ ~(Moving(p) /\ op.step = "update") => phase[p] = Last(p).to
      BY DEF DriftInv
<1>k. ASSUME log'[p] = log[p], phase'[p] = phase[p],
             cut'[p] = 0 => cut[p] = 0 /\ ~(Moving(p) /\ op.step = "update")
      PROVE  /\ \A k \in 2..Len(log'[p]) :
                  log'[p][k].from \in {log'[p][k - 1].to, log'[p][k - 1].from}
             /\ log'[p] = <<>> => phase'[p] = "observe"
             /\ log'[p] # <<>> =>
                  /\ phase'[p] \in {Last(p)'.to, Last(p)'.from}
                  /\ cut'[p] = 0 /\ ~(Moving(p)' /\ op'.step = "update") =>
                       phase'[p] = Last(p)'.to
      BY <1>k, <1>d DEF Last
<1>1. ASSUME NEW q \in Projects, RecordEvent(q) \/ Starts(q)
      PROVE  /\ log'[p] = log[p] /\ phase'[p] = phase[p]
             /\ cut'[p] = 0 => cut[p] = 0 /\ ~(Moving(p) /\ op.step = "update")
      BY <1>1, RecordStep DEF Starts, Moving
<1>2. CASE SubmitTicket
      BY <1>2, <1>k, SubmitStep
<1>3. CASE AppendAudit
      BY <1>3, <1>k, AuditStep
<1>4. CASE PersistTransition
  <2>0. /\ op.move \in Transition /\ op.step = "persist" /\ op'.step = "update" /\ op \in Ops /\ op' \in Ops
        /\ op'.projects = op.projects
        /\ UNCHANGED <<phase, cut>>
        /\ log'[p] = IF p \in op.projects THEN Append(log[p], op.move) ELSE log[p]
        BY <1>4, PersistStep DEF GoesOn
  <2>1. CASE p \notin op.projects
        BY <1>k, <2>0, <2>1 DEF Moving
  <2>2. CASE p \in op.projects
    <3>1. Moving(p) /\ Moving(p)' /\ op.move.from = phase[p]
          BY <2>0, <2>2, OpFacts DEF Moving, MoveInv, Idle, Ops, Steps
    <3>2. /\ log'[p] # <<>> /\ Len(log'[p]) = Len(log[p]) + 1 /\ Len(log[p]) \in Nat
          /\ \A k \in 1..Len(log[p]) : log'[p][k] = log[p][k]
          /\ log'[p][Len(log[p]) + 1] = op.move
          BY <1>t, <2>0, <2>2, AppendFacts
    <3>3. Last(p)' = op.move
          BY <3>2 DEF Last
    <3>4. ASSUME NEW k \in 2..Len(log'[p])
          PROVE  log'[p][k].from \in {log'[p][k - 1].to, log'[p][k - 1].from}
      <4>1. CASE k \in 2..Len(log[p])
        <5>1. k \in 1..Len(log[p]) /\ k - 1 \in 1..Len(log[p])
              BY <3>2, <4>1
        <5>2. log'[p][k] = log[p][k] /\ log'[p][k - 1] = log[p][k - 1]
              BY <3>2, <5>1
        <5> QED BY <1>d, <4>1, <5>2
      <4>2. CASE k = Len(log[p]) + 1
        <5>1. log[p] # <<>> /\ k - 1 = Len(log[p]) /\ Len(log[p]) \in 1..Len(log[p])
              BY <1>t, <3>2, <3>4, <4>2
        <5>2. log'[p][k] = op.move /\ log'[p][k - 1] = Last(p)
              BY <3>2, <4>2, <5>1 DEF Last
        <5> QED BY <1>d, <3>1, <5>1, <5>2
      <4> QED BY <3>2, <3>4, <4>1, <4>2
    <3> QED BY <2>0, <3>1, <3>2, <3>3, <3>4
  <2> QED BY <2>1, <2>2
<1>5. CASE UpdatePhase
  <2>0. /\ op \in Ops /\ op.step = "update" /\ log'[p] = log[p] /\ cut'[p] = cut[p]
        /\ phase'[p] = IF p \in op.projects THEN op.move.to ELSE phase[p]
        BY <1>5, UpdateStep
  <2>1. CASE p \notin op.projects
        BY <1>k, <2>0, <2>1 DEF Moving
  <2>2. CASE p \in op.projects
    <3>1. log[p] # <<>> /\ Last(p) = op.move
          BY <2>0, <2>2, OpFacts DEF MoveInv, Moving
    <3>2. Last(p)' = Last(p)
          BY <2>0 DEF Last
    <3> QED BY <1>d, <2>0, <2>2, <3>1, <3>2
  <2> QED BY <2>1, <2>2
<1>6. CASE Drops
  <2>1. log'[p] = log[p] /\ phase'[p] = phase[p]
        BY <1>6 DEF Drops
  <2>2. cut'[p] = 0 => cut[p] = 0 /\ ~(Moving(p) /\ op.step = "update")
        BY <1>6, <1>t, CutFacts DEF Moving
  <2> QED BY <1>k, <2>1, <2>2
<1>7. CASE Rests
      BY <1>7, <1>d DEF Rests, Last, Moving
<1> QED BY <1>1, <1>2, <1>3, <1>4, <1>5, <1>6, <1>7, <1>k, Steps6

LEMMA LoopInvariant == Spec => []LoopInv
<1>1. Init => MoveInv /\ DriftInv
      BY DEF Init, MoveInv, DriftInv, Moving
<1>2. Init => LoopInv
      BY <1>1, TypeInit DEF LoopInv
<1>3. LoopInv /\ [Next]_vars => LoopInv'
      BY TypeStep, MoveStep, DriftStep DEF LoopInv
<1> QED BY <1>2, <1>3, PTL DEF Spec

(* The log and the phase of a project never drift apart by more than the   *)
(* last transition, and not at all before one of its transitions is cut    *)
(* off between its two commits.                                            *)
THEOREM DriftsByOne == Spec => []LogWithinOne
<1>1. LoopInv => LogWithinOne
      BY DEF LoopInv, DriftInv, LogWithinOne
<1> QED BY <1>1, LoopInvariant, PTL
-----------------------------------------------------------------------------
(* Escalations.                                                            *)

Raises(m) == m.to = "escalate" /\ m.class \in Ticketing

\* A project in escalate is there since a decision, its log says so.
StayInv ==
    \A p \in Projects : phase[p] = "escalate" =>
        \E j \in 1..Len(log[p]) :
            Raises(log[p][j]) /\ \A i \in (j + 1)..Len(log[p]) : log[p][i].from = "escalate"

EscalateInv == StayInv /\ EscalationIsDecided

LEMMA EscalateStep == LoopInv /\ EscalateInv /\ [Next]_vars => EscalateInv'
<1> SUFFICES ASSUME LoopInv, EscalateInv, [Next]_vars, NEW p \in Projects
             PROVE  /\ phase'[p] = "escalate" =>
                         \E j \in 1..Len(log'[p]) :
                            /\ Raises(log'[p][j])
                            /\ \A i \in (j + 1)..Len(log'[p]) : log'[p][i].from = "escalate"
                    /\ \A k \in 1..Len(log'[p]) : log'[p][k].to \in {"escalate", "review"} =>
                         \/ log'[p][k].class \in Ticketing
                         \/ log'[p][k].to = "review" /\ StaysEscalated(p, k)'
    BY DEF EscalateInv, StayInv, EscalationIsDecided
<1> DEFINE n == Len(log[p])
<1>t. /\ TypeOK /\ MoveInv /\ log[p] \in Seq(Transition) /\ phase[p] \in Phases /\ n \in Nat
      BY DEF LoopInv, TypeOK
<1>s. phase[p] = "escalate" =>
        \E j \in 1..n : /\ Raises(log[p][j])
                        /\ \A i \in (j + 1)..n : log[p][i].from = "escalate"
      BY DEF EscalateInv, StayInv
<1>e. \A k \in 1..n : log[p][k].to \in {"escalate", "review"} =>
        \/ log[p][k].class \in Ticketing
        \/ log[p][k].to = "review" /\ StaysEscalated(p, k)
      BY DEF EscalateInv, EscalationIsDecided
<1>1. CASE PersistTransition /\ p \in op.projects
  <2>1. /\ op.move \in Transition /\ op \in Ops /\ log'[p] = Append(log[p], op.move)
        /\ phase' = phase
        BY <1>1, <1>t, PersistStep DEF GoesOn
  <2>2. /\ Len(log'[p]) = n + 1 /\ log'[p][n + 1] = op.move
        /\ \A i \in 1..n : log'[p][i] = log[p][i]
        BY <1>t, <2>1, AppendFacts
  <2>3. op.move.from = phase[p] /\ Decides(op.move)
        BY <1>1, <1>t, <2>1, OpFacts DEF Moving, MoveInv
  <2> HIDE DEF n
  <2>4. ASSUME phase[p] = "escalate"
        PROVE  \E j \in 1..n : /\ Raises(log'[p][j])
                               /\ \A i \in (j + 1)..(n + 1) : log'[p][i].from = "escalate"
    <3>1. PICK j \in 1..n : /\ Raises(log[p][j])
                            /\ \A i \in (j + 1)..n : log[p][i].from = "escalate"
          BY <1>s, <2>4
    <3>2. Raises(log'[p][j])
          BY <2>2, <3>1
    <3>3. ASSUME NEW i \in (j + 1)..(n + 1) PROVE log'[p][i].from = "escalate"
      <4>1. CASE i = n + 1
            BY <2>2, <2>3, <2>4, <4>1
      <4>2. CASE i # n + 1
        <5>1. i \in (j + 1)..n /\ i \in 1..n
              BY <1>t, <3>3, <4>2
        <5> QED BY <2>2, <3>1, <5>1
      <4> QED BY <4>1, <4>2
    <3> QED BY <3>2, <3>3
  <2>5. ASSUME NEW k \in 1..(n + 1), log'[p][k].to \in {"escalate", "review"},
               log'[p][k].class \notin Ticketing
        PROVE  log'[p][k].to = "review" /\ StaysEscalated(p, k)'
    <3>1. CASE k = n + 1
      <4>1. op.move.to = "review" /\ phase[p] = "escalate"
            BY <1>t, <2>2, <2>3, <2>5, <3>1, NextPhaseIs DEF Decides
      <4>2. PICK j \in 1..n : /\ Raises(log'[p][j])
                              /\ \A i \in (j + 1)..(n + 1) : log'[p][i].from = "escalate"
            BY <2>4, <4>1
      <4>3. j \in 1..(k - 1)
            BY <1>t, <3>1
      <4> QED BY <2>2, <3>1, <4>1, <4>2, <4>3 DEF StaysEscalated, Raises
    <3>2. CASE k # n + 1
      <4>1. k \in 1..n /\ log'[p][k] = log[p][k]
            BY <1>t, <2>2, <2>5, <3>2
      <4>2. log[p][k].to = "review" /\ StaysEscalated(p, k)
            BY <1>e, <2>5, <4>1
      <4>3. PICK j \in 1..(k - 1) :
              /\ log[p][j].to = "escalate" /\ log[p][j].class \in Ticketing
              /\ \A i \in (j + 1)..k : log[p][i].from = "escalate"
            BY <4>2 DEF StaysEscalated
      <4>4. j \in 1..n /\ \A i \in (j + 1)..k : i \in 1..n
            BY <1>t, <4>1
      <4>5. StaysEscalated(p, k)'
            BY <2>2, <4>3, <4>4 DEF StaysEscalated
      <4> QED BY <4>1, <4>2, <4>5
    <3> QED BY <3>1, <3>2
  <2>6. phase'[p] = "escalate" =>
          \E j \in 1..Len(log'[p]) :
             /\ Raises(log'[p][j])
             /\ \A i \in (j + 1)..Len(log'[p]) : log'[p][i].from = "escalate"
    <3> SUFFICES ASSUME phase[p] = "escalate"
                 PROVE  \E j \in 1..(n + 1) :
                           /\ Raises(log'[p][j])
                           /\ \A i \in (j + 1)..(n + 1) : log'[p][i].from = "escalate"
        BY <2>1, <2>2
    <3> QED BY <1>t, <2>4
  <2> QED BY <2>2, <2>5, <2>6
<1>2. CASE UpdatePhase
  <2>1. /\ op \in Ops /\ op.step = "update" /\ log'[p] = log[p]
        /\ phase'[p] = IF p \in op.projects THEN op.move.to ELSE phase[p]
        BY <1>2, <1>t, UpdateStep
  <2>2. \A k \in 1..n : StaysEscalated(p, k)' <=> StaysEscalated(p, k)
        BY <2>1 DEF StaysEscalated
  <2>3. CASE p \notin op.projects
        BY <1>s, <1>e, <2>1, <2>2, <2>3
  <2>4. CASE p \in op.projects
    <3>1. log[p] # <<>> /\ log[p][n] = op.move /\ Decides(op.move)
          /\ op.move.from \in Phases
          BY <1>t, <2>1, <2>4, OpFacts DEF MoveInv, Moving, Last
    <3>2. phase'[p] = "escalate" => Raises(log[p][n])
          BY <2>1, <2>4, <3>1, NextPhaseIs DEF Decides, Raises
    <3>3. n \in 1..n /\ (n + 1)..n = {}
          BY <1>t, <3>1
    <3>4. phase'[p] = "escalate" =>
            \E j \in 1..n : /\ Raises(log[p][j])
                            /\ \A i \in (j + 1)..n : log[p][i].from = "escalate"
          BY <3>2, <3>3
    <3> QED BY <1>e, <2>1, <2>2, <3>4
  <2> QED BY <2>3, <2>4
<1>3. CASE log'[p] = log[p] /\ phase'[p] = phase[p]
  <2>1. \A k \in 1..n : StaysEscalated(p, k)' <=> StaysEscalated(p, k)
        BY <1>3 DEF StaysEscalated
  <2> QED BY <1>s, <1>e, <1>3, <2>1
<1>4. \/ PersistTransition /\ p \in op.projects
      \/ UpdatePhase
      \/ log'[p] = log[p] /\ phase'[p] = phase[p]
  <2>1. CASE PersistTransition
        BY <1>t, <2>1, PersistStep
  <2> QED BY <1>t, <2>1, Steps6, RecordStep, SubmitStep, AuditStep DEF Starts, Drops, Rests
<1> QED BY <1>1, <1>2, <1>3, <1>4

(* Every entry to escalate is a decision of D2 or above, or a steer; every *)
(* entry to review is one too, or leaves the very stay in escalate that    *)
(* one began.                                                              *)
THEOREM EscalationsAreDecided == Spec => []EscalationIsDecided
<1>1. Init => EscalateInv
      BY DEF Init, EscalateInv, StayInv, EscalationIsDecided
<1>2. EscalateInv => EscalationIsDecided
      BY DEF EscalateInv
<1> QED BY <1>1, <1>2, EscalateStep, LoopInvariant, PTL DEF Spec
-----------------------------------------------------------------------------
(* Missing tickets and audit entries.                                      *)

Lost(s)  == {k \in 1..Len(s) : s[k].class \in Ticketing /\ ~s[k].ticket}
Dark(s)  == {k \in 1..Len(s) : ~s[k].audit}
Left(s)  == {k \in 1..Len(s) : s[k].from = "observe" /\ ~s[k].steered}

LEMMA CountOf ==
    ASSUME NEW n \in Nat, NEW A \in SUBSET (1..n)
    PROVE  /\ Cardinality(A) \in Nat
           /\ Cardinality(A \cup {n + 1}) = Cardinality(A) + 1
<1>1. IsFiniteSet(1..n)
      BY FS_Interval
<1>2. IsFiniteSet(A)
      BY <1>1, FS_Subset
<1>3. n + 1 \notin A
      OBVIOUS
<1> QED BY <1>2, <1>3, FS_CardinalityType, FS_AddElement

LEMMA CountAppend ==
    ASSUME NEW s \in Seq(Transition), NEW m \in Transition
    PROVE  /\ Cardinality(Lost(s)) \in Nat /\ Cardinality(Dark(s)) \in Nat /\ Cardinality(Left(s)) \in Nat
           /\ Cardinality(Lost(Append(s, m))) =
                Cardinality(Lost(s)) + (IF m.class \in Ticketing /\ ~m.ticket THEN 1 ELSE 0)
           /\ Cardinality(Dark(Append(s, m))) = Cardinality(Dark(s)) + (IF m.audit THEN 0 ELSE 1)
           /\ Cardinality(Left(Append(s, m))) = Cardinality(Left(s)) + (IF Leaves(m) THEN 1 ELSE 0)
<1> DEFINE n == Len(s)
<1>1. /\ n \in Nat /\ Len(Append(s, m)) = n + 1 /\ Append(s, m)[n + 1] = m
      /\ \A k \in 1..n : Append(s, m)[k] = s[k]
      BY AppendFacts
<1>2. Lost(s) \in SUBSET (1..n) /\ Dark(s) \in SUBSET (1..n) /\ Left(s) \in SUBSET (1..n)
      BY DEF Lost, Dark, Left
<1>3. 1..(n + 1) = (1..n) \cup {n + 1}
      BY <1>1
<1>4. Lost(Append(s, m)) = Lost(s) \cup (IF m.class \in Ticketing /\ ~m.ticket THEN {n + 1} ELSE {})
      BY <1>1, <1>3 DEF Lost
<1>5. Dark(Append(s, m)) = Dark(s) \cup (IF m.audit THEN {} ELSE {n + 1})
      BY <1>1, <1>3 DEF Dark
<1>6. Left(Append(s, m)) = Left(s) \cup (IF Leaves(m) THEN {n + 1} ELSE {})
      BY <1>1, <1>3 DEF Left, Leaves
<1> HIDE DEF n
<1>7. /\ Cardinality(Lost(s)) \in Nat /\ Cardinality(Dark(s)) \in Nat /\ Cardinality(Left(s)) \in Nat
      /\ Cardinality(Lost(s) \cup {n + 1}) = Cardinality(Lost(s)) + 1
      /\ Cardinality(Dark(s) \cup {n + 1}) = Cardinality(Dark(s)) + 1
      /\ Cardinality(Left(s) \cup {n + 1}) = Cardinality(Left(s)) + 1
      BY <1>1, <1>2, CountOf
<1>8. /\ Lost(s) \cup {} = Lost(s) /\ Dark(s) \cup {} = Dark(s) /\ Left(s) \cup {} = Left(s)
      OBVIOUS
<1>9. Cardinality(Lost(Append(s, m))) =
        Cardinality(Lost(s)) + (IF m.class \in Ticketing /\ ~m.ticket THEN 1 ELSE 0)
  <2>1. CASE m.class \in Ticketing /\ ~m.ticket
        BY <1>4, <1>7, <2>1
  <2>2. CASE ~(m.class \in Ticketing /\ ~m.ticket)
    <3>1. Lost(Append(s, m)) = Lost(s)
          BY <1>4, <1>8, <2>2
    <3> QED BY <1>7, <2>2, <3>1
  <2> QED BY <2>1, <2>2
<1>10. Cardinality(Dark(Append(s, m))) = Cardinality(Dark(s)) + (IF m.audit THEN 0 ELSE 1)
  <2>1. CASE ~m.audit
        BY <1>5, <1>7, <2>1
  <2>2. CASE m.audit
    <3>1. Dark(Append(s, m)) = Dark(s)
          BY <1>5, <1>8, <2>2
    <3> QED BY <1>7, <2>2, <3>1
  <2> QED BY <2>1, <2>2
<1>11. Cardinality(Left(Append(s, m))) = Cardinality(Left(s)) + (IF Leaves(m) THEN 1 ELSE 0)
  <2>1. CASE Leaves(m)
        BY <1>6, <1>7, <2>1
  <2>2. CASE ~Leaves(m)
    <3>1. Left(Append(s, m)) = Left(s)
          BY <1>6, <1>8, <2>2
    <3> QED BY <1>7, <2>2, <3>1
  <2> QED BY <2>1, <2>2
<1> QED BY <1>7, <1>9, <1>10, <1>11

\* Failed calls of the transition under way that its log entry will show.
NoTicket(p) == /\ Moving(p) /\ op.step \in {"audit", "persist"}
               /\ op.move.class \in Ticketing /\ ~op.move.ticket
NoAudit(p)  == Moving(p) /\ op.step = "persist" /\ ~op.move.audit

Owed(p) == (IF NoTicket(p) THEN 1 ELSE 0) + (IF NoAudit(p) THEN 1 ELSE 0)

FailInv == \A p \in Projects : Cardinality(Lost(log[p])) + Cardinality(Dark(log[p])) + Owed(p) <= faults

LEMMA FailStep == TypeOK /\ FailInv /\ [Next]_vars => FailInv'
<1> SUFFICES ASSUME TypeOK, FailInv, [Next]_vars, NEW p \in Projects
             PROVE  Cardinality(Lost(log'[p])) + Cardinality(Dark(log'[p])) + Owed(p)' <= faults'
    BY DEF FailInv
<1> DEFINE c == Cardinality(Lost(log[p]))
           d == Cardinality(Dark(log[p]))
<1>t. log[p] \in Seq(Transition) /\ faults \in Nat /\ c \in Nat /\ d \in Nat
  <2>1. log[p] \in Seq(Transition) /\ faults \in Nat
        BY DEF TypeOK
  <2>2. \E m : m \in Transition
    <3>1. [from |-> "observe", to |-> "observe", class |-> "D0", steered |-> FALSE,
           ticket |-> FALSE, audit |-> FALSE] \in Transition
          BY DEF Transition, Phases, Classes
    <3> QED BY <3>1
  <2> QED BY <2>1, <2>2, CountAppend
<1>i. c + d + Owed(p) <= faults
      BY DEF FailInv
<1>o. Owed(p) \in 0..2 /\ Owed(p)' \in 0..2
      BY DEF Owed
<1>k. ASSUME log'[p] = log[p], faults' \in Nat, Owed(p)' + faults <= Owed(p) + faults'
      PROVE  Cardinality(Lost(log'[p])) + Cardinality(Dark(log'[p])) + Owed(p)' <= faults'
  <2>1. c + d + Owed(p)' <= faults'
    <3> HIDE DEF c, d
    <3> QED BY <1>i, <1>k, <1>o, <1>t
  <2> QED BY <1>k, <2>1
<1>z. op' = Idle \/ op'.step = "ticket" => Owed(p)' = 0
      BY DEF Owed, NoTicket, NoAudit, Moving
<1>1. ASSUME NEW q \in Projects, RecordEvent(q) \/ Starts(q)
      PROVE  log'[p] = log[p] /\ faults' = faults /\ Owed(p)' = 0
      BY <1>1, <1>z, RecordStep DEF Starts
<1>2. CASE SubmitTicket
  <2>1. /\ op'.step = "audit" /\ log'[p] = log[p] /\ faults' \in {faults, faults + 1}
        /\ op'.move.class \in Ticketing /\ ~op'.move.ticket => faults' = faults + 1
        BY <1>2, SubmitStep
  <2>2. Owed(p)' + faults <= faults'
        BY <1>t, <2>1 DEF Owed, NoTicket, NoAudit
  <2> QED BY <1>k, <1>o, <1>t, <2>1, <2>2
<1>3. CASE AppendAudit
  <2>1. /\ op.step = "audit" /\ op'.step = "persist" /\ log'[p] = log[p] /\ faults' \in {faults, faults + 1}
        /\ op'.move.ticket = op.move.ticket /\ op'.move.class = op.move.class
        /\ op \in Ops /\ op' \in Ops /\ op'.projects = op.projects
        /\ ~op'.move.audit => faults' = faults + 1
        BY <1>3, AuditStep DEF GoesOn
  <2>2. Moving(p)' <=> Moving(p)
        BY <2>1, OpFacts DEF Moving, Ops, Idle, Steps
  <2>3. (NoTicket(p)' <=> NoTicket(p)) /\ (NoAudit(p)' => faults' = faults + 1) /\ ~NoAudit(p)
        BY <2>1, <2>2 DEF NoTicket, NoAudit
  <2>4. Owed(p)' + faults <= Owed(p) + faults'
    <3>1. Owed(p)' = Owed(p) + (IF NoAudit(p)' THEN 1 ELSE 0)
          BY <2>3 DEF Owed
    <3>2. (IF NoAudit(p)' THEN 1 ELSE 0) + faults <= faults'
          BY <1>t, <2>1, <2>3
    <3> QED BY <1>o, <1>t, <2>1, <3>1, <3>2
  <2> QED BY <1>k, <1>t, <2>1, <2>4
<1>4. CASE PersistTransition
  <2>1. /\ op.move \in Transition /\ op.step = "persist" /\ op \in Ops /\ op'.step = "update" /\ faults' = faults
        /\ log'[p] = IF p \in op.projects THEN Append(log[p], op.move) ELSE log[p]
        BY <1>4, PersistStep DEF GoesOn
  <2>2. Owed(p)' = 0
        BY <2>1 DEF Owed, NoTicket, NoAudit
  <2>3. CASE p \notin op.projects
        BY <1>k, <1>o, <1>t, <2>1, <2>2, <2>3
  <2>4. CASE p \in op.projects
    <3>1. /\ NoTicket(p) <=> op.move.class \in Ticketing /\ ~op.move.ticket
          /\ NoAudit(p) <=> ~op.move.audit
          BY <2>1, <2>4, OpFacts DEF NoTicket, NoAudit, Moving
    <3>2. /\ Cardinality(Lost(log'[p])) = c + (IF NoTicket(p) THEN 1 ELSE 0)
          /\ Cardinality(Dark(log'[p])) = d + (IF NoAudit(p) THEN 1 ELSE 0)
      <4>1. /\ Cardinality(Lost(log'[p])) =
                 c + (IF op.move.class \in Ticketing /\ ~op.move.ticket THEN 1 ELSE 0)
            /\ Cardinality(Dark(log'[p])) = d + (IF op.move.audit THEN 0 ELSE 1)
            BY <1>t, <2>1, <2>4, CountAppend
      <4> QED BY <3>1, <4>1
    <3> HIDE DEF c, d
    <3> QED BY <1>i, <1>t, <2>1, <2>2, <3>2 DEF Owed
  <2> QED BY <2>3, <2>4
<1>5. CASE UpdatePhase
      BY <1>5, <1>k, <1>o, <1>t, <1>z, UpdateStep
<1>6. CASE Drops
      BY <1>6, <1>k, <1>o, <1>t, <1>z DEF Drops
<1>7. CASE Rests
  <2>1. Owed(p)' = Owed(p)
        BY <1>7 DEF Rests, Owed, NoTicket, NoAudit, Moving
  <2> QED BY <1>7, <1>k, <1>o, <1>t, <2>1 DEF Rests
<1> QED BY <1>1, <1>2, <1>3, <1>4, <1>5, <1>6, <1>7, <1>k, <1>o, <1>t, Steps6

(* The missing tickets and audit entries are never more than the calls     *)
(* that failed.                                                            *)
THEOREM MissingAreFailed == Spec => []MissingIsFailed
<1>1. Init => FailInv
  <2> SUFFICES ASSUME Init, NEW p \in Projects
               PROVE  Cardinality(Lost(log[p])) + Cardinality(Dark(log[p])) + Owed(p) <= faults
      BY DEF FailInv
  <2>1. Lost(log[p]) = {} /\ Dark(log[p]) = {} /\ Owed(p) = 0 /\ faults = 0
        BY DEF Init, Lost, Dark, Owed, NoTicket, NoAudit, Moving
  <2> QED BY <2>1, FS_EmptySet
<1>2. TypeOK /\ FailInv => MissingIsFailed
  <2> SUFFICES ASSUME TypeOK, FailInv, NEW p \in Projects
               PROVE  Cardinality(Lost(log[p])) + Cardinality(Dark(log[p])) <= faults
      BY DEF MissingIsFailed, Lost, Dark
  <2>1. Cardinality(Lost(log[p])) \in Nat /\ Cardinality(Dark(log[p])) \in Nat /\ faults \in Nat
    <3>1. log[p] \in Seq(Transition) /\ Len(log[p]) \in Nat /\ faults \in Nat
          BY DEF TypeOK
    <3>2. Lost(log[p]) \in SUBSET (1..Len(log[p])) /\ Dark(log[p]) \in SUBSET (1..Len(log[p]))
          BY DEF Lost, Dark
    <3> QED BY <3>1, <3>2, CountOf
  <2>2. Owed(p) \in 0..2 /\ Cardinality(Lost(log[p])) + Cardinality(Dark(log[p])) + Owed(p) <= faults
        BY DEF Owed, FailInv
  <2> QED BY <2>1, <2>2
<1> QED BY <1>1, <1>2, FailStep, TypeCorrect, PTL DEF Spec
-----------------------------------------------------------------------------
(* Cycles.                                                                 *)

\* The events p still has to show for: none once a transition that used them up
\* is in the log.
Credit(p) == IF Moving(p) /\ op.step = "update" /\ Leaves(op.move) THEN 0 ELSE events[p]

Spent(p) == Threshold * Cardinality(Left(log[p]))

CreditInv == \A p \in Projects : Spent(p) + Credit(p) <= recorded[p] + Threshold * cut[p]

LEMMA CreditStep == LoopInv /\ CreditInv /\ [Next]_vars => CreditInv'
<1> SUFFICES ASSUME LoopInv, CreditInv, [Next]_vars, NEW p \in Projects
             PROVE  Spent(p)' + Credit(p)' <= recorded'[p] + Threshold * cut'[p]
    BY DEF CreditInv
<1> DEFINE n == Cardinality(Left(log[p]))
<1>t. /\ TypeOK /\ TypeOK' /\ MoveInv /\ log[p] \in Seq(Transition) /\ n \in Nat
      /\ Threshold \in Nat \ {0} /\ events[p] \in 0..Threshold /\ recorded[p] \in Nat /\ cut[p] \in Nat
      /\ events'[p] \in 0..Threshold
  <2>1. /\ TypeOK /\ TypeOK' /\ log[p] \in Seq(Transition) /\ Len(log[p]) \in Nat
    <3>1. TypeOK /\ TypeOK'
          BY TypeStep DEF LoopInv
    <3>2. log[p] \in Seq(Transition)
          BY <3>1 DEF TypeOK
    <3> QED BY <3>1, <3>2
  <2>2. Left(log[p]) \in SUBSET (1..Len(log[p]))
        BY DEF Left
  <2>3. n \in Nat
        BY <2>1, <2>2, CountOf
  <2>4. /\ Threshold \in Nat \ {0} /\ events[p] \in 0..Threshold /\ events'[p] \in 0..Threshold
        /\ recorded[p] \in Nat /\ cut[p] \in Nat
        BY <2>1, LoopAssumption DEF TypeOK
  <2> QED BY <2>1, <2>3, <2>4 DEF LoopInv
<1>m. Spent(p) \in Nat /\ Threshold * cut[p] \in Nat /\ Credit(p) \in 0..Threshold
      BY <1>t DEF Spent, Credit
<1>i. Spent(p) + Credit(p) <= recorded[p] + Threshold * cut[p]
      BY DEF CreditInv
<1>k. ASSUME log'[p] = log[p], cut'[p] = cut[p], Credit(p)' \in Nat, recorded'[p] \in Nat,
             Credit(p)' + recorded[p] <= Credit(p) + recorded'[p]
      PROVE  Spent(p)' + Credit(p)' <= recorded'[p] + Threshold * cut'[p]
  <2>1. Spent(p)' = Spent(p) /\ Threshold * cut'[p] = Threshold * cut[p]
        BY <1>k DEF Spent
  <2>2. \A s, a, r, t, b, q \in Nat : s + a <= r + t /\ b + r <= a + q => s + b <= q + t
        OBVIOUS
  <2>3. Spent(p) + Credit(p)' <= recorded'[p] + Threshold * cut[p]
    <3>1. Credit(p) \in Nat
          BY <1>m, <1>t
    <3> QED BY <1>i, <1>k, <1>m, <1>t, <2>2, <3>1
  <2> QED BY <2>1, <2>3
<1>f. op'.step # "update" \/ op' = Idle => Credit(p)' = events'[p]
      BY DEF Credit, Moving
<1>1. ASSUME NEW q \in Projects, RecordEvent(q)
      PROVE  Spent(p)' + Credit(p)' <= recorded'[p] + Threshold * cut'[p]
  <2>1. Credit(p)' = events'[p] /\ Credit(p) = events[p]
        BY <1>1, <1>t, RecordStep DEF Credit, Moving
  <2>2. /\ log'[p] = log[p] /\ cut'[p] = cut[p]
        /\ \/ recorded'[p] = recorded[p] + 1 /\ events'[p] \in {events[p], events[p] + 1}
           \/ recorded'[p] = recorded[p] /\ events'[p] = events[p]
        BY <1>1, <1>t, RecordStep
  <2>3. /\ Credit(p)' \in Nat /\ recorded'[p] \in Nat
        /\ Credit(p)' + recorded[p] <= Credit(p) + recorded'[p]
        BY <1>t, <2>1, <2>2
  <2> QED BY <1>k, <2>2, <2>3
<1>2. ASSUME NEW q \in Projects, Starts(q)
      PROVE  Spent(p)' + Credit(p)' <= recorded'[p] + Threshold * cut'[p]
  <2>1. /\ Credit(p)' = events[p] /\ Credit(p) = events[p] /\ UNCHANGED <<log, recorded, cut>>
        BY <1>2 DEF Starts, Credit, Moving
  <2> QED BY <1>k, <1>t, <2>1
<1>3. CASE SubmitTicket
  <2>1. /\ Credit(p)' = events[p] /\ Credit(p) = events[p] /\ UNCHANGED <<log, recorded, cut>>
        BY <1>3, <1>t, SubmitStep DEF Credit
  <2> QED BY <1>k, <1>t, <2>1
<1>4. CASE AppendAudit
  <2>1. /\ Credit(p)' = events[p] /\ Credit(p) = events[p] /\ UNCHANGED <<log, recorded, cut>>
        BY <1>4, <1>t, AuditStep DEF Credit
  <2> QED BY <1>k, <1>t, <2>1
<1>5. CASE PersistTransition
  <2>1. /\ op.move \in Transition /\ op.step = "persist" /\ op \in Ops /\ op' \in Ops
        /\ op'.step = "update" /\ op'.projects = op.projects /\ op'.move = op.move
        /\ UNCHANGED <<events, recorded, cut>>
        /\ log'[p] = IF p \in op.projects THEN Append(log[p], op.move) ELSE log[p]
        BY <1>5, <1>t, PersistStep DEF GoesOn
  <2>2. Credit(p) = events[p]
        BY <2>1 DEF Credit
  <2>3. CASE p \in op.projects /\ Leaves(op.move)
    <3>1. events[p] = Threshold
          BY <1>t, <2>1, <2>3, OpFacts DEF MoveInv, Moving
    <3>2. Credit(p)' = 0
          BY <1>t, <2>1, <2>3, OpFacts DEF Credit, Moving, Idle, Ops, Steps, Leaves
    <3>3. Spent(p)' = Threshold * (n + 1)
      <4>1. Cardinality(Left(log'[p])) = n + 1
            BY <1>t, <2>1, <2>3, CountAppend
      <4> QED BY <4>1 DEF Spent
    <3>4. Threshold * (n + 1) = Spent(p) + Threshold
      <4>1. Spent(p) = Threshold * n
            BY DEF Spent
      <4> HIDE DEF n
      <4>2. Threshold * (n + 1) = Threshold * n + Threshold
            BY <1>t
      <4> QED BY <4>1, <4>2
    <3> QED BY <1>i, <1>m, <1>t, <2>1, <2>2, <3>1, <3>2, <3>3, <3>4
  <2>4. CASE ~(p \in op.projects /\ Leaves(op.move))
    <3>1. Credit(p)' = events[p]
          BY <2>1, <2>4 DEF Credit, Moving, Leaves
    <3>2. Cardinality(Left(log'[p])) = n
          BY <1>t, <2>1, <2>4, CountAppend
    <3>3. Spent(p)' = Spent(p)
          BY <3>2 DEF Spent
    <3> QED BY <1>i, <1>m, <1>t, <2>1, <2>2, <3>1, <3>3
  <2> QED BY <2>3, <2>4
<1>6. CASE UpdatePhase
  <2>1. /\ op \in Ops /\ op.step = "update" /\ UNCHANGED <<log, recorded, cut>> /\ op' = Idle
        /\ events'[p] = IF p \in op.projects /\ (op.move.steered \/ op.move.to # op.move.from)
                        THEN 0 ELSE events[p]
        BY <1>6, <1>t, UpdateStep
  <2>2. Credit(p)' = events'[p]
        BY <1>f, <2>1
  <2>3. CASE p \in op.projects /\ Leaves(op.move)
    <3>1. op.move.to # op.move.from
          BY <1>t, <2>1, <2>3, OpFacts DEF MoveInv, Moving, Leaves
    <3>2. Credit(p)' = 0
          BY <2>1, <2>2, <2>3, <3>1
    <3> QED BY <1>k, <1>m, <1>t, <2>1, <3>2
  <2>4. CASE ~(p \in op.projects /\ Leaves(op.move))
    <3>1. Credit(p) = events[p]
          BY <2>4 DEF Credit, Moving
    <3>2. events'[p] <= events[p]
          BY <1>t, <2>1
    <3> QED BY <1>k, <1>t, <2>1, <2>2, <3>1, <3>2
  <2> QED BY <2>3, <2>4
<1>7. CASE Drops
  <2>1. /\ Credit(p)' = events[p] /\ UNCHANGED <<log, recorded, events>>
        /\ cut'[p] = IF op.step = "update" /\ p \in op.projects THEN cut[p] + 1 ELSE cut[p]
        BY <1>7, <1>f, <1>t, CutFacts DEF Drops
  <2>2. Spent(p)' = Spent(p)
        BY <2>1 DEF Spent
  <2>3. CASE op.step = "update" /\ p \in op.projects
    <3>1. cut'[p] = cut[p] + 1 /\ Threshold * (cut[p] + 1) = Threshold * cut[p] + Threshold
          BY <1>t, <2>1, <2>3
    <3>2. Threshold * cut'[p] = Threshold * cut[p] + Threshold
          BY <3>1
    <3>3. Spent(p) <= recorded[p] + Threshold * cut[p]
          BY <1>i, <1>m, <1>t
    <3>4. \A s, a, r, t, h \in Nat : s <= r + t /\ a <= h => s + a <= r + (t + h)
          OBVIOUS
    <3>5. Spent(p) + events[p] <= recorded[p] + (Threshold * cut[p] + Threshold)
      <4>1. /\ Spent(p) \in Nat /\ events[p] \in Nat /\ recorded[p] \in Nat
            /\ Threshold * cut[p] \in Nat /\ Threshold \in Nat /\ events[p] <= Threshold
            BY <1>m, <1>t
      <4> QED BY <3>3, <3>4, <4>1
    <3> QED BY <2>1, <2>2, <3>2, <3>5
  <2>4. CASE ~(op.step = "update" /\ p \in op.projects)
    <3>1. Credit(p) = events[p] /\ cut'[p] = cut[p]
          BY <2>1, <2>4 DEF Credit, Moving
    <3> QED BY <1>k, <1>t, <2>1, <3>1
  <2> QED BY <2>3, <2>4
<1>8. CASE Rests
  <2>1. Credit(p)' = Credit(p)
        BY <1>8 DEF Rests, Credit, Moving, Leaves
  <2> QED BY <1>8, <1>k, <1>m, <1>t, <2>1 DEF Rests
<1> QED BY <1>1, <1>2, <1>3, <1>4, <1>5, <1>6, <1>7, <1>8, <1>t, Steps6

(* Every time the loop leaves observe on its own it uses up a threshold of *)
(* events; each transition of the project that is cut off between its two  *)
(* commits, by a restart or a refused statement, gives back at most one.   *)
THEOREM CyclesUseEvents == Spec => []CyclesAreEarned
<1>1. Init => CreditInv
  <2> SUFFICES ASSUME Init, NEW p \in Projects
               PROVE  Spent(p) + Credit(p) <= recorded[p] + Threshold * cut[p]
      BY DEF CreditInv
  <2>1. Left(log[p]) = {} /\ Credit(p) = 0 /\ recorded[p] = 0 /\ cut[p] = 0
        BY DEF Init, Left, Credit, Moving
  <2>2. Spent(p) = 0
        BY <2>1, FS_EmptySet, LoopAssumption DEF Spent
  <2> QED BY <2>1, <2>2, LoopAssumption
<1>2. LoopInv /\ CreditInv => CyclesAreEarned
  <2> SUFFICES ASSUME LoopInv, CreditInv, NEW p \in Projects
               PROVE  Spent(p) <= recorded[p] + Threshold * cut[p]
      BY DEF CyclesAreEarned, Spent, Left
  <2>1. Credit(p) \in Nat /\ recorded[p] \in Nat /\ Threshold * cut[p] \in Nat
        BY LoopAssumption DEF LoopInv, TypeOK, Credit
  <2>2. Spent(p) \in Nat
    <3>1. Len(log[p]) \in Nat /\ Left(log[p]) \in SUBSET (1..Len(log[p]))
          BY DEF LoopInv, TypeOK, Left
    <3>2. Cardinality(Left(log[p])) \in Nat
          BY <3>1, CountOf
    <3> QED BY <3>2, LoopAssumption DEF Spent
  <2> QED BY <2>1, <2>2 DEF CreditInv
<1> QED BY <1>1, <1>2, CreditStep, LoopInvariant, PTL DEF Spec
=============================================================================
