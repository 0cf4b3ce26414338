------------------------ MODULE HumanGatePlaneProofs ------------------------
(***************************************************************************)
(* Safety theorems about HumanGatePlane, for any requests, ideas, threads  *)
(* and bounds.                                                             *)
(*                                                                         *)
(* The tickets follow their lifecycle because every write but one asks     *)
(* whether the ticket is open.  The one that does not is the submit of the *)
(* mirror; it needs to know that a request is mirrored once, by the one    *)
(* route that created it.                                                  *)
(*                                                                         *)
(* The three places agree because a route leaves, after each of its calls, *)
(* a known part of the decision behind (Stage), and an undisturbed request *)
(* has no other route that could write there (InTurn).                     *)
(***************************************************************************)
EXTENDS HumanGatePlane, TLAPS

Routes == {"idle", "mirror_create", "touch", "mirror_resolve", "sync_ticket", "sync_idea",
           "resolve", "blind_resolve", "sync_gate", "mirror_escalate"}

Calls == [step : Routes, req : Requests \cup {NoRequest},
          verdict : Verdicts \cup {"none", "expired"}]

Rows == [status : IdeaStatuses, required : BOOLEAN, request : Requests \cup {NoRequest},
         verdict : Verdicts \cup {"none"}]

\* A route in progress has a request; one that carries a verdict to the gate or
\* the idea carries one a person can give.
RouteKnown ==
    \A th \in Threads :
        /\ ~At(th, "idle") => call[th].req \in Requests
        /\ At(th, "idle") => call[th].req = NoRequest
        /\ call[th].step \in {"mirror_resolve", "sync_ticket", "sync_idea", "sync_gate"} =>
             call[th].verdict \in Verdicts
        /\ call[th].step \in {"resolve", "blind_resolve"} =>
             call[th].verdict \in Lifecycle!Decisions

\* Nobody works on a request before it is created, and its ticket comes after.
Unborn == \A r \in Requests : gate[r] = "absent" => ticket[r] = "absent" /\ r \notin Busy

\* The mirror of a new request is the only one, and finds no ticket.
MirroredOnce ==
    \A th \in Threads : At(th, "mirror_create") =>
        /\ ticket[call[th].req] = "absent"
        /\ \A o \in Threads : At(o, "mirror_create") /\ call[o].req = call[th].req => o = th

PlaneInv == TypeOK /\ RouteKnown /\ Unborn /\ MirroredOnce

-----------------------------------------------------------------------------
LEMMA Names ==
    /\ Idle \in Calls /\ Idle.step = "idle" /\ Idle.req = NoRequest
    /\ Verdicts \subseteq GateStatuses /\ {"pending", "escalated"} \subseteq GateStatuses
    /\ Lifecycle!States = {"absent", "pending", "escalated", "approved", "rejected",
                           "expired", "withdrawn"}
    /\ Lifecycle!Decisions = {"approved", "rejected", "expired"}
BY DEF Idle, Calls, Routes, GateStatuses, Verdicts, Lifecycle!States, Lifecycle!Final,
       Lifecycle!Decisions

LEMMA TypeIs ==
    TypeOK <=> /\ gate \in [Requests -> GateStatuses]
               /\ about \in [Requests -> Ideas]
               /\ ticket \in [Requests -> Lifecycle!States]
               /\ idea \in [Ideas -> Rows]
               /\ call \in [Threads -> Calls]
               /\ disturbed \subseteq Requests /\ missed \subseteq Requests
               /\ crashes \in 0..MaxCrashes /\ faults \in 0..MaxFaults
BY DEF TypeOK, Rows, Calls, Routes

-----------------------------------------------------------------------------
(* What a step does to the calls.                                          *)

LEMMA EnterCall ==
    ASSUME TypeOK, NEW th \in Threads, NEW r \in Requests, NEW step \in Routes,
           NEW v \in Verdicts \cup {"none", "expired"}, Enter(th, r, step, v)
    PROVE  /\ At(th, "idle")
           /\ call' \in [Threads -> Calls]
           /\ call'[th] = [step |-> step, req |-> r, verdict |-> v]
           /\ call'[th].step = step /\ call'[th].req = r
           /\ \A o \in Threads : o # th => call'[o] = call[o]
<1>1. call \in [Threads -> Calls]
  BY TypeIs
<1>2. [step |-> step, req |-> r, verdict |-> v] \in Calls
  BY DEF Calls
<1> QED BY <1>1, <1>2, Names DEF Enter, At

LEMMA GotoCall ==
    ASSUME TypeOK, NEW th \in Threads, NEW step \in Routes, Goto(th, step)
    PROVE  /\ call' \in [Threads -> Calls]
           /\ call'[th].step = step
           /\ step = "idle" => call'[th] = Idle
           /\ step # "idle" => /\ call'[th].req = call[th].req
                               /\ call'[th].verdict = call[th].verdict
           /\ \A o \in Threads : o # th => call'[o] = call[o]
<1>1. call \in [Threads -> Calls] /\ call[th] \in Calls
  BY TypeIs
<1>2. CASE step = "idle"
  BY <1>1, <1>2, Names DEF Goto
<1>3. CASE step # "idle"
  <2> DEFINE new == [call[th] EXCEPT !.step = step]
  <2>1. /\ new \in Calls /\ new.step = step /\ new.req = call[th].req
        /\ new.verdict = call[th].verdict
    BY <1>1 DEF Calls
  <2>2. call' = [call EXCEPT ![th] = new]
    BY <1>3 DEF Goto
  <2> HIDE DEF new
  <2> QED BY <1>1, <1>3, <2>1, <2>2
<1> QED BY <1>2, <1>3

LEMMA ResolvedToType ==
    ASSUME TypeOK, NEW r \in Requests, NEW s \in Lifecycle!States
    PROVE  /\ ResolvedTo(r, s) \in [Requests -> Lifecycle!States]
           /\ \A q \in Requests : ticket[q] \notin Open => ResolvedTo(r, s)[q] = ticket[q]
           /\ \A q \in Requests : ResolvedTo(r, s)[q] \in {ticket[q], s}
BY DEF TypeOK, ResolvedTo

LEMMA BusyIs ==
    \A r \in Requests : r \in Busy <=> \E th \in Threads : call[th].req = r
BY PlaneAssumption DEF Busy

LEMMA OverlapType == ASSUME NEW r \in Requests PROVE Overlap(r) \subseteq Requests
BY DEF Overlap, Siblings
-----------------------------------------------------------------------------
(* Types.                                                                  *)

LEMMA TypeInit == Init => TypeOK
<1> SUFFICES ASSUME Init PROVE TypeOK
  OBVIOUS
<1>1. 0 \in 0..MaxCrashes /\ 0 \in 0..MaxFaults
  BY PlaneAssumption
<1>2. gate \in [Requests -> GateStatuses] /\ ticket \in [Requests -> Lifecycle!States]
  BY Names DEF Init, GateStatuses
<1>3. idea \in [Ideas -> Rows]
  BY DEF Init, Rows, IdeaStatuses
<1>4. call \in [Threads -> Calls]
  BY Names DEF Init
<1> QED BY <1>1, <1>2, <1>3, <1>4, TypeIs DEF Init

\* The steps a route goes through, with what each writes.
LEMMA BeginType ==
    ASSUME TypeOK, RouteKnown, NEW th \in Threads, NEW r \in Requests, Begin(th, r)
    PROVE  TypeOK' /\ RouteKnown'
<1>1. ASSUME NEW step \in Routes \ {"idle"}, NEW v \in Verdicts \cup {"none", "expired"},
             Enter(th, r, step, v),
             step \in {"mirror_resolve", "sync_ticket", "sync_idea", "sync_gate"} =>
               v \in Verdicts,
             step \in {"resolve", "blind_resolve"} => v \in Lifecycle!Decisions
      PROVE  call' \in [Threads -> Calls] /\ RouteKnown'
  <2>1. /\ call' \in [Threads -> Calls]
        /\ call'[th] = [step |-> step, req |-> r, verdict |-> v]
        /\ \A o \in Threads : o # th => call'[o] = call[o]
    BY <1>1, EnterCall
  <2> QED BY <1>1, <2>1 DEF RouteKnown, At
<1>2. CASE RequestApproval(th, r)
  <2>1. call' \in [Threads -> Calls] /\ RouteKnown'
    BY <1>1, <1>2 DEF RequestApproval, Routes
  <2>2. gate' \in [Requests -> GateStatuses]
    BY <1>2, Names DEF RequestApproval, TypeOK
  <2>3. disturbed' \subseteq Requests /\ missed' \subseteq Requests
    BY <1>2, OverlapType DEF RequestApproval, TypeOK
  <2> QED BY <1>2, <2>1, <2>2, <2>3, TypeIs DEF RequestApproval, TypeOK, Rows, Calls, Routes
<1>3. CASE EscalateRequest(th, r)
  <2>1. call' \in [Threads -> Calls] /\ RouteKnown'
    BY <1>1, <1>3 DEF EscalateRequest, Routes
  <2>2. gate' \in [Requests -> GateStatuses]
    BY <1>3, Names DEF EscalateRequest, TypeOK
  <2>3. disturbed' \subseteq Requests /\ missed' \subseteq Requests
    BY <1>3, OverlapType DEF EscalateRequest, TypeOK
  <2> QED BY <1>3, <2>1, <2>2, <2>3, TypeIs DEF EscalateRequest, TypeOK, Rows, Calls, Routes
<1>4. ASSUME NEW v \in Verdicts, SubmitReview(th, r, v) PROVE TypeOK' /\ RouteKnown'
  <2>1. call' \in [Threads -> Calls] /\ RouteKnown'
    BY <1>1, <1>4 DEF SubmitReview, Routes
  <2>2. gate' \in [Requests -> GateStatuses]
    BY <1>4, Names DEF SubmitReview, TypeOK
  <2>3. disturbed' \subseteq Requests /\ missed' \subseteq Requests
    BY <1>4, OverlapType DEF SubmitReview, TypeOK, TooEarly
  <2> QED BY <1>4, <2>1, <2>2, <2>3, TypeIs DEF SubmitReview, TypeOK, Rows, Calls, Routes
<1>5. ASSUME NEW d \in {"approved", "rejected", "expired"}, ReadTicketBefore(th, r, d)
      PROVE  TypeOK' /\ RouteKnown'
  <2>1. d \in Verdicts \cup {"none", "expired"} /\ d \in Lifecycle!Decisions
    BY Names DEF Verdicts
  <2>2. call' \in [Threads -> Calls] /\ RouteKnown'
    BY <1>1, <1>5, <2>1 DEF ReadTicketBefore, Routes
  <2>3. disturbed' \subseteq Requests /\ missed' \subseteq Requests
    BY <1>5, OverlapType DEF ReadTicketBefore, TypeOK, TooEarly
  <2> QED BY <1>5, <2>2, <2>3, TypeIs DEF ReadTicketBefore, TypeOK, Rows, Calls, Routes
<1> QED BY <1>2, <1>3, <1>4, <1>5 DEF Begin

LEMMA StatusAfterType == \A v \in Verdicts : StatusAfter(v) \in IdeaStatuses
BY DEF StatusAfter, Verdicts, IdeaStatuses

\* A route goes on: the step it reaches needs no verdict that it lacks.
LEMMA GotoKnown ==
    ASSUME TypeOK, RouteKnown, NEW th \in Threads, NEW step \in Routes, Goto(th, step),
           ~At(th, "idle"),
           step \in {"mirror_resolve", "sync_ticket", "sync_idea", "sync_gate"} =>
             call[th].verdict \in Verdicts,
           step \notin {"resolve", "blind_resolve"}
    PROVE  call' \in [Threads -> Calls] /\ RouteKnown'
<1>1. /\ call' \in [Threads -> Calls] /\ call'[th].step = step
      /\ step = "idle" => call'[th] = Idle
      /\ step # "idle" => /\ call'[th].req = call[th].req
                          /\ call'[th].verdict = call[th].verdict
      /\ \A o \in Threads : o # th => call'[o] = call[o]
  BY GotoCall
<1>2. call[th].req \in Requests
  BY DEF RouteKnown
<1>3. CASE step = "idle"
  BY <1>1, <1>3, Names DEF RouteKnown, At
<1>4. CASE step # "idle"
  BY <1>1, <1>2, <1>4 DEF RouteKnown, At
<1> QED BY <1>1, <1>3, <1>4

LEMMA ContinueType ==
    ASSUME TypeOK, RouteKnown, NEW th \in Threads, Continue(th)
    PROVE  TypeOK' /\ RouteKnown'
<1> DEFINE r == call[th].req
           v == call[th].verdict
<1>1. /\ ~At(th, "idle") => r \in Requests /\ about[r] \in Ideas
      /\ call[th].step \in {"mirror_resolve", "sync_ticket", "sync_idea", "sync_gate"} =>
           v \in Verdicts
      /\ call[th].step \in {"resolve", "blind_resolve"} => v \in Lifecycle!Decisions
  BY DEF RouteKnown, TypeOK
<1>2. /\ gate \in [Requests -> GateStatuses] /\ ticket \in [Requests -> Lifecycle!States]
      /\ idea \in [Ideas -> Rows]
  BY TypeIs
<1>3. {"idle", "touch", "sync_ticket", "sync_idea", "sync_gate"} \subseteq Routes
  BY DEF Routes
<1>4. CASE MirrorCreate(th)
  <2>1. call' \in [Threads -> Calls] /\ RouteKnown'
    BY <1>3, <1>4, GotoKnown DEF MirrorCreate, At
  <2>2. ticket' \in [Requests -> Lifecycle!States]
    BY <1>2, <1>4, Names DEF MirrorCreate
  <2> QED BY <1>4, <2>1, <2>2 DEF MirrorCreate, TypeOK, Calls, Routes
<1>5. CASE TouchAwaiting(th)
  <2>1. call' \in [Threads -> Calls] /\ RouteKnown'
    BY <1>3, <1>5, GotoKnown DEF TouchAwaiting, At
  <2>2. [status |-> "awaiting_approval", required |-> TRUE, request |-> r, verdict |-> "none"]
          \in Rows
    BY <1>1, <1>5 DEF TouchAwaiting, At, Rows, IdeaStatuses
  <2>3. idea' \in [Ideas -> Rows]
    BY <1>2, <1>5, <2>2 DEF TouchAwaiting
  <2> QED BY <1>5, <2>1, <2>3 DEF TouchAwaiting, TypeOK, Calls, Routes, Rows
<1>6. CASE MirrorResolve(th) \/ SyncTicket(th)
  <2>1. call' \in [Threads -> Calls] /\ RouteKnown'
    BY <1>1, <1>3, <1>6, GotoKnown DEF MirrorResolve, SyncTicket, At
  <2>2. ticket' \in [Requests -> Lifecycle!States]
    <3>1. v \in Verdicts /\ r \in Requests
      BY <1>1, <1>6 DEF MirrorResolve, SyncTicket, At
    <3>2. CASE v = "needs_info"
      BY <1>2, <1>6, <3>2 DEF MirrorResolve, SyncTicket
    <3>3. CASE v # "needs_info"
      <4>1. v \in Lifecycle!States
        BY <3>1, <3>3, Names DEF Verdicts
      <4>2. ticket' = ResolvedTo(r, v)
        BY <1>6, <3>3 DEF MirrorResolve, SyncTicket
      <4> QED BY <3>1, <4>1, <4>2, ResolvedToType
    <3> QED BY <3>2, <3>3
  <2> QED BY <1>6, <2>1, <2>2 DEF MirrorResolve, SyncTicket, TypeOK, Calls, Routes
<1>7. CASE SyncIdea(th)
  <2>1. call' \in [Threads -> Calls] /\ RouteKnown'
    BY <1>3, <1>7, GotoKnown DEF SyncIdea, At
  <2>2. idea' \in [Ideas -> Rows] /\ idea[about[r]].request \in Requests \cup {NoRequest}
    <3>1. r \in Requests /\ v \in Verdicts /\ about[r] \in Ideas
      BY <1>1, <1>7 DEF SyncIdea, At
    <3>2. idea[about[r]] \in Rows
      BY <1>2, <3>1
    <3>3. [idea[about[r]] EXCEPT !.status = StatusAfter(v), !.verdict = v,
                                 !.required = (v = "needs_info")] \in Rows
      BY <3>1, <3>2, StatusAfterType DEF Rows
    <3> DEFINE new == [idea[about[r]] EXCEPT !.status = StatusAfter(v), !.verdict = v,
                                 !.required = (v = "needs_info")]
    <3>4. idea' = idea \/ idea' = [idea EXCEPT ![about[r]] = new]
      BY <1>2, <1>7, <3>1 DEF SyncIdea
    <3> HIDE DEF new
    <3>5. idea' \in [Ideas -> Rows]
      BY <1>2, <3>3, <3>4 DEF new
    <3> QED BY <3>2, <3>5 DEF Rows
  <2>3. disturbed' \subseteq Requests
    BY <1>7, <2>2 DEF SyncIdea, TypeOK
  <2> QED BY <1>7, <2>1, <2>2, <2>3 DEF SyncIdea, TypeOK, Calls, Routes, Rows
<1>8. CASE ResolveTicket(th)
  <2>1. r \in Requests /\ v \in Lifecycle!Decisions
    BY <1>1, <1>8 DEF ResolveTicket, At
  <2>2. CASE At(th, "resolve") /\ ticket[r] \in Open /\ v # "expired"
    <3>1. Goto(th, "sync_gate") /\ v \in Verdicts
      BY <1>8, <2>1, <2>2, Names DEF ResolveTicket, Verdicts
    <3>2. call' \in [Threads -> Calls] /\ RouteKnown'
      BY <1>3, <2>2, <3>1, GotoKnown DEF At
    <3>3. ticket' \in [Requests -> Lifecycle!States]
      BY <1>8, <2>1, ResolvedToType, Names DEF ResolveTicket
    <3> QED BY <1>8, <3>2, <3>3 DEF ResolveTicket, TypeOK, Calls, Routes
  <2>3. CASE ~(At(th, "resolve") /\ ticket[r] \in Open /\ v # "expired")
    <3>1. Goto(th, "idle")
      BY <1>8, <2>3 DEF ResolveTicket
    <3>2. call' \in [Threads -> Calls] /\ RouteKnown'
      BY <1>3, <1>8, <3>1, GotoKnown DEF ResolveTicket, At
    <3>3. ticket' \in [Requests -> Lifecycle!States]
      BY <1>8, <2>1, ResolvedToType, Names DEF ResolveTicket
    <3> QED BY <1>8, <3>2, <3>3 DEF ResolveTicket, TypeOK, Calls, Routes
  <2> QED BY <2>2, <2>3
<1>9. CASE SyncGate(th)
  <2>1. r \in Requests /\ v \in Verdicts
    BY <1>1, <1>9 DEF SyncGate, At
  <2>2. call' \in [Threads -> Calls] /\ RouteKnown'
    BY <1>3, <1>9, <2>1, GotoKnown DEF SyncGate, At
  <2>3. gate' \in [Requests -> GateStatuses]
    BY <1>2, <1>9, <2>1, Names DEF SyncGate
  <2> QED BY <1>9, <2>2, <2>3 DEF SyncGate, TypeOK, Calls, Routes
<1>10. CASE MirrorEscalate(th)
  <2>1. call' \in [Threads -> Calls] /\ RouteKnown'
    BY <1>3, <1>10, GotoKnown DEF MirrorEscalate, At
  <2>2. ticket' \in [Requests -> Lifecycle!States]
    BY <1>1, <1>10, ResolvedToType, Names DEF MirrorEscalate, At
  <2> QED BY <1>10, <2>1, <2>2 DEF MirrorEscalate, TypeOK, Calls, Routes
<1> QED BY <1>4, <1>5, <1>6, <1>7, <1>8, <1>9, <1>10 DEF Continue

LEMMA FailsType ==
    ASSUME TypeOK, RouteKnown, NEW th \in Threads, MirrorFails(th)
    PROVE  TypeOK' /\ RouteKnown'
<1>1. PICK step \in {"touch", "sync_ticket", "sync_idea", "idle"} :
        /\ Goto(th, step)
        /\ ~At(th, "idle")
        /\ step \in {"sync_ticket", "sync_idea"} =>
             call[th].step \in {"mirror_resolve", "sync_ticket", "sync_gate"}
  BY DEF MirrorFails, At
<1>2. call[th].req \in Requests
  BY <1>1 DEF RouteKnown
<1>3. step \in Routes
  BY DEF Routes
<1>4. call' \in [Threads -> Calls] /\ RouteKnown'
  BY <1>1, <1>3, GotoKnown DEF RouteKnown
<1>5. faults' \in 0..MaxFaults
  BY PlaneAssumption DEF MirrorFails, TypeOK
<1>6. disturbed' \subseteq Requests /\ missed' \subseteq Requests
  BY <1>2 DEF MirrorFails, TypeOK
<1> QED BY <1>4, <1>5, <1>6 DEF MirrorFails, TypeOK, Calls, Routes

LEMMA OthersType ==
    ASSUME TypeOK, RouteKnown,
           \/ \E r \in Requests : WithdrawTicket(r)
           \/ \E i \in Ideas : RequestLost(i) \/ DeleteIdea(i) \/ \E s \in PutStatuses : SetStatus(i, s)
           \/ Crash
           \/ UNCHANGED vars
    PROVE  TypeOK' /\ RouteKnown'
<1>1. idea \in [Ideas -> Rows] /\ ticket \in [Requests -> Lifecycle!States]
  BY TypeIs
<1>2. ASSUME NEW r \in Requests, WithdrawTicket(r) PROVE TypeOK' /\ RouteKnown'
  <2>1. ticket' \in [Requests -> Lifecycle!States]
    BY <1>1, <1>2, Names DEF WithdrawTicket
  <2> QED BY <1>2, <2>1 DEF WithdrawTicket, TypeOK, RouteKnown, At
<1>3. ASSUME NEW i \in Ideas, RequestLost(i) PROVE TypeOK' /\ RouteKnown'
  <2>1. [status |-> "awaiting_approval", required |-> TRUE, request |-> NoRequest,
         verdict |-> "none"] \in Rows
    BY DEF Rows, IdeaStatuses
  <2>2. idea' \in [Ideas -> Rows]
    BY <1>1, <1>3, <2>1 DEF RequestLost
  <2>3. faults' \in 0..MaxFaults
    BY <1>3, PlaneAssumption DEF RequestLost, TypeOK
  <2> QED BY <1>3, <2>2, <2>3 DEF RequestLost, TypeOK, RouteKnown, At, Rows
<1>4. ASSUME NEW i \in Ideas, NEW s \in IdeaStatuses,
             idea' = [idea EXCEPT ![i].status = s],
             UNCHANGED <<gate, about, ticket, call, disturbed, missed, crashes, faults>>
      PROVE  TypeOK' /\ RouteKnown'
  <2> DEFINE new == [idea[i] EXCEPT !.status = s]
  <2>1. new \in Rows
    BY <1>1 DEF Rows
  <2>2. idea' = [idea EXCEPT ![i] = new]
    BY <1>4
  <2> HIDE DEF new
  <2>3. idea' \in [Ideas -> Rows]
    BY <1>1, <2>1, <2>2
  <2> QED BY <1>4, <2>3 DEF TypeOK, RouteKnown, At, Rows
<1>5. CASE \E i \in Ideas : DeleteIdea(i) \/ \E s \in PutStatuses : SetStatus(i, s)
  BY <1>4, <1>5, PutAssumption DEF DeleteIdea, SetStatus, IdeaStatuses
<1>6. CASE Crash
  <2>1. call' \in [Threads -> Calls] /\ RouteKnown'
    BY <1>6, Names DEF Crash, RouteKnown, At
  <2>2. Busy \subseteq Requests
    BY DEF Busy, TypeOK
  <2>3. crashes' \in 0..MaxCrashes
    BY <1>6, PlaneAssumption DEF Crash, TypeOK
  <2> QED BY <1>6, <2>1, <2>2, <2>3 DEF Crash, TypeOK, Calls, Routes
<1>7. CASE UNCHANGED vars
  BY <1>7 DEF vars, TypeOK, RouteKnown, At
<1> QED BY <1>2, <1>3, <1>5, <1>6, <1>7

LEMMA TypeStep == TypeOK /\ RouteKnown /\ [Next]_vars => TypeOK' /\ RouteKnown'
BY BeginType, ContinueType, FailsType, OthersType DEF Next

LEMMA TypeInvariant == Spec => [](TypeOK /\ RouteKnown)
<1>1. Init => RouteKnown
  BY Names DEF Init, RouteKnown, At
<1> QED BY <1>1, TypeInit, TypeStep, PTL DEF Spec

(* Requests, tickets, ideas and the routes in progress keep their types.   *)
THEOREM TypeCorrect == Spec => []TypeOK
BY TypeInvariant, PTL

-----------------------------------------------------------------------------
(* No bypass, and the lock.                                                *)

\* Only these writes touch an idea: a new request, a verdict, a guarded status.
LEMMA IdeaMoves ==
    ASSUME TypeOK, RouteKnown, [Next]_vars, NEW i \in Ideas
    PROVE  \/ idea'[i] = idea[i]
           \/ idea'[i].status = "awaiting_approval" /\ idea'[i].required
           \/ \E th \in Threads :
                /\ At(th, "sync_idea") /\ about[call[th].req] = i
                /\ call[th].verdict \in Verdicts
                /\ idea'[i].status = StatusAfter(call[th].verdict)
                /\ idea'[i].verdict = call[th].verdict
                /\ idea'[i].required = (call[th].verdict = "needs_info")
           \/ /\ UNCHANGED <<idea[i].required, idea[i].verdict>>
              /\ idea'[i].status \in Protected => ~GatePending(i)
<1> DEFINE Moved ==
           \/ idea'[i] = idea[i]
           \/ idea'[i].status = "awaiting_approval" /\ idea'[i].required
           \/ \E th \in Threads :
                /\ At(th, "sync_idea") /\ about[call[th].req] = i
                /\ call[th].verdict \in Verdicts
                /\ idea'[i].status = StatusAfter(call[th].verdict)
                /\ idea'[i].verdict = call[th].verdict
                /\ idea'[i].required = (call[th].verdict = "needs_info")
           \/ /\ UNCHANGED <<idea[i].required, idea[i].verdict>>
              /\ idea'[i].status \in Protected => ~GatePending(i)
<1>1. idea \in [Ideas -> Rows] /\ idea[i] \in Rows
  BY TypeIs
<1>2. ASSUME NEW th \in Threads, Continue(th) PROVE Moved
  <2>1. CASE TouchAwaiting(th)
    BY <1>1, <2>1 DEF TouchAwaiting
  <2>2. CASE SyncIdea(th)
    <3>1. call[th].verdict \in Verdicts /\ At(th, "sync_idea")
      BY <2>2 DEF SyncIdea, RouteKnown, At
    <3>2. CASE about[call[th].req] = i
      <4>1. \/ idea' = idea
            \/ idea' = [idea EXCEPT ![i].status = StatusAfter(call[th].verdict),
                                   ![i].verdict = call[th].verdict,
                                   ![i].required = (call[th].verdict = "needs_info")]
        BY <2>2, <3>2 DEF SyncIdea
      <4>2. CASE idea' = [idea EXCEPT ![i].status = StatusAfter(call[th].verdict),
                                      ![i].verdict = call[th].verdict,
                                      ![i].required = (call[th].verdict = "needs_info")]
        <5>1. idea'[i] = [idea[i] EXCEPT !.status = StatusAfter(call[th].verdict),
                                         !.verdict = call[th].verdict,
                                         !.required = (call[th].verdict = "needs_info")]
          BY <1>1, <4>2
        <5>2. /\ idea'[i].status = StatusAfter(call[th].verdict)
              /\ idea'[i].verdict = call[th].verdict
              /\ idea'[i].required = (call[th].verdict = "needs_info")
          BY <1>1, <5>1 DEF Rows
        <5> QED BY <3>1, <3>2, <5>2
      <4> QED BY <4>1, <4>2
    <3>3. CASE about[call[th].req] # i
      BY <1>1, <2>2, <3>3 DEF SyncIdea
    <3> QED BY <3>2, <3>3
  <2> QED BY <1>2, <2>1, <2>2 DEF Continue, MirrorCreate, MirrorResolve, SyncTicket,
                                  ResolveTicket, SyncGate, MirrorEscalate
<1>3. ASSUME NEW j \in Ideas, RequestLost(j) PROVE Moved
  BY <1>1, <1>3 DEF RequestLost
<1>4. ASSUME NEW j \in Ideas, DeleteIdea(j) PROVE Moved
  BY <1>1, <1>4 DEF DeleteIdea, Rows, Protected
<1>5. ASSUME NEW j \in Ideas, NEW status \in PutStatuses, SetStatus(j, status) PROVE Moved
  BY <1>1, <1>5 DEF SetStatus, Rows
<1>6. CASE UNCHANGED idea
  BY <1>6
<1>7. \/ UNCHANGED idea
      \/ \E th \in Threads : Continue(th)
      \/ \E j \in Ideas : RequestLost(j) \/ DeleteIdea(j) \/ \E s \in PutStatuses : SetStatus(j, s)
  BY DEF Next, Begin, RequestApproval, EscalateRequest, SubmitReview, ReadTicketBefore,
         MirrorFails, WithdrawTicket, Crash, vars
<1> QED BY <1>2, <1>3, <1>4, <1>5, <1>6, <1>7

LEMMA NoBypassStep == TypeOK /\ RouteKnown /\ NoBypass /\ [Next]_vars => NoBypass'
<1> SUFFICES ASSUME TypeOK, RouteKnown, NoBypass, [Next]_vars, NEW i \in Ideas,
                    idea'[i].status \in Protected
             PROVE  ~(idea'[i].required /\ idea'[i].verdict # "approved")
  BY DEF NoBypass, GatePending
<1>1. ~(idea[i].status \in Protected /\ idea[i].required /\ idea[i].verdict # "approved")
  BY DEF NoBypass, GatePending
<1>2. "awaiting_approval" \notin Protected /\ "clarification" \notin Protected
  BY DEF Protected
<1>3. ASSUME NEW th \in Threads, call[th].verdict \in Verdicts,
             idea'[i].status = StatusAfter(call[th].verdict),
             idea'[i].required = (call[th].verdict = "needs_info")
      PROVE  ~idea'[i].required
  BY <1>2, <1>3 DEF StatusAfter
<1> QED BY <1>1, <1>2, <1>3, IdeaMoves DEF GatePending

(* No interleaving of reviews, resolves, edits, promotions, failures and   *)
(* restarts accepts an idea whose gate still needs a decision.             *)
THEOREM NeverBypassed == Spec => []NoBypass
<1>1. Init => NoBypass
  BY DEF Init, NoBypass, Protected
<1> QED BY <1>1, NoBypassStep, TypeInvariant, PTL DEF Spec

(* The lock of an idea opens only for an approval or a rejection.          *)
THEOREM LockIsHeld == Spec => LockHeld
<1>1. TypeOK /\ RouteKnown /\ [Next]_vars =>
        [\A i \in Ideas :
           idea[i].required /\ ~idea'[i].required =>
             \E th \in Threads : /\ At(th, "sync_idea") /\ about[call[th].req] = i
                                 /\ call[th].verdict \in {"approved", "rejected"}]_vars
  <2> SUFFICES ASSUME TypeOK, RouteKnown, [Next]_vars, NEW i \in Ideas,
                      idea[i].required, ~idea'[i].required
               PROVE  \E th \in Threads : /\ At(th, "sync_idea") /\ about[call[th].req] = i
                                          /\ call[th].verdict \in {"approved", "rejected"}
    OBVIOUS
  <2> QED BY IdeaMoves DEF Verdicts
<1> QED BY <1>1, TypeInvariant, PTL DEF Spec, LockHeld

-----------------------------------------------------------------------------
(* The tickets.                                                            *)

LEMMA RouteGoesOn ==
    ASSUME TypeOK, NEW th \in Threads, Continue(th) \/ MirrorFails(th)
    PROVE  ~At(th, "idle") /\ \E step \in Routes \ {"mirror_create"} : Goto(th, step)
BY DEF Continue, MirrorFails, MirrorCreate, TouchAwaiting, MirrorResolve, SyncTicket, SyncIdea,
       ResolveTicket, SyncGate, MirrorEscalate, At, Routes

\* What a step does to a ticket.
LEMMA TicketMoves ==
    ASSUME PlaneInv, [Next]_vars, NEW q \in Requests
    PROVE  \/ ticket'[q] = ticket[q]
           \/ /\ ticket[q] \in Open
              /\ ticket'[q] \in {"approved", "rejected", "expired", "escalated"}
           \/ ticket[q] = "pending" /\ ticket'[q] = "withdrawn"
           \/ /\ ticket[q] = "absent" /\ ticket'[q] = "pending"
              /\ \E th \in Threads : MirrorCreate(th) /\ call[th].req = q
<1> DEFINE Moved ==
           \/ ticket'[q] = ticket[q]
           \/ /\ ticket[q] \in Open
              /\ ticket'[q] \in {"approved", "rejected", "expired", "escalated"}
           \/ ticket[q] = "pending" /\ ticket'[q] = "withdrawn"
           \/ /\ ticket[q] = "absent" /\ ticket'[q] = "pending"
              /\ \E th \in Threads : MirrorCreate(th) /\ call[th].req = q
<1>1. TypeOK /\ RouteKnown /\ ticket \in [Requests -> Lifecycle!States]
  BY TypeIs DEF PlaneInv
<1>2. ASSUME NEW r, NEW state \in {"approved", "rejected", "expired", "escalated"},
             ticket' = ResolvedTo(r, state)
      PROVE  Moved
  BY <1>1, <1>2 DEF ResolvedTo
<1>3. ASSUME NEW th \in Threads, MirrorCreate(th) PROVE Moved
  <2>1. ticket[call[th].req] = "absent"
    BY <1>3 DEF PlaneInv, MirroredOnce, MirrorCreate
  <2> QED BY <1>1, <1>3, <2>1 DEF MirrorCreate
<1>4. ASSUME NEW th \in Threads, MirrorResolve(th) \/ SyncTicket(th) PROVE Moved
  <2>1. call[th].verdict \in Verdicts
    BY <1>1, <1>4 DEF MirrorResolve, SyncTicket, RouteKnown, At
  <2> QED BY <1>2, <1>4, <2>1 DEF MirrorResolve, SyncTicket, Verdicts
<1>5. ASSUME NEW th \in Threads, ResolveTicket(th) PROVE Moved
  <2>1. call[th].verdict \in Lifecycle!Decisions
    BY <1>1, <1>5 DEF ResolveTicket, RouteKnown, At
  <2> QED BY <1>2, <1>5, <2>1, Names DEF ResolveTicket
<1>6. ASSUME NEW th \in Threads, MirrorEscalate(th) PROVE Moved
  BY <1>2, <1>6 DEF MirrorEscalate
<1>7. ASSUME NEW r \in Requests, WithdrawTicket(r) PROVE Moved
  BY <1>1, <1>7 DEF WithdrawTicket
<1>8. \/ UNCHANGED ticket
      \/ \E r \in Requests : WithdrawTicket(r)
      \/ \E th \in Threads : \/ MirrorCreate(th) \/ MirrorResolve(th) \/ SyncTicket(th)
                             \/ ResolveTicket(th) \/ MirrorEscalate(th)
  BY DEF Next, Begin, Continue, RequestApproval, EscalateRequest, SubmitReview,
         ReadTicketBefore, TouchAwaiting, SyncIdea, SyncGate, MirrorFails, RequestLost,
         DeleteIdea, SetStatus, Crash, vars
<1> QED BY <1>3, <1>4, <1>5, <1>6, <1>7, <1>8

\* What a step does to the requests and the calls.
LEMMA CallMoves ==
    ASSUME PlaneInv, [Next]_vars
    PROVE  \/ \E th \in Threads, r \in Requests :
                /\ RequestApproval(th, r)
                /\ call'[th].step = "mirror_create" /\ call'[th].req = r
                /\ \A o \in Threads : o # th => call'[o] = call[o]
           \/ \E th \in Threads :
                /\ call'[th].step # "mirror_create"
                /\ \A o \in Threads : o # th => call'[o] = call[o]
                /\ \/ call'[th].req \in {call[th].req, NoRequest}
                   \/ call'[th].req \in Requests /\ gate[call'[th].req] # "absent"
                /\ \A q \in Requests : gate[q] # "absent" => gate'[q] # "absent"
           \/ /\ \A th \in Threads : call'[th] \in {call[th], Idle}
              /\ UNCHANGED gate
<1>1. TypeOK /\ RouteKnown /\ gate \in [Requests -> GateStatuses]
  BY TypeIs DEF PlaneInv
<1>2. ASSUME NEW th \in Threads, NEW r \in Requests, RequestApproval(th, r)
      PROVE  /\ call'[th].step = "mirror_create" /\ call'[th].req = r
             /\ \A o \in Threads : o # th => call'[o] = call[o]
  <2>1. call' = [call EXCEPT ![th] = [step |-> "mirror_create", req |-> r, verdict |-> "none"]]
    BY <1>2 DEF RequestApproval, Enter
  <2>2. call \in [Threads -> Calls]
    BY <1>1, TypeIs
  <2> QED BY <2>1, <2>2
<1>3. ASSUME NEW th \in Threads, NEW r \in Requests,
             NEW step \in Routes \ {"mirror_create"},
             NEW v \in Verdicts \cup {"none", "expired"},
             Enter(th, r, step, v), gate[r] # "absent"
      PROVE  /\ call'[th].step # "mirror_create"
             /\ \A o \in Threads : o # th => call'[o] = call[o]
             /\ call'[th].req \in Requests /\ gate[call'[th].req] # "absent"
  <2>1. /\ call'[th].step = step /\ call'[th].req = r
        /\ \A o \in Threads : o # th => call'[o] = call[o]
    BY <1>1, <1>3, EnterCall
  <2> QED BY <1>3, <2>1
<1>4. ASSUME NEW th \in Threads, NEW r \in Requests,
             \/ EscalateRequest(th, r)
             \/ \E v \in Verdicts : SubmitReview(th, r, v)
             \/ \E d \in {"approved", "rejected", "expired"} : ReadTicketBefore(th, r, d)
      PROVE  /\ call'[th].step # "mirror_create"
             /\ \A o \in Threads : o # th => call'[o] = call[o]
             /\ call'[th].req \in Requests /\ gate[call'[th].req] # "absent"
             /\ \A q \in Requests : gate[q] # "absent" => gate'[q] # "absent"
  <2>1. \E step \in Routes \ {"mirror_create"}, v \in Verdicts \cup {"none", "expired"} :
          Enter(th, r, step, v)
    BY <1>4 DEF EscalateRequest, SubmitReview, ReadTicketBefore, Routes, Verdicts
  <2>2. gate[r] # "absent"
    BY <1>4 DEF EscalateRequest, SubmitReview, ReadTicketBefore
  <2>3. \A q \in Requests : gate[q] # "absent" => gate'[q] # "absent"
    BY <1>1, <1>4 DEF EscalateRequest, SubmitReview, ReadTicketBefore, Verdicts
  <2> QED BY <1>3, <2>1, <2>2, <2>3
<1>5. ASSUME NEW th \in Threads, Continue(th) \/ MirrorFails(th)
      PROVE  /\ call'[th].step # "mirror_create"
             /\ \A o \in Threads : o # th => call'[o] = call[o]
             /\ call'[th].req \in {call[th].req, NoRequest}
             /\ \A q \in Requests : gate[q] # "absent" => gate'[q] # "absent"
  <2>1. PICK step \in Routes \ {"mirror_create"} : Goto(th, step)
    BY <1>1, <1>5, RouteGoesOn
  <2>2. CASE SyncGate(th)
    <3>1. call[th].verdict \in Verdicts
      BY <1>1, <2>2 DEF SyncGate, RouteKnown, At
    <3>2. \A q \in Requests : gate[q] # "absent" => gate'[q] # "absent"
      BY <1>1, <2>2, <3>1 DEF SyncGate, Verdicts
    <3> QED BY <1>1, <2>1, <3>2, GotoCall, Names
  <2>3. CASE ~SyncGate(th)
    <3>1. UNCHANGED gate
      BY <1>5, <2>3 DEF Continue, MirrorFails, MirrorCreate, TouchAwaiting, MirrorResolve,
                        SyncTicket, SyncIdea, ResolveTicket, MirrorEscalate
    <3> QED BY <1>1, <2>1, <3>1, GotoCall, Names
  <2> QED BY <2>2, <2>3
<1>6. CASE \/ Crash \/ UNCHANGED vars
           \/ \E r \in Requests : WithdrawTicket(r)
           \/ \E i \in Ideas : RequestLost(i) \/ DeleteIdea(i) \/ \E s \in PutStatuses : SetStatus(i, s)
  BY <1>6 DEF Crash, vars, WithdrawTicket, RequestLost, DeleteIdea, SetStatus
<1> QED BY <1>2, <1>4, <1>5, <1>6 DEF Next, Begin

LEMMA PlaneStep == PlaneInv /\ [Next]_vars => PlaneInv'
<1> SUFFICES ASSUME PlaneInv, [Next]_vars PROVE PlaneInv'
  OBVIOUS
<1>1. /\ TypeOK /\ RouteKnown /\ Unborn /\ MirroredOnce
      /\ TypeOK' /\ RouteKnown' /\ NoRequest \notin Requests
  BY TypeStep, PlaneAssumption DEF PlaneInv
<1>2. \A q \in Requests : ticket[q] = "absent" =>
        ticket'[q] = "absent" \/ \E th \in Threads : MirrorCreate(th) /\ call[th].req = q
  BY TicketMoves DEF Open
\* The mirror's thread moves on, so another thread's new request is untouched.
<1>3. ASSUME NEW th \in Threads, MirrorCreate(th) PROVE call'[th].step = "touch"
  <2>1. Goto(th, "touch") /\ "touch" \in Routes
    BY <1>3 DEF MirrorCreate, Routes
  <2> QED BY <1>1, <2>1, GotoCall
<1>4. ASSUME NEW o \in Threads, call[o].step = "mirror_create",
             call'[o].step = "mirror_create"
      PROVE  ticket'[call[o].req] = "absent"
  <2>1. ticket[call[o].req] = "absent" /\ call[o].req \in Requests
    BY <1>1, <1>4 DEF MirroredOnce, RouteKnown, At
  <2>2. ASSUME NEW th \in Threads, MirrorCreate(th), call[th].req = call[o].req PROVE FALSE
    <3>1. th = o
      BY <1>1, <1>4, <2>2 DEF MirroredOnce, MirrorCreate, At
    <3> QED BY <1>3, <1>4, <2>2, <3>1
  <2> QED BY <1>2, <2>1, <2>2
<1>5. ASSUME NEW th \in Threads, NEW r \in Requests, RequestApproval(th, r),
             call'[th].step = "mirror_create", call'[th].req = r,
             \A o \in Threads : o # th => call'[o] = call[o]
      PROVE  Unborn' /\ MirroredOnce'
  <2>1. /\ gate[r] = "absent" /\ ticket[r] = "absent"
        /\ \A o \in Threads : call[o].req # r
        /\ UNCHANGED ticket /\ gate' = [gate EXCEPT ![r] = "pending"]
    BY <1>1, <1>5, BusyIs DEF RequestApproval, Unborn
  <2>2. MirroredOnce'
    BY <1>1, <1>5, <2>1 DEF MirroredOnce, At
  <2>3. ASSUME NEW q \in Requests, gate'[q] = "absent"
        PROVE  ticket'[q] = "absent" /\ \A o \in Threads : call'[o].req # q
    <3>1. q # r /\ gate[q] = "absent"
      BY <1>1, <2>1, <2>3 DEF TypeOK
    <3>2. ticket[q] = "absent" /\ \A o \in Threads : call[o].req # q
      BY <1>1, <3>1, BusyIs DEF Unborn
    <3> QED BY <1>5, <2>1, <3>1, <3>2
  <2>4. Unborn'
    BY <2>3 DEF Unborn, Busy
  <2> QED BY <2>2, <2>4
<1>6. ASSUME NEW th \in Threads,
             call'[th].step # "mirror_create",
             \A o \in Threads : o # th => call'[o] = call[o],
             \/ call'[th].req \in {call[th].req, NoRequest}
             \/ call'[th].req \in Requests /\ gate[call'[th].req] # "absent",
             \A q \in Requests : gate[q] # "absent" => gate'[q] # "absent"
      PROVE  Unborn' /\ MirroredOnce'
  <2>1. MirroredOnce'
    BY <1>1, <1>4, <1>6 DEF MirroredOnce, At
  <2>2. ASSUME NEW q \in Requests, gate'[q] = "absent"
        PROVE  ticket'[q] = "absent" /\ \A o \in Threads : call'[o].req # q
    <3>1. gate[q] = "absent"
      BY <1>6, <2>2
    <3>2. ticket[q] = "absent" /\ \A o \in Threads : call[o].req # q
      BY <1>1, <3>1, BusyIs DEF Unborn
    <3> QED BY <1>1, <1>2, <1>6, <3>1, <3>2
  <2>3. Unborn'
    BY <2>2 DEF Unborn, Busy
  <2> QED BY <2>1, <2>3
<1>7. ASSUME \A th \in Threads : call'[th] \in {call[th], Idle}, UNCHANGED gate
      PROVE  Unborn' /\ MirroredOnce'
  <2>1. \A th \in Threads : \/ call'[th] = call[th]
                            \/ call'[th].step = "idle" /\ call'[th].req = NoRequest
    <3> SUFFICES ASSUME NEW th \in Threads, call'[th] # call[th]
                 PROVE  call'[th].step = "idle" /\ call'[th].req = NoRequest
      OBVIOUS
    <3>1. call'[th] = Idle
      BY <1>7
    <3> QED BY <3>1, Names
  <2>2. MirroredOnce'
    BY <1>1, <1>4, <2>1 DEF MirroredOnce, At
  <2>3. ASSUME NEW q \in Requests, gate'[q] = "absent"
        PROVE  ticket'[q] = "absent" /\ \A o \in Threads : call'[o].req # q
    <3>1. ticket[q] = "absent" /\ \A o \in Threads : call[o].req # q
      BY <1>1, <1>7, <2>3, BusyIs DEF Unborn
    <3> QED BY <1>1, <1>2, <2>1, <3>1
  <2>4. Unborn'
    BY <2>3 DEF Unborn, Busy
  <2> QED BY <2>2, <2>4
<1> QED BY <1>1, <1>5, <1>6, <1>7, CallMoves DEF PlaneInv

LEMMA PlaneInvariant == Spec => []PlaneInv
<1>1. Init => RouteKnown /\ Unborn /\ MirroredOnce
  BY Names, BusyIs, PlaneAssumption DEF Init, RouteKnown, Unborn, MirroredOnce, At
<1>2. Init => PlaneInv
  BY <1>1, TypeInit DEF PlaneInv
<1> QED BY <1>2, PlaneStep, PTL DEF Spec

LEMMA LaterFacts ==
    /\ Lifecycle!Later("absent") = {"pending"}
    /\ Lifecycle!Later("pending") = {"escalated", "approved", "rejected", "expired", "withdrawn"}
    /\ Lifecycle!Later("escalated") = {"escalated", "approved", "rejected", "expired"}
BY DEF Lifecycle!Later, Lifecycle!Final, Lifecycle!Decisions

(* The mirrored tickets implement TicketLifecycle: no order of mirrors,    *)
(* reviews, resolves and withdrawals changes a decision or skips a state.  *)
THEOREM TicketsKeepLifecycle == Spec => TicketsFollowLifecycle
<1>1. Init => Lifecycle!Init
  BY DEF Init, Lifecycle!Init
<1>2. PlaneInv /\ [Next]_vars => [Lifecycle!Next]_ticket
  <2> SUFFICES ASSUME PlaneInv, [Next]_vars PROVE Lifecycle!Next
    OBVIOUS
  <2>1. ticket' \in [Requests -> Lifecycle!States]
    BY TypeStep DEF PlaneInv, TypeOK
  <2>2. ASSUME NEW q \in Requests
        PROVE  ticket'[q] = ticket[q] \/ ticket'[q] \in Lifecycle!Later(ticket[q])
    BY TicketMoves, LaterFacts DEF Open
  <2> QED BY <2>1, <2>2 DEF Lifecycle!Next
<1> QED BY <1>1, <1>2, PlaneInvariant, PTL DEF Spec, TicketsFollowLifecycle, Lifecycle!Spec
-----------------------------------------------------------------------------
(* Gate, ticket and idea agree.                                            *)

\* What Agreement says of one request.
Agree(r) ==
    ticket[r] \notin {"expired", "withdrawn"} =>
        /\ gate[r] \in {"approved", "rejected"} \/ ticket[r] \in {"approved", "rejected"}
               => ticket[r] = gate[r]
        /\ gate[r] \in Open => ticket[r] = gate[r]
        /\ gate[r] = "needs_info" => ticket[r] \in Open
        /\ LET i == about[r] IN
           Exists(i) /\ idea[i].request = r =>
               /\ gate[r] \in Verdicts => idea[i].verdict = gate[r]
               /\ gate[r] = "pending" => idea[i].verdict = "none"
               /\ gate[r] \in {"approved", "rejected"} =>
                    idea[i].status # "awaiting_approval"

\* An idea that waits for a request without a decision is locked.
Waits(r) ==
    LET i == about[r] IN
    Exists(i) /\ idea[i].request = r /\ gate[r] \in Open \cup {"needs_info"} =>
        idea[i].required /\ idea[i].verdict \in {"none", "needs_info"}

\* What a route on r in progress has found and left behind.
Stage(r, c) ==
    /\ c.step \in {"mirror_create", "touch"} => gate[r] = "pending"
    /\ c.step = "touch" => ticket[r] = "pending"
    /\ c.step = "mirror_resolve" => gate[r] = c.verdict /\ ticket[r] \in Open
    /\ c.step = "sync_ticket" =>
         /\ gate[r] = c.verdict
         /\ ticket[r] \in Open \/ ticket[r] = c.verdict
    /\ c.step = "sync_idea" =>
         /\ gate[r] = c.verdict
         /\ IF c.verdict = "needs_info" THEN ticket[r] \in Open ELSE ticket[r] = c.verdict
    /\ c.step # "blind_resolve"
    /\ c.step = "sync_gate" => ticket[r] = c.verdict /\ c.verdict # "needs_info"
    /\ c.step = "mirror_escalate" => gate[r] = "escalated" /\ ticket[r] \in Open

\* No route has written anything of r that it has not carried on.
AtRest(r) == gate[r] # "absent" /\ \A th \in Threads : call[th].req = r => At(th, "resolve")

\* An undisturbed request is handled by one route, and agrees when it is at rest.
InTurn(r) ==
    /\ \A th \in Threads : call[th].req = r =>
         Stage(r, call[th]) /\ \A o \in Threads : call[o].req = r => o = th
    /\ AtRest(r) => Agree(r)
    /\ Waits(r)

\* An idea waits for a request that was created, and is about it.
Home ==
    \A i \in Ideas : idea[i].request \in Requests =>
        about[idea[i].request] = i /\ gate[idea[i].request] # "absent"

AgreeInv == Home /\ \A r \in Requests \ disturbed : InTurn(r)
-----------------------------------------------------------------------------
\* The idea r is about shows what it showed of r, if it still does.
IdeaKept(r) ==
    LET i == about[r] IN
    Exists(i)' /\ idea'[i].request = r =>
        /\ Exists(i) /\ idea[i].request = r
        /\ idea'[i].verdict = idea[i].verdict /\ idea'[i].required = idea[i].required
        /\ idea'[i].status = "awaiting_approval" => idea[i].status = "awaiting_approval"

\* A step that is not about r leaves it in turn.
LEMMA FrameStep ==
    ASSUME NEW r \in Requests, InTurn(r), about' = about, IdeaKept(r),
           gate'[r] = gate[r], ticket'[r] = ticket[r],
           \A th \in Threads : call'[th] = call[th] \/ call'[th].req # r,
           \A th \in Threads : call[th].req = r => call'[th] = call[th] \/ At(th, "resolve")
    PROVE  InTurn(r)'
<1>1. \A th \in Threads : call'[th].req = r => call'[th] = call[th]
  OBVIOUS
<1>2. Agree(r) => Agree(r)'
  BY DEF Agree, IdeaKept, Exists
<1>3. Waits(r)'
  BY DEF InTurn, Waits, IdeaKept, Exists
<1>4. AtRest(r)' => AtRest(r)
  BY <1>1 DEF AtRest, At
<1>5. \A th \in Threads : call'[th].req = r =>
         Stage(r, call[th])' /\ \A o \in Threads : call'[o].req = r => o = th
  BY <1>1 DEF InTurn, Stage
<1> QED BY <1>1, <1>2, <1>3, <1>4, <1>5 DEF InTurn

\* A step of the one route on r.
LEMMA AloneStep ==
    ASSUME NEW r \in Requests, NEW th \in Threads,
           \A o \in Threads : o # th => call'[o].req # r,
           \/ /\ call'[th].req = r /\ Stage(r, call[th])'
              /\ call'[th].step = "resolve" => Agree(r)'
           \/ call'[th].req # r /\ Agree(r)',
           Waits(r)'
    PROVE  InTurn(r)'
<1>1. AtRest(r)' => Agree(r)'
  BY DEF AtRest, At
<1>2. \A t \in Threads : call'[t].req = r => t = th
  OBVIOUS
<1>3. \A t \in Threads : call'[t].req = r =>
         Stage(r, call[t])' /\ \A o \in Threads : call'[o].req = r => o = t
  BY <1>2
<1> QED BY <1>1, <1>3 DEF InTurn

LEMMA Growing == [Next]_vars => disturbed \subseteq disturbed' /\ about' = about
BY DEF Next, Begin, Continue, RequestApproval, EscalateRequest, SubmitReview, ReadTicketBefore,
       MirrorCreate, TouchAwaiting, MirrorResolve, SyncTicket, SyncIdea, ResolveTicket, SyncGate,
       MirrorEscalate, MirrorFails, WithdrawTicket, RequestLost, DeleteIdea, SetStatus, Crash, vars

\* A request at rest that agrees is open, or its ticket is final.
LEMMA OpenOrFinal ==
    ASSUME TypeOK, NEW r \in Requests, Agree(r), gate[r] # "absent"
    PROVE  \/ ticket[r] \in Open /\ gate[r] \in Open \cup {"needs_info"}
           \/ ticket[r] \in Lifecycle!Final
BY DEF TypeOK, Agree, Open, Verdicts, GateStatuses, Lifecycle!States, Lifecycle!Final,
       Lifecycle!Decisions

\* A route begins on r itself.
LEMMA BeginStep ==
    ASSUME PlaneInv, Home, NEW th \in Threads, NEW r \in Requests, InTurn(r), Begin(th, r),
           r \notin disturbed', about' = about
    PROVE  InTurn(r)'
<1>t. /\ TypeOK /\ gate \in [Requests -> GateStatuses] /\ ticket \in [Requests -> Lifecycle!States]
      /\ about \in [Requests -> Ideas]
  BY DEF PlaneInv, TypeOK
<1>1. r \notin Busy /\ UNCHANGED <<ticket, idea>>
  BY DEF Begin, RequestApproval, EscalateRequest, SubmitReview, ReadTicketBefore, Overlap, Siblings
<1>2. \A o \in Threads : call[o].req # r
  BY <1>1, BusyIs
<1>3. gate[r] # "absent" => Agree(r)
  BY <1>2 DEF InTurn, AtRest
<1>4. CASE RequestApproval(th, r)
  <2>1. /\ call'[th].step = "mirror_create" /\ call'[th].req = r
        /\ \A o \in Threads : o # th => call'[o] = call[o]
    BY <1>4, <1>t, EnterCall DEF RequestApproval, Routes
  <2>2. gate'[r] = "pending" /\ gate[r] = "absent"
    BY <1>4, <1>t DEF RequestApproval
  <2>3. idea[about[r]].request # r
    BY <1>t, <2>2 DEF Home
  <2>4. Waits(r)'
    BY <1>1, <2>3 DEF Waits
  <2>5. Stage(r, call[th])'
    BY <2>1, <2>2 DEF Stage
  <2> QED BY <1>2, <2>1, <2>4, <2>5, AloneStep
<1>5. ASSUME NEW v \in Verdicts, SubmitReview(th, r, v) PROVE InTurn(r)'
  <2>1. /\ call'[th] = [step |-> "mirror_resolve", req |-> r, verdict |-> v]
        /\ \A o \in Threads : o # th => call'[o] = call[o]
    BY <1>5, <1>t, EnterCall DEF SubmitReview, Routes
  <2>2. gate'[r] = v /\ gate[r] # "absent" /\ ticket[r] \notin Lifecycle!Final
    BY <1>5, <1>t DEF SubmitReview
  <2>3. ticket[r] \in Open /\ gate[r] \in Open \cup {"needs_info"}
    BY <1>3, <1>t, <2>2, OpenOrFinal
  <2>4. Waits(r)'
    BY <1>1, <2>2, <2>3 DEF InTurn, Waits, Exists
  <2>5. call'[th].step = "mirror_resolve" /\ call'[th].req = r /\ call'[th].verdict = v
    BY <2>1
  <2>6. Stage(r, call[th])'
    BY <1>1, <2>2, <2>3, <2>5 DEF Stage
  <2> QED BY <1>2, <2>1, <2>4, <2>5, <2>6, AloneStep
<1>6. CASE EscalateRequest(th, r)
  <2>1. /\ call'[th].step = "mirror_escalate" /\ call'[th].req = r
        /\ \A o \in Threads : o # th => call'[o] = call[o]
    BY <1>6, <1>t, EnterCall DEF EscalateRequest, Routes
  <2>2. gate'[r] = "escalated" /\ gate[r] # "absent" /\ ticket[r] \notin Lifecycle!Final
    BY <1>6, <1>t DEF EscalateRequest
  <2>3. ticket[r] \in Open /\ gate[r] \in Open \cup {"needs_info"}
    BY <1>3, <1>t, <2>2, OpenOrFinal
  <2>4. Waits(r)'
    BY <1>1, <2>2, <2>3 DEF InTurn, Waits, Exists
  <2>6. Stage(r, call[th])'
    BY <1>1, <2>1, <2>2, <2>3 DEF Stage
  <2> QED BY <1>2, <2>1, <2>4, <2>6, AloneStep
<1>7. ASSUME NEW d \in {"approved", "rejected", "expired"}, ReadTicketBefore(th, r, d)
      PROVE  InTurn(r)'
  <2>1. gate[r] # "absent" /\ UNCHANGED gate
    BY <1>7 DEF ReadTicketBefore
  <2>2. ticket[r] # "absent"
    BY <1>3, <1>t, <2>1, OpenOrFinal DEF Open, Lifecycle!Final, Lifecycle!Decisions
  <2>3. /\ call'[th].step = "resolve" /\ call'[th].req = r
        /\ \A o \in Threads : o # th => call'[o] = call[o]
    <3>1. Enter(th, r, "resolve", d) /\ "resolve" \in Routes
      BY <1>7, <2>2 DEF ReadTicketBefore, Routes
    <3> QED BY <1>t, <3>1, EnterCall DEF Verdicts
  <2>4. Waits(r)' /\ Agree(r)'
    BY <1>1, <1>3, <2>1 DEF InTurn, Waits, Agree, Exists
  <2>6. Stage(r, call[th])'
    BY <2>3 DEF Stage
  <2> QED BY <1>2, <2>3, <2>4, <2>6, AloneStep
<1> QED BY <1>4, <1>5, <1>6, <1>7 DEF Begin

\* A route in progress on r goes on, or loses a call.
LEMMA GoOnStep ==
    ASSUME PlaneInv, Home, NEW th \in Threads, NEW r \in Requests, InTurn(r), call[th].req = r,
           Continue(th) \/ MirrorFails(th), r \notin disturbed', about' = about
    PROVE  InTurn(r)'
<1>t. /\ TypeOK /\ gate \in [Requests -> GateStatuses] /\ ticket \in [Requests -> Lifecycle!States]
      /\ about \in [Requests -> Ideas] /\ idea \in [Ideas -> Rows] /\ RouteKnown /\ r # NoRequest
  BY PlaneAssumption, TypeIs DEF PlaneInv
<1>i. /\ idea[about[r]] \in Rows
  BY <1>t
<1>1. Stage(r, call[th]) /\ Waits(r) /\ \A o \in Threads : o # th => call[o].req # r
  BY DEF InTurn
<1>2. gate[r] # "absent"
  BY BusyIs DEF PlaneInv, Unborn
<1>3. ASSUME NEW step \in Routes \ {"idle"}, Goto(th, step)
      PROVE  /\ call'[th].step = step /\ call'[th].req = r /\ call'[th].verdict = call[th].verdict
             /\ \A o \in Threads : o # th => call'[o].req # r
  BY <1>1, <1>3, <1>t, GotoCall
<1>4. ASSUME Goto(th, "idle")
      PROVE  call'[th].req # r /\ \A o \in Threads : o # th => call'[o].req # r
  BY <1>1, <1>4, <1>t, GotoCall, Names DEF Routes
<1>5. ASSUME NEW step \in Routes \ {"idle", "resolve"}, Goto(th, step), Stage(r, call[th])', Waits(r)'
      PROVE  InTurn(r)'
  BY <1>3, <1>5, AloneStep
<1>6. ASSUME Goto(th, "idle"), Agree(r)', Waits(r)'
      PROVE  InTurn(r)'
  BY <1>4, <1>6, AloneStep
<1>w. UNCHANGED <<gate, idea>> => Waits(r)'
  BY <1>1 DEF Waits, Exists
<1>r. {"touch", "sync_ticket", "sync_idea", "sync_gate"} \subseteq Routes \ {"idle", "resolve"}
  BY DEF Routes
<1>a. CASE MirrorCreate(th)
  <2>1. Goto(th, "touch") /\ UNCHANGED <<gate, idea>> /\ ticket'[r] = "pending" /\ gate[r] = "pending"
    BY <1>a, <1>t, <1>1 DEF MirrorCreate, At, Stage
  <2>2. Stage(r, call[th])'
    BY <1>3, <1>r, <2>1 DEF Stage
  <2> QED BY <1>5, <1>r, <1>w, <2>1, <2>2
<1>b. CASE TouchAwaiting(th)
  <2>1. Goto(th, "idle") /\ UNCHANGED <<gate, ticket>> /\ ticket[r] = "pending" /\ gate[r] = "pending"
    BY <1>b, <1>1 DEF TouchAwaiting, At, Stage
  <2>2. \/ ~Exists(about[r]) /\ idea' = idea
        \/ idea'[about[r]] = [status |-> "awaiting_approval", required |-> TRUE,
                              request |-> r, verdict |-> "none"]
    BY <1>b, <1>t DEF TouchAwaiting
  <2>3. Exists(about[r])' => idea'[about[r]].required /\ idea'[about[r]].verdict = "none"
    BY <2>2 DEF Exists
  <2>4. Agree(r)' /\ Waits(r)'
    BY <2>1, <2>3 DEF Agree, Waits, Open, Verdicts
  <2> QED BY <1>6, <2>1, <2>4
<1>c. CASE MirrorResolve(th) \/ SyncTicket(th)
  <2> DEFINE v == call[th].verdict
  <2>1. v \in Verdicts
    BY <1>c, <1>t DEF MirrorResolve, SyncTicket, RouteKnown, At
  <2>2. /\ UNCHANGED <<gate, idea>> /\ gate[r] = v /\ (ticket[r] \in Open \/ ticket[r] = v)
        /\ ticket' = IF v = "needs_info" THEN ticket ELSE ResolvedTo(r, v)
        /\ Goto(th, "sync_ticket") \/ Goto(th, "sync_idea")
    <3>1. CASE MirrorResolve(th)
      BY <3>1, <1>1 DEF MirrorResolve, At, Stage
    <3>2. CASE SyncTicket(th)
      BY <3>2, <1>1 DEF SyncTicket, At, Stage
    <3> QED BY <1>c, <3>1, <3>2
  <2>3. IF v = "needs_info" THEN ticket'[r] \in Open ELSE ticket'[r] = v
    <3>1. ticket[r] # "needs_info"
      BY <1>t, Names
    <3> QED BY <1>t, <2>2, <3>1 DEF ResolvedTo
  <2>4. CASE Goto(th, "sync_ticket")
    <3>1. Stage(r, call[th])'
      BY <1>3, <1>r, <2>2, <2>3, <2>4 DEF Stage
    <3> QED BY <1>5, <1>r, <1>w, <2>2, <2>4, <3>1
  <2>5. CASE Goto(th, "sync_idea")
    <3>1. Stage(r, call[th])'
      BY <1>3, <1>r, <2>2, <2>3, <2>5 DEF Stage
    <3> QED BY <1>5, <1>r, <1>w, <2>2, <2>5, <3>1
  <2> QED BY <2>2, <2>4, <2>5
<1>d. CASE SyncIdea(th)
  <2> DEFINE v == call[th].verdict
             i == about[r]
  <2>1. /\ v \in Verdicts /\ Goto(th, "idle") /\ UNCHANGED <<gate, ticket>> /\ gate[r] = v
        /\ IF v = "needs_info" THEN ticket[r] \in Open ELSE ticket[r] = v
    BY <1>d, <1>1, <1>t DEF SyncIdea, RouteKnown, At, Stage
  <2>2. \/ ~Exists(i) /\ idea' = idea
        \/ idea'[i] = [idea[i] EXCEPT !.status = StatusAfter(v), !.verdict = v,
                                       !.required = (v = "needs_info")]
    BY <1>d, <1>t DEF SyncIdea
  <2>3. Exists(i)' => /\ idea'[i].status = StatusAfter(v) /\ idea'[i].verdict = v
                      /\ idea'[i].required = (v = "needs_info")
    BY <1>i, <2>2 DEF Exists, Rows
  <2>4. StatusAfter(v) # "awaiting_approval"
    BY <2>1 DEF StatusAfter, Verdicts
  <2> HIDE DEF v, i
  <2>5. Agree(r)'
    BY <2>1, <2>3, <2>4 DEF Agree, Open, Verdicts, i
  <2>6. Waits(r)'
    <3>1. ASSUME Exists(i)', gate'[r] \in Open \cup {"needs_info"}
          PROVE  idea'[i].required /\ idea'[i].verdict \in {"none", "needs_info"}
      <4>1. v = "needs_info"
        BY <2>1, <3>1 DEF Open, Verdicts
      <4> QED BY <2>3, <3>1, <4>1
    <3> QED BY <3>1 DEF Waits, i
  <2> QED BY <1>6, <2>1, <2>5, <2>6
<1>e. CASE ResolveTicket(th)
  <2> DEFINE d == call[th].verdict
  <2>1. At(th, "resolve") /\ d \in Lifecycle!Decisions /\ UNCHANGED <<gate, idea>>
    BY <1>e, <1>1, <1>t DEF ResolveTicket, RouteKnown, At, Stage
  <2>2. Agree(r)
    BY <1>1, <1>2, <2>1 DEF InTurn, AtRest
  <2>3. ticket'[r] = IF ticket[r] \in Open THEN d ELSE ticket[r]
    BY <1>e, <1>t DEF ResolveTicket, ResolvedTo
  <2>4. CASE ticket[r] \in Open /\ d # "expired"
    <3>1. Goto(th, "sync_gate")
      BY <1>e, <2>1, <2>4 DEF ResolveTicket
    <3>2. Stage(r, call[th])'
      BY <1>3, <1>r, <2>1, <2>3, <2>4, <3>1, Names DEF Stage
    <3> QED BY <1>5, <1>r, <1>w, <2>1, <3>1, <3>2
  <2>5. CASE ~(ticket[r] \in Open /\ d # "expired")
    <3>1. Goto(th, "idle")
      BY <1>e, <2>1, <2>5 DEF ResolveTicket
    <3>2. Agree(r)'
      BY <2>1, <2>2, <2>3, <2>5 DEF Agree, Exists
    <3> QED BY <1>6, <1>w, <2>1, <3>1, <3>2
  <2> QED BY <2>4, <2>5
<1>f. CASE SyncGate(th)
  <2>1. /\ call[th].verdict \in {"approved", "rejected"} /\ ticket[r] = call[th].verdict
        /\ gate'[r] = call[th].verdict /\ UNCHANGED <<ticket, idea>> /\ Goto(th, "sync_idea")
    BY <1>f, <1>1, <1>t DEF SyncGate, RouteKnown, At, Stage, Verdicts
  <2>2. Waits(r)'
    BY <2>1 DEF Waits, Open
  <2>3. Stage(r, call[th])'
    BY <1>3, <1>r, <2>1 DEF Stage
  <2> QED BY <1>5, <1>r, <2>1, <2>2, <2>3
<1>g. CASE MirrorEscalate(th)
  <2>1. /\ gate[r] = "escalated" /\ ticket'[r] = "escalated" /\ UNCHANGED <<gate, idea>>
        /\ Goto(th, "idle")
    BY <1>g, <1>1, <1>t DEF MirrorEscalate, At, Stage, ResolvedTo
  <2>2. Agree(r)'
    BY <2>1 DEF Agree, Open, Verdicts
  <2> QED BY <1>6, <1>w, <2>1, <2>2
<1>h. CASE MirrorFails(th)
  <2>1. /\ UNCHANGED <<gate, ticket, idea>>
        /\ \/ At(th, "mirror_resolve") /\ Goto(th, "sync_ticket")
           \/ /\ At(th, "sync_ticket") /\ Goto(th, "sync_idea")
              /\ ticket[r] \in Lifecycle!Final
    BY <1>h DEF MirrorFails, At
  <2>2. CASE At(th, "mirror_resolve") /\ Goto(th, "sync_ticket")
    <3>1. Stage(r, call[th])'
      BY <1>1, <1>3, <1>r, <2>1, <2>2 DEF Stage, At
    <3> QED BY <1>5, <1>r, <1>w, <2>1, <2>2, <3>1
  <2>3. CASE /\ At(th, "sync_ticket") /\ Goto(th, "sync_idea")
             /\ ticket[r] \in Lifecycle!Final
    <3>1. ticket[r] = call[th].verdict /\ gate[r] = call[th].verdict /\ call[th].verdict # "needs_info"
      BY <1>1, <2>3 DEF Stage, At, Open, Lifecycle!Final, Lifecycle!Decisions
    <3>2. Stage(r, call[th])'
      BY <1>3, <1>r, <2>1, <2>3, <3>1 DEF Stage
    <3> QED BY <1>5, <1>r, <1>w, <2>1, <2>3, <3>2
  <2> QED BY <2>1, <2>2, <2>3
<1> QED BY <1>a, <1>b, <1>c, <1>d, <1>e, <1>f, <1>g, <1>h DEF Continue

\* A route on another request leaves r in turn, or disturbs it.
LEMMA ElsewhereStep ==
    ASSUME PlaneInv, NEW th \in Threads, NEW r \in Requests, InTurn(r), call[th].req # r,
           Continue(th) \/ MirrorFails(th), r \notin disturbed', about' = about
    PROVE  InTurn(r)'
<1> DEFINE q == call[th].req
<1>t. /\ TypeOK /\ gate \in [Requests -> GateStatuses] /\ ticket \in [Requests -> Lifecycle!States]
      /\ about \in [Requests -> Ideas] /\ idea \in [Ideas -> Rows] /\ RouteKnown /\ NoRequest # r
  BY PlaneAssumption, TypeIs DEF PlaneInv
<1>1. \E step \in Routes : Goto(th, step)
  BY <1>t, RouteGoesOn
<1>2. /\ call'[th].req # r
      /\ \A o \in Threads : o # th => call'[o] = call[o]
  BY <1>1, <1>t, GotoCall, Names
<1>3. gate'[r] = gate[r]
  BY <1>t DEF Continue, MirrorFails, MirrorCreate, TouchAwaiting, MirrorResolve, SyncTicket,
              SyncIdea, ResolveTicket, SyncGate, MirrorEscalate
<1>4. ticket'[r] = ticket[r]
  BY <1>t DEF Continue, MirrorFails, MirrorCreate, TouchAwaiting, MirrorResolve, SyncTicket,
              SyncIdea, ResolveTicket, SyncGate, MirrorEscalate, ResolvedTo
<1>5. CASE UNCHANGED idea
  <2>1. IdeaKept(r)
    BY <1>5 DEF IdeaKept, Exists
  <2> QED BY <1>2, <1>3, <1>4, <2>1, FrameStep
<1>6. CASE TouchAwaiting(th)
  <2>1. \/ idea'[about[r]] = idea[about[r]]
        \/ idea'[about[r]] = [status |-> "awaiting_approval", required |-> TRUE,
                              request |-> q, verdict |-> "none"]
    BY <1>6, <1>t DEF TouchAwaiting
  <2>2. \/ idea'[about[r]] = idea[about[r]]
        \/ idea'[about[r]].request = q
    BY <2>1
  <2>3. IdeaKept(r)
    BY <2>2 DEF IdeaKept, Exists
  <2> QED BY <1>2, <1>3, <1>4, <2>3, FrameStep
<1>7. CASE SyncIdea(th)
  <2>1. \/ idea'[about[r]] = idea[about[r]]
        \/ about[q] = about[r]
    <3> SUFFICES ASSUME about[q] # about[r] PROVE idea'[about[r]] = idea[about[r]]
      OBVIOUS
    <3> QED BY <1>7, <1>t DEF SyncIdea
  <2>2. about[q] = about[r] => idea[about[r]].request # r
    <3>1. disturbed' = disturbed \cup ({idea[about[q]].request} \ {q, NoRequest})
      BY <1>7 DEF SyncIdea
    <3> QED BY <1>t, <3>1
  <2>3. idea'[about[r]].request = idea[about[r]].request
    BY <1>7, <1>t DEF SyncIdea, Rows
  <2>4. IdeaKept(r)
    BY <2>1, <2>2, <2>3 DEF IdeaKept, Exists
  <2> QED BY <1>2, <1>3, <1>4, <2>4, FrameStep
<1> QED BY <1>5, <1>6, <1>7 DEF Continue, MirrorFails, MirrorCreate, MirrorResolve, SyncTicket,
                                ResolveTicket, SyncGate, MirrorEscalate

\* An operator's edit, a withdrawal, a lost request, a restart.
LEMMA OutsideStep ==
    ASSUME PlaneInv, NEW r \in Requests, InTurn(r), r \notin disturbed', about' = about,
           \/ \E q \in Requests : WithdrawTicket(q)
           \/ \E i \in Ideas : RequestLost(i) \/ DeleteIdea(i) \/ \E s \in PutStatuses : SetStatus(i, s)
           \/ Crash \/ UNCHANGED vars
    PROVE  InTurn(r)'
<1>t. /\ TypeOK /\ ticket \in [Requests -> Lifecycle!States]
      /\ about \in [Requests -> Ideas] /\ idea \in [Ideas -> Rows] /\ NoRequest # r
  BY PlaneAssumption, TypeIs DEF PlaneInv
<1>1. CASE \E q \in Requests : WithdrawTicket(q)
  <2>1. PICK q \in Requests : WithdrawTicket(q)
    BY <1>1
  <2>2. UNCHANGED <<gate, idea, call>>
    BY <2>1 DEF WithdrawTicket
  <2>3. CASE q # r
    <3>1. ticket'[r] = ticket[r] /\ IdeaKept(r)
      BY <1>t, <2>1, <2>2, <2>3 DEF WithdrawTicket, IdeaKept, Exists
    <3> QED BY <2>2, <3>1, FrameStep
  <2>4. CASE q = r
    <3>1. ticket'[r] = "withdrawn" /\ \A th \in Threads : call'[th].req # r
      BY <1>t, <2>1, <2>2, <2>4, BusyIs DEF WithdrawTicket
    <3>2. Agree(r)' /\ Waits(r)'
      BY <2>2, <3>1 DEF Agree, Waits, InTurn, Exists
    <3> QED BY <3>1, <3>2 DEF InTurn
  <2> QED BY <2>3, <2>4
<1>2. ASSUME NEW i \in Ideas,
             RequestLost(i) \/ DeleteIdea(i) \/ \E s \in PutStatuses : SetStatus(i, s)
      PROVE  InTurn(r)'
  <2>1. UNCHANGED <<gate, ticket, call>>
    BY <1>2 DEF RequestLost, DeleteIdea, SetStatus
  <2>2. CASE RequestLost(i)
    <3>1. idea'[about[r]] = idea[about[r]] \/ idea'[about[r]].request = NoRequest
      BY <1>t, <2>2 DEF RequestLost
    <3>2. IdeaKept(r)
      BY <1>t, <3>1 DEF IdeaKept, Exists
    <3> QED BY <2>1, <3>2, FrameStep
  <2>3. CASE DeleteIdea(i)
    <3>1. idea'[about[r]] = idea[about[r]] \/ idea'[about[r]].status = "deleted"
      BY <1>t, <2>3 DEF DeleteIdea, Rows
    <3>2. IdeaKept(r)
      BY <3>1 DEF IdeaKept, Exists
    <3> QED BY <2>1, <3>2, FrameStep
  <2>4. ASSUME NEW s \in PutStatuses, SetStatus(i, s) PROVE InTurn(r)'
    <3>1. \/ idea'[about[r]] = idea[about[r]]
          \/ /\ idea'[about[r]] = [idea[about[r]] EXCEPT !.status = s]
             /\ Exists(about[r]) /\ s # "awaiting_approval"
      BY <1>t, <2>4, PutAssumption DEF SetStatus
    <3>2. \/ idea'[about[r]] = idea[about[r]]
          \/ /\ Exists(about[r]) /\ idea'[about[r]].status # "awaiting_approval"
             /\ idea'[about[r]].request = idea[about[r]].request
             /\ idea'[about[r]].verdict = idea[about[r]].verdict
             /\ idea'[about[r]].required = idea[about[r]].required
      BY <1>t, <3>1 DEF Rows
    <3>3. IdeaKept(r)
      BY <3>2 DEF IdeaKept, Exists
    <3> QED BY <2>1, <3>3, FrameStep
  <2> QED BY <1>2, <2>2, <2>3, <2>4
<1>3. CASE Crash
  <2>1. /\ \A th \in Threads : call'[th].req # r /\ call[th].req # r
        /\ UNCHANGED <<gate, ticket, idea>>
    BY <1>3, <1>t, BusyIs, Names DEF Crash
  <2>2. IdeaKept(r)
    BY <2>1 DEF IdeaKept, Exists
  <2> QED BY <2>1, <2>2, FrameStep
<1>4. CASE UNCHANGED vars
  BY <1>4, FrameStep DEF vars, IdeaKept, Exists
<1> QED BY <1>1, <1>2, <1>3, <1>4

\* A route that begins on another request.
LEMMA BeginElsewhere ==
    ASSUME PlaneInv, NEW th \in Threads, NEW q \in Requests, NEW r \in Requests, q # r, InTurn(r),
           Begin(th, q), about' = about
    PROVE  InTurn(r)'
<1>t. /\ TypeOK /\ gate \in [Requests -> GateStatuses] /\ NoRequest # r
  BY PlaneAssumption, TypeIs DEF PlaneInv
<1>1. \E step \in Routes, v \in Verdicts \cup {"none", "expired"} : Enter(th, q, step, v)
  BY DEF Begin, RequestApproval, EscalateRequest, SubmitReview, ReadTicketBefore, Routes, Verdicts
<1>2. /\ call'[th].req # r /\ call[th].req # r
      /\ \A o \in Threads : o # th => call'[o] = call[o]
  BY <1>1, <1>t, EnterCall, Names DEF Enter
<1>3. gate'[r] = gate[r] /\ UNCHANGED <<ticket, idea>>
  BY <1>t DEF Begin, RequestApproval, EscalateRequest, SubmitReview, ReadTicketBefore
<1>4. IdeaKept(r)
  BY <1>3 DEF IdeaKept, Exists
<1> QED BY <1>2, <1>3, <1>4, FrameStep

LEMMA TurnStep ==
    ASSUME PlaneInv, Home, [Next]_vars, NEW r \in Requests, InTurn(r), r \notin disturbed'
    PROVE  InTurn(r)'
BY Growing, BeginStep, BeginElsewhere, GoOnStep, ElsewhereStep, OutsideStep DEF Next

\* An idea changes the request it waits for when a new one is created, or lost.
LEMMA HomeStep == PlaneInv /\ Home /\ [Next]_vars => Home'
<1> SUFFICES ASSUME PlaneInv, Home, [Next]_vars, NEW i \in Ideas, idea'[i].request \in Requests
             PROVE  about[idea'[i].request] = i /\ gate'[idea'[i].request] # "absent"
  BY Growing DEF Home
<1>t. /\ TypeOK /\ gate \in [Requests -> GateStatuses] /\ about \in [Requests -> Ideas]
      /\ idea \in [Ideas -> Rows] /\ RouteKnown /\ NoRequest \notin Requests
  BY PlaneAssumption, TypeIs DEF PlaneInv
<1>1. \A q \in Requests : gate[q] # "absent" => gate'[q] # "absent"
  BY <1>t, CallMoves DEF RequestApproval
<1>2. CASE idea'[i].request = idea[i].request
  BY <1>1, <1>2 DEF Home
<1>3. ASSUME NEW th \in Threads, TouchAwaiting(th) PROVE
        idea'[i].request = idea[i].request
        \/ /\ about[idea'[i].request] = i /\ gate'[idea'[i].request] # "absent"
  <2>1. \/ idea'[i] = idea[i]
        \/ /\ i = about[call[th].req]
           /\ idea'[i] = [status |-> "awaiting_approval", required |-> TRUE,
                          request |-> call[th].req, verdict |-> "none"]
    BY <1>3, <1>t DEF TouchAwaiting
  <2>2. \/ idea'[i] = idea[i]
        \/ i = about[call[th].req] /\ idea'[i].request = call[th].req
    BY <2>1
  <2>3. call[th].req \in Requests
    BY <1>3, <1>t DEF TouchAwaiting, RouteKnown, At
  <2>4. gate[call[th].req] # "absent"
    BY <2>3, BusyIs DEF PlaneInv, Unborn
  <2> QED BY <1>1, <2>2, <2>3, <2>4
<1>4. ASSUME NEW th \in Threads, SyncIdea(th) PROVE idea'[i].request = idea[i].request
  BY <1>4, <1>t DEF SyncIdea, Rows
<1>5. ASSUME NEW j \in Ideas, RequestLost(j)
      PROVE  idea'[i].request = idea[i].request
  <2>1. idea'[i] = idea[i] \/ idea'[i].request = NoRequest
    BY <1>5, <1>t DEF RequestLost
  <2> QED BY <1>t, <2>1
<1>6. ASSUME NEW j \in Ideas, DeleteIdea(j) \/ \E s \in PutStatuses : SetStatus(j, s)
      PROVE  idea'[i].request = idea[i].request
  BY <1>6, <1>t DEF DeleteIdea, SetStatus, Rows
<1>7. \/ UNCHANGED idea
      \/ \E th \in Threads : TouchAwaiting(th) \/ SyncIdea(th)
      \/ \E j \in Ideas : RequestLost(j) \/ DeleteIdea(j) \/ \E s \in PutStatuses : SetStatus(j, s)
  BY DEF Next, Begin, Continue, RequestApproval, EscalateRequest, SubmitReview, ReadTicketBefore,
         MirrorCreate, MirrorResolve, SyncTicket, ResolveTicket, SyncGate, MirrorEscalate,
         MirrorFails, WithdrawTicket, Crash, vars
<1> QED BY <1>2, <1>3, <1>4, <1>5, <1>6, <1>7

LEMMA AgreeInvariant == Spec => [](PlaneInv /\ AgreeInv)
<1>1. Init => AgreeInv
  <2> SUFFICES ASSUME Init PROVE AgreeInv
    OBVIOUS
  <2>1. /\ \A th \in Threads : call[th].req = NoRequest
        /\ \A i \in Ideas : idea[i].request = NoRequest
        /\ \A r \in Requests : gate[r] = "absent" /\ about[r] \in Ideas /\ r # NoRequest
    BY Names, PlaneAssumption DEF Init
  <2>2. Home
    BY <2>1, PlaneAssumption DEF Home
  <2>3. ASSUME NEW r \in Requests PROVE InTurn(r)
    BY <2>1 DEF InTurn, AtRest, Waits
  <2> QED BY <2>2, <2>3 DEF AgreeInv
<1>2. PlaneInv /\ AgreeInv /\ [Next]_vars => AgreeInv'
  BY HomeStep, TurnStep, Growing DEF AgreeInv
<1> QED BY <1>1, <1>2, PlaneInvariant, PTL DEF Spec

(* Handled one decision at a time, a request ends up the same in gate,     *)
(* ticket and idea, for any number of requests that meet at an idea.       *)
THEOREM AllAgree == Spec => []Agreement
<1>1. PlaneInv /\ AgreeInv => Agreement
  <2> SUFFICES ASSUME PlaneInv, AgreeInv, NEW r \in Requests, Settled(r), r \notin disturbed
               PROVE  Agree(r)
    BY DEF Agreement, Agree
  <2>1. AtRest(r)
    BY BusyIs DEF Settled, AtRest
  <2> QED BY <2>1 DEF AgreeInv, InTurn
<1> QED BY <1>1, AgreeInvariant, PTL

\* A protected status is set by a verdict, or where no gate is pending.
LEMMA SyncedHere ==
    ASSUME TypeOK, RouteKnown, [Next]_vars, NEW i \in Ideas, GatePending(i),
           idea'[i].status \in Protected, idea[i].status \notin Protected
    PROVE  \E th \in Threads : /\ At(th, "sync_idea") /\ about[call[th].req] = i
                               /\ SyncIdea(th)
<1>t. idea \in [Ideas -> Rows] /\ about \in [Requests -> Ideas]
  BY TypeIs
<1>1. ASSUME NEW th \in Threads, TouchAwaiting(th) PROVE FALSE
  <2>1. idea'[i] = idea[i] \/ idea'[i].status = "awaiting_approval"
    BY <1>1, <1>t DEF TouchAwaiting
  <2> QED BY <2>1 DEF Protected
<1>2. ASSUME NEW j \in Ideas, RequestLost(j) \/ DeleteIdea(j) PROVE FALSE
  <2>1. idea'[i] = idea[i] \/ idea'[i].status \in {"awaiting_approval", "deleted"}
    BY <1>2, <1>t DEF RequestLost, DeleteIdea, Rows
  <2> QED BY <2>1 DEF Protected
<1>3. ASSUME NEW j \in Ideas, NEW s \in PutStatuses, SetStatus(j, s) PROVE FALSE
  BY <1>3, <1>t DEF SetStatus, Rows
<1>4. ASSUME NEW th \in Threads, SyncIdea(th)
      PROVE  At(th, "sync_idea") /\ about[call[th].req] = i
  BY <1>4, <1>t DEF SyncIdea
<1>5. \/ UNCHANGED idea
      \/ \E th \in Threads : TouchAwaiting(th) \/ SyncIdea(th)
      \/ \E j \in Ideas : RequestLost(j) \/ DeleteIdea(j) \/ \E s \in PutStatuses : SetStatus(j, s)
  BY DEF Next, Begin, Continue, RequestApproval, EscalateRequest, SubmitReview, ReadTicketBefore,
         MirrorCreate, MirrorResolve, SyncTicket, ResolveTicket, SyncGate, MirrorEscalate,
         MirrorFails, WithdrawTicket, Crash, vars
<1> QED BY <1>1, <1>2, <1>3, <1>4, <1>5

\* A deleted idea is gone.
LEMMA DeletedStays ==
    ASSUME TypeOK, [Next]_vars, NEW i \in Ideas, ~Exists(i)
    PROVE  idea'[i].status = "deleted"
<1>t. idea \in [Ideas -> Rows] /\ idea[i].status = "deleted"
  BY TypeIs DEF Exists
<1> QED BY <1>t DEF Next, Begin, Continue, RequestApproval, EscalateRequest, SubmitReview, ReadTicketBefore,
         MirrorCreate, TouchAwaiting, SyncIdea, MirrorResolve, SyncTicket, ResolveTicket, SyncGate,
         MirrorEscalate, MirrorFails, WithdrawTicket, RequestLost, DeleteIdea, SetStatus, Exists, Rows,
         Crash, vars

(* Nothing but the verdict of an older request, or a decision out of turn, *)
(* accepts an idea over an open request it waits for.                      *)
THEOREM OpenGatesHold == Spec => NoOpenGateBypassed
<1>1. PlaneInv /\ AgreeInv /\ [Next]_vars =>
        [\A i \in Ideas :
           /\ idea[i].status \notin Protected /\ idea'[i].status \in Protected
           /\ idea[i].request \in Requests
           => gate[idea[i].request] \notin Open \/ idea[i].request \in disturbed']_vars
  <2> SUFFICES ASSUME PlaneInv, AgreeInv, [Next]_vars, NEW i \in Ideas, NEW r \in Requests,
                      r = idea[i].request, idea'[i].status \in Protected,
                      idea[i].status \notin Protected, gate[r] \in Open, r \notin disturbed'
               PROVE  FALSE
    OBVIOUS
  <2>t. /\ TypeOK /\ RouteKnown /\ idea \in [Ideas -> Rows] /\ NoRequest \notin Requests
        /\ about[r] = i /\ r \notin disturbed /\ InTurn(r)
    BY Growing, TypeIs, PlaneAssumption DEF PlaneInv, AgreeInv, Home
  <2>1. CASE Exists(i)
    <3>1. GatePending(i)
      BY <2>1, <2>t DEF InTurn, Waits, GatePending
    <3>2. PICK th \in Threads : /\ At(th, "sync_idea") /\ about[call[th].req] = i
                                /\ SyncIdea(th)
      BY <3>1, <2>1, <2>t, SyncedHere
    <3>3. CASE call[th].req = r
      <4>1. gate[r] = call[th].verdict /\ call[th].verdict \in Verdicts
        BY <2>t, <3>2, <3>3 DEF InTurn, Stage, At, RouteKnown
      <4> QED BY <4>1 DEF Open, Verdicts
    <3>4. CASE call[th].req # r
      BY <2>t, <3>2, <3>4 DEF SyncIdea
    <3> QED BY <3>3, <3>4
  <2>2. CASE ~Exists(i)
    BY <2>2, <2>t, DeletedStays DEF Exists, Protected
  <2> QED BY <2>1, <2>2
<1> QED BY <1>1, AgreeInvariant, PTL DEF Spec, NoOpenGateBypassed

-----------------------------------------------------------------------------
(* Verdicts on their way.                                                  *)

\* A decided request has a ticket that was not closed otherwise, and no route
\* that would decide it again.
DecidedOnce(r) ==
    gate[r] \in {"approved", "rejected"} =>
        /\ ticket[r] \notin {"expired", "withdrawn"}
        /\ \A th \in Threads : call[th].req = r => ~At(th, "sync_gate")

Decided == \A r \in Requests \ disturbed : DecidedOnce(r)

CarryInv == PlaneInv /\ AgreeInv /\ Decided

\* A step that gives r no verdict leaves it decided once.
LEMMA DecidedFrame ==
    ASSUME NEW r \in Requests, DecidedOnce(r), gate'[r] = gate[r],
           ticket'[r] = ticket[r] \/ ticket'[r] \notin {"expired", "withdrawn"},
           \A th \in Threads : call'[th].req = r /\ call'[th].step = "sync_gate" =>
              call[th].req = r /\ call[th].step = "sync_gate"
    PROVE  DecidedOnce(r)'
BY DEF DecidedOnce, At

\* Of the routes that begin, a review decides, and it finds an open ticket.
LEMMA DecidedBegin ==
    ASSUME CarryInv, NEW th \in Threads, NEW q \in Requests, Begin(th, q),
           NEW r \in Requests, r \notin disturbed', r \notin disturbed
    PROVE  DecidedOnce(r)'
<1>t. /\ TypeOK /\ gate \in [Requests -> GateStatuses] /\ r # NoRequest
      /\ InTurn(r) /\ DecidedOnce(r)
  BY PlaneAssumption, TypeIs DEF CarryInv, PlaneInv, AgreeInv, Decided
<1>1. \E step \in Routes \ {"sync_gate"}, v \in Verdicts \cup {"none", "expired"} :
        Enter(th, q, step, v)
  BY DEF Begin, RequestApproval, EscalateRequest, SubmitReview, ReadTicketBefore, Routes, Verdicts
<1>2. /\ call'[th].step # "sync_gate"
      /\ \A o \in Threads : o # th => call'[o] = call[o]
  BY <1>1, <1>t, EnterCall
<1>3. UNCHANGED ticket
  BY DEF Begin, RequestApproval, EscalateRequest, SubmitReview, ReadTicketBefore
<1>4. CASE gate'[r] = gate[r]
  BY <1>2, <1>3, <1>4, <1>t, DecidedFrame
<1>5. CASE gate'[r] # gate[r]
  <2>1. q = r /\ \/ RequestApproval(th, r) \/ EscalateRequest(th, r)
                 \/ \E v \in Verdicts : SubmitReview(th, r, v)
    BY <1>5, <1>t DEF Begin, RequestApproval, EscalateRequest, SubmitReview, ReadTicketBefore
  <2>2. CASE RequestApproval(th, r) \/ EscalateRequest(th, r)
    <3>1. gate'[r] \in {"pending", "escalated"}
      BY <1>t, <2>2 DEF RequestApproval, EscalateRequest
    <3> QED BY <3>1 DEF DecidedOnce
  <2>3. ASSUME NEW v \in Verdicts, SubmitReview(th, r, v) PROVE DecidedOnce(r)'
    <3>1. r \notin Busy /\ ticket[r] \notin Lifecycle!Final
      BY <2>3, <1>t DEF SubmitReview, Overlap, Siblings
    <3>2. \A o \in Threads : call[o].req # r
      BY <3>1, BusyIs
    <3> QED BY <1>2, <1>3, <3>1, <3>2 DEF DecidedOnce, At, Lifecycle!Final, Lifecycle!Decisions
  <2> QED BY <2>1, <2>2, <2>3
<1> QED BY <1>4, <1>5

\* Of the routes that go on, resolve and sync_gate matter.
LEMMA DecidedGoOn ==
    ASSUME CarryInv, NEW th \in Threads, Continue(th) \/ MirrorFails(th),
           NEW r \in Requests, r \notin disturbed', r \notin disturbed
    PROVE  DecidedOnce(r)'
<1>t. /\ PlaneInv /\ TypeOK /\ RouteKnown /\ gate \in [Requests -> GateStatuses]
      /\ ticket \in [Requests -> Lifecycle!States] /\ r # NoRequest
      /\ InTurn(r) /\ DecidedOnce(r)
  BY PlaneAssumption, TypeIs DEF CarryInv, PlaneInv, AgreeInv, Decided
<1>1. CASE ResolveTicket(th) /\ call[th].req = r
  <2>1. /\ At(th, "resolve") /\ \A o \in Threads : o # th => call[o].req # r
    BY <1>1, <1>t DEF InTurn, Stage, ResolveTicket, At
  <2>2. gate[r] # "absent"
    BY <1>1, <1>t, BusyIs DEF PlaneInv, Unborn
  <2>3. Agree(r)
    BY <1>t, <2>1, <2>2 DEF InTurn, AtRest
  <2>4. UNCHANGED gate /\ ticket' = ResolvedTo(r, call[th].verdict)
    BY <1>1 DEF ResolveTicket
  <2>5. CASE gate[r] \notin {"approved", "rejected"}
    BY <2>4, <2>5 DEF DecidedOnce
  <2>6. CASE gate[r] \in {"approved", "rejected"}
    <3>1. ticket[r] = gate[r]
      BY <1>t, <2>3, <2>6 DEF DecidedOnce, Agree
    <3>2. ticket[r] \notin Open /\ ticket' = ticket
      BY <2>4, <2>6, <3>1 DEF Open, ResolvedTo
    <3>3. Goto(th, "idle")
      BY <1>1, <3>2 DEF ResolveTicket
    <3>4. /\ call'[th].req # r
          /\ \A o \in Threads : o # th => call'[o] = call[o]
      BY <1>t, <3>3, GotoCall, Names DEF Routes
    <3> QED BY <1>t, <2>4, <3>2, <3>4, DecidedFrame
  <2> QED BY <2>5, <2>6
<1>2. CASE SyncGate(th) /\ call[th].req = r
  <2>1. /\ ticket[r] = call[th].verdict /\ call[th].verdict \in {"approved", "rejected"}
        /\ \A o \in Threads : o # th => call[o].req # r
    BY <1>2, <1>t DEF InTurn, Stage, SyncGate, At, RouteKnown, Verdicts
  <2>2. Goto(th, "sync_idea") /\ "sync_idea" \in Routes /\ UNCHANGED ticket
    BY <1>2 DEF SyncGate, Routes
  <2>3. /\ call'[th].step = "sync_idea"
        /\ \A o \in Threads : o # th => call'[o] = call[o]
    BY <1>t, <2>2, GotoCall
  <2> QED BY <2>1, <2>2, <2>3 DEF DecidedOnce, At
<1>3. CASE ~((ResolveTicket(th) \/ SyncGate(th)) /\ call[th].req = r)
  <2>1. PICK step \in Routes : Goto(th, step)
    BY <1>t, RouteGoesOn
  <2>2. step = "sync_gate" => ResolveTicket(th)
    <3> SUFFICES ASSUME ~ResolveTicket(th) PROVE step # "sync_gate"
      OBVIOUS
    <3>1. \E other \in {"touch", "sync_ticket", "sync_idea", "idle"} : Goto(th, other)
      BY DEF Continue, MirrorFails, MirrorCreate, TouchAwaiting, MirrorResolve,
             SyncTicket, SyncIdea, SyncGate, MirrorEscalate
    <3>2. PICK other \in {"touch", "sync_ticket", "sync_idea", "idle"} : Goto(th, other)
      BY <3>1
    <3>3. call'[th].step = step
      BY <1>t, <2>1, GotoCall
    <3>4. call'[th].step = other
      BY <1>t, <3>2, GotoCall DEF Routes
    <3> QED BY <3>3, <3>4
  <2>3. /\ call'[th].step = step /\ call'[th].req \in {call[th].req, NoRequest}
        /\ \A o \in Threads : o # th => call'[o] = call[o]
    BY <1>t, <2>1, GotoCall, Names
  <2>4. gate'[r] = gate[r]
    BY <1>3, <1>t DEF Continue, MirrorFails, MirrorCreate, TouchAwaiting, MirrorResolve,
       SyncTicket, SyncIdea, ResolveTicket, SyncGate, MirrorEscalate
  <2>5. ticket'[r] = ticket[r] \/ ticket'[r] \notin {"expired", "withdrawn"}
    <3>1. ASSUME MirrorResolve(th) \/ SyncTicket(th)
          PROVE  ticket'[r] = ticket[r] \/ ticket'[r] \notin {"expired", "withdrawn"}
      <4>1. call[th].verdict \in Verdicts
        BY <1>t, <3>1 DEF MirrorResolve, SyncTicket, RouteKnown, At
      <4> QED BY <1>t, <3>1, <4>1 DEF MirrorResolve, SyncTicket, ResolvedTo, Verdicts
    <3>2. ASSUME ResolveTicket(th) PROVE ticket'[r] = ticket[r]
      BY <1>3, <1>t, <3>2 DEF ResolveTicket, ResolvedTo
    <3>3. ASSUME MirrorCreate(th) \/ MirrorEscalate(th)
          PROVE  ticket'[r] = ticket[r] \/ ticket'[r] \notin {"expired", "withdrawn"}
      BY <1>t, <3>3 DEF MirrorCreate, MirrorEscalate, ResolvedTo
    <3> QED BY <3>1, <3>2, <3>3
            DEF Continue, MirrorFails, TouchAwaiting, SyncIdea, SyncGate
  <2>6. call'[th].step = "sync_gate" => call'[th].req # r
    BY <1>3, <1>t, <2>2, <2>3
  <2> QED BY <1>t, <2>3, <2>4, <2>5, <2>6, DecidedFrame
<1> QED BY <1>1, <1>2, <1>3

LEMMA DecidedStep ==
    ASSUME CarryInv, [Next]_vars, NEW r \in Requests, r \notin disturbed'
    PROVE  DecidedOnce(r)'
<1>t. /\ PlaneInv /\ TypeOK /\ ticket \in [Requests -> Lifecycle!States] /\ r # NoRequest
      /\ r \notin disturbed /\ InTurn(r) /\ DecidedOnce(r)
  BY Growing, PlaneAssumption, TypeIs DEF CarryInv, PlaneInv, AgreeInv, Decided
<1>1. ASSUME NEW q \in Requests, WithdrawTicket(q) PROVE DecidedOnce(r)'
  <2>1. UNCHANGED <<gate, call>>
    BY <1>1 DEF WithdrawTicket
  <2>2. CASE q # r
    BY <1>1, <1>t, <2>1, <2>2, DecidedFrame DEF WithdrawTicket
  <2>3. CASE q = r
    <3>1. ticket[r] = "pending" /\ r \notin Busy
      BY <1>1, <1>t, <2>3 DEF WithdrawTicket
    <3>2. ASSUME gate[r] \in {"approved", "rejected"} PROVE FALSE
      <4>1. AtRest(r)
        BY <3>1, <3>2, BusyIs DEF AtRest
      <4>2. Agree(r)
        BY <1>t, <4>1 DEF InTurn
      <4> QED BY <3>1, <3>2, <4>2 DEF Agree
    <3> QED BY <2>1, <3>2 DEF DecidedOnce
  <2> QED BY <2>2, <2>3
<1>2. CASE \E i \in Ideas : RequestLost(i) \/ DeleteIdea(i) \/ \E s \in PutStatuses : SetStatus(i, s)
  <2>1. UNCHANGED <<gate, ticket, call>>
    BY <1>2 DEF RequestLost, DeleteIdea, SetStatus
  <2> QED BY <1>t, <2>1, DecidedFrame
<1>3. CASE Crash
  <2>1. UNCHANGED <<gate, ticket>> /\ \A th \in Threads : call'[th].req # r
    BY <1>3, <1>t, Names DEF Crash
  <2> QED BY <1>t, <2>1, DecidedFrame
<1>4. CASE UNCHANGED vars
  BY <1>4, <1>t, DecidedFrame DEF vars
<1> QED BY <1>1, <1>2, <1>3, <1>4, <1>t, DecidedBegin, DecidedGoOn DEF Next

(* No verdict on an undisturbed request is stranded before it reaches the  *)
(* idea that waits for it.                                                 *)
THEOREM VerdictsAreCarried == Spec => []VerdictCarried
<1>1. Init => Decided
  BY DEF Init, Decided, DecidedOnce
<1>2. PlaneInv /\ AgreeInv /\ Decided /\ [Next]_vars => Decided'
  BY DecidedStep DEF CarryInv, Decided
<1>3. CarryInv => VerdictCarried
  <2> SUFFICES ASSUME CarryInv, NEW r \in Requests, gate[r] \in {"approved", "rejected"},
                      r \notin disturbed, Exists(about[r]), idea[about[r]].request = r,
                      idea[about[r]].verdict # gate[r]
               PROVE  \E th \in Threads :
                        /\ call[th].req = r /\ call[th].verdict = gate[r]
                        /\ call[th].step \in {"mirror_resolve", "sync_ticket", "sync_idea"}
    BY DEF VerdictCarried
  <2>1. InTurn(r) /\ DecidedOnce(r) /\ TypeOK /\ RouteKnown /\ r # NoRequest
    BY PlaneAssumption DEF CarryInv, AgreeInv, PlaneInv, Decided
  <2>2. ~Agree(r)
    BY <2>1 DEF DecidedOnce, Agree, Verdicts
  <2>3. ~AtRest(r)
    BY <2>1, <2>2 DEF InTurn
  <2>4. PICK th \in Threads : call[th].req = r /\ ~At(th, "resolve")
    BY <2>3 DEF AtRest
  <2>5. call[th].step \in Routes /\ ~At(th, "idle") /\ ~At(th, "sync_gate")
    BY <2>1, <2>4, TypeIs DEF RouteKnown, DecidedOnce, Calls
  <2>6. Stage(r, call[th])
    BY <2>1, <2>4 DEF InTurn
  <2> QED BY <2>4, <2>5, <2>6 DEF Stage, At, Routes
<1> QED BY <1>1, <1>2, <1>3, AgreeInvariant, PTL DEF Spec, CarryInv

-----------------------------------------------------------------------------
(* No verdict is stranded, whatever routes overlap.                        *)

Creating(r) ==
    \E th \in Threads : call[th].req = r /\ call[th].step \in {"mirror_create", "touch"}

Brings == {"mirror_resolve", "sync_ticket", "sync_gate", "sync_idea"}

Bringing(r) == \E th \in Threads : call[th].req = r /\ call[th].step \in Brings

\* Nobody decides a request that is still being created.
NotTooEarly(r) ==
    Creating(r) => /\ gate[r] \notin {"approved", "rejected"}
                   /\ ticket[r] \notin {"approved", "rejected"}
                   /\ \A th \in Threads : call[th].req = r =>
                        call[th].step \notin Brings \cup {"resolve", "blind_resolve"}

\* A blind resolve finds no ticket: the mirror's submit was lost.
BlindFindsNothing(r) ==
    \A th \in Threads : call[th].req = r /\ At(th, "blind_resolve") => ticket[r] = "absent"

\* What NoVerdictStranded says of one request.
NotStranded(r) ==
    LET i == about[r] IN
    /\ DecidedAs(r, "approved") \/ DecidedAs(r, "rejected")
    /\ Exists(i) /\ idea[i].request = r
    => idea[i].verdict # "none" \/ Bringing(r)

Brought(r) == NotTooEarly(r) /\ BlindFindsNothing(r) /\ NotStranded(r)

BroughtInv == \A r \in Requests \ missed : Brought(r)

\* The idea r is about waits for r only if it did before, and keeps a verdict.
IdeaKeeps(r) ==
    LET i == about[r] IN
    idea'[i].status # "deleted" /\ idea'[i].request = r =>
        /\ Exists(i) /\ idea[i].request = r
        /\ idea[i].verdict # "none" => idea'[i].verdict # "none"

LEMMA BroughtFrame ==
    ASSUME NEW r \in Requests, Brought(r), IdeaKeeps(r), about' = about,
           gate'[r] = gate[r], ticket'[r] = ticket[r],
           \A th \in Threads : call[th].req = r \/ call'[th].req = r => call'[th] = call[th]
    PROVE  Brought(r)'
<1>1. Creating(r)' <=> Creating(r)
  BY DEF Creating
<1>2. Bringing(r) => Bringing(r)'
  BY DEF Bringing
<1>3. NotTooEarly(r)'
  BY <1>1 DEF Brought, NotTooEarly
<1>4. BlindFindsNothing(r)'
  BY DEF Brought, BlindFindsNothing, At
<1>5. NotStranded(r)'
  BY <1>2 DEF Brought, NotStranded, DecidedAs, IdeaKeeps, Exists
<1> QED BY <1>3, <1>4, <1>5 DEF Brought

LEMMA IdeaWaitsOn ==
    ASSUME TypeOK, RouteKnown, [Next]_vars, NEW r \in Requests
    PROVE  IdeaKeeps(r) \/ \E th \in Threads : TouchAwaiting(th) /\ call[th].req = r
<1>t. idea \in [Ideas -> Rows] /\ about \in [Requests -> Ideas] /\ r # NoRequest
      /\ about[r] \in Ideas /\ idea[about[r]] \in Rows
  BY TypeIs, PlaneAssumption
<1>1. ASSUME NEW th \in Threads, TouchAwaiting(th), call[th].req # r PROVE IdeaKeeps(r)
  <2>1. idea'[about[r]] = idea[about[r]] \/ idea'[about[r]].request = call[th].req
    BY <1>1, <1>t DEF TouchAwaiting
  <2> QED BY <1>1, <2>1 DEF IdeaKeeps, Exists
<1>2. ASSUME NEW th \in Threads, SyncIdea(th) PROVE IdeaKeeps(r)
  <2>1. call[th].verdict \in Verdicts
    BY <1>2 DEF SyncIdea, RouteKnown, At
  <2>2. CASE about[call[th].req] # about[r]
    BY <1>2, <1>t, <2>2 DEF SyncIdea, IdeaKeeps, Exists
  <2>3. CASE about[call[th].req] = about[r]
    <3> DEFINE new == [idea[about[r]] EXCEPT !.status = StatusAfter(call[th].verdict),
                                             !.verdict = call[th].verdict,
                                             !.required = (call[th].verdict = "needs_info")]
    <3>1. new.request = idea[about[r]].request /\ new.verdict # "none"
      BY <1>t, <2>1 DEF Rows, Verdicts
    <3>2. idea' = idea \/ (Exists(about[r]) /\ idea' = [idea EXCEPT ![about[r]] = new])
      BY <1>2, <1>t, <2>3 DEF SyncIdea
    <3> HIDE DEF new
    <3>3. idea'[about[r]] = idea[about[r]] \/ (Exists(about[r]) /\ idea'[about[r]] = new)
      BY <1>t, <3>2
    <3> QED BY <3>1, <3>3 DEF IdeaKeeps, Exists
  <2> QED BY <2>2, <2>3
<1>3. ASSUME NEW j \in Ideas, RequestLost(j) PROVE IdeaKeeps(r)
  <2>1. idea'[about[r]] = idea[about[r]] \/ idea'[about[r]].request = NoRequest
    BY <1>3, <1>t DEF RequestLost
  <2> QED BY <1>t, <2>1 DEF IdeaKeeps, Exists
<1>4. ASSUME NEW j \in Ideas, NEW s, Exists(j), idea' = [idea EXCEPT ![j].status = s]
      PROVE  IdeaKeeps(r)
  BY <1>4, <1>t DEF IdeaKeeps, Exists, Rows
<1>5. \/ UNCHANGED idea
      \/ \E th \in Threads : TouchAwaiting(th) \/ SyncIdea(th)
      \/ \E j \in Ideas : RequestLost(j) \/ DeleteIdea(j) \/ \E s \in PutStatuses : SetStatus(j, s)
  BY DEF Next, Begin, Continue, RequestApproval, EscalateRequest, SubmitReview, ReadTicketBefore,
         MirrorCreate, MirrorResolve, SyncTicket, ResolveTicket, SyncGate, MirrorEscalate,
         MirrorFails, WithdrawTicket, Crash, vars
<1>6. UNCHANGED idea => IdeaKeeps(r)
  BY DEF IdeaKeeps, Exists
<1> QED BY <1>1, <1>2, <1>3, <1>4, <1>5, <1>6 DEF DeleteIdea, SetStatus

LEMMA BroughtBegin ==
    ASSUME PlaneInv, NEW th \in Threads, NEW q \in Requests, Begin(th, q),
           NEW r \in Requests, r \notin missed', Brought(r), IdeaKeeps(r)
    PROVE  Brought(r)'
<1>t. /\ TypeOK /\ RouteKnown /\ Unborn /\ gate \in [Requests -> GateStatuses]
      /\ r # NoRequest /\ about' = about /\ UNCHANGED <<ticket, idea>>
  BY TypeIs, PlaneAssumption
     DEF PlaneInv, Begin, RequestApproval, EscalateRequest, SubmitReview, ReadTicketBefore
<1>1. PICK step \in {"mirror_create", "mirror_escalate", "mirror_resolve", "resolve",
                     "blind_resolve"}, v \in Verdicts \cup {"none", "expired"} :
        /\ Enter(th, q, step, v)
        /\ step = "mirror_create" => RequestApproval(th, q)
        /\ step = "mirror_escalate" => EscalateRequest(th, q)
        /\ step = "mirror_resolve" => TooEarly(q) \subseteq missed'
        /\ step \in {"resolve", "blind_resolve"} =>
             TooEarly(q) \subseteq missed' /\ UNCHANGED gate
        /\ step = "blind_resolve" => ticket[q] = "absent"
  BY DEF Begin, RequestApproval, EscalateRequest, SubmitReview, ReadTicketBefore, Verdicts
<1>2. /\ At(th, "idle") /\ call[th] = Idle /\ call[th].req = NoRequest
      /\ call'[th].step = step /\ call'[th].req = q
      /\ \A o \in Threads : o # th => call'[o] = call[o]
  BY <1>t, <1>1, EnterCall, Names DEF Enter, Routes
<1>3. CASE q # r
  <2>1. gate'[r] = gate[r]
    BY <1>3, <1>t DEF Begin, RequestApproval, EscalateRequest, SubmitReview, ReadTicketBefore
  <2> QED BY <1>2, <1>3, <1>t, <2>1, BroughtFrame
<1>4. CASE q = r /\ step = "mirror_create"
  <2>1. /\ gate'[r] = "pending" /\ ticket[r] = "absent"
        /\ \A o \in Threads : o # th => call'[o].req # r
    BY <1>1, <1>2, <1>4, <1>t, BusyIs DEF RequestApproval, Unborn
  <2>2. \A o \in Threads : call'[o].req = r => call'[o].step = "mirror_create"
    BY <1>2, <1>4, <2>1
  <2> QED BY <1>t, <2>1, <2>2
        DEF Brought, NotTooEarly, BlindFindsNothing, NotStranded, DecidedAs, At, Brings
<1>5. CASE q = r /\ step = "mirror_escalate"
  <2>1. gate'[r] = "escalated"
    BY <1>1, <1>5, <1>t DEF EscalateRequest
  <2>2. (Creating(r)' <=> Creating(r)) /\ (Bringing(r) => Bringing(r)')
    BY <1>2, <1>5, <1>t DEF Creating, Bringing
  <2>3. NotTooEarly(r)' /\ BlindFindsNothing(r)'
    BY <1>2, <1>5, <1>t, <2>1, <2>2 DEF Brought, NotTooEarly, BlindFindsNothing, At, Brings
  <2>4. NotStranded(r)'
    BY <1>t, <2>1, <2>2 DEF Brought, NotStranded, DecidedAs, Exists
  <2> QED BY <2>3, <2>4 DEF Brought
<1>6. CASE q = r /\ step \in {"mirror_resolve", "resolve", "blind_resolve"}
  <2>1. ~Creating(r)
    BY <1>1, <1>6, <1>t DEF TooEarly, Creating
  <2>2. ~Creating(r)' /\ (Bringing(r) => Bringing(r)') /\ (step = "mirror_resolve" => Bringing(r)')
    BY <1>2, <1>6, <1>t, <2>1 DEF Creating, Bringing, Brings
  <2>3. BlindFindsNothing(r)'
    BY <1>1, <1>2, <1>6, <1>t DEF Brought, BlindFindsNothing, At
  <2>4. NotStranded(r)'
    BY <1>1, <1>6, <1>t, <2>2 DEF Brought, NotStranded, DecidedAs, Exists
  <2> QED BY <2>2, <2>3, <2>4 DEF Brought, NotTooEarly
<1> QED BY <1>3, <1>4, <1>5, <1>6

LEMMA BroughtGoOn ==
    ASSUME PlaneInv, NEW th \in Threads, Continue(th) \/ MirrorFails(th), [Next]_vars,
           NEW r \in Requests, r \notin missed', Brought(r)
    PROVE  Brought(r)'
<1>t. /\ TypeOK /\ RouteKnown /\ r # NoRequest /\ about' = about
      /\ gate \in [Requests -> GateStatuses] /\ ticket \in [Requests -> Lifecycle!States]
      /\ idea \in [Ideas -> Rows] /\ about[r] \in Ideas
  BY TypeIs, PlaneAssumption
     DEF PlaneInv, Continue, MirrorCreate, TouchAwaiting, MirrorResolve, SyncTicket, SyncIdea,
         ResolveTicket, SyncGate, MirrorEscalate, MirrorFails
<1>1. PICK step \in Routes \ {"mirror_create"} : Goto(th, step)
  BY <1>t, RouteGoesOn
<1>2. /\ ~At(th, "idle") /\ call[th].req \in Requests
      /\ call'[th].step = step
      /\ call'[th].req = (IF step = "idle" THEN NoRequest ELSE call[th].req)
      /\ \A o \in Threads : o # th => call'[o] = call[o]
  BY <1>t, <1>1, RouteGoesOn, GotoCall, Names DEF RouteKnown
<1>3. CASE call[th].req # r
  <2>1. \A o \in Threads : o # th => ~TouchAwaiting(o)
    <3> SUFFICES ASSUME NEW o \in Threads, o # th, TouchAwaiting(o) PROVE FALSE
      OBVIOUS
    <3>1. call'[o].step = "idle" /\ At(o, "touch")
      BY <1>t, GotoCall DEF TouchAwaiting, Routes
    <3> QED BY <1>2, <3>1 DEF At
  <2>2. IdeaKeeps(r)
    BY <1>3, <1>t, <2>1, IdeaWaitsOn
  <2>3. gate'[r] = gate[r]
    BY <1>3, <1>t DEF Continue, MirrorCreate, TouchAwaiting, MirrorResolve, SyncTicket, SyncIdea,
                      ResolveTicket, SyncGate, MirrorEscalate, MirrorFails
  <2>4. ticket'[r] = ticket[r]
    BY <1>3, <1>t DEF Continue, MirrorCreate, TouchAwaiting, MirrorResolve, SyncTicket, SyncIdea,
                      ResolveTicket, SyncGate, MirrorEscalate, MirrorFails, ResolvedTo
  <2> QED BY <1>2, <1>3, <1>t, <2>2, <2>3, <2>4, BroughtFrame
<1>4. CASE call[th].req = r /\ call[th].step \in {"mirror_create", "touch"}
  <2>1. /\ Creating(r)
        /\ gate[r] \notin {"approved", "rejected"}
        /\ ticket[r] \notin {"approved", "rejected"}
        /\ \A o \in Threads : call[o].req = r =>
             call[o].step \notin Brings \cup {"resolve", "blind_resolve"}
    BY <1>4 DEF Creating, Brought, NotTooEarly
  <2>2. step \in {"touch", "idle"} /\ gate' = gate /\ ticket'[r] \in {ticket[r], "pending"}
    BY <1>1, <1>2, <1>4, <1>t, GotoCall, Names
       DEF Continue, MirrorCreate, TouchAwaiting, MirrorResolve, SyncTicket, SyncIdea,
           ResolveTicket, SyncGate, MirrorEscalate, MirrorFails, At, Routes
  <2>3. \A o \in Threads : call'[o].req = r =>
          call'[o].step \notin Brings \cup {"resolve", "blind_resolve"}
    BY <1>2, <1>4, <1>t, <2>1, <2>2 DEF Brings
  <2> QED BY <1>t, <2>1, <2>2, <2>3
        DEF Brought, NotTooEarly, BlindFindsNothing, NotStranded, DecidedAs, At
<1>5. CASE call[th].req = r /\ call[th].step = "mirror_escalate"
  <2>1. step = "idle" /\ gate' = gate /\ idea' = idea
        /\ (ticket' = ResolvedTo(r, "escalated") \/ ticket' = ticket)
    BY <1>1, <1>2, <1>5, <1>t, GotoCall, Names
       DEF Continue, MirrorCreate, TouchAwaiting, MirrorResolve, SyncTicket, SyncIdea,
           ResolveTicket, SyncGate, MirrorEscalate, MirrorFails, At, Routes
  <2>2. /\ ticket'[r] \in {ticket[r], "escalated"}
        /\ ticket[r] = "absent" => ticket'[r] = "absent"
    BY <1>t, <2>1 DEF ResolvedTo, Open
  <2>3. (Creating(r)' <=> Creating(r)) /\ (Bringing(r) => Bringing(r)')
    BY <1>2, <1>5, <1>t, <2>1 DEF Creating, Bringing, Brings
  <2>4. NotTooEarly(r)' /\ BlindFindsNothing(r)'
    BY <1>2, <1>5, <1>t, <2>1, <2>2, <2>3 DEF Brought, NotTooEarly, BlindFindsNothing, At
  <2>5. NotStranded(r)'
    BY <1>t, <2>1, <2>2, <2>3 DEF Brought, NotStranded, DecidedAs, Exists
  <2> QED BY <2>4, <2>5 DEF Brought
<1>6. CASE call[th].req = r /\ call[th].step \in Brings \cup {"resolve", "blind_resolve"}
  <2>1. ~Creating(r)
    BY <1>6 DEF Brought, NotTooEarly
  <2>2. step \in {"sync_ticket", "sync_idea", "sync_gate", "idle"}
    BY <1>1, <1>2, <1>6, <1>t, GotoCall, Names
       DEF Continue, MirrorCreate, TouchAwaiting, MirrorResolve, SyncTicket, SyncIdea,
           ResolveTicket, SyncGate, MirrorEscalate, MirrorFails, At, Routes, Brings
  <2>3. ~Creating(r)' /\ NotTooEarly(r)'
    BY <1>2, <2>1, <2>2 DEF Creating, NotTooEarly
  <2>4. ticket[r] = "absent" => ticket'[r] = "absent"
    BY <1>6, <1>t DEF Continue, MirrorCreate, TouchAwaiting, MirrorResolve, SyncTicket, SyncIdea,
           ResolveTicket, SyncGate, MirrorEscalate, MirrorFails, At, Brings, ResolvedTo, Open
  <2>5. BlindFindsNothing(r)'
    BY <1>2, <2>2, <2>4 DEF Brought, BlindFindsNothing, At
  <2>6. CASE step # "idle"
    <3>1. Bringing(r)'
      BY <1>2, <1>6, <2>2, <2>6 DEF Bringing, Brings
    <3> QED BY <2>3, <2>5, <3>1 DEF Brought, NotStranded
  <2>7. CASE step = "idle" /\ call[th].step \in Brings
    <3>1. SyncIdea(th)
      BY <1>1, <1>2, <1>6, <1>t, <2>7, GotoCall, Names
         DEF Continue, MirrorCreate, TouchAwaiting, MirrorResolve, SyncTicket, SyncIdea,
             ResolveTicket, SyncGate, MirrorEscalate, MirrorFails, At, Routes, Brings
    <3>2. call[th].verdict \in Verdicts
      BY <1>t, <3>1 DEF SyncIdea, RouteKnown, At
    <3>3. ~Exists(about[r])' \/ idea'[about[r]].verdict = call[th].verdict
      <4> DEFINE new == [idea[about[r]] EXCEPT !.status = StatusAfter(call[th].verdict),
                                               !.verdict = call[th].verdict,
                                               !.required = (call[th].verdict = "needs_info")]
      <4>1. new.verdict = call[th].verdict
        BY <1>t, <3>2 DEF Rows, Verdicts
      <4>2. IF Exists(about[r]) THEN idea' = [idea EXCEPT ![about[r]] = new] ELSE idea' = idea
        BY <1>6, <1>t, <3>1 DEF SyncIdea
      <4> HIDE DEF new
      <4> QED BY <1>t, <4>1, <4>2 DEF Exists
    <3>4. NotStranded(r)'
      BY <1>t, <3>2, <3>3 DEF NotStranded, Verdicts
    <3> QED BY <2>3, <2>5, <3>4 DEF Brought
  <2>8. CASE step = "idle" /\ call[th].step \notin Brings
    <3>1. ResolveTicket(th)
      BY <1>1, <1>2, <1>6, <1>t, <2>8, GotoCall, Names
         DEF Continue, MirrorCreate, TouchAwaiting, MirrorResolve, SyncTicket, SyncIdea,
             ResolveTicket, SyncGate, MirrorEscalate, MirrorFails, At, Routes, Brings
    <3>2. gate' = gate /\ idea' = idea /\ ticket' = ResolvedTo(r, call[th].verdict)
      BY <1>6, <3>1 DEF ResolveTicket
    <3>3. ticket'[r] = ticket[r] \/ ticket'[r] = "expired"
      <4>1. CASE At(th, "blind_resolve")
        <5>1. ticket[r] = "absent"
          BY <1>6, <4>1 DEF Brought, BlindFindsNothing
        <5> QED BY <2>4, <5>1
      <4>2. CASE At(th, "resolve") /\ ticket[r] \in Open /\ call[th].verdict # "expired"
        <5>1. Goto(th, "sync_gate") /\ "sync_gate" \in Routes
          BY <1>6, <3>1, <4>2 DEF ResolveTicket, Routes
        <5>2. call'[th].step = "sync_gate"
          BY <1>t, <5>1, GotoCall
        <5> QED BY <1>2, <2>8, <5>2
      <4>3. CASE ticket[r] \notin Open \/ call[th].verdict = "expired"
        BY <1>t, <3>2, <4>3 DEF ResolvedTo
      <4> QED BY <3>1, <4>1, <4>2, <4>3 DEF ResolveTicket
    <3>4. Bringing(r) => Bringing(r)'
      BY <1>2, <2>8 DEF Bringing
    <3>5. NotStranded(r)'
      BY <1>t, <3>2, <3>3, <3>4 DEF Brought, NotStranded, DecidedAs, Exists
    <3> QED BY <2>3, <2>5, <3>5 DEF Brought
  <2> QED BY <2>6, <2>7, <2>8
<1>7. call[th].step \in {"mirror_create", "touch", "mirror_escalate"}
                         \cup Brings \cup {"resolve", "blind_resolve"}
  BY <1>2, <1>t, TypeIs DEF Calls, Routes, Brings, At
<1> QED BY <1>3, <1>4, <1>5, <1>6, <1>7

LEMMA BroughtStep == PlaneInv /\ BroughtInv /\ [Next]_vars => BroughtInv'
<1> SUFFICES ASSUME PlaneInv, BroughtInv, [Next]_vars, NEW r \in Requests, r \notin missed'
             PROVE  Brought(r)'
  BY DEF BroughtInv
<1>t. /\ TypeOK /\ RouteKnown /\ r # NoRequest
      /\ gate \in [Requests -> GateStatuses] /\ ticket \in [Requests -> Lifecycle!States]
  BY TypeIs, PlaneAssumption DEF PlaneInv
<1>1. r \notin missed /\ Brought(r)
  <2>1. missed \subseteq missed'
    BY DEF Next, Begin, Continue, RequestApproval, EscalateRequest, SubmitReview, ReadTicketBefore,
           MirrorCreate, TouchAwaiting, SyncIdea, MirrorResolve, SyncTicket, ResolveTicket,
           SyncGate, MirrorEscalate, MirrorFails, WithdrawTicket, RequestLost, DeleteIdea,
           SetStatus, Crash, vars
  <2> QED BY <2>1 DEF BroughtInv
<1>2. CASE \E th \in Threads : Continue(th) \/ MirrorFails(th)
  BY <1>1, <1>2, BroughtGoOn
<1>3. CASE ~\E th \in Threads : Continue(th) \/ MirrorFails(th)
  <2>1. IdeaKeeps(r)
    BY <1>3, <1>t, IdeaWaitsOn DEF Continue
  <2>2. CASE \E th \in Threads, q \in Requests : Begin(th, q)
    BY <1>1, <2>1, <2>2, BroughtBegin
  <2>3. CASE WithdrawTicket(r)
    <3>1. ticket[r] = "pending" /\ ticket'[r] = "withdrawn" /\ UNCHANGED <<gate, about, idea, call>>
      BY <1>t, <2>3 DEF WithdrawTicket
    <3>2. (Creating(r)' <=> Creating(r)) /\ (Bringing(r) => Bringing(r)')
      BY <3>1 DEF Creating, Bringing
    <3>3. NotTooEarly(r)' /\ BlindFindsNothing(r)'
      BY <1>1, <3>1, <3>2 DEF Brought, NotTooEarly, BlindFindsNothing, At
    <3>4. NotStranded(r)'
      BY <1>1, <3>1, <3>2 DEF Brought, NotStranded, DecidedAs, Exists
    <3> QED BY <3>3, <3>4 DEF Brought
  <2>4. CASE Crash
    <3>1. /\ UNCHANGED <<gate, about, ticket>>
          /\ \A th \in Threads : call[th].req # r /\ call'[th].req # r
      BY <1>t, <2>4, BusyIs, Names DEF Crash
    <3> QED BY <1>1, <2>1, <3>1, BroughtFrame
  <2>5. CASE \/ UNCHANGED vars
             \/ \E q \in Requests : WithdrawTicket(q) /\ q # r
             \/ \E i \in Ideas : RequestLost(i) \/ DeleteIdea(i) \/ \E s \in PutStatuses : SetStatus(i, s)
    <3>1. /\ UNCHANGED <<gate, about, call>> /\ ticket'[r] = ticket[r]
      BY <1>t, <2>5 DEF vars, WithdrawTicket, RequestLost, DeleteIdea, SetStatus
    <3> QED BY <1>1, <2>1, <3>1, BroughtFrame
  <2> QED BY <1>3, <2>2, <2>3, <2>4, <2>5 DEF Next
<1> QED BY <1>2, <1>3

(* However the routes on a request overlap, its verdict reaches the idea   *)
(* or is on its way: only a decision that begins before the request is     *)
(* fully created, or a route cut off before the idea, strands one.         *)
THEOREM OverlapsStrandNothing == Spec => []NoVerdictStranded
<1>1. Init => BroughtInv
  BY Names, PlaneAssumption
     DEF Init, BroughtInv, Brought, NotTooEarly, BlindFindsNothing, NotStranded, Creating,
         DecidedAs, At
<1>2. BroughtInv => NoVerdictStranded
  BY DEF BroughtInv, Brought, NotStranded, NoVerdictStranded, Bringing, Brings
<1> QED BY <1>1, <1>2, BroughtStep, PlaneInvariant, PTL DEF Spec

-----------------------------------------------------------------------------
(* Routes come to their end.                                               *)

\* The calls a route still has to make.
CallsLeft ==
    [idle |-> 0, touch |-> 1, sync_idea |-> 1, mirror_escalate |-> 1, blind_resolve |-> 1,
     mirror_create |-> 2, sync_ticket |-> 2, sync_gate |-> 2,
     mirror_resolve |-> 3, resolve |-> 3]

\* Whatever a thread in a route does or suffers, it has fewer calls left.
RoutesEnd ==
    [][\A th \in Threads :
          \/ At(th, "idle")
          \/ call'[th] = call[th]
          \/ CallsLeft[call'[th].step] < CallsLeft[call[th].step]]_vars

(* The safety core of VerdictArrives, with VerdictsAreCarried: each call a *)
(* route makes or loses brings the route nearer to its end.                *)
THEOREM RoutesWindDown == Spec => RoutesEnd
<1>1. ASSUME TypeOK, RouteKnown, [Next]_vars, NEW th \in Threads,
             ~At(th, "idle"), call'[th] # call[th]
      PROVE  CallsLeft[call'[th].step] < CallsLeft[call[th].step]
  <2>1. ASSUME NEW o \in Threads, Continue(o) \/ MirrorFails(o) PROVE o = th
    <3>1. PICK step \in Routes : Goto(o, step)
      BY <1>1, <2>1, RouteGoesOn
    <3> QED BY <1>1, <3>1, GotoCall
  <2>2. ASSUME NEW to \in Routes, Goto(th, to), CallsLeft[to] < CallsLeft[call[th].step]
        PROVE  CallsLeft[call'[th].step] < CallsLeft[call[th].step]
    BY <1>1, <2>2, GotoCall
  <2>3. ASSUME Continue(th) \/ MirrorFails(th)
        PROVE  CallsLeft[call'[th].step] < CallsLeft[call[th].step]
    <3>1. \/ call[th].step = "mirror_create" /\ Goto(th, "touch")
          \/ call[th].step = "mirror_resolve" /\ Goto(th, "sync_ticket")
          \/ call[th].step \in {"sync_ticket", "sync_gate"} /\ Goto(th, "sync_idea")
          \/ call[th].step = "resolve" /\ Goto(th, "sync_gate")
          \/ /\ call[th].step \in {"touch", "sync_idea", "resolve", "blind_resolve",
                                   "mirror_escalate"}
             /\ Goto(th, "idle")
      BY <2>3 DEF Continue, MirrorFails, MirrorCreate, TouchAwaiting, MirrorResolve, SyncTicket,
                  SyncIdea, ResolveTicket, SyncGate, MirrorEscalate, At
    <3>2. CASE call[th].step = "mirror_create" /\ Goto(th, "touch")
      BY <2>2, <3>2 DEF Routes, CallsLeft
    <3>3. CASE call[th].step = "mirror_resolve" /\ Goto(th, "sync_ticket")
      BY <2>2, <3>3 DEF Routes, CallsLeft
    <3>4. CASE call[th].step \in {"sync_ticket", "sync_gate"} /\ Goto(th, "sync_idea")
      BY <2>2, <3>4 DEF Routes, CallsLeft
    <3>5. CASE call[th].step = "resolve" /\ Goto(th, "sync_gate")
      BY <2>2, <3>5 DEF Routes, CallsLeft
    <3>6. CASE /\ call[th].step \in {"touch", "sync_idea", "resolve", "blind_resolve",
                                     "mirror_escalate"}
               /\ Goto(th, "idle")
      BY <2>2, <3>6 DEF Routes, CallsLeft
    <3> QED BY <3>1, <3>2, <3>3, <3>4, <3>5, <3>6
  <2>4. CASE Crash
    <3>1. call'[th] = Idle /\ call[th].step \in Routes \ {"idle"}
      BY <1>1, <2>4, TypeIs DEF Crash, At, Calls
    <3> QED BY <3>1, Names DEF CallsLeft, Routes
  <2>5. ASSUME NEW o \in Threads, NEW r \in Requests, Begin(o, r) PROVE FALSE
    <3>1. \E step \in Routes, v \in Verdicts \cup {"none", "expired"} : Enter(o, r, step, v)
      BY <2>5 DEF Begin, RequestApproval, EscalateRequest, SubmitReview, ReadTicketBefore,
                  Routes, Verdicts
    <3>2. call[o] = Idle /\ \A t \in Threads : t # o => call'[t] = call[t]
      BY <1>1, <3>1, EnterCall DEF Enter
    <3> QED BY <1>1, <3>2, Names DEF At
  <2>6. CASE \/ UNCHANGED vars
             \/ \E r \in Requests : WithdrawTicket(r)
             \/ \E i \in Ideas : RequestLost(i) \/ DeleteIdea(i)
                                   \/ \E s \in PutStatuses : SetStatus(i, s)
    BY <1>1, <2>6 DEF vars, WithdrawTicket, RequestLost, DeleteIdea, SetStatus
  <2> QED BY <1>1, <2>1, <2>3, <2>4, <2>5, <2>6 DEF Next
<1>2. TypeOK /\ RouteKnown /\ [Next]_vars =>
        [\A th \in Threads :
            \/ At(th, "idle")
            \/ call'[th] = call[th]
            \/ CallsLeft[call'[th].step] < CallsLeft[call[th].step]]_vars
  BY <1>1
<1> QED BY <1>2, TypeInvariant, PTL DEF Spec, RoutesEnd
=============================================================================
