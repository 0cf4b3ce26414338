-------------------------- MODULE HumanGatePlane --------------------------
(***************************************************************************)
(* One approval is kept in three places: the HumanGate request             *)
(* (governance/human_gate.py), the governance ticket of the same id        *)
(* (governance/ticket.py) and the idea it is about                         *)
(* (cognitive/idea_vault.py).  The routes of api/gates_routes.py,          *)
(* api/governance_routes.py and api/idea_routes.py carry a decision from   *)
(* one to the others, call by call.  Each store locks its own call; a      *)
(* route holds no lock between two of them and runs in a thread of the     *)
(* server's pool, so routes interleave, and a restart drops what is left.  *)
(*                                                                         *)
(* A call that a guard refuses (404, 409, 422) changes nothing and is no   *)
(* action here; the ticket operations are atomic (see TicketStore).        *)
(***************************************************************************)
EXTENDS Naturals, FiniteSets

CONSTANTS
    Requests,     \* request_id values, also the ids of the mirrored tickets
    Ideas,        \* idea_id values
    NoRequest,    \* no request id
    Threads,      \* threads of the server's pool
    PutStatuses,  \* the statuses operators set with PUT /ideas/{id}
    MaxCrashes,   \* bound on the restarts
    MaxFaults     \* bound on the calls that fail and are only logged

ASSUME PlaneAssumption ==
    /\ NoRequest \notin Requests
    /\ MaxCrashes \in Nat /\ MaxFaults \in Nat

VARIABLES
    gate,         \* human_gate_requests.status, "absent" before create_request
    about,        \* about[r]: the idea named by the request's gate_id
    ticket,       \* governance_tickets.state of the mirrored ticket
    idea,         \* the row of each idea
    call,         \* call[th]: the route thread th is in the middle of
    disturbed,    \* requests whose handling was not one decision at a time
    missed,       \* requests decided too early, or with a route that was cut off
    crashes, faults

vars == <<gate, about, ticket, idea, call, disturbed, missed, crashes, faults>>

Verdicts == {"approved", "rejected", "needs_info"}
Open     == {"pending", "escalated"}

Lifecycle == INSTANCE TicketLifecycle WITH Tickets <- Requests, state <- ticket

GateStatuses == {"absent", "pending", "escalated"} \cup Verdicts

\* Statuses no route of this model tells apart (submitted, stale...) are "draft".
IdeaStatuses == {"deleted", "draft", "clarification", "council_review",
                 "awaiting_approval", "rejected", "accepted", "implemented"}

\* awaiting_approval and council_review have calls of their own.
ASSUME PutAssumption == PutStatuses \subseteq IdeaStatuses \ {"deleted", "awaiting_approval"}

Protected == {"accepted", "implemented"}     \* HUMAN_GATE_PROTECTED_STATUSES

Idle == [step |-> "idle", req |-> NoRequest, verdict |-> "none"]

TypeOK ==
    /\ gate \in [Requests -> GateStatuses]
    /\ about \in [Requests -> Ideas]
    /\ ticket \in [Requests -> Lifecycle!States]
    /\ idea \in [Ideas -> [status : IdeaStatuses, required : BOOLEAN,
                           request : Requests \cup {NoRequest},
                           verdict : Verdicts \cup {"none"}]]
    /\ call \in [Threads ->
                  [step : {"idle", "mirror_create", "touch", "mirror_resolve",
                           "sync_ticket", "sync_idea", "resolve", "blind_resolve",
                           "sync_gate", "mirror_escalate"},
                   req : Requests \cup {NoRequest},
                   verdict : Verdicts \cup {"none", "expired"}]]
    /\ disturbed \subseteq Requests /\ missed \subseteq Requests
    /\ crashes \in 0..MaxCrashes /\ faults \in 0..MaxFaults

\* Which idea a request will be about is fixed by its caller.
Init ==
    /\ gate = [r \in Requests |-> "absent"]
    /\ about \in [Requests -> Ideas]
    /\ ticket = [r \in Requests |-> "absent"]
    /\ idea = [i \in Ideas |-> [status |-> "draft", required |-> FALSE,
                                request |-> NoRequest, verdict |-> "none"]]
    /\ call = [th \in Threads |-> Idle]
    /\ disturbed = {} /\ missed = {} /\ crashes = 0 /\ faults = 0

-----------------------------------------------------------------------------
Exists(i) == idea[i].status # "deleted"

\* Requests some route is in the middle of handling.
Busy == {call[th].req : th \in Threads} \ {NoRequest}

\* Requests that meet at the idea r is about.
Siblings(r) == {q \in Requests : about[q] = about[r]}

\* A route on r starts while another still works on r or on its idea: neither
\* is handled one decision at a time any more.
Overlap(r) == IF Busy \cap Siblings(r) = {} THEN {}
              ELSE {r} \cup (Busy \cap Siblings(r))

\* A decision on r begins before the route that creates r has finished.
TooEarly(r) ==
    {r} \cap {call[th].req : th \in {o \in Threads : call[o].step \in {"mirror_create", "touch"}}}

Enter(th, r, step, verdict) ==
    /\ call[th] = Idle
    /\ call' = [call EXCEPT ![th] = [step |-> step, req |-> r, verdict |-> verdict]]

\* A route of a single call needs a thread too.
ThreadFree == \E th \in Threads : call[th] = Idle

At(th, step) == call[th].step = step

Goto(th, step) == call' = [call EXCEPT ![th] =
                              IF step = "idle" THEN Idle ELSE [@ EXCEPT !.step = step]]

\* Mutant: the ticket takes whatever decision comes last.
ResolvedAnyway(r, state) ==
    IF ticket[r] = "absent" THEN ticket ELSE [ticket EXCEPT ![r] = state]

\* TicketStore.resolve and .escalate on the mirrored ticket: a ticket that is
\* missing or already final is left alone.
ResolvedTo(r, state) ==
    IF ticket[r] \in Open THEN [ticket EXCEPT ![r] = state] ELSE ticket

-----------------------------------------------------------------------------
(* PUT /ideas/{id} with status awaiting_approval, or an idea created with  *)
(* attachments that need a gate: IdeaVault.request_approval.               *)

RequestApproval(th, r) ==
    /\ gate[r] = "absent" /\ r \notin Busy /\ Exists(about[r])
    /\ Enter(th, r, "mirror_create", "none")
    /\ gate' = [gate EXCEPT ![r] = "pending"]
    /\ disturbed' = disturbed \cup Overlap(r)
    /\ UNCHANGED <<about, ticket, idea, missed, crashes, faults>>

\* create_request raises: the idea waits all the same, for no request.
RequestLost(i) ==
    /\ ThreadFree /\ Exists(i)
    /\ faults < MaxFaults /\ faults' = faults + 1
    /\ idea' = [idea EXCEPT ![i] = [status |-> "awaiting_approval", required |-> TRUE,
                                    request |-> NoRequest, verdict |-> "none"]]
    /\ UNCHANGED <<gate, about, ticket, call, disturbed, missed, crashes>>

MirrorCreate(th) ==
    LET r == call[th].req IN
    /\ At(th, "mirror_create")
    /\ ticket' = [ticket EXCEPT ![r] = "pending"]
    /\ Goto(th, "touch")
    /\ UNCHANGED <<gate, about, idea, disturbed, missed, crashes, faults>>

\* _touch: the idea waits for this request, whatever it was waiting for before.
TouchAwaiting(th) ==
    LET r == call[th].req
        i == about[r]
    IN
    /\ At(th, "touch")
    /\ idea' = IF Exists(i)
               THEN [idea EXCEPT ![i] = [status |-> "awaiting_approval", required |-> TRUE,
                                         request |-> r, verdict |-> "none"]]
               ELSE idea
    /\ Goto(th, "idle")
    /\ UNCHANGED <<gate, about, ticket, disturbed, missed, crashes, faults>>

-----------------------------------------------------------------------------
(* POST /gates/human/reviews: submit_review looks at no status, so a       *)
(* request can be reviewed again after it was decided.                     *)

SubmitReview(th, r, verdict) ==
    /\ gate[r] # "absent"
    /\ Enter(th, r, "mirror_resolve", verdict)
    /\ gate' = [gate EXCEPT ![r] = verdict]
    /\ disturbed' = disturbed \cup Overlap(r)
                      \cup (IF ticket[r] \in Lifecycle!Final THEN {r} ELSE {})
    /\ missed' = missed \cup TooEarly(r)
    /\ UNCHANGED <<about, ticket, idea, crashes, faults>>

\* _mirror_resolve, inside submit_review.
MirrorResolve(th) ==
    LET r == call[th].req IN
    /\ At(th, "mirror_resolve")
    /\ ticket' = IF call[th].verdict = "needs_info" THEN ticket
                 ELSE ResolvedTo(r, call[th].verdict)
    /\ Goto(th, "sync_ticket")
    /\ UNCHANGED <<gate, about, idea, disturbed, missed, crashes, faults>>

\* Mutant: the route leaves the ticket to the mirror.
SyncTicketSkipped(th) ==
    /\ At(th, "sync_ticket")
    /\ Goto(th, "sync_idea")
    /\ UNCHANGED <<gate, about, ticket, idea, disturbed, missed, crashes, faults>>

\* _sync_idea_human_gate_review: TicketStore has no update_status, so this is
\* the resolve of the fallback, a second time.
SyncTicket(th) ==
    LET r == call[th].req IN
    /\ At(th, "sync_ticket")
    /\ ticket' = IF call[th].verdict = "needs_info" THEN ticket
                 ELSE ResolvedTo(r, call[th].verdict)
    /\ Goto(th, "sync_idea")
    /\ UNCHANGED <<gate, about, idea, disturbed, missed, crashes, faults>>

\* Mutant: the verdict itself becomes the idea's status.
StatusVerbatim(verdict) == verdict

StatusAfter(verdict) ==
    CASE verdict = "approved"   -> "accepted"
      [] verdict = "rejected"   -> "rejected"
      [] verdict = "needs_info" -> "clarification"

\* Mutant: every verdict unlocks the idea.
SyncIdeaUnlocks(th) ==
    LET r == call[th].req
        i == about[r]
        v == call[th].verdict
    IN
    /\ At(th, "sync_idea")
    /\ idea' = IF Exists(i)
               THEN [idea EXCEPT ![i].status = StatusAfter(v), ![i].verdict = v,
                                 ![i].required = FALSE]
               ELSE idea
    /\ disturbed' = disturbed \cup ({idea[i].request} \ {r, NoRequest})
    /\ Goto(th, "idle")
    /\ UNCHANGED <<gate, about, ticket, missed, crashes, faults>>

\* Mutant: a route whose review is no longer the gate's leaves the idea alone.
SyncIdeaIfCurrent(th) ==
    LET r == call[th].req
        i == about[r]
        v == call[th].verdict
    IN
    /\ At(th, "sync_idea")
    /\ idea' = IF Exists(i) /\ gate[r] = v
               THEN [idea EXCEPT ![i].status = StatusAfter(v), ![i].verdict = v,
                                 ![i].required = (v = "needs_info")]
               ELSE idea
    /\ disturbed' = disturbed \cup ({idea[i].request} \ {r, NoRequest})
    /\ Goto(th, "idle")
    /\ UNCHANGED <<gate, about, ticket, missed, crashes, faults>>

\* record_human_gate_decision: it does not ask whether the idea is waiting for
\* this request.
SyncIdea(th) ==
    LET r == call[th].req
        i == about[r]
        v == call[th].verdict
    IN
    /\ At(th, "sync_idea")
    /\ idea' = IF Exists(i)
               THEN [idea EXCEPT ![i].status = StatusAfter(v), ![i].verdict = v,
                                 ![i].required = (v = "needs_info")]
               ELSE idea
    /\ disturbed' = disturbed \cup ({idea[i].request} \ {r, NoRequest})
    /\ Goto(th, "idle")
    /\ UNCHANGED <<gate, about, ticket, missed, crashes, faults>>

-----------------------------------------------------------------------------
(* POST /governance/tickets/{id}/resolve.  What it syncs afterwards is     *)
(* decided by ticket_before, read first: when that read came before the    *)
(* mirror's submit, the resolve is blind and syncs nothing.                *)

ReadTicketBefore(th, r, decision) ==
    /\ gate[r] # "absent"
    /\ Enter(th, r, IF ticket[r] = "absent" THEN "blind_resolve" ELSE "resolve", decision)
    /\ disturbed' = disturbed \cup Overlap(r)
    /\ missed' = missed \cup TooEarly(r)
    /\ UNCHANGED <<gate, about, ticket, idea, crashes, faults>>

\* A False answer is the 409; an expiry is synced nowhere.
ResolveTicket(th) ==
    LET r == call[th].req
        d == call[th].verdict
    IN
    /\ At(th, "resolve") \/ At(th, "blind_resolve")
    /\ ticket' = ResolvedTo(r, d)
    /\ Goto(th, IF At(th, "resolve") /\ ticket[r] \in Open /\ d # "expired"
                THEN "sync_gate" ELSE "idle")
    /\ UNCHANGED <<gate, about, idea, disturbed, missed, crashes, faults>>

\* Mutant: a ticket's decision reaches the gate and goes no further.
SyncGateOnly(th) ==
    LET r == call[th].req IN
    /\ At(th, "sync_gate")
    /\ gate' = [gate EXCEPT ![r] = call[th].verdict]
    /\ Goto(th, "idle")
    /\ UNCHANGED <<about, ticket, idea, disturbed, missed, crashes, faults>>

\* submit_review on the gate; its own mirror finds the ticket final already.
SyncGate(th) ==
    LET r == call[th].req IN
    /\ At(th, "sync_gate")
    /\ gate' = [gate EXCEPT ![r] = call[th].verdict]
    /\ Goto(th, "sync_idea")
    /\ UNCHANGED <<about, ticket, idea, disturbed, missed, crashes, faults>>

\* POST /governance/tickets/{id}/withdraw: synced nowhere.
WithdrawTicket(r) ==
    /\ ThreadFree
    /\ ticket[r] = "pending"
    /\ ticket' = [ticket EXCEPT ![r] = "withdrawn"]
    /\ disturbed' = disturbed \cup (Busy \cap {r})
    /\ UNCHANGED <<gate, about, idea, call, missed, crashes, faults>>

-----------------------------------------------------------------------------
(* POST /gates/human/requests/{id}/escalate.                               *)

EscalateRequest(th, r) ==
    /\ gate[r] # "absent"
    /\ Enter(th, r, "mirror_escalate", "none")
    /\ gate' = [gate EXCEPT ![r] = "escalated"]
    /\ disturbed' = disturbed \cup Overlap(r)
                      \cup (IF ticket[r] \in Lifecycle!Final THEN {r} ELSE {})
    /\ UNCHANGED <<about, ticket, idea, missed, crashes, faults>>

MirrorEscalate(th) ==
    LET r == call[th].req IN
    /\ At(th, "mirror_escalate")
    /\ ticket' = ResolvedTo(r, "escalated")
    /\ Goto(th, "idle")
    /\ UNCHANGED <<gate, about, idea, disturbed, missed, crashes, faults>>

-----------------------------------------------------------------------------
(* The other writers of an idea: PUT /ideas/{id}, the promotion to a       *)
(* project (mark_implemented), the council, DELETE.                        *)

GatePending(i) == idea[i].required /\ idea[i].verdict # "approved"

\* Mutant: PUT accepts an idea whatever its gate says.
SetStatusUnchecked(i, status) ==
    /\ ThreadFree /\ Exists(i)
    /\ idea' = [idea EXCEPT ![i].status = status]
    /\ UNCHANGED <<gate, about, ticket, call, disturbed, missed, crashes, faults>>

SetStatus(i, status) ==
    /\ ThreadFree /\ Exists(i)
    /\ status \in Protected => ~GatePending(i)
    /\ idea' = [idea EXCEPT ![i].status = status]
    /\ UNCHANGED <<gate, about, ticket, call, disturbed, missed, crashes, faults>>

DeleteIdea(i) ==
    /\ ThreadFree /\ Exists(i)
    /\ idea' = [idea EXCEPT ![i].status = "deleted"]
    /\ UNCHANGED <<gate, about, ticket, call, disturbed, missed, crashes, faults>>

-----------------------------------------------------------------------------
(* A call on the way to another store fails: inside a try that only logs   *)
(* it, or with an error answer that undoes nothing.  A resolve lost in     *)
(* submit_review is repeated by the route's own sync.                      *)
MirrorFails(th) ==
    LET r == call[th].req IN
    /\ faults < MaxFaults /\ faults' = faults + 1
    /\ \/ At(th, "mirror_create") /\ Goto(th, "touch")
       \/ At(th, "mirror_resolve") /\ Goto(th, "sync_ticket")
       \/ At(th, "sync_ticket") /\ Goto(th, "sync_idea")
       \/ At(th, "sync_gate") /\ Goto(th, "sync_idea")
       \/ call[th].step \in {"touch", "mirror_escalate", "sync_idea"}
            /\ Goto(th, "idle")
    /\ disturbed' =
         IF \/ At(th, "mirror_resolve")
            \/ At(th, "sync_ticket") /\ ticket[r] \in Lifecycle!Final
         THEN disturbed ELSE disturbed \cup {r}
    /\ missed' = IF At(th, "sync_idea") THEN missed \cup {r} ELSE missed
    /\ UNCHANGED <<gate, about, ticket, idea, crashes>>

\* The process restarts: every route in flight is gone, every store is on disk.
Crash ==
    /\ crashes < MaxCrashes /\ crashes' = crashes + 1
    /\ disturbed' = disturbed \cup Busy /\ missed' = missed \cup Busy
    /\ call' = [th \in Threads |-> Idle]
    /\ UNCHANGED <<gate, about, ticket, idea, faults>>

Continue(th) ==
    \/ MirrorCreate(th) \/ TouchAwaiting(th)
    \/ MirrorResolve(th) \/ SyncTicket(th) \/ SyncIdea(th)
    \/ ResolveTicket(th) \/ SyncGate(th)
    \/ MirrorEscalate(th)

Begin(th, r) ==
    \/ RequestApproval(th, r)
    \/ EscalateRequest(th, r)
    \/ \E v \in Verdicts : SubmitReview(th, r, v)
    \/ \E d \in {"approved", "rejected", "expired"} : ReadTicketBefore(th, r, d)

Next ==
    \/ \E th \in Threads : Continue(th) \/ MirrorFails(th)
    \/ \E th \in Threads, r \in Requests : Begin(th, r)
    \/ \E r \in Requests : WithdrawTicket(r)
    \/ \E i \in Ideas : RequestLost(i) \/ DeleteIdea(i) \/ \E s \in PutStatuses : SetStatus(i, s)
    \/ Crash

Spec == Init /\ [][Next]_vars

\* A thread that entered a route finishes it; operators are free to do nothing.
FairSpec == Spec /\ \A th \in Threads : WF_vars(Continue(th))
-----------------------------------------------------------------------------
DecidedAs(r, v) == gate[r] = v \/ ticket[r] = v

Settled(r) == r \notin Busy /\ gate[r] # "absent"

(* The ticket side of the plane is a TicketLifecycle: no interleaving of   *)
(* the mirrors moves a ticket off its lifecycle or changes a decision.     *)
TicketsFollowLifecycle == Lifecycle!Spec

(* No route accepts or implements an idea whose gate still needs a         *)
(* decision, whatever the order of reviews, edits and promotions.          *)
NoBypass ==
    \A i \in Ideas : idea[i].status \in Protected => ~GatePending(i)

(* Handled one decision at a time, a request ends up the same in all       *)
(* three places: gate and ticket agree, and the idea that waits for it     *)
(* carries the same verdict and waits no more once it is decided.  A lost  *)
(* mirror call that the route repeats does not break it.                   *)
Agreement ==
    \A r \in Requests :
        Settled(r) /\ r \notin disturbed /\ ticket[r] \notin {"expired", "withdrawn"} =>
            /\ gate[r] \in {"approved", "rejected"} \/ ticket[r] \in {"approved", "rejected"}
                   => ticket[r] = gate[r]
            /\ gate[r] \in Open => ticket[r] = gate[r]
            /\ gate[r] = "needs_info" => ticket[r] \in Open
            /\ LET i == about[r] IN
               Exists(i) /\ idea[i].request = r =>
                   /\ gate[r] \in Verdicts => idea[i].verdict = gate[r]
                   /\ gate[r] = "pending" => idea[i].verdict = "none"
                   /\ gate[r] \in {"approved", "rejected"} =>
                        idea[i].status # "awaiting_approval"

(* A verdict is never stranded: of a request handled one decision at a     *)
(* time, the idea that waits for it has the verdict, or the one route that *)
(* carries it there is on its way.                                         *)
VerdictCarried ==
    \A r \in Requests :
        LET i == about[r] IN
        /\ gate[r] \in {"approved", "rejected"} /\ r \notin disturbed
        /\ Exists(i) /\ idea[i].request = r
        => \/ idea[i].verdict = gate[r]
           \/ \E th \in Threads :
                /\ call[th].req = r /\ call[th].verdict = gate[r]
                /\ call[th].step \in {"mirror_resolve", "sync_ticket", "sync_idea"}

(* An idea keeps its lock after a request for more information: until an   *)
(* approval or a rejection of some request of it, required stays set.      *)
LockHeld ==
    [][\A i \in Ideas :
         idea[i].required /\ ~idea'[i].required =>
             \E th \in Threads : /\ At(th, "sync_idea") /\ about[call[th].req] = i
                                 /\ call[th].verdict \in {"approved", "rejected"}]_vars

(* Whatever routes overlap on it, a decided request whose idea waits for   *)
(* it has brought a verdict there, or some route is still bringing one.    *)
(* Two ways out are the code's: a decision that begins while the request   *)
(* is being created (its verdict is erased by _touch), and a route cut off *)
(* before the idea, by a restart or by the failure of its last call.       *)
NoVerdictStranded ==
    \A r \in Requests :
        LET i == about[r] IN
        /\ DecidedAs(r, "approved") \/ DecidedAs(r, "rejected")
        /\ Exists(i) /\ idea[i].request = r /\ r \notin missed
        => \/ idea[i].verdict # "none"
           \/ \E th \in Threads :
                /\ call[th].req = r
                /\ call[th].step \in {"mirror_resolve", "sync_ticket", "sync_gate", "sync_idea"}

(* A verdict given on the request an idea waits for reaches the idea: that *)
(* very verdict when the request is handled one decision at a time, and    *)
(* one of its verdicts however else the routes on it interleave.  The ways *)
(* out are those of NoVerdictStranded.                                     *)
VerdictArrives ==
    \A r \in Requests : \A v \in {"approved", "rejected"} :
        LET i == about[r] IN
        (DecidedAs(r, v) /\ idea[i].request = r) ~>
            \/ idea[i].verdict = v
            \/ r \in disturbed /\ idea[i].verdict # "none"
            \/ r \in missed \/ idea[i].request # r \/ ~Exists(i)

(* An idea is not accepted or implemented over an open request it waits    *)
(* for, except by the verdict of an older request or out of turn           *)
(* (idea_vault.py, _has_pending_human_gate: "would bypass an open gate").  *)
NoOpenGateBypassed ==
    [][\A i \in Ideas :
         /\ idea[i].status \notin Protected /\ idea'[i].status \in Protected
         /\ idea[i].request \in Requests
         => gate[idea[i].request] \notin Open \/ idea[i].request \in disturbed']_vars

(* human_gate.py: escalate_request answers None for a request "not in a    *)
(* reviewable state", so a decided request is never escalated.  The code   *)
(* looks at no status.                                                     *)
OnlyReviewableEscalates ==
    [][\A r \in Requests : gate'[r] = "escalated" =>
         gate[r] \notin {"approved", "rejected"}]_vars
=============================================================================
