-------------------------- MODULE TicketLifecycle --------------------------
(***************************************************************************)
(* What the governance ticket store promises its readers: one state per    *)
(* ticket, moving only along the lifecycle of governance/ticket.py, and    *)
(* never again once a decision is final.  TicketStore implements it with   *)
(* several writes, two database connections, failures and restarts.        *)
(***************************************************************************)
CONSTANT Tickets          \* ticket_id values

VARIABLE state            \* state[t]: the state any reader is told

\* decisions TicketStore.resolve accepts
Decisions == {"approved", "rejected", "expired"}

Final == Decisions \cup {"withdrawn"}

\* TicketState, and "absent" for a ticket that was never submitted
States == {"absent", "pending", "escalated"} \cup Final

\* The states one operation can take a ticket to.
Later(s) ==
    CASE s = "absent"    -> {"pending"}
      [] s = "pending"   -> {"escalated"} \cup Final
      [] s = "escalated" -> {"escalated"} \cup Decisions
      [] OTHER           -> {}

Init == state = [t \in Tickets |-> "absent"]

Next ==
    /\ state' \in [Tickets -> States]
    /\ \A t \in Tickets : state'[t] = state[t] \/ state'[t] \in Later(state[t])

Spec == Init /\ [][Next]_state

-----------------------------------------------------------------------------
(* A decision that was made is never changed or taken back: the promise    *)
(* behind resolve() answering False for a ticket that is already final.    *)
FinalForever ==
    [][\A t \in Tickets : state[t] \in Final => state'[t] = state[t]]_state
=============================================================================
