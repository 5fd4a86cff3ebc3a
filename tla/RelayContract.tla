--------------------------- MODULE RelayContract ---------------------------
(***************************************************************************)
(* What the relay promises the caller of /relay/{agent_id}/..., with no    *)
(* mention of sockets, locks or reconnections.  A request is accepted once *)
(* and gets one outcome.  "ok" means that the agent answered this very     *)
(* request, "unavailable" (503 with Retry-After) that the agent never saw  *)
(* it, so that the advice to retry cannot make it run twice.  Tunnel is    *)
(* shown to implement this.                                                *)
(***************************************************************************)
CONSTANT Requests

VARIABLES
    phase,      \* phase[r] \in {"idle", "accepted", "done"}
    outcome,    \* outcome[r], "none" until done
    delivered,  \* the requests the agent has been sent
    answered    \* the requests the agent has sent an answer to

vars == <<phase, outcome, delivered, answered>>

Outcomes == {"ok", "unavailable", "lost", "timeout", "failed", "invalid"}

Init ==
    /\ phase = [r \in Requests |-> "idle"]
    /\ outcome = [r \in Requests |-> "none"]
    /\ delivered = {}
    /\ answered = {}

(* A request is accepted; it may be sent to the agent at once. *)
Accept(r) ==
    /\ phase[r] = "idle"
    /\ phase' = [phase EXCEPT ![r] = "accepted"]
    /\ delivered' = delivered \/ delivered' = delivered \cup {r}
    /\ UNCHANGED <<outcome, answered>>

Deliver(r) ==
    /\ phase[r] = "accepted"
    /\ delivered' = delivered \cup {r}
    /\ UNCHANGED <<phase, outcome, answered>>

Answer(r) ==
    /\ r \in delivered
    /\ answered' = answered \cup {r}
    /\ UNCHANGED <<phase, outcome, delivered>>

Finish(r, o) ==
    /\ phase[r] # "done"
    /\ o \in {"ok", "invalid"} => r \in answered
    /\ o = "unavailable" => r \notin delivered
    /\ phase[r] = "idle" => o = "unavailable"
    /\ phase' = [phase EXCEPT ![r] = "done"]
    /\ outcome' = [outcome EXCEPT ![r] = o]
    /\ UNCHANGED <<delivered, answered>>

Next ==
    \E r \in Requests :
        \/ Accept(r)
        \/ Deliver(r)
        \/ Answer(r)
        \/ \E o \in Outcomes : Finish(r, o)

(* An accepted request is finished, whatever the agent does. *)
Spec ==
    /\ Init
    /\ [][Next]_vars
    /\ \A r \in Requests :
         WF_vars(phase[r] = "accepted" /\ \E o \in Outcomes : Finish(r, o))

=============================================================================
