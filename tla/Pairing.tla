------------------------------ MODULE Pairing ------------------------------
(***************************************************************************)
(* The pairing life cycle of an agent: the rows of the tables agents,      *)
(* agent_pairing_sessions and agent_credentials, and the HTTP handlers     *)
(* that change them (register/start, pair/complete, register/status,       *)
(* register/activate, revoke and the legacy register).                     *)
(*                                                                         *)
(* None of these handlers awaits between its first and its last database   *)
(* statement, and sqlite is called synchronously from the only event loop, *)
(* so one handler is one step.  A handler that rejects its input before    *)
(* any statement changes a row is a stuttering step and has no action.     *)
(*                                                                         *)
(* `now` counts seconds: created_at has that resolution, so two sessions   *)
(* of one agent may carry the same created_at.  A session id stands for    *)
(* the random pairing code (and PIN) minted with it; relay secrets and     *)
(* activation tokens are numbered in the order they are minted.            *)
(***************************************************************************)
EXTENDS Naturals, FiniteSets

CONSTANTS
    Agents,          \* agent ids
    Sessions,        \* ids of pairing sessions: as many as may be started
    NoAgent,         \* the agent of a session id not in use yet
    PairingTTL,      \* vps.pairing_code_ttl_seconds
    ActivationTTL,   \* vps.activation_token_ttl_seconds
    MaxAttempts,     \* the wrong PINs that lock a session (5 in the code)
    DayLength,       \* seconds in a calendar day
    LegacyEnabled,   \* vps.legacy_registration_enabled
    SameSecond,      \* may one agent start two sessions within a second?
    MaxTime          \* bound on the clock

ASSUME TimesAssumption ==
    /\ PairingTTL \in Nat \ {0}
    /\ ActivationTTL \in Nat \ {0}
    /\ DayLength \in Nat \ {0}
    /\ MaxTime \in Nat
ASSUME NoAgentAssumption == NoAgent \notin Agents
ASSUME AttemptsAssumption == MaxAttempts \in Nat \ {0}
ASSUME SwitchesAssumption == LegacyEnabled \in BOOLEAN /\ SameSecond \in BOOLEAN

VARIABLES
    agents,     \* agents[a]: status and secret of a's row
    sessions,   \* sessions[s]: the row of agent_pairing_sessions
    creds,      \* creds[a]: a's rows of agent_credentials not revoked
    now,        \* the wall clock, in seconds
    minted,     \* relay secrets minted so far
    tokens,     \* activation tokens minted so far
    given,      \* history: how often s's secret was returned, and to whom
    toAgent     \* history: the last relay secret returned to agent a

vars == <<agents, sessions, creds, now, minted, tokens, given, toAgent>>

Null == 0        \* an empty column; in agents.secret, 'pending:<agent_id>'

AgentStatus == {"NONE", "AWAITING_PAIR", "PAIRED", "ACTIVE", "EXPIRED", "REVOKED"}
SessionStatus == {"FREE", "AWAITING_PAIR", "PAIRED", "EXPIRED"}

AgentRow == [status : AgentStatus, secret : Nat]
SessionRow ==
    [agent : Agents \cup {NoAgent}, status : SessionStatus, created : Nat, expires : Nat,
     attempts : Nat, token : Nat, tokenExpires : Nat, secret : Nat,
     delivered : BOOLEAN]

BlankRow ==
    [agent |-> NoAgent, status |-> "FREE", created |-> 0, expires |-> 0,
     attempts |-> 0, token |-> Null, tokenExpires |-> 0, secret |-> Null,
     delivered |-> FALSE]

TypeOK ==
    /\ agents \in [Agents -> AgentRow]
    /\ sessions \in [Sessions -> SessionRow]
    /\ creds \in [Agents -> Nat]
    /\ now \in Nat
    /\ minted \in Nat
    /\ tokens \in Nat
    /\ given \in [Sessions -> [client : Nat, agent : Nat]]
    /\ toAgent \in [Agents -> Nat]

-----------------------------------------------------------------------------
(* Queries *)

Exists(a) == agents[a].status # "NONE"

Of(a) == {s \in Sessions : sessions[s].agent = a}

IsOpen(s) == sessions[s].status = "AWAITING_PAIR"

PairedOf(a) == {s \in Of(a) : sessions[s].status = "PAIRED"}

(* ORDER BY created_at DESC LIMIT 1: among rows of the same second SQL      *)
(* promises no order, so the query may return any element of this set.      *)
OldestFirst(S) == {s \in S : \A t \in S : sessions[s].created <= sessions[t].created}
Newest(S) == {s \in S : \A t \in S : sessions[t].created <= sessions[s].created}

Day(t) == t \div DayLength

(* expires_at is stored by isoformat() ("<date>T<time>+00:00") and compared *)
(* as text with CURRENT_TIMESTAMP ("<date> <time>").  'T' sorts after ' ',  *)
(* so the comparison succeeds only once the date itself has passed.         *)
TextExpired(s) == Day(sessions[s].expires) < Day(now)

(* _mark_expired_sessions: the rows of the sessions after it. *)
MarkExpired(a) ==
    [s \in Sessions |->
        IF s \in Of(a) /\ IsOpen(s) /\ TextExpired(s)
        THEN [sessions[s] EXCEPT !.status = "EXPIRED"]
        ELSE sessions[s]]

-----------------------------------------------------------------------------
Init ==
    /\ agents = [a \in Agents |-> [status |-> "NONE", secret |-> Null]]
    /\ sessions = [s \in Sessions |-> BlankRow]
    /\ creds = [a \in Agents |-> 0]
    /\ now = 0
    /\ minted = 0
    /\ tokens = 0
    /\ given = [s \in Sessions |-> [client |-> 0, agent |-> 0]]
    /\ toAgent = [a \in Agents |-> Null]

(* The row create_or_refresh_pairing_session writes for a: a known agent    *)
(* keeps its secret, an unknown one gets a pending secret.                  *)
RowResetByStart(a) == [status |-> "AWAITING_PAIR", secret |-> Null]
RowAtStart(a) ==
    [status |-> "AWAITING_PAIR",
     secret |-> IF Exists(a) THEN agents[a].secret ELSE Null]

(* The sessions that a new session of a closes. *)
SupersededNever(a) == {}
Superseded(a) == {t \in Of(a) : IsOpen(t)}

(* create_or_refresh_pairing_session *)
Start(a, s) ==
    /\ sessions[s].status = "FREE"
    /\ SameSecond \/ \A t \in Of(a) : sessions[t].created < now
    /\ agents' = [agents EXCEPT ![a] = RowAtStart(a)]
    /\ sessions' = [t \in Sessions |->
          IF t = s THEN [BlankRow EXCEPT !.agent = a,
                                         !.status = "AWAITING_PAIR",
                                         !.created = now,
                                         !.expires = now + PairingTTL]
          ELSE IF t \in Superseded(a)
          THEN [sessions[t] EXCEPT !.status = "EXPIRED", !.expires = now]
          ELSE sessions[t]]
    /\ UNCHANGED <<creds, now, minted, tokens, given, toAgent>>

(* complete_pairing finds the open session of a code after its time. *)
CompleteExpired(s) ==
    /\ IsOpen(s)
    /\ sessions[s].expires <= now
    /\ sessions' = [sessions EXCEPT ![s].status = "EXPIRED",
                                    ![s].attempts = @ + 1]
    /\ agents' = [agents EXCEPT ![sessions[s].agent].status = "EXPIRED"]
    /\ UNCHANGED <<creds, now, minted, tokens, given, toAgent>>

(* Does one more wrong PIN lock the session? *)
LocksLate(s) == sessions[s].attempts + 1 > MaxAttempts
Locks(s) == sessions[s].attempts + 1 >= MaxAttempts

(* complete_pairing with the code of s and a wrong PIN. *)
CompleteWrongPin(s) ==
    /\ IsOpen(s)
    /\ now < sessions[s].expires
    /\ sessions' = [sessions EXCEPT ![s].attempts = @ + 1,
                                    ![s].status = IF Locks(s) THEN "EXPIRED" ELSE @]
    /\ agents' = [agents EXCEPT
          ![sessions[s].agent].status = IF Locks(s) THEN "EXPIRED" ELSE @]
    /\ UNCHANGED <<creds, now, minted, tokens, given, toAgent>>

(* complete_pairing with the code and PIN of s: a fresh relay secret goes   *)
(* into the agent's row, into the session's, and back to the caller.        *)
Complete(s) ==
    /\ IsOpen(s)
    /\ now < sessions[s].expires
    /\ minted' = minted + 1
    /\ agents' = [agents EXCEPT
          ![sessions[s].agent] = [status |-> "PAIRED", secret |-> minted']]
    /\ sessions' = [sessions EXCEPT ![s].status = "PAIRED",
                                    ![s].secret = minted']
    /\ given' = [given EXCEPT ![s].client = @ + 1]
    /\ UNCHANGED <<creds, now, tokens, toAgent>>

(* get_registration_status of an agent that is not PAIRED. *)
PollUnpaired(a) ==
    /\ Exists(a)
    /\ agents[a].status # "PAIRED"
    /\ sessions' = MarkExpired(a)
    /\ UNCHANGED <<agents, creds, now, minted, tokens, given, toAgent>>

(* get_registration_status of a PAIRED agent: the token stored on the       *)
(* newest session is returned, or replaced once it has expired.             *)
PollPaired(a) ==
    /\ agents[a].status = "PAIRED"
    /\ \E s \in Newest(Of(a)) :
         IF sessions[s].token # Null /\ now < sessions[s].tokenExpires
         THEN sessions' = MarkExpired(a) /\ UNCHANGED tokens
         ELSE /\ tokens' = tokens + 1
              /\ sessions' = [MarkExpired(a) EXCEPT
                    ![s] = [@ EXCEPT !.token = tokens',
                                     !.tokenExpires = now + ActivationTTL]]
    /\ UNCHANGED <<agents, creds, now, minted, given, toAgent>>

(* Would activate_agent accept token t for the session s it has selected?   *)
Activatable(s, t) ==
    /\ sessions[s].token = t
    /\ now < sessions[s].tokenExpires
    /\ sessions[s].secret # Null
    /\ ~sessions[s].delivered

(* The row of a session whose relay secret has gone to the agent. *)
Unspent(row) == row
Spent(row) == [row EXCEPT !.token = Null, !.tokenExpires = 0, !.delivered = TRUE]

(* activate_agent with a token minted earlier. *)
Activate(a, t) ==
    /\ t \in 1 .. tokens
    /\ \E s \in Newest(PairedOf(a)) :
         /\ Activatable(s, t)
         /\ sessions' = [sessions EXCEPT ![s] = Spent(@)]
         /\ given' = [given EXCEPT ![s].agent = @ + 1]
         /\ toAgent' = [toAgent EXCEPT ![a] = sessions[s].secret]
    /\ creds' = [creds EXCEPT ![a] = @ + 1]
    /\ agents' = [agents EXCEPT ![a].status = "ACTIVE"]
    /\ UNCHANGED <<now, minted, tokens>>

RevokeInactive(a) ==
    /\ Exists(a)
    /\ creds' = [creds EXCEPT ![a] = 0]
    /\ agents' = [agents EXCEPT ![a].status = "inactive"]
    /\ UNCHANGED <<sessions, now, minted, tokens, given, toAgent>>

(* revoke, by a caller who presents the secret of the agent's row. *)
Revoke(a) ==
    /\ Exists(a)
    /\ creds' = [creds EXCEPT ![a] = 0]
    /\ agents' = [agents EXCEPT ![a].status = "REVOKED"]
    /\ UNCHANGED <<sessions, now, minted, tokens, given, toAgent>>

(* The legacy one-shot registration: only for an id with no row yet. *)
Register(a) ==
    /\ LegacyEnabled
    /\ ~Exists(a)
    /\ minted' = minted + 1
    /\ agents' = [agents EXCEPT ![a] = [status |-> "ACTIVE", secret |-> minted']]
    /\ toAgent' = [toAgent EXCEPT ![a] = minted']
    /\ UNCHANGED <<sessions, creds, now, tokens, given>>

Tick ==
    /\ now < MaxTime
    /\ now' = now + 1
    /\ UNCHANGED <<agents, sessions, creds, minted, tokens, given, toAgent>>

Next ==
    \/ \E a \in Agents, s \in Sessions : Start(a, s)
    \/ \E s \in Sessions : CompleteExpired(s) \/ CompleteWrongPin(s) \/ Complete(s)
    \/ \E a \in Agents : PollUnpaired(a) \/ PollPaired(a) \/ Revoke(a) \/ Register(a)
    \/ \E a \in Agents, t \in 1 .. tokens : Activate(a, t)
    \/ Tick

Spec == Init /\ [][Next]_vars

-----------------------------------------------------------------------------
(* Properties *)

(* At most one session of an agent can still be paired: starting again      *)
(* closes the code shown before (create_or_refresh_pairing_session).        *)
OneOpenSession ==
    \A a \in Agents : \A s, t \in Of(a) : IsOpen(s) /\ IsOpen(t) => s = t

(* However expiry, wrong PINs and restarts of the ceremony interleave, a    *)
(* session that can still be paired has been tried with fewer than          *)
(* MaxAttempts wrong PINs, and no session is ever charged with more         *)
(* (complete_pairing: the counter, the lock and the expiry branch).         *)
AttemptsBounded ==
    \A s \in Sessions :
        /\ sessions[s].attempts <= MaxAttempts
        /\ IsOpen(s) => sessions[s].attempts < MaxAttempts

(* A session's relay secret is returned at most once by pair/complete and   *)
(* at most once by register/activate, whatever tokens are polled, renewed,  *)
(* replayed or left over from an earlier pairing.                           *)
SecretHandedOutOnce ==
    \A s \in Sessions : given[s].client <= 1 /\ given[s].agent <= 1

(* An ACTIVE agent was last given the very secret its requests are checked  *)
(* against (agents.secret), although activate_agent takes the secret from   *)
(* the session row and re-pairing may have replaced either of them.         *)
SecretAgreement ==
    \A a \in Agents :
        agents[a].status = "ACTIVE" => toAgent[a] = agents[a].secret

(* A PAIRED agent can finish: the session on which the status poll stores   *)
(* the activation token is the one register/activate looks it up on, holds  *)
(* the current secret, and has not delivered it yet.                        *)
PairedIsActivatable ==
    \A a \in Agents : agents[a].status = "PAIRED" =>
        /\ Of(a) # {}
        /\ Newest(Of(a)) = Newest(PairedOf(a))
        /\ \A s \in Newest(Of(a)) : /\ sessions[s].secret = agents[a].secret
                                    /\ ~sessions[s].delivered

(* The secret of an existing agent changes only by a pairing of that agent, *)
(* of a session still open, in time and not locked.  In particular neither  *)
(* a new ceremony nor a failed one disturbs the phones already paired.      *)
RotationNeedsPairing ==
    [][\A a \in Agents :
          Exists(a) /\ agents'[a].secret # agents[a].secret =>
            \E s \in Of(a) : /\ IsOpen(s)
                             /\ now < sessions[s].expires
                             /\ sessions[s].attempts < MaxAttempts
                             /\ sessions'[s].status = "PAIRED"
                             /\ sessions'[s].secret = agents'[a].secret]_vars

-----------------------------------------------------------------------------
(* The inductive strengthening of the properties above. *)

(* A session id is in use exactly when it has an agent, and that agent has  *)
(* a row.                                                                   *)
Owned ==
    \A s \in Sessions :
        /\ sessions[s].status = "FREE" <=> sessions[s].agent = NoAgent
        /\ sessions[s].agent # NoAgent => Exists(sessions[s].agent)

(* The columns account for what was returned. *)
Accounting ==
    \A s \in Sessions :
        /\ given[s].client = IF sessions[s].status = "PAIRED" THEN 1 ELSE 0
        /\ given[s].agent = IF sessions[s].delivered THEN 1 ELSE 0
        /\ sessions[s].delivered => sessions[s].status = "PAIRED"

(* created_at orders the sessions of an agent, an open one last. *)
Ordered ==
    \A s, t \in Sessions :
        sessions[s].agent # NoAgent =>
            /\ sessions[s].created <= now
            /\ sessions[s].agent = sessions[t].agent /\ s # t =>
                   /\ sessions[s].created # sessions[t].created
                   /\ IsOpen(s) => sessions[t].created < sessions[s].created

(* The newest paired session of an agent holds the agent's secret. *)
CurrentSecret ==
    \A a \in Agents : \A s \in Newest(PairedOf(a)) :
        sessions[s].secret = agents[a].secret

(* The newest session of a PAIRED agent is paired and undelivered. *)
PairedIsNewest ==
    \A a \in Agents : agents[a].status = "PAIRED" =>
        \E s \in PairedOf(a) : /\ ~sessions[s].delivered
                              /\ \A t \in Of(a) : sessions[t].created <= sessions[s].created

BaseInv == TypeOK /\ Owned /\ OneOpenSession /\ AttemptsBounded /\ Accounting

OrderInv == Ordered /\ CurrentSecret /\ PairedIsNewest /\ SecretAgreement

(* What the proofs carry through every step: the second part needs an agent *)
(* never to start twice within a second.                                    *)
IInv == BaseInv /\ (~SameSecond => OrderInv)

=============================================================================
