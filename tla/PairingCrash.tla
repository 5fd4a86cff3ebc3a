---------------------------- MODULE PairingCrash ----------------------------
(***************************************************************************)
(* The handlers of Pairing statement by statement, and a server that may   *)
(* stop between any two of them.  Connections are in autocommit mode       *)
(* (isolation_level=None), so transaction() groups nothing and its         *)
(* rollback undoes nothing: every statement commits by itself.  The last   *)
(* step of a handler is its reply; a crash before it loses the reply.      *)
(*                                                                         *)
(* The statements on the tables secrets and audit_events are left out, and *)
(* so are reads: nothing runs beside a handler.  The clock stands still    *)
(* inside one.                                                             *)
(***************************************************************************)
EXTENDS Pairing

CONSTANT MaxCrashes      \* bound on the crashes

ASSUME CrashesAssumption == MaxCrashes \in Nat

VARIABLES
    op,       \* the handler under way: its next step, agent and session
    crashes,  \* crashes so far
    shown,    \* the sessions whose code has been returned to the agent
    damaged,  \* history: agents with a crash since their last completed pairing
    atRest    \* history: the variables of Pairing between handlers

rows == <<agents, sessions, creds, now, minted, tokens, given, toAgent>>
allVars == <<rows, op, crashes, shown, damaged, atRest>>

Steps ==
    {"idle", "start expire", "start insert", "start reply", "expire agent",
     "lock session", "lock agent", "pair agent", "pair session", "pair reply",
     "poll token", "activate agent", "activate session", "activate reply",
     "revoke agent", "register reply"}

IdleOp == [step |-> "idle", agent |-> NoAgent, session |-> NoAgent]

Snapshot ==
    [agents |-> agents, sessions |-> sessions, creds |-> creds, now |-> now,
     minted |-> minted, tokens |-> tokens, given |-> given, toAgent |-> toAgent]

CrashInit ==
    /\ Init
    /\ op = IdleOp
    /\ crashes = 0
    /\ shown = {}
    /\ damaged = {}
    /\ atRest = Snapshot

Idle == op.step = "idle"

(* A handler starts, goes on, or ends; only its end is a state at rest. *)
Enter(step, a, s) ==
    /\ Idle
    /\ op' = [step |-> step, agent |-> a, session |-> s]
    /\ UNCHANGED <<crashes, shown, damaged, atRest>>

Step(from, to) ==
    /\ op.step = from
    /\ op' = [op EXCEPT !.step = to]
    /\ UNCHANGED <<crashes, shown, damaged, atRest>>

Leave ==
    /\ op' = IdleOp
    /\ atRest' = Snapshot'
    /\ UNCHANGED crashes

Return == Leave /\ UNCHANGED <<shown, damaged>>
Whole == Idle /\ Return

-----------------------------------------------------------------------------
(* create_or_refresh_pairing_session *)

StartAgent(a, s) ==
    /\ sessions[s].status = "FREE"
    /\ SameSecond \/ \A t \in Of(a) : sessions[t].created < now
    /\ Enter("start expire", a, s)
    /\ agents' = [agents EXCEPT ![a] = RowAtStart(a)]
    /\ UNCHANGED <<sessions, creds, now, minted, tokens, given, toAgent>>

ExpireNone(a) == sessions
ExpireOpen(a) ==
    [t \in Sessions |->
        IF t \in Superseded(a)
        THEN [sessions[t] EXCEPT !.status = "EXPIRED", !.expires = now]
        ELSE sessions[t]]

StartExpire ==
    /\ Step("start expire", "start insert")
    /\ sessions' = ExpireOpen(op.agent)
    /\ UNCHANGED <<agents, creds, now, minted, tokens, given, toAgent>>

StartInsert ==
    /\ Step("start insert", "start reply")
    /\ sessions' = [sessions EXCEPT ![op.session] =
          [BlankRow EXCEPT !.agent = op.agent, !.status = "AWAITING_PAIR",
                           !.created = now, !.expires = now + PairingTTL]]
    /\ UNCHANGED <<agents, creds, now, minted, tokens, given, toAgent>>

StartReply ==
    /\ op.step = "start reply"
    /\ shown' = shown \cup {op.session}
    /\ UNCHANGED <<rows, damaged>>
    /\ Leave

-----------------------------------------------------------------------------
(* complete_pairing *)

ExpireSession(s) ==
    /\ IsOpen(s) /\ s \in shown
    /\ sessions[s].expires <= now
    /\ Enter("expire agent", sessions[s].agent, s)
    /\ sessions' = [sessions EXCEPT ![s].status = "EXPIRED", ![s].attempts = @ + 1]
    /\ UNCHANGED <<agents, creds, now, minted, tokens, given, toAgent>>

AgentExpired ==
    /\ op.step \in {"expire agent", "lock agent"}
    /\ agents' = [agents EXCEPT ![op.agent].status = "EXPIRED"]
    /\ UNCHANGED <<sessions, creds, now, minted, tokens, given, toAgent>>
    /\ Return

(* attempt_count as it is read back after the increment. *)
TriedOutExactly(s) == sessions'[s].attempts = MaxAttempts
TriedOut(s) == sessions'[s].attempts >= MaxAttempts

WrongPin(s) ==
    /\ IsOpen(s) /\ s \in shown
    /\ now < sessions[s].expires
    /\ sessions' = [sessions EXCEPT ![s].attempts = @ + 1]
    /\ UNCHANGED <<agents, creds, now, minted, tokens, given, toAgent>>
    /\ IF TriedOut(s) THEN Enter("lock session", sessions[s].agent, s) ELSE Whole

LockSession ==
    /\ Step("lock session", "lock agent")
    /\ sessions' = [sessions EXCEPT ![op.session].status = "EXPIRED"]
    /\ UNCHANGED <<agents, creds, now, minted, tokens, given, toAgent>>

PairSession(s) ==
    /\ IsOpen(s) /\ s \in shown
    /\ now < sessions[s].expires
    /\ Enter("pair agent", sessions[s].agent, s)
    /\ sessions' = [sessions EXCEPT ![s].status = "PAIRED"]
    /\ UNCHANGED <<agents, creds, now, minted, tokens, given, toAgent>>

(* The agent's row after the UPDATE that pairs it. *)
RowCoalesced(a) ==
    [status |-> "PAIRED",
     secret |-> IF agents[a].secret = Null THEN minted + 1 ELSE agents[a].secret]
RowPaired(a) == [status |-> "PAIRED", secret |-> minted + 1]

PairAgent ==
    /\ Step("pair agent", "pair session")
    /\ minted' = minted + 1
    /\ agents' = [agents EXCEPT ![op.agent] = RowPaired(op.agent)]
    /\ UNCHANGED <<sessions, creds, now, tokens, given, toAgent>>

StoreSecret ==
    /\ Step("pair session", "pair reply")
    /\ sessions' = [sessions EXCEPT ![op.session].secret = minted]
    /\ UNCHANGED <<agents, creds, now, minted, tokens, given, toAgent>>

PairReply ==
    /\ op.step = "pair reply"
    /\ given' = [given EXCEPT ![op.session].client = @ + 1]
    /\ damaged' = damaged \ {op.agent}
    /\ UNCHANGED <<agents, sessions, creds, now, minted, tokens, toAgent, shown>>
    /\ Leave

-----------------------------------------------------------------------------
(* get_registration_status *)

PollExpire(a) ==
    /\ Exists(a)
    /\ sessions' = MarkExpired(a)
    /\ UNCHANGED <<agents, creds, now, minted, tokens, given, toAgent>>
    /\ IF agents[a].status # "PAIRED" THEN Whole
       ELSE \E s \in Newest(Of(a)) :
              IF sessions[s].token # Null /\ now < sessions[s].tokenExpires
              THEN Whole
              ELSE Enter("poll token", a, s)

PollToken ==
    /\ op.step = "poll token"
    /\ tokens' = tokens + 1
    /\ sessions' = [sessions EXCEPT ![op.session].token = tokens',
                                    ![op.session].tokenExpires = now + ActivationTTL]
    /\ UNCHANGED <<agents, creds, now, minted, given, toAgent>>
    /\ Return

-----------------------------------------------------------------------------
(* activate_agent *)

ActivateCredential(a, t) ==
    /\ \E s \in Newest(PairedOf(a)) :
          Activatable(s, t) /\ Enter("activate agent", a, s)
    /\ creds' = [creds EXCEPT ![a] = @ + 1]
    /\ UNCHANGED <<agents, sessions, now, minted, tokens, given, toAgent>>

StatusIfPaired(a) == IF agents[a].status = "PAIRED" THEN "ACTIVE" ELSE agents[a].status
StatusActivated(a) == "ACTIVE"

ActivateAgent ==
    /\ Step("activate agent", "activate session")
    /\ agents' = [agents EXCEPT ![op.agent].status = StatusActivated(op.agent)]
    /\ UNCHANGED <<sessions, creds, now, minted, tokens, given, toAgent>>

KeepToken(row) == row
Spend(row) == Spent(row)

ActivateSession ==
    /\ Step("activate session", "activate reply")
    /\ sessions' = [sessions EXCEPT ![op.session] = Spend(@)]
    /\ UNCHANGED <<agents, creds, now, minted, tokens, given, toAgent>>

ActivateReply ==
    /\ op.step = "activate reply"
    /\ given' = [given EXCEPT ![op.session].agent = @ + 1]
    /\ toAgent' = [toAgent EXCEPT ![op.agent] = sessions[op.session].secret]
    /\ UNCHANGED <<agents, sessions, creds, now, minted, tokens>>
    /\ Return

-----------------------------------------------------------------------------
(* revoke_agent_credentials *)

RevokeCredentials(a) ==
    /\ Exists(a)
    /\ Enter("revoke agent", a, NoAgent)
    /\ creds' = [creds EXCEPT ![a] = 0]
    /\ UNCHANGED <<agents, sessions, now, minted, tokens, given, toAgent>>

RevokeAgent ==
    /\ op.step = "revoke agent"
    /\ agents' = [agents EXCEPT ![op.agent].status = "REVOKED"]
    /\ UNCHANGED <<sessions, creds, now, minted, tokens, given, toAgent>>
    /\ Return

(* The legacy registration: one row, and the reply with its secret. *)
RegisterAgent(a) ==
    /\ LegacyEnabled /\ ~Exists(a)
    /\ Enter("register reply", a, NoAgent)
    /\ minted' = minted + 1
    /\ agents' = [agents EXCEPT ![a] = [status |-> "ACTIVE", secret |-> minted']]
    /\ UNCHANGED <<sessions, creds, now, tokens, given, toAgent>>

RegisterReply ==
    /\ op.step = "register reply"
    /\ toAgent' = [toAgent EXCEPT ![op.agent] = agents[op.agent].secret]
    /\ UNCHANGED <<agents, sessions, creds, now, minted, tokens, given>>
    /\ Return

-----------------------------------------------------------------------------
ClockTick == Tick /\ Whole

(* The process stops inside a handler; what is committed stays. *)
Crash ==
    /\ ~Idle /\ crashes < MaxCrashes
    /\ crashes' = crashes + 1
    /\ op' = IdleOp
    /\ damaged' = damaged \cup {op.agent}
    /\ atRest' = Snapshot
    /\ UNCHANGED <<rows, shown>>

CrashNext ==
    \/ \E a \in Agents, s \in Sessions : StartAgent(a, s)
    \/ StartExpire \/ StartInsert \/ StartReply
    \/ \E s \in Sessions : ExpireSession(s) \/ WrongPin(s) \/ PairSession(s)
    \/ AgentExpired \/ LockSession
    \/ PairAgent \/ StoreSecret \/ PairReply
    \/ \E a \in Agents : PollExpire(a) \/ RevokeCredentials(a) \/ RegisterAgent(a)
    \/ PollToken
    \/ \E a \in Agents, t \in 1 .. tokens : ActivateCredential(a, t)
    \/ ActivateAgent \/ ActivateSession \/ ActivateReply
    \/ RevokeAgent \/ RegisterReply
    \/ ClockTick \/ Crash

CrashSpec == CrashInit /\ [][CrashNext]_allVars

-----------------------------------------------------------------------------
(* Without a crash the statements of a handler add up to its one step in    *)
(* Pairing: what is proved there of handlers holds of the statements.       *)
Atomic == INSTANCE Pairing WITH
    agents <- atRest.agents, sessions <- atRest.sessions, creds <- atRest.creds,
    now <- atRest.now, minted <- atRest.minted, tokens <- atRest.tokens,
    given <- atRest.given, toAgent <- atRest.toAgent

StatementsMakeHandlers == [][crashes' = 0 => Atomic!Next]_atRest

(* The wrong PINs a session is charged with exceed MaxAttempts by at most   *)
(* one for each crash (between the count and the lock), and the next one    *)
(* locks it.                                                                *)
AttemptsWithCrashes ==
    \A s \in Sessions :
        /\ sessions[s].attempts <= MaxAttempts + crashes
        /\ Idle /\ IsOpen(s) => sessions[s].attempts < MaxAttempts + crashes

(* Whatever a crash left behind, one pairing carried to its reply repairs   *)
(* the agent: the phone has the secret requests are checked with, the agent *)
(* can fetch it, and once ACTIVE has it.                                    *)
CrashesHeal ==
    Idle => \A a \in Agents \ damaged :
        /\ agents[a].status = "ACTIVE" => toAgent[a] = agents[a].secret
        /\ agents[a].status = "PAIRED" =>
              \A s \in Newest(Of(a)) :
                 /\ sessions[s].status = "PAIRED" /\ given[s].client = 1
                 /\ sessions[s].secret = agents[a].secret
                 /\ ~sessions[s].delivered
=============================================================================
