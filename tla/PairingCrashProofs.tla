------------------------- MODULE PairingCrashProofs -------------------------
(***************************************************************************)
(* Proofs about PairingCrash, for any agents, sessions and lifetimes and   *)
(* any number of crashes: what the statements of the handlers keep true    *)
(* wherever the server stops, what one completed pairing repairs, and that *)
(* without a crash the statements add up to the handlers of Pairing.       *)
(***************************************************************************)
EXTENDS PairingCrash, PairingProofs

OpRow == [step : Steps, agent : Agents \cup {NoAgent}, session : Sessions \cup {NoAgent}]

CrashTypeOK ==
    /\ TypeOK
    /\ op \in OpRow
    /\ crashes \in Nat
    /\ shown \subseteq Sessions
    /\ damaged \subseteq Agents

(* A handler under way is about an agent that has a row, and has still to   *)
(* do what its next step is for.                                            *)
Pairing3 == {"pair agent", "pair session", "pair reply"}
Activating == {"activate agent", "activate session", "activate reply"}
OpInv ==
    /\ ~Idle => op.agent \in Agents /\ Exists(op.agent)
    /\ op.step \notin {"idle", "revoke agent", "register reply"} => op.session \in Sessions
    /\ op.step \in {"start expire", "start insert"} => sessions[op.session].status = "FREE"
    /\ op.step = "start insert" => \A t \in Of(op.agent) : ~IsOpen(t)
    /\ op.step = "lock session" => IsOpen(op.session)
    /\ op.step \in Pairing3 =>
          /\ op.session \in PairedOf(op.agent)
          /\ given[op.session].client = 0 /\ ~sessions[op.session].delivered
    /\ op.step \in Activating =>
          op.session \in PairedOf(op.agent) /\ given[op.session].agent = 0
    /\ op.step \in {"activate agent", "activate session"} => ~sessions[op.session].delivered
    /\ op.step = "activate reply" => sessions[op.session].delivered

(* A session is tried out only while the handler that counted locks it.     *)
AttemptsInv ==
    \A s \in Sessions :
        /\ sessions[s].attempts <= MaxAttempts + crashes
        /\ IsOpen(s) /\ ~(op.step = "lock session" /\ op.session = s) =>
              sessions[s].attempts < MaxAttempts + crashes

(* A secret was returned at most once, and only where the columns say so.   *)
HandedInv ==
    \A s \in Sessions :
        /\ given[s].client \in {0, 1} /\ given[s].agent \in {0, 1}
        /\ given[s].client # 0 => sessions[s].status = "PAIRED"
        /\ given[s].agent # 0 => sessions[s].delivered
        /\ sessions[s].delivered => sessions[s].status = "PAIRED"

SafeInv == CrashTypeOK /\ Owned /\ OpInv /\ OneOpenSession /\ AttemptsInv /\ HandedInv

(* Sessions of one agent start in different seconds, an open one last; the  *)
(* one being paired is the newest, the one being activated the newest that  *)
(* is paired.                                                               *)
OrderOp ==
    /\ op.step \in {"start expire", "start insert"} =>
          \A t \in Of(op.agent) : sessions[t].created < now
    /\ op.step \in Pairing3 =>
          \A t \in Of(op.agent) : sessions[t].created <= sessions[op.session].created
    /\ op.step \in Activating => op.session \in Newest(PairedOf(op.agent))

(* What the statements have done so far.                                    *)
WroteOp ==
    /\ op.step \in {"start expire", "start insert"} =>
          agents[op.agent].status = "AWAITING_PAIR"
    /\ op.step \in {"pair session", "pair reply"} =>
          agents[op.agent].status = "PAIRED" /\ agents[op.agent].secret = minted
    /\ op.step = "pair reply" => sessions[op.session].secret = minted
    /\ op.step \in {"activate session", "activate reply"} =>
          agents[op.agent].status = "ACTIVE"

(* An agent undamaged by crashes agrees with its sessions, but for what the *)
(* handler under way has still to write.                                    *)
Busy(a, steps) == op.agent = a /\ op.step \in steps
Healthy(a) ==
    /\ ~Busy(a, {"pair agent", "pair session"}) =>
          \A s \in Newest(PairedOf(a)) : sessions[s].secret = agents[a].secret
    /\ agents[a].status = "ACTIVE"
       /\ ~Busy(a, {"activate session", "activate reply", "register reply"}) =>
          toAgent[a] = agents[a].secret
    /\ agents[a].status = "PAIRED" /\ ~Busy(a, Pairing3) =>
          \A s \in Newest(Of(a)) :
              /\ sessions[s].status = "PAIRED" /\ given[s].client = 1
              /\ sessions[s].secret = agents[a].secret
              /\ ~sessions[s].delivered

AllHealthy == \A a \in Agents \ damaged : Healthy(a)

HealInv == Ordered /\ OrderOp /\ WroteOp /\ AllHealthy

CrashInv == SafeInv /\ (~SameSecond => HealInv)

-----------------------------------------------------------------------------
(* What each statement does to the rows of sessions; the others leave that  *)
(* table alone.                                                             *)

(* The row of one session changes. *)
OnlyRow(s) == \A t \in Sessions \ {s} : sessions'[t] = sessions[t]

(* The columns that say whose session it is and since when. *)
SameOwner(t) ==
    /\ sessions'[t].agent = sessions[t].agent
    /\ sessions'[t].created = sessions[t].created

(* No session is paired, delivered, started or charged. *)
QuietRows ==
    /\ sessions' \in [Sessions -> SessionRow]
    /\ \A t \in Sessions : QuietSession(t) /\ sessions'[t].attempts = sessions[t].attempts

(* One session is charged with an attempt, and closed or not. *)
ChargedRow(s) ==
    /\ sessions' \in [Sessions -> SessionRow]
    /\ OnlyRow(s) /\ QuietSession(s)
    /\ sessions'[s].attempts = sessions[s].attempts + 1

(* Closing the sessions of an agent that starts again charges nothing.      *)
LEMMA StartExpireRows ==
    ASSUME CrashTypeOK, StartExpire
    PROVE  QuietRows /\ \A t \in Of(op.agent) : sessions'[t].status # "AWAITING_PAIR"
<1>0. TypeOK
  BY DEF CrashTypeOK
<1>1. sessions' = ExpireOpen(op.agent)
  BY DEF StartExpire
<1>2. ASSUME NEW t \in Sessions
      PROVE  /\ sessions'[t] \in SessionRow
             /\ QuietSession(t) /\ sessions'[t].attempts = sessions[t].attempts
             /\ t \in Of(op.agent) => sessions'[t].status # "AWAITING_PAIR"
  <2>0. sessions[t] \in SessionRow /\ now \in Nat /\ "EXPIRED" \in SessionStatus
    BY <1>0 DEF TypeOK, SessionStatus
  <2>1. CASE t \in Superseded(op.agent)
    <3>1. sessions'[t] = [sessions[t] EXCEPT !.status = "EXPIRED", !.expires = now]
      BY <1>1, <2>1, Zenon DEF ExpireOpen
    <3>2. [sessions[t] EXCEPT !.status = "EXPIRED", !.expires = now] \in SessionRow
      BY <2>0, ClosedRowType
    <3>3. /\ sessions'[t].agent = sessions[t].agent
          /\ sessions'[t].created = sessions[t].created
          /\ sessions'[t].secret = sessions[t].secret
          /\ sessions'[t].delivered = sessions[t].delivered
          /\ sessions'[t].attempts = sessions[t].attempts
          /\ sessions'[t].status = "EXPIRED"
      BY <2>0, <3>1, Zenon DEF SessionRow
    <3> QED BY <2>1, <3>1, <3>2, <3>3 DEF QuietSession, Superseded
  <2>2. CASE t \notin Superseded(op.agent)
    <3>1. sessions'[t] = sessions[t]
      BY <1>1, <2>2, Zenon DEF ExpireOpen
    <3> QED BY <2>0, <2>2, <3>1 DEF QuietSession, Superseded, Of, IsOpen
  <2> QED BY <2>1, <2>2
<1>3. sessions' \in [Sessions -> SessionRow]
  BY <1>1, <1>2 DEF ExpireOpen
<1> QED BY <1>2, <1>3 DEF QuietRows, Of

(* The row of a session just started.                                       *)
LEMMA StartInsertRows ==
    ASSUME CrashTypeOK, OpInv, StartInsert
    PROVE  /\ op.session \in Sessions
           /\ sessions' \in [Sessions -> SessionRow]
           /\ OnlyRow(op.session)
           /\ sessions'[op.session].agent = op.agent
           /\ sessions'[op.session].status = "AWAITING_PAIR"
           /\ sessions'[op.session].created = now
           /\ sessions'[op.session].attempts = 0
           /\ sessions'[op.session].secret = Null
           /\ sessions'[op.session].delivered = FALSE
<1> DEFINE s == op.session
           row == [BlankRow EXCEPT !.agent = op.agent, !.status = "AWAITING_PAIR",
                                   !.created = now, !.expires = now + PairingTTL]
<1>1. op.step = "start insert" /\ sessions' = [sessions EXCEPT ![s] = row]
  BY Zenon DEF StartInsert, Step
<1>2. s \in Sessions /\ op.agent \in Agents
  BY <1>1 DEF OpInv, Idle
<1>3. now \in Nat /\ now + PairingTTL \in Nat
  BY TimesAssumption DEF CrashTypeOK, TypeOK
<1>4. row \in SessionRow
  BY <1>2, <1>3, NewRowType
<1>5. /\ row.agent = op.agent /\ row.status = "AWAITING_PAIR"
      /\ row.created = now /\ row.attempts = 0
      /\ row.secret = Null /\ row.delivered = FALSE
  BY Zenon DEF BlankRow
<1>6. sessions \in [Sessions -> SessionRow]
  BY DEF CrashTypeOK, TypeOK
<1> HIDE DEF row
<1> QED BY <1>1, <1>2, <1>4, <1>5, <1>6 DEF OnlyRow

(* An open session found past its time is closed and charged.               *)
LEMMA ExpireSessionRows ==
    ASSUME CrashTypeOK, NEW s \in Sessions, ExpireSession(s)
    PROVE  ChargedRow(s) /\ sessions'[s].status = "EXPIRED"
<1>0. /\ sessions \in [Sessions -> SessionRow] /\ sessions[s] \in SessionRow
      /\ sessions[s].attempts + 1 \in Nat
  BY DEF CrashTypeOK, TypeOK, SessionRow
<1>1. sessions' = [sessions EXCEPT ![s] =
                     [sessions[s] EXCEPT !.status = "EXPIRED",
                                         !.attempts = sessions[s].attempts + 1]]
  BY <1>0, Zenon DEF ExpireSession
<1>2. [sessions[s] EXCEPT !.status = "EXPIRED", !.attempts = sessions[s].attempts + 1]
        \in SessionRow
  BY <1>0, ClosedRowType DEF SessionStatus
<1>3. sessions' \in [Sessions -> SessionRow] /\ OnlyRow(s)
  BY <1>0, <1>1, <1>2, Zenon DEF OnlyRow
<1>4. /\ sessions'[s].agent = sessions[s].agent
      /\ sessions'[s].created = sessions[s].created
      /\ sessions'[s].secret = sessions[s].secret
      /\ sessions'[s].delivered = sessions[s].delivered
      /\ sessions'[s].attempts = sessions[s].attempts + 1
      /\ sessions'[s].status = "EXPIRED"
  BY <1>0, <1>1, Zenon DEF SessionRow
<1> QED BY <1>3, <1>4 DEF ChargedRow, QuietSession, ExpireSession

(* A wrong PIN charges the session and nothing else.                        *)
LEMMA WrongPinRows ==
    ASSUME CrashTypeOK, NEW s \in Sessions, WrongPin(s)
    PROVE  ChargedRow(s) /\ sessions'[s].status = sessions[s].status
<1>0. /\ sessions \in [Sessions -> SessionRow] /\ sessions[s] \in SessionRow
      /\ sessions[s].attempts + 1 \in Nat /\ sessions[s].status \in SessionStatus
  BY DEF CrashTypeOK, TypeOK, SessionRow
<1>1. sessions' = [sessions EXCEPT ![s] =
                     [sessions[s] EXCEPT !.attempts = sessions[s].attempts + 1]]
  BY <1>0, Zenon DEF WrongPin
<1>2. [sessions[s] EXCEPT !.attempts = sessions[s].attempts + 1] \in SessionRow
  BY <1>0, Zenon DEF SessionRow
<1>3. sessions' \in [Sessions -> SessionRow] /\ OnlyRow(s)
  BY <1>0, <1>1, <1>2, Zenon DEF OnlyRow
<1>4. /\ sessions'[s].agent = sessions[s].agent
      /\ sessions'[s].created = sessions[s].created
      /\ sessions'[s].secret = sessions[s].secret
      /\ sessions'[s].delivered = sessions[s].delivered
      /\ sessions'[s].attempts = sessions[s].attempts + 1
      /\ sessions'[s].status = sessions[s].status
  BY <1>0, <1>1, Zenon DEF SessionRow
<1> QED BY <1>3, <1>4 DEF ChargedRow, QuietSession

(* Locking a session closes it.                                             *)
LEMMA LockSessionRows ==
    ASSUME CrashTypeOK, OpInv, LockSession
    PROVE  /\ op.session \in Sessions /\ QuietRows /\ OnlyRow(op.session)
           /\ sessions'[op.session].status = "EXPIRED"
<1> DEFINE s == op.session
<1>1. op.step = "lock session" /\ sessions' = [sessions EXCEPT ![s].status = "EXPIRED"]
  BY Zenon DEF LockSession, Step
<1>2. s \in Sessions /\ IsOpen(s)
  BY <1>1 DEF OpInv, Idle
<1>3. sessions \in [Sessions -> SessionRow] /\ sessions[s] \in SessionRow
  BY <1>2 DEF CrashTypeOK, TypeOK
<1>4. [sessions[s] EXCEPT !.status = "EXPIRED"] \in SessionRow
  BY <1>3, ClosedRowType DEF SessionStatus
<1> HIDE DEF s
<1>5. sessions' = [sessions EXCEPT ![s] = [sessions[s] EXCEPT !.status = "EXPIRED"]]
  BY <1>1, <1>2, <1>3, Zenon
<1>6. sessions' \in [Sessions -> SessionRow] /\ OnlyRow(s)
  BY <1>2, <1>3, <1>4, <1>5, Zenon DEF OnlyRow
<1>7. /\ sessions'[s].agent = sessions[s].agent
      /\ sessions'[s].created = sessions[s].created
      /\ sessions'[s].secret = sessions[s].secret
      /\ sessions'[s].delivered = sessions[s].delivered
      /\ sessions'[s].attempts = sessions[s].attempts
      /\ sessions'[s].status = "EXPIRED"
  BY <1>2, <1>3, <1>5, Zenon DEF SessionRow
<1> QED BY <1>2, <1>6, <1>7 DEF QuietRows, OnlyRow, QuietSession, s

(* A session is paired before its secret is minted.                         *)
LEMMA PairSessionRows ==
    ASSUME CrashTypeOK, NEW s \in Sessions, PairSession(s)
    PROVE  /\ sessions' \in [Sessions -> SessionRow]
           /\ OnlyRow(s) /\ SameOwner(s)
           /\ sessions'[s].status = "PAIRED"
           /\ sessions'[s].attempts = sessions[s].attempts
           /\ sessions'[s].secret = sessions[s].secret
           /\ sessions'[s].delivered = sessions[s].delivered
<1>0. sessions \in [Sessions -> SessionRow] /\ sessions[s] \in SessionRow
  BY DEF CrashTypeOK, TypeOK
<1>1. sessions' = [sessions EXCEPT ![s] = [sessions[s] EXCEPT !.status = "PAIRED"]]
  BY <1>0, Zenon DEF PairSession
<1>2. [sessions[s] EXCEPT !.status = "PAIRED"] \in SessionRow
  BY <1>0, ClosedRowType DEF SessionStatus
<1>3. sessions' \in [Sessions -> SessionRow] /\ OnlyRow(s)
  BY <1>0, <1>1, <1>2, Zenon DEF OnlyRow
<1>4. /\ sessions'[s].agent = sessions[s].agent
      /\ sessions'[s].created = sessions[s].created
      /\ sessions'[s].secret = sessions[s].secret
      /\ sessions'[s].delivered = sessions[s].delivered
      /\ sessions'[s].attempts = sessions[s].attempts
      /\ sessions'[s].status = "PAIRED"
  BY <1>0, <1>1, Zenon DEF SessionRow
<1> QED BY <1>3, <1>4 DEF SameOwner

(* The fresh secret goes into the paired session's row.                     *)
LEMMA StoreSecretRows ==
    ASSUME CrashTypeOK, OpInv, StoreSecret
    PROVE  /\ op.session \in Sessions
           /\ sessions' \in [Sessions -> SessionRow]
           /\ OnlyRow(op.session) /\ SameOwner(op.session)
           /\ sessions'[op.session].secret = minted
           /\ sessions'[op.session].status = sessions[op.session].status
           /\ sessions'[op.session].attempts = sessions[op.session].attempts
           /\ sessions'[op.session].delivered = sessions[op.session].delivered
<1> DEFINE s == op.session
<1>1. op.step = "pair session" /\ sessions' = [sessions EXCEPT ![s].secret = minted]
  BY Zenon DEF StoreSecret, Step
<1>2. s \in Sessions
  BY <1>1 DEF OpInv
<1>3. sessions \in [Sessions -> SessionRow] /\ sessions[s] \in SessionRow /\ minted \in Nat
  BY <1>2 DEF CrashTypeOK, TypeOK
<1>4. [sessions[s] EXCEPT !.secret = minted] \in SessionRow
  BY <1>3, Zenon DEF SessionRow
<1> HIDE DEF s
<1>5. sessions' = [sessions EXCEPT ![s] = [sessions[s] EXCEPT !.secret = minted]]
  BY <1>1, <1>2, <1>3, Zenon
<1>6. sessions' \in [Sessions -> SessionRow] /\ OnlyRow(s)
  BY <1>2, <1>3, <1>4, <1>5, Zenon DEF OnlyRow
<1>7. /\ sessions'[s].agent = sessions[s].agent
      /\ sessions'[s].created = sessions[s].created
      /\ sessions'[s].secret = minted
      /\ sessions'[s].delivered = sessions[s].delivered
      /\ sessions'[s].attempts = sessions[s].attempts
      /\ sessions'[s].status = sessions[s].status
  BY <1>2, <1>3, <1>5, Zenon DEF SessionRow
<1> QED BY <1>2, <1>6, <1>7 DEF SameOwner, s

(* A status poll closes sessions of an earlier day,                         *)
LEMMA PollExpireRows ==
    ASSUME CrashTypeOK, NEW a \in Agents, PollExpire(a)
    PROVE  QuietRows
<1>1. TypeOK
  BY DEF CrashTypeOK
<1>2. sessions' = MarkExpired(a) /\ sessions' \in [Sessions -> SessionRow]
  BY <1>1, MarkExpiredType DEF PollExpire
<1> QED BY <1>1, <1>2, MarkExpiredEffect DEF QuietRows, QuietSession

(* and may store a token on the one it reads.                               *)
LEMMA PollTokenRows ==
    ASSUME CrashTypeOK, OpInv, PollToken
    PROVE  QuietRows
<1> DEFINE s == op.session
           row == [sessions[s] EXCEPT !.token = tokens', !.tokenExpires = now + ActivationTTL]
<1>1. /\ op.step = "poll token" /\ tokens' = tokens + 1
      /\ sessions' = [sessions EXCEPT ![s].token = tokens',
                                      ![s].tokenExpires = now + ActivationTTL]
  BY Zenon DEF PollToken
<1>2. s \in Sessions
  BY <1>1 DEF OpInv
<1>3. /\ sessions \in [Sessions -> SessionRow] /\ sessions[s] \in SessionRow
      /\ tokens' \in Nat /\ now + ActivationTTL \in Nat
  <2>1. tokens \in Nat /\ now \in Nat /\ ActivationTTL \in Nat
    BY TimesAssumption DEF CrashTypeOK, TypeOK
  <2>2. tokens' = tokens + 1
    BY <1>1, Zenon
  <2>3. now + ActivationTTL \in Nat
    BY <2>1
  <2>4. tokens' \in Nat
    BY <2>1, <2>2
  <2> QED BY <1>2, <2>3, <2>4 DEF CrashTypeOK, TypeOK
<1>4. row \in SessionRow
  BY <1>3, TokenRowType
<1>5. sessions' = [sessions EXCEPT ![s] = row]
  BY <1>1, <1>2, <1>3, Zenon
<1>6. /\ row.agent = sessions[s].agent
      /\ row.created = sessions[s].created
      /\ row.secret = sessions[s].secret
      /\ row.delivered = sessions[s].delivered
      /\ row.attempts = sessions[s].attempts
      /\ row.status = sessions[s].status
  BY <1>3, Zenon DEF SessionRow
<1> HIDE DEF row
<1>7. sessions' \in [Sessions -> SessionRow] /\ \A t \in Sessions \ {s} : sessions'[t] = sessions[t]
  BY <1>2, <1>3, <1>4, <1>5
<1>8. sessions'[s] = row
  BY <1>2, <1>3, <1>5
<1> QED BY <1>6, <1>7, <1>8 DEF QuietRows, QuietSession

(* An activation spends the token and marks the secret as delivered.        *)
LEMMA ActivateSessionRows ==
    ASSUME CrashTypeOK, OpInv, ActivateSession
    PROVE  /\ op.session \in Sessions
           /\ sessions' \in [Sessions -> SessionRow]
           /\ OnlyRow(op.session) /\ SameOwner(op.session)
           /\ sessions'[op.session].delivered = TRUE
           /\ sessions'[op.session].secret = sessions[op.session].secret
           /\ sessions'[op.session].status = sessions[op.session].status
           /\ sessions'[op.session].attempts = sessions[op.session].attempts
<1> DEFINE s == op.session
<1>1. op.step = "activate session" /\ sessions' = [sessions EXCEPT ![s] = Spend(@)]
  BY Zenon DEF ActivateSession, Step
<1>2. s \in Sessions
  BY <1>1 DEF OpInv
<1>3. sessions \in [Sessions -> SessionRow] /\ sessions[s] \in SessionRow
  BY <1>2 DEF CrashTypeOK, TypeOK
<1>4. Spend(sessions[s]) \in SessionRow
  BY <1>3, TokenRowType DEF Spend, Spent, Null
<1> HIDE DEF s
<1>5. sessions' = [sessions EXCEPT ![s] = Spend(sessions[s])]
  BY <1>1, <1>2, <1>3, Zenon
<1>6. sessions' \in [Sessions -> SessionRow] /\ OnlyRow(s) /\ sessions'[s] = Spend(sessions[s])
  BY <1>2, <1>3, <1>4, <1>5, Zenon DEF OnlyRow
<1>7. /\ sessions'[s].agent = sessions[s].agent
      /\ sessions'[s].created = sessions[s].created
      /\ sessions'[s].secret = sessions[s].secret
      /\ sessions'[s].delivered = TRUE
      /\ sessions'[s].attempts = sessions[s].attempts
      /\ sessions'[s].status = sessions[s].status
  BY <1>3, <1>6, Zenon DEF Spend, Spent, SessionRow
<1> QED BY <1>2, <1>6, <1>7 DEF SameOwner, s

(* One more return of a session's secret keeps the history well typed.      *)
LEMMA GivenType ==
    ASSUME NEW G \in [Sessions -> [client : Nat, agent : Nat]], NEW s
    PROVE  /\ [G EXCEPT ![s].client = @ + 1] \in [Sessions -> [client : Nat, agent : Nat]]
           /\ [G EXCEPT ![s].agent = @ + 1] \in [Sessions -> [client : Nat, agent : Nat]]
<1>1. CASE s \in Sessions
  <2>1. G[s] \in [client : Nat, agent : Nat]
    BY <1>1
  <2>2. [G[s] EXCEPT !.client = @ + 1] \in [client : Nat, agent : Nat]
    BY <2>1
  <2>3. [G[s] EXCEPT !.agent = @ + 1] \in [client : Nat, agent : Nat]
    BY <2>1
  <2>4. /\ [G EXCEPT ![s].client = @ + 1] = [G EXCEPT ![s] = [G[s] EXCEPT !.client = @ + 1]]
        /\ [G EXCEPT ![s].agent = @ + 1] = [G EXCEPT ![s] = [G[s] EXCEPT !.agent = @ + 1]]
    BY <1>1, Zenon
  <2> QED BY <1>1, <2>2, <2>3, <2>4
<1>2. CASE s \notin Sessions
  BY <1>2
<1> QED BY <1>1, <1>2

(* Every statement keeps the rows of sessions well typed.                  *)
LEMMA NextRows ==
    ASSUME CrashTypeOK, OpInv, [CrashNext]_allVars
    PROVE  sessions' \in [Sessions -> SessionRow]
<1>1. ASSUME NEW a \in Agents, NEW s \in Sessions, StartAgent(a, s) PROVE sessions' \in [Sessions -> SessionRow]
  BY <1>1 DEF CrashTypeOK, TypeOK, StartAgent, Enter
<1>2. CASE StartExpire
  BY <1>2, StartExpireRows DEF QuietRows
<1>3. CASE StartInsert
  BY <1>3, StartInsertRows
<1>4. CASE StartReply
  BY <1>4 DEF CrashTypeOK, TypeOK, StartReply, Leave, rows
<1>5. ASSUME NEW s \in Sessions, ExpireSession(s) PROVE sessions' \in [Sessions -> SessionRow]
  BY <1>5, ExpireSessionRows DEF ChargedRow
<1>6. ASSUME NEW s \in Sessions, WrongPin(s) PROVE sessions' \in [Sessions -> SessionRow]
  BY <1>6, WrongPinRows DEF ChargedRow
<1>7. ASSUME NEW s \in Sessions, PairSession(s) PROVE sessions' \in [Sessions -> SessionRow]
  BY <1>7, PairSessionRows
<1>8. CASE AgentExpired
  BY <1>8 DEF CrashTypeOK, TypeOK, AgentExpired, Return, Leave
<1>9. CASE LockSession
  BY <1>9, LockSessionRows DEF QuietRows
<1>10. CASE PairAgent
  BY <1>10 DEF CrashTypeOK, TypeOK, PairAgent, Step
<1>11. CASE StoreSecret
  BY <1>11, StoreSecretRows
<1>12. CASE PairReply
  BY <1>12 DEF CrashTypeOK, TypeOK, PairReply, Leave
<1>13. ASSUME NEW a \in Agents, PollExpire(a) PROVE sessions' \in [Sessions -> SessionRow]
  BY <1>13, PollExpireRows DEF QuietRows
<1>14. ASSUME NEW a \in Agents, RevokeCredentials(a) PROVE sessions' \in [Sessions -> SessionRow]
  BY <1>14 DEF CrashTypeOK, TypeOK, RevokeCredentials, Enter
<1>15. ASSUME NEW a \in Agents, RegisterAgent(a) PROVE sessions' \in [Sessions -> SessionRow]
  BY <1>15 DEF CrashTypeOK, TypeOK, RegisterAgent, Enter
<1>16. CASE PollToken
  BY <1>16, PollTokenRows DEF QuietRows
<1>17. ASSUME NEW a \in Agents, NEW t \in 1 .. tokens, ActivateCredential(a, t) PROVE sessions' \in [Sessions -> SessionRow]
  BY <1>17 DEF CrashTypeOK, TypeOK, ActivateCredential, Enter
<1>18. CASE ActivateAgent
  BY <1>18 DEF CrashTypeOK, TypeOK, ActivateAgent, Step
<1>19. CASE ActivateSession
  BY <1>19, ActivateSessionRows
<1>20. CASE ActivateReply
  BY <1>20 DEF CrashTypeOK, TypeOK, ActivateReply, Return, Leave
<1>21. CASE RevokeAgent
  BY <1>21 DEF CrashTypeOK, TypeOK, RevokeAgent, Return, Leave
<1>22. CASE RegisterReply
  BY <1>22 DEF CrashTypeOK, TypeOK, RegisterReply, Return, Leave
<1>23. CASE ClockTick
  BY <1>23 DEF CrashTypeOK, TypeOK, ClockTick, Whole, Return, Leave, Tick
<1>24. CASE Crash
  BY <1>24 DEF CrashTypeOK, TypeOK, Crash, rows
<1>25. CASE UNCHANGED allVars
  BY <1>25 DEF CrashTypeOK, TypeOK, allVars, rows
<1> QED BY <1>1, <1>2, <1>3, <1>4, <1>5, <1>6, <1>7, <1>8, <1>9, <1>10, <1>11, <1>12, <1>13,
           <1>14, <1>15, <1>16, <1>17, <1>18, <1>19, <1>20, <1>21, <1>22, <1>23, <1>24, <1>25
         DEF CrashNext

(* Every statement keeps the tables well typed.                             *)
LEMMA NextTables ==
    ASSUME CrashTypeOK, OpInv, [CrashNext]_allVars
    PROVE  TypeOK'
<1>0. sessions' \in [Sessions -> SessionRow]
  BY NextRows
<1>01. minted \in Nat /\ tokens \in Nat /\ creds \in [Agents -> Nat] /\ now \in Nat
  BY DEF CrashTypeOK, TypeOK
<1>02. given \in [Sessions -> [client : Nat, agent : Nat]]
  BY DEF CrashTypeOK, TypeOK
<1> USE DEF CrashTypeOK, TypeOK, AgentRow, AgentStatus
<1>1. ASSUME NEW a \in Agents, NEW s \in Sessions, StartAgent(a, s) PROVE TypeOK'
  <2>1. RowAtStart(a) \in AgentRow
    BY DEF RowAtStart, Null
  <2> QED BY <1>0, <1>1, <2>1 DEF StartAgent
<1>2. CASE StartExpire
  BY <1>0, <1>2 DEF StartExpire
<1>3. CASE StartInsert
  BY <1>0, <1>3 DEF StartInsert
<1>4. CASE StartReply
  BY <1>0, <1>4 DEF StartReply, rows
<1>5. ASSUME NEW s \in Sessions, ExpireSession(s) PROVE TypeOK'
  BY <1>0, <1>5 DEF ExpireSession
<1>6. ASSUME NEW s \in Sessions, WrongPin(s) PROVE TypeOK'
  BY <1>0, <1>6 DEF WrongPin
<1>7. ASSUME NEW s \in Sessions, PairSession(s) PROVE TypeOK'
  BY <1>0, <1>7 DEF PairSession
<1>8. CASE AgentExpired
  BY <1>0, <1>8 DEF AgentExpired
<1>9. CASE LockSession
  BY <1>0, <1>9 DEF LockSession
<1>10. CASE PairAgent
  <2>0. minted' = minted + 1
    BY <1>10, Zenon DEF PairAgent
  <2>1. minted' \in Nat /\ [status |-> "PAIRED", secret |-> minted + 1] \in AgentRow
    BY <1>01, <2>0
  <2>2. agents' \in [Agents -> AgentRow]
    BY <1>10, <2>1 DEF PairAgent, RowPaired
  <2> QED BY <1>0, <1>10, <2>1, <2>2 DEF PairAgent
<1>11. CASE StoreSecret
  BY <1>0, <1>11 DEF StoreSecret
<1>12. CASE PairReply
  <2>10. given' = [given EXCEPT ![op.session].client = @ + 1]
    BY <1>12, Zenon DEF PairReply
  <2>1. given' \in [Sessions -> [client : Nat, agent : Nat]]
    BY <1>02, <2>10, GivenType
  <2> QED BY <1>0, <1>12, <2>1 DEF PairReply
<1>13. ASSUME NEW a \in Agents, PollExpire(a) PROVE TypeOK'
  BY <1>0, <1>13 DEF PollExpire
<1>14. ASSUME NEW a \in Agents, RevokeCredentials(a) PROVE TypeOK'
  BY <1>0, <1>14 DEF RevokeCredentials
<1>15. ASSUME NEW a \in Agents, RegisterAgent(a) PROVE TypeOK'
  <2>0. minted' = minted + 1
    BY <1>15, Zenon DEF RegisterAgent
  <2>1. minted' \in Nat /\ [status |-> "ACTIVE", secret |-> minted'] \in AgentRow
    BY <1>01, <2>0
  <2>2. agents' \in [Agents -> AgentRow]
    BY <1>15, <2>1 DEF RegisterAgent
  <2> QED BY <1>0, <1>15, <2>1, <2>2 DEF RegisterAgent
<1>16. CASE PollToken
  <2>0. tokens' = tokens + 1
    BY <1>16, Zenon DEF PollToken
  <2>1. tokens' \in Nat
    BY <1>01, <2>0
  <2> QED BY <1>0, <1>16, <2>1 DEF PollToken
<1>17. ASSUME NEW a \in Agents, NEW t \in 1 .. tokens, ActivateCredential(a, t) PROVE TypeOK'
  <2>0. creds' = [creds EXCEPT ![a] = creds[a] + 1]
    BY <1>17, <1>01, Zenon DEF ActivateCredential
  <2>1. creds' \in [Agents -> Nat]
    BY <1>01, <2>0
  <2> QED BY <1>0, <1>17, <2>1 DEF ActivateCredential
<1>18. CASE ActivateAgent
  <2>1. agents' \in [Agents -> AgentRow]
    BY <1>18 DEF ActivateAgent, StatusActivated
  <2> QED BY <1>0, <1>18, <2>1 DEF ActivateAgent
<1>19. CASE ActivateSession
  BY <1>0, <1>19 DEF ActivateSession
<1>20. CASE ActivateReply
  <2>0. op.session \in Sessions
    BY <1>20 DEF ActivateReply, OpInv
  <2>10. given' = [given EXCEPT ![op.session].agent = @ + 1]
    BY <1>20, Zenon DEF ActivateReply
  <2>1. given' \in [Sessions -> [client : Nat, agent : Nat]]
    BY <1>02, <2>10, GivenType
  <2>2. sessions[op.session].secret \in Nat
    BY <2>0 DEF SessionRow
  <2>3. toAgent' \in [Agents -> Nat]
    BY <1>20, <2>2 DEF ActivateReply
  <2> QED BY <1>0, <1>20, <2>1, <2>3 DEF ActivateReply
<1>21. CASE RevokeAgent
  BY <1>0, <1>21 DEF RevokeAgent
<1>22. CASE RegisterReply
  BY <1>0, <1>22 DEF RegisterReply
<1>23. CASE ClockTick
  BY <1>0, <1>23 DEF ClockTick, Tick
<1>24. CASE Crash
  BY <1>0, <1>24 DEF Crash, rows
<1>25. CASE UNCHANGED allVars
  BY <1>0, <1>25 DEF allVars, rows
<1> QED BY <1>1, <1>2, <1>3, <1>4, <1>5, <1>6, <1>7, <1>8, <1>9, <1>10, <1>11, <1>12, <1>13,
           <1>14, <1>15, <1>16, <1>17, <1>18, <1>19, <1>20, <1>21, <1>22, <1>23, <1>24, <1>25
         DEF CrashNext

(* The control variables: the handler under way and the history of crashes. *)
ControlOK ==
    /\ op \in OpRow
    /\ crashes \in Nat
    /\ shown \subseteq Sessions
    /\ damaged \subseteq Agents

(* The handlers' records are well typed.                                    *)
LEMMA OpRowType ==
    ASSUME NEW a \in Agents \cup {NoAgent}, NEW s \in Sessions \cup {NoAgent}, NEW st \in Steps
    PROVE  [step |-> st, agent |-> a, session |-> s] \in OpRow /\ IdleOp \in OpRow
<1>1. "idle" \in Steps
  BY DEF Steps
<1> QED BY <1>1, Zenon DEF OpRow, IdleOp

(* Every statement keeps the handler under way well typed.                  *)
LEMMA NextControl ==
    ASSUME CrashTypeOK, OpInv, [CrashNext]_allVars
    PROVE  ControlOK'
<1>0. sessions \in [Sessions -> SessionRow]
  BY DEF CrashTypeOK, TypeOK
<1>01. crashes + 1 \in Nat
  BY DEF CrashTypeOK
<1> USE DEF CrashTypeOK, ControlOK, OpRow, IdleOp, OpInv, Idle, Steps
<1>1. ASSUME NEW a \in Agents, NEW s \in Sessions, StartAgent(a, s) PROVE ControlOK'
  BY <1>1 DEF StartAgent, Enter
<1>2. CASE StartExpire
  BY <1>2 DEF StartExpire, Step
<1>3. CASE StartInsert
  BY <1>3 DEF StartInsert, Step
<1>4. CASE StartReply
  BY <1>4 DEF StartReply, Leave, rows
<1>5. ASSUME NEW s \in Sessions, ExpireSession(s) PROVE ControlOK'
  <2>1. sessions[s].agent \in Agents \cup {NoAgent}
    BY <1>0, Zenon DEF SessionRow
  <2> QED BY <1>5, <2>1 DEF ExpireSession, Enter
<1>6. ASSUME NEW s \in Sessions, WrongPin(s) PROVE ControlOK'
  <2>1. sessions[s].agent \in Agents \cup {NoAgent}
    BY <1>0, Zenon DEF SessionRow
  <2>2. op' = IdleOp \/ op' = [step |-> "lock session", agent |-> sessions[s].agent, session |-> s]
    BY <1>6, Zenon DEF WrongPin, Enter, Whole, Return, Leave
  <2>3. UNCHANGED <<crashes, shown, damaged>>
    BY <1>6, Zenon DEF WrongPin, Enter, Whole, Return, Leave
  <2>4. op' \in OpRow
    <3>1. "lock session" \in Steps
      BY DEF Steps
    <3> HIDE DEF OpRow, Steps, IdleOp
    <3> QED BY <2>1, <2>2, <3>1, OpRowType, Zenon
  <2> QED BY <2>3, <2>4
<1>7. ASSUME NEW s \in Sessions, PairSession(s) PROVE ControlOK'
  <2>1. sessions[s].agent \in Agents \cup {NoAgent}
    BY <1>0, Zenon DEF SessionRow
  <2> QED BY <1>7, <2>1 DEF PairSession, Enter
<1>8. CASE AgentExpired
  BY <1>8 DEF AgentExpired, Return, Leave
<1>9. CASE LockSession
  BY <1>9 DEF LockSession, Step
<1>10. CASE PairAgent
  BY <1>10 DEF PairAgent, Step
<1>11. CASE StoreSecret
  BY <1>11 DEF StoreSecret, Step
<1>12. CASE PairReply
  BY <1>12 DEF PairReply, Leave
<1>13. ASSUME NEW a \in Agents, PollExpire(a) PROVE ControlOK'
  <2>1. Newest(Of(a)) \subseteq Sessions
    BY DEF Newest, Of
  <2>2. PICK s \in Sessions \cup {NoAgent} : op' = IdleOp
             \/ op' = [step |-> "poll token", agent |-> a, session |-> s]
    BY <1>13, <2>1, Zenon DEF PollExpire, Enter, Whole, Return, Leave
  <2>3. UNCHANGED <<crashes, shown, damaged>>
    BY <1>13, Zenon DEF PollExpire, Enter, Whole, Return, Leave
  <2>4. op' \in OpRow
    <3>1. "poll token" \in Steps
      BY DEF Steps
    <3> HIDE DEF OpRow, Steps, IdleOp
    <3> QED BY <2>2, <3>1, OpRowType, Zenon
  <2> QED BY <2>3, <2>4
<1>14. ASSUME NEW a \in Agents, RevokeCredentials(a) PROVE ControlOK'
  BY <1>14 DEF RevokeCredentials, Enter
<1>15. ASSUME NEW a \in Agents, RegisterAgent(a) PROVE ControlOK'
  BY <1>15 DEF RegisterAgent, Enter
<1>16. CASE PollToken
  BY <1>16 DEF PollToken, Return, Leave
<1>17. ASSUME NEW a \in Agents, NEW t \in 1 .. tokens, ActivateCredential(a, t) PROVE ControlOK'
  <2>1. Newest(PairedOf(a)) \subseteq Sessions
    BY DEF Newest, PairedOf, Of
  <2>2. PICK s \in Sessions :
             op' = [step |-> "activate agent", agent |-> a, session |-> s]
    BY <1>17, <2>1, Zenon DEF ActivateCredential, Enter
  <2>3. UNCHANGED <<crashes, shown, damaged>>
    BY <1>17, Zenon DEF ActivateCredential, Enter
  <2> QED BY <2>2, <2>3
<1>18. CASE ActivateAgent
  BY <1>18 DEF ActivateAgent, Step
<1>19. CASE ActivateSession
  BY <1>19 DEF ActivateSession, Step
<1>20. CASE ActivateReply
  BY <1>20 DEF ActivateReply, Return, Leave
<1>21. CASE RevokeAgent
  BY <1>21 DEF RevokeAgent, Return, Leave
<1>22. CASE RegisterReply
  BY <1>22 DEF RegisterReply, Return, Leave
<1>23. CASE ClockTick
  BY <1>23 DEF ClockTick, Whole, Return, Leave, Tick
<1>24. CASE Crash
  <2>1. op.agent \in Agents
    BY <1>24 DEF Crash
  <2>2. op' = IdleOp /\ crashes' = crashes + 1 /\ shown' = shown
    BY <1>24, Zenon DEF Crash
  <2>3. damaged' \subseteq Agents
    BY <1>24, <2>1, Zenon DEF Crash
  <2>4. crashes' \in Nat
    BY <2>2, <1>01
  <2>5. op' \in OpRow
    BY <2>2, OpRowType, Zenon
  <2> QED BY <2>2, <2>3, <2>4, <2>5
<1>25. CASE UNCHANGED allVars
  BY <1>25 DEF allVars, rows
<1> QED BY <1>1, <1>2, <1>3, <1>4, <1>5, <1>6, <1>7, <1>8, <1>9, <1>10, <1>11, <1>12, <1>13,
           <1>14, <1>15, <1>16, <1>17, <1>18, <1>19, <1>20, <1>21, <1>22, <1>23, <1>24, <1>25
         DEF CrashNext

(* Every statement keeps everything well typed.                             *)
LEMMA NextCrashType ==
    ASSUME CrashTypeOK, OpInv, [CrashNext]_allVars
    PROVE  CrashTypeOK'
BY NextTables, NextControl DEF CrashTypeOK, ControlOK

(* No statement makes an agent unknown again.                              *)
LEMMA NextKnown ==
    ASSUME CrashTypeOK, OpInv, [CrashNext]_allVars
    PROVE  \A b \in Agents : Exists(b) => agents'[b].status # "NONE"
<1>0. agents \in [Agents -> AgentRow]
  BY DEF CrashTypeOK, TypeOK
<1>1. ASSUME NEW a \in Agents, NEW s \in Sessions, StartAgent(a, s) PROVE \A b \in Agents : Exists(b) => agents'[b].status # "NONE"
  BY <1>0, <1>1 DEF StartAgent, Enter, Exists, RowAtStart, RowPaired, StatusActivated, AgentRow
<1>2. CASE StartExpire
  BY <1>0, <1>2 DEF StartExpire, Step, Exists, RowAtStart, RowPaired, StatusActivated, AgentRow
<1>3. CASE StartInsert
  BY <1>0, <1>3 DEF StartInsert, Step, Exists, RowAtStart, RowPaired, StatusActivated, AgentRow
<1>4. CASE StartReply
  BY <1>0, <1>4 DEF StartReply, Leave, rows, Exists, RowAtStart, RowPaired, StatusActivated, AgentRow
<1>5. ASSUME NEW s \in Sessions, ExpireSession(s) PROVE \A b \in Agents : Exists(b) => agents'[b].status # "NONE"
  BY <1>0, <1>5 DEF ExpireSession, Enter, Exists, RowAtStart, RowPaired, StatusActivated, AgentRow
<1>6. ASSUME NEW s \in Sessions, WrongPin(s) PROVE \A b \in Agents : Exists(b) => agents'[b].status # "NONE"
  BY <1>0, <1>6 DEF WrongPin, Enter, Whole, Return, Leave, Exists, RowAtStart, RowPaired, StatusActivated, AgentRow
<1>7. ASSUME NEW s \in Sessions, PairSession(s) PROVE \A b \in Agents : Exists(b) => agents'[b].status # "NONE"
  BY <1>0, <1>7 DEF PairSession, Enter, Exists, RowAtStart, RowPaired, StatusActivated, AgentRow
<1>8. CASE AgentExpired
  BY <1>0, <1>8 DEF AgentExpired, Return, Leave, Exists, RowAtStart, RowPaired, StatusActivated, AgentRow
<1>9. CASE LockSession
  BY <1>0, <1>9 DEF LockSession, Step, Exists, RowAtStart, RowPaired, StatusActivated, AgentRow
<1>10. CASE PairAgent
  BY <1>0, <1>10 DEF PairAgent, Step, Exists, RowAtStart, RowPaired, StatusActivated, AgentRow
<1>11. CASE StoreSecret
  BY <1>0, <1>11 DEF StoreSecret, Step, Exists, RowAtStart, RowPaired, StatusActivated, AgentRow
<1>12. CASE PairReply
  BY <1>0, <1>12 DEF PairReply, Leave, Exists, RowAtStart, RowPaired, StatusActivated, AgentRow
<1>13. ASSUME NEW a \in Agents, PollExpire(a) PROVE \A b \in Agents : Exists(b) => agents'[b].status # "NONE"
  BY <1>0, <1>13 DEF PollExpire, Enter, Whole, Return, Leave, Exists, RowAtStart, RowPaired, StatusActivated, AgentRow
<1>14. ASSUME NEW a \in Agents, RevokeCredentials(a) PROVE \A b \in Agents : Exists(b) => agents'[b].status # "NONE"
  BY <1>0, <1>14 DEF RevokeCredentials, Enter, Exists, RowAtStart, RowPaired, StatusActivated, AgentRow
<1>15. ASSUME NEW a \in Agents, RegisterAgent(a) PROVE \A b \in Agents : Exists(b) => agents'[b].status # "NONE"
  BY <1>0, <1>15 DEF RegisterAgent, Enter, Exists, RowAtStart, RowPaired, StatusActivated, AgentRow
<1>16. CASE PollToken
  BY <1>0, <1>16 DEF PollToken, Return, Leave, Exists, RowAtStart, RowPaired, StatusActivated, AgentRow
<1>17. ASSUME NEW a \in Agents, NEW t \in 1 .. tokens, ActivateCredential(a, t) PROVE \A b \in Agents : Exists(b) => agents'[b].status # "NONE"
  BY <1>0, <1>17 DEF ActivateCredential, Enter, Exists, RowAtStart, RowPaired, StatusActivated, AgentRow
<1>18. CASE ActivateAgent
  BY <1>0, <1>18 DEF ActivateAgent, Step, Exists, RowAtStart, RowPaired, StatusActivated, AgentRow
<1>19. CASE ActivateSession
  BY <1>0, <1>19 DEF ActivateSession, Step, Exists, RowAtStart, RowPaired, StatusActivated, AgentRow
<1>20. CASE ActivateReply
  BY <1>0, <1>20 DEF ActivateReply, Return, Leave, Exists, RowAtStart, RowPaired, StatusActivated, AgentRow
<1>21. CASE RevokeAgent
  BY <1>0, <1>21 DEF RevokeAgent, Return, Leave, Exists, RowAtStart, RowPaired, StatusActivated, AgentRow
<1>22. CASE RegisterReply
  BY <1>0, <1>22 DEF RegisterReply, Return, Leave, Exists, RowAtStart, RowPaired, StatusActivated, AgentRow
<1>23. CASE ClockTick
  BY <1>0, <1>23 DEF ClockTick, Whole, Return, Leave, Tick, Exists, RowAtStart, RowPaired, StatusActivated, AgentRow
<1>24. CASE Crash
  BY <1>0, <1>24 DEF Crash, rows, Exists, RowAtStart, RowPaired, StatusActivated, AgentRow
<1>25. CASE UNCHANGED allVars
  BY <1>25 DEF allVars, rows, Exists
<1> QED BY <1>1, <1>2, <1>3, <1>4, <1>5, <1>6, <1>7, <1>8, <1>9, <1>10, <1>11, <1>12, <1>13,
           <1>14, <1>15, <1>16, <1>17, <1>18, <1>19, <1>20, <1>21, <1>22, <1>23, <1>24, <1>25
         DEF CrashNext

(* A session keeps its agent, and stays free or in use.                     *)
SameUse(t) ==
    /\ sessions'[t].agent = sessions[t].agent
    /\ sessions'[t].status = "FREE" <=> sessions[t].status = "FREE"

(* If all sessions do, ids in use go on having an agent with a row.         *)
LEMMA OwnedStays ==
    ASSUME CrashTypeOK, OpInv, Owned, [CrashNext]_allVars, \A t \in Sessions : SameUse(t)
    PROVE  Owned'
<1> USE DEF Owned
<1> TAKE t \in Sessions
<1>1. sessions[t].agent \in Agents \cup {NoAgent}
  BY DEF CrashTypeOK, TypeOK, SessionRow
<1>2. sessions[t].agent # NoAgent => agents'[sessions[t].agent].status # "NONE"
  BY <1>1, NextKnown
<1> QED BY <1>2 DEF SameUse, Exists

(* Every statement keeps sessions owned by agents with a row.               *)
LEMMA NextOwned ==
    ASSUME CrashTypeOK, OpInv, Owned, [CrashNext]_allVars
    PROVE  Owned'
<1>0. (\A t \in Sessions : SameUse(t)) => Owned'
  BY OwnedStays
<1>1. ASSUME NEW a \in Agents, NEW s \in Sessions, StartAgent(a, s) PROVE Owned'
  <2>1. sessions' = sessions
    BY <1>1 DEF StartAgent
  <2> QED BY <1>0, <2>1 DEF SameUse
<1>2. CASE StartExpire
  <2>1. \A t \in Sessions : SameUse(t)
    BY <1>2, StartExpireRows DEF QuietRows, QuietSession, SameUse, IsOpen
  <2> QED BY <1>0, <2>1
<1>3. CASE StartInsert
  <2>1. op.agent \in Agents /\ agents'[op.agent].status # "NONE"
    BY <1>3, NextKnown DEF StartInsert, Step, OpInv, Idle
  <2> USE DEF Owned
  <2> TAKE t \in Sessions
  <2>2. CASE t = op.session
    BY <1>3, <2>1, <2>2, StartInsertRows, NoAgentAssumption DEF Exists
  <2>3. CASE t # op.session
    <3>1. sessions'[t] = sessions[t]
      BY <1>3, <2>3, StartInsertRows DEF OnlyRow
    <3>2. sessions[t].agent \in Agents \cup {NoAgent}
      BY DEF CrashTypeOK, TypeOK, SessionRow
    <3>3. sessions[t].agent # NoAgent => agents'[sessions[t].agent].status # "NONE"
      BY <3>2, NextKnown
    <3> QED BY <3>1, <3>3 DEF Exists
  <2> QED BY <2>2, <2>3
<1>4. CASE StartReply
  <2>1. sessions' = sessions
    BY <1>4 DEF StartReply, rows
  <2> QED BY <1>0, <2>1 DEF SameUse
<1>5. ASSUME NEW s \in Sessions, ExpireSession(s) PROVE Owned'
  <2>1. \A t \in Sessions : SameUse(t)
    BY <1>5, ExpireSessionRows DEF ChargedRow, OnlyRow, QuietSession, SameUse, IsOpen
  <2> QED BY <1>0, <2>1
<1>6. ASSUME NEW s \in Sessions, WrongPin(s) PROVE Owned'
  <2>1. \A t \in Sessions : SameUse(t)
    BY <1>6, WrongPinRows DEF ChargedRow, OnlyRow, QuietSession, SameUse, IsOpen
  <2> QED BY <1>0, <2>1
<1>7. ASSUME NEW s \in Sessions, PairSession(s) PROVE Owned'
  <2>1. \A t \in Sessions : SameUse(t)
    BY <1>7, PairSessionRows DEF PairSession, OnlyRow, SameOwner, SameUse, IsOpen
  <2> QED BY <1>0, <2>1
<1>8. CASE AgentExpired
  <2>1. sessions' = sessions
    BY <1>8 DEF AgentExpired
  <2> QED BY <1>0, <2>1 DEF SameUse
<1>9. CASE LockSession
  <2>1. \A t \in Sessions : SameUse(t)
    BY <1>9, LockSessionRows DEF QuietRows, QuietSession, SameUse, IsOpen
  <2> QED BY <1>0, <2>1
<1>10. CASE PairAgent
  <2>1. sessions' = sessions
    BY <1>10 DEF PairAgent
  <2> QED BY <1>0, <2>1 DEF SameUse
<1>11. CASE StoreSecret
  <2>1. \A t \in Sessions : SameUse(t)
    BY <1>11, StoreSecretRows DEF OnlyRow, SameOwner, SameUse
  <2> QED BY <1>0, <2>1
<1>12. CASE PairReply
  <2>1. sessions' = sessions
    BY <1>12 DEF PairReply
  <2> QED BY <1>0, <2>1 DEF SameUse
<1>13. ASSUME NEW a \in Agents, PollExpire(a) PROVE Owned'
  <2>1. \A t \in Sessions : SameUse(t)
    BY <1>13, PollExpireRows DEF QuietRows, QuietSession, SameUse, IsOpen
  <2> QED BY <1>0, <2>1
<1>14. ASSUME NEW a \in Agents, RevokeCredentials(a) PROVE Owned'
  <2>1. sessions' = sessions
    BY <1>14 DEF RevokeCredentials
  <2> QED BY <1>0, <2>1 DEF SameUse
<1>15. ASSUME NEW a \in Agents, RegisterAgent(a) PROVE Owned'
  <2>1. sessions' = sessions
    BY <1>15 DEF RegisterAgent
  <2> QED BY <1>0, <2>1 DEF SameUse
<1>16. CASE PollToken
  <2>1. \A t \in Sessions : SameUse(t)
    BY <1>16, PollTokenRows DEF QuietRows, QuietSession, SameUse, IsOpen
  <2> QED BY <1>0, <2>1
<1>17. ASSUME NEW a \in Agents, NEW t \in 1 .. tokens, ActivateCredential(a, t) PROVE Owned'
  <2>1. sessions' = sessions
    BY <1>17 DEF ActivateCredential
  <2> QED BY <1>0, <2>1 DEF SameUse
<1>18. CASE ActivateAgent
  <2>1. sessions' = sessions
    BY <1>18 DEF ActivateAgent
  <2> QED BY <1>0, <2>1 DEF SameUse
<1>19. CASE ActivateSession
  <2>1. \A t \in Sessions : SameUse(t)
    BY <1>19, ActivateSessionRows DEF OnlyRow, SameOwner, SameUse
  <2> QED BY <1>0, <2>1
<1>20. CASE ActivateReply
  <2>1. sessions' = sessions
    BY <1>20 DEF ActivateReply
  <2> QED BY <1>0, <2>1 DEF SameUse
<1>21. CASE RevokeAgent
  <2>1. sessions' = sessions
    BY <1>21 DEF RevokeAgent
  <2> QED BY <1>0, <2>1 DEF SameUse
<1>22. CASE RegisterReply
  <2>1. sessions' = sessions
    BY <1>22 DEF RegisterReply
  <2> QED BY <1>0, <2>1 DEF SameUse
<1>23. CASE ClockTick
  <2>1. sessions' = sessions
    BY <1>23 DEF ClockTick, Tick
  <2> QED BY <1>0, <2>1 DEF SameUse
<1>24. CASE Crash
  <2>1. sessions' = sessions
    BY <1>24 DEF Crash, rows
  <2> QED BY <1>0, <2>1 DEF SameUse
<1>25. CASE UNCHANGED allVars
  <2>1. sessions' = sessions
    BY <1>25 DEF allVars, rows
  <2> QED BY <1>0, <2>1 DEF SameUse
<1> QED BY <1>1, <1>2, <1>3, <1>4, <1>5, <1>6, <1>7, <1>8, <1>9, <1>10, <1>11, <1>12, <1>13,
           <1>14, <1>15, <1>16, <1>17, <1>18, <1>19, <1>20, <1>21, <1>22, <1>23, <1>24, <1>25
         DEF CrashNext

(* Every statement keeps at most one session of an agent open.              *)
LEMMA NextOneOpen ==
    ASSUME CrashTypeOK, OpInv, OneOpenSession, [CrashNext]_allVars
    PROVE  OneOpenSession'
<1>1. ASSUME NEW a \in Agents, NEW s \in Sessions, StartAgent(a, s) PROVE OneOpenSession'
  <2>1. sessions' = sessions
    BY <1>1 DEF StartAgent
  <2> QED BY <2>1 DEF OneOpenSession, Of, IsOpen
<1>2. CASE StartExpire
  BY <1>2, StartExpireRows DEF QuietRows, QuietSession, OneOpenSession, Of, IsOpen
<1>3. CASE StartInsert
  <2>1. op.step = "start insert"
    BY <1>3 DEF StartInsert, Step
  <2>2. \A t \in Sessions : sessions[t].agent = op.agent => sessions[t].status # "AWAITING_PAIR"
    BY <2>1 DEF OpInv, Of, IsOpen
  <2> SUFFICES ASSUME NEW a \in Agents, NEW t \in Sessions, NEW u \in Sessions,
                      sessions'[t].agent = a, sessions'[u].agent = a,
                      sessions'[t].status = "AWAITING_PAIR",
                      sessions'[u].status = "AWAITING_PAIR", t # u
               PROVE  FALSE
    BY DEF OneOpenSession, Of, IsOpen
  <2>3. CASE t # op.session /\ u # op.session
    <3>1. sessions'[t] = sessions[t] /\ sessions'[u] = sessions[u]
      BY <1>3, <2>3, StartInsertRows DEF OnlyRow
    <3>2. t \in Of(a) /\ u \in Of(a) /\ IsOpen(t) /\ IsOpen(u)
      BY <3>1 DEF Of, IsOpen
    <3> QED BY <3>2 DEF OneOpenSession
  <2>4. CASE t = op.session \/ u = op.session
    BY <1>3, <2>2, <2>4, StartInsertRows DEF OnlyRow
  <2> QED BY <2>3, <2>4
<1>4. CASE StartReply
  <2>1. sessions' = sessions
    BY <1>4 DEF StartReply, rows
  <2> QED BY <2>1 DEF OneOpenSession, Of, IsOpen
<1>5. ASSUME NEW s \in Sessions, ExpireSession(s) PROVE OneOpenSession'
  <2>1. \A t \in Sessions : QuietSession(t)
    BY <1>5, ExpireSessionRows DEF ChargedRow, OnlyRow, QuietSession
  <2> QED BY <2>1 DEF QuietSession, OneOpenSession, Of, IsOpen
<1>6. ASSUME NEW s \in Sessions, WrongPin(s) PROVE OneOpenSession'
  <2>1. \A t \in Sessions : QuietSession(t)
    BY <1>6, WrongPinRows DEF ChargedRow, OnlyRow, QuietSession
  <2> QED BY <2>1 DEF QuietSession, OneOpenSession, Of, IsOpen
<1>7. ASSUME NEW s \in Sessions, PairSession(s) PROVE OneOpenSession'
  BY <1>7, PairSessionRows DEF OnlyRow, SameOwner, OneOpenSession, Of, IsOpen
<1>8. CASE AgentExpired
  <2>1. sessions' = sessions
    BY <1>8 DEF AgentExpired
  <2> QED BY <2>1 DEF OneOpenSession, Of, IsOpen
<1>9. CASE LockSession
  BY <1>9, LockSessionRows DEF QuietRows, QuietSession, OneOpenSession, Of, IsOpen
<1>10. CASE PairAgent
  <2>1. sessions' = sessions
    BY <1>10 DEF PairAgent
  <2> QED BY <2>1 DEF OneOpenSession, Of, IsOpen
<1>11. CASE StoreSecret
  BY <1>11, StoreSecretRows DEF OnlyRow, SameOwner, OneOpenSession, Of, IsOpen
<1>12. CASE PairReply
  <2>1. sessions' = sessions
    BY <1>12 DEF PairReply
  <2> QED BY <2>1 DEF OneOpenSession, Of, IsOpen
<1>13. ASSUME NEW a \in Agents, PollExpire(a) PROVE OneOpenSession'
  BY <1>13, PollExpireRows DEF QuietRows, QuietSession, OneOpenSession, Of, IsOpen
<1>14. ASSUME NEW a \in Agents, RevokeCredentials(a) PROVE OneOpenSession'
  <2>1. sessions' = sessions
    BY <1>14 DEF RevokeCredentials
  <2> QED BY <2>1 DEF OneOpenSession, Of, IsOpen
<1>15. ASSUME NEW a \in Agents, RegisterAgent(a) PROVE OneOpenSession'
  <2>1. sessions' = sessions
    BY <1>15 DEF RegisterAgent
  <2> QED BY <2>1 DEF OneOpenSession, Of, IsOpen
<1>16. CASE PollToken
  BY <1>16, PollTokenRows DEF QuietRows, QuietSession, OneOpenSession, Of, IsOpen
<1>17. ASSUME NEW a \in Agents, NEW t \in 1 .. tokens, ActivateCredential(a, t) PROVE OneOpenSession'
  <2>1. sessions' = sessions
    BY <1>17 DEF ActivateCredential
  <2> QED BY <2>1 DEF OneOpenSession, Of, IsOpen
<1>18. CASE ActivateAgent
  <2>1. sessions' = sessions
    BY <1>18 DEF ActivateAgent
  <2> QED BY <2>1 DEF OneOpenSession, Of, IsOpen
<1>19. CASE ActivateSession
  BY <1>19, ActivateSessionRows DEF OnlyRow, SameOwner, OneOpenSession, Of, IsOpen
<1>20. CASE ActivateReply
  <2>1. sessions' = sessions
    BY <1>20 DEF ActivateReply
  <2> QED BY <2>1 DEF OneOpenSession, Of, IsOpen
<1>21. CASE RevokeAgent
  <2>1. sessions' = sessions
    BY <1>21 DEF RevokeAgent
  <2> QED BY <2>1 DEF OneOpenSession, Of, IsOpen
<1>22. CASE RegisterReply
  <2>1. sessions' = sessions
    BY <1>22 DEF RegisterReply
  <2> QED BY <2>1 DEF OneOpenSession, Of, IsOpen
<1>23. CASE ClockTick
  <2>1. sessions' = sessions
    BY <1>23 DEF ClockTick, Tick
  <2> QED BY <2>1 DEF OneOpenSession, Of, IsOpen
<1>24. CASE Crash
  <2>1. sessions' = sessions
    BY <1>24 DEF Crash, rows
  <2> QED BY <2>1 DEF OneOpenSession, Of, IsOpen
<1>25. CASE UNCHANGED allVars
  <2>1. sessions' = sessions
    BY <1>25 DEF allVars, rows
  <2> QED BY <2>1 DEF OneOpenSession, Of, IsOpen
<1> QED BY <1>1, <1>2, <1>3, <1>4, <1>5, <1>6, <1>7, <1>8, <1>9, <1>10, <1>11, <1>12, <1>13,
           <1>14, <1>15, <1>16, <1>17, <1>18, <1>19, <1>20, <1>21, <1>22, <1>23, <1>24, <1>25
         DEF CrashNext

(* Between handlers there is nothing to keep.                               *)
LEMMA OpAtRest == ASSUME op' = IdleOp PROVE OpInv'
<1>1. op'.step = "idle"
  BY Zenon DEF IdleOp
<1> QED BY <1>1, Zenon DEF OpInv, Idle, Pairing3, Activating

(* A handler that goes on keeps its agent and its session.                  *)
LEMMA StepOn ==
    ASSUME CrashTypeOK, NEW from, NEW to, Step(from, to)
    PROVE  /\ op.step = from /\ op'.step = to
           /\ op'.agent = op.agent /\ op'.session = op.session
BY Zenon DEF CrashTypeOK, OpRow, Step

(* Every statement leaves the handler what its next one relies on.          *)
LEMMA NextOp ==
    ASSUME CrashTypeOK, OpInv, Owned, HandedInv, [CrashNext]_allVars
    PROVE  OpInv'
<1>1. ASSUME NEW a \in Agents, NEW s \in Sessions, StartAgent(a, s) PROVE OpInv'
  <2>1. op'.step = "start expire" /\ op'.agent = a /\ op'.session = s
    BY <1>1, Zenon DEF StartAgent, Enter
  <2>2. sessions' = sessions /\ sessions[s].status = "FREE" /\ agents'[a].status # "NONE"
    BY <1>1 DEF StartAgent, RowAtStart, CrashTypeOK, TypeOK
  <2> QED BY <2>1, <2>2 DEF OpInv, Idle, Pairing3, Activating, Exists, Of, PairedOf, IsOpen
<1>2. CASE StartExpire
  <2>1. /\ op.step = "start expire" /\ op'.step = "start insert"
        /\ op'.agent = op.agent /\ op'.session = op.session
    BY <1>2, StepOn DEF StartExpire
  <2>2. op.agent \in Agents /\ op.session \in Sessions /\ sessions[op.session].status = "FREE"
    BY <2>1 DEF OpInv, Idle
  <2>3. agents'[op.agent].status # "NONE"
    BY <2>1, <2>2, NextKnown DEF OpInv, Idle
  <2>4. sessions'[op.session].status = "FREE"
    BY <1>2, <2>2, StartExpireRows DEF QuietRows, QuietSession, IsOpen
  <2>5. \A t \in Sessions : sessions'[t].agent = op.agent => sessions'[t].status # "AWAITING_PAIR"
    BY <1>2, StartExpireRows DEF QuietRows, QuietSession, Of
  <2> QED BY <2>1, <2>2, <2>3, <2>4, <2>5 DEF OpInv, Idle, Pairing3, Activating, Exists, Of, PairedOf, IsOpen
<1>3. CASE StartInsert
  <2>1. /\ op.step = "start insert" /\ op'.step = "start reply"
        /\ op'.agent = op.agent /\ op'.session = op.session
    BY <1>3, StepOn DEF StartInsert
  <2>2. op.agent \in Agents /\ op.session \in Sessions
    BY <2>1 DEF OpInv, Idle
  <2>3. agents'[op.agent].status # "NONE"
    BY <2>1, <2>2, NextKnown DEF OpInv, Idle
  <2> QED BY <2>1, <2>2, <2>3 DEF OpInv, Idle, Pairing3, Activating, Exists, Of, PairedOf, IsOpen
<1>4. CASE StartReply
  <2>1. op' = IdleOp
    BY <1>4, Zenon DEF StartReply, Leave, rows
  <2> QED BY <2>1, OpAtRest
<1>5. ASSUME NEW s \in Sessions, ExpireSession(s) PROVE OpInv'
  <2>1. op'.step = "expire agent" /\ op'.agent = sessions[s].agent /\ op'.session = s
    BY <1>5, Zenon DEF ExpireSession, Enter
  <2>2. sessions[s].agent \in Agents /\ agents'[sessions[s].agent].status # "NONE"
    <3>1. sessions[s].agent \in Agents \cup {NoAgent} /\ sessions[s].status = "AWAITING_PAIR"
      BY <1>5 DEF ExpireSession, IsOpen, CrashTypeOK, TypeOK, SessionRow
    <3> QED BY <3>1, NextKnown DEF Owned
  <2> QED BY <2>1, <2>2 DEF OpInv, Idle, Pairing3, Activating, Exists, Of, PairedOf, IsOpen
<1>6. ASSUME NEW s \in Sessions, WrongPin(s) PROVE OpInv'
  <2>1. CASE op' = IdleOp
    BY <2>1, OpAtRest
  <2>2. CASE op' # IdleOp
    <3>0. op' = [step |-> "lock session", agent |-> sessions[s].agent, session |-> s]
      BY <1>6, <2>2, Zenon DEF WrongPin, Enter, Whole, Return, Leave
    <3>1. op'.step = "lock session" /\ op'.agent = sessions[s].agent /\ op'.session = s
      BY <3>0, Zenon
    <3>2. sessions[s].agent \in Agents /\ agents'[sessions[s].agent].status # "NONE"
      <4>1. sessions[s].agent \in Agents \cup {NoAgent} /\ sessions[s].status = "AWAITING_PAIR"
        BY <1>6 DEF WrongPin, IsOpen, CrashTypeOK, TypeOK, SessionRow
      <4> QED BY <4>1, NextKnown DEF Owned
    <3>3. sessions'[s].status = "AWAITING_PAIR"
      BY <1>6, WrongPinRows DEF WrongPin, IsOpen
    <3> QED BY <3>1, <3>2, <3>3 DEF OpInv, Idle, Pairing3, Activating, Exists, Of, PairedOf, IsOpen
  <2> QED BY <2>1, <2>2
<1>7. ASSUME NEW s \in Sessions, PairSession(s) PROVE OpInv'
  <2>1. op'.step = "pair agent" /\ op'.agent = sessions[s].agent /\ op'.session = s
    BY <1>7, Zenon DEF PairSession, Enter
  <2>2. sessions[s].agent \in Agents /\ agents'[sessions[s].agent].status # "NONE"
    <3>1. sessions[s].agent \in Agents \cup {NoAgent} /\ sessions[s].status = "AWAITING_PAIR"
      BY <1>7 DEF PairSession, IsOpen, CrashTypeOK, TypeOK, SessionRow
    <3> QED BY <3>1, NextKnown DEF Owned
  <2>3. given'[s].client = 0
    <3>1. given[s].client \in {0, 1} /\ sessions[s].status = "AWAITING_PAIR"
      BY <1>7 DEF HandedInv, PairSession, IsOpen
    <3>2. given[s].client = 0
      BY <3>1 DEF HandedInv
    <3> QED BY <1>7, <3>2 DEF PairSession
  <2>4. ~sessions'[s].delivered /\ sessions'[s].status = "PAIRED" /\ sessions'[s].agent = sessions[s].agent
    <3>1. sessions[s].status = "AWAITING_PAIR" /\ ~sessions[s].delivered
      BY <1>7 DEF HandedInv, PairSession, IsOpen
    <3> QED BY <1>7, <3>1, PairSessionRows DEF SameOwner
  <2> QED BY <2>1, <2>2, <2>3, <2>4 DEF OpInv, Idle, Pairing3, Activating, Exists, Of, PairedOf, IsOpen
<1>8. CASE AgentExpired
  <2>1. op' = IdleOp
    BY <1>8, Zenon DEF AgentExpired, Return, Leave
  <2> QED BY <2>1, OpAtRest
<1>9. CASE LockSession
  <2>1. /\ op.step = "lock session" /\ op'.step = "lock agent"
        /\ op'.agent = op.agent /\ op'.session = op.session
    BY <1>9, StepOn DEF LockSession
  <2>2. op.agent \in Agents /\ op.session \in Sessions
    BY <2>1 DEF OpInv, Idle
  <2>3. agents'[op.agent].status # "NONE"
    BY <2>1, <2>2, NextKnown DEF OpInv, Idle
  <2> QED BY <2>1, <2>2, <2>3 DEF OpInv, Idle, Pairing3, Activating, Exists, Of, PairedOf, IsOpen
<1>10. CASE PairAgent
  <2>1. /\ op.step = "pair agent" /\ op'.step = "pair session"
        /\ op'.agent = op.agent /\ op'.session = op.session
    BY <1>10, StepOn DEF PairAgent
  <2>2. op.agent \in Agents /\ op.session \in Sessions
    BY <2>1 DEF OpInv, Idle
  <2>3. agents'[op.agent].status # "NONE"
    BY <2>1, <2>2, NextKnown DEF OpInv, Idle
  <2>4. sessions' = sessions /\ given' = given
    BY <1>10 DEF PairAgent
  <2> QED BY <2>1, <2>2, <2>3, <2>4 DEF OpInv, Idle, Pairing3, Activating, Exists, Of, PairedOf, IsOpen
<1>11. CASE StoreSecret
  <2>1. /\ op.step = "pair session" /\ op'.step = "pair reply"
        /\ op'.agent = op.agent /\ op'.session = op.session
    BY <1>11, StepOn DEF StoreSecret
  <2>2. op.agent \in Agents /\ op.session \in Sessions
    BY <2>1 DEF OpInv, Idle
  <2>3. agents'[op.agent].status # "NONE"
    BY <2>1, <2>2, NextKnown DEF OpInv, Idle
  <2>4. /\ sessions'[op.session].agent = sessions[op.session].agent
        /\ sessions'[op.session].status = sessions[op.session].status
        /\ sessions'[op.session].delivered = sessions[op.session].delivered
        /\ given' = given
    BY <1>11, StoreSecretRows DEF StoreSecret, SameOwner
  <2> QED BY <2>1, <2>2, <2>3, <2>4 DEF OpInv, Idle, Pairing3, Activating, Exists, Of, PairedOf, IsOpen
<1>12. CASE PairReply
  <2>1. op' = IdleOp
    BY <1>12, Zenon DEF PairReply, Leave
  <2> QED BY <2>1, OpAtRest
<1>13. ASSUME NEW a \in Agents, PollExpire(a) PROVE OpInv'
  <2>1. CASE op' = IdleOp
    BY <2>1, OpAtRest
  <2>2. CASE op' # IdleOp
    <3>1. PICK s \in Newest(Of(a)) : op' = [step |-> "poll token", agent |-> a, session |-> s]
      BY <1>13, <2>2, Zenon DEF PollExpire, Enter, Whole, Return, Leave
    <3>2. op'.step = "poll token" /\ op'.agent = a /\ op'.session = s
      BY <3>1, Zenon
    <3>3. s \in Sessions
      BY DEF Newest, Of
    <3>4. agents'[a].status # "NONE"
      BY <1>13, NextKnown DEF PollExpire
    <3> QED BY <3>2, <3>3, <3>4 DEF OpInv, Idle, Pairing3, Activating, Exists, Of, PairedOf, IsOpen
  <2> QED BY <2>1, <2>2
<1>14. ASSUME NEW a \in Agents, RevokeCredentials(a) PROVE OpInv'
  <2>1. op'.step = "revoke agent" /\ op'.agent = a /\ op'.session = NoAgent
    BY <1>14, Zenon DEF RevokeCredentials, Enter
  <2>2. agents'[a].status # "NONE"
    BY <1>14, NextKnown DEF RevokeCredentials
  <2> QED BY <2>1, <2>2 DEF OpInv, Idle, Pairing3, Activating, Exists, Of, PairedOf, IsOpen
<1>15. ASSUME NEW a \in Agents, RegisterAgent(a) PROVE OpInv'
  <2>1. op'.step = "register reply" /\ op'.agent = a /\ op'.session = NoAgent
    BY <1>15, Zenon DEF RegisterAgent, Enter
  <2>2. agents'[a].status # "NONE"
    BY <1>15 DEF RegisterAgent, CrashTypeOK, TypeOK
  <2> QED BY <2>1, <2>2 DEF OpInv, Idle, Pairing3, Activating, Exists, Of, PairedOf, IsOpen
<1>16. CASE PollToken
  <2>1. op' = IdleOp
    BY <1>16, Zenon DEF PollToken, Return, Leave
  <2> QED BY <2>1, OpAtRest
<1>17. ASSUME NEW a \in Agents, NEW t \in 1 .. tokens, ActivateCredential(a, t) PROVE OpInv'
  <2>1. PICK s \in Newest(PairedOf(a)) :
          /\ Activatable(s, t)
          /\ op' = [step |-> "activate agent", agent |-> a, session |-> s]
    BY <1>17, Zenon DEF ActivateCredential, Enter
  <2>2. op'.step = "activate agent" /\ op'.agent = a /\ op'.session = s
    BY <2>1, Zenon
  <2>3. s \in Sessions /\ sessions[s].agent = a /\ sessions[s].status = "PAIRED" /\ ~sessions[s].delivered
    BY <2>1 DEF Newest, PairedOf, Of, Activatable
  <2>4. given[s].agent = 0
    BY <2>3 DEF HandedInv
  <2>5. agents'[a].status # "NONE"
    BY <2>3, NoAgentAssumption, NextKnown DEF Owned
  <2>6. sessions' = sessions /\ given' = given
    BY <1>17 DEF ActivateCredential
  <2> QED BY <2>2, <2>3, <2>4, <2>5, <2>6 DEF OpInv, Idle, Pairing3, Activating, Exists, Of, PairedOf, IsOpen
<1>18. CASE ActivateAgent
  <2>1. /\ op.step = "activate agent" /\ op'.step = "activate session"
        /\ op'.agent = op.agent /\ op'.session = op.session
    BY <1>18, StepOn DEF ActivateAgent
  <2>2. op.agent \in Agents /\ op.session \in Sessions
    BY <2>1 DEF OpInv, Idle
  <2>3. agents'[op.agent].status # "NONE"
    BY <2>1, <2>2, NextKnown DEF OpInv, Idle
  <2>4. sessions' = sessions /\ given' = given
    BY <1>18 DEF ActivateAgent
  <2> QED BY <2>1, <2>2, <2>3, <2>4 DEF OpInv, Idle, Pairing3, Activating, Exists, Of, PairedOf, IsOpen
<1>19. CASE ActivateSession
  <2>1. /\ op.step = "activate session" /\ op'.step = "activate reply"
        /\ op'.agent = op.agent /\ op'.session = op.session
    BY <1>19, StepOn DEF ActivateSession
  <2>2. op.agent \in Agents /\ op.session \in Sessions
    BY <2>1 DEF OpInv, Idle
  <2>3. agents'[op.agent].status # "NONE"
    BY <2>1, <2>2, NextKnown DEF OpInv, Idle
  <2>4. /\ sessions'[op.session].agent = sessions[op.session].agent
        /\ sessions'[op.session].status = sessions[op.session].status
        /\ sessions'[op.session].delivered = TRUE
        /\ given' = given
    BY <1>19, ActivateSessionRows DEF ActivateSession, SameOwner
  <2> QED BY <2>1, <2>2, <2>3, <2>4 DEF OpInv, Idle, Pairing3, Activating, Exists, Of, PairedOf, IsOpen
<1>20. CASE ActivateReply
  <2>1. op' = IdleOp
    BY <1>20, Zenon DEF ActivateReply, Return, Leave
  <2> QED BY <2>1, OpAtRest
<1>21. CASE RevokeAgent
  <2>1. op' = IdleOp
    BY <1>21, Zenon DEF RevokeAgent, Return, Leave
  <2> QED BY <2>1, OpAtRest
<1>22. CASE RegisterReply
  <2>1. op' = IdleOp
    BY <1>22, Zenon DEF RegisterReply, Return, Leave
  <2> QED BY <2>1, OpAtRest
<1>23. CASE ClockTick
  <2>1. op' = IdleOp
    BY <1>23, Zenon DEF ClockTick, Whole, Return, Leave, Tick
  <2> QED BY <2>1, OpAtRest
<1>24. CASE Crash
  <2>1. op' = IdleOp
    BY <1>24, Zenon DEF Crash, rows
  <2> QED BY <2>1, OpAtRest
<1>25. CASE UNCHANGED allVars
  BY <1>25 DEF allVars, rows, OpInv, Idle, Exists, Of, PairedOf, IsOpen
<1> QED BY <1>1, <1>2, <1>3, <1>4, <1>5, <1>6, <1>7, <1>8, <1>9, <1>10, <1>11, <1>12, <1>13,
           <1>14, <1>15, <1>16, <1>17, <1>18, <1>19, <1>20, <1>21, <1>22, <1>23, <1>24, <1>25
         DEF CrashNext

(* What the bound on wrong PINs needs of a row that nobody charges.         *)
Uncharged(t) ==
    /\ sessions'[t].attempts = sessions[t].attempts
    /\ sessions'[t].status = "AWAITING_PAIR" => IsOpen(t)

(* If no session is charged and none is being locked, the bound stays.      *)
LEMMA AttemptsStay ==
    ASSUME AttemptsInv, op.step # "lock session", crashes' = crashes,
           \A t \in Sessions : Uncharged(t)
    PROVE  AttemptsInv'
BY DEF AttemptsInv, Uncharged, IsOpen

(* Every statement keeps the bound on wrong PINs; a crash raises it.        *)
LEMMA NextAttemptsInv ==
    ASSUME CrashTypeOK, OpInv, AttemptsInv, [CrashNext]_allVars
    PROVE  AttemptsInv'
<1>1. ASSUME NEW a \in Agents, NEW s \in Sessions, StartAgent(a, s) PROVE AttemptsInv'
  <2>1. sessions' = sessions
    BY <1>1 DEF StartAgent
  <2>2. crashes' = crashes
    BY <1>1 DEF StartAgent, Enter
  <2>3. op.step # "lock session"
    BY <1>1, Zenon DEF StartAgent, Enter, Idle
  <2> QED BY <2>1, <2>2, <2>3, AttemptsStay DEF Uncharged, IsOpen
<1>2. CASE StartExpire
  <2>1. \A t \in Sessions : Uncharged(t)
    BY <1>2, StartExpireRows DEF QuietRows, QuietSession, Uncharged, IsOpen
  <2>2. crashes' = crashes
    BY <1>2 DEF StartExpire, Step
  <2>3. op.step # "lock session"
    BY <1>2, Zenon DEF StartExpire, Step, Idle
  <2> QED BY <2>1, <2>2, <2>3, AttemptsStay
<1>3. CASE StartInsert
  <2>1. crashes' = crashes /\ op.step = "start insert"
    BY <1>3 DEF StartInsert, Step
  <2>2. 0 < MaxAttempts + crashes
    BY AttemptsAssumption DEF CrashTypeOK
  <2> SUFFICES ASSUME NEW t \in Sessions
               PROVE  /\ sessions'[t].attempts <= MaxAttempts + crashes
                      /\ sessions'[t].status = "AWAITING_PAIR" =>
                            sessions'[t].attempts < MaxAttempts + crashes
    BY <2>1 DEF AttemptsInv, IsOpen
  <2>3. CASE t = op.session
    <3>1. sessions'[t].attempts = 0
      BY <1>3, <2>3, StartInsertRows
    <3>2. 0 <= MaxAttempts + crashes
      BY AttemptsAssumption DEF CrashTypeOK
    <3> QED BY <2>2, <3>1, <3>2
  <2>4. CASE t # op.session
    BY <1>3, <2>1, <2>4, StartInsertRows DEF OnlyRow, AttemptsInv, IsOpen
  <2> QED BY <2>3, <2>4
<1>4. CASE StartReply
  <2>1. sessions' = sessions
    BY <1>4 DEF StartReply, rows
  <2>2. crashes' = crashes
    BY <1>4 DEF StartReply, Leave, rows
  <2>3. op.step # "lock session"
    BY <1>4, Zenon DEF StartReply, Leave, rows, Idle
  <2> QED BY <2>1, <2>2, <2>3, AttemptsStay DEF Uncharged, IsOpen
<1>5. ASSUME NEW s \in Sessions, ExpireSession(s) PROVE AttemptsInv'
  <2>1. crashes' = crashes /\ op.step = "idle" /\ IsOpen(s)
    BY <1>5 DEF ExpireSession, Enter, Idle
  <2>2. sessions[s].attempts \in Nat /\ MaxAttempts + crashes \in Nat
    BY AttemptsAssumption DEF CrashTypeOK, TypeOK, SessionRow
  <2>3. sessions[s].attempts < MaxAttempts + crashes
    BY <2>1 DEF AttemptsInv
  <2>4. /\ sessions'[s].attempts = sessions[s].attempts + 1 /\ sessions'[s].status = "EXPIRED"
        /\ \A t \in Sessions \ {s} : sessions'[t] = sessions[t]
    BY <1>5, ExpireSessionRows DEF ChargedRow, OnlyRow
  <2>5. \A n, m \in Nat : n < m => n + 1 <= m
    OBVIOUS
  <2>6. sessions'[s].attempts <= MaxAttempts + crashes
    BY <2>2, <2>3, <2>4, <2>5
  <2> QED BY <2>1, <2>4, <2>6 DEF AttemptsInv, IsOpen
<1>6. ASSUME NEW s \in Sessions, WrongPin(s) PROVE AttemptsInv'
  <2>1. crashes' = crashes /\ op.step = "idle" /\ IsOpen(s)
    BY <1>6 DEF WrongPin, Enter, Whole, Return, Leave, Idle
  <2>2. /\ sessions[s].attempts \in Nat /\ MaxAttempts + crashes \in Nat
        /\ MaxAttempts \in Nat /\ crashes \in Nat
    BY AttemptsAssumption DEF CrashTypeOK, TypeOK, SessionRow
  <2>3. sessions[s].attempts < MaxAttempts + crashes
    BY <2>1 DEF AttemptsInv
  <2>4. /\ sessions'[s].attempts = sessions[s].attempts + 1
        /\ \A t \in Sessions \ {s} : sessions'[t] = sessions[t]
    BY <1>6, WrongPinRows DEF ChargedRow, OnlyRow
  <2>5. \A n, m \in Nat : n < m => n + 1 <= m
    OBVIOUS
  <2>6. sessions'[s].attempts <= MaxAttempts + crashes
    BY <2>2, <2>3, <2>4, <2>5
  <2>7. sessions'[s].attempts < MaxAttempts + crashes \/ (op'.step = "lock session" /\ op'.session = s)
    <3>1. CASE TriedOut(s)
      <4>1. op' = [step |-> "lock session", agent |-> sessions[s].agent, session |-> s]
        BY <1>6, <3>1, Zenon DEF WrongPin, Enter
      <4> QED BY <4>1, Zenon
    <3>2. CASE ~TriedOut(s)
      <4>1. sessions'[s].attempts < MaxAttempts
        BY <3>2, <2>2, <2>4 DEF TriedOut
      <4>2. sessions'[s].attempts \in Nat
        BY <2>2, <2>4
      <4>3. \A k, n, m \in Nat : k < n => k < n + m
        OBVIOUS
      <4> QED BY <4>1, <4>2, <4>3, <2>2
    <3> QED BY <3>1, <3>2
  <2> QED BY <2>1, <2>4, <2>6, <2>7 DEF AttemptsInv, IsOpen
<1>7. ASSUME NEW s \in Sessions, PairSession(s) PROVE AttemptsInv'
  <2>1. \A t \in Sessions : Uncharged(t)
    BY <1>7, PairSessionRows DEF OnlyRow, Uncharged, IsOpen
  <2>2. crashes' = crashes
    BY <1>7 DEF PairSession, Enter
  <2>3. op.step # "lock session"
    BY <1>7, Zenon DEF PairSession, Enter, Idle
  <2> QED BY <2>1, <2>2, <2>3, AttemptsStay
<1>8. CASE AgentExpired
  <2>1. sessions' = sessions
    BY <1>8 DEF AgentExpired
  <2>2. crashes' = crashes
    BY <1>8 DEF AgentExpired, Return, Leave
  <2>3. op.step # "lock session"
    BY <1>8, Zenon DEF AgentExpired, Return, Leave, Idle
  <2> QED BY <2>1, <2>2, <2>3, AttemptsStay DEF Uncharged, IsOpen
<1>9. CASE LockSession
  <2>1. crashes' = crashes /\ op.step = "lock session" /\ op.session \in Sessions
    BY <1>9, LockSessionRows DEF LockSession, Step
  <2>2. \A t \in Sessions : /\ sessions'[t].attempts = sessions[t].attempts
                            /\ sessions'[t].status = "AWAITING_PAIR" => IsOpen(t) /\ t # op.session
    BY <1>9, <2>1, LockSessionRows DEF QuietRows, QuietSession, IsOpen
  <2> QED BY <2>1, <2>2 DEF AttemptsInv, IsOpen
<1>10. CASE PairAgent
  <2>1. sessions' = sessions
    BY <1>10 DEF PairAgent
  <2>2. crashes' = crashes
    BY <1>10 DEF PairAgent, Step
  <2>3. op.step # "lock session"
    BY <1>10, Zenon DEF PairAgent, Step, Idle
  <2> QED BY <2>1, <2>2, <2>3, AttemptsStay DEF Uncharged, IsOpen
<1>11. CASE StoreSecret
  <2>1. \A t \in Sessions : Uncharged(t)
    BY <1>11, StoreSecretRows DEF OnlyRow, Uncharged, IsOpen
  <2>2. crashes' = crashes
    BY <1>11 DEF StoreSecret, Step
  <2>3. op.step # "lock session"
    BY <1>11, Zenon DEF StoreSecret, Step, Idle
  <2> QED BY <2>1, <2>2, <2>3, AttemptsStay
<1>12. CASE PairReply
  <2>1. sessions' = sessions
    BY <1>12 DEF PairReply
  <2>2. crashes' = crashes
    BY <1>12 DEF PairReply, Leave
  <2>3. op.step # "lock session"
    BY <1>12, Zenon DEF PairReply, Leave, Idle
  <2> QED BY <2>1, <2>2, <2>3, AttemptsStay DEF Uncharged, IsOpen
<1>13. ASSUME NEW a \in Agents, PollExpire(a) PROVE AttemptsInv'
  <2>1. \A t \in Sessions : Uncharged(t)
    BY <1>13, PollExpireRows DEF QuietRows, QuietSession, Uncharged, IsOpen
  <2>2. crashes' = crashes
    BY <1>13 DEF PollExpire, Enter, Whole, Return, Leave
  <2>3. op.step # "lock session"
    BY <1>13, Zenon DEF PollExpire, Enter, Whole, Return, Leave, Idle
  <2> QED BY <2>1, <2>2, <2>3, AttemptsStay
<1>14. ASSUME NEW a \in Agents, RevokeCredentials(a) PROVE AttemptsInv'
  <2>1. sessions' = sessions
    BY <1>14 DEF RevokeCredentials
  <2>2. crashes' = crashes
    BY <1>14 DEF RevokeCredentials, Enter
  <2>3. op.step # "lock session"
    BY <1>14, Zenon DEF RevokeCredentials, Enter, Idle
  <2> QED BY <2>1, <2>2, <2>3, AttemptsStay DEF Uncharged, IsOpen
<1>15. ASSUME NEW a \in Agents, RegisterAgent(a) PROVE AttemptsInv'
  <2>1. sessions' = sessions
    BY <1>15 DEF RegisterAgent
  <2>2. crashes' = crashes
    BY <1>15 DEF RegisterAgent, Enter
  <2>3. op.step # "lock session"
    BY <1>15, Zenon DEF RegisterAgent, Enter, Idle
  <2> QED BY <2>1, <2>2, <2>3, AttemptsStay DEF Uncharged, IsOpen
<1>16. CASE PollToken
  <2>1. \A t \in Sessions : Uncharged(t)
    BY <1>16, PollTokenRows DEF QuietRows, QuietSession, Uncharged, IsOpen
  <2>2. crashes' = crashes
    BY <1>16 DEF PollToken, Return, Leave
  <2>3. op.step # "lock session"
    BY <1>16, Zenon DEF PollToken, Return, Leave, Idle
  <2> QED BY <2>1, <2>2, <2>3, AttemptsStay
<1>17. ASSUME NEW a \in Agents, NEW t \in 1 .. tokens, ActivateCredential(a, t) PROVE AttemptsInv'
  <2>1. sessions' = sessions
    BY <1>17 DEF ActivateCredential
  <2>2. crashes' = crashes
    BY <1>17 DEF ActivateCredential, Enter
  <2>3. op.step # "lock session"
    BY <1>17, Zenon DEF ActivateCredential, Enter, Idle
  <2> QED BY <2>1, <2>2, <2>3, AttemptsStay DEF Uncharged, IsOpen
<1>18. CASE ActivateAgent
  <2>1. sessions' = sessions
    BY <1>18 DEF ActivateAgent
  <2>2. crashes' = crashes
    BY <1>18 DEF ActivateAgent, Step
  <2>3. op.step # "lock session"
    BY <1>18, Zenon DEF ActivateAgent, Step, Idle
  <2> QED BY <2>1, <2>2, <2>3, AttemptsStay DEF Uncharged, IsOpen
<1>19. CASE ActivateSession
  <2>1. \A t \in Sessions : Uncharged(t)
    BY <1>19, ActivateSessionRows DEF OnlyRow, Uncharged, IsOpen
  <2>2. crashes' = crashes
    BY <1>19 DEF ActivateSession, Step
  <2>3. op.step # "lock session"
    BY <1>19, Zenon DEF ActivateSession, Step, Idle
  <2> QED BY <2>1, <2>2, <2>3, AttemptsStay
<1>20. CASE ActivateReply
  <2>1. sessions' = sessions
    BY <1>20 DEF ActivateReply
  <2>2. crashes' = crashes
    BY <1>20 DEF ActivateReply, Return, Leave
  <2>3. op.step # "lock session"
    BY <1>20, Zenon DEF ActivateReply, Return, Leave, Idle
  <2> QED BY <2>1, <2>2, <2>3, AttemptsStay DEF Uncharged, IsOpen
<1>21. CASE RevokeAgent
  <2>1. sessions' = sessions
    BY <1>21 DEF RevokeAgent
  <2>2. crashes' = crashes
    BY <1>21 DEF RevokeAgent, Return, Leave
  <2>3. op.step # "lock session"
    BY <1>21, Zenon DEF RevokeAgent, Return, Leave, Idle
  <2> QED BY <2>1, <2>2, <2>3, AttemptsStay DEF Uncharged, IsOpen
<1>22. CASE RegisterReply
  <2>1. sessions' = sessions
    BY <1>22 DEF RegisterReply
  <2>2. crashes' = crashes
    BY <1>22 DEF RegisterReply, Return, Leave
  <2>3. op.step # "lock session"
    BY <1>22, Zenon DEF RegisterReply, Return, Leave, Idle
  <2> QED BY <2>1, <2>2, <2>3, AttemptsStay DEF Uncharged, IsOpen
<1>23. CASE ClockTick
  <2>1. sessions' = sessions
    BY <1>23 DEF ClockTick, Tick
  <2>2. crashes' = crashes
    BY <1>23 DEF ClockTick, Whole, Return, Leave, Tick
  <2>3. op.step # "lock session"
    BY <1>23, Zenon DEF ClockTick, Whole, Return, Leave, Tick, Idle
  <2> QED BY <2>1, <2>2, <2>3, AttemptsStay DEF Uncharged, IsOpen
<1>24. CASE Crash
  <2>1. sessions' = sessions
    BY <1>24 DEF Crash, rows
  <2>2. crashes' = crashes + 1
    BY <1>24, Zenon DEF Crash
  <2>3. \A t \in Sessions : sessions[t].attempts \in Nat
    BY DEF CrashTypeOK, TypeOK, SessionRow
  <2>4. MaxAttempts + crashes \in Nat /\ MaxAttempts + crashes' = (MaxAttempts + crashes) + 1
    BY <2>2, AttemptsAssumption DEF CrashTypeOK
  <2> SUFFICES ASSUME NEW t \in Sessions
               PROVE  /\ sessions'[t].attempts <= MaxAttempts + crashes'
                      /\ sessions'[t].attempts < MaxAttempts + crashes'
    BY DEF AttemptsInv
  <2>5. sessions[t].attempts <= MaxAttempts + crashes
    BY DEF AttemptsInv
  <2> HIDE DEF AttemptsInv
  <2> QED BY <2>1, <2>3, <2>4, <2>5
<1>25. CASE UNCHANGED allVars
  BY <1>25 DEF allVars, rows, AttemptsInv, IsOpen
<1> QED BY <1>1, <1>2, <1>3, <1>4, <1>5, <1>6, <1>7, <1>8, <1>9, <1>10, <1>11, <1>12, <1>13,
           <1>14, <1>15, <1>16, <1>17, <1>18, <1>19, <1>20, <1>21, <1>22, <1>23, <1>24, <1>25
         DEF CrashNext

(* Every statement keeps the account of what was returned.                  *)
LEMMA NextHanded ==
    ASSUME CrashTypeOK, OpInv, HandedInv, [CrashNext]_allVars
    PROVE  HandedInv'
<1>1. ASSUME NEW a \in Agents, NEW s \in Sessions, StartAgent(a, s) PROVE HandedInv'
  <2>1. sessions' = sessions /\ given' = given
    BY <1>1 DEF StartAgent
  <2> QED BY <2>1 DEF HandedInv
<1>2. CASE StartExpire
  <2>1. \A t \in Sessions : QuietSession(t)
    BY <1>2, StartExpireRows DEF QuietRows
  <2>2. given' = given
    BY <1>2, Zenon DEF StartExpire
  <2> QED BY <2>1, <2>2 DEF QuietSession, HandedInv, IsOpen
<1>3. CASE StartInsert
  <2>1. op.step = "start insert" /\ given' = given
    BY <1>3 DEF StartInsert, Step
  <2>2. op.session \in Sessions /\ sessions[op.session].status = "FREE"
    BY <2>1 DEF OpInv
  <2> QED BY <1>3, <2>1, <2>2, StartInsertRows DEF OnlyRow, HandedInv
<1>4. CASE StartReply
  <2>1. sessions' = sessions /\ given' = given
    BY <1>4 DEF StartReply, rows
  <2> QED BY <2>1 DEF HandedInv
<1>5. ASSUME NEW s \in Sessions, ExpireSession(s) PROVE HandedInv'
  <2>1. \A t \in Sessions : QuietSession(t)
    BY <1>5, ExpireSessionRows DEF ChargedRow, OnlyRow, QuietSession
  <2>2. given' = given
    BY <1>5 DEF ExpireSession
  <2> QED BY <2>1, <2>2 DEF QuietSession, HandedInv, IsOpen
<1>6. ASSUME NEW s \in Sessions, WrongPin(s) PROVE HandedInv'
  <2>1. \A t \in Sessions : QuietSession(t)
    BY <1>6, WrongPinRows DEF ChargedRow, OnlyRow, QuietSession
  <2>2. given' = given
    BY <1>6 DEF WrongPin
  <2> QED BY <2>1, <2>2 DEF QuietSession, HandedInv, IsOpen
<1>7. ASSUME NEW s \in Sessions, PairSession(s) PROVE HandedInv'
  BY <1>7, PairSessionRows DEF PairSession, OnlyRow, HandedInv
<1>8. CASE AgentExpired
  <2>1. sessions' = sessions /\ given' = given
    BY <1>8 DEF AgentExpired
  <2> QED BY <2>1 DEF HandedInv
<1>9. CASE LockSession
  <2>1. \A t \in Sessions : QuietSession(t)
    BY <1>9, LockSessionRows DEF QuietRows
  <2>2. given' = given
    BY <1>9, Zenon DEF LockSession
  <2> QED BY <2>1, <2>2 DEF QuietSession, HandedInv, IsOpen
<1>10. CASE PairAgent
  <2>1. sessions' = sessions /\ given' = given
    BY <1>10 DEF PairAgent
  <2> QED BY <2>1 DEF HandedInv
<1>11. CASE StoreSecret
  <2>1. given' = given
    BY <1>11, Zenon DEF StoreSecret
  <2> QED BY <1>11, <2>1, StoreSecretRows DEF OnlyRow, HandedInv
<1>12. CASE PairReply
  <2>1. op.step = "pair reply" /\ sessions' = sessions
    BY <1>12 DEF PairReply
  <2>2. op.session \in Sessions /\ sessions[op.session].status = "PAIRED" /\ given[op.session].client = 0
    BY <2>1 DEF OpInv, PairedOf, Of, Pairing3
  <2>3. /\ given'[op.session].client = 1 /\ given'[op.session].agent = given[op.session].agent
        /\ \A t \in Sessions \ {op.session} : given'[t] = given[t]
    <3>1. given \in [Sessions -> [client : Nat, agent : Nat]]
      BY DEF CrashTypeOK, TypeOK
    <3>2. given' = [given EXCEPT ![op.session] = [given[op.session] EXCEPT !.client = given[op.session].client + 1]]
      BY <1>12, <2>2, <3>1, Zenon DEF PairReply
    <3>3. [given[op.session] EXCEPT !.client = given[op.session].client + 1].client = 1
      BY <2>2, <3>1
    <3>4. [given[op.session] EXCEPT !.client = given[op.session].client + 1].agent = given[op.session].agent
      BY <2>2, <3>1
    <3> QED BY <2>2, <3>1, <3>2, <3>3, <3>4, Zenon
  <2> QED BY <2>1, <2>2, <2>3 DEF HandedInv
<1>13. ASSUME NEW a \in Agents, PollExpire(a) PROVE HandedInv'
  <2>1. \A t \in Sessions : QuietSession(t)
    BY <1>13, PollExpireRows DEF QuietRows
  <2>2. given' = given
    BY <1>13, Zenon DEF PollExpire
  <2> QED BY <2>1, <2>2 DEF QuietSession, HandedInv, IsOpen
<1>14. ASSUME NEW a \in Agents, RevokeCredentials(a) PROVE HandedInv'
  <2>1. sessions' = sessions /\ given' = given
    BY <1>14 DEF RevokeCredentials
  <2> QED BY <2>1 DEF HandedInv
<1>15. ASSUME NEW a \in Agents, RegisterAgent(a) PROVE HandedInv'
  <2>1. sessions' = sessions /\ given' = given
    BY <1>15 DEF RegisterAgent
  <2> QED BY <2>1 DEF HandedInv
<1>16. CASE PollToken
  <2>1. \A t \in Sessions : QuietSession(t)
    BY <1>16, PollTokenRows DEF QuietRows
  <2>2. given' = given
    BY <1>16, Zenon DEF PollToken
  <2> QED BY <2>1, <2>2 DEF QuietSession, HandedInv, IsOpen
<1>17. ASSUME NEW a \in Agents, NEW t \in 1 .. tokens, ActivateCredential(a, t) PROVE HandedInv'
  <2>1. sessions' = sessions /\ given' = given
    BY <1>17 DEF ActivateCredential
  <2> QED BY <2>1 DEF HandedInv
<1>18. CASE ActivateAgent
  <2>1. sessions' = sessions /\ given' = given
    BY <1>18 DEF ActivateAgent
  <2> QED BY <2>1 DEF HandedInv
<1>19. CASE ActivateSession
  <2>1. sessions[op.session].status = "PAIRED"
    BY <1>19 DEF ActivateSession, Step, OpInv, Activating, PairedOf
  <2> QED BY <1>19, <2>1, ActivateSessionRows DEF ActivateSession, OnlyRow, HandedInv
<1>20. CASE ActivateReply
  <2>1. op.step = "activate reply" /\ sessions' = sessions
    BY <1>20 DEF ActivateReply
  <2>2. op.session \in Sessions /\ sessions[op.session].delivered /\ given[op.session].agent = 0
    BY <2>1 DEF OpInv, PairedOf, Of, Activating
  <2>3. /\ given'[op.session].agent = 1 /\ given'[op.session].client = given[op.session].client
        /\ \A t \in Sessions \ {op.session} : given'[t] = given[t]
    <3>1. given \in [Sessions -> [client : Nat, agent : Nat]]
      BY DEF CrashTypeOK, TypeOK
    <3>2. given' = [given EXCEPT ![op.session] = [given[op.session] EXCEPT !.agent = given[op.session].agent + 1]]
      BY <1>20, <2>2, <3>1, Zenon DEF ActivateReply
    <3>3. [given[op.session] EXCEPT !.agent = given[op.session].agent + 1].agent = 1
      BY <2>2, <3>1
    <3>4. [given[op.session] EXCEPT !.agent = given[op.session].agent + 1].client = given[op.session].client
      BY <2>2, <3>1
    <3> QED BY <2>2, <3>1, <3>2, <3>3, <3>4, Zenon
  <2> QED BY <2>1, <2>2, <2>3 DEF HandedInv
<1>21. CASE RevokeAgent
  <2>1. sessions' = sessions /\ given' = given
    BY <1>21 DEF RevokeAgent
  <2> QED BY <2>1 DEF HandedInv
<1>22. CASE RegisterReply
  <2>1. sessions' = sessions /\ given' = given
    BY <1>22 DEF RegisterReply
  <2> QED BY <2>1 DEF HandedInv
<1>23. CASE ClockTick
  <2>1. sessions' = sessions /\ given' = given
    BY <1>23 DEF ClockTick, Tick
  <2> QED BY <2>1 DEF HandedInv
<1>24. CASE Crash
  <2>1. sessions' = sessions /\ given' = given
    BY <1>24 DEF Crash, rows
  <2> QED BY <2>1 DEF HandedInv
<1>25. CASE UNCHANGED allVars
  <2>1. sessions' = sessions /\ given' = given
    BY <1>25 DEF allVars, rows
  <2> QED BY <2>1 DEF HandedInv
<1> QED BY <1>1, <1>2, <1>3, <1>4, <1>5, <1>6, <1>7, <1>8, <1>9, <1>10, <1>11, <1>12, <1>13,
           <1>14, <1>15, <1>16, <1>17, <1>18, <1>19, <1>20, <1>21, <1>22, <1>23, <1>24, <1>25
         DEF CrashNext

(* Nothing has happened yet.                                                *)
LEMMA InitSafe == CrashInit => SafeInv
<1> SUFFICES ASSUME CrashInit PROVE SafeInv
  OBVIOUS
<1>1. Init /\ op = IdleOp /\ crashes = 0 /\ shown = {} /\ damaged = {}
  BY DEF CrashInit
<1>2. TypeOK
  BY <1>1, InitTypeOK
<1>3. op.step = "idle" /\ op \in OpRow
  <2>1. "idle" \in Steps
    BY DEF Steps
  <2> QED BY <1>1, <2>1, OpRowType, Zenon DEF IdleOp
<1>4. CrashTypeOK
  BY <1>1, <1>2, <1>3 DEF CrashTypeOK
<1>5. \A s \in Sessions :
        /\ sessions[s].agent = NoAgent
        /\ sessions[s].status = "FREE"
        /\ sessions[s].attempts = 0
        /\ sessions[s].delivered = FALSE
        /\ given[s] = [client |-> 0, agent |-> 0]
  BY <1>1, Zenon DEF Init, BlankRow
<1>6. Owned /\ OneOpenSession /\ HandedInv
  BY <1>5, NoAgentAssumption DEF Owned, OneOpenSession, HandedInv, Of
<1>7. AttemptsInv
  <2>1. 0 <= MaxAttempts + crashes
    BY <1>1, AttemptsAssumption
  <2> QED BY <1>5, <2>1 DEF AttemptsInv, IsOpen
<1>8. OpInv
  BY <1>3, Zenon DEF OpInv, Idle, Pairing3, Activating
<1> QED BY <1>4, <1>6, <1>7, <1>8 DEF SafeInv

(* What is safe at one statement is safe at the next.                       *)
LEMMA NextSafe == SafeInv /\ [CrashNext]_allVars => SafeInv'
BY NextCrashType, NextOwned, NextOp, NextOneOpen, NextAttemptsInv, NextHanded DEF SafeInv

(* The statements keep SafeInv, wherever the server stops.                  *)
THEOREM SafeAtEveryStatement == CrashSpec => []SafeInv
BY InitSafe, NextSafe, PTL DEF CrashSpec

(* Between any two statements, and after any crash, at most one session of  *)
(* an agent can still be paired.                                            *)
THEOREM OneOpenAtStatements == CrashSpec => []OneOpenSession
<1>1. SafeInv => OneOpenSession
  BY DEF SafeInv
<1> QED BY <1>1, SafeAtEveryStatement, PTL

(* A crash before the reply loses a secret, but never has it returned       *)
(* twice.                                                                   *)
THEOREM HandedOutOnceWithCrashes == CrashSpec => []SecretHandedOutOnce
<1>1. SafeInv => SecretHandedOutOnce
  BY DEF SafeInv, HandedInv, SecretHandedOutOnce
<1> QED BY <1>1, SafeAtEveryStatement, PTL

(* A crash gives a session at most one more wrong PIN.                      *)
THEOREM AttemptsBoundedByCrashes == CrashSpec => []AttemptsWithCrashes
<1>1. SafeInv => AttemptsWithCrashes
  BY DEF SafeInv, AttemptsInv, AttemptsWithCrashes, Idle
<1> QED BY <1>1, SafeAtEveryStatement, PTL

-----------------------------------------------------------------------------
(* The part that needs the sessions of an agent to start in different       *)
(* seconds.                                                                 *)

(* No session opens, changes hands or is started again.                     *)
SamePlace(t) == SameOwner(t) /\ (sessions'[t].status = "AWAITING_PAIR" => IsOpen(t))

(* Then created_at orders them as before.                                   *)
LEMMA OrderedStays ==
    ASSUME CrashTypeOK, Ordered, now' = now \/ now' = now + 1, \A t \in Sessions : SamePlace(t)
    PROVE  Ordered'
<1>1. \A t \in Sessions : sessions[t].created \in Nat
  BY DEF CrashTypeOK, TypeOK, SessionRow
<1>2. now \in Nat /\ now' \in Nat /\ now <= now'
  BY DEF CrashTypeOK, TypeOK
<1> SUFFICES ASSUME NEW s \in Sessions, NEW t \in Sessions, sessions'[s].agent # NoAgent
             PROVE  /\ sessions'[s].created <= now'
                    /\ sessions'[s].agent = sessions'[t].agent /\ s # t =>
                         /\ sessions'[s].created # sessions'[t].created
                         /\ sessions'[s].status = "AWAITING_PAIR" =>
                              sessions'[t].created < sessions'[s].created
  BY DEF Ordered, IsOpen
<1>3. SamePlace(s) /\ SamePlace(t)
  OBVIOUS
<1> QED BY <1>1, <1>2, <1>3 DEF SamePlace, SameOwner, Ordered, IsOpen

(* Every statement keeps the sessions of an agent ordered.                  *)
LEMMA NextOrdered ==
    ASSUME CrashTypeOK, OpInv, Ordered, OrderOp, [CrashNext]_allVars
    PROVE  Ordered'
<1>0. now \in Nat
  BY DEF CrashTypeOK, TypeOK
<1>1. ASSUME NEW a \in Agents, NEW s \in Sessions, StartAgent(a, s) PROVE Ordered'
  <2>1. sessions' = sessions /\ now' = now
    BY <1>1 DEF StartAgent
  <2> QED BY <2>1, OrderedStays DEF SamePlace, SameOwner, IsOpen
<1>2. CASE StartExpire
  <2>1. \A t \in Sessions : SamePlace(t)
    BY <1>2, StartExpireRows DEF QuietRows, QuietSession, SamePlace, SameOwner, IsOpen
  <2>2. now' = now
    BY <1>2 DEF StartExpire
  <2> QED BY <2>1, <2>2, OrderedStays
<1>3. CASE StartInsert
  <2>1. op.step = "start insert" /\ now' = now /\ op.agent \in Agents
    BY <1>3 DEF StartInsert, Step, OpInv, Idle
  <2>2. \A t \in Sessions : sessions[t].agent = op.agent =>
          sessions[t].status # "AWAITING_PAIR" /\ sessions[t].created < now
    BY <2>1 DEF OpInv, OrderOp, Of, IsOpen
  <2>3. \A t \in Sessions : sessions[t].created \in Nat
    BY DEF CrashTypeOK, TypeOK, SessionRow
  <2> SUFFICES ASSUME NEW s \in Sessions, NEW t \in Sessions, sessions'[s].agent # NoAgent
               PROVE  /\ sessions'[s].created <= now
                      /\ sessions'[s].agent = sessions'[t].agent /\ s # t =>
                           /\ sessions'[s].created # sessions'[t].created
                           /\ sessions'[s].status = "AWAITING_PAIR" =>
                                sessions'[t].created < sessions'[s].created
    BY <2>1 DEF Ordered, IsOpen
  <2>4. CASE s = op.session /\ t = op.session
    BY <1>3, <1>0, <2>4, StartInsertRows
  <2>5. CASE s = op.session /\ t # op.session
    <3>1. sessions'[s].agent = op.agent /\ sessions'[s].created = now /\ sessions'[t] = sessions[t]
      BY <1>3, <2>5, StartInsertRows DEF OnlyRow
    <3> QED BY <1>0, <2>2, <2>3, <3>1
  <2>6. CASE s # op.session /\ t = op.session
    <3>1. /\ sessions'[t].agent = op.agent /\ sessions'[t].created = now
          /\ sessions'[s] = sessions[s]
      BY <1>3, <2>6, StartInsertRows DEF OnlyRow
    <3>2. sessions[s].created <= now
      BY <3>1 DEF Ordered
    <3> QED BY <1>0, <2>2, <2>3, <3>1, <3>2
  <2>7. CASE s # op.session /\ t # op.session
    <3>1. sessions'[s] = sessions[s] /\ sessions'[t] = sessions[t]
      BY <1>3, <2>7, StartInsertRows DEF OnlyRow
    <3> QED BY <3>1 DEF Ordered, IsOpen
  <2> QED BY <2>4, <2>5, <2>6, <2>7
<1>4. CASE StartReply
  <2>1. sessions' = sessions /\ now' = now
    BY <1>4 DEF StartReply, rows
  <2> QED BY <2>1, OrderedStays DEF SamePlace, SameOwner, IsOpen
<1>5. ASSUME NEW s \in Sessions, ExpireSession(s) PROVE Ordered'
  <2>1. \A t \in Sessions : SamePlace(t)
    BY <1>5, ExpireSessionRows DEF ChargedRow, OnlyRow, QuietSession, SamePlace, SameOwner, IsOpen
  <2>2. now' = now
    BY <1>5 DEF ExpireSession
  <2> QED BY <2>1, <2>2, OrderedStays
<1>6. ASSUME NEW s \in Sessions, WrongPin(s) PROVE Ordered'
  <2>1. \A t \in Sessions : SamePlace(t)
    BY <1>6, WrongPinRows DEF ChargedRow, OnlyRow, QuietSession, SamePlace, SameOwner, IsOpen
  <2>2. now' = now
    BY <1>6 DEF WrongPin
  <2> QED BY <2>1, <2>2, OrderedStays
<1>7. ASSUME NEW s \in Sessions, PairSession(s) PROVE Ordered'
  <2>1. \A t \in Sessions : SamePlace(t)
    BY <1>7, PairSessionRows DEF OnlyRow, SamePlace, SameOwner, IsOpen
  <2>2. now' = now
    BY <1>7 DEF PairSession
  <2> QED BY <2>1, <2>2, OrderedStays
<1>8. CASE AgentExpired
  <2>1. sessions' = sessions /\ now' = now
    BY <1>8 DEF AgentExpired
  <2> QED BY <2>1, OrderedStays DEF SamePlace, SameOwner, IsOpen
<1>9. CASE LockSession
  <2>1. \A t \in Sessions : SamePlace(t)
    BY <1>9, LockSessionRows DEF QuietRows, QuietSession, SamePlace, SameOwner, IsOpen
  <2>2. now' = now
    BY <1>9 DEF LockSession
  <2> QED BY <2>1, <2>2, OrderedStays
<1>10. CASE PairAgent
  <2>1. sessions' = sessions /\ now' = now
    BY <1>10 DEF PairAgent
  <2> QED BY <2>1, OrderedStays DEF SamePlace, SameOwner, IsOpen
<1>11. CASE StoreSecret
  <2>1. \A t \in Sessions : SamePlace(t)
    BY <1>11, StoreSecretRows DEF OnlyRow, SamePlace, SameOwner, IsOpen
  <2>2. now' = now
    BY <1>11 DEF StoreSecret
  <2> QED BY <2>1, <2>2, OrderedStays
<1>12. CASE PairReply
  <2>1. sessions' = sessions /\ now' = now
    BY <1>12 DEF PairReply
  <2> QED BY <2>1, OrderedStays DEF SamePlace, SameOwner, IsOpen
<1>13. ASSUME NEW a \in Agents, PollExpire(a) PROVE Ordered'
  <2>1. \A t \in Sessions : SamePlace(t)
    BY <1>13, PollExpireRows DEF QuietRows, QuietSession, SamePlace, SameOwner, IsOpen
  <2>2. now' = now
    BY <1>13 DEF PollExpire
  <2> QED BY <2>1, <2>2, OrderedStays
<1>14. ASSUME NEW a \in Agents, RevokeCredentials(a) PROVE Ordered'
  <2>1. sessions' = sessions /\ now' = now
    BY <1>14 DEF RevokeCredentials
  <2> QED BY <2>1, OrderedStays DEF SamePlace, SameOwner, IsOpen
<1>15. ASSUME NEW a \in Agents, RegisterAgent(a) PROVE Ordered'
  <2>1. sessions' = sessions /\ now' = now
    BY <1>15 DEF RegisterAgent
  <2> QED BY <2>1, OrderedStays DEF SamePlace, SameOwner, IsOpen
<1>16. CASE PollToken
  <2>1. \A t \in Sessions : SamePlace(t)
    BY <1>16, PollTokenRows DEF QuietRows, QuietSession, SamePlace, SameOwner, IsOpen
  <2>2. now' = now
    BY <1>16 DEF PollToken
  <2> QED BY <2>1, <2>2, OrderedStays
<1>17. ASSUME NEW a \in Agents, NEW t \in 1 .. tokens, ActivateCredential(a, t) PROVE Ordered'
  <2>1. sessions' = sessions /\ now' = now
    BY <1>17 DEF ActivateCredential
  <2> QED BY <2>1, OrderedStays DEF SamePlace, SameOwner, IsOpen
<1>18. CASE ActivateAgent
  <2>1. sessions' = sessions /\ now' = now
    BY <1>18 DEF ActivateAgent
  <2> QED BY <2>1, OrderedStays DEF SamePlace, SameOwner, IsOpen
<1>19. CASE ActivateSession
  <2>1. \A t \in Sessions : SamePlace(t)
    BY <1>19, ActivateSessionRows DEF OnlyRow, SamePlace, SameOwner, IsOpen
  <2>2. now' = now
    BY <1>19 DEF ActivateSession
  <2> QED BY <2>1, <2>2, OrderedStays
<1>20. CASE ActivateReply
  <2>1. sessions' = sessions /\ now' = now
    BY <1>20 DEF ActivateReply
  <2> QED BY <2>1, OrderedStays DEF SamePlace, SameOwner, IsOpen
<1>21. CASE RevokeAgent
  <2>1. sessions' = sessions /\ now' = now
    BY <1>21 DEF RevokeAgent
  <2> QED BY <2>1, OrderedStays DEF SamePlace, SameOwner, IsOpen
<1>22. CASE RegisterReply
  <2>1. sessions' = sessions /\ now' = now
    BY <1>22 DEF RegisterReply
  <2> QED BY <2>1, OrderedStays DEF SamePlace, SameOwner, IsOpen
<1>23. CASE ClockTick
  <2>1. sessions' = sessions /\ now' = now + 1
    BY <1>23 DEF ClockTick, Tick
  <2> QED BY <2>1, OrderedStays DEF SamePlace, SameOwner, IsOpen
<1>24. CASE Crash
  <2>1. sessions' = sessions /\ now' = now
    BY <1>24 DEF Crash, rows
  <2> QED BY <2>1, OrderedStays DEF SamePlace, SameOwner, IsOpen
<1>25. CASE UNCHANGED allVars
  <2>1. sessions' = sessions /\ now' = now
    BY <1>25 DEF allVars, rows
  <2> QED BY <2>1, OrderedStays DEF SamePlace, SameOwner, IsOpen
<1> QED BY <1>1, <1>2, <1>3, <1>4, <1>5, <1>6, <1>7, <1>8, <1>9, <1>10, <1>11, <1>12, <1>13,
           <1>14, <1>15, <1>16, <1>17, <1>18, <1>19, <1>20, <1>21, <1>22, <1>23, <1>24, <1>25
         DEF CrashNext

(* Between handlers there is nothing to keep,                               *)
LEMMA OrderAtRest == ASSUME op' = IdleOp PROVE OrderOp' /\ WroteOp'
<1>1. op'.step = "idle"
  BY Zenon DEF IdleOp
<1> QED BY <1>1, Zenon DEF OrderOp, WroteOp, Pairing3, Activating

(* and so is the place of the session a handler is at.                      *)
LEMMA NextOrderOp ==
    ASSUME ~SameSecond, CrashTypeOK, OpInv, Owned, Ordered, OrderOp, [CrashNext]_allVars
    PROVE  OrderOp'
<1>1. ASSUME NEW a \in Agents, NEW s \in Sessions, StartAgent(a, s) PROVE OrderOp'
  <2>1. op'.step = "start expire" /\ op'.agent = a /\ op'.session = s
    BY <1>1, Zenon DEF StartAgent, Enter
  <2>2. sessions' = sessions /\ now' = now /\ \A t \in Of(a) : sessions[t].created < now
    BY <1>1 DEF StartAgent
  <2> QED BY <2>1, <2>2 DEF OrderOp, Pairing3, Activating, Of
<1>2. CASE StartExpire
  <2>1. /\ op.step = "start expire" /\ op'.step = "start insert"
        /\ op'.agent = op.agent /\ op'.session = op.session
    BY <1>2, StepOn DEF StartExpire
  <2>2. now' = now /\ \A t \in Sessions : SameOwner(t)
    BY <1>2, StartExpireRows DEF StartExpire, QuietRows, QuietSession, SameOwner
  <2> QED BY <2>1, <2>2 DEF OrderOp, Pairing3, Activating, Of, SameOwner
<1>3. CASE StartInsert
  <2>1. /\ op.step = "start insert" /\ op'.step = "start reply"
        /\ op'.agent = op.agent /\ op'.session = op.session
    BY <1>3, StepOn DEF StartInsert
  <2> QED BY <2>1, Zenon DEF OrderOp, Pairing3, Activating, Of
<1>4. CASE StartReply
  <2>1. op' = IdleOp
    BY <1>4, Zenon DEF StartReply, Leave, rows
  <2> QED BY <2>1, OrderAtRest
<1>5. ASSUME NEW s \in Sessions, ExpireSession(s) PROVE OrderOp'
  <2>1. op'.step = "expire agent" /\ op'.agent = sessions[s].agent /\ op'.session = s
    BY <1>5, Zenon DEF ExpireSession, Enter
  <2> QED BY <2>1, Zenon DEF OrderOp, Pairing3, Activating, Of
<1>6. ASSUME NEW s \in Sessions, WrongPin(s) PROVE OrderOp'
  <2>1. CASE op' = IdleOp
    BY <2>1, OrderAtRest
  <2>2. CASE op' # IdleOp
    <3>1. op' = [step |-> "lock session", agent |-> sessions[s].agent, session |-> s]
      BY <1>6, <2>2, Zenon DEF WrongPin, Enter, Whole, Return, Leave
    <3>2. op'.step = "lock session"
      BY <3>1, Zenon
    <3> QED BY <3>2, Zenon DEF OrderOp, Pairing3, Activating, Of
  <2> QED BY <2>1, <2>2
<1>7. ASSUME NEW s \in Sessions, PairSession(s) PROVE OrderOp'
  <2>1. op'.step = "pair agent" /\ op'.agent = sessions[s].agent /\ op'.session = s
    BY <1>7, Zenon DEF PairSession, Enter
  <2>2. IsOpen(s) /\ sessions[s].agent # NoAgent
    BY <1>7 DEF PairSession, IsOpen, Owned
  <2>3. \A t \in Sessions : sessions[t].created \in Nat
    BY DEF CrashTypeOK, TypeOK, SessionRow
  <2>4. \A t \in Sessions : sessions[t].agent = sessions[s].agent => sessions[t].created <= sessions[s].created
    <3> TAKE t \in Sessions
    <3>1. CASE t = s
      BY <2>3, <3>1
    <3>2. CASE t # s
      BY <2>2, <2>3, <3>2 DEF Ordered
    <3> QED BY <3>1, <3>2
  <2>5. \A t \in Sessions : SameOwner(t)
    BY <1>7, PairSessionRows DEF OnlyRow, SameOwner
  <2> QED BY <2>1, <2>4, <2>5 DEF OrderOp, Pairing3, Activating, Of, SameOwner
<1>8. CASE AgentExpired
  <2>1. op' = IdleOp
    BY <1>8, Zenon DEF AgentExpired, Return, Leave
  <2> QED BY <2>1, OrderAtRest
<1>9. CASE LockSession
  <2>1. /\ op.step = "lock session" /\ op'.step = "lock agent"
        /\ op'.agent = op.agent /\ op'.session = op.session
    BY <1>9, StepOn DEF LockSession
  <2> QED BY <2>1, Zenon DEF OrderOp, Pairing3, Activating, Of
<1>10. CASE PairAgent
  <2>1. /\ op.step = "pair agent" /\ op'.step = "pair session"
        /\ op'.agent = op.agent /\ op'.session = op.session
    BY <1>10, StepOn DEF PairAgent
  <2>2. sessions' = sessions
    BY <1>10 DEF PairAgent
  <2> QED BY <2>1, <2>2 DEF OrderOp, Pairing3, Activating, Of
<1>11. CASE StoreSecret
  <2>1. /\ op.step = "pair session" /\ op'.step = "pair reply"
        /\ op'.agent = op.agent /\ op'.session = op.session
    BY <1>11, StepOn DEF StoreSecret
  <2>2. op.session \in Sessions /\ \A t \in Sessions : SameOwner(t)
    BY <1>11, StoreSecretRows DEF OnlyRow, SameOwner
  <2> QED BY <2>1, <2>2 DEF OrderOp, Pairing3, Activating, Of, SameOwner
<1>12. CASE PairReply
  <2>1. op' = IdleOp
    BY <1>12, Zenon DEF PairReply, Leave
  <2> QED BY <2>1, OrderAtRest
<1>13. ASSUME NEW a \in Agents, PollExpire(a) PROVE OrderOp'
  <2>1. CASE op' = IdleOp
    BY <2>1, OrderAtRest
  <2>2. CASE op' # IdleOp
    <3>1. PICK s \in Newest(Of(a)) : op' = [step |-> "poll token", agent |-> a, session |-> s]
      BY <1>13, <2>2, Zenon DEF PollExpire, Enter, Whole, Return, Leave
    <3>2. op'.step = "poll token"
      BY <3>1, Zenon
    <3> QED BY <3>2, Zenon DEF OrderOp, Pairing3, Activating, Of
  <2> QED BY <2>1, <2>2
<1>14. ASSUME NEW a \in Agents, RevokeCredentials(a) PROVE OrderOp'
  <2>1. op'.step = "revoke agent" /\ op'.agent = a /\ op'.session = NoAgent
    BY <1>14, Zenon DEF RevokeCredentials, Enter
  <2> QED BY <2>1, Zenon DEF OrderOp, Pairing3, Activating, Of
<1>15. ASSUME NEW a \in Agents, RegisterAgent(a) PROVE OrderOp'
  <2>1. op'.step = "register reply" /\ op'.agent = a /\ op'.session = NoAgent
    BY <1>15, Zenon DEF RegisterAgent, Enter
  <2> QED BY <2>1, Zenon DEF OrderOp, Pairing3, Activating, Of
<1>16. CASE PollToken
  <2>1. op' = IdleOp
    BY <1>16, Zenon DEF PollToken, Return, Leave
  <2> QED BY <2>1, OrderAtRest
<1>17. ASSUME NEW a \in Agents, NEW t \in 1 .. tokens, ActivateCredential(a, t) PROVE OrderOp'
  <2>1. PICK s \in Newest(PairedOf(a)) :
          op' = [step |-> "activate agent", agent |-> a, session |-> s]
    BY <1>17, Zenon DEF ActivateCredential, Enter
  <2>2. op'.step = "activate agent" /\ op'.agent = a /\ op'.session = s
    BY <2>1, Zenon
  <2>3. sessions' = sessions
    BY <1>17 DEF ActivateCredential
  <2> QED BY <2>2, <2>3 DEF Newest, PairedOf, OrderOp, Pairing3, Activating, Of
<1>18. CASE ActivateAgent
  <2>1. /\ op.step = "activate agent" /\ op'.step = "activate session"
        /\ op'.agent = op.agent /\ op'.session = op.session
    BY <1>18, StepOn DEF ActivateAgent
  <2>2. sessions' = sessions
    BY <1>18 DEF ActivateAgent
  <2> QED BY <2>1, <2>2 DEF Newest, PairedOf, OrderOp, Pairing3, Activating, Of
<1>19. CASE ActivateSession
  <2>1. /\ op.step = "activate session" /\ op'.step = "activate reply"
        /\ op'.agent = op.agent /\ op'.session = op.session
    BY <1>19, StepOn DEF ActivateSession
  <2>2. \A t \in Sessions : SameOwner(t) /\ sessions'[t].status = sessions[t].status
    BY <1>19, ActivateSessionRows DEF OnlyRow, SameOwner
  <2> QED BY <2>1, <2>2 DEF Newest, PairedOf, SameOwner, OrderOp, Pairing3, Activating, Of
<1>20. CASE ActivateReply
  <2>1. op' = IdleOp
    BY <1>20, Zenon DEF ActivateReply, Return, Leave
  <2> QED BY <2>1, OrderAtRest
<1>21. CASE RevokeAgent
  <2>1. op' = IdleOp
    BY <1>21, Zenon DEF RevokeAgent, Return, Leave
  <2> QED BY <2>1, OrderAtRest
<1>22. CASE RegisterReply
  <2>1. op' = IdleOp
    BY <1>22, Zenon DEF RegisterReply, Return, Leave
  <2> QED BY <2>1, OrderAtRest
<1>23. CASE ClockTick
  <2>1. op' = IdleOp
    BY <1>23, Zenon DEF ClockTick, Whole, Return, Leave, Tick
  <2> QED BY <2>1, OrderAtRest
<1>24. CASE Crash
  <2>1. op' = IdleOp
    BY <1>24, Zenon DEF Crash, rows
  <2> QED BY <2>1, OrderAtRest
<1>25. CASE UNCHANGED allVars
  BY <1>25 DEF allVars, rows, OrderOp, Of, PairedOf, Newest
<1> QED BY <1>1, <1>2, <1>3, <1>4, <1>5, <1>6, <1>7, <1>8, <1>9, <1>10, <1>11, <1>12, <1>13,
           <1>14, <1>15, <1>16, <1>17, <1>18, <1>19, <1>20, <1>21, <1>22, <1>23, <1>24, <1>25
         DEF CrashNext

(* and what its statements have written.                                    *)
LEMMA NextWrote ==
    ASSUME CrashTypeOK, OpInv, WroteOp, [CrashNext]_allVars
    PROVE  WroteOp'
<1>1. ASSUME NEW a \in Agents, NEW s \in Sessions, StartAgent(a, s) PROVE WroteOp'
  <2>1. op'.step = "start expire" /\ op'.agent = a /\ op'.session = s
    BY <1>1, Zenon DEF StartAgent, Enter
  <2>2. agents'[a].status = "AWAITING_PAIR"
    BY <1>1 DEF StartAgent, RowAtStart, CrashTypeOK, TypeOK
  <2> QED BY <2>1, <2>2 DEF WroteOp
<1>2. CASE StartExpire
  <2>1. /\ op.step = "start expire" /\ op'.step = "start insert"
        /\ op'.agent = op.agent /\ op'.session = op.session
    BY <1>2, StepOn DEF StartExpire
  <2>2. agents' = agents
    BY <1>2 DEF StartExpire
  <2> QED BY <2>1, <2>2 DEF WroteOp
<1>3. CASE StartInsert
  <2>1. /\ op.step = "start insert" /\ op'.step = "start reply"
        /\ op'.agent = op.agent /\ op'.session = op.session
    BY <1>3, StepOn DEF StartInsert
  <2> QED BY <2>1, Zenon DEF WroteOp
<1>4. CASE StartReply
  <2>1. op' = IdleOp
    BY <1>4, Zenon DEF StartReply, Leave, rows
  <2> QED BY <2>1, OrderAtRest
<1>5. ASSUME NEW s \in Sessions, ExpireSession(s) PROVE WroteOp'
  <2>1. op'.step = "expire agent" /\ op'.agent = sessions[s].agent /\ op'.session = s
    BY <1>5, Zenon DEF ExpireSession, Enter
  <2> QED BY <2>1, Zenon DEF WroteOp
<1>6. ASSUME NEW s \in Sessions, WrongPin(s) PROVE WroteOp'
  <2>1. CASE op' = IdleOp
    BY <2>1, OrderAtRest
  <2>2. CASE op' # IdleOp
    <3>1. op' = [step |-> "lock session", agent |-> sessions[s].agent, session |-> s]
      BY <1>6, <2>2, Zenon DEF WrongPin, Enter, Whole, Return, Leave
    <3>2. op'.step = "lock session"
      BY <3>1, Zenon
    <3> QED BY <3>2, Zenon DEF WroteOp
  <2> QED BY <2>1, <2>2
<1>7. ASSUME NEW s \in Sessions, PairSession(s) PROVE WroteOp'
  <2>1. op'.step = "pair agent" /\ op'.agent = sessions[s].agent /\ op'.session = s
    BY <1>7, Zenon DEF PairSession, Enter
  <2> QED BY <2>1, Zenon DEF WroteOp
<1>8. CASE AgentExpired
  <2>1. op' = IdleOp
    BY <1>8, Zenon DEF AgentExpired, Return, Leave
  <2> QED BY <2>1, OrderAtRest
<1>9. CASE LockSession
  <2>1. /\ op.step = "lock session" /\ op'.step = "lock agent"
        /\ op'.agent = op.agent /\ op'.session = op.session
    BY <1>9, StepOn DEF LockSession
  <2> QED BY <2>1, Zenon DEF WroteOp
<1>10. CASE PairAgent
  <2>1. /\ op.step = "pair agent" /\ op'.step = "pair session"
        /\ op'.agent = op.agent /\ op'.session = op.session
    BY <1>10, StepOn DEF PairAgent
  <2>2. minted' = minted + 1 /\ op.agent \in Agents
    BY <1>10, <2>1, Zenon DEF PairAgent, OpInv, Idle
  <2>3. agents'[op.agent].status = "PAIRED" /\ agents'[op.agent].secret = minted'
    BY <1>10, <2>2 DEF PairAgent, RowPaired, CrashTypeOK, TypeOK
  <2> QED BY <2>1, <2>3 DEF WroteOp
<1>11. CASE StoreSecret
  <2>1. /\ op.step = "pair session" /\ op'.step = "pair reply"
        /\ op'.agent = op.agent /\ op'.session = op.session
    BY <1>11, StepOn DEF StoreSecret
  <2>2. agents' = agents /\ minted' = minted /\ sessions'[op.session].secret = minted
    BY <1>11, StoreSecretRows DEF StoreSecret
  <2> QED BY <2>1, <2>2 DEF WroteOp
<1>12. CASE PairReply
  <2>1. op' = IdleOp
    BY <1>12, Zenon DEF PairReply, Leave
  <2> QED BY <2>1, OrderAtRest
<1>13. ASSUME NEW a \in Agents, PollExpire(a) PROVE WroteOp'
  <2>1. CASE op' = IdleOp
    BY <2>1, OrderAtRest
  <2>2. CASE op' # IdleOp
    <3>1. PICK s \in Newest(Of(a)) : op' = [step |-> "poll token", agent |-> a, session |-> s]
      BY <1>13, <2>2, Zenon DEF PollExpire, Enter, Whole, Return, Leave
    <3>2. op'.step = "poll token"
      BY <3>1, Zenon
    <3> QED BY <3>2, Zenon DEF WroteOp
  <2> QED BY <2>1, <2>2
<1>14. ASSUME NEW a \in Agents, RevokeCredentials(a) PROVE WroteOp'
  <2>1. op'.step = "revoke agent" /\ op'.agent = a /\ op'.session = NoAgent
    BY <1>14, Zenon DEF RevokeCredentials, Enter
  <2> QED BY <2>1, Zenon DEF WroteOp
<1>15. ASSUME NEW a \in Agents, RegisterAgent(a) PROVE WroteOp'
  <2>1. op'.step = "register reply" /\ op'.agent = a /\ op'.session = NoAgent
    BY <1>15, Zenon DEF RegisterAgent, Enter
  <2> QED BY <2>1, Zenon DEF WroteOp
<1>16. CASE PollToken
  <2>1. op' = IdleOp
    BY <1>16, Zenon DEF PollToken, Return, Leave
  <2> QED BY <2>1, OrderAtRest
<1>17. ASSUME NEW a \in Agents, NEW t \in 1 .. tokens, ActivateCredential(a, t) PROVE WroteOp'
  <2>1. PICK s \in Newest(PairedOf(a)) :
          op' = [step |-> "activate agent", agent |-> a, session |-> s]
    BY <1>17, Zenon DEF ActivateCredential, Enter
  <2>2. op'.step = "activate agent"
    BY <2>1, Zenon
  <2> QED BY <2>2, Zenon DEF WroteOp
<1>18. CASE ActivateAgent
  <2>1. /\ op.step = "activate agent" /\ op'.step = "activate session"
        /\ op'.agent = op.agent /\ op'.session = op.session
    BY <1>18, StepOn DEF ActivateAgent
  <2>2. agents'[op.agent].status = "ACTIVE"
    BY <1>18, <2>1 DEF ActivateAgent, StatusActivated, OpInv, Idle, CrashTypeOK, TypeOK, AgentRow
  <2> QED BY <2>1, <2>2 DEF WroteOp
<1>19. CASE ActivateSession
  <2>1. /\ op.step = "activate session" /\ op'.step = "activate reply"
        /\ op'.agent = op.agent /\ op'.session = op.session
    BY <1>19, StepOn DEF ActivateSession
  <2>2. agents' = agents
    BY <1>19 DEF ActivateSession
  <2> QED BY <2>1, <2>2 DEF WroteOp
<1>20. CASE ActivateReply
  <2>1. op' = IdleOp
    BY <1>20, Zenon DEF ActivateReply, Return, Leave
  <2> QED BY <2>1, OrderAtRest
<1>21. CASE RevokeAgent
  <2>1. op' = IdleOp
    BY <1>21, Zenon DEF RevokeAgent, Return, Leave
  <2> QED BY <2>1, OrderAtRest
<1>22. CASE RegisterReply
  <2>1. op' = IdleOp
    BY <1>22, Zenon DEF RegisterReply, Return, Leave
  <2> QED BY <2>1, OrderAtRest
<1>23. CASE ClockTick
  <2>1. op' = IdleOp
    BY <1>23, Zenon DEF ClockTick, Whole, Return, Leave, Tick
  <2> QED BY <2>1, OrderAtRest
<1>24. CASE Crash
  <2>1. op' = IdleOp
    BY <1>24, Zenon DEF Crash, rows
  <2> QED BY <2>1, OrderAtRest
<1>25. CASE UNCHANGED allVars
  BY <1>25 DEF allVars, rows, WroteOp
<1> QED BY <1>1, <1>2, <1>3, <1>4, <1>5, <1>6, <1>7, <1>8, <1>9, <1>10, <1>11, <1>12, <1>13,
           <1>14, <1>15, <1>16, <1>17, <1>18, <1>19, <1>20, <1>21, <1>22, <1>23, <1>24, <1>25
         DEF CrashNext

-----------------------------------------------------------------------------
(* The agents that no crash has damaged. *)

(* The steps at which something is still to be written. *)
Unfinished == Pairing3 \cup {"activate session", "activate reply", "register reply"}

(* Nothing that Healthy(a) speaks of is paired, delivered or rotated.       *)
Undisturbed(a) ==
    /\ \A t \in Sessions : sessions'[t].agent = a <=> sessions[t].agent = a
    /\ \A t \in Of(a) : QuietSession(t) /\ given'[t].client = given[t].client
    /\ PairedOf(a) # {} => agents'[a].secret = agents[a].secret
    /\ agents[a].status # "NONE" => agents'[a].secret = agents[a].secret
    /\ \/ agents'[a].status = agents[a].status
       \/ agents'[a].status \in {"EXPIRED", "REVOKED", "AWAITING_PAIR"}
    /\ toAgent'[a] = toAgent[a]

(* The newest session of an agent, and its newest paired one, stay.         *)
LEMMA NewestStays ==
    ASSUME NEW a \in Agents, Undisturbed(a)
    PROVE  /\ \A s \in Newest(Of(a))' : s \in Newest(Of(a)) /\ s \in Of(a)
           /\ \A s \in Newest(PairedOf(a))' : s \in Newest(PairedOf(a)) /\ s \in Of(a)
<1>1. Of(a)' = Of(a)
  BY DEF Of, Undisturbed
<1>2. \A t \in Of(a) : /\ sessions'[t].created = sessions[t].created
                       /\ sessions'[t].status = "PAIRED" <=> sessions[t].status = "PAIRED"
  BY DEF Undisturbed, QuietSession, IsOpen
<1>3. PairedOf(a)' = PairedOf(a) /\ PairedOf(a) \subseteq Of(a)
  BY <1>1, <1>2 DEF PairedOf
<1>4. \A s \in Newest(Of(a))' : s \in Newest(Of(a)) /\ s \in Of(a)
  BY <1>1, <1>2 DEF Newest
<1>5. \A s \in Newest(PairedOf(a))' : s \in Newest(PairedOf(a)) /\ s \in Of(a)
  BY <1>2, <1>3 DEF Newest
<1> QED BY <1>4, <1>5

(* An agent with a sound row that nobody is busy with keeps it.             *)
LEMMA HealthyStays ==
    ASSUME NEW a \in Agents, Healthy(a), Undisturbed(a),
           op.agent # a \/ op.step \notin Unfinished
    PROVE  Healthy(a)'
<1>1. ~Busy(a, {"pair agent", "pair session"}) /\ ~Busy(a, Pairing3)
      /\ ~Busy(a, {"activate session", "activate reply", "register reply"})
  BY DEF Busy, Unfinished, Pairing3
<1>2. ASSUME NEW s \in Newest(PairedOf(a))' PROVE sessions'[s].secret = agents'[a].secret
  <2>1. s \in Newest(PairedOf(a)) /\ s \in Of(a)
    BY NewestStays
  <2>2. sessions[s].secret = agents[a].secret
    BY <1>1, <2>1 DEF Healthy
  <2>3. s \in PairedOf(a)
    BY <2>1 DEF Newest
  <2> QED BY <2>1, <2>2, <2>3 DEF Undisturbed, QuietSession
<1>3. ASSUME agents'[a].status = "ACTIVE" PROVE toAgent'[a] = agents'[a].secret
  BY <1>1, <1>3 DEF Healthy, Undisturbed
<1>4. ASSUME agents'[a].status = "PAIRED", NEW s \in Newest(Of(a))'
      PROVE  /\ sessions'[s].status = "PAIRED" /\ given'[s].client = 1
             /\ sessions'[s].secret = agents'[a].secret
             /\ ~sessions'[s].delivered
  <2>1. s \in Newest(Of(a)) /\ s \in Of(a)
    BY NewestStays
  <2>2. agents[a].status = "PAIRED"
    BY <1>4 DEF Undisturbed
  <2>3. /\ sessions[s].status = "PAIRED" /\ given[s].client = 1
        /\ sessions[s].secret = agents[a].secret
        /\ ~sessions[s].delivered
    BY <1>1, <2>1, <2>2 DEF Healthy
  <2> QED BY <2>1, <2>2, <2>3 DEF Undisturbed, QuietSession, IsOpen
<1> QED BY <1>2, <1>3, <1>4 DEF Healthy

(* A step that is about another agent disturbs nobody else.                 *)
LEMMA RowElsewhere ==
    ASSUME NEW a \in Agents, NEW s \in Sessions, OnlyRow(s),
           sessions[s].agent # a, sessions'[s].agent # a
    PROVE  /\ \A t \in Sessions : sessions'[t].agent = a <=> sessions[t].agent = a
           /\ \A t \in Of(a) : QuietSession(t)
BY DEF OnlyRow, QuietSession, Of

(* Every statement keeps an undamaged agent sound, and the reply of a       *)
(* pairing makes a damaged one sound again.                                 *)
LEMMA NextHealthy ==
    ASSUME CrashTypeOK, OpInv, Owned, Ordered, OrderOp, WroteOp, AllHealthy, [CrashNext]_allVars
    PROVE  AllHealthy'
<1>1. ASSUME NEW a \in Agents, NEW s \in Sessions, StartAgent(a, s) PROVE AllHealthy'
  <2>0. damaged' = damaged
    BY <1>1, Zenon DEF StartAgent, Enter
  <2> SUFFICES ASSUME NEW b \in Agents, b \notin damaged PROVE Healthy(b)'
    BY <2>0 DEF AllHealthy
  <2>1. Healthy(b)
    BY DEF AllHealthy
  <2>2. CASE b # a
    <3>1. Undisturbed(b)
      BY <1>1, <2>2 DEF StartAgent, CrashTypeOK, TypeOK, Undisturbed, QuietSession
    <3>2. op.agent # b \/ op.step \notin Unfinished
      BY <1>1, Zenon DEF StartAgent, Enter, Idle, Unfinished, Pairing3
    <3> QED BY <2>1, <3>1, <3>2, HealthyStays
  <2>3. CASE b = a
    <3>1. sessions' = sessions /\ given' = given /\ toAgent' = toAgent
      BY <1>1 DEF StartAgent
    <3>2. agents'[a] = RowAtStart(a)
      BY <1>1 DEF StartAgent, CrashTypeOK, TypeOK
    <3>3. PairedOf(a) # {} => Exists(a)
      BY NoAgentAssumption DEF PairedOf, Of, Owned
    <3>4. Undisturbed(a)
      BY <3>1, <3>2, <3>3 DEF Undisturbed, QuietSession, RowAtStart, Exists
    <3>5. op.step \notin Unfinished
      BY <1>1, Zenon DEF StartAgent, Enter, Idle, Unfinished, Pairing3
    <3> QED BY <2>1, <2>3, <3>4, <3>5, HealthyStays
  <2> QED BY <2>2, <2>3
<1>2. CASE StartExpire
  <2>0. damaged' = damaged
    BY <1>2, Zenon DEF StartExpire, Step
  <2>1. op.step \notin Unfinished
    BY <1>2, Zenon DEF StartExpire, Step, Idle, Unfinished, Pairing3
  <2>2. \A t \in Sessions : QuietSession(t)
    BY <1>2, StartExpireRows DEF QuietRows
  <2>3. \A b \in Agents : Undisturbed(b)
    <3>1. given' = given /\ toAgent' = toAgent
      BY <1>2, Zenon DEF StartExpire
    <3>2. \A b \in Agents : /\ agents'[b].secret = agents[b].secret
                            /\ \/ agents'[b].status = agents[b].status
                               \/ agents'[b].status \in {"EXPIRED", "REVOKED", "AWAITING_PAIR"}
      BY <1>2 DEF StartExpire
    <3> QED BY <2>2, <3>1, <3>2 DEF Undisturbed, QuietSession, Of
  <2> QED BY <2>0, <2>1, <2>3, HealthyStays DEF AllHealthy
<1>3. CASE StartInsert
  <2>0. damaged' = damaged
    BY <1>3, Zenon DEF StartInsert, Step
  <2> SUFFICES ASSUME NEW b \in Agents, b \notin damaged PROVE Healthy(b)'
    BY <2>0 DEF AllHealthy
  <2>1. Healthy(b)
    BY DEF AllHealthy
  <2>2. CASE b # op.agent
    <3>1. Undisturbed(b)
      <4>1. op.session \in Sessions /\ sessions[op.session].agent = NoAgent
        BY <1>3, StartInsertRows DEF StartInsert, Step, OpInv, Owned
      <4>2. OnlyRow(op.session) /\ sessions'[op.session].agent = op.agent
        BY <1>3, StartInsertRows
      <4>3. b # NoAgent
        BY NoAgentAssumption
      <4>4. UNCHANGED <<agents, given, toAgent>>
        BY <1>3 DEF StartInsert
      <4> QED BY <2>2, <4>1, <4>2, <4>3, <4>4, RowElsewhere DEF Undisturbed
    <3>2. op.agent # b \/ op.step \notin Unfinished
      BY <2>2
    <3> QED BY <2>1, <3>1, <3>2, HealthyStays
  <2>3. CASE b = op.agent
    <3>1. /\ agents' = agents /\ toAgent' = toAgent /\ op.step = "start insert"
      BY <1>3 DEF StartInsert, Step
    <3>2. agents[b].status = "AWAITING_PAIR"
      BY <2>3, <3>1 DEF WroteOp
    <3>3. sessions[op.session].status = "FREE"
      BY <3>1 DEF OpInv
    <3>4. /\ \A t \in PairedOf(b)' : t \in PairedOf(b) /\ sessions'[t] = sessions[t]
          /\ \A t \in PairedOf(b) : t \in PairedOf(b)' /\ sessions'[t] = sessions[t]
      BY <1>3, <3>3, StartInsertRows DEF OnlyRow, PairedOf, Of
    <3>5. \A t \in Newest(PairedOf(b))' : t \in Newest(PairedOf(b)) /\ sessions'[t] = sessions[t]
      BY <3>4 DEF Newest
    <3>6. ~Busy(b, {"pair agent", "pair session"})
      BY <3>1 DEF Busy
    <3> QED BY <2>1, <3>1, <3>2, <3>5, <3>6 DEF Healthy
  <2> QED BY <2>2, <2>3
<1>4. CASE StartReply
  <2>0. damaged' = damaged
    BY <1>4, Zenon DEF StartReply, Leave, rows
  <2>1. op.step \notin Unfinished
    BY <1>4, Zenon DEF StartReply, Leave, rows, Idle, Unfinished, Pairing3
  <2>2. \A t \in Sessions : QuietSession(t)
    BY <1>4 DEF StartReply, rows, QuietSession
  <2>3. \A b \in Agents : Undisturbed(b)
    <3>1. given' = given /\ toAgent' = toAgent
      BY <1>4 DEF StartReply, rows
    <3>2. \A b \in Agents : /\ agents'[b].secret = agents[b].secret
                            /\ \/ agents'[b].status = agents[b].status
                               \/ agents'[b].status \in {"EXPIRED", "REVOKED", "AWAITING_PAIR"}
      BY <1>4 DEF StartReply, rows
    <3> QED BY <2>2, <3>1, <3>2 DEF Undisturbed, QuietSession, Of
  <2> QED BY <2>0, <2>1, <2>3, HealthyStays DEF AllHealthy
<1>5. ASSUME NEW s \in Sessions, ExpireSession(s) PROVE AllHealthy'
  <2>0. damaged' = damaged
    BY <1>5, Zenon DEF ExpireSession, Enter
  <2>1. op.step \notin Unfinished
    BY <1>5, Zenon DEF ExpireSession, Enter, Idle, Unfinished, Pairing3
  <2>2. \A t \in Sessions : QuietSession(t)
    BY <1>5, ExpireSessionRows DEF ChargedRow, OnlyRow, QuietSession
  <2>3. \A b \in Agents : Undisturbed(b)
    <3>1. given' = given /\ toAgent' = toAgent
      BY <1>5, Zenon DEF ExpireSession
    <3>2. \A b \in Agents : /\ agents'[b].secret = agents[b].secret
                            /\ \/ agents'[b].status = agents[b].status
                               \/ agents'[b].status \in {"EXPIRED", "REVOKED", "AWAITING_PAIR"}
      BY <1>5 DEF ExpireSession
    <3> QED BY <2>2, <3>1, <3>2 DEF Undisturbed, QuietSession, Of
  <2> QED BY <2>0, <2>1, <2>3, HealthyStays DEF AllHealthy
<1>6. ASSUME NEW s \in Sessions, WrongPin(s) PROVE AllHealthy'
  <2>0. damaged' = damaged
    BY <1>6, Zenon DEF WrongPin, Enter, Whole, Return, Leave
  <2>1. op.step \notin Unfinished
    BY <1>6, Zenon DEF WrongPin, Enter, Whole, Return, Leave, Idle, Unfinished, Pairing3
  <2>2. \A t \in Sessions : QuietSession(t)
    BY <1>6, WrongPinRows DEF ChargedRow, OnlyRow, QuietSession
  <2>3. \A b \in Agents : Undisturbed(b)
    <3>1. given' = given /\ toAgent' = toAgent
      BY <1>6, Zenon DEF WrongPin
    <3>2. \A b \in Agents : /\ agents'[b].secret = agents[b].secret
                            /\ \/ agents'[b].status = agents[b].status
                               \/ agents'[b].status \in {"EXPIRED", "REVOKED", "AWAITING_PAIR"}
      BY <1>6 DEF WrongPin
    <3> QED BY <2>2, <3>1, <3>2 DEF Undisturbed, QuietSession, Of
  <2> QED BY <2>0, <2>1, <2>3, HealthyStays DEF AllHealthy
<1>7. ASSUME NEW s \in Sessions, PairSession(s) PROVE AllHealthy'
  <2>0. damaged' = damaged
    BY <1>7, Zenon DEF PairSession, Enter
  <2> SUFFICES ASSUME NEW b \in Agents, b \notin damaged PROVE Healthy(b)'
    BY <2>0 DEF AllHealthy
  <2>1. Healthy(b)
    BY DEF AllHealthy
  <2>2. CASE b # sessions[s].agent
    <3>1. Undisturbed(b)
      <4>1. OnlyRow(s) /\ sessions'[s].agent = sessions[s].agent
        BY <1>7, PairSessionRows DEF SameOwner
      <4>2. UNCHANGED <<agents, given, toAgent>>
        BY <1>7 DEF PairSession
      <4> QED BY <2>2, <4>1, <4>2, RowElsewhere DEF Undisturbed
    <3>2. op.agent # b \/ op.step \notin Unfinished
      BY <1>7, Zenon DEF PairSession, Enter, Idle, Unfinished, Pairing3
    <3> QED BY <2>1, <3>1, <3>2, HealthyStays
  <2>3. CASE b = sessions[s].agent
    <3>1. op'.step = "pair agent" /\ op'.agent = b
      BY <1>7, <2>3, Zenon DEF PairSession, Enter
    <3>2. agents' = agents /\ toAgent' = toAgent /\ op.step = "idle"
      BY <1>7 DEF PairSession, Enter, Idle
    <3>3. Busy(b, {"pair agent", "pair session"})' /\ Busy(b, Pairing3)'
      BY <3>1 DEF Busy, Pairing3
    <3>4. ~Busy(b, {"activate session", "activate reply", "register reply"})
      BY <3>2 DEF Busy
    <3> QED BY <2>1, <3>2, <3>3, <3>4 DEF Healthy
  <2> QED BY <2>2, <2>3
<1>8. CASE AgentExpired
  <2>0. damaged' = damaged
    BY <1>8, Zenon DEF AgentExpired, Return, Leave
  <2>1. op.step \notin Unfinished
    BY <1>8, Zenon DEF AgentExpired, Return, Leave, Idle, Unfinished, Pairing3
  <2>2. \A t \in Sessions : QuietSession(t)
    BY <1>8 DEF AgentExpired, QuietSession
  <2>3. \A b \in Agents : Undisturbed(b)
    <3>1. given' = given /\ toAgent' = toAgent
      BY <1>8, Zenon DEF AgentExpired
    <3>2. \A b \in Agents : /\ agents'[b].secret = agents[b].secret
                            /\ \/ agents'[b].status = agents[b].status
                               \/ agents'[b].status \in {"EXPIRED", "REVOKED", "AWAITING_PAIR"}
      BY <1>8 DEF AgentExpired, CrashTypeOK, TypeOK, AgentRow
    <3> QED BY <2>2, <3>1, <3>2 DEF Undisturbed, QuietSession, Of
  <2> QED BY <2>0, <2>1, <2>3, HealthyStays DEF AllHealthy
<1>9. CASE LockSession
  <2>0. damaged' = damaged
    BY <1>9, Zenon DEF LockSession, Step
  <2>1. op.step \notin Unfinished
    BY <1>9, Zenon DEF LockSession, Step, Idle, Unfinished, Pairing3
  <2>2. \A t \in Sessions : QuietSession(t)
    BY <1>9, LockSessionRows DEF QuietRows
  <2>3. \A b \in Agents : Undisturbed(b)
    <3>1. given' = given /\ toAgent' = toAgent
      BY <1>9, Zenon DEF LockSession
    <3>2. \A b \in Agents : /\ agents'[b].secret = agents[b].secret
                            /\ \/ agents'[b].status = agents[b].status
                               \/ agents'[b].status \in {"EXPIRED", "REVOKED", "AWAITING_PAIR"}
      BY <1>9 DEF LockSession
    <3> QED BY <2>2, <3>1, <3>2 DEF Undisturbed, QuietSession, Of
  <2> QED BY <2>0, <2>1, <2>3, HealthyStays DEF AllHealthy
<1>10. CASE PairAgent
  <2>0. damaged' = damaged
    BY <1>10, Zenon DEF PairAgent, Step
  <2> SUFFICES ASSUME NEW b \in Agents, b \notin damaged PROVE Healthy(b)'
    BY <2>0 DEF AllHealthy
  <2>1. Healthy(b)
    BY DEF AllHealthy
  <2>2. CASE b # op.agent
    <3>1. Undisturbed(b)
      BY <1>10, <2>2 DEF PairAgent, CrashTypeOK, TypeOK, Undisturbed, QuietSession
    <3>2. op.agent # b \/ op.step \notin Unfinished
      BY <2>2
    <3> QED BY <2>1, <3>1, <3>2, HealthyStays
  <2>3. CASE b = op.agent
    <3>1. op.step = "pair agent" /\ op'.step = "pair session" /\ op'.agent = b
      BY <1>10, <2>3, StepOn DEF PairAgent
    <3>2. agents'[b].status = "PAIRED"
      BY <1>10, <2>3 DEF PairAgent, RowPaired, CrashTypeOK, TypeOK
    <3>3. Busy(b, {"pair agent", "pair session"})' /\ Busy(b, Pairing3)'
      BY <3>1 DEF Busy, Pairing3
    <3> QED BY <3>2, <3>3 DEF Healthy
  <2> QED BY <2>2, <2>3
<1>11. CASE StoreSecret
  <2>0. damaged' = damaged
    BY <1>11, Zenon DEF StoreSecret, Step
  <2> SUFFICES ASSUME NEW b \in Agents, b \notin damaged PROVE Healthy(b)'
    BY <2>0 DEF AllHealthy
  <2>1. Healthy(b)
    BY DEF AllHealthy
  <2>2. CASE b # op.agent
    <3>1. Undisturbed(b)
      <4>1. op.session \in Sessions /\ sessions[op.session].agent = op.agent
        BY <1>11 DEF StoreSecret, Step, OpInv, Pairing3, PairedOf, Of
      <4>2. OnlyRow(op.session) /\ sessions'[op.session].agent = op.agent
        BY <1>11, <4>1, StoreSecretRows DEF SameOwner
      <4>3. UNCHANGED <<agents, given, toAgent>>
        BY <1>11 DEF StoreSecret
      <4> QED BY <2>2, <4>1, <4>2, <4>3, RowElsewhere DEF Undisturbed
    <3>2. op.agent # b \/ op.step \notin Unfinished
      BY <2>2
    <3> QED BY <2>1, <3>1, <3>2, HealthyStays
  <2>3. CASE b = op.agent
    <3>1. op.step = "pair session" /\ op'.step = "pair reply" /\ op'.agent = b
      BY <1>11, <2>3, StepOn DEF StoreSecret
    <3>2. agents' = agents /\ agents[b].status = "PAIRED" /\ agents[b].secret = minted
      BY <1>11, <2>3, <3>1 DEF StoreSecret, WroteOp
    <3>3. Busy(b, Pairing3)'
      BY <3>1 DEF Busy, Pairing3
    <3>4. /\ op.session \in PairedOf(b)
          /\ \A t \in Of(b) : sessions[t].created <= sessions[op.session].created
      BY <2>3, <3>1 DEF OpInv, OrderOp, Pairing3
    <3>5. ASSUME NEW s \in Newest(PairedOf(b))' PROVE s = op.session
      <4>1. \A t \in Sessions : SameOwner(t) /\ sessions'[t].status = sessions[t].status
        BY <1>11, StoreSecretRows DEF OnlyRow, SameOwner
      <4>2. PairedOf(b)' = PairedOf(b)
        BY <4>1 DEF PairedOf, Of, SameOwner
      <4>3. s \in PairedOf(b) /\ sessions'[op.session].created <= sessions'[s].created
        BY <3>4, <4>2 DEF Newest
      <4>4. /\ s \in Sessions /\ sessions[s].agent = b
            /\ op.session \in Sessions /\ sessions[op.session].agent = b
        BY <3>4, <4>3 DEF PairedOf, Of
      <4>5. sessions[op.session].created <= sessions[s].created
        BY <4>1, <4>3, <4>4 DEF SameOwner
      <4>6. sessions[s].created <= sessions[op.session].created
        BY <3>4, <4>4 DEF Of
      <4>7. sessions[s].created \in Nat /\ sessions[op.session].created \in Nat
        BY <4>4 DEF CrashTypeOK, TypeOK, SessionRow
      <4> QED BY <4>4, <4>5, <4>6, <4>7, NoAgentAssumption DEF Ordered
    <3>6. sessions'[op.session].secret = minted
      BY <1>11, StoreSecretRows
    <3> QED BY <3>2, <3>3, <3>5, <3>6 DEF Healthy
  <2> QED BY <2>2, <2>3
<1>12. CASE PairReply
  <2>0. /\ op.step = "pair reply" /\ damaged' = damaged \ {op.agent}
        /\ agents' = agents /\ sessions' = sessions /\ toAgent' = toAgent
        /\ op.session \in Sessions
    BY <1>12 DEF PairReply, OpInv
  <2>01. /\ given'[op.session].client = given[op.session].client + 1
         /\ \A t \in Sessions \ {op.session} : given'[t] = given[t]
    <3>1. given \in [Sessions -> [client : Nat, agent : Nat]]
      BY DEF CrashTypeOK, TypeOK
    <3>2. given' = [given EXCEPT ![op.session] = [given[op.session] EXCEPT !.client = given[op.session].client + 1]]
      BY <1>12, <2>0, <3>1, Zenon DEF PairReply
    <3>3. [given[op.session] EXCEPT !.client = given[op.session].client + 1].client = given[op.session].client + 1
      BY <2>0, <3>1
    <3> QED BY <2>0, <3>1, <3>2, <3>3, Zenon
  <2> SUFFICES ASSUME NEW b \in Agents, b \notin damaged \/ b = op.agent PROVE Healthy(b)'
    BY <2>0 DEF AllHealthy
  <2>2. CASE b # op.agent
    <3>1. Healthy(b)
      BY <2>2 DEF AllHealthy
    <3>2. sessions[op.session].agent = op.agent
      BY <2>0 DEF OpInv, Pairing3, PairedOf, Of
    <3>3. Undisturbed(b)
      BY <2>0, <2>01, <2>2, <3>2 DEF Undisturbed, QuietSession, Of
    <3> QED BY <2>2, <3>1, <3>3, HealthyStays
  <2>3. CASE b = op.agent
    <3>1. /\ op.session \in PairedOf(b) /\ given[op.session].client = 0
          /\ ~sessions[op.session].delivered
          /\ \A t \in Of(b) : sessions[t].created <= sessions[op.session].created
      BY <2>0, <2>3 DEF OpInv, OrderOp, Pairing3
    <3>2. /\ agents[b].status = "PAIRED" /\ agents[b].secret = minted
          /\ sessions[op.session].secret = minted
      BY <2>0, <2>3 DEF WroteOp
    <3>3. \A t \in Of(b) : sessions[op.session].created <= sessions[t].created => t = op.session
      <4> SUFFICES ASSUME NEW t \in Of(b), sessions[op.session].created <= sessions[t].created
                   PROVE  t = op.session
        OBVIOUS
      <4>1. /\ t \in Sessions /\ sessions[t].agent = b
            /\ sessions[op.session].agent = b
        BY <3>1 DEF PairedOf, Of
      <4>2. sessions[t].created \in Nat /\ sessions[op.session].created \in Nat
        BY <2>0, <4>1 DEF CrashTypeOK, TypeOK, SessionRow
      <4>3. sessions[t].created <= sessions[op.session].created
        BY <3>1
      <4>4. sessions[t].created = sessions[op.session].created
        BY <4>2, <4>3
      <4>5. sessions[t].agent # NoAgent
        BY <4>1, NoAgentAssumption
      <4> QED BY <2>0, <4>1, <4>4, <4>5 DEF Ordered
    <3>4. op.session \in Of(b) /\ PairedOf(b) \subseteq Of(b) /\ sessions[op.session].status = "PAIRED"
      BY <3>1 DEF PairedOf
    <3>5. /\ Of(b)' = Of(b) /\ PairedOf(b)' = PairedOf(b)
          /\ Newest(Of(b))' = Newest(Of(b)) /\ Newest(PairedOf(b))' = Newest(PairedOf(b))
      BY <2>0 DEF Of, PairedOf, Newest
    <3>6. \A s \in Newest(Of(b)) : s = op.session
      BY <3>3, <3>4 DEF Newest
    <3>7. \A s \in Newest(PairedOf(b)) : s = op.session
      BY <3>1, <3>3, <3>4 DEF Newest
    <3>8. given'[op.session].client = 1
      BY <2>01, <3>1
    <3> QED BY <2>0, <3>1, <3>2, <3>4, <3>5, <3>6, <3>7, <3>8 DEF Healthy
  <2> QED BY <2>2, <2>3
<1>13. ASSUME NEW a \in Agents, PollExpire(a) PROVE AllHealthy'
  <2>0. damaged' = damaged
    BY <1>13, Zenon DEF PollExpire, Enter, Whole, Return, Leave
  <2>1. op.step \notin Unfinished
    BY <1>13, Zenon DEF PollExpire, Enter, Whole, Return, Leave, Idle, Unfinished, Pairing3
  <2>2. \A t \in Sessions : QuietSession(t)
    BY <1>13, PollExpireRows DEF QuietRows
  <2>3. \A b \in Agents : Undisturbed(b)
    <3>1. given' = given /\ toAgent' = toAgent
      BY <1>13, Zenon DEF PollExpire
    <3>2. \A b \in Agents : /\ agents'[b].secret = agents[b].secret
                            /\ \/ agents'[b].status = agents[b].status
                               \/ agents'[b].status \in {"EXPIRED", "REVOKED", "AWAITING_PAIR"}
      BY <1>13 DEF PollExpire
    <3> QED BY <2>2, <3>1, <3>2 DEF Undisturbed, QuietSession, Of
  <2> QED BY <2>0, <2>1, <2>3, HealthyStays DEF AllHealthy
<1>14. ASSUME NEW a \in Agents, RevokeCredentials(a) PROVE AllHealthy'
  <2>0. damaged' = damaged
    BY <1>14, Zenon DEF RevokeCredentials, Enter
  <2>1. op.step \notin Unfinished
    BY <1>14, Zenon DEF RevokeCredentials, Enter, Idle, Unfinished, Pairing3
  <2>2. \A t \in Sessions : QuietSession(t)
    BY <1>14 DEF RevokeCredentials, QuietSession
  <2>3. \A b \in Agents : Undisturbed(b)
    <3>1. given' = given /\ toAgent' = toAgent
      BY <1>14, Zenon DEF RevokeCredentials
    <3>2. \A b \in Agents : /\ agents'[b].secret = agents[b].secret
                            /\ \/ agents'[b].status = agents[b].status
                               \/ agents'[b].status \in {"EXPIRED", "REVOKED", "AWAITING_PAIR"}
      BY <1>14 DEF RevokeCredentials
    <3> QED BY <2>2, <3>1, <3>2 DEF Undisturbed, QuietSession, Of
  <2> QED BY <2>0, <2>1, <2>3, HealthyStays DEF AllHealthy
<1>15. ASSUME NEW a \in Agents, RegisterAgent(a) PROVE AllHealthy'
  <2>0. damaged' = damaged
    BY <1>15, Zenon DEF RegisterAgent, Enter
  <2> SUFFICES ASSUME NEW b \in Agents, b \notin damaged PROVE Healthy(b)'
    BY <2>0 DEF AllHealthy
  <2>1. Healthy(b)
    BY DEF AllHealthy
  <2>2. CASE b # a
    <3>1. Undisturbed(b)
      BY <1>15, <2>2 DEF RegisterAgent, CrashTypeOK, TypeOK, Undisturbed, QuietSession
    <3>2. op.agent # b \/ op.step \notin Unfinished
      BY <1>15, Zenon DEF RegisterAgent, Enter, Idle, Unfinished, Pairing3
    <3> QED BY <2>1, <3>1, <3>2, HealthyStays
  <2>3. CASE b = a
    <3>1. op'.step = "register reply" /\ op'.agent = a
      BY <1>15, Zenon DEF RegisterAgent, Enter
    <3>2. sessions' = sessions /\ agents'[a].status = "ACTIVE" /\ agents[a].status = "NONE"
      BY <1>15 DEF RegisterAgent, Exists, CrashTypeOK, TypeOK
    <3>3. \A t \in Sessions : sessions'[t].agent # a
      BY <3>2, NoAgentAssumption DEF Owned, Exists
    <3>4. PairedOf(a)' = {}
      BY <3>3 DEF PairedOf, Of
    <3>5. \A t \in Newest(PairedOf(a))' : FALSE
      BY <3>4 DEF Newest
    <3>6. Busy(a, {"activate session", "activate reply", "register reply"})'
      BY <3>1 DEF Busy
    <3> QED BY <2>3, <3>2, <3>5, <3>6 DEF Healthy
  <2> QED BY <2>2, <2>3
<1>16. CASE PollToken
  <2>0. damaged' = damaged
    BY <1>16, Zenon DEF PollToken, Return, Leave
  <2>1. op.step \notin Unfinished
    BY <1>16, Zenon DEF PollToken, Return, Leave, Idle, Unfinished, Pairing3
  <2>2. \A t \in Sessions : QuietSession(t)
    BY <1>16, PollTokenRows DEF QuietRows
  <2>3. \A b \in Agents : Undisturbed(b)
    <3>1. given' = given /\ toAgent' = toAgent
      BY <1>16, Zenon DEF PollToken
    <3>2. \A b \in Agents : /\ agents'[b].secret = agents[b].secret
                            /\ \/ agents'[b].status = agents[b].status
                               \/ agents'[b].status \in {"EXPIRED", "REVOKED", "AWAITING_PAIR"}
      BY <1>16 DEF PollToken
    <3> QED BY <2>2, <3>1, <3>2 DEF Undisturbed, QuietSession, Of
  <2> QED BY <2>0, <2>1, <2>3, HealthyStays DEF AllHealthy
<1>17. ASSUME NEW a \in Agents, NEW t \in 1 .. tokens, ActivateCredential(a, t) PROVE AllHealthy'
  <2>0. damaged' = damaged
    BY <1>17, Zenon DEF ActivateCredential, Enter
  <2>1. op.step \notin Unfinished
    BY <1>17, Zenon DEF ActivateCredential, Enter, Idle, Unfinished, Pairing3
  <2>2. \A u \in Sessions : QuietSession(u)
    BY <1>17 DEF ActivateCredential, QuietSession
  <2>3. \A b \in Agents : Undisturbed(b)
    <3>1. given' = given /\ toAgent' = toAgent
      BY <1>17, Zenon DEF ActivateCredential
    <3>2. \A b \in Agents : /\ agents'[b].secret = agents[b].secret
                            /\ \/ agents'[b].status = agents[b].status
                               \/ agents'[b].status \in {"EXPIRED", "REVOKED", "AWAITING_PAIR"}
      BY <1>17 DEF ActivateCredential
    <3> QED BY <2>2, <3>1, <3>2 DEF Undisturbed, QuietSession, Of
  <2> QED BY <2>0, <2>1, <2>3, HealthyStays DEF AllHealthy
<1>18. CASE ActivateAgent
  <2>0. damaged' = damaged
    BY <1>18, Zenon DEF ActivateAgent, Step
  <2> SUFFICES ASSUME NEW b \in Agents, b \notin damaged PROVE Healthy(b)'
    BY <2>0 DEF AllHealthy
  <2>1. Healthy(b)
    BY DEF AllHealthy
  <2>2. CASE b # op.agent
    <3>1. Undisturbed(b)
      BY <1>18, <2>2 DEF ActivateAgent, CrashTypeOK, TypeOK, Undisturbed, QuietSession, AgentRow
    <3>2. op.agent # b \/ op.step \notin Unfinished
      BY <2>2
    <3> QED BY <2>1, <3>1, <3>2, HealthyStays
  <2>3. CASE b = op.agent
    <3>1. op.step = "activate agent" /\ op'.step = "activate session" /\ op'.agent = b
      BY <1>18, <2>3, StepOn DEF ActivateAgent
    <3>2. /\ sessions' = sessions
          /\ agents'[b].status = "ACTIVE" /\ agents'[b].secret = agents[b].secret
      BY <1>18, <2>3 DEF ActivateAgent, StatusActivated, CrashTypeOK, TypeOK, AgentRow
    <3>3. Busy(b, {"activate session", "activate reply", "register reply"})'
      BY <3>1 DEF Busy
    <3>4. ~Busy(b, {"pair agent", "pair session"})
      BY <3>1 DEF Busy
    <3>5. Newest(PairedOf(b))' = Newest(PairedOf(b))
      BY <3>2 DEF Newest, PairedOf, Of
    <3> QED BY <2>1, <3>2, <3>3, <3>4, <3>5 DEF Healthy
  <2> QED BY <2>2, <2>3
<1>19. CASE ActivateSession
  <2>0. damaged' = damaged
    BY <1>19, Zenon DEF ActivateSession, Step
  <2> SUFFICES ASSUME NEW b \in Agents, b \notin damaged PROVE Healthy(b)'
    BY <2>0 DEF AllHealthy
  <2>1. Healthy(b)
    BY DEF AllHealthy
  <2>2. CASE b # op.agent
    <3>1. Undisturbed(b)
      <4>1. op.session \in Sessions /\ sessions[op.session].agent = op.agent
        BY <1>19 DEF ActivateSession, Step, OpInv, Activating, PairedOf, Of
      <4>2. OnlyRow(op.session) /\ sessions'[op.session].agent = op.agent
        BY <1>19, <4>1, ActivateSessionRows DEF SameOwner
      <4>3. UNCHANGED <<agents, given, toAgent>>
        BY <1>19 DEF ActivateSession
      <4> QED BY <2>2, <4>1, <4>2, <4>3, RowElsewhere DEF Undisturbed
    <3>2. op.agent # b \/ op.step \notin Unfinished
      BY <2>2
    <3> QED BY <2>1, <3>1, <3>2, HealthyStays
  <2>3. CASE b = op.agent
    <3>1. op.step = "activate session" /\ op'.step = "activate reply" /\ op'.agent = b
      BY <1>19, <2>3, StepOn DEF ActivateSession
    <3>2. agents' = agents /\ agents[b].status = "ACTIVE"
      BY <1>19, <2>3, <3>1 DEF ActivateSession, WroteOp
    <3>3. Busy(b, {"activate session", "activate reply", "register reply"})'
      BY <3>1 DEF Busy
    <3>4. ~Busy(b, {"pair agent", "pair session"})
      BY <3>1 DEF Busy
    <3>5. \A t \in Sessions : SameRecord(t)
      BY <1>19, ActivateSessionRows DEF OnlyRow, SameOwner, SameRecord
    <3>6. Newest(PairedOf(b))' = Newest(PairedOf(b))
      BY <3>5, SameNewest
    <3>7. \A t \in Newest(PairedOf(b)) : sessions'[t].secret = sessions[t].secret
      BY <3>5 DEF SameRecord, Newest, PairedOf, Of
    <3> QED BY <2>1, <3>2, <3>3, <3>4, <3>6, <3>7 DEF Healthy
  <2> QED BY <2>2, <2>3
<1>20. CASE ActivateReply
  <2>0. damaged' = damaged
    BY <1>20, Zenon DEF ActivateReply, Return, Leave
  <2> SUFFICES ASSUME NEW b \in Agents, b \notin damaged PROVE Healthy(b)'
    BY <2>0 DEF AllHealthy
  <2>1. Healthy(b)
    BY DEF AllHealthy
  <2>2. CASE b # op.agent
    <3>1. Undisturbed(b)
      <4>1. /\ sessions' = sessions /\ agents' = agents /\ toAgent'[b] = toAgent[b]
        BY <1>20, <2>2 DEF ActivateReply, CrashTypeOK, TypeOK
      <4>2. \A t \in Sessions : given'[t].client = given[t].client
        <5>1. given \in [Sessions -> [client : Nat, agent : Nat]]
          BY DEF CrashTypeOK, TypeOK
        <5>2. given' = [given EXCEPT ![op.session].agent = @ + 1]
          BY <1>20, Zenon DEF ActivateReply
        <5> QED BY <5>1, <5>2, Zenon
      <4> QED BY <4>1, <4>2 DEF Undisturbed, QuietSession, Of
    <3>2. op.agent # b \/ op.step \notin Unfinished
      BY <2>2
    <3> QED BY <2>1, <3>1, <3>2, HealthyStays
  <2>3. CASE b = op.agent
    <3>1. /\ op.step = "activate reply" /\ sessions' = sessions /\ agents' = agents
          /\ toAgent'[b] = sessions[op.session].secret
      BY <1>20, <2>3 DEF ActivateReply, CrashTypeOK, TypeOK
    <3>2. op.session \in Newest(PairedOf(b)) /\ agents[b].status = "ACTIVE"
      BY <2>3, <3>1 DEF OrderOp, Activating, WroteOp
    <3>3. ~Busy(b, {"pair agent", "pair session"})
      BY <3>1 DEF Busy
    <3>4. \A s \in Newest(PairedOf(b)) : sessions[s].secret = agents[b].secret
      BY <2>1, <3>3 DEF Healthy
    <3>5. Newest(PairedOf(b))' = Newest(PairedOf(b))
      BY <3>1 DEF Newest, PairedOf, Of
    <3> QED BY <3>1, <3>2, <3>4, <3>5 DEF Healthy
  <2> QED BY <2>2, <2>3
<1>21. CASE RevokeAgent
  <2>0. damaged' = damaged
    BY <1>21, Zenon DEF RevokeAgent, Return, Leave
  <2>1. op.step \notin Unfinished
    BY <1>21, Zenon DEF RevokeAgent, Return, Leave, Idle, Unfinished, Pairing3
  <2>2. \A t \in Sessions : QuietSession(t)
    BY <1>21 DEF RevokeAgent, QuietSession
  <2>3. \A b \in Agents : Undisturbed(b)
    <3>1. given' = given /\ toAgent' = toAgent
      BY <1>21, Zenon DEF RevokeAgent
    <3>2. \A b \in Agents : /\ agents'[b].secret = agents[b].secret
                            /\ \/ agents'[b].status = agents[b].status
                               \/ agents'[b].status \in {"EXPIRED", "REVOKED", "AWAITING_PAIR"}
      BY <1>21 DEF RevokeAgent, CrashTypeOK, TypeOK, AgentRow
    <3> QED BY <2>2, <3>1, <3>2 DEF Undisturbed, QuietSession, Of
  <2> QED BY <2>0, <2>1, <2>3, HealthyStays DEF AllHealthy
<1>22. CASE RegisterReply
  <2>0. damaged' = damaged
    BY <1>22, Zenon DEF RegisterReply, Return, Leave
  <2> SUFFICES ASSUME NEW b \in Agents, b \notin damaged PROVE Healthy(b)'
    BY <2>0 DEF AllHealthy
  <2>1. Healthy(b)
    BY DEF AllHealthy
  <2>2. CASE b # op.agent
    <3>1. Undisturbed(b)
      BY <1>22, <2>2 DEF RegisterReply, CrashTypeOK, TypeOK, Undisturbed, QuietSession
    <3>2. op.agent # b \/ op.step \notin Unfinished
      BY <2>2
    <3> QED BY <2>1, <3>1, <3>2, HealthyStays
  <2>3. CASE b = op.agent
    <3>1. /\ op.step = "register reply" /\ UNCHANGED <<sessions, agents, given>>
          /\ toAgent'[b] = agents[b].secret
      BY <1>22, <2>3 DEF RegisterReply, CrashTypeOK, TypeOK
    <3>2. ~Busy(b, {"pair agent", "pair session"}) /\ ~Busy(b, Pairing3)
      BY <3>1 DEF Busy, Pairing3
    <3>3. Newest(PairedOf(b))' = Newest(PairedOf(b)) /\ Newest(Of(b))' = Newest(Of(b))
      BY <3>1 DEF Newest, PairedOf, Of
    <3> QED BY <2>1, <3>1, <3>2, <3>3 DEF Healthy
  <2> QED BY <2>2, <2>3
<1>23. CASE ClockTick
  <2>0. damaged' = damaged
    BY <1>23, Zenon DEF ClockTick, Whole, Return, Leave, Tick
  <2>1. op.step \notin Unfinished
    BY <1>23, Zenon DEF ClockTick, Whole, Return, Leave, Tick, Idle, Unfinished, Pairing3
  <2>2. \A t \in Sessions : QuietSession(t)
    BY <1>23 DEF ClockTick, Tick, QuietSession
  <2>3. \A b \in Agents : Undisturbed(b)
    <3>1. given' = given /\ toAgent' = toAgent
      BY <1>23, Zenon DEF ClockTick, Tick
    <3>2. \A b \in Agents : /\ agents'[b].secret = agents[b].secret
                            /\ \/ agents'[b].status = agents[b].status
                               \/ agents'[b].status \in {"EXPIRED", "REVOKED", "AWAITING_PAIR"}
      BY <1>23 DEF ClockTick, Tick
    <3> QED BY <2>2, <3>1, <3>2 DEF Undisturbed, QuietSession, Of
  <2> QED BY <2>0, <2>1, <2>3, HealthyStays DEF AllHealthy
<1>24. CASE Crash
  <2>1. damaged' = damaged \cup {op.agent}
    BY <1>24, Zenon DEF Crash
  <2>2. \A b \in Agents : Undisturbed(b)
    BY <1>24 DEF Crash, rows, Undisturbed, QuietSession
  <2> QED BY <2>1, <2>2, HealthyStays DEF AllHealthy
<1>25. CASE UNCHANGED allVars
  <2>1. UNCHANGED <<agents, sessions, given, toAgent, op, damaged>>
    BY <1>25 DEF allVars, rows
  <2>2. \A b : /\ Newest(Of(b))' = Newest(Of(b)) /\ Newest(PairedOf(b))' = Newest(PairedOf(b))
              /\ \A S : Busy(b, S)' = Busy(b, S)
    BY <2>1, Zenon DEF Newest, PairedOf, Of, Busy
  <2>3. \A b \in Agents : Healthy(b) => Healthy(b)'
    BY <2>1, <2>2 DEF Healthy
  <2> QED BY <2>1, <2>3 DEF AllHealthy
<1> QED BY <1>1, <1>2, <1>3, <1>4, <1>5, <1>6, <1>7, <1>8, <1>9, <1>10, <1>11, <1>12, <1>13,
           <1>14, <1>15, <1>16, <1>17, <1>18, <1>19, <1>20, <1>21, <1>22, <1>23, <1>24, <1>25
         DEF CrashNext

(* The invariant of the healing agents holds before the first handler.      *)
LEMMA InitHeal == CrashInit => HealInv
<1> SUFFICES ASSUME CrashInit PROVE HealInv
  OBVIOUS
<1>1. Init /\ op = IdleOp /\ damaged = {}
  BY DEF CrashInit
<1>2. op.step = "idle"
  BY <1>1, Zenon DEF IdleOp
<1>3. OrderOp /\ WroteOp
  BY <1>2, Zenon DEF OrderOp, WroteOp, Pairing3, Activating
<1>4. Ordered
  BY <1>1, InitOrder DEF OrderInv
<1>5. \A a \in Agents : agents[a].status = "NONE"
  BY <1>1 DEF Init
<1>6. \A s \in Sessions : sessions[s].agent = NoAgent
  BY <1>1, Zenon DEF Init, BlankRow
<1>7. AllHealthy
  BY <1>5, <1>6, NoAgentAssumption DEF AllHealthy, Healthy, Newest, PairedOf, Of
<1> QED BY <1>3, <1>4, <1>7 DEF HealInv

(* It is inductive beside SafeInv.                                          *)
LEMMA NextHeal ==
    ASSUME SafeInv, HealInv, ~SameSecond, [CrashNext]_allVars
    PROVE  HealInv'
BY NextOrdered, NextOrderOp, NextWrote, NextHealthy DEF SafeInv, HealInv

(* What the proofs about crashes carry through every statement.             *)
THEOREM CrashInvariant == CrashSpec => []CrashInv
<1>1. CrashInit => CrashInv
  BY InitSafe, InitHeal DEF CrashInv
<1>2. CrashInv /\ [CrashNext]_allVars => CrashInv'
  BY NextSafe, NextHeal DEF CrashInv
<1> QED BY <1>1, <1>2, PTL DEF CrashSpec

(* If no agent starts two ceremonies within a second, one pairing carried   *)
(* to its reply repairs an agent, whatever crashes left behind: its phone   *)
(* holds the secret requests are checked with, the agent can fetch it, and  *)
(* once ACTIVE it has it.                                                   *)
THEOREM PairingHeals == ASSUME ~SameSecond PROVE CrashSpec => []CrashesHeal
<1>1. ASSUME CrashInv, Idle, NEW a \in Agents \ damaged
      PROVE  /\ agents[a].status = "ACTIVE" => toAgent[a] = agents[a].secret
             /\ agents[a].status = "PAIRED" =>
                   \A s \in Newest(Of(a)) :
                      /\ sessions[s].status = "PAIRED" /\ given[s].client = 1
                      /\ sessions[s].secret = agents[a].secret
                      /\ ~sessions[s].delivered
  <2>1. Healthy(a)
    BY <1>1 DEF CrashInv, HealInv, AllHealthy
  <2>2. ~Busy(a, Pairing3) /\ ~Busy(a, {"activate session", "activate reply", "register reply"})
    BY <1>1 DEF Idle, Busy, Pairing3
  <2> QED BY <2>1, <2>2 DEF Healthy
<1>2. CrashInv => CrashesHeal
  BY <1>1 DEF CrashesHeal
<1> QED BY <1>2, CrashInvariant, PTL

-----------------------------------------------------------------------------
(* How the tables of a handler under way differ from those its last         *)
(* predecessor left, as long as nothing has crashed.                        *)

(* Nobody but the last statement or the reply of a handler changes these.   *)
Frozen ==
    /\ now = atRest.now /\ tokens = atRest.tokens
    /\ given = atRest.given /\ toAgent = atRest.toAgent

AtRest ==
    Idle => /\ agents = atRest.agents /\ sessions = atRest.sessions
            /\ creds = atRest.creds /\ minted = atRest.minted

ClosedAtRest(a) ==
    [t \in Sessions |->
        IF t \in Atomic!Superseded(a)
        THEN [atRest.sessions[t] EXCEPT !.status = "EXPIRED", !.expires = now]
        ELSE atRest.sessions[t]]
NewRow(a) ==
    [BlankRow EXCEPT !.agent = a, !.status = "AWAITING_PAIR",
                     !.created = now, !.expires = now + PairingTTL]
StartSoFar ==
    op.step \in {"start expire", "start insert", "start reply"} =>
        /\ atRest.sessions[op.session].status = "FREE"
        /\ SameSecond \/ \A t \in Atomic!Of(op.agent) : atRest.sessions[t].created < now
        /\ agents = [atRest.agents EXCEPT ![op.agent] = Atomic!RowAtStart(op.agent)]
        /\ creds = atRest.creds /\ minted = atRest.minted
        /\ op.step = "start expire" => sessions = atRest.sessions
        /\ op.step = "start insert" => sessions = ClosedAtRest(op.agent)
        /\ op.step = "start reply" =>
              sessions = [ClosedAtRest(op.agent) EXCEPT ![op.session] = NewRow(op.agent)]

(* The session complete_pairing found open, and whose agent it is. *)
FoundOpen ==
    /\ atRest.sessions[op.session].status = "AWAITING_PAIR"
    /\ atRest.sessions[op.session].agent = op.agent
    /\ creds = atRest.creds
Row == atRest.sessions[op.session]

ExpireSoFar ==
    op.step = "expire agent" =>
        /\ FoundOpen /\ Row.expires <= now
        /\ agents = atRest.agents /\ minted = atRest.minted
        /\ sessions = [atRest.sessions EXCEPT ![op.session] =
              [Row EXCEPT !.status = "EXPIRED", !.attempts = Row.attempts + 1]]

LockSoFar ==
    op.step \in {"lock session", "lock agent"} =>
        /\ FoundOpen /\ now < Row.expires /\ Row.attempts + 1 >= MaxAttempts
        /\ agents = atRest.agents /\ minted = atRest.minted
        /\ op.step = "lock session" =>
              sessions = [atRest.sessions EXCEPT ![op.session] =
                             [Row EXCEPT !.attempts = Row.attempts + 1]]
        /\ op.step = "lock agent" =>
              sessions = [atRest.sessions EXCEPT ![op.session] =
                             [Row EXCEPT !.attempts = Row.attempts + 1, !.status = "EXPIRED"]]

PairSoFar ==
    op.step \in Pairing3 =>
        /\ FoundOpen /\ now < Row.expires
        /\ op.step = "pair agent" => agents = atRest.agents /\ minted = atRest.minted
        /\ op.step # "pair agent" =>
              /\ minted = atRest.minted + 1
              /\ agents = [atRest.agents EXCEPT ![op.agent] =
                              [status |-> "PAIRED", secret |-> minted]]
        /\ op.step # "pair reply" =>
              sessions = [atRest.sessions EXCEPT ![op.session] =
                             [Row EXCEPT !.status = "PAIRED"]]
        /\ op.step = "pair reply" =>
              sessions = [atRest.sessions EXCEPT ![op.session] =
                             [Row EXCEPT !.status = "PAIRED", !.secret = minted]]

PollSoFar ==
    op.step = "poll token" =>
        /\ atRest.agents[op.agent].status = "PAIRED"
        /\ op.session \in Atomic!Newest(Atomic!Of(op.agent))
        /\ ~(Row.token # Null /\ now < Row.tokenExpires)
        /\ agents = atRest.agents /\ creds = atRest.creds /\ minted = atRest.minted
        /\ sessions = Atomic!MarkExpired(op.agent)

ActivateSoFar ==
    op.step \in Activating =>
        /\ Row.token \in 1 .. tokens
        /\ op.session \in Atomic!Newest(Atomic!PairedOf(op.agent))
        /\ Atomic!Activatable(op.session, Row.token)
        /\ creds = [atRest.creds EXCEPT ![op.agent] = @ + 1]
        /\ minted = atRest.minted
        /\ op.step = "activate agent" => agents = atRest.agents
        /\ op.step # "activate agent" =>
              agents = [atRest.agents EXCEPT ![op.agent] =
                           [atRest.agents[op.agent] EXCEPT !.status = "ACTIVE"]]
        /\ op.step # "activate reply" => sessions = atRest.sessions
        /\ op.step = "activate reply" =>
              sessions = [atRest.sessions EXCEPT ![op.session] = Spent(Row)]

RevokeSoFar ==
    op.step = "revoke agent" =>
        /\ atRest.agents[op.agent].status # "NONE"
        /\ agents = atRest.agents /\ sessions = atRest.sessions /\ minted = atRest.minted
        /\ creds = [atRest.creds EXCEPT ![op.agent] = 0]

RegisterSoFar ==
    op.step = "register reply" =>
        /\ LegacyEnabled /\ atRest.agents[op.agent].status = "NONE"
        /\ sessions = atRest.sessions /\ creds = atRest.creds
        /\ minted = atRest.minted + 1
        /\ agents = [atRest.agents EXCEPT ![op.agent] =
                        [status |-> "ACTIVE", secret |-> minted]]

SoFar ==
    /\ Frozen /\ AtRest /\ StartSoFar /\ ExpireSoFar /\ LockSoFar /\ PairSoFar
    /\ PollSoFar /\ ActivateSoFar /\ RevokeSoFar /\ RegisterSoFar

HandlerInv == SafeInv /\ Atomic!TypeOK /\ (crashes = 0 => SoFar)

(* A handler that ends is at rest with the tables it leaves.                *)
LEMMA RestAfter ==
    ASSUME Leave
    PROVE  /\ atRest'.agents = agents' /\ atRest'.sessions = sessions'
           /\ atRest'.creds = creds' /\ atRest'.now = now'
           /\ atRest'.minted = minted' /\ atRest'.tokens = tokens'
           /\ atRest'.given = given' /\ atRest'.toAgent = toAgent'
<1>1. atRest' = [agents |-> agents', sessions |-> sessions', creds |-> creds', now |-> now',
                 minted |-> minted', tokens |-> tokens', given |-> given', toAgent |-> toAgent']
  BY Zenon DEF Leave, Snapshot
<1> QED BY <1>1, Zenon

(* Each part of SoFar speaks of its own steps only.                         *)
LEMMA OtherSteps ==
    /\ op'.step # "idle" => AtRest'
    /\ op'.step \notin {"start expire", "start insert", "start reply"} => StartSoFar'
    /\ op'.step # "expire agent" => ExpireSoFar'
    /\ op'.step \notin {"lock session", "lock agent"} => LockSoFar'
    /\ op'.step \notin Pairing3 => PairSoFar'
    /\ op'.step # "poll token" => PollSoFar'
    /\ op'.step \notin Activating => ActivateSoFar'
    /\ op'.step # "revoke agent" => RevokeSoFar'
    /\ op'.step # "register reply" => RegisterSoFar'
  BY Zenon DEF AtRest, Idle, StartSoFar, ExpireSoFar, LockSoFar, PairSoFar, PollSoFar,
     ActivateSoFar, RevokeSoFar, RegisterSoFar

(* A handler that ends leaves nothing to account for.                       *)
LEMMA LeaveMakes ==
    ASSUME Leave, TypeOK'
    PROVE  Atomic!TypeOK' /\ SoFar'
<1>1. op'.step = "idle"
  BY Zenon DEF Leave, IdleOp
<1>2. Frozen' /\ AtRest'
  BY RestAfter, Zenon DEF Frozen, AtRest
<1>3. Atomic!TypeOK'
  BY RestAfter, Zenon DEF TypeOK, Atomic!TypeOK, AgentRow, Atomic!AgentRow, AgentStatus,
     Atomic!AgentStatus, SessionRow, Atomic!SessionRow, SessionStatus, Atomic!SessionStatus
<1>4. SoFar'
  BY <1>1, <1>2, OtherSteps DEF SoFar, Pairing3, Activating
<1> QED BY <1>3, <1>4

(* Between handlers the tables are those the last one left.                 *)
LEMMA Rests ==
    ASSUME HandlerInv, crashes = 0
    PROVE  /\ Frozen
           /\ Idle => /\ agents = atRest.agents /\ sessions = atRest.sessions
                      /\ creds = atRest.creds /\ minted = atRest.minted
  BY DEF HandlerInv, SoFar, AtRest

(* A statement that is not the last leaves the state its handler found.     *)
LEMMA FrozenStays ==
    ASSUME HandlerInv, crashes = 0, UNCHANGED <<now, tokens, given, toAgent, atRest>>
    PROVE  Frozen' /\ Atomic!TypeOK'
<1>1. Frozen /\ Atomic!TypeOK
  BY DEF HandlerInv, SoFar
<1>2. Frozen'
  BY <1>1, Zenon DEF Frozen
<1>3. Atomic!TypeOK'
  BY <1>1, Zenon DEF Atomic!TypeOK
<1> QED BY <1>2, <1>3

(* Starting: each statement on the way.                                     *)
LEMMA StartAgentSoFar ==
    ASSUME HandlerInv, crashes = 0, NEW a \in Agents, NEW s \in Sessions, StartAgent(a, s)
    PROVE  StartSoFar' /\ op'.step = "start expire"
<1>1. /\ op'.step = "start expire" /\ op'.agent = a /\ op'.session = s
      /\ atRest' = atRest /\ Idle
  BY Zenon DEF StartAgent, Enter
<1>2. /\ agents = atRest.agents /\ sessions = atRest.sessions
      /\ creds = atRest.creds /\ minted = atRest.minted /\ now = atRest.now
  BY <1>1, Rests DEF Frozen
<1>3. /\ sessions[s].status = "FREE"
      /\ SameSecond \/ \A t \in Of(a) : sessions[t].created < now
      /\ agents' = [agents EXCEPT ![a] = RowAtStart(a)]
      /\ UNCHANGED <<sessions, creds, now, minted>>
  BY Zenon DEF StartAgent
<1>4. Of(a) = Atomic!Of(a) /\ RowAtStart(a) = Atomic!RowAtStart(a)
  BY <1>2, Zenon DEF Of, Atomic!Of, RowAtStart, Atomic!RowAtStart, Exists, Atomic!Exists, Null, Atomic!Null
<1>5. Atomic!Of(a)' = Atomic!Of(a) /\ Atomic!RowAtStart(a)' = Atomic!RowAtStart(a)
  BY <1>1, Zenon DEF Atomic!Of, Atomic!RowAtStart, Atomic!Exists
<1> QED BY <1>1, <1>2, <1>3, <1>4, <1>5, Zenon DEF StartSoFar

(* Then the sessions still open are closed,                                 *)
LEMMA StartExpireSoFar ==
    ASSUME HandlerInv, crashes = 0, StartExpire
    PROVE  StartSoFar' /\ op'.step = "start insert"
<1>0. op \in OpRow /\ StartSoFar
  BY DEF HandlerInv, SoFar, SafeInv, CrashTypeOK
<1>1. /\ op.step = "start expire" /\ op'.step = "start insert"
      /\ op'.agent = op.agent /\ op'.session = op.session /\ atRest' = atRest
  BY <1>0, Zenon DEF StartExpire, Step, OpRow
<1>2. /\ atRest.sessions[op.session].status = "FREE"
      /\ SameSecond \/ \A t \in Atomic!Of(op.agent) : atRest.sessions[t].created < now
      /\ agents = [atRest.agents EXCEPT ![op.agent] = Atomic!RowAtStart(op.agent)]
      /\ creds = atRest.creds /\ minted = atRest.minted
      /\ sessions = atRest.sessions
  BY <1>0, <1>1, Zenon DEF StartSoFar
<1>3. sessions' = ExpireOpen(op.agent) /\ UNCHANGED <<agents, creds, now, minted>>
  BY Zenon DEF StartExpire
<1>4. ExpireOpen(op.agent) = ClosedAtRest(op.agent)
  BY <1>2, Zenon DEF ExpireOpen, ClosedAtRest, Superseded, Atomic!Superseded, Of, Atomic!Of, IsOpen, Atomic!IsOpen
<1>5. /\ Atomic!Of(op.agent)' = Atomic!Of(op.agent)
      /\ Atomic!RowAtStart(op.agent)' = Atomic!RowAtStart(op.agent)
      /\ ClosedAtRest(op.agent)' = ClosedAtRest(op.agent)
  BY <1>1, <1>3, Zenon DEF Atomic!Of, Atomic!RowAtStart, Atomic!Exists, ClosedAtRest, Atomic!Superseded, Atomic!IsOpen
<1>6. sessions' = ClosedAtRest(op.agent)'
  BY <1>3, <1>4, <1>5, Zenon
<1> QED BY <1>1, <1>2, <1>3, <1>5, <1>6, Zenon DEF StartSoFar

(* then the new one is inserted,                                            *)
LEMMA StartInsertSoFar ==
    ASSUME HandlerInv, crashes = 0, StartInsert
    PROVE  StartSoFar' /\ op'.step = "start reply"
<1>0. op \in OpRow /\ StartSoFar
  BY DEF HandlerInv, SoFar, SafeInv, CrashTypeOK
<1>1. /\ op.step = "start insert" /\ op'.step = "start reply"
      /\ op'.agent = op.agent /\ op'.session = op.session /\ atRest' = atRest
  BY <1>0, Zenon DEF StartInsert, Step, OpRow
<1>2. /\ atRest.sessions[op.session].status = "FREE"
      /\ SameSecond \/ \A t \in Atomic!Of(op.agent) : atRest.sessions[t].created < now
      /\ agents = [atRest.agents EXCEPT ![op.agent] = Atomic!RowAtStart(op.agent)]
      /\ creds = atRest.creds /\ minted = atRest.minted
      /\ sessions = ClosedAtRest(op.agent)
  BY <1>0, <1>1, Zenon DEF StartSoFar
<1>3. /\ sessions' = [sessions EXCEPT ![op.session] = NewRow(op.agent)]
      /\ UNCHANGED <<agents, creds, now, minted>>
  BY Zenon DEF StartInsert, NewRow
<1>4. /\ Atomic!Of(op.agent)' = Atomic!Of(op.agent)
      /\ Atomic!RowAtStart(op.agent)' = Atomic!RowAtStart(op.agent)
      /\ ClosedAtRest(op.agent)' = ClosedAtRest(op.agent)
      /\ NewRow(op.agent)' = NewRow(op.agent)
  BY <1>1, <1>3, Zenon DEF Atomic!Of, Atomic!RowAtStart, Atomic!Exists, ClosedAtRest,
     Atomic!Superseded, Atomic!IsOpen, NewRow
<1>5. sessions' = [ClosedAtRest(op.agent)' EXCEPT ![op.session] = NewRow(op.agent)']
  BY <1>2, <1>3, <1>4, Zenon
<1> QED BY <1>1, <1>2, <1>3, <1>4, <1>5, Zenon DEF StartSoFar

(* and with the reply this is Start.                                        *)
LEMMA StartReplyMakes ==
    ASSUME HandlerInv, crashes = 0, StartReply
    PROVE  Atomic!Next
<1> DEFINE a == op.agent
           s == op.session
<1>0. StartSoFar /\ Frozen /\ op.step = "start reply"
  BY DEF HandlerInv, SoFar, StartReply
<1>1. /\ atRest.sessions[s].status = "FREE"
      /\ SameSecond \/ \A t \in Atomic!Of(a) : atRest.sessions[t].created < atRest.now
      /\ agents = [atRest.agents EXCEPT ![a] = Atomic!RowAtStart(a)]
      /\ creds = atRest.creds /\ minted = atRest.minted
      /\ sessions = [ClosedAtRest(a) EXCEPT ![s] = NewRow(a)]
      /\ now = atRest.now /\ tokens = atRest.tokens
      /\ given = atRest.given /\ toAgent = atRest.toAgent
  BY <1>0, Zenon DEF StartSoFar, Frozen
<1>2. a \in Agents /\ s \in Sessions
  BY <1>0 DEF HandlerInv, SafeInv, OpInv, Idle
<1>3. UNCHANGED rows /\ Leave
  BY Zenon DEF StartReply
<1>4. /\ atRest'.agents = agents /\ atRest'.sessions = sessions
      /\ atRest'.creds = creds /\ atRest'.now = now
      /\ atRest'.minted = minted /\ atRest'.tokens = tokens
      /\ atRest'.given = given /\ atRest'.toAgent = toAgent
  BY <1>3, RestAfter, Zenon DEF rows
<1>5. sessions = [t \in Sessions |->
          IF t = s THEN [BlankRow EXCEPT !.agent = a,
                                         !.status = "AWAITING_PAIR",
                                         !.created = atRest.now,
                                         !.expires = atRest.now + PairingTTL]
          ELSE IF t \in Atomic!Superseded(a)
          THEN [atRest.sessions[t] EXCEPT !.status = "EXPIRED", !.expires = atRest.now]
          ELSE atRest.sessions[t]]
  BY <1>1, Zenon DEF ClosedAtRest, NewRow
<1>6. Atomic!Start(a, s)
  BY <1>1, <1>4, <1>5, Zenon DEF Atomic!Start, Atomic!BlankRow, BlankRow, Atomic!Null, Null
<1> QED BY <1>2, <1>6, Zenon DEF Atomic!Next

(* Refusing: a code past its time, a wrong PIN, the one too many.           *)
LEMMA ExpireSessionSoFar ==
    ASSUME HandlerInv, crashes = 0, NEW s \in Sessions, ExpireSession(s)
    PROVE  ExpireSoFar' /\ op'.step = "expire agent"
<1>0. sessions \in [Sessions -> SessionRow]
  BY DEF HandlerInv, SafeInv, CrashTypeOK, TypeOK
<1>1. /\ op'.step = "expire agent" /\ op'.agent = sessions[s].agent /\ op'.session = s
      /\ atRest' = atRest /\ Idle
  BY Zenon DEF ExpireSession, Enter
<1>2. /\ agents = atRest.agents /\ sessions = atRest.sessions
      /\ creds = atRest.creds /\ minted = atRest.minted
  BY <1>1, Rests
<1>3. /\ sessions[s].status = "AWAITING_PAIR" /\ sessions[s].expires <= now
      /\ sessions' = [sessions EXCEPT ![s] = [sessions[s] EXCEPT !.status = "EXPIRED",
                                                 !.attempts = sessions[s].attempts + 1]]
      /\ UNCHANGED <<agents, creds, now, minted>>
  BY <1>0, Zenon DEF ExpireSession, IsOpen
<1> QED BY <1>1, <1>2, <1>3, Zenon DEF ExpireSoFar, FoundOpen, Row

(* Locking closes the session that was charged.                             *)
LEMMA LockSessionSoFar ==
    ASSUME HandlerInv, crashes = 0, LockSession
    PROVE  LockSoFar' /\ op'.step = "lock agent"
<1> DEFINE s == op.session
           charged == [Row EXCEPT !.attempts = Row.attempts + 1]
<1>0. /\ op \in OpRow /\ LockSoFar /\ sessions \in [Sessions -> SessionRow]
      /\ Atomic!TypeOK
  BY DEF HandlerInv, SoFar, SafeInv, CrashTypeOK, TypeOK
<1>1. /\ op.step = "lock session" /\ op'.step = "lock agent"
      /\ op'.agent = op.agent /\ op'.session = s /\ atRest' = atRest
  BY <1>0, Zenon DEF LockSession, Step, OpRow
<1>2. /\ FoundOpen /\ now < Row.expires /\ Row.attempts + 1 >= MaxAttempts
      /\ agents = atRest.agents /\ minted = atRest.minted
      /\ sessions = [atRest.sessions EXCEPT ![s] = charged]
  BY <1>0, <1>1, Zenon DEF LockSoFar
<1>3. s \in Sessions
  BY <1>1 DEF HandlerInv, SafeInv, OpInv
<1>4. atRest.sessions \in [Sessions -> SessionRow]
  BY <1>0, Zenon DEF Atomic!TypeOK, SessionRow, Atomic!SessionRow, SessionStatus, Atomic!SessionStatus
<1>5. sessions[s] = charged
  BY <1>2, <1>3, <1>4, Zenon
<1>6. /\ sessions' = [sessions EXCEPT ![s] = [charged EXCEPT !.status = "EXPIRED"]]
      /\ UNCHANGED <<agents, creds, now, minted>>
  BY <1>0, <1>3, <1>5, Zenon DEF LockSession
<1> HIDE DEF charged
<1>7. sessions' = [atRest.sessions EXCEPT ![s] = [charged EXCEPT !.status = "EXPIRED"]]
  BY <1>2, <1>3, <1>4, <1>6
<1>8. [charged EXCEPT !.status = "EXPIRED"] = [Row EXCEPT !.attempts = Row.attempts + 1, !.status = "EXPIRED"]
  BY Zenon DEF charged
<1>9. Row' = Row /\ (FoundOpen /\ UNCHANGED creds => FoundOpen')
  BY <1>1, Zenon DEF Row, FoundOpen
<1> QED BY <1>1, <1>2, <1>6, <1>7, <1>8, <1>9, Zenon DEF LockSoFar

(* The wrong PIN that tries a session out is followed by the lock.          *)
LEMMA WrongPinGoesOn ==
    ASSUME HandlerInv, crashes = 0, NEW s \in Sessions, WrongPin(s), TriedOut(s)
    PROVE  LockSoFar' /\ op'.step = "lock session" /\ atRest' = atRest
<1>0. sessions \in [Sessions -> SessionRow]
  BY DEF HandlerInv, SafeInv, CrashTypeOK, TypeOK
<1>1. /\ op'.step = "lock session" /\ op'.agent = sessions[s].agent /\ op'.session = s
      /\ atRest' = atRest /\ Idle
  <2>1. Enter("lock session", sessions[s].agent, s)
    BY Zenon DEF WrongPin
  <2> QED BY <2>1, Zenon DEF Enter
<1>2. /\ agents = atRest.agents /\ sessions = atRest.sessions
      /\ creds = atRest.creds /\ minted = atRest.minted
  BY <1>1, Rests
<1>3. /\ sessions[s].status = "AWAITING_PAIR" /\ now < sessions[s].expires
      /\ sessions' = [sessions EXCEPT ![s] = [sessions[s] EXCEPT !.attempts = sessions[s].attempts + 1]]
      /\ UNCHANGED <<agents, creds, now, minted>>
  BY <1>0, Zenon DEF WrongPin, IsOpen
<1>4. sessions[s].attempts + 1 >= MaxAttempts
  <2>1. sessions'[s] = [sessions[s] EXCEPT !.attempts = sessions[s].attempts + 1]
    BY <1>0, <1>3, Zenon
  <2>2. sessions'[s].attempts = sessions[s].attempts + 1
    BY <1>0, <2>1, Zenon DEF SessionRow
  <2> QED BY <2>2, Zenon DEF TriedOut
<1> QED BY <1>1, <1>2, <1>3, <1>4, Zenon DEF LockSoFar, FoundOpen, Row

(* Any other wrong PIN is the whole of CompleteWrongPin.                    *)
LEMMA WrongPinMakes ==
    ASSUME HandlerInv, crashes = 0, NEW s \in Sessions, WrongPin(s), ~TriedOut(s)
    PROVE  Atomic!Next /\ Leave
<1>0. sessions \in [Sessions -> SessionRow] /\ agents \in [Agents -> AgentRow]
  BY DEF HandlerInv, SafeInv, CrashTypeOK, TypeOK
<1>1. Idle /\ Leave
  BY Zenon DEF WrongPin, Whole, Return
<1>2. /\ agents = atRest.agents /\ sessions = atRest.sessions
      /\ creds = atRest.creds /\ minted = atRest.minted
      /\ now = atRest.now /\ tokens = atRest.tokens
      /\ given = atRest.given /\ toAgent = atRest.toAgent
  BY <1>1, Rests DEF Frozen
<1>3. /\ sessions[s].status = "AWAITING_PAIR" /\ now < sessions[s].expires
      /\ sessions' = [sessions EXCEPT ![s] = [sessions[s] EXCEPT !.attempts = sessions[s].attempts + 1]]
      /\ UNCHANGED <<agents, creds, now, minted, tokens, given, toAgent>>
  BY <1>0, Zenon DEF WrongPin, IsOpen
<1>4. ~Atomic!Locks(s)
  <2>1. sessions'[s] = [sessions[s] EXCEPT !.attempts = sessions[s].attempts + 1]
    BY <1>0, <1>3, Zenon
  <2>2. sessions'[s].attempts = sessions[s].attempts + 1
    BY <1>0, <2>1, Zenon DEF SessionRow
  <2> QED BY <1>2, <2>2, Zenon DEF TriedOut, Atomic!Locks
<1>5. /\ [agents EXCEPT ![sessions[s].agent].status = agents[sessions[s].agent].status] = agents
      /\ [sessions[s] EXCEPT !.attempts = sessions[s].attempts + 1,
                             !.status = sessions[s].status]
            = [sessions[s] EXCEPT !.attempts = sessions[s].attempts + 1]
  <2>1. sessions[s] \in SessionRow
    BY <1>0
  <2>2. [[sessions[s] EXCEPT !.attempts = sessions[s].attempts + 1] EXCEPT !.status = sessions[s].status]
            = [sessions[s] EXCEPT !.attempts = sessions[s].attempts + 1]
    BY <2>1 DEF SessionRow
  <2>3. [agents EXCEPT ![sessions[s].agent].status = agents[sessions[s].agent].status] = agents
    BY <1>0 DEF AgentRow
  <2> QED BY <2>2, <2>3, Zenon
<1>6. /\ [agents EXCEPT ![sessions[s].agent].status = IF Atomic!Locks(s) THEN "EXPIRED" ELSE @] = agents
      /\ [sessions EXCEPT ![s].attempts = @ + 1,
                          ![s].status = IF Atomic!Locks(s) THEN "EXPIRED" ELSE @]
         = [sessions EXCEPT ![s] = [sessions[s] EXCEPT !.attempts = sessions[s].attempts + 1]]
  BY <1>0, <1>4, <1>5, Zenon
<1>7. Atomic!CompleteWrongPin(s)
  BY <1>1, <1>2, <1>3, <1>6, RestAfter, Zenon DEF Atomic!CompleteWrongPin, Atomic!IsOpen
<1> QED BY <1>1, <1>7, Zenon DEF Atomic!Next

(* The tables a handler found are well typed.                               *)
LEMMA RowsAtRest ==
    ASSUME HandlerInv
    PROVE  /\ atRest.sessions \in [Sessions -> SessionRow]
           /\ atRest.agents \in [Agents -> AgentRow]
           /\ atRest.creds \in [Agents -> Nat]
           /\ atRest.given \in [Sessions -> [client : Nat, agent : Nat]]
           /\ atRest.toAgent \in [Agents -> Nat]
<1>1. Atomic!TypeOK
  BY DEF HandlerInv
<1> QED BY <1>1, Zenon DEF Atomic!TypeOK, SessionRow, Atomic!SessionRow, SessionStatus,
         Atomic!SessionStatus, AgentRow, Atomic!AgentRow, AgentStatus, Atomic!AgentStatus

(* The agent's row is the last statement of both refusals.                  *)
LEMMA AgentExpiredMakes ==
    ASSUME HandlerInv, crashes = 0, AgentExpired
    PROVE  Atomic!Next
<1> DEFINE s == op.session
<1>0. /\ ExpireSoFar /\ LockSoFar /\ Frozen
      /\ atRest.sessions \in [Sessions -> SessionRow]
  BY RowsAtRest DEF HandlerInv, SoFar
<1>1. /\ op.step \in {"expire agent", "lock agent"}
      /\ agents' = [agents EXCEPT ![op.agent].status = "EXPIRED"]
      /\ UNCHANGED <<sessions, creds, now, minted, tokens, given, toAgent>>
      /\ Leave
  BY Zenon DEF AgentExpired, Return
<1>2. s \in Sessions
  BY <1>1 DEF HandlerInv, SafeInv, OpInv
<1>3. /\ now = atRest.now /\ tokens = atRest.tokens
      /\ given = atRest.given /\ toAgent = atRest.toAgent
  BY <1>0, Zenon DEF Frozen
<1>4. CASE op.step = "expire agent"
  <2>1. /\ atRest.sessions[s].status = "AWAITING_PAIR"
        /\ atRest.sessions[s].agent = op.agent
        /\ atRest.sessions[s].expires <= now
        /\ creds = atRest.creds /\ agents = atRest.agents /\ minted = atRest.minted
        /\ sessions = [atRest.sessions EXCEPT ![s] =
              [atRest.sessions[s] EXCEPT !.status = "EXPIRED",
                                         !.attempts = atRest.sessions[s].attempts + 1]]
    BY <1>0, <1>4, Zenon DEF ExpireSoFar, FoundOpen, Row
  <2>2. sessions = [atRest.sessions EXCEPT ![s].status = "EXPIRED", ![s].attempts = @ + 1]
    BY <1>0, <2>1, Zenon
  <2>3. Atomic!CompleteExpired(s)
    BY <1>1, <1>3, <2>1, <2>2, RestAfter, Zenon DEF Atomic!CompleteExpired, Atomic!IsOpen
  <2> QED BY <1>2, <2>3, Zenon DEF Atomic!Next
<1>5. CASE op.step = "lock agent"
  <2>1. /\ atRest.sessions[s].status = "AWAITING_PAIR"
        /\ atRest.sessions[s].agent = op.agent
        /\ now < atRest.sessions[s].expires
        /\ Atomic!Locks(s)
        /\ creds = atRest.creds /\ agents = atRest.agents /\ minted = atRest.minted
        /\ sessions = [atRest.sessions EXCEPT ![s] =
              [atRest.sessions[s] EXCEPT !.attempts = atRest.sessions[s].attempts + 1,
                                         !.status = "EXPIRED"]]
    BY <1>0, <1>5, Zenon DEF LockSoFar, FoundOpen, Row, Atomic!Locks
  <2>2. sessions = [atRest.sessions EXCEPT ![s].attempts = @ + 1, ![s].status = "EXPIRED"]
    BY <1>0, <2>1, Zenon
  <2>3. /\ sessions = [atRest.sessions EXCEPT ![s].attempts = @ + 1,
                             ![s].status = IF Atomic!Locks(s) THEN "EXPIRED" ELSE @]
        /\ agents' = [atRest.agents EXCEPT ![atRest.sessions[s].agent].status =
                             IF Atomic!Locks(s) THEN "EXPIRED" ELSE @]
    BY <1>1, <2>1, <2>2, Zenon
  <2>4. Atomic!CompleteWrongPin(s)
    BY <1>1, <1>3, <2>1, <2>3, RestAfter, Zenon DEF Atomic!CompleteWrongPin, Atomic!IsOpen
  <2> QED BY <1>2, <2>4, Zenon DEF Atomic!Next
<1> QED BY <1>1, <1>4, <1>5

(* Pairing: the session, the agent, the secret, the reply.                  *)
LEMMA PairSessionSoFar ==
    ASSUME HandlerInv, crashes = 0, NEW s \in Sessions, PairSession(s)
    PROVE  PairSoFar' /\ op'.step = "pair agent" /\ atRest' = atRest
<1>0. sessions \in [Sessions -> SessionRow]
  BY DEF HandlerInv, SafeInv, CrashTypeOK, TypeOK
<1>1. /\ op'.step = "pair agent" /\ op'.agent = sessions[s].agent /\ op'.session = s
      /\ atRest' = atRest /\ Idle
  BY Zenon DEF PairSession, Enter
<1>2. /\ agents = atRest.agents /\ sessions = atRest.sessions
      /\ creds = atRest.creds /\ minted = atRest.minted
  BY <1>1, Rests
<1>3. /\ sessions[s].status = "AWAITING_PAIR" /\ now < sessions[s].expires
      /\ sessions' = [sessions EXCEPT ![s] = [sessions[s] EXCEPT !.status = "PAIRED"]]
      /\ UNCHANGED <<agents, creds, now, minted>>
  BY <1>0, Zenon DEF PairSession, IsOpen
<1> QED BY <1>1, <1>2, <1>3, Zenon DEF PairSoFar, FoundOpen, Row, Pairing3

(* The secret is minted and goes into the agent's row,                      *)
LEMMA PairAgentSoFar ==
    ASSUME HandlerInv, crashes = 0, PairAgent
    PROVE  PairSoFar' /\ op'.step = "pair session"
<1>0. op \in OpRow /\ PairSoFar
  BY DEF HandlerInv, SoFar, SafeInv, CrashTypeOK
<1>1. /\ op.step = "pair agent" /\ op'.step = "pair session"
      /\ op'.agent = op.agent /\ op'.session = op.session /\ atRest' = atRest
  BY <1>0, Zenon DEF PairAgent, Step, OpRow
<1>2. /\ FoundOpen /\ now < Row.expires
      /\ agents = atRest.agents /\ minted = atRest.minted
      /\ sessions = [atRest.sessions EXCEPT ![op.session] = [Row EXCEPT !.status = "PAIRED"]]
  BY <1>0, <1>1, Zenon DEF PairSoFar, Pairing3
<1>3. /\ minted' = minted + 1
      /\ agents' = [agents EXCEPT ![op.agent] = [status |-> "PAIRED", secret |-> minted']]
      /\ UNCHANGED <<sessions, creds, now>>
  BY Zenon DEF PairAgent, RowPaired
<1>4. Row' = Row /\ FoundOpen'
  BY <1>1, <1>2, <1>3, Zenon DEF Row, FoundOpen
<1> QED BY <1>1, <1>2, <1>3, <1>4, Zenon DEF PairSoFar

(* then into the session's,                                                 *)
LEMMA StoreSecretSoFar ==
    ASSUME HandlerInv, crashes = 0, StoreSecret
    PROVE  PairSoFar' /\ op'.step = "pair reply"
<1> DEFINE s == op.session
           paired == [Row EXCEPT !.status = "PAIRED"]
<1>0. /\ op \in OpRow /\ PairSoFar /\ sessions \in [Sessions -> SessionRow]
      /\ atRest.sessions \in [Sessions -> SessionRow]
  BY RowsAtRest DEF HandlerInv, SoFar, SafeInv, CrashTypeOK, TypeOK
<1>1. /\ op.step = "pair session" /\ op'.step = "pair reply"
      /\ op'.agent = op.agent /\ op'.session = s /\ atRest' = atRest
  BY <1>0, Zenon DEF StoreSecret, Step, OpRow
<1>2. /\ FoundOpen /\ now < Row.expires
      /\ minted = atRest.minted + 1
      /\ agents = [atRest.agents EXCEPT ![op.agent] = [status |-> "PAIRED", secret |-> minted]]
      /\ sessions = [atRest.sessions EXCEPT ![s] = paired]
  BY <1>0, <1>1, Zenon DEF PairSoFar, Pairing3
<1>3. s \in Sessions
  BY <1>1 DEF HandlerInv, SafeInv, OpInv
<1>4. sessions[s] = paired
  BY <1>0, <1>2, <1>3, Zenon
<1>5. /\ sessions' = [sessions EXCEPT ![s] = [paired EXCEPT !.secret = minted]]
      /\ UNCHANGED <<agents, creds, now, minted>>
  BY <1>0, <1>3, <1>4, Zenon DEF StoreSecret
<1> HIDE DEF paired
<1>6. sessions' = [atRest.sessions EXCEPT ![s] = [paired EXCEPT !.secret = minted]]
  BY <1>0, <1>2, <1>3, <1>5
<1>7. [paired EXCEPT !.secret = minted] = [Row EXCEPT !.status = "PAIRED", !.secret = minted]
  BY Zenon DEF paired
<1>8. Row' = Row /\ FoundOpen'
  BY <1>1, <1>2, <1>5, Zenon DEF Row, FoundOpen
<1> QED BY <1>1, <1>2, <1>5, <1>6, <1>7, <1>8, Zenon DEF PairSoFar

(* and with the reply this is Complete.                                     *)
LEMMA PairReplyMakes ==
    ASSUME HandlerInv, crashes = 0, PairReply
    PROVE  Atomic!Next
<1> DEFINE s == op.session
<1>0. PairSoFar /\ Frozen /\ atRest.sessions \in [Sessions -> SessionRow]
  BY RowsAtRest DEF HandlerInv, SoFar
<1>1. /\ op.step = "pair reply"
      /\ given' = [given EXCEPT ![s].client = @ + 1]
      /\ UNCHANGED <<agents, sessions, creds, now, minted, tokens, toAgent>>
      /\ Leave
  BY Zenon DEF PairReply
<1>2. s \in Sessions
  BY <1>1 DEF HandlerInv, SafeInv, OpInv
<1>3. /\ now = atRest.now /\ tokens = atRest.tokens
      /\ given = atRest.given /\ toAgent = atRest.toAgent
  BY <1>0, Zenon DEF Frozen
<1>4. /\ atRest.sessions[s].status = "AWAITING_PAIR"
      /\ atRest.sessions[s].agent = op.agent
      /\ now < atRest.sessions[s].expires
      /\ creds = atRest.creds
      /\ minted = atRest.minted + 1
      /\ agents = [atRest.agents EXCEPT ![op.agent] = [status |-> "PAIRED", secret |-> minted]]
      /\ sessions = [atRest.sessions EXCEPT ![s] =
            [atRest.sessions[s] EXCEPT !.status = "PAIRED", !.secret = minted]]
  BY <1>0, <1>1, Zenon DEF PairSoFar, FoundOpen, Row, Pairing3
<1>5. sessions = [atRest.sessions EXCEPT ![s].status = "PAIRED", ![s].secret = minted]
  BY <1>0, <1>4, Zenon
<1>6. Atomic!Complete(s)
  BY <1>1, <1>3, <1>4, <1>5, RestAfter, Zenon DEF Atomic!Complete, Atomic!IsOpen
<1> QED BY <1>2, <1>6, Zenon DEF Atomic!Next

(* At rest the queries find what they find between handlers.                *)
LEMMA QueriesAtRest ==
    ASSUME HandlerInv, crashes = 0, Idle
    PROVE  /\ Atomic!TypeOK
           /\ \A a : /\ Of(a) = Atomic!Of(a) /\ PairedOf(a) = Atomic!PairedOf(a)
                     /\ Exists(a) <=> Atomic!Exists(a)
                     /\ MarkExpired(a) = Atomic!MarkExpired(a)
           /\ \A S : Newest(S) = Atomic!Newest(S)
           /\ \A s, t : Activatable(s, t) <=> Atomic!Activatable(s, t)
<1>1. agents = atRest.agents /\ sessions = atRest.sessions /\ now = atRest.now
  BY Rests DEF Frozen
<1>2. \A a : /\ Of(a) = Atomic!Of(a) /\ PairedOf(a) = Atomic!PairedOf(a)
             /\ Exists(a) <=> Atomic!Exists(a)
  BY <1>1, Zenon DEF Of, Atomic!Of, PairedOf, Atomic!PairedOf, Exists, Atomic!Exists
<1>3. \A a : MarkExpired(a) = Atomic!MarkExpired(a)
  BY <1>1, Zenon DEF Of, Atomic!Of, IsOpen, Atomic!IsOpen, MarkExpired, Atomic!MarkExpired,
     TextExpired, Atomic!TextExpired, Day, Atomic!Day
<1>4. \A S : Newest(S) = Atomic!Newest(S)
  BY <1>1, Zenon DEF Newest, Atomic!Newest
<1>5. \A s, t : Activatable(s, t) <=> Atomic!Activatable(s, t)
  BY <1>1, Zenon DEF Activatable, Atomic!Activatable, Null, Atomic!Null
<1> QED BY <1>2, <1>3, <1>4, <1>5 DEF HandlerInv

(* Polling: the expiry, then the token if a new one is due.                 *)
LEMMA PollExpireDoes ==
    ASSUME HandlerInv, crashes = 0, NEW a \in Agents, PollExpire(a)
    PROVE  \/ Atomic!Next /\ Leave
           \/ PollSoFar' /\ op'.step = "poll token" /\ atRest' = atRest
<1>1. Idle
  BY Zenon DEF PollExpire, Enter, Whole
<1>2. /\ agents = atRest.agents /\ sessions = atRest.sessions
      /\ creds = atRest.creds /\ minted = atRest.minted
      /\ now = atRest.now /\ tokens = atRest.tokens
      /\ given = atRest.given /\ toAgent = atRest.toAgent
  BY <1>1, Rests DEF Frozen
<1>3. /\ Exists(a) /\ sessions' = MarkExpired(a)
      /\ UNCHANGED <<agents, creds, now, minted, tokens, given, toAgent>>
  BY Zenon DEF PollExpire
<1>4. /\ Of(a) = Atomic!Of(a) /\ MarkExpired(a) = Atomic!MarkExpired(a)
      /\ Newest(Of(a)) = Atomic!Newest(Atomic!Of(a)) /\ Atomic!Exists(a)
  BY <1>1, <1>3, QueriesAtRest, Zenon
<1>5. CASE agents[a].status # "PAIRED"
  <2>1. Leave
    BY <1>5, Zenon DEF PollExpire, Whole, Return
  <2>2. Atomic!PollUnpaired(a)
    BY <1>2, <1>3, <1>4, <1>5, <2>1, RestAfter, Zenon DEF Atomic!PollUnpaired
  <2> QED BY <2>1, <2>2, Zenon DEF Atomic!Next
<1>6. CASE agents[a].status = "PAIRED"
  <2>1. PICK s \in Newest(Of(a)) :
              IF sessions[s].token # Null /\ now < sessions[s].tokenExpires
              THEN Whole
              ELSE Enter("poll token", a, s)
    BY <1>6, Zenon DEF PollExpire
  <2>2. CASE sessions[s].token # Null /\ now < sessions[s].tokenExpires
    <3>1. Leave
      BY <2>1, <2>2, Zenon DEF Whole, Return
    <3>2. Atomic!PollPaired(a)
      BY <1>2, <1>3, <1>4, <1>6, <2>1, <2>2, <3>1, RestAfter, Zenon
         DEF Atomic!PollPaired, Atomic!Null, Null
    <3> QED BY <3>1, <3>2, Zenon DEF Atomic!Next
  <2>3. CASE ~(sessions[s].token # Null /\ now < sessions[s].tokenExpires)
    <3>1. Enter("poll token", a, s)
      BY <2>1, <2>3, Zenon
    <3>2. /\ op'.step = "poll token" /\ op'.agent = a /\ op'.session = s
          /\ atRest' = atRest
      BY <3>1, Zenon DEF Enter
    <3>3. /\ Atomic!MarkExpired(a)' = Atomic!MarkExpired(a)
          /\ Atomic!Newest(Atomic!Of(a))' = Atomic!Newest(Atomic!Of(a))
      BY <3>2, Zenon DEF Atomic!MarkExpired, Atomic!Newest, Atomic!Of, Atomic!IsOpen,
         Atomic!TextExpired, Atomic!Day
    <3>4. PollSoFar'
      BY <1>2, <1>3, <1>4, <1>6, <2>1, <2>3, <3>2, <3>3, Zenon DEF PollSoFar, Row
    <3> QED BY <3>2, <3>4
  <2> QED BY <2>2, <2>3
<1> QED BY <1>5, <1>6

(* With the new token the poll is PollPaired.                               *)
LEMMA PollTokenMakes ==
    ASSUME HandlerInv, crashes = 0, PollToken
    PROVE  Atomic!Next
<1> DEFINE a == op.agent
           s == op.session
<1>0. PollSoFar /\ Frozen /\ sessions \in [Sessions -> SessionRow]
  BY DEF HandlerInv, SoFar, SafeInv, CrashTypeOK, TypeOK
<1>1. /\ op.step = "poll token"
      /\ tokens' = tokens + 1
      /\ sessions' = [sessions EXCEPT ![s].token = tokens', ![s].tokenExpires = now + ActivationTTL]
      /\ UNCHANGED <<agents, creds, now, minted, given, toAgent>>
      /\ Leave
  BY Zenon DEF PollToken, Return
<1>2. a \in Agents /\ s \in Sessions
  BY <1>1 DEF HandlerInv, SafeInv, OpInv, Idle
<1>3. /\ now = atRest.now /\ tokens = atRest.tokens
      /\ given = atRest.given /\ toAgent = atRest.toAgent
  BY <1>0, Zenon DEF Frozen
<1>4. /\ atRest.agents[a].status = "PAIRED"
      /\ s \in Atomic!Newest(Atomic!Of(a))
      /\ ~(atRest.sessions[s].token # Null /\ now < atRest.sessions[s].tokenExpires)
      /\ agents = atRest.agents /\ creds = atRest.creds /\ minted = atRest.minted
      /\ sessions = Atomic!MarkExpired(a)
  BY <1>0, <1>1, Zenon DEF PollSoFar, Row
<1>5. sessions' = [sessions EXCEPT ![s] =
                     [@ EXCEPT !.token = tokens', !.tokenExpires = now + ActivationTTL]]
  BY <1>0, <1>1, <1>2, Zenon
<1>6. Atomic!PollPaired(a)
  BY <1>1, <1>3, <1>4, <1>5, RestAfter, Zenon DEF Atomic!PollPaired, Atomic!Null, Null
<1> QED BY <1>2, <1>6, Zenon DEF Atomic!Next

(* Activating: the credential, the agent, the session, the reply.           *)
LEMMA ActivateCredentialSoFar ==
    ASSUME HandlerInv, crashes = 0, NEW a \in Agents, NEW t \in 1 .. tokens,
           ActivateCredential(a, t)
    PROVE  ActivateSoFar' /\ op'.step = "activate agent" /\ atRest' = atRest
<1>1. PICK s \in Newest(PairedOf(a)) : Activatable(s, t) /\ Enter("activate agent", a, s)
  BY Zenon DEF ActivateCredential
<1>2. /\ op'.step = "activate agent" /\ op'.agent = a /\ op'.session = s
      /\ atRest' = atRest /\ Idle
  BY <1>1, Zenon DEF Enter
<1>3. /\ agents = atRest.agents /\ sessions = atRest.sessions
      /\ creds = atRest.creds /\ minted = atRest.minted
  BY <1>2, Rests
<1>4. /\ creds' = [creds EXCEPT ![a] = @ + 1]
      /\ UNCHANGED <<agents, sessions, now, minted, tokens>>
  BY Zenon DEF ActivateCredential
<1>5. /\ s \in Atomic!Newest(Atomic!PairedOf(a)) /\ Atomic!Activatable(s, t)
      /\ atRest.sessions[s].token = t
  BY <1>1, <1>2, <1>3, QueriesAtRest, Zenon DEF Activatable
<1>6. /\ Atomic!Newest(Atomic!PairedOf(a))' = Atomic!Newest(Atomic!PairedOf(a))
      /\ Atomic!Activatable(s, t)' = Atomic!Activatable(s, t)
  BY <1>2, Zenon DEF Atomic!Newest, Atomic!PairedOf, Atomic!Of, Atomic!Activatable
<1>7. Row' = atRest.sessions[s] /\ Row'.token \in 1 .. tokens'
  BY <1>2, <1>4, <1>5, Zenon DEF Row
<1> QED BY <1>2, <1>3, <1>4, <1>5, <1>6, <1>7, Zenon DEF ActivateSoFar

(* The agent's row is made ACTIVE,                                          *)
LEMMA ActivateAgentSoFar ==
    ASSUME HandlerInv, crashes = 0, ActivateAgent
    PROVE  ActivateSoFar' /\ op'.step = "activate session"
<1>0. op \in OpRow /\ ActivateSoFar /\ agents \in [Agents -> AgentRow]
  BY DEF HandlerInv, SoFar, SafeInv, CrashTypeOK, TypeOK
<1>1. /\ op.step = "activate agent" /\ op'.step = "activate session"
      /\ op'.agent = op.agent /\ op'.session = op.session /\ atRest' = atRest
  BY <1>0, Zenon DEF ActivateAgent, Step, OpRow
<1>2. /\ Row.token \in 1 .. tokens
      /\ op.session \in Atomic!Newest(Atomic!PairedOf(op.agent))
      /\ Atomic!Activatable(op.session, Row.token)
      /\ creds = [atRest.creds EXCEPT ![op.agent] = @ + 1]
      /\ minted = atRest.minted
      /\ agents = atRest.agents /\ sessions = atRest.sessions
  BY <1>0, <1>1, Zenon DEF ActivateSoFar, Activating
<1>3. /\ agents' = [agents EXCEPT ![op.agent] = [agents[op.agent] EXCEPT !.status = "ACTIVE"]]
      /\ UNCHANGED <<sessions, creds, now, minted, tokens>>
  BY <1>0, Zenon DEF ActivateAgent, StatusActivated
<1>4. /\ Atomic!Newest(Atomic!PairedOf(op.agent))' = Atomic!Newest(Atomic!PairedOf(op.agent))
      /\ Atomic!Activatable(op.session, Row.token)' = Atomic!Activatable(op.session, Row.token)
      /\ Row' = Row
  BY <1>1, <1>3, Zenon DEF Atomic!Newest, Atomic!PairedOf, Atomic!Of, Atomic!Activatable, Row
<1> QED BY <1>1, <1>2, <1>3, <1>4, Zenon DEF ActivateSoFar

(* the session's token is spent,                                            *)
LEMMA ActivateSessionSoFar ==
    ASSUME HandlerInv, crashes = 0, ActivateSession
    PROVE  ActivateSoFar' /\ op'.step = "activate reply"
<1>0. op \in OpRow /\ ActivateSoFar /\ sessions \in [Sessions -> SessionRow]
  BY DEF HandlerInv, SoFar, SafeInv, CrashTypeOK, TypeOK
<1>1. /\ op.step = "activate session" /\ op'.step = "activate reply"
      /\ op'.agent = op.agent /\ op'.session = op.session /\ atRest' = atRest
  BY <1>0, Zenon DEF ActivateSession, Step, OpRow
<1>2. /\ Row.token \in 1 .. tokens
      /\ op.session \in Atomic!Newest(Atomic!PairedOf(op.agent))
      /\ Atomic!Activatable(op.session, Row.token)
      /\ creds = [atRest.creds EXCEPT ![op.agent] = @ + 1]
      /\ minted = atRest.minted
      /\ agents = [atRest.agents EXCEPT ![op.agent] =
                     [atRest.agents[op.agent] EXCEPT !.status = "ACTIVE"]]
      /\ sessions = atRest.sessions
  BY <1>0, <1>1, Zenon DEF ActivateSoFar, Activating
<1>3. /\ sessions' = [sessions EXCEPT ![op.session] = Spent(sessions[op.session])]
      /\ UNCHANGED <<agents, creds, now, minted, tokens>>
  BY <1>0, Zenon DEF ActivateSession, Spend
<1>4. /\ Atomic!Newest(Atomic!PairedOf(op.agent))' = Atomic!Newest(Atomic!PairedOf(op.agent))
      /\ Atomic!Activatable(op.session, Row.token)' = Atomic!Activatable(op.session, Row.token)
      /\ Row' = Row
  BY <1>1, <1>3, Zenon DEF Atomic!Newest, Atomic!PairedOf, Atomic!Of, Atomic!Activatable, Row
<1>5. sessions' = [atRest.sessions EXCEPT ![op.session] = Spent(Row)]
  BY <1>2, <1>3, Zenon DEF Row
<1> QED BY <1>1, <1>2, <1>3, <1>4, <1>5, Zenon DEF ActivateSoFar

(* and with the reply this is Activate.                                     *)
LEMMA ActivateReplyMakes ==
    ASSUME HandlerInv, crashes = 0, ActivateReply
    PROVE  Atomic!Next
<1> DEFINE a == op.agent
           s == op.session
           t == atRest.sessions[s].token
<1>0. /\ ActivateSoFar /\ Frozen /\ atRest.sessions \in [Sessions -> SessionRow]
      /\ atRest.agents \in [Agents -> AgentRow]
  BY RowsAtRest DEF HandlerInv, SoFar
<1>1. /\ op.step = "activate reply"
      /\ given' = [given EXCEPT ![s].agent = @ + 1]
      /\ toAgent' = [toAgent EXCEPT ![a] = sessions[s].secret]
      /\ UNCHANGED <<agents, sessions, creds, now, minted, tokens>>
      /\ Leave
  BY Zenon DEF ActivateReply, Return
<1>2. a \in Agents /\ s \in Sessions
  BY <1>1 DEF HandlerInv, SafeInv, OpInv, Idle, Activating
<1>3. /\ now = atRest.now /\ tokens = atRest.tokens
      /\ given = atRest.given /\ toAgent = atRest.toAgent
  BY <1>0, Zenon DEF Frozen
<1>4. /\ t \in 1 .. tokens
      /\ s \in Atomic!Newest(Atomic!PairedOf(a))
      /\ Atomic!Activatable(s, t)
      /\ creds = [atRest.creds EXCEPT ![a] = @ + 1]
      /\ minted = atRest.minted
      /\ agents = [atRest.agents EXCEPT ![a] = [atRest.agents[a] EXCEPT !.status = "ACTIVE"]]
      /\ sessions = [atRest.sessions EXCEPT ![s] = Spent(atRest.sessions[s])]
  BY <1>0, <1>1, Zenon DEF ActivateSoFar, Activating, Row
<1>5. agents = [atRest.agents EXCEPT ![a].status = "ACTIVE"]
  BY <1>0, <1>4, Zenon
<1>6. sessions = [atRest.sessions EXCEPT ![s] = Atomic!Spent(@)]
  BY <1>0, <1>4, Zenon DEF Spent, Atomic!Spent, Null, Atomic!Null
<1>7. sessions[s].secret = atRest.sessions[s].secret
  <2>1. sessions[s] = Spent(atRest.sessions[s]) /\ atRest.sessions[s] \in SessionRow
    BY <1>0, <1>2, <1>4, Zenon
  <2> QED BY <2>1, Zenon DEF Spent, SessionRow
<1>8. Atomic!Activate(a, t)
  BY <1>1, <1>3, <1>4, <1>5, <1>6, <1>7, RestAfter, Zenon DEF Atomic!Activate
<1>9. t \in 1 .. atRest.tokens
  BY <1>3, <1>4
<1> QED BY <1>2, <1>8, <1>9, Zenon DEF Atomic!Next

(* Revoking, the legacy registration, and the clock.                        *)
LEMMA RevokeCredentialsSoFar ==
    ASSUME HandlerInv, crashes = 0, NEW a \in Agents, RevokeCredentials(a)
    PROVE  RevokeSoFar' /\ op'.step = "revoke agent" /\ atRest' = atRest
<1>1. /\ op'.step = "revoke agent" /\ op'.agent = a /\ atRest' = atRest /\ Idle
  BY Zenon DEF RevokeCredentials, Enter
<1>2. /\ agents = atRest.agents /\ sessions = atRest.sessions
      /\ creds = atRest.creds /\ minted = atRest.minted
  BY <1>1, Rests
<1>3. /\ agents[a].status # "NONE"
      /\ creds' = [creds EXCEPT ![a] = 0]
      /\ UNCHANGED <<agents, sessions, minted>>
  BY Zenon DEF RevokeCredentials, Exists
<1> QED BY <1>1, <1>2, <1>3, Zenon DEF RevokeSoFar

(* The two statements of a revocation are Revoke.                           *)
LEMMA RevokeAgentMakes ==
    ASSUME HandlerInv, crashes = 0, RevokeAgent
    PROVE  Atomic!Next
<1>0. RevokeSoFar /\ Frozen
  BY DEF HandlerInv, SoFar
<1>1. /\ op.step = "revoke agent"
      /\ agents' = [agents EXCEPT ![op.agent].status = "REVOKED"]
      /\ UNCHANGED <<sessions, creds, now, minted, tokens, given, toAgent>>
      /\ Leave
  BY Zenon DEF RevokeAgent, Return
<1>2. op.agent \in Agents
  BY <1>1 DEF HandlerInv, SafeInv, OpInv, Idle
<1>3. Atomic!Revoke(op.agent)
  BY <1>0, <1>1, RestAfter, Zenon DEF RevokeSoFar, Frozen, Atomic!Revoke, Atomic!Exists
<1> QED BY <1>2, <1>3, Zenon DEF Atomic!Next

(* The row of a legacy registration,                                        *)
LEMMA RegisterAgentSoFar ==
    ASSUME HandlerInv, crashes = 0, NEW a \in Agents, RegisterAgent(a)
    PROVE  RegisterSoFar' /\ op'.step = "register reply" /\ atRest' = atRest
<1>1. /\ op'.step = "register reply" /\ op'.agent = a /\ atRest' = atRest /\ Idle
  BY Zenon DEF RegisterAgent, Enter
<1>2. /\ agents = atRest.agents /\ sessions = atRest.sessions
      /\ creds = atRest.creds /\ minted = atRest.minted
  BY <1>1, Rests
<1>3. /\ LegacyEnabled /\ agents[a].status = "NONE"
      /\ minted' = minted + 1
      /\ agents' = [agents EXCEPT ![a] = [status |-> "ACTIVE", secret |-> minted']]
      /\ UNCHANGED <<sessions, creds>>
  BY Zenon DEF RegisterAgent, Exists
<1> QED BY <1>1, <1>2, <1>3, Zenon DEF RegisterSoFar

(* and with the reply this is Register.                                     *)
LEMMA RegisterReplyMakes ==
    ASSUME HandlerInv, crashes = 0, RegisterReply
    PROVE  Atomic!Next
<1> DEFINE a == op.agent
<1>0. RegisterSoFar /\ Frozen /\ atRest.agents \in [Agents -> AgentRow]
  BY RowsAtRest DEF HandlerInv, SoFar
<1>1. /\ op.step = "register reply"
      /\ toAgent' = [toAgent EXCEPT ![a] = agents[a].secret]
      /\ UNCHANGED <<agents, sessions, creds, now, minted, tokens, given>>
      /\ Leave
  BY Zenon DEF RegisterReply, Return
<1>2. a \in Agents
  BY <1>1 DEF HandlerInv, SafeInv, OpInv, Idle
<1>3. /\ LegacyEnabled /\ atRest.agents[a].status = "NONE"
      /\ sessions = atRest.sessions /\ creds = atRest.creds
      /\ minted = atRest.minted + 1
      /\ agents = [atRest.agents EXCEPT ![a] = [status |-> "ACTIVE", secret |-> minted]]
      /\ now = atRest.now /\ tokens = atRest.tokens
      /\ given = atRest.given /\ toAgent = atRest.toAgent
  BY <1>0, <1>1, Zenon DEF RegisterSoFar, Frozen
<1>4. agents[a].secret = minted
  BY <1>0, <1>2, <1>3, Zenon
<1>5. Atomic!Register(a)
  BY <1>1, <1>3, <1>4, RestAfter, Zenon DEF Atomic!Register, Atomic!Exists
<1> QED BY <1>2, <1>5, Zenon DEF Atomic!Next

(* The clock moves between handlers.                                        *)
LEMMA ClockTickMakes ==
    ASSUME HandlerInv, crashes = 0, ClockTick
    PROVE  Atomic!Next /\ Leave
<1>1. Idle /\ Leave /\ Tick
  BY Zenon DEF ClockTick, Whole, Return
<1>2. /\ agents = atRest.agents /\ sessions = atRest.sessions
      /\ creds = atRest.creds /\ minted = atRest.minted
      /\ now = atRest.now /\ tokens = atRest.tokens
      /\ given = atRest.given /\ toAgent = atRest.toAgent
  BY <1>1, Rests DEF Frozen
<1>3. Atomic!Tick
  BY <1>1, <1>2, RestAfter, Zenon DEF Tick, Atomic!Tick
<1> QED BY <1>1, <1>3, Zenon DEF Atomic!Next

(* As long as nothing crashes, what is done so far stays accounted for, and *)
(* a handler that ends has done what its one step in Pairing does.          *)
LEMMA GoesOn ==
    ASSUME HandlerInv, crashes = 0, UNCHANGED <<now, tokens, given, toAgent, atRest>>,
           \/ StartSoFar' /\ op'.step \in {"start expire", "start insert", "start reply"}
           \/ ExpireSoFar' /\ op'.step = "expire agent"
           \/ LockSoFar' /\ op'.step \in {"lock session", "lock agent"}
           \/ PairSoFar' /\ op'.step \in Pairing3
           \/ PollSoFar' /\ op'.step = "poll token"
           \/ ActivateSoFar' /\ op'.step \in Activating
           \/ RevokeSoFar' /\ op'.step = "revoke agent"
           \/ RegisterSoFar' /\ op'.step = "register reply"
    PROVE  SoFar'
  BY FrozenStays, OtherSteps DEF SoFar, Pairing3, Activating

(* Every step but a crash goes on with a handler, or ends it as Pairing does.*)
LEMMA NextSoFar ==
    ASSUME HandlerInv, crashes = 0, crashes' = 0, TypeOK', [CrashNext]_allVars
    PROVE  SoFar' /\ (Atomic!Next \/ UNCHANGED atRest)
<1>1. ASSUME NEW a \in Agents, NEW s \in Sessions, StartAgent(a, s)
      PROVE  SoFar' /\ (Atomic!Next \/ UNCHANGED atRest)
  <2>1. UNCHANGED <<now, tokens, given, toAgent, atRest>>
    BY <1>1, Zenon DEF StartAgent, Enter
  <2>2. SoFar'
    BY <1>1, <2>1, StartAgentSoFar, GoesOn DEF Pairing3, Activating
  <2> QED BY <2>1, <2>2
<1>2. ASSUME StartExpire PROVE SoFar' /\ (Atomic!Next \/ UNCHANGED atRest)
  <2>1. UNCHANGED <<now, tokens, given, toAgent, atRest>>
    BY <1>2, Zenon DEF StartExpire, Step
  <2>2. SoFar'
    BY <1>2, <2>1, StartExpireSoFar, GoesOn DEF Pairing3, Activating
  <2> QED BY <2>1, <2>2
<1>3. ASSUME StartInsert PROVE SoFar' /\ (Atomic!Next \/ UNCHANGED atRest)
  <2>1. UNCHANGED <<now, tokens, given, toAgent, atRest>>
    BY <1>3, Zenon DEF StartInsert, Step
  <2>2. SoFar'
    BY <1>3, <2>1, StartInsertSoFar, GoesOn DEF Pairing3, Activating
  <2> QED BY <2>1, <2>2
<1>4. ASSUME StartReply PROVE SoFar' /\ (Atomic!Next \/ UNCHANGED atRest)
  <2>1. Leave
    BY <1>4, Zenon DEF StartReply, Return
  <2> QED BY <1>4, <2>1, StartReplyMakes, LeaveMakes
<1>5. ASSUME NEW s \in Sessions, ExpireSession(s)
      PROVE  SoFar' /\ (Atomic!Next \/ UNCHANGED atRest)
  <2>1. UNCHANGED <<now, tokens, given, toAgent, atRest>>
    BY <1>5, Zenon DEF ExpireSession, Enter
  <2>2. SoFar'
    BY <1>5, <2>1, ExpireSessionSoFar, GoesOn DEF Pairing3, Activating
  <2> QED BY <2>1, <2>2
<1>6. ASSUME NEW s \in Sessions, WrongPin(s)
      PROVE  SoFar' /\ (Atomic!Next \/ UNCHANGED atRest)
  <2>1. CASE TriedOut(s)
    <3>1. UNCHANGED <<now, tokens, given, toAgent>>
      BY <1>6, Zenon DEF WrongPin
    <3>2. LockSoFar' /\ op'.step = "lock session" /\ atRest' = atRest
      BY <1>6, <2>1, WrongPinGoesOn
    <3> QED BY <3>1, <3>2, GoesOn
  <2>2. CASE ~TriedOut(s)
    BY <1>6, <2>2, WrongPinMakes, LeaveMakes
  <2> QED BY <2>1, <2>2
<1>7. ASSUME NEW s \in Sessions, PairSession(s)
      PROVE  SoFar' /\ (Atomic!Next \/ UNCHANGED atRest)
  <2>1. UNCHANGED <<now, tokens, given, toAgent, atRest>>
    BY <1>7, Zenon DEF PairSession, Enter
  <2>2. SoFar'
    BY <1>7, <2>1, PairSessionSoFar, GoesOn DEF Pairing3, Activating
  <2> QED BY <2>1, <2>2
<1>8. ASSUME AgentExpired PROVE SoFar' /\ (Atomic!Next \/ UNCHANGED atRest)
  <2>1. Leave
    BY <1>8, Zenon DEF AgentExpired, Return
  <2> QED BY <1>8, <2>1, AgentExpiredMakes, LeaveMakes
<1>9. ASSUME LockSession PROVE SoFar' /\ (Atomic!Next \/ UNCHANGED atRest)
  <2>1. UNCHANGED <<now, tokens, given, toAgent, atRest>>
    BY <1>9, Zenon DEF LockSession, Step
  <2>2. SoFar'
    BY <1>9, <2>1, LockSessionSoFar, GoesOn DEF Pairing3, Activating
  <2> QED BY <2>1, <2>2
<1>10. ASSUME PairAgent PROVE SoFar' /\ (Atomic!Next \/ UNCHANGED atRest)
  <2>1. UNCHANGED <<now, tokens, given, toAgent, atRest>>
    BY <1>10, Zenon DEF PairAgent, Step
  <2>2. SoFar'
    BY <1>10, <2>1, PairAgentSoFar, GoesOn DEF Pairing3, Activating
  <2> QED BY <2>1, <2>2
<1>11. ASSUME StoreSecret PROVE SoFar' /\ (Atomic!Next \/ UNCHANGED atRest)
  <2>1. UNCHANGED <<now, tokens, given, toAgent, atRest>>
    BY <1>11, Zenon DEF StoreSecret, Step
  <2>2. SoFar'
    BY <1>11, <2>1, StoreSecretSoFar, GoesOn DEF Pairing3, Activating
  <2> QED BY <2>1, <2>2
<1>12. ASSUME PairReply PROVE SoFar' /\ (Atomic!Next \/ UNCHANGED atRest)
  <2>1. Leave
    BY <1>12, Zenon DEF PairReply, Return
  <2> QED BY <1>12, <2>1, PairReplyMakes, LeaveMakes
<1>13. ASSUME NEW a \in Agents, PollExpire(a)
      PROVE  SoFar' /\ (Atomic!Next \/ UNCHANGED atRest)
  <2>1. UNCHANGED <<now, tokens, given, toAgent>>
    BY <1>13, Zenon DEF PollExpire
  <2>2. \/ Atomic!Next /\ Leave
        \/ PollSoFar' /\ op'.step = "poll token" /\ atRest' = atRest
    BY <1>13, PollExpireDoes
  <2> QED BY <2>1, <2>2, GoesOn, LeaveMakes
<1>14. ASSUME NEW a \in Agents, RevokeCredentials(a)
      PROVE  SoFar' /\ (Atomic!Next \/ UNCHANGED atRest)
  <2>1. UNCHANGED <<now, tokens, given, toAgent, atRest>>
    BY <1>14, Zenon DEF RevokeCredentials, Enter
  <2>2. SoFar'
    BY <1>14, <2>1, RevokeCredentialsSoFar, GoesOn DEF Pairing3, Activating
  <2> QED BY <2>1, <2>2
<1>15. ASSUME NEW a \in Agents, RegisterAgent(a)
      PROVE  SoFar' /\ (Atomic!Next \/ UNCHANGED atRest)
  <2>1. UNCHANGED <<now, tokens, given, toAgent, atRest>>
    BY <1>15, Zenon DEF RegisterAgent, Enter
  <2>2. SoFar'
    BY <1>15, <2>1, RegisterAgentSoFar, GoesOn DEF Pairing3, Activating
  <2> QED BY <2>1, <2>2
<1>16. ASSUME PollToken PROVE SoFar' /\ (Atomic!Next \/ UNCHANGED atRest)
  <2>1. Leave
    BY <1>16, Zenon DEF PollToken, Return
  <2> QED BY <1>16, <2>1, PollTokenMakes, LeaveMakes
<1>17. ASSUME NEW a \in Agents, NEW t \in 1 .. tokens, ActivateCredential(a, t)
      PROVE  SoFar' /\ (Atomic!Next \/ UNCHANGED atRest)
  <2>1. UNCHANGED <<now, tokens, given, toAgent, atRest>>
    BY <1>17, Zenon DEF ActivateCredential, Enter
  <2>2. SoFar'
    BY <1>17, <2>1, ActivateCredentialSoFar, GoesOn DEF Pairing3, Activating
  <2> QED BY <2>1, <2>2
<1>18. ASSUME ActivateAgent PROVE SoFar' /\ (Atomic!Next \/ UNCHANGED atRest)
  <2>1. UNCHANGED <<now, tokens, given, toAgent, atRest>>
    BY <1>18, Zenon DEF ActivateAgent, Step
  <2>2. SoFar'
    BY <1>18, <2>1, ActivateAgentSoFar, GoesOn DEF Pairing3, Activating
  <2> QED BY <2>1, <2>2
<1>19. ASSUME ActivateSession PROVE SoFar' /\ (Atomic!Next \/ UNCHANGED atRest)
  <2>1. UNCHANGED <<now, tokens, given, toAgent, atRest>>
    BY <1>19, Zenon DEF ActivateSession, Step
  <2>2. SoFar'
    BY <1>19, <2>1, ActivateSessionSoFar, GoesOn DEF Pairing3, Activating
  <2> QED BY <2>1, <2>2
<1>20. ASSUME ActivateReply PROVE SoFar' /\ (Atomic!Next \/ UNCHANGED atRest)
  <2>1. Leave
    BY <1>20, Zenon DEF ActivateReply, Return
  <2> QED BY <1>20, <2>1, ActivateReplyMakes, LeaveMakes
<1>21. ASSUME RevokeAgent PROVE SoFar' /\ (Atomic!Next \/ UNCHANGED atRest)
  <2>1. Leave
    BY <1>21, Zenon DEF RevokeAgent, Return
  <2> QED BY <1>21, <2>1, RevokeAgentMakes, LeaveMakes
<1>22. ASSUME RegisterReply PROVE SoFar' /\ (Atomic!Next \/ UNCHANGED atRest)
  <2>1. Leave
    BY <1>22, Zenon DEF RegisterReply, Return
  <2> QED BY <1>22, <2>1, RegisterReplyMakes, LeaveMakes
<1>23. ASSUME ClockTick PROVE SoFar' /\ (Atomic!Next \/ UNCHANGED atRest)
  BY <1>23, ClockTickMakes, LeaveMakes
<1>24. ASSUME Crash PROVE SoFar' /\ (Atomic!Next \/ UNCHANGED atRest)
  <2>1. crashes' = crashes + 1
    BY <1>24, Zenon DEF Crash
  <2> QED BY <2>1
<1>25. ASSUME UNCHANGED allVars PROVE SoFar' /\ (Atomic!Next \/ UNCHANGED atRest)
  <2>1. UNCHANGED <<agents, sessions, creds, now, minted, tokens, given, toAgent, op, atRest>>
    BY <1>25, Zenon DEF allVars, rows
  <2>2. SoFar
    BY DEF HandlerInv
  <2>3. Frozen'
    BY <2>1, <2>2, Zenon DEF SoFar, Frozen
  <2>4. AtRest'
    BY <2>1, <2>2, Zenon DEF SoFar, AtRest, Idle
  <2>5. StartSoFar'
    BY <2>1, <2>2, Zenon DEF SoFar, StartSoFar, ClosedAtRest, NewRow, Atomic!Of,
       Atomic!RowAtStart, Atomic!Exists, Atomic!Superseded, Atomic!IsOpen
  <2>6. ExpireSoFar'
    BY <2>1, <2>2, Zenon DEF SoFar, ExpireSoFar, FoundOpen, Row
  <2>7. LockSoFar'
    BY <2>1, <2>2, Zenon DEF SoFar, LockSoFar, FoundOpen, Row
  <2>8. PairSoFar'
    BY <2>1, <2>2, Zenon DEF SoFar, PairSoFar, FoundOpen, Row
  <2>9. PollSoFar'
    BY <2>1, <2>2, Zenon DEF SoFar, PollSoFar, Row, Atomic!Newest, Atomic!Of, Atomic!MarkExpired,
       Atomic!IsOpen, Atomic!TextExpired, Atomic!Day
  <2>10. ActivateSoFar'
    BY <2>1, <2>2, Zenon DEF SoFar, ActivateSoFar, Row, Atomic!Newest, Atomic!PairedOf,
       Atomic!Of, Atomic!Activatable
  <2>11. RevokeSoFar'
    BY <2>1, <2>2, Zenon DEF SoFar, RevokeSoFar
  <2>12. RegisterSoFar'
    BY <2>1, <2>2, Zenon DEF SoFar, RegisterSoFar
  <2>13. SoFar'
    BY <2>3, <2>4, <2>5, <2>6, <2>7, <2>8, <2>9, <2>10, <2>11, <2>12 DEF SoFar
  <2> QED BY <2>1, <2>13
<1> QED BY <1>1, <1>2, <1>3, <1>4, <1>5, <1>6, <1>7, <1>8, <1>9, <1>10, <1>11, <1>12, <1>13,
           <1>14, <1>15, <1>16, <1>17, <1>18, <1>19, <1>20, <1>21, <1>22, <1>23, <1>24, <1>25, Zenon
         DEF CrashNext

(* The state a handler found stays well typed, crash or not.                *)
LEMMA NextRest ==
    ASSUME HandlerInv, TypeOK', [CrashNext]_allVars
    PROVE  Atomic!TypeOK'
<1>1. Leave \/ UNCHANGED atRest \/ Crash
  <2> HIDE DEF Crash
  <2> QED BY Zenon DEF CrashNext, allVars, StartAgent, StartExpire, StartInsert, StartReply,
        ExpireSession, WrongPin, PairSession, AgentExpired, LockSession, PairAgent, StoreSecret,
        PairReply, PollExpire, RevokeCredentials, RegisterAgent, PollToken, ActivateCredential,
        ActivateAgent, ActivateSession, ActivateReply, RevokeAgent, RegisterReply, ClockTick,
        Enter, Step, Whole, Return
<1>2. CASE Leave
  BY <1>2, LeaveMakes
<1>3. CASE UNCHANGED atRest
  <2>1. Atomic!TypeOK
    BY DEF HandlerInv
  <2> QED BY <1>3, <2>1, Zenon DEF Atomic!TypeOK
<1>4. CASE Crash
  <2>1. atRest' = Snapshot /\ UNCHANGED rows /\ TypeOK
    BY <1>4, Zenon DEF Crash, HandlerInv, SafeInv, CrashTypeOK
  <2>2. /\ atRest'.agents = agents /\ atRest'.sessions = sessions
        /\ atRest'.creds = creds /\ atRest'.now = now
        /\ atRest'.minted = minted /\ atRest'.tokens = tokens
        /\ atRest'.given = given /\ atRest'.toAgent = toAgent
    BY <2>1, Zenon DEF Snapshot
  <2> QED BY <2>1, <2>2, Zenon DEF TypeOK, Atomic!TypeOK, AgentRow, Atomic!AgentRow, AgentStatus,
        Atomic!AgentStatus, SessionRow, Atomic!SessionRow, SessionStatus, Atomic!SessionStatus
<1> QED BY <1>1, <1>2, <1>3, <1>4

(* The inductive invariant, and what a step does to the state at rest.      *)
LEMMA NextHandler ==
    ASSUME HandlerInv, [CrashNext]_allVars
    PROVE  HandlerInv' /\ (crashes' = 0 => Atomic!Next \/ UNCHANGED atRest)
<1>1. SafeInv' /\ TypeOK'
  BY NextSafe DEF HandlerInv, SafeInv, CrashTypeOK
<1>2. crashes' = 0 => crashes = 0
  <2>1. crashes \in Nat
    BY DEF HandlerInv, SafeInv, CrashTypeOK
  <2>2. UNCHANGED crashes \/ crashes' = crashes + 1
    BY Zenon DEF CrashNext, allVars, StartAgent, StartExpire, StartInsert, StartReply,
        ExpireSession, WrongPin, PairSession, AgentExpired, LockSession, PairAgent, StoreSecret,
        PairReply, PollExpire, RevokeCredentials, RegisterAgent, PollToken, ActivateCredential,
        ActivateAgent, ActivateSession, ActivateReply, RevokeAgent, RegisterReply, ClockTick,
        Crash, Enter, Step, Whole, Return, Leave
  <2> QED BY <2>1, <2>2
<1>3. crashes' = 0 => SoFar' /\ (Atomic!Next \/ UNCHANGED atRest)
  BY <1>1, <1>2, NextSoFar
<1>4. Atomic!TypeOK'
  BY <1>1, NextRest
<1> QED BY <1>1, <1>3, <1>4 DEF HandlerInv

(* At the start nothing is under way.                                       *)
LEMMA InitHandler == CrashInit => HandlerInv
<1> SUFFICES ASSUME CrashInit PROVE HandlerInv
  OBVIOUS
<1>1. SafeInv /\ TypeOK
  BY InitSafe DEF SafeInv, CrashTypeOK
<1>2. op.step = "idle" /\ atRest = Snapshot
  BY Zenon DEF CrashInit, IdleOp
<1>3. /\ atRest.agents = agents /\ atRest.sessions = sessions
      /\ atRest.creds = creds /\ atRest.now = now
      /\ atRest.minted = minted /\ atRest.tokens = tokens
      /\ atRest.given = given /\ atRest.toAgent = toAgent
  BY <1>2, Zenon DEF Snapshot
<1>4. Atomic!TypeOK
  BY <1>1, <1>3, Zenon DEF TypeOK, Atomic!TypeOK, AgentRow, Atomic!AgentRow, AgentStatus,
     Atomic!AgentStatus, SessionRow, Atomic!SessionRow, SessionStatus, Atomic!SessionStatus
<1>5. SoFar
  BY <1>2, <1>3 DEF SoFar, Frozen, AtRest, StartSoFar, ExpireSoFar, LockSoFar, PairSoFar,
     PollSoFar, ActivateSoFar, RevokeSoFar, RegisterSoFar, Pairing3, Activating
<1> QED BY <1>1, <1>4, <1>5 DEF HandlerInv

(* Until the first crash a handler leaves the tables as its one step in     *)
(* Pairing does, whichever of its statements it takes: what is proved       *)
(* there of handlers is about the code as it runs.                          *)
THEOREM StatementsRefineHandlers == CrashSpec => StatementsMakeHandlers
<1>1. CrashInit => HandlerInv
  BY InitHandler
<1>2. HandlerInv /\ [CrashNext]_allVars => HandlerInv'
  BY NextHandler
<1>3. HandlerInv /\ [CrashNext]_allVars => [crashes' = 0 => Atomic!Next]_atRest
  BY NextHandler
<1> QED BY <1>1, <1>2, <1>3, PTL DEF CrashSpec, StatementsMakeHandlers

=============================================================================
