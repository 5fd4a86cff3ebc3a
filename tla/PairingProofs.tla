--------------------------- MODULE PairingProofs ---------------------------
(***************************************************************************)
(* Proofs about Pairing, for any sets of agents and sessions and any       *)
(* lifetimes.  BaseInv needs nothing else; OrderInv needs sessions of one  *)
(* agent to start in different seconds.                                    *)
(***************************************************************************)
EXTENDS Pairing, TLAPS

-----------------------------------------------------------------------------
(* Row updates keep the types of the columns. *)

(* Closing, charging or completing a session keeps its row well typed.      *)
LEMMA ClosedRowType ==
    ASSUME NEW r \in SessionRow, NEW st \in SessionStatus, NEW n \in Nat
    PROVE  /\ [r EXCEPT !.status = st] \in SessionRow
           /\ [r EXCEPT !.status = st, !.expires = n] \in SessionRow
           /\ [r EXCEPT !.status = st, !.attempts = n] \in SessionRow
           /\ [r EXCEPT !.attempts = n, !.status = st] \in SessionRow
           /\ [r EXCEPT !.status = st, !.secret = n] \in SessionRow
BY Zenon DEF SessionRow

(* So does storing an activation token on it, or spending it.               *)
LEMMA TokenRowType ==
    ASSUME NEW r \in SessionRow, NEW t \in Nat, NEW n \in Nat
    PROVE  /\ [r EXCEPT !.token = t, !.tokenExpires = n] \in SessionRow
           /\ [r EXCEPT !.token = t, !.tokenExpires = n, !.delivered = TRUE] \in SessionRow
BY Zenon DEF SessionRow

(* The row register/start inserts is well typed.                            *)
LEMMA NewRowType ==
    ASSUME NEW a \in Agents, NEW n \in Nat, NEW m \in Nat
    PROVE  [BlankRow EXCEPT !.agent = a, !.status = "AWAITING_PAIR",
                !.created = n, !.expires = m] \in SessionRow
<1>1. 0 \in Nat
  OBVIOUS
<1> QED BY <1>1, Zenon DEF SessionRow, SessionStatus, BlankRow, Null

(* _mark_expired_sessions keeps every row well typed.                       *)
LEMMA MarkExpiredType ==
    ASSUME TypeOK, NEW a \in Agents
    PROVE  MarkExpired(a) \in [Sessions -> SessionRow]
BY ClosedRowType DEF TypeOK, MarkExpired, SessionStatus

(* The empty tables are well typed.                                         *)
LEMMA InitTypeOK == Init => TypeOK
BY DEF Init, TypeOK, AgentRow, SessionRow, BlankRow, AgentStatus, SessionStatus, Null

-----------------------------------------------------------------------------
(* Type correctness, one step per action. *)

(* Every handler keeps the tables well typed: one step per action.          *)
LEMMA NextTypeOK == TypeOK /\ [Next]_vars => TypeOK'
<1> SUFFICES ASSUME TypeOK, [Next]_vars PROVE TypeOK'
  OBVIOUS
<1> USE DEF TypeOK, AgentRow, AgentStatus
<1>1. ASSUME NEW a \in Agents, NEW s \in Sessions, Start(a, s) PROVE TypeOK'
  <2>1. agents' \in [Agents -> AgentRow]
    BY <1>1 DEF Start, RowAtStart, Null
  <2>2. now + PairingTTL \in Nat
    BY TimesAssumption
  <2>3. sessions' \in [Sessions -> SessionRow]
    BY <1>1, <2>2, NewRowType, ClosedRowType DEF Start, SessionStatus
  <2> QED BY <1>1, <2>1, <2>3 DEF Start
<1>2. ASSUME NEW s \in Sessions, CompleteExpired(s) PROVE TypeOK'
  <2>1. sessions[s].attempts + 1 \in Nat
    BY DEF SessionRow
  <2>2. sessions' \in [Sessions -> SessionRow]
    BY <1>2, <2>1, ClosedRowType DEF CompleteExpired, SessionStatus
  <2>3. agents' \in [Agents -> AgentRow]
    BY <1>2 DEF CompleteExpired
  <2> QED BY <1>2, <2>2, <2>3 DEF CompleteExpired
<1>3. ASSUME NEW s \in Sessions, CompleteWrongPin(s) PROVE TypeOK'
  <2>1. sessions[s].attempts + 1 \in Nat /\ sessions[s].status \in SessionStatus
    BY DEF SessionRow
  <2>2. sessions' \in [Sessions -> SessionRow]
    BY <1>3, <2>1, ClosedRowType DEF CompleteWrongPin, SessionStatus
  <2>3. agents' \in [Agents -> AgentRow]
    BY <1>3 DEF CompleteWrongPin
  <2> QED BY <1>3, <2>2, <2>3 DEF CompleteWrongPin
<1>4. ASSUME NEW s \in Sessions, Complete(s) PROVE TypeOK'
  <2>1. minted' \in Nat
    BY <1>4 DEF Complete
  <2>2. sessions' \in [Sessions -> SessionRow]
    BY <1>4, <2>1, ClosedRowType DEF Complete, SessionStatus
  <2>3. given' \in [Sessions -> [client : Nat, agent : Nat]]
    BY <1>4 DEF Complete
  <2>4. agents' \in [Agents -> AgentRow]
    BY <1>4, <2>1 DEF Complete
  <2> QED BY <1>4, <2>1, <2>2, <2>3, <2>4 DEF Complete
<1>5. ASSUME NEW a \in Agents, PollUnpaired(a) PROVE TypeOK'
  BY <1>5, MarkExpiredType DEF PollUnpaired
<1>6. ASSUME NEW a \in Agents, PollPaired(a) PROVE TypeOK'
  <2>1. now + ActivationTTL \in Nat /\ tokens + 1 \in Nat
    BY TimesAssumption
  <2>2. PICK s \in Newest(Of(a)) :
          IF sessions[s].token # Null /\ now < sessions[s].tokenExpires
          THEN sessions' = MarkExpired(a) /\ UNCHANGED tokens
          ELSE /\ tokens' = tokens + 1
               /\ sessions' = [MarkExpired(a) EXCEPT
                     ![s] = [@ EXCEPT !.token = tokens',
                                      !.tokenExpires = now + ActivationTTL]]
    BY <1>6 DEF PollPaired
  <2>3. tokens' \in Nat
    BY <2>1, <2>2
  <2>4. sessions' \in [Sessions -> SessionRow]
    <3> DEFINE M == MarkExpired(a)
               row == [M[s] EXCEPT !.token = tokens',
                                   !.tokenExpires = now + ActivationTTL]
    <3>1. M \in [Sessions -> SessionRow]
      BY MarkExpiredType
    <3>2. s \in Sessions
      BY DEF Newest, Of
    <3>3. row \in SessionRow
      <4> HIDE DEF M
      <4> QED BY <2>1, <2>3, <3>1, <3>2, TokenRowType
    <3>4. sessions' = M \/ sessions' = [M EXCEPT ![s] = row]
      BY <2>2, Zenon
    <3> HIDE DEF M, row
    <3> QED BY <3>1, <3>2, <3>3, <3>4
  <2> QED BY <1>6, <2>3, <2>4 DEF PollPaired
<1>7. ASSUME NEW a \in Agents, Revoke(a) PROVE TypeOK'
  BY <1>7 DEF Revoke
<1>8. ASSUME NEW a \in Agents, Register(a) PROVE TypeOK'
  BY <1>8 DEF Register
<1>9. ASSUME NEW a \in Agents, NEW t \in 1 .. tokens, Activate(a, t) PROVE TypeOK'
  <2>1. PICK s \in Newest(PairedOf(a)) :
          /\ sessions' = [sessions EXCEPT ![s] = Spent(@)]
          /\ given' = [given EXCEPT ![s].agent = @ + 1]
          /\ toAgent' = [toAgent EXCEPT ![a] = sessions[s].secret]
    BY <1>9 DEF Activate
  <2>2. s \in Sessions /\ sessions[s].secret \in Nat
    BY DEF Newest, PairedOf, Of, SessionRow
  <2>3. sessions' \in [Sessions -> SessionRow]
    BY <2>1, <2>2, TokenRowType DEF Spent, Null
  <2>4. given' \in [Sessions -> [client : Nat, agent : Nat]]
    BY <2>1, <2>2
  <2> QED BY <1>9, <2>1, <2>2, <2>3, <2>4 DEF Activate
<1>10. CASE Tick
  BY <1>10 DEF Tick
<1>11. CASE UNCHANGED vars
  BY <1>11 DEF vars
<1> QED
  BY <1>1, <1>2, <1>3, <1>4, <1>5, <1>6, <1>7, <1>8, <1>9, <1>10, <1>11 DEF Next

(* Every column keeps its type (the whole of vela_database's pairing flow). *)
THEOREM TypeCorrect == Spec => []TypeOK
BY InitTypeOK, NextTypeOK, PTL DEF Spec

-----------------------------------------------------------------------------
(* What each action does to the columns the invariants speak of. *)

(* A step that pairs, starts and activates nothing: it may close open       *)
(* sessions, end the status of known agents and let time pass.              *)
QuietSession(t) ==
    /\ sessions'[t].agent = sessions[t].agent
    /\ sessions'[t].created = sessions[t].created
    /\ sessions'[t].secret = sessions[t].secret
    /\ sessions'[t].delivered = sessions[t].delivered
    /\ \/ sessions'[t].status = sessions[t].status
       \/ IsOpen(t) /\ sessions'[t].status = "EXPIRED"

QuietAgent(a) ==
    /\ agents'[a].secret = agents[a].secret
    /\ \/ agents'[a].status = agents[a].status
       \/ Exists(a) /\ agents'[a].status \in {"EXPIRED", "REVOKED"}

Quiet ==
    /\ \A t \in Sessions : QuietSession(t)
    /\ \A a \in Agents : QuietAgent(a)
    /\ given' = given
    /\ toAgent' = toAgent
    /\ now <= now'

(* Finding an open session past its time pairs and starts nothing.          *)
LEMMA ExpireEffect ==
    ASSUME TypeOK, Owned, NEW s \in Sessions, CompleteExpired(s)
    PROVE  Quiet
<1>1. \A t \in Sessions : QuietSession(t)
  <2> TAKE t \in Sessions
  <2>1. CASE t = s
    BY <2>1, Zenon DEF CompleteExpired, TypeOK, SessionRow, QuietSession
  <2>2. CASE t # s
    BY <2>2, Zenon DEF CompleteExpired, TypeOK, SessionRow, QuietSession
  <2> QED BY <2>1, <2>2
<1>2. Exists(sessions[s].agent)
  BY DEF CompleteExpired, IsOpen, Owned
<1>3. \A a \in Agents : QuietAgent(a)
  BY <1>2 DEF CompleteExpired, TypeOK, AgentRow, QuietAgent
<1> QED BY <1>1, <1>3 DEF Quiet, CompleteExpired, TypeOK

(* Neither does a wrong PIN, whether it locks the session or not.           *)
LEMMA WrongPinEffect ==
    ASSUME TypeOK, Owned, NEW s \in Sessions, CompleteWrongPin(s)
    PROVE  Quiet
<1>1. \A t \in Sessions : QuietSession(t)
  <2> TAKE t \in Sessions
  <2>1. CASE t = s
    BY <2>1, Zenon DEF CompleteWrongPin, TypeOK, SessionRow, QuietSession
  <2>2. CASE t # s
    BY <2>2, Zenon DEF CompleteWrongPin, TypeOK, SessionRow, QuietSession
  <2> QED BY <2>1, <2>2
<1>2. Exists(sessions[s].agent)
  BY DEF CompleteWrongPin, IsOpen, Owned
<1>3. \A a \in Agents : QuietAgent(a)
  BY <1>2 DEF CompleteWrongPin, TypeOK, AgentRow, QuietAgent
<1> QED BY <1>1, <1>3 DEF Quiet, CompleteWrongPin, TypeOK

(* The rows after _mark_expired_sessions. *)
LEMMA MarkExpiredEffect ==
    ASSUME TypeOK, NEW a \in Agents, NEW t \in Sessions
    PROVE  /\ MarkExpired(a)[t] \in SessionRow
           /\ MarkExpired(a)[t].agent = sessions[t].agent
           /\ MarkExpired(a)[t].created = sessions[t].created
           /\ MarkExpired(a)[t].secret = sessions[t].secret
           /\ MarkExpired(a)[t].delivered = sessions[t].delivered
           /\ MarkExpired(a)[t].attempts = sessions[t].attempts
           /\ \/ MarkExpired(a)[t].status = sessions[t].status
              \/ IsOpen(t) /\ MarkExpired(a)[t].status = "EXPIRED"
<1>1. MarkExpired(a)[t] \in SessionRow
  BY MarkExpiredType
<1>2. sessions[t] \in SessionRow
  BY DEF TypeOK
<1> QED BY <1>1, <1>2, Zenon DEF MarkExpired, SessionRow

(* A status poll of an agent that is not PAIRED only expires sessions.      *)
LEMMA PollUnpairedEffect ==
    ASSUME TypeOK, NEW a \in Agents, PollUnpaired(a)
    PROVE  Quiet
BY MarkExpiredEffect DEF PollUnpaired, Quiet, QuietSession, QuietAgent, TypeOK

(* A poll of a PAIRED agent moves tokens, but no status and no secret.      *)
LEMMA PollPairedEffect ==
    ASSUME TypeOK, NEW a \in Agents, PollPaired(a)
    PROVE  /\ Quiet
           /\ \A t \in Sessions : sessions'[t].attempts = sessions[t].attempts
<1> DEFINE M == MarkExpired(a)
           row(s) == [M[s] EXCEPT !.token = tokens',
                                  !.tokenExpires = now + ActivationTTL]
<1>1. PICK s \in Newest(Of(a)) : sessions' = M \/ sessions' = [M EXCEPT ![s] = row(s)]
  BY Zenon DEF PollPaired
<1>2. s \in Sessions
  BY DEF Newest, Of
<1>3. M \in [Sessions -> SessionRow]
  BY MarkExpiredType
<1>4. /\ row(s).agent = M[s].agent
      /\ row(s).created = M[s].created
      /\ row(s).secret = M[s].secret
      /\ row(s).delivered = M[s].delivered
      /\ row(s).status = M[s].status
      /\ row(s).attempts = M[s].attempts
  <2>1. M[s] \in SessionRow
    BY <1>2, <1>3
  <2> HIDE DEF M
  <2> QED BY <2>1, Zenon DEF SessionRow
<1>5. \A t \in Sessions :
        /\ sessions'[t].agent = M[t].agent
        /\ sessions'[t].created = M[t].created
        /\ sessions'[t].secret = M[t].secret
        /\ sessions'[t].delivered = M[t].delivered
        /\ sessions'[t].status = M[t].status
        /\ sessions'[t].attempts = M[t].attempts
  <2> HIDE DEF M, row
  <2> QED BY <1>1, <1>2, <1>3, <1>4
<1>6. \A t \in Sessions : QuietSession(t) /\ sessions'[t].attempts = sessions[t].attempts
  BY <1>5, MarkExpiredEffect DEF QuietSession
<1> QED BY <1>6 DEF PollPaired, Quiet, QuietAgent, TypeOK

(* The row of a session just started ... *)
LEMMA StartedRow ==
    ASSUME TypeOK, NEW a \in Agents, NEW s \in Sessions, Start(a, s)
    PROVE  /\ sessions'[s].agent = a
           /\ sessions'[s].status = "AWAITING_PAIR"
           /\ sessions'[s].created = now
           /\ sessions'[s].attempts = 0
           /\ sessions'[s].delivered = FALSE
BY Zenon DEF Start, BlankRow

(* ... and the other rows: those of the same agent are no longer open. *)
LEMMA StartedOthers ==
    ASSUME TypeOK, NEW a \in Agents, NEW s \in Sessions, Start(a, s),
           NEW t \in Sessions, t # s
    PROVE  /\ QuietSession(t)
           /\ sessions'[t].attempts = sessions[t].attempts
           /\ sessions[t].agent = a => sessions'[t].status # "AWAITING_PAIR"
<1>0. sessions[t] \in SessionRow
  BY DEF TypeOK
<1>1. CASE t \in Superseded(a)
  <2>1. sessions'[t] = [sessions[t] EXCEPT !.status = "EXPIRED", !.expires = now]
    BY <1>1, Zenon DEF Start
  <2>2. /\ sessions'[t].agent = sessions[t].agent
        /\ sessions'[t].created = sessions[t].created
        /\ sessions'[t].secret = sessions[t].secret
        /\ sessions'[t].delivered = sessions[t].delivered
        /\ sessions'[t].attempts = sessions[t].attempts
        /\ sessions'[t].status = "EXPIRED"
    BY <1>0, <2>1, Zenon DEF SessionRow
  <2> QED BY <1>1, <2>2 DEF QuietSession, Superseded
<1>2. CASE t \notin Superseded(a)
  <2>1. sessions'[t] = sessions[t]
    BY <1>2, Zenon DEF Start
  <2> QED BY <1>2, <2>1 DEF QuietSession, Superseded, Of, IsOpen
<1> QED BY <1>1, <1>2

(* A completed pairing: the fresh secret is in both rows, nothing else.     *)
LEMMA CompleteEffect ==
    ASSUME TypeOK, NEW s \in Sessions, Complete(s)
    PROVE  /\ sessions'[s].status = "PAIRED"
           /\ sessions'[s].secret = minted'
           /\ sessions'[s].agent = sessions[s].agent
           /\ sessions'[s].created = sessions[s].created
           /\ sessions'[s].attempts = sessions[s].attempts
           /\ sessions'[s].delivered = sessions[s].delivered
           /\ \A t \in Sessions \ {s} : sessions'[t] = sessions[t]
<1>1. sessions[s] \in SessionRow
  BY DEF TypeOK
<1> QED BY <1>1, Zenon DEF Complete, TypeOK, SessionRow

(* The session a token activates. *)
Activates(a, s) ==
    /\ s \in Newest(PairedOf(a))
    /\ ~sessions[s].delivered
    /\ given' = [given EXCEPT ![s].agent = @ + 1]
    /\ toAgent' = [toAgent EXCEPT ![a] = sessions[s].secret]
    /\ sessions'[s].delivered
    /\ sessions'[s].agent = sessions[s].agent
    /\ sessions'[s].created = sessions[s].created
    /\ sessions'[s].attempts = sessions[s].attempts
    /\ sessions'[s].secret = sessions[s].secret
    /\ sessions'[s].status = sessions[s].status
    /\ \A t \in Sessions \ {s} : sessions'[t] = sessions[t]

(* An activation: the session was undelivered, its secret goes out.         *)
LEMMA ActivateEffect ==
    ASSUME TypeOK, NEW a \in Agents, NEW t \in 1 .. tokens, Activate(a, t)
    PROVE  \E s \in Sessions : Activates(a, s)
<1>1. PICK s \in Newest(PairedOf(a)) :
        /\ Activatable(s, t)
        /\ sessions' = [sessions EXCEPT ![s] = Spent(@)]
        /\ given' = [given EXCEPT ![s].agent = @ + 1]
        /\ toAgent' = [toAgent EXCEPT ![a] = sessions[s].secret]
  BY DEF Activate
<1>2. s \in Sessions
  BY DEF Newest, PairedOf, Of
<1>3. sessions[s] \in SessionRow
  BY <1>2 DEF TypeOK
<1>4. sessions'[s] = Spent(sessions[s])
  BY <1>1, <1>2 DEF TypeOK
<1>5. /\ sessions'[s].delivered
      /\ sessions'[s].agent = sessions[s].agent
      /\ sessions'[s].created = sessions[s].created
      /\ sessions'[s].attempts = sessions[s].attempts
      /\ sessions'[s].secret = sessions[s].secret
      /\ sessions'[s].status = sessions[s].status
  BY <1>3, <1>4, Zenon DEF Spent, SessionRow
<1>6. \A u \in Sessions \ {s} : sessions'[u] = sessions[u]
  BY <1>1, <1>2 DEF TypeOK
<1> QED BY <1>1, <1>2, <1>5, <1>6 DEF Activates, Activatable

-----------------------------------------------------------------------------
(* The part of the invariant that needs no assumption on time. *)

SessionInv == Owned /\ OneOpenSession /\ Accounting

(* The empty tables satisfy the base invariant.                             *)
LEMMA InitBase == Init => BaseInv
<1> SUFFICES ASSUME Init PROVE BaseInv
  OBVIOUS
<1>1. TypeOK
  BY InitTypeOK
<1>2. \A s \in Sessions :
        /\ sessions[s].agent = NoAgent
        /\ sessions[s].status = "FREE"
        /\ sessions[s].attempts = 0
        /\ sessions[s].delivered = FALSE
        /\ given[s] = [client |-> 0, agent |-> 0]
  BY Zenon DEF Init, BlankRow
<1>3. Owned /\ Accounting /\ OneOpenSession
  BY <1>2, NoAgentAssumption DEF Owned, Accounting, OneOpenSession, Of
<1>4. AttemptsBounded
  BY <1>2, AttemptsAssumption DEF AttemptsBounded, IsOpen
<1> QED BY <1>1, <1>3, <1>4 DEF BaseInv

(* Quiet steps keep the session part of the base invariant,                 *)
LEMMA QuietBase ==
    ASSUME TypeOK, SessionInv, Quiet
    PROVE  SessionInv'
<1>1. Owned'
  <2> USE DEF Owned
  <2> TAKE s \in Sessions
  <2>1. QuietSession(s)
    BY DEF Quiet
  <2>2. sessions[s].agent \in Agents \cup {NoAgent}
    BY DEF TypeOK, SessionRow
  <2> QED
    BY <2>1, <2>2 DEF Quiet, SessionInv, Owned, QuietSession, QuietAgent, IsOpen, Exists
<1>2. OneOpenSession'
  BY DEF Quiet, SessionInv, OneOpenSession, QuietSession, IsOpen, Of
<1>3. Accounting'
  BY DEF Quiet, SessionInv, Accounting, QuietSession, IsOpen
<1> QED BY <1>1, <1>2, <1>3 DEF SessionInv

(* so does a new ceremony, which closes the open session it finds,          *)
LEMMA StartBase ==
    ASSUME TypeOK, SessionInv, NEW a \in Agents, NEW s \in Sessions, Start(a, s)
    PROVE  SessionInv'
<1>1. /\ \A b \in Agents : b # a => agents'[b] = agents[b]
      /\ agents'[a].status = "AWAITING_PAIR"
      /\ given' = given
  BY DEF Start, RowAtStart, TypeOK
<1>2. sessions[s].status = "FREE" /\ sessions[s].agent = NoAgent /\ ~sessions[s].delivered
  BY DEF Start, SessionInv, Owned, Accounting, TypeOK
<1>3. Owned'
  <2> USE DEF Owned
  <2> TAKE t \in Sessions
  <2>1. CASE t = s
    BY <1>1, <2>1, StartedRow, NoAgentAssumption DEF Exists
  <2>2. CASE t # s
    <3>1. QuietSession(t)
      BY <2>2, StartedOthers
    <3>2. sessions[t].agent \in Agents \cup {NoAgent}
      BY DEF TypeOK, SessionRow
    <3> QED BY <1>1, <3>1, <3>2 DEF SessionInv, Owned, QuietSession, IsOpen, Exists
  <2> QED BY <2>1, <2>2
<1>4. OneOpenSession'
  <2> SUFFICES ASSUME NEW b \in Agents, NEW t \in Sessions, NEW u \in Sessions,
                      sessions'[t].agent = b, sessions'[u].agent = b,
                      sessions'[t].status = "AWAITING_PAIR",
                      sessions'[u].status = "AWAITING_PAIR"
               PROVE  t = u
    BY DEF OneOpenSession, Of, IsOpen
  <2>1. ASSUME NEW v \in Sessions, v # s, sessions'[v].agent = a
        PROVE  sessions'[v].status # "AWAITING_PAIR"
    BY <2>1, StartedOthers DEF QuietSession
  <2>2. CASE b = a
    BY <2>1, <2>2
  <2>3. CASE b # a
    <3>1. t # s /\ u # s
      BY <2>3, StartedRow
    <3>2. QuietSession(t) /\ QuietSession(u)
      BY <3>1, StartedOthers
    <3>3. t \in Of(b) /\ u \in Of(b) /\ IsOpen(t) /\ IsOpen(u)
      BY <3>2 DEF QuietSession, Of, IsOpen
    <3> QED BY <3>3 DEF SessionInv, OneOpenSession
  <2> QED BY <2>2, <2>3
<1>5. Accounting'
  <2> USE DEF Accounting
  <2> TAKE t \in Sessions
  <2>1. CASE t = s
    BY <1>1, <1>2, <2>1, StartedRow DEF SessionInv, Accounting
  <2>2. CASE t # s
    <3>1. QuietSession(t)
      BY <2>2, StartedOthers
    <3> QED BY <1>1, <3>1 DEF SessionInv, QuietSession, IsOpen
  <2> QED BY <2>1, <2>2
<1> QED BY <1>3, <1>4, <1>5 DEF SessionInv

(* so does a pairing, which finds its session open and never returned,      *)
LEMMA CompleteBase ==
    ASSUME TypeOK, SessionInv, NEW s \in Sessions, Complete(s)
    PROVE  SessionInv'
<1>1. IsOpen(s) /\ ~sessions[s].delivered
  BY DEF Complete, SessionInv, Accounting, IsOpen
<1>2. sessions[s].agent \in Agents
  BY <1>1 DEF TypeOK, SessionRow, SessionInv, Owned, IsOpen
<1>3. /\ \A b \in Agents : b # sessions[s].agent => agents'[b] = agents[b]
      /\ agents'[sessions[s].agent].status = "PAIRED"
  BY <1>2 DEF Complete, TypeOK
<1>4. /\ given'[s].client = given[s].client + 1
      /\ given'[s].agent = given[s].agent
      /\ \A t \in Sessions \ {s} : given'[t] = given[t]
  BY DEF Complete, TypeOK
<1>5. Owned'
  <2> USE DEF Owned
  <2> TAKE t \in Sessions
  <2>1. sessions[t].agent \in Agents \cup {NoAgent}
    BY DEF TypeOK, SessionRow
  <2> QED BY <1>1, <1>2, <1>3, <2>1, CompleteEffect DEF SessionInv, Owned, Exists, IsOpen
<1>6. OneOpenSession'
  BY CompleteEffect DEF SessionInv, OneOpenSession, Of, IsOpen
<1>7. Accounting'
  BY <1>1, <1>4, CompleteEffect DEF SessionInv, Accounting, IsOpen
<1> QED BY <1>5, <1>6, <1>7 DEF SessionInv

(* so does an activation, which finds its session undelivered,              *)
LEMMA ActivateBase ==
    ASSUME TypeOK, SessionInv, NEW a \in Agents, NEW t \in 1 .. tokens, Activate(a, t)
    PROVE  SessionInv'
<1>1. PICK s \in Sessions : Activates(a, s)
  BY ActivateEffect
<1>2. sessions[s].status = "PAIRED"
  BY <1>1 DEF Activates, Newest, PairedOf
<1>3. /\ \A b \in Agents : b # a => agents'[b] = agents[b]
      /\ agents'[a].status = "ACTIVE"
  BY DEF Activate, TypeOK, AgentRow
<1>4. /\ given'[s].client = given[s].client
      /\ given'[s].agent = given[s].agent + 1
      /\ \A u \in Sessions \ {s} : given'[u] = given[u]
  BY <1>1 DEF Activates, TypeOK
<1>5. Owned'
  <2> USE DEF Owned
  <2> TAKE u \in Sessions
  <2>1. sessions[u].agent \in Agents \cup {NoAgent}
    BY DEF TypeOK, SessionRow
  <2> QED BY <1>1, <1>3, <2>1 DEF Activates, SessionInv, Owned, Exists
<1>6. OneOpenSession'
  BY <1>1, <1>2 DEF Activates, SessionInv, OneOpenSession, Of, IsOpen
<1>7. Accounting'
  BY <1>1, <1>2, <1>4 DEF Activates, SessionInv, Accounting
<1> QED BY <1>5, <1>6, <1>7 DEF SessionInv

(* and so does the legacy registration of an unknown id.                    *)
LEMMA RegisterBase ==
    ASSUME TypeOK, SessionInv, NEW a \in Agents, Register(a)
    PROVE  SessionInv'
<1>1. Owned'
  <2> USE DEF Owned
  <2> TAKE t \in Sessions
  <2>1. sessions[t].agent \in Agents \cup {NoAgent}
    BY DEF TypeOK, SessionRow
  <2> QED BY <2>1 DEF Register, SessionInv, Owned, Exists, TypeOK, AgentRow
<1>2. OneOpenSession' /\ Accounting'
  BY DEF Register, SessionInv, OneOpenSession, Accounting, Of, IsOpen
<1> QED BY <1>1, <1>2 DEF SessionInv

(* Stuttering is quiet,                                                     *)
LEMMA UnchangedQuiet ==
    ASSUME TypeOK, UNCHANGED vars
    PROVE  Quiet
BY DEF vars, TypeOK, Quiet, QuietSession, QuietAgent

(* the passing of a second is quiet,                                        *)
LEMMA TickQuiet ==
    ASSUME TypeOK, Tick
    PROVE  Quiet
BY DEF Tick, TypeOK, Quiet, QuietSession, QuietAgent

(* and so is a revocation, as far as sessions and secrets go.               *)
LEMMA RevokeQuiet ==
    ASSUME TypeOK, NEW a \in Agents, Revoke(a)
    PROVE  Quiet
BY DEF Revoke, TypeOK, AgentRow, Quiet, QuietSession, QuietAgent, Exists

-----------------------------------------------------------------------------
(* The count of wrong PINs, one step per action. *)

(* Every step keeps the bound on wrong PINs.                                *)
LEMMA NextAttempts ==
    ASSUME TypeOK, Owned, AttemptsBounded, [Next]_vars
    PROVE  AttemptsBounded'
<1> USE DEF AttemptsBounded
<1>1. ASSUME NEW a \in Agents, NEW s \in Sessions, Start(a, s) PROVE AttemptsBounded'
  <2> SUFFICES ASSUME NEW t \in Sessions
               PROVE  /\ sessions'[t].attempts <= MaxAttempts
                      /\ sessions'[t].status = "AWAITING_PAIR" =>
                             sessions'[t].attempts < MaxAttempts
    BY DEF IsOpen
  <2>1. CASE t = s
    <3>1. sessions'[s].attempts = 0
      BY <1>1, StartedRow
    <3> QED BY <2>1, <3>1, AttemptsAssumption
  <2>2. CASE t # s
    <3>1. QuietSession(t) /\ sessions'[t].attempts = sessions[t].attempts
      BY <1>1, <2>2, StartedOthers
    <3> QED BY <3>1 DEF QuietSession, IsOpen
  <2> QED BY <2>1, <2>2
<1>2. ASSUME NEW s \in Sessions, CompleteExpired(s) PROVE AttemptsBounded'
  <2>1. sessions[s] \in SessionRow
    BY DEF TypeOK
  <2>2. /\ sessions'[s].attempts = sessions[s].attempts + 1
        /\ sessions'[s].status = "EXPIRED"
        /\ \A t \in Sessions \ {s} : sessions'[t] = sessions[t]
    BY <1>2, <2>1, Zenon DEF CompleteExpired, TypeOK, SessionRow
  <2>3. sessions[s].attempts \in Nat /\ sessions[s].attempts < MaxAttempts
    BY <1>2, <2>1 DEF CompleteExpired, SessionRow
  <2> QED BY <2>2, <2>3, AttemptsAssumption DEF IsOpen
<1>3. ASSUME NEW s \in Sessions, CompleteWrongPin(s) PROVE AttemptsBounded'
  <2>1. sessions[s] \in SessionRow
    BY DEF TypeOK
  <2>2. /\ sessions'[s].attempts = sessions[s].attempts + 1
        /\ Locks(s) => sessions'[s].status = "EXPIRED"
        /\ \A t \in Sessions \ {s} : sessions'[t] = sessions[t]
    <3>1. sessions'[s] = [sessions[s] EXCEPT
                 !.attempts = @ + 1, !.status = IF Locks(s) THEN "EXPIRED" ELSE @]
      BY <1>3, Zenon DEF CompleteWrongPin, TypeOK
    <3>2. sessions'[s].attempts = sessions[s].attempts + 1
      BY <2>1, <3>1, Zenon DEF SessionRow
    <3>3. sessions'[s].status = IF Locks(s) THEN "EXPIRED" ELSE sessions[s].status
      BY <2>1, <3>1, Zenon DEF SessionRow
    <3>4. \A t \in Sessions \ {s} : sessions'[t] = sessions[t]
      BY <1>3, Zenon DEF CompleteWrongPin, TypeOK
    <3> QED BY <3>2, <3>3, <3>4
  <2>3. sessions[s].attempts \in Nat /\ sessions[s].attempts < MaxAttempts
    BY <1>3, <2>1 DEF CompleteWrongPin, SessionRow
  <2> QED BY <2>2, <2>3, AttemptsAssumption DEF IsOpen, Locks
<1>4. ASSUME NEW s \in Sessions, Complete(s) PROVE AttemptsBounded'
  BY <1>4, CompleteEffect DEF IsOpen
<1>5. ASSUME NEW a \in Agents, PollUnpaired(a) PROVE AttemptsBounded'
  BY <1>5, MarkExpiredEffect DEF PollUnpaired, IsOpen
<1>6. ASSUME NEW a \in Agents, PollPaired(a) PROVE AttemptsBounded'
  BY <1>6, PollPairedEffect DEF Quiet, QuietSession, IsOpen
<1>7. ASSUME NEW a \in Agents, Revoke(a) PROVE AttemptsBounded'
  BY <1>7 DEF Revoke, IsOpen
<1>8. ASSUME NEW a \in Agents, Register(a) PROVE AttemptsBounded'
  BY <1>8 DEF Register, IsOpen
<1>9. ASSUME NEW a \in Agents, NEW t \in 1 .. tokens, Activate(a, t)
      PROVE  AttemptsBounded'
  BY <1>9, ActivateEffect DEF Activates, IsOpen
<1>10. CASE Tick
  BY <1>10 DEF Tick, IsOpen
<1>11. CASE UNCHANGED vars
  BY <1>11 DEF vars, IsOpen
<1> QED
  BY <1>1, <1>2, <1>3, <1>4, <1>5, <1>6, <1>7, <1>8, <1>9, <1>10, <1>11 DEF Next

(* Every step keeps the session part of the base invariant.                 *)
LEMMA NextSession ==
    ASSUME TypeOK, SessionInv, [Next]_vars
    PROVE  SessionInv'
<1>0. Owned
  BY DEF SessionInv
<1>1. ASSUME NEW a \in Agents, NEW s \in Sessions, Start(a, s) PROVE SessionInv'
  BY <1>1, StartBase
<1>2. ASSUME NEW s \in Sessions, CompleteExpired(s) PROVE SessionInv'
  BY <1>0, <1>2, ExpireEffect, QuietBase
<1>3. ASSUME NEW s \in Sessions, CompleteWrongPin(s) PROVE SessionInv'
  BY <1>0, <1>3, WrongPinEffect, QuietBase
<1>4. ASSUME NEW s \in Sessions, Complete(s) PROVE SessionInv'
  BY <1>4, CompleteBase
<1>5. ASSUME NEW a \in Agents, PollUnpaired(a) PROVE SessionInv'
  BY <1>5, PollUnpairedEffect, QuietBase
<1>6. ASSUME NEW a \in Agents, PollPaired(a) PROVE SessionInv'
  BY <1>6, PollPairedEffect, QuietBase
<1>7. ASSUME NEW a \in Agents, Revoke(a) PROVE SessionInv'
  BY <1>7, RevokeQuiet, QuietBase
<1>8. ASSUME NEW a \in Agents, Register(a) PROVE SessionInv'
  BY <1>8, RegisterBase
<1>9. ASSUME NEW a \in Agents, NEW t \in 1 .. tokens, Activate(a, t) PROVE SessionInv'
  BY <1>9, ActivateBase
<1>10. CASE Tick
  BY <1>10, TickQuiet, QuietBase
<1>11. CASE UNCHANGED vars
  BY <1>11, UnchangedQuiet, QuietBase
<1> QED
  BY <1>1, <1>2, <1>3, <1>4, <1>5, <1>6, <1>7, <1>8, <1>9, <1>10, <1>11 DEF Next

(* The base invariant is inductive.                                         *)
LEMMA NextBase == BaseInv /\ [Next]_vars => BaseInv'
BY NextTypeOK, NextAttempts, NextSession DEF BaseInv, SessionInv

(* The base invariant holds in every reachable state: types, ownership of   *)
(* session ids, one open session, bounded attempts, and the accounting of   *)
(* returned secrets.                                                        *)
THEOREM BaseInvariant == Spec => []BaseInv
BY InitBase, NextBase, PTL DEF Spec

(* At most one session of an agent is open, in every reachable state.       *)
THEOREM OneOpen == Spec => []OneOpenSession
<1>1. BaseInv => OneOpenSession
  BY DEF BaseInv
<1> QED BY <1>1, BaseInvariant, PTL

(* No interleaving of wrong PINs, expiry and new ceremonies gets a session  *)
(* past its allowance of attempts.                                          *)
THEOREM AttemptsStayBounded == Spec => []AttemptsBounded
<1>1. BaseInv => AttemptsBounded
  BY DEF BaseInv
<1> QED BY <1>1, BaseInvariant, PTL

(* pair/complete and register/activate return a relay secret once each.     *)
THEOREM HandedOutOnce == Spec => []SecretHandedOutOnce
<1>1. BaseInv => SecretHandedOutOnce
  BY DEF BaseInv, Accounting, SecretHandedOutOnce
<1> QED BY <1>1, BaseInvariant, PTL

-----------------------------------------------------------------------------
(* The part that needs the sessions of an agent to be ordered by time.      *)

(* The empty tables satisfy the ordering invariant.                         *)
LEMMA InitOrder == Init => OrderInv
<1> SUFFICES ASSUME Init PROVE OrderInv
  OBVIOUS
<1>1. \A s \in Sessions : sessions[s].agent = NoAgent
  BY Zenon DEF Init, BlankRow
<1>2. \A a \in Agents : agents[a].status = "NONE"
  BY DEF Init
<1>3. Ordered
  BY <1>1 DEF Ordered
<1>4. CurrentSecret
  BY <1>1, NoAgentAssumption DEF CurrentSecret, Newest, PairedOf, Of
<1>5. PairedIsNewest /\ SecretAgreement
  BY <1>2 DEF PairedIsNewest, SecretAgreement
<1> QED BY <1>3, <1>4, <1>5 DEF OrderInv

(* Which sessions of an agent count, and which is the newest, depends only  *)
(* on three columns.                                                        *)
SameRecord(t) ==
    /\ sessions'[t].agent = sessions[t].agent
    /\ sessions'[t].created = sessions[t].created
    /\ sessions'[t].secret = sessions[t].secret
    /\ sessions'[t].status = "PAIRED" <=> sessions[t].status = "PAIRED"

(* The newest session does not change when no record it is chosen by does.  *)
LEMMA SameNewest ==
    ASSUME NEW a \in Agents,
           \A t \in Sessions : SameRecord(t)
    PROVE  /\ Of(a)' = Of(a)
           /\ PairedOf(a)' = PairedOf(a)
           /\ Newest(PairedOf(a))' = Newest(PairedOf(a))
<1>1. Of(a)' = Of(a)
  BY DEF Of, SameRecord
<1>2. PairedOf(a)' = PairedOf(a)
  BY <1>1 DEF PairedOf, Of, SameRecord
<1>3. \A t \in PairedOf(a) : sessions'[t].created = sessions[t].created
  BY DEF PairedOf, Of, SameRecord
<1>4. Newest(PairedOf(a))' = Newest(PairedOf(a))
  BY <1>2, <1>3 DEF Newest
<1> QED BY <1>1, <1>2, <1>4

(* Quiet steps keep the ordering invariant,                                 *)
LEMMA QuietOrder ==
    ASSUME TypeOK, TypeOK', OrderInv, Quiet
    PROVE  OrderInv'
<1>1. \A t \in Sessions : SameRecord(t)
  BY DEF Quiet, QuietSession, SameRecord, IsOpen
<1>2. Ordered'
  <2> SUFFICES ASSUME NEW s \in Sessions, NEW t \in Sessions,
                      sessions'[s].agent # NoAgent
               PROVE  /\ sessions'[s].created <= now'
                      /\ sessions'[s].agent = sessions'[t].agent /\ s # t =>
                           /\ sessions'[s].created # sessions'[t].created
                           /\ sessions'[s].status = "AWAITING_PAIR" =>
                                sessions'[t].created < sessions'[s].created
    BY DEF Ordered, IsOpen
  <2>1. QuietSession(s) /\ QuietSession(t) /\ now <= now'
    BY DEF Quiet
  <2>2. sessions[s].created \in Nat /\ now \in Nat /\ now' \in Nat
    BY DEF TypeOK, SessionRow
  <2> QED BY <2>1, <2>2 DEF QuietSession, OrderInv, Ordered, IsOpen
<1>3. CurrentSecret'
  <2> SUFFICES ASSUME NEW a \in Agents, NEW s \in Newest(PairedOf(a))'
               PROVE  sessions'[s].secret = agents'[a].secret
    BY DEF CurrentSecret
  <2>1. s \in Newest(PairedOf(a)) /\ s \in Sessions
    BY <1>1, SameNewest DEF Newest, PairedOf, Of
  <2> QED BY <1>1, <2>1 DEF SameRecord, Quiet, QuietAgent, OrderInv, CurrentSecret
<1>4. PairedIsNewest'
  <2> SUFFICES ASSUME NEW a \in Agents, agents'[a].status = "PAIRED"
               PROVE  \E s \in PairedOf(a)' :
                         /\ ~sessions'[s].delivered
                         /\ \A t \in Of(a)' : sessions'[t].created <= sessions'[s].created
    BY DEF PairedIsNewest
  <2>1. PICK s \in PairedOf(a) :
          /\ ~sessions[s].delivered
          /\ \A t \in Of(a) : sessions[t].created <= sessions[s].created
    BY DEF Quiet, QuietAgent, OrderInv, PairedIsNewest
  <2>2. s \in Sessions /\ \A t \in Of(a) : t \in Sessions
    BY DEF PairedOf, Of
  <2>3. ~sessions'[s].delivered
    BY <2>1, <2>2 DEF Quiet, QuietSession
  <2>4. \A t \in Of(a) : sessions'[t].created <= sessions'[s].created
    BY <1>1, <2>1, <2>2 DEF SameRecord
  <2> QED BY <1>1, <2>1, <2>3, <2>4, SameNewest
<1>5. SecretAgreement'
  BY DEF Quiet, QuietAgent, OrderInv, SecretAgreement
<1> QED BY <1>2, <1>3, <1>4, <1>5 DEF OrderInv

(* so does a ceremony started in a second of its own,                       *)
LEMMA StartOrder ==
    ASSUME TypeOK, SessionInv, OrderInv, ~SameSecond,
           NEW a \in Agents, NEW s \in Sessions, Start(a, s)
    PROVE  OrderInv'
<1>0. /\ \A b \in Agents : b # a => agents'[b] = agents[b]
      /\ agents'[a].status = "AWAITING_PAIR"
      /\ Exists(a) => agents'[a].secret = agents[a].secret
      /\ toAgent' = toAgent /\ now' = now /\ now \in Nat
  BY DEF Start, RowAtStart, TypeOK
<1>1. sessions[s].agent = NoAgent /\ sessions[s].status = "FREE"
  BY DEF Start, SessionInv, Owned
<1>2. \A t \in Sessions : sessions[t].agent = a => sessions[t].created < now
  BY DEF Start, Of
<1>3. Ordered'
  <2> SUFFICES ASSUME NEW u \in Sessions, NEW t \in Sessions,
                      sessions'[u].agent # NoAgent
               PROVE  /\ sessions'[u].created <= now'
                      /\ sessions'[u].agent = sessions'[t].agent /\ u # t =>
                           /\ sessions'[u].created # sessions'[t].created
                           /\ sessions'[u].status = "AWAITING_PAIR" =>
                                sessions'[t].created < sessions'[u].created
    BY DEF Ordered, IsOpen
  <2>0. /\ sessions[u].created \in Nat /\ sessions[t].created \in Nat
    BY DEF TypeOK, SessionRow
  <2>1. sessions'[s].agent = a /\ sessions'[s].created = now
    BY StartedRow
  <2>2. CASE u = s /\ t = s
    BY <1>0, <2>1, <2>2
  <2>3. CASE u = s /\ t # s
    <3>1. QuietSession(t)
      BY <2>3, StartedOthers
    <3> QED BY <1>0, <1>2, <2>0, <2>1, <2>3, <3>1 DEF QuietSession
  <2>4. CASE u # s /\ t = s
    <3>1. QuietSession(u) /\ (sessions[u].agent = a => sessions'[u].status # "AWAITING_PAIR")
      BY <2>4, StartedOthers
    <3> QED BY <1>0, <1>2, <2>0, <2>1, <2>4, <3>1 DEF QuietSession, OrderInv, Ordered
  <2>5. CASE u # s /\ t # s
    <3>1. QuietSession(t) /\ QuietSession(u)
      BY <2>5, StartedOthers
    <3> QED BY <1>0, <2>0, <3>1 DEF QuietSession, OrderInv, Ordered, IsOpen
  <2> QED BY <2>2, <2>3, <2>4, <2>5
<1>4. \A b \in Agents : PairedOf(b)' = PairedOf(b)
  <2> SUFFICES ASSUME NEW b \in Agents, NEW t \in Sessions
               PROVE  sessions'[t].agent = b /\ sessions'[t].status = "PAIRED" <=>
                      sessions[t].agent = b /\ sessions[t].status = "PAIRED"
    BY DEF PairedOf, Of
  <2>1. CASE t = s
    BY <1>1, <2>1, StartedRow
  <2>2. CASE t # s
    <3>1. QuietSession(t)
      BY <2>2, StartedOthers
    <3> QED BY <3>1 DEF QuietSession, IsOpen
  <2> QED BY <2>1, <2>2
<1>5. \A b \in Agents : \A t \in PairedOf(b) : t \in Sessions /\ t # s /\ QuietSession(t)
  <2> SUFFICES ASSUME NEW b \in Agents, NEW t \in PairedOf(b)
               PROVE  t \in Sessions /\ t # s /\ QuietSession(t)
    OBVIOUS
  <2>1. t \in Sessions /\ t # s
    BY <1>1 DEF PairedOf, Of
  <2> QED BY <2>1, StartedOthers
<1>6. CurrentSecret'
  <2> SUFFICES ASSUME NEW b \in Agents, NEW t \in Newest(PairedOf(b))'
               PROVE  sessions'[t].secret = agents'[b].secret
    BY DEF CurrentSecret
  <2>1. t \in Newest(PairedOf(b)) /\ t \in PairedOf(b)
    BY <1>4, <1>5 DEF Newest, QuietSession
  <2>2. sessions[t].secret = agents[b].secret
    BY <2>1 DEF OrderInv, CurrentSecret
  <2>3. sessions'[t].secret = sessions[t].secret
    BY <1>5, <2>1 DEF QuietSession
  <2>4. b = a => Exists(a)
    BY <2>1, NoAgentAssumption DEF PairedOf, Of, SessionInv, Owned
  <2> QED BY <1>0, <2>2, <2>3, <2>4
<1>7. PairedIsNewest'
  <2> SUFFICES ASSUME NEW b \in Agents, agents'[b].status = "PAIRED"
               PROVE  \E u \in PairedOf(b)' :
                         /\ ~sessions'[u].delivered
                         /\ \A t \in Of(b)' : sessions'[t].created <= sessions'[u].created
    BY DEF PairedIsNewest
  <2>1. b # a /\ agents[b].status = "PAIRED"
    BY <1>0
  <2>2. PICK u \in PairedOf(b) :
          /\ ~sessions[u].delivered
          /\ \A t \in Of(b) : sessions[t].created <= sessions[u].created
    BY <2>1 DEF OrderInv, PairedIsNewest
  <2>3. ASSUME NEW t \in Of(b)'
        PROVE  t \in Of(b) /\ sessions'[t].created = sessions[t].created
    <3>1. t \in Sessions /\ t # s
      BY <2>1, StartedRow DEF Of
    <3>2. QuietSession(t)
      BY <3>1, StartedOthers
    <3> QED BY <3>1, <3>2 DEF QuietSession, Of
  <2>4. ~sessions'[u].delivered /\ sessions'[u].created = sessions[u].created
    BY <1>5, <2>2 DEF QuietSession
  <2> QED BY <1>4, <2>2, <2>3, <2>4
<1>8. SecretAgreement'
  BY <1>0 DEF OrderInv, SecretAgreement
<1> QED BY <1>3, <1>6, <1>7, <1>8 DEF OrderInv

(* so does a pairing: the open session it completes is the newest,          *)
LEMMA CompleteOrder ==
    ASSUME TypeOK, SessionInv, OrderInv, NEW s \in Sessions, Complete(s)
    PROVE  OrderInv'
<1> DEFINE a == sessions[s].agent
<1>0. a \in Agents /\ IsOpen(s) /\ ~sessions[s].delivered
  BY DEF Complete, TypeOK, SessionRow, SessionInv, Owned, Accounting, IsOpen
<1>1. /\ \A b \in Agents : b # a => agents'[b] = agents[b]
      /\ agents'[a].status = "PAIRED" /\ agents'[a].secret = minted'
      /\ toAgent' = toAgent /\ now' = now
  BY <1>0 DEF Complete, TypeOK
<1>2. \A t \in Sessions : /\ sessions'[t].agent = sessions[t].agent
                          /\ sessions'[t].created = sessions[t].created
                          /\ sessions'[t].delivered = sessions[t].delivered
                          /\ t # s => sessions'[t] = sessions[t]
  <2> TAKE t \in Sessions
  <2>1. CASE t = s
    BY <2>1, CompleteEffect
  <2>2. CASE t # s
    BY <2>2, CompleteEffect
  <2> QED BY <2>1, <2>2
<1>3. sessions'[s].status = "PAIRED" /\ sessions'[s].secret = minted'
  BY CompleteEffect
<1>4. \A t \in Of(a) : t \in Sessions /\ (t # s => sessions[t].created < sessions[s].created)
  <2> SUFFICES ASSUME NEW t \in Sessions, sessions[t].agent = a, t # s
               PROVE  sessions[t].created < sessions[s].created
    BY DEF Of
  <2> QED BY <1>0, NoAgentAssumption DEF OrderInv, Ordered
<1>5. \A t \in Sessions : sessions[t].created \in Nat
  BY DEF TypeOK, SessionRow
<1>6. Ordered'
  <2> SUFFICES ASSUME NEW u \in Sessions, NEW t \in Sessions,
                      sessions'[u].agent # NoAgent
               PROVE  /\ sessions'[u].created <= now'
                      /\ sessions'[u].agent = sessions'[t].agent /\ u # t =>
                           /\ sessions'[u].created # sessions'[t].created
                           /\ sessions'[u].status = "AWAITING_PAIR" =>
                                sessions'[t].created < sessions'[u].created
    BY DEF Ordered, IsOpen
  <2>1. sessions'[u].status = "AWAITING_PAIR" => IsOpen(u)
    BY <1>2, <1>3 DEF IsOpen
  <2> QED BY <1>1, <1>2, <2>1 DEF OrderInv, Ordered
<1>7. CurrentSecret'
  <2> SUFFICES ASSUME NEW b \in Agents, NEW t \in Newest(PairedOf(b))'
               PROVE  sessions'[t].secret = agents'[b].secret
    BY DEF CurrentSecret
  <2>1. /\ t \in Sessions /\ sessions'[t].agent = b /\ sessions'[t].status = "PAIRED"
        /\ \A u \in Sessions :
              sessions'[u].agent = b /\ sessions'[u].status = "PAIRED"
                => sessions'[u].created <= sessions'[t].created
    BY DEF Newest, PairedOf, Of
  <2>2. CASE b = a
    <3>1. sessions[s].created <= sessions[t].created
      BY <1>2, <1>3, <2>1, <2>2
    <3>2. t \in Of(a)
      BY <1>2, <2>1, <2>2 DEF Of
    <3>3. t = s
      BY <1>4, <1>5, <3>1, <3>2
    <3> QED BY <1>1, <1>3, <2>2, <3>3
  <2>3. CASE b # a
    <3>1. t # s /\ sessions'[t] = sessions[t]
      BY <1>2, <2>1, <2>3
    <3>2. t \in PairedOf(b)
      BY <2>1, <3>1 DEF PairedOf, Of
    <3>3. ASSUME NEW u \in PairedOf(b)
          PROVE  sessions[u].created <= sessions[t].created
      <4>1. u \in Sessions /\ u # s /\ sessions[u].agent = b /\ sessions[u].status = "PAIRED"
        BY <2>3 DEF PairedOf, Of
      <4> QED BY <1>2, <2>1, <3>1, <4>1
    <3>4. t \in Newest(PairedOf(b))
      BY <3>2, <3>3 DEF Newest
    <3> QED BY <1>1, <2>3, <3>1, <3>4 DEF OrderInv, CurrentSecret
  <2> QED BY <2>2, <2>3
<1>8. PairedIsNewest'
  <2> SUFFICES ASSUME NEW b \in Agents, agents'[b].status = "PAIRED"
               PROVE  \E u \in PairedOf(b)' :
                         /\ ~sessions'[u].delivered
                         /\ \A t \in Of(b)' : sessions'[t].created <= sessions'[u].created
    BY DEF PairedIsNewest
  <2>1. Of(b)' = Of(b)
    BY <1>2 DEF Of
  <2>2. CASE b = a
    <3>1. s \in PairedOf(b)'
      BY <1>2, <1>3, <2>2 DEF PairedOf, Of
    <3>2. \A t \in Of(b)' : sessions'[t].created <= sessions'[s].created
      BY <1>2, <1>4, <1>5, <2>1, <2>2
    <3> QED BY <1>0, <1>2, <3>1, <3>2
  <2>3. CASE b # a
    <3>1. PICK u \in PairedOf(b) :
            /\ ~sessions[u].delivered
            /\ \A t \in Of(b) : sessions[t].created <= sessions[u].created
      BY <1>1, <2>3 DEF OrderInv, PairedIsNewest
    <3>2. u \in Sessions /\ u # s /\ sessions[u].agent = b /\ sessions[u].status = "PAIRED"
      BY <2>3 DEF PairedOf, Of
    <3>3. u \in PairedOf(b)' /\ ~sessions'[u].delivered
      BY <1>2, <3>1, <3>2 DEF PairedOf, Of
    <3>4. \A t \in Of(b) : t \in Sessions
      BY DEF Of
    <3> QED BY <1>2, <2>1, <3>1, <3>2, <3>3, <3>4
  <2> QED BY <2>2, <2>3
<1>9. SecretAgreement'
  BY <1>1 DEF OrderInv, SecretAgreement
<1> QED BY <1>6, <1>7, <1>8, <1>9 DEF OrderInv

(* so does an activation: the secret it returns is the agent's,             *)
LEMMA ActivateOrder ==
    ASSUME TypeOK, OrderInv,
           NEW a \in Agents, NEW k \in 1 .. tokens, Activate(a, k)
    PROVE  OrderInv'
<1>1. PICK s \in Sessions : Activates(a, s)
  BY ActivateEffect
<1>2. /\ \A b \in Agents : b # a => agents'[b] = agents[b]
      /\ agents'[a].status = "ACTIVE" /\ agents'[a].secret = agents[a].secret
      /\ now' = now
  BY DEF Activate, TypeOK, AgentRow
<1>3. /\ \A b \in Agents : b # a => toAgent'[b] = toAgent[b]
      /\ toAgent'[a] = sessions[s].secret
  BY <1>1 DEF Activates, TypeOK
<1>4. \A t \in Sessions : SameRecord(t) /\ sessions'[t].status = sessions[t].status
  BY <1>1 DEF Activates, SameRecord
<1>5. Ordered'
  BY <1>2, <1>4 DEF OrderInv, Ordered, SameRecord, IsOpen
<1>6. CurrentSecret'
  <2> SUFFICES ASSUME NEW b \in Agents, NEW t \in Newest(PairedOf(b))'
               PROVE  sessions'[t].secret = agents'[b].secret
    BY DEF CurrentSecret
  <2>1. t \in Newest(PairedOf(b)) /\ t \in Sessions
    BY <1>4, SameNewest DEF Newest, PairedOf, Of
  <2> QED BY <1>2, <1>4, <2>1 DEF SameRecord, OrderInv, CurrentSecret
<1>7. PairedIsNewest'
  <2> SUFFICES ASSUME NEW b \in Agents, agents'[b].status = "PAIRED"
               PROVE  \E u \in PairedOf(b)' :
                         /\ ~sessions'[u].delivered
                         /\ \A t \in Of(b)' : sessions'[t].created <= sessions'[u].created
    BY DEF PairedIsNewest
  <2>1. b # a /\ agents[b].status = "PAIRED"
    BY <1>2
  <2>2. PICK u \in PairedOf(b) :
          /\ ~sessions[u].delivered
          /\ \A t \in Of(b) : sessions[t].created <= sessions[u].created
    BY <2>1 DEF OrderInv, PairedIsNewest
  <2>3. sessions[s].agent = a /\ u \in Sessions /\ sessions[u].agent = b
    BY <1>1 DEF Activates, Newest, PairedOf, Of
  <2>4. ~sessions'[u].delivered
    BY <1>1, <2>1, <2>2, <2>3 DEF Activates
  <2>5. \A t \in Of(b) : sessions'[t].created <= sessions'[u].created
    BY <1>4, <2>2, <2>3 DEF SameRecord, Of
  <2>6. Of(b)' = Of(b) /\ PairedOf(b)' = PairedOf(b)
    BY <1>4, SameNewest
  <2> QED BY <2>2, <2>4, <2>5, <2>6
<1>8. SecretAgreement'
  <2>1. sessions[s].secret = agents[a].secret
    BY <1>1 DEF Activates, OrderInv, CurrentSecret
  <2> QED BY <1>2, <1>3, <2>1 DEF OrderInv, SecretAgreement
<1> QED BY <1>5, <1>6, <1>7, <1>8 DEF OrderInv

(* and so does the legacy registration.                                     *)
LEMMA RegisterOrder ==
    ASSUME TypeOK, SessionInv, OrderInv, NEW a \in Agents, Register(a)
    PROVE  OrderInv'
<1>1. /\ \A b \in Agents : b # a => agents'[b] = agents[b]
      /\ agents'[a].status = "ACTIVE" /\ agents'[a].secret = minted'
      /\ \A b \in Agents : b # a => toAgent'[b] = toAgent[b]
      /\ toAgent'[a] = minted'
      /\ sessions' = sessions /\ now' = now
  BY DEF Register, TypeOK
<1>2. \A t \in Sessions : sessions[t].agent # a
  BY NoAgentAssumption DEF Register, SessionInv, Owned
<1>3. Ordered'
  BY <1>1 DEF OrderInv, Ordered, IsOpen
<1>4. CurrentSecret'
  <2> SUFFICES ASSUME NEW b \in Agents, NEW t \in Newest(PairedOf(b))'
               PROVE  sessions'[t].secret = agents'[b].secret
    BY DEF CurrentSecret
  <2>1. t \in Newest(PairedOf(b)) /\ sessions[t].agent = b /\ t \in Sessions
    BY <1>1 DEF Newest, PairedOf, Of
  <2> QED BY <1>1, <1>2, <2>1 DEF OrderInv, CurrentSecret
<1>5. PairedIsNewest'
  <2>1. \A b \in Agents : /\ PairedOf(b)' = PairedOf(b)
                          /\ Of(b)' = Of(b)
    BY <1>1 DEF PairedOf, Of
  <2> QED BY <1>1, <2>1 DEF OrderInv, PairedIsNewest
<1>6. SecretAgreement'
  BY <1>1 DEF OrderInv, SecretAgreement
<1> QED BY <1>3, <1>4, <1>5, <1>6 DEF OrderInv

(* The ordering invariant is inductive when seconds are not shared.         *)
LEMMA NextOrder ==
    ASSUME BaseInv, BaseInv', OrderInv, ~SameSecond, [Next]_vars
    PROVE  OrderInv'
<1>0. TypeOK /\ TypeOK' /\ Owned /\ SessionInv
  BY DEF BaseInv, SessionInv
<1>1. ASSUME NEW a \in Agents, NEW s \in Sessions, Start(a, s) PROVE OrderInv'
  BY <1>0, <1>1, StartOrder
<1>2. ASSUME NEW s \in Sessions, CompleteExpired(s) PROVE OrderInv'
  BY <1>0, <1>2, ExpireEffect, QuietOrder
<1>3. ASSUME NEW s \in Sessions, CompleteWrongPin(s) PROVE OrderInv'
  BY <1>0, <1>3, WrongPinEffect, QuietOrder
<1>4. ASSUME NEW s \in Sessions, Complete(s) PROVE OrderInv'
  BY <1>0, <1>4, CompleteOrder
<1>5. ASSUME NEW a \in Agents, PollUnpaired(a) PROVE OrderInv'
  BY <1>0, <1>5, PollUnpairedEffect, QuietOrder
<1>6. ASSUME NEW a \in Agents, PollPaired(a) PROVE OrderInv'
  BY <1>0, <1>6, PollPairedEffect, QuietOrder
<1>7. ASSUME NEW a \in Agents, Revoke(a) PROVE OrderInv'
  BY <1>0, <1>7, RevokeQuiet, QuietOrder
<1>8. ASSUME NEW a \in Agents, Register(a) PROVE OrderInv'
  BY <1>0, <1>8, RegisterOrder
<1>9. ASSUME NEW a \in Agents, NEW t \in 1 .. tokens, Activate(a, t) PROVE OrderInv'
  BY <1>0, <1>9, ActivateOrder
<1>10. CASE Tick
  BY <1>0, <1>10, TickQuiet, QuietOrder
<1>11. CASE UNCHANGED vars
  BY <1>0, <1>11, UnchangedQuiet, QuietOrder
<1> QED
  BY <1>1, <1>2, <1>3, <1>4, <1>5, <1>6, <1>7, <1>8, <1>9, <1>10, <1>11 DEF Next

(* The inductive invariant the safety theorems below follow from.           *)
THEOREM InductiveInvariant == Spec => []IInv
<1>1. Init => IInv
  BY InitBase, InitOrder DEF IInv
<1>2. IInv /\ [Next]_vars => IInv'
  BY NextBase, NextOrder DEF IInv
<1> QED BY <1>1, <1>2, PTL DEF Spec

(* If no agent starts two ceremonies within a second, the secret last given *)
(* to an ACTIVE agent is the one its phones are checked against.            *)
THEOREM SecretsAgree == ASSUME ~SameSecond PROVE Spec => []SecretAgreement
<1>1. IInv => SecretAgreement
  BY DEF IInv, OrderInv
<1> QED BY <1>1, InductiveInvariant, PTL

(* Under the same assumption the token a status poll hands to a PAIRED      *)
(* agent is looked up on the session that stores it.                        *)
THEOREM PairedCanActivate == ASSUME ~SameSecond PROVE Spec => []PairedIsActivatable
<1>1. ASSUME IInv PROVE PairedIsActivatable
  <2> SUFFICES ASSUME NEW a \in Agents, agents[a].status = "PAIRED"
               PROVE  /\ Of(a) # {}
                      /\ Newest(Of(a)) = Newest(PairedOf(a))
                      /\ \A s \in Newest(Of(a)) :
                            sessions[s].secret = agents[a].secret /\ ~sessions[s].delivered
    BY DEF PairedIsActivatable
  <2>1. TypeOK /\ OrderInv
    BY <1>1 DEF IInv, BaseInv
  <2>2. PICK s \in PairedOf(a) :
          /\ ~sessions[s].delivered
          /\ \A t \in Of(a) : sessions[t].created <= sessions[s].created
    BY <2>1 DEF OrderInv, PairedIsNewest
  <2>3. \A t \in Of(a) : /\ t \in Sessions
                         /\ sessions[t].created \in Nat
                         /\ t # s => sessions[t].created # sessions[s].created
    BY <2>1, <2>2, NoAgentAssumption DEF OrderInv, Ordered, PairedOf, Of, TypeOK, SessionRow
  <2>4. s \in Of(a) /\ PairedOf(a) \subseteq Of(a)
    BY <2>2 DEF PairedOf
  <2>5. Newest(Of(a)) = {s}
    BY <2>2, <2>3, <2>4 DEF Newest
  <2>6. Newest(PairedOf(a)) = {s}
    BY <2>2, <2>3, <2>4 DEF Newest
  <2>7. sessions[s].secret = agents[a].secret
    BY <2>1, <2>6 DEF OrderInv, CurrentSecret
  <2> QED BY <2>2, <2>4, <2>5, <2>6, <2>7
<1> QED BY <1>1, InductiveInvariant, PTL

(* An agent's secret is replaced only by a pairing of that agent, of an     *)
(* open, unexpired and unlocked session.                                    *)
THEOREM RotationOnlyByPairing == Spec => RotationNeedsPairing
<1>1. ASSUME BaseInv, [Next]_vars, NEW a \in Agents,
             Exists(a), agents'[a].secret # agents[a].secret
      PROVE  \E s \in Of(a) : /\ IsOpen(s)
                              /\ now < sessions[s].expires
                              /\ sessions[s].attempts < MaxAttempts
                              /\ sessions'[s].status = "PAIRED"
                              /\ sessions'[s].secret = agents'[a].secret
  <2>0. TypeOK /\ Owned /\ AttemptsBounded
    BY <1>1 DEF BaseInv
  <2>1. ASSUME NEW s \in Sessions, Complete(s), sessions[s].agent = a
        PROVE  s \in Of(a) /\ IsOpen(s) /\ now < sessions[s].expires
                 /\ sessions[s].attempts < MaxAttempts
                 /\ sessions'[s].status = "PAIRED"
                 /\ sessions'[s].secret = agents'[a].secret
    BY <2>0, <2>1, CompleteEffect DEF Complete, Of, TypeOK, AttemptsBounded
  <2>2. ASSUME NEW s \in Sessions, Complete(s), sessions[s].agent # a PROVE FALSE
    BY <1>1, <2>0, <2>2 DEF Complete, TypeOK
  <2>3. ASSUME Quiet PROVE FALSE
    BY <1>1, <2>3 DEF Quiet, QuietAgent
  <2>4. ASSUME NEW b \in Agents, NEW s \in Sessions, Start(b, s) PROVE FALSE
    BY <1>1, <2>0, <2>4 DEF Start, RowAtStart, TypeOK
  <2>5. ASSUME NEW b \in Agents, Register(b) PROVE FALSE
    BY <1>1, <2>0, <2>5 DEF Register, TypeOK
  <2>6. ASSUME NEW b \in Agents, NEW t \in 1 .. tokens, Activate(b, t) PROVE FALSE
    BY <1>1, <2>0, <2>6 DEF Activate, TypeOK, AgentRow
  <2>7. ASSUME NEW s \in Sessions, CompleteExpired(s) PROVE FALSE
    BY <2>0, <2>3, <2>7, ExpireEffect
  <2>8. ASSUME NEW s \in Sessions, CompleteWrongPin(s) PROVE FALSE
    BY <2>0, <2>3, <2>8, WrongPinEffect
  <2>9. ASSUME NEW b \in Agents, PollUnpaired(b) \/ PollPaired(b) \/ Revoke(b)
        PROVE  FALSE
    BY <2>0, <2>3, <2>9, PollUnpairedEffect, PollPairedEffect, RevokeQuiet
  <2>10. CASE Tick \/ UNCHANGED vars
    BY <2>0, <2>3, <2>10, TickQuiet, UnchangedQuiet
  <2> QED
    BY <1>1, <2>1, <2>2, <2>4, <2>5, <2>6, <2>7, <2>8, <2>9, <2>10 DEF Next
<1>2. BaseInv /\ [Next]_vars =>
        [\A a \in Agents :
            Exists(a) /\ agents'[a].secret # agents[a].secret =>
              \E s \in Of(a) : /\ IsOpen(s)
                               /\ now < sessions[s].expires
                               /\ sessions[s].attempts < MaxAttempts
                               /\ sessions'[s].status = "PAIRED"
                               /\ sessions'[s].secret = agents'[a].secret]_vars
  BY <1>1
<1> QED BY <1>2, BaseInvariant, PTL DEF Spec, RotationNeedsPairing
=============================================================================
