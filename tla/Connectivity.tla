---------------------------- MODULE Connectivity ----------------------------
(***************************************************************************)
(* vela_connectivity.py: one agent's sockets, the ConnectivityMonitor that *)
(* watches them, and the "unreachable" / "back online" alerts it sends.    *)
(* Its two callers are the registry's set_websocket_connection and         *)
(* remove_websocket_connection.  Sleeps are untimed: a sleeping task may   *)
(* wake at any moment from its delay on, and the 300 s cooldown ends at    *)
(* any moment.  Neither lock is held over an await, so the code between    *)
(* two awaits is one step.  FCM is configured; what becomes of an alert    *)
(* once it is handed to send_push is the subject of Push.                  *)
(***************************************************************************)
EXTENDS Naturals

CONSTANTS Conns,         \* the agent's WebSocket connections, each used once
          NoConn,        \* Python's None where a connection could stand
          MaxRestarts    \* bound on the restarts of the server process

ASSUME ConnsAssumption == NoConn \notin Conns /\ MaxRestarts \in Nat

VARIABLES
  ws,        \* AgentConnection.websocket
  cpc,       \* where the /tunnel coroutine of each connection is
  gone,      \* connections whose peer has left, noticed by the server or not
  tracked,   \* _AgentConnectivityState (task, since: the connection they stem from)
  timers,    \* losses whose _offline_after_delay task is asleep
  told,      \* the last alert handed to send_push
  restarts,  \* restarts so far
  lost,      \* history: the connection whose loss was noticed last
  silent,    \* history: reasons, since that loss, for which no alert may come
  unsaid     \* history: reasons, since the last alert, for a missing "back online"

server == <<ws, cpc, gone, tracked, timers, told, restarts>>
vars   == <<server, lost, silent, unsaid>>

MaybeConn == Conns \union {NoConn}
Fresh == [connected |-> FALSE, task |-> NoConn, notified |-> FALSE,
          cooling |-> FALSE, since |-> NoConn]
Live == {"closing", "stable", "telling", "open"}

Init ==
  /\ ws = NoConn
  /\ cpc = [c \in Conns |-> "new"]
  /\ gone = {}
  /\ tracked = Fresh
  /\ timers = {}
  /\ told = "none"
  /\ restarts = 0
  /\ lost = NoConn /\ silent = {} /\ unsaid = {}

\* on_agent_connected up to its sleep: the pending alert is called off.
ConnectedLettingTimersRun(c) ==
  /\ tracked' = [tracked EXCEPT !.connected = TRUE, !.task = NoConn,
                                !.notified = FALSE, !.since = c]
  /\ UNCHANGED timers
  /\ cpc' = [cpc EXCEPT ![c] = IF tracked.notified THEN "stable" ELSE "open"]
ConnectedForgettingFirst(c) ==
  /\ tracked' = [tracked EXCEPT !.connected = TRUE, !.task = NoConn,
                                !.notified = FALSE, !.since = c]
  /\ timers' = timers \ {tracked.task}
  /\ cpc' = [cpc EXCEPT ![c] = IF tracked'.notified THEN "stable" ELSE "open"]
OnAgentConnected(c) ==
  /\ tracked' = [tracked EXCEPT !.connected = TRUE, !.task = NoConn,
                                !.notified = FALSE, !.since = c]
  /\ timers' = timers \ {tracked.task}
  /\ cpc' = [cpc EXCEPT ![c] = IF tracked.notified THEN "stable" ELSE "open"]

\* set_websocket_connection with no socket before it.
Connect(c) ==
  /\ cpc[c] = "new" /\ ws = NoConn
  /\ ws' = c
  /\ OnAgentConnected(c)
  /\ unsaid' = IF \E d \in Conns : cpc[d] = "stable"
               THEN unsaid \union {"replaced"} ELSE unsaid
  /\ UNCHANGED <<gone, told, restarts, lost, silent>>

\* set_websocket_connection over a live socket: that one is closed first, and
\* the close is awaited.
Replace(c) ==
  /\ cpc[c] = "new" /\ ws # NoConn
  /\ ws' = c
  /\ gone' = gone \union {ws}
  /\ cpc' = [cpc EXCEPT ![c] = "closing"]
  /\ unsaid' = IF \E d \in Conns : cpc[d] = "stable"
               THEN unsaid \union {"replaced"} ELSE unsaid
  /\ UNCHANGED <<tracked, timers, told, restarts, lost, silent>>

\* The awaited close has returned: on_agent_connected, however late.
Opened(c) ==
  /\ cpc[c] = "closing"
  /\ OnAgentConnected(c)
  /\ silent' = IF ws # c THEN silent \union {"late"} ELSE silent
  /\ unsaid' = IF ws # c THEN unsaid \union {"late"} ELSE unsaid
  /\ UNCHANGED <<ws, gone, told, restarts, lost>>

\* The ten seconds are over.  With a younger connected_since the sleeper passes
\* the second test only if it woke late.
StableOver(c) ==
  /\ cpc[c] = "stable"
  /\ \/ /\ tracked.connected
        /\ told' = "online"
        /\ unsaid' = {}
        /\ cpc' = [cpc EXCEPT ![c] = "telling"]
     \/ /\ ~tracked.connected \/ tracked.since # c
        /\ cpc' = [cpc EXCEPT ![c] = "open"]
        /\ UNCHANGED <<told, unsaid>>
  /\ UNCHANGED <<ws, gone, tracked, timers, restarts, lost, silent>>

\* to_thread(send_push) has returned or raised; the tunnel starts to read.
Told(c) ==
  /\ cpc[c] = "telling"
  /\ cpc' = [cpc EXCEPT ![c] = "open"]
  /\ UNCHANGED <<ws, gone, tracked, timers, told, restarts, lost, silent, unsaid>>

\* The agent's end of a connection goes away; nobody on the server knows yet.
Drop(c) ==
  /\ cpc[c] \in Live /\ c \notin gone
  /\ gone' = gone \union {c}
  /\ UNCHANGED <<ws, cpc, tracked, timers, told, restarts, lost, silent, unsaid>>

\* on_agent_disconnected: the timer starts afresh.
DisconnectedUnrecorded(c) ==
  /\ tracked' = [tracked EXCEPT !.task = c]
  /\ timers' = (timers \ {tracked.task}) \union {c}
  /\ lost' = c /\ silent' = {}
DisconnectedUntimed(c) ==
  /\ tracked' = [tracked EXCEPT !.connected = FALSE]
  /\ timers' = timers \ {tracked.task}
  /\ lost' = c /\ silent' = {}
OnAgentDisconnected(c) ==
  /\ tracked' = [tracked EXCEPT !.connected = FALSE, !.task = c]
  /\ timers' = (timers \ {tracked.task}) \union {c}
  /\ lost' = c /\ silent' = {}

\* The receive of a dead socket raises: remove_websocket_connection, which
\* leaves everything alone when a newer socket has taken over.
Disconnect(c) ==
  /\ cpc[c] = "open" /\ c \in gone
  /\ cpc' = [cpc EXCEPT ![c] = "done"]
  /\ IF ws = c
     THEN ws' = NoConn /\ OnAgentDisconnected(c)
     ELSE UNCHANGED <<ws, tracked, timers, lost, silent>>
  /\ UNCHANGED <<gone, told, restarts, unsaid>>

\* _offline_after_delay after its sleep: announce, or give up for one of three
\* reasons (a socket is there, the monitor thinks so, or the cooldown).
OfflineFires(c) ==
  /\ c \in timers
  /\ timers' = timers \ {c}
  /\ IF ws = NoConn /\ ~tracked.connected /\ ~tracked.cooling
     THEN /\ tracked' = [tracked EXCEPT !.notified = TRUE, !.cooling = TRUE]
          /\ told' = "offline"
          /\ unsaid' = {}
          /\ UNCHANGED silent
     ELSE /\ silent' = IF tracked.cooling THEN silent \union {"cooldown"} ELSE silent
          /\ UNCHANGED <<tracked, told, unsaid>>
  /\ UNCHANGED <<ws, cpc, gone, restarts, lost>>

CooldownOver ==
  /\ tracked.cooling
  /\ tracked' = [tracked EXCEPT !.cooling = FALSE]
  /\ UNCHANGED <<ws, cpc, gone, timers, told, restarts, lost, silent, unsaid>>

\* agent_status: reading the state also corrects it.
AgentStatus ==
  /\ tracked' = [tracked EXCEPT !.connected = ws # NoConn]
  /\ UNCHANGED <<ws, cpc, gone, timers, told, restarts, lost, silent, unsaid>>

\* The process stops and starts: the registry and the monitor begin anew.
Restart ==
  /\ restarts < MaxRestarts
  /\ restarts' = restarts + 1
  /\ ws' = NoConn
  /\ cpc' = [c \in Conns |-> IF cpc[c] \in Live THEN "done" ELSE cpc[c]]
  /\ gone' = gone \union {c \in Conns : cpc[c] \in Live}
  /\ tracked' = Fresh
  /\ timers' = {}
  /\ silent' = silent \union {"restart"}
  /\ unsaid' = unsaid \union {"restart"}
  /\ UNCHANGED <<told, lost>>

Tunnel(c) == Opened(c) \/ StableOver(c) \/ Told(c) \/ OfflineFires(c)

Next ==
  \/ \E c \in Conns : \/ Connect(c) \/ Replace(c) \/ Opened(c) \/ StableOver(c)
                      \/ Told(c) \/ Drop(c) \/ Disconnect(c) \/ OfflineFires(c)
  \/ CooldownOver \/ AgentStatus \/ Restart

Spec == Init /\ [][Next]_vars

\* An awaited close, a sleep and a push end: the loop keeps running what is
\* ready.  Peers, the cooldown and status requests owe nothing.
FairSpec == Spec /\ \A c \in Conns : WF_vars(Tunnel(c))

-----------------------------------------------------------------------------
\* Types of every variable.
TypeOK ==
  /\ ws \in MaybeConn /\ lost \in MaybeConn
  /\ cpc \in [Conns -> Live \union {"new", "done"}]
  /\ gone \subseteq Conns /\ timers \subseteq Conns
  /\ tracked \in [connected : BOOLEAN, task : MaybeConn, notified : BOOLEAN,
                  cooling : BOOLEAN, since : MaybeConn]
  /\ told \in {"none", "offline", "online"}
  /\ restarts \in 0..MaxRestarts
  /\ silent \subseteq {"cooldown", "late", "restart"}
  /\ unsaid \subseteq {"replaced", "late", "restart"}

\* The monitor and the registry agree on whether the agent is there, except
\* while a socket that was replaced has still to report or has reported late
\* (set_websocket_connection reports after an await).
InStep ==
  \/ tracked.connected = (ws # NoConn)
  \/ "late" \in silent
  \/ \E c \in Conns : cpc[c] = "closing"

\* An "unreachable" alert is about the absence that goes on: it is sent by the
\* timer of the last loss (so after the full delay), with no socket there.
AlarmIsTrue ==
  [][\A c \in Conns : OfflineFires(c) /\ tracked'.notified /\ ~tracked.notified =>
        c = lost /\ ws = NoConn]_vars

\* A loss that lasts is announced, or one of three things happened after it:
\* the cooldown suppressed the alert, a replaced socket's late report called
\* it off, or the process restarted.
AwayIsAnnounced ==
  ws = NoConn /\ lost # NoConn ~> ws # NoConn \/ told = "offline" \/ silent # {}

\* After an "unreachable" alert a return that lasts is announced, unless another
\* socket took over during the ten seconds or the process restarted.
BackIsAnnounced ==
  told = "offline" /\ ws # NoConn ~> told = "online" \/ ws = NoConn \/ unsaid # {}

\* What vela_connectivity.py:59 and :66 say: "back online" is sent only for an
\* agent that has not left again during the delay.
OnlineOnlyIfStable ==
  [][\A c \in Conns : StableOver(c) /\ told' = "online" /\ tracked.since = c => c \notin gone]_vars
=============================================================================
