------------------------------- MODULE Tunnel -------------------------------
(***************************************************************************)
(* The reverse tunnel of one agent: the registry entry (AgentConnection),  *)
(* the coroutines of its /tunnel sockets, and the requests forwarded over  *)
(* the tunnel (Forwarder.forward).                                         *)
(*                                                                         *)
(* All of it runs on one event loop, so a step is what one coroutine does  *)
(* between two suspensions.  registry._lock, pending_lock and _waiter_lock *)
(* are never held across one and leave no trace here; send_lock is, and is *)
(* the queue `sendQ`.  The suspensions are: waiting for the agent to       *)
(* connect, waiting for send_lock, send_json, waiting for the future of a  *)
(* request, closing a replaced socket (with the sleep of                   *)
(* on_agent_connected), and receive_json.                                  *)
(*                                                                         *)
(* The forwarder's direct HTTP branch is left out: it needs                *)
(* AgentConnection.public_address, and every entry the running server      *)
(* makes (set_websocket_connection, set_agent_ws_token, _resolve_agent,    *)
(* validate_agent_ws_token) is made without one.                           *)
(*                                                                         *)
(* connection_id is drawn afresh whenever a socket is installed and is     *)
(* erased with it, so the id of a connection is its socket and             *)
(* agent.connection_id is `ws`; connected_event is set iff ws # None.      *)
(***************************************************************************)
EXTENDS Naturals, Sequences, FiniteSets

CONSTANTS
    Sockets,     \* the /tunnel connections the agent makes
    Requests,    \* the requests relayed to it
    None,        \* Python's None
    MaxWaiters,  \* vps.max_agent_waiters
    MaxInbox     \* bound on the messages in flight from the agent on a socket

ASSUME BoundsAssumption == MaxWaiters \in Nat /\ MaxInbox \in Nat \ {0}
ASSUME NamesAssumption ==
    /\ Sockets \cap Requests = {}
    /\ None \notin Sockets \cup Requests

VARIABLES
    ws,        \* agent.websocket
    sock,      \* sock[c]: the socket itself
    hpc,       \* hpc[c]: where its agent_tunnel coroutine is
    hcid,      \* hcid[c]: the connection_id that coroutine captured
    inbox,     \* inbox[c]: messages from the agent not received yet
    sendQ,     \* send_lock: its holder, then its waiters in order
    pending,   \* the keys of agent.pending_responses
    fut,       \* fut[r]: the future of r
    rpc,       \* rpc[r]: where the forward coroutine of r is
    rcid,      \* rcid[r]: the connection_id r captured
    target,    \* target[r]: the socket r was written to
    waiters,   \* _waiters[agent_id]
    outcome,   \* outcome[r]: what the caller of r was answered
    asked,     \* history: requests that reached the agent
    replied    \* history: requests the agent replied to

socketVars == <<ws, sock, hpc, hcid, inbox>>
requestVars == <<pending, fut, rpc, rcid, target, waiters, outcome, asked>>
vars == <<ws, sock, hpc, hcid, inbox, sendQ, pending, fut, rpc, rcid, target,
          waiters, outcome, asked, replied>>

SocketState == {"unused", "open", "gone", "closed"}
    \* gone: the agent's end is down, the server has not noticed yet
    \* closed: the server has closed it, or its coroutine has ended
HandlerState == {"idle", "opening", "readyLock", "readySend", "loop",
                 "ackLock", "ackSend", "done"}
RequestState == {"new", "waiting", "woken", "lock", "sending", "await", "done"}
FutureState == {"none", "waiting", "closed", "replied", "mismatched"}
Outcome == {"none", "ok", "unavailable", "lost", "timeout", "failed", "invalid"}

Message ==
    [type : {"heartbeat"}, cid : Sockets \cup {None}]
    \cup [type : {"forward_response"}, req : Requests, cid : Sockets \cup {None}]

TypeOK ==
    /\ ws \in Sockets \cup {None}
    /\ sock \in [Sockets -> SocketState]
    /\ hpc \in [Sockets -> HandlerState]
    /\ hcid \in [Sockets -> Sockets \cup {None}]
    /\ inbox \in [Sockets -> Seq(Message)]
    /\ sendQ \in Seq(Sockets \cup Requests)
    /\ pending \subseteq Requests
    /\ fut \in [Requests -> FutureState]
    /\ rpc \in [Requests -> RequestState]
    /\ rcid \in [Requests -> Sockets \cup {None}]
    /\ target \in [Requests -> Sockets \cup {None}]
    /\ waiters \in Nat
    /\ outcome \in [Requests -> Outcome]
    /\ asked \subseteq Requests
    /\ replied \subseteq Requests

Init ==
    /\ ws = None
    /\ sock = [c \in Sockets |-> "unused"]
    /\ hpc = [c \in Sockets |-> "idle"]
    /\ hcid = [c \in Sockets |-> None]
    /\ inbox = [c \in Sockets |-> <<>>]
    /\ sendQ = <<>>
    /\ pending = {}
    /\ fut = [r \in Requests |-> "none"]
    /\ rpc = [r \in Requests |-> "new"]
    /\ rcid = [r \in Requests |-> None]
    /\ target = [r \in Requests |-> None]
    /\ waiters = 0
    /\ outcome = [r \in Requests |-> "none"]
    /\ asked = {}
    /\ replied = {}

-----------------------------------------------------------------------------
(* send_lock *)

Holds(x) == sendQ # <<>> /\ Head(sendQ) = x

KeepLock == UNCHANGED sendQ
Release == sendQ' = Tail(sendQ)

-----------------------------------------------------------------------------
(* Forwarder.forward *)

(* The caller of r is answered; the finally clause drops the future. *)
AnswerLeavingFuture(r, o) ==
    /\ rpc' = [rpc EXCEPT ![r] = "done"]
    /\ outcome' = [outcome EXCEPT ![r] = o]
    /\ UNCHANGED pending
Answer(r, o) ==
    /\ rpc' = [rpc EXCEPT ![r] = "done"]
    /\ outcome' = [outcome EXCEPT ![r] = o]
    /\ pending' = pending \ {r}

(* send_json begins on the socket installed at this moment.  What is        *)
(* written to an open socket reaches the agent.                             *)
Write(r) ==
    /\ rpc' = [rpc EXCEPT ![r] = "sending"]
    /\ target' = [target EXCEPT ![r] = ws]
    /\ asked' = IF sock[ws] = "open" THEN asked \cup {r} ELSE asked

(* _forward_via_websocket up to its first suspension. *)
Register(r) ==
    /\ pending' = pending \cup {r}
    /\ fut' = [fut EXCEPT ![r] = "waiting"]
    /\ rcid' = [rcid EXCEPT ![r] = ws]
    /\ sendQ' = Append(sendQ, r)
    /\ IF sendQ = <<>>
       THEN Write(r)
       ELSE rpc' = [rpc EXCEPT ![r] = "lock"] /\ UNCHANGED <<target, asked>>
    /\ UNCHANGED outcome

(* A connected agent needs no waiting. *)
ArriveConnected(r) ==
    /\ rpc[r] = "new"
    /\ ws # None
    /\ Register(r)
    /\ UNCHANGED <<socketVars, waiters, replied>>

(* _wait_for_agent_connection: take a place, or find the queue full. *)
ArriveDisconnected(r) ==
    /\ rpc[r] = "new"
    /\ ws = None
    /\ \/ /\ waiters < MaxWaiters
          /\ waiters' = waiters + 1
          /\ rpc' = [rpc EXCEPT ![r] = "waiting"]
          /\ UNCHANGED <<pending, outcome>>
       \/ /\ waiters >= MaxWaiters
          /\ Answer(r, "unavailable")
          /\ UNCHANGED waiters
    /\ UNCHANGED <<socketVars, sendQ, fut, rcid, target, asked, replied>>

(* agent_connect_wait_seconds pass. *)
WaitTimeoutLeaving(r) ==
    /\ rpc[r] = "waiting"
    /\ rpc' = [rpc EXCEPT ![r] = "woken"]
    /\ waiters' = waiters - 1
    /\ UNCHANGED <<socketVars, sendQ, pending, fut, rcid, target, outcome, asked, replied>>
WaitTimeout(r) ==
    /\ rpc[r] = "waiting"
    /\ rpc' = [rpc EXCEPT ![r] = "woken"]
    /\ UNCHANGED <<socketVars, sendQ, pending, fut, rcid, target, waiters,
                   outcome, asked, replied>>

(* The waiter runs again, after connected_event or the timeout, and gives   *)
(* its place back.  The agent may have gone again in between.               *)
Resume(r) ==
    /\ rpc[r] = "woken"
    /\ waiters' = waiters - 1
    /\ IF ws # None
       THEN Register(r)
       ELSE Answer(r, "unavailable") /\ UNCHANGED <<fut, rcid, sendQ, target, asked>>
    /\ UNCHANGED <<socketVars, replied>>

(* r gets send_lock and only now reads agent.websocket: None has no         *)
(* send_json, which ends the request.                                       *)
Granted(r) ==
    /\ rpc[r] = "lock"
    /\ Holds(r)
    /\ \/ /\ ws # None
          /\ Write(r)
          /\ KeepLock
          /\ UNCHANGED <<pending, outcome>>
       \/ /\ ws = None
          /\ Answer(r, "failed")
          /\ Release
          /\ UNCHANGED <<target, asked>>
    /\ UNCHANGED <<socketVars, fut, rcid, waiters, replied>>

(* send_json returns, *)
Sent(r) ==
    /\ rpc[r] = "sending"
    /\ rpc' = [rpc EXCEPT ![r] = "await"]
    /\ Release
    /\ UNCHANGED <<socketVars, pending, fut, rcid, target, waiters, outcome,
                   asked, replied>>

(* or raises, if the socket went down under it. *)
SendFailedHolding(r) ==
    /\ rpc[r] = "sending"
    /\ sock[target[r]] # "open"
    /\ Answer(r, "failed")
    /\ KeepLock
    /\ UNCHANGED <<socketVars, fut, rcid, target, waiters, asked, replied>>
SendFailed(r) ==
    /\ rpc[r] = "sending"
    /\ sock[target[r]] # "open"
    /\ Answer(r, "failed")
    /\ Release
    /\ UNCHANGED <<socketVars, fut, rcid, target, waiters, asked, replied>>

(* The future of r is done: a reply, checked against the captured           *)
(* connection_id, or the exception set by remove_websocket_connection.      *)
CompletedRetryable(r) ==
    /\ rpc[r] = "await"
    /\ fut[r] \in {"replied", "mismatched", "closed"}
    /\ Answer(r, CASE fut[r] = "replied" -> "ok"
                   [] fut[r] = "mismatched" -> "invalid"
                   [] fut[r] = "closed" -> "unavailable")
    /\ UNCHANGED <<socketVars, sendQ, fut, rcid, target, waiters, asked, replied>>
Completed(r) ==
    /\ rpc[r] = "await"
    /\ fut[r] \in {"replied", "mismatched", "closed"}
    /\ Answer(r, CASE fut[r] = "replied" -> "ok"
                   [] fut[r] = "mismatched" -> "invalid"
                   [] fut[r] = "closed" -> "lost")
    /\ UNCHANGED <<socketVars, sendQ, fut, rcid, target, waiters, asked, replied>>

(* default_agent_timeout_seconds pass first.  (On Python 3.12 the timeout    *)
(* also wins over a future that completed in the same turn of the loop.)    *)
TimedOutLeaving(r) ==
    /\ rpc[r] = "await"
    /\ AnswerLeavingFuture(r, "timeout")
    /\ UNCHANGED <<socketVars, sendQ, fut, rcid, target, waiters, asked, replied>>
TimedOut(r) ==
    /\ rpc[r] = "await"
    /\ Answer(r, "timeout")
    /\ UNCHANGED <<socketVars, sendQ, fut, rcid, target, waiters, asked, replied>>

-----------------------------------------------------------------------------
(* The registry and the coroutine of a socket *)

(* set_websocket_connection: the newest socket wins.  The one it replaces   *)
(* is closed, and whoever waits for the agent is woken; the requests under  *)
(* way on the old socket are left alone.                                    *)
Connect(c) ==
    /\ sock[c] = "unused"
    /\ ws' = c
    /\ sock' = [d \in Sockets |-> CASE d = c -> "open"
                                   [] d = ws -> "closed"
                                   [] OTHER -> sock[d]]
    /\ hpc' = [hpc EXCEPT ![c] = "opening"]
    /\ rpc' = [r \in Requests |-> IF rpc[r] = "waiting" THEN "woken" ELSE rpc[r]]
    /\ UNCHANGED <<hcid, inbox, sendQ, pending, fut, rcid, target, waiters,
                   outcome, asked, replied>>

(* The old socket is closed and on_agent_connected has returned: only now   *)
(* does the coroutine read connection_id, and queue connection_ready.       *)
Opened(c) ==
    /\ hpc[c] = "opening"
    /\ hcid' = [hcid EXCEPT ![c] = ws]
    /\ sendQ' = Append(sendQ, c)
    /\ hpc' = [hpc EXCEPT ![c] = IF sendQ = <<>> THEN "readySend" ELSE "readyLock"]
    /\ UNCHANGED <<ws, sock, inbox, requestVars, replied>>

HandlerGranted(c) ==
    /\ hpc[c] \in {"readyLock", "ackLock"}
    /\ Holds(c)
    /\ hpc' = [hpc EXCEPT ![c] = IF @ = "readyLock" THEN "readySend" ELSE "ackSend"]
    /\ UNCHANGED <<ws, sock, hcid, inbox, sendQ, requestVars, replied>>

HandlerSent(c) ==
    /\ hpc[c] \in {"readySend", "ackSend"}
    /\ sock[c] # "closed"
    /\ hpc' = [hpc EXCEPT ![c] = "loop"]
    /\ Release
    /\ UNCHANGED <<ws, sock, hcid, inbox, requestVars, replied>>

(* remove_websocket_connection, then the coroutine ends: every request in   *)
(* the table fails at once - unless a newer socket has taken over.          *)
RemoveLeavingRequests(c) ==
    /\ ws' = IF ws = c THEN None ELSE ws
    /\ UNCHANGED <<fut, pending>>
RemoveUnchecked(c) ==
    /\ ws' = None
    /\ fut' = [r \in Requests |->
          IF r \in pending /\ fut[r] = "waiting" THEN "closed" ELSE fut[r]]
    /\ pending' = {}
Remove(c) ==
    IF ws = c
    THEN /\ ws' = None
         /\ fut' = [r \in Requests |->
               IF r \in pending /\ fut[r] = "waiting" THEN "closed" ELSE fut[r]]
         /\ pending' = {}
    ELSE UNCHANGED <<ws, fut, pending>>

End(c) ==
    /\ Remove(c)
    /\ sock' = [sock EXCEPT ![c] = "closed"]
    /\ hpc' = [hpc EXCEPT ![c] = "done"]
    /\ UNCHANGED <<hcid, inbox, rpc, rcid, target, waiters, outcome, asked, replied>>

(* connection_ready or heartbeat_ack raises. *)
HandlerSendFailed(c) ==
    /\ hpc[c] \in {"readySend", "ackSend"}
    /\ sock[c] # "open"
    /\ Release
    /\ End(c)

(* receive_json raises. *)
Disconnected(c) ==
    /\ hpc[c] = "loop"
    /\ sock[c] # "open"
    /\ KeepLock
    /\ End(c)

(* A receive already under way when the server closed the socket may still  *)
(* return a message; the next one raises, and removing a replaced socket    *)
(* changes nothing.                                                         *)
NextPc(c, pc) == IF sock[c] = "closed" THEN "done" ELSE pc

StaleUnlessNamed(c, m) == m.cid # hcid[c]
Stale(c, m) == m.cid # None /\ m.cid # hcid[c]

Receive(c) ==
    /\ hpc[c] = "loop"
    /\ inbox[c] # <<>>
    /\ inbox' = [inbox EXCEPT ![c] = Tail(@)]
    /\ LET m == Head(inbox[c])
       IN  \/ /\ Stale(c, m)
              /\ hpc' = [hpc EXCEPT ![c] = NextPc(c, "loop")]
              /\ UNCHANGED <<pending, fut, sendQ>>
           \/ /\ ~Stale(c, m)
              /\ m.type = "forward_response"
              /\ pending' = pending \ {m.req}
              /\ fut' = [fut EXCEPT ![m.req] =
                    IF m.req \notin pending \/ @ # "waiting" THEN @
                    ELSE IF m.cid \in {None, rcid[m.req]} THEN "replied"
                    ELSE "mismatched"]
              /\ hpc' = [hpc EXCEPT ![c] = NextPc(c, "loop")]
              /\ UNCHANGED sendQ
           \/ /\ ~Stale(c, m)
              /\ m.type = "heartbeat"
              /\ sendQ' = Append(sendQ, c)
              /\ hpc' = [hpc EXCEPT ![c] = IF sendQ = <<>> THEN "ackSend" ELSE "ackLock"]
              /\ UNCHANGED <<pending, fut>>
    /\ UNCHANGED <<ws, sock, hcid, rpc, rcid, target, waiters, outcome, asked, replied>>

-----------------------------------------------------------------------------
(* The agent and the network *)

(* The agent's end of a socket goes down. *)
Drop(c) ==
    /\ sock[c] = "open"
    /\ sock' = [sock EXCEPT ![c] = "gone"]
    /\ UNCHANGED <<ws, hpc, hcid, inbox, sendQ, requestVars, replied>>

Send(c, m) ==
    /\ sock[c] = "open"
    /\ Len(inbox[c]) < MaxInbox
    /\ inbox' = [inbox EXCEPT ![c] = Append(@, m)]
    /\ UNCHANGED <<ws, sock, hpc, hcid, sendQ, requestVars>>

(* It answers a request on any socket it has, also one opened later, and    *)
(* stamps the answer with the connection_id of the request, the one it was  *)
(* told in connection_ready, or none.                                       *)
AgentReply(c, r) ==
    /\ r \in asked
    /\ \E k \in {None, rcid[r], hcid[c]} :
          Send(c, [type |-> "forward_response", req |-> r, cid |-> k])
    /\ replied' = replied \cup {r}

AgentHeartbeat(c) ==
    /\ \E k \in {None, hcid[c]} : Send(c, [type |-> "heartbeat", cid |-> k])
    /\ UNCHANGED replied

-----------------------------------------------------------------------------
RequestStep(r) ==
    \/ WaitTimeout(r) \/ Resume(r)
    \/ Granted(r) \/ Sent(r) \/ SendFailed(r)
    \/ Completed(r) \/ TimedOut(r)

HandlerStep(c) ==
    \/ Opened(c) \/ HandlerGranted(c) \/ HandlerSent(c) \/ HandlerSendFailed(c)
    \/ Receive(c) \/ Disconnected(c)

Next ==
    \/ \E r \in Requests : ArriveConnected(r) \/ ArriveDisconnected(r) \/ RequestStep(r)
    \/ \E c \in Sockets : Connect(c) \/ HandlerStep(c) \/ Drop(c) \/ AgentHeartbeat(c)
    \/ \E c \in Sockets, r \in Requests : AgentReply(c, r)

(* The event loop runs every coroutine that can go on; timers fire; a       *)
(* send_json that has begun returns or raises; a socket whose peer is gone  *)
(* is reported to its coroutine in the end.  Nothing is assumed of the      *)
(* agent, of the callers, or of the network.                                *)
Fairness ==
    /\ \A r \in Requests : WF_vars(RequestStep(r))
    /\ \A c \in Sockets : /\ WF_vars(Opened(c) \/ HandlerGranted(c) \/ HandlerSent(c)
                                      \/ HandlerSendFailed(c) \/ Receive(c))
                          /\ WF_vars(Disconnected(c))

Spec == Init /\ [][Next]_vars
FairSpec == Spec /\ Fairness

-----------------------------------------------------------------------------
(* Properties *)

(* While no tunnel is installed the table of pending requests is empty: a   *)
(* request cannot slip in beside remove_websocket_connection and then wait  *)
(* out its timeout for an agent the server knows to be gone.                *)
NoOrphans == ws = None => pending = {}

(* The table holds no future whose request is over, and a request that      *)
(* waits for an answer is in it unless its future is done: entries are      *)
(* neither leaked nor lost on any of the paths out of                       *)
(* _forward_via_websocket.                                                  *)
PendingAccounted ==
    \A r \in Requests :
        /\ r \in pending => rpc[r] \in {"lock", "sending", "await"} /\ fut[r] = "waiting"
        /\ rpc[r] \in {"lock", "sending", "await"} /\ fut[r] = "waiting" => r \in pending

(* _waiters counts exactly the requests that wait for the agent, and never  *)
(* more than max_agent_waiters of them.                                     *)
WaitersAccounted ==
    /\ waiters = Cardinality({r \in Requests : rpc[r] \in {"waiting", "woken"}})
    /\ waiters <= MaxWaiters

(* send_lock is held by somebody who is sending or about to, and everybody  *)
(* who sends holds it: no two frames of a socket are written at once, and   *)
(* nobody leaves with the lock.                                             *)
LockAccounted ==
    /\ \A r \in Requests : rpc[r] = "sending" => Holds(r)
    /\ \A c \in Sockets : hpc[c] \in {"readySend", "ackSend"} => Holds(c)
    /\ \A i \in 1 .. Len(sendQ) :
          \/ sendQ[i] \in Requests /\ rpc[sendQ[i]] \in {"lock", "sending"}
          \/ sendQ[i] \in Sockets
                /\ hpc[sendQ[i]] \in {"readyLock", "readySend", "ackLock", "ackSend"}

(* A caller is told agent_connection_lost only if the connection its        *)
(* request was registered on is down: the late clean-up of a replaced       *)
(* socket fails nobody.                                                     *)
LostOnlyIfLost ==
    \A r \in Requests :
        fut[r] = "closed" \/ outcome[r] = "lost" =>
            rcid[r] # None /\ sock[rcid[r]] \in {"gone", "closed"}

(* A coroutine reads its connection_id long after its socket was installed, *)
(* and may find the id of a newer socket, or none.  Then the server has     *)
(* closed its socket: no two live sockets work under one id, and the one    *)
(* the agent is on never works under another's.                             *)
IdsAreOwn ==
    \A c \in Sockets :
        hpc[c] \notin {"idle", "opening"} /\ hcid[c] # c => sock[c] = "closed"

(* The two tests of connection_id, in agent_tunnel and after the future,    *)
(* turn no good answer away: when an answer to a waiting request is taken   *)
(* from a socket, the request gets it, as long as the connection on which   *)
(* the request was registered is the agent's.  Only answers to requests     *)
(* that outlived a replacement may be dropped or called invalid.            *)
AnswersReach ==
    [][\A c \in Sockets, r \in pending :
          /\ ws = rcid[r]
          /\ Len(inbox'[c]) < Len(inbox[c])
          /\ Head(inbox[c]).type = "forward_response" /\ Head(inbox[c]).req = r
          => fut'[r] = "replied"]_vars

(* The installed socket is taken out only by the end of its own coroutine:  *)
(* a stale coroutine never disconnects the socket that replaced it          *)
(* (tests/test_connection_reliability.py).                                  *)
OnlyOwnRemoval ==
    [][\A c \in Sockets : ws = c /\ ws' = None => hpc[c] # "done" /\ hpc'[c] = "done"]_vars

(* The server never reports a dead socket for ever: once the agent's end is *)
(* gone the registry removes or replaces it.                                *)
GoneIsNoticed == \A c \in Sockets : ws = c /\ sock[c] = "gone" ~> ws # c

(* The callers of the relay see what RelayContract promises. *)
Contract == INSTANCE RelayContract WITH
    phase <- [r \in Requests |-> IF rpc[r] = "new" THEN "idle"
                                 ELSE IF rpc[r] = "done" THEN "done"
                                 ELSE "accepted"],
    delivered <- asked,
    answered <- replied

ImplementsContract == Contract!Spec

=============================================================================
