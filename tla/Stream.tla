------------------------------- MODULE Stream -------------------------------
(***************************************************************************)
(* Streamed answers (Forwarder.forward_stream): the session a request      *)
(* leaves in agent.pending_streams, the coroutines of the agent's /tunnel  *)
(* sockets that fill its queue, the loss of the tunnel, and body_iter,     *)
(* which the client's response is read from.                               *)
(*                                                                         *)
(* As in Tunnel, a step is what one coroutine does between two suspensions *)
(* and the connection_id of a connection is its socket.  Heartbeats and    *)
(* the queue of send_lock are Tunnel's: here a coroutine waits for the     *)
(* lock as long as it likes.  The requests of this module are those that   *)
(* found the agent connected; waiting for it is Tunnel's too.              *)
(***************************************************************************)
EXTENDS Naturals, Sequences

CONSTANTS
    Sockets,    \* the /tunnel connections the agent makes
    Requests,   \* the streaming requests relayed to it
    None,       \* Python's None; in a queue, the end of the body
    MaxChunks,  \* bound on the chunks of one answer
    MaxInbox    \* bound on the messages in flight from the agent on a socket

ASSUME BoundsAssumption == MaxChunks \in Nat /\ MaxInbox \in Nat \ {0}
ASSUME NamesAssumption == None \notin Sockets \cup Nat

VARIABLES
    ws,       \* agent.websocket
    sock,     \* sock[c]: the socket itself
    hpc,      \* hpc[c]: where its agent_tunnel coroutine is
    hcid,     \* hcid[c]: the connection_id that coroutine captured
    inbox,    \* inbox[c]: messages from the agent not received yet
    streams,  \* the keys of agent.pending_streams
    session,  \* session[r]: the StreamRelaySession of r
    pc,       \* pc[r]: where forward_stream, then body_iter, of r is
    rcid,     \* rcid[r]: the connection_id r captured
    target,   \* target[r]: the socket r was written to
    body,     \* body[r]: the chunks the client has been given
    seen,     \* seen[r]: the status line the client has been given
    result,   \* result[r]: how the response of r ended
    answer    \* history: what the agent has sent of its answer to r

socketVars == <<ws, sock, hpc, hcid, inbox>>
clientVars == <<rcid, target, body, seen, result>>
vars == <<ws, sock, hpc, hcid, inbox, streams, session, pc, rcid, target,
          body, seen, result, answer>>

SocketState == {"unused", "open", "gone", "closed"}   \* as in Tunnel
HandlerState == {"idle", "opening", "loop", "done"}
RequestState == {"new", "lock", "sending", "start", "ready", "body", "done"}
Status == {"none", "default", "agent"}   \* default: 502, until the agent says
Result == {"none", "failed", "late", "whole", "error", "stalled", "left"}

Chunks == 1 .. MaxChunks
SessionRow ==
    [started : BOOLEAN, status : Status, lost : BOOLEAN, chunks : Seq(Chunks \cup {None})]
AnswerRow ==
    [asked : BOOLEAN, begun : BOOLEAN, sent : 0 .. MaxChunks, ended : BOOLEAN,
     stamp : Sockets \cup {None}, roams : BOOLEAN]
Message ==
    [type : {"start", "end"}, req : Requests, cid : Sockets \cup {None}]
    \cup [type : {"chunk"}, req : Requests, cid : Sockets \cup {None}, n : Chunks]

TypeOK ==
    /\ ws \in Sockets \cup {None}
    /\ sock \in [Sockets -> SocketState]
    /\ hpc \in [Sockets -> HandlerState]
    /\ hcid \in [Sockets -> Sockets \cup {None}]
    /\ inbox \in [Sockets -> Seq(Message)]
    /\ streams \subseteq Requests
    /\ session \in [Requests -> SessionRow]
    /\ pc \in [Requests -> RequestState]
    /\ rcid \in [Requests -> Sockets \cup {None}]
    /\ target \in [Requests -> Sockets \cup {None}]
    /\ body \in [Requests -> Seq(Chunks)]
    /\ seen \in [Requests -> Status]
    /\ result \in [Requests -> Result]
    /\ answer \in [Requests -> AnswerRow]

(* A StreamRelaySession just made. *)
Fresh == [started |-> FALSE, status |-> "default", lost |-> FALSE, chunks |-> <<>>]

Init ==
    /\ ws = None
    /\ sock = [c \in Sockets |-> "unused"]
    /\ hpc = [c \in Sockets |-> "idle"]
    /\ hcid = [c \in Sockets |-> None]
    /\ inbox = [c \in Sockets |-> <<>>]
    /\ streams = {}
    /\ session = [r \in Requests |-> Fresh]
    /\ pc = [r \in Requests |-> "new"]
    /\ rcid = [r \in Requests |-> None]
    /\ target = [r \in Requests |-> None]
    /\ body = [r \in Requests |-> <<>>]
    /\ seen = [r \in Requests |-> "none"]
    /\ result = [r \in Requests |-> "none"]
    /\ answer = [r \in Requests |->
          [asked |-> FALSE, begun |-> FALSE, sent |-> 0, ended |-> FALSE, stamp |-> None,
           roams |-> FALSE]]

-----------------------------------------------------------------------------
(* forward_stream *)

Move(r, from, to) ==
    /\ pc[r] = from
    /\ pc' = [pc EXCEPT ![r] = to]

(* The response of r is over; the session is dropped from the table. *)
FinishLeaving(r, from, how) ==
    /\ Move(r, from, "done")
    /\ result' = [result EXCEPT ![r] = how]
    /\ UNCHANGED streams
Finish(r, from, how) ==
    /\ Move(r, from, "done")
    /\ result' = [result EXCEPT ![r] = how]
    /\ streams' = streams \ {r}

(* The agent is connected: the session is registered, under its present id. *)
Arrive(r) ==
    /\ ws # None
    /\ Move(r, "new", "lock")
    /\ streams' = streams \cup {r}
    /\ rcid' = [rcid EXCEPT ![r] = ws]
    /\ UNCHANGED <<socketVars, session, target, body, seen, result, answer>>

(* With send_lock, agent.websocket is read again and written to.  The agent *)
(* will stamp its answer with the id of the request, of the socket, or none,*)
(* and keeps to that socket or goes on on whichever it has (roams).         *)
Write(r) ==
    /\ ws # None
    /\ Move(r, "lock", "sending")
    /\ target' = [target EXCEPT ![r] = ws]
    /\ IF sock[ws] = "open"
       THEN \E k \in {None, rcid[r], ws}, b \in BOOLEAN :
               answer' = [answer EXCEPT ![r].asked = TRUE, ![r].stamp = k,
                                        ![r].roams = b]
       ELSE UNCHANGED answer
    /\ UNCHANGED <<socketVars, streams, session, rcid, body, seen, result>>

(* The socket is None by now, or goes down under send_json. *)
SendFailed(r) ==
    /\ \/ ws = None /\ Finish(r, "lock", "failed")
       \/ /\ pc[r] = "sending" /\ sock[target[r]] # "open"
          /\ Finish(r, "sending", "failed")
    /\ UNCHANGED <<socketVars, session, rcid, target, body, seen, answer>>

Sent(r) ==
    /\ Move(r, "sending", "start")
    /\ UNCHANGED <<socketVars, streams, session, clientVars, answer>>

(* default_agent_timeout_seconds pass before session.started.  (On Python    *)
(* 3.12 wait_for also times out if the event, or a chunk, comes in the same *)
(* turn of the loop; hence no guard here and in Stalled.)                   *)
StartTimeout(r) ==
    /\ Finish(r, "start", "late")
    /\ UNCHANGED <<socketVars, session, rcid, target, body, seen, answer>>

(* session.started: the status line is taken from the session as it is now. *)
Started(r) ==
    /\ session[r].started
    /\ Move(r, "start", "ready")
    /\ seen' = [seen EXCEPT ![r] = session[r].status]
    /\ UNCHANGED <<socketVars, streams, session, rcid, target, body, result, answer>>

-----------------------------------------------------------------------------
(* body_iter and the client *)

Iterate(r) ==
    /\ Move(r, "ready", "body")
    /\ UNCHANGED <<socketVars, streams, session, clientVars, answer>>

(* A client that leaves before the first chunk is asked for: the generator  *)
(* never runs, and neither does its finally clause.                         *)
LeaveEarly(r) ==
    /\ Move(r, "ready", "done")
    /\ result' = [result EXCEPT ![r] = "left"]
    /\ UNCHANGED <<socketVars, streams, session, rcid, target, body, seen, answer>>

(* One that leaves later ends it: the loop closes an abandoned generator. *)
LeaveDuring(r) ==
    /\ Finish(r, "body", "left")
    /\ UNCHANGED <<socketVars, session, rcid, target, body, seen, answer>>

Queue(r) == session[r].chunks

TakeChunk(r) ==
    /\ pc[r] = "body"
    /\ Queue(r) # <<>> /\ Head(Queue(r)) # None
    /\ body' = [body EXCEPT ![r] = Append(@, Head(Queue(r)))]
    /\ session' = [session EXCEPT ![r].chunks = Tail(@)]
    /\ UNCHANGED <<socketVars, streams, pc, rcid, target, seen, result, answer>>

(* The end of the queue: an error, or the end of the body. *)
EndOfQueueSilent(r) == "whole"
EndOfQueue(r) == IF session[r].lost THEN "error" ELSE "whole"

TakeEnd(r) ==
    /\ Queue(r) # <<>> /\ Head(Queue(r)) = None
    /\ Finish(r, "body", EndOfQueue(r))
    /\ session' = [session EXCEPT ![r].chunks = Tail(@)]
    /\ UNCHANGED <<socketVars, rcid, target, body, seen, answer>>

(* chunk_timeout passes. *)
StalledNever(r) ==
    /\ FALSE
    /\ UNCHANGED vars
Stalled(r) ==
    /\ Finish(r, "body", "stalled")
    /\ UNCHANGED <<socketVars, session, rcid, target, body, seen, answer>>

-----------------------------------------------------------------------------
(* The coroutines of the sockets *)

(* set_websocket_connection; the replaced socket is closed, the sessions    *)
(* stay in the table.                                                       *)
Connect(c) ==
    /\ sock[c] = "unused"
    /\ ws' = c
    /\ sock' = [d \in Sockets |-> CASE d = c -> "open"
                                   [] d = ws -> "closed"
                                   [] OTHER -> sock[d]]
    /\ hpc' = [hpc EXCEPT ![c] = "opening"]
    /\ UNCHANGED <<hcid, inbox, streams, session, pc, clientVars, answer>>

(* connection_id is read after the old socket was closed; connection_ready. *)
Opened(c) ==
    /\ hpc[c] = "opening"
    /\ hcid' = [hcid EXCEPT ![c] = ws]
    /\ hpc' = [hpc EXCEPT ![c] = "loop"]
    /\ UNCHANGED <<ws, sock, inbox, streams, session, pc, clientVars, answer>>

(* The session after a message of the agent. *)
AfterInFront(s, m) ==
    CASE m.type = "start" -> [s EXCEPT !.started = TRUE, !.status = "agent"]
      [] m.type = "chunk" -> [s EXCEPT !.chunks = <<m.n>> \o @]
      [] m.type = "end" -> [s EXCEPT !.started = TRUE, !.chunks = Append(@, None)]
After(s, m) ==
    CASE m.type = "start" -> [s EXCEPT !.started = TRUE, !.status = "agent"]
      [] m.type = "chunk" -> [s EXCEPT !.chunks = Append(@, m.n)]
      [] m.type = "end" -> [s EXCEPT !.started = TRUE, !.chunks = Append(@, None)]

(* One message: an id that is not the coroutine's own and a request not in  *)
(* the table are ignored; an end message takes the session out.  After a    *)
(* message that was under way when the server closed the socket the next    *)
(* receive raises.                                                          *)
Receive(c) ==
    /\ hpc[c] = "loop"
    /\ inbox[c] # <<>>
    /\ inbox' = [inbox EXCEPT ![c] = Tail(@)]
    /\ hpc' = [hpc EXCEPT ![c] = IF sock[c] = "closed" THEN "done" ELSE @]
    /\ LET m == Head(inbox[c])
           stale == m.cid # None /\ m.cid # hcid[c]
       IN  IF stale \/ m.req \notin streams
           THEN UNCHANGED <<streams, session>>
           ELSE /\ session' = [session EXCEPT ![m.req] = After(@, m)]
                /\ streams' = IF m.type = "end" THEN streams \ {m.req} ELSE streams
    /\ UNCHANGED <<ws, sock, hcid, pc, clientVars, answer>>

(* The session of a request whose tunnel is lost. *)
LostWithoutEnd(s) == [s EXCEPT !.lost = TRUE, !.started = TRUE]
Lost(s) == [s EXCEPT !.lost = TRUE, !.started = TRUE, !.chunks = Append(@, None)]

(* remove_websocket_connection: unless a newer socket has taken over, every *)
(* session in the table ends with an error.                                 *)
RemoveUnchecked(c) ==
    /\ ws' = None
    /\ session' = [r \in Requests |-> IF r \in streams THEN Lost(session[r]) ELSE session[r]]
    /\ streams' = {}
RemoveLeavingStreams(c) ==
    /\ ws' = IF ws = c THEN None ELSE ws
    /\ UNCHANGED <<session, streams>>
Remove(c) ==
    IF ws = c
    THEN /\ ws' = None
         /\ session' = [r \in Requests |->
               IF r \in streams THEN Lost(session[r]) ELSE session[r]]
         /\ streams' = {}
    ELSE UNCHANGED <<ws, session, streams>>

(* A send or a receive of the coroutine raises. *)
Disconnected(c) ==
    /\ hpc[c] = "loop"
    /\ sock[c] # "open"
    /\ Remove(c)
    /\ sock' = [sock EXCEPT ![c] = "closed"]
    /\ hpc' = [hpc EXCEPT ![c] = "done"]
    /\ UNCHANGED <<hcid, inbox, pc, clientVars, answer>>

-----------------------------------------------------------------------------
(* The agent and the network *)

Drop(c) ==
    /\ sock[c] = "open"
    /\ sock' = [sock EXCEPT ![c] = "gone"]
    /\ UNCHANGED <<ws, hpc, hcid, inbox, streams, session, pc, clientVars, answer>>

(* The agent answers in order: start, chunks, end; on the socket the        *)
(* request came on, unless it roams.                                        *)
Send(c, r, m) ==
    /\ sock[c] = "open"
    /\ answer[r].roams \/ c = target[r]
    /\ Len(inbox[c]) < MaxInbox
    /\ inbox' = [inbox EXCEPT ![c] = Append(@, m)]
    /\ UNCHANGED <<ws, sock, hpc, hcid, streams, session, pc, clientVars>>

AgentStart(c, r) ==
    /\ answer[r].asked /\ ~answer[r].begun
    /\ Send(c, r, [type |-> "start", req |-> r, cid |-> answer[r].stamp])
    /\ answer' = [answer EXCEPT ![r].begun = TRUE]

AgentChunk(c, r) ==
    /\ answer[r].begun /\ ~answer[r].ended /\ answer[r].sent < MaxChunks
    /\ answer' = [answer EXCEPT ![r].sent = @ + 1]
    /\ Send(c, r, [type |-> "chunk", req |-> r, cid |-> answer[r].stamp,
                   n |-> answer'[r].sent])

AgentEnd(c, r) ==
    /\ answer[r].begun /\ ~answer[r].ended
    /\ Send(c, r, [type |-> "end", req |-> r, cid |-> answer[r].stamp])
    /\ answer' = [answer EXCEPT ![r].ended = TRUE]

-----------------------------------------------------------------------------
(* The steps of the relay for r that need nobody else. *)
RelayStep(r) ==
    \/ Write(r) \/ SendFailed(r) \/ Sent(r) \/ StartTimeout(r) \/ Started(r)
    \/ TakeChunk(r) \/ TakeEnd(r) \/ Stalled(r)

ClientStep(r) == Iterate(r) \/ LeaveEarly(r) \/ LeaveDuring(r)

Next ==
    \/ \E r \in Requests : Arrive(r) \/ RelayStep(r) \/ ClientStep(r)
    \/ \E c \in Sockets :
          Connect(c) \/ Opened(c) \/ Receive(c) \/ Disconnected(c) \/ Drop(c)
    \/ \E c \in Sockets, r \in Requests :
          AgentStart(c, r) \/ AgentChunk(c, r) \/ AgentEnd(c, r)

(* The event loop runs a coroutine that can go on, timers fire, a send      *)
(* returns or raises, and the response is either read or abandoned.         *)
Fairness ==
    \A r \in Requests : WF_vars(RelayStep(r)) /\ WF_vars(Iterate(r) \/ LeaveEarly(r))

Spec == Init /\ [][Next]_vars
FairSpec == Spec /\ Fairness

-----------------------------------------------------------------------------
(* Properties *)

(* A response that ends normally is the whole answer: the agent sent its    *)
(* end message, the client has every chunk, in order, under the agent's own *)
(* status.  A stream is never silently cut by a loss of the tunnel, however *)
(* the loss, the queue and the reader interleave, provided the agent keeps  *)
(* an answer to one socket.                                                 *)
WholeIsWhole ==
    \A r \in Requests : result[r] = "whole" /\ ~answer[r].roams =>
        /\ answer[r].ended
        /\ body[r] = [i \in 1 .. answer[r].sent |-> i]
        /\ seen[r] = "agent"

(* What the client has been given at any moment is a beginning of what the  *)
(* agent sent, unless it changes sockets: nothing is skipped, repeated or   *)
(* reordered.                                                               *)
BodyIsPrefix ==
    \A r \in Requests : ~answer[r].roams =>
        /\ Len(body[r]) <= answer[r].sent
        /\ \A i \in 1 .. Len(body[r]) : body[r][i] = i

(* A request whose session has left the table is not left waiting: it has   *)
(* been started and the end of its queue is in it, so neither the start     *)
(* timeout nor the chunk timeout has to come to its rescue.                 *)
ForgottenIsFinished ==
    \A r \in Requests :
        pc[r] \in {"lock", "sending", "start", "ready", "body"} /\ r \notin streams =>
            /\ session[r].started
            /\ \E i \in 1 .. Len(Queue(r)) : Queue(r)[i] = None

(* No session waits in the table of an agent known to be gone. *)
NoOrphanStreams == ws = None => streams = {}

(* A stream breaks off with agent_connection_lost only if the connection it *)
(* was registered on is down: the late clean-up of a replaced socket breaks *)
(* nobody's stream.                                                         *)
BrokenOnlyIfLost ==
    \A r \in Requests :
        session[r].lost => rcid[r] # None /\ sock[rcid[r]] \in {"gone", "closed"}

(* Sessions are not leaked, but for the one hole in the clean-up: a client  *)
(* that left before the body was first read.                                *)
StreamsAccounted ==
    \A r \in streams :
        \/ pc[r] \in {"lock", "sending", "start", "ready", "body"}
        \/ pc[r] = "done" /\ result[r] = "left" /\ body[r] = <<>>

(* Every accepted streaming request ends, whatever the agent does; that its *)
(* answer is finite is the bound MaxChunks.                                 *)
StreamsEnd == \A r \in Requests : pc[r] = "lock" ~> pc[r] = "done"

=============================================================================
