---------------------------- MODULE StreamProofs ----------------------------
(***************************************************************************)
(* Proofs about Stream, for any sockets and requests and answers of any    *)
(* length: its safety invariants, above all that a stream that ends        *)
(* normally is the whole answer.                                           *)
(***************************************************************************)
EXTENDS Stream, SequenceTheorems, TLAPS

(* The registry's socket is the one that has not been closed, and a         *)
(* coroutine runs only for a socket that was opened.                        *)
SocketInv ==
    /\ \A c \in Sockets : sock[c] \in {"open", "gone"} <=> ws = c
    /\ \A c \in Sockets : sock[c] = "unused" => hpc[c] = "idle"

(* A session in the table carries the id of a connection that was made.     *)
LossInv ==
    /\ \A r \in streams : rcid[r] # None
    /\ \A r \in Requests : rcid[r] # None => sock[rcid[r]] # "unused"
    /\ BrokenOnlyIfLost

(* The end of the body is in a queue.                                       *)
EndIn(q) == \E i \in 1 .. Len(q) : q[i] = None

(* A request begins with a fresh session that nobody can reach, has given   *)
(* its client nothing before the body, and has no result before it is over. *)
LifeInv ==
    \A r \in Requests :
        /\ pc[r] = "new" => r \notin streams /\ session[r] = Fresh
        /\ pc[r] \in {"new", "lock", "sending", "start", "ready"} => body[r] = <<>>
        /\ result[r] # "none" => pc[r] = "done"

(* The agent answers what it was asked, start first and end last.           *)
AgentInv ==
    \A r \in Requests :
        /\ pc[r] \in {"new", "lock"} => ~answer[r].asked
        /\ answer[r].asked => target[r] # None
        /\ ~answer[r].asked => ~answer[r].begun /\ ~answer[r].roams
        /\ ~answer[r].begun => answer[r].sent = 0 /\ ~answer[r].ended

(* The place of a message in its answer, and those the agent has sent.      *)
Rank(m) == IF m.type = "start" THEN 0 ELSE IF m.type = "chunk" THEN m.n ELSE MaxChunks + 1
SentRanks(r) ==
    {k \in 0 .. MaxChunks + 1 :
        \/ k = 0 /\ answer[r].begun
        \/ k \in 1 .. answer[r].sent
        \/ k = MaxChunks + 1 /\ answer[r].ended}

(* What is in flight was sent, under the answer's stamp, on its socket, and *)
(* in order.                                                                *)
MailInv ==
    \A c \in Sockets, r \in Requests :
        /\ \A i \in 1 .. Len(inbox[c]) : inbox[c][i].req = r =>
              /\ inbox[c][i].cid = answer[r].stamp
              /\ Rank(inbox[c][i]) \in SentRanks(r)
              /\ answer[r].roams \/ c = target[r]
        /\ \A i, j \in 1 .. Len(inbox[c]) :
              i < j /\ inbox[c][i].req = r /\ inbox[c][j].req = r =>
                  Rank(inbox[c][i]) < Rank(inbox[c][j])

(* r is in the table, was written to c, and the coroutine of c heeds the    *)
(* stamp of its answer, or has not captured its connection_id yet.          *)
Live(c, r) ==
    /\ r \in streams /\ target[r] = c
    /\ answer[r].asked /\ ~answer[r].roams
    /\ hpc[c] \in {"idle", "opening"} \/ answer[r].stamp \in {None, hcid[c]}

(* What has come through to the session of a live stream, and what is still *)
(* in flight: nothing is in both, nothing in neither.                       *)
Taken(r, k) ==
    IF k = 0 THEN session[r].status = "agent" ELSE k <= Len(body[r]) + Len(Queue(r))
InFlight(c, r, k) ==
    \E i \in 1 .. Len(inbox[c]) : inbox[c][i].req = r /\ Rank(inbox[c][i]) = k
DeliveryInv ==
    \A c \in Sockets, r \in Requests :
        Live(c, r) => \A k \in SentRanks(r) : Taken(r, k) <=> ~InFlight(c, r, k)

(* The status is the agent's only once it has begun.  A queue holds one end *)
(* at most, its last entry, once the session is out of the table; before it *)
(* come the chunks that follow those in the body.                           *)
ChunksOf(r) ==
    /\ session[r].status = "agent" => answer[r].begun
    /\ \A i \in 1 .. Len(Queue(r)) :
          Queue(r)[i] = None => i = Len(Queue(r)) /\ r \notin streams
    /\ ~answer[r].roams =>
          /\ Len(body[r]) <= answer[r].sent
          /\ \A i \in 1 .. Len(body[r]) : body[r][i] = i
          /\ \A i \in 1 .. Len(Queue(r)) : Queue(r)[i] # None =>
                Queue(r)[i] = Len(body[r]) + i /\ Queue(r)[i] <= answer[r].sent
ChunksInv == \A r \in Requests : ChunksOf(r)

(* A stream that was started and not broken has the agent's status; the end *)
(* of its queue comes after everything the agent sent.                      *)
EndOf(r) ==
    ~answer[r].roams /\ ~session[r].lost =>
        /\ session[r].started => session[r].status = "agent"
        /\ pc[r] \in {"ready", "body"} => seen[r] = "agent"
        /\ EndIn(Queue(r)) =>
              answer[r].ended /\ Len(body[r]) + Len(Queue(r)) = answer[r].sent + 1
EndInv == \A r \in Requests : EndOf(r)

IInv ==
    /\ TypeOK
    /\ SocketInv
    /\ LossInv
    /\ LifeInv
    /\ NoOrphanStreams
    /\ StreamsAccounted
    /\ ForgottenIsFinished
    /\ AgentInv
    /\ MailInv
    /\ DeliveryInv
    /\ ChunksInv
    /\ EndInv
    /\ WholeIsWhole

-----------------------------------------------------------------------------
(* Sessions and their queues *)

Entry == Chunks \cup {None}

(* What a message of the agent does to a session.                           *)
LEMMA AfterFacts ==
    ASSUME NEW s \in SessionRow, NEW m \in Message
    PROVE  /\ After(s, m) \in SessionRow
           /\ After(s, m).lost = s.lost
           /\ m.type = "start" =>
                 /\ After(s, m).started /\ After(s, m).status = "agent"
                 /\ After(s, m).chunks = s.chunks
           /\ m.type = "chunk" =>
                 /\ After(s, m).started = s.started /\ After(s, m).status = s.status
                 /\ After(s, m).chunks = Append(s.chunks, m.n)
           /\ m.type = "end" =>
                 /\ After(s, m).started /\ After(s, m).status = s.status
                 /\ After(s, m).chunks = Append(s.chunks, None)
<1>1. s.chunks \in Seq(Entry)
  BY DEF SessionRow, Entry
<1>2. CASE m.type = "start"
  BY <1>2 DEF After, SessionRow, Status
<1>3. CASE m.type = "chunk"
  <2>1. m.n \in Entry
    BY <1>3 DEF Message, Entry
  <2>2. Append(s.chunks, m.n) \in Seq(Chunks \cup {None})
    BY <1>1, <2>1, AppendProperties DEF Entry
  <2> QED BY <1>3, <2>2 DEF After, SessionRow
<1>4. CASE m.type = "end"
  <2>1. Append(s.chunks, None) \in Seq(Chunks \cup {None})
    BY <1>1, AppendProperties DEF Entry
  <2> QED BY <1>4, <2>1 DEF After, SessionRow
<1> QED BY <1>2, <1>3, <1>4 DEF Message

(* What the loss of the tunnel does to it.                                  *)
LEMMA LostFacts ==
    ASSUME NEW s \in SessionRow
    PROVE  /\ Lost(s) \in SessionRow
           /\ Lost(s).lost /\ Lost(s).started
           /\ Lost(s).status = s.status
           /\ Lost(s).chunks = Append(s.chunks, None)
<1>1. s.chunks \in Seq(Entry)
  BY DEF SessionRow, Entry
<1>2. Append(s.chunks, None) \in Seq(Chunks \cup {None})
  BY <1>1, AppendProperties DEF Entry
<1> QED BY <1>2 DEF Lost, SessionRow

(* An end put at the back of a queue is there.                              *)
LEMMA EndPut == ASSUME NEW q \in Seq(Entry) PROVE EndIn(Append(q, None))
<1>1. Len(Append(q, None)) = Len(q) + 1 /\ Append(q, None)[Len(q) + 1] = None
  BY AppendProperties DEF Entry
<1>2. Len(q) + 1 \in 1 .. Len(Append(q, None))
  BY <1>1, LenProperties
<1> QED BY <1>1, <1>2 DEF EndIn

(* One that is not at its front stays when the front is taken.              *)
LEMMA EndStays ==
    ASSUME NEW q \in Seq(Entry), q # <<>>, Head(q) # None
    PROVE  EndIn(Tail(q)) <=> EndIn(q)
<1>1. /\ Len(q) \in Nat \ {0} /\ Len(Tail(q)) = Len(q) - 1
      /\ \A i \in 1 .. Len(Tail(q)) : Tail(q)[i] = q[i + 1]
      /\ Head(q) = q[1]
  BY HeadTailProperties, EmptySeq
<1>2. ASSUME NEW i \in 1 .. Len(q), q[i] = None PROVE EndIn(Tail(q))
  <2>1. i - 1 \in 1 .. Len(Tail(q))
    BY <1>1, <1>2
  <2>2. Tail(q)[i - 1] = q[i]
    BY <1>1, <2>1
  <2> QED BY <1>2, <2>1, <2>2 DEF EndIn
<1>3. ASSUME NEW i \in 1 .. Len(Tail(q)), Tail(q)[i] = None PROVE EndIn(q)
  BY <1>1, <1>3 DEF EndIn
<1> QED BY <1>2, <1>3 DEF EndIn

(* A queue holds chunks and ends.                                          *)
LEMMA QueueType == ASSUME TypeOK, NEW r \in Requests PROVE Queue(r) \in Seq(Entry)
BY DEF TypeOK, SessionRow, Queue, Entry

-----------------------------------------------------------------------------
(* A step of the coroutine of a socket *)

(* A message is ignored, or one the coroutine heeds reaches a session that  *)
(* is in the table.                                                         *)
LEMMA ReceiveFacts ==
    ASSUME TypeOK, NEW c \in Sockets, Receive(c)
    PROVE  \E m \in Message :
              /\ m = Head(inbox[c]) /\ m.req \in Requests
              /\ inbox[c] \in Seq(Message) /\ inbox[c] # <<>>
              /\ hpc[c] = "loop"
              /\ inbox' = [inbox EXCEPT ![c] = Tail(inbox[c])]
              /\ UNCHANGED <<ws, sock, hcid, pc, clientVars, answer>>
              /\ hpc' \in [Sockets -> HandlerState]
              /\ \A d \in Sockets : hpc'[d] = hpc[d] \/ (hpc[d] = "loop" /\ hpc'[d] = "done")
              /\ \A q \in Requests : q # m.req => session'[q] = session[q]
              /\ \/ /\ session' = session /\ streams' = streams
                    /\ m.req \notin streams \/ m.cid \notin {None, hcid[c]}
                 \/ /\ m.req \in streams
                    /\ m.cid \in {None, hcid[c]}
                    /\ session' = [session EXCEPT ![m.req] = After(session[m.req], m)]
                    /\ session'[m.req] = After(session[m.req], m)
                    /\ streams' = IF m.type = "end" THEN streams \ {m.req} ELSE streams
<1>1. inbox[c] \in Seq(Message) /\ inbox[c] # <<>>
  BY DEF TypeOK, Receive
<1>2. PICK m \in Message : m = Head(inbox[c])
  BY <1>1, HeadTailProperties
<1>3. m.req \in Requests
  BY DEF Message
<1>4. /\ UNCHANGED <<ws, sock, hcid, pc, clientVars, answer>>
      /\ hpc[c] = "loop" /\ inbox' = [inbox EXCEPT ![c] = Tail(inbox[c])]
  BY DEF Receive
<1>5. \/ /\ session' = session /\ streams' = streams
         /\ m.req \notin streams \/ m.cid \notin {None, hcid[c]}
      \/ /\ m.req \in streams
         /\ m.cid \in {None, hcid[c]}
         /\ session' = [session EXCEPT ![m.req] = After(session[m.req], m)]
         /\ streams' = IF m.type = "end" THEN streams \ {m.req} ELSE streams
  BY <1>2 DEF Receive
<1>6. session \in [Requests -> SessionRow]
  BY DEF TypeOK
<1>7. \A q \in Requests : q # m.req => session'[q] = session[q]
  BY <1>5, <1>6
<1>8. session' = [session EXCEPT ![m.req] = After(session[m.req], m)] =>
        session'[m.req] = After(session[m.req], m)
  BY <1>3, <1>6
<1>9. /\ hpc' \in [Sockets -> HandlerState]
      /\ \A d \in Sockets : hpc'[d] = hpc[d] \/ (hpc[d] = "loop" /\ hpc'[d] = "done")
  <2>1. hpc' = [hpc EXCEPT ![c] = IF sock[c] = "closed" THEN "done" ELSE hpc[c]]
    BY DEF Receive
  <2>2. hpc \in [Sockets -> HandlerState]
    BY DEF TypeOK
  <2> QED BY <1>4, <2>1, <2>2 DEF HandlerState
<1> QED BY <1>1, <1>2, <1>3, <1>4, <1>5, <1>7, <1>8, <1>9

(* What is written to an open socket is asked of the agent; nothing else of *)
(* the answer changes.                                                      *)
LEMMA WriteFacts ==
    ASSUME TypeOK, NEW r \in Requests, Write(r)
    PROVE  /\ ws \in Sockets /\ pc[r] = "lock"
           /\ pc' = [pc EXCEPT ![r] = "sending"]
           /\ target' = [target EXCEPT ![r] = ws]
           /\ UNCHANGED <<socketVars, streams, session, rcid, body, seen, result>>
           /\ answer' \in [Requests -> AnswerRow]
           /\ \A q \in Requests \ {r} : answer'[q] = answer[q]
           /\ answer'[r].begun = answer[r].begun
           /\ answer'[r].sent = answer[r].sent
           /\ answer'[r].ended = answer[r].ended
           /\ answer'[r].asked \/ answer' = answer
<1>1. /\ ws \in Sockets /\ pc[r] = "lock"
      /\ pc' = [pc EXCEPT ![r] = "sending"]
      /\ target' = [target EXCEPT ![r] = ws]
      /\ UNCHANGED <<socketVars, streams, session, rcid, body, seen, result>>
  BY DEF Write, Move, TypeOK
<1>2. CASE sock[ws] = "open"
  <2>1. PICK k \in {None, rcid[r], ws}, b \in BOOLEAN :
           answer' = [answer EXCEPT ![r].asked = TRUE, ![r].stamp = k, ![r].roams = b]
    BY <1>2 DEF Write
  <2>2. k \in Sockets \cup {None} /\ answer \in [Requests -> AnswerRow]
    BY <1>1 DEF TypeOK
  <2>3. answer' = [answer EXCEPT ![r] =
            [answer[r] EXCEPT !.asked = TRUE, !.stamp = k, !.roams = b]]
    BY <2>1, <2>2, Zenon DEF AnswerRow
  <2> QED BY <1>1, <2>2, <2>3 DEF AnswerRow
<1>3. CASE sock[ws] # "open"
  BY <1>1, <1>3 DEF Write, TypeOK
<1> QED BY <1>1, <1>2, <1>3

(* The loss of the tunnel reaches every session in the table, or none.      *)
LEMMA DisconnectedFacts ==
    ASSUME TypeOK, NEW c \in Sockets, Disconnected(c)
    PROVE  /\ sock' = [sock EXCEPT ![c] = "closed"]
           /\ hpc' = [hpc EXCEPT ![c] = "done"]
           /\ UNCHANGED <<hcid, inbox, pc, clientVars, answer>>
           /\ session' \in [Requests -> SessionRow]
           /\ \/ /\ ws = c /\ ws' = None /\ streams' = {}
                 /\ \A r \in streams : session'[r] = Lost(session[r])
                 /\ \A r \in Requests \ streams : session'[r] = session[r]
              \/ ws # c /\ UNCHANGED <<ws, session, streams>>
<1>1. CASE ws = c
  <2>1. session' = [r \in Requests |-> IF r \in streams THEN Lost(session[r]) ELSE session[r]]
    BY <1>1 DEF Disconnected, Remove
  <2>2. \A r \in Requests : Lost(session[r]) \in SessionRow
    BY LostFacts DEF TypeOK
  <2>3. session' \in [Requests -> SessionRow]
    BY <2>1, <2>2 DEF TypeOK
  <2>4. \A r \in streams : session'[r] = Lost(session[r])
    BY <2>1 DEF TypeOK
  <2>5. \A r \in Requests \ streams : session'[r] = session[r]
    BY <2>1
  <2> QED BY <1>1, <2>3, <2>4, <2>5 DEF Disconnected, Remove
<1>2. CASE ws # c
  BY <1>2 DEF Disconnected, Remove, TypeOK
<1> QED BY <1>1, <1>2

-----------------------------------------------------------------------------
(* Sockets, table and losses *)

(* Every step leaves open only the socket that is installed.                *)
LEMMA StepSocket == IInv /\ [Next]_vars => SocketInv'
<1> SUFFICES ASSUME IInv, [Next]_vars PROVE SocketInv'
  OBVIOUS
<1> USE NamesAssumption DEF IInv, TypeOK, socketVars, clientVars, SocketInv
<1>1. ASSUME NEW r \in Requests, Arrive(r) PROVE SocketInv'
  BY <1>1 DEF Arrive, Move
<1>2. ASSUME NEW r \in Requests, Write(r) PROVE SocketInv'
  BY <1>2 DEF Write, Move
<1>3. ASSUME NEW r \in Requests, SendFailed(r) PROVE SocketInv'
  BY <1>3 DEF SendFailed, Finish, Move
<1>4. ASSUME NEW r \in Requests, Sent(r) PROVE SocketInv'
  BY <1>4 DEF Sent, Move
<1>5. ASSUME NEW r \in Requests, StartTimeout(r) PROVE SocketInv'
  BY <1>5 DEF StartTimeout, Finish, Move
<1>6. ASSUME NEW r \in Requests, Started(r) PROVE SocketInv'
  BY <1>6 DEF Started, Move
<1>7. ASSUME NEW r \in Requests, Iterate(r) PROVE SocketInv'
  BY <1>7 DEF Iterate, Move
<1>8. ASSUME NEW r \in Requests, LeaveEarly(r) PROVE SocketInv'
  BY <1>8 DEF LeaveEarly, Move
<1>9. ASSUME NEW r \in Requests, LeaveDuring(r) PROVE SocketInv'
  BY <1>9 DEF LeaveDuring, Finish, Move
<1>10. ASSUME NEW r \in Requests, TakeChunk(r) PROVE SocketInv'
  BY <1>10 DEF TakeChunk
<1>11. ASSUME NEW r \in Requests, TakeEnd(r) PROVE SocketInv'
  BY <1>11 DEF TakeEnd, EndOfQueue, Finish, Move
<1>12. ASSUME NEW r \in Requests, Stalled(r) PROVE SocketInv'
  BY <1>12 DEF Stalled, Finish, Move
<1>13. ASSUME NEW c \in Sockets, Connect(c) PROVE SocketInv'
  BY <1>13 DEF Connect
<1>14. ASSUME NEW c \in Sockets, Opened(c) PROVE SocketInv'
  BY <1>14 DEF Opened
<1>15. ASSUME NEW c \in Sockets, Receive(c) PROVE SocketInv'
  BY <1>15 DEF Receive
<1>16. ASSUME NEW c \in Sockets, Disconnected(c) PROVE SocketInv'
  BY <1>16 DEF Disconnected, Remove
<1>17. ASSUME NEW c \in Sockets, Drop(c) PROVE SocketInv'
  BY <1>17 DEF Drop
<1>18. ASSUME NEW c \in Sockets, NEW r \in Requests, AgentStart(c, r) PROVE SocketInv'
  BY <1>18 DEF AgentStart, Send
<1>19. ASSUME NEW c \in Sockets, NEW r \in Requests, AgentChunk(c, r) PROVE SocketInv'
  BY <1>19 DEF AgentChunk, Send
<1>20. ASSUME NEW c \in Sockets, NEW r \in Requests, AgentEnd(c, r) PROVE SocketInv'
  BY <1>20 DEF AgentEnd, Send
<1>21. CASE UNCHANGED vars
  BY <1>21 DEF vars
<1> QED BY <1>1, <1>2, <1>3, <1>4, <1>5, <1>6, <1>7, <1>8, <1>9, <1>10, <1>11,
         <1>12, <1>13, <1>14, <1>15, <1>16, <1>17, <1>18, <1>19, <1>20, <1>21
         DEF Next, RelayStep, ClientStep

(* No step gives the client of a new request anything, or ends a request    *)
(* twice.                                                                   *)
LEMMA StepLife == IInv /\ [Next]_vars => LifeInv'
<1> SUFFICES ASSUME IInv, [Next]_vars PROVE LifeInv'
  OBVIOUS
<1> USE NamesAssumption DEF IInv, TypeOK, socketVars, clientVars, LifeInv
<1>1. ASSUME NEW r \in Requests, Arrive(r) PROVE LifeInv'
  BY <1>1 DEF Arrive, Move
<1>2. ASSUME NEW r \in Requests, Write(r) PROVE LifeInv'
  BY <1>2 DEF Write, Move
<1>3. ASSUME NEW r \in Requests, SendFailed(r) PROVE LifeInv'
  BY <1>3 DEF SendFailed, Finish, Move
<1>4. ASSUME NEW r \in Requests, Sent(r) PROVE LifeInv'
  BY <1>4 DEF Sent, Move
<1>5. ASSUME NEW r \in Requests, StartTimeout(r) PROVE LifeInv'
  BY <1>5 DEF StartTimeout, Finish, Move
<1>6. ASSUME NEW r \in Requests, Started(r) PROVE LifeInv'
  BY <1>6 DEF Started, Move
<1>7. ASSUME NEW r \in Requests, Iterate(r) PROVE LifeInv'
  BY <1>7 DEF Iterate, Move
<1>8. ASSUME NEW r \in Requests, LeaveEarly(r) PROVE LifeInv'
  BY <1>8 DEF LeaveEarly, Move
<1>9. ASSUME NEW r \in Requests, LeaveDuring(r) PROVE LifeInv'
  BY <1>9 DEF LeaveDuring, Finish, Move
<1>10. ASSUME NEW r \in Requests, TakeChunk(r) PROVE LifeInv'
  BY <1>10 DEF TakeChunk
<1>11. ASSUME NEW r \in Requests, TakeEnd(r) PROVE LifeInv'
  BY <1>11 DEF TakeEnd, EndOfQueue, Finish, Move
<1>12. ASSUME NEW r \in Requests, Stalled(r) PROVE LifeInv'
  BY <1>12 DEF Stalled, Finish, Move
<1>13. ASSUME NEW c \in Sockets, Connect(c) PROVE LifeInv'
  BY <1>13 DEF Connect
<1>14. ASSUME NEW c \in Sockets, Opened(c) PROVE LifeInv'
  BY <1>14 DEF Opened
<1>15. ASSUME NEW c \in Sockets, Receive(c) PROVE LifeInv'
  BY <1>15 DEF Receive
<1>16. ASSUME NEW c \in Sockets, Disconnected(c) PROVE LifeInv'
  BY <1>16 DEF Disconnected, Remove
<1>17. ASSUME NEW c \in Sockets, Drop(c) PROVE LifeInv'
  BY <1>17 DEF Drop
<1>18. ASSUME NEW c \in Sockets, NEW r \in Requests, AgentStart(c, r) PROVE LifeInv'
  BY <1>18 DEF AgentStart, Send
<1>19. ASSUME NEW c \in Sockets, NEW r \in Requests, AgentChunk(c, r) PROVE LifeInv'
  BY <1>19 DEF AgentChunk, Send
<1>20. ASSUME NEW c \in Sockets, NEW r \in Requests, AgentEnd(c, r) PROVE LifeInv'
  BY <1>20 DEF AgentEnd, Send
<1>21. CASE UNCHANGED vars
  BY <1>21 DEF vars
<1> QED BY <1>1, <1>2, <1>3, <1>4, <1>5, <1>6, <1>7, <1>8, <1>9, <1>10, <1>11,
         <1>12, <1>13, <1>14, <1>15, <1>16, <1>17, <1>18, <1>19, <1>20, <1>21
         DEF Next, RelayStep, ClientStep

(* No step leaves a session in the table while no tunnel is installed.      *)
LEMMA StepOrphans == IInv /\ [Next]_vars => NoOrphanStreams'
<1> SUFFICES ASSUME IInv, [Next]_vars PROVE NoOrphanStreams'
  OBVIOUS
<1> USE NamesAssumption DEF IInv, TypeOK, socketVars, clientVars, NoOrphanStreams
<1>1. ASSUME NEW r \in Requests, Arrive(r) PROVE NoOrphanStreams'
  BY <1>1 DEF Arrive, Move
<1>2. ASSUME NEW r \in Requests, Write(r) PROVE NoOrphanStreams'
  BY <1>2 DEF Write, Move
<1>3. ASSUME NEW r \in Requests, SendFailed(r) PROVE NoOrphanStreams'
  BY <1>3 DEF SendFailed, Finish, Move
<1>4. ASSUME NEW r \in Requests, Sent(r) PROVE NoOrphanStreams'
  BY <1>4 DEF Sent, Move
<1>5. ASSUME NEW r \in Requests, StartTimeout(r) PROVE NoOrphanStreams'
  BY <1>5 DEF StartTimeout, Finish, Move
<1>6. ASSUME NEW r \in Requests, Started(r) PROVE NoOrphanStreams'
  BY <1>6 DEF Started, Move
<1>7. ASSUME NEW r \in Requests, Iterate(r) PROVE NoOrphanStreams'
  BY <1>7 DEF Iterate, Move
<1>8. ASSUME NEW r \in Requests, LeaveEarly(r) PROVE NoOrphanStreams'
  BY <1>8 DEF LeaveEarly, Move
<1>9. ASSUME NEW r \in Requests, LeaveDuring(r) PROVE NoOrphanStreams'
  BY <1>9 DEF LeaveDuring, Finish, Move
<1>10. ASSUME NEW r \in Requests, TakeChunk(r) PROVE NoOrphanStreams'
  BY <1>10 DEF TakeChunk
<1>11. ASSUME NEW r \in Requests, TakeEnd(r) PROVE NoOrphanStreams'
  BY <1>11 DEF TakeEnd, EndOfQueue, Finish, Move
<1>12. ASSUME NEW r \in Requests, Stalled(r) PROVE NoOrphanStreams'
  BY <1>12 DEF Stalled, Finish, Move
<1>13. ASSUME NEW c \in Sockets, Connect(c) PROVE NoOrphanStreams'
  BY <1>13 DEF Connect
<1>14. ASSUME NEW c \in Sockets, Opened(c) PROVE NoOrphanStreams'
  BY <1>14 DEF Opened
<1>15. ASSUME NEW c \in Sockets, Receive(c) PROVE NoOrphanStreams'
  BY <1>15 DEF Receive
<1>16. ASSUME NEW c \in Sockets, Disconnected(c) PROVE NoOrphanStreams'
  BY <1>16 DEF Disconnected, Remove
<1>17. ASSUME NEW c \in Sockets, Drop(c) PROVE NoOrphanStreams'
  BY <1>17 DEF Drop
<1>18. ASSUME NEW c \in Sockets, NEW r \in Requests, AgentStart(c, r) PROVE NoOrphanStreams'
  BY <1>18 DEF AgentStart, Send
<1>19. ASSUME NEW c \in Sockets, NEW r \in Requests, AgentChunk(c, r) PROVE NoOrphanStreams'
  BY <1>19 DEF AgentChunk, Send
<1>20. ASSUME NEW c \in Sockets, NEW r \in Requests, AgentEnd(c, r) PROVE NoOrphanStreams'
  BY <1>20 DEF AgentEnd, Send
<1>21. CASE UNCHANGED vars
  BY <1>21 DEF vars
<1> QED BY <1>1, <1>2, <1>3, <1>4, <1>5, <1>6, <1>7, <1>8, <1>9, <1>10, <1>11,
         <1>12, <1>13, <1>14, <1>15, <1>16, <1>17, <1>18, <1>19, <1>20, <1>21
         DEF Next, RelayStep, ClientStep

(* Every way out of a request takes its session out, but for a client that  *)
(* leaves before the body.                                                  *)
LEMMA StepAccounted == IInv /\ [Next]_vars => StreamsAccounted'
<1> SUFFICES ASSUME IInv, [Next]_vars PROVE StreamsAccounted'
  OBVIOUS
<1> USE NamesAssumption DEF IInv, TypeOK, socketVars, clientVars, StreamsAccounted, LifeInv
<1>1. ASSUME NEW r \in Requests, Arrive(r) PROVE StreamsAccounted'
  BY <1>1 DEF Arrive, Move
<1>2. ASSUME NEW r \in Requests, Write(r) PROVE StreamsAccounted'
  BY <1>2 DEF Write, Move
<1>3. ASSUME NEW r \in Requests, SendFailed(r) PROVE StreamsAccounted'
  BY <1>3 DEF SendFailed, Finish, Move
<1>4. ASSUME NEW r \in Requests, Sent(r) PROVE StreamsAccounted'
  BY <1>4 DEF Sent, Move
<1>5. ASSUME NEW r \in Requests, StartTimeout(r) PROVE StreamsAccounted'
  BY <1>5 DEF StartTimeout, Finish, Move
<1>6. ASSUME NEW r \in Requests, Started(r) PROVE StreamsAccounted'
  BY <1>6 DEF Started, Move
<1>7. ASSUME NEW r \in Requests, Iterate(r) PROVE StreamsAccounted'
  BY <1>7 DEF Iterate, Move
<1>8. ASSUME NEW r \in Requests, LeaveEarly(r) PROVE StreamsAccounted'
  BY <1>8 DEF LeaveEarly, Move
<1>9. ASSUME NEW r \in Requests, LeaveDuring(r) PROVE StreamsAccounted'
  BY <1>9 DEF LeaveDuring, Finish, Move
<1>10. ASSUME NEW r \in Requests, TakeChunk(r) PROVE StreamsAccounted'
  BY <1>10 DEF TakeChunk
<1>11. ASSUME NEW r \in Requests, TakeEnd(r) PROVE StreamsAccounted'
  BY <1>11 DEF TakeEnd, EndOfQueue, Finish, Move
<1>12. ASSUME NEW r \in Requests, Stalled(r) PROVE StreamsAccounted'
  BY <1>12 DEF Stalled, Finish, Move
<1>13. ASSUME NEW c \in Sockets, Connect(c) PROVE StreamsAccounted'
  BY <1>13 DEF Connect
<1>14. ASSUME NEW c \in Sockets, Opened(c) PROVE StreamsAccounted'
  BY <1>14 DEF Opened
<1>15. ASSUME NEW c \in Sockets, Receive(c) PROVE StreamsAccounted'
  BY <1>15 DEF Receive
<1>16. ASSUME NEW c \in Sockets, Disconnected(c) PROVE StreamsAccounted'
  BY <1>16 DEF Disconnected, Remove
<1>17. ASSUME NEW c \in Sockets, Drop(c) PROVE StreamsAccounted'
  BY <1>17 DEF Drop
<1>18. ASSUME NEW c \in Sockets, NEW r \in Requests, AgentStart(c, r) PROVE StreamsAccounted'
  BY <1>18 DEF AgentStart, Send
<1>19. ASSUME NEW c \in Sockets, NEW r \in Requests, AgentChunk(c, r) PROVE StreamsAccounted'
  BY <1>19 DEF AgentChunk, Send
<1>20. ASSUME NEW c \in Sockets, NEW r \in Requests, AgentEnd(c, r) PROVE StreamsAccounted'
  BY <1>20 DEF AgentEnd, Send
<1>21. CASE UNCHANGED vars
  BY <1>21 DEF vars
<1> QED BY <1>1, <1>2, <1>3, <1>4, <1>5, <1>6, <1>7, <1>8, <1>9, <1>10, <1>11,
         <1>12, <1>13, <1>14, <1>15, <1>16, <1>17, <1>18, <1>19, <1>20, <1>21
         DEF Next, RelayStep, ClientStep

(* A session is broken only when the connection it was registered on is     *)
(* down: the socket removed is the installed one, and every older one is    *)
(* closed.                                                                  *)
LEMMA StepLoss == IInv /\ [Next]_vars => LossInv'
<1> SUFFICES ASSUME IInv, [Next]_vars PROVE LossInv'
  OBVIOUS
<1> USE NamesAssumption DEF IInv, TypeOK, socketVars, clientVars, SocketInv, LossInv, BrokenOnlyIfLost, LifeInv, Fresh
<1>1. ASSUME NEW r \in Requests, Arrive(r) PROVE LossInv'
  BY <1>1 DEF Arrive, Move
<1>2. ASSUME NEW r \in Requests, Write(r) PROVE LossInv'
  BY <1>2 DEF Write, Move
<1>3. ASSUME NEW r \in Requests, SendFailed(r) PROVE LossInv'
  BY <1>3 DEF SendFailed, Finish, Move
<1>4. ASSUME NEW r \in Requests, Sent(r) PROVE LossInv'
  BY <1>4 DEF Sent, Move
<1>5. ASSUME NEW r \in Requests, StartTimeout(r) PROVE LossInv'
  BY <1>5 DEF StartTimeout, Finish, Move
<1>6. ASSUME NEW r \in Requests, Started(r) PROVE LossInv'
  BY <1>6 DEF Started, Move
<1>7. ASSUME NEW r \in Requests, Iterate(r) PROVE LossInv'
  BY <1>7 DEF Iterate, Move
<1>8. ASSUME NEW r \in Requests, LeaveEarly(r) PROVE LossInv'
  BY <1>8 DEF LeaveEarly, Move
<1>9. ASSUME NEW r \in Requests, LeaveDuring(r) PROVE LossInv'
  BY <1>9 DEF LeaveDuring, Finish, Move
<1>10. ASSUME NEW r \in Requests, TakeChunk(r) PROVE LossInv'
  BY <1>10 DEF TakeChunk
<1>11. ASSUME NEW r \in Requests, TakeEnd(r) PROVE LossInv'
  BY <1>11 DEF TakeEnd, EndOfQueue, Finish, Move
<1>12. ASSUME NEW r \in Requests, Stalled(r) PROVE LossInv'
  BY <1>12 DEF Stalled, Finish, Move
<1>13. ASSUME NEW c \in Sockets, Connect(c) PROVE LossInv'
  BY <1>13 DEF Connect
<1>14. ASSUME NEW c \in Sockets, Opened(c) PROVE LossInv'
  BY <1>14 DEF Opened
<1>15. ASSUME NEW c \in Sockets, Receive(c) PROVE LossInv'
  <2>1. PICK m \in Message :
          /\ UNCHANGED <<ws, sock, rcid>> /\ streams' \subseteq streams
          /\ \A q \in Requests : session'[q] = session[q] \/ session'[q] = After(session[q], m)
    <3> HIDE DEF TypeOK
    <3> QED BY <1>15, ReceiveFacts DEF clientVars
  <2>2. ASSUME NEW q \in Requests PROVE session'[q].lost = session[q].lost
    <3>1. session[q] \in SessionRow
      OBVIOUS
    <3>2. After(session[q], m).lost = session[q].lost
      BY <3>1, AfterFacts
    <3> QED BY <2>1, <3>2
  <2> QED BY <2>1, <2>2
<1>16. ASSUME NEW c \in Sockets, Disconnected(c) PROVE LossInv'
  <2>1. CASE ws # c
    <3>1. UNCHANGED <<ws, session, streams, rcid, pc>> /\ sock' = [sock EXCEPT ![c] = "closed"]
      <4> HIDE DEF TypeOK
      <4> QED BY <1>16, <2>1, DisconnectedFacts DEF clientVars
    <3> QED BY <3>1, <2>1
  <2>2. CASE ws = c
    <3>1. /\ streams' = {} /\ rcid' = rcid
          /\ \A r \in Requests : session'[r].lost => r \in streams \/ session[r].lost
          /\ sock' = [sock EXCEPT ![c] = "closed"]
      <4> HIDE DEF TypeOK
      <4>1. streams' = {} /\ rcid' = rcid /\ sock' = [sock EXCEPT ![c] = "closed"]
        BY <1>16, <2>2, DisconnectedFacts DEF clientVars
      <4>2. ASSUME NEW r \in Requests, session'[r].lost, r \notin streams PROVE session[r].lost
        BY <1>16, <2>2, <4>2, DisconnectedFacts
      <4> QED BY <4>1, <4>2
    <3>2. ASSUME NEW r \in streams PROVE rcid[r] # None /\ sock'[rcid[r]] = "closed"
      <4>1. r \in Requests /\ rcid[r] \in Sockets /\ sock[rcid[r]] # "unused"
        OBVIOUS
      <4>2. sock[rcid[r]] \in {"open", "gone", "closed"}
        BY <4>1 DEF SocketState
      <4> QED BY <2>2, <3>1, <4>1, <4>2
    <3>3. \A d \in Sockets : sock'[d] = sock[d] \/ sock'[d] = "closed"
      BY <3>1
    <3> QED BY <3>1, <3>2, <3>3
  <2> QED BY <2>1, <2>2
<1>17. ASSUME NEW c \in Sockets, Drop(c) PROVE LossInv'
  BY <1>17 DEF Drop
<1>18. ASSUME NEW c \in Sockets, NEW r \in Requests, AgentStart(c, r) PROVE LossInv'
  BY <1>18 DEF AgentStart, Send
<1>19. ASSUME NEW c \in Sockets, NEW r \in Requests, AgentChunk(c, r) PROVE LossInv'
  BY <1>19 DEF AgentChunk, Send
<1>20. ASSUME NEW c \in Sockets, NEW r \in Requests, AgentEnd(c, r) PROVE LossInv'
  BY <1>20 DEF AgentEnd, Send
<1>21. CASE UNCHANGED vars
  BY <1>21 DEF vars
<1> QED BY <1>1, <1>2, <1>3, <1>4, <1>5, <1>6, <1>7, <1>8, <1>9, <1>10, <1>11,
         <1>12, <1>13, <1>14, <1>15, <1>16, <1>17, <1>18, <1>19, <1>20, <1>21
         DEF Next, RelayStep, ClientStep

(* Whoever takes a session out of the table puts the end into its queue, or *)
(* is its own client.                                                       *)
LEMMA StepForgotten == IInv /\ [Next]_vars => ForgottenIsFinished'
<1> SUFFICES ASSUME IInv, [Next]_vars PROVE ForgottenIsFinished'
  OBVIOUS
<1> DEFINE Over(r) == pc[r] \in {"lock", "sending", "start", "ready", "body"} /\ r \notin streams
<1>a. ForgottenIsFinished <=>
        \A r \in Requests : Over(r) => session[r].started /\ EndIn(Queue(r))
  BY DEF ForgottenIsFinished, EndIn
<1>b. ForgottenIsFinished' <=>
        \A r \in Requests : Over(r)' => session'[r].started /\ EndIn(Queue(r))'
  BY DEF ForgottenIsFinished, EndIn
<1>0. \A r \in Requests : session'[r] = session[r] =>
        (EndIn(Queue(r))' <=> EndIn(Queue(r)))
  BY DEF EndIn, Queue
<1> USE NamesAssumption, <1>a, <1>b DEF IInv, TypeOK, socketVars, clientVars, LifeInv
<1>1. ASSUME NEW r \in Requests, Arrive(r) PROVE ForgottenIsFinished'
  BY <1>0, <1>1 DEF Arrive, Move
<1>2. ASSUME NEW r \in Requests, Write(r) PROVE ForgottenIsFinished'
  BY <1>0, <1>2 DEF Write, Move
<1>3. ASSUME NEW r \in Requests, SendFailed(r) PROVE ForgottenIsFinished'
  BY <1>0, <1>3 DEF SendFailed, Finish, Move
<1>4. ASSUME NEW r \in Requests, Sent(r) PROVE ForgottenIsFinished'
  BY <1>0, <1>4 DEF Sent, Move
<1>5. ASSUME NEW r \in Requests, StartTimeout(r) PROVE ForgottenIsFinished'
  BY <1>0, <1>5 DEF StartTimeout, Finish, Move
<1>6. ASSUME NEW r \in Requests, Started(r) PROVE ForgottenIsFinished'
  BY <1>0, <1>6 DEF Started, Move
<1>7. ASSUME NEW r \in Requests, Iterate(r) PROVE ForgottenIsFinished'
  BY <1>0, <1>7 DEF Iterate, Move
<1>8. ASSUME NEW r \in Requests, LeaveEarly(r) PROVE ForgottenIsFinished'
  BY <1>0, <1>8 DEF LeaveEarly, Move
<1>9. ASSUME NEW r \in Requests, LeaveDuring(r) PROVE ForgottenIsFinished'
  BY <1>0, <1>9 DEF LeaveDuring, Finish, Move
<1>10. ASSUME NEW r \in Requests, TakeChunk(r) PROVE ForgottenIsFinished'
  <2>1. /\ pc' = pc /\ streams' = streams /\ pc[r] = "body"
        /\ Queue(r) # <<>> /\ Head(Queue(r)) # None
        /\ session' = [session EXCEPT ![r].chunks = Tail(session[r].chunks)]
    BY <1>10 DEF TakeChunk
  <2>2. /\ Queue(r)' = Tail(Queue(r)) /\ session'[r].started = session[r].started
        /\ \A q \in Requests \ {r} : session'[q] = session[q]
    BY <2>1 DEF Queue, SessionRow
  <2>3. EndIn(Queue(r))' <=> EndIn(Queue(r))
    BY <2>1, <2>2, EndStays, QueueType
  <2> QED BY <1>0, <2>1, <2>2, <2>3
<1>11. ASSUME NEW r \in Requests, TakeEnd(r) PROVE ForgottenIsFinished'
  <2>1. /\ pc' = [pc EXCEPT ![r] = "done"] /\ streams' = streams \ {r}
        /\ \A q \in Requests \ {r} : session'[q] = session[q]
    BY <1>11 DEF TakeEnd, Finish, Move
  <2> QED BY <1>0, <2>1
<1>12. ASSUME NEW r \in Requests, Stalled(r) PROVE ForgottenIsFinished'
  BY <1>0, <1>12 DEF Stalled, Finish, Move
<1>13. ASSUME NEW c \in Sockets, Connect(c) PROVE ForgottenIsFinished'
  BY <1>0, <1>13 DEF Connect
<1>14. ASSUME NEW c \in Sockets, Opened(c) PROVE ForgottenIsFinished'
  BY <1>0, <1>14 DEF Opened
<1>15. ASSUME NEW c \in Sockets, Receive(c) PROVE ForgottenIsFinished'
  <2>1. PICK m \in Message :
          /\ m.req \in Requests /\ pc' = pc
          /\ \A q \in Requests : q # m.req => session'[q] = session[q]
          /\ \/ session' = session /\ streams' = streams
             \/ /\ m.req \in streams
                /\ session'[m.req] = After(session[m.req], m)
                /\ streams' = IF m.type = "end" THEN streams \ {m.req} ELSE streams
    <3> HIDE DEF TypeOK
    <3> QED BY <1>15, ReceiveFacts
  <2> DEFINE x == m.req
  <2>2. CASE streams' = streams /\ (session' = session \/ x \in streams)
    BY <1>0, <2>1, <2>2
  <2>3. CASE /\ m.type = "end" /\ streams' = streams \ {x}
             /\ session'[x] = After(session[x], m)
    <3>1. session[x] \in SessionRow
      BY <2>1
    <3>2. session'[x].started /\ session'[x].chunks = Append(session[x].chunks, None)
      <4>1. /\ After(session[x], m).started
            /\ After(session[x], m).chunks = Append(session[x].chunks, None)
        <5> HIDE DEF TypeOK, x
        <5> QED BY <2>3, <3>1, AfterFacts
      <4> QED BY <2>3, <4>1
    <3>3. EndIn(Queue(x))'
      BY <3>1, <3>2, EndPut DEF SessionRow, Queue, Entry
    <3>4. ASSUME NEW q \in Requests, q # x, Over(q)'
          PROVE  session'[q].started /\ EndIn(Queue(q))'
      <4>1. Over(q) /\ session'[q] = session[q]
        BY <2>1, <2>3, <3>4
      <4> QED BY <1>0, <4>1
    <3> QED BY <3>2, <3>3, <3>4
  <2> QED BY <2>1, <2>2, <2>3
<1>16. ASSUME NEW c \in Sockets, Disconnected(c) PROVE ForgottenIsFinished'
  <2>1. CASE ws # c
    BY <1>0, <1>16, <2>1, DisconnectedFacts
  <2>2. CASE ws = c
    <3>1. /\ pc' = pc
          /\ \A r \in streams : session'[r] = Lost(session[r])
          /\ \A r \in Requests \ streams : session'[r] = session[r]
      <4> HIDE DEF TypeOK
      <4> QED BY <1>16, <2>2, DisconnectedFacts
    <3>2. ASSUME NEW r \in streams PROVE session'[r].started /\ EndIn(Queue(r))'
      <4>1. session'[r].started /\ session'[r].chunks = Append(Queue(r), None)
        BY <3>1, LostFacts DEF Queue
      <4> QED BY <4>1, EndPut, QueueType DEF Queue
    <3> QED BY <1>0, <3>1, <3>2
  <2> QED BY <2>1, <2>2
<1>17. ASSUME NEW c \in Sockets, Drop(c) PROVE ForgottenIsFinished'
  BY <1>0, <1>17 DEF Drop
<1>18. ASSUME NEW c \in Sockets, NEW r \in Requests, AgentStart(c, r) PROVE ForgottenIsFinished'
  BY <1>0, <1>18 DEF AgentStart, Send
<1>19. ASSUME NEW c \in Sockets, NEW r \in Requests, AgentChunk(c, r) PROVE ForgottenIsFinished'
  BY <1>0, <1>19 DEF AgentChunk, Send
<1>20. ASSUME NEW c \in Sockets, NEW r \in Requests, AgentEnd(c, r) PROVE ForgottenIsFinished'
  BY <1>0, <1>20 DEF AgentEnd, Send
<1>21. CASE UNCHANGED vars
  BY <1>0, <1>21 DEF vars
<1> QED BY <1>1, <1>2, <1>3, <1>4, <1>5, <1>6, <1>7, <1>8, <1>9, <1>10, <1>11,
         <1>12, <1>13, <1>14, <1>15, <1>16, <1>17, <1>18, <1>19, <1>20, <1>21
         DEF Next, RelayStep, ClientStep

(* The agent is asked by the write, and answers in order.                   *)
LEMMA StepAgent == IInv /\ [Next]_vars => AgentInv'
<1> SUFFICES ASSUME IInv, [Next]_vars PROVE AgentInv'
  OBVIOUS
<1> USE NamesAssumption DEF IInv, TypeOK, socketVars, clientVars, AgentInv
<1>1. ASSUME NEW r \in Requests, Arrive(r) PROVE AgentInv'
  BY <1>1 DEF Arrive, Move
<1>2. ASSUME NEW r \in Requests, Write(r) PROVE AgentInv'
  <2>1. TypeOK
    OBVIOUS
  <2> HIDE DEF TypeOK
  <2>2. /\ ws \in Sockets /\ pc[r] = "lock"
        /\ pc' = [pc EXCEPT ![r] = "sending"]
        /\ target' = [target EXCEPT ![r] = ws]
        /\ \A q \in Requests \ {r} : answer'[q] = answer[q]
        /\ answer'[r].begun = answer[r].begun
        /\ answer'[r].sent = answer[r].sent
        /\ answer'[r].ended = answer[r].ended
        /\ answer'[r].asked \/ answer' = answer
    BY <1>2, <2>1, WriteFacts
  <2> USE DEF TypeOK
  <2> QED BY <2>2
<1>3. ASSUME NEW r \in Requests, SendFailed(r) PROVE AgentInv'
  BY <1>3 DEF SendFailed, Finish, Move
<1>4. ASSUME NEW r \in Requests, Sent(r) PROVE AgentInv'
  BY <1>4 DEF Sent, Move
<1>5. ASSUME NEW r \in Requests, StartTimeout(r) PROVE AgentInv'
  BY <1>5 DEF StartTimeout, Finish, Move
<1>6. ASSUME NEW r \in Requests, Started(r) PROVE AgentInv'
  BY <1>6 DEF Started, Move
<1>7. ASSUME NEW r \in Requests, Iterate(r) PROVE AgentInv'
  BY <1>7 DEF Iterate, Move
<1>8. ASSUME NEW r \in Requests, LeaveEarly(r) PROVE AgentInv'
  BY <1>8 DEF LeaveEarly, Move
<1>9. ASSUME NEW r \in Requests, LeaveDuring(r) PROVE AgentInv'
  BY <1>9 DEF LeaveDuring, Finish, Move
<1>10. ASSUME NEW r \in Requests, TakeChunk(r) PROVE AgentInv'
  BY <1>10 DEF TakeChunk
<1>11. ASSUME NEW r \in Requests, TakeEnd(r) PROVE AgentInv'
  BY <1>11 DEF TakeEnd, EndOfQueue, Finish, Move
<1>12. ASSUME NEW r \in Requests, Stalled(r) PROVE AgentInv'
  BY <1>12 DEF Stalled, Finish, Move
<1>13. ASSUME NEW c \in Sockets, Connect(c) PROVE AgentInv'
  BY <1>13 DEF Connect
<1>14. ASSUME NEW c \in Sockets, Opened(c) PROVE AgentInv'
  BY <1>14 DEF Opened
<1>15. ASSUME NEW c \in Sockets, Receive(c) PROVE AgentInv'
  BY <1>15 DEF Receive
<1>16. ASSUME NEW c \in Sockets, Disconnected(c) PROVE AgentInv'
  BY <1>16 DEF Disconnected, Remove
<1>17. ASSUME NEW c \in Sockets, Drop(c) PROVE AgentInv'
  BY <1>17 DEF Drop
<1>18. ASSUME NEW c \in Sockets, NEW r \in Requests, AgentStart(c, r) PROVE AgentInv'
  BY <1>18 DEF AgentStart, Send
<1>19. ASSUME NEW c \in Sockets, NEW r \in Requests, AgentChunk(c, r) PROVE AgentInv'
  BY <1>19 DEF AgentChunk, Send
<1>20. ASSUME NEW c \in Sockets, NEW r \in Requests, AgentEnd(c, r) PROVE AgentInv'
  BY <1>20 DEF AgentEnd, Send
<1>21. CASE UNCHANGED vars
  BY <1>21 DEF vars
<1> QED BY <1>1, <1>2, <1>3, <1>4, <1>5, <1>6, <1>7, <1>8, <1>9, <1>10, <1>11,
         <1>12, <1>13, <1>14, <1>15, <1>16, <1>17, <1>18, <1>19, <1>20, <1>21
         DEF Next, RelayStep, ClientStep

(* m is the next message of the answer to r.                                *)
SendsNext(r, m) ==
    \/ /\ m.type = "start" /\ answer[r].asked /\ ~answer[r].begun
       /\ answer'[r] = [answer[r] EXCEPT !.begun = TRUE]
    \/ /\ m.type = "chunk" /\ m.n = answer[r].sent + 1
       /\ answer[r].begun /\ ~answer[r].ended
       /\ answer'[r] = [answer[r] EXCEPT !.sent = answer[r].sent + 1]
    \/ /\ m.type = "end" /\ answer[r].begun /\ ~answer[r].ended
       /\ answer'[r] = [answer[r] EXCEPT !.ended = TRUE]

(* The agent puts one message at the back of the socket's queue, under the  *)
(* stamp of the answer: the next one, at a place it has not sent before.    *)
LEMMA SentFacts ==
    ASSUME TypeOK, NEW c \in Sockets, NEW r \in Requests,
           AgentStart(c, r) \/ AgentChunk(c, r) \/ AgentEnd(c, r)
    PROVE  /\ UNCHANGED <<ws, sock, hpc, hcid, streams, session, pc, clientVars>>
           /\ sock[c] = "open" /\ (answer[r].roams \/ c = target[r])
           /\ answer' \in [Requests -> AnswerRow]
           /\ \A q \in Requests \ {r} : answer'[q] = answer[q]
           /\ answer'[r].asked = answer[r].asked
           /\ answer'[r].stamp = answer[r].stamp /\ answer'[r].roams = answer[r].roams
           /\ answer[r].begun => answer'[r].begun
           /\ answer[r].sent <= answer'[r].sent
           /\ answer[r].ended => answer'[r].ended
           /\ \E m \in Message :
                 /\ inbox' = [inbox EXCEPT ![c] = Append(inbox[c], m)]
                 /\ m.req = r /\ m.cid = answer[r].stamp /\ SendsNext(r, m)
<1>0. /\ UNCHANGED <<ws, sock, hpc, hcid, streams, session, pc, clientVars>>
      /\ sock[c] = "open" /\ (answer[r].roams \/ c = target[r])
  BY DEF AgentStart, AgentChunk, AgentEnd, Send
<1>1. answer \in [Requests -> AnswerRow] /\ answer[r] \in AnswerRow
  BY DEF TypeOK
<1>2. answer[r].stamp \in Sockets \cup {None} /\ answer[r].sent \in 0 .. MaxChunks
  BY <1>1 DEF AnswerRow
<1>3. CASE AgentStart(c, r)
  <2> DEFINE m == [type |-> "start", req |-> r, cid |-> answer[r].stamp]
  <2>1. m \in Message
    BY <1>2 DEF Message
  <2>2. /\ inbox' = [inbox EXCEPT ![c] = Append(inbox[c], m)]
        /\ ~answer[r].begun /\ answer[r].asked
    BY <1>3 DEF AgentStart, Send
  <2>3. answer' = [answer EXCEPT ![r] = [answer[r] EXCEPT !.begun = TRUE]]
    BY <1>3, Zenon DEF AgentStart
  <2>4. /\ answer' \in [Requests -> AnswerRow]
        /\ \A q \in Requests \ {r} : answer'[q] = answer[q]
        /\ answer'[r] = [answer[r] EXCEPT !.begun = TRUE]
    BY <1>1, <2>3 DEF AnswerRow
  <2>5. m.req = r /\ m.cid = answer[r].stamp /\ m.type \in {"start", "end"}
    OBVIOUS
  <2>6. /\ answer'[r].asked = answer[r].asked /\ answer'[r].begun
        /\ answer[r].sent <= answer'[r].sent
        /\ answer[r].ended => answer'[r].ended
        /\ answer'[r].stamp = answer[r].stamp /\ answer'[r].roams = answer[r].roams
    <3>1. answer'[r].sent = answer[r].sent
      BY <1>1, <2>4 DEF AnswerRow
    <3>2. answer[r].sent <= answer'[r].sent
      BY <1>2, <3>1, BoundsAssumption
    <3> QED BY <1>1, <2>2, <2>4, <3>2 DEF AnswerRow
  <2>7. m.type = "start"
    OBVIOUS
  <2> HIDE DEF m
  <2>8. SendsNext(r, m)
    BY <2>2, <2>4, <2>7 DEF SendsNext
  <2>9. \E n \in Message :
           /\ inbox' = [inbox EXCEPT ![c] = Append(inbox[c], n)]
           /\ n.req = r /\ n.cid = answer[r].stamp /\ SendsNext(r, n)
    BY <2>1, <2>2, <2>5, <2>8, Zenon
  <2> QED BY <1>0, <2>4, <2>6, <2>9, Zenon
<1>4. CASE AgentChunk(c, r)
  <2>1. /\ answer[r].begun /\ ~answer[r].ended /\ answer[r].sent < MaxChunks
        /\ answer' = [answer EXCEPT ![r].sent = answer[r].sent + 1]
    BY <1>4 DEF AgentChunk
  <2>2. answer' = [answer EXCEPT ![r] = [answer[r] EXCEPT !.sent = answer[r].sent + 1]]
    BY <2>1, Zenon
  <2>3. answer[r].sent + 1 \in 1 .. MaxChunks
    BY <1>2, <2>1, BoundsAssumption
  <2>4. /\ answer' \in [Requests -> AnswerRow]
        /\ \A q \in Requests \ {r} : answer'[q] = answer[q]
        /\ answer'[r] = [answer[r] EXCEPT !.sent = answer[r].sent + 1]
        /\ answer'[r].sent = answer[r].sent + 1
    BY <1>1, <2>2, <2>3 DEF AnswerRow
  <2> DEFINE m == [type |-> "chunk", req |-> r, cid |-> answer[r].stamp, n |-> answer'[r].sent]
  <2>5. m \in Message /\ m.n = answer[r].sent + 1
    BY <1>2, <2>3, <2>4 DEF Message, Chunks
  <2>6. inbox' = [inbox EXCEPT ![c] = Append(inbox[c], m)]
    BY <1>4 DEF AgentChunk, Send
  <2>7. m.req = r /\ m.cid = answer[r].stamp /\ m.type = "chunk"
    OBVIOUS
  <2>8. /\ answer'[r].asked = answer[r].asked /\ answer'[r].begun
        /\ answer[r].sent <= answer'[r].sent /\ answer'[r].ended = answer[r].ended
        /\ answer'[r].stamp = answer[r].stamp /\ answer'[r].roams = answer[r].roams
    BY <1>1, <1>2, <2>1, <2>4 DEF AnswerRow
  <2> HIDE DEF m
  <2>9. SendsNext(r, m)
    BY <2>1, <2>4, <2>5, <2>7 DEF SendsNext
  <2>10. \E n \in Message :
           /\ inbox' = [inbox EXCEPT ![c] = Append(inbox[c], n)]
           /\ n.req = r /\ n.cid = answer[r].stamp /\ SendsNext(r, n)
    BY <2>5, <2>6, <2>7, <2>9, Zenon
  <2> QED BY <1>0, <2>1, <2>4, <2>8, <2>10, Zenon
<1>5. CASE AgentEnd(c, r)
  <2> DEFINE m == [type |-> "end", req |-> r, cid |-> answer[r].stamp]
  <2>1. m \in Message
    BY <1>2 DEF Message
  <2>2. /\ inbox' = [inbox EXCEPT ![c] = Append(inbox[c], m)]
        /\ answer[r].begun /\ ~answer[r].ended
    BY <1>5 DEF AgentEnd, Send
  <2>3. answer' = [answer EXCEPT ![r] = [answer[r] EXCEPT !.ended = TRUE]]
    BY <1>5, Zenon DEF AgentEnd
  <2>4. /\ answer' \in [Requests -> AnswerRow]
        /\ \A q \in Requests \ {r} : answer'[q] = answer[q]
        /\ answer'[r] = [answer[r] EXCEPT !.ended = TRUE]
    BY <1>1, <2>3 DEF AnswerRow
  <2>5. m.req = r /\ m.cid = answer[r].stamp /\ m.type \in {"start", "end"}
    OBVIOUS
  <2>6. /\ answer'[r].asked = answer[r].asked /\ answer'[r].begun
        /\ answer[r].sent <= answer'[r].sent
        /\ answer[r].ended => answer'[r].ended
        /\ answer'[r].stamp = answer[r].stamp /\ answer'[r].roams = answer[r].roams
    BY <1>1, <1>2, <2>2, <2>4 DEF AnswerRow
  <2>7. m.type = "end"
    OBVIOUS
  <2> HIDE DEF m
  <2>8. SendsNext(r, m)
    BY <2>2, <2>4, <2>7 DEF SendsNext
  <2>9. \E n \in Message :
           /\ inbox' = [inbox EXCEPT ![c] = Append(inbox[c], n)]
           /\ n.req = r /\ n.cid = answer[r].stamp /\ SendsNext(r, n)
    BY <2>1, <2>2, <2>5, <2>8, Zenon
  <2> QED BY <1>0, <2>4, <2>6, <2>9, Zenon
<1> QED BY <1>3, <1>4, <1>5

(* Every step keeps the types. *)
LEMMA StepType == TypeOK /\ [Next]_vars => TypeOK'
<1> SUFFICES ASSUME TypeOK, [Next]_vars PROVE TypeOK'
  OBVIOUS
<1> USE NamesAssumption DEF socketVars, clientVars
<1>1. ASSUME NEW r \in Requests, Arrive(r) PROVE TypeOK'
  BY <1>1 DEF Arrive, Move, TypeOK, RequestState, Result, SessionRow
<1>2. ASSUME NEW r \in Requests, Write(r) PROVE TypeOK'
  <2>1. /\ ws \in Sockets /\ pc' = [pc EXCEPT ![r] = "sending"]
        /\ target' = [target EXCEPT ![r] = ws]
        /\ UNCHANGED <<socketVars, streams, session, rcid, body, seen, result>>
        /\ answer' \in [Requests -> AnswerRow]
    BY <1>2, WriteFacts
  <2> QED BY <2>1 DEF TypeOK, RequestState
<1>3. ASSUME NEW r \in Requests, SendFailed(r) PROVE TypeOK'
  BY <1>3 DEF SendFailed, Finish, Move, TypeOK, RequestState, Result, SessionRow
<1>4. ASSUME NEW r \in Requests, Sent(r) PROVE TypeOK'
  BY <1>4 DEF Sent, Move, TypeOK, RequestState, Result, SessionRow
<1>5. ASSUME NEW r \in Requests, StartTimeout(r) PROVE TypeOK'
  BY <1>5 DEF StartTimeout, Finish, Move, TypeOK, RequestState, Result, SessionRow
<1>6. ASSUME NEW r \in Requests, Started(r) PROVE TypeOK'
  BY <1>6 DEF Started, Move, TypeOK, RequestState, Result, SessionRow
<1>7. ASSUME NEW r \in Requests, Iterate(r) PROVE TypeOK'
  BY <1>7 DEF Iterate, Move, TypeOK, RequestState, Result, SessionRow
<1>8. ASSUME NEW r \in Requests, LeaveEarly(r) PROVE TypeOK'
  BY <1>8 DEF LeaveEarly, Move, TypeOK, RequestState, Result, SessionRow
<1>9. ASSUME NEW r \in Requests, LeaveDuring(r) PROVE TypeOK'
  BY <1>9 DEF LeaveDuring, Finish, Move, TypeOK, RequestState, Result, SessionRow
<1>10. ASSUME NEW r \in Requests, TakeChunk(r) PROVE TypeOK'
  <2>1. /\ pc[r] = "body" /\ Queue(r) # <<>> /\ Head(Queue(r)) # None
        /\ body' = [body EXCEPT ![r] = Append(body[r], Head(Queue(r)))]
        /\ session' = [session EXCEPT ![r].chunks = Tail(session[r].chunks)]
    BY <1>10 DEF TakeChunk
  <2>2. Queue(r) \in Seq(Entry)
    BY QueueType
  <2>3. Head(Queue(r)) \in Chunks /\ Tail(Queue(r)) \in Seq(Entry)
    BY <2>1, <2>2, HeadTailProperties DEF Entry
  <2>4. Append(body[r], Head(Queue(r))) \in Seq(Chunks)
    BY <2>3, AppendProperties DEF TypeOK
  <2>5. session' \in [Requests -> SessionRow]
    BY <2>1, <2>3 DEF TypeOK, SessionRow, Queue, Entry
  <2>6. body' \in [Requests -> Seq(Chunks)]
    BY <2>1, <2>4 DEF TypeOK
  <2> QED BY <1>10, <2>5, <2>6 DEF TakeChunk, TypeOK
<1>11. ASSUME NEW r \in Requests, TakeEnd(r) PROVE TypeOK'
  <2>1. /\ Queue(r) # <<>>
        /\ session' = [session EXCEPT ![r].chunks = Tail(session[r].chunks)]
    BY <1>11 DEF TakeEnd
  <2>2. Tail(Queue(r)) \in Seq(Entry)
    BY <2>1, QueueType, HeadTailProperties
  <2>3. session' \in [Requests -> SessionRow]
    BY <2>1, <2>2 DEF TypeOK, SessionRow, Queue, Entry
  <2> QED BY <1>11, <2>3 DEF TakeEnd, EndOfQueue, Finish, Move, TypeOK, RequestState, Result
<1>12. ASSUME NEW r \in Requests, Stalled(r) PROVE TypeOK'
  BY <1>12 DEF Stalled, Finish, Move, TypeOK, RequestState, Result, SessionRow
<1>13. ASSUME NEW c \in Sockets, Connect(c) PROVE TypeOK'
  BY <1>13 DEF Connect, TypeOK, SocketState, HandlerState
<1>14. ASSUME NEW c \in Sockets, Opened(c) PROVE TypeOK'
  BY <1>14 DEF Opened, TypeOK, HandlerState
<1>15. ASSUME NEW c \in Sockets, Receive(c) PROVE TypeOK'
  <2>1. PICK m \in Message :
          /\ m.req \in Requests
          /\ inbox[c] \in Seq(Message) /\ inbox[c] # <<>>
          /\ inbox' = [inbox EXCEPT ![c] = Tail(inbox[c])]
          /\ UNCHANGED <<ws, sock, hcid, pc, clientVars, answer>>
          /\ hpc' \in [Sockets -> HandlerState]
          /\ \/ session' = session /\ streams' = streams
             \/ /\ session' = [session EXCEPT ![m.req] = After(session[m.req], m)]
                /\ streams' = IF m.type = "end" THEN streams \ {m.req} ELSE streams
    BY <1>15, ReceiveFacts
  <2>2. inbox' \in [Sockets -> Seq(Message)]
    <3>1. Tail(inbox[c]) \in Seq(Message)
      BY <2>1, HeadTailProperties
    <3> QED BY <2>1, <3>1 DEF TypeOK
  <2>3. session' \in [Requests -> SessionRow]
    <3>1. session \in [Requests -> SessionRow] /\ session[m.req] \in SessionRow
      BY <2>1 DEF TypeOK
    <3>2. After(session[m.req], m) \in SessionRow
      BY <3>1, AfterFacts
    <3> QED BY <2>1, <3>1, <3>2
  <2>4. streams' \subseteq Requests
    BY <2>1 DEF TypeOK
  <2> QED BY <2>1, <2>2, <2>3, <2>4 DEF TypeOK
<1>16. ASSUME NEW c \in Sockets, Disconnected(c) PROVE TypeOK'
  <2>1. /\ sock' = [sock EXCEPT ![c] = "closed"] /\ hpc' = [hpc EXCEPT ![c] = "done"]
        /\ UNCHANGED <<hcid, inbox, pc, clientVars, answer>>
        /\ session' \in [Requests -> SessionRow]
        /\ (ws' = None /\ streams' = {}) \/ UNCHANGED <<ws, streams>>
    BY <1>16, DisconnectedFacts
  <2> QED BY <2>1 DEF TypeOK, SocketState, HandlerState
<1>17. ASSUME NEW c \in Sockets, Drop(c) PROVE TypeOK'
  BY <1>17 DEF Drop, TypeOK, SocketState
<1>18. ASSUME NEW c \in Sockets, NEW r \in Requests, AgentStart(c, r) PROVE TypeOK'
  <2>1. PICK m \in Message : inbox' = [inbox EXCEPT ![c] = Append(inbox[c], m)]
    <3>1. AgentStart(c, r) \/ AgentChunk(c, r) \/ AgentEnd(c, r)
      BY <1>18
    <3> HIDE DEF TypeOK
    <3> QED BY <3>1, SentFacts
  <2>2. inbox' \in [Sockets -> Seq(Message)]
    <3>1. Append(inbox[c], m) \in Seq(Message)
      BY AppendProperties DEF TypeOK
    <3> QED BY <2>1, <3>1 DEF TypeOK
  <2>3. answer' \in [Requests -> AnswerRow]
    BY <1>18, SentFacts
  <2>4. UNCHANGED <<ws, sock, hpc, hcid, streams, session, pc, clientVars>>
    BY <1>18, SentFacts
  <2> QED BY <2>2, <2>3, <2>4 DEF TypeOK
<1>19. ASSUME NEW c \in Sockets, NEW r \in Requests, AgentChunk(c, r) PROVE TypeOK'
  <2>1. PICK m \in Message : inbox' = [inbox EXCEPT ![c] = Append(inbox[c], m)]
    <3>1. AgentStart(c, r) \/ AgentChunk(c, r) \/ AgentEnd(c, r)
      BY <1>19
    <3> HIDE DEF TypeOK
    <3> QED BY <3>1, SentFacts
  <2>2. inbox' \in [Sockets -> Seq(Message)]
    <3>1. Append(inbox[c], m) \in Seq(Message)
      BY AppendProperties DEF TypeOK
    <3> QED BY <2>1, <3>1 DEF TypeOK
  <2>3. answer' \in [Requests -> AnswerRow]
    BY <1>19, SentFacts
  <2>4. UNCHANGED <<ws, sock, hpc, hcid, streams, session, pc, clientVars>>
    BY <1>19, SentFacts
  <2> QED BY <2>2, <2>3, <2>4 DEF TypeOK
<1>20. ASSUME NEW c \in Sockets, NEW r \in Requests, AgentEnd(c, r) PROVE TypeOK'
  <2>1. PICK m \in Message : inbox' = [inbox EXCEPT ![c] = Append(inbox[c], m)]
    <3>1. AgentStart(c, r) \/ AgentChunk(c, r) \/ AgentEnd(c, r)
      BY <1>20
    <3> HIDE DEF TypeOK
    <3> QED BY <3>1, SentFacts
  <2>2. inbox' \in [Sockets -> Seq(Message)]
    <3>1. Append(inbox[c], m) \in Seq(Message)
      BY AppendProperties DEF TypeOK
    <3> QED BY <2>1, <3>1 DEF TypeOK
  <2>3. answer' \in [Requests -> AnswerRow]
    BY <1>20, SentFacts
  <2>4. UNCHANGED <<ws, sock, hpc, hcid, streams, session, pc, clientVars>>
    BY <1>20, SentFacts
  <2> QED BY <2>2, <2>3, <2>4 DEF TypeOK
<1>21. CASE UNCHANGED vars
  BY <1>21 DEF vars, TypeOK
<1> QED BY <1>1, <1>2, <1>3, <1>4, <1>5, <1>6, <1>7, <1>8, <1>9, <1>10, <1>11,
         <1>12, <1>13, <1>14, <1>15, <1>16, <1>17, <1>18, <1>19, <1>20, <1>21
         DEF Next, RelayStep, ClientStep

-----------------------------------------------------------------------------
(* What is in flight *)

(* What was sent of an answer depends on that answer alone.                 *)
LEMMA RanksStay ==
    ASSUME NEW q \in Requests, answer'[q] = answer[q]
    PROVE  SentRanks(q)' = SentRanks(q)
BY DEF SentRanks

(* Nothing changes for what is in flight in a step that moves no message    *)
(* and asks nothing of the agent.                                           *)
LEMMA MailStays ==
    ASSUME MailInv, UNCHANGED <<inbox, target, answer>>
    PROVE  MailInv'
BY DEF MailInv, SentRanks, Rank

(* The agent has sent nothing of an answer it was not asked for.            *)
LEMMA NothingSent ==
    ASSUME TypeOK, AgentInv, NEW r \in Requests, ~answer[r].begun
    PROVE  SentRanks(r) = {}
<1>1. answer[r].sent = 0 /\ ~answer[r].ended
  BY DEF AgentInv
<1> QED BY <1>1 DEF SentRanks

(* The next message of an answer comes after all that were sent.            *)
LEMMA NextRank ==
    ASSUME TypeOK, AgentInv, NEW r \in Requests, NEW m \in Message, SendsNext(r, m)
    PROVE  /\ SentRanks(r)' = SentRanks(r) \cup {Rank(m)}
           /\ Rank(m) \in 0 .. MaxChunks + 1
           /\ \A k \in SentRanks(r) : k < Rank(m)
<1>1. answer[r] \in AnswerRow /\ answer[r].sent \in 0 .. MaxChunks
  BY DEF TypeOK, AnswerRow
<1>2. CASE m.type = "start" /\ ~answer[r].begun /\ answer'[r] = [answer[r] EXCEPT !.begun = TRUE]
  <2>1. /\ answer'[r].begun /\ answer'[r].sent = answer[r].sent
        /\ answer'[r].ended = answer[r].ended
    BY <1>1, <1>2 DEF AnswerRow
  <2>2. Rank(m) = 0
    BY <1>2 DEF Rank
  <2>3. SentRanks(r) = {} /\ answer[r].sent = 0 /\ ~answer[r].ended
    BY <1>2, NothingSent DEF AgentInv
  <2>4. SentRanks(r)' = {0}
    BY <2>1, <2>3, BoundsAssumption DEF SentRanks
  <2> QED BY <2>2, <2>3, <2>4, BoundsAssumption
<1>3. CASE /\ m.type = "chunk" /\ m.n = answer[r].sent + 1
           /\ answer[r].begun /\ ~answer[r].ended
           /\ answer'[r] = [answer[r] EXCEPT !.sent = answer[r].sent + 1]
  <2>1. /\ answer'[r].begun = answer[r].begun /\ answer'[r].sent = answer[r].sent + 1
        /\ answer'[r].ended = answer[r].ended
    BY <1>1, <1>3 DEF AnswerRow
  <2>2. Rank(m) = answer[r].sent + 1 /\ Rank(m) \in 1 .. MaxChunks
    BY <1>3 DEF Rank, Message, Chunks
  <2>3. SentRanks(r) = 0 .. answer[r].sent
    BY <1>1, <1>3, BoundsAssumption DEF SentRanks
  <2>4. SentRanks(r)' = 0 .. answer[r].sent + 1
    BY <1>1, <1>3, <2>1, <2>2, BoundsAssumption DEF SentRanks
  <2> QED BY <1>1, <2>2, <2>3, <2>4, BoundsAssumption
<1>4. CASE /\ m.type = "end" /\ answer[r].begun /\ ~answer[r].ended
           /\ answer'[r] = [answer[r] EXCEPT !.ended = TRUE]
  <2>1. /\ answer'[r].begun = answer[r].begun /\ answer'[r].sent = answer[r].sent
        /\ answer'[r].ended
    BY <1>1, <1>4 DEF AnswerRow
  <2>2. Rank(m) = MaxChunks + 1
    BY <1>4 DEF Rank
  <2>3. SentRanks(r) = 0 .. answer[r].sent
    BY <1>1, <1>4, BoundsAssumption DEF SentRanks
  <2>4. SentRanks(r)' = (0 .. answer[r].sent) \cup {MaxChunks + 1}
    BY <1>1, <1>4, <2>1, BoundsAssumption DEF SentRanks
  <2> QED BY <1>1, <2>2, <2>3, <2>4, BoundsAssumption
<1> QED BY <1>2, <1>3, <1>4 DEF SendsNext

(* What the agent sends goes behind all it sent before.                     *)
LEMMA MailGrows ==
    ASSUME IInv, NEW c \in Sockets, NEW r \in Requests,
           AgentStart(c, r) \/ AgentChunk(c, r) \/ AgentEnd(c, r)
    PROVE  MailInv'
<1> USE DEF IInv
<1>1. PICK m \in Message :
        /\ inbox' = [inbox EXCEPT ![c] = Append(inbox[c], m)]
        /\ m.req = r /\ m.cid = answer[r].stamp /\ SendsNext(r, m)
  BY SentFacts
<1>2. /\ UNCHANGED <<ws, sock, hpc, hcid, streams, session, pc, clientVars>>
      /\ answer[r].roams \/ c = target[r]
      /\ \A q \in Requests \ {r} : answer'[q] = answer[q]
      /\ answer'[r].stamp = answer[r].stamp /\ answer'[r].roams = answer[r].roams
  BY SentFacts
<1>3. /\ SentRanks(r)' = SentRanks(r) \cup {Rank(m)}
      /\ \A k \in SentRanks(r) : k < Rank(m)
  BY <1>1, NextRank
<1>4. ASSUME NEW q \in Requests
      PROVE  /\ answer'[q].stamp = answer[q].stamp /\ answer'[q].roams = answer[q].roams
             /\ target'[q] = target[q] /\ SentRanks(q) \subseteq SentRanks(q)'
  BY <1>2, <1>3, RanksStay DEF clientVars
<1>5. /\ Len(inbox[c]) \in Nat /\ Len(inbox'[c]) = Len(inbox[c]) + 1
      /\ \A i \in 1 .. Len(inbox[c]) : inbox'[c][i] = inbox[c][i]
      /\ inbox'[c][Len(inbox[c]) + 1] = m
  BY <1>1, AppendProperties, LenProperties DEF TypeOK
<1>6. \A d \in Sockets \ {c} : inbox'[d] = inbox[d]
  BY <1>1 DEF TypeOK
<1>7. ASSUME NEW d \in Sockets, NEW i \in 1 .. Len(inbox'[d])
      PROVE  \/ i \in 1 .. Len(inbox[d]) /\ inbox'[d][i] = inbox[d][i]
             \/ d = c /\ i = Len(inbox[c]) + 1 /\ inbox'[d][i] = m
  BY <1>5, <1>6
<1>8. ASSUME NEW d \in Sockets, NEW q \in Requests, NEW i \in 1 .. Len(inbox'[d]),
             inbox'[d][i].req = q
      PROVE  /\ inbox'[d][i].cid = answer'[q].stamp
             /\ Rank(inbox'[d][i]) \in SentRanks(q)'
             /\ answer'[q].roams \/ d = target'[q]
  <2>1. CASE i \in 1 .. Len(inbox[d]) /\ inbox'[d][i] = inbox[d][i]
    BY <1>4, <1>8, <2>1 DEF MailInv
  <2>2. CASE d = c /\ inbox'[d][i] = m
    BY <1>1, <1>2, <1>3, <1>4, <1>8, <2>2
  <2> QED BY <1>7, <2>1, <2>2
<1>9. ASSUME NEW d \in Sockets, NEW q \in Requests, NEW i \in 1 .. Len(inbox'[d]),
              NEW j \in 1 .. Len(inbox'[d]), i < j, inbox'[d][i].req = q, inbox'[d][j].req = q
       PROVE  Rank(inbox'[d][i]) < Rank(inbox'[d][j])
  <2>1. i \in 1 .. Len(inbox[d]) /\ inbox'[d][i] = inbox[d][i]
    BY <1>5, <1>7, <1>9
  <2>2. CASE j \in 1 .. Len(inbox[d]) /\ inbox'[d][j] = inbox[d][j]
    BY <1>9, <2>1, <2>2 DEF MailInv
  <2>3. CASE d = c /\ inbox'[d][j] = m
    BY <1>1, <1>3, <1>9, <2>1, <2>3 DEF MailInv
  <2> QED BY <1>7, <2>2, <2>3
<1> QED BY <1>8, <1>9 DEF MailInv

(* Messages are delivered from the front, in the order they were sent, and *)
(* the agent puts the next one behind.                                      *)
LEMMA StepMail == IInv /\ [Next]_vars => MailInv'
<1> SUFFICES ASSUME IInv, [Next]_vars PROVE MailInv'
  OBVIOUS
<1> USE DEF IInv, socketVars, clientVars
<1>1. ASSUME NEW r \in Requests, Arrive(r) PROVE MailInv'
  BY <1>1, MailStays DEF Arrive, Move
<1>2. ASSUME NEW r \in Requests, Write(r) PROVE MailInv'
  <2>1. /\ ws \in Sockets /\ pc[r] = "lock"
        /\ target' = [target EXCEPT ![r] = ws] /\ inbox' = inbox
        /\ \A q \in Requests \ {r} : answer'[q] = answer[q]
    BY <1>2, WriteFacts
  <2>2. SentRanks(r) = {}
    BY <2>1, NothingSent DEF AgentInv
  <2>3. ASSUME NEW c \in Sockets, NEW q \in Requests, NEW i \in 1 .. Len(inbox[c]),
               inbox[c][i].req = q
        PROVE  /\ inbox[c][i].cid = answer'[q].stamp
               /\ Rank(inbox[c][i]) \in SentRanks(q)'
               /\ answer'[q].roams \/ c = target'[q]
    <3>1. /\ inbox[c][i].cid = answer[q].stamp /\ Rank(inbox[c][i]) \in SentRanks(q)
          /\ answer[q].roams \/ c = target[q]
      BY <2>3 DEF MailInv
    <3>2. q # r
      BY <2>2, <3>1
    <3>3. answer'[q] = answer[q] /\ target'[q] = target[q] /\ SentRanks(q)' = SentRanks(q)
      BY <2>1, <3>2, RanksStay DEF TypeOK
    <3> QED BY <3>1, <3>3
  <2> QED BY <2>1, <2>3 DEF MailInv
<1>3. ASSUME NEW r \in Requests, SendFailed(r) PROVE MailInv'
  BY <1>3, MailStays DEF SendFailed, Finish, Move
<1>4. ASSUME NEW r \in Requests, Sent(r) PROVE MailInv'
  BY <1>4, MailStays DEF Sent, Move
<1>5. ASSUME NEW r \in Requests, StartTimeout(r) PROVE MailInv'
  BY <1>5, MailStays DEF StartTimeout, Finish, Move
<1>6. ASSUME NEW r \in Requests, Started(r) PROVE MailInv'
  BY <1>6, MailStays DEF Started, Move
<1>7. ASSUME NEW r \in Requests, Iterate(r) PROVE MailInv'
  BY <1>7, MailStays DEF Iterate, Move
<1>8. ASSUME NEW r \in Requests, LeaveEarly(r) PROVE MailInv'
  BY <1>8, MailStays DEF LeaveEarly, Move
<1>9. ASSUME NEW r \in Requests, LeaveDuring(r) PROVE MailInv'
  BY <1>9, MailStays DEF LeaveDuring, Finish, Move
<1>10. ASSUME NEW r \in Requests, TakeChunk(r) PROVE MailInv'
  BY <1>10, MailStays DEF TakeChunk
<1>11. ASSUME NEW r \in Requests, TakeEnd(r) PROVE MailInv'
  BY <1>11, MailStays DEF TakeEnd, EndOfQueue, Finish, Move
<1>12. ASSUME NEW r \in Requests, Stalled(r) PROVE MailInv'
  BY <1>12, MailStays DEF Stalled, Finish, Move
<1>13. ASSUME NEW c \in Sockets, Connect(c) PROVE MailInv'
  BY <1>13, MailStays DEF Connect
<1>14. ASSUME NEW c \in Sockets, Opened(c) PROVE MailInv'
  BY <1>14, MailStays DEF Opened
<1>15. ASSUME NEW c \in Sockets, Receive(c) PROVE MailInv'
  <2>1. PICK m \in Message :
          /\ inbox[c] \in Seq(Message) /\ inbox[c] # <<>>
          /\ inbox' = [inbox EXCEPT ![c] = Tail(inbox[c])]
          /\ UNCHANGED <<ws, sock, hcid, pc, clientVars, answer>>
    BY <1>15, ReceiveFacts
  <2>2. /\ Len(inbox'[c]) \in Nat /\ Len(inbox[c]) = Len(inbox'[c]) + 1
        /\ \A i \in 1 .. Len(inbox'[c]) : inbox'[c][i] = inbox[c][i + 1]
    BY <2>1, HeadTailProperties, EmptySeq DEF TypeOK
  <2>3. \A d \in Sockets \ {c} : inbox'[d] = inbox[d]
    BY <2>1 DEF TypeOK
  <2>4. \A q \in Requests : SentRanks(q)' = SentRanks(q)
    BY <2>1 DEF SentRanks
  <2>5. UNCHANGED <<target, answer>>
    BY <2>1 DEF clientVars
  <2>6. ASSUME NEW i \in 1 .. Len(inbox'[c])
        PROVE  i + 1 \in 1 .. Len(inbox[c]) /\ inbox'[c][i] = inbox[c][i + 1]
    BY <2>2
  <2>7. ASSUME NEW d \in Sockets, NEW q \in Requests, NEW i \in 1 .. Len(inbox'[d]),
               inbox'[d][i].req = q
        PROVE  /\ inbox'[d][i].cid = answer[q].stamp
               /\ Rank(inbox'[d][i]) \in SentRanks(q)
               /\ answer[q].roams \/ d = target[q]
    BY <2>3, <2>6, <2>7 DEF MailInv
  <2>8. ASSUME NEW d \in Sockets, NEW q \in Requests, NEW i \in 1 .. Len(inbox'[d]),
               NEW j \in 1 .. Len(inbox'[d]), i < j, inbox'[d][i].req = q, inbox'[d][j].req = q
        PROVE  Rank(inbox'[d][i]) < Rank(inbox'[d][j])
    <3>1. CASE d = c
      BY <2>6, <2>8, <3>1 DEF MailInv
    <3>2. CASE d # c
      BY <2>3, <2>8, <3>2 DEF MailInv
    <3> QED BY <3>1, <3>2
  <2> QED BY <2>4, <2>5, <2>7, <2>8 DEF MailInv, Rank
<1>16. ASSUME NEW c \in Sockets, Disconnected(c) PROVE MailInv'
  BY <1>16, DisconnectedFacts, MailStays
<1>17. ASSUME NEW c \in Sockets, Drop(c) PROVE MailInv'
  BY <1>17, MailStays DEF Drop
<1>18. ASSUME NEW c \in Sockets, NEW r \in Requests, AgentStart(c, r) PROVE MailInv'
  BY <1>18, MailGrows
<1>19. ASSUME NEW c \in Sockets, NEW r \in Requests, AgentChunk(c, r) PROVE MailInv'
  BY <1>19, MailGrows
<1>20. ASSUME NEW c \in Sockets, NEW r \in Requests, AgentEnd(c, r) PROVE MailInv'
  BY <1>20, MailGrows
<1>21. CASE UNCHANGED vars
  BY <1>21, MailStays DEF vars
<1> QED BY <1>1, <1>2, <1>3, <1>4, <1>5, <1>6, <1>7, <1>8, <1>9, <1>10, <1>11,
         <1>12, <1>13, <1>14, <1>15, <1>16, <1>17, <1>18, <1>19, <1>20, <1>21
         DEF Next, RelayStep, ClientStep

-----------------------------------------------------------------------------
(* What came through and what is in flight *)

(* Nothing changes for a request that moves nothing, between its session    *)
(* and the body or out of flight.                                           *)
LEMMA DeliveryStays ==
    ASSUME DeliveryInv, NEW c \in Sockets, NEW r \in Requests,
           Live(c, r)' => Live(c, r), answer'[r] = answer[r], inbox'[c] = inbox[c],
           session'[r].status = session[r].status,
           Len(body'[r]) + Len(session'[r].chunks) = Len(body[r]) + Len(session[r].chunks),
           Live(c, r)', NEW k \in SentRanks(r)'
    PROVE  (Taken(r, k) <=> ~InFlight(c, r, k))'
<1>1. Taken(r, k) <=> ~InFlight(c, r, k)
  BY RanksStay DEF DeliveryInv
<1>2. Taken(r, k)' <=> Taken(r, k)
  BY DEF Taken, Queue
<1>3. InFlight(c, r, k)' <=> InFlight(c, r, k)
  BY DEF InFlight
<1> QED BY <1>1, <1>2, <1>3

(* Nor does it in a step that only lets go of sessions and sockets.         *)
LEMMA DeliveryQuiet ==
    ASSUME DeliveryInv, UNCHANGED <<inbox, target, session, body, answer, hcid>>,
           streams' \subseteq streams,
           \A c \in Sockets :
               hpc'[c] \in {"idle", "opening"} => hpc[c] \in {"idle", "opening"}
    PROVE  DeliveryInv'
<1>1. ASSUME NEW c \in Sockets, NEW r \in Requests, Live(c, r)' PROVE Live(c, r)
  BY <1>1 DEF Live
<1> QED BY <1>1, DeliveryStays DEF DeliveryInv

(* The first message for a live stream that its coroutine has not received  *)
(* is the next one: all before it came through, it has not.                 *)
LEMMA HeadIsNext ==
    ASSUME IInv, NEW c \in Sockets, NEW r \in Requests, Live(c, r),
           inbox[c] # <<>>, Head(inbox[c]).req = r
    PROVE  /\ Rank(Head(inbox[c])) \in SentRanks(r)
           /\ ~Taken(r, Rank(Head(inbox[c])))
           /\ \A k \in SentRanks(r) : k < Rank(Head(inbox[c])) => Taken(r, k)
<1> USE DEF IInv
<1>1. /\ inbox[c] \in Seq(Message) /\ Len(inbox[c]) \in Nat \ {0}
      /\ Head(inbox[c]) = inbox[c][1]
  BY HeadTailProperties, EmptySeq DEF TypeOK
<1>2. PICK m : m = Head(inbox[c])
  OBVIOUS
<1>3. 1 \in 1 .. Len(inbox[c]) /\ inbox[c][1] = m /\ m.req = r
  BY <1>1, <1>2
<1>4. Rank(m) \in SentRanks(r)
  BY <1>3 DEF MailInv
<1>5. InFlight(c, r, Rank(m))
  BY <1>3 DEF InFlight
<1>6. ASSUME NEW k \in SentRanks(r), k < Rank(m) PROVE ~InFlight(c, r, k)
  <2>1. SUFFICES ASSUME NEW i \in 1 .. Len(inbox[c]), inbox[c][i].req = r,
                        Rank(inbox[c][i]) = k
                 PROVE  FALSE
    BY DEF InFlight
  <2>2. k \in Nat /\ Rank(m) \in Nat
    BY <1>4, BoundsAssumption DEF SentRanks
  <2>3. i # 1
    BY <1>3, <1>6, <2>1, <2>2
  <2>4. Rank(m) < k
    BY <1>1, <1>3, <2>1, <2>3 DEF MailInv
  <2> QED BY <1>6, <2>2, <2>4
<1> QED BY <1>2, <1>4, <1>5, <1>6 DEF DeliveryInv

(* What the body and the queue of a stream in the table hold was sent.      *)
LEMMA HeldIsSent ==
    ASSUME IInv, NEW r \in streams, ~answer[r].roams
    PROVE  /\ Len(body[r]) + Len(Queue(r)) <= answer[r].sent
           /\ ~EndIn(Queue(r))
<1> USE DEF IInv
<1>1. r \in Requests /\ Queue(r) \in Seq(Entry) /\ body[r] \in Seq(Chunks)
  BY QueueType DEF TypeOK
<1>2. Len(Queue(r)) \in Nat /\ Len(body[r]) \in Nat /\ answer[r].sent \in Nat
  <2>1. answer[r].sent \in 0 .. MaxChunks
    BY <1>1 DEF TypeOK, AnswerRow
  <2> QED BY <1>1, <2>1, LenProperties, BoundsAssumption
<1>3. \A i \in 1 .. Len(Queue(r)) : Queue(r)[i] # None
  BY <1>1 DEF ChunksInv, ChunksOf
<1>4. Len(body[r]) + Len(Queue(r)) <= answer[r].sent
  <2>1. Len(body[r]) <= answer[r].sent
    BY <1>1 DEF ChunksInv, ChunksOf
  <2>2. CASE Len(Queue(r)) = 0
    BY <1>2, <2>1, <2>2
  <2>3. CASE Len(Queue(r)) # 0
    <3>1. Len(Queue(r)) \in 1 .. Len(Queue(r))
      BY <1>2, <2>3
    <3> QED BY <1>1, <1>3, <3>1 DEF ChunksInv, ChunksOf
  <2> QED BY <2>2, <2>3
<1> QED BY <1>3, <1>4 DEF EndIn

(* A message that is heeded, of an answer that keeps to its socket, is for a *)
(* live stream.                                                             *)
LEMMA HeededIsLive ==
    ASSUME IInv, NEW c \in Sockets, NEW m, inbox[c] # <<>>, m = Head(inbox[c]),
           m.req \in streams, m.cid \in {None, hcid[c]}, ~answer[m.req].roams
    PROVE  Live(c, m.req) /\ m.cid = answer[m.req].stamp /\ Rank(m) \in SentRanks(m.req)
<1> USE DEF IInv
<1>1. PICK r \in Requests : r = m.req
  BY DEF TypeOK
<1>2. 1 \in 1 .. Len(inbox[c]) /\ inbox[c][1] = m
  BY HeadTailProperties, EmptySeq DEF TypeOK
<1>3. m.cid = answer[r].stamp /\ Rank(m) \in SentRanks(r) /\ c = target[r]
  BY <1>1, <1>2 DEF MailInv
<1>4. answer[r].begun
  BY <1>1, <1>3, NothingSent
<1>5. answer[r].asked
  BY <1>1, <1>4 DEF AgentInv
<1> QED BY <1>1, <1>3, <1>5 DEF Live

(* The chunk received is the one that follows all the session holds.        *)
LEMMA ChunkIsNext ==
    ASSUME IInv, NEW c \in Sockets, NEW r \in Requests, Live(c, r), NEW m \in Message,
           inbox[c] # <<>>, m = Head(inbox[c]), m.req = r, m.type = "chunk"
    PROVE  m.n = Len(body[r]) + Len(Queue(r)) + 1 /\ m.n <= answer[r].sent
<1> USE DEF IInv
<1>1. m.n \in 1 .. MaxChunks /\ Rank(m) = m.n
  BY DEF Message, Chunks, Rank
<1>2. Rank(m) \in SentRanks(r) /\ ~Taken(r, Rank(m))
  BY HeadIsNext
<1>3. \A k \in SentRanks(r) : k < m.n => Taken(r, k)
  BY <1>1, HeadIsNext
<1>4. answer[r].sent \in 0 .. MaxChunks /\ Len(body[r]) \in Nat /\ Len(Queue(r)) \in Nat
  BY LenProperties, QueueType DEF TypeOK, AnswerRow
<1>5. m.n <= answer[r].sent /\ m.n > Len(body[r]) + Len(Queue(r))
  BY <1>1, <1>2, <1>4, BoundsAssumption DEF SentRanks, Taken
<1>6. m.n # 1 => m.n - 1 \in SentRanks(r) /\ m.n - 1 # 0
  BY <1>1, <1>4, <1>5, BoundsAssumption DEF SentRanks
<1>7. m.n # 1 => m.n - 1 <= Len(body[r]) + Len(Queue(r))
  BY <1>1, <1>3, <1>6 DEF Taken
<1> QED BY <1>1, <1>4, <1>5, <1>7

(* The end is received when the session holds the whole answer.             *)
LEMMA EndIsLast ==
    ASSUME IInv, NEW c \in Sockets, NEW r \in Requests, Live(c, r), NEW m \in Message,
           inbox[c] # <<>>, m = Head(inbox[c]), m.req = r, m.type = "end"
    PROVE  /\ answer[r].ended /\ session[r].status = "agent"
           /\ Len(body[r]) + Len(Queue(r)) = answer[r].sent
<1> USE DEF IInv
<1>1. Rank(m) = MaxChunks + 1
  BY DEF Rank
<1>2. Rank(m) \in SentRanks(r)
  BY HeadIsNext
<1>3. \A k \in SentRanks(r) : k < MaxChunks + 1 => Taken(r, k)
  BY <1>1, HeadIsNext
<1>4. answer[r].sent \in 0 .. MaxChunks /\ Len(body[r]) \in Nat /\ Len(Queue(r)) \in Nat
  BY LenProperties, QueueType DEF TypeOK, AnswerRow
<1>5. answer[r].ended
  BY <1>1, <1>2, <1>4, BoundsAssumption DEF SentRanks
<1>6. 0 \in SentRanks(r)
  <2>1. answer[r].begun
    BY <1>2, NothingSent
  <2> QED BY <2>1, BoundsAssumption DEF SentRanks
<1>7. session[r].status = "agent"
  BY <1>3, <1>6, BoundsAssumption DEF Taken
<1>8. answer[r].sent # 0 => answer[r].sent \in SentRanks(r)
  BY <1>4, BoundsAssumption DEF SentRanks
<1>9. answer[r].sent <= Len(body[r]) + Len(Queue(r))
  BY <1>3, <1>4, <1>8, BoundsAssumption DEF Taken
<1>10. Len(body[r]) + Len(Queue(r)) <= answer[r].sent
  BY HeldIsSent DEF Live
<1> QED BY <1>4, <1>5, <1>7, <1>9, <1>10

(* What the reader takes from the front of the queue goes to the body.      *)
LEMMA TakeChunkFacts ==
    ASSUME TypeOK, NEW r \in Requests, TakeChunk(r)
    PROVE  /\ UNCHANGED <<socketVars, streams, pc, rcid, target, seen, result, answer>>
           /\ pc[r] = "body" /\ Queue(r) \in Seq(Entry) /\ Queue(r) # <<>>
           /\ Head(Queue(r)) # None
           /\ session'[r].chunks = Tail(Queue(r))
           /\ session'[r].started = session[r].started
           /\ session'[r].status = session[r].status
           /\ session'[r].lost = session[r].lost
           /\ body'[r] = Append(body[r], Head(Queue(r)))
           /\ \A q \in Requests \ {r} : session'[q] = session[q] /\ body'[q] = body[q]
<1>1. /\ body' = [body EXCEPT ![r] = Append(body[r], Head(Queue(r)))]
      /\ session' = [session EXCEPT ![r].chunks = Tail(session[r].chunks)]
  BY DEF TakeChunk
<1>2. \A q \in Requests \ {r} : session'[q] = session[q] /\ body'[q] = body[q]
  BY <1>1 DEF TypeOK
<1>3. /\ session'[r].chunks = Tail(Queue(r))
      /\ session'[r].started = session[r].started
      /\ session'[r].status = session[r].status
      /\ session'[r].lost = session[r].lost
  BY <1>1 DEF TypeOK, SessionRow, Queue
<1>4. body'[r] = Append(body[r], Head(Queue(r)))
  BY <1>1 DEF TypeOK
<1> QED BY <1>2, <1>3, <1>4, QueueType DEF TakeChunk

(* A message of a live stream that is received is in its session, and no    *)
(* other message is.                                                        *)
LEMMA DeliveryReceive == ASSUME IInv, NEW c \in Sockets, Receive(c) PROVE DeliveryInv'
<1> USE DEF IInv
<1>1. PICK m \in Message :
        /\ m = Head(inbox[c]) /\ m.req \in Requests
        /\ inbox[c] \in Seq(Message) /\ inbox[c] # <<>>
        /\ hpc[c] = "loop"
        /\ inbox' = [inbox EXCEPT ![c] = Tail(inbox[c])]
        /\ UNCHANGED <<ws, sock, hcid, pc, clientVars, answer>>
        /\ \A d \in Sockets : hpc'[d] = hpc[d] \/ (hpc[d] = "loop" /\ hpc'[d] = "done")
        /\ \A q \in Requests : q # m.req => session'[q] = session[q]
        /\ \/ /\ session' = session /\ streams' = streams
              /\ m.req \notin streams \/ m.cid \notin {None, hcid[c]}
           \/ /\ m.req \in streams
              /\ m.cid \in {None, hcid[c]}
              /\ session'[m.req] = After(session[m.req], m)
              /\ streams' = IF m.type = "end" THEN streams \ {m.req} ELSE streams
  BY ReceiveFacts
<1>2. UNCHANGED <<target, body, answer, hcid>>
  BY <1>1 DEF clientVars
<1>3. /\ Len(inbox[c]) = Len(inbox'[c]) + 1 /\ Len(inbox'[c]) \in Nat
      /\ \A i \in 1 .. Len(inbox'[c]) : inbox'[c][i] = inbox[c][i + 1]
      /\ inbox[c][1] = m
  BY <1>1, HeadTailProperties, EmptySeq DEF TypeOK
<1>4. \A d \in Sockets \ {c} : inbox'[d] = inbox[d]
  BY <1>1 DEF TypeOK
<1>5. ASSUME NEW d \in Sockets, NEW r \in Requests, Live(d, r)'
      PROVE  Live(d, r)
  BY <1>1, <1>2, <1>5 DEF Live
<1>6. ASSUME NEW r \in Requests, NEW k
      PROVE  InFlight(c, r, k) <=> InFlight(c, r, k)' \/ (m.req = r /\ Rank(m) = k)
  <2>1. ASSUME NEW i \in 1 .. Len(inbox[c]), inbox[c][i].req = r, Rank(inbox[c][i]) = k
        PROVE  InFlight(c, r, k)' \/ (m.req = r /\ Rank(m) = k)
    <3>1. CASE i = 1
      BY <1>3, <2>1, <3>1
    <3>2. CASE i # 1
      <4>1. i - 1 \in 1 .. Len(inbox'[c]) /\ inbox'[c][i - 1] = inbox[c][i]
        BY <1>3, <3>2
      <4> QED BY <2>1, <4>1 DEF InFlight
    <3> QED BY <3>1, <3>2
  <2>2. ASSUME NEW i \in 1 .. Len(inbox'[c]), inbox'[c][i].req = r, Rank(inbox'[c][i]) = k
        PROVE  InFlight(c, r, k)
    <3>1. i + 1 \in 1 .. Len(inbox[c]) /\ inbox'[c][i] = inbox[c][i + 1]
      BY <1>3
    <3> QED BY <2>2, <3>1 DEF InFlight
  <2>3. m.req = r /\ Rank(m) = k => InFlight(c, r, k)
    BY <1>3 DEF InFlight
  <2> QED BY <2>1, <2>2, <2>3 DEF InFlight
<1>7. ASSUME NEW d \in Sockets, NEW r \in Requests, Live(d, r)', NEW k \in SentRanks(r)',
             d # c \/ r # m.req
      PROVE  (Taken(r, k) <=> ~InFlight(d, r, k))'
  <2>1. Taken(r, k) <=> ~InFlight(d, r, k)
    BY <1>2, <1>5, <1>7, RanksStay DEF DeliveryInv
  <2>2. session'[r] = session[r]
    <3>1. CASE r # m.req
      BY <1>1, <3>1
    <3>2. CASE r = m.req
      <4>1. target[r] # c /\ ~answer[r].roams
        BY <1>5, <1>7, <3>2 DEF Live
      <4>2. FALSE
        <5>1. 1 \in 1 .. Len(inbox[c]) /\ inbox[c][1].req = r
          BY <1>3, <3>2
        <5> QED BY <4>1, <5>1 DEF MailInv
      <4> QED BY <4>2
    <3> QED BY <3>1, <3>2
  <2>3. Taken(r, k)' <=> Taken(r, k)
    BY <1>2, <2>2 DEF Taken, Queue
  <2>4. InFlight(d, r, k)' <=> InFlight(d, r, k)
    <3>1. CASE d = c
      BY <1>6, <1>7, <3>1
    <3>2. CASE d # c
      BY <1>4, <3>2 DEF InFlight
    <3> QED BY <3>1, <3>2
  <2> QED BY <2>1, <2>3, <2>4
<1>8. ASSUME NEW r \in Requests, r = m.req, Live(c, r)', NEW k \in SentRanks(r)'
      PROVE  (Taken(r, k) <=> ~InFlight(c, r, k))'
  <2>1. Live(c, r) /\ k \in SentRanks(r)
    BY <1>2, <1>5, <1>8, RanksStay
  <2>2. Taken(r, k) <=> ~InFlight(c, r, k)
    BY <2>1 DEF DeliveryInv
  <2>3. m.cid = answer[r].stamp /\ Rank(m) \in SentRanks(r)
    <3>1. 1 \in 1 .. Len(inbox[c]) /\ inbox[c][1].req = r
      BY <1>3, <1>8
    <3> QED BY <1>3, <3>1 DEF MailInv
  <2>4. /\ session'[r] = After(session[r], m) /\ m.type # "end"
    <3>1. r \in streams /\ m.cid \in {None, hcid[c]}
      BY <1>1, <2>1, <2>3 DEF Live
    <3>2. r \in streams'
      BY <1>8 DEF Live
    <3> QED BY <1>1, <1>8, <3>1, <3>2
  <2>5. session[r] \in SessionRow /\ Len(body[r]) \in Nat /\ Len(Queue(r)) \in Nat
    BY LenProperties, QueueType DEF TypeOK
  <2>6. ~InFlight(c, r, Rank(m))'
    <3>1. ASSUME NEW i \in 1 .. Len(inbox'[c]), inbox'[c][i].req = r,
                 Rank(inbox'[c][i]) = Rank(m)
          PROVE  FALSE
      <4>1. PICK j \in 1 .. Len(inbox[c]) :
              /\ 1 \in 1 .. Len(inbox[c]) /\ 1 < j
              /\ inbox[c][j].req = r /\ Rank(inbox[c][j]) = Rank(m)
        BY <1>3, <3>1
      <4>2. Rank(inbox[c][1]) < Rank(inbox[c][j])
        BY <1>3, <1>8, <4>1 DEF MailInv
      <4>3. Rank(m) \in Nat
        BY <2>3, BoundsAssumption DEF SentRanks
      <4> QED BY <1>3, <4>1, <4>2, <4>3
    <3> QED BY <3>1 DEF InFlight
  <2>7. InFlight(c, r, k)' <=> InFlight(c, r, k) /\ k # Rank(m)
    BY <1>6, <1>8, <2>6
  <2>8. k \in Nat
    BY <2>1, BoundsAssumption DEF SentRanks
  <2>9. Taken(r, k)' <=> Taken(r, k) \/ k = Rank(m)
    <3>1. CASE m.type = "start"
      <4>1. Rank(m) = 0
        BY <3>1 DEF Rank
      <4>2. session'[r].status = "agent" /\ session'[r].chunks = session[r].chunks
        BY <2>4, <2>5, <3>1, AfterFacts
      <4> QED BY <1>2, <4>1, <4>2 DEF Taken, Queue
    <3>2. CASE m.type = "chunk"
      <4>1. Rank(m) = m.n /\ m.n \in 1 .. MaxChunks
        BY <3>2 DEF Rank, Message, Chunks
      <4>2. m.n = Len(body[r]) + Len(Queue(r)) + 1
        BY <1>1, <1>8, <2>1, <3>2, ChunkIsNext
      <4>3. /\ session'[r].status = session[r].status
            /\ session'[r].chunks = Append(session[r].chunks, m.n)
        BY <2>4, <2>5, <3>2, AfterFacts
      <4>4. Len(session'[r].chunks) = Len(Queue(r)) + 1
        BY <2>5, <4>3, AppendProperties DEF Queue, SessionRow
      <4>5. CASE k = 0
        BY <4>1, <4>3, <4>5 DEF Taken
      <4>6. CASE k # 0
        <5>1. Taken(r, k)' <=> k <= Len(body[r]) + Len(Queue(r)) + 1
          <6>1. Taken(r, k)' <=> k <= Len(body[r]) + Len(session'[r].chunks)
            BY <1>2, <4>6 DEF Taken, Queue
          <6>2. \A a, b \in Nat : a + (b + 1) = a + b + 1
            OBVIOUS
          <6>3. Len(body[r]) + Len(session'[r].chunks) = Len(body[r]) + Len(Queue(r)) + 1
            BY <2>5, <4>4, <6>2
          <6> QED BY <6>1, <6>3
        <5>2. Taken(r, k) <=> k <= Len(body[r]) + Len(Queue(r))
          BY <4>6 DEF Taken
        <5> QED BY <2>5, <2>8, <4>1, <4>2, <5>1, <5>2
      <4> QED BY <4>5, <4>6
    <3> QED BY <2>4, <3>1, <3>2 DEF Message
  <2> QED BY <2>2, <2>7, <2>9
<1> QED BY <1>7, <1>8 DEF DeliveryInv

(* What the agent sends is in flight, and had not come through.             *)
LEMMA DeliveryGrows ==
    ASSUME IInv, NEW c \in Sockets, NEW r \in Requests,
           AgentStart(c, r) \/ AgentChunk(c, r) \/ AgentEnd(c, r)
    PROVE  DeliveryInv'
<1> USE DEF IInv
<1>1. PICK m \in Message :
        /\ inbox' = [inbox EXCEPT ![c] = Append(inbox[c], m)]
        /\ m.req = r /\ m.cid = answer[r].stamp /\ SendsNext(r, m)
  BY SentFacts
<1>2. /\ UNCHANGED <<ws, sock, hpc, hcid, streams, session, pc, clientVars>>
      /\ answer[r].roams \/ c = target[r]
      /\ \A q \in Requests \ {r} : answer'[q] = answer[q]
      /\ answer'[r].stamp = answer[r].stamp /\ answer'[r].roams = answer[r].roams
      /\ answer'[r].asked = answer[r].asked
  BY SentFacts
<1>3. UNCHANGED <<target, body>>
  BY <1>2 DEF clientVars
<1>4. /\ SentRanks(r)' = SentRanks(r) \cup {Rank(m)}
      /\ Rank(m) \in 0 .. MaxChunks + 1
      /\ \A k \in SentRanks(r) : k < Rank(m)
  BY <1>1, NextRank
<1>5. /\ Len(inbox[c]) \in Nat /\ Len(inbox'[c]) = Len(inbox[c]) + 1
      /\ \A i \in 1 .. Len(inbox[c]) : inbox'[c][i] = inbox[c][i]
      /\ inbox'[c][Len(inbox[c]) + 1] = m
  BY <1>1, AppendProperties, LenProperties DEF TypeOK
<1>6. \A d \in Sockets \ {c} : inbox'[d] = inbox[d]
  BY <1>1 DEF TypeOK
<1>7. ASSUME NEW q \in Requests, NEW k
      PROVE  InFlight(c, q, k)' <=> InFlight(c, q, k) \/ (q = r /\ k = Rank(m))
  <2>1. ASSUME NEW i \in 1 .. Len(inbox'[c]), inbox'[c][i].req = q, Rank(inbox'[c][i]) = k
        PROVE  InFlight(c, q, k) \/ (q = r /\ k = Rank(m))
    <3>1. CASE i = Len(inbox[c]) + 1
      BY <1>1, <1>5, <2>1, <3>1
    <3>2. CASE i # Len(inbox[c]) + 1
      <4>1. i \in 1 .. Len(inbox[c])
        BY <1>5, <3>2
      <4> QED BY <1>5, <2>1, <4>1 DEF InFlight
    <3> QED BY <3>1, <3>2
  <2>2. ASSUME NEW i \in 1 .. Len(inbox[c]), inbox[c][i].req = q, Rank(inbox[c][i]) = k
        PROVE  InFlight(c, q, k)'
    <3>1. i \in 1 .. Len(inbox'[c]) /\ inbox'[c][i] = inbox[c][i]
      BY <1>5
    <3> QED BY <2>2, <3>1 DEF InFlight
  <2>3. q = r /\ k = Rank(m) => InFlight(c, q, k)'
    <3>1. Len(inbox[c]) + 1 \in 1 .. Len(inbox'[c])
      BY <1>5
    <3> QED BY <1>1, <1>5, <3>1 DEF InFlight
  <2> QED BY <2>1, <2>2, <2>3 DEF InFlight
<1>8. ASSUME NEW d \in Sockets, NEW q \in Requests, Live(d, q)'
      PROVE  Live(d, q)
  BY <1>2, <1>3, <1>8 DEF Live
<1>9. ASSUME NEW q \in Requests, NEW k PROVE Taken(q, k)' <=> Taken(q, k)
  BY <1>2, <1>3 DEF Taken, Queue
<1>10. ASSUME NEW d \in Sockets, NEW q \in Requests, Live(d, q)', NEW k \in SentRanks(q)',
              q # r \/ k \in SentRanks(r)
       PROVE  (Taken(q, k) <=> ~InFlight(d, q, k))'
  <2>1. k \in SentRanks(q)
    BY <1>2, <1>10, RanksStay
  <2>2. Taken(q, k) <=> ~InFlight(d, q, k)
    BY <1>8, <1>10, <2>1 DEF DeliveryInv
  <2>3. InFlight(d, q, k)' <=> InFlight(d, q, k)
    <3>1. CASE d # c
      BY <1>6, <3>1 DEF InFlight
    <3>2. CASE d = c
      <4>1. q = r => k < Rank(m) /\ k \in Nat /\ Rank(m) \in Nat
        BY <1>4, <1>10, <2>1, BoundsAssumption DEF SentRanks
      <4>2. ~(q = r /\ k = Rank(m))
        BY <4>1
      <4> QED BY <1>7, <3>2, <4>2
    <3> QED BY <3>1, <3>2
  <2> QED BY <1>9, <2>2, <2>3
<1>11. ASSUME NEW d \in Sockets, Live(d, r)'
       PROVE  (Taken(r, Rank(m)) <=> ~InFlight(d, r, Rank(m)))'
  <2>1. Live(d, r) /\ d = c /\ r \in streams /\ ~answer[r].roams
    BY <1>2, <1>8, <1>11 DEF Live
  <2>2. InFlight(d, r, Rank(m))'
    BY <1>7, <2>1
  <2>3. /\ Len(body[r]) \in Nat /\ Len(Queue(r)) \in Nat /\ answer[r].sent \in 0 .. MaxChunks
        /\ Len(body[r]) + Len(Queue(r)) <= answer[r].sent
    BY <2>1, HeldIsSent, LenProperties, QueueType DEF TypeOK, AnswerRow
  <2>4. ~Taken(r, Rank(m))
    <3>1. CASE m.type = "start"
      <4>1. Rank(m) = 0 /\ ~answer[r].begun
        BY <1>1, <3>1 DEF Rank, SendsNext
      <4> QED BY <4>1 DEF Taken, ChunksInv, ChunksOf
    <3>2. CASE m.type = "chunk"
      <4>1. Rank(m) = answer[r].sent + 1
        BY <1>1, <3>2 DEF Rank, SendsNext
      <4> QED BY <2>3, <4>1, BoundsAssumption DEF Taken
    <3>3. CASE m.type = "end"
      <4>1. Rank(m) = MaxChunks + 1
        BY <3>3 DEF Rank
      <4> QED BY <2>3, <4>1, BoundsAssumption DEF Taken
    <3> QED BY <3>1, <3>2, <3>3 DEF Message
  <2> QED BY <1>9, <2>2, <2>4
<1>12. ASSUME NEW d \in Sockets, NEW q \in Requests, Live(d, q)', NEW k \in SentRanks(q)'
       PROVE  (Taken(q, k) <=> ~InFlight(d, q, k))'
  BY <1>4, <1>10, <1>11, <1>12
<1> QED BY <1>12 DEF DeliveryInv

(* Nothing of a live stream is lost, and nothing comes twice.               *)
LEMMA StepDelivery == IInv /\ [Next]_vars => DeliveryInv'
<1> SUFFICES ASSUME IInv, [Next]_vars PROVE DeliveryInv'
  OBVIOUS
<1> USE DEF IInv, socketVars, clientVars
<1>1. ASSUME NEW r \in Requests, Arrive(r) PROVE DeliveryInv'
  <2>1. /\ UNCHANGED <<inbox, hpc, hcid, session, target, body, answer>>
        /\ streams' = streams \cup {r} /\ ~answer[r].asked
    BY <1>1 DEF Arrive, Move, AgentInv
  <2>2. ASSUME NEW c \in Sockets, NEW q \in Requests, Live(c, q)' PROVE Live(c, q)
    BY <2>1, <2>2 DEF Live
  <2> QED BY <2>1, <2>2, DeliveryStays DEF DeliveryInv
<1>2. ASSUME NEW r \in Requests, Write(r) PROVE DeliveryInv'
  <2>1. /\ UNCHANGED <<inbox, hpc, hcid, session, streams, body>> /\ pc[r] = "lock"
        /\ target' = [target EXCEPT ![r] = ws]
        /\ \A q \in Requests \ {r} : answer'[q] = answer[q]
        /\ answer'[r].begun = answer[r].begun /\ answer'[r].sent = answer[r].sent
        /\ answer'[r].ended = answer[r].ended
    BY <1>2, WriteFacts
  <2>2. SentRanks(r)' = {}
    <3>1. ~answer[r].begun /\ answer[r].sent = 0 /\ ~answer[r].ended
      BY <2>1 DEF AgentInv
    <3> QED BY <2>1, <3>1 DEF SentRanks
  <2>3. ASSUME NEW c \in Sockets, NEW q \in Requests \ {r}, Live(c, q)' PROVE Live(c, q)
    BY <2>1, <2>3 DEF Live, TypeOK
  <2>4. ASSUME NEW c \in Sockets, NEW q \in Requests \ {r}, Live(c, q)',
               NEW k \in SentRanks(q)'
        PROVE  (Taken(q, k) <=> ~InFlight(c, q, k))'
    BY <2>1, <2>3, <2>4, DeliveryStays
  <2> QED BY <2>2, <2>4 DEF DeliveryInv
<1>3. ASSUME NEW r \in Requests, SendFailed(r) PROVE DeliveryInv'
  BY <1>3, DeliveryQuiet DEF SendFailed, Finish, Move
<1>4. ASSUME NEW r \in Requests, Sent(r) PROVE DeliveryInv'
  BY <1>4, DeliveryQuiet DEF Sent, Move
<1>5. ASSUME NEW r \in Requests, StartTimeout(r) PROVE DeliveryInv'
  BY <1>5, DeliveryQuiet DEF StartTimeout, Finish, Move
<1>6. ASSUME NEW r \in Requests, Started(r) PROVE DeliveryInv'
  BY <1>6, DeliveryQuiet DEF Started, Move
<1>7. ASSUME NEW r \in Requests, Iterate(r) PROVE DeliveryInv'
  BY <1>7, DeliveryQuiet DEF Iterate, Move
<1>8. ASSUME NEW r \in Requests, LeaveEarly(r) PROVE DeliveryInv'
  BY <1>8, DeliveryQuiet DEF LeaveEarly, Move
<1>9. ASSUME NEW r \in Requests, LeaveDuring(r) PROVE DeliveryInv'
  BY <1>9, DeliveryQuiet DEF LeaveDuring, Finish, Move
<1>10. ASSUME NEW r \in Requests, TakeChunk(r) PROVE DeliveryInv'
  <2>1. /\ UNCHANGED <<inbox, hpc, hcid, streams, target, answer>>
        /\ Queue(r) \in Seq(Entry) /\ Queue(r) # <<>> /\ Head(Queue(r)) # None
        /\ session'[r].chunks = Tail(Queue(r)) /\ session'[r].status = session[r].status
        /\ body'[r] = Append(body[r], Head(Queue(r)))
        /\ \A q \in Requests \ {r} : session'[q] = session[q] /\ body'[q] = body[q]
    BY <1>10, TakeChunkFacts
  <2>2. /\ Len(Tail(Queue(r))) = Len(Queue(r)) - 1 /\ Len(Queue(r)) \in Nat
        /\ Head(Queue(r)) \in Chunks
    BY <2>1, HeadTailProperties, LenProperties DEF Entry
  <2>3. Len(body'[r]) = Len(body[r]) + 1 /\ Len(body[r]) \in Nat
    BY <2>1, <2>2, AppendProperties, LenProperties DEF TypeOK
  <2>4. Len(body'[r]) + Len(session'[r].chunks) = Len(body[r]) + Len(session[r].chunks)
    <3>1. Len(session'[r].chunks) = Len(Queue(r)) - 1
      BY <2>1, <2>2
    <3>2. \A a, b \in Nat : (a + 1) + (b - 1) = a + b
      OBVIOUS
    <3>3. Len(body'[r]) + Len(session'[r].chunks) = Len(body[r]) + Len(Queue(r))
      BY <2>2, <2>3, <3>1, <3>2
    <3> QED BY <3>3 DEF Queue
  <2>5. ASSUME NEW c \in Sockets, NEW q \in Requests, Live(c, q)' PROVE Live(c, q)
    BY <2>1, <2>5 DEF Live
  <2>6. ASSUME NEW q \in Requests
        PROVE  /\ session'[q].status = session[q].status
               /\ Len(body'[q]) + Len(session'[q].chunks) = Len(body[q]) + Len(session[q].chunks)
    BY <2>1, <2>4
  <2> QED BY <2>1, <2>5, <2>6, DeliveryStays DEF DeliveryInv
<1>11. ASSUME NEW r \in Requests, TakeEnd(r) PROVE DeliveryInv'
  <2>1. /\ UNCHANGED <<inbox, hpc, hcid, target, body, answer>>
        /\ streams' = streams \ {r}
        /\ \A q \in Requests \ {r} : session'[q] = session[q]
    BY <1>11 DEF TakeEnd, Finish, Move, TypeOK
  <2>2. ASSUME NEW c \in Sockets, NEW q \in Requests, Live(c, q)'
        PROVE  Live(c, q) /\ session'[q] = session[q]
    BY <2>1, <2>2 DEF Live
  <2> QED BY <2>1, <2>2, DeliveryStays DEF DeliveryInv
<1>12. ASSUME NEW r \in Requests, Stalled(r) PROVE DeliveryInv'
  BY <1>12, DeliveryQuiet DEF Stalled, Finish, Move
<1>13. ASSUME NEW c \in Sockets, Connect(c) PROVE DeliveryInv'
  <2>1. hpc' = [hpc EXCEPT ![c] = "opening"] /\ hpc[c] = "idle" /\ streams' = streams
        /\ UNCHANGED <<inbox, target, session, body, answer, hcid>>
    BY <1>13 DEF Connect, SocketInv
  <2>2. \A d \in Sockets :
           hpc'[d] \in {"idle", "opening"} => hpc[d] \in {"idle", "opening"}
    BY <2>1 DEF TypeOK
  <2> QED BY <2>1, <2>2, DeliveryQuiet
<1>14. ASSUME NEW c \in Sockets, Opened(c) PROVE DeliveryInv'
  <2>1. /\ hpc[c] = "opening" /\ UNCHANGED <<inbox, session, streams, target, body, answer>>
        /\ \A d \in Sockets \ {c} : hpc'[d] = hpc[d] /\ hcid'[d] = hcid[d]
    BY <1>14 DEF Opened, TypeOK
  <2>2. ASSUME NEW d \in Sockets, NEW r \in Requests, Live(d, r)' PROVE Live(d, r)
    BY <2>1, <2>2 DEF Live
  <2> QED BY <2>1, <2>2, DeliveryStays DEF DeliveryInv
<1>15. ASSUME NEW c \in Sockets, Receive(c) PROVE DeliveryInv'
  BY <1>15, DeliveryReceive
<1>16. ASSUME NEW c \in Sockets, Disconnected(c) PROVE DeliveryInv'
  <2>1. CASE ws # c
    <3>1. /\ hpc' = [hpc EXCEPT ![c] = "done"] /\ UNCHANGED <<streams, session>>
          /\ UNCHANGED <<inbox, target, body, answer, hcid>>
      BY <1>16, <2>1, DisconnectedFacts DEF clientVars
    <3>2. \A d \in Sockets :
             hpc'[d] \in {"idle", "opening"} => hpc[d] \in {"idle", "opening"}
      BY <3>1 DEF TypeOK
    <3> QED BY <3>1, <3>2, DeliveryQuiet
  <2>2. CASE ws = c
    <3>1. streams' = {}
      BY <1>16, <2>2, DisconnectedFacts
    <3> QED BY <3>1 DEF DeliveryInv, Live
  <2> QED BY <2>1, <2>2
<1>17. ASSUME NEW c \in Sockets, Drop(c) PROVE DeliveryInv'
  BY <1>17, DeliveryQuiet DEF Drop
<1>18. ASSUME NEW c \in Sockets, NEW r \in Requests, AgentStart(c, r) PROVE DeliveryInv'
  BY <1>18, DeliveryGrows
<1>19. ASSUME NEW c \in Sockets, NEW r \in Requests, AgentChunk(c, r) PROVE DeliveryInv'
  BY <1>19, DeliveryGrows
<1>20. ASSUME NEW c \in Sockets, NEW r \in Requests, AgentEnd(c, r) PROVE DeliveryInv'
  BY <1>20, DeliveryGrows
<1>21. CASE UNCHANGED vars
  BY <1>21, DeliveryQuiet DEF vars
<1> QED BY <1>1, <1>2, <1>3, <1>4, <1>5, <1>6, <1>7, <1>8, <1>9, <1>10, <1>11,
         <1>12, <1>13, <1>14, <1>15, <1>16, <1>17, <1>18, <1>19, <1>20, <1>21
         DEF Next, RelayStep, ClientStep

-----------------------------------------------------------------------------
(* The queue and the body *)

(* A session stays in order while its request and its answer go on without  *)
(* it.                                                                      *)
LEMMA ChunksStay ==
    ASSUME TypeOK, TypeOK', ChunksInv, NEW r \in Requests,
           session'[r] = session[r], body'[r] = body[r], r \in streams' => r \in streams,
           answer'[r].roams = answer[r].roams, answer[r].begun => answer'[r].begun,
           answer[r].sent <= answer'[r].sent
    PROVE  ChunksOf(r)'
<1>1. ChunksOf(r) /\ Queue(r)' = Queue(r)
  BY DEF ChunksInv, Queue
<1>2. /\ answer[r].sent \in Nat /\ answer'[r].sent \in Nat /\ Len(body[r]) \in Nat
      /\ \A i \in 1 .. Len(Queue(r)) : Queue(r)[i] # None => Queue(r)[i] \in Nat
  <2>1. answer[r].sent \in 0 .. MaxChunks /\ answer'[r].sent \in 0 .. MaxChunks
    BY DEF TypeOK, AnswerRow
  <2>2. \A i \in 1 .. Len(Queue(r)) : Queue(r)[i] \in Entry
    BY QueueType
  <2> QED BY <2>1, <2>2, LenProperties, BoundsAssumption DEF TypeOK, Entry, Chunks
<1> QED BY <1>1, <1>2 DEF ChunksOf

(* So it does in a step that lets go of sessions and moves no chunk.        *)
LEMMA ChunksQuiet ==
    ASSUME IInv, TypeOK', UNCHANGED <<session, body, answer>>, streams' \subseteq streams
    PROVE  ChunksInv'
<1> USE DEF IInv
<1>1. ASSUME NEW r \in Requests PROVE ChunksOf(r)'
  <2>1. answer[r].sent <= answer'[r].sent
    <3>1. answer[r].sent \in 0 .. MaxChunks
      BY DEF TypeOK, AnswerRow
    <3> QED BY <3>1, BoundsAssumption
  <2> QED BY <2>1, ChunksStay
<1> QED BY <1>1 DEF ChunksInv

(* An end put behind the chunks of a session that leaves the table.         *)
LEMMA EndQueued ==
    ASSUME TypeOK, NEW r \in Requests, ChunksOf(r), r \in streams, r \notin streams',
           session'[r].status = session[r].status,
           session'[r].chunks = Append(Queue(r), None),
           UNCHANGED <<body, answer>>
    PROVE  ChunksOf(r)'
<1>1. Queue(r) \in Seq(Entry) /\ Len(Queue(r)) \in Nat
  BY QueueType, LenProperties
<1>2. /\ Len(Queue(r)') = Len(Queue(r)) + 1
      /\ Queue(r)'[Len(Queue(r)) + 1] = None
      /\ \A i \in 1 .. Len(Queue(r)) : Queue(r)'[i] = Queue(r)[i]
  BY <1>1, AppendProperties DEF Queue, Entry
<1>3. \A i \in 1 .. Len(Queue(r)) : Queue(r)[i] # None
  BY DEF ChunksOf
<1>4. ASSUME NEW i \in 1 .. Len(Queue(r)')
      PROVE  i = Len(Queue(r)') \/ (i \in 1 .. Len(Queue(r)) /\ Queue(r)'[i] = Queue(r)[i])
  BY <1>1, <1>2
<1> QED BY <1>2, <1>3, <1>4 DEF ChunksOf

(* The chunk a live stream receives is the one that follows the last; the   *)
(* end is received once, and takes the session out.                         *)
LEMMA ChunksReceive == ASSUME IInv, TypeOK', NEW c \in Sockets, Receive(c) PROVE ChunksInv'
<1> USE DEF IInv
<1>1. PICK m \in Message :
        /\ m = Head(inbox[c]) /\ m.req \in Requests
        /\ inbox[c] # <<>>
        /\ UNCHANGED <<body, answer>>
        /\ \A q \in Requests : q # m.req => session'[q] = session[q]
        /\ \/ session' = session /\ streams' = streams
           \/ /\ m.req \in streams
              /\ m.cid \in {None, hcid[c]}
              /\ session'[m.req] = After(session[m.req], m)
              /\ streams' = IF m.type = "end" THEN streams \ {m.req} ELSE streams
  BY ReceiveFacts DEF clientVars
<1>2. ASSUME NEW r \in Requests, session'[r] = session[r] PROVE ChunksOf(r)'
  <2>1. answer[r].sent \in 0 .. MaxChunks
    BY DEF TypeOK, AnswerRow
  <2>2. answer[r].sent <= answer'[r].sent /\ (r \in streams' => r \in streams)
    BY <1>1, <2>1, BoundsAssumption
  <2> QED BY <1>1, <1>2, <2>2, ChunksStay
<1>3. ASSUME NEW r \in Requests, r = m.req, r \in streams, m.cid \in {None, hcid[c]},
             session'[r] = After(session[r], m),
             streams' = IF m.type = "end" THEN streams \ {r} ELSE streams
      PROVE  ChunksOf(r)'
  <2>1. /\ session[r] \in SessionRow /\ Queue(r) \in Seq(Entry)
        /\ Len(Queue(r)) \in Nat /\ Len(body[r]) \in Nat
    BY QueueType, LenProperties DEF TypeOK
  <2>2. ChunksOf(r)
    BY DEF ChunksInv
  <2>3. CASE m.type = "start"
    <3>1. session'[r].status = "agent" /\ session'[r].chunks = session[r].chunks
      BY <1>3, <2>1, <2>3, AfterFacts
    <3>2. answer[r].begun
      <4>1. 1 \in 1 .. Len(inbox[c]) /\ inbox[c][1].req = r
        BY <1>1, <1>3, HeadTailProperties, EmptySeq DEF TypeOK
      <4>2. Rank(inbox[c][1]) \in SentRanks(r)
        BY <4>1 DEF MailInv
      <4> QED BY <4>2, NothingSent
    <3>3. Queue(r)' = Queue(r) /\ streams' = streams
      BY <1>3, <2>3, <3>1 DEF Queue
    <3> QED BY <1>1, <2>2, <3>2, <3>3 DEF ChunksOf
  <2>4. CASE m.type = "chunk"
    <3>1. /\ session'[r].status = session[r].status
          /\ session'[r].chunks = Append(Queue(r), m.n)
      <4>1. /\ After(session[r], m).status = session[r].status
            /\ After(session[r], m).chunks = Append(session[r].chunks, m.n)
        BY <2>1, <2>4, AfterFacts
      <4> QED BY <1>3, <4>1 DEF Queue
    <3>2. m.n \in Chunks /\ m.n \in Entry /\ m.n # None
      BY <2>4, NamesAssumption DEF Message, Entry, Chunks
    <3>3. /\ Len(Queue(r)') = Len(Queue(r)) + 1
          /\ Queue(r)'[Len(Queue(r)) + 1] = m.n
          /\ \A i \in 1 .. Len(Queue(r)) : Queue(r)'[i] = Queue(r)[i]
      BY <2>1, <3>1, <3>2, AppendProperties DEF Queue
    <3>4. \A i \in 1 .. Len(Queue(r)) : Queue(r)[i] # None
      BY <1>3, <2>2 DEF ChunksOf
    <3>5. \A i \in 1 .. Len(Queue(r)') : Queue(r)'[i] # None
      BY <2>1, <3>2, <3>3, <3>4
    <3>6. ASSUME ~answer[r].roams
          PROVE  m.n = Len(body[r]) + Len(Queue(r)) + 1 /\ m.n <= answer[r].sent
      <4>1. Live(c, r)
        BY <1>1, <1>3, <3>6, HeededIsLive
      <4> QED BY <1>1, <1>3, <2>4, <4>1, ChunkIsNext
    <3>7. ASSUME ~answer[r].roams, NEW i \in 1 .. Len(Queue(r)')
          PROVE  Queue(r)'[i] = Len(body[r]) + i /\ Queue(r)'[i] <= answer[r].sent
      <4>1. CASE i = Len(Queue(r)) + 1
        <5>1. \A a, b \in Nat : a + b + 1 = a + (b + 1)
          OBVIOUS
        <5>2. m.n = Len(body[r]) + i /\ m.n <= answer[r].sent
          BY <2>1, <3>6, <3>7, <4>1, <5>1
        <5> QED BY <3>3, <4>1, <5>2
      <4>2. CASE i # Len(Queue(r)) + 1
        <5>1. i \in 1 .. Len(Queue(r))
          BY <2>1, <3>3, <4>2
        <5> QED BY <2>2, <3>3, <3>4, <3>7, <5>1 DEF ChunksOf
      <4> QED BY <4>1, <4>2
    <3> QED BY <1>1, <2>2, <3>1, <3>5, <3>7 DEF ChunksOf
  <2>5. CASE m.type = "end"
    <3>1. /\ session'[r].status = session[r].status
          /\ session'[r].chunks = Append(Queue(r), None) /\ r \notin streams'
      BY <1>3, <2>1, <2>5, AfterFacts DEF Queue
    <3> QED BY <1>1, <2>1, <2>2, <3>1, EndQueued DEF Queue
  <2> QED BY <2>3, <2>4, <2>5 DEF Message
<1> QED BY <1>1, <1>2, <1>3 DEF ChunksInv

(* Chunks enter the queue and leave it for the body in the order of the     *)
(* answer.                                                                  *)
LEMMA StepChunks == IInv /\ [Next]_vars => ChunksInv'
<1> SUFFICES ASSUME IInv, [Next]_vars PROVE ChunksInv'
  OBVIOUS
<1>0. TypeOK'
  BY StepType DEF IInv
<1> USE <1>0 DEF IInv, socketVars, clientVars
<1>1. ASSUME NEW r \in Requests, Arrive(r) PROVE ChunksInv'
  <2>1. /\ UNCHANGED <<session, body, answer>> /\ streams' = streams \cup {r}
        /\ session[r] = Fresh
    BY <1>1 DEF Arrive, Move, LifeInv
  <2>2. ASSUME NEW q \in Requests, q # r PROVE ChunksOf(q)'
    <3>1. answer[q].sent \in 0 .. MaxChunks
      BY DEF TypeOK, AnswerRow
    <3>2. answer[q].sent <= answer'[q].sent
      BY <2>1, <3>1, BoundsAssumption
    <3> QED BY <2>1, <2>2, <3>2, ChunksStay
  <2>3. ChunksOf(r)'
    <3>1. Queue(r) = <<>> /\ Queue(r)' = <<>>
      BY <2>1 DEF Fresh, Queue
    <3>2. 1 .. Len(Queue(r)') = {}
      BY <3>1
    <3> QED BY <2>1, <3>2 DEF ChunksInv, ChunksOf
  <2> QED BY <2>2, <2>3 DEF ChunksInv
<1>2. ASSUME NEW r \in Requests, Write(r) PROVE ChunksInv'
  <2>1. /\ UNCHANGED <<session, streams, body>> /\ pc[r] = "lock"
        /\ \A q \in Requests \ {r} : answer'[q] = answer[q]
        /\ answer'[r].begun = answer[r].begun /\ answer'[r].sent = answer[r].sent
    BY <1>2, WriteFacts
  <2>2. ASSUME NEW q \in Requests, q # r PROVE ChunksOf(q)'
    <3>1. answer[q].sent \in 0 .. MaxChunks /\ answer'[q] = answer[q]
      BY <2>1, <2>2 DEF TypeOK, AnswerRow
    <3>2. answer[q].sent <= answer'[q].sent
      BY <3>1, BoundsAssumption
    <3> QED BY <2>1, <2>2, <3>1, <3>2, ChunksStay
  <2>3. ChunksOf(r) /\ ~answer[r].roams
    BY <2>1 DEF ChunksInv, AgentInv
  <2>4. Queue(r)' = Queue(r)
    BY <2>1 DEF Queue
  <2> QED BY <2>1, <2>2, <2>3, <2>4 DEF ChunksInv, ChunksOf
<1>3. ASSUME NEW r \in Requests, SendFailed(r) PROVE ChunksInv'
  BY <1>3, ChunksQuiet DEF SendFailed, Finish, Move
<1>4. ASSUME NEW r \in Requests, Sent(r) PROVE ChunksInv'
  BY <1>4, ChunksQuiet DEF Sent, Move
<1>5. ASSUME NEW r \in Requests, StartTimeout(r) PROVE ChunksInv'
  BY <1>5, ChunksQuiet DEF StartTimeout, Finish, Move
<1>6. ASSUME NEW r \in Requests, Started(r) PROVE ChunksInv'
  BY <1>6, ChunksQuiet DEF Started, Move
<1>7. ASSUME NEW r \in Requests, Iterate(r) PROVE ChunksInv'
  BY <1>7, ChunksQuiet DEF Iterate, Move
<1>8. ASSUME NEW r \in Requests, LeaveEarly(r) PROVE ChunksInv'
  BY <1>8, ChunksQuiet DEF LeaveEarly, Move
<1>9. ASSUME NEW r \in Requests, LeaveDuring(r) PROVE ChunksInv'
  BY <1>9, ChunksQuiet DEF LeaveDuring, Finish, Move
<1>10. ASSUME NEW r \in Requests, TakeChunk(r) PROVE ChunksInv'
  <2>1. /\ UNCHANGED <<streams, answer>>
        /\ Queue(r) \in Seq(Entry) /\ Queue(r) # <<>> /\ Head(Queue(r)) # None
        /\ session'[r].chunks = Tail(Queue(r)) /\ session'[r].status = session[r].status
        /\ body'[r] = Append(body[r], Head(Queue(r)))
        /\ \A q \in Requests \ {r} : session'[q] = session[q] /\ body'[q] = body[q]
    BY <1>10, TakeChunkFacts
  <2>2. ASSUME NEW q \in Requests, q # r PROVE ChunksOf(q)'
    <3>1. answer[q].sent \in 0 .. MaxChunks
      BY DEF TypeOK, AnswerRow
    <3>2. answer[q].sent <= answer'[q].sent
      BY <2>1, <3>1, BoundsAssumption
    <3> QED BY <2>1, <2>2, <3>2, ChunksStay
  <2>3. /\ Len(Queue(r)) \in Nat \ {0} /\ Len(Queue(r)') = Len(Queue(r)) - 1
        /\ \A i \in 1 .. Len(Queue(r)') : Queue(r)'[i] = Queue(r)[i + 1]
        /\ Head(Queue(r)) = Queue(r)[1] /\ Head(Queue(r)) \in Chunks
    BY <2>1, HeadTailProperties, EmptySeq DEF Queue, Entry
  <2>4. /\ Len(body[r]) \in Nat /\ Len(body'[r]) = Len(body[r]) + 1
        /\ \A i \in 1 .. Len(body[r]) : body'[r][i] = body[r][i]
        /\ body'[r][Len(body[r]) + 1] = Queue(r)[1]
    BY <2>1, <2>3, AppendProperties, LenProperties DEF TypeOK
  <2>5. ChunksOf(r)
    BY DEF ChunksInv
  <2>6. ASSUME NEW i \in 1 .. Len(Queue(r)')
        PROVE  /\ i + 1 \in 1 .. Len(Queue(r)) /\ Queue(r)'[i] = Queue(r)[i + 1]
               /\ i + 1 = Len(Queue(r)) <=> i = Len(Queue(r)')
    BY <2>3
  <2>7. \A i \in 1 .. Len(Queue(r)') :
           Queue(r)'[i] = None => i = Len(Queue(r)') /\ r \notin streams'
    BY <2>1, <2>5, <2>6 DEF ChunksOf
  <2>8. ASSUME ~answer[r].roams
        PROVE  /\ Queue(r)[1] = Len(body[r]) + 1 /\ Queue(r)[1] <= answer[r].sent
               /\ \A i \in 1 .. Len(body[r]) : body[r][i] = i
    <3>1. 1 \in 1 .. Len(Queue(r)) /\ Queue(r)[1] # None
      BY <2>1, <2>3
    <3> QED BY <2>5, <2>8, <3>1 DEF ChunksOf
  <2>9. ASSUME ~answer[r].roams, NEW i \in 1 .. Len(body'[r]) PROVE body'[r][i] = i
    <3>1. i \in 1 .. Len(body[r]) \/ i = Len(body[r]) + 1
      BY <2>4
    <3> QED BY <2>4, <2>8, <2>9, <3>1
  <2>10. ASSUME ~answer[r].roams, NEW i \in 1 .. Len(Queue(r)'), Queue(r)'[i] # None
         PROVE  Queue(r)'[i] = Len(body'[r]) + i /\ Queue(r)'[i] <= answer[r].sent
    <3>1. PICK j \in 1 .. Len(Queue(r)) : j = i + 1 /\ Queue(r)'[i] = Queue(r)[j]
      BY <2>6
    <3>2. Queue(r)[j] = Len(body[r]) + j /\ Queue(r)[j] <= answer[r].sent
      BY <2>5, <2>10, <3>1 DEF ChunksOf
    <3>3. \A a, b \in Nat : a + (b + 1) = (a + 1) + b
      OBVIOUS
    <3>4. Len(body[r]) + j = Len(body'[r]) + i
      <4>1. i \in Nat
        BY <2>3
      <4> QED BY <2>4, <3>1, <3>3, <4>1
    <3> QED BY <3>1, <3>2, <3>4
  <2>11. ~answer[r].roams => Len(body'[r]) <= answer[r].sent
    BY <2>4, <2>8
  <2>12. ChunksOf(r)'
    BY <2>1, <2>5, <2>7, <2>9, <2>10, <2>11 DEF ChunksOf
  <2> QED BY <2>2, <2>12 DEF ChunksInv
<1>11. ASSUME NEW r \in Requests, TakeEnd(r) PROVE ChunksInv'
  <2>1. /\ UNCHANGED <<body, answer>> /\ streams' = streams \ {r}
        /\ session' = [session EXCEPT ![r].chunks = Tail(session[r].chunks)]
        /\ Queue(r) # <<>> /\ Head(Queue(r)) = None
    BY <1>11 DEF TakeEnd, Finish, Move
  <2>2. ASSUME NEW q \in Requests, q # r PROVE ChunksOf(q)'
    <3>1. answer[q].sent \in 0 .. MaxChunks
      BY DEF TypeOK, AnswerRow
    <3>2. answer[q].sent <= answer'[q].sent /\ session'[q] = session[q]
      BY <2>1, <2>2, <3>1, BoundsAssumption DEF TypeOK
    <3> QED BY <2>1, <2>2, <3>2, ChunksStay
  <2>3. Queue(r)' = Tail(Queue(r)) /\ session'[r].status = session[r].status
    BY <2>1 DEF Queue, TypeOK, SessionRow
  <2>4. ChunksOf(r)
    BY DEF ChunksInv
  <2>5. Len(Queue(r)) = 1
    <3>1. 1 \in 1 .. Len(Queue(r)) /\ Queue(r)[1] = None
      BY <2>1, QueueType, HeadTailProperties, EmptySeq
    <3> QED BY <2>4, <3>1 DEF ChunksOf
  <2>6. Len(Queue(r)') = 0
    BY <2>1, <2>3, <2>5, QueueType, HeadTailProperties
  <2>7. 1 .. Len(Queue(r)') = {}
    BY <2>6
  <2>8. ChunksOf(r)'
    BY <2>1, <2>3, <2>4, <2>7 DEF ChunksOf
  <2> QED BY <2>2, <2>8 DEF ChunksInv
<1>12. ASSUME NEW r \in Requests, Stalled(r) PROVE ChunksInv'
  BY <1>12, ChunksQuiet DEF Stalled, Finish, Move
<1>13. ASSUME NEW c \in Sockets, Connect(c) PROVE ChunksInv'
  BY <1>13, ChunksQuiet DEF Connect
<1>14. ASSUME NEW c \in Sockets, Opened(c) PROVE ChunksInv'
  BY <1>14, ChunksQuiet DEF Opened
<1>15. ASSUME NEW c \in Sockets, Receive(c) PROVE ChunksInv'
  BY <1>15, ChunksReceive
<1>16. ASSUME NEW c \in Sockets, Disconnected(c) PROVE ChunksInv'
  <2>1. CASE ws # c
    <3>1. UNCHANGED <<streams, session, body, answer>>
      BY <1>16, <2>1, DisconnectedFacts DEF clientVars
    <3> QED BY <3>1, ChunksQuiet
  <2>2. CASE ws = c
    <3>1. /\ streams' = {} /\ UNCHANGED <<body, answer>>
          /\ \A r \in streams : session'[r] = Lost(session[r])
          /\ \A r \in Requests \ streams : session'[r] = session[r]
      BY <1>16, <2>2, DisconnectedFacts DEF clientVars
    <3>2. ASSUME NEW r \in streams PROVE ChunksOf(r)'
      <4>1. r \in Requests /\ session[r] \in SessionRow /\ ChunksOf(r)
        BY DEF TypeOK, ChunksInv
      <4>2. /\ session'[r].status = session[r].status
            /\ session'[r].chunks = Append(Queue(r), None)
        BY <3>1, <4>1, LostFacts DEF Queue
      <4> QED BY <3>1, <4>1, <4>2, EndQueued
    <3>3. ASSUME NEW r \in Requests \ streams PROVE ChunksOf(r)'
      <4>1. answer[r].sent \in 0 .. MaxChunks
        BY DEF TypeOK, AnswerRow
      <4>2. answer[r].sent <= answer'[r].sent
        BY <3>1, <4>1, BoundsAssumption
      <4> QED BY <3>1, <4>2, ChunksStay
    <3> QED BY <3>2, <3>3 DEF ChunksInv
  <2> QED BY <2>1, <2>2
<1>17. ASSUME NEW c \in Sockets, Drop(c) PROVE ChunksInv'
  BY <1>17, ChunksQuiet DEF Drop
<1>18. ASSUME NEW c \in Sockets, NEW r \in Requests, AgentStart(c, r) PROVE ChunksInv'
  <2>1. /\ UNCHANGED <<streams, session, body>>
        /\ \A q \in Requests \ {r} : answer'[q] = answer[q]
        /\ answer'[r].roams = answer[r].roams /\ (answer[r].begun => answer'[r].begun)
        /\ answer[r].sent <= answer'[r].sent
    BY <1>18, SentFacts DEF clientVars
  <2>2. ASSUME NEW q \in Requests
        PROVE  /\ answer'[q].roams = answer[q].roams /\ (answer[q].begun => answer'[q].begun)
               /\ answer[q].sent <= answer'[q].sent
    <3>1. answer[q].sent \in 0 .. MaxChunks
      BY DEF TypeOK, AnswerRow
    <3> QED BY <2>1, <3>1, BoundsAssumption
  <2> QED BY <2>1, <2>2, ChunksStay DEF ChunksInv
<1>19. ASSUME NEW c \in Sockets, NEW r \in Requests, AgentChunk(c, r) PROVE ChunksInv'
  <2>1. /\ UNCHANGED <<streams, session, body>>
        /\ \A q \in Requests \ {r} : answer'[q] = answer[q]
        /\ answer'[r].roams = answer[r].roams /\ (answer[r].begun => answer'[r].begun)
        /\ answer[r].sent <= answer'[r].sent
    BY <1>19, SentFacts DEF clientVars
  <2>2. ASSUME NEW q \in Requests
        PROVE  /\ answer'[q].roams = answer[q].roams /\ (answer[q].begun => answer'[q].begun)
               /\ answer[q].sent <= answer'[q].sent
    <3>1. answer[q].sent \in 0 .. MaxChunks
      BY DEF TypeOK, AnswerRow
    <3> QED BY <2>1, <3>1, BoundsAssumption
  <2> QED BY <2>1, <2>2, ChunksStay DEF ChunksInv
<1>20. ASSUME NEW c \in Sockets, NEW r \in Requests, AgentEnd(c, r) PROVE ChunksInv'
  <2>1. /\ UNCHANGED <<streams, session, body>>
        /\ \A q \in Requests \ {r} : answer'[q] = answer[q]
        /\ answer'[r].roams = answer[r].roams /\ (answer[r].begun => answer'[r].begun)
        /\ answer[r].sent <= answer'[r].sent
    BY <1>20, SentFacts DEF clientVars
  <2>2. ASSUME NEW q \in Requests
        PROVE  /\ answer'[q].roams = answer[q].roams /\ (answer[q].begun => answer'[q].begun)
               /\ answer[q].sent <= answer'[q].sent
    <3>1. answer[q].sent \in 0 .. MaxChunks
      BY DEF TypeOK, AnswerRow
    <3> QED BY <2>1, <3>1, BoundsAssumption
  <2> QED BY <2>1, <2>2, ChunksStay DEF ChunksInv
<1>21. CASE UNCHANGED vars
  BY <1>21, ChunksQuiet DEF vars
<1> QED BY <1>1, <1>2, <1>3, <1>4, <1>5, <1>6, <1>7, <1>8, <1>9, <1>10, <1>11,
         <1>12, <1>13, <1>14, <1>15, <1>16, <1>17, <1>18, <1>19, <1>20, <1>21
         DEF Next, RelayStep, ClientStep

-----------------------------------------------------------------------------
(* The end of a stream *)

(* What is true of the end of a stream stays so while its session and its   *)
(* body stay and its answer only goes on.                                   *)
LEMMA EndStaysOf ==
    ASSUME EndInv, NEW r \in Requests, session'[r] = session[r], body'[r] = body[r],
           answer'[r].roams = answer[r].roams,
           answer[r].ended => answer'[r].ended /\ answer'[r].sent = answer[r].sent,
           pc'[r] \in {"ready", "body"} => seen'[r] = seen[r] /\ pc[r] \in {"ready", "body"}
    PROVE  EndOf(r)'
<1>1. EndOf(r) /\ Queue(r)' = Queue(r)
  BY DEF EndInv, Queue
<1>2. EndIn(Queue(r))' <=> EndIn(Queue(r))
  BY <1>1 DEF EndIn
<1> QED BY <1>1, <1>2 DEF EndOf

(* So it does in a step that moves no chunk and lets no request through.    *)
LEMMA EndQuiet ==
    ASSUME EndInv, UNCHANGED <<session, body, answer>>,
           \A r \in Requests : pc'[r] \in {"ready", "body"} =>
               seen'[r] = seen[r] /\ pc[r] \in {"ready", "body"}
    PROVE  EndInv'
BY EndStaysOf DEF EndInv

(* The end that a live stream receives comes after everything else.         *)
LEMMA EndReceive == ASSUME IInv, NEW c \in Sockets, Receive(c) PROVE EndInv'
<1> USE DEF IInv
<1>1. PICK m \in Message :
        /\ m = Head(inbox[c]) /\ m.req \in Requests
        /\ inbox[c] # <<>>
        /\ UNCHANGED <<pc, body, seen, answer>>
        /\ \A q \in Requests : q # m.req => session'[q] = session[q]
        /\ \/ session' = session
           \/ /\ m.req \in streams
              /\ m.cid \in {None, hcid[c]}
              /\ session'[m.req] = After(session[m.req], m)
  BY ReceiveFacts DEF clientVars
<1>2. ASSUME NEW r \in Requests, session'[r] = session[r] PROVE EndOf(r)'
  BY <1>1, <1>2, EndStaysOf
<1>3. ASSUME NEW r \in Requests, r = m.req, r \in streams, m.cid \in {None, hcid[c]},
             session'[r] = After(session[r], m), ~answer[r].roams, ~session'[r].lost
      PROVE  EndOf(r)'
  <2>1. /\ session[r] \in SessionRow /\ Queue(r) \in Seq(Entry)
        /\ Len(Queue(r)) \in Nat /\ Len(body[r]) \in Nat
    BY QueueType, LenProperties DEF TypeOK
  <2>2. session'[r].lost = session[r].lost
    BY <1>3, <2>1, AfterFacts
  <2>3. EndOf(r) /\ ~session[r].lost
    BY <1>3, <2>2 DEF EndInv
  <2>4. Live(c, r)
    BY <1>1, <1>3, HeededIsLive
  <2>5. ~EndIn(Queue(r))
    BY <1>3, HeldIsSent
  <2>6. CASE m.type = "start"
    <3>1. session'[r].status = "agent" /\ session'[r].chunks = session[r].chunks
      BY <1>3, <2>1, <2>6, AfterFacts
    <3>2. ~EndIn(Queue(r))'
      BY <2>5, <3>1 DEF EndIn, Queue
    <3> QED BY <1>1, <1>3, <2>3, <3>1, <3>2 DEF EndOf
  <2>7. CASE m.type = "chunk"
    <3>1. /\ After(session[r], m).started = session[r].started
          /\ After(session[r], m).status = session[r].status
          /\ After(session[r], m).chunks = Append(session[r].chunks, m.n)
      BY <2>1, <2>7, AfterFacts
    <3>2. m.n \in Entry /\ m.n # None
      BY <2>7, NamesAssumption DEF Message, Entry, Chunks
    <3>3. Queue(r)' = Append(Queue(r), m.n)
      BY <1>3, <3>1 DEF Queue
    <3>4. ~EndIn(Append(Queue(r), m.n))
      BY <2>1, <2>5, <3>2, AppendProperties DEF EndIn
    <3>5. ~EndIn(Queue(r))'
      BY <3>3, <3>4 DEF EndIn
    <3> QED BY <1>1, <1>3, <2>3, <3>1, <3>5 DEF EndOf
  <2>8. CASE m.type = "end"
    <3>1. /\ After(session[r], m).status = session[r].status
          /\ After(session[r], m).chunks = Append(session[r].chunks, None)
      BY <2>1, <2>8, AfterFacts
    <3>2. /\ answer[r].ended /\ session[r].status = "agent"
          /\ Len(body[r]) + Len(Queue(r)) = answer[r].sent
      BY <1>1, <1>3, <2>4, <2>8, EndIsLast
    <3>3. Queue(r)' = Append(Queue(r), None)
      BY <1>3, <3>1 DEF Queue
    <3>4. Len(Queue(r)') = Len(Queue(r)) + 1
      BY <2>1, <3>3, AppendProperties DEF Entry
    <3>5. \A a, b \in Nat : a + (b + 1) = a + b + 1
      OBVIOUS
    <3>6. Len(body[r]) + Len(Queue(r)') = answer[r].sent + 1
      BY <2>1, <3>2, <3>4, <3>5
    <3> QED BY <1>1, <1>3, <2>3, <3>1, <3>2, <3>6 DEF EndOf
  <2> QED BY <2>6, <2>7, <2>8 DEF Message
<1>4. ASSUME NEW r \in Requests PROVE EndOf(r)'
  <2>1. CASE answer[r].roams \/ session'[r].lost
    BY <1>1, <2>1 DEF EndOf
  <2> QED BY <1>1, <1>2, <1>3, <2>1
<1> QED BY <1>4 DEF EndInv

(* An end at the front of a queue is all there is in it.                    *)
LEMMA LastIsEnd ==
    ASSUME TypeOK, ChunksInv, NEW r \in Requests, Queue(r) # <<>>, Head(Queue(r)) = None
    PROVE  Len(Queue(r)) = 1 /\ EndIn(Queue(r))
<1>1. 1 \in 1 .. Len(Queue(r)) /\ Queue(r)[1] = None
  BY QueueType, HeadTailProperties, EmptySeq
<1> QED BY <1>1 DEF ChunksInv, ChunksOf, EndIn

(* The end of a queue is put there once, after the whole answer or with the *)
(* loss of the tunnel.                                                      *)
LEMMA StepEnd == IInv /\ [Next]_vars => EndInv'
<1> SUFFICES ASSUME IInv, [Next]_vars PROVE EndInv'
  OBVIOUS
<1> USE DEF IInv, socketVars, clientVars
<1>1. ASSUME NEW r \in Requests, Arrive(r) PROVE EndInv'
  BY <1>1, EndQuiet DEF Arrive, Move, TypeOK
<1>2. ASSUME NEW r \in Requests, Write(r) PROVE EndInv'
  <2>1. /\ UNCHANGED <<session, body, seen>> /\ pc[r] = "lock"
        /\ pc' = [pc EXCEPT ![r] = "sending"]
        /\ \A q \in Requests \ {r} : answer'[q] = answer[q]
        /\ answer'[r].ended = answer[r].ended
    BY <1>2, WriteFacts
  <2>2. ASSUME NEW q \in Requests, q # r PROVE EndOf(q)'
    <3>1. answer'[q] = answer[q] /\ pc'[q] = pc[q]
      BY <2>1, <2>2 DEF TypeOK
    <3> QED BY <2>1, <3>1, EndStaysOf
  <2>3. EndOf(r) /\ ~answer[r].roams /\ ~answer[r].ended
    BY <2>1 DEF EndInv, AgentInv
  <2>4. pc'[r] = "sending"
    BY <2>1 DEF TypeOK
  <2>5. EndIn(Queue(r))' <=> EndIn(Queue(r))
    BY <2>1 DEF Queue, EndIn
  <2> QED BY <2>1, <2>2, <2>3, <2>4, <2>5 DEF EndInv, EndOf
<1>3. ASSUME NEW r \in Requests, SendFailed(r) PROVE EndInv'
  BY <1>3, EndQuiet DEF SendFailed, Finish, Move, TypeOK
<1>4. ASSUME NEW r \in Requests, Sent(r) PROVE EndInv'
  BY <1>4, EndQuiet DEF Sent, Move, TypeOK
<1>5. ASSUME NEW r \in Requests, StartTimeout(r) PROVE EndInv'
  BY <1>5, EndQuiet DEF StartTimeout, Finish, Move, TypeOK
<1>6. ASSUME NEW r \in Requests, Started(r) PROVE EndInv'
  <2>1. /\ UNCHANGED <<session, body, answer>> /\ session[r].started
        /\ seen' = [seen EXCEPT ![r] = session[r].status]
        /\ pc' = [pc EXCEPT ![r] = "ready"]
    BY <1>6 DEF Started, Move
  <2>2. ASSUME NEW q \in Requests, q # r PROVE EndOf(q)'
    <3>1. pc'[q] = pc[q] /\ seen'[q] = seen[q]
      BY <2>1, <2>2 DEF TypeOK
    <3> QED BY <2>1, <3>1, EndStaysOf
  <2>3. EndOf(r) /\ seen'[r] = session[r].status
    BY <2>1 DEF EndInv, TypeOK
  <2>4. EndIn(Queue(r))' <=> EndIn(Queue(r))
    BY <2>1 DEF Queue, EndIn
  <2>5. EndOf(r)'
    BY <2>1, <2>3, <2>4 DEF EndOf, Queue
  <2> QED BY <2>2, <2>5 DEF EndInv
<1>7. ASSUME NEW r \in Requests, Iterate(r) PROVE EndInv'
  <2>1. /\ UNCHANGED <<session, body, answer, seen>> /\ pc[r] = "ready"
        /\ pc' = [pc EXCEPT ![r] = "body"]
    BY <1>7 DEF Iterate, Move
  <2>2. \A q \in Requests : pc'[q] \in {"ready", "body"} => pc[q] \in {"ready", "body"}
    BY <2>1 DEF TypeOK
  <2> QED BY <2>1, <2>2, EndQuiet
<1>8. ASSUME NEW r \in Requests, LeaveEarly(r) PROVE EndInv'
  BY <1>8, EndQuiet DEF LeaveEarly, Move, TypeOK
<1>9. ASSUME NEW r \in Requests, LeaveDuring(r) PROVE EndInv'
  BY <1>9, EndQuiet DEF LeaveDuring, Finish, Move, TypeOK
<1>10. ASSUME NEW r \in Requests, TakeChunk(r) PROVE EndInv'
  <2>1. /\ UNCHANGED <<pc, seen, answer>>
        /\ Queue(r) \in Seq(Entry) /\ Queue(r) # <<>> /\ Head(Queue(r)) # None
        /\ session'[r].chunks = Tail(Queue(r)) /\ session'[r].status = session[r].status
        /\ session'[r].started = session[r].started /\ session'[r].lost = session[r].lost
        /\ body'[r] = Append(body[r], Head(Queue(r)))
        /\ \A q \in Requests \ {r} : session'[q] = session[q] /\ body'[q] = body[q]
    BY <1>10, TakeChunkFacts
  <2>2. ASSUME NEW q \in Requests, q # r PROVE EndOf(q)'
    BY <2>1, <2>2, EndStaysOf
  <2>3. /\ Len(Queue(r)) \in Nat \ {0} /\ Len(Queue(r)') = Len(Queue(r)) - 1
        /\ Head(Queue(r)) \in Chunks
    BY <2>1, HeadTailProperties, EmptySeq DEF Queue, Entry
  <2>4. Len(body[r]) \in Nat /\ Len(body'[r]) = Len(body[r]) + 1
    BY <2>1, <2>3, AppendProperties, LenProperties DEF TypeOK
  <2>5. EndIn(Tail(Queue(r))) <=> EndIn(Queue(r))
    BY <2>1, EndStays
  <2>6. EndIn(Queue(r))' <=> EndIn(Queue(r))
    BY <2>1, <2>5 DEF Queue, EndIn
  <2>7. \A a, b \in Nat : (a + 1) + (b - 1) = a + b
    OBVIOUS
  <2>8. Len(body'[r]) + Len(Queue(r)') = Len(body[r]) + Len(Queue(r))
    BY <2>3, <2>4, <2>7
  <2>9. EndOf(r)
    BY DEF EndInv
  <2>10. EndOf(r)'
    BY <2>1, <2>6, <2>8, <2>9 DEF EndOf
  <2> QED BY <2>2, <2>10 DEF EndInv
<1>11. ASSUME NEW r \in Requests, TakeEnd(r) PROVE EndInv'
  <2>1. /\ UNCHANGED <<body, answer, seen>> /\ pc' = [pc EXCEPT ![r] = "done"]
        /\ session' = [session EXCEPT ![r].chunks = Tail(session[r].chunks)]
        /\ Queue(r) # <<>> /\ Head(Queue(r)) = None
    BY <1>11 DEF TakeEnd, Finish, Move
  <2>2. ASSUME NEW q \in Requests, q # r PROVE EndOf(q)'
    <3>1. session'[q] = session[q] /\ pc'[q] = pc[q]
      BY <2>1, <2>2 DEF TypeOK
    <3> QED BY <2>1, <3>1, EndStaysOf
  <2>3. /\ Queue(r)' = Tail(Queue(r)) /\ session'[r].status = session[r].status
        /\ session'[r].started = session[r].started /\ session'[r].lost = session[r].lost
        /\ pc'[r] = "done"
    BY <2>1 DEF Queue, TypeOK, SessionRow
  <2>4. Len(Queue(r)) = 1
    BY <2>1, LastIsEnd
  <2>5. Len(Queue(r)') = 0
    BY <2>1, <2>3, <2>4, QueueType, HeadTailProperties
  <2>6. ~EndIn(Queue(r))'
    BY <2>5 DEF EndIn
  <2>7. EndOf(r)'
    BY <2>1, <2>3, <2>6 DEF EndInv, EndOf
  <2> QED BY <2>2, <2>7 DEF EndInv
<1>12. ASSUME NEW r \in Requests, Stalled(r) PROVE EndInv'
  BY <1>12, EndQuiet DEF Stalled, Finish, Move, TypeOK
<1>13. ASSUME NEW c \in Sockets, Connect(c) PROVE EndInv'
  BY <1>13, EndQuiet DEF Connect, TypeOK
<1>14. ASSUME NEW c \in Sockets, Opened(c) PROVE EndInv'
  BY <1>14, EndQuiet DEF Opened, TypeOK
<1>15. ASSUME NEW c \in Sockets, Receive(c) PROVE EndInv'
  BY <1>15, EndReceive
<1>16. ASSUME NEW c \in Sockets, Disconnected(c) PROVE EndInv'
  <2>1. CASE ws # c
    <3>1. UNCHANGED <<session, body, answer, pc, seen>>
      BY <1>16, <2>1, DisconnectedFacts DEF clientVars
    <3> QED BY <3>1, EndQuiet
  <2>2. CASE ws = c
    <3>1. /\ UNCHANGED <<body, answer, pc, seen>>
          /\ \A r \in streams : session'[r] = Lost(session[r])
          /\ \A r \in Requests \ streams : session'[r] = session[r]
      BY <1>16, <2>2, DisconnectedFacts DEF clientVars
    <3>2. ASSUME NEW r \in streams PROVE EndOf(r)'
      <4>1. session'[r].lost
        BY <3>1, LostFacts DEF TypeOK
      <4> QED BY <4>1 DEF EndOf
    <3>3. ASSUME NEW r \in Requests \ streams PROVE EndOf(r)'
      BY <3>1, EndStaysOf
    <3> QED BY <3>2, <3>3 DEF EndInv
  <2> QED BY <2>1, <2>2
<1>17. ASSUME NEW c \in Sockets, Drop(c) PROVE EndInv'
  BY <1>17, EndQuiet DEF Drop, TypeOK
<1>18. ASSUME NEW c \in Sockets, NEW r \in Requests, AgentStart(c, r) PROVE EndInv'
  <2>1. /\ UNCHANGED <<session, body, pc, seen>>
        /\ \A q \in Requests \ {r} : answer'[q] = answer[q]
        /\ answer'[r].roams = answer[r].roams
    BY <1>18, SentFacts DEF clientVars
  <2>2. answer[r].ended => answer'[r].ended /\ answer'[r].sent = answer[r].sent
    BY <1>18 DEF AgentStart, Send, AgentInv, TypeOK, AnswerRow
  <2> QED BY <2>1, <2>2, EndStaysOf DEF EndInv
<1>19. ASSUME NEW c \in Sockets, NEW r \in Requests, AgentChunk(c, r) PROVE EndInv'
  <2>1. /\ UNCHANGED <<session, body, pc, seen>>
        /\ \A q \in Requests \ {r} : answer'[q] = answer[q]
        /\ answer'[r].roams = answer[r].roams
    BY <1>19, SentFacts DEF clientVars
  <2>2. answer[r].ended => answer'[r].ended /\ answer'[r].sent = answer[r].sent
    BY <1>19 DEF AgentChunk, Send, AgentInv, TypeOK, AnswerRow
  <2> QED BY <2>1, <2>2, EndStaysOf DEF EndInv
<1>20. ASSUME NEW c \in Sockets, NEW r \in Requests, AgentEnd(c, r) PROVE EndInv'
  <2>1. /\ UNCHANGED <<session, body, pc, seen>>
        /\ \A q \in Requests \ {r} : answer'[q] = answer[q]
        /\ answer'[r].roams = answer[r].roams
    BY <1>20, SentFacts DEF clientVars
  <2>2. answer[r].ended => answer'[r].ended /\ answer'[r].sent = answer[r].sent
    BY <1>20 DEF AgentEnd, Send, AgentInv, TypeOK, AnswerRow
  <2> QED BY <2>1, <2>2, EndStaysOf DEF EndInv
<1>21. CASE UNCHANGED vars
  BY <1>21, EndQuiet DEF vars
<1> QED BY <1>1, <1>2, <1>3, <1>4, <1>5, <1>6, <1>7, <1>8, <1>9, <1>10, <1>11,
         <1>12, <1>13, <1>14, <1>15, <1>16, <1>17, <1>18, <1>19, <1>20, <1>21
         DEF Next, RelayStep, ClientStep

(* A stream that ends normally has come to the end of a queue that was not  *)
(* broken, and by then the body is the whole answer.                        *)
LEMMA StepWhole == IInv /\ [Next]_vars => WholeIsWhole'
<1> SUFFICES ASSUME IInv, [Next]_vars PROVE WholeIsWhole'
  OBVIOUS
<1> USE DEF IInv, socketVars, clientVars
<1>1. ASSUME NEW r \in Requests, Arrive(r) PROVE WholeIsWhole'
  BY <1>1 DEF Arrive, Move, WholeIsWhole, TypeOK
<1>2. ASSUME NEW r \in Requests, Write(r) PROVE WholeIsWhole'
  <2>1. /\ UNCHANGED <<body, seen, result>> /\ pc[r] = "lock"
        /\ \A q \in Requests \ {r} : answer'[q] = answer[q]
    BY <1>2, WriteFacts
  <2>2. result[r] # "whole"
    BY <2>1 DEF LifeInv
  <2> QED BY <2>1, <2>2 DEF WholeIsWhole
<1>3. ASSUME NEW r \in Requests, SendFailed(r) PROVE WholeIsWhole'
  BY <1>3 DEF SendFailed, Finish, Move, WholeIsWhole, TypeOK
<1>4. ASSUME NEW r \in Requests, Sent(r) PROVE WholeIsWhole'
  BY <1>4 DEF Sent, Move, WholeIsWhole, TypeOK
<1>5. ASSUME NEW r \in Requests, StartTimeout(r) PROVE WholeIsWhole'
  BY <1>5 DEF StartTimeout, Finish, Move, WholeIsWhole, TypeOK
<1>6. ASSUME NEW r \in Requests, Started(r) PROVE WholeIsWhole'
  <2>1. /\ UNCHANGED <<body, result, answer>> /\ pc[r] = "start"
        /\ \A q \in Requests \ {r} : seen'[q] = seen[q]
    BY <1>6 DEF Started, Move, TypeOK
  <2>2. result[r] # "whole"
    BY <2>1 DEF LifeInv
  <2> QED BY <2>1, <2>2 DEF WholeIsWhole
<1>7. ASSUME NEW r \in Requests, Iterate(r) PROVE WholeIsWhole'
  BY <1>7 DEF Iterate, Move, WholeIsWhole, TypeOK
<1>8. ASSUME NEW r \in Requests, LeaveEarly(r) PROVE WholeIsWhole'
  BY <1>8 DEF LeaveEarly, Move, WholeIsWhole, TypeOK
<1>9. ASSUME NEW r \in Requests, LeaveDuring(r) PROVE WholeIsWhole'
  BY <1>9 DEF LeaveDuring, Finish, Move, WholeIsWhole, TypeOK
<1>10. ASSUME NEW r \in Requests, TakeChunk(r) PROVE WholeIsWhole'
  <2>1. /\ UNCHANGED <<seen, result, answer>> /\ pc[r] = "body"
        /\ \A q \in Requests \ {r} : body'[q] = body[q]
    BY <1>10, TakeChunkFacts
  <2>2. result[r] # "whole"
    BY <2>1 DEF LifeInv
  <2> QED BY <2>1, <2>2 DEF WholeIsWhole
<1>11. ASSUME NEW r \in Requests, TakeEnd(r) PROVE WholeIsWhole'
  <2>1. /\ UNCHANGED <<body, answer, seen>> /\ pc[r] = "body"
        /\ result' = [result EXCEPT ![r] = EndOfQueue(r)]
        /\ Queue(r) # <<>> /\ Head(Queue(r)) = None
    BY <1>11 DEF TakeEnd, Finish, Move
  <2>2. ASSUME EndOfQueue(r) = "whole", ~answer[r].roams
        PROVE  /\ answer[r].ended /\ seen[r] = "agent"
               /\ body[r] = [i \in 1 .. answer[r].sent |-> i]
    <3>1. ~session[r].lost
      BY <2>2 DEF EndOfQueue
    <3>2. Len(Queue(r)) = 1 /\ EndIn(Queue(r))
      BY <2>1, LastIsEnd
    <3>3. EndOf(r) /\ ChunksOf(r)
      BY DEF EndInv, ChunksInv
    <3>4. answer[r].ended /\ seen[r] = "agent" /\ Len(body[r]) + 1 = answer[r].sent + 1
      BY <2>1, <2>2, <3>1, <3>2, <3>3 DEF EndOf
    <3>5. answer[r].sent \in 0 .. MaxChunks /\ body[r] \in Seq(Chunks)
      BY DEF TypeOK, AnswerRow
    <3>6. Len(body[r]) = answer[r].sent
      BY <3>4, <3>5, LenProperties, BoundsAssumption
    <3>7. body[r] = [i \in 1 .. Len(body[r]) |-> body[r][i]]
      BY <3>5, LenProperties
    <3>8. \A i \in 1 .. Len(body[r]) : body[r][i] = i
      BY <2>2, <3>3 DEF ChunksOf
    <3> QED BY <3>4, <3>6, <3>7, <3>8
  <2>3. \A q \in Requests : result'[q] = IF q = r THEN EndOfQueue(r) ELSE result[q]
    BY <2>1 DEF TypeOK
  <2>4. ASSUME NEW q \in Requests, result'[q] = "whole", ~answer[q].roams
        PROVE  /\ answer[q].ended /\ seen[q] = "agent"
               /\ body[q] = [i \in 1 .. answer[q].sent |-> i]
    <3>1. CASE q = r
      BY <2>2, <2>3, <2>4, <3>1
    <3>2. CASE q # r
      BY <2>3, <2>4, <3>2 DEF WholeIsWhole
    <3> QED BY <3>1, <3>2
  <2> QED BY <2>1, <2>4 DEF WholeIsWhole
<1>12. ASSUME NEW r \in Requests, Stalled(r) PROVE WholeIsWhole'
  BY <1>12 DEF Stalled, Finish, Move, WholeIsWhole, TypeOK
<1>13. ASSUME NEW c \in Sockets, Connect(c) PROVE WholeIsWhole'
  BY <1>13 DEF Connect, WholeIsWhole, TypeOK
<1>14. ASSUME NEW c \in Sockets, Opened(c) PROVE WholeIsWhole'
  BY <1>14 DEF Opened, WholeIsWhole, TypeOK
<1>15. ASSUME NEW c \in Sockets, Receive(c) PROVE WholeIsWhole'
  BY <1>15 DEF Receive, WholeIsWhole, TypeOK
<1>16. ASSUME NEW c \in Sockets, Disconnected(c) PROVE WholeIsWhole'
  BY <1>16 DEF Disconnected, WholeIsWhole, TypeOK
<1>17. ASSUME NEW c \in Sockets, Drop(c) PROVE WholeIsWhole'
  BY <1>17 DEF Drop, WholeIsWhole, TypeOK
<1>18. ASSUME NEW c \in Sockets, NEW r \in Requests, AgentStart(c, r) PROVE WholeIsWhole'
  <2>1. /\ UNCHANGED <<body, seen, result>>
        /\ \A q \in Requests \ {r} : answer'[q] = answer[q]
        /\ answer'[r].roams = answer[r].roams
    BY <1>18, SentFacts DEF clientVars
  <2>2. answer[r].ended => answer'[r].ended /\ answer'[r].sent = answer[r].sent
    BY <1>18 DEF AgentStart, Send, AgentInv, TypeOK, AnswerRow
  <2>3. ASSUME NEW q \in Requests, result'[q] = "whole", ~answer'[q].roams
        PROVE  /\ answer'[q].ended /\ seen'[q] = "agent"
               /\ body'[q] = [i \in 1 .. answer'[q].sent |-> i]
    <3>1. /\ answer[q].ended /\ seen[q] = "agent"
          /\ body[q] = [i \in 1 .. answer[q].sent |-> i]
      BY <2>1, <2>3 DEF WholeIsWhole
    <3>2. answer'[q].ended /\ answer'[q].sent = answer[q].sent
      BY <2>1, <2>2, <3>1
    <3> QED BY <2>1, <3>1, <3>2
  <2> QED BY <2>3 DEF WholeIsWhole
<1>19. ASSUME NEW c \in Sockets, NEW r \in Requests, AgentChunk(c, r) PROVE WholeIsWhole'
  <2>1. /\ UNCHANGED <<body, seen, result>>
        /\ \A q \in Requests \ {r} : answer'[q] = answer[q]
        /\ answer'[r].roams = answer[r].roams
    BY <1>19, SentFacts DEF clientVars
  <2>2. answer[r].ended => answer'[r].ended /\ answer'[r].sent = answer[r].sent
    BY <1>19 DEF AgentChunk, Send, AgentInv, TypeOK, AnswerRow
  <2>3. ASSUME NEW q \in Requests, result'[q] = "whole", ~answer'[q].roams
        PROVE  /\ answer'[q].ended /\ seen'[q] = "agent"
               /\ body'[q] = [i \in 1 .. answer'[q].sent |-> i]
    <3>1. /\ answer[q].ended /\ seen[q] = "agent"
          /\ body[q] = [i \in 1 .. answer[q].sent |-> i]
      BY <2>1, <2>3 DEF WholeIsWhole
    <3>2. answer'[q].ended /\ answer'[q].sent = answer[q].sent
      BY <2>1, <2>2, <3>1
    <3> QED BY <2>1, <3>1, <3>2
  <2> QED BY <2>3 DEF WholeIsWhole
<1>20. ASSUME NEW c \in Sockets, NEW r \in Requests, AgentEnd(c, r) PROVE WholeIsWhole'
  <2>1. /\ UNCHANGED <<body, seen, result>>
        /\ \A q \in Requests \ {r} : answer'[q] = answer[q]
        /\ answer'[r].roams = answer[r].roams
    BY <1>20, SentFacts DEF clientVars
  <2>2. answer[r].ended => answer'[r].ended /\ answer'[r].sent = answer[r].sent
    BY <1>20 DEF AgentEnd, Send, AgentInv, TypeOK, AnswerRow
  <2>3. ASSUME NEW q \in Requests, result'[q] = "whole", ~answer'[q].roams
        PROVE  /\ answer'[q].ended /\ seen'[q] = "agent"
               /\ body'[q] = [i \in 1 .. answer'[q].sent |-> i]
    <3>1. /\ answer[q].ended /\ seen[q] = "agent"
          /\ body[q] = [i \in 1 .. answer[q].sent |-> i]
      BY <2>1, <2>3 DEF WholeIsWhole
    <3>2. answer'[q].ended /\ answer'[q].sent = answer[q].sent
      BY <2>1, <2>2, <3>1
    <3> QED BY <2>1, <3>1, <3>2
  <2> QED BY <2>3 DEF WholeIsWhole
<1>21. CASE UNCHANGED vars
  BY <1>21 DEF vars, WholeIsWhole
<1> QED BY <1>1, <1>2, <1>3, <1>4, <1>5, <1>6, <1>7, <1>8, <1>9, <1>10, <1>11,
         <1>12, <1>13, <1>14, <1>15, <1>16, <1>17, <1>18, <1>19, <1>20, <1>21
         DEF Next, RelayStep, ClientStep

-----------------------------------------------------------------------------
(* The theorems *)

(* It holds at the start.                                                   *)
LEMMA InitIInv == Init => IInv
<1> SUFFICES ASSUME Init PROVE IInv
  OBVIOUS
<1> USE BoundsAssumption, NamesAssumption DEF Init
<1>1. Fresh \in SessionRow
  BY DEF Fresh, SessionRow, Status
<1>2. TypeOK
  BY <1>1 DEF TypeOK, SocketState, HandlerState, RequestState, Status, Result, AnswerRow
<1>3. \A r \in Requests : Queue(r) = <<>> /\ ~EndIn(Queue(r))
  BY DEF Queue, Fresh, EndIn
<1>4. SocketInv /\ LossInv /\ LifeInv /\ NoOrphanStreams /\ StreamsAccounted
  BY DEF SocketInv, LossInv, BrokenOnlyIfLost, LifeInv, NoOrphanStreams, StreamsAccounted, Fresh
<1>5. ForgottenIsFinished /\ AgentInv /\ WholeIsWhole
  BY DEF ForgottenIsFinished, AgentInv, WholeIsWhole
<1>6. MailInv /\ DeliveryInv
  BY DEF MailInv, DeliveryInv, Live
<1>7. ChunksInv
  BY <1>3 DEF ChunksInv, ChunksOf, Fresh
<1>8. EndInv
  BY <1>3 DEF EndInv, EndOf, Fresh
<1> QED BY <1>2, <1>4, <1>5, <1>6, <1>7, <1>8 DEF IInv

(* Every step keeps it.                                                     *)
LEMMA StepIInv == IInv /\ [Next]_vars => IInv'
<1> SUFFICES ASSUME IInv, [Next]_vars PROVE IInv'
  OBVIOUS
<1>1. TypeOK'
  BY StepType DEF IInv
<1> QED BY <1>1, StepSocket, StepLoss, StepLife, StepOrphans, StepAccounted,
           StepForgotten, StepAgent, StepMail, StepDelivery, StepChunks, StepEnd,
           StepWhole DEF IInv

(* The inductive invariant holds in every state.                            *)
THEOREM InductiveInvariant == Spec => []IInv
<1> QED BY InitIInv, StepIInv, PTL DEF Spec

(* Sessions, queues, messages in flight and bodies stay what the code makes *)
(* them: a queue holds chunks and ends only.                                *)
THEOREM TypeCorrect == Spec => []TypeOK
<1>1. IInv => TypeOK
  BY DEF IInv
<1> QED BY <1>1, InductiveInvariant, PTL

(* However many sockets, requests and chunks: a response of forward_stream  *)
(* that body_iter ends normally is the whole answer, under the agent's own  *)
(* status, provided the agent keeps the answer to the socket it came on.    *)
THEOREM StreamIsWhole == Spec => []WholeIsWhole
<1>1. IInv => WholeIsWhole
  BY DEF IInv
<1> QED BY <1>1, InductiveInvariant, PTL

(* What body_iter has given the client is always a beginning of the answer. *)
THEOREM NothingSkipped == Spec => []BodyIsPrefix
<1>1. IInv => BodyIsPrefix
  BY DEF IInv, ChunksInv, ChunksOf, BodyIsPrefix
<1> QED BY <1>1, InductiveInvariant, PTL

(* A request whose session was taken out of agent.pending_streams, by the   *)
(* end message or by the loss of the tunnel, has nothing left to wait for.  *)
THEOREM ForgottenNotWaiting == Spec => []ForgottenIsFinished
<1>1. IInv => ForgottenIsFinished
  BY DEF IInv
<1> QED BY <1>1, InductiveInvariant, PTL

(* remove_websocket_connection leaves no session in the table.              *)
THEOREM NoStreamOrphaned == Spec => []NoOrphanStreams
<1>1. IInv => NoOrphanStreams
  BY DEF IInv
<1> QED BY <1>1, InductiveInvariant, PTL

(* agent_connection_lost is said only of a connection that is down.         *)
THEOREM BreakIsReal == Spec => []BrokenOnlyIfLost
<1>1. IInv => BrokenOnlyIfLost
  BY DEF IInv, LossInv
<1> QED BY <1>1, InductiveInvariant, PTL

(* Every session in the table is of a request under way, but for a client   *)
(* that left before the body was first read.                                *)
THEOREM TableMatchesStreams == Spec => []StreamsAccounted
<1>1. IInv => StreamsAccounted
  BY DEF IInv
<1> QED BY <1>1, InductiveInvariant, PTL
=============================================================================
