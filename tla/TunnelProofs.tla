---------------------------- MODULE TunnelProofs ----------------------------
(***************************************************************************)
(* Proofs about Tunnel, for any sockets and requests and any limits: its   *)
(* safety invariants, and that every step the callers of the relay can see *)
(* is one RelayContract allows.                                            *)
(***************************************************************************)
EXTENDS Tunnel, FiniteSetTheorems, SequenceTheorems, TLAPS

(* The registry's socket is the one that has not been closed, and a         *)
(* coroutine runs only for a socket that was opened.                        *)
SocketInv ==
    /\ \A c \in Sockets : sock[c] \in {"open", "gone"} <=> ws = c
    /\ \A c \in Sockets : sock[c] = "unused" => hpc[c] = "idle"

(* Who is in the queue for send_lock; nobody is in it twice.                *)
Queued == {sendQ[i] : i \in 1 .. Len(sendQ)}
Distinct == \A i, j \in 1 .. Len(sendQ) : sendQ[i] = sendQ[j] => i = j

(* LockAccounted, said of the set of those who queue.                       *)
Owners ==
    /\ \A r \in Requests : rpc[r] = "sending" => Holds(r)
    /\ \A c \in Sockets : hpc[c] \in {"readySend", "ackSend"} => Holds(c)
    /\ \A r \in Requests : r \in Queued => rpc[r] \in {"lock", "sending"}
    /\ \A c \in Sockets : c \in Queued =>
          hpc[c] \in {"readyLock", "readySend", "ackLock", "ackSend"}

QueueInv == sendQ \in Seq(Sockets \cup Requests) /\ Distinct /\ Owners

(* The requests counted by _waiters: however many requests there are, only  *)
(* finitely many wait at a time.                                            *)
Waiting == {r \in Requests : rpc[r] \in {"waiting", "woken"}}
WaitersInv == IsFiniteSet(Waiting) /\ WaitersAccounted

(* A request in the table carries the id of a connection that was made.     *)
LossInv ==
    /\ \A r \in pending : rcid[r] # None
    /\ \A r \in Requests : rcid[r] # None => sock[rcid[r]] # "unused"
    /\ LostOnlyIfLost

(* A request has no outcome before it is over, reaches the agent only once  *)
(* it has the lock, and is taken for answered only if the agent answered.   *)
CallerInv ==
    /\ \A r \in Requests : rpc[r] # "done" => outcome[r] = "none"
    /\ \A r \in Requests : rpc[r] \in {"new", "waiting", "woken", "lock"} => r \notin asked
    /\ \A r \in Requests : fut[r] \in {"replied", "mismatched"} => r \in replied

(* What is in flight from the agent are answers it has given.               *)
InboxInv ==
    /\ inbox \in [Sockets -> Seq(Message)]
    /\ \A c \in Sockets : \A i \in 1 .. Len(inbox[c]) :
          inbox[c][i].type = "forward_response" => inbox[c][i].req \in replied

IInv ==
    /\ TypeOK
    /\ SocketInv
    /\ QueueInv
    /\ WaitersInv
    /\ NoOrphans
    /\ PendingAccounted
    /\ LossInv
    /\ CallerInv
    /\ InboxInv

-----------------------------------------------------------------------------
(* send_lock *)

(* LockAccounted and Owners say the same of a queue of coroutines.          *)
LEMMA OwnersLock == sendQ \in Seq(Sockets \cup Requests) => (LockAccounted <=> Owners)
<1> USE NamesAssumption
<1> SUFFICES ASSUME sendQ \in Seq(Sockets \cup Requests) PROVE LockAccounted <=> Owners
  OBVIOUS
<1>1. \A i \in 1 .. Len(sendQ) : sendQ[i] \in Sockets \cup Requests
  BY ElementOfSeq
<1>2. (\A i \in 1 .. Len(sendQ) :
          \/ sendQ[i] \in Requests /\ rpc[sendQ[i]] \in {"lock", "sending"}
          \/ sendQ[i] \in Sockets
                /\ hpc[sendQ[i]] \in {"readyLock", "readySend", "ackLock", "ackSend"})
      <=> /\ \A r \in Requests : r \in Queued => rpc[r] \in {"lock", "sending"}
          /\ \A c \in Sockets : c \in Queued =>
                hpc[c] \in {"readyLock", "readySend", "ackLock", "ackSend"}
  BY <1>1 DEF Queued
<1> QED BY <1>2 DEF LockAccounted, Owners

(* asyncio.Lock is fair: whoever asks for send_lock goes to the end of the  *)
(* queue, and holds the lock if nobody else does.                           *)
LEMMA Joining ==
    ASSUME sendQ \in Seq(Sockets \cup Requests), Distinct,
           NEW x \in (Sockets \cup Requests) \ Queued, sendQ' = Append(sendQ, x)
    PROVE  /\ sendQ' \in Seq(Sockets \cup Requests)
           /\ Distinct'
           /\ Queued' = Queued \cup {x}
           /\ sendQ = <<>> => Holds(x)'
           /\ \A y : Holds(y) => Holds(y)'
<1> DEFINE n == Len(sendQ)
<1>1. /\ sendQ' \in Seq(Sockets \cup Requests)
      /\ n \in Nat /\ Len(sendQ') = n + 1
      /\ \A i \in 1 .. n : sendQ'[i] = sendQ[i]
      /\ sendQ'[n + 1] = x
  BY AppendProperties, LenProperties
<1>2. \A i \in 1 .. Len(sendQ') : i \in 1 .. n \/ i = n + 1
  BY <1>1
<1>3. Queued' = Queued \cup {x}
  BY <1>1, <1>2 DEF Queued
<1>4. \A i \in 1 .. n : sendQ[i] # x
  BY DEF Queued
<1>5. Distinct'
  BY <1>1, <1>2, <1>4 DEF Distinct
<1>6. sendQ' # <<>> /\ Head(sendQ') = IF sendQ = <<>> THEN x ELSE Head(sendQ)
  BY AppendProperties, HeadTailAppend
<1> QED BY <1>1, <1>3, <1>5, <1>6 DEF Holds

(* Releasing send_lock takes out its holder and nobody else.                *)
LEMMA Leaving ==
    ASSUME sendQ \in Seq(Sockets \cup Requests), Distinct, sendQ # <<>>,
           sendQ' = Tail(sendQ)
    PROVE  /\ sendQ' \in Seq(Sockets \cup Requests)
           /\ Distinct'
           /\ Queued' = Queued \ {Head(sendQ)}
<1> DEFINE n == Len(sendQ)
<1>1. /\ sendQ' \in Seq(Sockets \cup Requests)
      /\ n \in Nat \ {0} /\ Len(sendQ') = n - 1
      /\ \A i \in 1 .. n - 1 : sendQ'[i] = sendQ[i + 1]
      /\ Head(sendQ) = sendQ[1]
  BY HeadTailProperties, EmptySeq
<1>2. Distinct'
  BY <1>1 DEF Distinct
<1>3. \A i \in 1 .. n : i # 1 => sendQ[i] # sendQ[1] /\ i - 1 \in 1 .. n - 1
  BY <1>1 DEF Distinct
<1>4. \A i \in 1 .. n : i # 1 => sendQ[i] = sendQ'[i - 1]
  BY <1>1, <1>3
<1>5. ASSUME NEW y \in Queued, y # Head(sendQ) PROVE y \in Queued'
  <2>1. PICK i \in 1 .. n : y = sendQ[i]
    BY DEF Queued
  <2>2. i # 1
    BY <2>1, <1>1, <1>5
  <2>3. y = sendQ'[i - 1] /\ i - 1 \in 1 .. Len(sendQ')
    BY <2>1, <2>2, <1>1, <1>3, <1>4
  <2> QED BY <2>3 DEF Queued
<1>6. ASSUME NEW y \in Queued' PROVE y \in Queued /\ y # Head(sendQ)
  <2>1. PICK i \in 1 .. n - 1 : y = sendQ'[i]
    BY <1>1 DEF Queued
  <2>2. y = sendQ[i + 1] /\ i + 1 \in 1 .. n /\ i + 1 # 1
    BY <2>1, <1>1
  <2> QED BY <2>2, <1>1, <1>3 DEF Queued
<1> QED BY <1>1, <1>2, <1>5, <1>6

(* A request that registers takes a place at send_lock.                     *)
LEMMA RegisterQueue ==
    ASSUME TypeOK, QueueInv, NEW r \in Requests, rpc[r] \in {"new", "woken"},
           Register(r), hpc' = hpc
    PROVE  QueueInv'
<1> USE NamesAssumption DEF TypeOK, QueueInv
<1>1. r \notin Queued
  BY DEF Owners
<1>2. sendQ' = Append(sendQ, r)
  BY DEF Register
<1>3. /\ sendQ' \in Seq(Sockets \cup Requests) /\ Distinct'
      /\ Queued' = Queued \cup {r}
      /\ sendQ = <<>> => Holds(r)'
      /\ \A y : Holds(y) => Holds(y)'
  BY <1>1, <1>2, Joining
<1>4. rpc' = [rpc EXCEPT ![r] = IF sendQ = <<>> THEN "sending" ELSE "lock"]
  BY DEF Register, Write
<1>5. /\ \A q \in Requests : q # r => rpc'[q] = rpc[q]
      /\ rpc'[r] \in {"lock", "sending"}
      /\ rpc'[r] = "sending" => sendQ = <<>>
  BY <1>4
<1> QED BY <1>3, <1>5 DEF Owners

(* Every step keeps the queue in order: those in it are sending or about    *)
(* to, and those who send hold the lock.                                    *)
LEMMA StepQueue == IInv /\ [Next]_vars => QueueInv'
<1> SUFFICES ASSUME IInv, [Next]_vars PROVE QueueInv'
  OBVIOUS
<1>0. UNCHANGED sendQ => UNCHANGED <<Queued, Distinct>>
  BY DEF Queued, Distinct
<1> USE NamesAssumption DEF IInv, TypeOK, SocketInv, QueueInv, Owners, Holds,
        socketVars, requestVars
<1>1. ASSUME NEW r \in Requests, ArriveConnected(r) PROVE QueueInv'
  BY <1>0, <1>1, RegisterQueue DEF ArriveConnected, Answer
<1>2. ASSUME NEW r \in Requests, ArriveDisconnected(r) PROVE QueueInv'
  BY <1>0, <1>2 DEF ArriveDisconnected, Answer
<1>3. ASSUME NEW r \in Requests, WaitTimeout(r) PROVE QueueInv'
  BY <1>0, <1>3 DEF WaitTimeout
<1>4. ASSUME NEW r \in Requests, Resume(r) PROVE QueueInv'
  BY <1>0, <1>4, RegisterQueue DEF Resume, Answer
<1>5. ASSUME NEW r \in Requests, Granted(r) PROVE QueueInv'
  <2>1. Holds(r) /\ rpc[r] = "lock"
    BY <1>5 DEF Granted
  <2>2. CASE ws # None
    <3>1. rpc' = [rpc EXCEPT ![r] = "sending"] /\ sendQ' = sendQ /\ hpc' = hpc
      BY <1>5, <2>2 DEF Granted, Write, KeepLock
    <3> QED BY <2>1, <3>1 DEF Queued, Distinct
  <2>3. CASE ws = None
    <3>1. rpc' = [rpc EXCEPT ![r] = "done"] /\ sendQ' = Tail(sendQ) /\ hpc' = hpc
      BY <1>5, <2>3 DEF Granted, Answer, Release
    <3> QED BY <2>1, <3>1, Leaving
  <2> QED BY <2>2, <2>3
<1>6. ASSUME NEW r \in Requests, Sent(r) PROVE QueueInv'
  BY <1>0, <1>6, Joining, Leaving DEF Sent, Release
<1>7. ASSUME NEW r \in Requests, SendFailed(r) PROVE QueueInv'
  BY <1>0, <1>7, Joining, Leaving DEF SendFailed, Release, Answer
<1>8. ASSUME NEW r \in Requests, Completed(r) PROVE QueueInv'
  BY <1>0, <1>8 DEF Completed, Answer
<1>9. ASSUME NEW r \in Requests, TimedOut(r) PROVE QueueInv'
  BY <1>0, <1>9 DEF TimedOut, Answer
<1>10. ASSUME NEW c \in Sockets, Connect(c) PROVE QueueInv'
  BY <1>0, <1>10 DEF Connect
<1>11. ASSUME NEW c \in Sockets, Opened(c) PROVE QueueInv'
  <2>1. c \notin Queued /\ sendQ' = Append(sendQ, c)
    BY <1>11 DEF Opened
  <2>2. /\ sendQ' \in Seq(Sockets \cup Requests) /\ Distinct'
        /\ Queued' = Queued \cup {c}
        /\ sendQ = <<>> => Holds(c)'
        /\ \A y : Holds(y) => Holds(y)'
    BY <2>1, Joining
  <2>3. /\ hpc' = [hpc EXCEPT ![c] = IF sendQ = <<>> THEN "readySend" ELSE "readyLock"]
        /\ rpc' = rpc
    BY <1>11 DEF Opened
  <2> HIDE DEF Holds
  <2> QED BY <2>2, <2>3
<1>12. ASSUME NEW c \in Sockets, HandlerGranted(c) PROVE QueueInv'
  BY <1>0, <1>12 DEF HandlerGranted, Holds
<1>13. ASSUME NEW c \in Sockets, HandlerSent(c) PROVE QueueInv'
  BY <1>0, <1>13, Joining, Leaving DEF HandlerSent, Release
<1>14. ASSUME NEW c \in Sockets, HandlerSendFailed(c) PROVE QueueInv'
  BY <1>0, <1>14, Joining, Leaving DEF HandlerSendFailed, End, Remove, Release
<1>15. ASSUME NEW c \in Sockets, Receive(c) PROVE QueueInv'
  <2>1. c \notin Queued /\ hpc[c] = "loop" /\ rpc' = rpc
    BY <1>15 DEF Receive
  <2>2. CASE /\ sendQ' = Append(sendQ, c)
             /\ hpc' = [hpc EXCEPT ![c] = IF sendQ = <<>> THEN "ackSend" ELSE "ackLock"]
    <3>2. /\ sendQ' \in Seq(Sockets \cup Requests) /\ Distinct'
          /\ Queued' = Queued \cup {c}
          /\ sendQ = <<>> => Holds(c)'
          /\ \A y : Holds(y) => Holds(y)'
      BY <2>1, <2>2, Joining
    <3> HIDE DEF Holds
    <3> QED BY <2>1, <2>2, <3>2
  <2>3. CASE sendQ' = sendQ /\ hpc' = [hpc EXCEPT ![c] = NextPc(c, "loop")]
    BY <1>0, <2>1, <2>3 DEF NextPc
  <2> QED BY <1>15, <2>2, <2>3 DEF Receive
<1>16. ASSUME NEW c \in Sockets, Disconnected(c) PROVE QueueInv'
  BY <1>0, <1>16 DEF Disconnected, End, Remove, KeepLock
<1>17. ASSUME NEW c \in Sockets, Drop(c) PROVE QueueInv'
  BY <1>0, <1>17 DEF Drop
<1>18. ASSUME NEW c \in Sockets, AgentHeartbeat(c) PROVE QueueInv'
  BY <1>0, <1>18 DEF AgentHeartbeat, Send
<1>19. ASSUME NEW c \in Sockets, NEW r \in Requests, AgentReply(c, r) PROVE QueueInv'
  BY <1>0, <1>19 DEF AgentReply, Send
<1>20. CASE UNCHANGED vars
  BY <1>0, <1>20 DEF vars
<1> QED BY <1>1, <1>2, <1>3, <1>4, <1>5, <1>6, <1>7, <1>8, <1>9, <1>10, <1>11, <1>12,
         <1>13, <1>14, <1>15, <1>16, <1>17, <1>18, <1>19, <1>20
         DEF Next, RequestStep, HandlerStep

-----------------------------------------------------------------------------
(* The places of max_agent_waiters *)

(* A place is taken and given back exactly when a request begins and ceases *)
(* to wait, on every way out of _wait_for_agent_connection.                 *)
LEMMA StepWaiters == IInv /\ [Next]_vars => WaitersInv'
<1> SUFFICES ASSUME IInv, [Next]_vars PROVE WaitersInv'
  OBVIOUS
<1>a. WaitersAccounted <=> waiters = Cardinality(Waiting) /\ waiters <= MaxWaiters
  BY DEF WaitersAccounted, Waiting
<1>b. WaitersAccounted' <=> waiters' = Cardinality(Waiting') /\ waiters' <= MaxWaiters
  BY DEF WaitersAccounted, Waiting
<1>0. rpc' = rpc => Waiting' = Waiting
  BY DEF Waiting
<1> USE BoundsAssumption, <1>a, <1>b DEF IInv, TypeOK, WaitersInv, socketVars,
        requestVars
<1>1. ASSUME NEW r \in Requests, ArriveConnected(r) PROVE WaitersInv'
  <2>1. rpc' = [rpc EXCEPT ![r] = IF sendQ = <<>> THEN "sending" ELSE "lock"]
        /\ rpc[r] = "new" /\ waiters' = waiters
    BY <1>1 DEF ArriveConnected, Register, Write
  <2>2. Waiting' = Waiting
    BY <2>1 DEF Waiting
  <2> QED BY <2>1, <2>2
<1>2. ASSUME NEW r \in Requests, ArriveDisconnected(r) PROVE WaitersInv'
  <2>1. CASE /\ rpc' = [rpc EXCEPT ![r] = "waiting"]
             /\ waiters < MaxWaiters /\ waiters' = waiters + 1
    <3>1. r \notin Waiting /\ Waiting' = Waiting \cup {r}
      BY <1>2, <2>1 DEF ArriveDisconnected, Waiting
    <3>2. IsFiniteSet(Waiting') /\ Cardinality(Waiting') = Cardinality(Waiting) + 1
      BY <3>1, FS_AddElement
    <3> QED BY <2>1, <3>2
  <2>2. CASE rpc' = [rpc EXCEPT ![r] = "done"] /\ waiters' = waiters
    <3>1. Waiting' = Waiting
      BY <1>2, <2>2 DEF ArriveDisconnected, Waiting
    <3> QED BY <2>2, <3>1
  <2> QED BY <1>2, <2>1, <2>2 DEF ArriveDisconnected, Answer
<1>3. ASSUME NEW r \in Requests, WaitTimeout(r) PROVE WaitersInv'
  <2>1. Waiting' = Waiting
    BY <1>3 DEF WaitTimeout, Waiting
  <2> QED BY <1>3, <2>1 DEF WaitTimeout
<1>4. ASSUME NEW r \in Requests, Resume(r) PROVE WaitersInv'
  <2>1. rpc[r] = "woken" /\ waiters' = waiters - 1
    BY <1>4 DEF Resume
  <2>2. Waiting' = Waiting \ {r}
    BY <1>4 DEF Resume, Register, Write, Answer, Waiting
  <2>3. r \in Waiting
    BY <2>1 DEF Waiting
  <2>4. IsFiniteSet(Waiting') /\ Cardinality(Waiting') = Cardinality(Waiting) - 1
    BY <2>2, <2>3, FS_RemoveElement
  <2> QED BY <2>1, <2>4
<1>5. ASSUME NEW r \in Requests, Granted(r) PROVE WaitersInv'
  <2>1. Waiting' = Waiting
    BY <1>5 DEF Granted, Write, Answer, KeepLock, Release, Holds, Waiting
  <2> QED BY <1>5, <2>1 DEF Granted
<1>6. ASSUME NEW r \in Requests, Sent(r) PROVE WaitersInv'
  <2>1. Waiting' = Waiting
    BY <1>6 DEF Sent, Release, Waiting
  <2> QED BY <1>6, <2>1 DEF Sent
<1>7. ASSUME NEW r \in Requests, SendFailed(r) PROVE WaitersInv'
  <2>1. Waiting' = Waiting
    BY <1>7 DEF SendFailed, Release, Answer, Waiting
  <2> QED BY <1>7, <2>1 DEF SendFailed
<1>8. ASSUME NEW r \in Requests, Completed(r) PROVE WaitersInv'
  <2>1. Waiting' = Waiting
    BY <1>8 DEF Completed, Answer, Waiting
  <2> QED BY <1>8, <2>1 DEF Completed
<1>9. ASSUME NEW r \in Requests, TimedOut(r) PROVE WaitersInv'
  <2>1. Waiting' = Waiting
    BY <1>9 DEF TimedOut, Answer, Waiting
  <2> QED BY <1>9, <2>1 DEF TimedOut
<1>10. ASSUME NEW c \in Sockets, Connect(c) PROVE WaitersInv'
  <2>1. Waiting' = Waiting
    BY <1>10 DEF Connect, Waiting
  <2> QED BY <1>10, <2>1 DEF Connect
<1>11. ASSUME NEW c \in Sockets, Opened(c) PROVE WaitersInv'
  BY <1>0, <1>11 DEF Opened
<1>12. ASSUME NEW c \in Sockets, HandlerGranted(c) PROVE WaitersInv'
  BY <1>0, <1>12 DEF HandlerGranted, Holds
<1>13. ASSUME NEW c \in Sockets, HandlerSent(c) PROVE WaitersInv'
  BY <1>0, <1>13 DEF HandlerSent, Release
<1>14. ASSUME NEW c \in Sockets, HandlerSendFailed(c) PROVE WaitersInv'
  BY <1>0, <1>14 DEF HandlerSendFailed, End, Remove, Release
<1>15. ASSUME NEW c \in Sockets, Receive(c) PROVE WaitersInv'
  BY <1>0, <1>15 DEF Receive, NextPc, Stale
<1>16. ASSUME NEW c \in Sockets, Disconnected(c) PROVE WaitersInv'
  BY <1>0, <1>16 DEF Disconnected, End, Remove, KeepLock
<1>17. ASSUME NEW c \in Sockets, Drop(c) PROVE WaitersInv'
  BY <1>0, <1>17 DEF Drop
<1>18. ASSUME NEW c \in Sockets, AgentHeartbeat(c) PROVE WaitersInv'
  BY <1>0, <1>18 DEF AgentHeartbeat, Send
<1>19. ASSUME NEW c \in Sockets, NEW r \in Requests, AgentReply(c, r) PROVE WaitersInv'
  BY <1>0, <1>19 DEF AgentReply, Send
<1>20. CASE UNCHANGED vars
  BY <1>0, <1>20 DEF vars
<1> QED BY <1>1, <1>2, <1>3, <1>4, <1>5, <1>6, <1>7, <1>8, <1>9, <1>10, <1>11, <1>12,
         <1>13, <1>14, <1>15, <1>16, <1>17, <1>18, <1>19, <1>20
         DEF Next, RequestStep, HandlerStep

-----------------------------------------------------------------------------
(* Messages from the agent *)

(* A response that is received was sent: its request is one the agent       *)
(* answered.                                                                *)
LEMMA FirstReplied ==
    ASSUME TypeOK, InboxInv, NEW c \in Sockets, inbox[c] # <<>>,
           Head(inbox[c]).type = "forward_response"
    PROVE  Head(inbox[c]).req \in replied
<1>1. inbox[c] \in Seq(Message)
  BY DEF TypeOK
<1>2. Len(inbox[c]) \in Nat \ {0} /\ Head(inbox[c]) = inbox[c][1]
  BY <1>1, EmptySeq
<1> QED BY <1>2 DEF InboxInv

(* Messages in flight stay answers the agent has given.                     *)
LEMMA StepInbox == IInv /\ [Next]_vars => InboxInv'
<1> SUFFICES ASSUME IInv, [Next]_vars PROVE InboxInv'
  OBVIOUS
<1>0. UNCHANGED <<inbox, replied>> => InboxInv'
  BY DEF IInv, TypeOK, InboxInv
<1>1. ASSUME NEW r \in Requests, ArriveConnected(r) PROVE InboxInv'
  BY <1>0, <1>1 DEF ArriveConnected, Register, Write,
     socketVars, requestVars
<1>2. ASSUME NEW r \in Requests, ArriveDisconnected(r) PROVE InboxInv'
  BY <1>0, <1>2 DEF ArriveDisconnected, Answer, socketVars,
     requestVars
<1>3. ASSUME NEW r \in Requests, WaitTimeout(r) PROVE InboxInv'
  BY <1>0, <1>3 DEF WaitTimeout, socketVars, requestVars
<1>4. ASSUME NEW r \in Requests, Resume(r) PROVE InboxInv'
  BY <1>0, <1>4 DEF Resume, Register, Write, Answer, socketVars, requestVars
<1>5. ASSUME NEW r \in Requests, Granted(r) PROVE InboxInv'
  BY <1>0, <1>5 DEF Granted, Write, Answer, KeepLock, Release, Holds,
     socketVars, requestVars
<1>6. ASSUME NEW r \in Requests, Sent(r) PROVE InboxInv'
  BY <1>0, <1>6 DEF Sent, Release, socketVars, requestVars
<1>7. ASSUME NEW r \in Requests, SendFailed(r) PROVE InboxInv'
  BY <1>0, <1>7 DEF SendFailed, Release, Answer, socketVars, requestVars
<1>8. ASSUME NEW r \in Requests, Completed(r) PROVE InboxInv'
  BY <1>0, <1>8 DEF Completed, Answer, socketVars, requestVars
<1>9. ASSUME NEW r \in Requests, TimedOut(r) PROVE InboxInv'
  BY <1>0, <1>9 DEF TimedOut, Answer, socketVars, requestVars
<1>10. ASSUME NEW c \in Sockets, Connect(c) PROVE InboxInv'
  BY <1>0, <1>10 DEF Connect, socketVars, requestVars
<1>11. ASSUME NEW c \in Sockets, Opened(c) PROVE InboxInv'
  BY <1>0, <1>11 DEF Opened, socketVars, requestVars
<1>12. ASSUME NEW c \in Sockets, HandlerGranted(c) PROVE InboxInv'
  BY <1>0, <1>12 DEF HandlerGranted, Holds, socketVars, requestVars
<1>13. ASSUME NEW c \in Sockets, HandlerSent(c) PROVE InboxInv'
  BY <1>0, <1>13 DEF HandlerSent, Release, socketVars, requestVars
<1>14. ASSUME NEW c \in Sockets, HandlerSendFailed(c) PROVE InboxInv'
  BY <1>0, <1>14 DEF HandlerSendFailed, End, Remove, Release, socketVars,
     requestVars
<1>15. ASSUME NEW c \in Sockets, Receive(c) PROVE InboxInv'
  <2>1. /\ inbox[c] \in Seq(Message) /\ inbox[c] # <<>>
        /\ inbox' = [inbox EXCEPT ![c] = Tail(inbox[c])]
        /\ replied' = replied
    BY <1>15 DEF Receive, IInv, TypeOK
  <2>2. /\ Tail(inbox[c]) \in Seq(Message)
        /\ Len(inbox[c]) \in Nat
        /\ Len(Tail(inbox[c])) = Len(inbox[c]) - 1
        /\ \A i \in 1 .. Len(Tail(inbox[c])) : Tail(inbox[c])[i] = inbox[c][i + 1]
    BY <2>1, HeadTailProperties, LenProperties
  <2>3. inbox' \in [Sockets -> Seq(Message)]
    BY <2>1, <2>2 DEF IInv, TypeOK
  <2>4. \A d \in Sockets : \A i \in 1 .. Len(inbox'[d]) :
          inbox'[d][i].type = "forward_response" => inbox'[d][i].req \in replied'
    <3> SUFFICES ASSUME NEW d \in Sockets, NEW i \in 1 .. Len(inbox'[d]),
                        inbox'[d][i].type = "forward_response"
                 PROVE  inbox'[d][i].req \in replied'
      OBVIOUS
    <3>1. CASE d # c
      BY <2>1, <3>1 DEF IInv, InboxInv, TypeOK
    <3>2. CASE d = c
      <4>1. inbox'[c] = Tail(inbox[c])
        BY <2>1 DEF IInv, TypeOK
      <4>2. i + 1 \in 1 .. Len(inbox[c])
        BY <2>2, <3>2, <4>1
      <4> QED BY <2>1, <2>2, <3>2, <4>1, <4>2 DEF IInv, InboxInv
    <3> QED BY <3>1, <3>2
  <2> QED BY <2>3, <2>4 DEF InboxInv
<1>16. ASSUME NEW c \in Sockets, Disconnected(c) PROVE InboxInv'
  BY <1>0, <1>16 DEF Disconnected, End, Remove, KeepLock, socketVars, requestVars
<1>17. ASSUME NEW c \in Sockets, Drop(c) PROVE InboxInv'
  BY <1>0, <1>17 DEF Drop, socketVars, requestVars
<1>18. ASSUME NEW c \in Sockets, AgentHeartbeat(c) PROVE InboxInv'
  <2>1. PICK k \in {None, hcid[c]} : Send(c, [type |-> "heartbeat", cid |-> k])
    BY <1>18 DEF AgentHeartbeat
  <2> DEFINE m == [type |-> "heartbeat", cid |-> k]
  <2>2. m \in Message
    BY NamesAssumption DEF Message, IInv, TypeOK
  <2>3. inbox' = [inbox EXCEPT ![c] = Append(@, m)]
    BY <2>1 DEF Send
  <2>4. inbox[c] \in Seq(Message)
    BY DEF IInv, TypeOK
  <2>5. /\ Append(inbox[c], m) \in Seq(Message)
        /\ Len(Append(inbox[c], m)) = Len(inbox[c]) + 1
        /\ \A i \in 1 .. Len(inbox[c]) : Append(inbox[c], m)[i] = inbox[c][i]
        /\ Append(inbox[c], m)[Len(inbox[c]) + 1] = m
    BY <2>2, <2>4, AppendProperties
  <2>6. m.type = "heartbeat" /\ replied' = replied
    BY <1>18 DEF AgentHeartbeat
  <2>7. inbox' \in [Sockets -> Seq(Message)]
    BY <2>3, <2>5 DEF IInv, TypeOK
  <2>8. \A d \in Sockets : \A i \in 1 .. Len(inbox'[d]) :
          inbox'[d][i].type = "forward_response" => inbox'[d][i].req \in replied'
    <3> SUFFICES ASSUME NEW d \in Sockets, NEW i \in 1 .. Len(inbox'[d]),
                        inbox'[d][i].type = "forward_response"
                 PROVE  inbox'[d][i].req \in replied'
      OBVIOUS
    <3>1. CASE d # c
      BY <2>3, <2>6, <3>1 DEF IInv, InboxInv, TypeOK
    <3>2. CASE d = c
      <4>1. inbox'[c] = Append(inbox[c], m)
        BY <2>3 DEF IInv, TypeOK
      <4>2. i \in 1 .. Len(inbox[c])
        BY <2>4, <2>5, <2>6, <3>2, <4>1, LenProperties
      <4> QED BY <2>5, <2>6, <3>2, <4>1, <4>2 DEF IInv, InboxInv
    <3> QED BY <3>1, <3>2
  <2> QED BY <2>7, <2>8 DEF InboxInv
<1>19. ASSUME NEW c \in Sockets, NEW r \in Requests, AgentReply(c, r) PROVE InboxInv'
  <2>1. PICK k \in {None, rcid[r], hcid[c]} :
            Send(c, [type |-> "forward_response", req |-> r, cid |-> k])
    BY <1>19 DEF AgentReply
  <2> DEFINE m == [type |-> "forward_response", req |-> r, cid |-> k]
  <2>2. m \in Message
    BY NamesAssumption DEF Message, IInv, TypeOK
  <2>3. inbox' = [inbox EXCEPT ![c] = Append(@, m)]
    BY <2>1 DEF Send
  <2>4. inbox[c] \in Seq(Message)
    BY DEF IInv, TypeOK
  <2>5. /\ Append(inbox[c], m) \in Seq(Message)
        /\ Len(Append(inbox[c], m)) = Len(inbox[c]) + 1
        /\ \A i \in 1 .. Len(inbox[c]) : Append(inbox[c], m)[i] = inbox[c][i]
        /\ Append(inbox[c], m)[Len(inbox[c]) + 1] = m
    BY <2>2, <2>4, AppendProperties
  <2>6. m.req = r /\ replied' = replied \cup {r}
    BY <1>19 DEF AgentReply
  <2>7. inbox' \in [Sockets -> Seq(Message)]
    BY <2>3, <2>5 DEF IInv, TypeOK
  <2>8. \A d \in Sockets : \A i \in 1 .. Len(inbox'[d]) :
          inbox'[d][i].type = "forward_response" => inbox'[d][i].req \in replied'
    <3> SUFFICES ASSUME NEW d \in Sockets, NEW i \in 1 .. Len(inbox'[d]),
                        inbox'[d][i].type = "forward_response"
                 PROVE  inbox'[d][i].req \in replied'
      OBVIOUS
    <3>1. CASE d # c
      BY <2>3, <2>6, <3>1 DEF IInv, InboxInv, TypeOK
    <3>2. CASE d = c
      <4>1. inbox'[c] = Append(inbox[c], m)
        BY <2>3 DEF IInv, TypeOK
      <4>2. i \in 1 .. Len(inbox[c]) \/ i = Len(inbox[c]) + 1
        BY <2>4, <2>5, <3>2, <4>1, LenProperties
      <4> QED BY <2>5, <2>6, <3>2, <4>1, <4>2 DEF IInv, InboxInv
    <3> QED BY <3>1, <3>2
  <2> QED BY <2>7, <2>8 DEF InboxInv
<1>20. CASE UNCHANGED vars
  BY <1>0, <1>20 DEF vars
<1> QED BY <1>1, <1>2, <1>3, <1>4, <1>5, <1>6, <1>7, <1>8, <1>9, <1>10, <1>11, <1>12,
         <1>13, <1>14, <1>15, <1>16, <1>17, <1>18, <1>19, <1>20
         DEF Next, RequestStep, HandlerStep

-----------------------------------------------------------------------------
(* Types, sockets, and the table of pending requests *)

(* What _forward_via_websocket does before its first suspension, whether    *)
(* the lock is free or not.                                                 *)
LEMMA RegisterFacts ==
    ASSUME TypeOK, NEW r \in Requests, ws # None, Register(r)
    PROVE  \E p \in {"lock", "sending"}, t \in Sockets \cup {None} :
              /\ pending' = pending \cup {r}
              /\ fut' = [fut EXCEPT ![r] = "waiting"]
              /\ rcid' = [rcid EXCEPT ![r] = ws]
              /\ rpc' = [rpc EXCEPT ![r] = p]
              /\ target' = [target EXCEPT ![r] = t]
              /\ asked' \in {asked, asked \cup {r}}
              /\ p = "lock" => asked' = asked
              /\ outcome' = outcome
<1> USE DEF TypeOK
<1>1. CASE sendQ = <<>>
  <2>1. /\ pending' = pending \cup {r}
        /\ fut' = [fut EXCEPT ![r] = "waiting"]
        /\ rcid' = [rcid EXCEPT ![r] = ws]
        /\ rpc' = [rpc EXCEPT ![r] = "sending"]
        /\ target' = [target EXCEPT ![r] = ws]
        /\ outcome' = outcome
    BY <1>1 DEF Register, Write
  <2>2. asked' \in {asked, asked \cup {r}}
    BY <1>1 DEF Register, Write
  <2> QED BY <2>1, <2>2
<1>2. CASE sendQ # <<>>
  <2>1. /\ pending' = pending \cup {r}
        /\ fut' = [fut EXCEPT ![r] = "waiting"]
        /\ rcid' = [rcid EXCEPT ![r] = ws]
        /\ rpc' = [rpc EXCEPT ![r] = "lock"]
        /\ target' = target
        /\ asked' = asked
        /\ outcome' = outcome
    BY <1>2 DEF Register
  <2>2. target = [target EXCEPT ![r] = target[r]] /\ target[r] \in Sockets \cup {None}
    OBVIOUS
  <2> QED BY <2>1, <2>2
<1> QED BY <1>1, <1>2

(* Every step keeps the types; waiters stays a number because it counts.    *)
LEMMA StepType == IInv /\ [Next]_vars => TypeOK'
<1> SUFFICES ASSUME IInv, [Next]_vars PROVE TypeOK'
  OBVIOUS
<1>0. /\ waiters' \in Nat
      /\ sendQ' \in Seq(Sockets \cup Requests)
      /\ inbox' \in [Sockets -> Seq(Message)]
  <2>1. IsFiniteSet(Waiting') /\ waiters' = Cardinality(Waiting')
    BY StepWaiters DEF WaitersInv, WaitersAccounted, Waiting
  <2>2. Cardinality(Waiting') \in Nat
    BY <2>1, FS_CardinalityType
  <2> QED BY <2>1, <2>2, StepQueue, StepInbox DEF QueueInv, InboxInv
<1> USE NamesAssumption DEF IInv, TypeOK, socketVars, requestVars, SocketState,
        HandlerState, RequestState, FutureState, Outcome
<1>1. ASSUME NEW r \in Requests, ArriveConnected(r) PROVE TypeOK'
  <2>1. ws # None /\ Register(r) /\ rpc[r] = "new" /\ UNCHANGED <<socketVars, replied>>
    BY <1>1 DEF ArriveConnected
  <2>2. PICK p \in {"lock", "sending"}, t \in Sockets \cup {None} :
          /\ pending' = pending \cup {r}
          /\ fut' = [fut EXCEPT ![r] = "waiting"]
          /\ rcid' = [rcid EXCEPT ![r] = ws]
          /\ rpc' = [rpc EXCEPT ![r] = p]
          /\ target' = [target EXCEPT ![r] = t]
          /\ asked' \in {asked, asked \cup {r}}
          /\ p = "lock" => asked' = asked
          /\ outcome' = outcome
    BY <2>1, <2>1, RegisterFacts
  <2> QED BY <1>0, <2>1, <2>1, <2>2
<1>2. ASSUME NEW r \in Requests, ArriveDisconnected(r) PROVE TypeOK'
  <2>1. PICK p \in {"waiting", "done"} : rpc' = [rpc EXCEPT ![r] = p]
    BY <1>2 DEF ArriveDisconnected, Answer
  <2>2. /\ pending' \subseteq pending
        /\ outcome' = outcome \/ outcome' = [outcome EXCEPT ![r] = "unavailable"]
        /\ UNCHANGED <<socketVars, fut, rcid, target, asked, replied>>
    BY <1>2 DEF ArriveDisconnected, Answer
  <2>3. outcome' \in [Requests -> Outcome]
    BY <2>2
  <2>4. rpc' \in [Requests -> RequestState]
    BY <2>1
  <2> QED BY <1>0, <2>2, <2>3, <2>4
<1>3. ASSUME NEW r \in Requests, WaitTimeout(r) PROVE TypeOK'
  BY <1>0, <1>3 DEF WaitTimeout
<1>4. ASSUME NEW r \in Requests, Resume(r) PROVE TypeOK'
  <2>1. CASE ws # None
    <3>1. Register(r) /\ rpc[r] = "woken" /\ UNCHANGED <<socketVars, replied>>
      BY <1>4, <2>1 DEF Resume
    <3>2. PICK p \in {"lock", "sending"}, t \in Sockets \cup {None} :
            /\ pending' = pending \cup {r}
            /\ fut' = [fut EXCEPT ![r] = "waiting"]
            /\ rcid' = [rcid EXCEPT ![r] = ws]
            /\ rpc' = [rpc EXCEPT ![r] = p]
            /\ target' = [target EXCEPT ![r] = t]
            /\ asked' \in {asked, asked \cup {r}}
            /\ p = "lock" => asked' = asked
            /\ outcome' = outcome
      BY <2>1, <3>1, RegisterFacts
    <3> QED BY <1>0, <2>1, <3>1, <3>2
  <2>2. CASE ws = None
    BY <1>0, <1>4, <2>2 DEF Resume, Answer
  <2> QED BY <2>1, <2>2
<1>5. ASSUME NEW r \in Requests, Granted(r) PROVE TypeOK'
  <2>1. CASE ws # None
    <3>1. asked' \in {asked, asked \cup {r}}
      BY <1>5, <2>1 DEF Granted, Write
    <3>2. rpc' = [rpc EXCEPT ![r] = "sending"] /\ target' = [target EXCEPT ![r] = ws]
      BY <1>5, <2>1 DEF Granted, Write
    <3>3. UNCHANGED <<socketVars, pending, fut, rcid, outcome, replied>>
      BY <1>5, <2>1 DEF Granted
    <3>4. rpc' \in [Requests -> RequestState] /\ target' \in [Requests -> Sockets \cup {None}]
      BY <3>2
    <3> QED BY <1>0, <3>1, <3>3, <3>4
  <2>2. CASE ws = None
    <3>1. rpc' = [rpc EXCEPT ![r] = "done"] /\ outcome' = [outcome EXCEPT ![r] = "failed"]
      BY <1>5, <2>2 DEF Granted, Answer
    <3>2. pending' \subseteq pending /\ UNCHANGED <<socketVars, fut, rcid, target, asked, replied>>
      BY <1>5, <2>2 DEF Granted, Answer
    <3>3. rpc' \in [Requests -> RequestState] /\ outcome' \in [Requests -> Outcome]
      BY <3>1
    <3> QED BY <1>0, <3>2, <3>3
  <2> QED BY <2>1, <2>2
<1>6. ASSUME NEW r \in Requests, Sent(r) PROVE TypeOK'
  BY <1>0, <1>6 DEF Sent, Release
<1>7. ASSUME NEW r \in Requests, SendFailed(r) PROVE TypeOK'
  BY <1>0, <1>7 DEF SendFailed, Release, Answer
<1>8. ASSUME NEW r \in Requests, Completed(r) PROVE TypeOK'
  BY <1>0, <1>8 DEF Completed, Answer
<1>9. ASSUME NEW r \in Requests, TimedOut(r) PROVE TypeOK'
  BY <1>0, <1>9 DEF TimedOut, Answer
<1>10. ASSUME NEW c \in Sockets, Connect(c) PROVE TypeOK'
  BY <1>0, <1>10 DEF Connect
<1>11. ASSUME NEW c \in Sockets, Opened(c) PROVE TypeOK'
  BY <1>0, <1>11 DEF Opened
<1>12. ASSUME NEW c \in Sockets, HandlerGranted(c) PROVE TypeOK'
  BY <1>0, <1>12 DEF HandlerGranted, Holds
<1>13. ASSUME NEW c \in Sockets, HandlerSent(c) PROVE TypeOK'
  BY <1>0, <1>13 DEF HandlerSent, Release
<1>14. ASSUME NEW c \in Sockets, HandlerSendFailed(c) PROVE TypeOK'
  BY <1>0, <1>14 DEF HandlerSendFailed, End, Remove, Release
<1>15. ASSUME NEW c \in Sockets, Receive(c) PROVE TypeOK'
  <2>1. /\ UNCHANGED <<ws, sock, hcid, rpc, rcid, target, outcome, asked, replied>>
        /\ pending' \subseteq pending
    BY <1>15 DEF Receive
  <2>2. hpc' \in [Sockets -> HandlerState]
    BY <1>15 DEF Receive, NextPc
  <2>3. fut' \in [Requests -> FutureState]
    <3> DEFINE m == Head(inbox[c])
    <3>1. fut' = fut \/ \E f \in {fut[m.req], "replied", "mismatched"} :
                           fut' = [fut EXCEPT ![m.req] = f]
      BY <1>15 DEF Receive
    <3>2. ASSUME NEW q \in Requests PROVE fut'[q] \in FutureState
      BY <3>1
    <3> QED BY <3>1, <3>2
  <2> QED BY <1>0, <2>1, <2>2, <2>3
<1>16. ASSUME NEW c \in Sockets, Disconnected(c) PROVE TypeOK'
  BY <1>0, <1>16 DEF Disconnected, End, Remove, KeepLock
<1>17. ASSUME NEW c \in Sockets, Drop(c) PROVE TypeOK'
  BY <1>0, <1>17 DEF Drop
<1>18. ASSUME NEW c \in Sockets, AgentHeartbeat(c) PROVE TypeOK'
  BY <1>0, <1>18 DEF AgentHeartbeat, Send
<1>19. ASSUME NEW c \in Sockets, NEW r \in Requests, AgentReply(c, r) PROVE TypeOK'
  BY <1>0, <1>19 DEF AgentReply, Send
<1>20. CASE UNCHANGED vars
  BY <1>0, <1>20 DEF vars
<1> QED BY <1>1, <1>2, <1>3, <1>4, <1>5, <1>6, <1>7, <1>8, <1>9, <1>10, <1>11, <1>12,
         <1>13, <1>14, <1>15, <1>16, <1>17, <1>18, <1>19, <1>20
         DEF Next, RequestStep, HandlerStep

(* Every step leaves open only the socket that is installed.                *)
LEMMA StepSocket == IInv /\ [Next]_vars => SocketInv'
<1> SUFFICES ASSUME IInv, [Next]_vars PROVE SocketInv'
  OBVIOUS
<1> USE NamesAssumption DEF IInv, TypeOK, SocketInv, socketVars, requestVars
<1>1. ASSUME NEW r \in Requests, ArriveConnected(r) PROVE SocketInv'
  BY <1>1 DEF ArriveConnected, Register, Write
<1>2. ASSUME NEW r \in Requests, ArriveDisconnected(r) PROVE SocketInv'
  BY <1>2 DEF ArriveDisconnected, Answer
<1>3. ASSUME NEW r \in Requests, WaitTimeout(r) PROVE SocketInv'
  BY <1>3 DEF WaitTimeout
<1>4. ASSUME NEW r \in Requests, Resume(r) PROVE SocketInv'
  BY <1>4 DEF Resume, Register, Write, Answer
<1>5. ASSUME NEW r \in Requests, Granted(r) PROVE SocketInv'
  BY <1>5 DEF Granted, Write, Answer, KeepLock, Release, Holds
<1>6. ASSUME NEW r \in Requests, Sent(r) PROVE SocketInv'
  BY <1>6 DEF Sent, Release
<1>7. ASSUME NEW r \in Requests, SendFailed(r) PROVE SocketInv'
  BY <1>7 DEF SendFailed, Release, Answer
<1>8. ASSUME NEW r \in Requests, Completed(r) PROVE SocketInv'
  BY <1>8 DEF Completed, Answer
<1>9. ASSUME NEW r \in Requests, TimedOut(r) PROVE SocketInv'
  BY <1>9 DEF TimedOut, Answer
<1>10. ASSUME NEW c \in Sockets, Connect(c) PROVE SocketInv'
  BY <1>10 DEF Connect
<1>11. ASSUME NEW c \in Sockets, Opened(c) PROVE SocketInv'
  BY <1>11 DEF Opened
<1>12. ASSUME NEW c \in Sockets, HandlerGranted(c) PROVE SocketInv'
  BY <1>12 DEF HandlerGranted, Holds
<1>13. ASSUME NEW c \in Sockets, HandlerSent(c) PROVE SocketInv'
  BY <1>13 DEF HandlerSent, Release
<1>14. ASSUME NEW c \in Sockets, HandlerSendFailed(c) PROVE SocketInv'
  BY <1>14 DEF HandlerSendFailed, End, Remove, Release
<1>15. ASSUME NEW c \in Sockets, Receive(c) PROVE SocketInv'
  BY <1>15 DEF Receive, NextPc, Stale
<1>16. ASSUME NEW c \in Sockets, Disconnected(c) PROVE SocketInv'
  BY <1>16 DEF Disconnected, End, Remove, KeepLock
<1>17. ASSUME NEW c \in Sockets, Drop(c) PROVE SocketInv'
  BY <1>17 DEF Drop
<1>18. ASSUME NEW c \in Sockets, AgentHeartbeat(c) PROVE SocketInv'
  BY <1>18 DEF AgentHeartbeat, Send
<1>19. ASSUME NEW c \in Sockets, NEW r \in Requests, AgentReply(c, r) PROVE SocketInv'
  BY <1>19 DEF AgentReply, Send
<1>20. CASE UNCHANGED vars
  BY <1>20 DEF vars
<1> QED BY <1>1, <1>2, <1>3, <1>4, <1>5, <1>6, <1>7, <1>8, <1>9, <1>10, <1>11, <1>12,
         <1>13, <1>14, <1>15, <1>16, <1>17, <1>18, <1>19, <1>20
         DEF Next, RequestStep, HandlerStep

(* No step leaves a pending request while no tunnel is installed.           *)
LEMMA StepOrphans == IInv /\ [Next]_vars => NoOrphans'
<1> SUFFICES ASSUME IInv, [Next]_vars PROVE NoOrphans'
  OBVIOUS
<1> USE NamesAssumption DEF IInv, TypeOK, NoOrphans, socketVars, requestVars
<1>1. ASSUME NEW r \in Requests, ArriveConnected(r) PROVE NoOrphans'
  BY <1>1 DEF ArriveConnected, Register, Write
<1>2. ASSUME NEW r \in Requests, ArriveDisconnected(r) PROVE NoOrphans'
  BY <1>2 DEF ArriveDisconnected, Answer
<1>3. ASSUME NEW r \in Requests, WaitTimeout(r) PROVE NoOrphans'
  BY <1>3 DEF WaitTimeout
<1>4. ASSUME NEW r \in Requests, Resume(r) PROVE NoOrphans'
  BY <1>4 DEF Resume, Register, Write, Answer
<1>5. ASSUME NEW r \in Requests, Granted(r) PROVE NoOrphans'
  BY <1>5 DEF Granted, Write, Answer, KeepLock, Release, Holds
<1>6. ASSUME NEW r \in Requests, Sent(r) PROVE NoOrphans'
  BY <1>6 DEF Sent, Release
<1>7. ASSUME NEW r \in Requests, SendFailed(r) PROVE NoOrphans'
  BY <1>7 DEF SendFailed, Release, Answer
<1>8. ASSUME NEW r \in Requests, Completed(r) PROVE NoOrphans'
  BY <1>8 DEF Completed, Answer
<1>9. ASSUME NEW r \in Requests, TimedOut(r) PROVE NoOrphans'
  BY <1>9 DEF TimedOut, Answer
<1>10. ASSUME NEW c \in Sockets, Connect(c) PROVE NoOrphans'
  BY <1>10 DEF Connect
<1>11. ASSUME NEW c \in Sockets, Opened(c) PROVE NoOrphans'
  BY <1>11 DEF Opened
<1>12. ASSUME NEW c \in Sockets, HandlerGranted(c) PROVE NoOrphans'
  BY <1>12 DEF HandlerGranted, Holds
<1>13. ASSUME NEW c \in Sockets, HandlerSent(c) PROVE NoOrphans'
  BY <1>13 DEF HandlerSent, Release
<1>14. ASSUME NEW c \in Sockets, HandlerSendFailed(c) PROVE NoOrphans'
  BY <1>14 DEF HandlerSendFailed, End, Remove, Release
<1>15. ASSUME NEW c \in Sockets, Receive(c) PROVE NoOrphans'
  BY <1>15 DEF Receive, NextPc, Stale
<1>16. ASSUME NEW c \in Sockets, Disconnected(c) PROVE NoOrphans'
  BY <1>16 DEF Disconnected, End, Remove, KeepLock
<1>17. ASSUME NEW c \in Sockets, Drop(c) PROVE NoOrphans'
  BY <1>17 DEF Drop
<1>18. ASSUME NEW c \in Sockets, AgentHeartbeat(c) PROVE NoOrphans'
  BY <1>18 DEF AgentHeartbeat, Send
<1>19. ASSUME NEW c \in Sockets, NEW r \in Requests, AgentReply(c, r) PROVE NoOrphans'
  BY <1>19 DEF AgentReply, Send
<1>20. CASE UNCHANGED vars
  BY <1>20 DEF vars
<1> QED BY <1>1, <1>2, <1>3, <1>4, <1>5, <1>6, <1>7, <1>8, <1>9, <1>10, <1>11, <1>12,
         <1>13, <1>14, <1>15, <1>16, <1>17, <1>18, <1>19, <1>20
         DEF Next, RequestStep, HandlerStep

(* Every step keeps the table and the requests under way in agreement.      *)
LEMMA StepPending == IInv /\ [Next]_vars => PendingAccounted'
<1> SUFFICES ASSUME IInv, [Next]_vars PROVE PendingAccounted'
  OBVIOUS
<1> USE NamesAssumption DEF IInv, TypeOK, PendingAccounted, NoOrphans,
        socketVars, requestVars
<1>1. ASSUME NEW r \in Requests, ArriveConnected(r) PROVE PendingAccounted'
  BY <1>1 DEF ArriveConnected, Register, Write
<1>2. ASSUME NEW r \in Requests, ArriveDisconnected(r) PROVE PendingAccounted'
  BY <1>2 DEF ArriveDisconnected, Answer
<1>3. ASSUME NEW r \in Requests, WaitTimeout(r) PROVE PendingAccounted'
  BY <1>3 DEF WaitTimeout
<1>4. ASSUME NEW r \in Requests, Resume(r) PROVE PendingAccounted'
  <2>1. CASE ws # None
    <3>1. Register(r) /\ rpc[r] = "woken" /\ UNCHANGED <<socketVars, replied>>
      BY <1>4, <2>1 DEF Resume
    <3>2. PICK p \in {"lock", "sending"}, t \in Sockets \cup {None} :
            /\ pending' = pending \cup {r}
            /\ fut' = [fut EXCEPT ![r] = "waiting"]
            /\ rcid' = [rcid EXCEPT ![r] = ws]
            /\ rpc' = [rpc EXCEPT ![r] = p]
            /\ target' = [target EXCEPT ![r] = t]
            /\ asked' \in {asked, asked \cup {r}}
            /\ p = "lock" => asked' = asked
            /\ outcome' = outcome
      BY <2>1, <3>1, RegisterFacts
    <3> QED BY <2>1, <3>1, <3>2
  <2>2. CASE ws = None
    BY <1>4, <2>2 DEF Resume, Answer
  <2> QED BY <2>1, <2>2
<1>5. ASSUME NEW r \in Requests, Granted(r) PROVE PendingAccounted'
  BY <1>5 DEF Granted, Write, Answer, KeepLock, Release, Holds
<1>6. ASSUME NEW r \in Requests, Sent(r) PROVE PendingAccounted'
  BY <1>6 DEF Sent, Release
<1>7. ASSUME NEW r \in Requests, SendFailed(r) PROVE PendingAccounted'
  BY <1>7 DEF SendFailed, Release, Answer
<1>8. ASSUME NEW r \in Requests, Completed(r) PROVE PendingAccounted'
  BY <1>8 DEF Completed, Answer
<1>9. ASSUME NEW r \in Requests, TimedOut(r) PROVE PendingAccounted'
  BY <1>9 DEF TimedOut, Answer
<1>10. ASSUME NEW c \in Sockets, Connect(c) PROVE PendingAccounted'
  BY <1>10 DEF Connect
<1>11. ASSUME NEW c \in Sockets, Opened(c) PROVE PendingAccounted'
  BY <1>11 DEF Opened
<1>12. ASSUME NEW c \in Sockets, HandlerGranted(c) PROVE PendingAccounted'
  BY <1>12 DEF HandlerGranted, Holds
<1>13. ASSUME NEW c \in Sockets, HandlerSent(c) PROVE PendingAccounted'
  BY <1>13 DEF HandlerSent, Release
<1>14. ASSUME NEW c \in Sockets, HandlerSendFailed(c) PROVE PendingAccounted'
  BY <1>14 DEF HandlerSendFailed, End, Remove, Release
<1>15. ASSUME NEW c \in Sockets, Receive(c) PROVE PendingAccounted'
  BY <1>15 DEF Receive, NextPc, Stale
<1>16. ASSUME NEW c \in Sockets, Disconnected(c) PROVE PendingAccounted'
  BY <1>16 DEF Disconnected, End, Remove, KeepLock
<1>17. ASSUME NEW c \in Sockets, Drop(c) PROVE PendingAccounted'
  BY <1>17 DEF Drop
<1>18. ASSUME NEW c \in Sockets, AgentHeartbeat(c) PROVE PendingAccounted'
  BY <1>18 DEF AgentHeartbeat, Send
<1>19. ASSUME NEW c \in Sockets, NEW r \in Requests, AgentReply(c, r) PROVE PendingAccounted'
  BY <1>19 DEF AgentReply, Send
<1>20. CASE UNCHANGED vars
  BY <1>20 DEF vars
<1> QED BY <1>1, <1>2, <1>3, <1>4, <1>5, <1>6, <1>7, <1>8, <1>9, <1>10, <1>11, <1>12,
         <1>13, <1>14, <1>15, <1>16, <1>17, <1>18, <1>19, <1>20
         DEF Next, RequestStep, HandlerStep

(* A future is failed by a lost connection only when the one it was         *)
(* registered on is down: the socket removed is the installed one, and      *)
(* every older one is closed.                                               *)
LEMMA StepLoss == IInv /\ [Next]_vars => LossInv'
<1> SUFFICES ASSUME IInv, [Next]_vars PROVE LossInv'
  OBVIOUS
<1> USE NamesAssumption DEF IInv, TypeOK, LossInv, LostOnlyIfLost, SocketInv,
        PendingAccounted, NoOrphans, CallerInv, socketVars, requestVars
<1>1. ASSUME NEW r \in Requests, ArriveConnected(r) PROVE LossInv'
  <2>1. ws # None /\ Register(r) /\ rpc[r] = "new" /\ UNCHANGED <<socketVars, replied>>
    BY <1>1 DEF ArriveConnected
  <2>2. PICK p \in {"lock", "sending"}, t \in Sockets \cup {None} :
          /\ pending' = pending \cup {r}
          /\ fut' = [fut EXCEPT ![r] = "waiting"]
          /\ rcid' = [rcid EXCEPT ![r] = ws]
          /\ rpc' = [rpc EXCEPT ![r] = p]
          /\ target' = [target EXCEPT ![r] = t]
          /\ asked' \in {asked, asked \cup {r}}
          /\ p = "lock" => asked' = asked
          /\ outcome' = outcome
    BY <2>1, <2>1, RegisterFacts
  <2>3. ws \in Sockets /\ sock[ws] # "unused" /\ sock' = sock
    BY <2>1, <2>1
  <2>4. outcome[r] = "none" /\ fut'[r] = "waiting" /\ rcid'[r] = ws
    BY <2>1, <2>1, <2>2
  <2>5. \A q \in Requests : q # r => fut'[q] = fut[q] /\ rcid'[q] = rcid[q]
    BY <2>2
  <2> QED BY <2>2, <2>3, <2>4, <2>5
<1>2. ASSUME NEW r \in Requests, ArriveDisconnected(r) PROVE LossInv'
  BY <1>2 DEF ArriveDisconnected, Answer
<1>3. ASSUME NEW r \in Requests, WaitTimeout(r) PROVE LossInv'
  BY <1>3 DEF WaitTimeout
<1>4. ASSUME NEW r \in Requests, Resume(r) PROVE LossInv'
  <2>1. CASE ws # None
    <3>1. Register(r) /\ rpc[r] = "woken" /\ UNCHANGED <<socketVars, replied>>
      BY <1>4, <2>1 DEF Resume
    <3>2. PICK p \in {"lock", "sending"}, t \in Sockets \cup {None} :
            /\ pending' = pending \cup {r}
            /\ fut' = [fut EXCEPT ![r] = "waiting"]
            /\ rcid' = [rcid EXCEPT ![r] = ws]
            /\ rpc' = [rpc EXCEPT ![r] = p]
            /\ target' = [target EXCEPT ![r] = t]
            /\ asked' \in {asked, asked \cup {r}}
            /\ p = "lock" => asked' = asked
            /\ outcome' = outcome
      BY <2>1, <3>1, RegisterFacts
    <3>3. ws \in Sockets /\ sock[ws] # "unused" /\ sock' = sock
      BY <2>1, <3>1
    <3>4. outcome[r] = "none" /\ fut'[r] = "waiting" /\ rcid'[r] = ws
      BY <2>1, <3>1, <3>2
    <3>5. \A q \in Requests : q # r => fut'[q] = fut[q] /\ rcid'[q] = rcid[q]
      BY <3>2
    <3> QED BY <3>2, <3>3, <3>4, <3>5
  <2>2. CASE ws = None
    BY <1>4, <2>2 DEF Resume, Answer
  <2> QED BY <2>1, <2>2
<1>5. ASSUME NEW r \in Requests, Granted(r) PROVE LossInv'
  BY <1>5 DEF Granted, Write, Answer, KeepLock, Release, Holds
<1>6. ASSUME NEW r \in Requests, Sent(r) PROVE LossInv'
  BY <1>6 DEF Sent, Release
<1>7. ASSUME NEW r \in Requests, SendFailed(r) PROVE LossInv'
  BY <1>7 DEF SendFailed, Release, Answer
<1>8. ASSUME NEW r \in Requests, Completed(r) PROVE LossInv'
  BY <1>8 DEF Completed, Answer
<1>9. ASSUME NEW r \in Requests, TimedOut(r) PROVE LossInv'
  BY <1>9 DEF TimedOut, Answer
<1>10. ASSUME NEW c \in Sockets, Connect(c) PROVE LossInv'
  BY <1>10 DEF Connect
<1>11. ASSUME NEW c \in Sockets, Opened(c) PROVE LossInv'
  BY <1>11 DEF Opened
<1>12. ASSUME NEW c \in Sockets, HandlerGranted(c) PROVE LossInv'
  BY <1>12 DEF HandlerGranted, Holds
<1>13. ASSUME NEW c \in Sockets, HandlerSent(c) PROVE LossInv'
  BY <1>13 DEF HandlerSent, Release
<1>14. ASSUME NEW c \in Sockets, HandlerSendFailed(c) PROVE LossInv'
  <2>1. sock' = [sock EXCEPT ![c] = "closed"] /\ UNCHANGED <<rcid, outcome>>
    BY <1>14 DEF HandlerSendFailed, End
  <2>2. CASE ws = c
    <3>1. /\ pending' = {}
          /\ \A r \in Requests : fut'[r] = "closed" => r \in pending \/ fut[r] = "closed"
      BY <1>14, <2>2 DEF HandlerSendFailed, End, Remove
    <3>2. \A r \in pending : sock'[rcid[r]] = "closed"
      <4> SUFFICES ASSUME NEW r \in pending PROVE sock'[rcid[r]] = "closed"
        OBVIOUS
      <4>1. r \in Requests /\ rcid[r] \in Sockets /\ sock[rcid[r]] # "unused"
        OBVIOUS
      <4>2. sock[rcid[r]] \in {"open", "gone", "closed"}
        BY <4>1 DEF SocketState
      <4> QED BY <2>1, <2>2, <4>1, <4>2
    <3> QED BY <2>1, <3>1, <3>2
  <2>3. CASE ws # c
    BY <1>14, <2>1, <2>3 DEF HandlerSendFailed, End, Remove
  <2> QED BY <2>2, <2>3
<1>15. ASSUME NEW c \in Sockets, Receive(c) PROVE LossInv'
  BY <1>15 DEF Receive, NextPc, Stale
<1>16. ASSUME NEW c \in Sockets, Disconnected(c) PROVE LossInv'
  <2>1. sock' = [sock EXCEPT ![c] = "closed"] /\ UNCHANGED <<rcid, outcome>>
    BY <1>16 DEF Disconnected, End
  <2>2. CASE ws = c
    <3>1. /\ pending' = {}
          /\ \A r \in Requests : fut'[r] = "closed" => r \in pending \/ fut[r] = "closed"
      BY <1>16, <2>2 DEF Disconnected, End, Remove
    <3>2. \A r \in pending : sock'[rcid[r]] = "closed"
      <4> SUFFICES ASSUME NEW r \in pending PROVE sock'[rcid[r]] = "closed"
        OBVIOUS
      <4>1. r \in Requests /\ rcid[r] \in Sockets /\ sock[rcid[r]] # "unused"
        OBVIOUS
      <4>2. sock[rcid[r]] \in {"open", "gone", "closed"}
        BY <4>1 DEF SocketState
      <4> QED BY <2>1, <2>2, <4>1, <4>2
    <3> QED BY <2>1, <3>1, <3>2
  <2>3. CASE ws # c
    BY <1>16, <2>1, <2>3 DEF Disconnected, End, Remove
  <2> QED BY <2>2, <2>3
<1>17. ASSUME NEW c \in Sockets, Drop(c) PROVE LossInv'
  BY <1>17 DEF Drop
<1>18. ASSUME NEW c \in Sockets, AgentHeartbeat(c) PROVE LossInv'
  BY <1>18 DEF AgentHeartbeat, Send
<1>19. ASSUME NEW c \in Sockets, NEW r \in Requests, AgentReply(c, r) PROVE LossInv'
  BY <1>19 DEF AgentReply, Send
<1>20. CASE UNCHANGED vars
  BY <1>20 DEF vars
<1> QED BY <1>1, <1>2, <1>3, <1>4, <1>5, <1>6, <1>7, <1>8, <1>9, <1>10, <1>11, <1>12,
         <1>13, <1>14, <1>15, <1>16, <1>17, <1>18, <1>19, <1>20
         DEF Next, RequestStep, HandlerStep

(* Outcomes come last, the agent sees no request that still waits, and a    *)
(* future is completed only by an answer of the agent.                      *)
LEMMA StepCaller == IInv /\ [Next]_vars => CallerInv'
<1> SUFFICES ASSUME IInv, [Next]_vars PROVE CallerInv'
  OBVIOUS
<1> USE NamesAssumption DEF IInv, TypeOK, CallerInv, socketVars, requestVars
<1>1. ASSUME NEW r \in Requests, ArriveConnected(r) PROVE CallerInv'
  <2>1. ws # None /\ Register(r) /\ rpc[r] = "new" /\ UNCHANGED <<socketVars, replied>>
    BY <1>1 DEF ArriveConnected
  <2>2. PICK p \in {"lock", "sending"}, t \in Sockets \cup {None} :
          /\ pending' = pending \cup {r}
          /\ fut' = [fut EXCEPT ![r] = "waiting"]
          /\ rcid' = [rcid EXCEPT ![r] = ws]
          /\ rpc' = [rpc EXCEPT ![r] = p]
          /\ target' = [target EXCEPT ![r] = t]
          /\ asked' \in {asked, asked \cup {r}}
          /\ p = "lock" => asked' = asked
          /\ outcome' = outcome
    BY <2>1, <2>1, RegisterFacts
  <2> QED BY <2>1, <2>1, <2>2
<1>2. ASSUME NEW r \in Requests, ArriveDisconnected(r) PROVE CallerInv'
  BY <1>2 DEF ArriveDisconnected, Answer
<1>3. ASSUME NEW r \in Requests, WaitTimeout(r) PROVE CallerInv'
  BY <1>3 DEF WaitTimeout
<1>4. ASSUME NEW r \in Requests, Resume(r) PROVE CallerInv'
  <2>1. CASE ws # None
    <3>1. Register(r) /\ rpc[r] = "woken" /\ UNCHANGED <<socketVars, replied>>
      BY <1>4, <2>1 DEF Resume
    <3>2. PICK p \in {"lock", "sending"}, t \in Sockets \cup {None} :
            /\ pending' = pending \cup {r}
            /\ fut' = [fut EXCEPT ![r] = "waiting"]
            /\ rcid' = [rcid EXCEPT ![r] = ws]
            /\ rpc' = [rpc EXCEPT ![r] = p]
            /\ target' = [target EXCEPT ![r] = t]
            /\ asked' \in {asked, asked \cup {r}}
            /\ p = "lock" => asked' = asked
            /\ outcome' = outcome
      BY <2>1, <3>1, RegisterFacts
    <3> QED BY <2>1, <3>1, <3>2
  <2>2. CASE ws = None
    BY <1>4, <2>2 DEF Resume, Answer
  <2> QED BY <2>1, <2>2
<1>5. ASSUME NEW r \in Requests, Granted(r) PROVE CallerInv'
  <2>1. CASE ws # None
    <3>1. asked' \in {asked, asked \cup {r}}
      BY <1>5, <2>1 DEF Granted, Write
    <3> QED BY <1>5, <2>1, <3>1 DEF Granted, Write
  <2>2. CASE ws = None
    BY <1>5, <2>2 DEF Granted, Answer
  <2> QED BY <2>1, <2>2
<1>6. ASSUME NEW r \in Requests, Sent(r) PROVE CallerInv'
  BY <1>6 DEF Sent, Release
<1>7. ASSUME NEW r \in Requests, SendFailed(r) PROVE CallerInv'
  BY <1>7 DEF SendFailed, Release, Answer
<1>8. ASSUME NEW r \in Requests, Completed(r) PROVE CallerInv'
  BY <1>8 DEF Completed, Answer
<1>9. ASSUME NEW r \in Requests, TimedOut(r) PROVE CallerInv'
  BY <1>9 DEF TimedOut, Answer
<1>10. ASSUME NEW c \in Sockets, Connect(c) PROVE CallerInv'
  BY <1>10 DEF Connect
<1>11. ASSUME NEW c \in Sockets, Opened(c) PROVE CallerInv'
  BY <1>11 DEF Opened
<1>12. ASSUME NEW c \in Sockets, HandlerGranted(c) PROVE CallerInv'
  BY <1>12 DEF HandlerGranted, Holds
<1>13. ASSUME NEW c \in Sockets, HandlerSent(c) PROVE CallerInv'
  BY <1>13 DEF HandlerSent, Release
<1>14. ASSUME NEW c \in Sockets, HandlerSendFailed(c) PROVE CallerInv'
  BY <1>14 DEF HandlerSendFailed, End, Remove, Release
<1>15. ASSUME NEW c \in Sockets, Receive(c) PROVE CallerInv'
  <2>1. UNCHANGED <<rpc, outcome, asked, replied>>
    BY <1>15 DEF Receive
  <2>2. CASE fut' = fut
    BY <2>1, <2>2
  <2>3. CASE fut' # fut
    <3> DEFINE m == Head(inbox[c])
    <3>1. /\ inbox[c] # <<>> /\ m.type = "forward_response"
          /\ m.req \in pending
          /\ \A q \in Requests : q # m.req => fut'[q] = fut[q]
      BY <1>15, <2>3 DEF Receive
    <3>2. m.req \in replied
      BY <3>1, FirstReplied
    <3> QED BY <2>1, <3>1, <3>2
  <2> QED BY <2>2, <2>3
<1>16. ASSUME NEW c \in Sockets, Disconnected(c) PROVE CallerInv'
  BY <1>16 DEF Disconnected, End, Remove, KeepLock
<1>17. ASSUME NEW c \in Sockets, Drop(c) PROVE CallerInv'
  BY <1>17 DEF Drop
<1>18. ASSUME NEW c \in Sockets, AgentHeartbeat(c) PROVE CallerInv'
  BY <1>18 DEF AgentHeartbeat, Send
<1>19. ASSUME NEW c \in Sockets, NEW r \in Requests, AgentReply(c, r) PROVE CallerInv'
  BY <1>19 DEF AgentReply, Send
<1>20. CASE UNCHANGED vars
  BY <1>20 DEF vars
<1> QED BY <1>1, <1>2, <1>3, <1>4, <1>5, <1>6, <1>7, <1>8, <1>9, <1>10, <1>11, <1>12,
         <1>13, <1>14, <1>15, <1>16, <1>17, <1>18, <1>19, <1>20
         DEF Next, RequestStep, HandlerStep

-----------------------------------------------------------------------------
(* The safety invariants *)

(* The invariant holds at the start. *)
LEMMA InitIInv == Init => IInv
<1> SUFFICES ASSUME Init PROVE IInv
  OBVIOUS
<1> USE NamesAssumption, BoundsAssumption DEF Init
<1>1. TypeOK
  BY DEF TypeOK, SocketState, HandlerState, RequestState, FutureState, Outcome
<1>2. SocketInv
  BY DEF SocketInv
<1>3. Distinct /\ Queued = {}
  BY DEF Distinct, Queued
<1>4. QueueInv
  BY <1>3 DEF QueueInv, Owners
<1>5. Waiting = {}
  BY DEF Waiting
<1>6. WaitersInv
  <2>1. IsFiniteSet(Waiting) /\ Cardinality(Waiting) = 0
    BY <1>5, FS_EmptySet
  <2>2. waiters = 0 /\ 0 <= MaxWaiters
    OBVIOUS
  <2>3. WaitersAccounted <=> waiters = Cardinality(Waiting) /\ waiters <= MaxWaiters
    BY DEF WaitersAccounted, Waiting
  <2> QED BY <2>1, <2>2, <2>3 DEF WaitersInv
<1>7. NoOrphans /\ PendingAccounted /\ CallerInv
  BY DEF NoOrphans, PendingAccounted, CallerInv
<1>8. LossInv
  BY DEF LossInv, LostOnlyIfLost
<1>9. InboxInv
  BY DEF InboxInv
<1> QED BY <1>1, <1>2, <1>3, <1>4, <1>6, <1>7, <1>8, <1>9 DEF IInv

(* Every step keeps it. *)
LEMMA StepIInv == IInv /\ [Next]_vars => IInv'
BY StepType, StepSocket, StepQueue, StepWaiters, StepOrphans, StepPending,
   StepLoss,
   StepCaller, StepInbox DEF IInv

(* The inductive invariant of the tunnel.                                   *)
THEOREM InductiveInvariant == Spec => []IInv
<1> QED BY InitIInv, StepIInv, PTL DEF Spec

(* The variables keep their types; in particular _waiters never goes below  *)
(* zero.                                                                    *)
THEOREM TypeCorrect == Spec => []TypeOK
<1>1. IInv => TypeOK
  BY DEF IInv
<1> QED BY <1>1, InductiveInvariant, PTL

(* The table of pending requests is empty whenever no tunnel is installed.  *)
THEOREM NoRequestOrphaned == Spec => []NoOrphans
<1>1. IInv => NoOrphans
  BY DEF IInv
<1> QED BY <1>1, InductiveInvariant, PTL

(* Entries of the table are neither leaked nor lost, on any way out of      *)
(* _forward_via_websocket.                                                  *)
THEOREM TableMatchesRequests == Spec => []PendingAccounted
<1>1. IInv => PendingAccounted
  BY DEF IInv
<1> QED BY <1>1, InductiveInvariant, PTL

(* _waiters counts the requests that wait, and at most MaxWaiters do, out   *)
(* of any set of requests, also an infinite one.                            *)
THEOREM WaitersBounded == Spec => []WaitersAccounted
<1>1. IInv => WaitersAccounted
  BY DEF IInv, WaitersInv
<1> QED BY <1>1, InductiveInvariant, PTL

(* No two coroutines write a frame at once, and nobody leaves with          *)
(* send_lock.                                                               *)
THEOREM LockDiscipline == Spec => []LockAccounted
<1>1. IInv => LockAccounted
  BY OwnersLock DEF IInv, QueueInv
<1> QED BY <1>1, InductiveInvariant, PTL

(* agent_connection_lost is answered only to requests whose connection is   *)
(* down: the clean-up of a replaced socket fails nobody.                    *)
THEOREM LossIsReal == Spec => []LostOnlyIfLost
<1>1. IInv => LostOnlyIfLost
  BY DEF IInv, LossInv
<1> QED BY <1>1, InductiveInvariant, PTL

(* The installed socket is taken out by the end of its own coroutine only.  *)
THEOREM RemovalIsOwn == Spec => OnlyOwnRemoval
<1>1. ASSUME IInv, [Next]_vars, NEW c \in Sockets, ws = c, ws' = None
      PROVE  hpc[c] # "done" /\ hpc'[c] = "done"
  <2> USE NamesAssumption DEF IInv, TypeOK, socketVars, requestVars
  <2>1. \E d \in Sockets : HandlerSendFailed(d) \/ Disconnected(d)
    BY <1>1 DEF Next, RequestStep, HandlerStep, vars, ArriveConnected,
       ArriveDisconnected,
       WaitTimeout, Resume, Granted, Sent, SendFailed, Completed, TimedOut,
       Connect,
       Opened, HandlerGranted, HandlerSent, Receive, Drop, AgentReply,
       AgentHeartbeat, Send
  <2>2. PICK d \in Sockets : HandlerSendFailed(d) \/ Disconnected(d)
    BY <2>1
  <2>3. d = c /\ hpc' = [hpc EXCEPT ![d] = "done"]
    BY <1>1, <2>2 DEF HandlerSendFailed, Disconnected, End, Remove
  <2>4. hpc[d] \in {"readySend", "ackSend", "loop"}
    BY <2>2 DEF HandlerSendFailed, Disconnected
  <2> QED BY <1>1, <2>3, <2>4
<1>2. IInv /\ [Next]_vars =>
        [\A c \in Sockets : ws = c /\ ws' = None => hpc[c] # "done" /\ hpc'[c] = "done"]_vars
  BY <1>1
<1> QED BY <1>2, InductiveInvariant, PTL DEF Spec, OnlyOwnRemoval

-----------------------------------------------------------------------------
(* The connection_ids, and the answers that carry them *)

(* A coroutine has no id before it reads one.                               *)
IdInv ==
    /\ \A c \in Sockets : hpc[c] \in {"idle", "opening"} => hcid[c] = None
    /\ IdsAreOwn

(* What is in flight on a socket.                                           *)
Mail(c) == {inbox[c][i] : i \in 1 .. Len(inbox[c])}

(* A request has an id once it is registered.                               *)
Registered == \A r \in Requests : r \in asked \/ rpc[r] = "lock" => rcid[r] # None

(* An answer in flight is to a request that was registered.  If the request *)
(* was registered on the agent's connection, the answer is in flight there, *)
(* and it never carries another id than that of the request.                *)
MailInv ==
    /\ replied \subseteq asked
    /\ Registered
    /\ \A c \in Sockets : \A m \in Mail(c) : m.type = "forward_response" =>
          /\ ws = rcid[m.req] => c = ws
          /\ c = rcid[m.req] => m.cid \in {None, c}

IdsInv == IInv /\ IdInv /\ MailInv

(* At connection_id's first use the socket is the installed one, whose id   *)
(* it then is, or a newer one was installed and has closed it.              *)
LEMMA StepIds == IInv /\ IdInv /\ [Next]_vars => IdInv'
<1> SUFFICES ASSUME IInv, IdInv, [Next]_vars PROVE IdInv'
  OBVIOUS
<1> USE DEF IInv, TypeOK, IdInv, IdsAreOwn
<1>0. UNCHANGED <<sock, hpc, hcid>> => IdInv'
  OBVIOUS
<1>1. ASSUME NEW r \in Requests,
             ArriveConnected(r) \/ ArriveDisconnected(r) \/ RequestStep(r)
      PROVE  IdInv'
  BY <1>0, <1>1 DEF RequestStep, ArriveConnected, ArriveDisconnected, WaitTimeout, Resume,
     Granted, Sent, SendFailed, Completed, TimedOut, socketVars
<1>2. ASSUME NEW c \in Sockets, Connect(c) PROVE IdInv'
  BY <1>2 DEF Connect, SocketInv
<1>3. ASSUME NEW c \in Sockets, Opened(c) PROVE IdInv'
  <2>1. /\ hcid' = [hcid EXCEPT ![c] = ws]
        /\ hpc'[c] \in {"readySend", "readyLock"}
        /\ \A d \in Sockets : d # c => hpc'[d] = hpc[d]
        /\ sock' = sock
    BY <1>3 DEF Opened
  <2>2. ws # c => sock[c] = "closed"
    BY <1>3 DEF Opened, SocketInv, SocketState
  <2> QED BY <2>1, <2>2
<1>4. ASSUME NEW c \in Sockets, HandlerGranted(c) \/ HandlerSent(c) PROVE IdInv'
  BY <1>4 DEF HandlerGranted, HandlerSent
<1>5. ASSUME NEW c \in Sockets, HandlerSendFailed(c) \/ Disconnected(c) PROVE IdInv'
  BY <1>5 DEF HandlerSendFailed, Disconnected, End
<1>6. ASSUME NEW c \in Sockets, Receive(c) PROVE IdInv'
  BY <1>6 DEF Receive, NextPc
<1>7. ASSUME NEW c \in Sockets, Drop(c) PROVE IdInv'
  BY <1>7 DEF Drop
<1>8. ASSUME NEW c \in Sockets, AgentHeartbeat(c) PROVE IdInv'
  BY <1>0, <1>8 DEF AgentHeartbeat, Send
<1>9. ASSUME NEW c \in Sockets, NEW r \in Requests, AgentReply(c, r) PROVE IdInv'
  BY <1>0, <1>9 DEF AgentReply, Send
<1>10. CASE UNCHANGED vars
  BY <1>0, <1>10 DEF vars
<1> QED BY <1>1, <1>2, <1>3, <1>4, <1>5, <1>6, <1>7, <1>8, <1>9, <1>10 DEF Next, HandlerStep

(* Receiving takes the first message of one socket.                         *)
LEMMA ReceiveMail ==
    ASSUME TypeOK, NEW c \in Sockets, Receive(c)
    PROVE  /\ \A d \in Sockets : Mail(d)' \subseteq Mail(d)
           /\ Head(inbox[c]) \in Mail(c)
           /\ \A d \in Sockets : d # c => inbox'[d] = inbox[d]
<1>1. /\ inbox[c] \in Seq(Message) /\ inbox[c] # <<>>
      /\ inbox' = [inbox EXCEPT ![c] = Tail(inbox[c])]
  BY DEF Receive, TypeOK
<1>2. /\ Len(inbox[c]) \in Nat \ {0}
      /\ Head(inbox[c]) = inbox[c][1]
      /\ Len(Tail(inbox[c])) = Len(inbox[c]) - 1
      /\ \A i \in 1 .. Len(Tail(inbox[c])) : Tail(inbox[c])[i] = inbox[c][i + 1]
  BY <1>1, HeadTailProperties, LenProperties, EmptySeq
<1>3. Mail(c)' \subseteq Mail(c)
  <2> SUFFICES ASSUME NEW i \in 1 .. Len(Tail(inbox[c]))
               PROVE  Tail(inbox[c])[i] \in Mail(c)
    BY <1>1 DEF TypeOK, Mail
  <2>1. i + 1 \in 1 .. Len(inbox[c])
    BY <1>2
  <2> QED BY <1>2, <2>1 DEF Mail
<1>4. \A d \in Sockets : d # c => inbox'[d] = inbox[d]
  BY <1>1 DEF TypeOK
<1>5. \A d \in Sockets : Mail(d)' \subseteq Mail(d)
  BY <1>3, <1>4 DEF Mail
<1>6. Head(inbox[c]) \in Mail(c)
  BY <1>2 DEF Mail
<1> QED BY <1>4, <1>5, <1>6

(* Sending puts one message on one socket.                                  *)
LEMMA SendMail ==
    ASSUME TypeOK, NEW c \in Sockets, NEW m \in Message, Send(c, m)
    PROVE  /\ \A d \in Sockets \ {c} : inbox'[d] = inbox[d]
           /\ Mail(c)' \subseteq Mail(c) \cup {m}
           /\ Len(inbox'[c]) > Len(inbox[c])
<1>1. inbox[c] \in Seq(Message) /\ inbox' = [inbox EXCEPT ![c] = Append(inbox[c], m)]
  BY DEF TypeOK, Send
<1>2. /\ Len(inbox[c]) \in Nat
      /\ Len(Append(inbox[c], m)) = Len(inbox[c]) + 1
      /\ \A i \in 1 .. Len(inbox[c]) : Append(inbox[c], m)[i] = inbox[c][i]
      /\ Append(inbox[c], m)[Len(inbox[c]) + 1] = m
  BY <1>1, AppendProperties, LenProperties
<1>3. inbox'[c] = Append(inbox[c], m)
  BY <1>1 DEF TypeOK
<1>4. Mail(c)' \subseteq Mail(c) \cup {m}
  <2> SUFFICES ASSUME NEW i \in 1 .. Len(Append(inbox[c], m))
               PROVE  Append(inbox[c], m)[i] \in Mail(c) \cup {m}
    BY <1>3 DEF Mail
  <2>1. i \in 1 .. Len(inbox[c]) \/ i = Len(inbox[c]) + 1
    BY <1>2
  <2> QED BY <1>2, <2>1 DEF Mail
<1> QED BY <1>1, <1>2, <1>3, <1>4 DEF TypeOK

(* The id a request captured stays, from when the agent has been asked.     *)
LEMMA AskedKeepId ==
    ASSUME IInv, [Next]_vars, NEW q \in asked
    PROVE  rcid'[q] = rcid[q] /\ q \in asked'
<1> USE DEF IInv, TypeOK, CallerInv, socketVars, requestVars
<1>1. ASSUME NEW r \in Requests, ws # None, Register(r), rpc[r] \in {"new", "woken"}
      PROVE  rcid'[q] = rcid[q] /\ q \in asked'
  <2>1. q # r
    BY <1>1
  <2>2. rcid' = [rcid EXCEPT ![r] = ws] /\ asked' \in {asked, asked \cup {r}}
    BY <1>1, RegisterFacts
  <2> QED BY <2>1, <2>2
<1>2. ASSUME NEW r \in Requests, ArriveConnected(r)
      PROVE  rcid'[q] = rcid[q] /\ q \in asked'
  BY <1>1, <1>2 DEF ArriveConnected
<1>3. ASSUME NEW r \in Requests, Resume(r)
      PROVE  rcid'[q] = rcid[q] /\ q \in asked'
  BY <1>1, <1>3 DEF Resume
<1>4. ASSUME NEW r \in Requests,
             ArriveDisconnected(r) \/ WaitTimeout(r) \/ Granted(r) \/ Sent(r)
                \/ SendFailed(r) \/ Completed(r) \/ TimedOut(r)
      PROVE  rcid'[q] = rcid[q] /\ q \in asked'
  BY <1>4 DEF ArriveDisconnected, WaitTimeout, Granted, Write, Sent, SendFailed, Completed,
     TimedOut
<1>5. ASSUME NEW c \in Sockets, Connect(c) \/ HandlerStep(c) \/ Drop(c) \/ AgentHeartbeat(c)
      PROVE  rcid'[q] = rcid[q] /\ q \in asked'
  BY <1>5 DEF Connect, HandlerStep, Opened, HandlerGranted, HandlerSent, HandlerSendFailed,
     Receive, Disconnected, End, Drop, AgentHeartbeat, Send
<1>6. ASSUME NEW c \in Sockets, NEW r \in Requests, AgentReply(c, r)
      PROVE  rcid'[q] = rcid[q] /\ q \in asked'
  BY <1>6 DEF AgentReply, Send
<1>7. CASE UNCHANGED vars
  BY <1>7 DEF vars
<1> QED BY <1>2, <1>3, <1>4, <1>5, <1>6, <1>7 DEF Next, RequestStep

(* Every request that waits for the lock has passed Register.               *)
LEMMA StepRegistered == IInv /\ Registered /\ [Next]_vars => Registered'
<1> SUFFICES ASSUME IInv, Registered, [Next]_vars PROVE Registered'
  OBVIOUS
<1> USE NamesAssumption DEF IInv, TypeOK, Registered, socketVars, requestVars
<1>1. ASSUME NEW r \in Requests, ws # None, Register(r) PROVE Registered'
  <2>1. PICK p \in {"lock", "sending"} :
          /\ rcid' = [rcid EXCEPT ![r] = ws]
          /\ rpc' = [rpc EXCEPT ![r] = p]
          /\ asked' \in {asked, asked \cup {r}}
    BY <1>1, RegisterFacts
  <2> QED BY <1>1, <2>1
<1>2. ASSUME NEW r \in Requests, ArriveConnected(r) PROVE Registered'
  BY <1>1, <1>2 DEF ArriveConnected
<1>3. ASSUME NEW r \in Requests, Resume(r) PROVE Registered'
  <2>1. CASE ws # None
    BY <1>1, <1>3, <2>1 DEF Resume
  <2>2. CASE ws = None
    BY <1>3, <2>2 DEF Resume, Answer
  <2> QED BY <2>1, <2>2
<1>4. ASSUME NEW r \in Requests, ArriveDisconnected(r) \/ WaitTimeout(r) PROVE Registered'
  BY <1>4 DEF ArriveDisconnected, WaitTimeout, Answer
<1>5. ASSUME NEW r \in Requests, Granted(r) PROVE Registered'
  BY <1>5 DEF Granted, Write, Answer
<1>6. ASSUME NEW r \in Requests, Sent(r) \/ SendFailed(r) \/ Completed(r) \/ TimedOut(r)
      PROVE  Registered'
  BY <1>6 DEF Sent, SendFailed, Completed, TimedOut, Answer
<1>7. ASSUME NEW c \in Sockets, Connect(c) PROVE Registered'
  BY <1>7 DEF Connect
<1>8. ASSUME NEW c \in Sockets, HandlerStep(c) \/ Drop(c) \/ AgentHeartbeat(c)
      PROVE  Registered'
  BY <1>8 DEF HandlerStep, Opened, HandlerGranted, HandlerSent, HandlerSendFailed,
     Receive, Disconnected, End, Drop, AgentHeartbeat, Send
<1>9. ASSUME NEW c \in Sockets, NEW r \in Requests, AgentReply(c, r) PROVE Registered'
  BY <1>9 DEF AgentReply, Send
<1>10. CASE UNCHANGED vars
  BY <1>10 DEF vars
<1> QED BY <1>2, <1>3, <1>4, <1>5, <1>6, <1>7, <1>8, <1>9, <1>10 DEF Next, RequestStep

(* The registry's socket stays, goes, or is a new one.                      *)
LEMMA SocketMoves ==
    ASSUME IInv, [Next]_vars
    PROVE  \/ ws' = ws
           \/ ws' = None
           \/ sock[ws'] = "unused" /\ ws' \in Sockets
BY DEF Next, RequestStep, HandlerStep, vars, socketVars, ArriveConnected, ArriveDisconnected,
   WaitTimeout, Resume, Granted, Sent, SendFailed, Completed, TimedOut, Connect, Opened,
   HandlerGranted, HandlerSent, HandlerSendFailed, Disconnected, End, Remove, Receive, Drop,
   AgentReply, AgentHeartbeat, Send

(* Every message in flight was there before or was sent in this step.       *)
LEMMA MailMoves ==
    ASSUME IInv, [Next]_vars, NEW c \in Sockets, NEW m \in Mail(c)',
           m.type = "forward_response", m \notin Mail(c)
    PROVE  \E r \in Requests : m.req = r /\ AgentReply(c, r) /\ m.cid \in {None, rcid[r], hcid[c]}
<1> USE DEF IInv
<1>1. ASSUME NEW d \in Sockets, Receive(d) PROVE FALSE
  BY <1>1, ReceiveMail
<1>2. ASSUME NEW d \in Sockets, AgentHeartbeat(d) PROVE FALSE
  <2>1. PICK k \in {None, hcid[d]} : Send(d, [type |-> "heartbeat", cid |-> k])
    BY <1>2 DEF AgentHeartbeat
  <2> DEFINE h == [type |-> "heartbeat", cid |-> k]
  <2>2. h \in Message
    BY DEF Message, TypeOK
  <2>3. /\ \A e \in Sockets \ {d} : inbox'[e] = inbox[e]
        /\ Mail(d)' \subseteq Mail(d) \cup {h}
    BY <2>1, <2>2, SendMail
  <2>4. c = d /\ m = h
    BY <2>3 DEF Mail
  <2> QED BY <2>4
<1>3. ASSUME NEW d \in Sockets, NEW r \in Requests, AgentReply(d, r)
      PROVE  m.req = r /\ c = d /\ m.cid \in {None, rcid[r], hcid[c]}
  <2>1. PICK k \in {None, rcid[r], hcid[d]} :
            Send(d, [type |-> "forward_response", req |-> r, cid |-> k])
    BY <1>3 DEF AgentReply
  <2> DEFINE a == [type |-> "forward_response", req |-> r, cid |-> k]
  <2>2. a \in Message
    BY DEF Message, TypeOK
  <2>3. /\ \A e \in Sockets \ {d} : inbox'[e] = inbox[e]
        /\ Mail(d)' \subseteq Mail(d) \cup {a}
    BY <2>1, <2>2, SendMail
  <2>4. c = d /\ m = a
    BY <2>3 DEF Mail
  <2> QED BY <2>4
<1>4. inbox' # inbox
  BY DEF Mail
<1>5. \/ \E d \in Sockets : Receive(d) \/ AgentHeartbeat(d)
      \/ \E d \in Sockets, r \in Requests : AgentReply(d, r)
  BY <1>4 DEF Next, RequestStep, HandlerStep, vars, socketVars, ArriveConnected,
     ArriveDisconnected, WaitTimeout, Resume, Granted, Sent, SendFailed, Completed, TimedOut,
     Connect, Opened, HandlerGranted, HandlerSent, HandlerSendFailed, Disconnected, End, Drop
<1> QED BY <1>1, <1>2, <1>3, <1>5

(* The agent answers what it was asked.                                     *)
LEMMA StepReplied ==
    ASSUME IInv, replied \subseteq asked, [Next]_vars
    PROVE  replied' \subseteq asked'
<1>1. asked \subseteq asked'
  BY AskedKeepId
<1>2. replied' = replied \/ \E r \in asked : replied' = replied \cup {r}
  BY DEF Next, RequestStep, HandlerStep, vars, ArriveConnected, ArriveDisconnected,
     WaitTimeout, Resume, Granted, Sent, SendFailed, Completed, TimedOut, Connect, Opened,
     HandlerGranted, HandlerSent, HandlerSendFailed, Disconnected, End, Receive, Drop,
     AgentReply, AgentHeartbeat
<1> QED BY <1>1, <1>2

(* A newer socket takes no answer with it, and a new answer goes out under  *)
(* an id its socket knows.                                                  *)
LEMMA StepMail == IdsInv /\ [Next]_vars => MailInv'
<1> SUFFICES ASSUME IdsInv, [Next]_vars PROVE MailInv'
  OBVIOUS
<1> USE DEF IdsInv
<1>1. replied' \subseteq asked' /\ Registered'
  BY StepReplied, StepRegistered DEF MailInv
<1>2. ASSUME NEW c \in Sockets, NEW m \in Mail(c)', m.type = "forward_response"
      PROVE  /\ ws' = rcid'[m.req] => c = ws'
             /\ c = rcid'[m.req] => m.cid \in {None, c}
  <2>1. CASE m \in Mail(c)
    <3>1. m.req \in replied
      BY <1>2, <2>1 DEF Mail, IInv, InboxInv
    <3>2. m.req \in asked /\ m.req \in Requests
      BY <3>1 DEF MailInv, IInv, TypeOK
    <3>3. rcid'[m.req] = rcid[m.req]
      BY <3>2, AskedKeepId
    <3>4. rcid[m.req] # None /\ sock[rcid[m.req]] # "unused"
      BY <3>2 DEF MailInv, Registered, IInv, LossInv
    <3>5. ws' = rcid[m.req] => ws' = ws
      BY <3>4, SocketMoves
    <3> QED BY <1>2, <2>1, <3>3, <3>5 DEF MailInv
  <2>2. CASE m \notin Mail(c)
    <3>1. PICK r \in Requests :
            m.req = r /\ AgentReply(c, r) /\ m.cid \in {None, rcid[r], hcid[c]}
      BY <1>2, <2>2, MailMoves
    <3>2. sock[c] = "open" /\ ws' = ws /\ rcid' = rcid
      BY <3>1 DEF AgentReply, Send, requestVars
    <3>3. ws = c
      BY <3>2 DEF IInv, SocketInv
    <3>4. hcid[c] \in {None, c}
      BY <3>2 DEF IdInv, IdsAreOwn
    <3> QED BY <3>1, <3>2, <3>3, <3>4
  <2> QED BY <2>1, <2>2
<1> QED BY <1>1, <1>2 DEF MailInv

(* The inductive invariant of the ids.                                      *)
THEOREM IdsInvariant == Spec => []IdsInv
<1>1. Init => IdsInv
  <2> SUFFICES ASSUME Init PROVE IdInv /\ MailInv
    BY InitIInv DEF IdsInv
  <2>1. IdInv
    BY DEF Init, IdInv, IdsAreOwn
  <2>2. \A c \in Sockets : Mail(c) = {}
    BY DEF Init, Mail
  <2> QED BY <2>1, <2>2 DEF Init, MailInv, Registered
<1>2. IdsInv /\ [Next]_vars => IdsInv'
  BY StepIInv, StepIds, StepMail DEF IdsInv
<1> QED BY <1>1, <1>2, PTL DEF Spec

(* agent_tunnel reads connection_id after the close of the replaced socket  *)
(* and on_agent_connected: whoever reads another's has been closed.         *)
THEOREM CoroutineIdsAreOwn == Spec => []IdsAreOwn
<1>1. IdsInv => IdsAreOwn
  BY DEF IdsInv, IdInv
<1> QED BY <1>1, IdsInvariant, PTL

(* Neither test of connection_id turns away an answer to a request that was *)
(* registered on the agent's present connection.                            *)
THEOREM GoodAnswersReach == Spec => AnswersReach
<1>1. ASSUME IdsInv, [Next]_vars, NEW c \in Sockets, NEW r \in pending, ws = rcid[r],
             Len(inbox'[c]) < Len(inbox[c]),
             Head(inbox[c]).type = "forward_response", Head(inbox[c]).req = r
      PROVE  fut'[r] = "replied"
  <2>0. TypeOK /\ TypeOK' /\ SocketInv /\ PendingAccounted /\ IdInv /\ MailInv
    BY <1>1, StepIInv DEF IdsInv, IInv
  <2>1. Receive(c)
    <3>1. Len(inbox[c]) \in Nat /\ Len(inbox'[c]) \in Nat
      BY <2>0, LenProperties DEF TypeOK
    <3>2. inbox'[c] # inbox[c]
      BY <1>1, <3>1
    <3>3. ASSUME NEW d \in Sockets, Receive(d) PROVE c = d
      BY <2>0, <3>2, <3>3, ReceiveMail
    <3>4. ASSUME NEW d \in Sockets, NEW m \in Message, Send(d, m) PROVE FALSE
      BY <1>1, <2>0, <3>1, <3>2, <3>4, SendMail
    <3>5. ASSUME NEW d \in Sockets, AgentHeartbeat(d) PROVE FALSE
      <4>1. PICK k \in Sockets \cup {None} : Send(d, [type |-> "heartbeat", cid |-> k])
        BY <2>0, <3>5 DEF AgentHeartbeat, TypeOK
      <4> QED BY <3>4, <4>1 DEF Message
    <3>6. ASSUME NEW d \in Sockets, NEW q \in Requests, AgentReply(d, q) PROVE FALSE
      <4>1. PICK k \in Sockets \cup {None} :
                Send(d, [type |-> "forward_response", req |-> q, cid |-> k])
        BY <2>0, <3>6 DEF AgentReply, TypeOK
      <4> QED BY <3>4, <4>1 DEF Message
    <3>7. \E d \in Sockets : Receive(d)
      BY <1>1, <3>2, <3>5, <3>6 DEF Next, RequestStep, HandlerStep, vars, socketVars,
         ArriveConnected, ArriveDisconnected, WaitTimeout, Resume, Granted, Sent, SendFailed,
         Completed, TimedOut, Connect, Opened, HandlerGranted, HandlerSent,
         HandlerSendFailed, Disconnected, End, Drop
    <3> QED BY <3>3, <3>7
  <2>2. Head(inbox[c]) \in Mail(c) /\ hpc[c] = "loop"
    BY <2>0, <2>1, ReceiveMail DEF Receive
  <2>3. c = rcid[r] /\ ws = c
    BY <1>1, <2>0, <2>2 DEF MailInv
  <2>4. Head(inbox[c]).cid \in {None, c}
    BY <1>1, <2>0, <2>2, <2>3 DEF MailInv
  <2>5. hcid[c] = c
    <3>1. sock[c] # "closed"
      BY <2>0, <2>3 DEF SocketInv
    <3> QED BY <2>0, <2>2, <3>1 DEF IdInv, IdsAreOwn
  <2>6. ~Stale(c, Head(inbox[c]))
    BY <2>4, <2>5 DEF Stale
  <2>7. r \in Requests /\ fut[r] = "waiting"
    BY <1>1, <2>0 DEF PendingAccounted, TypeOK
  <2>8. fut' = [fut EXCEPT ![r] =
                  IF r \notin pending \/ @ # "waiting" THEN @
                  ELSE IF Head(inbox[c]).cid \in {None, rcid[r]} THEN "replied"
                  ELSE "mismatched"]
    BY <1>1, <2>1, <2>6 DEF Receive
  <2> QED BY <1>1, <2>0, <2>3, <2>4, <2>7, <2>8 DEF TypeOK
<1>2. IdsInv /\ [Next]_vars =>
        [\A c \in Sockets, r \in pending :
            /\ ws = rcid[r]
            /\ Len(inbox'[c]) < Len(inbox[c])
            /\ Head(inbox[c]).type = "forward_response" /\ Head(inbox[c]).req = r
            => fut'[r] = "replied"]_vars
  BY <1>1
<1> QED BY <1>2, IdsInvariant, PTL DEF Spec, AnswersReach

-----------------------------------------------------------------------------
(* What the callers see: RelayContract *)

(* The phase RelayContract gives a request.                                 *)
Phase == [r \in Requests |-> IF rpc[r] = "new" THEN "idle"
                             ELSE IF rpc[r] = "done" THEN "done"
                             ELSE "accepted"]

ContractStep == [Contract!Next]_(Contract!vars)

(* A step that answers nobody, starts no request and reaches no agent is no *)
(* step of the contract.                                                    *)
LEMMA Unseen ==
    ASSUME TypeOK, UNCHANGED <<outcome, asked, replied>>,
           rpc' \in [Requests -> RequestState],
           \A r \in Requests : /\ rpc'[r] = "new" <=> rpc[r] = "new"
                               /\ rpc'[r] = "done" <=> rpc[r] = "done"
    PROVE  ContractStep
<1>1. Phase' = Phase
  BY DEF Phase
<1> QED BY <1>1 DEF ContractStep, Contract!vars, Phase

(* Answering a caller is the contract's Finish, given that "ok" and         *)
(* "invalid" come from an answer of the agent and "unavailable" from a      *)
(* request it never saw.                                                    *)
LEMMA Finishing ==
    ASSUME IInv, NEW r \in Requests, NEW o \in Contract!Outcomes,
           rpc[r] # "done",
           rpc' = [rpc EXCEPT ![r] = "done"], outcome' = [outcome EXCEPT ![r] = o],
           UNCHANGED <<asked, replied>>,
           o \in {"ok", "invalid"} => r \in replied,
           o = "unavailable" => r \notin asked,
           rpc[r] = "new" => o = "unavailable"
    PROVE  ContractStep
<1>1. Phase' = [Phase EXCEPT ![r] = "done"]
  BY DEF IInv, TypeOK, Phase
<1>2. Phase[r] # "done" /\ (Phase[r] = "idle" <=> rpc[r] = "new")
  BY DEF Phase
<1>3. Contract!Finish(r, o)
  BY <1>1, <1>2 DEF Contract!Finish, Phase
<1> QED BY <1>3 DEF ContractStep, Contract!Next

(* A request that waited and now registers, or gets the lock, at most       *)
(* reaches the agent.                                                       *)
LEMMA Writing ==
    ASSUME IInv, NEW r \in Requests, rpc[r] \in {"woken", "lock"},
           NEW p \in {"lock", "sending"}, rpc' = [rpc EXCEPT ![r] = p],
           asked' \in {asked, asked \cup {r}}, UNCHANGED <<outcome, replied>>
    PROVE  ContractStep
<1>1. Phase' = Phase /\ Phase[r] = "accepted"
  BY DEF IInv, TypeOK, Phase
<1>2. CASE asked' = asked
  BY <1>1, <1>2 DEF ContractStep, Contract!vars, Phase
<1>3. CASE asked' = asked \cup {r}
  <2>1. Contract!Deliver(r)
    BY <1>1, <1>3 DEF Contract!Deliver, Phase
  <2> QED BY <2>1 DEF ContractStep, Contract!Next
<1> QED BY <1>2, <1>3

(* A request that arrives is accepted, and may reach the agent at once.     *)
LEMMA Accepting ==
    ASSUME IInv, NEW r \in Requests, rpc[r] = "new",
           NEW p \in {"lock", "sending", "waiting"}, rpc' = [rpc EXCEPT ![r] = p],
           asked' \in {asked, asked \cup {r}}, UNCHANGED <<outcome, replied>>
    PROVE  ContractStep
<1>1. Phase' = [Phase EXCEPT ![r] = "accepted"] /\ Phase[r] = "idle"
  BY DEF IInv, TypeOK, Phase
<1>2. Contract!Accept(r)
  BY <1>1 DEF Contract!Accept, Phase
<1> QED BY <1>2 DEF ContractStep, Contract!Next

(* Every step of the tunnel is a step of the contract or none.              *)
LEMMA StepContract == IInv /\ [Next]_vars => ContractStep
<1> SUFFICES ASSUME IInv, [Next]_vars PROVE ContractStep
  OBVIOUS
<1>0. rpc \in [Requests -> RequestState]
  BY DEF IInv, TypeOK
<1> USE DEF IInv, TypeOK, RequestState, socketVars, requestVars
<1>1. ASSUME NEW r \in Requests, ArriveConnected(r) PROVE ContractStep
  <2>1. ws # None /\ Register(r) /\ rpc[r] = "new" /\ replied' = replied
    BY <1>1 DEF ArriveConnected
  <2>2. PICK p \in {"lock", "sending"} :
          /\ rpc' = [rpc EXCEPT ![r] = p]
          /\ asked' \in {asked, asked \cup {r}}
          /\ outcome' = outcome
    BY <2>1, RegisterFacts
  <2> QED BY <2>1, <2>2, Accepting
<1>2. ASSUME NEW r \in Requests, ArriveDisconnected(r) PROVE ContractStep
  <2>1. rpc[r] = "new" /\ asked' = asked /\ replied' = replied
    BY <1>2 DEF ArriveDisconnected
  <2>2. CASE rpc' = [rpc EXCEPT ![r] = "waiting"] /\ outcome' = outcome
    BY <2>1, <2>2, Accepting
  <2>3. CASE Answer(r, "unavailable")
    <3>1. r \notin asked
      BY <2>1 DEF CallerInv
    <3> QED BY <2>1, <2>3, <3>1, Finishing DEF Answer, Contract!Outcomes
  <2> QED BY <1>2, <2>2, <2>3 DEF ArriveDisconnected
<1>3. ASSUME NEW r \in Requests, WaitTimeout(r) PROVE ContractStep
  BY <1>0, <1>3, Unseen DEF WaitTimeout
<1>4. ASSUME NEW r \in Requests, Resume(r) PROVE ContractStep
  <2>1. rpc[r] = "woken" /\ replied' = replied
    BY <1>4 DEF Resume
  <2>2. CASE ws # None
    <3>1. PICK p \in {"lock", "sending"} :
            /\ rpc' = [rpc EXCEPT ![r] = p]
            /\ asked' \in {asked, asked \cup {r}}
            /\ outcome' = outcome
      BY <1>4, <2>2, RegisterFacts DEF Resume
    <3> QED BY <2>1, <3>1, Writing
  <2>3. CASE ws = None
    <3>1. Answer(r, "unavailable") /\ asked' = asked
      BY <1>4, <2>3 DEF Resume
    <3>2. r \notin asked
      BY <2>1 DEF CallerInv
    <3> QED BY <2>1, <3>1, <3>2, Finishing DEF Answer, Contract!Outcomes
  <2> QED BY <2>2, <2>3
<1>5. ASSUME NEW r \in Requests, Granted(r) PROVE ContractStep
  <2>1. rpc[r] = "lock" /\ replied' = replied
    BY <1>5 DEF Granted
  <2>2. CASE ws # None
    <3>1. /\ rpc' = [rpc EXCEPT ![r] = "sending"] /\ outcome' = outcome
          /\ asked' \in {asked, asked \cup {r}}
      BY <1>5, <2>2 DEF Granted, Write
    <3> QED BY <2>1, <3>1, Writing
  <2>3. CASE ws = None
    <3>1. Answer(r, "failed") /\ asked' = asked
      BY <1>5, <2>3 DEF Granted
    <3> QED BY <2>1, <3>1, Finishing DEF Answer, Contract!Outcomes
  <2> QED BY <2>2, <2>3
<1>6. ASSUME NEW r \in Requests, Sent(r) PROVE ContractStep
  BY <1>0, <1>6, Unseen DEF Sent, Release
<1>7. ASSUME NEW r \in Requests, SendFailed(r) PROVE ContractStep
  <2>1. rpc[r] = "sending" /\ Answer(r, "failed") /\ asked' = asked /\ replied' = replied
    BY <1>7 DEF SendFailed
  <2> QED BY <2>1, Finishing DEF Answer, Contract!Outcomes
<1>8. ASSUME NEW r \in Requests, Completed(r) PROVE ContractStep
  <2>1. rpc[r] = "await" /\ asked' = asked /\ replied' = replied
    BY <1>8 DEF Completed
  <2>2. \/ fut[r] = "replied" /\ Answer(r, "ok")
        \/ fut[r] = "mismatched" /\ Answer(r, "invalid")
        \/ fut[r] = "closed" /\ Answer(r, "lost")
    BY <1>8 DEF Completed
  <2>3. fut[r] \in {"replied", "mismatched"} => r \in replied
    BY DEF CallerInv
  <2> QED BY <2>1, <2>2, <2>3, Finishing DEF Answer, Contract!Outcomes
<1>9. ASSUME NEW r \in Requests, TimedOut(r) PROVE ContractStep
  <2>1. rpc[r] = "await" /\ Answer(r, "timeout") /\ asked' = asked /\ replied' = replied
    BY <1>9 DEF TimedOut
  <2> QED BY <2>1, Finishing DEF Answer, Contract!Outcomes
<1>10. ASSUME NEW c \in Sockets, Connect(c) PROVE ContractStep
  BY <1>0, <1>10, Unseen DEF Connect
<1>11. ASSUME NEW c \in Sockets, Opened(c) PROVE ContractStep
  BY <1>0, <1>11, Unseen DEF Opened
<1>12. ASSUME NEW c \in Sockets, HandlerGranted(c) PROVE ContractStep
  BY <1>0, <1>12, Unseen DEF HandlerGranted, Holds
<1>13. ASSUME NEW c \in Sockets, HandlerSent(c) PROVE ContractStep
  BY <1>0, <1>13, Unseen DEF HandlerSent, Release
<1>14. ASSUME NEW c \in Sockets, HandlerSendFailed(c) PROVE ContractStep
  BY <1>0, <1>14, Unseen DEF HandlerSendFailed, End, Remove, Release
<1>15. ASSUME NEW c \in Sockets, Receive(c) PROVE ContractStep
  BY <1>0, <1>15, Unseen DEF Receive, NextPc, Stale
<1>16. ASSUME NEW c \in Sockets, Disconnected(c) PROVE ContractStep
  BY <1>0, <1>16, Unseen DEF Disconnected, End, Remove, KeepLock
<1>17. ASSUME NEW c \in Sockets, Drop(c) PROVE ContractStep
  BY <1>0, <1>17, Unseen DEF Drop
<1>18. ASSUME NEW c \in Sockets, AgentHeartbeat(c) PROVE ContractStep
  BY <1>0, <1>18, Unseen DEF AgentHeartbeat, Send
<1>19. ASSUME NEW c \in Sockets, NEW r \in Requests, AgentReply(c, r) PROVE ContractStep
  <2>1. r \in asked /\ replied' = replied \cup {r} /\ UNCHANGED <<rpc, outcome, asked>>
    BY <1>19 DEF AgentReply, Send
  <2>2. Phase' = Phase
    BY <2>1 DEF Phase
  <2>3. Contract!Answer(r)
    BY <2>1, <2>2 DEF Contract!Answer, Phase
  <2> QED BY <2>3 DEF ContractStep, Contract!Next
<1>20. CASE UNCHANGED vars
  BY <1>0, <1>20, Unseen DEF vars
<1> QED BY <1>1, <1>2, <1>3, <1>4, <1>5, <1>6, <1>7, <1>8, <1>9, <1>10, <1>11, <1>12,
         <1>13, <1>14, <1>15, <1>16, <1>17, <1>18, <1>19, <1>20
         DEF Next, RequestStep, HandlerStep

(* The relay keeps its contract with its callers, for any number of         *)
(* sockets, reconnections and requests: one outcome each, "ok" only for a   *)
(* request the agent answered, "unavailable" only for one it never saw.     *)
THEOREM StepsKeepContract == Spec => Contract!Init /\ [][Contract!Next]_(Contract!vars)
<1>1. Init => Contract!Init
  BY DEF Init, Contract!Init
<1>2. IInv /\ [Next]_vars => [Contract!Next]_(Contract!vars)
  BY StepContract DEF ContractStep
<1> QED BY <1>1, <1>2, InductiveInvariant, PTL DEF Spec
=============================================================================
