------------------------------ MODULE PushProofs ------------------------------
(* Proofs about Push, for any agents, phones and number of deliveries: live  *)
(* phones stay registered, every phone of an agent is tried, and the race on *)
(* the initialisation of Firebase costs only deliveries that began before it *)
(* was over.                                                                 *)
EXTENDS Push, TLAPS

(* Only dead tokens are taken for invalid, so only dead phones lose their    *)
(* row to a purge; the row that a registration found is therefore there when *)
(* it is updated.                                                            *)
RowsInv ==
    /\ \A d \in Deliveries : invalid[d] \subseteq dead
    /\ loop \in Registration /\ loop.found /\ loop.token \notin dead =>
          rows[loop.token] # None
    /\ RegisteredStays

(* The tokens a delivery counts on are its agent's now, and once it has its  *)
(* list each of them is tried or still to be tried.                          *)
TriedInv ==
    /\ \A d \in Deliveries : dpc[d] # "idle" =>
          \A t \in steady[d] : rows[t] = agentOf[d]
    /\ \A d \in Deliveries : dpc[d] = "send" => steady[d] \subseteq tried[d] \cup todo[d]
    /\ EveryPhoneTried

(* Firebase is ready for good once one delivery found it so; a delivery that *)
(* began later neither initialises it nor fails.                             *)
AppInv ==
    /\ \A d \in Deliveries : dpc[d] \in Ready => initialized
    /\ \A d \in Deliveries : dpc[d] # "idle" /\ d \notin early =>
          initialized /\ dpc[d] \in Ready \cup {"check"}
    /\ app => \E e \in early : dpc[e] \in Ready \cup {"mark"}
    /\ \A d \in Deliveries : dpc[d] = "failed" => app

-----------------------------------------------------------------------------
(* The variables have their types at the start. *)
LEMMA InitType == Init => TypeOK
    BY DEF Init, TypeOK, Where

(* Every step keeps the types. *)
LEMMA StepType == TypeOK /\ [Next]_vars => TypeOK'
<1> SUFFICES ASSUME TypeOK, [Next]_vars PROVE TypeOK'
    OBVIOUS
<1> USE DEF TypeOK, queue, history, Where
<1>1. ASSUME NEW a \in Agents, NEW t \in Tokens, RegisterSelect(a, t) PROVE TypeOK'
    BY <1>1 DEF RegisterSelect, Registration
<1>2. ASSUME NEW a \in Agents, NEW t \in Tokens, Unregister(a, t) PROVE TypeOK'
    BY <1>2 DEF Unregister, Steady
<1>3. CASE RegisterWrite
    BY <1>3 DEF RegisterWrite, Registration, Updated, Steady
<1>4. ASSUME NEW d \in Deliveries, NEW a \in Agents, Begin(d, a) PROVE TypeOK'
    BY <1>4 DEF Begin, Move, Of
<1>5. ASSUME NEW d \in Deliveries, Check(d) PROVE TypeOK'
    BY <1>5 DEF Check, Move
<1>6. ASSUME NEW d \in Deliveries, Create(d) PROVE TypeOK'
    BY <1>6 DEF Create, Move, FreeLoop
<1>7. ASSUME NEW d \in Deliveries, Mark(d) PROVE TypeOK'
    BY <1>7 DEF Mark, Move, Marked
<1>8. ASSUME NEW d \in Deliveries, List(d) PROVE TypeOK'
    BY <1>8 DEF List, Move, Of
<1>9. ASSUME NEW d \in Deliveries, Purge(d) PROVE TypeOK'
    BY <1>9 DEF Purge, Move, FreeLoop, Matches, Steady
<1>10. ASSUME NEW d \in Deliveries, NEW t \in Tokens, Send(d, t) PROVE TypeOK'
    BY <1>10 DEF Send, InvalidOn, Left
<1>11. ASSUME NEW t \in Tokens, Die(t) PROVE TypeOK'
    BY <1>11 DEF Die
<1>12. CASE UNCHANGED vars
    BY <1>12 DEF vars
<1> QED
    BY <1>1, <1>2, <1>3, <1>4, <1>5, <1>6, <1>7, <1>8, <1>9, <1>10, <1>11, <1>12 DEF Next
-----------------------------------------------------------------------------
(* Every step keeps what is known of the rows. *)
LEMMA RowsStep == TypeOK /\ RowsInv /\ [Next]_vars => RowsInv'
<1> SUFFICES ASSUME TypeOK, RowsInv, [Next]_vars PROVE RowsInv'
    OBVIOUS
<1> USE LoopAssumption, NoneAssumption DEF TypeOK, RowsInv, RegisteredStays, queue, history
<1>1. ASSUME NEW a \in Agents, NEW t \in Tokens, RegisterSelect(a, t) PROVE RowsInv'
    BY <1>1 DEF RegisterSelect, Registration
<1>2. ASSUME NEW a \in Agents, NEW t \in Tokens, Unregister(a, t) PROVE RowsInv'
    BY <1>2 DEF Unregister, Matches, Registration
<1>3. ASSUME RegisterWrite PROVE RowsInv'
    BY <1>3 DEF RegisterWrite, Updated
<1>4. ASSUME NEW d \in Deliveries, NEW a \in Agents, Begin(d, a) PROVE RowsInv'
    BY <1>4 DEF Begin, Move
<1>5. ASSUME NEW d \in Deliveries, Check(d) PROVE RowsInv'
    BY <1>5 DEF Check, Move
<1>6. ASSUME NEW d \in Deliveries, Create(d) PROVE RowsInv'
    BY <1>6 DEF Create, Move, FreeLoop
<1>7. ASSUME NEW d \in Deliveries, Mark(d) PROVE RowsInv'
    BY <1>7 DEF Mark, Move
<1>8. ASSUME NEW d \in Deliveries, List(d) PROVE RowsInv'
    BY <1>8 DEF List, Move
<1>9. ASSUME NEW d \in Deliveries, Purge(d) PROVE RowsInv'
  <2>1. \A t \in Tokens \ dead : rows'[t] = rows[t]
    BY <1>9 DEF Purge
  <2>2. UNCHANGED <<invalid, dead, want>> /\ (loop' = loop \/ loop' = None)
    BY <1>9 DEF Purge, FreeLoop
  <2>3. loop' \in Registration => loop' = loop
    BY <2>2
  <2>4. \A g \in Registration : g.token \in Tokens
    BY DEF Registration
  <2>5. RegisteredStays'
    BY <2>1, <2>2
  <2>6. loop' \in Registration /\ loop'.found /\ loop'.token \notin dead' =>
            rows'[loop'.token] # None
    BY <2>1, <2>2, <2>3, <2>4
  <2> QED
    BY <2>2, <2>5, <2>6
<1>10. ASSUME NEW d \in Deliveries, NEW t \in Tokens, Send(d, t) PROVE RowsInv'
  <2>1. PICK bad \in InvalidOn(t) :
            invalid' = [invalid EXCEPT ![d] = IF bad THEN @ \cup {t} ELSE @]
    BY <1>10 DEF Send
  <2>2. bad => t \in dead
    BY DEF InvalidOn
  <2>3. \A e \in Deliveries : invalid'[e] \subseteq dead
    BY <2>1, <2>2
  <2> QED
    BY <1>10, <2>3 DEF Send
<1>11. ASSUME NEW t \in Tokens, Die(t) PROVE RowsInv'
    BY <1>11 DEF Die
<1>12. CASE UNCHANGED vars
    BY <1>12 DEF vars, Registration
<1> QED
    BY <1>1, <1>2, <1>3, <1>4, <1>5, <1>6, <1>7, <1>8, <1>9, <1>10, <1>11, <1>12 DEF Next

(* Every step keeps what is known of the lists of deliveries. *)
LEMMA TriedStep == TypeOK /\ TriedInv /\ [Next]_vars => TriedInv'
<1> SUFFICES ASSUME TypeOK, TriedInv, [Next]_vars PROVE TriedInv'
    OBVIOUS
<1> USE DEF TypeOK, TriedInv, EveryPhoneTried, queue, history
<1>1. ASSUME NEW a \in Agents, NEW t \in Tokens, RegisterSelect(a, t) PROVE TriedInv'
    BY <1>1 DEF RegisterSelect
<1>2. ASSUME NEW a \in Agents, NEW t \in Tokens, Unregister(a, t) PROVE TriedInv'
    BY <1>2 DEF Unregister, Steady
<1>3. ASSUME RegisterWrite PROVE TriedInv'
    BY <1>3 DEF RegisterWrite, Steady
<1>4. ASSUME NEW d \in Deliveries, NEW a \in Agents, Begin(d, a) PROVE TriedInv'
    BY <1>4 DEF Begin, Move, Of
<1>5. ASSUME NEW d \in Deliveries, Check(d) PROVE TriedInv'
    BY <1>5 DEF Check, Move
<1>6. ASSUME NEW d \in Deliveries, Create(d) PROVE TriedInv'
    BY <1>6 DEF Create, Move
<1>7. ASSUME NEW d \in Deliveries, Mark(d) PROVE TriedInv'
    BY <1>7 DEF Mark, Move
<1>8. ASSUME NEW d \in Deliveries, List(d) PROVE TriedInv'
    BY <1>8 DEF List, Move, Of
<1>9. ASSUME NEW d \in Deliveries, Purge(d) PROVE TriedInv'
    BY <1>9 DEF Purge, Move, Steady
<1>10. ASSUME NEW d \in Deliveries, NEW t \in Tokens, Send(d, t) PROVE TriedInv'
    BY <1>10 DEF Send, Left
<1>11. ASSUME NEW t \in Tokens, Die(t) PROVE TriedInv'
    BY <1>11 DEF Die
<1>12. CASE UNCHANGED vars
    BY <1>12 DEF vars, Registration
<1> QED
    BY <1>1, <1>2, <1>3, <1>4, <1>5, <1>6, <1>7, <1>8, <1>9, <1>10, <1>11, <1>12 DEF Next

(* Every step keeps what is known of the initialisation. *)
LEMMA AppStep == TypeOK /\ AppInv /\ [Next]_vars => AppInv'
<1> SUFFICES ASSUME TypeOK, AppInv, [Next]_vars PROVE AppInv'
    OBVIOUS
<1> USE DEF TypeOK, AppInv, Ready, Where, queue, history
<1>1. ASSUME NEW a \in Agents, NEW t \in Tokens, RegisterSelect(a, t) PROVE AppInv'
    BY <1>1 DEF RegisterSelect
<1>2. ASSUME NEW a \in Agents, NEW t \in Tokens, Unregister(a, t) PROVE AppInv'
    BY <1>2 DEF Unregister
<1>3. ASSUME RegisterWrite PROVE AppInv'
    BY <1>3 DEF RegisterWrite
<1>4. ASSUME NEW d \in Deliveries, NEW a \in Agents, Begin(d, a) PROVE AppInv'
    BY <1>4 DEF Begin, Move
<1>5. ASSUME NEW d \in Deliveries, Check(d) PROVE AppInv'
    BY <1>5 DEF Check, Move
<1>6. ASSUME NEW d \in Deliveries, Create(d) PROVE AppInv'
    BY <1>6 DEF Create, Move
<1>7. ASSUME NEW d \in Deliveries, Mark(d) PROVE AppInv'
    BY <1>7 DEF Mark, Move, Marked
<1>8. ASSUME NEW d \in Deliveries, List(d) PROVE AppInv'
    BY <1>8 DEF List, Move
<1>9. ASSUME NEW d \in Deliveries, Purge(d) PROVE AppInv'
    BY <1>9 DEF Purge, Move
<1>10. ASSUME NEW d \in Deliveries, NEW t \in Tokens, Send(d, t) PROVE AppInv'
    BY <1>10 DEF Send
<1>11. ASSUME NEW t \in Tokens, Die(t) PROVE AppInv'
    BY <1>11 DEF Die
<1>12. CASE UNCHANGED vars
    BY <1>12 DEF vars, Registration
<1> QED
    BY <1>1, <1>2, <1>3, <1>4, <1>5, <1>6, <1>7, <1>8, <1>9, <1>10, <1>11, <1>12 DEF Next
-----------------------------------------------------------------------------
(* What the deliveries, the phones and the initialisation keep, together.    *)
IInv == TypeOK /\ RowsInv /\ TriedInv /\ AppInv

(* The invariant of all deliveries, registrations and phones is inductive.   *)
THEOREM InductiveInvariant == Spec => []IInv
<1>1. Init => IInv
  <2>1. Init => RowsInv
    BY LoopAssumption DEF Init, RowsInv, RegisteredStays
  <2>2. Init => TriedInv
    BY DEF Init, TriedInv, EveryPhoneTried
  <2>3. Init => AppInv
    BY DEF Init, AppInv, Ready
  <2> QED
    BY <2>1, <2>2, <2>3, InitType DEF IInv
<1>2. IInv /\ [Next]_vars => IInv'
    BY StepType, RowsStep, TriedStep, AppStep DEF IInv
<1> QED
    BY <1>1, <1>2, PTL DEF Spec

(* upsert_push_device, delete_push_device and delete_push_tokens: a live     *)
(* phone told that it is registered has its row, whatever runs beside it.    *)
THEOREM PhonesStayRegistered == Spec => []RegisteredStays
<1>1. IInv => RegisteredStays
    BY DEF IInv, RowsInv
<1> QED
    BY <1>1, InductiveInvariant, PTL

(* send_push has tried every phone that was the agent's throughout.          *)
THEOREM PhonesAreTried == Spec => []EveryPhoneTried
<1>1. IInv => EveryPhoneTried
    BY DEF IInv, TriedInv
<1> QED
    BY <1>1, InductiveInvariant, PTL

(* _get_messaging fails only a delivery that began before any had got        *)
(* Firebase ready, and not all of those.                                     *)
THEOREM OnlyEarlyFail == Spec => []FailsOnlyAtStart
<1>1. IInv => FailsOnlyAtStart
    BY DEF IInv, AppInv, FailsOnlyAtStart, Ready
<1> QED
    BY <1>1, InductiveInvariant, PTL
=============================================================================
