------------------------- MODULE ConnectivityProofs -------------------------
(* Proofs about Connectivity, for any connections and number of restarts:   *)
(* the monitor keeps in step with the registry, and no alert is false.      *)
EXTENDS Connectivity, TLAPS

(* At most one timer sleeps, and it is the one of the last loss.            *)
OneTimer ==
    /\ timers \subseteq {tracked.task}
    /\ tracked.task \in {NoConn, lost}

-----------------------------------------------------------------------------
(* The variables have their types at the start. *)
LEMMA InitType == Init => TypeOK
    BY ConnsAssumption DEF Init, TypeOK, Fresh, MaybeConn, Live

(* Every step keeps the types. *)
LEMMA StepType == TypeOK /\ [Next]_vars => TypeOK'
<1> SUFFICES ASSUME TypeOK, [Next]_vars PROVE TypeOK'
    OBVIOUS
<1> USE ConnsAssumption DEF TypeOK, MaybeConn, Live, server
<1>1. ASSUME NEW c \in Conns, Connect(c) PROVE TypeOK'
    BY <1>1 DEF Connect, OnAgentConnected
<1>2. ASSUME NEW c \in Conns, Replace(c) PROVE TypeOK'
    BY <1>2 DEF Replace
<1>3. ASSUME NEW c \in Conns, Opened(c) PROVE TypeOK'
    BY <1>3 DEF Opened, OnAgentConnected
<1>4. ASSUME NEW c \in Conns, StableOver(c) PROVE TypeOK'
    BY <1>4 DEF StableOver
<1>5. ASSUME NEW c \in Conns, Told(c) PROVE TypeOK'
    BY <1>5 DEF Told
<1>6. ASSUME NEW c \in Conns, Drop(c) PROVE TypeOK'
    BY <1>6 DEF Drop
<1>7. ASSUME NEW c \in Conns, Disconnect(c) PROVE TypeOK'
    BY <1>7 DEF Disconnect, OnAgentDisconnected
<1>8. ASSUME NEW c \in Conns, OfflineFires(c) PROVE TypeOK'
  <2>1. CASE ws = NoConn /\ ~tracked.connected /\ ~tracked.cooling
    <3>1. tracked' = [tracked EXCEPT !.notified = TRUE, !.cooling = TRUE]
      BY <1>8, <2>1 DEF OfflineFires
    <3>2. told' = "offline" /\ unsaid' = {} /\ timers' \subseteq timers
          /\ UNCHANGED <<ws, cpc, gone, restarts, lost, silent>>
      BY <1>8, <2>1 DEF OfflineFires
    <3>3. tracked' \in [connected : BOOLEAN, task : MaybeConn, notified : BOOLEAN,
                        cooling : BOOLEAN, since : MaybeConn]
      BY <3>1
    <3> QED
      BY <3>2, <3>3
  <2>2. CASE ~(ws = NoConn /\ ~tracked.connected /\ ~tracked.cooling)
    <3>1. tracked' = tracked /\ silent' \subseteq silent \union {"cooldown"}
      BY <1>8, <2>2 DEF OfflineFires
    <3> QED
      BY <1>8, <2>2, <3>1 DEF OfflineFires
  <2> QED
    BY <2>1, <2>2
<1>9. ASSUME CooldownOver PROVE TypeOK'
    BY <1>9 DEF CooldownOver
<1>10. ASSUME AgentStatus PROVE TypeOK'
    BY <1>10 DEF AgentStatus
<1>11. ASSUME Restart PROVE TypeOK'
    BY <1>11 DEF Restart, Fresh
<1>12. CASE UNCHANGED vars
    BY <1>12 DEF vars
<1> QED
    BY <1>1, <1>2, <1>3, <1>4, <1>5, <1>6, <1>7, <1>8, <1>9, <1>10, <1>11, <1>12 DEF Next

(* A loss replaces the timer before it, a connection cancels it. *)
LEMMA StepOneTimer == TypeOK /\ OneTimer /\ [Next]_vars => OneTimer'
<1> SUFFICES ASSUME TypeOK, OneTimer, [Next]_vars PROVE OneTimer'
    OBVIOUS
<1> USE ConnsAssumption DEF TypeOK, OneTimer, MaybeConn, server
<1>1. ASSUME NEW c \in Conns, Connect(c) PROVE OneTimer'
    BY <1>1 DEF Connect, OnAgentConnected
<1>2. ASSUME NEW c \in Conns, Replace(c) PROVE OneTimer'
    BY <1>2 DEF Replace
<1>3. ASSUME NEW c \in Conns, Opened(c) PROVE OneTimer'
    BY <1>3 DEF Opened, OnAgentConnected
<1>4. ASSUME NEW c \in Conns, StableOver(c) PROVE OneTimer'
    BY <1>4 DEF StableOver
<1>5. ASSUME NEW c \in Conns, Told(c) PROVE OneTimer'
    BY <1>5 DEF Told
<1>6. ASSUME NEW c \in Conns, Drop(c) PROVE OneTimer'
    BY <1>6 DEF Drop
<1>7. ASSUME NEW c \in Conns, Disconnect(c) PROVE OneTimer'
    BY <1>7 DEF Disconnect, OnAgentDisconnected
<1>8. ASSUME NEW c \in Conns, OfflineFires(c) PROVE OneTimer'
    BY <1>8 DEF OfflineFires
<1>9. ASSUME CooldownOver PROVE OneTimer'
    BY <1>9 DEF CooldownOver
<1>10. ASSUME AgentStatus PROVE OneTimer'
    BY <1>10 DEF AgentStatus
<1>11. ASSUME Restart PROVE OneTimer'
    BY <1>11 DEF Restart, Fresh
<1>12. CASE UNCHANGED vars
    BY <1>12 DEF vars
<1> QED
    BY <1>1, <1>2, <1>3, <1>4, <1>5, <1>6, <1>7, <1>8, <1>9, <1>10, <1>11, <1>12 DEF Next

(* Every step keeps the monitor in step with the registry. *)
LEMMA StepInStep == TypeOK /\ InStep /\ [Next]_vars => InStep'
<1> SUFFICES ASSUME TypeOK, InStep, [Next]_vars PROVE InStep'
    OBVIOUS
<1> USE ConnsAssumption DEF TypeOK, InStep, MaybeConn, server
<1>1. ASSUME NEW c \in Conns, Connect(c) PROVE InStep'
    BY <1>1 DEF Connect, OnAgentConnected
<1>2. ASSUME NEW c \in Conns, Replace(c) PROVE InStep'
    BY <1>2 DEF Replace
<1>3. ASSUME NEW c \in Conns, Opened(c) PROVE InStep'
    BY <1>3 DEF Opened, OnAgentConnected
<1>4. ASSUME NEW c \in Conns, StableOver(c) PROVE InStep'
    BY <1>4 DEF StableOver
<1>5. ASSUME NEW c \in Conns, Told(c) PROVE InStep'
    BY <1>5 DEF Told
<1>6. ASSUME NEW c \in Conns, Drop(c) PROVE InStep'
    BY <1>6 DEF Drop
<1>7. ASSUME NEW c \in Conns, Disconnect(c) PROVE InStep'
    BY <1>7 DEF Disconnect, OnAgentDisconnected
<1>8. ASSUME NEW c \in Conns, OfflineFires(c) PROVE InStep'
    BY <1>8 DEF OfflineFires
<1>9. ASSUME CooldownOver PROVE InStep'
    BY <1>9 DEF CooldownOver
<1>10. ASSUME AgentStatus PROVE InStep'
    BY <1>10 DEF AgentStatus
<1>11. ASSUME Restart PROVE InStep'
    BY <1>11 DEF Restart, Fresh
<1>12. CASE UNCHANGED vars
    BY <1>12 DEF vars
<1> QED
    BY <1>1, <1>2, <1>3, <1>4, <1>5, <1>6, <1>7, <1>8, <1>9, <1>10, <1>11, <1>12 DEF Next

-----------------------------------------------------------------------------
IInv == TypeOK /\ OneTimer /\ InStep

(* Types, timers and the agreement with the registry, together.             *)
THEOREM InductiveInvariant == Spec => []IInv
<1>1. Init => IInv
  <2> SUFFICES ASSUME Init PROVE IInv
    OBVIOUS
  <2>1. tracked.task = NoConn /\ tracked.connected = FALSE
    BY DEF Init, Fresh
  <2>2. OneTimer /\ InStep
    BY <2>1 DEF Init, OneTimer, InStep
  <2> QED
    BY <2>2, InitType DEF IInv
<1>2. IInv /\ [Next]_vars => IInv'
    BY StepType, StepOneTimer, StepInStep DEF IInv
<1> QED
    BY <1>1, <1>2, PTL DEF Spec

(* on_agent_connected and on_agent_disconnected keep the monitor in step    *)
(* with the registry, but for the report of a replaced socket that is late. *)
THEOREM MonitorInStep == Spec => []InStep
<1>1. IInv => InStep
    BY DEF IInv
<1> QED
    BY <1>1, InductiveInvariant, PTL

(* _offline_after_delay never announces an absence that is over, or that    *)
(* began after the delay it slept through.                                  *)
THEOREM NoFalseAlarm == Spec => AlarmIsTrue
<1>1. IInv /\ [Next]_vars =>
        [\A c \in Conns : OfflineFires(c) /\ tracked'.notified /\ ~tracked.notified =>
            c = lost /\ ws = NoConn]_vars
    BY ConnsAssumption DEF IInv, TypeOK, OneTimer, OfflineFires, server
<1> QED
    BY <1>1, InductiveInvariant, PTL DEF Spec, AlarmIsTrue
=============================================================================
