-------------------------------- MODULE Push --------------------------------
(***************************************************************************)
(* The phones registered for an agent (table push_devices) and the         *)
(* delivery of one notification to all of them (vela_push.send_push).      *)
(*                                                                         *)
(* Registration, removal and the deliveries an agent asks for run on the   *)
(* event loop and block it to their end; the connectivity alerts run in    *)
(* worker threads beside it.  Each SQL statement commits by itself, and    *)
(* each call to Firebase may take any time: those are the steps.  A        *)
(* Firebase token that died stays dead.  FCM is configured.                *)
(***************************************************************************)
EXTENDS Naturals

CONSTANTS Agents,      \* agent ids
          Tokens,      \* FCM registration tokens, one per phone
          Deliveries,  \* the calls of send_push
          None         \* no agent; nobody on the loop

ASSUME NoneAssumption == None \notin Agents \cup Deliveries

VARIABLES
    rows,         \* rows[t]: the agent of t's row of push_devices
    loop,         \* what occupies the event loop: a delivery, or a registration
    initialized,  \* _firebase_initialized
    app,          \* has Firebase its default app?
    dpc,          \* dpc[d]: where delivery d is
    agentOf,      \* agentOf[d]: the agent it is for
    todo,         \* todo[d]: the listed tokens not tried yet
    invalid,      \* invalid[d]: its invalid_tokens
    dead,         \* tokens Firebase has dropped
    want,         \* history: the agent a phone was last told it is registered with
    steady,       \* history: the tokens that have been d's agent's since d began
    tried,        \* history: the tokens d has sent to
    early         \* history: the deliveries that began before any had Firebase ready

queue == <<dpc, agentOf, todo, invalid>>
history == <<want, steady, tried, early>>
vars == <<rows, loop, initialized, app, queue, dead, history>>

(* A registration between its SELECT and its UPDATE or INSERT. *)
Registration == [agent : Agents, token : Tokens, found : BOOLEAN]
ASSUME LoopAssumption == Registration \cap (Deliveries \cup {None}) = {}

Where == {"idle", "check", "create", "mark", "list", "send", "done", "failed"}
Ready == {"list", "send", "done"}

TypeOK ==
    /\ rows \in [Tokens -> Agents \cup {None}]
    /\ loop \in Registration \cup Deliveries \cup {None}
    /\ initialized \in BOOLEAN /\ app \in BOOLEAN
    /\ dpc \in [Deliveries -> Where]
    /\ agentOf \in [Deliveries -> Agents \cup {None}]
    /\ dead \subseteq Tokens /\ early \subseteq Deliveries
    /\ {todo, invalid, steady, tried} \subseteq [Deliveries -> SUBSET Tokens]
    /\ want \in [Tokens -> Agents \cup {None}]

Init ==
    /\ rows = [t \in Tokens |-> None]
    /\ loop = None
    /\ initialized = FALSE /\ app = FALSE
    /\ dpc = [d \in Deliveries |-> "idle"]
    /\ agentOf = [d \in Deliveries |-> None]
    /\ todo = [d \in Deliveries |-> {}]
    /\ invalid = [d \in Deliveries |-> {}]
    /\ dead = {}
    /\ want = [t \in Tokens |-> None]
    /\ steady = [d \in Deliveries |-> {}]
    /\ tried = [d \in Deliveries |-> {}]
    /\ early = {}

Of(a) == {t \in Tokens : rows[t] = a}

(* The tokens each delivery may still count on, given the rows after a step. *)
Steady == [d \in Deliveries |-> {t \in steady[d] : rows'[t] = agentOf[d]}]

-----------------------------------------------------------------------------
(* Registration and removal *)

(* upsert_push_device, first statement. *)
RegisterSelect(a, t) ==
    /\ loop = None
    /\ t \notin dead
    /\ loop' = [agent |-> a, token |-> t, found |-> rows[t] # None]
    /\ UNCHANGED <<rows, initialized, app, queue, dead, history>>

(* The row that UPDATE leaves; a row deleted meanwhile is not updated. *)
KeptOwner(g) == rows[g.token]
Updated(g) == IF rows[g.token] = None THEN None ELSE g.agent

(* ... and its second: the phone is told that it is registered. *)
RegisterWrite ==
    /\ loop \in Registration
    /\ rows' = [rows EXCEPT ![loop.token] =
                   IF loop.found THEN Updated(loop) ELSE loop.agent]
    /\ want' = [want EXCEPT ![loop.token] = loop.agent]
    /\ steady' = Steady
    /\ loop' = None
    /\ UNCHANGED <<initialized, app, queue, dead, tried, early>>

(* delete_push_device: DELETE ... WHERE agent_id = ? AND token = ? *)
MatchesToken(a, t) == TRUE
Matches(a, t) == rows[t] = a

Unregister(a, t) ==
    /\ loop = None
    /\ Matches(a, t)
    /\ rows' = [rows EXCEPT ![t] = None]
    /\ want' = [want EXCEPT ![t] = IF @ = a THEN None ELSE @]
    /\ steady' = Steady
    /\ UNCHANGED <<loop, initialized, app, queue, dead, tried, early>>

-----------------------------------------------------------------------------
(* send_push *)

Move(d, from, to) == dpc[d] = from /\ dpc' = [dpc EXCEPT ![d] = to]

(* A delivery on the loop gives it back when it returns or raises. *)
FreeLoop(d) == loop' = IF loop = d THEN None ELSE loop

Begin(d, a) ==
    /\ Move(d, "idle", "check")
    /\ \/ UNCHANGED loop                      \* asyncio.to_thread
       \/ loop = None /\ loop' = d            \* push/send
    /\ agentOf' = [agentOf EXCEPT ![d] = a]
    /\ steady' = [steady EXCEPT ![d] = Of(a)]
    /\ early' = IF \E e \in Deliveries : dpc[e] \in Ready THEN early ELSE early \cup {d}
    /\ UNCHANGED <<rows, initialized, app, todo, invalid, dead, want, tried>>

(* _get_messaging: a flag, and the call that must happen once. *)
Check(d) ==
    /\ Move(d, "check", IF initialized THEN "list" ELSE "create")
    /\ UNCHANGED <<rows, loop, initialized, app, agentOf, todo, invalid, dead, history>>

(* initialize_app raises when the default app is there already. *)
Create(d) ==
    /\ Move(d, "create", IF app THEN "failed" ELSE "mark")
    /\ app' = TRUE
    /\ IF app THEN FreeLoop(d) ELSE UNCHANGED loop
    /\ UNCHANGED <<rows, initialized, agentOf, todo, invalid, dead, history>>

Unmarked == initialized
Marked == TRUE

Mark(d) ==
    /\ Move(d, "mark", "list")
    /\ initialized' = Marked
    /\ UNCHANGED <<rows, loop, app, agentOf, todo, invalid, dead, history>>

List(d) ==
    /\ Move(d, "list", "send")
    /\ todo' = [todo EXCEPT ![d] = Of(agentOf[d])]
    /\ UNCHANGED <<rows, loop, initialized, app, agentOf, invalid, dead, history>>

(* What a failed send means for its token, and for the tokens after it. *)
InvalidOnAnyError(t) == BOOLEAN
InvalidOn(t) == IF t \in dead THEN BOOLEAN ELSE {FALSE}
LeftNone(d, t, bad) == IF bad THEN {} ELSE todo[d] \ {t}
Left(d, t, bad) == todo[d] \ {t}

(* One messaging.send: delivered or failed for a passing reason (bad is     *)
(* FALSE), or refused because the token is not registered (bad is TRUE).    *)
Send(d, t) ==
    /\ dpc[d] = "send" /\ t \in todo[d]
    /\ tried' = [tried EXCEPT ![d] = @ \cup {t}]
    /\ \E bad \in InvalidOn(t) :
          /\ invalid' = [invalid EXCEPT ![d] = IF bad THEN @ \cup {t} ELSE @]
          /\ todo' = [todo EXCEPT ![d] = Left(d, t, bad)]
    /\ UNCHANGED <<rows, loop, initialized, app, dpc, agentOf, dead, want, steady, early>>

(* delete_push_tokens, if there are any; return. *)
Purge(d) ==
    /\ todo[d] = {}
    /\ Move(d, "send", "done")
    /\ rows' = [t \in Tokens |->
          IF t \in invalid[d] /\ Matches(agentOf[d], t) THEN None ELSE rows[t]]
    /\ steady' = Steady
    /\ FreeLoop(d)
    /\ UNCHANGED <<initialized, app, agentOf, todo, invalid, dead, want, tried, early>>

(* The phone drops its token: uninstalled, or given a new one. *)
Die(t) ==
    /\ t \notin dead
    /\ dead' = dead \cup {t}
    /\ UNCHANGED <<rows, loop, initialized, app, queue, history>>

Next ==
    \/ \E a \in Agents, t \in Tokens : RegisterSelect(a, t) \/ Unregister(a, t)
    \/ RegisterWrite
    \/ \E d \in Deliveries, a \in Agents : Begin(d, a)
    \/ \E d \in Deliveries :
          Check(d) \/ Create(d) \/ Mark(d) \/ List(d) \/ Purge(d)
    \/ \E d \in Deliveries, t \in Tokens : Send(d, t)
    \/ \E t \in Tokens : Die(t)

Spec == Init /\ [][Next]_vars

-----------------------------------------------------------------------------
(* A live phone that was told it is registered with an agent is, whatever   *)
(* deliveries, purges, moves to another agent and removals by an old one    *)
(* run at the same time.                                                    *)
RegisteredStays ==
    \A t \in Tokens \ dead :
        want[t] # None => rows[t] = want[t]

(* A delivery that ends normally has tried every phone that was the agent's *)
(* throughout, whatever became of the others (send_push goes on after an    *)
(* error).                                                                  *)
EveryPhoneTried ==
    \A d \in Deliveries : dpc[d] = "done" => steady[d] \subseteq tried[d]

(* The check-then-act of _get_messaging loses a notification only at the    *)
(* very start: a delivery begun once another found Firebase ready never     *)
(* fails on it, and of those that began before one goes through.            *)
FailsOnlyAtStart ==
    \A d \in Deliveries : dpc[d] = "failed" =>
        /\ d \in early
        /\ \E e \in early : dpc[e] \in Ready \cup {"mark"}
=============================================================================
