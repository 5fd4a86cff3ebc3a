----------------------------- MODULE RateLimiter -----------------------------
(***************************************************************************)
(* InMemoryRateLimiter and the requests that consult it: register/start    *)
(* and register/status with one key each, pair/complete with two, the      *)
(* second only if the first lets it through.  The handlers are coroutines  *)
(* of one event loop that do not await between their hits, so a request is *)
(* one step.  Time is counted in the grain of time.time(): several hits    *)
(* may carry the same time.                                                *)
(***************************************************************************)
EXTENDS Naturals, Sequences, FiniteSets

CONSTANTS
    Keys,      \* the keys: an endpoint's name, an address, a code or agent
    Max,       \* Max[k]: max_hits of k's endpoint
    Window,    \* Window[k]: its window_seconds
    Requests,  \* the key sequences of the requests that are made
    MaxTime    \* bound on the clock

ASSUME BudgetsAssumption ==
    /\ Max \in [Keys -> Nat \ {0}]
    /\ Window \in [Keys -> Nat \ {0}]
    /\ MaxTime \in Nat
ASSUME RequestsAssumption ==
    /\ Requests \subseteq Seq(Keys)
    /\ \A q \in Requests : \A i, j \in DOMAIN q : q[i] = q[j] => i = j

VARIABLES
    events,    \* _events: the times remembered of each key
    now,       \* time.time()
    passed     \* history: the times of all hits of a key that returned True

vars == <<events, now, passed>>

TypeOK ==
    /\ events \in [Keys -> Seq(0 .. MaxTime)]
    /\ now \in 0 .. MaxTime
    /\ passed \in [Keys -> Seq(0 .. MaxTime)]
    /\ \A k \in Keys : Len(events[k]) <= Max[k]

Init ==
    /\ events = [k \in Keys |-> <<>>]
    /\ now = 0
    /\ passed = [k \in Keys |-> <<>>]

(* The members of s at the positions P, in their order. *)
Those(s, P) ==
    [n \in 1 .. Cardinality(P) |->
        s[CHOOSE i \in P : Cardinality({j \in P : j <= i}) = n]]

(* The times hit() keeps: both ends of the window belong to it. *)
KeptOpen(k) ==
    Those(events[k], {i \in DOMAIN events[k] : events[k][i] + Window[k] > now})
Kept(k) ==
    Those(events[k], {i \in DOMAIN events[k] : events[k][i] + Window[k] >= now})

FullLate(k) == Len(Kept(k)) > Max[k]
Full(k) == Len(Kept(k)) >= Max[k]

(* What a hit leaves remembered, if it returns True and if it does not. *)
Granted(k) == Append(Kept(k), now)
RecordedAnyway(k) == Append(Kept(k), now)
Refused(k) == Kept(k)

(* The position of the key that refuses request q; past the end if none. *)
Refusal(q) ==
    LET full == {i \in DOMAIN q : Full(q[i])}
    IN  IF full = {} THEN Len(q) + 1
        ELSE CHOOSE i \in full : \A j \in full : i <= j

(* A request: its keys are hit in order up to the first that refuses. *)
Hits(q) ==
    /\ events' = [k \in Keys |->
          CASE \E i \in 1 .. Refusal(q) - 1 : q[i] = k -> Granted(k)
            [] Refusal(q) <= Len(q) /\ q[Refusal(q)] = k -> Refused(k)
            [] OTHER -> events[k]]
    /\ passed' = [k \in Keys |->
          IF \E i \in 1 .. Refusal(q) - 1 : q[i] = k
          THEN Append(passed[k], now) ELSE passed[k]]
    /\ UNCHANGED now

LetThrough(q) == Refusal(q) > Len(q) /\ Hits(q)
TooMany(q) == Refusal(q) <= Len(q) /\ Hits(q)      \* 429

Tick ==
    /\ now < MaxTime
    /\ now' = now + 1
    /\ UNCHANGED <<events, passed>>

Next == (\E q \in Requests : LetThrough(q) \/ TooMany(q)) \/ Tick

Spec == Init /\ [][Next]_vars

-----------------------------------------------------------------------------
(* In no stretch of Window[k] seconds, ends included, do more than Max[k]   *)
(* hits of a key pass, although the list is pruned at every hit, refused    *)
(* ones too.                                                                *)
WindowBound ==
    \A k \in Keys : \A i, j \in DOMAIN passed[k] :
        i + Max[k] <= j => passed[k][i] + Window[k] < passed[k][j]

(* A request is refused only on account of hits that passed: one of its     *)
(* keys has had Max[k] of them within the window.  Refused requests do not  *)
(* prolong the refusal, so a caller that waits is served.                   *)
RefusalIsJustified ==
    [][\A q \in Requests : TooMany(q) =>
          \E k \in Keys :
             /\ \E i \in DOMAIN q : q[i] = k
             /\ Len(passed[k]) >= Max[k]
             /\ passed[k][Len(passed[k]) - Max[k] + 1] + Window[k] >= now]_vars
=============================================================================
