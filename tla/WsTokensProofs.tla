--------------------------- MODULE WsTokensProofs ---------------------------
(* Proofs about WsTokens, for every validity and every bound: no copy of a  *)
(* token outlives its replacement, and the token issued last opens the      *)
(* tunnel until it expires.                                                 *)
EXTENDS WsTokens, TLAPS

Latest == [token |-> Len(expiry), expiry |-> expiry[Len(expiry)]]
LatestAlive == Issued # {} /\ now < expiry[Len(expiry)]

(* Where the token issued last still is while it lives: in the row until a  *)
(* mismatch deletes it, in the entry until that copy is dropped.            *)
CopiesStay ==
    LatestAlive =>
        /\ ~mismatched => row = Latest
        /\ ~dropped => known /\ memory = Latest

IInv == TypeOK /\ NoOldCopies /\ CopiesStay

-----------------------------------------------------------------------------
(* The variables have their types at the start. *)
LEMMA InitType == Init => TypeOK
<1> SUFFICES ASSUME Init PROVE TypeOK
    OBVIOUS
<1>1. memory \in Copy /\ row \in Copy
    BY DEF Init, Copy, NoCopy
<1>2. expiry \in Seq(Nat) /\ Len(expiry) = 0
    BY DEF Init
<1>3. opening \in 0 .. MaxOpening /\ now \in Nat /\ Len(expiry) <= MaxTokens
    BY <1>2, BoundsAssumption DEF Init
<1> QED
    BY <1>1, <1>2, <1>3 DEF Init, TypeOK

(* Every step keeps the types. *)
LEMMA StepType == TypeOK /\ [Next]_vars => TypeOK'
<1> SUFFICES ASSUME TypeOK, [Next]_vars PROVE TypeOK'
    OBVIOUS
<1>1. CASE Issue
  <2>1. now + Validity \in Nat /\ Len(expiry) + 1 \in Nat
    BY BoundsAssumption DEF TypeOK
  <2>2. memory' \in Copy /\ row' \in Copy /\ memory'.expiry \in Nat
    BY <1>1, <2>1 DEF Issue, Upsert, Copy
  <2>3. expiry' \in Seq(Nat) /\ Len(expiry') <= MaxTokens
    BY <1>1, <2>2, BoundsAssumption DEF TypeOK, Issue
  <2> QED
    BY <1>1, <2>2, <2>3 DEF TypeOK, Issue
<1>2. ASSUME ~Issue PROVE TypeOK'
  <2>1. NoCopy \in Copy
    BY DEF Copy, NoCopy
  <2> USE <2>1, BoundsAssumption DEF TypeOK
  <2>2. CASE Enter
    BY <2>2 DEF Enter
  <2>3. CASE Leave
    BY <2>3 DEF Leave, RowKept
  <2>4. CASE Resolve
    BY <2>4 DEF Resolve
  <2>5. CASE Restart
    <3>1. 0 \in 0 .. MaxOpening
      OBVIOUS
    <3> QED
      BY <2>5, <3>1 DEF Restart
  <2>6. CASE Tick
    BY <2>6 DEF Tick
  <2>7. CASE AdmitUnknown
    BY <2>7 DEF AdmitUnknown
  <2>8. CASE RefuseUnknown
    BY <2>8 DEF RefuseUnknown
  <2>9. ASSUME NEW t \in Issued, AdmitKnown(t) \/ Restore(t) PROVE TypeOK'
    BY <2>9 DEF AdmitKnown, Restore
  <2>10. ASSUME NEW t \in Issued, Refuse(t) PROVE TypeOK'
    BY <2>10 DEF Refuse
  <2>11. CASE UNCHANGED vars
    BY <2>11 DEF vars
  <2> QED
    BY <1>2, <2>2, <2>3, <2>4, <2>5, <2>6, <2>7, <2>8, <2>9, <2>10, <2>11 DEF Next
<1> QED
    BY <1>1, <1>2

(* What a step other than an issue does to the history of issues. *)
LEMMA OnlyIssueIssues ==
    ASSUME [Next]_vars, ~Issue
    PROVE  expiry' = expiry
    BY DEF Next, vars, Enter, Leave, Resolve, Restart, Tick, AdmitUnknown,
           RefuseUnknown, AdmitKnown, Restore, Refuse

(* An issue puts the new token, with its own expiry, in both places. *)
LEMMA IssueWritesBoth ==
    ASSUME TypeOK, Issue
    PROVE  /\ memory' = Latest' /\ row' = Latest' /\ known'
           /\ Len(expiry') \in Nat \ {0}
<1>1. Len(expiry') = Len(expiry) + 1 /\ expiry'[Len(expiry')] = memory'.expiry
    BY DEF TypeOK, Issue
<1>2. memory'.token = Len(expiry) + 1 /\ row' = memory'
    BY DEF Issue, Upsert
<1>3. memory' = [token |-> memory'.token, expiry |-> memory'.expiry]
    BY DEF Issue
<1> QED
    BY <1>1, <1>2, <1>3 DEF Latest, TypeOK, Issue

(* No other step writes a copy that was not in one of the two places. *)
LEMMA CopiesComeFromCopies ==
    ASSUME [Next]_vars, ~Issue
    PROVE  /\ memory' \in {memory, row, NoCopy}
           /\ row' \in {row, NoCopy}
    BY DEF Next, vars, Enter, Leave, RowKept, Resolve, Restart, Tick,
           AdmitUnknown, RefuseUnknown, AdmitKnown, Restore, Refuse

(* No step brings back a token that was replaced. *)
LEMMA StepCopies == TypeOK /\ NoOldCopies /\ [Next]_vars => NoOldCopies'
<1> SUFFICES ASSUME TypeOK, NoOldCopies, [Next]_vars PROVE NoOldCopies'
    OBVIOUS
<1>1. CASE Issue
    BY <1>1, IssueWritesBoth DEF NoOldCopies, Latest
<1>2. CASE ~Issue
    BY <1>2, OnlyIssueIssues, CopiesComeFromCopies DEF NoOldCopies, NoCopy
<1> QED
    BY <1>1, <1>2
-----------------------------------------------------------------------------
(* The copies of the latest token stay where CopiesStay says. *)
LEMMA StepStays ==
    IInv /\ [Next]_vars => CopiesStay'
<1> SUFFICES ASSUME TypeOK, NoOldCopies, CopiesStay, [Next]_vars, LatestAlive'
             PROVE  /\ ~mismatched' => row' = Latest'
                    /\ ~dropped' => known' /\ memory' = Latest'
    BY DEF IInv, CopiesStay
<1>1. CASE Issue
    BY <1>1, IssueWritesBoth
<1>2. ASSUME ~Issue
      PROVE  /\ ~mismatched' => row' = Latest'
             /\ ~dropped' => known' /\ memory' = Latest'
  <2>1. expiry' = expiry /\ Latest' = Latest
    BY <1>2, OnlyIssueIssues DEF Latest
  <2>2. now <= now'
    BY <1>2 DEF TypeOK, Next, vars, Enter, Leave, Resolve, Restart, Tick,
                AdmitUnknown, RefuseUnknown, AdmitKnown, Restore, Refuse
  <2>3. Issued # {} /\ Len(expiry) \in Nat \ {0} /\ expiry[Len(expiry)] \in Nat
    BY <2>1 DEF TypeOK, LatestAlive, Issued
  <2>4. LatestAlive
    <3>1. now \in Nat /\ now' \in Nat
      BY StepType DEF TypeOK
    <3>2. now' < expiry[Len(expiry)]
      BY <2>1 DEF LatestAlive
    <3> QED
      BY <2>2, <2>3, <3>1, <3>2 DEF LatestAlive
  <2>5. Latest.token # 0 /\ now < Latest.expiry /\ Latest # NoCopy
    BY <2>3, <2>4 DEF Latest, LatestAlive, NoCopy
  <2>6. /\ ~mismatched => row = Latest
        /\ ~dropped => known /\ memory = Latest
    BY <2>4 DEF CopiesStay
  <2>7. CASE Enter \/ Resolve \/ Tick \/ UNCHANGED vars
    BY <2>1, <2>6, <2>7 DEF Enter, Resolve, Tick, vars
  <2>8. CASE Leave \/ Restart
    BY <2>1, <2>6, <2>8 DEF Leave, Restart, RowKept
  <2>9. CASE AdmitUnknown
    BY <2>1, <2>6, <2>9 DEF AdmitUnknown
  <2>10. CASE RefuseUnknown
    <3>1. ~mismatched => Load
      BY <2>5, <2>6 DEF Load, Alive
    <3> QED
      BY <2>1, <2>6, <2>10, <3>1 DEF RefuseUnknown
  <2>11. ASSUME NEW t \in Issued, AdmitKnown(t)
         PROVE  UNCHANGED <<known, memory, row, mismatched, dropped>>
    BY <2>11 DEF AdmitKnown
  <2>12. ASSUME NEW t \in Issued, Restore(t)
         PROVE  memory' = Latest /\ UNCHANGED <<known, row, mismatched, dropped>>
    BY <2>12 DEF Restore, Restorable, Holds, Alive, NoOldCopies, NoCopy, Latest
  <2>13. ASSUME NEW t \in Issued, Refuse(t)
         PROVE  /\ row' = row \/ mismatched'
                /\ memory' = memory \/ memory.expiry <= now
                /\ mismatched' = (mismatched \/ row # NoCopy)
                /\ UNCHANGED <<known, dropped>>
    BY <2>13 DEF Refuse
  <2>14. CASE \E t \in Issued : AdmitKnown(t) \/ Restore(t) \/ Refuse(t)
    <3>1. CASE \E t \in Issued : AdmitKnown(t)
      BY <2>1, <2>6, <2>11, <3>1
    <3>2. CASE \E t \in Issued : Restore(t)
      <4>1. ~dropped' => known'
        BY <2>6, <2>12, <3>2
      <4> QED
        BY <2>1, <2>6, <2>12, <3>2, <4>1
    <3>3. CASE \E t \in Issued : Refuse(t)
      <4>1. ~mismatched' => row' = row /\ ~mismatched
        BY <2>13, <3>3 DEF TypeOK
      <4>2. ~dropped' => known' /\ memory' = memory
        <5>1. memory = Latest => ~(memory.expiry <= now)
          BY <2>3, <2>5 DEF TypeOK, Latest
        <5> QED
          BY <2>6, <2>13, <3>3, <5>1
      <4> QED
        BY <2>1, <2>6, <2>13, <3>3, <4>1, <4>2
    <3> QED
      BY <2>14, <3>1, <3>2, <3>3
  <2> QED
    BY <1>2, <2>7, <2>8, <2>9, <2>10, <2>14 DEF Next
<1> QED
    BY <1>1, <1>2

(* What the copies amount to: either admits the token issued last. *)
LEMMA StayWorks == IInv => LatestTokenWorks
<1> SUFFICES ASSUME IInv, LatestAlive, ~(mismatched /\ dropped)
             PROVE  Accepted(Len(expiry))
    BY DEF LatestTokenWorks, LatestAlive
<1>1. Len(expiry) \in Nat \ {0} /\ expiry[Len(expiry)] \in Nat
    BY DEF IInv, TypeOK, LatestAlive, Issued
<1>2. Latest.token = Len(expiry) /\ Latest.token # 0 /\ now < Latest.expiry
    BY <1>1 DEF Latest, LatestAlive
<1>3. CASE ~mismatched
  <2>1. row = Latest
    BY <1>3 DEF IInv, CopiesStay
  <2> QED
    BY <1>2, <2>1 DEF Accepted, Restorable, Load, Holds, Alive
<1>4. CASE ~dropped
  <2>1. known /\ memory = Latest
    BY <1>4 DEF IInv, CopiesStay
  <2> QED
    BY <1>2, <2>1 DEF Accepted, Holds, Alive
<1> QED
    BY <1>3, <1>4

(* Whatever branch accepts, it does so on a copy of the latest token, in    *)
(* time; an entry's branches also compare the token with that copy.         *)
LEMMA AcceptedByLatest == IInv => AdmissionNeedsLatest
<1> SUFFICES ASSUME NoOldCopies, NEW t \in Issued, Accepted(t)
             PROVE  now < expiry[Len(expiry)] /\ (known => t = Len(expiry))
    BY DEF IInv, AdmissionNeedsLatest
<1>1. PICK copy \in {memory, row} : Alive(copy) /\ (known => copy.token = t)
    BY DEF Accepted, Load, Restorable, Holds
<1>2. copy.token # 0 /\ now < copy.expiry
    BY <1>1 DEF Alive
<1>3. copy # NoCopy
    BY <1>2 DEF NoCopy
<1>4. copy = Latest
    BY <1>3 DEF NoOldCopies, Latest
<1> QED
    BY <1>1, <1>2, <1>4 DEF Latest

-----------------------------------------------------------------------------
(* The inductive invariant holds in every reachable state. *)
THEOREM InductiveInvariant == Spec => []IInv
<1>1. Init => IInv
  <2>1. Init => NoOldCopies /\ CopiesStay
    BY DEF Init, NoOldCopies, CopiesStay, LatestAlive, Issued
  <2> QED
    BY <2>1, InitType DEF IInv
<1>2. IInv /\ [Next]_vars => IInv'
    BY StepType, StepCopies, StepStays DEF IInv
<1> QED
    BY <1>1, <1>2, PTL DEF Spec

(* set_agent_ws_token replaces both copies for good: whatever the registry  *)
(* or the table holds afterwards is the token issued last.                  *)
THEOREM CopiesAreCurrent == Spec => []NoOldCopies
<1>1. IInv => NoOldCopies
    BY DEF IInv
<1> QED
    BY <1>1, InductiveInvariant, PTL

(* validate_agent_ws_token accepts the token issued last until it expires,  *)
(* unless a mismatch deleted the row and the entry's copy was dropped too.  *)
THEOREM LatestOpensTunnel == Spec => []LatestTokenWorks
    BY InductiveInvariant, StayWorks, PTL

(* validate_agent_ws_token accepts nothing once the token issued last has   *)
(* expired, with or without an entry, and with one nothing but that token.  *)
THEOREM AdmissionIsCurrent == Spec => []AdmissionNeedsLatest
    BY InductiveInvariant, AcceptedByLatest, PTL
=============================================================================
