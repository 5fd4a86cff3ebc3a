-------------------------- MODULE RateLimiterProofs --------------------------
(***************************************************************************)
(* Proofs about RateLimiter, for any keys, budgets, windows and requests:  *)
(* the list hit() prunes and prunes again is, of the hits that passed, all *)
(* that may still matter.                                                  *)
(***************************************************************************)
EXTENDS RateLimiter, Integers, FiniteSetTheorems, WellFoundedInduction, TLAPS

(* The hits that passed are in the order of time. *)
InOrder(k) ==
    \A i, j \in DOMAIN passed[k] :
        passed[k][i] <= now /\ (i <= j => passed[k][i] <= passed[k][j])

(* What is remembered of a key is the end of what passed, ... *)
Remembered(k) ==
    /\ Len(events[k]) <= Len(passed[k])
    /\ \A i \in 1 .. Len(events[k]) :
          events[k][i] = passed[k][Len(passed[k]) - Len(events[k]) + i]

(* ... and what is not is out of the window. *)
Forgotten(k) ==
    \A i \in 1 .. Len(passed[k]) - Len(events[k]) : passed[k][i] + Window[k] < now

IInv ==
    /\ TypeOK
    /\ \A k \in Keys : InOrder(k) /\ Remembered(k) /\ Forgotten(k)
    /\ WindowBound

-----------------------------------------------------------------------------
(* A set of naturals has a least element. *)
LEMMA LeastNatural ==
    ASSUME NEW T \in SUBSET Nat, T # {}
    PROVE  \E m \in T : \A n \in T : m <= n
<1>1. IsWellFoundedOn(OpToRel(<, Nat), Nat)
  BY NatLessThanWellFounded
<1>2. PICK m \in T : \A n \in T : ~ (<<n, m>> \in OpToRel(<, Nat))
  BY <1>1, WFMin
<1>3. ASSUME NEW n \in T PROVE m <= n
  <2>1. ~ (n < m)
    BY <1>2, Zenon DEF OpToRel
  <2> QED BY <2>1
<1> QED BY <1>3

(* Positions closed upwards are those after some d. *)
LEMMA UpperPositions ==
    ASSUME NEW n \in Nat, NEW P \in SUBSET (1 .. n),
           \A i \in P, j \in 1 .. n : i <= j => j \in P
    PROVE  \E d \in 0 .. n : P = (d + 1) .. n
<1>1. CASE P = {}
  <2>1. n \in 0 .. n /\ (n + 1) .. n = {}
    OBVIOUS
  <2> QED BY <1>1, <2>1
<1>2. CASE P # {}
  <2>1. P \in SUBSET Nat
    OBVIOUS
  <2>2. PICK m \in P : \A i \in P : m <= i
    BY <1>2, <2>1, LeastNatural
  <2>3. m \in 1 .. n /\ m - 1 \in 0 .. n /\ (m - 1) + 1 = m
    OBVIOUS
  <2>4. \A i \in 1 .. n : m <= i => i \in P
    BY <2>3
  <2>5. \A i \in P : i \in 1 .. n /\ m <= i
    BY <2>2
  <2>6. P \subseteq m .. n
    BY <2>3, <2>5
  <2>7. m .. n \subseteq P
    <3>1. ASSUME NEW i \in m .. n PROVE i \in 1 .. n /\ m <= i
      BY <2>3
    <3> QED BY <2>4, <3>1, Zenon
  <2>8. P = m .. n
    BY <2>6, <2>7, Zenon
  <2> QED BY <2>3, <2>8
<1> QED BY <1>1, <1>2

(* Those of the positions after d: the rest of the sequence. *)
LEMMA ThoseAfter ==
    ASSUME NEW n \in Nat, NEW d \in 0 .. n, NEW s
    PROVE  Those(s, (d + 1) .. n) = [m \in 1 .. (n - d) |-> s[d + m]]
<1> DEFINE P == (d + 1) .. n
<1>1. Cardinality(P) = n - d
  <2>1. d + 1 \in Int /\ n \in Int /\ (d + 1 > n <=> n - d = 0) /\ n - (d + 1) + 1 = n - d
    OBVIOUS
  <2>2. Cardinality(P) = IF d + 1 > n THEN 0 ELSE n - (d + 1) + 1
    BY <2>1, FS_Interval
  <2> QED BY <2>1, <2>2
<1>2. ASSUME NEW i \in P PROVE Cardinality({j \in P : j <= i}) = i - d
  <2>1. {j \in P : j <= i} = (d + 1) .. i
    OBVIOUS
  <2>2. Cardinality((d + 1) .. i) = i - d
    BY FS_Interval
  <2> QED BY <2>1, <2>2
<1>3. ASSUME NEW m \in 1 .. (n - d)
      PROVE  (CHOOSE i \in P : Cardinality({j \in P : j <= i}) = m) = d + m
  <2>1. d + m \in P
    OBVIOUS
  <2>2. Cardinality({j \in P : j <= d + m}) = m
    BY <1>2, <2>1
  <2>3. \A i \in P : Cardinality({j \in P : j <= i}) = m => i = d + m
    BY <1>2
  <2> HIDE DEF P
  <2>4. \E i \in P : Cardinality({j \in P : j <= i}) = m
    BY <2>1, <2>2
  <2> QED BY <2>3, <2>4
<1> HIDE DEF P
<1>4. Those(s, P) = [m \in 1 .. (n - d) |-> s[d + m]]
  <2>1. \A m \in 1 .. (n - d) : s[CHOOSE i \in P : Cardinality({j \in P : j <= i}) = m] = s[d + m]
    BY <1>3, Zenon
  <2>2. Those(s, P) = [m \in 1 .. (n - d) |-> s[CHOOSE i \in P : Cardinality({j \in P : j <= i}) = m]]
    BY <1>1, Zenon DEF Those
  <2> QED BY <2>1, <2>2, Zenon
<1> QED BY <1>4 DEF P

(* Pruning takes a beginning of the list away, all of it out of the window, *)
(* and leaves what is in the window.                                        *)
LEMMA KeptIsEnd ==
    ASSUME IInv, NEW k \in Keys
    PROVE  \E c \in 0 .. Len(events[k]) :
              /\ Kept(k) \in Seq(0 .. MaxTime) /\ Len(Kept(k)) = c
              /\ \A m \in 1 .. c : Kept(k)[m] = passed[k][Len(passed[k]) - c + m]
              /\ \A i \in 1 .. Len(passed[k]) - c : passed[k][i] + Window[k] < now
              /\ \A i \in Len(passed[k]) - c + 1 .. Len(passed[k]) :
                    passed[k][i] + Window[k] >= now
<1> DEFINE e == events[k]
           p == passed[k]
           n == Len(e)
           l == Len(p)
           w == Window[k]
           P == {i \in DOMAIN e : e[i] + w >= now}
<1>1. /\ e \in Seq(0 .. MaxTime) /\ p \in Seq(0 .. MaxTime) /\ now \in Nat /\ w \in Nat
      /\ n \in Nat /\ l \in Nat /\ DOMAIN e = 1 .. n /\ DOMAIN p = 1 .. l
      /\ MaxTime \in Nat
  BY BudgetsAssumption DEF IInv, TypeOK
<1>2. /\ n <= l /\ \A i \in 1 .. n : e[i] = p[l - n + i]
      /\ \A i \in 1 .. l - n : p[i] + w < now
      /\ \A i, j \in 1 .. l : i <= j => p[i] <= p[j]
      /\ \A i \in 1 .. n : e[i] \in Nat
      /\ \A i \in 1 .. l : p[i] \in Nat
  <2>1. InOrder(k) /\ Remembered(k) /\ Forgotten(k)
    BY DEF IInv
  <2>2. n <= l /\ \A i \in 1 .. n : e[i] = p[l - n + i]
    BY <2>1, Zenon DEF Remembered
  <2>3. \A i \in 1 .. l - n : p[i] + w < now
    BY <2>1, Zenon DEF Forgotten
  <2>4. \A i, j \in 1 .. l : i <= j => p[i] <= p[j]
    BY <1>1, <2>1, Zenon DEF InOrder
  <2> HIDE DEF e, p, n, l, w
  <2>5. (\A i \in 1 .. n : e[i] \in Nat) /\ (\A i \in 1 .. l : p[i] \in Nat)
    BY <1>1
  <2> QED BY <2>2, <2>3, <2>4, <2>5
<1>3. Kept(k) = Those(e, P)
  BY DEF Kept
<1> HIDE DEF e, p, n, l, w
<1>4. P \in SUBSET (1 .. n) /\ \A i \in P, j \in 1 .. n : i <= j => j \in P
  <2>1. \A i, j \in 1 .. n : i <= j => e[i] <= e[j]
    <3>1. ASSUME NEW i \in 1 .. n, NEW j \in 1 .. n, i <= j PROVE e[i] <= e[j]
      <4>1. l - n + i \in 1 .. l /\ l - n + j \in 1 .. l /\ l - n + i <= l - n + j
        BY <1>1, <1>2, <3>1
      <4>2. p[l - n + i] <= p[l - n + j]
        BY <1>2, <4>1
      <4> QED BY <1>2, <4>2
    <3> QED BY <3>1
  <2>2. ASSUME NEW i \in P, NEW j \in 1 .. n, i <= j PROVE j \in P
    <3>1. i \in 1 .. n /\ e[i] + w >= now
      BY <1>1
    <3>2. e[i] <= e[j] /\ e[i] \in Nat /\ e[j] \in Nat
      BY <1>2, <2>1, <2>2, <3>1
    <3>3. e[j] + w >= now
      BY <1>1, <3>1, <3>2
    <3> QED BY <1>1, <3>3
  <2> QED BY <1>1, <2>2
<1>5. PICK d \in 0 .. n : P = (d + 1) .. n
  BY <1>1, <1>4, UpperPositions
<1>6. Kept(k) = [m \in 1 .. (n - d) |-> e[d + m]]
  <2> HIDE DEF P
  <2>1. Those(e, (d + 1) .. n) = [m \in 1 .. (n - d) |-> e[d + m]]
    BY <1>1, ThoseAfter
  <2> QED BY <1>3, <1>5, <2>1, Zenon
<1> DEFINE c == n - d
<1>7. c \in 0 .. n
  BY <1>1
<1>8. Kept(k) \in Seq(0 .. MaxTime) /\ Len(Kept(k)) = c
  <2>1. \A m \in 1 .. c : e[d + m] \in 0 .. MaxTime
    BY <1>1
  <2> QED BY <1>1, <1>6, <1>7, <2>1
<1>9. \A m \in 1 .. c : Kept(k)[m] = p[l - c + m]
  <2>1. \A m \in 1 .. c : Kept(k)[m] = e[d + m]
    BY <1>6
  <2>2. \A m \in 1 .. c : d + m \in 1 .. n /\ l - n + (d + m) = l - c + m
    BY <1>1
  <2> HIDE DEF c
  <2> QED BY <1>2, <2>1, <2>2
<1>10. \A i \in 1 .. l - c : p[i] + w < now
  <2>1. ASSUME NEW i \in 1 .. l - c, i > l - n PROVE p[i] + w < now
    <3>1. i - (l - n) \in 1 .. n /\ i - (l - n) \notin P
      <4>1. i \in Int /\ l - n < i /\ i <= l - c
        BY <1>1, <1>7, <2>1
      <4>2. i - (l - n) \in 1 .. d
        BY <1>1, <1>2, <4>1
      <4> HIDE DEF P
      <4> QED BY <1>1, <1>5, <4>2
    <3>2. ~ (e[i - (l - n)] + w >= now)
      BY <1>1, <3>1
    <3>3. e[i - (l - n)] = p[i] /\ e[i - (l - n)] \in Nat
      <4>1. l - n + (i - (l - n)) = i
        BY <1>1
      <4> QED BY <1>2, <3>1, <4>1
    <3> QED BY <1>1, <3>2, <3>3
  <2> QED BY <1>1, <1>2, <2>1
<1>11. \A i \in l - c + 1 .. l : p[i] + w >= now
  <2>1. ASSUME NEW i \in l - c + 1 .. l PROVE p[i] + w >= now
    <3>1. i - (l - n) \in (d + 1) .. n
      BY <1>1, <1>2, <2>1
    <3>2. e[i - (l - n)] + w >= now
      BY <1>5, <3>1
    <3>3. e[i - (l - n)] = p[i]
      <4>1. l - n + (i - (l - n)) = i /\ i - (l - n) \in 1 .. n
        BY <1>1, <3>1
      <4> QED BY <1>2, <4>1
    <3> QED BY <3>2, <3>3
  <2> QED BY <2>1
<1> QED BY <1>7, <1>8, <1>9, <1>10, <1>11 DEF e, p, n, l, w

-----------------------------------------------------------------------------
(* What a hit does to the invariant of its key. *)
KeyType(k) ==
    /\ events[k] \in Seq(0 .. MaxTime) /\ passed[k] \in Seq(0 .. MaxTime)
    /\ Len(events[k]) <= Max[k]
KeyBound(k) ==
    \A i, j \in DOMAIN passed[k] : i + Max[k] <= j => passed[k][i] + Window[k] < passed[k][j]
KeyInv(k) == KeyType(k) /\ InOrder(k) /\ Remembered(k) /\ Forgotten(k) /\ KeyBound(k)

(* A hit that passes: what it is Max[k] places after is out of the window.  *)
LEMMA GrantedKeeps ==
    ASSUME IInv, NEW k \in Keys, ~ Full(k), now' = now,
           events'[k] = Granted(k), passed'[k] = Append(passed[k], now)
    PROVE  KeyInv(k)'
<1> DEFINE p == passed[k]
           l == Len(p)
           w == Window[k]
           b == Max[k]
           x == Kept(k)
<1>1. /\ p \in Seq(0 .. MaxTime) /\ now \in 0 .. MaxTime /\ now \in Nat /\ w \in Nat /\ b \in Nat
      /\ l \in Nat /\ DOMAIN p = 1 .. l /\ MaxTime \in Nat
      /\ Len(events[k]) \in Nat /\ InOrder(k) /\ KeyBound(k)
  BY BudgetsAssumption DEF IInv, TypeOK, WindowBound, KeyBound
<1>2. PICK c \in 0 .. Len(events[k]) :
              /\ x \in Seq(0 .. MaxTime) /\ Len(x) = c
              /\ \A m \in 1 .. c : x[m] = p[l - c + m]
              /\ \A i \in 1 .. l - c : p[i] + w < now
  BY KeptIsEnd
<1>3. c < b /\ c \in Nat /\ c <= l
  <2>1. c < b
    BY <1>1, <1>2 DEF Full
  <2>2. Len(events[k]) <= l
    BY DEF IInv, Remembered
  <2> QED BY <1>1, <1>2, <2>1, <2>2
<1>4. events'[k] = Append(x, now) /\ passed'[k] = Append(p, now)
  BY DEF Granted
<1>5. /\ \A i \in 1 .. l : p[i] <= now /\ p[i] \in Nat
      /\ \A i, j \in 1 .. l : i <= j => p[i] <= p[j]
      /\ \A i, j \in 1 .. l : i + b <= j => p[i] + w < p[j]
  <2>1. /\ \A i \in 1 .. l : p[i] <= now
        /\ \A i, j \in 1 .. l : i <= j => p[i] <= p[j]
    BY <1>1, Zenon DEF InOrder
  <2>2. \A i, j \in 1 .. l : i + b <= j => p[i] + w < p[j]
    BY <1>1, Zenon DEF KeyBound
  <2> HIDE DEF p, l
  <2>3. \A i \in 1 .. l : p[i] \in Nat
    BY <1>1
  <2> QED BY <2>1, <2>2, <2>3
<1> DEFINE pp == Append(p, now)
           ee == Append(x, now)
<1> HIDE DEF p, l, w, b, x
<1>6. /\ pp \in Seq(0 .. MaxTime) /\ Len(pp) = l + 1 /\ pp[l + 1] = now
      /\ \A i \in 1 .. l : pp[i] = p[i]
      /\ ee \in Seq(0 .. MaxTime) /\ Len(ee) = c + 1 /\ ee[c + 1] = now
      /\ \A i \in 1 .. c : ee[i] = x[i]
      /\ DOMAIN pp = 1 .. l + 1
  BY <1>1, <1>2 DEF l
<1> HIDE DEF pp, ee
<1>61. \A i \in 1 .. l + 1 : i \in 1 .. l \/ i = l + 1
  <2>1. l \in Nat
    BY <1>1
  <2> QED BY <2>1
<1>7. /\ ee \in Seq(0 .. MaxTime) /\ pp \in Seq(0 .. MaxTime) /\ Len(ee) <= b
  BY <1>1, <1>3, <1>6
<1>8. \A i, j \in 1 .. l + 1 : pp[i] <= now /\ (i <= j => pp[i] <= pp[j])
  <2>1. ASSUME NEW i \in 1 .. l + 1 PROVE pp[i] <= now /\ pp[i] \in Nat
    <3>1. CASE i \in 1 .. l
      BY <1>5, <1>6, <3>1
    <3>2. CASE i = l + 1
      BY <1>1, <1>6, <3>2
    <3> QED BY <1>61, <3>1, <3>2
  <2>2. ASSUME NEW i \in 1 .. l + 1, NEW j \in 1 .. l + 1, i <= j PROVE pp[i] <= pp[j]
    <3>1. CASE j = l + 1
      BY <1>6, <2>1, <3>1
    <3>2. CASE j \in 1 .. l
      <4>1. i \in 1 .. l
        BY <1>1, <2>2, <3>2
      <4> QED BY <1>5, <1>6, <2>2, <3>2, <4>1
    <3> QED BY <1>61, <3>1, <3>2
  <2> QED BY <2>1, <2>2
<1>9. Len(ee) <= Len(pp) /\ \A i \in 1 .. Len(ee) : ee[i] = pp[Len(pp) - Len(ee) + i]
  <2>1. Len(ee) <= Len(pp) /\ Len(pp) - Len(ee) = l - c
    BY <1>1, <1>3, <1>6
  <2>2. ASSUME NEW i \in 1 .. c PROVE ee[i] = pp[l - c + i]
    <3>1. l - c + i \in 1 .. l
      BY <1>1, <1>3
    <3> QED BY <1>2, <1>6, <3>1
  <2>3. ee[c + 1] = pp[l - c + (c + 1)]
    <3>1. l - c + (c + 1) = l + 1
      BY <1>1, <1>3
    <3> QED BY <1>6, <3>1
  <2>4. \A i \in 1 .. c + 1 : i \in 1 .. c \/ i = c + 1
    BY <1>3
  <2> QED BY <1>6, <2>1, <2>2, <2>3, <2>4
<1>10. \A i \in 1 .. Len(pp) - Len(ee) : pp[i] + w < now
  <2>1. Len(pp) - Len(ee) = l - c
    BY <1>1, <1>3, <1>6
  <2>2. \A i \in 1 .. l - c : i \in 1 .. l
    BY <1>1, <1>3
  <2> QED BY <1>2, <1>6, <2>1, <2>2
<1>11. \A i, j \in 1 .. l + 1 : i + b <= j => pp[i] + w < pp[j]
  <2> SUFFICES ASSUME NEW i \in 1 .. l + 1, NEW j \in 1 .. l + 1, i + b <= j
               PROVE  pp[i] + w < pp[j]
    OBVIOUS
  <2>1. i \in 1 .. l
    BY <1>1, <1>3
  <2>2. CASE j \in 1 .. l
    BY <1>5, <1>6, <2>1, <2>2
  <2>3. CASE j = l + 1
    <3>1. i \in 1 .. l - c
      BY <1>1, <1>3, <2>1, <2>3
    <3> QED BY <1>2, <1>6, <2>1, <2>3, <3>1
  <2> QED BY <1>61, <2>2, <2>3
<1>12. events'[k] = ee /\ passed'[k] = pp
  BY <1>4 DEF ee, pp
<1> QED BY <1>6, <1>7, <1>8, <1>9, <1>10, <1>11, <1>12
        DEF KeyInv, KeyType, InOrder, Remembered, Forgotten, KeyBound, b, w

(* A hit that is refused only forgets what is out of the window.            *)
LEMMA RefusedKeeps ==
    ASSUME IInv, NEW k \in Keys, now' = now,
           events'[k] = Refused(k), passed'[k] = passed[k]
    PROVE  KeyInv(k)'
<1>1. /\ passed[k] \in Seq(0 .. MaxTime) /\ InOrder(k) /\ KeyBound(k)
      /\ Len(events[k]) \in Nat /\ Len(events[k]) <= Max[k] /\ Max[k] \in Nat
      /\ Len(passed[k]) \in Nat /\ Len(events[k]) <= Len(passed[k])
  BY BudgetsAssumption DEF IInv, TypeOK, WindowBound, KeyBound, Remembered
<1>2. PICK c \in 0 .. Len(events[k]) :
              /\ Kept(k) \in Seq(0 .. MaxTime) /\ Len(Kept(k)) = c
              /\ \A m \in 1 .. c : Kept(k)[m] = passed[k][Len(passed[k]) - c + m]
              /\ \A i \in 1 .. Len(passed[k]) - c : passed[k][i] + Window[k] < now
  BY KeptIsEnd
<1>3. events'[k] = Kept(k)
  BY DEF Refused
<1>4. c <= Max[k] /\ c <= Len(passed[k])
  BY <1>1, <1>2
<1> QED BY <1>1, <1>2, <1>3, <1>4, Zenon
        DEF KeyInv, KeyType, InOrder, Remembered, Forgotten, KeyBound

(* Time only takes more out of the windows.                                 *)
LEMMA UntouchedKeeps ==
    ASSUME IInv, NEW k \in Keys, now' \in {now, now + 1},
           events'[k] = events[k], passed'[k] = passed[k]
    PROVE  KeyInv(k)'
<1>1. KeyInv(k)
  BY DEF IInv, TypeOK, KeyInv, KeyType, KeyBound, WindowBound
<1>2. /\ now \in Nat /\ now' \in Nat /\ now <= now' /\ Window[k] \in Nat
      /\ Len(passed[k]) \in Nat /\ Len(events[k]) \in Nat
      /\ \A i \in DOMAIN passed[k] : passed[k][i] \in Nat
      /\ DOMAIN passed[k] = 1 .. Len(passed[k])
  BY BudgetsAssumption, <1>1 DEF IInv, TypeOK, KeyInv, KeyType
<1>3. InOrder(k)'
  BY <1>1, <1>2 DEF KeyInv, InOrder
<1>4. Forgotten(k)'
  <2>1. ASSUME NEW i \in 1 .. Len(passed[k]) - Len(events[k])
        PROVE  passed[k][i] + Window[k] < now'
    <3>1. passed[k][i] + Window[k] < now
      BY <1>1 DEF KeyInv, Forgotten
    <3>2. i \in DOMAIN passed[k]
      <4>1. \A n, m \in Nat : i \in 1 .. n - m => i \in 1 .. n
        OBVIOUS
      <4>2. DOMAIN passed[k] = 1 .. Len(passed[k])
            /\ Len(passed[k]) \in Nat /\ Len(events[k]) \in Nat
        BY <1>2, Zenon
      <4> QED BY <2>1, <4>1, <4>2, Zenon
    <3>3. passed[k][i] \in Nat
      BY <1>2, <3>2
    <3> QED BY <1>2, <3>1, <3>3
  <2>2. events'[k] = events[k] /\ passed'[k] = passed[k]
    OBVIOUS
  <2> QED BY <2>1, <2>2, Zenon DEF Forgotten
<1>5. KeyType(k)' /\ Remembered(k)' /\ KeyBound(k)'
  BY <1>1, Zenon DEF KeyInv, KeyType, Remembered, KeyBound
<1> QED BY <1>3, <1>4, <1>5 DEF KeyInv

-----------------------------------------------------------------------------
(* The keys before the refusing one are not full, the refusing one is. *)
LEMMA RefusalIsFirst ==
    ASSUME NEW q \in Requests
    PROVE  /\ Refusal(q) \in 1 .. Len(q) + 1 /\ Len(q) \in Nat /\ DOMAIN q = 1 .. Len(q)
           /\ \A i \in 1 .. Len(q) : q[i] \in Keys
           /\ \A i \in 1 .. Refusal(q) - 1 : i \in 1 .. Len(q) /\ ~ Full(q[i])
           /\ Refusal(q) <= Len(q) => Full(q[Refusal(q)])
<1> DEFINE full == {i \in DOMAIN q : Full(q[i])}
<1>1. q \in Seq(Keys)
  BY RequestsAssumption
<1>2. Len(q) \in Nat /\ DOMAIN q = 1 .. Len(q) /\ \A i \in 1 .. Len(q) : q[i] \in Keys
  BY <1>1
<1>3. CASE full = {}
  <2>1. Refusal(q) = Len(q) + 1
    BY <1>3, Zenon DEF Refusal
  <2>2. \A i \in 1 .. Len(q) : ~ Full(q[i])
    BY <1>2, <1>3
  <2>3. \A i \in 1 .. Refusal(q) - 1 : i \in 1 .. Len(q)
    BY <1>2, <2>1
  <2> QED BY <1>2, <2>1, <2>2, <2>3
<1>4. CASE full # {}
  <2>1. full \in SUBSET Nat
    BY <1>2
  <2>2. \E i \in full : \A j \in full : i <= j
    BY <1>4, <2>1, LeastNatural
  <2>3. Refusal(q) = CHOOSE i \in full : \A j \in full : i <= j
    BY <1>4, Zenon DEF Refusal
  <2>4. Refusal(q) \in full /\ \A j \in full : Refusal(q) <= j
    <3> HIDE DEF full
    <3> QED BY <2>2, <2>3
  <2>5. Refusal(q) \in 1 .. Len(q) /\ Full(q[Refusal(q)])
    BY <1>2, <2>4
  <2>6. ASSUME NEW i \in 1 .. Refusal(q) - 1 PROVE i \in 1 .. Len(q) /\ ~ Full(q[i])
    <3>1. i \in 1 .. Len(q) /\ ~ (Refusal(q) <= i)
      BY <1>2, <2>5
    <3>2. i \notin full
      BY <2>4, <3>1
    <3> QED BY <1>2, <3>1, <3>2
  <2>7. Refusal(q) \in 1 .. Len(q) + 1
    BY <1>2, <2>5
  <2> QED BY <1>2, <2>5, <2>6, <2>7
<1> QED BY <1>3, <1>4

(* A request leaves each key alone, passes it or is refused by it.          *)
LEMMA HitsByKey ==
    ASSUME NEW q \in Requests, Hits(q), NEW k \in Keys
    PROVE  \/ ~ Full(k) /\ events'[k] = Granted(k) /\ passed'[k] = Append(passed[k], now)
           \/ Full(k) /\ events'[k] = Refused(k) /\ passed'[k] = passed[k]
           \/ events'[k] = events[k] /\ passed'[k] = passed[k]
<1> DEFINE before == \E i \in 1 .. Refusal(q) - 1 : q[i] = k
           here == Refusal(q) <= Len(q) /\ q[Refusal(q)] = k
<1>1. events'[k] = CASE before -> Granted(k) [] here -> Refused(k) [] OTHER -> events[k]
  BY Zenon DEF Hits
<1>2. passed'[k] = IF before THEN Append(passed[k], now) ELSE passed[k]
  BY Zenon DEF Hits
<1>3. /\ Refusal(q) \in 1 .. Len(q) + 1 /\ Len(q) \in Nat /\ DOMAIN q = 1 .. Len(q)
      /\ \A i \in 1 .. Refusal(q) - 1 : i \in 1 .. Len(q) /\ ~ Full(q[i])
      /\ Refusal(q) <= Len(q) => Full(q[Refusal(q)])
  BY RefusalIsFirst
<1>4. before => ~ Full(k)
  BY <1>3, Zenon
<1>5. here => Full(k)
  BY <1>3, Zenon
<1> HIDE DEF before, here
<1> QED BY <1>1, <1>2, <1>4, <1>5

LEMMA NextKeys ==
    ASSUME IInv, [Next]_vars
    PROVE  \A k \in Keys : KeyInv(k)'
<1> SUFFICES ASSUME NEW k \in Keys PROVE KeyInv(k)'
  OBVIOUS
<1>1. CASE Tick
  <2>1. events'[k] = events[k] /\ passed'[k] = passed[k] /\ now' \in {now, now + 1}
    BY <1>1 DEF Tick
  <2> QED BY <2>1, UntouchedKeeps
<1>2. ASSUME NEW q \in Requests, LetThrough(q) \/ TooMany(q) PROVE KeyInv(k)'
  <2>1. Hits(q) /\ now' = now
    BY <1>2, Zenon DEF LetThrough, TooMany, Hits
  <2>2. CASE ~ Full(k) /\ events'[k] = Granted(k) /\ passed'[k] = Append(passed[k], now)
    BY <2>1, <2>2, GrantedKeeps
  <2>3. CASE Full(k) /\ events'[k] = Refused(k) /\ passed'[k] = passed[k]
    BY <2>1, <2>3, RefusedKeeps
  <2>4. CASE events'[k] = events[k] /\ passed'[k] = passed[k]
    <3>1. now' \in {now, now + 1}
      BY <2>1
    <3> QED BY <2>4, <3>1, UntouchedKeeps
  <2> QED BY <2>1, <2>2, <2>3, <2>4, HitsByKey
<1>3. CASE UNCHANGED vars
  <2>1. events'[k] = events[k] /\ passed'[k] = passed[k] /\ now' \in {now, now + 1}
    BY <1>3 DEF vars
  <2> QED BY <2>1, UntouchedKeeps
<1> QED BY <1>1, <1>2, <1>3 DEF Next

LEMMA InitInv == Init => IInv
<1> SUFFICES ASSUME Init PROVE IInv
  OBVIOUS
<1>1. /\ now = 0 /\ now \in 0 .. MaxTime
      /\ \A k \in Keys : events[k] = <<>> /\ passed[k] = <<>> /\ Max[k] \in Nat
  BY BudgetsAssumption DEF Init
<1>2. TypeOK
  BY <1>1 DEF Init, TypeOK
<1>3. /\ Len(<<>>) = 0 /\ DOMAIN <<>> = {} /\ 1 .. 0 = {} /\ 0 - 0 = 0
  OBVIOUS
<1>4. ASSUME NEW k \in Keys PROVE InOrder(k) /\ Remembered(k) /\ Forgotten(k)
  <2>1. events[k] = <<>> /\ passed[k] = <<>>
    BY <1>1
  <2>2. Len(events[k]) = 0 /\ Len(passed[k]) = 0 /\ DOMAIN passed[k] = {}
    BY <1>3, <2>1, Zenon
  <2> QED BY <1>3, <2>2 DEF InOrder, Remembered, Forgotten
<1>5. WindowBound
  <2>1. \A k \in Keys : DOMAIN passed[k] = {}
    BY <1>1, <1>3, Zenon
  <2> QED BY <2>1, Zenon DEF WindowBound
<1> QED BY <1>2, <1>4, <1>5 DEF IInv

LEMMA NextInv == IInv /\ [Next]_vars => IInv'
<1> SUFFICES ASSUME IInv, [Next]_vars PROVE IInv'
  OBVIOUS
<1>1. \A k \in Keys : KeyInv(k)'
  BY NextKeys
<1>2. now' \in 0 .. MaxTime
  BY BudgetsAssumption DEF IInv, TypeOK, Next, Tick, LetThrough, TooMany, Hits, vars
<1>3. (\E F : events' = [k \in Keys |-> F[k]]) /\ (\E G : passed' = [k \in Keys |-> G[k]])
  <2>1. events \in [Keys -> Seq(0 .. MaxTime)] /\ passed \in [Keys -> Seq(0 .. MaxTime)]
    BY DEF IInv, TypeOK
  <2>2. CASE UNCHANGED <<events, passed>>
    BY <2>1, <2>2
  <2>3. ASSUME NEW q \in Requests, Hits(q)
        PROVE  (\E F : events' = [k \in Keys |-> F[k]]) /\ (\E G : passed' = [k \in Keys |-> G[k]])
    <3>1. events' = [k \in Keys |-> events'[k]] /\ passed' = [k \in Keys |-> passed'[k]]
      BY <2>3 DEF Hits
    <3> QED BY <3>1
  <2> QED BY <2>2, <2>3, Zenon DEF Next, Tick, LetThrough, TooMany, vars
<1>4. TypeOK'
  BY <1>1, <1>2, <1>3 DEF TypeOK, KeyInv, KeyType
<1> QED BY <1>1, <1>4 DEF IInv, KeyInv, KeyBound, WindowBound

(* The inductive invariant of the limiter: what it remembers of a key is    *)
(* the end of what passed, and the rest is out of the window (hit).         *)
THEOREM InductiveInvariant == Spec => []IInv
  BY InitInv, NextInv, PTL DEF Spec

(* No window of a key ever holds more hits than its allowance, for any      *)
(* budgets, windows and requests, one or several keys each (hit).           *)
THEOREM WindowsBounded == Spec => []WindowBound
<1>1. IInv => WindowBound
  BY DEF IInv
<1> QED BY <1>1, InductiveInvariant, PTL

(* A request refused has a key that let its whole allowance through within  *)
(* its window: refusals never come from earlier refusals (hit).             *)
THEOREM RefusalsJustified == Spec => RefusalIsJustified
<1>1. ASSUME IInv, NEW q \in Requests, TooMany(q)
      PROVE  \E k \in Keys :
               /\ \E i \in DOMAIN q : q[i] = k
               /\ Len(passed[k]) >= Max[k]
               /\ passed[k][Len(passed[k]) - Max[k] + 1] + Window[k] >= now
  <2>1. Refusal(q) \in DOMAIN q /\ Full(q[Refusal(q)]) /\ q[Refusal(q)] \in Keys
    BY <1>1, RefusalIsFirst DEF TooMany
  <2> DEFINE k == q[Refusal(q)]
             l == Len(passed[k])
  <2>2. PICK c \in 0 .. Len(events[k]) :
              /\ Len(Kept(k)) = c
              /\ \A i \in l - c + 1 .. l : passed[k][i] + Window[k] >= now
    BY <1>1, <2>1, KeptIsEnd
  <2>3. c >= Max[k]
    BY <2>1, <2>2 DEF Full
  <2>4. Max[k] \in Nat \ {0} /\ Len(events[k]) \in Nat /\ l \in Nat /\ Len(events[k]) <= l
    BY <1>1, <2>1, BudgetsAssumption DEF IInv, TypeOK, Remembered
  <2> HIDE DEF k, l
  <2>5. l >= Max[k] /\ l - Max[k] + 1 \in l - c + 1 .. l
    BY <2>2, <2>3, <2>4
  <2>6. k \in Keys /\ \E i \in DOMAIN q : q[i] = k
    BY <2>1 DEF k
  <2> QED BY <2>2, <2>5, <2>6 DEF l
<1>2. IInv => [\A q \in Requests : TooMany(q) =>
          \E k \in Keys :
             /\ \E i \in DOMAIN q : q[i] = k
             /\ Len(passed[k]) >= Max[k]
             /\ passed[k][Len(passed[k]) - Max[k] + 1] + Window[k] >= now]_vars
  BY <1>1, Zenon
<1> QED BY <1>2, InductiveInvariant, PTL DEF RefusalIsJustified
=============================================================================
