------------------------ MODULE UnifiedChannelProofs ------------------------
(***************************************************************************)
(* Theorems about UnifiedChannel, for any number of ends, entries, clients *)
(* and changes.                                                            *)
(***************************************************************************)
EXTENDS UnifiedChannel, FiniteSetTheorems, WellFoundedInduction, TLAPS

-----------------------------------------------------------------------------
(* Induction on natural numbers, with the property given as a set.         *)

LEMMA LessThan ==
  \E S : IsWellFoundedOn(S, Nat) /\ \A x, y \in Nat : x < y => <<x, y>> \in S
<1>1. IsWellFoundedOn(OpToRel(<, Nat), Nat)
  BY NatLessThanWellFounded, Zenon
<1>2. \A x, y \in Nat : x < y => <<x, y>> \in OpToRel(<, Nat)
  BY Zenon DEF OpToRel
<1> QED BY <1>1, <1>2, Zenon

LEMMA Least ==
  ASSUME NEW S, S \subseteq Nat, S # {}
  PROVE  \E m \in S : \A x \in S : m <= x
<1>1. PICK Q : IsWellFoundedOn(Q, Nat) /\ \A x, y \in Nat : x < y => <<x, y>> \in Q
  BY LessThan, Zenon
<1>2. PICK m \in S : \A y \in S : ~(<<y, m>> \in Q)
  <2>1. IsWellFoundedOn(Q, Nat)
    BY <1>1
  <2> QED BY <2>1, WFMin
<1>3. ASSUME NEW x \in S
      PROVE  m <= x
  <2>1. ~(x < m)
    BY <1>1, <1>2
  <2> QED BY <2>1
<1> QED BY <1>3

LEMMA InductionInSet ==
  ASSUME NEW S, S \subseteq Nat, 0 \in S, \A n \in S : n + 1 \in S
  PROVE  S = Nat
<1> SUFFICES ASSUME Nat \ S # {} PROVE FALSE
  OBVIOUS
<1>1. PICK m \in Nat \ S : \A x \in Nat \ S : m <= x
  BY Least
<1>2. m # 0 /\ m - 1 \in Nat
  BY <1>1
<1>3. m - 1 \in S
  BY <1>1, <1>2
<1>4. (m - 1) + 1 \in S
  BY <1>3
<1> QED BY <1>1, <1>4

-----------------------------------------------------------------------------
(* Handling(): the changes are handled one after the other.                *)

\* h holds the states of the client on its way through the list, from p - 1 to n
Way(r, l, p, s, n, h) ==
  h = [i \in (p - 1) .. n |-> IF i < p THEN s ELSE HandleChange(r, h[i - 1], l[i])]

LEMMA WayExists ==
  ASSUME NEW r, NEW l, NEW p \in Nat \ {0}, NEW s, NEW n \in Nat, p - 1 <= n
  PROVE  \E h : Way(r, l, p, s, n, h)
<1> DEFINE S == {k \in Nat : \E h : Way(r, l, p, s, p - 1 + k, h)}
<1>1. 0 \in S
  <2> DEFINE h == [i \in (p - 1) .. (p - 1) |-> s]
  <2>1. h = [i \in (p - 1) .. (p - 1) |->
               IF i < p THEN s ELSE HandleChange(r, h[i - 1], l[i])]
    OBVIOUS
  <2>2. Way(r, l, p, s, p - 1 + 0, h)
    BY <2>1 DEF Way
  <2> QED BY <2>2
<1>2. ASSUME NEW k \in S PROVE k + 1 \in S
  <2>1. PICK h : Way(r, l, p, s, p - 1 + k, h)
    OBVIOUS
  <2> DEFINE m == p + k
             g == [i \in (p - 1) .. m |->
                     IF i = m THEN HandleChange(r, h[m - 1], l[m]) ELSE h[i]]
  <2>2. ASSUME NEW i \in (p - 1) .. m
        PROVE  g[i] = IF i < p THEN s ELSE HandleChange(r, g[i - 1], l[i])
    <3>1. CASE i = m
      <4>1. m - 1 \in (p - 1) .. m /\ m - 1 # m /\ ~(m < p)
        OBVIOUS
      <4>2. g[m - 1] = h[m - 1]
        BY <4>1
      <4> QED BY <3>1, <4>1, <4>2
    <3>2. CASE i # m
      <4>1. i \in (p - 1) .. (p - 1 + k)
        BY <3>2
      <4>2. h[i] = IF i < p THEN s ELSE HandleChange(r, h[i - 1], l[i])
        BY <2>1, <4>1 DEF Way
      <4>3. g[i] = h[i]
        BY <3>2
      <4>4. CASE i < p
        BY <4>2, <4>3, <4>4
      <4>5. CASE ~(i < p)
        <5>1. i - 1 \in (p - 1) .. m /\ i - 1 # m
          BY <3>2, <4>5
        <5>2. g[i - 1] = h[i - 1]
          BY <5>1
        <5> QED BY <4>2, <4>3, <4>5, <5>2
      <4> QED BY <4>4, <4>5
    <3> QED BY <3>1, <3>2
  <2>3. Way(r, l, p, s, m, g)
    <3> HIDE DEF g
    <3>1. g = [i \in (p - 1) .. m |-> g[i]]
      BY DEF g
    <3> QED BY <2>2, <3>1 DEF Way
  <2>4. m = p - 1 + (k + 1) /\ k + 1 \in Nat
    OBVIOUS
  <2> QED BY <2>3, <2>4
<1>3. n - (p - 1) \in S
  <2>1. S = Nat
    <3> HIDE DEF S
    <3>1. S \subseteq Nat
      BY DEF S
    <3> QED BY <1>1, <1>2, <3>1, InductionInSet
  <2>2. n - (p - 1) \in Nat
    OBVIOUS
  <2> HIDE DEF S
  <2> QED BY <2>1, <2>2
<1>4. p - 1 + (n - (p - 1)) = n
  OBVIOUS
<1> QED BY <1>3, <1>4

\* a list with changes that say the same
Alike(c, d) == c.kind = d.kind /\ c.w = d.w /\ c.id = d.id

LEMMA AlikeHandled ==
  ASSUME NEW r, NEW s, NEW c, NEW d, Alike(c, d)
  PROVE  HandleChange(r, s, c) = HandleChange(r, s, d)
BY DEF Alike, HandleChange

\* ways through lists l and k that are alike
TwoWays(r, l, k, p, s, n, m, g, h) ==
  /\ p \in Nat \ {0} /\ n \in Nat /\ m \in Nat /\ p - 1 <= n /\ n <= m
  /\ \A i \in p .. n : Alike(l[i], k[i])
  /\ Way(r, l, p, s, n, g) /\ Way(r, k, p, s, m, h)

LEMMA WayUnique ==
  ASSUME NEW r, NEW l, NEW k, NEW p, NEW s, NEW n, NEW m, NEW g, NEW h,
         TwoWays(r, l, k, p, s, n, m, g, h)
  PROVE  \A i \in (p - 1) .. n : g[i] = h[i]
<1> USE DEF TwoWays
<1> DEFINE S == {j \in Nat : p - 1 + j <= n => g[p - 1 + j] = h[p - 1 + j]}
<1>0. /\ \A i \in (p - 1) .. n :
            g[i] = IF i < p THEN s ELSE HandleChange(r, g[i - 1], l[i])
      /\ \A i \in (p - 1) .. m :
            h[i] = IF i < p THEN s ELSE HandleChange(r, h[i - 1], k[i])
  BY DEF Way
<1>1. 0 \in S
  <2>1. g[p - 1] = s /\ h[p - 1] = s /\ p - 1 + 0 = p - 1
    BY <1>0
  <2> QED BY <2>1
<1>2. ASSUME NEW j \in S PROVE j + 1 \in S
  <2> SUFFICES ASSUME p - 1 + (j + 1) <= n
               PROVE  g[p - 1 + (j + 1)] = h[p - 1 + (j + 1)]
    OBVIOUS
  <2>1. PICK i : i = p + j
    OBVIOUS
  <2>2. /\ i \in p .. n /\ i \in (p - 1) .. n /\ i \in (p - 1) .. m /\ ~(i < p)
        /\ p - 1 + (j + 1) = i /\ p - 1 + j = i - 1
    BY <2>1
  <2>3. g[i - 1] = h[i - 1]
    BY <2>2
  <2>4. HandleChange(r, g[i - 1], l[i]) = HandleChange(r, g[i - 1], k[i])
    BY <2>2, AlikeHandled
  <2> QED BY <1>0, <2>2, <2>3, <2>4
<1>3. S = Nat
  <2> HIDE DEF S
  <2>1. S \subseteq Nat
    BY DEF S
  <2> QED BY <1>1, <1>2, <2>1, InductionInSet
<1>4. ASSUME NEW i \in (p - 1) .. n PROVE g[i] = h[i]
  <2>1. PICK j : j = i - (p - 1)
    OBVIOUS
  <2>2. j \in Nat /\ p - 1 + j = i
    BY <2>1
  <2>3. j \in S
    <3> HIDE DEF S
    <3> QED BY <1>3, <2>2
  <2> QED BY <2>2, <2>3
<1> QED BY <1>4

LEMMA HandlingWay ==
  ASSUME NEW r, NEW l, NEW p \in Nat \ {0}, NEW s, Len(l) \in Nat, p <= Len(l) + 1
  PROVE  \E h : Way(r, l, p, s, Len(l), h) /\ Handling(r, l, p, s) = h[Len(l)]
<1> DEFINE f == CHOOSE h : Way(r, l, p, s, Len(l), h)
<1>1. Way(r, l, p, s, Len(l), f)
  <2>1. \E h : Way(r, l, p, s, Len(l), h)
    <3>1. p - 1 <= Len(l)
      OBVIOUS
    <3> QED BY <3>1, WayExists, Zenon
  <2> QED BY <2>1, Zenon
<1>2. Handling(r, l, p, s) = f[Len(l)]
  BY Zenon DEF Handling, Way
<1> QED BY <1>1, <1>2

LEMMA HandlingNothing ==
  ASSUME NEW r, NEW l, NEW s, Len(l) \in Nat
  PROVE  Handling(r, l, Len(l) + 1, s) = s
<1>1. PICK h : Way(r, l, Len(l) + 1, s, Len(l), h) /\ Handling(r, l, Len(l) + 1, s) = h[Len(l)]
  BY HandlingWay
<1> QED BY <1>1 DEF Way

LEMMA HandlingAlike ==
  ASSUME NEW r, NEW l, NEW k, NEW p \in Nat \ {0}, NEW s, Len(l) \in Nat, Len(k) = Len(l),
         p <= Len(l) + 1, \A i \in 1 .. Len(l) : Alike(l[i], k[i])
  PROVE  Handling(r, k, p, s) = Handling(r, l, p, s)
<1>1. PICK g : Way(r, l, p, s, Len(l), g) /\ Handling(r, l, p, s) = g[Len(l)]
  BY HandlingWay
<1>2. PICK h : Way(r, k, p, s, Len(l), h) /\ Handling(r, k, p, s) = h[Len(l)]
  BY HandlingWay
<1>3. \A i \in p .. Len(l) : Alike(l[i], k[i])
  OBVIOUS
<1>4. \A i \in (p - 1) .. Len(l) : g[i] = h[i]
  <2>1. PICK n : n = Len(l)
    OBVIOUS
  <2>2. PICK m : m = Len(k)
    OBVIOUS
  <2>3. TwoWays(r, l, k, p, s, n, m, g, h)
    BY <1>1, <1>2, <1>3, <2>1, <2>2 DEF TwoWays
  <2>4. \A i \in (p - 1) .. n : g[i] = h[i]
    BY <2>3, WayUnique
  <2> QED BY <2>1, <2>4
<1> QED BY <1>1, <1>2, <1>4

LEMMA HandlingOneMore ==
  ASSUME NEW r, NEW l, NEW k, NEW p \in Nat \ {0}, NEW s, Len(l) \in Nat, p <= Len(l) + 1,
         Len(k) = Len(l) + 1, \A i \in 1 .. Len(l) : Alike(l[i], k[i])
  PROVE  Handling(r, k, p, s) = HandleChange(r, Handling(r, l, p, s), k[Len(k)])
<1>1. PICK g : Way(r, l, p, s, Len(l), g) /\ Handling(r, l, p, s) = g[Len(l)]
  BY HandlingWay
<1>2. PICK h : Way(r, k, p, s, Len(k), h) /\ Handling(r, k, p, s) = h[Len(k)]
  BY HandlingWay
<1>3. \A i \in p .. Len(l) : Alike(l[i], k[i])
  OBVIOUS
<1>4. \A i \in (p - 1) .. Len(l) : g[i] = h[i]
  <2>1. PICK n : n = Len(l)
    OBVIOUS
  <2>2. PICK m : m = Len(k)
    OBVIOUS
  <2>3. TwoWays(r, l, k, p, s, n, m, g, h)
    BY <1>1, <1>2, <1>3, <2>1, <2>2 DEF TwoWays
  <2>4. \A i \in (p - 1) .. n : g[i] = h[i]
    BY <2>3, WayUnique
  <2> QED BY <2>1, <2>4
<1>5. h[Len(k)] = HandleChange(r, h[Len(k) - 1], k[Len(k)])
  BY <1>2 DEF Way
<1> QED BY <1>1, <1>2, <1>4, <1>5

\* the way does not depend on anything but the circumstances
AllOnTheWay ==
  \A r, l, p, s : p \in Nat \ {0} /\ Len(l) \in Nat /\ p <= Len(l) + 1 =>
    \E h : Way(r, l, p, s, Len(l), h) /\ Handling(r, l, p, s) = h[Len(l)]

LEMMA HandlingWayAll == AllOnTheWay
BY HandlingWay DEF AllOnTheWay

LEMMA HandlingLater ==
  ASSUME NEW r, NEW l, NEW p \in Nat \ {0}, NEW s, Len(l) \in Nat, p <= Len(l) + 1,
         setting' = setting
  PROVE  Handling(r, l, p, s)' = Handling(r, l, p, s)
<1>0. PICK n : n = Len(l)
  OBVIOUS
<1>1. PICK g : Way(r, l, p, s, n, g) /\ Handling(r, l, p, s) = g[n]
  BY <1>0, HandlingWay
<1>2. AllOnTheWay'
  BY HandlingWayAll, PTL
<1>3. PICK h : Way(r, l, p, s, n, h)' /\ Handling(r, l, p, s)' = h[n]
  BY <1>0, <1>2 DEF AllOnTheWay
<1>4. \A t, c : HandleChange(r, t, c)' = HandleChange(r, t, c)
  BY DEF HandleChange, ClassMatch, SingleMatch, TimingCompatible, R, W
<1>5. Way(r, l, p, s, n, h)
  BY <1>3, <1>4 DEF Way
<1>6. \A i \in p .. n : Alike(l[i], l[i])
  BY DEF Alike
<1>7. TwoWays(r, l, l, p, s, n, n, g, h)
  BY <1>0, <1>1, <1>5, <1>6 DEF TwoWays
<1>8. g[n] = h[n]
  <2>1. n \in (p - 1) .. n
    BY <1>0
  <2> QED BY <1>7, <2>1, WayUnique
<1> QED BY <1>1, <1>3, <1>8

-----------------------------------------------------------------------------
(* Sequences of anything.                                                  *)

IsSeq(l) == \E S : l \in Seq(S)

LEMMA SeqMonotonic ==
  ASSUME NEW S, NEW T, S \subseteq T, NEW l \in Seq(S)
  PROVE  l \in Seq(T)
OBVIOUS

LEMMA IsSeqFacts ==
  ASSUME NEW l, IsSeq(l)
  PROVE  Len(l) \in Nat /\ DOMAIN l = 1 .. Len(l)
BY DEF IsSeq

LEMMA IsSeqAppend ==
  ASSUME NEW l, NEW c, IsSeq(l)
  PROVE  /\ IsSeq(Append(l, c)) /\ Len(Append(l, c)) = Len(l) + 1
         /\ Append(l, c)[Len(l) + 1] = c
         /\ \A i \in 1 .. Len(l) : Append(l, c)[i] = l[i]
<1>1. PICK S : l \in Seq(S)
  BY DEF IsSeq
<1>2. l \in Seq(S \cup {c})
  BY <1>1, SeqMonotonic
<1>3. Append(l, c) \in Seq(S \cup {c})
  BY <1>2
<1> QED BY <1>2, <1>3 DEF IsSeq

LEMMA IsSeqFunction ==
  ASSUME NEW n \in Nat, NEW l, DOMAIN l = 1 .. n, l = [i \in 1 .. n |-> l[i]]
  PROVE  IsSeq(l) /\ Len(l) = n
<1>1. l \in [1 .. n -> {l[i] : i \in 1 .. n}]
  OBVIOUS
<1>2. l \in Seq({l[i] : i \in 1 .. n})
  BY <1>1
<1>3. IsSeq(l)
  BY <1>2, Zenon DEF IsSeq
<1>4. DOMAIN l = 1 .. Len(l) /\ Len(l) \in Nat
  BY <1>2
<1> QED BY <1>3, <1>4

-----------------------------------------------------------------------------
(* Only(): the elements of a sequence that are in a set.                   *)

OnlyWay(l, S, n, f) ==
  f = [i \in 0 .. n |-> IF i = 0 THEN <<>>
                        ELSE IF l[i] \in S THEN Append(f[i - 1], l[i]) ELSE f[i - 1]]

LEMMA OnlyWayExists ==
  ASSUME NEW l, NEW S, NEW n \in Nat
  PROVE  \E f : OnlyWay(l, S, n, f)
<1> DEFINE T == {k \in Nat : \E f : OnlyWay(l, S, k, f)}
<1>1. 0 \in T
  <2> DEFINE f == [i \in 0 .. 0 |-> <<>>]
  <2>1. f = [i \in 0 .. 0 |-> IF i = 0 THEN <<>>
                              ELSE IF l[i] \in S THEN Append(f[i - 1], l[i]) ELSE f[i - 1]]
    OBVIOUS
  <2>2. OnlyWay(l, S, 0, f)
    BY <2>1 DEF OnlyWay
  <2> QED BY <2>2
<1>2. ASSUME NEW k \in T PROVE k + 1 \in T
  <2>1. PICK f : OnlyWay(l, S, k, f)
    OBVIOUS
  <2>2. PICK m : m = k + 1
    OBVIOUS
  <2>3. m \in Nat /\ m # 0 /\ m - 1 = k /\ k \in Nat
    BY <2>2
  <2> DEFINE new == IF l[m] \in S THEN Append(f[k], l[m]) ELSE f[k]
             g == [i \in 0 .. m |-> IF i = m THEN new ELSE f[i]]
  <2>4. ASSUME NEW i \in 0 .. m
        PROVE  g[i] = IF i = 0 THEN <<>>
                      ELSE IF l[i] \in S THEN Append(g[i - 1], l[i]) ELSE g[i - 1]
    <3>1. CASE i = m
      <4>1. g[i] = new
        BY <3>1
      <4>2. i - 1 \in 0 .. m /\ i - 1 # m /\ i - 1 = k
        BY <2>3, <3>1
      <4>3. g[i - 1] = f[k]
        BY <4>2
      <4> QED BY <2>3, <3>1, <4>1, <4>3, Zenon
    <3>2. CASE i # m
      <4>1. i \in 0 .. k
        BY <2>3, <3>2
      <4>2. f[i] = IF i = 0 THEN <<>>
                   ELSE IF l[i] \in S THEN Append(f[i - 1], l[i]) ELSE f[i - 1]
        BY <2>1, <4>1 DEF OnlyWay
      <4>3. g[i] = f[i]
        BY <3>2
      <4>4. CASE i = 0
        BY <4>2, <4>3, <4>4
      <4>5. CASE i # 0
        <5>1. i - 1 \in 0 .. m /\ i - 1 # m
          BY <2>3, <3>2, <4>5
        <5>2. g[i - 1] = f[i - 1]
          BY <5>1
        <5> QED BY <4>2, <4>3, <4>5, <5>2, Zenon
      <4> QED BY <4>4, <4>5
    <3> QED BY <3>1, <3>2
  <2>5. g = [i \in 0 .. m |-> g[i]]
    OBVIOUS
  <2> HIDE DEF g
  <2>6. OnlyWay(l, S, m, g)
    BY <2>4, <2>5 DEF OnlyWay
  <2> QED BY <2>2, <2>3, <2>6
<1>3. T = Nat
  <2> HIDE DEF T
  <2>1. T \subseteq Nat
    BY DEF T
  <2> QED BY <1>1, <1>2, <2>1, InductionInSet
<1> QED BY <1>3

LEMMA OnlyInSeq ==
  ASSUME NEW X, NEW l \in Seq(X), NEW S
  PROVE  Only(l, S) \in Seq(X) /\ Range(Only(l, S)) = Range(l) \cap S
<1>1. PICK n : n = Len(l)
  OBVIOUS
<1>2. n \in Nat /\ \A i \in 1 .. n : l[i] \in X
  BY <1>1
<1> DEFINE c == CHOOSE f : OnlyWay(l, S, n, f)
<1>3. OnlyWay(l, S, n, c)
  BY <1>2, OnlyWayExists, Zenon
<1>4. Only(l, S) = c[n]
  BY <1>1, Zenon DEF Only, OnlyWay
<1>5. PICK f : f = c
  OBVIOUS
<1> HIDE DEF c
<1>60. \A i \in 0 .. n : f[i] = IF i = 0 THEN <<>>
                        ELSE IF l[i] \in S THEN Append(f[i - 1], l[i]) ELSE f[i - 1]
  BY <1>3, <1>5 DEF OnlyWay
<1>61. f[0] = <<>>
  <2>1. 0 \in 0 .. n
    BY <1>2
  <2> QED BY <1>60, <2>1, Zenon
<1>62. \A i \in 1 .. n : f[i] = IF l[i] \in S THEN Append(f[i - 1], l[i]) ELSE f[i - 1]
  <2> TAKE i \in 1 .. n
  <2>1. i \in 0 .. n /\ i # 0
    BY <1>2
  <2> QED BY <1>60, <2>1, Zenon
<1>6. /\ f[0] = <<>>
      /\ \A i \in 1 .. n : f[i] = IF l[i] \in S THEN Append(f[i - 1], l[i]) ELSE f[i - 1]
  BY <1>61, <1>62
<1> DEFINE P(k) == /\ f[k] \in Seq(X)
                   /\ Range(f[k]) = {l[i] : i \in 1 .. k} \cap S
           T == {k \in Nat : k <= n => P(k)}
<1>7. 0 \in T
  <2>1. Range(<<>>) = {} /\ <<>> \in Seq(X) /\ {l[i] : i \in 1 .. 0} = {}
    BY DEF Range
  <2> QED BY <1>6, <2>1
<1>8. ASSUME NEW k \in T PROVE k + 1 \in T
  <2> SUFFICES ASSUME k + 1 <= n PROVE P(k + 1)
    OBVIOUS
  <2>1. P(k) /\ k \in Nat
    <3> HIDE DEF P
    <3>1. k \in Nat /\ (k <= n => P(k))
      OBVIOUS
    <3>2. k <= n
      BY <1>2, <3>1
    <3> QED BY <3>1, <3>2
  <2>2. PICK m : m = k + 1
    OBVIOUS
  <2>3. m \in 1 .. n /\ m - 1 = k
    BY <1>2, <2>1, <2>2
  <2>4. f[m] = IF l[m] \in S THEN Append(f[k], l[m]) ELSE f[k]
    BY <1>6, <2>3
  <2>5. {l[i] : i \in 1 .. m} = {l[i] : i \in 1 .. k} \cup {l[m]}
    <3>1. 1 .. m = 1 .. k \cup {m}
      BY <2>1, <2>3
    <3> QED BY <3>1
  <2>6. CASE l[m] \in S
    <3>1. f[m] = Append(f[k], l[m]) /\ l[m] \in X
      BY <1>2, <2>3, <2>4, <2>6
    <3>2. Range(f[m]) = Range(f[k]) \cup {l[m]} /\ f[m] \in Seq(X)
      <4>1. PICK b : b = f[k]
        OBVIOUS
      <4>2. PICK x : x = l[m]
        OBVIOUS
      <4>3. b \in Seq(X) /\ x \in X /\ f[m] = Append(b, x)
        BY <2>1, <3>1, <4>1, <4>2
      <4>4. Range(Append(b, x)) = Range(b) \cup {x} /\ Append(b, x) \in Seq(X)
        <5>1. PICK a : a = Append(b, x)
          OBVIOUS
        <5>2. /\ a \in Seq(X) /\ DOMAIN a = 1 .. (Len(b) + 1) /\ a[Len(b) + 1] = x
              /\ DOMAIN b = 1 .. Len(b) /\ Len(b) \in Nat /\ \A i \in 1 .. Len(b) : a[i] = b[i]
          BY <4>3, <5>1
        <5>3. DOMAIN a = DOMAIN b \cup {Len(b) + 1}
          BY <5>2
        <5>4. Range(a) = Range(b) \cup {x}
          BY <5>2, <5>3 DEF Range
        <5> QED BY <5>1, <5>2, <5>4
      <4> QED BY <4>1, <4>2, <4>3, <4>4
    <3>3. P(m)
      BY <2>1, <2>5, <2>6, <3>2
    <3> QED BY <2>2, <3>3
  <2>7. CASE l[m] \notin S
    <3>1. f[m] = f[k]
      BY <2>4, <2>7
    <3>2. P(m)
      BY <2>1, <2>5, <2>7, <3>1
    <3> QED BY <2>2, <3>2
  <2> QED BY <2>6, <2>7
<1>9. T = Nat
  <2> HIDE DEF T
  <2>1. T \subseteq Nat
    BY DEF T
  <2> QED BY <1>7, <1>8, <2>1, InductionInSet
<1>10. P(n)
  <2> HIDE DEF P
  <2>1. n \in T
    <3> HIDE DEF T
    <3> QED BY <1>2, <1>9
  <2>2. n <= n
    BY <1>2
  <2> QED BY <2>1, <2>2
<1>11. {l[i] : i \in 1 .. n} = Range(l)
  BY <1>1 DEF Range
<1> QED BY <1>4, <1>5, <1>10, <1>11

-----------------------------------------------------------------------------
(* The list of changes of an end, and the clients that work through it.    *)

IsChange(c) == c = [kind |-> c.kind, w |-> c.w, id |-> c.id, tocheck |-> c.tocheck]

\* the clients of C, with places p, that have still to come to place i
Behind(C, p, i) == {r \in C : p[r] <= i}

\* a list with counts for clients C, recycled up to f
Counted(C, p, l, f) ==
  /\ IsSeq(l) /\ f \in 1 .. Len(l) + 1
  /\ \A r \in C : p[r] \in 1 .. Len(l) + 1
  /\ \A i \in 1 .. Len(l) :
       /\ IsChange(l[i]) /\ l[i].tocheck = Cardinality(Behind(C, p, i))
       /\ i < f => Behind(C, p, i) = {}

\* S have handled all changes
AllHandled(S, p, l, k) ==
  /\ DOMAIN k = 1 .. Len(l) /\ k = [i \in 1 .. Len(l) |-> k[i]]
  /\ \A i \in 1 .. Len(l) :
       k[i] = [l[i] EXCEPT !.tocheck = @ - Cardinality({r \in S : p[r] <= i})]

LEMMA BehindFinite ==
  ASSUME NEW C, NEW p, NEW i, IsFiniteSet(C)
  PROVE  IsFiniteSet(Behind(C, p, i)) /\ Cardinality(Behind(C, p, i)) \in Nat
<1>1. Behind(C, p, i) \subseteq C
  BY DEF Behind
<1> QED BY <1>1, FS_Subset, FS_CardinalityType

\* clients S, of those in C, handle all changes and go to the end of the list,
\* or leave
GoneOn(C, D, p, q, l, k, f, S) ==
  /\ IsFiniteSet(C) /\ Counted(C, p, l, f) /\ S \subseteq C /\ AllHandled(S, p, l, k)
  /\ D \subseteq C /\ C \ S \subseteq D
  /\ \A r \in C \ S : q[r] = p[r]
  /\ \A r \in D \cap S : q[r] = Len(l) + 1

LEMMA CountedHandled ==
  ASSUME NEW C, NEW D, NEW p, NEW q, NEW l, NEW k, NEW f, NEW S,
         GoneOn(C, D, p, q, l, k, f, S)
  PROVE  Counted(D, q, k, f) /\ Len(k) = Len(l) /\ \A i \in 1 .. Len(l) : Alike(l[i], k[i])
<1> USE DEF GoneOn
<1>0. PICK n : n = Len(l)
  OBVIOUS
<1>1. n \in Nat
  BY <1>0, IsSeqFacts DEF Counted
<1>2. IsSeq(k) /\ Len(k) = n
  BY <1>0, <1>1, IsSeqFunction DEF AllHandled
<1>3. \A r \in C : p[r] \in 1 .. n + 1
  BY <1>0 DEF Counted
<1>4. ASSUME NEW r \in D PROVE q[r] \in 1 .. n + 1
  <2>1. CASE r \in S
    <3>1. q[r] = n + 1
      BY <1>0, <2>1
    <3> QED BY <1>1, <3>1
  <2>2. CASE r \notin S
    <3>1. q[r] = p[r] /\ r \in C
      BY <2>2
    <3> QED BY <1>3, <3>1
  <2> QED BY <2>1, <2>2
<1>5. ASSUME NEW i \in 1 .. n
      PROVE  /\ IsChange(k[i]) /\ k[i].tocheck = Cardinality(Behind(D, q, i))
             /\ i < f => Behind(D, q, i) = {}
             /\ Alike(l[i], k[i])
  <2> DEFINE B == Behind(C, p, i)
             A == {r \in S : p[r] <= i}
  <2>1. Behind(D, q, i) = B \ A
    <3>1. ASSUME NEW r \in D PROVE q[r] <= i <=> r \in C /\ p[r] <= i /\ r \notin A
      <4>1. CASE r \in S
        <5>1. q[r] = n + 1 /\ p[r] \in Nat
          BY <1>0, <1>3, <4>1
        <5>2. ~(q[r] <= i)
          BY <1>1, <5>1
        <5> QED BY <4>1, <5>2
      <4>2. CASE r \notin S
        BY <4>2
      <4> QED BY <4>1, <4>2
    <3>2. ASSUME NEW r \in B \ A PROVE r \in D
      BY DEF Behind
    <3> QED BY <3>1, <3>2, Zenon DEF Behind
  <2>2. A \subseteq B /\ IsFiniteSet(B)
    <3>1. A \subseteq B
      BY DEF Behind
    <3>2. IsFiniteSet(B)
      BY BehindFinite
    <3> QED BY <3>1, <3>2
  <2>3. Cardinality(B \ A) = Cardinality(B) - Cardinality(A)
    <3>1. IsFiniteSet(A) /\ B \cap A = A
      BY <2>2, FS_Subset
    <3>2. Cardinality(B \ A) = Cardinality(B) - Cardinality(B \cap A)
      BY <2>2, <3>1, FS_Difference
    <3> QED BY <3>1, <3>2
  <2>4. IsChange(l[i]) /\ l[i].tocheck = Cardinality(B) /\ (i < f => B = {})
    BY <1>0 DEF Counted
  <2>5. k[i] = [l[i] EXCEPT !.tocheck = @ - Cardinality(A)]
    BY <1>0 DEF AllHandled
  <2> HIDE DEF A, B
  <2>6. /\ k[i].tocheck = l[i].tocheck - Cardinality(A)
        /\ k[i].kind = l[i].kind /\ k[i].w = l[i].w /\ k[i].id = l[i].id
        /\ IsChange(k[i])
    BY <2>4, <2>5 DEF IsChange
  <2>7. i < f => Behind(D, q, i) = {}
    BY <2>1, <2>4
  <2> QED BY <2>1, <2>3, <2>4, <2>6, <2>7 DEF Alike
<1>6. f \in 1 .. n + 1
  BY <1>0 DEF Counted
<1> QED BY <1>0, <1>2, <1>4, <1>5, <1>6 DEF Counted

\* a change is added for all clients
LEMMA CountedAppend ==
  ASSUME NEW C, NEW p, NEW l, NEW f, NEW c, IsFiniteSet(C), Counted(C, p, l, f),
         IsChange(c), c.tocheck = Cardinality(C)
  PROVE  Counted(C, p, Append(l, c), f)
<1>0. PICK n : n = Len(l)
  OBVIOUS
<1>1. n \in Nat /\ IsSeq(l)
  BY <1>0, IsSeqFacts DEF Counted
<1>2. PICK k : k = Append(l, c)
  OBVIOUS
<1>3. IsSeq(k) /\ Len(k) = n + 1 /\ k[n + 1] = c /\ \A i \in 1 .. n : k[i] = l[i]
  BY <1>0, <1>1, <1>2, IsSeqAppend
<1>4. f \in 1 .. n + 1 /\ \A r \in C : p[r] \in 1 .. n + 1
  BY <1>0 DEF Counted
<1>5. ASSUME NEW i \in 1 .. n + 1
      PROVE  /\ IsChange(k[i]) /\ k[i].tocheck = Cardinality(Behind(C, p, i))
             /\ i < f => Behind(C, p, i) = {}
  <2>1. CASE i = n + 1
    <3>1. Behind(C, p, i) = C
      BY <1>1, <1>4, <2>1 DEF Behind
    <3>2. ~(i < f)
      BY <1>1, <1>4, <2>1
    <3> QED BY <1>3, <2>1, <3>1, <3>2
  <2>2. CASE i # n + 1
    <3>1. i \in 1 .. n
      BY <1>1, <2>2
    <3>2. k[i] = l[i]
      BY <1>3, <3>1
    <3> QED BY <1>0, <3>1, <3>2 DEF Counted
  <2> QED BY <2>1, <2>2
<1>6. f \in 1 .. (n + 1) + 1 /\ \A r \in C : p[r] \in 1 .. (n + 1) + 1
  BY <1>1, <1>4
<1>7. Counted(C, p, k, f)
  BY <1>3, <1>5, <1>6 DEF Counted
<1> QED BY <1>2, <1>7

\* changes that all have handled are recycled
LEMMA CountedRecycled ==
  ASSUME NEW C, NEW p, NEW l, NEW f, NEW g, IsFiniteSet(C), Counted(C, p, l, f),
         g \in f .. Len(l) + 1, \A i \in f .. (g - 1) : l[i].tocheck = 0
  PROVE  Counted(C, p, l, g)
<1>0. PICK n : n = Len(l)
  OBVIOUS
<1>1. n \in Nat /\ IsSeq(l) /\ f \in 1 .. n + 1
  BY <1>0, IsSeqFacts DEF Counted
<1>2. g \in 1 .. n + 1
  BY <1>0, <1>1
<1>3. ASSUME NEW i \in 1 .. n, i < g
      PROVE  Behind(C, p, i) = {}
  <2>1. CASE i < f
    BY <1>0, <2>1 DEF Counted
  <2>2. CASE ~(i < f)
    <3>1. i \in f .. (g - 1)
      BY <1>0, <1>1, <1>2, <1>3, <2>2
    <3>2. l[i].tocheck = 0 /\ l[i].tocheck = Cardinality(Behind(C, p, i))
      BY <1>0, <3>1 DEF Counted
    <3> QED BY <3>2, BehindFinite, FS_EmptySet
  <2> QED BY <2>1, <2>2
<1> QED BY <1>0, <1>2, <1>3 DEF Counted

\* a client comes, at the end of the list
LEMMA CountedJoined ==
  ASSUME NEW C, NEW p, NEW q, NEW l, NEW f, NEW r, Counted(C, p, l, f), r \notin C,
         q[r] = Len(l) + 1, \A x \in C : q[x] = p[x]
  PROVE  Counted(C \cup {r}, q, l, f)
<1>0. PICK n : n = Len(l)
  OBVIOUS
<1>1. n \in Nat
  BY <1>0, IsSeqFacts DEF Counted
<1>2. ASSUME NEW i \in 1 .. n PROVE Behind(C \cup {r}, q, i) = Behind(C, p, i)
  <2>1. ~(q[r] <= i)
    BY <1>0, <1>1
  <2> QED BY <2>1 DEF Behind
<1>3. \A x \in C \cup {r} : q[x] \in 1 .. n + 1
  BY <1>0, <1>1 DEF Counted
<1> QED BY <1>0, <1>2, <1>3 DEF Counted

\* nothing changed for the clients C
LEMMA CountedSame ==
  ASSUME NEW C, NEW p, NEW q, NEW l, NEW f, Counted(C, p, l, f), \A r \in C : q[r] = p[r]
  PROVE  Counted(C, q, l, f)
<1>1. \A i : Behind(C, q, i) = Behind(C, p, i)
  BY DEF Behind
<1> QED BY <1>1 DEF Counted

LEMMA FirstFrom ==
  ASSUME NEW n \in Nat, NEW i \in 1 .. n + 1, NEW S
  PROVE  \E j \in i .. n + 1 : (\A k \in i .. (j - 1) : k \in S) /\ (j <= n => j \notin S)
<1> DEFINE T == {j \in Nat : i <= j /\ (j = n + 1 \/ j \notin S)}
<1>1. n + 1 \in T /\ T \subseteq Nat
  OBVIOUS
<1>2. PICK j \in T : \A x \in T : j <= x
  BY <1>1, Least
<1>3. j \in i .. n + 1
  BY <1>1, <1>2
<1>4. \A k \in i .. (j - 1) : k \in S
  <2> SUFFICES ASSUME NEW k \in i .. (j - 1), k \notin S PROVE FALSE
    OBVIOUS
  <2>1. k \in T
    OBVIOUS
  <2> QED BY <1>2, <1>3, <2>1
<1> QED BY <1>2, <1>3, <1>4

LEMMA RecycledIs ==
  ASSUME NEW e, NEW n, n = Len(list[e]), n \in Nat, front[e] \in 1 .. n + 1
  PROVE  /\ Recycled(e) \in front[e] .. n + 1
         /\ \A k \in front[e] .. (Recycled(e) - 1) : list[e][k].tocheck = 0
<1> DEFINE Old(k) == list[e][k].kind # "deleted" /\ list[e][k].tocheck = 0
           S == {k \in Nat : Old(k)}
           P(j) == (\A k \in front[e] .. (j - 1) : Old(k)) /\ (j <= n => ~Old(j))
<1>1. \E j \in front[e] .. n + 1 : P(j)
  <2>1. PICK j \in front[e] .. n + 1 : /\ \A k \in front[e] .. (j - 1) : k \in S
                                       /\ j <= n => j \notin S
    <3> HIDE DEF S
    <3> QED BY FirstFrom
  <2>2. j \in Nat
    OBVIOUS
  <2>3. P(j)
    BY <2>1, <2>2
  <2> QED BY <2>3
<1>2. Recycled(e) = CHOOSE j \in front[e] .. n + 1 : P(j)
  BY Zenon DEF Recycled, FirstNot
<1> HIDE DEF P
<1>3. Recycled(e) \in front[e] .. n + 1 /\ P(Recycled(e))
  BY <1>1, <1>2, Zenon
<1> QED BY <1>3 DEF P

\* the end of what CleanEntryCmd recycles
HandledUpTo(e) == FirstNot(list[e], front[e], LAMBDA c : c.tocheck = 0)

LEMMA HandledUpToIs ==
  ASSUME NEW e, NEW n, n = Len(list[e]), n \in Nat, front[e] \in 1 .. n + 1
  PROVE  /\ HandledUpTo(e) \in front[e] .. n + 1
         /\ \A k \in front[e] .. (HandledUpTo(e) - 1) : list[e][k].tocheck = 0
<1> DEFINE Old(k) == list[e][k].tocheck = 0
           S == {k \in Nat : Old(k)}
           P(j) == (\A k \in front[e] .. (j - 1) : Old(k)) /\ (j <= n => ~Old(j))
<1>1. \E j \in front[e] .. n + 1 : P(j)
  <2>1. PICK j \in front[e] .. n + 1 : /\ \A k \in front[e] .. (j - 1) : k \in S
                                       /\ j <= n => j \notin S
    <3> HIDE DEF S
    <3> QED BY FirstFrom
  <2>2. j \in Nat
    OBVIOUS
  <2>3. P(j)
    BY <2>1, <2>2
  <2> QED BY <2>3
<1>2. HandledUpTo(e) = CHOOSE j \in front[e] .. n + 1 : P(j)
  BY Zenon DEF HandledUpTo, FirstNot
<1> HIDE DEF P
<1>3. HandledUpTo(e) \in front[e] .. n + 1 /\ P(HandledUpTo(e))
  BY <1>1, <1>2, Zenon
<1> QED BY <1>3 DEF P

-----------------------------------------------------------------------------
(* What every step does to the lists.                                      *)

\* the circumstances and the variables the lists depend on
ListTypes ==
  /\ setting \in Settings
  /\ rtoken \in [Readers -> {"new", "on", "removed"}]
  /\ pos = [r \in Readers |-> pos[r]]
  /\ list = [e \in Ends |-> list[e]] /\ front = [e \in Ends |-> front[e]]

CountsOf(e) == Counted(ClientsAt(e), pos, list[e], front[e])

ListInv == ListTypes /\ \A e \in Ends : CountsOf(e)

LEMMA SettingFacts ==
  ASSUME setting \in Settings
  PROVE  /\ Master \in Ends /\ IsFiniteSet(Readers)
         /\ \A r \in Readers : R[r].end \in Ends
         /\ \A w \in Writers : W[w].end \in Ends
         /\ \A e : IsFiniteSet(ClientsAt(e))
<1>1. Readers \subseteq ReadTokens /\ IsFiniteSet(ReadTokens)
  BY ConfigAssumption DEF Readers, R
<1>2. IsFiniteSet(Readers)
  BY <1>1, FS_Subset
<1>3. \A e : ClientsAt(e) \subseteq Readers
  BY DEF ClientsAt
<1>4. \A e : IsFiniteSet(ClientsAt(e))
  BY <1>2, <1>3, FS_Subset
<1> QED BY <1>2, <1>4, ConfigAssumption DEF Ends, Readers, R, Writers, W

LEMMA ListInvExact == ListInv => TocheckExact
<1> SUFFICES ASSUME ListInv, NEW e \in Ends, NEW i \in DOMAIN list[e]
             PROVE  LET behind == Cardinality({r \in ClientsAt(e) : pos[r] <= i})
                    IN  list[e][i].tocheck = behind /\ (i < front[e] => behind = 0)
  BY DEF TocheckExact
<1>1. CountsOf(e)
  BY DEF ListInv
<1>2. i \in 1 .. Len(list[e])
  BY <1>1, IsSeqFacts DEF CountsOf, Counted
<1>3. {r \in ClientsAt(e) : pos[r] <= i} = Behind(ClientsAt(e), pos, i)
  BY DEF Behind
<1> QED BY <1>1, <1>2, <1>3, FS_EmptySet DEF CountsOf, Counted

LEMMA ListInit == Init => ListInv
<1> SUFFICES ASSUME Init PROVE ListInv
  OBVIOUS
<1>1. ListTypes
  BY DEF Init, ListTypes
<1>2. ASSUME NEW e \in Ends PROVE CountsOf(e)
  <2>1. list[e] = <<>> /\ front[e] = 1 /\ ClientsAt(e) = {}
    BY DEF Init, ClientsAt
  <2>2. IsSeq(<<>>) /\ Len(<<>>) = 0
    <3>1. <<>> \in Seq({})
      OBVIOUS
    <3> QED BY <3>1 DEF IsSeq
  <2> QED BY <2>1, <2>2 DEF CountsOf, Counted
<1> QED BY <1>1, <1>2 DEF ListInv

\* a step that leaves the lists and the clients alone
LEMMA ListFrame ==
  ASSUME ListInv, UNCHANGED <<setting, rtoken, pos, list, front>>
  PROVE  ListInv'
BY DEF ListInv, ListTypes, CountsOf, ClientsAt, Readers, R, Ends

\* a step that changes the list of one end e, and its clients S only
LEMMA ListAtEnd ==
  ASSUME ListInv, ListTypes', setting' = setting, NEW e \in Ends,
         \A d \in Ends \ {e} : list'[d] = list[d] /\ front'[d] = front[d],
         \A r \in Readers : R[r].end # e => rtoken'[r] = rtoken[r] /\ pos'[r] = pos[r],
         CountsOf(e)'
  PROVE  ListInv'
<1>1. Ends' = Ends /\ Readers' = Readers /\ R' = R
  BY DEF Ends, Readers, R
<1>2. ASSUME NEW d \in Ends, d # e PROVE CountsOf(d)'
  <2>1. ClientsAt(d)' = ClientsAt(d) /\ \A r \in ClientsAt(d) : pos'[r] = pos[r]
    BY <1>1, <1>2 DEF ClientsAt
  <2>2. CountsOf(d)
    BY DEF ListInv
  <2>3. Counted(ClientsAt(d), pos', list[d], front[d])
    BY <2>1, <2>2, CountedSame DEF CountsOf
  <2> QED BY <1>2, <2>1, <2>3 DEF CountsOf
<1> QED BY <1>1, <1>2 DEF ListInv

LEMMA MarkHandledIs ==
  ASSUME NEW S, NEW l, IsSeq(l)
  PROVE  AllHandled(S, pos, l, MarkHandled(S, l))
<1>1. DOMAIN l = 1 .. Len(l)
  BY IsSeqFacts
<1> QED BY <1>1 DEF AllHandled, MarkHandled

\* clients S of end e refresh, on a list l that is right
RefreshedAt(e, S, l, g) ==
  /\ list' = [list EXCEPT ![e] = MarkHandled(S, l)]
  /\ front' = [d \in Ends |-> IF d = e THEN g ELSE front[d]]
  /\ pos' = [r \in Readers |-> IF r \in S THEN Len(l) + 1 ELSE pos[r]]

LEMMA ListRefresh ==
  ASSUME ListInv, setting' = setting, rtoken' = rtoken, NEW e \in Ends, NEW S, NEW l, NEW g,
         S \subseteq ClientsAt(e), Counted(ClientsAt(e), pos, l, g), RefreshedAt(e, S, l, g)
  PROVE  /\ ListInv'
         /\ Len(list'[e]) = Len(l) /\ \A i \in 1 .. Len(l) : Alike(l[i], list'[e][i])
<1> DEFINE C == ClientsAt(e)
<1>1. Ends' = Ends /\ Readers' = Readers /\ R' = R /\ ClientsAt(e)' = C
  BY DEF Ends, Readers, R, ClientsAt
<1>2. ListTypes'
  BY <1>1 DEF ListInv, ListTypes, RefreshedAt
<1>3. list'[e] = MarkHandled(S, l) /\ front'[e] = g
  BY DEF ListInv, ListTypes, RefreshedAt
<1>4. \A d \in Ends \ {e} : list'[d] = list[d] /\ front'[d] = front[d]
  BY DEF ListInv, ListTypes, RefreshedAt
<1>5. \A r \in Readers : r \notin S => pos'[r] = pos[r]
  BY DEF RefreshedAt
<1>6. \A r \in S : r \in Readers /\ R[r].end = e /\ pos'[r] = Len(l) + 1
  BY DEF RefreshedAt, ClientsAt
<1>7. AllHandled(S, pos, l, list'[e])
  BY <1>3, MarkHandledIs DEF Counted
<1>8. IsFiniteSet(C) /\ C \subseteq Readers
  BY SettingFacts DEF ListInv, ListTypes, ClientsAt
<1>9. /\ Counted(C, pos', list'[e], g)
      /\ Len(list'[e]) = Len(l) /\ \A i \in 1 .. Len(l) : Alike(l[i], list'[e][i])
  <2>1. PICK q : q = pos'
    OBVIOUS
  <2>2. PICK k : k = list'[e]
    OBVIOUS
  <2>3. \A r \in C \ S : q[r] = pos[r]
    BY <1>5, <1>8, <2>1
  <2>4. \A r \in C \cap S : q[r] = Len(l) + 1
    BY <1>6, <2>1
  <2>5. GoneOn(C, C, pos, q, l, k, g, S)
    BY <1>7, <1>8, <2>2, <2>3, <2>4 DEF GoneOn
  <2>6. Counted(C, q, k, g) /\ Len(k) = Len(l) /\ \A i \in 1 .. Len(l) : Alike(l[i], k[i])
    BY <2>5, CountedHandled
  <2> QED BY <2>1, <2>2, <2>6
<1>10. CountsOf(e)'
  BY <1>1, <1>3, <1>9 DEF CountsOf
<1>11. ListInv'
  BY <1>2, <1>4, <1>5, <1>6, <1>10, ListAtEnd
<1> QED BY <1>9, <1>11

LEMMA RefreshClients ==
  ASSUME ListInv, setting' = setting, UNCHANGED <<rtoken, front>>, NEW e \in Ends, NEW S,
         S \subseteq ClientsAt(e),
         list' = [list EXCEPT ![e] = MarkHandled(S, list[e])],
         pos' = [r \in Readers |-> IF r \in S THEN Len(list[e]) + 1 ELSE pos[r]]
  PROVE  /\ ListInv'
         /\ Len(list'[e]) = Len(list[e])
         /\ \A i \in 1 .. Len(list[e]) : Alike(list[e][i], list'[e][i])
<1>1. RefreshedAt(e, S, list[e], front[e])
  BY DEF RefreshedAt, ListInv, ListTypes
<1>2. Counted(ClientsAt(e), pos, list[e], front[e])
  BY DEF ListInv, CountsOf
<1> QED BY <1>1, <1>2, ListRefresh

\* the clients of an end after a client has come or gone
LEMMA ListJoin ==
  ASSUME ListInv, setting' = setting, NEW r \in Readers, rtoken[r] # "on",
         rtoken' = [rtoken EXCEPT ![r] = "on"],
         pos' = [pos EXCEPT ![r] = Len(list[R[r].end]) + 1], UNCHANGED <<list, front>>
  PROVE  ListInv'
<1>0. PICK e : e = R[r].end
  OBVIOUS
<1> DEFINE C == ClientsAt(e)
<1>1. Ends' = Ends /\ Readers' = Readers /\ R' = R /\ e \in Ends
  BY <1>0, SettingFacts DEF Ends, Readers, R, ListInv, ListTypes
<1>2. ListTypes'
  BY <1>1 DEF ListInv, ListTypes
<1>3. ClientsAt(e)' = C \cup {r} /\ r \notin C
  BY <1>0, <1>1 DEF ClientsAt, ListInv, ListTypes
<1>4. pos'[r] = Len(list[e]) + 1 /\ \A x \in Readers \ {r} : pos'[x] = pos[x]
  BY <1>0 DEF ListInv, ListTypes
<1>5. \A x \in C : pos'[x] = pos[x]
  BY <1>3, <1>4 DEF ClientsAt
<1>6. Counted(C, pos, list[e], front[e])
  BY <1>1 DEF ListInv, CountsOf
<1>7. Counted(C \cup {r}, pos', list[e], front[e])
  <2>1. PICK D, p, q, l, f : D = C /\ p = pos /\ q = pos' /\ l = list[e] /\ f = front[e]
    OBVIOUS
  <2>2. Counted(D, p, l, f) /\ r \notin D /\ q[r] = Len(l) + 1 /\ \A x \in D : q[x] = p[x]
    BY <1>3, <1>4, <1>5, <1>6, <2>1
  <2>3. Counted(D \cup {r}, q, l, f)
    BY <2>2, CountedJoined
  <2> QED BY <2>1, <2>3
<1>8. CountsOf(e)'
  BY <1>1, <1>3, <1>7 DEF CountsOf
<1>9. \A x \in Readers : R[x].end # e => rtoken'[x] = rtoken[x] /\ pos'[x] = pos[x]
  BY <1>0, <1>4 DEF ListInv, ListTypes
<1> QED BY <1>1, <1>2, <1>8, <1>9, ListAtEnd

LEMMA ListLeave ==
  ASSUME ListInv, setting' = setting, NEW r \in Readers, rtoken[r] = "on",
         rtoken' = [rtoken EXCEPT ![r] = "removed"], pos' = [pos EXCEPT ![r] = 0],
         list' = [list EXCEPT ![R[r].end] = MarkHandled({r}, list[R[r].end])],
         front' = front
  PROVE  /\ ListInv'
         /\ Len(list'[R[r].end]) = Len(list[R[r].end])
         /\ \A i \in 1 .. Len(list[R[r].end]) : Alike(list[R[r].end][i], list'[R[r].end][i])
<1>0. PICK e : e = R[r].end
  OBVIOUS
<1> DEFINE C == ClientsAt(e)
<1>1. Ends' = Ends /\ Readers' = Readers /\ R' = R /\ e \in Ends
  BY <1>0, SettingFacts DEF Ends, Readers, R, ListInv, ListTypes
<1>2. ListTypes'
  BY <1>1 DEF ListInv, ListTypes
<1>3. ClientsAt(e)' = C \ {r} /\ {r} \subseteq C /\ IsFiniteSet(C) /\ C \subseteq Readers
  BY <1>0, <1>1, SettingFacts DEF ClientsAt, ListInv, ListTypes
<1>4. \A x \in Readers \ {r} : pos'[x] = pos[x]
  BY DEF ListInv, ListTypes
<1>5. Counted(C, pos, list[e], front[e])
  BY <1>1 DEF ListInv, CountsOf
<1>6. AllHandled({r}, pos, list[e], list'[e])
  BY <1>0, <1>1, <1>5, MarkHandledIs DEF Counted, ListInv, ListTypes
<1>7. /\ Counted(C \ {r}, pos', list'[e], front[e]) /\ Len(list'[e]) = Len(list[e])
      /\ \A i \in 1 .. Len(list[e]) : Alike(list[e][i], list'[e][i])
  <2>1. PICK q : q = pos'
    OBVIOUS
  <2>2. PICK k : k = list'[e]
    OBVIOUS
  <2>3. PICK D : D = C \ {r}
    OBVIOUS
  <2>4. \A x \in C \ {r} : q[x] = pos[x]
    BY <1>3, <1>4, <2>1
  <2> HIDE DEF C
  <2>5. GoneOn(C, D, pos, q, list[e], k, front[e], {r})
    BY <1>3, <1>5, <1>6, <2>2, <2>3, <2>4 DEF GoneOn
  <2>6. /\ Counted(D, q, k, front[e]) /\ Len(k) = Len(list[e])
        /\ \A i \in 1 .. Len(list[e]) : Alike(list[e][i], k[i])
    BY <2>5, CountedHandled
  <2> QED BY <2>1, <2>2, <2>3, <2>6
<1>8. CountsOf(e)'
  BY <1>1, <1>3, <1>7 DEF CountsOf
<1>9. \A x \in Readers : R[x].end # e => rtoken'[x] = rtoken[x] /\ pos'[x] = pos[x]
  BY <1>0, <1>4 DEF ListInv, ListTypes
<1>10. \A d \in Ends \ {e} : list'[d] = list[d] /\ front'[d] = front[d]
  BY <1>0 DEF ListInv, ListTypes
<1>11. ListInv'
  BY <1>1, <1>2, <1>8, <1>9, <1>10, ListAtEnd
<1> QED BY <1>0, <1>7, <1>11

\* the list of end e with a change added and older ones recycled
LEMMA CountsAppended ==
  ASSUME ListInv, NEW e \in Ends, NEW c, IsChange(c), c.tocheck = Cardinality(ClientsAt(e))
  PROVE  Counted(ClientsAt(e), pos, Append(list[e], c), Recycled(e))
<1> DEFINE C == ClientsAt(e)
<1>1. Counted(C, pos, list[e], front[e]) /\ IsFiniteSet(C)
  BY SettingFacts DEF ListInv, CountsOf, ListTypes
<1>2. PICK n : n = Len(list[e])
  OBVIOUS
<1>3. n \in Nat /\ front[e] \in 1 .. n + 1
  BY <1>1, <1>2, IsSeqFacts DEF Counted
<1>4. /\ Recycled(e) \in front[e] .. n + 1
      /\ \A k \in front[e] .. (Recycled(e) - 1) : list[e][k].tocheck = 0
  BY <1>2, <1>3, RecycledIs
<1>5. PICK g : g = Recycled(e)
  OBVIOUS
<1>6. Counted(C, pos, list[e], g)
  BY <1>1, <1>2, <1>4, <1>5, CountedRecycled
<1> QED BY <1>1, <1>5, <1>6, CountedAppend

\* the clients that NewEntryConf refreshes
CalledAt(e, m) == {r \in ClientsAt(e) : R[r].callback /\ EntryMatch(r, m.w, m.id)}
NewChange(e, m) ==
  [kind |-> "new", w |-> m.w, id |-> m.id, tocheck |-> Cardinality(ClientsAt(e))]
DeletedChange(e, m) ==
  [kind |-> "deleted", w |-> entries[e][m.id], id |-> m.id,
   tocheck |-> Cardinality(ClientsAt(e))]

LEMMA ListNewEntryConf ==
  ASSUME ListInv, setting' = setting, NEW e \in Ends, NEW m, ~HasEntry(e, m.id),
         NewEntryConf(e, m)
  PROVE  LET l == Append(list[e], NewChange(e, m)) IN
         /\ ListInv' /\ CalledAt(e, m) \subseteq ClientsAt(e)
         /\ Counted(ClientsAt(e), pos, l, Recycled(e))
         /\ Len(list'[e]) = Len(l) /\ \A i \in 1 .. Len(l) : Alike(l[i], list'[e][i])
<1> DEFINE l == Append(list[e], NewChange(e, m))
           S == CalledAt(e, m)
<1>1. /\ UNCHANGED rtoken /\ front' = [front EXCEPT ![e] = Recycled(e)]
      /\ list' = [list EXCEPT ![e] = MarkHandled(S, l)]
      /\ pos' = [r \in Readers |-> IF r \in S THEN Len(l) + 1 ELSE pos[r]]
  BY Zenon DEF NewEntryConf, Refresh, RefreshThen, NewChange, CalledAt
<1>2. Counted(ClientsAt(e), pos, l, Recycled(e))
  BY CountsAppended DEF NewChange, IsChange
<1>3. S \subseteq ClientsAt(e)
  BY DEF CalledAt
<1> HIDE DEF l, S
<1>4. front' = [d \in Ends |-> IF d = e THEN Recycled(e) ELSE front[d]]
  BY <1>1 DEF ListInv, ListTypes
<1>5. RefreshedAt(e, S, l, Recycled(e))
  BY <1>1, <1>4 DEF RefreshedAt
<1>6. /\ ListInv'
      /\ Len(list'[e]) = Len(l) /\ \A i \in 1 .. Len(l) : Alike(l[i], list'[e][i])
  BY <1>1, <1>2, <1>3, <1>5, ListRefresh
<1> QED BY <1>2, <1>3, <1>6 DEF l, S

LEMMA ListInvalidate ==
  ASSUME ListInv, setting' = setting, NEW e \in Ends, NEW m, HasEntry(e, m.id),
         InvalidateEntryCmd(e, m)
  PROVE  ListInv' /\ list'[e] = Append(list[e], DeletedChange(e, m))
<1> DEFINE l == Append(list[e], DeletedChange(e, m))
<1>1. /\ UNCHANGED <<rtoken, pos>> /\ front' = [front EXCEPT ![e] = Recycled(e)]
      /\ list' = [list EXCEPT ![e] = l]
  BY DEF InvalidateEntryCmd, readVars, DeletedChange
<1>2. Counted(ClientsAt(e), pos, l, Recycled(e))
  BY CountsAppended DEF DeletedChange, IsChange
<1> HIDE DEF l
<1>3. Ends' = Ends /\ Readers' = Readers /\ R' = R /\ ClientsAt(e)' = ClientsAt(e)
  BY <1>1 DEF Ends, Readers, R, ClientsAt
<1>4. ListTypes' /\ list'[e] = l /\ front'[e] = Recycled(e)
  BY <1>1, <1>3 DEF ListInv, ListTypes
<1>5. \A d \in Ends \ {e} : list'[d] = list[d] /\ front'[d] = front[d]
  BY <1>1 DEF ListInv, ListTypes
<1>6. CountsOf(e)'
  BY <1>1, <1>2, <1>3, <1>4 DEF CountsOf
<1>7. ListInv'
  BY <1>1, <1>4, <1>5, <1>6, ListAtEnd
<1> QED BY <1>4, <1>7 DEF l

LEMMA ListClean ==
  ASSUME ListInv, setting' = setting, NEW e \in Ends, UNCHANGED <<rtoken, pos, list>>,
         front' = [front EXCEPT ![e] = HandledUpTo(e)]
  PROVE  ListInv'
<1> DEFINE C == ClientsAt(e)
<1>1. Counted(C, pos, list[e], front[e]) /\ IsFiniteSet(C)
  BY SettingFacts DEF ListInv, CountsOf, ListTypes
<1>2. PICK n : n = Len(list[e])
  OBVIOUS
<1>3. n \in Nat /\ front[e] \in 1 .. n + 1
  BY <1>1, <1>2, IsSeqFacts DEF Counted
<1>4. PICK g : g = HandledUpTo(e)
  OBVIOUS
<1>5. g \in front[e] .. n + 1 /\ \A k \in front[e] .. (g - 1) : list[e][k].tocheck = 0
  BY <1>2, <1>3, <1>4, HandledUpToIs
<1>6. Counted(C, pos, list[e], g)
  BY <1>1, <1>2, <1>5, CountedRecycled
<1>7. Ends' = Ends /\ Readers' = Readers /\ R' = R /\ ClientsAt(e)' = C
  BY DEF Ends, Readers, R, ClientsAt
<1>8. ListTypes' /\ front'[e] = g
  BY <1>4, <1>7 DEF ListInv, ListTypes
<1>9. \A d \in Ends \ {e} : list'[d] = list[d] /\ front'[d] = front[d]
  BY DEF ListInv, ListTypes
<1>10. CountsOf(e)'
  BY <1>6, <1>7, <1>8 DEF CountsOf
<1> QED BY <1>8, <1>9, <1>10, ListAtEnd

\* CleanEntryCmd() recycles, or does nothing to the lists
LEMMA CleanIs ==
  ASSUME NEW e, NEW m, CleanEntryCmd(e, m)
  PROVE  /\ UNCHANGED <<rtoken, pos, list>>
         /\ front' = [front EXCEPT ![e] = HandledUpTo(e)] \/ front' = front
BY Zenon DEF CleanEntryCmd, NoSuchEntry, readVars, endVars, HandledUpTo

LEMMA ListUpdate ==
  ASSUME ListInv, setting' = setting, NEW e \in Ends, NEW m, UpdateConfiguration(e, m)
  PROVE  ListInv'
<1>1. CASE NewEntryConf(e, m)
  <2>1. CASE HasEntry(e, m.id)
    <3>1. UNCHANGED <<rtoken, pos, list, front>>
      BY <1>1, <2>1 DEF NewEntryConf, readVars, endVars
    <3> QED BY <3>1, ListFrame
  <2>2. CASE ~HasEntry(e, m.id)
    BY <1>1, <2>2, ListNewEntryConf
  <2> QED BY <2>1, <2>2
<1>2. CASE InvalidateEntryCmd(e, m)
  <2>1. CASE ~HasEntry(e, m.id)
    <3>1. UNCHANGED <<rtoken, pos, list, front>>
      BY <1>2, <2>1 DEF InvalidateEntryCmd, NoSuchEntry, readVars, endVars
    <3> QED BY <3>1, ListFrame
  <2>2. CASE HasEntry(e, m.id)
    BY <1>2, <2>2, ListInvalidate
  <2> QED BY <2>1, <2>2
<1>3. CASE CleanEntryCmd(e, m)
  <2>1. CASE front' = front
    BY <1>3, <2>1, CleanIs, ListFrame
  <2>2. CASE front' = [front EXCEPT ![e] = HandledUpTo(e)]
    BY <1>3, <2>2, CleanIs, ListClean
  <2> QED BY <1>3, <2>1, <2>2, CleanIs
<1>4. CASE DeleteEntryCmd(e, m)
  <2>1. UNCHANGED <<rtoken, pos, list, front>>
    BY <1>4 DEF DeleteEntryCmd, NoSuchEntry, readVars, endVars
  <2> QED BY <2>1, ListFrame
<1>5. CASE RemoveSaveupCmd(e, m)
  <2>1. UNCHANGED <<rtoken, pos, list, front>>
    BY <1>5 DEF RemoveSaveupCmd, NoSuchEntry, readVars, endVars
  <2> QED BY <2>1, ListFrame
<1>6. CASE UNCHANGED <<readVars, endVars>>
  <2>1. UNCHANGED <<rtoken, pos, list, front>>
    BY <1>6 DEF readVars, endVars
  <2> QED BY <2>1, ListFrame
<1> QED BY <1>1, <1>2, <1>3, <1>4, <1>5, <1>6 DEF UpdateConfiguration

LEMMA ListNext ==
  ASSUME ListInv, Next
  PROVE  ListInv'
<1>0. setting' = setting
  BY DEF Next
<1>1. ASSUME NEW w \in Writers, WriterStep(w) PROVE ListInv'
  <2>1. UNCHANGED <<rtoken, pos, list, front>>
    BY <1>1 DEF WriterStep, AddWriteToken, RemoveWriteToken, readVars, endVars
  <2> QED BY <1>0, <2>1, ListFrame
<1>2. ASSUME NEW r \in Readers, ReaderStep(r) PROVE ListInv'
  <2>0. R[r].end \in Ends
    BY SettingFacts DEF ListInv, ListTypes
  <2>1. CASE AddReadToken(r)
    <3>1. /\ rtoken[r] # "on" /\ rtoken' = [rtoken EXCEPT ![r] = "on"]
          /\ pos' = [pos EXCEPT ![r] = Len(list[R[r].end]) + 1] /\ UNCHANGED <<list, front>>
      BY <2>1, Zenon DEF AddReadToken, endVars
    <3> QED BY <1>0, <3>1, ListJoin
  <2>2. CASE RemoveReadToken(r)
    <3>1. /\ rtoken[r] = "on" /\ rtoken' = [rtoken EXCEPT ![r] = "removed"]
          /\ list' = [list EXCEPT ![R[r].end] = MarkHandled({r}, list[R[r].end])]
          /\ pos' = [pos EXCEPT ![r] = 0] /\ front' = front
      BY <2>2, Zenon DEF RemoveReadToken
    <3> QED BY <1>0, <3>1, ListLeave
  <2>3. CASE RefreshClientHandle(r) \/ SelectFirstEntry(r) \/ GetNextEntry(r)
    <3>1. PICK e : e = R[r].end
      OBVIOUS
    <3>2. /\ rtoken[r] = "on" /\ UNCHANGED <<rtoken, front>>
          /\ list' = [list EXCEPT ![e] = MarkHandled({r}, list[e])]
          /\ pos' = [x \in Readers |-> IF x \in {r} THEN Len(list[e]) + 1 ELSE pos[x]]
      BY <2>3, <3>1, Zenon DEF RefreshClientHandle, SelectFirstEntry, GetNextEntry, SelectEntry,
                               Refresh, RefreshThen
    <3>3. {r} \subseteq ClientsAt(e) /\ e \in Ends
      BY <2>0, <3>1, <3>2 DEF ClientsAt
    <3> QED BY <1>0, <3>2, <3>3, RefreshClients
  <2>4. CASE GetReadAccess(r) \/ ReleaseReadAccess(r)
    <3>1. UNCHANGED <<rtoken, pos, list, front>>
      BY <2>4 DEF GetReadAccess, ReleaseReadAccess, endVars
    <3> QED BY <1>0, <3>1, ListFrame
  <2> QED BY <1>2, <2>1, <2>2, <2>3, <2>4 DEF ReaderStep
<1>3. ASSUME NEW e \in Ends, EndStep(e) PROVE ListInv'
  <2>1. CASE InstallService(e) \/ SendRequest(e)
    <3>1. UNCHANGED <<rtoken, pos, list, front>>
      BY <2>1 DEF InstallService, SendRequest, readVars, endVars
    <3> QED BY <1>0, <3>1, ListFrame
  <2>2. CASE ChangeThere(e)
    BY <1>0, <2>2, ListUpdate DEF ChangeThere
  <2> QED BY <1>3, <2>1, <2>2 DEF EndStep
<1>4. CASE MasterStep
  <2>1. CASE Process \/ Sweep
    <3>1. UNCHANGED <<rtoken, pos, list, front>>
      BY <2>1 DEF Process, Sweep, readVars, endVars
    <3> QED BY <1>0, <3>1, ListFrame
  <2>2. CASE ChangeHere
    <3>1. Master \in Ends
      BY SettingFacts DEF ListInv, ListTypes
    <3> QED BY <1>0, <2>2, <3>1, ListUpdate DEF ChangeHere
  <2> QED BY <1>4, <2>1, <2>2 DEF MasterStep
<1>5. CASE Stopped
  <2>1. UNCHANGED <<rtoken, pos, list, front>>
    BY <1>5 DEF Stopped, vars, readVars, endVars
  <2> QED BY <1>0, <2>1, ListFrame
<1> QED BY <1>1, <1>2, <1>3, <1>4, <1>5 DEF Next, Step

\* The inductive invariant of the lists: each end's list is counted right for
\* the clients it has (setData(), markHandled(), recycleConfigChanges()).
THEOREM ListsCounted == Spec => []ListInv
<1>1. ListInv /\ [Next]_<<vars, setting>> => ListInv'
  <2> SUFFICES ASSUME ListInv, [Next]_<<vars, setting>> PROVE ListInv'
    OBVIOUS
  <2>1. CASE Next
    BY <2>1, ListNext
  <2>2. CASE UNCHANGED <<vars, setting>>
    <3>1. UNCHANGED <<setting, rtoken, pos, list, front>>
      BY <2>2 DEF vars, readVars, endVars
    <3> QED BY <3>1, ListFrame
  <2> QED BY <2>1, <2>2
<1> QED BY <1>1, ListInit, PTL DEF Spec

\* However clients come, go and refresh while entries are made and removed:
\* tocheck of a change is the number of clients of the end that have still to
\* come to it, and no change is recycled under a client that points to it or
\* to an earlier one, for any number of ends, clients and changes.
THEOREM ChangesCounted == Spec => []TocheckExact
BY ListsCounted, ListInvExact, PTL


-----------------------------------------------------------------------------
(* The links of clients that ask for all entries.                          *)

LEMMA IsSeqCons ==
  ASSUME NEW w, NEW l, IsSeq(l)
  PROVE  IsSeq(<<w>> \o l) /\ Range(<<w>> \o l) = {w} \cup Range(l)
<1>1. PICK S : l \in Seq(S)
  BY DEF IsSeq
<1>2. l \in Seq(S \cup {w}) /\ <<w>> \in Seq(S \cup {w})
  BY <1>1, SeqMonotonic
<1>3. PICK k : k = <<w>> \o l
  OBVIOUS
<1>4. /\ k \in Seq(S \cup {w}) /\ Len(k) = Len(l) + 1
      /\ \A i \in 1 .. Len(l) + 1 : k[i] = IF i = 1 THEN w ELSE l[i - 1]
  BY <1>2, <1>3
<1>5. Len(l) \in Nat /\ DOMAIN l = 1 .. Len(l) /\ DOMAIN k = 1 .. Len(l) + 1
  BY <1>2, <1>4
<1>6. Range(k) \subseteq {w} \cup Range(l)
  <2> SUFFICES ASSUME NEW i \in 1 .. Len(l) + 1 PROVE k[i] \in {w} \cup Range(l)
    BY <1>5 DEF Range
  <2>1. CASE i = 1
    BY <1>4, <2>1
  <2>2. CASE i # 1
    <3>1. i - 1 \in DOMAIN l /\ k[i] = l[i - 1]
      BY <1>4, <1>5, <2>2
    <3> QED BY <3>1 DEF Range
  <2> QED BY <2>1, <2>2
<1>7. {w} \cup Range(l) \subseteq Range(k)
  <2>1. w \in Range(k)
    <3>1. 1 \in DOMAIN k /\ k[1] = w
      BY <1>4, <1>5
    <3> QED BY <3>1 DEF Range
  <2>2. ASSUME NEW i \in DOMAIN l PROVE l[i] \in Range(k)
    <3>1. i + 1 \in DOMAIN k /\ i + 1 # 1 /\ (i + 1) - 1 = i
      BY <1>5
    <3>2. k[i + 1] = l[i]
      BY <1>4, <1>5, <3>1
    <3> QED BY <3>1, <3>2 DEF Range
  <2> QED BY <2>1, <2>2 DEF Range
<1> QED BY <1>3, <1>4, <1>6, <1>7 DEF IsSeq

LEMMA IsSeqOnly ==
  ASSUME NEW l, NEW S, IsSeq(l)
  PROVE  IsSeq(Only(l, S)) /\ Range(Only(l, S)) = Range(l) \cap S
BY OnlyInSeq DEF IsSeq

LEMMA IsSeqReverse ==
  ASSUME NEW l, IsSeq(l)
  PROVE  IsSeq(Reverse(l)) /\ Range(Reverse(l)) = Range(l)
<1>1. PICK n : n = Len(l)
  OBVIOUS
<1>2. n \in Nat /\ DOMAIN l = 1 .. n
  BY <1>1, IsSeqFacts
<1>3. PICK k : k = Reverse(l)
  OBVIOUS
<1>4. k = [i \in 1 .. n |-> l[(n - i) + 1]]
  BY <1>1, <1>3 DEF Reverse
<1>5. DOMAIN k = 1 .. n /\ \A i \in 1 .. n : k[i] = l[(n - i) + 1]
  BY <1>4
<1>6. IsSeq(k)
  <2>1. k = [i \in 1 .. n |-> k[i]]
    BY <1>4
  <2> QED BY <1>2, <1>5, <2>1, IsSeqFunction
<1>7. Range(k) = Range(l)
  <2>1. ASSUME NEW i \in 1 .. n PROVE k[i] \in Range(l)
    <3>1. (n - i) + 1 \in 1 .. n
      BY <1>2
    <3> QED BY <1>2, <1>5, <3>1 DEF Range
  <2>2. ASSUME NEW i \in 1 .. n PROVE l[i] \in Range(k)
    <3>1. PICK j : j = (n - i) + 1
      OBVIOUS
    <3>2. j \in 1 .. n /\ (n - j) + 1 = i
      BY <1>2, <3>1
    <3>3. k[j] = l[i]
      BY <1>5, <3>2
    <3> QED BY <1>5, <3>2, <3>3 DEF Range
  <2> QED BY <1>2, <1>5, <2>1, <2>2 DEF Range
<1> QED BY <1>3, <1>6, <1>7

\* a client on its way, that passes over nothing and is linked to the entries F
Linked(s, F) ==
  /\ s = [links |-> s.links, cur |-> s.cur, fault |-> s.fault, quick |-> FALSE]
  /\ IsSeq(s.links) /\ Range(s.links) = F

\* the entries a client of all entries is linked to after change c
FitAfter(r, c, F) ==
  IF c.kind = "deleted" THEN F \ {c.w}
  ELSE IF ClassMatch(r, c.w) THEN {c.w} \cup F ELSE F

LEMMA MakeLinked ==
  ASSUME NEW l, NEW x, NEW f, NEW F, IsSeq(l), Range(l) = F
  PROVE  Linked([links |-> l, cur |-> x, fault |-> f, quick |-> FALSE], F)
BY DEF Linked

LEMMA LinkedParts ==
  ASSUME NEW s, NEW F, Linked(s, F)
  PROVE  \E l, x, f : /\ s = [links |-> l, cur |-> x, fault |-> f, quick |-> FALSE]
                      /\ IsSeq(l) /\ Range(l) = F
BY DEF Linked

LEMMA LinkedNew ==
  ASSUME NEW s, NEW F, NEW w, Linked(s, F)
  PROVE  Linked(Link(s, w), {w} \cup F)
<1>1. PICK l, x, f : /\ s = [links |-> l, cur |-> x, fault |-> f, quick |-> FALSE]
                     /\ IsSeq(l) /\ Range(l) = F
  BY LinkedParts
<1>2. PICK y : y = IF x = NoEntry THEN w ELSE x
  OBVIOUS
<1>3. PICK k : k = <<w>> \o l
  OBVIOUS
<1>4. Link(s, w) = [links |-> k, cur |-> y, fault |-> f, quick |-> FALSE]
  <2>1. s.links = l /\ s.cur = x
    BY <1>1
  <2>2. Link(s, w) = [s EXCEPT !.links = k, !.cur = y]
    BY <1>2, <1>3, <2>1, Zenon DEF Link
  <2> QED BY <1>1, <2>2
<1>5. IsSeq(k) /\ Range(k) = {w} \cup F
  BY <1>1, <1>3, IsSeqCons
<1> QED BY <1>4, <1>5, MakeLinked

LEMMA LinkedDetach ==
  ASSUME NEW s, NEW F, NEW w, Linked(s, F)
  PROVE  Linked(Detach(s, w), F \ {w})
<1>1. PICK l, x, f : /\ s = [links |-> l, cur |-> x, fault |-> f, quick |-> FALSE]
                     /\ IsSeq(l) /\ Range(l) = F
  BY LinkedParts
<1>2. CASE w \notin F
  <2>1. Detach(s, w) = [links |-> l, cur |-> x, fault |-> "detach", quick |-> FALSE]
    BY <1>1, <1>2 DEF Detach
  <2>2. F \ {w} = F
    BY <1>2
  <2> QED BY <1>1, <2>1, <2>2, MakeLinked
<1>3. CASE w \in F
  <2>1. PICK y : y = IF x = w THEN After(l, w) ELSE x
    OBVIOUS
  <2>2. PICK k : k = Only(l, F \ {w})
    OBVIOUS
  <2>3. Detach(s, w) = [links |-> k, cur |-> y, fault |-> f, quick |-> FALSE]
    BY <1>1, <1>3, <2>1, <2>2 DEF Detach
  <2>4. IsSeq(k) /\ Range(k) = F \cap (F \ {w})
    BY <1>1, <2>2, IsSeqOnly
  <2>5. F \cap (F \ {w}) = F \ {w}
    OBVIOUS
  <2> QED BY <2>3, <2>4, <2>5, MakeLinked
<1> QED BY <1>2, <1>3

\* the client asks for every entry its classes allow
AsksAll(r) == R[r].want = "any" /\ R[r].time = "any" /\ R[r].label = ""

LEMMA LinkedChange ==
  ASSUME NEW r, NEW s, NEW F, NEW c, Linked(s, F), AsksAll(r), c.kind \in {"new", "deleted"}
  PROVE  Linked(HandleChange(r, s, c), FitAfter(r, c, F))
<1>1. s.quick = FALSE
  BY DEF Linked
<1>2. [s EXCEPT !.quick = FALSE] = s
  BY DEF Linked
<1>3. CASE c.kind = "new"
  <2>1. HandleChange(r, s, c) = IF ClassMatch(r, c.w) THEN Link(s, c.w) ELSE s
    BY <1>1, <1>2, <1>3 DEF HandleChange, AsksAll, TimingCompatible
  <2> QED BY <1>3, <2>1, LinkedNew DEF FitAfter
<1>4. CASE c.kind = "deleted"
  <2>1. HandleChange(r, s, c) = IF s.links = <<>> THEN s ELSE Detach(s, c.w)
    BY <1>1, <1>2, <1>4 DEF HandleChange
  <2>2. s.links = <<>> => F \ {c.w} = F
    <3>1. Range(<<>>) = {}
      BY DEF Range
    <3> QED BY <3>1 DEF Linked
  <2>3. FitAfter(r, c, F) = F \ {c.w}
    BY <1>4 DEF FitAfter
  <2>4. CASE s.links = <<>>
    BY <2>1, <2>2, <2>3, <2>4
  <2>5. CASE s.links # <<>>
    BY <2>1, <2>3, <2>5, LinkedDetach
  <2> QED BY <2>4, <2>5
<1> QED BY <1>3, <1>4

\* the entries of ws that client r asks for
FitAt(r, ws) == {w \in Range(ws) : ClassMatch(r, w)}

\* a client of all entries, at place p of list l with links ls, is linked to what
\* it asks for of ws once it has handled the rest of the list
LinkedBy(r, l, p, ls, x, ws) ==
  Linked(Handling(r, l, p, [links |-> ls, cur |-> x, fault |-> "none", quick |-> FALSE]),
         FitAt(r, ws))

\* a place in a list
InList(l, p) == Len(l) \in Nat /\ p \in 1 .. Len(l) + 1

LEMMA LinkedByAtEnd ==
  ASSUME NEW r, NEW l, NEW ls, NEW x, NEW ws, Len(l) \in Nat
  PROVE  LinkedBy(r, l, Len(l) + 1, ls, x, ws) <=> IsSeq(ls) /\ Range(ls) = FitAt(r, ws)
<1>1. PICK s : s = [links |-> ls, cur |-> x, fault |-> "none", quick |-> FALSE]
  OBVIOUS
<1>2. Handling(r, l, Len(l) + 1, s) = s
  BY HandlingNothing
<1>3. /\ s.links = ls
      /\ s = [links |-> s.links, cur |-> s.cur, fault |-> s.fault, quick |-> FALSE]
  BY <1>1
<1>4. Linked(s, FitAt(r, ws)) <=> IsSeq(ls) /\ Range(ls) = FitAt(r, ws)
  BY <1>3, Zenon DEF Linked
<1> QED BY <1>1, <1>2, <1>4 DEF LinkedBy

LEMMA LinkedByAlike ==
  ASSUME NEW r, NEW l, NEW k, NEW p, NEW ls, NEW x, NEW ws, InList(l, p), Len(k) = Len(l),
         \A i \in 1 .. Len(l) : Alike(l[i], k[i]), LinkedBy(r, l, p, ls, x, ws)
  PROVE  LinkedBy(r, k, p, ls, x, ws)
<1>1. PICK s : s = [links |-> ls, cur |-> x, fault |-> "none", quick |-> FALSE]
  OBVIOUS
<1>2. p \in Nat \ {0} /\ Len(l) \in Nat /\ p <= Len(l) + 1
  BY DEF InList
<1>3. Handling(r, k, p, s) = Handling(r, l, p, s)
  BY <1>2, HandlingAlike
<1> QED BY <1>1, <1>3 DEF LinkedBy

LEMMA LinkedByOneMore ==
  ASSUME NEW r, NEW l, NEW k, NEW c, NEW p, NEW ls, NEW x, NEW ws, NEW vs, InList(l, p),
         Len(k) = Len(l) + 1, \A i \in 1 .. Len(l) : Alike(l[i], k[i]), k[Len(k)] = c,
         AsksAll(r), c.kind \in {"new", "deleted"},
         FitAt(r, vs) = FitAfter(r, c, FitAt(r, ws)), LinkedBy(r, l, p, ls, x, ws)
  PROVE  LinkedBy(r, k, p, ls, x, vs)
<1>1. PICK s : s = [links |-> ls, cur |-> x, fault |-> "none", quick |-> FALSE]
  OBVIOUS
<1>2. p \in Nat \ {0} /\ Len(l) \in Nat /\ p <= Len(l) + 1
  BY DEF InList
<1>3. Handling(r, k, p, s) = HandleChange(r, Handling(r, l, p, s), c)
  BY <1>2, HandlingOneMore
<1>4. Linked(Handling(r, l, p, s), FitAt(r, ws))
  BY <1>1 DEF LinkedBy
<1>5. Linked(Handling(r, k, p, s), FitAt(r, vs))
  BY <1>3, <1>4, LinkedChange
<1> QED BY <1>1, <1>5 DEF LinkedBy

\* a client that has just handled list l, and now is at the end of list k
LEMMA LinkedByRefreshed ==
  ASSUME NEW r, NEW l, NEW k, NEW p, NEW ls, NEW x, NEW y, NEW ws, Len(k) \in Nat,
         LinkedBy(r, l, p, ls, x, ws)
  PROVE  LinkedBy(r, k, Len(k) + 1,
           Handling(r, l, p, [links |-> ls, cur |-> x, fault |-> "none", quick |-> FALSE]).links,
           y, ws)
<1>1. PICK s : s = Handling(r, l, p, [links |-> ls, cur |-> x, fault |-> "none", quick |-> FALSE])
  OBVIOUS
<1>2. IsSeq(s.links) /\ Range(s.links) = FitAt(r, ws)
  BY <1>1 DEF LinkedBy, Linked
<1>3. LinkedBy(r, k, Len(k) + 1, s.links, y, ws)
  BY <1>2, LinkedByAtEnd
<1> QED BY <1>1, <1>3

LEMMA LinkedByLater ==
  ASSUME NEW r, NEW l, NEW p, NEW ls, NEW x, NEW ws, InList(l, p), setting' = setting
  PROVE  LinkedBy(r, l, p, ls, x, ws)' <=> LinkedBy(r, l, p, ls, x, ws)
<1>1. PICK s : s = [links |-> ls, cur |-> x, fault |-> "none", quick |-> FALSE]
  OBVIOUS
<1>2. p \in Nat \ {0} /\ Len(l) \in Nat /\ p <= Len(l) + 1
  BY DEF InList
<1>3. Handling(r, l, p, s)' = Handling(r, l, p, s)
  BY <1>2, HandlingLater
<1>4. FitAt(r, ws)' = FitAt(r, ws)
  BY DEF FitAt, ClassMatch, R, W
<1> QED BY <1>1, <1>3, <1>4 DEF LinkedBy

-----------------------------------------------------------------------------
\* clients of all entries have the links that the list leads them to
LinkedAt(r) == LinkedBy(r, list[R[r].end], pos[r], links[r], cur[r], web[R[r].end])

LinksTypes ==
  /\ web = [e \in Ends |-> web[e]] /\ \A e \in Ends : IsSeq(web[e])
  /\ links = [r \in Readers |-> links[r]] /\ cur = [r \in Readers |-> cur[r]]

LinksInv ==
  /\ ListInv /\ LinksTypes
  /\ \A r \in Readers : rtoken[r] = "on" /\ AsksAll(r) => LinkedAt(r)

LEMMA ClientInList ==
  ASSUME ListInv, NEW r \in Readers, rtoken[r] = "on"
  PROVE  R[r].end \in Ends /\ r \in ClientsAt(R[r].end) /\ InList(list[R[r].end], pos[r])
<1>1. PICK e : e = R[r].end
  OBVIOUS
<1>2. e \in Ends /\ r \in ClientsAt(e)
  BY <1>1, SettingFacts DEF ListInv, ListTypes, ClientsAt
<1>3. CountsOf(e)
  BY <1>2 DEF ListInv
<1>4. InList(list[e], pos[r])
  BY <1>2, <1>3, IsSeqFacts DEF CountsOf, Counted, InList
<1> QED BY <1>1, <1>2, <1>4

LEMMA LinksInit == Init => LinksInv
<1> SUFFICES ASSUME Init PROVE LinksInv
  OBVIOUS
<1>1. IsSeq(<<>>)
  <2>1. <<>> \in Seq({})
    OBVIOUS
  <2> QED BY <2>1 DEF IsSeq
<1>2. LinksTypes
  BY <1>1 DEF Init, LinksTypes
<1>3. \A r \in Readers : rtoken[r] # "on"
  BY DEF Init
<1> QED BY <1>2, <1>3, ListInit DEF LinksInv

\* a client for which nothing changed but the counts in the list
LEMMA LinkedAtSame ==
  ASSUME LinksInv, ListInv', setting' = setting, NEW r \in Readers, rtoken[r] = "on", AsksAll(r),
         rtoken'[r] = "on", pos'[r] = pos[r], links'[r] = links[r], cur'[r] = cur[r],
         web'[R[r].end] = web[R[r].end], Len(list'[R[r].end]) = Len(list[R[r].end]),
         \A i \in 1 .. Len(list[R[r].end]) : Alike(list[R[r].end][i], list'[R[r].end][i])
  PROVE  LinkedAt(r)'
<1>1. PICK e : e = R[r].end
  OBVIOUS
<1>2. PICK k : k = list'[e]
  OBVIOUS
<1>3. LinkedBy(r, list[e], pos[r], links[r], cur[r], web[e])
  BY <1>1 DEF LinksInv, LinkedAt
<1>4. InList(list[e], pos[r])
  BY <1>1, ClientInList DEF LinksInv
<1>5. LinkedBy(r, k, pos[r], links[r], cur[r], web[e])
  BY <1>1, <1>2, <1>3, <1>4, LinkedByAlike
<1>6. PICK p, ls, x, ws : p = pos[r] /\ ls = links[r] /\ x = cur[r] /\ ws = web[e]
  OBVIOUS
<1>7. InList(k, p)
  BY <1>1, <1>2, <1>4, <1>6 DEF InList
<1>8. LinkedBy(r, k, p, ls, x, ws)'
  BY <1>5, <1>6, <1>7, LinkedByLater
<1>9. R' = R
  BY DEF R
<1> QED BY <1>1, <1>2, <1>6, <1>8, <1>9 DEF LinkedAt

LEMMA LinksFrame ==
  ASSUME LinksInv, UNCHANGED <<setting, rtoken, pos, links, cur, list, front, web>>
  PROVE  LinksInv'
<1>1. ListInv'
  BY ListFrame DEF LinksInv
<1>2. LinksTypes' /\ Readers' = Readers /\ \A r : AsksAll(r)' = AsksAll(r)
  BY DEF LinksInv, LinksTypes, Ends, Readers, R, AsksAll
<1>3. ASSUME NEW r \in Readers, rtoken'[r] = "on", AsksAll(r)
      PROVE  LinkedAt(r)'
  <2>1. \A i \in 1 .. Len(list[R[r].end]) : Alike(list[R[r].end][i], list'[R[r].end][i])
    BY DEF Alike
  <2> QED BY <1>1, <1>3, <2>1, LinkedAtSame
<1> QED BY <1>1, <1>2, <1>3 DEF LinksInv

LEMMA LinksJoin ==
  ASSUME LinksInv, setting' = setting, NEW r \in Readers, AddReadToken(r)
  PROVE  LinksInv'
<1>0. PICK e : e = R[r].end
  OBVIOUS
<1> DEFINE id(w) == CHOOSE i \in DOMAIN entries[e] : entries[e][i] = w
           M == {w \in Range(web[e]) : EntryMatch(r, w, id(w))}
           match == Only(web[e], M)
<1>1. /\ rtoken[r] # "on" /\ rtoken' = [rtoken EXCEPT ![r] = "on"]
      /\ pos' = [pos EXCEPT ![r] = Len(list[e]) + 1]
      /\ links' = [links EXCEPT ![r] = Reverse(match)]
      /\ cur' = [cur EXCEPT ![r] = IF match = <<>> THEN NoEntry ELSE Head(match)]
      /\ UNCHANGED <<web, list, front>>
  BY <1>0, Zenon DEF AddReadToken, endVars
<1>2. ListInv' /\ e \in Ends
  <2>1. ListInv'
    BY <1>0, <1>1, ListJoin DEF LinksInv
  <2> QED BY <1>0, <2>1, SettingFacts DEF LinksInv, ListInv, ListTypes
<1>3. LinksTypes' /\ Readers' = Readers /\ R' = R /\ \A x : AsksAll(x)' = AsksAll(x)
  <2>1. Ends' = Ends /\ Readers' = Readers /\ R' = R
    BY DEF Ends, Readers, R
  <2> HIDE DEF match
  <2> QED BY <1>1, <2>1 DEF LinksInv, LinksTypes, AsksAll
<1>4. ASSUME AsksAll(r) PROVE LinkedAt(r)'
  <2>1. M = FitAt(r, web[e]) /\ FitAt(r, web[e]) \subseteq Range(web[e])
    BY <1>4 DEF FitAt, EntryMatch, AsksAll
  <2>2. IsSeq(match) /\ Range(match) = FitAt(r, web[e])
    <3>1. IsSeq(web[e])
      BY <1>2 DEF LinksInv, LinksTypes
    <3>2. IsSeq(match) /\ Range(match) = Range(web[e]) \cap M
      <4> HIDE DEF M
      <4> QED BY <3>1, IsSeqOnly
    <3> QED BY <2>1, <3>2
  <2>3. PICK ls : ls = links'[r]
    OBVIOUS
  <2> HIDE DEF match
  <2>4. ls = Reverse(match) /\ pos'[r] = Len(list[e]) + 1
    BY <1>1, <2>3 DEF LinksInv, LinksTypes, ListInv, ListTypes
  <2>5. IsSeq(ls) /\ Range(ls) = FitAt(r, web[e])
    BY <2>2, <2>4, IsSeqReverse
  <2>6. PICK l, ws, x : l = list[e] /\ ws = web[e] /\ x = cur'[r]
    OBVIOUS
  <2>7. Len(l) \in Nat
    <3>1. CountsOf(e)
      BY <1>2 DEF LinksInv, ListInv
    <3> QED BY <2>6, <3>1, IsSeqFacts DEF CountsOf, Counted
  <2>8. PICK p : p = Len(l) + 1
    OBVIOUS
  <2>9. LinkedBy(r, l, p, ls, x, ws) /\ InList(l, p)
    <3>1. LinkedBy(r, l, p, ls, x, ws)
      BY <2>5, <2>6, <2>7, <2>8, LinkedByAtEnd
    <3> QED BY <2>7, <2>8, <3>1 DEF InList
  <2>10. LinkedBy(r, l, p, ls, x, ws)'
    BY <2>9, LinkedByLater
  <2> QED BY <1>0, <1>1, <1>3, <2>3, <2>4, <2>6, <2>8, <2>10 DEF LinkedAt
<1>5. ASSUME NEW x \in Readers, x # r, rtoken'[x] = "on", AsksAll(x)
      PROVE  LinkedAt(x)'
  <2> HIDE DEF match
  <2>1. /\ rtoken[x] = "on" /\ pos'[x] = pos[x] /\ links'[x] = links[x] /\ cur'[x] = cur[x]
    BY <1>1, <1>5 DEF LinksInv, LinksTypes, ListInv, ListTypes
  <2>2. \A i \in 1 .. Len(list[R[x].end]) : Alike(list[R[x].end][i], list'[R[x].end][i])
    BY <1>1 DEF Alike
  <2> QED BY <1>1, <1>2, <1>5, <2>1, <2>2, LinkedAtSame
<1> QED BY <1>2, <1>3, <1>4, <1>5 DEF LinksInv

LEMMA LinksLeave ==
  ASSUME LinksInv, setting' = setting, NEW r \in Readers, RemoveReadToken(r)
  PROVE  LinksInv'
<1>0. PICK e : e = R[r].end
  OBVIOUS
<1>1. /\ rtoken[r] = "on" /\ rtoken' = [rtoken EXCEPT ![r] = "removed"]
      /\ list' = [list EXCEPT ![R[r].end] = MarkHandled({r}, list[R[r].end])]
      /\ pos' = [pos EXCEPT ![r] = 0] /\ links' = [links EXCEPT ![r] = <<>>]
      /\ cur' = [cur EXCEPT ![r] = NoEntry] /\ UNCHANGED <<web, front>>
  BY Zenon DEF RemoveReadToken
<1>2. /\ ListInv' /\ Len(list'[e]) = Len(list[e])
      /\ \A i \in 1 .. Len(list[e]) : Alike(list[e][i], list'[e][i])
  BY <1>0, <1>1, ListLeave DEF LinksInv
<1>3. LinksTypes' /\ Readers' = Readers /\ R' = R /\ \A x : AsksAll(x)' = AsksAll(x)
  <2>1. Ends' = Ends /\ Readers' = Readers /\ R' = R
    BY DEF Ends, Readers, R
  <2> QED BY <1>1, <2>1 DEF LinksInv, LinksTypes, AsksAll
<1>4. rtoken'[r] # "on"
  BY <1>1 DEF LinksInv, ListInv, ListTypes
<1>5. ASSUME NEW x \in Readers, rtoken'[x] = "on", AsksAll(x)
      PROVE  LinkedAt(x)'
  <2>1. /\ rtoken[x] = "on" /\ pos'[x] = pos[x] /\ links'[x] = links[x] /\ cur'[x] = cur[x]
    BY <1>1, <1>4, <1>5 DEF LinksInv, LinksTypes, ListInv, ListTypes
  <2>2. /\ Len(list'[R[x].end]) = Len(list[R[x].end])
        /\ \A i \in 1 .. Len(list[R[x].end]) : Alike(list[R[x].end][i], list'[R[x].end][i])
    <3>1. CASE R[x].end = e
      BY <1>2, <3>1
    <3>2. CASE R[x].end # e
      <4>1. list'[R[x].end] = list[R[x].end]
        BY <1>0, <1>1, <3>2, SettingFacts DEF LinksInv, ListInv, ListTypes
      <4> QED BY <4>1 DEF Alike
    <3> QED BY <3>1, <3>2
  <2> QED BY <1>1, <1>2, <1>5, <2>1, <2>2, LinkedAtSame
<1> QED BY <1>2, <1>3, <1>5 DEF LinksInv

\* the clients S of end e refresh on list l, on which the entries are in vs
LinksRefreshed(e, S, l, vs) ==
  /\ UNCHANGED rtoken
  /\ pos' = [r \in Readers |-> IF r \in S THEN Len(l) + 1 ELSE pos[r]]
  /\ links' = [r \in Readers |-> IF r \in S THEN Refreshed(r, l).links ELSE links[r]]
  /\ cur' = [r \in Readers |-> cur'[r]]
  /\ \A r \in Readers \ S : cur'[r] = cur[r]
  /\ web' = [web EXCEPT ![e] = vs] /\ IsSeq(vs)
  /\ \A d \in Ends \ {e} : list'[d] = list[d]
  /\ Len(list'[e]) = Len(l) /\ \A i \in 1 .. Len(l) : Alike(l[i], list'[e][i])

LEMMA LinksRefresh ==
  ASSUME LinksInv, ListInv', setting' = setting, NEW e \in Ends, NEW S, NEW l, NEW vs,
         S \subseteq ClientsAt(e), LinksRefreshed(e, S, l, vs),
         \A r \in ClientsAt(e) : AsksAll(r) =>
           InList(l, pos[r]) /\ LinkedBy(r, l, pos[r], links[r], cur[r], vs)
  PROVE  LinksInv'
<1>1. LinksTypes' /\ Readers' = Readers /\ R' = R /\ \A x : AsksAll(x)' = AsksAll(x)
  <2>1. Ends' = Ends /\ Readers' = Readers /\ R' = R
    BY DEF Ends, Readers, R
  <2> QED BY <2>1 DEF LinksInv, LinksTypes, AsksAll, LinksRefreshed
<1>2. ASSUME NEW r \in Readers, rtoken'[r] = "on", AsksAll(r)
      PROVE  LinkedAt(r)'
  <2>0. rtoken[r] = "on" /\ web'[e] = vs /\ \A d \in Ends \ {e} : web'[d] = web[d]
    BY <1>2 DEF LinksRefreshed, LinksInv, LinksTypes
  <2>1. R[r].end \in Ends /\ r \in ClientsAt(R[r].end)
    BY <2>0, ClientInList DEF LinksInv
  <2>2. CASE R[r].end # e
    <3>1. r \notin S
      BY <2>2 DEF ClientsAt
    <3>2. pos'[r] = pos[r] /\ links'[r] = links[r] /\ cur'[r] = cur[r]
      BY <3>1 DEF LinksRefreshed
    <3>3. list'[R[r].end] = list[R[r].end] /\ web'[R[r].end] = web[R[r].end]
      BY <2>0, <2>1, <2>2 DEF LinksRefreshed
    <3>4. \A i \in 1 .. Len(list[R[r].end]) : Alike(list[R[r].end][i], list'[R[r].end][i])
      BY <3>3 DEF Alike
    <3> QED BY <1>2, <2>0, <3>2, <3>3, <3>4, LinkedAtSame
  <2>3. CASE R[r].end = e
    <3>1. InList(l, pos[r]) /\ LinkedBy(r, l, pos[r], links[r], cur[r], vs)
      BY <1>2, <2>1, <2>3
    <3>2. PICK k, p, ls, x : k = list'[e] /\ p = pos'[r] /\ ls = links'[r] /\ x = cur'[r]
      OBVIOUS
    <3>3. Len(k) = Len(l) /\ \A i \in 1 .. Len(l) : Alike(l[i], k[i])
      BY <3>2 DEF LinksRefreshed
    <3>4. InList(k, p) /\ LinkedBy(r, k, p, ls, x, vs)
      <4>1. CASE r \in S
        <5>1. p = Len(k) + 1 /\ ls = Refreshed(r, l).links
          BY <3>2, <3>3, <4>1 DEF LinksRefreshed
        <5>2. Refreshed(r, l) = Handling(r, l, pos[r],
                [links |-> links[r], cur |-> cur[r], fault |-> "none", quick |-> FALSE])
          BY <1>2 DEF Refreshed, AsksAll
        <5>3. Len(k) \in Nat
          BY <3>1, <3>3 DEF InList
        <5>4. LinkedBy(r, k, Len(k) + 1, ls, x, vs)
          BY <3>1, <5>1, <5>2, <5>3, LinkedByRefreshed
        <5> QED BY <5>1, <5>3, <5>4 DEF InList
      <4>2. CASE r \notin S
        <5>1. p = pos[r] /\ ls = links[r] /\ x = cur[r]
          BY <3>2, <4>2 DEF LinksRefreshed
        <5>2. LinkedBy(r, k, pos[r], links[r], cur[r], vs)
          BY <3>1, <3>3, LinkedByAlike
        <5> QED BY <3>1, <3>3, <5>1, <5>2 DEF InList
      <4> QED BY <4>1, <4>2
    <3>5. LinkedBy(r, k, p, ls, x, vs)'
      BY <3>4, LinkedByLater
    <3> QED BY <1>1, <2>0, <2>3, <3>2, <3>5 DEF LinkedAt
  <2> QED BY <2>2, <2>3
<1> QED BY <1>1, <1>2 DEF LinksInv

\* a change c is added at end e, after which the entries are in vs
LEMMA LinkedByAppended ==
  ASSUME LinksInv, NEW e \in Ends, NEW r \in ClientsAt(e), AsksAll(r), NEW c, NEW vs,
         c.kind \in {"new", "deleted"}, FitAt(r, vs) = FitAfter(r, c, FitAt(r, web[e]))
  PROVE  /\ InList(Append(list[e], c), pos[r])
         /\ LinkedBy(r, Append(list[e], c), pos[r], links[r], cur[r], vs)
<1>1. r \in Readers /\ rtoken[r] = "on" /\ R[r].end = e
  BY DEF ClientsAt
<1>2. InList(list[e], pos[r]) /\ LinkedBy(r, list[e], pos[r], links[r], cur[r], web[e])
  BY <1>1, ClientInList DEF LinksInv, LinkedAt
<1>3. PICK k : k = Append(list[e], c)
  OBVIOUS
<1>4. IsSeq(list[e])
  <2>1. CountsOf(e)
    BY DEF LinksInv, ListInv
  <2> QED BY <2>1 DEF CountsOf, Counted
<1>5. Len(k) = Len(list[e]) + 1 /\ k[Len(k)] = c /\ \A i \in 1 .. Len(list[e]) : k[i] = list[e][i]
  BY <1>3, <1>4, IsSeqAppend
<1>6. \A i \in 1 .. Len(list[e]) : Alike(list[e][i], k[i])
  BY <1>5 DEF Alike
<1>7. LinkedBy(r, k, pos[r], links[r], cur[r], vs)
  BY <1>2, <1>5, <1>6, LinkedByOneMore
<1>8. InList(k, pos[r])
  BY <1>2, <1>5 DEF InList
<1> QED BY <1>3, <1>7, <1>8

LEMMA LinksNewEntryConf ==
  ASSUME LinksInv, setting' = setting, NEW e \in Ends, NEW m, ~HasEntry(e, m.id),
         NewEntryConf(e, m)
  PROVE  LinksInv'
<1> DEFINE c == NewChange(e, m)
           l == Append(list[e], c)
           S == CalledAt(e, m)
           vs == <<m.w>> \o web[e]
<1>1. /\ UNCHANGED rtoken
      /\ list' = [list EXCEPT ![e] = MarkHandled(S, l)]
      /\ pos' = [r \in Readers |-> IF r \in S THEN Len(l) + 1 ELSE pos[r]]
      /\ links' = [r \in Readers |-> IF r \in S THEN Refreshed(r, l).links ELSE links[r]]
      /\ cur' = [r \in Readers |-> IF r \in S THEN Refreshed(r, l).cur ELSE cur[r]]
      /\ web' = [web EXCEPT ![e] = vs]
  BY Zenon DEF NewEntryConf, Refresh, RefreshThen, NewChange, CalledAt
<1>2. /\ ListInv' /\ S \subseteq ClientsAt(e)
      /\ Len(list'[e]) = Len(l) /\ \A i \in 1 .. Len(l) : Alike(l[i], list'[e][i])
  BY ListNewEntryConf DEF LinksInv
<1>3. IsSeq(web[e])
  BY DEF LinksInv, LinksTypes
<1>4. IsSeq(vs) /\ Range(vs) = {m.w} \cup Range(web[e])
  BY <1>3, IsSeqCons
<1>5. c.kind = "new" /\ c.w = m.w
  BY DEF NewChange
<1> HIDE DEF c, S, vs
<1>6. ASSUME NEW r \in ClientsAt(e), AsksAll(r)
      PROVE  InList(l, pos[r]) /\ LinkedBy(r, l, pos[r], links[r], cur[r], vs)
  <2>1. FitAt(r, vs) = FitAfter(r, c, FitAt(r, web[e]))
    BY <1>4, <1>5 DEF FitAt, FitAfter
  <2> QED BY <1>5, <1>6, <2>1, LinkedByAppended
<1> HIDE DEF l
<1>7. LinksRefreshed(e, S, l, vs)
  <2>1. \A d \in Ends \ {e} : list'[d] = list[d]
    BY <1>1 DEF LinksInv, ListInv, ListTypes
  <2>2. cur' = [r \in Readers |-> cur'[r]] /\ \A r \in Readers \ S : cur'[r] = cur[r]
    BY <1>1
  <2> QED BY <1>1, <1>2, <1>4, <2>1, <2>2 DEF LinksRefreshed
<1> QED BY <1>2, <1>6, <1>7, LinksRefresh

LEMMA LinksInvalidate ==
  ASSUME LinksInv, setting' = setting, NEW e \in Ends, NEW m, HasEntry(e, m.id),
         InvalidateEntryCmd(e, m)
  PROVE  LinksInv'
<1> DEFINE c == DeletedChange(e, m)
           l == Append(list[e], c)
           vs == Only(web[e], Range(web[e]) \ {c.w})
<1>1. ListInv' /\ list'[e] = l
  BY ListInvalidate DEF LinksInv
<1>2. c.kind = "deleted" /\ c.w = entries[e][m.id]
  BY DEF DeletedChange
<1>3. /\ UNCHANGED <<rtoken, pos, links, cur>> /\ list' = [list EXCEPT ![e] = l]
      /\ web' = [web EXCEPT ![e] = vs]
  BY <1>2, Zenon DEF InvalidateEntryCmd, readVars, DeletedChange
<1>4. IsSeq(vs) /\ Range(vs) = Range(web[e]) \ {c.w}
  <2>1. IsSeq(web[e])
    BY DEF LinksInv, LinksTypes
  <2> HIDE DEF c
  <2>2. IsSeq(vs) /\ Range(vs) = Range(web[e]) \cap (Range(web[e]) \ {c.w})
    BY <2>1, IsSeqOnly
  <2> HIDE DEF vs
  <2> QED BY <2>2
<1> HIDE DEF c, vs
<1>5. ASSUME NEW r \in ClientsAt(e), AsksAll(r)
      PROVE  InList(l, pos[r]) /\ LinkedBy(r, l, pos[r], links[r], cur[r], vs)
  <2>1. FitAt(r, vs) = FitAfter(r, c, FitAt(r, web[e]))
    BY <1>2, <1>4 DEF FitAt, FitAfter
  <2> QED BY <1>2, <1>5, <2>1, LinkedByAppended
<1> HIDE DEF l
<1>6. LinksRefreshed(e, {}, l, vs)
  <2>1. \A d \in Ends \ {e} : list'[d] = list[d]
    BY <1>3 DEF LinksInv, ListInv, ListTypes
  <2>2. pos' = [r \in Readers |-> IF r \in {} THEN Len(l) + 1 ELSE pos[r]]
    BY <1>3 DEF LinksInv, ListInv, ListTypes
  <2>3. links' = [r \in Readers |-> IF r \in {} THEN Refreshed(r, l).links ELSE links[r]]
    BY <1>3 DEF LinksInv, LinksTypes
  <2>4. cur' = [r \in Readers |-> cur'[r]] /\ \A r \in Readers \ {} : cur'[r] = cur[r]
    BY <1>3 DEF LinksInv, LinksTypes
  <2>5. Len(list'[e]) = Len(l) /\ \A i \in 1 .. Len(l) : Alike(l[i], list'[e][i])
    BY <1>1 DEF Alike
  <2> QED BY <1>3, <1>4, <2>1, <2>2, <2>3, <2>4, <2>5 DEF LinksRefreshed
<1> QED BY <1>1, <1>5, <1>6, LinksRefresh

\* a client refreshes on the list of its end
LEMMA LinksUse ==
  ASSUME LinksInv, setting' = setting, NEW r \in Readers, NEW Then(_), rtoken[r] = "on",
         RefreshThen(R[r].end, {r}, list[R[r].end], Then), UNCHANGED <<rtoken, front, web>>
  PROVE  LinksInv'
<1>1. PICK e : e = R[r].end
  OBVIOUS
<1>2. {r} \subseteq ClientsAt(e) /\ e \in Ends
  BY <1>1, ClientInList DEF LinksInv
<1>3. /\ list' = [list EXCEPT ![e] = MarkHandled({r}, list[e])]
      /\ pos' = [x \in Readers |-> IF x \in {r} THEN Len(list[e]) + 1 ELSE pos[x]]
      /\ links' = [x \in Readers |-> IF x \in {r} THEN Refreshed(x, list[e]).links ELSE links[x]]
      /\ cur' = [x \in Readers |-> IF x \in {r} THEN Then(Refreshed(x, list[e])) ELSE cur[x]]
  BY <1>1, Zenon DEF RefreshThen
<1>4. /\ ListInv' /\ Len(list'[e]) = Len(list[e])
      /\ \A i \in 1 .. Len(list[e]) : Alike(list[e][i], list'[e][i])
  BY <1>2, <1>3, RefreshClients DEF LinksInv
<1>5. cur' = [x \in Readers |-> cur'[x]] /\ \A x \in Readers \ {r} : cur'[x] = cur[x]
  BY <1>3
<1>6. LinksRefreshed(e, {r}, list[e], web[e])
  <2>1. \A d \in Ends \ {e} : list'[d] = list[d]
    BY <1>3 DEF LinksInv, ListInv, ListTypes
  <2>2. web' = [web EXCEPT ![e] = web[e]] /\ IsSeq(web[e])
    BY <1>2 DEF LinksInv, LinksTypes
  <2> QED BY <1>3, <1>4, <1>5, <2>1, <2>2 DEF LinksRefreshed
<1>7. ASSUME NEW x \in ClientsAt(e), AsksAll(x)
      PROVE  InList(list[e], pos[x]) /\ LinkedBy(x, list[e], pos[x], links[x], cur[x], web[e])
  <2>1. x \in Readers /\ rtoken[x] = "on" /\ R[x].end = e
    BY DEF ClientsAt
  <2> QED BY <1>7, <2>1, ClientInList DEF LinksInv, LinkedAt
<1> QED BY <1>2, <1>4, <1>6, <1>7, LinksRefresh

LEMMA LinksUpdate ==
  ASSUME LinksInv, setting' = setting, NEW e \in Ends, NEW m, UpdateConfiguration(e, m)
  PROVE  LinksInv'
<1>1. CASE NewEntryConf(e, m) /\ ~HasEntry(e, m.id)
  BY <1>1, LinksNewEntryConf
<1>2. CASE InvalidateEntryCmd(e, m) /\ HasEntry(e, m.id)
  BY <1>2, LinksInvalidate
<1>3. CASE CleanEntryCmd(e, m)
  <2>1. UNCHANGED <<rtoken, pos, links, cur, list, web>>
    BY <1>3, Zenon DEF CleanEntryCmd, NoSuchEntry, readVars, endVars
  <2>2. ListInv'
    BY ListUpdate DEF LinksInv
  <2>3. LinksTypes' /\ Readers' = Readers /\ \A r : AsksAll(r)' = AsksAll(r)
    BY <2>1 DEF LinksInv, LinksTypes, Ends, Readers, R, AsksAll
  <2>4. ASSUME NEW r \in Readers, rtoken'[r] = "on", AsksAll(r)
        PROVE  LinkedAt(r)'
    <3>1. \A i \in 1 .. Len(list[R[r].end]) : Alike(list[R[r].end][i], list'[R[r].end][i])
      BY <2>1 DEF Alike
    <3> QED BY <2>1, <2>2, <2>4, <3>1, LinkedAtSame
  <2> QED BY <2>2, <2>3, <2>4 DEF LinksInv
<1>4. CASE UNCHANGED <<rtoken, pos, links, cur, list, front, web>>
  BY <1>4, LinksFrame
<1>5. \/ NewEntryConf(e, m) /\ ~HasEntry(e, m.id)
      \/ InvalidateEntryCmd(e, m) /\ HasEntry(e, m.id)
      \/ CleanEntryCmd(e, m)
      \/ UNCHANGED <<rtoken, pos, links, cur, list, front, web>>
  <2>1. CASE NewEntryConf(e, m)
    BY <2>1 DEF NewEntryConf, readVars, endVars
  <2>2. CASE InvalidateEntryCmd(e, m)
    BY <2>2 DEF InvalidateEntryCmd, NoSuchEntry, readVars, endVars
  <2>3. CASE DeleteEntryCmd(e, m)
    BY <2>3 DEF DeleteEntryCmd, NoSuchEntry, readVars, endVars
  <2>4. CASE RemoveSaveupCmd(e, m)
    BY <2>4 DEF RemoveSaveupCmd, NoSuchEntry, readVars, endVars
  <2>5. CASE UNCHANGED <<readVars, endVars>>
    BY <2>5 DEF readVars, endVars
  <2> QED BY <2>1, <2>2, <2>3, <2>4, <2>5 DEF UpdateConfiguration
<1> QED BY <1>1, <1>2, <1>3, <1>4, <1>5

LEMMA LinksNext ==
  ASSUME LinksInv, Next
  PROVE  LinksInv'
<1>0. setting' = setting
  BY DEF Next
<1>1. ASSUME NEW w \in Writers, WriterStep(w) PROVE LinksInv'
  <2>1. UNCHANGED <<rtoken, pos, links, cur, list, front, web>>
    BY <1>1 DEF WriterStep, AddWriteToken, RemoveWriteToken, readVars, endVars
  <2> QED BY <1>0, <2>1, LinksFrame
<1>2. ASSUME NEW r \in Readers, ReaderStep(r) PROVE LinksInv'
  <2>1. CASE AddReadToken(r)
    BY <1>0, <2>1, LinksJoin
  <2>2. CASE RemoveReadToken(r)
    BY <1>0, <2>2, LinksLeave
  <2>3. CASE RefreshClientHandle(r)
    <3>1. /\ rtoken[r] = "on" /\ UNCHANGED <<rtoken, front, web>>
          /\ RefreshThen(R[r].end, {r}, list[R[r].end], LAMBDA s : s.cur)
      BY <2>3, Zenon DEF RefreshClientHandle, Refresh
    <3> QED BY <1>0, <3>1, LinksUse
  <2>4. CASE SelectFirstEntry(r)
    BY <1>0, <2>4, LinksUse DEF SelectFirstEntry, SelectEntry
  <2>5. CASE GetNextEntry(r)
    BY <1>0, <2>5, LinksUse DEF GetNextEntry, SelectEntry
  <2>6. CASE GetReadAccess(r) \/ ReleaseReadAccess(r)
    <3>1. UNCHANGED <<rtoken, pos, links, cur, list, front, web>>
      BY <2>6 DEF GetReadAccess, ReleaseReadAccess, endVars
    <3> QED BY <1>0, <3>1, LinksFrame
  <2> QED BY <1>2, <2>1, <2>2, <2>3, <2>4, <2>5, <2>6 DEF ReaderStep
<1>3. ASSUME NEW e \in Ends, EndStep(e) PROVE LinksInv'
  <2>1. CASE InstallService(e) \/ SendRequest(e)
    <3>1. UNCHANGED <<rtoken, pos, links, cur, list, front, web>>
      BY <2>1 DEF InstallService, SendRequest, readVars, endVars
    <3> QED BY <1>0, <3>1, LinksFrame
  <2>2. CASE ChangeThere(e)
    BY <1>0, <2>2, LinksUpdate DEF ChangeThere
  <2> QED BY <1>3, <2>1, <2>2 DEF EndStep
<1>4. CASE MasterStep
  <2>1. CASE Process \/ Sweep
    <3>1. UNCHANGED <<rtoken, pos, links, cur, list, front, web>>
      BY <2>1 DEF Process, Sweep, readVars, endVars
    <3> QED BY <1>0, <3>1, LinksFrame
  <2>2. CASE ChangeHere
    <3>1. Master \in Ends
      BY SettingFacts DEF LinksInv, ListInv, ListTypes
    <3> QED BY <1>0, <2>2, <3>1, LinksUpdate DEF ChangeHere
  <2> QED BY <1>4, <2>1, <2>2 DEF MasterStep
<1>5. CASE Stopped
  <2>1. UNCHANGED <<rtoken, pos, links, cur, list, front, web>>
    BY <1>5 DEF Stopped, vars, readVars, endVars
  <2> QED BY <1>0, <2>1, LinksFrame
<1> QED BY <1>1, <1>2, <1>3, <1>4, <1>5 DEF Next, Step

LEMMA LinksAlways == Spec => []LinksInv
<1>1. LinksInv /\ [Next]_<<vars, setting>> => LinksInv'
  <2> SUFFICES ASSUME LinksInv, [Next]_<<vars, setting>> PROVE LinksInv'
    OBVIOUS
  <2>1. CASE Next
    BY <2>1, LinksNext
  <2>2. CASE UNCHANGED <<vars, setting>>
    <3>1. UNCHANGED <<setting, rtoken, pos, links, cur, list, front, web>>
      BY <2>2 DEF vars, readVars, endVars
    <3> QED BY <3>1, LinksFrame
  <2> QED BY <2>1, <2>2
<1> QED BY <1>1, LinksInit, PTL DEF Spec

\* all clients ask for all entries: no label, no number, any time aspect
AllAskAll == \A r \in Readers : AsksAll(r)

LEMMA LinksInvRequested == LinksInv => (AllAskAll => LinksAsRequested)
<1> SUFFICES ASSUME LinksInv, AllAskAll, NEW r \in Readers, rtoken[r] = "on",
                    pos[r] = Len(list[R[r].end]) + 1
             PROVE  LET fit == {w \in Range(web[R[r].end]) : TimingCompatible(r, w)
                                  /\ ClassMatch(r, w) /\ R[r].label \in {"", W[w].label}}
                    IN  /\ Range(links[r]) \subseteq Range(web[R[r].end])
                        /\ R[r].want = "any" => Range(links[r]) = fit
  BY DEF LinksAsRequested
<1>1. PICK e : e = R[r].end
  OBVIOUS
<1>2. AsksAll(r) /\ LinkedBy(r, list[e], Len(list[e]) + 1, links[r], cur[r], web[e])
  BY <1>1 DEF LinksInv, LinkedAt, AllAskAll
<1>3. Len(list[e]) \in Nat
  BY <1>1, ClientInList DEF LinksInv, InList
<1>4. Range(links[r]) = FitAt(r, web[e])
  BY <1>2, <1>3, LinkedByAtEnd
<1> QED BY <1>1, <1>2, <1>4 DEF FitAt, AsksAll, TimingCompatible

\* A client that asks for all entries and has handled all changes is linked
\* to exactly the entries of its end whose class it accepts, however tokens
\* come and go, entries are made and removed, and clients with a callback are
\* refreshed in between (addReadToken(), refreshClientHandleInner()).
THEOREM AllLinked == Spec => [](AllAskAll => LinksAsRequested)
BY LinksAlways, LinksInvRequested, PTL

-----------------------------------------------------------------------------
(* The entry a client reads.                                               *)

\* no client is refreshed by the servicer
NoCallbacks == \A r \in Readers : ~R[r].callback

\* what a client holds at each moment of a use of its token
AccessOf(t, h, c) ==
  /\ t # "on" => h = "none"
  /\ h = "ready" => c # NoEntry
  /\ h \notin {"none", "ready"} => c = h

AccessInv ==
  /\ held = [r \in Readers |-> held[r]]
  /\ NoCallbacks => /\ \A r \in Readers : AccessOf(rtoken[r], held[r], cur[r])
                    /\ AccessKeepsEntry

LEMMA AccessInit == Init => AccessInv
BY DEF Init, AccessInv, AccessOf, AccessKeepsEntry

LEMMA AccessFrame ==
  ASSUME AccessInv, UNCHANGED <<setting, rtoken, held, cur>>, fault' \in {fault, "detach", "unknown", "front"}
  PROVE  AccessInv'
BY DEF AccessInv, NoCallbacks, Readers, R, AccessKeepsEntry

\* a step of client r only
LEMMA AccessOne ==
  ASSUME AccessInv, setting' = setting, NEW r \in Readers,
         \A x \in Readers \ {r} : rtoken'[x] = rtoken[x] /\ held'[x] = held[x] /\ cur'[x] = cur[x],
         held' = [x \in Readers |-> held'[x]],
         NoCallbacks => AccessOf(rtoken'[r], held'[r], cur'[r])
                        /\ fault' \notin {"access", "release"}
  PROVE  AccessInv'
<1>1. Readers' = Readers /\ (NoCallbacks' <=> NoCallbacks)
  BY DEF NoCallbacks, Readers, R
<1> QED BY <1>1 DEF AccessInv, AccessKeepsEntry

\* a refresh by client r, that held nothing
LEMMA AccessRefresh ==
  ASSUME LinksInv, AccessInv, setting' = setting, fault = "none", NEW r \in Readers, NEW Then(_),
         RefreshThen(R[r].end, {r}, list[R[r].end], Then), rtoken' = rtoken, rtoken[r] = "on",
         held' = [held EXCEPT ![r] = held'[r]],
         held'[r] = "none" \/ (held'[r] = "ready" /\ cur'[r] # NoEntry)
  PROVE  AccessInv'
<1>1. cur' = [x \in Readers |-> IF x \in {r} THEN Then(Refreshed(x, list[R[r].end])) ELSE cur[x]]
  BY Zenon DEF RefreshThen
<1>2. fault' = IF \E x \in {r} : Refreshed(x, list[R[r].end]).fault = "detach" THEN "detach" ELSE fault
  BY Zenon DEF RefreshThen
<1>3. fault' \in {"none", "detach"}
  BY <1>2
<1>4. \A x \in Readers \ {r} : rtoken'[x] = rtoken[x] /\ held'[x] = held[x] /\ cur'[x] = cur[x]
  BY <1>1 DEF AccessInv
<1>5. held' = [x \in Readers |-> held'[x]]
  BY DEF AccessInv
<1>6. AccessOf(rtoken'[r], held'[r], cur'[r])
  BY DEF AccessOf
<1> QED BY <1>3, <1>4, <1>5, <1>6, AccessOne

LEMMA AccessUpdate ==
  ASSUME LinksInv, AccessInv, setting' = setting, fault = "none", NEW e \in Ends, NEW m,
         UpdateConfiguration(e, m)
  PROVE  AccessInv'
<1>1. CASE NewEntryConf(e, m) /\ ~HasEntry(e, m.id)
  <2>1. PICK l : /\ UNCHANGED <<rtoken, held>>
                 /\ cur' = [r \in Readers |-> IF r \in CalledAt(e, m) THEN Refreshed(r, l).cur ELSE cur[r]]
                 /\ fault' = IF \E r \in CalledAt(e, m) : Refreshed(r, l).fault = "detach"
                             THEN "detach" ELSE fault
    BY <1>1, Zenon DEF NewEntryConf, Refresh, RefreshThen, CalledAt
  <2>2. NoCallbacks => CalledAt(e, m) = {}
    BY DEF NoCallbacks, CalledAt, ClientsAt
  <2>3. NoCallbacks => cur' = cur /\ fault' = fault
    BY <2>1, <2>2 DEF LinksInv, LinksTypes
  <2>4. Readers' = Readers /\ (NoCallbacks' <=> NoCallbacks)
    BY DEF NoCallbacks, Readers, R
  <2> QED BY <2>1, <2>3, <2>4 DEF AccessInv, AccessKeepsEntry
<1>2. CASE NewEntryConf(e, m) /\ HasEntry(e, m.id)
  <2>1. UNCHANGED <<rtoken, held, cur, fault>>
    BY <1>2 DEF NewEntryConf, readVars
  <2> QED BY <2>1, AccessFrame
<1>3. CASE InvalidateEntryCmd(e, m) \/ CleanEntryCmd(e, m)
  <2>1. UNCHANGED <<rtoken, held, cur>> /\ fault' \in {fault, "unknown"}
    BY <1>3, Zenon DEF InvalidateEntryCmd, CleanEntryCmd, NoSuchEntry, readVars
  <2> QED BY <2>1, AccessFrame
<1>4. CASE DeleteEntryCmd(e, m) \/ RemoveSaveupCmd(e, m)
  <2>1. UNCHANGED <<rtoken, held, cur>> /\ fault' \in {fault, "unknown"}
    BY <1>4, Zenon DEF DeleteEntryCmd, RemoveSaveupCmd, NoSuchEntry, readVars
  <2> QED BY <2>1, AccessFrame
<1>5. CASE UNCHANGED <<readVars, fault>>
  <2>1. UNCHANGED <<rtoken, held, cur, fault>>
    BY <1>5 DEF readVars
  <2> QED BY <2>1, AccessFrame
<1> QED BY <1>1, <1>2, <1>3, <1>4, <1>5 DEF UpdateConfiguration

LEMMA AccessNext ==
  ASSUME LinksInv, AccessInv, Next
  PROVE  AccessInv'
<1>0. setting' = setting
  BY DEF Next
<1>1. ASSUME NEW w \in Writers, WriterStep(w) PROVE AccessInv'
  <2>1. UNCHANGED <<rtoken, held, cur, fault>>
    BY <1>1 DEF WriterStep, AddWriteToken, RemoveWriteToken, readVars
  <2> QED BY <1>0, <2>1, AccessFrame
<1>2. ASSUME NEW r \in Readers, ReaderStep(r), fault = "none" PROVE AccessInv'
  <2>0. /\ held = [x \in Readers |-> held[x]] /\ cur = [x \in Readers |-> cur[x]]
        /\ rtoken \in [Readers -> {"new", "on", "removed"}]
        /\ NoCallbacks => AccessOf(rtoken[r], held[r], cur[r])
    BY DEF AccessInv, LinksInv, LinksTypes, ListInv, ListTypes
  <2>1. CASE AddReadToken(r) \/ RemoveReadToken(r)
    <3>1. PICK t, x : /\ rtoken' = [rtoken EXCEPT ![r] = t] /\ cur' = [cur EXCEPT ![r] = x]
                      /\ held' = held /\ fault' \in {fault, "detach"}
                      /\ rtoken[r] # "on" \/ held[r] = "none"
      <4>1. CASE AddReadToken(r)
        BY <4>1, Zenon DEF AddReadToken
      <4>2. CASE RemoveReadToken(r)
        BY <4>2, Zenon DEF RemoveReadToken
      <4> QED BY <2>1, <4>1, <4>2
    <3>2. NoCallbacks => held'[r] = "none"
      BY <2>0, <3>1 DEF AccessOf
    <3>3. NoCallbacks => AccessOf(rtoken'[r], held'[r], cur'[r])
      BY <3>2 DEF AccessOf
    <3> QED BY <1>0, <1>2, <2>0, <3>1, <3>3, AccessOne
  <2>2. CASE RefreshClientHandle(r)
    <3>1. /\ rtoken[r] = "on" /\ UNCHANGED rtoken
          /\ RefreshThen(R[r].end, {r}, list[R[r].end], LAMBDA s : s.cur)
          /\ held' = [held EXCEPT ![r] = IF cur'[r] # NoEntry THEN "ready" ELSE "none"]
      BY <2>2, Zenon DEF RefreshClientHandle, Refresh
    <3>2. held'[r] = IF cur'[r] # NoEntry THEN "ready" ELSE "none"
      BY <2>0, <3>1
    <3>3. held' = [held EXCEPT ![r] = held'[r]]
      BY <3>1, <3>2
    <3> QED BY <1>0, <1>2, <3>1, <3>2, <3>3, AccessRefresh
  <2>3. CASE SelectFirstEntry(r) \/ GetNextEntry(r)
    <3>1. /\ rtoken[r] = "on" /\ held[r] = "none" /\ UNCHANGED <<rtoken, held>>
      BY <2>3 DEF SelectFirstEntry, GetNextEntry, SelectEntry
    <3>2. held' = [held EXCEPT ![r] = held'[r]] /\ held'[r] = "none"
      BY <2>0, <3>1
    <3>3. CASE SelectFirstEntry(r)
      BY <1>0, <1>2, <3>1, <3>2, <3>3, AccessRefresh DEF SelectFirstEntry, SelectEntry
    <3>4. CASE GetNextEntry(r)
      BY <1>0, <1>2, <3>1, <3>2, <3>4, AccessRefresh DEF GetNextEntry, SelectEntry
    <3> QED BY <2>3, <3>3, <3>4
  <2>4. CASE GetReadAccess(r)
    <3>1. /\ held[r] = "ready" /\ UNCHANGED <<rtoken, cur>>
          /\ held' = [held EXCEPT ![r] = IF cur[r] = NoEntry THEN "none" ELSE cur[r]]
          /\ fault' = IF cur[r] = NoEntry THEN "access" ELSE fault
      BY <2>4 DEF GetReadAccess
    <3>2. NoCallbacks => cur[r] # NoEntry /\ rtoken[r] = "on"
      BY <2>0, <3>1 DEF AccessOf
    <3>3. NoCallbacks => AccessOf(rtoken'[r], held'[r], cur'[r]) /\ fault' = "none"
      BY <1>2, <2>0, <3>1, <3>2 DEF AccessOf
    <3>4. /\ held' = [x \in Readers |-> held'[x]]
          /\ \A x \in Readers \ {r} : rtoken'[x] = rtoken[x] /\ held'[x] = held[x] /\ cur'[x] = cur[x]
      BY <2>0, <3>1
    <3> QED BY <1>0, <3>3, <3>4, AccessOne
  <2>5. CASE ReleaseReadAccess(r)
    <3>1. /\ held[r] # "none" /\ UNCHANGED <<rtoken, cur>>
          /\ held' = [held EXCEPT ![r] = "none"]
          /\ fault' = IF held[r] \in Writers /\ cur[r] # held[r] THEN "release" ELSE fault
      BY <2>5 DEF ReleaseReadAccess
    <3>2. "ready" \notin Writers /\ "none" \notin Writers
      BY ConfigAssumption DEF Writers, W, LinksInv, ListInv, ListTypes
    <3>3. NoCallbacks => AccessOf(rtoken'[r], held'[r], cur'[r]) /\ fault' = "none"
      BY <1>2, <2>0, <3>1, <3>2 DEF AccessOf
    <3>4. /\ held' = [x \in Readers |-> held'[x]]
          /\ \A x \in Readers \ {r} : rtoken'[x] = rtoken[x] /\ held'[x] = held[x] /\ cur'[x] = cur[x]
      BY <2>0, <3>1
    <3> QED BY <1>0, <3>3, <3>4, AccessOne
  <2> QED BY <1>2, <2>1, <2>2, <2>3, <2>4, <2>5 DEF ReaderStep
<1>3. ASSUME NEW e \in Ends, EndStep(e), fault = "none" PROVE AccessInv'
  <2>1. CASE InstallService(e) \/ SendRequest(e)
    <3>1. UNCHANGED <<rtoken, held, cur, fault>>
      BY <2>1 DEF InstallService, SendRequest, readVars
    <3> QED BY <1>0, <3>1, AccessFrame
  <2>2. CASE ChangeThere(e)
    BY <1>0, <1>3, <2>2, AccessUpdate DEF ChangeThere
  <2> QED BY <1>3, <2>1, <2>2 DEF EndStep
<1>4. ASSUME MasterStep, fault = "none" PROVE AccessInv'
  <2>1. CASE Process \/ Sweep
    <3>1. UNCHANGED <<rtoken, held, cur>> /\ fault' \in {fault, "front"}
      BY <2>1, Zenon DEF Process, Sweep, readVars
    <3> QED BY <1>0, <3>1, AccessFrame
  <2>2. CASE ChangeHere
    <3>1. Master \in Ends
      BY SettingFacts DEF LinksInv, ListInv, ListTypes
    <3> QED BY <1>0, <1>4, <2>2, <3>1, AccessUpdate DEF ChangeHere
  <2> QED BY <1>4, <2>1, <2>2 DEF MasterStep
<1>5. CASE Stopped
  <2>1. UNCHANGED <<rtoken, held, cur, fault>>
    BY <1>5 DEF Stopped, vars, readVars
  <2> QED BY <1>0, <2>1, AccessFrame
<1> QED BY <1>1, <1>2, <1>3, <1>4, <1>5 DEF Next, Step

LEMMA AccessInvKeeps == AccessInv => (NoCallbacks => AccessKeepsEntry)
BY DEF AccessInv

\* Without clients that the servicer refreshes for a callback, the entry that
\* a client found when it refreshed its handle under the lock is still there
\* when it gets the data and when it releases them, both without the lock
\* (getReadAccess(), releaseReadAccess()), whatever is made and removed meanwhile.
THEOREM AccessKept == Spec => [](NoCallbacks => AccessKeepsEntry)
<1>1. LinksInv /\ AccessInv /\ [Next]_<<vars, setting>> => AccessInv'
  <2> SUFFICES ASSUME LinksInv, AccessInv, [Next]_<<vars, setting>> PROVE AccessInv'
    OBVIOUS
  <2>1. CASE Next
    BY <2>1, AccessNext
  <2>2. CASE UNCHANGED <<vars, setting>>
    <3>1. UNCHANGED <<setting, rtoken, held, cur, fault>>
      BY <2>2 DEF vars, readVars
    <3> QED BY <3>1, AccessFrame
  <2> QED BY <2>1, <2>2
<1> QED BY <1>1, LinksAlways, AccessInit, AccessInvKeeps, PTL DEF Spec
=============================================================================
