---------------------------- MODULE TriggerProofs ----------------------------
(***************************************************************************)
(* Theorems about the combination of triggers in Trigger, for spans and    *)
(* gaps of any size and any number of pulls.                               *)
(***************************************************************************)
EXTENDS Trigger, SequenceTheorems, WellFoundedInduction, TLAPS

\* The circumstances of the theorems: no regulator between the pullers and the
\* combination.
Unregulated == wiring.regulator = "none"

\* A puller leaves a gap, if at all, only up to a time the other has reached.
NoLead == "reached" \in wiring.calm \/ "gapless" \in wiring.calm

-----------------------------------------------------------------------------
(* The invariant.                                                          *)

T       == 0 .. MaxTick
Entries == [s : T, e : T, endtime : T]
Sent    == [s : T, e : T]

Times   == [s : Nat, e : Nat]

\* a repeat is a number of whole spans
Whole(x) == \E n \in Nat : x.endtime = x.e + n * (x.e - x.s)

\* a list of PullerData from time_head to time_tail
GoodList(l) ==
  /\ l \in Seq(Entries) /\ l # <<>>
  /\ \A k \in DOMAIN l : l[k].s <= l[k].e /\ l[k].e <= l[k].endtime /\ Whole(l[k])
  /\ \A j, k \in DOMAIN l : j < k => l[j].endtime <= l[k].s

\* the tick from u to u + 1 is in the list
Listed(l, u) == \E k \in DOMAIN l : l[k].s <= u /\ u < l[k].endtime

EndOf(l) == l[Len(l)].endtime

Types ==
  /\ wiring \in Wirings
  /\ given \in [Pullers -> T]
  /\ triggerq \in Seq([to : {"join"}, id : Pullers, ts : Sent])
  /\ \A k \in DOMAIN triggerq : triggerq[k].ts.s <= triggerq[k].ts.e
  /\ pc \in {"idle", "combine"} /\ now \in Sent
  /\ ts \in [s : Ticks, e : Ticks, p : Ticks \ {0}] /\ prev_end \in Ticks
  /\ new_ts \in wiring.changes \cup {<<>>} /\ changed \in BOOLEAN
  /\ previous_tick \in T
  /\ sent \in [Pullers -> SUBSET Sent] /\ regular = <<>> /\ out \in Seq(Sent)
  /\ timing = [i \in Pullers |-> timing[i]] /\ \A i \in Pullers : GoodList(timing[i])

\* What a list holds was triggered for, and what came out lies before
\* previous_tick.
OutInv ==
  /\ \A i \in Pullers, u \in T : Listed(timing[i], u) => Holds(sent[i], u)
  /\ Forward(out)
  /\ \A k \in DOMAIN out : out[k].e <= previous_tick
  /\ wiring.kind = "and" =>
       \A k \in DOMAIN out, u \in T, i \in Pullers :
         out[k].s <= u /\ u < out[k].e => Holds(sent[i], u)

\* The atoms of a puller follow each other, behind what its list holds.
QueueInv ==
  /\ \A j, k \in DOMAIN triggerq :
       j < k /\ triggerq[j].id = triggerq[k].id => triggerq[j].ts.e <= triggerq[k].ts.s
  /\ \A k \in DOMAIN triggerq :
       /\ EndOf(timing[triggerq[k].id]) <= triggerq[k].ts.s
       /\ triggerq[k].ts.e <= given[triggerq[k].id]
  /\ \A i \in Pullers : EndOf(timing[i]) <= given[i]

\* ConditionOr leaves nothing out: no atom starts beyond the ones before it.
OrInv ==
  /\ pc = "idle"
  /\ \A u \in T : u < previous_tick => Holds(Range(out), u)
  /\ \A i \in Pullers : \A x \in sent[i] : x.e <= previous_tick
  /\ \A k \in DOMAIN triggerq :
       \/ triggerq[k].ts.s <= previous_tick
       \/ \E j \in DOMAIN triggerq : j < k /\ triggerq[k].ts.s <= triggerq[j].ts.e
  /\ \A i \in Pullers :
       \/ given[i] <= previous_tick
       \/ \E j \in DOMAIN triggerq : given[i] <= triggerq[j].ts.e

\* An atom starts at the end of the puller's last one, or where the other
\* puller has been.
Follows ==
  /\ \A k \in DOMAIN triggerq :
       LET i == triggerq[k].id IN
       \/ triggerq[k].ts.s <= EndOf(timing[i])
       \/ triggerq[k].ts.s <= EndOf(timing[3 - i])
       \/ \E j \in DOMAIN triggerq :
            j < k /\ triggerq[j].id = i /\ triggerq[k].ts.s <= triggerq[j].ts.e
  /\ \A i \in Pullers :
       \/ given[i] <= EndOf(timing[i])
       \/ \E j \in DOMAIN triggerq :
            triggerq[j].id = i /\ given[i] <= triggerq[j].ts.e

\* the same for the entries of list l behind tick p, with the other puller at
\* `other`
NoLeap(l, other, p) ==
  \A k \in DOMAIN l :
    \/ l[k].s <= p
    \/ l[k].s <= other
    \/ k > 1 /\ l[k].s = l[k - 1].endtime

AndInv ==
  /\ Follows
  /\ \A i \in Pullers : NoLeap(timing[i], EndOf(timing[3 - i]), previous_tick)
  /\ \A i \in Pullers : previous_tick <= EndOf(timing[i])
  /\ \A i \in Pullers : \A x \in sent[i] : x.e <= EndOf(timing[i])
  /\ \A i \in Pullers, u \in T :
       previous_tick <= u /\ Holds(sent[i], u) => Listed(timing[i], u)
  /\ \A u \in T : u < previous_tick /\ (\A i \in Pullers : Holds(sent[i], u))
       => Holds(Range(out), u)
  /\ pc = "idle" => \E i \in Pullers : EndOf(timing[i]) <= previous_tick

-----------------------------------------------------------------------------
(* Sizes, largest and smallest.                                            *)

LEMMA SizeIs ==
  ASSUME NEW x, x.s \in T, x.e \in T, x.s <= x.e
  PROVE  Size(x) = x.e - x.s
<1>1. x.e - x.s \in 0 .. (TickMod - 1) /\ TickMod \in Nat \ {0}
  BY TriggerAssumption DEF T
<1> QED BY <1>1 DEF Size

LEMMA MaxIs ==
  ASSUME NEW S, NEW m \in S, S \subseteq Int, \A x \in S : x <= m
  PROVE  Max(S) = m
<1>1. \A x \in S : (\A y \in S : x >= y) => x = m
  OBVIOUS
<1>2. m \in S /\ \A y \in S : m >= y
  OBVIOUS
<1> QED BY <1>1, <1>2, Zenon DEF Max

LEMMA MinIs ==
  ASSUME NEW S, NEW m \in S, S \subseteq Int, \A x \in S : m <= x
  PROVE  Min(S) = m
<1>1. \A x \in S : (\A y \in S : x <= y) => x = m
  OBVIOUS
<1>2. m \in S /\ \A y \in S : m <= y
  OBVIOUS
<1> QED BY <1>1, <1>2, Zenon DEF Min

LEMMA LessThan ==
  \E R : IsWellFoundedOn(R, Nat) /\ \A x, y \in Nat : x < y => <<x, y>> \in R
<1>1. \A x, y \in Nat : x < y => <<x, y>> \in OpToRel(<, Nat)
  BY DEF OpToRel
<1> QED BY <1>1, NatLessThanWellFounded, Zenon

LEMMA Least ==
  ASSUME NEW S, S \subseteq Nat, S # {}
  PROVE  \E m \in S : \A x \in S : m <= x
<1>1. PICK R : IsWellFoundedOn(R, Nat) /\ \A x, y \in Nat : x < y => <<x, y>> \in R
  BY LessThan, Zenon
<1>2. PICK m \in S : \A y \in S : ~(<<y, m>> \in R)
  <2>1. IsWellFoundedOn(R, Nat)
    BY <1>1
  <2> QED BY <2>1, WFMin
<1>3. ASSUME NEW x \in S
      PROVE  m <= x
  <2>1. ~(x < m)
    BY <1>1, <1>2
  <2> QED BY <2>1
<1> QED BY <1>3

\* moving a span by whole spans up to p, in a repeat that goes on beyond p
LEMMA WholeSteps ==
  ASSUME NEW s \in Nat, NEW d \in Nat \ {0}, NEW n \in Nat, NEW p \in Nat,
         s + d <= p, p < s + d + n * d
  PROVE  LET q == (p - s) \div d IN
         /\ q \in Nat
         /\ s + q * d <= p /\ p < s + d + q * d
         /\ q <= n
<1> DEFINE q == (p - s) \div d
<1>1. p - s \in Nat
  OBVIOUS
<1>2. q \in Nat /\ d * q <= p - s /\ p - s < d * q + d
  BY <1>1
<1> HIDE DEF q
<1>3. q * d = d * q /\ n * d = d * n
  BY <1>2
<1>4. ~(q > n)
  <2>1. SUFFICES ASSUME q >= n + 1 PROVE FALSE
    BY <1>2
  <2>2. d * q >= d * (n + 1)
    BY <1>2, <2>1
  <2>3. d * (n + 1) = d * n + d
    OBVIOUS
  <2> QED BY <1>2, <1>3, <2>2, <2>3
<1> QED BY <1>2, <1>3, <1>4 DEF q

-----------------------------------------------------------------------------
(* newSpan().                                                              *)

LEMMA ListFacts ==
  ASSUME NEW l, GoodList(l)
  PROVE  /\ l \in Seq(Entries) /\ Len(l) \in Nat \ {0} /\ DOMAIN l = 1 .. Len(l)
         /\ Len(l) \in DOMAIN l /\ 1 \in DOMAIN l
         /\ Head(l) = l[1] /\ Last(l) = l[Len(l)]
         /\ \A k \in DOMAIN l : /\ l[k] \in Entries
                                /\ l[k].s \in T /\ l[k].e \in T /\ l[k].endtime \in T
                                /\ l[k].s <= l[k].e /\ l[k].e <= l[k].endtime
         /\ EndOf(l) \in T
         /\ \A k \in DOMAIN l : l[k].endtime <= EndOf(l)
<1>1. /\ l \in Seq(Entries) /\ Len(l) \in Nat \ {0} /\ DOMAIN l = 1 .. Len(l)
      /\ Len(l) \in DOMAIN l /\ 1 \in DOMAIN l
  BY DEF GoodList
<1>2. Head(l) = l[1] /\ Last(l) = l[Len(l)]
  BY <1>1 DEF Last
<1>3. \A k \in DOMAIN l : l[k] \in Entries
  BY <1>1
<1>4. \A k \in DOMAIN l : /\ l[k].s \in T /\ l[k].e \in T /\ l[k].endtime \in T
                          /\ l[k].s <= l[k].e /\ l[k].e <= l[k].endtime
  BY <1>3 DEF GoodList, Entries
<1>5. EndOf(l) \in T
  BY <1>1, <1>4 DEF EndOf
<1>6. ASSUME NEW k \in DOMAIN l
      PROVE  l[k].endtime <= EndOf(l)
  <2>1. CASE k = Len(l)
    BY <1>4, <2>1 DEF EndOf, T
  <2>2. CASE k # Len(l)
    <3>1. k < Len(l)
      BY <1>1, <2>2
    <3>2. l[k].endtime <= l[Len(l)].s
      BY <1>1, <3>1 DEF GoodList
    <3> QED BY <1>1, <1>4, <3>2, TriggerAssumption DEF EndOf, T
  <2> QED BY <2>1, <2>2
<1> QED BY <1>1, <1>2, <1>3, <1>4, <1>5, <1>6

\* the three outcomes of newSpan(): a repeat extended, an entry added, nothing
AsRepeat(l, t, x) ==
  /\ t.s = EndOf(l) /\ t.e - t.s = l[Len(l)].e - l[Len(l)].s
  /\ Len(x) = Len(l)
  /\ \A k \in 1 .. Len(l) : k # Len(l) => x[k] = l[k]
  /\ x[Len(l)].s = l[Len(l)].s /\ x[Len(l)].e = l[Len(l)].e /\ x[Len(l)].endtime = t.e

AsEntry(l, t, x) ==
  /\ t.e > EndOf(l)
  /\ Len(x) = Len(l) + 1
  /\ \A k \in 1 .. Len(l) : x[k] = l[k]
  /\ x[Len(l) + 1].e = t.e /\ x[Len(l) + 1].endtime = t.e
  /\ x[Len(l) + 1].s = IF t.s >= EndOf(l) THEN t.s ELSE EndOf(l)

LEMMA ExtendedCases ==
  ASSUME NEW l, GoodList(l), NEW t \in Sent, t.s <= t.e
  PROVE  LET x == Extended(l, t) IN
         /\ x \in Seq(Entries)
         /\ \/ Repeats(Last(l), t) /\ AsRepeat(l, t, x)
            \/ ~Repeats(Last(l), t) /\ AsEntry(l, t, x)
            \/ ~Repeats(Last(l), t) /\ x = l /\ t.e <= EndOf(l)
<1> DEFINE x == Extended(l, t)
           n == Len(l)
<1>1. /\ l \in Seq(Entries) /\ n \in Nat \ {0} /\ DOMAIN l = 1 .. n /\ n \in DOMAIN l
      /\ Last(l) = l[n] /\ l[n] \in Entries /\ EndOf(l) = l[n].endtime
      /\ l[n].s \in T /\ l[n].e \in T /\ EndOf(l) \in T /\ l[n].s <= l[n].e
  BY ListFacts DEF EndOf
<1>2. t.s \in T /\ t.e \in T
  BY DEF Sent
<1>3. Size(t) = t.e - t.s /\ Size(l[n]) = l[n].e - l[n].s
  BY <1>1, <1>2, SizeIs
<1>4. CASE Repeats(Last(l), t)
  <2>1. x = [l EXCEPT ![n].endtime = t.e]
    BY <1>4 DEF Extended
  <2>2. x = [l EXCEPT ![n] = [l[n] EXCEPT !.endtime = t.e]]
    BY <2>1
  <2>3. [l[n] EXCEPT !.endtime = t.e] \in Entries
    BY <1>1, <1>2 DEF Entries
  <2>4. /\ x \in Seq(Entries) /\ Len(x) = n
        /\ \A k \in 1 .. n : k # n => x[k] = l[k]
        /\ x[n] = [l[n] EXCEPT !.endtime = t.e]
    BY <1>1, <2>2, <2>3
  <2>5. x[n].s = l[n].s /\ x[n].e = l[n].e /\ x[n].endtime = t.e
    BY <1>1, <2>4 DEF Entries
  <2>6. t.s = EndOf(l) /\ t.e - t.s = l[n].e - l[n].s
    BY <1>1, <1>3, <1>4 DEF Repeats
  <2> QED BY <1>4, <2>4, <2>5, <2>6 DEF AsRepeat
<1>5. CASE ~Repeats(Last(l), t) /\ t.e > EndOf(l)
  <2>1. PICK m \in T : m = IF t.s >= EndOf(l) THEN t.s ELSE EndOf(l)
    BY <1>1, <1>2
  <2>2. Max({t.s, EndOf(l)}) = m
    <3>1. m \in {t.s, EndOf(l)} /\ {t.s, EndOf(l)} \subseteq Int /\ \A y \in {t.s, EndOf(l)} : y <= m
      BY <1>1, <1>2, <2>1 DEF T
    <3> QED BY <3>1, MaxIs
  <2>3. x = Append(l, [s |-> m, e |-> t.e, endtime |-> t.e])
    BY <1>1, <1>5, <2>2 DEF Extended
  <2>4. [s |-> m, e |-> t.e, endtime |-> t.e] \in Entries
    BY <1>2, <2>1 DEF Entries
  <2>5. /\ x \in Seq(Entries) /\ Len(x) = n + 1
        /\ \A k \in 1 .. n : x[k] = l[k]
        /\ x[n + 1] = [s |-> m, e |-> t.e, endtime |-> t.e]
    BY <1>1, <2>3, <2>4
  <2> QED BY <1>5, <2>1, <2>5 DEF AsEntry
<1>6. CASE ~Repeats(Last(l), t) /\ ~(t.e > EndOf(l))
  <2>1. x = l
    BY <1>1, <1>6 DEF Extended
  <2> QED BY <1>1, <1>2, <1>6, <2>1 DEF T
<1> QED BY <1>4, <1>5, <1>6

LEMMA ExtendedGood ==
  ASSUME NEW l, GoodList(l), NEW t \in Sent, t.s <= t.e
  PROVE  LET x == Extended(l, t) IN
         /\ GoodList(x)
         /\ EndOf(x) \in {EndOf(l), t.e} /\ EndOf(l) <= EndOf(x) /\ t.e <= EndOf(x)
<1>n. PICK n \in Nat \ {0} : n = Len(l)
  BY ListFacts
<1>0. PICK x : x = Extended(l, t)
  OBVIOUS
<1>1. /\ DOMAIN l = 1 .. n /\ n \in 1 .. n
      /\ EndOf(l) \in Nat /\ EndOf(l) = l[n].endtime
      /\ \A k \in 1 .. n : /\ l[k].s \in Nat /\ l[k].e \in Nat /\ l[k].endtime \in Nat
                           /\ l[k].s <= l[k].e /\ l[k].e <= l[k].endtime
                           /\ l[k].endtime <= EndOf(l)
  BY <1>n, ListFacts DEF EndOf, T
<1>2. t.s \in Nat /\ t.e \in Nat
  BY DEF Sent, T
<1>3. x \in Seq(Entries)
  BY <1>0, ExtendedCases
<1>a. \A j, k \in 1 .. n : j < k => l[j].endtime <= l[k].s
  BY <1>1 DEF GoodList
<1>w. \A k \in 1 .. n : Whole(l[k])
  BY <1>1 DEF GoodList
<1>4. CASE AsRepeat(l, t, x)
  <2>1. /\ t.s = EndOf(l) /\ t.e - t.s = l[n].e - l[n].s
        /\ Len(x) = n /\ DOMAIN x = 1 .. n
        /\ \A k \in 1 .. n : k # n => x[k] = l[k]
        /\ x[n].s = l[n].s /\ x[n].e = l[n].e /\ x[n].endtime = t.e
    BY <1>n, <1>3, <1>4 DEF AsRepeat
  <2>2. EndOf(x) = t.e /\ EndOf(l) <= t.e
    BY <1>2, <2>1 DEF EndOf
  <2>3. ASSUME NEW k \in 1 .. n
        PROVE  x[k].s <= x[k].e /\ x[k].e <= x[k].endtime /\ Whole(x[k])
    <3>1. CASE k # n
      BY <1>1, <1>w, <2>1, <3>1
    <3>2. CASE k = n
      <4>1. PICK m \in Nat : l[n].endtime = l[n].e + m * (l[n].e - l[n].s)
        BY <1>1, <1>w DEF Whole
      <4>2. PICK d \in Nat : d = l[n].e - l[n].s
        BY <1>1, <1>2
      <4>3. t.e = l[n].endtime + d
        BY <1>1, <1>2, <2>1, <4>2
      <4>4. (m + 1) * d = m * d + d /\ m * d \in Nat
        BY <4>1, <4>2
      <4>5. t.e = l[n].e + (m + 1) * d
        <5>1. l[n].endtime = l[n].e + m * d
          BY <4>1, <4>2
        <5>2. PICK f \in Nat : f = m * d
          BY <4>4
        <5> QED BY <1>1, <4>3, <4>4, <5>1, <5>2
      <4>6. x[n].endtime = x[n].e + (m + 1) * (x[n].e - x[n].s) /\ m + 1 \in Nat
        BY <2>1, <4>1, <4>2, <4>5
      <4>7. l[n].e <= t.e
        BY <1>1, <1>2, <4>2, <4>3
      <4> QED BY <1>1, <2>1, <3>2, <4>6, <4>7 DEF Whole
    <3> QED BY <3>1, <3>2
  <2>4. ASSUME NEW j \in 1 .. n, NEW k \in 1 .. n, j < k
        PROVE  x[j].endtime <= x[k].s
    <3>1. j # n /\ x[j] = l[j] /\ x[k].s = l[k].s
      BY <1>1, <2>1, <2>4
    <3> QED BY <1>a, <2>4, <3>1
  <2>5. GoodList(x)
    BY <1>3, <2>1, <2>3, <2>4 DEF GoodList
  <2> QED BY <1>0, <1>2, <2>2, <2>5
<1>5. CASE AsEntry(l, t, x)
  <2>1. /\ t.e > EndOf(l)
        /\ Len(x) = n + 1 /\ DOMAIN x = 1 .. (n + 1)
        /\ \A k \in 1 .. n : x[k] = l[k]
        /\ x[n + 1].e = t.e /\ x[n + 1].endtime = t.e
        /\ x[n + 1].s = IF t.s >= EndOf(l) THEN t.s ELSE EndOf(l)
    BY <1>n, <1>3, <1>5 DEF AsEntry
  <2>2. EndOf(x) = t.e /\ x[n + 1].s >= EndOf(l) /\ x[n + 1].s <= t.e
    BY <1>1, <1>2, <2>1 DEF EndOf
  <2>3. ASSUME NEW k \in 1 .. (n + 1)
        PROVE  x[k].s <= x[k].e /\ x[k].e <= x[k].endtime /\ Whole(x[k])
    <3>1. CASE k \in 1 .. n
      BY <1>1, <1>w, <2>1, <3>1
    <3>2. CASE k = n + 1
      <4>1. PICK d \in Int : d = x[n + 1].e - x[n + 1].s
        BY <1>1, <1>2, <2>1
      <4>2. 0 * d = 0
        OBVIOUS
      <4>3. x[n + 1].endtime = x[n + 1].e + 0 * (x[n + 1].e - x[n + 1].s)
        BY <1>2, <2>1, <4>1, <4>2
      <4> QED BY <1>2, <2>1, <2>2, <3>2, <4>3 DEF Whole
    <3> QED BY <1>1, <3>1, <3>2
  <2>4. ASSUME NEW j \in 1 .. (n + 1), NEW k \in 1 .. (n + 1), j < k
        PROVE  x[j].endtime <= x[k].s
    <3>1. j \in 1 .. n /\ x[j] = l[j]
      BY <1>1, <2>1, <2>4
    <3>2. CASE k \in 1 .. n
      BY <1>a, <2>1, <2>4, <3>1, <3>2
    <3>3. CASE k = n + 1
      <4>1. x[k].s \in Nat
        BY <1>1, <1>2, <2>1, <3>3
      <4> QED BY <1>1, <1>2, <2>2, <3>1, <3>3, <4>1
    <3> QED BY <1>1, <3>2, <3>3
  <2>5. GoodList(x)
    BY <1>3, <2>1, <2>3, <2>4 DEF GoodList
  <2> QED BY <1>0, <1>1, <1>2, <2>1, <2>2, <2>5
<1>6. CASE x = l /\ t.e <= EndOf(l)
  BY <1>0, <1>1, <1>2, <1>6
<1> QED BY <1>0, <1>4, <1>5, <1>6, ExtendedCases

\* what newSpan() adds is the new span, or the part of it that is new
LEMMA ExtendedListed ==
  ASSUME NEW l, GoodList(l), NEW t \in Sent, t.s <= t.e, NEW u \in T
  PROVE  LET x == Extended(l, t) IN
         /\ Listed(x, u) => Listed(l, u) \/ (t.s <= u /\ u < t.e)
         /\ Listed(l, u) => Listed(x, u)
         /\ EndOf(l) <= t.s /\ t.s <= u /\ u < t.e => Listed(x, u)
<1>n. PICK n \in Nat \ {0} : n = Len(l)
  BY ListFacts
<1>0. PICK x : x = Extended(l, t)
  OBVIOUS
<1>1. /\ DOMAIN l = 1 .. n /\ n \in 1 .. n
      /\ EndOf(l) \in Nat /\ EndOf(l) = l[n].endtime
      /\ \A k \in 1 .. n : /\ l[k].s \in Nat /\ l[k].e \in Nat /\ l[k].endtime \in Nat
                           /\ l[k].s <= l[k].e /\ l[k].e <= l[k].endtime
  BY <1>n, ListFacts DEF EndOf, T
<1>2. t.s \in Nat /\ t.e \in Nat /\ u \in Nat
  BY DEF Sent, T
<1>3. x \in Seq(Entries)
  BY <1>0, ExtendedCases
<1>4. CASE AsRepeat(l, t, x)
  <2>1. /\ t.s = EndOf(l) /\ DOMAIN x = 1 .. n
        /\ \A k \in 1 .. n : k # n => x[k] = l[k]
        /\ x[n].s = l[n].s /\ x[n].endtime = t.e
    BY <1>n, <1>3, <1>4 DEF AsRepeat
  <2>2. Listed(x, u) => Listed(l, u) \/ (t.s <= u /\ u < t.e)
    <3>1. SUFFICES ASSUME NEW k \in 1 .. n, x[k].s <= u, u < x[k].endtime, ~(t.s <= u /\ u < t.e)
                   PROVE  Listed(l, u)
      BY <2>1 DEF Listed
    <3>2. CASE k = n
      BY <1>1, <1>2, <2>1, <3>1, <3>2 DEF Listed
    <3>3. CASE k # n
      BY <1>1, <2>1, <3>1, <3>3 DEF Listed
    <3> QED BY <3>2, <3>3
  <2>3. Listed(l, u) => Listed(x, u)
    <3>1. SUFFICES ASSUME NEW k \in 1 .. n, l[k].s <= u, u < l[k].endtime
                   PROVE  Listed(x, u)
      BY <1>1 DEF Listed
    <3>2. CASE k = n
      BY <1>1, <1>2, <2>1, <3>1, <3>2 DEF Listed
    <3>3. CASE k # n
      BY <1>1, <2>1, <3>1, <3>3 DEF Listed
    <3> QED BY <3>2, <3>3
  <2>4. t.s <= u /\ u < t.e => Listed(x, u)
    <3>1. t.s <= u => l[n].s <= u
      BY <1>1, <1>2, <2>1
    <3> QED BY <1>1, <2>1, <3>1 DEF Listed
  <2> QED BY <1>0, <2>2, <2>3, <2>4
<1>5. CASE AsEntry(l, t, x)
  <2>1. /\ t.e > EndOf(l)
        /\ DOMAIN x = 1 .. (n + 1) /\ n + 1 \in DOMAIN x
        /\ \A k \in 1 .. n : x[k] = l[k]
        /\ x[n + 1].endtime = t.e
        /\ x[n + 1].s = IF t.s >= EndOf(l) THEN t.s ELSE EndOf(l)
    BY <1>n, <1>3, <1>5 DEF AsEntry
  <2>2. Listed(x, u) => Listed(l, u) \/ (t.s <= u /\ u < t.e)
    <3>1. SUFFICES ASSUME NEW k \in 1 .. (n + 1), x[k].s <= u, u < x[k].endtime
                   PROVE  Listed(l, u) \/ (t.s <= u /\ u < t.e)
      BY <2>1 DEF Listed
    <3>2. CASE k = n + 1
      BY <1>1, <1>2, <2>1, <3>1, <3>2
    <3>3. CASE k \in 1 .. n
      BY <1>1, <2>1, <3>1, <3>3 DEF Listed
    <3> QED BY <1>1, <3>2, <3>3
  <2>3. Listed(l, u) => Listed(x, u)
    <3>1. SUFFICES ASSUME NEW k \in 1 .. n, l[k].s <= u, u < l[k].endtime
                   PROVE  Listed(x, u)
      BY <1>1 DEF Listed
    <3>2. k \in DOMAIN x /\ x[k] = l[k]
      BY <1>1, <2>1
    <3> QED BY <3>1, <3>2 DEF Listed
  <2>4. EndOf(l) <= t.s /\ t.s <= u /\ u < t.e => Listed(x, u)
    <3>1. EndOf(l) <= t.s => x[n + 1].s = t.s
      BY <1>1, <1>2, <2>1
    <3> QED BY <2>1, <3>1 DEF Listed
  <2> QED BY <1>0, <2>2, <2>3, <2>4
<1>6. CASE x = l /\ t.e <= EndOf(l)
  <2>1. EndOf(l) <= t.s /\ t.s <= u => ~(u < t.e)
    BY <1>1, <1>2, <1>6
  <2> QED BY <1>0, <1>6, <2>1
<1> QED BY <1>0, <1>4, <1>5, <1>6, ExtendedCases

-----------------------------------------------------------------------------
(* cleanUpTimingList().                                                    *)

\* x is list l from entry f on, with its first span moved up by whole spans when
\* that lies before previous_tick
AsCleaned(l, f, x) ==
  /\ f \in 1 .. Len(l) /\ Len(x) = Len(l) - f + 1
  /\ f = Len(l) \/ previous_tick < l[f].endtime
  /\ \A k \in 1 .. Len(l) : k < f => l[k].endtime <= previous_tick
  /\ \A k \in 1 .. Len(x) : k > 1 => x[k] = l[f + k - 1]
  /\ x[1].endtime = l[f].endtime /\ Whole(x[1])
  /\ \/ /\ previous_tick < l[f].endtime /\ l[f].e <= previous_tick
        /\ l[f].s <= x[1].s /\ x[1].s <= previous_tick
        /\ previous_tick < x[1].e /\ x[1].e <= x[1].endtime
     \/ /\ ~(previous_tick < l[f].endtime /\ l[f].e <= previous_tick)
        /\ x[1] = l[f]

LEMMA FirstKept ==
  ASSUME NEW l, GoodList(l), previous_tick \in T
  PROVE  LET f == Min({k \in DOMAIN l : k = Len(l) \/ l[k].endtime > previous_tick})
         IN  /\ f \in 1 .. Len(l)
             /\ f = Len(l) \/ previous_tick < l[f].endtime
             /\ \A k \in 1 .. Len(l) : k < f => l[k].endtime <= previous_tick
<1> DEFINE S == {k \in DOMAIN l : k = Len(l) \/ l[k].endtime > previous_tick}
<1>1. /\ Len(l) \in Nat \ {0} /\ DOMAIN l = 1 .. Len(l)
      /\ \A k \in 1 .. Len(l) : l[k].endtime \in Nat
      /\ previous_tick \in Nat
  BY ListFacts DEF T
<1>2. S \subseteq Nat /\ S # {} /\ S \subseteq Int
  BY <1>1
<1>3. PICK f \in S : \A x \in S : f <= x
  BY <1>2, Least
<1>4. Min(S) = f
  BY <1>2, <1>3, MinIs
<1>5. ASSUME NEW k \in 1 .. Len(l), k < f
      PROVE  l[k].endtime <= previous_tick
  <2>1. f \in Nat /\ k \in Nat
    BY <1>1, <1>2
  <2>2. ~(f <= k)
    BY <1>5, <2>1
  <2>3. k \notin S
    BY <1>3, <2>2, Zenon
  <2>4. ~(l[k].endtime > previous_tick)
    BY <1>1, <2>3
  <2> QED BY <1>1, <2>4
<1> QED BY <1>1, <1>3, <1>4, <1>5

LEMMA CleanedShape ==
  ASSUME NEW l, GoodList(l), previous_tick \in T
  PROVE  \E f : AsCleaned(l, f, CleanedUp(l)) /\ CleanedUp(l) \in Seq(Entries)
<1> DEFINE p == previous_tick
<1>n. PICK n \in Nat \ {0} : n = Len(l)
  BY ListFacts
<1>f. PICK f : f = Min({k \in DOMAIN l : k = Len(l) \/ l[k].endtime > previous_tick})
  OBVIOUS
<1>1. /\ f \in 1 .. n
      /\ f = n \/ p < l[f].endtime
      /\ \A k \in 1 .. n : k < f => l[k].endtime <= p
  BY <1>n, <1>f, FirstKept
<1>2. /\ l \in Seq(Entries) /\ DOMAIN l = 1 .. n /\ p \in Nat /\ p \in T
      /\ l[f] \in Entries /\ l[f].s \in T /\ l[f].e \in T /\ l[f].endtime \in T
      /\ l[f].s \in Nat /\ l[f].e \in Nat /\ l[f].endtime \in Nat
      /\ l[f].s <= l[f].e /\ l[f].e <= l[f].endtime
  BY <1>n, <1>1, ListFacts DEF T
<1>3. PICK kept : kept = SubSeq(l, f, n)
  OBVIOUS
<1>4. /\ kept \in Seq(Entries) /\ Len(kept) = n - f + 1 /\ DOMAIN kept = 1 .. (n - f + 1)
      /\ \A k \in 1 .. (n - f + 1) : kept[k] = l[f + k - 1]
  <2>1. f \in 1 .. Len(l) /\ Len(l) \in f .. Len(l)
    BY <1>n, <1>1
  <2>2. Len(kept) = n - f + 1 /\ \A k \in 1 .. (n - f + 1) : kept[k] = l[f + k - 1]
    BY <1>n, <1>1, <1>2, <1>3
  <2>3. kept \in Seq(Entries)
    BY <1>n, <1>2, <1>3, <2>1
  <2> QED BY <2>2, <2>3
<1>5. 1 \in 1 .. (n - f + 1) /\ kept[1] = l[f] /\ Head(kept) = l[f]
  <2>1. 1 \in 1 .. (n - f + 1) /\ f + 1 - 1 = f
    BY <1>1
  <2> QED BY <1>4, <2>1
<1>6. Whole(l[f])
  BY <1>1, <1>2 DEF GoodList
<1>7. Size(l[f]) = l[f].e - l[f].s
  BY <1>2, SizeIs
<1>8. CASE ~(p < l[f].endtime /\ l[f].e <= p)
  <2>1. CleanedUp(l) = kept
    BY <1>n, <1>f, <1>2, <1>3, <1>5, <1>8 DEF CleanedUp
  <2> QED BY <1>n, <1>1, <1>4, <1>5, <1>6, <1>8, <2>1 DEF AsCleaned
<1>9. CASE p < l[f].endtime /\ l[f].e <= p
  <2>s. PICK s \in Nat : s = l[f].s
    BY <1>2
  <2>d. PICK d \in Nat : d = l[f].e - l[f].s
    BY <1>2
  <2>1. d = l[f].e - l[f].s /\ s = l[f].s
    BY <2>s, <2>d
  <2>m. PICK m \in Nat : l[f].endtime = l[f].e + m * (l[f].e - l[f].s)
    BY <1>6 DEF Whole
  <2>2. l[f].endtime = s + d + m * d /\ l[f].e = s + d
    <3>1. l[f].endtime = l[f].e + m * d
      BY <2>1, <2>m
    <3>2. l[f].e = s + d
      BY <1>2, <2>1
    <3> QED BY <3>1, <3>2
  <2>3. d # 0
    <3>1. m * 0 = 0
      BY <2>1
    <3> QED BY <1>2, <1>9, <2>2, <3>1
  <2>4. PICK q : q = IF l[f].e = p THEN 1 ELSE (p - s) \div d
    OBVIOUS
  <2>5. q \in Nat /\ s + q * d <= p /\ p < s + d + q * d /\ q <= m
    <3>0. d \in Nat \ {0} /\ s + d <= p /\ p < s + d + m * d
      BY <1>2, <1>9, <2>2, <2>3
    <3>1. CASE l[f].e # p
      BY <1>2, <2>4, <3>0, <3>1, WholeSteps
    <3>2. CASE l[f].e = p
      <4>1. m # 0
        <5>1. 0 * d = 0
          OBVIOUS
        <5> QED BY <1>2, <1>9, <2>2, <3>2, <5>1
      <4>2. q = 1 /\ q * d = d
        BY <2>4, <3>2
      <4> QED BY <1>2, <2>2, <3>0, <3>2, <4>1, <4>2
    <3> QED BY <3>1, <3>2
  <2>6. PICK g \in Nat : g = q * d
    BY <2>5
  <2>7. PICK r \in Nat : r = m - q /\ (m * d) = g + r * d
    <3>1. PICK r \in Nat : r = m - q
      BY <2>5
    <3>2. m = q + r
      BY <2>5, <3>1
    <3>3. (q + r) * d = q * d + r * d
      BY <2>5, <3>1
    <3> QED BY <2>6, <3>1, <3>2, <3>3
  <2>8. /\ s + g \in Nat /\ s + d + g \in Nat
        /\ s + g <= p /\ p < s + d + g /\ s <= s + g
        /\ s + d + g <= l[f].endtime
        /\ l[f].endtime = (s + d + g) + r * ((s + d + g) - (s + g))
    <3>1. PICK h \in Nat : h = r * d
      BY <2>7
    <3>2. l[f].endtime = s + d + (g + h)
      BY <2>2, <2>7, <3>1
    <3>3. (s + d + g) - (s + g) = d
      BY <2>6
    <3> QED BY <1>2, <2>5, <2>6, <3>1, <3>2, <3>3
  <2>9. PICK h \in Entries : h = [l[f] EXCEPT !.s = s + g, !.e = s + d + g]
    <3>1. s + g \in T /\ s + d + g \in T
      <4>1. l[f].endtime <= MaxTick /\ p <= MaxTick /\ MaxTick \in Nat
        BY <1>2, TriggerAssumption DEF T
      <4>2. s + g <= p /\ s + d + g <= l[f].endtime /\ s + g \in Nat /\ s + d + g \in Nat
        BY <2>8
      <4> QED BY <1>2, <4>1, <4>2 DEF T
    <3> QED BY <1>2, <3>1 DEF Entries
  <2>10. h.s = s + g /\ h.e = s + d + g /\ h.endtime = l[f].endtime
    BY <1>2, <2>9 DEF Entries
  <2>11. CleanedUp(l) = [kept EXCEPT ![1] = h]
    <3>1. CleanedUp(l) = [kept EXCEPT ![1].s = @ + q * d, ![1].e = @ + q * d]
      BY <1>n, <1>f, <1>2, <1>3, <1>5, <1>7, <1>9, <2>1, <2>4 DEF CleanedUp
    <3>2. [kept EXCEPT ![1].s = @ + q * d, ![1].e = @ + q * d]
            = [kept EXCEPT ![1] = [kept[1] EXCEPT !.s = @ + q * d, !.e = @ + q * d]]
      BY <1>4, <1>5, <1>2 DEF Entries
    <3>3. [l[f] EXCEPT !.s = @ + q * d, !.e = @ + q * d] = h
      BY <1>2, <2>1, <2>2, <2>6, <2>9 DEF Entries
    <3> QED BY <1>5, <3>1, <3>2, <3>3
  <2>12. PICK x : x = CleanedUp(l)
    OBVIOUS
  <2>13. /\ x \in Seq(Entries) /\ Len(x) = n - f + 1 /\ x[1] = h
         /\ \A k \in 1 .. (n - f + 1) : k > 1 => x[k] = l[f + k - 1]
    BY <1>4, <1>5, <2>9, <2>11, <2>12
  <2>14. Whole(x[1])
    BY <2>7, <2>8, <2>10, <2>13 DEF Whole
  <2> QED BY <1>n, <1>1, <1>9, <2>1, <2>8, <2>10, <2>12, <2>13, <2>14 DEF AsCleaned
<1> QED BY <1>8, <1>9

LEMMA CleanedGood ==
  ASSUME NEW l, GoodList(l), previous_tick \in T
  PROVE  LET x == CleanedUp(l) IN
         /\ GoodList(x)
         /\ EndOf(x) = EndOf(l)
         /\ x[1].e <= previous_tick => EndOf(x) <= previous_tick
         /\ \A u \in T : Listed(x, u) => Listed(l, u)
         /\ \A u \in T : previous_tick <= u /\ Listed(l, u) => Listed(x, u)
         /\ \A o \in T : NoLeap(l, o, previous_tick) => NoLeap(x, o, previous_tick)
<1>p. PICK p \in Nat : p = previous_tick
  BY DEF T
<1>n. PICK n \in Nat \ {0} : n = Len(l)
  BY ListFacts
<1>x. PICK x : x = CleanedUp(l)
  OBVIOUS
<1>f. PICK f : AsCleaned(l, f, x) /\ x \in Seq(Entries)
  BY <1>x, CleanedShape
<1>m. PICK m \in Nat \ {0} : m = n - f + 1
  <2>1. f \in 1 .. n
    BY <1>n, <1>f DEF AsCleaned
  <2> QED BY <2>1
<1>1. /\ f \in 1 .. n /\ Len(x) = m /\ DOMAIN x = 1 .. m /\ 1 \in 1 .. m /\ m \in 1 .. m
      /\ \A k \in 1 .. m : f + k - 1 \in 1 .. n
  BY <1>n, <1>f, <1>m DEF AsCleaned
<1>2. /\ f = n \/ p < l[f].endtime
      /\ \A k \in 1 .. n : k < f => l[k].endtime <= p
      /\ \A k \in 1 .. m : k > 1 => x[k] = l[f + k - 1]
      /\ x[1].endtime = l[f].endtime /\ Whole(x[1])
  BY <1>n, <1>f, <1>m, <1>p DEF AsCleaned
<1>3. \/ /\ p < l[f].endtime /\ l[f].e <= p
         /\ l[f].s <= x[1].s /\ x[1].s <= p
         /\ p < x[1].e /\ x[1].e <= x[1].endtime
      \/ /\ ~(p < l[f].endtime /\ l[f].e <= p)
         /\ x[1] = l[f]
  BY <1>f, <1>p DEF AsCleaned
<1>4. /\ DOMAIN l = 1 .. n /\ EndOf(l) = l[n].endtime
      /\ \A k \in 1 .. n : /\ l[k].s \in Nat /\ l[k].e \in Nat /\ l[k].endtime \in Nat
                           /\ l[k].s <= l[k].e /\ l[k].e <= l[k].endtime
  BY <1>n, ListFacts DEF EndOf, T
<1>5. \A j, k \in 1 .. n : j < k => l[j].endtime <= l[k].s
  BY <1>4 DEF GoodList
<1>w. \A k \in 1 .. n : Whole(l[k])
  BY <1>4 DEF GoodList
<1>6. x[1] \in Entries /\ x[1].s \in Nat /\ x[1].e \in Nat /\ x[1].endtime \in Nat
  <2>1. x[1] \in Entries
    BY <1>f, <1>1
  <2> QED BY <2>1 DEF Entries, T
<1>7. /\ l[f].s \in Nat /\ l[f].e \in Nat /\ l[f].endtime \in Nat
      /\ l[f].s <= l[f].e /\ l[f].e <= l[f].endtime
  BY <1>1, <1>4
<1>8. /\ l[f].s <= x[1].s /\ x[1].s <= x[1].e /\ x[1].e <= x[1].endtime
      /\ x[1].s <= p \/ x[1] = l[f]
      /\ p < x[1].endtime => p < x[1].e
  BY <1>2, <1>3, <1>6, <1>7
<1>9. GoodList(x)
  <2>1. ASSUME NEW k \in 1 .. m
        PROVE  x[k].s <= x[k].e /\ x[k].e <= x[k].endtime /\ Whole(x[k])
    <3>1. CASE k = 1
      BY <1>2, <1>8, <3>1
    <3>2. CASE k # 1
      <4>1. f + k - 1 \in 1 .. n /\ x[k] = l[f + k - 1]
        BY <1>1, <1>2, <3>2
      <4> QED BY <1>4, <1>w, <4>1
    <3> QED BY <3>1, <3>2
  <2>2. ASSUME NEW j \in 1 .. m, NEW k \in 1 .. m, j < k
        PROVE  x[j].endtime <= x[k].s
    <3>1. /\ f + k - 1 \in 1 .. n /\ f + j - 1 \in 1 .. n /\ f + j - 1 < f + k - 1
          /\ x[k] = l[f + k - 1]
      BY <1>1, <1>2, <2>2
    <3>2. l[f + j - 1].endtime <= l[f + k - 1].s
      BY <1>5, <3>1
    <3>3. x[j].endtime = l[f + j - 1].endtime
      <4>1. CASE j = 1
        <5>1. f + j - 1 = f
          BY <1>1, <4>1
        <5> QED BY <1>2, <4>1, <5>1
      <4>2. CASE j # 1
        <5>1. x[j] = l[f + j - 1]
          BY <1>2, <4>2
        <5> QED BY <5>1
      <4> QED BY <4>1, <4>2
    <3> QED BY <3>1, <3>2, <3>3
  <2>3. x # <<>>
    BY <1>1
  <2> QED BY <1>f, <1>1, <2>1, <2>2, <2>3 DEF GoodList
<1>10. EndOf(x) = EndOf(l)
  <2>1. EndOf(x) = x[m].endtime
    BY <1>1 DEF EndOf
  <2>2. CASE m = 1
    <3>1. f = n
      BY <1>m, <1>1, <2>2
    <3> QED BY <1>2, <1>4, <2>1, <2>2, <3>1
  <2>3. CASE m # 1
    <3>1. f + m - 1 = n
      BY <1>m, <1>1
    <3>2. x[m] = l[f + m - 1]
      BY <1>1, <1>2, <2>3
    <3> QED BY <1>4, <2>1, <3>1, <3>2
  <2> QED BY <2>2, <2>3
<1>11. x[1].e <= p => EndOf(x) <= p
  <2>1. SUFFICES ASSUME x[1].e <= p PROVE EndOf(l) <= p
    BY <1>10
  <2>2. ~(p < x[1].endtime)
    BY <1>6, <1>8, <2>1
  <2>3. f = n
    BY <1>2, <1>6, <2>2
  <2> QED BY <1>2, <1>4, <1>6, <2>2, <2>3
<1>12. ASSUME NEW u \in T, Listed(x, u)
       PROVE  Listed(l, u)
  <2>1. PICK k \in 1 .. m : x[k].s <= u /\ u < x[k].endtime
    BY <1>1, <1>12 DEF Listed
  <2>2. CASE k = 1
    <3>1. l[f].s <= u /\ u < l[f].endtime
      <4>1. u \in Nat
        BY DEF T
      <4> QED BY <1>2, <1>6, <1>7, <1>8, <2>1, <2>2, <4>1
    <3> QED BY <1>1, <1>4, <3>1 DEF Listed
  <2>3. CASE k # 1
    <3>1. f + k - 1 \in 1 .. n /\ x[k] = l[f + k - 1]
      BY <1>1, <1>2, <2>3
    <3> QED BY <1>4, <2>1, <3>1 DEF Listed
  <2> QED BY <2>2, <2>3
<1>13. ASSUME NEW u \in T, p <= u, Listed(l, u)
       PROVE  Listed(x, u)
  <2>0. u \in Nat
    BY DEF T
  <2>1. PICK k \in 1 .. n : l[k].s <= u /\ u < l[k].endtime
    BY <1>4, <1>13 DEF Listed
  <2>2. ~(k < f)
    <3>1. ~(l[k].endtime <= p)
      BY <1>4, <1>13, <2>0, <2>1
    <3> QED BY <1>2, <3>1
  <2>3. CASE k = f
    <3>1. x[1].s <= u /\ u < x[1].endtime
      BY <1>2, <1>6, <1>8, <1>13, <2>0, <2>1, <2>3
    <3> QED BY <1>1, <3>1 DEF Listed
  <2>4. CASE k # f
    <3>1. PICK j \in 1 .. m : j = k - f + 1 /\ j > 1 /\ f + j - 1 = k
      BY <1>m, <1>1, <2>2, <2>4
    <3>2. x[j] = l[k]
      BY <1>2, <3>1
    <3> QED BY <1>1, <2>1, <3>2 DEF Listed
  <2> QED BY <2>3, <2>4
<1>14. ASSUME NEW o \in T, NoLeap(l, o, previous_tick)
       PROVE  NoLeap(x, o, previous_tick)
  <2>1. SUFFICES ASSUME NEW k \in 1 .. m, ~(x[k].s <= p), ~(x[k].s <= o)
                 PROVE  k > 1 /\ x[k].s = x[k - 1].endtime
    BY <1>1, <1>p DEF NoLeap
  <2>h. PICK h \in 1 .. n : h = f + k - 1
    BY <1>1
  <2>2. x[k] = l[h]
    <3>1. CASE k = 1
      <4>1. h = f
        BY <1>1, <2>h, <3>1
      <4> QED BY <1>8, <2>1, <3>1, <4>1
    <3>2. CASE k # 1
      BY <1>1, <1>2, <2>h, <3>2
    <3> QED BY <3>1, <3>2
  <2>3. h > 1 /\ l[h].s = l[h - 1].endtime
    <3>1. ~(l[h].s <= p) /\ ~(l[h].s <= o)
      BY <2>1, <2>2
    <3> QED BY <1>4, <1>p, <1>14, <3>1 DEF NoLeap
  <2>4. h - 1 \in 1 .. n /\ h - 1 = f + k - 2
    BY <1>1, <2>h, <2>3
  <2>5. k # 1
    <3>1. SUFFICES ASSUME k = 1 PROVE FALSE
      OBVIOUS
    <3>2. h - 1 < f
      BY <1>1, <2>4, <3>1
    <3>3. l[h - 1].endtime <= p
      BY <1>2, <2>4, <3>2
    <3> QED BY <2>1, <2>2, <2>3, <3>3
  <2>6. k - 1 \in 1 .. m /\ f + (k - 1) - 1 = h - 1 /\ k > 1
    BY <1>1, <2>4, <2>5
  <2>7. x[k - 1].endtime = l[h - 1].endtime
    <3>1. CASE k - 1 = 1
      <4>1. h - 1 = f
        BY <1>1, <2>6, <3>1
      <4> QED BY <1>2, <3>1, <4>1
    <3>2. CASE k - 1 # 1
      <4>1. k - 1 > 1
        BY <2>6, <3>2
      <4>2. x[k - 1] = l[f + (k - 1) - 1]
        BY <1>2, <2>6, <4>1
      <4> QED BY <2>6, <4>2
    <3> QED BY <3>1, <3>2
  <2> QED BY <2>2, <2>3, <2>6, <2>7
<1> QED BY <1>p, <1>x, <1>9, <1>10, <1>11, <1>12, <1>13, <1>14

-----------------------------------------------------------------------------
(* The steps, when there is no regulator.                                  *)

Atoms == [to : {"join"}, id : Pullers, ts : Sent]

\* the first atom is delivered
Taken(a) ==
  /\ triggerq # <<>> /\ a = triggerq[1]
  /\ Len(triggerq') = Len(triggerq) - 1
  /\ \A k \in 1 .. (Len(triggerq) - 1) : triggerq'[k] = triggerq[k + 1]

\* an atom is added
Added(a) ==
  /\ Len(triggerq') = Len(triggerq) + 1
  /\ \A k \in 1 .. Len(triggerq) : triggerq'[k] = triggerq[k]
  /\ triggerq'[Len(triggerq) + 1] = a

PullStep(i, a) ==
  /\ a.id = i /\ a.ts.s <= a.ts.e
  /\ given[i] <= a.ts.s
  /\ NoLead /\ given[i] # a.ts.s => \E x \in sent[3 - i] : a.ts.s <= x.e
  /\ given'[i] = a.ts.e /\ \A j \in Pullers \ {i} : given'[j] = given[j]
  /\ given' \in [Pullers -> T]
  /\ triggerq' \in Seq(Atoms) /\ Added(a)
  /\ UNCHANGED <<pc, now, regVars, joinVars>>

OrStep(a) ==
  /\ wiring.kind = "or" /\ pc = "idle"
  /\ a.ts.s <= a.ts.e
  /\ triggerq' \in Seq(Atoms) /\ Taken(a)
  /\ OrTrigger(a.ts)

AndStep(a) ==
  /\ wiring.kind = "and" /\ pc = "idle"
  /\ a.ts.s <= a.ts.e
  /\ triggerq' \in Seq(Atoms) /\ Taken(a)
  /\ AndTrigger(a.ts)

LEMMA SentFacts ==
  ASSUME Types, NEW i \in Pullers
  PROVE  /\ 3 - i \in Pullers /\ 3 - i # i /\ Pullers = {i, 3 - i} /\ 3 - (3 - i) = i
         /\ \A x \in sent[i] : x \in Sent /\ x.s \in Nat /\ x.e \in Nat
<1>1. 3 - i \in Pullers /\ 3 - i # i /\ Pullers = {i, 3 - i} /\ 3 - (3 - i) = i
  BY DEF Pullers
<1>2. \A x \in sent[i] : x \in Sent
  BY DEF Types
<1> QED BY <1>1, <1>2 DEF Sent, T

LEMMA QueueFacts ==
  ASSUME Types
  PROVE  /\ triggerq \in Seq(Atoms) /\ Len(triggerq) \in Nat
         /\ DOMAIN triggerq = 1 .. Len(triggerq)
         /\ \A k \in 1 .. Len(triggerq) :
              /\ triggerq[k] \in Atoms /\ triggerq[k].to = "join"
              /\ triggerq[k].id \in Pullers /\ triggerq[k].ts \in Sent
              /\ triggerq[k].ts.s \in Nat /\ triggerq[k].ts.e \in Nat
              /\ triggerq[k].ts.s <= triggerq[k].ts.e
<1>1. /\ triggerq \in Seq(Atoms) /\ Len(triggerq) \in Nat /\ DOMAIN triggerq = 1 .. Len(triggerq)
  BY DEF Types, Atoms
<1>2. \A k \in 1 .. Len(triggerq) : triggerq[k] \in Atoms /\ triggerq[k].ts.s <= triggerq[k].ts.e
  BY <1>1 DEF Types
<1>3. \A a \in Atoms : /\ a.to = "join" /\ a.id \in Pullers /\ a.ts \in Sent
                       /\ a.ts.s \in Nat /\ a.ts.e \in Nat
  BY DEF Atoms, Sent, T
<1> QED BY <1>1, <1>2, <1>3

LEMMA PullIs ==
  ASSUME Unregulated, Types, NEW i \in Pullers, NEW jump \in 0 .. MaxJump,
         NEW size \in wiring.spans[i], Pull(i, jump, size)
  PROVE  \E a \in Atoms : PullStep(i, a)
<1>1. wiring \in Wirings /\ wiring.regulator = "none"
  BY DEF Unregulated, Types
<1>2. size \in Nat /\ jump \in Nat /\ MaxTick \in Nat
  <2>1. wiring.spans \in [{1, 2} -> SUBSET Nat]
    BY <1>1, TriggerAssumption
  <2> QED BY <2>1, TriggerAssumption DEF Pullers
<1>3. PICK g \in Nat : g = given[i]
  BY DEF Types, T
<1>4. PICK s \in Nat : s = g + jump
  BY <1>2
<1>5. PICK e \in Nat : e = s + size
  BY <1>2
<1>6. /\ e <= MaxTick /\ given' = [given EXCEPT ![i] = e]
      /\ triggerq' = Append(triggerq, Atom("join", i, Span(s, e)))
      /\ UNCHANGED <<pc, now, regVars, joinVars>>
  BY <1>1, <1>3, <1>4, <1>5 DEF Pull
<1>7. s \in T /\ e \in T /\ s <= e /\ g <= s
  BY <1>2, <1>4, <1>5, <1>6 DEF T
<1>8. PICK a : a = Atom("join", i, Span(s, e))
  OBVIOUS
<1>9. a \in Atoms /\ a.id = i /\ a.ts.s = s /\ a.ts.e = e
  BY <1>7, <1>8 DEF Atom, Span, Atoms, Sent
<1>10. triggerq' \in Seq(Atoms) /\ Added(a)
  BY <1>6, <1>8, <1>9, QueueFacts DEF Added
<1>11. ASSUME NoLead, g # s
       PROVE  \E x \in sent[3 - i] : s <= x.e
  <2>1. jump > 0
    BY <1>2, <1>4, <1>11
  <2>2. /\ "reached" \in wiring.calm => \E x \in sent[3 - i] : x.e >= s
        /\ "gapless" \notin wiring.calm
    BY <1>3, <1>4, <2>1 DEF Pull
  <2>3. PICK x \in sent[3 - i] : x.e >= s
    BY <1>1, <1>11, <2>2 DEF NoLead
  <2>4. x.e \in Nat
    BY SentFacts
  <2> QED BY <2>3, <2>4
<1>12. /\ given'[i] = e /\ \A j \in Pullers \ {i} : given'[j] = given[j]
       /\ given' \in [Pullers -> T]
  BY <1>6, <1>7 DEF Types
<1> QED BY <1>3, <1>6, <1>7, <1>9, <1>10, <1>11, <1>12 DEF PullStep

LEMMA StepCases ==
  ASSUME Unregulated, Types, Next
  PROVE  /\ wiring' = wiring
         /\ \/ \E i \in Pullers : \E a \in Atoms : PullStep(i, a)
            \/ \E a \in Atoms : OrStep(a) \/ AndStep(a)
            \/ AndCombine
            \/ UNCHANGED vars
<1>1. wiring' = wiring /\ wiring \in Wirings /\ wiring.regulator = "none"
  BY DEF Next, Unregulated, Types
<1>2. ASSUME NEW i \in Pullers, NEW jump \in 0 .. MaxJump, NEW size \in wiring.spans[i],
             Pull(i, jump, size)
      PROVE  \E a \in Atoms : PullStep(i, a)
  BY <1>2, PullIs
<1>3. ASSUME NEW c \in wiring.changes, ChangePeriodAndOffset(c)
      PROVE  FALSE
  BY <1>1, <1>3 DEF ChangePeriodAndOffset
<1>4. ASSUME NEW t \in {Head(q).ts : q \in {triggerq} \ {<<>>}},
             RegulatorTrigger(t) \/ OrTrigger(t) \/ AndTrigger(t)
      PROVE  \E a \in Atoms : OrStep(a) \/ AndStep(a)
  <2>1. triggerq # <<>> /\ t = Head(triggerq).ts
    BY <1>4
  <2>2. 1 \in 1 .. Len(triggerq) /\ Head(triggerq) = triggerq[1]
    BY <2>1, QueueFacts
  <2>3. PICK a \in Atoms : a = triggerq[1]
    BY <2>2, QueueFacts
  <2>4. a.to = "join" /\ a.ts.s <= a.ts.e /\ t = a.ts
    BY <2>1, <2>2, <2>3, QueueFacts
  <2>5. ~RegulatorTrigger(t)
    BY <2>2, <2>3, <2>4 DEF RegulatorTrigger, Deliver
  <2>6. /\ Tail(triggerq) \in Seq(Atoms) /\ Len(Tail(triggerq)) = Len(triggerq) - 1
        /\ \A k \in 1 .. (Len(triggerq) - 1) : Tail(triggerq)[k] = triggerq[k + 1]
    BY <2>1, QueueFacts
  <2>7. triggerq' = Tail(triggerq) /\ pc = "idle"
    BY <1>4, <2>5 DEF OrTrigger, AndTrigger, Deliver
  <2>8. triggerq' \in Seq(Atoms) /\ Taken(a)
    BY <2>1, <2>3, <2>6, <2>7 DEF Taken
  <2> QED BY <1>4, <2>4, <2>5, <2>7, <2>8 DEF OrStep, AndStep, OrTrigger, AndTrigger
<1>5. ~RegulatorAdvance
  BY DEF RegulatorAdvance, Types
<1> QED BY <1>1, <1>2, <1>3, <1>4, <1>5 DEF Next, Stopped

\* one turn of the loop in ConditionAnd::trigger(), from a to b
Combined(a, b) ==
  /\ pc = "combine" /\ UNCHANGED <<given, triggerq, now, regVars, sent>>
  /\ timing' = [i \in Pullers |-> timing'[i]] /\ \A i \in Pullers : timing'[i] = CleanedUp(timing[i])
  /\ previous_tick <= a /\ \A i \in Pullers : timing'[i][1].s <= a
  /\ a = previous_tick \/ \E i \in Pullers : a = timing'[i][1].s
  /\ \A i \in Pullers : b <= timing'[i][1].e
  /\ \E i \in Pullers : b = timing'[i][1].e
  /\ \/ /\ a < b \/ (a = b /\ previous_tick < a)
        /\ out' = Append(out, Span(a, b)) /\ previous_tick' = b /\ pc' = pc
     \/ /\ b < a /\ previous_tick < a
        /\ previous_tick' = a /\ UNCHANGED <<out, pc>>
     \/ /\ b <= a /\ a = previous_tick
        /\ pc' = "idle" /\ UNCHANGED <<out, previous_tick>>

LEMMA CombineIs ==
  ASSUME Types, AndCombine
  PROVE  \E a, b \in T : Combined(a, b)
<1>1. /\ previous_tick \in T /\ \A i \in Pullers : GoodList(timing[i])
  BY DEF Types
<1>2. PICK c : c = [i \in Pullers |-> CleanedUp(timing[i])]
  OBVIOUS
<1>3. \A i \in Pullers : GoodList(c[i])
  BY <1>1, <1>2, CleanedGood
<1>4. \A i \in Pullers : Head(c[i]) = c[i][1] /\ c[i][1].s \in T /\ c[i][1].e \in T
  BY <1>3, ListFacts
<1>5. PICK p \in T, s1 \in T, s2 \in T :
        p = previous_tick /\ s1 = c[1][1].s /\ s2 = c[2][1].s
  BY <1>1, <1>4 DEF Pullers
<1>6. PICK e1 \in T, e2 \in T : e1 = c[1][1].e /\ e2 = c[2][1].e
  BY <1>4 DEF Pullers
<1>7. {previous_tick} \cup {Head(c[i]).s : i \in Pullers} = {p, s1, s2}
  BY <1>4, <1>5 DEF Pullers
<1>8. {Head(c[i]).e : i \in Pullers} = {e1, e2}
  BY <1>4, <1>6 DEF Pullers
<1>9. PICK a \in {p, s1, s2} : p <= a /\ s1 <= a /\ s2 <= a
  BY DEF T
<1>10. PICK b \in {e1, e2} : b <= e1 /\ b <= e2
  BY DEF T
<1>11. Max({p, s1, s2}) = a
  BY <1>9, MaxIs DEF T
<1>12. Min({e1, e2}) = b
  BY <1>10, MinIs DEF T
<1>13. a \in T /\ b \in T /\ a \in Nat /\ b \in Nat /\ p \in Nat
  BY DEF T
<1>14. /\ pc = "combine" /\ timing' = c /\ UNCHANGED <<given, triggerq, now, regVars, sent>>
       /\ \/ /\ b > a \/ (b = a /\ a > previous_tick)
             /\ out' = Append(out, Span(a, b)) /\ previous_tick' = b /\ UNCHANGED pc
          \/ /\ b < a /\ a > previous_tick
             /\ previous_tick' = a /\ UNCHANGED <<out, pc>>
          \/ /\ b <= a /\ a <= previous_tick
             /\ pc' = "idle" /\ UNCHANGED <<out, previous_tick>>
  <2>1. Max({previous_tick} \cup {Head(c[i]).s : i \in Pullers}) = a
    BY <1>7, <1>11
  <2>2. Min({Head(c[i]).e : i \in Pullers}) = b
    BY <1>8, <1>12
  <2> QED BY <1>2, <2>1, <2>2, Zenon DEF AndCombine
<1>15. /\ timing' = [i \in Pullers |-> timing'[i]] /\ \A i \in Pullers : timing'[i] = CleanedUp(timing[i])
  BY <1>2, <1>14
<1>16. /\ \A i \in Pullers : timing'[i][1].s <= a
       /\ a = p \/ \E i \in Pullers : a = timing'[i][1].s
  BY <1>5, <1>9, <1>14 DEF Pullers
<1>17. /\ \A i \in Pullers : b <= timing'[i][1].e
       /\ \E i \in Pullers : b = timing'[i][1].e
  BY <1>6, <1>10, <1>14 DEF Pullers
<1>18. \/ /\ a < b \/ (a = b /\ p < a)
          /\ out' = Append(out, Span(a, b)) /\ previous_tick' = b /\ pc' = pc
       \/ /\ b < a /\ p < a
          /\ previous_tick' = a /\ UNCHANGED <<out, pc>>
       \/ /\ b <= a /\ a = p
          /\ pc' = "idle" /\ UNCHANGED <<out, previous_tick>>
  <2>1. /\ b > a <=> a < b
        /\ a > previous_tick <=> p < a
        /\ a <= previous_tick <=> a = p
    BY <1>5, <1>9, <1>13
  <2> QED BY <1>14, <2>1
<1>19. Combined(a, b)
  BY <1>5, <1>9, <1>14, <1>15, <1>16, <1>17, <1>18 DEF Combined
<1> QED BY <1>13, <1>19

\* what an atom that is delivered does to sent
LEMMA SentGrows ==
  ASSUME Types, NEW a \in Atoms, OrStep(a) \/ AndStep(a)
  PROVE  /\ a.id \in Pullers /\ a.ts \in Sent /\ a.ts.s <= a.ts.e
         /\ a.ts.s \in T /\ a.ts.e \in T
         /\ sent' \in [Pullers -> SUBSET Sent]
         /\ sent'[a.id] = sent[a.id] \cup {a.ts}
         /\ \A j \in Pullers : j # a.id => sent'[j] = sent[j]
<1>1. a.id \in Pullers /\ a.ts \in Sent /\ a.ts.s <= a.ts.e
  BY DEF Atoms, OrStep, AndStep
<1>2. a.ts.s \in T /\ a.ts.e \in T
  BY <1>1 DEF Sent
<1>3. triggerq # <<>> /\ triggerq[1] = a
  BY DEF OrStep, AndStep, Taken
<1>4. Head(triggerq) = a
  BY <1>3, QueueFacts
<1>5. sent' = [sent EXCEPT ![a.id] = sent[a.id] \cup {a.ts}]
  BY <1>4 DEF OrStep, AndStep, OrTrigger, AndTrigger
<1> QED BY <1>1, <1>2, <1>5 DEF Types

\* the span ConditionOr passes on
OrPasses(a) ==
  \/ /\ previous_tick < a.ts.e /\ previous_tick' = a.ts.e
     /\ \E s \in T : /\ s = IF a.ts.s >= previous_tick THEN a.ts.s ELSE previous_tick
                     /\ out' = Append(out, Span(s, a.ts.e))
  \/ a.ts.e <= previous_tick /\ UNCHANGED <<out, previous_tick>>

LEMMA OrStepIs ==
  ASSUME Types, NEW a \in Atoms, OrStep(a)
  PROVE  OrPasses(a) /\ UNCHANGED <<given, pc, now, regVars, timing>>
<1>1. a.ts.s \in T /\ a.ts.e \in T /\ previous_tick \in T
  BY SentGrows DEF Types
<1>2. UNCHANGED <<given, pc, now, regVars, timing>>
  BY DEF OrStep, OrTrigger
<1>3. CASE previous_tick < a.ts.e
  <2>1. PICK s \in T : s = IF a.ts.s >= previous_tick THEN a.ts.s ELSE previous_tick
    BY <1>1
  <2>2. Max({a.ts.s, previous_tick}) = s
    <3>1. /\ s \in {a.ts.s, previous_tick} /\ {a.ts.s, previous_tick} \subseteq Int
          /\ \A y \in {a.ts.s, previous_tick} : y <= s
      BY <1>1, <2>1 DEF T
    <3> QED BY <3>1, MaxIs
  <2>3. out' = Append(out, Span(s, a.ts.e)) /\ previous_tick' = a.ts.e
    BY <1>3, <2>2 DEF OrStep, OrTrigger, OrSpan
  <2> QED BY <1>2, <1>3, <2>1, <2>3 DEF OrPasses
<1>4. CASE ~(previous_tick < a.ts.e)
  <2>1. UNCHANGED <<out, previous_tick>>
    BY <1>4 DEF OrStep, OrTrigger
  <2>2. a.ts.e <= previous_tick
    BY <1>1, <1>4 DEF T
  <2> QED BY <1>2, <2>1, <2>2 DEF OrPasses
<1> QED BY <1>3, <1>4

LEMMA AndStepIs ==
  ASSUME Types, NEW a \in Atoms, AndStep(a)
  PROVE  /\ timing' = [i \in Pullers |-> timing'[i]]
         /\ timing'[a.id] = Extended(timing[a.id], a.ts)
         /\ \A j \in Pullers : j # a.id => timing'[j] = timing[j]
         /\ pc' = IF Tips(timing[a.id], a.ts) THEN "combine" ELSE "idle"
         /\ now' = a.ts
         /\ UNCHANGED <<given, regVars, previous_tick, out>>
<1>1. triggerq # <<>> /\ triggerq[1] = a /\ a.id \in Pullers
  BY SentGrows DEF AndStep, Taken
<1>2. Head(triggerq) = a
  BY <1>1, QueueFacts
<1>3. timing' = [timing EXCEPT ![a.id] = Extended(timing[a.id], a.ts)]
  BY <1>2 DEF AndStep, AndTrigger
<1>4. /\ pc' = IF Tips(timing[a.id], a.ts) THEN "combine" ELSE "idle"
      /\ now' = a.ts /\ UNCHANGED <<given, regVars, previous_tick, out>>
  BY <1>2 DEF AndStep, AndTrigger
<1> QED BY <1>1, <1>3, <1>4 DEF Types

-----------------------------------------------------------------------------
(* Types.                                                                  *)

LEMMA InitTypes ==
  ASSUME Init
  PROVE  Types
<1>1. /\ wiring \in Wirings /\ TickMod \in Nat \ {0} /\ MaxTick \in Nat /\ MaxTick < TickMod
      /\ wiring.offset \in 0 .. (TickMod - 1) /\ wiring.period \in 1 .. (TickMod - 1)
  BY TriggerAssumption DEF Init
<1>2. T \subseteq Ticks /\ 0 \in T /\ 0 \in Ticks
  BY <1>1 DEF T, Ticks
<1>3. ts \in [s : Ticks, e : Ticks, p : Ticks \ {0}]
  <2>1. PICK e \in Ticks : e = (wiring.offset + wiring.period) % TickMod
    BY <1>1 DEF Ticks
  <2>2. ts = [s |-> wiring.offset, e |-> e, p |-> wiring.period]
    BY <2>1 DEF Init, Periodic
  <2> QED BY <1>1, <2>1, <2>2 DEF Ticks
<1>4. ASSUME NEW i \in Pullers
      PROVE  GoodList(timing[i])
  <2>1. PICK x \in Entries : x = [s |-> 0, e |-> 0, endtime |-> 0]
    BY <1>2 DEF Entries
  <2>2. timing[i] = << x >>
    BY <2>1 DEF Init
  <2>3. x.s = 0 /\ x.e = 0 /\ x.endtime = 0
    BY <2>1
  <2>4. Whole(x)
    <3>1. 0 = 0 + 0 * (0 - 0) /\ 0 \in Nat
      OBVIOUS
    <3> QED BY <2>3, <3>1 DEF Whole
  <2>5. << x >> \in Seq(Entries) /\ DOMAIN << x >> = {1} /\ << x >>[1] = x /\ << x >> # <<>>
    BY <2>1
  <2> QED BY <2>2, <2>3, <2>4, <2>5 DEF GoodList
<1>5. given \in [Pullers -> T] /\ timing = [i \in Pullers |-> timing[i]] /\ sent \in [Pullers -> SUBSET Sent]
  BY <1>2 DEF Init
<1>6. triggerq = <<>> /\ out = <<>> /\ regular = <<>> /\ previous_tick \in T
      /\ pc = "idle" /\ prev_end \in Ticks /\ new_ts = <<>> /\ changed = FALSE
  BY <1>2 DEF Init
<1>7. now \in Sent
  BY <1>2 DEF Init, Span, Sent
<1>8. /\ triggerq \in Seq([to : {"join"}, id : Pullers, ts : Sent]) /\ out \in Seq(Sent)
      /\ \A k \in DOMAIN triggerq : triggerq[k].ts.s <= triggerq[k].ts.e
  BY <1>6
<1>9. pc \in {"idle", "combine"} /\ new_ts \in wiring.changes \cup {<<>>} /\ changed \in BOOLEAN
  BY <1>6
<1> QED BY <1>1, <1>3, <1>4, <1>5, <1>6, <1>7, <1>8, <1>9 DEF Types

LEMMA NextTypes ==
  ASSUME Unregulated, Types, Next
  PROVE  Types'
<1>1. wiring' = wiring
  BY StepCases
<1>2. ASSUME NEW i \in Pullers, NEW a \in Atoms, PullStep(i, a)
      PROVE  Types'
  <2>1. \A k \in DOMAIN triggerq' : triggerq'[k].ts.s <= triggerq'[k].ts.e
    <3>1. /\ DOMAIN triggerq' = 1 .. (Len(triggerq) + 1) /\ Len(triggerq) \in Nat
          /\ triggerq'[Len(triggerq) + 1] = a /\ a.ts.s <= a.ts.e
          /\ \A k \in 1 .. Len(triggerq) : triggerq'[k] = triggerq[k]
      BY <1>2, QueueFacts DEF PullStep, Added
    <3> QED BY <3>1, QueueFacts
  <2>2. triggerq' \in Seq(Atoms) /\ given' \in [Pullers -> T]
    BY <1>2 DEF PullStep
  <2>3. UNCHANGED <<pc, now, regVars, joinVars>>
    BY <1>2 DEF PullStep
  <2> QED BY <1>1, <2>1, <2>2, <2>3 DEF Types, Atoms, regVars, joinVars
<1>3. ASSUME NEW a \in Atoms, OrStep(a) \/ AndStep(a)
      PROVE  /\ triggerq' \in Seq(Atoms)
             /\ \A k \in DOMAIN triggerq' : triggerq'[k].ts.s <= triggerq'[k].ts.e
  <2>1. triggerq' \in Seq(Atoms) /\ Taken(a)
    BY <1>3 DEF OrStep, AndStep
  <2>2. /\ DOMAIN triggerq' = 1 .. (Len(triggerq) - 1) /\ Len(triggerq) \in Nat
        /\ \A k \in 1 .. (Len(triggerq) - 1) :
             triggerq'[k] = triggerq[k + 1] /\ k + 1 \in 1 .. Len(triggerq)
    BY <2>1, QueueFacts DEF Taken
  <2> QED BY <2>1, <2>2, QueueFacts
<1>4. ASSUME NEW a \in Atoms, OrStep(a)
      PROVE  Types'
  <2>1. UNCHANGED <<given, pc, now, regVars, timing>> /\ OrPasses(a)
    BY <1>4, OrStepIs
  <2>2. a.ts.e \in T /\ out \in Seq(Sent) /\ previous_tick \in T
    BY <1>4, SentGrows DEF Types
  <2>3. out' \in Seq(Sent) /\ previous_tick' \in T
    <3>1. CASE a.ts.e <= previous_tick /\ UNCHANGED <<out, previous_tick>>
      BY <2>2, <3>1
    <3>2. ASSUME NEW s \in T, out' = Append(out, Span(s, a.ts.e)), previous_tick' = a.ts.e
          PROVE  out' \in Seq(Sent) /\ previous_tick' \in T
      <4>1. Span(s, a.ts.e) \in Sent
        BY <2>2 DEF Span, Sent
      <4> QED BY <2>2, <3>2, <4>1
    <3> QED BY <2>1, <3>1, <3>2 DEF OrPasses
  <2>4. sent' \in [Pullers -> SUBSET Sent]
    BY <1>4, SentGrows
  <2> QED BY <1>1, <1>3, <1>4, <2>1, <2>3, <2>4 DEF Types, Atoms, regVars
<1>5. ASSUME NEW a \in Atoms, AndStep(a)
      PROVE  Types'
  <2>1. /\ timing' = [i \in Pullers |-> timing'[i]]
        /\ timing'[a.id] = Extended(timing[a.id], a.ts)
        /\ \A j \in Pullers : j # a.id => timing'[j] = timing[j]
        /\ pc' \in {"idle", "combine"} /\ now' = a.ts
        /\ UNCHANGED <<given, regVars, previous_tick, out>>
    BY <1>5, AndStepIs
  <2>2. a.id \in Pullers /\ a.ts \in Sent /\ a.ts.s <= a.ts.e /\ sent' \in [Pullers -> SUBSET Sent]
    BY <1>5, SentGrows
  <2>3. \A j \in Pullers : GoodList(timing'[j])
    <3>1. GoodList(timing'[a.id])
      BY <2>1, <2>2, ExtendedGood DEF Types
    <3> QED BY <2>1, <3>1 DEF Types
  <2> QED BY <1>1, <1>3, <1>5, <2>1, <2>2, <2>3 DEF Types, Atoms, regVars
<1>6. CASE AndCombine
  <2>1. PICK a \in T, b \in T : Combined(a, b)
    BY <1>6, CombineIs
  <2>2. \A i \in Pullers : GoodList(timing'[i])
    BY <2>1, CleanedGood DEF Combined, Types
  <2>3. out' \in Seq(Sent) /\ previous_tick' \in T /\ pc' \in {"idle", "combine"}
    <3>1. Span(a, b) \in Sent
      BY DEF Span, Sent
    <3>2. out \in Seq(Sent) /\ previous_tick \in T /\ pc \in {"idle", "combine"}
      BY DEF Types
    <3>3. out' \in {out, Append(out, Span(a, b))} /\ previous_tick' \in {previous_tick, a, b}
      BY <2>1 DEF Combined
    <3>4. pc' \in {pc, "idle"}
      BY <2>1 DEF Combined
    <3> QED BY <3>1, <3>2, <3>3, <3>4
  <2>4. UNCHANGED <<given, triggerq, now, regVars, sent>> /\ timing' = [i \in Pullers |-> timing'[i]]
    BY <2>1 DEF Combined
  <2> QED BY <1>1, <2>2, <2>3, <2>4 DEF Types, regVars
<1>7. CASE UNCHANGED vars
  BY <1>1, <1>7 DEF vars, regVars, joinVars, Types
<1> QED BY <1>2, <1>4, <1>5, <1>6, <1>7, StepCases

-----------------------------------------------------------------------------
(* What comes out.                                                         *)

LEMMA SpanTimes == \A x \in Sent : x.s \in Nat /\ x.e \in Nat
BY DEF Sent, T

\* a span at the end of a list of spans
LEMMA AppendSpan ==
  ASSUME NEW o \in Seq(Times), NEW p \in Nat, NEW s \in Nat, NEW e \in Nat, p <= s, s <= e,
         Forward(o), \A k \in DOMAIN o : o[k].e <= p
  PROVE  LET x == Append(o, Span(s, e)) IN
         /\ Forward(x) /\ \A k \in DOMAIN x : x[k].e <= e
         /\ DOMAIN x = 1 .. (Len(o) + 1) /\ Len(o) \in Nat
         /\ \A k \in 1 .. Len(o) : x[k] = o[k]
         /\ x[Len(o) + 1] = Span(s, e)
         /\ Range(x) = Range(o) \cup {Span(s, e)}
<1>x. PICK x : x = Append(o, Span(s, e))
  OBVIOUS
<1>n. PICK n \in Nat : n = Len(o)
  OBVIOUS
<1>0. s \in Nat /\ e \in Nat /\ p \in Nat /\ Span(s, e) \in Times
      /\ Span(s, e).s = s /\ Span(s, e).e = e
  BY DEF Span, Times
<1>1. /\ DOMAIN x = 1 .. (n + 1) /\ Len(x) = n + 1 /\ DOMAIN o = 1 .. n
      /\ \A k \in 1 .. n : x[k] = o[k]
      /\ x[n + 1] = Span(s, e)
  BY <1>x, <1>n, <1>0
<1>2. \A k \in 1 .. n : o[k].s \in Nat /\ o[k].e \in Nat /\ o[k].s <= o[k].e /\ o[k].e <= p
  <2>1. \A k \in 1 .. n : o[k] \in Times
    BY <1>1
  <2>2. \A k \in 1 .. n : o[k].s <= o[k].e /\ o[k].e <= p
    BY <1>1 DEF Forward
  <2> QED BY <2>1, <2>2 DEF Times
<1>3. ASSUME NEW k \in 1 .. (n + 1)
      PROVE  x[k].s <= x[k].e /\ x[k].e <= e
  <2>1. CASE k = n + 1
    BY <1>0, <1>1, <2>1
  <2>2. CASE k \in 1 .. n
    BY <1>0, <1>1, <1>2, <2>2
  <2> QED BY <2>1, <2>2
<1>4. ASSUME NEW k \in 2 .. (n + 1)
      PROVE  x[k - 1].e <= x[k].s
  <2>1. k - 1 \in 1 .. n /\ x[k - 1] = o[k - 1]
    BY <1>1
  <2>2. CASE k = n + 1
    <3>1. o[k - 1].e <= p /\ o[k - 1].e \in Nat /\ x[k].s = s
      BY <1>0, <1>1, <1>2, <2>1, <2>2
    <3> QED BY <1>0, <2>1, <3>1
  <2>3. CASE k # n + 1
    <3>1. k \in 2 .. Len(o) /\ k \in 1 .. n
      BY <1>n, <2>3
    <3>2. o[k - 1].e <= o[k].s
      BY <3>1 DEF Forward
    <3> QED BY <1>1, <2>1, <3>1, <3>2
  <2> QED BY <2>2, <2>3
<1>5. Range(x) = Range(o) \cup {Span(s, e)}
  <2>1. ASSUME NEW y \in Range(x)
        PROVE  y \in Range(o) \cup {Span(s, e)}
    <3>1. PICK k \in 1 .. (n + 1) : y = x[k]
      BY <1>1, <2>1 DEF Range
    <3>2. CASE k = n + 1
      BY <1>1, <3>1, <3>2
    <3>3. CASE k \in 1 .. n
      BY <1>1, <3>1, <3>3 DEF Range
    <3> QED BY <3>2, <3>3
  <2>2. ASSUME NEW y \in Range(o)
        PROVE  y \in Range(x)
    <3>1. PICK k \in 1 .. n : y = o[k]
      BY <1>1, <2>2 DEF Range
    <3>2. k \in DOMAIN x /\ x[k] = y
      BY <1>1, <3>1
    <3> QED BY <3>2 DEF Range
  <2>3. Span(s, e) \in Range(x)
    <3>1. n + 1 \in DOMAIN x
      BY <1>1
    <3> QED BY <1>1, <3>1 DEF Range
  <2> QED BY <2>1, <2>2, <2>3
<1>6. Forward(x) /\ \A k \in DOMAIN x : x[k].e <= e
  BY <1>1, <1>3, <1>4 DEF Forward
<1> QED BY <1>x, <1>n, <1>1, <1>5, <1>6

LEMMA AppendForward ==
  ASSUME NEW o \in Seq(Sent), NEW p \in T, NEW s \in T, NEW e \in T, p <= s, s <= e,
         Forward(o), \A k \in DOMAIN o : o[k].e <= p
  PROVE  LET x == Append(o, Span(s, e)) IN
         /\ Forward(x) /\ \A k \in DOMAIN x : x[k].e <= e
         /\ DOMAIN x = 1 .. (Len(o) + 1) /\ Len(o) \in Nat
         /\ \A k \in 1 .. Len(o) : x[k] = o[k]
         /\ x[Len(o) + 1] = Span(s, e)
         /\ Range(x) = Range(o) \cup {Span(s, e)}
<1>1. Sent \subseteq Times /\ p \in Nat /\ s \in Nat /\ e \in Nat
  BY DEF Sent, Times, T
<1>2. o \in Seq(Times)
  BY <1>1
<1>3. PICK x : x = Append(o, Span(s, e))
  OBVIOUS
<1> QED BY <1>1, <1>2, AppendSpan

LEMMA HoldsMore ==
  ASSUME NEW R, NEW S, NEW u, R \subseteq S, Holds(R, u)
  PROVE  Holds(S, u)
BY DEF Holds

LEMMA InitOut ==
  ASSUME Init
  PROVE  OutInv
<1>1. out = <<>> /\ Forward(out) /\ \A k \in DOMAIN out : FALSE
  BY DEF Init, Forward
<1>2. ASSUME NEW i \in Pullers, NEW u \in T
      PROVE  ~Listed(timing[i], u)
  <2>1. PICK x : x = [s |-> 0, e |-> 0, endtime |-> 0]
    OBVIOUS
  <2>2. timing[i] = << x >> /\ x.endtime = 0
    BY <2>1 DEF Init
  <2>3. DOMAIN << x >> = {1} /\ << x >>[1] = x
    OBVIOUS
  <2> QED BY <2>2, <2>3 DEF Listed, T
<1> QED BY <1>1, <1>2 DEF OutInv

LEMMA NextOut ==
  ASSUME Unregulated, Types, OutInv, Next
  PROVE  OutInv'
<1>1. wiring' = wiring
  BY StepCases
<1>2. ASSUME NEW i \in Pullers, NEW a \in Atoms, PullStep(i, a)
      PROVE  OutInv'
  <2>1. UNCHANGED <<timing, previous_tick, sent, out>>
    BY <1>2 DEF PullStep, joinVars
  <2> QED BY <1>1, <2>1 DEF OutInv
<1>3. ASSUME NEW a \in Atoms, OrStep(a) \/ AndStep(a)
      PROVE  \A j \in Pullers, u \in T : Holds(sent[j], u) => Holds(sent[j], u)'
  <2>1. ASSUME NEW j \in Pullers PROVE sent[j] \subseteq sent'[j]
    <3>1. CASE j = a.id
      BY <1>3, <3>1, SentGrows
    <3>2. CASE j # a.id
      BY <1>3, <3>2, SentGrows
    <3> QED BY <3>1, <3>2
  <2> QED BY <2>1, HoldsMore DEF Holds
<1>4. ASSUME NEW a \in Atoms, OrStep(a)
      PROVE  OutInv'
  <2>1. UNCHANGED timing /\ OrPasses(a) /\ wiring.kind = "or"
    BY <1>4, OrStepIs DEF OrStep
  <2>2. Forward(out)' /\ \A k \in DOMAIN out' : out'[k].e <= previous_tick'
    <3>1. CASE UNCHANGED <<out, previous_tick>>
      BY <3>1 DEF OutInv, Forward
    <3>2. ASSUME previous_tick < a.ts.e, previous_tick' = a.ts.e, NEW s \in T,
                 s = IF a.ts.s >= previous_tick THEN a.ts.s ELSE previous_tick,
                 out' = Append(out, Span(s, a.ts.e))
          PROVE  Forward(out)' /\ \A k \in DOMAIN out' : out'[k].e <= previous_tick'
      <4>1. /\ out \in Seq(Sent) /\ previous_tick \in T /\ Forward(out)
            /\ \A k \in DOMAIN out : out[k].e <= previous_tick
            /\ a.ts.e \in T /\ a.ts.s \in T /\ a.ts.s <= a.ts.e
        BY <1>4, SentGrows DEF Types, OutInv
      <4>2. previous_tick <= s /\ s <= a.ts.e
        BY <3>2, <4>1 DEF T
      <4>3. Forward(out') /\ \A k \in DOMAIN out' : out'[k].e <= a.ts.e
        BY <3>2, <4>1, <4>2, AppendForward
      <4> QED BY <3>2, <4>3 DEF Forward
    <3> QED BY <2>1, <3>1, <3>2 DEF OrPasses
  <2>3. \A j \in Pullers, u \in T : Listed(timing[j], u)' => Holds(sent[j], u)'
    BY <1>3, <1>4, <2>1 DEF OutInv, Listed
  <2> QED BY <1>1, <2>1, <2>2, <2>3 DEF OutInv
<1>5. ASSUME NEW a \in Atoms, AndStep(a)
      PROVE  OutInv'
  <2>1. /\ timing'[a.id] = Extended(timing[a.id], a.ts)
        /\ \A j \in Pullers : j # a.id => timing'[j] = timing[j]
        /\ UNCHANGED <<previous_tick, out>>
    BY <1>5, AndStepIs
  <2>2. /\ a.id \in Pullers /\ a.ts \in Sent /\ a.ts.s <= a.ts.e
        /\ sent'[a.id] = sent[a.id] \cup {a.ts}
    BY <1>5, SentGrows
  <2>3. ASSUME NEW j \in Pullers, NEW u \in T, Listed(timing'[j], u)
        PROVE  Holds(sent'[j], u)
    <3>1. CASE j # a.id
      <4>1. Holds(sent[j], u)
        BY <2>1, <2>3, <3>1 DEF OutInv
      <4> QED BY <1>3, <1>5, <4>1 DEF Holds
    <3>2. CASE j = a.id
      <4>1. Listed(timing[j], u) \/ (a.ts.s <= u /\ u < a.ts.e)
        BY <2>1, <2>2, <2>3, <3>2, ExtendedListed DEF Types
      <4>2. CASE Listed(timing[j], u)
        <5>1. Holds(sent[j], u)
          BY <4>2 DEF OutInv
        <5> QED BY <1>3, <1>5, <5>1 DEF Holds
      <4>3. CASE a.ts.s <= u /\ u < a.ts.e
        BY <2>2, <3>2, <4>3 DEF Holds
      <4> QED BY <4>1, <4>2, <4>3
    <3> QED BY <3>1, <3>2
  <2>4. \A k \in DOMAIN out, u \in T, i \in Pullers :
          out[k].s <= u /\ u < out[k].e => Holds(sent'[i], u)
    <3>1. wiring.kind = "and"
      BY <1>5 DEF AndStep
    <3>2. ASSUME NEW k \in DOMAIN out, NEW u \in T, NEW i \in Pullers,
                 out[k].s <= u, u < out[k].e
          PROVE  Holds(sent'[i], u)
      <4>1. Holds(sent[i], u)
        BY <3>1, <3>2 DEF OutInv
      <4> QED BY <1>3, <1>5, <4>1 DEF Holds
    <3> QED BY <3>2
  <2> QED BY <1>1, <2>1, <2>3, <2>4 DEF OutInv, Listed, Holds, Forward
<1>6. CASE AndCombine
  <2>1. PICK a \in T, b \in T : Combined(a, b)
    BY <1>6, CombineIs
  <2>2. sent' = sent
    BY <2>1 DEF Combined
  <2>3. \A i \in Pullers, u \in T : Listed(timing'[i], u) => Listed(timing[i], u)
    BY <2>1, CleanedGood DEF Combined, Types
  <2>4. \A i \in Pullers, u \in T : Listed(timing'[i], u) => Holds(sent'[i], u)
    BY <2>2, <2>3 DEF OutInv
  <2>5. CASE out' = out
    <3>1. previous_tick <= previous_tick' /\ previous_tick \in T /\ previous_tick' \in T
      BY <2>1, <2>5 DEF Combined, Types, T
    <3>2. \A k \in DOMAIN out : out[k].e <= previous_tick /\ out[k].e \in Nat
      <4>1. \A k \in DOMAIN out : out[k] \in Sent
        BY DEF Types
      <4> QED BY <4>1, SpanTimes DEF OutInv
    <3>3. \A k \in DOMAIN out' : out'[k].e <= previous_tick'
      BY <2>5, <3>1, <3>2 DEF T
    <3> QED BY <1>1, <2>2, <2>4, <2>5, <3>3 DEF OutInv, Listed, Holds, Forward
  <2>6. CASE out' = Append(out, Span(a, b)) /\ previous_tick' = b /\ a <= b
    <3>1. /\ out \in Seq(Sent) /\ previous_tick \in T /\ previous_tick <= a /\ Forward(out)
          /\ \A k \in DOMAIN out : out[k].e <= previous_tick
      BY <2>1 DEF Combined, Types, OutInv
    <3>2. /\ Forward(out') /\ \A k \in DOMAIN out' : out'[k].e <= b
          /\ DOMAIN out' = 1 .. (Len(out) + 1) /\ Len(out) \in Nat
          /\ \A k \in 1 .. Len(out) : out'[k] = out[k]
          /\ out'[Len(out) + 1] = Span(a, b)
      BY <2>6, <3>1, AppendForward
    <3>3. ASSUME NEW k \in DOMAIN out', NEW u \in T, NEW i \in Pullers,
                 out'[k].s <= u, u < out'[k].e, wiring.kind = "and"
          PROVE  Holds(sent'[i], u)
      <4>1. CASE k \in 1 .. Len(out)
        <5>1. k \in DOMAIN out /\ out'[k] = out[k]
          BY <3>1, <3>2, <4>1
        <5> QED BY <2>2, <3>3, <5>1 DEF OutInv
      <4>2. CASE k = Len(out) + 1
        <5>1. a <= u /\ u < b
          BY <3>2, <3>3, <4>2 DEF Span
        <5>2. GoodList(timing'[i])
          BY <2>1, CleanedGood DEF Combined, Types
        <5>3. /\ 1 \in DOMAIN timing'[i] /\ timing'[i][1].s <= a /\ b <= timing'[i][1].e
              /\ timing'[i][1].e <= timing'[i][1].endtime
              /\ timing'[i][1].s \in Nat /\ timing'[i][1].e \in Nat /\ timing'[i][1].endtime \in Nat
          BY <2>1, <5>2, ListFacts DEF Combined, T
        <5>4. timing'[i][1].s <= u /\ u < timing'[i][1].endtime
          BY <5>1, <5>3 DEF T
        <5>5. Listed(timing'[i], u)
          BY <5>3, <5>4 DEF Listed
        <5> QED BY <2>4, <5>5
      <4> QED BY <3>2, <4>1, <4>2
    <3> QED BY <1>1, <2>2, <2>4, <2>6, <3>2, <3>3 DEF OutInv, Listed, Holds, Forward
  <2> QED BY <2>1, <2>5, <2>6 DEF Combined, T
<1>7. CASE UNCHANGED vars
  BY <1>1, <1>7 DEF vars, joinVars, OutInv
<1> QED BY <1>2, <1>4, <1>5, <1>6, <1>7, StepCases

LEMMA SeqOfMore ==
  ASSUME NEW A, NEW B, A \subseteq B, NEW l \in Seq(A)
  PROVE  l \in Seq(B)
OBVIOUS

LEMMA ForwardFollows ==
  ASSUME Types, OutInv
  PROVE  TriggersForward
<1>1. T \subseteq Ticks
  BY TriggerAssumption DEF T, Ticks
<1>2. Sent \subseteq Spans /\ Entries \subseteq [s : Ticks, e : Ticks, endtime : Ticks]
  BY <1>1 DEF Sent, Spans, Entries
<1>3. triggerq \in Seq([to : {"regulator", "join"}, id : Pullers, ts : Spans])
  <2>1. Atoms \subseteq [to : {"regulator", "join"}, id : Pullers, ts : Spans]
    BY <1>2 DEF Atoms
  <2> QED BY <2>1, QueueFacts, SeqOfMore, Zenon
<1>4. ASSUME NEW i \in Pullers
      PROVE  timing[i] \in Seq([s : Ticks, e : Ticks, endtime : Ticks]) \ {<<>>}
  <2>1. timing[i] \in Seq(Entries) /\ timing[i] # <<>>
    BY DEF Types, GoodList
  <2>2. timing[i] \in Seq([s : Ticks, e : Ticks, endtime : Ticks])
    BY <1>2, <2>1, SeqOfMore, Zenon
  <2> QED BY <2>1, <2>2
<1>5. ASSUME NEW i \in Pullers, NEW k \in DOMAIN timing[i]
      PROVE  /\ timing[i][k].s <= timing[i][k].e /\ timing[i][k].e <= timing[i][k].endtime
             /\ k > 1 => timing[i][k - 1].endtime <= timing[i][k].s
  <2>1. GoodList(timing[i])
    BY DEF Types
  <2>2. k > 1 => k - 1 \in DOMAIN timing[i] /\ k - 1 < k
    BY <2>1, ListFacts
  <2> QED BY <2>1, <2>2 DEF GoodList
<1>6. previous_tick \in Ticks /\ now \in Spans /\ given \in [Pullers -> 0 .. MaxTick]
  BY <1>1, <1>2 DEF Types, T
<1>7. sent \in [Pullers -> SUBSET Spans] /\ regular \in Seq(Spans) /\ out \in Seq(Spans)
  BY <1>2 DEF Types
<1>8. timing \in [Pullers -> Seq([s : Ticks, e : Ticks, endtime : Ticks]) \ {<<>>}]
  <2>1. timing = [i \in Pullers |-> timing[i]]
    BY DEF Types
  <2> QED BY <1>4, <2>1
<1>9. TypeOK
  BY <1>3, <1>5, <1>6, <1>7, <1>8 DEF Types, TypeOK
<1>10. OutputForward
  BY DEF OutInv, OutputForward, T
<1> QED BY <1>9, <1>10 DEF TriggersForward

(* The spans that ConditionAnd and ConditionOr pass on to the activity go  *)
(* forward in time and overlap nowhere, and ConditionAnd passes on only    *)
(* time both pullers triggered for: whatever the sizes of the spans, the   *)
(* gaps between them and the order in which the atoms arrive.              *)
THEOREM OutputGoesForward == Spec => [](Unregulated => TriggersForward)
<1> DEFINE I == Unregulated => Types /\ OutInv
<1>1. Init => I
  BY InitTypes, InitOut
<1>2. I /\ [Next]_<<vars, wiring>> => I'
  <2>1. SUFFICES ASSUME I, [Next]_<<vars, wiring>>, Unregulated'
                 PROVE  (Types /\ OutInv)'
    OBVIOUS
  <2>2. Unregulated
    BY <2>1 DEF Next, Unregulated
  <2>3. CASE Next
    BY <2>1, <2>2, <2>3, NextTypes, NextOut
  <2>4. CASE UNCHANGED <<vars, wiring>>
    BY <2>1, <2>2, <2>4 DEF vars, regVars, joinVars, Types, OutInv
  <2> QED BY <2>1, <2>3, <2>4
<1>3. I => (Unregulated => TriggersForward)
  BY ForwardFollows
<1> QED BY <1>1, <1>2, <1>3, PTL DEF Spec

-----------------------------------------------------------------------------
(* ConditionOr misses nothing.                                             *)

LEMMA InitOr ==
  ASSUME Init
  PROVE  OrInv
BY DEF Init, OrInv, T

LEMMA PullOr ==
  ASSUME Types, NoLead, OrInv, NEW i \in Pullers, NEW a \in Atoms, PullStep(i, a)
  PROVE  OrInv'
<1>n. PICK n \in Nat : n = Len(triggerq)
  BY QueueFacts
<1>p. PICK p \in Nat : p = previous_tick
  BY DEF Types, T
<1>1. UNCHANGED <<previous_tick, sent, out, pc>>
  BY DEF PullStep, joinVars
<1>2. /\ DOMAIN triggerq = 1 .. n /\ DOMAIN triggerq' = 1 .. (n + 1)
      /\ \A k \in 1 .. n : triggerq'[k] = triggerq[k]
      /\ triggerq'[n + 1] = a
  BY <1>n, QueueFacts DEF PullStep, Added
<1>3. /\ a.ts.s \in Nat /\ a.ts.e \in Nat /\ a.ts.s <= a.ts.e
      /\ \A k \in 1 .. n : triggerq[k].ts.s \in Nat /\ triggerq[k].ts.e \in Nat
      /\ \A j \in Pullers : given[j] \in Nat
  BY <1>n, QueueFacts DEF PullStep, Atoms, Sent, T, Types
<1>4. a.ts.s <= p \/ \E j \in 1 .. n : a.ts.s <= triggerq[j].ts.e
  <2>1. CASE given[i] = a.ts.s
    BY <1>p, <1>2, <2>1 DEF OrInv
  <2>2. CASE given[i] # a.ts.s
    <3>1. PICK x \in sent[3 - i] : a.ts.s <= x.e
      BY <2>2 DEF PullStep
    <3>2. x.e <= p /\ x.e \in Nat
      BY <1>p, SentFacts DEF OrInv
    <3> QED BY <1>3, <3>1, <3>2
  <2> QED BY <2>1, <2>2
<1>5. ASSUME NEW k \in DOMAIN triggerq'
      PROVE  \/ triggerq'[k].ts.s <= p
             \/ \E j \in DOMAIN triggerq' : j < k /\ triggerq'[k].ts.s <= triggerq'[j].ts.e
  <2>1. CASE k \in 1 .. n
    <3>1. \/ triggerq[k].ts.s <= p
          \/ \E j \in 1 .. n : j < k /\ triggerq[k].ts.s <= triggerq[j].ts.e
      BY <1>p, <1>2, <2>1 DEF OrInv
    <3> QED BY <1>2, <2>1, <3>1
  <2>2. CASE k = n + 1
    BY <1>2, <1>4, <2>2
  <2> QED BY <1>2, <2>1, <2>2
<1>6. ASSUME NEW j \in Pullers
      PROVE  given'[j] <= p \/ \E m \in DOMAIN triggerq' : given'[j] <= triggerq'[m].ts.e
  <2>1. CASE j = i
    <3>1. given'[j] = a.ts.e /\ n + 1 \in DOMAIN triggerq'
      BY <1>2, <2>1 DEF PullStep
    <3> QED BY <1>2, <1>3, <3>1
  <2>2. CASE j # i
    <3>1. given'[j] = given[j]
      BY <2>2 DEF PullStep
    <3>2. given[j] <= p \/ \E m \in 1 .. n : given[j] <= triggerq[m].ts.e
      BY <1>p, <1>2 DEF OrInv
    <3> QED BY <1>2, <3>1, <3>2
  <2> QED BY <2>1, <2>2
<1> QED BY <1>p, <1>1, <1>5, <1>6 DEF OrInv, Holds

LEMMA DeliverOr ==
  ASSUME Types, OutInv, OrInv, NEW a \in Atoms, OrStep(a)
  PROVE  OrInv'
<1>n. PICK n \in Nat \ {0} : n = Len(triggerq)
  BY QueueFacts DEF OrStep, Taken
<1>p. PICK p \in Nat : p = previous_tick
  BY DEF Types, T
<1>1. /\ DOMAIN triggerq = 1 .. n /\ DOMAIN triggerq' = 1 .. (n - 1)
      /\ \A k \in 1 .. (n - 1) : triggerq'[k] = triggerq[k + 1]
      /\ triggerq[1] = a /\ 1 \in 1 .. n
      /\ \A k \in 1 .. n : triggerq[k].ts.s \in Nat /\ triggerq[k].ts.e \in Nat
  BY <1>n, QueueFacts DEF OrStep, Taken
<1>2. /\ a.ts.s \in T /\ a.ts.e \in T /\ a.ts.s \in Nat /\ a.ts.e \in Nat /\ a.ts.s <= a.ts.e
      /\ a.id \in Pullers /\ sent'[a.id] = sent[a.id] \cup {a.ts}
      /\ \A j \in Pullers : j # a.id => sent'[j] = sent[j]
  BY SentGrows DEF T
<1>3. OrPasses(a) /\ UNCHANGED <<given, pc>>
  BY OrStepIs
<1>4. a.ts.s <= p
  <2>1. ~(\E j \in DOMAIN triggerq : j < 1)
    BY <1>1
  <2> QED BY <1>p, <1>1, <2>1 DEF OrInv
<1>5. PICK q \in Nat : q = previous_tick' /\ p <= q /\ a.ts.e <= q
  <2>1. CASE p < a.ts.e /\ previous_tick' = a.ts.e
    BY <1>2, <2>1
  <2>2. CASE a.ts.e <= p /\ previous_tick' = p
    BY <2>2
  <2> QED BY <1>p, <1>3, <2>1, <2>2 DEF OrPasses
<1>6. ASSUME NEW u \in T, u < q
      PROVE  Holds(Range(out'), u)
  <2>0. u \in Nat
    BY DEF T
  <2>1. CASE UNCHANGED <<out, previous_tick>>
    BY <1>5, <1>6, <2>1 DEF OrInv, Holds
  <2>2. ASSUME p < a.ts.e, q = a.ts.e, NEW s \in T, out' = Append(out, Span(s, a.ts.e)),
               s = IF a.ts.s >= p THEN a.ts.s ELSE p
        PROVE  Holds(Range(out'), u)
    <3>1. s = p
      BY <1>2, <1>4, <2>2
    <3>2. Range(out') = Range(out) \cup {Span(p, a.ts.e)}
      <4>1. /\ out \in Seq(Sent) /\ Forward(out) /\ \A k \in DOMAIN out : out[k].e <= p
            /\ p \in T /\ p <= a.ts.e
        BY <1>p, <1>2, <2>2 DEF Types, OutInv
      <4> QED BY <1>p, <1>2, <2>2, <3>1, <4>1, AppendForward
    <3>3. CASE u < p
      <4>1. Holds(Range(out), u)
        BY <1>p, <3>3 DEF OrInv
      <4> QED BY <3>2, <4>1, HoldsMore
    <3>4. CASE p <= u
      <4>1. /\ Span(p, a.ts.e).s = p /\ Span(p, a.ts.e).e = a.ts.e
            /\ Span(p, a.ts.e) \in Range(out')
        BY <3>2 DEF Span
      <4> QED BY <1>6, <2>2, <3>4, <4>1 DEF Holds
    <3> QED BY <2>0, <3>3, <3>4
  <2> QED BY <1>p, <1>3, <1>5, <2>1, <2>2 DEF OrPasses
<1>7. ASSUME NEW i \in Pullers, NEW x \in sent'[i]
      PROVE  x.e <= q
  <2>1. CASE x \in sent[i]
    <3>1. x.e <= p /\ x.e \in Nat
      BY <1>p, <2>1, SentFacts DEF OrInv
    <3> QED BY <1>5, <3>1
  <2>2. CASE x = a.ts
    BY <1>5, <2>2
  <2> QED BY <1>2, <2>1, <2>2
<1>8. ASSUME NEW e \in Nat, NEW k \in 1 .. n, e <= triggerq[k].ts.e
      PROVE  e <= q \/ (k - 1 \in 1 .. (n - 1) /\ e <= triggerq'[k - 1].ts.e)
  <2>1. CASE k = 1
    BY <1>1, <1>2, <1>5, <1>8, <2>1
  <2>2. CASE k # 1
    <3>1. k - 1 \in 1 .. (n - 1) /\ (k - 1) + 1 = k
      BY <2>2
    <3> QED BY <1>1, <1>8, <3>1
  <2> QED BY <2>1, <2>2
<1>9. ASSUME NEW k \in DOMAIN triggerq'
      PROVE  \/ triggerq'[k].ts.s <= q
             \/ \E j \in DOMAIN triggerq' : j < k /\ triggerq'[k].ts.s <= triggerq'[j].ts.e
  <2>1. PICK s \in Nat : s = triggerq'[k].ts.s /\ s = triggerq[k + 1].ts.s /\ k + 1 \in 1 .. n
    BY <1>1
  <2>2. CASE s <= p
    BY <1>5, <2>1, <2>2
  <2>3. ASSUME NEW j \in 1 .. n, j < k + 1, s <= triggerq[j].ts.e
        PROVE  s <= q \/ \E m \in DOMAIN triggerq' : m < k /\ s <= triggerq'[m].ts.e
    <3>1. s <= q \/ (j - 1 \in 1 .. (n - 1) /\ s <= triggerq'[j - 1].ts.e)
      BY <1>8, <2>3
    <3>2. j - 1 < k
      BY <1>1, <2>3
    <3> QED BY <1>1, <3>1, <3>2
  <2>4. s <= p \/ \E j \in 1 .. n : j < k + 1 /\ s <= triggerq[j].ts.e
    BY <1>p, <1>1, <2>1 DEF OrInv
  <2> QED BY <2>1, <2>2, <2>3, <2>4
<1>10. ASSUME NEW i \in Pullers
       PROVE  given'[i] <= q \/ \E j \in DOMAIN triggerq' : given'[i] <= triggerq'[j].ts.e
  <2>1. PICK g \in Nat : g = given[i] /\ g = given'[i]
    BY <1>3 DEF Types, T
  <2>2. g <= p \/ \E j \in 1 .. n : g <= triggerq[j].ts.e
    BY <1>p, <1>1, <2>1 DEF OrInv
  <2>3. g <= q \/ \E j \in DOMAIN triggerq' : g <= triggerq'[j].ts.e
    <3>1. CASE g <= p
      BY <1>5, <3>1
    <3>2. ASSUME NEW j \in 1 .. n, g <= triggerq[j].ts.e
          PROVE  g <= q \/ \E h \in 1 .. (n - 1) : g <= triggerq'[h].ts.e
      BY <1>8, <3>2
    <3> QED BY <1>1, <2>2, <3>1, <3>2
  <2> QED BY <2>1, <2>3
<1> QED BY <1>3, <1>5, <1>6, <1>7, <1>9, <1>10 DEF OrInv, Holds

-----------------------------------------------------------------------------
(* ConditionAnd misses nothing.                                            *)

LEMMA InitAnd ==
  ASSUME Init
  PROVE  QueueInv /\ AndInv
<1>1. /\ triggerq = <<>> /\ previous_tick = 0
      /\ \A i \in Pullers : given[i] = 0 /\ sent[i] = {}
  BY DEF Init
<1>2. ASSUME NEW i \in Pullers
      PROVE  EndOf(timing[i]) = 0 /\ NoLeap(timing[i], EndOf(timing[3 - i]), 0)
  <2>1. PICK x : x = [s |-> 0, e |-> 0, endtime |-> 0]
    OBVIOUS
  <2>2. timing[i] = << x >> /\ x.s = 0 /\ x.endtime = 0
    BY <2>1 DEF Init
  <2>3. Len(<< x >>) = 1 /\ DOMAIN << x >> = {1} /\ << x >>[1] = x
    OBVIOUS
  <2> QED BY <2>2, <2>3 DEF EndOf, NoLeap
<1>3. DOMAIN triggerq = {}
  BY <1>1
<1>4. QueueInv
  BY <1>1, <1>2, <1>3 DEF QueueInv
<1>5. Follows
  BY <1>1, <1>2, <1>3 DEF Follows
<1>6. \A i \in Pullers, u \in T : ~Holds(sent[i], u)
  BY <1>1 DEF Holds
<1>7. \E i \in Pullers : EndOf(timing[i]) <= previous_tick
  BY <1>1, <1>2 DEF Pullers
<1> QED BY <1>1, <1>2, <1>4, <1>5, <1>6, <1>7 DEF AndInv, Pullers

LEMMA EndIsTick ==
  ASSUME Types, NEW i \in Pullers
  PROVE  EndOf(timing[i]) \in Nat /\ given[i] \in Nat
<1>1. GoodList(timing[i]) /\ given[i] \in T
  BY DEF Types
<1> QED BY <1>1, ListFacts DEF T

LEMMA PullAnd ==
  ASSUME Types, NoLead, QueueInv, AndInv, NEW i \in Pullers, NEW a \in Atoms, PullStep(i, a)
  PROVE  QueueInv' /\ AndInv'
<1>n. PICK n \in Nat : n = Len(triggerq)
  BY QueueFacts
<1>1. UNCHANGED <<timing, previous_tick, sent, out, pc>>
  BY DEF PullStep, joinVars
<1>2. /\ DOMAIN triggerq = 1 .. n /\ DOMAIN triggerq' = 1 .. (n + 1)
      /\ \A k \in 1 .. n : triggerq'[k] = triggerq[k]
      /\ triggerq'[n + 1] = a /\ a.id = i
  BY <1>n, QueueFacts DEF PullStep, Added
<1>3. /\ a.ts.s \in Nat /\ a.ts.e \in Nat /\ a.ts.s <= a.ts.e
      /\ \A k \in 1 .. n : /\ triggerq[k].ts.s \in Nat /\ triggerq[k].ts.e \in Nat
                           /\ triggerq[k].id \in Pullers
  BY <1>n, QueueFacts DEF PullStep, Atoms, Sent, T
<1>4. /\ given[i] <= a.ts.s /\ given'[i] = a.ts.e
      /\ \A j \in Pullers : j # i => given'[j] = given[j]
  BY DEF PullStep
<1>5. \A j \in Pullers : /\ given[j] \in Nat /\ given'[j] \in Nat /\ given[j] <= given'[j]
                         /\ EndOf(timing[j]) \in Nat /\ EndOf(timing[j]) <= given[j]
  BY <1>3, <1>4, EndIsTick DEF QueueInv
<1>6. ASSUME NEW j \in DOMAIN triggerq', NEW k \in DOMAIN triggerq', j < k,
             triggerq'[j].id = triggerq'[k].id
      PROVE  triggerq'[j].ts.e <= triggerq'[k].ts.s
  <2>1. j \in 1 .. n
    BY <1>2, <1>6
  <2>2. CASE k \in 1 .. n
    BY <1>2, <1>6, <2>1, <2>2 DEF QueueInv
  <2>3. CASE k = n + 1
    <3>1. triggerq[j].id = i /\ triggerq[j].ts.e \in Nat
      BY <1>2, <1>3, <1>6, <2>1, <2>3
    <3>2. triggerq[j].ts.e <= given[i]
      BY <1>2, <2>1, <3>1 DEF QueueInv
    <3>3. triggerq[j].ts.e <= a.ts.s
      BY <1>3, <1>4, <1>5, <3>1, <3>2
    <3> QED BY <1>2, <2>1, <2>3, <3>3
  <2> QED BY <1>2, <2>2, <2>3
<1>7. ASSUME NEW k \in DOMAIN triggerq'
      PROVE  /\ EndOf(timing[triggerq'[k].id]) <= triggerq'[k].ts.s
             /\ triggerq'[k].ts.e <= given'[triggerq'[k].id]
  <2>1. CASE k \in 1 .. n
    <3>1. PICK j \in Pullers : j = triggerq[k].id
      BY <1>3, <2>1
    <3>2. EndOf(timing[j]) <= triggerq[k].ts.s /\ triggerq[k].ts.e <= given[j]
      BY <1>2, <2>1, <3>1 DEF QueueInv
    <3>3. triggerq[k].ts.e <= given'[j]
      BY <1>3, <1>5, <2>1, <3>2
    <3> QED BY <1>2, <2>1, <3>1, <3>2, <3>3
  <2>2. CASE k = n + 1
    <3>1. EndOf(timing[i]) <= a.ts.s
      BY <1>3, <1>4, <1>5
    <3> QED BY <1>2, <1>3, <1>4, <2>2, <3>1
  <2> QED BY <1>2, <2>1, <2>2
<1>8. QueueInv'
  <2>1. \A j \in Pullers : EndOf(timing[j]) <= given'[j]
    BY <1>5
  <2> QED BY <1>1, <1>6, <1>7, <2>1 DEF QueueInv, EndOf
<1>9. \/ a.ts.s <= EndOf(timing[i]) \/ a.ts.s <= EndOf(timing[3 - i])
      \/ \E j \in 1 .. n : triggerq[j].id = i /\ a.ts.s <= triggerq[j].ts.e
  <2>1. CASE given[i] = a.ts.s
    BY <1>2, <2>1 DEF AndInv, Follows
  <2>2. CASE given[i] # a.ts.s
    <3>1. PICK x \in sent[3 - i] : a.ts.s <= x.e
      BY <2>2 DEF PullStep
    <3>2. x.e <= EndOf(timing[3 - i]) /\ x.e \in Nat /\ EndOf(timing[3 - i]) \in Nat
      BY SentFacts, EndIsTick DEF AndInv
    <3> QED BY <1>3, <3>1, <3>2
  <2> QED BY <2>1, <2>2
<1>10. ASSUME NEW k \in DOMAIN triggerq'
       PROVE  LET m == triggerq'[k].id IN
              \/ triggerq'[k].ts.s <= EndOf(timing[m])
              \/ triggerq'[k].ts.s <= EndOf(timing[3 - m])
              \/ \E j \in DOMAIN triggerq' :
                   j < k /\ triggerq'[j].id = m /\ triggerq'[k].ts.s <= triggerq'[j].ts.e
  <2>1. CASE k \in 1 .. n
    <3>1. PICK m \in Pullers : m = triggerq[k].id
      BY <1>3, <2>1
    <3>2. \/ triggerq[k].ts.s <= EndOf(timing[m]) \/ triggerq[k].ts.s <= EndOf(timing[3 - m])
          \/ \E j \in 1 .. n :
               j < k /\ triggerq[j].id = m /\ triggerq[k].ts.s <= triggerq[j].ts.e
      BY <1>2, <2>1, <3>1 DEF AndInv, Follows
    <3> QED BY <1>2, <2>1, <3>1, <3>2
  <2>2. CASE k = n + 1
    BY <1>2, <1>9, <2>2
  <2> QED BY <1>2, <2>1, <2>2
<1>11. ASSUME NEW m \in Pullers
       PROVE  \/ given'[m] <= EndOf(timing[m])
              \/ \E j \in DOMAIN triggerq' :
                   triggerq'[j].id = m /\ given'[m] <= triggerq'[j].ts.e
  <2>1. CASE m = i
    <3>1. n + 1 \in DOMAIN triggerq' /\ given'[m] <= triggerq'[n + 1].ts.e
      BY <1>2, <1>3, <1>4, <2>1
    <3> QED BY <1>2, <2>1, <3>1
  <2>2. CASE m # i
    <3>1. \/ given[m] <= EndOf(timing[m])
          \/ \E j \in 1 .. n : triggerq[j].id = m /\ given[m] <= triggerq[j].ts.e
      BY <1>2 DEF AndInv, Follows
    <3> QED BY <1>2, <1>4, <2>2, <3>1
  <2> QED BY <2>1, <2>2
<1>12. Follows'
  BY <1>1, <1>10, <1>11 DEF Follows, EndOf
<1>13. AndInv'
  BY <1>1, <1>12 DEF AndInv, NoLeap, EndOf, Holds, Listed
<1> QED BY <1>8, <1>13

LEMMA ExtendedNoLeap ==
  ASSUME NEW l, GoodList(l), NEW t \in Sent, t.s <= t.e, NEW o \in Nat, NEW p \in Nat,
         t.s <= EndOf(l) \/ t.s <= o, NoLeap(l, o, p)
  PROVE  NoLeap(Extended(l, t), o, p)
<1>n. PICK n \in Nat \ {0} : n = Len(l)
  BY ListFacts
<1>0. PICK x : x = Extended(l, t)
  OBVIOUS
<1>1. t.s \in Nat /\ EndOf(l) \in Nat /\ DOMAIN l = 1 .. n /\ EndOf(l) = l[n].endtime
  BY <1>n, SpanTimes, ListFacts DEF EndOf, T
<1>x. x \in Seq(Entries)
  BY <1>0, ExtendedCases
<1>2. CASE AsRepeat(l, t, x)
  <2>1. /\ DOMAIN x = 1 .. n /\ \A k \in 1 .. n : x[k].s = l[k].s
        /\ \A k \in 1 .. n : k # n => x[k] = l[k]
    BY <1>n, <1>x, <1>1, <1>2 DEF AsRepeat
  <2>2. ASSUME NEW k \in 1 .. n
        PROVE  x[k].s <= p \/ x[k].s <= o \/ (k > 1 /\ x[k].s = x[k - 1].endtime)
    <3>1. k > 1 => k - 1 \in 1 .. n /\ k - 1 # n
      OBVIOUS
    <3> QED BY <1>1, <2>1, <3>1 DEF NoLeap
  <2> QED BY <1>0, <2>1, <2>2 DEF NoLeap
<1>3. CASE AsEntry(l, t, x)
  <2>1. /\ DOMAIN x = 1 .. (n + 1) /\ \A k \in 1 .. n : x[k] = l[k]
        /\ x[n + 1].s = IF t.s >= EndOf(l) THEN t.s ELSE EndOf(l)
    BY <1>n, <1>x, <1>1, <1>3 DEF AsEntry
  <2>2. ASSUME NEW k \in DOMAIN x
        PROVE  x[k].s <= p \/ x[k].s <= o \/ (k > 1 /\ x[k].s = x[k - 1].endtime)
    <3>1. CASE k \in 1 .. n
      <4>1. k > 1 => k - 1 \in 1 .. n
        BY <1>1, <3>1
      <4> QED BY <1>1, <2>1, <3>1, <4>1 DEF NoLeap
    <3>2. CASE k = n + 1
      <4>1. x[k].s = t.s \/ (x[k].s = EndOf(l))
        BY <2>1, <3>2
      <4>2. k > 1 /\ k - 1 = n /\ n \in 1 .. n /\ x[n].endtime = EndOf(l)
        BY <1>1, <2>1, <3>2
      <4>3. x[k].s = t.s => t.s <= o \/ t.s = EndOf(l)
        BY <1>1, <2>1, <3>2
      <4> QED BY <4>1, <4>2, <4>3
    <3> QED BY <2>1, <3>1, <3>2
  <2> QED BY <1>0, <2>2 DEF NoLeap
<1> QED BY <1>0, <1>2, <1>3, ExtendedCases

\* with the lists of both pullers longer, no leap appears
LEMMA LessLeap ==
  ASSUME NEW l, GoodList(l), NEW o \in Nat, NEW p \in Nat, NoLeap(l, o, p),
         NEW o2 \in Nat, NEW p2 \in Nat, o <= o2, p <= p2
  PROVE  NoLeap(l, o2, p2)
<1>1. \A k \in DOMAIN l : l[k].s \in Nat
  BY ListFacts DEF T
<1> QED BY <1>1 DEF NoLeap

\* a span that is added to the shorter list and reaches beyond previous_tick
\* tips the balance
LEMMA TipsWhenNeeded ==
  ASSUME NEW l, GoodList(l), NEW t \in Sent, t.s <= t.e, previous_tick \in T,
         EndOf(l) = previous_tick, ~Tips(l, t)
  PROVE  EndOf(Extended(l, t)) <= previous_tick
<1>p. PICK p \in Nat : p = previous_tick
  BY DEF T
<1>1. /\ t.s \in Nat /\ t.e \in Nat /\ Last(l) = l[Len(l)] /\ Len(l) \in DOMAIN l
      /\ Last(l).endtime = p
  BY <1>p, SpanTimes, ListFacts DEF EndOf
<1>2. t.e <= p
  <2>1. CASE Repeats(Last(l), t)
    <3>1. Size(t) = t.e - t.s
      BY SizeIs DEF Sent
    <3>2. t.s = p /\ Size(Last(l)) = t.e - t.s
      BY <1>1, <2>1, <3>1 DEF Repeats
    <3>3. t.e = Size(Last(l)) + p
      BY <1>1, <3>2
    <3>4. ~(t.e > p)
      BY <1>p, <2>1, <3>3 DEF Tips
    <3> QED BY <1>1, <3>4
  <2>2. CASE ~Repeats(Last(l), t)
    <3>1. ~(t.e > p)
      BY <1>p, <1>1, <2>2 DEF Tips
    <3> QED BY <1>1, <3>1
  <2> QED BY <2>1, <2>2
<1>3. EndOf(Extended(l, t)) \in {EndOf(l), t.e}
  BY ExtendedGood
<1> QED BY <1>p, <1>2, <1>3

LEMMA DeliverAnd ==
  ASSUME Types, QueueInv, AndInv, NEW a \in Atoms, AndStep(a)
  PROVE  QueueInv' /\ AndInv'
<1>n. PICK n \in Nat \ {0} : n = Len(triggerq)
  BY QueueFacts DEF AndStep, Taken
<1>p. PICK p \in Nat : p = previous_tick
  BY DEF Types, T
<1>i. PICK i \in Pullers : i = a.id
  BY SentGrows
<1>t. PICK t \in Sent : t = a.ts
  BY SentGrows
<1>1. /\ DOMAIN triggerq = 1 .. n /\ DOMAIN triggerq' = 1 .. (n - 1)
      /\ \A k \in 1 .. (n - 1) : triggerq'[k] = triggerq[k + 1] /\ k + 1 \in 1 .. n
      /\ triggerq[1] = a /\ 1 \in 1 .. n
      /\ \A k \in 1 .. n : /\ triggerq[k].ts.s \in Nat /\ triggerq[k].ts.e \in Nat
                           /\ triggerq[k].id \in Pullers
  BY <1>n, QueueFacts DEF AndStep, Taken
<1>2. /\ t.s \in Nat /\ t.e \in Nat /\ t.s <= t.e
      /\ sent'[i] = sent[i] \cup {t} /\ \A j \in Pullers : j # i => sent'[j] = sent[j]
  BY <1>i, <1>t, SentGrows DEF T
<1>3. /\ timing'[i] = Extended(timing[i], t)
      /\ \A j \in Pullers : j # i => timing'[j] = timing[j]
      /\ pc' = IF Tips(timing[i], t) THEN "combine" ELSE "idle"
      /\ UNCHANGED <<given, previous_tick, out>>
  BY <1>i, <1>t, AndStepIs
<1>4. \A j \in Pullers : GoodList(timing[j]) /\ GoodList(timing'[j])
  BY <1>2, <1>3, ExtendedGood DEF Types
<1>5. \A j \in Pullers : /\ EndOf(timing[j]) \in Nat /\ EndOf(timing'[j]) \in Nat
                         /\ given[j] \in Nat /\ EndOf(timing[j]) <= EndOf(timing'[j])
  <2>1. \A j \in Pullers : /\ EndOf(timing[j]) \in Nat /\ EndOf(timing'[j]) \in Nat
                           /\ given[j] \in Nat
    BY <1>4, ListFacts DEF T, Types
  <2>2. EndOf(timing[i]) <= EndOf(timing'[i])
    BY <1>2, <1>3, <1>4, ExtendedGood
  <2> QED BY <1>3, <2>1, <2>2
<1>6. /\ EndOf(timing'[i]) \in {EndOf(timing[i]), t.e} /\ t.e <= EndOf(timing'[i])
  BY <1>2, <1>3, <1>4, ExtendedGood
<1>7. /\ EndOf(timing[i]) <= t.s /\ t.e <= given[i] /\ p <= EndOf(timing[i])
  BY <1>i, <1>p, <1>t, <1>1 DEF QueueInv, AndInv
<1>8. QueueInv'
  <2>1. ASSUME NEW k \in 1 .. (n - 1)
        PROVE  /\ EndOf(timing'[triggerq'[k].id]) <= triggerq'[k].ts.s
               /\ triggerq'[k].ts.e <= given[triggerq'[k].id]
    <3>1. PICK m \in Pullers : m = triggerq[k + 1].id /\ m = triggerq'[k].id
      BY <1>1
    <3>2. /\ EndOf(timing[m]) <= triggerq[k + 1].ts.s /\ triggerq[k + 1].ts.e <= given[m]
      BY <1>1, <3>1 DEF QueueInv
    <3>3. CASE m = i
      <4>1. 1 < k + 1 /\ k + 1 \in DOMAIN triggerq /\ 1 \in DOMAIN triggerq
        BY <1>1
      <4>2. triggerq[1].id = triggerq[k + 1].id /\ triggerq[1].ts = t
        BY <1>i, <1>t, <1>1, <3>1, <3>3
      <4>3. t.e <= triggerq[k + 1].ts.s
        BY <4>1, <4>2 DEF QueueInv
      <4> QED BY <1>1, <1>6, <3>1, <3>2, <3>3, <4>3
    <3>4. CASE m # i
      BY <1>1, <1>3, <3>1, <3>2, <3>4
    <3> QED BY <3>3, <3>4
  <2>2. ASSUME NEW j \in 1 .. (n - 1), NEW k \in 1 .. (n - 1), j < k,
               triggerq'[j].id = triggerq'[k].id
        PROVE  triggerq'[j].ts.e <= triggerq'[k].ts.s
    <3>1. PICK g \in DOMAIN triggerq : g = j + 1 /\ triggerq'[j] = triggerq[g]
      BY <1>1
    <3>2. PICK h \in DOMAIN triggerq : h = k + 1 /\ triggerq'[k] = triggerq[h]
      BY <1>1
    <3>3. g < h /\ triggerq[g].id = triggerq[h].id
      BY <2>2, <3>1, <3>2
    <3>4. triggerq[g].ts.e <= triggerq[h].ts.s
      BY <3>3 DEF QueueInv
    <3> QED BY <3>1, <3>2, <3>4
  <2>3. \A j \in Pullers : EndOf(timing'[j]) <= given[j]
    <3>1. \A j \in Pullers : EndOf(timing[j]) <= given[j]
      BY DEF QueueInv
    <3> QED BY <1>3, <1>6, <1>7, <3>1
  <2> QED BY <1>1, <1>3, <2>1, <2>2, <2>3 DEF QueueInv, EndOf
<1>9. Follows'
  <2>1. ASSUME NEW e \in Nat, NEW m \in Pullers, NEW j \in 1 .. n, triggerq[j].id = m,
               e <= triggerq[j].ts.e
        PROVE  \/ e <= EndOf(timing'[m])
               \/ /\ j - 1 \in 1 .. (n - 1) /\ triggerq'[j - 1].id = m
                  /\ e <= triggerq'[j - 1].ts.e
    <3>1. CASE j = 1
      <4>1. m = i /\ e <= t.e
        BY <1>i, <1>t, <1>1, <2>1, <3>1
      <4> QED BY <1>2, <1>5, <1>6, <4>1
    <3>2. CASE j # 1
      <4>1. j - 1 \in 1 .. (n - 1) /\ (j - 1) + 1 = j
        BY <3>2
      <4> QED BY <1>1, <2>1, <4>1
    <3> QED BY <3>1, <3>2
  <2>2. ASSUME NEW k \in 1 .. (n - 1)
        PROVE  LET m == triggerq'[k].id IN
               \/ triggerq'[k].ts.s <= EndOf(timing'[m])
               \/ triggerq'[k].ts.s <= EndOf(timing'[3 - m])
               \/ \E j \in 1 .. (n - 1) :
                    j < k /\ triggerq'[j].id = m /\ triggerq'[k].ts.s <= triggerq'[j].ts.e
    <3>1. PICK m \in Pullers : m = triggerq[k + 1].id /\ m = triggerq'[k].id
      BY <1>1
    <3>2. PICK s \in Nat : s = triggerq[k + 1].ts.s /\ s = triggerq'[k].ts.s
      BY <1>1
    <3>3. \/ s <= EndOf(timing[m]) \/ s <= EndOf(timing[3 - m])
          \/ \E j \in 1 .. n : j < k + 1 /\ triggerq[j].id = m /\ s <= triggerq[j].ts.e
      <4>1. PICK h \in DOMAIN triggerq : h = k + 1
        BY <1>1
      <4>2. triggerq[h].id = m /\ triggerq[h].ts.s = s
        BY <3>1, <3>2, <4>1
      <4>3. \/ s <= EndOf(timing[m]) \/ s <= EndOf(timing[3 - m])
            \/ \E j \in DOMAIN triggerq : j < h /\ triggerq[j].id = m /\ s <= triggerq[j].ts.e
        BY <4>2 DEF AndInv, Follows
      <4> QED BY <1>1, <4>1, <4>3
    <3>4. CASE s <= EndOf(timing[m]) \/ s <= EndOf(timing[3 - m])
      <4>1. 3 - m \in Pullers
        BY SentFacts
      <4>2. s <= EndOf(timing'[m]) \/ s <= EndOf(timing'[3 - m])
        BY <1>5, <3>4, <4>1
      <4> QED BY <3>1, <3>2, <4>2
    <3>5. ASSUME NEW j \in 1 .. n, j < k + 1, triggerq[j].id = m, s <= triggerq[j].ts.e
          PROVE  \/ s <= EndOf(timing'[m])
                 \/ \E h \in 1 .. (n - 1) :
                      h < k /\ triggerq'[h].id = m /\ s <= triggerq'[h].ts.e
      <4>1. j - 1 < k
        BY <3>5
      <4> QED BY <2>1, <3>5, <4>1
    <3> QED BY <3>1, <3>2, <3>3, <3>4, <3>5
  <2>3. ASSUME NEW m \in Pullers
        PROVE  \/ given[m] <= EndOf(timing'[m])
               \/ \E j \in 1 .. (n - 1) :
                    triggerq'[j].id = m /\ given[m] <= triggerq'[j].ts.e
    <3>1. \/ given[m] <= EndOf(timing[m])
          \/ \E j \in 1 .. n : triggerq[j].id = m /\ given[m] <= triggerq[j].ts.e
      BY <1>1 DEF AndInv, Follows
    <3> QED BY <1>5, <2>1, <3>1
  <2> QED BY <1>1, <1>3, <2>2, <2>3 DEF Follows, EndOf
<1>10. ASSUME NEW j \in Pullers
       PROVE  NoLeap(timing'[j], EndOf(timing'[3 - j]), p)
  <2>1. 3 - j \in Pullers /\ 3 - j # j
    BY SentFacts
  <2>2. NoLeap(timing[j], EndOf(timing[3 - j]), p)
    BY <1>p DEF AndInv
  <2>3. CASE j = i
    <3>1. t.s <= EndOf(timing[i]) \/ t.s <= EndOf(timing[3 - i])
      <4>1. ~(\E k \in DOMAIN triggerq : k < 1)
        BY <1>1
      <4> QED BY <1>i, <1>t, <1>1, <4>1 DEF AndInv, Follows
    <3> QED BY <1>2, <1>3, <1>4, <1>5, <2>1, <2>2, <2>3, <3>1, ExtendedNoLeap
  <2>4. CASE j # i
    <3>1. timing'[j] = timing[j]
      BY <1>3, <2>4
    <3> QED BY <1>4, <1>5, <2>1, <2>2, <3>1, LessLeap
  <2> QED BY <2>3, <2>4
<1>11. \A j \in Pullers : p <= EndOf(timing'[j])
  <2>1. \A j \in Pullers : p <= EndOf(timing[j])
    BY <1>p DEF AndInv
  <2> QED BY <1>5, <2>1
<1>12. ASSUME NEW j \in Pullers, NEW x \in sent'[j]
       PROVE  x.e <= EndOf(timing'[j])
  <2>1. CASE x \in sent[j]
    <3>1. x.e \in Nat /\ x.e <= EndOf(timing[j])
      BY <2>1, SentFacts DEF AndInv
    <3> QED BY <1>5, <3>1
  <2>2. CASE j = i /\ x = t
    BY <1>6, <2>2
  <2> QED BY <1>2, <2>1, <2>2
<1>13. ASSUME NEW j \in Pullers, NEW u \in T, Holds(sent'[j], u)
       PROVE  Holds(sent[j], u) \/ (j = i /\ t.s <= u /\ u < t.e)
  BY <1>2, <1>13 DEF Holds
<1>14. ASSUME NEW j \in Pullers, NEW u \in T, p <= u, Holds(sent'[j], u)
       PROVE  Listed(timing'[j], u)
  <2>1. CASE Holds(sent[j], u)
    <3>1. Listed(timing[j], u)
      BY <1>p, <1>14, <2>1 DEF AndInv
    <3>2. CASE j = i
      BY <1>2, <1>3, <1>4, <3>1, <3>2, ExtendedListed
    <3>3. CASE j # i
      BY <1>3, <3>1, <3>3
    <3> QED BY <3>2, <3>3
  <2>2. CASE j = i /\ t.s <= u /\ u < t.e
    BY <1>2, <1>3, <1>4, <1>7, <2>2, ExtendedListed
  <2> QED BY <1>13, <1>14, <2>1, <2>2
<1>15. ASSUME NEW u \in T, u < p, \A j \in Pullers : Holds(sent'[j], u)
       PROVE  Holds(Range(out), u)
  <2>1. ~(t.s <= u)
    BY <1>2, <1>5, <1>7, <1>15 DEF T
  <2>2. \A j \in Pullers : Holds(sent[j], u)
    BY <1>13, <1>15, <2>1
  <2> QED BY <1>p, <1>15, <2>2 DEF AndInv
<1>16. ASSUME pc' = "idle"
       PROVE  \E j \in Pullers : EndOf(timing'[j]) <= p
  <2>1. pc = "idle" /\ ~Tips(timing[i], t)
    BY <1>3, <1>16 DEF AndStep
  <2>2. PICK j \in Pullers : EndOf(timing[j]) <= p
    BY <1>p, <2>1 DEF AndInv
  <2>3. CASE j = i
    <3>1. EndOf(timing[i]) = p
      BY <1>5, <1>7, <2>2, <2>3
    <3>2. EndOf(Extended(timing[i], t)) <= p
      BY <1>p, <1>2, <1>4, <2>1, <3>1, TipsWhenNeeded DEF Types
    <3> QED BY <1>3, <3>2
  <2>4. CASE j # i
    BY <1>3, <2>2, <2>4
  <2> QED BY <2>3, <2>4
<1>17. AndInv'
  BY <1>p, <1>3, <1>9, <1>10, <1>11, <1>12, <1>14, <1>15, <1>16
     DEF AndInv, NoLeap, EndOf, Holds, Listed
<1> QED BY <1>8, <1>17

LEMMA CombineAnd ==
  ASSUME Types, OutInv, QueueInv, AndInv, AndCombine
  PROVE  QueueInv' /\ AndInv'
<1>0. PICK a \in T, b \in T : Combined(a, b)
  BY CombineIs
<1>p. PICK p \in T : p = previous_tick
  BY DEF Types
<1>n. a \in Nat /\ b \in Nat /\ p \in Nat
  BY DEF T
<1>1. UNCHANGED <<given, triggerq, sent>>
  BY <1>0 DEF Combined
<1>2. ASSUME NEW i \in Pullers
      PROVE  /\ GoodList(timing[i]) /\ GoodList(timing'[i])
             /\ EndOf(timing'[i]) = EndOf(timing[i])
             /\ timing'[i][1].e <= p => EndOf(timing'[i]) <= p
             /\ \A u \in T : p <= u /\ Listed(timing[i], u) => Listed(timing'[i], u)
             /\ \A o \in T : NoLeap(timing[i], o, p) => NoLeap(timing'[i], o, p)
  <2>1. GoodList(timing[i]) /\ timing'[i] = CleanedUp(timing[i]) /\ previous_tick \in T
    BY <1>0 DEF Types, Combined
  <2> QED BY <1>p, <2>1, CleanedGood
<1>3. ASSUME NEW i \in Pullers
      PROVE  /\ EndOf(timing[i]) \in T /\ EndOf(timing'[i]) \in Nat
             /\ 1 \in DOMAIN timing'[i]
             /\ timing'[i][1].s \in Nat /\ timing'[i][1].e \in Nat
             /\ timing'[i][1].s <= timing'[i][1].e /\ timing'[i][1].e <= EndOf(timing'[i])
  <2>1. /\ EndOf(timing[i]) \in T /\ EndOf(timing'[i]) \in T /\ 1 \in DOMAIN timing'[i]
        /\ timing'[i][1].s \in T /\ timing'[i][1].e \in T /\ timing'[i][1].endtime \in T
        /\ timing'[i][1].s <= timing'[i][1].e /\ timing'[i][1].e <= timing'[i][1].endtime
        /\ timing'[i][1].endtime <= EndOf(timing'[i])
    BY <1>2, ListFacts
  <2> QED BY <2>1 DEF T
<1>4. ASSUME NEW i \in Pullers, NEW u \in T, Listed(timing'[i], u)
      PROVE  timing'[i][1].s <= u
  <2>1. PICK k \in DOMAIN timing'[i] : timing'[i][k].s <= u
    BY <1>4 DEF Listed
  <2>2. timing'[i][1].s <= timing'[i][k].s /\ timing'[i][k].s \in Nat
    <3>1. /\ DOMAIN timing'[i] = 1 .. Len(timing'[i]) /\ 1 \in DOMAIN timing'[i]
          /\ Len(timing'[i]) \in Nat
          /\ timing'[i][k].s \in Nat /\ timing'[i][1].endtime \in Nat
          /\ timing'[i][1].e <= timing'[i][1].endtime
      BY <1>2, ListFacts DEF T
    <3>2. CASE k = 1
      BY <1>3, <3>1, <3>2
    <3>3. CASE 1 < k
      <4>1. timing'[i][1].endtime <= timing'[i][k].s
        BY <1>2, <3>1, <3>3 DEF GoodList
      <4> QED BY <1>3, <3>1, <4>1
    <3> QED BY <3>1, <3>2, <3>3
  <2> QED BY <1>3, <2>1, <2>2 DEF T
<1>5. QueueInv'
  <2>1. \A i \in Pullers : EndOf(timing'[i]) <= given[i]
    BY <1>2 DEF QueueInv
  <2>2. \A k \in DOMAIN triggerq : EndOf(timing'[triggerq[k].id]) <= triggerq[k].ts.s
    BY <1>2, QueueFacts DEF QueueInv
  <2> QED BY <1>1, <2>1, <2>2 DEF QueueInv, EndOf
<1>6. Follows'
  <2>1. ASSUME NEW k \in DOMAIN triggerq, NEW i \in Pullers, i = triggerq[k].id
        PROVE  \/ triggerq[k].ts.s <= EndOf(timing'[i])
               \/ triggerq[k].ts.s <= EndOf(timing'[3 - i])
               \/ \E j \in DOMAIN triggerq :
                    j < k /\ triggerq[j].id = i /\ triggerq[k].ts.s <= triggerq[j].ts.e
    <3>1. 3 - i \in Pullers
      BY SentFacts
    <3> QED BY <1>2, <2>1, <3>1 DEF AndInv, Follows
  <2>2. \A i \in Pullers :
          \/ given[i] <= EndOf(timing'[i])
          \/ \E j \in DOMAIN triggerq : triggerq[j].id = i /\ given[i] <= triggerq[j].ts.e
    BY <1>2 DEF AndInv, Follows
  <2> QED BY <1>1, <2>1, <2>2, QueueFacts DEF Follows, EndOf
<1>7. \A i \in Pullers : NoLeap(timing'[i], EndOf(timing'[3 - i]), p)
  <2>1. ASSUME NEW i \in Pullers
        PROVE  NoLeap(timing'[i], EndOf(timing'[3 - i]), p)
    <3>1. 3 - i \in Pullers
      BY SentFacts
    <3>2. NoLeap(timing[i], EndOf(timing[3 - i]), p)
      BY <1>p DEF AndInv
    <3> QED BY <1>2, <1>3, <3>1, <3>2
  <2> QED BY <2>1
<1>8. \A i \in Pullers : \A x \in sent'[i] : x.e <= EndOf(timing'[i])
  BY <1>1, <1>2 DEF AndInv
<1>9. ASSUME NEW i \in Pullers, NEW u \in T, p <= u, Holds(sent[i], u)
      PROVE  Listed(timing'[i], u)
  BY <1>p, <1>2, <1>9 DEF AndInv
<1>10. ASSUME NEW u \in T, p <= u, \A i \in Pullers : Holds(sent[i], u)
       PROVE  a <= u
  <2>1. \A i \in Pullers : timing'[i][1].s <= u
    BY <1>4, <1>9, <1>10
  <2> QED BY <1>p, <1>0, <1>10, <2>1 DEF Combined
<1>11. ASSUME NEW u \in T, u < p, \A i \in Pullers : Holds(sent[i], u)
       PROVE  Holds(Range(out), u)
  BY <1>p, <1>11 DEF AndInv
<1>12. PICK q \in Nat : /\ q = previous_tick' /\ p <= q
                        /\ \A i \in Pullers : q <= EndOf(timing'[i])
                        /\ \A u \in T : u < q /\ (\A i \in Pullers : Holds(sent[i], u))
                             => Holds(Range(out'), u)
                        /\ pc' = "idle" => \E i \in Pullers : EndOf(timing'[i]) <= q
  <2>1. pc = "combine" /\ p <= a
    BY <1>0, <1>p DEF Combined
  <2>2. CASE /\ a < b \/ (a = b /\ p < a)
             /\ out' = Append(out, Span(a, b)) /\ previous_tick' = b /\ pc' = pc
    <3>1. Range(out') = Range(out) \cup {Span(a, b)}
      <4>1. /\ out \in Seq(Sent) /\ Forward(out) /\ \A k \in DOMAIN out : out[k].e <= p
        BY <1>p DEF Types, OutInv
      <4>2. a <= b
        BY <1>n, <2>2
      <4> QED BY <2>1, <2>2, <4>1, <4>2, AppendForward
    <3>2. ASSUME NEW u \in T, u < b, \A i \in Pullers : Holds(sent[i], u)
          PROVE  Holds(Range(out'), u)
      <4>1. CASE u < p
        BY <1>11, <3>1, <3>2, <4>1, HoldsMore
      <4>2. CASE p <= u
        <5>1. Span(a, b) \in Range(out') /\ Span(a, b).s = a /\ Span(a, b).e = b
          BY <3>1 DEF Span
        <5>2. a <= u
          BY <1>10, <3>2, <4>2
        <5> QED BY <3>2, <5>1, <5>2 DEF Holds
      <4> QED BY <1>n, <4>1, <4>2 DEF T
    <3>3. \A i \in Pullers : b <= EndOf(timing'[i])
      <4>1. \A i \in Pullers : b <= timing'[i][1].e
        BY <1>0 DEF Combined
      <4> QED BY <1>n, <1>3, <4>1
    <3>4. p <= b /\ pc' # "idle"
      BY <1>n, <2>1, <2>2
    <3> QED BY <1>n, <2>2, <3>2, <3>3, <3>4
  <2>3. CASE b < a /\ p < a /\ previous_tick' = a /\ UNCHANGED <<out, pc>>
    <3>1. PICK i \in Pullers : a = timing'[i][1].s
      BY <1>0, <1>p, <1>n, <2>3 DEF Combined
    <3>2. a <= EndOf(timing'[i])
      BY <1>n, <1>3, <3>1
    <3>3. a <= EndOf(timing'[3 - i])
      <4>1. 1 \in DOMAIN timing'[i] /\ ~(timing'[i][1].s <= p)
        BY <1>n, <1>3, <2>3, <3>1
      <4> QED BY <1>7, <3>1, <4>1 DEF NoLeap
    <3>4. \A j \in Pullers : a <= EndOf(timing'[j])
      BY <3>2, <3>3, SentFacts
    <3>5. ASSUME NEW u \in T, u < a, \A j \in Pullers : Holds(sent[j], u)
          PROVE  Holds(Range(out'), u)
      <4>1. ~(p <= u)
        BY <1>n, <1>10, <3>5 DEF T
      <4>2. u < p
        BY <1>n, <4>1 DEF T
      <4> QED BY <1>11, <2>3, <3>5, <4>2
    <3>6. pc' # "idle"
      BY <2>1, <2>3
    <3> QED BY <1>n, <2>1, <2>3, <3>4, <3>5, <3>6
  <2>4. CASE b <= a /\ a = p /\ UNCHANGED <<out, previous_tick>>
    <3>1. PICK i \in Pullers : b = timing'[i][1].e
      BY <1>0 DEF Combined
    <3>2. EndOf(timing'[i]) <= p
      BY <1>2, <2>4, <3>1
    <3>3. \A j \in Pullers : p <= EndOf(timing'[j])
      BY <1>p, <1>2 DEF AndInv
    <3> QED BY <1>n, <1>p, <1>11, <2>4, <3>2, <3>3
  <2> QED BY <1>0, <1>p, <2>2, <2>3, <2>4 DEF Combined
<1>13. \A i \in Pullers : NoLeap(timing'[i], EndOf(timing'[3 - i]), q)
  <2>1. ASSUME NEW i \in Pullers
        PROVE  NoLeap(timing'[i], EndOf(timing'[3 - i]), q)
    <3>1. 3 - i \in Pullers /\ EndOf(timing'[3 - i]) \in Nat
      BY <1>3, SentFacts
    <3>2. EndOf(timing'[3 - i]) <= EndOf(timing'[3 - i])
      BY <3>1
    <3> QED BY <1>n, <1>2, <1>7, <1>12, <3>1, <3>2, LessLeap
  <2> QED BY <2>1
<1>14. ASSUME NEW i \in Pullers, NEW u \in T, q <= u, Holds(sent[i], u)
       PROVE  Listed(timing'[i], u)
  <2>1. p <= u
    BY <1>n, <1>12, <1>14 DEF T
  <2> QED BY <1>9, <1>14, <2>1
<1>15. AndInv'
  BY <1>1, <1>6, <1>8, <1>12, <1>13, <1>14 DEF AndInv, NoLeap, EndOf, Holds, Listed
<1> QED BY <1>5, <1>15

LEMMA NextNothingMissed ==
  ASSUME Unregulated, NoLead, Types, OutInv, Next,
         wiring.kind = "or" => OrInv,
         wiring.kind = "and" => QueueInv /\ AndInv
  PROVE  /\ wiring'.kind = "or" => OrInv'
         /\ wiring'.kind = "and" => QueueInv' /\ AndInv'
<1>1. wiring' = wiring
  BY StepCases
<1>2. ASSUME NEW i \in Pullers, NEW a \in Atoms, PullStep(i, a)
      PROVE  /\ wiring.kind = "or" => OrInv'
             /\ wiring.kind = "and" => QueueInv' /\ AndInv'
  BY <1>2, PullOr, PullAnd
<1>3. ASSUME NEW a \in Atoms, OrStep(a)
      PROVE  wiring.kind = "or" /\ OrInv'
  BY <1>3, DeliverOr DEF OrStep
<1>4. ASSUME NEW a \in Atoms, AndStep(a)
      PROVE  wiring.kind = "and" /\ QueueInv' /\ AndInv'
  BY <1>4, DeliverAnd DEF AndStep
<1>5. CASE AndCombine
  <2>1. wiring.kind = "and" => QueueInv' /\ AndInv'
    BY <1>5, CombineAnd
  <2>2. wiring.kind # "or"
    BY <1>5 DEF AndCombine, OrInv
  <2> QED BY <1>1, <2>1, <2>2
<1>6. CASE UNCHANGED vars
  <2>1. UNCHANGED <<given, triggerq, pc, timing, previous_tick, sent, out>>
    BY <1>6 DEF vars, joinVars
  <2> QED BY <1>1, <2>1
        DEF OrInv, QueueInv, AndInv, Follows, NoLeap, EndOf, Holds, Listed
<1> QED BY <1>1, <1>2, <1>3, <1>4, <1>5, <1>6, StepCases

LEMMA NothingMissedFollows ==
  ASSUME Unregulated, Types,
         wiring.kind = "or" => OrInv,
         wiring.kind = "and" => AndInv
  PROVE  NothingMissed
<1>1. wiring \in Wirings /\ wiring.regulator = "none" /\ wiring.kind \in {"and", "or"}
  BY TriggerAssumption DEF Unregulated, Types
<1>2. FirstTick .. MaxTick = T
  BY <1>1 DEF FirstTick, T
<1>3. ASSUME NEW u \in T, NEW i \in Pullers, NEW e \in Nat, Holds(sent[i], u),
             \A x \in sent[i] : x.e <= e
      PROVE  u < e
  <2>1. PICK x \in sent[i] : u < x.e
    BY <1>3 DEF Holds
  <2>2. x.e <= e /\ x.e \in Nat /\ u \in Nat
    BY <1>3, SentFacts DEF T
  <2> QED BY <2>1, <2>2
<1>p. PICK p \in Nat : p = previous_tick
  BY DEF Types, T
<1>4. ASSUME wiring.kind = "or", NEW u \in T, NEW i \in Pullers, Holds(sent[i], u)
      PROVE  Holds(Range(out), u)
  <2>1. u < p
    BY <1>p, <1>3, <1>4 DEF OrInv
  <2> QED BY <1>p, <1>4, <2>1 DEF OrInv
<1>5. ASSUME wiring.kind = "and", pc = "idle", NEW u \in T, \A i \in Pullers : Holds(sent[i], u)
      PROVE  Holds(Range(out), u)
  <2>1. PICK i \in Pullers : EndOf(timing[i]) <= p
    BY <1>p, <1>5 DEF AndInv
  <2>2. u < EndOf(timing[i]) /\ EndOf(timing[i]) \in Nat
    BY <1>3, <1>5, EndIsTick DEF AndInv
  <2>3. u < p
    BY <2>1, <2>2 DEF T
  <2> QED BY <1>p, <1>5, <2>3 DEF AndInv
<1>6. pc # "combine" => pc = "idle"
  BY DEF Types
<1> QED BY <1>1, <1>2, <1>4, <1>5, <1>6 DEF NothingMissed

(* ConditionOr passes on all time for which a puller triggered, and        *)
(* ConditionAnd, once it has handled a trigger, all time both triggered    *)
(* for, though newSpan() lets trigger() look for more only when the new    *)
(* span can tip the balance: for spans of any size, with pullers that      *)
(* leave a gap only up to a time the other has reached.                    *)
THEOREM NothingIsMissed == Spec => [](Unregulated /\ NoLead => NothingMissed)
<1> DEFINE J == /\ Types /\ OutInv
                /\ wiring.kind = "or" => OrInv
                /\ wiring.kind = "and" => QueueInv /\ AndInv
           I == Unregulated /\ NoLead => J
<1>1. Init => I
  BY InitTypes, InitOut, InitOr, InitAnd
<1>2. I /\ [Next]_<<vars, wiring>> => I'
  <2>1. SUFFICES ASSUME I, [Next]_<<vars, wiring>>, Unregulated', NoLead'
                 PROVE  J'
    OBVIOUS
  <2>2. Unregulated /\ NoLead
    BY <2>1 DEF Next, Unregulated, NoLead
  <2>3. CASE Next
    BY <2>1, <2>2, <2>3, NextTypes, NextOut, NextNothingMissed
  <2>4. CASE UNCHANGED <<vars, wiring>>
    <3>1. (Types /\ OutInv)'
      BY <2>1, <2>2, <2>4 DEF vars, regVars, joinVars, Types, OutInv
    <3>2. UNCHANGED <<wiring, given, triggerq, pc, timing, previous_tick, sent, out>>
      BY <2>4 DEF vars, joinVars
    <3> QED BY <2>1, <2>2, <3>1, <3>2
          DEF OrInv, QueueInv, AndInv, Follows, NoLeap, EndOf, Holds, Listed
  <2> QED BY <2>1, <2>3, <2>4
<1>3. I => (Unregulated /\ NoLead => NothingMissed)
  BY NothingMissedFollows
<1> QED BY <1>1, <1>2, <1>3, PTL DEF Spec


-----------------------------------------------------------------------------
(* The regulators.                                                         *)

\* The circumstances: offset and period within the time that is looked at, so
\* that no tick wraps around; and either triggers without gaps and changes of
\* the period from 0, or gaps, offset and changes at multiples of one period.
Steady ==
  /\ wiring.regulator # "none"
  /\ wiring.offset <= MaxTick /\ wiring.period <= MaxTick
  /\ \A c \in wiring.changes : c[1] <= MaxTick /\ c[2] <= MaxTick
  /\ \/ "gapless" \in wiring.calm /\ \A c \in wiring.changes : c[1] = 0
     \/ /\ "gapless" \notin wiring.calm /\ "aligned" \in wiring.calm
        /\ wiring.offset % wiring.period = 0
        /\ \A c \in wiring.changes : c[2] = wiring.period /\ c[1] % wiring.period = 0

\* A change that waits starts from 0, or not before the end of the current period.
ChangesAhead == new_ts # <<>> => new_ts[1] = 0 \/ ts.e <= new_ts[1]

Gapless(w) == "gapless" \in w.calm

\* the regulator has been triggered up to here
Reach == IF pc = "advance" THEN now.e ELSE prev_end

QueueAtoms == [to : {"regulator", "join"}, id : Pullers, ts : Times]

\* the time specification is that of one period, and does not wrap around
IsPeriod(x) ==
  /\ x = [s |-> x.s, e |-> x.s + x.p, p |-> x.p]
  /\ x.s \in Nat /\ x.p \in 1 .. MaxTick /\ x.s + x.p <= 2 * MaxTick

RegulatorTypes ==
  /\ wiring \in Wirings /\ given \in [Pullers -> T]
  /\ triggerq \in Seq(QueueAtoms)
  /\ pc \in {"idle", "advance", "combine"} /\ now \in Times /\ prev_end \in T
  /\ pc = "advance" => now.e \in T
  /\ new_ts \in wiring.changes \cup {<<>>}
  /\ IsPeriod(ts) /\ regular \in Seq(Times)

\* the start of a span behind a gap
BehindGap(w, s) == ~Gapless(w) /\ s % w.period = 0 /\ s >= w.offset + w.period

ForRegulator(a) == a.to = "regulator"

\* The regulator's atoms in queue q follow one another from tick r to g.
Awaits(w, q, r, g) ==
  /\ r <= g
  /\ \A k \in 1 .. Len(q) : ForRegulator(q[k]) =>
       /\ r <= q[k].ts.s /\ q[k].ts.s <= q[k].ts.e /\ q[k].ts.e <= g
       /\ \/ BehindGap(w, q[k].ts.s)
          \/ q[k].ts.s <= r
          \/ \E j \in 1 .. Len(q) : j < k /\ ForRegulator(q[j]) /\ q[k].ts.s <= q[j].ts.e
       /\ \A j \in 1 .. Len(q) : j < k /\ ForRegulator(q[j]) => q[j].ts.e <= q[k].ts.s
  /\ \/ g <= r
     \/ \E j \in 1 .. Len(q) : ForRegulator(q[j]) /\ g <= q[j].ts.e

\* u is a whole number of periods p
Multiple(u, p) == \E n \in Nat : u = n * p

Ends(l, u) == \A k \in DOMAIN l : l[k].e <= u

\* What was given goes forward, up to the end of the current period and to the
\* period in which tick r lies.
Gives(w, l, x, r) ==
  /\ Forward(l) /\ Ends(l, x.e)
  /\ w.regulator = "regular" => Ends(l, r)
  /\ ~Gapless(w) =>
       /\ x.p = w.period /\ Multiple(x.s, w.period)
       /\ \A k \in DOMAIN l : Multiple(l[k].e, w.period) /\ l[k].e < r + w.period

\* every tick from f on is given, up to the end of the current period
Covers(f, l, x) == \A u \in Nat : f <= u /\ u < x.e => Holds(Range(l), u)

\* what is left to give is less than a period, or nothing
CaughtUp(w, x, r) == IF w.regulator = "greedy" THEN r <= x.e ELSE r < x.e + x.p

RegulatorInv ==
  /\ RegulatorTypes
  /\ Awaits(wiring, triggerq, Reach, given[1])
  /\ Gives(wiring, regular, ts, Reach)
  /\ Gapless(wiring) => Covers(FirstTick, regular, ts)
  /\ pc # "advance" /\ new_ts = <<>> => CaughtUp(wiring, ts, prev_end)

LEMMA SteadyFacts ==
  ASSUME wiring \in Wirings, Steady
  PROVE  /\ MaxTick \in Nat \ {0} /\ TickMod \in Nat /\ TickMod > 4 * MaxTick
         /\ wiring.regulator \in {"regular", "greedy"} /\ wiring.offset \in 0 .. MaxTick
         /\ wiring.period \in 1 .. MaxTick
         /\ \A c \in wiring.changes : c[1] \in 0 .. MaxTick /\ c[2] \in 1 .. MaxTick /\ c # <<>>
         /\ \A i \in Pullers : wiring.spans[i] \subseteq Nat
         /\ Gapless(wiring) => \A c \in wiring.changes : c[1] = 0
         /\ ~Gapless(wiring) =>
              /\ "aligned" \in wiring.calm /\ wiring.offset % wiring.period = 0
              /\ \A c \in wiring.changes : c[2] = wiring.period /\ c[1] % wiring.period = 0
<1>1. /\ wiring.regulator \in {"none", "regular", "greedy"} /\ wiring.offset \in 0 .. (TickMod - 1)
      /\ wiring.period \in 1 .. (TickMod - 1) /\ wiring.changes \subseteq Nat \X (Nat \ {0})
      /\ wiring.spans \in [{1, 2} -> SUBSET Nat]
      /\ MaxTick \in Nat /\ TickMod \in Nat /\ TickMod > 4 * MaxTick
  BY TriggerAssumption
<1>2. \A c \in wiring.changes : c[1] \in Nat /\ c[2] \in Nat \ {0} /\ c # <<>>
  BY <1>1
<1>3. \A i \in Pullers : wiring.spans[i] \subseteq Nat
  BY <1>1 DEF Pullers
<1>4. MaxTick # 0
  BY <1>1 DEF Steady
<1>5. /\ Gapless(wiring) => \A c \in wiring.changes : c[1] = 0
      /\ ~Gapless(wiring) =>
              /\ "aligned" \in wiring.calm /\ wiring.offset % wiring.period = 0
              /\ \A c \in wiring.changes : c[2] = wiring.period /\ c[1] % wiring.period = 0
  BY DEF Steady, Gapless
<1>6. \A c \in wiring.changes : c[1] <= MaxTick /\ c[2] <= MaxTick
  BY DEF Steady
<1>7. \A c \in wiring.changes : c[1] \in 0 .. MaxTick /\ c[2] \in 1 .. MaxTick
  BY <1>1, <1>2, <1>6
<1>8. wiring.regulator # "none" /\ wiring.offset <= MaxTick /\ wiring.period <= MaxTick
  BY DEF Steady
<1>9. wiring.offset \in 0 .. MaxTick /\ wiring.period \in 1 .. MaxTick
  BY <1>1, <1>8
<1> QED BY <1>1, <1>2, <1>3, <1>4, <1>5, <1>7, <1>8, <1>9

-----------------------------------------------------------------------------
(* Whole numbers of periods.                                               *)

LEMMA IsMultiple ==
  ASSUME NEW u \in Nat, NEW p \in Nat \ {0}, u % p = 0
  PROVE  Multiple(u, p)
<1>1. u \div p \in Nat /\ u = (p * (u \div p)) + (u % p)
  OBVIOUS
<1>2. PICK q \in Nat : q = u \div p
  BY <1>1
<1>3. u = p * q
  BY <1>1, <1>2
<1>4. u = q * p
  BY <1>3
<1> QED BY <1>4 DEF Multiple

LEMMA MultipleNext ==
  ASSUME NEW u \in Nat, NEW p \in Nat \ {0}, Multiple(u, p)
  PROVE  Multiple(u + p, p)
<1>1. PICK n \in Nat : u = n * p
  BY DEF Multiple
<1>2. u + p = (n + 1) * p
  BY <1>1
<1> QED BY <1>2 DEF Multiple

LEMMA MultipleBelow ==
  ASSUME NEW u \in Nat, NEW v \in Nat, NEW p \in Nat \ {0}, Multiple(u, p), Multiple(v, p), u < v + p
  PROVE  u <= v
<1>1. PICK n \in Nat : u = n * p
  BY DEF Multiple
<1>2. PICK m \in Nat : v = m * p
  BY DEF Multiple
<1>3. SUFFICES ASSUME n >= m + 1 PROVE FALSE
  <2>1. n <= m => n * p <= m * p
    OBVIOUS
  <2> QED BY <1>1, <1>2, <2>1
<1>4. n * p >= (m + 1) * p
  BY <1>3
<1>5. (m + 1) * p = m * p + p
  OBVIOUS
<1> QED BY <1>1, <1>2, <1>4, <1>5

\* the distance of two of them, in whole periods
LEMMA MultipleApart ==
  ASSUME NEW u \in Nat, NEW v \in Nat, NEW p \in Nat \ {0}, Multiple(u, p), Multiple(v, p), u <= v
  PROVE  ((v - u) \div p) * p = v - u
<1>1. PICK n \in Nat : u = n * p
  BY DEF Multiple
<1>2. PICK m \in Nat : v = m * p
  BY DEF Multiple
<1>3. PICK d \in Nat : d = v - u
  OBVIOUS
<1>4. PICK q \in Nat : q = d \div p
  BY <1>3
<1>5. p * q <= d /\ d < p * q + p
  BY <1>3, <1>4
<1>6. p * q = q * p /\ m * p = n * p + d
  BY <1>1, <1>2, <1>3
<1>7. PICK k \in Int : k = m - n
  OBVIOUS
<1>8. d = k * p
  BY <1>6, <1>7
<1>9. q = k
  <2>1. ~(k >= q + 1)
    <3>1. k >= q + 1 => k * p >= (q + 1) * p
      OBVIOUS
    <3>2. (q + 1) * p = q * p + p
      OBVIOUS
    <3> QED BY <1>3, <1>5, <1>6, <1>8, <3>1, <3>2
  <2>2. ~(q >= k + 1)
    <3>1. q >= k + 1 => q * p >= (k + 1) * p
      OBVIOUS
    <3>2. (k + 1) * p = k * p + p
      OBVIOUS
    <3> QED BY <1>3, <1>5, <1>6, <1>8, <3>1, <3>2
  <2> QED BY <2>1, <2>2
<1> QED BY <1>3, <1>4, <1>8, <1>9

\* the start of the next period p from the end e on
LEMMA NextStart ==
  ASSUME NEW e \in Nat \ {0}, NEW p \in Nat \ {0}
  PROVE  LET start == (1 + (e - 1) \div p) * p IN
         /\ start \in Nat /\ e <= start /\ start < e + p /\ p <= start
         /\ Multiple(e, p) => start = e
<1>1. PICK q \in Nat : q = (e - 1) \div p
  OBVIOUS
<1>2. p * q <= e - 1 /\ e - 1 < p * q + p
  BY <1>1
<1>3. PICK start \in Nat : start = (1 + q) * p
  OBVIOUS
<1>4. start = p * q + p /\ p * q \in Nat
  BY <1>3
<1>5. e <= start /\ start < e + p /\ p <= start
  BY <1>2, <1>4
<1>6. Multiple(start, p)
  BY <1>3 DEF Multiple
<1>7. Multiple(e, p) => start = e
  BY <1>5, <1>6, MultipleBelow
<1> QED BY <1>1, <1>3, <1>5, <1>7

-----------------------------------------------------------------------------
(* The atoms on their way to the regulator.                                *)

LEMMA AtomFacts ==
  ASSUME NEW q \in Seq(QueueAtoms)
  PROVE  /\ Len(q) \in Nat /\ DOMAIN q = 1 .. Len(q)
         /\ \A k \in 1 .. Len(q) : q[k] \in QueueAtoms /\ q[k].ts.s \in Nat /\ q[k].ts.e \in Nat
<1>1. Len(q) \in Nat /\ DOMAIN q = 1 .. Len(q) /\ \A k \in 1 .. Len(q) : q[k] \in QueueAtoms
  OBVIOUS
<1>2. \A a \in QueueAtoms : a.ts.s \in Nat /\ a.ts.e \in Nat
  BY DEF QueueAtoms, Times
<1> QED BY <1>1, <1>2

\* what the combination is to get is not for the regulator
LEMMA AwaitsJoins ==
  ASSUME NEW w, NEW q \in Seq(QueueAtoms), NEW r, NEW g, Awaits(w, q, r, g),
         NEW z \in Seq(QueueAtoms), \A k \in 1 .. Len(z) : z[k].to = "join"
  PROVE  q \o z \in Seq(QueueAtoms) /\ Awaits(w, q \o z, r, g)
<1>1. PICK n \in Nat : n = Len(q)
  OBVIOUS
<1>2. PICK m \in Nat : m = Len(z)
  OBVIOUS
<1>3. PICK x : x = q \o z
  OBVIOUS
<1>4. /\ x \in Seq(QueueAtoms) /\ Len(x) = n + m
      /\ \A k \in 1 .. n : x[k] = q[k]
      /\ \A k \in (n + 1) .. (n + m) : x[k] = z[k - n]
  BY <1>1, <1>2, <1>3
<1>5. \A k \in 1 .. (n + m) : ForRegulator(x[k]) => k \in 1 .. n
  <2> SUFFICES ASSUME NEW k \in (n + 1) .. (n + m) PROVE ~ForRegulator(x[k])
    OBVIOUS
  <2>1. x[k] = z[k - n] /\ k - n \in 1 .. m
    BY <1>4
  <2> QED BY <1>2, <2>1 DEF ForRegulator
<1>6. 1 .. n \subseteq 1 .. (n + m)
  OBVIOUS
<1>7. Awaits(w, x, r, g)
  <2>1. ASSUME NEW k \in 1 .. (n + m), ForRegulator(x[k])
        PROVE  /\ r <= x[k].ts.s /\ x[k].ts.s <= x[k].ts.e /\ x[k].ts.e <= g
               /\ \/ BehindGap(w, x[k].ts.s)
                  \/ x[k].ts.s <= r
                  \/ \E j \in 1 .. (n + m) : j < k /\ ForRegulator(x[j]) /\ x[k].ts.s <= x[j].ts.e
               /\ \A j \in 1 .. (n + m) : j < k /\ ForRegulator(x[j]) => x[j].ts.e <= x[k].ts.s
    <3>1. k \in 1 .. n /\ x[k] = q[k] /\ ForRegulator(q[k])
      BY <1>4, <1>5, <2>1
    <3>2. /\ r <= q[k].ts.s /\ q[k].ts.s <= q[k].ts.e /\ q[k].ts.e <= g
          /\ \/ BehindGap(w, q[k].ts.s)
             \/ q[k].ts.s <= r
             \/ \E j \in 1 .. n : j < k /\ ForRegulator(q[j]) /\ q[k].ts.s <= q[j].ts.e
          /\ \A j \in 1 .. n : j < k /\ ForRegulator(q[j]) => q[j].ts.e <= q[k].ts.s
      BY <1>1, <3>1 DEF Awaits
    <3> QED BY <1>4, <1>5, <1>6, <3>1, <3>2, Zenon
  <2>2. \/ g <= r
        \/ \E j \in 1 .. (n + m) : ForRegulator(x[j]) /\ g <= x[j].ts.e
    BY <1>1, <1>4, <1>6 DEF Awaits
  <2>3. r <= g
    BY DEF Awaits
  <2> QED BY <1>4, <2>1, <2>2, <2>3 DEF Awaits
<1> QED BY <1>3, <1>4, <1>7

\* a puller of the regulator pulls
LEMMA AwaitsPull ==
  ASSUME NEW w, NEW q \in Seq(QueueAtoms), NEW r \in Nat, NEW g \in Nat, Awaits(w, q, r, g),
         NEW a \in QueueAtoms, g <= a.ts.s, a.ts.s <= a.ts.e, ForRegulator(a),
         a.ts.s = g \/ BehindGap(w, a.ts.s)
  PROVE  Append(q, a) \in Seq(QueueAtoms) /\ Awaits(w, Append(q, a), r, a.ts.e)
<1>1. PICK n \in Nat : n = Len(q)
  OBVIOUS
<1>2. PICK x : x = Append(q, a)
  OBVIOUS
<1>3. /\ x \in Seq(QueueAtoms) /\ Len(x) = n + 1
      /\ \A k \in 1 .. n : x[k] = q[k]
      /\ x[n + 1] = a
  BY <1>1, <1>2
<1>4. PICK s \in Nat : s = a.ts.s
  BY DEF QueueAtoms, Times
<1>5. PICK e \in Nat : e = a.ts.e
  BY DEF QueueAtoms, Times
<1>6. \A k \in 1 .. n : q[k].ts.s \in Nat /\ q[k].ts.e \in Nat
  BY <1>1, AtomFacts
<1>7. /\ r <= g
      /\ \A k \in 1 .. n : ForRegulator(q[k]) =>
           /\ r <= q[k].ts.s /\ q[k].ts.s <= q[k].ts.e /\ q[k].ts.e <= g
           /\ \/ BehindGap(w, q[k].ts.s)
              \/ q[k].ts.s <= r
              \/ \E j \in 1 .. n : j < k /\ ForRegulator(q[j]) /\ q[k].ts.s <= q[j].ts.e
           /\ \A j \in 1 .. n : j < k /\ ForRegulator(q[j]) => q[j].ts.e <= q[k].ts.s
      /\ \/ g <= r
         \/ \E j \in 1 .. n : ForRegulator(q[j]) /\ g <= q[j].ts.e
  BY <1>1 DEF Awaits
<1>8. ASSUME NEW k \in 1 .. (n + 1), ForRegulator(x[k])
      PROVE  /\ r <= x[k].ts.s /\ x[k].ts.s <= x[k].ts.e /\ x[k].ts.e <= e
             /\ \/ BehindGap(w, x[k].ts.s)
                \/ x[k].ts.s <= r
                \/ \E j \in 1 .. (n + 1) : j < k /\ ForRegulator(x[j]) /\ x[k].ts.s <= x[j].ts.e
             /\ \A j \in 1 .. (n + 1) : j < k /\ ForRegulator(x[j]) => x[j].ts.e <= x[k].ts.s
  <2>1. CASE k = n + 1
    <3>1. x[k].ts.s = s /\ x[k].ts.e = e /\ r <= s /\ s <= e
      BY <1>3, <1>4, <1>5, <1>7, <2>1
    <3>2. ASSUME s = g
          PROVE  s <= r \/ \E j \in 1 .. (n + 1) : j < k /\ ForRegulator(x[j]) /\ s <= x[j].ts.e
      <4>1. ASSUME NEW j \in 1 .. n, ForRegulator(q[j]), g <= q[j].ts.e
            PROVE  j \in 1 .. (n + 1) /\ j < k /\ ForRegulator(x[j]) /\ s <= x[j].ts.e
        BY <1>3, <2>1, <3>2, <4>1
      <4> QED BY <1>7, <3>2, <4>1
    <3>3. ASSUME NEW j \in 1 .. (n + 1), j < k, ForRegulator(x[j])
          PROVE  x[j].ts.e <= s
      <4>1. j \in 1 .. n /\ x[j] = q[j] /\ q[j].ts.e \in Nat
        BY <1>3, <1>6, <2>1, <3>3
      <4>2. q[j].ts.e <= g
        BY <1>7, <3>3, <4>1
      <4> QED BY <1>4, <4>1, <4>2
    <3> QED BY <1>4, <3>1, <3>2, <3>3
  <2>2. CASE k \in 1 .. n
    <3>1. x[k] = q[k] /\ ForRegulator(q[k]) /\ q[k].ts.e \in Nat
      BY <1>3, <1>6, <1>8, <2>2
    <3>2. q[k].ts.e <= g /\ g <= e
      BY <1>4, <1>5, <1>7, <2>2, <3>1
    <3>3. q[k].ts.e <= e
      BY <3>1, <3>2
    <3>4. \A j \in 1 .. (n + 1) : j < k => j \in 1 .. n /\ x[j] = q[j]
      BY <1>3, <2>2
    <3>5. ASSUME NEW j \in 1 .. n, j < k, ForRegulator(q[j]), q[k].ts.s <= q[j].ts.e
          PROVE  j \in 1 .. (n + 1) /\ ForRegulator(x[j]) /\ x[k].ts.s <= x[j].ts.e
      BY <1>3, <3>1, <3>5
    <3>6. /\ r <= q[k].ts.s /\ q[k].ts.s <= q[k].ts.e
          /\ \/ BehindGap(w, q[k].ts.s)
             \/ q[k].ts.s <= r
             \/ \E j \in 1 .. n : j < k /\ ForRegulator(q[j]) /\ q[k].ts.s <= q[j].ts.e
          /\ \A j \in 1 .. n : j < k /\ ForRegulator(q[j]) => q[j].ts.e <= q[k].ts.s
      BY <1>7, <2>2, <3>1
    <3> QED BY <3>1, <3>3, <3>4, <3>5, <3>6
  <2> QED BY <2>1, <2>2
<1>9. r <= e
  BY <1>4, <1>5, <1>7
<1>10. n + 1 \in 1 .. (n + 1) /\ ForRegulator(x[n + 1]) /\ e <= x[n + 1].ts.e
  BY <1>3, <1>5
<1>11. Awaits(w, x, r, e)
  BY <1>3, <1>8, <1>9, <1>10 DEF Awaits
<1> QED BY <1>2, <1>3, <1>5, <1>11

\* the first atom is taken from the queue; if it is the regulator's, the
\* regulator has then been triggered up to its end
LEMMA AwaitsTail ==
  ASSUME NEW w, NEW q \in Seq(QueueAtoms), q # <<>>, NEW r \in Nat, NEW g \in Nat,
         Awaits(w, q, r, g)
  PROVE  /\ Tail(q) \in Seq(QueueAtoms)
         /\ ~ForRegulator(q[1]) => Awaits(w, Tail(q), r, g)
         /\ ForRegulator(q[1]) =>
              /\ Awaits(w, Tail(q), q[1].ts.e, g)
              /\ r <= q[1].ts.s /\ q[1].ts.s <= q[1].ts.e /\ q[1].ts.e <= g
              /\ BehindGap(w, q[1].ts.s) \/ q[1].ts.s <= r
<1>0. Len(q) \in Nat /\ Len(q) # 0
  OBVIOUS
<1>1. PICK n \in Nat : n = Len(q) - 1 /\ Len(q) = n + 1
  BY <1>0
<1>2. PICK x : x = Tail(q)
  OBVIOUS
<1>3. x \in Seq(QueueAtoms) /\ Len(x) = n /\ \A k \in 1 .. n : x[k] = q[k + 1]
  BY <1>1, <1>2
<1>4. \A k \in 1 .. (n + 1) : q[k].ts.s \in Nat /\ q[k].ts.e \in Nat
  BY <1>1, AtomFacts
<1>5. /\ r <= g
      /\ \A k \in 1 .. (n + 1) : ForRegulator(q[k]) =>
           /\ r <= q[k].ts.s /\ q[k].ts.s <= q[k].ts.e /\ q[k].ts.e <= g
           /\ \/ BehindGap(w, q[k].ts.s)
              \/ q[k].ts.s <= r
              \/ \E j \in 1 .. (n + 1) : j < k /\ ForRegulator(q[j]) /\ q[k].ts.s <= q[j].ts.e
           /\ \A j \in 1 .. (n + 1) : j < k /\ ForRegulator(q[j]) => q[j].ts.e <= q[k].ts.s
      /\ \/ g <= r
         \/ \E j \in 1 .. (n + 1) : ForRegulator(q[j]) /\ g <= q[j].ts.e
  BY <1>1 DEF Awaits
<1>6. \A j \in 1 .. (n + 1) : j # 1 => /\ j - 1 \in 1 .. n /\ x[j - 1] = q[j]
  BY <1>3
<1>7. ASSUME NEW r2 \in Nat,
             r2 = IF ForRegulator(q[1]) THEN q[1].ts.e ELSE r
      PROVE  Awaits(w, x, r2, g)
  <2>1. r <= r2 /\ r2 <= g
    <3>1. CASE ForRegulator(q[1])
      <4>1. 1 \in 1 .. (n + 1) /\ q[1].ts.s \in Nat /\ r <= q[1].ts.s /\ q[1].ts.s <= q[1].ts.e /\ q[1].ts.e <= g
        BY <1>4, <1>5, <3>1
      <4> QED BY <1>7, <3>1, <4>1
    <3> QED BY <1>5, <1>7, <3>1
  <2>2. ASSUME NEW j \in 1 .. (n + 1), ForRegulator(q[j]), NEW u \in Nat, u <= q[j].ts.e
        PROVE  u <= r2 \/ (j - 1 \in 1 .. n /\ ForRegulator(x[j - 1]) /\ u <= x[j - 1].ts.e)
    <3>1. CASE j = 1
      BY <1>7, <2>2, <3>1
    <3>2. CASE j # 1
      BY <1>6, <2>2, <3>2
    <3> QED BY <3>1, <3>2
  <2>3. ASSUME NEW k \in 1 .. n, ForRegulator(x[k])
        PROVE  /\ r2 <= x[k].ts.s /\ x[k].ts.s <= x[k].ts.e /\ x[k].ts.e <= g
               /\ \/ BehindGap(w, x[k].ts.s)
                  \/ x[k].ts.s <= r2
                  \/ \E j \in 1 .. n : j < k /\ ForRegulator(x[j]) /\ x[k].ts.s <= x[j].ts.e
               /\ \A j \in 1 .. n : j < k /\ ForRegulator(x[j]) => x[j].ts.e <= x[k].ts.s
    <3>1. PICK i \in 1 .. (n + 1) : i = k + 1
      OBVIOUS
    <3>2. x[k] = q[i] /\ ForRegulator(q[i]) /\ q[i].ts.s \in Nat /\ q[i].ts.e \in Nat
      BY <1>3, <1>4, <2>3, <3>1
    <3>3. /\ r <= q[i].ts.s /\ q[i].ts.s <= q[i].ts.e /\ q[i].ts.e <= g
          /\ \/ BehindGap(w, q[i].ts.s)
             \/ q[i].ts.s <= r
             \/ \E j \in 1 .. (n + 1) : j < i /\ ForRegulator(q[j]) /\ q[i].ts.s <= q[j].ts.e
          /\ \A j \in 1 .. (n + 1) : j < i /\ ForRegulator(q[j]) => q[j].ts.e <= q[i].ts.s
      BY <1>5, <3>2
    <3>4. r2 <= q[i].ts.s
      <4>1. 1 \in 1 .. (n + 1) /\ 1 < i
        BY <3>1
      <4> QED BY <1>7, <3>3, <4>1
    <3>5. ASSUME q[i].ts.s <= r PROVE q[i].ts.s <= r2
      BY <2>1, <3>2, <3>5
    <3>6. ASSUME NEW j \in 1 .. (n + 1), j < i, ForRegulator(q[j]), q[i].ts.s <= q[j].ts.e
          PROVE  \/ q[i].ts.s <= r2
                 \/ \E m \in 1 .. n : m < k /\ ForRegulator(x[m]) /\ q[i].ts.s <= x[m].ts.e
      <4>1. j - 1 < k
        BY <3>1, <3>6
      <4> QED BY <2>2, <3>2, <3>6, <4>1
    <3>7. ASSUME NEW j \in 1 .. n, j < k, ForRegulator(x[j])
          PROVE  x[j].ts.e <= q[i].ts.s
      <4>1. j + 1 \in 1 .. (n + 1) /\ j + 1 < i /\ x[j] = q[j + 1]
        BY <1>3, <3>1, <3>7
      <4> QED BY <3>3, <3>7, <4>1
    <3> QED BY <3>2, <3>3, <3>4, <3>5, <3>6, <3>7
  <2>4. g <= r2 \/ \E j \in 1 .. n : ForRegulator(x[j]) /\ g <= x[j].ts.e
    <3>1. CASE g <= r
      BY <2>1, <3>1
    <3>2. ASSUME NEW j \in 1 .. (n + 1), ForRegulator(q[j]), g <= q[j].ts.e
          PROVE  g <= r2 \/ \E m \in 1 .. n : ForRegulator(x[m]) /\ g <= x[m].ts.e
      BY <2>2, <3>2
    <3> QED BY <1>5, <3>1, <3>2
  <2> QED BY <1>3, <2>1, <2>3, <2>4 DEF Awaits
<1>8. 1 \in 1 .. (n + 1) /\ q[1].ts.e \in Nat /\ \A j \in 1 .. (n + 1) : ~(j < 1)
  BY <1>4
<1>9. ForRegulator(q[1]) =>
              /\ r <= q[1].ts.s /\ q[1].ts.s <= q[1].ts.e /\ q[1].ts.e <= g
              /\ BehindGap(w, q[1].ts.s) \/ q[1].ts.s <= r
  BY <1>5, <1>8
<1> QED BY <1>2, <1>3, <1>7, <1>8, <1>9

-----------------------------------------------------------------------------
(* What the regulator gives.                                               *)

\* From list l and period x on to period y with the spans `pull`, after a
\* trigger up to tick r.
Going(w, l, x, r, y, pull) ==
  /\ IsPeriod(y) /\ Ends(l, y.e)
  /\ ~Gapless(w) => y.p = w.period /\ Multiple(y.s, w.period)
  /\ \/ pull = <<>> /\ (Gapless(w) => y.e = x.e)
     \/ \E a \in Nat :
          /\ pull = << Span(a, y.e) >> /\ Ends(l, a) /\ a <= y.e
          /\ w.regulator = "regular" => y.e <= r
          /\ ~Gapless(w) => y.e < r + w.period
          /\ Gapless(w) => a = x.e

LEMMA PeriodFacts ==
  ASSUME NEW x, IsPeriod(x), MaxTick \in Nat
  PROVE  /\ x.s \in Nat /\ x.p \in Nat \ {0} /\ x.e = x.s + x.p /\ x.e \in Nat \ {0}
         /\ x.p <= MaxTick /\ x.e <= 2 * MaxTick
<1>1. x.s \in Nat /\ x.p \in 1 .. MaxTick /\ x.s + x.p <= 2 * MaxTick
  BY DEF IsPeriod
<1>2. x.e = x.s + x.p
  BY DEF IsPeriod
<1> QED BY <1>1, <1>2

LEMMA GivesOn ==
  ASSUME NEW w, w.period \in Nat \ {0}, MaxTick \in Nat, NEW f \in Nat,
         NEW l \in Seq(Times), NEW x, IsPeriod(x), NEW r \in Nat, NEW r2 \in Nat, r <= r2,
         Gives(w, l, x, r), NEW y, NEW pull, Going(w, l, x, r2, y, pull)
  PROVE  /\ l \o pull \in Seq(Times) /\ Gives(w, l \o pull, y, r2)
         /\ (Gapless(w) /\ Covers(f, l, x)) => Covers(f, l \o pull, y)
<1>1. /\ x.e \in Nat /\ y.s \in Nat /\ y.p \in Nat \ {0} /\ y.e = y.s + y.p /\ y.e \in Nat
      /\ DOMAIN l = 1 .. Len(l) /\ Len(l) \in Nat
  BY PeriodFacts DEF Going
<1>2. \A k \in DOMAIN l : l[k].e \in Nat
  <2>1. \A k \in DOMAIN l : l[k] \in Times
    OBVIOUS
  <2> QED BY <2>1 DEF Times
<1>3. /\ w.regulator = "regular" => Ends(l, r2)
      /\ ~Gapless(w) => \A k \in DOMAIN l : Multiple(l[k].e, w.period) /\ l[k].e < r2 + w.period
  BY <1>2 DEF Gives, Ends
<1>4. CASE pull = <<>> /\ (Gapless(w) => y.e = x.e)
  <2>1. l \o pull = l
    BY <1>4
  <2>2. Gives(w, l, y, r2)
    BY <1>3 DEF Gives, Going
  <2>3. (Gapless(w) /\ Covers(f, l, x)) => Covers(f, l, y)
    BY <1>4 DEF Covers
  <2> QED BY <2>1, <2>2, <2>3
<1>5. ASSUME NEW a \in Nat,
             /\ pull = << Span(a, y.e) >> /\ Ends(l, a) /\ a <= y.e
             /\ w.regulator = "regular" => y.e <= r2
             /\ ~Gapless(w) => y.e < r2 + w.period
             /\ Gapless(w) => a = x.e
      PROVE  /\ l \o pull \in Seq(Times) /\ Gives(w, l \o pull, y, r2)
             /\ (Gapless(w) /\ Covers(f, l, x)) => Covers(f, l \o pull, y)
  <2>1. PICK z : z = Append(l, Span(a, y.e))
    OBVIOUS
  <2>2. Span(a, y.e) \in Times /\ Span(a, y.e).s = a /\ Span(a, y.e).e = y.e
    BY <1>1 DEF Span, Times
  <2>3. l \o pull = z
    <3>1. pull = << Span(a, y.e) >>
      BY <1>5
    <3> QED BY <2>1, <2>2, <3>1, AppendIsConcat
  <2>4. z \in Seq(Times)
    BY <2>1, <2>2
  <2>5. Forward(l)
    BY DEF Gives
  <2>6. \A k \in DOMAIN l : l[k].e <= a
    BY <1>5 DEF Ends
  <2>7. /\ Forward(z) /\ \A k \in DOMAIN z : z[k].e <= y.e
        /\ DOMAIN z = 1 .. (Len(l) + 1)
        /\ \A k \in 1 .. Len(l) : z[k] = l[k]
        /\ z[Len(l) + 1] = Span(a, y.e)
        /\ Range(z) = Range(l) \cup {Span(a, y.e)}
    <3>1. PICK e \in Nat : e = y.e
      BY <1>1
    <3>2. a <= e
      BY <1>5, <3>1
    <3>3. LET v == Append(l, Span(a, e)) IN
          /\ Forward(v) /\ \A k \in DOMAIN v : v[k].e <= e
          /\ DOMAIN v = 1 .. (Len(l) + 1) /\ Len(l) \in Nat
          /\ \A k \in 1 .. Len(l) : v[k] = l[k]
          /\ v[Len(l) + 1] = Span(a, e)
          /\ Range(v) = Range(l) \cup {Span(a, e)}
      BY <2>5, <2>6, <3>2, AppendSpan
    <3> QED BY <2>1, <3>1, <3>3, Zenon
  <2>8. w.regulator = "regular" => Ends(z, r2)
    <3> SUFFICES ASSUME w.regulator = "regular", NEW k \in 1 .. (Len(l) + 1)
                 PROVE  z[k].e <= r2
      BY <2>7 DEF Ends
    <3>1. CASE k = Len(l) + 1
      BY <1>5, <2>2, <2>7, <3>1
    <3>2. CASE k \in 1 .. Len(l)
      BY <1>1, <1>3, <2>7, <3>2 DEF Ends
    <3> QED BY <1>1, <3>1, <3>2
  <2>9. ASSUME ~Gapless(w)
        PROVE  /\ y.p = w.period /\ Multiple(y.s, w.period)
               /\ \A k \in DOMAIN z : Multiple(z[k].e, w.period) /\ z[k].e < r2 + w.period
    <3>1. y.p = w.period /\ Multiple(y.s, w.period)
      BY <2>9 DEF Going
    <3>2. Multiple(y.e, w.period)
      BY <1>1, <3>1, MultipleNext
    <3>3. ASSUME NEW k \in 1 .. (Len(l) + 1)
          PROVE  Multiple(z[k].e, w.period) /\ z[k].e < r2 + w.period
      <4>1. CASE k = Len(l) + 1
        BY <1>5, <2>2, <2>7, <2>9, <3>2, <4>1
      <4>2. CASE k \in 1 .. Len(l)
        BY <1>1, <1>3, <2>7, <2>9, <4>2
      <4>3. k = Len(l) + 1 \/ k \in 1 .. Len(l)
        BY <1>1
      <4> QED BY <4>1, <4>2, <4>3
    <3> QED BY <2>7, <3>1, <3>3
  <2>10. Gives(w, z, y, r2)
    BY <2>7, <2>8, <2>9 DEF Gives, Ends
  <2>11. ASSUME Gapless(w), Covers(f, l, x) PROVE Covers(f, z, y)
    <3> SUFFICES ASSUME NEW u \in Nat, f <= u, u < y.e PROVE Holds(Range(z), u)
      BY DEF Covers
    <3>1. CASE u < x.e
      <4>1. Holds(Range(l), u)
        BY <2>11, <3>1 DEF Covers
      <4> QED BY <2>7, <4>1, HoldsMore
    <3>2. CASE ~(u < x.e)
      <4>1. a <= u
        BY <1>1, <1>5, <2>11, <3>2
      <4> QED BY <2>2, <2>7, <4>1 DEF Holds
    <3> QED BY <3>1, <3>2
  <2> QED BY <2>3, <2>4, <2>10, <2>11
<1>6. \/ pull = <<>> /\ (Gapless(w) => y.e = x.e)
      \/ \E a \in Nat :
           /\ pull = << Span(a, y.e) >> /\ Ends(l, a) /\ a <= y.e
           /\ w.regulator = "regular" => y.e <= r2
           /\ ~Gapless(w) => y.e < r2 + w.period
           /\ Gapless(w) => a = x.e
  BY DEF Going
<1> QED BY <1>4, <1>5, <1>6

-----------------------------------------------------------------------------
(* trigger() of the regulators.                                            *)

LEMMA Small ==
  ASSUME TickMod \in Nat, NEW n \in Nat, n < TickMod
  PROVE  n % TickMod = n
OBVIOUS

LEMMA PeriodicIs ==
  ASSUME MaxTick \in Nat, TickMod \in Nat, TickMod > 4 * MaxTick,
         NEW s \in Nat, NEW p \in 1 .. MaxTick, s + p <= 2 * MaxTick
  PROVE  /\ IsPeriod(Periodic(s, p)) /\ Periodic(s, p) = [s |-> s, e |-> s + p, p |-> p]
         /\ Periodic(s, p).s = s /\ Periodic(s, p).p = p /\ Periodic(s, p).e = s + p
         /\ s % TickMod = s
<1>1. (s + p) % TickMod = s + p /\ s % TickMod = s
  BY Small
<1>2. Periodic(s, p) = [s |-> s, e |-> s + p, p |-> p]
  BY <1>1 DEF Periodic
<1> QED BY <1>1, <1>2 DEF IsPeriod

LEMMA AgainIs ==
  ASSUME MaxTick \in Nat, TickMod \in Nat, TickMod > 4 * MaxTick, NEW x, IsPeriod(x)
  PROVE  Periodic(x.s, x.p) = x
<1>1. x = [s |-> x.s, e |-> x.s + x.p, p |-> x.p]
  BY DEF IsPeriod
<1>2. x.s \in Nat /\ x.p \in 1 .. MaxTick /\ x.s + x.p <= 2 * MaxTick
  BY DEF IsPeriod
<1> QED BY <1>1, <1>2, PeriodicIs

\* without gaps the change starts with the first period that begins at or
\* after the end of the current one, and a span in between fills up
LEMMA ChangeGapless ==
  ASSUME RegulatorInv, Steady, Gapless(wiring), pc = "idle", NEW t \in Times,
         prev_end <= t.s, t.s <= t.e, t.e <= MaxTick, ~ChangeTs(t).stop
  PROVE  Going(wiring, regular, ts, t.e, ChangeTs(t).ts, ChangeTs(t).pull)
<1>1. /\ MaxTick \in Nat \ {0} /\ TickMod \in Nat /\ TickMod > 4 * MaxTick
      /\ wiring.regulator \in {"regular", "greedy"}
      /\ \A c \in wiring.changes : c[1] = 0 /\ c[2] \in 1 .. MaxTick /\ c # <<>>
  BY SteadyFacts DEF RegulatorInv, RegulatorTypes
<1>2. IsPeriod(ts) /\ Ends(regular, ts.e) /\ t.s \in Nat /\ t.e \in Nat
  BY DEF RegulatorInv, RegulatorTypes, Gives, Times
<1>3. ts.e \in Nat \ {0} /\ ts.e <= 2 * MaxTick
  BY <1>1, <1>2, PeriodFacts
<1>4. CASE new_ts = <<>>
  <2>1. ChangeTs(t).ts = ts /\ ChangeTs(t).pull = <<>>
    BY <1>4 DEF ChangeTs
  <2> QED BY <1>2, <2>1 DEF Going
<1>5. CASE new_ts # <<>>
  <2>1. PICK p \in 1 .. MaxTick : p = new_ts[2]
    <3>1. new_ts \in wiring.changes
      BY <1>5 DEF RegulatorInv, RegulatorTypes
    <3> QED BY <1>1, <3>1
  <2>2. new_ts[1] = 0
    <3>1. new_ts \in wiring.changes
      BY <1>5 DEF RegulatorInv, RegulatorTypes
    <3> QED BY <1>1, <3>1
  <2>3. PICK e \in Nat \ {0} : e = ts.e
    BY <1>3
  <2>4. PICK start : start = NewStart(ts, new_ts)
    OBVIOUS
  <2>5. start = (1 + (e - 1) \div p) * p
    BY <2>1, <2>2, <2>3, <2>4 DEF NewStart
  <2>6. start \in Nat /\ e <= start /\ p <= start
    <3>1. p \in Nat \ {0}
      OBVIOUS
    <3> QED BY <2>5, <3>1, NextStart
  <2>7. /\ ChangeTs(t).stop = (/\ start > e
                               /\ IF wiring.regulator = "greedy" THEN t.s <= start ELSE t.e < start)
        /\ ChangeTs(t).ts = Periodic((start - p) % TickMod, p) /\ ChangeTs(t).pull = Patch(start)
    BY <1>5, <2>1, <2>2, <2>3, <2>4 DEF ChangeTs
  <2>8. start <= 2 * MaxTick /\ (start > e /\ wiring.regulator = "regular" => start <= t.e)
    BY <1>1, <1>2, <1>3, <2>3, <2>6, <2>7
  <2>9. PICK s \in Nat : s = start - p
    BY <2>6
  <2>10. s + p = start /\ s % TickMod = s
    BY <1>1, <2>6, <2>8, <2>9, Small
  <2>11. PICK y : y = ChangeTs(t).ts
    OBVIOUS
  <2>12. IsPeriod(y) /\ y.e = start
    BY <1>1, <2>7, <2>8, <2>9, <2>10, <2>11, PeriodicIs
  <2>13. \A k \in DOMAIN regular : regular[k].e \in Nat
    <3>1. \A k \in DOMAIN regular : regular[k] \in Times
      BY DEF RegulatorInv, RegulatorTypes
    <3> QED BY <3>1 DEF Times
  <2>14. Ends(regular, y.e)
    BY <1>2, <2>3, <2>6, <2>12, <2>13 DEF Ends
  <2>15. CASE start > e
    <3>1. Patch(start) = << Span(e, y.e) >>
      BY <2>3, <2>12, <2>15 DEF Patch
    <3> QED BY <1>1, <1>2, <2>3, <2>6, <2>7, <2>8, <2>11, <2>12, <2>14, <2>15, <3>1 DEF Going
  <2>16. CASE ~(start > e)
    <3>1. Patch(start) = <<>> /\ y.e = ts.e
      BY <2>3, <2>6, <2>12, <2>16 DEF Patch
    <3> QED BY <2>7, <2>11, <2>12, <2>14, <3>1 DEF Going
  <2> QED BY <2>15, <2>16
<1> QED BY <1>4, <1>5

\* with one period the change keeps to the multiples of the period
LEMMA ChangeAligned ==
  ASSUME RegulatorInv, Steady, ~Gapless(wiring), ChangesAhead, NEW t \in Times
  PROVE  LET x == ChangeTs(t).ts IN
         /\ ChangeTs(t).pull = <<>>
         /\ IsPeriod(x) /\ Ends(regular, x.e) /\ x.p = wiring.period /\ Multiple(x.s, wiring.period)
<1>1. /\ MaxTick \in Nat \ {0} /\ TickMod \in Nat /\ TickMod > 4 * MaxTick
      /\ wiring.period \in 1 .. MaxTick
      /\ \A c \in wiring.changes : c[1] \in 0 .. MaxTick /\ c[2] = wiring.period /\ c # <<>>
                                   /\ c[1] % wiring.period = 0
  BY SteadyFacts DEF RegulatorInv, RegulatorTypes
<1>2. IsPeriod(ts) /\ Ends(regular, ts.e) /\ ts.p = wiring.period /\ Multiple(ts.s, wiring.period)
  BY DEF RegulatorInv, RegulatorTypes, Gives
<1>3. /\ ts.s \in Nat /\ ts.e = ts.s + ts.p /\ ts.e \in Nat \ {0} /\ ts.e <= 2 * MaxTick
  BY <1>1, <1>2, PeriodFacts
<1>4. CASE new_ts = <<>>
  BY <1>2, <1>4 DEF ChangeTs
<1>5. CASE new_ts # <<>>
  <2>1. PICK p \in 1 .. MaxTick : p = wiring.period
    BY <1>1
  <2>2. new_ts \in wiring.changes
    BY <1>5 DEF RegulatorInv, RegulatorTypes
  <2>3. PICK o \in 0 .. MaxTick : o = new_ts[1]
    BY <1>1, <2>2
  <2>4. new_ts[2] = p /\ Multiple(o, p)
    BY <1>1, <2>1, <2>2, <2>3, IsMultiple
  <2>5. \A k \in DOMAIN regular : regular[k].e \in Nat
    <3>1. \A k \in DOMAIN regular : regular[k] \in Times
      BY DEF RegulatorInv, RegulatorTypes
    <3> QED BY <3>1 DEF Times
  <2>6. CASE ts.e <= o
    <3>1. ChangeTs(t).ts = Periodic(o, p) /\ ChangeTs(t).pull = <<>>
      BY <1>5, <2>3, <2>4, <2>6 DEF ChangeTs
    <3>2. o \in Nat /\ o + p <= 2 * MaxTick
      BY <1>1
    <3>3. IsPeriod(Periodic(o, p)) /\ Periodic(o, p).s = o /\ Periodic(o, p).p = p /\ Periodic(o, p).e = o + p
      BY <1>1, <3>2, PeriodicIs
    <3>4. Ends(regular, o + p)
      BY <1>2, <1>3, <2>5, <2>6, <3>2 DEF Ends
    <3> QED BY <2>1, <2>4, <3>1, <3>3, <3>4
  <2>7. CASE ~(ts.e <= o)
    <3>1. o = 0
      BY <1>5, <2>3, <2>7 DEF ChangesAhead
    <3>2. PICK e \in Nat \ {0} : e = ts.e
      BY <1>3
    <3>3. Multiple(e, p)
      BY <1>2, <1>3, <2>1, <3>2, MultipleNext
    <3>4. NewStart(ts, new_ts) = (1 + (e - 1) \div p) * p
      BY <2>3, <2>4, <3>1, <3>2 DEF NewStart
    <3>5. NewStart(ts, new_ts) = e
      BY <3>3, <3>4, NextStart
    <3>6. ChangeTs(t).ts = Periodic((e - p) % TickMod, p) /\ ChangeTs(t).pull = Patch(e)
      BY <1>5, <2>3, <2>4, <2>7, <3>5 DEF ChangeTs
    <3>7. e - p = ts.s /\ ts.s % TickMod = ts.s
      BY <1>1, <1>2, <1>3, <2>1, <3>2, Small
    <3>8. ChangeTs(t).ts = ts
      BY <1>1, <1>2, <2>1, <3>6, <3>7, AgainIs
    <3>9. Patch(e) = <<>>
      BY <3>2 DEF Patch
    <3> QED BY <1>2, <3>6, <3>8, <3>9
  <2> QED BY <2>6, <2>7
<1> QED BY <1>4, <1>5

\* after a gap up to a multiple of the period
LEMMA JumpAligned ==
  ASSUME RegulatorInv, Steady, ~Gapless(wiring), pc = "idle", NEW t \in Times,
         prev_end <= t.s, t.s <= t.e, t.e <= MaxTick, BehindGap(wiring, t.s) \/ t.s <= prev_end,
         NEW x, IsPeriod(x), Ends(regular, x.e), x.p = wiring.period, Multiple(x.s, wiring.period)
  PROVE  Going(wiring, regular, ts, t.e, JumpGap(x, t).ts, JumpGap(x, t).pull)
<1>1. /\ MaxTick \in Nat \ {0} /\ TickMod \in Nat /\ TickMod > 4 * MaxTick
      /\ wiring.regulator \in {"regular", "greedy"} /\ wiring.offset \in 0 .. MaxTick
      /\ wiring.period \in 1 .. MaxTick
  BY SteadyFacts DEF RegulatorInv, RegulatorTypes
<1>2. PICK p \in 1 .. MaxTick : p = wiring.period
  BY <1>1
<1>3. PICK s \in Nat : s = t.s
  BY DEF Times
<1>4. PICK e \in Nat : e = t.e
  BY DEF Times
<1>5. /\ x.s \in Nat /\ x.e = x.s + p /\ x.e \in Nat /\ x.e <= 2 * MaxTick /\ x.p = p
  BY <1>1, <1>2, PeriodFacts
<1>6. CASE t.s <= prev_end
  <2>1. JumpGap(x, t).ts = x /\ JumpGap(x, t).pull = <<>>
    BY <1>6 DEF JumpGap
  <2> QED BY <2>1 DEF Going
<1>7. CASE ~(t.s <= prev_end)
  <2>1. s % p = 0 /\ s >= wiring.offset + p
    BY <1>2, <1>3, <1>7 DEF BehindGap
  <2>2. Multiple(s, p) /\ p <= s /\ s <= MaxTick /\ s <= e /\ e <= MaxTick
    <3>1. p \in Nat \ {0}
      OBVIOUS
    <3>2. Multiple(s, p)
      BY <2>1, <3>1, IsMultiple
    <3> QED BY <1>1, <1>3, <1>4, <2>1, <3>2
  <2>3. Ends(regular, s)
    <3> SUFFICES ASSUME NEW k \in DOMAIN regular PROVE regular[k].e <= s
      BY DEF Ends
    <3>1. PICK u \in Nat : u = regular[k].e
      <4>1. regular[k] \in Times
        BY DEF RegulatorInv, RegulatorTypes
      <4> QED BY <4>1 DEF Times
    <3>2. Multiple(u, p) /\ u < prev_end + p /\ prev_end \in Nat
      BY <1>2, <3>1 DEF RegulatorInv, RegulatorTypes, T, Gives, Reach
    <3>3. u < s + p /\ p \in Nat \ {0}
      BY <1>3, <1>7, <3>2
    <3> QED BY <2>2, <3>1, <3>2, <3>3, MultipleBelow
  <2>4. Size(x) = p
    <3>1. x.e - x.s = p /\ p < TickMod
      BY <1>1, <1>5
    <3> QED BY <1>1, <3>1, Small DEF Size
  <2>5. PICK b \in Nat : b = s - p
    BY <2>2
  <2>6. (t.s - Size(x)) % TickMod = b
    <3>1. t.s - Size(x) = b /\ b < TickMod
      BY <1>1, <1>3, <2>2, <2>4, <2>5
    <3> QED BY <1>1, <3>1, Small
  <2>7. PICK y : y = ForceAdvance(x, b)
    OBVIOUS
  <2>8. JumpGap(x, t).ts = y
        /\ JumpGap(x, t).pull = IF (IF wiring.regulator = "greedy" THEN e ELSE s) > y.e
                                THEN << Span(s, y.e) >> ELSE <<>>
    BY <1>3, <1>4, <1>7, <2>6, <2>7 DEF JumpGap
  <2>9. CASE b < x.s
    <3>1. y = x /\ s < x.e
      BY <1>5, <2>5, <2>7, <2>9 DEF ForceAdvance
    <3>2. CASE wiring.regulator = "greedy" /\ e > x.e
      <4>1. JumpGap(x, t).pull = << Span(s, y.e) >> /\ y.e < e + p /\ s <= y.e
        BY <1>5, <2>8, <3>1, <3>2
      <4> QED BY <1>1, <1>2, <1>4, <2>3, <2>8, <3>1, <3>2, <4>1 DEF Going
    <3>3. CASE ~(wiring.regulator = "greedy" /\ e > x.e)
      <4>1. JumpGap(x, t).pull = <<>>
        BY <1>5, <2>8, <3>1, <3>3
      <4> QED BY <2>8, <3>1, <4>1 DEF Going
    <3> QED BY <3>2, <3>3
  <2>10. CASE ~(b < x.s)
    <3>1. PICK d \in Nat : d = b - x.s
      BY <1>5, <2>10
    <3>2. d % TickMod = d /\ AsInt(d) = d
      <4>1. d <= MaxTick /\ d < TickMod
        BY <1>1, <1>5, <2>2, <2>5, <3>1
      <4>2. d < TickMod \div 2
        <5>1. 2 * d < TickMod - 1
          BY <1>1, <4>1
        <5> QED BY <1>1, <5>1
      <4> QED BY <1>1, <4>1, <4>2, Small DEF AsInt
    <3>3. (d \div p) * p = d
      <4>1. p \in Nat \ {0} /\ x.s <= b /\ Multiple(x.s, p)
        BY <1>2, <1>5, <2>10
      <4>2. Multiple(b, p)
        <5>1. PICK n \in Nat : s = n * p
          BY <2>2 DEF Multiple
        <5>2. n # 0
          BY <2>2, <4>1, <5>1
        <5>3. b = (n - 1) * p /\ n - 1 \in Nat
          BY <2>5, <5>1, <5>2
        <5> QED BY <5>3 DEF Multiple
      <4> QED BY <1>5, <3>1, <4>1, <4>2, MultipleApart
    <3>4. Quotient(AsInt((b - x.s) % TickMod), x.p) * x.p = d
      BY <1>5, <3>1, <3>2, <3>3 DEF Quotient
    <3>5. y = Periodic((x.s + d) % TickMod, p)
      BY <1>5, <2>7, <2>10, <3>4 DEF ForceAdvance
    <3>6. x.s + d = b /\ b + p = s
      BY <1>5, <2>5, <3>1
    <3>7. IsPeriod(y) /\ y.e = s /\ y.p = p /\ y.s = b
      <4>1. b \in Nat /\ b + p <= 2 * MaxTick
        BY <1>1, <2>2, <3>6
      <4>2. b % TickMod = b
        BY <1>1, <4>1, PeriodicIs
      <4>3. y = Periodic(b, p)
        BY <3>5, <3>6, <4>2
      <4> QED BY <1>1, <3>6, <4>1, <4>3, PeriodicIs
    <3>8. Multiple(y.s, p)
      <4>1. PICK n \in Nat : s = n * p
        BY <2>2 DEF Multiple
      <4>2. n # 0
        BY <2>2, <4>1
      <4>3. b = (n - 1) * p /\ n - 1 \in Nat
        BY <2>5, <4>1, <4>2
      <4> QED BY <3>7, <4>3 DEF Multiple
    <3>9. CASE wiring.regulator = "greedy" /\ e > s
      <4>1. JumpGap(x, t).pull = << Span(s, y.e) >> /\ y.e < e + p /\ s <= y.e
        BY <2>8, <3>7, <3>9
      <4> QED BY <1>1, <1>2, <1>4, <2>3, <2>8, <3>7, <3>8, <3>9, <4>1 DEF Going
    <3>10. CASE ~(wiring.regulator = "greedy" /\ e > s)
      <4>1. JumpGap(x, t).pull = <<>>
        BY <2>8, <3>7, <3>10
      <4> QED BY <1>2, <2>3, <2>8, <3>7, <3>8, <4>1 DEF Going
    <3> QED BY <3>9, <3>10
  <2> QED BY <2>9, <2>10
<1> QED BY <1>6, <1>7

\* trigger() up to the loop, without and with gaps
LEMMA TriggerGoing ==
  ASSUME RegulatorInv, Steady, ChangesAhead, pc = "idle", NEW t \in Times,
         prev_end <= t.s, t.s <= t.e, t.e <= MaxTick, BehindGap(wiring, t.s) \/ t.s <= prev_end,
         ~ChangeTs(t).stop
  PROVE  LET c == ChangeTs(t)
             g == JumpGap(c.ts, t) IN
         Going(wiring, regular, ts, t.e, g.ts, c.pull \o g.pull)
<1> DEFINE c == ChangeTs(t)
           g == JumpGap(c.ts, t)
<1>1. CASE Gapless(wiring)
  <2>1. t.s <= prev_end
    BY <1>1 DEF BehindGap
  <2>2. g.ts = c.ts /\ g.pull = <<>>
    BY <2>1 DEF JumpGap
  <2>3. Going(wiring, regular, ts, t.e, c.ts, c.pull)
    BY <1>1, ChangeGapless
  <2>4. c.pull \o <<>> = c.pull
    <3> HIDE DEF c
    <3>1. ASSUME NEW a \in Nat, c.pull = << Span(a, c.ts.e) >> PROVE c.pull \o <<>> = c.pull
      BY <3>1
    <3> QED BY <2>3, <3>1 DEF Going
  <2> QED BY <2>2, <2>3, <2>4
<1>2. CASE ~Gapless(wiring)
  <2>1. /\ c.pull = <<>>
        /\ IsPeriod(c.ts) /\ Ends(regular, c.ts.e) /\ c.ts.p = wiring.period
        /\ Multiple(c.ts.s, wiring.period)
    BY <1>2, ChangeAligned
  <2>2. Going(wiring, regular, ts, t.e, g.ts, g.pull)
    <3> HIDE DEF c
    <3> QED BY <1>2, <2>1, JumpAligned
  <2>3. <<>> \o g.pull = g.pull
    <3> HIDE DEF c, g
    <3>1. ASSUME NEW a \in Nat, g.pull = << Span(a, g.ts.e) >> PROVE <<>> \o g.pull = g.pull
      BY <3>1
    <3> QED BY <2>2, <3>1 DEF Going
  <2> QED BY <2>1, <2>2, <2>3
<1> QED BY <1>1, <1>2

\* one turn of the loop
LEMMA AdvanceGoing ==
  ASSUME RegulatorInv, Steady, pc = "advance", MayAdvance
  PROVE  LET x == Periodic((ts.s + ts.p) % TickMod, ts.p) IN
         /\ Going(wiring, regular, ts, now.e, x, << Span(x.s, x.e) >>)
         /\ Span(x.s, x.e) \in Times
<1>1. /\ MaxTick \in Nat \ {0} /\ TickMod \in Nat /\ TickMod > 4 * MaxTick
      /\ wiring.regulator \in {"regular", "greedy"} /\ wiring.period \in 1 .. MaxTick
  BY SteadyFacts DEF RegulatorInv, RegulatorTypes
<1>2. IsPeriod(ts) /\ Ends(regular, ts.e)
      /\ (~Gapless(wiring) => ts.p = wiring.period /\ Multiple(ts.s, wiring.period))
  BY DEF RegulatorInv, RegulatorTypes, Gives
<1>3. PICK p \in 1 .. MaxTick : p = ts.p
  BY <1>1, <1>2 DEF IsPeriod
<1>4. PICK s \in Nat : s = ts.s + ts.p /\ s = ts.e
  BY <1>1, <1>2, PeriodFacts
<1>5. PICK n \in Nat : n = now.e /\ n <= MaxTick
  BY <1>1 DEF RegulatorInv, RegulatorTypes, T
<1>6. IF wiring.regulator = "greedy" THEN s < n ELSE s + p <= n
  BY <1>3, <1>4, <1>5 DEF MayAdvance
<1>7. s + p <= 2 * MaxTick
  <2>1. CASE wiring.regulator = "greedy"
    BY <1>1, <1>5, <1>6, <2>1
  <2>2. CASE wiring.regulator # "greedy"
    BY <1>1, <1>5, <1>6, <2>2
  <2> QED BY <2>1, <2>2
<1>8. PICK x : x = Periodic((ts.s + ts.p) % TickMod, ts.p)
  OBVIOUS
<1>9. IsPeriod(x) /\ x.s = s /\ x.p = p /\ x.e = s + p
  <2>1. s % TickMod = s
    BY <1>1, <1>7, PeriodicIs
  <2>2. x = Periodic(s, p)
    BY <1>3, <1>4, <1>8, <2>1
  <2> QED BY <1>1, <1>7, <2>2, PeriodicIs
<1>10. \A k \in DOMAIN regular : regular[k].e \in Nat
  <2>1. \A k \in DOMAIN regular : regular[k] \in Times
    BY DEF RegulatorInv, RegulatorTypes
  <2> QED BY <2>1 DEF Times
<1>11. Ends(regular, s) /\ Ends(regular, x.e)
  BY <1>2, <1>4, <1>9, <1>10 DEF Ends
<1>12. ~Gapless(wiring) => x.p = wiring.period /\ Multiple(x.s, wiring.period)
  <2>1. ts.s \in Nat /\ ts.p \in Nat \ {0}
    BY <1>1, <1>2, PeriodFacts
  <2> QED BY <1>2, <1>3, <1>4, <1>9, <2>1, MultipleNext
<1>13. /\ wiring.regulator = "regular" => x.e <= n
       /\ ~Gapless(wiring) => x.e < n + wiring.period
  <2>1. CASE wiring.regulator = "greedy"
    BY <1>3, <1>6, <1>9, <1>12, <2>1
  <2>2. CASE wiring.regulator # "greedy"
    BY <1>1, <1>6, <1>9, <2>2
  <2> QED BY <2>1, <2>2
<1>14. Span(x.s, x.e) \in Times /\ s <= x.e
  BY <1>9 DEF Span, Times
<1> QED BY <1>4, <1>5, <1>8, <1>9, <1>11, <1>12, <1>13, <1>14 DEF Going

-----------------------------------------------------------------------------
(* The steps.                                                              *)

LEMMA ReachIs ==
  ASSUME RegulatorInv
  PROVE  Reach \in Nat /\ given[1] \in T /\ given[1] \in Nat /\ Len(triggerq) \in Nat
BY TriggerAssumption DEF RegulatorInv, RegulatorTypes, Reach, T, Pullers

LEMMA FirstTickIs ==
  ASSUME wiring \in Wirings, Steady
  PROVE  FirstTick \in Nat /\ FirstTick = wiring.offset + wiring.period
BY SteadyFacts DEF FirstTick

\* steps that only add to the queue
LEMMA RegulatorPull ==
  ASSUME RegulatorInv, Steady, wiring' = wiring, NEW i \in Pullers, NEW jump \in 0 .. MaxJump,
         NEW size \in wiring.spans[i], Pull(i, jump, size)
  PROVE  RegulatorInv'
<1>1. size \in Nat /\ jump \in Nat /\ MaxTick \in Nat /\ wiring.regulator # "none"
      /\ (~Gapless(wiring) => "aligned" \in wiring.calm)
  BY SteadyFacts, TriggerAssumption DEF RegulatorInv, RegulatorTypes
<1>2. PICK g \in Nat : g = given[i]
  BY DEF RegulatorInv, RegulatorTypes, T
<1>3. PICK s \in Nat : s = g + jump
  BY <1>1, <1>2
<1>4. PICK e \in Nat : e = s + size
  BY <1>1, <1>3
<1>5. PICK a : a = Atom(IF i = 1 THEN "regulator" ELSE "join", i, Span(s, e))
  OBVIOUS
<1>6. /\ e <= MaxTick /\ given' = [given EXCEPT ![i] = e]
      /\ triggerq' = Append(triggerq, a)
      /\ jump > 0 => /\ "gapless" \notin wiring.calm
                     /\ ("aligned" \in wiring.calm /\ i = 1) =>
                          s % wiring.period = 0 /\ s >= wiring.offset + wiring.period
      /\ UNCHANGED <<pc, now, regVars, joinVars>>
  BY <1>1, <1>2, <1>3, <1>4, <1>5 DEF Pull
<1>7. UNCHANGED <<pc, now, ts, prev_end, new_ts, changed, regular>> /\ Reach' = Reach
  BY <1>6 DEF regVars, Reach
<1>8. a \in QueueAtoms /\ a.ts.s = s /\ a.ts.e = e /\ a.to = (IF i = 1 THEN "regulator" ELSE "join")
  BY <1>5 DEF Atom, Span, QueueAtoms, Times
<1>9. triggerq \in Seq(QueueAtoms) /\ given \in [Pullers -> T] /\ e \in T
      /\ Awaits(wiring, triggerq, Reach, given[1])
  BY <1>1, <1>6 DEF RegulatorInv, RegulatorTypes, T
<1>10. given' \in [Pullers -> T]
  BY <1>6, <1>9
<1>11. triggerq' \in Seq(QueueAtoms) /\ Awaits(wiring, triggerq', Reach, given'[1])
  <2>1. CASE i = 1
    <3>1. given'[1] = e /\ given[1] = g
      BY <1>2, <1>6, <1>9, <2>1
    <3>2. g <= a.ts.s /\ a.ts.s <= a.ts.e /\ ForRegulator(a)
      BY <1>1, <1>3, <1>4, <1>8, <2>1 DEF ForRegulator
    <3>3. a.ts.s = g \/ BehindGap(wiring, a.ts.s)
      <4>1. CASE jump = 0
        BY <1>3, <1>8, <4>1
      <4>2. CASE jump > 0
        BY <1>1, <1>6, <1>8, <2>1, <4>2 DEF BehindGap, Gapless
      <4> QED BY <1>1, <4>1, <4>2
    <3> QED BY <1>6, <1>8, <1>9, <3>1, <3>2, <3>3, ReachIs, AwaitsPull
  <2>2. CASE i # 1
    <3>1. given'[1] = given[1]
      BY <1>6, <1>9, <2>2 DEF Pullers
    <3>2. triggerq' = triggerq \o <<a>>
      BY <1>6, <1>8, <1>9, AppendIsConcat
    <3>3. <<a>> \in Seq(QueueAtoms) /\ Len(<<a>>) = 1 /\ <<a>>[1] = a /\ a.to = "join"
      BY <1>8, <2>2
    <3>4. \A k \in 1 .. Len(<<a>>) : <<a>>[k].to = "join"
      BY <3>3
    <3> QED BY <1>9, <3>1, <3>2, <3>3, <3>4, AwaitsJoins
  <2> QED BY <2>1, <2>2
<1>12. RegulatorTypes'
  BY <1>7, <1>10, <1>11 DEF RegulatorInv, RegulatorTypes
<1>13. FirstTick' = FirstTick
  BY DEF FirstTick
<1> QED BY <1>7, <1>11, <1>12, <1>13 DEF RegulatorInv

LEMMA RegulatorChange ==
  ASSUME RegulatorInv, Steady, wiring' = wiring, NEW c \in wiring.changes, ChangePeriodAndOffset(c)
  PROVE  RegulatorInv'
<1>1. UNCHANGED <<given, triggerq, pc, now, ts, prev_end, regular>> /\ new_ts' = c /\ c # <<>>
  BY SteadyFacts DEF ChangePeriodAndOffset, RegulatorInv, RegulatorTypes
<1>2. Reach' = Reach /\ FirstTick' = FirstTick
  BY <1>1 DEF Reach, FirstTick
<1>3. RegulatorTypes'
  BY <1>1 DEF RegulatorInv, RegulatorTypes
<1> QED BY <1>1, <1>2, <1>3 DEF RegulatorInv

\* an atom for the combination
LEMMA RegulatorPasses ==
  ASSUME RegulatorInv, Steady, wiring' = wiring, triggerq # <<>>, Head(triggerq).to = "join",
         pc = "idle", pc' \in {"idle", "combine"}, triggerq' = Tail(triggerq), now' \in Times,
         UNCHANGED <<given, ts, prev_end, new_ts, regular>>
  PROVE  RegulatorInv'
<1>1. Reach' = Reach /\ FirstTick' = FirstTick
  BY DEF Reach, FirstTick
<1>2. triggerq \in Seq(QueueAtoms) /\ Awaits(wiring, triggerq, Reach, given[1])
  BY DEF RegulatorInv, RegulatorTypes
<1>3. Head(triggerq) = triggerq[1] /\ ~ForRegulator(triggerq[1])
  BY <1>2 DEF ForRegulator
<1>4. triggerq' \in Seq(QueueAtoms) /\ Awaits(wiring, triggerq', Reach, given[1])
  BY <1>2, <1>3, ReachIs, AwaitsTail
<1>5. RegulatorTypes'
  BY <1>4 DEF RegulatorInv, RegulatorTypes
<1> QED BY <1>1, <1>4, <1>5 DEF RegulatorInv

\* Gives() with the regulator triggered further
LEMMA GivesLater ==
  ASSUME NEW w, w.period \in Nat, NEW l \in Seq(Times), NEW x, NEW r \in Nat, NEW r2 \in Nat, r <= r2,
         Gives(w, l, x, r)
  PROVE  Gives(w, l, x, r2)
<1>1. \A k \in DOMAIN l : l[k].e \in Nat
  <2>1. \A k \in DOMAIN l : l[k] \in Times
    OBVIOUS
  <2> QED BY <2>1 DEF Times
<1> QED BY <1>1 DEF Gives, Ends

LEMMA RegulatorTriggered ==
  ASSUME RegulatorInv, Steady, ChangesAhead, wiring' = wiring, NEW t, triggerq # <<>>,
         RegulatorTrigger(t)
  PROVE  RegulatorInv'
<1>1. /\ pc = "idle" /\ Head(triggerq).to = "regulator" /\ t = Head(triggerq).ts
      /\ UNCHANGED <<given, changed, joinVars>>
  BY DEF RegulatorTrigger, Deliver
<1>2. triggerq \in Seq(QueueAtoms) /\ Awaits(wiring, triggerq, Reach, given[1])
      /\ Reach = prev_end /\ wiring \in Wirings
  BY <1>1 DEF RegulatorInv, RegulatorTypes, Reach
<1>3. Head(triggerq) = triggerq[1] /\ ForRegulator(triggerq[1]) /\ triggerq[1] \in QueueAtoms
  <2>1. Len(triggerq) \in Nat /\ Len(triggerq) # 0 /\ Head(triggerq) = triggerq[1]
    BY <1>2
  <2>2. triggerq[1] \in QueueAtoms
    BY <1>2, <2>1
  <2> QED BY <1>1, <2>1, <2>2 DEF ForRegulator
<1>4. t = triggerq[1].ts /\ t \in Times /\ t.s \in Nat /\ t.e \in Nat
  BY <1>1, <1>3 DEF QueueAtoms, Times
<1>5. PICK q : q = Tail(triggerq)
  OBVIOUS
<1>6. /\ q \in Seq(QueueAtoms) /\ Awaits(wiring, q, t.e, given[1])
      /\ prev_end <= t.s /\ t.s <= t.e /\ t.e <= given[1]
      /\ BehindGap(wiring, t.s) \/ t.s <= prev_end
  BY <1>2, <1>3, <1>4, <1>5, ReachIs, AwaitsTail
<1>7. /\ MaxTick \in Nat \ {0} /\ wiring.period \in Nat \ {0} /\ FirstTick \in Nat
  BY <1>2, SteadyFacts, FirstTickIs
<1>8. t.e \in T /\ t.e <= MaxTick
  BY <1>4, <1>6, <1>7, ReachIs DEF T
<1>9. prev_end \in Nat /\ prev_end <= t.e /\ regular \in Seq(Times) /\ IsPeriod(ts)
      /\ Gives(wiring, regular, ts, prev_end)
  BY <1>2, <1>4, <1>6, ReachIs DEF RegulatorInv, RegulatorTypes
<1>10. FirstTick' = FirstTick
  BY DEF FirstTick
<1>11. CASE ChangeTs(t).stop
  <2>1. prev_end' = t.e /\ triggerq' = q /\ UNCHANGED <<pc, now, ts, new_ts, regular>>
    BY <1>5, <1>11 DEF RegulatorTrigger
  <2>2. new_ts # <<>>
    BY <1>11 DEF ChangeTs
  <2>3. Reach' = t.e
    BY <1>1, <2>1 DEF Reach
  <2>4. Gives(wiring, regular, ts, t.e)
    BY <1>4, <1>7, <1>9, GivesLater
  <2>5. RegulatorTypes'
    BY <1>1, <1>6, <1>8, <2>1 DEF RegulatorInv, RegulatorTypes
  <2>6. Gapless(wiring) => Covers(FirstTick, regular, ts)
    BY DEF RegulatorInv
  <2> QED BY <1>1, <1>6, <1>10, <2>1, <2>2, <2>3, <2>4, <2>5, <2>6 DEF RegulatorInv
<1>12. CASE ~ChangeTs(t).stop
  <2>1. PICK y : y = JumpGap(ChangeTs(t).ts, t).ts
    OBVIOUS
  <2>2. PICK pull : pull = ChangeTs(t).pull \o JumpGap(ChangeTs(t).ts, t).pull
    OBVIOUS
  <2>3. Going(wiring, regular, ts, t.e, y, pull)
    BY <1>1, <1>4, <1>6, <1>8, <1>12, <2>1, <2>2, TriggerGoing
  <2>4. /\ ts' = y /\ new_ts' = <<>> /\ regular' = regular \o pull
        /\ triggerq' = q \o [k \in DOMAIN pull |-> Atom("join", 1, pull[k])]
        /\ pc' = "advance" /\ now' = t /\ prev_end' = prev_end
    BY <1>5, <1>12, <2>1, <2>2 DEF RegulatorTrigger
  <2>5. /\ regular' \in Seq(Times) /\ Gives(wiring, regular', y, t.e)
        /\ Gapless(wiring) => Covers(FirstTick, regular', y)
    <3>1. Gapless(wiring) => Covers(FirstTick, regular, ts)
      BY DEF RegulatorInv
    <3> QED BY <1>4, <1>7, <1>9, <2>3, <2>4, <3>1, GivesOn
  <2>6. PICK z : z = [k \in DOMAIN pull |-> Atom("join", 1, pull[k])]
    OBVIOUS
  <2>7. z \in Seq(QueueAtoms) /\ \A k \in 1 .. Len(z) : z[k].to = "join"
    <3>1. CASE pull = <<>>
      <4>1. z = <<>>
        BY <2>6, <3>1
      <4> QED BY <4>1
    <3>2. ASSUME NEW a \in Nat, pull = << Span(a, y.e) >>
          PROVE  z \in Seq(QueueAtoms) /\ \A k \in 1 .. Len(z) : z[k].to = "join"
      <4>1. y.e \in Nat
        BY <1>7, <2>3, PeriodFacts DEF Going
      <4>2. PICK b : b = Atom("join", 1, Span(a, y.e))
        OBVIOUS
      <4>3. b \in QueueAtoms /\ b.to = "join"
        BY <4>1, <4>2 DEF Atom, Span, QueueAtoms, Times, Pullers
      <4>4. DOMAIN pull = 1 .. 1 /\ pull[1] = Span(a, y.e)
        BY <3>2
      <4>5. z = [k \in 1 .. 1 |-> b]
        BY <2>6, <4>2, <4>4
      <4>6. z \in Seq(QueueAtoms) /\ Len(z) = 1
        BY <4>3, <4>5
      <4>7. z[1] = b
        BY <4>5
      <4> QED BY <4>3, <4>6, <4>7
    <3> QED BY <2>3, <3>1, <3>2 DEF Going
  <2>8. triggerq' \in Seq(QueueAtoms) /\ Awaits(wiring, triggerq', t.e, given[1])
    BY <1>6, <2>4, <2>6, <2>7, AwaitsJoins
  <2>9. Reach' = t.e
    BY <2>4 DEF Reach
  <2>10. RegulatorTypes'
    <3>1. IsPeriod(y)
      BY <2>3 DEF Going
    <3> QED BY <1>1, <1>4, <1>8, <2>4, <2>5, <2>8, <3>1 DEF RegulatorInv, RegulatorTypes
  <2> QED BY <1>1, <1>10, <2>4, <2>5, <2>8, <2>9, <2>10 DEF RegulatorInv
<1> QED BY <1>11, <1>12

\* a turn of the loop, and its end
LEMMA RegulatorAdvanced ==
  ASSUME RegulatorInv, Steady, wiring' = wiring, RegulatorAdvance
  PROVE  RegulatorInv'
<1>1. pc = "advance" /\ UNCHANGED <<given, now, new_ts>> /\ Reach = now.e
  BY DEF RegulatorAdvance, Reach
<1>2. /\ triggerq \in Seq(QueueAtoms) /\ Awaits(wiring, triggerq, now.e, given[1])
      /\ wiring \in Wirings /\ now.e \in T /\ regular \in Seq(Times) /\ IsPeriod(ts)
      /\ Gives(wiring, regular, ts, now.e)
      /\ Gapless(wiring) => Covers(FirstTick, regular, ts)
  BY <1>1 DEF RegulatorInv, RegulatorTypes
<1>3. /\ MaxTick \in Nat \ {0} /\ wiring.period \in Nat \ {0} /\ FirstTick \in Nat
      /\ wiring.regulator \in {"regular", "greedy"}
  BY <1>2, SteadyFacts, FirstTickIs
<1>4. now.e \in Nat /\ FirstTick' = FirstTick
  BY <1>2, <1>3 DEF T, FirstTick
<1>5. CASE MayAdvance
  <2>1. PICK x : x = Periodic((ts.s + ts.p) % TickMod, ts.p)
    OBVIOUS
  <2>2. PICK y : y = Span(x.s, x.e)
    OBVIOUS
  <2>3. Going(wiring, regular, ts, now.e, x, <<y>>) /\ y \in Times
    BY <1>1, <1>5, <2>1, <2>2, AdvanceGoing
  <2>4. /\ ts' = x /\ regular' = Append(regular, y)
        /\ triggerq' = Append(triggerq, Atom("join", 1, y)) /\ UNCHANGED <<pc, prev_end>>
    BY <1>5, <2>1, <2>2 DEF RegulatorAdvance, Pulled
  <2>5. regular' = regular \o <<y>>
    BY <1>2, <2>3, <2>4, AppendIsConcat
  <2>6. /\ regular' \in Seq(Times) /\ Gives(wiring, regular', x, now.e)
        /\ Gapless(wiring) => Covers(FirstTick, regular', x)
    <3>1. now.e <= now.e
      BY <1>4
    <3> QED BY <1>2, <1>3, <1>4, <2>3, <2>5, <3>1, GivesOn
  <2>7. PICK a : a = Atom("join", 1, y)
    OBVIOUS
  <2>8. a \in QueueAtoms /\ a.to = "join"
    BY <2>3, <2>7 DEF Atom, QueueAtoms, Pullers
  <2>9. triggerq' = triggerq \o <<a>>
    BY <1>2, <2>4, <2>7, <2>8, AppendIsConcat
  <2>10. <<a>> \in Seq(QueueAtoms) /\ Len(<<a>>) = 1 /\ <<a>>[1] = a
    BY <2>8
  <2>11. \A k \in 1 .. Len(<<a>>) : <<a>>[k].to = "join"
    BY <2>8, <2>10
  <2>12. triggerq' \in Seq(QueueAtoms) /\ Awaits(wiring, triggerq', now.e, given[1])
    BY <1>2, <2>9, <2>10, <2>11, AwaitsJoins
  <2>13. Reach' = now.e
    BY <1>1, <2>4 DEF Reach
  <2>14. RegulatorTypes'
    <3>1. IsPeriod(x)
      BY <2>3 DEF Going
    <3> QED BY <1>1, <2>4, <2>6, <2>12, <3>1 DEF RegulatorInv, RegulatorTypes
  <2> QED BY <1>1, <1>4, <2>4, <2>6, <2>12, <2>13, <2>14 DEF RegulatorInv
<1>6. CASE ~MayAdvance
  <2>1. prev_end' = now.e /\ pc' = "idle" /\ UNCHANGED <<ts, regular, triggerq>>
    BY <1>6 DEF RegulatorAdvance
  <2>2. Reach' = now.e
    BY <2>1 DEF Reach
  <2>3. RegulatorTypes'
    BY <1>1, <1>2, <2>1 DEF RegulatorInv, RegulatorTypes
  <2>4. CaughtUp(wiring, ts, now.e)
    <3>1. ts.e \in Nat /\ ts.p \in Nat
      BY <1>2, <1>3, PeriodFacts
    <3> QED BY <1>4, <1>6, <3>1 DEF MayAdvance, CaughtUp
  <2> QED BY <1>1, <1>2, <1>4, <2>1, <2>2, <2>3, <2>4 DEF RegulatorInv
<1> QED BY <1>5, <1>6

\* steps that leave the regulator and the queue alone
LEMMA RegulatorRests ==
  ASSUME RegulatorInv, pc # "advance" \/ pc' = pc, pc' \in {"idle", "combine"} \/ pc' = pc,
         UNCHANGED <<wiring, given, triggerq, now, ts, prev_end, new_ts, regular>>
  PROVE  RegulatorInv'
<1>1. Reach' = Reach /\ FirstTick' = FirstTick
  BY DEF Reach, FirstTick
<1>2. RegulatorTypes'
  BY DEF RegulatorInv, RegulatorTypes
<1>3. pc' # "advance" => pc # "advance"
  OBVIOUS
<1> QED BY <1>1, <1>2, <1>3 DEF RegulatorInv

\* what is delivered is a span of time
LEMMA DeliveredSpan ==
  ASSUME RegulatorInv, NEW t, Deliver("join", t)
  PROVE  t \in Times
<1>1. triggerq \in Seq(QueueAtoms) /\ triggerq # <<>> /\ t = Head(triggerq).ts
  BY DEF RegulatorInv, RegulatorTypes, Deliver
<1>2. Head(triggerq) \in QueueAtoms
  BY <1>1
<1> QED BY <1>1, <1>2 DEF QueueAtoms

LEMMA RegulatorNext ==
  ASSUME RegulatorInv, Steady, ChangesAhead, [Next]_<<vars, wiring>>
  PROVE  RegulatorInv' /\ Steady'
<1>1. wiring' = wiring
  BY DEF Next
<1>2. Steady'
  BY <1>1 DEF Steady
<1>3. ASSUME NEW i \in Pullers, NEW jump \in 0 .. MaxJump, NEW size \in wiring.spans[i],
             Pull(i, jump, size)
      PROVE  RegulatorInv'
  BY <1>1, <1>3, RegulatorPull
<1>4. ASSUME NEW c \in wiring.changes, ChangePeriodAndOffset(c)
      PROVE  RegulatorInv'
  BY <1>1, <1>4, RegulatorChange
<1>5. ASSUME NEW t, RegulatorTrigger(t)
      PROVE  RegulatorInv'
  <2>1. triggerq # <<>>
    BY <1>5 DEF RegulatorTrigger, Deliver
  <2> QED BY <1>1, <1>5, <2>1, RegulatorTriggered
<1>6. ASSUME NEW t, OrTrigger(t)
      PROVE  RegulatorInv'
  <2>1. /\ triggerq # <<>> /\ Head(triggerq).to = "join" /\ pc = "idle" /\ pc' = "idle"
        /\ triggerq' = Tail(triggerq) /\ now' = now
        /\ UNCHANGED <<given, ts, prev_end, new_ts, regular>>
    BY <1>6 DEF OrTrigger, Deliver, regVars
  <2>2. now \in Times
    BY DEF RegulatorInv, RegulatorTypes
  <2> QED BY <1>1, <2>1, <2>2, RegulatorPasses
<1>7. ASSUME NEW t, AndTrigger(t)
      PROVE  RegulatorInv'
  <2>1. /\ triggerq # <<>> /\ Head(triggerq).to = "join" /\ pc = "idle"
        /\ triggerq' = Tail(triggerq) /\ now' = t
        /\ UNCHANGED <<given, ts, prev_end, new_ts, regular>>
    BY <1>7 DEF AndTrigger, Deliver, regVars
  <2>2. pc' \in {"idle", "combine"}
    BY <1>7 DEF AndTrigger
  <2>3. t \in Times
    BY <1>7, DeliveredSpan DEF AndTrigger
  <2> QED BY <1>1, <2>1, <2>2, <2>3, RegulatorPasses
<1>8. CASE RegulatorAdvance
  BY <1>1, <1>2, <1>8, RegulatorAdvanced
<1>9. CASE AndCombine
  <2>1. pc = "combine" /\ UNCHANGED <<given, triggerq, now, ts, prev_end, new_ts, regular>>
    BY <1>9 DEF AndCombine, regVars
  <2>2. pc' = "idle" \/ pc' = pc
    BY <1>9 DEF AndCombine
  <2> QED BY <1>1, <1>2, <2>1, <2>2, RegulatorRests
<1>10. CASE UNCHANGED vars
  <2>1. UNCHANGED <<given, triggerq, pc, now, ts, prev_end, new_ts, regular>>
    BY <1>10 DEF vars, regVars
  <2> QED BY <1>1, <1>2, <2>1, RegulatorRests
<1>11. CASE Stopped
  BY <1>10, <1>11 DEF Stopped
<1>12. CASE UNCHANGED <<vars, wiring>>
  BY <1>10, <1>12
<1> QED
  BY <1>2, <1>3, <1>4, <1>5, <1>6, <1>7, <1>8, <1>9, <1>11, <1>12 DEF Next

LEMMA RegulatorInit ==
  ASSUME Init, Steady
  PROVE  RegulatorInv
<1>1. /\ wiring \in Wirings /\ given = [i \in Pullers |-> 0] /\ triggerq = <<>>
      /\ pc = "idle" /\ now = Span(0, 0) /\ ts = Periodic(wiring.offset, wiring.period)
      /\ prev_end = 0 /\ new_ts = <<>> /\ regular = <<>>
  BY DEF Init
<1>2. /\ MaxTick \in Nat \ {0} /\ TickMod \in Nat /\ TickMod > 4 * MaxTick
      /\ wiring.offset \in 0 .. MaxTick /\ wiring.period \in 1 .. MaxTick
      /\ ~Gapless(wiring) => wiring.offset % wiring.period = 0
  BY <1>1, SteadyFacts
<1>3. PICK o \in Nat : o = wiring.offset /\ o <= MaxTick
  BY <1>2
<1>4. PICK p \in 1 .. MaxTick : p = wiring.period
  BY <1>2
<1>5. o + p <= 2 * MaxTick /\ p \in Nat \ {0}
  BY <1>2, <1>3
<1>6. IsPeriod(ts) /\ ts.s = o /\ ts.p = p /\ ts.e = o + p
  BY <1>1, <1>2, <1>3, <1>4, <1>5, PeriodicIs
<1>7. FirstTick = ts.e
  BY <1>1, <1>3, <1>4, <1>6, FirstTickIs
<1>8. Len(triggerq) = 0 /\ DOMAIN regular = {} /\ Len(regular) = 0 /\ given[1] = 0 /\ Reach = 0
  BY <1>1 DEF Pullers, Reach
<1>9. Awaits(wiring, triggerq, Reach, given[1])
  BY <1>8 DEF Awaits
<1>10. Gives(wiring, regular, ts, Reach)
  <2>1. ~Gapless(wiring) => Multiple(o, p)
    BY <1>2, <1>3, <1>4, <1>5, IsMultiple
  <2>2. Forward(regular)
    BY <1>8 DEF Forward
  <2> QED BY <1>3, <1>4, <1>6, <1>8, <2>1, <2>2 DEF Gives, Ends
<1>11. Covers(FirstTick, regular, ts)
  BY <1>5, <1>6, <1>7 DEF Covers
<1>12. CaughtUp(wiring, ts, prev_end)
  BY <1>1, <1>5, <1>6 DEF CaughtUp
<1>13. RegulatorTypes
  <2>1. 0 \in T
    BY <1>2 DEF T
  <2>2. now \in Times
    BY <1>1 DEF Span, Times
  <2>3. given \in [Pullers -> T]
    BY <1>1, <2>1
  <2>4. triggerq \in Seq(QueueAtoms) /\ regular \in Seq(Times)
    BY <1>1
  <2> QED BY <1>1, <1>6, <2>1, <2>2, <2>3, <2>4 DEF RegulatorTypes
<1> QED BY <1>9, <1>10, <1>11, <1>12, <1>13 DEF RegulatorInv

LEMMA RegulatorFollows ==
  ASSUME RegulatorInv, Steady
  PROVE  RegulatorRight
<1>1. /\ wiring \in Wirings /\ regular \in Seq(Times) /\ IsPeriod(ts)
      /\ Awaits(wiring, triggerq, Reach, given[1]) /\ Gives(wiring, regular, ts, Reach)
      /\ triggerq \in Seq(QueueAtoms)
  BY DEF RegulatorInv, RegulatorTypes
<1>2. /\ MaxTick \in Nat /\ FirstTick \in Nat /\ wiring.regulator \in {"regular", "greedy"}
  BY <1>1, SteadyFacts, FirstTickIs
<1>3. Reach \in Nat /\ given[1] \in Nat
  BY ReachIs
<1>4. RegulatorForward
  <2>1. \A k \in DOMAIN regular : regular[k].e \in Nat
    <3>1. \A k \in DOMAIN regular : regular[k] \in Times
      BY <1>1
    <3> QED BY <3>1 DEF Times
  <2>2. Reach <= given[1]
    BY <1>1 DEF Awaits
  <2>3. Forward(regular) /\ (wiring.regulator = "regular" => Ends(regular, Reach))
    BY <1>1 DEF Gives
  <2>4. ASSUME wiring.regulator = "regular", NEW k \in DOMAIN regular
        PROVE  regular[k].e <= given[1]
    <3>1. regular[k].e <= Reach
      BY <2>3, <2>4 DEF Ends
    <3> QED BY <1>3, <2>1, <2>2, <3>1
  <2> QED BY <2>3, <2>4 DEF RegulatorForward
<1>5. RegulatorKeepsUp
  <2> SUFFICES ASSUME "gapless" \in wiring.calm, new_ts = <<>>, pc # "advance",
                      \A k \in DOMAIN triggerq : triggerq[k].to # "regulator",
                      NEW u \in FirstTick .. MaxTick,
                      IF wiring.regulator = "greedy" THEN u < given[1] ELSE u + ts.p <= given[1]
               PROVE  Holds(Range(regular), u)
    BY DEF RegulatorKeepsUp
  <2>1. Gapless(wiring)
    BY DEF Gapless
  <2>2. Covers(FirstTick, regular, ts) /\ CaughtUp(wiring, ts, prev_end) /\ Reach = prev_end
    BY <2>1 DEF RegulatorInv, Reach
  <2>3. \A k \in 1 .. Len(triggerq) : ~ForRegulator(triggerq[k])
    BY <1>1 DEF ForRegulator
  <2>4. given[1] <= prev_end
    BY <1>1, <2>2, <2>3 DEF Awaits
  <2>5. ts.e \in Nat /\ ts.p \in Nat /\ prev_end \in Nat
    BY <1>1, <1>2, <1>3, <2>2, PeriodFacts
  <2>6. u \in Nat /\ FirstTick <= u
    BY <1>2
  <2>7. u < ts.e
    <3>1. CASE wiring.regulator = "greedy"
      BY <1>3, <2>2, <2>4, <2>5, <2>6, <3>1 DEF CaughtUp
    <3>2. CASE wiring.regulator # "greedy"
      BY <1>3, <2>2, <2>4, <2>5, <2>6, <3>2 DEF CaughtUp
    <3> QED BY <3>1, <3>2
  <2> QED BY <2>2, <2>6, <2>7 DEF Covers
<1> QED BY <1>4, <1>5 DEF RegulatorRight

\* With the wirings and changes that a regulator is made for, any number of
\* triggers, gaps and changes of the period, the spans that TriggerRegulator and
\* TriggerRegulatorGreedy pull go forward in time, no tick twice, the regular
\* one never ahead of its trigger, and without gaps no tick is left out.
THEOREM RegulatorIsRight == Spec /\ []ChangesAhead => [](Steady => RegulatorRight)
<1> DEFINE I == Steady => RegulatorInv
<1>1. Init => I
  BY RegulatorInit
<1>2. I /\ ChangesAhead /\ [Next]_<<vars, wiring>> => I'
  <2> SUFFICES ASSUME I, ChangesAhead, [Next]_<<vars, wiring>>, Steady' PROVE RegulatorInv'
    OBVIOUS
  <2>1. wiring' = wiring
    BY DEF Next
  <2>2. Steady
    BY <2>1 DEF Steady
  <2> QED BY <2>2, RegulatorNext
<1>3. I => (Steady => RegulatorRight)
  BY RegulatorFollows
<1> QED BY <1>1, <1>2, <1>3, PTL DEF Spec
=============================================================================
