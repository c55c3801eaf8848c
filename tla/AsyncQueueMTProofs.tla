------------------------- MODULE AsyncQueueMTProofs -------------------------
(***************************************************************************)
(* Theorems about AsyncQueueMT, for any number of writers and of writes.   *)
(***************************************************************************)
EXTENDS AsyncQueueMT, FiniteSetTheorems, SequenceTheorems, TLAPS

-----------------------------------------------------------------------------
(* The invariant.                                                          *)

PopPc  == {"popLoad", "popNext", "popSwap"}
CopyPc == {"popNext", "popSwap", "pushCount", "pushSwap"}
HeldPc == {"construct", "fill", "loadTail", "swapTail", "pushLoad",
           "pushCount", "pushSwap"}

\* the writers that are at one of the places P, when p tells where they are
At(p, P) == {w \in Writers : p[w] \in P}

\* who is where, and with an element or without
PcInv ==
  /\ pc[Reader] \in {"idle", "pushLoad", "pushCount", "pushSwap", "countOut"}
  /\ \A w \in Writers : pc[w] # "countOut"
  /\ \A t \in Threads : cell[t] # NULL <=> pc[t] \in HeldPc \cup {"linkTail"}

\* no element is in two places, and none is lost
Held == {cell[t] : t \in Holders}
HeldOnce == \A t, u \in Holders : cell[t] = cell[u] => t = u
PlaceInv ==
  /\ Distinct(line) /\ Distinct(spares) /\ HeldOnce
  /\ InLine \cap Spares = {} /\ InLine \cap Held = {} /\ Spares \cap Held = {}
  /\ InLine \cup Spares \cup Held = 1 .. heap

\* the count tells how often the stack was popped, as far as its bits go
TagInv ==
  /\ Lf.count = pops % TagModulus
  /\ \A t \in Threads : seen[t] <= pops /\ top[t].count = seen[t] % TagModulus

\* what pop() knows of the stack as long as nobody else popped
PopInv ==
  \A w \in Writers : pc[w] \in {"popNext", "popSwap"} =>
    /\ top[w].head # NULL
    /\ seen[w] = pops =>
         /\ top[w].head \in Spares
         /\ pc[w] = "popSwap" => link[w] = next[top[w].head]

\* and push()
PushInv ==
  \A t \in Threads : pc[t] = "pushSwap" =>
    /\ next[cell[t]] = top[t].head
    /\ seen[t] = pops => link[t] = Lf.count

\* head, tail and next pointers lead along the line, except where a writer is
\* still to link its element
LineInv ==
  /\ line # <<>>
  /\ data_head = line[1]
  /\ data_tail = line[Len(line)]
  /\ next[line[Len(line)]] = NULL
  /\ \A i \in 1 .. (Len(line) - 1) : next[line[i]] \in {NULL, line[i + 1]}
  /\ got \in {NULL, line[1]}

LinkInv ==
  /\ \A w \in Writers : pc[w] = "linkTail" =>
       \E i \in 1 .. (Len(line) - 1) :
         tail[w] = line[i] /\ cell[w] = line[i + 1] /\ next[line[i]] = NULL
  /\ \A u, w \in Writers :
       pc[u] = "linkTail" /\ pc[w] = "linkTail" /\ cell[u] = cell[w] => u = w

\* a writer got here by asking for an element
AskedInv ==
  \A w \in Writers : pc[w] \in PopPc \cup {"construct", "fill"} => gets.of[w] > 0

\* a new tail ends the list
EndInv ==
  \A w \in Writers : pc[w] \in {"fill", "loadTail", "swapTail"} =>
                       next[cell[w]] = NULL

\* what is put in the line is a message
MsgInv ==
  /\ \A w \in Writers : pc[w] \in {"loadTail", "swapTail"} =>
                          data[cell[w]] \in Messages
  /\ \A i \in 2 .. Len(line) : data[line[i]] \in Messages

\* every getSpare() popped an element, allocated one, or is still at it
GetsInv ==
  heap - 1 + pops + Cardinality(At(pc, PopPc)) = gets.all

\* what is in the line was or will be counted in, and was not yet counted out
SizeInv ==
  entered + Cardinality(At(pc, {"linkTail", "count"}))
    = removed + (Len(line) - 1) + (IF pc[Reader] = "idle" THEN 0 ELSE 1)

IInv == /\ TypeOK /\ PcInv /\ PlaceInv /\ StackLinked /\ TagInv /\ PopInv
        /\ PushInv /\ LineInv /\ LinkInv /\ AskedInv /\ EndInv /\ MsgInv
        /\ GetsInv /\ SizeInv

(* No thread sleeps through as many pops as the count has values between   *)
(* its copy of Lf and its compare-and-swap: what LockFreeLIFO relies on.   *)
InTime ==
  \A t \in Threads : pc[t] \in CopyPc => pops - seen[t] < TagModulus

(* As many elements as the unsigned int of size() has values are never in  *)
(* the queue together.                                                     *)
SizeFits == Len(line) - 1 < SizeModulus

-----------------------------------------------------------------------------
(* The count of LIFO_element.                                              *)

\* quotient and remainder are unique
LEMMA Remainder ==
  ASSUME NEW m \in Nat \ {0}, NEW a \in Int, NEW b \in Int,
         NEW r \in 0 .. (m - 1), NEW s \in 0 .. (m - 1),
         (m * a) + r = (m * b) + s
  PROVE  a = b /\ r = s
<1>1. ASSUME NEW x \in Int, NEW y \in Int, x < y
      PROVE  m * y >= (m * x) + m
  <2>1. m * (y - x - 1) >= 0
    BY <1>1
  <2> QED BY <2>1
<1>2. ~ (a < b)
  BY <1>1
<1>3. ~ (b < a)
  BY <1>1
<1>4. a = b
  BY <1>2, <1>3
<1> QED BY <1>4

LEMMA Divided ==
  ASSUME NEW p \in Nat, NEW m \in Nat \ {0}
  PROVE  /\ p % m \in 0 .. (m - 1)
         /\ p \div m \in Int
         /\ p = (m * (p \div m)) + (p % m)
OBVIOUS

LEMMA RemainderIs ==
  ASSUME NEW p \in Nat, NEW m \in Nat \ {0}, NEW a \in Int,
         NEW r \in 0 .. (m - 1), p = (m * a) + r
  PROVE  p % m = r
<1> DEFINE q == p % m
           d == p \div m
<1>1. q \in 0 .. (m - 1) /\ d \in Int /\ p = (m * d) + q
  BY Divided
<1> HIDE DEF q, d
<1>2. q = r
  BY <1>1, Remainder
<1> QED BY <1>2 DEF q

\* one pop more, one count more
LEMMA NextTag ==
  ASSUME NEW p \in Nat, NEW m \in Nat \ {0}
  PROVE  /\ p % m \in 0 .. (m - 1)
         /\ ((p % m) + 1) % m = (p + 1) % m
<1> DEFINE q == p % m
           d == p \div m
<1>1. q \in 0 .. (m - 1) /\ d \in Int /\ p = (m * d) + q
  BY Divided
<1> HIDE DEF q, d
<1>2. CASE q + 1 < m
  <2>1. q + 1 \in 0 .. (m - 1) /\ p + 1 = (m * d) + (q + 1) /\ q + 1 = (m * 0) + (q + 1)
    BY <1>1, <1>2
  <2>2. (p + 1) % m = q + 1
    BY <1>1, <2>1, RemainderIs
  <2>3. (q + 1) % m = q + 1
    BY <1>1, <2>1, RemainderIs
  <2> QED BY <1>1, <2>2, <2>3 DEF q
<1>3. CASE q + 1 = m
  <2>1. p + 1 = (m * (d + 1)) + 0 /\ m = (m * 1) + 0
    BY <1>1, <1>3
  <2>2. (p + 1) % m = 0 /\ m % m = 0
    BY <1>1, <2>1, RemainderIs
  <2> QED BY <1>1, <1>3, <2>2 DEF q
<1> QED BY <1>1, <1>2, <1>3

\* fewer pops than the count has values: the count shows whether there were any
LEMMA SameTag ==
  ASSUME NEW m \in Nat \ {0}, NEW p \in Nat, NEW s \in Nat,
         s <= p, p - s < m, p % m = s % m
  PROVE  p = s
<1> DEFINE q == s % m
           d == s \div m
           e == p \div m
<1>1. /\ q \in 0 .. (m - 1) /\ d \in Int /\ s = (m * d) + q
      /\ e \in Int /\ p = (m * e) + q
  BY Divided
<1> HIDE DEF q, d, e
<1>2. (m * e) + 0 = (m * d) + (p - s) /\ p - s \in 0 .. (m - 1)
  BY <1>1
<1> QED BY <1>1, <1>2, Remainder

-----------------------------------------------------------------------------
(* Sequences of elements.                                                  *)

LEMMA AppendFacts ==
  ASSUME NEW S, NEW s \in Seq(S), NEW x \in S
  PROVE  /\ Append(s, x) \in Seq(S)
         /\ Len(Append(s, x)) = Len(s) + 1
         /\ DOMAIN Append(s, x) = 1 .. (Len(s) + 1)
         /\ \A i \in 1 .. Len(s) : Append(s, x)[i] = s[i]
         /\ Append(s, x)[Len(s) + 1] = x
OBVIOUS

LEMMA TailFacts ==
  ASSUME NEW S, NEW s \in Seq(S), s # <<>>
  PROVE  /\ Tail(s) \in Seq(S)
         /\ Len(s) \in Nat \ {0}
         /\ Len(Tail(s)) = Len(s) - 1
         /\ DOMAIN Tail(s) = 1 .. (Len(s) - 1)
         /\ \A i \in 1 .. (Len(s) - 1) : Tail(s)[i] = s[i + 1]
OBVIOUS

LEMMA PushFacts ==
  ASSUME NEW S, NEW s \in Seq(S), NEW x \in S
  PROVE  /\ <<x>> \o s \in Seq(S)
         /\ <<x>> \o s # <<>>
         /\ Len(<<x>> \o s) = Len(s) + 1
         /\ DOMAIN (<<x>> \o s) = 1 .. (Len(s) + 1)
         /\ (<<x>> \o s)[1] = x
         /\ \A i \in 1 .. Len(s) : (<<x>> \o s)[i + 1] = s[i]
<1>1. <<x>> \in Seq(S) /\ Len(<<x>>) = 1 /\ <<x>>[1] = x
  OBVIOUS
<1>2. /\ <<x>> \o s \in Seq(S)
      /\ Len(<<x>> \o s) = 1 + Len(s)
      /\ \A i \in 1 .. (1 + Len(s)) :
           (<<x>> \o s)[i] = IF i <= 1 THEN <<x>>[i] ELSE s[i - 1]
  BY <1>1, ConcatProperties
<1> HIDE <1>1
<1> DEFINE p == <<x>> \o s
<1>3. p \in Seq(S) /\ Len(p) = 1 + Len(s) /\ p[1] = x
      /\ \A i \in 1 .. Len(s) : p[i + 1] = s[i]
  BY <1>1, <1>2
<1> HIDE DEF p
<1>4. p # <<>> /\ DOMAIN p = 1 .. (Len(s) + 1)
  BY <1>3
<1> QED BY <1>3, <1>4 DEF p

Members(s) == {s[i] : i \in DOMAIN s}

LEMMA AppendMembers ==
  ASSUME NEW S, NEW s \in Seq(S), NEW x \in S, Distinct(s), x \notin Members(s)
  PROVE  Members(Append(s, x)) = Members(s) \cup {x} /\ Distinct(Append(s, x))
<1>1. PICK z \in Seq(S) : z = Append(s, x)
  BY AppendFacts
<1>2. /\ DOMAIN z = 1 .. (Len(s) + 1) /\ DOMAIN s = 1 .. Len(s) /\ Len(s) \in Nat
      /\ \A i \in 1 .. Len(s) : z[i] = s[i]
      /\ z[Len(s) + 1] = x
  BY <1>1, AppendFacts
<1>3. Members(z) = Members(s) \cup {x}
  BY <1>2 DEF Members
<1>4. Distinct(z)
  BY <1>2 DEF Members, Distinct
<1> QED BY <1>1, <1>3, <1>4

LEMMA TailMembers ==
  ASSUME NEW S, NEW s \in Seq(S), s # <<>>, Distinct(s)
  PROVE  /\ Members(Tail(s)) = Members(s) \ {s[1]} /\ Distinct(Tail(s))
         /\ s[1] \in Members(s) /\ s[1] \in S
<1>1. PICK z \in Seq(S) : z = Tail(s)
  BY TailFacts
<1>2. /\ DOMAIN z = 1 .. (Len(s) - 1) /\ DOMAIN s = 1 .. Len(s) /\ Len(s) \in Nat \ {0}
      /\ \A i \in 1 .. (Len(s) - 1) : z[i] = s[i + 1]
  BY <1>1, TailFacts
<1>3. ASSUME NEW i \in DOMAIN z
      PROVE  z[i] \in Members(s) \ {s[1]}
  <2>1. i + 1 \in DOMAIN s /\ 1 \in DOMAIN s /\ z[i] = s[i + 1] /\ i + 1 # 1
    BY <1>2
  <2> QED BY <2>1 DEF Members, Distinct
<1>4. ASSUME NEW i \in DOMAIN s, s[i] # s[1]
      PROVE  s[i] \in Members(z)
  <2>1. i - 1 \in DOMAIN z /\ z[i - 1] = s[i]
    BY <1>2, <1>4
  <2> QED BY <2>1 DEF Members
<1>5. Distinct(z)
  <2>1. SUFFICES ASSUME NEW i \in DOMAIN z, NEW j \in DOMAIN z, z[i] = z[j]
                 PROVE  i = j
    BY DEF Distinct
  <2>2. i + 1 \in DOMAIN s /\ j + 1 \in DOMAIN s /\ s[i + 1] = s[j + 1]
    BY <1>2, <2>1
  <2>3. i + 1 = j + 1
    BY <2>2 DEF Distinct
  <2> QED BY <1>2, <2>3
<1>6. s[1] \in Members(s) /\ s[1] \in S
  BY <1>2 DEF Members
<1>7. Members(s) \ {s[1]} \subseteq Members(z)
  BY <1>4 DEF Members
<1>8. Members(z) \subseteq Members(s) \ {s[1]}
  BY <1>3 DEF Members
<1> QED BY <1>1, <1>8, <1>5, <1>6, <1>7

LEMMA PushMembers ==
  ASSUME NEW S, NEW s \in Seq(S), NEW x \in S, Distinct(s), x \notin Members(s)
  PROVE  Members(<<x>> \o s) = Members(s) \cup {x} /\ Distinct(<<x>> \o s)
<1>1. PICK z \in Seq(S) : z = <<x>> \o s
  BY PushFacts
<1>2. /\ DOMAIN z = 1 .. (Len(s) + 1) /\ DOMAIN s = 1 .. Len(s) /\ Len(s) \in Nat
      /\ z[1] = x
      /\ \A i \in 1 .. Len(s) : z[i + 1] = s[i]
  BY <1>1, PushFacts
<1>6. \A i \in DOMAIN z : i = 1 \/ (i - 1 \in DOMAIN s /\ z[i] = s[i - 1])
  BY <1>2
<1>3. Members(z) \subseteq Members(s) \cup {x}
  BY <1>2, <1>6 DEF Members
<1>5. Members(s) \cup {x} \subseteq Members(z)
  BY <1>2 DEF Members
<1>4. Distinct(z)
  BY <1>2, <1>6 DEF Members, Distinct
<1> QED BY <1>1, <1>3, <1>4, <1>5

-----------------------------------------------------------------------------
(* Counting the writers that are somewhere.                                *)

LEMMA AtFinite ==
  ASSUME NEW p, NEW P
  PROVE  IsFiniteSet(At(p, P)) /\ Cardinality(At(p, P)) \in Nat
<1>1. At(p, P) \subseteq Writers
  BY DEF At
<1> QED BY <1>1, QueueAssumption, FS_Subset, FS_CardinalityType

-----------------------------------------------------------------------------
(* Initial states.                                                         *)

LEMMA QueueInit == Init => IInv
<1> SUFFICES ASSUME Init PROVE IInv
  OBVIOUS
<1> USE QueueAssumption DEF Init, Threads, NULL
<1>1. TypeOK
  BY DEF TypeOK, Cells, Ptr, Places
<1>2. Holders = {} /\ InLine = {1} /\ Spares = {}
  BY DEF Holders, InLine, Spares
<1>b. Held = {} /\ HeldOnce
  BY <1>2 DEF Held, HeldOnce
<1>3. PcInv /\ StackLinked /\ PopInv /\ PushInv /\ LinkInv
  BY DEF PcInv, StackLinked, PopInv, PushInv, LinkInv, HeldPc
<1>4. PlaceInv
  BY <1>2, <1>b DEF PlaceInv, Distinct
<1>5. TagInv
  BY NextTag DEF TagInv
<1>6. LineInv /\ AskedInv /\ EndInv /\ MsgInv
  BY DEF LineInv, AskedInv, EndInv, MsgInv, Cells, PopPc
<1>7. At(pc, PopPc) = {} /\ At(pc, {"linkTail", "count"}) = {}
  BY DEF At, PopPc
<1>a. Cardinality(At(pc, PopPc)) = 0 /\ Cardinality(At(pc, {"linkTail", "count"})) = 0
  BY <1>7, FS_EmptySet
<1>8. GetsInv
  BY <1>a DEF GetsInv
<1>9. SizeInv
  BY <1>a DEF SizeInv
<1> QED BY <1>1, <1>3, <1>4, <1>5, <1>6, <1>8, <1>9 DEF IInv

-----------------------------------------------------------------------------
(* Steps of a writer.                                                      *)

\* a thread goes on to b
LEMMA Moves ==
  ASSUME TypeOK, NEW t \in Threads, NEW b \in Places, Goto(t, b)
  PROVE  /\ pc' \in [Threads -> Places]
         /\ pc'[t] = b
         /\ \A u \in Threads \ {t} : pc'[u] = pc[u]
BY DEF Goto, TypeOK, Places

\* and so changes the number of writers at some place
LEMMA WriterMoves ==
  ASSUME pc \in [Threads -> Places], NEW w \in Writers, NEW b \in Places, NEW P, Goto(w, b)
  PROVE  /\ Cardinality(At(pc, P)) \in Nat
         /\ Cardinality(At(pc', P)) \in Nat
         /\ (b \in P <=> pc[w] \in P) => Cardinality(At(pc', P)) = Cardinality(At(pc, P))
         /\ b \in P /\ pc[w] \notin P
              => Cardinality(At(pc', P)) = Cardinality(At(pc, P)) + 1
         /\ b \notin P /\ pc[w] \in P
              => Cardinality(At(pc', P)) = Cardinality(At(pc, P)) - 1
<1>1. IsFiniteSet(At(pc, P))
  BY AtFinite
<1>2. Cardinality(At(pc, P)) \in Nat /\ Cardinality(At(pc', P)) \in Nat
  BY AtFinite
<1>3. \A u \in Writers : pc'[u] = IF u = w THEN b ELSE pc[u]
  BY DEF Threads, Goto
<1>4. ASSUME b \in P <=> pc[w] \in P PROVE At(pc', P) = At(pc, P)
  BY <1>3, <1>4 DEF At
<1>5. ASSUME b \in P, pc[w] \notin P
      PROVE  Cardinality(At(pc', P)) = Cardinality(At(pc, P)) + 1
  <2>1. At(pc', P) = At(pc, P) \cup {w} /\ w \notin At(pc, P)
    BY <1>3, <1>5 DEF At
  <2> QED BY <2>1, <1>1, FS_AddElement
<1>6. ASSUME b \notin P, pc[w] \in P
      PROVE  Cardinality(At(pc', P)) = Cardinality(At(pc, P)) - 1
  <2>1. At(pc', P) = At(pc, P) \ {w} /\ w \in At(pc, P)
    BY <1>3, <1>6 DEF At
  <2> QED BY <2>1, <1>1, FS_RemoveElement
<1> QED BY <1>2, <1>4, <1>5, <1>6

LEMMA CountMoves ==
  ASSUME TypeOK, NEW w \in Writers, NEW b \in Places, NEW P, Goto(w, b)
  PROVE  /\ Cardinality(At(pc, P)) \in Nat
         /\ Cardinality(At(pc', P)) \in Nat
         /\ (b \in P <=> pc[w] \in P) => Cardinality(At(pc', P)) = Cardinality(At(pc, P))
         /\ b \in P /\ pc[w] \notin P
              => Cardinality(At(pc', P)) = Cardinality(At(pc, P)) + 1
         /\ b \notin P /\ pc[w] \in P
              => Cardinality(At(pc', P)) = Cardinality(At(pc, P)) - 1
<1>1. pc \in [Threads -> Places]
  BY DEF TypeOK
<1> QED BY <1>1, WriterMoves

LEMMA CountStays ==
  ASSUME TypeOK, NEW t \in Threads, NEW b \in Places, NEW P, Goto(t, b),
         t = Reader \/ (b \notin P /\ pc[t] \notin P)
  PROVE  At(pc', P) = At(pc, P) /\ Cardinality(At(pc, P)) \in Nat
<1>1. \A u \in Writers : pc'[u] = IF u = t THEN b ELSE pc[u]
  BY DEF Threads, TypeOK, Goto
<1>2. At(pc', P) = At(pc, P)
  BY <1>1, QueueAssumption DEF At
<1> QED BY <1>2, AtFinite

\* the threads that have an element to themselves, by where they are
LEMMA HoldersAre ==
  ASSUME TypeOK, PcInv, TypeOK', PcInv'
  PROVE  /\ Holders = {t \in Threads : pc[t] \in HeldPc}
         /\ Holders' = {t \in Threads : pc'[t] \in HeldPc}
BY DEF Holders, PcInv, TypeOK, HeldPc

\* nothing changes hands
LEMMA PlaceSame ==
  ASSUME PlaceInv, UNCHANGED <<line, spares, heap>>, Holders' = Holders,
         \A t \in Holders : cell'[t] = cell[t]
  PROVE  PlaceInv'
<1>1. Held' = Held /\ HeldOnce'
  BY DEF Held, HeldOnce, PlaceInv
<1> QED BY <1>1 DEF PlaceInv, InLine, Spares

\* a thread gets an element
LEMMA HeldGains ==
  ASSUME HeldOnce, NEW t \in Threads, NEW x, t \notin Holders, x \notin Held,
         Holders' = Holders \cup {t}, cell'[t] = x,
         \A u \in Holders : cell'[u] = cell[u]
  PROVE  Held' = Held \cup {x} /\ HeldOnce'
BY DEF Held, HeldOnce

\* a thread gives its element away
LEMMA HeldLoses ==
  ASSUME HeldOnce, NEW t \in Holders, Holders' = Holders \ {t},
         \A u \in Holders \ {t} : cell'[u] = cell[u]
  PROVE  Held' = Held \ {cell[t]} /\ HeldOnce' /\ cell[t] \in Held
BY DEF Held, HeldOnce

-----------------------------------------------------------------------------
(* What each part of the invariant asks of a step that leaves it alone.    *)

LEMMA Sequences ==
  ASSUME TypeOK
  PROVE  /\ Len(line) \in Nat /\ DOMAIN line = 1 .. Len(line)
         /\ \A i \in 1 .. Len(line) : line[i] \in Cells
         /\ Len(spares) \in Nat /\ DOMAIN spares = 1 .. Len(spares)
         /\ \A i \in 1 .. Len(spares) : spares[i] \in Cells
<1>1. line \in Seq(Cells) /\ spares \in Seq(Cells)
  BY DEF TypeOK
<1> QED BY <1>1

LEMMA StackFrame ==
  ASSUME StackLinked, UNCHANGED <<spares, Lf>>,
         \A i \in DOMAIN spares : next'[spares[i]] = next[spares[i]]
  PROVE  StackLinked'
BY DEF StackLinked

LEMMA LineFrame ==
  ASSUME TypeOK, LineInv, UNCHANGED <<line, data_head, data_tail, got>>,
         \A i \in 1 .. Len(line) : next'[line[i]] = next[line[i]]
  PROVE  LineInv'
<1>1. line \in Seq(Cells) /\ line # <<>>
  BY DEF TypeOK, LineInv
<1>2. Len(line) \in Nat /\ Len(line) >= 1
  BY <1>1
<1>3. next'[line[Len(line)]] = NULL
  BY <1>2 DEF LineInv
<1>4. \A i \in 1 .. (Len(line) - 1) : next'[line[i]] \in {NULL, line[i + 1]}
  BY <1>2 DEF LineInv
<1> QED BY <1>3, <1>4 DEF LineInv

LEMMA LinkFrame ==
  ASSUME TypeOK, LinkInv, line' = line,
         \A i \in 1 .. Len(line) : next'[line[i]] = next[line[i]],
         \A w \in Writers : pc'[w] = "linkTail" =>
           pc[w] = "linkTail" /\ cell'[w] = cell[w] /\ tail'[w] = tail[w]
  PROVE  LinkInv'
<1>1. ASSUME NEW w \in Writers, pc'[w] = "linkTail"
      PROVE  \E i \in 1 .. (Len(line') - 1) :
               tail'[w] = line'[i] /\ cell'[w] = line'[i + 1] /\ next'[line'[i]] = NULL
  <2>1. PICK i \in 1 .. (Len(line) - 1) :
          tail[w] = line[i] /\ cell[w] = line[i + 1] /\ next[line[i]] = NULL
    BY <1>1 DEF LinkInv
  <2>2. i \in 1 .. Len(line)
    BY <2>1, Sequences
  <2> QED BY <1>1, <2>1, <2>2
<1>2. \A u, w \in Writers :
        pc'[u] = "linkTail" /\ pc'[w] = "linkTail" /\ cell'[u] = cell'[w] => u = w
  BY DEF LinkInv
<1> QED BY <1>1, <1>2 DEF LinkInv

LEMMA PopFrame ==
  ASSUME PopInv, UNCHANGED pops,
         \A c \in Spares : c \in Spares' /\ next'[c] = next[c],
         \A w \in Writers : pc'[w] \in {"popNext", "popSwap"} =>
           pc'[w] = pc[w] /\ top'[w] = top[w] /\ seen'[w] = seen[w] /\ link'[w] = link[w]
  PROVE  PopInv'
BY DEF PopInv

LEMMA PushFrame ==
  ASSUME PushInv, UNCHANGED pops, Lf'.count = Lf.count,
         \A t \in Threads : pc'[t] = "pushSwap" =>
           /\ pc[t] = "pushSwap" /\ cell'[t] = cell[t] /\ top'[t] = top[t]
           /\ seen'[t] = seen[t] /\ link'[t] = link[t]
           /\ next'[cell[t]] = next[cell[t]]
  PROVE  PushInv'
BY DEF PushInv

LEMMA AskedFrame ==
  ASSUME AskedInv, UNCHANGED gets,
         \A w \in Writers : pc'[w] \in PopPc \cup {"construct", "fill"} =>
                              pc[w] \in PopPc \cup {"construct", "fill"}
  PROVE  AskedInv'
BY DEF AskedInv

LEMMA EndFrame ==
  ASSUME EndInv,
         \A w \in Writers : pc'[w] \in {"fill", "loadTail", "swapTail"} =>
           /\ pc[w] \in {"fill", "loadTail", "swapTail"}
           /\ cell'[w] = cell[w] /\ next'[cell[w]] = next[cell[w]]
  PROVE  EndInv'
BY DEF EndInv

LEMMA MsgFrame ==
  ASSUME TypeOK, MsgInv, UNCHANGED line,
         \A i \in 1 .. Len(line) : data'[line[i]] = data[line[i]],
         \A w \in Writers : pc'[w] \in {"loadTail", "swapTail"} =>
           /\ pc[w] \in {"loadTail", "swapTail"}
           /\ cell'[w] = cell[w] /\ data'[cell[w]] = data[cell[w]]
  PROVE  MsgInv'
<1>1. \A i \in 2 .. Len(line) : data'[line[i]] \in Messages
  BY Sequences DEF MsgInv
<1>2. \A w \in Writers : pc'[w] \in {"loadTail", "swapTail"} => data'[cell'[w]] \in Messages
  BY DEF MsgInv
<1> QED BY <1>1, <1>2 DEF MsgInv

\* an element that a thread has to itself is nowhere else
LEMMA OwnCell ==
  ASSUME IInv, NEW t \in Threads, pc[t] \in HeldPc
  PROVE  /\ cell[t] \in Cells /\ t \in Holders
         /\ cell[t] \notin InLine /\ cell[t] \notin Spares
         /\ \A i \in DOMAIN line : line[i] # cell[t]
         /\ \A i \in DOMAIN spares : spares[i] # cell[t]
         /\ \A u \in Threads \ {t} : pc[u] \in HeldPc => cell[u] # cell[t]
<1> USE DEF IInv
<1>1. \A u \in Threads : u \in Holders <=> pc[u] \in HeldPc
  BY DEF Holders, PcInv, TypeOK, HeldPc
<1>2. cell[t] \in Held /\ cell[t] \in Ptr /\ cell[t] # NULL
  BY <1>1 DEF Held, PcInv, TypeOK
<1>3. cell[t] \in Cells
  BY <1>2 DEF Ptr
<1>4. cell[t] \notin InLine /\ cell[t] \notin Spares
  BY <1>2 DEF PlaceInv
<1> QED BY <1>1, <1>3, <1>4 DEF PlaceInv, HeldOnce, InLine, Spares

\* so that others do not see what changes in it
LEMMA NotOwn ==
  ASSUME IInv, NEW t \in Threads, pc[t] \in HeldPc
  PROVE  /\ \A i \in 1 .. Len(line) : line[i] \in Cells \ {cell[t]}
         /\ \A i \in DOMAIN spares : spares[i] \in Cells \ {cell[t]}
         /\ \A c \in Spares : c \in Cells \ {cell[t]}
         /\ \A u \in Threads \ {t} : pc[u] \in HeldPc => cell[u] \in Cells \ {cell[t]}
<1>0. TypeOK
  BY DEF IInv
<1>1. /\ \A i \in 1 .. Len(line) : line[i] \in Cells \ {cell[t]}
      /\ \A i \in DOMAIN spares : spares[i] \in Cells \ {cell[t]}
  BY <1>0, Sequences, OwnCell
<1>2. \A c \in Spares : c \in Cells \ {cell[t]}
  BY <1>1 DEF Spares
<1>3. \A u \in Threads \ {t} : pc[u] \in HeldPc => cell[u] \in Cells \ {cell[t]}
  BY OwnCell
<1> QED BY <1>1, <1>2, <1>3

-----------------------------------------------------------------------------
(* Steps of a writer, and of push().                                       *)

LEMMA GetSpareStep ==
  ASSUME IInv, NEW w \in Writers, GetSpare(w)
  PROVE  IInv'
<1> USE QueueAssumption DEF IInv
<1>0. /\ pc[w] = "idle" /\ Goto(w, "popLoad")
      /\ UNCHANGED <<next, data, heap, Lf, spares, pops, cell, top, link,
                    tail, got, seen, data_head, data_tail, entered, removed,
                    line>>
  BY DEF GetSpare, stackVars, queueVars
<1>m. /\ pc' \in [Threads -> Places] /\ pc'[w] = "popLoad"
      /\ \A u \in Threads \ {w} : pc'[u] = pc[u]
  BY <1>0, Moves DEF Threads, Places
<1>g. /\ gets' \in [all : 0 .. MaxGets, of : [Writers -> 0 .. MaxGets]]
      /\ gets'.all = gets.all + 1 /\ gets'.of[w] > 0
      /\ \A u \in Writers \ {w} : gets'.of[u] = gets.of[u]
  <2>1. /\ gets.all < MaxGets
        /\ gets' = [all |-> gets.all + 1, of |-> [gets.of EXCEPT ![w] = gets.of[w] + 1]]
    BY DEF GetSpare
  <2>2. gets.of[w] < MaxGets
    BY DEF GetSpare, TypeOK
  <2>3. gets.all \in 0 .. MaxGets /\ gets.of \in [Writers -> 0 .. MaxGets]
    BY DEF TypeOK
  <2>4. gets.all + 1 \in 0 .. MaxGets /\ gets.of[w] + 1 \in 1 .. MaxGets
    BY <2>1, <2>2, <2>3
  <2> QED BY <2>1, <2>3, <2>4
<1>c. /\ Cardinality(At(pc, PopPc)) \in Nat
      /\ Cardinality(At(pc', PopPc)) = Cardinality(At(pc, PopPc)) + 1
      /\ Cardinality(At(pc, {"linkTail", "count"})) \in Nat
      /\ Cardinality(At(pc', {"linkTail", "count"})) = Cardinality(At(pc, {"linkTail", "count"}))
  BY <1>0, CountMoves DEF PopPc, Places
<1>1. TypeOK'
  BY <1>0, <1>m, <1>g DEF TypeOK
<1>2. PcInv'
  BY <1>0, <1>m DEF PcInv, TypeOK, Threads, HeldPc
<1>3. Holders' = Holders
  BY <1>0, <1>m, <1>1, <1>2, HoldersAre DEF HeldPc
<1>4. PlaceInv'
  BY <1>0, <1>3, PlaceSame
<1>5. StackLinked'
  BY <1>0, StackFrame
<1>6. TagInv'
  BY <1>0 DEF TagInv
<1>7. PopInv'
  BY <1>0, <1>m, PopFrame DEF Spares, Threads
<1>8. PushInv'
  BY <1>0, <1>m, PushFrame
<1>9. LineInv'
  BY <1>0, LineFrame
<1>10. LinkInv'
  BY <1>0, <1>m, LinkFrame DEF Threads
<1>11. AskedInv'
  BY <1>0, <1>m, <1>g DEF AskedInv, Threads
<1>12. EndInv'
  BY <1>0, <1>m, EndFrame DEF Threads
<1>13. MsgInv'
  BY <1>0, <1>m, MsgFrame DEF Threads
<1>14. GetsInv'
  BY <1>0, <1>c, <1>g DEF GetsInv, TypeOK, Cells
<1>15. SizeInv'
  BY <1>0, <1>m, <1>c DEF SizeInv, TypeOK, Threads
<1> QED BY <1>1, <1>2, <1>4, <1>5, <1>6, <1>7, <1>8, <1>9,
           <1>10, <1>11, <1>12, <1>13, <1>14, <1>15

LEMMA PopNextStep ==
  ASSUME IInv, NEW w \in Writers, PopNext(w)
  PROVE  IInv'
<1> USE QueueAssumption DEF IInv
<1>0. /\ pc[w] = "popNext" /\ Goto(w, "popSwap")
      /\ UNCHANGED <<next, data, heap, Lf, spares, pops, cell, top, tail, got,
                    seen, data_head, data_tail, entered, removed, line, gets>>
  BY DEF PopNext, stackVars, queueVars
<1>e. /\ link' = [link EXCEPT ![w] = next[top[w].head]]
  BY DEF PopNext
<1>m. /\ pc' \in [Threads -> Places] /\ pc'[w] = "popSwap"
      /\ \A u \in Threads \ {w} : pc'[u] = pc[u]
  BY <1>0, Moves DEF Threads, Places
<1>l. /\ link' \in [Threads -> Nat] /\ link'[w] = next[top[w].head]
      /\ \A u \in Threads \ {w} : link'[u] = link[u]
  <2>1. top[w].head \in Ptr /\ top[w].head # NULL
    BY <1>0 DEF PopInv, TypeOK, Threads
  <2>2. next[top[w].head] \in Ptr
    BY <2>1 DEF TypeOK, Ptr
  <2>3. next[top[w].head] \in Nat
    BY <2>2 DEF Ptr, Cells, NULL
  <2> QED BY <1>e, <2>3 DEF TypeOK, Threads
<1>c. /\ Cardinality(At(pc, PopPc)) \in Nat
      /\ Cardinality(At(pc', PopPc)) = Cardinality(At(pc, PopPc))
      /\ Cardinality(At(pc, {"linkTail", "count"})) \in Nat
      /\ Cardinality(At(pc', {"linkTail", "count"})) = Cardinality(At(pc, {"linkTail", "count"}))
  BY <1>0, CountMoves DEF PopPc, Places
<1>1. TypeOK'
  BY <1>0, <1>m, <1>l DEF TypeOK
<1>2. PcInv'
  BY <1>0, <1>m DEF PcInv, TypeOK, Threads, HeldPc
<1>3. Holders' = Holders
  BY <1>0, <1>m, <1>1, <1>2, HoldersAre DEF HeldPc
<1>4. PlaceInv'
  BY <1>0, <1>3, PlaceSame
<1>5. StackLinked'
  BY <1>0, StackFrame
<1>6. TagInv'
  BY <1>0 DEF TagInv
<1>7. PopInv'
  BY <1>0, <1>m, <1>l DEF PopInv, Spares, Threads
<1>8. PushInv'
  BY <1>0, <1>m, <1>l, PushFrame
<1>9. LineInv'
  BY <1>0, LineFrame
<1>10. LinkInv'
  BY <1>0, <1>m, LinkFrame DEF Threads
<1>11. AskedInv'
  BY <1>0, <1>m, AskedFrame DEF PopPc, Threads
<1>12. EndInv'
  BY <1>0, <1>m, EndFrame DEF Threads
<1>13. MsgInv'
  BY <1>0, <1>m, MsgFrame DEF Threads
<1>14. GetsInv'
  BY <1>0, <1>c DEF GetsInv, TypeOK, Cells
<1>15. SizeInv'
  BY <1>0, <1>m, <1>c DEF SizeInv, TypeOK, Threads
<1> QED BY <1>1, <1>2, <1>4, <1>5, <1>6, <1>7, <1>8, <1>9,
           <1>10, <1>11, <1>12, <1>13, <1>14, <1>15

LEMMA ConstructStep ==
  ASSUME IInv, NEW w \in Writers, Construct(w)
  PROVE  IInv'
<1> USE QueueAssumption DEF IInv
<1>0. /\ pc[w] = "construct" /\ Goto(w, "fill")
      /\ UNCHANGED <<heap, Lf, spares, pops, cell, top, link, tail, got, seen,
                    data_head, data_tail, entered, removed, line, gets>>
  BY DEF Construct, stackVars, queueVars
<1>e. /\ next' = [next EXCEPT ![cell[w]] = NULL]
      /\ data' = [data EXCEPT ![cell[w]] = NoData]
  BY DEF Construct
<1>m. /\ pc' \in [Threads -> Places] /\ pc'[w] = "fill"
      /\ \A u \in Threads \ {w} : pc'[u] = pc[u]
  BY <1>0, Moves DEF Threads, Places
<1>o. /\ cell[w] \in Cells
      /\ \A i \in 1 .. Len(line) : line[i] \in Cells \ {cell[w]}
      /\ \A i \in DOMAIN spares : spares[i] \in Cells \ {cell[w]}
      /\ \A c \in Spares : c \in Cells \ {cell[w]}
      /\ \A u \in Threads \ {w} : pc[u] \in HeldPc => cell[u] \in Cells \ {cell[w]}
  BY <1>0, OwnCell, NotOwn DEF HeldPc, Threads
<1>n. /\ next' \in [Cells -> Ptr] /\ next'[cell[w]] = NULL
      /\ \A i \in 1 .. Len(line) : next'[line[i]] = next[line[i]]
      /\ \A i \in DOMAIN spares : next'[spares[i]] = next[spares[i]]
      /\ \A c \in Spares : next'[c] = next[c]
      /\ \A u \in Threads \ {w} : pc[u] \in HeldPc => next'[cell[u]] = next[cell[u]]
  BY <1>e, <1>o DEF TypeOK, Ptr
<1>d. /\ data' \in [Cells -> Messages \cup {NoData}]
      /\ \A i \in 1 .. Len(line) : data'[line[i]] = data[line[i]]
      /\ \A u \in Threads \ {w} : pc[u] \in HeldPc => data'[cell[u]] = data[cell[u]]
  BY <1>e, <1>o DEF TypeOK
<1>c. /\ Cardinality(At(pc, PopPc)) \in Nat
      /\ Cardinality(At(pc', PopPc)) = Cardinality(At(pc, PopPc))
      /\ Cardinality(At(pc, {"linkTail", "count"})) \in Nat
      /\ Cardinality(At(pc', {"linkTail", "count"})) = Cardinality(At(pc, {"linkTail", "count"}))
  BY <1>0, CountMoves DEF PopPc, Places
<1>1. TypeOK'
  BY <1>0, <1>m, <1>n, <1>d DEF TypeOK
<1>2. PcInv'
  BY <1>0, <1>m DEF PcInv, TypeOK, Threads, HeldPc
<1>3. Holders' = Holders
  BY <1>0, <1>m, <1>1, <1>2, HoldersAre DEF HeldPc
<1>4. PlaceInv'
  BY <1>0, <1>3, PlaceSame
<1>5. StackLinked'
  BY <1>0, <1>n, StackFrame
<1>6. TagInv'
  BY <1>0 DEF TagInv
<1>7. PopInv'
  BY <1>0, <1>m, <1>n, PopFrame DEF Spares, Threads
<1>8. PushInv'
  BY <1>0, <1>m, <1>n, PushFrame DEF HeldPc
<1>9. LineInv'
  BY <1>0, <1>n, LineFrame
<1>10. LinkInv'
  BY <1>0, <1>m, <1>n, LinkFrame DEF Threads
<1>11. AskedInv'
  BY <1>0, <1>m, AskedFrame DEF PopPc, Threads
<1>12. EndInv'
  BY <1>0, <1>m, <1>n DEF EndInv, HeldPc, Threads
<1>13. MsgInv'
  BY <1>0, <1>m, <1>d, MsgFrame DEF HeldPc, Threads
<1>14. GetsInv'
  BY <1>0, <1>c DEF GetsInv, TypeOK, Cells
<1>15. SizeInv'
  BY <1>0, <1>m, <1>c DEF SizeInv, TypeOK, Threads
<1> QED BY <1>1, <1>2, <1>4, <1>5, <1>6, <1>7, <1>8, <1>9,
           <1>10, <1>11, <1>12, <1>13, <1>14, <1>15

LEMMA FillStep ==
  ASSUME IInv, NEW w \in Writers, Fill(w)
  PROVE  IInv'
<1> USE QueueAssumption DEF IInv
<1>0. /\ pc[w] = "fill" /\ Goto(w, "loadTail")
      /\ UNCHANGED <<next, heap, Lf, spares, pops, cell, top, link, tail, got,
                    seen, data_head, data_tail, entered, removed, line, gets>>
  BY DEF Fill, stackVars, queueVars
<1>e. /\ data' = [data EXCEPT ![cell[w]] = <<w, gets.of[w]>>]
  BY DEF Fill
<1>m. /\ pc' \in [Threads -> Places] /\ pc'[w] = "loadTail"
      /\ \A u \in Threads \ {w} : pc'[u] = pc[u]
  BY <1>0, Moves DEF Threads, Places
<1>x. <<w, gets.of[w]>> \in Messages
  BY <1>0 DEF AskedInv, Messages, TypeOK
<1>o. /\ cell[w] \in Cells
      /\ \A i \in 1 .. Len(line) : line[i] \in Cells \ {cell[w]}
      /\ \A i \in DOMAIN spares : spares[i] \in Cells \ {cell[w]}
      /\ \A c \in Spares : c \in Cells \ {cell[w]}
      /\ \A u \in Threads \ {w} : pc[u] \in HeldPc => cell[u] \in Cells \ {cell[w]}
  BY <1>0, OwnCell, NotOwn DEF HeldPc, Threads
<1>d. /\ data' \in [Cells -> Messages \cup {NoData}] /\ data'[cell[w]] \in Messages
      /\ \A i \in 1 .. Len(line) : data'[line[i]] = data[line[i]]
      /\ \A u \in Threads \ {w} : pc[u] \in HeldPc => data'[cell[u]] = data[cell[u]]
  BY <1>e, <1>o, <1>x DEF TypeOK
<1>c. /\ Cardinality(At(pc, PopPc)) \in Nat
      /\ Cardinality(At(pc', PopPc)) = Cardinality(At(pc, PopPc))
      /\ Cardinality(At(pc, {"linkTail", "count"})) \in Nat
      /\ Cardinality(At(pc', {"linkTail", "count"})) = Cardinality(At(pc, {"linkTail", "count"}))
  BY <1>0, CountMoves DEF PopPc, Places
<1>1. TypeOK'
  BY <1>0, <1>m, <1>d DEF TypeOK
<1>2. PcInv'
  BY <1>0, <1>m DEF PcInv, TypeOK, Threads, HeldPc
<1>3. Holders' = Holders
  BY <1>0, <1>m, <1>1, <1>2, HoldersAre DEF HeldPc
<1>4. PlaceInv'
  BY <1>0, <1>3, PlaceSame
<1>5. StackLinked'
  BY <1>0, StackFrame
<1>6. TagInv'
  BY <1>0 DEF TagInv
<1>7. PopInv'
  BY <1>0, <1>m, PopFrame DEF Spares, Threads
<1>8. PushInv'
  BY <1>0, <1>m, PushFrame
<1>9. LineInv'
  BY <1>0, LineFrame
<1>10. LinkInv'
  BY <1>0, <1>m, LinkFrame DEF Threads
<1>11. AskedInv'
  BY <1>0, <1>m, AskedFrame DEF PopPc, Threads
<1>12. EndInv'
  BY <1>0, <1>m, EndFrame DEF Threads
<1>13. MsgInv'
  <2>1. \A u \in Writers : pc'[u] \in {"loadTail", "swapTail"} => data'[cell'[u]] \in Messages
    BY <1>0, <1>m, <1>d DEF MsgInv, HeldPc, Threads
  <2>2. \A i \in 2 .. Len(line) : data'[line[i]] \in Messages
    BY <1>d, Sequences DEF MsgInv
  <2> QED BY <1>0, <2>1, <2>2 DEF MsgInv
<1>14. GetsInv'
  BY <1>0, <1>c DEF GetsInv, TypeOK, Cells
<1>15. SizeInv'
  BY <1>0, <1>m, <1>c DEF SizeInv, TypeOK, Threads
<1> QED BY <1>1, <1>2, <1>4, <1>5, <1>6, <1>7, <1>8, <1>9,
           <1>10, <1>11, <1>12, <1>13, <1>14, <1>15

LEMMA LoadTailStep ==
  ASSUME IInv, NEW w \in Writers, LoadTail(w)
  PROVE  IInv'
<1> USE QueueAssumption DEF IInv
<1>0. /\ pc[w] = "loadTail" /\ Goto(w, "swapTail")
      /\ UNCHANGED <<next, data, heap, Lf, spares, pops, cell, top, link, got,
                    seen, data_head, data_tail, entered, removed, line, gets>>
  BY DEF LoadTail, stackVars, queueVars
<1>e. /\ tail' = [tail EXCEPT ![w] = data_tail]
  BY DEF LoadTail
<1>m. /\ pc' \in [Threads -> Places] /\ pc'[w] = "swapTail"
      /\ \A u \in Threads \ {w} : pc'[u] = pc[u]
  BY <1>0, Moves DEF Threads, Places
<1>l. /\ tail' \in [Writers -> Ptr]
      /\ \A u \in Writers \ {w} : tail'[u] = tail[u]
  BY <1>e DEF TypeOK, Ptr
<1>c. /\ Cardinality(At(pc, PopPc)) \in Nat
      /\ Cardinality(At(pc', PopPc)) = Cardinality(At(pc, PopPc))
      /\ Cardinality(At(pc, {"linkTail", "count"})) \in Nat
      /\ Cardinality(At(pc', {"linkTail", "count"})) = Cardinality(At(pc, {"linkTail", "count"}))
  BY <1>0, CountMoves DEF PopPc, Places
<1>1. TypeOK'
  BY <1>0, <1>m, <1>l DEF TypeOK
<1>2. PcInv'
  BY <1>0, <1>m DEF PcInv, TypeOK, Threads, HeldPc
<1>3. Holders' = Holders
  BY <1>0, <1>m, <1>1, <1>2, HoldersAre DEF HeldPc
<1>4. PlaceInv'
  BY <1>0, <1>3, PlaceSame
<1>5. StackLinked'
  BY <1>0, StackFrame
<1>6. TagInv'
  BY <1>0 DEF TagInv
<1>7. PopInv'
  BY <1>0, <1>m, PopFrame DEF Spares, Threads
<1>8. PushInv'
  BY <1>0, <1>m, PushFrame
<1>9. LineInv'
  BY <1>0, LineFrame
<1>10. LinkInv'
  BY <1>0, <1>m, <1>l, LinkFrame DEF Threads
<1>11. AskedInv'
  BY <1>0, <1>m, AskedFrame DEF PopPc, Threads
<1>12. EndInv'
  BY <1>0, <1>m, EndFrame DEF Threads
<1>13. MsgInv'
  BY <1>0, <1>m, MsgFrame DEF Threads
<1>14. GetsInv'
  BY <1>0, <1>c DEF GetsInv, TypeOK, Cells
<1>15. SizeInv'
  BY <1>0, <1>m, <1>c DEF SizeInv, TypeOK, Threads
<1> QED BY <1>1, <1>2, <1>4, <1>5, <1>6, <1>7, <1>8, <1>9,
           <1>10, <1>11, <1>12, <1>13, <1>14, <1>15

LEMMA CountEnteredStep ==
  ASSUME IInv, NEW w \in Writers, CountEntered(w)
  PROVE  IInv'
<1> USE QueueAssumption DEF IInv
<1>0. /\ pc[w] = "count" /\ Goto(w, "idle")
      /\ UNCHANGED <<next, data, heap, Lf, spares, pops, cell, top, link,
                    tail, got, seen, data_head, data_tail, removed, line,
                    gets>>
  BY DEF CountEntered, stackVars, queueVars
<1>e. /\ entered' = entered + 1
  BY DEF CountEntered
<1>m. /\ pc' \in [Threads -> Places] /\ pc'[w] = "idle"
      /\ \A u \in Threads \ {w} : pc'[u] = pc[u]
  BY <1>0, Moves DEF Threads, Places
<1>c. /\ Cardinality(At(pc, PopPc)) \in Nat
      /\ Cardinality(At(pc', PopPc)) = Cardinality(At(pc, PopPc))
      /\ Cardinality(At(pc, {"linkTail", "count"})) \in Nat
      /\ Cardinality(At(pc', {"linkTail", "count"})) = Cardinality(At(pc, {"linkTail", "count"})) - 1
  BY <1>0, CountMoves DEF PopPc, Places
<1>1. TypeOK'
  BY <1>0, <1>e, <1>m DEF TypeOK
<1>2. PcInv'
  BY <1>0, <1>m DEF PcInv, TypeOK, Threads, HeldPc
<1>3. Holders' = Holders
  BY <1>0, <1>m, <1>1, <1>2, HoldersAre DEF HeldPc
<1>4. PlaceInv'
  BY <1>0, <1>3, PlaceSame
<1>5. StackLinked'
  BY <1>0, StackFrame
<1>6. TagInv'
  BY <1>0 DEF TagInv
<1>7. PopInv'
  BY <1>0, <1>m, PopFrame DEF Spares, Threads
<1>8. PushInv'
  BY <1>0, <1>m, PushFrame
<1>9. LineInv'
  BY <1>0, LineFrame
<1>10. LinkInv'
  BY <1>0, <1>m, LinkFrame DEF Threads
<1>11. AskedInv'
  BY <1>0, <1>m, AskedFrame DEF PopPc, Threads
<1>12. EndInv'
  BY <1>0, <1>m, EndFrame DEF Threads
<1>13. MsgInv'
  BY <1>0, <1>m, MsgFrame DEF Threads
<1>14. GetsInv'
  BY <1>0, <1>c DEF GetsInv, TypeOK, Cells
<1>15. SizeInv'
  <2>1. pc'[Reader] = pc[Reader] /\ Len(line) \in Nat /\ {entered, removed} \subseteq Nat
    BY <1>m, Sequences DEF Threads, TypeOK
  <2> QED BY <1>0, <1>e, <1>c, <2>1 DEF SizeInv
<1> QED BY <1>1, <1>2, <1>4, <1>5, <1>6, <1>7, <1>8, <1>9,
           <1>10, <1>11, <1>12, <1>13, <1>14, <1>15

LEMMA ReturnEltStep ==
  ASSUME IInv, NEW w \in Writers, ReturnElt(w)
  PROVE  IInv'
<1> USE QueueAssumption DEF IInv
<1>0. /\ pc[w] = "fill" /\ Goto(w, "pushLoad")
      /\ UNCHANGED <<next, data, heap, Lf, spares, pops, cell, top, link,
                    tail, got, seen, data_head, data_tail, entered, removed,
                    line, gets>>
  BY DEF ReturnElt, stackVars, queueVars
<1>m. /\ pc' \in [Threads -> Places] /\ pc'[w] = "pushLoad"
      /\ \A u \in Threads \ {w} : pc'[u] = pc[u]
  BY <1>0, Moves DEF Threads, Places
<1>c. /\ Cardinality(At(pc, PopPc)) \in Nat
      /\ Cardinality(At(pc', PopPc)) = Cardinality(At(pc, PopPc))
      /\ Cardinality(At(pc, {"linkTail", "count"})) \in Nat
      /\ Cardinality(At(pc', {"linkTail", "count"})) = Cardinality(At(pc, {"linkTail", "count"}))
  BY <1>0, CountMoves DEF PopPc, Places
<1>1. TypeOK'
  BY <1>0, <1>m DEF TypeOK
<1>2. PcInv'
  BY <1>0, <1>m DEF PcInv, TypeOK, Threads, HeldPc
<1>3. Holders' = Holders
  BY <1>0, <1>m, <1>1, <1>2, HoldersAre DEF HeldPc
<1>4. PlaceInv'
  BY <1>0, <1>3, PlaceSame
<1>5. StackLinked'
  BY <1>0, StackFrame
<1>6. TagInv'
  BY <1>0 DEF TagInv
<1>7. PopInv'
  BY <1>0, <1>m, PopFrame DEF Spares, Threads
<1>8. PushInv'
  BY <1>0, <1>m, PushFrame
<1>9. LineInv'
  BY <1>0, LineFrame
<1>10. LinkInv'
  BY <1>0, <1>m, LinkFrame DEF Threads
<1>11. AskedInv'
  BY <1>0, <1>m, AskedFrame DEF PopPc, Threads
<1>12. EndInv'
  BY <1>0, <1>m, EndFrame DEF Threads
<1>13. MsgInv'
  BY <1>0, <1>m, MsgFrame DEF Threads
<1>14. GetsInv'
  BY <1>0, <1>c DEF GetsInv, TypeOK, Cells
<1>15. SizeInv'
  BY <1>0, <1>m, <1>c DEF SizeInv, TypeOK, Threads
<1> QED BY <1>1, <1>2, <1>4, <1>5, <1>6, <1>7, <1>8, <1>9,
           <1>10, <1>11, <1>12, <1>13, <1>14, <1>15

LEMMA PushLoadStep ==
  ASSUME IInv, NEW t \in Threads, PushLoad(t)
  PROVE  IInv'
<1> USE QueueAssumption DEF IInv
<1>0. /\ pc[t] = "pushLoad" /\ Goto(t, "pushCount")
      /\ UNCHANGED <<next, data, heap, Lf, spares, pops, cell, link, tail,
                    got, data_head, data_tail, entered, removed, line, gets>>
  BY DEF PushLoad, stackVars, queueVars
<1>e. /\ top' = [top EXCEPT ![t] = Lf] /\ seen' = [seen EXCEPT ![t] = pops]
  BY DEF PushLoad
<1>m. /\ pc' \in [Threads -> Places] /\ pc'[t] = "pushCount"
      /\ \A u \in Threads \ {t} : pc'[u] = pc[u]
  BY <1>0, Moves DEF Threads, Places
<1>l. /\ top' \in [Threads -> [head : Ptr, count : 0 .. (TagModulus - 1)]]
      /\ seen' \in [Threads -> Nat] /\ top'[t] = Lf /\ seen'[t] = pops
      /\ \A u \in Threads \ {t} : top'[u] = top[u] /\ seen'[u] = seen[u]
  BY <1>e DEF TypeOK
<1>c. At(pc', PopPc) = At(pc, PopPc) /\ At(pc', {"linkTail", "count"}) = At(pc, {"linkTail", "count"})
  BY <1>0, CountStays DEF PopPc, Places, Threads
<1>1. TypeOK'
  BY <1>0, <1>m, <1>l DEF TypeOK
<1>2. PcInv'
  BY <1>0, <1>m DEF PcInv, TypeOK, Threads, HeldPc
<1>3. Holders' = Holders
  BY <1>0, <1>m, <1>1, <1>2, HoldersAre DEF HeldPc
<1>4. PlaceInv'
  BY <1>0, <1>3, PlaceSame
<1>5. StackLinked'
  BY <1>0, StackFrame
<1>6. TagInv'
  <2>1. pops \in Nat
    BY DEF TypeOK
  <2>2. \A u \in Threads : seen'[u] <= pops /\ top'[u].count = seen'[u] % TagModulus
    BY <1>l, <2>1 DEF TagInv
  <2> QED BY <1>0, <2>2 DEF TagInv
<1>7. PopInv'
  BY <1>0, <1>m, <1>l, PopFrame DEF Spares, Threads
<1>8. PushInv'
  BY <1>0, <1>m, <1>l, PushFrame DEF Threads
<1>9. LineInv'
  BY <1>0, LineFrame
<1>10. LinkInv'
  BY <1>0, <1>m, LinkFrame DEF Threads
<1>11. AskedInv'
  BY <1>0, <1>m, AskedFrame DEF PopPc, Threads
<1>12. EndInv'
  BY <1>0, <1>m, EndFrame DEF Threads
<1>13. MsgInv'
  BY <1>0, <1>m, MsgFrame DEF Threads
<1>14. GetsInv'
  BY <1>0, <1>c DEF GetsInv, TypeOK, Cells
<1>15. SizeInv'
  BY <1>0, <1>m, <1>c DEF SizeInv, TypeOK, Threads
<1> QED BY <1>1, <1>2, <1>4, <1>5, <1>6, <1>7, <1>8, <1>9,
           <1>10, <1>11, <1>12, <1>13, <1>14, <1>15

LEMMA PushCountStep ==
  ASSUME IInv, NEW t \in Threads, PushCount(t)
  PROVE  IInv'
<1> USE QueueAssumption DEF IInv
<1>0. /\ pc[t] = "pushCount" /\ Goto(t, "pushSwap")
      /\ UNCHANGED <<data, heap, Lf, spares, pops, cell, top, tail, got, seen,
                    data_head, data_tail, entered, removed, line, gets>>
  BY DEF PushCount, stackVars, queueVars
<1>e. /\ next' = [next EXCEPT ![cell[t]] = top[t].head]
      /\ link' = [link EXCEPT ![t] = Lf.count]
  BY DEF PushCount
<1>m. /\ pc' \in [Threads -> Places] /\ pc'[t] = "pushSwap"
      /\ \A u \in Threads \ {t} : pc'[u] = pc[u]
  BY <1>0, Moves DEF Threads, Places
<1>t. top[t].head \in Ptr /\ Lf.count \in Nat
  BY DEF TypeOK
<1>o. /\ cell[t] \in Cells
      /\ \A i \in 1 .. Len(line) : line[i] \in Cells \ {cell[t]}
      /\ \A i \in DOMAIN spares : spares[i] \in Cells \ {cell[t]}
      /\ \A c \in Spares : c \in Cells \ {cell[t]}
      /\ \A u \in Threads \ {t} : pc[u] \in HeldPc => cell[u] \in Cells \ {cell[t]}
  BY <1>0, OwnCell, NotOwn DEF HeldPc, Threads
<1>n. /\ next' \in [Cells -> Ptr] /\ next'[cell[t]] = top[t].head
      /\ \A i \in 1 .. Len(line) : next'[line[i]] = next[line[i]]
      /\ \A i \in DOMAIN spares : next'[spares[i]] = next[spares[i]]
      /\ \A c \in Spares : next'[c] = next[c]
      /\ \A u \in Threads \ {t} : pc[u] \in HeldPc => next'[cell[u]] = next[cell[u]]
  BY <1>e, <1>o, <1>t DEF TypeOK
<1>l. /\ link' \in [Threads -> Nat] /\ link'[t] = Lf.count
      /\ \A u \in Threads \ {t} : link'[u] = link[u]
  BY <1>e, <1>t DEF TypeOK
<1>c. At(pc', PopPc) = At(pc, PopPc) /\ At(pc', {"linkTail", "count"}) = At(pc, {"linkTail", "count"})
  BY <1>0, CountStays DEF PopPc, Places, Threads
<1>1. TypeOK'
  BY <1>0, <1>m, <1>n, <1>l DEF TypeOK
<1>2. PcInv'
  BY <1>0, <1>m DEF PcInv, TypeOK, Threads, HeldPc
<1>3. Holders' = Holders
  BY <1>0, <1>m, <1>1, <1>2, HoldersAre DEF HeldPc
<1>4. PlaceInv'
  BY <1>0, <1>3, PlaceSame
<1>5. StackLinked'
  BY <1>0, <1>n, StackFrame
<1>6. TagInv'
  BY <1>0 DEF TagInv
<1>7. PopInv'
  BY <1>0, <1>m, <1>n, <1>l, PopFrame DEF Spares, Threads
<1>8. PushInv'
  BY <1>0, <1>m, <1>n, <1>l DEF PushInv, HeldPc
<1>9. LineInv'
  BY <1>0, <1>n, LineFrame
<1>10. LinkInv'
  BY <1>0, <1>m, <1>n, LinkFrame DEF Threads
<1>11. AskedInv'
  BY <1>0, <1>m, AskedFrame DEF PopPc, Threads
<1>12. EndInv'
  BY <1>0, <1>m, <1>n, EndFrame DEF HeldPc, Threads
<1>13. MsgInv'
  BY <1>0, <1>m, MsgFrame DEF Threads
<1>14. GetsInv'
  BY <1>0, <1>c DEF GetsInv, TypeOK, Cells
<1>15. SizeInv'
  BY <1>0, <1>m, <1>c DEF SizeInv, TypeOK, Threads
<1> QED BY <1>1, <1>2, <1>4, <1>5, <1>6, <1>7, <1>8, <1>9,
           <1>10, <1>11, <1>12, <1>13, <1>14, <1>15

LEMMA PopLoadTop ==
  ASSUME IInv, NEW w \in Writers, PopLoad(w), Lf.head # NULL
  PROVE  IInv'
<1> USE QueueAssumption DEF IInv
<1>0. /\ pc[w] = "popLoad" /\ Goto(w, "popNext")
      /\ UNCHANGED <<next, data, heap, Lf, spares, pops, cell, link, tail,
                    got, data_head, data_tail, entered, removed, line, gets>>
  BY DEF PopLoad, stackVars, queueVars
<1>e. /\ top' = [top EXCEPT ![w] = Lf] /\ seen' = [seen EXCEPT ![w] = pops]
  BY DEF PopLoad
<1>m. /\ pc' \in [Threads -> Places] /\ pc'[w] = "popNext"
      /\ \A u \in Threads \ {w} : pc'[u] = pc[u]
  BY <1>0, Moves DEF Threads, Places
<1>l. /\ top' \in [Threads -> [head : Ptr, count : 0 .. (TagModulus - 1)]]
      /\ seen' \in [Threads -> Nat] /\ top'[w] = Lf /\ seen'[w] = pops
      /\ \A u \in Threads \ {w} : top'[u] = top[u] /\ seen'[u] = seen[u]
  BY <1>e DEF TypeOK, Threads
<1>c. /\ Cardinality(At(pc, PopPc)) \in Nat
      /\ Cardinality(At(pc', PopPc)) = Cardinality(At(pc, PopPc))
      /\ Cardinality(At(pc, {"linkTail", "count"})) \in Nat
      /\ Cardinality(At(pc', {"linkTail", "count"})) = Cardinality(At(pc, {"linkTail", "count"}))
  BY <1>0, CountMoves DEF PopPc, Places
<1>1. TypeOK'
  BY <1>0, <1>m, <1>l DEF TypeOK
<1>2. PcInv'
  BY <1>0, <1>m DEF PcInv, TypeOK, Threads, HeldPc
<1>3. Holders' = Holders
  BY <1>0, <1>m, <1>1, <1>2, HoldersAre DEF HeldPc
<1>4. PlaceInv'
  BY <1>0, <1>3, PlaceSame
<1>5. StackLinked'
  BY <1>0, StackFrame
<1>6. TagInv'
  <2>1. pops \in Nat
    BY DEF TypeOK
  <2>2. \A u \in Threads : seen'[u] <= pops /\ top'[u].count = seen'[u] % TagModulus
    BY <1>l, <2>1 DEF TagInv
  <2> QED BY <1>0, <2>2 DEF TagInv
<1>7. PopInv'
  <2>1. Lf.head \in Spares
    BY Sequences DEF StackLinked, Spares
  <2> QED BY <1>0, <1>m, <1>l, <2>1 DEF PopInv, Spares, Threads
<1>8. PushInv'
  BY <1>0, <1>m, <1>l, PushFrame DEF Threads
<1>9. LineInv'
  BY <1>0, LineFrame
<1>10. LinkInv'
  BY <1>0, <1>m, LinkFrame DEF Threads
<1>11. AskedInv'
  BY <1>0, <1>m, AskedFrame DEF PopPc, Threads
<1>12. EndInv'
  BY <1>0, <1>m, EndFrame DEF Threads
<1>13. MsgInv'
  BY <1>0, <1>m, MsgFrame DEF Threads
<1>14. GetsInv'
  BY <1>0, <1>c DEF GetsInv, TypeOK, Cells
<1>15. SizeInv'
  BY <1>0, <1>m, <1>c DEF SizeInv, TypeOK, Threads
<1> QED BY <1>1, <1>2, <1>4, <1>5, <1>6, <1>7, <1>8, <1>9,
           <1>10, <1>11, <1>12, <1>13, <1>14, <1>15

LEMMA PopLoadNew ==
  ASSUME IInv, NEW w \in Writers, PopLoad(w), Lf.head = NULL
  PROVE  IInv'
<1> USE QueueAssumption DEF IInv
<1>0. /\ pc[w] = "popLoad" /\ Goto(w, "fill")
      /\ UNCHANGED <<data, Lf, spares, pops, link, tail, got, data_head,
                    data_tail, entered, removed, line, gets>>
  BY DEF PopLoad, stackVars, queueVars
<1>e. /\ top' = [top EXCEPT ![w] = Lf] /\ seen' = [seen EXCEPT ![w] = pops]
      /\ heap' = heap + 1 /\ cell' = [cell EXCEPT ![w] = heap + 1]
      /\ next' = [next EXCEPT ![heap + 1] = NULL]
  BY DEF PopLoad
<1>m. /\ pc' \in [Threads -> Places] /\ pc'[w] = "fill"
      /\ \A u \in Threads \ {w} : pc'[u] = pc[u]
  BY <1>0, Moves DEF Threads, Places
<1>l. /\ top' \in [Threads -> [head : Ptr, count : 0 .. (TagModulus - 1)]]
      /\ seen' \in [Threads -> Nat] /\ top'[w] = Lf /\ seen'[w] = pops
      /\ \A u \in Threads \ {w} : top'[u] = top[u] /\ seen'[u] = seen[u]
  BY <1>e DEF TypeOK, Threads
<1>h. heap + 1 \in Cells /\ heap' \in Cells
  <2>1. /\ Cardinality(At(pc, PopPc)) \in Nat /\ Cardinality(At(pc', PopPc)) \in Nat
        /\ Cardinality(At(pc', PopPc)) = Cardinality(At(pc, PopPc)) - 1
    BY <1>0, CountMoves DEF PopPc, Places
  <2>2. heap - 1 + pops + Cardinality(At(pc, PopPc)) = gets.all
    BY DEF GetsInv
  <2>3. heap \in Cells /\ pops \in Nat /\ gets.all \in 0 .. MaxGets
    BY DEF TypeOK
  <2>4. heap + 1 \in Cells
    BY <2>1, <2>2, <2>3 DEF Cells
  <2> QED BY <1>e, <2>4
<1>o. /\ \A i \in 1 .. Len(line) : line[i] \in Cells \ {heap + 1}
      /\ \A i \in DOMAIN spares : spares[i] \in Cells \ {heap + 1}
      /\ heap + 1 \notin Held
      /\ \A u \in Threads : pc[u] \in HeldPc => cell[u] \in Cells \ {heap + 1}
  <2>1. heap \in Nat /\ heap + 1 \notin 1 .. heap
    BY DEF TypeOK, Cells
  <2>2. heap + 1 \notin InLine /\ heap + 1 \notin Spares /\ heap + 1 \notin Held
    BY <2>1 DEF PlaceInv
  <2>3. \A u \in Threads : pc[u] \in HeldPc => cell[u] \in Cells /\ u \in Holders
    BY OwnCell
  <2>4. \A u \in Threads : pc[u] \in HeldPc => cell[u] \in Cells \ {heap + 1}
    BY <2>2, <2>3 DEF Held
  <2> QED BY <2>2, <2>4, Sequences DEF InLine, Spares
<1>s. \A c \in Spares : c \in Cells \ {heap + 1}
  BY <1>o DEF Spares
<1>n. /\ next' \in [Cells -> Ptr] /\ next'[heap + 1] = NULL
      /\ \A i \in 1 .. Len(line) : next'[line[i]] = next[line[i]]
      /\ \A i \in DOMAIN spares : next'[spares[i]] = next[spares[i]]
      /\ \A c \in Spares : next'[c] = next[c]
      /\ \A u \in Threads : pc[u] \in HeldPc => next'[cell[u]] = next[cell[u]]
  BY <1>e, <1>h, <1>o, <1>s DEF TypeOK, Ptr
<1>w. /\ cell' \in [Threads -> Ptr] /\ cell'[w] = heap + 1 /\ heap + 1 # NULL
      /\ \A u \in Threads \ {w} : cell'[u] = cell[u]
  BY <1>e, <1>h DEF TypeOK, Threads, Ptr, Cells, NULL
<1>c. /\ Cardinality(At(pc, PopPc)) \in Nat
      /\ Cardinality(At(pc', PopPc)) = Cardinality(At(pc, PopPc)) - 1
      /\ Cardinality(At(pc, {"linkTail", "count"})) \in Nat
      /\ Cardinality(At(pc', {"linkTail", "count"})) = Cardinality(At(pc, {"linkTail", "count"}))
  BY <1>0, CountMoves DEF PopPc, Places
<1>1. TypeOK'
  BY <1>0, <1>m, <1>l, <1>h, <1>n, <1>w DEF TypeOK
<1>2. PcInv'
  BY <1>0, <1>m, <1>w DEF PcInv, Threads, HeldPc
<1>3. Holders' = Holders \cup {w} /\ w \notin Holders
  BY <1>0, <1>m, <1>1, <1>2, HoldersAre DEF HeldPc, Threads
<1>4. PlaceInv'
  <2>1. \A u \in Holders : cell'[u] = cell[u]
    BY <1>3, <1>w DEF Holders
  <2>2. Held' = Held \cup {heap + 1} /\ HeldOnce'
    BY <1>3, <1>o, <1>w, <2>1, HeldGains DEF PlaceInv, Threads
  <2>3. InLine' = InLine /\ Spares' = Spares /\ Distinct(line') /\ Distinct(spares')
    BY <1>0 DEF InLine, Spares, PlaceInv
  <2>4. heap \in Nat
    BY DEF TypeOK, Cells
  <2>5. 1 .. heap' = (1 .. heap) \cup {heap + 1} /\ heap + 1 \notin 1 .. heap
    BY <1>e, <2>4
  <2> QED BY <2>2, <2>3, <2>5 DEF PlaceInv
<1>5. StackLinked'
  BY <1>0, <1>n, StackFrame
<1>6. TagInv'
  <2>1. pops \in Nat
    BY DEF TypeOK
  <2>2. \A u \in Threads : seen'[u] <= pops /\ top'[u].count = seen'[u] % TagModulus
    BY <1>l, <2>1 DEF TagInv
  <2> QED BY <1>0, <2>2 DEF TagInv
<1>7. PopInv'
  <2>1. Spares' = Spares
    BY <1>0 DEF Spares
  <2> QED BY <1>0, <1>m, <1>l, <1>n, <2>1, PopFrame DEF Threads
<1>8. PushInv'
  BY <1>0, <1>m, <1>l, <1>n, <1>w, PushFrame DEF Threads, HeldPc
<1>9. LineInv'
  BY <1>0, <1>n, LineFrame
<1>10. LinkInv'
  BY <1>0, <1>m, <1>n, <1>w, LinkFrame DEF Threads
<1>11. AskedInv'
  BY <1>0, <1>m, AskedFrame DEF PopPc, Threads
<1>12. EndInv'
  BY <1>0, <1>m, <1>n, <1>w DEF EndInv, HeldPc, Threads
<1>13. MsgInv'
  BY <1>0, <1>m, <1>w, MsgFrame DEF Threads
<1>14. GetsInv'
  BY <1>0, <1>e, <1>c DEF GetsInv, TypeOK, Cells
<1>15. SizeInv'
  BY <1>0, <1>m, <1>c DEF SizeInv, TypeOK, Threads
<1> QED BY <1>1, <1>2, <1>4, <1>5, <1>6, <1>7, <1>8, <1>9,
           <1>10, <1>11, <1>12, <1>13, <1>14, <1>15

LEMMA PopSwapAgain ==
  ASSUME IInv, NEW w \in Writers, PopSwap(w), Lf # top[w]
  PROVE  IInv'
<1> USE QueueAssumption DEF IInv
<1>0. /\ pc[w] = "popSwap" /\ Goto(w, "popLoad")
      /\ UNCHANGED <<next, data, heap, Lf, spares, pops, cell, top, link,
                    tail, got, seen, data_head, data_tail, entered, removed,
                    line, gets>>
  BY DEF PopSwap, stackVars, queueVars
<1>m. /\ pc' \in [Threads -> Places] /\ pc'[w] = "popLoad"
      /\ \A u \in Threads \ {w} : pc'[u] = pc[u]
  BY <1>0, Moves DEF Threads, Places
<1>c. /\ Cardinality(At(pc, PopPc)) \in Nat
      /\ Cardinality(At(pc', PopPc)) = Cardinality(At(pc, PopPc))
      /\ Cardinality(At(pc, {"linkTail", "count"})) \in Nat
      /\ Cardinality(At(pc', {"linkTail", "count"})) = Cardinality(At(pc, {"linkTail", "count"}))
  BY <1>0, CountMoves DEF PopPc, Places
<1>1. TypeOK'
  BY <1>0, <1>m DEF TypeOK
<1>2. PcInv'
  BY <1>0, <1>m DEF PcInv, TypeOK, Threads, HeldPc
<1>3. Holders' = Holders
  BY <1>0, <1>m, <1>1, <1>2, HoldersAre DEF HeldPc
<1>4. PlaceInv'
  BY <1>0, <1>3, PlaceSame
<1>5. StackLinked'
  BY <1>0, StackFrame
<1>6. TagInv'
  BY <1>0 DEF TagInv
<1>7. PopInv'
  BY <1>0, <1>m, PopFrame DEF Spares, Threads
<1>8. PushInv'
  BY <1>0, <1>m, PushFrame
<1>9. LineInv'
  BY <1>0, LineFrame
<1>10. LinkInv'
  BY <1>0, <1>m, LinkFrame DEF Threads
<1>11. AskedInv'
  BY <1>0, <1>m, AskedFrame DEF PopPc, Threads
<1>12. EndInv'
  BY <1>0, <1>m, EndFrame DEF Threads
<1>13. MsgInv'
  BY <1>0, <1>m, MsgFrame DEF Threads
<1>14. GetsInv'
  BY <1>0, <1>c DEF GetsInv, TypeOK, Cells
<1>15. SizeInv'
  BY <1>0, <1>m, <1>c DEF SizeInv, TypeOK, Threads
<1> QED BY <1>1, <1>2, <1>4, <1>5, <1>6, <1>7, <1>8, <1>9,
           <1>10, <1>11, <1>12, <1>13, <1>14, <1>15

LEMMA SwapTailAgain ==
  ASSUME IInv, NEW w \in Writers, SwapTail(w), data_tail # tail[w]
  PROVE  IInv'
<1> USE QueueAssumption DEF IInv
<1>0. /\ pc[w] = "swapTail" /\ Goto(w, "loadTail")
      /\ UNCHANGED <<next, data, heap, Lf, spares, pops, cell, top, link,
                    tail, got, seen, data_head, data_tail, entered, removed,
                    line, gets>>
  BY DEF SwapTail, stackVars, queueVars
<1>m. /\ pc' \in [Threads -> Places] /\ pc'[w] = "loadTail"
      /\ \A u \in Threads \ {w} : pc'[u] = pc[u]
  BY <1>0, Moves DEF Threads, Places
<1>c. /\ Cardinality(At(pc, PopPc)) \in Nat
      /\ Cardinality(At(pc', PopPc)) = Cardinality(At(pc, PopPc))
      /\ Cardinality(At(pc, {"linkTail", "count"})) \in Nat
      /\ Cardinality(At(pc', {"linkTail", "count"})) = Cardinality(At(pc, {"linkTail", "count"}))
  BY <1>0, CountMoves DEF PopPc, Places
<1>1. TypeOK'
  BY <1>0, <1>m DEF TypeOK
<1>2. PcInv'
  BY <1>0, <1>m DEF PcInv, TypeOK, Threads, HeldPc
<1>3. Holders' = Holders
  BY <1>0, <1>m, <1>1, <1>2, HoldersAre DEF HeldPc
<1>4. PlaceInv'
  BY <1>0, <1>3, PlaceSame
<1>5. StackLinked'
  BY <1>0, StackFrame
<1>6. TagInv'
  BY <1>0 DEF TagInv
<1>7. PopInv'
  BY <1>0, <1>m, PopFrame DEF Spares, Threads
<1>8. PushInv'
  BY <1>0, <1>m, PushFrame
<1>9. LineInv'
  BY <1>0, LineFrame
<1>10. LinkInv'
  BY <1>0, <1>m, LinkFrame DEF Threads
<1>11. AskedInv'
  BY <1>0, <1>m, AskedFrame DEF PopPc, Threads
<1>12. EndInv'
  BY <1>0, <1>m, EndFrame DEF Threads
<1>13. MsgInv'
  BY <1>0, <1>m, MsgFrame DEF Threads
<1>14. GetsInv'
  BY <1>0, <1>c DEF GetsInv, TypeOK, Cells
<1>15. SizeInv'
  BY <1>0, <1>m, <1>c DEF SizeInv, TypeOK, Threads
<1> QED BY <1>1, <1>2, <1>4, <1>5, <1>6, <1>7, <1>8, <1>9,
           <1>10, <1>11, <1>12, <1>13, <1>14, <1>15

LEMMA PushSwapAgain ==
  ASSUME IInv, NEW t \in Threads, PushSwap(t), Lf # top[t]
  PROVE  IInv'
<1> USE QueueAssumption DEF IInv
<1>0. /\ pc[t] = "pushSwap" /\ Goto(t, "pushLoad")
      /\ UNCHANGED <<next, data, heap, Lf, spares, pops, cell, top, link,
                    tail, got, seen, data_head, data_tail, entered, removed,
                    line, gets>>
  BY DEF PushSwap, stackVars, queueVars
<1>m. /\ pc' \in [Threads -> Places] /\ pc'[t] = "pushLoad"
      /\ \A u \in Threads \ {t} : pc'[u] = pc[u]
  BY <1>0, Moves DEF Threads, Places
<1>c. At(pc', PopPc) = At(pc, PopPc) /\ At(pc', {"linkTail", "count"}) = At(pc, {"linkTail", "count"})
  BY <1>0, CountStays DEF PopPc, Places, Threads
<1>1. TypeOK'
  BY <1>0, <1>m DEF TypeOK
<1>2. PcInv'
  BY <1>0, <1>m DEF PcInv, TypeOK, Threads, HeldPc
<1>3. Holders' = Holders
  BY <1>0, <1>m, <1>1, <1>2, HoldersAre DEF HeldPc
<1>4. PlaceInv'
  BY <1>0, <1>3, PlaceSame
<1>5. StackLinked'
  BY <1>0, StackFrame
<1>6. TagInv'
  BY <1>0 DEF TagInv
<1>7. PopInv'
  BY <1>0, <1>m, PopFrame DEF Spares, Threads
<1>8. PushInv'
  BY <1>0, <1>m, PushFrame
<1>9. LineInv'
  BY <1>0, LineFrame
<1>10. LinkInv'
  BY <1>0, <1>m, LinkFrame DEF Threads
<1>11. AskedInv'
  BY <1>0, <1>m, AskedFrame DEF PopPc, Threads
<1>12. EndInv'
  BY <1>0, <1>m, EndFrame DEF Threads
<1>13. MsgInv'
  BY <1>0, <1>m, MsgFrame DEF Threads
<1>14. GetsInv'
  BY <1>0, <1>c DEF GetsInv, TypeOK, Cells
<1>15. SizeInv'
  BY <1>0, <1>m, <1>c DEF SizeInv, TypeOK, Threads
<1> QED BY <1>1, <1>2, <1>4, <1>5, <1>6, <1>7, <1>8, <1>9,
           <1>10, <1>11, <1>12, <1>13, <1>14, <1>15

LEMMA PopSwapDone ==
  ASSUME IInv, InTime, NEW w \in Writers, PopSwap(w), Lf = top[w]
  PROVE  IInv'
<1> USE QueueAssumption DEF IInv
<1>0. /\ pc[w] = "popSwap" /\ Goto(w, "construct")
      /\ UNCHANGED <<next, data, heap, top, link, tail, got, seen, data_head,
                    data_tail, entered, removed, line, gets>>
  BY DEF PopSwap, stackVars, queueVars
<1>e. /\ Lf' = [head |-> link[w], count |-> (top[w].count + 1) % TagModulus]
      /\ spares' = Tail(spares) /\ pops' = pops + 1
      /\ cell' = [cell EXCEPT ![w] = top[w].head]
  BY DEF PopSwap
<1>m. /\ pc' \in [Threads -> Places] /\ pc'[w] = "construct"
      /\ \A u \in Threads \ {w} : pc'[u] = pc[u]
  BY <1>0, Moves DEF Threads, Places
<1>t. seen[w] = pops
  <2>1. pops - seen[w] < TagModulus
    BY <1>0 DEF InTime, CopyPc, Threads
  <2>2. pops \in Nat /\ seen[w] \in Nat /\ seen[w] <= pops
    BY DEF TagInv, TypeOK, Threads
  <2>3. pops % TagModulus = seen[w] % TagModulus
    BY DEF TagInv, Threads
  <2> QED BY <2>1, <2>2, <2>3, SameTag
<1>s. /\ spares # <<>> /\ top[w].head = spares[1]
      /\ link[w] = IF Len(spares) = 1 THEN NULL ELSE spares[2]
  <2>1. top[w].head # NULL /\ top[w].head = Lf.head /\ link[w] = next[top[w].head]
    BY <1>0, <1>t DEF PopInv
  <2>2. spares # <<>> /\ Lf.head = spares[1]
    BY <2>1 DEF StackLinked
  <2>3. 1 \in DOMAIN spares
    BY <2>2 DEF TypeOK
  <2>4. next[spares[1]] = IF 1 = Len(spares) THEN NULL ELSE spares[1 + 1]
    BY <2>3 DEF StackLinked
  <2> QED BY <2>1, <2>2, <2>4
<1>f. /\ spares' \in Seq(Cells) /\ Len(spares) \in Nat \ {0} /\ Len(spares') = Len(spares) - 1
      /\ DOMAIN spares' = 1 .. (Len(spares) - 1) /\ DOMAIN spares = 1 .. Len(spares)
      /\ \A i \in 1 .. (Len(spares) - 1) : spares'[i] = spares[i + 1]
      /\ \A i \in 1 .. Len(spares) : spares[i] \in Cells
  BY <1>e, <1>s, TailFacts, Sequences DEF TypeOK
<1>g. /\ Spares' = Spares \ {spares[1]} /\ Distinct(spares')
      /\ spares[1] \in Spares /\ spares[1] \in Cells
  <2>1. Members(spares) = Spares /\ Members(spares') = Spares'
    BY DEF Members, Spares
  <2> QED BY <1>e, <1>s, <2>1, TailMembers DEF PlaceInv, TypeOK
<1>w. /\ cell' \in [Threads -> Ptr] /\ cell'[w] = spares[1] /\ spares[1] # NULL
      /\ \A u \in Threads \ {w} : cell'[u] = cell[u]
  <2>1. spares[1] \in Ptr /\ spares[1] # NULL
    BY <1>g DEF Ptr, Cells, NULL
  <2>2. cell' = [cell EXCEPT ![w] = spares[1]]
    BY <1>e, <1>s
  <2> QED BY <2>1, <2>2 DEF TypeOK, Threads
<1>p. Lf'.head = link[w] /\ Lf'.count = (pops + 1) % TagModulus
      /\ Lf' \in [head : Ptr, count : 0 .. (TagModulus - 1)]
  <2>1. link[w] \in Ptr
    <3>1. CASE Len(spares) = 1
      BY <1>s, <3>1 DEF Ptr
    <3>2. CASE Len(spares) # 1
      BY <1>s, <1>f, <3>2 DEF Ptr
    <3> QED BY <3>1, <3>2
  <2>2. top[w].count = pops % TagModulus /\ pops \in Nat /\ TagModulus \in Nat \ {0}
    BY DEF TagInv, TypeOK
  <2>3. (top[w].count + 1) % TagModulus = (pops + 1) % TagModulus
    BY <2>2, NextTag
  <2>4. (pops + 1) % TagModulus \in 0 .. (TagModulus - 1)
    BY <2>2, NextTag
  <2> QED BY <1>e, <2>1, <2>3, <2>4
<1>c. /\ Cardinality(At(pc, PopPc)) \in Nat
      /\ Cardinality(At(pc', PopPc)) = Cardinality(At(pc, PopPc)) - 1
      /\ Cardinality(At(pc, {"linkTail", "count"})) \in Nat
      /\ Cardinality(At(pc', {"linkTail", "count"})) = Cardinality(At(pc, {"linkTail", "count"}))
  BY <1>0, CountMoves DEF PopPc, Places
<1>1. TypeOK'
  <2>1. pops' \in Nat
    BY <1>e DEF TypeOK
  <2>2. spares' \in Seq(Cells)
    BY <1>f
  <2>3. Lf' \in [head : Ptr, count : 0 .. (TagModulus - 1)]
    BY <1>p
  <2>4. pc' \in [Threads -> Places] /\ cell' \in [Threads -> Ptr]
    BY <1>m, <1>w
  <2> QED BY <1>0, <2>1, <2>2, <2>3, <2>4 DEF TypeOK
<1>2. PcInv'
  BY <1>0, <1>m, <1>w DEF PcInv, Threads, HeldPc
<1>3. Holders' = Holders \cup {w} /\ w \notin Holders
  BY <1>0, <1>m, <1>1, <1>2, HoldersAre DEF HeldPc, Threads
<1>4. PlaceInv'
  <2>1. \A u \in Holders : cell'[u] = cell[u]
    BY <1>3, <1>w DEF Holders
  <2>2. Held' = Held \cup {spares[1]} /\ HeldOnce'
    BY <1>3, <1>g, <1>w, <2>1, HeldGains DEF PlaceInv, Threads
  <2>3. InLine' = InLine /\ Distinct(line')
    BY <1>0 DEF InLine, PlaceInv
  <2> QED BY <1>0, <1>g, <2>2, <2>3 DEF PlaceInv
<1>5. StackLinked'
  <2>1. Lf'.head = IF spares' = <<>> THEN NULL ELSE spares'[1]
    <3>1. CASE Len(spares) = 1
      BY <1>f, <1>s, <1>p, <3>1
    <3>2. CASE Len(spares) # 1
      BY <1>f, <1>s, <1>p, <3>2
    <3> QED BY <3>1, <3>2
  <2>2. ASSUME NEW i \in DOMAIN spares'
        PROVE  next'[spares'[i]] = IF i = Len(spares') THEN NULL ELSE spares'[i + 1]
    <3>1. i + 1 \in DOMAIN spares /\ spares'[i] = spares[i + 1]
      BY <1>f
    <3>2. next[spares[i + 1]] = IF i + 1 = Len(spares) THEN NULL ELSE spares[i + 2]
      BY <3>1 DEF StackLinked
    <3>3. i + 1 # Len(spares) => spares'[i + 1] = spares[i + 2]
      BY <1>f
    <3> QED BY <1>0, <1>f, <3>1, <3>2, <3>3
  <2> QED BY <2>1, <2>2 DEF StackLinked
<1>6. TagInv'
  <2>1. pops \in Nat /\ \A u \in Threads : seen[u] \in Nat
    BY DEF TypeOK
  <2>2. \A u \in Threads : seen[u] <= pops' /\ top[u].count = seen[u] % TagModulus
    BY <1>e, <2>1 DEF TagInv
  <2> QED BY <1>0, <1>e, <1>p, <2>2 DEF TagInv
<1>n. \A u \in Threads : seen'[u] # pops'
  <2>1. seen' = seen /\ pops' = pops + 1
    BY <1>0, <1>e
  <2>2. pops \in Nat /\ \A u \in Threads : seen[u] \in Nat /\ seen[u] <= pops
    BY DEF TagInv, TypeOK
  <2> QED BY <2>1, <2>2
<1>7. PopInv'
  <2>1. \A u \in Threads : seen'[u] # pops'
    BY <1>n
  <2> QED BY <1>0, <1>m, <2>1 DEF PopInv, Threads
<1>8. PushInv'
  <2>1. \A u \in Threads : seen'[u] # pops'
    BY <1>n
  <2> QED BY <1>0, <1>m, <1>w, <2>1 DEF PushInv
<1>9. LineInv'
  BY <1>0, LineFrame
<1>10. LinkInv'
  BY <1>0, <1>m, <1>w, LinkFrame DEF Threads
<1>11. AskedInv'
  BY <1>0, <1>m, AskedFrame DEF PopPc, Threads
<1>12. EndInv'
  BY <1>0, <1>m, <1>w, EndFrame DEF Threads
<1>13. MsgInv'
  BY <1>0, <1>m, <1>w, MsgFrame DEF Threads
<1>14. GetsInv'
  BY <1>0, <1>e, <1>c DEF GetsInv, TypeOK, Cells
<1>15. SizeInv'
  BY <1>0, <1>m, <1>c DEF SizeInv, TypeOK, Threads
<1> QED BY <1>1, <1>2, <1>4, <1>5, <1>6, <1>7, <1>8, <1>9,
           <1>10, <1>11, <1>12, <1>13, <1>14, <1>15

LEMMA SwapTailDone ==
  ASSUME IInv, NEW w \in Writers, SwapTail(w), data_tail = tail[w]
  PROVE  IInv'
<1> USE QueueAssumption DEF IInv
<1>0. /\ pc[w] = "swapTail" /\ Goto(w, "linkTail")
      /\ UNCHANGED <<next, data, heap, Lf, spares, pops, cell, top, link,
                    tail, got, seen, data_head, entered, removed, gets>>
  BY DEF SwapTail, stackVars, queueVars
<1>e. /\ data_tail' = cell[w] /\ line' = Append(line, cell[w])
  BY DEF SwapTail
<1>m. /\ pc' \in [Threads -> Places] /\ pc'[w] = "linkTail"
      /\ \A u \in Threads \ {w} : pc'[u] = pc[u]
  BY <1>0, Moves DEF Threads, Places
<1>o. cell[w] \in Cells /\ w \in Holders /\ cell[w] \notin InLine /\ cell[w] \notin Spares
  BY <1>0, OwnCell DEF HeldPc, Threads
<1>f. /\ line' \in Seq(Cells) /\ Len(line) \in Nat \ {0} /\ Len(line') = Len(line) + 1
      /\ \A i \in 1 .. Len(line) : line'[i] = line[i]
      /\ line'[Len(line) + 1] = cell[w] /\ line' # <<>>
      /\ \A i \in 1 .. Len(line) : line[i] \in Cells /\ line[i] \in InLine
  <2>1. /\ line' \in Seq(Cells) /\ Len(line') = Len(line) + 1
        /\ \A i \in 1 .. Len(line) : line'[i] = line[i]
        /\ line'[Len(line) + 1] = cell[w]
    BY <1>e, <1>o, AppendFacts DEF TypeOK
  <2>2. line \in Seq(Cells) /\ line # <<>>
    BY DEF TypeOK, LineInv
  <2>3. Len(line) \in Nat \ {0}
    BY <2>2
  <2> QED BY <2>1, <2>3, Sequences DEF InLine
<1>g. InLine' = InLine \cup {cell[w]} /\ Distinct(line')
  <2>1. Members(line) = InLine /\ Members(line') = InLine'
    BY DEF Members, InLine
  <2> QED BY <1>e, <1>o, <2>1, AppendMembers DEF PlaceInv, TypeOK
<1>c. /\ Cardinality(At(pc, PopPc)) \in Nat
      /\ Cardinality(At(pc', PopPc)) = Cardinality(At(pc, PopPc))
      /\ Cardinality(At(pc, {"linkTail", "count"})) \in Nat
      /\ Cardinality(At(pc', {"linkTail", "count"})) = Cardinality(At(pc, {"linkTail", "count"})) + 1
  BY <1>0, CountMoves DEF PopPc, Places
<1>1. TypeOK'
  BY <1>0, <1>e, <1>m, <1>f, <1>o DEF TypeOK
<1>2. PcInv'
  BY <1>0, <1>m DEF PcInv, TypeOK, Threads, HeldPc
<1>3. Holders' = Holders \ {w}
  BY <1>0, <1>m, <1>1, <1>2, HoldersAre DEF HeldPc, Threads
<1>4. PlaceInv'
  <2>1. \A u \in Holders \ {w} : cell'[u] = cell[u]
    BY <1>0
  <2>2. Held' = Held \ {cell[w]} /\ HeldOnce' /\ cell[w] \in Held
    BY <1>3, <1>o, <2>1, HeldLoses DEF PlaceInv
  <2>3. Spares' = Spares /\ Distinct(spares')
    BY <1>0 DEF Spares, PlaceInv
  <2> QED BY <1>0, <1>g, <2>2, <2>3 DEF PlaceInv
<1>5. StackLinked'
  BY <1>0, StackFrame
<1>6. TagInv'
  BY <1>0 DEF TagInv
<1>7. PopInv'
  BY <1>0, <1>m, PopFrame DEF Spares, Threads
<1>8. PushInv'
  BY <1>0, <1>m, PushFrame
<1>9. LineInv'
  <2>1. next[cell[w]] = NULL
    BY <1>0 DEF EndInv
  <2>2. ASSUME NEW i \in 1 .. (Len(line') - 1)
        PROVE  next'[line'[i]] \in {NULL, line'[i + 1]}
    <3>1. CASE i = Len(line)
      <4>1. Len(line) \in 1 .. Len(line)
        BY <1>f
      <4>2. line'[i] = line[Len(line)]
        BY <1>f, <3>1, <4>1
      <4>3. next[line[Len(line)]] = NULL
        BY DEF LineInv
      <4> QED BY <1>0, <4>2, <4>3
    <3>2. CASE i # Len(line)
      <4>1. i \in 1 .. (Len(line) - 1) /\ line'[i] = line[i] /\ line'[i + 1] = line[i + 1]
        BY <1>f, <3>2
      <4> QED BY <1>0, <4>1 DEF LineInv
    <3> QED BY <3>1, <3>2
  <2>3. line'[1] = line[1] /\ line'[Len(line')] = cell[w]
    BY <1>f
  <2> QED BY <1>0, <1>e, <1>f, <2>1, <2>2, <2>3 DEF LineInv
<1>10. LinkInv'
  <2>1. ASSUME NEW u \in Writers, pc'[u] = "linkTail"
        PROVE  \E i \in 1 .. (Len(line') - 1) :
                 tail'[u] = line'[i] /\ cell'[u] = line'[i + 1] /\ next'[line'[i]] = NULL
    <3>1. CASE u = w
      <4>1. Len(line) \in 1 .. (Len(line') - 1) /\ Len(line) \in 1 .. Len(line)
        BY <1>f
      <4>2. tail[w] = line[Len(line)] /\ next[line[Len(line)]] = NULL
        BY <1>0 DEF LineInv, SwapTail
      <4>3. line'[Len(line)] = line[Len(line)] /\ line'[Len(line) + 1] = cell[w]
        BY <1>f, <4>1
      <4> QED BY <1>0, <3>1, <4>1, <4>2, <4>3
    <3>2. CASE u # w
      <4>1. pc[u] = "linkTail"
        BY <1>m, <2>1, <3>2 DEF Threads
      <4>2. PICK i \in 1 .. (Len(line) - 1) :
              tail[u] = line[i] /\ cell[u] = line[i + 1] /\ next[line[i]] = NULL
        BY <4>1 DEF LinkInv
      <4>3. i \in 1 .. (Len(line') - 1) /\ line'[i] = line[i] /\ line'[i + 1] = line[i + 1]
        BY <1>f
      <4> QED BY <1>0, <4>2, <4>3
    <3> QED BY <3>1, <3>2
  <2>2. \A u \in Writers : pc[u] = "linkTail" => cell[u] # cell[w]
    <3>1. ASSUME NEW u \in Writers, pc[u] = "linkTail" PROVE cell[u] \in InLine
      <4>1. PICK i \in 1 .. (Len(line) - 1) : cell[u] = line[i + 1]
        BY <3>1 DEF LinkInv
      <4>2. i + 1 \in 1 .. Len(line)
        BY <1>f
      <4> QED BY <1>f, <4>1, <4>2
    <3> QED BY <1>o, <3>1
  <2>3. \A u, v \in Writers :
          pc'[u] = "linkTail" /\ pc'[v] = "linkTail" /\ cell'[u] = cell'[v] => u = v
    BY <1>0, <1>m, <2>2 DEF LinkInv, Threads
  <2> QED BY <2>1, <2>3 DEF LinkInv
<1>11. AskedInv'
  BY <1>0, <1>m, AskedFrame DEF PopPc, Threads
<1>12. EndInv'
  BY <1>0, <1>m, EndFrame DEF Threads
<1>13. MsgInv'
  <2>1. data[cell[w]] \in Messages
    BY <1>0 DEF MsgInv
  <2>2. ASSUME NEW i \in 2 .. Len(line') PROVE data[line'[i]] \in Messages
    <3>1. CASE i = Len(line) + 1
      BY <1>f, <2>1, <3>1
    <3>2. CASE i # Len(line) + 1
      <4>1. i \in 2 .. Len(line) /\ i \in 1 .. Len(line)
        BY <1>f, <3>2
      <4> QED BY <1>f, <4>1 DEF MsgInv
    <3> QED BY <3>1, <3>2
  <2>3. \A u \in Writers : pc'[u] \in {"loadTail", "swapTail"} => data[cell[u]] \in Messages
    BY <1>m DEF MsgInv, Threads
  <2> QED BY <1>0, <2>2, <2>3 DEF MsgInv
<1>14. GetsInv'
  BY <1>0, <1>c DEF GetsInv, TypeOK, Cells
<1>15. SizeInv'
  <2>1. pc'[Reader] = pc[Reader] /\ {entered, removed} \subseteq Nat
    BY <1>m DEF Threads, TypeOK
  <2> DEFINE k == IF pc[Reader] = "idle" THEN 0 ELSE 1
             c == Cardinality(At(pc, {"linkTail", "count"}))
             d == Cardinality(At(pc', {"linkTail", "count"}))
             n == Len(line)
             m == Len(line')
  <2>2. k \in Nat /\ c \in Nat /\ d = c + 1 /\ n \in Nat /\ m = n + 1
    BY <1>c, <1>f
  <2>3. entered + c = removed + (n - 1) + k
    BY DEF SizeInv
  <2> HIDE DEF k, c, d, n, m
  <2>4. entered + d = removed + (m - 1) + k
    BY <2>1, <2>2, <2>3
  <2> QED BY <1>0, <2>1, <2>4 DEF SizeInv, k, d, m
<1> QED BY <1>1, <1>2, <1>4, <1>5, <1>6, <1>7, <1>8, <1>9,
           <1>10, <1>11, <1>12, <1>13, <1>14, <1>15

LEMMA LinkTailStep ==
  ASSUME IInv, NEW w \in Writers, LinkTail(w)
  PROVE  IInv'
<1> USE QueueAssumption DEF IInv
<1>0. /\ pc[w] = "linkTail" /\ Goto(w, "count")
      /\ UNCHANGED <<data, heap, Lf, spares, pops, top, link, tail, got, seen,
                    data_head, data_tail, entered, removed, line, gets>>
  BY DEF LinkTail, stackVars, queueVars
<1>e. /\ next' = [next EXCEPT ![tail[w]] = cell[w]]
      /\ cell' = [cell EXCEPT ![w] = NULL]
  BY DEF LinkTail
<1>m. /\ pc' \in [Threads -> Places] /\ pc'[w] = "count"
      /\ \A u \in Threads \ {w} : pc'[u] = pc[u]
  BY <1>0, Moves DEF Threads, Places
<1>s. /\ Len(line) \in Nat /\ DOMAIN line = 1 .. Len(line)
      /\ \A j \in 1 .. Len(line) : line[j] \in Cells /\ line[j] \in InLine
  BY Sequences DEF InLine
<1>i. PICK i \in 1 .. (Len(line) - 1) :
        tail[w] = line[i] /\ cell[w] = line[i + 1] /\ next[line[i]] = NULL
  BY <1>0 DEF LinkInv
<1>j. i \in 1 .. Len(line) /\ i + 1 \in 1 .. Len(line) /\ i # Len(line)
  BY <1>s, <1>i
<1>o. /\ line[i] \in Cells /\ line[i + 1] \in Cells
      /\ \A j \in 1 .. Len(line) : j # i => line[j] \in Cells \ {line[i]}
      /\ \A j \in DOMAIN spares : spares[j] \in Cells \ {line[i]}
      /\ \A c \in Spares : c \in Cells \ {line[i]}
      /\ \A u \in Threads : pc[u] \in HeldPc => cell[u] \in Cells \ {line[i]}
  <2>1. \A j \in 1 .. Len(line) : j # i => line[j] \in Cells \ {line[i]}
    BY <1>s, <1>j DEF PlaceInv, Distinct
  <2>2. line[i] \notin Spares /\ line[i] \in Cells /\ line[i + 1] \in Cells
    BY <1>s, <1>j DEF PlaceInv
  <2>3. \A j \in DOMAIN spares : spares[j] \in Cells \ {line[i]}
    BY <2>2, Sequences DEF Spares
  <2>4. \A c \in Spares : c \in Cells \ {line[i]}
    BY <2>3 DEF Spares
  <2>5. \A u \in Threads : pc[u] \in HeldPc => cell[u] \in Cells \ {line[i]}
    BY <1>s, <1>j, OwnCell
  <2> QED BY <2>1, <2>2, <2>3, <2>4, <2>5
<1>n. /\ next' \in [Cells -> Ptr] /\ next'[line[i]] = line[i + 1]
      /\ \A j \in 1 .. Len(line) : j # i => next'[line[j]] = next[line[j]]
      /\ \A j \in DOMAIN spares : next'[spares[j]] = next[spares[j]]
      /\ \A c \in Spares : next'[c] = next[c]
      /\ \A u \in Threads : pc[u] \in HeldPc => next'[cell[u]] = next[cell[u]]
  <2>1. next' = [next EXCEPT ![line[i]] = line[i + 1]]
    BY <1>e, <1>i
  <2> QED BY <2>1, <1>o DEF TypeOK, Ptr
<1>w. /\ cell' \in [Threads -> Ptr] /\ cell'[w] = NULL
      /\ \A u \in Threads \ {w} : cell'[u] = cell[u]
  BY <1>e DEF TypeOK, Threads, Ptr
<1>c. /\ Cardinality(At(pc, PopPc)) \in Nat
      /\ Cardinality(At(pc', PopPc)) = Cardinality(At(pc, PopPc))
      /\ Cardinality(At(pc, {"linkTail", "count"})) \in Nat
      /\ Cardinality(At(pc', {"linkTail", "count"})) = Cardinality(At(pc, {"linkTail", "count"}))
  BY <1>0, CountMoves DEF PopPc, Places
<1>1. TypeOK'
  BY <1>0, <1>m, <1>n, <1>w DEF TypeOK
<1>2. PcInv'
  BY <1>0, <1>m, <1>w DEF PcInv, Threads, HeldPc
<1>3. Holders' = Holders
  BY <1>0, <1>m, <1>1, <1>2, HoldersAre DEF HeldPc
<1>4. PlaceInv'
  <2>1. \A u \in Holders : cell'[u] = cell[u]
    BY <1>0, <1>w DEF Holders
  <2> QED BY <1>0, <1>3, <2>1, PlaceSame
<1>5. StackLinked'
  BY <1>0, <1>n, StackFrame
<1>6. TagInv'
  BY <1>0 DEF TagInv
<1>7. PopInv'
  <2>1. Spares' = Spares
    BY <1>0 DEF Spares
  <2> QED BY <1>0, <1>m, <1>n, <2>1, PopFrame DEF Threads
<1>8. PushInv'
  BY <1>0, <1>m, <1>n, <1>w, PushFrame DEF HeldPc
<1>9. LineInv'
  <2> DEFINE n == Len(line)
  <2>a. n \in Nat /\ i \in 1 .. n
    BY <1>s, <1>j
  <2> HIDE DEF n
  <2>b. n \in 1 .. n
    BY <2>a
  <2>0. Len(line) \in 1 .. Len(line)
    BY <2>b DEF n
  <2>1. next'[line[Len(line)]] = NULL
    BY <1>j, <1>n, <2>0 DEF LineInv
  <2>2. ASSUME NEW j \in 1 .. (Len(line) - 1)
        PROVE  next'[line[j]] \in {NULL, line[j + 1]}
    <3>1. CASE j = i
      BY <1>n, <3>1
    <3>2. CASE j # i
      <4>1. j \in 1 .. Len(line)
        BY <1>s
      <4>2. next'[line[j]] = next[line[j]]
        BY <1>n, <3>2, <4>1
      <4> QED BY <4>2 DEF LineInv
    <3> QED BY <3>1, <3>2
  <2> QED BY <1>0, <2>1, <2>2 DEF LineInv
<1>10. LinkInv'
  <2>1. ASSUME NEW u \in Writers, pc'[u] = "linkTail"
        PROVE  \E j \in 1 .. (Len(line') - 1) :
                 tail'[u] = line'[j] /\ cell'[u] = line'[j + 1] /\ next'[line'[j]] = NULL
    <3>1. u # w /\ pc[u] = "linkTail" /\ cell'[u] = cell[u]
      BY <1>m, <1>w, <2>1 DEF Threads
    <3>2. PICK j \in 1 .. (Len(line) - 1) :
            tail[u] = line[j] /\ cell[u] = line[j + 1] /\ next[line[j]] = NULL
      BY <3>1 DEF LinkInv
    <3>3. cell[u] # cell[w]
      BY <1>0, <3>1 DEF LinkInv
    <3>4. j # i /\ j \in 1 .. Len(line)
      BY <1>s, <1>i, <3>2, <3>3
    <3>5. next'[line[j]] = NULL
      BY <1>n, <3>2, <3>4
    <3> QED BY <1>0, <3>1, <3>2, <3>5
  <2>2. ASSUME NEW u \in Writers, NEW v \in Writers, pc'[u] = "linkTail",
               pc'[v] = "linkTail", cell'[u] = cell'[v]
        PROVE  u = v
    <3>1. u # w /\ pc[u] = "linkTail" /\ cell'[u] = cell[u]
      BY <1>m, <1>w, <2>2 DEF Threads
    <3>2. v # w /\ pc[v] = "linkTail" /\ cell'[v] = cell[v]
      BY <1>m, <1>w, <2>2 DEF Threads
    <3> QED BY <2>2, <3>1, <3>2 DEF LinkInv
  <2> QED BY <2>1, <2>2 DEF LinkInv
<1>11. AskedInv'
  BY <1>0, <1>m, AskedFrame DEF PopPc, Threads
<1>12. EndInv'
  BY <1>0, <1>m, <1>n, <1>w, EndFrame DEF HeldPc, Threads
<1>13. MsgInv'
  BY <1>0, <1>m, <1>w, MsgFrame DEF Threads
<1>14. GetsInv'
  BY <1>0, <1>c DEF GetsInv, TypeOK, Cells
<1>15. SizeInv'
  BY <1>0, <1>m, <1>c DEF SizeInv, TypeOK, Threads
<1> QED BY <1>1, <1>2, <1>4, <1>5, <1>6, <1>7, <1>8, <1>9,
           <1>10, <1>11, <1>12, <1>13, <1>14, <1>15

LEMMA PushSwapDone ==
  ASSUME IInv, InTime, NEW t \in Threads, PushSwap(t), Lf = top[t]
  PROVE  IInv'
<1> USE QueueAssumption DEF IInv
<1>p. PICK p \in {"idle", "countOut"} :
        p = IF t = Reader THEN "countOut" ELSE "idle"
  OBVIOUS
<1>0. /\ pc[t] = "pushSwap" /\ Goto(t, p)
      /\ UNCHANGED <<next, data, heap, pops, top, link, tail, got, seen,
                    data_head, data_tail, entered, removed, line, gets>>
  BY <1>p DEF PushSwap, stackVars, queueVars
<1>e. /\ Lf' = [head |-> cell[t], count |-> link[t]] /\ spares' = <<cell[t]>> \o spares
      /\ cell' = [cell EXCEPT ![t] = NULL]
  BY DEF PushSwap
<1>m. /\ pc' \in [Threads -> Places] /\ pc'[t] = p
      /\ \A u \in Threads \ {t} : pc'[u] = pc[u]
  BY <1>0, <1>p, Moves DEF Threads, Places
<1>t. seen[t] = pops
  <2>1. pops - seen[t] < TagModulus
    BY <1>0 DEF InTime, CopyPc, Threads
  <2>2. pops \in Nat /\ seen[t] \in Nat /\ seen[t] <= pops
    BY DEF TagInv, TypeOK, Threads
  <2>3. pops % TagModulus = seen[t] % TagModulus
    BY DEF TagInv, Threads
  <2> QED BY <2>1, <2>2, <2>3, SameTag
<1>k. link[t] = Lf.count /\ next[cell[t]] = Lf.head
  BY <1>0, <1>t DEF PushInv
<1>o. cell[t] \in Cells /\ t \in Holders /\ cell[t] \notin InLine /\ cell[t] \notin Spares
  BY <1>0, OwnCell DEF HeldPc
<1>f. /\ spares' \in Seq(Cells) /\ spares' # <<>> /\ Len(spares) \in Nat
      /\ Len(spares') = Len(spares) + 1
      /\ DOMAIN spares' = 1 .. (Len(spares) + 1) /\ DOMAIN spares = 1 .. Len(spares)
      /\ spares'[1] = cell[t]
      /\ \A i \in 1 .. Len(spares) : spares'[i + 1] = spares[i]
  BY <1>e, <1>o, PushFacts, Sequences DEF TypeOK
<1>g. Spares' = Spares \cup {cell[t]} /\ Distinct(spares')
  <2>1. Members(spares) = Spares /\ Members(spares') = Spares'
    BY DEF Members, Spares
  <2> QED BY <1>e, <1>o, <2>1, PushMembers DEF PlaceInv, TypeOK
<1>w. /\ cell' \in [Threads -> Ptr] /\ cell'[t] = NULL
      /\ \A u \in Threads \ {t} : cell'[u] = cell[u]
  BY <1>e DEF TypeOK, Ptr
<1>q. /\ Lf'.head = cell[t] /\ Lf'.count = Lf.count
      /\ Lf' \in [head : Ptr, count : 0 .. (TagModulus - 1)]
  <2>1. Lf.count \in 0 .. (TagModulus - 1)
    BY DEF TypeOK
  <2> QED BY <1>e, <1>k, <1>o, <2>1 DEF Ptr
<1>c. At(pc', PopPc) = At(pc, PopPc) /\ At(pc', {"linkTail", "count"}) = At(pc, {"linkTail", "count"})
  BY <1>0, <1>p, CountStays DEF PopPc, Places, Threads
<1>1. TypeOK'
  BY <1>0, <1>m, <1>f, <1>w, <1>q DEF TypeOK
<1>2. PcInv'
  BY <1>0, <1>m, <1>p, <1>w DEF PcInv, Threads, HeldPc
<1>3. Holders' = Holders \ {t}
  BY <1>0, <1>m, <1>p, <1>1, <1>2, HoldersAre DEF HeldPc
<1>4. PlaceInv'
  <2>1. \A u \in Holders \ {t} : cell'[u] = cell[u]
    BY <1>w DEF Holders
  <2>2. Held' = Held \ {cell[t]} /\ HeldOnce' /\ cell[t] \in Held
    BY <1>3, <1>o, <2>1, HeldLoses DEF PlaceInv
  <2>3. InLine' = InLine /\ Distinct(line')
    BY <1>0 DEF InLine, PlaceInv
  <2> QED BY <1>0, <1>g, <2>2, <2>3 DEF PlaceInv
<1>5. StackLinked'
  <2>1. Lf'.head = IF spares' = <<>> THEN NULL ELSE spares'[1]
    BY <1>f, <1>q
  <2>2. ASSUME NEW i \in DOMAIN spares'
        PROVE  next'[spares'[i]] = IF i = Len(spares') THEN NULL ELSE spares'[i + 1]
    <3>1. CASE i = 1
      <4>1. next'[spares'[i]] = IF spares = <<>> THEN NULL ELSE spares[1]
        BY <1>0, <1>f, <1>k, <3>1 DEF StackLinked
      <4>2. CASE spares = <<>>
        BY <1>f, <3>1, <4>1, <4>2
      <4>3. CASE spares # <<>>
        <5>1. Len(spares) # 0
          BY <4>3 DEF TypeOK
        <5>2. 1 \in 1 .. Len(spares)
          BY <1>f, <5>1
        <5>3. spares'[1 + 1] = spares[1] /\ i # Len(spares')
          BY <1>f, <3>1, <5>1, <5>2
        <5> QED BY <3>1, <4>1, <4>3, <5>3
      <4> QED BY <4>2, <4>3
    <3>2. CASE i # 1
      <4>1. i - 1 \in 1 .. Len(spares) /\ i \in Int
        BY <1>f, <3>2
      <4>2. spares'[i] = spares[i - 1] /\ (i # Len(spares') => spares'[i + 1] = spares[i])
        <5>1. spares'[(i - 1) + 1] = spares[i - 1] /\ (i - 1) + 1 = i
          BY <1>f, <4>1
        <5>2. i # Len(spares') => i \in 1 .. Len(spares)
          BY <1>f, <4>1
        <5>3. i # Len(spares') => spares'[i + 1] = spares[i]
          BY <1>f, <5>2
        <5> QED BY <5>1, <5>3
      <4>3. next[spares[i - 1]] = IF i - 1 = Len(spares) THEN NULL ELSE spares[(i - 1) + 1]
        <5>1. i - 1 \in DOMAIN spares
          BY <1>f, <4>1
        <5> QED BY <5>1 DEF StackLinked
      <4>4. (i - 1) + 1 = i /\ (i - 1 = Len(spares) <=> i = Len(spares'))
        BY <1>f, <4>1
      <4> QED BY <1>0, <4>2, <4>3, <4>4
    <3> QED BY <3>1, <3>2
  <2> QED BY <2>1, <2>2 DEF StackLinked
<1>6. TagInv'
  BY <1>0, <1>q DEF TagInv
<1>7. PopInv'
  BY <1>0, <1>m, <1>p, <1>g, PopFrame DEF Threads
<1>8. PushInv'
  BY <1>0, <1>m, <1>p, <1>q, <1>w, PushFrame
<1>9. LineInv'
  BY <1>0, LineFrame
<1>10. LinkInv'
  BY <1>0, <1>m, <1>p, <1>w, LinkFrame DEF Threads
<1>11. AskedInv'
  BY <1>0, <1>m, <1>p, AskedFrame DEF PopPc, Threads
<1>12. EndInv'
  BY <1>0, <1>m, <1>p, <1>w, EndFrame DEF Threads
<1>13. MsgInv'
  BY <1>0, <1>m, <1>p, <1>w, MsgFrame DEF Threads
<1>14. GetsInv'
  BY <1>0, <1>c DEF GetsInv, TypeOK, Cells
<1>15. SizeInv'
  BY <1>0, <1>m, <1>p, <1>c DEF SizeInv, TypeOK, Threads
<1> QED BY <1>1, <1>2, <1>4, <1>5, <1>6, <1>7, <1>8, <1>9,
           <1>10, <1>11, <1>12, <1>13, <1>14, <1>15

-----------------------------------------------------------------------------
(* Steps of the reader.                                                    *)

LEMMA GetHeadEmptyStep ==
  ASSUME IInv, GetHeadEmpty
  PROVE  IInv'
<1> USE DEF IInv
<1>0. /\ got' = NULL /\ pc' = pc
      /\ UNCHANGED <<next, data, heap, Lf, spares, pops, cell, top, link,
                    tail, seen, data_head, data_tail, entered, removed, line,
                    gets>>
  BY DEF GetHeadEmpty, stackVars, queueVars
<1>1. TypeOK'
  BY <1>0 DEF TypeOK, Ptr
<1>2. PcInv' /\ StackLinked' /\ TagInv' /\ AskedInv' /\ EndInv' /\ MsgInv' /\ LinkInv'
  BY <1>0 DEF PcInv, StackLinked, TagInv, AskedInv, EndInv, MsgInv, LinkInv
<1>3. PopInv' /\ PushInv'
  BY <1>0 DEF PopInv, PushInv, Spares
<1>4. Holders' = Holders
  BY <1>0 DEF Holders
<1>5. PlaceInv'
  BY <1>0, <1>4, PlaceSame
<1>6. LineInv'
  BY <1>0 DEF LineInv
<1>7. GetsInv' /\ SizeInv'
  BY <1>0 DEF GetsInv, SizeInv, At
<1> QED BY <1>1, <1>2, <1>3, <1>5, <1>6, <1>7

LEMMA GetHeadStep ==
  ASSUME IInv, GetHead
  PROVE  IInv'
<1> USE QueueAssumption DEF IInv
<1>0. /\ pc[Reader] = "idle" /\ Goto(Reader, "pushLoad")
      /\ UNCHANGED <<next, data, heap, Lf, spares, pops, top, link, tail,
                    seen, data_tail, entered, removed, gets>>
  BY DEF GetHead, stackVars, queueVars
<1>e. /\ next[data_head] # NULL /\ data_head' = next[data_head] /\ got' = next[data_head]
      /\ cell' = [cell EXCEPT ![Reader] = data_head] /\ line' = Tail(line)
  BY DEF GetHead
<1>m. /\ pc' \in [Threads -> Places] /\ pc'[Reader] = "pushLoad"
      /\ \A u \in Threads \ {Reader} : pc'[u] = pc[u]
  BY <1>0, Moves DEF Threads, Places
<1>s. /\ Len(line) \in Nat /\ Len(line) >= 2 /\ DOMAIN line = 1 .. Len(line)
      /\ data_head = line[1] /\ next[line[1]] = line[2]
      /\ \A i \in 1 .. Len(line) : line[i] \in Cells
  <2>1. Len(line) \in Nat /\ Len(line) # 0 /\ DOMAIN line = 1 .. Len(line)
    BY DEF LineInv, TypeOK
  <2>2. data_head = line[1] /\ next[line[Len(line)]] = NULL
    BY DEF LineInv
  <2>3. Len(line) # 1
    BY <1>e, <2>2
  <2>4. 1 \in 1 .. (Len(line) - 1)
    BY <2>1, <2>3
  <2>5. next[line[1]] \in {NULL, line[1 + 1]}
    BY <2>4 DEF LineInv
  <2> QED BY <1>e, <2>1, <2>2, <2>3, <2>5, Sequences
<1>f. /\ line' \in Seq(Cells) /\ Len(line') = Len(line) - 1 /\ line' # <<>>
      /\ \A i \in 1 .. (Len(line) - 1) : line'[i] = line[i + 1]
  <2>1. line \in Seq(Cells) /\ line # <<>>
    BY DEF TypeOK, LineInv
  <2>2. /\ line' \in Seq(Cells) /\ Len(line') = Len(line) - 1
        /\ \A i \in 1 .. (Len(line) - 1) : line'[i] = line[i + 1]
    BY <1>e, <2>1, TailFacts
  <2> QED BY <1>s, <2>2
<1>g. /\ InLine' = InLine \ {line[1]} /\ Distinct(line')
      /\ line[1] \in InLine /\ line[1] \in Cells
  <2>1. Members(line) = InLine /\ Members(line') = InLine'
    BY DEF Members, InLine
  <2> QED BY <1>e, <2>1, TailMembers DEF PlaceInv, TypeOK, LineInv
<1>w. /\ cell' \in [Threads -> Ptr] /\ cell'[Reader] = line[1] /\ line[1] # NULL
      /\ \A u \in Threads \ {Reader} : cell'[u] = cell[u]
  <2>1. line[1] \in Ptr /\ line[1] # NULL
    BY <1>g DEF Ptr, Cells, NULL
  <2>2. cell' = [cell EXCEPT ![Reader] = line[1]]
    BY <1>e, <1>s
  <2> QED BY <2>1, <2>2 DEF TypeOK, Threads
<1>h. data_head' = line[2] /\ got' = line[2] /\ line[2] \in Cells /\ line[2] \in Ptr
  BY <1>e, <1>s DEF Ptr
<1>c. At(pc', PopPc) = At(pc, PopPc) /\ At(pc', {"linkTail", "count"}) = At(pc, {"linkTail", "count"})
  BY <1>0, CountStays DEF PopPc, Places, Threads
<1>1. TypeOK'
  BY <1>0, <1>m, <1>f, <1>h, <1>w DEF TypeOK
<1>2. PcInv'
  BY <1>0, <1>m, <1>w DEF PcInv, Threads, HeldPc
<1>3. Holders' = Holders \cup {Reader} /\ Reader \notin Holders
  BY <1>0, <1>m, <1>1, <1>2, HoldersAre DEF HeldPc, Threads
<1>4. PlaceInv'
  <2>1. \A u \in Holders : cell'[u] = cell[u]
    BY <1>3, <1>w DEF Holders
  <2>2. Reader \in Threads /\ line[1] \notin Held /\ HeldOnce
    BY <1>g DEF PlaceInv, Threads
  <2>3. Held' = Held \cup {line[1]} /\ HeldOnce'
    BY <1>3, <1>w, <2>1, <2>2, HeldGains
  <2>4. Spares' = Spares /\ Distinct(spares')
    BY <1>0 DEF Spares, PlaceInv
  <2> QED BY <1>0, <1>g, <2>3, <2>4 DEF PlaceInv
<1>5. StackLinked'
  BY <1>0, StackFrame
<1>6. TagInv'
  BY <1>0 DEF TagInv
<1>7. PopInv'
  BY <1>0, <1>m, PopFrame DEF Spares, Threads
<1>8. PushInv'
  BY <1>0, <1>m, <1>w, PushFrame
<1>9. LineInv'
  <2>1. line'[1] = line[2] /\ line'[Len(line')] = line[Len(line)]
    BY <1>s, <1>f
  <2>2. ASSUME NEW i \in 1 .. (Len(line') - 1)
        PROVE  next'[line'[i]] \in {NULL, line'[i + 1]}
    <3>1. /\ i + 1 \in 1 .. (Len(line) - 1) /\ line'[i] = line[i + 1]
          /\ line'[i + 1] = line[(i + 1) + 1]
      BY <1>s, <1>f
    <3> QED BY <1>0, <3>1 DEF LineInv
  <2> QED BY <1>0, <1>f, <1>h, <2>1, <2>2 DEF LineInv
<1>10. LinkInv'
  <2>1. ASSUME NEW u \in Writers, pc'[u] = "linkTail"
        PROVE  \E i \in 1 .. (Len(line') - 1) :
                 tail'[u] = line'[i] /\ cell'[u] = line'[i + 1] /\ next'[line'[i]] = NULL
    <3>1. u # Reader /\ pc[u] = "linkTail" /\ cell'[u] = cell[u]
      BY <1>m, <1>w, <2>1 DEF Threads
    <3>2. PICK i \in 1 .. (Len(line) - 1) :
            tail[u] = line[i] /\ cell[u] = line[i + 1] /\ next[line[i]] = NULL
      BY <3>1 DEF LinkInv
    <3>3. i # 1
      BY <1>e, <1>s, <3>2
    <3>4. i - 1 \in 1 .. (Len(line') - 1) /\ line'[i - 1] = line[i] /\ line'[(i - 1) + 1] = line[i + 1]
      BY <1>s, <1>f, <3>3
    <3> QED BY <1>0, <3>1, <3>2, <3>4
  <2>2. \A u, v \in Writers :
          pc'[u] = "linkTail" /\ pc'[v] = "linkTail" /\ cell'[u] = cell'[v] => u = v
    BY <1>m, <1>w DEF LinkInv, Threads
  <2> QED BY <2>1, <2>2 DEF LinkInv
<1>11. AskedInv'
  BY <1>0, <1>m, AskedFrame DEF PopPc, Threads
<1>12. EndInv'
  BY <1>0, <1>m, <1>w, EndFrame DEF Threads
<1>13. MsgInv'
  <2>1. \A i \in 2 .. Len(line') : data'[line'[i]] \in Messages
    <3>1. \A i \in 2 .. Len(line') : i + 1 \in 2 .. Len(line) /\ line'[i] = line[i + 1]
      BY <1>s, <1>f
    <3> QED BY <1>0, <3>1 DEF MsgInv
  <2>2. \A u \in Writers : pc'[u] \in {"loadTail", "swapTail"} => data'[cell'[u]] \in Messages
    BY <1>0, <1>m, <1>w DEF MsgInv, Threads
  <2> QED BY <2>1, <2>2 DEF MsgInv
<1>14. GetsInv'
  BY <1>0, <1>c DEF GetsInv, TypeOK, Cells
<1>15. SizeInv'
  <2> DEFINE c == Cardinality(At(pc, {"linkTail", "count"}))
             n == Len(line)
             m == Len(line')
  <2>1. n \in Nat /\ m = n - 1 /\ {entered, removed} \subseteq Nat /\ c \in Nat
    BY <1>s, <1>f, AtFinite DEF TypeOK
  <2>2. entered + c = removed + (n - 1) + 0
    BY <1>0 DEF SizeInv
  <2> HIDE DEF c, n, m
  <2>3. entered + c = removed + (m - 1) + 1
    BY <2>1, <2>2
  <2> QED BY <1>0, <1>m, <1>c, <2>3 DEF SizeInv, c, m
<1> QED BY <1>1, <1>2, <1>4, <1>5, <1>6, <1>7, <1>8, <1>9,
           <1>10, <1>11, <1>12, <1>13, <1>14, <1>15

LEMMA CountRemovedStep ==
  ASSUME IInv, CountRemoved
  PROVE  IInv'
<1> USE QueueAssumption DEF IInv
<1>0. /\ pc[Reader] = "countOut" /\ Goto(Reader, "idle")
      /\ UNCHANGED <<next, data, heap, Lf, spares, pops, cell, top, link,
                    tail, got, seen, data_head, data_tail, entered, line,
                    gets>>
  BY DEF CountRemoved, stackVars, queueVars
<1>e. /\ removed' = removed + 1
  BY DEF CountRemoved
<1>m. /\ pc' \in [Threads -> Places] /\ pc'[Reader] = "idle"
      /\ \A u \in Threads \ {Reader} : pc'[u] = pc[u]
  BY <1>0, Moves DEF Threads, Places
<1>c. At(pc', PopPc) = At(pc, PopPc) /\ At(pc', {"linkTail", "count"}) = At(pc, {"linkTail", "count"})
  BY <1>0, CountStays DEF PopPc, Places, Threads
<1>1. TypeOK'
  BY <1>0, <1>e, <1>m DEF TypeOK
<1>2. PcInv'
  BY <1>0, <1>m DEF PcInv, TypeOK, Threads, HeldPc
<1>3. Holders' = Holders
  BY <1>0, <1>m, <1>1, <1>2, HoldersAre DEF HeldPc
<1>4. PlaceInv'
  BY <1>0, <1>3, PlaceSame
<1>5. StackLinked'
  BY <1>0, StackFrame
<1>6. TagInv'
  BY <1>0 DEF TagInv
<1>7. PopInv'
  BY <1>0, <1>m, PopFrame DEF Spares, Threads
<1>8. PushInv'
  BY <1>0, <1>m, PushFrame
<1>9. LineInv'
  BY <1>0, LineFrame
<1>10. LinkInv'
  BY <1>0, <1>m, LinkFrame DEF Threads
<1>11. AskedInv'
  BY <1>0, <1>m, AskedFrame DEF PopPc, Threads
<1>12. EndInv'
  BY <1>0, <1>m, EndFrame DEF Threads
<1>13. MsgInv'
  BY <1>0, <1>m, MsgFrame DEF Threads
<1>14. GetsInv'
  BY <1>0, <1>c DEF GetsInv, TypeOK, Cells
<1>15. SizeInv'
  <2> DEFINE c == Cardinality(At(pc, {"linkTail", "count"}))
             n == Len(line)
  <2>1. n \in Nat /\ {entered, removed} \subseteq Nat /\ c \in Nat
    BY Sequences, AtFinite DEF TypeOK
  <2>2. entered + c = removed + (n - 1) + 1
    BY <1>0 DEF SizeInv
  <2> HIDE DEF c, n
  <2>3. entered + c = (removed + 1) + (n - 1) + 0
    BY <2>1, <2>2
  <2> QED BY <1>0, <1>e, <1>m, <1>c, <2>3 DEF SizeInv, c, n
<1> QED BY <1>1, <1>2, <1>4, <1>5, <1>6, <1>7, <1>8, <1>9,
           <1>10, <1>11, <1>12, <1>13, <1>14, <1>15

-----------------------------------------------------------------------------
(* Every step keeps the invariant.                                         *)

LEMMA QueueStutter ==
  ASSUME IInv, UNCHANGED vars
  PROVE  IInv'
<1> USE DEF IInv
<1>0. /\ pc' = pc
      /\ UNCHANGED <<next, data, heap, Lf, spares, pops, cell, top, link,
                    tail, got, seen, data_head, data_tail, entered, removed,
                    line, gets>>
  BY DEF vars
<1>1. TypeOK' /\ PcInv' /\ StackLinked' /\ TagInv'
  BY <1>0 DEF TypeOK, PcInv, StackLinked, TagInv
<1>2. AskedInv' /\ EndInv' /\ MsgInv' /\ LineInv' /\ LinkInv'
  BY <1>0 DEF AskedInv, EndInv, MsgInv, LineInv, LinkInv
<1>3. PopInv' /\ PushInv'
  BY <1>0 DEF PopInv, PushInv, Spares
<1>4. Holders' = Holders
  BY <1>0 DEF Holders
<1>5. PlaceInv'
  BY <1>0, <1>4, PlaceSame
<1>6. GetsInv' /\ SizeInv'
  BY <1>0 DEF GetsInv, SizeInv, At
<1> QED BY <1>1, <1>2, <1>3, <1>5, <1>6

LEMMA QueueNext ==
  ASSUME IInv, InTime, [Next]_vars
  PROVE  IInv'
<1>1. CASE ReaderStep
  <2>1. Reader \in Threads
    BY DEF Threads
  <2> QED BY <1>1, <2>1, GetHeadEmptyStep, GetHeadStep, CountRemovedStep, PushLoadStep,
             PushCountStep, PushSwapDone, PushSwapAgain DEF ReaderStep
<1>2. ASSUME NEW w \in Writers, WriterStep(w)
      PROVE  IInv'
  <2>0. w \in Threads
    BY DEF Threads
  <2>1. CASE GetSpare(w) \/ PopNext(w) \/ Construct(w) \/ Fill(w) \/ LoadTail(w)
    BY <2>1, GetSpareStep, PopNextStep, ConstructStep, FillStep, LoadTailStep
  <2>2. CASE PopLoad(w) \/ PopSwap(w) \/ SwapTail(w)
    BY <2>2, PopLoadTop, PopLoadNew, PopSwapDone, PopSwapAgain, SwapTailDone, SwapTailAgain
  <2>3. CASE LinkTail(w) \/ CountEntered(w) \/ ReturnElt(w)
    BY <2>3, LinkTailStep, CountEnteredStep, ReturnEltStep
  <2>4. CASE PushLoad(w) \/ PushCount(w) \/ PushSwap(w)
    BY <2>0, <2>4, PushLoadStep, PushCountStep, PushSwapDone, PushSwapAgain
  <2> QED BY <1>2, <2>1, <2>2, <2>3, <2>4 DEF WriterStep
<1>3. CASE UNCHANGED vars
  BY <1>3, QueueStutter
<1> QED BY <1>1, <1>2, <1>3 DEF Next

LEMMA InvariantHolds == Spec /\ []InTime => []IInv
BY QueueInit, QueueNext, PTL DEF Spec

-----------------------------------------------------------------------------
(* What follows from the invariant.                                        *)

LEMMA PlacesFollow == IInv => OnePlaceEach
<1> SUFFICES ASSUME IInv PROVE OnePlaceEach
  OBVIOUS
<1>1. PlaceInv /\ StackLinked
  BY DEF IInv
<1>2. \A t \in Holders : cell[t] \in Held
  BY DEF Held
<1>3. \A t \in Holders : cell[t] \notin InLine \cup Spares
  BY <1>1, <1>2 DEF PlaceInv
<1>4. \A t, u \in Holders : cell[t] = cell[u] => t = u
  BY <1>1 DEF PlaceInv, HeldOnce
<1>5. InLine \cup Spares \cup {cell[t] : t \in Holders} = 1 .. heap
  BY <1>1 DEF PlaceInv, Held
<1>6. Distinct(line) /\ Distinct(spares) /\ InLine \cap Spares = {}
  BY <1>1 DEF PlaceInv
<1> QED BY <1>1, <1>3, <1>4, <1>5, <1>6 DEF OnePlaceEach

LEMMA SizeFollows == IInv /\ SizeFits => SizeWhenQuiet
<1> SUFFICES ASSUME IInv, SizeFits,
                    \A t \in Threads : pc[t] \in {"idle", "popLoad", "fill"}
             PROVE  Size = Len(line) - 1
  BY DEF SizeWhenQuiet
<1> USE DEF IInv
<1>1. pc[Reader] = "idle"
  BY DEF PcInv, Threads
<1>2. At(pc, {"linkTail", "count"}) = {}
  BY DEF At, Threads
<1>3. Cardinality(At(pc, {"linkTail", "count"})) = 0
  BY <1>2, FS_EmptySet
<1>4. entered + 0 = removed + (Len(line) - 1) + 0
  BY <1>1, <1>3 DEF SizeInv
<1> DEFINE n == Len(line)
<1>5. n \in Nat /\ n # 0 /\ {entered, removed} \subseteq Nat
  BY DEF LineInv, TypeOK
<1>6. SizeModulus \in Nat \ {0} /\ n - 1 < SizeModulus /\ entered + 0 = removed + (n - 1) + 0
  BY <1>4, QueueAssumption DEF SizeFits
<1> HIDE DEF n
<1>7. /\ entered - removed = n - 1 /\ n - 1 \in Nat /\ n - 1 \in 0 .. (SizeModulus - 1)
      /\ n - 1 = (SizeModulus * 0) + (n - 1)
  BY <1>5, <1>6
<1>8. (n - 1) % SizeModulus = n - 1
  BY <1>6, <1>7, RemainderIs
<1> QED BY <1>7, <1>8 DEF Size, n

(* As long as no thread is held up in pop() or push() for as many pops as  *)
(* the count of LIFO_element has values, every variable of AsyncQueueMT    *)
(* and LockFreeLIFO keeps its type, for any number of writers and writes.  *)
THEOREM QueueTypes == Spec /\ []InTime => []TypeOK
<1>1. IInv => TypeOK
  BY DEF IInv
<1> QED BY <1>1, InvariantHolds, PTL

(* Under the same condition the pops, the pushes and the swaps of          *)
(* data_tail keep every element in exactly one place, whatever the         *)
(* interleaving: none is handed out twice, and none is lost.               *)
THEOREM OnePlace == Spec /\ []InTime => []OnePlaceEach
BY PlacesFollow, InvariantHolds, PTL

(* size() is exact when nothing is going on, as long as what is in the     *)
(* queue fits its unsigned int.                                            *)
THEOREM SizeExact == Spec /\ []InTime /\ []SizeFits => []SizeWhenQuiet
BY SizeFollows, InvariantHolds, PTL

-----------------------------------------------------------------------------
(* The condition InTime holds when fewer elements are asked for than the   *)
(* count has values.                                                       *)

\* no more pops than calls of getSpare() that are past theirs
PopsInv ==
  /\ pc \in [Threads -> Places]
  /\ pops \in Nat
  /\ gets.all \in 0 .. MaxGets
  /\ seen \in [Threads -> Nat]
  /\ pops + Cardinality(At(pc, PopPc)) <= gets.all

LEMMA PopsInit == Init => PopsInv
<1> SUFFICES ASSUME Init PROVE PopsInv
  OBVIOUS
<1>1. At(pc, PopPc) = {}
  BY DEF Init, At, PopPc, Threads
<1>2. Cardinality(At(pc, PopPc)) = 0
  BY <1>1, FS_EmptySet
<1>3. pc \in [Threads -> Places]
  BY DEF Init, Places
<1> QED BY <1>2, <1>3, QueueAssumption DEF Init, PopsInv

\* a thread that goes on without a call, a pop or an allocation
LEMMA PopsMove ==
  ASSUME PopsInv, NEW t \in Threads, NEW b \in Places, Goto(t, b),
         UNCHANGED <<pops, gets>>, seen' = seen \/ seen' = [seen EXCEPT ![t] = pops],
         t \in Writers /\ b \in PopPc => pc[t] \in PopPc
  PROVE  PopsInv'
<1>1. pc' \in [Threads -> Places]
  BY DEF PopsInv, Goto
<1>2. seen' \in [Threads -> Nat]
  BY DEF PopsInv
<1> DEFINE c == Cardinality(At(pc, PopPc))
           d == Cardinality(At(pc', PopPc))
<1>3. c \in Nat /\ d \in Nat /\ d <= c
  <2>1. c \in Nat /\ d \in Nat
    BY AtFinite
  <2>2. CASE t \in Writers
    BY <2>1, <2>2, WriterMoves DEF PopsInv
  <2>3. CASE t \notin Writers
    <3>1. At(pc', PopPc) = At(pc, PopPc)
      BY <2>3 DEF At, Goto, PopsInv, Threads
    <3> QED BY <2>1, <3>1
  <2> QED BY <2>2, <2>3
<1>4. pops + c <= gets.all /\ pops \in Nat /\ gets.all \in 0 .. MaxGets
  BY DEF PopsInv
<1> HIDE DEF c, d
<1>5. pops + d <= gets.all
  BY <1>3, <1>4, QueueAssumption
<1> QED BY <1>1, <1>2, <1>4, <1>5 DEF PopsInv, d

LEMMA PopsNext ==
  ASSUME PopsInv, [Next]_vars
  PROVE  PopsInv'
<1> USE QueueAssumption
<1>1. ASSUME NEW w \in Writers, GetSpare(w)
      PROVE  PopsInv'
  <2>1. /\ pc[w] = "idle" /\ Goto(w, "popLoad") /\ pops' = pops /\ seen' = seen
        /\ gets.all < MaxGets /\ gets'.all = gets.all + 1
    BY <1>1 DEF GetSpare, stackVars
  <2>2. pc' \in [Threads -> Places]
    BY <2>1 DEF Goto, PopsInv, Places
  <2> DEFINE c == Cardinality(At(pc, PopPc))
             d == Cardinality(At(pc', PopPc))
  <2>3. c \in Nat /\ d = c + 1
    BY <2>1, WriterMoves DEF PopsInv, PopPc, Places
  <2>4. pops + c <= gets.all /\ pops \in Nat /\ gets.all \in 0 .. MaxGets
    BY DEF PopsInv
  <2> HIDE DEF c, d
  <2>5. pops' + d <= gets'.all /\ gets'.all \in 0 .. MaxGets
    BY <2>1, <2>3, <2>4
  <2> QED BY <2>1, <2>2, <2>4, <2>5 DEF PopsInv, d
<1>2. ASSUME NEW w \in Writers, PopSwap(w), Lf = top[w]
      PROVE  PopsInv'
  <2>1. pc[w] = "popSwap" /\ Goto(w, "construct") /\ pops' = pops + 1 /\ UNCHANGED <<seen, gets>>
    BY <1>2 DEF PopSwap
  <2>2. pc' \in [Threads -> Places]
    BY <2>1 DEF Goto, PopsInv, Places
  <2> DEFINE c == Cardinality(At(pc, PopPc))
             d == Cardinality(At(pc', PopPc))
  <2>3. c \in Nat /\ d \in Nat /\ d = c - 1
    BY <2>1, WriterMoves DEF PopsInv, PopPc, Places
  <2>4. pops + c <= gets.all /\ pops \in Nat /\ gets.all \in 0 .. MaxGets
    BY DEF PopsInv
  <2> HIDE DEF c, d
  <2>5. pops' + d <= gets'.all /\ gets'.all \in 0 .. MaxGets /\ pops' \in Nat
    BY <2>1, <2>3, <2>4
  <2> QED BY <2>1, <2>2, <2>5 DEF PopsInv, d
<1>3. ASSUME NEW w \in Writers, WriterStep(w), ~ GetSpare(w), ~ (PopSwap(w) /\ Lf = top[w])
      PROVE  PopsInv'
  <2>0. w \in Threads
    BY DEF Threads
  <2>1. UNCHANGED <<pops, gets>> /\ (seen' = seen \/ seen' = [seen EXCEPT ![w] = pops])
    BY <1>3 DEF WriterStep, PopLoad, PopNext, PopSwap, Construct, Fill, LoadTail, SwapTail,
                LinkTail, CountEntered, ReturnElt, PushLoad, PushCount, PushSwap, stackVars
  <2>2. PICK b \in Places : Goto(w, b) /\ (b \in PopPc => pc[w] \in PopPc)
    <3>1. CASE PopLoad(w) \/ PopNext(w) \/ PopSwap(w)
      BY <1>3, <3>1 DEF PopLoad, PopNext, PopSwap, Places, PopPc
    <3>2. CASE Construct(w) \/ Fill(w) \/ LoadTail(w) \/ SwapTail(w) \/ LinkTail(w)
      BY <3>2 DEF Construct, Fill, LoadTail, SwapTail, LinkTail, Places, PopPc
    <3>3. CASE CountEntered(w) \/ ReturnElt(w) \/ PushLoad(w) \/ PushCount(w)
      BY <3>3 DEF CountEntered, ReturnElt, PushLoad, PushCount, Places, PopPc
    <3>4. CASE PushSwap(w)
      BY <3>4 DEF PushSwap, Places, PopPc
    <3> QED BY <1>3, <3>1, <3>2, <3>3, <3>4 DEF WriterStep
  <2> QED BY <2>0, <2>1, <2>2, PopsMove
<1>4. CASE ReaderStep
  <2>0. Reader \in Threads /\ Reader \notin Writers
    BY DEF Threads
  <2>1. CASE GetHeadEmpty
    BY <2>1 DEF GetHeadEmpty, PopsInv, At, stackVars
  <2>2. CASE ~ GetHeadEmpty
    <3>1. UNCHANGED <<pops, gets>> /\ (seen' = seen \/ seen' = [seen EXCEPT ![Reader] = pops])
      BY <1>4, <2>2 DEF ReaderStep, GetHead, CountRemoved, PushLoad, PushCount, PushSwap,
                        stackVars
    <3>2. PICK b \in Places : Goto(Reader, b)
      BY <1>4, <2>2 DEF ReaderStep, GetHead, CountRemoved, PushLoad, PushCount, PushSwap, Places
    <3> QED BY <2>0, <3>1, <3>2, PopsMove
  <2> QED BY <2>1, <2>2
<1>5. CASE UNCHANGED vars
  BY <1>5 DEF vars, PopsInv, At
<1> QED BY <1>1, <1>2, <1>3, <1>4, <1>5 DEF Next

LEMMA PopsInTime == ASSUME MaxGets < TagModulus PROVE PopsInv => InTime
<1> SUFFICES ASSUME PopsInv, NEW t \in Threads PROVE pops - seen[t] < TagModulus
  BY DEF InTime
<1>1. Cardinality(At(pc, PopPc)) \in Nat
  BY AtFinite
<1>2. pops \in Nat /\ gets.all \in 0 .. MaxGets /\ seen[t] \in Nat
  BY DEF PopsInv
<1>3. pops <= gets.all
  BY <1>1, <1>2, QueueAssumption DEF PopsInv
<1> QED BY <1>2, <1>3, QueueAssumption

(* With fewer calls of getSpare() than the count has values no thread can  *)
(* be held up for too long, however it is scheduled.                       *)
THEOREM FewGetsInTime ==
  ASSUME MaxGets < TagModulus
  PROVE  Spec => []InTime
BY PopsInit, PopsNext, PopsInTime, PTL DEF Spec

(* So that up to that number of writes an element has one place without    *)
(* any condition on the scheduling.                                        *)
THEOREM OnePlaceFewGets ==
  ASSUME MaxGets < TagModulus
  PROVE  Spec => []OnePlaceEach
BY FewGetsInTime, OnePlace, PTL

-----------------------------------------------------------------------------
(* AsyncQueueMT implements AsyncFifo.                                      *)

LEMMA EmptyIs ==
  ASSUME NEW S, NEW f \in [1 .. 0 -> S]
  PROVE  f = <<>>
<1>1. f \in Seq(S) /\ Len(f) = 0
  BY SeqDef
<1> QED BY <1>1

LEMMA AppendIs ==
  ASSUME NEW S, NEW n \in Nat, NEW f \in [1 .. n -> S], NEW g \in [1 .. (n + 1) -> S],
         NEW x \in S, \A i \in 1 .. n : g[i] = f[i], g[n + 1] = x
  PROVE  g = Append(f, x)
<1>1. f \in Seq(S) /\ Len(f) = n /\ g \in Seq(S) /\ Len(g) = n + 1
  BY SeqDef
<1>2. PICK h \in Seq(S) : h = Append(f, x)
  BY <1>1, AppendFacts
<1>3. Len(h) = n + 1 /\ (\A i \in 1 .. n : h[i] = f[i]) /\ h[n + 1] = x
  BY <1>1, <1>2, AppendFacts
<1>4. \A i \in 1 .. Len(g) : g[i] = h[i]
  BY <1>1, <1>3
<1>5. g = h
  BY <1>1, <1>3, <1>4, SeqEqual
<1> QED BY <1>2, <1>5

LEMMA TailIs ==
  ASSUME NEW S, NEW n \in Nat, NEW f \in [1 .. (n + 1) -> S], NEW g \in [1 .. n -> S],
         \A i \in 1 .. n : g[i] = f[i + 1]
  PROVE  g = Tail(f) /\ f # <<>> /\ Head(f) = f[1]
<1>1. f \in Seq(S) /\ Len(f) = n + 1 /\ g \in Seq(S) /\ Len(g) = n
  BY SeqDef
<1>0. f # <<>>
  BY <1>1
<1>2. PICK h \in Seq(S) : h = Tail(f)
  BY <1>0, <1>1, TailFacts
<1>3. Len(h) = n /\ \A i \in 1 .. n : h[i] = f[i + 1]
  BY <1>0, <1>1, <1>2, TailFacts
<1>4. \A i \in 1 .. Len(g) : g[i] = h[i]
  BY <1>1, <1>3
<1>5. g = h
  BY <1>1, <1>3, <1>4, SeqEqual
<1> QED BY <1>0, <1>1, <1>2, <1>5

\* what AsyncFifo sees of the queue
Queue == [i \in 1 .. (Len(line) - 1) |-> data[line[i + 1]]]
Shown == [i \in 1 .. (Len(line) - 1) |-> next[line[i]] # NULL]
Taken == IF got = NULL THEN <<>> ELSE <<data[got]>>

LEMMA SeenTypes ==
  ASSUME IInv
  PROVE  /\ Len(line) - 1 \in Nat
         /\ Queue \in [1 .. (Len(line) - 1) -> Messages]
         /\ \A i \in 1 .. (Len(line) - 1) : Queue[i] = data[line[i + 1]]
         /\ Shown \in [1 .. (Len(line) - 1) -> BOOLEAN]
         /\ \A i \in 1 .. (Len(line) - 1) : Shown[i] = (next[line[i]] # NULL)
<1> USE DEF IInv
<1>1. Len(line) \in Nat /\ Len(line) # 0
  BY DEF LineInv, TypeOK
<1>2. \A i \in 1 .. (Len(line) - 1) : i + 1 \in 2 .. Len(line)
  BY <1>1
<1>3. \A i \in 1 .. (Len(line) - 1) : data[line[i + 1]] \in Messages
  BY <1>2 DEF MsgInv
<1>4. Len(line) - 1 \in Nat
  BY <1>1
<1>5. Queue \in [1 .. (Len(line) - 1) -> Messages]
  BY <1>3 DEF Queue
<1>6. Shown \in [1 .. (Len(line) - 1) -> BOOLEAN]
  BY DEF Shown
<1> QED BY <1>4, <1>5, <1>6 DEF Queue, Shown

LEMMA SeenTypesNext ==
  ASSUME IInv'
  PROVE  /\ Len(line') - 1 \in Nat
         /\ Queue' \in [1 .. (Len(line') - 1) -> Messages]
         /\ \A i \in 1 .. (Len(line') - 1) : Queue'[i] = data'[line'[i + 1]]
         /\ Shown' \in [1 .. (Len(line') - 1) -> BOOLEAN]
         /\ \A i \in 1 .. (Len(line') - 1) : Shown'[i] = (next'[line'[i]] # NULL)
<1> USE DEF IInv
<1>1. Len(line') \in Nat /\ Len(line') # 0
  BY DEF LineInv, TypeOK
<1>2. \A i \in 1 .. (Len(line') - 1) : i + 1 \in 2 .. Len(line')
  BY <1>1
<1>3. \A i \in 1 .. (Len(line') - 1) : data'[line'[i + 1]] \in Messages
  BY <1>2 DEF MsgInv
<1>4. Len(line') - 1 \in Nat
  BY <1>1
<1>5. Queue' \in [1 .. (Len(line') - 1) -> Messages]
  BY <1>3 DEF Queue
<1>6. Shown' \in [1 .. (Len(line') - 1) -> BOOLEAN]
  BY DEF Shown
<1> QED BY <1>4, <1>5, <1>6 DEF Queue, Shown

LEMMA FifoInit == Init => Fifo!Init
<1> SUFFICES ASSUME Init PROVE Fifo!Init
  OBVIOUS
<1>1. IInv
  BY QueueInit
<1>2. Len(line) - 1 = 0 /\ Taken = <<>>
  BY DEF Init, Taken, NULL
<1>3. Queue = <<>> /\ Shown = <<>>
  BY <1>1, <1>2, SeenTypes, EmptyIs
<1> QED BY <1>2, <1>3 DEF Fifo!Init, Queue, Shown, Taken

\* steps that AsyncFifo does not see
LEMMA Unseen ==
  ASSUME IInv, UNCHANGED <<line, got>>,
         \A i \in 1 .. Len(line) : next'[line[i]] = next[line[i]],
         \A i \in 1 .. Len(line) : data'[line[i]] = data[line[i]]
  PROVE  UNCHANGED <<Queue, Shown, Taken>>
<1>1. Len(line) \in Nat /\ Len(line) # 0
  BY DEF IInv, LineInv, TypeOK
<1>2. \A i \in 1 .. (Len(line) - 1) : i + 1 \in 1 .. Len(line) /\ i \in 1 .. Len(line)
  BY <1>1
<1>3. Queue' = Queue
  BY <1>2 DEF Queue
<1>4. Shown' = Shown
  BY <1>2 DEF Shown
<1>5. got # NULL => got = line[1]
  BY DEF IInv, LineInv
<1>6. 1 \in 1 .. Len(line)
  BY <1>1
<1>7. Taken' = Taken
  BY <1>5, <1>6 DEF Taken
<1> QED BY <1>3, <1>4, <1>7

LEMMA SwapTailEnters ==
  ASSUME IInv, IInv', NEW w \in Writers, SwapTail(w), data_tail = tail[w]
  PROVE  \E m \in Messages : Fifo!Enter(m)
<1> DEFINE n == Len(line) - 1
           msg == data[cell[w]]
<1>0. /\ pc[w] = "swapTail" /\ line' = Append(line, cell[w]) /\ UNCHANGED <<next, data, got>>
  BY DEF SwapTail
<1>1. cell[w] \in Cells /\ msg \in Messages
  BY <1>0, OwnCell DEF HeldPc, Threads, IInv, MsgInv
<1>2. /\ Len(line) \in Nat /\ Len(line') = Len(line) + 1
      /\ \A i \in 1 .. Len(line) : line'[i] = line[i]
      /\ line'[Len(line) + 1] = cell[w]
  <2>1. line \in Seq(Cells)
    BY DEF IInv, TypeOK
  <2> QED BY <1>0, <1>1, <2>1, AppendFacts
<1>3. /\ n \in Nat
      /\ Queue \in [1 .. n -> Messages] /\ Shown \in [1 .. n -> BOOLEAN]
      /\ \A i \in 1 .. n : Queue[i] = data[line[i + 1]]
      /\ \A i \in 1 .. n : Shown[i] = (next[line[i]] # NULL)
  BY SeenTypes
<1>a. /\ Queue' \in [1 .. (Len(line') - 1) -> Messages]
      /\ Shown' \in [1 .. (Len(line') - 1) -> BOOLEAN]
      /\ \A i \in 1 .. (Len(line') - 1) : Queue'[i] = data'[line'[i + 1]]
      /\ \A i \in 1 .. (Len(line') - 1) : Shown'[i] = (next'[line'[i]] # NULL)
  BY SeenTypesNext
<1>b. Len(line') - 1 = n + 1
  BY <1>2
<1>4. /\ Queue' \in [1 .. (n + 1) -> Messages] /\ Shown' \in [1 .. (n + 1) -> BOOLEAN]
      /\ \A i \in 1 .. (n + 1) : Queue'[i] = data[line'[i + 1]]
      /\ \A i \in 1 .. (n + 1) : Shown'[i] = (next[line'[i]] # NULL)
  BY <1>0, <1>a, <1>b
<1>c. \A i \in 1 .. n : /\ i \in 1 .. (n + 1) /\ i + 1 \in 1 .. Len(line)
                        /\ line'[i] = line[i] /\ line'[i + 1] = line[i + 1]
  BY <1>2
<1> HIDE DEF n, msg
<1>5. Queue' = Append(Queue, msg)
  <2>1. \A i \in 1 .. n : Queue'[i] = Queue[i]
    BY <1>3, <1>4, <1>c
  <2>2. Queue'[n + 1] = msg
    BY <1>2, <1>3, <1>4 DEF n, msg
  <2> QED BY <1>1, <1>3, <1>4, <2>1, <2>2, AppendIs
<1>6. Shown' = Append(Shown, FALSE)
  <2>1. ASSUME NEW i \in 1 .. n PROVE Shown'[i] = Shown[i]
    <3>1. line'[i] = line[i] /\ i \in 1 .. (n + 1)
      BY <1>c
    <3>2. Shown'[i] = (next[line'[i]] # NULL) /\ Shown[i] = (next[line[i]] # NULL)
      BY <1>3, <1>4, <3>1, Zenon
    <3> QED BY <3>1, <3>2, Zenon
  <2>2. Shown'[n + 1] = FALSE
    <3>1. next[line[Len(line)]] = NULL
      BY DEF IInv, LineInv
    <3>2. line'[n + 1] = line[Len(line)]
      BY <1>2, <1>3 DEF n
    <3> QED BY <1>3, <1>4, <3>1, <3>2
  <2>3. \A i \in 1 .. n : Shown'[i] = Shown[i]
    BY <2>1, Zenon
  <2>4. FALSE \in BOOLEAN /\ Shown \in [1 .. n -> BOOLEAN] /\ Shown' \in [1 .. (n + 1) -> BOOLEAN]
    BY <1>3, <1>4
  <2>5. PICK x \in BOOLEAN : x = FALSE
    BY <2>4, Zenon
  <2>6. Shown'[n + 1] = x
    BY <2>2, <2>5, Zenon
  <2>7. Shown' = Append(Shown, x)
    BY <1>3, <2>3, <2>4, <2>6, AppendIs
  <2> QED BY <2>5, <2>7, Zenon
<1>7. Taken' = Taken
  BY <1>0 DEF Taken
<1> QED BY <1>1, <1>5, <1>6, <1>7 DEF Fifo!Enter, Queue, Shown, Taken

LEMMA LinkTailShows ==
  ASSUME IInv, IInv', NEW w \in Writers, LinkTail(w)
  PROVE  \E i \in DOMAIN Queue : Fifo!Show(i)
<1> DEFINE n == Len(line) - 1
<1>0. /\ pc[w] = "linkTail" /\ next' = [next EXCEPT ![tail[w]] = cell[w]]
      /\ UNCHANGED <<line, data, got>>
  BY DEF LinkTail, queueVars
<1>1. PICK i \in 1 .. (Len(line) - 1) :
        tail[w] = line[i] /\ cell[w] = line[i + 1] /\ next[line[i]] = NULL
  BY <1>0 DEF IInv, LinkInv
<1>2. /\ Len(line) \in Nat /\ DOMAIN line = 1 .. Len(line)
      /\ \A j \in 1 .. Len(line) : line[j] \in Cells
  BY Sequences DEF IInv
<1>3. /\ n \in Nat /\ i \in 1 .. n
      /\ Queue \in [1 .. n -> Messages] /\ Shown \in [1 .. n -> BOOLEAN]
      /\ \A j \in 1 .. n : Shown[j] = (next[line[j]] # NULL)
  BY SeenTypes
<1>4. /\ Shown' \in [1 .. n -> BOOLEAN]
      /\ \A j \in 1 .. n : Shown'[j] = (next'[line[j]] # NULL)
  BY <1>0, SeenTypesNext
<1>5. \A j \in 1 .. n : j \in 1 .. Len(line) /\ j + 1 \in 1 .. Len(line)
  BY <1>2
<1> HIDE DEF n
<1>6. /\ next \in [Cells -> Ptr] /\ line[i] \in Cells /\ line[i + 1] \in Cells
      /\ \A j \in 1 .. n : j # i => line[j] \in Cells \ {line[i]}
  BY <1>2, <1>3, <1>5 DEF IInv, TypeOK, PlaceInv, Distinct
<1>7. /\ next'[line[i]] # NULL
      /\ \A j \in 1 .. n : j # i => next'[line[j]] = next[line[j]]
  <2>1. next' = [next EXCEPT ![line[i]] = line[i + 1]] /\ line[i + 1] # NULL
    BY <1>0, <1>1, <1>6 DEF Cells, NULL
  <2> QED BY <1>6, <2>1
<1>8. ~ Shown[i]
  BY <1>1, <1>3
<1>9. PICK x \in BOOLEAN : x = TRUE
  BY Zenon
<1>a. Shown'[i] = x
  BY <1>3, <1>4, <1>7, <1>9
<1>b. ASSUME NEW j \in 1 .. n, j # i PROVE Shown'[j] = Shown[j]
  <2>1. next'[line[j]] = next[line[j]]
    BY <1>7, <1>b
  <2>2. Shown'[j] = (next'[line[j]] # NULL) /\ Shown[j] = (next[line[j]] # NULL)
    BY <1>3, <1>4, Zenon
  <2> QED BY <2>1, <2>2, Zenon
<1>c. Shown' = [Shown EXCEPT ![i] = x]
  BY <1>3, <1>4, <1>a, <1>b
<1>d. Shown' = [Shown EXCEPT ![i] = TRUE]
  BY <1>9, <1>c, Zenon
<1>e. Queue' = Queue /\ Taken' = Taken
  BY <1>0 DEF Queue, Taken
<1>f. Fifo!Show(i)
  BY <1>8, <1>d, <1>e DEF Fifo!Show, Queue, Shown, Taken
<1>g. i \in DOMAIN Queue
  BY <1>3
<1> QED BY <1>f, <1>g, Zenon

LEMMA GetHeadTakes ==
  ASSUME IInv, IInv', GetHead
  PROVE  Fifo!Take
<1>0. /\ next[data_head] # NULL /\ got' = next[data_head] /\ line' = Tail(line)
      /\ UNCHANGED <<next, data>>
  BY DEF GetHead
<1>1. /\ Len(line) \in Nat /\ Len(line) >= 2 /\ next[line[1]] = line[2] /\ next[line[1]] # NULL
  <2>1. Len(line) \in Nat /\ Len(line) # 0
    BY DEF IInv, LineInv, TypeOK
  <2>2. data_head = line[1] /\ next[line[Len(line)]] = NULL
    BY DEF IInv, LineInv
  <2>3. Len(line) # 1
    BY <1>0, <2>2
  <2> DEFINE z == Len(line)
  <2>a. z \in Nat /\ z # 0 /\ z # 1
    BY <2>1, <2>3
  <2> HIDE DEF z
  <2>b. z >= 2 /\ 1 \in 1 .. (z - 1)
    BY <2>a
  <2>4. Len(line) >= 2 /\ 1 \in 1 .. (Len(line) - 1)
    BY <2>b DEF z
  <2>5. next[line[1]] \in {NULL, line[1 + 1]}
    BY <2>4 DEF IInv, LineInv
  <2> QED BY <1>0, <2>1, <2>2, <2>4, <2>5
<1>2. /\ Len(line') = Len(line) - 1
      /\ \A i \in 1 .. (Len(line) - 1) : line'[i] = line[i + 1]
  <2>1. line \in Seq(Cells) /\ line # <<>>
    BY DEF IInv, TypeOK, LineInv
  <2> QED BY <1>0, <2>1, TailFacts
<1> DEFINE n == Len(line) - 1
           k == Len(line) - 2
<1>3. /\ n \in Nat
      /\ Queue \in [1 .. n -> Messages] /\ Shown \in [1 .. n -> BOOLEAN]
      /\ \A i \in 1 .. n : Queue[i] = data[line[i + 1]]
      /\ \A i \in 1 .. n : Shown[i] = (next[line[i]] # NULL)
  BY SeenTypes
<1>a. /\ Queue' \in [1 .. (Len(line') - 1) -> Messages]
      /\ Shown' \in [1 .. (Len(line') - 1) -> BOOLEAN]
      /\ \A i \in 1 .. (Len(line') - 1) : Queue'[i] = data'[line'[i + 1]]
      /\ \A i \in 1 .. (Len(line') - 1) : Shown'[i] = (next'[line'[i]] # NULL)
  BY SeenTypesNext
<1>b. Len(line') - 1 = k /\ k \in Nat /\ n = k + 1
  BY <1>1, <1>2
<1>4. /\ Queue' \in [1 .. k -> Messages] /\ Shown' \in [1 .. k -> BOOLEAN]
      /\ \A i \in 1 .. k : Queue'[i] = data[line'[i + 1]]
      /\ \A i \in 1 .. k : Shown'[i] = (next[line'[i]] # NULL)
  BY <1>0, <1>a, <1>b
<1>c. \A i \in 1 .. k : /\ i + 1 \in 1 .. n /\ line'[i] = line[i + 1]
                        /\ line'[i + 1] = line[(i + 1) + 1]
  BY <1>1, <1>2
<1>d. 1 \in 1 .. n
  BY <1>1
<1> HIDE DEF n, k
<1>5. Queue' = Tail(Queue) /\ Queue # <<>> /\ Head(Queue) = Queue[1]
  <2>1. \A i \in 1 .. k : Queue'[i] = Queue[i + 1]
    BY <1>3, <1>4, <1>c
  <2>2. Queue \in [1 .. (k + 1) -> Messages]
    BY <1>3, <1>b
  <2> QED BY <1>4, <1>b, <2>1, <2>2, TailIs
<1>6. Shown' = Tail(Shown)
  <2>1. ASSUME NEW i \in 1 .. k PROVE Shown'[i] = Shown[i + 1]
    <3>1. line'[i] = line[i + 1] /\ i + 1 \in 1 .. n
      BY <1>c
    <3>2. Shown'[i] = (next[line'[i]] # NULL) /\ Shown[i + 1] = (next[line[i + 1]] # NULL)
      BY <1>3, <1>4, <3>1, Zenon
    <3> QED BY <3>1, <3>2, Zenon
  <2>2. Shown \in [1 .. (k + 1) -> BOOLEAN]
    BY <1>3, <1>b
  <2> QED BY <1>4, <1>b, <2>1, <2>2, TailIs
<1>7. Shown[1]
  BY <1>1, <1>3, <1>d
<1>8. Taken' = <<Head(Queue)>>
  <2>1. Queue[1] = data[line[1 + 1]]
    BY <1>3, <1>d
  <2>2. Taken' = <<data[line[2]]>>
    <3>1. got' = line[2] /\ line[2] # NULL
      BY <1>0, <1>1 DEF IInv, LineInv
    <3> QED BY <1>0, <3>1 DEF Taken
  <2> QED BY <1>5, <2>1, <2>2
<1> QED BY <1>5, <1>6, <1>7, <1>8 DEF Fifo!Take, Queue, Shown, Taken

LEMMA GetHeadEmptyDrops ==
  ASSUME IInv, GetHeadEmpty
  PROVE  Fifo!Drop \/ UNCHANGED <<Queue, Shown, Taken>>
<1>1. got' = NULL /\ UNCHANGED <<next, data, line>>
  BY DEF GetHeadEmpty, queueVars
<1>2. UNCHANGED <<Queue, Shown>> /\ Taken' = <<>>
  BY <1>1 DEF Queue, Shown, Taken
<1>3. CASE Taken = <<>>
  BY <1>2, <1>3
<1>4. CASE Taken # <<>>
  BY <1>2, <1>4 DEF Fifo!Drop, Queue, Shown, Taken
<1> QED BY <1>3, <1>4

Unheard(t) ==
  \/ t \in Writers /\ ( \/ GetSpare(t) \/ PopLoad(t) \/ PopNext(t) \/ PopSwap(t)
                        \/ Construct(t) \/ Fill(t) \/ LoadTail(t) \/ CountEntered(t)
                        \/ ReturnElt(t) \/ (SwapTail(t) /\ data_tail # tail[t]) )
  \/ PushLoad(t) \/ PushCount(t) \/ PushSwap(t)
  \/ CountRemoved

LEMMA OthersUnseen ==
  ASSUME IInv, NEW t \in Threads, Unheard(t)
  PROVE  UNCHANGED <<Queue, Shown, Taken>>
<1>1. CASE t \in Writers /\ ( \/ GetSpare(t) \/ PopNext(t) \/ PopSwap(t) \/ LoadTail(t)
                              \/ CountEntered(t) \/ ReturnElt(t)
                              \/ SwapTail(t) /\ data_tail # tail[t] )
  <2>1. UNCHANGED <<line, got, next, data>>
    BY <1>1 DEF GetSpare, PopNext, PopSwap, LoadTail, CountEntered, ReturnElt, SwapTail, queueVars
  <2> QED BY <2>1, Unseen
<1>2. CASE PushLoad(t) \/ PushSwap(t) \/ CountRemoved
  <2>1. UNCHANGED <<line, got, next, data>>
    BY <1>2 DEF PushLoad, PushSwap, CountRemoved, queueVars
  <2> QED BY <2>1, Unseen
<1>3. CASE Construct(t) \/ Fill(t) \/ PushCount(t)
  <2>1. pc[t] \in HeldPc /\ UNCHANGED <<line, got>>
    BY <1>3 DEF Construct, Fill, PushCount, HeldPc, queueVars
  <2>2. \A i \in 1 .. Len(line) : line[i] \in Cells \ {cell[t]}
    BY <2>1, NotOwn
  <2>3. /\ next' = next \/ \E v : next' = [next EXCEPT ![cell[t]] = v]
        /\ data' = data \/ \E v : data' = [data EXCEPT ![cell[t]] = v]
    BY <1>3 DEF Construct, Fill, PushCount
  <2>4. next \in [Cells -> Ptr] /\ data \in [Cells -> Messages \cup {NoData}]
    BY DEF IInv, TypeOK
  <2>5. \A i \in 1 .. Len(line) : next'[line[i]] = next[line[i]]
    BY <2>2, <2>3, <2>4
  <2>6. \A i \in 1 .. Len(line) : data'[line[i]] = data[line[i]]
    BY <2>2, <2>3, <2>4
  <2> QED BY <2>1, <2>5, <2>6, Unseen
<1>4. CASE PopLoad(t)
  <2>1. /\ UNCHANGED <<line, got, data>>
        /\ next' = next \/ next' = [next EXCEPT ![heap + 1] = NULL]
    BY <1>4 DEF PopLoad, queueVars
  <2>2. next \in [Cells -> Ptr] /\ heap \in Nat
    BY DEF IInv, TypeOK, Cells
  <2>3. heap + 1 \notin InLine
    BY <2>2 DEF IInv, PlaceInv
  <2>4. \A i \in 1 .. Len(line) : line[i] \in Cells /\ line[i] # heap + 1
    BY <2>3, Sequences DEF IInv, InLine
  <2>5. \A i \in 1 .. Len(line) : next'[line[i]] = next[line[i]]
    BY <2>1, <2>2, <2>4
  <2> QED BY <2>1, <2>5, Unseen
<1> QED BY <1>1, <1>2, <1>3, <1>4 DEF Unheard

LEMMA FifoNext ==
  ASSUME IInv, IInv', [Next]_vars
  PROVE  [Fifo!Next]_<<Queue, Shown, Taken>>
<1>1. ASSUME NEW w \in Writers, WriterStep(w)
      PROVE  [Fifo!Next]_<<Queue, Shown, Taken>>
  <2>0. w \in Threads
    BY DEF Threads
  <2>1. CASE SwapTail(w) /\ data_tail = tail[w]
    <3>1. PICK m \in Messages : Fifo!Enter(m)
      BY <2>1, SwapTailEnters
    <3>2. Fifo!Next
      BY <3>1 DEF Fifo!Next
    <3> QED BY <3>2
  <2>2. CASE LinkTail(w)
    BY <2>2, LinkTailShows DEF Fifo!Next, Queue
  <2>3. CASE ~ LinkTail(w) /\ ~ (SwapTail(w) /\ data_tail = tail[w])
    <3>1. Unheard(w)
      BY <1>1, <2>3 DEF WriterStep, Unheard
    <3>2. UNCHANGED <<Queue, Shown, Taken>>
      BY <2>0, <3>1, OthersUnseen
    <3> QED BY <3>2
  <2> QED BY <2>1, <2>2, <2>3
<1>2. CASE ReaderStep
  <2>0. Reader \in Threads
    BY DEF Threads
  <2>1. CASE GetHead
    BY <2>1, GetHeadTakes DEF Fifo!Next
  <2>2. CASE GetHeadEmpty
    BY <2>2, GetHeadEmptyDrops DEF Fifo!Next
  <2>3. CASE ~ GetHead /\ ~ GetHeadEmpty
    <3>1. UNCHANGED <<Queue, Shown, Taken>>
      BY <1>2, <2>0, <2>3, OthersUnseen DEF ReaderStep, Unheard
    <3> QED BY <3>1
  <2> QED BY <2>1, <2>2, <2>3
<1>3. CASE UNCHANGED vars
  BY <1>3 DEF vars, Queue, Shown, Taken
<1> QED BY <1>1, <1>2, <1>3 DEF Next

(* Under the same condition the queue is first-in first-out: a successful  *)
(* swap of data_tail enters the message, the store to tmptail->next shows  *)
(* it, getHead() takes the front message once it is shown, and no other    *)
(* load, store or swap of any thread is seen by the users of the queue.    *)
THEOREM QueueIsFifo == Spec /\ []InTime => ImplementsFifo
<1>1. ASSUME IInv, IInv', [Next]_vars
      PROVE  [Fifo!Next]_(Fifo!fifoVars)
  BY <1>1, FifoNext DEF Fifo!fifoVars, Queue, Shown, Taken
<1> QED BY <1>1, FifoInit, InvariantHolds, PTL DEF Spec, ImplementsFifo, Fifo!Spec
=============================================================================
