------------------------ MODULE EntryTransportProofs ------------------------
(***************************************************************************)
(* Theorems about EntryTransport, for any number of packers, ends, writes  *)
(* and gaps, any size of a store and all circumstances named below.        *)
(***************************************************************************)
EXTENDS EntryTransport, FiniteSetTheorems, SequenceTheorems, FunctionTheorems,
        WellFoundedInduction, TLAPS

-----------------------------------------------------------------------------
(* The chain as a value.                                                   *)

Node == [seq : Nat, time : Nat, ra : Int]

\* the sequence id at position i of chain ch, or after the gap there
Num(ch, i) == IF ch[i].seq # 0 THEN ch[i].seq ELSE ch[i + 1].seq

\* times and sequence ids rise
Rising(ch) ==
  \A i, j \in 2 .. Len(ch) :
    i < j => ch[i].time < ch[j].time /\ (ch[i].seq # 0 => Num(ch, i) < Num(ch, j))

\* the sequence ids count the points
Counted(ch) ==
  \A i \in 2 .. (Len(ch) - 1) :
    Num(ch, i + 1) = IF ch[i].seq = 0 THEN Num(ch, i) ELSE Num(ch, i) + 1

\* a gap lies between two points of a stream
GapsApart(ev, ch) ==
  \A i \in 2 .. (Len(ch) - 1) :
    ch[i].seq = 0 => ch[i - 1].seq # 0 /\ ch[i + 1].seq # 0 /\ ~ev

\* every sequence id is there
Complete(ch) == \A s \in 1 .. ch[Len(ch)].seq : \E i \in 2 .. Len(ch) : ch[i].seq = s

\* the chain of an entry, ev: of events
IsChain(ev, ch) ==
  /\ ch \in Seq(Node)
  /\ Len(ch) >= 2
  /\ ch[1].seq = 0 /\ ch[2].seq = 1 /\ ch[Len(ch)].seq # 0
  /\ Rising(ch) /\ Counted(ch) /\ GapsApart(ev, ch) /\ Complete(ch)

\* where the writer is: the sentinel is the last point, or a gap is in hand
WriterAt(ch, lat, w, ws) ==
  /\ lat \in 2 .. Len(ch)
  /\ lat < Len(ch) => lat = Len(ch) - 1 /\ ch[lat].seq = 0 /\ w \in {"refresh", "publish"}
  /\ lat = Len(ch) => lat = 2 \/ ch[lat - 1].seq # 0
  /\ w \in {"refresh", "publish"} => ws = ch[Len(ch)].seq
  /\ w = "notify" => ws + 1 = ch[Len(ch)].seq

\* the same data, whatever the accesses
SameData(ch, ch2) ==
  /\ ch2 \in Seq(Node) /\ Len(ch2) = Len(ch)
  /\ \A i \in 1 .. Len(ch) : ch2[i].seq = ch[i].seq /\ ch2[i].time = ch[i].time

LEMMA Nodes ==
  ASSUME NEW ch \in Seq(Node)
  PROVE  /\ Len(ch) \in Nat /\ DOMAIN ch = 1 .. Len(ch)
         /\ \A i \in 1 .. Len(ch) : /\ ch[i] \in Node /\ ch[i].seq \in Nat
                                    /\ ch[i].time \in Nat /\ ch[i].ra \in Int
<1>1. Len(ch) \in Nat /\ DOMAIN ch = 1 .. Len(ch)
  BY LenProperties
<1>2. \A i \in 1 .. Len(ch) : ch[i] \in Node
  BY ElementOfSeq
<1>3. \A x \in Node : x.seq \in Nat /\ x.time \in Nat /\ x.ra \in Int
  BY DEF Node
<1> QED BY <1>1, <1>2, <1>3

LEMMA SameChain ==
  ASSUME NEW ev, NEW ch, NEW ch2, IsChain(ev, ch), SameData(ch, ch2)
  PROVE  /\ IsChain(ev, ch2)
         /\ \A i \in 2 .. Len(ch) : Num(ch2, i) = Num(ch, i)
<1>1. ch \in Seq(Node) /\ ch2 \in Seq(Node) /\ Len(ch2) = Len(ch) /\ Len(ch) >= 2
  BY DEF IsChain, SameData
<1>2. \A i \in 2 .. Len(ch) : Num(ch2, i) = Num(ch, i)
  <2> TAKE i \in 2 .. Len(ch)
  <2>1. CASE i = Len(ch)
    BY <1>1, <2>1, Nodes DEF Num, SameData, IsChain
  <2>2. CASE i < Len(ch)
    BY <1>1, <2>2, Nodes DEF Num, SameData, IsChain
  <2> QED BY <1>1, <2>1, <2>2
<1>3. ch2[1].seq = 0 /\ ch2[2].seq = 1 /\ ch2[Len(ch2)].seq # 0
  BY <1>1, Nodes DEF IsChain, SameData
<1>4. Rising(ch2)
  BY <1>1, <1>2, Nodes DEF IsChain, SameData, Rising
<1>5. Counted(ch2)
  BY <1>1, <1>2, Nodes DEF IsChain, SameData, Counted
<1>6. GapsApart(ev, ch2)
  <2>1. Len(ch) \in Nat
    BY <1>1, Nodes
  <2> SUFFICES ASSUME NEW i \in 2 .. (Len(ch) - 1), ch2[i].seq = 0
               PROVE  ch2[i - 1].seq # 0 /\ ch2[i + 1].seq # 0 /\ ~ev
    BY <1>1 DEF GapsApart
  <2>2. i \in 1 .. Len(ch) /\ i - 1 \in 1 .. Len(ch) /\ i + 1 \in 1 .. Len(ch)
    BY <2>1
  <2>3. ch[i].seq = 0
    BY <2>2 DEF SameData
  <2> QED BY <2>2, <2>3 DEF IsChain, SameData, GapsApart
<1>7. Complete(ch2)
  <2>1. Len(ch) \in Nat /\ ch2[Len(ch)].seq = ch[Len(ch)].seq
    BY <1>1, Nodes DEF SameData
  <2> SUFFICES ASSUME NEW s \in 1 .. ch[Len(ch)].seq
               PROVE  \E i \in 2 .. Len(ch) : ch2[i].seq = s
    BY <1>1, <2>1 DEF Complete
  <2>2. PICK i \in 2 .. Len(ch) : ch[i].seq = s
    BY DEF IsChain, Complete
  <2> QED BY <2>1, <2>2 DEF SameData
<1> QED BY <1>1, <1>2, <1>3, <1>4, <1>5, <1>6, <1>7 DEF IsChain

LEMMA SameWriter ==
  ASSUME NEW ev, NEW ch, NEW ch2, IsChain(ev, ch), SameData(ch, ch2),
         NEW lat, NEW w, NEW ws, WriterAt(ch, lat, w, ws)
  PROVE  WriterAt(ch2, lat, w, ws)
BY Nodes DEF WriterAt, SameData, IsChain

\* what the definitions of the chain say of one position
LEMMA AtPosition ==
  ASSUME NEW ev, NEW ch, IsChain(ev, ch), NEW i \in 2 .. Len(ch)
  PROVE  /\ Num(ch, i) \in Nat /\ Num(ch, i) >= 1 /\ Num(ch, i) <= ch[Len(ch)].seq
         /\ ch[i].seq = 0 => i > 2 /\ i < Len(ch) /\ ch[i - 1].seq # 0 /\ ~ev
                             /\ ch[i + 1].seq # 0 /\ ch[i + 1].seq = Num(ch, i) /\ Num(ch, i + 1) = Num(ch, i)
         /\ ch[i].seq # 0 => ch[i].seq = Num(ch, i)
         /\ (ch[i].seq # 0 /\ i < Len(ch)) => Num(ch, i + 1) = Num(ch, i) + 1
<1>1. ch \in Seq(Node) /\ Len(ch) \in Nat /\ Len(ch) >= 2 /\ ch[2].seq = 1 /\ ch[Len(ch)].seq # 0
  BY Nodes DEF IsChain
<1>2. ch[i].seq = 0 => i > 2 /\ i < Len(ch) /\ ch[i - 1].seq # 0 /\ ~ev
                       /\ ch[i + 1].seq # 0 /\ ch[i + 1].seq = Num(ch, i) /\ Num(ch, i + 1) = Num(ch, i)
  BY <1>1, Nodes DEF IsChain, GapsApart, Num
<1>3. Num(ch, i) \in Nat
  <2>1. ch[i].seq = 0 => i + 1 \in 1 .. Len(ch)
    BY <1>1, <1>2
  <2> QED BY <1>1, <2>1, Nodes DEF Num
<1>4. (ch[i].seq # 0 /\ i < Len(ch)) => Num(ch, i + 1) = Num(ch, i) + 1
  BY <1>1 DEF IsChain, Counted
<1>5. Num(ch, i) >= 1 /\ Num(ch, i) <= ch[Len(ch)].seq
  <2>1. CASE ch[i].seq # 0 /\ i < Len(ch)
    <3>1. ch[i].seq < Num(ch, Len(ch))
      BY <1>1, <2>1 DEF IsChain, Rising, Num
    <3> QED BY <1>1, <2>1, <3>1, Nodes DEF Num
  <2>2. CASE i = Len(ch)
    BY <1>1, <1>3, <2>2, Nodes DEF Num
  <2>3. CASE ch[i].seq = 0
    <3>1. i + 1 \in 2 .. Len(ch) /\ ch[i + 1].seq # 0 /\ Num(ch, i) = ch[i + 1].seq
      BY <1>1, <1>2, <2>3, Nodes DEF IsChain, GapsApart
    <3>2. CASE i + 1 = Len(ch)
      BY <1>1, <1>3, <3>1, <3>2
    <3>3. CASE i + 1 < Len(ch)
      <4>1. ch[i + 1].seq < Num(ch, Len(ch))
        BY <1>1, <3>1, <3>3 DEF IsChain, Rising, Num
      <4>2. Num(ch, Len(ch)) = ch[Len(ch)].seq /\ ch[Len(ch)].seq \in Nat
        BY <1>1, Nodes DEF Num
      <4> QED BY <1>1, <1>3, <3>1, <4>1, <4>2
    <3> QED BY <1>1, <3>1, <3>2, <3>3
  <2> QED BY <1>1, <2>1, <2>2, <2>3
<1> QED BY <1>2, <1>3, <1>4, <1>5 DEF Num

LEMMA NumRises ==
  ASSUME NEW ev, NEW ch, IsChain(ev, ch), NEW i \in 2 .. Len(ch), NEW j \in 2 .. Len(ch), i <= j
  PROVE  /\ Num(ch, i) <= Num(ch, j)
         /\ (ch[i].seq # 0 /\ i < j) => Num(ch, i) < Num(ch, j)
<1>1. ch \in Seq(Node) /\ Len(ch) \in Nat
  BY Nodes DEF IsChain
<1>2. Num(ch, i) \in Nat /\ Num(ch, j) \in Nat
  BY AtPosition
<1>3. (ch[i].seq # 0 /\ i < j) => Num(ch, i) < Num(ch, j)
  BY DEF IsChain, Rising
<1>4. CASE ch[i].seq = 0 /\ i < j
  <2>1. i + 1 \in 2 .. Len(ch) /\ ch[i + 1].seq # 0 /\ Num(ch, i) = ch[i + 1].seq
    BY <1>1, <1>4, AtPosition
  <2>2. i + 1 < j => Num(ch, i + 1) < Num(ch, j)
    BY <1>1, <2>1 DEF IsChain, Rising
  <2> QED BY <1>1, <1>2, <1>4, <2>1, <2>2 DEF Num
<1> QED BY <1>1, <1>2, <1>3, <1>4

\* the chain with one more node
LEMMA Longer ==
  ASSUME NEW ch \in Seq(Node), NEW x \in Node
  PROVE  /\ Append(ch, x) \in Seq(Node) /\ Len(Append(ch, x)) = Len(ch) + 1
         /\ \A i \in 1 .. Len(ch) : Append(ch, x)[i] = ch[i]
         /\ Append(ch, x)[Len(ch) + 1] = x
BY AppendProperties

LEMMA FreshNode ==
  ASSUME NEW s \in Nat, NEW t \in Nat
  PROVE  /\ Fresh(s, t) \in Node
         /\ Fresh(s, t).seq = s /\ Fresh(s, t).time = t /\ Fresh(s, t).ra = 1
BY DEF Fresh, Node

\* the new sentinel: the sequence id after the last one, a later time
LEMMA PublishChain ==
  ASSUME NEW ev, NEW ch, IsChain(ev, ch)
  PROVE  LET ch2 == Append(ch, Fresh(ch[Len(ch)].seq + 1, ch[Len(ch)].time + 1)) IN
         /\ IsChain(ev, ch2)
         /\ \A i \in 2 .. Len(ch) : Num(ch2, i) = Num(ch, i)
<1> DEFINE n == Len(ch)
           ch2 == Append(ch, Fresh(ch[n].seq + 1, ch[n].time + 1))
<1>1. /\ ch \in Seq(Node) /\ n \in Nat /\ n >= 2 /\ ch[1].seq = 0 /\ ch[2].seq = 1 /\ ch[n].seq # 0
      /\ \A i \in 1 .. n : ch[i].seq \in Nat /\ ch[i].time \in Nat
  BY Nodes DEF IsChain
<1>2. Fresh(ch[n].seq + 1, ch[n].time + 1) \in Node
  BY <1>1, FreshNode
<1>3. /\ ch2 \in Seq(Node) /\ Len(ch2) = n + 1
      /\ \A i \in 1 .. n : ch2[i] = ch[i]
      /\ ch2[n + 1].seq = ch[n].seq + 1 /\ ch2[n + 1].time = ch[n].time + 1
  BY <1>1, <1>2, Longer, FreshNode
<1> HIDE DEF ch2, n
<1>4. \A i \in 2 .. n : Num(ch2, i) = Num(ch, i)
  <2> TAKE i \in 2 .. n
  <2>1. ch[i].seq = 0 => i + 1 \in 1 .. n
    BY AtPosition, <1>1 DEF n
  <2> QED BY <1>1, <1>3, <2>1 DEF Num
<1>5. Num(ch2, n + 1) = ch[n].seq + 1 /\ Num(ch, n) = ch[n].seq
  BY <1>1, <1>3 DEF Num
<1>6. Rising(ch2)
  <2> SUFFICES ASSUME NEW i \in 2 .. (n + 1), NEW j \in 2 .. (n + 1), i < j
               PROVE  ch2[i].time < ch2[j].time /\ (ch2[i].seq # 0 => Num(ch2, i) < Num(ch2, j))
    BY <1>3 DEF Rising
  <2>1. i \in 2 .. n /\ ch2[i] = ch[i] /\ Num(ch2, i) = Num(ch, i)
    BY <1>1, <1>3, <1>4
  <2>2. CASE j \in 2 .. n
    <3>1. ch[i].time < ch[j].time /\ (ch[i].seq # 0 => Num(ch, i) < Num(ch, j))
      BY <2>1, <2>2 DEF IsChain, Rising, n
    <3>2. ch2[j] = ch[j] /\ Num(ch2, j) = Num(ch, j)
      BY <1>1, <1>3, <1>4, <2>2
    <3> QED BY <2>1, <3>1, <3>2
  <2>3. CASE j = n + 1
    <3>0. n \in 2 .. n /\ (i < n => ch[i].time < ch[n].time)
      BY <1>1, <2>1 DEF IsChain, Rising, n
    <3>1. ch[i].time <= ch[n].time
      BY <1>1, <2>1, <3>0
    <3>2. Num(ch, i) <= Num(ch, n) /\ Num(ch, i) \in Nat
      BY <1>1, <2>1, NumRises, AtPosition DEF n
    <3>3. n \in 1 .. n /\ ch[n].time \in Nat /\ ch[n].seq \in Nat /\ i \in 1 .. n /\ ch[i].time \in Nat
      BY <1>1, <2>1
    <3>4. ch2[j].time = ch[n].time + 1 /\ Num(ch2, j) = Num(ch, n) + 1 /\ Num(ch, n) \in Nat
      BY <1>3, <1>5, <2>3, <3>3
    <3> QED BY <2>1, <3>1, <3>2, <3>3, <3>4
  <2> QED BY <1>1, <2>2, <2>3
<1>7. Counted(ch2)
  <2> SUFFICES ASSUME NEW i \in 2 .. n
               PROVE  Num(ch2, i + 1) = IF ch2[i].seq = 0 THEN Num(ch2, i) ELSE Num(ch2, i) + 1
    BY <1>1, <1>3 DEF Counted
  <2>1. CASE i = n
    BY <1>1, <1>3, <1>4, <1>5, <2>1
  <2>2. CASE i < n
    <3>1. i \in 2 .. (n - 1) /\ i + 1 \in 2 .. n
      BY <1>1, <2>2
    <3>2. Num(ch, i + 1) = IF ch[i].seq = 0 THEN Num(ch, i) ELSE Num(ch, i) + 1
      BY <3>1 DEF IsChain, Counted, n
    <3>3. Num(ch2, i) = Num(ch, i) /\ Num(ch2, i + 1) = Num(ch, i + 1) /\ ch2[i] = ch[i]
      BY <1>1, <1>3, <1>4, <3>1
    <3> QED BY <3>2, <3>3
  <2> QED BY <1>1, <2>1, <2>2
<1>8. GapsApart(ev, ch2)
  <2>9. (Len(ch2) - 1) = n
    BY <1>1, <1>3
  <2> SUFFICES ASSUME NEW i \in 2 .. n, ch2[i].seq = 0
               PROVE  ch2[i - 1].seq # 0 /\ ch2[i + 1].seq # 0 /\ ~ev
    BY <2>9 DEF GapsApart
  <2>0. i \in 1 .. n /\ ch[i].seq = 0
    BY <1>1, <1>3
  <2>1. i < n /\ ch[i].seq = 0 /\ i - 1 \in 1 .. n /\ i + 1 \in 1 .. n
    BY <1>1, <2>0
  <2>2. ch[i - 1].seq # 0 /\ ch[i + 1].seq # 0 /\ ~ev
    BY <1>1, <2>1 DEF IsChain, GapsApart, n
  <2> QED BY <1>3, <2>1, <2>2
<1>9. Complete(ch2)
  <2> SUFFICES ASSUME NEW s \in 1 .. (ch[n].seq + 1)
               PROVE  \E i \in 2 .. (n + 1) : ch2[i].seq = s
    BY <1>1, <1>3 DEF Complete
  <2>1. CASE s = ch[n].seq + 1
    BY <1>1, <1>3, <2>1
  <2>2. CASE s \in 1 .. ch[n].seq
    <3>1. PICK i \in 2 .. n : ch[i].seq = s
      BY <2>2 DEF IsChain, Complete, n
    <3> QED BY <1>1, <1>3, <3>1
  <2> QED BY <1>1, <2>1, <2>2
<1>10. ch2[1].seq = 0 /\ ch2[2].seq = 1 /\ ch2[Len(ch2)].seq # 0 /\ Len(ch2) >= 2
  BY <1>1, <1>3
<1>11. IsChain(ev, ch2)
  BY <1>3, <1>6, <1>7, <1>8, <1>9, <1>10 DEF IsChain
<1> QED BY <1>4, <1>11 DEF ch2, n

\* the sentinel becomes a gap, and a new node after it holds the data
LEMMA GapChain ==
  ASSUME NEW ch, IsChain(FALSE, ch), NEW jump \in Nat, jump > 0, ch[Len(ch)].seq # 1,
         ch[Len(ch) - 1].seq # 0
  PROVE  LET ch2 == Append([ch EXCEPT ![Len(ch)].seq = 0],
                           Fresh(ch[Len(ch)].seq, ch[Len(ch)].time + jump)) IN
         /\ IsChain(FALSE, ch2) /\ Len(ch2) = Len(ch) + 1
         /\ \A i \in 1 .. Len(ch) :
              /\ ch2[i].time = ch[i].time /\ ch2[i].ra = ch[i].ra
              /\ i # Len(ch) => ch2[i].seq = ch[i].seq
         /\ ch2[Len(ch)].seq = 0 /\ ch2[Len(ch) + 1].ra = 1
         /\ ch2[Len(ch) + 1].seq = ch[Len(ch)].seq
         /\ \A i \in 2 .. Len(ch) : Num(ch2, i) = Num(ch, i)
<1> DEFINE n == Len(ch)
           d == [ch EXCEPT ![n].seq = 0]
           ch2 == Append(d, Fresh(ch[n].seq, ch[n].time + jump))
<1>1. /\ ch \in Seq(Node) /\ n \in Nat /\ n > 2 /\ ch[1].seq = 0 /\ ch[2].seq = 1 /\ ch[n].seq # 0
      /\ \A i \in 1 .. n : ch[i].seq \in Nat /\ ch[i].time \in Nat /\ ch[i].ra \in Int /\ ch[i] \in Node
  BY Nodes DEF IsChain
<1>2. /\ Fresh(ch[n].seq, ch[n].time + jump) \in Node
      /\ Fresh(ch[n].seq, ch[n].time + jump).seq = ch[n].seq
      /\ Fresh(ch[n].seq, ch[n].time + jump).time = ch[n].time + jump
      /\ Fresh(ch[n].seq, ch[n].time + jump).ra = 1
  <2>1. ch[n].seq \in Nat /\ ch[n].time + jump \in Nat
    BY <1>1
  <2> QED BY <2>1, FreshNode
<1>3. [ch[n] EXCEPT !.seq = 0] \in Node /\ d = [ch EXCEPT ![n] = [ch[n] EXCEPT !.seq = 0]]
      /\ [ch[n] EXCEPT !.seq = 0].seq = 0 /\ [ch[n] EXCEPT !.seq = 0].time = ch[n].time
      /\ [ch[n] EXCEPT !.seq = 0].ra = ch[n].ra
  <2>1. ch[n] \in Node
    BY <1>1
  <2> QED BY <2>1 DEF Node
<1>4. /\ d \in Seq(Node) /\ Len(d) = n
      /\ \A i \in 1 .. n : d[i] = IF i = n THEN [ch[n] EXCEPT !.seq = 0] ELSE ch[i]
  <2> HIDE DEF d
  <2>1. n \in 1 .. Len(ch)
    BY <1>1
  <2> QED BY <1>1, <1>3, <2>1, ExceptSeq
<1> HIDE DEF d
<1>5. /\ ch2 \in Seq(Node) /\ Len(ch2) = n + 1
      /\ \A i \in 1 .. n : ch2[i] = d[i]
      /\ ch2[n + 1].seq = ch[n].seq /\ ch2[n + 1].time = ch[n].time + jump /\ ch2[n + 1].ra = 1
  BY <1>1, <1>2, <1>4, Longer
<1> HIDE DEF ch2, n
<1>6. /\ \A i \in 1 .. n : /\ ch2[i].time = ch[i].time /\ ch2[i].ra = ch[i].ra
                           /\ i # n => ch2[i].seq = ch[i].seq
      /\ ch2[n].seq = 0
  <2>1. n \in 1 .. n
    BY <1>1
  <2>2. \A i \in 1 .. n : ch2[i] = IF i = n THEN [ch[n] EXCEPT !.seq = 0] ELSE ch[i]
    BY <1>4, <1>5
  <2> QED BY <1>3, <2>1, <2>2
<1>7. \A i \in 2 .. n : Num(ch2, i) = Num(ch, i)
  <2> TAKE i \in 2 .. n
  <2>1. CASE i = n
    BY <1>1, <1>5, <1>6, <2>1 DEF Num
  <2>2. CASE i < n
    <3>1. i + 1 \in 1 .. n /\ (ch[i].seq = 0 => i + 1 # n)
      <4>1. ASSUME ch[i].seq = 0 PROVE i + 1 # n
        BY <1>1, <4>1 DEF n
      <4> QED BY <1>1, <2>2, <4>1
    <3> QED BY <1>1, <1>5, <1>6, <2>2, <3>1 DEF Num
  <2> QED BY <1>1, <2>1, <2>2
<1>8. Num(ch2, n + 1) = ch[n].seq /\ Num(ch, n) = ch[n].seq
  BY <1>1, <1>5 DEF Num
<1>9. Rising(ch2)
  <2> SUFFICES ASSUME NEW i \in 2 .. (n + 1), NEW j \in 2 .. (n + 1), i < j
               PROVE  ch2[i].time < ch2[j].time /\ (ch2[i].seq # 0 => Num(ch2, i) < Num(ch2, j))
    BY <1>5 DEF Rising
  <2>1. i \in 2 .. n /\ ch2[i].time = ch[i].time /\ Num(ch2, i) = Num(ch, i)
        /\ (i # n => ch2[i].seq = ch[i].seq)
    BY <1>1, <1>6, <1>7
  <2>2. CASE j \in 2 .. n
    BY <1>1, <1>6, <1>7, <2>1, <2>2 DEF IsChain, Rising, n
  <2>3. CASE j = n + 1
    <3>1. ch[i].time <= ch[n].time
      BY <1>1, <2>1 DEF IsChain, Rising, n
    <3>2. (i # n /\ ch[i].seq # 0) => Num(ch, i) < Num(ch, n)
      BY <1>1, <2>1 DEF IsChain, Rising, n
    <3>3. ch2[i].time < ch2[j].time
      BY <1>1, <1>5, <2>1, <2>3, <3>1
    <3>4. ch2[i].seq # 0 => i # n /\ ch[i].seq # 0
      BY <1>6, <2>1
    <3> QED BY <1>8, <2>1, <2>3, <3>2, <3>3, <3>4
  <2> QED BY <1>1, <2>2, <2>3
<1>10. Counted(ch2)
  <2> SUFFICES ASSUME NEW i \in 2 .. n
               PROVE  Num(ch2, i + 1) = IF ch2[i].seq = 0 THEN Num(ch2, i) ELSE Num(ch2, i) + 1
    BY <1>1, <1>5 DEF Counted
  <2>1. CASE i = n
    BY <1>1, <1>6, <1>7, <1>8, <2>1
  <2>2. CASE i < n
    BY <1>1, <1>6, <1>7, <2>2 DEF IsChain, Counted, n
  <2> QED BY <1>1, <2>1, <2>2
<1>11. GapsApart(FALSE, ch2)
  <2>0. (Len(ch2) - 1) = n
    BY <1>1, <1>5
  <2> SUFFICES ASSUME NEW i \in 2 .. n, ch2[i].seq = 0
               PROVE  ch2[i - 1].seq # 0 /\ ch2[i + 1].seq # 0
    BY <2>0 DEF GapsApart
  <2>1. CASE i = n
    <3>1. n - 1 \in 1 .. n /\ ch[n - 1].seq # 0
      BY <1>1 DEF n
    <3> QED BY <1>1, <1>5, <1>6, <2>1, <3>1
  <2>2. CASE i # n
    <3>1. ch[i].seq = 0 /\ i - 1 \in 1 .. n /\ i + 1 \in 1 .. n /\ i \in 2 .. (n - 1)
      <4>1. i \in 1 .. n /\ i - 1 \in 1 .. n /\ i + 1 \in 1 .. n /\ i \in 2 .. (n - 1)
        BY <1>1, <2>2
      <4> QED BY <1>6, <2>2, <4>1
    <3>2. i + 1 # n
      BY <1>1, <3>1 DEF n
    <3>3. ch[i - 1].seq # 0 /\ ch[i + 1].seq # 0
      BY <3>1 DEF IsChain, GapsApart, n
    <3> QED BY <1>1, <1>6, <3>1, <3>2, <3>3
  <2> QED BY <2>1, <2>2
<1>12. Complete(ch2)
  <2> SUFFICES ASSUME NEW s \in 1 .. ch[n].seq
               PROVE  \E i \in 2 .. (n + 1) : ch2[i].seq = s
    BY <1>1, <1>5 DEF Complete
  <2>1. PICK i \in 2 .. n : ch[i].seq = s
    BY DEF IsChain, Complete, n
  <2>2. CASE i = n
    BY <1>1, <1>5, <2>1, <2>2
  <2>3. CASE i # n
    BY <1>1, <1>6, <2>1, <2>3
  <2> QED BY <2>2, <2>3
<1>13. ch2[1].seq = 0 /\ ch2[2].seq = 1 /\ ch2[Len(ch2)].seq # 0 /\ Len(ch2) >= 2
  BY <1>1, <1>5, <1>6
<1>14. IsChain(FALSE, ch2)
  BY <1>5, <1>9, <1>10, <1>11, <1>12, <1>13 DEF IsChain
<1> QED BY <1>5, <1>6, <1>7, <1>14 DEF ch2, d, n

\* the data in the sentinel, at a later time
LEMMA LateChain ==
  ASSUME NEW ev, NEW ch, IsChain(ev, ch), NEW jump \in Nat
  PROVE  LET ch2 == [ch EXCEPT ![Len(ch)].time = ch[Len(ch)].time + jump] IN
         /\ IsChain(ev, ch2) /\ Len(ch2) = Len(ch)
         /\ \A i \in 1 .. Len(ch) :
              /\ ch2[i].seq = ch[i].seq /\ ch2[i].ra = ch[i].ra
              /\ (i # Len(ch) \/ jump = 0) => ch2[i].time = ch[i].time
         /\ \A i \in 2 .. Len(ch) : Num(ch2, i) = Num(ch, i)
<1> DEFINE n == Len(ch)
           x == [ch[n] EXCEPT !.time = ch[n].time + jump]
           ch2 == [ch EXCEPT ![n].time = ch[n].time + jump]
<1>1. /\ ch \in Seq(Node) /\ n \in Nat /\ n >= 2 /\ ch[1].seq = 0 /\ ch[2].seq = 1 /\ ch[n].seq # 0
      /\ \A i \in 1 .. n : ch[i].seq \in Nat /\ ch[i].time \in Nat /\ ch[i].ra \in Int /\ ch[i] \in Node
  BY Nodes DEF IsChain
<1>2. /\ x \in Node /\ ch2 = [ch EXCEPT ![n] = x]
      /\ x.time = ch[n].time + jump /\ x.seq = ch[n].seq /\ x.ra = ch[n].ra
  <2>1. ch[n] \in Node /\ ch[n].time + jump \in Nat
    BY <1>1
  <2> QED BY <2>1 DEF Node
<1>3. /\ ch2 \in Seq(Node) /\ Len(ch2) = n
      /\ \A i \in 1 .. n : ch2[i] = IF i = n THEN x ELSE ch[i]
  <2> HIDE DEF ch2, x
  <2>1. n \in 1 .. Len(ch)
    BY <1>1
  <2> QED BY <1>1, <1>2, <2>1, ExceptSeq
<1> HIDE DEF ch2, n, x
<1>4. /\ \A i \in 1 .. n : /\ ch2[i].seq = ch[i].seq /\ ch2[i].ra = ch[i].ra
                           /\ (i # n \/ jump = 0) => ch2[i].time = ch[i].time
      /\ ch2[n].time = ch[n].time + jump
  BY <1>1, <1>2, <1>3
<1>5. \A i \in 2 .. n : Num(ch2, i) = Num(ch, i)
  <2> TAKE i \in 2 .. n
  <2>1. ch[i].seq = 0 => i + 1 \in 1 .. n
    BY <1>1, AtPosition DEF n
  <2> QED BY <1>1, <1>4, <2>1 DEF Num
<1>6. Rising(ch2)
  <2> SUFFICES ASSUME NEW i \in 2 .. n, NEW j \in 2 .. n, i < j
               PROVE  ch2[i].time < ch2[j].time /\ (ch2[i].seq # 0 => Num(ch2, i) < Num(ch2, j))
    BY <1>3 DEF Rising
  <2>1. ch[i].time < ch[j].time /\ (ch[i].seq # 0 => Num(ch, i) < Num(ch, j))
    BY DEF IsChain, Rising, n
  <2>2. ch2[i].time = ch[i].time /\ (ch2[j].time = ch[j].time \/ ch2[j].time = ch[j].time + jump)
    BY <1>1, <1>4
  <2> QED BY <1>1, <1>4, <1>5, <2>1, <2>2
<1>7. Counted(ch2)
  BY <1>1, <1>3, <1>4, <1>5 DEF IsChain, Counted, n
<1>8. GapsApart(ev, ch2)
  <2> SUFFICES ASSUME NEW i \in 2 .. (n - 1), ch2[i].seq = 0
               PROVE  ch2[i - 1].seq # 0 /\ ch2[i + 1].seq # 0 /\ ~ev
    BY <1>1, <1>3 DEF GapsApart
  <2>1. ch[i].seq = 0 /\ i - 1 \in 1 .. n /\ i + 1 \in 1 .. n
    BY <1>1, <1>4
  <2> QED BY <1>4, <2>1 DEF IsChain, GapsApart, n
<1>9. Complete(ch2)
  <2> SUFFICES ASSUME NEW s \in 1 .. ch[n].seq
               PROVE  \E i \in 2 .. n : ch2[i].seq = s
    BY <1>1, <1>3, <1>4 DEF Complete
  <2>1. PICK i \in 2 .. n : ch[i].seq = s
    BY DEF IsChain, Complete, n
  <2>2. i \in 1 .. n
    BY <1>1
  <2>3. ch2[i].seq = s
    BY <1>4, <2>1, <2>2
  <2> QED BY <2>3
<1>10. ch2[1].seq = 0 /\ ch2[2].seq = 1 /\ ch2[Len(ch2)].seq # 0 /\ Len(ch2) >= 2
  BY <1>1, <1>3, <1>4
<1>11. IsChain(ev, ch2)
  BY <1>3, <1>6, <1>7, <1>8, <1>9, <1>10 DEF IsChain
<1> QED BY <1>3, <1>4, <1>5, <1>11 DEF ch2, n

\* the chain ch2 is ch with the sentinel jump later
Later(ev, ch, ch2, jump) ==
  /\ IsChain(ev, ch2) /\ Len(ch2) = Len(ch)
  /\ \A i \in 1 .. Len(ch) :
       /\ ch2[i].seq = ch[i].seq /\ ch2[i].ra = ch[i].ra
       /\ (i # Len(ch) \/ jump = 0) => ch2[i].time = ch[i].time
  /\ \A i \in 2 .. Len(ch) : Num(ch2, i) = Num(ch, i)

LEMMA LaterChain ==
  ASSUME NEW ev, NEW ch, IsChain(ev, ch), NEW jump \in Nat,
         NEW ch2, ch2 = [ch EXCEPT ![Len(ch)].time = ch[Len(ch)].time + jump]
  PROVE  Later(ev, ch, ch2, jump)
<1>1. Later(ev, ch, [ch EXCEPT ![Len(ch)].time = ch[Len(ch)].time + jump], jump)
  BY LateChain, Zenon DEF Later
<1> QED BY <1>1, Zenon

-----------------------------------------------------------------------------
(* Numbers.                                                                *)

LEMMA MaxIs ==
  ASSUME NEW S, NEW m \in S, S \subseteq Int, \A x \in S : x <= m
  PROVE  Max(S) = m
<1>1. \A x \in S : (\A y \in S : x >= y) => x = m
  OBVIOUS
<1>2. m \in S /\ \A y \in S : m >= y
  OBVIOUS
<1> QED BY <1>1, <1>2, Zenon DEF Max

LEMMA LessThan ==
  \E R : IsWellFoundedOn(R, Nat) /\ \A x, y \in Nat : x < y => <<x, y>> \in R
<1>1. \A x, y \in Nat : x < y => <<x, y>> \in OpToRel(<, Nat)
  BY DEF OpToRel
<1> QED BY <1>1, NatLessThanWellFounded, Zenon

\* a bounded set of numbers has a largest element
LEMMA LargestThere ==
  ASSUME NEW n \in Nat, NEW S, S \subseteq 0 .. n, S # {}
  PROVE  Max(S) \in S /\ \A x \in S : x <= Max(S)
<1> DEFINE B == {c \in Nat : \E x \in S : c = n - x}
<1>1. B \subseteq Nat /\ B # {}
  <2>1. PICK x \in S : TRUE
    OBVIOUS
  <2>2. n - x \in B
    BY <2>1
  <2> QED BY <2>2
<1>2. PICK R : IsWellFoundedOn(R, Nat) /\ \A x, y \in Nat : x < y => <<x, y>> \in R
  BY LessThan, Zenon
<1>3. PICK b \in B : \A c \in B : ~ (<<c, b>> \in R)
  <2>1. IsWellFoundedOn(R, Nat)
    BY <1>2
  <2> HIDE DEF B
  <2> QED BY <1>1, <2>1, WFMin
<1>4. PICK m \in S : b = n - m
  OBVIOUS
<1>5. \A x \in S : x <= m
  <2> TAKE x \in S
  <2>1. n - x \in B
    OBVIOUS
  <2>2. ~ (n - x < n - m)
    <3> HIDE DEF B
    <3> QED BY <1>1, <1>2, <1>3, <1>4, <2>1
  <2> QED BY <2>2
<1>6. Max(S) = m
  <2>1. S \subseteq Int
    OBVIOUS
  <2> QED BY <1>5, <2>1, MaxIs
<1> QED BY <1>5, <1>6

\* the positions with a point in a .. b
Pts(ch, a, b) == {k \in a .. b : ch[k].seq # 0}

LEMMA PointsCounted ==
  ASSUME NEW ev, NEW ch, IsChain(ev, ch), NEW a \in 2 .. Len(ch), NEW b \in Nat,
         a <= b + 1, b + 1 <= Len(ch)
  PROVE  /\ IsFiniteSet(Pts(ch, a, b))
         /\ Cardinality(Pts(ch, a, b)) = Num(ch, b + 1) - Num(ch, a)
         /\ \A s \in Num(ch, a) .. (Num(ch, b + 1) - 1) : \E k \in Pts(ch, a, b) : ch[k].seq = s
<1> DEFINE P == Pts(ch, a, b)
           lo == Num(ch, a)
           hi == Num(ch, b + 1)
           f == [k \in P |-> ch[k].seq]
<1>1. ch \in Seq(Node) /\ Len(ch) \in Nat /\ b + 1 \in 2 .. Len(ch)
      /\ \A k \in 1 .. Len(ch) : ch[k].seq \in Nat
  BY Nodes DEF IsChain
<1>2. lo \in Nat /\ hi \in Nat /\ 1 <= lo /\ lo <= hi /\ hi <= ch[Len(ch)].seq
  BY <1>1, AtPosition, NumRises
<1>3. \A k \in P : k \in 2 .. Len(ch) /\ a <= k /\ k <= b /\ ch[k].seq # 0 /\ ch[k].seq = Num(ch, k)
  BY <1>1 DEF Pts, Num
<1>4. IsFiniteSet(P)
  <2>1. P \subseteq a .. b /\ a \in Int /\ b \in Int
    BY DEF Pts
  <2> QED BY <2>1, FS_Interval, FS_Subset
<1>5. \A k \in P : ch[k].seq \in lo .. (hi - 1)
  <2> TAKE k \in P
  <2>1. lo <= Num(ch, k) /\ Num(ch, k) < hi
    BY <1>1, <1>3, NumRises
  <2> QED BY <1>1, <1>2, <1>3, <2>1
<1>6. ASSUME NEW s \in lo .. (hi - 1)
      PROVE  \E k \in P : ch[k].seq = s
  <2>1. s \in 1 .. ch[Len(ch)].seq
    BY <1>1, <1>2
  <2>2. PICK k \in 2 .. Len(ch) : ch[k].seq = s
    BY <2>1 DEF IsChain, Complete
  <2>3. ch[k].seq # 0 /\ Num(ch, k) = s
    BY <1>2, <2>2 DEF Num
  <2>4. ~(k < a)
    <3>1. k < a => Num(ch, k) < lo
      BY <2>3, NumRises, <1>1
    <3> QED BY <1>2, <2>3, <3>1
  <2>5. ~(b + 1 <= k)
    <3>1. b + 1 <= k => hi <= Num(ch, k)
      BY NumRises, <1>1
    <3> QED BY <1>2, <2>3, <3>1
  <2>6. k \in P
    BY <1>1, <2>3, <2>4, <2>5 DEF Pts
  <2> QED BY <2>2, <2>6
<1>7. \A k, h \in P : ch[k].seq = ch[h].seq => k = h
  <2> SUFFICES ASSUME NEW k \in P, NEW h \in P, ch[k].seq = ch[h].seq, k < h
               PROVE  FALSE
    BY <1>3
  <2>1. Num(ch, k) < Num(ch, h)
    BY <1>1, <1>3, NumRises
  <2> QED BY <1>1, <1>3, <2>1
<1>8. f \in Bijection(P, lo .. (hi - 1))
  <2> HIDE DEF P, lo, hi
  <2>1. f \in [P -> lo .. (hi - 1)]
    BY <1>5
  <2>2. f \in Injection(P, lo .. (hi - 1))
    BY <2>1, <1>7 DEF Injection, IsInjective
  <2>3. f \in Surjection(P, lo .. (hi - 1))
    BY <2>1, <1>6 DEF Surjection
  <2> QED BY <2>2, <2>3 DEF Bijection
<1>9. Cardinality(lo .. (hi - 1)) = Cardinality(P)
  BY <1>4, <1>8, FS_Bijection DEF ExistsBijection
<1>10. Cardinality(P) = hi - lo
  <2>1. lo \in Int /\ hi - 1 \in Int
    BY <1>2
  <2> HIDE DEF lo, hi, P
  <2>2. Cardinality(lo .. (hi - 1)) = IF lo > hi - 1 THEN 0 ELSE (hi - 1) - lo + 1
    BY <2>1, FS_Interval
  <2> QED BY <1>2, <1>9, <2>2
<1> QED BY <1>4, <1>6, <1>10

\* the sequence ids from a to before b
Ids(a, b) == [k \in 1 .. (b - a) |-> a + k - 1]

LEMMA IdsSeq ==
  ASSUME NEW a \in Nat, NEW b \in Nat, a <= b
  PROVE  Ids(a, b) \in Seq(Nat) /\ Len(Ids(a, b)) = b - a /\ (Ids(a, b) = <<>> <=> a = b)
<1>1. Ids(a, b) \in Seq(Nat) /\ Len(Ids(a, b)) = b - a
  BY DEF Ids
<1> QED BY <1>1, EmptySeq

LEMMA IdsAppend ==
  ASSUME NEW a \in Nat, NEW b \in Nat, a <= b
  PROVE  Append(Ids(a, b), b) = Ids(a, b + 1)
<1>1. Ids(a, b) \in Seq(Nat) /\ Len(Ids(a, b)) = b - a
      /\ Ids(a, b + 1) \in Seq(Nat) /\ Len(Ids(a, b + 1)) = b + 1 - a
  <2>1. PICK c \in Nat : c = b + 1
    OBVIOUS
  <2>2. Ids(a, c) \in Seq(Nat) /\ Len(Ids(a, c)) = c - a
    BY <2>1, IdsSeq
  <2>3. Ids(a, b) \in Seq(Nat) /\ Len(Ids(a, b)) = b - a
    BY IdsSeq, Zenon
  <2> QED BY <2>1, <2>2, <2>3
<1>2. /\ Append(Ids(a, b), b) \in Seq(Nat) /\ Len(Append(Ids(a, b), b)) = b - a + 1
      /\ \A i \in 1 .. (b - a) : Append(Ids(a, b), b)[i] = Ids(a, b)[i]
      /\ Append(Ids(a, b), b)[b - a + 1] = b
  BY <1>1, AppendProperties
<1>3. \A i \in 1 .. (b - a + 1) : Append(Ids(a, b), b)[i] = Ids(a, b + 1)[i]
  BY <1>2 DEF Ids
<1> QED BY <1>1, <1>2, <1>3, SeqEqual

LEMMA IdsTail ==
  ASSUME NEW a \in Nat, NEW b \in Nat, a < b
  PROVE  Head(Ids(a, b)) = a /\ Tail(Ids(a, b)) = Ids(a + 1, b)
<1>1. Ids(a, b) \in Seq(Nat) /\ Len(Ids(a, b)) = b - a /\ Ids(a, b) # <<>>
      /\ Ids(a + 1, b) \in Seq(Nat) /\ Len(Ids(a + 1, b)) = b - a - 1
  <2>1. a + 1 \in Nat /\ a + 1 <= b /\ a <= b /\ a # b /\ b - (a + 1) = b - a - 1
    OBVIOUS
  <2> QED BY <2>1, IdsSeq, Zenon
<1>2. /\ Tail(Ids(a, b)) \in Seq(Nat) /\ Len(Tail(Ids(a, b))) = b - a - 1
      /\ \A i \in 1 .. (b - a - 1) : Tail(Ids(a, b))[i] = Ids(a, b)[i + 1]
      /\ Head(Ids(a, b)) = Ids(a, b)[1]
  BY <1>1, HeadTailProperties
<1>3. \A i \in 1 .. (b - a - 1) : Tail(Ids(a, b))[i] = Ids(a + 1, b)[i]
  BY <1>2 DEF Ids
<1>4. Head(Ids(a, b)) = a
  BY <1>2 DEF Ids
<1> QED BY <1>1, <1>2, <1>3, <1>4, SeqEqual

\* the work for a packer that begins at position i
LEMMA PointsAreIds ==
  ASSUME NEW ev, IsChain(ev, chain), latest \in 2 .. Len(chain), NEW i \in 2 .. latest
  PROVE  PointsFrom(i) = Ids(Num(chain, i), Num(chain, latest))
<1> DEFINE lo == Num(chain, i)
           hi == Num(chain, latest)
           S == {k \in i .. (latest - 1) : chain[k].seq # 0}
           Nth(n) == CHOOSE k \in S : Cardinality({h \in S : h <= k}) = n
<1>1. Len(chain) \in Nat /\ i \in 2 .. Len(chain) /\ latest \in 2 .. Len(chain) /\ i <= latest
      /\ latest - 1 \in Nat /\ (latest - 1) + 1 = latest /\ i <= (latest - 1) + 1
      /\ latest \in Nat /\ i \in Nat
  BY Nodes DEF IsChain
<1>2. lo \in Nat /\ hi \in Nat /\ lo <= hi
  BY <1>1, AtPosition, NumRises
<1>3. S = Pts(chain, i, latest - 1)
  BY DEF Pts
<1>4. /\ Cardinality(S) = hi - lo
      /\ \A s \in lo .. (hi - 1) : \E k \in S : chain[k].seq = s
  <2> HIDE DEF S
  <2>1. PICK b : b = latest - 1
    OBVIOUS
  <2>2. b \in Nat /\ b + 1 = latest /\ i <= b + 1 /\ b + 1 <= Len(chain)
    BY <1>1, <2>1
  <2>3. /\ Cardinality(Pts(chain, i, b)) = Num(chain, b + 1) - lo
        /\ \A s \in lo .. (Num(chain, b + 1) - 1) : \E k \in Pts(chain, i, b) : chain[k].seq = s
    BY <1>1, <2>2, PointsCounted
  <2> QED BY <1>3, <2>1, <2>2, <2>3
<1>5. \A k \in S : /\ k \in Nat /\ i <= k /\ k + 1 <= latest
                   /\ k \in 2 .. Len(chain) /\ k + 1 <= Len(chain) /\ chain[k].seq # 0
                   /\ {h \in S : h <= k} = Pts(chain, i, k)
  BY <1>1 DEF Pts
<1>6. \A k \in S : Cardinality({h \in S : h <= k}) = chain[k].seq + 1 - lo
  <2> TAKE k \in S
  <2> HIDE DEF S
  <2>0. i <= k + 1
    BY <1>1, <1>5
  <2>1. Cardinality(Pts(chain, i, k)) = Num(chain, k + 1) - lo
    BY <1>1, <1>5, <2>0, PointsCounted
  <2>2. k < Len(chain)
    BY <1>1, <1>5
  <2>3. Num(chain, k + 1) = chain[k].seq + 1
    BY <1>5, <2>2, AtPosition
  <2>4. {h \in S : h <= k} = Pts(chain, i, k)
    BY <1>5
  <2>5. Cardinality({h \in S : h <= k}) = Num(chain, k + 1) - lo
    BY <2>1, <2>4, Zenon
  <2>6. Num(chain, k + 1) - lo = chain[k].seq + 1 - lo
    <3>1. chain[k].seq \in Nat
      BY <1>5, Nodes DEF IsChain
    <3> HIDE DEF lo
    <3> QED BY <1>2, <2>3, <3>1
  <2> QED BY <2>5, <2>6, Zenon
<1>7. \A n \in 1 .. (hi - lo) : chain[Nth(n)].seq = lo + n - 1
  <2> TAKE n \in 1 .. (hi - lo)
  <2> HIDE DEF S
  <2>1. PICK k \in S : chain[k].seq = lo + n - 1
    BY <1>2, <1>4
  <2>2. Cardinality({h \in S : h <= k}) = n
    BY <1>2, <1>6, <2>1
  <2>3. Nth(n) \in S /\ Cardinality({h \in S : h <= Nth(n)}) = n
    BY <2>2, Zenon
  <2>4. chain[Nth(n)].seq \in Nat
    <3> HIDE DEF Nth
    <3> QED BY <1>5, <2>3, Nodes DEF IsChain
  <2>5. PICK m \in S : m = Nth(n)
    BY <2>3
  <2> HIDE DEF Nth, lo, hi
  <2>6. Cardinality({h \in S : h <= m}) = n /\ chain[m].seq \in Nat
    BY <2>3, <2>4, <2>5
  <2>7. n = chain[m].seq + 1 - lo
    BY <1>6, <2>6
  <2>8. chain[m].seq = lo + n - 1
    BY <1>2, <2>6, <2>7
  <2> QED BY <2>5, <2>8
<1>8. PointsFrom(i) = [n \in 1 .. Cardinality(S) |-> chain[Nth(n)].seq]
  BY DEF PointsFrom
<1> HIDE DEF S, Nth, lo, hi
<1>9. PointsFrom(i) = [n \in 1 .. (hi - lo) |-> chain[Nth(n)].seq]
  BY <1>4, <1>8
<1>10. PointsFrom(i) = [n \in 1 .. (hi - lo) |-> lo + n - 1]
  BY <1>7, <1>9
<1> QED BY <1>10 DEF Ids, lo, hi

-----------------------------------------------------------------------------
(* The types of the variables, and what holds in all circumstances.        *)

Msg == [full : BOOLEAN, jump : Nat \cup {None}, entry : Nat, base : Nat \cup {None}, end : Nat]
Rec == [seq : Nat, start : Nat, end : Nat]
WriterPlaces == {"idle", "refresh", "publish", "notify"}
PackerPlaces == {"idle", "access", "pack", "complete"}
EndStates == {"absent", "open", "caching", "configured"}

TypesNow ==
  /\ setup \in Setups
  /\ wpc \in WriterPlaces /\ wseq \in Nat
  /\ valid \in BOOLEAN /\ stale \in BOOLEAN /\ refreshDue \in BOOLEAN
  /\ transporters \subseteq Packers /\ IsFiniteSet(transporters)
  /\ pclients \in [DOMAIN pclients -> Client] /\ DOMAIN pclients \subseteq transporters
  /\ queue \in [Packers -> Seq(Nat)]
  /\ ppc \in [Packers -> PackerPlaces] /\ copy \in [Packers -> Client]
  /\ store \in [Packers -> Seq(Msg)] /\ choked \in [Packers -> BOOLEAN]
  /\ inbox \in [Ends -> Seq(Msg)] /\ cached \in [Ends -> Seq(Msg)]
  /\ end \in [Ends -> EndStates] /\ got \in [Ends -> Seq(Rec)]
  /\ \A e \in Ends : end[e] = "caching" => cached[e] # <<>>

ChainNow ==
  /\ IsChain(setup.event, chain) /\ WriterAt(chain, latest, wpc, wseq)
  /\ cleanup \in 1 .. (Len(chain) + 1) /\ oldest \in 2 .. latest

\* a client is at the point its packer is at work on
ClientAt(ch, lat, c, w) ==
  /\ c.index \in 2 .. lat
  /\ w \in {"idle", "access"} => c.accessed = None
  /\ w \in {"pack", "complete"} => c.accessed = c.index /\ c.index < lat /\ ch[c.index].seq # 0

ClientsNow ==
  /\ \A p \in DOMAIN pclients : ClientAt(chain, latest, pclients[p], ppc[p])
  /\ \A p \in Packers \ DOMAIN pclients : ppc[p] = "idle" /\ store[p] = <<>>

\* the clients at position i
At(pc, i) == {p \in DOMAIN pc : pc[p].index = i}

\* the accesses of the points are those of the clients and the chain's own
Hold(ch, cl, old, pc) ==
  /\ cl < old
  /\ \A p \in DOMAIN pc : old <= pc[p].index
  /\ \A i \in 1 .. Len(ch) : ch[i].ra = IF i < cl THEN 0 ELSE 1 + Cardinality(At(pc, i))

HoldNow == valid => Hold(chain, cleanup, oldest, pclients)

\* a packer is at work because it has work
BusyNow == \A p \in Packers : ppc[p] # "idle" => queue[p] # <<>>

BaseInv == TypesNow /\ ChainNow /\ ClientsNow /\ HoldNow /\ BusyNow

\* what a step leaves of the chain: the published points with their spans, and the count
Kept(ev, ch, ch2) ==
  /\ Len(ch) <= Len(ch2)
  /\ \A i \in 1 .. (Len(ch) - 1) : ch2[i].seq = ch[i].seq /\ ch2[i].time = ch[i].time
  /\ ~ev => \A i \in 3 .. Len(ch) : ch2[i].time = ch[i].time
  /\ \A i \in 2 .. Len(ch) : Num(ch2, i) = Num(ch, i)

LEMMA SetupTyped ==
  ASSUME setup \in Setups
  PROVE  /\ setup.via \in [Ends -> Packers] /\ setup.ends \subseteq Ends
         /\ setup.fill \subseteq Packers
         /\ setup.event \in BOOLEAN /\ setup.full \in BOOLEAN /\ setup.huge \subseteq Nat
         /\ setup.removable \in BOOLEAN
BY SetupAssumption

LEMMA SameKept ==
  ASSUME NEW ev, NEW ch, NEW ch2, IsChain(ev, ch), SameData(ch, ch2)
  PROVE  Kept(ev, ch, ch2) /\ IsChain(ev, ch2)
<1>1. Len(ch) \in Nat
  BY Nodes DEF IsChain
<1>2. IsChain(ev, ch2) /\ \A i \in 2 .. Len(ch) : Num(ch2, i) = Num(ch, i)
  BY SameChain
<1>3. /\ Len(ch) <= Len(ch2)
      /\ \A i \in 1 .. Len(ch) : ch2[i].seq = ch[i].seq /\ ch2[i].time = ch[i].time
  BY <1>1 DEF SameData
<1> QED BY <1>1, <1>2, <1>3 DEF Kept

\* facts about the chain used everywhere
LEMMA ChainFacts ==
  ASSUME TypesNow, ChainNow
  PROVE  /\ chain \in Seq(Node) /\ Len(chain) \in Nat /\ Len(chain) >= 2
         /\ latest \in 2 .. Len(chain) /\ latest \in Nat
         /\ cleanup \in Nat /\ cleanup >= 1 /\ cleanup <= Len(chain) + 1
         /\ oldest \in Nat /\ oldest \in 2 .. latest /\ oldest >= 2 /\ oldest <= latest
         /\ DOMAIN chain = 1 .. Len(chain)
         /\ \A i \in 1 .. Len(chain) : /\ chain[i] \in Node /\ chain[i].seq \in Nat
                                       /\ chain[i].time \in Nat /\ chain[i].ra \in Int
         /\ wpc \in {"idle", "notify"} => latest = Len(chain) /\ chain[latest].seq # 0
         /\ setup.event \in BOOLEAN
<1>1. chain \in Seq(Node) /\ Len(chain) >= 2 /\ chain[Len(chain)].seq # 0
  BY DEF ChainNow, IsChain
<1>2. Len(chain) \in Nat
  BY <1>1, Nodes
<1>3. latest \in 2 .. Len(chain) /\ (wpc \in {"idle", "notify"} => latest = Len(chain))
  BY <1>1, <1>2 DEF ChainNow, WriterAt
<1>4. setup.event \in BOOLEAN
  BY SetupTyped DEF TypesNow
<1> QED BY <1>1, <1>2, <1>3, <1>4, Nodes DEF ChainNow

\* deleting stops before a point that is in use
LEMMA RecycledIs ==
  ASSUME cleanup \in Nat, NEW stop \in Nat, cleanup <= stop
  PROVE  /\ Recycled(stop) \in cleanup .. stop
         /\ \A i \in cleanup .. (Recycled(stop) - 1) : chain[i].ra = 1
<1> DEFINE S == {c \in cleanup .. stop : \A i \in cleanup .. (c - 1) : chain[i].ra = 1}
<1>1. cleanup \in S /\ S \subseteq 0 .. stop
  OBVIOUS
<1>2. Max(S) \in S
  <2> HIDE DEF S
  <2> QED BY <1>1, LargestThere
<1>3. Recycled(stop) = Max(S)
  BY DEF Recycled
<1> QED BY <1>2, <1>3

LEMMA ShiftedIs ==
  ASSUME oldest \in Nat, latest \in Nat, oldest <= latest, NEW start
  PROVE  /\ ShiftedOldest(start) \in oldest .. latest
         /\ \A i \in oldest .. (ShiftedOldest(start) - 1) : chain[i].ra = 1
<1> DEFINE S == {o \in oldest .. latest :
                   \A i \in oldest .. (o - 1) :
                     /\ Obsolete(i, start)
                     /\ chain[latest].seq - chain[i].seq > Depth}
<1>1. oldest \in S /\ S \subseteq 0 .. latest
  OBVIOUS
<1>2. Max(S) \in S
  <2> HIDE DEF S
  <2> QED BY <1>1, LargestThere
<1>3. ShiftedOldest(start) = Max(S)
  BY DEF ShiftedOldest
<1> QED BY <1>2, <1>3 DEF Obsolete

\* the chain with other accesses
LEMMA OtherAccesses ==
  ASSUME NEW ev, NEW ch, IsChain(ev, ch), NEW ch2, DOMAIN ch2 = DOMAIN ch,
         ch2 = [i \in DOMAIN ch |-> ch2[i]],
         \A i \in DOMAIN ch : \E r \in Int : ch2[i] = [ch[i] EXCEPT !.ra = r]
  PROVE  SameData(ch, ch2)
<1>1. ch \in Seq(Node) /\ Len(ch) \in Nat /\ DOMAIN ch = 1 .. Len(ch)
      /\ \A i \in 1 .. Len(ch) : ch[i] \in Node
  BY Nodes DEF IsChain
<1>3. \A i \in 1 .. Len(ch) : /\ ch2[i] \in Node /\ ch2[i].seq = ch[i].seq
                              /\ ch2[i].time = ch[i].time
  <2> TAKE i \in 1 .. Len(ch)
  <2>1. PICK r \in Int : ch2[i] = [ch[i] EXCEPT !.ra = r]
    BY <1>1
  <2>2. PICK x \in Node : x = ch[i]
    BY <1>1
  <2>3. ch2[i] = [x EXCEPT !.ra = r]
    BY <2>1, <2>2
  <2>4. [x EXCEPT !.ra = r] \in Node /\ [x EXCEPT !.ra = r].seq = x.seq
        /\ [x EXCEPT !.ra = r].time = x.time
    BY DEF Node
  <2> QED BY <2>2, <2>3, <2>4
<1>4. ch2 \in [1 .. Len(ch) -> Node]
  BY <1>1, <1>3
<1>5. ch2 \in Seq(Node) /\ Len(ch2) = Len(ch)
  BY <1>1, <1>4
<1> QED BY <1>3, <1>5 DEF SameData

\* the effect of newData() up to the refresh
NewDataDone(jump) ==
  /\ IsChain(setup.event, chain') /\ Kept(setup.event, chain, chain')
  /\ latest' = latest /\ latest = Len(chain) /\ wpc' = "refresh" /\ wseq' \in Nat
  /\ WriterAt(chain', latest, "refresh", wseq')
  /\ cleanup' \in cleanup .. (oldest - 1) /\ oldest' \in oldest .. latest
  /\ \A i \in cleanup .. (cleanup' - 1) : chain[i].ra = 1
  /\ \A i \in oldest .. (oldest' - 1) : chain[i].ra = 1
  /\ \A i \in 1 .. Len(chain) :
       chain'[i].ra = IF i \in cleanup .. (cleanup' - 1) THEN 0 ELSE chain[i].ra
  /\ Len(chain') # Len(chain) => Len(chain') = Len(chain) + 1 /\ chain'[Len(chain) + 1].ra = 1

LEMMA NewDataDoes ==
  ASSUME TypesNow, ChainNow, HoldNow, NEW jump \in 0 .. 1, NewData(jump)
  PROVE  NewDataDone(jump)
<1> DEFINE n == Len(chain)
           start == chain[latest].time + jump
           gap == ~EventType /\ jump > 0 /\ chain[latest].seq # 1
           seq == chain[latest].seq
           filled == IF gap
                     THEN Append([chain EXCEPT ![latest].seq = 0], Fresh(seq, start))
                     ELSE [chain EXCEPT ![latest].time = start]
           Used0(i) == i \in cleanup .. (cleanup' - 1)
<1>1. /\ valid /\ wpc = "idle" /\ wpc' = "refresh" /\ wseq' = seq /\ latest' = latest
      /\ cleanup' = Recycled(oldest - 1) /\ oldest' = ShiftedOldest(start)
      /\ chain' = [i \in DOMAIN filled |->
                     IF i \in cleanup .. (cleanup' - 1)
                     THEN [filled[i] EXCEPT !.ra = 0] ELSE filled[i]]
  BY DEF NewData
<1>2. /\ chain \in Seq(Node) /\ n \in Nat /\ n >= 2 /\ latest = n /\ chain[n].seq # 0
      /\ oldest \in Nat /\ oldest >= 2 /\ oldest <= n /\ cleanup \in Nat /\ cleanup >= 1
      /\ \A i \in 1 .. n : /\ chain[i] \in Node /\ chain[i].seq \in Nat
                           /\ chain[i].time \in Nat /\ chain[i].ra \in Int
      /\ setup.event \in BOOLEAN
  BY <1>1, ChainFacts
<1>3. cleanup < oldest
  BY <1>1 DEF HoldNow, Hold
<1>4. cleanup' \in cleanup .. (oldest - 1) /\ \A i \in cleanup .. (cleanup' - 1) : chain[i].ra = 1
  <2>1. oldest - 1 \in Nat /\ cleanup \in Nat /\ cleanup <= oldest - 1 /\ cleanup' = Recycled(oldest - 1)
    BY <1>1, <1>2, <1>3
  <2> QED BY <2>1, RecycledIs
<1>5. oldest' \in oldest .. latest /\ \A i \in oldest .. (oldest' - 1) : chain[i].ra = 1
  BY <1>1, <1>2, ShiftedIs
<1>6. IsChain(setup.event, chain) /\ (latest = 2 \/ chain[latest - 1].seq # 0)
  BY <1>1, <1>2 DEF ChainNow, WriterAt
<1> DEFINE Filled ==
             /\ IsChain(setup.event, filled) /\ Kept(setup.event, chain, filled)
             /\ WriterAt(filled, latest, "refresh", seq)
             /\ \A i \in 1 .. n : filled[i].ra = chain[i].ra
             /\ Len(filled) # n => Len(filled) = n + 1 /\ filled[n + 1].ra = 1
<1>7. ASSUME gap PROVE Filled
  <2>1. setup.event = FALSE
    BY <1>2, <1>7 DEF EventType
  <2>2. n > 2 /\ chain[n].seq # 1 /\ chain[n - 1].seq # 0
    <3>1. chain[2].seq = 1
      BY <1>6 DEF IsChain
    <3>2. chain[n].seq # 1 /\ n # 2
      BY <1>2, <1>7, <3>1
    <3>3. chain[n - 1].seq # 0
      BY <1>2, <1>6, <3>2
    <3> QED BY <1>2, <3>2, <3>3
  <2>3. filled = Append([chain EXCEPT ![n].seq = 0], Fresh(chain[n].seq, chain[n].time + jump))
    BY <1>2, <1>7
  <2> HIDE DEF filled
  <2>4. jump \in Nat /\ jump > 0 /\ IsChain(FALSE, chain)
    <3>1. IsChain(FALSE, chain)
      BY <1>6, <2>1, Zenon
    <3>2. jump \in Nat /\ jump > 0
      BY <1>7
    <3> QED BY <3>1, <3>2, Zenon
  <2>5. /\ IsChain(FALSE, filled) /\ Len(filled) = n + 1
        /\ \A i \in 1 .. n : /\ filled[i].time = chain[i].time /\ filled[i].ra = chain[i].ra
                             /\ i # n => filled[i].seq = chain[i].seq
        /\ filled[n].seq = 0 /\ filled[n + 1].ra = 1 /\ filled[n + 1].seq = chain[n].seq
        /\ \A i \in 2 .. n : Num(filled, i) = Num(chain, i)
    BY <2>2, <2>3, <2>4, GapChain
  <2>6. Kept(setup.event, chain, filled)
    BY <1>2, <2>5 DEF Kept
  <2>7. WriterAt(filled, latest, "refresh", seq)
    BY <1>2, <2>5 DEF WriterAt
  <2>8. IsChain(setup.event, filled)
    BY <2>1, <2>5, Zenon
  <2> QED BY <2>5, <2>6, <2>7, <2>8
<1>8. ASSUME ~gap PROVE Filled
  <2>1. filled = [chain EXCEPT ![n].time = chain[n].time + jump]
    BY <1>2, <1>8
  <2> HIDE DEF filled
  <2>2. jump \in Nat
    OBVIOUS
  <2>3. /\ IsChain(setup.event, filled) /\ Len(filled) = n
        /\ \A i \in 1 .. n :
             /\ filled[i].seq = chain[i].seq /\ filled[i].ra = chain[i].ra
             /\ (i # n \/ jump = 0) => filled[i].time = chain[i].time
        /\ \A i \in 2 .. n : Num(filled, i) = Num(chain, i)
    <3>1. IsChain(setup.event, chain) /\ filled = [chain EXCEPT ![Len(chain)].time = chain[Len(chain)].time + jump]
      BY <1>6, <2>1
    <3> HIDE DEF n
    <3>2. Later(setup.event, chain, filled, jump)
      BY <2>2, <3>1, LaterChain
    <3> QED BY <3>2 DEF n, Later
  <2>4. ~setup.event => \A i \in 3 .. n : filled[i].time = chain[i].time
    <3> SUFFICES ASSUME ~setup.event, NEW i \in 3 .. n PROVE filled[i].time = chain[i].time
      OBVIOUS
    <3>1. CASE i = n
      <4>1. Num(chain, 2) < Num(chain, n) /\ Num(chain, 2) = 1 /\ Num(chain, n) = chain[n].seq
        BY <1>2, <1>6, <3>1 DEF IsChain, Rising, Num
      <4>2. chain[n].seq # 1
        BY <1>2, <4>1
      <4>3. jump = 0
        BY <1>2, <1>8, <4>2 DEF EventType
      <4> QED BY <2>3, <3>1, <4>3, <1>2
    <3>2. CASE i # n
      BY <1>2, <2>3, <3>2
    <3> QED BY <3>1, <3>2
  <2>5. Kept(setup.event, chain, filled)
    BY <1>2, <2>3, <2>4 DEF Kept
  <2>6. WriterAt(filled, latest, "refresh", seq)
    BY <1>2, <1>6, <2>3 DEF WriterAt
  <2> QED BY <2>3, <2>5, <2>6
<1>9. Filled
  BY <1>7, <1>8
<1> HIDE DEF filled
<1>10. SameData(filled, chain')
  <2>1. DOMAIN chain' = DOMAIN filled /\ chain' = [i \in DOMAIN filled |-> chain'[i]]
    BY <1>1
  <2>2. DOMAIN filled = 1 .. Len(filled) /\ \A i \in 1 .. Len(filled) : filled[i] \in Node
    BY <1>9, Nodes DEF IsChain
  <2>3. \A x \in Node : [x EXCEPT !.ra = x.ra] = x /\ x.ra \in Int
    BY DEF Node
  <2>4. \A i \in DOMAIN filled : \E r \in Int : chain'[i] = [filled[i] EXCEPT !.ra = r]
    <3> TAKE i \in DOMAIN filled
    <3>1. CASE Used0(i)
      <4>1. chain'[i] = [filled[i] EXCEPT !.ra = 0]
        BY <1>1, <3>1
      <4> QED BY <4>1
    <3>2. CASE ~Used0(i)
      <4>1. chain'[i] = filled[i]
        BY <1>1, <3>2
      <4> QED BY <2>2, <2>3, <4>1
    <3> QED BY <3>1, <3>2
  <2> HIDE DEF Filled
  <2>5. IsChain(setup.event, filled)
    BY <1>9 DEF Filled
  <2> QED BY <2>1, <2>4, <2>5, OtherAccesses
<1>11. IsChain(setup.event, chain') /\ WriterAt(chain', latest, "refresh", seq)
       /\ Kept(setup.event, filled, chain')
  BY <1>9, <1>10, SameKept, SameWriter
<1>12. Len(chain') = Len(filled) /\ Len(chain') \in Nat /\ n <= Len(filled)
       /\ DOMAIN filled = 1 .. Len(filled) /\ \A i \in 1 .. Len(filled) : filled[i] \in Node
  BY <1>9, <1>10, Nodes DEF SameData, Kept, IsChain
<1>13. Kept(setup.event, chain, chain')
  BY <1>2, <1>9, <1>10, <1>11, <1>12 DEF Kept, SameData
<1>14. \A i \in 1 .. Len(filled) : chain'[i].ra = IF Used0(i) THEN 0 ELSE filled[i].ra
  <2> TAKE i \in 1 .. Len(filled)
  <2>1. [filled[i] EXCEPT !.ra = 0].ra = 0
    BY <1>12 DEF Node
  <2> QED BY <1>1, <1>12, <2>1
<1>15. \A i \in 1 .. n : chain'[i].ra = IF Used0(i) THEN 0 ELSE chain[i].ra
  BY <1>2, <1>9, <1>12, <1>14
<1>16. Len(chain') # n => Len(chain') = n + 1 /\ chain'[n + 1].ra = 1
  <2>1. ~Used0(n + 1)
    BY <1>2, <1>4
  <2> QED BY <1>2, <1>9, <1>12, <1>14, <2>1
<1>17. seq \in Nat
  BY <1>2
<1> HIDE DEF Filled, seq, gap, start
<1> QED BY <1>1, <1>2, <1>4, <1>5, <1>11, <1>13, <1>15, <1>16, <1>17 DEF NewDataDone

-----------------------------------------------------------------------------
(* The counts of accesses.                                                 *)

LEMMA AtFinite ==
  ASSUME NEW pc, IsFiniteSet(DOMAIN pc), NEW i
  PROVE  /\ IsFiniteSet(At(pc, i)) /\ Cardinality(At(pc, i)) \in Nat
         /\ At(pc, i) = {} => Cardinality(At(pc, i)) = 0
         /\ \A p \in At(pc, i) : Cardinality(At(pc, i)) >= 1
<1>1. IsFiniteSet(At(pc, i))
  BY FS_Subset DEF At
<1>2. Cardinality(At(pc, i)) \in Nat
  BY <1>1, FS_CardinalityType
<1>3. Cardinality(At(pc, i)) = 0 <=> At(pc, i) = {}
  BY <1>1, FS_EmptySet
<1> QED BY <1>1, <1>2, <1>3

LEMMA ClientsFinite ==
  ASSUME TypesNow
  PROVE  IsFiniteSet(DOMAIN pclients)
BY FS_Subset DEF TypesNow

\* one client moves
OneMoved(pc, pc2, i, j) ==
  /\ Cardinality(At(pc2, j)) = Cardinality(At(pc, j)) + 1
  /\ Cardinality(At(pc2, i)) = Cardinality(At(pc, i)) - 1
  /\ \A k : (k # i /\ k # j) => At(pc2, k) = At(pc, k)

LEMMA AtMoved ==
  ASSUME NEW pc, IsFiniteSet(DOMAIN pc), NEW p \in DOMAIN pc, NEW c, NEW i, NEW j,
         pc[p].index = i, c.index = j, i # j
  PROVE  OneMoved(pc, [pc EXCEPT ![p] = c], i, j)
<1> DEFINE pc2 == [pc EXCEPT ![p] = c]
<1>1. DOMAIN pc2 = DOMAIN pc /\ pc2[p] = c /\ \A q \in DOMAIN pc \ {p} : pc2[q] = pc[q]
  OBVIOUS
<1> HIDE DEF pc2
<1>2. At(pc2, j) = At(pc, j) \cup {p} /\ p \notin At(pc, j)
  BY <1>1 DEF At
<1>3. At(pc2, i) = At(pc, i) \ {p} /\ p \in At(pc, i)
  BY <1>1 DEF At
<1>4. \A k : (k # i /\ k # j) => At(pc2, k) = At(pc, k)
  BY <1>1 DEF At
<1>5. IsFiniteSet(At(pc, i)) /\ IsFiniteSet(At(pc, j))
  BY AtFinite
<1>6. Cardinality(At(pc2, j)) = Cardinality(At(pc, j)) + 1
  BY <1>2, <1>5, FS_AddElement
<1>7. Cardinality(At(pc2, i)) = Cardinality(At(pc, i)) - 1
  BY <1>3, <1>5, FS_RemoveElement
<1> QED BY <1>4, <1>6, <1>7 DEF pc2, OneMoved

LEMMA AtSame ==
  ASSUME NEW pc, NEW p \in DOMAIN pc, NEW c, c.index = pc[p].index, NEW k
  PROVE  At([pc EXCEPT ![p] = c], k) = At(pc, k)
BY DEF At

-----------------------------------------------------------------------------
(* The steps keep what holds in all circumstances.                         *)

LEMMA NewDataBase ==
  ASSUME BaseInv, NEW jump \in 0 .. 1, NewData(jump), UNCHANGED setup
  PROVE  BaseInv' /\ Kept(setup.event, chain, chain')
<1>1. /\ UNCHANGED <<configVars, packVars, endVars, fault>> /\ valid
  BY DEF NewData
<1>2. NewDataDone(jump)
  BY NewDataDoes DEF BaseInv
<1>3. /\ chain \in Seq(Node) /\ Len(chain) \in Nat /\ Len(chain) >= 2 /\ latest = Len(chain)
      /\ cleanup \in Nat /\ cleanup >= 1 /\ oldest \in Nat /\ oldest >= 2 /\ oldest <= latest
      /\ \A i \in 1 .. Len(chain) : chain[i].ra \in Int
  BY <1>2, ChainFacts DEF BaseInv, NewDataDone
<1>4. chain' \in Seq(Node) /\ Len(chain') \in Nat /\ Len(chain) <= Len(chain')
  BY <1>2, Nodes DEF NewDataDone, IsChain, Kept
<1>5. TypesNow'
  BY <1>1, <1>2 DEF BaseInv, TypesNow, configVars, packVars, endVars, NewDataDone, WriterPlaces
<1>6. ChainNow'
  <2>1. cleanup' \in 1 .. (Len(chain') + 1) /\ oldest' \in 2 .. latest'
    BY <1>2, <1>3, <1>4 DEF NewDataDone
  <2> QED BY <1>2, <2>1 DEF NewDataDone, ChainNow
<1>7. ClientsNow'
  <2> SUFFICES ASSUME NEW p \in DOMAIN pclients
               PROVE  ClientAt(chain', latest, pclients[p], ppc[p])
    BY <1>1, <1>2 DEF BaseInv, ClientsNow, packVars, NewDataDone
  <2>1. ClientAt(chain, latest, pclients[p], ppc[p])
    BY DEF BaseInv, ClientsNow
  <2>2. \A i \in 1 .. (Len(chain) - 1) : chain'[i].seq = chain[i].seq
    BY <1>2 DEF NewDataDone, Kept
  <2>3. pclients[p].index \in 2 .. latest
        /\ (pclients[p].index < latest => chain'[pclients[p].index].seq = chain[pclients[p].index].seq)
    BY <1>3, <2>1, <2>2 DEF ClientAt
  <2> QED BY <2>1, <2>3 DEF ClientAt
<1>8. HoldNow'
  <2>1. /\ cleanup < oldest /\ \A p \in DOMAIN pclients : oldest <= pclients[p].index
        /\ \A i \in 1 .. Len(chain) :
             chain[i].ra = IF i < cleanup THEN 0 ELSE 1 + Cardinality(At(pclients, i))
    BY <1>1 DEF BaseInv, HoldNow, Hold
  <2>2. IsFiniteSet(DOMAIN pclients)
    BY ClientsFinite DEF BaseInv
  <2>3. \A p \in DOMAIN pclients : pclients[p].index \in 2 .. latest
    BY DEF BaseInv, ClientsNow, ClientAt
  <2>4. ASSUME NEW p \in DOMAIN pclients PROVE oldest' <= pclients[p].index
    <3>1. PICK i \in 2 .. latest : i = pclients[p].index
      BY <2>3
    <3>2. Cardinality(At(pclients, i)) \in Nat /\ Cardinality(At(pclients, i)) >= 1
      BY <2>2, <3>1, AtFinite DEF At
    <3>3. chain[i].ra # 1
      BY <1>3, <2>1, <3>1, <3>2
    <3>4. oldest <= i
      BY <2>1, <3>1
    <3>5. oldest' \in oldest .. latest /\ \A k \in oldest .. (oldest' - 1) : chain[k].ra = 1
      BY <1>2 DEF NewDataDone
    <3>6. PICK o \in Int : o = oldest'
      BY <1>3, <3>5
    <3>7. ASSUME i <= o - 1 PROVE FALSE
      <4>1. i \in oldest .. (o - 1)
        BY <1>3, <3>4, <3>7
      <4>2. i \in oldest .. (oldest' - 1)
        BY <3>6, <4>1
      <4> QED BY <3>3, <3>5, <4>2
    <3>8. o <= i
      BY <1>3, <3>7
    <3> QED BY <3>1, <3>6, <3>8
  <2>5. cleanup' < oldest'
    BY <1>2, <1>3 DEF NewDataDone
  <2>6. ASSUME NEW i \in 1 .. Len(chain')
        PROVE  chain'[i].ra = IF i < cleanup' THEN 0 ELSE 1 + Cardinality(At(pclients, i))
    <3>1. CASE i \in 1 .. Len(chain)
      <4>1. chain'[i].ra = IF i \in cleanup .. (cleanup' - 1) THEN 0 ELSE chain[i].ra
        BY <1>2, <3>1 DEF NewDataDone
      <4>2. cleanup' \in cleanup .. (oldest - 1)
        BY <1>2 DEF NewDataDone
      <4>3. PICK c \in Int : c = cleanup' /\ cleanup <= c
        BY <1>3, <4>2
      <4>4. chain[i].ra = IF i < cleanup THEN 0 ELSE 1 + Cardinality(At(pclients, i))
        BY <2>1, <3>1
      <4>5. i \in cleanup .. (c - 1) <=> (cleanup <= i /\ i < c)
        BY <1>3, <3>1
      <4>6. CASE i < cleanup
        BY <1>3, <3>1, <4>1, <4>3, <4>4, <4>5, <4>6
      <4>7. CASE cleanup <= i /\ i < c
        BY <1>3, <3>1, <4>1, <4>3, <4>5, <4>7
      <4>8. CASE c <= i
        <5>1. ~(i \in cleanup .. (cleanup' - 1)) /\ ~(i < cleanup')
          <6>1. i \in Int /\ cleanup \in Int
            BY <1>3, <3>1
          <6>2. ~(i \in cleanup .. (c - 1)) /\ ~(i < c)
            BY <4>8, <6>1
          <6> QED BY <4>3, <6>2
        <5>2. ~(i < cleanup)
          BY <1>3, <3>1, <4>3, <4>8
        <5>3. chain'[i].ra = chain[i].ra
          BY <4>1, <5>1
        <5> QED BY <4>4, <5>1, <5>2, <5>3
      <4> QED BY <1>3, <3>1, <4>3, <4>6, <4>7, <4>8
    <3>2. CASE i \notin 1 .. Len(chain)
      <4>1. i = Len(chain) + 1 /\ chain'[i].ra = 1
        BY <1>2, <1>3, <1>4, <3>2 DEF NewDataDone
      <4>2. At(pclients, i) = {}
        BY <1>3, <2>3, <4>1 DEF At
      <4>3. Cardinality(At(pclients, i)) = 0
        BY <2>2, <4>2, AtFinite
      <4>4. ~(i < cleanup')
        BY <1>2, <1>3, <4>1 DEF NewDataDone
      <4> QED BY <4>1, <4>3, <4>4
    <3> QED BY <3>1, <3>2
  <2>7. Hold(chain', cleanup', oldest', pclients)
    BY <2>4, <2>5, <2>6 DEF Hold
  <2> QED BY <1>1, <2>7 DEF HoldNow, packVars
<1>9. BusyNow'
  BY <1>1 DEF BaseInv, BusyNow, packVars
<1> QED BY <1>2, <1>5, <1>6, <1>7, <1>8, <1>9 DEF BaseInv, NewDataDone

\* ch2 is ch with r accesses of node i
AccessSet(ch, ch2, i, r) ==
  /\ SameData(ch, ch2)
  /\ \A k \in 1 .. Len(ch) : ch2[k].ra = IF k = i THEN r ELSE ch[k].ra

LEMMA OneAccess ==
  ASSUME NEW ev, NEW ch, IsChain(ev, ch), NEW i \in 1 .. Len(ch), NEW r \in Int,
         NEW ch2, ch2 = [ch EXCEPT ![i].ra = r]
  PROVE  AccessSet(ch, ch2, i, r)
<1>1. ch \in Seq(Node) /\ Len(ch) \in Nat /\ \A k \in 1 .. Len(ch) : ch[k] \in Node
  BY Nodes DEF IsChain
<1>2. PICK x \in Node : x = ch[i]
  BY <1>1
<1>3. PICK y \in Node : y = [x EXCEPT !.ra = r] /\ y.ra = r /\ y.seq = x.seq /\ y.time = x.time
  <2>1. [x EXCEPT !.ra = r] \in Node /\ [x EXCEPT !.ra = r].ra = r
        /\ [x EXCEPT !.ra = r].seq = x.seq /\ [x EXCEPT !.ra = r].time = x.time
    BY DEF Node
  <2> QED BY <2>1
<1>4. ch2 = [ch EXCEPT ![i] = y]
  BY <1>2, <1>3
<1>5. /\ ch2 \in Seq(Node) /\ Len(ch2) = Len(ch)
      /\ \A k \in 1 .. Len(ch) : ch2[k] = IF k = i THEN y ELSE ch[k]
  BY <1>1, <1>4, ExceptSeq
<1>6. SameData(ch, ch2)
  BY <1>2, <1>3, <1>5 DEF SameData
<1>7. \A k \in 1 .. Len(ch) : ch2[k].ra = IF k = i THEN r ELSE ch[k].ra
  BY <1>3, <1>5
<1> QED BY <1>6, <1>7 DEF AccessSet

\* the work of a new packer
AllWork == Ids(Num(chain, oldest), Num(chain, latest))

RefreshDone ==
  /\ SameData(chain, chain') /\ Kept(setup.event, chain, chain') /\ IsChain(setup.event, chain')
  /\ NewClient \in Client /\ pclients' \in [transporters -> Client]
  /\ \A p \in transporters :
       pclients'[p] = IF p \in DOMAIN pclients THEN pclients[p] ELSE NewClient
  /\ AllWork \in Seq(Nat)
  /\ queue' \in [Packers -> Seq(Nat)]
  /\ \A p \in Packers : queue'[p] = IF p \in transporters \ DOMAIN pclients
                                    THEN queue[p] \o AllWork ELSE queue[p]
  /\ valid => Hold(chain', cleanup, oldest, pclients')
  /\ \A p \in transporters : ClientAt(chain', latest, pclients'[p], ppc[p])

LEMMA RefreshDoes ==
  ASSUME BaseInv, RefreshTransporters
  PROVE  RefreshDone
<1> DEFINE new == transporters \ DOMAIN pclients
<1>1. /\ pclients' = [p \in transporters |-> IF p \in new THEN NewClient ELSE pclients[p]]
      /\ queue' = [p \in Packers |-> IF p \in new THEN queue[p] \o PointsFrom(oldest)
                                     ELSE queue[p]]
      /\ chain' = [chain EXCEPT ![oldest].ra = @ + Cardinality(new)]
  BY DEF RefreshTransporters
<1>2. /\ chain \in Seq(Node) /\ Len(chain) \in Nat /\ latest \in 2 .. Len(chain)
      /\ latest \in Nat /\ oldest \in 2 .. latest /\ oldest \in Nat
      /\ cleanup \in Nat /\ oldest <= latest
      /\ \A i \in 1 .. Len(chain) : chain[i].ra \in Int
      /\ IsChain(setup.event, chain)
  BY ChainFacts DEF BaseInv, ChainNow
<1>3. IsFiniteSet(new) /\ Cardinality(new) \in Nat /\ IsFiniteSet(DOMAIN pclients)
  <2>1. IsFiniteSet(transporters) /\ new \subseteq transporters
    BY DEF BaseInv, TypesNow
  <2>2. IsFiniteSet(new)
    BY <2>1, FS_Subset
  <2> QED BY <2>2, FS_CardinalityType, ClientsFinite DEF BaseInv
<1>4. PICK r \in Int : r = chain[oldest].ra + Cardinality(new)
  BY <1>2, <1>3
<1>5. chain' = [chain EXCEPT ![oldest].ra = r]
  BY <1>1, <1>4
<1>6. oldest \in 1 .. Len(chain)
  BY <1>2
<1>7. /\ SameData(chain, chain')
      /\ \A k \in 1 .. Len(chain) : chain'[k].ra = IF k = oldest THEN r ELSE chain[k].ra
  <2>1. IsChain(setup.event, chain)
    BY <1>2
  <2>2. AccessSet(chain, chain', oldest, r)
    BY <1>5, <1>6, <2>1, OneAccess
  <2> QED BY <2>2 DEF AccessSet
<1>8. Kept(setup.event, chain, chain') /\ IsChain(setup.event, chain')
  BY <1>2, <1>7, SameKept
<1>9. PointsFrom(oldest) = AllWork
  BY <1>2, PointsAreIds DEF AllWork
<1>10. AllWork \in Seq(Nat)
  <2>1. Num(chain, oldest) \in Nat /\ Num(chain, latest) \in Nat
        /\ Num(chain, oldest) <= Num(chain, latest)
    BY <1>2, AtPosition, NumRises
  <2> QED BY <2>1, IdsSeq DEF AllWork
<1>11. NewClient \in Client /\ NewClient.index = oldest /\ NewClient.accessed = None
  BY <1>2 DEF NewClient, Client, None
<1>12. /\ pclients' \in [transporters -> Client]
       /\ \A p \in transporters :
            pclients'[p] = IF p \in DOMAIN pclients THEN pclients[p] ELSE NewClient
  BY <1>1, <1>11 DEF BaseInv, TypesNow
<1>13. /\ queue' \in [Packers -> Seq(Nat)]
       /\ \A p \in Packers : queue'[p] = IF p \in new THEN queue[p] \o AllWork ELSE queue[p]
  <2>1. queue \in [Packers -> Seq(Nat)]
    BY DEF BaseInv, TypesNow
  <2> HIDE DEF new
  <2>2. \A p \in Packers : queue[p] \o AllWork \in Seq(Nat) /\ queue[p] \in Seq(Nat)
    BY <1>10, <2>1, ConcatProperties
  <2> QED BY <1>1, <1>9, <2>2
<1>14. ASSUME valid PROVE Hold(chain', cleanup, oldest, pclients')
  <2>1. /\ cleanup < oldest /\ \A p \in DOMAIN pclients : oldest <= pclients[p].index
        /\ \A i \in 1 .. Len(chain) :
             chain[i].ra = IF i < cleanup THEN 0 ELSE 1 + Cardinality(At(pclients, i))
    BY <1>14 DEF BaseInv, HoldNow, Hold
  <2>2. DOMAIN pclients \subseteq transporters
    BY DEF BaseInv, TypesNow
  <2>3. At(pclients', oldest) = At(pclients, oldest) \cup new
        /\ At(pclients, oldest) \cap new = {}
    BY <1>11, <1>12, <2>2 DEF At
  <2>4. \A i : i # oldest => At(pclients', i) = At(pclients, i)
    BY <1>11, <1>12, <2>2 DEF At
  <2>5. Cardinality(At(pclients', oldest)) = Cardinality(At(pclients, oldest)) + Cardinality(new)
    <3>1. IsFiniteSet(At(pclients, oldest)) /\ Cardinality(At(pclients, oldest)) \in Nat
      BY <1>3, AtFinite
    <3>2. Cardinality(At(pclients, oldest) \cup new)
            = Cardinality(At(pclients, oldest)) + Cardinality(new) - Cardinality(At(pclients, oldest) \cap new)
      BY <1>3, <3>1, FS_Union
    <3>3. Cardinality(At(pclients, oldest) \cap new) = 0
      BY <2>3, FS_EmptySet
    <3> QED BY <1>3, <2>3, <3>1, <3>2, <3>3
  <2>6. \A p \in DOMAIN pclients' : oldest <= pclients'[p].index
    BY <1>2, <1>11, <1>12, <2>1
  <2>7. Len(chain') = Len(chain)
    BY <1>7 DEF SameData
  <2>8. ASSUME NEW i \in 1 .. Len(chain)
        PROVE  chain'[i].ra = IF i < cleanup THEN 0 ELSE 1 + Cardinality(At(pclients', i))
    <3>1. CASE i = oldest
      <4>1. Cardinality(At(pclients, oldest)) \in Nat
        BY <1>3, AtFinite
      <4>2. chain[oldest].ra = 1 + Cardinality(At(pclients, oldest))
        BY <1>2, <1>6, <2>1
      <4>3. ~(oldest < cleanup) /\ chain'[oldest].ra = r
        BY <1>2, <1>6, <1>7, <2>1
      <4>4. r = 1 + Cardinality(At(pclients', oldest))
        <5> HIDE DEF new
        <5> QED BY <1>3, <1>4, <2>5, <4>1, <4>2
      <4> QED BY <3>1, <4>3, <4>4
    <3>2. CASE i # oldest
      BY <1>7, <2>1, <2>4, <3>2
    <3> QED BY <3>1, <3>2
  <2> QED BY <2>1, <2>6, <2>7, <2>8 DEF Hold
<1>15. ASSUME NEW p \in transporters PROVE ClientAt(chain', latest, pclients'[p], ppc[p])
  <2>1. \A i \in 1 .. Len(chain) : chain'[i].seq = chain[i].seq
    BY <1>7 DEF SameData
  <2>2. CASE p \in DOMAIN pclients
    <3>1. ClientAt(chain, latest, pclients[p], ppc[p])
      BY <2>2 DEF BaseInv, ClientsNow
    <3> QED BY <1>2, <1>12, <2>1, <2>2, <3>1 DEF ClientAt
  <2>3. CASE p \notin DOMAIN pclients
    <3>1. ppc[p] = "idle"
      BY <2>3 DEF BaseInv, ClientsNow, TypesNow
    <3> QED BY <1>2, <1>11, <1>12, <2>3, <3>1 DEF ClientAt
  <2> QED BY <2>2, <2>3
<1> QED BY <1>7, <1>8, <1>10, <1>11, <1>12, <1>13, <1>14, <1>15 DEF RefreshDone

LEMMA RefreshBase ==
  ASSUME BaseInv, RefreshTransporters, UNCHANGED <<setup, cleanup, oldest, latest, wseq, valid,
         transporters, ppc, copy, store, choked, endVars>>,
         stale' \in BOOLEAN, refreshDue' \in BOOLEAN,
         (wpc' = wpc \/ (wpc = "refresh" /\ wpc' = "publish"))
  PROVE  BaseInv' /\ Kept(setup.event, chain, chain')
<1>1. RefreshDone
  BY RefreshDoes
<1>2. TypesNow'
  <2>1. wpc' \in WriterPlaces
    BY DEF BaseInv, TypesNow, WriterPlaces
  <2>2. pclients' \in [DOMAIN pclients' -> Client] /\ DOMAIN pclients' \subseteq transporters
    BY <1>1 DEF RefreshDone
  <2> QED BY <1>1, <2>1, <2>2 DEF BaseInv, TypesNow, RefreshDone, endVars
<1>3. ChainNow'
  <2>1. WriterAt(chain', latest, wpc, wseq)
    BY <1>1, SameWriter DEF RefreshDone, BaseInv, ChainNow
  <2>2. WriterAt(chain', latest, wpc', wseq)
    BY <2>1 DEF WriterAt
  <2>3. Len(chain') = Len(chain)
    BY <1>1 DEF RefreshDone, SameData
  <2> QED BY <1>1, <2>2, <2>3 DEF RefreshDone, BaseInv, ChainNow
<1>4. ClientsNow'
  <2>1. DOMAIN pclients' = transporters /\ DOMAIN pclients \subseteq transporters
    BY <1>1 DEF RefreshDone, BaseInv, TypesNow
  <2>2. \A p \in Packers \ DOMAIN pclients' : ppc[p] = "idle" /\ store[p] = <<>>
    BY <2>1 DEF BaseInv, ClientsNow
  <2> QED BY <1>1, <2>1, <2>2 DEF RefreshDone, ClientsNow
<1>5. HoldNow'
  BY <1>1 DEF RefreshDone, HoldNow
<1>6. BusyNow'
  <2> SUFFICES ASSUME NEW p \in Packers, ppc[p] # "idle" PROVE queue'[p] # <<>>
    BY DEF BusyNow
  <2>1. p \in DOMAIN pclients /\ queue[p] # <<>>
    BY DEF BaseInv, ClientsNow, BusyNow
  <2> QED BY <1>1, <2>1 DEF RefreshDone
<1> QED BY <1>1, <1>2, <1>3, <1>4, <1>5, <1>6 DEF BaseInv, RefreshDone

\* nothing of the chain and the clients changes
LEMMA SameBase ==
  ASSUME BaseInv, TypesNow', UNCHANGED <<setup, chain, cleanup, oldest, latest, valid, pclients, ppc>>,
         \/ UNCHANGED <<wpc, wseq>>
         \/ (wpc = "refresh" /\ wpc' = "publish" /\ wseq' = wseq)
         \/ (wpc = "notify" /\ wpc' = "idle" /\ wseq' = wseq),
         BusyNow', \A p \in Packers \ DOMAIN pclients : store'[p] = <<>>
  PROVE  BaseInv' /\ Kept(setup.event, chain, chain')
<1>1. ChainNow'
  <2>1. WriterAt(chain, latest, wpc', wseq')
    BY DEF BaseInv, ChainNow, WriterAt
  <2> QED BY <2>1 DEF BaseInv, ChainNow
<1>2. ClientsNow' /\ HoldNow'
  BY DEF BaseInv, ClientsNow, HoldNow
<1>3. Kept(setup.event, chain, chain')
  <2>1. chain \in Seq(Node) /\ Len(chain) \in Nat
    BY ChainFacts DEF BaseInv
  <2> QED BY <2>1 DEF Kept
<1> QED BY <1>1, <1>2, <1>3 DEF BaseInv

LEMMA RefreshInWriteBase ==
  ASSUME BaseInv, RefreshInWrite, UNCHANGED setup
  PROVE  BaseInv' /\ Kept(setup.event, chain, chain')
<1>1. CASE stale
  <2>1. /\ RefreshTransporters /\ stale' = FALSE /\ refreshDue' = refreshDue
        /\ UNCHANGED <<setup, cleanup, oldest, latest, wseq, valid, transporters, ppc, copy, store,
                       choked, endVars>>
        /\ wpc = "refresh" /\ wpc' = "publish"
    BY <1>1 DEF RefreshInWrite
  <2>2. refreshDue \in BOOLEAN
    BY DEF BaseInv, TypesNow
  <2> QED BY <2>1, <2>2, RefreshBase
<1>2. CASE ~stale
  <2>1. /\ UNCHANGED <<chain, pclients, queue, stale, cleanup, oldest, latest, wseq, valid,
                       transporters, refreshDue, ppc, copy, store, choked, inbox, end, cached, got>>
        /\ wpc = "refresh" /\ wpc' = "publish"
    BY <1>2 DEF RefreshInWrite, endVars
  <2>2. TypesNow'
    BY <2>1 DEF BaseInv, TypesNow, WriterPlaces
  <2>3. BusyNow' /\ \A p \in Packers \ DOMAIN pclients : store'[p] = <<>>
    BY <2>1 DEF BaseInv, ClientsNow, BusyNow
  <2> QED BY <2>1, <2>2, <2>3, SameBase
<1> QED BY <1>1, <1>2

LEMMA PublishBase ==
  ASSUME BaseInv, Publish, UNCHANGED setup
  PROVE  BaseInv' /\ Kept(setup.event, chain, chain') /\ latest' = Len(chain')
         /\ chain'[latest'].seq = wseq + 1 /\ wseq = Num(chain, latest)
<1> DEFINE n == Len(chain)
           x == Fresh(chain[n].seq + 1, chain[n].time + 1)
<1>1. /\ wpc = "publish" /\ wpc' = "notify" /\ latest' = n + 1
      /\ chain' = Append(chain, Fresh(wseq + 1, chain[n].time + 1))
      /\ UNCHANGED <<cleanup, oldest, wseq, valid, transporters, stale, refreshDue, pclients, queue,
                     ppc, copy, store, choked, inbox, end, cached, got>>
  BY DEF Publish, configVars, packVars, endVars
<1>2. /\ chain \in Seq(Node) /\ n \in Nat /\ n >= 2 /\ latest \in 2 .. n /\ latest \in Nat
      /\ \A i \in 1 .. n : chain[i].seq \in Nat /\ chain[i].time \in Nat
      /\ IsChain(setup.event, chain) /\ chain[n].seq # 0
      /\ oldest \in Nat /\ cleanup \in Nat /\ oldest >= 2 /\ oldest <= latest
      /\ cleanup >= 1 /\ cleanup <= n + 1
  BY ChainFacts DEF BaseInv, ChainNow, IsChain
<1>3. wseq = chain[n].seq /\ chain' = Append(chain, x)
  BY <1>1 DEF BaseInv, ChainNow, WriterAt
<1>4. x \in Node /\ x.seq = wseq + 1 /\ x.ra = 1
  <2>1. n \in 1 .. n /\ chain[n].seq \in Nat /\ chain[n].time \in Nat
    BY <1>2
  <2>2. wseq + 1 \in Nat /\ chain[n].time + 1 \in Nat
    BY <1>3, <2>1
  <2>3. wseq + 1 = chain[n].seq + 1
    BY <1>3
  <2> QED BY <2>2, <2>3, FreshNode
<1>5. IsChain(setup.event, chain') /\ \A i \in 2 .. n : Num(chain', i) = Num(chain, i)
  BY <1>2, <1>3, PublishChain
<1> HIDE DEF x
<1>6. /\ chain' \in Seq(Node) /\ Len(chain') = n + 1
      /\ \A i \in 1 .. n : chain'[i] = chain[i]
      /\ chain'[n + 1] = x
  BY <1>2, <1>3, <1>4, Longer
<1>7. Kept(setup.event, chain, chain')
  <2>1. n <= Len(chain')
    BY <1>2, <1>6
  <2>2. \A i \in 1 .. n : chain'[i].seq = chain[i].seq /\ chain'[i].time = chain[i].time
    BY <1>6
  <2>3. \A i \in 1 .. (n - 1) : i \in 1 .. n
    BY <1>2
  <2>4. \A i \in 3 .. n : i \in 1 .. n
    BY <1>2
  <2> QED BY <1>5, <2>1, <2>2, <2>3, <2>4 DEF Kept
<1>8. wseq = Num(chain, latest)
  <2>1. CASE latest = n
    BY <1>2, <1>3, <2>1 DEF Num
  <2>2. CASE latest # n
    <3>1. latest + 1 = n /\ chain[latest].seq = 0
      BY <1>2, <2>2 DEF BaseInv, ChainNow, WriterAt
    <3> QED BY <1>3, <3>1 DEF Num
  <2> QED BY <2>1, <2>2
<1>9. TypesNow'
  BY <1>1 DEF BaseInv, TypesNow, WriterPlaces
<1>10. ChainNow'
  <2>1. WriterAt(chain', latest', wpc', wseq')
    BY <1>1, <1>2, <1>3, <1>4, <1>6 DEF WriterAt
  <2>2. cleanup' \in 1 .. (Len(chain') + 1) /\ oldest' \in 2 .. latest'
    BY <1>1, <1>2, <1>6
  <2> QED BY <1>5, <2>1, <2>2 DEF ChainNow
<1>11. ClientsNow'
  <2> SUFFICES ASSUME NEW p \in DOMAIN pclients
               PROVE  ClientAt(chain', n + 1, pclients[p], ppc[p])
    BY <1>1 DEF BaseInv, ClientsNow
  <2>1. ClientAt(chain, latest, pclients[p], ppc[p])
    BY DEF BaseInv, ClientsNow
  <2>2. pclients[p].index \in 2 .. (n + 1)
        /\ (pclients[p].index < latest => pclients[p].index < n + 1)
        /\ chain'[pclients[p].index].seq = chain[pclients[p].index].seq
    BY <1>2, <1>6, <2>1 DEF ClientAt
  <2> QED BY <2>1, <2>2 DEF ClientAt
<1>12. HoldNow'
  <2> SUFFICES ASSUME valid PROVE Hold(chain', cleanup, oldest, pclients)
    BY <1>1 DEF HoldNow
  <2>1. /\ cleanup < oldest /\ \A p \in DOMAIN pclients : oldest <= pclients[p].index
        /\ \A i \in 1 .. n :
             chain[i].ra = IF i < cleanup THEN 0 ELSE 1 + Cardinality(At(pclients, i))
    BY DEF BaseInv, HoldNow, Hold
  <2>2. At(pclients, n + 1) = {}
    BY <1>2 DEF BaseInv, ClientsNow, ClientAt, At
  <2>3. Cardinality(At(pclients, n + 1)) = 0
    BY <2>2, FS_EmptySet
  <2>4. ASSUME NEW i \in 1 .. (n + 1)
        PROVE  chain'[i].ra = IF i < cleanup THEN 0 ELSE 1 + Cardinality(At(pclients, i))
    <3>1. CASE i = n + 1
      BY <1>2, <1>4, <1>6, <2>1, <2>3, <3>1
    <3>2. CASE i \in 1 .. n
      BY <1>6, <2>1, <3>2
    <3> QED BY <1>2, <3>1, <3>2
  <2> QED BY <1>6, <2>1, <2>4 DEF Hold
<1>13. BusyNow'
  BY <1>1 DEF BaseInv, BusyNow
<1> QED BY <1>1, <1>4, <1>6, <1>7, <1>8, <1>9, <1>10, <1>11, <1>12, <1>13 DEF BaseInv

LEMMA NotifyBase ==
  ASSUME BaseInv, Notify, UNCHANGED setup
  PROVE  BaseInv' /\ Kept(setup.event, chain, chain')
<1>1. /\ wpc = "notify" /\ wpc' = "idle"
      /\ queue' = [p \in Packers |-> IF pclients # << >> /\ p \in transporters
                                     THEN Append(queue[p], wseq) ELSE queue[p]]
      /\ UNCHANGED <<chain, cleanup, oldest, latest, wseq, valid, transporters, stale, refreshDue,
                     pclients, ppc, copy, store, choked, inbox, end, cached, got>>
  BY DEF Notify, configVars, endVars
<1>2. queue \in [Packers -> Seq(Nat)] /\ wseq \in Nat
  BY DEF BaseInv, TypesNow
<1>3. queue' \in [Packers -> Seq(Nat)]
  <2>1. \A p \in Packers : Append(queue[p], wseq) \in Seq(Nat) /\ queue[p] \in Seq(Nat)
    BY <1>2, AppendProperties
  <2> QED BY <1>1, <2>1
<1>4. TypesNow'
  BY <1>1, <1>3 DEF BaseInv, TypesNow, WriterPlaces
<1>5. \A p \in Packers \ DOMAIN pclients : store'[p] = <<>>
  BY <1>1 DEF BaseInv, ClientsNow
<1>6. BusyNow'
  <2> SUFFICES ASSUME NEW p \in Packers, ppc[p] # "idle" PROVE queue'[p] # <<>>
    BY <1>1 DEF BusyNow
  <2>1. queue[p] # <<>> /\ queue[p] \in Seq(Nat)
    BY <1>2 DEF BaseInv, BusyNow
  <2>2. Append(queue[p], wseq) # <<>>
    <3>1. Len(queue[p]) \in Nat
      BY <2>1, LenProperties
    <3>2. Len(Append(queue[p], wseq)) = Len(queue[p]) + 1
      BY <1>2, <2>1, AppendProperties
    <3>3. Len(<<>>) = 0
      OBVIOUS
    <3> QED BY <3>1, <3>2, <3>3
  <2> QED BY <1>1, <2>1, <2>2
<1> QED BY <1>1, <1>4, <1>5, <1>6, SameBase

LEMMA AddBase ==
  ASSUME BaseInv, NEW e \in Ends, AddRemoteDestination(e), UNCHANGED setup
  PROVE  BaseInv' /\ Kept(setup.event, chain, chain')
<1>1. /\ transporters' = transporters \cup {Via[e]} /\ stale' = TRUE /\ refreshDue' = TRUE
      /\ UNCHANGED <<chain, cleanup, oldest, latest, wpc, wseq, valid, pclients, queue,
                     ppc, copy, store, choked, inbox, end, cached, got>>
  BY DEF AddRemoteDestination, writerVars, packVars, endVars
<1>2. Via[e] \in Packers
  BY SetupTyped DEF BaseInv, TypesNow, Via
<1>3. IsFiniteSet(transporters')
  BY <1>1, FS_AddElement DEF BaseInv, TypesNow
<1>4. TypesNow'
  BY <1>1, <1>2, <1>3 DEF BaseInv, TypesNow
<1>5. BusyNow' /\ \A p \in Packers \ DOMAIN pclients : store'[p] = <<>>
  BY <1>1 DEF BaseInv, ClientsNow, BusyNow
<1> QED BY <1>1, <1>4, <1>5, SameBase

LEMMA ServiceBase ==
  ASSUME BaseInv, ServiceRefresh, UNCHANGED setup
  PROVE  BaseInv' /\ Kept(setup.event, chain, chain')
<1>1. /\ RefreshTransporters /\ stale' = stale /\ refreshDue' = FALSE
      /\ UNCHANGED <<setup, cleanup, oldest, latest, wseq, valid, transporters, ppc, copy, store,
                     choked, endVars>>
      /\ wpc' = wpc
  BY DEF ServiceRefresh
<1>2. stale \in BOOLEAN
  BY DEF BaseInv, TypesNow
<1> QED BY <1>1, <1>2, RefreshBase

LEMMA AccessesBase ==
  ASSUME BaseInv, SameData(chain, chain'), TypesNow', ClientsNow', HoldNow', BusyNow',
         UNCHANGED <<setup, oldest, latest, wpc, wseq>>, cleanup' \in 1 .. (Len(chain) + 1)
  PROVE  BaseInv' /\ Kept(setup.event, chain, chain')
<1>1. IsChain(setup.event, chain) /\ WriterAt(chain, latest, wpc, wseq)
  BY DEF BaseInv, ChainNow
<1>2. IsChain(setup.event, chain') /\ Kept(setup.event, chain, chain')
  BY <1>1, SameKept
<1>3. WriterAt(chain', latest, wpc, wseq)
  BY <1>1, SameWriter
<1>4. Len(chain') = Len(chain) /\ oldest \in 2 .. latest
  BY DEF SameData, BaseInv, ChainNow
<1> QED BY <1>2, <1>3, <1>4 DEF BaseInv, ChainNow

LEMMA ResetBase ==
  ASSUME BaseInv, ResetValid, UNCHANGED setup
  PROVE  /\ BaseInv' /\ Kept(setup.event, chain, chain') /\ Len(chain') = Len(chain)
         /\ \A i \in 1 .. Len(chain) : chain'[i].ra = IF i < cleanup THEN 0 ELSE 1
<1>1. /\ valid /\ valid' = FALSE
      /\ chain' = [i \in DOMAIN chain |->
                     [chain[i] EXCEPT !.ra = @ - Cardinality(At(pclients, i))]]
      /\ UNCHANGED <<cleanup, oldest, latest, wpc, wseq, transporters, stale, refreshDue,
                     pclients, queue, ppc, copy, store, choked, inbox, end, cached, got>>
  BY DEF ResetValid, packVars, endVars, At
<1>2. /\ chain \in Seq(Node) /\ Len(chain) \in Nat /\ DOMAIN chain = 1 .. Len(chain)
      /\ \A i \in 1 .. Len(chain) : chain[i] \in Node /\ chain[i].ra \in Int
      /\ cleanup \in Nat /\ oldest \in Nat
      /\ IsChain(setup.event, chain) /\ cleanup \in 1 .. (Len(chain) + 1)
  BY ChainFacts DEF BaseInv, ChainNow
<1>3. IsFiniteSet(DOMAIN pclients)
  BY ClientsFinite DEF BaseInv
<1>4. \A i : Cardinality(At(pclients, i)) \in Nat
  BY <1>3, AtFinite
<1>5. \A i \in DOMAIN chain : \E r \in Int : chain'[i] = [chain[i] EXCEPT !.ra = r]
  <2> TAKE i \in DOMAIN chain
  <2>1. chain[i].ra - Cardinality(At(pclients, i)) \in Int
    BY <1>2, <1>4
  <2>2. chain'[i] = [chain[i] EXCEPT !.ra = chain[i].ra - Cardinality(At(pclients, i))]
    BY <1>1
  <2> QED BY <2>1, <2>2
<1>6. DOMAIN chain' = DOMAIN chain /\ chain' = [i \in DOMAIN chain |-> chain'[i]]
  BY <1>1
<1>7. SameData(chain, chain')
  BY <1>2, <1>5, <1>6, OtherAccesses
<1>8. ASSUME NEW i \in 1 .. Len(chain) PROVE chain'[i].ra = IF i < cleanup THEN 0 ELSE 1
  <2>1. chain'[i].ra = chain[i].ra - Cardinality(At(pclients, i))
    <3>1. PICK x \in Node : x = chain[i]
      BY <1>2
    <3>2. chain'[i] = [x EXCEPT !.ra = x.ra - Cardinality(At(pclients, i))]
      BY <1>1, <1>2, <3>1
    <3>3. [x EXCEPT !.ra = x.ra - Cardinality(At(pclients, i))].ra = x.ra - Cardinality(At(pclients, i))
      BY DEF Node
    <3> QED BY <3>1, <3>2, <3>3
  <2>2. /\ cleanup < oldest /\ \A p \in DOMAIN pclients : oldest <= pclients[p].index
        /\ chain[i].ra = IF i < cleanup THEN 0 ELSE 1 + Cardinality(At(pclients, i))
    BY <1>1 DEF BaseInv, HoldNow, Hold
  <2>3. CASE i < cleanup
    <3>1. \A p \in DOMAIN pclients : pclients[p].index \in Nat
      BY DEF BaseInv, TypesNow, Client
    <3>2. At(pclients, i) = {}
      BY <1>2, <2>2, <2>3, <3>1 DEF At
    <3>3. Cardinality(At(pclients, i)) = 0
      BY <3>2, FS_EmptySet
    <3> QED BY <2>1, <2>2, <2>3, <3>3
  <2>4. CASE ~(i < cleanup)
    BY <1>4, <2>1, <2>2, <2>4
  <2> QED BY <2>3, <2>4
<1>9. Len(chain') = Len(chain) /\ \A i \in 1 .. Len(chain) : chain'[i].seq = chain[i].seq
  BY <1>7 DEF SameData
<1>10. TypesNow'
  BY <1>1 DEF BaseInv, TypesNow
<1>11. ClientsNow'
  <2> SUFFICES ASSUME NEW p \in DOMAIN pclients
               PROVE  ClientAt(chain', latest, pclients[p], ppc[p])
    BY <1>1 DEF BaseInv, ClientsNow
  <2>1. ClientAt(chain, latest, pclients[p], ppc[p]) /\ latest \in 2 .. Len(chain)
    BY ChainFacts DEF BaseInv, ClientsNow
  <2> QED BY <1>2, <1>9, <2>1 DEF ClientAt
<1>12. HoldNow' /\ BusyNow'
  BY <1>1 DEF HoldNow, BaseInv, BusyNow
<1>13. BaseInv' /\ Kept(setup.event, chain, chain')
  BY <1>1, <1>2, <1>7, <1>10, <1>11, <1>12, AccessesBase
<1> QED BY <1>8, <1>9, <1>13

LEMMA CleanBase ==
  ASSUME BaseInv, CleanAllData, UNCHANGED setup
  PROVE  /\ BaseInv' /\ Kept(setup.event, chain, chain') /\ Len(chain') = Len(chain)
         /\ cleanup' \in cleanup .. (Len(chain) + 1)
         /\ \A i \in 1 .. Len(chain) :
              chain'[i].ra = IF i \in cleanup .. (cleanup' - 1) THEN 0 ELSE chain[i].ra
<1>1. /\ ~valid /\ cleanup' = Recycled(Len(chain) + 1)
      /\ chain' = [i \in DOMAIN chain |->
                     IF i \in cleanup .. (cleanup' - 1) THEN [chain[i] EXCEPT !.ra = 0]
                     ELSE chain[i]]
      /\ UNCHANGED <<oldest, latest, wpc, wseq, valid, transporters, stale, refreshDue,
                     pclients, queue, ppc, copy, store, choked, inbox, end, cached, got>>
  BY DEF CleanAllData, configVars, packVars, endVars
<1>2. /\ chain \in Seq(Node) /\ Len(chain) \in Nat /\ DOMAIN chain = 1 .. Len(chain)
      /\ \A i \in 1 .. Len(chain) : chain[i] \in Node /\ chain[i].ra \in Int
      /\ cleanup \in Nat /\ cleanup >= 1 /\ cleanup <= Len(chain) + 1 /\ Len(chain) + 1 \in Nat
      /\ IsChain(setup.event, chain)
  BY ChainFacts DEF BaseInv, ChainNow
<1>3. cleanup' \in cleanup .. (Len(chain) + 1)
  BY <1>1, <1>2, RecycledIs
<1>4. ASSUME NEW i \in 1 .. Len(chain)
      PROVE  /\ chain'[i].ra = IF i \in cleanup .. (cleanup' - 1) THEN 0 ELSE chain[i].ra
             /\ \E r \in Int : chain'[i] = [chain[i] EXCEPT !.ra = r]
  <2>1. PICK x \in Node : x = chain[i]
    BY <1>2
  <2>2. [x EXCEPT !.ra = 0].ra = 0 /\ [x EXCEPT !.ra = x.ra] = x /\ x.ra \in Int
    BY DEF Node
  <2>3. CASE i \in cleanup .. (cleanup' - 1)
    <3>1. chain'[i] = [x EXCEPT !.ra = 0]
      BY <1>1, <1>2, <2>1, <2>3
    <3>2. chain'[i] = [chain[i] EXCEPT !.ra = 0]
      BY <2>1, <3>1
    <3>3. chain'[i].ra = 0
      BY <2>2, <3>1
    <3>4. \E r \in Int : chain'[i] = [chain[i] EXCEPT !.ra = r]
      <4>1. 0 \in Int
        OBVIOUS
      <4> QED BY <3>2, <4>1, Zenon
    <3> QED BY <2>3, <3>3, <3>4
  <2>4. CASE ~(i \in cleanup .. (cleanup' - 1))
    <3>1. chain'[i] = x
      BY <1>1, <1>2, <2>1, <2>4
    <3> QED BY <2>1, <2>2, <2>4, <3>1
  <2> QED BY <2>3, <2>4
<1>5. DOMAIN chain' = DOMAIN chain /\ chain' = [i \in DOMAIN chain |-> chain'[i]]
  BY <1>1
<1>6. SameData(chain, chain')
  BY <1>2, <1>4, <1>5, OtherAccesses
<1>7. Len(chain') = Len(chain) /\ \A i \in 1 .. Len(chain) : chain'[i].seq = chain[i].seq
  BY <1>6 DEF SameData
<1>8. TypesNow'
  BY <1>1 DEF BaseInv, TypesNow
<1>9. ClientsNow'
  <2> SUFFICES ASSUME NEW p \in DOMAIN pclients
               PROVE  ClientAt(chain', latest, pclients[p], ppc[p])
    BY <1>1 DEF BaseInv, ClientsNow
  <2>1. ClientAt(chain, latest, pclients[p], ppc[p]) /\ latest \in 2 .. Len(chain)
    BY ChainFacts DEF BaseInv, ClientsNow
  <2> QED BY <1>2, <1>7, <2>1 DEF ClientAt
<1>10. HoldNow' /\ BusyNow'
  BY <1>1 DEF HoldNow, BaseInv, BusyNow
<1>11. cleanup' \in 1 .. (Len(chain) + 1)
  BY <1>2, <1>3
<1>12. BaseInv' /\ Kept(setup.event, chain, chain')
  BY <1>1, <1>6, <1>8, <1>9, <1>10, <1>11, AccessesBase
<1> QED BY <1>3, <1>4, <1>7, <1>12

\* ch2 is ch after an access moved from node i to node j
AccessMoved(ch, ch2, i, j) ==
  /\ SameData(ch, ch2)
  /\ \A k \in 1 .. Len(ch) :
       ch2[k].ra = IF k = j THEN ch[k].ra + 1 ELSE IF k = i THEN ch[k].ra - 1 ELSE ch[k].ra

LEMMA TwoAccesses ==
  ASSUME NEW ev, NEW ch, IsChain(ev, ch), NEW i \in 1 .. Len(ch), NEW j \in 1 .. Len(ch), i # j,
         NEW ch2, ch2 = [ch EXCEPT ![j].ra = @ + 1, ![i].ra = @ - 1]
  PROVE  AccessMoved(ch, ch2, i, j)
<1>1. ch \in Seq(Node) /\ \A k \in 1 .. Len(ch) : ch[k].ra \in Int
  BY Nodes DEF IsChain
<1>2. PICK r \in Int : r = ch[j].ra + 1
  BY <1>1
<1>3. PICK q \in Int : q = ch[i].ra - 1
  BY <1>1
<1>4. PICK ch1 : ch1 = [ch EXCEPT ![j].ra = r]
  OBVIOUS
<1>5. AccessSet(ch, ch1, j, r)
  BY <1>4, OneAccess
<1>6. IsChain(ev, ch1) /\ Len(ch1) = Len(ch) /\ ch1[i].ra = ch[i].ra
  BY <1>5, SameChain DEF AccessSet, SameData
<1>7. ch2 = [ch1 EXCEPT ![i].ra = q]
  <2>1. ch1 = [ch EXCEPT ![j].ra = @ + 1]
    BY <1>2, <1>4
  <2>2. ch2 = [ch1 EXCEPT ![i].ra = @ - 1]
    BY <2>1
  <2> QED BY <1>3, <1>6, <2>2
<1>8. AccessSet(ch1, ch2, i, q)
  BY <1>6, <1>7, OneAccess
<1>9. SameData(ch, ch2)
  BY <1>5, <1>6, <1>8 DEF AccessSet, SameData
<1>10. /\ \A k \in 1 .. Len(ch) : ch1[k].ra = IF k = j THEN r ELSE ch[k].ra
       /\ \A k \in 1 .. Len(ch) : ch2[k].ra = IF k = i THEN q ELSE ch1[k].ra
  BY <1>5, <1>6, <1>8 DEF AccessSet
<1> QED BY <1>2, <1>3, <1>9, <1>10 DEF AccessMoved

LEMMA MoveHold ==
  ASSUME NEW ch, NEW cl \in Nat, NEW old \in Nat, NEW pc, Hold(ch, cl, old, pc),
         IsFiniteSet(DOMAIN pc), NEW p \in DOMAIN pc, NEW c, NEW i \in Nat, NEW j \in Nat,
         pc[p].index = i, c.index = j, i < j,
         NEW ch2, AccessMoved(ch, ch2, i, j)
  PROVE  Hold(ch2, cl, old, [pc EXCEPT ![p] = c])
<1> DEFINE pc2 == [pc EXCEPT ![p] = c]
<1>1. /\ Cardinality(At(pc2, j)) = Cardinality(At(pc, j)) + 1
      /\ Cardinality(At(pc2, i)) = Cardinality(At(pc, i)) - 1
      /\ \A k : (k # i /\ k # j) => At(pc2, k) = At(pc, k)
  <2>1. i # j
    OBVIOUS
  <2>2. OneMoved(pc, pc2, i, j)
    BY <2>1, AtMoved
  <2> QED BY <2>2 DEF OneMoved
<1>2. /\ cl < old /\ old <= i /\ Len(ch2) = Len(ch)
      /\ \A k \in 1 .. Len(ch) :
           ch2[k].ra = IF k = j THEN ch[k].ra + 1 ELSE IF k = i THEN ch[k].ra - 1 ELSE ch[k].ra
  BY DEF Hold, AccessMoved, SameData
<1>3. DOMAIN pc2 = DOMAIN pc /\ \A q \in DOMAIN pc : pc2[q] = IF q = p THEN c ELSE pc[q]
  OBVIOUS
<1> HIDE DEF pc2
<1>4. \A q \in DOMAIN pc2 : old <= pc2[q].index
  BY <1>2, <1>3 DEF Hold
<1>5. ASSUME NEW k \in 1 .. Len(ch)
      PROVE  ch2[k].ra = IF k < cl THEN 0 ELSE 1 + Cardinality(At(pc2, k))
  <2>1. ch[k].ra = IF k < cl THEN 0 ELSE 1 + Cardinality(At(pc, k))
    BY DEF Hold
  <2>2. Cardinality(At(pc, k)) \in Nat
    BY AtFinite
  <2>3. CASE k = i
    BY <1>1, <1>2, <2>1, <2>2, <2>3
  <2>4. CASE k = j
    BY <1>1, <1>2, <2>1, <2>2, <2>4
  <2>5. CASE k # i /\ k # j
    BY <1>1, <1>2, <2>1, <2>5
  <2> QED BY <2>3, <2>4, <2>5
<1> QED BY <1>2, <1>4, <1>5 DEF Hold, pc2

\* a client record with some fields changed
LEMMA ClientFields ==
  ASSUME NEW c \in Client
  PROVE  /\ c.index \in Nat /\ c.accessed \in Nat \cup {None} /\ c.vend \in Nat \cup {None}
         /\ c.prev \in Nat \cup {None} /\ c.sendFull \in BOOLEAN
BY DEF Client

LEMMA PackAtFacts ==
  ASSUME BaseInv, NEW p \in DOMAIN pclients
  PROVE  LET c == pclients[p]
             n == PackAt(c) IN
         /\ c \in Client /\ c.index \in 2 .. latest /\ c.index \in 2 .. Len(chain)
         /\ n \in 2 .. Len(chain) /\ n \in Nat /\ (n = c.index \/ n = c.index + 1)
         /\ chain[n].seq # 0 /\ chain[n].seq = Num(chain, c.index) /\ Num(chain, n) = Num(chain, c.index)
         /\ (n # c.index) => chain[c.index].seq = 0 /\ n = c.index + 1 /\ c.index > 2
         /\ chain[c.index].seq = 0 => n # c.index
         /\ n < Len(chain) => n < latest
<1> DEFINE c == pclients[p]
           n == PackAt(c)
<1>1. c \in Client /\ c.index \in 2 .. latest
  BY DEF BaseInv, TypesNow, ClientsNow, ClientAt
<1>2. /\ chain \in Seq(Node) /\ Len(chain) \in Nat /\ latest \in 2 .. Len(chain)
      /\ IsChain(setup.event, chain) /\ WriterAt(chain, latest, wpc, wseq)
  BY ChainFacts DEF BaseInv, ChainNow
<1>3. c.index \in 2 .. Len(chain)
  BY <1>1, <1>2
<1> HIDE DEF c
<1>4. CASE chain[c.index].seq = 0
  <2>1. n = c.index + 1
    BY <1>4 DEF PackAt
  <2>2. /\ c.index > 2 /\ c.index < Len(chain) /\ chain[c.index + 1].seq # 0
        /\ chain[c.index + 1].seq = Num(chain, c.index)
        /\ Num(chain, c.index + 1) = Num(chain, c.index)
    BY <1>2, <1>3, <1>4, AtPosition
  <2>3. n < Len(chain) => n < latest
    <3>1. CASE latest = Len(chain)
      BY <3>1
    <3>2. CASE latest # Len(chain)
      <4>1. latest = Len(chain) - 1 /\ chain[latest].seq = 0
        BY <1>2, <3>2 DEF WriterAt
      <4>2. n # latest
        BY <2>1, <2>2, <4>1
      <4> QED BY <1>2, <1>3, <2>1, <4>1, <4>2
    <3> QED BY <3>1, <3>2
  <2> HIDE DEF n
  <2> QED BY <1>1, <1>2, <1>3, <1>4, <2>1, <2>2, <2>3 DEF c, n
<1>5. CASE chain[c.index].seq # 0
  <2>1. n = c.index
    BY <1>5 DEF PackAt
  <2>2. chain[c.index].seq = Num(chain, c.index)
    BY <1>5 DEF Num
  <2>3. n < Len(chain) => n < latest
    <3>1. CASE latest = Len(chain)
      BY <3>1
    <3>2. CASE latest # Len(chain)
      <4>1. latest = Len(chain) - 1 /\ chain[latest].seq = 0
        BY <1>2, <3>2 DEF WriterAt
      <4>2. n # latest
        BY <1>5, <2>1, <4>1
      <4> QED BY <1>2, <1>3, <2>1, <4>1, <4>2
    <3> QED BY <3>1, <3>2
  <2> HIDE DEF n
  <2> QED BY <1>1, <1>2, <1>3, <1>5, <2>1, <2>2, <2>3 DEF c, n
<1> QED BY <1>4, <1>5

\* a packer at work has a client
LEMMA HasClient ==
  ASSUME BaseInv, NEW p \in Packers, ppc[p] # "idle"
  PROVE  p \in DOMAIN pclients /\ p \in transporters
BY DEF BaseInv, ClientsNow, TypesNow

LEMMA SelfSame ==
  ASSUME NEW ch \in Seq(Node)
  PROVE  SameData(ch, ch)
BY DEF SameData

LEMMA PackOneSetBase ==
  ASSUME BaseInv, NEW p \in Packers, PackOneSet(p), UNCHANGED setup
  PROVE  BaseInv' /\ Kept(setup.event, chain, chain')
<1>1. /\ ppc[p] = "idle" /\ queue[p] # <<>>
      /\ UNCHANGED <<chain, cleanup, oldest, latest, wpc, wseq, valid, transporters, stale,
                     refreshDue, pclients, store, choked, inbox, end, cached, got>>
  BY DEF PackOneSet, writerVars, configVars, endVars
<1>2. SameData(chain, chain') /\ cleanup' \in 1 .. (Len(chain) + 1)
  BY <1>1, SelfSame, ChainFacts DEF BaseInv, ChainNow
<1>3. HoldNow'
  BY <1>1 DEF BaseInv, HoldNow
<1>4. CASE UNCHANGED <<ppc, copy>> /\ (queue' = queue \/ queue' = [queue EXCEPT ![p] = Tail(@)])
  <2>1. queue' \in [Packers -> Seq(Nat)]
    <3>1. queue \in [Packers -> Seq(Nat)]
      BY DEF BaseInv, TypesNow
    <3>2. Tail(queue[p]) \in Seq(Nat)
      BY <1>1, <3>1, HeadTailProperties
    <3> QED BY <1>4, <3>1, <3>2
  <2>2. TypesNow'
    BY <1>1, <1>4, <2>1 DEF BaseInv, TypesNow
  <2>3. ClientsNow'
    BY <1>1, <1>4 DEF BaseInv, ClientsNow
  <2>4. BusyNow'
    BY <1>1, <1>4 DEF BaseInv, BusyNow, TypesNow
  <2> QED BY <1>1, <1>2, <1>3, <2>2, <2>3, <2>4, AccessesBase
<1>5. CASE /\ p \in DOMAIN pclients
           /\ ppc' = [ppc EXCEPT ![p] = "access"] /\ copy' = [copy EXCEPT ![p] = pclients[p]]
           /\ queue' = queue
  <2>1. TypesNow'
    BY <1>1, <1>5 DEF BaseInv, TypesNow, PackerPlaces
  <2>2. ppc'[p] = "access" /\ \A q \in Packers \ {p} : ppc'[q] = ppc[q]
    BY <1>5 DEF BaseInv, TypesNow
  <2>3. ClientsNow'
    <3>1. DOMAIN pclients \subseteq Packers
      BY DEF BaseInv, TypesNow
    <3>2. \A q \in DOMAIN pclients : ClientAt(chain, latest, pclients[q], ppc'[q])
      BY <1>1, <2>2, <3>1 DEF BaseInv, ClientsNow, ClientAt
    <3>3. \A q \in Packers \ DOMAIN pclients : ppc'[q] = "idle" /\ store[q] = <<>>
      BY <1>5, <2>2 DEF BaseInv, ClientsNow
    <3> QED BY <1>1, <3>2, <3>3 DEF ClientsNow
  <2>4. BusyNow'
    BY <1>1, <1>5, <2>2 DEF BaseInv, BusyNow
  <2> QED BY <1>1, <1>2, <1>3, <2>1, <2>3, <2>4, AccessesBase
<1>6. \/ UNCHANGED <<ppc, copy>> /\ (queue' = queue \/ queue' = [queue EXCEPT ![p] = Tail(@)])
      \/ /\ p \in DOMAIN pclients
         /\ ppc' = [ppc EXCEPT ![p] = "access"] /\ copy' = [copy EXCEPT ![p] = pclients[p]]
         /\ queue' = queue
  BY DEF PackOneSet, BaseInv, TypesNow
<1> QED BY <1>4, <1>5, <1>6

\* accessPackData() takes the point
AccessTaken(p) ==
  LET c == pclients[p]
      n == PackAt(c)
  IN
  /\ valid /\ n < Len(chain) /\ cleanup <= n /\ c.accessed = None
  /\ chain[n].seq = Head(queue[p])
  /\ chain' = IF n # c.index
              THEN [chain EXCEPT ![n].ra = @ + 1, ![c.index].ra = @ - 1] ELSE chain
  /\ pclients' = [pclients EXCEPT ![p] = [c EXCEPT !.index = n, !.accessed = n]]
  /\ copy' = [copy EXCEPT ![p] = [copy[p] EXCEPT !.sendFull = copy[p].sendFull \/ n # c.index]]
  /\ ppc' = [ppc EXCEPT ![p] = "pack"]
  /\ fault' = fault

LEMMA AccessCases ==
  ASSUME BaseInv, NEW p \in Packers, AccessPackData(p)
  PROVE  /\ ppc[p] = "access" /\ p \in DOMAIN pclients
         /\ UNCHANGED <<cleanup, oldest, latest, wpc, wseq, valid, transporters, stale, refreshDue,
                        queue, store, choked, inbox, end, cached, got>>
         /\ \/ /\ UNCHANGED <<chain, pclients, ppc, copy>>
               /\ \/ ~valid \/ PackAt(pclients[p]) >= Len(chain) \/ PackAt(pclients[p]) < cleanup
                  \/ chain[PackAt(pclients[p])].seq # Head(queue[p])
                  \/ pclients[p].accessed # None
            \/ AccessTaken(p)
<1>1. /\ ppc[p] = "access"
      /\ UNCHANGED <<cleanup, oldest, latest, wpc, wseq, valid, transporters, stale, refreshDue,
                     queue, store, choked, inbox, end, cached, got>>
  BY DEF AccessPackData, configVars, endVars
<1>2. p \in DOMAIN pclients
  BY <1>1, HasClient
<1> DEFINE c == pclients[p]
           n == PackAt(c)
           wrong == \/ n >= Len(chain) \/ n < cleanup
                    \/ chain[n].seq # Head(queue[p]) \/ c.accessed # None
<1>3. CASE ~valid \/ wrong
  BY <1>1, <1>2, <1>3 DEF AccessPackData
<1>4. CASE valid /\ ~wrong
  <2>1. n \in Nat /\ Len(chain) \in Nat /\ cleanup \in Nat
    BY <1>2, PackAtFacts, ChainFacts DEF BaseInv
  <2>2. copy \in [Packers -> Client] /\ pclients \in [DOMAIN pclients -> Client]
    BY DEF BaseInv, TypesNow
  <2>3. /\ chain' = IF n # c.index
                    THEN [chain EXCEPT ![n].ra = @ + 1, ![c.index].ra = @ - 1] ELSE chain
        /\ pclients' = [pclients EXCEPT ![p].index = n, ![p].accessed = n]
        /\ copy' = [copy EXCEPT ![p].sendFull = @ \/ n # c.index]
        /\ ppc' = [ppc EXCEPT ![p] = "pack"] /\ fault' = fault
    BY <1>4 DEF AccessPackData
  <2>4. n < Len(chain) /\ cleanup <= n /\ c.accessed = None /\ chain[n].seq = Head(queue[p])
    BY <1>4, <2>1
  <2>5. pclients' = [pclients EXCEPT ![p] = [c EXCEPT !.index = n, !.accessed = n]]
    <3> HIDE DEF n
    <3> QED BY <1>2, <2>2, <2>3
  <2>6. copy' = [copy EXCEPT ![p] = [copy[p] EXCEPT !.sendFull = copy[p].sendFull \/ n # c.index]]
    <3> HIDE DEF n, c
    <3> QED BY <2>2, <2>3, Zenon
  <2>7. AccessTaken(p)
    BY <1>4, <2>3, <2>4, <2>5, <2>6 DEF AccessTaken
  <2> QED BY <1>1, <1>2, <2>7
<1> QED BY <1>3, <1>4

LEMMA AccessTakenBase ==
  ASSUME BaseInv, NEW p \in DOMAIN pclients, p \in Packers, ppc[p] = "access", AccessTaken(p),
         UNCHANGED <<setup, cleanup, oldest, latest, wpc, wseq, valid, transporters, stale, refreshDue,
                     queue, store, choked, inbox, end, cached, got>>
  PROVE  BaseInv' /\ Kept(setup.event, chain, chain')
<1> DEFINE c == pclients[p]
           n == PackAt(c)
           c2 == [c EXCEPT !.index = n, !.accessed = n]
<1>1. /\ c \in Client /\ c.index \in 2 .. latest /\ c.index \in 2 .. Len(chain)
      /\ n \in 2 .. Len(chain) /\ n \in Nat /\ (n = c.index \/ n = c.index + 1)
      /\ chain[n].seq # 0 /\ (n < Len(chain) => n < latest)
  BY PackAtFacts
<1>2. /\ valid /\ n < Len(chain)
      /\ chain' = IF n # c.index
                  THEN [chain EXCEPT ![n].ra = @ + 1, ![c.index].ra = @ - 1] ELSE chain
      /\ pclients' = [pclients EXCEPT ![p] = c2]
      /\ copy' = [copy EXCEPT ![p] = [copy[p] EXCEPT !.sendFull = copy[p].sendFull \/ n # c.index]]
      /\ ppc' = [ppc EXCEPT ![p] = "pack"]
  BY DEF AccessTaken
<1>3. /\ chain \in Seq(Node) /\ Len(chain) \in Nat /\ latest \in 2 .. Len(chain)
      /\ cleanup \in Nat /\ oldest \in Nat /\ IsChain(setup.event, chain)
      /\ cleanup \in 1 .. (Len(chain) + 1)
  BY ChainFacts DEF BaseInv, ChainNow
<1> HIDE DEF n, c
<1>4. c2 \in Client /\ c2.index = n /\ c2.accessed = n
  BY <1>1 DEF Client
<1>5. TypesNow'
  <2>1. copy \in [Packers -> Client] /\ ppc \in [Packers -> PackerPlaces]
        /\ pclients \in [DOMAIN pclients -> Client]
    BY DEF BaseInv, TypesNow
  <2>2. [copy[p] EXCEPT !.sendFull = copy[p].sendFull \/ n # c.index] \in Client
    <3>1. copy[p] \in Client /\ (copy[p].sendFull \/ n # c.index) \in BOOLEAN
      BY <2>1
    <3> QED BY <3>1 DEF Client
  <2>3. copy' \in [Packers -> Client]
    BY <1>2, <2>1, <2>2
  <2>4. ppc' \in [Packers -> PackerPlaces]
    BY <1>2, <2>1 DEF PackerPlaces
  <2>5. pclients' \in [DOMAIN pclients' -> Client] /\ DOMAIN pclients' = DOMAIN pclients
    <3> HIDE DEF c2
    <3> QED BY <1>2, <1>4, <2>1
  <2> QED BY <2>3, <2>4, <2>5 DEF BaseInv, TypesNow
<1>6. SameData(chain, chain')
  <2>1. CASE n = c.index
    BY <1>2, <1>3, <2>1, SelfSame
  <2>2. CASE n # c.index
    <3>1. chain' = [chain EXCEPT ![n].ra = @ + 1, ![c.index].ra = @ - 1]
      BY <1>2, <2>2
    <3>2. n \in 1 .. Len(chain) /\ c.index \in 1 .. Len(chain)
      BY <1>1, <1>3
    <3>3. AccessMoved(chain, chain', c.index, n)
      BY <1>3, <2>2, <3>1, <3>2, TwoAccesses
    <3> QED BY <3>3 DEF AccessMoved
  <2> QED BY <2>1, <2>2
<1>7. Len(chain') = Len(chain) /\ \A i \in 1 .. Len(chain) : chain'[i].seq = chain[i].seq
  BY <1>6 DEF SameData
<1>8. /\ DOMAIN pclients' = DOMAIN pclients /\ pclients'[p] = c2
      /\ \A q \in DOMAIN pclients \ {p} : pclients'[q] = pclients[q]
      /\ ppc'[p] = "pack" /\ \A q \in Packers \ {p} : ppc'[q] = ppc[q]
  BY <1>2 DEF BaseInv, TypesNow
<1>9. ClientsNow'
  <2>1. ASSUME NEW q \in DOMAIN pclients PROVE ClientAt(chain', latest, pclients'[q], ppc'[q])
    <3>1. CASE q = p
      <4>1. n \in 2 .. latest /\ n < latest /\ chain'[n].seq # 0
        <5>1. n < latest /\ n \in 1 .. Len(chain)
          BY <1>1, <1>2, <1>3
        <5>2. chain'[n].seq # 0
          BY <1>1, <1>7, <5>1
        <5> QED BY <1>1, <1>3, <5>1, <5>2
      <4> QED BY <1>4, <1>8, <3>1, <4>1 DEF ClientAt
    <3>2. CASE q # p
      <4>1. pclients'[q] = pclients[q] /\ ppc'[q] = ppc[q]
        BY <1>8, <3>2 DEF BaseInv, TypesNow
      <4>2. ClientAt(chain, latest, pclients[q], ppc[q])
        BY DEF BaseInv, ClientsNow
      <4> QED BY <1>3, <1>7, <4>1, <4>2 DEF ClientAt
    <3> QED BY <3>1, <3>2
  <2>2. \A q \in Packers \ DOMAIN pclients : ppc'[q] = "idle" /\ store[q] = <<>>
    BY <1>8 DEF BaseInv, ClientsNow
  <2> QED BY <1>8, <2>1, <2>2 DEF ClientsNow
<1>10. HoldNow'
  <2>1. Hold(chain, cleanup, oldest, pclients)
    BY <1>2 DEF BaseInv, HoldNow
  <2>2. CASE n = c.index
    <3>1. chain' = chain
      BY <1>2, <2>2
    <3>2. \A k : At(pclients', k) = At(pclients, k)
      <4>1. c2.index = pclients[p].index
        BY <1>4, <2>2 DEF c
      <4> HIDE DEF c2
      <4> TAKE k
      <4>2. At([pclients EXCEPT ![p] = c2], k) = At(pclients, k)
        BY <4>1, AtSame
      <4> QED BY <1>2, <4>2
    <3>3. \A q \in DOMAIN pclients' : pclients'[q].index = pclients[q].index
      BY <1>4, <1>8, <2>2 DEF c
    <3>4. Hold(chain, cleanup, oldest, pclients')
      BY <1>8, <2>1, <3>2, <3>3 DEF Hold
    <3> QED BY <3>1, <3>4 DEF HoldNow
  <2>3. CASE n # c.index
    <3>1. AccessMoved(chain, chain', c.index, n)
      <4>1. chain' = [chain EXCEPT ![n].ra = @ + 1, ![c.index].ra = @ - 1]
        BY <1>2, <2>3
      <4>2. n \in 1 .. Len(chain) /\ c.index \in 1 .. Len(chain)
        BY <1>1, <1>3
      <4> QED BY <1>3, <2>3, <4>1, <4>2, TwoAccesses
    <3>2. IsFiniteSet(DOMAIN pclients) /\ c.index < n /\ c.index \in Nat /\ pclients[p].index = c.index
      BY <1>1, <2>3, ClientsFinite DEF BaseInv, c
    <3>3. Hold(chain', cleanup, oldest, pclients')
      <4> HIDE DEF c2
      <4>1. Hold(chain', cleanup, oldest, [pclients EXCEPT ![p] = c2])
        BY <1>1, <1>3, <1>4, <2>1, <3>1, <3>2, MoveHold
      <4> QED BY <1>2, <4>1
    <3> QED BY <3>3 DEF HoldNow
  <2> QED BY <2>2, <2>3
<1>11. BusyNow'
  BY <1>8 DEF BaseInv, BusyNow
<1> QED BY <1>3, <1>5, <1>6, <1>9, <1>10, <1>11, AccessesBase

LEMMA AccessBase ==
  ASSUME BaseInv, NEW p \in Packers, AccessPackData(p), UNCHANGED setup
  PROVE  BaseInv' /\ Kept(setup.event, chain, chain')
<1>1. CASE AccessTaken(p)
  BY <1>1, AccessCases, AccessTakenBase
<1>2. CASE UNCHANGED <<chain, pclients, ppc, copy>>
  <2>1. TypesNow' /\ BusyNow' /\ \A q \in Packers \ DOMAIN pclients : store'[q] = <<>>
    BY <1>2, AccessCases DEF BaseInv, TypesNow, ClientsNow, BusyNow
  <2> QED BY <1>2, <2>1, AccessCases, SameBase
<1> QED BY <1>1, <1>2, AccessCases

\* the point a packer is at work on
LEMMA AtWorkPoint ==
  ASSUME BaseInv, NEW p \in Packers, ppc[p] \in {"pack", "complete"}
  PROVE  LET c == pclients[p]
             n == c.accessed IN
         /\ p \in DOMAIN pclients /\ c \in Client
         /\ n = c.index /\ n \in Nat /\ n \in 2 .. latest /\ n < latest
         /\ n \in 1 .. Len(chain) /\ n + 1 \in 1 .. Len(chain) /\ n \in 2 .. (Len(chain) - 1)
         /\ chain[n].seq # 0 /\ chain[n].seq \in Nat /\ chain[n].time \in Nat
         /\ chain[n + 1].time \in Nat
<1> DEFINE c == pclients[p]
<1>1. p \in DOMAIN pclients
  BY HasClient
<1>2. c \in Client
  BY <1>1 DEF BaseInv, TypesNow
<1>3. c.accessed = c.index /\ c.index < latest /\ chain[c.index].seq # 0 /\ c.index \in 2 .. latest
  BY <1>1 DEF BaseInv, ClientsNow, ClientAt
<1>4. /\ Len(chain) \in Nat /\ latest \in 2 .. Len(chain)
      /\ \A i \in 1 .. Len(chain) : chain[i].seq \in Nat /\ chain[i].time \in Nat
  BY ChainFacts DEF BaseInv
<1> HIDE DEF c
<1> QED BY <1>1, <1>2, <1>3, <1>4 DEF c

\* packComplete(), and the throwing out of a point
LEMMA AdvanceBase ==
  ASSUME BaseInv, NEW p \in Packers, ppc[p] \in {"pack", "complete"},
         pclients' = [pclients EXCEPT ![p] = Advanced(pclients[p])],
         chain' = Latched(pclients[p]), queue' = [queue EXCEPT ![p] = Tail(queue[p])],
         ppc' = [ppc EXCEPT ![p] = "idle"], choked' \in [Packers -> BOOLEAN],
         UNCHANGED <<setup, cleanup, oldest, latest, wpc, wseq, valid, transporters, stale, refreshDue,
                     copy, store, inbox, end, cached, got>>
  PROVE  BaseInv' /\ Kept(setup.event, chain, chain')
<1> DEFINE c == pclients[p]
           n == c.accessed
           c2 == Advanced(c)
<1>1. /\ p \in DOMAIN pclients /\ c \in Client
      /\ n = c.index /\ n \in Nat /\ n \in 2 .. latest /\ n < latest
      /\ n \in 1 .. Len(chain) /\ n + 1 \in 1 .. Len(chain)
  BY AtWorkPoint
<1>2. /\ Len(chain) \in Nat /\ latest \in 2 .. Len(chain) /\ IsChain(setup.event, chain)
      /\ cleanup \in Nat /\ oldest \in Nat /\ cleanup \in 1 .. (Len(chain) + 1)
  BY ChainFacts DEF BaseInv, ChainNow
<1> HIDE DEF c
<1>3. c2 \in Client /\ c2.index = n + 1 /\ c2.accessed = None
  <2>1. c2 = [c EXCEPT !.index = n + 1, !.accessed = None]
    BY <1>1 DEF Advanced
  <2>2. n + 1 \in Nat
    BY <1>1
  <2> HIDE DEF n, c2
  <2> QED BY <1>1, <2>1, <2>2 DEF Client, None
<1> HIDE DEF c2
<1>4. AccessMoved(chain, chain', n, n + 1)
  <2>1. chain' = [chain EXCEPT ![n + 1].ra = @ + 1, ![n].ra = @ - 1]
    BY DEF Latched, c
  <2>2. n # n + 1
    BY <1>1
  <2> HIDE DEF n
  <2> QED BY <1>1, <1>2, <2>1, <2>2, TwoAccesses
<1>5. SameData(chain, chain')
  BY <1>4 DEF AccessMoved
<1>6. Len(chain') = Len(chain) /\ \A i \in 1 .. Len(chain) : chain'[i].seq = chain[i].seq
  BY <1>5 DEF SameData
<1>7. pclients' = [pclients EXCEPT ![p] = c2] /\ pclients \in [DOMAIN pclients -> Client]
      /\ ppc \in [Packers -> PackerPlaces] /\ queue \in [Packers -> Seq(Nat)]
  BY DEF c2, c, BaseInv, TypesNow
<1>8. /\ DOMAIN pclients' = DOMAIN pclients /\ pclients'[p] = c2
      /\ \A q \in DOMAIN pclients \ {p} : pclients'[q] = pclients[q]
      /\ ppc'[p] = "idle" /\ \A q \in Packers \ {p} : ppc'[q] = ppc[q]
      /\ \A q \in Packers \ {p} : queue'[q] = queue[q]
  BY <1>1, <1>7
<1>9. TypesNow'
  <2>1. pclients' \in [DOMAIN pclients' -> Client]
    BY <1>3, <1>7
  <2>2. ppc' \in [Packers -> PackerPlaces]
    BY <1>7 DEF PackerPlaces
  <2>3. queue' \in [Packers -> Seq(Nat)]
    <3>1. queue[p] # <<>> /\ queue[p] \in Seq(Nat)
      BY <1>7 DEF BaseInv, BusyNow
    <3>2. Tail(queue[p]) \in Seq(Nat)
      BY <3>1, HeadTailProperties
    <3> QED BY <1>7, <3>2
  <2> QED BY <1>8, <2>1, <2>2, <2>3 DEF BaseInv, TypesNow
<1>10. ClientsNow'
  <2>1. ASSUME NEW q \in DOMAIN pclients PROVE ClientAt(chain', latest, pclients'[q], ppc'[q])
    <3>1. CASE q = p
      <4>1. n + 1 \in 2 .. latest
        BY <1>1, <1>2
      <4> QED BY <1>3, <1>8, <3>1, <4>1 DEF ClientAt
    <3>2. CASE q # p
      <4>1. pclients'[q] = pclients[q] /\ ppc'[q] = ppc[q]
        BY <1>8, <3>2 DEF BaseInv, TypesNow
      <4>2. ClientAt(chain, latest, pclients[q], ppc[q])
        BY DEF BaseInv, ClientsNow
      <4> QED BY <1>2, <1>6, <4>1, <4>2 DEF ClientAt
    <3> QED BY <3>1, <3>2
  <2>2. \A q \in Packers \ DOMAIN pclients : ppc'[q] = "idle" /\ store[q] = <<>>
    BY <1>8 DEF BaseInv, ClientsNow
  <2> QED BY <1>8, <2>1, <2>2 DEF ClientsNow
<1>11. HoldNow'
  <2> SUFFICES ASSUME valid PROVE Hold(chain', cleanup, oldest, [pclients EXCEPT ![p] = c2])
    BY <1>7 DEF HoldNow
  <2>1. Hold(chain, cleanup, oldest, pclients) /\ IsFiniteSet(DOMAIN pclients)
    BY ClientsFinite DEF BaseInv, HoldNow
  <2>2. n + 1 \in Nat /\ n < n + 1 /\ pclients[p].index = n
    BY <1>1 DEF c
  <2> HIDE DEF n
  <2> QED BY <1>1, <1>2, <1>3, <1>4, <2>1, <2>2, MoveHold
<1>12. BusyNow'
  BY <1>8 DEF BaseInv, BusyNow
<1> QED BY <1>2, <1>5, <1>9, <1>10, <1>11, <1>12, AccessesBase

LEMMA PackCompleteBase ==
  ASSUME BaseInv, NEW p \in Packers, PackComplete(p), UNCHANGED setup
  PROVE  BaseInv' /\ Kept(setup.event, chain, chain')
<1>1. /\ ppc[p] \in {"pack", "complete"}
      /\ pclients' = [pclients EXCEPT ![p] = Advanced(pclients[p])]
      /\ chain' = Latched(pclients[p]) /\ queue' = [queue EXCEPT ![p] = Tail(queue[p])]
      /\ ppc' = [ppc EXCEPT ![p] = "idle"]
      /\ UNCHANGED <<cleanup, oldest, latest, wpc, wseq, valid, transporters, stale, refreshDue,
                     copy, store, choked, inbox, end, cached, got>>
  BY DEF PackComplete, configVars, endVars
<1>2. choked' \in [Packers -> BOOLEAN]
  BY <1>1 DEF BaseInv, TypesNow
<1> QED BY <1>1, <1>2, AdvanceBase

\* what packData() does, by case
PackFits(p) ==
  LET c == copy[p]
      n == pclients[p].accessed
      m == Message(c, n)
  IN
  /\ Used(store[p]) + Size(m) <= Capacity
  /\ store' = [store EXCEPT ![p] = Append(store[p], m)]
  /\ pclients' = [pclients EXCEPT ![p] =
        [Packed(c, n, m.end) EXCEPT !.index = pclients[p].index, !.accessed = n]]
  /\ ppc' = [ppc EXCEPT ![p] = "complete"]
  /\ UNCHANGED <<chain, queue, choked>>
PackThrown(p) ==
  /\ ~(Used(store[p]) + Size(Message(copy[p], pclients[p].accessed)) <= Capacity)
  /\ p \in setup.fill /\ store[p] = <<>>
  /\ pclients' = [pclients EXCEPT ![p] = Advanced(pclients[p])]
  /\ chain' = Latched(pclients[p])
  /\ queue' = [queue EXCEPT ![p] = Tail(queue[p])]
  /\ choked' = [choked EXCEPT ![p] = TRUE]
  /\ ppc' = [ppc EXCEPT ![p] = "idle"]
  /\ UNCHANGED store
PackWaits(p) ==
  /\ ~(Used(store[p]) + Size(Message(copy[p], pclients[p].accessed)) <= Capacity)
  /\ pclients' = [pclients EXCEPT ![p] = [pclients[p] EXCEPT !.accessed = None]]
  /\ choked' = [choked EXCEPT ![p] = TRUE]
  /\ ppc' = [ppc EXCEPT ![p] = "idle"]
  /\ UNCHANGED <<chain, queue, store>>

LEMMA PackDataCases ==
  ASSUME BaseInv, NEW p \in Packers, PackData(p)
  PROVE  /\ ppc[p] = "pack" /\ p \in DOMAIN pclients
         /\ PackFits(p) \/ PackThrown(p) \/ PackWaits(p)
         /\ UNCHANGED <<cleanup, oldest, latest, wpc, wseq, valid, transporters, stale, refreshDue,
                        copy, inbox, end, cached, got, fault>>
<1>1. /\ ppc[p] = "pack"
      /\ UNCHANGED <<cleanup, oldest, latest, wpc, wseq, valid, transporters, stale, refreshDue,
                     copy, inbox, end, cached, got, fault>>
  BY DEF PackData, configVars, endVars
<1>2. p \in DOMAIN pclients
  BY <1>1, HasClient
<1> DEFINE n == pclients[p].accessed
           m == Message(copy[p], n)
           fits == Used(store[p]) + Size(m) <= Capacity
<1>3. CASE fits
  <2>1. PackFits(p)
    BY <1>3 DEF PackData, PackFits
  <2> QED BY <1>1, <1>2, <2>1
<1>4. CASE ~fits /\ p \in setup.fill /\ store[p] = <<>>
  <2>1. PackThrown(p)
    BY <1>4 DEF PackData, PackThrown
  <2> QED BY <1>1, <1>2, <2>1
<1>5. CASE ~fits /\ ~(p \in setup.fill /\ store[p] = <<>>)
  <2>1. /\ pclients' = [pclients EXCEPT ![p].accessed = None]
        /\ choked' = [choked EXCEPT ![p] = TRUE]
        /\ ppc' = [ppc EXCEPT ![p] = "idle"]
        /\ UNCHANGED <<chain, queue, store>>
    BY <1>5 DEF PackData
  <2>2. PackWaits(p)
    BY <1>5, <2>1 DEF PackWaits
  <2> QED BY <1>1, <1>2, <2>2
<1> QED BY <1>3, <1>4, <1>5

\* a message and the client after it have their types
LEMMA MessageTyped ==
  ASSUME BaseInv, NEW p \in Packers, ppc[p] = "pack"
  PROVE  LET c == copy[p]
             n == pclients[p].accessed
             m == Message(c, n)
             c2 == [Packed(c, n, m.end) EXCEPT !.index = pclients[p].index, !.accessed = n] IN
         /\ m \in Msg /\ m.full = c.sendFull /\ m.entry = chain[n].seq
         /\ m.jump = (IF ~setup.event /\ c.vend # chain[n].time THEN chain[n].time ELSE None)
         /\ m.base = (IF c.sendFull THEN None ELSE c.prev)
         /\ m.end = (IF setup.event THEN chain[n].time ELSE chain[n + 1].time)
         /\ c2 \in Client /\ c2.index = n /\ c2.accessed = n /\ c2.prev = chain[n].seq
         /\ c2.vend = (IF setup.event THEN c.vend ELSE m.end)
         /\ c2.sendFull = (c.sendFull /\ setup.full)
<1> DEFINE c == copy[p]
           n == pclients[p].accessed
           m == Message(c, n)
           c1 == Packed(c, n, m.end)
           c2 == [c1 EXCEPT !.index = pclients[p].index, !.accessed = n]
<1>1. /\ pclients[p].accessed = pclients[p].index /\ n \in Nat
      /\ chain[n].seq \in Nat /\ chain[n].time \in Nat /\ chain[n + 1].time \in Nat
  BY AtWorkPoint
<1>2. c \in Client /\ setup.event \in BOOLEAN /\ setup.full \in BOOLEAN
  BY SetupTyped DEF BaseInv, TypesNow
<1>3. pclients[p].index = n
  BY <1>1
<1>4. /\ c.vend \in Nat \cup {None} /\ c.prev \in Nat \cup {None} /\ c.sendFull \in BOOLEAN
  BY <1>2, ClientFields
<1> HIDE DEF n, c
<1>5. m = [full |-> c.sendFull,
           jump |-> IF ~setup.event /\ c.vend # chain[n].time THEN chain[n].time ELSE None,
           entry |-> chain[n].seq, base |-> IF c.sendFull THEN None ELSE c.prev,
           end |-> IF setup.event THEN chain[n].time ELSE chain[n + 1].time]
  BY DEF Message, EventType
<1>6. /\ m.full = c.sendFull /\ m.entry = chain[n].seq
      /\ m.jump = (IF ~setup.event /\ c.vend # chain[n].time THEN chain[n].time ELSE None)
      /\ m.base = (IF c.sendFull THEN None ELSE c.prev)
      /\ m.end = (IF setup.event THEN chain[n].time ELSE chain[n + 1].time)
      /\ m.end \in Nat
  <2>1. m.full = c.sendFull
    BY <1>4, <1>5
  <2> QED BY <1>1, <1>5, <2>1
<1>7. m \in Msg
  <2>1. (IF ~setup.event /\ c.vend # chain[n].time THEN chain[n].time ELSE None) \in Nat \cup {None}
        /\ (IF c.sendFull THEN None ELSE c.prev) \in Nat \cup {None}
        /\ (IF setup.event THEN chain[n].time ELSE chain[n + 1].time) \in Nat
    BY <1>1, <1>4
  <2> QED BY <1>1, <1>4, <1>5, <2>1 DEF Msg
<1> HIDE DEF m
<1>8. c1 = [c EXCEPT !.vend = IF setup.event THEN c.vend ELSE m.end, !.prev = chain[n].seq,
                     !.sendFull = IF c.sendFull THEN setup.full ELSE c.sendFull]
  BY DEF Packed, EventType, FullPackMode
<1>9. PICK v \in Nat \cup {None} : v = IF setup.event THEN c.vend ELSE m.end
  BY <1>4, <1>6
<1>10. PICK f \in BOOLEAN : f = IF c.sendFull THEN setup.full ELSE c.sendFull
  BY <1>2, <1>4
<1>11. c1 = [c EXCEPT !.vend = v, !.prev = chain[n].seq, !.sendFull = f]
  BY <1>8, <1>9, <1>10, Zenon
<1>12. PICK s \in Nat : s = chain[n].seq
  BY <1>1
<1>13. c1 \in Client /\ c1.vend = v /\ c1.prev = s /\ c1.sendFull = f
  <2>1. c1 = [c EXCEPT !.vend = v, !.prev = s, !.sendFull = f]
    BY <1>11, <1>12
  <2> HIDE DEF c1
  <2> QED BY <1>2, <2>1 DEF Client
<1> HIDE DEF c1
<1>14. c2 \in Client /\ c2.index = n /\ c2.accessed = n /\ c2.prev = s /\ c2.vend = v /\ c2.sendFull = f
  <2>1. c2 = [c1 EXCEPT !.index = n, !.accessed = n]
    BY <1>3
  <2> HIDE DEF c2
  <2> QED BY <1>1, <1>13, <2>1 DEF Client
<1> HIDE DEF c2
<1>15. f = (c.sendFull /\ setup.full)
  BY <1>2, <1>4, <1>10
<1>16. c2.sendFull = (c.sendFull /\ setup.full)
  BY <1>14, <1>15, Zenon
<1> QED BY <1>6, <1>7, <1>9, <1>12, <1>14, <1>16, Zenon DEF c2, c1, m, n, c

\* one client changes, its index does not
LEMMA ClientChanged ==
  ASSUME BaseInv, NEW p \in DOMAIN pclients, NEW c \in Client, c.index = pclients[p].index,
         pclients' = [pclients EXCEPT ![p] = c], NEW w \in PackerPlaces,
         ppc' = [ppc EXCEPT ![p] = w], ClientAt(chain, latest, c, w),
         w = "idle" \/ ppc[p] # "idle",
         UNCHANGED <<setup, chain, cleanup, oldest, latest, wpc, wseq, valid, transporters, stale,
                     refreshDue, queue, copy, inbox, end, cached, got>>,
         store' \in [Packers -> Seq(Msg)], choked' \in [Packers -> BOOLEAN],
         \A q \in Packers \ {p} : store'[q] = store[q]
  PROVE  BaseInv' /\ Kept(setup.event, chain, chain')
<1>1. pclients \in [DOMAIN pclients -> Client] /\ ppc \in [Packers -> PackerPlaces] /\ p \in Packers
  BY DEF BaseInv, TypesNow
<1>2. /\ DOMAIN pclients' = DOMAIN pclients /\ pclients'[p] = c
      /\ \A q \in DOMAIN pclients \ {p} : pclients'[q] = pclients[q]
      /\ ppc'[p] = w /\ \A q \in Packers \ {p} : ppc'[q] = ppc[q]
      /\ pclients' \in [DOMAIN pclients' -> Client] /\ ppc' \in [Packers -> PackerPlaces]
  BY <1>1
<1>3. TypesNow'
  BY <1>2 DEF BaseInv, TypesNow
<1>4. ClientsNow'
  <2>1. \A q \in DOMAIN pclients : ClientAt(chain, latest, pclients'[q], ppc'[q])
    <3> TAKE q \in DOMAIN pclients
    <3>1. CASE q = p
      BY <1>2, <3>1
    <3>2. CASE q # p
      <4>1. q \in Packers /\ pclients'[q] = pclients[q] /\ ppc'[q] = ppc[q]
        BY <1>2, <3>2 DEF BaseInv, TypesNow
      <4> QED BY <4>1 DEF BaseInv, ClientsNow
    <3> QED BY <3>1, <3>2
  <2>2. \A q \in Packers \ DOMAIN pclients : ppc'[q] = "idle" /\ store'[q] = <<>>
    BY <1>2 DEF BaseInv, ClientsNow
  <2> QED BY <1>2, <2>1, <2>2 DEF ClientsNow
<1>5. HoldNow'
  <2> SUFFICES ASSUME valid PROVE Hold(chain, cleanup, oldest, pclients')
    BY DEF HoldNow
  <2>1. Hold(chain, cleanup, oldest, pclients)
    BY DEF BaseInv, HoldNow
  <2>2. \A q \in DOMAIN pclients' : pclients'[q].index = pclients[q].index
    BY <1>2
  <2>3. \A k : At(pclients', k) = At(pclients, k)
    BY <1>2, <2>2 DEF At
  <2> QED BY <1>2, <2>1, <2>2, <2>3 DEF Hold
<1>6. BusyNow'
  BY <1>1, <1>2 DEF BaseInv, BusyNow
<1>7. SameData(chain, chain') /\ cleanup' \in 1 .. (Len(chain) + 1)
  BY SelfSame, ChainFacts DEF BaseInv, ChainNow
<1> QED BY <1>3, <1>4, <1>5, <1>6, <1>7, AccessesBase

LEMMA PackDataBase ==
  ASSUME BaseInv, NEW p \in Packers, PackData(p), UNCHANGED setup
  PROVE  BaseInv' /\ Kept(setup.event, chain, chain')
<1>1. /\ ppc[p] = "pack" /\ p \in DOMAIN pclients
      /\ PackFits(p) \/ PackThrown(p) \/ PackWaits(p)
      /\ UNCHANGED <<setup, cleanup, oldest, latest, wpc, wseq, valid, transporters, stale, refreshDue,
                     copy, inbox, end, cached, got, fault>>
  BY PackDataCases
<1>2. ClientAt(chain, latest, pclients[p], "pack") /\ pclients[p] \in Client
  BY <1>1 DEF BaseInv, ClientsNow, TypesNow
<1>3. choked \in [Packers -> BOOLEAN] /\ store \in [Packers -> Seq(Msg)]
  BY DEF BaseInv, TypesNow
<1>4. CASE PackFits(p)
  <2> DEFINE n == pclients[p].accessed
             m == Message(copy[p], n)
             c2 == [Packed(copy[p], n, m.end) EXCEPT !.index = pclients[p].index, !.accessed = n]
  <2>1. m \in Msg /\ c2 \in Client /\ c2.index = n /\ c2.accessed = n
    BY <1>1, MessageTyped
  <2>2. /\ store' = [store EXCEPT ![p] = Append(store[p], m)]
        /\ pclients' = [pclients EXCEPT ![p] = c2]
        /\ ppc' = [ppc EXCEPT ![p] = "complete"]
        /\ UNCHANGED <<chain, queue, choked>>
    BY <1>4 DEF PackFits
  <2> HIDE DEF m, c2
  <2>3. n = pclients[p].index
    BY <1>2 DEF ClientAt
  <2>4. ClientAt(chain, latest, c2, "complete") /\ c2.index = pclients[p].index
    BY <1>2, <2>1, <2>3 DEF ClientAt
  <2>5. Append(store[p], m) \in Seq(Msg)
    BY <1>3, <2>1, AppendProperties
  <2>6. store' \in [Packers -> Seq(Msg)] /\ \A q \in Packers \ {p} : store'[q] = store[q]
    BY <1>3, <2>2, <2>5
  <2>7. "complete" \in PackerPlaces /\ choked' \in [Packers -> BOOLEAN]
    BY <1>3, <2>2 DEF PackerPlaces
  <2> QED BY <1>1, <2>1, <2>2, <2>4, <2>6, <2>7, ClientChanged
<1>5. CASE PackThrown(p)
  <2>1. /\ pclients' = [pclients EXCEPT ![p] = Advanced(pclients[p])]
        /\ chain' = Latched(pclients[p]) /\ queue' = [queue EXCEPT ![p] = Tail(queue[p])]
        /\ ppc' = [ppc EXCEPT ![p] = "idle"] /\ UNCHANGED store
        /\ choked' = [choked EXCEPT ![p] = TRUE]
    BY <1>5 DEF PackThrown
  <2>2. choked' \in [Packers -> BOOLEAN]
    BY <1>3, <2>1
  <2> QED BY <1>1, <2>1, <2>2, AdvanceBase
<1>6. CASE PackWaits(p)
  <2> DEFINE c2 == [pclients[p] EXCEPT !.accessed = None]
  <2>1. /\ pclients' = [pclients EXCEPT ![p] = c2] /\ ppc' = [ppc EXCEPT ![p] = "idle"]
        /\ UNCHANGED <<chain, queue, store>> /\ choked' = [choked EXCEPT ![p] = TRUE]
    BY <1>6 DEF PackWaits
  <2>2. c2 \in Client /\ c2.index = pclients[p].index /\ c2.accessed = None
    BY <1>2 DEF Client, None
  <2> HIDE DEF c2
  <2>3. ClientAt(chain, latest, c2, "idle")
    BY <1>2, <2>2 DEF ClientAt
  <2>4. "idle" \in PackerPlaces /\ choked' \in [Packers -> BOOLEAN] /\ store' \in [Packers -> Seq(Msg)]
        /\ \A q \in Packers \ {p} : store'[q] = store[q]
    BY <1>3, <2>1 DEF PackerPlaces
  <2> QED BY <1>1, <2>1, <2>2, <2>3, <2>4, ClientChanged
<1> QED BY <1>1, <1>4, <1>5, <1>6

LEMMA SendBase ==
  ASSUME BaseInv, NEW p \in Packers, SendStore(p), UNCHANGED setup
  PROVE  BaseInv' /\ Kept(setup.event, chain, chain')
<1>1. /\ inbox' = [e \in Ends |-> IF Via[e] = p /\ end[e] # "absent"
                                  THEN inbox[e] \o store[p] ELSE inbox[e]]
      /\ store' = [store EXCEPT ![p] = <<>>] /\ choked' = [choked EXCEPT ![p] = FALSE]
      /\ UNCHANGED <<chain, cleanup, oldest, latest, wpc, wseq, valid, transporters, stale, refreshDue,
                     pclients, queue, ppc, copy, end, cached, got>>
  BY DEF SendStore, writerVars, configVars
<1>2. store \in [Packers -> Seq(Msg)] /\ inbox \in [Ends -> Seq(Msg)] /\ choked \in [Packers -> BOOLEAN]
  BY DEF BaseInv, TypesNow
<1>3. \A e \in Ends : inbox[e] \o store[p] \in Seq(Msg)
  BY <1>2, ConcatProperties
<1>4. inbox' \in [Ends -> Seq(Msg)]
  BY <1>1, <1>2, <1>3
<1>5. <<>> \in Seq(Msg)
  BY EmptySeq
<1>6. store' \in [Packers -> Seq(Msg)] /\ choked' \in [Packers -> BOOLEAN]
      /\ store'[p] = <<>> /\ \A q \in Packers \ {p} : store'[q] = store[q]
  BY <1>1, <1>2, <1>5
<1>7. TypesNow'
  BY <1>1, <1>4, <1>6 DEF BaseInv, TypesNow
<1>8. BusyNow' /\ \A q \in Packers \ DOMAIN pclients : store'[q] = <<>>
  BY <1>1, <1>6 DEF BaseInv, BusyNow, ClientsNow
<1> QED BY <1>1, <1>7, <1>8, SameBase

\* the ends leave the writer's node alone
LEMMA EndBase ==
  ASSUME BaseInv, UNCHANGED <<setup, writerVars, configVars, packVars>>,
         inbox' \in [Ends -> Seq(Msg)], cached' \in [Ends -> Seq(Msg)],
         end' \in [Ends -> EndStates], got' \in [Ends -> Seq(Rec)],
         \A e \in Ends : end'[e] = "caching" => cached'[e] # <<>>
  PROVE  BaseInv' /\ Kept(setup.event, chain, chain')
<1>1. UNCHANGED <<setup, chain, cleanup, oldest, latest, wpc, wseq, valid, transporters, stale, refreshDue,
                  pclients, queue, ppc, copy, store, choked>>
  BY DEF writerVars, configVars, packVars
<1>2. TypesNow'
  BY <1>1 DEF BaseInv, TypesNow
<1>3. BusyNow' /\ \A q \in Packers \ DOMAIN pclients : store'[q] = <<>>
  BY <1>1 DEF BaseInv, BusyNow, ClientsNow
<1> QED BY <1>1, <1>2, <1>3, SameBase

\* what newData() does at an end
LEMMA PutDoes ==
  ASSUME got \in [Ends -> Seq(Rec)], NEW e \in Ends, NEW seq \in Nat, NEW start \in Nat,
         NEW endtime \in Nat, Put(e, seq, start, endtime)
  PROVE  /\ LastTime(e) \in Nat
         /\ \/ got' = got /\ ~EventType /\ ~(endtime > LastTime(e))
            \/ \E g \in Rec :
                 /\ got' = [got EXCEPT ![e] = Append(got[e], g)]
                 /\ g.seq = seq /\ g.end = endtime
                 /\ ~EventType => g.start = IF got[e] = <<>> \/ LastTime(e) <= start
                                            THEN start ELSE LastTime(e)
<1>1. LastTime(e) \in Nat
  <2>1. CASE got[e] = <<>>
    BY <2>1 DEF LastTime
  <2>2. CASE got[e] # <<>>
    <3>1. Len(got[e]) \in Nat \ {0} /\ got[e] \in Seq(Rec)
      BY <2>2, EmptySeq
    <3>2. got[e][Len(got[e])] \in Rec
      BY <3>1, ElementOfSeq
    <3> QED BY <2>2, <3>2 DEF LastTime, Last, Rec
  <2> QED BY <2>1, <2>2
<1>2. CASE EventType
  <2> DEFINE g == [seq |-> seq, start |-> endtime, end |-> endtime]
  <2>1. g \in Rec /\ g.seq = seq /\ g.end = endtime /\ got' = [got EXCEPT ![e] = Append(got[e], g)]
    BY <1>2 DEF Put, Rec
  <2> QED BY <1>1, <1>2, <2>1
<1>3. CASE ~EventType /\ endtime > LastTime(e)
  <2>1. PICK t \in Nat : t = LastTime(e)
    BY <1>1
  <2>2. Max({start, t}) = IF t <= start THEN start ELSE t
    <3>1. PICK x \in Nat : x = IF t <= start THEN start ELSE t
      OBVIOUS
    <3>2. x \in {start, t} /\ {start, t} \subseteq Int /\ \A y \in {start, t} : y <= x
      BY <3>1
    <3>3. Max({start, t}) = x
      BY <3>2, MaxIs
    <3> QED BY <3>1, <3>3
  <2>3. PICK b \in Nat : b = IF got[e] = <<>> THEN start ELSE Max({start, t})
    <3>1. Max({start, t}) \in Nat
      BY <2>2
    <3> QED BY <3>1, Zenon
  <2> DEFINE g == [seq |-> seq, start |-> b, end |-> endtime]
  <2>4. got' = [got EXCEPT ![e] = Append(got[e], g)]
    BY <1>3, <2>1, <2>3 DEF Put
  <2>5. g \in Rec /\ g.seq = seq /\ g.end = endtime /\ g.start = b
    BY DEF Rec
  <2>6. b = IF got[e] = <<>> \/ t <= start THEN start ELSE t
    BY <2>2, <2>3
  <2> HIDE DEF g
  <2> QED BY <1>1, <2>1, <2>4, <2>5, <2>6
<1>4. CASE ~EventType /\ ~(endtime > LastTime(e))
  BY <1>1, <1>4 DEF Put
<1> QED BY <1>2, <1>3, <1>4

\* a message that is unpacked adds at most one record
LEMMA UnpackDoes ==
  ASSUME got \in [Ends -> Seq(Rec)], NEW e \in Ends, NEW m \in Msg, Unpack(e, m)
  PROVE  /\ got' \in [Ends -> Seq(Rec)]
         /\ \/ got' = got
            \/ \E g \in Rec : got' = [got EXCEPT ![e] = Append(got[e], g)]
<1>1. m.entry \in Nat /\ m.end \in Nat /\ m.jump \in Nat \cup {None} /\ m.full \in BOOLEAN
  BY DEF Msg
<1>2. LastTime(e) \in Nat
  <2>1. CASE got[e] = <<>>
    BY <2>1 DEF LastTime
  <2>2. CASE got[e] # <<>>
    <3>1. Len(got[e]) \in Nat \ {0} /\ got[e] \in Seq(Rec)
      BY <2>2, EmptySeq
    <3>2. got[e][Len(got[e])] \in Rec
      BY <3>1, ElementOfSeq
    <3> QED BY <2>2, <3>2 DEF LastTime, Last, Rec
  <2> QED BY <2>1, <2>2
<1> DEFINE jumped == IF m.jump # None THEN m.jump ELSE LastTime(e)
<1>3. jumped \in Nat
  BY <1>1, <1>2
<1>4. got' = got \/ \E s \in Nat : Put(e, s, jumped, m.end)
  <2>1. CASE m.jump # None /\ ~m.full
    BY <2>1 DEF Unpack
  <2>2. CASE m.full /\ ~EventType /\ m.end <= LastTime(e)
    BY <1>1, <2>2 DEF Unpack
  <2>3. CASE m.full /\ (EventType \/ m.end > LastTime(e))
    <3>1. ~(m.full /\ ~EventType /\ m.end <= LastTime(e))
      BY <1>1, <1>2, <2>3
    <3>2. Put(e, m.entry, jumped, m.end)
      BY <1>1, <2>3, <3>1 DEF Unpack
    <3> QED BY <1>1, <3>2
  <2>4. CASE ~m.full /\ m.jump = None
    <3> DEFINE s == IF Last(got[e]).seq = m.base THEN m.entry ELSE 0
    <3>1. Put(e, s, jumped, m.end)
      BY <2>4 DEF Unpack
    <3>2. s \in Nat
      BY <1>1
    <3> HIDE DEF s, jumped
    <3> QED BY <3>1, <3>2
  <2> QED BY <1>1, <1>2, <2>1, <2>2, <2>3, <2>4
<1> HIDE DEF jumped
<1>5. got' = got \/ \E g \in Rec : got' = [got EXCEPT ![e] = Append(got[e], g)]
  <2>1. CASE got' = got
    BY <2>1
  <2>2. CASE \E s \in Nat : Put(e, s, jumped, m.end)
    <3>1. PICK s \in Nat : Put(e, s, jumped, m.end)
      BY <2>2
    <3> QED BY <1>1, <1>3, <3>1, PutDoes
  <2> QED BY <1>4, <2>1, <2>2
<1>6. \A g \in Rec : Append(got[e], g) \in Seq(Rec)
  BY AppendProperties
<1> QED BY <1>5, <1>6

LEMMA CreateEndBase ==
  ASSUME BaseInv, NEW e \in Ends, CreateEnd(e), UNCHANGED setup
  PROVE  BaseInv' /\ Kept(setup.event, chain, chain')
<1>1. end' = [end EXCEPT ![e] = "open"]
      /\ UNCHANGED <<writerVars, configVars, packVars, inbox, cached, got>>
  BY DEF CreateEnd
<1>2. /\ end \in [Ends -> EndStates] /\ inbox \in [Ends -> Seq(Msg)] /\ cached \in [Ends -> Seq(Msg)]
      /\ got \in [Ends -> Seq(Rec)] /\ \A x \in Ends : end[x] = "caching" => cached[x] # <<>>
  BY DEF BaseInv, TypesNow
<1>3. end' \in [Ends -> EndStates] /\ \A x \in Ends : end'[x] = "caching" => end[x] = "caching"
  BY <1>1, <1>2 DEF EndStates
<1> QED BY <1>1, <1>2, <1>3, EndBase

LEMMA NewEntryConfBase ==
  ASSUME BaseInv, NEW e \in Ends, NewEntryConf(e), UNCHANGED setup
  PROVE  BaseInv' /\ Kept(setup.event, chain, chain')
<1>1. end' = [end EXCEPT ![e] = IF cached[e] = <<>> THEN "configured" ELSE "caching"]
      /\ UNCHANGED <<writerVars, configVars, packVars, inbox, cached, got>>
  BY DEF NewEntryConf
<1>2. /\ end \in [Ends -> EndStates] /\ inbox \in [Ends -> Seq(Msg)] /\ cached \in [Ends -> Seq(Msg)]
      /\ got \in [Ends -> Seq(Rec)] /\ \A x \in Ends : end[x] = "caching" => cached[x] # <<>>
  BY DEF BaseInv, TypesNow
<1>3. end' \in [Ends -> EndStates] /\ \A x \in Ends : end'[x] = "caching" => cached[x] # <<>>
  BY <1>1, <1>2 DEF EndStates
<1> QED BY <1>1, <1>2, <1>3, EndBase

LEMMA UnpackFirstBase ==
  ASSUME BaseInv, NEW e \in Ends, UnpackFirst(e), UNCHANGED setup
  PROVE  BaseInv' /\ Kept(setup.event, chain, chain')
<1> DEFINE m == Head(inbox[e])
<1>1. /\ inbox[e] # <<>> /\ inbox' = [inbox EXCEPT ![e] = Tail(inbox[e])]
      /\ UNCHANGED <<writerVars, configVars, packVars, end>>
      /\ \/ cached' = [cached EXCEPT ![e] = Append(cached[e], m)] /\ got' = got
         \/ Unpack(e, m) /\ cached' = cached
      /\ end[e] \in {"open", "configured"}
  BY DEF UnpackFirst
<1>2. /\ end \in [Ends -> EndStates] /\ inbox \in [Ends -> Seq(Msg)] /\ cached \in [Ends -> Seq(Msg)]
      /\ got \in [Ends -> Seq(Rec)] /\ \A x \in Ends : end[x] = "caching" => cached[x] # <<>>
  BY DEF BaseInv, TypesNow
<1>3. m \in Msg /\ Tail(inbox[e]) \in Seq(Msg)
  BY <1>1, <1>2, HeadTailProperties
<1>4. Append(cached[e], m) \in Seq(Msg)
  BY <1>2, <1>3, AppendProperties
<1> HIDE DEF m
<1>5. inbox' \in [Ends -> Seq(Msg)]
  BY <1>1, <1>2, <1>3
<1>6. cached' \in [Ends -> Seq(Msg)] /\ \A x \in Ends \ {e} : cached'[x] = cached[x]
  BY <1>1, <1>2, <1>4
<1>7. got' \in [Ends -> Seq(Rec)]
  BY <1>1, <1>2, <1>3, UnpackDoes
<1>8. \A x \in Ends : end'[x] = "caching" => cached'[x] # <<>>
  BY <1>1, <1>2, <1>6
<1> QED BY <1>1, <1>2, <1>5, <1>6, <1>7, <1>8, EndBase

LEMMA ProcessCachedBase ==
  ASSUME BaseInv, NEW e \in Ends, ProcessCached(e), UNCHANGED setup
  PROVE  BaseInv' /\ Kept(setup.event, chain, chain')
<1> DEFINE m == Head(cached[e])
           rest == Tail(cached[e])
           left == IF Early(e, m) /\ rest # <<>> THEN Append(rest, m) ELSE rest
<1>1. /\ end[e] = "caching" /\ cached' = [cached EXCEPT ![e] = left]
      /\ end' = [end EXCEPT ![e] = IF left = <<>> THEN "configured" ELSE end[e]]
      /\ got' = got \/ Unpack(e, m)
      /\ UNCHANGED <<writerVars, configVars, packVars, inbox>>
  BY DEF ProcessCached
<1>2. /\ end \in [Ends -> EndStates] /\ inbox \in [Ends -> Seq(Msg)] /\ cached \in [Ends -> Seq(Msg)]
      /\ got \in [Ends -> Seq(Rec)] /\ \A x \in Ends : end[x] = "caching" => cached[x] # <<>>
  BY DEF BaseInv, TypesNow
<1>3. cached[e] # <<>> /\ cached[e] \in Seq(Msg)
  BY <1>1, <1>2
<1>4. m \in Msg /\ rest \in Seq(Msg)
  BY <1>3, HeadTailProperties
<1>5. left \in Seq(Msg)
  <2>1. Append(rest, m) \in Seq(Msg)
    BY <1>4, AppendProperties
  <2> HIDE DEF rest, m
  <2> QED BY <1>4, <2>1
<1> HIDE DEF m, left
<1>6. cached' \in [Ends -> Seq(Msg)] /\ end' \in [Ends -> EndStates]
      /\ \A x \in Ends : end'[x] = "caching" => cached'[x] # <<>>
  BY <1>1, <1>2, <1>5 DEF EndStates
<1>7. got' \in [Ends -> Seq(Rec)]
  BY <1>1, <1>2, <1>4, UnpackDoes
<1>8. inbox' \in [Ends -> Seq(Msg)]
  BY <1>1, <1>2
<1> QED BY <1>1, <1>6, <1>7, <1>8, EndBase

LEMMA BaseInit ==
  ASSUME Init
  PROVE  BaseInv
<1>1. /\ setup \in Setups /\ chain = <<Fresh(0, 0), Fresh(1, 0)>>
      /\ cleanup = 1 /\ oldest = 2 /\ latest = 2 /\ wpc = "idle" /\ wseq = 0
      /\ valid = TRUE /\ transporters = {} /\ stale = FALSE /\ refreshDue = FALSE
      /\ pclients = [p \in {} |-> NewClient] /\ queue = [p \in Packers |-> <<>>]
      /\ ppc = [p \in Packers |-> "idle"] /\ copy = [p \in Packers |-> NewClient]
      /\ store = [p \in Packers |-> <<>>] /\ choked = [p \in Packers |-> FALSE]
      /\ inbox = [e \in Ends |-> <<>>] /\ end = [e \in Ends |-> "absent"]
      /\ cached = [e \in Ends |-> <<>>] /\ got = [e \in Ends |-> <<>>]
  BY DEF Init
<1>2. DOMAIN pclients = {}
  BY <1>1
<1>3. NewClient \in Client
  BY <1>1 DEF NewClient, Client, None
<1>4. TypesNow
  <2>1. <<>> \in Seq(Nat) /\ <<>> \in Seq(Msg) /\ <<>> \in Seq(Rec)
    BY EmptySeq
  <2>2. queue \in [Packers -> Seq(Nat)] /\ store \in [Packers -> Seq(Msg)]
        /\ inbox \in [Ends -> Seq(Msg)] /\ cached \in [Ends -> Seq(Msg)] /\ got \in [Ends -> Seq(Rec)]
    BY <1>1, <2>1
  <2>3. IsFiniteSet(transporters) /\ transporters \subseteq Packers
    BY <1>1, FS_EmptySet
  <2>4. pclients \in [DOMAIN pclients -> Client] /\ DOMAIN pclients \subseteq transporters
    BY <1>1, <1>2
  <2>5. ppc \in [Packers -> PackerPlaces] /\ copy \in [Packers -> Client]
        /\ choked \in [Packers -> BOOLEAN] /\ end \in [Ends -> EndStates]
        /\ \A e \in Ends : end[e] = "caching" => cached[e] # <<>>
    BY <1>1, <1>3 DEF PackerPlaces, EndStates
  <2>6. wpc \in WriterPlaces /\ wseq \in Nat /\ valid \in BOOLEAN /\ stale \in BOOLEAN
        /\ refreshDue \in BOOLEAN
    BY <1>1 DEF WriterPlaces
  <2> QED BY <1>1, <2>2, <2>3, <2>4, <2>5, <2>6, Zenon DEF TypesNow
<1>5. /\ chain \in Seq(Node) /\ Len(chain) = 2 /\ chain[1] = Fresh(0, 0) /\ chain[2] = Fresh(1, 0)
      /\ Fresh(0, 0).seq = 0 /\ Fresh(1, 0).seq = 1 /\ Fresh(0, 0).ra = 1 /\ Fresh(1, 0).ra = 1
  <2>1. Fresh(0, 0) \in Node /\ Fresh(1, 0) \in Node
    BY FreshNode
  <2> QED BY <1>1, <2>1, FreshNode
<1>6. IsChain(setup.event, chain)
  <2>1. Rising(chain) /\ Counted(chain) /\ GapsApart(setup.event, chain)
    BY <1>5 DEF Rising, Counted, GapsApart
  <2>2. Complete(chain)
    BY <1>5 DEF Complete
  <2> QED BY <1>5, <2>1, <2>2 DEF IsChain
<1>7. ChainNow
  BY <1>1, <1>5, <1>6 DEF ChainNow, WriterAt
<1>8. ClientsNow /\ BusyNow
  BY <1>1, <1>2 DEF ClientsNow, BusyNow
<1>9. HoldNow
  <2>1. \A i : Cardinality(At(pclients, i)) = 0
    BY <1>2, FS_EmptySet DEF At
  <2>2. \A i \in 1 .. Len(chain) : chain[i].ra = 1
    BY <1>5
  <2> QED BY <1>1, <1>2, <1>5, <2>1, <2>2 DEF HoldNow, Hold
<1> QED BY <1>4, <1>7, <1>8, <1>9 DEF BaseInv

LEMMA BaseNext ==
  ASSUME BaseInv, [Next]_<<vars, setup>>
  PROVE  BaseInv' /\ Kept(setup.event, chain, chain')
<1>1. CASE UNCHANGED <<vars, setup>>
  <2>1. UNCHANGED <<setup, chain, cleanup, oldest, latest, wpc, wseq, valid, transporters, stale, refreshDue,
                    pclients, queue, ppc, copy, store, choked, inbox, end, cached, got>>
    BY <1>1 DEF vars, writerVars, configVars, packVars, endVars
  <2>2. UNCHANGED <<writerVars, configVars, packVars>>
    BY <1>1 DEF vars
  <2>3. /\ inbox' \in [Ends -> Seq(Msg)] /\ cached' \in [Ends -> Seq(Msg)]
        /\ end' \in [Ends -> EndStates] /\ got' \in [Ends -> Seq(Rec)]
        /\ \A e \in Ends : end'[e] = "caching" => cached'[e] # <<>>
    BY <2>1 DEF BaseInv, TypesNow
  <2> QED BY <2>1, <2>2, <2>3, EndBase
<1>2. CASE Next /\ Stopped
  BY <1>1, <1>2 DEF Next, Stopped
<1>3. CASE Step /\ UNCHANGED setup
  <2>1. CASE WriterStep
    <3>1. ASSUME NEW jump \in 0 .. 1, NewData(jump) PROVE BaseInv' /\ Kept(setup.event, chain, chain')
      BY <1>3, <3>1, NewDataBase
    <3>2. CASE RefreshInWrite
      BY <1>3, <3>2, RefreshInWriteBase
    <3>3. CASE Publish
      BY <1>3, <3>3, PublishBase
    <3>4. CASE Notify
      BY <1>3, <3>4, NotifyBase
    <3> QED BY <2>1, <3>1, <3>2, <3>3, <3>4 DEF WriterStep
  <2>2. CASE ConfigStep
    <3>1. ASSUME NEW e \in Ends, AddRemoteDestination(e)
          PROVE  BaseInv' /\ Kept(setup.event, chain, chain')
      BY <1>3, <3>1, AddBase
    <3>2. CASE ServiceRefresh
      BY <1>3, <3>2, ServiceBase
    <3>3. CASE ResetValid
      BY <1>3, <3>3, ResetBase
    <3>4. CASE CleanAllData
      BY <1>3, <3>4, CleanBase
    <3> QED BY <2>2, <3>1, <3>2, <3>3, <3>4 DEF ConfigStep
  <2>3. ASSUME NEW p \in Packers, PackerStep(p) PROVE BaseInv' /\ Kept(setup.event, chain, chain')
    <3>1. CASE PackOneSet(p)
      BY <1>3, <3>1, PackOneSetBase
    <3>2. CASE AccessPackData(p)
      BY <1>3, <3>2, AccessBase
    <3>3. CASE PackData(p)
      BY <1>3, <3>3, PackDataBase
    <3>4. CASE PackComplete(p)
      BY <1>3, <3>4, PackCompleteBase
    <3>5. CASE SendStore(p)
      BY <1>3, <3>5, SendBase
    <3> QED BY <2>3, <3>1, <3>2, <3>3, <3>4, <3>5 DEF PackerStep
  <2>4. ASSUME NEW e \in Ends, EndStep(e) PROVE BaseInv' /\ Kept(setup.event, chain, chain')
    <3>1. CASE CreateEnd(e)
      BY <1>3, <3>1, CreateEndBase
    <3>2. CASE UnpackFirst(e)
      BY <1>3, <3>2, UnpackFirstBase
    <3>3. CASE NewEntryConf(e)
      BY <1>3, <3>3, NewEntryConfBase
    <3>4. CASE ProcessCached(e)
      BY <1>3, <3>4, ProcessCachedBase
    <3> QED BY <2>4, <3>1, <3>2, <3>3, <3>4 DEF EndStep
  <2> QED BY <1>3, <2>1, <2>2, <2>3, <2>4 DEF Step
<1> QED BY <1>1, <1>2, <1>3 DEF Next

-----------------------------------------------------------------------------
(* The work of the packers, if no write passes the adding of a             *)
(* transporter.                                                            *)

Added == "added" \in setup.calm

\* the points before this one are announced
Announced == IF wpc = "notify" THEN wseq ELSE Num(chain, latest)

\* the work q of a client at position i
IsWork(ch, i, ann, q) == Num(ch, i) <= ann /\ q = Ids(Num(ch, i), ann)

WorkNow ==
  /\ DOMAIN pclients # transporters => stale
  /\ wpc \in {"publish", "notify"} => DOMAIN pclients = transporters
  /\ valid => /\ \A p \in Packers \ DOMAIN pclients : queue[p] = <<>>
              /\ \A p \in DOMAIN pclients : IsWork(chain, pclients[p].index, Announced, queue[p])

LEMMA AnnouncedIs ==
  ASSUME BaseInv
  PROVE  /\ Announced \in Nat /\ Num(chain, latest) \in Nat
         /\ wpc = "notify" => Num(chain, latest) = wseq + 1
         /\ wpc \in {"refresh", "publish"} => Num(chain, latest) = wseq
         /\ Announced <= Num(chain, latest)
<1>1. IsChain(setup.event, chain) /\ WriterAt(chain, latest, wpc, wseq) /\ wseq \in Nat
  BY DEF BaseInv, ChainNow, TypesNow
<1>2. /\ latest \in 2 .. Len(chain) /\ Len(chain) \in Nat /\ Len(chain) \in 2 .. Len(chain)
      /\ (wpc = "notify" => latest = Len(chain))
      /\ \A i \in 1 .. Len(chain) : chain[i].seq \in Nat
  BY ChainFacts DEF BaseInv
<1>3. Num(chain, latest) \in Nat
  BY <1>1, <1>2, AtPosition
<1>4. chain[Len(chain)].seq # 0 /\ Num(chain, Len(chain)) = chain[Len(chain)].seq
  BY <1>1 DEF IsChain, Num
<1>5. wpc = "notify" => Num(chain, latest) = wseq + 1
  BY <1>1, <1>2, <1>4 DEF WriterAt
<1>6. wpc \in {"refresh", "publish"} => Num(chain, latest) = wseq
  <2>1. CASE latest = Len(chain)
    BY <1>1, <1>4, <2>1 DEF WriterAt
  <2>2. CASE latest # Len(chain)
    <3>1. latest + 1 = Len(chain) /\ chain[latest].seq = 0
      BY <1>1, <1>2, <2>2 DEF WriterAt
    <3> QED BY <1>1, <3>1 DEF Num, WriterAt
  <2> QED BY <2>1, <2>2
<1> QED BY <1>1, <1>3, <1>5, <1>6 DEF Announced

\* the steps that change neither the work nor what is announced
LEMMA WorkSame ==
  ASSUME BaseInv, WorkNow, Kept(setup.event, chain, chain'), valid' => valid,
         DOMAIN pclients' = DOMAIN pclients, DOMAIN pclients # transporters' => stale',
         wpc' \in {"publish", "notify"} => DOMAIN pclients = transporters',
         valid' => /\ Announced' = Announced /\ \A p \in Packers : queue'[p] = queue[p]
                   /\ \A p \in DOMAIN pclients : pclients'[p].index = pclients[p].index
  PROVE  WorkNow'
<1>1. ASSUME valid' PROVE /\ \A p \in Packers \ DOMAIN pclients : queue'[p] = <<>>
                          /\ \A p \in DOMAIN pclients : IsWork(chain', pclients'[p].index, Announced', queue'[p])
  <2>1. \A p \in Packers \ DOMAIN pclients : queue'[p] = <<>>
    BY <1>1 DEF WorkNow
  <2>2. ASSUME NEW p \in DOMAIN pclients
        PROVE  IsWork(chain', pclients'[p].index, Announced', queue'[p])
    <3>1. p \in Packers /\ pclients[p].index \in 2 .. latest /\ latest \in 2 .. Len(chain)
          /\ Len(chain) \in Nat
      BY ChainFacts DEF BaseInv, TypesNow, ClientsNow, ClientAt
    <3>2. pclients[p].index \in 2 .. Len(chain)
      BY <3>1
    <3>3. Num(chain', pclients[p].index) = Num(chain, pclients[p].index)
      BY <3>2 DEF Kept
    <3>4. IsWork(chain, pclients[p].index, Announced, queue[p])
      BY <1>1 DEF WorkNow
    <3>5. pclients'[p].index = pclients[p].index /\ Announced' = Announced /\ queue'[p] = queue[p]
      BY <1>1, <3>1
    <3> QED BY <3>3, <3>4, <3>5 DEF IsWork
  <2> QED BY <2>1, <2>2
<1> QED BY <1>1 DEF WorkNow

\* the chain is kept, so is what is announced
LEMMA AnnouncedSame ==
  ASSUME BaseInv, Kept(setup.event, chain, chain'), UNCHANGED <<latest, wseq>>,
         wpc' = wpc \/ (wpc # "notify" /\ wpc' # "notify")
  PROVE  Announced' = Announced
<1>1. latest \in 2 .. Len(chain)
  BY ChainFacts DEF BaseInv
<1>2. Num(chain', latest) = Num(chain, latest)
  BY <1>1 DEF Kept
<1> QED BY <1>2 DEF Announced

\* the steps of the ends and SendStore
LEMMA WorkApart ==
  ASSUME BaseInv, WorkNow, UNCHANGED <<chain, latest, wpc, wseq, valid, transporters, stale, pclients, queue>>
  PROVE  WorkNow'
BY DEF WorkNow, Announced

LEMMA NewDataWork ==
  ASSUME BaseInv, WorkNow, NEW jump \in 0 .. 1, NewData(jump), UNCHANGED setup
  PROVE  WorkNow'
<1>1. /\ valid /\ wpc = "idle" /\ wpc' = "refresh"
      /\ UNCHANGED <<latest, valid, transporters, stale, pclients, queue>>
  BY DEF NewData, configVars, packVars
<1>2. Kept(setup.event, chain, chain')
  BY NewDataBase
<1>3. Announced' = Announced
  <2>1. latest \in 2 .. Len(chain)
    BY ChainFacts DEF BaseInv
  <2>2. Num(chain', latest) = Num(chain, latest)
    BY <1>2, <2>1 DEF Kept
  <2> QED BY <1>1, <2>2 DEF Announced
<1> QED BY <1>1, <1>2, <1>3, WorkSame DEF WorkNow

\* a new client gets all that waits in the chain
LEMMA RefreshWork ==
  ASSUME BaseInv, WorkNow, RefreshTransporters, wpc \in {"idle", "refresh"}, wpc' \in {"idle", "publish"},
         UNCHANGED <<setup, latest, wseq, valid, transporters>>
  PROVE  WorkNow'
<1>1. RefreshDone
  BY RefreshDoes
<1>2. DOMAIN pclients' = transporters /\ Kept(setup.event, chain, chain') /\ IsChain(setup.event, chain)
  BY <1>1 DEF RefreshDone, BaseInv, ChainNow
<1>3. Announced' = Announced /\ Announced = Num(chain, latest) /\ Announced \in Nat
  BY <1>2, AnnouncedSame, AnnouncedIs DEF Announced
<1>4. ASSUME valid PROVE \A p \in Packers \ transporters : queue'[p] = <<>>
  <2> TAKE p \in Packers \ transporters
  <2>1. p \notin DOMAIN pclients
    BY DEF BaseInv, TypesNow
  <2> QED BY <1>1, <1>4, <2>1 DEF WorkNow, RefreshDone
<1>5. ASSUME valid, NEW p \in transporters
      PROVE  IsWork(chain', pclients'[p].index, Announced, queue'[p])
  <2>0. p \in Packers /\ latest \in 2 .. Len(chain) /\ oldest \in 2 .. latest /\ Len(chain) \in Nat
    BY ChainFacts DEF BaseInv, TypesNow
  <2>1. CASE p \in DOMAIN pclients
    <3>1. pclients'[p] = pclients[p] /\ queue'[p] = queue[p]
      BY <1>1, <2>0, <2>1 DEF RefreshDone
    <3>2. IsWork(chain, pclients[p].index, Announced, queue[p])
      BY <1>5, <2>1 DEF WorkNow
    <3>3. pclients[p].index \in 2 .. latest
      BY <2>1 DEF BaseInv, ClientsNow, ClientAt
    <3>4. pclients[p].index \in 2 .. Len(chain)
      BY <2>0, <3>3
    <3>5. Num(chain', pclients[p].index) = Num(chain, pclients[p].index)
      BY <1>2, <3>4 DEF Kept
    <3> QED BY <3>1, <3>2, <3>5 DEF IsWork
  <2>2. CASE p \notin DOMAIN pclients
    <3>1. pclients'[p] = NewClient /\ queue'[p] = queue[p] \o AllWork /\ AllWork \in Seq(Nat)
      BY <1>1, <2>0, <2>2 DEF RefreshDone
    <3>2. queue[p] = <<>>
      BY <1>5, <2>0, <2>2 DEF WorkNow
    <3>3. <<>> \o AllWork = AllWork
      BY <3>1, ConcatEmptySeq
    <3>4. pclients'[p].index = oldest
      BY <3>1 DEF NewClient
    <3>5. oldest \in 2 .. Len(chain) /\ oldest <= latest
      BY <2>0
    <3>6. Num(chain', oldest) = Num(chain, oldest)
      BY <1>2, <3>5 DEF Kept
    <3>7. Num(chain, oldest) <= Num(chain, latest)
      BY <1>2, <2>0, <3>5, NumRises
    <3> QED BY <1>3, <3>1, <3>2, <3>3, <3>4, <3>6, <3>7 DEF IsWork, AllWork
  <2> QED BY <2>1, <2>2
<1> QED BY <1>2, <1>3, <1>4, <1>5 DEF WorkNow

LEMMA RefreshInWriteWork ==
  ASSUME BaseInv, WorkNow, RefreshInWrite, UNCHANGED setup
  PROVE  WorkNow'
<1>1. CASE stale
  <2>1. /\ RefreshTransporters /\ wpc = "refresh" /\ wpc' = "publish"
        /\ UNCHANGED <<setup, latest, wseq, valid, transporters>>
    BY <1>1 DEF RefreshInWrite
  <2> QED BY <2>1, RefreshWork
<1>2. CASE ~stale
  <2>1. /\ UNCHANGED <<chain, pclients, queue, stale, latest, wseq, valid, transporters>>
        /\ wpc = "refresh" /\ wpc' = "publish"
    BY <1>2 DEF RefreshInWrite
  <2>2. DOMAIN pclients = transporters /\ Announced' = Announced
    BY <1>2, <2>1 DEF WorkNow, Announced
  <2>3. Kept(setup.event, chain, chain')
    BY RefreshInWriteBase
  <2> QED BY <2>1, <2>2, <2>3, WorkSame
<1> QED BY <1>1, <1>2

LEMMA PublishWork ==
  ASSUME BaseInv, WorkNow, Publish, UNCHANGED setup
  PROVE  WorkNow'
<1>1. /\ wpc = "publish" /\ wpc' = "notify" /\ wseq' = wseq
      /\ UNCHANGED <<valid, transporters, stale, pclients, queue>>
  BY DEF Publish, configVars, packVars
<1>2. Kept(setup.event, chain, chain')
  BY PublishBase
<1>3. Announced' = Announced
  BY <1>1, AnnouncedIs DEF Announced
<1> QED BY <1>1, <1>2, <1>3, WorkSame DEF WorkNow

LEMMA NotifyWork ==
  ASSUME BaseInv, WorkNow, Notify, UNCHANGED setup
  PROVE  WorkNow'
<1>1. /\ wpc = "notify" /\ wpc' = "idle"
      /\ queue' = [p \in Packers |-> IF pclients # << >> /\ p \in transporters
                                     THEN Append(queue[p], wseq) ELSE queue[p]]
      /\ UNCHANGED <<chain, latest, wseq, valid, transporters, stale, pclients>>
  BY DEF Notify, configVars
<1>2. DOMAIN pclients = transporters /\ transporters \subseteq Packers
  BY <1>1 DEF WorkNow, BaseInv, TypesNow
<1>3. Announced = wseq /\ Announced' = wseq + 1 /\ wseq \in Nat
  BY <1>1, AnnouncedIs DEF Announced, BaseInv, TypesNow
<1>4. ASSUME valid PROVE \A p \in Packers \ DOMAIN pclients : queue'[p] = <<>>
  BY <1>1, <1>2, <1>4 DEF WorkNow
<1>5. ASSUME valid, NEW p \in DOMAIN pclients
      PROVE  IsWork(chain, pclients[p].index, wseq + 1, queue'[p])
  <2>1. IsWork(chain, pclients[p].index, wseq, queue[p])
    BY <1>3, <1>5 DEF WorkNow
  <2>2. pclients # <<>>
    <3>1. DOMAIN pclients # {} /\ DOMAIN <<>> = {}
      OBVIOUS
    <3> QED BY <3>1
  <2>3. queue'[p] = Append(queue[p], wseq)
    BY <1>1, <1>2, <2>2
  <2>4. pclients[p].index \in 2 .. latest /\ latest \in 2 .. Len(chain) /\ Len(chain) \in Nat
    BY ChainFacts DEF BaseInv, ClientsNow, ClientAt
  <2>5. pclients[p].index \in 2 .. Len(chain)
    BY <2>4
  <2>6. Num(chain, pclients[p].index) \in Nat
    BY <2>5, AtPosition DEF BaseInv, ChainNow
  <2>7. PICK a \in Nat : a = Num(chain, pclients[p].index)
    BY <2>6
  <2>8. a <= wseq /\ queue[p] = Ids(a, wseq)
    BY <2>1, <2>7 DEF IsWork
  <2>9. queue'[p] = Ids(a, wseq + 1) /\ a <= wseq + 1
    <3>1. PICK b \in Nat : b = wseq
      BY <1>3
    <3>2. Append(Ids(a, b), b) = Ids(a, b + 1)
      BY <2>8, <3>1, IdsAppend
    <3>3. queue'[p] = Append(Ids(a, b), b)
      BY <2>3, <2>8, <3>1
    <3>4. a <= wseq + 1
      BY <1>3, <2>8
    <3> QED BY <3>1, <3>2, <3>3, <3>4
  <2> QED BY <2>7, <2>9 DEF IsWork
<1> QED BY <1>1, <1>2, <1>3, <1>4, <1>5 DEF WorkNow

LEMMA AddWork ==
  ASSUME BaseInv, WorkNow, Added, NEW e \in Ends, AddRemoteDestination(e), UNCHANGED setup
  PROVE  WorkNow'
<1>1. /\ wpc = "idle" /\ stale' = TRUE
      /\ UNCHANGED <<chain, latest, wpc, wseq, valid, pclients, queue>>
  BY DEF AddRemoteDestination, writerVars, packVars, Added
<1> QED BY <1>1 DEF WorkNow, Announced

LEMMA ServiceWork ==
  ASSUME BaseInv, WorkNow, Added, ServiceRefresh, UNCHANGED setup
  PROVE  WorkNow'
<1>1. /\ wpc = "idle" /\ wpc' = "idle" /\ RefreshTransporters
      /\ UNCHANGED <<setup, latest, wseq, valid, transporters>>
  BY DEF ServiceRefresh, Added
<1> QED BY <1>1, RefreshWork

LEMMA GoneWork ==
  ASSUME BaseInv, WorkNow, ResetValid \/ CleanAllData, UNCHANGED setup
  PROVE  WorkNow'
<1>1. ~valid' /\ UNCHANGED <<wpc, transporters, stale, pclients>>
  BY DEF ResetValid, CleanAllData, configVars, packVars
<1> QED BY <1>1 DEF WorkNow

LEMMA PackOneSetWork ==
  ASSUME BaseInv, WorkNow, NEW p \in Packers, PackOneSet(p), UNCHANGED setup
  PROVE  WorkNow'
<1>1. /\ UNCHANGED <<chain, latest, wpc, wseq, valid, transporters, stale, pclients>>
      /\ valid => queue' = queue
  BY DEF PackOneSet, writerVars, configVars
<1> QED BY <1>1 DEF WorkNow, Announced

\* one client moves: its work is the rest
LEMMA MovedWork ==
  ASSUME BaseInv, WorkNow, NEW p \in DOMAIN pclients, NEW c \in Client,
         pclients' = [pclients EXCEPT ![p] = c], SameData(chain, chain'),
         UNCHANGED <<setup, latest, wpc, wseq, valid, transporters, stale>>,
         \A q \in Packers \ {p} : queue'[q] = queue[q],
         valid => IsWork(chain', c.index, Announced', queue'[p])
  PROVE  WorkNow'
<1>1. Kept(setup.event, chain, chain')
  BY SameKept DEF BaseInv, ChainNow
<1>2. Announced' = Announced
  BY <1>1, AnnouncedSame
<1>3. /\ DOMAIN pclients' = DOMAIN pclients /\ pclients'[p] = c
      /\ \A q \in DOMAIN pclients \ {p} : pclients'[q] = pclients[q]
  BY DEF BaseInv, TypesNow
<1>4. ASSUME valid, NEW q \in DOMAIN pclients
      PROVE  IsWork(chain', pclients'[q].index, Announced', queue'[q])
  <2>1. CASE q = p
    BY <1>3, <1>4, <2>1
  <2>2. CASE q # p
    <3>1. q \in Packers /\ pclients[q].index \in 2 .. latest /\ latest \in 2 .. Len(chain)
          /\ Len(chain) \in Nat
      BY ChainFacts DEF BaseInv, TypesNow, ClientsNow, ClientAt
    <3>2. pclients[q].index \in 2 .. Len(chain)
      BY <3>1
    <3>3. Num(chain', pclients[q].index) = Num(chain, pclients[q].index)
      BY <1>1, <3>2 DEF Kept
    <3>4. IsWork(chain, pclients[q].index, Announced, queue[q])
      BY <1>4 DEF WorkNow
    <3>5. pclients'[q].index = pclients[q].index /\ queue'[q] = queue[q]
      BY <1>3, <2>2, <3>1
    <3> QED BY <1>2, <3>3, <3>4, <3>5 DEF IsWork
  <2> QED BY <2>1, <2>2
<1>5. p \in Packers
  BY DEF BaseInv, TypesNow
<1> QED BY <1>3, <1>4, <1>5 DEF WorkNow

LEMMA AccessWork ==
  ASSUME BaseInv, WorkNow, NEW p \in Packers, AccessPackData(p), UNCHANGED setup
  PROVE  WorkNow'
<1>1. /\ p \in DOMAIN pclients
      /\ UNCHANGED <<latest, wpc, wseq, valid, transporters, stale, queue>>
      /\ UNCHANGED <<chain, pclients>> \/ AccessTaken(p)
  BY AccessCases
<1>2. CASE UNCHANGED <<chain, pclients>>
  BY <1>1, <1>2, WorkApart
<1>3. CASE AccessTaken(p)
  <2> DEFINE c == pclients[p]
             n == PackAt(c)
             c2 == [c EXCEPT !.index = n, !.accessed = n]
  <2>1. /\ c \in Client /\ c.index \in 2 .. latest /\ c.index \in 2 .. Len(chain)
        /\ n \in 2 .. Len(chain) /\ n \in Nat /\ (n = c.index \/ n = c.index + 1)
        /\ Num(chain, n) = Num(chain, c.index)
    BY <1>1, PackAtFacts
  <2>2. /\ chain' = IF n # c.index
                    THEN [chain EXCEPT ![n].ra = @ + 1, ![c.index].ra = @ - 1] ELSE chain
        /\ pclients' = [pclients EXCEPT ![p] = c2] /\ valid
    BY <1>3 DEF AccessTaken
  <2>3. IsWork(chain, c.index, Announced, queue[p])
    BY <1>1, <2>2 DEF WorkNow
  <2> HIDE DEF n, c
  <2>4. c2 \in Client /\ c2.index = n
    BY <2>1 DEF Client
  <2> HIDE DEF c2
  <2>5. chain \in Seq(Node) /\ IsChain(setup.event, chain) /\ Len(chain) \in Nat
    BY ChainFacts DEF BaseInv, ChainNow
  <2>6. SameData(chain, chain')
    <3>1. CASE n = c.index
      BY <2>2, <2>5, <3>1, SelfSame
    <3>2. CASE n # c.index
      <4>1. chain' = [chain EXCEPT ![n].ra = @ + 1, ![c.index].ra = @ - 1]
        BY <2>2, <3>2
      <4>2. n \in 1 .. Len(chain) /\ c.index \in 1 .. Len(chain)
        BY <2>1, <2>5
      <4>3. AccessMoved(chain, chain', c.index, n)
        BY <2>5, <3>2, <4>1, <4>2, TwoAccesses
      <4> QED BY <4>3 DEF AccessMoved
    <3> QED BY <3>1, <3>2
  <2>7. Num(chain', n) = Num(chain, c.index)
    <3>1. \A i \in 2 .. Len(chain) : Num(chain', i) = Num(chain, i)
      BY <2>5, <2>6, SameChain
    <3> QED BY <2>1, <3>1
  <2>8. Announced' = Announced
    <3>1. Kept(setup.event, chain, chain')
      BY <2>5, <2>6, SameKept
    <3> QED BY <1>1, <3>1, AnnouncedSame
  <2>9. IsWork(chain', c2.index, Announced', queue'[p])
    BY <1>1, <2>3, <2>4, <2>7, <2>8 DEF IsWork
  <2> QED BY <1>1, <2>2, <2>4, <2>6, <2>9, MovedWork
<1> QED BY <1>1, <1>2, <1>3

LEMMA AdvanceWork ==
  ASSUME BaseInv, WorkNow, NEW p \in Packers, ppc[p] \in {"pack", "complete"},
         pclients' = [pclients EXCEPT ![p] = Advanced(pclients[p])],
         chain' = Latched(pclients[p]), queue' = [queue EXCEPT ![p] = Tail(queue[p])],
         UNCHANGED <<setup, latest, wpc, wseq, valid, transporters, stale>>
  PROVE  WorkNow'
<1> DEFINE c == pclients[p]
           n == c.accessed
           c2 == Advanced(c)
<1>1. /\ p \in DOMAIN pclients /\ c \in Client
      /\ n = c.index /\ n \in Nat /\ n \in 2 .. latest /\ n < latest
      /\ n \in 1 .. Len(chain) /\ n + 1 \in 1 .. Len(chain) /\ n \in 2 .. (Len(chain) - 1)
      /\ chain[n].seq # 0
  BY AtWorkPoint
<1>2. chain \in Seq(Node) /\ IsChain(setup.event, chain) /\ Len(chain) \in Nat
  BY ChainFacts DEF BaseInv, ChainNow
<1> HIDE DEF c
<1>3. c2 \in Client /\ c2.index = n + 1
  <2>1. c2 = [c EXCEPT !.index = n + 1, !.accessed = None]
    BY <1>1 DEF Advanced
  <2>2. n + 1 \in Nat
    BY <1>1
  <2> HIDE DEF n, c2
  <2> QED BY <1>1, <2>1, <2>2 DEF Client, None
<1>4. pclients' = [pclients EXCEPT ![p] = c2] /\ c = pclients[p]
  BY DEF c
<1> HIDE DEF c2
<1>5. SameData(chain, chain')
  <2>1. chain' = [chain EXCEPT ![n + 1].ra = @ + 1, ![n].ra = @ - 1]
    BY DEF Latched, c
  <2>2. n # n + 1
    BY <1>1
  <2> HIDE DEF n
  <2>3. AccessMoved(chain, chain', n, n + 1)
    BY <1>1, <1>2, <2>1, <2>2, TwoAccesses
  <2> QED BY <2>3 DEF AccessMoved
<1>6. Announced' = Announced
  <2>1. Kept(setup.event, chain, chain')
    BY <1>2, <1>5, SameKept
  <2> QED BY <2>1, AnnouncedSame
<1>7. Num(chain', n + 1) = Num(chain, n) + 1 /\ Num(chain, n) \in Nat
  <2> HIDE DEF n
  <2>1. n \in 2 .. Len(chain) /\ n + 1 \in 2 .. Len(chain) /\ n < Len(chain)
    BY <1>1, <1>2
  <2>2. Num(chain', n + 1) = Num(chain, n + 1)
    BY <1>2, <1>5, <2>1, SameChain
  <2> QED BY <1>1, <1>2, <2>1, <2>2, AtPosition
<1>8. ASSUME valid PROVE IsWork(chain', c2.index, Announced', queue'[p])
  <2>1. IsWork(chain, n, Announced, queue[p])
    BY <1>1, <1>4, <1>8 DEF WorkNow
  <2>2. PICK a \in Nat : a = Num(chain, n)
    BY <1>7
  <2>3. PICK b \in Nat : b = Announced
    BY AnnouncedIs
  <2>4. a <= b /\ queue[p] = Ids(a, b) /\ queue[p] # <<>>
    BY <2>1, <2>2, <2>3 DEF IsWork, BaseInv, BusyNow
  <2>5. a < b
    <3>1. a # b
      BY <2>4, IdsSeq
    <3> QED BY <2>4, <3>1
  <2>6. Tail(Ids(a, b)) = Ids(a + 1, b)
    BY <2>5, IdsTail
  <2>7. queue'[p] = Tail(queue[p])
    BY DEF BaseInv, TypesNow
  <2>8. a + 1 <= b /\ Num(chain', c2.index) = a + 1
    BY <1>3, <1>7, <2>2, <2>5
  <2> QED BY <1>6, <2>3, <2>4, <2>6, <2>7, <2>8 DEF IsWork
<1>9. \A q \in Packers \ {p} : queue'[q] = queue[q]
  BY DEF BaseInv, TypesNow
<1> HIDE DEF n
<1> QED BY <1>1, <1>3, <1>4, <1>5, <1>8, <1>9, MovedWork

LEMMA PackDataWork ==
  ASSUME BaseInv, WorkNow, NEW p \in Packers, PackData(p), UNCHANGED setup
  PROVE  WorkNow'
<1>1. /\ ppc[p] = "pack" /\ p \in DOMAIN pclients
      /\ PackFits(p) \/ PackThrown(p) \/ PackWaits(p)
      /\ UNCHANGED <<setup, latest, wpc, wseq, valid, transporters, stale>>
  BY PackDataCases
<1>2. Kept(setup.event, chain, chain')
  BY PackDataBase
<1>3. Announced' = Announced
  BY <1>1, <1>2, AnnouncedSame
<1>4. pclients \in [DOMAIN pclients -> Client] /\ pclients[p].accessed = pclients[p].index
  BY <1>1, AtWorkPoint DEF BaseInv, TypesNow
<1>5. CASE PackFits(p)
  <2> DEFINE n == pclients[p].accessed
             m == Message(copy[p], n)
             c2 == [Packed(copy[p], n, m.end) EXCEPT !.index = pclients[p].index, !.accessed = n]
  <2>1. c2.index = n
    BY <1>1, MessageTyped
  <2>2. pclients' = [pclients EXCEPT ![p] = c2] /\ queue' = queue
    BY <1>5 DEF PackFits
  <2> HIDE DEF c2
  <2>3. DOMAIN pclients' = DOMAIN pclients /\ \A q \in DOMAIN pclients : pclients'[q].index = pclients[q].index
    BY <1>4, <2>1, <2>2
  <2> QED BY <1>1, <1>2, <1>3, <2>2, <2>3, WorkSame DEF WorkNow
<1>6. CASE PackThrown(p)
  <2>1. /\ pclients' = [pclients EXCEPT ![p] = Advanced(pclients[p])]
        /\ chain' = Latched(pclients[p]) /\ queue' = [queue EXCEPT ![p] = Tail(queue[p])]
    BY <1>6 DEF PackThrown
  <2> QED BY <1>1, <2>1, AdvanceWork
<1>7. CASE PackWaits(p)
  <2>1. pclients' = [pclients EXCEPT ![p] = [pclients[p] EXCEPT !.accessed = None]] /\ queue' = queue
    BY <1>7 DEF PackWaits
  <2>2. pclients[p] \in Client
    BY <1>1, <1>4
  <2>3. [pclients[p] EXCEPT !.accessed = None].index = pclients[p].index
    BY <2>2 DEF Client
  <2>4. DOMAIN pclients' = DOMAIN pclients /\ \A q \in DOMAIN pclients : pclients'[q].index = pclients[q].index
    BY <1>4, <2>1, <2>3
  <2> QED BY <1>1, <1>2, <1>3, <2>1, <2>4, WorkSame DEF WorkNow
<1> QED BY <1>1, <1>5, <1>6, <1>7

LEMMA WorkNext ==
  ASSUME BaseInv, WorkNow, Added, [Next]_<<vars, setup>>
  PROVE  WorkNow'
<1>1. CASE UNCHANGED <<vars, setup>>
  <2>1. UNCHANGED <<chain, latest, wpc, wseq, valid, transporters, stale, pclients, queue>>
    BY <1>1 DEF vars, writerVars, configVars, packVars
  <2> QED BY <2>1, WorkApart
<1>2. CASE Next /\ Stopped
  BY <1>1, <1>2 DEF Next, Stopped
<1>3. CASE Step /\ UNCHANGED setup
  <2>1. CASE WriterStep
    BY <1>3, <2>1, NewDataWork, RefreshInWriteWork, PublishWork, NotifyWork DEF WriterStep
  <2>2. CASE ConfigStep
    BY <1>3, <2>2, AddWork, ServiceWork, GoneWork DEF ConfigStep
  <2>3. ASSUME NEW p \in Packers, PackerStep(p) PROVE WorkNow'
    <3>1. CASE PackOneSet(p) \/ AccessPackData(p) \/ PackData(p)
      BY <1>3, <3>1, PackOneSetWork, AccessWork, PackDataWork
    <3>2. CASE PackComplete(p)
      <4>1. /\ ppc[p] \in {"pack", "complete"}
            /\ pclients' = [pclients EXCEPT ![p] = Advanced(pclients[p])]
            /\ chain' = Latched(pclients[p]) /\ queue' = [queue EXCEPT ![p] = Tail(queue[p])]
            /\ UNCHANGED <<latest, wpc, wseq, valid, transporters, stale>>
        BY <3>2 DEF PackComplete, configVars
      <4> QED BY <1>3, <4>1, AdvanceWork
    <3>3. CASE SendStore(p)
      <4>1. UNCHANGED <<chain, latest, wpc, wseq, valid, transporters, stale, pclients, queue>>
        BY <3>3 DEF SendStore, writerVars, configVars
      <4> QED BY <4>1, WorkApart
    <3> QED BY <2>3, <3>1, <3>2, <3>3 DEF PackerStep
  <2>4. ASSUME NEW e \in Ends, EndStep(e) PROVE WorkNow'
    <3>1. UNCHANGED <<writerVars, configVars, packVars>>
      BY <2>4 DEF EndStep, CreateEnd, UnpackFirst, NewEntryConf, ProcessCached
    <3>2. UNCHANGED <<chain, latest, wpc, wseq, valid, transporters, stale, pclients, queue>>
      BY <3>1 DEF writerVars, configVars, packVars
    <3> QED BY <3>2, WorkApart
  <2> QED BY <1>3, <2>1, <2>2, <2>3, <2>4 DEF Step
<1> QED BY <1>1, <1>2, <1>3 DEF Next

LEMMA WorkInit ==
  ASSUME Init
  PROVE  WorkNow
<1>1. /\ transporters = {} /\ pclients = [p \in {} |-> NewClient] /\ wpc = "idle"
      /\ queue = [p \in Packers |-> <<>>]
  BY DEF Init
<1>2. DOMAIN pclients = {}
  BY <1>1
<1> QED BY <1>1, <1>2 DEF WorkNow

\* the work in the words of the property
LEMMA WorkIsChain ==
  ASSUME BaseInv, WorkNow
  PROVE  WorkMatchesChain
<1> SUFFICES ASSUME valid, NEW p \in DOMAIN pclients
             PROVE  queue[p] \o (IF wpc = "notify" THEN <<wseq>> ELSE << >>)
                      = PointsFrom(pclients[p].index)
  BY DEF WorkMatchesChain
<1>1. IsWork(chain, pclients[p].index, Announced, queue[p])
  BY DEF WorkNow
<1>2. /\ pclients[p].index \in 2 .. latest /\ latest \in 2 .. Len(chain) /\ Len(chain) \in Nat
      /\ IsChain(setup.event, chain)
  BY ChainFacts DEF BaseInv, ClientsNow, ClientAt, ChainNow
<1>3. PointsFrom(pclients[p].index) = Ids(Num(chain, pclients[p].index), Num(chain, latest))
  BY <1>2, PointsAreIds
<1>4. PICK a \in Nat : a = Num(chain, pclients[p].index)
  <2>1. pclients[p].index \in 2 .. Len(chain)
    BY <1>2
  <2> QED BY <1>2, <2>1, AtPosition
<1>5. PICK b \in Nat : b = Announced
  BY AnnouncedIs
<1>6. a <= b /\ queue[p] = Ids(a, b)
  BY <1>1, <1>4, <1>5 DEF IsWork
<1>7. Ids(a, b) \in Seq(Nat)
  BY <1>6, IdsSeq
<1>8. CASE wpc = "notify"
  <2>1. b = wseq /\ Num(chain, latest) = b + 1
    BY <1>5, <1>8, AnnouncedIs DEF Announced
  <2>2. Append(Ids(a, b), b) = Ids(a, b + 1)
    BY <1>6, IdsAppend
  <2>3. Append(Ids(a, b), b) = Ids(a, b) \o <<b>>
    BY <1>7, AppendIsConcat
  <2> QED BY <1>3, <1>4, <1>6, <1>8, <2>1, <2>2, <2>3
<1>9. CASE wpc # "notify"
  <2>1. Ids(a, b) \o <<>> = Ids(a, b)
    BY <1>7, ConcatEmptySeq
  <2>2. Num(chain, latest) = b
    BY <1>5, <1>9 DEF Announced
  <2> QED BY <1>3, <1>4, <1>6, <1>9, <2>1, <2>2
<1> QED BY <1>8, <1>9

\* The work a packer has is exactly what is in the chain from the position of
\* its client on, whenever refreshTransporters() made the client and whatever
\* the writer and the other packers do meanwhile, if no write runs while a
\* transporter is added.
THEOREM WorkMatches == Spec => [](Added => WorkMatchesChain)
<1> DEFINE Inv == BaseInv /\ (Added => WorkNow)
<1>1. Init => Inv
  BY BaseInit, WorkInit
<1>2. Inv /\ [Next]_<<vars, setup>> => Inv'
  <2> SUFFICES ASSUME Inv, [Next]_<<vars, setup>>
               PROVE  Inv'
    OBVIOUS
  <2>1. BaseInv'
    BY BaseNext
  <2>2. Added' => Added
    BY DEF Added, Next
  <2>3. Added => WorkNow'
    BY WorkNext
  <2> QED BY <2>1, <2>2, <2>3
<1>3. Inv => (Added => WorkMatchesChain)
  BY WorkIsChain
<1> QED BY <1>1, <1>2, <1>3, PTL DEF Spec

-----------------------------------------------------------------------------
(* Points that are published, with the span they were written with.        *)

Published(ch, s) == s # 0 /\ \E i \in 2 .. (Len(ch) - 1) : ch[i].seq = s
Pt(ch, s) == CHOOSE i \in 2 .. (Len(ch) - 1) : ch[i].seq = s
From(ch, s) == ch[Pt(ch, s)].time
Upto(ch, s) == ch[Pt(ch, s) + 1].time

LEMMA PtIs ==
  ASSUME NEW ev, NEW ch, IsChain(ev, ch), NEW i \in 2 .. (Len(ch) - 1), ch[i].seq # 0
  PROVE  /\ Published(ch, ch[i].seq) /\ Pt(ch, ch[i].seq) = i
         /\ From(ch, ch[i].seq) = ch[i].time /\ Upto(ch, ch[i].seq) = ch[i + 1].time
<1>1. ch \in Seq(Node) /\ Len(ch) \in Nat /\ i \in 2 .. Len(ch)
      /\ \A j \in 1 .. Len(ch) : ch[j].seq \in Nat
  BY Nodes DEF IsChain
<1>2. ASSUME NEW j \in 2 .. (Len(ch) - 1), ch[j].seq = ch[i].seq PROVE j = i
  <2>1. j \in 2 .. Len(ch) /\ Num(ch, i) = ch[i].seq /\ Num(ch, j) = ch[j].seq /\ ch[j].seq # 0
        /\ ch[i].seq \in Nat
    BY <1>1, <1>2 DEF Num
  <2>2. ~(i < j)
    <3>1. i < j => Num(ch, i) < Num(ch, j)
      BY <1>1, <2>1, NumRises
    <3> QED BY <1>2, <2>1, <3>1
  <2>3. ~(j < i)
    <3>1. j < i => Num(ch, j) < Num(ch, i)
      BY <1>1, <2>1, NumRises
    <3> QED BY <1>2, <2>1, <3>1
  <2> QED BY <1>1, <2>1, <2>2, <2>3
<1>3. Pt(ch, ch[i].seq) = i
  <2>1. \E j \in 2 .. (Len(ch) - 1) : ch[j].seq = ch[i].seq
    OBVIOUS
  <2>2. Pt(ch, ch[i].seq) \in 2 .. (Len(ch) - 1) /\ ch[Pt(ch, ch[i].seq)].seq = ch[i].seq
    BY <2>1, Zenon DEF Pt
  <2> QED BY <1>2, <2>2
<1>4. Published(ch, ch[i].seq)
  BY DEF Published
<1> QED BY <1>3, <1>4 DEF From, Upto

\* a published point has its place
LEMMA PointPlace ==
  ASSUME NEW ev, NEW ch, IsChain(ev, ch), NEW s, Published(ch, s)
  PROVE  \E i \in 2 .. (Len(ch) - 1) :
           /\ ch[i].seq = s /\ ch[i].seq # 0 /\ Pt(ch, s) = i /\ Num(ch, i) = s
           /\ From(ch, s) = ch[i].time /\ Upto(ch, s) = ch[i + 1].time
           /\ s \in Nat /\ s >= 1 /\ i \in 2 .. Len(ch) /\ i + 1 \in 2 .. Len(ch)
           /\ From(ch, s) \in Nat /\ Upto(ch, s) \in Nat /\ From(ch, s) < Upto(ch, s)
<1>1. PICK i \in 2 .. (Len(ch) - 1) : ch[i].seq = s
  BY DEF Published
<1>2. s # 0
  BY DEF Published
<1>3. Pt(ch, s) = i /\ From(ch, s) = ch[i].time /\ Upto(ch, s) = ch[i + 1].time
  BY <1>1, <1>2, PtIs
<1>4. /\ Len(ch) \in Nat /\ \A j \in 1 .. Len(ch) : ch[j].seq \in Nat /\ ch[j].time \in Nat
      /\ i \in 2 .. Len(ch) /\ i + 1 \in 2 .. Len(ch) /\ i < i + 1
  BY Nodes DEF IsChain
<1>5. ch[i].time < ch[i + 1].time
  BY <1>4 DEF IsChain, Rising
<1>6. Num(ch, i) = s
  BY <1>1, <1>2 DEF Num
<1>7. /\ i \in 1 .. Len(ch) /\ i + 1 \in 1 .. Len(ch)
  BY <1>4
<1>8. s \in Nat /\ s >= 1 /\ ch[i].time \in Nat /\ ch[i + 1].time \in Nat
  BY <1>1, <1>2, <1>4, <1>7
<1> QED BY <1>1, <1>2, <1>3, <1>4, <1>5, <1>6, <1>8

\* the spans of two points do not overlap
LEMMA SpansInOrder ==
  ASSUME NEW ev, NEW ch, IsChain(ev, ch), NEW s, NEW t, Published(ch, s), Published(ch, t), s < t
  PROVE  Upto(ch, s) <= From(ch, t) /\ Upto(ch, s) < Upto(ch, t)
<1>1. PICK i \in 2 .. (Len(ch) - 1) :
           /\ Num(ch, i) = s /\ Upto(ch, s) = ch[i + 1].time /\ s \in Nat
           /\ i \in 2 .. Len(ch) /\ i + 1 \in 2 .. Len(ch) /\ Upto(ch, s) \in Nat
  BY PointPlace
<1>2. PICK j \in 2 .. (Len(ch) - 1) :
           /\ Num(ch, j) = t /\ From(ch, t) = ch[j].time /\ t \in Nat
           /\ j \in 2 .. Len(ch) /\ From(ch, t) \in Nat /\ Upto(ch, t) \in Nat
           /\ From(ch, t) < Upto(ch, t)
  BY PointPlace
<1>3. Len(ch) \in Nat
  BY Nodes DEF IsChain
<1>4. i < j
  <2>1. j <= i => Num(ch, j) <= Num(ch, i)
    BY <1>1, <1>2, NumRises
  <2> QED BY <1>1, <1>2, <1>3, <2>1
<1>5. i + 1 = j \/ i + 1 < j
  BY <1>3, <1>4
<1>6. i + 1 < j => ch[i + 1].time < ch[j].time
  BY <1>1, <1>2 DEF IsChain, Rising
<1>7. Upto(ch, s) <= From(ch, t)
  BY <1>1, <1>2, <1>5, <1>6
<1> QED BY <1>1, <1>2, <1>7

\* a published point stays as it is
PointKept(ev, ch, ch2, s) ==
  /\ Published(ch2, s) /\ Pt(ch2, s) = Pt(ch, s) /\ From(ch2, s) = From(ch, s)
  /\ ~ev => Upto(ch2, s) = Upto(ch, s)

LEMMA PointStays ==
  ASSUME NEW ev \in BOOLEAN, NEW ch, NEW ch2, IsChain(ev, ch), IsChain(ev, ch2), Kept(ev, ch, ch2),
         NEW s, Published(ch, s)
  PROVE  PointKept(ev, ch, ch2, s)
<1>1. PICK i \in 2 .. (Len(ch) - 1) :
           /\ ch[i].seq = s /\ s # 0 /\ Pt(ch, s) = i
           /\ From(ch, s) = ch[i].time /\ Upto(ch, s) = ch[i + 1].time
  BY PointPlace
<1>2. Len(ch) \in Nat /\ Len(ch2) \in Nat /\ Len(ch) <= Len(ch2)
  BY Nodes DEF IsChain, Kept
<1>3. i \in 2 .. (Len(ch2) - 1) /\ i \in 1 .. (Len(ch) - 1) /\ i + 1 \in 3 .. Len(ch)
  BY <1>2
<1>4. ch2[i].seq = s /\ ch2[i].time = ch[i].time /\ (~ev => ch2[i + 1].time = ch[i + 1].time)
  BY <1>1, <1>3 DEF Kept
<1>5. /\ Published(ch2, s) /\ Pt(ch2, s) = i /\ From(ch2, s) = ch2[i].time
      /\ Upto(ch2, s) = ch2[i + 1].time
  BY <1>1, <1>3, <1>4, PtIs
<1> QED BY <1>1, <1>4, <1>5 DEF PointKept

-----------------------------------------------------------------------------
(* The circumstances in which the transport of an entry is right.          *)

\* the entry is invalidated while no packer works on it and no transporter
\* is added, and a FillPacker does not serve it
Removal == setup.removable => {"removed", "gone"} \subseteq setup.calm /\ setup.fill = {}
\* differences: each point fits in a store, and one after a gap is the first
Differences == ~setup.full => setup.huge = {} /\ (setup.event \/ "gap" \in setup.calm)
\* an end is there before the packer serves the channel, unless every event
\* is packed on its own
EndsFirst == "first" \in setup.calm \/ (setup.event /\ setup.full)
Orderly == Added /\ Removal /\ Differences /\ EndsFirst

\* the entry after it is invalidated
GoneNow ==
  /\ ~valid => setup.removable
  /\ ~valid => /\ wpc = "idle" /\ ~refreshDue /\ \A p \in Packers : ppc[p] = "idle"
               /\ \A i \in 1 .. Len(chain) : chain[i].ra = IF i < cleanup THEN 0 ELSE 1

LEMMA GoneNext ==
  ASSUME BaseInv, GoneNow, Removal, [Next]_<<vars, setup>>
  PROVE  GoneNow'
<1>1. CASE ~valid /\ UNCHANGED <<setup, valid, wpc, refreshDue, ppc, chain, cleanup>>
  BY <1>1 DEF GoneNow
<1>2. CASE valid /\ UNCHANGED <<setup, valid>>
  BY <1>2 DEF GoneNow
<1>3. CASE UNCHANGED <<vars, setup>>
  <2>1. UNCHANGED <<setup, valid, wpc, refreshDue, ppc, chain, cleanup>>
    BY <1>3 DEF vars, writerVars, configVars, packVars
  <2> QED BY <1>1, <1>2, <2>1
<1>4. CASE Next /\ Stopped
  BY <1>3, <1>4 DEF Next, Stopped
<1>5. CASE Step /\ UNCHANGED setup
  <2>1. CASE WriterStep
    <3>1. valid /\ valid' = valid
      BY <2>1 DEF WriterStep, NewData, RefreshInWrite, Publish, Notify, configVars, GoneNow
    <3> QED BY <1>2, <1>5, <3>1
  <2>2. CASE ConfigStep
    <3>1. ASSUME NEW e \in Ends, AddRemoteDestination(e) PROVE GoneNow'
      <4>1. valid' = valid /\ UNCHANGED <<wpc, ppc, chain, cleanup>> /\ ("gone" \in setup.calm => valid)
        BY <3>1 DEF AddRemoteDestination, writerVars, packVars
      <4>2. valid
        BY <4>1 DEF GoneNow, Removal
      <4> QED BY <1>2, <1>5, <4>1, <4>2
    <3>2. CASE ServiceRefresh
      <4>1. valid /\ valid' = valid
        BY <3>2 DEF ServiceRefresh, GoneNow
      <4> QED BY <1>2, <1>5, <4>1
    <3>3. CASE ResetValid
      <4>1. /\ setup.removable /\ wpc = "idle" /\ UNCHANGED <<wpc, refreshDue, ppc, cleanup>>
            /\ ("removed" \in setup.calm => \A p \in Packers : ~AtWork(p))
            /\ ("gone" \in setup.calm => ~refreshDue)
        BY <3>3 DEF ResetValid, packVars
      <4>2. ~refreshDue /\ \A p \in Packers : ppc[p] = "idle"
        BY <4>1 DEF Removal, AtWork
      <4>3. /\ Len(chain') = Len(chain)
            /\ \A i \in 1 .. Len(chain) : chain'[i].ra = IF i < cleanup THEN 0 ELSE 1
        BY <1>5, <3>3, ResetBase
      <4> QED BY <1>5, <4>1, <4>2, <4>3 DEF GoneNow
    <3>4. CASE CleanAllData
      <4>1. ~valid /\ UNCHANGED <<wpc, refreshDue, ppc, valid>>
        BY <3>4 DEF CleanAllData, configVars, packVars
      <4>2. /\ Len(chain') = Len(chain) /\ cleanup' \in cleanup .. (Len(chain) + 1)
            /\ \A i \in 1 .. Len(chain) :
                 chain'[i].ra = IF i \in cleanup .. (cleanup' - 1) THEN 0 ELSE chain[i].ra
        BY <1>5, <3>4, CleanBase
      <4>3. cleanup \in Nat /\ Len(chain) \in Nat
        BY ChainFacts DEF BaseInv
      <4>4. \A i \in 1 .. Len(chain) : chain[i].ra = IF i < cleanup THEN 0 ELSE 1
        BY <4>1 DEF GoneNow
      <4>5. \A i \in 1 .. Len(chain) : chain'[i].ra = IF i < cleanup' THEN 0 ELSE 1
        <5> TAKE i \in 1 .. Len(chain)
        <5>1. PICK d \in Nat : d = cleanup' /\ cleanup <= d
          BY <4>2, <4>3
        <5>2. i \in cleanup .. (d - 1) <=> cleanup <= i /\ i < d
          BY <4>3
        <5>3. chain'[i].ra = IF i \in cleanup .. (d - 1) THEN 0 ELSE chain[i].ra
          BY <4>2, <5>1
        <5>4. chain[i].ra = IF i < cleanup THEN 0 ELSE 1
          BY <4>4
        <5>5. CASE i < cleanup
          <6>1. i < d /\ ~(cleanup <= i)
            BY <4>3, <5>1, <5>5
          <6> QED BY <5>1, <5>2, <5>3, <5>4, <5>5, <6>1
        <5>6. CASE ~(i < cleanup)
          <6>1. cleanup <= i
            BY <4>3, <5>6
          <6> QED BY <5>1, <5>2, <5>3, <5>4, <5>6, <6>1
        <5> QED BY <5>5, <5>6
      <4> QED BY <1>5, <4>1, <4>2, <4>5 DEF GoneNow
    <3> QED BY <2>2, <3>1, <3>2, <3>3, <3>4 DEF ConfigStep
  <2>3. ASSUME NEW p \in Packers, PackerStep(p) PROVE GoneNow'
    <3>1. valid' = valid
      BY <2>3 DEF PackerStep, PackOneSet, AccessPackData, PackData, PackComplete, SendStore, configVars
    <3>2. CASE valid
      BY <1>2, <1>5, <3>1, <3>2
    <3>3. CASE ~valid
      <4>1. ppc[p] = "idle"
        BY <3>3 DEF GoneNow
      <4>2. CASE PackOneSet(p)
        <5>1. UNCHANGED <<wpc, refreshDue, ppc, chain, cleanup>>
          BY <3>3, <4>2 DEF PackOneSet, writerVars, configVars
        <5> QED BY <1>1, <1>5, <3>1, <3>3, <5>1
      <4>3. CASE SendStore(p)
        <5>1. UNCHANGED <<wpc, refreshDue, ppc, chain, cleanup>>
          BY <4>3 DEF SendStore, writerVars, configVars
        <5> QED BY <1>1, <1>5, <3>1, <3>3, <5>1
      <4> QED BY <2>3, <4>1, <4>2, <4>3 DEF PackerStep, AccessPackData, PackData, PackComplete
    <3> QED BY <3>2, <3>3
  <2>4. ASSUME NEW e \in Ends, EndStep(e) PROVE GoneNow'
    <3>1. UNCHANGED <<writerVars, configVars, packVars>>
      BY <2>4 DEF EndStep, CreateEnd, UnpackFirst, NewEntryConf, ProcessCached
    <3>2. UNCHANGED <<valid, wpc, refreshDue, ppc, chain, cleanup>>
      BY <3>1 DEF writerVars, configVars, packVars
    <3> QED BY <1>1, <1>2, <1>5, <3>2
  <2> QED BY <1>5, <2>1, <2>2, <2>3, <2>4 DEF Step
<1> QED BY <1>3, <1>4, <1>5 DEF Next

-----------------------------------------------------------------------------
(* What a client knows of the points that were packed, in the              *)
(* circumstances st.                                                       *)

\* from point a to point b with only points left out that no store can hold
Skips(st, a, b) == a < b /\ (a + 1) .. (b - 1) \subseteq st.huge

ClientOk(st, ch, sto, c, k, w) ==
  /\ st.full => c.sendFull
  /\ c.prev = None => c.sendFull /\ c.vend = None
  /\ c.prev # None => Published(ch, c.prev) /\ (~st.event => c.vend = Upto(ch, c.prev))
  /\ (c.prev # None /\ w # "complete") => Skips(st, c.prev, Num(ch, c.index))
  /\ w = "complete" => c.prev = ch[c.index].seq
  /\ w = "access" => k = c /\ ((~st.full /\ ch[c.index].seq = 0) => sto = <<>>)
  /\ w = "pack" => /\ k.prev = c.prev /\ k.vend = c.vend /\ (c.sendFull => k.sendFull)
                   /\ (k.sendFull /\ ~c.sendFull) => sto = <<>>
  /\ (~c.sendFull /\ w \in {"idle", "access"}) => ch[c.index - 1].seq = c.prev
  /\ (w = "pack" /\ ~k.sendFull) => ch[c.index - 1].seq = c.prev

PackNow == \A p \in DOMAIN pclients : ClientOk(setup, chain, store[p], pclients[p], copy[p], ppc[p])

\* a packer at work is behind the writer
LEMMA BusyAhead ==
  ASSUME BaseInv, WorkNow, GoneNow, NEW p \in Packers, ppc[p] # "idle"
  PROVE  LET c == pclients[p] IN
         /\ valid /\ p \in DOMAIN pclients /\ c.index \in 2 .. latest /\ c.index < latest
         /\ c.index < Len(chain) /\ PackAt(c) < Len(chain) /\ cleanup < c.index
         /\ Head(queue[p]) = chain[PackAt(c)].seq
<1> DEFINE c == pclients[p]
<1>1. valid /\ p \in DOMAIN pclients /\ queue[p] # <<>>
  BY HasClient DEF GoneNow, BaseInv, BusyNow
<1>2. /\ c.index \in 2 .. latest /\ c.index \in 2 .. Len(chain)
      /\ PackAt(c) \in 2 .. Len(chain) /\ chain[PackAt(c)].seq = Num(chain, c.index)
      /\ Num(chain, PackAt(c)) = Num(chain, c.index)
  BY <1>1, PackAtFacts
<1>3. /\ latest \in 2 .. Len(chain) /\ Len(chain) \in Nat /\ IsChain(setup.event, chain)
      /\ Len(chain) \in 2 .. Len(chain) /\ oldest \in Nat /\ cleanup \in Nat
  BY ChainFacts DEF BaseInv, ChainNow
<1>4. IsWork(chain, c.index, Announced, queue[p])
  BY <1>1 DEF WorkNow
<1>5. PICK a \in Nat : a = Num(chain, c.index)
  BY <1>2, <1>3, AtPosition
<1>6. PICK b \in Nat : b = Announced
  BY AnnouncedIs
<1>7. a <= b /\ queue[p] = Ids(a, b)
  BY <1>4, <1>5, <1>6 DEF IsWork
<1>8. a < b
  <2>1. a # b
    BY <1>1, <1>7, IdsSeq
  <2> QED BY <1>7, <2>1
<1>9. Head(queue[p]) = a
  BY <1>7, <1>8, IdsTail
<1>10. b <= Num(chain, latest) /\ Num(chain, latest) \in Nat
       /\ Num(chain, latest) <= Num(chain, Len(chain)) /\ Num(chain, Len(chain)) \in Nat
  BY <1>3, <1>6, AnnouncedIs, AtPosition, NumRises
<1>11. c.index # latest /\ PackAt(c) # Len(chain)
  BY <1>2, <1>5, <1>8, <1>10
<1>12. cleanup < oldest /\ oldest <= c.index
  BY <1>1 DEF BaseInv, HoldNow, Hold
<1> HIDE DEF c
<1>13. c.index < latest /\ c.index < Len(chain) /\ PackAt(c) < Len(chain) /\ cleanup < c.index
  BY <1>2, <1>3, <1>11, <1>12
<1> QED BY <1>1, <1>2, <1>5, <1>9, <1>13 DEF c

LEMMA ClientKept ==
  ASSUME NEW st, st.event \in BOOLEAN, NEW ch, NEW ch2, IsChain(st.event, ch), IsChain(st.event, ch2),
         Kept(st.event, ch, ch2), NEW sto, NEW c, NEW k, NEW w, ClientOk(st, ch, sto, c, k, w),
         c.index \in 2 .. Len(ch), w # "idle" => c.index < Len(ch)
  PROVE  ClientOk(st, ch2, sto, c, k, w)
<1>1. Len(ch) \in Nat
  BY Nodes DEF IsChain
<1>2. c.prev # None => Published(ch2, c.prev) /\ (~st.event => c.vend = Upto(ch2, c.prev))
  <2> SUFFICES ASSUME c.prev # None
               PROVE  Published(ch2, c.prev) /\ (~st.event => c.vend = Upto(ch2, c.prev))
    OBVIOUS
  <2>1. Published(ch, c.prev) /\ (~st.event => c.vend = Upto(ch, c.prev))
    BY DEF ClientOk
  <2>2. PointKept(st.event, ch, ch2, c.prev)
    BY <2>1, PointStays
  <2> QED BY <2>1, <2>2 DEF PointKept
<1>3. Num(ch2, c.index) = Num(ch, c.index)
  BY DEF Kept
<1>4. ch2[c.index - 1].seq = ch[c.index - 1].seq
  <2>1. c.index - 1 \in 1 .. (Len(ch) - 1)
    BY <1>1
  <2> QED BY <2>1 DEF Kept
<1>5. w # "idle" => ch2[c.index].seq = ch[c.index].seq
  <2> SUFFICES ASSUME w # "idle" PROVE ch2[c.index].seq = ch[c.index].seq
    OBVIOUS
  <2>1. c.index \in 1 .. (Len(ch) - 1)
    BY <1>1
  <2> QED BY <2>1 DEF Kept
<1> QED BY <1>2, <1>3, <1>4, <1>5 DEF ClientOk

\* the clients that do not move
LEMMA OthersOk ==
  ASSUME BaseInv, BaseInv', WorkNow, GoneNow, PackNow, Kept(setup.event, chain, chain'),
         setup' = setup, NEW q \in DOMAIN pclients,
         pclients'[q] = pclients[q], copy'[q] = copy[q], ppc'[q] = ppc[q], store'[q] = store[q]
  PROVE  ClientOk(setup', chain', store'[q], pclients'[q], copy'[q], ppc'[q])
<1>1. ClientOk(setup, chain, store[q], pclients[q], copy[q], ppc[q])
  BY DEF PackNow
<1>2. IsChain(setup.event, chain) /\ IsChain(setup.event, chain') /\ setup.event \in BOOLEAN
  BY ChainFacts DEF BaseInv, ChainNow
<1>3. q \in Packers /\ pclients[q].index \in 2 .. Len(chain)
  BY PackAtFacts DEF BaseInv, TypesNow
<1>4. ppc[q] # "idle" => pclients[q].index < Len(chain)
  BY <1>3, BusyAhead
<1>5. ClientOk(setup, chain', store[q], pclients[q], copy[q], ppc[q])
  BY <1>1, <1>2, <1>3, <1>4, ClientKept
<1> QED BY <1>5

\* one client moves or none
LEMMA OneMoves ==
  ASSUME BaseInv, BaseInv', WorkNow, GoneNow, PackNow, Kept(setup.event, chain, chain'),
         setup' = setup, DOMAIN pclients' = DOMAIN pclients, NEW p,
         \A q \in DOMAIN pclients \ {p} : /\ pclients'[q] = pclients[q] /\ copy'[q] = copy[q]
                                          /\ ppc'[q] = ppc[q] /\ store'[q] = store[q],
         p \in DOMAIN pclients => ClientOk(setup', chain', store'[p], pclients'[p], copy'[p], ppc'[p])
  PROVE  PackNow'
<1>1. ASSUME NEW q \in DOMAIN pclients
      PROVE  ClientOk(setup', chain', store'[q], pclients'[q], copy'[q], ppc'[q])
  <2>1. CASE q = p
    BY <2>1
  <2>2. CASE q # p
    BY <2>2, OthersOk
  <2> QED BY <2>1, <2>2
<1> QED BY <1>1 DEF PackNow

LEMMA PackApart ==
  ASSUME BaseInv, BaseInv', WorkNow, GoneNow, PackNow, Kept(setup.event, chain, chain'),
         UNCHANGED <<setup, pclients, copy, ppc, store>>
  PROVE  PackNow'
<1>1. ASSUME NEW q \in DOMAIN pclients
      PROVE  ClientOk(setup', chain', store'[q], pclients'[q], copy'[q], ppc'[q])
  BY OthersOk
<1> QED BY <1>1 DEF PackNow

LEMMA RefreshPack ==
  ASSUME BaseInv, BaseInv', WorkNow, GoneNow, PackNow, RefreshTransporters,
         UNCHANGED <<setup, copy, ppc, store, transporters>>
  PROVE  PackNow'
<1>1. RefreshDone
  BY RefreshDoes
<1>2. DOMAIN pclients' = transporters /\ Kept(setup.event, chain, chain') /\ transporters \subseteq Packers
  BY <1>1 DEF RefreshDone, BaseInv, TypesNow
<1>3. ASSUME NEW q \in transporters
      PROVE  ClientOk(setup', chain', store'[q], pclients'[q], copy'[q], ppc'[q])
  <2>1. CASE q \in DOMAIN pclients
    <3>1. pclients'[q] = pclients[q]
      BY <1>1, <2>1 DEF RefreshDone
    <3> QED BY <1>2, <2>1, <3>1, OthersOk
  <2>2. CASE q \notin DOMAIN pclients
    <3>1. pclients'[q] = NewClient
      BY <1>1, <2>2 DEF RefreshDone
    <3>2. NewClient.prev = None /\ NewClient.sendFull = TRUE /\ NewClient.vend = None
      BY DEF NewClient
    <3>3. ppc[q] = "idle"
      BY <1>2, <2>2 DEF BaseInv, ClientsNow
    <3> HIDE DEF NewClient
    <3>4. ClientOk(setup', chain', store'[q], NewClient, copy'[q], "idle")
      BY <3>2 DEF ClientOk
    <3> QED BY <3>1, <3>3, <3>4
  <2> QED BY <2>1, <2>2
<1> QED BY <1>2, <1>3 DEF PackNow

-----------------------------------------------------------------------------
(* The messages.                                                           *)

LEMMA UsedEmpty == Used(<<>>) = 0
<1> DEFINE s == <<>>
           body(f) == [k \in 0 .. Len(s) |-> IF k = 0 THEN 0 ELSE f[k - 1] + Size(s[k])]
           g == [k \in 0 .. 0 |-> 0]
<1>1. Len(s) = 0
  OBVIOUS
<1>2. g = body(g)
  BY <1>1
<1>3. \E f : f = body(f)
  BY <1>2
<1> DEFINE h == CHOOSE f : f = body(f)
<1>4. h = body(h)
  <2> HIDE DEF body
  <2> QED BY <1>3, Zenon
<1>5. Used(s) = h[Len(s)]
  BY DEF Used
<1> HIDE DEF h
<1>6. h[0] = 0
  BY <1>1, <1>4
<1> QED BY <1>1, <1>5, <1>6

\* a point that does not fit in an empty store is huge
LEMMA OnlyHugeWaits ==
  ASSUME NEW m \in Msg, ~(Used(<<>>) + Size(m) <= Capacity)
  PROVE  m.entry \in setup.huge
<1>1. SUFFICES ASSUME m.entry \notin setup.huge PROVE FALSE
  OBVIOUS
<1>2. Size(m) = (IF m.full THEN 2 ELSE 1) + (IF m.jump # None THEN 1 ELSE 0) + 0
  BY <1>1 DEF Size
<1>3. PICK x \in 1 .. 2 : x = IF m.full THEN 2 ELSE 1
  OBVIOUS
<1>4. PICK y \in 0 .. 1 : y = IF m.jump # None THEN 1 ELSE 0
  OBVIOUS
<1>5. Size(m) = x + y + 0
  BY <1>2, <1>3, <1>4
<1> QED BY <1>5, UsedEmpty, CapacityAssumption

\* a message tells what was written
Good(st, ch, m) ==
  /\ Published(ch, m.entry)
  /\ m.jump # None => m.full /\ ~st.event /\ m.jump = From(ch, m.entry)
  /\ ~st.event => m.end = Upto(ch, m.entry)
  /\ st.full => m.full

\* message m comes after point s
Follows(st, ch, s, m) ==
  /\ Published(ch, s) /\ Skips(st, s, m.entry)
  /\ ~m.full => m.base = s
  /\ (~st.event /\ m.jump = None) => Upto(ch, s) = From(ch, m.entry)

\* message m can be the first one
First(st, m) == m.full /\ (~st.event => m.jump # None)

LEMMA MessageRight ==
  ASSUME BaseInv, PackNow, NEW p \in Packers, ppc[p] = "pack"
  PROVE  LET c == pclients[p]
             m == Message(copy[p], c.accessed) IN
         /\ Good(setup, chain, m)
         /\ IF c.prev = None THEN First(setup, m) ELSE Follows(setup, chain, c.prev, m)
<1> DEFINE c == pclients[p]
           k == copy[p]
           n == c.accessed
           m == Message(k, n)
<1>1. /\ p \in DOMAIN pclients /\ n = c.index /\ n \in 2 .. (Len(chain) - 1) /\ n \in Nat
      /\ chain[n].seq # 0 /\ chain[n].seq \in Nat /\ chain[n].time \in Nat /\ chain[n + 1].time \in Nat
      /\ c \in Client
  BY AtWorkPoint
<1>2. /\ m \in Msg /\ m.full = k.sendFull /\ m.entry = chain[n].seq
      /\ m.jump = (IF ~setup.event /\ k.vend # chain[n].time THEN chain[n].time ELSE None)
      /\ m.base = (IF k.sendFull THEN None ELSE k.prev)
      /\ m.end = (IF setup.event THEN chain[n].time ELSE chain[n + 1].time)
  BY MessageTyped
<1>3. IsChain(setup.event, chain) /\ setup.event \in BOOLEAN /\ setup.full \in BOOLEAN /\ k \in Client
  BY SetupTyped DEF BaseInv, ChainNow, TypesNow
<1>4. ClientOk(setup, chain, store[p], c, k, "pack")
  BY <1>1 DEF PackNow
<1> HIDE DEF m, n, c, k
<1>5. /\ Published(chain, m.entry) /\ Pt(chain, m.entry) = n
      /\ From(chain, m.entry) = chain[n].time /\ Upto(chain, m.entry) = chain[n + 1].time
  <2>1. /\ Published(chain, chain[n].seq) /\ Pt(chain, chain[n].seq) = n
        /\ From(chain, chain[n].seq) = chain[n].time /\ Upto(chain, chain[n].seq) = chain[n + 1].time
    BY <1>1, <1>3, PtIs
  <2> QED BY <1>2, <2>1
<1>6. k.prev = c.prev /\ k.vend = c.vend /\ (c.sendFull => k.sendFull) /\ (setup.full => c.sendFull)
      /\ (c.prev = None => c.sendFull /\ c.vend = None)
      /\ (c.prev # None => Published(chain, c.prev) /\ (~setup.event => c.vend = Upto(chain, c.prev))
                           /\ Skips(setup, c.prev, Num(chain, c.index)))
      /\ (~k.sendFull => chain[c.index - 1].seq = c.prev)
  BY <1>4 DEF ClientOk
<1>7. Num(chain, n) = m.entry
  BY <1>1, <1>2 DEF Num
\* a difference connects in time
<1>8. ASSUME ~k.sendFull, ~setup.event PROVE m.jump = None
  <2>1. c.prev # None
    BY <1>6, <1>8
  <2>2. PICK i \in 2 .. (Len(chain) - 1) : chain[i].seq = c.prev /\ chain[i].seq # 0
                 /\ Upto(chain, c.prev) = chain[i + 1].time /\ Pt(chain, c.prev) = i
    BY <1>3, <1>6, <2>1, PointPlace
  <2>3. n - 1 \in 1 .. Len(chain) /\ chain[n - 1].seq = c.prev /\ Len(chain) \in Nat
    BY <1>1, <1>6, <1>8, ChainFacts DEF BaseInv
  <2>4. n - 1 # 1
    BY <1>3, <2>2, <2>3 DEF IsChain
  <2>5. n - 1 \in 2 .. (Len(chain) - 1)
    BY <1>1, <2>3, <2>4
  <2>6. Pt(chain, c.prev) = n - 1
    BY <1>3, <2>2, <2>3, <2>5, PtIs
  <2>7. c.vend = chain[n].time
    BY <1>1, <1>6, <1>8, <2>1, <2>2, <2>6
  <2> QED BY <1>2, <1>6, <2>7
<1>9. Good(setup, chain, m)
  <2>1. m.jump # None => m.full /\ ~setup.event /\ m.jump = From(chain, m.entry)
    <3> SUFFICES ASSUME m.jump # None PROVE m.full /\ ~setup.event /\ m.jump = From(chain, m.entry)
      OBVIOUS
    <3>1. ~setup.event /\ m.jump = chain[n].time
      BY <1>2
    <3>2. k.sendFull
      BY <1>8, <3>1
    <3> QED BY <1>2, <1>5, <3>1, <3>2
  <2>2. ~setup.event => m.end = Upto(chain, m.entry)
    BY <1>2, <1>5
  <2>3. setup.full => m.full
    BY <1>2, <1>6
  <2> QED BY <1>5, <2>1, <2>2, <2>3 DEF Good
<1>10. CASE c.prev = None
  <2>1. m.full
    BY <1>2, <1>6, <1>10
  <2>2. ~setup.event => m.jump # None
    <3>1. k.vend = None /\ None # chain[n].time
      BY <1>1, <1>6, <1>10 DEF None
    <3> QED BY <1>2, <3>1
  <2> QED BY <1>9, <1>10, <2>1, <2>2 DEF First, m, n, k, c
<1>11. CASE c.prev # None
  <2>1. Published(chain, c.prev) /\ Skips(setup, c.prev, m.entry)
    BY <1>1, <1>6, <1>7, <1>11
  <2>2. ~m.full => m.base = c.prev
    BY <1>2, <1>6
  <2>3. (~setup.event /\ m.jump = None) => Upto(chain, c.prev) = From(chain, m.entry)
    <3>1. (~setup.event /\ m.jump = None) => k.vend = chain[n].time
      BY <1>1, <1>2 DEF None
    <3> QED BY <1>5, <1>6, <1>11, <3>1
  <2>4. Follows(setup, chain, c.prev, m)
    BY <2>1, <2>2, <2>3 DEF Follows
  <2> QED BY <1>9, <1>11, <2>4 DEF m, n, k, c
<1> QED BY <1>10, <1>11

-----------------------------------------------------------------------------
(* The steps of the packers keep what the clients know.                    *)

LEMMA PackOneSetPack ==
  ASSUME BaseInv, BaseInv', WorkNow, GoneNow, PackNow, Differences, NEW p \in Packers, PackOneSet(p),
         UNCHANGED setup
  PROVE  PackNow'
<1>1. /\ ppc[p] = "idle"
      /\ ("gap" \in setup.calm /\ p \in DOMAIN pclients) =>
            (store[p] = << >> \/ chain[pclients[p].index].seq # 0)
      /\ UNCHANGED <<chain, pclients, store>>
  BY DEF PackOneSet, writerVars
<1>2. Kept(setup.event, chain, chain')
  BY PackOneSetBase
<1>3. \/ UNCHANGED <<ppc, copy>>
      \/ /\ p \in DOMAIN pclients
         /\ ppc' = [ppc EXCEPT ![p] = "access"] /\ copy' = [copy EXCEPT ![p] = pclients[p]]
  BY DEF PackOneSet, BaseInv, TypesNow
<1>4. CASE UNCHANGED <<ppc, copy>>
  BY <1>1, <1>2, <1>4, PackApart
<1>5. CASE /\ p \in DOMAIN pclients
           /\ ppc' = [ppc EXCEPT ![p] = "access"] /\ copy' = [copy EXCEPT ![p] = pclients[p]]
  <2>1. /\ ppc'[p] = "access" /\ copy'[p] = pclients[p] /\ DOMAIN pclients \subseteq Packers
        /\ \A q \in Packers \ {p} : ppc'[q] = ppc[q] /\ copy'[q] = copy[q]
    BY <1>5 DEF BaseInv, TypesNow
  <2>2. ClientOk(setup, chain, store[p], pclients[p], copy[p], "idle")
    BY <1>1, <1>5 DEF PackNow
  <2>3. (~setup.full /\ chain[pclients[p].index].seq = 0) => store[p] = <<>>
    <3> SUFFICES ASSUME ~setup.full, chain[pclients[p].index].seq = 0
                 PROVE  store[p] = <<>>
      OBVIOUS
    <3>1. IsChain(setup.event, chain) /\ pclients[p].index \in 2 .. Len(chain)
      BY <1>5, PackAtFacts DEF BaseInv, ChainNow
    <3>2. ~setup.event
      BY <3>1, AtPosition
    <3> QED BY <1>1, <1>5, <3>2 DEF Differences
  <2>4. ClientOk(setup, chain, store[p], pclients[p], pclients[p], "access")
    BY <2>2, <2>3 DEF ClientOk
  <2>5. ClientOk(setup', chain', store'[p], pclients'[p], copy'[p], ppc'[p])
    BY <1>1, <2>1, <2>4
  <2>6. \A q \in DOMAIN pclients \ {p} : /\ pclients'[q] = pclients[q] /\ copy'[q] = copy[q]
                                         /\ ppc'[q] = ppc[q] /\ store'[q] = store[q]
    BY <1>1, <2>1
  <2>7. DOMAIN pclients' = DOMAIN pclients
    BY <1>1
  <2> QED BY <1>2, <2>5, <2>6, <2>7, OneMoves
<1> QED BY <1>3, <1>4, <1>5

LEMMA AccessPack ==
  ASSUME BaseInv, BaseInv', WorkNow, GoneNow, PackNow, NEW p \in Packers, AccessPackData(p),
         UNCHANGED setup
  PROVE  PackNow' /\ AccessTaken(p)
<1>1. /\ ppc[p] = "access" /\ p \in DOMAIN pclients /\ store' = store
      /\ \/ ~valid \/ PackAt(pclients[p]) >= Len(chain) \/ PackAt(pclients[p]) < cleanup
         \/ chain[PackAt(pclients[p])].seq # Head(queue[p])
         \/ pclients[p].accessed # None
         \/ AccessTaken(p)
  BY AccessCases
<1>2. Kept(setup.event, chain, chain')
  BY AccessBase
<1> DEFINE c == pclients[p]
           n == PackAt(c)
           c2 == [c EXCEPT !.index = n, !.accessed = n]
           k2 == [copy[p] EXCEPT !.sendFull = copy[p].sendFull \/ n # c.index]
<1>3. /\ valid /\ c.index < Len(chain) /\ n < Len(chain) /\ cleanup < c.index
      /\ Head(queue[p]) = chain[n].seq
  BY <1>1, BusyAhead
<1>4. /\ c \in Client /\ c.index \in 2 .. latest /\ c.index \in 2 .. Len(chain)
      /\ n \in 2 .. Len(chain) /\ n \in Nat /\ (n = c.index \/ n = c.index + 1)
      /\ Num(chain, n) = Num(chain, c.index)
      /\ (n # c.index) => chain[c.index].seq = 0
  BY <1>1, PackAtFacts
<1>5. c.accessed = None
  BY <1>1 DEF BaseInv, ClientsNow, ClientAt
<1>6. cleanup \in Nat /\ Len(chain) \in Nat /\ copy[p] \in Client
  BY ChainFacts DEF BaseInv, TypesNow
<1>7. AccessTaken(p)
  <2>1. ~(n >= Len(chain)) /\ ~(n < cleanup)
    BY <1>3, <1>4, <1>6
  <2> QED BY <1>1, <1>3, <1>5, <2>1
<1>8. /\ pclients' = [pclients EXCEPT ![p] = c2] /\ copy' = [copy EXCEPT ![p] = k2]
      /\ ppc' = [ppc EXCEPT ![p] = "pack"]
  BY <1>7 DEF AccessTaken
<1>9. ClientOk(setup, chain, store[p], c, copy[p], "access")
  BY <1>1 DEF PackNow
<1> HIDE DEF n, c
<1>10. c2.index = n /\ c2.prev = c.prev /\ c2.vend = c.vend /\ c2.sendFull = c.sendFull
  BY <1>4 DEF Client
<1>11. copy[p] = c
  BY <1>9 DEF ClientOk
<1>12. PICK f \in BOOLEAN : f = (c.sendFull \/ n # c.index)
  OBVIOUS
<1>13. k2 = [c EXCEPT !.sendFull = f]
  BY <1>11, <1>12, Zenon
<1>14. k2.prev = c.prev /\ k2.vend = c.vend /\ k2.sendFull = f
  <2> HIDE DEF k2
  <2> QED BY <1>4, <1>13 DEF Client
<1> HIDE DEF c2, k2
<1>15. f <=> (c.sendFull \/ n # c.index)
  BY <1>12
<1>16. ClientOk(setup, chain, store[p], c2, k2, "pack")
  <2>1. (c.prev # None) => Skips(setup, c2.prev, Num(chain, c2.index))
    BY <1>4, <1>9, <1>10 DEF ClientOk
  <2>2. c2.sendFull => k2.sendFull
    BY <1>10, <1>14, <1>15, Zenon
  <2>3. (k2.sendFull /\ ~c2.sendFull) => store[p] = <<>>
    <3> SUFFICES ASSUME k2.sendFull, ~c2.sendFull PROVE store[p] = <<>>
      OBVIOUS
    <3>1. ~c.sendFull /\ n # c.index
      BY <1>10, <1>14, <1>15, Zenon
    <3>2. ~setup.full
      BY <1>9, <3>1 DEF ClientOk
    <3> QED BY <1>4, <1>9, <3>1, <3>2 DEF ClientOk
  <2>4. ~k2.sendFull => chain[c2.index - 1].seq = c2.prev
    <3> SUFFICES ASSUME ~k2.sendFull PROVE chain[c2.index - 1].seq = c2.prev
      OBVIOUS
    <3>1. ~c.sendFull /\ n = c.index
      BY <1>14, <1>15, Zenon
    <3> QED BY <1>9, <1>10, <3>1 DEF ClientOk
  <2>5. /\ setup.full => c.sendFull
        /\ c.prev = None => c.sendFull /\ c.vend = None
        /\ c.prev # None => Published(chain, c.prev) /\ (~setup.event => c.vend = Upto(chain, c.prev))
    BY <1>9 DEF ClientOk
  <2> QED BY <1>10, <1>14, <2>1, <2>2, <2>3, <2>4, <2>5 DEF ClientOk
<1>17. /\ DOMAIN pclients' = DOMAIN pclients /\ pclients'[p] = c2 /\ copy'[p] = k2 /\ ppc'[p] = "pack"
       /\ \A q \in DOMAIN pclients \ {p} : pclients'[q] = pclients[q] /\ copy'[q] = copy[q] /\ ppc'[q] = ppc[q]
       /\ c2.index < Len(chain)
  BY <1>1, <1>3, <1>8, <1>10 DEF BaseInv, TypesNow
<1>18. ClientOk(setup, chain', store[p], c2, k2, "pack")
  <2>1. IsChain(setup.event, chain) /\ IsChain(setup.event, chain') /\ setup.event \in BOOLEAN
    BY ChainFacts DEF BaseInv, ChainNow
  <2>2. c2.index \in 2 .. Len(chain) /\ ("pack" # "idle" => c2.index < Len(chain))
    BY <1>4, <1>10, <1>17
  <2> QED BY <1>2, <1>16, <2>1, <2>2, ClientKept
<1>19. ClientOk(setup', chain', store'[p], pclients'[p], copy'[p], ppc'[p])
  BY <1>1, <1>17, <1>18
<1>20. PackNow'
  BY <1>1, <1>2, <1>17, <1>19, OneMoves
<1> QED BY <1>7, <1>20

\* to the next point, after a point that was packed or cannot be
LEMMA AdvancePack ==
  ASSUME BaseInv, BaseInv', WorkNow, GoneNow, PackNow, NEW p \in Packers, ppc[p] \in {"pack", "complete"},
         pclients' = [pclients EXCEPT ![p] = Advanced(pclients[p])],
         ppc' = [ppc EXCEPT ![p] = "idle"], Kept(setup.event, chain, chain'),
         UNCHANGED <<setup, copy, store>>,
         ppc[p] = "pack" => setup.full /\ chain[pclients[p].index].seq \in setup.huge
  PROVE  PackNow'
<1> DEFINE c == pclients[p]
           n == c.index
           c2 == Advanced(c)
<1>1. /\ p \in DOMAIN pclients /\ c \in Client
      /\ n \in Nat /\ n \in 2 .. (Len(chain) - 1)
      /\ chain[n].seq # 0 /\ chain[n].seq \in Nat /\ n + 1 \in 1 .. Len(chain)
  BY AtWorkPoint
<1>2. /\ IsChain(setup.event, chain) /\ IsChain(setup.event, chain') /\ setup.event \in BOOLEAN
      /\ Len(chain) \in Nat
  BY ChainFacts DEF BaseInv, ChainNow
<1>3. ClientOk(setup, chain, store[p], c, copy[p], ppc[p])
  BY <1>1 DEF PackNow
<1> HIDE DEF c
<1>4. c2.index = n + 1 /\ c2.prev = c.prev /\ c2.vend = c.vend /\ c2.sendFull = c.sendFull
  BY <1>1 DEF Advanced, Client
<1>5. Num(chain, n + 1) = chain[n].seq + 1 /\ Num(chain, n) = chain[n].seq
  <2>1. n \in 2 .. Len(chain) /\ n < Len(chain)
    BY <1>1, <1>2
  <2> HIDE DEF n
  <2> QED BY <1>1, <1>2, <2>1, AtPosition
<1>6. PICK a \in Nat : a = chain[n].seq
  BY <1>1
<1> HIDE DEF c2
<1>7. ASSUME c.prev # None PROVE Skips(setup, c2.prev, Num(chain, c2.index))
  <2>1. PICK s \in Nat : s = c.prev
    <3>1. Published(chain, c.prev)
      BY <1>3, <1>7 DEF ClientOk
    <3> QED BY <1>2, <3>1, PointPlace
  <2>2. CASE ppc[p] = "complete"
    <3>1. s = a
      BY <1>3, <1>6, <2>1, <2>2 DEF ClientOk
    <3>2. s < s + 1 /\ (s + 1) .. ((s + 1) - 1) \subseteq setup.huge
      OBVIOUS
    <3> QED BY <1>4, <1>5, <1>6, <2>1, <3>1, <3>2 DEF Skips
  <2>3. CASE ppc[p] = "pack"
    <3>1. s < a /\ (s + 1) .. (a - 1) \subseteq setup.huge
      BY <1>3, <1>5, <1>6, <1>7, <2>1, <2>3 DEF ClientOk, Skips
    <3>2. a \in setup.huge
      BY <1>6, <2>3 DEF c
    <3>3. s < a + 1 /\ (s + 1) .. ((a + 1) - 1) \subseteq setup.huge
      BY <3>1, <3>2
    <3> QED BY <1>4, <1>5, <1>6, <2>1, <3>3 DEF Skips
  <2> QED BY <2>2, <2>3
<1>8. ~c2.sendFull => chain[c2.index - 1].seq = c2.prev
  <2> SUFFICES ASSUME ~c2.sendFull PROVE chain[c2.index - 1].seq = c2.prev
    OBVIOUS
  <2>1. ~c.sendFull
    BY <1>4, Zenon
  <2>2. ppc[p] = "complete"
    BY <1>3, <2>1 DEF ClientOk
  <2>3. c.prev = chain[n].seq
    BY <1>3, <2>2 DEF ClientOk
  <2>4. c2.index - 1 = n
    BY <1>1, <1>4
  <2> QED BY <1>4, <2>3, <2>4
<1>9. ClientOk(setup, chain, store[p], c2, copy[p], "idle")
  <2>1. /\ setup.full => c.sendFull
        /\ c.prev = None => c.sendFull /\ c.vend = None
        /\ c.prev # None => Published(chain, c.prev) /\ (~setup.event => c.vend = Upto(chain, c.prev))
    BY <1>3 DEF ClientOk
  <2>2. (setup.full => c2.sendFull) /\ (c2.prev = None => c2.sendFull)
    BY <1>4, <2>1, Zenon
  <2> QED BY <1>4, <1>7, <1>8, <2>1, <2>2 DEF ClientOk
<1>10. ClientOk(setup, chain', store[p], c2, copy[p], "idle")
  <2>1. c2.index \in 2 .. Len(chain)
    BY <1>1, <1>2, <1>4
  <2> QED BY <1>2, <1>9, <2>1, ClientKept
<1>11. /\ DOMAIN pclients' = DOMAIN pclients /\ pclients'[p] = c2 /\ ppc'[p] = "idle"
       /\ \A q \in DOMAIN pclients \ {p} : pclients'[q] = pclients[q] /\ ppc'[q] = ppc[q]
  BY <1>1 DEF BaseInv, TypesNow, c2, c
<1>12. ClientOk(setup', chain', store'[p], pclients'[p], copy'[p], ppc'[p])
  BY <1>10, <1>11
<1> QED BY <1>11, <1>12, OneMoves

\* what does not fit in an empty store is huge, and packed as full data
LEMMA ThrownIsHuge ==
  ASSUME BaseInv, Differences, NEW p \in Packers, ppc[p] = "pack", store[p] = <<>>,
         ~(Used(store[p]) + Size(Message(copy[p], pclients[p].accessed)) <= Capacity)
  PROVE  setup.full /\ chain[pclients[p].index].seq \in setup.huge
<1> DEFINE m == Message(copy[p], pclients[p].accessed)
<1>1. m \in Msg /\ m.entry = chain[pclients[p].accessed].seq
  BY MessageTyped
<1>2. pclients[p].accessed = pclients[p].index
  BY AtWorkPoint
<1> HIDE DEF m
<1>3. ~(Used(<<>>) + Size(m) <= Capacity)
  BY DEF m
<1>4. m.entry \in setup.huge
  BY <1>1, <1>3, OnlyHugeWaits
<1> QED BY <1>1, <1>2, <1>4 DEF Differences

LEMMA PackDataPack ==
  ASSUME BaseInv, BaseInv', WorkNow, GoneNow, PackNow, Differences, NEW p \in Packers, PackData(p),
         UNCHANGED setup
  PROVE  PackNow'
<1>1. /\ ppc[p] = "pack" /\ p \in DOMAIN pclients
      /\ PackFits(p) \/ PackThrown(p) \/ PackWaits(p)
      /\ copy' = copy
  BY PackDataCases
<1>2. Kept(setup.event, chain, chain')
  BY PackDataBase
<1> DEFINE c == pclients[p]
           k == copy[p]
           n == c.accessed
           m == Message(k, n)
<1>3. /\ c \in Client /\ n = c.index /\ n \in Nat /\ n \in 2 .. (Len(chain) - 1)
      /\ chain[n].seq # 0 /\ chain[n].seq \in Nat
  BY <1>1, AtWorkPoint
<1>4. ClientOk(setup, chain, store[p], c, k, "pack")
  BY <1>1 DEF PackNow
<1>5. pclients \in [DOMAIN pclients -> Client] /\ ppc \in [Packers -> PackerPlaces]
      /\ DOMAIN pclients \subseteq Packers /\ store \in [Packers -> Seq(Msg)]
      /\ setup.event \in BOOLEAN /\ setup.full \in BOOLEAN /\ copy[p] \in Client
      /\ IsChain(setup.event, chain)
  BY SetupTyped DEF BaseInv, TypesNow, ChainNow
<1>6. CASE PackFits(p)
  <2> DEFINE c2 == [Packed(k, n, m.end) EXCEPT !.index = c.index, !.accessed = n]
  <2>1. /\ m.end = (IF setup.event THEN chain[n].time ELSE chain[n + 1].time)
        /\ c2.index = n /\ c2.prev = chain[n].seq
        /\ c2.vend = (IF setup.event THEN k.vend ELSE m.end)
        /\ c2.sendFull = (k.sendFull /\ setup.full)
    BY <1>1, MessageTyped
  <2>2. /\ store' = [store EXCEPT ![p] = Append(store[p], m)]
        /\ pclients' = [pclients EXCEPT ![p] = c2] /\ ppc' = [ppc EXCEPT ![p] = "complete"]
        /\ chain' = chain
    BY <1>6 DEF PackFits
  <2> HIDE DEF m, c2, k, c
  <2>3. Published(chain, chain[n].seq) /\ Upto(chain, chain[n].seq) = chain[n + 1].time
    <3> HIDE DEF n
    <3> QED BY <1>3, <1>5, PtIs
  <2>4. ClientOk(setup, chain, store'[p], c2, k, "complete")
    <3>1. setup.full => c2.sendFull
      <4> SUFFICES ASSUME setup.full PROVE c2.sendFull
        OBVIOUS
      <4>1. c.sendFull /\ (c.sendFull => k.sendFull)
        BY <1>4 DEF ClientOk
      <4> QED BY <2>1, <4>1, Zenon
    <3>2. c2.prev # None
      BY <1>3, <2>1 DEF None
    <3>3. ~setup.event => c2.vend = Upto(chain, c2.prev)
      BY <2>1, <2>3
    <3>4. c2.prev = chain[c2.index].seq
      BY <2>1
    <3> QED BY <2>1, <2>3, <3>1, <3>2, <3>3, <3>4 DEF ClientOk
  <2>5. /\ DOMAIN pclients' = DOMAIN pclients /\ pclients'[p] = c2 /\ ppc'[p] = "complete"
        /\ \A q \in DOMAIN pclients \ {p} : pclients'[q] = pclients[q] /\ ppc'[q] = ppc[q]
                                            /\ store'[q] = store[q]
    BY <1>1, <1>5, <2>2
  <2>6. ClientOk(setup', chain', store'[p], pclients'[p], copy'[p], ppc'[p])
    BY <1>1, <2>2, <2>4, <2>5 DEF k
  <2> QED BY <1>1, <1>2, <2>5, <2>6, OneMoves
<1>7. CASE PackThrown(p)
  <2>1. /\ pclients' = [pclients EXCEPT ![p] = Advanced(pclients[p])] /\ store[p] = <<>>
        /\ ppc' = [ppc EXCEPT ![p] = "idle"] /\ UNCHANGED store
        /\ ~(Used(store[p]) + Size(Message(copy[p], pclients[p].accessed)) <= Capacity)
    BY <1>7 DEF PackThrown
  <2>2. setup.full /\ chain[pclients[p].index].seq \in setup.huge
    BY <1>1, <2>1, ThrownIsHuge
  <2> QED BY <1>1, <1>2, <2>1, <2>2, AdvancePack
<1>8. CASE PackWaits(p)
  <2> DEFINE c2 == [c EXCEPT !.accessed = None]
  <2>1. /\ ~(Used(store[p]) + Size(Message(copy[p], pclients[p].accessed)) <= Capacity)
        /\ pclients' = [pclients EXCEPT ![p] = c2]
        /\ ppc' = [ppc EXCEPT ![p] = "idle"] /\ UNCHANGED <<chain, store>>
    BY <1>8 DEF PackWaits
  <2> HIDE DEF n, m, k, c
  <2>2. c2.index = c.index /\ c2.prev = c.prev /\ c2.vend = c.vend /\ c2.sendFull = c.sendFull
    BY <1>3 DEF Client
  <2> HIDE DEF c2
  <2>3. ~c.sendFull => chain[c.index - 1].seq = c.prev
    <3> SUFFICES ASSUME ~c.sendFull PROVE chain[c.index - 1].seq = c.prev
      OBVIOUS
    <3>1. ~setup.full
      BY <1>4 DEF ClientOk
    <3>2. store[p] # <<>>
      BY <1>1, <2>1, <3>1, ThrownIsHuge
    <3>3. ~k.sendFull
      BY <1>4, <3>2 DEF ClientOk
    <3> QED BY <1>4, <3>3 DEF ClientOk
  <2>4. ClientOk(setup, chain, store[p], c2, k, "idle")
    <3>1. /\ setup.full => c.sendFull
          /\ c.prev = None => c.sendFull /\ c.vend = None
          /\ c.prev # None => Published(chain, c.prev) /\ (~setup.event => c.vend = Upto(chain, c.prev))
          /\ c.prev # None => Skips(setup, c.prev, Num(chain, c.index))
      BY <1>4 DEF ClientOk
    <3>2. (setup.full => c2.sendFull) /\ (c2.prev = None => c2.sendFull)
          /\ (~c2.sendFull => chain[c2.index - 1].seq = c2.prev)
      BY <2>2, <2>3, <3>1, Zenon
    <3> QED BY <2>2, <3>1, <3>2 DEF ClientOk
  <2>5. /\ DOMAIN pclients' = DOMAIN pclients /\ pclients'[p] = c2 /\ ppc'[p] = "idle"
        /\ \A q \in DOMAIN pclients \ {p} : pclients'[q] = pclients[q] /\ ppc'[q] = ppc[q]
    BY <1>1, <1>5, <2>1
  <2>6. ClientOk(setup', chain', store'[p], pclients'[p], copy'[p], ppc'[p])
    BY <1>1, <2>1, <2>4, <2>5 DEF k
  <2> QED BY <1>1, <1>2, <2>1, <2>5, <2>6, OneMoves
<1> QED BY <1>1, <1>6, <1>7, <1>8

LEMMA PackCompletePack ==
  ASSUME BaseInv, BaseInv', WorkNow, GoneNow, PackNow, NEW p \in Packers, PackComplete(p), UNCHANGED setup
  PROVE  PackNow'
<1>1. /\ ppc[p] = "complete" /\ pclients' = [pclients EXCEPT ![p] = Advanced(pclients[p])]
      /\ ppc' = [ppc EXCEPT ![p] = "idle"] /\ UNCHANGED <<copy, store>>
  BY DEF PackComplete
<1>2. Kept(setup.event, chain, chain')
  BY PackCompleteBase
<1> QED BY <1>1, <1>2, AdvancePack

LEMMA SendPack ==
  ASSUME BaseInv, BaseInv', WorkNow, GoneNow, PackNow, NEW p \in Packers, SendStore(p), UNCHANGED setup
  PROVE  PackNow'
<1>1. /\ ppc[p] = "idle" /\ store' = [store EXCEPT ![p] = <<>>]
      /\ UNCHANGED <<chain, pclients, ppc, copy>>
  BY DEF SendStore, writerVars
<1>2. Kept(setup.event, chain, chain')
  BY SendBase
<1>3. DOMAIN pclients \subseteq Packers /\ store \in [Packers -> Seq(Msg)]
  BY DEF BaseInv, TypesNow
<1>4. ASSUME p \in DOMAIN pclients
      PROVE  ClientOk(setup', chain', store'[p], pclients'[p], copy'[p], ppc'[p])
  <2>1. ClientOk(setup, chain, store[p], pclients[p], copy[p], "idle")
    BY <1>1, <1>4 DEF PackNow
  <2>2. ClientOk(setup, chain, store'[p], pclients[p], copy[p], "idle")
    BY <2>1 DEF ClientOk
  <2> QED BY <1>1, <2>2
<1>5. \A q \in DOMAIN pclients \ {p} : store'[q] = store[q]
  BY <1>1, <1>3
<1> QED BY <1>1, <1>2, <1>4, <1>5, OneMoves

LEMMA PackNext ==
  ASSUME BaseInv, WorkNow, GoneNow, PackNow, Differences, [Next]_<<vars, setup>>
  PROVE  PackNow'
<1>0. BaseInv' /\ Kept(setup.event, chain, chain')
  BY BaseNext
<1>1. CASE UNCHANGED <<vars, setup>>
  <2>1. UNCHANGED <<setup, pclients, copy, ppc, store>>
    BY <1>1 DEF vars, packVars
  <2> QED BY <1>0, <2>1, PackApart
<1>2. CASE Next /\ Stopped
  BY <1>1, <1>2 DEF Next, Stopped
<1>3. CASE Step /\ UNCHANGED setup
  <2>1. CASE WriterStep
    <3>1. CASE RefreshInWrite /\ stale
      <4>1. RefreshTransporters /\ UNCHANGED <<copy, ppc, store, transporters>>
        BY <3>1 DEF RefreshInWrite
      <4> QED BY <1>0, <1>3, <4>1, RefreshPack
    <3>2. CASE ~(RefreshInWrite /\ stale)
      <4>1. UNCHANGED <<pclients, copy, ppc, store>>
        BY <2>1, <3>2 DEF WriterStep, NewData, RefreshInWrite, Publish, Notify, packVars
      <4> QED BY <1>0, <1>3, <4>1, PackApart
    <3> QED BY <3>1, <3>2
  <2>2. CASE ConfigStep
    <3>1. CASE ServiceRefresh
      <4>1. RefreshTransporters /\ UNCHANGED <<copy, ppc, store, transporters>>
        BY <3>1 DEF ServiceRefresh
      <4> QED BY <1>0, <1>3, <4>1, RefreshPack
    <3>2. CASE ~ServiceRefresh
      <4>1. UNCHANGED <<pclients, copy, ppc, store>>
        BY <2>2, <3>2 DEF ConfigStep, AddRemoteDestination, ResetValid, CleanAllData, packVars
      <4> QED BY <1>0, <1>3, <4>1, PackApart
    <3> QED BY <3>1, <3>2
  <2>3. ASSUME NEW p \in Packers, PackerStep(p) PROVE PackNow'
    BY <1>0, <1>3, <2>3, PackOneSetPack, AccessPack, PackDataPack, PackCompletePack, SendPack
       DEF PackerStep
  <2>4. ASSUME NEW e \in Ends, EndStep(e) PROVE PackNow'
    <3>1. UNCHANGED packVars
      BY <2>4 DEF EndStep, CreateEnd, UnpackFirst, NewEntryConf, ProcessCached
    <3>2. UNCHANGED <<pclients, copy, ppc, store>>
      BY <3>1 DEF packVars
    <3> QED BY <1>0, <1>3, <3>2, PackApart
  <2> QED BY <1>3, <2>1, <2>2, <2>3, <2>4 DEF Step
<1> QED BY <1>1, <1>2, <1>3 DEF Next

-----------------------------------------------------------------------------
(* What is on its way to an end: in its cache, in its inbox, in the store. *)

Three(a, b, c) == a \o b \o c

IsThree(t, a, b, c) ==
  /\ t \in Seq(Msg) /\ Len(t) = Len(a) + Len(b) + Len(c)
  /\ Len(a) \in Nat /\ Len(b) \in Nat /\ Len(c) \in Nat
  /\ \A i \in 1 .. (Len(a) + Len(b) + Len(c)) :
       t[i] = IF i <= Len(a) THEN a[i]
              ELSE IF i <= Len(a) + Len(b) THEN b[i - Len(a)]
              ELSE c[i - Len(a) - Len(b)]

LEMMA ThreeAt ==
  ASSUME NEW a \in Seq(Msg), NEW b \in Seq(Msg), NEW c \in Seq(Msg)
  PROVE  Three(a, b, c) \in Seq(Msg) /\ IsThree(Three(a, b, c), a, b, c)
<1>1. Len(a) \in Nat /\ Len(b) \in Nat /\ Len(c) \in Nat
  BY LenProperties
<1>2. /\ a \o b \in Seq(Msg) /\ Len(a \o b) = Len(a) + Len(b)
      /\ \A i \in 1 .. Len(a) + Len(b) : (a \o b)[i] = IF i <= Len(a) THEN a[i] ELSE b[i - Len(a)]
  BY ConcatProperties
<1>3. PICK d \in Seq(Msg) : d = a \o b
  BY <1>2
<1>4. /\ d \o c \in Seq(Msg) /\ Len(d \o c) = Len(d) + Len(c)
      /\ \A i \in 1 .. Len(d) + Len(c) : (d \o c)[i] = IF i <= Len(d) THEN d[i] ELSE c[i - Len(d)]
  BY ConcatProperties
<1>5. Three(a, b, c) = d \o c
  BY <1>3 DEF Three
<1>6. Len(d) = Len(a) + Len(b)
  BY <1>2, <1>3
<1>7. ASSUME NEW i \in 1 .. (Len(a) + Len(b) + Len(c))
      PROVE  (d \o c)[i] = IF i <= Len(a) THEN a[i]
                           ELSE IF i <= Len(a) + Len(b) THEN b[i - Len(a)]
                           ELSE c[i - Len(a) - Len(b)]
  <2>1. CASE i <= Len(a) + Len(b)
    <3>1. i \in 1 .. Len(a) + Len(b) /\ i \in 1 .. Len(d) + Len(c) /\ i <= Len(d)
      BY <1>1, <1>6, <2>1
    <3>2. (d \o c)[i] = d[i]
      BY <1>4, <3>1
    <3>3. d[i] = IF i <= Len(a) THEN a[i] ELSE b[i - Len(a)]
      BY <1>2, <1>3, <3>1
    <3> QED BY <1>1, <2>1, <3>2, <3>3
  <2>2. CASE ~(i <= Len(a) + Len(b))
    <3>1. i \in 1 .. Len(d) + Len(c) /\ ~(i <= Len(d)) /\ ~(i <= Len(a)) /\ i - Len(d) = i - Len(a) - Len(b)
      BY <1>1, <1>6, <2>2
    <3>2. (d \o c)[i] = c[i - Len(d)]
      BY <1>4, <3>1
    <3> QED BY <2>2, <3>1, <3>2
  <2> QED BY <2>1, <2>2
<1>8. Len(d \o c) = Len(a) + Len(b) + Len(c)
  BY <1>1, <1>4, <1>6
<1> HIDE DEF Three
<1> QED BY <1>1, <1>4, <1>5, <1>7, <1>8 DEF IsThree

\* two lines with the same messages
LEMMA SameLine ==
  ASSUME NEW s \in Seq(Msg), NEW t \in Seq(Msg), NEW n \in Nat, Len(s) = n, Len(t) = n,
         \A i \in 1 .. n : s[i] = t[i]
  PROVE  s = t
BY SeqEqual

LEMMA ThreeAppend ==
  ASSUME NEW a \in Seq(Msg), NEW b \in Seq(Msg), NEW c \in Seq(Msg), NEW m \in Msg
  PROVE  Three(a, b, Append(c, m)) = Append(Three(a, b, c), m)
<1>1. PICK x \in Seq(Msg) : x = Append(c, m)
  BY AppendProperties
<1>2. /\ Len(x) = Len(c) + 1 /\ x[Len(c) + 1] = m
      /\ \A i \in 1 .. Len(c) : x[i] = c[i]
  BY <1>1, AppendProperties
<1>3. PICK s \in Seq(Msg) : s = Three(a, b, c) /\ IsThree(s, a, b, c)
  BY ThreeAt, Zenon
<1>4. PICK t \in Seq(Msg) : t = Three(a, b, x) /\ IsThree(t, a, b, x)
  BY ThreeAt, Zenon
<1>5. PICK u \in Seq(Msg) : u = Append(s, m)
  BY AppendProperties
<1>6. /\ Len(u) = Len(s) + 1 /\ u[Len(s) + 1] = m
      /\ \A i \in 1 .. Len(s) : u[i] = s[i]
  BY <1>5, AppendProperties
<1>7. /\ Len(s) = Len(a) + Len(b) + Len(c)
      /\ Len(a) \in Nat /\ Len(b) \in Nat /\ Len(c) \in Nat
      /\ \A i \in 1 .. (Len(a) + Len(b) + Len(c)) :
              s[i] = IF i <= Len(a) THEN a[i]
                     ELSE IF i <= Len(a) + Len(b) THEN b[i - Len(a)]
                     ELSE c[i - Len(a) - Len(b)]
  BY <1>3 DEF IsThree
<1>8. /\ Len(t) = Len(a) + Len(b) + Len(x)
      /\ \A i \in 1 .. (Len(a) + Len(b) + Len(x)) :
              t[i] = IF i <= Len(a) THEN a[i]
                     ELSE IF i <= Len(a) + Len(b) THEN b[i - Len(a)]
                     ELSE x[i - Len(a) - Len(b)]
  BY <1>4 DEF IsThree
<1>9. PICK n \in Nat : n = Len(a) + Len(b) + Len(c) + 1
  BY <1>7
<1>10. Len(t) = n /\ Len(u) = n
  BY <1>2, <1>6, <1>7, <1>8, <1>9
<1>11. ASSUME NEW i \in 1 .. n PROVE t[i] = u[i]
  <2>1. CASE i <= Len(a) + Len(b)
    <3>1. i \in 1 .. Len(s) /\ i \in 1 .. (Len(a) + Len(b) + Len(c)) /\ i \in 1 .. (Len(a) + Len(b) + Len(x))
      BY <1>2, <1>7, <1>9, <2>1
    <3>2. u[i] = s[i]
      BY <1>6, <3>1
    <3>3. s[i] = IF i <= Len(a) THEN a[i] ELSE b[i - Len(a)]
      BY <1>7, <2>1, <3>1
    <3>4. t[i] = IF i <= Len(a) THEN a[i] ELSE b[i - Len(a)]
      BY <1>8, <2>1, <3>1
    <3> QED BY <3>2, <3>3, <3>4
  <2>2. CASE ~(i <= Len(a) + Len(b)) /\ i < n
    <3>1. /\ i \in 1 .. Len(s) /\ i \in 1 .. (Len(a) + Len(b) + Len(c)) /\ i \in 1 .. (Len(a) + Len(b) + Len(x))
          /\ ~(i <= Len(a)) /\ i - Len(a) - Len(b) \in 1 .. Len(c)
      BY <1>2, <1>7, <1>9, <2>2
    <3>2. u[i] = s[i]
      BY <1>6, <3>1
    <3>3. s[i] = c[i - Len(a) - Len(b)]
      BY <1>7, <2>2, <3>1
    <3>4. t[i] = x[i - Len(a) - Len(b)]
      BY <1>8, <2>2, <3>1
    <3>5. x[i - Len(a) - Len(b)] = c[i - Len(a) - Len(b)]
      BY <1>2, <3>1
    <3> QED BY <3>2, <3>3, <3>4, <3>5
  <2>3. CASE i = n
    <3>1. /\ i = Len(s) + 1 /\ i \in 1 .. (Len(a) + Len(b) + Len(x))
          /\ ~(i <= Len(a)) /\ ~(i <= Len(a) + Len(b)) /\ i - Len(a) - Len(b) = Len(c) + 1
      BY <1>2, <1>7, <1>9, <2>3
    <3>2. t[i] = x[i - Len(a) - Len(b)]
      BY <1>8, <3>1
    <3> QED BY <1>2, <1>6, <3>1, <3>2
  <2> QED BY <1>9, <2>1, <2>2, <2>3
<1>12. t = u
  BY <1>10, <1>11, SameLine
<1> QED BY <1>1, <1>3, <1>4, <1>5, <1>12

\* the store is sent
LEMMA ThreeSent ==
  ASSUME NEW a \in Seq(Msg), NEW b \in Seq(Msg), NEW c \in Seq(Msg)
  PROVE  Three(a, b \o c, <<>>) = Three(a, b, c)
<1>1. PICK x \in Seq(Msg) : x = b \o c
  BY ConcatProperties
<1>2. Len(x) = Len(b) + Len(c)
      /\ \A i \in 1 .. Len(b) + Len(c) : x[i] = IF i <= Len(b) THEN b[i] ELSE c[i - Len(b)]
  BY <1>1, ConcatProperties
<1>3. PICK y \in Seq(Msg) : y = <<>> /\ Len(y) = 0
  BY EmptySeq
<1>4. PICK s \in Seq(Msg) : s = Three(a, b, c) /\ IsThree(s, a, b, c)
  BY ThreeAt, Zenon
<1>5. PICK t \in Seq(Msg) : t = Three(a, x, y) /\ IsThree(t, a, x, y)
  BY ThreeAt, Zenon
<1>6. /\ Len(s) = Len(a) + Len(b) + Len(c)
      /\ Len(a) \in Nat /\ Len(b) \in Nat /\ Len(c) \in Nat
      /\ \A i \in 1 .. (Len(a) + Len(b) + Len(c)) :
              s[i] = IF i <= Len(a) THEN a[i]
                     ELSE IF i <= Len(a) + Len(b) THEN b[i - Len(a)]
                     ELSE c[i - Len(a) - Len(b)]
  BY <1>4 DEF IsThree
<1>7. /\ Len(t) = Len(a) + Len(x) + Len(y)
      /\ \A i \in 1 .. (Len(a) + Len(x) + Len(y)) :
              t[i] = IF i <= Len(a) THEN a[i]
                     ELSE IF i <= Len(a) + Len(x) THEN x[i - Len(a)]
                     ELSE y[i - Len(a) - Len(x)]
  BY <1>5 DEF IsThree
<1>8. PICK n \in Nat : n = Len(a) + Len(b) + Len(c)
  BY <1>6
<1>9. Len(t) = n /\ Len(s) = n
  BY <1>2, <1>3, <1>6, <1>7, <1>8
<1>10. ASSUME NEW i \in 1 .. n PROVE t[i] = s[i]
  <2>0. i \in 1 .. (Len(a) + Len(b) + Len(c)) /\ i \in 1 .. (Len(a) + Len(x) + Len(y)) /\ i <= Len(a) + Len(x)
    BY <1>2, <1>3, <1>6, <1>8
  <2>1. CASE i <= Len(a)
    BY <1>6, <1>7, <2>0, <2>1
  <2>2. CASE ~(i <= Len(a))
    <3>1. i - Len(a) \in 1 .. Len(b) + Len(c) /\ i - Len(a) - Len(b) = (i - Len(a)) - Len(b)
          /\ (i - Len(a) <= Len(b) <=> i <= Len(a) + Len(b))
      BY <1>6, <1>8, <2>2
    <3>2. t[i] = x[i - Len(a)]
      BY <1>7, <2>0, <2>2
    <3>3. x[i - Len(a)] = IF i <= Len(a) + Len(b) THEN b[i - Len(a)] ELSE c[i - Len(a) - Len(b)]
      BY <1>2, <3>1
    <3>4. s[i] = IF i <= Len(a) + Len(b) THEN b[i - Len(a)] ELSE c[i - Len(a) - Len(b)]
      BY <1>6, <2>0, <2>2
    <3> QED BY <3>2, <3>3, <3>4
  <2> QED BY <2>1, <2>2
<1>11. t = s
  BY <1>9, <1>10, SameLine
<1> QED BY <1>1, <1>3, <1>4, <1>5, <1>11

\* the first message of the inbox goes to the cache
LEMMA ThreeCached ==
  ASSUME NEW a \in Seq(Msg), NEW b \in Seq(Msg), NEW c \in Seq(Msg), b # <<>>
  PROVE  Three(Append(a, Head(b)), Tail(b), c) = Three(a, b, c)
<1>0. Head(b) \in Msg /\ Tail(b) \in Seq(Msg) /\ Len(b) \in Nat \ {0} /\ Head(b) = b[1]
  BY HeadTailProperties, EmptySeq
<1>1. PICK x \in Seq(Msg) : x = Append(a, Head(b))
  BY <1>0, AppendProperties
<1>2. /\ Len(x) = Len(a) + 1 /\ x[Len(a) + 1] = b[1]
      /\ \A i \in 1 .. Len(a) : x[i] = a[i]
  BY <1>0, <1>1, AppendProperties
<1>3. PICK y \in Seq(Msg) : y = Tail(b)
  BY <1>0
<1>4. Len(y) = Len(b) - 1 /\ \A i \in 1 .. (Len(b) - 1) : y[i] = b[i + 1]
  BY <1>0, <1>3, HeadTailProperties
<1>5. PICK s \in Seq(Msg) : s = Three(a, b, c) /\ IsThree(s, a, b, c)
  BY ThreeAt, Zenon
<1>6. PICK t \in Seq(Msg) : t = Three(x, y, c) /\ IsThree(t, x, y, c)
  BY ThreeAt, Zenon
<1>7. /\ Len(s) = Len(a) + Len(b) + Len(c)
      /\ Len(a) \in Nat /\ Len(b) \in Nat /\ Len(c) \in Nat
      /\ \A i \in 1 .. (Len(a) + Len(b) + Len(c)) :
              s[i] = IF i <= Len(a) THEN a[i]
                     ELSE IF i <= Len(a) + Len(b) THEN b[i - Len(a)]
                     ELSE c[i - Len(a) - Len(b)]
  BY <1>5 DEF IsThree
<1>8. /\ Len(t) = Len(x) + Len(y) + Len(c)
      /\ \A i \in 1 .. (Len(x) + Len(y) + Len(c)) :
              t[i] = IF i <= Len(x) THEN x[i]
                     ELSE IF i <= Len(x) + Len(y) THEN y[i - Len(x)]
                     ELSE c[i - Len(x) - Len(y)]
  BY <1>6 DEF IsThree
<1>9. PICK n \in Nat : n = Len(a) + Len(b) + Len(c)
  BY <1>7
<1>10. Len(t) = n /\ Len(s) = n
  BY <1>2, <1>4, <1>7, <1>8, <1>9
<1>11. ASSUME NEW i \in 1 .. n PROVE t[i] = s[i]
  <2>0. i \in 1 .. (Len(a) + Len(b) + Len(c)) /\ i \in 1 .. (Len(x) + Len(y) + Len(c))
    BY <1>2, <1>4, <1>7, <1>9
  <2>1. CASE i <= Len(a)
    <3>1. i <= Len(x) /\ i \in 1 .. Len(a)
      BY <1>2, <1>7, <2>1
    <3> QED BY <1>2, <1>7, <1>8, <2>0, <2>1, <3>1
  <2>2. CASE i = Len(a) + 1
    <3>1. i <= Len(x) /\ ~(i <= Len(a)) /\ i <= Len(a) + Len(b) /\ i - Len(a) = 1
      BY <1>0, <1>2, <1>7, <2>2
    <3>2. t[i] = x[i] /\ s[i] = b[i - Len(a)]
      BY <1>7, <1>8, <2>0, <3>1
    <3> QED BY <1>2, <2>2, <3>1, <3>2
  <2>3. CASE Len(a) + 1 < i /\ i <= Len(a) + Len(b)
    <3>1. /\ ~(i <= Len(x)) /\ i <= Len(x) + Len(y) /\ ~(i <= Len(a))
          /\ i - Len(x) \in 1 .. (Len(b) - 1) /\ (i - Len(x)) + 1 = i - Len(a)
      BY <1>0, <1>2, <1>4, <1>7, <2>3
    <3>2. t[i] = y[i - Len(x)] /\ s[i] = b[i - Len(a)]
      BY <1>7, <1>8, <2>0, <2>3, <3>1
    <3>3. y[i - Len(x)] = b[(i - Len(x)) + 1]
      BY <1>4, <3>1
    <3> QED BY <3>1, <3>2, <3>3
  <2>4. CASE ~(i <= Len(a) + Len(b))
    <3>1. ~(i <= Len(x)) /\ ~(i <= Len(x) + Len(y)) /\ ~(i <= Len(a))
          /\ i - Len(x) - Len(y) = i - Len(a) - Len(b)
      BY <1>0, <1>2, <1>4, <1>7, <2>4
    <3> QED BY <1>7, <1>8, <2>0, <2>4, <3>1
  <2> QED BY <1>7, <2>1, <2>2, <2>3, <2>4
<1>12. t = s
  BY <1>10, <1>11, SameLine
<1> QED BY <1>1, <1>3, <1>5, <1>6, <1>12

\* the first message of all is taken
LEMMA ThreeTail ==
  ASSUME NEW a \in Seq(Msg), NEW b \in Seq(Msg), NEW c \in Seq(Msg), a # <<>>
  PROVE  /\ Three(Tail(a), b, c) = Tail(Three(a, b, c)) /\ Three(a, b, c)[1] = Head(a)
         /\ Len(Three(a, b, c)) > 0
<1>0. Tail(a) \in Seq(Msg) /\ Len(a) \in Nat \ {0} /\ Head(a) = a[1]
  BY HeadTailProperties, EmptySeq
<1>1. PICK x \in Seq(Msg) : x = Tail(a)
  BY <1>0
<1>2. Len(x) = Len(a) - 1 /\ \A i \in 1 .. (Len(a) - 1) : x[i] = a[i + 1]
  BY <1>0, <1>1, HeadTailProperties
<1>3. PICK s \in Seq(Msg) : s = Three(a, b, c) /\ IsThree(s, a, b, c)
  BY ThreeAt, Zenon
<1>4. PICK t \in Seq(Msg) : t = Three(x, b, c) /\ IsThree(t, x, b, c)
  BY <1>1, ThreeAt, Zenon
<1>5. /\ Len(s) = Len(a) + Len(b) + Len(c)
      /\ Len(a) \in Nat /\ Len(b) \in Nat /\ Len(c) \in Nat
      /\ \A i \in 1 .. (Len(a) + Len(b) + Len(c)) :
              s[i] = IF i <= Len(a) THEN a[i]
                     ELSE IF i <= Len(a) + Len(b) THEN b[i - Len(a)]
                     ELSE c[i - Len(a) - Len(b)]
  BY <1>3 DEF IsThree
<1>6. /\ Len(t) = Len(x) + Len(b) + Len(c)
      /\ \A i \in 1 .. (Len(x) + Len(b) + Len(c)) :
              t[i] = IF i <= Len(x) THEN x[i]
                     ELSE IF i <= Len(x) + Len(b) THEN b[i - Len(x)]
                     ELSE c[i - Len(x) - Len(b)]
  BY <1>4 DEF IsThree
<1>7. Len(s) > 0 /\ s # <<>> /\ s[1] = a[1]
  <2>1. Len(s) > 0 /\ 1 \in 1 .. (Len(a) + Len(b) + Len(c)) /\ 1 <= Len(a)
    BY <1>0, <1>5
  <2>2. s # <<>>
    BY <2>1, EmptySeq
  <2> QED BY <1>5, <2>1, <2>2
<1>8. PICK u \in Seq(Msg) : u = Tail(s)
  BY <1>7, HeadTailProperties
<1>9. PICK n \in Nat : n = (Len(a) - 1) + Len(b) + Len(c)
  <2>1. Len(a) - 1 \in Nat
    BY <1>0
  <2>2. (Len(a) - 1) + Len(b) + Len(c) \in Nat
    BY <1>5, <2>1
  <2> QED BY <2>2
<1>10. Len(u) = n /\ Len(t) = n /\ \A i \in 1 .. n : u[i] = s[i + 1]
  <2>1. Len(u) = Len(s) - 1 /\ \A i \in 1 .. Len(u) : u[i] = s[i + 1]
    BY <1>7, <1>8, HeadTailProperties
  <2> QED BY <1>0, <1>2, <1>5, <1>6, <1>9, <2>1
<1>11. ASSUME NEW i \in 1 .. n PROVE t[i] = u[i]
  <2>0. i \in 1 .. (Len(x) + Len(b) + Len(c)) /\ i + 1 \in 1 .. (Len(a) + Len(b) + Len(c)) /\ u[i] = s[i + 1]
    BY <1>0, <1>2, <1>5, <1>9, <1>10
  <2>1. CASE i <= Len(x)
    <3>1. i + 1 <= Len(a) /\ i \in 1 .. (Len(a) - 1)
      BY <1>0, <1>2, <2>1
    <3> QED BY <1>2, <1>5, <1>6, <2>0, <2>1, <3>1
  <2>2. CASE ~(i <= Len(x)) /\ i <= Len(x) + Len(b)
    <3>1. ~(i + 1 <= Len(a)) /\ i + 1 <= Len(a) + Len(b) /\ (i + 1) - Len(a) = i - Len(x)
      BY <1>0, <1>2, <1>5, <2>2
    <3>2. t[i] = b[i - Len(x)]
      BY <1>6, <2>0, <2>2
    <3>3. s[i + 1] = b[(i + 1) - Len(a)]
      BY <1>5, <2>0, <3>1
    <3> QED BY <2>0, <3>1, <3>2, <3>3
  <2>3. CASE ~(i <= Len(x) + Len(b))
    <3>1. /\ ~(i <= Len(x)) /\ ~(i + 1 <= Len(a)) /\ ~(i + 1 <= Len(a) + Len(b))
          /\ (i + 1) - Len(a) - Len(b) = i - Len(x) - Len(b)
      BY <1>0, <1>2, <1>5, <2>3
    <3>2. t[i] = c[i - Len(x) - Len(b)]
      BY <1>6, <2>0, <2>3, <3>1
    <3>3. s[i + 1] = c[(i + 1) - Len(a) - Len(b)]
      BY <1>5, <2>0, <3>1
    <3> QED BY <2>0, <3>1, <3>2, <3>3
  <2> QED BY <2>1, <2>2, <2>3
<1>12. t = u
  BY <1>10, <1>11, SameLine
<1> QED BY <1>0, <1>1, <1>3, <1>4, <1>7, <1>8, <1>12

\* without a cache
LEMMA ThreeEmpty ==
  ASSUME NEW b \in Seq(Msg), NEW c \in Seq(Msg)
  PROVE  Three(<<>>, b, c) = Three(b, c, <<>>) /\ Three(<<>>, <<>>, c) = c
<1>1. <<>> \o b = b /\ <<>> \o c = c /\ <<>> \in Seq(Msg)
  BY ConcatEmptySeq, EmptySeq
<1>2. (b \o c) \o <<>> = b \o c
  BY ConcatEmptySeq, ConcatProperties
<1>3. <<>> \o <<>> = <<>>
  BY <1>1, ConcatEmptySeq
<1> QED BY <1>1, <1>2, <1>3 DEF Three

-----------------------------------------------------------------------------
(* What an end has received, and what is on its way to it.                 *)

\* the messages on their way, T
FlowOk(st, ch, T) ==
  /\ \A k \in 1 .. Len(T) : Good(st, ch, T[k])
  /\ \A k \in 1 .. (Len(T) - 1) : Follows(st, ch, T[k].entry, T[k + 1])

\* the received data, g
Taken(st, ch, r) ==
  /\ Published(ch, r.seq)
  /\ ~st.event => r.start = From(ch, r.seq) /\ r.end = Upto(ch, r.seq)
GotOk(st, ch, g) ==
  /\ \A k \in 1 .. Len(g) : Taken(st, ch, g[k])
  /\ \A k \in 1 .. (Len(g) - 1) : Skips(st, g[k].seq, g[k + 1].seq)

\* they connect: what was received, what is on its way, the point P that the
\* packer packed last
Joint(st, ch, T, g, w, P) ==
  /\ Len(T) > 0 => T[Len(T)].entry = P
  /\ (Len(g) > 0 /\ Len(T) = 0) => P = g[Len(g)].seq
  /\ (Len(g) > 0 /\ Len(T) > 0) => Follows(st, ch, g[Len(g)].seq, T[1])
  /\ (Len(g) = 0 /\ "first" \in st.calm /\ w # "absent" /\ Len(T) = 0) => P = None
  /\ (Len(g) = 0 /\ "first" \in st.calm /\ w # "absent" /\ Len(T) > 0) => First(st, T[1])

EndAt(st, ch, T, g, w, P) ==
  /\ T \in Seq(Msg) /\ g \in Seq(Rec)
  /\ FlowOk(st, ch, T) /\ GotOk(st, ch, g) /\ Joint(st, ch, T, g, w, P)

LEMMA GoodKept ==
  ASSUME NEW st, st.event \in BOOLEAN, NEW ch, NEW ch2, IsChain(st.event, ch), IsChain(st.event, ch2),
         Kept(st.event, ch, ch2), NEW m, Good(st, ch, m)
  PROVE  Good(st, ch2, m)
<1>1. PointKept(st.event, ch, ch2, m.entry)
  BY PointStays DEF Good
<1> QED BY <1>1 DEF Good, PointKept

LEMMA FollowsKept ==
  ASSUME NEW st, st.event \in BOOLEAN, NEW ch, NEW ch2, IsChain(st.event, ch), IsChain(st.event, ch2),
         Kept(st.event, ch, ch2), NEW s, NEW m, Follows(st, ch, s, m), Published(ch, m.entry)
  PROVE  Follows(st, ch2, s, m)
<1>1. PointKept(st.event, ch, ch2, m.entry) /\ PointKept(st.event, ch, ch2, s)
  BY PointStays DEF Follows
<1> QED BY <1>1 DEF Follows, PointKept

LEMMA TakenKept ==
  ASSUME NEW st, st.event \in BOOLEAN, NEW ch, NEW ch2, IsChain(st.event, ch), IsChain(st.event, ch2),
         Kept(st.event, ch, ch2), NEW r, Taken(st, ch, r)
  PROVE  Taken(st, ch2, r)
<1>1. PointKept(st.event, ch, ch2, r.seq)
  BY PointStays DEF Taken
<1> QED BY <1>1 DEF Taken, PointKept

\* the chain changes, and the end
LEMMA EndKept ==
  ASSUME NEW st, st.event \in BOOLEAN, NEW ch, NEW ch2, IsChain(st.event, ch), IsChain(st.event, ch2),
         Kept(st.event, ch, ch2), NEW T, NEW g, NEW w, NEW P, EndAt(st, ch, T, g, w, P)
  PROVE  EndAt(st, ch2, T, g, w, P)
<1>1. T \in Seq(Msg) /\ g \in Seq(Rec) /\ Len(T) \in Nat /\ Len(g) \in Nat
  BY DEF EndAt
<1>2. \A k \in 1 .. Len(T) : Good(st, ch2, T[k])
  BY GoodKept DEF EndAt, FlowOk
<1>3. ASSUME NEW k \in 1 .. (Len(T) - 1) PROVE Follows(st, ch2, T[k].entry, T[k + 1])
  <2>1. k + 1 \in 1 .. Len(T)
    BY <1>1
  <2>2. Follows(st, ch, T[k].entry, T[k + 1]) /\ Published(ch, T[k + 1].entry)
    BY <2>1 DEF EndAt, FlowOk, Good
  <2> QED BY <2>2, FollowsKept
<1>4. \A k \in 1 .. Len(g) : Taken(st, ch2, g[k])
  BY TakenKept DEF EndAt, GotOk
<1>5. ASSUME Len(g) > 0, Len(T) > 0 PROVE Follows(st, ch2, g[Len(g)].seq, T[1])
  <2>1. 1 \in 1 .. Len(T)
    BY <1>1, <1>5
  <2>2. Follows(st, ch, g[Len(g)].seq, T[1]) /\ Published(ch, T[1].entry)
    BY <1>5, <2>1 DEF EndAt, Joint, FlowOk, Good
  <2> QED BY <2>2, FollowsKept
<1>6. FlowOk(st, ch2, T)
  BY <1>2, <1>3 DEF FlowOk
<1>7. GotOk(st, ch2, g)
  BY <1>4 DEF EndAt, GotOk
<1>8. Joint(st, ch2, T, g, w, P)
  BY <1>5 DEF EndAt, Joint
<1> QED BY <1>1, <1>6, <1>7, <1>8 DEF EndAt

\* the packer packs the next message
LEMMA EndAppend ==
  ASSUME NEW st, NEW ch, NEW T, NEW g, NEW w, NEW P, EndAt(st, ch, T, g, w, P),
         NEW m \in Msg, Good(st, ch, m), IF P = None THEN First(st, m) ELSE Follows(st, ch, P, m)
  PROVE  EndAt(st, ch, Append(T, m), g, w, m.entry)
<1>1. T \in Seq(Msg) /\ g \in Seq(Rec) /\ Len(T) \in Nat /\ Len(g) \in Nat
  BY DEF EndAt
<1>2. PICK U \in Seq(Msg) : U = Append(T, m)
  BY <1>1, AppendProperties
<1>3. PICK n \in Nat : n = Len(T)
  BY <1>1
<1>4. Len(U) = n + 1 /\ U[n + 1] = m /\ \A k \in 1 .. n : U[k] = T[k]
  BY <1>1, <1>2, <1>3, AppendProperties
<1>5. \A k \in 1 .. n : T[k] \in Msg
  BY <1>1, <1>3, ElementOfSeq
<1>6. ASSUME NEW k \in 1 .. (n + 1) PROVE Good(st, ch, U[k])
  <2>1. CASE k = n + 1
    BY <1>4, <2>1
  <2>2. CASE k \in 1 .. n
    BY <1>3, <1>4, <2>2 DEF EndAt, FlowOk
  <2> QED BY <2>1, <2>2
<1>7. n > 0 => P # None /\ T[n].entry = P
  <2> SUFFICES ASSUME n > 0 PROVE P # None /\ T[n].entry = P
    OBVIOUS
  <2>1. T[n].entry = P
    BY <1>3 DEF EndAt, Joint
  <2>2. T[n] \in Msg
    BY <1>5
  <2> QED BY <2>1, <2>2 DEF Msg, None
<1>8. ASSUME NEW k \in 1 .. n PROVE Follows(st, ch, U[k].entry, U[k + 1])
  <2>1. CASE k = n
    BY <1>4, <1>7, <2>1
  <2>2. CASE k # n
    <3>1. k \in 1 .. (n - 1) /\ k + 1 \in 1 .. n
      BY <2>2
    <3> QED BY <1>3, <1>4, <3>1 DEF EndAt, FlowOk
  <2> QED BY <2>1, <2>2
<1>9. FlowOk(st, ch, U)
  BY <1>4, <1>6, <1>8 DEF FlowOk
<1>10. Joint(st, ch, U, g, w, m.entry)
  <2>1. CASE n = 0
    <3>1. U[1] = m /\ Len(U) = 1
      BY <1>4, <2>1
    <3>2. Len(g) > 0 => Follows(st, ch, g[Len(g)].seq, m)
      <4> SUFFICES ASSUME Len(g) > 0 PROVE Follows(st, ch, g[Len(g)].seq, m)
        OBVIOUS
      <4>1. P = g[Len(g)].seq
        BY <1>3, <2>1 DEF EndAt, Joint
      <4>2. g[Len(g)] \in Rec
        BY <1>1, ElementOfSeq
      <4>3. P # None
        BY <4>1, <4>2 DEF Rec, None
      <4> QED BY <4>1, <4>3
    <3>3. (Len(g) = 0 /\ "first" \in st.calm /\ w # "absent") => First(st, m)
      BY <1>3, <2>1 DEF EndAt, Joint
    <3> QED BY <3>1, <3>2, <3>3 DEF Joint
  <2>2. CASE n > 0
    <3>1. U[1] = T[1] /\ Len(U) > 0 /\ U[Len(U)] = m /\ Len(T) > 0
      BY <1>3, <1>4, <2>2
    <3>2. Len(U) # 0 /\ Len(T) # 0
      BY <3>1
    <3> QED BY <3>1, <3>2 DEF EndAt, Joint
  <2> QED BY <2>1, <2>2
<1> QED BY <1>1, <1>2, <1>9, <1>10 DEF EndAt

\* the end takes the first message
LEMMA EndTaken ==
  ASSUME NEW st, NEW ch, NEW T, NEW g, NEW w, NEW w2, NEW P, EndAt(st, ch, T, g, w, P),
         Len(T) > 0, NEW r \in Rec, r.seq = T[1].entry, Taken(st, ch, r)
  PROVE  EndAt(st, ch, Tail(T), Append(g, r), w2, P)
<1>1. T \in Seq(Msg) /\ g \in Seq(Rec) /\ Len(T) \in Nat /\ Len(g) \in Nat /\ T # <<>>
  BY DEF EndAt
<1>2. PICK U \in Seq(Msg) : U = Tail(T)
  BY <1>1, HeadTailProperties
<1>3. PICK n \in Nat : n + 1 = Len(T)
  <2>1. Len(T) - 1 \in Nat /\ (Len(T) - 1) + 1 = Len(T)
    BY <1>1
  <2> QED BY <2>1
<1>4. Len(U) = n /\ \A k \in 1 .. n : U[k] = T[k + 1]
  <2>1. Len(U) = Len(T) - 1 /\ \A k \in 1 .. Len(U) : U[k] = T[k + 1]
    BY <1>1, <1>2, HeadTailProperties
  <2> QED BY <1>3, <2>1
<1>5. PICK h \in Seq(Rec) : h = Append(g, r)
  BY <1>1, AppendProperties
<1>6. PICK l \in Nat : l = Len(g)
  BY <1>1
<1>7. Len(h) = l + 1 /\ h[l + 1] = r /\ \A k \in 1 .. l : h[k] = g[k]
  BY <1>1, <1>5, <1>6, AppendProperties
<1>8. FlowOk(st, ch, U)
  <2>1. ASSUME NEW k \in 1 .. n PROVE Good(st, ch, U[k])
    <3>1. k + 1 \in 1 .. Len(T)
      BY <1>3
    <3> QED BY <1>4, <3>1 DEF EndAt, FlowOk
  <2>2. ASSUME NEW k \in 1 .. (n - 1) PROVE Follows(st, ch, U[k].entry, U[k + 1])
    <3>1. k \in 1 .. n /\ k + 1 \in 1 .. n /\ k + 1 \in 1 .. (Len(T) - 1)
      BY <1>3
    <3>2. Follows(st, ch, T[k + 1].entry, T[(k + 1) + 1])
      BY <3>1 DEF EndAt, FlowOk
    <3> QED BY <1>4, <3>1, <3>2
  <2> QED BY <1>4, <2>1, <2>2 DEF FlowOk
<1>9. GotOk(st, ch, h)
  <2>1. ASSUME NEW k \in 1 .. (l + 1) PROVE Taken(st, ch, h[k])
    <3>1. CASE k = l + 1
      BY <1>7, <3>1
    <3>2. CASE k \in 1 .. l
      BY <1>6, <1>7, <3>2 DEF EndAt, GotOk
    <3> QED BY <3>1, <3>2
  <2>2. ASSUME NEW k \in 1 .. l PROVE Skips(st, h[k].seq, h[k + 1].seq)
    <3>1. CASE k = l
      <4>1. Follows(st, ch, g[Len(g)].seq, T[1])
        BY <1>6, <3>1 DEF EndAt, Joint
      <4>2. h[k] = g[Len(g)] /\ h[k + 1] = r
        BY <1>6, <1>7, <3>1
      <4> QED BY <4>1, <4>2 DEF Follows
    <3>2. CASE k # l
      <4>1. k \in 1 .. (l - 1) /\ k + 1 \in 1 .. l
        BY <3>2
      <4> QED BY <1>6, <1>7, <4>1 DEF EndAt, GotOk
    <3> QED BY <3>1, <3>2
  <2> QED BY <1>7, <2>1, <2>2 DEF GotOk
<1>10. Joint(st, ch, U, h, w2, P)
  <2>1. Len(h) > 0 /\ Len(h) # 0 /\ h[Len(h)].seq = T[1].entry
    BY <1>7
  <2>2. T[Len(T)].entry = P
    BY DEF EndAt, Joint
  <2>3. CASE n = 0
    <3>1. Len(U) = 0 /\ Len(T) = 1
      BY <1>3, <1>4, <2>3
    <3>2. P = T[1].entry
      BY <2>2, <3>1
    <3> QED BY <2>1, <3>1, <3>2 DEF Joint
  <2>4. CASE n > 0
    <3>1. Len(U) > 0 /\ Len(U) # 0 /\ 1 \in 1 .. (Len(T) - 1) /\ U[1] = T[1 + 1] /\ U[Len(U)] = T[Len(T)]
      BY <1>3, <1>4, <2>4
    <3>2. Follows(st, ch, T[1].entry, U[1])
      BY <3>1 DEF EndAt, FlowOk
    <3> QED BY <2>1, <2>2, <3>1, <3>2 DEF Joint
  <2> QED BY <2>3, <2>4
<1> QED BY <1>2, <1>5, <1>8, <1>9, <1>10 DEF EndAt

\* a message that an end takes is not early, is not refused, and becomes the
\* record of the point that was written
LEMMA UnpackRight ==
  ASSUME BaseInv, EndsFirst, NEW e \in Ends, NEW T, NEW P,
         EndAt(setup, chain, T, got[e], end[e], P), end[e] # "absent", Len(T) > 0
  PROVE  /\ ~Early(e, T[1])
         /\ Unpack(e, T[1]) =>
              /\ fault' = fault
              /\ \E r \in Rec : /\ got' = [got EXCEPT ![e] = Append(got[e], r)]
                                /\ r.seq = T[1].entry /\ Taken(setup, chain, r)
<1>1. /\ T \in Seq(Msg) /\ got[e] \in Seq(Rec) /\ Len(T) \in Nat /\ Len(got[e]) \in Nat
      /\ (Len(got[e]) = 0 <=> got[e] = <<>>)
      /\ got \in [Ends -> Seq(Rec)]
  BY DEF EndAt, BaseInv, TypesNow
<1>2. setup.event \in BOOLEAN /\ setup.full \in BOOLEAN /\ IsChain(setup.event, chain)
  BY SetupTyped DEF BaseInv, TypesNow, ChainNow
<1>3. PICK m \in Msg : m = T[1]
  BY <1>1, ElementOfSeq
<1>4. m.entry \in Nat /\ m.end \in Nat /\ m.jump \in Nat \cup {None} /\ m.full \in BOOLEAN
  BY DEF Msg
<1>5. Good(setup, chain, m)
  BY <1>1, <1>3 DEF EndAt, FlowOk
<1>6. /\ From(chain, m.entry) \in Nat /\ Upto(chain, m.entry) \in Nat
      /\ From(chain, m.entry) < Upto(chain, m.entry)
  BY <1>2, <1>5, PointPlace DEF Good
<1> DEFINE s == got[e][Len(got[e])].seq
\* what came before
<1>7. CASE got[e] = <<>>
  <2>1. First(setup, m) \/ (setup.event /\ m.full)
    <3>1. "first" \in setup.calm => First(setup, m)
      BY <1>1, <1>3, <1>7 DEF EndAt, Joint
    <3> QED BY <1>5, <3>1 DEF EndsFirst, Good
  <2>2. m.full /\ (~setup.event => m.jump # None)
    BY <2>1 DEF First
  <2>3. LastTime(e) = 0
    BY <1>7 DEF LastTime
  <2>4. ~Early(e, m)
    BY <2>2 DEF Early
  <2>5. ASSUME Unpack(e, m)
        PROVE  /\ fault' = fault
               /\ \E r \in Rec : /\ got' = [got EXCEPT ![e] = Append(got[e], r)]
                                 /\ r.seq = m.entry /\ Taken(setup, chain, r)
    <3>1. EventType \/ m.end > LastTime(e)
      BY <1>5, <1>6, <2>3 DEF EventType, Good
    <3>2. ~(m.full /\ ~EventType /\ m.end <= LastTime(e))
      BY <1>4, <2>3, <3>1
    <3>3. PICK j \in Nat : j = IF m.jump # None THEN m.jump ELSE LastTime(e)
      BY <1>4, <2>3
    <3>4. Put(e, m.entry, j, m.end) /\ fault' = fault
      BY <1>4, <2>2, <2>5, <3>1, <3>2, <3>3 DEF Unpack
    <3>5. PICK r \in Rec :
            /\ got' = [got EXCEPT ![e] = Append(got[e], r)]
            /\ r.seq = m.entry /\ r.end = m.end
            /\ ~EventType => r.start = IF got[e] = <<>> \/ LastTime(e) <= j THEN j ELSE LastTime(e)
      BY <1>1, <1>4, <3>1, <3>4, PutDoes
    <3>6. Taken(setup, chain, r)
      BY <1>5, <1>7, <2>2, <3>3, <3>5 DEF Taken, Good, EventType
    <3> QED BY <3>4, <3>5, <3>6
  <2> QED BY <1>3, <2>4, <2>5
<1>8. CASE got[e] # <<>>
  <2>1. Len(got[e]) > 0 /\ Len(got[e]) \in 1 .. Len(got[e])
    BY <1>1, <1>8
  <2>2. Follows(setup, chain, s, m) /\ Taken(setup, chain, got[e][Len(got[e])]) /\ got[e][Len(got[e])] \in Rec
    BY <1>1, <1>3, <2>1, ElementOfSeq DEF EndAt, Joint, GotOk
  <2>3. Last(got[e]) = got[e][Len(got[e])]
    BY DEF Last
  <2>4. LastTime(e) = got[e][Len(got[e])].end /\ LastTime(e) \in Nat
    BY <1>8, <2>2, <2>3 DEF LastTime, Rec
  <2>5. /\ Published(chain, s) /\ s \in Nat /\ s < m.entry
        /\ ~m.full => m.base = s
        /\ (~setup.event /\ m.jump = None) => Upto(chain, s) = From(chain, m.entry)
        /\ ~setup.event => LastTime(e) = Upto(chain, s)
    BY <2>2, <2>4 DEF Follows, Taken, Skips, Rec
  <2> HIDE DEF s
  <2>6. Upto(chain, s) <= From(chain, m.entry)
    BY <1>2, <1>5, <2>5, SpansInOrder DEF Good
  <2>7. EventType \/ m.end > LastTime(e)
    BY <1>5, <1>6, <2>4, <2>5, <2>6 DEF EventType, Good
  <2>8. ~Early(e, m)
    BY <1>8 DEF Early
  <2>9. ASSUME Unpack(e, m)
        PROVE  /\ fault' = fault
               /\ \E r \in Rec : /\ got' = [got EXCEPT ![e] = Append(got[e], r)]
                                 /\ r.seq = m.entry /\ Taken(setup, chain, r)
    <3>2. ~(m.full /\ ~EventType /\ m.end <= LastTime(e)) /\ ~(m.jump # None /\ ~m.full)
      BY <1>4, <1>5, <2>4, <2>7 DEF Good
    <3>3. PICK j \in Nat : j = IF m.jump # None THEN m.jump ELSE LastTime(e)
      BY <1>4, <2>4
    <3>4. Put(e, m.entry, j, m.end) /\ fault' = fault
      <4>1. CASE m.full
        BY <1>4, <2>7, <2>9, <3>2, <3>3, <4>1 DEF Unpack
      <4>2. CASE ~m.full
        <5>1. m.jump = None /\ Last(got[e]).seq = m.base
          BY <2>3, <2>5, <3>2, <4>2 DEF s
        <5> QED BY <2>9, <3>2, <3>3, <4>2, <5>1 DEF Unpack
      <4> QED BY <4>1, <4>2
    <3>5. PICK r \in Rec :
            /\ got' = [got EXCEPT ![e] = Append(got[e], r)]
            /\ r.seq = m.entry /\ r.end = m.end
            /\ ~EventType => r.start = IF got[e] = <<>> \/ LastTime(e) <= j THEN j ELSE LastTime(e)
      BY <1>1, <1>4, <2>7, <3>4, PutDoes
    <3>6. Taken(setup, chain, r)
      <4>1. Published(chain, r.seq)
        BY <1>5, <3>5 DEF Good
      <4>2. ASSUME ~setup.event PROVE r.start = From(chain, r.seq) /\ r.end = Upto(chain, r.seq)
        <5>1. j = From(chain, m.entry)
          BY <1>5, <2>5, <3>3, <4>2 DEF Good
        <5>2. LastTime(e) <= j
          BY <2>5, <2>6, <4>2, <5>1
        <5>3. r.start = j
          BY <3>5, <4>2, <5>2 DEF EventType
        <5> QED BY <1>5, <3>5, <4>2, <5>1, <5>3 DEF Good
      <4> QED BY <4>1, <4>2 DEF Taken
    <3> QED BY <3>4, <3>5, <3>6
  <2> QED BY <1>3, <2>8, <2>9
<1> QED BY <1>7, <1>8

-----------------------------------------------------------------------------
(* All ends.                                                               *)

PrevOf(pc, p) == IF p \in DOMAIN pc THEN pc[p].prev ELSE None

\* what an end keeps in its states
Places(w, ca, inb, g) ==
  /\ w = "absent" => ca = <<>> /\ inb = <<>>
  /\ w = "configured" => ca = <<>>
  /\ w \in {"absent", "open"} => g = <<>>

EndOk(e) ==
  /\ EndAt(setup, chain, Three(cached[e], inbox[e], store[Via[e]]), got[e], end[e],
           PrevOf(pclients, Via[e]))
  /\ Places(end[e], cached[e], inbox[e], got[e])
EndsNow == \A e \in Ends : EndOk(e)

\* a transporter is there for an end
ServedNow == \A p \in transporters : \E e \in Ends : Via[e] = p

\* an end whose state and messages do not change
LEMMA EndSame ==
  ASSUME BaseInv, BaseInv', Kept(setup.event, chain, chain'), setup' = setup, NEW e \in Ends, EndOk(e),
         cached'[e] = cached[e], inbox'[e] = inbox[e], got'[e] = got[e], end'[e] = end[e],
         store'[Via[e]] = store[Via[e]], PrevOf(pclients', Via[e]) = PrevOf(pclients, Via[e])
  PROVE  EndOk(e)'
<1>1. setup.event \in BOOLEAN /\ IsChain(setup.event, chain) /\ IsChain(setup.event, chain')
  BY SetupTyped DEF BaseInv, TypesNow, ChainNow
<1>2. EndAt(setup, chain', Three(cached[e], inbox[e], store[Via[e]]), got[e], end[e],
            PrevOf(pclients, Via[e]))
  BY <1>1, EndKept DEF EndOk
<1>3. Via' = Via
  BY DEF Via
<1> QED BY <1>2, <1>3 DEF EndOk

LEMMA EndTyped ==
  ASSUME BaseInv, NEW e \in Ends
  PROVE  /\ Via[e] \in Packers /\ store[Via[e]] \in Seq(Msg) /\ cached[e] \in Seq(Msg)
         /\ inbox[e] \in Seq(Msg) /\ got[e] \in Seq(Rec) /\ end[e] \in EndStates
         /\ store \in [Packers -> Seq(Msg)] /\ cached \in [Ends -> Seq(Msg)]
         /\ inbox \in [Ends -> Seq(Msg)] /\ got \in [Ends -> Seq(Rec)] /\ end \in [Ends -> EndStates]
BY SetupTyped DEF BaseInv, TypesNow, Via

\* nothing is packed, sent or unpacked
LEMMA EndsApart ==
  ASSUME BaseInv, BaseInv', Kept(setup.event, chain, chain'), EndsNow,
         UNCHANGED <<setup, inbox, cached, got, end, store>>,
         \A p \in Packers : PrevOf(pclients', p) = PrevOf(pclients, p)
  PROVE  EndsNow'
<1>1. ASSUME NEW e \in Ends PROVE EndOk(e)'
  <2>1. EndOk(e)
    BY DEF EndsNow
  <2>2. PrevOf(pclients', Via[e]) = PrevOf(pclients, Via[e])
    BY EndTyped
  <2> QED BY <2>1, <2>2, EndSame
<1> QED BY <1>1 DEF EndsNow

LEMMA RefreshEnds ==
  ASSUME BaseInv, RefreshTransporters
  PROVE  \A p \in Packers : PrevOf(pclients', p) = PrevOf(pclients, p)
<1> TAKE p \in Packers
<1>1. RefreshDone
  BY RefreshDoes
<1>2. /\ DOMAIN pclients' = transporters /\ DOMAIN pclients \subseteq transporters
      /\ \A q \in transporters :
           pclients'[q] = IF q \in DOMAIN pclients THEN pclients[q] ELSE NewClient
  BY <1>1 DEF RefreshDone, BaseInv, TypesNow
<1>3. NewClient.prev = None
  BY DEF NewClient
<1> HIDE DEF NewClient
<1>4. CASE p \in DOMAIN pclients
  BY <1>2, <1>4 DEF PrevOf
<1>5. CASE p \notin DOMAIN pclients
  BY <1>2, <1>3, <1>5 DEF PrevOf
<1> QED BY <1>4, <1>5

\* a client that keeps what it packed last
LEMMA PrevKept ==
  ASSUME BaseInv, NEW p \in DOMAIN pclients, NEW c, pclients' = [pclients EXCEPT ![p] = c],
         c.prev = pclients[p].prev
  PROVE  \A q \in Packers : PrevOf(pclients', q) = PrevOf(pclients, q)
<1>1. pclients \in [DOMAIN pclients -> Client]
  BY DEF BaseInv, TypesNow
<1>2. DOMAIN pclients' = DOMAIN pclients /\ pclients'[p] = c
      /\ \A q \in DOMAIN pclients \ {p} : pclients'[q] = pclients[q]
  BY <1>1
<1> QED BY <1>2 DEF PrevOf

LEMMA AdvancedPrev ==
  ASSUME NEW c \in Client
  PROVE  Advanced(c).prev = c.prev
BY DEF Advanced, Client

LEMMA AccessEnds ==
  ASSUME BaseInv, BaseInv', WorkNow, GoneNow, PackNow, EndsNow, NEW p \in Packers, AccessPackData(p),
         UNCHANGED setup
  PROVE  EndsNow' /\ fault' = fault
<1>1. AccessTaken(p) /\ Kept(setup.event, chain, chain')
  BY AccessPack, AccessBase
<1>2. p \in DOMAIN pclients /\ UNCHANGED <<inbox, cached, got, end, store>>
  BY AccessCases
<1>3. PICK n : pclients' = [pclients EXCEPT ![p] = [pclients[p] EXCEPT !.index = n, !.accessed = n]]
  BY <1>1 DEF AccessTaken
<1>4. pclients[p] \in Client
  BY <1>2, PackAtFacts
<1>5. [pclients[p] EXCEPT !.index = n, !.accessed = n].prev = pclients[p].prev
  BY <1>4 DEF Client
<1>6. \A q \in Packers : PrevOf(pclients', q) = PrevOf(pclients, q)
  BY <1>2, <1>3, <1>5, PrevKept
<1>7. EndsNow'
  BY <1>1, <1>2, <1>6, EndsApart
<1> QED BY <1>1, <1>7 DEF AccessTaken

LEMMA CompleteEnds ==
  ASSUME BaseInv, BaseInv', EndsNow, NEW p \in Packers, PackComplete(p), UNCHANGED setup
  PROVE  EndsNow' /\ fault' = fault
<1>1. /\ ppc[p] = "complete" /\ pclients' = [pclients EXCEPT ![p] = Advanced(pclients[p])]
      /\ UNCHANGED <<inbox, cached, got, end, store, fault>>
  BY DEF PackComplete, endVars
<1>2. Kept(setup.event, chain, chain') /\ p \in DOMAIN pclients
  BY <1>1, PackCompleteBase, HasClient
<1>3. pclients[p] \in Client
  BY <1>2, PackAtFacts
<1>4. \A q \in Packers : PrevOf(pclients', q) = PrevOf(pclients, q)
  BY <1>1, <1>2, <1>3, AdvancedPrev, PrevKept
<1> QED BY <1>1, <1>2, <1>4, EndsApart

LEMMA PackDataEnds ==
  ASSUME BaseInv, BaseInv', PackNow, EndsNow, NEW p \in Packers, PackData(p), UNCHANGED setup
  PROVE  EndsNow' /\ fault' = fault
<1>1. /\ ppc[p] = "pack" /\ p \in DOMAIN pclients
      /\ PackFits(p) \/ PackThrown(p) \/ PackWaits(p)
      /\ UNCHANGED <<inbox, cached, got, end, fault>>
  BY PackDataCases
<1>2. Kept(setup.event, chain, chain') /\ pclients[p] \in Client
  BY <1>1, PackDataBase, PackAtFacts
<1>3. CASE PackThrown(p)
  <2>1. pclients' = [pclients EXCEPT ![p] = Advanced(pclients[p])] /\ store' = store
    BY <1>3 DEF PackThrown
  <2>2. \A q \in Packers : PrevOf(pclients', q) = PrevOf(pclients, q)
    BY <1>1, <1>2, <2>1, AdvancedPrev, PrevKept
  <2> QED BY <1>1, <1>2, <2>1, <2>2, EndsApart
<1>4. CASE PackWaits(p)
  <2>1. pclients' = [pclients EXCEPT ![p] = [pclients[p] EXCEPT !.accessed = None]] /\ store' = store
    BY <1>4 DEF PackWaits
  <2>2. [pclients[p] EXCEPT !.accessed = None].prev = pclients[p].prev
    BY <1>2 DEF Client
  <2>3. \A q \in Packers : PrevOf(pclients', q) = PrevOf(pclients, q)
    BY <1>1, <2>1, <2>2, PrevKept
  <2> QED BY <1>1, <1>2, <2>1, <2>3, EndsApart
<1>5. CASE PackFits(p)
  <2> DEFINE n == pclients[p].accessed
             m == Message(copy[p], n)
             c2 == [Packed(copy[p], n, m.end) EXCEPT !.index = pclients[p].index, !.accessed = n]
  <2>1. /\ store' = [store EXCEPT ![p] = Append(store[p], m)]
        /\ pclients' = [pclients EXCEPT ![p] = c2] /\ chain' = chain
    BY <1>5 DEF PackFits
  <2>2. m \in Msg /\ m.entry = chain[n].seq /\ c2.prev = chain[n].seq
    <3>1. pclients[p].accessed = pclients[p].index
      BY <1>1, AtWorkPoint
    <3> QED BY <1>1, <3>1, MessageTyped
  <2>3. /\ Good(setup, chain, m)
        /\ IF pclients[p].prev = None THEN First(setup, m) ELSE Follows(setup, chain, pclients[p].prev, m)
    BY <1>1, MessageRight
  <2> HIDE DEF m, c2, n
  <2>4. /\ DOMAIN pclients' = DOMAIN pclients /\ pclients'[p] = c2 /\ store'[p] = Append(store[p], m)
        /\ \A q \in DOMAIN pclients \ {p} : pclients'[q] = pclients[q]
        /\ \A q \in Packers \ {p} : store'[q] = store[q]
    BY <1>1, <2>1 DEF BaseInv, TypesNow
  <2>5. \A q \in Packers \ {p} : PrevOf(pclients', q) = PrevOf(pclients, q)
    BY <2>4 DEF PrevOf
  <2>6. PrevOf(pclients', p) = m.entry /\ PrevOf(pclients, p) = pclients[p].prev
    BY <1>1, <2>2, <2>4 DEF PrevOf
  <2>7. ASSUME NEW e \in Ends PROVE EndOk(e)'
    <3>1. EndOk(e)
      BY DEF EndsNow
    <3>2. /\ Via[e] \in Packers /\ store[Via[e]] \in Seq(Msg) /\ cached[e] \in Seq(Msg)
          /\ inbox[e] \in Seq(Msg)
      BY EndTyped
    <3>3. CASE Via[e] # p
      <4>1. store'[Via[e]] = store[Via[e]] /\ PrevOf(pclients', Via[e]) = PrevOf(pclients, Via[e])
        BY <2>4, <2>5, <3>2, <3>3
      <4> QED BY <1>1, <1>2, <3>1, <4>1, EndSame
    <3>4. CASE Via[e] = p
      <4>1. PICK T : T = Three(cached[e], inbox[e], store[p])
        OBVIOUS
      <4>2. EndAt(setup, chain, T, got[e], end[e], pclients[p].prev)
            /\ Places(end[e], cached[e], inbox[e], got[e])
        BY <2>6, <3>1, <3>4, <4>1 DEF EndOk
      <4>3. EndAt(setup, chain, Append(T, m), got[e], end[e], m.entry)
        BY <2>2, <2>3, <4>2, EndAppend
      <4>4. Three(cached[e], inbox[e], Append(store[p], m)) = Append(T, m)
        BY <2>2, <3>2, <3>4, <4>1, ThreeAppend
      <4>5. Via'[e] = p
        BY <3>4 DEF Via
      <4>6. Three(cached'[e], inbox'[e], store'[Via'[e]]) = Append(T, m)
        BY <1>1, <2>4, <4>4, <4>5
      <4>7. EndAt(setup', chain', Three(cached'[e], inbox'[e], store'[Via'[e]]), got'[e], end'[e],
                  PrevOf(pclients', Via'[e]))
        BY <1>1, <2>1, <2>6, <4>3, <4>5, <4>6
      <4> QED BY <1>1, <4>2, <4>7 DEF EndOk
    <3> QED BY <3>3, <3>4
  <2> QED BY <1>1, <2>7 DEF EndsNow
<1> QED BY <1>1, <1>3, <1>4, <1>5

LEMMA SendEnds ==
  ASSUME BaseInv, BaseInv', EndsNow, NEW p \in Packers, SendStore(p), UNCHANGED setup
  PROVE  EndsNow' /\ fault' = fault
<1>1. /\ inbox' = [e \in Ends |-> IF Via[e] = p /\ end[e] # "absent"
                                  THEN inbox[e] \o store[p] ELSE inbox[e]]
      /\ store' = [store EXCEPT ![p] = <<>>]
      /\ UNCHANGED <<chain, pclients, end, cached, got, fault>>
  BY DEF SendStore, writerVars
<1>2. Kept(setup.event, chain, chain')
  BY SendBase
<1>3. store'[p] = <<>> /\ \A q \in Packers \ {p} : store'[q] = store[q]
  BY <1>1 DEF BaseInv, TypesNow
<1>4. ASSUME NEW e \in Ends PROVE EndOk(e)'
  <2>1. EndOk(e)
    BY DEF EndsNow
  <2>2. /\ Via[e] \in Packers /\ store[Via[e]] \in Seq(Msg) /\ cached[e] \in Seq(Msg)
        /\ inbox[e] \in Seq(Msg)
    BY EndTyped
  <2>3. CASE Via[e] # p
    <3>1. store'[Via[e]] = store[Via[e]] /\ inbox'[e] = inbox[e]
      BY <1>1, <1>3, <2>2, <2>3
    <3> QED BY <1>1, <1>2, <2>1, <3>1, EndSame
  <2>4. CASE Via[e] = p /\ end[e] # "absent"
    <3>1. inbox'[e] = inbox[e] \o store[p]
      BY <1>1, <2>4
    <3>2. Three(cached[e], inbox[e] \o store[p], <<>>) = Three(cached[e], inbox[e], store[p])
      BY <2>2, <2>4, ThreeSent
    <3>3. Places(end[e], cached[e], inbox'[e], got[e])
      BY <2>1, <2>4 DEF EndOk, Places
    <3>4. Via'[e] = p
      BY <2>4 DEF Via
    <3> QED BY <1>1, <1>3, <2>1, <2>4, <3>1, <3>2, <3>3, <3>4 DEF EndOk
  <2>5. CASE Via[e] = p /\ end[e] = "absent"
    <3>1. inbox'[e] = inbox[e] /\ Places(end[e], cached[e], inbox[e], got[e])
      BY <1>1, <2>1, <2>5 DEF EndOk
    <3>2. cached[e] = <<>> /\ inbox[e] = <<>> /\ got[e] = <<>>
      BY <2>5, <3>1 DEF Places
    <3>3. <<>> \in Seq(Msg) /\ <<>> \in Seq(Rec) /\ Len(<<>>) = 0
      BY EmptySeq
    <3>4. Three(<<>>, <<>>, <<>>) = <<>>
      BY <3>3, ThreeEmpty
    <3>5. \A P : EndAt(setup, chain, <<>>, <<>>, "absent", P)
      <4>1. FlowOk(setup, chain, <<>>) /\ GotOk(setup, chain, <<>>)
        BY <3>3 DEF FlowOk, GotOk
      <4>2. \A P : Joint(setup, chain, <<>>, <<>>, "absent", P)
        BY <3>3 DEF Joint
      <4> QED BY <3>3, <4>1, <4>2 DEF EndAt
    <3>6. Via'[e] = p
      BY <2>5 DEF Via
    <3> QED BY <1>1, <1>3, <2>5, <3>1, <3>2, <3>4, <3>5, <3>6 DEF EndOk
  <2> QED BY <2>3, <2>4, <2>5
<1> QED BY <1>1, <1>4 DEF EndsNow

\* the other ends, when one moves
LEMMA OneEnd ==
  ASSUME BaseInv, BaseInv', Kept(setup.event, chain, chain'), EndsNow, NEW e \in Ends, EndOk(e)',
         UNCHANGED <<setup, store, pclients>>,
         \A d \in Ends \ {e} : /\ cached'[d] = cached[d] /\ inbox'[d] = inbox[d]
                               /\ got'[d] = got[d] /\ end'[d] = end[d]
  PROVE  EndsNow'
<1>1. ASSUME NEW d \in Ends PROVE EndOk(d)'
  <2>1. CASE d = e
    BY <2>1
  <2>2. CASE d # e
    <3>1. EndOk(d)
      BY DEF EndsNow
    <3> QED BY <2>2, <3>1, EndSame
  <2> QED BY <2>1, <2>2
<1> QED BY <1>1 DEF EndsNow

LEMMA CreateEnds ==
  ASSUME BaseInv, BaseInv', EndsNow, NEW e \in Ends, CreateEnd(e), UNCHANGED setup
  PROVE  EndsNow' /\ fault' = fault
<1>1. /\ end[e] = "absent" /\ end' = [end EXCEPT ![e] = "open"]
      /\ "first" \in setup.calm => Via[e] \notin transporters
      /\ UNCHANGED <<chain, pclients, store, inbox, cached, got, fault>>
  BY DEF CreateEnd, writerVars, packVars
<1>2. Kept(setup.event, chain, chain')
  BY CreateEndBase
<1>3. /\ Via[e] \in Packers /\ store[Via[e]] \in Seq(Msg) /\ end \in [Ends -> EndStates]
  BY EndTyped
<1>4. end'[e] = "open" /\ \A d \in Ends \ {e} : end'[d] = end[d]
  BY <1>1, <1>3
<1>5. PICK T : T = Three(cached[e], inbox[e], store[Via[e]])
  OBVIOUS
<1>6. PICK P : P = PrevOf(pclients, Via[e])
  OBVIOUS
<1>7. EndAt(setup, chain, T, got[e], "absent", P) /\ Places("absent", cached[e], inbox[e], got[e])
  BY <1>1, <1>5, <1>6 DEF EndsNow, EndOk
<1>8. cached[e] = <<>> /\ inbox[e] = <<>> /\ got[e] = <<>>
  BY <1>7 DEF Places
<1>9. ASSUME "first" \in setup.calm PROVE Len(T) = 0 /\ P = None
  <2>1. Via[e] \notin DOMAIN pclients
    BY <1>1, <1>9 DEF BaseInv, TypesNow
  <2>2. store[Via[e]] = <<>> /\ P = None
    BY <1>3, <1>6, <2>1 DEF BaseInv, ClientsNow, PrevOf
  <2>3. T = <<>>
    BY <1>3, <1>5, <1>8, <2>2, ThreeEmpty
  <2> QED BY <2>2, <2>3
<1>10. EndAt(setup, chain, T, got[e], "open", P)
  <2>1. Len(T) = 0 => ~(Len(T) > 0)
    OBVIOUS
  <2> QED BY <1>7, <1>9, <2>1 DEF EndAt, Joint
<1>11. Places("open", cached[e], inbox[e], got[e])
  BY <1>8 DEF Places
<1>12. Via' = Via
  BY DEF Via
<1>13. EndOk(e)'
  BY <1>1, <1>4, <1>5, <1>6, <1>10, <1>11, <1>12 DEF EndOk
<1> QED BY <1>1, <1>2, <1>4, <1>13, OneEnd

LEMMA ConfEnds ==
  ASSUME BaseInv, BaseInv', EndsNow, NEW e \in Ends, NewEntryConf(e), UNCHANGED setup
  PROVE  EndsNow' /\ fault' = fault
<1>1. /\ end[e] = "open"
      /\ end' = [end EXCEPT ![e] = IF cached[e] = <<>> THEN "configured" ELSE "caching"]
      /\ UNCHANGED <<chain, pclients, store, inbox, cached, got, fault>>
  BY DEF NewEntryConf, writerVars, packVars
<1>2. Kept(setup.event, chain, chain')
  BY NewEntryConfBase
<1>3. /\ end \in [Ends -> EndStates]
  BY EndTyped
<1>4. PICK w : w = IF cached[e] = <<>> THEN "configured" ELSE "caching"
  OBVIOUS
<1>5. end'[e] = w /\ \A d \in Ends \ {e} : end'[d] = end[d]
  BY <1>1, <1>3, <1>4
<1>6. PICK T : T = Three(cached[e], inbox[e], store[Via[e]])
  OBVIOUS
<1>7. PICK P : P = PrevOf(pclients, Via[e])
  OBVIOUS
<1>8. EndAt(setup, chain, T, got[e], "open", P) /\ Places("open", cached[e], inbox[e], got[e])
  BY <1>1, <1>6, <1>7 DEF EndsNow, EndOk
<1>9. EndAt(setup, chain, T, got[e], w, P)
  BY <1>8 DEF EndAt, Joint
<1>10. Places(w, cached[e], inbox[e], got[e])
  BY <1>4, <1>8 DEF Places
<1>11. Via' = Via
  BY DEF Via
<1>12. EndOk(e)'
  BY <1>1, <1>5, <1>6, <1>7, <1>9, <1>10, <1>11 DEF EndOk
<1> QED BY <1>1, <1>2, <1>5, <1>12, OneEnd

LEMMA UnpackFirstEnds ==
  ASSUME BaseInv, BaseInv', EndsNow, EndsFirst, NEW e \in Ends, UnpackFirst(e), UNCHANGED setup
  PROVE  EndsNow' /\ fault' = fault
<1> DEFINE m == Head(inbox[e])
<1>1. /\ end[e] \in {"open", "configured"} /\ inbox[e] # <<>>
      /\ inbox' = [inbox EXCEPT ![e] = Tail(inbox[e])]
      /\ UNCHANGED <<chain, pclients, store, end>>
      /\ IF end[e] = "open" \/ Early(e, m)
         THEN cached' = [cached EXCEPT ![e] = Append(cached[e], m)] /\ UNCHANGED <<got, fault>>
         ELSE Unpack(e, m) /\ UNCHANGED cached
  BY DEF UnpackFirst, writerVars, packVars
<1>2. Kept(setup.event, chain, chain')
  BY UnpackFirstBase
<1>3. /\ Via[e] \in Packers /\ store[Via[e]] \in Seq(Msg) /\ cached[e] \in Seq(Msg)
      /\ inbox[e] \in Seq(Msg) /\ got[e] \in Seq(Rec) /\ <<>> \in Seq(Msg)
      /\ cached \in [Ends -> Seq(Msg)] /\ inbox \in [Ends -> Seq(Msg)] /\ got \in [Ends -> Seq(Rec)]
  BY EndTyped, EmptySeq
<1>4. Via' = Via /\ inbox'[e] = Tail(inbox[e]) /\ \A d \in Ends \ {e} : inbox'[d] = inbox[d]
  BY <1>1, <1>3 DEF Via
<1>5. PICK T : T = Three(cached[e], inbox[e], store[Via[e]])
  OBVIOUS
<1>6. PICK P : P = PrevOf(pclients, Via[e])
  OBVIOUS
<1>7. EndAt(setup, chain, T, got[e], end[e], P) /\ Places(end[e], cached[e], inbox[e], got[e])
  BY <1>5, <1>6 DEF EndsNow, EndOk
<1>8. CASE end[e] = "open"
  <2>1. cached' = [cached EXCEPT ![e] = Append(cached[e], m)] /\ got' = got /\ fault' = fault
    BY <1>1, <1>8
  <2>2. cached'[e] = Append(cached[e], m) /\ \A d \in Ends \ {e} : cached'[d] = cached[d]
    BY <1>3, <2>1
  <2>3. Three(cached'[e], inbox'[e], store'[Via'[e]]) = T
    BY <1>1, <1>3, <1>4, <1>5, <2>2, ThreeCached
  <2>4. Places("open", cached'[e], inbox'[e], got[e])
    BY <1>7, <1>8 DEF Places
  <2>5. EndOk(e)'
    BY <1>1, <1>4, <1>6, <1>7, <1>8, <2>1, <2>3, <2>4 DEF EndOk
  <2> QED BY <1>1, <1>2, <1>4, <2>1, <2>2, <2>5, OneEnd
<1>9. CASE end[e] = "configured"
  <2>1. cached[e] = <<>>
    BY <1>7, <1>9 DEF Places
  <2>2. T = Three(inbox[e], store[Via[e]], <<>>)
    BY <1>3, <1>5, <2>1, ThreeEmpty
  <2>3. Tail(T) = Three(Tail(inbox[e]), store[Via[e]], <<>>) /\ T[1] = m /\ Len(T) > 0
    BY <1>1, <1>3, <2>2, ThreeTail
  <2>4. Tail(inbox[e]) \in Seq(Msg)
    BY <1>1, <1>3, HeadTailProperties
  <2>5. Tail(T) = Three(<<>>, Tail(inbox[e]), store[Via[e]])
    BY <1>3, <2>3, <2>4, ThreeEmpty
  <2> HIDE DEF m
  <2>6. ~Early(e, m)
    BY <1>7, <1>9, <2>3, UnpackRight
  <2>7. Unpack(e, m) /\ cached' = cached
    BY <1>1, <1>9, <2>6
  <2>8. /\ fault' = fault
        /\ \E r \in Rec : /\ got' = [got EXCEPT ![e] = Append(got[e], r)]
                          /\ r.seq = m.entry /\ Taken(setup, chain, r)
    BY <1>7, <1>9, <2>3, <2>7, UnpackRight
  <2>9. PICK r \in Rec : /\ got' = [got EXCEPT ![e] = Append(got[e], r)]
                         /\ r.seq = m.entry /\ Taken(setup, chain, r)
    BY <2>8
  <2>10. got'[e] = Append(got[e], r) /\ \A d \in Ends \ {e} : got'[d] = got[d]
    BY <1>3, <2>9
  <2>11. EndAt(setup, chain, Tail(T), Append(got[e], r), "configured", P)
    BY <1>7, <2>3, <2>9, EndTaken
  <2>12. Places("configured", cached[e], inbox'[e], got'[e])
    BY <2>1 DEF Places
  <2>13. Three(cached'[e], inbox'[e], store'[Via'[e]]) = Tail(T)
    BY <1>1, <1>4, <2>1, <2>5, <2>7
  <2>14. EndOk(e)'
    BY <1>1, <1>4, <1>6, <1>9, <2>7, <2>10, <2>11, <2>12, <2>13 DEF EndOk
  <2> QED BY <1>1, <1>2, <1>4, <2>7, <2>8, <2>10, <2>14, OneEnd
<1> QED BY <1>1, <1>8, <1>9

LEMMA ProcessEnds ==
  ASSUME BaseInv, BaseInv', EndsNow, EndsFirst, NEW e \in Ends, ProcessCached(e), UNCHANGED setup
  PROVE  EndsNow' /\ fault' = fault
<1> DEFINE m == Head(cached[e])
           rest == Tail(cached[e])
           left == IF Early(e, m) /\ rest # <<>> THEN Append(rest, m) ELSE rest
<1>1. /\ end[e] = "caching" /\ cached' = [cached EXCEPT ![e] = left]
      /\ end' = [end EXCEPT ![e] = IF left = <<>> THEN "configured" ELSE end[e]]
      /\ IF Early(e, m) THEN UNCHANGED <<got, fault>> ELSE Unpack(e, m)
      /\ UNCHANGED <<chain, pclients, store, inbox>>
  BY DEF ProcessCached, writerVars, packVars
<1>2. Kept(setup.event, chain, chain')
  BY ProcessCachedBase
<1>3. /\ Via[e] \in Packers /\ store[Via[e]] \in Seq(Msg) /\ cached[e] \in Seq(Msg)
      /\ inbox[e] \in Seq(Msg) /\ got[e] \in Seq(Rec) /\ end \in [Ends -> EndStates]
      /\ cached \in [Ends -> Seq(Msg)] /\ inbox \in [Ends -> Seq(Msg)] /\ got \in [Ends -> Seq(Rec)]
  BY EndTyped
<1>4. Via' = Via /\ cached[e] # <<>>
  BY <1>1 DEF Via, BaseInv, TypesNow
<1>5. PICK T : T = Three(cached[e], inbox[e], store[Via[e]])
  OBVIOUS
<1>6. PICK P : P = PrevOf(pclients, Via[e])
  OBVIOUS
<1>7. EndAt(setup, chain, T, got[e], end[e], P) /\ Places(end[e], cached[e], inbox[e], got[e])
  BY <1>5, <1>6 DEF EndsNow, EndOk
<1>8. Tail(T) = Three(rest, inbox[e], store[Via[e]]) /\ T[1] = m /\ Len(T) > 0
  BY <1>3, <1>4, <1>5, ThreeTail
<1> HIDE DEF m
<1>9. ~Early(e, m)
  BY <1>1, <1>7, <1>8, UnpackRight
<1>10. left = rest /\ Unpack(e, m)
  BY <1>1, <1>9
<1> HIDE DEF left, rest
<1>11. PICK w : w = IF rest = <<>> THEN "configured" ELSE "caching"
  OBVIOUS
<1>12. /\ cached'[e] = rest /\ end'[e] = w
       /\ \A d \in Ends \ {e} : cached'[d] = cached[d] /\ end'[d] = end[d]
  BY <1>1, <1>3, <1>10, <1>11
<1>13. /\ fault' = fault
       /\ \E r \in Rec : /\ got' = [got EXCEPT ![e] = Append(got[e], r)]
                         /\ r.seq = m.entry /\ Taken(setup, chain, r)
  BY <1>1, <1>7, <1>8, <1>10, UnpackRight
<1>14. PICK r \in Rec : /\ got' = [got EXCEPT ![e] = Append(got[e], r)]
                        /\ r.seq = m.entry /\ Taken(setup, chain, r)
  BY <1>13
<1>15. got'[e] = Append(got[e], r) /\ \A d \in Ends \ {e} : got'[d] = got[d]
  BY <1>3, <1>14
<1>16. EndAt(setup, chain, Tail(T), Append(got[e], r), w, P)
  BY <1>7, <1>8, <1>14, EndTaken
<1>17. Places(w, rest, inbox[e], got'[e])
  BY <1>11 DEF Places
<1>18. EndOk(e)'
  BY <1>1, <1>4, <1>6, <1>8, <1>12, <1>15, <1>16, <1>17 DEF EndOk
<1> QED BY <1>1, <1>2, <1>12, <1>13, <1>15, <1>18, OneEnd

-----------------------------------------------------------------------------
(* The transport as a whole.                                               *)

RightNow == WorkNow /\ GoneNow /\ PackNow /\ EndsNow /\ ServedNow /\ fault = "none"

LEMMA EndsNext ==
  ASSUME BaseInv, RightNow, Orderly, [Next]_<<vars, setup>>
  PROVE  EndsNow' /\ fault' = "none"
<1>0. BaseInv' /\ Kept(setup.event, chain, chain') /\ fault = "none"
      /\ WorkNow /\ GoneNow /\ PackNow /\ EndsNow /\ Removal /\ EndsFirst
  BY BaseNext DEF RightNow, Orderly
<1>1. CASE UNCHANGED <<vars, setup>>
  <2>1. UNCHANGED <<setup, pclients, inbox, cached, got, end, store, fault>>
    BY <1>1 DEF vars, packVars, endVars
  <2> QED BY <1>0, <2>1, EndsApart
<1>2. CASE Next /\ Stopped
  BY <1>1, <1>2 DEF Next, Stopped
<1>3. CASE Step /\ UNCHANGED setup
  <2>1. CASE UNCHANGED <<inbox, cached, got, end, store, pclients, fault>>
    BY <1>0, <1>3, <2>1, EndsApart
  <2>2. CASE WriterStep
    <3>1. UNCHANGED <<inbox, cached, got, end, store, fault>>
      BY <2>2 DEF WriterStep, NewData, RefreshInWrite, Publish, Notify, packVars, endVars
    <3>2. CASE RefreshInWrite /\ stale
      <4>1. \A p \in Packers : PrevOf(pclients', p) = PrevOf(pclients, p)
        BY <3>2, RefreshEnds DEF RefreshInWrite
      <4> QED BY <1>0, <1>3, <3>1, <4>1, EndsApart
    <3>3. CASE ~(RefreshInWrite /\ stale)
      <4>1. UNCHANGED pclients
        BY <2>2, <3>3 DEF WriterStep, NewData, RefreshInWrite, Publish, Notify, packVars
      <4> QED BY <2>1, <3>1, <4>1
    <3> QED BY <3>2, <3>3
  <2>3. CASE ConfigStep
    <3>1. CASE ServiceRefresh
      <4>1. refreshDue /\ RefreshTransporters /\ UNCHANGED <<inbox, cached, got, end, store>>
            /\ fault' = IF oldest < cleanup /\ transporters # DOMAIN pclients THEN "deleted" ELSE fault
        BY <3>1 DEF ServiceRefresh, endVars
      <4>2. cleanup < oldest /\ cleanup \in Nat /\ oldest \in Nat
        BY <1>0, <4>1, ChainFacts DEF GoneNow, BaseInv, HoldNow, Hold
      <4>3. fault' = fault
        BY <4>1, <4>2
      <4>4. \A p \in Packers : PrevOf(pclients', p) = PrevOf(pclients, p)
        BY <4>1, RefreshEnds
      <4> QED BY <1>0, <1>3, <4>1, <4>3, <4>4, EndsApart
    <3>2. CASE ~ServiceRefresh
      <4>1. UNCHANGED <<inbox, cached, got, end, store, pclients, fault>>
        BY <2>3, <3>2 DEF ConfigStep, AddRemoteDestination, ResetValid, CleanAllData, packVars, endVars
      <4> QED BY <2>1, <4>1
    <3> QED BY <3>1, <3>2
  <2>4. ASSUME NEW p \in Packers, PackerStep(p) PROVE EndsNow' /\ fault' = "none"
    <3>1. CASE PackOneSet(p)
      <4>1. queue[p] # <<>> /\ UNCHANGED <<inbox, cached, got, end, store, pclients>>
        BY <3>1 DEF PackOneSet, endVars
      <4>2. ~(~valid /\ p \in setup.fill)
        BY <1>0 DEF GoneNow, Removal
      <4>3. ~(valid /\ p \notin DOMAIN pclients)
        BY <1>0, <4>1 DEF WorkNow
      <4>4. fault' = fault
        BY <3>1, <4>2, <4>3 DEF PackOneSet
      <4> QED BY <2>1, <4>1, <4>4
    <3>2. CASE AccessPackData(p)
      BY <1>0, <1>3, <3>2, AccessEnds
    <3>3. CASE PackData(p)
      BY <1>0, <1>3, <3>3, PackDataEnds
    <3>4. CASE PackComplete(p)
      BY <1>0, <1>3, <3>4, CompleteEnds
    <3>5. CASE SendStore(p)
      BY <1>0, <1>3, <3>5, SendEnds
    <3> QED BY <2>4, <3>1, <3>2, <3>3, <3>4, <3>5 DEF PackerStep
  <2>5. ASSUME NEW e \in Ends, EndStep(e) PROVE EndsNow' /\ fault' = "none"
    BY <1>0, <1>3, <2>5, CreateEnds, UnpackFirstEnds, ConfEnds, ProcessEnds DEF EndStep
  <2> QED BY <1>3, <2>2, <2>3, <2>4, <2>5 DEF Step
<1> QED BY <1>1, <1>2, <1>3 DEF Next

LEMMA ServedNext ==
  ASSUME ServedNow, [Next]_<<vars, setup>>
  PROVE  ServedNow'
<1>0. setup' = setup /\ Via' = Via
  BY DEF Next, Via
<1>1. CASE transporters' = transporters
  BY <1>0, <1>1 DEF ServedNow
<1>2. ASSUME NEW e \in Ends, transporters' = transporters \cup {Via[e]} PROVE ServedNow'
  <2>1. ASSUME NEW p \in transporters' PROVE \E d \in Ends : Via'[d] = p
    <3>1. CASE p \in transporters
      BY <1>0, <3>1 DEF ServedNow
    <3>2. CASE p = Via[e]
      BY <1>0, <3>2
    <3> QED BY <1>2, <2>1, <3>1, <3>2
  <2> QED BY <2>1 DEF ServedNow
<1>3. CASE UNCHANGED <<vars, setup>>
  BY <1>1, <1>3 DEF vars, configVars
<1>4. CASE Next /\ Stopped
  BY <1>3, <1>4 DEF Next, Stopped
<1>5. CASE Step
  <2>1. CASE WriterStep
    BY <1>1, <2>1 DEF WriterStep, NewData, RefreshInWrite, Publish, Notify, configVars
  <2>2. CASE ConfigStep
    BY <1>1, <1>2, <2>2 DEF ConfigStep, AddRemoteDestination, ServiceRefresh, ResetValid, CleanAllData,
                            configVars
  <2>3. ASSUME NEW p \in Packers, PackerStep(p) PROVE ServedNow'
    BY <1>1, <2>3 DEF PackerStep, PackOneSet, AccessPackData, PackData, PackComplete, SendStore, configVars
  <2>4. ASSUME NEW e \in Ends, EndStep(e) PROVE ServedNow'
    BY <1>1, <2>4 DEF EndStep, CreateEnd, UnpackFirst, NewEntryConf, ProcessCached, configVars
  <2> QED BY <1>5, <2>1, <2>2, <2>3, <2>4 DEF Step
<1> QED BY <1>3, <1>4, <1>5 DEF Next

LEMMA RightNext ==
  ASSUME BaseInv, RightNow, Orderly, [Next]_<<vars, setup>>
  PROVE  RightNow'
<1>1. WorkNow /\ GoneNow /\ PackNow /\ ServedNow /\ Added /\ Removal /\ Differences
  BY DEF RightNow, Orderly
<1>2. WorkNow' /\ GoneNow' /\ PackNow' /\ ServedNow'
  BY <1>1, WorkNext, GoneNext, PackNext, ServedNext
<1>3. EndsNow' /\ fault' = "none"
  BY EndsNext
<1> QED BY <1>2, <1>3 DEF RightNow

LEMMA RightInit ==
  ASSUME Init
  PROVE  RightNow
<1>1. /\ valid = TRUE /\ transporters = {} /\ pclients = [p \in {} |-> NewClient]
      /\ store = [p \in Packers |-> <<>>]
      /\ inbox = [e \in Ends |-> <<>>] /\ end = [e \in Ends |-> "absent"]
      /\ cached = [e \in Ends |-> <<>>] /\ got = [e \in Ends |-> <<>>] /\ fault = "none"
  BY DEF Init
<1>2. DOMAIN pclients = {}
  BY <1>1
<1>3. WorkNow
  BY WorkInit
<1>4. GoneNow /\ PackNow /\ ServedNow
  BY <1>1, <1>2 DEF GoneNow, PackNow, ServedNow
<1>5. ASSUME NEW e \in Ends PROVE EndOk(e)
  <2>1. Via[e] \in Packers
    BY BaseInit, EndTyped
  <2>2. store[Via[e]] = <<>> /\ inbox[e] = <<>> /\ cached[e] = <<>> /\ got[e] = <<>> /\ end[e] = "absent"
    BY <1>1, <2>1
  <2>3. <<>> \in Seq(Msg) /\ <<>> \in Seq(Rec) /\ Len(<<>>) = 0
    BY EmptySeq
  <2>4. Three(<<>>, <<>>, <<>>) = <<>>
    BY <2>3, ThreeEmpty
  <2>5. \A P : EndAt(setup, chain, <<>>, <<>>, "absent", P)
    <3>1. FlowOk(setup, chain, <<>>) /\ GotOk(setup, chain, <<>>)
      BY <2>3 DEF FlowOk, GotOk
    <3>2. \A P : Joint(setup, chain, <<>>, <<>>, "absent", P)
      BY <2>3 DEF Joint
    <3> QED BY <2>3, <3>1, <3>2 DEF EndAt
  <2>6. Places("absent", <<>>, <<>>, <<>>)
    BY DEF Places
  <2> QED BY <2>2, <2>4, <2>5, <2>6 DEF EndOk
<1> QED BY <1>1, <1>3, <1>4, <1>5 DEF RightNow, EndsNow

\* the invariant of an entry in orderly circumstances
TransportInv == BaseInv /\ (Orderly => RightNow)

LEMMA TransportIs ==
  Spec => []TransportInv
<1>1. Init => TransportInv
  BY BaseInit, RightInit DEF TransportInv
<1>2. TransportInv /\ [Next]_<<vars, setup>> => TransportInv'
  <2> SUFFICES ASSUME TransportInv, [Next]_<<vars, setup>>
               PROVE  TransportInv'
    OBVIOUS
  <2>1. BaseInv'
    BY BaseNext DEF TransportInv
  <2>2. setup' = setup
    BY DEF Next
  <2>3. Orderly' => Orderly
    BY <2>2 DEF Orderly, Added, Removal, Differences, EndsFirst
  <2>4. Orderly => RightNow'
    BY RightNext DEF TransportInv
  <2> QED BY <2>1, <2>3, <2>4 DEF TransportInv
<1> QED BY <1>1, <1>2, PTL DEF Spec

LEMMA TypesRight ==
  ASSUME BaseInv, GoneNow
  PROVE  TypeOK
<1>1. /\ chain \in Seq(Node) /\ Len(chain) \in Nat /\ DOMAIN chain = 1 .. Len(chain)
      /\ latest \in 2 .. Len(chain) /\ oldest \in 2 .. latest /\ cleanup \in 1 .. (Len(chain) + 1)
      /\ \A i \in 1 .. Len(chain) : chain[i] \in Node
  BY ChainFacts DEF BaseInv, ChainNow
<1>2. ASSUME NEW i \in 1 .. Len(chain) PROVE chain[i].ra \in Nat
  <2>1. CASE valid
    <3>1. chain[i].ra = IF i < cleanup THEN 0 ELSE 1 + Cardinality(At(pclients, i))
      BY <2>1 DEF BaseInv, HoldNow, Hold
    <3>2. Cardinality(At(pclients, i)) \in Nat
      BY AtFinite, ClientsFinite, Zenon DEF BaseInv
    <3> QED BY <3>1, <3>2
  <2>2. CASE ~valid
    BY <2>2 DEF GoneNow
  <2> QED BY <2>1, <2>2
<1>3. \A i \in DOMAIN chain : chain[i] \in Point
  BY <1>1, <1>2 DEF Node, Point
<1>4. oldest \in DOMAIN chain /\ latest \in DOMAIN chain
  BY <1>1
<1> QED BY <1>1, <1>3, <1>4 DEF TypeOK, BaseInv, TypesNow, WriterPlaces, PackerPlaces, EndStates

LEMMA ReferenceRight ==
  ASSUME BaseInv, PackNow
  PROVE  ReferenceKept
<1> SUFFICES ASSUME valid, NEW p \in DOMAIN pclients
             PROVE  /\ pclients[p].index >= cleanup
                    /\ ~(IF ppc[p] = "pack" THEN copy[p] ELSE pclients[p]).sendFull
                         => PointOf(pclients[p].prev) >= cleanup
  BY DEF ReferenceKept
<1> DEFINE c == pclients[p]
           k == copy[p]
           w == ppc[p]
<1>1. /\ c \in Client /\ c.index \in 2 .. latest /\ c.index \in 2 .. Len(chain) /\ Len(chain) \in Nat
      /\ cleanup \in Nat /\ oldest \in Nat /\ IsChain(setup.event, chain) /\ latest \in 2 .. Len(chain)
  BY PackAtFacts, ChainFacts DEF BaseInv, ChainNow
<1>2. cleanup < oldest /\ oldest <= c.index
  BY DEF BaseInv, HoldNow, Hold
<1>3. ClientOk(setup, chain, store[p], c, k, w)
  BY DEF PackNow
<1>4. w \in PackerPlaces /\ (w = "complete" => c.index < latest)
  BY DEF BaseInv, TypesNow, ClientsNow, ClientAt
<1> HIDE DEF c, k, w
<1>5. ASSUME ~(IF w = "pack" THEN k ELSE c).sendFull PROVE PointOf(c.prev) >= cleanup
  <2>1. c.prev # None /\ (w = "complete" => c.prev = chain[c.index].seq)
        /\ (w # "complete" => chain[c.index - 1].seq = c.prev)
    BY <1>3, <1>4, <1>5 DEF ClientOk, PackerPlaces
  <2>2. Published(chain, c.prev) /\ c.prev # 0
    BY <1>3, <2>1 DEF ClientOk, Published
  <2>3. PointOf(c.prev) = Pt(chain, c.prev)
    BY DEF PointOf, Pt
  <2>4. CASE w = "complete"
    <3>1. c.index \in 2 .. (Len(chain) - 1)
      BY <1>1, <1>4, <2>4
    <3>2. Pt(chain, c.prev) = c.index
      BY <1>1, <2>1, <2>2, <2>4, <3>1, PtIs
    <3> QED BY <1>1, <1>2, <2>3, <3>2
  <2>5. CASE w # "complete"
    <3>1. chain[1].seq = 0
      BY <1>1 DEF IsChain
    <3>2. c.index - 1 # 1
      BY <2>1, <2>2, <2>5, <3>1
    <3>3. c.index - 1 \in 2 .. (Len(chain) - 1)
      BY <1>1, <3>2
    <3>4. Pt(chain, c.prev) = c.index - 1
      BY <1>1, <2>1, <2>2, <2>5, <3>3, PtIs
    <3> QED BY <1>1, <1>2, <2>3, <3>4
  <2> QED BY <2>4, <2>5
<1>6. c.index >= cleanup
  BY <1>1, <1>2
<1> QED BY <1>5, <1>6 DEF c, k, w

LEMMA JumpsRight ==
  ASSUME BaseInv, EndsNow, ServedNow
  PROVE  JumpCarriesFull
<1>1. ASSUME NEW e \in Ends
      PROVE  /\ \A k \in DOMAIN inbox[e] : inbox[e][k].jump # None => inbox[e][k].full
             /\ \A k \in DOMAIN store[Via[e]] : store[Via[e]][k].jump # None => store[Via[e]][k].full
  <2>1. cached[e] \in Seq(Msg) /\ inbox[e] \in Seq(Msg) /\ store[Via[e]] \in Seq(Msg)
    BY EndTyped
  <2>2. PICK a \in Seq(Msg) : a = cached[e]
    BY <2>1
  <2>3. PICK b \in Seq(Msg) : b = inbox[e]
    BY <2>1
  <2>4. PICK c \in Seq(Msg) : c = store[Via[e]]
    BY <2>1
  <2>5. PICK t \in Seq(Msg) : t = Three(a, b, c) /\ IsThree(t, a, b, c)
    BY ThreeAt, Zenon
  <2>6. \A k \in 1 .. Len(t) : t[k].jump # None => t[k].full
    BY <2>2, <2>3, <2>4, <2>5 DEF EndsNow, EndOk, EndAt, FlowOk, Good
  <2>7. /\ Len(t) = Len(a) + Len(b) + Len(c) /\ Len(a) \in Nat /\ Len(b) \in Nat /\ Len(c) \in Nat
        /\ \A i \in 1 .. (Len(a) + Len(b) + Len(c)) :
              t[i] = IF i <= Len(a) THEN a[i]
                     ELSE IF i <= Len(a) + Len(b) THEN b[i - Len(a)]
                     ELSE c[i - Len(a) - Len(b)]
    BY <2>5 DEF IsThree
  <2>8. ASSUME NEW k \in 1 .. Len(b) PROVE b[k].jump # None => b[k].full
    <3>1. PICK i \in 1 .. (Len(a) + Len(b) + Len(c)) :
               ~(i <= Len(a)) /\ i <= Len(a) + Len(b) /\ i - Len(a) = k
      <4>1. /\ k + Len(a) \in 1 .. (Len(a) + Len(b) + Len(c)) /\ ~(k + Len(a) <= Len(a))
            /\ k + Len(a) <= Len(a) + Len(b) /\ (k + Len(a)) - Len(a) = k
        BY <2>7
      <4> QED BY <4>1
    <3>2. t[i] = b[k]
      BY <2>7, <3>1
    <3> QED BY <2>6, <2>7, <3>2
  <2>9. ASSUME NEW k \in 1 .. Len(c) PROVE c[k].jump # None => c[k].full
    <3>1. PICK i \in 1 .. (Len(a) + Len(b) + Len(c)) :
               ~(i <= Len(a)) /\ ~(i <= Len(a) + Len(b)) /\ i - Len(a) - Len(b) = k
      <4>1. LET i == k + Len(a) + Len(b) IN
            /\ i \in 1 .. (Len(a) + Len(b) + Len(c)) /\ ~(i <= Len(a))
            /\ ~(i <= Len(a) + Len(b)) /\ i - Len(a) - Len(b) = k
        BY <2>7
      <4> QED BY <4>1
    <3>2. t[i] = c[k]
      BY <2>7, <3>1
    <3> QED BY <2>6, <2>7, <3>2
  <2>10. DOMAIN b = 1 .. Len(b) /\ DOMAIN c = 1 .. Len(c)
    BY LenProperties
  <2> QED BY <2>3, <2>4, <2>8, <2>9, <2>10
<1>2. ASSUME NEW p \in Packers, NEW k \in DOMAIN store[p] PROVE store[p][k].jump # None => store[p][k].full
  <2>1. CASE p \in DOMAIN pclients
    <3>1. PICK e \in Ends : Via[e] = p
      BY <2>1 DEF ServedNow, BaseInv, TypesNow
    <3> QED BY <1>1, <3>1
  <2>2. CASE p \notin DOMAIN pclients
    <3>1. store[p] = <<>>
      BY <2>2 DEF BaseInv, ClientsNow
    <3> QED BY <3>1
  <2> QED BY <2>1, <2>2
<1> QED BY <1>1, <1>2 DEF JumpCarriesFull

LEMMA ReceivedRight ==
  ASSUME BaseInv, EndsNow
  PROVE  Received
<1>1. ASSUME NEW e \in Ends
      PROVE  got[e] \in Seq(Rec) /\ DOMAIN got[e] = 1 .. Len(got[e]) /\ GotOk(setup, chain, got[e])
  BY LenProperties DEF EndsNow, EndOk, EndAt
<1>2. \A s : PointOf(s) = Pt(chain, s)
  BY DEF PointOf, Pt
<1>3. ReceivedAsWritten
  <2> SUFFICES ASSUME NEW e \in Ends, NEW k \in DOMAIN got[e]
               PROVE  /\ got[e][k].seq # 0
                      /\ ~EventType => /\ got[e][k].start = chain[PointOf(got[e][k].seq)].time
                                       /\ got[e][k].end = chain[PointOf(got[e][k].seq) + 1].time
    BY DEF ReceivedAsWritten
  <2>1. Taken(setup, chain, got[e][k])
    BY <1>1 DEF GotOk
  <2> QED BY <1>2, <2>1 DEF Taken, Published, From, Upto, EventType
<1>4. ReceivedInOrder
  BY <1>1 DEF ReceivedInOrder, GotOk, Skips
<1> QED BY <1>3, <1>4 DEF Received

\* In orderly circumstances packing, overflow and retry leave no packer with
\* a point it cannot send: the counts of accesses stay right, no assertion in
\* packData(), accessPackData() or unPackData() fails, the writer's cleaning
\* in newData() leaves the points the packers still need, and a time jump
\* comes with full data.
THEOREM PacksRight == Spec => [](Orderly => PackingRight)
<1>1. TransportInv => (Orderly => PackingRight)
  BY TypesRight, ReferenceRight, JumpsRight DEF TransportInv, RightNow, PackingRight, NoFault
<1> QED BY <1>1, TransportIs, PTL

\* In orderly circumstances every end receives what newData() wrote, with its
\* span, in the order of writing and without leaving out a point that fits in
\* a store, through stores that overflow, gaps, differences and the cache of
\* unPackData().
THEOREM ReceivesAsWritten == Spec => [](Orderly => Received)
<1>1. TransportInv => (Orderly => Received)
  BY ReceivedRight DEF TransportInv, RightNow
<1> QED BY <1>1, TransportIs, PTL

=============================================================================
