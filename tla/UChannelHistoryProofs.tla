------------------------ MODULE UChannelHistoryProofs ------------------------
(***************************************************************************)
(* Theorems about the history that UChannelEntry keeps for timed readers:  *)
(* `depth` points, and every point no older than `span`.                   *)
(***************************************************************************)
EXTENDS UChannelReadProofs

-----------------------------------------------------------------------------
(* Depth.  No client takes the data out of a node.                         *)

DataStays == Ops \subseteq {"flushOne"}

LEMMA ClientKeepsData ==
  ASSUME DataStays, NEW c \in Clients, SequentialStep(c) \/ TimedStep(c)
  PROVE  full' = full
<1>1. ~ReleaseOnlyAccess(c)
  BY DEF DataStays, ReleaseOnlyAccess
<1>2. CASE SequentialStep(c)
  <2>1. CASE StartLock(c, "latch") \/ LoadOldest(c) \/ GetAccess(c) \/ Detach(c)
    BY <2>1 DEF StartLock, LoadOldest, GetAccess, Detach, chainVars
  <2>2. CASE AccessData(c) \/ FlushOne(c) \/ FlushAll(c) \/ SpinToLast(c)
               \/ \E t \in Times : SpinToTime(c, t)
    BY <2>2 DEF AccessData, FlushOne, FlushAll, SpinToLast, SpinToTime, Begin,
                chainVars
  <2>3. CASE SkipGap(c) \/ ReleasePrevious(c) \/ (\E t \in Times : LookForData(c, t))
    BY <2>3 DEF SkipGap, ReleasePrevious, LookForData, chainVars
  <2>4. CASE ReleaseDataNoStep(c) \/ ReleaseData(c) \/ FlushTo(c) \/ SpinBack(c)
    BY <2>4 DEF ReleaseDataNoStep, ReleaseData, FlushTo, SpinBack, chainVars
  <2> QED BY <1>1, <1>2, <2>1, <2>2, <2>3, <2>4 DEF SequentialStep
<1>3. CASE TimedStep(c)
  BY <1>3 DEF TimedStep, StartLock, LoadOldest, GetAccess, FindLatest, WalkBack,
              GetData, Unlock, ReturnData, chainVars
<1> QED BY <1>2, <1>3

\* every node that is not a gap has its data, but for the sentinel
AllFull ==
  \A n \in 1 .. created : seq[n] # 0 /\ (n < created \/ wpc = "link") => full[n]

\* every number given out is that of a node
Numbered ==
  \A k \in 1 .. (Id(created) - 1) : \E n \in 1 .. (created - 1) : seq[n] = k

IdsUp == \A n, m \in 0 .. created : n <= m => Id(n) <= Id(m)

\* the first point is still there, or `depth` points are
DepthLeft == Id(oldest) = 1 \/ Id(created) - Id(oldest) >= Depth

DepthInv == AllFull /\ Numbered /\ IdsUp /\ DepthLeft

LEMMA IdNat ==
  ASSUME IInv, ChainInv
  PROVE  /\ \A n \in 0 .. created : Id(n) \in Nat
         /\ Id(created) >= 1
<1>1. \A n \in 0 .. created : Id(n) \in Nat
  <2> SUFFICES ASSUME NEW n \in 0 .. created PROVE Id(n) \in Nat
    OBVIOUS
  <2>1. n \in Nodes /\ (n # created => n + 1 \in Nodes)
    BY ChainFacts
  <2> QED BY <2>1, ChainFacts DEF Id
<1>2. Id(created) # 0
  BY ChainFacts DEF ChainInv, GapInHand, Id
<1> QED BY <1>1, <1>2, ChainFacts

\* the newest node, and what becomes of the data
LEMMA HowChainGrows ==
  ASSUME IInv, [Next]_vars
  PROVE  \/ created' = created
         \/ created' = created + 1 /\ (LinkGapData \/ LinkSentinel)
<1>1. CASE WriterStep
  BY <1>1 DEF WriterStep, NewData, TryRecycle, DeleteNode, ShiftOldest, FillLatest,
              ResetSeqId, LinkGapData, LinkSentinel, PublishLatest, Notify, chainVars
<1>2. CASE RemoveSaveUp \/ ResetValid \/ CleanEntry \/ FinalDelete
  BY <1>2 DEF RemoveSaveUp, ResetValid, CleanEntry, FinalDelete, chainVars
<1>3. CASE \E c \in Clients : SequentialStep(c) \/ TimedStep(c)
  BY <1>3, ClientLeavesWriter DEF writerPart
<1>4. CASE UNCHANGED vars
  BY <1>4 DEF vars
<1> QED BY <1>1, <1>2, <1>3, <1>4, StepCases

LEMMA HowOldestMoves ==
  ASSUME IInv, [Next]_vars
  PROVE  \/ oldest' = oldest
         \/ /\ ShiftOldest /\ wpc = "shift" /\ oldest' = oldest + 1
            /\ Obsolete(oldest) /\ seq[latest] - seq[oldest] > Depth
            /\ UNCHANGED <<seq, time, created, start>>
<1>1. CASE WriterStep
  BY <1>1 DEF WriterStep, NewData, TryRecycle, DeleteNode, ShiftOldest, FillLatest,
              ResetSeqId, LinkGapData, LinkSentinel, PublishLatest, Notify, chainVars
<1>2. CASE RemoveSaveUp \/ ResetValid \/ CleanEntry \/ FinalDelete
  BY <1>2 DEF RemoveSaveUp, ResetValid, CleanEntry, FinalDelete
<1>3. CASE \E c \in Clients : SequentialStep(c) \/ TimedStep(c)
  BY <1>3, ClientLeavesWriter DEF writerPart
<1>4. CASE UNCHANGED vars
  BY <1>4 DEF vars
<1> QED BY <1>1, <1>2, <1>3, <1>4, StepCases

LEMMA NextNumbered ==
  ASSUME IInv, IInv', ChainInv, ChainInv', ChainGrows, DepthInv, [Next]_vars
  PROVE  Numbered' /\ IdsUp' /\ Id(created)' >= Id(created)
<1>0. /\ created \in Nat /\ \A n \in 0 .. created : Id(n) \in Nat /\ Id(n)' = Id(n)
      /\ created >= 1 /\ Id(created) >= 1
      /\ \A n \in 0 .. (created - 1) : seq'[n] = seq[n]
  BY IdNat, ChainFacts DEF ChainGrows
<1>3. PICK new \in Nat : new = created + 1
  BY <1>0
<1>1. CASE created' = created
  <2>1. Id(created)' = Id(created)
    BY <1>0, <1>1 DEF Id
  <2>2. Numbered'
    BY <1>0, <1>1, <2>1 DEF Numbered, DepthInv
  <2>3. IdsUp'
    BY <1>0, <1>1 DEF IdsUp, DepthInv
  <2> QED BY <1>0, <2>1, <2>2, <2>3
<1>2. CASE created' = new
  <2>1. PICK i : i = Id(new)'
    OBVIOUS
  <2>2. Id(created)' = i
    BY <1>2, <2>1 DEF Id
  <2>3. /\ seq'[created] = 0 => i = Id(created)
        /\ seq'[created] # 0 => i = Id(created) + 1
    <3>1. /\ seq'[created] = 0 => Id(new)' = Id(created)
          /\ seq'[created] # 0 => Id(new)' = Id(created) + 1
      <4>1. PICK k \in Nat : k = created
        BY <1>0
      <4>2. k \in 0 .. (created' - 1)
        BY <1>0, <1>2, <1>3, <4>1
      <4>3. /\ seq'[k] = 0 => Id(k + 1)' = Id(k)'
            /\ seq'[k] # 0 => Id(k + 1)' = Id(k)' + 1
        BY <4>2 DEF ChainInv, IdsInOrder
      <4>4. Id(k)' = Id(k)
        BY <1>0, <4>1
      <4>5. k + 1 = new
        BY <1>3, <4>1
      <4> QED BY <4>1, <4>3, <4>4, <4>5
    <3> QED BY <2>1, <3>1
  <2>4. i \in Nat /\ i >= Id(created)
    BY <1>0, <2>3
  <2>5. Numbered'
    <3> SUFFICES ASSUME NEW k \in 1 .. (i - 1)
                 PROVE  \E n \in 1 .. created : seq'[n] = k
      BY <1>0, <1>2, <1>3, <2>2 DEF Numbered
    <3>1. CASE k < Id(created)
      <4>1. PICK n \in 1 .. (created - 1) : seq[n] = k
        BY <1>0, <2>4, <3>1 DEF DepthInv, Numbered
      <4> QED BY <1>0, <4>1
    <3>2. CASE k >= Id(created)
      <4>1. k = Id(created) /\ seq'[created] # 0
        BY <1>0, <2>3, <2>4, <3>2
      <4>2. PICK m \in 1 .. created : m = created
        BY <1>0
      <4>3. Id(m)' = seq'[m]
        BY <4>1, <4>2 DEF Id
      <4>4. Id(m)' = k
        BY <1>0, <4>1, <4>2
      <4> QED BY <1>0, <4>2, <4>3, <4>4
    <3> QED BY <1>0, <2>4, <3>1, <3>2
  <2>6. IdsUp'
    <3> SUFFICES ASSUME NEW n \in 0 .. new, NEW m \in 0 .. new, n <= m
                 PROVE  Id(n)' <= Id(m)'
      BY <1>2 DEF IdsUp
    <3>1. CASE m <= created
      BY <1>0, <3>1 DEF IdsUp, DepthInv
    <3>2. CASE m = new
      <4>1. Id(m)' = i
        BY <2>1, <3>2
      <4>2. CASE n = new
        BY <2>1, <2>4, <3>2, <4>1, <4>2
      <4>3. CASE n <= created
        <5>1. Id(n)' = Id(n) /\ Id(n) <= Id(created)
          BY <1>0, <4>3 DEF IdsUp, DepthInv
        <5> QED BY <1>0, <2>4, <4>1, <4>3, <5>1
      <4> QED BY <1>0, <1>3, <4>2, <4>3
    <3> QED BY <1>0, <1>3, <3>1, <3>2
  <2> QED BY <1>0, <2>2, <2>4, <2>5, <2>6
<1> QED BY <1>1, <1>2, <1>3, HowChainGrows

LEMMA NextDepthLeft ==
  ASSUME IInv, IInv', ChainInv, ChainInv', ChainGrows, DepthInv, [Next]_vars
  PROVE  DepthLeft'
<1>0. /\ created \in Nat /\ \A n \in 0 .. created : Id(n) \in Nat /\ Id(n)' = Id(n)
      /\ oldest \in 1 .. created /\ latest \in Nat /\ Id(created) \in Nat
      /\ seq \in [Nodes -> Nat] /\ oldest \in Nodes /\ latest \in Nodes
  BY IdNat, ChainFacts, LockFacts DEF ChainGrows, IInv, TypeOK
<1>1. Id(created)' >= Id(created) /\ Id(created)' \in Nat
  <2>1. Id(created)' \in Nat
    <3>1. created' \in Nodes /\ seq' \in [Nodes -> Nat] /\ wseq' \in Nat
      BY DEF IInv, TypeOK
    <3> QED BY <3>1 DEF Id
  <2> QED BY <2>1, NextNumbered
<1>2. CASE oldest' = oldest
  <2>1. Id(oldest)' = Id(oldest)
    BY <1>0, <1>2 DEF Id
  <2>2. DepthLeft /\ Depth \in Nat
    BY EntryAssumption DEF DepthInv
  <2>3. Id(oldest) \in Nat
    BY <1>0
  <2> QED BY <1>0, <1>1, <2>1, <2>2, <2>3 DEF DepthLeft
<1>3. CASE /\ wpc = "shift" /\ oldest' = oldest + 1
           /\ Obsolete(oldest) /\ seq[latest] - seq[oldest] > Depth
           /\ UNCHANGED <<seq, created>>
  <2>1. oldest + 1 \in 0 .. created /\ created = latest /\ seq[created] # 0
    BY <1>0, <1>3, ChainFacts DEF Obsolete, Linked, ChainInv, GapInHand
  <2>2. Id(created) = seq[latest] /\ Id(created)' = Id(created)
    BY <1>0, <1>3, <2>1 DEF Id
  <2>3. Id(oldest)' = Id(oldest + 1)
    <3>1. PICK k : k = oldest + 1
      OBVIOUS
    <3>2. Id(k)' = Id(k)
      BY <1>0, <2>1, <3>1
    <3>3. Id(oldest)' = Id(k)'
      BY <1>3, <3>1 DEF Id
    <3> QED BY <3>1, <3>2, <3>3
  <2>4. CASE seq[oldest] = 0
    <3>1. Id(oldest + 1) = Id(oldest)
      BY <1>0, <2>1, <2>4 DEF ChainInv, IdsInOrder
    <3> QED BY <2>2, <2>3, <3>1 DEF DepthInv, DepthLeft
  <2>5. CASE seq[oldest] # 0
    <3>1. Id(oldest + 1) = Id(oldest) + 1 /\ Id(oldest) = seq[oldest]
      BY <1>0, <2>1, <2>5 DEF ChainInv, IdsInOrder, Id
    <3>2. Depth \in Nat /\ seq[latest] \in Nat /\ seq[oldest] \in Nat
      BY <1>0, EntryAssumption
    <3>3. Id(created)' - Id(oldest)' >= Depth
      BY <1>3, <2>2, <2>3, <3>1, <3>2
    <3> QED BY <3>3 DEF DepthLeft
  <2> QED BY <2>4, <2>5
<1> QED BY <1>2, <1>3, HowOldestMoves

LEMMA NextFull ==
  ASSUME DataStays, IInv, IInv', ChainInv, ChainInv', AllFull, [Next]_vars
  PROVE  AllFull'
<1> USE ChainFacts
<1>1. CASE UNCHANGED <<full, seq, created>> /\ (wpc' = "link" => wpc = "link")
  BY <1>1 DEF AllFull
<1>2. CASE FillLatest
  <2>1. /\ UNCHANGED <<seq, created>> /\ created = latest
        /\ full' = [full EXCEPT ![latest] = TRUE]
    BY <1>2 DEF FillLatest
  <2>2. full'[created] /\ \A n \in 1 .. created : n # created => full'[n] = full[n]
    BY <2>1
  <2> QED BY <2>1, <2>2 DEF AllFull
<1>3. CASE ResetSeqId
  <2>1. /\ UNCHANGED <<full, created>> /\ created = latest /\ wpc' = "gapLink"
        /\ seq' = [seq EXCEPT ![latest] = 0]
    BY <1>3 DEF ResetSeqId
  <2>2. seq'[created] = 0 /\ \A n \in 1 .. created : n # created => seq'[n] = seq[n]
    BY <2>1
  <2> QED BY <2>1, <2>2 DEF AllFull
<1>4. CASE LinkGapData \/ LinkSentinel
  <2> DEFINE new == created + 1
  <2>1. new \in Nodes /\ created' = new
    BY <1>4 DEF LinkGapData, LinkSentinel, IInv, TypeOK
  <2>2. \A n \in 1 .. created : seq'[n] = seq[n] /\ full'[n] = full[n]
    BY <1>4, <2>1 DEF LinkGapData, LinkSentinel
  <2>3. CASE LinkGapData
    <3>1. full'[new] /\ wpc = "gapLink" /\ seq[created] = 0
      BY <2>1, <2>3 DEF LinkGapData, ChainInv, GapInHand
    <3> QED BY <2>1, <2>2, <3>1 DEF AllFull
  <2>4. CASE LinkSentinel
    <3>1. wpc = "link" /\ wpc' = "publish"
      BY <2>4 DEF LinkSentinel
    <3> QED BY <2>1, <2>2, <3>1 DEF AllFull
  <2> QED BY <1>4, <2>3, <2>4
<1>5. CASE WriterStep
  BY <1>1, <1>2, <1>3, <1>4, <1>5 DEF WriterStep, NewData, TryRecycle, DeleteNode,
    ShiftOldest, PublishLatest, Notify, chainVars
<1>6. CASE RemoveSaveUp \/ ResetValid \/ CleanEntry \/ FinalDelete \/ UNCHANGED vars
  BY <1>1, <1>6 DEF RemoveSaveUp, ResetValid, CleanEntry, FinalDelete, chainVars,
    writeVars, vars
<1>7. CASE \E c \in Clients : SequentialStep(c) \/ TimedStep(c)
  BY <1>1, <1>7, ClientKeepsData, ClientLeavesChain, ClientLeavesWriter
     DEF SameChain, writerPart
<1> QED BY <1>5, <1>6, <1>7, StepCases

LEMMA InitDepth == Init => DepthInv
<1> SUFFICES ASSUME Init PROVE DepthInv
  OBVIOUS
<1>1. /\ created = 1 /\ oldest = 1 /\ wpc = "idle" /\ seq[0] = 0 /\ seq[1] = 1
  BY EntryAssumption DEF Init, Nodes
<1>2. Id(0) = 1 /\ Id(1) = 1
  BY <1>1 DEF Id
<1>3. \A n \in 0 .. created : Id(n) = 1
  BY <1>1, <1>2
<1> QED BY <1>1, <1>3 DEF DepthInv, AllFull, Numbered, IdsUp, DepthLeft

LEMMA NextDepth ==
  ASSUME DataStays, IInv, IInv', ChainInv, ChainInv', ChainGrows, DepthInv,
         [Next]_vars
  PROVE  DepthInv'
BY NextNumbered, NextDepthLeft, NextFull DEF DepthInv

\* each number from that of the oldest node on is that of a node on offer
LEMMA EachNumberThere ==
  ASSUME IInv, ChainInv, DepthInv, NEW k \in Id(oldest) .. (Id(created) - 1)
  PROVE  \E n \in Reachable : seq[n] = k
<1>0. /\ created \in Nat /\ \A n \in 0 .. created : Id(n) \in Nat
      /\ oldest \in 1 .. created /\ Id(oldest) \in Nat /\ Id(created) \in Nat
  BY IdNat, ChainFacts, LockFacts
<1>1. Id(oldest) >= 1
  <2>1. Id(1) = 1
    BY DEF ChainInv, ChainEnds, Id
  <2> QED BY <1>0, <2>1 DEF DepthInv, IdsUp
<1>2. PICK n \in 1 .. (created - 1) : seq[n] = k
  BY <1>0, <1>1 DEF DepthInv, Numbered
<1>3. Id(n) = k /\ seq[n] # 0 /\ Id(n + 1) = k + 1
  BY <1>0, <1>1, <1>2 DEF Id, ChainInv, IdsInOrder
<1>4. n >= oldest
  <2>1. SUFFICES ASSUME n < oldest PROVE FALSE
    BY <1>0
  <2>2. n + 1 \in 0 .. created /\ n + 1 <= oldest
    BY <1>0, <2>1
  <2>3. Id(n + 1) <= Id(oldest)
    BY <1>0, <2>2 DEF DepthInv, IdsUp
  <2> QED BY <1>0, <1>3, <2>3
<1>5. full[n]
  BY <1>0, <1>3 DEF DepthInv, AllFull
<1> QED BY <1>0, <1>2, <1>4, <1>5 DEF Reachable

LEMMA ReachableCount ==
  ASSUME IInv, ChainInv, DepthInv
  PROVE  /\ Cardinality(Reachable) \in Nat
         /\ Cardinality(Reachable) >= Id(created) - Id(oldest)
<1> DEFINE Numbers == Id(oldest) .. (Id(created) - 1)
           f == [k \in Numbers |-> CHOOSE n \in Reachable : seq[n] = k]
<1>0. /\ created \in Int /\ oldest \in Int /\ Id(oldest) \in Nat
      /\ Id(created) \in Nat /\ oldest \in 1 .. created
  BY IdNat, ChainFacts, LockFacts
<1>1. \A k \in Numbers : f[k] \in Reachable /\ seq[f[k]] = k
  BY EachNumberThere
<1>2. f \in Injection(Numbers, Reachable)
  <2>1. f \in [Numbers -> Reachable]
    BY <1>1
  <2>2. \A a, b \in Numbers : f[a] = f[b] => a = b
    BY <1>1
  <2> QED BY <2>1, <2>2 DEF Injection, IsInjective
<1>3. IsFiniteSet(oldest .. created) /\ Reachable \subseteq oldest .. created
  BY <1>0, FS_Interval DEF Reachable
<1>4. IsFiniteSet(Reachable)
  BY <1>3, FS_Subset
<1>5. Cardinality(Numbers) <= Cardinality(Reachable)
  BY <1>2, <1>4, FS_Injection
<1>6. Cardinality(Reachable) \in Nat
  BY <1>4, FS_CardinalityType
<1>7. Cardinality(Numbers) = IF Id(oldest) > Id(created) - 1 THEN 0
                             ELSE (Id(created) - 1) - Id(oldest) + 1
  <2>1. PICK a, b \in Int : a = Id(oldest) /\ b = Id(created) - 1
    BY <1>0
  <2> QED BY <2>1, FS_Interval
<1> QED BY <1>0, <1>5, <1>6, <1>7

LEMMA DepthFollows ==
  ASSUME IInv, ChainInv, DepthInv
  PROVE  DepthKept
<1> SUFFICES ASSUME wpc # "gapLink"
             PROVE  Cardinality(Reachable) >=
                      IF seq[created] - 1 < Depth THEN seq[created] - 1 ELSE Depth
  BY DEF DepthKept
<1>1. Id(created) = seq[created]
  BY ChainFacts DEF ChainInv, GapInHand, Id
<1>2. Id(created) \in Nat /\ Id(oldest) \in Nat /\ Depth \in Nat
  BY IdNat, ChainFacts, LockFacts, EntryAssumption
<1>3. Id(oldest) = 1 \/ Id(created) - Id(oldest) >= Depth
  BY DEF DepthInv, DepthLeft
<1> QED BY <1>1, <1>2, <1>3, ReachableCount

(* newData() never gives up more than it may: `depth` points, or all that  *)
(* were written, stay within reach of new readers.                         *)
THEOREM KeepsDepth ==
  ASSUME DataStays
  PROVE  Spec => []DepthKept
<1>1. CarefulOps
  BY DEF DataStays, CarefulOps
<1>2. ASSUME IInv, ChainInv, DepthInv, [Next]_vars
      PROVE  IInv' /\ ChainInv' /\ DepthInv'
  <2>1. IInv'
    BY <1>1, <1>2, NextIInv
  <2>2. ChainInv' /\ ChainGrows
    BY <1>2, <2>1, NextChain
  <2> QED BY <1>2, <2>1, <2>2, NextDepth
<1>3. IInv /\ ChainInv /\ DepthInv => DepthKept
  BY DepthFollows
<1> QED BY <1>2, <1>3, InitIInv, InitChain, InitDepth, PTL DEF Spec

-----------------------------------------------------------------------------
(* Span, of stream data.                                                   *)

\* times go up along the chain
TimesUp == \A n, m \in 1 .. created : n < m => time[n] < time[m]

\* the data that is written lies behind what is there
WriterTimes ==
  /\ wpc \in Before \cup {"link"} => start < end
  /\ wpc = "fill" /\ wseq # 1 => time[created] < end
  /\ wpc \in {"gapReset", "gapLink"} => time[created] < start
  /\ wpc = "link" => time[created] < end
  /\ wpc \notin Before \cup {"link"} /\ created > 1 => start < time[created]

\* what was given up is older than span
GivenUp == \A n \in 1 .. (oldest - 1) : time[n] + Span < start

\* where a search by time begins there is data
LatestData == latest > 1 => seq[latest - 1] # 0

SpanInv == TimesUp /\ WriterTimes /\ GivenUp /\ LatestData

LEMMA SpanFacts ==
  ASSUME IInv
  PROVE  /\ start \in Nat /\ end \in Nat /\ Span \in Nat
         /\ \A n \in 0 .. created : n \in Nodes /\ time[n] \in Nat
         /\ time \in [Nodes -> Nat]
         /\ oldest \in 1 .. created /\ latest \in 1 .. created /\ oldest <= latest
         /\ created \in Nat /\ created \in Nodes /\ latest \in Nodes
         /\ Nodes \subseteq Nat
<1>1. start \in Nat /\ end \in Nat /\ Span \in Nat
  BY EntryAssumption DEF IInv, TypeOK
<1> QED BY <1>1, ChainFacts, LockFacts DEF IInv, TypeOK

\* the writer has the number 1 in hand only for the first point
LEMMA FirstAlone ==
  ASSUME IInv, ChainInv, DepthInv
  PROVE  created > 1 => Id(created) > 1
<1> SUFFICES ASSUME created > 1 PROVE Id(created) > 1
  OBVIOUS
<1>1. Id(1) = 1 /\ Id(2) = Id(1) + 1
  <2>1. Id(1) = 1 /\ seq[1] # 0
    BY DEF ChainInv, ChainEnds, Id
  <2>2. Id(1 + 1) = Id(1) + 1
    BY <2>1, ChainFacts DEF ChainInv, IdsInOrder
  <2> QED BY <2>1, <2>2
<1>2. Id(2) <= Id(created)
  BY ChainFacts DEF DepthInv, IdsUp
<1> QED BY <1>1, <1>2, IdNat, ChainFacts

\* steps that do not write times, and leave the writer's place alone or go on
LEMMA SpanKept ==
  ASSUME IInv, IInv', SpanInv, UNCHANGED <<time, seq, created, latest, oldest, start, end>>,
         \/ UNCHANGED <<wpc, wseq>>
         \/ wpc \in {"clean", "delete"} /\ wpc' \in {"clean", "delete", "shift"}
         \/ wpc = "gapReset" /\ wpc' = "gapLink"
         \/ /\ wpc \notin Before \cup {"link"} /\ wpc' \notin Before \cup {"link"}
  PROVE  SpanInv'
<1>1. TimesUp' /\ GivenUp' /\ LatestData'
  BY DEF SpanInv, TimesUp, GivenUp, LatestData
<1>2. WriterTimes'
  BY DEF SpanInv, WriterTimes, Before
<1> QED BY <1>1, <1>2 DEF SpanInv

\* the first write aside, a write starts no earlier than the one before
LEMMA NewDataSpan ==
  ASSUME ~EventType, IInv, IInv', SpanInv, NEW t \in Starts, NEW length \in Lengths,
         NewData(t, length)
  PROVE  SpanInv'
<1>1. /\ UNCHANGED <<time, seq, created, latest, oldest>> /\ wpc = "idle"
      /\ wpc' = "clean" /\ start' = t /\ end' = t + length
  BY DEF NewData, chainVars
<1>2. /\ length \in Nat \ {0} /\ t \in Nat /\ time[latest] - 1 <= t
      /\ created = latest /\ time[latest] \in Nat
  BY <1>1, EntryAssumption, SpanFacts, ChainFacts DEF Lengths, Starts
<1>3. oldest > 1 => start <= t
  BY <1>1, <1>2, SpanFacts DEF SpanInv, WriterTimes, Before
<1>4. GivenUp'
  <2> SUFFICES ASSUME NEW n \in 1 .. (oldest - 1) PROVE time[n] + Span < t
    BY <1>1 DEF GivenUp
  <2>1. time[n] + Span < start /\ time[n] \in Nat /\ oldest > 1
    BY SpanFacts DEF SpanInv, GivenUp
  <2> QED BY <1>2, <1>3, <2>1, SpanFacts
<1>5. WriterTimes'
  BY <1>1, <1>2 DEF WriterTimes, Before
<1> QED BY <1>1, <1>4, <1>5 DEF SpanInv, TimesUp, LatestData

LEMMA ShiftOldestSpan ==
  ASSUME ~EventType, IInv, IInv', SpanInv, ShiftOldest
  PROVE  SpanInv'
<1>1. UNCHANGED <<time, seq, created, latest, start, end, wseq>> /\ wpc = "shift"
  BY DEF ShiftOldest, chainVars
<1>2. created = latest /\ time[created] \in Nat /\ start < end
  BY <1>1, SpanFacts, ChainFacts DEF SpanInv, WriterTimes, Before
<1>3. CASE Obsolete(oldest) /\ seq[latest] - seq[oldest] > Depth
  <2>1. oldest' = oldest + 1 /\ wpc' = wpc /\ time[oldest] + Span < start
    BY <1>3 DEF ShiftOldest, Obsolete
  <2>2. GivenUp'
    BY <1>1, <2>1, SpanFacts DEF SpanInv, GivenUp
  <2> QED BY <1>1, <2>1, <2>2 DEF SpanInv, TimesUp, WriterTimes, LatestData
<1>4. CASE ~(Obsolete(oldest) /\ seq[latest] - seq[oldest] > Depth)
  <2>1. /\ oldest' = oldest
        /\ \/ wpc' = "fill" /\ wseq = 1
           \/ wpc' = "gapReset" /\ time[latest] < start
           \/ wpc' = "fill" /\ end > time[latest]
           \/ wpc' = "idle" /\ ~(end > time[latest])
    BY <1>4 DEF ShiftOldest
  <2>2. WriterTimes'
    BY <1>1, <1>2, <2>1, SpanFacts DEF WriterTimes, Before
  <2> QED BY <1>1, <2>1, <2>2 DEF SpanInv, TimesUp, GivenUp, LatestData
<1> QED BY <1>3, <1>4

\* times of nodes that are there do not change, but for the very first
LEMMA FillLatestTimes ==
  ASSUME ~EventType, IInv, ChainInv, DepthInv, FillLatest
  PROVE  /\ UNCHANGED <<seq, created, latest, oldest, start, end, wseq>>
         /\ wpc = "fill" /\ wpc' = "link" /\ created = latest
         /\ \/ wseq # 1 /\ time' = time
            \/ wseq = 1 /\ created = 1 /\ time'[created] = start
<1>1. /\ UNCHANGED <<seq, created, latest, oldest, start, end, wseq>>
      /\ wpc = "fill" /\ wpc' = "link"
      /\ wseq = 1 => time' = [time EXCEPT ![latest] = start]
      /\ wseq # 1 => time' = time
  BY DEF FillLatest
<1>2. created = latest /\ wseq = Id(created)
  BY <1>1, ChainFacts DEF ChainInv, GapInHand, Id, Before
<1>3. wseq = 1 => created = 1
  BY <1>2, FirstAlone, ChainFacts
<1> QED BY <1>1, <1>2, <1>3, SpanFacts

LEMMA FillLatestSpan ==
  ASSUME ~EventType, IInv, IInv', ChainInv, DepthInv, SpanInv, FillLatest
  PROVE  SpanInv'
<1>1. CASE wseq # 1 /\ time' = time
  <2>1. WriterTimes'
    BY <1>1, FillLatestTimes DEF SpanInv, WriterTimes, Before
  <2> QED BY <1>1, <2>1, FillLatestTimes DEF SpanInv, TimesUp, GivenUp, LatestData
<1>2. CASE wseq = 1 /\ created = 1 /\ time'[created] = start
  <2>1. created' = 1 /\ oldest' = 1
    BY <1>2, FillLatestTimes, SpanFacts
  <2>2. TimesUp' /\ GivenUp'
    BY <2>1 DEF TimesUp, GivenUp
  <2>3. WriterTimes'
    BY <1>2, FillLatestTimes DEF SpanInv, WriterTimes, Before
  <2> QED BY <2>2, <2>3, FillLatestTimes DEF SpanInv, LatestData
<1> QED BY <1>1, <1>2, FillLatestTimes

LEMMA LinkSpan ==
  ASSUME ~EventType, IInv, IInv', SpanInv, LinkGapData \/ LinkSentinel
  PROVE  SpanInv' /\ \A n \in 0 .. created : time'[n] = time[n]
<1>1. PICK new \in Nat : new = created + 1
  BY SpanFacts
<1>2. /\ UNCHANGED <<latest, oldest, start, end>> /\ created' = new
      /\ \/ wpc = "gapLink" /\ wpc' = "link" /\ time' = [time EXCEPT ![new] = start]
            /\ seq' = [seq EXCEPT ![new] = wseq]
         \/ wpc = "link" /\ wpc' = "publish" /\ time' = [time EXCEPT ![new] = end]
            /\ seq' = [seq EXCEPT ![new] = seq[created] + 1]
  BY <1>1 DEF LinkGapData, LinkSentinel
<1>3. new \in Nodes
  BY <1>2 DEF IInv, TypeOK
<1>4. \A n \in 0 .. created : time'[n] = time[n] /\ seq'[n] = seq[n]
  BY <1>1, <1>2, <1>3, SpanFacts, ChainFacts
<1>5. \/ wpc = "gapLink" /\ wpc' = "link" /\ time'[new] = start
      \/ wpc = "link" /\ wpc' = "publish" /\ time'[new] = end
  BY <1>2, <1>3, SpanFacts
<1>6. time[created] < time'[new] /\ time'[new] \in Nat
  BY <1>5, SpanFacts DEF SpanInv, WriterTimes
<1>7. TimesUp'
  <2> SUFFICES ASSUME NEW n \in 1 .. new, NEW m \in 1 .. new, n < m
               PROVE  time'[n] < time'[m]
    BY <1>2 DEF TimesUp
  <2>1. n \in 1 .. created /\ time'[n] = time[n]
    BY <1>1, <1>4, SpanFacts
  <2>2. CASE m = new
    <3>1. time[n] <= time[created]
      BY <2>1, SpanFacts DEF SpanInv, TimesUp
    <3>2. time[n] \in Nat /\ time[created] \in Nat
      BY <2>1, SpanFacts
    <3> QED BY <1>6, <2>1, <2>2, <3>1, <3>2
  <2>3. CASE m # new
    <3>1. m \in 1 .. created
      BY <1>1, <2>3, SpanFacts
    <3> QED BY <1>4, <2>1, <3>1, SpanFacts DEF SpanInv, TimesUp
  <2> QED BY <2>2, <2>3
<1>8. GivenUp'
  BY <1>2, <1>4, SpanFacts DEF SpanInv, GivenUp
<1>9. WriterTimes'
  BY <1>2, <1>5 DEF SpanInv, WriterTimes, Before
<1>10. LatestData'
  BY <1>2, <1>4, SpanFacts DEF SpanInv, LatestData
<1> QED BY <1>4, <1>7, <1>8, <1>9, <1>10 DEF SpanInv

LEMMA PublishSpan ==
  ASSUME IInv, IInv', ChainInv, SpanInv, PublishLatest
  PROVE  SpanInv'
<1>1. /\ UNCHANGED <<time, seq, created, oldest, start, end, wseq>>
      /\ latest' = created /\ wpc = "publish" /\ wpc' = "notify"
  BY DEF PublishLatest, chainVars
<1>2. LatestData'
  BY <1>1 DEF ChainInv, GapInHand, LatestData
<1>3. WriterTimes'
  BY <1>1 DEF SpanInv, WriterTimes, Before
<1> QED BY <1>1, <1>2, <1>3 DEF SpanInv, TimesUp, GivenUp

LEMMA InitSpan == Init => SpanInv
BY DEF Init, SpanInv, TimesUp, WriterTimes, GivenUp, LatestData, Before

\* what a search by time relies on
HistoryGrows ==
  /\ \A n \in 2 .. created : time'[n] = time[n]
  /\ oldest <= oldest'

LEMMA ResetSpan ==
  ASSUME IInv, IInv', ChainInv, SpanInv, ResetSeqId
  PROVE  SpanInv'
<1>1. /\ UNCHANGED <<time, created, latest, oldest, start, end>> /\ created = latest
      /\ wpc = "gapReset" /\ wpc' = "gapLink"
      /\ seq' = [seq EXCEPT ![latest] = 0]
  BY ChainFacts DEF ResetSeqId
<1>2. latest > 1 => seq'[latest - 1] = seq[latest - 1]
  BY <1>1, SpanFacts, ChainFacts
<1>3. LatestData'
  BY <1>1, <1>2 DEF SpanInv, LatestData
<1>4. WriterTimes'
  BY <1>1 DEF SpanInv, WriterTimes, Before
<1> QED BY <1>1, <1>3, <1>4 DEF SpanInv, TimesUp, GivenUp

LEMMA NextSpan ==
  ASSUME ~EventType, IInv, IInv', ChainInv, DepthInv, SpanInv, [Next]_vars
  PROVE  SpanInv' /\ HistoryGrows
<1> USE SpanFacts DEF HistoryGrows
<1>1. CASE \E t \in Starts, length \in Lengths : NewData(t, length)
  BY <1>1, NewDataSpan DEF NewData, chainVars
<1>2. CASE TryRecycle \/ DeleteNode \/ Notify
  <2>1. UNCHANGED <<time, seq, created, latest, oldest, start, end>>
    BY <1>2 DEF TryRecycle, DeleteNode, Notify, chainVars
  <2>2. \/ wpc \in {"clean", "delete"} /\ wpc' \in {"clean", "delete", "shift"}
        \/ wpc \notin Before \cup {"link"} /\ wpc' \notin Before \cup {"link"}
    BY <1>2 DEF TryRecycle, DeleteNode, Notify, Before
  <2> QED BY <2>1, <2>2, SpanKept
<1>3. CASE ShiftOldest
  BY <1>3, ShiftOldestSpan DEF ShiftOldest, chainVars
<1>4. CASE FillLatest
  BY <1>4, FillLatestSpan, FillLatestTimes
<1>5. CASE ResetSeqId
  BY <1>5, ResetSpan DEF ResetSeqId
<1>6. CASE LinkGapData \/ LinkSentinel
  <2>1. oldest' = oldest
    BY <1>6 DEF LinkGapData, LinkSentinel
  <2> QED BY <1>6, <2>1, LinkSpan
<1>7. CASE PublishLatest
  BY <1>7, PublishSpan DEF PublishLatest, chainVars
<1>8. CASE RemoveSaveUp \/ ResetValid \/ CleanEntry \/ FinalDelete \/ UNCHANGED vars
  <2>1. UNCHANGED <<time, seq, created, latest, oldest, start, end, wseq>>
    BY <1>8 DEF RemoveSaveUp, ResetValid, CleanEntry, FinalDelete, vars, chainVars,
                writeVars
  <2>2. \/ UNCHANGED wpc
        \/ wpc \notin Before \cup {"link"} /\ wpc' \notin Before \cup {"link"}
    BY <1>8 DEF RemoveSaveUp, ResetValid, CleanEntry, FinalDelete, vars, writeVars,
                Before
  <2> QED BY <2>1, <2>2, SpanKept
<1>9. CASE \E c \in Clients : SequentialStep(c) \/ TimedStep(c)
  <2>1. UNCHANGED <<time, seq, created, latest, oldest, start, end, wseq, wpc>>
    BY <1>9, ClientLeavesChain, ClientLeavesWriter DEF SameChain, writerPart
  <2> QED BY <2>1, SpanKept
<1> QED BY <1>1, <1>2, <1>3, <1>4, <1>5, <1>6, <1>7, <1>8, <1>9, StepCases
           DEF WriterStep

-----------------------------------------------------------------------------
(* A timed read that comes back without data.                              *)

\* what the client locked was the oldest node on offer
LockedOldest(c) ==
  /\ pc[c] \in {"load", "grab", "find", "walk", "take", "unlock"} =>
       loc[c].op = "timed"
  /\ pc[c] = "grab" => loc[c].ed <= oldest
  /\ pc[c] \in {"find", "walk", "take", "unlock"} => at[c] <= oldest

\* node n has the data valid at the time client c asks for
Asked(c, n) == seq[n] # 0 /\ time[n] <= loc[c].want /\ loc[c].want < time[n + 1]

\* of what was there when the search began
NothingFound(c) ==
  /\ loc[c].from < latest
  /\ \A n \in 1 .. loc[c].from : Asked(c, n) => n < oldest

ServedOf(c) ==
  LockedOldest(c) /\ (pc[c] = "unlock" /\ nx[c] = None => NothingFound(c))

ServedInv == \A c \in TimedClients : ServedOf(c)

LEMMA ServedWhileGrowing ==
  ASSUME IInv, IInv', ChainGrows, HistoryGrows, NEW c \in Clients, ServedOf(c),
         pc'[c] = pc[c], at'[c] = at[c], nx'[c] = nx[c], loc'[c] = loc[c]
  PROVE  ServedOf(c)'
<1>0. /\ latest \in Nat /\ latest' \in Nat /\ created \in Nat /\ latest <= created
      /\ latest <= latest' /\ oldest \in Nat /\ oldest' \in Nat /\ oldest <= oldest'
      /\ loc[c].from \in Int /\ loc[c].ed \in Int /\ at[c] \in Int
  <2>1. latest' \in Nat /\ oldest' \in Nat
    BY EntryAssumption DEF IInv, TypeOK, Nodes
  <2>2. loc[c].from \in Int
    BY DEF IInv, TypeOK, Locals
  <2> QED BY <2>1, <2>2, LockFacts DEF ChainGrows, HistoryGrows
<1>1. LockedOldest(c)'
  BY <1>0 DEF ServedOf, LockedOldest
<1>2. ASSUME NothingFound(c)
      PROVE  NothingFound(c)'
  <2>1. loc[c].from < latest'
    BY <1>0, <1>2 DEF NothingFound
  <2>2. ASSUME NEW n \in 1 .. loc[c].from, Asked(c, n)'
        PROVE  n < oldest'
    <3>1. /\ n \in 0 .. (created - 1) /\ n \in 0 .. (latest - 1)
          /\ n + 1 \in 2 .. created
      BY <1>0, <1>2 DEF NothingFound
    <3>2. seq'[n] = seq[n] /\ time'[n] = time[n] /\ time'[n + 1] = time[n + 1]
      BY <3>1 DEF ChainGrows, HistoryGrows
    <3>3. Asked(c, n)
      BY <2>2, <3>2 DEF Asked
    <3>4. n < oldest
      BY <1>2, <3>3 DEF NothingFound
    <3> QED BY <1>0, <3>4
  <2> QED BY <2>1, <2>2 DEF NothingFound
<1> QED BY <1>1, <1>2 DEF ServedOf

\* what stays in a step of a timed client
ServedFacts(c) ==
  /\ UNCHANGED <<seq, time, latest, oldest>>
  /\ pc \in [Clients -> Places] /\ loc \in [Clients -> Locals]
  /\ nx \in [Clients -> Nodes \cup {None}] /\ at \in [Clients -> Nodes \cup {None}]
  /\ latest \in Nat /\ oldest \in Nat /\ created \in Nat /\ cleanup \in Nat
  /\ loc[c].ed \in Int /\ loc[c].from \in Int /\ loc[c].want \in Nat /\ at[c] \in Int

LEMMA ServedStays ==
  ASSUME IInv, NEW c \in Clients, TimedStep(c)
  PROVE  ServedFacts(c)
<1>1. UNCHANGED <<seq, time, latest, oldest>>
  BY ClientLeavesChain, ClientLeavesWriter DEF SameChain, writerPart
<1>2. /\ loc \in [Clients -> Locals] /\ nx \in [Clients -> Nodes \cup {None}]
  BY DEF IInv, TypeOK
<1>3. loc[c].ed \in Int /\ loc[c].from \in Int /\ loc[c].want \in Nat
  BY <1>2 DEF Locals
<1> QED BY <1>1, <1>2, <1>3, LockFacts DEF ServedFacts

LEMMA ServedLocks ==
  ASSUME IInv, NEW c \in Clients, ServedOf(c), ServedFacts(c),
         \/ StartLock(c, "timed") \/ LoadOldest(c) \/ GetAccess(c) \/ Unlock(c)
         \/ ReturnData(c)
  PROVE  ServedOf(c)'
<1> USE DEF ServedFacts
<1>1. CASE StartLock(c, "timed")
  <2>1. pc'[c] = "load" /\ loc'[c].op = "timed"
    BY <1>1 DEF StartLock, NoLocals
  <2> QED BY <2>1 DEF ServedOf, LockedOldest
<1>2. CASE LoadOldest(c)
  <2>1. pc[c] = "load" /\ pc'[c] = "grab" /\ loc'[c].ed = oldest
        /\ loc'[c].op = loc[c].op
    BY <1>2 DEF LoadOldest, Locals
  <2> QED BY <2>1 DEF ServedOf, LockedOldest
<1>3. CASE GetAccess(c)
  <2>1. /\ pc[c] = "grab"
        /\ \/ pc'[c] = "grab" /\ loc'[c] = loc[c]
           \/ pc'[c] = "load" /\ loc'[c] = loc[c]
           \/ /\ loc[c].op # "latch" => pc'[c] = "find" /\ loc'[c] = loc[c]
              /\ at'[c] = loc[c].ed
    BY <1>3 DEF GetAccess, Goto
  <2>2. loc[c].op = "timed" /\ loc[c].ed <= oldest
    BY <2>1 DEF ServedOf, LockedOldest
  <2> QED BY <2>1, <2>2 DEF ServedOf, LockedOldest
<1>4. CASE Unlock(c) \/ ReturnData(c)
  <2>1. pc'[c] \in {"out", "held"}
    BY <1>4 DEF Unlock, ReturnData, Goto
  <2> QED BY <2>1 DEF ServedOf, LockedOldest
<1> QED BY <1>1, <1>2, <1>3, <1>4

\* there is always data where the search begins, unless nothing was written
LEMMA ServedBegins ==
  ASSUME IInv, ChainInv, DepthInv, SpanInv, NEW c \in Clients, ServedOf(c),
         ServedFacts(c), NEW t, FindLatest(c, t)
  PROVE  ServedOf(c)'
<1> USE DEF ServedFacts
<1>1. pc[c] = "find" /\ UNCHANGED <<at, nx>>
  BY DEF FindLatest
<1>2. LockedOldest(c) /\ at[c] <= oldest /\ loc[c].op = "timed"
  BY <1>1 DEF ServedOf, LockedOldest
<1>3. CASE pc' = pc /\ loc' = loc
  BY <1>1, <1>2, <1>3 DEF ServedOf, LockedOldest
<1>4. CASE ~(pc' = pc /\ loc' = loc)
  <2>1. /\ pc'[c] \in {"unlock", "walk", "take"} /\ loc'[c].op = loc[c].op
        /\ loc'[c].from = latest - 1
        /\ pc'[c] = "unlock" => ~full[latest - 1]
    BY <1>1, <1>2, <1>4 DEF FindLatest, Locals
  <2>2. latest > 1 => full[latest - 1]
    BY SpanFacts DEF SpanInv, LatestData, DepthInv, AllFull
  <2>3. pc'[c] = "unlock" => latest = 1
    BY <2>1, <2>2, SpanFacts
  <2>4. pc'[c] = "unlock" => NothingFound(c)'
    BY <2>1, <2>3 DEF NothingFound
  <2>5. LockedOldest(c)'
    BY <1>1, <1>2, <2>1 DEF LockedOldest
  <2> QED BY <2>4, <2>5 DEF ServedOf
<1> QED BY <1>3, <1>4

\* The search gives up: at the node locked, with everything asked for before
\* it, or in front of a gap that has the time asked for.
LEMMA ServedWalks ==
  ASSUME IInv, ChainInv, SpanInv, NEW c \in Clients, ServedOf(c), ServedFacts(c),
         SearchOf(c), WalkBack(c)
  PROVE  ServedOf(c)'
<1> DEFINE e == loc[c].ed
           w == loc[c].want
<1> USE DEF ServedFacts
<1>1. pc[c] = "walk" /\ UNCHANGED <<at, nx>>
  BY DEF WalkBack
<1>2. LockedOldest(c) /\ at[c] <= oldest /\ loc[c].op = "timed"
  BY <1>1 DEF ServedOf, LockedOldest
<1>3. FoundDown(c, e)
  BY <1>1, <1>2 DEF SearchOf
<1>4. CASE Search(c)[1] = "fault"
  <2>1. pc' = pc /\ loc' = loc
    BY <1>4 DEF WalkBack
  <2> QED BY <1>1, <1>2, <2>1 DEF ServedOf, LockedOldest
<1>5. CASE Search(c)[1] # "fault"
  <2>1. /\ pc'[c] = Search(c)[1] /\ loc'[c].op = loc[c].op
        /\ loc'[c].from = loc[c].from /\ loc'[c].want = w
    BY <1>5 DEF WalkBack, Locals
  <2>2. Search(c)[1] \in {"take", "unlock", "walk"}
    BY <1>5 DEF Search
  <2>3. LockedOldest(c)'
    BY <1>1, <1>2, <2>1, <2>2 DEF LockedOldest
  <2>4. ASSUME Search(c)[1] = "unlock"
        PROVE  NothingFound(c)'
    <3>1. /\ time[e] > w
          /\ \/ e = at[c]
             \/ seq[e - 1] = 0 /\ ~(time[e - 1] > w)
             \/ seq[e - 1] = 0 /\ e - 2 = at[c] /\ time[e - 2] > w
      BY <2>4 DEF Search, AfterTick
    <3>2. e \in 1 .. loc[c].from /\ loc[c].from < latest
      BY <1>3 DEF FoundDown
    <3>3. ASSUME NEW n \in 1 .. loc[c].from, Asked(c, n)
          PROVE  n < oldest
      <4>1. n + 1 \in 1 .. created /\ n \in 1 .. created /\ e \in 1 .. created
        BY <3>2, SpanFacts
      <4>2. /\ seq[n] # 0 /\ time[n] <= w /\ w < time[n + 1]
            /\ time[n] \in Nat /\ time[e] \in Nat /\ time[n + 1] \in Nat
        BY <3>3, <4>1, SpanFacts DEF Asked
      <4>3. n < e
        <5>1. n # e
          BY <3>1, <4>2
        <5>2. ~(n > e)
          BY <1>3, <3>2, <4>2 DEF FoundDown
        <5> QED BY <5>1, <5>2
      <4>4. CASE e = at[c]
        BY <1>2, <4>3, <4>4
      <4>5. CASE seq[e - 1] = 0 /\ ~(time[e - 1] > w)
        <5>1. n + 1 < e
          BY <4>2, <4>3, <4>5
        <5>2. e - 1 \in 1 .. created /\ time[e - 1] \in Nat
          BY <4>1, <5>1, SpanFacts
        <5>3. n + 1 = e - 1 \/ time[n + 1] < time[e - 1]
          BY <4>1, <5>1, <5>2 DEF SpanInv, TimesUp
        <5> QED BY <4>2, <4>5, <5>2, <5>3
      <4>6. CASE seq[e - 1] = 0 /\ e - 2 = at[c] /\ time[e - 2] > w
        <5>1. n # e - 1 /\ n # e - 2
          BY <4>2, <4>6
        <5> QED BY <1>2, <4>3, <4>6, <5>1
      <4> QED BY <3>1, <4>4, <4>5, <4>6
    <3>4. \A n \in 1 .. loc[c].from : Asked(c, n)' => Asked(c, n)
      BY <2>1 DEF Asked
    <3> QED BY <2>1, <3>2, <3>3, <3>4 DEF NothingFound
  <2> QED BY <2>1, <2>3, <2>4 DEF ServedOf
<1> QED BY <1>4, <1>5

\* a node that is not there any more, or is about to go, was given up before
LEMMA NotCountedGivenUp ==
  ASSUME IInv, NEW c \in Clients, ServedFacts(c), pc[c] = "take", at[c] <= oldest,
         Deleted(loc[c].ed) \/ ra[loc[c].ed] = 0, 1 <= loc[c].ed
  PROVE  loc[c].ed < oldest
<1> DEFINE e == loc[c].ed
<1> USE DEF ServedFacts
<1>1. cleanup <= at[c] /\ e <= created
  BY ClientFacts DEF HoldOf, Present, Anchored
<1>2. CASE Deleted(e)
  BY <1>1, <1>2 DEF Deleted
<1>3. CASE ~Deleted(e) /\ ra[e] = 0
  <2>1. e \in cleanup .. created
    BY <1>1, <1>3 DEF Deleted
  <2>2. Users(at, e) \in Nat /\ Users(nx, e) \in Nat /\ Latch(e) \in Nat
    BY UsersNat DEF Latch
  <2>3. Deleting(e)
    BY <1>3, <2>1, <2>2 DEF IInv, AccessCounted, Accesses
  <2> QED BY <2>3 DEF Deleting, IInv, WriterInv
<1> QED BY <1>2, <1>3

LEMMA ServedTakes ==
  ASSUME IInv, SpanInv, NEW c \in Clients, ServedOf(c), ServedFacts(c),
         SearchOf(c), GetData(c)
  PROVE  ServedOf(c)'
<1> DEFINE e == loc[c].ed
           w == loc[c].want
<1> USE DEF ServedFacts
<1>1. pc[c] = "take" /\ pc'[c] = "unlock" /\ UNCHANGED <<at, loc>>
  BY DEF GetData, Goto
<1>2. LockedOldest(c) /\ at[c] <= oldest /\ loc[c].op = "timed"
  BY <1>1 DEF ServedOf, LockedOldest
<1>3. FoundDown(c, e) /\ ~(time[e] > w)
  BY <1>1, <1>2 DEF SearchOf
<1>4. e \in 1 .. loc[c].from /\ loc[c].from < latest
  BY <1>3 DEF FoundDown
<1>5. LockedOldest(c)'
  BY <1>1, <1>2 DEF LockedOldest
<1>6. ASSUME nx'[c] = None
      PROVE  NothingFound(c)'
  <2>1. Deleted(e) \/ ra[e] = 0
    BY <1>4, <1>6 DEF GetData, None
  <2>2. e < oldest
    BY <1>1, <1>2, <1>4, <2>1, NotCountedGivenUp
  <2>3. ASSUME NEW n \in 1 .. loc[c].from, Asked(c, n)
        PROVE  n = e
    <3>1. n + 1 \in 1 .. created /\ n \in 1 .. created /\ e \in 1 .. created
      BY <1>4, SpanFacts
    <3>2. /\ seq[n] # 0 /\ time[n] <= w /\ w < time[n + 1]
          /\ time[n] \in Nat /\ time[e] \in Nat /\ time[n + 1] \in Nat
      BY <2>3, <3>1, SpanFacts DEF Asked
    <3>3. ~(n > e)
      BY <1>3, <1>4, <3>2 DEF FoundDown
    <3>4. ~(n < e)
      <4>1. SUFFICES ASSUME n < e PROVE FALSE
        OBVIOUS
      <4>2. n + 1 = e \/ time[n + 1] < time[e]
        BY <3>1, <4>1 DEF SpanInv, TimesUp
      <4> QED BY <1>3, <3>2, <4>2
    <3> QED BY <1>4, <3>3, <3>4
  <2>4. \A n \in 1 .. loc[c].from : Asked(c, n)' => Asked(c, n)
    BY <1>1 DEF Asked
  <2> QED BY <1>1, <1>4, <2>2, <2>3, <2>4 DEF NothingFound
<1> QED BY <1>5, <1>6 DEF ServedOf

LEMMA NextServed ==
  ASSUME IInv, IInv', ChainInv, ChainGrows, DepthInv, SpanInv, HistoryGrows,
         SearchInv, ServedInv, [Next]_vars
  PROVE  ServedInv'
<1> SUFFICES ASSUME NEW d \in TimedClients PROVE ServedOf(d)'
  BY DEF ServedInv
<1>0. d \in Clients /\ ServedOf(d) /\ SearchOf(d) /\ d \notin Monitors
  BY EntryAssumption DEF ServedInv, SearchInv, Clients
<1>1. CASE UNCHANGED clientVars
  BY <1>0, <1>1, ServedWhileGrowing DEF clientVars
<1>2. CASE \E c \in SeqClients : SequentialStep(c)
  <2>1. PICK c \in SeqClients : SequentialStep(c)
    BY <1>2
  <2>2. c # d /\ c \in Clients
    BY EntryAssumption DEF Clients
  <2> QED BY <1>0, <2>1, <2>2, OthersStay, ServedWhileGrowing
<1>3. CASE \E c \in TimedClients \cup Monitors : TimedStep(c)
  <2>1. PICK c \in TimedClients \cup Monitors : TimedStep(c)
    BY <1>3
  <2>2. CASE c # d
    BY <1>0, <2>1, <2>2, OthersStay, ServedWhileGrowing DEF Clients
  <2>3. CASE c = d
    <3>1. TimedStep(d) /\ ServedFacts(d)
      BY <1>0, <2>1, <2>3, ServedStays
    <3> QED BY <1>0, <3>1, ServedLocks, ServedBegins, ServedWalks, ServedTakes
            DEF TimedStep
  <2> QED BY <2>2, <2>3
<1> QED BY <1>1, <1>2, <1>3, OwnSteps

StreamInv == IInv /\ ChainInv /\ DepthInv /\ SpanInv /\ SearchInv /\ ServedInv

LEMMA NextStream ==
  ASSUME DataStays, ~EventType, StreamInv, [Next]_vars
  PROVE  StreamInv'
<1>1. CarefulOps
  BY DEF DataStays, CarefulOps
<1>2. IInv'
  BY <1>1, NextIInv DEF StreamInv
<1>3. ChainInv' /\ ChainGrows
  BY <1>2, NextChain DEF StreamInv
<1>4. DepthInv'
  BY <1>2, <1>3, NextDepth DEF StreamInv
<1>5. SpanInv' /\ HistoryGrows
  BY <1>2, NextSpan DEF StreamInv
<1>6. SearchInv'
  BY <1>2, <1>3, NextSearch DEF StreamInv
<1>7. ServedInv'
  BY <1>2, <1>3, <1>5, NextServed DEF StreamInv
<1> QED BY <1>2, <1>3, <1>4, <1>5, <1>6, <1>7 DEF StreamInv

LEMMA ServedFollows ==
  ASSUME StreamInv
  PROVE  TimedServed
<1> SUFFICES ASSUME NEW c \in TimedClients, pc[c] = "unlock", nx[c] = None,
                    NEW n \in 1 .. loc[c].from, seq[n] # 0, time[n] + Span >= start,
                    time[n] <= loc[c].want, loc[c].want < time[n + 1]
             PROVE  FALSE
  BY DEF TimedServed
<1>1. NothingFound(c) /\ Asked(c, n)
  BY DEF StreamInv, ServedInv, ServedOf, Asked
<1>2. n < oldest
  BY <1>1 DEF NothingFound
<1>3. n \in 1 .. (oldest - 1) /\ n \in 0 .. created
  BY <1>2, SpanFacts DEF StreamInv
<1>4. time[n] + Span < start
  BY <1>3 DEF StreamInv, SpanInv, GivenUp
<1> QED BY <1>3, <1>4, SpanFacts DEF StreamInv

(* For stream data that nobody takes out of the channel: a timed read      *)
(* comes back without data only when no data was valid at the requested    *)
(* time, or that data started more than `span` ago, and `depth` points     *)
(* stay within reach, whatever readers and writer do meanwhile.            *)
THEOREM HistoryIsKept ==
  ASSUME DataStays, ~EventType
  PROVE  Spec => []HistoryKept
<1>1. Init => StreamInv
  <2>1. Init => SearchInv /\ ServedInv
    BY DEF Init, SearchInv, SearchOf, ServedInv, ServedOf, LockedOldest, Clients
  <2> QED BY <2>1, InitIInv, InitChain, InitDepth, InitSpan DEF StreamInv
<1>2. StreamInv => HistoryKept
  BY ServedFollows, DepthFollows DEF StreamInv, HistoryKept
<1> QED BY <1>1, <1>2, NextStream, PTL DEF Spec

=============================================================================
