------------------------- MODULE UChannelReadProofs --------------------------
(***************************************************************************)
(* Theorems about what the readers of UChannelEntry get, on top of the     *)
(* counting proved in UChannelEntryProofs: a sequential client gets every  *)
(* point, a timed client the right one, and, for event data, none of them  *)
(* meets a deleted node.                                                   *)
(***************************************************************************)
EXTENDS UChannelEntryProofs

-----------------------------------------------------------------------------
(* The sequence numbers along the chain.                                   *)

\* The number a reader at node n comes to: that of the node, or for a gap the
\* one of the node behind it, which the writer still has to add.
Id(n) == IF seq[n] # 0 THEN seq[n] ELSE IF n = created THEN wseq ELSE seq[n + 1]

ChainEnds  == seq[0] = 0 /\ seq[1] = 1
GapsApart  == \A n \in 0 .. (created - 1) : seq[n] = 0 => seq[n + 1] # 0
IdsInOrder ==
  \A n \in 0 .. (created - 1) :
    /\ seq[n] = 0 => Id(n + 1) = Id(n)
    /\ seq[n] # 0 => Id(n + 1) = Id(n) + 1

\* the gap the writer is making, and the number it goes on with
GapInHand ==
  /\ seq[created] = 0 <=> wpc = "gapLink"
  /\ wpc \in Before \ {"gapLink"} => wseq = seq[created]
  /\ wpc \in {"gapReset", "gapLink"} => wseq \notin {0, 1} /\ ~EventType
  /\ wpc # "link" /\ created > 1 => seq[created - 1] # 0

\* where there is data
DataPlaces ==
  /\ \A n \in Nodes : full[n] => n <= created /\ seq[n] # 0
  /\ wpc # "link" => ~full[created]

EventsHaveNoGap == EventType => \A n \in 1 .. created : seq[n] # 0

ChainInv == ChainEnds /\ GapsApart /\ IdsInOrder /\ GapInHand /\ DataPlaces
              /\ EventsHaveNoGap

\* what the writer's steps need of the types
LEMMA ChainFacts ==
  ASSUME IInv
  PROVE  /\ created \in Nat /\ latest \in Nat /\ created >= 1 /\ latest <= created
         /\ wpc \notin {"link", "publish"} => created = latest
         /\ \A n \in 0 .. created : n \in Nodes
         /\ 0 \in Nodes /\ 1 \in Nodes /\ created \in Nodes
         /\ Nodes \subseteq Nat
         /\ seq \in [Nodes -> Nat] /\ full \in [Nodes -> BOOLEAN]
         /\ time \in [Nodes -> Nat] /\ wseq \in Nat
         /\ wpc \in Before \cup {"idle", "link", "publish", "notify", "cleanAll",
                                 "cleaned"}
<1>1. /\ created \in Nodes /\ latest \in Nodes /\ seq \in [Nodes -> Nat]
      /\ full \in [Nodes -> BOOLEAN] /\ time \in [Nodes -> Nat] /\ wseq \in Nat
  BY DEF IInv, TypeOK
<1>2. created >= 1 /\ latest <= created
  BY <1>1, EntryAssumption DEF IInv, WriterInv, Nodes, TypeOK
<1>3. wpc \notin {"link", "publish"} => created = latest
  BY DEF IInv, WriterInv
<1>4. wpc \in Before \cup {"idle", "link", "publish", "notify", "cleanAll",
                           "cleaned"}
  BY TypeOfWriter DEF IInv, WriterType
<1> QED BY <1>1, <1>2, <1>3, <1>4, EntryAssumption DEF Nodes

\* a step that does not touch the chain, apart from data that is taken
SameChain ==
  /\ UNCHANGED <<time, seq, created>>
  /\ \A n \in Nodes : full'[n] => full[n]

LEMMA ClientLeavesChain ==
  ASSUME IInv, NEW c \in Clients, SequentialStep(c) \/ TimedStep(c)
  PROVE  SameChain
<1>0. full \in [Nodes -> BOOLEAN] /\ at \in [Clients -> Nodes \cup {None}]
  BY DEF IInv, TypeOK
<1>1. CASE SequentialStep(c)
  <2>1. CASE StartLock(c, "latch") \/ LoadOldest(c) \/ GetAccess(c) \/ Detach(c)
    BY <2>1 DEF StartLock, LoadOldest, GetAccess, Detach, SameChain, chainVars
  <2>2. CASE AccessData(c) \/ FlushOne(c) \/ FlushAll(c) \/ SpinToLast(c)
               \/ \E t \in Times : SpinToTime(c, t)
    BY <2>2 DEF AccessData, FlushOne, FlushAll, SpinToLast, SpinToTime, Begin,
                SameChain, chainVars
  <2>3. CASE SkipGap(c) \/ ReleasePrevious(c) \/ (\E t \in Times : LookForData(c, t))
    BY <2>3 DEF SkipGap, ReleasePrevious, LookForData, SameChain, chainVars
  <2>4. CASE ReleaseDataNoStep(c) \/ ReleaseData(c) \/ FlushTo(c) \/ SpinBack(c)
    BY <2>4 DEF ReleaseDataNoStep, ReleaseData, FlushTo, SpinBack, SameChain,
                chainVars
  <2>5. CASE ReleaseOnlyAccess(c)
    <3>1. UNCHANGED <<time, seq, created>> /\ full' = [full EXCEPT ![at[c]] = FALSE]
      BY <2>5 DEF ReleaseOnlyAccess
    <3>2. \A n \in Nodes : full'[n] => full[n]
      BY <1>0, <3>1
    <3> QED BY <3>1, <3>2 DEF SameChain
  <2> QED BY <1>1, <2>1, <2>2, <2>3, <2>4, <2>5 DEF SequentialStep
<1>2. CASE TimedStep(c)
  BY <1>2 DEF TimedStep, StartLock, LoadOldest, GetAccess, FindLatest, WalkBack,
              GetData, Unlock, ReturnData, SameChain, chainVars
<1> QED BY <1>1, <1>2

\* what a step may do to nodes that are there: a gap is only ever made of the
\* newest node, and keeps the number a reader comes to
ChainGrows ==
  /\ created <= created' /\ latest <= latest'
  /\ \A n \in 0 .. created : Id(n)' = Id(n)
  /\ \A n \in 0 .. (created - 1) : seq'[n] = seq[n]
  /\ \A n \in 0 .. (latest - 1) : time'[n] = time[n]

LEMMA SameChainInv ==
  ASSUME IInv, ChainInv, SameChain, latest' >= latest,
         \/ UNCHANGED wpc
         \/ wpc \notin {"link", "gapLink"} /\ wpc' \notin {"link"} \cup Before
         \/ wpc \in {"clean", "delete"} /\ wpc' \in {"clean", "delete", "shift"},
         wpc \in Before => wseq' = wseq
  PROVE  ChainInv' /\ ChainGrows
<1> USE ChainFacts DEF SameChain
<1>1. \A n \in 0 .. created : Id(n)' = Id(n)
  BY DEF ChainInv, GapInHand, Id, Before
<1>2. ChainEnds' /\ GapsApart' /\ EventsHaveNoGap'
  BY DEF ChainInv, ChainEnds, GapsApart, EventsHaveNoGap
<1>3. IdsInOrder'
  BY <1>1 DEF ChainInv, IdsInOrder
<1>4. GapInHand'
  BY DEF ChainInv, GapInHand, Before
<1>5. DataPlaces'
  BY DEF ChainInv, DataPlaces, Before
<1> QED BY <1>1, <1>2, <1>3, <1>4, <1>5 DEF ChainInv, ChainGrows

\* a write begins: the number is read
LEMMA NewDataChain ==
  ASSUME IInv, ChainInv, NEW t, NEW length, NewData(t, length)
  PROVE  ChainInv' /\ ChainGrows
<1>1. /\ UNCHANGED <<time, seq, full, created, latest>> /\ wpc = "idle"
      /\ wpc' = "clean" /\ wseq' = seq[latest]
  BY DEF NewData, chainVars
<1> USE <1>1, ChainFacts
<1>2. \A n \in 0 .. created : Id(n)' = Id(n)
  BY DEF ChainInv, GapInHand, Id
<1>3. ChainEnds' /\ GapsApart' /\ EventsHaveNoGap' /\ DataPlaces'
  BY DEF ChainInv, ChainEnds, GapsApart, EventsHaveNoGap, DataPlaces
<1>4. IdsInOrder'
  BY <1>2 DEF ChainInv, IdsInOrder
<1>5. GapInHand'
  BY DEF ChainInv, GapInHand, Before
<1> QED BY <1>2, <1>3, <1>4, <1>5 DEF ChainInv, ChainGrows

\* the writer finds which case it is
LEMMA ShiftOldestChain ==
  ASSUME IInv, ChainInv, ShiftOldest
  PROVE  ChainInv' /\ ChainGrows
<1>1. /\ UNCHANGED <<time, seq, full, created, latest, wseq>> /\ wpc = "shift"
      /\ wpc' \in {"shift", "fill", "gapReset", "idle"}
      /\ wpc' = "gapReset" => ~EventType /\ wseq # 1
  BY DEF ShiftOldest, chainVars
<1> USE <1>1, ChainFacts
<1>2. \A n \in 0 .. created : Id(n)' = Id(n)
  BY DEF ChainInv, GapInHand, Id
<1>3. ChainEnds' /\ GapsApart' /\ EventsHaveNoGap' /\ DataPlaces'
  BY DEF ChainInv, ChainEnds, GapsApart, EventsHaveNoGap, DataPlaces
<1>4. IdsInOrder'
  BY <1>2 DEF ChainInv, IdsInOrder
<1>5. GapInHand'
  BY DEF ChainInv, GapInHand, Before
<1> QED BY <1>2, <1>3, <1>4, <1>5 DEF ChainInv, ChainGrows

LEMMA FillLatestChain ==
  ASSUME IInv, ChainInv, FillLatest
  PROVE  ChainInv' /\ ChainGrows
<1>1. /\ UNCHANGED <<seq, created, latest, wseq>> /\ wpc = "fill" /\ wpc' = "link"
      /\ full' = [full EXCEPT ![latest] = TRUE]
      /\ time' = time \/ time' = [time EXCEPT ![latest] = start]
  BY DEF FillLatest
<1>2. created = latest /\ latest \in Nodes /\ seq[latest] # 0
  BY <1>1, ChainFacts DEF ChainInv, GapInHand
<1>3. \A n \in Nodes : full'[n] => n = latest \/ full[n]
  BY <1>1, <1>2, ChainFacts
<1>4. \A n \in 0 .. (latest - 1) : time'[n] = time[n]
  BY <1>1, <1>2, ChainFacts
<1> USE ChainFacts
<1>5. \A n \in 0 .. created : Id(n)' = Id(n)
  BY <1>1, <1>2 DEF ChainInv, GapInHand, Id
<1>6. ChainEnds' /\ GapsApart' /\ EventsHaveNoGap'
  BY <1>1 DEF ChainInv, ChainEnds, GapsApart, EventsHaveNoGap
<1>7. IdsInOrder'
  BY <1>1, <1>5 DEF ChainInv, IdsInOrder
<1>8. GapInHand'
  BY <1>1, <1>2 DEF ChainInv, GapInHand, Before
<1>9. DataPlaces'
  BY <1>1, <1>2, <1>3 DEF ChainInv, DataPlaces
<1> QED BY <1>1, <1>4, <1>5, <1>6, <1>7, <1>8, <1>9 DEF ChainInv, ChainGrows

\* The newest node becomes a gap.  It is not the first, and the node before it
\* is not a gap.
LEMMA ResetSeqIdChain ==
  ASSUME IInv, ChainInv, ResetSeqId
  PROVE  ChainInv' /\ ChainGrows
<1>1. /\ UNCHANGED <<time, full, created, latest, wseq>> /\ wpc = "gapReset"
      /\ wpc' = "gapLink" /\ seq' = [seq EXCEPT ![latest] = 0]
  BY DEF ResetSeqId
<1>2. /\ created = latest /\ wseq = seq[created] /\ wseq \notin {0, 1}
      /\ ~EventType
  BY <1>1, ChainFacts DEF ChainInv, GapInHand, Before
<1>3. created > 1 /\ seq[created - 1] # 0
  BY <1>1, <1>2, ChainFacts DEF ChainInv, GapInHand, ChainEnds
<1>4. seq'[created] = 0 /\ \A n \in Nodes : n # created => seq'[n] = seq[n]
  BY <1>1, <1>2, ChainFacts
<1> USE ChainFacts
<1>5. \A n \in 0 .. created : Id(n)' = Id(n)
  <2> SUFFICES ASSUME NEW n \in 0 .. created
               PROVE  Id(n)' = Id(n)
    OBVIOUS
  <2>1. CASE n = created
    BY <1>1, <1>2, <1>4, <2>1 DEF Id
  <2>2. CASE n = created - 1
    BY <1>1, <1>3, <1>4, <2>2 DEF Id
  <2>3. CASE n < created - 1
    BY <1>1, <1>4, <2>3 DEF Id
  <2> QED BY <2>1, <2>2, <2>3
<1>6. ChainEnds' /\ GapsApart' /\ EventsHaveNoGap'
  BY <1>1, <1>2, <1>3, <1>4 DEF ChainInv, ChainEnds, GapsApart, EventsHaveNoGap
<1>7. IdsInOrder'
  BY <1>1, <1>4, <1>5 DEF ChainInv, IdsInOrder
<1>8. GapInHand'
  BY <1>1, <1>2, <1>3, <1>4 DEF ChainInv, GapInHand, Before
<1>9. DataPlaces'
  BY <1>1, <1>4 DEF ChainInv, DataPlaces
<1> QED BY <1>1, <1>4, <1>5, <1>6, <1>7, <1>8, <1>9 DEF ChainInv, ChainGrows

\* A node is added: behind a gap with the number held back, behind data with
\* the next number.
LEMMA LinkChain ==
  ASSUME IInv, ChainInv, IInv', LinkGapData \/ LinkSentinel
  PROVE  ChainInv' /\ ChainGrows
<1> DEFINE new == created + 1
<1>1. /\ UNCHANGED <<latest, wseq>> /\ created' = new
      /\ LinkGapData => wpc = "gapLink" /\ wpc' = "link"
                          /\ seq' = [seq EXCEPT ![new] = wseq]
                          /\ full' = [full EXCEPT ![new] = TRUE]
                          /\ time' = [time EXCEPT ![new] = start]
      /\ LinkSentinel => wpc = "link" /\ wpc' = "publish" /\ full' = full
                          /\ seq' = [seq EXCEPT ![new] = seq[created] + 1]
                          /\ time' = [time EXCEPT ![new] = IF EventType THEN 0 ELSE end]
  BY DEF LinkGapData, LinkSentinel
<1>2. new \in Nodes /\ new \in Nat
  BY <1>1, EntryAssumption DEF IInv, TypeOK, Nodes
<1>3. \A n \in Nodes : n # new => seq'[n] = seq[n] /\ time'[n] = time[n]
  BY <1>1, <1>2, ChainFacts
<1>4. \/ /\ wpc = "gapLink" /\ wpc' = "link" /\ seq'[new] = wseq /\ seq[created] = 0
         /\ wseq # 0 /\ ~EventType
      \/ /\ wpc = "link" /\ wpc' = "publish" /\ seq'[new] = seq[created] + 1
         /\ seq[created] # 0
  BY <1>1, <1>2, ChainFacts DEF ChainInv, GapInHand
<1>5. /\ \A n \in Nodes : full'[n] => full[n] \/ n = new
      /\ wpc' = "publish" => \A n \in Nodes : full'[n] => full[n]
  BY <1>1, <1>2, ChainFacts
<1> HIDE DEF new
<1>6. new = created + 1 /\ created' = new /\ wseq' = wseq /\ latest' = latest
  BY <1>1 DEF new
<1> USE ChainFacts
<1>7. \A n \in 0 .. created : Id(n)' = Id(n)
  <2> SUFFICES ASSUME NEW n \in 0 .. created
               PROVE  Id(n)' = Id(n)
    OBVIOUS
  <2>1. CASE n = created
    BY <1>2, <1>3, <1>4, <1>6, <2>1 DEF Id
  <2>2. CASE n < created
    BY <1>2, <1>3, <1>6, <2>2 DEF Id
  <2> QED BY <2>1, <2>2
<1>8. ChainEnds' /\ GapsApart' /\ EventsHaveNoGap'
  BY <1>2, <1>3, <1>4, <1>6 DEF ChainInv, ChainEnds, GapsApart, EventsHaveNoGap
<1>9. IdsInOrder'
  <2> SUFFICES ASSUME NEW n \in 0 .. created
               PROVE  /\ seq'[n] = 0 => Id(n + 1)' = Id(n)'
                      /\ seq'[n] # 0 => Id(n + 1)' = Id(n)' + 1
    BY <1>6 DEF IdsInOrder
  <2>1. CASE n = created
    <3>1. Id(n + 1)' = seq'[new] /\ Id(n)' = Id(n) /\ seq'[n] = seq[n]
      BY <1>2, <1>3, <1>4, <1>6, <1>7, <2>1 DEF Id
    <3>2. Id(n) = IF seq[n] # 0 THEN seq[n] ELSE wseq
      BY <2>1 DEF Id
    <3> QED BY <1>4, <2>1, <3>1, <3>2
  <2>2. CASE n < created
    BY <1>3, <1>6, <1>7, <2>2 DEF ChainInv, IdsInOrder
  <2> QED BY <2>1, <2>2
<1>10. GapInHand'
  BY <1>2, <1>3, <1>4, <1>6 DEF ChainInv, GapInHand, Before
<1>11. DataPlaces'
  BY <1>2, <1>3, <1>4, <1>5, <1>6 DEF ChainInv, DataPlaces
<1> QED BY <1>3, <1>6, <1>7, <1>8, <1>9, <1>10, <1>11 DEF ChainInv, ChainGrows

LEMMA InitChain == Init => ChainInv
<1> SUFFICES ASSUME Init PROVE ChainInv
  OBVIOUS
<1>1. /\ created = 1 /\ wpc = "idle" /\ seq[0] = 0 /\ seq[1] = 1
      /\ \A n \in Nodes : ~full[n]
  BY EntryAssumption DEF Init, Nodes
<1> QED BY <1>1, EntryAssumption DEF ChainInv, ChainEnds, GapsApart, IdsInOrder, GapInHand,
            DataPlaces, EventsHaveNoGap, Id, Before, Nodes

LEMMA NextChain ==
  ASSUME IInv, IInv', ChainInv, [Next]_vars
  PROVE  ChainInv' /\ ChainGrows
<1> USE ChainFacts
<1>1. CASE WriterStep
  <2>1. CASE \E t \in Starts, length \in Lengths : NewData(t, length)
    BY <2>1, NewDataChain
  <2>2. CASE TryRecycle \/ DeleteNode
    BY <2>2, SameChainInv DEF TryRecycle, DeleteNode, SameChain, chainVars
  <2>3. CASE PublishLatest \/ Notify
    BY <2>3, SameChainInv DEF PublishLatest, Notify, SameChain, chainVars, Before
  <2> QED BY <1>1, <2>1, <2>2, <2>3, ShiftOldestChain, FillLatestChain,
             ResetSeqIdChain, LinkChain DEF WriterStep
<1>2. CASE RemoveSaveUp \/ ResetValid \/ CleanEntry \/ FinalDelete
  BY <1>2, SameChainInv DEF RemoveSaveUp, ResetValid, CleanEntry, FinalDelete,
       SameChain, chainVars, writeVars, Before
<1>3. CASE \E c \in Clients : SequentialStep(c) \/ TimedStep(c)
  BY <1>3, SameChainInv, ClientLeavesChain, ClientLeavesWriter DEF writerPart
<1>4. CASE UNCHANGED vars
  BY <1>4, SameChainInv DEF vars, SameChain
<1> QED BY <1>1, <1>2, <1>3, <1>4, StepCases

\* A step of one client leaves the others where they are.
LEMMA OthersStay ==
  ASSUME NEW c \in Clients, SequentialStep(c) \/ TimedStep(c), NEW d \in Clients,
         d # c, IInv
  PROVE  /\ pc'[d] = pc[d] /\ at'[d] = at[d] /\ nx'[d] = nx[d] /\ loc'[d] = loc[d]
         /\ last'[d] = last[d]
<1>0. /\ pc \in [Clients -> Places] /\ loc \in [Clients -> Locals]
      /\ at \in [Clients -> Nodes \cup {None}]
      /\ nx \in [Clients -> Nodes \cup {None}] /\ last \in [Clients -> Nat]
  BY DEF IInv, TypeOK, Places
<1>1. CASE SequentialStep(c)
  <2>1. CASE StartLock(c, "latch") \/ LoadOldest(c) \/ GetAccess(c) \/ Detach(c)
    BY <1>0, <2>1 DEF StartLock, LoadOldest, GetAccess, Detach, Goto
  <2>2. CASE AccessData(c) \/ FlushOne(c) \/ FlushAll(c) \/ SpinToLast(c)
               \/ \E t \in Times : SpinToTime(c, t)
    BY <1>0, <2>2 DEF AccessData, FlushOne, FlushAll, SpinToLast, SpinToTime, Begin
  <2>3. CASE SkipGap(c) \/ ReleasePrevious(c) \/ (\E t \in Times : LookForData(c, t))
    BY <1>0, <2>3 DEF SkipGap, ReleasePrevious, LookForData, CountNode, Goto
  <2>4. CASE ReleaseDataNoStep(c) \/ ReleaseData(c) \/ ReleaseOnlyAccess(c) \/ FlushTo(c)
    BY <1>0, <2>4 DEF ReleaseDataNoStep, ReleaseData, ReleaseOnlyAccess, FlushTo,
                      CountNode, Goto
  <2>5. CASE SpinBack(c)
    BY <1>0, <2>5 DEF SpinBack, Goto
  <2> QED BY <1>1, <2>1, <2>2, <2>3, <2>4, <2>5 DEF SequentialStep
<1>2. CASE TimedStep(c)
  <2>1. CASE StartLock(c, "timed") \/ StartLock(c, "monitor") \/ LoadOldest(c)
               \/ GetAccess(c) \/ GetData(c) \/ Unlock(c) \/ ReturnData(c)
    BY <1>0, <2>1 DEF StartLock, LoadOldest, GetAccess, GetData, Unlock, ReturnData,
                      Goto
  <2>2. CASE \E t \in Times : FindLatest(c, t)
    BY <1>0, <2>2 DEF FindLatest
  <2>3. CASE WalkBack(c)
    BY <1>0, <2>3 DEF WalkBack
  <2> QED BY <1>2, <2>1, <2>2, <2>3 DEF TimedStep
<1> QED BY <1>1, <1>2

-----------------------------------------------------------------------------
(* A client that joins while data is saved up.                             *)

\* AccessLockOldest has loaded the first node, which the latch is on
LatchedOf(c) == saveup # "NoSaveUp" /\ pc[c] = "grab" => loc[c].ed = 1
LatchedInv   == \A c \in Clients : LatchedOf(c)

LEMMA LoadOldestLatched ==
  ASSUME IInv, NEW c \in Clients, LoadOldest(c)
  PROVE  LatchedOf(c)'
<1>1. loc'[c].ed = oldest
  <2>1. loc \in [Clients -> Locals] /\ loc' = [loc EXCEPT ![c].ed = oldest]
    BY DEF IInv, TypeOK, LoadOldest
  <2> QED BY <2>1 DEF Locals
<1>2. saveup' = saveup
  BY DEF LoadOldest, configVars
<1> QED BY <1>1, <1>2 DEF IInv, SaveInv, LatchedOf

\* every other step of a client leaves "grab", or stays there with what it loaded
LEMMA GrabOnlyByLoad ==
  ASSUME IInv, NEW c \in Clients, SequentialStep(c) \/ TimedStep(c),
         NEW d \in Clients
  PROVE  \/ LoadOldest(c) /\ d = c
         \/ pc'[d] # "grab"
         \/ pc'[d] = pc[d] /\ loc'[d] = loc[d]
<1>0. pc \in [Clients -> Places] /\ loc \in [Clients -> Locals]
  BY DEF IInv, TypeOK, Places
<1>1. CASE SequentialStep(c)
  <2>1. CASE StartLock(c, "latch") \/ GetAccess(c) \/ Detach(c)
    BY <1>0, <2>1 DEF StartLock, GetAccess, Detach, Goto
  <2>2. CASE AccessData(c) \/ FlushOne(c) \/ FlushAll(c) \/ SpinToLast(c)
               \/ \E t \in Times : SpinToTime(c, t)
    BY <1>0, <2>2 DEF AccessData, FlushOne, FlushAll, SpinToLast, SpinToTime, Begin
  <2>3. CASE SkipGap(c) \/ ReleasePrevious(c) \/ (\E t \in Times : LookForData(c, t))
    BY <1>0, <2>3 DEF SkipGap, ReleasePrevious, LookForData, CountNode, Goto
  <2>4. CASE ReleaseDataNoStep(c) \/ ReleaseData(c) \/ ReleaseOnlyAccess(c) \/ FlushTo(c)
    BY <1>0, <2>4 DEF ReleaseDataNoStep, ReleaseData, ReleaseOnlyAccess, FlushTo,
                      CountNode, Goto
  <2>5. CASE SpinBack(c)
    <3>1. pc[c] = "spin" /\ (pc' = pc \/ pc' = [pc EXCEPT ![c] = "go"]
                               \/ pc' = [pc EXCEPT ![c] = "ready"])
      BY <2>5 DEF SpinBack, Goto
    <3>2. \A x \in Clients : x # c => loc'[x] = loc[x]
      BY <1>0, <2>5 DEF SpinBack, Goto
    <3> QED BY <1>0, <3>1, <3>2
  <2>6. CASE LoadOldest(c)
    BY <1>0, <2>6 DEF LoadOldest
  <2> QED BY <1>1, <2>1, <2>2, <2>3, <2>4, <2>5, <2>6 DEF SequentialStep
<1>2. CASE TimedStep(c)
  <2>1. CASE StartLock(c, "timed") \/ StartLock(c, "monitor") \/ GetAccess(c)
               \/ GetData(c) \/ Unlock(c) \/ ReturnData(c)
    BY <1>0, <2>1 DEF StartLock, GetAccess, GetData, Unlock, ReturnData, Goto
  <2>2. CASE LoadOldest(c)
    BY <1>0, <2>2 DEF LoadOldest
  <2>3. CASE \E t \in Times : FindLatest(c, t)
    BY <1>0, <2>3 DEF FindLatest
  <2>4. CASE WalkBack(c)
    <3>1. Search(c)[1] \in {"fault", "take", "unlock", "walk"}
      BY DEF Search
    <3> QED BY <1>0, <2>4, <3>1 DEF WalkBack
  <2> QED BY <1>2, <2>1, <2>2, <2>3, <2>4 DEF TimedStep
<1> QED BY <1>1, <1>2

\* data is not saved up again once it was given up
LEMMA LatchOnlyGiven ==
  ASSUME [Next]_vars
  PROVE  saveup' # "NoSaveUp" => saveup # "NoSaveUp"
<1>1. CASE WriterStep
  BY <1>1 DEF WriterStep, NewData, TryRecycle, DeleteNode, ShiftOldest, FillLatest,
              ResetSeqId, LinkGapData, LinkSentinel, PublishLatest, Notify,
              configVars
<1>2. CASE RemoveSaveUp \/ ResetValid \/ CleanEntry \/ FinalDelete
  BY <1>2 DEF RemoveSaveUp, ResetValid, CleanEntry, FinalDelete, configVars
<1>3. CASE \E c \in Clients : SequentialStep(c) \/ TimedStep(c)
  BY <1>3, ClientLeavesWriter DEF writerPart
<1> QED BY <1>1, <1>2, <1>3, StepCases DEF vars

\* the steps of nobody's operation
LEMMA OthersLeaveClients ==
  ASSUME \/ WriterStep \/ RemoveSaveUp \/ ResetValid \/ CleanEntry \/ FinalDelete
         \/ UNCHANGED vars
  PROVE  UNCHANGED clientVars
<1>1. CASE WriterStep
  BY <1>1 DEF WriterStep, NewData, TryRecycle, DeleteNode, ShiftOldest, FillLatest,
              ResetSeqId, LinkGapData, LinkSentinel, PublishLatest, Notify
<1> QED BY <1>1 DEF RemoveSaveUp, ResetValid, CleanEntry, FinalDelete, clientVars,
                    vars

LEMMA NextLatched ==
  ASSUME IInv, LatchedInv, [Next]_vars
  PROVE  LatchedInv'
<1> SUFFICES ASSUME NEW d \in Clients PROVE LatchedOf(d)'
  BY DEF LatchedInv
<1>1. LatchedOf(d)
  BY DEF LatchedInv
<1>2. CASE UNCHANGED clientVars
  BY <1>1, <1>2, LatchOnlyGiven DEF clientVars, LatchedOf
<1>3. CASE \E c \in Clients : SequentialStep(c) \/ TimedStep(c)
  <2>1. PICK c \in Clients : SequentialStep(c) \/ TimedStep(c)
    BY <1>3
  <2>2. CASE LoadOldest(c) /\ d = c
    BY <2>2, LoadOldestLatched
  <2>3. CASE pc'[d] # "grab"
    BY <2>3 DEF LatchedOf
  <2>4. CASE pc'[d] = pc[d] /\ loc'[d] = loc[d]
    BY <1>1, <2>4, LatchOnlyGiven DEF LatchedOf
  <2> QED BY <2>1, <2>2, <2>3, <2>4, GrabOnlyByLoad
<1> QED BY <1>2, <1>3, StepCases, OthersLeaveClients

\* a client comes from "grab" to "ready" only by counting the node it loaded
LEMMA JoinsWhereLoaded ==
  ASSUME IInv, [Next]_vars, NEW c \in Clients, pc[c] = "grab", pc'[c] = "ready"
  PROVE  at'[c] = loc[c].ed
<1>0. /\ pc \in [Clients -> Places] /\ loc \in [Clients -> Locals]
      /\ at \in [Clients -> Nodes \cup {None}]
  BY DEF IInv, TypeOK, Places
<1>1. CASE UNCHANGED clientVars
  BY <1>1 DEF clientVars
<1>2. CASE \E d \in Clients : SequentialStep(d) \/ TimedStep(d)
  <2>1. PICK d \in Clients : SequentialStep(d) \/ TimedStep(d)
    BY <1>2
  <2>2. CASE GetAccess(d)
    BY <1>0, <2>2 DEF GetAccess, Goto
  <2>3. CASE ~GetAccess(d) /\ d = c
    <3>1. ~LoadOldest(c) /\ ~(\E o \in {"latch", "timed", "monitor"} : StartLock(c, o))
      BY DEF LoadOldest, StartLock
    <3>2. CASE SequentialStep(c)
      BY <2>3, <3>1, <3>2 DEF SequentialStep, AccessData, FlushOne, FlushAll,
        SpinToLast, SpinToTime, Begin, SkipGap, ReleasePrevious, LookForData,
        ReleaseDataNoStep, ReleaseData, ReleaseOnlyAccess, FlushTo, SpinBack, Detach
    <3>3. CASE TimedStep(c)
      BY <2>3, <3>1, <3>3 DEF TimedStep, FindLatest, WalkBack, GetData, Unlock,
        ReturnData
    <3> QED BY <2>1, <2>3, <3>2, <3>3
  <2>4. CASE d # c
    <3>1. pc'[c] = pc[c]
      BY <2>1, <2>4, OthersStay
    <3> QED BY <3>1
  <2> QED BY <2>2, <2>3, <2>4
<1> QED BY <1>1, <1>2, StepCases, OthersLeaveClients

(* A client that joins while data is saved up starts at the first node,    *)
(* however AccessLockOldest is interleaved with the writer's cleaning.     *)
THEOREM JoinsAtFirstPoint ==
  ASSUME CarefulOps
  PROVE  Spec => SavedUpFromStart
<1>1. Init => LatchedInv
  BY DEF Init, LatchedInv, LatchedOf
<1>2. ASSUME IInv, LatchedInv, [Next]_vars
      PROVE  [\A c \in SeqClients :
                (pc[c] = "grab" /\ pc'[c] = "ready" /\ saveup # "NoSaveUp")
                  => at'[c] = 1]_vars
  BY <1>2, JoinsWhereLoaded DEF LatchedInv, LatchedOf, Clients
<1> QED BY <1>1, <1>2, InitIInv, NextIInv, NextLatched, PTL DEF Spec, SavedUpFromStart

-----------------------------------------------------------------------------
(* Sequential reading, by clients that neither flush nor spin.             *)

ReadsAll == Ops \subseteq {"keep"}

\* before the client looks for data; when it has some, or lets go of it
Looking == {"ready", "skip", "skipRelease", "go"}
Reading == {"access", "release"}

\* where the client is on the chain
PlaceOf(c) ==
  /\ pc[c] \in Reading => seq[at[c]] # 0
  /\ pc[c] = "skipRelease" => seq[at[c]] = 0
  /\ pc[c] \in {"skipRelease", "release"} => nx[c] = at[c] + 1
  /\ pc[c] \in Reading \cup {"skipRelease"} => at[c] < created
  /\ pc[c] \in {"skip", "skipRelease", "go"} => loc[c].op = "read"

\* what it has read last is this point, or the one before it
NumberOf(c) ==
  last[c] # 0 =>
    /\ pc[c] \in Looking => last[c] = Id(at[c]) \/ last[c] = Id(at[c]) - 1
    /\ pc[c] \in Reading => last[c] = Id(at[c])

ReadInv == \A c \in SeqClients : PlaceOf(c) /\ NumberOf(c)

\* the client stands still while the chain grows
LEMMA ReadWhileGrowing ==
  ASSUME IInv, ChainGrows, NEW c \in Clients, PlaceOf(c), NumberOf(c), IInv',
         pc'[c] = pc[c], at'[c] = at[c], nx'[c] = nx[c], loc'[c] = loc[c],
         last'[c] = last[c]
  PROVE  PlaceOf(c)' /\ NumberOf(c)'
<1>1. pc[c] \in Looking \cup Reading => at[c] \in 0 .. created
  BY ClientFacts DEF HoldOf, Present, Anchored, Looking, Reading
<1>2. created \in Nat /\ created' \in Nat /\ created <= created'
  BY EntryAssumption DEF IInv, TypeOK, Nodes, ChainGrows
<1>3. PlaceOf(c)'
  BY <1>1, <1>2 DEF PlaceOf, ChainGrows, Looking, Reading
<1>4. CASE pc[c] \in Looking \cup Reading
  <2>1. Id(at[c])' = Id(at[c])
    BY <1>1, <1>4 DEF ChainGrows, Id
  <2> QED BY <1>3, <2>1 DEF NumberOf
<1>5. CASE pc[c] \notin Looking \cup Reading
  BY <1>3, <1>5 DEF NumberOf
<1> QED BY <1>4, <1>5

\* facts about the client that takes a step
LEMMA ReaderFacts ==
  ASSUME IInv, NEW c \in Clients, pc[c] \in Looking \cup Reading
  PROVE  /\ at[c] \in 0 .. created /\ at[c] \in Nodes
         /\ created \in Nat /\ seq \in [Nodes -> Nat] /\ wseq \in Nat
         /\ last \in [Clients -> Nat] /\ pc \in [Clients -> Places]
         /\ at \in [Clients -> Nodes \cup {None}] /\ Nodes \subseteq Nat
         /\ nx \in [Clients -> Nodes \cup {None}] /\ loc \in [Clients -> Locals]
<1>1. ClientType /\ HoldOf(c) /\ created \in Nodes /\ Nodes \subseteq Nat
      /\ cleanup \in Nat /\ seq \in [Nodes -> Nat]
  BY ClientFacts
<1>2. at[c] \in cleanup .. created
  BY <1>1 DEF HoldOf, Present, Anchored, Looking, Reading
<1>3. at[c] \in Nodes
  BY <1>1, <1>2, PresentIsNode DEF IInv
<1>4. wseq \in Nat
  BY DEF IInv, TypeOK
<1> QED BY <1>1, <1>2, <1>3, <1>4 DEF ClientType

\* what stays when client c takes a step
ChainStays == UNCHANGED <<seq, created, wseq>>

LEMMA ReadCountNode ==
  ASSUME IInv, NEW c \in Clients, PlaceOf(c), NumberOf(c), ChainStays,
         UNCHANGED <<at, last>>,
         \/ pc[c] = "skip" /\ seq[at[c]] = 0 /\ CountNode(c, at[c] + 1, "skipRelease")
         \/ pc[c] = "access" /\ CountNode(c, at[c] + 1, "release")
  PROVE  PlaceOf(c)' /\ NumberOf(c)'
<1>0. pc[c] \in Looking \cup Reading
  BY DEF Looking, Reading
<1> USE <1>0, ReaderFacts
<1>1. CASE UNCHANGED <<pc, loc, nx>>
  BY <1>1 DEF PlaceOf, NumberOf, ChainStays, Id
<1>2. CASE ~UNCHANGED <<pc, loc, nx>>
  <2>1. /\ at[c] + 1 <= created /\ nx'[c] = at[c] + 1 /\ loc' = loc
        /\ \/ pc[c] = "skip" /\ pc'[c] = "skipRelease" /\ seq[at[c]] = 0
           \/ pc[c] = "access" /\ pc'[c] = "release"
    BY <1>2 DEF CountNode
  <2>2. PlaceOf(c)'
    BY <2>1 DEF PlaceOf, ChainStays, Reading
  <2>3. Id(at[c])' = Id(at[c])
    BY DEF Id, ChainStays
  <2>4. NumberOf(c)'
    BY <2>1, <2>3 DEF NumberOf, Looking, Reading
  <2> QED BY <2>2, <2>4
<1> QED BY <1>1, <1>2

LEMMA ReadReleasePrevious ==
  ASSUME IInv, ChainInv, NEW c \in Clients, PlaceOf(c), NumberOf(c), ChainStays,
         ReleasePrevious(c)
  PROVE  PlaceOf(c)' /\ NumberOf(c)'
<1>0. pc[c] \in {"skipRelease", "release"} /\ pc[c] \in Looking \cup Reading
  BY DEF ReleasePrevious, Looking, Reading
<1> USE <1>0, ReaderFacts
<1>1. /\ at'[c] = at[c] + 1 /\ at[c] < created /\ last' = last
      /\ pc[c] = "skipRelease" => pc'[c] = "go" /\ seq[at[c]] = 0 /\ loc' = loc
                                    /\ loc[c].op = "read"
      /\ pc[c] = "release" => pc'[c] = "ready" /\ seq[at[c]] # 0
  BY DEF ReleasePrevious, Goto, PlaceOf, Reading
<1>2. PlaceOf(c)'
  BY <1>1 DEF PlaceOf, Reading
<1>3. /\ seq[at[c]] = 0 => Id(at[c] + 1) = Id(at[c])
      /\ seq[at[c]] # 0 => Id(at[c] + 1) = Id(at[c]) + 1
  BY <1>1 DEF ChainInv, IdsInOrder
<1>4. Id(at[c])' = Id(at[c] + 1)
  BY <1>1 DEF Id, ChainStays
<1>5. at[c] + 1 \in Nodes /\ (at[c] + 1 # created => at[c] + 2 \in Nodes)
  BY <1>1, ChainFacts
<1>6. Id(at[c]) \in Nat
  BY <1>1, <1>5 DEF Id
<1>7. NumberOf(c)'
  BY <1>1, <1>3, <1>4, <1>6 DEF NumberOf, Looking, Reading
<1> QED BY <1>2, <1>7

LEMMA ReadLookForData ==
  ASSUME IInv, ChainInv, NEW c \in Clients, PlaceOf(c), NumberOf(c), ChainStays,
         NEW t, LookForData(c, t)
  PROVE  PlaceOf(c)' /\ NumberOf(c)'
<1>0. pc[c] = "go" /\ pc[c] \in Looking \cup Reading /\ UNCHANGED <<at, nx>>
  BY DEF LookForData, Looking, Reading
<1> USE <1>0, ReaderFacts
<1>1. \/ last' = last /\ pc'[c] = "ready"
      \/ /\ at[c] < created /\ last'[c] = seq[at[c]]
         /\ \/ full[at[c]] /\ pc'[c] = "access"
            \/ pc'[c] = "ready"
  BY DEF LookForData, Goto, Linked
<1>2. full[at[c]] => seq[at[c]] # 0
  BY DEF ChainInv, DataPlaces
<1>3. PlaceOf(c)'
  BY <1>1, <1>2 DEF PlaceOf, Reading, ChainStays
<1>4. Id(at[c])' = Id(at[c])
  BY DEF Id, ChainStays
<1>5. seq[at[c]] # 0 => Id(at[c]) = seq[at[c]]
  BY DEF Id
<1>6. NumberOf(c)'
  BY <1>1, <1>4, <1>5 DEF NumberOf, Looking, Reading
<1> QED BY <1>3, <1>6

\* the other steps keep the place and the number, or leave the reading
LEMMA ReadOther ==
  ASSUME IInv, NEW c \in Clients, PlaceOf(c), NumberOf(c), ChainStays,
         \/ StartLock(c, "latch") \/ LoadOldest(c) \/ GetAccess(c) \/ Detach(c)
         \/ AccessData(c) \/ ReleaseDataNoStep(c)
         \/ SkipGap(c) /\ seq[at[c]] # 0
  PROVE  PlaceOf(c)' /\ NumberOf(c)'
<1>0. /\ last \in [Clients -> Nat] /\ pc \in [Clients -> Places]
      /\ loc \in [Clients -> Locals]
  BY DEF IInv, TypeOK, Places
<1>1. CASE StartLock(c, "latch") \/ LoadOldest(c) \/ Detach(c)
  <2>1. pc'[c] \in {"load", "grab", "out"}
    BY <1>0, <1>1 DEF StartLock, LoadOldest, Detach, Goto
  <2> QED BY <2>1 DEF PlaceOf, NumberOf, Looking, Reading
<1>2. CASE GetAccess(c)
  <2>1. pc[c] = "grab" /\ pc'[c] \in {"grab", "load", "find", "ready"}
    BY <1>0, <1>2 DEF GetAccess, Goto
  <2>2. pc'[c] = "ready" => last'[c] = 0
    BY <1>0, <1>2 DEF GetAccess, Goto
  <2> QED BY <2>1, <2>2 DEF PlaceOf, NumberOf, Looking, Reading
<1>3. CASE AccessData(c) \/ ReleaseDataNoStep(c) \/ (SkipGap(c) /\ seq[at[c]] # 0)
  <2>1. /\ UNCHANGED <<at, nx, last>>
        /\ \/ pc[c] = "ready" /\ pc'[c] = "skip" /\ loc'[c].op = "read"
           \/ pc[c] = "access" /\ pc'[c] = "ready"
           \/ pc[c] = "skip" /\ pc'[c] = "go" /\ loc' = loc
    BY <1>0, <1>3 DEF AccessData, Begin, ReleaseDataNoStep, SkipGap, Goto
  <2>2. PlaceOf(c)'
    BY <2>1 DEF PlaceOf, Reading, ChainStays
  <2>3. Id(at[c])' = Id(at[c])
    BY <2>1 DEF Id, ChainStays
  <2>4. NumberOf(c)'
    BY <2>1, <2>3 DEF NumberOf, Looking, Reading
  <2> QED BY <2>2, <2>4
<1> QED BY <1>1, <1>2, <1>3

LEMMA ReadStep ==
  ASSUME ReadsAll, IInv, ChainInv, NEW c \in Clients, PlaceOf(c), NumberOf(c),
         SequentialStep(c)
  PROVE  PlaceOf(c)' /\ NumberOf(c)'
<1>1. ChainStays
  BY ClientLeavesChain, ClientLeavesWriter DEF ChainStays, SameChain, writerPart
<1>2. /\ ~FlushOne(c) /\ ~FlushAll(c) /\ ~SpinToLast(c)
      /\ ~\E t \in Times : SpinToTime(c, t)
  BY DEF ReadsAll, FlushOne, FlushAll, SpinToLast, SpinToTime
<1>3. ~SpinBack(c)
  BY ClientFacts DEF HoldOf, SpinBack
<1>4. ~FlushTo(c)
  BY DEF FlushTo, PlaceOf
<1>5. CASE SkipGap(c) /\ seq[at[c]] = 0
  BY <1>1, <1>5, ReadCountNode DEF SkipGap
<1>6. CASE ReleaseData(c) \/ ReleaseOnlyAccess(c)
  BY <1>1, <1>6, ReadCountNode DEF ReleaseData, ReleaseOnlyAccess
<1>7. CASE ReleasePrevious(c)
  BY <1>1, <1>7, ReadReleasePrevious
<1>8. CASE \E t \in Times : LookForData(c, t)
  BY <1>1, <1>8, ReadLookForData
<1> QED BY <1>1, <1>2, <1>3, <1>4, <1>5, <1>6, <1>7, <1>8, ReadOther DEF SequentialStep

\* whose step it is
LEMMA OwnSteps ==
  ASSUME [Next]_vars
  PROVE  \/ UNCHANGED clientVars
         \/ \E c \in SeqClients : SequentialStep(c)
         \/ \E c \in TimedClients \cup Monitors : TimedStep(c)
<1>1. CASE WriterStep \/ RemoveSaveUp \/ ResetValid \/ CleanEntry \/ FinalDelete
             \/ UNCHANGED vars
  BY <1>1, OthersLeaveClients
<1> QED BY <1>1 DEF Next, Step, Stopped

LEMMA NextRead ==
  ASSUME ReadsAll, IInv, IInv', ChainInv, ChainGrows, ReadInv, [Next]_vars
  PROVE  ReadInv'
<1> SUFFICES ASSUME NEW d \in SeqClients PROVE PlaceOf(d)' /\ NumberOf(d)'
  BY DEF ReadInv
<1>0. d \in Clients /\ PlaceOf(d) /\ NumberOf(d)
  BY DEF ReadInv, Clients
<1>1. CASE UNCHANGED clientVars
  BY <1>0, <1>1, ReadWhileGrowing DEF clientVars
<1>2. CASE \E c \in SeqClients : SequentialStep(c)
  <2>1. PICK c \in SeqClients : SequentialStep(c)
    BY <1>2
  <2>2. CASE c = d
    BY <1>0, <2>1, <2>2, ReadStep
  <2>3. CASE c # d
    BY <1>0, <2>1, <2>3, OthersStay, ReadWhileGrowing DEF Clients
  <2> QED BY <2>2, <2>3
<1>3. CASE \E c \in TimedClients \cup Monitors : TimedStep(c)
  <2>1. PICK c \in TimedClients \cup Monitors : TimedStep(c)
    BY <1>3
  <2>2. c # d /\ c \in Clients
    BY EntryAssumption DEF Clients
  <2> QED BY <1>0, <2>1, <2>2, OthersStay, ReadWhileGrowing
<1> QED BY <1>1, <1>2, <1>3, OwnSteps

\* a step that changes the number of the point read last
LEMMA NumberGoesUp ==
  ASSUME IInv, ChainInv, ReadInv, [Next]_vars, NEW d \in SeqClients,
         last[d] # 0, last'[d] \notin {0, last[d]}
  PROVE  last'[d] = last[d] + 1
<1>0. d \in Clients /\ NumberOf(d)
  BY DEF ReadInv, Clients
<1>1. PICK c \in SeqClients \cup TimedClients \cup Monitors :
             \/ c \in SeqClients /\ SequentialStep(c)
             \/ c \in TimedClients \cup Monitors /\ TimedStep(c)
  BY OwnSteps DEF clientVars
<1>2. c = d /\ SequentialStep(d)
  BY <1>0, <1>1, OthersStay, EntryAssumption DEF Clients
<1>3. PICK t \in Times : LookForData(d, t)
  <2>1. last \in [Clients -> Nat]
    BY DEF IInv, TypeOK
  <2>2. ~GetAccess(d)
    BY <1>0, <2>1 DEF GetAccess
  <2> QED BY <1>2, <2>2 DEF SequentialStep, StartLock, LoadOldest, AccessData, FlushOne,
        FlushAll, SpinToLast, SpinToTime, Begin, SkipGap, ReleasePrevious,
        ReleaseDataNoStep, ReleaseData, ReleaseOnlyAccess, FlushTo, SpinBack, Detach
<1>4. pc[d] = "go" /\ pc[d] \in Looking \cup Reading
  BY <1>3 DEF LookForData, Looking
<1>5. last'[d] = seq[at[d]] /\ Id(at[d]) = seq[at[d]] /\ seq[at[d]] \in Nat
  BY <1>0, <1>3, <1>4, ReaderFacts DEF LookForData, Id
<1>6. last[d] = Id(at[d]) \/ last[d] = Id(at[d]) - 1
  BY <1>0, <1>4 DEF NumberOf, Looking
<1> QED BY <1>5, <1>6

(* A client that neither flushes nor spins gets the points one after the   *)
(* other: none is skipped and none comes twice, across the gaps the writer *)
(* makes under it, cleaning, and data that other clients keep.             *)
THEOREM ReadsEveryPoint ==
  ASSUME ReadsAll
  PROVE  Spec => EveryPointRead
<1>1. CarefulOps
  BY DEF ReadsAll, CarefulOps
<1>2. Init => ReadInv
  BY DEF Init, ReadInv, PlaceOf, NumberOf, Looking, Reading, Clients
<1>3. ASSUME IInv, ChainInv, ReadInv, [Next]_vars
      PROVE  IInv' /\ ChainInv' /\ ReadInv'
  BY <1>1, <1>3, NextIInv, NextChain, NextRead
<1>4. ASSUME IInv, ChainInv, ReadInv, [Next]_vars
      PROVE  [\A c \in SeqClients :
               (last[c] # 0 /\ last'[c] \notin {0, last[c]})
                 => last'[c] = last[c] + 1]_vars
  BY <1>4, NumberGoesUp
<1> QED BY <1>2, <1>3, <1>4, InitIInv, InitChain, PTL DEF Spec, EveryPointRead

-----------------------------------------------------------------------------
(* Reading by time.                                                        *)

\* n is data from before the newest node, and everything between it and where
\* client c began to look is after the time asked for
FoundDown(c, n) ==
  /\ n \in 1 .. loc[c].from
  /\ loc[c].from < latest
  /\ seq[n] # 0
  /\ \A m \in (n + 1) .. loc[c].from : time[m] > loc[c].want

SearchOf(c) ==
  loc[c].op = "timed" =>
    /\ pc[c] \in {"walk", "take"} => FoundDown(c, loc[c].ed)
    /\ pc[c] = "take" => ~(time[loc[c].ed] > loc[c].want)
    /\ pc[c] = "unlock" /\ nx[c] # None =>
         FoundDown(c, nx[c]) /\ ~(time[nx[c]] > loc[c].want)

SearchInv == \A c \in TimedClients : SearchOf(c)

LEMMA FoundWhileGrowing ==
  ASSUME IInv, IInv', ChainGrows, NEW c \in Clients, NEW n, FoundDown(c, n),
         loc'[c] = loc[c]
  PROVE  FoundDown(c, n)' /\ time'[n] = time[n]
<1>1. /\ latest \in Nat /\ latest' \in Nat /\ created \in Nat /\ latest <= created
      /\ latest <= latest' /\ loc[c].from \in Int
  BY EntryAssumption DEF IInv, TypeOK, Nodes, WriterInv, ChainGrows, Locals
<1>2. \A m \in 1 .. loc[c].from : time'[m] = time[m] /\ seq'[m] = seq[m]
  BY <1>1 DEF FoundDown, ChainGrows
<1>3. n \in 1 .. loc[c].from /\ loc[c].from < latest'
  BY <1>1 DEF FoundDown
<1>4. seq'[n] # 0 /\ time'[n] = time[n]
  BY <1>2, <1>3 DEF FoundDown
<1>5. \A m \in (n + 1) .. loc[c].from : time'[m] > loc[c].want
  BY <1>1, <1>2, <1>3 DEF FoundDown
<1> QED BY <1>3, <1>4, <1>5 DEF FoundDown

LEMMA SearchWhileGrowing ==
  ASSUME IInv, IInv', ChainGrows, NEW c \in Clients, SearchOf(c),
         pc'[c] = pc[c], nx'[c] = nx[c], loc'[c] = loc[c]
  PROVE  SearchOf(c)'
<1> SUFFICES ASSUME loc[c].op = "timed" PROVE SearchOf(c)'
  BY DEF SearchOf
<1>1. CASE pc[c] \in {"walk", "take"}
  <2>1. FoundDown(c, loc[c].ed)
    BY <1>1 DEF SearchOf
  <2>2. PICK n : n = loc[c].ed
    OBVIOUS
  <2>3. FoundDown(c, n)' /\ time'[n] = time[n]
    BY <2>1, <2>2, FoundWhileGrowing
  <2>4. FoundDown(c, loc[c].ed)' /\ time'[loc[c].ed] = time[loc[c].ed]
    BY <2>2, <2>3 DEF FoundDown
  <2> QED BY <1>1, <2>4 DEF SearchOf
<1>2. CASE pc[c] = "unlock" /\ nx[c] # None
  <2>1. FoundDown(c, nx[c]) /\ ~(time[nx[c]] > loc[c].want)
    BY <1>2 DEF SearchOf
  <2>2. PICK n : n = nx[c]
    OBVIOUS
  <2>3. FoundDown(c, n)' /\ time'[n] = time[n]
    BY <2>1, <2>2, FoundWhileGrowing
  <2>4. FoundDown(c, nx[c])' /\ time'[nx[c]] = time[nx[c]]
    BY <2>2, <2>3 DEF FoundDown
  <2> QED BY <1>2, <2>1, <2>4 DEF SearchOf
<1>3. CASE pc[c] \notin {"walk", "take"} /\ ~(pc[c] = "unlock" /\ nx[c] # None)
  BY <1>3 DEF SearchOf
<1> QED BY <1>1, <1>2, <1>3

\* the search begins at the newest data, which is not a gap
LEMMA SearchBegins ==
  ASSUME IInv, ChainInv, NEW c \in Clients, NEW t, FindLatest(c, t)
  PROVE  SearchOf(c)'
<1> DEFINE e == latest - 1
<1>0. /\ pc \in [Clients -> Places] /\ loc \in [Clients -> Locals]
      /\ latest \in Nat /\ Nodes \subseteq Nat /\ full \in [Nodes -> BOOLEAN]
      /\ 1 <= latest /\ latest \in Nodes
  BY EntryAssumption DEF IInv, TypeOK, Places, WriterInv, Nodes
<1>1. e \in Nodes /\ e \in Nat
  BY <1>0, EntryAssumption DEF Nodes
<1>2. nx'[c] = None /\ UNCHANGED <<seq, time, latest>> /\ pc[c] = "find"
  BY ClientFacts DEF FindLatest, HoldOf, chainVars
<1>3. CASE pc' = pc
  BY <1>2, <1>3 DEF SearchOf
<1>4. CASE pc' # pc
  <2>1. /\ pc'[c] \in {"unlock", "take", "walk"} /\ (pc'[c] # "unlock" => full[e])
        /\ loc'[c].ed = e /\ loc'[c].from = e /\ loc'[c].op = loc[c].op
        /\ loc[c].op = "timed" => pc'[c] # "take"
    BY <1>0, <1>4 DEF FindLatest, Locals
  <2>2. full[e] => seq[e] # 0 /\ e # 0
    BY <1>1 DEF ChainInv, DataPlaces, ChainEnds
  <2>3. full[e] => FoundDown(c, loc[c].ed)'
    BY <1>0, <1>1, <1>2, <2>1, <2>2 DEF FoundDown
  <2> QED BY <1>2, <2>1, <2>3 DEF SearchOf
<1> QED BY <1>3, <1>4

\* one turn of the loop; behind a gap there is data
LEMMA SearchGoesOn ==
  ASSUME IInv, ChainInv, NEW c \in Clients, SearchOf(c), WalkBack(c)
  PROVE  SearchOf(c)'
<1> DEFINE e == loc[c].ed
           r == Search(c)
<1>0. /\ pc \in [Clients -> Places] /\ loc \in [Clients -> Locals]
      /\ seq \in [Nodes -> Nat] /\ time \in [Nodes -> Nat] /\ cleanup \in Nat
      /\ latest \in Nat /\ created \in Nat /\ latest <= created
      /\ \A n \in 0 .. created : n \in Nodes
  BY ChainFacts DEF IInv, TypeOK, Places
<1>1. nx'[c] = None /\ UNCHANGED <<seq, time, latest>> /\ pc[c] = "walk"
  BY ClientFacts DEF WalkBack, HoldOf, chainVars
<1>2. CASE loc[c].op = "timed" /\ r[1] # "fault"
  <2>1. /\ pc'[c] = r[1] /\ loc'[c].ed = r[2] /\ loc'[c].from = loc[c].from
        /\ loc'[c].want = loc[c].want /\ loc'[c].op = loc[c].op
    BY <1>0, <1>2 DEF WalkBack, Locals
  <2>2. FoundDown(c, e)
    BY <1>1, <1>2 DEF SearchOf
  <2>3. /\ e \in 1 .. loc[c].from /\ loc[c].from < latest /\ loc[c].from \in Int
        /\ loc[c].want \in Nat /\ loc[c].ed \in Int
    BY <1>0, <2>2 DEF FoundDown, Locals
  <2>4. CASE r[1] = "take"
    <3>1. r[2] = e /\ ~(time[e] > loc[c].want)
      BY <2>4 DEF Search, AfterTick
    <3>2. FoundDown(c, loc[c].ed)'
      BY <1>1, <2>1, <2>2, <3>1 DEF FoundDown
    <3> QED BY <1>1, <2>1, <2>4, <3>1, <3>2 DEF SearchOf
  <2>5. CASE r[1] = "walk"
    <3>1. /\ time[e] > loc[c].want
          /\ \/ seq[e - 1] # 0 /\ r[2] = e - 1
             \/ /\ seq[e - 1] = 0 /\ r[2] = e - 2 /\ time[e - 1] > loc[c].want
                /\ e - 2 >= cleanup
      BY <1>0, <2>3, <2>5 DEF Search, AfterTick, Deleted
    <3>2. seq[r[2]] # 0 /\ r[2] \in 1 .. loc[c].from
      BY <1>0, <2>3, <3>1 DEF ChainInv, GapsApart, ChainEnds
    <3>3. \A m \in (r[2] + 1) .. loc[c].from : time[m] > loc[c].want
      BY <2>2, <2>3, <3>1 DEF FoundDown
    <3>4. FoundDown(c, loc[c].ed)'
      BY <1>1, <2>1, <2>3, <3>2, <3>3 DEF FoundDown
    <3> QED BY <1>1, <2>1, <2>5, <3>4 DEF SearchOf
  <2>6. CASE r[1] = "unlock"
    BY <1>1, <2>1, <2>6 DEF SearchOf
  <2>7. r[1] \in {"fault", "take", "unlock", "walk"}
    BY DEF Search
  <2> QED BY <1>2, <2>4, <2>5, <2>6, <2>7
<1>3. CASE r[1] = "fault"
  <2>1. UNCHANGED <<pc, loc>>
    BY <1>3 DEF WalkBack
  <2> QED BY <1>1, <2>1 DEF SearchOf, FoundDown
<1>4. CASE loc[c].op # "timed" /\ r[1] # "fault"
  <2>1. loc'[c].op = loc[c].op
    BY <1>0, <1>4 DEF WalkBack, Locals
  <2> QED BY <1>4, <2>1 DEF SearchOf
<1> QED BY <1>2, <1>3, <1>4

\* the data found is counted
LEMMA SearchTakes ==
  ASSUME IInv, NEW c \in Clients, SearchOf(c), GetData(c)
  PROVE  SearchOf(c)'
<1>0. pc \in [Clients -> Places] /\ nx \in [Clients -> Nodes \cup {None}]
  BY DEF IInv, TypeOK, Places
<1>1. UNCHANGED <<seq, time, latest, loc>> /\ pc[c] = "take" /\ pc'[c] = "unlock"
  BY <1>0 DEF GetData, chainVars, Goto
<1>2. nx[c] = None
  BY <1>1, ClientFacts DEF HoldOf
<1>3. nx'[c] = None \/ nx'[c] = loc[c].ed
  BY <1>0, <1>2 DEF GetData
<1> QED BY <1>1, <1>3 DEF SearchOf, FoundDown

LEMMA SearchOther ==
  ASSUME IInv, NEW c \in Clients,
         \/ \E o \in {"timed", "monitor"} : StartLock(c, o)
         \/ LoadOldest(c) \/ GetAccess(c) \/ Unlock(c) \/ ReturnData(c)
  PROVE  SearchOf(c)'
<1>0. pc \in [Clients -> Places]
  BY DEF IInv, TypeOK, Places
<1>1. pc'[c] \in {"load", "grab", "find", "ready", "out", "held"}
  BY <1>0 DEF StartLock, LoadOldest, GetAccess, Unlock, ReturnData, Goto
<1> QED BY <1>1 DEF SearchOf

LEMMA NextSearch ==
  ASSUME IInv, IInv', ChainInv, ChainGrows, SearchInv, [Next]_vars
  PROVE  SearchInv'
<1> SUFFICES ASSUME NEW d \in TimedClients PROVE SearchOf(d)'
  BY DEF SearchInv
<1>0. d \in Clients /\ SearchOf(d)
  BY DEF SearchInv, Clients
<1>1. CASE UNCHANGED clientVars
  BY <1>0, <1>1, SearchWhileGrowing DEF clientVars
<1>2. CASE \E c \in SeqClients : SequentialStep(c)
  <2>1. PICK c \in SeqClients : SequentialStep(c)
    BY <1>2
  <2>2. c # d /\ c \in Clients
    BY EntryAssumption DEF Clients
  <2> QED BY <1>0, <2>1, <2>2, OthersStay, SearchWhileGrowing
<1>3. CASE \E c \in TimedClients \cup Monitors : TimedStep(c)
  <2>1. PICK c \in TimedClients \cup Monitors : TimedStep(c)
    BY <1>3
  <2>2. CASE c # d
    BY <1>0, <2>1, <2>2, OthersStay, SearchWhileGrowing DEF Clients
  <2>3. CASE c = d
    BY <1>0, <2>1, <2>3, SearchBegins, SearchGoesOn, SearchTakes, SearchOther
       DEF TimedStep
  <2> QED BY <2>2, <2>3
<1> QED BY <1>1, <1>2, <1>3, OwnSteps

(* A timed read that finds data gives the newest point not after the       *)
(* requested time, of those there when the search began, and never a gap,  *)
(* although the writer adds, gives up and deletes nodes during the search. *)
THEOREM TimedReadRight ==
  ASSUME CarefulOps
  PROVE  Spec => []TimedRight
<1>1. Init => SearchInv
  BY DEF Init, SearchInv, SearchOf, Clients
<1>2. ASSUME IInv, ChainInv, SearchInv, [Next]_vars
      PROVE  IInv' /\ ChainInv' /\ SearchInv'
  BY <1>2, NextIInv, NextChain, NextSearch
<1>3. SearchInv => TimedRight
  BY DEF SearchInv, SearchOf, FoundDown, TimedRight, AfterTick
<1> QED BY <1>1, <1>2, <1>3, InitIInv, InitChain, PTL DEF Spec

-----------------------------------------------------------------------------
(* The lock on the oldest node, for event data and readers that are not    *)
(* held up while the next write begins.                                    *)

EventEntry == EventType /\ ~Preemption /\ Monitors = {}

TakenDown == {"cleanAll", "cleaned"}

\* what client c has loaded is not deleted by the write that is going on, and
\* the node it locked is not the newest, unless nothing was written
LockOf(c) ==
  /\ pc[c] = "grab" =>
       /\ cleanup <= loc[c].ed /\ 1 <= loc[c].ed
       /\ wpc \in {"clean", "delete"} => loc[c].ed = oldest
       /\ loc[c].ed < latest \/ loc[c].ed = 1
  /\ pc[c] \in {"find", "walk", "take"} =>
       1 <= at[c] /\ (at[c] < latest \/ at[c] = 1)
  /\ pc[c] \in {"walk", "take"} => at[c] <= loc[c].ed /\ loc[c].ed < latest

EndsApart ==
  /\ wpc \notin TakenDown => cleanup < oldest
  /\ wpc \in TakenDown => \A c \in Clients : pc[c] = "out"
  /\ oldest < latest \/ oldest = 1

LockInv == EndsApart /\ \A c \in Clients : LockOf(c)

LEMMA LockFacts ==
  ASSUME IInv
  PROVE  /\ cleanup \in Nat /\ oldest \in Nat /\ latest \in Nat /\ created \in Nat
         /\ 1 <= oldest /\ oldest <= latest /\ latest <= created
         /\ loc \in [Clients -> Locals] /\ pc \in [Clients -> Places]
         /\ at \in [Clients -> Nodes \cup {None}]
         /\ \A c \in Clients : loc[c].ed \in Int /\ at[c] \in Int
BY EntryAssumption DEF IInv, TypeOK, Nodes, WriterInv, Locals, Places, None

\* the writer's pointers after one of its steps
WriterMoves ==
  /\ latest <= latest'
  /\ \/ /\ UNCHANGED <<cleanup, oldest>> /\ wpc' \notin TakenDown
        /\ wpc' \in {"clean", "delete"} =>
             wpc \in {"clean", "delete"} \/ \A c \in Clients : pc[c] # "grab"
     \/ /\ wpc = "delete" /\ wpc' = "clean" /\ oldest' = oldest
        /\ cleanup' = cleanup + 1 /\ cleanup + 1 < oldest
     \/ /\ wpc = "shift" /\ wpc' = "shift" /\ cleanup' = cleanup
        /\ oldest' = oldest + 1 /\ oldest + 1 < latest

LEMMA HowWriterMoves ==
  ASSUME EventEntry, IInv, ChainInv, WriterStep, wpc \notin TakenDown
  PROVE  WriterMoves
<1> USE LockFacts DEF WriterMoves, TakenDown
<1>1. CASE \E t \in Starts, length \in Lengths : NewData(t, length)
  BY <1>1 DEF NewData, EventEntry
<1>2. CASE TryRecycle
  BY <1>2 DEF TryRecycle
<1>3. CASE DeleteNode
  BY <1>3 DEF DeleteNode, IInv, WriterInv
<1>4. CASE ShiftOldest
  <2>1. CASE Obsolete(oldest) /\ seq[latest] - seq[oldest] > Depth
    <3>1. oldest + 1 <= created /\ (full[oldest + 1] \/ seq[oldest + 1] = 0)
      BY <2>1 DEF Obsolete, Linked
    <3>2. seq[oldest + 1] # 0
      BY <3>1 DEF EventEntry, ChainInv, EventsHaveNoGap
    <3>3. ~full[created] /\ created = latest
      BY <1>4 DEF ShiftOldest, ChainInv, DataPlaces, IInv, WriterInv
    <3>4. oldest + 1 < latest
      BY <3>1, <3>2, <3>3
    <3> QED BY <1>4, <2>1, <3>4 DEF ShiftOldest
  <2>2. CASE ~(Obsolete(oldest) /\ seq[latest] - seq[oldest] > Depth)
    BY <1>4, <2>2 DEF ShiftOldest
  <2> QED BY <2>1, <2>2
<1>5. CASE FillLatest \/ ResetSeqId \/ LinkGapData \/ LinkSentinel \/ Notify
  BY <1>5 DEF FillLatest, ResetSeqId, LinkGapData, LinkSentinel, Notify
<1>6. CASE PublishLatest
  BY <1>6 DEF PublishLatest
<1> QED BY <1>1, <1>2, <1>3, <1>4, <1>5, <1>6 DEF WriterStep

LEMMA LockWhileWriting ==
  ASSUME IInv, IInv', LockInv, wpc \notin TakenDown, WriterMoves,
         UNCHANGED clientVars
  PROVE  LockInv'
<1>0. /\ cleanup' \in Nat /\ oldest' \in Nat /\ latest' \in Nat
      /\ UNCHANGED <<pc, at, loc>>
  BY EntryAssumption DEF IInv, TypeOK, Nodes, clientVars
<1>1. EndsApart'
  BY <1>0, LockFacts DEF LockInv, EndsApart, WriterMoves, TakenDown
<1>2. ASSUME NEW c \in Clients PROVE LockOf(c)'
  <2>1. LockOf(c) /\ cleanup < oldest
    BY DEF LockInv, EndsApart
  <2>2. loc[c].ed \in Int /\ at[c] \in Int
    BY LockFacts
  <2>3. pc[c] = "grab" => /\ cleanup' <= loc[c].ed /\ 1 <= loc[c].ed
                          /\ wpc' \in {"clean", "delete"} => loc[c].ed = oldest'
                          /\ loc[c].ed < latest' \/ loc[c].ed = 1
    BY <1>0, <2>1, <2>2, LockFacts DEF LockOf, WriterMoves
  <2>4. pc[c] \in {"find", "walk", "take"} =>
           1 <= at[c] /\ (at[c] < latest' \/ at[c] = 1)
    BY <1>0, <2>1, <2>2, LockFacts DEF LockOf, WriterMoves
  <2>5. pc[c] \in {"walk", "take"} => at[c] <= loc[c].ed /\ loc[c].ed < latest'
    BY <1>0, <2>1, <2>2, LockFacts DEF LockOf, WriterMoves
  <2> QED BY <1>0, <2>3, <2>4, <2>5 DEF LockOf
<1> QED BY <1>1, <1>2 DEF LockInv

\* the entry is taken down when every client has left it
LEMMA LockTakenDown ==
  ASSUME EventEntry, IInv, IInv', LockInv,
         RemoveSaveUp \/ ResetValid \/ CleanEntry \/ FinalDelete \/ UNCHANGED vars
  PROVE  LockInv'
<1>1. CASE RemoveSaveUp \/ ResetValid \/ UNCHANGED vars
  BY <1>1 DEF RemoveSaveUp, ResetValid, vars, clientVars, writeVars, LockInv,
              EndsApart, LockOf
<1>2. CASE CleanEntry
  BY <1>2 DEF CleanEntry, clientVars, LockInv, EndsApart, LockOf, Clients,
              EventEntry, TakenDown
<1>3. CASE FinalDelete
  <2>1. \A c \in Clients : pc'[c] = "out"
    BY <1>3 DEF FinalDelete, clientVars, LockInv, EndsApart, TakenDown
  <2> QED BY <1>3, <2>1 DEF FinalDelete, LockInv, EndsApart, LockOf, TakenDown
<1> QED BY <1>1, <1>2, <1>3

\* what a step of client c is to show
LockedRight(c) == LockOf(c)' /\ fault' \notin {"lockDeleted", "walkDeleted"}

LEMMA LockGrabs ==
  ASSUME IInv, LockInv, SearchesWhatIsThere, NEW c \in Clients,
         LoadOldest(c) \/ GetAccess(c)
  PROVE  LockedRight(c)
<1>0. LockOf(c) /\ EndsApart /\ UNCHANGED <<cleanup, oldest, latest, wpc>>
  BY DEF LockInv, LoadOldest, GetAccess, writeVars
<1>1. CASE LoadOldest(c)
  <2>1. pc'[c] = "grab" /\ loc'[c].ed = oldest /\ fault' = fault /\ pc[c] = "load"
    BY <1>1, LockFacts DEF LoadOldest, Locals
  <2>2. cleanup < oldest
    BY <1>0, <2>1 DEF EndsApart
  <2> QED BY <1>0, <2>1, <2>2, LockFacts DEF LockedRight, LockOf, EndsApart,
                                            SearchesWhatIsThere
<1>2. CASE GetAccess(c)
  <2>1. pc[c] = "grab" /\ ~Deleted(loc[c].ed)
    BY <1>0, <1>2, LockFacts DEF GetAccess, LockOf, Deleted
  <2>2. /\ fault' = fault
        /\ \/ pc'[c] = "load"
           \/ pc'[c] = "ready"
           \/ pc'[c] = "find" /\ at'[c] = loc[c].ed
    BY <1>2, <2>1, LockFacts DEF GetAccess, Goto
  <2> QED BY <1>0, <2>1, <2>2 DEF LockedRight, LockOf, SearchesWhatIsThere
<1> QED BY <1>1, <1>2

LEMMA LockFinds ==
  ASSUME IInv, ChainInv, LockInv, SearchesWhatIsThere, NEW c \in Clients, NEW t,
         FindLatest(c, t)
  PROVE  LockedRight(c)
<1> DEFINE e == latest - 1
<1>0. /\ LockOf(c) /\ EndsApart /\ UNCHANGED <<cleanup, oldest, latest, wpc, at>>
      /\ pc[c] = "find"
  BY DEF LockInv, FindLatest, writeVars
<1>1. cleanup <= at[c] /\ 1 <= at[c] /\ (at[c] < latest \/ at[c] = 1)
  BY <1>0, LockFacts, ClientFacts DEF HoldOf, Present, Anchored, LockOf
<1>2. cleanup < oldest
  BY <1>0 DEF EndsApart
<1>3. ~Deleted(e)
  BY <1>1, <1>2, LockFacts DEF Deleted
<1>4. e \in Nodes /\ e \in Nat
  BY LockFacts, ChainFacts
<1>5. full[e] => e # 0
  BY <1>4 DEF ChainInv, DataPlaces, ChainEnds
<1>6. /\ pc'[c] \in {"unlock", "take", "walk"} /\ (pc'[c] # "unlock" => full[e])
      /\ loc'[c].ed = e /\ fault' = fault
  BY <1>3, LockFacts DEF FindLatest, Locals
<1>7. full[e] => at[c] <= e
  BY <1>1, <1>4, <1>5, LockFacts
<1> QED BY <1>0, <1>1, <1>6, <1>7, LockFacts DEF LockedRight, LockOf, SearchesWhatIsThere

LEMMA LockWalks ==
  ASSUME EventEntry, IInv, ChainInv, LockInv, SearchesWhatIsThere,
         NEW c \in Clients, WalkBack(c) \/ GetData(c)
  PROVE  LockedRight(c)
<1> DEFINE e == loc[c].ed
<1>0. /\ LockOf(c) /\ UNCHANGED <<cleanup, oldest, latest, wpc, at>>
      /\ pc[c] \in {"walk", "take"}
  BY DEF LockInv, WalkBack, GetData, writeVars
<1>1. /\ cleanup <= at[c] /\ 1 <= at[c] /\ (at[c] < latest \/ at[c] = 1)
      /\ at[c] <= e /\ e < latest
  BY <1>0, LockFacts, ClientFacts DEF HoldOf, Present, Anchored, LockOf
<1>2. ~Deleted(e)
  BY <1>1, LockFacts DEF Deleted
<1>3. CASE GetData(c)
  <2>1. pc'[c] = "unlock" /\ fault' = fault
    BY <1>2, <1>3, LockFacts DEF GetData, Goto
  <2> QED BY <2>1 DEF LockedRight, LockOf, SearchesWhatIsThere
<1>4. CASE WalkBack(c)
  <2>1. e # at[c] => e - 1 >= at[c] /\ seq[e - 1] # 0 /\ ~Deleted(e - 1)
    BY <1>1, LockFacts DEF EventEntry, ChainInv, EventsHaveNoGap, Deleted
  <2>2. \/ Search(c)[1] = "take" /\ Search(c)[2] = e
        \/ Search(c)[1] = "unlock"
        \/ Search(c)[1] = "walk" /\ Search(c)[2] = e - 1 /\ e # at[c]
    BY <1>2, <2>1 DEF Search
  <2>3. pc'[c] = Search(c)[1] /\ loc'[c].ed = Search(c)[2] /\ fault' = fault
    BY <1>4, <2>2, LockFacts DEF WalkBack, Locals
  <2> QED BY <1>0, <1>1, <2>1, <2>2, <2>3, LockFacts DEF LockedRight, LockOf,
                                                   SearchesWhatIsThere
<1> QED BY <1>3, <1>4

\* the steps that neither lock nor search
LEMMA LockOther ==
  ASSUME IInv, SearchesWhatIsThere, NEW c \in Clients,
         \/ SequentialStep(c) /\ ~LoadOldest(c) /\ ~GetAccess(c)
         \/ \E o \in {"timed", "monitor"} : StartLock(c, o)
         \/ Unlock(c) \/ ReturnData(c)
  PROVE  LockedRight(c)
<1>0. pc \in [Clients -> Places] /\ HoldOf(c)
  BY ClientFacts DEF ClientType
<1>1. CASE (\E o \in {"timed", "monitor", "latch"} : StartLock(c, o)) \/ Unlock(c)
             \/ ReturnData(c) \/ Detach(c) \/ ReleaseDataNoStep(c)
             \/ ReleasePrevious(c) \/ (\E t \in Times : LookForData(c, t))
  <2>1. pc'[c] \in {"load", "out", "held", "ready", "go", "access"} /\ fault' = fault
    BY <1>0, <1>1 DEF StartLock, Unlock, ReturnData, Detach, ReleaseDataNoStep,
                      ReleasePrevious, LookForData, Goto
  <2> QED BY <2>1 DEF LockedRight, LockOf, SearchesWhatIsThere
<1>2. CASE AccessData(c) \/ FlushOne(c) \/ FlushAll(c) \/ SpinToLast(c)
             \/ \E t \in Times : SpinToTime(c, t)
  <2>1. pc'[c] \in {"skip", "spin"} /\ fault' = fault
    BY <1>0, <1>2 DEF AccessData, FlushOne, FlushAll, SpinToLast, SpinToTime, Begin
  <2> QED BY <2>1 DEF LockedRight, LockOf, SearchesWhatIsThere
<1>3. CASE SkipGap(c) \/ ReleaseData(c) \/ ReleaseOnlyAccess(c) \/ FlushTo(c)
  <2>1. /\ pc'[c] \in {"skip", "access", "go", "skipRelease", "release"}
        /\ fault' \in {fault, "nullNext", "spinDeleted"}
    BY <1>0, <1>3 DEF SkipGap, ReleaseData, ReleaseOnlyAccess, FlushTo, CountNode,
                      Fault
  <2> QED BY <2>1 DEF LockedRight, LockOf, SearchesWhatIsThere
<1>4. ~SpinBack(c)
  BY <1>0 DEF SpinBack, HoldOf
<1> QED BY <1>1, <1>2, <1>3, <1>4 DEF SequentialStep

LEMMA LockClient ==
  ASSUME EventEntry, IInv, IInv', ChainInv, LockInv, SearchesWhatIsThere,
         NEW c \in Clients, SequentialStep(c) \/ TimedStep(c)
  PROVE  LockInv' /\ SearchesWhatIsThere'
<1>1. LockedRight(c)
  <2>1. CASE LoadOldest(c) \/ GetAccess(c)
    BY <2>1, LockGrabs
  <2>2. CASE SequentialStep(c) /\ ~LoadOldest(c) /\ ~GetAccess(c)
    BY <2>2, LockOther
  <2>3. CASE TimedStep(c) /\ ~LoadOldest(c) /\ ~GetAccess(c)
    BY <2>3, LockOther, LockFinds, LockWalks DEF TimedStep
  <2> QED BY <2>1, <2>2, <2>3
<1>2. UNCHANGED <<cleanup, oldest, latest, wpc, valid>>
  BY ClientLeavesWriter DEF writerPart
<1>3. \A d \in Clients : LockOf(d)'
  BY <1>1, <1>2, OthersStay DEF LockInv, LockOf, LockedRight
<1>4. wpc \in TakenDown => \A d \in Clients : pc'[d] = "out"
  <2> SUFFICES ASSUME wpc \in TakenDown, NEW d \in Clients PROVE pc'[d] = "out"
    OBVIOUS
  <2>1. pc[c] = "out" /\ pc[d] = "out" /\ ~valid
    BY DEF LockInv, EndsApart, IInv, WriterInv, TakenDown
  <2>2. c \notin Monitors
    BY DEF EventEntry
  <2>3. FALSE
    BY <2>1, <2>2 DEF SequentialStep, TimedStep, StartLock, LoadOldest, GetAccess,
      AccessData, FlushOne, FlushAll, SpinToLast, SpinToTime, Begin, SkipGap,
      ReleasePrevious, LookForData, ReleaseDataNoStep, ReleaseData,
      ReleaseOnlyAccess, FlushTo, SpinBack, Detach, FindLatest, WalkBack, GetData,
      Unlock, ReturnData
  <2> QED BY <2>3
<1>5. EndsApart'
  BY <1>2, <1>4 DEF LockInv, EndsApart
<1> QED BY <1>1, <1>3, <1>5 DEF LockInv, LockedRight, SearchesWhatIsThere

LEMMA NextLock ==
  ASSUME EventEntry, IInv, IInv', ChainInv, LockInv, SearchesWhatIsThere,
         [Next]_vars
  PROVE  LockInv' /\ SearchesWhatIsThere'
<1>1. CASE WriterStep
  <2>1. wpc \notin TakenDown
    BY <1>1 DEF WriterStep, TakenDown, NewData, TryRecycle, DeleteNode, ShiftOldest,
                FillLatest, ResetSeqId, LinkGapData, LinkSentinel, PublishLatest,
                Notify
  <2>2. LockInv'
    BY <1>1, <2>1, HowWriterMoves, LockWhileWriting, OthersLeaveClients
  <2>3. fault' = fault
    BY <1>1 DEF WriterStep, NewData, TryRecycle, DeleteNode, ShiftOldest,
                FillLatest, ResetSeqId, LinkGapData, LinkSentinel, PublishLatest,
                Notify
  <2> QED BY <2>2, <2>3 DEF SearchesWhatIsThere
<1>2. CASE RemoveSaveUp \/ ResetValid \/ CleanEntry \/ FinalDelete \/ UNCHANGED vars
  <2>1. fault' = fault
    BY <1>2 DEF RemoveSaveUp, ResetValid, CleanEntry, FinalDelete, vars
  <2> QED BY <1>2, <2>1, LockTakenDown DEF SearchesWhatIsThere
<1> QED BY <1>1, <1>2, LockClient, StepCases

(* For event data, and a scheduler that does not hold up a reader between  *)
(* loading `oldest` and counting it while another write begins,            *)
(* AccessLockOldest locks a node of the chain and no search by time        *)
(* follows a pointer into a deleted node.                                  *)
THEOREM SearchStaysOnChain ==
  ASSUME CarefulOps, EventEntry
  PROVE  Spec => []SearchesWhatIsThere
<1>1. Init => LockInv /\ SearchesWhatIsThere
  BY DEF Init, LockInv, EndsApart, LockOf, TakenDown, SearchesWhatIsThere
<1>2. ASSUME IInv, ChainInv, LockInv, SearchesWhatIsThere, [Next]_vars
      PROVE  IInv' /\ ChainInv' /\ LockInv' /\ SearchesWhatIsThere'
  BY <1>2, NextIInv, NextChain, NextLock
<1> QED BY <1>1, <1>2, InitIInv, InitChain, PTL DEF Spec

=============================================================================
