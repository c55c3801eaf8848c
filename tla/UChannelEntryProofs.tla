------------------------- MODULE UChannelEntryProofs -------------------------
(***************************************************************************)
(* Theorems about UChannelEntry, for every number of clients and writes.   *)
(***************************************************************************)
EXTENDS UChannelEntry, FiniteSetTheorems, TLAPS

-----------------------------------------------------------------------------
(* The writer's pointers, which no client changes.                         *)

\* the writer has begun a write and not yet added a node
Before == {"clean", "delete", "shift", "fill", "gapReset", "gapLink"}

WriterType ==
  /\ created \in Nat
  /\ cleanup \in Nat
  /\ oldest \in Nat
  /\ latest \in Nat
  /\ writes \in 0 .. MaxWrites
  /\ valid \in BOOLEAN
  /\ wpc \in Before \cup {"idle", "link", "publish", "notify", "cleanAll",
                          "cleaned"}

WriterInv ==
  /\ valid => cleanup < oldest
  /\ 1 <= oldest /\ oldest <= latest /\ latest <= created
  /\ cleanup <= created + 1
  /\ wpc \in {"cleanAll", "cleaned"} => ~valid
  /\ ~valid => wpc \in {"idle", "cleanAll", "cleaned"}
  /\ wpc = "delete" => cleanup + 1 < oldest
  /\ wpc \notin {"link", "publish"} => created = latest
  /\ wpc \in Before => created <= 2 * writes - 1
  /\ wpc = "link" => created <= 2 * writes
  /\ created <= 2 * writes + 1

\* what a step of a client leaves alone
writerPart == <<created, cleanup, oldest, latest, valid, saveup, wpc, start, end,
                wseq, writes>>

LEMMA ClientLeavesWriter ==
  ASSUME NEW c \in Clients, SequentialStep(c) \/ TimedStep(c)
  PROVE  UNCHANGED writerPart
<1>1. CASE SequentialStep(c)
  <2>1. CASE StartLock(c, "latch") \/ LoadOldest(c) \/ GetAccess(c) \/ Detach(c)
    BY <2>1 DEF StartLock, LoadOldest, GetAccess, Detach, writerPart, chainVars,
                configVars, writeVars
  <2>2. CASE AccessData(c) \/ FlushOne(c) \/ FlushAll(c) \/ SpinToLast(c)
               \/ \E t \in Times : SpinToTime(c, t)
    BY <2>2 DEF AccessData, FlushOne, FlushAll, SpinToLast, SpinToTime, Begin,
                writerPart, chainVars, configVars, writeVars
  <2>3. CASE SkipGap(c) \/ ReleasePrevious(c) \/ (\E t \in Times : LookForData(c, t))
    BY <2>3 DEF SkipGap, ReleasePrevious, LookForData, writerPart, chainVars,
                configVars, writeVars
  <2>4. CASE ReleaseDataNoStep(c) \/ ReleaseData(c) \/ ReleaseOnlyAccess(c)
               \/ FlushTo(c) \/ SpinBack(c)
    BY <2>4 DEF ReleaseDataNoStep, ReleaseData, ReleaseOnlyAccess, FlushTo,
                SpinBack, writerPart, chainVars, configVars, writeVars
  <2> QED BY <1>1, <2>1, <2>2, <2>3, <2>4 DEF SequentialStep
<1>2. CASE TimedStep(c)
  BY <1>2 DEF TimedStep, StartLock, LoadOldest, GetAccess, FindLatest, WalkBack,
              GetData, Unlock, ReturnData, writerPart, chainVars, configVars,
              writeVars
<1> QED BY <1>1, <1>2

\* Next, by the thread that takes the step
LEMMA StepCases ==
  ASSUME [Next]_vars
  PROVE  \/ WriterStep
         \/ RemoveSaveUp
         \/ ResetValid
         \/ CleanEntry
         \/ FinalDelete
         \/ \E c \in Clients : SequentialStep(c)
         \/ \E c \in Clients : TimedStep(c)
         \/ UNCHANGED vars
BY DEF Next, Step, Stopped, Clients

LEMMA WriterInit == Init => WriterType /\ WriterInv
BY EntryAssumption DEF Init, WriterType, WriterInv, Before

LEMMA WriterStepInv ==
  ASSUME WriterType, WriterInv, WriterStep
  PROVE  WriterType' /\ WriterInv'
<1> USE EntryAssumption DEF WriterType, WriterInv, Before, chainVars, configVars
<1>1. CASE \E t \in Starts, length \in Lengths : NewData(t, length)
  BY <1>1 DEF NewData
<1>2. CASE TryRecycle
  BY <1>2 DEF TryRecycle
<1>3. CASE DeleteNode
  BY <1>3 DEF DeleteNode
<1>4. CASE ShiftOldest
  BY <1>4 DEF ShiftOldest, Obsolete, Linked
<1>5. CASE FillLatest \/ ResetSeqId
  BY <1>5 DEF FillLatest, ResetSeqId
<1>6. CASE LinkGapData \/ LinkSentinel
  BY <1>6 DEF LinkGapData, LinkSentinel
<1>7. CASE PublishLatest \/ Notify
  BY <1>7 DEF PublishLatest, Notify
<1> QED BY <1>1, <1>2, <1>3, <1>4, <1>5, <1>6, <1>7 DEF WriterStep

LEMMA WriterNext ==
  ASSUME WriterType, WriterInv, [Next]_vars
  PROVE  WriterType' /\ WriterInv'
<1>1. CASE WriterStep
  BY <1>1, WriterStepInv
<1>2. CASE RemoveSaveUp
  BY <1>2 DEF RemoveSaveUp, WriterType, WriterInv, Before, chainVars, writeVars
<1>6. CASE ResetValid
  BY <1>6 DEF ResetValid, WriterType, WriterInv, Before, chainVars, writeVars
<1>7. CASE CleanEntry
  BY <1>7 DEF CleanEntry, WriterType, WriterInv, Before, chainVars, configVars
<1>3. CASE FinalDelete
  BY <1>3 DEF FinalDelete, WriterType, WriterInv, Before, chainVars, configVars
<1>4. CASE \E c \in Clients : SequentialStep(c) \/ TimedStep(c)
  BY <1>4, ClientLeavesWriter DEF writerPart, WriterType, WriterInv
<1>5. CASE UNCHANGED vars
  BY <1>5 DEF vars, WriterType, WriterInv
<1> QED BY <1>1, <1>2, <1>3, <1>4, <1>5, <1>6, <1>7, StepCases

(* newData() never lets cleaning overtake the oldest node nor that the     *)
(* newest one, whatever the readers do, with every operation a client has. *)
THEOREM ChainStaysOrdered == Spec => []ChainOrdered
<1>1. WriterInv => ChainOrdered
  BY DEF WriterInv, ChainOrdered
<1> QED BY <1>1, WriterInit, WriterNext, PTL DEF Spec

-----------------------------------------------------------------------------
(* Counting.                                                               *)

LEMMA UsersNat ==
  ASSUME NEW f, NEW n
  PROVE  /\ IsFiniteSet({c \in Clients : f[c] = n})
         /\ Users(f, n) \in Nat
<1>1. {c \in Clients : f[c] = n} \subseteq Clients
  OBVIOUS
<1>2. IsFiniteSet(Clients)
  BY EntryAssumption
<1> QED BY <1>1, <1>2, FS_Subset, FS_CardinalityType DEF Users

LEMMA UsersNone ==
  ASSUME NEW f, NEW n
  PROVE  Users(f, n) = 0 <=> \A c \in Clients : f[c] # n
<1>1. Users(f, n) = 0 <=> {c \in Clients : f[c] = n} = {}
  BY UsersNat, FS_EmptySet DEF Users
<1> QED BY <1>1

Holdings == [Clients -> Nodes \cup {None}]

\* only client c changes what it holds
OnlyOf(c, f, g) == \A d \in Clients : d # c => g[d] = f[d]

\* It changes the number of users of a node by one at most.
LEMMA UsersExcept ==
  ASSUME NEW f, NEW g, NEW c \in Clients, NEW n, OnlyOf(c, f, g)
  PROVE  /\ g[c] = n /\ f[c] # n => Users(g, n) = Users(f, n) + 1
         /\ g[c] # n /\ f[c] = n => Users(g, n) = Users(f, n) - 1
         /\ (g[c] = n <=> f[c] = n) => Users(g, n) = Users(f, n)
<1> DEFINE F == {x \in Clients : f[x] = n}
           G == {x \in Clients : g[x] = n}
<1>0. IsFiniteSet(F) /\ Users(f, n) = Cardinality(F) /\ Users(g, n) = Cardinality(G)
  BY UsersNat DEF Users
<1>1. CASE g[c] = n /\ f[c] # n
  <2>1. G = F \cup {c} /\ c \notin F
    BY <1>1 DEF OnlyOf
  <2> QED BY <1>0, <1>1, <2>1, FS_AddElement
<1>2. CASE g[c] # n /\ f[c] = n
  <2>1. G = F \ {c} /\ c \in F
    BY <1>2 DEF OnlyOf
  <2> QED BY <1>0, <1>2, <2>1, FS_RemoveElement
<1>3. CASE g[c] = n <=> f[c] = n
  <2>1. G = F
    BY <1>3 DEF OnlyOf
  <2> QED BY <1>0, <1>3, <2>1
<1> QED BY <1>1, <1>2, <1>3


\* AccessCounted, of any two assignments of nodes to clients
CountedBy(a, x, r) ==
  \A n \in cleanup .. created :
    r[n] = IF Deleting(n) THEN 0 ELSE 1 + (Users(a, n) + Users(x, n) + Latch(n))

LEMMA CountedIsCountedBy == AccessCounted <=> CountedBy(at, nx, ra)
BY DEF AccessCounted, CountedBy, Accesses

LEMMA CountedSymmetric ==
  ASSUME NEW a, NEW x, NEW r, CountedBy(a, x, r)
  PROVE  CountedBy(x, a, r)
<1> SUFFICES ASSUME NEW n \in cleanup .. created
             PROVE  r[n] = IF Deleting(n) THEN 0
                           ELSE 1 + (Users(x, n) + Users(a, n) + Latch(n))
  BY DEF CountedBy
<1>1. Users(a, n) \in Nat /\ Users(x, n) \in Nat /\ Latch(n) \in Nat
  BY UsersNat DEF Latch
<1>2. r[n] = IF Deleting(n) THEN 0 ELSE 1 + (Users(a, n) + Users(x, n) + Latch(n))
  BY DEF CountedBy
<1> QED BY <1>1, <1>2

\* s counts d more on node n than r
CountedOnMore(r, s, n, d) ==
  \A m \in cleanup .. created : s[m] = IF m = n THEN r[m] + d ELSE r[m]

\* one more access, on a node that is not being deleted
LEMMA CountUp ==
  ASSUME NEW a, NEW b, NEW x, NEW r, NEW s, NEW c \in Clients,
         WriterType, CountedBy(a, x, r), OnlyOf(c, a, b), a[c] = None,
         b[c] \in cleanup .. created, ~Deleting(b[c]),
         CountedOnMore(r, s, b[c], 1)
  PROVE  CountedBy(b, x, s)
<1> SUFFICES ASSUME NEW m \in cleanup .. created
             PROVE  s[m] = IF Deleting(m) THEN 0
                           ELSE 1 + (Users(b, m) + Users(x, m) + Latch(m))
  BY DEF CountedBy
<1>1. Users(a, m) \in Nat /\ Users(x, m) \in Nat /\ Latch(m) \in Nat
  BY UsersNat DEF Latch
<1>2. r[m] = IF Deleting(m) THEN 0 ELSE 1 + (Users(a, m) + Users(x, m) + Latch(m))
  BY DEF CountedBy
<1>3. m # None
  BY DEF WriterType, None
<1>4. Users(b, m) = IF m = b[c] THEN Users(a, m) + 1 ELSE Users(a, m)
  BY <1>3, UsersExcept
<1>5. s[m] = IF m = b[c] THEN r[m] + 1 ELSE r[m]
  BY DEF CountedOnMore
<1> QED BY <1>1, <1>2, <1>4, <1>5

\* one access less
LEMMA CountDown ==
  ASSUME NEW a, NEW b, NEW x, NEW r, NEW s, NEW c \in Clients,
         WriterType, CountedBy(a, x, r), OnlyOf(c, a, b), b[c] = None,
         a[c] \in cleanup .. created, ~Deleting(a[c])
  PROVE  /\ r[a[c]] >= 2
         /\ CountedOnMore(r, s, a[c], -1) => CountedBy(b, x, s)
<1>1. r[a[c]] >= 2
  <2>1. Users(a, a[c]) # 0
    BY UsersNone
  <2>2. /\ Users(a, a[c]) \in Nat
        /\ Users(x, a[c]) \in Nat
        /\ Latch(a[c]) \in Nat
    BY UsersNat DEF Latch
  <2> QED BY <2>1, <2>2 DEF CountedBy
<1>2. ASSUME CountedOnMore(r, s, a[c], -1), NEW m \in cleanup .. created
      PROVE  s[m] = IF Deleting(m) THEN 0
                    ELSE 1 + (Users(b, m) + Users(x, m) + Latch(m))
  <2>1. Users(a, m) \in Nat /\ Users(x, m) \in Nat /\ Latch(m) \in Nat
    BY UsersNat DEF Latch
  <2>2. r[m] = IF Deleting(m) THEN 0
               ELSE 1 + (Users(a, m) + Users(x, m) + Latch(m))
    BY DEF CountedBy
  <2>3. m # None
    BY DEF WriterType, None
  <2>4. Users(b, m) = IF m = a[c] THEN Users(a, m) - 1 ELSE Users(a, m)
    BY <2>3, UsersExcept
  <2>5. s[m] = IF m = a[c] THEN r[m] + (-1) ELSE r[m]
    BY <1>2 DEF CountedOnMore
  <2> QED BY <2>1, <2>2, <2>4, <2>5
<1> QED BY <1>1, <1>2 DEF CountedBy

\* the second access becomes the first
LEMMA CountMove ==
  ASSUME NEW a, NEW b, NEW x, NEW y, NEW r, NEW c \in Clients,
         WriterType, CountedBy(a, x, r), OnlyOf(c, a, b), OnlyOf(c, x, y),
         a[c] = None, b[c] = x[c], y[c] = None
  PROVE  CountedBy(b, y, r)
<1> SUFFICES ASSUME NEW m \in cleanup .. created
             PROVE  r[m] = IF Deleting(m) THEN 0
                           ELSE 1 + (Users(b, m) + Users(y, m) + Latch(m))
  BY DEF CountedBy
<1>1. Users(a, m) \in Nat /\ Users(x, m) \in Nat /\ Latch(m) \in Nat
  BY UsersNat DEF Latch
<1>2. m # None
  BY DEF WriterType, None
<1>3. Users(b, m) = IF x[c] = m THEN Users(a, m) + 1 ELSE Users(a, m)
  BY <1>2, UsersExcept
<1>4. Users(y, m) = IF x[c] = m THEN Users(x, m) - 1 ELSE Users(x, m)
  BY <1>2, UsersExcept
<1>5. r[m] = IF Deleting(m) THEN 0 ELSE 1 + (Users(a, m) + Users(x, m) + Latch(m))
  BY DEF CountedBy
<1> QED BY <1>1, <1>3, <1>4, <1>5

-----------------------------------------------------------------------------
(* The inductive invariant.                                                *)

\* node n may be counted: it is not deleted nor being deleted
Present(n) == n \in cleanup .. created /\ ~Deleting(n)

\* places where a client has its read_index or the lock on oldest
Anchored == {"find", "walk", "take", "unlock", "ready", "skip", "skipRelease",
             "go", "access", "release"}

HoldOf(c) ==
  /\ pc[c] # "spin"
  /\ pc[c] \in Anchored => Present(at[c])
  /\ pc[c] \notin Anchored => at[c] = None
  /\ pc[c] \in {"held", "skipRelease", "release"} => nx[c] # None
  /\ pc[c] \notin {"unlock", "held", "skipRelease", "release"} => nx[c] = None
  /\ nx[c] # None => Present(nx[c])
  /\ pc[c] \in {"grab", "walk", "take"} => loc[c].ed <= created
  /\ pc[c] \in {"skip", "skipRelease", "go"} => loc[c].op \in {"read", "flushOne"}

HoldInv == \A c \in Clients : HoldOf(c)

\* while the latch is there the oldest node is the one it is on
SaveInv == saveup # "NoSaveUp" => oldest = 1

IInv == TypeOK /\ WriterInv /\ HoldInv /\ SaveInv /\ AccessCounted

LEMMA TypeOfWriter == TypeOK => WriterType
BY EntryAssumption DEF TypeOK, WriterType, Before, Nodes

LEMMA InitIInv == Init => IInv
<1> SUFFICES ASSUME Init PROVE IInv
  OBVIOUS
<1>1. TypeOK
  BY EntryAssumption DEF Init, TypeOK, Nodes, None, Locals, NoLocals
<1>2. WriterInv
  BY WriterInit
<1>3. HoldInv
  BY DEF Init, HoldInv, HoldOf, Anchored
<1>4. SaveInv
  BY DEF Init, SaveInv
<1>5. AccessCounted
  <2> SUFFICES ASSUME NEW n \in 0 .. 1
               PROVE  ra[n] = IF Deleting(n) THEN 0 ELSE 1 + Accesses(n)
    BY DEF Init, AccessCounted
  <2>1. Users(at, n) = 0 /\ Users(nx, n) = 0
    BY UsersNone DEF Init, None
  <2>2. Latch(n) = IF n = 1 /\ Reserved THEN 1 ELSE 0
    BY DEF Init, Latch
  <2>3. ra[n] = IF n = 1 /\ Reserved THEN 2 ELSE 1
    BY EntryAssumption DEF Init, Nodes
  <2> QED BY <2>1, <2>2, <2>3 DEF Init, Accesses, Deleting
<1> QED BY <1>1, <1>2, <1>3, <1>4, <1>5 DEF IInv

-----------------------------------------------------------------------------
(* What a client's step does to the counts.                                *)

LEMMA CountedAfterClient ==
  ASSUME UNCHANGED writerPart, CountedBy(at', nx', ra')
  PROVE  AccessCounted'
BY DEF writerPart, CountedBy, AccessCounted, Accesses, Deleting, Latch

LEMMA PresentIsNode ==
  ASSUME TypeOK
  PROVE  /\ cleanup .. created \subseteq Nodes
         /\ \A n : Present(n) => n \in Nodes
<1>1. created \in Nodes /\ cleanup \in Nat
  BY DEF TypeOK
<1> QED BY <1>1, EntryAssumption DEF Nodes, Present

\* counting up and down, of a node that is there
LEMMA CountStep ==
  ASSUME TypeOK, NEW n, Present(n)
  PROVE  /\ IncrementReadAccess(n) =>
              CountedOnMore(ra, ra', n, 1) /\ ra' \in [Nodes -> Nat]
         /\ ReleaseReadAccess(n) /\ ra[n] >= 2 =>
              CountedOnMore(ra, ra', n, -1) /\ ra' \in [Nodes -> Nat]
<1>1. n \in Nodes /\ cleanup .. created \subseteq Nodes
  BY PresentIsNode
<1>2. ra \in [Nodes -> Nat]
  BY DEF TypeOK
<1> QED BY <1>1, <1>2 DEF IncrementReadAccess, ReleaseReadAccess, CountedOnMore

LEMMA AddFirst ==
  ASSUME IInv, UNCHANGED writerPart, NEW c \in Clients, NEW e, Present(e),
         at[c] = None, at' = [at EXCEPT ![c] = e], nx' = nx,
         IncrementReadAccess(e)
  PROVE  AccessCounted' /\ ra' \in [Nodes -> Nat]
<1>1. WriterType /\ CountedBy(at, nx, ra)
  BY TypeOfWriter, CountedIsCountedBy DEF IInv
<1>2. OnlyOf(c, at, at') /\ at'[c] = e
  BY DEF IInv, TypeOK, OnlyOf
<1>4. CountedOnMore(ra, ra', e, 1) /\ ra' \in [Nodes -> Nat]
  BY CountStep DEF IInv
<1>5. CountedBy(at', nx, ra')
  BY <1>1, <1>2, <1>4, CountUp DEF Present
<1> QED BY <1>4, <1>5, CountedAfterClient

LEMMA AddSecond ==
  ASSUME IInv, UNCHANGED writerPart, NEW c \in Clients, NEW e, Present(e),
         nx[c] = None, nx' = [nx EXCEPT ![c] = e], at' = at,
         IncrementReadAccess(e)
  PROVE  AccessCounted' /\ ra' \in [Nodes -> Nat]
<1>1. WriterType /\ CountedBy(nx, at, ra)
  BY TypeOfWriter, CountedIsCountedBy, CountedSymmetric DEF IInv
<1>2. OnlyOf(c, nx, nx') /\ nx'[c] = e
  BY DEF IInv, TypeOK, OnlyOf
<1>4. CountedOnMore(ra, ra', e, 1) /\ ra' \in [Nodes -> Nat]
  BY CountStep DEF IInv
<1>5. CountedBy(nx', at, ra')
  BY <1>1, <1>2, <1>4, CountUp DEF Present
<1>6. CountedBy(at, nx', ra')
  BY <1>5, CountedSymmetric
<1> QED BY <1>4, <1>6, CountedAfterClient

LEMMA DropFirst ==
  ASSUME IInv, UNCHANGED writerPart, NEW c \in Clients, Present(at[c]),
         at' = [at EXCEPT ![c] = None], nx' = nx, ReleaseReadAccess(at[c])
  PROVE  AccessCounted' /\ ra' \in [Nodes -> Nat]
<1>1. WriterType /\ CountedBy(at, nx, ra)
  BY TypeOfWriter, CountedIsCountedBy DEF IInv
<1>2. OnlyOf(c, at, at') /\ at'[c] = None
  BY DEF IInv, TypeOK, OnlyOf
<1>4. ra[at[c]] >= 2
  BY <1>1, <1>2, CountDown DEF Present
<1>5. CountedOnMore(ra, ra', at[c], -1) /\ ra' \in [Nodes -> Nat]
  BY <1>4, CountStep DEF IInv
<1>6. CountedBy(at', nx, ra')
  BY <1>1, <1>2, <1>5, CountDown DEF Present
<1> QED BY <1>5, <1>6, CountedAfterClient

LEMMA DropSecond ==
  ASSUME IInv, UNCHANGED writerPart, NEW c \in Clients, Present(nx[c]),
         nx' = [nx EXCEPT ![c] = None], at' = at, ReleaseReadAccess(nx[c])
  PROVE  AccessCounted' /\ ra' \in [Nodes -> Nat]
<1>1. WriterType /\ CountedBy(nx, at, ra)
  BY TypeOfWriter, CountedIsCountedBy, CountedSymmetric DEF IInv
<1>2. OnlyOf(c, nx, nx') /\ nx'[c] = None
  BY DEF IInv, TypeOK, OnlyOf
<1>4. ra[nx[c]] >= 2
  BY <1>1, <1>2, CountDown DEF Present
<1>5. CountedOnMore(ra, ra', nx[c], -1) /\ ra' \in [Nodes -> Nat]
  BY <1>4, CountStep DEF IInv
<1>6. CountedBy(nx', at, ra')
  BY <1>1, <1>2, <1>5, CountDown DEF Present
<1>7. CountedBy(at, nx', ra')
  BY <1>6, CountedSymmetric
<1> QED BY <1>5, <1>7, CountedAfterClient

\* the next read_index is counted, this one is released
LEMMA MoveOn ==
  ASSUME IInv, UNCHANGED writerPart, NEW c \in Clients, Present(at[c]),
         at' = [at EXCEPT ![c] = nx[c]], nx' = [nx EXCEPT ![c] = None],
         ReleaseReadAccess(at[c])
  PROVE  AccessCounted' /\ ra' \in [Nodes -> Nat]
<1>1. WriterType /\ CountedBy(at, nx, ra)
  BY TypeOfWriter, CountedIsCountedBy DEF IInv
<1>2. PICK b : OnlyOf(c, at, b) /\ b[c] = None /\ OnlyOf(c, b, at')
  <2>1. [at EXCEPT ![c] = None] \in Holdings
    BY DEF IInv, TypeOK, Holdings
  <2> QED BY <2>1 DEF IInv, TypeOK, OnlyOf, Holdings
<1>3. /\ at'[c] = nx[c]
      /\ OnlyOf(c, nx, nx') /\ nx'[c] = None
  BY DEF IInv, TypeOK, OnlyOf
<1>5. ra[at[c]] >= 2
  BY <1>1, <1>2, CountDown DEF Present
<1>6. CountedOnMore(ra, ra', at[c], -1) /\ ra' \in [Nodes -> Nat]
  BY <1>5, CountStep DEF IInv
<1>7. CountedBy(b, nx, ra')
  BY <1>1, <1>2, <1>6, CountDown DEF Present
<1>8. CountedBy(at', nx', ra')
  BY <1>1, <1>2, <1>3, <1>7, CountMove
<1> QED BY <1>6, <1>8, CountedAfterClient

-----------------------------------------------------------------------------
(* Every step of a client keeps the invariant.                             *)

Places == {"out", "load", "grab", "find", "walk", "take", "unlock", "held",
           "ready", "skip", "skipRelease", "go", "spin", "access", "release"}

\* the part of TypeOK that a client can disturb, its counting left out
ClientType ==
  /\ full \in [Nodes -> BOOLEAN]
  /\ pc \in [Clients -> Places]
  /\ loc \in [Clients -> Locals]
  /\ at \in [Clients -> Nodes \cup {None}]
  /\ nx \in [Clients -> Nodes \cup {None}]
  /\ last \in [Clients -> Nat]
  /\ fault \in {"none", "lockDeleted", "walkDeleted", "spinDeleted", "nullNext"}

OthersKeep(c) ==
  OnlyOf(c, pc, pc') /\ OnlyOf(c, at, at') /\ OnlyOf(c, nx, nx') /\ OnlyOf(c, loc, loc')

\* what is to be shown of a step of client c
Kept(c) ==
  /\ UNCHANGED <<time, seq>>
  /\ OthersKeep(c)
  /\ ClientType'
  /\ HoldOf(c)'

Counted == AccessCounted /\ ra \in [Nodes -> Nat]

LEMMA ClientFacts ==
  ASSUME IInv, NEW c \in Clients
  PROVE  /\ ClientType
         /\ HoldOf(c)
         /\ created \in Nodes /\ cleanup \in Nat /\ oldest \in Nodes
         /\ latest \in Nodes /\ seq \in [Nodes -> Nat]
         /\ 1 <= oldest /\ oldest <= latest /\ latest <= created
         /\ Nodes \subseteq Nat
<1>1. ClientType
  BY DEF IInv, TypeOK, ClientType, Places
<1>2. HoldOf(c)
  BY DEF IInv, HoldInv
<1>3. /\ created \in Nodes /\ cleanup \in Nat /\ oldest \in Nodes
      /\ latest \in Nodes /\ seq \in [Nodes -> Nat]
  BY EntryAssumption DEF IInv, TypeOK, Nodes
<1>4. 1 <= oldest /\ oldest <= latest /\ latest <= created
  BY DEF IInv, WriterInv
<1>5. Nodes \subseteq Nat
  BY EntryAssumption DEF Nodes
<1> QED BY <1>1, <1>2, <1>3, <1>4, <1>5

LEMMA LocalsType ==
  /\ NoLocals \in Locals
  /\ \A o \in {"read", "flushOne"} :
       [op |-> o, want |-> 0, ed |-> None, from |-> None] \in Locals
BY DEF NoLocals, Locals, None

\* what Goto leaves of the other clients and of the types
LEMMA GotoType ==
  ASSUME ClientType, NEW c \in Clients, NEW place \in Places, Goto(c, place)
  PROVE  /\ pc' \in [Clients -> Places] /\ OnlyOf(c, pc, pc') /\ pc'[c] = place
         /\ loc' \in [Clients -> Locals] /\ OnlyOf(c, loc, loc')
<1>1. pc' = [pc EXCEPT ![c] = place]
  BY DEF Goto
<1>2. loc' = loc \/ loc' = [loc EXCEPT ![c] = NoLocals]
  BY DEF Goto
<1> QED BY <1>1, <1>2, LocalsType DEF ClientType, OnlyOf

LEMMA KeptInv ==
  ASSUME IInv, NEW c \in Clients, UNCHANGED writerPart, Kept(c), Counted'
  PROVE  IInv'
<1>1. TypeOK'
  BY DEF IInv, TypeOK, writerPart, Kept, Counted, ClientType, Places
<1>2. WriterInv' /\ SaveInv'
  BY DEF IInv, WriterInv, SaveInv, writerPart
<1>3. ASSUME NEW d \in Clients PROVE HoldOf(d)'
  <2>1. CASE d = c
    BY <2>1 DEF Kept
  <2>2. CASE d # c
    BY <2>2 DEF Kept, OthersKeep, OnlyOf, IInv, HoldInv, HoldOf, Present, Deleting,
                writerPart
  <2> QED BY <2>1, <2>2
<1> QED BY <1>1, <1>2, <1>3 DEF IInv, HoldInv, Counted

\* a step that counts nothing
LEMMA CountsNothing ==
  ASSUME IInv, UNCHANGED <<ra, at, nx>>, UNCHANGED writerPart
  PROVE  Counted'
<1>1. CountedBy(at', nx', ra')
  BY CountedIsCountedBy DEF IInv
<1> QED BY <1>1, CountedAfterClient DEF IInv, TypeOK, Counted

LEMMA StartLockInv ==
  ASSUME IInv, NEW c \in Clients, NEW o \in {"latch", "timed", "monitor"},
         StartLock(c, o)
  PROVE  Kept(c)
BY ClientFacts DEF StartLock, Kept, OthersKeep, OnlyOf, ClientType, Places, HoldOf,
   Anchored, Locals, NoLocals, None, chainVars

LEMMA LoadOldestInv ==
  ASSUME IInv, NEW c \in Clients, LoadOldest(c)
  PROVE  Kept(c)
BY ClientFacts DEF LoadOldest, Kept, OthersKeep, OnlyOf, ClientType, Places, HoldOf,
   Anchored, Locals, chainVars

LEMMA GetAccessInv ==
  ASSUME IInv, NEW c \in Clients, GetAccess(c), UNCHANGED writerPart
  PROVE  Kept(c) /\ Counted'
<1>0. PICK e : e = loc[c].ed
  OBVIOUS
<1>1. /\ ClientType /\ HoldOf(c) /\ at[c] = None
      /\ created \in Nat /\ cleanup \in Nat
      /\ e \in Int /\ e <= created
  BY <1>0, ClientFacts DEF GetAccess, ClientType, HoldOf, Anchored, Locals
<1>2. CASE Deleted(e) \/ ra[e] = 0
  <2>1. UNCHANGED <<ra, at, nx>>
    BY <1>0, <1>2 DEF GetAccess
  <2>2. Kept(c)
    BY <1>0, <1>1, <1>2 DEF GetAccess, Goto, Fault, Kept, OthersKeep, OnlyOf, ClientType,
       Places, HoldOf, Anchored, chainVars
  <2> QED BY <2>1, <2>2, CountsNothing
<1>3. CASE ~Deleted(e) /\ ra[e] # 0
  <2>1. Present(e)
    <3>1. e \in cleanup .. created
      BY <1>1, <1>3 DEF Deleted
    <3>2. ~Deleting(e)
      BY <1>3, <3>1 DEF IInv, AccessCounted
    <3> QED BY <3>1, <3>2 DEF Present
  <2>2. /\ at' = [at EXCEPT ![c] = e] /\ nx' = nx
        /\ IncrementReadAccess(e)
    BY <1>0, <1>3 DEF GetAccess
  <2>3. Counted'
    BY <1>1, <2>1, <2>2, AddFirst DEF Counted
  <2>4. e \in Nodes
    BY <2>1, PresentIsNode DEF IInv
  <2>5. Present(e)'
    BY <2>1 DEF Present, Deleting, writerPart
  <2>7. /\ pc'[c] \in {"ready", "find"} /\ at'[c] = e /\ nx'[c] = None
        /\ OnlyOf(c, pc, pc') /\ pc' \in [Clients -> Places]
    BY <1>0, <1>1, <1>3, <2>2 DEF GetAccess, Goto, ClientType, Places, HoldOf, OnlyOf
  <2>8. HoldOf(c)'
    BY <2>5, <2>7 DEF HoldOf, Anchored
  <2>9. loc' \in [Clients -> Locals] /\ OnlyOf(c, loc, loc')
    BY <1>0, <1>1, <1>3 DEF GetAccess, Goto, ClientType, Locals, NoLocals, None, OnlyOf
  <2>10. /\ at' \in [Clients -> Nodes \cup {None}] /\ OnlyOf(c, at, at')
         /\ nx' \in [Clients -> Nodes \cup {None}] /\ OnlyOf(c, nx, nx')
    BY <1>1, <2>2, <2>4 DEF ClientType, OnlyOf
  <2>11. last' \in [Clients -> Nat] /\ UNCHANGED <<time, full, seq, fault>>
    BY <1>0, <1>1, <1>3 DEF GetAccess, ClientType, chainVars
  <2>6. Kept(c)
    BY <1>1, <2>7, <2>8, <2>9, <2>10, <2>11 DEF Kept, OthersKeep, ClientType
  <2> QED BY <2>3, <2>6
<1> QED BY <1>2, <1>3

LEMMA FindLatestInv ==
  ASSUME IInv, NEW c \in Clients, NEW t \in Times, FindLatest(c, t),
         UNCHANGED writerPart
  PROVE  Kept(c) /\ Counted'
<1>1. UNCHANGED <<ra, at, nx>>
  BY DEF FindLatest
<1>2. t \in Nat
  BY EntryAssumption DEF Times
<1>3. Present(at[c])' /\ HoldOf(c) /\ created' = created
  BY <1>1, ClientFacts DEF FindLatest, HoldOf, Anchored, Present, Deleting, writerPart
<1>5. ClientType /\ latest \in Nat /\ created \in Nat /\ latest <= created
  BY ClientFacts
<1>6. loc' \in [Clients -> Locals]
  BY <1>2, <1>5 DEF FindLatest, ClientType, Locals
<1>7. pc'[c] \in {"find", "unlock", "take", "walk"}
  BY <1>5 DEF FindLatest, ClientType
<1>8. pc'[c] \in {"take", "walk"} => loc'[c].ed <= created
  BY <1>5 DEF FindLatest, ClientType, Locals
<1>9. nx'[c] = None
  BY <1>1, <1>3 DEF FindLatest, HoldOf
<1>10. HoldOf(c)'
  BY <1>3, <1>7, <1>8, <1>9 DEF HoldOf, Anchored
<1>4. Kept(c)
  BY <1>1, <1>5, <1>6, <1>10 DEF FindLatest, Fault, Kept, OthersKeep, OnlyOf,
     ClientType, Places, chainVars
<1> QED BY <1>1, <1>4, CountsNothing

\* a search ends or goes on below the node it is at
LEMMA SearchDown ==
  ASSUME NEW c, loc[c].ed \in Int
  PROVE  /\ Search(c)[1] \in {"fault", "take", "unlock", "walk"}
         /\ Search(c)[2] \in Int
         /\ Search(c)[2] <= loc[c].ed
BY DEF Search

LEMMA WalkBackInv ==
  ASSUME IInv, NEW c \in Clients, WalkBack(c), UNCHANGED writerPart
  PROVE  Kept(c) /\ Counted'
<1>1. UNCHANGED <<ra, at, nx>>
  BY DEF WalkBack
<1>2. Present(at[c])' /\ created' = created /\ HoldOf(c) /\ ClientType
  BY <1>1, ClientFacts DEF WalkBack, HoldOf, Anchored, Present, Deleting, writerPart
<1>3. loc[c].ed \in Int /\ loc[c].ed <= created /\ created \in Nat
  BY <1>2, ClientFacts DEF WalkBack, HoldOf, ClientType, Locals
<1>5. PICK to : to = Search(c)
  OBVIOUS
<1>6. /\ to[1] \in {"fault", "take", "unlock", "walk"}
      /\ to[2] \in Int /\ to[2] <= created
  BY <1>3, <1>5, SearchDown
<1>7. loc' \in [Clients -> Locals] /\ OnlyOf(c, loc, loc')
  <2>1. loc' = loc \/ loc' = [loc EXCEPT ![c].ed = to[2]]
    BY <1>5 DEF WalkBack
  <2>2. loc \in [Clients -> Locals]
    BY <1>2 DEF ClientType
  <2> QED BY <1>6, <2>1, <2>2 DEF Locals, OnlyOf
<1>8. pc'[c] \in {"take", "unlock", "walk"} /\ loc'[c].ed <= created
  BY <1>2, <1>3, <1>5, <1>6 DEF WalkBack, ClientType, Locals
<1>9. HoldOf(c)'
  BY <1>1, <1>2, <1>8 DEF WalkBack, HoldOf, Anchored
<1>4. Kept(c)
  BY <1>1, <1>2, <1>5, <1>6, <1>7, <1>9 DEF WalkBack, Fault, Kept, OthersKeep,
     OnlyOf, ClientType, Places, chainVars
<1> QED BY <1>1, <1>4, CountsNothing

LEMMA GetDataInv ==
  ASSUME IInv, NEW c \in Clients, GetData(c), UNCHANGED writerPart
  PROVE  Kept(c) /\ Counted'
<1>0. PICK e : e = loc[c].ed
  OBVIOUS
<1>1. /\ ClientType /\ HoldOf(c) /\ nx[c] = None
      /\ created \in Nat /\ cleanup \in Nat
      /\ e \in Int /\ e <= created
  BY <1>0, ClientFacts DEF GetData, ClientType, HoldOf, Locals
<1>2. Present(at[c])' /\ at' = at
  BY <1>1 DEF GetData, HoldOf, Anchored, Present, Deleting, writerPart
<1>3. CASE Deleted(e) \/ ra[e] = 0
  <2>1. UNCHANGED <<ra, at, nx>>
    BY <1>0, <1>3 DEF GetData
  <2>2. Kept(c)
    BY <1>0, <1>1, <1>2, <1>3 DEF GetData, Goto, Fault, Kept, OthersKeep, OnlyOf,
       ClientType, Places, HoldOf, Anchored, chainVars
  <2> QED BY <2>1, <2>2, CountsNothing
<1>4. CASE ~Deleted(e) /\ ra[e] # 0
  <2>1. Present(e)
    <3>1. e \in cleanup .. created
      BY <1>1, <1>4 DEF Deleted
    <3>2. ~Deleting(e)
      BY <1>4, <3>1 DEF IInv, AccessCounted
    <3> QED BY <3>1, <3>2 DEF Present
  <2>2. nx' = [nx EXCEPT ![c] = e] /\ IncrementReadAccess(e)
    BY <1>0, <1>4 DEF GetData
  <2>3. Counted'
    BY <1>1, <1>2, <2>1, <2>2, AddSecond DEF Counted
  <2>4. e \in Nodes
    BY <2>1, PresentIsNode DEF IInv
  <2>5. Present(e)'
    BY <2>1 DEF Present, Deleting, writerPart
  <2>6. Kept(c)
    BY <1>0, <1>1, <1>2, <1>4, <2>2, <2>4, <2>5 DEF GetData, Goto, Kept, OthersKeep,
       OnlyOf, ClientType, Places, HoldOf, Anchored, chainVars
  <2> QED BY <2>3, <2>6
<1> QED BY <1>3, <1>4

\* Unlock and Detach, the only ways to give up the first access
LEMMA UnlockInv ==
  ASSUME IInv, NEW c \in Clients, Unlock(c) \/ Detach(c), UNCHANGED writerPart
  PROVE  Kept(c) /\ Counted'
<1>1. ClientType /\ HoldOf(c)
  BY ClientFacts
<1>2. /\ Present(at[c])
      /\ at' = [at EXCEPT ![c] = None] /\ nx' = nx
      /\ ReleaseReadAccess(at[c])
  BY <1>1 DEF Unlock, Detach, HoldOf, Anchored
<1>3. Counted'
  BY <1>2, DropFirst DEF Counted
<1>4. nx[c] # None => Present(nx[c])'
  BY <1>1, <1>2 DEF HoldOf, Present, Deleting, writerPart
<1>5. ClientType' /\ OthersKeep(c)
  <2>1. /\ at' \in [Clients -> Nodes \cup {None}] /\ OnlyOf(c, at, at')
        /\ nx' \in [Clients -> Nodes \cup {None}] /\ OnlyOf(c, nx, nx')
    BY <1>1, <1>2 DEF ClientType, OnlyOf
  <2>2. /\ pc' \in [Clients -> Places] /\ OnlyOf(c, pc, pc')
        /\ loc' \in [Clients -> Locals] /\ OnlyOf(c, loc, loc')
    BY <1>1, GotoType DEF Unlock, Detach, Places
  <2>3. UNCHANGED <<full, last, fault>>
    BY DEF Unlock, Detach, chainVars
  <2> QED BY <1>1, <2>1, <2>2, <2>3 DEF ClientType, OthersKeep
<1>6. HoldOf(c)'
  <2>1. at'[c] = None /\ nx'[c] = nx[c]
    BY <1>1, <1>2 DEF ClientType
  <2>2. pc'[c] = IF nx[c] = None THEN "out" ELSE "held"
    BY <1>1 DEF Unlock, Detach, Goto, ClientType, HoldOf
  <2> QED BY <1>4, <2>1, <2>2 DEF HoldOf, Anchored
<1>7. UNCHANGED <<time, seq>>
  BY DEF Unlock, Detach, chainVars
<1> QED BY <1>3, <1>5, <1>6, <1>7 DEF Kept

LEMMA ReturnDataInv ==
  ASSUME IInv, NEW c \in Clients, ReturnData(c), UNCHANGED writerPart
  PROVE  Kept(c) /\ Counted'
<1>1. ClientType /\ HoldOf(c)
  BY ClientFacts
<1>2. /\ Present(nx[c])
      /\ nx' = [nx EXCEPT ![c] = None] /\ at' = at
      /\ ReleaseReadAccess(nx[c])
  BY <1>1 DEF ReturnData, HoldOf
<1>3. Counted'
  BY <1>2, DropSecond DEF Counted
<1>4. Kept(c)
  BY <1>1, <1>2 DEF ReturnData, Goto, Kept, OthersKeep, OnlyOf, ClientType,
     Places, HoldOf, Anchored, Locals, NoLocals, None, chainVars
<1> QED BY <1>3, <1>4

LEMMA BeginInv ==
  ASSUME IInv, NEW c \in Clients, NEW o \in {"read", "flushOne"},
         Begin(c, o, None, 0)
  PROVE  Kept(c)
<1>1. ClientType /\ HoldOf(c)
  BY ClientFacts
<1>2. UNCHANGED <<time, full, seq, ra, at, nx, last, fault, created, cleanup, wpc>>
  BY DEF Begin, chainVars, writeVars
<1>3. /\ pc' \in [Clients -> Places] /\ OnlyOf(c, pc, pc') /\ pc'[c] = "skip"
      /\ loc' \in [Clients -> Locals] /\ OnlyOf(c, loc, loc') /\ loc'[c].op = o
  <2>1. pc' = [pc EXCEPT ![c] = "skip"]
    BY DEF Begin
  <2>2. PICK l : /\ l \in Locals /\ l.op = o
                 /\ loc' = [loc EXCEPT ![c] = l]
    BY LocalsType DEF Begin
  <2> QED BY <1>1, <2>1, <2>2 DEF ClientType, OnlyOf, Places
<1>4. Present(at[c])' /\ nx'[c] = None
  BY <1>1, <1>2 DEF Begin, HoldOf, Anchored, Present, Deleting
<1>5. HoldOf(c)'
  BY <1>3, <1>4 DEF HoldOf, Anchored
<1> QED BY <1>1, <1>2, <1>3, <1>5 DEF Kept, OthersKeep, OnlyOf, ClientType

\* counting the node after read_index, or meeting the end of the chain
LEMMA CountNextInv ==
  ASSUME IInv, NEW c \in Clients, NEW place \in {"skipRelease", "release"},
         pc[c] \in {"skip", "go", "access"}, CountNode(c, at[c] + 1, place),
         place = "skipRelease" => loc[c].op \in {"read", "flushOne"},
         UNCHANGED <<at, last, time, seq>>, full' \in [Nodes -> BOOLEAN],
         UNCHANGED writerPart
  PROVE  Kept(c) /\ Counted'
<1>0. PICK n : n = at[c] + 1
  OBVIOUS
<1>1. /\ ClientType /\ HoldOf(c) /\ nx[c] = None /\ Present(at[c])
      /\ created \in Nat /\ cleanup \in Nat
  BY ClientFacts DEF HoldOf, Anchored
<1>2. Present(at[c])'
  BY <1>1 DEF Present, Deleting, writerPart
<1>5. n \in Int
  BY <1>0, <1>1 DEF Present
<1>3. CASE n > created \/ Deleted(n)
  <2>1. UNCHANGED <<ra, at, nx, pc, loc>>
    BY <1>0, <1>1, <1>3, <1>5 DEF CountNode, Deleted
  <2>2. Kept(c)
    BY <1>0, <1>1, <1>2, <2>1 DEF CountNode, Fault, Kept, OthersKeep, OnlyOf,
       ClientType, HoldOf, Anchored
  <2> QED BY <2>1, <2>2, CountsNothing
<1>4. CASE ~(n > created) /\ ~Deleted(n)
  <2>1. n \in Int /\ n > cleanup
    BY <1>0, <1>1 DEF Present
  <2>2. Present(n)
    BY <1>1, <1>4, <2>1 DEF Present, Deleting, Deleted
  <2>3. /\ nx' = [nx EXCEPT ![c] = n] /\ IncrementReadAccess(n)
        /\ pc' = [pc EXCEPT ![c] = place] /\ UNCHANGED <<loc, fault>>
    BY <1>0, <1>4 DEF CountNode
  <2>4. Counted'
    BY <1>1, <2>2, <2>3, AddSecond DEF Counted
  <2>5. n \in Nodes
    BY <2>2, PresentIsNode DEF IInv
  <2>6. Present(n)'
    BY <2>2 DEF Present, Deleting, writerPart
  <2>7. HoldOf(c)'
    <3>1. pc'[c] = place /\ nx'[c] = n
      BY <1>1, <2>3 DEF ClientType
    <3>2. n # None
      BY <2>1, <1>1 DEF None
    <3> QED BY <1>2, <2>3, <2>6, <3>1, <3>2 DEF HoldOf, Anchored
  <2>8. Kept(c)
    BY <1>1, <2>3, <2>5, <2>7 DEF Kept, OthersKeep, OnlyOf, ClientType, Places
  <2> QED BY <2>4, <2>8
<1> QED BY <1>3, <1>4

LEMMA SkipGapInv ==
  ASSUME IInv, NEW c \in Clients, SkipGap(c), UNCHANGED writerPart
  PROVE  Kept(c) /\ Counted'
<1>1. ClientType /\ HoldOf(c)
  BY ClientFacts
<1>2. CASE seq[at[c]] # 0
  <2>1. UNCHANGED <<ra, at, nx>>
    BY <1>2 DEF SkipGap
  <2>2. Present(at[c])'
    BY <1>1, <2>1 DEF SkipGap, HoldOf, Anchored, Present, Deleting, writerPart
  <2>3. Kept(c)
    BY <1>1, <1>2, <2>1, <2>2 DEF SkipGap, Kept, OthersKeep, OnlyOf, ClientType,
       Places, HoldOf, Anchored, chainVars
  <2> QED BY <2>1, <2>3, CountsNothing
<1>3. CASE seq[at[c]] = 0
  BY <1>1, <1>3, CountNextInv DEF SkipGap, HoldOf, ClientType, chainVars
<1> QED BY <1>2, <1>3

LEMMA ReleasePreviousInv ==
  ASSUME IInv, NEW c \in Clients, ReleasePrevious(c), UNCHANGED writerPart
  PROVE  Kept(c) /\ Counted'
<1>1. ClientType /\ HoldOf(c)
  BY ClientFacts
<1>2. /\ Present(at[c]) /\ Present(nx[c])
      /\ at' = [at EXCEPT ![c] = nx[c]] /\ nx' = [nx EXCEPT ![c] = None]
      /\ ReleaseReadAccess(at[c])
  BY <1>1 DEF ReleasePrevious, HoldOf, Anchored
<1>3. Counted'
  BY <1>2, MoveOn DEF Counted
<1>4. HoldOf(c)'
  <2>1. at'[c] = nx[c] /\ nx'[c] = None /\ pc'[c] \in {"go", "ready"}
    BY <1>1, <1>2 DEF ReleasePrevious, Goto, ClientType
  <2>2. Present(at[c])'
    BY <1>2, <2>1 DEF Present, Deleting, writerPart
  <2>3. pc'[c] = "go" => loc'[c].op \in {"read", "flushOne"}
    BY <1>1 DEF ReleasePrevious, Goto, ClientType, HoldOf
  <2> QED BY <2>1, <2>2, <2>3 DEF HoldOf, Anchored
<1>5. ClientType' /\ OthersKeep(c)
  BY <1>1, <1>2 DEF ReleasePrevious, Goto, OthersKeep, OnlyOf, ClientType, Places,
     Locals, NoLocals, None, chainVars
<1>6. UNCHANGED <<time, seq>>
  BY DEF ReleasePrevious, chainVars
<1> QED BY <1>3, <1>4, <1>5, <1>6 DEF Kept

LEMMA LookForDataInv ==
  ASSUME IInv, NEW c \in Clients, NEW t \in Times, LookForData(c, t),
         UNCHANGED writerPart
  PROVE  Kept(c) /\ Counted'
<1>1. ClientType /\ HoldOf(c) /\ seq \in [Nodes -> Nat]
  BY ClientFacts
<1>2. UNCHANGED <<ra, at, nx>>
  BY DEF LookForData
<1>3. at[c] \in Nodes /\ Present(at[c])' /\ nx'[c] = None
  BY <1>1, <1>2, PresentIsNode DEF IInv, LookForData, HoldOf, Anchored, Present,
     Deleting, writerPart
<1>4. pc'[c] \in {"access", "ready"} /\ pc' \in [Clients -> Places] /\ OnlyOf(c, pc, pc')
  BY <1>1 DEF LookForData, Goto, ClientType, Places, OnlyOf
<1>5. HoldOf(c)'
  BY <1>3, <1>4 DEF HoldOf, Anchored
<1>6. loc' \in [Clients -> Locals] /\ OnlyOf(c, loc, loc')
  BY <1>1 DEF LookForData, Goto, ClientType, Locals, NoLocals, None, OnlyOf
<1>7. last' \in [Clients -> Nat]
  BY <1>1, <1>3 DEF LookForData, ClientType
<1>8. Kept(c)
  BY <1>1, <1>2, <1>4, <1>5, <1>6, <1>7 DEF LookForData, Kept, OthersKeep, OnlyOf,
     ClientType, chainVars
<1> QED BY <1>2, <1>8, CountsNothing

LEMMA ReleaseInv ==
  ASSUME IInv, NEW c \in Clients, UNCHANGED writerPart,
         ReleaseDataNoStep(c) \/ ReleaseData(c) \/ ReleaseOnlyAccess(c) \/ FlushTo(c)
  PROVE  Kept(c) /\ Counted'
<1>1. ClientType /\ HoldOf(c)
  BY ClientFacts
<1>2. CASE ReleaseDataNoStep(c)
  <2>1. UNCHANGED <<ra, at, nx>>
    BY <1>2 DEF ReleaseDataNoStep
  <2>2. Present(at[c])' /\ nx'[c] = None
    BY <1>1, <1>2, <2>1 DEF ReleaseDataNoStep, HoldOf, Anchored, Present, Deleting,
       writerPart
  <2>3. Kept(c)
    BY <1>1, <1>2, <2>1, <2>2 DEF ReleaseDataNoStep, Goto, Kept, OthersKeep, OnlyOf,
       ClientType, Places, HoldOf, Anchored, Locals, NoLocals, None, chainVars
  <2> QED BY <2>1, <2>3, CountsNothing
<1>3. CASE ReleaseData(c)
  BY <1>1, <1>3, CountNextInv DEF ReleaseData, ClientType, chainVars
<1>4. CASE ReleaseOnlyAccess(c)
  BY <1>1, <1>4, CountNextInv DEF ReleaseOnlyAccess, ClientType
<1>5. CASE FlushTo(c)
  <2>1. loc[c].op = "flushOne"
    BY <1>1, <1>5 DEF FlushTo, HoldOf
  <2> QED BY <1>1, <1>5, <2>1, CountNextInv DEF FlushTo, ClientType, chainVars
<1> QED BY <1>2, <1>3, <1>4, <1>5

\* what clients do that look at latest only while they are behind it
CarefulOps == Ops \subseteq {"flushOne", "keep"}

LEMMA ClientInv ==
  ASSUME CarefulOps, IInv, NEW c \in Clients, SequentialStep(c) \/ TimedStep(c)
  PROVE  IInv'
<1>1. UNCHANGED writerPart
  BY ClientLeavesWriter
<1>2. CASE \E o \in {"latch", "timed", "monitor"} : StartLock(c, o)
  <2>1. Kept(c)
    BY <1>2, StartLockInv
  <2>2. UNCHANGED <<ra, at, nx>>
    BY <1>2 DEF StartLock
  <2> QED BY <1>1, <2>1, <2>2, CountsNothing, KeptInv
<1>3. CASE LoadOldest(c)
  <2>1. UNCHANGED <<ra, at, nx>>
    BY <1>3 DEF LoadOldest
  <2> QED BY <1>1, <1>3, <2>1, LoadOldestInv, CountsNothing, KeptInv
<1>4. CASE GetAccess(c)
  BY <1>1, <1>4, GetAccessInv, KeptInv
<1>5. CASE AccessData(c) \/ FlushOne(c)
  <2>1. PICK o \in {"read", "flushOne"} : Begin(c, o, None, 0)
    BY <1>5 DEF AccessData, FlushOne
  <2>2. UNCHANGED <<ra, at, nx>>
    BY <2>1 DEF Begin
  <2> QED BY <1>1, <2>1, <2>2, BeginInv, CountsNothing, KeptInv
<1>6. CASE SkipGap(c)
  BY <1>1, <1>6, SkipGapInv, KeptInv
<1>7. CASE ReleasePrevious(c)
  BY <1>1, <1>7, ReleasePreviousInv, KeptInv
<1>8. CASE \E t \in Times : LookForData(c, t)
  BY <1>1, <1>8, LookForDataInv, KeptInv
<1>9. CASE ReleaseDataNoStep(c) \/ ReleaseData(c) \/ ReleaseOnlyAccess(c) \/ FlushTo(c)
  BY <1>1, <1>9, ReleaseInv, KeptInv
<1>10. CASE Unlock(c) \/ Detach(c)
  BY <1>1, <1>10, UnlockInv, KeptInv
<1>11. CASE \E t \in Times : FindLatest(c, t)
  BY <1>1, <1>11, FindLatestInv, KeptInv
<1>12. CASE WalkBack(c)
  BY <1>1, <1>12, WalkBackInv, KeptInv
<1>13. CASE GetData(c)
  BY <1>1, <1>13, GetDataInv, KeptInv
<1>14. CASE ReturnData(c)
  BY <1>1, <1>14, ReturnDataInv, KeptInv
<1>15. ~FlushAll(c) /\ ~SpinToLast(c) /\ ~\E t \in Times : SpinToTime(c, t)
  BY DEF CarefulOps, FlushAll, SpinToLast, SpinToTime
<1>16. ~SpinBack(c)
  BY ClientFacts DEF SpinBack, HoldOf
<1> QED BY <1>2, <1>3, <1>4, <1>5, <1>6, <1>7, <1>8, <1>9, <1>10, <1>11, <1>12,
           <1>13, <1>14, <1>15, <1>16 DEF SequentialStep, TimedStep

-----------------------------------------------------------------------------
(* Every step of the writer, and of cleaning up, keeps the invariant.      *)

\* Clients do not move: what they hold stays present, if the writer neither
\* deletes nor marks a node that is in use.
LEMMA HoldAfterWriter ==
  ASSUME HoldInv, WriterType, loc \in [Clients -> Locals], created' \in Nat,
         UNCHANGED clientVars, created <= created',
         \A n \in cleanup .. created :
           Present(n) /\ (Users(at, n) # 0 \/ Users(nx, n) # 0) => Present(n)'
  PROVE  HoldInv'
<1> SUFFICES ASSUME NEW c \in Clients PROVE HoldOf(c)'
  BY DEF HoldInv
<1>1. HoldOf(c)
  BY DEF HoldInv
<1>2. ASSUME Present(at[c]) PROVE Present(at[c])'
  <2>1. Users(at, at[c]) # 0
    BY UsersNone
  <2> QED BY <1>2, <2>1 DEF Present, clientVars
<1>3. ASSUME Present(nx[c]) PROVE Present(nx[c])'
  <2>1. Users(nx, nx[c]) # 0
    BY UsersNone
  <2> QED BY <1>3, <2>1 DEF Present, clientVars
<1>4. loc[c].ed \in Int
  BY DEF Locals
<1>5. loc[c].ed <= created => loc[c].ed <= created'
  BY <1>4 DEF WriterType
<1> QED BY <1>1, <1>2, <1>3, <1>5 DEF HoldOf, clientVars

\* The counts after a step of the writer, which no client takes part in.
LEMMA CountedAfterWriter ==
  ASSUME UNCHANGED <<at, nx>>,
         \A n \in cleanup' .. created' :
           ra'[n] = IF Deleting(n)' THEN 0
                    ELSE 1 + (Users(at, n) + Users(nx, n) + Latch(n)')
  PROVE  AccessCounted'
BY DEF AccessCounted, Accesses

\* a step that neither counts, deletes nor adds a node
LEMMA QuietWriter ==
  ASSUME IInv, UNCHANGED <<ra, cleanup, created>>, UNCHANGED clientVars,
         wpc # "delete", wpc' # "delete",
         saveup = "NoSaveUp" <=> saveup' = "NoSaveUp"
  PROVE  HoldInv' /\ Counted'
<1>1. WriterType /\ loc \in [Clients -> Locals]
  BY TypeOfWriter DEF IInv, TypeOK
<1>2. \A n : Present(n) => Present(n)'
  BY DEF Present, Deleting
<1>3. HoldInv'
  BY <1>1, <1>2, HoldAfterWriter DEF IInv, WriterType
<1>4. \A n \in cleanup .. created :
        ra[n] = 1 + (Users(at, n) + Users(nx, n) + Latch(n))
  BY DEF IInv, AccessCounted, Accesses, Deleting
<1>5. \A n : Latch(n)' = Latch(n) /\ ~Deleting(n)'
  BY DEF Latch, Deleting
<1>6. UNCHANGED <<at, nx>>
  BY DEF clientVars
<1>7. AccessCounted'
  BY <1>4, <1>5, <1>6, CountedAfterWriter
<1> QED BY <1>3, <1>7 DEF Counted, IInv, TypeOK

\* node n has no user: its count is one
LEMMA NoUsers ==
  ASSUME IInv, NEW n \in cleanup .. created, ~Deleting(n), ra[n] = 1
  PROVE  Users(at, n) = 0 /\ Users(nx, n) = 0 /\ Latch(n) = 0
<1>1. Users(at, n) \in Nat /\ Users(nx, n) \in Nat /\ Latch(n) \in Nat
  BY UsersNat DEF Latch
<1>2. ra[n] = 1 + (Users(at, n) + Users(nx, n) + Latch(n))
  BY DEF IInv, AccessCounted, Accesses
<1> QED BY <1>1, <1>2

\* tryRecycle() succeeds on a node without users, which is then marked
LEMMA TryRecycleInv ==
  ASSUME IInv, TryRecycle
  PROVE  HoldInv' /\ Counted'
<1>1. /\ WriterType /\ loc \in [Clients -> Locals] /\ WriterInv
      /\ ra \in [Nodes -> Nat] /\ cleanup .. created \subseteq Nodes
  BY TypeOfWriter, PresentIsNode DEF IInv, TypeOK
<1>2. CASE ~(cleanup + 1 # oldest /\ ra[cleanup] = 1)
  BY <1>2, QuietWriter DEF TryRecycle, chainVars, configVars
<1>3. CASE cleanup + 1 # oldest /\ ra[cleanup] = 1
  <2>1. /\ UNCHANGED <<cleanup, created, saveup>> /\ UNCHANGED clientVars
        /\ wpc = "clean" /\ wpc' = "delete"
        /\ ra' = [ra EXCEPT ![cleanup] = 0]
    BY <1>3 DEF TryRecycle, chainVars, configVars
  <2>2. cleanup \in cleanup .. created
    BY <1>1, <2>1 DEF WriterType, WriterInv
  <2>3. Users(at, cleanup) = 0 /\ Users(nx, cleanup) = 0
    BY <1>3, <2>1, <2>2, NoUsers DEF Deleting
  <2>4. \A n : Present(n) /\ (Users(at, n) # 0 \/ Users(nx, n) # 0) => Present(n)'
    BY <2>1, <2>3 DEF Present, Deleting
  <2>5. HoldInv'
    BY <1>1, <2>1, <2>4, HoldAfterWriter DEF IInv, WriterType
  <2>6. \A n \in cleanup .. created :
          ra[n] = 1 + (Users(at, n) + Users(nx, n) + Latch(n))
    BY <2>1 DEF IInv, AccessCounted, Accesses, Deleting
  <2>7. \A n : Latch(n)' = Latch(n) /\ (Deleting(n)' <=> n = cleanup)
    BY <2>1 DEF Latch, Deleting
  <2>8. \A n \in cleanup' .. created' :
          ra'[n] = IF Deleting(n)' THEN 0
                   ELSE 1 + (Users(at, n) + Users(nx, n) + Latch(n)')
    BY <1>1, <2>1, <2>6, <2>7
  <2>9. AccessCounted'
    BY <2>1, <2>8, CountedAfterWriter DEF clientVars
  <2>10. ra' \in [Nodes -> Nat]
    BY <1>1, <2>1
  <2> QED BY <2>5, <2>9, <2>10 DEF Counted
<1> QED BY <1>2, <1>3

\* the marked node is deleted, or a node without users in the final cleaning
LEMMA DeleteInv ==
  ASSUME IInv, UNCHANGED <<created, saveup>>, UNCHANGED clientVars,
         cleanup' = cleanup + 1, wpc' # "delete", cleanup <= created,
         Deleting(cleanup) \/ ra[cleanup] = 1,
         ra' = ra \/ ra' = [ra EXCEPT ![cleanup] = 0]
  PROVE  HoldInv' /\ Counted'
<1>1. /\ WriterType /\ loc \in [Clients -> Locals]
      /\ ra \in [Nodes -> Nat] /\ cleanup .. created \subseteq Nodes
  BY TypeOfWriter, PresentIsNode DEF IInv, TypeOK
<1>2. cleanup \in cleanup .. created
  BY <1>1 DEF WriterType
<1>3. Present(cleanup) => Users(at, cleanup) = 0 /\ Users(nx, cleanup) = 0
  BY <1>2, NoUsers DEF Present
<1>4. \A n \in cleanup .. created :
        Present(n) /\ (Users(at, n) # 0 \/ Users(nx, n) # 0) => Present(n)'
  BY <1>1, <1>3 DEF Present, Deleting, WriterType
<1>5. HoldInv'
  BY <1>1, <1>4, HoldAfterWriter DEF IInv, WriterType
<1>6. \A n \in (cleanup + 1) .. created :
        ra[n] = 1 + (Users(at, n) + Users(nx, n) + Latch(n))
  BY <1>1 DEF IInv, AccessCounted, Accesses, Deleting, WriterType
<1>7. \A n \in (cleanup + 1) .. created : ra'[n] = ra[n]
  BY <1>1, <1>2 DEF WriterType
<1>8. \A n : Latch(n)' = Latch(n) /\ ~Deleting(n)'
  BY DEF Latch, Deleting
<1>9. AccessCounted'
  BY <1>6, <1>7, <1>8, CountedAfterWriter DEF clientVars
<1>10. ra' \in [Nodes -> Nat]
  BY <1>1, <1>2
<1> QED BY <1>5, <1>9, <1>10 DEF Counted

\* a node is added, with a count of one
LEMMA AddNodeInv ==
  ASSUME IInv, UNCHANGED <<cleanup, saveup>>, UNCHANGED clientVars,
         created' = created + 1, created' \in Nodes,
         wpc # "delete", wpc' # "delete",
         ra' = [ra EXCEPT ![created + 1] = 1]
  PROVE  HoldInv' /\ Counted'
<1>1. /\ WriterType /\ loc \in [Clients -> Locals] /\ WriterInv /\ HoldInv
      /\ ra \in [Nodes -> Nat] /\ cleanup .. created \subseteq Nodes
  BY TypeOfWriter, PresentIsNode DEF IInv, TypeOK
<1>2. \A n : Present(n) => Present(n)'
  BY <1>1 DEF Present, Deleting, WriterType
<1>3. HoldInv'
  BY <1>1, <1>2, HoldAfterWriter DEF WriterType
<1>4. \A c \in Clients : at[c] # created + 1 /\ nx[c] # created + 1
  <2> SUFFICES ASSUME NEW c \in Clients
               PROVE  at[c] # created + 1 /\ nx[c] # created + 1
    OBVIOUS
  <2>1. HoldOf(c)
    BY <1>1 DEF HoldInv
  <2>2. at[c] = None \/ Present(at[c])
    BY <2>1 DEF HoldOf
  <2>3. nx[c] = None \/ Present(nx[c])
    BY <2>1 DEF HoldOf
  <2> QED BY <1>1, <2>2, <2>3 DEF Present, None, WriterType
<1>5. Users(at, created + 1) = 0 /\ Users(nx, created + 1) = 0
  BY <1>4, UsersNone
<1>6. \A n \in cleanup .. created :
        ra[n] = 1 + (Users(at, n) + Users(nx, n) + Latch(n))
  BY DEF IInv, AccessCounted, Accesses, Deleting
<1>7. \A n : Latch(n)' = Latch(n) /\ ~Deleting(n)'
  BY DEF Latch, Deleting
<1>8. Latch(created + 1) = 0
  BY <1>1 DEF Latch, WriterInv, WriterType
<1>9. ASSUME NEW n \in cleanup' .. created'
      PROVE  ra'[n] = 1 + (Users(at, n) + Users(nx, n) + Latch(n))
  <2>1. CASE n = created + 1
    BY <1>1, <1>5, <1>8, <2>1
  <2>2. CASE n # created + 1
    <3>1. n \in cleanup .. created
      BY <1>1, <2>2 DEF WriterType
    <3> QED BY <1>1, <1>6, <2>2, <3>1
  <2> QED BY <2>1, <2>2
<1>10. AccessCounted'
  BY <1>7, <1>9, CountedAfterWriter DEF clientVars
<1>11. ra' \in [Nodes -> Nat]
  BY <1>1
<1> QED BY <1>3, <1>10, <1>11 DEF Counted

\* saveupRemoveInner() takes the latch from the node that has it
LEMMA NotifyInv ==
  ASSUME IInv, Notify
  PROVE  HoldInv' /\ Counted'
<1>1. /\ WriterType /\ loc \in [Clients -> Locals] /\ WriterInv /\ SaveInv
      /\ ra \in [Nodes -> Nat] /\ cleanup .. created \subseteq Nodes
  BY TypeOfWriter, PresentIsNode DEF IInv, TypeOK
<1>2. CASE UNCHANGED <<saveup, ra>>
  BY <1>2, QuietWriter DEF Notify, chainVars
<1>3. CASE /\ saveup = "SaveUpTryRemove"
           /\ saveup' = "NoSaveUp"
           /\ ReleaseReadAccess(oldest)
  <2>1. /\ UNCHANGED <<cleanup, created>> /\ UNCHANGED clientVars
        /\ wpc = "notify" /\ wpc' = "idle"
    BY DEF Notify, chainVars
  <2>2. oldest = 1 /\ 1 \in cleanup .. created
    BY <1>1, <1>3, <2>1 DEF SaveInv, WriterInv, WriterType
  <2>3. \A n : Present(n) => Present(n)'
    BY <2>1 DEF Present, Deleting
  <2>4. HoldInv'
    BY <1>1, <2>1, <2>3, HoldAfterWriter DEF IInv, WriterType
  <2>5. \A n : Latch(n) = (IF n = 1 THEN 1 ELSE 0) /\ Latch(n)' = 0 /\ ~Deleting(n)'
    BY <1>3, <2>1 DEF Latch, Deleting
  <2>6. ASSUME NEW n \in cleanup .. created
        PROVE  /\ ra'[n] = 1 + (Users(at, n) + Users(nx, n) + 0)
               /\ n = 1 => ra'[n] \in Nat
    <3>1. Users(at, n) \in Nat /\ Users(nx, n) \in Nat
      BY UsersNat
    <3>2. ra[n] = 1 + (Users(at, n) + Users(nx, n) + Latch(n))
      BY <2>1 DEF IInv, AccessCounted, Accesses, Deleting
    <3> QED BY <1>1, <1>3, <2>2, <2>5, <3>1, <3>2 DEF ReleaseReadAccess
  <2>7. AccessCounted'
    BY <2>1, <2>5, <2>6, CountedAfterWriter DEF clientVars
  <2>8. ra' \in [Nodes -> Nat]
    BY <1>1, <1>3, <2>2, <2>6 DEF ReleaseReadAccess
  <2> QED BY <2>4, <2>7, <2>8 DEF Counted
<1> QED BY <1>2, <1>3 DEF Notify

\* as long as the latch is there, the node it is on is not obsolete
LEMMA ShiftOldestKeepsLatched ==
  ASSUME IInv, ShiftOldest
  PROVE  SaveInv'
<1>1. WriterType /\ WriterInv /\ SaveInv /\ ra \in [Nodes -> Nat]
  BY TypeOfWriter DEF IInv, TypeOK
<1>2. CASE saveup = "NoSaveUp"
  BY <1>2 DEF ShiftOldest, configVars, SaveInv
<1>3. CASE saveup # "NoSaveUp"
  <2>1. oldest = 1 /\ 1 \in cleanup .. created /\ ~Deleting(1) /\ Latch(1) = 1
    BY <1>1, <1>3 DEF ShiftOldest, SaveInv, WriterInv, WriterType, Deleting, Latch
  <2>2. ra[1] # 1
    BY <2>1, NoUsers
  <2>3. ~Obsolete(oldest)
    BY <2>1, <2>2 DEF Obsolete
  <2> QED BY <2>1, <2>3 DEF ShiftOldest, SaveInv, configVars
<1> QED BY <1>2, <1>3

\* The writer's nodes are within the bound.
LEMMA NodesInBound ==
  ASSUME WriterType', WriterInv'
  PROVE  created' \in Nodes /\ oldest' \in Nodes /\ latest' \in Nodes
<1>1. MaxWrites \in Nat
  BY EntryAssumption
<1>2. /\ created' \in Nat /\ oldest' \in Nat /\ latest' \in Nat
      /\ writes' \in 0 .. MaxWrites
  BY DEF WriterType
<1>3. created' <= 2 * writes' + 1 /\ oldest' <= latest' /\ latest' <= created'
  BY DEF WriterInv
<1>4. created' <= 2 * MaxWrites + 1
  <2>1. PICK w, k \in Nat : w = writes' /\ k = created'
    BY <1>1, <1>2
  <2>2. w <= MaxWrites
    BY <1>1, <1>2, <2>1
  <2>4. k <= 2 * w + 1
    BY <1>3, <2>1, Zenon
  <2>3. k <= 2 * MaxWrites + 1
    BY <1>1, <2>2, <2>4
  <2> QED BY <2>1, <2>3
<1> QED BY <1>1, <1>2, <1>3, <1>4 DEF Nodes

\* the types of what the writer fills in
LEMMA WriterFills ==
  ASSUME IInv, WriterType', WriterInv', WriterStep
  PROVE  /\ time' \in [Nodes -> Nat] /\ full' \in [Nodes -> BOOLEAN]
         /\ seq' \in [Nodes -> Nat]
         /\ start' \in Nat /\ end' \in Nat /\ wseq' \in Nat
<1>1. TypeOK /\ created \in Nodes /\ created' \in Nat /\ latest \in Nodes
  BY DEF IInv, TypeOK, WriterType
<1> USE DEF TypeOK, chainVars
<1>2. CASE \E t \in Starts, length \in Lengths : NewData(t, length)
  <2>1. PICK t \in Starts, length \in Lengths : NewData(t, length)
    BY <1>2
  <2>2. t \in Nat /\ length \in Nat
    BY EntryAssumption DEF Starts, Lengths
  <2> QED BY <1>1, <2>1, <2>2 DEF NewData
<1>3. CASE TryRecycle \/ DeleteNode \/ ShiftOldest \/ PublishLatest \/ Notify
  BY <1>1, <1>3 DEF TryRecycle, DeleteNode, ShiftOldest, PublishLatest, Notify
<1>4. CASE FillLatest
  <2>1. time' \in [Nodes -> Nat]
    BY <1>1, <1>4 DEF FillLatest
  <2>2. full' \in [Nodes -> BOOLEAN]
    BY <1>1, <1>4 DEF FillLatest
  <2> QED BY <1>1, <1>4, <2>1, <2>2 DEF FillLatest
<1>7. CASE ResetSeqId
  BY <1>1, <1>7 DEF ResetSeqId
<1>5. CASE LinkGapData
  <2>1. created + 1 \in Nodes
    BY <1>5, NodesInBound DEF LinkGapData
  <2> QED BY <1>1, <1>5, <2>1 DEF LinkGapData
<1>6. CASE LinkSentinel
  <2>1. created + 1 \in Nodes
    BY <1>6, NodesInBound DEF LinkSentinel
  <2> QED BY <1>1, <1>6, <2>1 DEF LinkSentinel
<1> QED BY <1>2, <1>3, <1>4, <1>5, <1>6, <1>7 DEF WriterStep

LEMMA WriterTypeOK ==
  ASSUME IInv, WriterType', WriterInv', ra' \in [Nodes -> Nat],
         UNCHANGED clientVars, UNCHANGED fault,
         saveup' \in {"SaveUp", "SaveUpTryRemove", "NoSaveUp"},
         time' \in [Nodes -> Nat], full' \in [Nodes -> BOOLEAN],
         seq' \in [Nodes -> Nat], start' \in Nat, end' \in Nat, wseq' \in Nat
  PROVE  TypeOK'
BY NodesInBound DEF IInv, TypeOK, WriterType, Before, clientVars

LEMMA WriterCounts ==
  ASSUME IInv, WriterType', WriterInv', WriterStep
  PROVE  /\ HoldInv' /\ Counted' /\ SaveInv'
         /\ UNCHANGED clientVars /\ UNCHANGED fault
         /\ saveup' \in {"SaveUp", "SaveUpTryRemove", "NoSaveUp"}
<1>0. /\ WriterType /\ WriterInv /\ SaveInv
      /\ saveup \in {"SaveUp", "SaveUpTryRemove", "NoSaveUp"}
  BY TypeOfWriter DEF IInv, TypeOK
<1> USE DEF chainVars, configVars
<1>1. CASE \E t \in Starts, length \in Lengths : NewData(t, length)
  BY <1>0, <1>1, QuietWriter DEF NewData, SaveInv
<1>2. CASE TryRecycle
  BY <1>0, <1>2, TryRecycleInv DEF TryRecycle, SaveInv
<1>3. CASE DeleteNode
  <2>1. cleanup <= created /\ Deleting(cleanup)
    BY <1>0, <1>3 DEF DeleteNode, WriterType, WriterInv, Deleting
  <2> QED BY <1>0, <1>3, <2>1, DeleteInv DEF DeleteNode, SaveInv
<1>4. CASE ShiftOldest
  <2>1. HoldInv' /\ Counted'
    <3>1. wpc # "delete" /\ wpc' # "delete"
      BY <1>4 DEF ShiftOldest
    <3> QED BY <1>4, <3>1, QuietWriter DEF ShiftOldest
  <2> QED BY <1>0, <1>4, <2>1, ShiftOldestKeepsLatched DEF ShiftOldest
<1>5. CASE FillLatest \/ ResetSeqId \/ PublishLatest
  BY <1>0, <1>5, QuietWriter DEF FillLatest, ResetSeqId, PublishLatest, SaveInv
<1>6. CASE LinkGapData \/ LinkSentinel
  BY <1>0, <1>6, NodesInBound, AddNodeInv DEF LinkGapData, LinkSentinel, SaveInv
<1>7. CASE Notify
  BY <1>0, <1>7, NotifyInv DEF Notify, SaveInv
<1> QED BY <1>1, <1>2, <1>3, <1>4, <1>5, <1>6, <1>7 DEF WriterStep

\* nothing that is counted changes while a marked node waits to be deleted
LEMMA MarkedStays ==
  ASSUME IInv, UNCHANGED <<ra, cleanup, created, wpc>>, UNCHANGED clientVars,
         saveup = "NoSaveUp" <=> saveup' = "NoSaveUp"
  PROVE  HoldInv' /\ Counted'
<1>1. HoldInv'
  BY DEF IInv, HoldInv, HoldOf, Present, Deleting, clientVars
<1>2. \A n : Latch(n)' = Latch(n) /\ (Deleting(n)' <=> Deleting(n))
  BY DEF Latch, Deleting
<1>3. AccessCounted'
  BY <1>2, CountedAfterWriter DEF IInv, AccessCounted, Accesses, clientVars
<1> QED BY <1>1, <1>3 DEF Counted, IInv, TypeOK

\* the steps of taking the entry down
LEMMA TakeDownCounts ==
  ASSUME IInv, RemoveSaveUp \/ ResetValid \/ CleanEntry \/ FinalDelete
  PROVE  /\ HoldInv' /\ Counted' /\ SaveInv'
         /\ UNCHANGED clientVars /\ UNCHANGED fault
         /\ saveup' \in {"SaveUp", "SaveUpTryRemove", "NoSaveUp"}
         /\ UNCHANGED <<time, full, seq, start, end, wseq>>
<1>0. /\ WriterType /\ WriterInv /\ SaveInv
      /\ saveup \in {"SaveUp", "SaveUpTryRemove", "NoSaveUp"}
  BY TypeOfWriter DEF IInv, TypeOK
<1> USE DEF chainVars, configVars, writeVars
<1>1. CASE RemoveSaveUp
  <2>1. wpc # "delete" => HoldInv' /\ Counted'
    BY <1>1, QuietWriter DEF RemoveSaveUp
  <2>2. wpc = "delete" => HoldInv' /\ Counted'
    BY <1>1, MarkedStays DEF RemoveSaveUp
  <2> QED BY <1>0, <1>1, <2>1, <2>2 DEF RemoveSaveUp, SaveInv
<1>2. CASE ResetValid \/ CleanEntry
  BY <1>0, <1>2, QuietWriter DEF ResetValid, CleanEntry, SaveInv
<1>3. CASE FinalDelete
  <2>1. CASE cleanup <= created /\ ra[cleanup] = 1
    BY <1>0, <1>3, <2>1, DeleteInv DEF FinalDelete, SaveInv
  <2>2. CASE ~(cleanup <= created /\ ra[cleanup] = 1)
    BY <1>0, <1>3, <2>2, QuietWriter DEF FinalDelete, SaveInv
  <2> QED BY <2>1, <2>2
<1> QED BY <1>1, <1>2, <1>3

LEMMA NextIInv ==
  ASSUME CarefulOps, IInv, [Next]_vars
  PROVE  IInv'
<1>0. WriterType' /\ WriterInv'
  BY TypeOfWriter, WriterNext DEF IInv
<1>1. CASE WriterStep
  BY <1>0, <1>1, WriterCounts, WriterFills, WriterTypeOK DEF IInv, Counted
<1>2. CASE RemoveSaveUp \/ ResetValid \/ CleanEntry \/ FinalDelete
  <2>1. /\ time \in [Nodes -> Nat] /\ full \in [Nodes -> BOOLEAN]
        /\ seq \in [Nodes -> Nat] /\ start \in Nat /\ end \in Nat /\ wseq \in Nat
    BY DEF IInv, TypeOK
  <2>2. TypeOK'
    BY <1>0, <1>2, <2>1, TakeDownCounts, WriterTypeOK DEF Counted
  <2> QED BY <1>0, <1>2, <2>2, TakeDownCounts DEF IInv, Counted
<1>3. CASE \E c \in Clients : SequentialStep(c) \/ TimedStep(c)
  BY <1>3, ClientInv
<1>4. CASE UNCHANGED vars
  BY <1>4 DEF vars, IInv, TypeOK, WriterInv, HoldInv, HoldOf, SaveInv, AccessCounted,
              Accesses, Latch, Deleting, Present
<1> QED BY <1>1, <1>2, <1>3, <1>4, StepCases

-----------------------------------------------------------------------------
(* Of clients that read, re-read, flush one point or keep the data (the    *)
(* operations that go from a node to the next): every variable of the      *)
(* entry keeps its type; in particular no count becomes negative.          *)
THEOREM TypesKept ==
  ASSUME CarefulOps
  PROVE  Spec => []TypeOK
<1>1. IInv => TypeOK
  BY DEF IInv
<1> QED BY <1>1, InitIInv, NextIInv, PTL DEF Spec

(* The counts that UChannelEntryData keeps are exact, with any number of   *)
(* sequential, timed and monitoring clients and any number of writes.      *)
THEOREM CountsExact ==
  ASSUME CarefulOps
  PROVE  Spec => []AccessCounted
<1>1. IInv => AccessCounted
  BY DEF IInv
<1> QED BY <1>1, InitIInv, NextIInv, PTL DEF Spec

(* newData() and cleanAllData() never delete a node that a client reads.   *)
THEOREM NothingHeldIsDeleted ==
  ASSUME CarefulOps
  PROVE  Spec => []HeldNotDeleted
<1>1. IInv => HeldNotDeleted
  <2> SUFFICES ASSUME IInv, NEW c \in Clients, NEW n \in {at[c], nx[c]} \ {None}
               PROVE  n >= cleanup /\ ~Deleting(n)
    BY DEF HeldNotDeleted
  <2>1. HoldOf(c) /\ cleanup \in Nat /\ created \in Nat
    BY ClientFacts
  <2>2. Present(n)
    BY <2>1 DEF HoldOf
  <2> QED BY <2>1, <2>2 DEF Present
<1> QED BY <1>1, InitIInv, NextIInv, PTL DEF Spec

=============================================================================
