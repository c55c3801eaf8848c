---------------------------- MODULE UChannelEntry ----------------------------
(***************************************************************************)
(* The data of one entry of a channel: dueca/UChannelEntry.cxx with        *)
(* dueca/UChannelEntryData.{hxx,cxx}.  One thread writes; reading clients, *)
(* each with its own thread, read without a lock.  The chain of            *)
(* UChannelEntryData objects is numbered from 0, the node made for         *)
(* `cleanup`; node n has older = n - 1 and newer = n + 1 once that node    *)
(* has been constructed.  Every node holds a count read_accesses of 1 plus *)
(* the accesses out on it, and what the writer may delete depends on these *)
(* counts alone.  Each load, store or atomic operation that other threads  *)
(* can tell apart is a step.                                               *)
(*                                                                         *)
(* Undefined behaviour ends the run: `fault` names it and Next stops.      *)
(***************************************************************************)
EXTENDS Integers, FiniteSets

CONSTANTS
  SeqClients,    \* clients that read every data point (ReadAllData)
  TimedClients,  \* clients that read by time
  Monitors,      \* the channel manager, looking at the latest data
  EventType,     \* eventtype: event data instead of stream data
  Reserved,      \* nreservations > 0: data saved up for expected readers
  Span, Depth,   \* span and depth to keep for timed readers
  Preemption,    \* TRUE: a reader may be held up in AccessLockOldest while
                 \* the writer starts another newData()
  Ops,           \* what sequential clients do besides accessData/releaseData
  MaxWrites,     \* bound: calls of newData()
  MaxTime,       \* bound: last start time of a write
  MaxJump,       \* bound: ticks between the end of one write and the next
  MaxLength      \* bound: ticks for which stream data is valid

Clients == SeqClients \cup TimedClients \cup Monitors

ASSUME EntryAssumption ==
  /\ IsFiniteSet(Clients)
  /\ SeqClients \cap TimedClients = {}
  /\ Monitors \cap (SeqClients \cup TimedClients) = {}
  /\ EventType \in BOOLEAN
  /\ Reserved \in BOOLEAN
  /\ Preemption \in BOOLEAN
  /\ Span \in Nat
  /\ Depth \in Nat
  /\ MaxWrites \in Nat
  /\ MaxTime \in Nat
  /\ MaxJump \in Nat
  /\ MaxLength \in Nat \ {0}
  /\ Ops \subseteq {"flushOne", "flushAll", "spin", "spinTo", "keep"}

\* Every write constructs at most two nodes, the second one for a gap.
Nodes  == 0 .. (2 * MaxWrites + 1)
None   == -1
Times  == 0 .. (MaxTime + MaxLength)

\* The operation a client is in, the time it asked for, its local node
\* pointer, and (history) the newest data point when a search by time began.
Locals == [op : {"none", "latch", "timed", "monitor", "read", "flushOne",
                 "flushAll", "spin", "spinTo"},
           want : Nat, ed : Int, from : Int]
NoLocals == [op |-> "none", want |-> 0, ed |-> None, from |-> None]

VARIABLES
  time,     \* time_or_time_end
  full,     \* data # NULL
  seq,      \* seq_id
  ra,       \* read_accesses
  created,  \* the newest node constructed; node n has newer # NULL iff n < created
  cleanup,  \* UChannelEntry::cleanup; nodes before it have been deleted
  oldest,   \* UChannelEntry::oldest
  latest,   \* UChannelEntry::latest
  saveup,   \* UChannelEntry::saveup
  valid,    \* UChannelEntry::valid
  wpc,      \* where the writing thread is
  start,    \* validity start of the data being written
  end,      \* its validity end
  wseq,     \* latest_seqid in newData()
  writes,   \* bound: calls of newData() so far
  pc,       \* where each client is
  at,       \* node a client has counted: its read_index, or the lock on oldest
  nx,       \* second node it has counted: the next read_index, or `accessed`
  loc,      \* its local variables while it is in an operation
  last,     \* UCEntryClientLink::seq_id, of the data point read last
  fault     \* undefined behaviour met, or "none"

chainVars  == <<time, full, seq, created>>
configVars == <<saveup, valid>>
writeVars  == <<wpc, start, end, wseq, writes>>
clientVars == <<pc, at, nx, loc, last>>
vars == <<time, full, seq, ra, created, cleanup, oldest, latest, saveup, valid,
          wpc, start, end, wseq, writes, pc, at, nx, loc, last, fault>>

\* Constructor: an empty node, and the sentinel that is oldest and latest.
Init ==
  /\ time = [n \in Nodes |-> 0]
  /\ full = [n \in Nodes |-> FALSE]
  /\ seq = [n \in Nodes |-> IF n = 1 THEN 1 ELSE 0]
  /\ ra = [n \in Nodes |-> IF n = 1 /\ Reserved THEN 2
                           ELSE IF n <= 1 THEN 1 ELSE 0]
  /\ created = 1
  /\ cleanup = 0
  /\ oldest = 1
  /\ latest = 1
  /\ saveup = IF Reserved THEN "SaveUp" ELSE "NoSaveUp"
  /\ valid = TRUE
  /\ wpc = "idle"
  /\ start = 0
  /\ end = 0
  /\ wseq = 0
  /\ writes = 0
  /\ pc = [c \in Clients |-> "out"]
  /\ at = [c \in Clients |-> None]
  /\ nx = [c \in Clients |-> None]
  /\ loc = [c \in Clients |-> NoLocals]
  /\ last = [c \in Clients |-> 0]
  /\ fault = "none"

Deleted(n) == n < cleanup
Linked(n)  == n < created           \* getNext() # NULL

IncrementReadAccess(n) == ra' = [ra EXCEPT ![n] = @ + 1]
ReleaseReadAccess(n)   == ra' = [ra EXCEPT ![n] = @ - 1]

Goto(c, place) ==                  \* goes on, or leaves the operation
  /\ pc' = [pc EXCEPT ![c] = place]
  /\ loc' = IF place \in {"out", "held", "ready"}
            THEN [loc EXCEPT ![c] = NoLocals] ELSE loc

Fault(what) == fault' = what

-----------------------------------------------------------------------------
(* The writing thread, newData().  An event is valid at one tick, stream   *)
(* data from start up to end.                                              *)

Lengths == IF EventType THEN {0} ELSE 1 .. MaxLength

\* from one tick too early up to MaxJump ticks after the last write
Starts ==
  LET previous == IF EventType THEN start ELSE time[latest]
  IN  {t \in 0 .. MaxTime : previous - 1 <= t /\ t <= previous + MaxJump}

NewData(t, length) ==
  /\ wpc = "idle"
  /\ valid
  /\ writes < MaxWrites
  /\ Preemption \/ \A c \in Clients : pc[c] # "grab"
  /\ writes' = writes + 1
  /\ start' = t
  /\ end' = t + length
  /\ wseq' = seq[latest]
  /\ wpc' = "clean"
  /\ UNCHANGED <<chainVars, ra, cleanup, oldest, latest, configVars, clientVars,
                 fault>>

\* slip: the count is not looked at
TryRecycleHeld ==
  /\ wpc = "clean"
  /\ wpc' = IF cleanup + 1 # oldest THEN "delete" ELSE "shift"
  /\ ra' = IF cleanup + 1 # oldest THEN [ra EXCEPT ![cleanup] = 0] ELSE ra
  /\ UNCHANGED <<chainVars, cleanup, oldest, latest, configVars, start, end, wseq,
                 writes, clientVars, fault>>

\* slip: does not look whether cleanup has come to oldest
TryRecycleAny ==
  /\ wpc = "clean"
  /\ wpc' = IF ra[cleanup] = 1 THEN "delete" ELSE "shift"
  /\ ra' = IF ra[cleanup] = 1 THEN [ra EXCEPT ![cleanup] = 0] ELSE ra
  /\ UNCHANGED <<chainVars, cleanup, oldest, latest, configVars, start, end, wseq,
                 writes, clientVars, fault>>

\* while (cleanup->getNext() != oldest && cleanup->tryRecycle())
TryRecycle ==
  /\ wpc = "clean"
  /\ IF cleanup + 1 # oldest /\ ra[cleanup] = 1
     THEN /\ ra' = [ra EXCEPT ![cleanup] = 0]
          /\ wpc' = "delete"
     ELSE /\ wpc' = "shift"
          /\ UNCHANGED ra
  /\ UNCHANGED <<chainVars, cleanup, oldest, latest, configVars, start, end, wseq,
                 writes, clientVars, fault>>

DeleteNode ==
  /\ wpc = "delete"
  /\ cleanup' = cleanup + 1
  /\ wpc' = "clean"
  /\ UNCHANGED <<chainVars, ra, oldest, latest, configVars, start, end, wseq, writes,
                 clientVars, fault>>

\* slips: readers or the span are forgotten
ObsoleteHeld(n) ==
  time[n] + Span < start /\ Linked(n) /\ (full[n + 1] \/ seq[n + 1] = 0)
ObsoleteNoSpan(n) ==
  time[n] < start /\ ra[n] = 1 /\ Linked(n) /\ (full[n + 1] \/ seq[n + 1] = 0)

Obsolete(n) ==
  /\ time[n] + Span < start
  /\ ra[n] = 1
  /\ Linked(n)
  /\ full[n + 1] \/ seq[n + 1] = 0

\* make too-old entries unavailable for new reads; then which case it is
ShiftOldest ==
  /\ wpc = "shift"
  /\ IF Obsolete(oldest) /\ seq[latest] - seq[oldest] > Depth
     THEN /\ oldest' = oldest + 1
          /\ UNCHANGED wpc
     ELSE /\ wpc' = IF EventType \/ wseq = 1 THEN "fill"
                    ELSE IF time[latest] < start THEN "gapReset"
                    ELSE IF end > time[latest] THEN "fill"
                    ELSE "idle"             \* not sequential, return
          /\ UNCHANGED oldest
  /\ UNCHANGED <<chainVars, ra, cleanup, latest, configVars, start, end, wseq, writes,
                 clientVars, fault>>

\* latest->setTime(), where it is called, and latest->setData()
FillLatest ==
  /\ wpc = "fill"
  /\ time' = IF EventType \/ wseq = 1 THEN [time EXCEPT ![latest] = start]
             ELSE time
  /\ full' = [full EXCEPT ![latest] = TRUE]
  /\ wpc' = "link"
  /\ UNCHANGED <<seq, ra, created, cleanup, oldest, latest, configVars, start, end,
                 wseq, writes, clientVars, fault>>

\* a gap: first the sequence id of the sentinel is reset ...
ResetSeqId ==
  /\ wpc = "gapReset"
  /\ seq' = [seq EXCEPT ![latest] = 0]
  /\ wpc' = "gapLink"
  /\ UNCHANGED <<time, full, ra, created, cleanup, oldest, latest, configVars,
                 start, end, wseq, writes, clientVars, fault>>

\* slip: the gap takes a sequence id
LinkGapDataNextId ==
  /\ wpc = "gapLink"
  /\ created' = created + 1
  /\ time' = [time EXCEPT ![created + 1] = start]
  /\ full' = [full EXCEPT ![created + 1] = TRUE]
  /\ seq' = [seq EXCEPT ![created + 1] = wseq + 1]
  /\ ra' = [ra EXCEPT ![created + 1] = 1]
  /\ wpc' = "link"
  /\ UNCHANGED <<cleanup, oldest, latest, configVars, start, end, wseq, writes,
                 clientVars, fault>>

\* ... then the node with the data is added to it
LinkGapData ==
  /\ wpc = "gapLink"
  /\ created' = created + 1
  /\ time' = [time EXCEPT ![created + 1] = start]
  /\ full' = [full EXCEPT ![created + 1] = TRUE]
  /\ seq' = [seq EXCEPT ![created + 1] = wseq]
  /\ ra' = [ra EXCEPT ![created + 1] = 1]
  /\ wpc' = "link"
  /\ UNCHANGED <<cleanup, oldest, latest, configVars, start, end, wseq, writes,
                 clientVars, fault>>

\* the constructor of the new sentinel makes it current->newer ...
LinkSentinel ==
  /\ wpc = "link"
  /\ created' = created + 1
  /\ time' = [time EXCEPT ![created + 1] = IF EventType THEN 0 ELSE end]
  /\ seq' = [seq EXCEPT ![created + 1] = seq[created] + 1]
  /\ ra' = [ra EXCEPT ![created + 1] = 1]
  /\ wpc' = "publish"
  /\ UNCHANGED <<full, cleanup, oldest, latest, configVars, start, end, wseq, writes,
                 clientVars, fault>>

\* ... and only then it is assigned to latest
PublishLatest ==
  /\ wpc = "publish"
  /\ latest' = created
  /\ wpc' = "notify"
  /\ UNCHANGED <<chainVars, ra, cleanup, oldest, configVars, start, end, wseq, writes,
                 clientVars, fault>>

\* saveupRemoveInner(), which returns if some client has not yet seen the
\* latest configuration; then triggers and packers
Notify ==
  /\ wpc = "notify"
  /\ wpc' = "idle"
  /\ \/ /\ saveup = "SaveUpTryRemove"
        /\ saveup' = "NoSaveUp"
        /\ ReleaseReadAccess(oldest)
     \/ UNCHANGED <<saveup, ra>>
  /\ UNCHANGED <<chainVars, cleanup, oldest, latest, valid, start, end, wseq, writes,
                 clientVars, fault>>

\* RemoveSaveupCmd: all reservations were claimed
RemoveSaveUp ==
  /\ saveup = "SaveUp"
  /\ saveup' = "SaveUpTryRemove"
  /\ UNCHANGED <<chainVars, ra, cleanup, oldest, latest, valid, writeVars,
                 clientVars, fault>>

WriterStep ==
  \/ \E t \in Starts, length \in Lengths : NewData(t, length)
  \/ TryRecycle
  \/ DeleteNode
  \/ ShiftOldest
  \/ FillLatest
  \/ ResetSeqId
  \/ LinkGapData
  \/ LinkSentinel
  \/ PublishLatest
  \/ Notify

-----------------------------------------------------------------------------
(* AccessLockOldest, first step of linking a sequential client             *)
(* (latchSequentialRead), of a timed read and of monitoring.               *)

StartLock(c, o) ==
  /\ pc[c] = "out"
  /\ IF o = "monitor" THEN wpc # "cleaned" ELSE valid
  /\ pc' = [pc EXCEPT ![c] = "load"]
  /\ loc' = [loc EXCEPT ![c] = [NoLocals EXCEPT !.op = o]]
  /\ UNCHANGED <<chainVars, ra, cleanup, oldest, latest, configVars, writeVars,
                 at, nx, last, fault>>

LoadOldest(c) ==
  /\ pc[c] = "load"
  /\ pc' = [pc EXCEPT ![c] = "grab"]
  /\ loc' = [loc EXCEPT ![c].ed = oldest]
  /\ UNCHANGED <<chainVars, ra, cleanup, oldest, latest, configVars, writeVars,
                 at, nx, last, fault>>

\* getAccess(): fails on a node marked for deletion, then oldest is read again
GetAccess(c) ==
  /\ pc[c] = "grab"
  /\ LET e == loc[c].ed
     IN  \/ /\ Deleted(e)
            /\ Fault("lockDeleted")
            /\ UNCHANGED <<ra, at, pc, loc, last>>
         \/ /\ ~Deleted(e)
            /\ ra[e] = 0
            /\ Goto(c, "load")
            /\ UNCHANGED <<ra, at, last, fault>>
         \/ /\ ~Deleted(e)
            /\ ra[e] # 0
            /\ IncrementReadAccess(e)
            /\ at' = [at EXCEPT ![c] = e]
            /\ last' = [last EXCEPT ![c] = 0]
            /\ Goto(c, IF loc[c].op = "latch" THEN "ready" ELSE "find")
            /\ UNCHANGED fault
  /\ UNCHANGED <<chainVars, cleanup, oldest, latest, configVars, writeVars, nx>>

-----------------------------------------------------------------------------
(* Timed reading, accessData() for a client that is not sequential, and    *)
(* monitorLatestData().                                                    *)

AfterTick(n, t)     == time[n] > t
OnOrAfterTick(n, t) == time[n] >= t

\* t is the time asked for; it is not looked at before
FindLatest(c, t) ==
  /\ pc[c] = "find"
  /\ LET e == latest - 1
     IN  IF Deleted(e)
         THEN Fault("walkDeleted") /\ UNCHANGED <<pc, loc>>
         ELSE /\ loc' = [loc EXCEPT ![c].ed = e, ![c].from = e,
                                    ![c].want = IF c \in Monitors THEN 0 ELSE t]
              /\ pc' = [pc EXCEPT ![c] =
                          IF ~full[e] THEN "unlock"
                          ELSE IF loc[c].op = "monitor" THEN "take" ELSE "walk"]
              /\ UNCHANGED fault
  /\ UNCHANGED <<chainVars, ra, cleanup, oldest, latest, configVars, writeVars,
                 at, nx, last>>

\* slips: does not stop at the locked node, does not see a gap, does not move
SearchPastLock(c) ==
  IF Deleted(loc[c].ed) THEN <<"fault", loc[c].ed>>
  ELSE IF ~AfterTick(loc[c].ed, loc[c].want) THEN <<"take", loc[c].ed>>
  ELSE <<"walk", loc[c].ed - 1>>
SearchOverGap(c) ==
  LET e     == loc[c].ed
      older == IF seq[e - 1] = 0 THEN e - 2 ELSE e - 1
  IN  IF Deleted(e) \/ Deleted(older) THEN <<"fault", e>>
      ELSE IF ~AfterTick(e, loc[c].want) THEN <<"take", e>>
      ELSE IF e = at[c] THEN <<"unlock", e>>
      ELSE <<"walk", older>>
SearchInPlace(c) ==
  IF AfterTick(loc[c].ed, loc[c].want) /\ loc[c].ed # at[c]
  THEN <<"walk", loc[c].ed>> ELSE <<"take", loc[c].ed>>

\* One turn of while (ed->afterTick(t_latest)) ends the search, goes on with
\* an older node (over a gap), or follows a pointer into a deleted node.
Search(c) ==
  LET e     == loc[c].ed
      t     == loc[c].want
      gap   == seq[e - 1] = 0
      older == IF gap THEN e - 2 ELSE e - 1
  IN  IF Deleted(e) THEN <<"fault", e>>
      ELSE IF ~AfterTick(e, t) THEN <<"take", e>>
      ELSE IF e = at[c] THEN <<"unlock", e>>
      ELSE IF Deleted(e - 1) THEN <<"fault", e>>
      ELSE IF gap /\ ~AfterTick(e - 1, t) THEN <<"unlock", e>>
      ELSE IF Deleted(older) THEN <<"fault", e>>
      ELSE IF gap /\ older = at[c] /\ AfterTick(older, t) THEN <<"unlock", e>>
      ELSE <<"walk", older>>

WalkBack(c) ==
  /\ pc[c] = "walk"
  /\ IF Search(c)[1] = "fault"
     THEN Fault("walkDeleted") /\ UNCHANGED <<pc, loc>>
     ELSE /\ pc' = [pc EXCEPT ![c] = Search(c)[1]]
          /\ loc' = [loc EXCEPT ![c].ed = Search(c)[2]]
          /\ UNCHANGED fault
  /\ UNCHANGED <<chainVars, ra, cleanup, oldest, latest, configVars, writeVars,
                 at, nx, last>>

\* getData() and monitorGetData(): count the access unless being deleted
GetData(c) ==
  /\ pc[c] = "take"
  /\ Goto(c, "unlock")
  /\ LET e == loc[c].ed
     IN  \/ /\ Deleted(e)
            /\ Fault("walkDeleted")
            /\ UNCHANGED <<ra, nx>>
         \/ /\ ~Deleted(e)
            /\ ra[e] = 0
            /\ UNCHANGED <<ra, nx, fault>>
         \/ /\ ~Deleted(e)
            /\ ra[e] # 0
            /\ IncrementReadAccess(e)
            /\ nx' = [nx EXCEPT ![c] = e]
            /\ UNCHANGED fault
  /\ UNCHANGED <<chainVars, cleanup, oldest, latest, configVars, writeVars, at,
                 last>>

\* slip: the lock is not released
UnlockKeeps(c) ==
  /\ pc[c] = "unlock"
  /\ at' = [at EXCEPT ![c] = None]
  /\ Goto(c, IF nx[c] = None THEN "out" ELSE "held")
  /\ UNCHANGED <<chainVars, ra, cleanup, oldest, latest, configVars, writeVars, nx,
                 last, fault>>

\* ~AccessLockOldest
Unlock(c) ==
  /\ pc[c] = "unlock"
  /\ ReleaseReadAccess(at[c])
  /\ at' = [at EXCEPT ![c] = None]
  /\ Goto(c, IF nx[c] = None THEN "out" ELSE "held")
  /\ UNCHANGED <<chainVars, cleanup, oldest, latest, configVars, writeVars, nx,
                 last, fault>>

\* returnData(), monitorReturnData(): the client is ready with the data
ReturnData(c) ==
  /\ pc[c] = "held"
  /\ ReleaseReadAccess(nx[c])
  /\ nx' = [nx EXCEPT ![c] = None]
  /\ Goto(c, "out")
  /\ UNCHANGED <<chainVars, cleanup, oldest, latest, configVars, writeVars, at,
                 last, fault>>

TimedStep(c) ==
  \/ c \in TimedClients /\ StartLock(c, "timed")
  \/ c \in Monitors /\ StartLock(c, "monitor")
  \/ LoadOldest(c)
  \/ GetAccess(c)
  \/ \E t \in Times : FindLatest(c, t)
  \/ WalkBack(c)
  \/ GetData(c)
  \/ Unlock(c)
  \/ ReturnData(c)

-----------------------------------------------------------------------------
(* Sequential reading.  A linked client always has its read_index (at)     *)
(* counted; every operation counts the next node before it releases this.  *)

Begin(c, o, node, t) ==
  /\ pc[c] = "ready"
  /\ pc' = [pc EXCEPT ![c] = IF o = "spinTo" THEN "spin" ELSE "skip"]
  /\ loc' = [loc EXCEPT ![c] =
               [op |-> o, want |-> t, ed |-> node, from |-> None]]
  /\ UNCHANGED <<chainVars, ra, cleanup, oldest, latest, configVars, writeVars,
                 at, nx, last, fault>>

AccessData(c) == valid /\ Begin(c, "read", None, 0)

FlushOne(c) ==
  /\ "flushOne" \in Ops
  /\ at[c] # latest
  /\ Begin(c, "flushOne", None, 0)

FlushAll(c) ==
  /\ "flushAll" \in Ops
  /\ at[c] # latest
  /\ Begin(c, "flushAll", latest, 0)

SpinToLast(c) ==
  /\ "spin" \in Ops
  /\ at[c] # latest - 1
  /\ Begin(c, "spin", latest - 1, 0)

SpinToTime(c, t) ==
  /\ "spinTo" \in Ops
  /\ full[latest - 1]
  /\ Begin(c, "spinTo", latest - 1, t)

\* incrementReadAccess() on a node reached from read_index
CountNode(c, n, place) ==
  \/ /\ n > created                         \* getNext() gave NULL
     /\ Fault("nullNext")
     /\ UNCHANGED <<pc, loc, ra, nx>>
  \/ /\ n <= created
     /\ Deleted(n)
     /\ Fault("spinDeleted")
     /\ UNCHANGED <<pc, loc, ra, nx>>
  \/ /\ n <= created
     /\ ~Deleted(n)
     /\ IncrementReadAccess(n)
     /\ nx' = [nx EXCEPT ![c] = n]
     /\ pc' = [pc EXCEPT ![c] = place]
     /\ UNCHANGED <<loc, fault>>

\* if (ed->seqId() == 0) { ed = ed->getNext(); ed->incrementReadAccess(); ...
SkipGap(c) ==
  /\ pc[c] = "skip"
  /\ \/ /\ seq[at[c]] # 0
        /\ pc' = [pc EXCEPT ![c] = "go"]
        /\ UNCHANGED <<loc, ra, nx, fault>>
     \/ /\ seq[at[c]] = 0
        /\ CountNode(c, at[c] + 1, "skipRelease")
  /\ UNCHANGED <<chainVars, cleanup, oldest, latest, configVars, writeVars, at,
                 last>>

\* ... releaseReadAccess() on the node left, and read_index = ed
ReleasePrevious(c) ==
  /\ pc[c] \in {"skipRelease", "release"}
  /\ ReleaseReadAccess(at[c])
  /\ at' = [at EXCEPT ![c] = nx[c]]
  /\ nx' = [nx EXCEPT ![c] = None]
  /\ Goto(c, IF pc[c] = "skipRelease" THEN "go" ELSE "ready")
  /\ UNCHANGED <<chainVars, cleanup, oldest, latest, configVars, writeVars, last,
                 fault>>

\* getSequentialData() when there is a sentinel behind it and it is not after
\* the time t asked for; NULL, no data, if it became a gap or was taken
LookForData(c, t) ==
  /\ pc[c] = "go"
  /\ loc[c].op = "read"
  /\ IF Linked(at[c]) /\ ~AfterTick(at[c], t)
     THEN /\ last' = [last EXCEPT ![c] = seq[at[c]]]
          /\ Goto(c, IF full[at[c]] THEN "access" ELSE "ready")
     ELSE /\ Goto(c, "ready")
          /\ UNCHANGED last
  /\ UNCHANGED <<chainVars, ra, cleanup, oldest, latest, configVars, writeVars,
                 at, nx, fault>>

\* slip: does not count the node again before returning the data
ReleaseDataNoStepOnce(c) ==
  /\ pc[c] = "access"
  /\ ReleaseReadAccess(at[c])
  /\ Goto(c, "ready")
  /\ UNCHANGED <<chainVars, cleanup, oldest, latest, configVars, writeVars,
                 at, nx, last, fault>>

\* releaseDataNoStep() counts and releases the same node
ReleaseDataNoStep(c) ==
  /\ pc[c] = "access"
  /\ Goto(c, "ready")
  /\ UNCHANGED <<chainVars, ra, cleanup, oldest, latest, configVars, writeVars,
                 at, nx, last, fault>>

\* releaseData(): read_index becomes the next node
ReleaseData(c) ==
  /\ pc[c] = "access"
  /\ CountNode(c, at[c] + 1, "release")
  /\ UNCHANGED <<chainVars, cleanup, oldest, latest, configVars, writeVars, at,
                 last>>

\* releaseOnlyAccess(), assumeData(): the client keeps the data
ReleaseOnlyAccess(c) ==
  /\ "keep" \in Ops
  /\ pc[c] = "access"
  /\ CountNode(c, at[c] + 1, "release")
  /\ full' = [full EXCEPT ![at[c]] = FALSE]
  /\ UNCHANGED <<time, seq, created, cleanup, oldest, latest, configVars,
                 writeVars, at, last>>

\* flushOne() to the next node, flushAll() and spinToLast() to the node found
FlushTo(c) ==
  /\ pc[c] = "go"
  /\ loc[c].op # "read"
  /\ CountNode(c, IF loc[c].op = "flushOne" THEN at[c] + 1 ELSE loc[c].ed,
               "release")
  /\ UNCHANGED <<chainVars, cleanup, oldest, latest, configVars, writeVars, at,
                 last>>

\* spinToLast(client, t_latest): back from the latest data while it is later
SpinBack(c) ==
  /\ pc[c] = "spin"
  /\ LET e      == loc[c].ed
         late   == IF EventType THEN OnOrAfterTick(e, loc[c].want)
                   ELSE AfterTick(e, loc[c].want)
         target == IF seq[e] = 0 THEN e + 1 ELSE e
     IN  IF Deleted(e) \/ e = None
         THEN Fault("spinDeleted") /\ UNCHANGED <<pc, loc>>
         ELSE /\ UNCHANGED fault
              /\ IF late /\ e # at[c]
                 THEN loc' = [loc EXCEPT ![c].ed = e - 1] /\ UNCHANGED pc
                 ELSE IF target = at[c]
                 THEN Goto(c, "ready")
                 ELSE /\ loc' = [loc EXCEPT ![c].ed = target]
                      /\ pc' = [pc EXCEPT ![c] = "go"]
  /\ UNCHANGED <<chainVars, ra, cleanup, oldest, latest, configVars, writeVars,
                 at, nx, last>>

\* detachReadClientFromEntry()
Detach(c) ==
  /\ pc[c] = "ready"
  /\ ReleaseReadAccess(at[c])
  /\ at' = [at EXCEPT ![c] = None]
  /\ Goto(c, "out")
  /\ UNCHANGED <<chainVars, cleanup, oldest, latest, configVars, writeVars, nx,
                 last, fault>>

SequentialStep(c) ==
  \/ StartLock(c, "latch")
  \/ LoadOldest(c)
  \/ GetAccess(c)
  \/ AccessData(c)
  \/ FlushOne(c)
  \/ FlushAll(c)
  \/ SpinToLast(c)
  \/ \E t \in Times : SpinToTime(c, t)
  \/ SkipGap(c)
  \/ ReleasePrevious(c)
  \/ \E t \in Times : LookForData(c, t)
  \/ ReleaseDataNoStep(c)
  \/ ReleaseData(c)
  \/ ReleaseOnlyAccess(c)
  \/ FlushTo(c)
  \/ SpinBack(c)
  \/ Detach(c)

-----------------------------------------------------------------------------
(* The write token is removed, and what is left is cleaned.                *)

\* removeWriteToken(), resetValid(): no more writing from here on
ResetValid ==
  /\ wpc = "idle"
  /\ valid
  /\ valid' = FALSE
  /\ UNCHANGED <<chainVars, ra, cleanup, oldest, latest, saveup, writeVars,
                 clientVars, fault>>

\* CleanEntryCmd, once every token has processed the deletion; the deletion
\* is then forgotten, so that this is done once
CleanEntry ==
  /\ wpc = "idle"
  /\ ~valid
  /\ \A c \in SeqClients \cup TimedClients : pc[c] = "out"
  /\ wpc' = "cleanAll"
  /\ UNCHANGED <<chainVars, ra, cleanup, oldest, latest, configVars, start, end,
                 wseq, writes, clientVars, fault>>

\* cleanAllData(): while (finalDeleteData())
FinalDelete ==
  /\ wpc = "cleanAll"
  /\ IF cleanup <= created /\ ra[cleanup] = 1
     THEN /\ ra' = [ra EXCEPT ![cleanup] = 0]
          /\ cleanup' = cleanup + 1
          /\ UNCHANGED wpc
     ELSE /\ wpc' = "cleaned"
          /\ UNCHANGED <<ra, cleanup>>
  /\ UNCHANGED <<chainVars, oldest, latest, configVars, start, end, wseq, writes,
                 clientVars, fault>>

\* Nothing more to do: the entry is gone, or undefined behaviour was met.
Stopped ==
  /\ fault # "none" \/ (wpc = "cleaned" /\ \A c \in Clients : pc[c] = "out")
  /\ UNCHANGED vars

Step ==
  \/ WriterStep
  \/ RemoveSaveUp
  \/ ResetValid
  \/ CleanEntry
  \/ FinalDelete
  \/ \E c \in SeqClients : SequentialStep(c)
  \/ \E c \in TimedClients \cup Monitors : TimedStep(c)

Next == (fault = "none" /\ Step) \/ Stopped

Spec == Init /\ [][Next]_vars

-----------------------------------------------------------------------------
(* Every variable stays in its range.                                      *)
TypeOK ==
  /\ time \in [Nodes -> Nat]
  /\ full \in [Nodes -> BOOLEAN]
  /\ seq \in [Nodes -> Nat]
  /\ ra \in [Nodes -> Nat]
  /\ created \in Nodes
  /\ cleanup \in Nat
  /\ oldest \in Nodes
  /\ latest \in Nodes
  /\ saveup \in {"SaveUp", "SaveUpTryRemove", "NoSaveUp"}
  /\ valid \in BOOLEAN
  /\ wpc \in {"idle", "clean", "delete", "shift", "fill", "gapReset", "gapLink",
              "link", "publish", "notify", "cleanAll", "cleaned"}
  /\ start \in Nat
  /\ end \in Nat
  /\ wseq \in Nat
  /\ writes \in 0 .. MaxWrites
  /\ pc \in [Clients -> {"out", "load", "grab", "find", "walk", "take", "unlock",
                         "held", "ready", "skip", "skipRelease", "go", "spin",
                         "access", "release"}]
  /\ loc \in [Clients -> Locals]
  /\ at \in [Clients -> Nodes \cup {None}]
  /\ nx \in [Clients -> Nodes \cup {None}]
  /\ last \in [Clients -> Nat]
  /\ fault \in {"none", "lockDeleted", "walkDeleted", "spinDeleted", "nullNext"}

\* Accesses out on node n: read_index and lock, the second access of a step
\* or a timed read, and the save-up latch that the constructor put on node 1.
Users(f, n) == Cardinality({c \in Clients : f[c] = n})
Latch(n)    == IF n = 1 /\ saveup # "NoSaveUp" THEN 1 ELSE 0
Accesses(n) == Users(at, n) + Users(nx, n) + Latch(n)

\* tryRecycle() has set the count of n to zero, n is about to be deleted
Deleting(n) == wpc = "delete" /\ n = cleanup

(* "each UChannelEntryData object holds a counter with (1+the current      *)
(* number of accesses)": no interleaving of counting up, counting down and *)
(* recycling loses or invents an access.                                   *)
AccessCounted ==
  \A n \in cleanup .. created :
    ra[n] = IF Deleting(n) THEN 0 ELSE 1 + Accesses(n)

(* "When >1, the data point cannot be cleaned away": no client has an      *)
(* access on a node that was deleted or is about to be, although the       *)
(* writer looks at the count of a node when it gives it up for reading and *)
(* only deletes it in a later write.                                       *)
HeldNotDeleted ==
  \A c \in Clients :
    \A n \in {at[c], nx[c]} \ {None} :
      n >= cleanup /\ ~Deleting(n)

(* While the entry is written, the node that is cleaned next stays behind  *)
(* the oldest one on offer, and that behind the newest: latest always has  *)
(* a previous node, which reading by time, spinning and getDataSpace() use *)
(* without a test, whatever readers count up, down or back to.             *)
ChainOrdered ==
  valid => cleanup < oldest /\ oldest <= latest /\ latest <= created

(* A client that joins while data is saved up for it (a reservation that   *)
(* has not been taken up) starts at the first point ever written.          *)
SavedUpFromStart ==
  [][\A c \in SeqClients :
       (pc[c] = "grab" /\ pc'[c] = "ready" /\ saveup # "NoSaveUp")
         => at'[c] = 1]_vars

(* "every data point is being read": a client that does not flush gets the *)
(* points one after the other, across gaps, cleaning and re-reading.       *)
EveryPointRead ==
  [][\A c \in SeqClients :
       (last[c] # 0 /\ last'[c] \notin {0, last[c]}) => last'[c] = last[c] + 1]_vars

\* Data points that a new reader can still reach.
Reachable == {n \in oldest .. created : full[n]}

(* setMinimumSpanAndDepth(): the writer keeps `depth` points for timed     *)
(* readers, however old they are, also when a gap is the oldest node.      *)
DepthKept ==
  LET written == seq[created] - 1
  IN  wpc # "gapLink" =>
        Cardinality(Reachable) >= IF written < Depth THEN written ELSE Depth

(* A timed read gives the newest point, of those present when it began to  *)
(* look, that is not after the requested time, and nothing when that time  *)
(* is in a gap.                                                            *)
TimedRight ==
  \A c \in TimedClients :
    (pc[c] = "unlock" /\ nx[c] # None /\ loc[c].op = "timed") =>
      /\ seq[nx[c]] # 0
      /\ ~AfterTick(nx[c], loc[c].want)
      /\ \A m \in (nx[c] + 1) .. loc[c].from : AfterTick(m, loc[c].want)

(* "How long should data be kept available": a timed read finds the data   *)
(* that was valid at the requested time, if that data is no older than     *)
(* span, from its own start to the start of the newest write.              *)
TimedServed ==
  \A c \in TimedClients :
    (pc[c] = "unlock" /\ nx[c] = None)
      => \A n \in 1 .. loc[c].from :
           ~(/\ seq[n] # 0 /\ time[n] + Span >= start
             /\ time[n] <= loc[c].want /\ loc[c].want < time[n + 1])

(* What timed readers rely on while the writer cleans up: span and depth   *)
(* (setMinimumSpanAndDepth(), obsolete()).                                 *)
HistoryKept == TimedServed /\ DepthKept

(* "temporarily lock the oldest datapoint [...] now we are sure that data  *)
(* is not cleaned from under us": the node that is locked is still part of *)
(* the chain, and a search by time does not follow a pointer to a deleted  *)
(* node.                                                                   *)
SearchesWhatIsThere == fault \notin {"lockDeleted", "walkDeleted"}

-----------------------------------------------------------------------------
(* Threads are scheduled: an operation that was begun goes on, a client    *)
(* processes the deletion of the entry at its next access, the readers for *)
(* whom data is saved up come in, and the master sends its command to      *)
(* clean.  Nobody has to start a write or a read.                          *)
InOperation(c) == pc[c] \notin {"out", "ready"}

Fairness ==
  /\ WF_vars(fault = "none" /\ wpc # "idle" /\ WriterStep)
  /\ WF_vars(fault = "none" /\ RemoveSaveUp)
  /\ WF_vars(fault = "none" /\ (CleanEntry \/ FinalDelete))
  /\ \A c \in SeqClients :
       /\ WF_vars(fault = "none" /\ InOperation(c) /\ SequentialStep(c))
       /\ WF_vars(fault = "none" /\ ~valid /\ Detach(c))
  /\ \A c \in TimedClients \cup Monitors :
       WF_vars(fault = "none" /\ InOperation(c) /\ TimedStep(c))

FairSpec == Spec /\ Fairness

(* A timed read ends, although AccessLockOldest retries and the search     *)
(* competes with the writer.                                               *)
TimedReadEnds ==
  \A c \in TimedClients :
    (pc[c] = "load") ~> (pc[c] \in {"held", "out"} \/ fault # "none")

(* "the only thing cleanup waits for is release of the data access count": *)
(* after the write token is removed everything is deleted in the end.      *)
CleanedInTheEnd == ~valid ~> (cleanup = created + 1 \/ fault # "none")

=============================================================================
