--------------------------- MODULE EntryTransport ---------------------------
(***************************************************************************)
(* How the data written in one channel entry reaches the other nodes.      *)
(* The writer's node keeps the chain of data points (UChannelEntry); each  *)
(* transporter of the channel is a Packer or FillPacker with a queue of    *)
(* work and, in the entry, a client (pclients) that reads the chain point  *)
(* by point.  A store with packed points is sent to every node that        *)
(* listens to the packer; a node where the channel has an end unpacks      *)
(* them into its own copy of the entry.                                    *)
(*                                                                         *)
(* Threads: the writing module, the channel's service and configuration,   *)
(* one accessor per packer, one unpacker per end.  Node 1 of the chain is  *)
(* the constructor's empty node; node i + 1 is the newer of node i.        *)
(***************************************************************************)
EXTENDS Integers, Sequences, FiniteSets, SequencesExt, FiniteSetsExt

CONSTANTS
  Packers,      \* the transporters this node has
  Ends,         \* the other nodes that may open an end of the channel
  Span,         \* span of data to keep
  Depth,        \* number of points to keep
  Capacity,     \* size of a store; a full point takes 2, a difference 1
  Setups        \* the circumstances, see setup

ASSUME SetupAssumption ==
  Setups \subseteq
    [ends      : SUBSET Ends,       \* the nodes that open an end
     via       : [Ends -> Packers], \* PackerSet: the packer that serves an end
     fill      : SUBSET Packers,    \* the packers that are FillPackers
     event     : BOOLEAN,           \* eventtype of the entry
     full      : BOOLEAN,           \* OnlyFullPacking, otherwise MixedPacking
     huge      : SUBSET Nat,        \* the points larger than any store
     writes    : Nat,               \* bound: number of writes
     gaps      : Nat,               \* bound: number of gaps between them
     removable : BOOLEAN,           \* bound: whether the write token is removed
     \* what the environment is assumed to avoid:
     \* "added":   the writer does not write while a transporter is added
     \* "gap":     a point after a gap is the first in its store
     \* "removed": the entry is not invalidated while a packer is at work on it
     \* "first":   no end is opened where the packer serves the channel already
     \* "gone":    no transporter is added once the entry is invalid
     calm      : SUBSET {"added", "gap", "removed", "first", "gone"}]

\* a store has room for any full point that is not huge, with its time jump
ASSUME CapacityAssumption == Capacity \in Nat /\ Capacity >= 3

VARIABLES
  setup,        \* the circumstances; they do not change
  chain,        \* the data points: [seq, time, ra (read_accesses)]
  cleanup, oldest, latest,   \* positions in the chain
  gaps,         \* number of gaps written
  wpc, wseq,    \* the writer: place in newData(), latest_seqid
  valid,        \* the entry is valid
  transporters, \* of the channel
  stale,        \* config_version of the entry differs from the channel's
  refreshDue,   \* refresh_transporters
  pclients,     \* the packer clients of the entry
  queue,        \* work_queue per packer: sequence ids
  ppc, copy,    \* the packers: place in packWork(), copy of the client
  store, choked,\* what is in the store of a packer; no more room
  inbox,        \* sent to the end and not unpacked
  end,          \* "absent", "open", "caching", "configured"
  cached,       \* entrycache of the end
  got,          \* what the end's entry received: [seq, start, end]
  fault         \* an assertion that failed, undefined behaviour

writerVars == <<chain, cleanup, oldest, latest, gaps, wpc, wseq>>
configVars == <<valid, transporters, stale, refreshDue>>
packVars == <<pclients, queue, ppc, copy, store, choked>>
endVars == <<inbox, end, cached, got>>
vars == <<writerVars, configVars, packVars, endVars, fault>>

None == -1   \* MAX_TIMETICK, NULL
Via == setup.via
EventType == setup.event
FullPackMode == setup.full

-----------------------------------------------------------------------------
(* The chain.                                                              *)
Fresh(s, t) == [seq |-> s, time |-> t, ra |-> 1]
LinkedAt(i) == i < Len(chain)
Data(i) == i < latest /\ chain[i].seq # 0

\* PackerClientData() and its handle, latched at the oldest point
NewClient == [index |-> oldest, accessed |-> None, vend |-> None,
              prev |-> None, sendFull |-> TRUE]

Init ==
  /\ setup \in Setups
  /\ chain = <<Fresh(0, 0), Fresh(1, 0)>>
  /\ cleanup = 1 /\ oldest = 2 /\ latest = 2
  /\ gaps = 0 /\ wpc = "idle" /\ wseq = 0
  /\ valid = TRUE /\ transporters = {} /\ stale = FALSE /\ refreshDue = FALSE
  /\ pclients = [p \in {} |-> NewClient]
  /\ queue = [p \in Packers |-> <<>>]
  /\ ppc = [p \in Packers |-> "idle"]
  /\ copy = [p \in Packers |-> NewClient]
  /\ store = [p \in Packers |-> <<>>]
  /\ choked = [p \in Packers |-> FALSE]
  /\ inbox = [e \in Ends |-> <<>>]
  /\ end = [e \in Ends |-> "absent"]
  /\ cached = [e \in Ends |-> <<>>]
  /\ got = [e \in Ends |-> <<>>]
  /\ fault = "none"

-----------------------------------------------------------------------------
(* The writer, newData().                                                  *)

\* delete what may be recycled: while (cleanup->getNext() != oldest &&
\* cleanup->tryRecycle())
Recycled(stop) ==
  Max({c \in cleanup..stop : \A i \in cleanup..(c - 1) : chain[i].ra = 1})

Obsolete(i, start) ==
  /\ chain[i].time + Span < start
  /\ chain[i].ra = 1
  /\ LinkedAt(i)
  /\ Data(i + 1) \/ chain[i + 1].seq = 0

\* make too old points unavailable for new reads
ShiftedOldest(start) ==
  Max({o \in oldest..latest :
         \A i \in oldest..(o - 1) :
           /\ Obsolete(i, start)
           /\ chain[latest].seq - chain[i].seq > Depth})

Written == chain[latest].seq - 1

\* cleaning, and the new data in the node that was the sentinel, or after a
\* gap in a node of its own
NewData(jump) ==
  LET start == chain[latest].time + jump
      gap == ~EventType /\ jump > 0 /\ chain[latest].seq # 1
      seq == chain[latest].seq
      filled == IF gap
                THEN Append([chain EXCEPT ![latest].seq = 0], Fresh(seq, start))
                ELSE [chain EXCEPT ![latest].time = start]
  IN
  /\ valid /\ wpc = "idle"
  /\ Written < setup.writes
  /\ gaps + jump <= setup.gaps
  /\ "added" \in setup.calm => pclients = << >> \/ DOMAIN pclients = transporters
  /\ gaps' = gaps + jump
  /\ cleanup' = Recycled(oldest - 1)
  /\ oldest' = ShiftedOldest(start)
  /\ chain' = [i \in DOMAIN filled |->
                 IF i \in cleanup..(cleanup' - 1)
                 THEN [filled[i] EXCEPT !.ra = 0] ELSE filled[i]]
  /\ wseq' = seq
  /\ wpc' = "refresh"
  /\ UNCHANGED <<latest, configVars, packVars, endVars, fault>>

\* the points in the chain from position i up to latest, by sequence id
PointsFrom(i) ==
  LET S == {k \in i..(latest - 1) : chain[k].seq # 0}
      Nth(n) == CHOOSE k \in S : Cardinality({h \in S : h <= k}) = n
  IN  [n \in 1..Cardinality(S) |-> chain[Nth(n)].seq]

\* slip: the points that wait in the chain are not announced
RefreshWithoutWork ==
  LET new == transporters \ DOMAIN pclients IN
  /\ pclients' = [p \in transporters |->
                    IF p \in new THEN NewClient ELSE pclients[p]]
  /\ UNCHANGED queue
  /\ chain' = [chain EXCEPT ![oldest].ra = @ + Cardinality(new)]

\* refreshTransporters(), with the entries locked: a client for each new
\* transporter; what is in the chain up to latest is work for its packer
RefreshTransporters ==
  LET new == transporters \ DOMAIN pclients IN
  /\ pclients' = [p \in transporters |->
                    IF p \in new THEN NewClient ELSE pclients[p]]
  /\ queue' = [p \in Packers |-> IF p \in new THEN queue[p] \o PointsFrom(oldest)
                                ELSE queue[p]]
  /\ chain' = [chain EXCEPT ![oldest].ra = @ + Cardinality(new)]

\* refreshEntryConfigInner(), "before adding data, refresh config if needed"
RefreshInWrite ==
  /\ wpc = "refresh"
  /\ IF stale
     THEN RefreshTransporters /\ stale' = FALSE
     ELSE UNCHANGED <<chain, pclients, queue, stale>>
  /\ wpc' = "publish"
  /\ UNCHANGED <<cleanup, oldest, latest, gaps, wseq, valid, transporters,
                 refreshDue, ppc, copy, store, choked, endVars, fault>>

\* latest = new UChannelEntryData(end, ...): the new sentinel
Publish ==
  /\ wpc = "publish"
  /\ chain' = Append(chain, Fresh(wseq + 1, chain[Len(chain)].time + 1))
  /\ latest' = Len(chain) + 1
  /\ wpc' = "notify"
  /\ UNCHANGED <<cleanup, oldest, gaps, wseq, configVars, packVars, endVars, fault>>

\* thereIsNewTransportWork(): every transporter of the channel
Notify ==
  /\ wpc = "notify"
  /\ queue' = [p \in Packers |->
                 IF pclients # << >> /\ p \in transporters
                 THEN Append(queue[p], wseq) ELSE queue[p]]
  /\ wpc' = "idle"
  /\ UNCHANGED <<chain, cleanup, oldest, latest, gaps, wseq, configVars, pclients,
                 ppc, copy, store, choked, endVars, fault>>

-----------------------------------------------------------------------------
(* Configuration and service of the channel at the writer's node.          *)

\* adjustChannelEnd(ADD_DESTINATION), addRemoteDestination()
AddRemoteDestination(e) ==
  /\ end[e] # "absent"
  /\ Via[e] \notin transporters
  /\ "added" \in setup.calm => wpc = "idle"
  /\ "gone" \in setup.calm => valid
  /\ transporters' = transporters \cup {Via[e]}
  /\ stale' = TRUE
  /\ refreshDue' = TRUE
  /\ UNCHANGED <<writerVars, valid, packVars, endVars, fault>>

\* service(): refresh_transporters
ServiceRefresh ==
  /\ refreshDue
  /\ "added" \in setup.calm => wpc = "idle"
  /\ refreshDue' = FALSE
  /\ RefreshTransporters
  /\ fault' = IF oldest < cleanup /\ transporters # DOMAIN pclients
              THEN "deleted" ELSE fault
  /\ UNCHANGED <<cleanup, oldest, latest, gaps, wpc, wseq, valid, transporters,
                 stale, ppc, copy, store, choked, endVars>>

AtWork(p) == ppc[p] # "idle"

\* slip: the accesses stay
ResetValidOnly ==
  /\ setup.removable /\ valid /\ wpc = "idle"
  /\ "removed" \in setup.calm => \A p \in Packers : ~AtWork(p)
  /\ "gone" \in setup.calm => ~refreshDue
  /\ valid' = FALSE
  /\ UNCHANGED <<writerVars, transporters, stale, refreshDue, packVars, endVars, fault>>

\* InvalidateEntryCmd, resetValid(): the packers' accesses are released
ResetValid ==
  /\ setup.removable /\ valid /\ wpc = "idle"
  /\ "removed" \in setup.calm => \A p \in Packers : ~AtWork(p)
  /\ "gone" \in setup.calm => ~refreshDue
  /\ valid' = FALSE
  /\ chain' = [i \in DOMAIN chain |->
                 [chain[i] EXCEPT !.ra = @ - Cardinality({p \in DOMAIN pclients :
                                                            pclients[p].index = i})]]
  /\ UNCHANGED <<cleanup, oldest, latest, gaps, wpc, wseq, transporters, stale,
                 refreshDue, packVars, endVars, fault>>

\* CleanEntryCmd, cleanAllData(): while (finalDeleteData())
CleanAllData ==
  /\ ~valid
  /\ LET c == Recycled(Len(chain) + 1) IN
     /\ c # cleanup
     /\ cleanup' = c
     /\ chain' = [i \in DOMAIN chain |->
                    IF i \in cleanup..(c - 1) THEN [chain[i] EXCEPT !.ra = 0]
                    ELSE chain[i]]
  /\ UNCHANGED <<oldest, latest, gaps, wpc, wseq, configVars, packVars, endVars, fault>>

-----------------------------------------------------------------------------
(* The packers, packWork() in the thread of the accessor.                  *)

\* what the packer takes next: the point at its index, or after the gap there
PackAt(c) == IF chain[c.index].seq = 0 THEN c.index + 1 ELSE c.index

\* packOneSet(), packData(): "stop packing data for entries that have been
\* removed"; a Packer drops the work, a FillPacker does not catch entryinvalid
PackOneSet(p) ==
  /\ ppc[p] = "idle"
  /\ queue[p] # << >>
  /\ ~choked[p]
  /\ "gap" \in setup.calm /\ p \in DOMAIN pclients =>
       store[p] = << >> \/ chain[pclients[p].index].seq # 0
  /\ CASE ~valid /\ p \notin setup.fill ->
            /\ queue' = [queue EXCEPT ![p] = Tail(@)]
            /\ UNCHANGED <<ppc, copy, fault>>
       [] ~valid /\ p \in setup.fill ->
            /\ fault' = "uncaught"
            /\ UNCHANGED <<queue, ppc, copy>>
       [] valid /\ p \notin DOMAIN pclients ->
            /\ fault' = "noClient"
            /\ UNCHANGED <<queue, ppc, copy>>
       [] OTHER ->
            /\ ppc' = [ppc EXCEPT ![p] = "access"]
            /\ copy' = [copy EXCEPT ![p] = pclients[p]]
            /\ UNCHANGED <<queue, fault>>
  /\ UNCHANGED <<writerVars, configVars, pclients, store, choked, endVars>>

\* slip: a point after a gap may be packed as a difference
AccessKeepsDiff(p) ==
  LET c == pclients[p]
      n == PackAt(c)
      overGap == n # c.index
  IN
  /\ ppc[p] = "access"
  /\ chain' = IF overGap
              THEN [chain EXCEPT ![n].ra = @ + 1, ![c.index].ra = @ - 1]
              ELSE chain
  /\ pclients' = [pclients EXCEPT ![p].index = n, ![p].accessed = n]
  /\ ppc' = [ppc EXCEPT ![p] = "pack"]
  /\ UNCHANGED <<cleanup, oldest, latest, gaps, wpc, wseq, configVars, queue, copy,
                 store, choked, endVars, fault>>

\* accessPackData(): passes the index over a gap, checks the point and takes
\* it.  The copy of the client remembers that full data is needed.
AccessPackData(p) ==
  LET c == pclients[p]
      n == PackAt(c)
      overGap == n # c.index
  IN
  /\ ppc[p] = "access"
  /\ IF ~valid
     THEN /\ fault' = "packedNull"
          /\ UNCHANGED <<chain, pclients, ppc, copy>>
     ELSE IF \/ n >= Len(chain) \/ n < cleanup
             \/ chain[n].seq # Head(queue[p]) \/ c.accessed # None
     THEN /\ fault' = "wrongPoint"
          /\ UNCHANGED <<chain, pclients, ppc, copy>>
     ELSE /\ chain' = IF overGap
                      THEN [chain EXCEPT ![n].ra = @ + 1, ![c.index].ra = @ - 1]
                      ELSE chain
          /\ pclients' = [pclients EXCEPT ![p].index = n, ![p].accessed = n]
          /\ copy' = [copy EXCEPT ![p].sendFull = @ \/ overGap]
          /\ ppc' = [ppc EXCEPT ![p] = "pack"]
          /\ UNCHANGED fault
  /\ UNCHANGED <<cleanup, oldest, latest, gaps, wpc, wseq, configVars, queue, store,
                 choked, endVars>>

\* the message for a point: TimeJump if it does not connect to what was
\* packed before, then FullData, or DiffData against the previous point
Message(c, n) ==
  [full  |-> c.sendFull,
   jump  |-> IF ~EventType /\ c.vend # chain[n].time THEN chain[n].time ELSE None,
   entry |-> chain[n].seq,
   base  |-> IF c.sendFull THEN None ELSE c.prev,
   end   |-> IF EventType THEN chain[n].time ELSE chain[n + 1].time]

Size(m) == (IF m.full THEN 2 ELSE 1) + (IF m.jump # None THEN 1 ELSE 0)
           + (IF m.entry \in setup.huge THEN Capacity ELSE 0)
Used(s) == LET upto[k \in 0..Len(s)] == IF k = 0 THEN 0 ELSE upto[k - 1] + Size(s[k])
           IN  upto[Len(s)]

\* slip: the point a difference refers to is not remembered
PackedNoPrevious(c, n, end_) ==
  [c EXCEPT !.vend = IF EventType THEN @ ELSE end_,
            !.prev = IF @ = None THEN chain[n].seq ELSE @,
            !.sendFull = IF @ THEN FullPackMode ELSE @]

\* the packed point in the client: "packing worked, remember new state"
Packed(c, n, end_) ==
  [c EXCEPT !.vend = IF EventType THEN @ ELSE end_,
            !.prev = chain[n].seq,
            !.sendFull = IF @ THEN FullPackMode ELSE @]

\* packComplete(): the index to the next point, which is latched; the point
\* itself is returned
Advanced(c) == [c EXCEPT !.index = c.index + 1, !.accessed = None]
Latched(c) == [chain EXCEPT ![c.accessed + 1].ra = @ + 1, ![c.accessed].ra = @ - 1]

\* slip: a point that does not fit is taken for packed
PackDataDrops(p) ==
  LET c == copy[p]
      n == pclients[p].accessed
      m == Message(c, n)
      fits == Used(store[p]) + Size(m) <= Capacity
  IN
  /\ ppc[p] = "pack"
  /\ store' = IF fits THEN [store EXCEPT ![p] = Append(@, m)] ELSE store
  /\ choked' = [choked EXCEPT ![p] = ~fits]
  /\ pclients' = [pclients EXCEPT ![p] =
        [Packed(c, n, m.end) EXCEPT !.index = pclients[p].index, !.accessed = n]]
  /\ ppc' = [ppc EXCEPT ![p] = "complete"]
  /\ UNCHANGED <<writerVars, configVars, queue, copy, endVars, fault>>

\* The rest of packData(): the message fits, or AmorphStoreBoundary; only
\* then the client in the entry is changed.  A FillPacker throws a point
\* out that does not even fit an empty store.
PackData(p) ==
  LET c == copy[p]
      n == pclients[p].accessed
      m == Message(c, n)
      fits == Used(store[p]) + Size(m) <= Capacity
  IN
  /\ ppc[p] = "pack"
  /\ CASE fits ->
            /\ store' = [store EXCEPT ![p] = Append(@, m)]
            /\ pclients' = [pclients EXCEPT ![p] =
                  [Packed(c, n, m.end) EXCEPT !.index = pclients[p].index,
                                              !.accessed = n]]
            /\ ppc' = [ppc EXCEPT ![p] = "complete"]
            /\ UNCHANGED <<chain, queue, choked>>
       [] ~fits /\ p \in setup.fill /\ store[p] = << >> ->
            /\ pclients' = [pclients EXCEPT ![p] = Advanced(@)]
            /\ chain' = Latched(pclients[p])
            /\ queue' = [queue EXCEPT ![p] = Tail(@)]
            /\ choked' = [choked EXCEPT ![p] = TRUE]
            /\ ppc' = [ppc EXCEPT ![p] = "idle"]
            /\ UNCHANGED store
       [] OTHER ->
            /\ pclients' = [pclients EXCEPT ![p].accessed = None]
            /\ choked' = [choked EXCEPT ![p] = TRUE]
            /\ ppc' = [ppc EXCEPT ![p] = "idle"]
            /\ UNCHANGED <<chain, queue, store>>
  /\ UNCHANGED <<cleanup, oldest, latest, gaps, wpc, wseq, configVars, copy, endVars,
                 fault>>

PackComplete(p) ==
  /\ ppc[p] = "complete"
  /\ pclients' = [pclients EXCEPT ![p] = Advanced(@)]
  /\ chain' = Latched(pclients[p])
  /\ queue' = [queue EXCEPT ![p] = Tail(@)]
  /\ ppc' = [ppc EXCEPT ![p] = "idle"]
  /\ UNCHANGED <<cleanup, oldest, latest, gaps, wpc, wseq, configVars, copy, store,
                 choked, endVars, fault>>

\* the accessor sends the store to all who listen, and starts with an empty
\* one.  Where the channel has no end the points are skipped.
SendStore(p) ==
  /\ ppc[p] = "idle"
  /\ store[p] # << >> \/ choked[p]
  /\ inbox' = [e \in Ends |-> IF Via[e] = p /\ end[e] # "absent"
                              THEN inbox[e] \o store[p] ELSE inbox[e]]
  /\ store' = [store EXCEPT ![p] = << >>]
  /\ choked' = [choked EXCEPT ![p] = FALSE]
  /\ UNCHANGED <<writerVars, configVars, pclients, queue, ppc, copy, end, cached,
                 got, fault>>

-----------------------------------------------------------------------------
(* The other ends.                                                         *)

\* the channel gets an end at the node
CreateEnd(e) ==
  /\ end[e] = "absent" /\ e \in setup.ends
  /\ "first" \in setup.calm => Via[e] \notin transporters
  /\ end' = [end EXCEPT ![e] = "open"]
  /\ UNCHANGED <<writerVars, configVars, packVars, inbox, cached, got, fault>>

LastTime(e) == IF got[e] = << >> THEN 0 ELSE Last(got[e]).end

\* newData() at the end with the span [start, endtime]
Put(e, seq, start, endtime) ==
  IF EventType
  THEN got' = [got EXCEPT ![e] = Append(@, [seq |-> seq, start |-> endtime,
                                            end |-> endtime])]
  ELSE IF endtime > LastTime(e)
  THEN got' = [got EXCEPT ![e] = Append(@, [seq |-> seq, start |->
                 IF @ = << >> THEN start ELSE Max({start, LastTime(e)}),
                 end |-> endtime])]
  ELSE UNCHANGED got

\* unPackData(), unPackDataDiff(): a difference against another point than
\* the last one received gives data nobody wrote (seq 0)
Unpack(e, m) ==
  LET jumped == IF m.jump # None THEN m.jump ELSE LastTime(e) IN
  CASE m.jump # None /\ ~m.full -> fault' = "jumpWithDiff" /\ UNCHANGED got
    [] m.full /\ ~EventType /\ m.end <= LastTime(e) ->
         fault' = "late" /\ UNCHANGED got
    [] m.full /\ (EventType \/ m.end > LastTime(e)) ->
         Put(e, m.entry, jumped, m.end) /\ UNCHANGED fault
    [] ~m.full /\ m.jump = None ->
         /\ Put(e, IF Last(got[e]).seq = m.base THEN m.entry ELSE 0, jumped, m.end)
         /\ UNCHANGED fault

\* a difference while there is no data to apply it to
Early(e, m) == ~m.full /\ m.jump = None /\ got[e] = << >>

\* UnifiedChannel::unPackData(): without the entry the data is cached, and
\* also a difference that comes before full data.  What is cached after the
\* configuration is not looked at again.
UnpackFirst(e) ==
  LET m == Head(inbox[e]) IN
  /\ end[e] \in {"open", "configured"}
  /\ inbox[e] # << >>
  /\ inbox' = [inbox EXCEPT ![e] = Tail(@)]
  /\ IF end[e] = "open" \/ Early(e, m)
     THEN /\ cached' = [cached EXCEPT ![e] = Append(@, m)]
          /\ UNCHANGED <<got, fault>>
     ELSE Unpack(e, m) /\ UNCHANGED cached
  /\ UNCHANGED <<writerVars, configVars, packVars, end>>

\* NewEntryConf at the end: the entry is there, the handler turns to the cache
NewEntryConf(e) ==
  /\ end[e] = "open"
  /\ end' = [end EXCEPT ![e] = IF cached[e] = << >> THEN "configured" ELSE "caching"]
  /\ UNCHANGED <<writerVars, configVars, packVars, inbox, cached, got, fault>>

\* while (entrycache[entry]->isNotEmpty()): an early difference is put back.
\* UCEntryDataCache::append() does not link it when it was the last one,
\* since tail is not reset.
ProcessCached(e) ==
  LET m == Head(cached[e])
      rest == Tail(cached[e])
      left == IF Early(e, m) /\ rest # << >> THEN Append(rest, m) ELSE rest
  IN
  /\ end[e] = "caching"
  /\ cached' = [cached EXCEPT ![e] = left]
  /\ end' = [end EXCEPT ![e] = IF left = << >> THEN "configured" ELSE @]
  /\ IF Early(e, m) THEN UNCHANGED <<got, fault>> ELSE Unpack(e, m)
  /\ UNCHANGED <<writerVars, configVars, packVars, inbox>>

-----------------------------------------------------------------------------
\* Nothing left to do, or an assertion failed.
Finished ==
  \/ fault # "none"
  \/ /\ wpc = "idle" /\ (Written = setup.writes \/ ~valid)
     /\ ~refreshDue
     /\ \A p \in Packers : queue[p] = << >> /\ store[p] = << >> /\ ~AtWork(p)
     /\ \A e \in Ends : inbox[e] = << >>
Stopped == Finished /\ UNCHANGED vars

WriterStep ==
  \/ \E jump \in 0..1 : NewData(jump)
  \/ RefreshInWrite
  \/ Publish
  \/ Notify
ConfigStep ==
  \/ \E e \in Ends : AddRemoteDestination(e)
  \/ ServiceRefresh
  \/ ResetValid
  \/ CleanAllData
PackerStep(p) ==
  \/ PackOneSet(p)
  \/ AccessPackData(p)
  \/ PackData(p)
  \/ PackComplete(p)
  \/ SendStore(p)
EndStep(e) ==
  \/ CreateEnd(e)
  \/ UnpackFirst(e)
  \/ NewEntryConf(e)
  \/ ProcessCached(e)

Step ==
  /\ fault = "none"
  /\ \/ WriterStep
     \/ ConfigStep
     \/ \E p \in Packers : PackerStep(p)
     \/ \E e \in Ends : EndStep(e)

Next == (Step \/ Stopped) /\ UNCHANGED setup

Spec == Init /\ [][Next]_<<vars, setup>>

\* The threads run; nobody has to write, to open an end or to remove the token.
Fairness ==
  /\ WF_vars(fault = "none" /\ (RefreshInWrite \/ Publish \/ Notify))
  /\ WF_vars(fault = "none" /\ ServiceRefresh)
  /\ WF_vars(fault = "none" /\ CleanAllData)
  /\ \A e \in Ends :
       /\ WF_vars(fault = "none" /\ AddRemoteDestination(e))
       /\ WF_vars(fault = "none" /\ (UnpackFirst(e) \/ ProcessCached(e)))
       /\ WF_vars(fault = "none" /\ NewEntryConf(e))
  /\ \A p \in Packers :
       /\ WF_vars(fault = "none" /\ SendStore(p))
       /\ WF_vars(fault = "none" /\ (PackOneSet(p) \/ AccessPackData(p)
                                      \/ PackData(p) \/ PackComplete(p)))

FairSpec == Spec /\ Fairness

-----------------------------------------------------------------------------
Point == [seq : Nat, time : Nat, ra : Nat]
Client == [index : Nat, accessed : Nat \cup {None}, vend : Nat \cup {None},
           prev : Nat \cup {None}, sendFull : BOOLEAN]

(* Every variable stays in its range; a count of accesses never drops      *)
(* below zero.                                                             *)
TypeOK ==
  /\ \A i \in DOMAIN chain : chain[i] \in Point
  /\ cleanup \in 1..(Len(chain) + 1) /\ oldest \in DOMAIN chain
  /\ latest \in DOMAIN chain
  /\ wpc \in {"idle", "refresh", "publish", "notify"}
  /\ transporters \subseteq Packers
  /\ DOMAIN pclients \subseteq transporters
  /\ \A p \in DOMAIN pclients : pclients[p] \in Client
  /\ ppc \in [Packers -> {"idle", "access", "pack", "complete"}]
  /\ end \in [Ends -> {"absent", "open", "caching", "configured"}]

(* None of the assertions in packData(), accessPackData(), unPackData()    *)
(* fails, no exception escapes and no client is missing.                   *)
NoFault == fault = "none"

\* the written point with this sequence id
PointOf(s) == CHOOSE i \in 2..(Len(chain) - 1) : chain[i].seq = s

(* What an end receives was written: the data, not a difference applied to *)
(* other data than it was made from, and the time span it was written with.*)
ReceivedAsWritten ==
  \A e \in Ends : \A k \in DOMAIN got[e] :
    LET g == got[e][k] IN
    /\ g.seq # 0
    /\ ~EventType => /\ g.start = chain[PointOf(g.seq)].time
                     /\ g.end = chain[PointOf(g.seq) + 1].time

(* An end receives the points in the order of writing, each once and       *)
(* without leaving one out that a store can hold.                          *)
ReceivedInOrder ==
  \A e \in Ends : \A k \in 1..(Len(got[e]) - 1) :
    /\ got[e][k].seq < got[e][k + 1].seq
    /\ (got[e][k].seq + 1)..(got[e][k + 1].seq - 1) \subseteq setup.huge

(* While the entry is valid neither the point a packer reads next, nor the *)
(* one its next difference refers to, is deleted by the writer's cleaning. *)
ReferenceKept ==
  valid => \A p \in DOMAIN pclients :
    LET c == pclients[p] IN
    /\ c.index >= cleanup
    /\ ~(IF ppc[p] = "pack" THEN copy[p] ELSE c).sendFull => PointOf(c.prev) >= cleanup

(* An end receives what was written, as it was written and in order.       *)
Received == ReceivedAsWritten /\ ReceivedInOrder

(* The work of a packer is exactly what is in the chain from its index on: *)
(* no point is announced twice, none is forgotten, whenever the            *)
(* transporter was added.  (The last point is announced after it is        *)
(* published.)                                                             *)
WorkMatchesChain ==
  valid => \A p \in DOMAIN pclients :
    queue[p] \o (IF wpc = "notify" THEN <<wseq>> ELSE << >>)
      = PointsFrom(pclients[p].index)

(* "the message will furthermore contain a full data pack": a TimeJump is  *)
(* never followed by a difference.                                         *)
JumpCarriesFull ==
  /\ \A p \in Packers : \A k \in DOMAIN store[p] :
       store[p][k].jump # None => store[p][k].full
  /\ \A e \in Ends : \A k \in DOMAIN inbox[e] :
       inbox[e][k].jump # None => inbox[e][k].full

(* Packing, overflow and retry leave no packer with a point it cannot      *)
(* send: what it needs is kept, no assertion fails, and after a jump in    *)
(* time the data is complete.                                              *)
PackingRight == TypeOK /\ NoFault /\ ReferenceKept /\ JumpCarriesFull

\* the last point written is there, or does not fit in a store
AllReceived(e) ==
  \/ Written \in setup.huge \cup {0}
  \/ got[e] # << >> /\ Last(got[e]).seq = Written

(* Every end that is configured again and again has all that was written   *)
(* in the valid entry, also after the last write, if it was opened before  *)
(* the packer served the channel.                                          *)
DeliveredInTheEnd ==
  \A e \in Ends :
    []<>((end[e] = "configured" /\ "first" \in setup.calm)
           => AllReceived(e) \/ ~valid \/ fault # "none")

(* The configuration of an entry at an end comes to an end, also when data *)
(* was cached before.                                                      *)
ConfiguredInTheEnd ==
  \A e \in Ends : end[e] = "open" ~> (end[e] = "configured" \/ fault # "none")

(* Every end that is opened is configured and served.                      *)
EndsServed == DeliveredInTheEnd /\ ConfiguredInTheEnd

(* When the write token is removed, all points are deleted: no access of a *)
(* packer is left and none is released twice.                              *)
CleanedInTheEnd == ~valid ~> (cleanup = Len(chain) + 1 \/ fault # "none")

=============================================================================
