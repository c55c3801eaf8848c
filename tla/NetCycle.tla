------------------------------- MODULE NetCycle -------------------------------
(***************************************************************************)
(* The data cycle between network nodes: udpcom/NetCommunicator,           *)
(* NetCommunicatorMaster (node 0) and NetCommunicatorPeer (nodes 1 .. N),  *)
(* for a group that does not change; NetMembership models joining and      *)
(* leaving.  In a cycle the master sends a message with the cycle count,   *)
(* peer 1 reacts to that, and every other peer to the message of the peer  *)
(* before it.  Everybody receives everything.  Messages are datagrams:     *)
(* they get lost or late, and the master then repeats the cycle (Stasis)   *)
(* or goes back one cycle when a peer missed data (Recover).               *)
(*                                                                         *)
(* A message stands for its control block and payload: cycle count, repeat *)
(* nibble, error flag, and (history) the number of the packed payload.     *)
(***************************************************************************)
EXTENDS Integers, Sequences, FiniteSets, SequencesExt

CONSTANTS
  N,          \* number of peers
  CycleMod,   \* values of the cycle count (2^28 in the code)
  RepeatMod,  \* values of the repeat nibble (16 in the code)
  Orders,     \* the kinds of network, see order
  FirstLoss,  \* messages of cycles before this one arrive
  MaxPacks,   \* bound: new cycles of the master
  MaxLosses,  \* bound: messages that do not arrive
  MaxEarly,   \* bound: timeouts while messages are under way
  MaxLate     \* bound: messages of a sender under way when it sends

ASSUME CycleAssumption ==
  /\ N \in Nat \ {0}
  /\ CycleMod \in Nat /\ CycleMod >= 5
  /\ RepeatMod \in Nat /\ RepeatMod >= 2
  /\ Orders \subseteq {"bus", "sender", "any"}
  /\ {FirstLoss, MaxPacks, MaxLosses, MaxEarly, MaxLate} \subseteq Nat

Master == 0
Peers  == 1 .. N
Nodes  == 0 .. N
None   == -1

VARIABLES
  order,     \* what arrives next at a node: "bus" all messages as they were
             \* sent, "sender" those of one sender, "any" without order;
             \* this does not change
  node,      \* per node: message_cycle with its repeat, sendstate, ...
  seen,      \* peer_cycles: per node and sender the cycle processed last
  got,       \* history: number of the payload unpacked last
  mpc,       \* the master is about to "send", or in "receive"
  nreceived, \* exact replies in this round of the master
  inbox,     \* per node the messages under way to it, oldest first
  losses,    \* bound: messages lost so far
  early,     \* bound: early timeouts so far
  fault      \* criticalErrorNodeWide() was called

vars == <<node, seen, got, mpc, nreceived, inbox, losses, early, fault>>

\* cycleIncrement(), and back
Next1(c) == (c + 1) % CycleMod
Prev1(c) == (c + CycleMod - 1) % CycleMod

\* CycleCounterExtra.hxx, the repeat nibble left out
\* slip: accepts a cycle that skips one
CycleIsNextOrSkip(a, b) == b \in {Next1(a), Next1(Next1(a))}
CycleIsNext(a, b)       == b = Next1(a)
CycleIsPrevious(a, b)   == a = Next1(b)
CycleIsUpToDate(a, m)   == m = Next1(a) \/ m = a \/ a = Next1(m)

\* NetCommunicator(): message_cycle is 1, packed_cycle 0, buffers are empty;
\* a peer that was configured waits for its first cycle
Init ==
  /\ order \in Orders
  /\ node = [n \in Nodes |->
       [cycle |-> 1, rep |-> 0, state |-> "Normal", packed |-> 0, err |-> FALSE,
        cur |-> [cycle |-> 0, data |-> 0], bak |-> [cycle |-> 0, data |-> 0],
        tracking |-> n = Master]]
  /\ seen = [n \in Nodes |-> [j \in Nodes |-> None]]
  /\ got = [n \in Nodes |-> [j \in Nodes |-> 0]]
  /\ mpc = "send"
  /\ nreceived = 0
  /\ inbox = [n \in Nodes |-> <<>>]
  /\ losses = 0
  /\ early = 0
  /\ fault = "none"

-----------------------------------------------------------------------------
(* codeAndSendUDPMessage().  A node in state Normal packs new data and     *)
(* keeps the previous buffer; Recover sends that one again, Stasis and     *)
(* AfterNormal the current one.                                            *)

SendBuffer(p) ==
  CASE p.state = "Normal"  -> [cycle |-> p.cycle, data |-> p.cur.data + 1]
    [] p.state = "Recover" -> p.bak
    [] OTHER               -> p.cur

\* The checks that end in criticalErrorNodeWide().
SendFault(p) ==
  CASE p.state = "Normal"  -> IF CycleIsNext(p.packed, p.cycle) THEN "none"
                              ELSE "cycle confusion"
    [] p.state = "Recover" -> IF p.bak.cycle = p.cycle THEN "none"
                              ELSE "recover phase"
    [] OTHER               -> IF p.cur.cycle = p.cycle /\ p.packed = p.cycle
                              THEN "none" ELSE "stasis"

AfterSend(p) ==
  IF p.state = "Normal"
  THEN [p EXCEPT !.bak = p.cur, !.cur = SendBuffer(p), !.packed = p.cycle,
                 !.state = "AfterNormal"]
  ELSE p

SentMessage(n, p) ==
  [from |-> n, cycle |-> p.cycle, rep |-> p.rep,
   err |-> p.err /\ p.state # "Recover", data |-> SendBuffer(p).data]

From(n, box) == {k \in DOMAIN box : box[k].from = n}

\* the message of n, in state p, goes to the other nodes, not all receive it;
\* under are the messages that were under way
CodeAndSend(n, p, under) ==
  /\ \A i \in Nodes : Cardinality(From(n, under[i])) <= MaxLate
  /\ fault' = SendFault(p)
  /\ node' = [node EXCEPT ![n] = AfterSend(p)]
  /\ \E lost \in SUBSET (Nodes \ {n}) :
       /\ lost # {} => SendBuffer(p).data >= FirstLoss
       /\ losses + Cardinality(lost) <= MaxLosses
       /\ losses' = losses + Cardinality(lost)
       /\ inbox' = [i \in Nodes |->
                      IF i \in lost \cup {n} THEN under[i]
                      ELSE Append(under[i], SentMessage(n, p))]

\* positions of the messages to n that may be received next
Arriving(n) ==
  {k \in DOMAIN inbox[n] :
     /\ order = "bus" => k = 1
     /\ order = "sender" => \A h \in 1 .. (k - 1) : inbox[n][h].from # inbox[n][k].from}
Taken(n, k) == [inbox EXCEPT ![n] = RemoveAt(@, k)]

\* clientUnpackPayload()
Unpack(n, m) ==
  /\ seen' = [seen EXCEPT ![n][m.from] = m.cycle]
  /\ got' = [got EXCEPT ![n][m.from] = m.data]

-----------------------------------------------------------------------------
(* The master, doCycle() and unpackPeerData().                             *)

MasterSend ==
  /\ mpc = "send"
  /\ node[Master].state = "Normal" => node[Master].cur.data < MaxPacks
  /\ CodeAndSend(Master, node[Master], inbox)
  /\ mpc' = "receive"
  /\ nreceived' = 0
  /\ UNCHANGED <<seen, got, early>>

\* slip: the nibble is not changed
RepeatIncrementNot(r) == r
\* cycleRepeatIncrement()
RepeatIncrement(r) == (r + 1) % RepeatMod

\* A timeout: repeat the message.  An early one has messages under way.
MasterTimeout ==
  /\ mpc = "receive"
  /\ \/ /\ \A n \in Nodes : inbox[n] = <<>>
        /\ UNCHANGED early
     \/ /\ \E n \in Nodes : inbox[n] # <<>>
        /\ early < MaxEarly
        /\ early' = early + 1
  /\ node' = [node EXCEPT ![Master].rep = RepeatIncrement(@),
                          ![Master].state = IF @ = "Recover" THEN @ ELSE "Stasis"]
  /\ mpc' = "send"
  /\ UNCHANGED <<seen, got, nreceived, inbox, losses, fault>>

Exact(m) == m.cycle = node[Master].cycle /\ m.rep = node[Master].rep

\* slip: a recovery is not asked for when the master repeats a message
TriggerRecoverNotStasis(m) ==
  Exact(m) /\ m.err /\ node[Master].state = "AfterNormal" /\ node[Master].bak.data > 0

\* a peer asks for a repeat of the previous cycle
TriggerRecover(m) ==
  /\ Exact(m)
  /\ m.err
  /\ node[Master].state # "Recover"
  /\ node[Master].bak.data > 0

\* The end of a round: back to the previous cycle, or on to the next one.
NextRound(m) ==
  LET p == node[Master]
  IN  IF TriggerRecover(m)
      THEN [p EXCEPT !.cycle = Prev1(@), !.rep = 1, !.state = "Recover"]
      ELSE [p EXCEPT !.cycle = Next1(@), !.rep = 0,
                     !.state = IF @ = "Recover" THEN "Stasis" ELSE "Normal"]

MasterReceive(k) ==
  /\ mpc = "receive"
  /\ LET m    == inbox[Master][k]
         last == seen[Master][m.from]
         n    == nreceived + (IF Exact(m) THEN 1 ELSE 0)
     IN  /\ inbox' = Taken(Master, k)
         /\ IF (IF last = None THEN Exact(m) ELSE CycleIsNext(last, m.cycle))
            THEN Unpack(Master, m)
            ELSE UNCHANGED <<seen, got>>
         /\ nreceived' = n
         /\ IF TriggerRecover(m) \/ n = N
            THEN /\ node' = [node EXCEPT ![Master] = NextRound(m)]
                 /\ mpc' = "send"
            ELSE UNCHANGED <<node, mpc>>
  /\ UNCHANGED <<losses, early, fault>>

-----------------------------------------------------------------------------
(* A peer, _oneCycle() and unpackPeerData().                               *)

\* slip: one too many is asked for
MissedDataOffByOne(i, m) ==
  Cardinality({j \in Nodes : /\ seen[i][j] # None
                             /\ CycleIsUpToDate(seen[i][j], m.cycle)}) <= N

\* fewer messages up to date than there are peers
MissedData(i, m) ==
  Cardinality({j \in Nodes : /\ seen[i][j] # None
                             /\ CycleIsUpToDate(seen[i][j], m.cycle)}) < N

\* sendstate to match the master's cycle; otherwise it stays as it is
SendState(p, c) ==
  IF CycleIsNext(p.packed, c) THEN "Normal"
  ELSE IF p.packed = c THEN "Stasis"
  ELSE IF CycleIsPrevious(p.packed, c) THEN "Recover"
  ELSE p.state

\* peer i takes the master's cue, or enters the cycle
FollowMaster(i, m) ==
  LET p == node[i]
  IN  IF p.tracking
      THEN [p EXCEPT !.err = MissedData(i, m), !.cycle = m.cycle, !.rep = m.rep,
                     !.state = SendState(p, m.cycle)]
      ELSE IF p.cycle = m.cycle
      THEN [p EXCEPT !.rep = m.rep, !.packed = Prev1(m.cycle), !.err = FALSE,
                     !.state = "Normal", !.tracking = TRUE]
      ELSE p

PeerReceive(i, k) ==
  LET m      == inbox[i][k]
      p      == IF m.from = Master THEN FollowMaster(i, m) ELSE node[i]
      last   == seen[i][m.from]
      myturn == m.from = i - 1 /\ p.cycle = m.cycle /\ p.rep = m.rep
  IN  /\ IF p.tracking /\ (last = None \/ CycleIsNext(last, m.cycle))
         THEN Unpack(i, m)
         ELSE UNCHANGED <<seen, got>>
      /\ IF p.tracking /\ myturn
         THEN CodeAndSend(i, p, Taken(i, k))
         ELSE /\ node' = [node EXCEPT ![i] = p]
              /\ inbox' = Taken(i, k)
              /\ UNCHANGED <<losses, fault>>
      /\ UNCHANGED <<mpc, nreceived, early>>

-----------------------------------------------------------------------------
Done == \/ fault # "none"
        \/ /\ mpc = "send"
           /\ node[Master].state = "Normal"
           /\ node[Master].cur.data = MaxPacks
           /\ \A n \in Nodes : inbox[n] = <<>>

Receive(n) ==
  \E k \in Arriving(n) : IF n = Master THEN MasterReceive(k) ELSE PeerReceive(n, k)

Step == MasterSend \/ MasterTimeout \/ \E n \in Nodes : Receive(n)

Next ==
  /\ (fault = "none" /\ Step) \/ (Done /\ UNCHANGED vars)
  /\ UNCHANGED order

Spec == Init /\ [][Next]_<<vars, order>>

-----------------------------------------------------------------------------
Buffers == [cycle : 0 .. CycleMod - 1, data : Nat]

(* Every variable stays in its range.                                      *)
TypeOK ==
  /\ node \in [Nodes ->
       [cycle : 0 .. CycleMod - 1, rep : 0 .. RepeatMod - 1,
        state : {"Normal", "AfterNormal", "Stasis", "Recover"},
        packed : 0 .. CycleMod - 1, err : BOOLEAN, cur : Buffers, bak : Buffers,
        tracking : BOOLEAN]]
  /\ seen \in [Nodes -> [Nodes -> {None} \cup 0 .. CycleMod - 1]]
  /\ got \in [Nodes -> [Nodes -> Nat]]
  /\ mpc \in {"send", "receive"}
  /\ nreceived \in 0 .. N
  /\ losses \in 0 .. MaxLosses
  /\ early \in 0 .. MaxEarly

(* "Unrecoverable error in the network protocol" is not met: whatever is   *)
(* lost, late or repeated, a node is only asked for the cycle it sent last *)
(* or the one before, or for the next one.                                 *)
NoCycleConfusion == fault = "none"

(* "The master updates its message cycle if confirmation has been received *)
(* that all peers completed a message": when a new cycle has been packed   *)
(* every peer has the master's data of the previous one, although the      *)
(* master counts replies and does not look who sent them.                  *)
CycleConfirmed ==
  \A i \in Peers : got[i][Master] >= node[Master].cur.data - 1

(* The backup buffer is enough: nobody misses data that is older than what *)
(* the backup buffers of the others hold.                                  *)
BackupIsEnough ==
  \A i \in Nodes, j \in Peers :
    i # j => got[i][j] >= node[Master].cur.data - 2

(* "messages are processed in sequence, and read only once": each node     *)
(* unpacks the payloads of every other one after the other, from the first *)
(* one on.                                                                 *)
InSequence ==
  [][\A i, j \in Nodes : got'[i][j] \in {got[i][j], got[i][j] + 1}]_vars

(* What was packed for a cycle is the only data sent under its number: a   *)
(* repeat never carries other data than the message it repeats.            *)
SameCycleSameData ==
  \A i, j \in Nodes :
    \A a \in ToSet(inbox[i]), b \in ToSet(inbox[j]) :
      (a.from = b.from /\ a.cycle = b.cycle) => a.data = b.data

(* One backup buffer is enough for repeat and recovery, whatever is lost,  *)
(* late or repeated: nobody is asked for data it no longer has, or sends   *)
(* other data under the same number.                                       *)
RecoveryPossible ==
  TypeOK /\ NoCycleConfusion /\ BackupIsEnough /\ SameCycleSameData

(* The master sends at its tick and gets a timeout if nothing arrives, and *)
(* what is under way arrives.  MaxLosses bounds how much gets lost.        *)
Fairness ==
  /\ WF_vars(fault = "none" /\ (MasterSend \/ MasterTimeout))
  /\ \A n \in Nodes : WF_vars(fault = "none" /\ Receive(n))

FairSpec == Spec /\ Fairness

(* "then continues to normal sending": after every loss, timeout and       *)
(* request for recovery all cycles are completed, if messages arrive in    *)
(* the order in which they were sent.  If a peer can get the reply of the  *)
(* peer before it ahead of the master's message it misses its turn, and    *)
(* nothing in the code keeps that from happening in every repeat.          *)
AllCyclesCompleted == order = "bus" => <>(fault = "none" /\ Done)

=============================================================================
