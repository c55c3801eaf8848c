---------------------------- MODULE NetMembership ----------------------------
(***************************************************************************)
(* Who takes part in the network cycle: NetCommunicatorMaster's list of    *)
(* peers, npeers and the planned changes in checkAndUpdatePeerStates(),    *)
(* and NetCommunicatorPeer's reaction to the configuration messages.  The  *)
(* data cycle itself is modelled in NetCycle; here a round without losses  *)
(* is one step, which is complete when the chain of follow ids gives the   *)
(* master npeers replies, and otherwise ends in a timeout.                 *)
(***************************************************************************)
EXTENDS Integers, Sequences, FiniteSets, SequencesExt

CONSTANTS
  MaxPeers,    \* bound: connections made; peer i is the i-th one
  MaxCycle,    \* bound: cycles
  KickDelay,   \* cycles to the join when there is no communication yet (2)
  JoinDelay,   \* cycles to the join otherwise (10)
  LeaveDelay,  \* cycles to the removal of a peer (4), the peer is told one less
  CountMod,    \* values of the unsigned npeers
  BreakStates, \* states, for the master, of peers that may disappear
  Scenes       \* the circumstances, see scene

ASSUME MembershipAssumption ==
  /\ {MaxPeers, MaxCycle, KickDelay, JoinDelay} \subseteq Nat
  /\ LeaveDelay \in Nat \ {0}
  /\ CountMod \in Nat /\ CountMod > MaxPeers
  /\ Scenes \subseteq [calm : SUBSET {"join", "leave", "break"}, leaves : Nat,
                        breaks : Nat, verdicts : SUBSET {"Delay", "Reject"}]
  /\ BreakStates \subseteq {"Vetting", "Wait", "Active"}

Ids   == 1 .. MaxPeers
Never == MaxCycle + JoinDelay + LeaveDelay

VARIABLES
  scene,    \* calm: the kinds of change that wait until the previous one is
            \* over; verdicts: results of clientAuthorizePeer() apart from
            \* Accept; bounds on leaves and breaks.  It does not change
  pc,       \* the master is in its "round", in "changes", "receive" or "states"
  cycle,    \* message_cycle of the master
  npeers,   \* number of peers whose replies are waited for
  peers,    \* the list of CommPeer; counted is history: it is one of npeers
  changes,  \* peer_changes
  pos,      \* place in the list, pp
  again,    \* anychanges
  made,     \* next_peer_id
  peer,     \* NetCommunicatorPeer of every peer
  up,       \* configuration messages to the master
  down,     \* configuration messages of the master
  leaves,   \* bound: leaves so far
  breaks    \* bound: breaks so far

master == <<pc, cycle, npeers, peers, changes, pos, again, made>>
bounds == <<leaves, breaks>>
vars   == <<master, peer, up, down, bounds>>

Init ==
  /\ scene \in Scenes
  /\ pc = "round" /\ cycle = 1 /\ npeers = 0 /\ peers = <<>> /\ changes = <<>>
  /\ pos = 1 /\ again = FALSE /\ made = 0
  /\ peer = [i \in Ids |-> [st |-> "none", follow |-> -1, planned |-> <<>>,
                            cycle |-> 1, tracking |-> FALSE, last |-> Never]]
  /\ up = [i \in Ids |-> <<>>] /\ down = [i \in Ids |-> <<>>]
  /\ leaves = 0 /\ breaks = 0

Listed       == {peers[k].id : k \in DOMAIN peers}
PlaceOf(i)   == CHOOSE k \in DOMAIN peers : peers[k].id = i
Connected(i) == peer[i].st \in {"waiting", "conn"}

\* every peer in the list takes part and nothing is under way
Settled ==
  /\ changes = <<>>
  /\ \A k \in DOMAIN peers : peers[k].state = "Active" /\ ~peers[k].want
  /\ \A i \in Listed : peer[i].st = "conn"
  /\ \A i \in Ids : up[i] = <<>> /\ (Connected(i) => down[i] = <<>>)
  /\ \A i \in Ids : peer[i].st = "conn" => peer[i].tracking /\ peer[i].last = Never

-----------------------------------------------------------------------------
(* A round: codeAndSendUDPMessage() and the replies.                       *)

\* unpackPeerData() of a peer for a message of the master
OnMasterMessage(p) ==
  LET q   == IF p.tracking THEN [p EXCEPT !.cycle = cycle]
             ELSE [p EXCEPT !.tracking = p.cycle = cycle]
      due == {k \in DOMAIN q.planned :
                \A h \in 1 .. k : q.planned[h].target <= q.cycle}
  IN  IF q.st # "conn" THEN p
      ELSE IF due = {} THEN q
      ELSE [q EXCEPT !.follow = q.planned[Cardinality(due)].follow,
                     !.planned = SubSeq(@, Cardinality(due) + 1, Len(@))]

\* the peers that get a turn: each reacts to the message of the one it follows
Repliers(ps) ==
  LET able == {i \in Ids : ps[i].st = "conn" /\ ps[i].tracking /\ ps[i].cycle = cycle}
      reached[n \in 0 .. MaxPeers] ==
        IF n = 0 THEN {0}
        ELSE reached[n - 1] \cup {i \in able : ps[i].follow \in reached[n - 1]}
  IN  reached[MaxPeers] \ {0}

\* doCycle(): without peers nothing is sent and the cycle goes on
Round ==
  /\ pc = "round"
  /\ cycle < MaxCycle
  /\ peer' = IF npeers = 0 THEN peer ELSE [i \in Ids |-> OnMasterMessage(peer[i])]
  /\ cycle' = IF Cardinality(Repliers(peer')) >= npeers THEN cycle + 1 ELSE cycle
  /\ pc' = "changes"
  /\ UNCHANGED <<npeers, peers, changes, pos, again, made, up, down, bounds>>

-----------------------------------------------------------------------------
(* checkAndUpdatePeerStates()                                              *)

CycleIsCurrentOrPast(c, target) == c \in target .. (target + 2)

\* planned joining and leaving, in the order of the list
ApplyChange ==
  /\ pc = "changes"
  /\ changes # <<>>
  /\ CycleIsCurrentOrPast(cycle, Head(changes).at)
  /\ changes' = Tail(changes)
  /\ LET i == Head(changes).peer
     IN  IF i \notin Listed THEN UNCHANGED <<peers, npeers>>
         ELSE IF Head(changes).add
         THEN /\ peers' = [peers EXCEPT ![PlaceOf(i)].state = "Active",
                                        ![PlaceOf(i)].counted = TRUE]
              /\ npeers' = (npeers + 1) % CountMod
         ELSE /\ peers' = RemoveAt(peers, PlaceOf(i))
              /\ npeers' = (npeers - 1) % CountMod
  /\ UNCHANGED <<pc, cycle, pos, again, made, peer, up, down, bounds>>

ChangesDone ==
  /\ pc = "changes"
  /\ changes # <<>> => ~CycleIsCurrentOrPast(cycle, Head(changes).at)
  /\ pc' = "receive"
  /\ UNCHANGED <<cycle, npeers, peers, changes, pos, again, made, peer, up, down, bounds>>

\* previous_peer_id, the last one in the list
PreviousPeerId == IF peers = <<>> THEN 0 ELSE Last(peers).id

\* on_open: assignPeerId()
Connect ==
  /\ pc = "receive"
  /\ made < MaxPeers
  /\ "join" \in scene.calm => Settled
  /\ made' = made + 1
  /\ peers' = Append(peers,
                [id |-> made + 1, state |-> "Vetting", want |-> FALSE, counted |-> FALSE,
                 follow |-> PreviousPeerId])
  /\ peer' = [peer EXCEPT ![made + 1].st = "waiting"]
  /\ UNCHANGED <<pc, cycle, npeers, changes, pos, again, up, down, bounds>>

\* a message or the end of a connection comes in
ReceiveConfig(i) ==
  /\ pc = "receive"
  /\ up[i] # <<>>
  /\ up' = [up EXCEPT ![i] = Tail(@)]
  /\ peers' = [k \in DOMAIN peers |->
                 IF peers[k].id # i THEN peers[k]
                 ELSE IF Head(up[i]) = "closed" THEN [peers[k] EXCEPT !.state = "Broken"]
                 ELSE [peers[k] EXCEPT !.want = TRUE]]
  /\ UNCHANGED <<pc, cycle, npeers, changes, pos, again, made, peer, down, bounds>>

ReceiveDone ==
  /\ pc = "receive"
  /\ pc' = "states"
  /\ pos' = 1
  /\ again' = FALSE
  /\ UNCHANGED <<cycle, npeers, peers, changes, made, peer, up, down, bounds>>

Send(i, m) == IF Connected(i) THEN [down EXCEPT ![i] = Append(@, m)] ELSE down

\* the first peer that follows id is told to follow the other
CorrectFollowId(id, follow) ==
  LET hit == {k \in DOMAIN peers : peers[k].state # "Broken" /\ peers[k].follow = id}
      k   == CHOOSE h \in hit : \A g \in hit : h <= g
  IN  IF hit = {} THEN [list |-> peers, down |-> down]
      ELSE [list |-> [peers EXCEPT ![k].follow = follow],
            down |-> IF peers[k].state = "Vetting" THEN down
                     ELSE Send(peers[k].id, [type |-> "HookUp", follow |-> follow, target |-> 0])]

\* the peer is told to join, the master plans for it
PlanJoin(p, join) ==
  /\ peers' = [peers EXCEPT ![pos].state = "Wait"]
  /\ down' = Send(p.id, [type |-> "Welcome", follow |-> p.follow, target |-> join])
  /\ changes' = Append(changes, [at |-> join, peer |-> p.id, add |-> TRUE])
  /\ again' = TRUE
  /\ pos' = pos + 1
  /\ UNCHANGED npeers

JoinCycle == cycle + (IF npeers = 0 THEN KickDelay ELSE JoinDelay)

\* slip: the delays are swapped
AcceptSwapped(p) ==
  PlanJoin(p, cycle + (IF npeers = 0 THEN JoinDelay ELSE KickDelay))

Accept(p) == PlanJoin(p, JoinCycle)

\* a peer is taken from the list
TakeOut(p, next, n) ==
  LET fix == CorrectFollowId(p.id, p.follow)
  IN  /\ peers' = RemoveAt(fix.list, pos)
      /\ down' = fix.down
      /\ npeers' = n
      /\ pos' = next
      /\ UNCHANGED <<changes, again>>

\* slip: npeers is not reduced
DropNotCounted(p, next) == TakeOut(p, next, npeers)

\* Reject or Broken
Drop(p, next) == TakeOut(p, next, (npeers - 1) % CountMod)

\* slip: the follower is not told
LeaveRequestSilent(p) ==
  /\ peers' = [peers EXCEPT ![pos].want = FALSE]
  /\ down' = Send(p.id, [type |-> "Delete", follow |-> 0, target |-> cycle + LeaveDelay - 1])
  /\ changes' = Append(changes, [at |-> cycle + LeaveDelay, peer |-> p.id, add |-> FALSE])

\* decodeConfigData(), DeletePeer; the reply goes first
LeaveRequest(p) ==
  LET fix == CorrectFollowId(p.id, p.follow)
      msg == [type |-> "Delete", follow |-> 0, target |-> cycle + LeaveDelay - 1]
  IN  /\ peers' = [fix.list EXCEPT ![pos].want = FALSE]
      /\ down' = [fix.down EXCEPT ![p.id] = IF Connected(p.id) THEN Append(@, msg) ELSE @]
      /\ changes' = Append(changes, [at |-> cycle + LeaveDelay, peer |-> p.id, add |-> FALSE])

Decode(p) ==
  /\ IF p.want THEN LeaveRequest(p) ELSE UNCHANGED <<peers, down, changes>>
  /\ pos' = pos + 1
  /\ UNCHANGED <<npeers, again>>

\* pp++ after erase(): one peer is skipped; from end() the list starts again
AfterBroken == IF pos < Len(peers) THEN pos + 1 ELSE 1

\* one peer in the loop over the list
CheckPeer ==
  /\ pc = "states"
  /\ pos <= Len(peers)
  /\ LET p == peers[pos]
     IN  \/ p.state = "Vetting" /\ Accept(p)
         \/ p.state = "Vetting" /\ "Reject" \in scene.verdicts /\ Drop(p, pos)
         \/ p.state = "Vetting" /\ "Delay" \in scene.verdicts /\ Decode(p)
         \/ p.state \in {"Wait", "Active"} /\ Decode(p)
         \/ p.state = "Broken" /\ Drop(p, AfterBroken)
  /\ UNCHANGED <<pc, cycle, made, peer, up, bounds>>

StatesDone ==
  /\ pc = "states"
  /\ pos > Len(peers)
  /\ pc' = IF again THEN "states" ELSE "round"
  /\ pos' = 1
  /\ again' = FALSE
  /\ UNCHANGED <<cycle, npeers, peers, changes, made, peer, up, down, bounds>>

-----------------------------------------------------------------------------
(* A peer.                                                                 *)

\* a change of the follow id, at once or planned
HookUp(p, m) ==
  IF m.target > p.cycle
  THEN [p EXCEPT !.planned = Append(@, [follow |-> m.follow, target |-> m.target])]
  ELSE [p EXCEPT !.follow = m.follow]

\* decodeConfigData() of the peer
ReadConfig(i) ==
  /\ Connected(i)
  /\ down[i] # <<>>
  /\ down' = [down EXCEPT ![i] = Tail(@)]
  /\ LET m == Head(down[i])
     IN  peer' = [peer EXCEPT ![i] =
           CASE m.type = "Welcome" -> [HookUp(@, m) EXCEPT !.st = "conn", !.cycle = m.target]
             [] m.type = "HookUp"  -> HookUp(@, m)
             [] m.type = "Delete"  -> [@ EXCEPT !.last = m.target]]
  /\ UNCHANGED <<master, up, bounds>>

\* setStopTime() and, after a message of the master, peerSendConfig()
AskToLeave(i) ==
  /\ leaves < scene.leaves
  /\ peer[i].st = "conn"
  /\ npeers > 0
  /\ "leave" \in scene.calm => Settled
  /\ up' = [up EXCEPT ![i] = Append(@, "delete")]
  /\ leaves' = leaves + 1
  /\ UNCHANGED <<master, peer, down, breaks>>

Close(i) ==
  /\ peer' = [peer EXCEPT ![i].st = "gone"]
  /\ up' = [up EXCEPT ![i] = Append(@, "closed")]
  /\ UNCHANGED <<master, down>>

\* startCyclic(): after the last cycle the connections are cleared
Leave(i) ==
  /\ peer[i].st = "conn"
  /\ peer[i].cycle >= peer[i].last
  /\ Close(i)
  /\ UNCHANGED bounds

Break(i) ==
  /\ breaks < scene.breaks
  /\ Connected(i)
  /\ i \in Listed => peers[PlaceOf(i)].state \in BreakStates
  /\ "break" \in scene.calm => Settled
  /\ Close(i)
  /\ breaks' = breaks + 1
  /\ UNCHANGED leaves

-----------------------------------------------------------------------------
MasterStep == Round \/ ApplyChange \/ ChangesDone \/ ReceiveDone \/ CheckPeer \/ StatesDone

Done == pc = "round" /\ cycle = MaxCycle /\ UNCHANGED vars

Step == \/ MasterStep
        \/ Connect
        \/ \E i \in Ids : \/ ReceiveConfig(i) \/ ReadConfig(i) \/ Leave(i)
                          \/ AskToLeave(i) \/ Break(i)
        \/ Done

Next == Step /\ UNCHANGED scene

Spec == Init /\ [][Next]_<<vars, scene>>

-----------------------------------------------------------------------------
(* Every variable stays in its range.                                      *)
TypeOK ==
  /\ pc \in {"round", "changes", "receive", "states"}
  /\ cycle \in 1 .. MaxCycle
  /\ npeers \in 0 .. CountMod - 1
  /\ peers \in Seq([id : Ids, state : {"Vetting", "Wait", "Active", "Broken"},
                    follow : 0 .. MaxPeers, want : BOOLEAN, counted : BOOLEAN])
  /\ changes \in Seq([at : 1 .. Never, peer : Ids, add : BOOLEAN])
  /\ pos \in 1 .. MaxPeers + 1
  /\ again \in BOOLEAN
  /\ made \in 0 .. MaxPeers
  /\ \A i \in Ids : peer[i].follow \in -1 .. MaxPeers /\ peer[i].cycle \in 1 .. Never

\* A peer that is refused is subtracted from npeers although it was not
\* counted; what depends on the count is stated for the other scenes.
NobodyRefused == "Reject" \notin scene.verdicts

(* The master waits for the replies of the peers that it has made active   *)
(* and not yet removed, whatever way they leave.                           *)
PeersCounted ==
  NobodyRefused =>
    npeers = Cardinality({k \in DOMAIN peers : peers[k].counted})

(* After every join, leave and disconnect the send chain is repaired: when *)
(* nothing is under way every active peer gets its turn.                   *)
ChainWhenSettled ==
  (Settled /\ pc = "round" /\ cycle < MaxCycle) =>
    Repliers([i \in Ids |-> OnMasterMessage(peer[i])]) = Listed

(* "peer_changes are processed after the noted cycle": no planned change   *)
(* gets so old that cycleIsCurrentOrPast() no longer accepts it.           *)
ChangesInTime == \A k \in DOMAIN changes : cycle <= changes[k].at + 2

(* A peer that was given a join cycle is there before the master goes on   *)
(* without it.                                                             *)
EntersInTime ==
  NobodyRefused =>
    \A i \in Listed :
      (peer[i].st = "conn" /\ ~peer[i].tracking) => peer[i].cycle >= cycle

(* "the peer is configured to hook up to currently the last sender": who   *)
(* is given a join cycle follows the master or a peer that sends by then.  *)
FollowsSender ==
  \A k \in DOMAIN peers : peers[k].state \in {"Wait", "Active"} =>
    \/ peers[k].follow = 0
    \/ \E h \in DOMAIN peers : /\ peers[h].id = peers[k].follow
                               /\ peers[h].state # "Vetting"

(* The send chain: who is counted, who follows whom, and that the chain    *)
(* reaches everybody once the changes are done (assignPeerId(),            *)
(* correctFollowId(), checkAndUpdatePeerStates()).                         *)
ChainRight == TypeOK /\ PeersCounted /\ FollowsSender /\ ChainWhenSettled

(* No planned change, and no peer that was told when to enter, is too late.*)
InTime == ChangesInTime /\ EntersInTime

(* The master and the peers go on, what was sent on a connection arrives,  *)
(* a peer reads it.                                                        *)
Fairness ==
  /\ WF_vars(MasterStep)
  /\ \A i \in Ids : SF_vars(ReceiveConfig(i)) /\ WF_vars(ReadConfig(i)) /\ WF_vars(Leave(i))

FairSpec == Spec /\ Fairness

(* "the master now concludes there are enough responses, and [...] advances *)
(* to normal sending again": the rounds go on after peers joined, left or   *)
(* broke, as long as none is refused (see NobodyRefused).                    *)
RoundsGoOn == NobodyRefused => <>(cycle = MaxCycle)

=============================================================================
