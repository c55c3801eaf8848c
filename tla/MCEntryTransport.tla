-------------------------- MODULE MCEntryTransport --------------------------
(* Circumstances for the model of the transport of an entry.               *)
EXTENDS EntryTransport, TLC

CONSTANTS p1, p2, e1, e2

Calm == {"gone", "added", "gap", "removed", "first"}

\* a stream with differences to one end, and a gap
Mixed == [ends |-> {e1}, via |-> [e \in Ends |-> p1], fill |-> {}, event |-> FALSE,
          full |-> FALSE, huge |-> {}, writes |-> 4, gaps |-> 1, removable |-> FALSE,
          calm |-> Calm]
\* the same, and the entry may be removed at any time
Removed == [Mixed EXCEPT !.writes = 2, !.removable = TRUE]
\* two ends, each through its own packer
Two == [Mixed EXCEPT !.ends = Ends, !.via = (e1 :> p1 @@ e2 :> p2), !.writes = 3, !.gaps = 0]
\* events, one of them too large, to two ends that open at any time
Events == [Mixed EXCEPT !.ends = Ends, !.fill = {p1}, !.event = TRUE, !.full = TRUE,
                        !.huge = {2}, !.gaps = 0, !.calm = Calm \ {"first"}]

AllSetups == {Mixed, Removed, Two, Events}
=============================================================================
