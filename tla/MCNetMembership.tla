--------------------------- MODULE MCNetMembership ---------------------------
(* Circumstances for the model of the members of the network.               *)
EXTENDS NetMembership

\* changes one at a time, some peers have to wait for their acceptance
OneByOne == [calm |-> {"join", "leave", "break"}, leaves |-> 1, breaks |-> 1,
             verdicts |-> {"Delay"}]
\* changes one at a time, and some peers are refused
Refused == [OneByOne EXCEPT !.leaves = 2, !.breaks = 2, !.verdicts = {"Delay", "Reject"}]
\* peers join at any time, none leaves
JoinAnyTime == [calm |-> {}, leaves |-> 0, breaks |-> 0, verdicts |-> {}]

AllScenes == {OneByOne, Refused, JoinAnyTime}
=============================================================================
