-------------------------- MODULE MCActivityManager --------------------------
EXTENDS ActivityManager

Order == [a \in Activities |-> IF a = "order" THEN 1 ELSE 0]
Setting(ev, cs, stops, throws) ==
  [order |-> Order, events |-> ev, calls |-> cs, beat |-> TRUE, stops |-> stops,
   throws |-> throws, calm |-> {"apart"}]

On(t) == << "switchOn", t >>
Off(t) == << "switchOff", t >>

AllSettings ==
  { Setting(1, << On(0) >>, TRUE, FALSE),            \* an event, and the end
    Setting(0, << On(1), Off(3), On(5) >>, FALSE, FALSE),  \* off and on again
    Setting(0, << On(1) >>, FALSE, TRUE) }    \* the callback may throw
=============================================================================
