------------------------------ MODULE MCTrigger ------------------------------
EXTENDS Trigger

Joined(kind, spans) ==
  [kind |-> kind, regulator |-> "none", offset |-> 0, period |-> 1, changes |-> {},
   spans |-> spans, calm |-> {"reached"}]
Regulated(kind, regulator, changes, spans, calm) ==
  [kind |-> kind, regulator |-> regulator, offset |-> 0, period |-> 2,
   changes |-> changes, spans |-> spans, calm |-> calm]

\* spans of one size and of several sizes, events, a regulator with a change of
\* its period (also one that starts later), without gaps and with
AllWirings ==
  { Joined("and", << {2}, {3} >>),
    Joined("and", << {2, 3}, {0} >>),
    Joined("and", << {1, 3}, {2} >>),
    Joined("or",  << {2, 3}, {0, 2} >>),
    Regulated("and", "regular", {<<0, 3>>}, << {1, 3}, {2} >>, {"gapless"}),
    Regulated("or", "greedy", {<<0, 3>>, <<0, 1>>}, << {1, 3}, {2} >>, {"gapless"}),
    Regulated("and", "regular", {<<8, 2>>}, << {1, 2}, {3} >>, {"reached", "aligned"}) }

\* the example in the comment with ConditionAnd
TokenWithEvents == { Joined("and", << {2}, {0} >>) }
=============================================================================
