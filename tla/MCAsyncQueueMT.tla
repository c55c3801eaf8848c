--------------------------- MODULE MCAsyncQueueMT ---------------------------
(* Model-checking instance of AsyncQueueMT. Writers are interchangeable: it  *)
(* is the first one that is held up in a call while the second goes on.      *)
EXTENDS AsyncQueueMT

CONSTANTS w1, w2

OneHeldUp == [w \in Writers |-> IF w = w1 THEN 1 ELSE 3]
=============================================================================
