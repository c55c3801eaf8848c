--------------------------- MODULE MCUChannelEntry ---------------------------
(* Model-checking instance of UChannelEntry: the configurations choose     *)
(* clients, operations and bounds.                                         *)
EXTENDS UChannelEntry
=============================================================================
