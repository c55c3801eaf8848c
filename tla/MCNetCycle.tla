------------------------------ MODULE MCNetCycle ------------------------------
(* Model-checking instance of NetCycle.                                    *)
EXTENDS NetCycle
=============================================================================
