-------------------------- MODULE MCUnifiedChannel --------------------------
(***************************************************************************)
(* Instances of UnifiedChannel for TLC: the end with the master and        *)
(* another one, write tokens wa, wb, wc, read tokens ra, rb.               *)
(***************************************************************************)
EXTENDS UnifiedChannel

CONSTANTS atMaster, elsewhere, wa, wb, wc, ra, rb

Writer(e, class, label, reserve) ==
  [end |-> e, class |-> class, label |-> label, event |-> TRUE, reserve |-> reserve,
   unique |-> FALSE]

Reader(e, want, label) ==
  [end |-> e, classes |-> {"A"}, want |-> want, label |-> label, time |-> "any",
   callback |-> FALSE, reserve |-> FALSE]

Fcn1(a, fa) == [y \in {a} |-> fa]
Fcn2(a, fa, b, fb) == [y \in {a, b} |-> IF y = a THEN fa ELSE fb]

\* one or two writers at the master's end, or one at each end
Wm == Fcn1(wa, Writer(atMaster, "A", "a", 0))
Wmm == Fcn2(wa, Writer(atMaster, "A", "a", 0), wb, Writer(atMaster, "A", "a", 0))
Wmn == Fcn2(wa, Writer(atMaster, "A", "a", 0), wb, Writer(elsewhere, "A", "a", 0))
\* with reservations; wc wants to be the only one
Wreserve == Fcn2(wa, Writer(atMaster, "A", "a", 2), wb, Writer(elsewhere, "A", "a", 1))
Wunique == Fcn2(wa, Writer(atMaster, "A", "a", 0),
                wc, [Writer(atMaster, "A", "b", 0) EXCEPT !.unique = TRUE])

\* readers of all entries, at the master's end or at the other one
Rm == Fcn1(ra, Reader(atMaster, "any", ""))
Rn == Fcn1(rb, Reader(elsewhere, "any", ""))
Rmm == Fcn2(ra, Reader(atMaster, "any", ""), rb, Reader(atMaster, "any", "a"))
\* with a reservation, of all entries and of the entry with label "a"
Rreserve == Fcn2(ra, [Reader(atMaster, "any", "") EXCEPT !.reserve = TRUE, !.callback = TRUE],
                 rb, [Reader(elsewhere, "label", "a") EXCEPT !.reserve = TRUE])

Setting(ends, ws, rs, restart, calm) ==
  [ends |-> ends, w |-> ws, r |-> rs, restart |-> restart, calm |-> calm]

AllSettings == {
  \* two ends, a writer at each, and a reader
  Setting({atMaster, elsewhere}, Wmn, Rn, FALSE, {"joined", "installed"}),
  \* one end, two writers and a reader, or a writer and two readers
  Setting({atMaster}, Wmm, Rm, FALSE, {"joined", "installed"}),
  Setting({atMaster}, Wm, Rmm, FALSE, {"joined", "installed"}),
  \* two ends, reservations; one end, a writer that wants to be the only one
  Setting({atMaster, elsewhere}, Wreserve, Rreserve, FALSE, {"kept"}),
  Setting({atMaster}, Wunique, Rm, FALSE, {"kept"}),
  \* one end, tokens that come and go
  Setting({atMaster}, Wmm, Rm, TRUE, {"installed", "one"})}
=============================================================================
