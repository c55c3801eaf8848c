----------------------------- MODULE AsyncFifo -----------------------------
(***************************************************************************)
(* What AsyncQueueMT promises to its users, without cells and pointers: a  *)
(* first-in first-out queue in which a write has two moments.  Enter gives *)
(* the message its place in the order; Show makes it readable.  A reader   *)
(* only ever takes the message at the front, and only once it is readable, *)
(* so a slow writer holds back everything that entered after it but        *)
(* nothing is lost, duplicated or overtaken.                               *)
(***************************************************************************)
EXTENDS Integers, Sequences

CONSTANT Messages

VARIABLES
  queue,   \* messages in the order in which they entered
  shown,   \* shown[i]: queue[i] has been made readable
  taken    \* what the single reader holds: <<>> or <<message>>

fifoVars == <<queue, shown, taken>>

Init ==
  /\ queue = <<>>
  /\ shown = <<>>
  /\ taken = <<>>

Enter(m) ==
  /\ queue' = Append(queue, m)
  /\ shown' = Append(shown, FALSE)
  /\ UNCHANGED taken

Show(i) ==
  /\ ~shown[i]
  /\ shown' = [shown EXCEPT ![i] = TRUE]
  /\ UNCHANGED <<queue, taken>>

Take ==
  /\ queue # <<>>
  /\ shown[1]
  /\ taken' = <<Head(queue)>>
  /\ queue' = Tail(queue)
  /\ shown' = Tail(shown)

Drop ==
  /\ taken # <<>>
  /\ taken' = <<>>
  /\ UNCHANGED <<queue, shown>>

Next ==
  \/ \E m \in Messages : Enter(m)
  \/ \E i \in DOMAIN queue : Show(i)
  \/ Take
  \/ Drop

Spec == Init /\ [][Next]_fifoVars
=============================================================================
