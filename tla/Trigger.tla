------------------------------- MODULE Trigger -------------------------------
(***************************************************************************)
(* Combining triggers, dueca/Trigger.cxx and dueca/TriggerRegulator*.cxx:  *)
(* two pullers (channel tokens, alarms) pull with spans of time; puller 1  *)
(* may pass through a TriggerRegulator, and both are combined by a         *)
(* ConditionAnd or a ConditionOr, which triggers an activity.              *)
(*                                                                         *)
(* A pull puts an atom in the queue of the activity manager, whose thread  *)
(* delivers the atoms one after the other; what a target pulls in turn is  *)
(* put at the end of the same queue.  One turn of a loop in the code is a  *)
(* step.  A time is a tick; ticks are unsigned, modulo TickMod.            *)
(***************************************************************************)
EXTENDS Integers, Sequences, FiniteSets, SequencesExt, FiniteSetsExt

CONSTANTS
  TickMod,   \* number of values of a TimeTickType (2^32)
  MaxTick,   \* bound: end of the last span pulled
  MaxQueue,  \* bound: atoms in the queue when a puller pulls
  MaxJump,   \* bound: size of a gap between two spans of a puller
  Wirings    \* the circumstances, see wiring

ASSUME TriggerAssumption ==
  /\ {TickMod, MaxTick, MaxQueue, MaxJump} \subseteq Nat
  /\ TickMod > 4 * MaxTick
  /\ Wirings \subseteq
       [kind      : {"and", "or"},
        regulator : {"none", "regular", "greedy"},
        offset    : 0..(TickMod - 1),          \* TimeSpec of the regulator
        period    : 1..(TickMod - 1),
        changes   : SUBSET (Nat \X (Nat \ {0})), \* later ones, offset and period
        spans     : [{1, 2} -> SUBSET Nat],    \* sizes of the spans of a puller
        \* what the pullers are assumed to do:
        \* "reached": to leave a gap only up to a time the other has reached
        \* "aligned": to start behind a gap at a multiple of the period
        \* "gapless": to leave no gap
        calm      : SUBSET {"reached", "aligned", "gapless"}]

Pullers == {1, 2}

VARIABLES
  wiring,    \* the circumstances, which do not change
  given,     \* end of the last span of each puller
  triggerq,  \* atoms in the queue of the manager: target, id, span
  pc,        \* what the manager's thread is doing: "idle", "advance" or "combine"
  now,       \* span of the atom being delivered
  ts,        \* of the regulator: start, end and period
  prev_end,  \* of the regulator
  new_ts,    \* of the regulator: <<>> or <<start, period>>
  changed,   \* bound: the period has been changed
  timing,    \* PullerData: per puller the list from time_head to time_tail
  previous_tick, \* of the combination
  regular,   \* history: spans pulled by the regulator
  sent,      \* history: spans that reached the combination, per puller
  out        \* history: spans pulled by the combination

regVars == <<ts, prev_end, new_ts, changed, regular>>
joinVars == <<timing, previous_tick, sent, out>>
vars == <<given, triggerq, pc, now, regVars, joinVars>>

Span(s, e) == [s |-> s, e |-> e]
Size(x) == (x.e - x.s) % TickMod     \* getValiditySpan()

\* PeriodicTimeSpec(start, period)
Periodic(s, p) == [s |-> s, e |-> (s + p) % TickMod, p |-> p]

Init ==
  /\ wiring \in Wirings
  /\ given = [i \in Pullers |-> 0]
  /\ triggerq = <<>>
  /\ pc = "idle" /\ now = Span(0, 0)
  /\ ts = Periodic(wiring.offset, wiring.period)
  /\ prev_end = 0 /\ new_ts = <<>> /\ changed = FALSE /\ regular = <<>>
  /\ timing = [i \in Pullers |-> << [s |-> 0, e |-> 0, endtime |-> 0] >>]
  /\ previous_tick = 0
  /\ sent = [i \in Pullers |-> {}] /\ out = <<>>

Atom(to, id, x) == [to |-> to, id |-> id, ts |-> x]
Deliver(to, x) == /\ pc = "idle" /\ triggerq # <<>>
                  /\ Head(triggerq).to = to /\ x = Head(triggerq).ts

-----------------------------------------------------------------------------
(* The pullers, TriggerPuller::pull().                                     *)

Pull(i, jump, size) ==
  LET s == given[i] + jump
      regulated == i = 1 /\ wiring.regulator # "none"
  IN  /\ jump + size > 0 /\ s + size <= MaxTick
      /\ Len(triggerq) < MaxQueue
      /\ jump > 0 => /\ "reached" \in wiring.calm => \E x \in sent[3 - i] : x.e >= s
                     /\ "gapless" \notin wiring.calm
                     /\ "aligned" \in wiring.calm /\ regulated =>
                          s % wiring.period = 0 /\ s >= wiring.offset + wiring.period
      /\ given' = [given EXCEPT ![i] = s + size]
      /\ triggerq' = Append(triggerq, Atom(IF regulated THEN "regulator" ELSE "join",
                                           i, Span(s, s + size)))
      /\ UNCHANGED <<pc, now, regVars, joinVars>>

-----------------------------------------------------------------------------
(* TriggerRegulator and TriggerRegulatorGreedy.                            *)

\* changePeriodAndOffset(), by any thread
ChangePeriodAndOffset(c) ==
  /\ wiring.regulator # "none" /\ ~changed /\ new_ts = <<>>
  /\ new_ts' = c
  /\ changed' = TRUE
  /\ UNCHANGED <<given, triggerq, pc, now, ts, prev_end, regular, joinVars>>

\* division as in C++, and an unsigned value read as int
Quotient(a, b) == IF a >= 0 THEN a \div b ELSE -((-a) \div b)
AsInt(a) == IF a < TickMod \div 2 THEN a ELSE a - TickMod

\* PeriodicTimeSpec::forceAdvance()
ForceAdvance(x, point) ==
  IF point < x.s THEN x
  ELSE LET jump == Quotient(AsInt((point - x.s) % TickMod), x.p) * x.p
       IN  Periodic((x.s + jump) % TickMod, x.p)

\* where the new time span is to begin
NewStart(x, c) == (1 + (x.e - 1 - c[1]) \div c[2]) * c[2]

\* slip: no correcting span
NoPatch(start) == <<>>
\* a correcting span if the spans don't match
Patch(start) == IF start > ts.e THEN << Span(ts.e, start) >> ELSE <<>>

Pulled(x) == Append(triggerq, Atom("join", 1, x))

\* the part with new_ts: the time specification to go on with, and the spans
\* of the correction; or the trigger does not reach far enough
ChangeTs(t) ==
  LET c == new_ts
      start == NewStart(ts, c)
  IN  IF c = <<>> THEN [stop |-> FALSE, ts |-> ts, pull |-> <<>>]
      ELSE IF ts.e <= c[1]
      THEN [stop |-> FALSE, ts |-> Periodic(c[1], c[2]), pull |-> <<>>]
      ELSE [stop |-> /\ start > ts.e
                     /\ IF wiring.regulator = "greedy" THEN t.s <= start ELSE t.e < start,
            ts   |-> Periodic((start - c[2]) % TickMod, c[2]),
            pull |-> Patch(start)]

\* the part after a gap: fast forward, and possibly one shorter period
JumpGap(x, t) ==
  LET y == ForceAdvance(x, (t.s - Size(x)) % TickMod)
      short == (IF wiring.regulator = "greedy" THEN t.e ELSE t.s) > y.e
  IN  IF t.s <= prev_end THEN [ts |-> x, pull |-> <<>>]
      ELSE [ts |-> y, pull |-> IF short THEN << Span(t.s, y.e) >> ELSE <<>>]

\* trigger(), up to the loop
RegulatorTrigger(t) ==
  LET c == ChangeTs(t)
      g == JumpGap(c.ts, t)
      pull == c.pull \o g.pull
  IN  /\ Deliver("regulator", t)
      /\ IF c.stop
         THEN /\ prev_end' = t.e
              /\ triggerq' = Tail(triggerq)
              /\ UNCHANGED <<pc, now, ts, new_ts, regular>>
         ELSE /\ ts' = g.ts /\ new_ts' = <<>>
              /\ regular' = regular \o pull
              /\ triggerq' = Tail(triggerq)
                             \o [k \in DOMAIN pull |-> Atom("join", 1, pull[k])]
              /\ pc' = "advance" /\ now' = t
              /\ UNCHANGED prev_end
      /\ UNCHANGED <<given, changed, joinVars>>

\* PeriodicTimeSpec::advance(), greedyAdvance()
MayAdvance ==
  IF wiring.regulator = "greedy" THEN ts.e < now.e ELSE ts.e + ts.p <= now.e

\* one turn of while (ts.advance()) pull(ts), or its end
RegulatorAdvance ==
  /\ pc = "advance"
  /\ IF MayAdvance
     THEN LET x == Periodic((ts.s + ts.p) % TickMod, ts.p)
          IN  /\ ts' = x
              /\ regular' = Append(regular, Span(x.s, x.e))
              /\ triggerq' = Pulled(Span(x.s, x.e))
              /\ UNCHANGED <<pc, prev_end>>
     ELSE /\ prev_end' = now.e
          /\ pc' = "idle"
          /\ UNCHANGED <<ts, regular, triggerq>>
  /\ UNCHANGED <<given, now, new_ts, changed, joinVars>>

-----------------------------------------------------------------------------
(* ConditionOr.                                                            *)

\* slip: the span is passed on as it is
OrSpanWhole(t) == t
OrSpan(t) == Span(Max({t.s, previous_tick}), t.e)

OrTrigger(t) ==
  /\ wiring.kind = "or"
  /\ Deliver("join", t)
  /\ IF previous_tick < t.e
     THEN /\ out' = Append(out, OrSpan(t))
          /\ previous_tick' = t.e
     ELSE UNCHANGED <<out, previous_tick>>
  /\ triggerq' = Tail(triggerq)
  /\ sent' = [sent EXCEPT ![Head(triggerq).id] = @ \cup {t}]
  /\ UNCHANGED <<given, pc, now, regVars, timing>>

-----------------------------------------------------------------------------
(* ConditionAnd.                                                           *)

Repeats(tail, t) == t.s = tail.endtime /\ Size(t) = Size(tail)

\* newSpan(): the list of the puller with t added
Extended(l, t) ==
  LET tail == Last(l)
  IN  IF Repeats(tail, t) THEN [l EXCEPT ![Len(l)].endtime = t.e]
      ELSE IF t.e > tail.endtime
      THEN Append(l, [s |-> Max({t.s, tail.endtime}), e |-> t.e, endtime |-> t.e])
      ELSE l

\* slip: an extension of a repeat tips only from the very start
TipsAtStart(l, t) ==
  LET tail == Last(l)
  IN  IF Repeats(tail, t) THEN t.e = Size(tail)
      ELSE tail.endtime <= previous_tick /\ t.e > previous_tick

\* newSpan(): whether this can tip the trigger
Tips(l, t) ==
  LET tail == Last(l)
  IN  IF Repeats(tail, t) THEN t.e = Size(tail) + previous_tick /\ t.e > previous_tick
      ELSE /\ t.e > tail.endtime
           /\ tail.endtime <= previous_tick
           /\ t.e > previous_tick

\* trigger(), up to the loop
AndTrigger(t) ==
  LET i == Head(triggerq).id
  IN  /\ wiring.kind = "and"
      /\ Deliver("join", t)
      /\ timing' = [timing EXCEPT ![i] = Extended(@, t)]
      /\ pc' = IF Tips(timing[i], t) THEN "combine" ELSE "idle"
      /\ now' = t
      /\ triggerq' = Tail(triggerq)
      /\ sent' = [sent EXCEPT ![i] = @ \cup {t}]
      /\ UNCHANGED <<given, regVars, previous_tick, out>>

\* cleanUpTimingList(): drop what is over, move the head up by whole spans
CleanedUp(l) ==
  LET first == Min({k \in DOMAIN l : k = Len(l) \/ l[k].endtime > previous_tick})
      kept == SubSeq(l, first, Len(l))
      h == Head(kept)
      steps == IF h.e = previous_tick THEN 1 ELSE (previous_tick - h.s) \div Size(h)
  IN  IF h.endtime > previous_tick /\ h.e <= previous_tick
      THEN [kept EXCEPT ![1].s = @ + steps * Size(h), ![1].e = @ + steps * Size(h)]
      ELSE kept

\* one turn of the do loop: a span for the activity, a gap, or the end
AndCombine ==
  LET clean == [i \in Pullers |-> CleanedUp(timing[i])]
      tstart == Max({previous_tick} \cup {Head(clean[i]).s : i \in Pullers})
      tend == Min({Head(clean[i]).e : i \in Pullers})
  IN  /\ pc = "combine"
      /\ timing' = clean
      /\ \/ /\ tend > tstart \/ (tend = tstart /\ tstart > previous_tick)
            /\ out' = Append(out, Span(tstart, tend))
            /\ previous_tick' = tend
            /\ UNCHANGED pc
         \/ /\ tend < tstart /\ tstart > previous_tick
            /\ previous_tick' = tstart
            /\ UNCHANGED <<out, pc>>
         \/ /\ tend <= tstart /\ tstart <= previous_tick
            /\ pc' = "idle"
            /\ UNCHANGED <<out, previous_tick>>
      /\ UNCHANGED <<given, triggerq, now, regVars, sent>>

-----------------------------------------------------------------------------
\* nobody pulls any more
Stopped == triggerq = <<>> /\ pc = "idle" /\ UNCHANGED vars

Next ==
  /\ \/ \E i \in Pullers, jump \in 0..MaxJump :
            \E size \in wiring.spans[i] : Pull(i, jump, size)
     \/ \E c \in wiring.changes : ChangePeriodAndOffset(c)
     \/ \E t \in {Head(q).ts : q \in {triggerq} \ {<<>>}} :
            RegulatorTrigger(t) \/ OrTrigger(t) \/ AndTrigger(t)
     \/ RegulatorAdvance
     \/ AndCombine
     \/ Stopped
  /\ UNCHANGED wiring

Spec == Init /\ [][Next]_<<vars, wiring>>

-----------------------------------------------------------------------------
Ticks == 0..(TickMod - 1)
Spans == [s : Ticks, e : Ticks]

\* Every tick is an unsigned number of its width, and the list of a puller is
\* never empty (cleanUpTimingList leaves one), in order, and the span of a repeat
\* lies within the repeat.
TypeOK ==
  /\ wiring \in Wirings
  /\ given \in [Pullers -> 0..MaxTick]
  /\ triggerq \in Seq([to : {"regulator", "join"}, id : Pullers, ts : Spans])
  /\ pc \in {"idle", "advance", "combine"} /\ now \in Spans
  /\ ts \in [s : Ticks, e : Ticks, p : Ticks \ {0}] /\ prev_end \in Ticks
  /\ new_ts \in wiring.changes \cup {<<>>} /\ changed \in BOOLEAN
  /\ timing \in [Pullers -> Seq([s : Ticks, e : Ticks, endtime : Ticks]) \ {<<>>}]
  /\ \A i \in Pullers : \A k \in DOMAIN timing[i] :
       /\ timing[i][k].s <= timing[i][k].e /\ timing[i][k].e <= timing[i][k].endtime
       /\ k > 1 => timing[i][k-1].endtime <= timing[i][k].s
  /\ previous_tick \in Ticks
  /\ sent \in [Pullers -> SUBSET Spans] /\ {regular, out} \subseteq Seq(Spans)

\* the tick from u to u + 1 is in one of the spans
Holds(S, u) == \E x \in S : x.s <= u /\ u < x.e
FirstTick == IF wiring.regulator = "none" THEN 0 ELSE wiring.offset + wiring.period
Forward(l) ==
  /\ \A k \in DOMAIN l : l[k].s <= l[k].e
  /\ \A k \in 2..Len(l) : l[k-1].e <= l[k].s

\* Whatever order the pullers' spans arrive in, with repeats, gaps and spans
\* that overlap: the activity is triggered forward in time, no tick twice, and
\* with ConditionAnd only for time that each puller has triggered for.
OutputForward ==
  /\ Forward(out)
  /\ wiring.kind = "and" =>
       \A k \in DOMAIN out, u \in 0..MaxTick, i \in Pullers :
         out[k].s <= u /\ u < out[k].e => Holds(sent[i], u)

\* After each trigger ConditionAnd has passed on all time its two pullers have
\* in common, though newSpan() looks for more only when the new span can tip the
\* balance.  ConditionOr has passed on all time that one of them triggered
\* for.  (A regulator gives nothing before its second period.)
NothingMissed ==
  pc # "combine" =>
    \A u \in FirstTick..MaxTick :
      (IF wiring.kind = "and" THEN \A i \in Pullers : Holds(sent[i], u)
                              ELSE \E i \in Pullers : Holds(sent[i], u))
      => Holds(Range(out), u)

\* The comment with ConditionAnd: an event of one token comes out when the other
\* token has progressed to or beyond that point.
EventsComeOut ==
  pc # "combine" =>
    \A u \in 0..MaxTick, i \in Pullers :
      Span(u, u) \in sent[i] /\ Holds(sent[3 - i], u) => Span(u, u) \in Range(out)

\* The regulator gives spans forward in time and no tick twice, over a change of
\* the period and behind a gap; the one that is not greedy gives no time that was
\* not triggered for.
RegulatorForward ==
  /\ Forward(regular)
  /\ wiring.regulator = "regular" =>
       \A k \in DOMAIN regular : regular[k].e <= given[1]

\* With its trigger handled, and no gap in them, the regulator has given every
\* tick from its second period on: up to the last whole period, or, the greedy
\* one, up to the end of the trigger.
RegulatorKeepsUp ==
  /\ "gapless" \in wiring.calm /\ wiring.regulator # "none" /\ new_ts = <<>>
  /\ pc # "advance" /\ \A k \in DOMAIN triggerq : triggerq[k].to # "regulator"
  => \A u \in FirstTick..MaxTick :
       (IF wiring.regulator = "greedy" THEN u < given[1] ELSE u + ts.p <= given[1])
       => Holds(Range(regular), u)

\* The queues of spans and what goes out to the activity are in order of time.
TriggersForward == TypeOK /\ OutputForward

\* The regulator gives all it should, once and in order (TriggerRegulator,
\* TriggerRegulatorGreedy).
RegulatorRight == RegulatorForward /\ RegulatorKeepsUp

=============================================================================
