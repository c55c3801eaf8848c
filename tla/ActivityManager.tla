--------------------------- MODULE ActivityManager ---------------------------
(***************************************************************************)
(* Activities and the threads that run them, dueca/ActivityManager.cxx and *)
(* dueca/Activity.cxx.  Manager 1 runs loopDoActivities(), manager 0       *)
(* doActivities0(), which now and then leaves for the graphics; the ticker *)
(* has a thread of its own, that never waits for a signal.                 *)
(*                                                                         *)
(* The ticker triggers activity "model" of manager 1, "model" triggers     *)
(* "gui" of manager 0, and "gui" now and then "order" of manager 1.  A     *)
(* fourth thread switches "model" on and off.                              *)
(*                                                                         *)
(* Condition::signal() is always called between enterTest() and            *)
(* leaveTest(), so that the test for waiting and the waiting itself are    *)
(* one step to those who signal.  Manager 1 keeps the lock from the end of *)
(* a wait to the next test.  Adding an atom takes no lock.                 *)
(***************************************************************************)
EXTENDS Integers, Sequences, SequencesExt, FiniteSetsExt

CONSTANTS
  MAX_TIMETICK,
  time_weight,  \* of ActivityItem
  Period,       \* ticks between two triggers of "model"
  MaxTick,      \* bound: the clock
  MaxQueue,     \* bound: atoms and items of a manager when the ticker ticks,
                \* unless it takes a tick to get the manager going
  Settings      \* the circumstances, see setting

Managers == {0, 1}
Ticker == 2        \* the manager the ticker runs in
Activities == {"model", "order", "gui"}
Calls == {"switchOn", "switchOff"}

ASSUME ActivityAssumption ==
  /\ {MAX_TIMETICK, time_weight, Period, MaxTick, MaxQueue} \subseteq Nat
  /\ 0 < MaxTick /\ MaxTick < MAX_TIMETICK /\ Period > 0 /\ MaxTick % Period = 0
  /\ Settings \subseteq
       [order  : [Activities -> Nat],          \* of the PrioritySpec
        events : Nat,                          \* times "gui" triggers "order"
        calls  : Seq(Calls \X (0..MAX_TIMETICK - 1)),  \* what the switching thread does
        beat   : BOOLEAN,                      \* the ticker goes on for ever
        stops  : BOOLEAN,                      \* stopDoActivities() for manager 1
        throws : BOOLEAN,                      \* the callback of "model" may throw
        \* "apart": no switching while the manager is between the test of the
        \* activity's state and the change of it, no test halfway the switching
        calm   : SUBSET {"apart"}]

VARIABLES
  setting,         \* the circumstances, which do not change
  clock,           \* ticks that passed
  due,             \* the tick for the graphics has come (prio0_ginterval is one tick)
  spent,           \* ticks since manager 0 set its exittick, up to 2
  triggerq,        \* per manager: atoms, an activity and a span
  list,            \* per manager: the ActivityItems between head and tail
  to_do,           \* per manager
  pc,              \* per manager: where its thread is
  triggeredlevels, \* per thread that triggers
  running,         \* of manager 1
  run_state, switch_on, switch_off,   \* of the activities
  calls,           \* writes the switching thread is still to do, and calls
  events,          \* events still to come from "gui"
  ran,             \* history: end of the last span "model" ran for
  periods,         \* history: from and to of the periods "model" was on
  astray           \* history: "model" ran outside these, or back in time

timeVars == <<clock, due, spent>>
actVars == <<run_state, switch_on, switch_off>>
history == <<ran, periods, astray>>
vars == <<timeVars, triggerq, list, to_do, pc, triggeredlevels, running, actVars,
          calls, events, history>>

ManagerOf(a) == IF a = "gui" THEN 0 ELSE 1
Item(a, s, e) == [a |-> a, s |-> s, e |-> e]

Init ==
  /\ setting \in Settings
  /\ clock = 0 /\ due = FALSE /\ spent = 0
  /\ triggerq = [l \in Managers |-> <<>>]
  /\ list = [l \in Managers |-> <<>>]
  /\ to_do = [l \in Managers |-> Item("gui", 0, 0)]
  /\ pc = [l \in Managers |-> "begin"]
  /\ triggeredlevels = [x \in Managers \cup {Ticker} |-> {}]
  /\ running = TRUE
  /\ run_state = [a \in Activities |-> IF a = "model" THEN "Off" ELSE "Ready"]
  /\ switch_on = [a \in Activities |-> IF a = "model" THEN MAX_TIMETICK ELSE 0]
  /\ switch_off = [a \in Activities |-> IF a = "model" THEN 0 ELSE MAX_TIMETICK]
  /\ calls = [todo |-> setting.calls, writes |-> <<>>]
  /\ events = setting.events
  /\ ran = 0
  /\ periods = {} /\ astray = FALSE

-----------------------------------------------------------------------------
(* Waking: wakeThis() for the managers that were triggered, and kick().    *)

\* those of S that wait go on; a signal to others is lost
Signalled(S) ==
  [l \in Managers |-> IF l \in S /\ pc[l] = "waiting" THEN "propwait" ELSE pc[l]]

\* nobody of S has its condition locked
Free(S) == 1 \in S => pc[1] \notin {"propwait", "retest"}

\* slip: the test for atoms the wrong way round
WakeOthersEmpty(x) == {l \in triggeredlevels[x] : triggerq[l] = <<>> /\ l # x}
\* wakeOthers(): the managers to signal; one without atoms needs no waking
WakeOthers(x) == {l \in triggeredlevels[x] : triggerq[l] # <<>> /\ l # x}

\* pull(): an atom with the manager of the target
Pulled(a, s, e) == [triggerq EXCEPT ![ManagerOf(a)] = Append(@, Item(a, s, e))]

-----------------------------------------------------------------------------
(* The ticker's thread: wait for the tick, newTick(), and wake the others. *)

\* the manager waits, or (manager 0) does not handle the atoms in its queue,
\* for as long as it has nothing scheduled and it is not time for the graphics
NeedsTick(l) == \/ pc[l] = "waiting"
                \/ l = 0 /\ pc[l] \in {"look", "serve"} /\ list[l] = <<>> /\ ~due
Room == \A l \in Managers :
          Len(triggerq[l]) + Len(list[l]) <
            IF NeedsTick(l) THEN MaxQueue + setting.events + 1 ELSE MaxQueue

\* slip: without the kick
KickNot == pc
Kick == Signalled({0})

Tick ==
  LET s == IF clock < MaxTick THEN clock ELSE MaxTick - Period
  IN  /\ triggeredlevels[Ticker] = {}
      /\ clock < MaxTick \/ setting.beat
      /\ Room
      /\ clock' = s + Period /\ due' = TRUE /\ spent' = Min({spent + 1, 2})
      /\ triggerq' = Pulled("model", s, s + Period)
      /\ triggeredlevels' = [triggeredlevels EXCEPT ![Ticker] = {1}]
      /\ pc' = Kick
      /\ UNCHANGED <<list, to_do, running, actVars, calls, events, history>>

\* the clock and the queue are at their bounds: a tick without a trigger for "model"
TickOnly ==
  /\ setting.beat /\ clock = MaxTick /\ triggeredlevels[Ticker] = {}
  /\ ~Room /\ \A l \in Managers : NeedsTick(l)
  /\ due' = TRUE /\ spent' = Min({spent + 1, 2})
  /\ pc' = Kick
  /\ UNCHANGED <<clock, triggerq, list, to_do, triggeredlevels, running, actVars, calls,
                 events, history>>

TickerWakes ==
  /\ triggeredlevels[Ticker] # {} /\ Free(WakeOthers(Ticker))
  /\ pc' = Signalled(WakeOthers(Ticker))
  /\ triggeredlevels' = [triggeredlevels EXCEPT ![Ticker] = {}]
  /\ UNCHANGED <<timeVars, triggerq, list, to_do, running, actVars, calls, events, history>>

-----------------------------------------------------------------------------
(* Scheduling.                                                             *)

\* ActivityItem::operator <: less important
Less(x, y) == setting.order[x.a] - setting.order[y.a] + time_weight * (y.s - x.s) < 0

\* schedule(): in order of importance, or for manager 0 at the end
Scheduled(l, x) ==
  LET k == IF l = 0 THEN Len(list[l])
           ELSE Max({0} \cup {j \in DOMAIN list[l] : ~Less(list[l][j], x)})
  IN  SubSeq(list[l], 1, k) \o << x >> \o SubSeq(list[l], k + 1, Len(list[l]))

IsInRunPeriod(x) ==
  /\ switch_off[x.a] > switch_on[x.a] /\ x.s < switch_off[x.a]
  /\ x.e > switch_on[x.a] \/ (x.s = x.e /\ x.e >= switch_on[x.a])

\* slip: the span is taken as it is
NotTrimmed(x) == x
TrimToRunPeriod(x) ==
  Item(x.a, Max({x.s, switch_on[x.a]}), Min({x.e, switch_off[x.a]}))

\* Activity::trigger(), without a periodic time specification
Accepts(x) ==
  \/ run_state[x.a] = "Running"
  \/ run_state[x.a] \in {"Ready", "Braking"} /\ IsInRunPeriod(x)

\* the assumption "apart", for the tests of the state of "model"
NotWhileSwitching(x) == "apart" \in setting.calm /\ x.a = "model" => calls.writes = <<>>

\* where the thread goes on when propagateTriggers() is done
AfterProp(l) ==
  CASE l = 1 -> IF pc[l] = "propwait" THEN "retest" ELSE "test"
    [] l = 0 /\ pc[l] = "begin" -> "look"
    [] OTHER -> "serve"

\* propagateTriggers(): one atom, or the end of it
Propagate(l) ==
  /\ pc[l] \in {"begin", "propwait", "propend"}
  /\ IF triggerq[l] = <<>>
     THEN /\ pc' = [pc EXCEPT ![l] = AfterProp(l)]
          /\ UNCHANGED <<triggerq, list>>
     ELSE /\ NotWhileSwitching(Head(triggerq[l]))
          /\ triggerq' = [triggerq EXCEPT ![l] = Tail(@)]
          /\ list' = IF Accepts(Head(triggerq[l]))
                     THEN [list EXCEPT ![l] =
                             Scheduled(l, TrimToRunPeriod(Head(triggerq[l])))]
                     ELSE list
          /\ UNCHANGED pc
  \* doActivities0() sets the next time for the graphics, and behind a wait exittick
  /\ due' = (due /\ ~(l = 0 /\ pc[l] = "begin"))
  /\ spent' = IF l = 0 /\ pc[l] = "propwait" THEN 0 ELSE spent
  /\ UNCHANGED <<clock, to_do, triggeredlevels, running, actVars, calls, events, history>>

-----------------------------------------------------------------------------
(* The loop of manager 1, loopDoActivities().                              *)

Pop(l) ==
  /\ to_do' = [to_do EXCEPT ![l] = Head(list[l])]
  /\ list' = [list EXCEPT ![l] = Tail(@)]
  /\ pc' = [pc EXCEPT ![l] = "despatch"]

Leaves == ~running

\* with the condition's lock: go on, wait, or leave
Test ==
  /\ pc[1] \in {"test", "retest"}
  /\ CASE Leaves -> pc' = [pc EXCEPT ![1] = "ended"] /\ UNCHANGED <<list, to_do>>
       [] ~Leaves /\ list[1] = <<>> ->
            pc' = [pc EXCEPT ![1] = "waiting"] /\ UNCHANGED <<list, to_do>>
       [] ~Leaves /\ list[1] # <<>> -> Pop(1)
  /\ UNCHANGED <<timeVars, triggerq, triggeredlevels, running, actVars, calls, events,
                 history>>

\* stopDoActivities(), when the switching is done
StopDoActivities ==
  /\ setting.stops /\ running /\ calls.todo = <<>> /\ calls.writes = <<>>
  /\ Free({1})
  /\ running' = FALSE /\ pc' = Signalled({1})
  /\ UNCHANGED <<timeVars, triggerq, list, to_do, triggeredlevels, actVars, calls, events,
                 history>>

-----------------------------------------------------------------------------
(* The loop of manager 0, doActivities0().                                 *)

\* without the lock: nothing there, or go on to what is scheduled
Look ==
  /\ pc[0] = "look"
  /\ pc' = [pc EXCEPT ![0] = IF list[0] = <<>> /\ triggerq[0] = <<>> THEN "test" ELSE "serve"]
  /\ spent' = 0
  /\ UNCHANGED <<clock, due, triggerq, list, to_do, triggeredlevels, running, actVars, calls,
                 events, history>>

\* slip: the queue is not looked at again
Test0Blindly == pc' = [pc EXCEPT ![0] = "waiting"]
\* with the lock: look again, and wait
Test0Again == pc' = [pc EXCEPT ![0] = IF triggerq[0] = <<>> THEN "waiting" ELSE "propwait"]
Test0 ==
  /\ pc[0] = "test"
  /\ Test0Again
  /\ UNCHANGED <<timeVars, triggerq, list, to_do, triggeredlevels, running, actVars, calls,
                 events, history>>

\* the inner loop, for prio0_maxticks, one tick
Serve ==
  /\ pc[0] = "serve"
  /\ IF list[0] # <<>> /\ spent < 2
     THEN Pop(0)
     ELSE /\ pc' = [pc EXCEPT ![0] = IF due THEN "graphics" ELSE "look"]
          /\ UNCHANGED <<list, to_do>>
  /\ UNCHANGED <<timeVars, triggerq, triggeredlevels, running, actVars, calls, events,
                 history>>

Graphics ==
  /\ pc[0] = "graphics"
  /\ pc' = [pc EXCEPT ![0] = "begin"]
  /\ UNCHANGED <<timeVars, triggerq, list, to_do, triggeredlevels, running, actVars, calls,
                 events, history>>

-----------------------------------------------------------------------------
(* ActivityCallback::despatch(), and what follows it.                      *)

\* the switch on run_state: leave, become Last, or go on
Despatch(l) ==
  LET x == to_do[l]
      st == run_state[x.a]
      early == st = "Ready" /\ x.s < switch_on[x.a] /\ x.e <= switch_on[x.a]
  IN  /\ pc[l] = "despatch"
      /\ NotWhileSwitching(x)
      /\ pc' = [pc EXCEPT ![l] =
           IF st \in {"Off", "Last"} \/ early THEN "wake"
           ELSE IF st \in {"Ready", "Braking"} /\ x.e >= switch_off[x.a] THEN "last"
           ELSE "call"]
      /\ UNCHANGED <<timeVars, triggerq, list, to_do, triggeredlevels, running, actVars,
                     calls, events, history>>

SetLast(l) ==
  /\ pc[l] = "last"
  /\ run_state' = [run_state EXCEPT ![to_do[l].a] = "Last"]
  /\ pc' = [pc EXCEPT ![l] = "call"]
  /\ UNCHANGED <<timeVars, triggerq, list, to_do, triggeredlevels, running, switch_on,
                 switch_off, calls, events, history>>

\* what the callbacks of the three activities pull
Pulls(x) ==
  CASE x.a = "model" -> {"gui"}
    [] x.a = "gui" -> IF events > 0 THEN {"order"} ELSE {}
    [] x.a = "order" -> {}

CallAllowed(x) == x.e <= switch_off[x.a]

\* the run lies outside the periods, or is not behind the former one; the last
\* span of the ticker comes again and again
Astray(x) ==
  x.a = "model" /\ \/ ~\E p \in periods : p[1] <= x.s /\ x.s <= x.e /\ x.e <= p[2]
                   \/ x.e <= ran /\ ran <= MaxTick - Period

\* (*f)(t)
Call(l) ==
  LET x == to_do[l]
      AtomsFor(m) == {Item(a, x.s, x.e) : a \in {b \in Pulls(x) : ManagerOf(b) = m}}
  IN  /\ pc[l] = "call"
      /\ IF CallAllowed(x)
         THEN /\ triggerq' = [m \in Managers |-> triggerq[m] \o SetToSeq(AtomsFor(m))]
              /\ triggeredlevels' =
                   [triggeredlevels EXCEPT ![l] = @ \cup {ManagerOf(a) : a \in Pulls(x)}]
              /\ events' = IF x.a = "gui" /\ events > 0 THEN events - 1 ELSE events
              /\ ran' = IF x.a = "model" THEN x.e ELSE ran
              /\ astray' = (astray \/ Astray(x))
              /\ pc' = [pc EXCEPT ![l] = "called"]
         ELSE /\ pc' = [pc EXCEPT ![l] = "wake"]
              /\ UNCHANGED <<triggerq, triggeredlevels, events, ran, astray>>
      /\ UNCHANGED <<timeVars, list, to_do, running, actVars, calls, periods>>

\* (*f)(t) throws: the activity is switched off, from the start of time
Throw ==
  /\ setting.throws /\ pc[1] = "call" /\ to_do[1].a = "model" /\ CallAllowed(to_do[1])
  /\ run_state' = [run_state EXCEPT !["model"] = "Braking"]
  /\ switch_off' = [switch_off EXCEPT !["model"] = 0]
  /\ periods' = {}
  /\ pc' = [pc EXCEPT ![1] = "wake"]
  /\ UNCHANGED <<timeVars, triggerq, list, to_do, triggeredlevels, running, switch_on,
                 calls, events, ran, astray>>

\* if (run_state == Ready) run_state = Running
Called(l) ==
  /\ pc[l] = "called"
  /\ pc' = [pc EXCEPT ![l] = IF run_state[to_do[l].a] = "Ready" THEN "run" ELSE "wake"]
  /\ UNCHANGED <<timeVars, triggerq, list, to_do, triggeredlevels, running, actVars, calls,
                 events, history>>

SetRunning(l) ==
  /\ pc[l] = "run"
  /\ run_state' = [run_state EXCEPT ![to_do[l].a] = "Running"]
  /\ pc' = [pc EXCEPT ![l] = "wake"]
  /\ UNCHANGED <<timeVars, triggerq, list, to_do, triggeredlevels, running, switch_on,
                 switch_off, calls, events, history>>

\* wakeOthers()
Wake(l) ==
  /\ pc[l] = "wake" /\ Free(WakeOthers(l))
  /\ pc' = [Signalled(WakeOthers(l)) EXCEPT ![l] = "propend"]
  /\ triggeredlevels' = [triggeredlevels EXCEPT ![l] = {}]
  /\ UNCHANGED <<timeVars, triggerq, list, to_do, running, actVars, calls, events, history>>

-----------------------------------------------------------------------------
(* Activity::switchOn() and switchOff(), from another thread: the call,    *)
(* and its assignments one after the other.                                *)

SwitchOn(t) == << <<"switch_on", t, "none">>, <<"switch_off", MAX_TIMETICK, "none">>,
                  <<"run_state", 0, "Ready">> >>
SwitchOff(t) == << <<"switch_off", t, "none">>, <<"run_state", 0, "Braking">> >>

\* the manager is between a test of the state of "model" and the change of it
Between == to_do[1].a = "model" /\ pc[1] \in {"last", "call", "called", "run"}

Switch ==
  LET c == Head(calls.todo)
  IN  /\ calls.writes = <<>> /\ calls.todo # <<>>
      /\ c[2] >= clock                                 \* a time to come
      /\ calls' = [todo   |-> Tail(calls.todo),
                   writes |-> IF c[1] = "switchOn" THEN SwitchOn(c[2]) ELSE SwitchOff(c[2])]
      /\ UNCHANGED <<timeVars, triggerq, list, to_do, pc, triggeredlevels, running, actVars,
                     events, history>>

Assign ==
  LET w == Head(calls.writes)
      Written(f, n, k) == IF w[1] = n THEN [f EXCEPT !["model"] = w[k]] ELSE f
  IN  /\ calls.writes # <<>>
      /\ "apart" \in setting.calm => ~Between
      /\ switch_on' = Written(switch_on, "switch_on", 2)
      /\ switch_off' = Written(switch_off, "switch_off", 2)
      /\ run_state' = Written(run_state, "run_state", 3)
      /\ calls' = [calls EXCEPT !.writes = Tail(@)]
      /\ periods' =
           LET open == {p \in periods : p[2] = MAX_TIMETICK}
           IN  CASE w[3] = "Ready" -> (periods \ open)
                                      \cup {<< switch_on["model"], MAX_TIMETICK >>}
                 [] w[3] = "Braking" -> (periods \ open)
                                        \cup {<< p[1], switch_off["model"] >> : p \in open}
                 [] OTHER -> periods
      /\ UNCHANGED <<timeVars, triggerq, list, to_do, pc, triggeredlevels, running, events,
                     ran, astray>>

-----------------------------------------------------------------------------
Threads(l) == \/ Propagate(l) \/ Despatch(l) \/ SetLast(l) \/ Call(l) \/ Called(l)
              \/ SetRunning(l) \/ Wake(l)
Loop1 == Test \/ Threads(1) \/ Throw
Loop0 == Look \/ Test0 \/ Serve \/ Graphics \/ Threads(0)

\* multi-threaded running is over
Ended == pc[1] = "ended" /\ UNCHANGED vars

Next ==
  /\ \/ Tick \/ TickOnly \/ TickerWakes
     \/ Look \/ Test0 \/ Serve \/ Graphics
     \/ Test \/ Throw
     \/ \E l \in Managers : Threads(l)
     \/ Switch \/ Assign
     \/ StopDoActivities \/ Ended
  /\ UNCHANGED setting

Spec == Init /\ [][Next]_<<vars, setting>>

\* The threads are scheduled, ticks pass, calls that were begun are completed.
FairSpec ==
  /\ Spec
  /\ WF_vars((Tick \/ TickOnly) /\ UNCHANGED setting) /\ WF_vars(TickerWakes /\ UNCHANGED setting)
  /\ WF_vars(Loop0 /\ UNCHANGED setting) /\ WF_vars(Loop1 /\ UNCHANGED setting)
  /\ WF_vars(Assign /\ UNCHANGED setting)

-----------------------------------------------------------------------------
States == {"Off", "Last", "Ready", "Braking", "Running"}
Ticks == 0..MAX_TIMETICK
Items == [a : Activities, s : Ticks, e : Ticks]

\* An activity's item is only ever with the manager of its priority.
TypeOK ==
  /\ setting \in Settings
  /\ clock \in 0..MaxTick /\ due \in BOOLEAN /\ spent \in 0..2 /\ running \in BOOLEAN
  /\ \A l \in Managers :
       {triggerq[l], list[l]} \subseteq Seq({x \in Items : ManagerOf(x.a) = l})
  /\ to_do \in [Managers -> Items]
  /\ triggeredlevels \in [Managers \cup {Ticker} -> SUBSET Managers]
  /\ run_state \in [Activities -> States]
  /\ {switch_on, switch_off} \subseteq [Activities -> Ticks]
  /\ events \in 0..setting.events

\* However switching, triggering and the items already scheduled fall together:
\* the activity runs forward in time, within the periods it was switched on for,
\* and not again after its callback threw, unless switched on again.
RunsWhenOn == ~astray

WokenFor(l) ==
  pc[l] = "waiting" /\ triggerq[l] # <<>> =>
    \E x \in DOMAIN triggeredlevels : l \in triggeredlevels[x]

\* Manager 0 does not wait with atoms in its queue, unless the thread that put
\* them there is still to wake it.
Manager0Woken == WokenFor(0)

HasOrder == \E l \in {triggerq[1], list[1]} : \E k \in DOMAIN l : l[k].a = "order"

\* As long as there are ticks, an event for manager 1 is handled in the end, also
\* when it came between the manager's last look at the queue and its waiting.
EventHandled == setting.beat /\ HasOrder ~> ~HasOrder \/ ~running

\* An activity that was switched on runs in the end, or its callback throws.
SwitchedOnRuns ==
  /\ setting.beat /\ calls.todo = <<>> /\ calls.writes = <<>>
  /\ run_state["model"] = "Ready" /\ switch_on["model"] < MaxTick
  ~> run_state["model"] # "Ready" \/ ~running

\* The thread of a manager that is stopped ends, wherever it is.
StopsInTheEnd == ~running ~> pc[1] = "ended"

\* The interface does not freeze, also without activities in manager 0 (comment
\* with kick()).
GraphicsGoOn == setting.beat => []<>(pc[0] = "graphics" \/ ~running)

\* The queues hold what belongs there, and activities run when they should.
RunsRight == TypeOK /\ RunsWhenOn

\* What was triggered or switched on comes to run.
ComesToRun == EventHandled /\ SwitchedOnRuns

\* Neither the interface nor the end of the program waits for ever.
NobodyStuck == GraphicsGoOn /\ StopsInTheEnd

=============================================================================
