----------------------- MODULE ActivityManagerProofs -----------------------
(***************************************************************************)
(* Theorems about ActivityManager, for all circumstances and any number    *)
(* of ticks, atoms and events.                                             *)
(***************************************************************************)
EXTENDS ActivityManager, FiniteSetTheorems, SequenceTheorems, WellFoundedInduction, TLAPS

\* where the thread of a manager can be
Steps == {"begin", "propwait", "propend", "test", "retest", "look", "serve", "graphics",
          "waiting", "despatch", "last", "call", "called", "run", "wake", "ended"}

\* the threads that are there to wake manager 0
Wakers == {1, Ticker}

\* Of each manager and each waker there is a thread, a queue and a set of levels.
ThreadsThere ==
  /\ pc \in [Managers -> Steps]
  /\ DOMAIN triggerq = Managers
  /\ DOMAIN triggeredlevels = Managers \cup {Ticker}

\* Its own thread does not wake manager 0: it is one of the others that will.
ToBeWoken ==
  pc[0] = "waiting" /\ triggerq[0] # <<>> => \E x \in Wakers : 0 \in triggeredlevels[x]

WakeInv == ThreadsThere /\ ToBeWoken

LEMMA EmptySetToSeq == SetToSeq({}) = <<>>
<1>1. Cardinality({}) = 0
  BY FS_EmptySet
<1>2. \A f \in [1 .. 0 -> {}] : f = <<>>
  OBVIOUS
<1>3. <<>> \in [1 .. 0 -> {}] /\ IsInjective(<<>>)
  BY DEF IsInjective
<1>4. SetToSeq({}) \in [1 .. 0 -> {}]
  BY <1>1, <1>3 DEF SetToSeq
<1> QED BY <1>2, <1>4

LEMMA WakeInit == Init => WakeInv
BY DEF Init, WakeInv, ThreadsThere, ToBeWoken, Managers, Steps, Wakers

\* a step that leaves queues and levels alone and does not begin to wait
LEMMA WakeFrame ==
  ASSUME WakeInv, pc' \in [Managers -> Steps], UNCHANGED <<triggerq, triggeredlevels>>,
         pc'[0] = "waiting" => pc[0] = "waiting" \/ triggerq[0] = <<>>
  PROVE  WakeInv'
BY DEF WakeInv, ThreadsThere, ToBeWoken

\* a manager goes on
LEMMA GoesOn ==
  ASSUME WakeInv, NEW l \in Managers, NEW s \in Steps, pc' = [pc EXCEPT ![l] = s]
  PROVE  pc' \in [Managers -> Steps] /\ pc'[l] = s /\ \A m \in Managers \ {l} : pc'[m] = pc[m]
BY DEF WakeInv, ThreadsThere

LEMMA SignalledIs ==
  ASSUME WakeInv, NEW S
  PROVE  /\ Signalled(S) \in [Managers -> Steps]
         /\ \A l \in Managers : /\ Signalled(S)[l] = "waiting" => pc[l] = "waiting"
                                /\ l \in S => Signalled(S)[l] # "waiting"
BY DEF Signalled, WakeInv, ThreadsThere, Steps

LEMMA TickWakes ==
  ASSUME WakeInv, Tick \/ TickOnly \/ TickerWakes \/ StopDoActivities
  PROVE  WakeInv'
<1>1. CASE Tick
  <2>1. pc' = Signalled({0}) /\ triggeredlevels' = [triggeredlevels EXCEPT ![Ticker] = {1}]
        /\ \E x : triggerq' = [triggerq EXCEPT ![1] = x]
    BY <1>1 DEF Tick, Kick, Pulled, ManagerOf
  <2> QED BY <2>1, SignalledIs DEF WakeInv, ThreadsThere, ToBeWoken, Managers
<1>2. CASE TickOnly
  BY <1>2, SignalledIs, WakeFrame DEF TickOnly, Kick, Managers
<1>3. CASE TickerWakes
  <2>1. /\ pc' = Signalled(WakeOthers(Ticker)) /\ triggerq' = triggerq
        /\ triggeredlevels' = [triggeredlevels EXCEPT ![Ticker] = {}]
    BY <1>3 DEF TickerWakes
  <2>2. pc' \in [Managers -> Steps]
    BY <2>1, SignalledIs
  <2>3. triggerq[0] # <<>> /\ 0 \in triggeredlevels[Ticker] => pc'[0] # "waiting"
    BY <2>1, SignalledIs DEF WakeOthers, Ticker, Managers
  <2>4. pc'[0] = "waiting" => pc[0] = "waiting"
    BY <2>1, SignalledIs DEF Managers
  <2>5. triggeredlevels'[1] = triggeredlevels[1] /\ DOMAIN triggeredlevels' = Managers \cup {Ticker}
    BY <2>1 DEF WakeInv, ThreadsThere, Managers, Ticker
  <2> QED BY <2>1, <2>2, <2>3, <2>4, <2>5 DEF WakeInv, ThreadsThere, ToBeWoken, Wakers
<1>4. CASE StopDoActivities
  BY <1>4, SignalledIs, WakeFrame DEF StopDoActivities, Managers
<1> QED BY <1>1, <1>2, <1>3, <1>4

LEMMA PropagateKeeps ==
  ASSUME WakeInv, NEW l \in Managers, Propagate(l)
  PROVE  WakeInv'
<1>1. pc[l] \in {"begin", "propwait", "propend"} /\ triggeredlevels' = triggeredlevels
  BY DEF Propagate
<1>2. CASE triggerq[l] = <<>>
  <2>1. triggerq' = triggerq /\ pc' = [pc EXCEPT ![l] = AfterProp(l)]
    BY <1>2 DEF Propagate
  <2>2. AfterProp(l) \in Steps \ {"waiting"}
    BY DEF AfterProp, Steps, Managers
  <2>3. pc' \in [Managers -> Steps] /\ pc'[l] # "waiting" /\ \A m \in Managers \ {l} : pc'[m] = pc[m]
    BY <2>1, <2>2, GoesOn
  <2> QED BY <1>1, <2>1, <2>3, WakeFrame DEF Managers
<1>3. CASE triggerq[l] # <<>>
  <2>1. pc' = pc /\ \E x : triggerq' = [triggerq EXCEPT ![l] = x]
    BY <1>3 DEF Propagate
  <2>2. CASE l = 0
    BY <1>1, <2>1, <2>2 DEF WakeInv, ThreadsThere, ToBeWoken
  <2>3. CASE l = 1
    <3>1. triggerq'[0] = triggerq[0] /\ DOMAIN triggerq' = Managers
      BY <2>1, <2>3 DEF WakeInv, ThreadsThere, Managers
    <3> QED BY <1>1, <2>1, <3>1 DEF WakeInv, ThreadsThere, ToBeWoken
  <2> QED BY <2>2, <2>3 DEF Managers
<1> QED BY <1>2, <1>3

LEMMA CallKeeps ==
  ASSUME WakeInv, NEW l \in Managers, Call(l)
  PROVE  WakeInv'
<1> DEFINE x == to_do[l]
           AtomsFor(m) == {Item(a, x.s, x.e) : a \in {b \in Pulls(x) : ManagerOf(b) = m}}
<1>1. CASE CallAllowed(x)
  <2>1. /\ triggerq' = [m \in Managers |-> triggerq[m] \o SetToSeq(AtomsFor(m))]
        /\ triggeredlevels' =
             [triggeredlevels EXCEPT ![l] = @ \cup {ManagerOf(a) : a \in Pulls(x)}]
        /\ pc' = [pc EXCEPT ![l] = "called"]
    BY <1>1 DEF Call
  <2>2. /\ pc' \in [Managers -> Steps] /\ pc'[l] = "called"
        /\ \A m \in Managers \ {l} : pc'[m] = pc[m]
    BY <2>1, GoesOn DEF Steps
  <2>3. /\ DOMAIN triggerq' = Managers
        /\ DOMAIN triggeredlevels' = Managers \cup {Ticker}
        /\ \A y \in Managers \cup {Ticker} : triggeredlevels[y] \subseteq triggeredlevels'[y]
    BY <2>1 DEF WakeInv, ThreadsThere
  <2>4. ASSUME pc'[0] = "waiting", triggerq'[0] # <<>>
        PROVE  \E y \in Wakers : 0 \in triggeredlevels'[y]
    <3>1. l = 1 /\ pc[0] = "waiting"
      BY <2>2, <2>4 DEF Managers
    <3>2. CASE AtomsFor(0) = {}
      <4>1. triggerq'[0] = triggerq[0] \o <<>>
        BY <2>1, <3>2, EmptySetToSeq DEF Managers
      <4>2. triggerq[0] # <<>>
        BY <2>4, <4>1
      <4>3. PICK y \in Wakers : 0 \in triggeredlevels[y]
        BY <3>1, <4>2 DEF WakeInv, ToBeWoken
      <4> QED BY <2>3, <4>3 DEF Wakers, Managers
    <3>3. CASE AtomsFor(0) # {}
      <4>1. PICK b \in Pulls(x) : ManagerOf(b) = 0
        BY <3>3
      <4>2. 0 \in triggeredlevels'[1]
        BY <2>1, <3>1, <4>1 DEF WakeInv, ThreadsThere, Managers
      <4> QED BY <4>2 DEF Wakers
    <3> QED BY <3>2, <3>3
  <2> QED BY <2>2, <2>3, <2>4 DEF WakeInv, ThreadsThere, ToBeWoken
<1>2. CASE ~ CallAllowed(x)
  <2>1. pc' = [pc EXCEPT ![l] = "wake"] /\ UNCHANGED <<triggerq, triggeredlevels>>
    BY <1>2 DEF Call
  <2>2. /\ pc' \in [Managers -> Steps] /\ pc'[l] = "wake"
        /\ \A m \in Managers \ {l} : pc'[m] = pc[m]
    BY <2>1, GoesOn DEF Steps
  <2> QED BY <2>1, <2>2, WakeFrame DEF Managers
<1> QED BY <1>1, <1>2

LEMMA WakeKeeps ==
  ASSUME WakeInv, NEW l \in Managers, Wake(l)
  PROVE  WakeInv'
<1>1. /\ pc' = [Signalled(WakeOthers(l)) EXCEPT ![l] = "propend"] /\ triggerq' = triggerq
      /\ triggeredlevels' = [triggeredlevels EXCEPT ![l] = {}]
  BY DEF Wake
<1>2. /\ pc' \in [Managers -> Steps] /\ pc'[l] = "propend"
      /\ \A m \in Managers \ {l} : pc'[m] = Signalled(WakeOthers(l))[m]
  BY <1>1, SignalledIs DEF Steps
<1>3. CASE l = 0
  BY <1>1, <1>2, <1>3 DEF WakeInv, ThreadsThere, ToBeWoken
<1>4. CASE l = 1
  <2>1. triggerq[0] # <<>> /\ 0 \in triggeredlevels[1] => pc'[0] # "waiting"
    BY <1>2, <1>4, SignalledIs DEF WakeOthers, Managers
  <2>2. pc'[0] = "waiting" => pc[0] = "waiting"
    BY <1>2, <1>4, SignalledIs DEF Managers
  <2>3. /\ triggeredlevels'[Ticker] = triggeredlevels[Ticker]
        /\ DOMAIN triggeredlevels' = Managers \cup {Ticker}
    BY <1>1, <1>4 DEF WakeInv, ThreadsThere, Ticker
  <2> QED BY <1>1, <1>2, <2>1, <2>2, <2>3 DEF WakeInv, ThreadsThere, ToBeWoken, Wakers
<1> QED BY <1>3, <1>4 DEF Managers

\* the other steps of a manager: its thread goes on, and waits only if it looked
LEMMA OthersKeep ==
  ASSUME WakeInv, NEW l \in Managers,
         \/ Despatch(l) \/ SetLast(l) \/ Called(l) \/ SetRunning(l)
         \/ l = 1 /\ (Test \/ Throw)
         \/ l = 0 /\ (Look \/ Test0 \/ Serve \/ Graphics)
  PROVE  WakeInv'
<1>1. UNCHANGED <<triggerq, triggeredlevels>>
  BY DEF Despatch, SetLast, Called, SetRunning, Test, Throw, Look, Test0, Serve, Graphics
<1>2. PICK s \in Steps : /\ pc' = [pc EXCEPT ![l] = s]
                         /\ l = 0 /\ s = "waiting" => triggerq[0] = <<>>
  <2>1. CASE Despatch(l) \/ SetLast(l) \/ Called(l) \/ SetRunning(l)
    BY <2>1 DEF Despatch, SetLast, Called, SetRunning, Steps
  <2>2. CASE l = 1 /\ (Test \/ Throw)
    <3>1. CASE Throw
      BY <2>2, <3>1 DEF Throw, Steps
    <3>2. CASE Test /\ Leaves
      BY <2>2, <3>2 DEF Test, Steps
    <3>3. CASE Test /\ ~ Leaves /\ list[1] = <<>>
      BY <2>2, <3>3 DEF Test, Steps
    <3>4. CASE Test /\ ~ Leaves /\ list[1] # <<>>
      BY <2>2, <3>4 DEF Test, Pop, Steps
    <3> QED BY <2>2, <3>1, <3>2, <3>3, <3>4
  <2>3. CASE l = 0 /\ (Look \/ Test0 \/ Serve \/ Graphics)
    BY <2>3 DEF Look, Test0, Test0Again, Serve, Pop, Graphics, Steps
  <2> QED BY <2>1, <2>2, <2>3
<1>3. pc' \in [Managers -> Steps] /\ pc'[l] = s /\ \A m \in Managers \ {l} : pc'[m] = pc[m]
  BY <1>2, GoesOn
<1> QED BY <1>1, <1>2, <1>3, WakeFrame DEF Managers

LEMMA WakeNext ==
  ASSUME WakeInv, [Next]_<<vars, setting>>
  PROVE  WakeInv'
<1>1. CASE Tick \/ TickOnly \/ TickerWakes \/ StopDoActivities
  BY <1>1, TickWakes
<1>2. CASE Look \/ Test0 \/ Serve \/ Graphics \/ Test \/ Throw
  BY <1>2, OthersKeep DEF Managers
<1>3. CASE \E l \in Managers : Threads(l)
  BY <1>3, OthersKeep, PropagateKeeps, CallKeeps, WakeKeeps DEF Threads
<1>4. CASE Switch \/ Assign \/ Ended \/ UNCHANGED <<vars, setting>>
  BY <1>4 DEF Switch, Assign, Ended, vars, WakeInv, ThreadsThere, ToBeWoken
<1> QED BY <1>1, <1>2, <1>3, <1>4 DEF Next

(* doActivities0() never waits while there is an atom in the queue of      *)
(* manager 0, unless a thread that put one there is still to signal it in  *)
(* wakeOthers(): the test under the lock, the marks in triggeredlevels and *)
(* the signals leave no room for a lost wake-up.                           *)
THEOREM NoLostWakeUp == Spec => []Manager0Woken
<1>1. WakeInv => Manager0Woken
  BY DEF WakeInv, ThreadsThere, ToBeWoken, Manager0Woken, WokenFor, Wakers, Managers
<1> QED BY <1>1, WakeInit, WakeNext, PTL DEF Spec

-----------------------------------------------------------------------------
(* Largest and smallest, and the times of the ticker.                      *)

LEMMA MaxIs ==
  ASSUME NEW S, NEW m \in S, S \subseteq Int, \A x \in S : x <= m
  PROVE  Max(S) = m
<1>1. \A x \in S : (\A y \in S : x >= y) => x = m
  OBVIOUS
<1>2. m \in S /\ \A y \in S : m >= y
  OBVIOUS
<1> QED BY <1>1, <1>2, Zenon DEF Max

LEMMA MinIs ==
  ASSUME NEW S, NEW m \in S, S \subseteq Int, \A x \in S : m <= x
  PROVE  Min(S) = m
<1>1. \A x \in S : (\A y \in S : x <= y) => x = m
  OBVIOUS
<1>2. m \in S /\ \A y \in S : m <= y
  OBVIOUS
<1> QED BY <1>1, <1>2, Zenon DEF Min

LEMMA MaxOfTwo ==
  ASSUME NEW a \in Int, NEW b \in Int
  PROVE  Max({a, b}) = IF a >= b THEN a ELSE b
<1>1. CASE a >= b
  <2>1. Max({a, b}) = a
    BY <1>1, MaxIs
  <2> QED BY <1>1, <2>1
<1>2. CASE ~ (a >= b)
  <2>1. Max({a, b}) = b
    BY <1>2, MaxIs
  <2> QED BY <1>2, <2>1
<1> QED BY <1>1, <1>2

LEMMA MinOfTwo ==
  ASSUME NEW a \in Int, NEW b \in Int
  PROVE  Min({a, b}) = IF a <= b THEN a ELSE b
<1>1. CASE a <= b
  <2>1. Min({a, b}) = a
    BY <1>1, MinIs
  <2> QED BY <1>1, <2>1
<1>2. CASE ~ (a <= b)
  <2>1. Min({a, b}) = b
    BY <1>2, MinIs
  <2> QED BY <1>2, <2>1
<1> QED BY <1>1, <1>2

LEMMA LessThan ==
  \E R : IsWellFoundedOn(R, Nat) /\ \A x, y \in Nat : x < y => <<x, y>> \in R
<1>1. \A x, y \in Nat : x < y => <<x, y>> \in OpToRel(<, Nat)
  BY DEF OpToRel
<1> QED BY <1>1, NatLessThanWellFounded, Zenon

\* a bounded set of numbers has a largest element
LEMMA LargestThere ==
  ASSUME NEW n \in Nat, NEW S, S \subseteq 0 .. n, S # {}
  PROVE  Max(S) \in S /\ \A x \in S : x <= Max(S)
<1> DEFINE B == {c \in Nat : \E x \in S : c = n - x}
<1>1. B \subseteq Nat /\ B # {}
  <2>1. PICK x \in S : TRUE
    OBVIOUS
  <2>2. n - x \in B
    BY <2>1
  <2> QED BY <2>2
<1>2. PICK R : IsWellFoundedOn(R, Nat) /\ \A x, y \in Nat : x < y => <<x, y>> \in R
  BY LessThan, Zenon
<1>3. PICK b \in B : \A c \in B : ~ (<<c, b>> \in R)
  <2>1. IsWellFoundedOn(R, Nat)
    BY <1>2
  <2> HIDE DEF B
  <2> QED BY <1>1, <2>1, WFMin
<1>4. PICK m \in S : b = n - m
  OBVIOUS
<1>5. \A x \in S : x <= m
  <2> TAKE x \in S
  <2>1. n - x \in B
    OBVIOUS
  <2>2. ~ (n - x < n - m)
    <3> HIDE DEF B
    <3> QED BY <1>1, <1>2, <1>3, <1>4, <2>1
  <2> QED BY <2>2
<1>6. Max(S) = m
  <2>1. S \subseteq Int
    OBVIOUS
  <2> QED BY <1>5, <2>1, MaxIs
<1> QED BY <1>5, <1>6

\* the time of the ticker before it repeats its last span
Repeated == MaxTick - Period

\* what is a number of whole periods
Whole(t) == \E k \in Nat : t = k * Period

LEMMA TimesWhole == Whole(MaxTick) /\ Whole(0) /\ Period \in Nat /\ 0 < Period /\ MaxTick \in Nat
<1>1. MaxTick \in Nat /\ Period \in Nat /\ 0 < Period /\ MaxTick % Period = 0
  BY ActivityAssumption
<1>2. MaxTick = (MaxTick \div Period) * Period /\ MaxTick \div Period \in Nat
  BY <1>1, SMT
<1>3. 0 = 0 * Period
  BY <1>1
<1>4. Whole(MaxTick)
  BY <1>2 DEF Whole
<1>5. Whole(0)
  BY <1>3 DEF Whole
<1> QED BY <1>1, <1>4, <1>5

\* two times of the ticker are the same, or a period or more apart
LEMMA WholeApart ==
  ASSUME NEW a \in Nat, NEW b \in Nat, Whole(a), Whole(b), a < b
  PROVE  a + Period <= b /\ Whole(a + Period)
<1>1. PICK i \in Nat : a = i * Period
  BY DEF Whole
<1>2. PICK j \in Nat : b = j * Period
  BY DEF Whole
<1>3. Period \in Nat /\ 0 < Period
  BY TimesWhole
<1>4. i + 1 <= j
  <2>1. SUFFICES ASSUME j <= i PROVE FALSE
    OBVIOUS
  <2>2. PICK d \in Nat : i = j + d
    BY <2>1
  <2>3. a = b + d * Period
    BY <1>1, <1>2, <1>3, <2>2
  <2>4. d * Period \in Nat
    BY <1>3
  <2> QED BY <2>3, <2>4
<1>5. (i + 1) * Period = a + Period
  BY <1>1, <1>3
<1>6. PICK d \in Nat : j = (i + 1) + d
  BY <1>4
<1>7. b = (a + Period) + d * Period
  BY <1>2, <1>3, <1>5, <1>6
<1>8. d * Period \in Nat
  BY <1>3
<1>9. a + Period <= b
  BY <1>3, <1>7, <1>8
<1> QED BY <1>5, <1>9 DEF Whole

LEMMA RepeatedWhole ==
  /\ Repeated \in Nat /\ Whole(Repeated) /\ Repeated < MaxTick
  /\ \A t \in Nat : Whole(t) /\ t <= MaxTick => t <= Repeated \/ t = MaxTick
<1>1. MaxTick \in Nat /\ Period \in Nat /\ 0 < Period /\ 0 < MaxTick
  BY ActivityAssumption
<1>2. Period <= MaxTick
  BY <1>1, TimesWhole, WholeApart
<1>3. PICK k \in Nat : MaxTick = k * Period
  BY TimesWhole DEF Whole
<1>4. k # 0
  BY <1>1, <1>3
<1>5. k - 1 \in Nat /\ (k - 1) * Period = MaxTick - Period
  BY <1>1, <1>3, <1>4
<1>6. ASSUME NEW t \in Nat, Whole(t), t < MaxTick
      PROVE  t <= MaxTick - Period
  BY <1>1, <1>6, TimesWhole, WholeApart
<1>7. Whole(MaxTick - Period)
  BY <1>5 DEF Whole
<1> QED BY <1>1, <1>2, <1>6, <1>7 DEF Repeated

-----------------------------------------------------------------------------
(* Types.                                                                  *)

ItemsOf(l) == {x \in Items : ManagerOf(x.a) = l}
Times == 0 .. (MAX_TIMETICK - 1)

\* the writes that are left when switchOn() and switchOff() are halfway
OnHalf  == << <<"switch_off", MAX_TIMETICK, "none">>, <<"run_state", 0, "Ready">> >>
OnEnd   == << <<"run_state", 0, "Ready">> >>
OffEnd  == << <<"run_state", 0, "Braking">> >>
Half    == {OnHalf, OnEnd, OffEnd}
Stages  == {<<>>} \cup Half \cup {SwitchOn(t) : t \in Times} \cup {SwitchOff(t) : t \in Times}

TimeInv ==
  /\ setting \in Settings /\ clock \in 0 .. MaxTick /\ Whole(clock)
  /\ due \in BOOLEAN /\ spent \in 0 .. 2

SwitchInv ==
  /\ run_state \in [Activities -> States]
  /\ switch_on \in [Activities -> Ticks] /\ switch_off \in [Activities -> Ticks]
  /\ calls \in [todo : Seq(Calls \X Times), writes : Stages]

QueuesInv ==
  /\ DOMAIN triggerq = Managers /\ DOMAIN list = Managers
  /\ \A l \in Managers : triggerq[l] \in Seq(ItemsOf(l)) /\ list[l] \in Seq(ItemsOf(l))
  /\ to_do \in [Managers -> Items] /\ to_do[0].a = "gui"

OtherInv ==
  /\ triggeredlevels \in [Managers \cup {Ticker} -> SUBSET Managers]
  /\ running \in BOOLEAN /\ events \in 0 .. setting.events

TypeInv == TimeInv /\ SwitchInv /\ QueuesInv /\ OtherInv /\ ThreadsThere

LEMMA Sizes ==
  /\ MAX_TIMETICK \in Nat /\ MaxTick \in Nat /\ Period \in Nat /\ time_weight \in Nat
  /\ 0 < Period /\ 0 < MaxTick /\ MaxTick < MAX_TIMETICK
BY ActivityAssumption

LEMMA SettingIs ==
  ASSUME setting \in Settings
  PROVE  /\ setting.order \in [Activities -> Nat] /\ setting.events \in Nat
         /\ setting.calls \in Seq(Calls \X Times)
BY ActivityAssumption DEF Times

LEMMA TypeInit == Init => TypeInv
<1> SUFFICES ASSUME Init PROVE TypeInv
  OBVIOUS
<1>1. TimeInv
  <2>1. setting \in Settings /\ clock = 0 /\ due = FALSE /\ spent = 0
    BY DEF Init
  <2>2. clock \in 0 .. MaxTick /\ spent \in 0 .. 2
    BY <2>1, TimesWhole
  <2>3. Whole(clock)
    BY <2>1, TimesWhole
  <2> QED BY <2>1, <2>2, <2>3 DEF TimeInv
<1>2. SwitchInv
  <2>1. setting \in Settings /\ calls = [todo |-> setting.calls, writes |-> <<>>]
    BY DEF Init
  <2>2. calls \in [todo : Seq(Calls \X Times), writes : Stages]
    BY <2>1, SettingIs DEF Stages
  <2> QED BY <2>2, Sizes DEF Init, SwitchInv, States, Ticks
<1>3. QueuesInv
  BY Sizes DEF Init, QueuesInv, Item, Items, Activities, Ticks, Managers
<1>4. OtherInv
  BY SettingIs DEF Init, OtherInv
<1>5. ThreadsThere
  BY WakeInit DEF WakeInv
<1> QED BY <1>1, <1>2, <1>3, <1>4, <1>5 DEF TypeInv

LEMMA TimeNext ==
  ASSUME TypeInv, [Next]_<<vars, setting>>
  PROVE  TimeInv'
<1>0. TimeInv /\ setting' = setting
  BY DEF TypeInv, Next, vars
<1>1. CASE Tick
  <2>1. PICK s : /\ s = IF clock < MaxTick THEN clock ELSE MaxTick - Period
                 /\ clock' = s + Period /\ due' = TRUE /\ spent' = Min({spent + 1, 2})
    BY <1>1 DEF Tick
  <2>2. spent' \in 0 .. 2
    BY <1>0, <2>1, MinOfTwo DEF TimeInv
  <2>3. clock' \in 0 .. MaxTick /\ Whole(clock')
    <3>1. CASE clock < MaxTick
      BY <1>0, <2>1, <3>1, WholeApart, TimesWhole DEF TimeInv
    <3>2. CASE ~ (clock < MaxTick)
      <4>1. clock' = MaxTick
        BY <2>1, <3>2, Sizes
      <4> QED BY <4>1, TimesWhole
    <3> QED BY <3>1, <3>2
  <2> QED BY <1>0, <2>1, <2>2, <2>3 DEF TimeInv
<1>2. CASE TickOnly
  <2>1. spent' \in 0 .. 2
    BY <1>0, <1>2, MinOfTwo DEF TimeInv, TickOnly
  <2> QED BY <1>0, <1>2, <2>1 DEF TimeInv, TickOnly
<1>3. CASE \E l \in Managers : Propagate(l)
  BY <1>0, <1>3 DEF TimeInv, Propagate
<1>4. CASE Look
  BY <1>0, <1>4 DEF TimeInv, Look
<1>5. CASE UNCHANGED timeVars
  BY <1>0, <1>5 DEF TimeInv, timeVars
<1>6. CASE \/ TickerWakes \/ Test0 \/ Serve \/ Graphics \/ Test \/ Throw \/ Switch \/ Assign
           \/ StopDoActivities \/ Ended \/ UNCHANGED vars
  BY <1>5, <1>6 DEF TickerWakes, Test0, Serve, Graphics, Test, Throw, Switch, Assign,
                    StopDoActivities, Ended, vars
<1>7. CASE \E l \in Managers : \/ Despatch(l) \/ SetLast(l) \/ Call(l) \/ Called(l)
                               \/ SetRunning(l) \/ Wake(l)
  BY <1>5, <1>7 DEF Despatch, SetLast, Call, Called, SetRunning, Wake
<1> QED BY <1>1, <1>2, <1>3, <1>4, <1>6, <1>7 DEF Next, Threads

LEMMA OneItem == \A a : <<a>> # <<>> /\ Head(<<a>>) = a /\ Tail(<<a>>) = <<>>
<1> TAKE a
<1>1. Len(<<a>>) = 1 /\ <<a>>[1] = a
  OBVIOUS
<1> QED BY <1>1

LEMMA TwoItems == \A a, b : <<a, b>> # <<>> /\ Head(<<a, b>>) = a /\ Tail(<<a, b>>) = <<b>>
OBVIOUS

LEMMA ThreeItems ==
  \A a, b, c : <<a, b, c>> # <<>> /\ Head(<<a, b, c>>) = a /\ Tail(<<a, b, c>>) = <<b, c>>
OBVIOUS

\* the writes in the order of the code
LEMMA WritesIs ==
  ASSUME NEW t \in Times
  PROVE  /\ SwitchOn(t) # <<>> /\ Head(SwitchOn(t)) = <<"switch_on", t, "none">>
         /\ Tail(SwitchOn(t)) = OnHalf
         /\ OnHalf # <<>> /\ Head(OnHalf) = <<"switch_off", MAX_TIMETICK, "none">>
         /\ Tail(OnHalf) = OnEnd
         /\ OnEnd # <<>> /\ Head(OnEnd) = <<"run_state", 0, "Ready">> /\ Tail(OnEnd) = <<>>
         /\ SwitchOff(t) # <<>> /\ Head(SwitchOff(t)) = <<"switch_off", t, "none">>
         /\ Tail(SwitchOff(t)) = OffEnd
         /\ OffEnd # <<>> /\ Head(OffEnd) = <<"run_state", 0, "Braking">> /\ Tail(OffEnd) = <<>>
<1>1. /\ SwitchOn(t) # <<>> /\ Head(SwitchOn(t)) = <<"switch_on", t, "none">>
      /\ Tail(SwitchOn(t)) = OnHalf
  BY ThreeItems, Zenon DEF SwitchOn, OnHalf
<1>2. /\ OnHalf # <<>> /\ Head(OnHalf) = <<"switch_off", MAX_TIMETICK, "none">>
      /\ Tail(OnHalf) = OnEnd
  BY TwoItems, Zenon DEF OnHalf, OnEnd
<1>3. OnEnd # <<>> /\ Head(OnEnd) = <<"run_state", 0, "Ready">> /\ Tail(OnEnd) = <<>>
  BY OneItem, Zenon DEF OnEnd
<1>4. /\ SwitchOff(t) # <<>> /\ Head(SwitchOff(t)) = <<"switch_off", t, "none">>
      /\ Tail(SwitchOff(t)) = OffEnd
  BY TwoItems, Zenon DEF SwitchOff, OffEnd
<1>5. OffEnd # <<>> /\ Head(OffEnd) = <<"run_state", 0, "Braking">> /\ Tail(OffEnd) = <<>>
  BY OneItem, Zenon DEF OffEnd
<1> QED BY <1>1, <1>2, <1>3, <1>4, <1>5

\* the open period is replaced, or ended
Opened(P, on) == {p \in P : p[2] # MAX_TIMETICK} \cup {<< on, MAX_TIMETICK >>}
Closed(P, off) == {p \in P : p[2] # MAX_TIMETICK}
                  \cup {<< p[1], off >> : p \in {q \in P : q[2] = MAX_TIMETICK}}

\* what a write of the switching thread changes
Writes(w, on, off, st, P) ==
  /\ calls' = [calls EXCEPT !.writes = w]
  /\ switch_on' = [switch_on EXCEPT !["model"] = on]
  /\ switch_off' = [switch_off EXCEPT !["model"] = off]
  /\ run_state' = [run_state EXCEPT !["model"] = st]
  /\ periods' = P

LEMMA AssignIs ==
  ASSUME SwitchInv, Assign
  PROVE  LET w == calls.writes
             on == switch_on["model"]
             off == switch_off["model"]
             st == run_state["model"]
         IN  \/ \E t \in Times : w = SwitchOn(t) /\ Writes(OnHalf, t, off, st, periods)
             \/ w = OnHalf /\ Writes(OnEnd, on, MAX_TIMETICK, st, periods)
             \/ w = OnEnd /\ Writes(<<>>, on, off, "Ready", Opened(periods, on))
             \/ \E t \in Times : w = SwitchOff(t) /\ Writes(OffEnd, on, t, st, periods)
             \/ w = OffEnd /\ Writes(<<>>, on, off, "Braking", Closed(periods, off))
<1> DEFINE ws == calls.writes
           w == Head(ws)
           Written(f, n, k) == IF w[1] = n THEN [f EXCEPT !["model"] = w[k]] ELSE f
<1>1. /\ switch_on' = Written(switch_on, "switch_on", 2)
      /\ switch_off' = Written(switch_off, "switch_off", 2)
      /\ run_state' = Written(run_state, "run_state", 3)
      /\ calls' = [calls EXCEPT !.writes = Tail(ws)]
      /\ periods' =
           LET open == {p \in periods : p[2] = MAX_TIMETICK}
           IN  CASE w[3] = "Ready" -> (periods \ open)
                                      \cup {<< switch_on["model"], MAX_TIMETICK >>}
                 [] w[3] = "Braking" -> (periods \ open)
                                        \cup {<< p[1], switch_off["model"] >> : p \in open}
                 [] OTHER -> periods
      /\ ws # <<>>
  BY DEF Assign
<1>2. /\ switch_on = [switch_on EXCEPT !["model"] = switch_on["model"]]
      /\ switch_off = [switch_off EXCEPT !["model"] = switch_off["model"]]
      /\ run_state = [run_state EXCEPT !["model"] = run_state["model"]]
  BY DEF SwitchInv
<1>3. ws \in Stages
  BY DEF SwitchInv
<1>4. CASE \E t \in Times : ws = SwitchOn(t)
  <2>1. PICK t \in Times : ws = SwitchOn(t)
    BY <1>4
  <2>2. w = <<"switch_on", t, "none">> /\ Tail(ws) = OnHalf
    BY <2>1, WritesIs
  <2>3. w[1] = "switch_on" /\ w[2] = t /\ w[3] = "none"
    BY <2>2
  <2>4. Writes(OnHalf, t, switch_off["model"], run_state["model"], periods)
    BY <1>1, <1>2, <2>2, <2>3 DEF Writes
  <2> QED BY <2>1, <2>4
<1>5. CASE \E t \in Times : ws = SwitchOff(t)
  <2>1. PICK t \in Times : ws = SwitchOff(t)
    BY <1>5
  <2>2. w = <<"switch_off", t, "none">> /\ Tail(ws) = OffEnd
    BY <2>1, WritesIs
  <2>3. w[1] = "switch_off" /\ w[2] = t /\ w[3] = "none"
    BY <2>2
  <2>4. Writes(OffEnd, switch_on["model"], t, run_state["model"], periods)
    BY <1>1, <1>2, <2>2, <2>3 DEF Writes
  <2> QED BY <2>1, <2>4
<1>6. CASE ws \in Half
  <2>0. 0 \in Times
    BY Sizes DEF Times
  <2>1. CASE ws = OnHalf
    <3>1. w = <<"switch_off", MAX_TIMETICK, "none">> /\ Tail(ws) = OnEnd
      BY <2>0, <2>1, WritesIs
    <3>2. w[1] = "switch_off" /\ w[2] = MAX_TIMETICK /\ w[3] = "none"
      BY <3>1
    <3>3. Writes(OnEnd, switch_on["model"], MAX_TIMETICK, run_state["model"], periods)
      BY <1>1, <1>2, <3>1, <3>2 DEF Writes
    <3> QED BY <2>1, <3>3
  <2>2. CASE ws = OnEnd
    <3>1. w = <<"run_state", 0, "Ready">> /\ Tail(ws) = <<>>
      BY <2>0, <2>2, WritesIs
    <3>2. w[1] = "run_state" /\ w[3] = "Ready"
      BY <3>1
    <3>3. periods' = Opened(periods, switch_on["model"])
      BY <1>1, <3>2 DEF Opened
    <3>4. Writes(<<>>, switch_on["model"], switch_off["model"], "Ready",
                 Opened(periods, switch_on["model"]))
      BY <1>1, <1>2, <3>1, <3>2, <3>3 DEF Writes
    <3> QED BY <2>2, <3>4
  <2>3. CASE ws = OffEnd
    <3>1. w = <<"run_state", 0, "Braking">> /\ Tail(ws) = <<>>
      BY <2>0, <2>3, WritesIs
    <3>2. w[1] = "run_state" /\ w[3] = "Braking"
      BY <3>1
    <3>3. periods' = Closed(periods, switch_off["model"])
      BY <1>1, <3>2 DEF Closed
    <3>4. Writes(<<>>, switch_on["model"], switch_off["model"], "Braking",
                 Closed(periods, switch_off["model"]))
      BY <1>1, <1>2, <3>1, <3>2, <3>3 DEF Writes
    <3> QED BY <2>3, <3>4
  <2> QED BY <1>6, <2>1, <2>2, <2>3 DEF Half
<1> QED BY <1>1, <1>3, <1>4, <1>5, <1>6 DEF Stages

LEMMA SwitchTyped ==
  ASSUME TypeInv, [Next]_<<vars, setting>>
  PROVE  SwitchInv'
<1>0. SwitchInv /\ "model" \in Activities /\ to_do \in [Managers -> Items]
  BY DEF TypeInv, QueuesInv, Activities
<1>1. CASE Assign
  <2>1. PICK w, on, off, st, P : /\ Writes(w, on, off, st, P) /\ w \in Stages
                                 /\ on \in Ticks /\ off \in Ticks /\ st \in States
    <3>1. /\ switch_on["model"] \in Ticks /\ switch_off["model"] \in Ticks
          /\ run_state["model"] \in States /\ MAX_TIMETICK \in Ticks /\ Times \subseteq Ticks
          /\ {"Ready", "Braking"} \subseteq States
      BY <1>0, Sizes DEF SwitchInv, Ticks, Times, States
    <3>2. {OnHalf, OnEnd, OffEnd, <<>>} \subseteq Stages
      BY DEF Stages, Half
    <3> QED BY <1>0, <1>1, <3>1, <3>2, AssignIs
  <2> QED BY <1>0, <2>1 DEF SwitchInv, Writes
<1>2. CASE Switch
  <2>1. PICK c : /\ calls.todo # <<>> /\ c = Head(calls.todo)
                 /\ calls' = [todo   |-> Tail(calls.todo),
                              writes |-> IF c[1] = "switchOn" THEN SwitchOn(c[2])
                                         ELSE SwitchOff(c[2])]
                 /\ UNCHANGED actVars
    BY <1>2 DEF Switch
  <2>2. calls.todo \in Seq(Calls \X Times)
    BY <1>0 DEF SwitchInv
  <2>3. c \in Calls \X Times /\ Tail(calls.todo) \in Seq(Calls \X Times)
    BY <2>1, <2>2
  <2>4. SwitchOn(c[2]) \in Stages /\ SwitchOff(c[2]) \in Stages
    BY <2>3 DEF Stages
  <2> QED BY <1>0, <2>1, <2>3, <2>4 DEF SwitchInv, actVars
<1>3. CASE Throw
  <2>1. 0 \in Ticks /\ "Braking" \in States
    BY Sizes DEF Ticks, States
  <2> QED BY <1>0, <1>3, <2>1 DEF Throw, SwitchInv
<1>4. CASE \E l \in Managers : SetLast(l) \/ SetRunning(l)
  <2>1. PICK a \in Activities, st \in States :
          run_state' = [run_state EXCEPT ![a] = st] /\ UNCHANGED <<switch_on, switch_off, calls>>
    BY <1>0, <1>4 DEF SetLast, SetRunning, States, Items
  <2> QED BY <1>0, <2>1 DEF SwitchInv
<1>5. CASE UNCHANGED <<actVars, calls>>
  BY <1>0, <1>5 DEF SwitchInv, actVars
<1>6. CASE \/ Tick \/ TickOnly \/ TickerWakes \/ Look \/ Test0 \/ Serve \/ Graphics \/ Test
           \/ StopDoActivities \/ Ended \/ UNCHANGED vars
  BY <1>5, <1>6 DEF Tick, TickOnly, TickerWakes, Look, Test0, Serve, Graphics, Test,
                    StopDoActivities, Ended, vars
<1>7. CASE \E l \in Managers : \/ Propagate(l) \/ Despatch(l) \/ Call(l) \/ Called(l) \/ Wake(l)
  BY <1>5, <1>7 DEF Propagate, Despatch, Call, Called, Wake
<1> QED BY <1>1, <1>2, <1>3, <1>4, <1>6, <1>7 DEF Next, Threads

\* a sequence with an element put in behind the first k
Insert(s, k, x) == SubSeq(s, 1, k) \o << x >> \o SubSeq(s, k + 1, Len(s))

\* m is s with x behind the first k
HasInserted(m, s, k, x) ==
  /\ Len(m) = Len(s) + 1
  /\ \A i \in 1 .. k : m[i] = s[i]
  /\ m[k + 1] = x
  /\ \A i \in (k + 2) .. (Len(s) + 1) : m[i] = s[i - 1]

LEMMA InsertIs ==
  ASSUME NEW S, NEW s \in Seq(S), NEW k \in 0 .. Len(s), NEW x \in S
  PROVE  Insert(s, k, x) \in Seq(S) /\ HasInserted(Insert(s, k, x), s, k, x)
<1>1. /\ SubSeq(s, 1, k) \in Seq(S) /\ Len(SubSeq(s, 1, k)) = k
      /\ \A i \in 1 .. k : SubSeq(s, 1, k)[i] = s[i]
  OBVIOUS
<1>2. /\ SubSeq(s, k + 1, Len(s)) \in Seq(S) /\ Len(SubSeq(s, k + 1, Len(s))) = Len(s) - k
      /\ \A i \in 1 .. (Len(s) - k) : SubSeq(s, k + 1, Len(s))[i] = s[k + i]
  OBVIOUS
<1>3. PICK a \in Seq(S) : a = SubSeq(s, 1, k)
  BY <1>1
<1>4. PICK b \in Seq(S) : b = SubSeq(s, k + 1, Len(s))
  BY <1>2
<1>5. PICK c \in Seq(S) : c = a \o << x >>
  <2>1. << x >> \in Seq(S)
    OBVIOUS
  <2>2. a \o << x >> \in Seq(S)
    BY <2>1
  <2> QED BY <2>2
<1>6. /\ Len(c) = k + 1 /\ c[k + 1] = x
      /\ \A i \in 1 .. k : c[i] = s[i]
  BY <1>1, <1>3, <1>5
<1>7. Insert(s, k, x) = c \o b
  BY <1>3, <1>4, <1>5 DEF Insert
<1>8. Len(b) = Len(s) - k /\ \A i \in 1 .. (Len(s) - k) : b[i] = s[k + i]
  BY <1>2, <1>4
<1>9. c \o b \in Seq(S) /\ Len(c \o b) = Len(s) + 1
  <2>1. c \o b \in Seq(S) /\ Len(c \o b) = Len(c) + Len(b)
    OBVIOUS
  <2>2. Len(s) \in Nat
    OBVIOUS
  <2> QED BY <1>6, <1>8, <2>1, <2>2
<1>10. \A i \in 1 .. (k + 1) : (c \o b)[i] = c[i]
  BY <1>6
<1>11. \A i \in (k + 2) .. (Len(s) + 1) : (c \o b)[i] = s[i - 1]
  <2> TAKE i \in (k + 2) .. (Len(s) + 1)
  <2>1. i - (k + 1) \in 1 .. (Len(s) - k)
    OBVIOUS
  <2>2. (c \o b)[i] = b[i - (k + 1)]
    BY <1>6, <1>8
  <2> QED BY <1>8, <2>1, <2>2
<1> QED BY <1>6, <1>7, <1>9, <1>10, <1>11 DEF HasInserted

\* schedule() puts an item in somewhere
LEMMA ScheduledIs ==
  ASSUME QueuesInv, setting \in Settings, NEW l \in Managers, NEW x
  PROVE  \E k \in 0 .. Len(list[l]) :
           /\ Scheduled(l, x) = Insert(list[l], k, x)
           /\ l = 1 => \A j \in DOMAIN list[l] : ~Less(list[l][j], x) => j <= k
<1>1. list[l] \in Seq(ItemsOf(l)) /\ Len(list[l]) \in Nat /\ DOMAIN list[l] = 1 .. Len(list[l])
  BY DEF QueuesInv
<1>2. CASE l = 0
  <2>1. Scheduled(l, x) = Insert(list[l], Len(list[l]), x)
    BY <1>2 DEF Scheduled, Insert
  <2> QED BY <1>1, <1>2, <2>1
<1>3. CASE l = 1
  <2> DEFINE S == {0} \cup {j \in DOMAIN list[l] : ~Less(list[l][j], x)}
  <2>1. S \subseteq 0 .. Len(list[l]) /\ S # {}
    BY <1>1
  <2>2. Max(S) \in 0 .. Len(list[l]) /\ \A j \in S : j <= Max(S)
    BY <1>1, <2>1, LargestThere
  <2>3. Scheduled(l, x) = Insert(list[l], Max(S), x)
    BY <1>3 DEF Scheduled, Insert
  <2> QED BY <2>2, <2>3
<1> QED BY <1>2, <1>3 DEF Managers

LEMMA OneSetToSeq ==
  ASSUME NEW v
  PROVE  SetToSeq({v}) = << v >>
<1>1. Cardinality({v}) = 1
  BY FS_Singleton
<1>2. \A f \in [1 .. 1 -> {v}] : f = << v >>
  OBVIOUS
<1>3. << v >> \in [1 .. 1 -> {v}] /\ IsInjective(<< v >>)
  BY DEF IsInjective
<1>4. SetToSeq({v}) \in [1 .. 1 -> {v}]
  BY <1>1, <1>3 DEF SetToSeq
<1> QED BY <1>2, <1>4

\* a callback adds at most one atom to a queue, never one for "model"
LEMMA CallAdds ==
  ASSUME QueuesInv, NEW l \in Managers, Call(l), CallAllowed(to_do[l])
  PROVE  /\ DOMAIN triggerq' = Managers
         /\ \A m \in Managers :
              \/ triggerq'[m] = triggerq[m]
              \/ \E y \in ItemsOf(m) : y.a # "model" /\ triggerq'[m] = Append(triggerq[m], y)
<1> DEFINE x == to_do[l]
           AtomsFor(m) == {Item(a, x.s, x.e) : a \in {b \in Pulls(x) : ManagerOf(b) = m}}
<1>1. triggerq' = [m \in Managers |-> triggerq[m] \o SetToSeq(AtomsFor(m))]
  BY DEF Call
<1>2. x \in Items
  BY DEF QueuesInv
<1>3. PICK A : A = Pulls(x) /\ A \in {{}, {"gui"}, {"order"}}
  BY <1>2 DEF Pulls, Items, Activities
<1>4. ASSUME NEW m \in Managers
      PROVE  \/ triggerq'[m] = triggerq[m]
             \/ \E y \in ItemsOf(m) : y.a # "model" /\ triggerq'[m] = Append(triggerq[m], y)
  <2>1. triggerq'[m] = triggerq[m] \o SetToSeq(AtomsFor(m)) /\ triggerq[m] \in Seq(ItemsOf(m))
    BY <1>1 DEF QueuesInv
  <2>2. CASE {b \in A : ManagerOf(b) = m} = {}
    <3>1. AtomsFor(m) = {}
      BY <1>3, <2>2
    <3>2. triggerq'[m] = triggerq[m] \o <<>>
      BY <2>1, <3>1, EmptySetToSeq
    <3> QED BY <2>1, <3>2
  <2>3. CASE {b \in A : ManagerOf(b) = m} # {}
    <3>1. PICK a \in {"gui", "order"} : A = {a} /\ ManagerOf(a) = m
      BY <1>3, <2>3
    <3>2. AtomsFor(m) = {Item(a, x.s, x.e)}
      BY <1>3, <3>1
    <3>3. PICK y : y = Item(a, x.s, x.e)
      OBVIOUS
    <3>4. y \in ItemsOf(m) /\ y.a # "model"
      BY <1>2, <3>1, <3>3 DEF ItemsOf, Items, Item, Activities
    <3>5. triggerq'[m] = triggerq[m] \o << y >>
      BY <2>1, <3>2, <3>3, OneSetToSeq
    <3>6. triggerq'[m] = Append(triggerq[m], y)
      BY <2>1, <3>4, <3>5, AppendIsConcat, Zenon
    <3> QED BY <3>4, <3>6
  <2> QED BY <2>2, <2>3
<1>5. DOMAIN triggerq' = Managers
  BY <1>1
<1> QED BY <1>4, <1>5

LEMMA TrimIs ==
  ASSUME SwitchInv, NEW x \in Items
  PROVE  LET on == switch_on[x.a]
             off == switch_off[x.a]
             z == TrimToRunPeriod(x)
         IN  /\ z \in Items /\ z.a = x.a
             /\ z.s = IF x.s >= on THEN x.s ELSE on
             /\ z.e = IF x.e <= off THEN x.e ELSE off
<1>1. PICK on, off : on = switch_on[x.a] /\ off = switch_off[x.a]
  OBVIOUS
<1>2. on \in Ticks /\ off \in Ticks /\ x.s \in Ticks /\ x.e \in Ticks /\ x.a \in Activities
  BY <1>1 DEF SwitchInv, Items
<1>3. on \in Int /\ off \in Int /\ x.s \in Int /\ x.e \in Int
  BY <1>2, Sizes DEF Ticks
<1>4. PICK s, e : s = Max({x.s, on}) /\ e = Min({x.e, off})
  OBVIOUS
<1>5. s = IF x.s >= on THEN x.s ELSE on
  BY <1>3, <1>4, MaxOfTwo
<1>6. e = IF x.e <= off THEN x.e ELSE off
  BY <1>3, <1>4, MinOfTwo
<1>7. TrimToRunPeriod(x) = [a |-> x.a, s |-> s, e |-> e]
  BY <1>1, <1>4 DEF TrimToRunPeriod, Item
<1>8. s \in Ticks /\ e \in Ticks
  BY <1>2, <1>5, <1>6
<1> QED BY <1>1, <1>2, <1>5, <1>6, <1>7, <1>8 DEF Items

\* what a manager takes out of a queue, and what is left
LEMMA HeadTail ==
  ASSUME NEW S, NEW s \in Seq(S), s # <<>>
  PROVE  /\ Head(s) \in S /\ Tail(s) \in Seq(S) /\ Len(Tail(s)) = Len(s) - 1
         /\ Head(s) = s[1] /\ \A i \in 1 .. (Len(s) - 1) : Tail(s)[i] = s[i + 1]
         /\ DOMAIN s = 1 .. Len(s) /\ DOMAIN Tail(s) = 1 .. (Len(s) - 1)
         /\ Len(s) \in Nat /\ Len(s) > 0
BY HeadTailProperties

\* what propagateTriggers() does with an atom
LEMMA PropagateIs ==
  ASSUME TypeInv, NEW l \in Managers, Propagate(l), triggerq[l] # <<>>
  PROVE  LET y == Head(triggerq[l]) IN
         /\ y \in ItemsOf(l) /\ NotWhileSwitching(y) /\ pc' = pc
         /\ triggerq' = [triggerq EXCEPT ![l] = Tail(triggerq[l])]
         /\ \/ list' = list
            \/ /\ Accepts(y) /\ TrimToRunPeriod(y) \in ItemsOf(l)
               /\ \E k \in 0 .. Len(list[l]) :
                    /\ list' = [list EXCEPT ![l] = Insert(list[l], k, TrimToRunPeriod(y))]
                    /\ l = 1 => \A j \in DOMAIN list[l] :
                                  ~Less(list[l][j], TrimToRunPeriod(y)) => j <= k
<1> DEFINE y == Head(triggerq[l])
<1>1. y \in ItemsOf(l)
  BY HeadTail DEF TypeInv, QueuesInv
<1>2. /\ NotWhileSwitching(y) /\ pc' = pc
      /\ triggerq' = [triggerq EXCEPT ![l] = Tail(triggerq[l])]
      /\ list' = IF Accepts(y) THEN [list EXCEPT ![l] = Scheduled(l, TrimToRunPeriod(y))]
                 ELSE list
  BY DEF Propagate
<1>3. TrimToRunPeriod(y) \in ItemsOf(l)
  BY <1>1, TrimIs DEF TypeInv, ItemsOf
<1>4. PICK k \in 0 .. Len(list[l]) :
        /\ Scheduled(l, TrimToRunPeriod(y)) = Insert(list[l], k, TrimToRunPeriod(y))
        /\ l = 1 => \A j \in DOMAIN list[l] : ~Less(list[l][j], TrimToRunPeriod(y)) => j <= k
  BY ScheduledIs DEF TypeInv, TimeInv
<1> HIDE DEF y
<1> QED BY <1>1, <1>2, <1>3, <1>4 DEF y

LEMMA QueuesTyped ==
  ASSUME TypeInv, [Next]_<<vars, setting>>
  PROVE  QueuesInv'
<1>0. QueuesInv /\ TimeInv
  BY DEF TypeInv
<1>1. CASE Tick
  <2>1. PICK s : /\ s = IF clock < MaxTick THEN clock ELSE MaxTick - Period
                 /\ triggerq' = [triggerq EXCEPT ![1] = Append(@, Item("model", s, s + Period))]
                 /\ list' = list /\ to_do' = to_do
    BY <1>1 DEF Tick, Pulled, ManagerOf
  <2>2. s \in 0 .. MaxTick /\ s + Period \in 0 .. MaxTick
    <3>1. CASE clock < MaxTick
      BY <1>0, <2>1, <3>1, WholeApart, TimesWhole DEF TimeInv
    <3>2. CASE ~ (clock < MaxTick)
      BY <2>1, <3>2, RepeatedWhole, Sizes DEF Repeated
    <3> QED BY <3>1, <3>2
  <2>3. PICK y : y = Item("model", s, s + Period)
    OBVIOUS
  <2>4. y \in ItemsOf(1)
    BY <2>2, <2>3, Sizes DEF Item, ItemsOf, Items, Activities, Ticks, ManagerOf
  <2>5. Append(triggerq[1], y) \in Seq(ItemsOf(1))
    BY <1>0, <2>4 DEF QueuesInv, Managers
  <2> QED BY <1>0, <2>1, <2>3, <2>5 DEF QueuesInv, Managers
<1>2. CASE \E l \in Managers : Propagate(l)
  <2>1. PICK l \in Managers : Propagate(l)
    BY <1>2
  <2>2. to_do' = to_do
    BY <2>1 DEF Propagate
  <2>3. CASE triggerq[l] = <<>>
    BY <1>0, <2>1, <2>2, <2>3 DEF Propagate, QueuesInv
  <2>4. CASE triggerq[l] # <<>>
    <3>1. PICK q \in Seq(ItemsOf(l)) : triggerq' = [triggerq EXCEPT ![l] = q]
      BY <1>0, <2>1, <2>4, PropagateIs, HeadTail DEF QueuesInv
    <3>2. DOMAIN list' = Managers /\ \A m \in Managers : list'[m] \in Seq(ItemsOf(m))
      <4>1. CASE list' = list
        BY <1>0, <4>1 DEF QueuesInv
      <4>2. CASE list' # list
        <5>1. PICK k \in 0 .. Len(list[l]), z \in ItemsOf(l) :
                list' = [list EXCEPT ![l] = Insert(list[l], k, z)]
          BY <2>1, <2>4, <4>2, PropagateIs
        <5>2. Insert(list[l], k, z) \in Seq(ItemsOf(l))
          BY <1>0, InsertIs DEF QueuesInv
        <5> QED BY <1>0, <5>1, <5>2 DEF QueuesInv
      <4> QED BY <4>1, <4>2
    <3> QED BY <1>0, <2>2, <3>1, <3>2 DEF QueuesInv
  <2> QED BY <2>3, <2>4
<1>3. CASE \E l \in Managers : Call(l)
  <2>1. PICK l \in Managers : Call(l)
    BY <1>3
  <2>2. list' = list /\ to_do' = to_do
    BY <2>1 DEF Call
  <2>3. CASE CallAllowed(to_do[l])
    <3>1. DOMAIN triggerq' = Managers /\ \A m \in Managers : triggerq'[m] \in Seq(ItemsOf(m))
      <4>1. DOMAIN triggerq' = Managers
        BY <1>0, <2>1, <2>3, CallAdds
      <4>2. ASSUME NEW m \in Managers
            PROVE  triggerq'[m] \in Seq(ItemsOf(m))
        <5>1. triggerq[m] \in Seq(ItemsOf(m))
          BY <1>0 DEF QueuesInv
        <5>2. CASE triggerq'[m] = triggerq[m]
          BY <5>1, <5>2
        <5>3. CASE \E y \in ItemsOf(m) : triggerq'[m] = Append(triggerq[m], y)
          BY <5>1, <5>3, AppendProperties
        <5> QED BY <1>0, <2>1, <2>3, <5>2, <5>3, CallAdds
      <4> QED BY <4>1, <4>2
    <3> QED BY <1>0, <2>2, <3>1 DEF QueuesInv
  <2>4. CASE ~ CallAllowed(to_do[l])
    BY <1>0, <2>1, <2>2, <2>4 DEF QueuesInv, Call
  <2> QED BY <2>3, <2>4
<1>4. CASE UNCHANGED <<triggerq, list, to_do>>
  BY <1>0, <1>4 DEF QueuesInv
<1>5. CASE Test \/ Serve
  <2>1. CASE UNCHANGED <<list, to_do>>
    BY <1>4, <1>5, <2>1 DEF Test, Serve
  <2>2. CASE ~ UNCHANGED <<list, to_do>>
    <3>1. PICK l \in Managers : Pop(l) /\ list[l] # <<>> /\ triggerq' = triggerq
      BY <1>5, <2>2 DEF Test, Serve, Managers
    <3>2. PICK x, s : x = Head(list[l]) /\ s = Tail(list[l])
      OBVIOUS
    <3>3. x \in ItemsOf(l) /\ s \in Seq(ItemsOf(l))
      BY <1>0, <3>1, <3>2, HeadTail DEF QueuesInv
    <3>4. to_do' = [to_do EXCEPT ![l] = x] /\ list' = [list EXCEPT ![l] = s]
      BY <3>1, <3>2 DEF Pop
    <3>5. l = 0 => x.a = "gui"
      BY <3>3 DEF ItemsOf, ManagerOf
    <3>6. x \in Items
      BY <3>3 DEF ItemsOf
    <3> QED BY <1>0, <3>1, <3>3, <3>4, <3>5, <3>6 DEF QueuesInv, Managers
  <2> QED BY <2>1, <2>2
<1>6. CASE \/ TickOnly \/ TickerWakes \/ Look \/ Test0 \/ Graphics \/ Throw \/ Switch \/ Assign
           \/ StopDoActivities \/ Ended \/ UNCHANGED vars
  BY <1>4, <1>6 DEF TickOnly, TickerWakes, Look, Test0, Graphics, Throw, Switch, Assign,
                    StopDoActivities, Ended, vars
<1>7. CASE \E l \in Managers : \/ Despatch(l) \/ SetLast(l) \/ Called(l) \/ SetRunning(l) \/ Wake(l)
  BY <1>4, <1>7 DEF Despatch, SetLast, Called, SetRunning, Wake
<1> QED BY <1>1, <1>2, <1>3, <1>5, <1>6, <1>7 DEF Next, Threads

LEMMA OtherTyped ==
  ASSUME TypeInv, [Next]_<<vars, setting>>
  PROVE  OtherInv'
<1>0. OtherInv /\ setting' = setting /\ setting.events \in Nat /\ to_do \in [Managers -> Items]
  BY SettingIs DEF TypeInv, TimeInv, QueuesInv, Next, vars
<1>1. CASE Tick
  <2>1. triggeredlevels' = [triggeredlevels EXCEPT ![Ticker] = {1}] /\ UNCHANGED <<running, events>>
    BY <1>1 DEF Tick
  <2> QED BY <1>0, <2>1 DEF OtherInv, Managers
<1>2. CASE TickerWakes
  BY <1>0, <1>2 DEF OtherInv, TickerWakes
<1>3. CASE StopDoActivities
  BY <1>0, <1>3 DEF OtherInv, StopDoActivities
<1>4. CASE \E l \in Managers : Call(l)
  <2>1. PICK l \in Managers : Call(l)
    BY <1>4
  <2>2. CASE CallAllowed(to_do[l])
    <3>1. PICK M : M = {ManagerOf(a) : a \in Pulls(to_do[l])}
      OBVIOUS
    <3>2. M \subseteq Managers
      BY <3>1 DEF ManagerOf, Managers
    <3>3. /\ triggeredlevels' = [triggeredlevels EXCEPT ![l] = @ \cup M]
          /\ events' = events \/ (events' = events - 1 /\ events > 0)
          /\ running' = running
      BY <1>0, <2>1, <2>2, <3>1 DEF Call, OtherInv
    <3>4. triggeredlevels' \in [Managers \cup {Ticker} -> SUBSET Managers]
      BY <1>0, <3>2, <3>3 DEF OtherInv
    <3>5. events' \in 0 .. setting.events
      BY <1>0, <3>3 DEF OtherInv
    <3> QED BY <1>0, <3>3, <3>4, <3>5 DEF OtherInv
  <2>3. CASE ~ CallAllowed(to_do[l])
    BY <1>0, <2>1, <2>3 DEF OtherInv, Call
  <2> QED BY <2>2, <2>3
<1>5. CASE \E l \in Managers : Wake(l)
  <2>1. PICK l \in Managers : Wake(l)
    BY <1>5
  <2>2. /\ triggeredlevels' = [triggeredlevels EXCEPT ![l] = {}]
        /\ UNCHANGED <<running, events>>
    BY <2>1 DEF Wake
  <2> QED BY <1>0, <2>2 DEF OtherInv
<1>6. CASE UNCHANGED <<triggeredlevels, running, events>>
  BY <1>0, <1>6 DEF OtherInv
<1>7. CASE \/ TickOnly \/ Look \/ Test0 \/ Serve \/ Graphics \/ Test \/ Throw \/ Switch \/ Assign
           \/ Ended \/ UNCHANGED vars
  BY <1>6, <1>7 DEF TickOnly, Look, Test0, Serve, Graphics, Test, Throw, Switch, Assign, Ended,
                    vars
<1>8. CASE \E l \in Managers : \/ Propagate(l) \/ Despatch(l) \/ SetLast(l) \/ Called(l)
                               \/ SetRunning(l)
  BY <1>6, <1>8 DEF Propagate, Despatch, SetLast, Called, SetRunning
<1> QED BY <1>1, <1>2, <1>3, <1>4, <1>5, <1>7, <1>8 DEF Next, Threads

AllTyped == TypeInv /\ WakeInv

LEMMA TypesInvariant == Spec => []AllTyped
<1>1. Init => AllTyped
  BY TypeInit, WakeInit DEF AllTyped
<1>2. AllTyped /\ [Next]_<<vars, setting>> => AllTyped'
  <2> SUFFICES ASSUME AllTyped, [Next]_<<vars, setting>> PROVE AllTyped'
    OBVIOUS
  <2>1. WakeInv'
    BY WakeNext DEF AllTyped
  <2>2. ThreadsThere'
    BY <2>1 DEF WakeInv
  <2>3. TimeInv' /\ SwitchInv' /\ QueuesInv' /\ OtherInv'
    BY TimeNext, SwitchTyped, QueuesTyped, OtherTyped DEF AllTyped
  <2> QED BY <2>1, <2>2, <2>3 DEF AllTyped, TypeInv
<1> QED BY <1>1, <1>2, PTL DEF Spec

LEMMA TypesAsStated == TypeInv => TypeOK
<1> SUFFICES ASSUME TypeInv PROVE TypeOK
  OBVIOUS
<1>1. /\ setting \in Settings
      /\ clock \in 0 .. MaxTick /\ due \in BOOLEAN /\ spent \in 0 .. 2 /\ running \in BOOLEAN
      /\ triggeredlevels \in [Managers \cup {Ticker} -> SUBSET Managers]
      /\ events \in 0 .. setting.events
  BY DEF TypeInv, TimeInv, OtherInv
<1>2. \A l \in Managers :
        {triggerq[l], list[l]} \subseteq Seq({x \in Items : ManagerOf(x.a) = l})
  BY DEF TypeInv, QueuesInv, ItemsOf
<1>3. /\ to_do \in [Managers -> Items] /\ run_state \in [Activities -> States]
      /\ {switch_on, switch_off} \subseteq [Activities -> Ticks]
  BY DEF TypeInv, QueuesInv, SwitchInv
<1> QED BY <1>1, <1>2, <1>3, Zenon DEF TypeOK

-----------------------------------------------------------------------------
(* The order in which "model" is triggered, scheduled and run.             *)

ModelsAt(l) == {i \in DOMAIN l : l[i].a = "model"}
Models(l) == {l[i] : i \in ModelsAt(l)}

\* an item that ends at a may run before one that ends at b, or before an item
\* made of atom y; the ticker repeats its last span
Fwd(a, b)    == a < b \/ (a > Repeated /\ b > Repeated)
Before(a, y) == a <= y.s \/ (a > Repeated /\ y.s >= Repeated)

Ordered(l) == \A i, j \in ModelsAt(l) : i < j => Fwd(l[i].e, l[j].e)
AtomsOrdered(q) == \A i, j \in ModelsAt(q) : i < j => Before(q[i].e, q[j])

\* what a queue holds with an atom more
LEMMA AppendModels ==
  ASSUME NEW S, NEW q \in Seq(S), NEW y \in S
  PROVE  /\ y.a = "model" => /\ Models(Append(q, y)) = Models(q) \cup {y}
                             /\ AtomsOrdered(q) /\ (\A x \in Models(q) : Before(x.e, y))
                                  => AtomsOrdered(Append(q, y))
         /\ y.a # "model" => /\ Models(Append(q, y)) = Models(q)
                             /\ AtomsOrdered(q) => AtomsOrdered(Append(q, y))
<1>1. PICK p, n : p = Append(q, y) /\ n = Len(q)
  OBVIOUS
<1>2. /\ n \in Nat /\ DOMAIN q = 1 .. n /\ DOMAIN p = 1 .. (n + 1)
      /\ p[n + 1] = y /\ \A i \in 1 .. n : p[i] = q[i]
  BY <1>1
<1>3. ModelsAt(p) = ModelsAt(q) \cup (IF y.a = "model" THEN {n + 1} ELSE {})
  BY <1>2 DEF ModelsAt
<1>4. ModelsAt(q) \subseteq 1 .. n
  BY <1>2 DEF ModelsAt
<1>5. CASE y.a = "model"
  <2>1. Models(p) = Models(q) \cup {y}
    BY <1>2, <1>3, <1>4, <1>5 DEF Models
  <2>2. ASSUME AtomsOrdered(q), \A x \in Models(q) : Before(x.e, y)
        PROVE  AtomsOrdered(p)
    <3> SUFFICES ASSUME NEW i \in ModelsAt(p), NEW j \in ModelsAt(p), i < j
                 PROVE  Before(p[i].e, p[j])
      BY DEF AtomsOrdered
    <3>1. i \in 1 .. n /\ i \in ModelsAt(q)
      BY <1>2, <1>3, <1>4
    <3>2. CASE j \in 1 .. n
      BY <1>2, <1>3, <2>2, <3>1, <3>2 DEF AtomsOrdered
    <3>3. CASE j = n + 1
      <4>1. q[i] \in Models(q)
        BY <3>1 DEF Models
      <4> QED BY <1>2, <2>2, <3>1, <3>3, <4>1
    <3> QED BY <1>3, <1>4, <3>2, <3>3
  <2> QED BY <1>1, <1>5, <2>1, <2>2
<1>6. CASE y.a # "model"
  <2>1. ModelsAt(p) = ModelsAt(q)
    BY <1>3, <1>6
  <2>2. Models(p) = Models(q)
    BY <1>2, <1>4, <2>1 DEF Models
  <2>3. AtomsOrdered(q) => AtomsOrdered(p)
    BY <1>2, <1>4, <2>1 DEF AtomsOrdered
  <2> QED BY <1>1, <1>6, <2>2, <2>3
<1> QED BY <1>5, <1>6

\* the places behind the first
LEMMA TailAt ==
  ASSUME NEW S, NEW q \in Seq(S), q # <<>>
  PROVE  /\ \A i \in ModelsAt(Tail(q)) : i + 1 \in ModelsAt(q) /\ i \in Nat /\ i > 0
                                         /\ Tail(q)[i] = q[i + 1]
         /\ \A i \in ModelsAt(q) : i = 1 \/ (i - 1 \in ModelsAt(Tail(q)) /\ i \in Nat)
         /\ Head(q) = q[1] /\ (Head(q).a = "model" => 1 \in ModelsAt(q))
<1>1. PICK p, n : p = Tail(q) /\ n = Len(q)
  OBVIOUS
<1>2. /\ n \in Nat /\ n > 0 /\ DOMAIN q = 1 .. n /\ DOMAIN p = 1 .. (n - 1)
      /\ Head(q) = q[1] /\ \A i \in 1 .. (n - 1) : p[i] = q[i + 1]
  BY <1>1, HeadTail
<1>3. \A i \in 1 .. n : i = 1 \/ (i - 1 \in 1 .. (n - 1) /\ p[i - 1] = q[i])
  BY <1>2
<1>4. \A i \in ModelsAt(p) : i + 1 \in ModelsAt(q) /\ i \in Nat /\ i > 0 /\ p[i] = q[i + 1]
  BY <1>2 DEF ModelsAt
<1>5. \A i \in ModelsAt(q) : i = 1 \/ (i - 1 \in ModelsAt(p) /\ i \in Nat)
  BY <1>2, <1>3 DEF ModelsAt
<1>6. Head(q) = q[1] /\ (Head(q).a = "model" => 1 \in ModelsAt(q))
  BY <1>2 DEF ModelsAt
<1> QED BY <1>1, <1>4, <1>5, <1>6

\* what a queue or list holds without its first element
LEMMA TailModels ==
  ASSUME NEW S, NEW q \in Seq(S), q # <<>>
  PROVE  /\ Models(q) = Models(Tail(q)) \cup (IF Head(q).a = "model" THEN {Head(q)} ELSE {})
         /\ AtomsOrdered(q) => /\ AtomsOrdered(Tail(q))
                               /\ Head(q).a = "model" =>
                                    \A y \in Models(Tail(q)) : Before(Head(q).e, y)
         /\ Ordered(q) => /\ Ordered(Tail(q))
                          /\ Head(q).a = "model" =>
                               \A z \in Models(Tail(q)) : Fwd(Head(q).e, z.e)
<1>1. PICK p, h : p = Tail(q) /\ h = Head(q)
  OBVIOUS
<1>2. /\ \A i \in ModelsAt(p) : i + 1 \in ModelsAt(q) /\ i \in Nat /\ i > 0 /\ p[i] = q[i + 1]
      /\ \A i \in ModelsAt(q) : i = 1 \/ (i - 1 \in ModelsAt(p) /\ i \in Nat)
      /\ h = q[1] /\ (h.a = "model" => 1 \in ModelsAt(q))
  BY <1>1, TailAt
<1>3. Models(q) = Models(p) \cup (IF h.a = "model" THEN {h} ELSE {})
  <2>1. ASSUME NEW x \in Models(q) PROVE x \in Models(p) \/ (h.a = "model" /\ x = h)
    <3>1. PICK i \in ModelsAt(q) : x = q[i]
      BY DEF Models
    <3>2. CASE i = 1
      BY <1>2, <3>1, <3>2 DEF ModelsAt
    <3>3. CASE i # 1
      <4>1. i - 1 \in ModelsAt(p) /\ i \in Nat
        BY <1>2, <3>3
      <4>2. p[i - 1] = q[i]
        BY <1>2, <4>1
      <4> QED BY <3>1, <4>1, <4>2 DEF Models
    <3> QED BY <3>2, <3>3
  <2>2. Models(p) \subseteq Models(q)
    BY <1>2 DEF Models
  <2>3. h.a = "model" => h \in Models(q)
    BY <1>2 DEF Models
  <2> QED BY <2>1, <2>2, <2>3
<1>4. AtomsOrdered(q) => AtomsOrdered(p)
  BY <1>2 DEF AtomsOrdered
<1>5. Ordered(q) => Ordered(p)
  BY <1>2 DEF Ordered
<1>6. AtomsOrdered(q) /\ h.a = "model" => \A y \in Models(p) : Before(h.e, y)
  BY <1>2 DEF AtomsOrdered, Models
<1>7. Ordered(q) /\ h.a = "model" => \A z \in Models(p) : Fwd(h.e, z.e)
  <2> SUFFICES ASSUME Ordered(q), h.a = "model", NEW z \in Models(p)
               PROVE  Fwd(h.e, z.e)
    OBVIOUS
  <2>1. PICK i \in ModelsAt(p) : z = p[i]
    BY DEF Models
  <2>2. i + 1 \in ModelsAt(q) /\ 1 < i + 1 /\ z = q[i + 1] /\ 1 \in ModelsAt(q) /\ h = q[1]
    BY <1>2, <2>1
  <2> QED BY <2>2 DEF Ordered
<1> QED BY <1>1, <1>3, <1>4, <1>5, <1>6, <1>7

\* what a list holds with an item put in
LEMMA InsertModels ==
  ASSUME NEW S, NEW l \in Seq(S), NEW k \in 0 .. Len(l), NEW z \in S
  PROVE  /\ z.a # "model" => /\ Models(Insert(l, k, z)) = Models(l)
                             /\ Ordered(l) => Ordered(Insert(l, k, z))
         /\ z.a = "model" => /\ Models(Insert(l, k, z)) = Models(l) \cup {z}
                             /\ /\ Ordered(l) /\ \A x \in Models(l) : Fwd(x.e, z.e)
                                /\ \A j \in ModelsAt(l) : j <= k
                                => Ordered(Insert(l, k, z))
<1>1. PICK m, n : m = Insert(l, k, z) /\ n = Len(l)
  OBVIOUS
<1>2. /\ n \in Nat /\ k \in 0 .. n /\ DOMAIN l = 1 .. n /\ DOMAIN m = 1 .. (n + 1)
      /\ \A i \in 1 .. k : m[i] = l[i]
      /\ m[k + 1] = z
      /\ \A i \in (k + 2) .. (n + 1) : m[i] = l[i - 1]
  <2>1. m \in Seq(S) /\ HasInserted(m, l, k, z)
    BY <1>1, InsertIs
  <2>2. n \in Nat /\ DOMAIN l = 1 .. n /\ k \in 0 .. n /\ DOMAIN m = 1 .. (n + 1)
    BY <1>1, <2>1 DEF HasInserted
  <2> QED BY <1>1, <2>1, <2>2 DEF HasInserted
<1> DEFINE To(i) == IF i <= k THEN i ELSE i + 1
           From(i) == IF i <= k THEN i ELSE i - 1
<1>3. \A i \in 1 .. n : To(i) \in 1 .. (n + 1) /\ To(i) # k + 1 /\ m[To(i)] = l[i]
  BY <1>2
<1>4. \A i \in 1 .. (n + 1) : i # k + 1 => From(i) \in 1 .. n /\ l[From(i)] = m[i]
  BY <1>2
<1>5. \A i, j \in 1 .. (n + 1) : i < j /\ i # k + 1 /\ j # k + 1 => From(i) < From(j)
  BY <1>2
<1> HIDE DEF To, From
<1>6. \A i \in ModelsAt(m) : i # k + 1 => From(i) \in ModelsAt(l)
  BY <1>2, <1>4 DEF ModelsAt
<1>7. Models(m) = Models(l) \cup (IF z.a = "model" THEN {z} ELSE {})
  <2>1. Models(l) \subseteq Models(m)
    <3>1. \A i \in ModelsAt(l) : To(i) \in ModelsAt(m) /\ m[To(i)] = l[i]
      BY <1>2, <1>3 DEF ModelsAt
    <3> QED BY <3>1 DEF Models
  <2>2. z.a = "model" => z \in Models(m)
    <3>1. k + 1 \in DOMAIN m
      BY <1>2
    <3> QED BY <1>2, <3>1 DEF Models, ModelsAt
  <2>3. ASSUME NEW x \in Models(m) PROVE x \in Models(l) \/ (z.a = "model" /\ x = z)
    <3>1. PICK i \in ModelsAt(m) : x = m[i]
      BY DEF Models
    <3>2. CASE i = k + 1
      BY <1>2, <3>1, <3>2 DEF ModelsAt
    <3>3. CASE i # k + 1
      BY <1>2, <1>4, <1>6, <3>1, <3>3 DEF Models, ModelsAt
    <3> QED BY <3>2, <3>3
  <2> QED BY <2>1, <2>2, <2>3
<1>8. ASSUME NEW i \in ModelsAt(m), NEW j \in ModelsAt(m), i < j, Ordered(l),
             i # k + 1, j # k + 1
      PROVE  Fwd(m[i].e, m[j].e)
  <2>1. i \in 1 .. (n + 1) /\ j \in 1 .. (n + 1)
    BY <1>2 DEF ModelsAt
  <2>2. From(i) \in ModelsAt(l) /\ From(j) \in ModelsAt(l) /\ From(i) < From(j)
    BY <1>5, <1>6, <1>8, <2>1
  <2>3. Fwd(l[From(i)].e, l[From(j)].e)
    BY <1>8, <2>2 DEF Ordered
  <2> QED BY <1>4, <1>8, <2>1, <2>3
<1>9. CASE z.a # "model"
  <2>1. k + 1 \notin ModelsAt(m)
    BY <1>2, <1>9 DEF ModelsAt
  <2> QED BY <1>1, <1>7, <1>8, <1>9, <2>1 DEF Ordered
<1>10. CASE z.a = "model"
  <2>1. ASSUME Ordered(l), \A x \in Models(l) : Fwd(x.e, z.e), \A j \in ModelsAt(l) : j <= k
        PROVE  Ordered(m)
    <3> SUFFICES ASSUME NEW i \in ModelsAt(m), NEW j \in ModelsAt(m), i < j
                 PROVE  Fwd(m[i].e, m[j].e)
      BY DEF Ordered
    <3>1. i \in 1 .. (n + 1) /\ j \in 1 .. (n + 1)
      BY <1>2 DEF ModelsAt
    <3>2. i # k + 1
      <4>1. SUFFICES ASSUME i = k + 1 PROVE FALSE
        OBVIOUS
      <4>2. j - 1 \in 1 .. n /\ m[j] = l[j - 1]
        BY <1>2, <3>1, <4>1
      <4>3. j - 1 \in ModelsAt(l)
        BY <1>2, <4>2 DEF ModelsAt
      <4> QED BY <1>2, <2>1, <3>1, <4>1, <4>3
    <3>3. CASE j = k + 1
      <4>1. From(i) \in ModelsAt(l) /\ l[From(i)] = m[i]
        BY <1>4, <1>6, <3>1, <3>2
      <4>2. m[i] \in Models(l)
        BY <4>1 DEF Models
      <4> QED BY <1>2, <2>1, <3>3, <4>2
    <3>4. CASE j # k + 1
      BY <1>8, <2>1, <3>2, <3>4
    <3> QED BY <3>3, <3>4
  <2> QED BY <1>1, <1>7, <1>10, <2>1
<1> QED BY <1>9, <1>10

\* of before "model" was switched on for t
Old(e, t) == e <= t /\ (e <= Repeated \/ t >= MaxTick)
Sided(x, on) == Old(x.e, on) \/ x.s >= on

\* manager 1 has an item of "model" that is still to run, or that it has looked
\* at and is not done with
Active(p, x)  == p \in {"despatch", "last", "call"} /\ x.a = "model"
Holding(p, x) == p \in {"last", "call", "called", "run"} /\ x.a = "model"
Ran(p, x)     == p \in {"called", "run"} /\ x.a = "model"
Live(p, x, l) == Models(l) \cup (IF Active(p, x) THEN {x} ELSE {})

\* Atoms for "model" are behind what ran, up to the clock; r is the end of what ran.
AtomRight(y, c, r) ==
  /\ y.e = y.s + Period /\ y.e <= c /\ Before(r, y)
  /\ y.e <= Repeated \/ y.s >= Repeated

\* Items are behind what ran and before the atoms, and on one side of the time
\* "model" was switched on for.
ItemRight(x, Y, c, on, r) ==
  /\ x.s < x.e /\ x.e <= c /\ Fwd(r, x.e) /\ Sided(x, on)
  /\ x.s <= Repeated \/ x.s <= on
  /\ \A y \in Y : Before(x.e, y) /\ (x.s <= y.s \/ x.s <= on)

\* atoms and items follow each other
Moves(c, q, l, p, x, on, r) ==
  /\ r \in Nat /\ r <= c
  /\ \A y \in Models(q) : AtomRight(y, c, r)
  /\ AtomsOrdered(q)
  /\ \A z \in Live(p, x, l) : ItemRight(z, Models(q), c, on, r)
  /\ Ordered(l)
  /\ Active(p, x) => \A z \in Models(l) : Fwd(x.e, z.e)
  /\ Ran(p, x) => r = x.e

Sorted(c, q, l, x, on) ==
  /\ c \in 0 .. MaxTick /\ Whole(c) /\ on \in Ticks /\ x \in Items
  /\ q \in Seq(ItemsOf(1)) /\ l \in Seq(ItemsOf(1))

LEMMA ModelsTyped ==
  ASSUME NEW l \in Seq(ItemsOf(1))
  PROVE  \A x \in Models(l) : x \in Items /\ x.s \in Nat /\ x.e \in Nat /\ x.a = "model"
<1> SUFFICES ASSUME NEW i \in ModelsAt(l)
             PROVE  l[i] \in Items /\ l[i].s \in Nat /\ l[i].e \in Nat /\ l[i].a = "model"
  BY DEF Models
<1>1. i \in DOMAIN l /\ l[i].a = "model"
  BY DEF ModelsAt
<1>2. l[i] \in ItemsOf(1)
  BY <1>1
<1>3. l[i] \in Items
  BY <1>2 DEF ItemsOf
<1>4. l[i].s \in Ticks /\ l[i].e \in Ticks
  BY <1>3 DEF Items
<1> QED BY <1>1, <1>3, <1>4, Sizes DEF Ticks

LEMMA LiveTyped ==
  ASSUME NEW l \in Seq(ItemsOf(1)), NEW p, NEW x \in Items
  PROVE  \A z \in Live(p, x, l) : z \in Items /\ z.s \in Nat /\ z.e \in Nat /\ z.a = "model"
<1>1. x.s \in Nat /\ x.e \in Nat
  BY Sizes DEF Items, Ticks
<1> QED BY <1>1, ModelsTyped DEF Live, Active

\* the ticker adds an atom
LEMMA MovesTick ==
  ASSUME NEW c, NEW q, NEW l, NEW p, NEW x, NEW on, NEW r, NEW s, NEW y,
         Sorted(c, q, l, x, on), Moves(c, q, l, p, x, on, r),
         s = (IF c < MaxTick THEN c ELSE Repeated),
         y \in ItemsOf(1), y.a = "model", y.s = s, y.e = s + Period
  PROVE  Moves(s + Period, Append(q, y), l, p, x, on, r)
<1>1. /\ c \in Nat /\ c <= MaxTick /\ Repeated \in Nat /\ Repeated < MaxTick
      /\ Period \in Nat /\ 0 < Period /\ Repeated + Period = MaxTick /\ MaxTick \in Nat
      /\ c <= Repeated \/ c = MaxTick
  BY Sizes, RepeatedWhole DEF Sorted, Repeated
<1>2. /\ s \in Nat /\ s <= Repeated /\ s <= c /\ c <= s + Period
      /\ c <= s \/ (c > Repeated /\ s >= Repeated /\ s = Repeated)
  BY <1>1
<1>3. \A e \in Nat : e <= c => Before(e, y)
  BY <1>1, <1>2 DEF Before
<1>4. Models(Append(q, y)) = Models(q) \cup {y}
  BY AppendModels DEF Sorted
<1>5. r \in Nat /\ r <= s + Period
  BY <1>1, <1>2 DEF Moves
<1>6. ASSUME NEW z \in Models(q)
      PROVE  AtomRight(z, s + Period, r) /\ Before(z.e, y)
  <2>1. z.s \in Nat /\ z.e \in Nat /\ AtomRight(z, c, r)
    BY ModelsTyped DEF Sorted, Moves
  <2> QED BY <1>1, <1>2, <1>3, <2>1 DEF AtomRight
<1>7. AtomRight(y, s + Period, r)
  <2>1. Before(r, y)
    BY <1>3 DEF Moves
  <2>2. y.e <= Repeated \/ y.s >= Repeated
    <3>1. CASE c = MaxTick
      BY <1>1, <3>1
    <3>2. CASE c < Repeated
      <4>1. c + Period <= Repeated
        BY <1>1, <3>2, WholeApart, RepeatedWhole DEF Sorted
      <4> QED BY <1>1, <3>2, <4>1
    <3>3. CASE c = Repeated
      BY <1>1, <3>3
    <3> QED BY <1>1, <3>1, <3>2, <3>3
  <2> QED BY <1>2, <2>1, <2>2, <1>1 DEF AtomRight
<1>8. AtomsOrdered(Append(q, y))
  BY <1>6, AppendModels DEF Sorted, Moves
<1>9. ASSUME NEW z \in Live(p, x, l)
      PROVE  ItemRight(z, Models(Append(q, y)), s + Period, on, r)
  <2>1. z.s \in Nat /\ z.e \in Nat /\ on \in Nat
    BY LiveTyped, Sizes DEF Sorted, Ticks
  <2>2. ItemRight(z, Models(q), c, on, r)
    BY DEF Moves
  <2>3. Before(z.e, y) /\ (z.s <= y.s \/ z.s <= on)
    BY <1>1, <1>2, <1>3, <2>1, <2>2 DEF ItemRight
  <2>4. z.e <= s + Period
    BY <1>1, <1>2, <2>1, <2>2 DEF ItemRight
  <2> QED BY <1>4, <2>2, <2>3, <2>4 DEF ItemRight
<1> QED BY <1>4, <1>5, <1>6, <1>7, <1>8, <1>9 DEF Moves

\* an atom is taken
LEMMA MovesTaken ==
  ASSUME NEW c, NEW q, NEW l, NEW p, NEW x, NEW on, NEW r,
         Sorted(c, q, l, x, on), Moves(c, q, l, p, x, on, r), q # <<>>
  PROVE  Moves(c, Tail(q), l, p, x, on, r)
<1>1. Models(Tail(q)) \subseteq Models(q) /\ (AtomsOrdered(q) => AtomsOrdered(Tail(q)))
  BY TailModels DEF Sorted
<1>2. \A z \in Live(p, x, l) : ItemRight(z, Models(Tail(q)), c, on, r)
  BY <1>1 DEF Moves, ItemRight
<1> QED BY <1>1, <1>2 DEF Moves

\* an atom for "order" is added, an item of it scheduled
LEMMA MovesOther ==
  ASSUME NEW c, NEW q, NEW l, NEW p, NEW x, NEW on, NEW r, NEW y,
         Sorted(c, q, l, x, on), Moves(c, q, l, p, x, on, r), y \in ItemsOf(1), y.a # "model"
  PROVE  /\ Moves(c, Append(q, y), l, p, x, on, r)
         /\ \A k \in 0 .. Len(l) : Moves(c, q, Insert(l, k, y), p, x, on, r)
<1>1. Models(Append(q, y)) = Models(q) /\ (AtomsOrdered(q) => AtomsOrdered(Append(q, y)))
  BY AppendModels DEF Sorted
<1>2. Moves(c, Append(q, y), l, p, x, on, r)
  BY <1>1 DEF Moves
<1>3. ASSUME NEW k \in 0 .. Len(l)
      PROVE  Moves(c, q, Insert(l, k, y), p, x, on, r)
  <2>1. /\ Models(Insert(l, k, y)) = Models(l)
        /\ Ordered(l) => Ordered(Insert(l, k, y))
    BY InsertModels DEF Sorted
  <2>2. Live(p, x, Insert(l, k, y)) = Live(p, x, l)
    BY <2>1 DEF Live
  <2> QED BY <2>1, <2>2 DEF Moves
<1> QED BY <1>2, <1>3

\* an atom becomes an item behind all others
LEMMA MovesAccepted ==
  ASSUME NEW c, NEW q, NEW l, NEW p, NEW x, NEW on, NEW r, NEW y, NEW z, NEW k \in 0 .. Len(l),
         Sorted(c, q, l, x, on), Moves(c, q, l, p, x, on, r),
         q # <<>>, y = Head(q), y.a = "model",
         z \in ItemsOf(1), z.a = "model", z.s = (IF y.s >= on THEN y.s ELSE on),
         z.e <= y.e, z.s < z.e, \A j \in ModelsAt(l) : j <= k
  PROVE  Moves(c, Tail(q), Insert(l, k, z), p, x, on, r)
<1>1. Moves(c, Tail(q), l, p, x, on, r)
  BY MovesTaken
<1>2. /\ y \in Models(q) /\ AtomRight(y, c, r)
      /\ \A u \in Models(Tail(q)) : Before(y.e, u) /\ u \in Models(q)
  BY TailModels DEF Sorted, Moves
<1>3. /\ y.s \in Nat /\ y.e \in Nat /\ z.s \in Nat /\ z.e \in Nat /\ on \in Nat
      /\ c \in Nat /\ c <= MaxTick /\ r \in Nat
      /\ Repeated \in Nat /\ Repeated + Period = MaxTick /\ Period \in Nat /\ 0 < Period
      /\ MaxTick \in Nat
  BY <1>2, ModelsTyped, Sizes, RepeatedWhole DEF Sorted, Moves, ItemsOf, Items, Ticks, Repeated
<1>4. \A e \in Nat : Before(e, y) => Fwd(e, z.e)
  BY <1>3 DEF Before, Fwd
<1>5. y.s <= Repeated /\ y.s <= z.s /\ z.e <= c
  BY <1>2, <1>3 DEF AtomRight
<1>6. ItemRight(z, Models(Tail(q)), c, on, r)
  <2>1. Fwd(r, z.e)
    BY <1>2, <1>3, <1>4 DEF AtomRight
  <2>2. Sided(z, on) /\ (z.s <= Repeated \/ z.s <= on)
    BY <1>3, <1>5 DEF Sided
  <2>3. ASSUME NEW u \in Models(Tail(q))
        PROVE  Before(z.e, u) /\ (z.s <= u.s \/ z.s <= on)
    <3>1. u.s \in Nat /\ u.e \in Nat /\ Before(y.e, u)
      BY <1>2, ModelsTyped DEF Sorted
    <3>2. Before(z.e, u)
      BY <1>3, <3>1 DEF Before
    <3>3. y.s <= u.s
      BY <1>2, <1>3, <1>5, <3>1 DEF Before, AtomRight
    <3> QED BY <1>3, <3>1, <3>2, <3>3
  <2> QED BY <1>5, <2>1, <2>2, <2>3 DEF ItemRight
<1>7. \A u \in Live(p, x, l) : Fwd(u.e, z.e)
  <2> TAKE u \in Live(p, x, l)
  <2>1. u.e \in Nat /\ Before(u.e, y)
    BY <1>2, LiveTyped DEF Sorted, Moves, ItemRight
  <2> QED BY <1>4, <2>1
<1>8. Models(Insert(l, k, z)) = Models(l) \cup {z}
  BY InsertModels DEF Sorted
<1>9. Models(l) \subseteq Live(p, x, l) /\ (Active(p, x) => x \in Live(p, x, l))
  BY DEF Live
<1>10. Ordered(Insert(l, k, z))
  BY <1>7, <1>9, InsertModels DEF Sorted, Moves
<1>11. Live(p, x, Insert(l, k, z)) = Live(p, x, l) \cup {z}
  BY <1>8 DEF Live
<1> QED BY <1>1, <1>6, <1>7, <1>8, <1>9, <1>10, <1>11 DEF Moves

\* manager 1 takes the first item
LEMMA MovesPopped ==
  ASSUME NEW c, NEW q, NEW l, NEW p, NEW x, NEW on, NEW r,
         Sorted(c, q, l, x, on), Moves(c, q, l, p, x, on, r), l # <<>>
  PROVE  /\ Moves(c, q, Tail(l), "despatch", Head(l), on, r)
         /\ Live("despatch", Head(l), Tail(l)) = Models(l)
<1>1. /\ Models(l) = Models(Tail(l)) \cup (IF Head(l).a = "model" THEN {Head(l)} ELSE {})
      /\ Ordered(Tail(l))
      /\ Head(l).a = "model" => \A z \in Models(Tail(l)) : Fwd(Head(l).e, z.e)
  BY TailModels DEF Sorted, Moves
<1>2. Live("despatch", Head(l), Tail(l)) = Models(l)
  BY <1>1 DEF Live, Active
<1>3. Models(l) \subseteq Live(p, x, l)
  BY DEF Live
<1> QED BY <1>1, <1>2, <1>3 DEF Moves, Ran, Active

\* manager 1 goes on
LEMMA MovesOn ==
  ASSUME NEW c, NEW q, NEW l, NEW p, NEW x, NEW on, NEW r, NEW s,
         Moves(c, q, l, p, x, on, r),
         Active(s, x) => Active(p, x), Ran(s, x) => Ran(p, x)
  PROVE  Moves(c, q, l, s, x, on, r) /\ Live(s, x, l) \subseteq Live(p, x, l)
<1>1. Live(s, x, l) \subseteq Live(p, x, l)
  BY DEF Live
<1> QED BY <1>1 DEF Moves

\* "model" runs
LEMMA MovesRun ==
  ASSUME NEW c, NEW q, NEW l, NEW x, NEW on, NEW r,
         Sorted(c, q, l, x, on), Moves(c, q, l, "call", x, on, r), x.a = "model"
  PROVE  Moves(c, q, l, "called", x, on, x.e) /\ Live("called", x, l) \subseteq Live("call", x, l)
<1>1. /\ Active("call", x) /\ ~ Active("called", x) /\ x \in Live("call", x, l)
      /\ Live("called", x, l) = Models(l) /\ Models(l) \subseteq Live("call", x, l)
  BY DEF Active, Live
<1>2. ItemRight(x, Models(q), c, on, r) /\ \A z \in Models(l) : Fwd(x.e, z.e)
  BY <1>1 DEF Moves
<1>3. x.e \in Nat /\ x.e <= c
  BY <1>1, <1>2, LiveTyped DEF Sorted, ItemRight
<1>4. \A y \in Models(q) : AtomRight(y, c, x.e)
  BY <1>2 DEF Moves, AtomRight, ItemRight
<1>5. \A z \in Models(l) : ItemRight(z, Models(q), c, on, x.e)
  BY <1>1, <1>2 DEF Moves, ItemRight
<1> QED BY <1>1, <1>3, <1>4, <1>5 DEF Moves

\* "model" is switched on for a time behind all items
LEMMA MovesSwitched ==
  ASSUME NEW c, NEW q, NEW l, NEW p, NEW x, NEW on, NEW r, NEW t \in Nat,
         Sorted(c, q, l, x, on), Moves(c, q, l, p, x, on, r),
         \A z \in Live(p, x, l) : Old(z.e, t)
  PROVE  Moves(c, q, l, p, x, t, r)
<1>1. ASSUME NEW z \in Live(p, x, l)
      PROVE  ItemRight(z, Models(q), c, t, r)
  <2>1. z.s \in Nat /\ z.e \in Nat /\ Old(z.e, t) /\ ItemRight(z, Models(q), c, on, r)
    BY LiveTyped DEF Sorted, Moves
  <2>2. z.s <= t
    BY <2>1 DEF Old, ItemRight
  <2> QED BY <2>1, <2>2 DEF ItemRight, Sided
<1> QED BY <1>1 DEF Moves

-----------------------------------------------------------------------------
(* Switching on and off.                                                   *)

OnStages  == {SwitchOn(t) : t \in Times} \cup {OnHalf, OnEnd}
OffStages == {SwitchOff(t) : t \in Times} \cup {OffEnd}

LEMMA StagesApart ==
  /\ \A t, u \in Times : /\ SwitchOn(t) # SwitchOff(u)
                         /\ SwitchOn(t) = SwitchOn(u) => t = u
                         /\ SwitchOff(t) = SwitchOff(u) => t = u
  /\ \A t \in Times : /\ SwitchOn(t) \notin Half \cup {<<>>}
                      /\ SwitchOff(t) \notin Half \cup {<<>>}
  /\ OnHalf # OnEnd /\ OnHalf # OffEnd /\ OnEnd # OffEnd /\ <<>> \notin Half
<1>1. \A a, b, c, d, e : /\ << a, b, c >> # << d, e >> /\ << a, b, c >> # << d >>
                         /\ << a, b, c >> # <<>> /\ << a, b >> # << d >> /\ << a, b >> # <<>>
                         /\ << a >> # <<>>
  <2> TAKE a, b, c, d, e
  <2>1. /\ Len(<< a, b, c >>) = 3 /\ Len(<< d, e >>) = 2 /\ Len(<< d >>) = 1
        /\ Len(<<>>) = 0 /\ Len(<< a, b >>) = 2 /\ Len(<< a >>) = 1
    OBVIOUS
  <2> QED BY <2>1
<1>2. \A a, b, c, d, e, f : /\ << a, b, c >> = << d, e, f >> => a = d /\ b = e /\ c = f
                            /\ << a, b >> = << d, e >> => a = d /\ b = e
                            /\ << a >> = << d >> => a = d
  OBVIOUS
<1>3. "Ready" # "Braking"
  OBVIOUS
<1>4. << "run_state", 0, "Ready" >> # << "run_state", 0, "Braking" >>
  BY <1>2, <1>3
<1>5. \A t, u \in Times : SwitchOn(t) # SwitchOff(u)
  BY <1>1 DEF SwitchOn, SwitchOff
<1>6. \A t, u \in Times : SwitchOn(t) = SwitchOn(u) => t = u
  BY <1>2, Zenon DEF SwitchOn
<1>7. \A t, u \in Times : SwitchOff(t) = SwitchOff(u) => t = u
  BY <1>2, Zenon DEF SwitchOff
<1>8. \A t \in Times : SwitchOn(t) \notin Half \cup {<<>>}
  BY <1>1 DEF SwitchOn, Half, OnHalf, OnEnd, OffEnd
<1>9. \A t \in Times : SwitchOff(t) \notin Half \cup {<<>>}
  <2> TAKE t \in Times
  <2>1. SwitchOff(t) # OnHalf
    BY <1>2, <1>4, Zenon DEF SwitchOff, OnHalf
  <2>2. SwitchOff(t) # OnEnd /\ SwitchOff(t) # OffEnd /\ SwitchOff(t) # <<>>
    BY <1>1 DEF SwitchOff, OnEnd, OffEnd
  <2> QED BY <2>1, <2>2 DEF Half
<1>10. OnHalf # OnEnd /\ OnHalf # OffEnd /\ <<>> \notin Half
  BY <1>1 DEF OnHalf, OnEnd, OffEnd, Half
<1>11. OnEnd # OffEnd
  BY <1>2, <1>4, Zenon DEF OnEnd, OffEnd
<1> QED BY <1>5, <1>6, <1>7, <1>8, <1>9, <1>10, <1>11

\* Items do not end later than the time of a switching under way, which does not
\* go halfway while manager 1 is between test and change.
Pending(w, off, S, p, x) ==
  /\ \A t \in Times : w = SwitchOn(t) => \A z \in S : Old(z.e, t)
  /\ \A t \in Times : w = SwitchOff(t) => \A z \in S : z.e <= t
  /\ w = OnEnd => off = MAX_TIMETICK
  /\ w = OffEnd => off \in Times /\ \A z \in S : z.e <= off
  /\ w \in Half => ~ Holding(p, x)

\* When it is on, "model" has no end, and once it runs all items are of this time.
StateRight(st, on, off, r, S, p, x) ==
  /\ st \in {"Ready", "Running"} => off = MAX_TIMETICK
  /\ st = "Running" => on < r /\ \A z \in S : z.s >= on
  /\ st = "Ready" /\ Holding(p, x) => x.e > on
  /\ p = "run" /\ x.a = "model" => st = "Ready"

Switching(w, st, on, off, r, S, p, x) ==
  /\ Pending(w, off, S, p, x)
  /\ w \notin Half => StateRight(st, on, off, r, S, p, x)

\* items run or are dropped, and manager 1 goes on
LEMMA SwitchingOn ==
  ASSUME NEW w, NEW st, NEW on, NEW off, NEW r, NEW S, NEW p, NEW x, NEW U, NEW s,
         Switching(w, st, on, off, r, S, p, x), U \subseteq S,
         Holding(s, x) => Holding(p, x), s = "run" /\ x.a = "model" => p = "run"
  PROVE  Switching(w, st, on, off, r, U, s, x)
<1>1. Pending(w, off, U, s, x)
  BY DEF Switching, Pending
<1>2. w \notin Half => StateRight(st, on, off, r, U, s, x)
  BY DEF Switching, StateRight
<1> QED BY <1>1, <1>2 DEF Switching

\* manager 1 takes an item
LEMMA SwitchingPopped ==
  ASSUME NEW w, NEW st, NEW on, NEW off, NEW r, NEW S, NEW p, NEW x, NEW U, NEW h,
         Switching(w, st, on, off, r, S, p, x), U \subseteq S
  PROVE  Switching(w, st, on, off, r, U, "despatch", h)
<1>1. Pending(w, off, U, "despatch", h)
  BY DEF Switching, Pending, Holding
<1>2. w \notin Half => StateRight(st, on, off, r, U, "despatch", h)
  BY DEF Switching, StateRight, Holding
<1> QED BY <1>1, <1>2 DEF Switching

\* an item more, when nothing is being switched
LEMMA SwitchingMore ==
  ASSUME NEW st, NEW on, NEW off, NEW r, NEW S, NEW p, NEW x, NEW z,
         Switching(<<>>, st, on, off, r, S, p, x), z.s >= on
  PROVE  Switching(<<>>, st, on, off, r, S \cup {z}, p, x)
<1>1. <<>> \notin Half /\ \A t \in Times : <<>> # SwitchOn(t) /\ <<>> # SwitchOff(t)
  BY StagesApart
<1> QED BY <1>1 DEF Switching, Pending, StateRight, Half

\* a write of the switching thread
LEMMA SwitchingWritten ==
  ASSUME NEW w, NEW st, NEW on, NEW off, NEW r, NEW S, NEW p, NEW x,
         Switching(w, st, on, off, r, S, p, x), ~ Holding(p, x)
  PROVE  /\ \A t \in Times : w = SwitchOn(t) => Switching(OnHalf, st, t, off, r, S, p, x)
         /\ w = OnHalf => Switching(OnEnd, st, on, MAX_TIMETICK, r, S, p, x)
         /\ w = OnEnd => Switching(<<>>, "Ready", on, off, r, S, p, x)
         /\ \A t \in Times : w = SwitchOff(t) => Switching(OffEnd, st, on, t, r, S, p, x)
         /\ w = OffEnd => Switching(<<>>, "Braking", on, off, r, S, p, x)
<1>0. ~ (p = "run" /\ x.a = "model")
  BY DEF Holding
<1>1. \A t \in Times : /\ <<>> # SwitchOn(t) /\ <<>> # SwitchOff(t)
                       /\ OnHalf # SwitchOn(t) /\ OnHalf # SwitchOff(t)
                       /\ OnEnd # SwitchOn(t) /\ OnEnd # SwitchOff(t)
                       /\ OffEnd # SwitchOn(t) /\ OffEnd # SwitchOff(t)
  BY StagesApart DEF Half
<1>2. /\ OnHalf # OnEnd /\ OnHalf # OffEnd /\ OnEnd # OffEnd
      /\ <<>> # OnHalf /\ <<>> # OnEnd /\ <<>> # OffEnd /\ {OnHalf, OnEnd, OffEnd} = Half
  BY StagesApart DEF Half
<1>3. \A t \in Times : Switching(OnHalf, st, t, off, r, S, p, x)
  BY <1>1, <1>2 DEF Switching, Pending
<1>4. Switching(OnEnd, st, on, MAX_TIMETICK, r, S, p, x)
  BY <1>1, <1>2 DEF Switching, Pending
<1>5. ASSUME w = OnEnd PROVE Switching(<<>>, "Ready", on, off, r, S, p, x)
  <2>1. off = MAX_TIMETICK
    BY <1>5 DEF Switching, Pending
  <2> QED BY <1>0, <1>1, <1>2, <2>1 DEF Switching, Pending, StateRight
<1>6. ASSUME NEW t \in Times, w = SwitchOff(t)
      PROVE  Switching(OffEnd, st, on, t, r, S, p, x)
  <2>1. \A z \in S : z.e <= t
    BY <1>6 DEF Switching, Pending
  <2> QED BY <1>1, <1>2, <2>1 DEF Switching, Pending
<1>7. Switching(<<>>, "Braking", on, off, r, S, p, x)
  BY <1>0, <1>1, <1>2 DEF Switching, Pending, StateRight
<1> QED BY <1>3, <1>4, <1>5, <1>6, <1>7

-----------------------------------------------------------------------------
(* The periods in which "model" is on.                                     *)

\* no two calls one after the other are the same; all switch on
Alternate(cs) == \A i \in DOMAIN cs : i + 1 \in DOMAIN cs => cs[i][1] # cs[i + 1][1]
OnlyOn(cs) == \A i \in DOMAIN cs : cs[i][1] = "switchOn"

\* The circumstances: switchOn() and switchOff() are called in turn, and the
\* callback does not throw; or there are only calls of switchOn().
InTurn ==
  /\ ~ setting.throws /\ Alternate(setting.calls)
  /\ setting.calls # <<>> => setting.calls[1][1] = "switchOn"
NeverOff == OnlyOn(setting.calls)
Regular == "apart" \in setting.calm /\ (InTurn \/ NeverOff)

\* the call that is under way or comes next
OnNext(todo, w)  == w \in OnStages \/ (w = <<>> /\ todo # <<>> /\ todo[1][1] = "switchOn")
OffNext(todo, w) == w \in OffStages \/ (w = <<>> /\ todo # <<>> /\ todo[1][1] = "switchOff")

Covered(x, P) == \E p \in P : p[1] <= x.s /\ x.s <= x.e /\ x.e <= p[2]

\* Switching in turn: all items are within the periods.
Turn(todo, w, st, on, off, P, S) ==
  /\ Alternate(todo)
  /\ w \in OnStages /\ todo # <<>> => todo[1][1] = "switchOff"
  /\ w \in OffStages /\ todo # <<>> => todo[1][1] = "switchOn"
  /\ OffNext(todo, w) => << on, MAX_TIMETICK >> \in P
  /\ OnNext(todo, w) => \A p \in P : p[2] # MAX_TIMETICK
  /\ w \notin Half => /\ st \in {"Ready", "Running"} => << on, MAX_TIMETICK >> \in P
                      /\ st = "Braking" => << on, off >> \in P
  /\ \A z \in S : Covered(z, P)

\* Only switching on: what gets to run is of this time.
Ons(todo, w, st, on, off, P, p, x) ==
  /\ OnlyOn(todo) /\ w \notin OffStages
  /\ w \notin Half => /\ st \in {"Ready", "Running"} => << on, MAX_TIMETICK >> \in P
                      /\ st \in {"Braking", "Last"} => off = 0
  /\ x.a = "model" =>
       /\ p = "last" => off = 0
       /\ p = "call" => off = 0 \/ (st \in {"Ready", "Running"} /\ x.s >= on)

LEMMA StagesSplit ==
  /\ <<>> \notin OnStages \cup OffStages /\ OnStages \cap OffStages = {}
  /\ {OnHalf, OnEnd} \subseteq OnStages /\ OffEnd \in OffStages
  /\ \A t \in Times : SwitchOn(t) \in OnStages /\ SwitchOff(t) \in OffStages
  /\ Half = {OnHalf, OnEnd, OffEnd} /\ <<>> \notin Half
BY StagesApart DEF OnStages, OffStages, Half

LEMMA TurnWritten ==
  ASSUME NEW todo, NEW w, NEW st, NEW on, NEW off, NEW P, NEW S,
         Turn(todo, w, st, on, off, P, S),
         w = OffEnd => off \in Times /\ \A z \in S : z.e <= off
  PROVE  /\ \A t \in Times : w = SwitchOn(t) => Turn(todo, OnHalf, st, t, off, P, S)
         /\ w = OnHalf => Turn(todo, OnEnd, st, on, MAX_TIMETICK, P, S)
         /\ w = OnEnd => Turn(todo, <<>>, "Ready", on, off, Opened(P, on), S)
         /\ \A t \in Times : w = SwitchOff(t) => Turn(todo, OffEnd, st, on, t, P, S)
         /\ w = OffEnd => Turn(todo, <<>>, "Braking", on, off, Closed(P, off), S)
<1>1. ASSUME w \in OnStages
      PROVE  /\ Alternate(todo) /\ (todo # <<>> => todo[1][1] = "switchOff")
             /\ (\A p \in P : p[2] # MAX_TIMETICK) /\ (\A z \in S : Covered(z, P))
  BY <1>1 DEF Turn, OnNext
<1>2. ASSUME w \in OffStages
      PROVE  /\ Alternate(todo) /\ (todo # <<>> => todo[1][1] = "switchOn")
             /\ << on, MAX_TIMETICK >> \in P /\ \A z \in S : Covered(z, P)
  BY <1>2 DEF Turn, OffNext
<1>3. ASSUME NEW t \in Times, w = SwitchOn(t) PROVE Turn(todo, OnHalf, st, t, off, P, S)
  BY <1>1, <1>3, StagesSplit DEF Turn, OnNext, OffNext
<1>4. ASSUME w = OnHalf PROVE Turn(todo, OnEnd, st, on, MAX_TIMETICK, P, S)
  BY <1>1, <1>4, StagesSplit DEF Turn, OnNext, OffNext
<1>5. ASSUME w = OnEnd PROVE Turn(todo, <<>>, "Ready", on, off, Opened(P, on), S)
  <2>1. P \subseteq Opened(P, on) /\ << on, MAX_TIMETICK >> \in Opened(P, on)
    BY <1>1, <1>5, StagesSplit DEF Opened
  <2>2. \A z \in S : Covered(z, Opened(P, on))
    BY <1>1, <1>5, <2>1, StagesSplit DEF Covered
  <2>3. ~ OnNext(todo, <<>>) /\ Alternate(todo)
    BY <1>1, <1>5, StagesSplit DEF OnNext
  <2> QED BY <2>1, <2>2, <2>3, StagesSplit DEF Turn
<1>6. ASSUME NEW t \in Times, w = SwitchOff(t) PROVE Turn(todo, OffEnd, st, on, t, P, S)
  BY <1>2, <1>6, StagesSplit DEF Turn, OnNext, OffNext
<1>7. ASSUME w = OffEnd PROVE Turn(todo, <<>>, "Braking", on, off, Closed(P, off), S)
  <2>1. /\ Alternate(todo) /\ (todo # <<>> => todo[1][1] = "switchOn")
        /\ << on, MAX_TIMETICK >> \in P /\ \A z \in S : Covered(z, P)
    BY <1>2, <1>7, StagesSplit
  <2>2. off \in Times /\ off # MAX_TIMETICK /\ \A z \in S : z.e <= off
    BY <1>7, Sizes DEF Times
  <2>3. \A p \in P : p[2] = MAX_TIMETICK => << p[1], off >> \in Closed(P, off)
    BY DEF Closed
  <2>4. << on, off >> \in Closed(P, off)
    <3>1. PICK p : p = << on, MAX_TIMETICK >>
      OBVIOUS
    <3>2. p[1] = on /\ p[2] = MAX_TIMETICK /\ p \in P
      BY <2>1, <3>1
    <3> QED BY <2>3, <3>2
  <2>5. \A p \in Closed(P, off) : p[2] # MAX_TIMETICK
    <3> TAKE p \in Closed(P, off)
    <3>1. p[2] # MAX_TIMETICK \/ \E a : p = << a, off >>
      BY DEF Closed
    <3> QED BY <2>2, <3>1
  <2>6. ASSUME NEW z \in S PROVE Covered(z, Closed(P, off))
    <3>1. PICK p \in P : p[1] <= z.s /\ z.s <= z.e /\ z.e <= p[2]
      BY <2>1 DEF Covered
    <3>2. CASE p[2] # MAX_TIMETICK
      <4>1. p \in Closed(P, off)
        BY <3>2 DEF Closed
      <4> QED BY <3>1, <4>1 DEF Covered
    <3>3. CASE p[2] = MAX_TIMETICK
      <4>1. PICK o : o = << p[1], off >>
        OBVIOUS
      <4>2. o \in Closed(P, off) /\ o[1] = p[1] /\ o[2] = off
        BY <2>3, <3>3, <4>1
      <4> QED BY <2>2, <3>1, <4>2 DEF Covered
    <3> QED BY <3>2, <3>3
  <2>7. ~ OffNext(todo, <<>>)
    BY <2>1, StagesSplit DEF OffNext
  <2> QED BY <2>1, <2>4, <2>5, <2>6, <2>7, StagesSplit DEF Turn
<1> QED BY <1>3, <1>4, <1>5, <1>6, <1>7

LEMMA OnsWritten ==
  ASSUME NEW todo, NEW w, NEW st, NEW on, NEW off, NEW P, NEW p, NEW x,
         Ons(todo, w, st, on, off, P, p, x), ~ Holding(p, x)
  PROVE  /\ \A t \in Times : w = SwitchOn(t) => Ons(todo, OnHalf, st, t, off, P, p, x)
         /\ w = OnHalf => Ons(todo, OnEnd, st, on, MAX_TIMETICK, P, p, x)
         /\ w = OnEnd => Ons(todo, <<>>, "Ready", on, off, Opened(P, on), p, x)
         /\ \A t \in Times : w # SwitchOff(t)
         /\ w # OffEnd
<1>1. w \notin OffStages /\ OnlyOn(todo) /\ ~ (x.a = "model" /\ p \in {"last", "call"})
  BY DEF Ons, Holding
<1>2. << on, MAX_TIMETICK >> \in Opened(P, on)
  BY DEF Opened
<1>3. \A t \in Times : Ons(todo, OnHalf, st, t, off, P, p, x)
  BY <1>1, StagesSplit DEF Ons
<1>4. Ons(todo, OnEnd, st, on, MAX_TIMETICK, P, p, x)
  BY <1>1, StagesSplit DEF Ons
<1>5. Ons(todo, <<>>, "Ready", on, off, Opened(P, on), p, x)
  BY <1>1, <1>2, StagesSplit DEF Ons
<1> QED BY <1>1, <1>3, <1>4, <1>5, StagesSplit

\* the next call begins
LEMMA CallBegins ==
  ASSUME NEW todo \in Seq(Calls \X Times), NEW st, NEW on, NEW off, NEW P, NEW S, NEW p, NEW x,
         todo # <<>>, NEW c, c = Head(todo),
         NEW w, w = (IF c[1] = "switchOn" THEN SwitchOn(c[2]) ELSE SwitchOff(c[2]))
  PROVE  /\ Turn(todo, <<>>, st, on, off, P, S) => Turn(Tail(todo), w, st, on, off, P, S)
         /\ Ons(todo, <<>>, st, on, off, P, p, x) => Ons(Tail(todo), w, st, on, off, P, p, x)
<1>1. /\ c \in Calls \X Times /\ c = todo[1] /\ DOMAIN todo = 1 .. Len(todo) /\ Len(todo) \in Nat
      /\ Len(todo) > 0 /\ DOMAIN Tail(todo) = 1 .. (Len(todo) - 1)
      /\ \A i \in 1 .. (Len(todo) - 1) : Tail(todo)[i] = todo[i + 1]
      /\ Tail(todo) \in Seq(Calls \X Times)
  BY HeadTail
<1>2. c[1] \in {"switchOn", "switchOff"} /\ c[2] \in Times
  BY <1>1 DEF Calls
<1>3. PICK rest : rest = Tail(todo)
  OBVIOUS
<1>4. rest # <<>> => 2 \in DOMAIN todo /\ rest[1] = todo[2]
  BY <1>1, <1>3
<1>5. Alternate(todo) => Alternate(rest) /\ (rest # <<>> => rest[1][1] # c[1])
  <2> SUFFICES ASSUME Alternate(todo) PROVE Alternate(rest) /\ (rest # <<>> => rest[1][1] # c[1])
    OBVIOUS
  <2>1. rest # <<>> => rest[1][1] # c[1]
    <3>1. \A i, j \in DOMAIN todo : j = i + 1 => todo[i][1] # todo[j][1]
      BY DEF Alternate
    <3>2. 1 \in DOMAIN todo /\ 2 = 1 + 1
      BY <1>1
    <3> QED BY <1>1, <1>4, <3>1, <3>2
  <2>2. ASSUME NEW i \in DOMAIN rest, i + 1 \in DOMAIN rest
        PROVE  rest[i][1] # rest[i + 1][1]
    <3>1. i + 1 \in DOMAIN todo /\ (i + 1) + 1 \in DOMAIN todo
      BY <1>1, <1>3, <2>2
    <3>2. rest[i] = todo[i + 1] /\ rest[i + 1] = todo[(i + 1) + 1]
      BY <1>1, <1>3, <2>2
    <3> QED BY <3>1, <3>2 DEF Alternate
  <2> QED BY <2>1, <2>2 DEF Alternate
<1>6. OnlyOn(todo) => OnlyOn(rest) /\ c[1] = "switchOn"
  BY <1>1, <1>3 DEF OnlyOn
<1>7. rest # <<>> => rest[1][1] \in {"switchOn", "switchOff"}
  <2> SUFFICES ASSUME rest # <<>> PROVE rest[1][1] \in {"switchOn", "switchOff"}
    OBVIOUS
  <2>1. rest[1] \in Calls \X Times
    BY <1>1, <1>3
  <2> QED BY <2>1 DEF Calls
<1>8. /\ c[1] = "switchOn" => w \in OnStages /\ w \notin Half \cup OffStages \cup {<<>>}
      /\ c[1] = "switchOff" => w \in OffStages /\ w \notin Half \cup OnStages \cup {<<>>}
  BY <1>2, StagesSplit, StagesApart
<1>9. ASSUME Turn(todo, <<>>, st, on, off, P, S) PROVE Turn(rest, w, st, on, off, P, S)
  <2>1. CASE c[1] = "switchOn"
    <3>1. \A q \in P : q[2] # MAX_TIMETICK
      BY <1>1, <1>9, <2>1 DEF Turn, OnNext
    <3> QED BY <1>5, <1>7, <1>8, <1>9, <2>1, <3>1, StagesSplit DEF Turn, OnNext, OffNext
  <2>2. CASE c[1] = "switchOff"
    <3>1. << on, MAX_TIMETICK >> \in P
      BY <1>1, <1>9, <2>2 DEF Turn, OffNext
    <3> QED BY <1>5, <1>7, <1>8, <1>9, <2>2, <3>1, StagesSplit DEF Turn, OnNext, OffNext
  <2> QED BY <1>2, <2>1, <2>2
<1>10. ASSUME Ons(todo, <<>>, st, on, off, P, p, x) PROVE Ons(rest, w, st, on, off, P, p, x)
  <2>1. OnlyOn(rest) /\ w \notin OffStages
    BY <1>6, <1>8, <1>10 DEF Ons
  <2> QED BY <1>10, <2>1, StagesSplit DEF Ons
<1> QED BY <1>3, <1>9, <1>10

-----------------------------------------------------------------------------
(* The invariant, and the steps.                                           *)

LiveNow == Live(pc[1], to_do[1], list[1])

MovesNow == Moves(clock, triggerq[1], list[1], pc[1], to_do[1], switch_on["model"], ran)

SwitchingNow == Switching(calls.writes, run_state["model"], switch_on["model"],
                          switch_off["model"], ran, LiveNow, pc[1], to_do[1])

TurnNow == Turn(calls.todo, calls.writes, run_state["model"], switch_on["model"],
                switch_off["model"], periods, LiveNow)

OnsNow == Ons(calls.todo, calls.writes, run_state["model"], switch_on["model"],
              switch_off["model"], periods, pc[1], to_do[1])

RunInv == MovesNow /\ SwitchingNow /\ (InTurn => TurnNow) /\ (NeverOff => OnsNow) /\ ~ astray

LEMMA SortedNow ==
  ASSUME TypeInv
  PROVE  /\ Sorted(clock, triggerq[1], list[1], to_do[1], switch_on["model"])
         /\ switch_on["model"] \in Nat /\ switch_off["model"] \in Nat
         /\ "model" \in Activities /\ 1 \in Managers /\ 0 \in Managers
         /\ to_do[1] \in Items /\ to_do[1].s \in Nat /\ to_do[1].e \in Nat
<1>1. "model" \in Activities /\ 1 \in Managers /\ 0 \in Managers
  BY DEF Activities, Managers
<1>2. switch_on["model"] \in Ticks /\ switch_off["model"] \in Ticks
  BY <1>1 DEF TypeInv, SwitchInv
<1>3. /\ triggerq[1] \in Seq(ItemsOf(1)) /\ list[1] \in Seq(ItemsOf(1)) /\ to_do[1] \in Items
      /\ clock \in 0 .. MaxTick /\ Whole(clock)
  BY <1>1 DEF TypeInv, QueuesInv, TimeInv
<1>4. to_do[1].s \in Nat /\ to_do[1].e \in Nat
  BY <1>3, Sizes DEF Items, Ticks
<1> QED BY <1>1, <1>2, <1>3, <1>4, Sizes DEF Sorted, Ticks

LEMMA RunInit == Init /\ Regular => RunInv
<1> SUFFICES ASSUME Init, Regular PROVE RunInv
  OBVIOUS
<1>1. /\ clock = 0 /\ triggerq[1] = <<>> /\ list[1] = <<>> /\ pc[1] = "begin" /\ ran = 0
      /\ run_state["model"] = "Off" /\ switch_on["model"] = MAX_TIMETICK
      /\ switch_off["model"] = 0 /\ calls = [todo |-> setting.calls, writes |-> <<>>]
      /\ periods = {} /\ astray = FALSE
  BY DEF Init, Managers, Activities
<1>2. calls.writes = <<>> /\ calls.todo = setting.calls
  BY <1>1
<1>3. ModelsAt(<<>>) = {} /\ Models(<<>>) = {}
  BY DEF ModelsAt, Models
<1>4. /\ ~ Active("begin", to_do[1]) /\ ~ Holding("begin", to_do[1]) /\ ~ Ran("begin", to_do[1])
      /\ LiveNow = {}
  BY <1>1, <1>3 DEF Active, Holding, Ran, LiveNow, Live
<1>5. MovesNow
  BY <1>1, <1>3, <1>4 DEF MovesNow, Moves, Ordered, AtomsOrdered, LiveNow
<1>6. SwitchingNow
  BY <1>1, <1>2, <1>4, StagesApart DEF SwitchingNow, Switching, Pending, StateRight, Half
<1>7. InTurn => TurnNow
  BY <1>1, <1>2, <1>4, StagesSplit DEF TurnNow, Turn, InTurn, OnNext, OffNext
<1>8. NeverOff => OnsNow
  BY <1>1, <1>2, StagesSplit DEF OnsNow, Ons, NeverOff
<1> QED BY <1>1, <1>5, <1>6, <1>7, <1>8 DEF RunInv

\* where manager 1 is busy with an item
Acts == {"despatch", "last", "call", "called", "run"}

\* the circumstances do not change
LEMMA SettingStays ==
  ASSUME setting' = setting
  PROVE  (InTurn' <=> InTurn) /\ (NeverOff' <=> NeverOff) /\ (Regular' <=> Regular)
BY DEF InTurn, NeverOff, Regular

\* no atom for "model" comes or goes
AtomsKept ==
  \/ triggerq'[1] = triggerq[1]
  \/ \E y \in ItemsOf(1) : y.a # "model" /\ triggerq'[1] = Append(triggerq[1], y)

\* what concerns "model" stays as it is
Frame ==
  /\ setting' = setting /\ clock' = clock /\ AtomsKept /\ list'[1] = list[1]
  /\ to_do'[1] = to_do[1] /\ switch_on'["model"] = switch_on["model"]
  /\ switch_off'["model"] = switch_off["model"] /\ run_state'["model"] = run_state["model"]
  /\ calls' = calls /\ ran' = ran /\ periods' = periods /\ (astray' => astray)

\* manager 1 goes on, and leaves off with the item if it had one
LEMMA Goes ==
  ASSUME TypeInv, RunInv, Frame, pc'[1] = pc[1] \/ pc'[1] \notin Acts \/ to_do[1].a # "model"
  PROVE  RunInv'
<1> DEFINE p == pc[1]
           s == pc'[1]
           x == to_do[1]
<1>1. /\ Active(s, x) => Active(p, x) /\ s = p
      /\ Holding(s, x) => Holding(p, x)
      /\ Ran(s, x) => Ran(p, x)
      /\ s = "run" /\ x.a = "model" => p = "run"
      /\ s \in {"last", "call"} /\ x.a = "model" => p = s
  BY DEF Active, Holding, Ran, Acts
<1>2. /\ Moves(clock, triggerq[1], list[1], s, x, switch_on["model"], ran)
      /\ Live(s, x, list[1]) \subseteq LiveNow
  BY <1>1, MovesOn DEF RunInv, MovesNow, LiveNow
<1>3. Switching(calls.writes, run_state["model"], switch_on["model"], switch_off["model"], ran,
                Live(s, x, list[1]), s, x)
  BY <1>1, <1>2, SwitchingOn DEF RunInv, SwitchingNow
<1>4. InTurn => Turn(calls.todo, calls.writes, run_state["model"], switch_on["model"],
                     switch_off["model"], periods, Live(s, x, list[1]))
  BY <1>2 DEF RunInv, TurnNow, Turn
<1>5. NeverOff => Ons(calls.todo, calls.writes, run_state["model"], switch_on["model"],
                      switch_off["model"], periods, s, x)
  BY <1>1 DEF RunInv, OnsNow, Ons
<1>6. LiveNow' = Live(s, x, list[1])
  BY DEF LiveNow, Frame
<1>7. MovesNow'
  <2>1. Moves(clock, triggerq'[1], list[1], s, x, switch_on["model"], ran)
    BY <1>2, SortedNow, MovesOther DEF Frame, AtomsKept
  <2> QED BY <2>1 DEF MovesNow, Frame, history
<1>8. SwitchingNow'
  BY <1>3, <1>6 DEF SwitchingNow, Frame, history
<1>9. InTurn' => TurnNow'
  BY <1>4, <1>6, SettingStays DEF TurnNow, Frame, history
<1>10. NeverOff' => OnsNow'
  BY <1>5, SettingStays DEF OnsNow, Frame, history
<1>11. ~ astray'
  BY DEF RunInv, Frame, history
<1> QED BY <1>7, <1>8, <1>9, <1>10, <1>11 DEF RunInv

\* the parts of the invariant that do not look at queues and times
LEMMA RestStays ==
  ASSUME RunInv, setting' = setting, LiveNow' = LiveNow, pc'[1] = pc[1], to_do'[1] = to_do[1],
         UNCHANGED <<actVars, calls, history>>, MovesNow'
  PROVE  RunInv'
<1>1. SwitchingNow'
  BY DEF SwitchingNow, RunInv, actVars, history
<1>2. InTurn' => TurnNow'
  BY SettingStays DEF TurnNow, RunInv, actVars, history
<1>3. NeverOff' => OnsNow'
  BY SettingStays DEF OnsNow, RunInv, actVars, history
<1> QED BY <1>1, <1>2, <1>3 DEF RunInv, history

LEMMA StepTick ==
  ASSUME TypeInv, RunInv, Tick, setting' = setting
  PROVE  RunInv'
<1>1. PICK s : /\ s = IF clock < MaxTick THEN clock ELSE Repeated
               /\ clock' = s + Period
               /\ triggerq' = [triggerq EXCEPT ![1] = Append(@, Item("model", s, s + Period))]
               /\ list' = list /\ to_do' = to_do /\ UNCHANGED <<actVars, calls, history>>
               /\ pc' = Signalled({0})
  BY DEF Tick, Pulled, ManagerOf, Kick, Repeated
<1>2. PICK y : y = Item("model", s, s + Period)
  OBVIOUS
<1>3. s \in Nat /\ s <= MaxTick /\ s + Period <= MaxTick
  <2>1. CASE clock < MaxTick
    BY <1>1, <2>1, WholeApart, TimesWhole DEF TypeInv, TimeInv
  <2>2. CASE ~ (clock < MaxTick)
    BY <1>1, <2>2, RepeatedWhole, Sizes DEF Repeated
  <2> QED BY <2>1, <2>2
<1>4. y \in ItemsOf(1) /\ y.a = "model" /\ y.s = s /\ y.e = s + Period
  BY <1>2, <1>3, Sizes DEF Item, ItemsOf, Items, Activities, Ticks, ManagerOf
<1>5. pc'[1] = pc[1]
  BY <1>1 DEF Signalled, Managers
<1>6. triggerq'[1] = Append(triggerq[1], y)
  BY <1>1, <1>2 DEF TypeInv, QueuesInv, Managers
<1>7. Moves(s + Period, Append(triggerq[1], y), list[1], pc[1], to_do[1], switch_on["model"], ran)
  BY <1>1, <1>4, SortedNow, MovesTick DEF RunInv, MovesNow
<1>8. MovesNow'
  BY <1>1, <1>5, <1>6, <1>7 DEF MovesNow, actVars, history
<1>9. LiveNow' = LiveNow
  BY <1>1, <1>5 DEF LiveNow
<1> QED BY <1>1, <1>5, <1>8, <1>9, RestStays

\* what trigger() makes of an atom that it accepts
LEMMA AcceptedSpan ==
  ASSUME TypeInv, RunInv, NEW y, NEW z, triggerq[1] # <<>>, y = Head(triggerq[1]),
         y \in Items, y.a = "model", Accepts(y), calls.writes = <<>>, z = TrimToRunPeriod(y)
  PROVE  /\ z.s = (IF y.s >= switch_on["model"] THEN y.s ELSE switch_on["model"])
         /\ z.s < z.e /\ z.e <= y.e /\ z.e <= switch_off["model"]
         /\ run_state["model"] \in {"Ready", "Running", "Braking"}
         /\ run_state["model"] = "Braking" => switch_off["model"] > switch_on["model"]
<1>1. PICK on, off, st : /\ on = switch_on["model"] /\ off = switch_off["model"]
                         /\ st = run_state["model"]
  OBVIOUS
<1>2. /\ z.s = IF y.s >= on THEN y.s ELSE on
      /\ z.e = IF y.e <= off THEN y.e ELSE off
  BY <1>1, TrimIs DEF TypeInv
<1>3. on \in Nat /\ off \in Nat
  BY <1>1, SortedNow
<1>4. y \in Models(triggerq[1])
  BY SortedNow, TailModels DEF Sorted
<1>5. /\ y.s \in Nat /\ y.e \in Nat /\ AtomRight(y, clock, ran) /\ ran \in Nat /\ ran <= clock
      /\ clock \in Nat /\ clock <= MaxTick
  BY <1>4, SortedNow, ModelsTyped, Sizes DEF RunInv, MovesNow, Moves, Sorted
<1>6. y.s < y.e /\ y.e <= clock
  BY <1>5, Sizes DEF AtomRight
<1>7. StateRight(st, on, off, ran, LiveNow, pc[1], to_do[1])
  BY <1>1, StagesApart DEF RunInv, SwitchingNow, Switching
<1>8. CASE st = "Running"
  <2>1. on < ran /\ off = MAX_TIMETICK
    BY <1>7, <1>8 DEF StateRight
  <2>2. y.e <= off
    BY <1>5, <1>6, <2>1, Sizes
  <2>3. on < y.e
    <3>1. CASE ran <= y.s
      BY <1>3, <1>5, <1>6, <2>1, <3>1
    <3>2. CASE y.s >= Repeated
      <4>1. y.e >= MaxTick
        BY <1>5, <3>2, Sizes DEF AtomRight, Repeated
      <4> QED BY <1>3, <1>5, <2>1, <4>1, Sizes
    <3> QED BY <1>5, <3>1, <3>2 DEF AtomRight, Before
  <2> QED BY <1>1, <1>2, <1>3, <1>5, <1>6, <1>8, <2>2, <2>3
<1>9. CASE st \in {"Ready", "Braking"} /\ st # "Running"
  <2>1. IsInRunPeriod(y)
    BY <1>1, <1>9 DEF Accepts
  <2>2. off > on /\ y.s < off /\ y.e > on
    BY <1>1, <1>5, <1>6, <2>1 DEF IsInRunPeriod
  <2> QED BY <1>1, <1>2, <1>3, <1>5, <1>6, <1>9, <2>2
<1> QED BY <1>1, <1>8, <1>9 DEF Accepts

\* all items of "model" in the list are as important as the new one
LEMMA BehindAll ==
  ASSUME TypeInv, RunInv, NEW y, NEW z, NEW k,
         triggerq[1] # <<>>, y = Head(triggerq[1]), y.a = "model",
         z.a = "model", z.s \in Nat,
         z.s = (IF y.s >= switch_on["model"] THEN y.s ELSE switch_on["model"]),
         \A j \in DOMAIN list[1] : ~Less(list[1][j], z) => j <= k
  PROVE  \A j \in ModelsAt(list[1]) : j <= k
<1> SUFFICES ASSUME NEW j \in ModelsAt(list[1]) PROVE ~Less(list[1][j], z)
  BY DEF ModelsAt
<1>1. PICK x : x = list[1][j]
  OBVIOUS
<1>2. x \in Models(list[1]) /\ x \in LiveNow /\ y \in Models(triggerq[1])
  BY <1>1, SortedNow, TailModels DEF Models, LiveNow, Live, Sorted
<1>3. x.s \in Nat /\ x.a = "model" /\ y.s \in Nat
  BY <1>2, SortedNow, ModelsTyped DEF Sorted
<1>4. x.s <= y.s \/ x.s <= switch_on["model"]
  BY <1>2 DEF RunInv, MovesNow, Moves, ItemRight, LiveNow
<1>5. switch_on["model"] \in Nat /\ time_weight \in Nat
  BY SortedNow, Sizes
<1>6. z.s - x.s \in Nat
  BY <1>3, <1>4, <1>5
<1>7. time_weight * (z.s - x.s) \in Nat
  BY <1>5, <1>6
<1>8. setting.order["model"] \in Nat
  BY SettingIs, SortedNow DEF TypeInv, TimeInv
<1> QED BY <1>1, <1>3, <1>7, <1>8 DEF Less

LEMMA StepAtom ==
  ASSUME TypeInv, Regular, RunInv, Propagate(1), triggerq[1] # <<>>, setting' = setting
  PROVE  RunInv'
<1>1. PICK y : y = Head(triggerq[1])
  OBVIOUS
<1>2. PICK q, l, x, on : /\ q = triggerq[1] /\ l = list[1] /\ x = to_do[1]
                         /\ on = switch_on["model"]
  OBVIOUS
<1>3. /\ Sorted(clock, q, l, x, on) /\ q # <<>> /\ y = Head(q)
      /\ Moves(clock, q, l, pc[1], x, on, ran)
  BY <1>1, <1>2, SortedNow DEF RunInv, MovesNow
<1>4. /\ clock' = clock /\ to_do' = to_do /\ UNCHANGED <<actVars, calls, history>>
  BY DEF Propagate
<1>5. /\ y \in ItemsOf(1) /\ NotWhileSwitching(y) /\ pc' = pc
      /\ triggerq' = [triggerq EXCEPT ![1] = Tail(triggerq[1])]
      /\ \/ list' = list
         \/ /\ Accepts(y) /\ TrimToRunPeriod(y) \in ItemsOf(1)
            /\ \E k \in 0 .. Len(list[1]) :
                 /\ list' = [list EXCEPT ![1] = Insert(list[1], k, TrimToRunPeriod(y))]
                 /\ \A j \in DOMAIN list[1] : ~Less(list[1][j], TrimToRunPeriod(y)) => j <= k
  BY <1>1, SortedNow, PropagateIs
<1>6. triggerq'[1] = Tail(q)
  BY <1>2, <1>5, SortedNow DEF TypeInv, QueuesInv
<1>7. Moves(clock, Tail(q), l, pc[1], x, on, ran)
  BY <1>3, MovesTaken
<1>8. CASE list' = list
  <2>1. MovesNow'
    BY <1>2, <1>4, <1>5, <1>6, <1>7, <1>8 DEF MovesNow, actVars, history
  <2>2. LiveNow' = LiveNow
    BY <1>4, <1>5, <1>8 DEF LiveNow
  <2> QED BY <1>4, <1>5, <2>1, <2>2, RestStays
<1>9. CASE list' # list
  <2>1. PICK z \in ItemsOf(1), k \in 0 .. Len(l) :
          /\ z = TrimToRunPeriod(y) /\ Accepts(y) /\ list'[1] = Insert(l, k, z)
          /\ \A j \in DOMAIN l : ~Less(l[j], z) => j <= k
    BY <1>2, <1>5, <1>9, SortedNow DEF TypeInv, QueuesInv
  <2>2. y \in Items /\ z.a = y.a
    BY <1>5, <2>1, TrimIs DEF ItemsOf, TypeInv
  <2>3. CASE y.a # "model"
    <3>1. Sorted(clock, Tail(q), l, x, on)
      BY <1>3, HeadTail DEF Sorted
    <3>2. Moves(clock, Tail(q), Insert(l, k, z), pc[1], x, on, ran)
      BY <1>7, <2>2, <2>3, <3>1, MovesOther
    <3>3. MovesNow'
      BY <1>2, <1>4, <1>5, <1>6, <2>1, <3>2 DEF MovesNow, actVars, history
    <3>4. Models(Insert(l, k, z)) = Models(l)
      BY <1>3, <2>2, <2>3, InsertModels DEF Sorted
    <3>5. LiveNow' = LiveNow
      BY <1>2, <1>4, <1>5, <2>1, <3>4 DEF LiveNow, Live
    <3> QED BY <1>4, <1>5, <3>3, <3>5, RestStays
  <2>4. CASE y.a = "model"
    <3>1. calls.writes = <<>>
      BY <1>5, <2>4 DEF NotWhileSwitching, Regular
    <3>2. /\ z.s = IF y.s >= on THEN y.s ELSE on
          /\ z.s < z.e /\ z.e <= y.e /\ z.e <= switch_off["model"]
          /\ run_state["model"] \in {"Ready", "Running", "Braking"}
          /\ run_state["model"] = "Braking" => switch_off["model"] > on
      BY <1>1, <1>2, <2>1, <2>2, <2>4, <3>1, AcceptedSpan
    <3>3. z.s \in Nat /\ z.e \in Nat /\ y.s \in Nat /\ on \in Nat
      BY <1>2, <2>1, <2>2, SortedNow, Sizes DEF ItemsOf, Items, Ticks
    <3>4. \A j \in ModelsAt(l) : j <= k
      BY <1>1, <1>2, <2>1, <2>2, <2>4, <3>2, <3>3, BehindAll
    <3>5. Moves(clock, Tail(q), Insert(l, k, z), pc[1], x, on, ran)
      BY <1>3, <2>1, <2>2, <2>4, <3>2, <3>4, MovesAccepted
    <3>6. MovesNow'
      BY <1>2, <1>4, <1>5, <1>6, <2>1, <3>5 DEF MovesNow, actVars, history
    <3>7. Models(Insert(l, k, z)) = Models(l) \cup {z}
      BY <1>3, <2>2, <2>4, InsertModels DEF Sorted
    <3>8. LiveNow' = LiveNow \cup {z}
      BY <1>2, <1>4, <1>5, <2>1, <3>7 DEF LiveNow, Live
    <3>9. z.s >= on
      BY <3>2, <3>3
    <3>10. Switching(<<>>, run_state["model"], on, switch_off["model"], ran, LiveNow \cup {z},
                     pc[1], x)
      BY <1>2, <3>1, <3>9, SwitchingMore DEF RunInv, SwitchingNow
    <3>11. SwitchingNow'
      BY <1>2, <1>4, <1>5, <3>1, <3>8, <3>10 DEF SwitchingNow, actVars, history
    <3>12. ASSUME InTurn PROVE TurnNow'
      <4>1. TurnNow
        BY <3>12 DEF RunInv
      <4>2. Covered(z, periods)
        <5>1. PICK o : /\ << on, o >> \in periods /\ z.e <= o
          <6>1. CASE run_state["model"] \in {"Ready", "Running"}
            <7>1. << on, MAX_TIMETICK >> \in periods
              BY <1>2, <3>1, <4>1, <6>1, StagesSplit DEF TurnNow, Turn
            <7>2. switch_off["model"] = MAX_TIMETICK
              BY <3>1, <6>1, StagesSplit DEF RunInv, SwitchingNow, Switching, StateRight
            <7> QED BY <3>2, <7>1, <7>2
          <6>2. CASE run_state["model"] = "Braking"
            <7>1. << on, switch_off["model"] >> \in periods
              BY <1>2, <3>1, <4>1, <6>2, StagesSplit DEF TurnNow, Turn
            <7> QED BY <3>2, <7>1
          <6> QED BY <3>2, <6>1, <6>2
        <5>2. PICK p : p = << on, o >>
          OBVIOUS
        <5>3. p \in periods /\ p[1] = on /\ p[2] = o
          BY <5>1, <5>2
        <5>4. p[1] <= z.s /\ z.s <= z.e /\ z.e <= p[2]
          BY <3>2, <3>3, <3>9, <5>1, <5>3
        <5> QED BY <5>3, <5>4 DEF Covered
      <4>3. Turn(calls.todo, calls.writes, run_state["model"], switch_on["model"],
                 switch_off["model"], periods, LiveNow \cup {z})
        BY <4>1, <4>2 DEF TurnNow, Turn
      <4> QED BY <1>4, <3>8, <4>3 DEF TurnNow, actVars, history
    <3>13. NeverOff => OnsNow'
      BY <1>4, <1>5 DEF OnsNow, RunInv, actVars, history
    <3> QED BY <1>4, <3>6, <3>11, <3>12, <3>13, SettingStays DEF RunInv, history
  <2> QED BY <2>3, <2>4
<1> QED BY <1>8, <1>9

\* manager 1 takes an item from the list
LEMMA StepPop ==
  ASSUME TypeInv, RunInv, Pop(1), list[1] # <<>>, setting' = setting,
         triggerq' = triggerq, clock' = clock, UNCHANGED <<actVars, calls, history>>
  PROVE  RunInv'
<1>1. PICK l, h, t : l = list[1] /\ h = Head(l) /\ t = Tail(l)
  OBVIOUS
<1>2. pc'[1] = "despatch" /\ list'[1] = t /\ to_do'[1] = h
  BY <1>1, SortedNow DEF Pop, TypeInv, QueuesInv, ThreadsThere
<1>3. /\ Moves(clock, triggerq[1], t, "despatch", h, switch_on["model"], ran)
      /\ Live("despatch", h, t) = Models(l)
  BY <1>1, SortedNow, MovesPopped DEF RunInv, MovesNow
<1>4. MovesNow'
  BY <1>2, <1>3 DEF MovesNow, actVars, history
<1>5. LiveNow' = Models(l) /\ Models(l) \subseteq LiveNow
  BY <1>1, <1>2, <1>3 DEF LiveNow, Live
<1>6. Switching(calls.writes, run_state["model"], switch_on["model"], switch_off["model"], ran,
                Models(l), "despatch", h)
  BY <1>5, SwitchingPopped DEF RunInv, SwitchingNow
<1>7. SwitchingNow'
  BY <1>2, <1>5, <1>6 DEF SwitchingNow, actVars, history
<1>8. InTurn => TurnNow'
  BY <1>5 DEF RunInv, TurnNow, Turn, actVars, history
<1>9. NeverOff => OnsNow'
  BY <1>2 DEF RunInv, OnsNow, Ons, actVars, history
<1> QED BY <1>4, <1>7, <1>8, <1>9, SettingStays DEF RunInv, history

\* despatch() looks at the state of "model"
LEMMA StepDespatch ==
  ASSUME TypeInv, Regular, RunInv, Despatch(1), to_do[1].a = "model", pc'[1] # "wake",
         setting' = setting
  PROVE  RunInv'
<1>1. PICK x, st, on, off : /\ x = to_do[1] /\ st = run_state["model"]
                            /\ on = switch_on["model"] /\ off = switch_off["model"]
  OBVIOUS
<1>2. pc[1] = "despatch" /\ x.a = "model" /\ calls.writes = <<>>
  BY <1>1 DEF Despatch, NotWhileSwitching, Regular
<1>3. /\ UNCHANGED <<actVars, calls, history>> /\ to_do' = to_do /\ list' = list
      /\ triggerq' = triggerq /\ clock' = clock
  BY DEF Despatch, timeVars
<1>4. /\ pc'[1] \in {"last", "call"} /\ st \notin {"Off", "Last"}
      /\ ~ (st = "Ready" /\ x.s < on /\ x.e <= on)
      /\ pc'[1] = "last" => st \in {"Ready", "Braking"} /\ x.e >= off
      /\ pc'[1] = "call" => ~ (st \in {"Ready", "Braking"} /\ x.e >= off)
  BY <1>1, SortedNow DEF Despatch, TypeInv, ThreadsThere
<1>5. /\ Active("despatch", x) /\ Active(pc'[1], x) /\ ~ Ran(pc'[1], x)
      /\ Live(pc'[1], x, list[1]) = LiveNow /\ x \in LiveNow
  BY <1>1, <1>2, <1>4 DEF Active, Ran, LiveNow, Live
<1>6. /\ x.s < x.e /\ Sided(x, on) /\ x.s \in Nat /\ x.e \in Nat /\ on \in Nat /\ off \in Nat
      /\ x.e <= clock /\ clock \in Nat /\ clock < MAX_TIMETICK
  BY <1>1, <1>5, SortedNow, Sizes DEF RunInv, MovesNow, Moves, ItemRight, LiveNow, Sorted
<1>7. StateRight(st, on, off, ran, LiveNow, pc[1], x)
  BY <1>1, <1>2, StagesApart DEF RunInv, SwitchingNow, Switching
<1>8. /\ st = "Ready" => x.e > on /\ x.s >= on
      /\ st = "Running" => x.s >= on
      /\ st \in {"Ready", "Running"} => off = MAX_TIMETICK /\ pc'[1] = "call"
  <2>1. st = "Ready" => x.e > on /\ x.s >= on
    BY <1>4, <1>6 DEF Sided, Old
  <2>2. st = "Running" => x.s >= on
    BY <1>5, <1>7 DEF StateRight
  <2>3. st \in {"Ready", "Running"} => off = MAX_TIMETICK
    BY <1>7 DEF StateRight
  <2>4. st \in {"Ready", "Running"} => pc'[1] # "last"
    BY <1>4, <1>6, <2>3, Sizes
  <2> QED BY <1>4, <2>1, <2>2, <2>3, <2>4
<1>9. MovesNow'
  <2>1. Moves(clock, triggerq[1], list[1], pc'[1], x, on, ran)
    BY <1>1, <1>2, <1>5, MovesOn DEF RunInv, MovesNow
  <2> QED BY <1>1, <1>3, <2>1 DEF MovesNow, actVars, history
<1>10. LiveNow' = LiveNow
  BY <1>1, <1>3, <1>5 DEF LiveNow
<1>11. SwitchingNow'
  <2>1. Pending(<<>>, off, LiveNow, pc'[1], x)
    BY StagesApart DEF Pending, Half
  <2>2. StateRight(st, on, off, ran, LiveNow, pc'[1], x)
    BY <1>4, <1>7, <1>8 DEF StateRight
  <2> QED BY <1>1, <1>2, <1>3, <1>10, <2>1, <2>2 DEF SwitchingNow, Switching, actVars, history
<1>12. InTurn => TurnNow'
  BY <1>3, <1>10 DEF RunInv, TurnNow, actVars, history
<1>13. ASSUME NeverOff PROVE OnsNow'
  <2>1. Ons(calls.todo, <<>>, st, on, off, periods, "despatch", x)
    BY <1>1, <1>2, <1>13 DEF RunInv, OnsNow
  <2>2. st \in {"Braking", "Last"} => off = 0
    BY <2>1, StagesSplit DEF Ons
  <2>3. st \in States
    BY <1>1, SortedNow DEF TypeInv, SwitchInv
  <2>4. st \in {"Ready", "Running", "Braking"}
    BY <1>4, <2>3 DEF States
  <2>5. Ons(calls.todo, <<>>, st, on, off, periods, pc'[1], x)
    BY <1>4, <1>8, <2>1, <2>2, <2>4 DEF Ons
  <2> QED BY <1>1, <1>2, <1>3, <2>5 DEF OnsNow, actVars, history
<1> QED BY <1>3, <1>9, <1>11, <1>12, <1>13, SettingStays DEF RunInv, history

\* run_state = Last
LEMMA StepLast ==
  ASSUME TypeInv, RunInv, SetLast(1), to_do[1].a = "model", setting' = setting
  PROVE  RunInv'
<1>1. PICK x, on, off : /\ x = to_do[1] /\ on = switch_on["model"] /\ off = switch_off["model"]
  OBVIOUS
<1>2. /\ pc[1] = "last" /\ pc'[1] = "call" /\ run_state'["model"] = "Last"
      /\ UNCHANGED <<switch_on, switch_off, calls, history, to_do, list, triggerq, clock>>
  BY SortedNow DEF SetLast, timeVars, TypeInv, SwitchInv, ThreadsThere
<1>3. /\ Active("last", x) /\ Active("call", x) /\ ~ Ran("call", x)
      /\ Holding("last", x) /\ Holding("call", x)
  BY <1>1 DEF Active, Ran, Holding
<1>4. LiveNow = Live("last", x, list[1]) /\ Live("call", x, list[1]) = LiveNow
  BY <1>1, <1>2, <1>3 DEF LiveNow, Live
<1>5. LiveNow' = LiveNow
  BY <1>1, <1>2, <1>4 DEF LiveNow
<1>6. MovesNow'
  <2>1. Moves(clock, triggerq[1], list[1], "call", x, on, ran)
    BY <1>1, <1>2, <1>3, MovesOn DEF RunInv, MovesNow
  <2> QED BY <1>1, <1>2, <2>1 DEF MovesNow, history
<1>7. Pending(calls.writes, off, LiveNow, "last", x) /\ calls.writes \notin Half
  BY <1>1, <1>2, <1>3 DEF RunInv, SwitchingNow, Switching, Pending
<1>8. Switching(calls.writes, "Last", on, off, ran, LiveNow, "call", x)
  BY <1>3, <1>7 DEF Switching, Pending, StateRight
<1>9. SwitchingNow'
  BY <1>1, <1>2, <1>5, <1>8 DEF SwitchingNow, history
<1>10. ASSUME InTurn PROVE TurnNow'
  <2>1. TurnNow
    BY <1>10 DEF RunInv
  <2>2. Turn(calls.todo, calls.writes, "Last", on, off, periods, LiveNow)
    BY <1>1, <2>1 DEF TurnNow, Turn
  <2> QED BY <1>1, <1>2, <1>5, <2>2 DEF TurnNow, history
<1>11. ASSUME NeverOff PROVE OnsNow'
  <2>1. OnsNow /\ off = 0
    BY <1>1, <1>2, <1>11 DEF RunInv, OnsNow, Ons
  <2>2. Ons(calls.todo, calls.writes, "Last", on, off, periods, "call", x)
    BY <1>1, <2>1 DEF OnsNow, Ons
  <2> QED BY <1>1, <1>2, <2>2 DEF OnsNow, history
<1> QED BY <1>2, <1>6, <1>9, <1>10, <1>11, SettingStays DEF RunInv, history

\* "model" runs within its periods, and forward
LEMMA RunsWell ==
  ASSUME TypeInv, Regular, RunInv, pc[1] = "call", to_do[1].a = "model", CallAllowed(to_do[1])
  PROVE  ~ Astray(to_do[1])
<1>1. PICK x, on, off, st : /\ x = to_do[1] /\ st = run_state["model"]
                            /\ on = switch_on["model"] /\ off = switch_off["model"]
  OBVIOUS
<1>2. Active("call", x) /\ x \in LiveNow /\ Holding("call", x)
  BY <1>1 DEF Active, Holding, LiveNow, Live
<1>3. /\ x.s < x.e /\ x.s \in Nat /\ x.e \in Nat /\ on \in Nat /\ off \in Nat
      /\ x.e <= clock /\ clock \in Nat /\ clock < MAX_TIMETICK /\ Fwd(ran, x.e)
      /\ ran \in Nat /\ MAX_TIMETICK \in Nat
  BY <1>1, <1>2, SortedNow, Sizes DEF RunInv, MovesNow, Moves, ItemRight, LiveNow, Sorted
<1>4. calls.writes \notin Half
  BY <1>1, <1>2 DEF RunInv, SwitchingNow, Switching, Pending
<1>5. Covered(x, periods)
  <2>1. CASE InTurn
    BY <1>2, <2>1 DEF RunInv, TurnNow, Turn
  <2>2. CASE NeverOff
    <3>1. x.e <= off
      BY <1>1 DEF CallAllowed
    <3>2. off # 0
      BY <1>3, <3>1
    <3>3. st \in {"Ready", "Running"} /\ x.s >= on /\ << on, MAX_TIMETICK >> \in periods
      BY <1>1, <1>4, <2>2, <3>2 DEF RunInv, OnsNow, Ons
    <3>4. PICK p : p = << on, MAX_TIMETICK >>
      OBVIOUS
    <3>5. p \in periods /\ p[1] = on /\ p[2] = MAX_TIMETICK
      BY <3>3, <3>4
    <3>6. p[1] <= x.s /\ x.s <= x.e /\ x.e <= p[2]
      BY <1>3, <3>3, <3>5
    <3> QED BY <3>5, <3>6 DEF Covered
  <2> QED BY <2>1, <2>2 DEF Regular
<1>6. ~ (x.e <= ran /\ ran <= MaxTick - Period)
  BY <1>3, RepeatedWhole DEF Fwd, Repeated
<1> QED BY <1>1, <1>5, <1>6 DEF Astray, Covered

LEMMA StepRun ==
  ASSUME TypeInv, Regular, RunInv, Call(1), to_do[1].a = "model", CallAllowed(to_do[1]),
         setting' = setting
  PROVE  RunInv'
<1>1. PICK x, on, off, st : /\ x = to_do[1] /\ st = run_state["model"]
                            /\ on = switch_on["model"] /\ off = switch_off["model"]
  OBVIOUS
<1>2. /\ pc[1] = "call" /\ pc'[1] = "called" /\ ran' = x.e /\ astray' = (astray \/ Astray(x))
      /\ UNCHANGED <<actVars, calls, periods, to_do, list, clock>>
  BY <1>1, SortedNow DEF Call, timeVars, TypeInv, ThreadsThere
<1>3. ~ astray'
  BY <1>1, <1>2, RunsWell DEF RunInv
<1>4. AtomsKept
  BY SortedNow, CallAdds DEF TypeInv, AtomsKept
<1>5. /\ Moves(clock, triggerq[1], list[1], "called", x, on, x.e)
      /\ Live("called", x, list[1]) \subseteq LiveNow
  BY <1>1, <1>2, SortedNow, MovesRun DEF RunInv, MovesNow, LiveNow
<1>6. Moves(clock, triggerq'[1], list[1], "called", x, on, x.e)
  BY <1>1, <1>4, <1>5, SortedNow, MovesOther DEF AtomsKept
<1>7. MovesNow'
  BY <1>1, <1>2, <1>6 DEF MovesNow, actVars
<1>8. LiveNow' \subseteq LiveNow
  BY <1>1, <1>2, <1>5 DEF LiveNow
<1>9. /\ Holding("call", x) /\ Holding("called", x) /\ x \in LiveNow
      /\ x.s \in Nat /\ x.e \in Nat /\ on \in Nat /\ x.s < x.e
  <2>1. Holding("call", x) /\ Holding("called", x) /\ Active("call", x) /\ x \in LiveNow
    BY <1>1, <1>2 DEF Holding, LiveNow, Live, Active
  <2> QED BY <1>1, <2>1, SortedNow DEF RunInv, MovesNow, Moves, ItemRight, LiveNow
<1>10. SwitchingNow'
  <2>1. Switching(calls.writes, st, on, off, ran, LiveNow, "call", x)
    BY <1>1, <1>2 DEF RunInv, SwitchingNow
  <2>2. Pending(calls.writes, off, LiveNow', "called", x)
    BY <1>8, <1>9, <2>1 DEF Switching, Pending
  <2>3. calls.writes \notin Half => StateRight(st, on, off, x.e, LiveNow', "called", x)
    <3>1. SUFFICES ASSUME calls.writes \notin Half
                   PROVE  StateRight(st, on, off, x.e, LiveNow', "called", x)
      OBVIOUS
    <3>2. StateRight(st, on, off, ran, LiveNow, "call", x)
      BY <2>1, <3>1 DEF Switching
    <3> QED BY <1>8, <1>9, <3>2 DEF StateRight
  <2> QED BY <1>1, <1>2, <2>2, <2>3 DEF SwitchingNow, Switching, actVars
<1>11. InTurn => TurnNow'
  BY <1>2, <1>8 DEF RunInv, TurnNow, Turn, actVars
<1>12. NeverOff => OnsNow'
  BY <1>2 DEF RunInv, OnsNow, Ons, actVars
<1> QED BY <1>3, <1>7, <1>10, <1>11, <1>12, SettingStays DEF RunInv

\* the callback throws, and "model" is off
LEMMA StepThrow ==
  ASSUME TypeInv, Regular, RunInv, Throw, setting' = setting
  PROVE  RunInv'
<1>1. PICK x, on, off : /\ x = to_do[1] /\ on = switch_on["model"] /\ off = switch_off["model"]
  OBVIOUS
<1>2. /\ pc[1] = "call" /\ pc'[1] = "wake" /\ x.a = "model"
      /\ run_state'["model"] = "Braking" /\ switch_off'["model"] = 0 /\ setting.throws
      /\ UNCHANGED <<switch_on, calls, ran, astray, to_do, list, triggerq, clock>>
  BY <1>1, SortedNow DEF Throw, timeVars, TypeInv, SwitchInv, ThreadsThere
<1>3. ~ InTurn /\ NeverOff
  BY <1>2 DEF Regular, InTurn
<1>4. /\ Active("call", x) /\ Holding("call", x)
      /\ ~ Active("wake", x) /\ ~ Ran("wake", x) /\ ~ Holding("wake", x)
  BY <1>2 DEF Active, Ran, Holding
<1>5. /\ Moves(clock, triggerq[1], list[1], "wake", x, on, ran)
      /\ Live("wake", x, list[1]) \subseteq LiveNow
  BY <1>1, <1>2, <1>4, MovesOn DEF RunInv, MovesNow, LiveNow
<1>6. MovesNow'
  BY <1>1, <1>2, <1>5 DEF MovesNow
<1>7. LiveNow' \subseteq LiveNow
  BY <1>1, <1>2, <1>5 DEF LiveNow
<1>8. Pending(calls.writes, off, LiveNow, "call", x) /\ calls.writes \notin Half
  BY <1>1, <1>2, <1>4 DEF RunInv, SwitchingNow, Switching, Pending
<1>9. Switching(calls.writes, "Braking", on, 0, ran, LiveNow', "wake", x)
  BY <1>4, <1>7, <1>8 DEF Switching, Pending, StateRight, Half
<1>10. SwitchingNow'
  BY <1>1, <1>2, <1>9 DEF SwitchingNow
<1>11. OnsNow'
  <2>1. Ons(calls.todo, calls.writes, run_state["model"], on, off, periods, "call", x)
    BY <1>1, <1>2, <1>3 DEF RunInv, OnsNow
  <2>2. Ons(calls.todo, calls.writes, "Braking", on, 0, periods', "wake", x)
    BY <2>1 DEF Ons
  <2> QED BY <1>1, <1>2, <2>2 DEF OnsNow
<1> QED BY <1>2, <1>3, <1>6, <1>10, <1>11, SettingStays DEF RunInv

\* the run is over, and "model" is still only Ready
LEMMA StepCalled ==
  ASSUME TypeInv, RunInv, Called(1), to_do[1].a = "model", pc'[1] # "wake", setting' = setting
  PROVE  RunInv'
<1>1. PICK x, on, off : /\ x = to_do[1] /\ on = switch_on["model"] /\ off = switch_off["model"]
  OBVIOUS
<1>2. /\ pc[1] = "called" /\ pc'[1] = "run" /\ x.a = "model" /\ run_state["model"] = "Ready"
      /\ UNCHANGED <<actVars, calls, history, to_do, list, triggerq, clock>>
  BY <1>1, SortedNow DEF Called, timeVars, TypeInv, ThreadsThere
<1>3. /\ ~ Active("run", x) /\ Ran("called", x) /\ Holding("called", x) /\ Holding("run", x)
  BY <1>2 DEF Active, Ran, Holding
<1>4. /\ Moves(clock, triggerq[1], list[1], "run", x, on, ran)
      /\ Live("run", x, list[1]) \subseteq LiveNow
  BY <1>1, <1>2, <1>3, MovesOn DEF RunInv, MovesNow, LiveNow
<1>5. MovesNow'
  BY <1>1, <1>2, <1>4 DEF MovesNow, actVars, history
<1>6. LiveNow' \subseteq LiveNow
  BY <1>1, <1>2, <1>4 DEF LiveNow
<1>7. Switching(calls.writes, "Ready", on, off, ran, LiveNow, "called", x)
  BY <1>1, <1>2 DEF RunInv, SwitchingNow
<1>8. Pending(calls.writes, off, LiveNow', "run", x)
  BY <1>3, <1>6, <1>7 DEF Switching, Pending
<1>9. calls.writes \notin Half => StateRight("Ready", on, off, ran, LiveNow', "run", x)
  BY <1>3, <1>6, <1>7 DEF Switching, StateRight
<1>10. SwitchingNow'
  BY <1>1, <1>2, <1>8, <1>9 DEF SwitchingNow, Switching, actVars, history
<1>11. InTurn => TurnNow'
  BY <1>2, <1>6 DEF RunInv, TurnNow, Turn, actVars, history
<1>12. NeverOff => OnsNow'
  BY <1>2 DEF RunInv, OnsNow, Ons, actVars, history
<1> QED BY <1>2, <1>5, <1>10, <1>11, <1>12, SettingStays DEF RunInv, history

\* run_state = Running: from here on all items count
LEMMA StepRunning ==
  ASSUME TypeInv, RunInv, SetRunning(1), to_do[1].a = "model", setting' = setting
  PROVE  RunInv'
<1>1. PICK x, on, off : /\ x = to_do[1] /\ on = switch_on["model"] /\ off = switch_off["model"]
  OBVIOUS
<1>2. /\ pc[1] = "run" /\ pc'[1] = "wake" /\ x.a = "model" /\ run_state'["model"] = "Running"
      /\ UNCHANGED <<switch_on, switch_off, calls, history, to_do, list, triggerq, clock>>
  BY <1>1, SortedNow DEF SetRunning, timeVars, TypeInv, SwitchInv, ThreadsThere
<1>3. /\ ~ Active("wake", x) /\ ~ Ran("wake", x) /\ ~ Holding("wake", x)
      /\ Ran("run", x) /\ Holding("run", x) /\ ~ Active("run", x)
  BY <1>2 DEF Active, Ran, Holding
<1>4. /\ Moves(clock, triggerq[1], list[1], "wake", x, on, ran)
      /\ Live("wake", x, list[1]) \subseteq LiveNow /\ ran = x.e
  <2>1. Moves(clock, triggerq[1], list[1], "run", x, on, ran)
    BY <1>1, <1>2 DEF RunInv, MovesNow
  <2>2. /\ Moves(clock, triggerq[1], list[1], "wake", x, on, ran)
        /\ Live("wake", x, list[1]) \subseteq Live("run", x, list[1])
    BY <1>3, <2>1, MovesOn
  <2>3. ran = x.e
    BY <1>3, <2>1 DEF Moves
  <2> QED BY <1>1, <1>2, <2>2, <2>3 DEF LiveNow
<1>5. MovesNow'
  BY <1>1, <1>2, <1>4 DEF MovesNow, history
<1>6. LiveNow' = Live("wake", x, list[1]) /\ LiveNow' \subseteq LiveNow
  BY <1>1, <1>2, <1>4 DEF LiveNow
<1>7. Pending(calls.writes, off, LiveNow, "run", x) /\ calls.writes \notin Half
  BY <1>1, <1>2, <1>3 DEF RunInv, SwitchingNow, Switching, Pending
<1>8. StateRight(run_state["model"], on, off, ran, LiveNow, "run", x)
  BY <1>1, <1>2, <1>7 DEF RunInv, SwitchingNow, Switching
<1>9. run_state["model"] = "Ready" /\ off = MAX_TIMETICK /\ on < ran
  <2>1. run_state["model"] = "Ready"
    BY <1>2, <1>8 DEF StateRight
  <2> QED BY <1>1, <1>3, <1>4, <1>8, <2>1, SortedNow DEF StateRight
<1>10. ASSUME NEW z \in LiveNow' PROVE z.s >= on
  <2>1. ItemRight(z, Models(triggerq[1]), clock, on, ran)
    BY <1>4, <1>6 DEF Moves
  <2>2. z.s \in Nat /\ z.e \in Nat /\ on \in Nat /\ ran \in Nat /\ clock \in Nat
        /\ clock <= MaxTick /\ ran <= clock
    BY <1>1, <1>4, <1>6, SortedNow, LiveTyped, Sizes DEF Sorted, Moves
  <2>3. Sided(z, on) /\ Fwd(ran, z.e)
    BY <2>1 DEF ItemRight
  <2>4. ~ Old(z.e, on)
    BY <1>9, <2>2, <2>3, Sizes, RepeatedWhole DEF Old, Fwd
  <2> QED BY <2>3, <2>4 DEF Sided
<1>11. Switching(calls.writes, "Running", on, off, ran, LiveNow', "wake", x)
  <2>1. Pending(calls.writes, off, LiveNow', "wake", x)
    BY <1>3, <1>6, <1>7 DEF Pending
  <2>2. StateRight("Running", on, off, ran, LiveNow', "wake", x)
    BY <1>3, <1>9, <1>10 DEF StateRight
  <2> QED BY <2>1, <2>2 DEF Switching
<1>12. SwitchingNow'
  BY <1>1, <1>2, <1>11 DEF SwitchingNow, history
<1>13. ASSUME InTurn PROVE TurnNow'
  <2>1. Turn(calls.todo, calls.writes, "Ready", on, off, periods, LiveNow)
    BY <1>1, <1>9, <1>13 DEF RunInv, TurnNow
  <2>2. Turn(calls.todo, calls.writes, "Running", on, off, periods, LiveNow')
    BY <1>6, <2>1 DEF Turn
  <2> QED BY <1>1, <1>2, <2>2 DEF TurnNow, history
<1>14. ASSUME NeverOff PROVE OnsNow'
  <2>1. Ons(calls.todo, calls.writes, "Ready", on, off, periods, "run", x)
    BY <1>1, <1>2, <1>9, <1>14 DEF RunInv, OnsNow
  <2>2. Ons(calls.todo, calls.writes, "Running", on, off, periods, "wake", x)
    BY <2>1 DEF Ons
  <2> QED BY <1>1, <1>2, <2>2 DEF OnsNow, history
<1> QED BY <1>2, <1>5, <1>12, <1>13, <1>14, SettingStays DEF RunInv, history

\* switchOn() or switchOff() is called, for a time to come
LEMMA StepSwitch ==
  ASSUME TypeInv, RunInv, Switch, setting' = setting
  PROVE  RunInv'
<1>1. PICK c, w, t : /\ c = Head(calls.todo) /\ t = c[2]
                     /\ w = (IF c[1] = "switchOn" THEN SwitchOn(c[2]) ELSE SwitchOff(c[2]))
  OBVIOUS
<1>2. PICK x, on, off, st : /\ x = to_do[1] /\ st = run_state["model"]
                            /\ on = switch_on["model"] /\ off = switch_off["model"]
  OBVIOUS
<1>3. /\ calls.writes = <<>> /\ calls.todo # <<>> /\ t >= clock
      /\ calls' = [todo |-> Tail(calls.todo), writes |-> w]
      /\ UNCHANGED <<actVars, history, to_do, list, triggerq, clock, pc>>
  BY <1>1 DEF Switch, timeVars
<1>4. calls'.todo = Tail(calls.todo) /\ calls'.writes = w
  BY <1>3
<1>5. calls.todo \in Seq(Calls \X Times) /\ c \in Calls \X Times /\ t \in Times
  <2>1. calls.todo \in Seq(Calls \X Times)
    BY DEF TypeInv, SwitchInv
  <2>2. c \in Calls \X Times
    BY <1>1, <1>3, <2>1
  <2> QED BY <1>1, <2>1, <2>2
<1>6. MovesNow'
  BY <1>3 DEF MovesNow, RunInv, actVars, history
<1>7. LiveNow' = LiveNow
  BY <1>3 DEF LiveNow
<1>8. ASSUME NEW z \in LiveNow PROVE z.e <= t /\ Old(z.e, t)
  <2>1. z.e \in Nat /\ z.e <= clock
    BY SortedNow, LiveTyped DEF RunInv, MovesNow, Moves, ItemRight, LiveNow, Sorted
  <2>2. clock \in Nat /\ clock <= MaxTick /\ Whole(clock) /\ t \in Nat /\ MaxTick \in Nat
    BY <1>5, SortedNow, Sizes DEF Sorted, Times
  <2>3. clock <= Repeated \/ clock = MaxTick
    BY <2>2, RepeatedWhole
  <2> QED BY <1>3, <2>1, <2>2, <2>3, RepeatedWhole DEF Old
<1>9. w \notin Half
  BY <1>1, <1>5, StagesApart
<1>10. \A u \in Times : (w = SwitchOn(u) => u = t) /\ (w = SwitchOff(u) => u = t)
  <2>1. ASSUME NEW u \in Times, w = SwitchOn(u) PROVE u = t
    <3>1. w = SwitchOn(t)
      BY <1>1, <1>5, <2>1, StagesApart
    <3>2. Head(SwitchOn(t)) = Head(SwitchOn(u))
      BY <2>1, <3>1
    <3>3. <<"switch_on", t, "none">> = <<"switch_on", u, "none">>
      BY <1>5, <3>2, WritesIs
    <3> QED BY <3>3
  <2>2. ASSUME NEW u \in Times, w = SwitchOff(u) PROVE u = t
    <3>1. w = SwitchOff(t)
      BY <1>1, <1>5, <2>2, StagesApart
    <3>2. Head(SwitchOff(t)) = Head(SwitchOff(u))
      BY <2>2, <3>1
    <3>3. <<"switch_off", t, "none">> = <<"switch_off", u, "none">>
      BY <1>5, <3>2, WritesIs
    <3> QED BY <3>3
  <2> QED BY <2>1, <2>2
<1>11. SwitchingNow'
  <2>1. Pending(w, off, LiveNow, pc[1], x)
    BY <1>8, <1>9, <1>10 DEF Pending, Half
  <2>2. StateRight(st, on, off, ran, LiveNow, pc[1], x)
    BY <1>2, <1>3, StagesApart DEF RunInv, SwitchingNow, Switching
  <2>3. Switching(w, st, on, off, ran, LiveNow, pc[1], x)
    BY <2>1, <2>2 DEF Switching
  <2> QED BY <1>2, <1>3, <1>4, <1>7, <2>3 DEF SwitchingNow, actVars, history
<1>12. ASSUME InTurn PROVE TurnNow'
  <2>1. Turn(calls.todo, <<>>, st, on, off, periods, LiveNow)
    BY <1>2, <1>3, <1>12 DEF RunInv, TurnNow
  <2>2. Turn(Tail(calls.todo), w, st, on, off, periods, LiveNow)
    BY <1>1, <1>3, <1>5, <2>1, CallBegins
  <2> QED BY <1>2, <1>3, <1>4, <1>7, <2>2 DEF TurnNow, actVars, history
<1>13. ASSUME NeverOff PROVE OnsNow'
  <2>1. Ons(calls.todo, <<>>, st, on, off, periods, pc[1], x)
    BY <1>2, <1>3, <1>13 DEF RunInv, OnsNow
  <2>2. Ons(Tail(calls.todo), w, st, on, off, periods, pc[1], x)
    BY <1>1, <1>3, <1>5, <2>1, CallBegins
  <2> QED BY <1>2, <1>3, <1>4, <2>2 DEF OnsNow, actVars, history
<1> QED BY <1>3, <1>6, <1>11, <1>12, <1>13, SettingStays DEF RunInv, history

\* a write of the switching thread, with its effect on the invariant's parts
LEMMA WriteKeeps ==
  ASSUME TypeInv, RunInv, NEW w, NEW on, NEW off, NEW st, NEW P, Writes(w, on, off, st, P),
         UNCHANGED <<setting, clock, triggerq, list, to_do, pc, ran, astray>>,
         Moves(clock, triggerq[1], list[1], pc[1], to_do[1], on, ran),
         Switching(w, st, on, off, ran, LiveNow, pc[1], to_do[1]),
         InTurn => Turn(calls.todo, w, st, on, off, P, LiveNow),
         NeverOff => Ons(calls.todo, w, st, on, off, P, pc[1], to_do[1])
  PROVE  RunInv'
<1>1. /\ switch_on'["model"] = on /\ switch_off'["model"] = off /\ run_state'["model"] = st
      /\ periods' = P
  BY SortedNow DEF Writes, TypeInv, SwitchInv
<1>2. calls'.todo = calls.todo /\ calls'.writes = w
  BY DEF Writes, TypeInv, SwitchInv
<1>3. LiveNow' = LiveNow
  BY DEF LiveNow
<1>4. MovesNow'
  BY <1>1 DEF MovesNow
<1>5. SwitchingNow'
  BY <1>1, <1>2, <1>3 DEF SwitchingNow
<1>6. InTurn => TurnNow'
  BY <1>1, <1>2, <1>3 DEF TurnNow
<1>7. NeverOff => OnsNow'
  BY <1>1, <1>2 DEF OnsNow
<1> QED BY <1>4, <1>5, <1>6, <1>7, SettingStays DEF RunInv

LEMMA StepAssign ==
  ASSUME TypeInv, Regular, RunInv, Assign, setting' = setting
  PROVE  RunInv'
<1>1. PICK w, x, on, off, st : /\ w = calls.writes /\ x = to_do[1] /\ st = run_state["model"]
                               /\ on = switch_on["model"] /\ off = switch_off["model"]
  OBVIOUS
<1>2. UNCHANGED <<setting, clock, triggerq, list, to_do, pc, ran, astray>>
  BY DEF Assign, timeVars
<1>3. ~ Holding(pc[1], x)
  BY <1>1 DEF Assign, Regular, Between, Holding
<1>4. /\ Moves(clock, triggerq[1], list[1], pc[1], x, on, ran)
      /\ Switching(w, st, on, off, ran, LiveNow, pc[1], x)
      /\ (InTurn => Turn(calls.todo, w, st, on, off, periods, LiveNow))
      /\ (NeverOff => Ons(calls.todo, w, st, on, off, periods, pc[1], x))
  BY <1>1 DEF RunInv, MovesNow, SwitchingNow, TurnNow, OnsNow
<1>5. w = OffEnd => off \in Times /\ \A z \in LiveNow : z.e <= off
  BY <1>4 DEF Switching, Pending
<1>6. /\ \A t \in Times : w = SwitchOn(t) => Switching(OnHalf, st, t, off, ran, LiveNow, pc[1], x)
      /\ (w = OnHalf => Switching(OnEnd, st, on, MAX_TIMETICK, ran, LiveNow, pc[1], x))
      /\ (w = OnEnd => Switching(<<>>, "Ready", on, off, ran, LiveNow, pc[1], x))
      /\ (\A t \in Times : w = SwitchOff(t) => Switching(OffEnd, st, on, t, ran, LiveNow, pc[1], x))
      /\ (w = OffEnd => Switching(<<>>, "Braking", on, off, ran, LiveNow, pc[1], x))
  BY <1>3, <1>4, SwitchingWritten
<1>7. InTurn =>
        /\ \A t \in Times : w = SwitchOn(t) =>
             Turn(calls.todo, OnHalf, st, t, off, periods, LiveNow)
        /\ (w = OnHalf => Turn(calls.todo, OnEnd, st, on, MAX_TIMETICK, periods, LiveNow))
        /\ (w = OnEnd => Turn(calls.todo, <<>>, "Ready", on, off, Opened(periods, on), LiveNow))
        /\ (\A t \in Times : w = SwitchOff(t) =>
              Turn(calls.todo, OffEnd, st, on, t, periods, LiveNow))
        /\ (w = OffEnd =>
              Turn(calls.todo, <<>>, "Braking", on, off, Closed(periods, off), LiveNow))
  BY <1>4, <1>5, TurnWritten
<1>8. NeverOff =>
        /\ \A t \in Times : w = SwitchOn(t) =>
             Ons(calls.todo, OnHalf, st, t, off, periods, pc[1], x)
        /\ (w = OnHalf => Ons(calls.todo, OnEnd, st, on, MAX_TIMETICK, periods, pc[1], x))
        /\ (w = OnEnd => Ons(calls.todo, <<>>, "Ready", on, off, Opened(periods, on), pc[1], x))
        /\ (\A t \in Times : w # SwitchOff(t)) /\ w # OffEnd
  BY <1>3, <1>4, OnsWritten
<1>9. CASE \E t \in Times : w = SwitchOn(t) /\ Writes(OnHalf, t, off, st, periods)
  <2>1. PICK t \in Times : w = SwitchOn(t) /\ Writes(OnHalf, t, off, st, periods)
    BY <1>9
  <2>2. t \in Nat /\ \A z \in LiveNow : Old(z.e, t)
    BY <1>4, <2>1, Sizes DEF Switching, Pending, Times
  <2>3. Moves(clock, triggerq[1], list[1], pc[1], x, t, ran)
    BY <1>1, <1>4, <2>2, SortedNow, MovesSwitched DEF LiveNow
  <2> QED BY <1>1, <1>2, <1>6, <1>7, <1>8, <2>1, <2>3, WriteKeeps
<1>10. CASE w = OnHalf /\ Writes(OnEnd, on, MAX_TIMETICK, st, periods)
  BY <1>1, <1>2, <1>4, <1>6, <1>7, <1>8, <1>10, WriteKeeps
<1>11. CASE w = OnEnd /\ Writes(<<>>, on, off, "Ready", Opened(periods, on))
  BY <1>1, <1>2, <1>4, <1>6, <1>7, <1>8, <1>11, WriteKeeps
<1>12. CASE \E t \in Times : w = SwitchOff(t) /\ Writes(OffEnd, on, t, st, periods)
  <2>1. PICK t \in Times : w = SwitchOff(t) /\ Writes(OffEnd, on, t, st, periods)
    BY <1>12
  <2> QED BY <1>1, <1>2, <1>4, <1>6, <1>7, <1>8, <2>1, WriteKeeps
<1>13. CASE w = OffEnd /\ Writes(<<>>, on, off, "Braking", Closed(periods, off))
  BY <1>1, <1>2, <1>4, <1>6, <1>7, <1>8, <1>13, WriteKeeps
<1> QED BY <1>1, <1>9, <1>10, <1>11, <1>12, <1>13, AssignIs DEF TypeInv

\* the steps of manager 1 that do not concern "model", or let its item go
LEMMA OneGoes ==
  ASSUME TypeInv, RunInv, setting' = setting,
         \/ Propagate(1) /\ triggerq[1] = <<>>
         \/ Despatch(1) /\ (to_do[1].a # "model" \/ pc'[1] = "wake")
         \/ (SetLast(1) \/ SetRunning(1)) /\ to_do[1].a # "model"
         \/ Called(1) /\ (to_do[1].a # "model" \/ pc'[1] = "wake")
         \/ Call(1) /\ (to_do[1].a # "model" \/ ~ CallAllowed(to_do[1]))
         \/ Wake(1)
         \/ Test /\ (Leaves \/ list[1] = <<>>)
  PROVE  RunInv'
<1>0. "wake" \notin Acts /\ {"retest", "test", "propend", "ended", "waiting"} \cap Acts = {}
  BY DEF Acts
<1>1. CASE Propagate(1) /\ triggerq[1] = <<>>
  <2>1. Frame
    BY <1>1 DEF Propagate, Frame, AtomsKept, actVars, history
  <2>2. pc'[1] \notin Acts
    BY <1>0, <1>1, SortedNow DEF Propagate, AfterProp, TypeInv, ThreadsThere
  <2> QED BY <2>1, <2>2, Goes
<1>2. CASE Despatch(1) /\ (to_do[1].a # "model" \/ pc'[1] = "wake")
  <2>1. Frame
    BY <1>2 DEF Despatch, Frame, AtomsKept, actVars, timeVars, history
  <2> QED BY <1>0, <1>2, <2>1, Goes
<1>3. CASE (SetLast(1) \/ SetRunning(1)) /\ to_do[1].a # "model"
  <2>1. run_state'["model"] = run_state["model"]
    BY <1>3, SortedNow DEF SetLast, SetRunning, TypeInv, SwitchInv
  <2>2. Frame
    BY <1>3, <2>1 DEF SetLast, SetRunning, Frame, AtomsKept, timeVars, history
  <2> QED BY <1>3, <2>2, Goes
<1>4. CASE Called(1) /\ (to_do[1].a # "model" \/ pc'[1] = "wake")
  <2>1. Frame
    BY <1>4 DEF Called, Frame, AtomsKept, actVars, timeVars, history
  <2> QED BY <1>0, <1>4, <2>1, Goes
<1>5. CASE Call(1) /\ ~ CallAllowed(to_do[1])
  <2>1. Frame
    BY <1>5 DEF Call, Frame, AtomsKept, actVars, timeVars, history
  <2>2. pc'[1] = "wake"
    BY <1>5, SortedNow DEF Call, TypeInv, ThreadsThere
  <2> QED BY <1>0, <2>1, <2>2, Goes
<1>6. CASE Call(1) /\ CallAllowed(to_do[1]) /\ to_do[1].a # "model"
  <2>1. AtomsKept
    BY <1>6, SortedNow, CallAdds DEF TypeInv, AtomsKept
  <2>2. ~ Astray(to_do[1])
    BY <1>6 DEF Astray
  <2>3. ran' = ran /\ periods' = periods /\ (astray' => astray)
    <3>1. astray' = (astray \/ Astray(to_do[1])) /\ ran' = ran /\ periods' = periods
      BY <1>6 DEF Call
    <3> QED BY <2>2, <3>1
  <2>4. Frame
    BY <1>6, <2>1, <2>3 DEF Call, Frame, actVars, timeVars
  <2> QED BY <1>6, <2>4, Goes
<1>7. CASE Wake(1)
  <2>1. Frame
    BY <1>7 DEF Wake, Frame, AtomsKept, actVars, timeVars, history
  <2>2. pc'[1] = "propend"
    BY <1>7, SortedNow DEF Wake, Signalled
  <2> QED BY <1>0, <2>1, <2>2, Goes
<1>8. CASE Test /\ (Leaves \/ list[1] = <<>>)
  <2>1. pc'[1] \in {"ended", "waiting"} /\ UNCHANGED <<list, to_do>>
    <3>1. CASE Leaves
      BY <1>8, <3>1, SortedNow DEF Test, TypeInv, ThreadsThere
    <3>2. CASE ~ Leaves /\ list[1] = <<>>
      BY <1>8, <3>2, SortedNow DEF Test, TypeInv, ThreadsThere
    <3> QED BY <1>8, <3>1, <3>2
  <2>2. Frame
    BY <1>8, <2>1 DEF Test, Frame, AtomsKept, actVars, timeVars, history
  <2> QED BY <1>0, <2>1, <2>2, Goes
<1> QED BY <1>1, <1>2, <1>3, <1>4, <1>5, <1>6, <1>7, <1>8

\* the steps of manager 0 and of the ticker's thread
LEMMA OthersGo ==
  ASSUME TypeInv, RunInv, setting' = setting,
         \/ TickOnly \/ TickerWakes \/ StopDoActivities
         \/ Look \/ Test0 \/ Serve \/ Graphics
         \/ Threads(0)
  PROVE  RunInv'
<1>0. {"propwait"} \cap Acts = {} /\ 0 \in Managers /\ 1 \in Managers /\ 0 # 1
      /\ to_do[0].a = "gui" /\ to_do[0].a # "model"
  BY DEF Acts, Managers, TypeInv, QueuesInv
<1>1. CASE TickOnly \/ TickerWakes \/ StopDoActivities
  <2>1. Frame
    BY <1>1 DEF TickOnly, TickerWakes, StopDoActivities, Frame, AtomsKept, actVars, timeVars, history
  <2>2. PICK S : pc' = Signalled(S)
    BY <1>1 DEF TickOnly, TickerWakes, StopDoActivities, Kick
  <2>3. pc'[1] = pc[1] \/ pc'[1] \notin Acts
    BY <1>0, <2>2 DEF Signalled
  <2> QED BY <2>1, <2>3, Goes
<1>2. CASE Look \/ Test0 \/ Serve \/ Graphics
  <2>1. list'[1] = list[1] /\ to_do'[1] = to_do[1]
    BY <1>0, <1>2 DEF Look, Test0, Serve, Graphics, Pop, TypeInv, QueuesInv
  <2>2. Frame
    BY <1>2, <2>1 DEF Look, Test0, Serve, Graphics, Frame, AtomsKept, actVars, timeVars, history
  <2>3. pc'[1] = pc[1]
    BY <1>0, <1>2 DEF Look, Test0, Test0Again, Serve, Pop, Graphics, TypeInv, ThreadsThere
  <2> QED BY <2>2, <2>3, Goes
<1>3. CASE Propagate(0)
  <2>1. triggerq'[1] = triggerq[1] /\ list'[1] = list[1] /\ pc'[1] = pc[1]
    <3>1. CASE triggerq[0] = <<>>
      BY <1>0, <1>3, <3>1 DEF Propagate, TypeInv, ThreadsThere
    <3>2. CASE triggerq[0] # <<>>
      BY <1>0, <1>3, <3>2 DEF Propagate, TypeInv, QueuesInv
    <3> QED BY <3>1, <3>2
  <2>2. Frame
    BY <1>3, <2>1 DEF Propagate, Frame, AtomsKept, actVars, history
  <2> QED BY <2>1, <2>2, Goes
<1>4. CASE Despatch(0) \/ Called(0)
  <2>1. Frame
    BY <1>4 DEF Despatch, Called, Frame, AtomsKept, actVars, timeVars, history
  <2>2. pc'[1] = pc[1]
    BY <1>0, <1>4 DEF Despatch, Called, TypeInv, ThreadsThere
  <2> QED BY <2>1, <2>2, Goes
<1>5. CASE SetLast(0) \/ SetRunning(0)
  <2>1. run_state'["model"] = run_state["model"] /\ pc'[1] = pc[1]
    BY <1>0, <1>5, SortedNow DEF SetLast, SetRunning, TypeInv, SwitchInv, ThreadsThere
  <2>2. Frame
    BY <1>5, <2>1 DEF SetLast, SetRunning, Frame, AtomsKept, timeVars, history
  <2> QED BY <2>1, <2>2, Goes
<1>6. CASE Call(0)
  <2>1. pc'[1] = pc[1]
    BY <1>0, <1>6 DEF Call, TypeInv, ThreadsThere
  <2>2. AtomsKept
    <3>1. CASE CallAllowed(to_do[0])
      BY <1>0, <1>6, <3>1, CallAdds DEF TypeInv, AtomsKept
    <3>2. CASE ~ CallAllowed(to_do[0])
      BY <1>6, <3>2 DEF Call, AtomsKept
    <3> QED BY <3>1, <3>2
  <2>3. ran' = ran /\ periods' = periods /\ (astray' => astray)
    <3>1. ~ Astray(to_do[0])
      BY <1>0 DEF Astray
    <3>2. /\ (astray' => astray \/ Astray(to_do[0]))
          /\ ran' = ran /\ periods' = periods
      BY <1>0, <1>6 DEF Call
    <3> QED BY <3>1, <3>2
  <2>4. Frame
    BY <1>6, <2>2, <2>3 DEF Call, Frame, actVars, timeVars
  <2> QED BY <2>1, <2>4, Goes
<1>7. CASE Wake(0)
  <2>1. Frame
    BY <1>7 DEF Wake, Frame, AtomsKept, actVars, timeVars, history
  <2>2. pc'[1] = pc[1] \/ pc'[1] \notin Acts
    BY <1>0, <1>7 DEF Wake, Signalled
  <2> QED BY <2>1, <2>2, Goes
<1> QED BY <1>1, <1>2, <1>3, <1>4, <1>5, <1>6, <1>7 DEF Threads

LEMMA RunNext ==
  ASSUME TypeInv, Regular, RunInv, [Next]_<<vars, setting>>
  PROVE  RunInv'
<1>1. setting' = setting
  BY DEF Next
<1>2. CASE TickOnly \/ TickerWakes \/ StopDoActivities \/ Look \/ Test0 \/ Serve \/ Graphics
           \/ Threads(0)
  BY <1>1, <1>2, OthersGo
<1>3. CASE Test
  <2>1. CASE Leaves \/ list[1] = <<>>
    BY <1>1, <1>3, <2>1, OneGoes
  <2>2. CASE ~ Leaves /\ list[1] # <<>>
    <3>1. Pop(1)
      BY <1>3, <2>2 DEF Test
    <3>2. triggerq' = triggerq /\ clock' = clock /\ UNCHANGED <<actVars, calls, history>>
      BY <1>3 DEF Test, timeVars
    <3> QED BY <1>1, <2>2, <3>1, <3>2, StepPop
  <2> QED BY <2>1, <2>2
<1>4. CASE Threads(1)
  <2>1. CASE Propagate(1)
    BY <1>1, <2>1, OneGoes, StepAtom
  <2>2. CASE Despatch(1)
    BY <1>1, <2>2, OneGoes, StepDespatch
  <2>3. CASE SetLast(1)
    BY <1>1, <2>3, OneGoes, StepLast
  <2>4. CASE Call(1)
    BY <1>1, <2>4, OneGoes, StepRun
  <2>5. CASE Called(1)
    BY <1>1, <2>5, OneGoes, StepCalled
  <2>6. CASE SetRunning(1)
    BY <1>1, <2>6, OneGoes, StepRunning
  <2>7. CASE Wake(1)
    BY <1>1, <2>7, OneGoes
  <2> QED BY <1>4, <2>1, <2>2, <2>3, <2>4, <2>5, <2>6, <2>7 DEF Threads
<1>5. CASE Tick \/ Throw \/ Switch \/ Assign
  BY <1>1, <1>5, StepTick, StepThrow, StepSwitch, StepAssign
<1>6. CASE Ended \/ UNCHANGED <<vars, setting>>
  <2>1. Frame /\ pc' = pc
    BY <1>1, <1>6 DEF Ended, vars, timeVars, actVars, history, Frame, AtomsKept, history
  <2> QED BY <2>1, Goes
<1> QED BY <1>2, <1>3, <1>4, <1>5, <1>6 DEF Next, Managers

(* Whatever the threads do, every queue of the managers holds only atoms   *)
(* and items of activities of its own priority, and activities, times and  *)
(* states keep to their types.                                             *)
THEOREM TypesKept == Spec => []TypeOK
<1>1. AllTyped => TypeOK
  BY TypesAsStated DEF AllTyped
<1> QED BY <1>1, TypesInvariant, PTL

(* An activity runs forward in time and only within the periods it was     *)
(* switched on for, however the switching, the ticks and the items already *)
(* scheduled fall together; this with the tests and the writes of the      *)
(* activity's state apart, for any number of calls of switchOn() and       *)
(* switchOff() in turn, and, when the callback may throw, of switchOn().   *)
THEOREM RunsAsSwitched == Spec => [](Regular => RunsRight)
<1>1. Init => (Regular => RunInv)
  BY RunInit
<1>2. AllTyped /\ (Regular => RunInv) /\ [Next]_<<vars, setting>> => (Regular' => RunInv')
  <2> SUFFICES ASSUME AllTyped, Regular => RunInv, [Next]_<<vars, setting>>, Regular'
               PROVE  RunInv'
    OBVIOUS
  <2>1. setting' = setting
    BY DEF Next
  <2>2. Regular
    BY <2>1, SettingStays
  <2> QED BY <2>2, RunNext DEF AllTyped
<1>3. AllTyped /\ (Regular => RunInv) => (Regular => RunsRight)
  BY TypesAsStated DEF AllTyped, RunInv, RunsRight, RunsWhenOn
<1> QED BY <1>1, <1>2, <1>3, TypesInvariant, PTL DEF Spec

=============================================================================
