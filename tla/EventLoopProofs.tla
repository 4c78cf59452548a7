--------------------------- MODULE EventLoopProofs ---------------------------
(***************************************************************************)
(* For any number of timers, all delays and all widths of the integers:    *)
(* epoll_wait never sleeps past a timer, unless the idle callback or a     *)
(* signal took longer than some timer had left when HandleTimeout was done *)
(* (slow).                                                                 *)
(*                                                                         *)
(* SleepBounded is not inductive.  WaitTime() is right only when no timer  *)
(* is overdue: it converts a negative difference into a timeout without a  *)
(* limit.  What keeps it right is that HandleTimeout leaves only timers    *)
(* that are due later (NoneDue), and that the way from there to epoll_wait *)
(* is short enough or is remembered not to be (NoneOverdue).               *)
(***************************************************************************)
EXTENDS EventLoop, WellFoundedInduction, TLAPS

Half == 2^(IntBits - 1)

LEMMA Widths ==
    /\ Half \in Nat /\ Half > 0 /\ 2^IntBits = 2 * Half
    /\ 2^MsBits \in Nat /\ 2 * Half <= 2^MsBits
    /\ Delays \subseteq 1..(Half - 1) /\ MaxLate \in Nat /\ MaxLate > 0
    /\ Off \notin Int
BY EventLoopAssumption DEF Half

Times == {Off} \cup (-MaxLate..Half - 1)

LEMMA TypeIs == TypeOK <=> /\ rem \in [Timers -> Times]
                           /\ phase \in {"wait", "asleep", "events", "timers", "idle"}
                           /\ timeout \in -Half..Half - 1
                           /\ slow \in BOOLEAN
BY DEF TypeOK, Times, Half

(* A remainder by a positive number that is larger is the number itself.     *)
LEMMA ModSmall ==
    ASSUME NEW a \in Nat, NEW b \in Nat, a < b
    PROVE  a % b = a
OBVIOUS

LEMMA ModRange ==
    ASSUME NEW a \in Int, NEW b \in Nat, b > 0
    PROVE  a % b \in 0..(b - 1)
OBVIOUS

(* Narrowing to int yields an int, and keeps what is small enough.           *)
LEMMA AsIntIs ==
    ASSUME NEW x \in Nat
    PROVE  /\ AsInt(x) \in -Half..Half - 1
           /\ x < Half => AsInt(x) = x
<1> DEFINE low == x % 2^IntBits
<1>1. low \in 0..(2 * Half - 1)
  <2>1. 2 * Half \in Nat /\ 2 * Half > 0 /\ 2^IntBits = 2 * Half
    BY Widths
  <2> QED BY <2>1, ModRange
<1>2. x < Half => low = x
  BY Widths, ModSmall
<1> HIDE DEF low
<1>3. AsInt(x) = IF low >= Half THEN low - 2 * Half ELSE low
  BY Widths DEF AsInt, low, Half
<1> QED BY <1>1, <1>2, <1>3, Widths

(* The map has a first timer.                                                *)
LEMMA EarliestExists ==
    ASSUME rem \in [Timers -> Times], Armed # {}
    PROVE  Earliest # {}
<1>1. \A t \in Armed : rem[t] \in Int /\ rem[t] + MaxLate \in Nat
  BY Widths DEF Armed, Times
<1> DEFINE T == {rem[t] + MaxLate : t \in Armed}
<1>2. T \subseteq Nat /\ T # {}
  BY <1>1
<1>3. PICK n \in T : \A m \in T : ~(<<m, n>> \in OpToRel(<, Nat))
  BY <1>2, NatLessThanWellFounded, WFMin
<1>4. PICK t \in Armed : n = rem[t] + MaxLate
  OBVIOUS
<1>5. ASSUME NEW u \in Armed PROVE rem[t] <= rem[u]
  <2>1. rem[u] + MaxLate \in T /\ n \in Nat /\ rem[u] + MaxLate \in Nat
    BY <1>1, <1>2
  <2>2. ~(rem[u] + MaxLate < n)
    BY <1>3, <2>1 DEF OpToRel
  <2> QED BY <1>1, <1>4, <2>2, Widths
<1> QED BY <1>5 DEF Earliest

(* WaitTime() always fits into an int, and if no timer is overdue it is the  *)
(* time until the first one.                                                 *)
LEMMA WaitTimeIs ==
    ASSUME rem \in [Timers -> Times]
    PROVE  /\ WaitTime \in -Half..Half - 1
           /\ Armed # {} /\ (\A t \in Armed : rem[t] >= 0) =>
                 /\ WaitTime >= 0
                 /\ \A t \in Armed : rem[t] >= WaitTime
<1>1. CASE Armed = {}
  BY <1>1, Widths DEF WaitTime
<1>2. CASE Armed # {}
  <2> DEFINE t == CHOOSE x \in Earliest : TRUE
             diff == rem[t] % 2^MsBits
  <2>1. WaitTime = IF diff > 0 THEN AsInt(diff) ELSE 0
    BY <1>2 DEF WaitTime
  <2>2. t \in Earliest
    BY <1>2, EarliestExists
  <2> HIDE DEF t
  <2>3. t \in Armed /\ rem[t] \in -MaxLate..Half - 1 /\ \A u \in Armed : rem[t] <= rem[u]
    BY <2>2 DEF Earliest, Armed, Times
  <2>4. diff \in Nat
    <3>1. rem[t] \in Int /\ 2^MsBits \in Nat /\ 2^MsBits > 0
      BY <2>3, Widths
    <3> QED BY <3>1, ModRange
  <2>5. rem[t] >= 0 => diff = rem[t] /\ diff < Half
    <3> SUFFICES ASSUME rem[t] >= 0 PROVE diff = rem[t] /\ diff < Half
      OBVIOUS
    <3>1. rem[t] \in Nat /\ 2^MsBits \in Nat /\ rem[t] < Half /\ rem[t] < 2^MsBits
      BY <2>3, Widths
    <3> QED BY <3>1, ModSmall
  <2> HIDE DEF diff
  <2>6. AsInt(diff) \in -Half..Half - 1 /\ (diff < Half => AsInt(diff) = diff)
    BY <2>4, AsIntIs
  <2>7. WaitTime \in -Half..Half - 1
    BY <2>1, <2>6, Widths
  <2>8. ASSUME \A u \in Armed : rem[u] >= 0
        PROVE  WaitTime >= 0 /\ \A u \in Armed : rem[u] >= WaitTime
    <3>1. rem[t] >= 0 /\ diff = rem[t] /\ diff < Half
      BY <2>3, <2>5, <2>8
    <3>2. WaitTime = rem[t]
      BY <2>1, <2>3, <2>6, <3>1
    <3> QED BY <2>3, <3>1, <3>2
  <2> QED BY <2>7, <2>8
<1> QED BY <1>1, <1>2

(* Time passes for the timers that are armed.                                *)
LEMMA AfterIs ==
    ASSUME rem \in [Timers -> Times], NEW s \in Nat
    PROVE  /\ After(s) \in [Timers -> Times]
           /\ \A t \in Timers : /\ After(s)[t] # Off <=> t \in Armed
                                /\ t \in Armed => /\ rem[t] \in Int
                                                  /\ rem[t] - s >= 0 => After(s)[t] = rem[t] - s
<1>1. ASSUME NEW t \in Timers
      PROVE  /\ After(s)[t] \in Times
             /\ After(s)[t] # Off <=> t \in Armed
             /\ t \in Armed => /\ rem[t] \in Int
                               /\ rem[t] - s >= 0 => After(s)[t] = rem[t] - s
  <2>1. After(s)[t] = IF rem[t] = Off THEN Off
                      ELSE IF rem[t] - s < -MaxLate THEN -MaxLate ELSE rem[t] - s
    BY DEF After
  <2>2. CASE rem[t] = Off
    BY <2>1, <2>2 DEF Armed, Times
  <2>3. CASE rem[t] # Off
    <3>1. rem[t] \in -MaxLate..Half - 1 /\ t \in Armed
      BY <2>3 DEF Armed, Times
    <3>2. After(s)[t] \in -MaxLate..Half - 1
      BY <2>1, <2>3, <3>1, Widths
    <3>3. rem[t] - s >= 0 => After(s)[t] = rem[t] - s
      BY <2>1, <2>3, <3>1, Widths
    <3> QED BY <3>1, <3>2, <3>3, Widths DEF Times
  <2> QED BY <2>2, <2>3
<1>2. DOMAIN After(s) = Timers /\ After(s) = [t \in Timers |-> After(s)[t]]
  BY DEF After
<1> QED BY <1>1, <1>2

LEMMA RearmIs ==
    ASSUME NEW r \in [Timers -> Times], NEW q \in Rearm(r)
    PROVE  q \in [Timers -> Times]
<1>1. Delays \cup {Off} \subseteq Times
  <2>1. ASSUME NEW d \in Delays PROVE d \in -MaxLate..Half - 1
    <3>1. d \in 1..(Half - 1)
      BY Widths
    <3> QED BY <3>1, Widths
  <2> QED BY <2>1 DEF Times
<1> QED BY <1>1 DEF Rearm
-----------------------------------------------------------------------------
(* Types *)

LEMMA InitType == Init => TypeOK
<1> SUFFICES ASSUME Init PROVE TypeOK
  OBVIOUS
<1> DEFINE r == [t \in Timers |-> Off]
<1>1. r \in [Timers -> Times]
  BY DEF Times
<1>2. rem \in Rearm(r) /\ phase = "wait" /\ timeout = 0 /\ slow = FALSE
  BY DEF Init
<1> HIDE DEF r
<1>3. rem \in [Timers -> Times]
  BY <1>1, <1>2, RearmIs
<1>4. timeout \in -Half..Half - 1
  BY <1>2, Widths
<1>5. slow \in BOOLEAN
  BY <1>2
<1> QED BY <1>2, <1>3, <1>4, <1>5, TypeIs

LEMMA NextType == TypeOK /\ [Next]_vars => TypeOK'
<1> SUFFICES ASSUME TypeOK, [Next]_vars PROVE TypeOK'
  OBVIOUS
<1> DEFINE Phases == {"wait", "asleep", "events", "timers", "idle"}
<1>1. /\ rem \in [Timers -> Times] /\ phase \in Phases
      /\ timeout \in -Half..Half - 1 /\ slow \in BOOLEAN
  BY TypeIs
<1>2. ASSUME rem' \in [Timers -> Times], phase' \in Phases,
             timeout' \in -Half..Half - 1, slow' \in BOOLEAN
      PROVE  TypeOK'
  BY <1>2 DEF TypeOK, Times, Half
<1>3. CASE EpollWait
  BY <1>1, <1>2, <1>3, WaitTimeIs DEF EpollWait
<1>4. CASE Sleep
  <2>1. rem' = After(1) /\ phase' = phase /\ slow' = slow
        /\ timeout' = IF timeout > 0 THEN timeout - 1 ELSE timeout
    BY <1>4 DEF Sleep
  <2>2. rem' \in [Timers -> Times]
    BY <1>1, <2>1, AfterIs
  <2>3. timeout' \in -Half..Half - 1
    BY <1>1, <2>1, Widths
  <2> QED BY <1>1, <1>2, <2>1, <2>2, <2>3
<1>5. CASE TimesOut \/ EventArrives \/ EventsDone \/ TimersDone
  <2>1. rem' = rem /\ timeout' = timeout /\ phase' \in Phases /\ slow' \in BOOLEAN
    BY <1>1, <1>5 DEF TimesOut, EventArrives, EventsDone, TimersDone
  <2> QED BY <1>1, <1>2, <2>1
<1>6. ASSUME NEW s \in Nat, Interrupted(s) \/ Idle(s) PROVE TypeOK'
  <2>1. rem' = After(s) /\ timeout' = timeout /\ phase' = "wait"
        /\ slow' = (slow \/ TooLong(s))
    BY <1>6 DEF Interrupted, Idle
  <2>2. rem' \in [Timers -> Times]
    BY <1>1, <2>1, AfterIs
  <2> QED BY <1>1, <1>2, <2>1, <2>2
<1>7. ASSUME NEW s \in Nat, Handler(s) PROVE TypeOK'
  <2>1. rem' \in Rearm(After(s)) /\ timeout' = timeout /\ phase' = phase
        /\ slow' = slow
    BY <1>7 DEF Handler
  <2>2. After(s) \in [Timers -> Times]
    BY <1>1, AfterIs
  <2>3. rem' \in [Timers -> Times]
    BY <2>1, <2>2, RearmIs
  <2> QED BY <1>1, <1>2, <2>1, <2>3
<1>8. ASSUME NEW s \in Nat, NEW t \in Timers, Fire(t, s) PROVE TypeOK'
  <2> DEFINE r == [After(s) EXCEPT ![t] = Off]
  <2>1. rem' \in Rearm(r) /\ timeout' = timeout /\ phase' = phase
        /\ slow' = slow
    BY <1>8 DEF Fire
  <2>2. After(s) \in [Timers -> Times]
    BY <1>1, AfterIs
  <2>3. r \in [Timers -> Times]
    BY <2>2 DEF Times
  <2> HIDE DEF r
  <2>4. rem' \in [Timers -> Times]
    BY <2>1, <2>3, RearmIs
  <2> QED BY <1>1, <1>2, <2>1, <2>4
<1>9. CASE UNCHANGED vars
  BY <1>1, <1>2, <1>9 DEF vars
<1>10. \A n \in Nat : 0..n \subseteq Nat
  OBVIOUS
<1>11. 0..MaxSpend \subseteq Nat /\ 0..MaxStop \subseteq Nat /\ 0..MaxIdle \subseteq Nat
  BY EventLoopAssumption, <1>10
<1> QED BY <1>3, <1>4, <1>5, <1>6, <1>7, <1>8, <1>9, <1>11 DEF Next, Callback

(* The timers are off or have a time that an int can hold, and what is       *)
(* handed to epoll_wait is an int, whatever WaitTime() makes of a timer that *)
(* is overdue.                                                               *)
THEOREM TypeCorrect == Spec => []TypeOK
<1>1. Init => TypeOK
  BY InitType
<1>2. TypeOK /\ [Next]_vars => TypeOK'
  BY NextType
<1> QED BY <1>1, <1>2, PTL DEF Spec
-----------------------------------------------------------------------------
(* The sleep *)

NoneOverdue == phase = "wait" /\ ~slow => \A t \in Armed : rem[t] >= 0

NoneDue == phase = "idle" => \A t \in Armed : rem[t] > 0

SleepInv == TypeOK /\ SleepBounded /\ NoneOverdue /\ NoneDue

LEMMA InitSleep == Init => SleepInv
<1> SUFFICES ASSUME Init PROVE SleepInv
  OBVIOUS
<1>1. TypeOK
  BY InitType
<1>2. phase = "wait" /\ \A t \in Armed : rem[t] \in Delays
  BY DEF Init, Rearm, Armed
<1>3. \A d \in Delays : d \in 1..(Half - 1)
  BY Widths
<1>4. ASSUME NEW t \in Armed PROVE rem[t] >= 0
  <2>1. rem[t] \in 1..(Half - 1)
    BY <1>2, <1>3
  <2> QED BY <2>1, Widths
<1> QED BY <1>1, <1>2, <1>4 DEF SleepInv, SleepBounded, NoneOverdue, NoneDue

LEMMA NextSleep == SleepInv /\ [Next]_vars => SleepInv'
<1> SUFFICES ASSUME SleepInv, [Next]_vars PROVE SleepInv'
  OBVIOUS
<1>1. TypeOK /\ rem \in [Timers -> Times] /\ timeout \in Int
  BY TypeIs, Widths DEF SleepInv
<1>2. TypeOK'
  BY <1>1, NextType
<1>3. Armed' = {t \in Timers : rem'[t] # Off}
  BY DEF Armed
<1>4. CASE EpollWait
  <2>1. /\ phase = "wait" /\ rem' = rem /\ timeout' = WaitTime /\ phase' = "asleep"
        /\ slow' = slow
    BY <1>4 DEF EpollWait
  <2>2. ~slow => \A t \in Armed : WaitTime >= 0 /\ rem[t] >= WaitTime
    BY <1>1, <2>1, WaitTimeIs DEF SleepInv, NoneOverdue
  <2>3. SleepBounded'
    BY <2>1, <2>2 DEF SleepBounded, Armed
  <2> QED BY <1>2, <2>1, <2>3 DEF SleepInv, NoneOverdue, NoneDue
<1>5. CASE Sleep
  <2>1. /\ phase = "asleep" /\ phase' = phase /\ rem' = After(1) /\ timeout # 0
        /\ slow' = slow
        /\ timeout' = IF timeout > 0 THEN timeout - 1 ELSE timeout
    BY <1>5 DEF Sleep
  <2>2. ASSUME ~slow, NEW t \in Armed' PROVE timeout' >= 0 /\ rem'[t] >= timeout'
    <3>1. t \in Timers /\ t \in Armed /\ rem[t] \in Int
          /\ (rem[t] - 1 >= 0 => rem'[t] = rem[t] - 1)
      BY <1>1, <1>3, <2>1, <2>2, AfterIs
    <3>2. timeout >= 0 /\ rem[t] >= timeout
      BY <2>1, <2>2, <3>1 DEF SleepInv, SleepBounded
    <3> QED BY <1>1, <2>1, <3>1, <3>2
  <2>3. SleepBounded'
    BY <2>1, <2>2 DEF SleepBounded
  <2> QED BY <1>2, <2>1, <2>3 DEF SleepInv, NoneOverdue, NoneDue
<1>6. ASSUME NEW s \in Nat, rem' = After(s), slow' = (slow \/ TooLong(s)), ~slow',
             NEW t \in Armed'
      PROVE  rem'[t] >= 0
  <2>1. t \in Timers /\ t \in Armed /\ rem[t] \in Int
        /\ (rem[t] - s >= 0 => rem'[t] = rem[t] - s)
    BY <1>1, <1>3, <1>6, AfterIs
  <2>2. ~(rem[t] < s)
    BY <1>6, <2>1 DEF TooLong
  <2> QED BY <2>1, <2>2
<1>7. ASSUME NEW s \in Nat, Interrupted(s) \/ Idle(s) PROVE SleepInv'
  <2>1. rem' = After(s) /\ phase' = "wait" /\ slow' = (slow \/ TooLong(s))
    BY <1>7 DEF Interrupted, Idle
  <2>2. NoneOverdue'
    BY <1>6, <2>1 DEF NoneOverdue
  <2> QED BY <1>2, <2>1, <2>2 DEF SleepInv, SleepBounded, NoneDue
<1>8. CASE TimersDone
  <2>1. phase' = "idle" /\ rem' = rem /\ \A t \in Armed : rem[t] > 0
    BY <1>8 DEF TimersDone
  <2>2. \A t \in Armed' : rem'[t] > 0
    BY <2>1 DEF Armed
  <2> QED BY <1>2, <2>1, <2>2 DEF SleepInv, SleepBounded, NoneOverdue, NoneDue
<1>9. ASSUME phase' \in {"events", "timers"} PROVE SleepInv'
  BY <1>2, <1>9 DEF SleepInv, SleepBounded, NoneOverdue, NoneDue
<1>10. ASSUME TimesOut \/ EventArrives \/ EventsDone \/ Callback
               \/ \E s \in 0..MaxSpend : Handler(s)
       PROVE  phase' \in {"events", "timers"}
  BY <1>10 DEF TimesOut, EventArrives, EventsDone, Callback, Fire, Handler
<1>11. CASE UNCHANGED vars
  BY <1>11, <1>2 DEF vars, SleepInv, SleepBounded, NoneOverdue, NoneDue, Armed
<1>12. 0..MaxStop \subseteq Nat /\ 0..MaxIdle \subseteq Nat
  <2>1. \A n \in Nat : 0..n \subseteq Nat
    OBVIOUS
  <2> QED BY <2>1, EventLoopAssumption
<1> QED BY <1>4, <1>5, <1>7, <1>8, <1>9, <1>10, <1>11, <1>12 DEF Next

(* epoll_wait never sleeps past a timer: with a timer armed WaitTime()       *)
(* returns the time until the first one, in spite of the unsigned difference *)
(* and the narrowing to int, because HandleTimeout has run every timer that  *)
(* was due.  The one exception is a timer that the idle callback, or a       *)
(* signal that stopped the process, made overdue before epoll_wait.          *)
THEOREM SleepsAreBounded == Spec => []SleepBounded
<1>1. Init => SleepInv
  BY InitSleep
<1>2. SleepInv /\ [Next]_vars => SleepInv'
  BY NextSleep
<1>3. SleepInv => SleepBounded
  BY DEF SleepInv
<1> QED BY <1>1, <1>2, <1>3, PTL DEF Spec
=============================================================================
