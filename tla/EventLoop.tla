------------------------------ MODULE EventLoop ------------------------------
(***************************************************************************)
(* The reactor: EventLoop::Run and the Timer it drives.  A timer is one of *)
(* the slots that hold a TimerNode (SnapshotManager::reap_timer_,          *)
(* ReplicationSlave::reconnect_timer_), each armed at most once at a time. *)
(* Time is relative: rem[t] is iter->first - GetCurrentTime() in           *)
(* milliseconds, so an overdue timer has a negative rem, which stays at    *)
(* -MaxLate once it gets there.  The widths of uint64_t and int are        *)
(* parameters because WaitTime() converts between them.                    *)
(***************************************************************************)
EXTENDS Integers, FiniteSets

CONSTANTS
    Timers,     \* the timer slots
    Off,        \* a slot without a TimerNode
    Delays,     \* the delays AddTimeout is called with
    MaxSpend,   \* bound: ms one I/O handler or timer callback takes
    MaxIdle,    \* bound: ms the idle callback takes (WalManager::Poll syncs)
    MaxStop,    \* bound: ms the process is stopped by a signal
    MaxLate,    \* bound: how overdue a timer is counted
    MsBits,     \* width of uint64_t
    IntBits     \* width of int

ASSUME EventLoopAssumption ==
    /\ Off \notin Int
    /\ Delays \subseteq Nat \ {0} /\ Delays # {}
    /\ MaxSpend \in Nat /\ MaxIdle \in Nat /\ MaxStop \in Nat
    /\ MaxLate \in Nat \ {0}
    /\ IntBits \in Nat \ {0} /\ MsBits \in Nat /\ IntBits <= MsBits
    /\ \A d \in Delays : d < 2^(IntBits - 1)
    \* what the widths mean; provers do not calculate powers
    /\ 2^(IntBits - 1) \in Nat \ {0} /\ 2^IntBits = 2 * 2^(IntBits - 1)
    /\ 2^MsBits \in Nat /\ 2^IntBits <= 2^MsBits

VARIABLES
    rem,        \* timer_map_: ms until the timer is due, or Off
    phase,      \* where Run() is
    timeout,    \* ms epoll_wait still sleeps, negative for ever
    slow        \* history: since HandleTimeout the idle callback or a stop
                \* took longer than some timer had left

vars == <<rem, phase, timeout, slow>>

-----------------------------------------------------------------------------

Armed == {t \in Timers : rem[t] # Off}

\* timer_map_.begin(): the timers with the smallest deadline
Earliest == {t \in Armed : \A u \in Armed : rem[t] <= rem[u]}

\* timer_map_.rbegin()
Last == {t \in Armed : \A u \in Armed : rem[u] <= rem[t]}

\* s milliseconds pass
After(s) == [t \in Timers |->
    IF rem[t] = Off THEN Off
    ELSE IF rem[t] - s < -MaxLate THEN -MaxLate ELSE rem[t] - s]

\* s milliseconds are more than some timer has left
TooLong(s) == \E t \in Armed : rem[t] < s

AsInt(x) == LET low == x % 2^IntBits
            IN  IF low >= 2^(IntBits - 1) THEN low - 2^IntBits ELSE low

\* A WaitTime that returns the time of the last timer of the map
WaitTimeLast ==
    IF Armed = {} THEN -1
    ELSE LET t == CHOOSE x \in Last : TRUE
             diff == rem[t] % 2^MsBits
         IN  IF diff > 0 THEN AsInt(diff) ELSE 0

\* A WaitTime that wakes a millisecond early and forgets the narrowing
WaitTimeSlack ==
    IF Armed = {} THEN -1
    ELSE LET t == CHOOSE x \in Earliest : TRUE
         IN  (rem[t] - 1) % 2^MsBits

\* Timer::WaitTime: the difference is an unsigned 64-bit number
WaitTime ==
    IF Armed = {} THEN -1
    ELSE LET t == CHOOSE x \in Earliest : TRUE
             diff == rem[t] % 2^MsBits
         IN  IF diff > 0 THEN AsInt(diff) ELSE 0

\* What a callback does to the slots in r: arm one (AddTimeout), cancel one
\* (DelTimeout), cancel and arm again (ScheduleReconnect), or nothing
Rearm(r) == {r} \cup {[r EXCEPT ![t] = d] : t \in Timers, d \in Delays \cup {Off}}

-----------------------------------------------------------------------------

\* ReplicationSlave::Start may schedule a reconnection before Run()
Init == /\ rem \in Rearm([t \in Timers |-> Off])
        /\ phase = "wait"
        /\ timeout = 0
        /\ slow = FALSE

\* epoll_wait is entered with the timeout WaitTime() returns
EpollWait ==
    /\ phase = "wait"
    /\ timeout' = WaitTime
    /\ phase' = "asleep"
    /\ UNCHANGED <<rem, slow>>

\* A millisecond passes in epoll_wait
Sleep ==
    /\ phase = "asleep" /\ timeout # 0
    /\ rem' = After(1)
    /\ timeout' = IF timeout > 0 THEN timeout - 1 ELSE timeout
    /\ UNCHANGED <<phase, slow>>

\* epoll_wait returns 0: no event before the timeout
TimesOut ==
    /\ phase = "asleep" /\ timeout = 0
    /\ phase' = "timers"
    /\ UNCHANGED <<rem, timeout, slow>>

\* epoll_wait returns events
EventArrives ==
    /\ phase = "asleep"
    /\ phase' = "events"
    /\ UNCHANGED <<rem, timeout, slow>>

\* EINTR, after the process was stopped for some time: the loop continues
\* without HandleTimeout
Interrupted(s) ==
    /\ phase = "asleep"
    /\ rem' = After(s)
    /\ phase' = "wait"
    /\ slow' = (slow \/ TooLong(s))
    /\ UNCHANGED timeout

\* One I/O handler of the batch epoll_wait returned
Handler(s) ==
    /\ phase = "events"
    /\ rem' \in Rearm(After(s))
    /\ UNCHANGED <<phase, timeout, slow>>

EventsDone ==
    /\ phase = "events"
    /\ phase' = "timers"
    /\ UNCHANGED <<rem, timeout, slow>>

\* A HandleTimeout that does not erase the timer it ran
FireKeeps(t, s) ==
    /\ phase = "timers"
    /\ t \in Earliest /\ rem[t] <= 0
    /\ rem' \in Rearm(After(s))
    /\ UNCHANGED <<phase, timeout, slow>>

\* HandleTimeout runs the callback of timer_map_.begin() and erases it.  The
\* callback empties its own slot first and may fill it again.
Fire(t, s) ==
    /\ phase = "timers"
    /\ t \in Earliest /\ rem[t] <= 0
    /\ rem' \in Rearm([After(s) EXCEPT ![t] = Off])
    /\ UNCHANGED <<phase, timeout, slow>>

\* HandleTimeout finds no timer that is due
TimersDone ==
    /\ phase = "timers"
    /\ \A t \in Armed : rem[t] > 0
    /\ phase' = "idle"
    /\ slow' = FALSE
    /\ UNCHANGED <<rem, timeout>>

\* idle_(): WalManager::Poll
Idle(s) ==
    /\ phase = "idle"
    /\ rem' = After(s)
    /\ phase' = "wait"
    /\ slow' = (slow \/ TooLong(s))
    /\ UNCHANGED timeout

Callback == \E s \in 0..MaxSpend, t \in Timers : Fire(t, s)

Next == \/ EpollWait \/ Sleep \/ TimesOut \/ EventArrives \/ EventsDone
        \/ Callback \/ TimersDone
        \/ \E s \in 0..MaxStop : Interrupted(s)
        \/ \E s \in 0..MaxSpend : Handler(s)
        \/ \E s \in 0..MaxIdle : Idle(s)

\* The loop always goes on: handlers and callbacks return, time passes and
\* epoll_wait times out.  Nothing is assumed of the arrival of events.
\* Signals do not interrupt every sleep.
Fairness == /\ WF_vars(EpollWait) /\ WF_vars(Sleep) /\ SF_vars(TimesOut)
            /\ WF_vars(EventsDone) /\ WF_vars(Callback) /\ WF_vars(TimersDone)
            /\ WF_vars(\E s \in 0..MaxIdle : Idle(s))

Spec == Init /\ [][Next]_vars /\ Fairness

-----------------------------------------------------------------------------

TypeOK ==
    /\ rem \in [Timers -> {Off} \cup (-MaxLate..2^(IntBits - 1) - 1)]
    /\ phase \in {"wait", "asleep", "events", "timers", "idle"}
    /\ timeout \in -(2^(IntBits - 1))..2^(IntBits - 1) - 1
    /\ slow \in BOOLEAN

\* While a timer is armed epoll_wait sleeps for a bounded time, and not past
\* the deadline of any armed timer: WaitTime() returns -1 only without timers
\* (docs/Network/Reactor.md).  The code keeps this only as far as no timer is
\* overdue when epoll_wait is entered: WalManager::Poll, or a signal that
\* stops the process, may have taken longer than a timer had left, and
\* WaitTime() then returns a negative number.
SleepBounded ==
    phase = "asleep" /\ ~slow =>
        \A t \in Armed : /\ timeout >= 0
                         /\ rem[t] >= timeout

\* epoll_wait was entered with an overdue timer and waits for an event
Oversleeps == phase = "asleep" /\ slow /\ timeout < 0

\* A timer that is due fires (or its owner cancels or postpones it), whatever
\* the I/O does: the reaping of a SAVE child and the reconnection to the
\* master cannot wait for a client to show up, unless a timer was overdue
\* when the loop came to epoll_wait.
TimersFire ==
    \A t \in Timers :
        (rem[t] # Off /\ rem[t] <= 0) ~>
            (rem[t] = Off \/ rem[t] > 0 \/ Oversleeps)
=============================================================================
