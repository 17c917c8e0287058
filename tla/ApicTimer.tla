------------------------------ MODULE ApicTimer ------------------------------
(***************************************************************************)
(* The one timer of the system: drivers/apic/apic.cpp arms it for the next *)
(* tick or the next sleeper, drivers/tsc/tsc.cpp converts                  *)
(* between TSC ticks and nanoseconds, the scheduler's tick wakes the       *)
(* sleepers whose time has come.  A second has Giga nanoseconds and Freq   *)
(* ticks; both divide as the code's integers do.                           *)
(***************************************************************************)
EXTENDS Integers, FiniteSets, FiniteSetsExt

CONSTANTS
    Sleepers,     \* processes that may sleep
    Freq,         \* tsc_freq
    Giga,         \* 1000000000ULL
    BootTsc,      \* boot_tsc: the TSC when tsc::init() ran
    InitTsc,      \* the TSC when timer_init() runs
    IntervalNs,   \* interrupt_frequency_ns
    MaxSleepNs,   \* bound on the duration of a sleep
    MaxHold,      \* bound on the ticks an interrupt waits for interrupts to be on
    MaxTsc        \* bound on the TSC

ASSUME TimerAssumption ==
    /\ {Freq, Giga, BootTsc} \subseteq Nat \ {0}
    /\ {IntervalNs, MaxSleepNs, MaxHold, MaxTsc} \subseteq Nat
    /\ InitTsc \in BootTsc..MaxTsc

VARIABLES tsc, interrupt_deadline, armed, wake_time_ns, held_off, fresh

timerVars == <<tsc, interrupt_deadline, armed, wake_time_ns, held_off, fresh>>

Awake == -1

-----------------------------------------------------------------------------

get_time_ns(raw) ==
    LET delta == raw - BootTsc
    IN  (delta \div Freq) * Giga + ((delta % Freq) * Giga) \div Freq

ns_to_ticks(ns) == (ns \div Giga) * Freq + ((ns % Giga) * Freq) \div Giga

ns_to_raw_ticks(ns) == ns_to_ticks(ns) + BootTsc

interrupt_delta == ns_to_ticks(IntervalNs)

\* A tick is longer than the handler (a millisecond of a TSC that counts in GHz).
ASSUME TickAssumption == interrupt_delta > 1

Asleep(wake) == {p \in Sleepers : wake[p] # Awake}

\* Mutant: one sleeper is woken per tick.
Bug_wake_one(wake, raw) ==
    LET due == {p \in Asleep(wake) : wake[p] <= get_time_ns(raw)}
    IN  IF due = {} THEN wake ELSE [wake EXCEPT ![CHOOSE p \in due : TRUE] = Awake]

wake_sleepers(wake, raw) ==
    [p \in Sleepers |-> IF wake[p] <= get_time_ns(raw) THEN Awake ELSE wake[p]]

\* The raw deadline of the sleeper at the top of g_sleepers.
get_next_sleeper(wake) == ns_to_raw_ticks(Min({wake[p] : p \in Asleep(wake)}))

-----------------------------------------------------------------------------
\* timer_init(): the first deadline is the duration of one tick.
timer_init ==
    /\ tsc = InitTsc
    /\ interrupt_deadline = interrupt_delta
    /\ armed = interrupt_delta
    /\ wake_time_ns = [p \in Sleepers |-> Awake]
    /\ held_off = 0
    /\ fresh = {}

Pending == tsc >= armed

OrNextSleeper(deadline) ==
    IF Asleep(wake_time_ns) # {} /\ get_next_sleeper(wake_time_ns) < deadline
    THEN get_next_sleeper(wake_time_ns) ELSE deadline

\* The whole handler takes one tick.
apic_timer_handler ==
    /\ Pending /\ tsc < MaxTsc
    /\ interrupt_deadline' = OrNextSleeper(interrupt_deadline + interrupt_delta)
    /\ armed' = interrupt_deadline'
    /\ wake_time_ns' = wake_sleepers(wake_time_ns, tsc)
    /\ fresh' = {}
    /\ tsc' = tsc + 1
    /\ held_off' = 0

\* yield_sleep_ns(): sleep_for(), then yield_blocked() with its own look at the
\* sleepers that are due.
yield_sleep_ns(p) ==
    /\ wake_time_ns[p] = Awake
    /\ \E duration \in 0..MaxSleepNs :
         wake_time_ns' = wake_sleepers(
             [wake_time_ns EXCEPT ![p] = get_time_ns(tsc) + duration], tsc)
    /\ fresh' = fresh \cup {p}
    /\ UNCHANGED <<tsc, interrupt_deadline, armed, held_off>>

\* The TSC counts on.  A pending interrupt waits at most MaxHold ticks.
Elapse ==
    /\ tsc < MaxTsc
    /\ Pending => held_off < MaxHold
    /\ held_off' = IF Pending THEN held_off + 1 ELSE 0
    /\ tsc' = tsc + 1
    /\ UNCHANGED <<interrupt_deadline, armed, wake_time_ns, fresh>>

TimerNext == apic_timer_handler \/ Elapse \/ \E p \in Sleepers : yield_sleep_ns(p)

TimerSpec == timer_init /\ [][TimerNext]_timerVars

-----------------------------------------------------------------------------
TimerTypeOK ==
    /\ tsc \in BootTsc..MaxTsc
    /\ interrupt_deadline \in Nat /\ armed \in Nat
    /\ wake_time_ns \in [Sleepers -> Nat \cup {Awake}]
    /\ held_off \in 0..MaxHold
    /\ fresh \subseteq Sleepers

\* The timer never stops and preemption never waits longer than a tick: what is
\* armed is at most one interrupt_delta ahead, also while the timer catches up
\* with the ticks that passed before timer_init() or with interrupts off.
ArmedWithinTick == armed <= tsc + interrupt_delta

\* "the APIC arms its TSC-deadline timer for the earliest deadline - the next
\* tick or the next sleeper's wake time": so it is for every sleeper that was
\* asleep when the handler last ran.  One that has gone to sleep since is not
\* looked at before the next interrupt.
ArmedForEarliest ==
    \A p \in Asleep(wake_time_ns) \ fresh : armed <= ns_to_raw_ticks(wake_time_ns[p])

\* A sleeper overstays its deadline by less than a tick and the time interrupts
\* are held off, however its deadline was rounded and however many ticks the
\* timer still has to catch up with.
WokenInTime ==
    \A p \in Asleep(wake_time_ns) :
        tsc < ns_to_raw_ticks(wake_time_ns[p]) + interrupt_delta + MaxHold

\* The one-shot timer is always armed again, early enough for the next tick and
\* for the sleepers (timer_init(), apic_timer_handler()).
TimerInTime == TimerTypeOK /\ ArmedWithinTick /\ ArmedForEarliest /\ WokenInTime
=============================================================================
