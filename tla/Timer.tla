-------------------------------- MODULE Timer --------------------------------
(***************************************************************************)
(* Core::Timer, the timers of EventReceiver, and the TimeoutSet of the     *)
(* Unix event loop that fires them (Timer.cpp, EventReceiver.cpp and       *)
(* EventLoopImplementationUnix.cpp of Libraries/LibCore), on one thread.   *)
(*                                                                         *)
(* An expired timer is not called: it is rescheduled and a TimerEvent is   *)
(* queued for it, so the timer can be stopped and started again between    *)
(* its expiry and its event.  Times are relative to the present: due[t] is *)
(* how long the timer has still to run, and a timer that is late by more   *)
(* than the longest interval is as late as one that is late by it.  No     *)
(* handler runs a nested loop: every TimerEvent of a batch is handled      *)
(* before the loop polls again.                                            *)
(***************************************************************************)
EXTENDS Integers, Sequences

CONSTANTS
    Timers,         \* the Timer objects of the thread
    SingleShot,     \* those created with create_single_shot
    MaxInterval     \* bound: intervals are 0 .. MaxInterval

ASSUME TimerAssumption == SingleShot \subseteq Timers /\ MaxInterval \in Nat

VARIABLES
    m_active, m_interval_ms, m_interval_dirty,  \* Timer
    m_timer_id,             \* EventReceiver: TRUE if a timer is registered
    interval,               \* EventLoopTimer::interval of that registration
    due,                    \* EventLoopTimer::m_fire_time - now
    m_index,                \* EventLoopTimeout::m_index
    m_scheduled_timeouts,   \* TimeoutSet: the relative timeouts
    events,                 \* the timers that have a TimerEvent in the queue
    stage,                  \* where the event loop is
    age,                    \* history: time since the timer was last started
    stale,                  \* history: the timers whose queued TimerEvent is
                            \*   from before they were last stopped or started
    timer_failed           \* history: a VERIFY has failed

timerVars == <<m_active, m_interval_ms, m_interval_dirty, m_timer_id, interval>>
timeoutVars == <<due, m_index, m_scheduled_timeouts>>
historyVars == <<age, stale, timer_failed>>
timingVars == <<timerVars, timeoutVars, events, stage, historyVars>>

Intervals == 0 .. MaxInterval

(* m_index: negative in m_scheduled_timeouts, InHeap in the heap. *)
InHeap == 0
INVALID_INDEX == 1

TimerInit ==
    /\ m_active = [t \in Timers |-> FALSE]
    /\ m_interval_ms \in [Timers -> Intervals]
    /\ m_interval_dirty = [t \in Timers |-> FALSE]
    /\ m_timer_id = [t \in Timers |-> FALSE]
    /\ interval = [t \in Timers |-> 0]
    /\ due = [t \in Timers |-> 0]
    /\ m_index = [t \in Timers |-> INVALID_INDEX]
    /\ m_scheduled_timeouts = <<>>
    /\ events = {}
    /\ stage = "idle"
    /\ age = [t \in Timers |-> 0]
    /\ stale = {}
    /\ timer_failed = FALSE

-----------------------------------------------------------------------------
(***************************************************************************)
(* TimeoutSet.  The heap is the set of the timers with index InHeap.       *)
(***************************************************************************)

(* unschedule() of a relative timeout: the last one takes its place. *)
WithoutTimeout(t) ==
    IF m_index[t] < 0
      THEN LET last == Len(m_scheduled_timeouts)
           IN  SubSeq([m_scheduled_timeouts EXCEPT
                         ![-m_index[t]] = m_scheduled_timeouts[last]], 1, last - 1)
      ELSE m_scheduled_timeouts

LastTimeout == m_scheduled_timeouts[Len(m_scheduled_timeouts)]

(* Mutated form: unschedule() without the swap of the indices. *)
IndexKept(t, new) == [m_index EXCEPT ![t] = new]

(* What unschedule() leaves in the indices; new is the index of t after it. *)
IndexWithout(t, new) ==
    IF m_index[t] < 0
      THEN [m_index EXCEPT ![LastTimeout] = m_index[t], ![t] = new]
      ELSE [m_index EXCEPT ![t] = new]

(* VERIFY(m_scheduled_timeouts[i] == timeout) *)
WrongTimeout(t) == m_index[t] < 0 /\ m_scheduled_timeouts[-m_index[t]] # t

-----------------------------------------------------------------------------
(***************************************************************************)
(* The member functions of Timer, called by handlers.                      *)
(***************************************************************************)

(* start_timer: register_timer puts a new reloading timer into the heap. *)
StartTimer(t, i) ==
    /\ m_interval_ms' = [m_interval_ms EXCEPT ![t] = i]
    /\ interval' = [interval EXCEPT ![t] = i]
    /\ due' = [due EXCEPT ![t] = i]
    /\ age' = [age EXCEPT ![t] = 0]
    /\ m_active' = [m_active EXCEPT ![t] = TRUE]
    /\ m_timer_id' = [m_timer_id EXCEPT ![t] = TRUE]

(* A queued event of t belongs to an earlier run from now on. *)
StaleNow(t) == stale' = stale \union (events \intersect {t})

start(t, i) ==
    /\ stage = "handler"
    /\ ~m_active[t]
    /\ StartTimer(t, i)
    /\ m_index' = [m_index EXCEPT ![t] = InHeap]
    /\ timer_failed' = (timer_failed \/ m_timer_id[t])
    /\ StaleNow(t)
    /\ UNCHANGED <<m_interval_dirty, m_scheduled_timeouts, events, stage>>

stop(t) ==
    /\ stage = "handler"
    /\ m_active[t]
    /\ m_active' = [m_active EXCEPT ![t] = FALSE]
    /\ m_timer_id' = [m_timer_id EXCEPT ![t] = FALSE]
    /\ m_index' = IndexWithout(t, INVALID_INDEX)
    /\ m_scheduled_timeouts' = WithoutTimeout(t)
    /\ timer_failed' = (timer_failed \/ WrongTimeout(t))
    /\ StaleNow(t)
    /\ UNCHANGED <<m_interval_ms, m_interval_dirty, interval, due, events, stage, age>>

(* Mutated form: restart() without a new fire time. *)
RestartKeepsDue(t, i) ==
    /\ stage = "handler"
    /\ m_active[t]
    /\ interval' = [interval EXCEPT ![t] = i]
    /\ m_interval_ms' = [m_interval_ms EXCEPT ![t] = i]
    /\ age' = [age EXCEPT ![t] = 0]
    /\ StaleNow(t)
    /\ UNCHANGED <<m_active, m_interval_dirty, m_timer_id, timeoutVars, events, stage,
                   timer_failed>>

(* restart() of an active timer: stop(), then start(). *)
restart(t, i) ==
    /\ stage = "handler"
    /\ m_active[t]
    /\ StartTimer(t, i)
    /\ m_index' = IndexWithout(t, InHeap)
    /\ m_scheduled_timeouts' = WithoutTimeout(t)
    /\ timer_failed' = (timer_failed \/ WrongTimeout(t))
    /\ StaleNow(t)
    /\ UNCHANGED <<m_interval_dirty, events, stage>>

set_interval(t, i) ==
    /\ stage = "handler"
    /\ m_interval_ms[t] # i
    /\ m_interval_ms' = [m_interval_ms EXCEPT ![t] = i]
    /\ m_interval_dirty' = [m_interval_dirty EXCEPT ![t] = TRUE]
    /\ UNCHANGED <<m_active, m_timer_id, interval, timeoutVars, events, stage,
                   historyVars>>

-----------------------------------------------------------------------------
(***************************************************************************)
(* The event loop.                                                         *)
(***************************************************************************)

(* The handler of some other event of the batch. *)
OtherHandler ==
    /\ stage = "idle"
    /\ stage' = "handler"
    /\ UNCHANGED <<timerVars, timeoutVars, events, historyVars>>

HandlerReturns ==
    /\ stage = "handler"
    /\ stage' = "idle"
    /\ UNCHANGED <<timerVars, timeoutVars, events, historyVars>>

(* EventReceiver::event: "Too late, the timer was already stopped." *)
TimerEventTooLate(t) ==
    /\ stage = "idle"
    /\ t \in events
    /\ ~m_timer_id[t]
    /\ events' = events \ {t}
    /\ stale' = stale \ {t}
    /\ UNCHANGED <<timerVars, timeoutVars, stage, age, timer_failed>>

(* Timer::timer_event of a single shot timer: stop(), then on_timeout. *)
TimerEventSingleShot(t) ==
    /\ stage = "idle"
    /\ t \in events /\ t \in SingleShot
    /\ m_timer_id[t]
    /\ events' = events \ {t}
    /\ stage' = "handler"
    /\ stale' = stale \ {t}
    /\ m_active' = [m_active EXCEPT ![t] = FALSE]
    /\ m_timer_id' = [m_timer_id EXCEPT ![t] = FALSE]
    /\ m_index' = IndexWithout(t, INVALID_INDEX)
    /\ m_scheduled_timeouts' = WithoutTimeout(t)
    /\ timer_failed' = (timer_failed \/ WrongTimeout(t))
    /\ UNCHANGED <<m_interval_ms, m_interval_dirty, interval, due, age>>

(* Timer::timer_event of a repeating timer; one whose interval was ever    *)
(* changed is stopped and started again, and stays dirty.                  *)
TimerEventRepeating(t) ==
    /\ stage = "idle"
    /\ t \in events /\ t \notin SingleShot
    /\ m_timer_id[t]
    /\ ~m_interval_dirty[t]
    /\ events' = events \ {t}
    /\ stage' = "handler"
    /\ stale' = stale \ {t}
    /\ UNCHANGED <<timerVars, timeoutVars, age, timer_failed>>

TimerEventDirty(t) ==
    /\ stage = "idle"
    /\ t \in events /\ t \notin SingleShot
    /\ m_timer_id[t]
    /\ m_interval_dirty[t]
    /\ events' = events \ {t}
    /\ stage' = "handler"
    /\ stale' = stale \ {t}
    /\ StartTimer(t, m_interval_ms[t])
    /\ m_index' = IndexWithout(t, InHeap)
    /\ m_scheduled_timeouts' = WithoutTimeout(t)
    /\ timer_failed' = (timer_failed \/ WrongTimeout(t))
    /\ UNCHANGED m_interval_dirty

(* wait_for_events, once the batch is done: absolutize_relative_timeouts   *)
(* makes every relative timeout (their duration is zero) due now.          *)
Absolutize ==
    /\ stage = "idle"
    /\ events = {}
    /\ stage' = "poll"
    /\ due' = [t \in Timers |-> IF m_index[t] < 0 THEN 0 ELSE due[t]]
    /\ m_index' = [t \in Timers |-> IF m_index[t] < 0 THEN InHeap ELSE m_index[t]]
    /\ m_scheduled_timeouts' = <<>>
    /\ UNCHANGED <<timerVars, events, historyVars>>

PollReturns ==
    /\ stage = "poll"
    /\ stage' = "fire"
    /\ UNCHANGED <<timerVars, timeoutVars, events, historyVars>>

Expired == {t \in Timers : m_index[t] = InHeap /\ due[t] <= 0}

(* The time of the next expiry of a timer that fires now. *)
NextDue(t) == IF due[t] + interval[t] <= 0 THEN interval[t] ELSE due[t] + interval[t]

(* Mutated form: a zero interval scheduled like any other. *)
FireAbsolute(t) ==
    /\ stage = "fire"
    /\ t \in Expired
    /\ due' = [due EXCEPT ![t] = NextDue(t)]
    /\ m_index' = m_index
    /\ UNCHANGED m_scheduled_timeouts
    /\ events' = events \union {t}
    /\ UNCHANGED <<timerVars, stage, historyVars>>

(* TimeoutSet::fire_expired takes the earliest timer; EventLoopTimer::fire *)
(* reschedules it and queues a TimerEvent.  A timer that would expire at   *)
(* once again goes to the relative timeouts.                               *)
FireExpired(t) ==
    /\ stage = "fire"
    /\ t \in Expired
    /\ \A u \in Expired : due[t] <= due[u]
    /\ due' = [due EXCEPT ![t] = NextDue(t)]
    /\ m_index' = [m_index EXCEPT ![t] =
                     IF NextDue(t) # 0 THEN InHeap ELSE -1 - Len(m_scheduled_timeouts)]
    /\ m_scheduled_timeouts' = IF NextDue(t) # 0 THEN m_scheduled_timeouts
                               ELSE Append(m_scheduled_timeouts, t)
    /\ events' = events \union {t}
    /\ UNCHANGED <<timerVars, stage, historyVars>>

FireDone ==
    /\ stage = "fire"
    /\ Expired = {}
    /\ stage' = "idle"
    /\ UNCHANGED <<timerVars, timeoutVars, events, historyVars>>

(* Time passes; fire_expired works with the time at which poll returned. *)
Tick ==
    /\ stage # "fire"
    /\ due' = [t \in Timers |->
                 IF m_index[t] = InHeap /\ due[t] > -MaxInterval THEN due[t] - 1 ELSE due[t]]
    /\ age' = [t \in Timers |-> IF age[t] < MaxInterval THEN age[t] + 1 ELSE age[t]]
    /\ UNCHANGED <<timerVars, m_index, m_scheduled_timeouts, events, stage, stale,
                   timer_failed>>

-----------------------------------------------------------------------------

TimerLoopStep ==
    \/ HandlerReturns \/ Absolutize \/ PollReturns \/ FireDone
    \/ \E t \in Timers :
         \/ TimerEventTooLate(t) \/ TimerEventSingleShot(t)
         \/ TimerEventRepeating(t) \/ TimerEventDirty(t) \/ FireExpired(t)

Call ==
    \E t \in Timers :
        stop(t) \/ \E i \in Intervals : start(t, i) \/ restart(t, i) \/ set_interval(t, i)

TimerNext == TimerLoopStep \/ OtherHandler \/ Call \/ Tick

(***************************************************************************)
(* Handlers return, the batch of events is finite, poll() returns at the   *)
(* latest when a timer has expired, and time passes.                       *)
(***************************************************************************)
TimerFairness ==
    /\ WF_timingVars(HandlerReturns) /\ WF_timingVars(FireDone)
    /\ SF_timingVars(Absolutize)
    /\ WF_timingVars(Expired # {} /\ PollReturns)
    /\ \A t \in Timers :
         /\ SF_timingVars(TimerEventTooLate(t) \/ TimerEventSingleShot(t)
                      \/ TimerEventRepeating(t) \/ TimerEventDirty(t))
         /\ WF_timingVars(FireExpired(t))
    /\ SF_timingVars(Tick)

TimerSpec == TimerInit /\ [][TimerNext]_timingVars /\ TimerFairness

-----------------------------------------------------------------------------
(***************************************************************************)
(* Properties.                                                             *)
(***************************************************************************)

(* Types; a negative index points into m_scheduled_timeouts. *)
TimerTypeOK ==
    /\ m_active \in [Timers -> BOOLEAN]
    /\ m_interval_ms \in [Timers -> Intervals]
    /\ m_interval_dirty \in [Timers -> BOOLEAN]
    /\ m_timer_id \in [Timers -> BOOLEAN]
    /\ interval \in [Timers -> Intervals]
    /\ due \in [Timers -> -MaxInterval .. MaxInterval]
    /\ m_scheduled_timeouts \in Seq(Timers)
    /\ m_index \in [Timers -> -Len(m_scheduled_timeouts) .. INVALID_INDEX]
    /\ events \subseteq Timers
    /\ stage \in {"idle", "handler", "poll", "fire"}
    /\ age \in [Timers -> Intervals]
    /\ stale \subseteq events /\ timer_failed \in BOOLEAN

(* The indices kept in the timers and the vector of relative timeouts      *)
(* agree, through every swap made by unschedule(), so neither its VERIFY   *)
(* nor the "already has a timer" of start_timer() can fail.                *)
IndexConsistent ==
    /\ \A t \in Timers : m_index[t] < 0 => /\ -m_index[t] <= Len(m_scheduled_timeouts)
                                           /\ m_scheduled_timeouts[-m_index[t]] = t
    /\ \A i \in 1 .. Len(m_scheduled_timeouts) : m_index[m_scheduled_timeouts[i]] = -i
    /\ ~timer_failed

(* A started timer is always scheduled, in the heap or among the relative  *)
(* timeouts, and a stopped one never: fire() reschedules before it posts.  *)
ActiveIsScheduled ==
    \A t \in Timers :
        /\ m_active[t] <=> m_timer_id[t]
        /\ m_active[t] <=> m_index[t] # INVALID_INDEX

(* The three places that know about a timer agree at all times: the timer  *)
(* itself, its receiver, and the TimeoutSet.                               *)
TimersConsistent == TimerTypeOK /\ IndexConsistent /\ ActiveIsScheduled

(* A started timer posts its event unless it is stopped or started anew;   *)
(* and fire_expired() ends, timers with a zero interval included.          *)
TimersFire ==
    /\ \A t \in Timers :
         m_active[t] /\ age[t] > 0 ~> t \in events \/ ~m_active[t] \/ age[t] = 0
    /\ stage = "fire" ~> stage # "fire"

(* on_timeout is called only when the interval the timer was last started  *)
(* with has passed, with one exception: event() only asks whether some     *)
(* timer is registered, so a TimerEvent that was queued before the timer   *)
(* was stopped and started again is taken for one of the new run.          *)
EarlyOnlyByStaleEvent ==
    [][\A t \in Timers :
         t \in events \ events' /\ m_timer_id[t] /\ t \notin stale
           => age[t] >= interval[t]]_timingVars

=============================================================================
