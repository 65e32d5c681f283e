-------------------------- MODULE BackgroundAction --------------------------
(***************************************************************************)
(* Threading::BackgroundAction (BackgroundAction.h and .cpp of             *)
(* Libraries/LibThreading): actions constructed on one thread with an      *)
(* event loop run on the background thread of the process, one after the   *)
(* other, and report back through the loop.  quit_background_thread() ends *)
(* that thread, and the next action starts a new one.                      *)
(*                                                                         *)
(* What the threads do under s_mutex is one action.  Actions are           *)
(* numbered in the order in which they are constructed.                    *)
(***************************************************************************)
EXTENDS Naturals, Sequences, FiniteSets, Functions

CONSTANTS
    MaxActions,     \* bound: actions that are ever constructed
    MaxQuits,       \* bound: calls of quit_background_thread()
    WithComplete    \* the actions that have a completion callback

ASSUME ActionAssumption ==
    MaxActions \in Nat /\ MaxQuits \in Nat /\ WithComplete \subseteq 1 .. MaxActions

VARIABLES
    constructed,    \* the number of actions constructed so far
    s_all_actions,  \* the queue
    should_run,     \* s_background_thread_should_run
    thread,         \* where the background thread is; "none" if there is none
    actions,        \* its local vector; the first is the one it is at
    owner,          \* where the constructing thread is
    quits,          \* calls of quit_background_thread()
    loop,           \* the event loop: "running", "quit" or "gone"
    events,         \* what the background thread has deferred to the loop
    jobs,           \* pending_promises of the loop's thread
    m_canceled, rejected,   \* the action and its promise
    completed, errored,     \* history: calls of m_on_complete and m_on_error
    dropped,        \* history: actions that will never be run
    intime,         \* history: actions cancelled before that was decided
    dangling        \* history: actions that used origin_event_loop after its end

vars == <<constructed, s_all_actions, should_run, thread, actions, owner, quits,
          loop, events, jobs, m_canceled, rejected, completed, errored, dropped,
          intime, dangling>>

Actions == 1 .. MaxActions

Init ==
    /\ constructed = 0
    /\ s_all_actions = <<>>
    /\ should_run = TRUE
    /\ thread = "none"
    /\ actions = <<>>
    /\ owner = "loop"
    /\ quits = 0
    /\ loop = "running"
    /\ events = <<>>
    /\ jobs = {}
    /\ m_canceled = {} /\ rejected = {}
    /\ completed = [a \in Actions |-> 0]
    /\ errored = [a \in Actions |-> 0]
    /\ dropped = {} /\ intime = {} /\ dangling = {}

-----------------------------------------------------------------------------
(***************************************************************************)
(* background_thread_func()                                                *)
(***************************************************************************)

(* The condition of the outer loop. *)
LoopCheck ==
    /\ thread = "top"
    /\ thread' = IF should_run THEN "lock" ELSE "exited"
    /\ UNCHANGED <<constructed, s_all_actions, should_run, actions, owner, quits, loop,
                   events, jobs, m_canceled, rejected, completed, errored, dropped,
                   intime, dangling>>

WaitForActions ==
    /\ thread = "lock"
    /\ s_all_actions = <<>> /\ should_run
    /\ thread' = "wait"
    /\ UNCHANGED <<constructed, s_all_actions, should_run, actions, owner, quits, loop,
                   events, jobs, m_canceled, rejected, completed, errored, dropped,
                   intime, dangling>>

TakeActions ==
    /\ thread = "lock"
    /\ s_all_actions # <<>> \/ ~should_run
    /\ actions' = s_all_actions
    /\ s_all_actions' = <<>>
    /\ thread' = "batch"
    /\ UNCHANGED <<constructed, should_run, owner, quits, loop, events, jobs, m_canceled,
                   rejected, completed, errored, dropped, intime, dangling>>

BatchDone ==
    /\ thread = "batch"
    /\ actions = <<>>
    /\ thread' = "top"
    /\ UNCHANGED <<constructed, s_all_actions, should_run, actions, owner, quits, loop,
                   events, jobs, m_canceled, rejected, completed, errored, dropped,
                   intime, dangling>>

RunAction ==
    /\ thread = "batch"
    /\ actions # <<>>
    /\ should_run
    /\ thread' = "action"
    /\ UNCHANGED <<constructed, s_all_actions, should_run, actions, owner, quits, loop,
                   events, jobs, m_canceled, rejected, completed, errored, dropped,
                   intime, dangling>>

SkipAction ==
    /\ thread = "batch"
    /\ actions # <<>>
    /\ ~should_run
    /\ dropped' = dropped \union {Head(actions)}
    /\ actions' = Tail(actions)
    /\ UNCHANGED <<constructed, s_all_actions, should_run, thread, owner, quits, loop,
                   events, jobs, m_canceled, rejected, completed, errored, intime, dangling>>

(* Mutated form: a promise rejected by the loop is not looked at. *)
CanceledOnly(a) == a \in m_canceled

(* self->m_canceled |= self->m_promise->is_rejected() *)
Canceled(a) == a \in m_canceled \union rejected

(* Promise::resolve() and reject(): the last one counts. *)
Resolved(a) == rejected \ {a}
Rejected(as) == rejected \union as

(* origin_event_loop->deferred_invoke() and wake(), on a raw pointer.  If  *)
(* the loop is gone the pointer dangles: the process may end there, and if *)
(* it goes on nothing comes of the call.                                   *)
Defer(a, callback) ==
    IF loop = "gone"
    THEN dangling' = dangling \union {a} /\ UNCHANGED events
    ELSE events' = Append(events, <<a, callback>>) /\ UNCHANGED dangling

(* The action returns, and whether it was cancelled is looked at, once, and *)
(* written back: a cancel() between the two is lost, a step that changes    *)
(* nothing, and one after them comes too late.                              *)
ActionReturns(a, fails) ==
    /\ thread = "action" /\ a = Head(actions)
    /\ thread' = IF Canceled(a) THEN "canceled" ELSE IF fails THEN "error" ELSE "complete"
    /\ m_canceled' = IF Canceled(a) THEN m_canceled \union {a} ELSE m_canceled
    /\ UNCHANGED <<constructed, s_all_actions, should_run, actions, owner, quits, loop,
                   events, jobs, rejected, completed, errored, dropped, intime, dangling>>

(* It has a value: m_on_complete, if there is one, is called by the loop. *)
FinishComplete(a) ==
    /\ thread = "complete" /\ a = Head(actions)
    /\ actions' = Tail(actions)
    /\ thread' = "batch"
    /\ IF a \in WithComplete THEN Defer(a, "complete") ELSE UNCHANGED <<events, dangling>>
    /\ UNCHANGED <<constructed, s_all_actions, should_run, owner, quits, loop, jobs,
                   m_canceled, rejected, completed, errored, dropped, intime>>

(* It has an error: m_on_error is called by the loop. *)
FinishError(a) ==
    /\ thread = "error" /\ a = Head(actions)
    /\ a \notin m_canceled
    /\ actions' = Tail(actions)
    /\ thread' = "batch"
    /\ rejected' = Rejected({a})
    /\ Defer(a, "error")
    /\ UNCHANGED <<constructed, s_all_actions, should_run, owner, quits, loop, jobs,
                   m_canceled, completed, errored, dropped, intime>>

(* It is cancelled, by now: m_on_error is called at once, on this thread. *)
FinishCanceled(a) ==
    /\ thread \in {"canceled", "error"} /\ a = Head(actions)
    /\ a \in m_canceled
    /\ actions' = Tail(actions)
    /\ thread' = "batch"
    /\ rejected' = Rejected({a})
    /\ errored' = [errored EXCEPT ![a] = @ + 1]
    /\ UNCHANGED <<constructed, s_all_actions, should_run, owner, quits, loop, events,
                   jobs, m_canceled, completed, dropped, intime, dangling>>

-----------------------------------------------------------------------------
(***************************************************************************)
(* The constructing thread.                                                *)
(***************************************************************************)

InHandler == owner = "loop" /\ loop # "gone"

(* pthread_cond_broadcast(&s_condition) *)
Broadcast(place) == IF place = "wait" THEN "lock" ELSE place

(* enqueue_work(): init() if there is no thread, else it is woken. *)
Started(place) == IF place = "none" THEN "top" ELSE Broadcast(place)

(* The constructor: add_job() and enqueue_work(). *)
Construct ==
    /\ InHandler
    /\ constructed < MaxActions
    /\ constructed' = constructed + 1
    /\ s_all_actions' = Append(s_all_actions, constructed + 1)
    /\ jobs' = jobs \union ({constructed + 1} \intersect WithComplete)
    /\ thread' = Started(thread)
    /\ UNCHANGED <<should_run, actions, owner, quits, loop, events, m_canceled, rejected,
                   completed, errored, dropped, intime, dangling>>

(* The actions that have not yet finished. *)
Unfinished == Range(s_all_actions) \union Range(actions)

(* The actions of which it is not yet decided whether they were cancelled. *)
Undecided ==
    IF thread \in {"complete", "error", "canceled"}
    THEN Range(s_all_actions) \union Range(Tail(actions))
    ELSE Unfinished

cancel(a) ==
    /\ InHandler
    /\ a <= constructed
    /\ a \notin m_canceled
    /\ m_canceled' = m_canceled \union {a}
    /\ intime' = IF a \in Undecided THEN intime \union {a} ELSE intime
    /\ UNCHANGED <<constructed, s_all_actions, should_run, thread, actions, owner, quits,
                   loop, events, jobs, rejected, completed, errored, dropped, dangling>>

(* process() forgets the promises that are settled when it takes the next  *)
(* batch of events.                                                        *)
ForgetSettled ==
    /\ InHandler
    /\ jobs' = {a \in jobs : a \notin rejected /\ completed[a] = 0}
    /\ UNCHANGED <<constructed, s_all_actions, should_run, thread, actions, owner, quits,
                   loop, events, m_canceled, rejected, completed, errored, dropped,
                   intime, dangling>>

(* A deferred completion: resolve() calls m_on_complete, and m_on_error if *)
(* that fails.                                                             *)
RunComplete(fails) ==
    /\ InHandler
    /\ events # <<>> /\ Head(events)[2] = "complete"
    /\ events' = Tail(events)
    /\ LET a == Head(events)[1] IN
         /\ completed' = [completed EXCEPT ![a] = @ + 1]
         /\ errored' = [errored EXCEPT ![a] = IF fails THEN @ + 1 ELSE @]
         /\ rejected' = Resolved(a)
    /\ UNCHANGED <<constructed, s_all_actions, should_run, thread, actions, owner, quits,
                   loop, jobs, m_canceled, dropped, intime, dangling>>

RunError ==
    /\ InHandler
    /\ events # <<>> /\ Head(events)[2] = "error"
    /\ events' = Tail(events)
    /\ errored' = [errored EXCEPT ![Head(events)[1]] = @ + 1]
    /\ UNCHANGED <<constructed, s_all_actions, should_run, thread, actions, owner, quits,
                   loop, jobs, m_canceled, rejected, completed, dropped, intime, dangling>>

(* EventLoop::quit() rejects the promises of the pending jobs. *)
QuitLoop ==
    /\ InHandler
    /\ loop = "running"
    /\ loop' = "quit"
    /\ rejected' = Rejected(jobs)
    /\ intime' = intime \union (jobs \intersect Undecided)
    /\ jobs' = {}
    /\ UNCHANGED <<constructed, s_all_actions, should_run, thread, actions, owner, quits,
                   events, m_canceled, completed, errored, dropped, dangling>>

(* exec() has returned and the EventLoop is destroyed; what is left in the *)
(* queue of the thread is not handled any more.                            *)
DestroyLoop ==
    /\ InHandler
    /\ loop = "quit"
    /\ loop' = "gone"
    /\ UNCHANGED <<constructed, s_all_actions, should_run, thread, actions, owner, quits,
                   events, jobs, m_canceled, rejected, completed, errored, dropped,
                   intime, dangling>>

(***************************************************************************)
(* quit_background_thread()                                                *)
(***************************************************************************)

QuitStore ==
    /\ InHandler
    /\ thread # "none"
    /\ quits < MaxQuits
    /\ quits' = quits + 1
    /\ should_run' = FALSE
    /\ owner' = "stored"
    /\ UNCHANGED <<constructed, s_all_actions, thread, actions, loop, events, jobs,
                   m_canceled, rejected, completed, errored, dropped, intime, dangling>>

(* Mutated form: the waiting thread is not woken. *)
QuitSilently ==
    /\ owner = "stored"
    /\ owner' = "join"
    /\ UNCHANGED <<constructed, s_all_actions, should_run, thread, actions, quits, loop,
                   events, jobs, m_canceled, rejected, completed, errored, dropped,
                   intime, dangling>>

QuitBroadcast ==
    /\ owner = "stored"
    /\ thread' = Broadcast(thread)
    /\ owner' = "join"
    /\ UNCHANGED <<constructed, s_all_actions, should_run, actions, quits, loop, events,
                   jobs, m_canceled, rejected, completed, errored, dropped, intime, dangling>>

(* The join returns; the queue is deleted with what is in it. *)
QuitJoin ==
    /\ owner = "join"
    /\ thread = "exited"
    /\ dropped' = dropped \union Range(s_all_actions)
    /\ s_all_actions' = <<>>
    /\ thread' = "none"
    /\ should_run' = TRUE
    /\ owner' = "loop"
    /\ UNCHANGED <<constructed, actions, quits, loop, events, jobs, m_canceled, rejected,
                   completed, errored, intime, dangling>>

-----------------------------------------------------------------------------

ThreadStep ==
    \/ LoopCheck \/ WaitForActions \/ TakeActions \/ BatchDone \/ RunAction \/ SkipAction
    \/ \E a \in Actions :
         \/ \E fails \in BOOLEAN : ActionReturns(a, fails)
         \/ FinishComplete(a) \/ FinishError(a) \/ FinishCanceled(a)

LoopStep == RunError \/ \E fails \in BOOLEAN : RunComplete(fails)

QuitStep == QuitBroadcast \/ QuitJoin

Next ==
    \/ ThreadStep \/ LoopStep \/ QuitStep
    \/ Construct \/ (\E a \in Actions : cancel(a))
    \/ ForgetSettled \/ QuitLoop \/ DestroyLoop \/ QuitStore

(* Both threads run, and actions return. *)
Fairness == WF_vars(ThreadStep) /\ WF_vars(LoopStep) /\ WF_vars(QuitStep)

Spec == Init /\ [][Next]_vars /\ Fairness

-----------------------------------------------------------------------------
(***************************************************************************)
(* Properties.                                                             *)
(***************************************************************************)

(* Types; only a thread that runs a batch has actions in its vector, and   *)
(* only while it is being ended is the thread told not to run.             *)
TypeOK ==
    /\ constructed \in 0 .. MaxActions /\ quits \in 0 .. MaxQuits
    /\ s_all_actions \in Seq(Actions) /\ actions \in Seq(Actions)
    /\ thread \in {"none", "top", "lock", "wait", "batch", "action", "complete", "error",
                  "canceled", "exited"}
    /\ owner \in {"loop", "stored", "join"}
    /\ loop \in {"running", "quit", "gone"}
    /\ events \in Seq(Actions \X {"complete", "error"})
    /\ m_canceled \subseteq Actions /\ rejected \subseteq Actions
    /\ dangling \subseteq Actions
    /\ jobs \subseteq WithComplete
    /\ completed \in [Actions -> Nat] /\ errored \in [Actions -> Nat]
    /\ actions # <<>> => thread \in {"batch", "action", "complete", "error", "canceled"}
    /\ should_run <=> owner = "loop"

(* An action is in one place only, and its callbacks are called once: with *)
(* m_on_error after m_on_complete only if that one has failed, which the   *)
(* action itself had not.  An action that was cancelled, or whose loop was *)
(* quit, before it had returned never completes, and it never uses the     *)
(* loop's pointer after the loop is destroyed, which other actions may do: *)
(* one that had returned before the quit, or one without m_on_complete,    *)
(* of which the loop does not know, and that fails.                        *)
CallbackOnce ==
    /\ TypeOK
    /\ Cardinality(Unfinished) = Len(s_all_actions) + Len(actions)
    /\ \A a \in Actions :
         /\ completed[a] <= 1 /\ errored[a] <= 1
         /\ a \in intime => completed[a] = 0 /\ a \notin dangling
         /\ a \in Unfinished => completed[a] + errored[a] = 0
         /\ \A i \in DOMAIN events : events[i][1] = a =>
              a \notin Unfinished /\ completed[a] + errored[a] = 0

(* Every action finishes: a callback is called if it has one to call,      *)
(* unless the background thread or the loop is ended before.  And          *)
(* quit_background_thread() returns: the thread cannot miss the broadcast. *)
ActionsSettle ==
    /\ \A a \in Actions :
         constructed >= a ~>
            \/ completed[a] + errored[a] > 0
            \/ a \notin WithComplete /\ a \notin Unfinished
            \/ a \in dropped \/ loop = "gone"
    /\ owner # "loop" ~> owner = "loop"

=============================================================================
