---------------------------- MODULE WorkerThread ----------------------------
(***************************************************************************)
(* Threading::WorkerThread (Libraries/LibThreading/WorkerThread.h): one    *)
(* thread that runs one task at a time for its clients, a mutex and one    *)
(* condition variable for everybody.                                       *)
(*                                                                         *)
(* m_mutex is held from every lock() to the unlock() or wait() that ends   *)
(* it, so what a thread does between the two is one action.  A thread in   *)
(* "wait" is in m_condition.wait(); a broadcast, or a spurious wakeup that *)
(* POSIX allows, lets it go on.  For the worker that is the top of its     *)
(* loop: it unlocks and locks the mutex again and looks at nothing between.*)
(***************************************************************************)
EXTENDS Naturals

CONSTANTS
    Clients,        \* the threads that start tasks and wait for them
    MaxTasks        \* bound: tasks that are ever started

ASSUME WorkerAssumption == MaxTasks \in Nat

VARIABLES
    m_state,    \* the variant: a State, a WorkerTask or an ErrorType
    m_stop,
    worker,     \* where the worker is
    client,     \* where each client is
    destructor,      \* where the thread is that destroys the object
    started,    \* history: tasks accepted by start_task()
    finished,   \* history: tasks that have returned
    ticket,     \* history: the last task each client has started
    errors      \* history: failed tasks, and what became of their errors

wtVars == <<m_state, m_stop, worker, client, destructor, started, finished, ticket, errors>>

WTInit ==
    /\ m_state = "Idle"
    /\ m_stop = FALSE
    /\ worker = "top"
    /\ client = [c \in Clients |-> "outside"]
    /\ destructor = "outside"
    /\ started = 0
    /\ finished = 0
    /\ ticket = [c \in Clients |-> 0]
    /\ errors = [failed |-> 0, returned |-> 0, ignored |-> 0]

(* m_condition.broadcast() *)
Awake(place) == IF place = "wait" THEN "top" ELSE place
BroadcastWorker == worker' = Awake(worker)
BroadcastClients == client' = [c \in Clients |-> Awake(client[c])]
BroadcastOwner == destructor' = Awake(destructor)

-----------------------------------------------------------------------------
(***************************************************************************)
(* The worker's loop.                                                      *)
(***************************************************************************)

WorkerStop ==
    /\ worker = "top"
    /\ m_stop
    /\ m_state' = "Stopped"
    /\ worker' = "exited"
    /\ BroadcastClients
    /\ BroadcastOwner
    /\ UNCHANGED <<m_stop, started, finished, ticket, errors>>

WorkerTakeTask ==
    /\ worker = "top"
    /\ ~m_stop
    /\ m_state = "Task"
    /\ m_state' = "Working"
    /\ worker' = "task"
    /\ UNCHANGED <<m_stop, client, destructor, started, finished, ticket, errors>>

(* No task: m_condition.wait(). *)
WorkerWait ==
    /\ worker = "top"
    /\ ~m_stop
    /\ m_state # "Task"
    /\ worker' = "wait"
    /\ UNCHANGED <<m_state, m_stop, client, destructor, started, finished, ticket, errors>>

(* Mutated form: nobody is told that the task has finished. *)
FinishSilently(result) ==
    /\ worker = "task"
    /\ m_state' = result
    /\ finished' = finished + 1
    /\ errors' = [errors EXCEPT !.failed = IF result = "Error" THEN @ + 1 ELSE @]
    /\ worker' = "wait"
    /\ UNCHANGED <<client, destructor, m_stop, started, ticket>>

(* task() returns; the worker stores the result and waits at once: it does *)
(* not look at m_stop before.                                              *)
WorkerFinish(result) ==
    /\ worker = "task"
    /\ m_state' = result
    /\ finished' = finished + 1
    /\ errors' = [errors EXCEPT !.failed = IF result = "Error" THEN @ + 1 ELSE @]
    /\ worker' = "wait"
    /\ BroadcastClients
    /\ BroadcastOwner
    /\ UNCHANGED <<m_stop, started, ticket>>

-----------------------------------------------------------------------------
(***************************************************************************)
(* Clients.  Nobody calls a member function once the destructor runs.      *)
(***************************************************************************)

(* Mutated forms of what start_task() accepts and what the wait is for. *)
StartsAlways == TRUE
PendingWorking == m_state = "Working"

StartsWork == m_state \in {"Idle", "Error"}

Pending == m_state \in {"Task", "Working"}

Accepted(c) ==
    /\ destructor = "outside" /\ client[c] = "outside"
    /\ started < MaxTasks
    /\ StartsWork
    /\ m_state' = "Task"
    /\ started' = started + 1
    /\ ticket' = [ticket EXCEPT ![c] = started + 1]
    /\ errors' = [errors EXCEPT !.ignored = IF m_state = "Error" THEN @ + 1 ELSE @]

(* start_task() that returns true; otherwise it changes nothing. *)
start_task(c) ==
    /\ Accepted(c)
    /\ BroadcastWorker
    /\ BroadcastClients
    /\ BroadcastOwner
    /\ UNCHANGED <<m_stop, finished>>

wait_until_task_is_finished(c) ==
    /\ destructor = "outside" /\ client[c] = "outside"
    /\ client' = [client EXCEPT ![c] = "top"]
    /\ UNCHANGED <<m_state, m_stop, worker, destructor, started, finished, ticket, errors>>

WaitForTask(c) ==
    /\ client[c] = "top"
    /\ Pending
    /\ client' = [client EXCEPT ![c] = "wait"]
    /\ UNCHANGED <<m_state, m_stop, worker, destructor, started, finished, ticket, errors>>

(* Mutated form: the error stays behind. *)
KeepError(c) ==
    /\ client[c] = "top"
    /\ m_state = "Error"
    /\ client' = [client EXCEPT ![c] = "outside"]
    /\ errors' = [errors EXCEPT !.returned = @ + 1]
    /\ UNCHANGED <<m_state, m_stop, worker, destructor, started, finished, ticket>>

WaitReturnsError(c) ==
    /\ client[c] = "top"
    /\ m_state = "Error"
    /\ m_state' = "Idle"
    /\ client' = [client EXCEPT ![c] = "outside"]
    /\ errors' = [errors EXCEPT !.returned = @ + 1]
    /\ UNCHANGED <<m_stop, worker, destructor, started, finished, ticket>>

WaitReturns(c) ==
    /\ client[c] = "top"
    /\ ~Pending /\ m_state # "Error"
    /\ client' = [client EXCEPT ![c] = "outside"]
    /\ UNCHANGED <<m_state, m_stop, worker, destructor, started, finished, ticket, errors>>

-----------------------------------------------------------------------------
(***************************************************************************)
(* The destructor.                                                         *)
(***************************************************************************)

MayDestroy ==
    /\ destructor = "outside"
    /\ \A c \in Clients : client[c] = "outside"

Destroy ==
    /\ MayDestroy
    /\ m_stop' = TRUE
    /\ destructor' = "top"
    /\ BroadcastWorker
    /\ UNCHANGED <<m_state, client, started, finished, ticket, errors>>

DestroyWait ==
    /\ destructor = "top"
    /\ m_state # "Stopped"
    /\ destructor' = "wait"
    /\ UNCHANGED <<m_state, m_stop, worker, client, started, finished, ticket, errors>>

(* The loop ends; m_thread->join() returns, the worker having exited. *)
DestroyJoin ==
    /\ destructor = "top"
    /\ m_state = "Stopped"
    /\ worker = "exited"
    /\ destructor' = "joined"
    /\ UNCHANGED <<m_state, m_stop, worker, client, started, finished, ticket, errors>>

SpuriousWakeup ==
    /\ \/ /\ worker = "wait"
          /\ worker' = "top"
          /\ UNCHANGED <<client, destructor>>
       \/ /\ destructor = "wait"
          /\ destructor' = "top"
          /\ UNCHANGED <<worker, client>>
       \/ \E c \in Clients :
            /\ client[c] = "wait"
            /\ client' = [client EXCEPT ![c] = "top"]
            /\ UNCHANGED <<worker, destructor>>
    /\ UNCHANGED <<m_state, m_stop, started, finished, ticket, errors>>

-----------------------------------------------------------------------------

WorkerStep ==
    \/ WorkerStop \/ WorkerTakeTask \/ WorkerWait
    \/ \E result \in {"Idle", "Error"} : WorkerFinish(result)

ClientStep(c) == WaitForTask(c) \/ WaitReturnsError(c) \/ WaitReturns(c)

OwnerStep == DestroyWait \/ DestroyJoin

WTNext ==
    \/ WorkerStep
    \/ \E c \in Clients :
         start_task(c) \/ wait_until_task_is_finished(c) \/ ClientStep(c)
    \/ Destroy \/ OwnerStep
    \/ SpuriousWakeup

(***************************************************************************)
(* Tasks return and runnable threads run.  Nobody has to start a task or   *)
(* destroy the object, and no spurious wakeup ever has to come.            *)
(***************************************************************************)
WTFairness ==
    /\ WF_wtVars(WorkerStep)
    /\ \A c \in Clients : WF_wtVars(ClientStep(c))
    /\ WF_wtVars(OwnerStep)

WTSpec == WTInit /\ [][WTNext]_wtVars /\ WTFairness

-----------------------------------------------------------------------------
(***************************************************************************)
(* Properties.                                                             *)
(***************************************************************************)

(* Types.  The state is Working exactly while the worker runs a task: the  *)
(* mutex is not held then, and nothing else may change the state.          *)
WTTypeOK ==
    /\ m_state \in {"Idle", "Working", "Stopped", "Task", "Error"}
    /\ m_stop \in BOOLEAN
    /\ worker \in {"top", "task", "wait", "exited"}
    /\ client \in [Clients -> {"outside", "top", "wait"}]
    /\ destructor \in {"outside", "top", "wait", "joined"}
    /\ started \in Nat /\ finished \in Nat
    /\ ticket \in [Clients -> Nat]
    /\ errors \in [failed : Nat, returned : Nat, ignored : Nat]
    /\ worker = "task" <=> m_state = "Working"

(* One task at a time: those accepted before the one in m_state have all   *)
(* finished, so a task is run exactly once, unless the object is destroyed *)
(* before the worker takes it.                                             *)
OneTaskAtATime == m_state # "Stopped" => started = finished + (IF Pending THEN 1 ELSE 0)

(* The error of a failed task is returned by one wait, overwritten by the  *)
(* next start_task(), or still there; never lost and never returned twice. *)
ErrorAccounted ==
    m_state # "Stopped" =>
        errors.failed = errors.returned + errors.ignored + (IF m_state = "Error" THEN 1 ELSE 0)

(* A wait returns only when the task its caller has started has finished.  *)
WaitMeansDone ==
    [][\A c \in Clients : client[c] = "top" /\ client'[c] = "outside" => finished >= ticket[c]]_wtVars

(* Nobody waits for ever: a started task is run, unless the object is      *)
(* destroyed; wait_until_task_is_finished() returns (other clients start   *)
(* boundedly many tasks: with ever new ones it might never see an idle     *)
(* worker); and the destructor joins the worker, unless it finds a task    *)
(* running: the worker misses the broadcast while it runs the task and     *)
(* then waits without looking at m_stop, for the owner that waits for      *)
(* Stopped.                                                                *)
CallsReturn ==
    /\ \A n \in 1 .. MaxTasks : started = n ~> finished >= n \/ m_stop
    /\ \A c \in Clients : client[c] # "outside" ~> client[c] = "outside"
    /\ [](m_stop => worker # "task") => (destructor # "outside" ~> destructor = "joined")

=============================================================================
