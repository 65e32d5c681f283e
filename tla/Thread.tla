------------------------------- MODULE Thread -------------------------------
(***************************************************************************)
(* Threading::Thread (Libraries/LibThreading/Thread.{h,cpp}): the life of  *)
(* a pthread that is wrapped by a reference counted object whose atomic    *)
(* m_state is raced for by the new thread and by its owner.                *)
(*                                                                         *)
(* Every thread has one owner, which holds one reference and calls the     *)
(* member functions one after the other, and the worker, which holds the   *)
(* reference that start() leaks into pthread_create.  Each atomic access   *)
(* to m_state and each pthread call is a step of its own.                  *)
(***************************************************************************)
EXTENDS Naturals, FiniteSets

CONSTANT Threads        \* the Thread objects of the process

VARIABLES
    m_state,            \* Thread::m_state
    owner,              \* where the owner is in the member functions
    worker,             \* where the worker is in the lambda of start()
    tid,                \* what the pthread library knows of m_tid
    detach_returned,    \* history: a call of detach() has returned
    verify_failed       \* history: a VERIFY of Thread has failed

threadVars == <<m_state, owner, worker, tid, detach_returned, verify_failed>>

ThreadState ==
    {"Startable", "Running", "Exited", "Detached", "DetachedExited", "Joined"}

(***************************************************************************)
(* "holds" is the owner between two calls.  An owner that released its     *)
(* reference has "dropped" the object if the worker still held the other   *)
(* one; otherwise it is "destroying", in ~Thread, and then has "destroyed". *)
(***************************************************************************)
OwnerPlace == {"holds", "starting", "detaching", "joining", "destroying",
               "dropped", "destroyed"}

(***************************************************************************)
(* "none" before pthread_create; then the action, the two compare-exchange *)
(* steps, the release of self, ~Thread if that was the last reference, and *)
(* the return into the pthread library.                                    *)
(***************************************************************************)
WorkerPlace == {"none", "action", "detached_exit", "release", "destroying",
                "return", "ended"}

(***************************************************************************)
(* External: a joinable or a detached pthread is live; one that ended      *)
(* without being joined or detached stays a zombie; a reaped identifier    *)
(* must not be used again.                                                 *)
(***************************************************************************)
TidState == {"none", "joinable", "detached", "zombie", "reaped"}

ThreadInit ==
    /\ m_state = [t \in Threads |-> "Startable"]
    /\ owner = [t \in Threads |-> "holds"]
    /\ worker = [t \in Threads |-> "none"]
    /\ tid = [t \in Threads |-> "none"]
    /\ detach_returned = [t \in Threads |-> FALSE]
    /\ verify_failed = [t \in Threads |-> FALSE]

(* Mutated form: an exited thread counts as done. *)
OnlyRunning(t) == m_state[t] = "Running"

needs_to_be_joined(t) == m_state[t] \in {"Running", "Exited"}

(***************************************************************************)
(* Mutated forms of the definitions: no reference leaked into the thread,  *)
(* pthread_create without m_tid, the state check of detach() dropped, and  *)
(* detach() without pthread_detach.                                        *)
(***************************************************************************)
NoReferenceInAction(t) == worker[t] \in {"detached_exit", "release"}

CreateWithoutTid(t) ==
    /\ owner[t] = "starting"
    /\ worker' = [worker EXCEPT ![t] = "action"]
    /\ owner' = [owner EXCEPT ![t] = "holds"]
    /\ UNCHANGED <<m_state, tid, detach_returned, verify_failed>>

DetachInAnyState(t) ==
    /\ owner[t] = "holds"
    /\ m_state[t] # "Startable"
    /\ m_state' = [m_state EXCEPT ![t] = "Detached"]
    /\ owner' = [owner EXCEPT ![t] = "detaching"]
    /\ UNCHANGED <<worker, tid, detach_returned, verify_failed>>

DetachWithoutPthread(t) ==
    /\ owner[t] = "holds"
    /\ m_state[t] = "Running"
    /\ m_state' = [m_state EXCEPT ![t] = "Detached"]
    /\ detach_returned' = [detach_returned EXCEPT ![t] = TRUE]
    /\ UNCHANGED <<owner, worker, tid, verify_failed>>

WorkerHoldsReference(t) ==
    worker[t] \in {"action", "detached_exit", "release"}

OwnerHoldsReference(t) ==
    owner[t] \notin {"destroying", "dropped", "destroyed"}

(***************************************************************************)
(* The member functions, called by the owner in the states in which        *)
(* Thread.h allows them.                                                   *)
(***************************************************************************)

(* start(): m_state is set before the thread exists. *)
StartSetRunning(t) ==
    /\ owner[t] = "holds"
    /\ m_state[t] = "Startable"
    /\ m_state' = [m_state EXCEPT ![t] = "Running"]
    /\ owner' = [owner EXCEPT ![t] = "starting"]
    /\ UNCHANGED <<worker, tid, detach_returned, verify_failed>>

StartCreate(t) ==
    /\ owner[t] = "starting"
    /\ worker' = [worker EXCEPT ![t] = "action"]
    /\ tid' = [tid EXCEPT ![t] = "joinable"]
    /\ owner' = [owner EXCEPT ![t] = "holds"]
    /\ UNCHANGED <<m_state, detach_returned, verify_failed>>

(* detach() is called while the thread runs, or was seen running: its      *)
(* compare-exchange finds Running or Exited.                               *)
DetachWins(t) ==
    /\ owner[t] = "holds"
    /\ m_state[t] = "Running"
    /\ m_state' = [m_state EXCEPT ![t] = "Detached"]
    /\ owner' = [owner EXCEPT ![t] = "detaching"]
    /\ UNCHANGED <<worker, tid, detach_returned, verify_failed>>

DetachLoses(t) ==
    /\ owner[t] = "holds"
    /\ m_state[t] = "Exited"
    /\ ~detach_returned[t]
    /\ detach_returned' = [detach_returned EXCEPT ![t] = TRUE]
    /\ UNCHANGED <<m_state, owner, worker, tid, verify_failed>>

PthreadDetach(t) ==
    /\ owner[t] = "detaching"
    /\ verify_failed' =
         [verify_failed EXCEPT ![t] = @ \/ tid[t] \notin {"joinable", "zombie"}]
    /\ tid' = [tid EXCEPT ![t] =
                 IF @ = "zombie" THEN "reaped" ELSE "detached"]
    /\ detach_returned' = [detach_returned EXCEPT ![t] = TRUE]
    /\ owner' = [owner EXCEPT ![t] = "holds"]
    /\ UNCHANGED <<m_state, worker>>

(* join(): VERIFY(needs_to_be_joined()), then pthread_join blocks. *)
JoinCall(t) ==
    /\ owner[t] = "holds"
    /\ needs_to_be_joined(t)
    /\ owner' = [owner EXCEPT ![t] = "joining"]
    /\ UNCHANGED <<m_state, worker, tid, detach_returned, verify_failed>>

JoinReturn(t) ==
    /\ owner[t] = "joining"
    /\ tid[t] = "zombie"
    /\ tid' = [tid EXCEPT ![t] = "reaped"]
    /\ verify_failed' = [verify_failed EXCEPT ![t] = @ \/ m_state[t] # "Exited"]
    /\ m_state' = [m_state EXCEPT ![t] = "Joined"]
    /\ owner' = [owner EXCEPT ![t] = "holds"]
    /\ UNCHANGED <<worker, detach_returned>>

(* The owner lets go of its NonnullRefPtr; the last reference runs ~Thread. *)
OwnerRelease(t) ==
    /\ owner[t] = "holds"
    /\ owner' = [owner EXCEPT ![t] =
                   IF WorkerHoldsReference(t) THEN "dropped" ELSE "destroying"]
    /\ UNCHANGED <<m_state, worker, tid, detach_returned, verify_failed>>

OwnerDestroyJoins(t) ==
    /\ owner[t] = "destroying"
    /\ needs_to_be_joined(t)
    /\ tid[t] = "zombie"
    /\ tid' = [tid EXCEPT ![t] = "reaped"]
    /\ verify_failed' = [verify_failed EXCEPT ![t] = @ \/ m_state[t] # "Exited"]
    /\ m_state' = [m_state EXCEPT ![t] = "Joined"]
    /\ owner' = [owner EXCEPT ![t] = "destroyed"]
    /\ UNCHANGED <<worker, detach_returned>>

OwnerDestroy(t) ==
    /\ owner[t] = "destroying"
    /\ ~needs_to_be_joined(t)
    /\ owner' = [owner EXCEPT ![t] = "destroyed"]
    /\ UNCHANGED <<m_state, worker, tid, detach_returned, verify_failed>>

(***************************************************************************)
(* The lambda that start() hands to pthread_create.                        *)
(***************************************************************************)

(* m_action() returns; the compare-exchange from Running to Exited. *)
WorkerExit(t) ==
    /\ worker[t] = "action"
    /\ m_state' = [m_state EXCEPT ![t] = IF @ = "Running" THEN "Exited" ELSE @]
    /\ worker' = [worker EXCEPT ![t] =
                    IF m_state[t] = "Detached" THEN "detached_exit" ELSE "release"]
    /\ verify_failed' =
         [verify_failed EXCEPT ![t] = @ \/ m_state[t] \notin {"Running", "Detached"}]
    /\ UNCHANGED <<owner, tid, detach_returned>>

(* The compare-exchange from Detached to DetachedExited. *)
WorkerDetachedExit(t) ==
    /\ worker[t] = "detached_exit"
    /\ m_state' = [m_state EXCEPT ![t] =
                     IF @ = "Detached" THEN "DetachedExited" ELSE @]
    /\ worker' = [worker EXCEPT ![t] = "release"]
    /\ verify_failed' = [verify_failed EXCEPT ![t] = @ \/ m_state[t] # "Detached"]
    /\ UNCHANGED <<owner, tid, detach_returned>>

(* self goes out of scope. *)
WorkerRelease(t) ==
    /\ worker[t] = "release"
    /\ worker' = [worker EXCEPT ![t] =
                    IF OwnerHoldsReference(t) THEN "return" ELSE "destroying"]
    /\ UNCHANGED <<m_state, owner, tid, detach_returned, verify_failed>>

(* ~Thread on the thread itself: if it still needs to be joined,           *)
(* pthread_join of the calling thread fails with EDEADLK, which the        *)
(* destructor ignores, so nothing changes in either case.                  *)
WorkerDestroy(t) ==
    /\ worker[t] = "destroying"
    /\ worker' = [worker EXCEPT ![t] = "return"]
    /\ UNCHANGED <<m_state, owner, tid, detach_returned, verify_failed>>

(* External: the pthread library ends the thread. *)
WorkerReturn(t) ==
    /\ worker[t] = "return"
    /\ worker' = [worker EXCEPT ![t] = "ended"]
    /\ tid' = [tid EXCEPT ![t] = IF @ = "detached" THEN "reaped" ELSE "zombie"]
    /\ UNCHANGED <<m_state, owner, detach_returned, verify_failed>>

OwnerStep(t) ==
    \/ StartCreate(t) \/ PthreadDetach(t) \/ JoinReturn(t)
    \/ OwnerDestroyJoins(t) \/ OwnerDestroy(t)

OwnerCall(t) ==
    \/ StartSetRunning(t) \/ DetachWins(t) \/ DetachLoses(t) \/ JoinCall(t)
    \/ OwnerRelease(t)

WorkerStep(t) ==
    \/ WorkerExit(t) \/ WorkerDetachedExit(t) \/ WorkerRelease(t)
    \/ WorkerDestroy(t) \/ WorkerReturn(t)

ThreadNext == \E t \in Threads : OwnerCall(t) \/ OwnerStep(t) \/ WorkerStep(t)

(***************************************************************************)
(* A call that was begun goes on and the scheduler runs the worker (whose  *)
(* action is taken to return); the owner need not make any call.           *)
(***************************************************************************)
ThreadFairness == \A t \in Threads : WF_threadVars(OwnerStep(t)) /\ WF_threadVars(WorkerStep(t))

ThreadSpec == ThreadInit /\ [][ThreadNext]_threadVars /\ ThreadFairness

-----------------------------------------------------------------------------

(* Types; there is a pthread exactly when there is a worker. *)
ThreadTypeOK ==
    /\ m_state \in [Threads -> ThreadState]
    /\ owner \in [Threads -> OwnerPlace]
    /\ worker \in [Threads -> WorkerPlace]
    /\ tid \in [Threads -> TidState]
    /\ detach_returned \in [Threads -> BOOLEAN]
    /\ verify_failed \in [Threads -> BOOLEAN]
    /\ \A t \in Threads : tid[t] = "none" <=> worker[t] = "none"

(* The race between detach() and the exit of the thread never trips the    *)
(* "Thread logic bug" VERIFYs of the lambda, the VERIFY(rc == 0) after     *)
(* pthread_detach or the VERIFY(m_state == Exited) after pthread_join.     *)
NoVerifyFailure == \A t \in Threads : ~verify_failed[t]

(* The reference that the lambda adopts keeps the object alive until       *)
(* m_state is final: ~Thread, on whichever thread it runs, never finds a   *)
(* thread that is still executing its action, so the join it makes cannot  *)
(* wait for the action, ~Function of m_action does not meet a call of it,  *)
(* and nobody stores into a destroyed object.  This is not what the FIXME  *)
(* of TestThread.cpp:58 ("Dropping a running thread crashes because of the *)
(* Function destructor") and the message of ~Thread ("while it is still    *)
(* running undetached") say; the README lists the disagreement.            *)
DestroyedAfterExit ==
    \A t \in Threads :
        (owner[t] = "destroying" \/ worker[t] = "destroying") =>
            /\ worker[t] \notin {"action", "detached_exit", "release"}
            /\ m_state[t] \notin {"Running", "Detached"}

(* What becomes of the pthread once both references are gone.  It is       *)
(* reaped, by a join, by the detach or by ~Thread, with one exception: an  *)
(* owner that let go of a thread in state Running or Exited while the      *)
(* thread still held its own reference.  Then ~Thread runs on the thread   *)
(* itself, its join fails with EDEADLK, and the pthread is never reaped.   *)
(* This includes an owner whose detach() came too late: it returned as if  *)
(* it had detached, and the pthread leaks all the same.                    *)
LeakedOnlyBySelfJoin ==
    \A t \in Threads :
        owner[t] \in {"dropped", "destroyed"} /\ worker[t] = "ended" =>
            (tid[t] # "reaped" <=> owner[t] = "dropped" /\ m_state[t] = "Exited")

(* No thread is left behind: if detach() moved the thread to Detached, the *)
(* pthread is reaped whichever of pthread_detach and the end of the thread *)
(* comes first; ~Thread reaps one whose detach() came too late and         *)
(* returned without detaching; and a join() that passed its VERIFY returns. *)
ThreadsReaped ==
    \A t \in Threads :
        /\ m_state[t] = "Detached" ~> tid[t] = "reaped"
        /\ owner[t] = "destroying" /\ tid[t] # "none" ~> tid[t] = "reaped"
        /\ owner[t] = "joining" ~> owner[t] = "holds"

=============================================================================
