----------------------------- MODULE ThreadUtils -----------------------------
(***************************************************************************)
(* createAndStartThread() (include/thread_utils.hpp): the caller starts a  *)
(* thread and waits, on two atomics that live in its own stack frame, for  *)
(* the thread to say that its set-up succeeded or failed.                  *)
(*                                                                         *)
(* Each action makes one access to one of the two atomics.                 *)
(***************************************************************************)
EXTENDS Integers

CONSTANTS CoreIds,      \* the values of core_id a caller passes
          CPU_SETSIZE

ASSUME CoreAssumption == CoreIds \subseteq Int /\ CPU_SETSIZE \in Nat \ {0}

VARIABLES core_id,
          running, failed,  \* the atomics in the caller's frame
          caller,           \* where the caller is
          child,            \* where the new thread is
          pinned            \* setThreadCore() succeeded

threadVars == <<core_id, running, failed, caller, child, pinned>>

(* "start": before the std::thread constructor; "running?" and "failed?":  *)
(* the two loads of the loop condition; "verdict": the load after the      *)
(* loop; "join": in join() on the failing path; then the two ways out.     *)
CallerPcs == {"start", "running?", "failed?", "verdict", "join", "returned", "threw"}

ChildPcs == {"unborn", "setup", "store_failed", "returning", "store_running",
             "task", "ended"}

ThreadTypeOK ==
  /\ core_id \in CoreIds
  /\ running \in BOOLEAN
  /\ failed \in BOOLEAN
  /\ caller \in CallerPcs
  /\ child \in ChildPcs
  /\ pinned \in BOOLEAN

ThreadInit ==
  /\ core_id \in CoreIds
  /\ running = FALSE
  /\ failed = FALSE
  /\ caller = "start"
  /\ child = "unborn"
  /\ pinned = FALSE
-----------------------------------------------------------------------------
(* The caller. *)

(* The std::thread constructor; it throws when no thread can be created.   *)
StartThread ==
  /\ caller = "start"
  /\ \/ caller' = "running?" /\ child' = "setup"
     \/ caller' = "threw" /\ UNCHANGED child
  /\ UNCHANGED <<core_id, running, failed, pinned>>

BugLoadRunning ==
  /\ caller = "running?"
  /\ caller' = "verdict"
  /\ UNCHANGED <<core_id, running, failed, child, pinned>>

(* while (!running.load() ... *)
LoadRunning ==
  /\ caller = "running?"
  /\ caller' = IF running THEN "verdict" ELSE "failed?"
  /\ UNCHANGED <<core_id, running, failed, child, pinned>>

BugLoadFailed ==
  /\ caller = "failed?"
  /\ caller' = "running?"
  /\ UNCHANGED <<core_id, running, failed, child, pinned>>

(* ... && !failed.load()) yield(); *)
LoadFailed ==
  /\ caller = "failed?"
  /\ caller' = IF failed THEN "verdict" ELSE "running?"
  /\ UNCHANGED <<core_id, running, failed, child, pinned>>

BugVerdict ==
  /\ caller = "verdict"
  /\ caller' = IF failed THEN "threw" ELSE "returned"
  /\ UNCHANGED <<core_id, running, failed, child, pinned>>

(* if (failed.load()) join and throw, else return the thread. *)
Verdict ==
  /\ caller = "verdict"
  /\ caller' = IF failed THEN "join" ELSE "returned"
  /\ UNCHANGED <<core_id, running, failed, child, pinned>>

JoinFailed ==
  /\ caller = "join"
  /\ child = "ended"
  /\ caller' = "threw"
  /\ UNCHANGED <<core_id, running, failed, child, pinned>>
-----------------------------------------------------------------------------
(* The new thread. *)

(* The values setThreadCore(core) can return: pthread_setaffinity_np() may *)
(* refuse a core number that is in range.                                  *)
setThreadCore(core) ==
  IF core < 0 \/ core >= CPU_SETSIZE THEN {FALSE} ELSE BOOLEAN

(* A negative core_id disables pinning. *)
Setup ==
  /\ child = "setup"
  /\ \/ /\ core_id < 0
        /\ child' = "store_running"
        /\ UNCHANGED pinned
     \/ /\ core_id >= 0
        /\ \E ok \in setThreadCore(core_id) :
             /\ pinned' = ok
             /\ child' = IF ok THEN "store_running" ELSE "store_failed"
  /\ UNCHANGED <<core_id, running, failed, caller>>

(* failed.store(true); the thread returns next. *)
StoreFailed ==
  /\ child = "store_failed"
  /\ failed' = TRUE
  /\ child' = "returning"
  /\ UNCHANGED <<core_id, running, caller, pinned>>

(* running.store(true); the task is invoked next. *)
StoreRunning ==
  /\ child = "store_running"
  /\ running' = TRUE
  /\ child' = "task"
  /\ UNCHANGED <<core_id, failed, caller, pinned>>

ReturnFailed ==
  /\ child = "returning"
  /\ child' = "ended"
  /\ UNCHANGED <<core_id, running, failed, caller, pinned>>

(* The task returns. *)
TaskReturns ==
  /\ child = "task"
  /\ child' = "ended"
  /\ UNCHANGED <<core_id, running, failed, caller, pinned>>
-----------------------------------------------------------------------------
Caller == StartThread \/ LoadRunning \/ LoadFailed \/ Verdict \/ JoinFailed

ChildSetup == Setup \/ StoreFailed \/ ReturnFailed \/ StoreRunning

ThreadNext == Caller \/ ChildSetup \/ TaskReturns

ThreadSafeSpec == ThreadInit /\ [][ThreadNext]_threadVars

(* Both threads are scheduled; nothing is assumed of the task. *)
ThreadSpec == ThreadSafeSpec /\ WF_threadVars(Caller) /\ WF_threadVars(ChildSetup)
-----------------------------------------------------------------------------
(* Properties. *)

(* Which flag is set tells exactly how far the thread has come, and how    *)
(* far the caller has come tells which flag it saw.                        *)
FlagsTellProgress ==
  /\ ThreadTypeOK
  /\ caller = "start" => child = "unborn"
  /\ child = "unborn" => caller \in {"start", "threw"}
  /\ failed => child \in {"returning", "ended"} /\ ~running
  /\ running <=> child = "task" \/ (child = "ended" /\ ~failed)
  /\ child = "returning" => failed
  /\ child \in {"store_running", "task"} \/ running => core_id < 0 \/ pinned
  /\ caller \in {"verdict", "join", "returned"} => running \/ failed
  /\ caller = "join" => failed
  /\ caller = "returned" => running
  /\ caller = "threw" => child = "unborn" \/ (failed /\ child = "ended")

(* The thread captured running and failed by reference: it never stores    *)
(* into them once the caller's frame, and with it the atomics, is gone.    *)
FlagsOutliveTheirUse ==
  child \in {"setup", "store_failed", "store_running"} =>
    caller \notin {"returned", "threw"}

(* A caller that gets a thread gets one that finished its set-up, pinned   *)
(* if it asked for that; a caller that gets an exception is left with no   *)
(* thread and a task that never ran.                                       *)
OutcomeIsSetup ==
  /\ caller = "returned" =>
       child \in {"task", "ended"} /\ ~failed /\ (core_id < 0 \/ pinned)
  /\ caller = "threw" => child \in {"unborn", "ended"} /\ ~running

(* The spin loop ends: the caller gets its thread or its exception.        *)
CallerGetsOutcome == <>(caller \in {"returned", "threw"})
=============================================================================
