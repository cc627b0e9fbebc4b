------------------------------- MODULE Logger -------------------------------
(***************************************************************************)
(* Logger (include/logger.hpp, src/logger.cpp): the application thread     *)
(* pushes elements into an LFQueue, a background thread started with       *)
(* createAndStartThread() takes them out and writes them to a file.        *)
(*                                                                         *)
(* The queue and the start of the thread are the modules LFQueue and       *)
(* ThreadUtils, instantiated with this module's variables: the             *)
(* application is LFQueue's producer and ThreadUtils' caller, the          *)
(* background thread its consumer and child.                               *)
(***************************************************************************)
EXTENDS Integers, Sequences

CONSTANTS Values,    \* what a LogElement can be
          Torn,      \* a slot nobody has finished writing
          NumElems,  \* LOG_QUEUE_SIZE
          MaxItems   \* bound on the number of elements logged

(* What the queue assumes of its constants. *)
ASSUME LoggerAssumption ==
  /\ NumElems \in Nat \ {0}
  /\ MaxItems \in Nat
  /\ Torn \notin Values

VARIABLES
  store_, next_write_index_, next_read_index_, num_elements_,  \* queue_
  producer, consumer, sent, received,
  core_id, running, failed, caller, child, pinned,             \* logger_thread_
  running_,   \* cleared by the destructor
  app,        \* where the application thread is in the logger's life
  flush,      \* where flushQueue() is
  file_,      \* the stream: is it open, and has no operation on it failed yet
  written     \* history: the elements the stream accepted

Queue == INSTANCE LFQueue

(* The logger asks for no pinning, so CPU_SETSIZE plays no part. *)
Thread == INSTANCE ThreadUtils WITH CoreIds <- {-1}, CPU_SETSIZE <- 1

queueVars == <<store_, next_write_index_, next_read_index_, num_elements_,
               producer, consumer, sent, received>>

threadVars == <<core_id, running, failed, caller, child, pinned>>

loggerVars == <<queueVars, threadVars, running_, app, flush, file_, written>>

Init ==
  /\ Queue!Init
  /\ Thread!ThreadInit
  /\ running_ = TRUE
  /\ app = "open"
  /\ flush = "while"
  /\ file_ = [open |-> FALSE, good |-> TRUE]
  /\ written = <<>>
-----------------------------------------------------------------------------
(* The constructor. *)

(* Open the file; the constructor throws if that fails. *)
Open ==
  /\ app = "open"
  /\ \/ /\ app' = "start"
        /\ file_' = [file_ EXCEPT !.open = TRUE]
     \/ /\ app' = "threw"
        /\ UNCHANGED file_
  /\ UNCHANGED <<queueVars, threadVars, running_, flush, written>>

(* createAndStartThread(); if it throws, so does the constructor, and      *)
(* unwinding closes the file.                                              *)
Start ==
  /\ app = "start"
  /\ Thread!Caller
  /\ app' = CASE caller' = "returned" -> "ready"
              [] caller' = "threw" -> "threw"
              [] OTHER -> "start"
  /\ file_' = [file_ EXCEPT !.open = (caller' # "threw")]
  /\ UNCHANGED <<queueVars, running_, flush, written>>

BugPushValue ==
  /\ app = "ready" /\ producer.pc # "full"
  /\ Queue!Produce
  /\ UNCHANGED <<threadVars, running_, app, flush, file_, written>>

(* log() and pushValue(): one step of pushing an element. *)
pushValue ==
  /\ app = "ready"
  /\ Queue!Produce
  /\ UNCHANGED <<threadVars, running_, app, flush, file_, written>>
-----------------------------------------------------------------------------
(* The destructor, called by the same thread when no log() is in progress. *)
BeginDestroy ==
  /\ app = "ready"
  /\ producer.pc = "idle"
  /\ app' = "drain"
  /\ UNCHANGED <<queueVars, threadVars, running_, flush, file_, written>>

BugDrained == num_elements_ <= 1

(* The loop condition: queue_.size() != 0 keeps it waiting. *)
Drained == Queue!size = 0

Drain ==
  /\ app = "drain"
  /\ app' = IF Drained THEN "stop" ELSE "drain"
  /\ UNCHANGED <<queueVars, threadVars, running_, flush, file_, written>>

BugStop ==
  /\ app = "stop"
  /\ app' = "join"
  /\ UNCHANGED <<queueVars, threadVars, running_, flush, file_, written>>

Stop ==
  /\ app = "stop"
  /\ running_' = FALSE
  /\ app' = "join"
  /\ UNCHANGED <<queueVars, threadVars, flush, file_, written>>

BugJoin ==
  /\ app = "join"
  /\ app' = "close"
  /\ UNCHANGED <<queueVars, threadVars, running_, flush, file_, written>>

(* join() returns once flushQueue() has. *)
Join ==
  /\ app = "join"
  /\ child = "ended"
  /\ app' = "close"
  /\ UNCHANGED <<queueVars, threadVars, running_, flush, file_, written>>

(* "Closing the stream also flushes its internal file buffer", which may   *)
(* fail.                                                                   *)
Close ==
  /\ app = "close"
  /\ \E good \in {file_.good, FALSE} : file_' = [open |-> FALSE, good |-> good]
  /\ app' = "done"
  /\ UNCHANGED <<queueVars, threadVars, running_, flush, written>>
-----------------------------------------------------------------------------
(* The background thread. *)

ThreadSetup ==
  /\ Thread!ChildSetup
  /\ UNCHANGED <<queueVars, running_, app, flush, file_, written>>

(* while (running_) ... *)
flushQueue_While ==
  /\ child = "task" /\ flush = "while"
  /\ \/ /\ running_
        /\ flush' = "read"
        /\ UNCHANGED threadVars
     \/ /\ ~running_
        /\ Thread!TaskReturns
        /\ UNCHANGED flush
  /\ UNCHANGED <<queueVars, running_, app, file_, written>>

(* queue_.getNextToRead(), before the inner loop and at its end; nullptr   *)
(* ends the loop and the thread goes to sleep.                             *)
flushQueue_Next ==
  /\ child = "task" /\ flush = "read"
  /\ Queue!getNextToRead
  /\ flush' = IF consumer'.pc = "empty" THEN "sleep" ELSE "read"
  /\ UNCHANGED <<threadVars, running_, app, file_, written>>

BugWrite ==
  /\ child = "task" /\ flush = "read"
  /\ Queue!Use
  /\ \/ file_.open /\ file_.good /\ written' = Append(written, consumer'.item)
     \/ UNCHANGED written
  /\ UNCHANGED <<threadVars, running_, app, flush, file_>>

(* file_ << value: the stream takes the element into its buffer, which it  *)
(* passes on when it is full; a failure puts the stream in a failed state, *)
(* in which later writes do nothing.  The element is taken out of the      *)
(* queue all the same.                                                     *)
flushQueue_Write ==
  /\ child = "task" /\ flush = "read"
  /\ Queue!Use
  /\ \/ /\ file_.open /\ file_.good
        /\ written' = Append(written, consumer'.item)
        /\ UNCHANGED file_
     \/ /\ file_' = [file_ EXCEPT !.good = FALSE]
        /\ UNCHANGED written
  /\ UNCHANGED <<threadVars, running_, app, flush>>

flushQueue_Release ==
  /\ child = "task" /\ flush = "read"
  /\ Queue!updateReadIndex_Advance \/ Queue!updateReadIndex_Uncount
  /\ UNCHANGED <<threadVars, running_, app, flush, file_, written>>

BugSleep ==
  /\ child = "task" /\ flush = "sleep"
  /\ Thread!TaskReturns
  /\ UNCHANGED <<queueVars, running_, app, flush, file_, written>>

(* sleep_for(1ms) *)
flushQueue_Sleep ==
  /\ child = "task" /\ flush = "sleep"
  /\ flush' = "while"
  /\ UNCHANGED <<queueVars, threadVars, running_, app, file_, written>>
-----------------------------------------------------------------------------
Application == Open \/ Start \/ pushValue \/ Drain \/ Stop \/ Join \/ Close

Background ==
  \/ ThreadSetup
  \/ flushQueue_While \/ flushQueue_Next \/ flushQueue_Write
  \/ flushQueue_Release \/ flushQueue_Sleep

Next == Application \/ BeginDestroy \/ Background

SafeSpec == Init /\ [][Next]_loggerVars

(* A call of the logger that the application has begun goes on. *)
CallGoesOn == Application /\ ~(app = "ready" /\ producer.pc = "idle")

(* Both threads are scheduled: the waits are yield() and 1 ms sleeps.      *)
(* Nothing forces the application to log or to destroy the logger.         *)
Spec == SafeSpec /\ WF_loggerVars(CallGoesOn) /\ WF_loggerVars(Background)
-----------------------------------------------------------------------------
File == INSTANCE LogFile WITH logged <- sent, good <- file_.good, closed <- app = "done"

(* The logger implements LogFile: through the queue, the background thread *)
(* and the shutdown the stream is given the elements in the order they     *)
(* were logged, each once, and takes no more after a failure; ~Logger()    *)
(* closes it when it has been given all of them, unless it failed.         *)
FileSafeSpec == File!FileSafeSpec

(* "Wait until every queued value has been written": no element is in the  *)
(* queue when the background thread is told to stop, and none that left    *)
(* the queue has not been handed to the stream.                            *)
StopsWhenDrained ==
  /\ ~running_ => received = sent
  /\ file_.good => Len(received) <= Len(written)

(* "Used only by the background thread after construction": the            *)
(* destructor closes the file when the thread can no longer write to it,   *)
(* and the thread has it open whenever it may write.                       *)
FileHasOneUser ==
  /\ child = "task" => file_.open
  /\ app \in {"close", "done"} => child = "ended"

(* What is logged is handed to the stream while the logger lives, even if  *)
(* nothing more is ever logged and however the background thread's sleeps  *)
(* and the pushes interleave, unless the stream fails.  The file gets it   *)
(* when the stream's buffer is flushed, at the latest by close().          *)
LoggedReachesStream ==
  \A n \in 1 .. MaxItems :
    Len(sent) >= n ~> Len(written) >= n \/ ~file_.good

(* The destructor finishes: it is not left waiting for the queue or for a  *)
(* thread that never sees running_ cleared.                                *)
DestructorFinishes == app = "drain" ~> app = "done"

(* log() never waits for ever: an element that found the queue full is     *)
(* pushed.                                                                 *)
FullQueueIsDrained == producer.pc = "full" ~> producer.pc = "idle"
=============================================================================
