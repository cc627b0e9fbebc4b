------------------------------ MODULE TCPServer ------------------------------
(***************************************************************************)
(* TCPServer (include/tcp_server.hpp, src/tcp_server.cpp): one thread that *)
(* calls listen(), poll(), sendAndRecv() and destroy(), over Linux's       *)
(* edge-triggered epoll and clients that connect, send, close and reset    *)
(* between any two system calls.                                           *)
(*                                                                         *)
(* A connection and the TCPSocket object made for it have the same name.   *)
(* Of the object the model keeps what the server depends on; its buffers   *)
(* are the subject of module TCPSocket.                                    *)
(***************************************************************************)
EXTENDS Integers, Sequences, FiniteSetsExt, Filters

CONSTANTS Conns,             \* connections clients make
          Watched,           \* those the liveness properties are stated for; any one of
                             \* them stands for all, Conns being symmetric
          Listener, Epoll,   \* listener_socket_ and efd_, as descriptors
          MAX_EPOLL_EVENTS,
          TCP_BUFFER_SIZE,
          KernelBuffer,      \* units the kernel holds for the reader, in either direction
          Prefix,            \* units the callback puts before what it replies to
          Callbacks          \* what the receive callback does: consume all bytes and
                             \* "reply", "keep" the bytes, or "destroy" the socket

ASSUME ServerAssumption ==
  /\ Listener \notin Conns /\ Epoll \notin Conns
  /\ MAX_EPOLL_EVENTS \in Nat \ {0} /\ TCP_BUFFER_SIZE \in Nat
  /\ KernelBuffer \in [Conns -> Nat] /\ Prefix \in Nat
  /\ Callbacks \subseteq {"reply", "keep", "destroy"}

VARIABLES
  efd_, sockets_, receive_sockets_, send_sockets_, disconnected_sockets_,
  live,          \* the TCPSocket objects allocated and not deleted
  fd_,           \* those of them whose fd_ is not -1
  failed,        \* those with send_disconnected_ or recv_disconnected_ set
  buffered,      \* next_rcv_valid_index_ of each
  unsent,        \* next_send_valid_index_ of each
  pc, work,      \* where the server is; the position in sendAndRecv()'s loops
  aborted,       \* history: the last accept loop ended with connections waiting
  peer,          \* kernel: "none", "open", "fin", "rst", or "gone" once closed here
  queued,        \* kernel: units of data that arrived and nobody has read
  replies,       \* kernel: units the server sent and the client has not read
  open,          \* kernel: the process's descriptors
  backlog,       \* kernel: connections waiting for accept()
  interest,      \* kernel: what is registered with epoll
  ready          \* kernel: epoll's ready list

lists == <<sockets_, receive_sockets_, send_sockets_, disconnected_sockets_>>

objects == <<live, fd_, failed, buffered, unsent>>

control == <<efd_, pc, work, aborted>>

net == <<peer, queued, replies>>

epollState == <<backlog, interest, ready>>

serverVars == <<lists, objects, control, net, open, epollState>>

Init ==
  /\ efd_ = FALSE
  /\ sockets_ = <<>> /\ receive_sockets_ = <<>>
  /\ send_sockets_ = <<>> /\ disconnected_sockets_ = <<>>
  /\ live = {} /\ fd_ = {} /\ failed = {} /\ buffered = [c \in Conns |-> 0]
  /\ unsent = [c \in Conns |-> 0]
  /\ pc = "idle" /\ work = 1 /\ aborted = FALSE
  /\ peer = [c \in Conns |-> "none"] /\ queued = [c \in Conns |-> 0]
  /\ replies = [c \in Conns |-> 0]
  /\ open = {} /\ backlog = <<>> /\ interest = {} /\ ready = <<>>
-----------------------------------------------------------------------------
BugAddUnique(sockets, socket) == Append(sockets, socket)

addUnique(sockets, socket) ==
  IF socket \in Range(sockets) THEN sockets ELSE Append(sockets, socket)

(* addUnique() of every element of `more' in turn. *)
addEach(sockets, more) ==
  LET added[n \in 0 .. Len(more)] ==
        IF n = 0 THEN sockets ELSE addUnique(added[n - 1], more[n])
  IN  added[Len(more)]

BugWithout(sockets, gone) == sockets

Without(sockets, gone) == Filter(sockets, Range(sockets) \ gone)

Forget(f, gone) == [c \in Conns |-> IF c \in gone THEN 0 ELSE f[c]]

(* Closing a descriptor takes it out of epoll, ends the connection and     *)
(* drops what was not read.                                                *)
CloseConns(gone) ==
  /\ peer' = [c \in Conns |-> IF c \in gone THEN "gone" ELSE peer[c]]
  /\ queued' = Forget(queued, gone) /\ replies' = Forget(replies, gone)
  /\ open' = open \ gone
  /\ interest' = interest \ gone
  /\ ready' = Without(ready, gone)

(* What epoll reports for a descriptor registered with EPOLLIN | EPOLLET.  *)
Events(d) ==
  IF d = Listener THEN {e \in {"IN"} : backlog # <<>>}
  ELSE {e \in {"IN"} : queued[d] > 0 \/ peer[d] \in {"fin", "rst"}}
         \cup {e \in {"HUP"} : peer[d] = "rst"}

(* Something happened on d: an edge, if d is registered. *)
Edge(d) == IF d \in interest THEN addUnique(ready, d) ELSE ready
-----------------------------------------------------------------------------
(* destroy(): every connection accepted or waiting is closed. *)
Destroyed(listener_open) ==
  /\ sockets_' = <<>> /\ receive_sockets_' = <<>>
  /\ send_sockets_' = <<>> /\ disconnected_sockets_' = <<>>
  /\ live' = live \ Range(sockets_)
  /\ fd_' = fd_ \ Range(sockets_)
  /\ failed' = failed \ Range(sockets_)
  /\ buffered' = [c \in Conns |-> 0] /\ unsent' = [c \in Conns |-> 0]
  /\ LET gone == Range(sockets_) \cup Range(backlog)
     IN  /\ peer' = [c \in Conns |-> IF c \in gone THEN "gone" ELSE peer[c]]
         /\ queued' = Forget(queued, gone) /\ replies' = Forget(replies, gone)
  /\ efd_' = listener_open
  /\ open' = (open \ (Range(sockets_) \cup {Epoll, Listener}))
               \cup (IF listener_open THEN {Epoll, Listener} ELSE {})
  /\ backlog' = <<>>
  /\ interest' = IF listener_open THEN {Listener} ELSE {}
  /\ ready' = <<>>
  /\ aborted' = FALSE
  /\ UNCHANGED <<pc, work>>

destroy ==
  /\ pc = "idle" /\ efd_
  /\ Destroyed(FALSE)

(* listen(): destroy(), then epoll_create1(), connect() and epollAdd();    *)
(* whichever of them fails, what the earlier ones opened is destroyed, so  *)
(* that the three failures have one outcome.                               *)
listen ==
  /\ pc = "idle"
  /\ Destroyed(TRUE) \/ Destroyed(FALSE)
-----------------------------------------------------------------------------
(* del() of every socket in `gone': epollDel(), off all lists, deleted. *)
del(gone) ==
  /\ sockets_' = Without(sockets_, gone)
  /\ receive_sockets_' = Without(receive_sockets_, gone)
  /\ send_sockets_' = Without(send_sockets_, gone)
  /\ live' = live \ gone /\ fd_' = fd_ \ gone /\ failed' = failed \ gone
  /\ buffered' = Forget(buffered, gone) /\ unsent' = Forget(unsent, gone)
  /\ CloseConns(gone)

(* poll(), first part: del() the sockets marked in an earlier pass. *)
poll_Reap ==
  /\ pc = "idle" /\ efd_
  /\ del(Range(disconnected_sockets_))
  /\ disconnected_sockets_' = <<>>
  /\ pc' = "wait"
  /\ UNCHANGED <<efd_, work, aborted, backlog>>

(* epoll_wait() fails, for instance with EINTR: poll() returns. *)
epoll_wait_Fails ==
  /\ pc = "wait"
  /\ pc' = "idle"
  /\ UNCHANGED <<lists, objects, efd_, work, aborted, net, open, epollState>>

(* The entries of the ready list that epoll has something to report for. *)
Reporting == {d \in Range(ready) : Events(d) # {}}

(* What epoll_wait() reports when it goes through the first n of them. *)
Reported(n) == Filter(SubSeq(ready, 1, n), Reporting)

(* It goes through all, or as many as give MAX_EPOLL_EVENTS reports. *)
Scanned ==
  CHOOSE n \in 0 .. Len(ready) :
    /\ Len(Reported(n)) <= MAX_EPOLL_EVENTS
    /\ n < Len(ready) => Len(Reported(n + 1)) > MAX_EPOLL_EVENTS

(* epoll_wait() and the loop over its events: a hang-up or error schedules *)
(* a client for deletion, input schedules it for receiving, input on the   *)
(* listener starts the accept loop.                                        *)
epoll_wait ==
  /\ pc = "wait"
  /\ \E batch \in {Reported(Scanned)} :
       LET hung_up == {c \in Conns : "HUP" \in Events(c)}
       IN
         /\ disconnected_sockets_' = addEach(disconnected_sockets_, Filter(batch, hung_up))
         /\ receive_sockets_' = addEach(receive_sockets_, Filter(batch, Conns \ hung_up))
         /\ IF Listener \in Range(batch) THEN pc' = "accept" /\ aborted' = FALSE
            ELSE pc' = "idle" /\ UNCHANGED aborted
  /\ ready' = SubSeq(ready, Scanned + 1, Len(ready))
  /\ UNCHANGED <<sockets_, send_sockets_, objects, efd_, work, net, open,
                 backlog, interest>>
-----------------------------------------------------------------------------
(* accept() says that nothing is waiting. *)
accept_Empty ==
  /\ pc = "accept" /\ backlog = <<>>
  /\ pc' = "idle"
  /\ UNCHANGED <<lists, objects, efd_, work, aborted, net, open, epollState>>

(* accept() fails although a connection is waiting, for instance because   *)
(* the process has no descriptor left: the loop ends here too.             *)
accept_Error ==
  /\ pc = "accept" /\ backlog # <<>>
  /\ pc' = "idle" /\ aborted' = TRUE
  /\ UNCHANGED <<lists, objects, efd_, work, net, open, epollState>>

BugRefused(c) ==
  /\ open' = open \cup {c}
  /\ UNCHANGED net

(* setNonBlocking(), setNoDelay() or epollAdd() fails: the descriptor is   *)
(* closed, directly or by the socket's destructor.                         *)
Refused(c) ==
  /\ peer' = [peer EXCEPT ![c] = "gone"]
  /\ queued' = Forget(queued, {c}) /\ replies' = Forget(replies, {c})
  /\ open' = open \ {c}

BugContinue == pc' = "idle"

(* The accept loop goes round again. *)
Continue == pc' = "accept"

accept_Refuses ==
  /\ pc = "accept" /\ backlog # <<>>
  /\ Refused(Head(backlog))
  /\ backlog' = Tail(backlog)
  /\ Continue
  /\ UNCHANGED <<lists, objects, efd_, work, aborted, interest, ready>>

(* Registration makes a socket ready at once if there is something to      *)
(* report.                                                                 *)
epollAdd(c) ==
  /\ interest' = interest \cup {c}
  /\ ready' = IF Events(c) # {} THEN addUnique(ready, c) ELSE ready

(* The new socket is registered and put on both lists. *)
accept_Client ==
  /\ pc = "accept" /\ backlog # <<>>
  /\ LET c == Head(backlog)
     IN  /\ open' = open \cup {c}
         /\ live' = live \cup {c} /\ fd_' = fd_ \cup {c}
         /\ epollAdd(c)
         /\ sockets_' = addUnique(sockets_, c)
         /\ receive_sockets_' = addUnique(receive_sockets_, c)
  /\ backlog' = Tail(backlog)
  /\ Continue
  /\ UNCHANGED <<send_sockets_, disconnected_sockets_, failed, buffered, unsent, efd_,
                 work, aborted, net>>
-----------------------------------------------------------------------------
(* sendAndRecv(): the sockets its two loops process. *)
Worklist ==
  receive_sockets_ \o Without(send_sockets_, Range(receive_sockets_))

BeginIO ==
  /\ pc = "idle" /\ efd_
  /\ pc' = "io" /\ work' = 1
  /\ UNCHANGED <<lists, objects, efd_, aborted, net, open, epollState>>

(* Both loops are done.  recv_finished_callback_, called between them if   *)
(* anything was received, touches nothing of the server.                   *)
EndIO ==
  /\ pc = "io" /\ work > Len(Worklist)
  /\ pc' = "idle" /\ work' = 1
  /\ UNCHANGED <<lists, objects, efd_, aborted, net, open, epollState>>

BugNextSocket(c, broken) ==
  /\ work' = work + 1
  /\ UNCHANGED <<lists, live, efd_, pc, aborted, backlog>>

(* The loop goes on; a socket in `broken' is scheduled for deletion. *)
NextSocket(c, broken) ==
  /\ disconnected_sockets_' = IF c \in broken THEN addUnique(disconnected_sockets_, c)
                              ELSE disconnected_sockets_
  /\ work' = work + 1
  /\ UNCHANGED <<sockets_, receive_sockets_, send_sockets_, live, efd_, pc, aborted, backlog>>

(* The loop is at socket c, which is open. *)
Processing(c) == pc = "io" /\ work <= Len(Worklist) /\ Worklist[work] = c /\ c \in fd_

BugBreaks(c) == queued[c] = 0

(* TCPSocket::sendAndRecv() sets a flag: the buffer is full, the peer has  *)
(* closed, or the connection is reset.                                     *)
Breaks(c) ==
  \/ buffered[c] >= TCP_BUFFER_SIZE
  \/ peer[c] = "fin" /\ queued[c] = 0
  \/ peer[c] = "rst"

BugFlush(c, pending, flagged) ==
  LET room == KernelBuffer[c] - replies[c]
      most == IF peer[c] = "rst" THEN 0 ELSE Min({pending, room})
  IN  /\ failed' = flagged
      /\ unsent' = [unsent EXCEPT ![c] = 0]
      /\ \E taken \in Min({1, most}) .. most : replies' = [replies EXCEPT ![c] = @ + taken]

(* The flush that follows: the kernel takes at least one unit if it has    *)
(* room; after a reset the flush fails.                                    *)
Flush(c, pending, flagged) ==
  LET room == KernelBuffer[c] - replies[c]
      most == IF peer[c] = "rst" THEN 0 ELSE Min({pending, room})
  IN  /\ failed' = IF peer[c] = "rst" /\ pending > 0 THEN flagged \cup {c} ELSE flagged
      /\ \E taken \in Min({1, most}) .. most :
           /\ unsent' = [unsent EXCEPT ![c] = pending - taken]
           /\ replies' = [replies EXCEPT ![c] = @ + taken]

(* It has no descriptor. *)
io_Closed ==
  /\ pc = "io" /\ work <= Len(Worklist) /\ Worklist[work] \notin fd_
  /\ NextSocket(Worklist[work], failed)
  /\ UNCHANGED <<fd_, failed, buffered, unsent, net, open, interest, ready>>

(* Nothing has arrived. *)
io_Nothing(c) ==
  /\ Processing(c)
  /\ ~Breaks(c) /\ queued[c] = 0
  /\ Flush(c, unsent[c], failed)
  /\ NextSocket(c, failed')
  /\ UNCHANGED <<fd_, buffered, peer, queued, open, interest, ready>>

(* A full receive buffer ends the call before anything is sent. *)
io_Breaks(c) ==
  /\ Processing(c)
  /\ Breaks(c)
  /\ IF buffered[c] >= TCP_BUFFER_SIZE
     THEN failed' = failed \cup {c} /\ UNCHANGED <<unsent, replies>>
     ELSE Flush(c, unsent[c], failed \cup {c})
  /\ NextSocket(c, failed')
  /\ UNCHANGED <<fd_, buffered, peer, queued, open, interest, ready>>

(* A callback that takes all bytes held and answers them, as the demo's    *)
(* does: what is then to be sent.  The reply is "SERVER RECEIVED: " and    *)
(* the bytes; send() refuses one that does not fit, and it is dropped.     *)
Reply(c, held) ==
  LET reply == Prefix + held
  IN  IF reply <= TCP_BUFFER_SIZE - unsent[c] THEN unsent[c] + reply ELSE unsent[c]

(* It receives n units and the callback runs. *)
io_Receives(c, n, callback) ==
  /\ Processing(c)
  /\ n <= queued[c] /\ n <= TCP_BUFFER_SIZE - buffered[c]
  /\ \/ /\ callback = "destroy"
        /\ buffered' = Forget(buffered, {c}) /\ unsent' = Forget(unsent, {c})
        /\ fd_' = fd_ \ {c} /\ failed' = failed \ {c}
        /\ CloseConns({c})
     \/ /\ callback = "keep"
        /\ buffered' = [buffered EXCEPT ![c] = @ + n]
        /\ Flush(c, unsent[c], failed)
     \/ /\ callback = "reply"
        /\ buffered' = [buffered EXCEPT ![c] = 0]
        /\ Flush(c, Reply(c, buffered[c] + n), failed)
  /\ callback # "destroy" =>
       /\ queued' = [queued EXCEPT ![c] = @ - n]
       /\ UNCHANGED <<fd_, peer, open, interest, ready>>
  /\ NextSocket(c, failed')
-----------------------------------------------------------------------------
(* The clients. *)

client_Connects(c) ==
  /\ peer[c] = "none" /\ Listener \in open
  /\ peer' = [peer EXCEPT ![c] = "open"]
  /\ backlog' = Append(backlog, c)
  /\ ready' = Edge(Listener)
  /\ UNCHANGED <<lists, objects, control, queued, replies, open, interest>>

client_Sends(c) ==
  /\ peer[c] = "open"
  /\ \E n \in 1 .. KernelBuffer[c] :
       /\ queued[c] + n <= KernelBuffer[c]
       /\ queued' = [queued EXCEPT ![c] = @ + n]
  /\ ready' = Edge(c)
  /\ UNCHANGED <<lists, objects, control, peer, replies, open, backlog, interest>>

client_Reads(c) ==
  /\ replies[c] > 0
  /\ replies' = [replies EXCEPT ![c] = 0]
  /\ UNCHANGED <<lists, objects, control, peer, queued, open, epollState>>

client_Ends(c) ==
  /\ \/ /\ peer[c] = "open" /\ peer' = [peer EXCEPT ![c] = "fin"]
        /\ UNCHANGED replies
     \/ /\ peer[c] \in {"open", "fin"} /\ peer' = [peer EXCEPT ![c] = "rst"]
        /\ replies' = Forget(replies, {c})
  /\ ready' = Edge(c)
  /\ UNCHANGED <<lists, objects, control, queued, open, backlog, interest>>
-----------------------------------------------------------------------------
io_Call(c) ==
  \/ io_Nothing(c) \/ io_Breaks(c)
  \/ \E n \in 1 .. TCP_BUFFER_SIZE, callback \in Callbacks : io_Receives(c, n, callback)

accept == accept_Empty \/ accept_Refuses \/ accept_Client

sendAndRecv ==
  \/ EndIO \/ io_Closed
  \/ \E c \in Conns : io_Call(c)

Client(c) == client_Connects(c) \/ client_Sends(c) \/ client_Reads(c) \/ client_Ends(c)

Next ==
  \/ listen \/ destroy
  \/ poll_Reap \/ epoll_wait \/ epoll_wait_Fails \/ accept \/ accept_Error
  \/ BeginIO \/ sendAndRecv
  \/ \E c \in Conns : Client(c)

SafeSpec == Init /\ [][Next]_serverVars
-----------------------------------------------------------------------------
(* Properties. *)

(* No list and no epoll registration holds a pointer to a deleted socket,  *)
(* and none holds one twice: epoll never hands out a dangling pointer and  *)
(* no socket is deleted twice.                                             *)
NoDanglingPointers ==
  \A list \in Range(lists) \cup {Without(ready, {Listener})} :
    Range(list) \subseteq live /\ IsInjective(list)

(* Between calls, the server owns every socket it created, checks every    *)
(* one of them for input, and has exactly the open ones registered.        *)
EverySocketIsServed ==
  pc = "idle" => /\ Range(sockets_) = live
                 /\ Range(receive_sockets_) = live
                 /\ interest \ {Listener} = fd_

(* No descriptor of an accepted connection is leaked: not when it cannot   *)
(* be configured or registered, not when the callback closes it, not when  *)
(* poll() or destroy() deletes its socket.                                 *)
NoDescriptorLeak ==
  open = fd_ \cup (IF efd_ THEN {Epoll, Listener} ELSE {})

(* Between calls, a socket whose flags are set is scheduled for deletion.  *)
FailedSocketsScheduled ==
  pc = "idle" => failed \subseteq Range(disconnected_sockets_)

(* The server "deletes them after disconnection": a connection the client  *)
(* closed or reset is eventually deleted, unless the application's         *)
(* callback has closed its descriptor.                                     *)
EndedConnectionIsDeleted ==
  \A c \in Watched :
    c \in live /\ peer[c] \in {"fin", "rst"} ~> c \notin live \/ c \notin fd_

(* Edge-triggered notifications are enough: a waiting connection is        *)
(* eventually taken out of the listener's queue.                           *)
WaitingConnectionIsTaken ==
  \A c \in Watched : c \in Range(backlog) ~> c \notin Range(backlog)

(* The same, unless accept() fails while connections wait.                 *)
TakenUnlessAcceptFails ==
  \A c \in Watched : c \in Range(backlog) ~> c \notin Range(backlog) \/ aborted

(* What may get a connection dropped: the client reset it, or closed it    *)
(* and everything it sent has been read, or the application let the        *)
(* receive buffer fill up or closed the socket itself.                     *)
Cause(c) ==
  \/ peer[c] = "rst"
  \/ peer[c] = "fin" /\ queued[c] = 0
  \/ buffered[c] = TCP_BUFFER_SIZE
  \/ c \notin fd_

(* poll() deletes a connection only for one of these causes.  A healthy    *)
(* connection is never dropped, and one that the client closed in an       *)
(* orderly way only after everything the client sent has been read; what   *)
(* the server has not sent yet may be dropped with it.                     *)
DroppedForCause ==
  [][pc = "idle" /\ pc' = "wait" => \A c \in live \ live' : Cause(c)]_serverVars
=============================================================================
