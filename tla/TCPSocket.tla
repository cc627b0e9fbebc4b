------------------------------ MODULE TCPSocket ------------------------------
(***************************************************************************)
(* TCPSocket (include/tcp_socket.hpp, src/tcp_socket.cpp): one connection  *)
(* with its two fixed buffers, driven by one thread, over a kernel that    *)
(* takes and gives as much as it likes and a peer that closes or resets    *)
(* the connection between any two system calls.                            *)
(*                                                                         *)
(* Bytes are numbered in the order they enter a stream, over all           *)
(* connections the object is used for, so that a byte of an earlier        *)
(* connection is never taken for one of the current connection.            *)
(***************************************************************************)
EXTENDS Integers, Sequences

CONSTANTS TCP_BUFFER_SIZE,
          MaxSent,      \* bound on the bytes send() accepts
          MaxArrived,   \* bound on the bytes peers send
          MaxConnects   \* bound on the calls of connect()

ASSUME BufferAssumption ==
  /\ TCP_BUFFER_SIZE \in Nat \ {0}
  /\ MaxSent \in Nat /\ MaxArrived \in Nat /\ MaxConnects \in Nat

VARIABLES
  fd_,                    \* -1 or the number of the connection
  send_buffer_, next_send_valid_index_,
  rcv_buffer_, next_rcv_valid_index_,
  send_disconnected_, recv_disconnected_,
  pc,                     \* where sendAndRecv() is
  total_sent,             \* its local variable
  peer,                   \* kernel: "connecting", "open", "fin" (peer closed), "rst"
                          \* (connection refused or reset)
  open,                   \* kernel: open descriptors
  connects,               \* descriptors created so far
  accepted, wire,         \* bytes send() accepted; those the kernel took, this connection
  arrived, taken,         \* bytes the peer sent; bytes recvmsg() returned
  consumed,               \* bytes the callback took, this connection
  base                    \* values of accepted and arrived when this connection began

buffers == <<send_buffer_, next_send_valid_index_, rcv_buffer_, next_rcv_valid_index_>>

flags == <<send_disconnected_, recv_disconnected_>>

kernel == <<peer, open, connects>>

sendHistory == <<accepted, wire>>

recvHistory == <<arrived, taken, consumed>>

socketVars == <<fd_, buffers, flags, pc, total_sent, kernel, sendHistory, recvHistory, base>>

Index == 0 .. TCP_BUFFER_SIZE - 1

(* The constructor; the buffers' content is arbitrary, 0 is no stream's byte. *)
Init ==
  /\ fd_ = -1
  /\ send_buffer_ = [i \in Index |-> 0] /\ next_send_valid_index_ = 0
  /\ rcv_buffer_ = [i \in Index |-> 0] /\ next_rcv_valid_index_ = 0
  /\ send_disconnected_ = FALSE /\ recv_disconnected_ = FALSE
  /\ pc = "idle" /\ total_sent = 0
  /\ peer = "open" /\ open = {} /\ connects = 0
  /\ accepted = 0 /\ wire = <<>>
  /\ arrived = 0 /\ taken = 0 /\ consumed = <<>>
  /\ base = [sent |-> 0, arrived |-> 0]

(* The application acts between calls of sendAndRecv() and inside the      *)
(* receive callback.                                                       *)
AppRuns == pc \in {"idle", "callback"}
-----------------------------------------------------------------------------
BugFilled(buffer, at, n, first) ==
  [i \in DOMAIN buffer |-> IF i < n THEN first + i ELSE buffer[i]]

(* The buffer after n bytes numbered from `first' on were copied to it     *)
(* from index `at' on: memcpy() and recvmsg().                             *)
Filled(buffer, at, n, first) ==
  [i \in DOMAIN buffer |-> IF i \in at .. at + n - 1 THEN first + i - at ELSE buffer[i]]

BugReset ==
  /\ next_rcv_valid_index_' = 0
  /\ send_disconnected_' = FALSE /\ recv_disconnected_' = FALSE
  /\ wire' = <<>> /\ consumed' = <<>> /\ taken' = arrived
  /\ base' = [sent |-> accepted, arrived |-> arrived]
  /\ UNCHANGED <<send_buffer_, next_send_valid_index_, rcv_buffer_, accepted, arrived>>

(* What destroy() clears besides the descriptor; the rest of the histories *)
(* of the connection is dropped with it.                                   *)
Reset ==
  /\ next_send_valid_index_' = 0 /\ next_rcv_valid_index_' = 0
  /\ send_disconnected_' = FALSE /\ recv_disconnected_' = FALSE
  /\ wire' = <<>> /\ consumed' = <<>> /\ taken' = arrived
  /\ base' = [sent |-> accepted, arrived |-> arrived]
  /\ UNCHANGED <<send_buffer_, rcv_buffer_, accepted, arrived>>

BugClosed == open

(* The descriptors open after destroy(), which connect() also begins with. *)
Closed == open \ {fd_}

(* destroy() *)
destroy ==
  /\ AppRuns
  /\ open' = Closed
  /\ fd_' = -1
  /\ Reset
  /\ UNCHANGED <<pc, total_sent, peer, connects>>

(* connect(): createSocket() gives a fresh descriptor or -1.  The          *)
(* connection may still be in progress when it returns.                    *)
connect ==
  /\ AppRuns
  /\ connects < MaxConnects
  /\ connects' = connects + 1
  /\ \/ fd_' = connects' /\ open' = Closed \cup {connects'}
     \/ fd_' = -1 /\ open' = Closed
  /\ peer' \in {"connecting", "open"}
  /\ Reset
  /\ UNCHANGED <<pc, total_sent>>

BugFits(len) == len <= TCP_BUFFER_SIZE

(* send()'s test of the space left. *)
Fits(len) ==
  ~(next_send_valid_index_ > TCP_BUFFER_SIZE \/ len > TCP_BUFFER_SIZE - next_send_valid_index_)

(* send() of len > 0 bytes that fit: append them.  Every other call, with  *)
(* len = 0, a null pointer or too much data, changes nothing.              *)
send(len) ==
  /\ AppRuns
  /\ accepted + len <= MaxSent
  /\ Fits(len)
  /\ send_buffer_' = Filled(send_buffer_, next_send_valid_index_, len, accepted + 1)
  /\ next_send_valid_index_' = next_send_valid_index_ + len
  /\ accepted' = accepted + len
  /\ UNCHANGED <<fd_, rcv_buffer_, next_rcv_valid_index_, flags, pc, total_sent, kernel,
                 wire, recvHistory, base>>
-----------------------------------------------------------------------------
(* sendAndRecv() on an open socket. *)

(* A full receive buffer ends the call at once. *)
recv_Full ==
  /\ pc = "idle" /\ fd_ >= 0
  /\ next_rcv_valid_index_ >= TCP_BUFFER_SIZE
  /\ recv_disconnected_' = TRUE
  /\ UNCHANGED <<fd_, buffers, send_disconnected_, pc, total_sent, kernel, sendHistory,
                 recvHistory, base>>

MayReceive == pc = "idle" /\ fd_ >= 0 /\ next_rcv_valid_index_ < TCP_BUFFER_SIZE

(* recvmsg() appends n of the bytes that have arrived, then the callback   *)
(* runs.                                                                   *)
recv_Bytes(n) ==
  /\ MayReceive
  /\ n <= TCP_BUFFER_SIZE - next_rcv_valid_index_
  /\ n <= arrived - taken
  /\ rcv_buffer_' = Filled(rcv_buffer_, next_rcv_valid_index_, n, taken + 1)
  /\ next_rcv_valid_index_' = next_rcv_valid_index_ + n
  /\ taken' = taken + n
  /\ pc' = "callback"
  /\ UNCHANGED <<fd_, send_buffer_, next_send_valid_index_, flags, total_sent, kernel,
                 sendHistory, arrived, consumed, base>>

BugBroken == arrived = taken

(* recvmsg() returned 0, or an error that is not wouldBlock(). *)
Broken == peer = "rst" \/ (peer = "fin" /\ arrived = taken)

recv_Broken ==
  /\ MayReceive
  /\ Broken
  /\ recv_disconnected_' = TRUE
  /\ pc' = "send"
  /\ UNCHANGED <<fd_, buffers, send_disconnected_, total_sent, kernel, sendHistory,
                 recvHistory, base>>

BugNothing ==
  /\ MayReceive
  /\ peer = "open" /\ arrived = taken
  /\ UNCHANGED socketVars

(* recvmsg() would block. *)
recv_Nothing ==
  /\ MayReceive
  /\ peer \in {"connecting", "open"} /\ arrived = taken
  /\ pc' = "send"
  /\ UNCHANGED <<fd_, buffers, flags, total_sent, kernel, sendHistory, recvHistory, base>>

(* The callback takes the first n bytes, moves the rest to the front of    *)
(* rcv_buffer_ and reduces the index.                                      *)
callback_Consume(n) ==
  /\ pc = "callback"
  /\ n <= next_rcv_valid_index_
  /\ consumed' = consumed \o [i \in 1 .. n |-> rcv_buffer_[i - 1]]
  /\ rcv_buffer_' = [i \in DOMAIN rcv_buffer_ |->
       IF i + n < next_rcv_valid_index_ THEN rcv_buffer_[i + n] ELSE rcv_buffer_[i]]
  /\ next_rcv_valid_index_' = next_rcv_valid_index_ - n
  /\ UNCHANGED <<fd_, send_buffer_, next_send_valid_index_, flags, pc, total_sent, kernel,
                 sendHistory, arrived, taken, base>>

callback_Return ==
  /\ pc = "callback"
  /\ pc' = "send"
  /\ UNCHANGED <<fd_, buffers, flags, total_sent, kernel, sendHistory, recvHistory, base>>
-----------------------------------------------------------------------------
Remaining == next_send_valid_index_ - total_sent

(* One ::send() of the loop takes n of the remaining bytes. *)
send_Bytes(n) ==
  /\ pc = "send" /\ fd_ >= 0 /\ peer \in {"open", "fin"}
  /\ n <= Remaining
  /\ wire' = wire \o [i \in 1 .. n |-> send_buffer_[total_sent + i - 1]]
  /\ total_sent' = total_sent + n
  /\ UNCHANGED <<fd_, buffers, flags, pc, kernel, accepted, recvHistory, base>>

BugMoved == send_buffer_

(* memmove() of the unsent bytes to the front of send_buffer_. *)
Moved ==
  [i \in DOMAIN send_buffer_ |->
     IF i < Remaining THEN send_buffer_[i + total_sent] ELSE send_buffer_[i]]

(* The loop ends: everything is sent, or ::send() takes nothing, or it     *)
(* fails.  Then the unsent bytes are moved and sendAndRecv() returns.      *)
send_End ==
  /\ pc = "send"
  /\ send_disconnected_' =
       (send_disconnected_ \/ (Remaining > 0 /\ (fd_ < 0 \/ peer = "rst")))
  /\ send_buffer_' = Moved
  /\ next_send_valid_index_' = Remaining
  /\ total_sent' = 0
  /\ pc' = "idle"
  /\ UNCHANGED <<fd_, rcv_buffer_, next_rcv_valid_index_, recv_disconnected_, kernel,
                 sendHistory, recvHistory, base>>
-----------------------------------------------------------------------------
(* The peer and the network. *)

peer_Sends ==
  /\ fd_ >= 0 /\ peer = "open"
  /\ arrived < MaxArrived
  /\ arrived' = arrived + 1
  /\ UNCHANGED <<fd_, buffers, flags, pc, total_sent, kernel, sendHistory, taken, consumed, base>>

(* The connection in progress is established, or refused. *)
peer_Accepts ==
  /\ fd_ >= 0 /\ peer = "connecting"
  /\ peer' \in {"open", "rst"}
  /\ UNCHANGED <<fd_, buffers, flags, pc, total_sent, open, connects, sendHistory, recvHistory, base>>

peer_Ends ==
  /\ fd_ >= 0
  /\ \/ peer = "open" /\ peer' = "fin"
     \/ peer \in {"open", "fin"} /\ peer' = "rst"
  /\ UNCHANGED <<fd_, buffers, flags, pc, total_sent, open, connects, sendHistory, recvHistory, base>>
-----------------------------------------------------------------------------
Lengths == 1 .. TCP_BUFFER_SIZE

Application ==
  \/ destroy \/ connect
  \/ \E n \in Lengths : send(n) \/ callback_Consume(n)

sendAndRecv ==
  \/ recv_Full \/ recv_Broken \/ recv_Nothing \/ callback_Return \/ send_End
  \/ \E n \in Lengths : recv_Bytes(n) \/ send_Bytes(n)

Next == Application \/ sendAndRecv \/ peer_Accepts \/ peer_Sends \/ peer_Ends

SafeSpec == Init /\ [][Next]_socketVars

(* The application keeps calling sendAndRecv(), as the demo's loop does, a *)
(* connection in progress is eventually established or refused, and a live *)
(* connection's send buffer in the kernel does not stay full for ever.     *)
Spec ==
  /\ SafeSpec
  /\ WF_socketVars(sendAndRecv) /\ WF_socketVars(peer_Accepts)
  /\ SF_socketVars(\E n \in Lengths : send_Bytes(n))
-----------------------------------------------------------------------------
(* Properties. *)

Prefix(buffer, n) == [i \in 1 .. n |-> buffer[i - 1]]

(* No index leaves its buffer, whatever the kernel and the callback do     *)
(* between the test of the space left and the copy.                        *)
IndicesInBuffer ==
  /\ next_send_valid_index_ \in 0 .. TCP_BUFFER_SIZE
  /\ next_rcv_valid_index_ \in 0 .. TCP_BUFFER_SIZE
  /\ total_sent \in 0 .. next_send_valid_index_

(* What send() accepted for this connection is, in order, what the kernel  *)
(* took followed by what waits in send_buffer_: partial sends, a callback  *)
(* that replies, failures and a reused object lose, repeat and reorder     *)
(* nothing.                                                                *)
SendStreamIntact ==
  LET pending == SubSeq(Prefix(send_buffer_, next_send_valid_index_),
                        total_sent + 1, next_send_valid_index_)
  IN  wire \o pending = [i \in 1 .. accepted - base.sent |-> base.sent + i]

(* What recvmsg() returned on this connection is, in order, what the       *)
(* callback consumed followed by what waits in rcv_buffer_.                *)
RecvStreamIntact ==
  consumed \o Prefix(rcv_buffer_, next_rcv_valid_index_)
    = [i \in 1 .. taken - base.arrived |-> base.arrived + i]

(* TCPServer drops a connection whose flags are set: they are set only if  *)
(* the peer closed or reset it, the receive buffer is full, or the socket  *)
(* was closed under its unsent bytes.                                      *)
FlagsJustified ==
  /\ recv_disconnected_ =>
       peer \in {"fin", "rst"} \/ next_rcv_valid_index_ = TCP_BUFFER_SIZE
  /\ send_disconnected_ => peer = "rst" \/ fd_ = -1

(* The object owns its descriptor: none is leaked when it is reused, and   *)
(* none is used after it was closed.                                       *)
DescriptorOwned == open = IF fd_ = -1 THEN {} ELSE {fd_}

(* On a connection that stays up, every byte send() accepted reaches the   *)
(* kernel, even if nothing is ever received.                               *)
AcceptedBytesLeave ==
  \A n \in 1 .. MaxSent :
    accepted >= n /\ fd_ >= 0 ~>
      \/ base.sent + Len(wire) >= n
      \/ fd_ < 0 \/ send_disconnected_ \/ recv_disconnected_
=============================================================================
