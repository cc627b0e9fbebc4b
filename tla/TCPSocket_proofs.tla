--------------------------- MODULE TCPSocket_proofs ---------------------------
(***************************************************************************)
(* Proofs about TCPSocket for every buffer size, every number of           *)
(* connections and every amount of data.                                   *)
(***************************************************************************)
EXTENDS TCPSocket, SequenceTheorems, TLAPS

TypeOK ==
  /\ fd_ \in Nat \cup {-1} /\ connects \in Nat
  /\ send_buffer_ \in [Index -> Nat] /\ rcv_buffer_ \in [Index -> Nat]
  /\ pc \in {"idle", "callback", "send"}
  /\ peer \in {"connecting", "open", "fin", "rst"}
  /\ accepted \in Nat /\ arrived \in Nat /\ taken \in Nat
  /\ wire \in Seq(Nat) /\ consumed \in Seq(Nat)
  /\ base \in [sent : Nat, arrived : Nat]

(* total_sent counts only inside the send loop. *)
LoopInv == IndicesInBuffer /\ (pc # "send" => total_sent = 0)

(* SendStreamIntact and RecvStreamIntact, byte by byte. *)
SendInv ==
  /\ accepted = base.sent + Len(wire) + (next_send_valid_index_ - total_sent)
  /\ \A i \in 1 .. Len(wire) : wire[i] = base.sent + i
  /\ \A i \in total_sent .. next_send_valid_index_ - 1 :
       send_buffer_[i] = base.sent + Len(wire) + (i - total_sent) + 1

RecvInv ==
  /\ taken = base.arrived + Len(consumed) + next_rcv_valid_index_ /\ taken <= arrived
  /\ \A i \in 1 .. Len(consumed) : consumed[i] = base.arrived + i
  /\ \A i \in 0 .. next_rcv_valid_index_ - 1 :
       rcv_buffer_[i] = base.arrived + Len(consumed) + i + 1

(* A full buffer that set the flag stays full: the callback, which could   *)
(* make room, is not called again.                                         *)
FlagsInv ==
  /\ recv_disconnected_ =>
       \/ peer \in {"fin", "rst"}
       \/ next_rcv_valid_index_ = TCP_BUFFER_SIZE /\ pc = "idle"
  /\ send_disconnected_ => peer = "rst" \/ fd_ = -1

-----------------------------------------------------------------------------
(* The positions of nothing. *)
LEMMA EmptyRanges == 1 .. 0 = {} /\ 0 .. 0 - 1 = {}
  OBVIOUS

(* n bytes are a sequence. *)
LEMMA FunctionIsSeq ==
  ASSUME NEW n \in Nat, NEW f \in [1 .. n -> Nat]
  PROVE  f \in Seq(Nat) /\ Len(f) = n
  <1>1. f \in Seq(Nat)
    BY SeqDef
  <1>2. QED
    BY <1>1, LenProperties

(* s followed by n more bytes. *)
LEMMA Extended ==
  ASSUME NEW s \in Seq(Nat), NEW n \in Nat, NEW f \in [1 .. n -> Nat]
  PROVE  /\ s \o f \in Seq(Nat) /\ Len(s \o f) = Len(s) + n
         /\ \A i \in 1 .. Len(s) : (s \o f)[i] = s[i]
         /\ \A i \in 1 .. n : (s \o f)[Len(s) + i] = f[i]
  <1>1. f \in Seq(Nat) /\ Len(f) = n
    BY Zenon, FunctionIsSeq
  <1>2. Len(s) \in Nat
    BY LenProperties
  <1>3. /\ s \o f \in Seq(Nat) /\ Len(s \o f) = Len(s) + n
        /\ \A i \in 1 .. Len(s) + n : (s \o f)[i] = IF i <= Len(s) THEN s[i] ELSE f[i - Len(s)]
    BY ZenonT(30), <1>1, <1>2, ConcatProperties
  <1>4. ASSUME NEW i \in 1 .. Len(s)
        PROVE  (s \o f)[i] = s[i]
    BY <1>2, <1>3
  <1>5. ASSUME NEW i \in 1 .. n
        PROVE  (s \o f)[Len(s) + i] = f[i]
    <2>1. Len(s) + i \in 1 .. Len(s) + n /\ ~(Len(s) + i <= Len(s)) /\ Len(s) + i - Len(s) = i
      BY <1>2
    <2>2. QED
      BY <1>3, <2>1
  <1>6. QED
    BY <1>3, <1>4, <1>5

(* Control: positions, indices, flags and descriptor. *)
ControlInv == LoopInv /\ DescriptorOwned /\ FlagsInv

(* What a step does to the control state, whatever the bytes are. *)
LEMMA NextControl ==
  ASSUME TypeOK, ControlInv, [Next]_socketVars
  PROVE  ControlInv'
  <1> USE BufferAssumption DEF TypeOK, ControlInv, LoopInv, IndicesInBuffer, DescriptorOwned, FlagsInv
  <1>1. CASE destroy
    BY <1>1 DEF destroy, Reset, Closed, AppRuns, buffers, flags, kernel, sendHistory, recvHistory
  <1>2. CASE connect
    BY <1>2 DEF connect, Reset, Closed, AppRuns, buffers, flags, kernel, sendHistory, recvHistory
  <1>3. ASSUME NEW n \in Lengths, send(n)
        PROVE  ControlInv'
    BY <1>3 DEF send, Fits, AppRuns, Lengths, buffers, flags, kernel, sendHistory, recvHistory
  <1>4. CASE recv_Full
    BY <1>4 DEF recv_Full, buffers, flags, kernel, sendHistory, recvHistory
  <1>5. ASSUME NEW n \in Lengths, recv_Bytes(n)
        PROVE  ControlInv'
    BY <1>5 DEF recv_Bytes, MayReceive, Lengths, buffers, flags, kernel, sendHistory, recvHistory
  <1>6. CASE recv_Broken
    BY <1>6 DEF recv_Broken, MayReceive, Broken, buffers, flags, kernel, sendHistory, recvHistory
  <1>7. CASE recv_Nothing
    BY <1>7 DEF recv_Nothing, MayReceive, buffers, flags, kernel, sendHistory, recvHistory
  <1>8. ASSUME NEW n \in Lengths, callback_Consume(n)
        PROVE  ControlInv'
    BY <1>8 DEF callback_Consume, Lengths, buffers, flags, kernel, sendHistory, recvHistory
  <1>9. CASE callback_Return
    BY <1>9 DEF callback_Return, buffers, flags, kernel, sendHistory, recvHistory
  <1>10. ASSUME NEW n \in Lengths, send_Bytes(n)
        PROVE  ControlInv'
    BY <1>10 DEF send_Bytes, Remaining, Lengths, buffers, flags, kernel, sendHistory, recvHistory
  <1>11. CASE send_End
    <2>1. /\ pc' = "idle" /\ total_sent' = 0 /\ next_send_valid_index_' = Remaining
          /\ UNCHANGED <<fd_, next_rcv_valid_index_, recv_disconnected_, peer, open>>
      BY <1>11 DEF send_End, kernel
    <2>2. send_disconnected_' => send_disconnected_ \/ fd_ < 0 \/ peer = "rst"
      BY <1>11, Zenon DEF send_End
    <2>3. QED
      BY <1>11, <2>1, <2>2 DEF send_End, Remaining
  <1>12. CASE peer_Sends
    BY <1>12 DEF peer_Sends, buffers, flags, kernel, sendHistory, recvHistory
  <1>13. CASE peer_Accepts
    BY <1>13 DEF peer_Accepts, buffers, flags, kernel, sendHistory, recvHistory
  <1>14. CASE peer_Ends
    BY <1>14 DEF peer_Ends, buffers, flags, kernel, sendHistory, recvHistory
  <1>15. CASE UNCHANGED socketVars
    BY <1>15 DEF socketVars, buffers, flags, kernel, sendHistory, recvHistory
  <1>16. QED
    BY Zenon, <1>1, <1>2, <1>3, <1>4, <1>5, <1>6, <1>7, <1>8, <1>9, <1>10, <1>11, <1>12, <1>13, <1>14, <1>15
    DEF Next, Application, sendAndRecv
-----------------------------------------------------------------------------
(* One ::send() of n bytes puts the send buffer's next n bytes on the wire. *)
LEMMA WireExtended ==
  ASSUME TypeOK, ControlInv, NEW n \in Lengths, send_Bytes(n)
  PROVE  /\ wire' \in Seq(Nat) /\ Len(wire') = Len(wire) + n
         /\ \A i \in 1 .. Len(wire) : wire'[i] = wire[i]
         /\ \A i \in 1 .. n : wire'[Len(wire) + i] = send_buffer_[total_sent + i - 1]
  <1> DEFINE f == [i \in 1 .. n |-> send_buffer_[total_sent + i - 1]]
  <1>1. wire' = wire \o f /\ wire \in Seq(Nat) /\ n \in Nat
    BY BufferAssumption DEF send_Bytes, TypeOK, Lengths
  <1>2. \A i \in 1 .. n : total_sent + i - 1 \in Index
    BY BufferAssumption DEF send_Bytes, ControlInv, LoopInv, IndicesInBuffer, Remaining, Lengths, Index
  <1>3. f \in [1 .. n -> Nat]
    BY <1>2 DEF TypeOK
  <1>4. \A i \in 1 .. n : f[i] = send_buffer_[total_sent + i - 1]
    OBVIOUS
  <1> HIDE DEF f
  <1>5. QED
    BY ZenonT(30), <1>1, <1>3, <1>4, Extended

(* What the callback takes is the receive buffer's next bytes. *)
LEMMA ConsumedExtended ==
  ASSUME TypeOK, ControlInv, NEW n \in Lengths, callback_Consume(n)
  PROVE  /\ consumed' \in Seq(Nat) /\ Len(consumed') = Len(consumed) + n
         /\ \A i \in 1 .. Len(consumed) : consumed'[i] = consumed[i]
         /\ \A i \in 1 .. n : consumed'[Len(consumed) + i] = rcv_buffer_[i - 1]
  <1> DEFINE f == [i \in 1 .. n |-> rcv_buffer_[i - 1]]
  <1>1. consumed' = consumed \o f /\ consumed \in Seq(Nat) /\ n \in Nat
    BY BufferAssumption DEF callback_Consume, TypeOK, Lengths
  <1>2. \A i \in 1 .. n : i - 1 \in Index
    BY BufferAssumption DEF Lengths, Index
  <1>3. f \in [1 .. n -> Nat]
    BY <1>2 DEF TypeOK
  <1>4. \A i \in 1 .. n : f[i] = rcv_buffer_[i - 1]
    OBVIOUS
  <1> HIDE DEF f
  <1>5. QED
    BY ZenonT(30), <1>1, <1>3, <1>4, Extended

(* send() appends its bytes to what the send buffer holds. *)
LEMMA SendFilled ==
  ASSUME TypeOK, ControlInv, NEW n \in Lengths, send(n)
  PROVE  /\ send_buffer_' \in [Index -> Nat]
         /\ \A i \in Index : i < next_send_valid_index_ => send_buffer_'[i] = send_buffer_[i]
         /\ \A i \in Index : i >= next_send_valid_index_ /\ i < next_send_valid_index_ + n =>
              send_buffer_'[i] = accepted + 1 + (i - next_send_valid_index_)
  <1>1. /\ next_send_valid_index_ \in Nat /\ n \in Nat /\ accepted \in Nat
        /\ send_buffer_ \in [Index -> Nat] /\ Index \subseteq Nat
    BY BufferAssumption DEF TypeOK, ControlInv, LoopInv, IndicesInBuffer, Lengths, Index
  <1>2. send_buffer_' = [i \in Index |->
          IF i \in next_send_valid_index_ .. next_send_valid_index_ + n - 1
          THEN accepted + 1 + i - next_send_valid_index_ ELSE send_buffer_[i]]
    BY <1>1 DEF send, Filled
  <1>3. QED
    BY <1>1, <1>2

(* recvmsg() appends its bytes to what the receive buffer holds. *)
LEMMA RecvFilled ==
  ASSUME TypeOK, ControlInv, NEW n \in Lengths, recv_Bytes(n)
  PROVE  /\ rcv_buffer_' \in [Index -> Nat]
         /\ \A i \in Index : i < next_rcv_valid_index_ => rcv_buffer_'[i] = rcv_buffer_[i]
         /\ \A i \in Index : i >= next_rcv_valid_index_ /\ i < next_rcv_valid_index_ + n =>
              rcv_buffer_'[i] = taken + 1 + (i - next_rcv_valid_index_)
  <1>1. /\ next_rcv_valid_index_ \in Nat /\ n \in Nat /\ taken \in Nat
        /\ rcv_buffer_ \in [Index -> Nat] /\ Index \subseteq Nat
    BY BufferAssumption DEF TypeOK, ControlInv, LoopInv, IndicesInBuffer, Lengths, Index
  <1>2. rcv_buffer_' = [i \in Index |->
          IF i \in next_rcv_valid_index_ .. next_rcv_valid_index_ + n - 1
          THEN taken + 1 + i - next_rcv_valid_index_ ELSE rcv_buffer_[i]]
    BY <1>1 DEF recv_Bytes, Filled
  <1>3. QED
    BY <1>1, <1>2

(* sendAndRecv() moves the bytes not sent to the front of the send buffer. *)
LEMMA MovedBuffer ==
  ASSUME TypeOK, ControlInv
  PROVE  /\ Moved \in [Index -> Nat]
         /\ \A i \in 0 .. Remaining - 1 : i \in Index /\ Moved[i] = send_buffer_[i + total_sent]
  <1>1. Remaining \in Nat /\ total_sent \in Nat
    BY DEF ControlInv, LoopInv, IndicesInBuffer, Remaining
  <1>2. ASSUME NEW i \in Nat, i < Remaining
        PROVE  i \in Index /\ i + total_sent \in Index
    BY <1>2, BufferAssumption DEF ControlInv, LoopInv, IndicesInBuffer, Remaining, Index
  <1>3. send_buffer_ \in [Index -> Nat] /\ Index \subseteq Nat
    BY BufferAssumption DEF TypeOK, Index
  <1>4. Moved \in [Index -> Nat]
    BY <1>1, <1>2, <1>3 DEF Moved
  <1>5. ASSUME NEW i \in 0 .. Remaining - 1
        PROVE  i \in Index /\ Moved[i] = send_buffer_[i + total_sent]
    <2>1. i \in Nat /\ i < Remaining
      BY <1>1
    <2>2. QED
      BY <1>2, <1>3, <2>1 DEF Moved
  <1>6. QED
    BY <1>4, <1>5

(* The callback moves what it left to the front of the receive buffer. *)
LEMMA ConsumedBuffer ==
  ASSUME TypeOK, ControlInv, NEW n \in Lengths, callback_Consume(n)
  PROVE  /\ rcv_buffer_' \in [Index -> Nat]
         /\ \A i \in 0 .. next_rcv_valid_index_ - n - 1 : rcv_buffer_'[i] = rcv_buffer_[i + n]
  <1>1. /\ next_rcv_valid_index_ \in Nat /\ next_rcv_valid_index_ <= TCP_BUFFER_SIZE
        /\ n \in Nat /\ TCP_BUFFER_SIZE \in Nat
    BY BufferAssumption DEF ControlInv, LoopInv, IndicesInBuffer, Lengths
  <1>2. rcv_buffer_ \in [Index -> Nat]
    BY DEF TypeOK
  <1>3. rcv_buffer_' = [i \in Index |->
          IF i + n < next_rcv_valid_index_ THEN rcv_buffer_[i + n] ELSE rcv_buffer_[i]]
    BY <1>2 DEF callback_Consume
  <1>4. ASSUME NEW i \in Index, i + n < next_rcv_valid_index_
        PROVE  i + n \in Index
    BY <1>1, <1>4 DEF Index
  <1>5. rcv_buffer_' \in [Index -> Nat]
    BY <1>2, <1>3, <1>4
  <1>6. ASSUME NEW i \in 0 .. next_rcv_valid_index_ - n - 1
        PROVE  rcv_buffer_'[i] = rcv_buffer_[i + n]
    <2>1. i \in Index /\ i + n < next_rcv_valid_index_
      BY <1>1 DEF Index
    <2>2. QED
      BY <1>3, <2>1
  <1>7. QED
    BY <1>5, <1>6

(* Every step keeps the types, the lengths of the buffers among them. *)
LEMMA NextTypeOK ==
  ASSUME TypeOK, ControlInv, [Next]_socketVars
  PROVE  TypeOK'
  <1> USE DEF buffers, flags, kernel, sendHistory, recvHistory
  <1>1. CASE destroy \/ connect
    <2>1. <<>> \in Seq(Nat)
      BY EmptySeq
    <2>2. base' \in [sent : Nat, arrived : Nat] /\ wire' \in Seq(Nat) /\ consumed' \in Seq(Nat)
      <3>1. Reset
        BY <1>1 DEF destroy, connect
      <3>2. wire' \in Seq(Nat) /\ consumed' \in Seq(Nat)
        BY <2>1, <3>1 DEF Reset
      <3>3. base' \in [sent : Nat, arrived : Nat]
        BY <3>1 DEF Reset, TypeOK
      <3>4. QED
        BY <3>2, <3>3
    <2>3. fd_' \in Nat \cup {-1} /\ connects' \in Nat /\ peer' \in {"connecting", "open", "fin", "rst"}
      BY <1>1 DEF TypeOK, destroy, connect
    <2>4. UNCHANGED <<send_buffer_, rcv_buffer_, pc, accepted, arrived>> /\ taken' = arrived
      BY <1>1 DEF destroy, connect, Reset
    <2>5. QED
      BY <2>2, <2>3, <2>4 DEF TypeOK
  <1>2. ASSUME NEW n \in Lengths, send(n)
        PROVE  TypeOK'
    BY <1>2, SendFilled, BufferAssumption DEF TypeOK, send, Lengths
  <1>3. ASSUME NEW n \in Lengths, recv_Bytes(n)
        PROVE  TypeOK'
    BY <1>3, RecvFilled, BufferAssumption DEF TypeOK, recv_Bytes, MayReceive, Lengths
  <1>4. ASSUME NEW n \in Lengths, callback_Consume(n)
        PROVE  TypeOK'
    BY Zenon, <1>4, ConsumedExtended, ConsumedBuffer DEF TypeOK, callback_Consume
  <1>5. ASSUME NEW n \in Lengths, send_Bytes(n)
        PROVE  TypeOK'
    BY Zenon, <1>5, WireExtended DEF TypeOK, send_Bytes
  <1>6. CASE send_End
    BY <1>6, MovedBuffer DEF TypeOK, send_End
  <1>7. CASE recv_Full \/ recv_Broken \/ recv_Nothing \/ callback_Return
    BY Zenon, <1>7 DEF TypeOK, recv_Full, recv_Broken, recv_Nothing, callback_Return
  <1>8. CASE peer_Sends \/ peer_Accepts \/ peer_Ends
    <2>1. /\ UNCHANGED <<fd_, connects, send_buffer_, rcv_buffer_, pc, accepted, taken, wire,
                        consumed, base>>
          /\ arrived' \in {arrived, arrived + 1}
          /\ peer' \in {peer, "open", "fin", "rst"}
      BY <1>8 DEF peer_Sends, peer_Accepts, peer_Ends
    <2>2. QED
      BY <2>1 DEF TypeOK
  <1>9. CASE UNCHANGED socketVars
    BY <1>9 DEF TypeOK, socketVars
  <1>10. QED
    BY <1>1, <1>2, <1>3, <1>4, <1>5, <1>6, <1>7, <1>8, <1>9
    DEF Next, Application, sendAndRecv

(* The initial state. *)
LEMMA InitInv == Init => TypeOK /\ ControlInv /\ SendInv /\ RecvInv
  <1> SUFFICES ASSUME Init
               PROVE  TypeOK /\ ControlInv /\ SendInv /\ RecvInv
    OBVIOUS
  <1>1. <<>> \in Seq(Nat) /\ Len(<<>>) = 0
    BY EmptySeq
  <1>2. TypeOK
    BY <1>1 DEF Init, TypeOK
  <1>3. ControlInv
    BY BufferAssumption
    DEF Init, ControlInv, LoopInv, IndicesInBuffer, DescriptorOwned, FlagsInv
  <1>4. SendInv /\ RecvInv
    <2>1. base.sent = 0 /\ base.arrived = 0
      BY DEF Init
    <2>2. 0 = 0 + 0 + (0 - 0) /\ 0 = 0 + 0 + 0 /\ 0 <= 0
      OBVIOUS
    <2>3. SendInv
      BY Zenon, <1>1, <2>1, <2>2, EmptyRanges DEF Init, SendInv
    <2>4. RecvInv
      BY ZenonT(30), <1>1, <2>1, <2>2, EmptyRanges DEF Init, RecvInv
    <2>5. QED
      BY Zenon, <2>3, <2>4
  <1>5. QED
    BY <1>2, <1>3, <1>4
-----------------------------------------------------------------------------
(* The bytes of the connection on their way out. *)
LEMMA NextSend ==
  ASSUME TypeOK, ControlInv, SendInv, [Next]_socketVars
  PROVE  SendInv'
  <1> USE DEF buffers, flags, kernel, sendHistory, recvHistory
  <1>0. /\ next_send_valid_index_ \in Nat /\ next_send_valid_index_ <= TCP_BUFFER_SIZE
        /\ total_sent \in Nat /\ total_sent <= next_send_valid_index_
        /\ Len(wire) \in Nat /\ base.sent \in Nat /\ accepted \in Nat
        /\ send_buffer_ \in [Index -> Nat]
    BY LenProperties, BufferAssumption DEF TypeOK, ControlInv, LoopInv, IndicesInBuffer
  <1>1. CASE destroy \/ connect
    <2>1. total_sent' = 0 /\ next_send_valid_index_' = 0 /\ wire' = <<>>
          /\ accepted' = accepted /\ base'.sent = accepted
      BY <1>1 DEF destroy, connect, Reset, AppRuns, ControlInv, LoopInv
    <2>2. Len(wire') = 0
      BY <2>1, EmptySeq
    <2>3. QED
      <3>1. accepted = accepted + 0 + (0 - 0)
        BY <1>0
      <3>2. QED
        BY Zenon, <2>1, <2>2, <3>1, EmptyRanges DEF SendInv
  <1>2. ASSUME NEW n \in Lengths, send(n)
        PROVE  SendInv'
    <2>1. /\ total_sent = 0 /\ n \in Nat /\ next_send_valid_index_ + n <= TCP_BUFFER_SIZE
          /\ next_send_valid_index_' = next_send_valid_index_ + n /\ accepted' = accepted + n
          /\ UNCHANGED <<wire, base, total_sent>>
      BY <1>0, <1>2, BufferAssumption
      DEF send, Fits, AppRuns, ControlInv, LoopInv, Lengths
    <2>2. accepted = base.sent + Len(wire) + next_send_valid_index_
      BY <1>0, <2>1 DEF SendInv
    <2>3. ASSUME NEW i \in 0 .. next_send_valid_index_ + n - 1
          PROVE  send_buffer_'[i] = base.sent + Len(wire) + i + 1
      <3>1. i \in Index /\ i \in Nat
        BY <1>0, <2>1, BufferAssumption DEF Index
      <3>3. CASE i < next_send_valid_index_
        <4>1. send_buffer_'[i] = send_buffer_[i]
          BY <1>2, <3>1, <3>3, SendFilled
        <4>2. send_buffer_[i] = base.sent + Len(wire) + (i - 0) + 1
          BY <1>0, <2>1, <3>1, <3>3 DEF SendInv
        <4>3. QED
          BY <1>0, <3>1, <4>1, <4>2
      <3>4. CASE i >= next_send_valid_index_
        <4>1. i < next_send_valid_index_ + n
          BY <1>0, <2>1, <3>1
        <4>2. send_buffer_'[i] = accepted + 1 + (i - next_send_valid_index_)
          BY <1>2, <3>1, <3>4, <4>1, SendFilled
        <4>3. QED
          <5>1. (base.sent + Len(wire) + next_send_valid_index_) + 1 + (i - next_send_valid_index_)
                  = base.sent + Len(wire) + i + 1
            BY <1>0, <3>1
          <5>2. QED
            BY Zenon, <2>2, <4>2, <5>1
      <3>5. QED
        BY <1>0, <3>1, <3>3, <3>4
    <2>4. accepted' = base'.sent + Len(wire') + (next_send_valid_index_' - total_sent')
      <3>1. (base.sent + Len(wire) + next_send_valid_index_) + n
              = base.sent + Len(wire) + ((next_send_valid_index_ + n) - 0)
        BY <1>0, <2>1
      <3>2. QED
        BY Zenon, <2>1, <2>2, <3>1
    <2>5. \A i \in total_sent' .. next_send_valid_index_' - 1 :
            send_buffer_'[i] = base'.sent + Len(wire') + (i - total_sent') + 1
      BY <1>0, <2>1, <2>3
    <2>6. QED
      BY <2>1, <2>4, <2>5 DEF SendInv
  <1>3. ASSUME NEW n \in Lengths, send_Bytes(n)
        PROVE  SendInv'
    <2>1. /\ n \in Nat /\ n <= next_send_valid_index_ - total_sent /\ total_sent' = total_sent + n
          /\ UNCHANGED <<send_buffer_, next_send_valid_index_, accepted, base>>
      BY <1>3, BufferAssumption DEF send_Bytes, Remaining, Lengths
    <2>2. Len(wire') = Len(wire) + n
      BY <1>3, WireExtended
    <2>3. accepted' = base'.sent + Len(wire') + (next_send_valid_index_' - total_sent')
      BY <1>0, <2>1, <2>2 DEF SendInv
    <2>4. ASSUME NEW i \in 1 .. Len(wire')
          PROVE  wire'[i] = base'.sent + i
      <3>1. CASE i <= Len(wire)
        <4>1. i \in 1 .. Len(wire)
          BY <1>0, <2>1, <2>2, <3>1
        <4>2. wire'[i] = wire[i] /\ base' = base
          BY Zenon, <1>3, <2>1, <4>1, WireExtended
        <4>3. QED
          BY Zenon, <4>1, <4>2 DEF SendInv
      <3>2. CASE i > Len(wire)
        <4>1. PICK j \in 1 .. n : i = Len(wire) + j
          <5>1. i - Len(wire) \in 1 .. n /\ i = Len(wire) + (i - Len(wire))
            BY <1>0, <2>1, <2>2, <3>2
          <5>2. QED
            BY <5>1
        <4>2. wire'[i] = send_buffer_[total_sent + j - 1]
          BY <1>3, <4>1, WireExtended
        <4>3. total_sent + j - 1 \in total_sent .. next_send_valid_index_ - 1
          BY <1>0, <2>1
        <4>4. send_buffer_[total_sent + j - 1]
                = base.sent + Len(wire) + ((total_sent + j - 1) - total_sent) + 1
          BY <4>3 DEF SendInv
        <4>5. QED
          <5>1. base.sent + Len(wire) + ((total_sent + j - 1) - total_sent) + 1
                  = base.sent + (Len(wire) + j)
            BY <1>0, <2>1
          <5>2. QED
            BY Zenon, <2>1, <4>1, <4>2, <4>4, <5>1
      <3>3. QED
        BY <1>0, <2>1, <2>2, <3>1, <3>2
    <2>5. ASSUME NEW i \in total_sent' .. next_send_valid_index_' - 1
          PROVE  send_buffer_'[i] = base'.sent + Len(wire') + (i - total_sent') + 1
      <3>1. i \in total_sent .. next_send_valid_index_ - 1
        BY <1>0, <2>1
      <3>2. send_buffer_[i] = base.sent + Len(wire) + (i - total_sent) + 1
        BY <3>1 DEF SendInv
      <3>3. QED
        BY <1>0, <2>1, <2>2, <3>1, <3>2
    <2>6. QED
      BY <2>3, <2>4, <2>5 DEF SendInv
  <1>4. CASE send_End
    <2>1. /\ total_sent' = 0 /\ next_send_valid_index_' = Remaining /\ send_buffer_' = Moved
          /\ UNCHANGED <<wire, accepted, base>>
      BY <1>4 DEF send_End
    <2>2. Remaining \in Nat /\ Remaining = next_send_valid_index_ - total_sent
      BY <1>0 DEF Remaining
    <2>3. ASSUME NEW i \in 0 .. Remaining - 1
          PROVE  send_buffer_'[i] = base.sent + Len(wire) + i + 1
      <3>1. send_buffer_'[i] = send_buffer_[i + total_sent]
        BY <2>1, MovedBuffer
      <3>2. i + total_sent \in total_sent .. next_send_valid_index_ - 1
        BY <1>0, <2>2
      <3>3. send_buffer_[i + total_sent] = base.sent + Len(wire) + ((i + total_sent) - total_sent) + 1
        BY <3>2 DEF SendInv
      <3>4. QED
        BY <1>0, <2>2, <3>1, <3>3
    <2>4. QED
      BY <1>0, <2>1, <2>2, <2>3 DEF SendInv
  <1>5. CASE UNCHANGED <<send_buffer_, next_send_valid_index_, total_sent, accepted, wire, base>>
    BY Zenon, <1>5 DEF SendInv
  <1>6. QED
    BY <1>1, <1>2, <1>3, <1>4, <1>5
    DEF Next, Application, sendAndRecv, socketVars, recv_Full, recv_Bytes, recv_Broken, recv_Nothing,
        callback_Consume, callback_Return, peer_Sends, peer_Accepts, peer_Ends

(* The bytes of the connection on their way in. *)
LEMMA NextRecv ==
  ASSUME TypeOK, ControlInv, RecvInv, [Next]_socketVars
  PROVE  RecvInv'
  <1> USE DEF buffers, flags, kernel, sendHistory, recvHistory
  <1>0. /\ next_rcv_valid_index_ \in Nat /\ next_rcv_valid_index_ <= TCP_BUFFER_SIZE
        /\ Len(consumed) \in Nat /\ base.arrived \in Nat /\ taken \in Nat /\ arrived \in Nat
        /\ rcv_buffer_ \in [Index -> Nat]
    BY LenProperties, BufferAssumption DEF TypeOK, ControlInv, LoopInv, IndicesInBuffer
  <1>1. CASE destroy \/ connect
    <2>1. next_rcv_valid_index_' = 0 /\ consumed' = <<>> /\ taken' = arrived
          /\ arrived' = arrived /\ base'.arrived = arrived
      BY <1>1 DEF destroy, connect, Reset
    <2>2. Len(consumed') = 0
      BY <2>1, EmptySeq
    <2>3. QED
      <3>1. arrived = arrived + 0 + 0 /\ arrived <= arrived
        BY <1>0
      <3>2. QED
        BY Zenon, <2>1, <2>2, <3>1, EmptyRanges DEF RecvInv
  <1>2. ASSUME NEW n \in Lengths, recv_Bytes(n)
        PROVE  RecvInv'
    <2>1. /\ n \in Nat /\ next_rcv_valid_index_ + n <= TCP_BUFFER_SIZE /\ taken + n <= arrived
          /\ next_rcv_valid_index_' = next_rcv_valid_index_ + n /\ taken' = taken + n
          /\ UNCHANGED <<consumed, base, arrived>>
      BY <1>0, <1>2, BufferAssumption DEF recv_Bytes, Lengths
    <2>2. taken = base.arrived + Len(consumed) + next_rcv_valid_index_
      BY DEF RecvInv
    <2>3. ASSUME NEW i \in 0 .. next_rcv_valid_index_ + n - 1
          PROVE  rcv_buffer_'[i] = base.arrived + Len(consumed) + i + 1
      <3>1. i \in Index /\ i \in Nat
        BY <1>0, <2>1, BufferAssumption DEF Index
      <3>2. CASE i < next_rcv_valid_index_
        <4>1. rcv_buffer_'[i] = rcv_buffer_[i]
          BY <1>2, <3>1, <3>2, RecvFilled
        <4>2. rcv_buffer_[i] = base.arrived + Len(consumed) + i + 1
          BY <1>0, <3>1, <3>2 DEF RecvInv
        <4>3. QED
          BY <4>1, <4>2
      <3>3. CASE i >= next_rcv_valid_index_
        <4>1. i < next_rcv_valid_index_ + n
          BY <1>0, <2>1, <3>1
        <4>2. rcv_buffer_'[i] = taken + 1 + (i - next_rcv_valid_index_)
          BY <1>2, <3>1, <3>3, <4>1, RecvFilled
        <4>3. QED
          <5>1. (base.arrived + Len(consumed) + next_rcv_valid_index_) + 1
                    + (i - next_rcv_valid_index_)
                  = base.arrived + Len(consumed) + i + 1
            BY <1>0, <3>1
          <5>2. QED
            BY Zenon, <2>2, <4>2, <5>1
      <3>4. QED
        BY <1>0, <3>1, <3>2, <3>3
    <2>4. taken' = base'.arrived + Len(consumed') + next_rcv_valid_index_' /\ taken' <= arrived'
      <3>1. (base.arrived + Len(consumed) + next_rcv_valid_index_) + n
              = base.arrived + Len(consumed) + (next_rcv_valid_index_ + n)
        BY <1>0, <2>1
      <3>2. QED
        BY Zenon, <2>1, <2>2, <3>1
    <2>5. \A i \in 1 .. Len(consumed') : consumed'[i] = base'.arrived + i
      BY <2>1 DEF RecvInv
    <2>6. ASSUME NEW i \in 0 .. next_rcv_valid_index_' - 1
          PROVE  rcv_buffer_'[i] = base'.arrived + Len(consumed') + i + 1
      <3>1. i \in 0 .. next_rcv_valid_index_ + n - 1
        BY <1>0, <2>1
      <3>2. rcv_buffer_'[i] = base.arrived + Len(consumed) + i + 1
        BY <2>3, <3>1
      <3>3. QED
        BY <2>1, <3>2
    <2>7. QED
      BY <2>4, <2>5, <2>6 DEF RecvInv
  <1>3. ASSUME NEW n \in Lengths, callback_Consume(n)
        PROVE  RecvInv'
    <2>1. /\ n \in Nat /\ n <= next_rcv_valid_index_
          /\ next_rcv_valid_index_' = next_rcv_valid_index_ - n
          /\ UNCHANGED <<taken, arrived, base>>
      BY <1>3, BufferAssumption DEF callback_Consume, Lengths
    <2>2. Len(consumed') = Len(consumed) + n
      BY <1>3, ConsumedExtended
    <2>3. taken' = base'.arrived + Len(consumed') + next_rcv_valid_index_' /\ taken' <= arrived'
      <3>1. base.arrived + Len(consumed) + next_rcv_valid_index_
              = base.arrived + (Len(consumed) + n) + (next_rcv_valid_index_ - n)
        BY <1>0, <2>1
      <3>2. QED
        BY Zenon, <2>1, <2>2, <3>1 DEF RecvInv
    <2>4. ASSUME NEW i \in 1 .. Len(consumed')
          PROVE  consumed'[i] = base'.arrived + i
      <3>1. CASE i <= Len(consumed)
        <4>1. i \in 1 .. Len(consumed)
          BY <1>0, <2>1, <2>2, <3>1
        <4>2. consumed'[i] = consumed[i] /\ base' = base
          BY Zenon, <1>3, <2>1, <4>1, ConsumedExtended
        <4>3. QED
          BY Zenon, <4>1, <4>2 DEF RecvInv
      <3>2. CASE i > Len(consumed)
        <4>1. PICK j \in 1 .. n : i = Len(consumed) + j
          <5>1. i - Len(consumed) \in 1 .. n /\ i = Len(consumed) + (i - Len(consumed))
            BY <1>0, <2>1, <2>2, <3>2
          <5>2. QED
            BY <5>1
        <4>2. consumed'[i] = rcv_buffer_[j - 1]
          BY <1>3, <4>1, ConsumedExtended
        <4>3. j - 1 \in 0 .. next_rcv_valid_index_ - 1
          BY <1>0, <2>1
        <4>4. rcv_buffer_[j - 1] = base.arrived + Len(consumed) + (j - 1) + 1
          BY <4>3 DEF RecvInv
        <4>5. QED
          <5>1. base.arrived + Len(consumed) + (j - 1) + 1 = base.arrived + (Len(consumed) + j)
            BY <1>0, <2>1
          <5>2. QED
            BY Zenon, <2>1, <4>1, <4>2, <4>4, <5>1
      <3>3. QED
        BY <1>0, <2>1, <2>2, <3>1, <3>2
    <2>5. ASSUME NEW i \in 0 .. next_rcv_valid_index_' - 1
          PROVE  rcv_buffer_'[i] = base'.arrived + Len(consumed') + i + 1
      <3>1. rcv_buffer_'[i] = rcv_buffer_[i + n]
        BY <1>3, <2>1, ConsumedBuffer
      <3>2. i + n \in 0 .. next_rcv_valid_index_ - 1
        BY <1>0, <2>1
      <3>3. rcv_buffer_[i + n] = base.arrived + Len(consumed) + (i + n) + 1
        BY <3>2 DEF RecvInv
      <3>4. QED
        BY <1>0, <2>1, <2>2, <3>1, <3>3
    <2>6. QED
      BY <2>3, <2>4, <2>5 DEF RecvInv
  <1>4. CASE peer_Sends
    BY <1>0, <1>4 DEF peer_Sends, RecvInv
  <1>5. CASE UNCHANGED <<rcv_buffer_, next_rcv_valid_index_, recvHistory, base>>
    BY <1>5 DEF RecvInv
  <1>6. QED
    BY Zenon, <1>1, <1>2, <1>3, <1>4, <1>5
    DEF Next, Application, sendAndRecv, socketVars, send, recv_Full, recv_Broken, recv_Nothing,
        callback_Return, send_Bytes, send_End, peer_Accepts, peer_Ends
-----------------------------------------------------------------------------
(* The inductive invariant. *)
IInv == TypeOK /\ ControlInv /\ SendInv /\ RecvInv

(* The inductive invariant as a whole. *)
LEMMA NextIInv == IInv /\ [Next]_socketVars => IInv'
  BY NextTypeOK, NextControl, NextSend, NextRecv DEF IInv

(* The inductive invariant holds of every behaviour. *)
LEMMA SocketInvariant == SafeSpec => []IInv
  <1>1. Init => IInv
    BY InitInv DEF IInv
  <1>2. QED
    BY <1>1, NextIInv, PTL DEF SafeSpec

(* For every buffer size the indices stay in their buffers: no memcpy(),   *)
(* memmove() or iovec of send() and sendAndRecv() reaches outside.         *)
THEOREM BuffersNotOverrun == SafeSpec => []IndicesInBuffer
  <1>1. IInv => IndicesInBuffer
    BY DEF IInv, ControlInv, LoopInv
  <1>2. QED
    BY <1>1, SocketInvariant, PTL

(* Whatever callbacks close or reconnect, the object owns the descriptor   *)
(* it holds and no other.                                                  *)
THEOREM SocketOwnsDescriptor == SafeSpec => []DescriptorOwned
  <1>1. IInv => DescriptorOwned
    BY DEF IInv, ControlInv
  <1>2. QED
    BY <1>1, SocketInvariant, PTL

(* The flags the server acts on are set for a reason only. *)
THEOREM SocketSafe == SafeSpec => []FlagsJustified
  <1>1. IInv => FlagsJustified
    BY DEF IInv, ControlInv, LoopInv, FlagsInv, FlagsJustified
  <1>2. QED
    BY <1>1, SocketInvariant, PTL

(* A sequence of bytes that counts up is determined by its length. *)
LEMMA Joined ==
  ASSUME NEW s \in Seq(Nat), NEW n \in Nat, NEW f \in [1 .. n -> Nat], NEW b \in Nat,
         \A i \in 1 .. Len(s) : s[i] = b + i,
         \A i \in 1 .. n : f[i] = b + Len(s) + i
  PROVE  s \o f = [i \in 1 .. Len(s) + n |-> b + i]
  <1> DEFINE t == [i \in 1 .. Len(s) + n |-> b + i]
  <1>1. Len(s) \in Nat /\ Len(s) + n \in Nat
    BY LenProperties
  <1>2. t \in [1 .. Len(s) + n -> Nat] /\ \A i \in 1 .. Len(s) + n : t[i] = b + i
    BY <1>1
  <1> HIDE DEF t
  <1>3. t \in Seq(Nat)
    BY Zenon, <1>1, <1>2, FunctionIsSeq
  <1>4. Len(t) = Len(s) + n
    BY Zenon, <1>1, <1>2, FunctionIsSeq
  <1>5. s \o f \in Seq(Nat) /\ Len(s \o f) = Len(s) + n
    BY Zenon, Extended
  <1>6. ASSUME NEW i \in 1 .. Len(s) + n
        PROVE  (s \o f)[i] = t[i]
    <2>1. CASE i <= Len(s)
      <3>1. i \in 1 .. Len(s)
        BY <1>1, <2>1
      <3>2. QED
        BY <1>2, <3>1, Extended
    <2>2. CASE i > Len(s)
      <3>1. PICK j \in 1 .. n : i = Len(s) + j
        <4>1. i - Len(s) \in 1 .. n /\ i = Len(s) + (i - Len(s))
          BY <1>1, <2>2
        <4>2. QED
          BY Zenon, <4>1
      <3>2. (s \o f)[i] = b + Len(s) + j
        BY <3>1, Extended
      <3>3. QED
        BY <1>1, <1>2, <3>1, <3>2
    <2>3. QED
      BY <1>1, <2>1, <2>2
  <1>7. s \o f = t
    BY Zenon, <1>3, <1>4, <1>5, <1>6, SeqEqual
  <1>8. QED
    BY <1>7 DEF t

(* No byte that send() accepted is lost, repeated or reordered on its way  *)
(* to the wire, and none of an earlier connection gets there, for every    *)
(* size of the buffers and every way the kernel splits the stream.         *)
THEOREM StreamsIntact == SafeSpec => []SendStreamIntact
  <1>1. IInv => SendStreamIntact
    <2> SUFFICES ASSUME IInv
                 PROVE  SendStreamIntact
      OBVIOUS
    <2> DEFINE p == Prefix(send_buffer_, next_send_valid_index_)
               pending == SubSeq(p, total_sent + 1, next_send_valid_index_)
    <2>1. /\ next_send_valid_index_ \in Nat /\ next_send_valid_index_ <= TCP_BUFFER_SIZE
          /\ total_sent \in Nat /\ total_sent <= next_send_valid_index_
          /\ Len(wire) \in Nat /\ base.sent \in Nat /\ wire \in Seq(Nat)
          /\ send_buffer_ \in [Index -> Nat]
      BY LenProperties, BufferAssumption
      DEF IInv, TypeOK, ControlInv, LoopInv, IndicesInBuffer
    <2>0. PICK n \in Nat : n = next_send_valid_index_ - total_sent
      BY <2>1
    <2>2. \A i \in 1 .. next_send_valid_index_ : p[i] = send_buffer_[i - 1] /\ p[i] \in Nat
      BY <2>1, BufferAssumption DEF Prefix, Index
    <2> HIDE DEF p
    <2>3. /\ pending \in Seq(Nat)
          /\ Len(pending) = IF total_sent + 1 <= next_send_valid_index_
                            THEN next_send_valid_index_ - (total_sent + 1) + 1 ELSE 0
          /\ \A i \in 1 .. next_send_valid_index_ - (total_sent + 1) + 1 :
               pending[i] = p[(total_sent + 1) + i - 1]
      <3>1. \A i \in total_sent + 1 .. next_send_valid_index_ : p[i] \in Nat
        BY <2>1, <2>2
      <3>2. total_sent + 1 \in Int /\ next_send_valid_index_ \in Int
        BY <2>1
      <3>3. QED
        BY <3>1, <3>2, SubSeqProperties
    <2>4. Len(pending) = n
      BY <2>0, <2>1, <2>3
    <2>5. ASSUME NEW i \in 1 .. n
          PROVE  pending[i] = base.sent + Len(wire) + i
      <3>1. PICK k \in 1 .. next_send_valid_index_ : k = (total_sent + 1) + i - 1
        BY <2>0, <2>1
      <3>2. pending[i] = p[k]
        <4>1. i \in 1 .. next_send_valid_index_ - (total_sent + 1) + 1
          BY <2>0, <2>1
        <4>2. QED
          BY Zenon, <2>3, <3>1, <4>1
      <3>3. p[k] = send_buffer_[k - 1]
        BY <2>2
      <3>4. k - 1 \in total_sent .. next_send_valid_index_ - 1
        BY <2>0, <2>1, <3>1
      <3>5. send_buffer_[k - 1] = base.sent + Len(wire) + ((k - 1) - total_sent) + 1
        BY <3>4 DEF IInv, SendInv
      <3>6. QED
        BY <2>1, <3>1, <3>2, <3>3, <3>5
    <2> HIDE DEF pending
    <2>6. pending \in [1 .. n -> Nat]
      BY <2>3, <2>4, LenProperties
    <2>7. \A i \in 1 .. Len(wire) : wire[i] = base.sent + i
      BY DEF IInv, SendInv
    <2>8. wire \o pending = [i \in 1 .. Len(wire) + n |-> base.sent + i]
      <3>1. PICK b \in Nat : b = base.sent
        BY <2>1
      <3>2. wire \in Seq(Nat) /\ \A i \in 1 .. Len(wire) : wire[i] = b + i
        BY <2>1, <2>7, <3>1
      <3>3. \A i \in 1 .. n : pending[i] = b + Len(wire) + i
        BY <2>5, <3>1
      <3>4. wire \o pending = [i \in 1 .. Len(wire) + n |-> b + i]
        BY Zenon, <2>6, <3>2, <3>3, Joined
      <3>5. QED
        BY <3>1, <3>4
    <2>9. accepted - base.sent = Len(wire) + n
      BY <2>0, <2>1 DEF IInv, SendInv
    <2>10. QED
      BY Zenon, <2>8, <2>9 DEF SendStreamIntact, pending, p
  <1>2. QED
    BY <1>1, SocketInvariant, PTL

(* The same for the bytes that arrive, on their way to the callback. *)
THEOREM ReceivedIntact == SafeSpec => []RecvStreamIntact
  <1>1. IInv => RecvStreamIntact
    <2> SUFFICES ASSUME IInv
                 PROVE  RecvStreamIntact
      OBVIOUS
    <2> DEFINE n == next_rcv_valid_index_
               p == Prefix(rcv_buffer_, n)
    <2>1. /\ n \in Nat /\ n <= TCP_BUFFER_SIZE
          /\ Len(consumed) \in Nat /\ base.arrived \in Nat /\ consumed \in Seq(Nat)
          /\ rcv_buffer_ \in [Index -> Nat]
      BY LenProperties, BufferAssumption
      DEF IInv, TypeOK, ControlInv, LoopInv, IndicesInBuffer
    <2>2. \A i \in 1 .. n : i - 1 \in Index /\ i - 1 \in 0 .. n - 1
      BY <2>1, BufferAssumption DEF Index
    <2>3. p \in [1 .. n -> Nat] /\ \A i \in 1 .. n : p[i] = rcv_buffer_[i - 1]
      BY <2>1, <2>2 DEF Prefix
    <2> HIDE DEF p
    <2>4. ASSUME NEW i \in 1 .. n
          PROVE  p[i] = base.arrived + Len(consumed) + i
      <3>1. rcv_buffer_[i - 1] = base.arrived + Len(consumed) + (i - 1) + 1
        BY <2>2 DEF IInv, RecvInv
      <3>2. QED
        BY <2>1, <2>3, <3>1
    <2>5. \A i \in 1 .. Len(consumed) : consumed[i] = base.arrived + i
      BY DEF IInv, RecvInv
    <2>6. consumed \o p = [i \in 1 .. Len(consumed) + n |-> base.arrived + i]
      BY Zenon, <2>1, <2>3, <2>4, <2>5, Joined
    <2>7. taken - base.arrived = Len(consumed) + n
      BY <2>1 DEF IInv, RecvInv
    <2>8. QED
      BY <2>6, <2>7 DEF RecvStreamIntact, p
  <1>2. QED
    BY <1>1, SocketInvariant, PTL
=============================================================================
