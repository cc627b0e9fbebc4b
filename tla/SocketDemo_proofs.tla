-------------------------- MODULE SocketDemo_proofs --------------------------
(***************************************************************************)
(* Proofs about the program of socket_demo.cpp: it uses the server as any  *)
(* application may, so that what is proved of the server holds in it, and  *)
(* nothing its clients send is lost on the way to the server and back; for *)
(* any number of clients, any messages whose replies fit in a buffer, any  *)
(* kernel buffers and whatever other clients of the port do.               *)
(***************************************************************************)
EXTENDS SocketDemo, TCPServer_proofs

(* The calls main() makes before the first message. *)
Connecting == {"listen", "connect", "attempt"}

(* Types, and what the kernel holds in either direction: never more than   *)
(* it has room for.                                                        *)
DemoTypes ==
  /\ main \in Connecting \cup {"send", "sendFlush", "poll", "sendAndRecv", "clients",
                               "clientsFlush", "exit"}
  /\ main = "exit" => pc = "idle"
  /\ i \in DOMAIN Clients
  /\ outgoing \in [Conns -> Nat] /\ answer \in [Conns -> Nat] /\ pieces \in [Conns -> Nat]
  /\ unsent \in [Conns -> Nat] /\ replies \in [Conns -> Nat]
  /\ \A c \in Conns : queued[c] <= KernelBuffer[c] /\ replies[c] <= KernelBuffer[c]

(* Nothing is on its way between client c and the server. *)
Nothing(c) == OnTheWay(c) = 0 /\ pieces[c] = 0

(* c's message and the replies to it are, and there are no more pieces     *)
(* than units of the message.                                              *)
Everything(c) ==
  /\ OnTheWay(c) = Replied(c)
  /\ outgoing[c] + queued[c] + pieces[c] <= Message[c]

(* A connection of the demo is not closed by its client while main() runs, *)
(* the receive callback leaves nothing in its receive buffer, and its      *)
(* units are all accounted for.  Before the first message there are none,  *)
(* even on a connection the server refused.                                *)
ClientInv(n) ==
  /\ peer[Clients[n]] \in {"none", "open", "gone"} /\ buffered[Clients[n]] = 0
  /\ main \in Connecting => Nothing(Clients[n])
  /\ main # "exit" /\ peer[Clients[n]] = "open" =>
       IF HasSent(n) THEN Everything(Clients[n]) ELSE Nothing(Clients[n])

DemoInv == IInv /\ DemoTypes /\ \A n \in DOMAIN Clients : ClientInv(n)
-----------------------------------------------------------------------------
(* The smaller of two numbers. *)
LEMMA MinOfTwo ==
  ASSUME NEW a \in Int, NEW b \in Int
  PROVE  Min({a, b}) = IF a <= b THEN a ELSE b
  <1> DEFINE S == {a, b}
             P(x) == x \in S /\ \A y \in S : x <= y
  <1>1. \E x \in S : \A y \in S : x <= y
    OBVIOUS
  <1>2. PICK m : m = Min(S)
    BY Zenon
  <1>3. m \in S /\ \A y \in S : m <= y
    BY Zenon, <1>1, <1>2 DEF Min
  <1>4. QED
    BY <1>2, <1>3

(* What a flush takes: no more than there is to send or room for. *)
LEMMA TakenFits ==
  ASSUME NEW a \in Nat, NEW b \in Nat, NEW most, most = Min({a, b}) \/ most = 0,
         NEW taken \in Min({1, most}) .. most
  PROVE  taken \in 0 .. a /\ taken <= b
  <1>1. most \in Nat /\ most <= a /\ most <= b
    BY MinOfTwo
  <1>2. Min({1, most}) \in Nat
    BY <1>1, MinOfTwo
  <1>3. QED
    BY <1>1, <1>2

(* A client of the demo is a connection. *)
LEMMA ClientsAreConns ==
  ASSUME NEW n \in DOMAIN Clients
  PROVE  Clients[n] \in Conns /\ Clients[n] \in Range(Clients)
  <1>1. Clients[n] \in Conns
    BY DemoAssumption
  <1>2. QED
    BY Zenon, <1>1 DEF Range
-----------------------------------------------------------------------------
(* A client's receive is a step of the server's clients, or none. *)
LEMMA ReceivesIsStep ==
  ASSUME DemoTypes, NEW c \in Conns, client_Receives(c)
  PROVE  client_Reads(c) \/ UNCHANGED serverVars
  <1>1. /\ replies' = [replies EXCEPT ![c] = 0]
        /\ UNCHANGED <<lists, objects, control, peer, queued, open, epollState>>
    BY Zenon DEF client_Receives
  <1>2. CASE replies[c] > 0
    BY ZenonT(30), <1>1, <1>2 DEF client_Reads
  <1>3. CASE replies[c] = 0
    BY ZenonT(30), <1>1, <1>3 DEF DemoTypes, serverVars, net
  <1>4. QED
    BY <1>2, <1>3 DEF DemoTypes

(* What a client's flush does. *)
LEMMA FlushMoves ==
  ASSUME IInv, DemoTypes, NEW c \in Conns, client_Flushes(c)
  PROVE  \E taken \in 0 .. outgoing[c] :
           /\ queued[c] + taken <= KernelBuffer[c]
           /\ taken > 0 => peer[c] = "open"
           /\ outgoing' = [outgoing EXCEPT ![c] = @ - taken]
           /\ queued' = [queued EXCEPT ![c] = @ + taken]
           /\ ready' = IF taken > 0 THEN Edge(c) ELSE ready
           /\ UNCHANGED <<lists, objects, control, peer, replies, open, backlog, interest>>
  <1>1. PICK a \in Nat, b \in Nat : a = outgoing[c] /\ b = KernelBuffer[c] - queued[c]
    BY ServerAssumption DEF IInv, CauseInv, DemoTypes
  <1>2. PICK most : most = Most(c)
    BY Zenon
  <1>3. PICK taken \in Min({1, most}) .. most :
          /\ outgoing' = [outgoing EXCEPT ![c] = @ - taken]
          /\ queued' = [queued EXCEPT ![c] = @ + taken]
          /\ ready' = IF taken > 0 THEN Edge(c) ELSE ready
          /\ UNCHANGED <<lists, objects, control, peer, replies, open, backlog, interest>>
    BY Zenon, <1>2 DEF client_Flushes
  <1>4. (most = Min({a, b}) /\ peer[c] = "open") \/ most = 0
    BY Zenon, <1>1, <1>2 DEF Most
  <1>5. taken \in 0 .. a /\ taken <= b
    BY ZenonT(30), <1>4, TakenFits
  <1>6. taken > 0 => peer[c] = "open"
    BY <1>4, <1>5
  <1>7. queued[c] + taken <= KernelBuffer[c]
    BY <1>1, <1>5, ServerAssumption DEF IInv, CauseInv
  <1>8. QED
    BY Zenon, <1>1, <1>3, <1>5, <1>6, <1>7

(* It is a step of the server's clients, or none. *)
LEMMA FlushIsStep ==
  ASSUME IInv, DemoTypes, NEW c \in Conns, client_Flushes(c)
  PROVE  client_Sends(c) \/ UNCHANGED serverVars
  <1>1. PICK taken \in 0 .. outgoing[c] :
           /\ queued[c] + taken <= KernelBuffer[c]
           /\ taken > 0 => peer[c] = "open"
           /\ queued' = [queued EXCEPT ![c] = @ + taken]
           /\ ready' = IF taken > 0 THEN Edge(c) ELSE ready
           /\ UNCHANGED <<lists, objects, control, peer, replies, open, backlog, interest>>
    BY Zenon, FlushMoves
  <1>2. queued \in [Conns -> Nat] /\ KernelBuffer[c] \in Nat /\ outgoing[c] \in Nat
    BY ZenonT(30), ServerAssumption DEF IInv, CauseInv, DemoTypes
  <1>3. CASE taken = 0
    <2>1. queued' = queued /\ ready' = ready
      BY <1>1, <1>2, <1>3
    <2>2. QED
      BY ZenonT(30), <1>1, <2>1 DEF serverVars, net, epollState
  <1>4. CASE taken > 0
    <2>1. taken \in 1 .. KernelBuffer[c]
      BY <1>1, <1>2, <1>4
    <2>2. peer[c] = "open" /\ ready' = Edge(c)
      BY ZenonT(30), <1>1, <1>4
    <2>3. QED
      BY Zenon, <1>1, <2>1, <2>2 DEF client_Sends
  <1>5. QED
    BY <1>1, <1>2, <1>3, <1>4

(* Every step of the program is a step of the server, or none. *)
LEMMA DemoStep ==
  ASSUME DemoInv, [DemoNext]_allVars
  PROVE  [Next]_serverVars
  <1>1. Clients[i] \in Conns
    BY Zenon, ClientsAreConns DEF DemoInv, DemoTypes
  <1>2. CASE demo_Connect
    BY ZenonT(30), <1>1, <1>2 DEF demo_Connect, Next, Client
  <1>3. CASE demo_Send \/ demo_Clients
    <2>1. client_Receives(Clients[i])
      BY ZenonT(30), <1>3 DEF demo_Send, demo_Clients
    <2>2. QED
      BY ZenonT(30), <1>1, <2>1, ReceivesIsStep DEF DemoInv, Next, Client
  <1>4. CASE demo_SendFlush \/ demo_ClientsFlush
    <2>1. client_Flushes(Clients[i])
      BY Zenon, <1>4 DEF demo_SendFlush, demo_ClientsFlush
    <2>2. QED
      BY ZenonT(30), <1>1, <2>1, FlushIsStep DEF DemoInv, Next, Client
  <1>5. CASE demo_Listen \/ demo_Attempt \/ demo_Poll \/ demo_SendAndRecv \/ demo_Return
    BY Zenon, <1>5 DEF demo_Listen, demo_Attempt, demo_Poll, demo_SendAndRecv, demo_Return, Next
  <1>6. CASE serverCall \/ Stranger
    BY Zenon, <1>6 DEF serverCall, Stranger, Others, Next
  <1>7. CASE UNCHANGED allVars
    BY Zenon, <1>7 DEF allVars
  <1>8. QED
    BY ZenonT(30), <1>2, <1>3, <1>4, <1>5, <1>6, <1>7 DEF DemoNext, Main
-----------------------------------------------------------------------------
(* Units of client c's message or of its reply that the kernel or the      *)
(* server hold.                                                            *)
Held(c) == queued[c] + buffered[c] + unsent[c] + replies[c]

(* A step leaves what the connection holds as it is, or replies to a piece *)
(* of the message, or closes the connection.                               *)
PassesOn(c) ==
  /\ buffered'[c] = 0
  /\ \/ /\ peer'[c] = peer[c] /\ queued'[c] = queued[c]
        /\ pieces'[c] = pieces[c] /\ Held(c)' = Held(c)
     \/ /\ peer[c] = "open" /\ peer'[c] = "open" /\ queued'[c] < queued[c]
        /\ pieces'[c] = pieces[c] + 1 /\ Held(c)' = Held(c) + Prefix
     \/ /\ peer'[c] = "gone" /\ pieces'[c] = pieces[c]
        /\ Held(c) = 0 => Held(c)' = 0

(* The types of what the server and the kernel hold. *)
HeldTypes ==
  /\ unsent \in [Conns -> Nat] /\ replies \in [Conns -> Nat]
  /\ \A c \in Conns : queued[c] <= KernelBuffer[c] /\ replies[c] <= KernelBuffer[c]

(* The types of everything a step reads. *)
LEMMA HeldFacts ==
  ASSUME DemoInv
  PROVE  /\ peer \in [Conns -> {"none", "open", "fin", "rst", "gone"}]
         /\ queued \in [Conns -> Nat] /\ buffered \in [Conns -> 0 .. TCP_BUFFER_SIZE]
         /\ TCP_BUFFER_SIZE \in Nat /\ KernelBuffer \in [Conns -> Nat]
         /\ HeldTypes
         /\ \A n \in DOMAIN Clients :
              /\ Clients[n] \in Conns /\ buffered[Clients[n]] = 0
              /\ peer[Clients[n]] \in {"none", "open", "gone"}
  BY ZenonT(30), ServerAssumption, ClientsAreConns
  DEF DemoInv, IInv, CauseInv, DemoTypes, ClientInv, HeldTypes

(* The types of the counters and of main()'s own state. *)
LEMMA ClientList ==
  /\ Len(Clients) \in Nat /\ DOMAIN Clients = 1 .. Len(Clients)
  /\ \A n \in DOMAIN Clients : n \in Nat
  /\ TCP_BUFFER_SIZE \in Nat /\ KernelBuffer \in [Conns -> Nat]
  /\ \A c \in Conns : 0 <= KernelBuffer[c]
  <1>1. Len(Clients) \in Nat /\ DOMAIN Clients = 1 .. Len(Clients)
    BY DemoAssumption
  <1>2. \A n \in 1 .. Len(Clients) : n \in Nat
    OBVIOUS
  <1>3. \A c \in Conns : 0 <= KernelBuffer[c]
    BY ServerAssumption
  <1>4. QED
    BY Zenon, <1>1, <1>2, <1>3, ServerAssumption

LEMMA MainFacts ==
  ASSUME DemoInv
  PROVE  /\ i \in DOMAIN Clients /\ Clients[i] \in Conns
         /\ outgoing \in [Conns -> Nat] /\ answer \in [Conns -> Nat]
         /\ pieces \in [Conns -> Nat]
         /\ unsent \in [Conns -> Nat] /\ replies \in [Conns -> Nat]
         /\ main = "exit" => pc = "idle"
  BY Zenon, ClientsAreConns DEF DemoInv, DemoTypes

LEMMA MessageFacts ==
  ASSUME NEW n \in DOMAIN Clients
  PROVE  /\ Message[Clients[n]] \in Nat /\ Message[Clients[n]] # 0 /\ Prefix \in Nat
         /\ Message[Clients[n]] * (Prefix + 1) <= TCP_BUFFER_SIZE
  <1>1. Clients[n] \in Conns /\ Clients[n] \in Range(Clients)
    BY Zenon, ClientsAreConns
  <1>2. Message[Clients[n]] \in Nat \ {0}
    BY Zenon, <1>1, DemoAssumption
  <1>3. QED
    BY Zenon, <1>1, <1>2, DemoAssumption, ServerAssumption

(* CountPieces counts nothing for a connection that is not an open one of  *)
(* the demo, or of whose data nothing is read.                             *)
LEMMA NoPiece ==
  ASSUME DemoInv, CountPieces \/ UNCHANGED pieces, NEW c \in Conns,
         c \notin Range(Clients) \/ peer'[c] # "open" \/ queued'[c] = queued[c]
  PROVE  pieces'[c] = pieces[c]
  <1>1. ~(queued[c] < queued[c])
    <2>1. queued[c] \in Nat
      BY Zenon, HeldFacts
    <2>2. QED
      BY <2>1
  <1>2. QED
    BY ZenonT(30), <1>1 DEF CountPieces

LEMMA PiecesType ==
  ASSUME pieces \in [Conns -> Nat], CountPieces \/ UNCHANGED pieces
  PROVE  pieces' \in [Conns -> Nat]
  <1>1. \A k \in Nat : k + 1 \in Nat
    OBVIOUS
  <1>2. QED
    BY ZenonT(30), <1>1 DEF CountPieces

(* A step that does not touch the five variables. *)
LEMMA IdlePassesOn ==
  ASSUME DemoInv, CountPieces \/ UNCHANGED pieces,
         UNCHANGED <<peer, queued, buffered, unsent, replies>>
  PROVE  HeldTypes' /\ \A n \in DOMAIN Clients : PassesOn(Clients[n])
  <1>1. HeldTypes'
    BY Zenon, HeldFacts DEF HeldTypes
  <1>2. ASSUME NEW n \in DOMAIN Clients
        PROVE  pieces'[Clients[n]] = pieces[Clients[n]] /\ buffered[Clients[n]] = 0
    BY Zenon, HeldFacts, NoPiece
  <1>3. QED
    BY Zenon, <1>1, <1>2 DEF PassesOn, Held

(* Closing connections. *)
LEMMA ClosingPassesOn ==
  ASSUME DemoInv, CountPieces \/ UNCHANGED pieces, NEW gone,
         peer' = [c \in Conns |-> IF c \in gone THEN "gone" ELSE peer[c]],
         queued' = Forget(queued, gone), replies' = Forget(replies, gone),
         \/ buffered' = Forget(buffered, gone) /\ unsent' = Forget(unsent, gone)
         \/ UNCHANGED <<buffered, unsent>>
  PROVE  HeldTypes' /\ \A n \in DOMAIN Clients : PassesOn(Clients[n])
  <1>1. ASSUME NEW c \in Conns
        PROVE  /\ peer'[c] = IF c \in gone THEN "gone" ELSE peer[c]
               /\ queued'[c] = IF c \in gone THEN 0 ELSE queued[c]
               /\ replies'[c] = IF c \in gone THEN 0 ELSE replies[c]
               /\ buffered'[c] = buffered[c] \/ (c \in gone /\ buffered'[c] = 0)
               /\ unsent'[c] = unsent[c] \/ (c \in gone /\ unsent'[c] = 0)
    BY ZenonT(30), <1>1 DEF Forget
  <1>2. HeldTypes'
    <2>1. unsent' \in [Conns -> Nat] /\ replies' \in [Conns -> Nat]
      BY HeldFacts DEF HeldTypes, Forget
    <2>2. ASSUME NEW c \in Conns
          PROVE  queued'[c] <= KernelBuffer[c] /\ replies'[c] <= KernelBuffer[c]
      BY <1>1, HeldFacts DEF HeldTypes
    <2>3. QED
      BY ZenonT(30), <2>1, <2>2 DEF HeldTypes
  <1>3. ASSUME NEW n \in DOMAIN Clients
        PROVE  PassesOn(Clients[n])
    <2>1. PICK c \in Conns : c = Clients[n]
      BY ZenonT(30), HeldFacts
    <2>2. /\ queued[c] \in Nat /\ buffered[c] = 0 /\ unsent[c] \in Nat /\ replies[c] \in Nat
      BY ZenonT(30), <2>1, HeldFacts DEF HeldTypes
    <2>3. PassesOn(c)
      <3>1. CASE c \in gone
        <4>1. Held(c) = 0 => Held(c)' = 0
          <5>1. PICK u \in Nat : u = unsent[c]
            BY Zenon, <2>2
          <5>2. queued[c] + 0 + u + replies[c] = 0 => u = 0
            BY <2>2
          <5>3. unsent'[c] \in {0, u} /\ buffered'[c] = 0
            BY ZenonT(30), <1>1, <2>2, <3>1, <5>1
          <5>4. queued'[c] = 0 /\ replies'[c] = 0 /\ 0 + 0 + 0 + 0 = 0
            BY <1>1, <3>1
          <5>5. QED
            BY ZenonT(30), <2>2, <5>1, <5>2, <5>3, <5>4 DEF Held
        <4>2. peer'[c] = "gone" /\ pieces'[c] = pieces[c] /\ buffered'[c] = 0
          BY ZenonT(30), <1>1, <2>2, <3>1, NoPiece
        <4>3. QED
          BY Zenon, <4>1, <4>2 DEF PassesOn
      <3>2. CASE c \notin gone
        <4>1. pieces'[c] = pieces[c]
          BY ZenonT(30), <1>1, <3>2, NoPiece
        <4>2. QED
          BY ZenonT(30), <1>1, <2>2, <3>2, <4>1 DEF PassesOn, Held
      <3>3. QED
        BY ZenonT(30), <3>1, <3>2
    <2>4. QED
      BY ZenonT(30), <2>1, <2>3
  <1>4. QED
    BY ZenonT(30), <1>2, <1>3

(* A step that changes the five variables for one connection only, and     *)
(* passes its units on if it is one of the demo's.                         *)
LEMMA OnePassesOn ==
  ASSUME DemoInv, CountPieces \/ UNCHANGED pieces,
         NEW d \in Conns, NEW p, NEW q \in Nat, NEW b, NEW u \in Nat, NEW r \in Nat,
         peer' = [peer EXCEPT ![d] = p], queued' = [queued EXCEPT ![d] = q],
         buffered' = [buffered EXCEPT ![d] = b], unsent' = [unsent EXCEPT ![d] = u],
         replies' = [replies EXCEPT ![d] = r],
         q <= KernelBuffer[d], r <= KernelBuffer[d],
         d \in Range(Clients) =>
           /\ p = peer[d] /\ b = 0
           /\ \/ q = queued[d] /\ q + b + u + r = Held(d)
              \/ /\ CountPieces /\ peer[d] = "open" /\ q < queued[d]
                 /\ q + b + u + r = Held(d) + Prefix
              \/ peer[d] = "gone" /\ Held(d) # 0
  PROVE  HeldTypes' /\ \A n \in DOMAIN Clients : PassesOn(Clients[n])
  <1>1. HeldTypes'
    <2>1. unsent' \in [Conns -> Nat] /\ replies' \in [Conns -> Nat]
      BY ZenonT(30), HeldFacts DEF HeldTypes
    <2>2. ASSUME NEW c \in Conns
          PROVE  queued'[c] <= KernelBuffer[c] /\ replies'[c] <= KernelBuffer[c]
      BY ZenonT(30), HeldFacts DEF HeldTypes
    <2>3. QED
      BY ZenonT(30), <2>1, <2>2 DEF HeldTypes
  <1>2. ASSUME NEW n \in DOMAIN Clients
        PROVE  PassesOn(Clients[n])
    <2>1. PICK c \in Conns : c = Clients[n]
      BY ZenonT(30), HeldFacts
    <2>2. c \in Range(Clients) /\ buffered[c] = 0
      BY Zenon, <2>1, HeldFacts DEF Range
    <2>3. CASE c = d
      <3>1. peer'[c] = p /\ queued'[c] = q /\ buffered'[c] = b /\ unsent'[c] = u /\ replies'[c] = r
        BY Zenon, <2>3, HeldFacts DEF HeldTypes
      <3>2. Held(c)' = q + b + u + r
        BY Zenon, <3>1 DEF Held
      <3>3. CASE q = queued[d] /\ q + b + u + r = Held(d)
        <4>1. pieces'[c] = pieces[c]
          BY ZenonT(30), <2>3, <3>1, <3>3, NoPiece
        <4>2. QED
          BY ZenonT(30), <2>1, <2>2, <2>3, <3>1, <3>2, <3>3, <4>1 DEF PassesOn
      <3>4. CASE /\ CountPieces /\ peer[d] = "open" /\ q < queued[d]
                 /\ q + b + u + r = Held(d) + Prefix
        <4>1. peer'[c] = "open" /\ queued'[c] < queued[c]
          BY ZenonT(30), <2>2, <2>3, <3>1, <3>4
        <4>2. pieces'[c] = pieces[c] + 1
          BY ZenonT(30), <2>2, <3>4, <4>1 DEF CountPieces
        <4>3. QED
          BY ZenonT(30), <2>1, <2>2, <2>3, <3>1, <3>2, <3>4, <4>1, <4>2 DEF PassesOn
      <3>5. CASE peer[d] = "gone" /\ Held(d) # 0
        <4>1. peer'[c] = "gone"
          BY ZenonT(30), <2>2, <2>3, <3>1, <3>5
        <4>2. pieces'[c] = pieces[c]
          BY ZenonT(30), <4>1, NoPiece
        <4>3. QED
          BY ZenonT(30), <2>1, <2>2, <2>3, <3>1, <3>5, <4>1, <4>2 DEF PassesOn
      <3>6. QED
        BY ZenonT(30), <2>2, <2>3, <3>3, <3>4, <3>5
    <2>4. CASE c # d
      <3>1. /\ peer'[c] = peer[c] /\ queued'[c] = queued[c] /\ buffered'[c] = buffered[c]
            /\ unsent'[c] = unsent[c] /\ replies'[c] = replies[c]
        BY ZenonT(30), <2>4, HeldFacts DEF HeldTypes
      <3>2. pieces'[c] = pieces[c]
        BY ZenonT(30), <3>1, NoPiece
      <3>3. QED
        BY ZenonT(30), <2>1, <2>2, <3>1, <3>2 DEF PassesOn, Held
    <2>5. QED
      BY ZenonT(30), <2>3, <2>4
  <1>3. QED
    BY ZenonT(30), <1>1, <1>2

(* What the server's flush does. *)
LEMMA FlushSends ==
  ASSUME DemoInv, NEW d \in Conns, NEW pending \in Nat, NEW flagged, Flush(d, pending, flagged)
  PROVE  \E taken \in 0 .. pending :
           /\ replies[d] + taken <= KernelBuffer[d]
           /\ unsent' = [unsent EXCEPT ![d] = pending - taken]
           /\ replies' = [replies EXCEPT ![d] = @ + taken]
  <1>1. PICK b \in Nat : b = KernelBuffer[d] - replies[d]
    BY HeldFacts DEF HeldTypes
  <1>2. PICK most : most = IF peer[d] = "rst" THEN 0 ELSE Min({pending, KernelBuffer[d] - replies[d]})
    BY Zenon
  <1>3. PICK taken \in Min({1, most}) .. most :
          /\ unsent' = [unsent EXCEPT ![d] = pending - taken]
          /\ replies' = [replies EXCEPT ![d] = @ + taken]
    BY Zenon, <1>2 DEF Flush
  <1>4. most = Min({pending, b}) \/ most = 0
    BY Zenon, <1>1, <1>2
  <1>5. taken \in 0 .. pending /\ taken <= b
    BY ZenonT(30), <1>4, TakenFits
  <1>6. replies[d] + taken <= KernelBuffer[d]
    BY <1>1, <1>5, HeldFacts DEF HeldTypes
  <1>7. QED
    BY Zenon, <1>3, <1>5, <1>6

(* sendAndRecv() of a socket that receives nothing. *)
LEMMA FlushPassesOn ==
  ASSUME DemoInv, CountPieces \/ UNCHANGED pieces, NEW d \in Conns, NEW flagged, Flush(d, unsent[d], flagged),
         UNCHANGED <<peer, queued, buffered>>
  PROVE  HeldTypes' /\ \A n \in DOMAIN Clients : PassesOn(Clients[n])
  <1>1. /\ queued[d] \in Nat /\ unsent[d] \in Nat /\ replies[d] \in Nat
        /\ buffered[d] \in Nat /\ queued[d] <= KernelBuffer[d]
    BY HeldFacts DEF HeldTypes
  <1>2. PICK taken \in 0 .. unsent[d] :
           /\ replies[d] + taken <= KernelBuffer[d]
           /\ unsent' = [unsent EXCEPT ![d] = unsent[d] - taken]
           /\ replies' = [replies EXCEPT ![d] = @ + taken]
    BY ZenonT(30), <1>1, FlushSends
  <1> DEFINE p == peer[d]
  <1>3. PICK q, b, u, r \in Nat :
          /\ q = queued[d] /\ b = buffered[d]
          /\ u = unsent[d] - taken /\ r = replies[d] + taken
    <2>1. unsent[d] - taken \in Nat /\ replies[d] + taken \in Nat
      BY <1>1
    <2>2. QED
      BY Zenon, <1>1, <2>1
  <1>4. /\ peer' = [peer EXCEPT ![d] = p] /\ queued' = [queued EXCEPT ![d] = q]
        /\ buffered' = [buffered EXCEPT ![d] = b]
        /\ unsent' = [unsent EXCEPT ![d] = u] /\ replies' = [replies EXCEPT ![d] = r]
    BY <1>2, <1>3, HeldFacts
  <1>5. d \in Range(Clients) => b = 0
    BY ZenonT(30), <1>3, HeldFacts DEF Range
  <1>6. q + b + u + r = Held(d)
    <2>1. taken \in Int
      BY <1>1
    <2>2. q + b + (unsent[d] - taken) + (replies[d] + taken) = q + b + unsent[d] + replies[d]
      BY <1>1, <2>1
    <2>3. QED
      BY Zenon, <1>3, <2>2 DEF Held
  <1>7. q <= KernelBuffer[d] /\ r <= KernelBuffer[d]
    BY Zenon, <1>1, <1>2, <1>3
  <1>8. QED
    BY ZenonT(30), <1>3, <1>4, <1>5, <1>6, <1>7, OnePassesOn

(* A message that is at least one unit longer than it has pieces: the      *)
(* replies to one more piece fit with the rest.                            *)
LEMMA OneMorePiece ==
  ASSUME NEW m \in Nat, NEW p \in Nat, NEW k \in Nat, k + 1 <= m
  PROVE  m + p * k + p <= m * (p + 1)
  <1>1. PICK d \in Nat : m = k + 1 + d
    <2>1. m - (k + 1) \in Nat /\ m = k + 1 + (m - (k + 1))
      OBVIOUS
    <2>2. QED
      BY Zenon, <2>1
  <1>2. p * (k + 1 + d) = p * k + p + p * d /\ p * d \in Nat /\ p * k \in Nat
    OBVIOUS
  <1>3. m * (p + 1) = m + p * m /\ p * m \in Nat
    OBVIOUS
  <1>4. p * m = p * k + p + p * d
    BY Zenon, <1>1, <1>2
  <1>5. QED
    BY <1>2, <1>3, <1>4

(* The reply to a piece of a demo client's message fits. *)
LEMMA ReplyFits ==
  ASSUME DemoInv, NEW n \in DOMAIN Clients, main # "exit", peer[Clients[n]] = "open",
         NEW k \in Nat, k # 0, k <= queued[Clients[n]]
  PROVE  unsent[Clients[n]] + (Prefix + k) <= TCP_BUFFER_SIZE
  <1>1. PICK c \in Conns : c = Clients[n]
    BY ZenonT(30), HeldFacts
  <1>2. PICK o, q, u, r, a, x, m, p \in Nat :
          /\ o = outgoing[c] /\ q = queued[c] /\ u = unsent[c] /\ r = replies[c]
          /\ a = answer[c] /\ x = pieces[c] /\ m = Message[c] /\ p = Prefix
          /\ m * (p + 1) <= TCP_BUFFER_SIZE
    <2>1. /\ outgoing[c] \in Nat /\ queued[c] \in Nat /\ unsent[c] \in Nat
          /\ replies[c] \in Nat /\ answer[c] \in Nat /\ pieces[c] \in Nat
      BY ZenonT(30), <1>1, HeldFacts, MainFacts
    <2>2. Message[c] \in Nat /\ Prefix \in Nat /\ Message[c] * (Prefix + 1) <= TCP_BUFFER_SIZE
      BY Zenon, <1>1, MessageFacts
    <2>3. QED
      BY Zenon, <2>1, <2>2
  <1>3. buffered[c] = 0 /\ k <= q /\ TCP_BUFFER_SIZE \in Nat
    BY ZenonT(30), <1>1, <1>2, HeldFacts
  <1>4. OnTheWay(c) = o + q + 0 + u + r + a
    BY Zenon, <1>2, <1>3 DEF OnTheWay
  <1>5. CASE HasSent(n)
    <2>1. Everything(c)
      BY Zenon, <1>1, <1>5 DEF DemoInv, ClientInv
    <2>2. o + q + 0 + u + r + a = m + p * x /\ o + q + x <= m
      BY Zenon, <1>2, <1>4, <2>1 DEF Everything, Replied
    <2>3. x + 1 <= m
      BY <1>3, <2>2
    <2>4. m + p * x + p <= m * (p + 1)
      BY <2>3, OneMorePiece
    <2>5. PICK y, z \in Nat : y = p * x /\ z = m * (p + 1)
      OBVIOUS
    <2>6. o + q + 0 + u + r + a = m + y /\ m + y + p <= z /\ z <= TCP_BUFFER_SIZE
      BY Zenon, <1>2, <2>2, <2>4, <2>5
    <2>7. u + (p + k) <= TCP_BUFFER_SIZE
      BY <1>3, <2>6
    <2>8. QED
      BY Zenon, <1>1, <1>2, <2>7
  <1>6. CASE ~HasSent(n)
    <2>1. Nothing(c)
      BY Zenon, <1>1, <1>6 DEF DemoInv, ClientInv
    <2>2. o + q + 0 + u + r + a = 0
      BY Zenon, <1>4, <2>1 DEF Nothing
    <2>3. QED
      BY <1>3, <2>2
  <1>7. QED
    BY Zenon, <1>5, <1>6

(* sendAndRecv() of a socket that receives: the reply to a client of the   *)
(* demo always fits.                                                       *)
LEMMA ReceivesPassesOn ==
  ASSUME DemoInv, CountPieces,
         NEW d \in Conns, NEW n \in 1 .. TCP_BUFFER_SIZE, io_Receives(d, n, "reply")
  PROVE  HeldTypes' /\ \A m \in DOMAIN Clients : PassesOn(Clients[m])
  <1>1. /\ queued[d] \in Nat /\ unsent[d] \in Nat /\ replies[d] \in Nat /\ n \in Nat
        /\ buffered[d] \in Nat /\ queued[d] <= KernelBuffer[d] /\ TCP_BUFFER_SIZE \in Nat
        /\ KernelBuffer[d] \in Nat /\ Prefix \in Nat /\ n # 0
    BY HeldFacts, ServerAssumption DEF HeldTypes
  <1>2. /\ pc = "io" /\ d \in fd_ /\ n <= queued[d] /\ UNCHANGED peer
        /\ Flush(d, Reply(d, buffered[d] + n), failed)
        /\ buffered' = [buffered EXCEPT ![d] = 0] /\ queued' = [queued EXCEPT ![d] = @ - n]
    BY Zenon DEF io_Receives, Processing
  <1>3. PICK pending \in Nat : pending = Reply(d, buffered[d] + n)
    BY <1>1 DEF Reply
  <1>4. PICK taken \in 0 .. pending :
           /\ replies[d] + taken <= KernelBuffer[d]
           /\ unsent' = [unsent EXCEPT ![d] = pending - taken]
           /\ replies' = [replies EXCEPT ![d] = @ + taken]
    BY ZenonT(30), <1>2, <1>3, FlushSends
  <1> DEFINE p == peer[d]
  <1>5. PICK q, u, r \in Nat :
          q = queued[d] - n /\ u = pending - taken /\ r = replies[d] + taken
    <2>1. queued[d] - n \in Nat /\ pending - taken \in Nat /\ replies[d] + taken \in Nat
      BY <1>1, <1>2
    <2>2. QED
      BY Zenon, <2>1
  <1>6. /\ peer' = [peer EXCEPT ![d] = p] /\ queued' = [queued EXCEPT ![d] = q]
        /\ buffered' = [buffered EXCEPT ![d] = 0]
        /\ unsent' = [unsent EXCEPT ![d] = u] /\ replies' = [replies EXCEPT ![d] = r]
    BY ZenonT(30), <1>2, <1>4, <1>5, HeldFacts
  <1>7. ASSUME d \in Range(Clients)
        PROVE  \/ /\ peer[d] = "open" /\ q < queued[d]
                  /\ q + 0 + u + r = Held(d) + Prefix
               \/ peer[d] = "gone" /\ Held(d) # 0
    <2>1. PICK m \in DOMAIN Clients : d = Clients[m]
      BY ZenonT(30), <1>7 DEF Range
    <2>2. buffered[d] = 0 /\ peer[d] \in {"open", "gone"} /\ main # "exit"
      <3>1. buffered[d] = 0 /\ peer[d] \in {"none", "open", "gone"}
        BY ZenonT(30), <2>1, HeldFacts
      <3>2. peer[d] # "none"
        BY Zenon, <1>2 DEF DemoInv, IInv, KernelInv
      <3>3. main # "exit"
        BY ZenonT(30), <1>2, MainFacts
      <3>4. QED
        BY ZenonT(30), <3>1, <3>2, <3>3
    <2>3. n <= queued[d]
      BY Zenon, <1>2
    <2>4. CASE peer[d] = "gone"
      <3>1. queued[d] + 0 + unsent[d] + replies[d] # 0
        BY <1>1, <2>3
      <3>2. QED
        BY ZenonT(30), <2>2, <2>4, <3>1 DEF Held
    <2>5. CASE peer[d] = "open"
      <3>1. unsent[d] + (Prefix + n) <= TCP_BUFFER_SIZE
        BY ZenonT(30), <1>1, <2>1, <2>2, <2>3, <2>5, ReplyFits
      <3>2. Prefix + (0 + n) <= TCP_BUFFER_SIZE - unsent[d] /\ 0 + n = n
        BY <1>1, <3>1
      <3>3. pending = unsent[d] + (Prefix + n)
        BY Zenon, <1>3, <2>2, <3>2 DEF Reply
      <3>4. queued[d] - n < queued[d]
        BY <1>1
      <3>5. (queued[d] - n) + 0 + ((unsent[d] + (Prefix + n)) - taken) + (replies[d] + taken)
              = queued[d] + 0 + unsent[d] + replies[d] + Prefix
        BY <1>1
      <3>6. QED
        BY Zenon, <1>5, <2>2, <2>5, <3>3, <3>4, <3>5 DEF Held
    <2>6. QED
      BY ZenonT(30), <2>2, <2>4, <2>5
  <1>8. q <= KernelBuffer[d] /\ r <= KernelBuffer[d]
    <2>1. queued[d] - n <= KernelBuffer[d]
      BY <1>1
    <2>2. QED
      BY Zenon, <1>4, <1>5, <2>1
  <1>9. QED
    BY ZenonT(30), <1>5, <1>6, <1>7, <1>8, OnePassesOn

(* A client of the port that is not one of the demo's. *)
LEMMA StrangerPassesOn ==
  ASSUME DemoInv, UNCHANGED pieces, NEW d \in Others, Client(d)
  PROVE  HeldTypes' /\ \A n \in DOMAIN Clients : PassesOn(Clients[n])
  <1>1. d \in Conns /\ d \notin Range(Clients)
    BY Zenon DEF Others
  <1>2. /\ queued[d] \in Nat /\ unsent[d] \in Nat /\ replies[d] \in Nat
        /\ queued[d] <= KernelBuffer[d] /\ replies[d] <= KernelBuffer[d]
        /\ KernelBuffer[d] \in Nat
    BY ZenonT(30), <1>1, HeldFacts DEF HeldTypes
  <1>3. ASSUME NEW q \in Nat, NEW r \in Nat, NEW p,
               peer' = [peer EXCEPT ![d] = p], queued' = [queued EXCEPT ![d] = q],
               replies' = [replies EXCEPT ![d] = r], UNCHANGED <<buffered, unsent>>,
               q <= KernelBuffer[d], r <= KernelBuffer[d]
        PROVE  HeldTypes' /\ \A n \in DOMAIN Clients : PassesOn(Clients[n])
    <2>1. PICK u \in Nat, b \in Nat : u = unsent[d] /\ b = buffered[d]
      BY <1>1, <1>2, HeldFacts
    <2>2. buffered' = [buffered EXCEPT ![d] = b] /\ unsent' = [unsent EXCEPT ![d] = u]
      BY ZenonT(30), <1>3, <2>1, HeldFacts DEF HeldTypes
    <2>3. QED
      BY ZenonT(30), <1>1, <1>3, <2>2, OnePassesOn
  <1>4. CASE client_Connects(d)
    <2>1. /\ peer' = [peer EXCEPT ![d] = "open"]
          /\ UNCHANGED <<queued, replies, buffered, unsent>>
      BY ZenonT(30), <1>4 DEF client_Connects, objects
    <2>2. queued' = [queued EXCEPT ![d] = queued[d]] /\ replies' = [replies EXCEPT ![d] = replies[d]]
      BY ZenonT(30), <2>1, HeldFacts DEF HeldTypes
    <2>3. QED
      BY ZenonT(30), <1>2, <1>3, <2>1, <2>2
  <1>5. CASE client_Sends(d)
    <2>1. PICK n \in 1 .. KernelBuffer[d] :
            queued[d] + n <= KernelBuffer[d] /\ queued' = [queued EXCEPT ![d] = @ + n]
      BY Zenon, <1>5 DEF client_Sends
    <2>2. UNCHANGED <<peer, replies, buffered, unsent>>
      BY ZenonT(30), <1>5 DEF client_Sends, objects
    <2>3. /\ peer' = [peer EXCEPT ![d] = peer[d]]
          /\ replies' = [replies EXCEPT ![d] = replies[d]]
          /\ queued[d] + n \in Nat
      BY <1>2, <2>2, HeldFacts DEF HeldTypes
    <2>4. QED
      BY ZenonT(30), <1>2, <1>3, <2>1, <2>2, <2>3
  <1>6. CASE client_Reads(d)
    <2>1. replies' = [replies EXCEPT ![d] = 0] /\ UNCHANGED <<peer, queued, buffered, unsent>>
      BY Zenon, <1>6 DEF client_Reads, objects
    <2>2. queued' = [queued EXCEPT ![d] = queued[d]] /\ peer' = [peer EXCEPT ![d] = peer[d]]
      BY ZenonT(30), <2>1, HeldFacts
    <2>3. 0 \in Nat /\ 0 <= KernelBuffer[d]
      BY <1>2
    <2>4. QED
      BY ZenonT(30), <1>2, <1>3, <2>1, <2>2, <2>3
  <1>7. CASE client_Ends(d)
    <2>1. PICK p : peer' = [peer EXCEPT ![d] = p]
      BY Zenon, <1>7 DEF client_Ends
    <2>2. UNCHANGED <<queued, buffered, unsent>>
      BY ZenonT(30), <1>7 DEF client_Ends, objects
    <2>3. PICK r \in {0, replies[d]} : replies' = [replies EXCEPT ![d] = r]
      <3>1. replies' = replies \/ replies' = Forget(replies, {d})
        BY ZenonT(30), <1>7 DEF client_Ends
      <3>2. replies = [replies EXCEPT ![d] = replies[d]]
        BY ZenonT(30), HeldFacts DEF HeldTypes
      <3>3. Forget(replies, {d}) = [replies EXCEPT ![d] = 0]
        BY ZenonT(30), HeldFacts DEF HeldTypes, Forget
      <3>4. QED
        BY <3>1, <3>2, <3>3
    <2>4. queued' = [queued EXCEPT ![d] = queued[d]] /\ r \in Nat /\ r <= KernelBuffer[d]
      BY <1>2, <2>2, HeldFacts
    <2>5. QED
      BY ZenonT(30), <1>2, <1>3, <2>1, <2>2, <2>3, <2>4
  <1>8. QED
    BY ZenonT(30), <1>4, <1>5, <1>6, <1>7 DEF Client

(* A call of the server. *)
LEMMA CallPassesOn ==
  ASSUME DemoInv, ((poll_Reap \/ BeginIO) /\ UNCHANGED pieces) \/ serverCall
  PROVE  HeldTypes' /\ \A n \in DOMAIN Clients : PassesOn(Clients[n])
  <1>0. CountPieces \/ UNCHANGED pieces
    BY Zenon DEF serverCall
  <1>1. CASE poll_Reap
    <2>1. PICK gone : gone = Range(disconnected_sockets_)
      BY Zenon
    <2>2. del(gone)
      BY ZenonT(30), <1>1, <2>1 DEF poll_Reap
    <2>3. QED
      BY ZenonT(30), <1>0, <2>2, ClosingPassesOn DEF del, CloseConns
  <1>2. CASE accept_Refuses
    <2>1. PICK c : c = Head(backlog)
      BY Zenon
    <2>2. /\ peer' = [peer EXCEPT ![c] = "gone"] /\ UNCHANGED <<buffered, unsent>>
          /\ queued' = Forget(queued, {c}) /\ replies' = Forget(replies, {c})
      BY ZenonT(30), <1>2, <2>1 DEF accept_Refuses, Refused, objects
    <2>3. peer' = [d \in Conns |-> IF d \in {c} THEN "gone" ELSE peer[d]]
      BY Zenon, <2>2, HeldFacts
    <2>4. QED
      BY ZenonT(30), <1>0, <2>2, <2>3, ClosingPassesOn
  <1>3. ASSUME NEW d \in Conns, io_Call(d), CountPieces
        PROVE  HeldTypes' /\ \A n \in DOMAIN Clients : PassesOn(Clients[n])
    <2>1. CASE io_Nothing(d)
      BY ZenonT(30), <1>3, <2>1, FlushPassesOn DEF io_Nothing
    <2>2. CASE io_Breaks(d)
      <3>1. UNCHANGED <<peer, queued, buffered>>
        BY ZenonT(30), <2>2 DEF io_Breaks
      <3>2. UNCHANGED <<unsent, replies>> \/ Flush(d, unsent[d], failed \cup {d})
        BY ZenonT(30), <2>2 DEF io_Breaks
      <3>3. QED
        BY ZenonT(30), <1>3, <3>1, <3>2, IdlePassesOn, FlushPassesOn
    <2>3. ASSUME NEW n \in 1 .. TCP_BUFFER_SIZE, NEW callback \in Callbacks,
                 io_Receives(d, n, callback)
          PROVE  HeldTypes' /\ \A m \in DOMAIN Clients : PassesOn(Clients[m])
      BY ZenonT(30), <1>3, <2>3, ReceivesPassesOn, DemoAssumption
    <2>4. QED
      BY ZenonT(30), <1>3, <2>1, <2>2, <2>3 DEF io_Call
  <1>4. CASE \/ BeginIO \/ EndIO \/ io_Closed \/ epoll_wait \/ epoll_wait_Fails
             \/ accept_Empty \/ accept_Error \/ accept_Client
    <2>1. UNCHANGED <<peer, queued, buffered, unsent, replies>>
      BY Zenon, <1>4 DEF BeginIO, EndIO, io_Closed, epoll_wait, epoll_wait_Fails,
        accept_Empty, accept_Error, accept_Client, objects, net
    <2>2. QED
      BY Zenon, <1>0, <2>1, IdlePassesOn
  <1>5. QED
    BY ZenonT(30), <1>1, <1>2, <1>3, <1>4 DEF serverCall, accept, sendAndRecv
-----------------------------------------------------------------------------
(* The types of everything that is on the way. *)
LEMMA WayFacts ==
  ASSUME IInv, DemoTypes, NEW n \in DOMAIN Clients
  PROVE  /\ outgoing[Clients[n]] \in Nat /\ queued[Clients[n]] \in Nat
         /\ buffered[Clients[n]] \in Nat /\ unsent[Clients[n]] \in Nat
         /\ replies[Clients[n]] \in Nat /\ answer[Clients[n]] \in Nat
         /\ pieces[Clients[n]] \in Nat
  <1>1. Clients[n] \in Conns
    BY Zenon, ClientsAreConns
  <1>2. \A k \in 0 .. TCP_BUFFER_SIZE : k \in Nat
    BY ClientList
  <1>3. queued[Clients[n]] \in Nat /\ buffered[Clients[n]] \in Nat
    BY ZenonT(30), <1>1, <1>2 DEF IInv, CauseInv
  <1>4. QED
    BY Zenon, <1>1, <1>3 DEF DemoTypes

(* When nothing is on the way, it is nowhere. *)
LEMMA NothingOnTheWay ==
  ASSUME IInv, DemoTypes, NEW n \in DOMAIN Clients, OnTheWay(Clients[n]) = 0
  PROVE  /\ outgoing[Clients[n]] = 0 /\ queued[Clients[n]] = 0
         /\ buffered[Clients[n]] = 0 /\ unsent[Clients[n]] = 0
         /\ replies[Clients[n]] = 0 /\ answer[Clients[n]] = 0
  <1>1. PICK o, q, b, u, r, a \in Nat :
          /\ o = outgoing[Clients[n]] /\ q = queued[Clients[n]] /\ b = buffered[Clients[n]]
          /\ u = unsent[Clients[n]] /\ r = replies[Clients[n]] /\ a = answer[Clients[n]]
    BY Zenon, WayFacts
  <1>2. o + q + b + u + r + a = 0
    BY Zenon, <1>1 DEF OnTheWay
  <1>3. o = 0 /\ q = 0 /\ b = 0 /\ u = 0 /\ r = 0 /\ a = 0
    BY <1>2
  <1>4. QED
    BY ZenonT(30), <1>1, <1>3

(* A step that passes the units on and sends no message. *)
LEMMA PassedOnClientInv ==
  ASSUME DemoInv, IInv', DemoTypes', NEW n \in DOMAIN Clients, PassesOn(Clients[n]),
         UNCHANGED <<outgoing, answer>>, HasSent(n)' <=> HasSent(n),
         main' \in Connecting => main \in Connecting,
         main = "exit" => main' = "exit"
  PROVE  ClientInv(n)'
  <1>1. PICK c \in Conns : c = Clients[n]
    BY Zenon, ClientsAreConns
  <1>2. /\ outgoing[c] \in Nat /\ queued[c] \in Nat /\ buffered[c] \in Nat
        /\ unsent[c] \in Nat /\ replies[c] \in Nat /\ answer[c] \in Nat
        /\ pieces[c] \in Nat
    BY Zenon, <1>1, WayFacts DEF DemoInv
  <1>3. /\ outgoing'[c] \in Nat /\ queued'[c] \in Nat /\ buffered'[c] \in Nat
        /\ unsent'[c] \in Nat /\ replies'[c] \in Nat /\ answer'[c] \in Nat
    <2>1. buffered'[c] \in 0 .. TCP_BUFFER_SIZE /\ queued'[c] \in Nat
      BY Zenon DEF IInv, CauseInv
    <2>2. \A k \in 0 .. TCP_BUFFER_SIZE : k \in Nat
      BY ClientList
    <2>3. QED
      BY ZenonT(30), <2>1, <2>2 DEF DemoTypes
  <1>4. OnTheWay(c) = outgoing[c] + answer[c] + Held(c)
    BY <1>2 DEF OnTheWay, Held
  <1>5. OnTheWay(c)' = outgoing[c] + answer[c] + Held(c)'
    BY <1>3 DEF OnTheWay, Held
  <1>6. Held(c) \in Nat /\ Held(c)' \in Nat
    BY <1>2, <1>3 DEF Held
  <1>7. ClientInv(n)
    BY ZenonT(30) DEF DemoInv
  <1>8. buffered'[c] = 0 /\ peer'[c] \in {"none", "open", "gone"}
    BY Zenon, <1>1, <1>7 DEF PassesOn, ClientInv
  <1>9. ASSUME Nothing(c)
        PROVE  Nothing(c)'
    <2>1. /\ outgoing[c] = 0 /\ queued[c] = 0 /\ buffered[c] = 0
          /\ unsent[c] = 0 /\ replies[c] = 0 /\ answer[c] = 0
      BY ZenonT(30), <1>1, <1>9, NothingOnTheWay DEF DemoInv, Nothing
    <2>2. Held(c) = 0 /\ ~(queued'[c] < queued[c])
      BY <1>3, <2>1 DEF Held
    <2>3. Held(c)' = 0 /\ pieces'[c] = pieces[c]
      BY ZenonT(30), <1>1, <2>2 DEF PassesOn
    <2>4. 0 + 0 + 0 = 0
      OBVIOUS
    <2>5. QED
      BY ZenonT(30), <1>5, <1>9, <2>1, <2>3, <2>4 DEF Nothing
  <1>10. ASSUME Everything(c), peer'[c] = "open"
         PROVE  Everything(c)'
    <2>1. CASE /\ queued'[c] = queued[c] /\ pieces'[c] = pieces[c] /\ Held(c)' = Held(c)
      BY ZenonT(30), <1>4, <1>5, <1>10, <2>1 DEF Everything, Replied
    <2>2. CASE /\ queued'[c] < queued[c] /\ pieces'[c] = pieces[c] + 1
               /\ Held(c)' = Held(c) + Prefix
      <3>1. PICK o, a, h, q, p, x, m \in Nat :
              /\ o = outgoing[c] /\ a = answer[c] /\ h = Held(c) /\ q = queued[c]
              /\ p = Prefix /\ x = pieces[c] /\ m = Message[c]
        BY Zenon, <1>1, <1>2, <1>6, MessageFacts
      <3>2. o + a + h = m + p * x /\ o + q + x <= m
        BY Zenon, <1>4, <1>10, <3>1 DEF Everything, Replied
      <3>3. p * (x + 1) = p * x + p /\ p * x \in Nat
        OBVIOUS
      <3>4. o + a + (h + p) = m + p * (x + 1)
        BY <3>2, <3>3
      <3>5. PICK y \in Nat : y = queued'[c]
        BY Zenon, <1>3
      <3>6. y < q
        BY Zenon, <2>2, <3>1, <3>5
      <3>7. o + y + (x + 1) <= m
        BY <3>2, <3>6
      <3>8. QED
        BY ZenonT(30), <1>5, <2>2, <3>1, <3>4, <3>5, <3>7 DEF Everything, Replied
    <2>3. QED
      BY ZenonT(30), <1>1, <1>10, <2>1, <2>2 DEF PassesOn
  <1>11. main' # "exit" /\ peer'[c] = "open" => main # "exit" /\ peer[c] = "open"
    BY ZenonT(30), <1>1 DEF PassesOn
  <1>12. QED
    BY ZenonT(30), <1>1, <1>7, <1>8, <1>9, <1>10, <1>11 DEF ClientInv

(* A call of the server is under way. *)
LEMMA CallIsBusy ==
  ASSUME serverCall
  PROVE  pc # "idle"
  <1>1. CASE epoll_wait \/ epoll_wait_Fails \/ accept_Error
    BY Zenon, <1>1 DEF epoll_wait, epoll_wait_Fails, accept_Error
  <1>2. CASE accept
    BY Zenon, <1>2 DEF accept, accept_Empty, accept_Refuses, accept_Client
  <1>3. CASE sendAndRecv
    <2>1. ASSUME NEW c \in Conns, io_Call(c)
          PROVE  Processing(c)
      BY Zenon, <2>1 DEF io_Call, io_Nothing, io_Breaks, io_Receives
    <2>2. QED
      BY Zenon, <1>3, <2>1 DEF sendAndRecv, EndIO, io_Closed, Processing
  <1>4. QED
    BY Zenon, <1>1, <1>2, <1>3 DEF serverCall

(* main() does nothing but call the server, or another client of the port  *)
(* takes a step.                                                           *)
LEMMA ServerStepDemoInv ==
  ASSUME DemoInv, IInv', demo_Attempt \/ demo_Poll \/ demo_SendAndRecv \/ serverCall \/ Stranger
  PROVE  DemoInv'
  <1>1. HeldTypes' /\ \A n \in DOMAIN Clients : PassesOn(Clients[n])
    <2>1. CASE demo_Attempt \/ demo_Poll \/ demo_SendAndRecv \/ serverCall
      BY ZenonT(30), <2>1, CallPassesOn DEF demo_Attempt, demo_Poll, demo_SendAndRecv
    <2>2. CASE Stranger
      BY ZenonT(30), <2>2, StrangerPassesOn DEF Stranger, demoVars
    <2>3. QED
      BY ZenonT(30), <2>1, <2>2
  <1>2. UNCHANGED <<outgoing, answer>> /\ pieces' \in [Conns -> Nat]
    <2>1. UNCHANGED <<outgoing, answer>> /\ (CountPieces \/ UNCHANGED pieces)
      BY ZenonT(30) DEF demo_Attempt, demo_Poll, demo_SendAndRecv, serverCall, Stranger,
        demoVars
    <2>2. QED
      BY Zenon, <2>1, MainFacts, PiecesType
  <1>3. Len(Clients) \in Nat /\ i \in 1 .. Len(Clients) /\ DOMAIN Clients = 1 .. Len(Clients)
    BY ZenonT(30), ClientList, MainFacts
  <1>4. /\ main' \in Connecting \cup {"send", "sendFlush", "poll", "sendAndRecv", "clients",
                                      "clientsFlush", "exit"}
        /\ i' \in 1 .. Len(Clients)
        /\ main' \in Connecting => main \in Connecting
        /\ main = "exit" <=> main' = "exit"
        /\ \A n \in DOMAIN Clients : HasSent(n)' <=> HasSent(n)
    <2>1. CASE demo_Attempt
      BY <1>3, <2>1 DEF demo_Attempt, NextClient, Connecting, HasSent, DemoInv, DemoTypes
    <2>2. CASE demo_Poll \/ demo_SendAndRecv
      BY ZenonT(30), <1>3, <2>2 DEF demo_Poll, demo_SendAndRecv, Connecting, HasSent
    <2>3. CASE serverCall \/ Stranger
      <3>1. UNCHANGED <<main, i>>
        BY ZenonT(30), <2>3 DEF serverCall, Stranger, demoVars
      <3>2. QED
        BY ZenonT(30), <1>3, <3>1 DEF DemoInv, DemoTypes, HasSent
    <2>4. QED
      BY ZenonT(30), <2>1, <2>2, <2>3
  <1>5. main' = "exit" => pc' = "idle"
    <2> SUFFICES ASSUME main' = "exit" PROVE pc' = "idle"
      BY Zenon
    <2>1. main = "exit" /\ pc = "idle"
      BY Zenon, <1>4 DEF DemoInv, DemoTypes
    <2>2. CASE Stranger
      BY ZenonT(30), <2>1, <2>2 DEF Stranger, Client, client_Connects, client_Sends,
        client_Reads, client_Ends, control
    <2>3. ~(demo_Attempt \/ demo_Poll \/ demo_SendAndRecv \/ serverCall)
      BY Zenon, <2>1, CallIsBusy DEF demo_Attempt, demo_Poll, demo_SendAndRecv
    <2>4. QED
      BY ZenonT(30), <2>2, <2>3
  <1>6. DemoTypes'
    BY ZenonT(30), <1>1, <1>2, <1>3, <1>4, <1>5 DEF DemoInv, DemoTypes, HeldTypes
  <1>7. ASSUME NEW n \in DOMAIN Clients
        PROVE  ClientInv(n)'
    BY <1>1, <1>2, <1>4, <1>6, PassedOnClientInv
  <1>8. QED
    BY ZenonT(30), <1>6, <1>7 DEF DemoInv

(* listen() and connect(), before anything is on its way, and the end of   *)
(* the program.                                                            *)
LEMMA ConnectDemoInv ==
  ASSUME DemoInv, IInv', demo_Listen \/ demo_Connect \/ demo_Return
  PROVE  DemoInv'
  <1>1. UNCHANGED <<outgoing, answer, pieces, i>>
    BY Zenon DEF demo_Listen, demo_Connect, demo_Return
  <1>2. /\ main' \in {"connect", "attempt", "exit"} /\ (main' # "exit" => main \in Connecting)
        /\ pc = "idle" /\ UNCHANGED pc
    BY ZenonT(30) DEF demo_Listen, demo_Connect, demo_Return, listen, destroy, Destroyed,
      client_Connects, control, Connecting
  <1>3. \/ peer' = [peer EXCEPT ![Clients[i]] = "open"]
            /\ UNCHANGED <<queued, replies, buffered, unsent>>
        \/ \E gone :
             /\ peer' = [c \in Conns |-> IF c \in gone THEN "gone" ELSE peer[c]]
             /\ queued' = Forget(queued, gone) /\ replies' = Forget(replies, gone)
             /\ buffered' = [c \in Conns |-> 0] /\ unsent' = [c \in Conns |-> 0]
    BY ZenonT(30) DEF demo_Listen, demo_Connect, demo_Return, listen, destroy, Destroyed,
      client_Connects, objects
  <1>4. ASSUME NEW c \in Conns
        PROVE  /\ peer'[c] \in {"open", "gone", peer[c]}
               /\ queued'[c] \in {0, queued[c]} /\ replies'[c] \in {0, replies[c]}
               /\ buffered'[c] \in {0, buffered[c]} /\ unsent'[c] \in {0, unsent[c]}
    <2>1. c \in DOMAIN peer /\ c \in Conns
      BY Zenon, <1>4, HeldFacts
    <2>2. QED
      BY ZenonT(30), <1>3, <2>1 DEF Forget
  <1>5. DemoTypes'
    <2>1. unsent' \in [Conns -> Nat] /\ replies' \in [Conns -> Nat]
      BY <1>3, MainFacts DEF Forget
    <2>2. ASSUME NEW c \in Conns
          PROVE  queued'[c] <= KernelBuffer[c] /\ replies'[c] <= KernelBuffer[c]
      <3>1. 0 <= KernelBuffer[c]
        BY Zenon, ClientList
      <3>2. QED
        BY ZenonT(30), <1>4, <3>1, HeldFacts DEF HeldTypes
    <2>3. QED
      BY ZenonT(30), <1>1, <1>2, <2>1, <2>2 DEF DemoInv, DemoTypes, Connecting
  <1>6. ASSUME NEW n \in DOMAIN Clients
        PROVE  ClientInv(n)'
    <2>1. PICK c \in Conns : c = Clients[n]
      BY ZenonT(30), HeldFacts
    <2>2. peer'[c] \in {"none", "open", "gone"} /\ buffered'[c] = 0
      BY ZenonT(30), <1>4, <2>1, HeldFacts
    <2>3. ASSUME main' # "exit"
          PROVE  Nothing(c)' /\ ~HasSent(n)'
      <3>1. OnTheWay(c) = 0 /\ pieces[c] = 0
        BY ZenonT(30), <1>2, <2>1, <2>3 DEF DemoInv, ClientInv, Nothing
      <3>2. /\ outgoing[c] = 0 /\ queued[c] = 0 /\ buffered[c] = 0
            /\ unsent[c] = 0 /\ replies[c] = 0 /\ answer[c] = 0
        BY ZenonT(30), <2>1, <3>1, NothingOnTheWay DEF DemoInv
      <3>3. OnTheWay(c)' = 0
        <4>1. 0 + 0 + 0 + 0 + 0 + 0 = 0
          OBVIOUS
        <4>2. /\ outgoing'[c] = 0 /\ queued'[c] = 0 /\ buffered'[c] = 0
              /\ unsent'[c] = 0 /\ replies'[c] = 0 /\ answer'[c] = 0
          BY ZenonT(30), <1>1, <1>4, <3>2
        <4>3. QED
          BY Zenon, <4>1, <4>2 DEF OnTheWay
      <3>4. QED
        BY ZenonT(30), <1>1, <1>2, <2>3, <3>1, <3>3 DEF HasSent, Nothing
    <2>4. QED
      BY ZenonT(30), <2>1, <2>2, <2>3 DEF ClientInv, Connecting
  <1>7. QED
    BY ZenonT(30), <1>5, <1>6 DEF DemoInv

(* A client of the demo receives: what the kernel held of its reply is     *)
(* given to the callback.                                                  *)
LEMMA ReceiveDemoInv ==
  ASSUME DemoInv, IInv', demo_Send \/ demo_Clients
  PROVE  DemoInv'
  <1>1. PICK c \in Conns : c = Clients[i] /\ i \in DOMAIN Clients
    BY Zenon, MainFacts
  <1>2. /\ answer' = [answer EXCEPT ![c] = @ + replies[c]]
        /\ replies' = [replies EXCEPT ![c] = 0]
        /\ UNCHANGED <<peer, queued, buffered, unsent, pieces, pc, i>>
    BY ZenonT(30), <1>1 DEF demo_Send, demo_Clients, client_Receives, objects, control
  <1>3. \/ main = "send" /\ main' = "sendFlush" /\ outgoing' = [outgoing EXCEPT ![c] = Message[c]]
        \/ main = "clients" /\ main' = "clientsFlush" /\ UNCHANGED outgoing
    BY ZenonT(30), <1>1 DEF demo_Send, demo_Clients
  <1>4. /\ outgoing \in [Conns -> Nat] /\ answer \in [Conns -> Nat]
        /\ replies \in [Conns -> Nat] /\ unsent \in [Conns -> Nat] /\ Message[c] \in Nat
    BY Zenon, <1>1, MainFacts, MessageFacts
  <1>5. DemoTypes'
    <2>1. /\ outgoing' \in [Conns -> Nat] /\ answer' \in [Conns -> Nat]
          /\ replies' \in [Conns -> Nat]
      <3>1. answer[c] + replies[c] \in Nat /\ 0 \in Nat
        BY <1>4
      <3>2. answer' \in [Conns -> Nat] /\ replies' \in [Conns -> Nat]
        BY ZenonT(30), <1>2, <1>4, <3>1
      <3>3. outgoing' \in [Conns -> Nat]
        BY Zenon, <1>3, <1>4
      <3>4. QED
        BY ZenonT(30), <3>2, <3>3
    <2>2. ASSUME NEW d \in Conns
          PROVE  queued'[d] <= KernelBuffer[d] /\ replies'[d] <= KernelBuffer[d]
      <3>1. 0 <= KernelBuffer[d]
        BY Zenon, ClientList
      <3>2. queued'[d] = queued[d] /\ replies'[d] \in {0, replies[d]}
        BY Zenon, <1>2, <1>4
      <3>3. QED
        BY ZenonT(30), <3>1, <3>2, HeldFacts DEF HeldTypes
    <2>3. QED
      BY ZenonT(30), <1>2, <1>3, <2>1, <2>2 DEF DemoInv, DemoTypes, Connecting
  <1>6. ASSUME NEW n \in DOMAIN Clients
        PROVE  ClientInv(n)'
    <2>1. PICK d \in Conns : d = Clients[n]
      BY ZenonT(30), HeldFacts
    <2>2. peer'[d] \in {"none", "open", "gone"} /\ buffered'[d] = 0
      BY ZenonT(30), <1>2, <2>1, HeldFacts
    <2>3. main' \notin Connecting
      BY ZenonT(30), <1>3 DEF Connecting
    <2>4. /\ outgoing[d] \in Nat /\ queued[d] \in Nat /\ buffered[d] \in Nat
          /\ unsent[d] \in Nat /\ replies[d] \in Nat /\ answer[d] \in Nat
      BY ZenonT(30), <2>1, WayFacts DEF DemoInv
    <2>5. ASSUME peer'[d] = "open"
          PROVE  IF HasSent(n)' THEN Everything(d)' ELSE Nothing(d)'
      <3>1. IF HasSent(n) THEN Everything(d) ELSE Nothing(d)
        BY ZenonT(30), <1>2, <1>3, <2>1, <2>5 DEF DemoInv, ClientInv
      <3>2. CASE n = i
        <4>1. d = c
          BY ZenonT(30), <1>1, <2>1, <3>2
        <4>2. answer'[d] = answer[d] + replies[d] /\ replies'[d] = 0
          BY ZenonT(30), <1>2, <1>4, <4>1
        <4>3. CASE main = "clients"
          <5>1. OnTheWay(d)' = OnTheWay(d)
            <6>1. outgoing[d] + queued[d] + buffered[d] + unsent[d] + 0 + (answer[d] + replies[d])
                    = outgoing[d] + queued[d] + buffered[d] + unsent[d] + replies[d] + answer[d]
              BY <2>4
            <6>2. QED
              BY ZenonT(30), <1>2, <1>3, <4>2, <4>3, <6>1 DEF OnTheWay
          <5>2. HasSent(n) /\ HasSent(n)' /\ UNCHANGED outgoing
            BY ZenonT(30), <1>3, <4>3 DEF HasSent
          <5>3. QED
            BY ZenonT(30), <1>2, <3>1, <5>1, <5>2 DEF Everything, Replied
        <4>4. CASE main = "send"
          <5>1. i \in Nat
            BY ZenonT(30), <1>1, ClientList
          <5>2. ~HasSent(n) /\ HasSent(n)'
            <6>1. ~(i < i) /\ i <= i
              BY <5>1
            <6>2. QED
              BY ZenonT(30), <1>2, <1>3, <3>2, <4>4, <6>1 DEF HasSent
          <5>3. OnTheWay(d) = 0 /\ pieces[d] = 0
            BY ZenonT(30), <3>1, <5>2 DEF Nothing
          <5>4. outgoing'[d] = Message[d]
            BY ZenonT(30), <1>3, <1>4, <4>1, <4>4
          <5>5. queued[d] = 0 /\ buffered[d] = 0 /\ unsent[d] = 0 /\ replies[d] = 0 /\ answer[d] = 0
            BY ZenonT(30), <2>1, <5>3, NothingOnTheWay DEF DemoInv
          <5>6. Everything(d)'
            <6>1. /\ Message[d] + 0 + 0 + 0 + 0 + (0 + 0) = Message[d] + Prefix * 0
                  /\ Message[d] + 0 + 0 <= Message[d]
              BY <1>4, <4>1, ServerAssumption
            <6>2. QED
              BY ZenonT(30), <1>2, <4>2, <5>3, <5>4, <5>5, <6>1 DEF OnTheWay, Everything, Replied
          <5>7. QED
            BY ZenonT(30), <5>2, <5>6
        <4>5. QED
          BY ZenonT(30), <1>3, <4>3, <4>4
      <3>3. CASE n # i
        <4>1. d # c
          BY ZenonT(30), <1>1, <2>1, <3>3, DemoAssumption DEF IsInjective
        <4>2. answer'[d] = answer[d] /\ replies'[d] = replies[d] /\ outgoing'[d] = outgoing[d]
          BY ZenonT(30), <1>2, <1>3, <1>4, <4>1
        <4>3. OnTheWay(d)' = OnTheWay(d)
          BY Zenon, <1>2, <4>2 DEF OnTheWay
        <4>4. n \in Nat /\ i \in Nat
          BY ZenonT(30), <1>1, ClientList
        <4>5. HasSent(n)' <=> HasSent(n)
          <5>1. n < i <=> n <= i
            BY <3>3, <4>4
          <5>2. QED
            BY ZenonT(30), <1>2, <1>3, <5>1 DEF HasSent
        <4>6. (Nothing(d) => Nothing(d)') /\ (Everything(d) => Everything(d)')
          BY ZenonT(30), <1>2, <4>2, <4>3 DEF Nothing, Everything, Replied
        <4>7. QED
          BY ZenonT(30), <3>1, <4>5, <4>6
      <3>4. QED
        BY Zenon, <3>2, <3>3
    <2>6. QED
      BY ZenonT(30), <2>1, <2>2, <2>3, <2>5 DEF ClientInv
  <1>7. QED
    BY Zenon, <1>5, <1>6 DEF DemoInv

(* A client of the demo flushes. *)
LEMMA FlushDemoInv ==
  ASSUME DemoInv, IInv', demo_SendFlush \/ demo_ClientsFlush
  PROVE  DemoInv'
  <1>1. PICK c \in Conns : c = Clients[i] /\ i \in DOMAIN Clients
    BY Zenon, MainFacts
  <1>2. client_Flushes(c) /\ UNCHANGED <<answer, pieces>>
    BY ZenonT(30), <1>1 DEF demo_SendFlush, demo_ClientsFlush
  <1>3. PICK taken \in 0 .. outgoing[c] :
           /\ queued[c] + taken <= KernelBuffer[c]
           /\ outgoing' = [outgoing EXCEPT ![c] = @ - taken]
           /\ queued' = [queued EXCEPT ![c] = @ + taken]
           /\ UNCHANGED <<lists, objects, control, peer, replies, open, backlog, interest>>
    BY ZenonT(30), <1>2, FlushMoves DEF DemoInv
  <1>4. UNCHANGED <<peer, buffered, unsent, replies, pc, answer, pieces>>
    BY ZenonT(30), <1>2, <1>3 DEF objects, control
  <1>5. /\ outgoing \in [Conns -> Nat] /\ queued \in [Conns -> Nat]
        /\ Len(Clients) \in Nat /\ DOMAIN Clients = 1 .. Len(Clients)
        /\ KernelBuffer \in [Conns -> Nat]
    BY Zenon, ClientList, HeldFacts, MainFacts
  <1>6. /\ main \in {"sendFlush", "clientsFlush"} /\ main' \in {"send", "clients", "poll"}
        /\ i' \in DOMAIN Clients
        /\ \A n \in DOMAIN Clients : HasSent(n)' <=> HasSent(n)
    <2>1. CASE demo_SendFlush
      <3>1. /\ main = "sendFlush"
            /\ \/ i < Len(Clients) /\ main' = "send" /\ i' = i + 1
               \/ ~(i < Len(Clients)) /\ main' = "poll" /\ i' = 1
        BY ZenonT(30), <2>1 DEF demo_SendFlush, EachClient
      <3>2. i' \in DOMAIN Clients
        BY <1>1, <1>5, <3>1
      <3>3. ASSUME NEW n \in DOMAIN Clients
            PROVE  (n < i + 1 <=> n <= i) /\ (~(i < Len(Clients)) => n <= i)
        BY <1>1, <1>5
      <3>4. ASSUME NEW n \in DOMAIN Clients
            PROVE  HasSent(n)' <=> HasSent(n)
        BY ZenonT(30), <3>1, <3>3 DEF HasSent
      <3>5. QED
        BY ZenonT(30), <3>1, <3>2, <3>4
    <2>2. CASE demo_ClientsFlush
      <3>1. /\ main = "clientsFlush"
            /\ \/ i < Len(Clients) /\ main' = "clients" /\ i' = i + 1
               \/ ~(i < Len(Clients)) /\ main' = "poll" /\ i' = 1
        BY ZenonT(30), <2>2 DEF demo_ClientsFlush, EachClient
      <3>2. i' \in DOMAIN Clients
        BY <1>1, <1>5, <3>1
      <3>3. QED
        BY Zenon, <3>1, <3>2 DEF HasSent
    <2>3. QED
      BY Zenon, <2>1, <2>2
  <1>7. DemoTypes'
    <2>1. outgoing' \in [Conns -> Nat]
      <3>1. outgoing[c] - taken \in Nat
        BY <1>5
      <3>2. QED
        BY ZenonT(30), <1>3, <1>5, <3>1
    <2>2. ASSUME NEW d \in Conns
          PROVE  queued'[d] <= KernelBuffer[d]
      BY ZenonT(30), <1>3, <1>5, HeldFacts DEF HeldTypes
    <2>3. QED
      BY ZenonT(30), <1>4, <1>6, <2>1, <2>2 DEF DemoInv, DemoTypes, Connecting
  <1>8. ASSUME NEW n \in DOMAIN Clients
        PROVE  ClientInv(n)'
    <2>1. PICK d \in Conns : d = Clients[n]
      BY Zenon, HeldFacts
    <2>2. /\ outgoing[d] \in Nat /\ queued[d] \in Nat /\ buffered[d] \in Nat
          /\ unsent[d] \in Nat /\ replies[d] \in Nat /\ answer[d] \in Nat
          /\ pieces[d] \in Nat
      BY Zenon, <2>1, WayFacts DEF DemoInv
    <2>3. /\ OnTheWay(d)' = OnTheWay(d)
          /\ outgoing'[d] + queued'[d] + pieces[d] = outgoing[d] + queued[d] + pieces[d]
      <3>1. CASE d = c
        <4>1. outgoing'[d] = outgoing[d] - taken /\ queued'[d] = queued[d] + taken
          BY ZenonT(30), <1>3, <1>5, <3>1
        <4>2. taken \in 0 .. outgoing[d]
          BY ZenonT(30), <3>1
        <4>3. (outgoing[d] - taken) + (queued[d] + taken) + buffered[d] + unsent[d] + replies[d]
                + answer[d]
              = outgoing[d] + queued[d] + buffered[d] + unsent[d] + replies[d] + answer[d]
          BY <2>2, <4>2
        <4>4. (outgoing[d] - taken) + (queued[d] + taken) + pieces[d]
              = outgoing[d] + queued[d] + pieces[d]
          BY <2>2, <4>2
        <4>5. QED
          BY ZenonT(30), <1>4, <4>1, <4>3, <4>4 DEF OnTheWay
      <3>2. CASE d # c
        <4>1. outgoing'[d] = outgoing[d] /\ queued'[d] = queued[d]
          BY Zenon, <1>3, <1>5, <3>2
        <4>2. QED
          BY Zenon, <1>4, <4>1 DEF OnTheWay
      <3>3. QED
        BY ZenonT(30), <3>1, <3>2
    <2>4. (Nothing(d) => Nothing(d)') /\ (Everything(d) => Everything(d)')
      BY ZenonT(30), <1>4, <2>3 DEF Nothing, Everything, Replied
    <2>5. ClientInv(n)
      BY ZenonT(30) DEF DemoInv
    <2>6. main' \notin Connecting /\ main # "exit"
      BY ZenonT(30), <1>6 DEF Connecting
    <2>7. QED
      BY ZenonT(30), <1>4, <1>6, <2>1, <2>4, <2>5, <2>6 DEF ClientInv
  <1>9. QED
    BY Zenon, <1>7, <1>8 DEF DemoInv
-----------------------------------------------------------------------------
LEMMA InitDemoInv == DemoInit => DemoInv
  <1> SUFFICES ASSUME DemoInit PROVE DemoInv
    BY Zenon
  <1>1. IInv
    BY ZenonT(30), InitIInv DEF DemoInit
  <1>2. 1 \in DOMAIN Clients
    BY DemoAssumption
  <1>3. DemoTypes
    BY SMTT(30), <1>2, ServerAssumption DEF DemoInit, Init, DemoTypes, Connecting
  <1>4. ASSUME NEW n \in DOMAIN Clients
        PROVE  ClientInv(n)
    <2>1. Clients[n] \in Conns
      BY ZenonT(30), ClientsAreConns
    <2>2. Nothing(Clients[n])
      BY <2>1 DEF DemoInit, Init, OnTheWay, Nothing
    <2>3. QED
      BY ZenonT(30), <2>1, <2>2 DEF DemoInit, Init, ClientInv, HasSent
  <1>5. QED
    BY <1>1, <1>3, <1>4 DEF DemoInv

(* Every step of the program preserves the invariant. *)
LEMMA NextDemoInv ==
  ASSUME DemoInv, [DemoNext]_allVars
  PROVE  DemoInv'
  <1>1. IInv'
    BY ZenonT(30), DemoStep, NextIInv DEF DemoInv
  <1>2. CASE demo_Attempt \/ demo_Poll \/ demo_SendAndRecv \/ serverCall \/ Stranger
    BY ZenonT(30), <1>1, <1>2, ServerStepDemoInv
  <1>3. CASE demo_Listen \/ demo_Connect \/ demo_Return
    BY <1>1, <1>3, ConnectDemoInv
  <1>4. CASE demo_Send \/ demo_Clients
    BY <1>1, <1>4, ReceiveDemoInv
  <1>5. CASE demo_SendFlush \/ demo_ClientsFlush
    BY ZenonT(30), <1>1, <1>5, FlushDemoInv
  <1>6. CASE UNCHANGED allVars
    <2>1. /\ UNCHANGED <<peer, queued, replies, buffered, unsent, pc>>
          /\ UNCHANGED <<main, i, outgoing, answer, pieces>>
      BY ZenonT(30), <1>6 DEF allVars, serverVars, demoVars, net, objects, control
    <2>2. QED
      BY ZenonT(30), <1>1, <2>1 DEF DemoInv, DemoTypes, ClientInv, Nothing, Everything, Replied,
        OnTheWay, HasSent
  <1>7. QED
    BY ZenonT(30), <1>2, <1>3, <1>4, <1>5, <1>6 DEF DemoNext, Main

LEMMA DemoInvariant == DemoSpec => []DemoInv
  BY InitDemoInv, NextDemoInv, PTL DEF DemoSpec

(* For any number of clients and whatever other clients of the port do:    *)
(* every step of main() and of its client sockets is one that the server's *)
(* specification allows, so that what is proved of the server holds in the *)
(* demo.                                                                   *)
THEOREM DemoImplementsServer == DemoSpec => SafeSpec
  <1>1. DemoInit => Init
    BY ZenonT(30) DEF DemoInit
  <1>2. DemoInv /\ [DemoNext]_allVars => [Next]_serverVars
    BY DemoStep
  <1>3. QED
    BY <1>1, <1>2, DemoInvariant, PTL DEF DemoSpec, SafeSpec

(* In the demo, too, the server has no dangling pointer, serves every      *)
(* socket it owns, leaks no descriptor, schedules every failed socket for  *)
(* deletion, and drops no connection without a cause.                      *)
THEOREM DemoServerIsSafe ==
  DemoSpec => /\ []NoDanglingPointers /\ []EverySocketIsServed /\ []NoDescriptorLeak
              /\ []FailedSocketsScheduled /\ DroppedForCause
  BY DemoImplementsServer, ServerHasNoDanglingPointers, ServerServesEverySocket,
     ServerLeaksNoDescriptor, ServerSchedulesFailedSockets, ServerDropsForCause, PTL

(* No unit of a message, nor of a reply to a piece of it, is lost,         *)
(* repeated or dropped on an open connection of the demo, however the      *)
(* message is split, whatever the kernel's buffers hold, and whatever the  *)
(* prefix of a reply is, provided that TCP_BUFFER_SIZE has room for as     *)
(* many replies as the message has units.                                  *)
THEOREM DemoLosesNothing == DemoSpec => []EveryUnitIsAccountedFor
  <1>1. DemoInv => EveryUnitIsAccountedFor
    BY Zenon DEF DemoInv, ClientInv, Nothing, Everything, EveryUnitIsAccountedFor
  <1>2. QED
    BY <1>1, DemoInvariant, PTL
-----------------------------------------------------------------------------
(* With the demo's receive callback no accepted socket is without its      *)
(* descriptor, and there is none before listen().                          *)
LiveInv ==
  /\ live = fd_
  /\ main = "listen" => pc = "idle" /\ live = {}

(* The steps that change the set of live sockets. *)
LEMMA LiveSteps ==
  ASSUME DemoInv, LiveInv, [DemoNext]_allVars
  PROVE  \/ /\ demo_Listen \/ demo_Return
            /\ \E gone : live' = live \ gone /\ fd_' = fd_ \ gone
         \/ /\ main # "listen"
            /\ live' = live \ Range(disconnected_sockets_)
            /\ fd_' = fd_ \ Range(disconnected_sockets_)
         \/ main # "listen" /\ \E c : live' = live \cup {c} /\ fd_' = fd_ \cup {c}
         \/ UNCHANGED <<live, fd_>> /\ (main = "listen" => UNCHANGED pc)
  <1>1. CASE demo_Listen \/ demo_Return
    BY ZenonT(30), <1>1 DEF demo_Listen, demo_Return, listen, destroy, Destroyed
  <1>2. CASE demo_Attempt \/ demo_Poll
    BY Zenon, <1>2 DEF demo_Attempt, demo_Poll, poll_Reap, del
  <1>3. CASE demo_Connect \/ demo_SendAndRecv
    BY Zenon, <1>3 DEF demo_Connect, demo_SendAndRecv, client_Connects, BeginIO, objects
  <1>4. CASE demo_Send \/ demo_Clients
    <2>1. UNCHANGED <<live, fd_>> /\ main # "listen"
      BY Zenon, <1>4 DEF demo_Send, demo_Clients, client_Receives, objects
    <2>2. QED
      BY Zenon, <2>1
  <1>5. CASE demo_SendFlush \/ demo_ClientsFlush
    <2>1. UNCHANGED <<live, fd_>> /\ main # "listen"
      BY Zenon, <1>5 DEF demo_SendFlush, demo_ClientsFlush, client_Flushes, objects
    <2>2. QED
      BY Zenon, <2>1
  <1>6. CASE Stranger
    <2>1. UNCHANGED <<live, fd_, pc>>
      BY Zenon, <1>6 DEF Stranger, Client, client_Connects, client_Sends, client_Reads,
        client_Ends, objects, control
    <2>2. QED
      BY Zenon, <2>1
  <1>7. CASE UNCHANGED allVars
    BY Zenon, <1>7 DEF allVars, serverVars, objects, control
  <1>8. CASE serverCall
    <2>1. main # "listen"
      BY ZenonT(30), <1>8, CallIsBusy DEF LiveInv
    <2>2. CASE accept_Client
      BY ZenonT(30), <2>1, <2>2 DEF accept_Client
    <2>3. ASSUME NEW d \in Conns, io_Call(d)
          PROVE  UNCHANGED <<live, fd_>>
      BY ZenonT(30), <2>3, DemoAssumption DEF io_Call, io_Nothing, io_Breaks, io_Receives,
        NextSocket
    <2>4. CASE \/ epoll_wait \/ epoll_wait_Fails \/ accept_Empty \/ accept_Refuses
               \/ accept_Error \/ EndIO \/ io_Closed
      <3>1. UNCHANGED <<live, fd_>>
        BY Zenon, <2>4 DEF epoll_wait, epoll_wait_Fails, accept_Empty, accept_Refuses,
          accept_Error, EndIO, io_Closed, NextSocket, objects
      <3>2. QED
        BY ZenonT(30), <2>1, <3>1
    <2>5. QED
      <3>1. CASE \E c \in Conns : io_Call(c)
        BY ZenonT(30), <2>1, <2>3, <3>1
      <3>2. QED
        BY ZenonT(30), <1>8, <2>2, <2>4, <3>1 DEF serverCall, accept, sendAndRecv
  <1>9. CASE Main
    BY ZenonT(30), <1>1, <1>2, <1>3, <1>4, <1>5, <1>8, <1>9 DEF Main
  <1>10. QED
    BY ZenonT(30), <1>1, <1>6, <1>7, <1>9 DEF DemoNext

(* No cause for dropping it ever applies to a connection of the demo. *)
LEMMA NoCause ==
  ASSUME DemoInv, LiveInv, NEW n \in DOMAIN Clients
  PROVE  Clients[n] \notin Range(disconnected_sockets_)
  <1> SUFFICES ASSUME Clients[n] \in Range(disconnected_sockets_) PROVE FALSE
    BY Zenon
  <1>1. Cause(Clients[n]) /\ Clients[n] \in fd_
    BY Zenon DEF DemoInv, IInv, ListsInv, CauseInv, LiveInv
  <1>2. peer[Clients[n]] \notin {"fin", "rst"} /\ buffered[Clients[n]] = 0
    BY ZenonT(30), HeldFacts
  <1>3. TCP_BUFFER_SIZE # 0
    <2>1. \A m \in Nat, p \in Nat : m # 0 => ~(m * (p + 1) <= 0)
      <3>1. \A m \in Nat, p \in Nat : m * (p + 1) = m * p + m /\ m * p \in Nat
        OBVIOUS
      <3>2. QED
        BY <3>1
    <2>2. QED
      BY Zenon, <2>1, MessageFacts
  <1>4. QED
    BY ZenonT(30), <1>1, <1>2, <1>3 DEF Cause

(* For any number of clients: poll() never deletes a connection of the     *)
(* demo, whose clients neither close nor fill a receive buffer.            *)
THEOREM DemoKeepsItsClients == DemoSpec => ClientsAreKept
  <1>1. DemoInit => LiveInv
    BY Zenon DEF DemoInit, Init, LiveInv
  <1>2. DemoInv /\ LiveInv /\ [DemoNext]_allVars => LiveInv'
    <2> SUFFICES ASSUME DemoInv, LiveInv, [DemoNext]_allVars PROVE LiveInv'
      BY Zenon
    <2>1. live' = fd_'
      BY ZenonT(30), LiveSteps DEF LiveInv
    <2>2. main' = "listen" => main = "listen" /\ ~demo_Listen /\ ~demo_Return
      BY ZenonT(30) DEF DemoNext, Main, demo_Listen, demo_Return, demo_Connect,
        demo_Attempt, NextClient, demo_Send,
        demo_SendFlush, EachClient, demo_Poll, demo_SendAndRecv, demo_Clients,
        demo_ClientsFlush, serverCall, Stranger, demoVars, allVars
    <2>3. QED
      BY <2>1, <2>2, LiveSteps DEF LiveInv
  <1>3. DemoInv /\ LiveInv /\ [DemoNext]_allVars =>
          [\A c \in Range(Clients) : c \in live => c \in live' \/ main' = "exit"]_allVars
    <2> SUFFICES ASSUME DemoInv, LiveInv, [DemoNext]_allVars, NEW n \in DOMAIN Clients,
                        Clients[n] \in live
                 PROVE  Clients[n] \in live' \/ main' = "exit"
      BY Zenon DEF Range
    <2>1. Clients[n] \notin Range(disconnected_sockets_)
      BY ZenonT(30), NoCause
    <2>2. demo_Listen => live = {}
      BY Zenon DEF demo_Listen, LiveInv
    <2>3. demo_Return => main' = "exit"
      BY Zenon DEF demo_Return
    <2>4. QED
      BY ZenonT(30), <2>1, <2>2, <2>3, LiveSteps
  <1>4. QED
    BY <1>1, <1>2, <1>3, DemoInvariant, PTL DEF DemoSpec, ClientsAreKept
=============================================================================
