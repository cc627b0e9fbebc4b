------------------------------ MODULE SocketDemo ------------------------------
(***************************************************************************)
(* The program of socket_demo.cpp: one thread that runs a TCPServer and,   *)
(* in the same loop, the TCPSockets that are its clients.  Other clients   *)
(* of the port do as they like.                                            *)
(*                                                                         *)
(* The server is module TCPServer, whose steps main() schedules here; of   *)
(* the client sockets the model keeps what they have to send and what they *)
(* have received.                                                          *)
(***************************************************************************)
EXTENDS TCPServer

CONSTANTS Clients,   \* the sequence of the demo's own connections
          Message,   \* length of the message each client sends
          Attempts   \* poll() calls after each connect()

ASSUME DemoAssumption ==
  /\ Clients \in Seq(Conns) /\ Clients # <<>> /\ IsInjective(Clients)
  /\ Callbacks = {"reply"}
  /\ Message \in [Conns -> Nat \ {0}] /\ Attempts \in Nat \ {0}
  (* The reply fits even if the message arrives one unit at a time. *)
  /\ \A c \in Range(Clients) : Message[c] * (Prefix + 1) <= TCP_BUFFER_SIZE

VARIABLES
  main,    \* the next call main() makes; "exit" once it has returned
  i, attempt,   \* its loop counters
  outgoing,     \* next_send_valid_index_ of each client socket
  answer,       \* units each client's receive callback was given
  pieces        \* history: in how many pieces the server has read its message so far

demoVars == <<main, i, attempt, outgoing, answer, pieces>>

allVars == <<serverVars, demoVars>>

Others == Conns \ Range(Clients)

DemoInit ==
  /\ Init
  /\ main = "listen" /\ i = 1 /\ attempt = 1
  /\ outgoing = [c \in Conns |-> 0] /\ answer = [c \in Conns |-> 0]
  /\ pieces = [c \in Conns |-> 0]
-----------------------------------------------------------------------------
(* main() gives up when listen() fails. *)
demo_Listen ==
  /\ main = "listen"
  /\ listen
  /\ main' = IF efd_' THEN "connect" ELSE "exit"
  /\ UNCHANGED <<i, attempt, outgoing, answer, pieces>>

demo_Connect ==
  /\ main = "connect" /\ pc = "idle"
  /\ client_Connects(Clients[i])
  /\ main' = "attempt"
  /\ UNCHANGED <<i, attempt, outgoing, answer, pieces>>

(* return 1 when connect() fails, return 0 after the last iteration: the   *)
(* client sockets and the server are destroyed.  The model leaves open     *)
(* after how many iterations that is.                                      *)
demo_Return ==
  /\ main \in {"connect", "poll"}
  /\ destroy
  /\ main' = "exit"
  /\ UNCHANGED <<i, attempt, outgoing, answer, pieces>>

(* The next client, or the first message. *)
NextClient ==
  IF i < Len(Clients) THEN main' = "connect" /\ i' = i + 1
  ELSE main' = "send" /\ i' = 1

(* poll() a few times after each connect(). *)
demo_Attempt ==
  /\ main = "attempt"
  /\ poll_Reap
  /\ IF attempt < Attempts THEN attempt' = attempt + 1 /\ UNCHANGED <<main, i>>
     ELSE attempt' = 1 /\ NextClient
  /\ UNCHANGED <<outgoing, answer, pieces>>
-----------------------------------------------------------------------------
(* sendAndRecv() of client socket c: it receives what has arrived... *)
client_Receives(c) ==
  /\ answer' = [answer EXCEPT ![c] = @ + replies[c]]
  /\ replies' = [replies EXCEPT ![c] = 0]
  /\ UNCHANGED <<lists, objects, control, peer, queued, open, epollState>>

(* What the kernel takes of its send buffer at most: as much as there is   *)
(* room for, and nothing once the server has closed the connection.        *)
Most(c) == IF peer[c] = "open" THEN Min({outgoing[c], KernelBuffer[c] - queued[c]}) ELSE 0

(* ...and flushes what the kernel takes. *)
client_Flushes(c) ==
  \E taken \in Min({1, Most(c)}) .. Most(c) :
    /\ outgoing' = [outgoing EXCEPT ![c] = @ - taken]
    /\ queued' = [queued EXCEPT ![c] = @ + taken]
    /\ ready' = IF taken > 0 THEN Edge(c) ELSE ready
    /\ UNCHANGED <<lists, objects, control, peer, replies, open, backlog, interest>>

(* The loop over the clients, whose body begins at `first', goes round     *)
(* again or ends.                                                          *)
EachClient(first) ==
  IF i < Len(Clients) THEN main' = first /\ i' = i + 1
  ELSE main' = "poll" /\ i' = 1

(* send(), which the empty buffer has room for, and sendAndRecv(). *)
demo_Send ==
  /\ main = "send" /\ pc = "idle"
  /\ client_Receives(Clients[i])
  /\ outgoing' = [outgoing EXCEPT ![Clients[i]] = Message[Clients[i]]]
  /\ main' = "sendFlush"
  /\ UNCHANGED <<i, attempt, pieces>>

demo_SendFlush ==
  /\ main = "sendFlush" /\ client_Flushes(Clients[i])
  /\ EachClient("send")
  /\ UNCHANGED <<attempt, answer, pieces>>

(* The event loop: poll(), sendAndRecv(), then every client. *)
demo_Poll ==
  /\ main = "poll" /\ poll_Reap
  /\ main' = "sendAndRecv"
  /\ UNCHANGED <<i, attempt, outgoing, answer, pieces>>

demo_SendAndRecv ==
  /\ main = "sendAndRecv" /\ BeginIO
  /\ main' = "clients"
  /\ UNCHANGED <<i, attempt, outgoing, answer, pieces>>

demo_Clients ==
  /\ main = "clients" /\ pc = "idle"
  /\ client_Receives(Clients[i])
  /\ main' = "clientsFlush"
  /\ UNCHANGED <<i, attempt, outgoing, pieces>>

demo_ClientsFlush ==
  /\ main = "clientsFlush" /\ client_Flushes(Clients[i])
  /\ EachClient("clients")
  /\ UNCHANGED <<attempt, answer, pieces>>

(* The server's callback is run for a client of the demo whenever a piece  *)
(* of its message is read.                                                 *)
CountPieces ==
  LET Reads(c) == c \in Range(Clients) /\ peer'[c] = "open" /\ queued'[c] < queued[c]
  IN  pieces' = [c \in Conns |-> IF Reads(c) THEN pieces[c] + 1 ELSE pieces[c]]

(* A call of the server goes on. *)
serverCall ==
  /\ epoll_wait \/ epoll_wait_Fails \/ accept \/ accept_Error \/ sendAndRecv
  /\ CountPieces
  /\ UNCHANGED <<main, i, attempt, outgoing, answer>>
-----------------------------------------------------------------------------
Main ==
  \/ demo_Listen \/ demo_Connect \/ demo_Attempt \/ demo_Send \/ demo_SendFlush
  \/ demo_Poll \/ demo_SendAndRecv \/ demo_Clients \/ demo_ClientsFlush \/ serverCall

Stranger == (\E c \in Others : Client(c)) /\ UNCHANGED demoVars

DemoNext == Main \/ demo_Return \/ Stranger

(* The thread runs until it returns, and epoll_wait() does not fail for    *)
(* ever.  Nothing is assumed of the other clients.                         *)
DemoSpec ==
  /\ DemoInit /\ [][DemoNext]_allVars
  /\ WF_allVars(Main) /\ SF_allVars(epoll_wait /\ UNCHANGED demoVars)
-----------------------------------------------------------------------------
(* Whether main() has queued the message of its n-th client. *)
HasSent(n) ==
  \/ main = "send" /\ n < i
  \/ main = "sendFlush" /\ n <= i
  \/ main \in {"poll", "sendAndRecv", "clients", "clientsFlush"}

(* Units of client c's message and of the replies to it: in the client's   *)
(* send buffer, with the kernel, in the server's buffers, or back at the   *)
(* client.                                                                 *)
OnTheWay(c) ==
  outgoing[c] + queued[c] + buffered[c] + unsent[c] + replies[c] + answer[c]

(* The length of the replies to client c's message, which are as many as   *)
(* the pieces in which the message arrives.                                *)
Replied(c) == Message[c] + Prefix * pieces[c]

(* Nothing a client of the demo sends, and nothing of the server's replies *)
(* to it, is lost, sent twice or dropped because a buffer is full, however *)
(* the bytes are split on the way, for as long as the connection is open.  *)
EveryUnitIsAccountedFor ==
  main # "exit" =>
    \A n \in DOMAIN Clients :
      peer[Clients[n]] = "open" =>
        OnTheWay(Clients[n]) = IF HasSent(n) THEN Replied(Clients[n]) ELSE 0

(* The server never deletes a connection of the demo that it has accepted: *)
(* not as disconnected, not because a receive buffer is full, not because  *)
(* of what other clients do.                                               *)
ClientsAreKept ==
  [][\A c \in Range(Clients) : c \in live => c \in live' \/ main' = "exit"]_allVars

(* "Allow every client to receive the server reply": if the loop goes on   *)
(* for long enough, each of the demo's clients is given the replies to its *)
(* whole message, whatever pieces it travels in and whatever other clients *)
(* do, unless the server refused or could not accept the connection.       *)
EveryClientIsAnswered ==
  \A c \in Range(Clients) :
    main = "send" ~> \/ answer[c] = Replied(c)
                     \/ peer[c] = "gone" \/ aborted
                     \/ main = "exit"
=============================================================================
