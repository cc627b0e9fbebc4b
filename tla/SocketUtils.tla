----------------------------- MODULE SocketUtils -----------------------------
(***************************************************************************)
(* createSocket() and its helpers (src/socket_utils.cpp).                  *)
(*                                                                         *)
(* createSocket() takes the addresses getaddrinfo() returned one by one,   *)
(* until every system call it needs succeeds for one of them.  Any call    *)
(* may fail; each action is one call together with the code that handles   *)
(* its result.                                                             *)
(***************************************************************************)
EXTENDS Integers, Sequences, FiniteSetsExt

CONSTANTS MaxCandidates,  \* bound on the number of addresses
          Descriptors     \* descriptor numbers the kernel can give out

ASSUME SocketAssumption == MaxCandidates \in Nat /\ Descriptors \subseteq Nat

VARIABLES request,     \* the four boolean parameters
          has_target,  \* target_ip is not empty
          pc,          \* "ip", "getaddrinfo", "try", "returned"
          candidates,  \* addresses not given up yet; the loop is at the first
          fd,          \* the local variable, -1 when no socket is at hand
          applied,     \* the calls that succeeded on fd for this candidate
          open         \* the kernel's open descriptors

socketVars == <<request, has_target, pc, candidates, fd, applied, open>>

Init ==
  /\ request \in [is_udp : BOOLEAN, is_blocking : BOOLEAN,
                  is_listening : BOOLEAN, needs_so_timestamp : BOOLEAN]
  /\ has_target \in BOOLEAN
  /\ pc = "ip"
  /\ candidates = 0
  /\ fd = -1
  /\ applied = {}
  /\ open = {}
-----------------------------------------------------------------------------
(* The calls of the loop's body in order, and whether the request r makes  *)
(* the body perform them.                                                  *)
Calls == <<"setNonBlocking", "setNoDelay", "connect", "SO_REUSEADDR", "bind", "listen",
           "setSOTimestamp">>

BugNeeded(call, r) ==
  \/ call = "setNonBlocking" /\ ~r.is_blocking
  \/ call = "setNoDelay" /\ ~r.is_udp
  \/ call = "connect" /\ ~r.is_listening
  \/ call \in {"SO_REUSEADDR", "bind"} /\ r.is_listening
  \/ call = "listen" /\ r.is_listening
  \/ call = "setSOTimestamp" /\ ~r.is_listening /\ r.needs_so_timestamp

Needed(call, r) ==
  \/ call = "setNonBlocking" /\ ~r.is_blocking
  \/ call = "setNoDelay" /\ ~r.is_udp
  \/ call = "connect" /\ ~r.is_listening
  \/ call \in {"SO_REUSEADDR", "bind"} /\ r.is_listening
  \/ call = "listen" /\ r.is_listening /\ ~r.is_udp
  \/ call = "setSOTimestamp" /\ r.needs_so_timestamp

Return == pc' = "returned"

(* No address to use: target_ip is empty and getIfaceIP() found none.      *)
NoAddress ==
  /\ pc = "ip"
  /\ ~has_target
  /\ Return
  /\ UNCHANGED <<request, has_target, candidates, fd, applied, open>>

(* target_ip, or an interface with an IPv4 address that converts.          *)
getIfaceIP ==
  /\ pc = "ip"
  /\ pc' = "getaddrinfo"
  /\ UNCHANGED <<request, has_target, candidates, fd, applied, open>>

getaddrinfo ==
  /\ pc = "getaddrinfo"
  /\ \/ Return /\ UNCHANGED candidates
     \/ pc' = "try" /\ candidates' \in 1 .. MaxCandidates
  /\ UNCHANGED <<request, has_target, fd, applied, open>>

(* ::socket() for the first candidate left. *)
socket_Opens ==
  /\ pc = "try" /\ fd = -1 /\ candidates > 0
  /\ \E d \in Descriptors \ open : fd' = d /\ open' = open \cup {d}
  /\ applied' = {}
  /\ UNCHANGED <<request, has_target, pc, candidates>>

(* continue: go on with the next candidate. *)
socket_Fails ==
  /\ pc = "try" /\ fd = -1 /\ candidates > 0
  /\ candidates' = candidates - 1
  /\ UNCHANGED <<request, has_target, pc, fd, applied, open>>

(* The positions of the calls that the request needs and that have not     *)
(* been made for this candidate; the next one is the first of them.        *)
Missing == {i \in DOMAIN Calls : Needed(Calls[i], request) /\ Calls[i] \notin applied}

NextCall == Calls[Min(Missing)]

BodyDone == Missing = {}

(* It succeeds; for a non-blocking connect() "in progress" is a success.   *)
Call_Succeeds ==
  /\ pc = "try" /\ fd # -1 /\ ~BodyDone
  /\ applied' = applied \cup {NextCall}
  /\ UNCHANGED <<request, has_target, pc, candidates, fd, open>>

BugCallFails ==
  /\ pc = "try" /\ fd # -1 /\ ~BodyDone
  /\ open' = IF NextCall = "bind" THEN open ELSE open \ {fd}
  /\ fd' = -1
  /\ candidates' = candidates - 1
  /\ UNCHANGED <<request, has_target, pc, applied>>

(* It fails: close(fd), fd = -1, continue. *)
Call_Fails ==
  /\ pc = "try" /\ fd # -1 /\ ~BodyDone
  /\ open' = open \ {fd}
  /\ fd' = -1
  /\ candidates' = candidates - 1
  /\ UNCHANGED <<request, has_target, pc, applied>>

(* break, or the end of the list: freeaddrinfo() and return fd. *)
LoopEnds ==
  /\ pc = "try"
  /\ \/ fd # -1 /\ BodyDone
     \/ fd = -1 /\ candidates = 0
  /\ Return
  /\ UNCHANGED <<request, has_target, candidates, fd, applied, open>>
-----------------------------------------------------------------------------
Next ==
  \/ NoAddress \/ getIfaceIP \/ getaddrinfo
  \/ socket_Opens \/ socket_Fails \/ Call_Succeeds \/ Call_Fails \/ LoopEnds

Spec == Init /\ [][Next]_socketVars
-----------------------------------------------------------------------------
(* createSocket() leaks no descriptor: at every moment the only one open   *)
(* is the one it is about to return, and -1 is returned with none open.    *)
NoDescriptorLeak == open = IF fd = -1 THEN {} ELSE {fd}

(* "For a listening socket, the socket is bound and TCP starts listening.  *)
(* For a client socket, a connection attempt is started": the returned     *)
(* descriptor had, for one and the same address, every call its kind of    *)
(* socket needs, with non-blocking mode set before connect() and an        *)
(* address bound before listen().                                          *)
ReturnedSocketIsComplete ==
  /\ "connect" \in applied => "setNonBlocking" \in applied \/ request.is_blocking
  /\ "listen" \in applied => "bind" \in applied
  /\ pc = "returned" /\ fd # -1 =>
       /\ fd \in open
       /\ request.is_listening =>
            /\ {"SO_REUSEADDR", "bind"} \subseteq applied
            /\ "connect" \notin applied
            /\ "listen" \in applied <=> ~request.is_udp
       /\ ~request.is_listening => "connect" \in applied /\ "bind" \notin applied
       /\ ~request.is_blocking => "setNonBlocking" \in applied
       /\ ~request.is_udp => "setNoDelay" \in applied
       /\ request.needs_so_timestamp => "setSOTimestamp" \in applied
=============================================================================
