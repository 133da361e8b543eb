------------------------------- MODULE Router -------------------------------
(***************************************************************************)
(* Asn2a/router.c: receives a packet, decides what becomes of it, counts   *)
(* the decision, and rewrites its log when its counter is a multiple of    *)
(* 20.  counter is never initialised: it starts anywhere.  SIGINT ends the *)
(* program inside the handler, wherever main is.  A rewrite of the log is  *)
(* one step.                                                               *)
(***************************************************************************)
EXTENDS Integers, Sequences

CONSTANTS Octet,     \* bits to an octet, see Routing
          IP,        \* the address of each host
          tables,    \* the three entries main reads from the table file
          LogEvery   \* 20 in the code

VARIABLES
  counter,    \* rounds of the loop, modulo LogEvery
  stat,       \* the statistics
  routerLog,  \* the statistics as last written to the log file
  buf,        \* the packet received and not decided yet, if there is one
  router,     \* where main is
  queue, listening  \* the socket, see PktGen

R == INSTANCE Routing

Decision == {"expired", "unroutable", "delivered", "routerB", "routerC"}

\* The socket is bound before the loop; main has not started yet.
RouterInit == /\ counter \in 0 .. LogEvery - 1
              /\ stat = [d \in Decision |-> 0]
              /\ routerLog = stat
              /\ buf = <<>>
              /\ router = "start"
              /\ queue = <<>>
              /\ listening = FALSE

Bind ==
  /\ router = "start"
  /\ listening' = TRUE
  /\ router' = "recv"
  /\ UNCHANGED <<counter, stat, routerLog, buf, queue>>

decrement(n) == n - 1

\* What may become of a packet: entry 0 is router B, entry 1 the network at
\* hand, entry 2 router C.
Make_Decision(packet) ==
  IF decrement(packet.ttl) = 0 THEN {"expired"}
  ELSE {LET ri == R!FirstMatch(matches)
        IN  CASE ri = 0 -> "routerB"
              [] ri = 1 -> "delivered"
              [] ri = 2 -> "routerC"
              [] ri = 3 -> "unroutable" :
        matches \in {m \in SUBSET (0 .. 2) :
          \A n \in 0 .. 2 : (n \in m) \in R!Ip_masking(IP[packet.dest], tables[n])}}

\* Faulty: only failures count as rounds.
ReceiveUncounted ==
  /\ router = "recv" /\ queue # <<>>
  /\ buf' = <<Head(queue)>>
  /\ queue' = Tail(queue)
  /\ router' = "decide"
  /\ UNCHANGED <<counter, stat, routerLog, listening>>

Receive ==
  /\ router = "recv" /\ queue # <<>>
  /\ counter' = (counter + 1) % LogEvery
  /\ buf' = <<Head(queue)>>
  /\ queue' = Tail(queue)
  /\ router' = "decide"
  /\ UNCHANGED <<stat, routerLog, listening>>

\* Faulty: an expired packet is routed all the same.
DecideExpired ==
  /\ router = "decide"
  /\ \E d, e \in Decision :
       /\ d \in Make_Decision(Head(buf))
       /\ e \in Make_Decision([Head(buf) EXCEPT !.ttl = 2])
       /\ stat' = [k \in Decision |-> IF k \in {d, e} THEN stat[k] + 1 ELSE stat[k]]
  /\ buf' = <<>>
  /\ router' = "log"
  /\ UNCHANGED <<counter, routerLog, queue, listening>>

\* The packet is decided and counted, and the round goes on.
Decide ==
  /\ router = "decide"
  /\ \E d \in Make_Decision(Head(buf)) : stat' = [stat EXCEPT ![d] = @ + 1]
  /\ buf' = <<>>
  /\ router' = "log"
  /\ UNCHANGED <<counter, routerLog, queue, listening>>

\* recvfrom returns -1: the round is counted all the same.
ReceiveFails ==
  /\ router = "recv"
  /\ counter' = (counter + 1) % LogEvery
  /\ router' = "log"
  /\ UNCHANGED <<stat, routerLog, buf, queue, listening>>

update_log ==
  /\ router = "log"
  /\ routerLog' = IF counter = 0 THEN stat ELSE routerLog
  /\ router' = "recv"
  /\ UNCHANGED <<counter, stat, buf, queue, listening>>

\* SIGINT: exit(0) in the handler.  The socket is gone, and so is a packet
\* received and not decided.
sig_handler_2 ==
  /\ router \in {"recv", "decide", "log"}
  /\ router' = "exit"
  /\ listening' = FALSE
  /\ queue' = <<>>
  /\ buf' = <<>>
  /\ UNCHANGED <<counter, stat, routerLog>>

RouterNext == \/ Bind \/ Receive \/ Decide \/ ReceiveFails \/ update_log \/ sig_handler_2
=============================================================================
