------------------------------- MODULE PktGen -------------------------------
(***************************************************************************)
(* Asn2a/pktgen.c: draws a source and a destination in different networks, *)
(* counts the pair, sends the packet, and now and then rewrites its log.   *)
(* The payload is left out.  Hosts are the indices of networks[]: 0..1 are *)
(* in network A, 2..4 in B, 5..8 in C, and 9 is the invalid destination.   *)
(***************************************************************************)
EXTENDS Integers, Sequences

CONSTANTS Source,     \* indices rand() % 9 may give
          Dest,       \* indices rand() % 10 may give
          TTLs,       \* the times to live in TTL[]
          LogEvery,   \* packets between two logs, 20 in the code
          MaxPacket,  \* bound on the packets generated
          QueueLen    \* packets the socket buffer of the router holds

ASSUME PktGenAssumption ==
  /\ Source \subseteq 0 .. 8
  /\ Dest \subseteq 0 .. 9
  /\ TTLs \subseteq 1 .. 4
  /\ LogEvery \in Nat \ {0} /\ MaxPacket \in Nat /\ QueueLen \in Nat \ {0}

VARIABLES
  Packet_ID,
  randi1, randi2,  \* source and destination drawn
  count,           \* countAtoB ... countInvalid
  genLog,          \* the counters as last written to the log file
  genStop,         \* stop_flag
  gen,             \* where main is
  queue,           \* packets in the socket buffer of the router
  listening,       \* does the router's socket exist
  dropped          \* packets sent that never reached the buffer (history)

genVars == <<Packet_ID, randi1, randi2, count, genLog, genStop, gen>>

Pair == {"AtoB", "AtoC", "BtoA", "BtoC", "CtoA", "CtoB", "Invalid"}

GenInit == /\ Packet_ID = 0
           /\ randi1 = 0 /\ randi2 = 0
           /\ count = [p \in Pair |-> 0]
           /\ genLog = count
           /\ genStop = 1
           /\ gen = "loop"
           /\ dropped = 0

NewPacket ==
  /\ gen = "loop" /\ genStop = 1
  /\ Packet_ID < MaxPacket
  /\ Packet_ID' = Packet_ID + 1
  /\ randi1' \in Source /\ randi2' \in Dest
  /\ gen' = "draw"
  /\ UNCHANGED <<count, genLog, genStop, queue, listening, dropped>>

\* Faulty: leaves out the range of network B.
SameNetworkGap(r1, r2) ==
  \/ r1 = r2
  \/ r1 <= 1 /\ r2 <= 1
  \/ r1 > 4 /\ r1 <= 8 /\ r2 > 4 /\ r2 <= 8

\* The condition under which the destination is drawn again.
SameNetwork(r1, r2) ==
  \/ r1 = r2
  \/ r1 <= 1 /\ r2 <= 1
  \/ r1 > 1 /\ r1 <= 4 /\ r2 > 1 /\ r2 <= 4
  \/ r1 > 4 /\ r1 <= 8 /\ r2 > 4 /\ r2 <= 8

\* Faulty: the destination stays what it was.
RedrawNothing ==
  /\ gen = "draw" /\ SameNetwork(randi1, randi2)
  /\ UNCHANGED <<genVars, queue, listening, dropped>>

Redraw ==
  /\ gen = "draw" /\ SameNetwork(randi1, randi2)
  /\ randi2' \in Dest
  /\ UNCHANGED <<Packet_ID, randi1, count, genLog, genStop, gen, queue,
                 listening, dropped>>

\* The counters the chain of tests increments: one, or none.
Counted(r1, r2) ==
  {p \in Pair :
     \/ p = "Invalid" /\ r2 = 9
     \/ p = "AtoB" /\ r1 \in 0 .. 1 /\ r2 \in 2 .. 4
     \/ p = "AtoC" /\ r1 \in 0 .. 1 /\ r2 \in 5 .. 8
     \/ p = "BtoA" /\ r1 \in 2 .. 4 /\ r2 \in 0 .. 1
     \/ p = "BtoC" /\ r1 \in 2 .. 4 /\ r2 \in 5 .. 8
     \/ p = "CtoA" /\ r1 \in 5 .. 8 /\ r2 \in 0 .. 1
     \/ p = "CtoB" /\ r1 \in 5 .. 8 /\ r2 \in 2 .. 4}

Count ==
  /\ gen = "draw" /\ ~ SameNetwork(randi1, randi2)
  /\ count' = [p \in Pair |-> IF p \in Counted(randi1, randi2)
                                THEN count[p] + 1 ELSE count[p]]
  /\ gen' = "send"
  /\ UNCHANGED <<Packet_ID, randi1, randi2, genLog, genStop, queue, listening,
                 dropped>>

\* sendto; a packet that finds no socket or a full buffer is lost.
Send ==
  /\ gen = "send"
  /\ \E ttl \in TTLs :
       LET packet == [id |-> Packet_ID, dest |-> randi2, ttl |-> ttl]
       IN  IF listening /\ Len(queue) < QueueLen
             THEN queue' = Append(queue, packet) /\ UNCHANGED dropped
             ELSE dropped' = dropped + 1 /\ UNCHANGED queue
  /\ gen' = IF Packet_ID % LogEvery = 0 THEN "log" ELSE "loop"
  /\ UNCHANGED <<Packet_ID, randi1, randi2, count, genLog, genStop, listening>>

WriteLog ==
  /\ gen = "log"
  /\ genLog' = count
  /\ gen' = "loop"
  /\ UNCHANGED <<Packet_ID, randi1, randi2, count, genStop, queue, listening,
                 dropped>>

\* The loop is left: the log is written once more.
Finish ==
  /\ gen = "loop" /\ genStop = 0
  /\ genLog' = count
  /\ gen' = "end"
  /\ UNCHANGED <<Packet_ID, randi1, randi2, count, genStop, queue, listening,
                 dropped>>

\* SIGINT.
sig_handler ==
  /\ gen # "end"
  /\ genStop' = 0
  /\ UNCHANGED <<Packet_ID, randi1, randi2, count, genLog, gen, queue,
                 listening, dropped>>

GenMain == NewPacket \/ Redraw \/ Count \/ Send \/ WriteLog \/ Finish
GenNext == GenMain \/ sig_handler
=============================================================================
