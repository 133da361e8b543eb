------------------------- MODULE PacketNetworkProofs -------------------------
(***************************************************************************)
(* What the packet generator and the router count, for any number of       *)
(* packets, tables of any kind, a socket buffer of any size and any period *)
(* of the logs (Asn2a).                                                    *)
(***************************************************************************)
EXTENDS PacketNetwork, FiniteSets, Functions, FiniteSetTheorems,
        SequenceTheorems, WellFoundedInduction, TLAPS

\* What a step of the router leaves alone and loses.
RouterDrops == /\ dropped' = (IF router' = "exit" THEN dropped + Len(queue) + Len(buf)
                                            ELSE dropped)
               /\ UNCHANGED genVars

(***************************************************************************)
(* There is a first match, or none at all.                                 *)
(***************************************************************************)
LEMMA FirstMatchExists ==
  \A m : \E ri \in 0 .. 3 : /\ ri < 3 => ri \in m
                            /\ \A n \in 0 .. ri - 1 : n \notin m
<1> TAKE m
<1>1. CASE 0 \in m
  BY <1>1
<1>2. CASE 0 \notin m /\ 1 \in m
  BY <1>2
<1>3. CASE 0 \notin m /\ 1 \notin m /\ 2 \in m
  BY <1>3
<1>4. CASE 0 \notin m /\ 1 \notin m /\ 2 \notin m
  BY <1>4
<1> QED
  BY <1>1, <1>2, <1>3, <1>4

(***************************************************************************)
(* The scan of the table stops at an entry or after the last.              *)
(***************************************************************************)
LEMMA FirstMatchType == \A m : R!FirstMatch(m) \in 0 .. 3
<1> TAKE m
<1> DEFINE P(ri) == /\ ri < 3 => ri \in m
                    /\ \A n \in 0 .. ri - 1 : n \notin m
<1>1. \E ri \in 0 .. 3 : P(ri)
  BY FirstMatchExists
<1>2. (CHOOSE ri \in 0 .. 3 : P(ri)) \in 0 .. 3
  <2> HIDE DEF P
  <2> QED
    BY <1>1
<1> QED
  BY <1>2 DEF R!FirstMatch

(***************************************************************************)
(* Each packet gets some of the five decisions.                            *)
(***************************************************************************)
LEMMA DecisionType == \A packet : Make_Decision(packet) \subseteq Decision
  BY FirstMatchType DEF Make_Decision, Decision

(***************************************************************************)
(* One decision more is one packet more.                                   *)
(***************************************************************************)
LEMMA DecidedStep ==
  ASSUME NEW s \in [Decision -> Nat], NEW d \in Decision
  PROVE  /\ [s EXCEPT ![d] = @ + 1] \in [Decision -> Nat]
         /\ Decided([s EXCEPT ![d] = @ + 1]) = Decided(s) + 1
         /\ Decided(s) \in Nat
  BY DEF Decided, Decision

(***************************************************************************)
(* Two hosts of different networks, or a host and the invalid destination, *)
(* are counted by exactly one counter: the condition for drawing again     *)
(* leaves out just the pairs the chain of tests has no counter for.        *)
(* (pktgen.c:82 and 97)                                                    *)
(***************************************************************************)
LEMMA CountedOnce ==
  ASSUME NEW r1 \in 0 .. 8, NEW r2 \in 0 .. 9, ~ SameNetwork(r1, r2)
  PROVE  \E p \in Pair : Counted(r1, r2) = {p}
<1>1. \/ r2 = 9
      \/ r1 \in 0 .. 1 /\ r2 \in 2 .. 4
      \/ r1 \in 0 .. 1 /\ r2 \in 5 .. 8
      \/ r1 \in 2 .. 4 /\ r2 \in 0 .. 1
      \/ r1 \in 2 .. 4 /\ r2 \in 5 .. 8
      \/ r1 \in 5 .. 8 /\ r2 \in 0 .. 1
      \/ r1 \in 5 .. 8 /\ r2 \in 2 .. 4
  BY DEF SameNetwork
<1> USE DEF Counted, Pair
<1>2. CASE r2 = 9
  <2>1. Counted(r1, r2) = {"Invalid"}
    BY <1>2
  <2> QED
    BY <2>1
<1>3. CASE r1 \in 0 .. 1 /\ r2 \in 2 .. 4
  <2>1. Counted(r1, r2) = {"AtoB"}
    BY <1>3
  <2> QED
    BY <2>1
<1>4. CASE r1 \in 0 .. 1 /\ r2 \in 5 .. 8
  <2>1. Counted(r1, r2) = {"AtoC"}
    BY <1>4
  <2> QED
    BY <2>1
<1>5. CASE r1 \in 2 .. 4 /\ r2 \in 0 .. 1
  <2>1. Counted(r1, r2) = {"BtoA"}
    BY <1>5
  <2> QED
    BY <2>1
<1>6. CASE r1 \in 2 .. 4 /\ r2 \in 5 .. 8
  <2>1. Counted(r1, r2) = {"BtoC"}
    BY <1>6
  <2> QED
    BY <2>1
<1>7. CASE r1 \in 5 .. 8 /\ r2 \in 0 .. 1
  <2>1. Counted(r1, r2) = {"CtoA"}
    BY <1>7
  <2> QED
    BY <2>1
<1>8. CASE r1 \in 5 .. 8 /\ r2 \in 2 .. 4
  <2>1. Counted(r1, r2) = {"CtoB"}
    BY <1>8
  <2> QED
    BY <2>1
<1> QED
  BY <1>1, <1>2, <1>3, <1>4, <1>5, <1>6, <1>7, <1>8

(***************************************************************************)
(* One counter more by one is one packet more.                             *)
(***************************************************************************)
LEMMA GeneratedStep ==
  ASSUME NEW c \in [Pair -> Nat], NEW p \in Pair
  PROVE  /\ [c EXCEPT ![p] = @ + 1] \in [Pair -> Nat]
         /\ Generated([c EXCEPT ![p] = @ + 1]) = Generated(c) + 1
         /\ Generated(c) \in Nat
  BY DEF Generated, Pair

Packet == [id : 1 .. MaxPacket, dest : Dest, ttl : TTLs]

(***************************************************************************)
(* The packet about to be sent has a number and a destination.             *)
(***************************************************************************)
DrawnInv ==
  /\ gen \in {"draw", "send"} =>
       Packet_ID \in 1 .. MaxPacket /\ randi1 \in Source /\ randi2 \in Dest
  /\ gen = "send" => ~ SameNetwork(randi1, randi2)

(***************************************************************************)
(* Every step keeps what is drawn.                                         *)
(***************************************************************************)
LEMMA DrawnStep == TypeOK /\ DrawnInv /\ [Next]_vars => DrawnInv'
<1> SUFFICES ASSUME TypeOK, DrawnInv, [Next]_vars PROVE DrawnInv'
  OBVIOUS
<1>a. /\ Packet_ID \in 0 .. MaxPacket /\ MaxPacket \in Nat
      /\ randi1 \in 0 .. 8 /\ randi2 \in 0 .. 9
  BY PktGenAssumption DEF TypeOK
<1> USE <1>a DEF DrawnInv, genVars, RouterDrops
<1>1. ASSUME NewPacket, UNCHANGED routerVars PROVE DrawnInv'
  BY <1>1 DEF NewPacket
<1>2. ASSUME Redraw, UNCHANGED routerVars PROVE DrawnInv'
  BY <1>2 DEF Redraw
<1>3. ASSUME Count, UNCHANGED routerVars PROVE DrawnInv'
  BY <1>3 DEF Count
<1>4. ASSUME Send, UNCHANGED routerVars PROVE DrawnInv'
  BY <1>4 DEF Send
<1>5. ASSUME WriteLog, UNCHANGED routerVars PROVE DrawnInv'
  BY <1>5 DEF WriteLog
<1>6. ASSUME Finish, UNCHANGED routerVars PROVE DrawnInv'
  BY <1>6 DEF Finish
<1>7. ASSUME sig_handler, UNCHANGED routerVars PROVE DrawnInv'
  BY <1>7 DEF sig_handler
<1>8. ASSUME Bind, RouterDrops PROVE DrawnInv'
  BY <1>8 DEF Bind
<1>9. ASSUME Receive, RouterDrops PROVE DrawnInv'
  BY <1>9 DEF Receive
<1>10. ASSUME Decide, RouterDrops PROVE DrawnInv'
  BY <1>10 DEF Decide
<1>11. ASSUME ReceiveFails, RouterDrops PROVE DrawnInv'
  BY <1>11 DEF ReceiveFails
<1>12. ASSUME update_log, RouterDrops PROVE DrawnInv'
  BY <1>12 DEF update_log
<1>13. ASSUME sig_handler_2, RouterDrops PROVE DrawnInv'
  BY <1>13 DEF sig_handler_2
<1>14. CASE UNCHANGED vars
  BY <1>14 DEF vars
<1> QED
  BY <1>1, <1>2, <1>3, <1>4, <1>5, <1>6, <1>7, <1>8, <1>9, <1>10,
     <1>11, <1>12, <1>13, <1>14
  DEF Next, GenNext, GenMain, RouterNext, RouterDrops

(***************************************************************************)
(* Every step keeps the types.                                             *)
(***************************************************************************)
LEMMA TypeStep == TypeOK /\ DrawnInv /\ [Next]_vars => TypeOK'
<1> SUFFICES ASSUME TypeOK, DrawnInv, [Next]_vars PROVE TypeOK'
  OBVIOUS
<1> DEFINE T ==
      /\ Packet_ID \in 0 .. MaxPacket
      /\ randi1 \in 0 .. 8 /\ randi2 \in 0 .. 9
      /\ count \in [Pair -> Nat] /\ genLog \in [Pair -> Nat]
      /\ genStop \in {0, 1}
      /\ gen \in {"loop", "draw", "send", "log", "end"}
      /\ counter \in 0 .. LogEvery - 1
      /\ stat \in [Decision -> Nat] /\ routerLog \in [Decision -> Nat]
      /\ router \in {"start", "recv", "decide", "log", "exit"}
      /\ buf \in Seq(Packet)
      /\ Len(buf) = IF router = "decide" THEN 1 ELSE 0
      /\ queue \in Seq(Packet)
      /\ Len(queue) <= QueueLen
      /\ listening \in BOOLEAN
      /\ dropped \in Nat
<1>t. T
  BY DEF TypeOK, Packet
<1> SUFFICES T'
  BY DEF TypeOK, Packet
<1>a. (counter + 1) % LogEvery \in 0 .. LogEvery - 1
  BY <1>t, PktGenAssumption
<1> USE <1>t, PktGenAssumption DEF genVars, routerVars, RouterDrops
<1>1. ASSUME NewPacket, UNCHANGED routerVars PROVE T'
  BY <1>1 DEF NewPacket
<1>2. ASSUME Redraw, UNCHANGED routerVars PROVE T'
  BY <1>2 DEF Redraw
<1>3. ASSUME Count, UNCHANGED routerVars PROVE T'
  <2>1. PICK p \in Pair : Counted(randi1, randi2) = {p}
    BY <1>3, CountedOnce DEF Count
  <2>2. count' = [count EXCEPT ![p] = @ + 1]
    BY <1>3, <2>1 DEF Count
  <2>3. count' \in [Pair -> Nat]
    BY <2>2, GeneratedStep
  <2> QED
    BY <1>3, <2>3 DEF Count
<1>4. ASSUME Send, UNCHANGED routerVars PROVE T'
  <2>1. PICK ttl \in TTLs :
          LET packet == [id |-> Packet_ID, dest |-> randi2, ttl |-> ttl]
          IN  IF listening /\ Len(queue) < QueueLen
                THEN queue' = Append(queue, packet) /\ UNCHANGED dropped
                ELSE dropped' = dropped + 1 /\ UNCHANGED queue
    BY <1>4 DEF Send
  <2> DEFINE packet == [id |-> Packet_ID, dest |-> randi2, ttl |-> ttl]
  <2>2. packet \in Packet
    BY <1>4 DEF Send, Packet, DrawnInv
  <2> HIDE DEF packet
  <2>3. /\ queue' \in Seq(Packet) /\ Len(queue') <= QueueLen
        /\ dropped' \in Nat
    <3>1. CASE listening /\ Len(queue) < QueueLen
      <4>1. queue' = Append(queue, packet) /\ dropped' = dropped
        BY <2>1, <3>1 DEF packet
      <4> QED
        BY <2>2, <3>1, <4>1
    <3>2. CASE ~ (listening /\ Len(queue) < QueueLen)
      BY <2>1, <3>2
    <3> QED
      BY <3>1, <3>2
  <2> QED
    BY <1>4, <2>3 DEF Send
<1>5. ASSUME WriteLog, UNCHANGED routerVars PROVE T'
  BY <1>5 DEF WriteLog
<1>6. ASSUME Finish, UNCHANGED routerVars PROVE T'
  BY <1>6 DEF Finish
<1>7. ASSUME sig_handler, UNCHANGED routerVars PROVE T'
  BY <1>7 DEF sig_handler
<1>8. ASSUME Bind, RouterDrops PROVE T'
  BY <1>8 DEF Bind
<1>9. ASSUME Receive, RouterDrops PROVE T'
  <2>1. queue' \in Seq(Packet) /\ Len(queue') <= QueueLen
    BY <1>9 DEF Receive
  <2>2. buf' \in Seq(Packet) /\ Len(buf') = 1
    <3>1. Head(queue) \in Packet
      BY <1>9 DEF Receive
    <3> QED
      BY <1>9, <3>1 DEF Receive
  <2>3. router' = "decide" /\ counter' = (counter + 1) % LogEvery
        /\ UNCHANGED <<genVars, stat, routerLog, listening, dropped>>
    BY <1>9 DEF Receive
  <2> QED
    BY <1>a, <2>1, <2>2, <2>3
<1>10. ASSUME Decide, RouterDrops PROVE T'
  <2>1. PICK d \in Make_Decision(Head(buf)) : stat' = [stat EXCEPT ![d] = @ + 1]
    BY <1>10 DEF Decide
  <2>2. d \in Decision
    BY <2>1, DecisionType
  <2>3. stat' \in [Decision -> Nat]
    BY <2>1, <2>2, DecidedStep
  <2>4. /\ buf' = <<>> /\ router' = "log"
        /\ UNCHANGED <<genVars, counter, routerLog, queue, listening, dropped>>
    BY <1>10 DEF Decide
  <2>5. buf' \in Seq(Packet) /\ Len(buf') = 0
    BY <2>4
  <2> QED
    BY <2>3, <2>4, <2>5
<1>11. ASSUME ReceiveFails, RouterDrops PROVE T'
  BY <1>a, <1>11 DEF ReceiveFails
<1>12. ASSUME update_log, RouterDrops PROVE T'
  BY <1>12 DEF update_log
<1>13. ASSUME sig_handler_2, RouterDrops PROVE T'
  <2>1. queue' \in Seq(Packet) /\ Len(queue') = 0
    BY <1>13 DEF sig_handler_2
  <2>2. Len(queue) \in Nat /\ Len(buf) \in Nat
    OBVIOUS
  <2>3. dropped' = dropped + Len(queue) + Len(buf)
    BY <1>13 DEF sig_handler_2
  <2>4. dropped' \in Nat /\ Len(queue') <= QueueLen
    BY <2>1, <2>2, <2>3
  <2>6. buf' \in Seq(Packet) /\ Len(buf') = 0
    BY <1>13 DEF sig_handler_2
  <2>5. /\ router' = "exit" /\ listening' = FALSE
        /\ UNCHANGED <<genVars, counter, stat, routerLog>>
    BY <1>13 DEF sig_handler_2
  <2> QED
    BY <2>1, <2>4, <2>5, <2>6
<1>14. CASE UNCHANGED vars
  BY <1>14 DEF vars
<1> QED
  BY <1>1, <1>2, <1>3, <1>4, <1>5, <1>6, <1>7, <1>8, <1>9, <1>10,
     <1>11, <1>12, <1>13, <1>14
  DEF Next, GenNext, GenMain, RouterNext, RouterDrops

(***************************************************************************)
(* Every step keeps the balance of the packets.                            *)
(***************************************************************************)
LEMMA BalanceStep ==
  TypeOK /\ DrawnInv /\ EveryPacketDecided /\ [Next]_vars => EveryPacketDecided'
<1> SUFFICES ASSUME TypeOK, DrawnInv, EveryPacketDecided, [Next]_vars
             PROVE  EveryPacketDecided'
  OBVIOUS
<1>a. /\ stat \in [Decision -> Nat] /\ queue \in Seq(Packet)
      /\ Len(buf) = IF router = "decide" THEN 1 ELSE 0
  BY DEF TypeOK, Packet
<1>b. /\ Decided(stat) \in Nat /\ Len(queue) \in Nat /\ dropped \in Nat
      /\ Packet_ID \in Nat /\ Len(buf) \in Nat
  <2>1. Decided(stat) \in Nat
    BY <1>a DEF Decided, Decision
  <2> QED
    BY <1>a, <2>1 DEF TypeOK
<1>c. \A s, t : s = t => Decided(s) = Decided(t)
  OBVIOUS
<1> USE <1>b, <1>c DEF EveryPacketDecided, genVars, routerVars, RouterDrops
<1>1. ASSUME NewPacket, UNCHANGED routerVars PROVE EveryPacketDecided'
  BY <1>1 DEF NewPacket
<1>2. ASSUME Redraw, UNCHANGED routerVars PROVE EveryPacketDecided'
  BY <1>2 DEF Redraw
<1>3. ASSUME Count, UNCHANGED routerVars PROVE EveryPacketDecided'
  BY <1>3 DEF Count
<1>4. ASSUME Send, UNCHANGED routerVars PROVE EveryPacketDecided'
  <2>1. \/ Len(queue') = Len(queue) + 1 /\ dropped' = dropped
        \/ queue' = queue /\ dropped' = dropped + 1
    <3>1. PICK ttl \in TTLs :
            LET packet == [id |-> Packet_ID, dest |-> randi2, ttl |-> ttl]
            IN  IF listening /\ Len(queue) < QueueLen
                  THEN queue' = Append(queue, packet) /\ UNCHANGED dropped
                  ELSE dropped' = dropped + 1 /\ UNCHANGED queue
      BY <1>4 DEF Send
    <3> DEFINE packet == [id |-> Packet_ID, dest |-> randi2, ttl |-> ttl]
    <3>2. packet \in Packet
      BY <1>4 DEF Send, Packet, DrawnInv
    <3> HIDE DEF packet
    <3>3. \/ queue' = Append(queue, packet) /\ dropped' = dropped
          \/ queue' = queue /\ dropped' = dropped + 1
      BY <3>1 DEF packet
    <3> QED
      BY <1>a, <3>2, <3>3
  <2>2. /\ gen = "send" /\ gen' \in {"log", "loop"} /\ Packet_ID' = Packet_ID
        /\ stat' = stat
    BY <1>4 DEF Send
  <2>3. Decided(stat') = Decided(stat) /\ Len(buf') = Len(buf)
    BY <1>4, <2>2
  <2>4. Decided(stat) + Len(queue) + Len(buf) + dropped = Packet_ID - 1
    BY <2>2
  <2>5. Decided(stat') + Len(queue') + Len(buf') + dropped' = Packet_ID'
    <3>1. CASE Len(queue') = Len(queue) + 1 /\ dropped' = dropped
      BY <2>2, <2>3, <2>4, <3>1
    <3>2. CASE queue' = queue /\ dropped' = dropped + 1
      <4>1. Len(queue') = Len(queue)
        BY <3>2
      <4> QED
        BY <2>2, <2>3, <2>4, <3>2, <4>1
    <3> QED
      BY <2>1, <3>1, <3>2
  <2> QED
    BY <2>2, <2>5
<1>5. ASSUME WriteLog, UNCHANGED routerVars PROVE EveryPacketDecided'
  BY <1>5 DEF WriteLog
<1>6. ASSUME Finish, UNCHANGED routerVars PROVE EveryPacketDecided'
  BY <1>6 DEF Finish
<1>7. ASSUME sig_handler, UNCHANGED routerVars PROVE EveryPacketDecided'
  BY <1>7 DEF sig_handler
<1>8. ASSUME Bind, RouterDrops PROVE EveryPacketDecided'
  BY <1>8 DEF Bind
<1>9. ASSUME Receive, RouterDrops PROVE EveryPacketDecided'
  <2>1. Len(queue') = Len(queue) - 1
    BY <1>a, <1>9 DEF Receive
  <2>2. Len(buf) = 0 /\ Len(buf') = 1
    BY <1>a, <1>9 DEF Receive
  <2>3. Decided(stat') = Decided(stat)
    BY <1>9 DEF Receive
  <2> QED
    BY <1>9, <2>1, <2>2, <2>3 DEF Receive
<1>10. ASSUME Decide, RouterDrops PROVE EveryPacketDecided'
  <2>1. PICK d \in Make_Decision(Head(buf)) : stat' = [stat EXCEPT ![d] = @ + 1]
    BY <1>10 DEF Decide
  <2>2. d \in Decision
    BY <2>1, DecisionType
  <2>3. Decided(stat') = Decided(stat) + 1
    BY <1>a, <2>1, <2>2, DecidedStep
  <2>4. Len(buf) = 1 /\ Len(buf') = 0
    BY <1>a, <1>10 DEF Decide
  <2> QED
    BY <1>10, <2>3, <2>4 DEF Decide
<1>11. ASSUME ReceiveFails, RouterDrops PROVE EveryPacketDecided'
  BY <1>11 DEF ReceiveFails
<1>12. ASSUME update_log, RouterDrops PROVE EveryPacketDecided'
  BY <1>12 DEF update_log
<1>13. ASSUME sig_handler_2, RouterDrops PROVE EveryPacketDecided'
  <2>1. /\ Len(queue') = 0 /\ Len(buf') = 0
        /\ dropped' = dropped + Len(queue) + Len(buf)
    BY <1>13 DEF sig_handler_2
  <2> QED
    BY <1>13, <2>1 DEF sig_handler_2
<1>14. CASE UNCHANGED vars
  BY <1>14 DEF vars
<1> QED
  BY <1>1, <1>2, <1>3, <1>4, <1>5, <1>6, <1>7, <1>8, <1>9, <1>10,
     <1>11, <1>12, <1>13, <1>14
  DEF Next, GenNext, GenMain, RouterNext, RouterDrops

(***************************************************************************)
(* Each packet drawn and accepted has been counted once, and what is       *)
(* logged at the end are the counters.                                     *)
(***************************************************************************)
GeneratedInv ==
  /\ Generated(count) = Packet_ID - (IF gen = "draw" THEN 1 ELSE 0)
  /\ gen = "end" => genLog = count

(***************************************************************************)
(* Every step of the generator keeps its count.                            *)
(***************************************************************************)
LEMMA GeneratedKeeps ==
  TypeOK /\ GeneratedInv /\ [Next]_vars => GeneratedInv'
<1> SUFFICES ASSUME TypeOK, GeneratedInv, [Next]_vars PROVE GeneratedInv'
  OBVIOUS
<1>a. /\ count \in [Pair -> Nat] /\ randi1 \in 0 .. 8 /\ randi2 \in 0 .. 9
  BY DEF TypeOK
<1>b. Generated(count) \in Nat /\ Packet_ID \in Nat
  <2>1. Generated(count) \in Nat
    BY <1>a DEF Generated, Pair
  <2> QED
    BY <2>1 DEF TypeOK
<1> USE <1>b DEF GeneratedInv, genVars, RouterDrops
<1>1. ASSUME NewPacket, UNCHANGED routerVars PROVE GeneratedInv'
  BY <1>1 DEF NewPacket
<1>2. ASSUME Redraw, UNCHANGED routerVars PROVE GeneratedInv'
  BY <1>2 DEF Redraw
<1>3. ASSUME Count, UNCHANGED routerVars PROVE GeneratedInv'
  <2>1. PICK p \in Pair : Counted(randi1, randi2) = {p}
    BY <1>a, <1>3, CountedOnce DEF Count
  <2>2. count' = [count EXCEPT ![p] = @ + 1]
    BY <1>a, <1>3, <2>1 DEF Count
  <2>3. Generated(count') = Generated(count) + 1
    BY <1>a, <2>2, GeneratedStep
  <2> QED
    BY <1>3, <2>3 DEF Count
<1>4. ASSUME Send, UNCHANGED routerVars PROVE GeneratedInv'
  BY <1>4 DEF Send
<1>5. ASSUME WriteLog, UNCHANGED routerVars PROVE GeneratedInv'
  BY <1>5 DEF WriteLog
<1>6. ASSUME Finish, UNCHANGED routerVars PROVE GeneratedInv'
  BY <1>6 DEF Finish
<1>7. ASSUME sig_handler, UNCHANGED routerVars PROVE GeneratedInv'
  BY <1>7 DEF sig_handler
<1>8. ASSUME Bind, RouterDrops PROVE GeneratedInv'
  BY <1>8 DEF Bind
<1>9. ASSUME Receive, RouterDrops PROVE GeneratedInv'
  BY <1>9 DEF Receive
<1>10. ASSUME Decide, RouterDrops PROVE GeneratedInv'
  BY <1>10 DEF Decide
<1>11. ASSUME ReceiveFails, RouterDrops PROVE GeneratedInv'
  BY <1>11 DEF ReceiveFails
<1>12. ASSUME update_log, RouterDrops PROVE GeneratedInv'
  BY <1>12 DEF update_log
<1>13. ASSUME sig_handler_2, RouterDrops PROVE GeneratedInv'
  BY <1>13 DEF sig_handler_2
<1>14. CASE UNCHANGED vars
  BY <1>14 DEF vars
<1> QED
  BY <1>1, <1>2, <1>3, <1>4, <1>5, <1>6, <1>7, <1>8, <1>9, <1>10,
     <1>11, <1>12, <1>13, <1>14
  DEF Next, GenNext, GenMain, RouterNext, RouterDrops

(***************************************************************************)
(* Each round of the router brings its counter one nearer to the next log, *)
(* and at most one decision.                                               *)
(***************************************************************************)
LagInv ==
  LET lag == Decided(stat) - Decided(routerLog)
  IN  /\ router \in {"start", "recv"} => lag <= counter
      /\ router = "decide" => counter = 0 \/ lag <= counter - 1
      /\ router = "log" => counter = 0 \/ lag <= counter

(***************************************************************************)
(* Every step keeps the lag below the counter.                             *)
(***************************************************************************)
LEMMA LagStep == TypeOK /\ LagInv /\ [Next]_vars => LagInv'
<1> SUFFICES ASSUME TypeOK, LagInv, [Next]_vars PROVE LagInv'
  OBVIOUS
<1>a. /\ stat \in [Decision -> Nat] /\ routerLog \in [Decision -> Nat]
      /\ counter \in 0 .. LogEvery - 1
      /\ router \in {"start", "recv", "decide", "log", "exit"}
  BY DEF TypeOK
<1>b. /\ Decided(stat) \in Nat /\ Decided(routerLog) \in Nat /\ counter \in Nat
  BY <1>a, PktGenAssumption DEF Decided, Decision
<1>c. (counter + 1) % LogEvery = 0 \/ (counter + 1) % LogEvery = counter + 1
  <2>1. CASE counter + 1 < LogEvery
    BY <1>a, <2>1, PktGenAssumption
  <2>2. CASE counter + 1 = LogEvery
    <3>1. LogEvery % LogEvery = 0
      BY PktGenAssumption
    <3> QED
      BY <2>2, <3>1
  <2> QED
    BY <1>a, <2>1, <2>2, PktGenAssumption
<1> USE <1>b DEF LagInv, genVars, routerVars, RouterDrops
<1>1. ASSUME NewPacket, UNCHANGED routerVars PROVE LagInv'
  BY <1>1 DEF NewPacket
<1>2. ASSUME Redraw, UNCHANGED routerVars PROVE LagInv'
  BY <1>2 DEF Redraw
<1>3. ASSUME Count, UNCHANGED routerVars PROVE LagInv'
  BY <1>3 DEF Count
<1>4. ASSUME Send, UNCHANGED routerVars PROVE LagInv'
  BY <1>4 DEF Send
<1>5. ASSUME WriteLog, UNCHANGED routerVars PROVE LagInv'
  BY <1>5 DEF WriteLog
<1>6. ASSUME Finish, UNCHANGED routerVars PROVE LagInv'
  BY <1>6 DEF Finish
<1>7. ASSUME sig_handler, UNCHANGED routerVars PROVE LagInv'
  BY <1>7 DEF sig_handler
<1>8. ASSUME Bind, RouterDrops PROVE LagInv'
  BY <1>8 DEF Bind
<1>9. ASSUME Receive, RouterDrops PROVE LagInv'
  <2>1. /\ router = "recv" /\ router' = "decide" /\ routerLog' = routerLog /\ stat' = stat
        /\ counter' = (counter + 1) % LogEvery
    BY <1>9 DEF Receive
  <2>2. counter' = 0 \/ counter' = counter + 1
    BY <1>c, <2>1
  <2> QED
    BY <2>1, <2>2
<1>10. ASSUME Decide, RouterDrops PROVE LagInv'
  <2>1. PICK d \in Make_Decision(Head(buf)) : stat' = [stat EXCEPT ![d] = @ + 1]
    BY <1>10 DEF Decide
  <2>2. d \in Decision
    BY <2>1, DecisionType
  <2>3. Decided(stat') = Decided(stat) + 1
    BY <1>a, <2>1, <2>2, DecidedStep
  <2>4. /\ router = "decide" /\ router' = "log" /\ routerLog' = routerLog
        /\ counter' = counter
    BY <1>10 DEF Decide
  <2> QED
    BY <2>3, <2>4
<1>11. ASSUME ReceiveFails, RouterDrops PROVE LagInv'
  <2>1. /\ router = "recv" /\ router' = "log" /\ routerLog' = routerLog /\ stat' = stat
        /\ counter' = (counter + 1) % LogEvery
    BY <1>11 DEF ReceiveFails
  <2>2. counter' = 0 \/ counter' = counter + 1
    BY <1>c, <2>1
  <2> QED
    BY <2>1, <2>2
<1>12. ASSUME update_log, RouterDrops PROVE LagInv'
  BY <1>12 DEF update_log
<1>13. ASSUME sig_handler_2, RouterDrops PROVE LagInv'
  BY <1>13 DEF sig_handler_2
<1>14. CASE UNCHANGED vars
  BY <1>14 DEF vars
<1> QED
  BY <1>1, <1>2, <1>3, <1>4, <1>5, <1>6, <1>7, <1>8, <1>9, <1>10,
     <1>11, <1>12, <1>13, <1>14
  DEF Next, GenNext, GenMain, RouterNext, RouterDrops

IInv == TypeOK /\ DrawnInv /\ EveryPacketDecided /\ GeneratedInv /\ LagInv

(***************************************************************************)
(* It all holds in every state.                                            *)
(***************************************************************************)
LEMMA Inductive == Spec => []IInv
<1>1. Init => IInv
  <2> SUFFICES ASSUME Init PROVE IInv
    OBVIOUS
  <2> USE DEF Init, GenInit, RouterInit
  <2>1. /\ count \in [Pair -> Nat] /\ genLog \in [Pair -> Nat] /\ Generated(count) = 0
    BY DEF Generated, Pair
  <2>2. /\ stat \in [Decision -> Nat] /\ routerLog \in [Decision -> Nat]
        /\ Decided(stat) = 0 /\ Decided(routerLog) = 0
    BY DEF Decided, Decision
  <2>3. /\ queue \in Seq([id : 1 .. MaxPacket, dest : Dest, ttl : TTLs]) /\ Len(queue) = 0
        /\ buf \in Seq([id : 1 .. MaxPacket, dest : Dest, ttl : TTLs]) /\ Len(buf) = 0
    OBVIOUS
  <2>4. counter \in 0 .. LogEvery - 1 /\ counter \in Nat
    BY PktGenAssumption
  <2>a. /\ Packet_ID = 0 /\ randi1 = 0 /\ randi2 = 0 /\ genStop = 1 /\ gen = "loop"
        /\ dropped = 0 /\ router = "start" /\ listening = FALSE
    OBVIOUS
  <2>b. /\ 0 \in 0 .. MaxPacket /\ 0 <= QueueLen
    BY PktGenAssumption
  <2> HIDE DEF Init, GenInit, RouterInit
  <2>c. Packet_ID \in 0 .. MaxPacket /\ randi1 \in 0 .. 8 /\ randi2 \in 0 .. 9
    BY <2>a, <2>b
  <2>d. genStop \in {0, 1} /\ gen \in {"loop", "draw", "send", "log", "end"}
    BY <2>a
  <2>e. router \in {"start", "recv", "decide", "log", "exit"} /\ dropped \in Nat
    BY <2>a
  <2>h. Len(buf) = IF router = "decide" THEN 1 ELSE 0
    BY <2>3, <2>a
  <2>f. listening \in BOOLEAN
    BY <2>a
  <2>g. Len(queue) <= QueueLen
    BY <2>b, <2>3
  <2>5. TypeOK
    BY <2>1, <2>2, <2>3, <2>4, <2>c, <2>d, <2>e, <2>f, <2>g, <2>h DEF TypeOK
  <2>6. DrawnInv
    BY <2>a DEF DrawnInv
  <2>7. EveryPacketDecided
    <3>1. Packet_ID - (IF gen \in {"draw", "send"} THEN 1 ELSE 0) = 0
      <4>1. gen \notin {"draw", "send"} /\ Packet_ID = 0
        BY <2>a
      <4>2. (IF gen \in {"draw", "send"} THEN 1 ELSE 0) = 0
        BY <4>1
      <4>3. 0 - 0 = 0
        OBVIOUS
      <4> QED
        BY <4>1, <4>2, <4>3, Zenon
    <3>2. Decided(stat) + Len(queue) + Len(buf) + dropped = 0
      BY <2>2, <2>3, <2>a
    <3> QED
      BY <3>1, <3>2 DEF EveryPacketDecided
  <2>8. GeneratedInv
    BY <2>a, <2>1 DEF GeneratedInv
  <2>9. LagInv
    BY <2>2, <2>4, <2>a DEF LagInv
  <2> QED
    BY <2>5, <2>6, <2>7, <2>8, <2>9 DEF IInv
<1>2. IInv /\ [Next]_vars => IInv'
  BY TypeStep, DrawnStep, BalanceStep, GeneratedKeeps, LagStep DEF IInv
<1> QED
  BY <1>1, <1>2, PTL DEF Spec

(***************************************************************************)
(* No packet is counted twice or lost unnoticed, for any number of packets *)
(* and a socket buffer of any size. (Make_Decision, router.c:224)          *)
(***************************************************************************)
THEOREM PacketsBalance == Spec => []EveryPacketDecided
  BY Inductive, PTL DEF IInv

(***************************************************************************)
(* The router's log is never LogEvery decisions behind while the router    *)
(* waits, whatever its counter started with. (router.c:111 and 122)        *)
(***************************************************************************)
THEOREM LogKeepsUp == Spec => []LogLagBounded
<1>1. IInv => LogLagBounded
  <2> SUFFICES ASSUME IInv, router = "recv" PROVE Decided(stat) - Decided(routerLog) < LogEvery
    BY DEF LogLagBounded
  <2>1. /\ Decided(stat) \in Nat /\ Decided(routerLog) \in Nat
    <3>1. stat \in [Decision -> Nat] /\ routerLog \in [Decision -> Nat]
      BY DEF IInv, TypeOK
    <3>2. "expired" \in Decision
      BY DEF Decision
    <3> QED
      BY <3>1, <3>2, DecidedStep
  <2>2. counter \in 0 .. LogEvery - 1 /\ LogEvery \in Nat
    BY PktGenAssumption DEF IInv, TypeOK
  <2>3. Decided(stat) - Decided(routerLog) <= counter
    BY DEF IInv, LagInv
  <2> QED
    BY <2>1, <2>2, <2>3
<1> QED
  BY <1>1, Inductive, PTL

(***************************************************************************)
(* The generator's last log holds its counters, and they count every       *)
(* packet once: drawing again and counting agree for every pair of hosts.  *)
(* (pktgen.c:82, 97 and 176)                                               *)
(***************************************************************************)
THEOREM GeneratorCountsAll == Spec => []GeneratorSaves
<1>1. IInv => GeneratorSaves
  <2> SUFFICES ASSUME IInv, gen = "end" PROVE genLog = count /\ Generated(genLog) = Packet_ID
    BY DEF GeneratorSaves
  <2>1. genLog = count /\ Generated(count) = Packet_ID - 0
    BY DEF IInv, GeneratedInv
  <2>2. Packet_ID \in Int
    BY DEF IInv, TypeOK
  <2> QED
    BY <2>1, <2>2
<1> QED
  BY <1>1, Inductive, PTL

(***************************************************************************)
(* Every counter, the socket buffer and the packet about to be sent keep   *)
(* their types: what is generated always is a packet the router can look up. *)
(* (pktgen.c:82, router.c:192)                                             *)
(***************************************************************************)
THEOREM TypeCorrect == Spec => []TypeOK
  BY Inductive, PTL DEF IInv
-----------------------------------------------------------------------------
(***************************************************************************)
(* A set of naturals that is not empty has a least member.                 *)
(***************************************************************************)
LEMMA Least ==
  ASSUME NEW T \in SUBSET Nat, T # {}
  PROVE  \E n \in T : \A m \in T : n <= m
<1> DEFINE R == {ss \in Nat \X Nat : ss[1] < ss[2]}
<1>1. IsWellFoundedOn(R, Nat)
  BY NatLessThanWellFounded DEF OpToRel
<1>2. PICK n \in T : \A m \in T : ~ (<<m, n>> \in R)
  <2> HIDE DEF R
  <2> QED
    BY <1>1, WFMin
<1>3. ASSUME NEW m \in T PROVE n <= m
  <2>1. <<m, n>> \in Nat \X Nat
    BY <1>2
  <2>2. ~ (m < n)
    BY <1>2, <2>1
  <2> QED
    BY <2>2
<1> QED
  BY <1>2, <1>3

(***************************************************************************)
(* Induction on the naturals, for the members of a set.                    *)
(***************************************************************************)
LEMMA EveryNat ==
  ASSUME NEW T, 0 \in T, \A n \in Nat : n \in T => n + 1 \in T
  PROVE  Nat \subseteq T
<1> DEFINE U == {n \in Nat : n \notin T}
<1> SUFFICES ASSUME U # {} PROVE FALSE
  OBVIOUS
<1>1. PICK n \in U : \A m \in U : n <= m
  BY Least
<1>2. n # 0 /\ n - 1 \in Nat /\ ~ (n - 1 \in U)
  BY <1>1
<1> QED
  BY <1>1, <1>2

\* The powers of two up to the n-th.
Powers(n) == CHOOSE p : p = [k \in 0 .. n |-> IF k = 0 THEN 1 ELSE 2 * p[k - 1]]

(***************************************************************************)
(* The powers up to any n exist.                                           *)
(***************************************************************************)
LEMMA PowersObey ==
  \A n \in Nat : Powers(n) = [k \in 0 .. n |-> IF k = 0 THEN 1 ELSE 2 * Powers(n)[k - 1]]
<1> DEFINE Obeys(p, n) == p = [k \in 0 .. n |-> IF k = 0 THEN 1 ELSE 2 * p[k - 1]]
           T == {n \in Nat : \E p : Obeys(p, n)}
<1>1. 0 \in T
  <2>1. Obeys([k \in 0 .. 0 |-> 1], 0)
    OBVIOUS
  <2> QED
    BY <2>1, Zenon
<1>2. ASSUME NEW n \in Nat, n \in T PROVE n + 1 \in T
  <2>1. PICK p : Obeys(p, n)
    BY <1>2
  <2> DEFINE q == [k \in 0 .. n + 1 |-> IF k = n + 1 THEN 2 * p[n] ELSE p[k]]
  <2>2. \A k \in 0 .. n + 1 : q[k] = IF k = 0 THEN 1 ELSE 2 * q[k - 1]
    BY <2>1
  <2>3. Obeys(q, n + 1)
    BY <2>2
  <2>4. n + 1 \in Nat
    OBVIOUS
  <2> QED
    BY <2>3, <2>4, Zenon
<1>3. Nat \subseteq T
  <2> HIDE DEF T
  <2> QED
    BY <1>1, <1>2, EveryNat
<1>4. \A n \in Nat : \E p : Obeys(p, n)
  BY <1>3
<1> QED
  BY <1>4, Zenon DEF Powers

(***************************************************************************)
(* The powers up to n + 1 go on with those up to n.                        *)
(***************************************************************************)
LEMMA PowersAgree ==
  ASSUME NEW n \in Nat PROVE \A k \in 0 .. n : Powers(n + 1)[k] = Powers(n)[k]
<1> DEFINE T == {k \in Nat : k <= n => Powers(n + 1)[k] = Powers(n)[k]}
<1>a. \A k \in 0 .. n : Powers(n)[k] = IF k = 0 THEN 1 ELSE 2 * Powers(n)[k - 1]
  BY PowersObey
<1>b. \A k \in 0 .. n + 1 :
        Powers(n + 1)[k] = IF k = 0 THEN 1 ELSE 2 * Powers(n + 1)[k - 1]
  <2>1. n + 1 \in Nat
    OBVIOUS
  <2> QED
    BY <2>1, PowersObey
<1>1. 0 \in T
  BY <1>a, <1>b
<1>2. ASSUME NEW k \in Nat, k \in T PROVE k + 1 \in T
  BY <1>a, <1>b, <1>2
<1>3. Nat \subseteq T
  <2> HIDE DEF T
  <2> QED
    BY <1>1, <1>2, EveryNat
<1> QED
  BY <1>3

(***************************************************************************)
(* The powers of two are computed by their recursion.                      *)
(***************************************************************************)
LEMMA Pow2Obeys == \A n \in Nat : R!Pow2[n] = IF n = 0 THEN 1 ELSE 2 * R!Pow2[n - 1]
<1> DEFINE pow == [n \in Nat |-> Powers(n)[n]]
           Obeys(p) == p = [n \in Nat |-> IF n = 0 THEN 1 ELSE 2 * p[n - 1]]
<1>1. ASSUME NEW n \in Nat PROVE pow[n] = IF n = 0 THEN 1 ELSE 2 * pow[n - 1]
  <2>1. Powers(n)[n] = IF n = 0 THEN 1 ELSE 2 * Powers(n)[n - 1]
    BY PowersObey
  <2>2. n # 0 => n - 1 \in Nat /\ Powers(n)[n - 1] = Powers(n - 1)[n - 1]
    <3>1. SUFFICES ASSUME n # 0 PROVE n - 1 \in Nat /\ Powers(n)[n - 1] = Powers(n - 1)[n - 1]
      OBVIOUS
    <3>2. n - 1 \in Nat /\ (n - 1) + 1 = n
      BY <3>1
    <3> QED
      BY <3>2, PowersAgree
  <2> QED
    BY <2>1, <2>2
<1>2. Obeys(pow)
  BY <1>1
<1>3. \E p : Obeys(p)
  <2> HIDE DEF pow
  <2> QED
    BY <1>2
<1>4. R!Pow2 = [n \in Nat |-> IF n = 0 THEN 1 ELSE 2 * R!Pow2[n - 1]]
  BY <1>3, Zenon DEF R!Pow2
<1> QED
  BY <1>4, Zenon

(***************************************************************************)
(* They are positive.                                                      *)
(***************************************************************************)
LEMMA Pow2Positive == \A n \in Nat : R!Pow2[n] \in Nat \ {0}
<1> DEFINE T == {n \in Nat : R!Pow2[n] \in Nat \ {0}}
<1>1. 0 \in T
  BY Pow2Obeys
<1>2. ASSUME NEW n \in Nat, n \in T PROVE n + 1 \in T
  <2>1. n + 1 \in Nat /\ n + 1 # 0 /\ (n + 1) - 1 = n
    OBVIOUS
  <2>2. R!Pow2[n + 1] = 2 * R!Pow2[n]
    BY <2>1, Pow2Obeys
  <2> QED
    BY <1>2, <2>1, <2>2
<1>3. Nat \subseteq T
  <2> HIDE DEF T
  <2> QED
    BY <1>1, <1>2, EveryNat
<1> QED
  BY <1>3

(***************************************************************************)
(* Numbers that agree without their low bits agree without one bit more.   *)
(***************************************************************************)
LEMMA HalvesAgree ==
  ASSUME NEW size \in Nat \ {0}, NEW x \in Nat, NEW y \in Nat,
         x \div size = y \div size
  PROVE  x \div (2 * size) = y \div (2 * size)
<1>1. \A z \in Nat : z \div (2 * size) = (z \div size) \div 2
  <2> TAKE z \in Nat
  <2> DEFINE q == z \div size
             r == z % size
             a == q \div 2
             b == q % 2
  <2>1. /\ q \in Nat /\ r \in 0 .. size - 1 /\ z = size * q + r
        /\ a \in Nat /\ b \in 0 .. 1 /\ q = 2 * a + b
    OBVIOUS
  <2> HIDE DEF q, r, a, b
  <2>2. size * q = (2 * size) * a + size * b
    BY <2>1
  <2>3. size * b \in {0, size}
    BY <2>1
  <2>4. /\ z = (2 * size) * a + (size * b + r)
        /\ size * b + r \in 0 .. 2 * size - 1
    BY <2>1, <2>2, <2>3
  <2>5. \A d \in Nat \ {0} : \A m \in 0 .. d - 1 : (d * a + m) \div d = a
    BY <2>1
  <2>6. z \div (2 * size) = a
    BY <2>4, <2>5
  <2> QED
    BY <2>6 DEF a, q
<1> QED
  BY <1>1

(***************************************************************************)
(* An address is an unsigned number. (IPtoDec, router.c:167)               *)
(***************************************************************************)
LEMMA IPtoDecType == \A ip \in R!Address : R!IPtoDec(ip) \in Nat
<1> SUFFICES ASSUME NEW ip \in R!Address PROVE R!IPtoDec(ip) \in Nat
  OBVIOUS
<1>1. \A o \in 1 .. 4 : ip[o] \in Int
  BY DEF R!Address
<1>2. /\ 3 * Octet \in Nat /\ 2 * Octet \in Nat /\ Octet \in Nat /\ R!Width \in Nat
  BY TableAssumption DEF R!Width
<1>3. /\ R!Pow2[3 * Octet] \in Int /\ R!Pow2[2 * Octet] \in Int
      /\ R!Pow2[Octet] \in Int /\ R!Pow2[R!Width] \in Nat \ {0}
  BY <1>2, Pow2Positive
<1>4. \A a, b \in Int : a * b \in Int /\ a + b \in Int
  OBVIOUS
<1>5. \A a \in Int, b \in Nat \ {0} : a % b \in Nat
  OBVIOUS
<1> DEFINE sum == ip[1] * R!Pow2[3 * Octet] + ip[2] * R!Pow2[2 * Octet]
                    + ip[3] * R!Pow2[Octet] + ip[4]
<1>6. sum \in Int
  <2>1. /\ ip[1] * R!Pow2[3 * Octet] \in Int /\ ip[2] * R!Pow2[2 * Octet] \in Int
        /\ ip[3] * R!Pow2[Octet] \in Int /\ ip[4] \in Int
    BY <1>1, <1>3, <1>4
  <2> QED
    BY <1>4, <2>1
<1>7. R!IPtoDec(ip) = sum % R!Pow2[R!Width]
  BY DEF R!IPtoDec
<1> QED
  BY <1>3, <1>5, <1>6, <1>7, Zenon

(***************************************************************************)
(* An entry that holds the hosts of a network, which are more than one,    *)
(* does not compare all bits: its shift is defined.  (router.c:197)        *)
(***************************************************************************)
LEMMA ShiftDefined == \A n \in 0 .. 2 : tables[n].prefix_length \in 0 .. R!Width - 1
<1> SUFFICES ASSUME NEW n \in 0 .. 2, tables[n].prefix_length = R!Width PROVE FALSE
  BY TableAssumption DEF R!Width
<1>1. \A x \in Nat : R!ShiftRight(x, 0) = x
  <2>1. R!Pow2[0] = 1
    BY Pow2Obeys
  <2> QED
    BY <2>1 DEF R!ShiftRight
<1>2. \A h \in 0 .. 9 : R!IPtoDec(IP[h]) \in Nat
  BY TableAssumption, IPtoDecType DEF R!Address
<1>3. R!IPtoDec(tables[n].IP_addr) \in Nat
  BY TableAssumption, IPtoDecType DEF R!Address
<1>4. R!Width - tables[n].prefix_length = 0
  BY TableAssumption DEF R!Width
<1>5. \A h \in 0 .. 9 :
        InBlock(h, tables[n]) => R!IPtoDec(IP[h]) = R!IPtoDec(tables[n].IP_addr)
  BY <1>1, <1>2, <1>3, <1>4 DEF InBlock
<1>6. PICK g \in 0 .. 9, h \in 0 .. 9 : g # h /\ Entry(g) = n /\ Entry(h) = n
  <2>1. /\ Entry(0) = 1 /\ Entry(1) = 1 /\ Entry(2) = 0
        /\ Entry(3) = 0 /\ Entry(5) = 2 /\ Entry(6) = 2
    BY DEF Entry
  <2> QED
    BY <2>1
<1>7. InBlock(g, tables[n]) /\ InBlock(h, tables[n])
  BY <1>6, NetworksAssumption
<1> QED
  BY <1>5, <1>6, <1>7, NetworksAssumption

(***************************************************************************)
(* A host that matches an entry of the table, on one bit more than the     *)
(* entry's prefix, is in the block of the entry.  (Ip_masking,             *)
(* router.c:192)                                                           *)
(***************************************************************************)
LEMMA MasksBlock ==
  ASSUME NEW h \in 0 .. 9, NEW n \in 0 .. 2, TRUE \in R!Ip_masking(IP[h], tables[n])
  PROVE  InBlock(h, tables[n])
<1> DEFINE shift == R!Width - 1 - tables[n].prefix_length
           x == R!IPtoDec(IP[h])
           y == R!IPtoDec(tables[n].IP_addr)
<1>1. shift \in Nat /\ R!Width - tables[n].prefix_length = shift + 1
  BY ShiftDefined, TableAssumption DEF R!Width
<1>2. x \in Nat /\ y \in Nat
  BY TableAssumption, IPtoDecType DEF R!Address
<1>3. R!Pow2[shift] \in Nat \ {0} /\ R!Pow2[shift + 1] = 2 * R!Pow2[shift]
  <2>1. shift + 1 \in Nat /\ shift + 1 # 0 /\ (shift + 1) - 1 = shift
    BY <1>1
  <2> HIDE DEF shift
  <2> QED
    BY <1>1, <2>1, Pow2Obeys, Pow2Positive
<1>4. R!ShiftRight(x, shift) = R!ShiftRight(y, shift)
  <2> DEFINE agree == R!ShiftRight(x, shift) = R!ShiftRight(y, shift)
  <2>1. R!Ip_masking(IP[h], tables[n]) = IF shift < 0 THEN BOOLEAN ELSE {agree}
    BY DEF R!Ip_masking, R!Compared
  <2>2. ~ (shift < 0)
    BY <1>1
  <2> HIDE DEF shift
  <2>3. R!Ip_masking(IP[h], tables[n]) = {agree}
    BY <2>1, <2>2, Zenon
  <2>4. TRUE \in {agree}
    BY <2>3, Zenon
  <2>5. TRUE = agree
    <3> HIDE DEF agree
    <3> QED
      BY <2>4, Zenon
  <2> QED
    BY <2>5, Zenon
<1> HIDE DEF shift, x, y
<1>5. R!ShiftRight(x, shift + 1) = R!ShiftRight(y, shift + 1)
  BY <1>2, <1>3, <1>4, HalvesAgree DEF R!ShiftRight
<1> QED
  BY <1>1, <1>5 DEF InBlock, x, y

\* The counter of the router for each entry.
Routed(n) == CASE n = 0 -> "routerB"
               [] n = 1 -> "delivered"
               [] n = 2 -> "routerC"

(***************************************************************************)
(* A packet that is neither expired nor unroutable goes where its          *)
(* destination is.  (Make_Decision, router.c:224)                          *)
(***************************************************************************)
LEMMA Decides ==
  ASSUME NEW packet, packet.dest \in 0 .. 9, NEW d \in Make_Decision(packet)
  PROVE  \/ d \in {"expired", "unroutable"}
         \/ Entry(packet.dest) \in 0 .. 2 /\ d = Routed(Entry(packet.dest))
<1> SUFFICES ASSUME d \notin {"expired", "unroutable"}
             PROVE  Entry(packet.dest) \in 0 .. 2 /\ d = Routed(Entry(packet.dest))
  OBVIOUS
<1> DEFINE h == packet.dest
<1>1. PICK m \in SUBSET (0 .. 2) :
        /\ \A n \in 0 .. 2 : (n \in m) \in R!Ip_masking(IP[h], tables[n])
        /\ d = LET ri == R!FirstMatch(m)
               IN  CASE ri = 0 -> "routerB"
                     [] ri = 1 -> "delivered"
                     [] ri = 2 -> "routerC"
                     [] ri = 3 -> "unroutable"
  BY DEF Make_Decision
<1>2. PICK ri : ri = R!FirstMatch(m) /\ ri \in 0 .. 3
  BY FirstMatchType
<1>3. ri \in 0 .. 2 /\ d = Routed(ri)
  BY <1>1, <1>2 DEF Routed
<1>4. ri \in m
  <2> DEFINE P(k) == /\ k < 3 => k \in m
                     /\ \A n \in 0 .. k - 1 : n \notin m
  <2>1. P(ri)
    <3>1. \E k \in 0 .. 3 : P(k)
      BY FirstMatchExists
    <3> HIDE DEF P
    <3>2. R!FirstMatch(m) = CHOOSE k \in 0 .. 3 : P(k)
      BY DEF R!FirstMatch, P
    <3> QED
      BY <1>2, <3>1, <3>2
  <2> QED
    BY <1>3, <2>1
<1>5. TRUE \in R!Ip_masking(IP[h], tables[ri])
  <2>1. (ri \in m) = TRUE
    BY <1>4
  <2> QED
    BY <1>1, <1>3, <2>1
<1>6. InBlock(h, tables[ri])
  BY <1>3, <1>5, MasksBlock
<1>7. ri = Entry(h)
  BY <1>3, <1>6, NetworksAssumption
<1> QED
  BY <1>3, <1>7
-----------------------------------------------------------------------------
\* The packets for an entry: those in a queue, and the one counted but not
\* sent; and the packets generated for it.
Heading(q, n) == {i \in DOMAIN q : Entry(q[i].dest) = n}
Waiting(q, n) == Cardinality(Heading(q, n))
Unsent(n)     == IF gen = "send" /\ Entry(randi2) = n THEN 1 ELSE 0
Made(c, n)    == CASE n = 0 -> c["AtoB"] + c["CtoB"]
                   [] n = 1 -> c["BtoA"] + c["CtoA"]
                   [] n = 2 -> c["AtoC"] + c["BtoC"]

\* The entry of the destinations a counter is for.
Aim(p) == CASE p \in {"AtoB", "CtoB"} -> 0
            [] p \in {"BtoA", "CtoA"} -> 1
            [] p \in {"AtoC", "BtoC"} -> 2
            [] p = "Invalid" -> 3

(***************************************************************************)
(* Of the packets generated for an entry, those routed there, still in the *)
(* socket buffer or the router's, or about to be sent are a part: others   *)
(* were dropped, have expired or were found unroutable.                    *)
(***************************************************************************)
AgreeInv == \A n \in 0 .. 2 :
  stat[Routed(n)] + Waiting(queue, n) + Waiting(buf, n) + Unsent(n) <= Made(count, n)

(***************************************************************************)
(* The packets heading somewhere are finitely many.                        *)
(***************************************************************************)
LEMMA WaitingType ==
  ASSUME NEW q \in Seq(Packet), NEW n
  PROVE  IsFiniteSet(Heading(q, n)) /\ Waiting(q, n) \in Nat
<1>1. IsFiniteSet(1 .. Len(q))
  BY FS_Interval
<1>2. Heading(q, n) \in SUBSET (1 .. Len(q))
  BY DEF Heading
<1> QED
  BY <1>1, <1>2, FS_Subset, FS_CardinalityType DEF Waiting

(***************************************************************************)
(* A packet that joins the queue is one more for its entry only.           *)
(***************************************************************************)
LEMMA WaitingAppend ==
  ASSUME NEW q \in Seq(Packet), NEW packet \in Packet, NEW n
  PROVE  Waiting(Append(q, packet), n)
           = Waiting(q, n) + (IF Entry(packet.dest) = n THEN 1 ELSE 0)
<1> DEFINE r == Append(q, packet)
<1>0. /\ r \in Seq(Packet) /\ DOMAIN r = 1 .. Len(q) + 1 /\ Len(q) \in Nat
      /\ r[Len(q) + 1] = packet /\ \A i \in 1 .. Len(q) : r[i] = q[i]
      /\ DOMAIN q = 1 .. Len(q)
  OBVIOUS
<1>1. IsFiniteSet(Heading(q, n)) /\ Waiting(q, n) \in Nat
  BY WaitingType
<1>2. Len(q) + 1 \notin Heading(q, n)
  BY <1>0 DEF Heading
<1> HIDE DEF r
<1>3. CASE Entry(packet.dest) = n
  <2>1. Heading(r, n) = Heading(q, n) \cup {Len(q) + 1}
    BY <1>0, <1>3 DEF Heading
  <2> QED
    BY <1>1, <1>2, <1>3, <2>1, FS_AddElement DEF Waiting, r
<1>4. CASE Entry(packet.dest) # n
  <2>1. Heading(r, n) = Heading(q, n)
    BY <1>0, <1>4 DEF Heading
  <2> QED
    BY <1>1, <1>4, <2>1 DEF Waiting, r
<1> QED
  BY <1>3, <1>4

(***************************************************************************)
(* The packet that leaves the queue is one less for its entry.             *)
(***************************************************************************)
LEMMA WaitingTail ==
  ASSUME NEW q \in Seq(Packet), q # <<>>, NEW n
  PROVE  Waiting(Tail(q), n) + (IF Entry(Head(q).dest) = n THEN 1 ELSE 0) <= Waiting(q, n)
<1> DEFINE r == Tail(q)
           later == [i \in Heading(r, n) |-> i + 1]
<1>0. /\ r \in Seq(Packet) /\ DOMAIN r = 1 .. Len(q) - 1 /\ Len(q) \in Nat
      /\ Head(q) = q[1] /\ \A i \in 1 .. Len(q) - 1 : r[i] = q[i + 1]
      /\ DOMAIN q = 1 .. Len(q) /\ 1 \in DOMAIN q
  OBVIOUS
<1> HIDE DEF r
<1>1. /\ IsFiniteSet(Heading(q, n)) /\ Waiting(q, n) \in Nat
      /\ Waiting(r, n) \in Nat
  BY <1>0, WaitingType
<1>2. /\ IsFiniteSet(Heading(q, n) \ {1})
      /\ Cardinality(Heading(q, n) \ {1})
           = IF 1 \in Heading(q, n) THEN Waiting(q, n) - 1 ELSE Waiting(q, n)
  BY <1>1, FS_RemoveElement DEF Waiting
<1>3. later \in Injection(Heading(r, n), Heading(q, n) \ {1})
  <2>1. \A i \in Heading(r, n) : i \in Nat \ {0} /\ i + 1 \in Heading(q, n) \ {1}
    BY <1>0 DEF Heading
  <2> QED
    BY <2>1 DEF Injection, IsInjective
<1>4. Waiting(r, n) <= Cardinality(Heading(q, n) \ {1})
  BY <1>2, <1>3, FS_Injection DEF Waiting
<1>5. 1 \in Heading(q, n) <=> Entry(Head(q).dest) = n
  BY <1>0 DEF Heading
<1> QED
  BY <1>1, <1>2, <1>4, <1>5 DEF r

(***************************************************************************)
(* A buffer of length one holds its head and nothing else.                 *)
(***************************************************************************)
LEMMA OnePacket ==
  ASSUME NEW q \in Seq(Packet), Len(q) = 1
  PROVE  Head(q) \in Packet /\ q = <<Head(q)>>
<1>1. Head(q) = q[1] /\ q[1] \in Packet
  OBVIOUS
<1>2. /\ <<q[1]>> \in Seq(Packet) /\ Len(<<q[1]>>) = 1
      /\ \A i \in 1 .. Len(q) : q[i] = <<q[1]>>[i]
  BY <1>1
<1>3. q = <<q[1]>>
  BY <1>2, SeqEqual
<1> QED
  BY <1>1, <1>3

(***************************************************************************)
(* What is in hand is one packet or none.                                  *)
(***************************************************************************)
LEMMA WaitingOne ==
  ASSUME NEW packet \in Packet, NEW n
  PROVE  /\ Waiting(<<>>, n) = 0
         /\ Waiting(<<packet>>, n) = IF Entry(packet.dest) = n THEN 1 ELSE 0
<1>1. Waiting(<<>>, n) = 0
  <2>1. Heading(<<>>, n) = {}
    BY DEF Heading
  <2> QED
    BY <2>1, FS_EmptySet DEF Waiting
<1>2. <<>> \in Seq(Packet) /\ <<packet>> = Append(<<>>, packet)
  OBVIOUS
<1>3. Waiting(<<packet>>, n) = Waiting(<<>>, n) + (IF Entry(packet.dest) = n THEN 1 ELSE 0)
  BY <1>2, WaitingAppend
<1> QED
  BY <1>1, <1>3

(***************************************************************************)
(* The counter a packet increments is one of those for the entry of its    *)
(* destination. (pktgen.c:97)                                              *)
(***************************************************************************)
LEMMA CountsEntry ==
  ASSUME NEW r1, NEW r2, NEW p, p \in Counted(r1, r2)
  PROVE  Entry(r2) = Aim(p)
  BY DEF Counted, Entry, Aim

(***************************************************************************)
(* One counter more by one is one packet more for its entry.               *)
(***************************************************************************)
LEMMA MadeStep ==
  ASSUME NEW c \in [Pair -> Nat], NEW p \in Pair, NEW n \in 0 .. 2
  PROVE  Made([c EXCEPT ![p] = @ + 1], n) = Made(c, n) + (IF Aim(p) = n THEN 1 ELSE 0)
  BY DEF Made, Pair, Aim

(***************************************************************************)
(* Every step keeps each part of the packets below the whole.              *)
(***************************************************************************)
LEMMA AgreeStep == IInv /\ AgreeInv /\ [Next]_vars => AgreeInv'
<1> SUFFICES ASSUME IInv, AgreeInv, [Next]_vars, NEW n \in 0 .. 2
             PROVE  (stat[Routed(n)] + Waiting(queue, n) + Waiting(buf, n)
                       + Unsent(n) <= Made(count, n))'
  BY DEF AgreeInv
<1> DEFINE Good == stat[Routed(n)] + Waiting(queue, n) + Waiting(buf, n) + Unsent(n)
                     <= Made(count, n)
<1>a. /\ stat \in [Decision -> Nat] /\ queue \in Seq(Packet)
      /\ buf \in Seq(Packet) /\ Len(buf) = IF router = "decide" THEN 1 ELSE 0
      /\ count \in [Pair -> Nat] /\ randi1 \in 0 .. 8 /\ randi2 \in 0 .. 9
  BY DEF IInv, TypeOK, Packet
<1>b. Good
  BY DEF AgreeInv
<1>c. /\ Routed(n) \in Decision /\ Routed(n) \notin {"expired", "unroutable"}
      /\ \A k \in 0 .. 2 : Routed(k) \in Decision /\ (Routed(k) = Routed(n) <=> k = n)
  BY DEF Routed, Decision
<1>d. /\ stat[Routed(n)] \in Nat /\ Waiting(queue, n) \in Nat /\ Waiting(buf, n) \in Nat
      /\ Unsent(n) \in Nat /\ Made(count, n) \in Nat
  <2>1. Made(count, n) \in Nat
    BY <1>a DEF Made, Pair
  <2>2. Unsent(n) \in Nat
    BY DEF Unsent
  <2> QED
    BY <1>a, <1>c, <2>1, <2>2, WaitingType
<1> SUFFICES Good'
  OBVIOUS
\* What changes none of the five keeps the sum.
<1>e. ASSUME UNCHANGED <<stat, queue, buf, count>>, Unsent(n)' <= Unsent(n), Unsent(n)' \in Nat
      PROVE  Good'
  <2>1. /\ stat'[Routed(n)] = stat[Routed(n)] /\ Waiting(queue', n) = Waiting(queue, n)
        /\ Waiting(buf', n) = Waiting(buf, n) /\ Made(count', n) = Made(count, n)
    BY <1>e
  <2> QED
    BY <1>b, <1>d, <1>e, <2>1
<1>f. /\ Unsent(n)' = IF gen' = "send" /\ Entry(randi2') = n THEN 1 ELSE 0
      /\ Unsent(n) = IF gen = "send" /\ Entry(randi2) = n THEN 1 ELSE 0
  BY DEF Unsent
<1> HIDE DEF Good
<1> USE DEF genVars, RouterDrops
<1>1. ASSUME NewPacket, UNCHANGED routerVars PROVE Good'
  BY <1>e, <1>f, <1>1 DEF NewPacket, routerVars
<1>2. ASSUME Redraw, UNCHANGED routerVars PROVE Good'
  BY <1>e, <1>f, <1>2 DEF Redraw, routerVars
<1>3. ASSUME Count, UNCHANGED routerVars PROVE Good'
  <2>1. PICK p \in Pair : Counted(randi1, randi2) = {p}
    BY <1>a, <1>3, CountedOnce DEF Count
  <2>2. count' = [count EXCEPT ![p] = @ + 1]
    BY <1>a, <1>3, <2>1 DEF Count
  <2>3. Made(count', n) = Made(count, n) + (IF Entry(randi2) = n THEN 1 ELSE 0)
    <3>1. Entry(randi2) = Aim(p)
      BY <2>1, CountsEntry
    <3>2. Made([count EXCEPT ![p] = @ + 1], n) = Made(count, n) + (IF Aim(p) = n THEN 1 ELSE 0)
      BY <1>a, MadeStep
    <3> QED
      BY <2>2, <3>1, <3>2
  <2>4. /\ Unsent(n)' = (IF Entry(randi2) = n THEN 1 ELSE 0)
        /\ Unsent(n) = 0
        /\ stat'[Routed(n)] = stat[Routed(n)] /\ Waiting(queue', n) = Waiting(queue, n)
        /\ Waiting(buf', n) = Waiting(buf, n)
    BY <1>3, <1>f DEF Count, routerVars
  <2> QED
    BY <1>b, <1>d, <2>3, <2>4 DEF Good
<1>4. ASSUME Send, UNCHANGED routerVars PROVE Good'
  <2>1. PICK ttl \in TTLs :
          LET packet == [id |-> Packet_ID, dest |-> randi2, ttl |-> ttl]
          IN  IF listening /\ Len(queue) < QueueLen
                THEN queue' = Append(queue, packet) /\ UNCHANGED dropped
                ELSE dropped' = dropped + 1 /\ UNCHANGED queue
    BY <1>4 DEF Send
  <2> DEFINE packet == [id |-> Packet_ID, dest |-> randi2, ttl |-> ttl]
  <2>2. packet \in Packet /\ packet.dest = randi2
    BY <1>4 DEF Send, Packet, IInv, DrawnInv
  <2> HIDE DEF packet
  <2>3. queue' = Append(queue, packet) \/ queue' = queue
    BY <2>1 DEF packet
  <2>4. Waiting(Append(queue, packet), n)
          = Waiting(queue, n) + (IF Entry(randi2) = n THEN 1 ELSE 0)
    BY <1>a, <2>2, WaitingAppend
  <2>5. Waiting(queue', n) <= Waiting(queue, n) + (IF Entry(randi2) = n THEN 1 ELSE 0)
        /\ Waiting(queue', n) \in Nat
    <3>1. CASE queue' = Append(queue, packet)
      <4>1. Waiting(queue', n) = Waiting(queue, n) + (IF Entry(randi2) = n THEN 1 ELSE 0)
        BY <2>4, <3>1, Zenon
      <4> QED
        BY <1>d, <4>1
    <3>2. CASE queue' = queue
      <4>1. Waiting(queue', n) = Waiting(queue, n)
        BY <3>2
      <4> QED
        BY <1>d, <4>1
    <3> QED
      BY <2>3, <3>1, <3>2
  <2>6. /\ gen = "send" /\ gen' # "send"
        /\ stat'[Routed(n)] = stat[Routed(n)] /\ Made(count', n) = Made(count, n)
        /\ Waiting(buf', n) = Waiting(buf, n)
    BY <1>4 DEF Send, routerVars
  <2> QED
    BY <1>b, <1>d, <1>f, <2>5, <2>6 DEF Good
<1>5. ASSUME WriteLog, UNCHANGED routerVars PROVE Good'
  BY <1>e, <1>f, <1>5 DEF WriteLog, routerVars
<1>6. ASSUME Finish, UNCHANGED routerVars PROVE Good'
  BY <1>e, <1>f, <1>6 DEF Finish, routerVars
<1>7. ASSUME sig_handler, UNCHANGED routerVars PROVE Good'
  BY <1>d, <1>e, <1>f, <1>7 DEF sig_handler, routerVars
<1>8. ASSUME Bind, RouterDrops PROVE Good'
  BY <1>d, <1>e, <1>f, <1>8 DEF Bind
<1>9. ASSUME Receive, RouterDrops PROVE Good'
  <2> DEFINE k == Entry(Head(queue).dest)
  <2>1. queue # <<>> /\ queue' = Tail(queue) /\ buf' = <<Head(queue)>> /\ stat' = stat
    BY <1>9 DEF Receive
  <2>2. Head(queue) \in Packet
    BY <1>a, <2>1
  <2>3. /\ Waiting(queue', n) + (IF k = n THEN 1 ELSE 0) <= Waiting(queue, n)
        /\ Waiting(queue', n) \in Nat
    <3>1. Tail(queue) \in Seq(Packet)
      BY <1>a, <2>1
    <3> QED
      BY <1>a, <2>1, <3>1, WaitingTail, WaitingType
  <2>4. Waiting(buf', n) = IF k = n THEN 1 ELSE 0
    BY <2>1, <2>2, WaitingOne
  <2>5. /\ Unsent(n)' = Unsent(n) /\ Made(count', n) = Made(count, n)
        /\ stat'[Routed(n)] = stat[Routed(n)]
    BY <1>9, <1>f, <2>1
  <2> HIDE DEF k
  <2> QED
    BY <1>b, <1>d, <2>3, <2>4, <2>5 DEF Good
<1>10. ASSUME Decide, RouterDrops PROVE Good'
  <2> DEFINE k == Entry(Head(buf).dest)
  <2>1. PICK d \in Make_Decision(Head(buf)) : stat' = [stat EXCEPT ![d] = @ + 1]
    BY <1>10 DEF Decide
  <2>2. router = "decide" /\ buf' = <<>> /\ queue' = queue
    BY <1>10 DEF Decide
  <2>3. Head(buf) \in Packet /\ buf = <<Head(buf)>>
    <3>1. Len(buf) = 1
      BY <1>a, <2>2
    <3> QED
      BY <1>a, <3>1, OnePacket
  <2>4. Head(buf).dest \in 0 .. 9
    BY <2>3, PktGenAssumption DEF Packet
  <2>5. d \in {"expired", "unroutable"} \/ (k \in 0 .. 2 /\ d = Routed(k))
    BY <2>4, Decides
  <2>6. d = Routed(n) => k = n
    BY <1>c, <2>5
  <2>7. d \in Decision
    BY <2>1, DecisionType
  <2>8. Waiting(buf, n) = (IF k = n THEN 1 ELSE 0) /\ Waiting(buf', n) = 0
    <3> HIDE DEF k
    <3>1. Waiting(<<Head(buf)>>, n) = (IF k = n THEN 1 ELSE 0) /\ Waiting(<<>>, n) = 0
      BY <2>3, WaitingOne DEF k
    <3> QED
      BY <2>2, <2>3, <3>1
  <2> HIDE DEF k
  <2>9. stat'[Routed(n)] <= stat[Routed(n)] + (IF k = n THEN 1 ELSE 0)
        /\ stat'[Routed(n)] \in Nat
    BY <1>a, <1>c, <2>1, <2>6, <2>7
  <2>10. /\ Unsent(n)' = Unsent(n) /\ Made(count', n) = Made(count, n)
         /\ Waiting(queue', n) = Waiting(queue, n)
    BY <1>10, <1>f, <2>2
  <2> QED
    BY <1>b, <1>d, <2>8, <2>9, <2>10 DEF Good
<1>11. ASSUME ReceiveFails, RouterDrops PROVE Good'
  BY <1>d, <1>e, <1>f, <1>11 DEF ReceiveFails
<1>12. ASSUME update_log, RouterDrops PROVE Good'
  BY <1>d, <1>e, <1>f, <1>12 DEF update_log
<1>13. ASSUME sig_handler_2, RouterDrops PROVE Good'
  <2>1. queue' = <<>> /\ buf' = <<>> /\ stat' = stat /\ count' = count
    BY <1>13 DEF sig_handler_2
  <2>2. Waiting(queue', n) = 0 /\ Waiting(buf', n) = 0
    <3>1. Heading(<<>>, n) = {}
      BY DEF Heading
    <3> QED
      BY <2>1, <3>1, FS_EmptySet DEF Waiting
  <2>3. Unsent(n)' = Unsent(n)
    BY <1>13, <1>f
  <2>4. stat'[Routed(n)] = stat[Routed(n)] /\ Made(count', n) = Made(count, n)
    BY <2>1
  <2> QED
    BY <1>b, <1>d, <2>2, <2>3, <2>4 DEF Good
<1>14. CASE UNCHANGED vars
  BY <1>d, <1>e, <1>f, <1>14 DEF vars, routerVars
<1> QED
  BY <1>1, <1>2, <1>3, <1>4, <1>5, <1>6, <1>7, <1>8, <1>9, <1>10,
     <1>11, <1>12, <1>13, <1>14
  DEF Next, GenNext, GenMain, RouterNext, RouterDrops

(***************************************************************************)
(* For tables whose entries hold, on prefix_length bits, the hosts of      *)
(* their network and no others, with addresses of any width, the router    *)
(* never counts more packets for a network than were generated for it,     *)
(* although it compares a bit more. (pktgen.c:97, Ip_masking and           *)
(* Make_Decision, router.c:192 and 224)                                    *)
(***************************************************************************)
THEOREM SidesAlwaysAgree == Spec => []SidesAgree
<1>1. Init => AgreeInv
  <2> SUFFICES ASSUME Init, NEW n \in 0 .. 2
               PROVE  stat[Routed(n)] + Waiting(queue, n) + Waiting(buf, n) + Unsent(n)
                        <= Made(count, n)
    BY DEF AgreeInv
  <2>1. Waiting(queue, n) = 0 /\ Waiting(buf, n) = 0
    <3>1. Heading(<<>>, n) = {}
      BY DEF Heading
    <3> QED
      BY <3>1, FS_EmptySet DEF Waiting, Init, RouterInit
  <2>2. stat[Routed(n)] = 0
    BY DEF Init, RouterInit, Routed, Decision
  <2>3. Unsent(n) = 0
    BY DEF Init, GenInit, Unsent
  <2>4. Made(count, n) = 0
    BY DEF Init, GenInit, Made, Pair
  <2> QED
    BY <2>1, <2>2, <2>3, <2>4
<1>2. IInv /\ AgreeInv => SidesAgree
  <2> SUFFICES ASSUME IInv, AgreeInv PROVE SidesAgree
    OBVIOUS
  <2>1. /\ stat \in [Decision -> Nat] /\ queue \in Seq(Packet) /\ buf \in Seq(Packet)
        /\ count \in [Pair -> Nat]
    BY DEF IInv, TypeOK, Packet
  <2>2. \A n \in 0 .. 2 : stat[Routed(n)] <= Made(count, n)
    <3> SUFFICES ASSUME NEW n \in 0 .. 2 PROVE stat[Routed(n)] <= Made(count, n)
      OBVIOUS
    <3>1. Waiting(queue, n) \in Nat /\ Waiting(buf, n) \in Nat /\ Unsent(n) \in Nat
      BY <2>1, WaitingType DEF Unsent
    <3>2. stat[Routed(n)] \in Nat
      BY <2>1 DEF Routed, Decision
    <3>3. Made(count, n) \in Nat
      BY <2>1 DEF Made, Pair
    <3> QED
      BY <3>1, <3>2, <3>3 DEF AgreeInv
  <2>3. /\ Routed(0) = "routerB" /\ Made(count, 0) = count["AtoB"] + count["CtoB"]
        /\ Routed(1) = "delivered" /\ Made(count, 1) = count["BtoA"] + count["CtoA"]
        /\ Routed(2) = "routerC" /\ Made(count, 2) = count["AtoC"] + count["BtoC"]
    BY DEF Routed, Made
  <2>4. /\ 0 \in 0 .. 2 /\ 1 \in 0 .. 2 /\ 2 \in 0 .. 2
    OBVIOUS
  <2> HIDE DEF IInv, AgreeInv
  <2> QED
    BY <2>2, <2>3, <2>4 DEF SidesAgree
<1> QED
  BY <1>1, <1>2, AgreeStep, Inductive, PTL DEF Spec
=============================================================================
