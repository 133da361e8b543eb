--------------------------- MODULE PacketNetwork ---------------------------
(***************************************************************************)
(* The packet generator and the router of Asn2a on one machine, with the   *)
(* router's socket between them.  Either may be interrupted at any time.   *)
(***************************************************************************)
EXTENDS PktGen

CONSTANTS Octet, IP, tables  \* see Router

ASSUME TableAssumption ==
  LET Address == [1 .. 4 -> 0 .. 2^Octet - 1]
  IN  /\ Octet \in Nat \ {0}
      /\ IP \in [0 .. 9 -> Address]
      /\ tables \in [0 .. 2 -> [IP_addr : Address,
                               prefix_length : 0 .. 4 * Octet]]

VARIABLES counter, stat, routerLog, buf, router

INSTANCE Router

(***************************************************************************)
(* The tables the router is made for: the entries are router B, the        *)
(* network at hand, router C, in this order (router.c:219), and each holds *)
(* the first prefix_length bits (router.c:187) of the hosts pktgen.h:32    *)
(* lists for its network, and of no other host.  The hosts have different  *)
(* addresses.                                                              *)
(***************************************************************************)
InBlock(h, table) ==
  LET shift == R!Width - table.prefix_length
  IN  R!ShiftRight(R!IPtoDec(IP[h]), shift)
        = R!ShiftRight(R!IPtoDec(table.IP_addr), shift)

Entry(h) == CASE h \in 2 .. 4 -> 0
              [] h \in 0 .. 1 -> 1
              [] h \in 5 .. 8 -> 2
              [] h = 9 -> 3

ASSUME NetworksAssumption ==
  /\ \A g, h \in 0 .. 9 : R!IPtoDec(IP[g]) = R!IPtoDec(IP[h]) => g = h
  /\ \A h \in 0 .. 9, n \in 0 .. 2 : InBlock(h, tables[n]) <=> n = Entry(h)

routerVars == <<counter, stat, routerLog, buf, router>>
vars == <<genVars, routerVars, queue, listening, dropped>>

Init == GenInit /\ RouterInit

\* What the router has in its socket or in hand when it exits is lost.
Next == \/ GenNext /\ UNCHANGED routerVars
        \/ /\ RouterNext
           /\ dropped' = IF router' = "exit" THEN dropped + Len(queue) + Len(buf)
                                           ELSE dropped
           /\ UNCHANGED genVars

Spec == Init /\ [][Next]_vars

(***************************************************************************)
(* Both programs keep running, and a rand() asked again and again sooner   *)
(* or later names a host of another network.                               *)
(***************************************************************************)
FairSpec ==
  /\ Spec
  /\ WF_vars(GenMain /\ UNCHANGED routerVars)
  /\ WF_vars(Redraw /\ ~ SameNetwork(randi1, randi2') /\ UNCHANGED routerVars)
-----------------------------------------------------------------------------
\* The packets counted, by the generator and by the router.
Generated(c) == c["AtoB"] + c["AtoC"] + c["BtoA"] + c["BtoC"] + c["CtoA"]
                  + c["CtoB"] + c["Invalid"]
Decided(s)   == s["expired"] + s["unroutable"] + s["delivered"] + s["routerB"]
                  + s["routerC"]

TypeOK ==
  /\ Packet_ID \in 0 .. MaxPacket
  /\ randi1 \in 0 .. 8 /\ randi2 \in 0 .. 9
  /\ count \in [Pair -> Nat] /\ genLog \in [Pair -> Nat]
  /\ genStop \in {0, 1}
  /\ gen \in {"loop", "draw", "send", "log", "end"}
  /\ counter \in 0 .. LogEvery - 1
  /\ stat \in [Decision -> Nat] /\ routerLog \in [Decision -> Nat]
  /\ router \in {"start", "recv", "decide", "log", "exit"}
  /\ buf \in Seq([id : 1 .. MaxPacket, dest : Dest, ttl : TTLs])
  /\ Len(buf) = IF router = "decide" THEN 1 ELSE 0
  /\ queue \in Seq([id : 1 .. MaxPacket, dest : Dest, ttl : TTLs])
  /\ Len(queue) <= QueueLen
  /\ listening \in BOOLEAN
  /\ dropped \in Nat

(***************************************************************************)
(* Each packet sent is counted by the router exactly once, or still in the *)
(* socket buffer or in the router's, or was dropped, also by an interrupt  *)
(* between recvfrom and the decision.                                      *)
(* (main, Make_Decision and sig_handler_2, router.c:112, 224 and 261)      *)
(***************************************************************************)
EveryPacketDecided ==
  Decided(stat) + Len(queue) + Len(buf) + dropped
    = Packet_ID - (IF gen \in {"draw", "send"} THEN 1 ELSE 0)

(***************************************************************************)
(* No packet is sent to a wrong network: the generator goes by the index   *)
(* of a destination and the router by the leading bits of its address, one *)
(* more than the prefix has, and still the router never counts more        *)
(* packets for a network than were generated for it.                       *)
(* (pktgen.c:97, Ip_masking and Make_Decision, router.c:192 and 224)       *)
(***************************************************************************)
SidesAgree ==
  /\ stat["routerB"]   <= count["AtoB"] + count["CtoB"]
  /\ stat["delivered"] <= count["BtoA"] + count["CtoA"]
  /\ stat["routerC"]   <= count["AtoC"] + count["BtoC"]

(***************************************************************************)
(* While the router waits, fewer than LogEvery decisions are missing from  *)
(* its log, wherever its counter started and however often recvfrom        *)
(* failed.  (counter, router.c:111 and 122)                                *)
(***************************************************************************)
LogLagBounded == router = "recv" => Decided(stat) - Decided(routerLog) < LogEvery

(***************************************************************************)
(* When the generator has ended its log holds every counter, whenever the  *)
(* interrupt came, and together they count every packet once: the redraw   *)
(* condition and the chain of tests that counts are written down           *)
(* separately and agree.  (pktgen.c:82, 97 and 176)                        *)
(***************************************************************************)
GeneratorSaves == gen = "end" => genLog = count /\ Generated(genLog) = Packet_ID

(***************************************************************************)
(* SIGINT ends the generator, although it is looked at only between        *)
(* packets and the redraw loop may run long.  (pktgen.c:63 and 82)         *)
(***************************************************************************)
GeneratorStops == genStop = 0 ~> gen = "end"
-----------------------------------------------------------------------------
(***************************************************************************)
(* "unroutable packets: %d of packets containing invalid detination"       *)
(* (router.c:271), the prefix_length bits being what is compared           *)
(* (router.c:187): no packet for a host of a network is unroutable.        *)
(***************************************************************************)
OnlyInvalidUnroutable == stat["unroutable"] <= count["Invalid"]
=============================================================================
