-------------------------- MODULE MCPacketNetwork --------------------------
(***************************************************************************)
(* Instances of PacketNetwork.  The addresses are those of pktgen.h with   *)
(* the lowest bit of each octet left out, so that they fit in the integers *)
(* of TLC.  The table file is not part of the repository; as router.c:219  *)
(* says, its entries are networks B, A and C.                              *)
(***************************************************************************)
EXTENDS PacketNetwork

\* char* networks[10], pktgen.h:32.
networks == << <<192,168,128,7>>, <<192,168,128,1>>,
               <<192,168,192,10>>, <<192,168,192,6>>, <<192,168,192,4>>,
               <<192,224,0,5>>, <<192,224,0,7>>, <<192,224,10,5>>, <<192,224,15,6>>,
               <<168,130,192,1>> >>

Scaled(ip) == [o \in 1 .. 4 |-> ip[o] \div 2]

HostIP == [h \in 0 .. 9 |-> Scaled(networks[h + 1])]

\* For networks B and A the bits that tell them apart, for C the longest
\* prefix its hosts have in common.
RT_A == [n \in 0 .. 2 |->
           CASE n = 0 -> [IP_addr |-> Scaled(<<192,168,192,0>>), prefix_length |-> 16]
             [] n = 1 -> [IP_addr |-> Scaled(<<192,168,128,0>>), prefix_length |-> 16]
             [] n = 2 -> [IP_addr |-> Scaled(<<192,224,0,0>>), prefix_length |-> 18]]

AllSources == 0 .. 8
AllDests == 0 .. 9
TTL12 == {1, 2}
=============================================================================
