-------------------------- MODULE ProducerConsumer --------------------------
(***************************************************************************)
(* Producer_Consumer of Final/Lock.c: a producer and a consumer share a    *)
(* ring of BUFFER_SIZE places and count the items in it.  counter++ and    *)
(* counter-- take the steps the comment after them lists (Lock.c:36).      *)
(* in is the producer's and out the consumer's, so they move together with *)
(* the access to the place they name.  Item k is the number k.             *)
(***************************************************************************)
EXTENDS Integers, Sequences

CONSTANTS BUFFER_SIZE,
          MaxItems  \* bound on the items produced

ASSUME BufferAssumption == BUFFER_SIZE \in Nat \ {0} /\ MaxItems \in Nat

VARIABLES
  buffer, in, out, counter,
  register1, register2,  \* the registers counter++ and counter-- go through
  producer, consumer,    \* where the two are
  produced,              \* how many items have been put into the buffer
  consumed,              \* the items taken out, in order (history)
  overlap                \* has an update of counter undone another (history)

pcVars == <<buffer, in, out, counter, register1, register2, producer, consumer,
            produced, consumed, overlap>>

PCInit == /\ buffer = [place \in 0 .. BUFFER_SIZE - 1 |-> 0]
          /\ in = 0 /\ out = 0
          /\ counter = 0
          /\ register1 = 0 /\ register2 = 0
          /\ producer = "wait" /\ consumer = "wait"
          /\ produced = 0
          /\ consumed = <<>>
          /\ overlap = FALSE

\* while (counter == BUFFER_SIZE)
ProducerPasses ==
  /\ producer = "wait" /\ counter # BUFFER_SIZE
  /\ produced < MaxItems
  /\ producer' = "put"
  /\ UNCHANGED <<buffer, in, out, counter, register1, register2, consumer,
                 produced, consumed, overlap>>

\* buffer[in] = next_produced; in = (in+1) % BUFFER_SIZE
Put ==
  /\ producer = "put"
  /\ buffer' = [buffer EXCEPT ![in] = produced + 1]
  /\ in' = (in + 1) % BUFFER_SIZE
  /\ produced' = produced + 1
  /\ producer' = "load"
  /\ UNCHANGED <<out, counter, register1, register2, consumer, consumed, overlap>>

ProducerLoads ==
  /\ producer = "load"
  /\ register1' = counter
  /\ producer' = "add"
  /\ UNCHANGED <<buffer, in, out, counter, register2, consumer, produced,
                 consumed, overlap>>

ProducerStores ==
  /\ producer = "add"
  /\ counter' = register1 + 1
  /\ overlap' = (overlap \/ counter # register1)
  /\ producer' = "wait"
  /\ UNCHANGED <<buffer, in, out, register1, register2, consumer, produced,
                 consumed>>

\* Faulty: does not wait for an item.
ConsumerHurries ==
  /\ consumer = "wait" /\ counter # BUFFER_SIZE
  /\ consumer' = "get"
  /\ UNCHANGED <<buffer, in, out, counter, register1, register2, producer,
                 produced, consumed, overlap>>

\* while (counter == 0)
ConsumerPasses ==
  /\ consumer = "wait" /\ counter # 0
  /\ consumer' = "get"
  /\ UNCHANGED <<buffer, in, out, counter, register1, register2, producer,
                 produced, consumed, overlap>>

\* next_consumed = buffer[out]; out = (out+1) % BUFFER_SIZE
Get ==
  /\ consumer = "get"
  /\ consumed' = Append(consumed, buffer[out])
  /\ out' = (out + 1) % BUFFER_SIZE
  /\ consumer' = "load"
  /\ UNCHANGED <<buffer, in, counter, register1, register2, producer, produced,
                 overlap>>

ConsumerLoads ==
  /\ consumer = "load"
  /\ register2' = counter
  /\ consumer' = "subtract"
  /\ UNCHANGED <<buffer, in, out, counter, register1, producer, produced,
                 consumed, overlap>>

ConsumerStores ==
  /\ consumer = "subtract"
  /\ counter' = register2 - 1
  /\ overlap' = (overlap \/ counter # register2)
  /\ consumer' = "wait"
  /\ UNCHANGED <<buffer, in, out, register1, register2, producer, produced,
                 consumed>>

PCNext == \/ ProducerPasses \/ Put \/ ProducerLoads \/ ProducerStores
          \/ ConsumerPasses \/ Get \/ ConsumerLoads \/ ConsumerStores

PCSpec == PCInit /\ [][PCNext]_pcVars
-----------------------------------------------------------------------------
PCTypeOK ==
  /\ buffer \in [0 .. BUFFER_SIZE - 1 -> Nat]
  /\ in \in 0 .. BUFFER_SIZE - 1 /\ out \in 0 .. BUFFER_SIZE - 1
  /\ counter \in Int /\ register1 \in Int /\ register2 \in Int
  /\ producer \in {"wait", "put", "load", "add"}
  /\ consumer \in {"wait", "get", "load", "subtract"}
  /\ produced \in Nat
  /\ consumed \in Seq(Nat)
  /\ overlap \in BOOLEAN

(***************************************************************************)
(* Whatever updates are lost, counter stays a number of items the buffer   *)
(* can hold, so that neither loop can miss the value it waits for.         *)
(* (Lock.c:16 and 26)                                                      *)
(***************************************************************************)
CounterInRange == counter \in 0 .. BUFFER_SIZE

(***************************************************************************)
(* As long as no update of counter has undone another, the items come out  *)
(* in the order in which they went in, each of them once, although the     *)
(* buffer itself is used without a lock: only counter is shared unsafely.  *)
(* (Producer_Consumer, Lock.c:11)                                          *)
(***************************************************************************)
FirstInFirstOut ==
  /\ CounterInRange
  /\ ~ overlap => consumed = [k \in 1 .. Len(consumed) |-> k]
=============================================================================
