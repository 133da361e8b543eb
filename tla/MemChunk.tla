------------------------------ MODULE MemChunk ------------------------------
(***************************************************************************)
(* Assignment1/memchunk.c: get_mem_layout touches one page after the other *)
(* and lists the stretches of memory it may read, with the SIGSEGVs of the *)
(* pages it may not touch caught by a handler that jumps back.             *)
(*                                                                         *)
(* An address is the number of its page.  The decisions about a page are   *)
(* taken before it is touched, with readable and writeable as the page     *)
(* before has left them.  Built by its Makefile (no optimisation), the     *)
(* program keeps its locals across the jump.                               *)
(***************************************************************************)
EXTENDS Integers

CONSTANTS Pages,  \* pages the loop visits: 0xFFFFFFFF / page_size
          size    \* entries of the caller's list, 200 in testmem.c

ASSUME MemAssumption == Pages \in Nat \ {0} /\ size \in Nat

Permission == {"none", "read", "write"}
Entry == [start : -1 .. Pages - 1, length : 0 .. Pages, RW : {-1, 0, 1}]

VARIABLES
  memory,      \* what the process may do to each page
  i, address,
  readable, writeable,
  this,        \* is a chunk open
  counter, tmp_start,
  chunk_list,
  overrun,     \* indices beyond the list that were written to (history)
  blocked,     \* is SIGSEGV blocked
  pc

vars == <<memory, i, address, readable, writeable, this, counter, tmp_start,
          chunk_list, overrun, blocked, pc>>
scanVars == <<this, counter, tmp_start, chunk_list, overrun>>

\* The list comes from malloc; what it holds is never used.
Init == /\ memory \in [0 .. Pages - 1 -> Permission]
        /\ i = 0 /\ address = 0
        /\ readable = 0 /\ writeable = 0
        /\ this = 0
        /\ counter = 0
        /\ tmp_start = 0
        /\ chunk_list = [n \in 0 .. size - 1 |-> [start |-> -1, length |-> 0, RW |-> 0]]
        /\ overrun = {}
        /\ blocked = FALSE
        /\ pc = "page"

\* The value of chunk_list[n].RW: anything when n is beyond the list.
RWAt(n) == IF n < size THEN {chunk_list[n].RW} ELSE {-1, 0, 1}

\* Set fields of entry n, if the list has it.
Opened(list, n)  == IF n < size
                      THEN [list EXCEPT ![n].start = address, ![n].RW = writeable]
                      ELSE list
Measured(list, n) == IF n < size
                       THEN [list EXCEPT ![n].length = address - tmp_start]
                       ELSE list
-----------------------------------------------------------------------------
\* The next page; sigsetjmp saves the signal mask.
NextPage ==
  /\ pc = "page" /\ i < Pages
  /\ address' = i
  /\ pc' = "examine"
  /\ UNCHANGED <<memory, i, readable, writeable, scanVars, blocked>>

\* if (readable): a chunk begins.
Begin ==
  /\ pc = "examine" /\ readable = 1 /\ this = 0
  /\ this' = 1
  /\ tmp_start' = address
  /\ chunk_list' = Opened(chunk_list, counter)
  /\ pc' = "compare"
  /\ UNCHANGED <<memory, i, address, readable, writeable, counter, overrun, blocked>>

GoOn ==
  /\ pc = "examine" /\ readable = 1 /\ this = 1
  /\ pc' = "compare"
  /\ UNCHANGED <<memory, i, address, readable, writeable, scanVars, blocked>>

\* if (!readable): RW is set to -1, whether or not the list has the entry and
\* whether or not it belongs to a chunk; an open chunk is closed.
Close ==
  /\ pc = "examine" /\ readable = 0
  /\ LET marked == IF counter < size
                     THEN [chunk_list EXCEPT ![counter].RW = -1] ELSE chunk_list
     IN  chunk_list' = IF this = 1 THEN Measured(marked, counter) ELSE marked
  /\ overrun' = IF counter < size THEN overrun ELSE overrun \cup {counter}
  /\ counter' = counter + this
  /\ this' = 0
  /\ pc' = "probe"
  /\ UNCHANGED <<memory, i, address, readable, writeable, tmp_start, blocked>>

\* Faulty: the new chunk is taken to begin where the old one did.
SplitKeepingStart ==
  /\ pc = "compare"
  /\ \E rw \in RWAt(counter) : (rw # 0) # (writeable # 0)
  /\ chunk_list' = Opened(Measured(chunk_list, counter), counter + 1)
  /\ counter' = counter + 1
  /\ pc' = "probe"
  /\ UNCHANGED <<memory, i, address, readable, writeable, this, tmp_start,
                 overrun, blocked>>

\* The permission differs from that of the open chunk: the chunk is closed
\* and another one begins.
Split ==
  /\ pc = "compare"
  /\ \E rw \in RWAt(counter) : (rw # 0) # (writeable # 0)
  /\ chunk_list' = Opened(Measured(chunk_list, counter), counter + 1)
  /\ counter' = counter + 1
  /\ tmp_start' = address
  /\ pc' = "probe"
  /\ UNCHANGED <<memory, i, address, readable, writeable, this, overrun, blocked>>

Same ==
  /\ pc = "compare"
  /\ \E rw \in RWAt(counter) : (rw # 0) = (writeable # 0)
  /\ pc' = "probe"
  /\ UNCHANGED <<memory, i, address, readable, writeable, scanVars, blocked>>
-----------------------------------------------------------------------------
Faults == memory[address] # "write"

\* Read the page and write it back; a SIGSEGV that is blocked kills.
Probe ==
  /\ pc = "probe"
  /\ readable'  = IF memory[address] = "none" THEN 0 ELSE 1
  /\ writeable' = IF Faults THEN 0 ELSE 1
  /\ blocked' = (Faults \/ blocked)
  /\ pc' = IF ~ Faults THEN "count" ELSE IF blocked THEN "killed" ELSE "handler"
  /\ UNCHANGED <<memory, i, address, scanVars>>

\* Faulty: a jump that leaves the signal blocked, as longjmp may.
signal_handlerMasked ==
  /\ pc = "handler"
  /\ pc' = "count"
  /\ UNCHANGED <<memory, i, address, readable, writeable, scanVars, blocked>>

\* siglongjmp restores the mask and skips what was left of the body.
signal_handler ==
  /\ pc = "handler"
  /\ blocked' = FALSE
  /\ pc' = "count"
  /\ UNCHANGED <<memory, i, address, readable, writeable, scanVars>>

Count ==
  /\ pc = "count"
  /\ i' = i + 1
  /\ pc' = "page"
  /\ UNCHANGED <<memory, address, readable, writeable, scanVars, blocked>>

Return ==
  /\ pc = "page" /\ i = Pages
  /\ pc' = "done"
  /\ UNCHANGED <<memory, i, address, readable, writeable, scanVars, blocked>>

Next == \/ NextPage \/ Begin \/ GoOn \/ Close \/ Split \/ Same
        \/ Probe \/ signal_handler \/ Count \/ Return

Spec == Init /\ [][Next]_vars

\* The program keeps running.
FairSpec == Spec /\ WF_vars(Next)
=============================================================================
