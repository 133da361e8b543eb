------------------------------- MODULE TestMem -------------------------------
(***************************************************************************)
(* Assignment1/testmem.c: the caller of get_mem_layout.  It shows the      *)
(* entries that are both counted and in the list, with a letter for RW.    *)
(***************************************************************************)
EXTENDS MemChunk, Sequences

VARIABLE shown  \* the entries printed; in the code i is the next of them

testVars == <<vars, shown>>

TestInit == Init /\ shown = <<>>

display_RW(rw) == CASE rw = 0 -> "R" [] rw = 1 -> "W" [] rw \notin {0, 1} -> "N"

\* for (i = 0; ((i < chunks) && (i < 200)); i++)
Show ==
  /\ pc = "done"
  /\ Len(shown) < counter /\ Len(shown) < size
  /\ LET entry == chunk_list[Len(shown)]
     IN  shown' = Append(shown, [start |-> entry.start, length |-> entry.length,
                                 RW |-> display_RW(entry.RW)])
  /\ UNCHANGED vars

\* "Total chunk is"
ShowTotal ==
  /\ pc = "done"
  /\ Len(shown) >= counter \/ Len(shown) >= size
  /\ pc' = "shown"
  /\ UNCHANGED <<memory, i, address, readable, writeable, scanVars, blocked, shown>>

TestNext == (Next /\ UNCHANGED shown) \/ Show \/ ShowTotal

TestSpec == TestInit /\ [][TestNext]_testVars

\* The program keeps running.
FairTestSpec == TestSpec /\ WF_testVars(TestNext)
-----------------------------------------------------------------------------
\* In a memory m the stretches of pages a .. b that may all be written, or
\* all only be read, and cannot be made longer.
Stretches(m) ==
  {s \in (0 .. Pages - 1) \X (0 .. Pages - 1) :
     LET a == s[1] b == s[2]
     IN  /\ a <= b /\ m[a] # "none"
         /\ \A p \in a .. b : m[p] = m[a]
         /\ a > 0 => m[a - 1] # m[a]
         /\ b < Pages - 1 => m[b + 1] # m[b]}

\* Those whose end is noticed: the page after b has been touched before the
\* last decision is taken.
Noticed == {s \in Stretches(memory) : s[2] < Pages - 2}

\* How a stretch is shown: one page late, with the right length, and as "N"
\* in place of its permission when the page after it cannot be read.
Shows(s) ==
  LET a == s[1] b == s[2]
  IN  [start |-> a + 1, length |-> b - a + 1,
       RW |-> IF memory[b + 1] = "none" THEN "N"
              ELSE IF memory[a] = "write" THEN "W" ELSE "R"]

(***************************************************************************)
(* What is shown are stretches, in order and none twice, and all of them,  *)
(* or those that come first when the list is full; as long as it has room, *)
(* the total counts them and nothing is written beyond it.                 *)
(* (get_mem_layout, memchunk.c:49, and main, testmem.c:19)                 *)
(***************************************************************************)
ShowsStretches ==
  pc = "shown" =>
    /\ \A n \in DOMAIN shown : \E s \in Noticed : shown[n] = Shows(s)
    /\ \A m, n \in DOMAIN shown : m < n => shown[m].start < shown[n].start
    /\ \A s \in Noticed :
         \/ \E n \in DOMAIN shown : shown[n] = Shows(s)
         \/ Len(shown) = size /\ \A n \in DOMAIN shown : shown[n].start <= s[1]
    /\ IF Len(shown) < size THEN counter = Len(shown) /\ overrun = {}
                            ELSE Len(shown) = size /\ counter >= size
=============================================================================
