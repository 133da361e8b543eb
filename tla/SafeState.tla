----------------------------- MODULE SafeState ------------------------------
(***************************************************************************)
(* When a resource-allocation state is safe: the processes can be lined up *)
(* so that each finds its whole remaining need in the free units plus the  *)
(* holdings of those before it.  This is the reference that safety_Checker *)
(* of Assignment3/Banker.c is compared with; it is stated from the idea,   *)
(* not from that code.                                                     *)
(***************************************************************************)
EXTENDS Integers, FiniteSets, Functions

CONSTANTS Proc, Res

\* The lines of all processes, first to last.
Lines == Bijection(1 .. Cardinality(Proc), Proc)

HeldBy(S, allocation, j) == SumFunctionOnSet([p \in Proc |-> allocation[p][j]], S)

IsSafe(allocation, current_Avail, Need) ==
  \E line \in Lines : \A n \in DOMAIN line : \A j \in Res :
     Need[line[n]][j]
       <= current_Avail[j] + HeldBy({line[m] : m \in 1 .. n - 1}, allocation, j)
=============================================================================
