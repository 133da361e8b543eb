--------------------------- MODULE SafetyChecker ----------------------------
(***************************************************************************)
(* safety_Checker of Assignment3/Banker.c (line 353), the deadlock-        *)
(* avoidance test the simulation defines and never calls.  One action per  *)
(* pass of its outer loop: the pass looks for the first process that is    *)
(* still running and whose need fits, lets it run to completion and breaks *)
(* out of the inner loop, or finds none and breaks out of the outer one.   *)
(***************************************************************************)
EXTENDS Integers

CONSTANTS number_p, number_r,  \* numbers of processes and resource types
          Units                \* quantities in the tables it is called with

ASSUME CheckerAssumption == /\ number_p \in Nat \ {0}
                            /\ number_r \in Nat \ {0}
                            /\ Units \subseteq Nat

Proc == 0 .. number_p - 1
Res  == 0 .. number_r - 1

VARIABLES
  allocation, current_Avail, Need,  \* the tables it is called with
  avail_checker,  \* units free once the processes run so far have finished
  running,        \* 1 for each process not yet run
  checked,        \* how many processes are not yet run
  safety,         \* did the last pass find a process; at the end, the result
  checkerPc

checkerVars == <<allocation, current_Avail, Need, avail_checker, running, checked,
          safety, checkerPc>>

CheckerInit == /\ allocation \in [Proc -> [Res -> Units]]
        /\ current_Avail \in [Res -> Units]
        /\ Need \in [Proc -> [Res -> Units]]
        /\ avail_checker = current_Avail
        /\ running = [p \in Proc |-> 1]
        /\ checked = number_p
        /\ safety = 0
        /\ checkerPc = "pass"

\* Faulty: demands one unit to spare.
RunnableStrict(p) ==
  running[p] = 1 /\ \A j \in Res : Need[p][j] < avail_checker[j]

Runnable(p) ==
  running[p] = 1 /\ \A j \in Res : Need[p][j] <= avail_checker[j]

\* The inner loop stops at p: nothing before p can run.
FirstRunnable(p) == Runnable(p) /\ \A q \in 0 .. p - 1 : ~ Runnable(q)

Run(p) ==
  /\ checkerPc = "pass" /\ checked # 0
  /\ FirstRunnable(p)
  /\ running' = [running EXCEPT ![p] = 0]
  /\ checked' = checked - 1
  /\ safety' = 1
  /\ avail_checker' = [j \in Res |-> avail_checker[j] + allocation[p][j]]
  /\ UNCHANGED <<allocation, current_Avail, Need, checkerPc>>

\* Faulty: the outer loop is not left when no process can run.
StuckForEver ==
  /\ checkerPc = "pass" /\ checked # 0
  /\ \A p \in Proc : ~ Runnable(p)
  /\ safety' = 0
  /\ UNCHANGED <<allocation, current_Avail, Need, avail_checker, running,
                 checked, checkerPc>>

\* No process can run: safety stays 0 and the outer loop is left.
Stuck ==
  /\ checkerPc = "pass" /\ checked # 0
  /\ \A p \in Proc : ~ Runnable(p)
  /\ safety' = 0
  /\ checkerPc' = "verdict"
  /\ UNCHANGED <<allocation, current_Avail, Need, avail_checker, running,
                 checked>>

AllRun ==
  /\ checkerPc = "pass" /\ checked = 0
  /\ checkerPc' = "verdict"
  /\ UNCHANGED <<allocation, current_Avail, Need, avail_checker, running,
                 checked, safety>>

Verdict ==
  /\ checkerPc = "verdict"
  /\ safety' = IF checked = 0 THEN 1 ELSE 0
  /\ checkerPc' = "done"
  /\ UNCHANGED <<allocation, current_Avail, Need, avail_checker, running,
                 checked>>

CheckerNext == (\E p \in Proc : Run(p)) \/ Stuck \/ AllRun \/ Verdict

CheckerSpec == CheckerInit /\ [][CheckerNext]_checkerVars

\* The function runs to its return statement.
CheckerFairSpec == CheckerSpec /\ WF_checkerVars(CheckerNext)
-----------------------------------------------------------------------------
CheckerTypeOK ==
  /\ allocation \in [Proc -> [Res -> Nat]]
  /\ current_Avail \in [Res -> Nat]
  /\ Need \in [Proc -> [Res -> Nat]]
  /\ avail_checker \in [Res -> Nat]
  /\ running \in [Proc -> {0, 1}]
  /\ checked \in 0 .. number_p
  /\ safety \in {0, 1}
  /\ checkerPc \in {"pass", "verdict", "done"}

\* When the tables are safe, from the idea.
Reference == INSTANCE SafeState

(***************************************************************************)
(* The greedy scan, which commits to the first process that fits and never *)
(* goes back, decides exactly whether some order lets every process run.   *)
(* (safety_Checker, Banker.c:371)                                          *)
(***************************************************************************)
DecidesSafety ==
  checkerPc = "done" =>
    (safety = 1 <=> Reference!IsSafe(allocation, current_Avail, Need))
=============================================================================
