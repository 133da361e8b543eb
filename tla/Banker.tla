------------------------------- MODULE Banker -------------------------------
(***************************************************************************)
(* The resource simulation of Assignment3/Banker.c.                        *)
(*                                                                         *)
(* One thread runs main's loop: it draws a process that is not waiting,    *)
(* lets it ask for more units, grants or refuses the request, lets a       *)
(* granted process give some units back, and then scans all processes and  *)
(* grants the waiting requests that have come to fit.  The only other      *)
(* actor is the SIGINT handler, which may run between any two steps.       *)
(*                                                                         *)
(* rand() is a nondeterministic choice.  The numbers the user types        *)
(* (Availres, processes) are chosen in Init and never change.  Left out:   *)
(* print_snapshot and the other output, counter (it only paces output and  *)
(* sleep), request (read only by printf once it is in request_Table) and   *)
(* current_Need (written by curr_Need in every round, read by nobody).     *)
(***************************************************************************)
EXTENDS Integers

CONSTANTS number_p,   \* how many processes the user declares
          number_r,   \* how many resource types the user declares
          Units       \* the quantities the user may type

(***************************************************************************)
(* With number_p = 0 main reads locking[0] of an empty array, and with     *)
(* number_r = 0 release divides by zero: both are outside the program's    *)
(* use.  Quantities are counts.                                            *)
(***************************************************************************)
ASSUME BankerAssumption == /\ number_p \in Nat \ {0}
                           /\ number_r \in Nat \ {0}
                           /\ Units \subseteq Nat

Proc == 0 .. number_p - 1
Res  == 0 .. number_r - 1
Vector == [Res -> Nat]

VARIABLES
  Availres,       \* units of each resource type in the system
  processes,      \* maximum claim of each process
  allocation,     \* units each process holds
  request_Table,  \* units each process has asked for and not received
  current_Avail,  \* units nobody holds
  locking,        \* 1 while a process is in waiting state
  stop_flag,      \* cleared by the SIGINT handler
  pc,             \* where main is in its loop
  k,              \* the process drawn in this round
  i               \* the next process of the wake-up scan

vars == <<Availres, processes, allocation, request_Table, current_Avail,
          locking, stop_flag, pc, k, i>>

input == <<Availres, processes>>
-----------------------------------------------------------------------------
(* Vectors and the random generators.                                      *)

Zero == [j \in Res |-> 0]
Plus(v, w)  == [j \in Res |-> v[j] + w[j]]
Minus(v, w) == [j \in Res |-> v[j] - w[j]]

\* veccmp(...) == 1: every component of v1 is at most that of v2.
veccmp(v1, v2) == \A j \in Res : v1[j] <= v2[j]

\* The values rdm_num can return; a maximum of 0 or less always gives 0.
rdm_num(min, max) == IF max <= 0 THEN {0} ELSE min .. max

\* All vectors whose component j is one rdm_num(0, hi[j]) may return.
DrawVector(hi) ==
  {v \in [Res -> UNION {rdm_num(0, hi[j]) : j \in Res}] :
      \A j \in Res : v[j] \in rdm_num(0, hi[j])}

\* Faulty: draws from the whole claim.
request_generatorWhole(which) == DrawVector(processes[which])

request_generator(which) ==
  DrawVector(Minus(processes[which], allocation[which]))

\* What release may give back when it drew resource m as the one to keep.
ReleaseVectors(which, m) ==
  DrawVector([j \in Res |-> IF j = m THEN allocation[which][j] - 1
                                     ELSE allocation[which][j]])
-----------------------------------------------------------------------------
Init == /\ Availres \in [Res -> Units]
        /\ processes \in [Proc -> [Res -> Units]]
        /\ allocation = [p \in Proc |-> Zero]
        /\ request_Table = [p \in Proc |-> Zero]
        /\ current_Avail = Availres
        /\ locking = [p \in Proc |-> 0]
        /\ stop_flag = 1
        /\ pc = "loop"
        /\ k = 0
        /\ i = number_p

\* Faulty: never looks at stop_flag.
LoopHeadForEver ==
  /\ pc = "loop"
  /\ k' \in rdm_num(0, number_p - 1)
  /\ pc' = "select"
  /\ UNCHANGED <<input, allocation, request_Table, current_Avail, locking,
                 stop_flag, i>>

\* while (stop_flag): leave, or draw the first candidate of a new round.
LoopHead ==
  /\ pc = "loop"
  /\ IF stop_flag = 1
       THEN /\ k' \in rdm_num(0, number_p - 1)
            /\ pc' = "select"
       ELSE /\ pc' = "end"
            /\ UNCHANGED k
  /\ UNCHANGED <<input, allocation, request_Table, current_Avail, locking,
                 stop_flag, i>>

\* while (locking[k] == 1): a waiting process was drawn, draw again.
DrawAgain ==
  /\ pc = "select"
  /\ locking[k] = 1
  /\ k' \in rdm_num(0, number_p - 1)
  /\ UNCHANGED <<input, allocation, request_Table, current_Avail, locking,
                 stop_flag, pc, i>>

\* Faulty: also takes requests from a waiting process.
RequestAnyway ==
  /\ pc = "select"
  /\ \E request \in request_generator(k) :
        request_Table' = [request_Table EXCEPT ![k] = Plus(@, request)]
  /\ pc' = "decide"
  /\ UNCHANGED <<input, allocation, current_Avail, locking, stop_flag, k, i>>

\* The drawn process asks for more; the request is added to its table row.
Request ==
  /\ pc = "select"
  /\ locking[k] = 0
  /\ \E request \in request_generator(k) :
        request_Table' = [request_Table EXCEPT ![k] = Plus(@, request)]
  /\ pc' = "decide"
  /\ UNCHANGED <<input, allocation, current_Avail, locking, stop_flag, k, i>>

\* The request does not fit: the process waits, and the round is over.
Refuse ==
  /\ pc = "decide"
  /\ ~ veccmp(request_Table[k], current_Avail)
  /\ locking' = [locking EXCEPT ![k] = 1]
  /\ pc' = "loop"
  /\ UNCHANGED <<input, allocation, request_Table, current_Avail, stop_flag,
                 k, i>>

\* Faulty: the pool is not charged.
HandOverForFree(p) ==
  /\ UNCHANGED current_Avail
  /\ request_Table' = [request_Table EXCEPT ![p] = Minus(@, request_Table[p])]
  /\ allocation' = [allocation EXCEPT ![p] = Plus(@, request_Table[p])]

\* Move what process p has asked for from the pool to p.
HandOver(p) ==
  /\ current_Avail' = Minus(current_Avail, request_Table[p])
  /\ request_Table' = [request_Table EXCEPT ![p] = Minus(@, request_Table[p])]
  /\ allocation' = [allocation EXCEPT ![p] = Plus(@, request_Table[p])]

\* The request fits: it is granted at once.
Grant ==
  /\ pc = "decide"
  /\ veccmp(request_Table[k], current_Avail)
  /\ HandOver(k)
  /\ pc' = "release"
  /\ UNCHANGED <<input, locking, stop_flag, k, i>>

\* Faulty: the scan that follows starts at the second process.
ReleaseSkippingFirst ==
  /\ pc = "release"
  /\ \E m \in Res : \E release \in ReleaseVectors(k, m) :
        /\ allocation' = [allocation EXCEPT ![k] = Minus(@, release)]
        /\ current_Avail' = Plus(current_Avail, release)
  /\ pc' = "scan"
  /\ i' = 1
  /\ UNCHANGED <<input, request_Table, locking, stop_flag, k>>

\* The process that was just granted gives some of its units back.
Release ==
  /\ pc = "release"
  /\ \E m \in Res : \E release \in ReleaseVectors(k, m) :
        /\ allocation' = [allocation EXCEPT ![k] = Minus(@, release)]
        /\ current_Avail' = Plus(current_Avail, release)
  /\ pc' = "scan"
  /\ i' = 0
  /\ UNCHANGED <<input, request_Table, locking, stop_flag, k>>

\* Faulty: every waiting process is served, fit or not.
WakeUpUnchecked ==
  /\ pc = "scan"
  /\ i \in Proc
  /\ locking[i] = 1
  /\ HandOver(i)
  /\ locking' = [locking EXCEPT ![i] = 0]
  /\ i' = i + 1
  /\ UNCHANGED <<input, stop_flag, pc, k>>

\* The scan meets a waiting process whose request now fits.
WakeUp ==
  /\ pc = "scan"
  /\ i \in Proc
  /\ veccmp(request_Table[i], current_Avail) /\ locking[i] = 1
  /\ HandOver(i)
  /\ locking' = [locking EXCEPT ![i] = 0]
  /\ i' = i + 1
  /\ UNCHANGED <<input, stop_flag, pc, k>>

\* The scan meets any other process and leaves it as it is.
PassOver ==
  /\ pc = "scan"
  /\ i \in Proc
  /\ ~ (veccmp(request_Table[i], current_Avail) /\ locking[i] = 1)
  /\ i' = i + 1
  /\ UNCHANGED <<input, allocation, request_Table, current_Avail, locking,
                 stop_flag, pc, k>>

ScanDone ==
  /\ pc = "scan"
  /\ i = number_p
  /\ pc' = "loop"
  /\ UNCHANGED <<input, allocation, request_Table, current_Avail, locking,
                 stop_flag, k, i>>

\* SIGINT arrives while main runs; the handler only clears the flag.
sig_handler ==
  /\ pc # "end"
  /\ stop_flag' = 0
  /\ UNCHANGED <<input, allocation, request_Table, current_Avail, locking,
                 pc, k, i>>

Main == \/ LoopHead \/ DrawAgain \/ Request \/ Refuse \/ Grant
        \/ Release \/ WakeUp \/ PassOver \/ ScanDone

Next == Main \/ sig_handler

Spec == Init /\ [][Next]_vars

(***************************************************************************)
(* main never blocks, so it keeps running; and a rand() that is asked      *)
(* again and again sooner or later names a process that is not waiting.    *)
(***************************************************************************)
FairSpec == /\ Spec
            /\ WF_vars(Main)
            /\ WF_vars(DrawAgain /\ locking[k'] = 0)
-----------------------------------------------------------------------------
TypeOK ==
  /\ Availres \in Vector
  /\ processes \in [Proc -> Vector]
  /\ allocation \in [Proc -> Vector]
  /\ request_Table \in [Proc -> Vector]
  /\ current_Avail \in Vector
  /\ locking \in [Proc -> {0, 1}]
  /\ stop_flag \in {0, 1}
  /\ pc \in {"loop", "select", "decide", "release", "scan", "end"}
  /\ k \in Proc
  /\ i \in 0 .. number_p

\* A process is refused while it waits for more than the pool holds.
Refused(p) == locking[p] = 1 /\ ~ veccmp(request_Table[p], current_Avail)

AllWaiting == \A p \in Proc : locking[p] = 1

(***************************************************************************)
(* What a process holds plus what it still asks for never exceeds the      *)
(* maximum it declared, although requests pile up in request_Table, are    *)
(* granted by two different pieces of code, and are drawn from the claim   *)
(* minus the holding alone.  (request_generator, Banker.c:250; main)       *)
(***************************************************************************)
ClaimsRespected ==
  \A p \in Proc : veccmp(Plus(allocation[p], request_Table[p]), processes[p])

(***************************************************************************)
(* No waiting process is forgotten: outside the scan every waiting process *)
(* asks for more than there is, and inside it every one already passed, so *)
(* one ascending scan after each release is enough.  (the wake-up scan,    *)
(* Banker.c:175)                                                           *)
(***************************************************************************)
NoForgottenWaiter ==
  /\ pc # "scan" => \A p \in Proc : locking[p] = 1 => Refused(p)
  /\ pc = "scan" => \A p \in Proc : p < i /\ locking[p] = 1 => Refused(p)

(***************************************************************************)
(* A process that is not waiting has no request on the books, except while *)
(* its own request is being decided.  Without it a later request would be  *)
(* added to a stale one.  (request_Table, Banker.c:122 and 161)            *)
(***************************************************************************)
BooksClean ==
  \A p \in Proc : locking[p] = 0 /\ ~ (pc = "decide" /\ p = k)
                    => request_Table[p] = Zero

(***************************************************************************)
(* From its request to the end of the scan the round belongs to a process  *)
(* that is not waiting: nobody gives units back while it is refused.       *)
(* (while (locking[k] == 1) and if (locking[k] == 0), Banker.c:117, 171)   *)
(***************************************************************************)
DriverRuns == pc \in {"decide", "release", "scan"} => locking[k] = 0

(***************************************************************************)
(* Units only ever move between the pool and one process: a step changes   *)
(* the holding of at most one process, and by exactly what the pool loses  *)
(* or gains.  (grant, release and wake-up, Banker.c:157, 311 and 189)      *)
(***************************************************************************)
Transfer ==
  \E p \in Proc :
    /\ \A q \in Proc \ {p} : allocation'[q] = allocation[q]
    /\ \A j \in Res : allocation'[p][j] + current_Avail'[j]
                        = allocation[p][j] + current_Avail[j]

UnitsOnlyMove == [][Transfer]_<<allocation, current_Avail>>

(***************************************************************************)
(* Once every process waits, every process waits for ever: only a granted  *)
(* process runs release and the scan, and nobody is granted any more.      *)
(* This is what the code does, and why OneReleasesAll fails.               *)
(* (main, Banker.c:117 and 171)                                            *)
(***************************************************************************)
DeadlockIsForever == [][AllWaiting => AllWaiting']_vars

(***************************************************************************)
(* A waiting process keeps what it holds and keeps asking for the same     *)
(* until it is granted everything it asked for.  (Banker.c:138 and 181)    *)
(***************************************************************************)
WaitersKeepTheirPlace ==
  [][\A p \in Proc :
        locking[p] = 1 =>
          \/ /\ locking'[p] = 1
             /\ request_Table'[p] = request_Table[p]
             /\ allocation'[p] = allocation[p]
          \/ /\ locking'[p] = 0
             /\ request_Table'[p] = Zero
             /\ allocation'[p] = Plus(allocation[p], request_Table[p])]_vars

(***************************************************************************)
(* After SIGINT main ends, unless every process has come to wait.          *)
(* (sig_handler and while (stop_flag), Banker.c:102 and 560)               *)
(***************************************************************************)
StopsUnlessAllWait == (stop_flag = 0) ~> (pc = "end" \/ AllWaiting)

(***************************************************************************)
(* What the text of the program promises and the code does not keep:       *)
(* "Termination signal" (Banker.c:77), SIGINT ends the simulation, for     *)
(* users who let no process claim more than the system has.                *)
(***************************************************************************)
ClaimsFit == \A p \in Proc : veccmp(processes[p], Availres)

SigintTerminates == (ClaimsFit /\ stop_flag = 0) ~> (pc = "end")

(***************************************************************************)
(* What README:30 announces and the code does not do: when all processes   *)
(* wait, one of them releases everything it holds.  (main, Banker.c:171)   *)
(***************************************************************************)
OneReleasesAll ==
  (ClaimsFit /\ AllWaiting) ~> \E p \in Proc : allocation[p] = Zero
=============================================================================
