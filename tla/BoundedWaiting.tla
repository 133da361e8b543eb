--------------------------- MODULE BoundedWaiting ---------------------------
(***************************************************************************)
(* bounded() of Final/Lock.c: n processes share waiting and lock; one that *)
(* leaves the critical section hands it to the next one waiting.  An       *)
(* access to a shared variable is one step, and so is test_and_set, which  *)
(* stands for an atomic instruction (Lock.c:114).  key and j are local.    *)
(***************************************************************************)
EXTENDS Integers

CONSTANT n  \* how many processes

ASSUME CountAssumption == n \in Nat \ {0}

Proc == 0 .. n - 1

VARIABLES lock, waiting, key, j, pc,
          passed  \* how often each of the others has entered the critical
                  \* section while a process has been asking (history)

vars == <<lock, waiting, key, j, pc, passed>>

Init == /\ lock = 0
        /\ waiting = [i \in Proc |-> FALSE]
        /\ key = [i \in Proc |-> FALSE]
        /\ j = [i \in Proc |-> i]
        /\ pc = [i \in Proc |-> "remainder"]
        /\ passed = [i \in Proc |-> [q \in Proc |-> 0]]

Goto(i, label) == pc' = [pc EXCEPT ![i] = label]

\* waiting[i] = true; key = true
Request(i) ==
  /\ pc[i] = "remainder"
  /\ waiting' = [waiting EXCEPT ![i] = TRUE]
  /\ key' = [key EXCEPT ![i] = TRUE]
  /\ Goto(i, "test")
  /\ UNCHANGED <<lock, j, passed>>

\* Faulty: does not look at waiting[i].
TestKey(i) ==
  /\ pc[i] = "test"
  /\ Goto(i, IF key[i] THEN "tas" ELSE "enter")
  /\ UNCHANGED <<lock, waiting, key, j, passed>>

\* while(waiting[i] && key)
Test(i) ==
  /\ pc[i] = "test"
  /\ Goto(i, IF waiting[i] /\ key[i] THEN "tas" ELSE "enter")
  /\ UNCHANGED <<lock, waiting, key, j, passed>>

\* key = test_and_set(&lock)
test_and_set(i) ==
  /\ pc[i] = "tas"
  /\ key' = [key EXCEPT ![i] = (lock = 1)]
  /\ lock' = 1
  /\ Goto(i, "test")
  /\ UNCHANGED <<waiting, j, passed>>

Asks(p) == pc[p] \in {"test", "tas", "enter"}

\* waiting[i] = 0: the critical section begins.
Enter(i) ==
  /\ pc[i] = "enter"
  /\ waiting' = [waiting EXCEPT ![i] = FALSE]
  /\ passed' = [p \in Proc |-> IF p = i THEN [q \in Proc |-> 0]
                               ELSE IF Asks(p) THEN [passed[p] EXCEPT ![i] = @ + 1]
                               ELSE passed[p]]
  /\ Goto(i, "critical")
  /\ UNCHANGED <<lock, key, j>>

\* Faulty: every scan begins at the first process.
LeaveToFirst(i) ==
  /\ pc[i] = "critical"
  /\ j' = [j EXCEPT ![i] = 0]
  /\ Goto(i, "scan")
  /\ UNCHANGED <<lock, waiting, key, passed>>

\* j = (i+1) % n
Leave(i) ==
  /\ pc[i] = "critical"
  /\ j' = [j EXCEPT ![i] = (i + 1) % n]
  /\ Goto(i, "scan")
  /\ UNCHANGED <<lock, waiting, key, passed>>

\* while((j!=i) && !waiting[j]) j = (j+1) % n
Scan(i) ==
  /\ pc[i] = "scan" /\ j[i] # i /\ ~ waiting[j[i]]
  /\ j' = [j EXCEPT ![i] = (@ + 1) % n]
  /\ UNCHANGED <<lock, waiting, key, pc, passed>>

ScanEnds(i) ==
  /\ pc[i] = "scan"
  /\ \/ j[i] = i /\ Goto(i, "unlock")
     \/ j[i] # i /\ waiting[j[i]] /\ Goto(i, "handover")
  /\ UNCHANGED <<lock, waiting, key, j, passed>>

\* Nobody waits: lock = 0
Unlock(i) ==
  /\ pc[i] = "unlock"
  /\ lock' = 0
  /\ Goto(i, "remainder")
  /\ UNCHANGED <<waiting, key, j, passed>>

\* Faulty: the lock is released as well.
HandOverAndUnlock(i) ==
  /\ pc[i] = "handover"
  /\ waiting' = [waiting EXCEPT ![j[i]] = FALSE]
  /\ lock' = 0
  /\ Goto(i, "remainder")
  /\ UNCHANGED <<key, j, passed>>

\* waiting[j] = 0: the next process leaves its loop with the lock still set.
HandOver(i) ==
  /\ pc[i] = "handover"
  /\ waiting' = [waiting EXCEPT ![j[i]] = FALSE]
  /\ Goto(i, "remainder")
  /\ UNCHANGED <<lock, key, j, passed>>

\* Everything but the request for the critical section.
Work(i) == \/ Test(i) \/ test_and_set(i) \/ Enter(i) \/ Leave(i) \/ Scan(i)
           \/ ScanEnds(i) \/ Unlock(i) \/ HandOver(i)

Next == \E i \in Proc : Request(i) \/ Work(i)

Spec == Init /\ [][Next]_vars

\* Every process keeps running, but need not ask for the critical section.
FairSpec == Spec /\ \A i \in Proc : WF_vars(Work(i))
-----------------------------------------------------------------------------
Label == {"remainder", "test", "tas", "enter", "critical", "scan", "unlock",
          "handover"}

TypeOK == /\ lock \in {0, 1}
          /\ waiting \in [Proc -> BOOLEAN]
          /\ key \in [Proc -> BOOLEAN]
          /\ j \in [Proc -> Proc]
          /\ pc \in [Proc -> Label]
          /\ passed \in [Proc -> [Proc -> Nat]]

(***************************************************************************)
(* "Mutual Exclusion - only one process may be in critical section at any  *)
(* time" (Lock.c:78), although it is entered in two ways, with the lock    *)
(* and by being handed over.                                               *)
(***************************************************************************)
MutualExclusion ==
  \A p, q \in Proc : pc[p] = "critical" /\ pc[q] = "critical" => p = q

(***************************************************************************)
(* "a bound must exist on the number of times that other processes are     *)
(* allowed to enter their critical sections after a process has made a     *)
(* request" (Lock.c:82): each of the others enters its own once at most.   *)
(***************************************************************************)
OvertakenOnceByEach == \A p, q \in Proc : passed[p][q] <= 1

(***************************************************************************)
(* Whoever asks for the critical section gets it.  (bounded, Lock.c:183)   *)
(***************************************************************************)
Served == \A p \in Proc : pc[p] = "test" ~> pc[p] = "critical"
=============================================================================
