----------------------------- MODULE LockProofs -----------------------------
(***************************************************************************)
(* What the sketches of Final/Lock.c do for any number of processes,       *)
(* places and chopsticks: mutual exclusion and bounded overtaking of       *)
(* bounded(), the philosophers, producer and consumer, and the semaphore.  *)
(***************************************************************************)
EXTENDS BoundedWaiting, ProducerConsumer, Semaphore, Philosophers,
        FiniteSetTheorems, TLAPS
-----------------------------------------------------------------------------
(* The lock of bounded().                                                  *)

Trying(p) == pc[p] \in {"test", "tas"}

(***************************************************************************)
(* The critical section belongs to a process from the moment it finds the  *)
(* lock free, or is handed over to, until it unlocks or hands over itself. *)
(***************************************************************************)
Owns(p) == \/ pc[p] \in {"enter", "critical", "scan", "unlock", "handover"}
           \/ Trying(p) /\ (~ waiting[p] \/ ~ key[p])

OneOwner == \A p, q \in Proc : Owns(p) /\ Owns(q) => p = q
OwnerLocks == \A p \in Proc : Owns(p) => lock = 1
WaitersTry == \A p \in Proc : waiting[p] => Trying(p) \/ pc[p] = "enter"
HeirWaits == \A p \in Proc : pc[p] = "handover" => j[p] # p /\ waiting[j[p]]

Inv == TypeOK /\ OneOwner /\ OwnerLocks /\ WaitersTry /\ HeirWaits

(***************************************************************************)
(* The successor of a process, around the circle, is a process.            *)
(***************************************************************************)
LEMMA NextProc == \A p \in Proc : (p + 1) % n \in Proc
  BY CountAssumption DEF Proc

(***************************************************************************)
(* Every variable keeps its type; the scan of a process that leaves stays  *)
(* within the processes.                                                   *)
(***************************************************************************)
LEMMA TypeStep == TypeOK /\ [Next]_vars => TypeOK'
<1> SUFFICES ASSUME TypeOK, [Next]_vars PROVE TypeOK'
  OBVIOUS
<1> USE CountAssumption DEF TypeOK, Label
<1>1. ASSUME NEW i \in Proc, Request(i) PROVE TypeOK'
  BY <1>1 DEF Request, Goto
<1>2. ASSUME NEW i \in Proc, Test(i) PROVE TypeOK'
  BY <1>2 DEF Test, Goto
<1>3. ASSUME NEW i \in Proc, test_and_set(i) PROVE TypeOK'
  BY <1>3 DEF test_and_set, Goto
<1>4. ASSUME NEW i \in Proc, Enter(i) PROVE TypeOK'
  <2>1. passed' \in [Proc -> [Proc -> Nat]]
    <3>1. \A p \in Proc : [passed[p] EXCEPT ![i] = @ + 1] \in [Proc -> Nat]
      OBVIOUS
    <3> QED
      BY <1>4, <3>1 DEF Enter
  <2> QED
    BY <1>4, <2>1 DEF Enter, Goto
<1>5. ASSUME NEW i \in Proc, Leave(i) PROVE TypeOK'
  <2>1. (i + 1) % n \in Proc
    BY NextProc
  <2> QED
    BY <1>5, <2>1 DEF Leave, Goto
<1>6. ASSUME NEW i \in Proc, Scan(i) PROVE TypeOK'
  <2>1. (j[i] + 1) % n \in Proc
    BY NextProc
  <2> QED
    BY <1>6, <2>1 DEF Scan
<1>7. ASSUME NEW i \in Proc, ScanEnds(i) PROVE TypeOK'
  BY <1>7 DEF ScanEnds, Goto
<1>8. ASSUME NEW i \in Proc, Unlock(i) PROVE TypeOK'
  BY <1>8 DEF Unlock, Goto
<1>9. ASSUME NEW i \in Proc, HandOver(i) PROVE TypeOK'
  BY <1>9 DEF HandOver, Goto
<1>10. CASE UNCHANGED vars
  BY <1>10 DEF vars
<1> QED
  BY <1>1, <1>2, <1>3, <1>4, <1>5, <1>6, <1>7, <1>8, <1>9, <1>10
  DEF Next, Work

(***************************************************************************)
(* No step makes a second owner: test_and_set finds the lock free only     *)
(* when nobody owns the critical section, and a hand-over makes one owner  *)
(* of another.                                                             *)
(***************************************************************************)
LEMMA OwnerStep == Inv /\ [Next]_vars =>
                     OneOwner' /\ OwnerLocks' /\ WaitersTry' /\ HeirWaits'
<1> SUFFICES ASSUME Inv, [Next]_vars
             PROVE  OneOwner' /\ OwnerLocks' /\ WaitersTry' /\ HeirWaits'
  OBVIOUS
<1> USE DEF Inv, TypeOK, OneOwner, OwnerLocks, WaitersTry, HeirWaits, Owns,
            Trying, Label
<1>1. ASSUME NEW i \in Proc, Request(i)
      PROVE  OneOwner' /\ OwnerLocks' /\ WaitersTry' /\ HeirWaits'
  BY <1>1 DEF Request, Goto
<1>2. ASSUME NEW i \in Proc, Test(i)
      PROVE  OneOwner' /\ OwnerLocks' /\ WaitersTry' /\ HeirWaits'
  BY <1>2 DEF Test, Goto
<1>3. ASSUME NEW i \in Proc, test_and_set(i)
      PROVE  OneOwner' /\ OwnerLocks' /\ WaitersTry' /\ HeirWaits'
  BY <1>3 DEF test_and_set, Goto
<1>4. ASSUME NEW i \in Proc, Enter(i)
      PROVE  OneOwner' /\ OwnerLocks' /\ WaitersTry' /\ HeirWaits'
  BY <1>4 DEF Enter, Goto
<1>5. ASSUME NEW i \in Proc, Leave(i)
      PROVE  OneOwner' /\ OwnerLocks' /\ WaitersTry' /\ HeirWaits'
  BY <1>5 DEF Leave, Goto
<1>6. ASSUME NEW i \in Proc, Scan(i)
      PROVE  OneOwner' /\ OwnerLocks' /\ WaitersTry' /\ HeirWaits'
  BY <1>6 DEF Scan
<1>7. ASSUME NEW i \in Proc, ScanEnds(i)
      PROVE  OneOwner' /\ OwnerLocks' /\ WaitersTry' /\ HeirWaits'
  <2>1. /\ pc[i] = "scan" /\ UNCHANGED <<lock, waiting, key, j>>
        /\ \/ pc' = [pc EXCEPT ![i] = "unlock"]
           \/ pc' = [pc EXCEPT ![i] = "handover"] /\ j[i] # i /\ waiting[j[i]]
    BY <1>7 DEF ScanEnds, Goto
  <2>2. CASE pc' = [pc EXCEPT ![i] = "unlock"]
    BY <2>1, <2>2
  <2>3. CASE pc' = [pc EXCEPT ![i] = "handover"] /\ j[i] # i /\ waiting[j[i]]
    BY <2>1, <2>3
  <2> QED
    BY <2>1, <2>2, <2>3
<1>8. ASSUME NEW i \in Proc, Unlock(i)
      PROVE  OneOwner' /\ OwnerLocks' /\ WaitersTry' /\ HeirWaits'
  BY <1>8 DEF Unlock, Goto
<1>9. ASSUME NEW i \in Proc, HandOver(i)
      PROVE  OneOwner' /\ OwnerLocks' /\ WaitersTry' /\ HeirWaits'
  BY <1>9 DEF HandOver, Goto
<1>10. CASE UNCHANGED vars
  BY <1>10 DEF vars
<1> QED
  BY <1>1, <1>2, <1>3, <1>4, <1>5, <1>6, <1>7, <1>8, <1>9, <1>10
  DEF Next, Work

(***************************************************************************)
(* The invariant: there is at most one owner, and while there is one the   *)
(* lock is set. (bounded, Lock.c:177)                                      *)
(***************************************************************************)
THEOREM Invariance == Spec => []Inv
<1>1. Init => Inv
  BY CountAssumption
  DEF Init, Inv, TypeOK, OneOwner, OwnerLocks, WaitersTry, HeirWaits, Owns,
      Trying, Label
<1>2. Inv /\ [Next]_vars => Inv'
  BY TypeStep, OwnerStep DEF Inv
<1> QED
  BY <1>1, <1>2, PTL DEF Spec

(***************************************************************************)
(* Only one process may be in its critical section at any time, for any    *)
(* number of processes. (Lock.c:78)                                        *)
(***************************************************************************)
THEOREM Exclusion == Spec => []MutualExclusion
<1>1. Inv => MutualExclusion
  BY DEF Inv, OneOwner, Owns, MutualExclusion
<1> QED
  BY <1>1, Invariance, PTL
-----------------------------------------------------------------------------
(* Overtaking.                                                             *)

\* How far b is from a, going round.
Dist(a, b) == IF a <= b THEN b - a ELSE (b - a) + n

\* Nobody has passed p; nobody has passed p who is at d or nearer to it.
NoneYet(p) == \A q \in Proc : passed[p][q] = 0
NoneFrom(p, d) == \A q \in Proc : passed[p][q] # 0 => Dist(q, p) > d

(***************************************************************************)
(* Who may already have passed p, while o owns the critical section: those *)
(* farther from p than the one who enters next, since every hand-over gets *)
(* nearer to p; nobody, if the scan was past p when p asked.               *)
(***************************************************************************)
Near(p, o) ==
  /\ Asks(o) => NoneFrom(p, Dist(o, p))
  /\ pc[o] = "critical" => NoneFrom(p, Dist(o, p) - 1)
  /\ pc[o] = "scan" =>
       \/ NoneYet(p)
       \/ NoneFrom(p, Dist(o, p) - 1) /\ j[o] # o /\ Dist(o, j[o]) <= Dist(o, p)
  /\ pc[o] = "unlock" => NoneYet(p)
  /\ pc[o] = "handover" => NoneFrom(p, Dist(j[o], p))

Unpassed(p) ==
  /\ \A q \in Proc : passed[p][q] <= 1
  /\ (\A o \in Proc : ~ Owns(o)) => NoneYet(p)
  /\ \A o \in Proc \ {p} : Owns(o) => Near(p, o)

KeySet == \A p \in Proc : pc[p] = "tas" => key[p]

OInv == KeySet /\ \A p \in Proc : IF Asks(p) THEN Unpassed(p) ELSE NoneYet(p)

(***************************************************************************)
(* Distances around the circle.                                            *)
(***************************************************************************)
LEMMA Distances ==
  ASSUME NEW a \in Proc, NEW b \in Proc
  PROVE  /\ Dist(a, b) \in 0 .. n - 1
         /\ a # b => Dist(a, b) > 0
         /\ Dist(b, b) = 0
  BY CountAssumption DEF Dist, Proc

(***************************************************************************)
(* A scan that has not reached b does not go past b by its next step.      *)
(***************************************************************************)
LEMMA OneFurther ==
  ASSUME NEW a \in Proc, NEW k \in Proc, NEW b \in Proc, k # b, Dist(a, k) <= Dist(a, b)
  PROVE  (k + 1) % n # a /\ Dist(a, (k + 1) % n) <= Dist(a, b)
<1>1. (k + 1) % n = IF k + 1 = n THEN 0 ELSE k + 1
  BY CountAssumption DEF Proc
<1> QED
  BY <1>1, CountAssumption DEF Dist, Proc

(***************************************************************************)
(* Whoever is met on the way from a to b is nearer to b.                   *)
(***************************************************************************)
LEMMA Nearer ==
  ASSUME NEW a \in Proc, NEW k \in Proc, NEW b \in Proc, k # a, Dist(a, k) <= Dist(a, b)
  PROVE  Dist(k, b) < Dist(a, b)
  BY CountAssumption DEF Dist, Proc

(***************************************************************************)
(* Every step keeps the bound on the critical sections of others.          *)
(***************************************************************************)
LEMMA PassStep == Inv /\ OInv /\ [Next]_vars => OInv'
<1> SUFFICES ASSUME Inv, OInv, [Next]_vars PROVE OInv'
  OBVIOUS
<1>t. /\ waiting \in [Proc -> BOOLEAN] /\ key \in [Proc -> BOOLEAN]
      /\ j \in [Proc -> Proc] /\ pc \in [Proc -> Label]
      /\ passed \in [Proc -> [Proc -> Nat]] /\ n \in Nat \ {0}
  BY CountAssumption DEF Inv, TypeOK
<1>o. /\ \A p, q \in Proc : Owns(p) /\ Owns(q) => p = q
      /\ \A p \in Proc : Owns(p) => lock = 1
      /\ \A p \in Proc : waiting[p] => Asks(p)
      /\ \A p \in Proc : pc[p] = "handover" => j[p] # p /\ waiting[j[p]]
  BY DEF Inv, OneOwner, OwnerLocks, WaitersTry, HeirWaits, Trying, Asks
<1>k. \A p \in Proc : pc[p] = "tas" => key[p]
  BY DEF OInv, KeySet
<1>u. \A p \in Proc : IF Asks(p) THEN Unpassed(p) ELSE NoneYet(p)
  BY DEF OInv
<1>d. \A a, b \in Proc : Dist(a, b) \in 0 .. n - 1 /\ Dist(a, b) \in Nat /\ Dist(a, b) < n
                       /\ (a # b => Dist(a, b) > 0) /\ Dist(b, b) = 0
  BY Distances, CountAssumption
<1>n. ASSUME NEW p \in Proc, NoneYet(p) PROVE \A d : NoneFrom(p, d)
  BY <1>n DEF NoneYet, NoneFrom
<1>K. KeySet'
  BY <1>t, <1>k DEF KeySet, Next, Work, Request, Test, test_and_set, Enter, Leave, Scan,
    ScanEnds, Unlock, HandOver, Goto, vars, Label
<1> SUFFICES ASSUME NEW p \in Proc
             PROVE  IF Asks(p)' THEN Unpassed(p)' ELSE NoneYet(p)'
  BY <1>K DEF OInv
<1> DEFINE Goal == IF Asks(p)' THEN Unpassed(p)' ELSE NoneYet(p)'
<1>s. ASSUME passed' = passed
      PROVE  /\ NoneYet(p)' <=> NoneYet(p)
             /\ \A d : NoneFrom(p, d)' <=> NoneFrom(p, d)
             /\ (\A q \in Proc : passed[p][q] <= 1)' <=> \A q \in Proc : passed[p][q] <= 1
  BY <1>s DEF NoneYet, NoneFrom
<1>y. NoneYet(p) => \A q \in Proc : passed[p][q] <= 1
  BY DEF NoneYet
<1> USE <1>t, <1>d DEF Unpassed, Near, Owns, Trying, Asks, Label
<1>1. ASSUME NEW i \in Proc, Request(i) PROVE Goal
  BY <1>1, <1>u, <1>s, <1>n, <1>y DEF Request, Goto
<1>2. ASSUME NEW i \in Proc, Test(i) PROVE Goal
  BY <1>2, <1>u, <1>s DEF Test, Goto
<1>3. ASSUME NEW i \in Proc, test_and_set(i) PROVE Goal
  BY <1>3, <1>u, <1>k, <1>o, <1>s, <1>n DEF test_and_set, Goto
<1>4. ASSUME NEW i \in Proc, Enter(i) PROVE Goal
  <2>1. /\ pc[i] = "enter" /\ UNCHANGED <<lock, key, j>>
        /\ waiting' = [waiting EXCEPT ![i] = FALSE]
        /\ pc' = [pc EXCEPT ![i] = "critical"]
    BY <1>4 DEF Enter, Goto
  <2>2. \A o \in Proc : Owns(o)' => o = i
    BY <1>o, <2>1
  <2>3. CASE p = i
    <3>1. NoneYet(p)'
      BY <1>4, <2>3 DEF Enter, NoneYet
    <3> QED
      BY <2>1, <2>3, <3>1
  <2>4. CASE p # i /\ ~ Asks(p)
    <3>1. passed'[p] = passed[p]
      BY <1>4, <2>4 DEF Enter
    <3>2. NoneYet(p)'
      BY <1>u, <2>4, <3>1 DEF NoneYet
    <3> QED
      BY <2>1, <2>4, <3>2
  <2>5. CASE p # i /\ Asks(p)
    <3>1. passed'[p] = [passed[p] EXCEPT ![i] = @ + 1]
      BY <1>4, <2>5 DEF Enter, Asks
    <3>2. NoneFrom(p, Dist(i, p)) /\ \A q \in Proc : passed[p][q] <= 1
      BY <1>u, <2>1, <2>5
    <3>3. passed[p][i] = 0
      BY <3>2 DEF NoneFrom
    <3>4. \A q \in Proc : passed'[p][q] = IF q = i THEN 1 ELSE passed[p][q]
      BY <3>1, <3>3
    <3>5. \A q \in Proc : passed'[p][q] <= 1
      BY <3>2, <3>4
    <3>6. NoneFrom(p, Dist(i, p) - 1)'
      BY <3>2, <3>4 DEF NoneFrom
    <3>7. Near(p, i)'
      BY <2>1, <3>6
    <3>8. Owns(i)'
      BY <2>1
    <3> QED
      BY <2>1, <2>2, <2>5, <3>5, <3>7, <3>8
  <2> QED
    BY <2>3, <2>4, <2>5
<1>5. ASSUME NEW i \in Proc, Leave(i) PROVE Goal
  <2> DEFINE k == (i + 1) % n
  <2>1. /\ pc[i] = "critical" /\ UNCHANGED <<waiting, key, passed>>
        /\ pc' = [pc EXCEPT ![i] = "scan"] /\ j' = [j EXCEPT ![i] = k]
    BY <1>5 DEF Leave, Goto
  <2>2. CASE ~ Asks(p)
    BY <1>u, <1>s, <2>1, <2>2
  <2>3. CASE Asks(p)
    <3>1. p # i /\ NoneFrom(p, Dist(i, p) - 1) /\ \A q \in Proc : passed[p][q] <= 1
      BY <1>u, <2>1, <2>3
    <3>2. k # i /\ Dist(i, k) <= Dist(i, p) /\ k \in Proc
      BY <3>1, OneFurther, NextProc
    <3> HIDE DEF k
    <3>3. Near(p, i)'
      BY <1>s, <2>1, <3>1, <3>2
    <3>4. Owns(i)' /\ \A o \in Proc : Owns(o)' => o = i
      BY <1>o, <2>1
    <3> QED
      BY <1>s, <2>1, <2>3, <3>1, <3>3, <3>4
  <2> QED
    BY <2>2, <2>3
<1>6. ASSUME NEW i \in Proc, Scan(i) PROVE Goal
  <2> DEFINE k == (j[i] + 1) % n
  <2>1. /\ pc[i] = "scan" /\ UNCHANGED <<waiting, key, pc, passed>>
        /\ ~ waiting[j[i]] /\ j[i] # i /\ j' = [j EXCEPT ![i] = k]
    BY <1>6 DEF Scan
  <2>2. CASE ~ Asks(p)
    BY <1>u, <1>s, <2>1, <2>2
  <2>3. CASE Asks(p)
    <3>1. /\ p # i /\ \A q \in Proc : passed[p][q] <= 1
          /\ \/ NoneYet(p)
             \/ NoneFrom(p, Dist(i, p) - 1) /\ Dist(i, j[i]) <= Dist(i, p)
      <4>1. p # i /\ Owns(i) /\ Unpassed(p)
        BY <1>u, <2>1, <2>3
      <4>2. Near(p, i)
        BY <4>1
      <4> QED
        BY <2>1, <4>1, <4>2
    <3>2. j[i] # p
      <4> SUFFICES ASSUME j[i] = p PROVE FALSE
        OBVIOUS
      <4>1. Owns(p) /\ Owns(i)
        BY <2>1, <2>3
      <4> QED
        BY <1>o, <3>1, <4>1
    <3>3. Dist(i, j[i]) <= Dist(i, p) => k # i /\ Dist(i, k) <= Dist(i, p)
      <4>1. i \in Proc /\ j[i] \in Proc
        OBVIOUS
      <4> QED
        BY <3>2, <4>1, OneFurther
    <3>4. k \in Proc
      BY NextProc
    <3> HIDE DEF k
    <3>5. Near(p, i)'
      BY <1>s, <2>1, <3>1, <3>3, <3>4
    <3>6. Owns(i)' /\ \A o \in Proc : Owns(o)' => o = i
      BY <1>o, <2>1
    <3> QED
      BY <1>s, <2>1, <2>3, <3>1, <3>5, <3>6
  <2> QED
    BY <2>2, <2>3
<1>7. ASSUME NEW i \in Proc, ScanEnds(i) PROVE Goal
  <2>1. /\ pc[i] = "scan" /\ UNCHANGED <<waiting, key, j, passed>>
        /\ \/ j[i] = i /\ pc' = [pc EXCEPT ![i] = "unlock"]
           \/ j[i] # i /\ pc' = [pc EXCEPT ![i] = "handover"]
    BY <1>7 DEF ScanEnds, Goto
  <2>2. CASE ~ Asks(p)
    BY <1>u, <1>s, <2>1, <2>2
  <2>3. CASE Asks(p)
    <3>1. /\ p # i /\ \A q \in Proc : passed[p][q] <= 1
          /\ \/ NoneYet(p)
             \/ NoneFrom(p, Dist(i, p) - 1) /\ j[i] # i /\ Dist(i, j[i]) <= Dist(i, p)
      BY <1>u, <2>1, <2>3
    <3>2. j[i] # i => NoneFrom(p, Dist(j[i], p))
      <4>1. CASE NoneYet(p)
        BY <1>n, <4>1
      <4>2. CASE ~ NoneYet(p) /\ j[i] # i
        <5>1. Dist(j[i], p) < Dist(i, p)
          BY <3>1, <4>2, Nearer
        <5> QED
          BY <3>1, <4>2, <5>1 DEF NoneFrom
      <4> QED
        BY <4>1, <4>2
    <3>3. Near(p, i)'
      BY <1>s, <2>1, <3>1, <3>2
    <3>4. Owns(i)' /\ \A o \in Proc : Owns(o)' => o = i
      BY <1>o, <2>1
    <3> QED
      BY <1>s, <2>1, <2>3, <3>1, <3>3, <3>4
  <2> QED
    BY <2>2, <2>3
<1>8. ASSUME NEW i \in Proc, Unlock(i) PROVE Goal
  BY <1>8, <1>u, <1>o, <1>s DEF Unlock, Goto
<1>9. ASSUME NEW i \in Proc, HandOver(i) PROVE Goal
  BY <1>9, <1>u, <1>o, <1>s DEF HandOver, Goto
<1>10. CASE UNCHANGED vars
  BY <1>10, <1>u, <1>s DEF vars
<1> QED
  BY <1>1, <1>2, <1>3, <1>4, <1>5, <1>6, <1>7, <1>8, <1>9, <1>10
  DEF Next, Work

(***************************************************************************)
(* Each of the others passes a process that asks once at most, for any     *)
(* number of processes. (Lock.c:82)                                        *)
(***************************************************************************)
THEOREM Overtaking == Spec => []OvertakenOnceByEach
<1>1. Init => OInv
  <2>1. Init => \A p \in Proc : ~ Asks(p) /\ pc[p] # "tas" /\ NoneYet(p)
    BY DEF Init, Asks, NoneYet
  <2> QED
    BY <2>1 DEF OInv, KeySet
<1>2. OInv => OvertakenOnceByEach
  BY DEF OInv, Unpassed, NoneYet, OvertakenOnceByEach
<1>3. Inv /\ OInv /\ [Next]_vars => OInv'
  BY PassStep
<1> QED
  BY <1>1, <1>2, <1>3, Invariance, PTL DEF Spec
-----------------------------------------------------------------------------
(* The philosophers with chopsticks.                                       *)

(***************************************************************************)
(* The neighbour on the right is one of the philosophers.                  *)
(***************************************************************************)
LEMMA Around == \A i \in Seat : RightOf(i) \in Seat
  BY SeatsAssumption DEF Seat, RightOf

HasLeft(i)  == phil[i] \in {"left", "eat"} \/ i \in ate
HasRight(i) == phil[i] = "eat" \/ i \in ate

(***************************************************************************)
(* A chopstick somebody has taken is gone, and nobody has it twice.        *)
(***************************************************************************)
PhilInv ==
  /\ PhilTypeOK
  /\ \A i \in Seat : /\ HasLeft(i) => chopstick[i] = 0
                     /\ HasRight(i) => /\ chopstick[RightOf(i)] = 0
                                       /\ ~ HasLeft(RightOf(i))
                     /\ i \in ate => phil[i] = "think"

(***************************************************************************)
(* No philosopher ever puts back what it has taken, in any step.           *)
(* (philosopher, Lock.c:313)                                               *)
(***************************************************************************)
LEMMA PhilInvariance == PhilSpec => []PhilInv
<1> USE SeatsAssumption DEF PhilInv, PhilTypeOK, HasLeft, HasRight
<1>1. PhilInit => PhilInv
  BY Around DEF PhilInit
<1>2. PhilInv /\ [PhilNext]_philVars => PhilInv'
  <2> SUFFICES ASSUME PhilInv, [PhilNext]_philVars PROVE PhilInv'
    OBVIOUS
  <2>1. ASSUME NEW i \in Seat, WaitLeft(i) PROVE PhilInv'
    BY <2>1, Around DEF WaitLeft, wait
  <2>2. ASSUME NEW i \in Seat, WaitRight(i) PROVE PhilInv'
    BY <2>2, Around DEF WaitRight, wait
  <2>3. ASSUME NEW i \in Seat, Eat(i) PROVE PhilInv'
    BY <2>3, Around DEF Eat
  <2>4. CASE UNCHANGED philVars
    BY <2>4 DEF philVars
  <2> QED
    BY <2>1, <2>2, <2>3, <2>4 DEF PhilNext, philosopher
<1> QED
  BY <1>1, <1>2, PTL DEF PhilSpec

(***************************************************************************)
(* Each philosopher eats at most once, and of two neighbours at most one,  *)
(* at a table of any size. (philosopher, Lock.c:313)                       *)
(***************************************************************************)
THEOREM MealsAreFew == PhilSpec => []OneMealForTwo
<1>1. PhilInv => OneMealForTwo
  BY Around DEF PhilInv, PhilTypeOK, HasLeft, HasRight, OneMealForTwo, HasEaten
<1> QED
  BY <1>1, PhilInvariance, PTL

(***************************************************************************)
(* Whoever waits for a chopstick that is gone waits for ever, and so does  *)
(* whoever has eaten: no step of the others ends it, because no call of    *)
(* signal follows the two of wait.  (philosopher, Lock.c:313)              *)
(***************************************************************************)
THEOREM HungerStays ==
  PhilSpec => [][\A i \in Seat : Waits(i) \/ i \in ate
                               => Waits(i)' /\ phil'[i] = phil[i]]_philVars
<1> DEFINE Stays == \A i \in Seat : Waits(i) \/ i \in ate
                                   => Waits(i)' /\ phil'[i] = phil[i]
<1> USE SeatsAssumption DEF PhilInv, PhilTypeOK, HasLeft, HasRight, Waits
<1>1. PhilInv /\ [PhilNext]_philVars => [Stays]_philVars
  <2> SUFFICES ASSUME PhilInv, PhilNext, NEW k \in Seat, Waits(k) \/ k \in ate
               PROVE  Waits(k)' /\ phil'[k] = phil[k]
    OBVIOUS
  <2>0. Waits(k) /\ RightOf(k) \in Seat
    BY Around
  <2>1. ASSUME NEW i \in Seat, WaitLeft(i) PROVE Waits(k)' /\ phil'[k] = phil[k]
    BY <2>0, <2>1, Around DEF WaitLeft, wait
  <2>2. ASSUME NEW i \in Seat, WaitRight(i) PROVE Waits(k)' /\ phil'[k] = phil[k]
    BY <2>0, <2>2, Around DEF WaitRight, wait
  <2>3. ASSUME NEW i \in Seat, Eat(i) PROVE Waits(k)' /\ phil'[k] = phil[k]
    BY <2>0, <2>3, Around DEF Eat
  <2> QED
    BY <2>1, <2>2, <2>3 DEF PhilNext, philosopher
<1> QED
  BY <1>1, PhilInvariance, PTL DEF PhilSpec
-----------------------------------------------------------------------------
(* The ring of producer and consumer.                                      *)

(***************************************************************************)
(* Quotient and remainder.                                                 *)
(***************************************************************************)
LEMMA DivMod == ASSUME NEW B \in Nat \ {0}, NEW a \in Nat
                PROVE  /\ a = B * (a \div B) + (a % B)
                       /\ a \div B \in Nat
                       /\ a % B \in 0 .. B - 1
  OBVIOUS

(***************************************************************************)
(* The only multiple of B between -B and B is 0.                           *)
(***************************************************************************)
LEMMA SmallMultiple == ASSUME NEW B \in Nat \ {0}, NEW d \in Int, -B < B * d, B * d < B
                       PROVE  d = 0
<1>1. CASE d <= -1
  <2>1. B * d <= -B
    BY <1>1
  <2> QED
    BY <2>1
<1>2. CASE d >= 1
  <2>1. B * d >= B
    BY <1>2
  <2> QED
    BY <2>1
<1> QED
  BY <1>1, <1>2

(***************************************************************************)
(* The remainder is the only one.                                          *)
(***************************************************************************)
LEMMA Residue == ASSUME NEW B \in Nat \ {0}, NEW q \in Nat, NEW r \in 0 .. B - 1
                 PROVE  (B * q + r) % B = r
<1> DEFINE a == B * q + r
<1>1. a \in Nat
  OBVIOUS
<1> HIDE DEF a
<1>2. PICK p \in Nat : a = B * p + (a % B)
  BY <1>1, DivMod
<1>3. a % B \in 0 .. B - 1
  BY <1>1, DivMod
<1>4. B * (q - p) = (a % B) - r
  <2>1. B * (q - p) = B * q - B * p
    OBVIOUS
  <2> QED
    BY <2>1, <1>1, <1>2, <1>3 DEF a
<1>5. q - p = 0
  BY <1>3, <1>4, SmallMultiple
<1>6. B * (q - p) = 0
  BY <1>5
<1> QED
  BY <1>3, <1>4, <1>6 DEF a
(***************************************************************************)
(* Numbers less than B apart are at different places of a ring.            *)
(***************************************************************************)
LEMMA Apart == ASSUME NEW B \in Nat \ {0}, NEW a \in Nat, NEW b \in Nat, a < b, b - a < B
               PROVE  a % B # b % B
<1> SUFFICES ASSUME a % B = b % B PROVE FALSE
  OBVIOUS
<1>1. PICK p \in Nat : a = B * p + (a % B)
  BY DivMod
<1>2. PICK q \in Nat : b = B * q + (b % B)
  BY DivMod
<1>3. a % B \in Nat
  BY DivMod
<1>4. b - a = B * q - B * p
  BY <1>1, <1>2, <1>3
<1>5. B * (q - p) = b - a
  BY <1>4
<1>6. q - p = 0
  BY <1>5, SmallMultiple
<1>7. B * (q - p) = 0
  BY <1>6
<1> QED
  BY <1>5, <1>7
(***************************************************************************)
(* One step on the ring is one step of the number.                         *)
(***************************************************************************)
LEMMA Succ == ASSUME NEW B \in Nat \ {0}, NEW a \in Nat
              PROVE  ((a % B) + 1) % B = (a + 1) % B
<1>1. PICK q \in Nat : a = B * q + (a % B)
  BY DivMod
<1>2. a % B \in 0 .. B - 1
  BY DivMod
<1>3. CASE (a % B) + 1 < B
  <2>1. a + 1 = B * q + ((a % B) + 1)
    BY <1>1, <1>2
  <2> DEFINE r == (a % B) + 1
  <2>2. r \in 0 .. B - 1
    BY <1>2, <1>3
  <2>3. a + 1 = B * q + r
    BY <2>1
  <2> HIDE DEF r
  <2>4. (a + 1) % B = r
    BY <2>2, <2>3, Residue
  <2>5. r % B = r
    BY <2>2
  <2> QED
    BY <2>4, <2>5 DEF r
<1>4. CASE (a % B) + 1 = B
  <2>1. a + 1 = B * (q + 1) + 0
    BY <1>1, <1>2, <1>4
  <2>2. (a + 1) % B = 0
    <3>1. (B * (q + 1) + 0) % B = 0
      BY Residue
    <3> QED
      BY <2>1, <3>1
  <2>3. B % B = 0
    OBVIOUS
  <2> QED
    BY <1>4, <2>2, <2>3
<1> QED
  BY <1>2, <1>3, <1>4
(***************************************************************************)
(* counter stays in its range although updates are lost: whoever changes   *)
(* it has seen it, or is about to see it, on the right side of its limit.  *)
(***************************************************************************)
RangeInv ==
  /\ PCTypeOK
  /\ counter \in 0 .. BUFFER_SIZE
  /\ producer \in {"put", "load"} => counter < BUFFER_SIZE
  /\ producer = "add" => register1 \in 0 .. BUFFER_SIZE - 1
  /\ consumer \in {"get", "load"} => counter > 0
  /\ consumer = "subtract" => register2 \in 1 .. BUFFER_SIZE

(***************************************************************************)
(* Every step keeps counter in its range.                                  *)
(***************************************************************************)
LEMMA RangeStep == RangeInv /\ [PCNext]_pcVars => RangeInv'
<1> SUFFICES ASSUME RangeInv, [PCNext]_pcVars PROVE RangeInv'
  OBVIOUS
<1> USE BufferAssumption DEF RangeInv, PCTypeOK
<1>1. CASE ProducerPasses
  BY <1>1 DEF ProducerPasses
<1>2. CASE Put
  BY <1>2 DEF Put
<1>3. CASE ProducerLoads
  BY <1>3 DEF ProducerLoads
<1>4. CASE ProducerStores
  BY <1>4 DEF ProducerStores
<1>5. CASE ConsumerPasses
  BY <1>5 DEF ConsumerPasses
<1>6. CASE Get
  BY <1>6 DEF Get
<1>7. CASE ConsumerLoads
  BY <1>7 DEF ConsumerLoads
<1>8. CASE ConsumerStores
  BY <1>8 DEF ConsumerStores
<1>9. CASE UNCHANGED pcVars
  BY <1>9 DEF pcVars
<1> QED
  BY <1>1, <1>2, <1>3, <1>4, <1>5, <1>6, <1>7, <1>8, <1>9 DEF PCNext

Taken == Len(consumed)
Uncounted == IF producer \in {"load", "add"} THEN 1 ELSE 0
Overcounted == IF consumer \in {"load", "subtract"} THEN 1 ELSE 0

(***************************************************************************)
(* Without a lost update counter is the number of items in the ring, up to *)
(* the change that either process has still to make.                       *)
(***************************************************************************)
CountInv == ~ overlap => counter = produced - Taken - Uncounted + Overcounted

(***************************************************************************)
(* Every step keeps the count.                                             *)
(***************************************************************************)
LEMMA CountStep == RangeInv /\ CountInv /\ [PCNext]_pcVars => CountInv'
<1> SUFFICES ASSUME RangeInv, CountInv, [PCNext]_pcVars PROVE CountInv'
  OBVIOUS
<1>1. /\ produced \in Nat /\ counter \in Int /\ consumed \in Seq(Nat)
      /\ overlap \in BOOLEAN /\ register1 \in Int /\ register2 \in Int
  BY DEF RangeInv, PCTypeOK
<1>2. Taken \in Nat
  BY <1>1 DEF Taken
<1> USE <1>1, <1>2 DEF CountInv, Uncounted, Overcounted
<1>3. CASE UNCHANGED consumed
  <2>1. Taken' = Taken
    BY <1>3 DEF Taken
  <2>2. CASE ProducerPasses
    BY <2>1, <2>2 DEF ProducerPasses
  <2>3. CASE Put
    BY <2>1, <2>3 DEF Put
  <2>4. CASE ProducerLoads
    BY <2>1, <2>4 DEF ProducerLoads
  <2>5. CASE ProducerStores
    <3> SUFFICES ASSUME ~ overlap' PROVE CountInv'
      OBVIOUS
    <3>1. ~ overlap /\ counter = register1
      BY <2>5, Zenon DEF ProducerStores
    <3>2. /\ counter' = register1 + 1 /\ produced' = produced
          /\ producer = "add" /\ producer' = "wait" /\ consumer' = consumer
      BY <2>5 DEF ProducerStores
    <3> QED
      BY <2>1, <3>1, <3>2
  <2>6. CASE ConsumerPasses
    BY <2>1, <2>6 DEF ConsumerPasses
  <2>7. CASE ConsumerLoads
    BY <2>1, <2>7 DEF ConsumerLoads
  <2>8. CASE ConsumerStores
    <3> SUFFICES ASSUME ~ overlap' PROVE CountInv'
      OBVIOUS
    <3>1. ~ overlap /\ counter = register2
      BY <2>8, Zenon DEF ConsumerStores
    <3>2. /\ counter' = register2 - 1 /\ produced' = produced
          /\ consumer = "subtract" /\ consumer' = "wait" /\ producer' = producer
      BY <2>8 DEF ConsumerStores
    <3> QED
      BY <2>1, <3>1, <3>2
  <2>9. CASE UNCHANGED pcVars
    BY <2>1, <2>9 DEF pcVars
  <2>10. ~ Get
    <3> SUFFICES ASSUME Get PROVE FALSE
      OBVIOUS
    <3>1. Len(Append(consumed, buffer[out])) = Len(consumed) + 1
      OBVIOUS
    <3> QED
      BY <1>3, <3>1 DEF Get
  <2> QED
    BY <2>2, <2>3, <2>4, <2>5, <2>6, <2>7, <2>8, <2>9, <2>10 DEF PCNext
<1>4. CASE Get
  <2>1. Taken' = Taken + 1
    BY <1>4 DEF Get, Taken
  <2> QED
    BY <1>4, <2>1 DEF Get
<1> QED
  BY <1>3, <1>4
  DEF PCNext, pcVars, ProducerPasses, Put, ProducerLoads, ProducerStores,
      ConsumerPasses, ConsumerLoads, ConsumerStores

(***************************************************************************)
(* in and out follow the items put in and taken out around the ring.       *)
(***************************************************************************)
PlaceInv == in = produced % BUFFER_SIZE /\ out = Taken % BUFFER_SIZE

(***************************************************************************)
(* Every step keeps both indices with their counts.                        *)
(***************************************************************************)
LEMMA PlaceStep == RangeInv /\ PlaceInv /\ [PCNext]_pcVars => PlaceInv'
<1> SUFFICES ASSUME RangeInv, PlaceInv, [PCNext]_pcVars PROVE PlaceInv'
  OBVIOUS
<1>1. produced \in Nat /\ consumed \in Seq(Nat) /\ Taken \in Nat
  BY DEF RangeInv, PCTypeOK, Taken
<1>2. CASE Put
  <2>1. ((produced % BUFFER_SIZE) + 1) % BUFFER_SIZE = (produced + 1) % BUFFER_SIZE
    BY <1>1, Succ, BufferAssumption
  <2>2. in' = (in + 1) % BUFFER_SIZE /\ produced' = produced + 1
        /\ out' = out /\ Taken' = Taken
    BY <1>2 DEF Put, Taken
  <2> QED
    BY <2>1, <2>2, Zenon DEF PlaceInv
<1>3. CASE Get
  <2>1. ((Taken % BUFFER_SIZE) + 1) % BUFFER_SIZE = (Taken + 1) % BUFFER_SIZE
    BY <1>1, Succ, BufferAssumption
  <2>2. out' = (out + 1) % BUFFER_SIZE /\ in' = in /\ produced' = produced
    BY <1>3 DEF Get
  <2>3. Taken' = Taken + 1
    BY <1>1, <1>3 DEF Get, Taken
  <2> QED
    BY <2>1, <2>2, <2>3, Zenon DEF PlaceInv
<1>4. CASE UNCHANGED <<in, out, produced, consumed>>
  BY <1>4 DEF PlaceInv, Taken
<1> QED
  BY <1>2, <1>3, <1>4
  DEF PCNext, pcVars, ProducerPasses, ProducerLoads, ProducerStores,
      ConsumerPasses, ConsumerLoads, ConsumerStores

(***************************************************************************)
(* The items still in the ring lie one behind the other from out to in,    *)
(* and those taken out came in order.                                      *)
(***************************************************************************)
ItemsInv ==
  ~ overlap =>
    /\ \A k \in Nat : Taken <= k /\ k < produced => buffer[k % BUFFER_SIZE] = k + 1
    /\ \A k \in 1 .. Taken : consumed[k] = k

(***************************************************************************)
(* Every step keeps the items in order: Put writes to a place none of the  *)
(* items in the ring occupies, Get takes the oldest.                       *)
(***************************************************************************)
LEMMA ItemsStep ==
  RangeInv /\ CountInv /\ PlaceInv /\ ItemsInv /\ [PCNext]_pcVars => ItemsInv'
<1> SUFFICES ASSUME RangeInv, CountInv, PlaceInv, ItemsInv, [PCNext]_pcVars
             PROVE  ItemsInv'
  OBVIOUS
<1>1. /\ produced \in Nat /\ counter \in Int /\ consumed \in Seq(Nat)
      /\ overlap \in BOOLEAN /\ Taken \in Nat
      /\ buffer \in [0 .. BUFFER_SIZE - 1 -> Nat]
  BY DEF RangeInv, PCTypeOK, Taken
<1>2. overlap' = FALSE => overlap = FALSE
  BY <1>1
  DEF PCNext, pcVars, ProducerPasses, Put, ProducerLoads, ProducerStores,
      ConsumerPasses, Get, ConsumerLoads, ConsumerStores
<1>3. CASE Put
  <2> SUFFICES ASSUME ~ overlap PROVE ItemsInv'
    BY <1>3 DEF Put, ItemsInv
  <2>1. produced - Taken < BUFFER_SIZE
    BY <1>1, <1>3, BufferAssumption
    DEF Put, RangeInv, CountInv, Uncounted, Overcounted
  <2>2. /\ buffer' = [buffer EXCEPT ![produced % BUFFER_SIZE] = produced + 1]
        /\ produced' = produced + 1 /\ consumed' = consumed /\ Taken' = Taken
    BY <1>3 DEF Put, Taken, PlaceInv
  <2>3. \A k \in Nat : k % BUFFER_SIZE \in 0 .. BUFFER_SIZE - 1
    BY BufferAssumption, DivMod
  <2>4. ASSUME NEW k \in Nat, Taken <= k, k < produced + 1
        PROVE  buffer'[k % BUFFER_SIZE] = k + 1
    <3>1. CASE k = produced
      BY <1>1, <2>2, <2>3, <3>1
    <3>2. CASE k < produced
      <4>1. k % BUFFER_SIZE # produced % BUFFER_SIZE
        <5>1. produced - k < BUFFER_SIZE
          BY <1>1, <2>1, <2>4, BufferAssumption
        <5> QED
          BY <1>1, <3>2, <5>1, Apart, BufferAssumption
      <4>2. buffer[k % BUFFER_SIZE] = k + 1
        BY <2>4, <3>2 DEF ItemsInv
      <4> DEFINE m == k % BUFFER_SIZE  p == produced % BUFFER_SIZE
      <4>3. m \in 0 .. BUFFER_SIZE - 1 /\ m # p
        BY <2>3, <4>1
      <4>4. buffer' = [buffer EXCEPT ![p] = produced + 1]
        BY <2>2
      <4> HIDE DEF m, p
      <4>5. buffer'[m] = buffer[m]
        BY <1>1, <4>3, <4>4
      <4> QED
        BY <4>2, <4>5 DEF m
    <3> QED
      BY <1>1, <2>4, <3>1, <3>2
  <2>5. \A k \in 1 .. Taken' : consumed'[k] = k
    BY <2>2 DEF ItemsInv
  <2>6. \A k \in Nat : Taken' <= k /\ k < produced' => buffer'[k % BUFFER_SIZE] = k + 1
    BY <2>2, <2>4
  <2> QED
    BY <2>5, <2>6 DEF ItemsInv
<1>4. CASE Get
  <2> SUFFICES ASSUME ~ overlap PROVE ItemsInv'
    BY <1>4 DEF Get, ItemsInv
  <2>1. Taken < produced
    BY <1>1, <1>4 DEF Get, RangeInv, CountInv, Uncounted, Overcounted
  <2>2. buffer[out] = Taken + 1
    BY <1>1, <2>1 DEF ItemsInv, PlaceInv
  <2>3. /\ consumed' = Append(consumed, Taken + 1)
        /\ buffer' = buffer /\ produced' = produced
    BY <1>4, <2>2 DEF Get
  <2>4. Taken' = Taken + 1
    BY <1>1, <2>3 DEF Taken
  <2>5. ASSUME NEW k \in 1 .. Taken + 1 PROVE consumed'[k] = k
    <3>1. CASE k \in 1 .. Taken
      <4>1. consumed[k] = k
        BY <3>1 DEF ItemsInv
      <4> QED
        BY <1>1, <2>3, <3>1, <4>1 DEF Taken
    <3>2. CASE k = Taken + 1
      BY <1>1, <2>3, <3>2 DEF Taken
    <3> QED
      BY <1>1, <3>1, <3>2
  <2>6. ASSUME NEW k \in Nat, Taken + 1 <= k, k < produced
        PROVE  buffer[k % BUFFER_SIZE] = k + 1
    <3>1. Taken <= k
      BY <1>1, <2>6
    <3> QED
      BY <2>6, <3>1 DEF ItemsInv
  <2> QED
    BY <2>3, <2>4, <2>5, <2>6 DEF ItemsInv
<1>5. CASE UNCHANGED <<buffer, produced, consumed>>
  BY <1>2, <1>1, <1>5 DEF ItemsInv, Taken
<1> QED
  BY <1>3, <1>4, <1>5
  DEF PCNext, pcVars, ProducerPasses, ProducerLoads, ProducerStores,
      ConsumerPasses, ConsumerLoads, ConsumerStores

(***************************************************************************)
(* The items come out in order, each once, as long as no update of counter *)
(* has undone another, for a buffer of any size; and counter never leaves  *)
(* its range. (Producer_Consumer, Lock.c:11)                               *)
(***************************************************************************)
THEOREM InOrder == PCSpec => []FirstInFirstOut
<1> DEFINE RingInv == RangeInv /\ CountInv /\ PlaceInv /\ ItemsInv
<1>1. PCInit => RingInv
  <2> SUFFICES ASSUME PCInit PROVE RingInv
    OBVIOUS
  <2>1. RangeInv
    <3>1. consumed \in Seq(Nat)
      BY DEF PCInit
    <3>2. buffer \in [0 .. BUFFER_SIZE - 1 -> Nat]
      BY DEF PCInit
    <3>3. in \in 0 .. BUFFER_SIZE - 1 /\ out \in 0 .. BUFFER_SIZE - 1
      BY BufferAssumption DEF PCInit
    <3>4. /\ counter \in Int /\ register1 \in Int /\ register2 \in Int
          /\ produced \in Nat
      BY DEF PCInit
    <3>5. overlap \in BOOLEAN
      BY DEF PCInit
    <3>6. /\ producer \in {"wait", "put", "load", "add"}
          /\ consumer \in {"wait", "get", "load", "subtract"}
      BY DEF PCInit
    <3>7. PCTypeOK
      BY <3>1, <3>2, <3>3, <3>4, <3>5, <3>6 DEF PCTypeOK
    <3> QED
      BY <3>7, BufferAssumption DEF PCInit, RangeInv
  <2>2. Taken = 0 /\ produced = 0
    <3>1. Len(<<>>) = 0
      OBVIOUS
    <3> QED
      BY <3>1 DEF PCInit, Taken
  <2>3. CountInv
    BY <2>2 DEF PCInit, CountInv, Uncounted, Overcounted
  <2>4. PlaceInv
    <3>1. 0 % BUFFER_SIZE = 0
      BY BufferAssumption
    <3> QED
      BY <2>2, <3>1 DEF PCInit, PlaceInv
  <2>5. ItemsInv
    BY <2>2 DEF ItemsInv
  <2> QED
    BY <2>1, <2>3, <2>4, <2>5
<1>2. RingInv /\ [PCNext]_pcVars => RingInv'
  BY RangeStep, CountStep, PlaceStep, ItemsStep
<1>3. RingInv => FirstInFirstOut
  <2> SUFFICES ASSUME RingInv PROVE FirstInFirstOut
    OBVIOUS
  <2>1. consumed \in Seq(Nat) /\ overlap \in BOOLEAN
    BY DEF RangeInv, PCTypeOK
  <2>2. ASSUME ~ overlap PROVE consumed = [k \in 1 .. Len(consumed) |-> k]
    <3>1. \A k \in 1 .. Len(consumed) : consumed[k] = k
      BY <2>2 DEF ItemsInv, Taken
    <3>2. consumed = [k \in 1 .. Len(consumed) |-> consumed[k]]
      BY <2>1
    <3> QED
      BY <3>1, <3>2
  <2>3. CounterInRange
    BY DEF RangeInv, CounterInRange
  <2> QED
    BY <2>2, <2>3 DEF FirstInFirstOut
<1> QED
  BY <1>1, <1>2, <1>3, PTL DEF PCSpec
-----------------------------------------------------------------------------
(* The semaphore.                                                          *)

UserLabel == Midway \cup {"outside", "inside", "suspended"}
Holding == {"decremented", "enqueue", "block", "suspended", "inside", "add"}
Asleep == At({"suspended"})
Below(v) == IF v < 0 THEN - v ELSE 0

(***************************************************************************)
(* Where the processes are after one has moved.                            *)
(***************************************************************************)
LEMMA OneMoves ==
  ASSUME user \in [User -> UserLabel], NEW p \in User, NEW l \in UserLabel, UserTo(p, l),
         NEW L
  PROVE  /\ user' \in [User -> UserLabel]
         /\ At(L)' = IF l \in L THEN At(L) \cup {p} ELSE At(L) \ {p}
  BY DEF UserTo, At

(***************************************************************************)
(* All sets of processes are finite.                                       *)
(***************************************************************************)
LEMMA AtFinite ==
  ASSUME NEW L
  PROVE  At(L) \subseteq User /\ IsFiniteSet(At(L)) /\ Cardinality(At(L)) \in Nat
<1>1. At(L) \subseteq User /\ IsFiniteSet(User)
  BY SemaphoreAssumption DEF At
<1>2. IsFiniteSet(At(L))
  BY <1>1, FS_Subset
<1> QED
  BY <1>1, <1>2, FS_CardinalityType

(***************************************************************************)
(* As long as one call at a time has been under way: what has been loaded  *)
(* is still the value, the value counts the processes that have taken a    *)
(* unit, and at each step the list is those asleep, the caller besides     *)
(* before it blocks, and as long as the value tells it to be.              *)
(***************************************************************************)
AloneMidway == \A p, q \in User : user[p] \in Midway /\ user[q] \in Midway => p = q

Quiet == At(Midway) = {} => list = Asleep /\ Cardinality(list) = Below(value)

Phase(p) ==
  /\ user[p] \in {"subtract", "add"} =>
       register[p] = value /\ list = Asleep /\ Cardinality(list) = Below(value)
  /\ user[p] = "decremented" => list = Asleep /\ Cardinality(list) = Below(value + 1)
  /\ user[p] = "enqueue" => value < 0 /\ list = Asleep /\ Cardinality(list) = - value - 1
  /\ user[p] = "block" => value < 0 /\ list = Asleep \cup {p} /\ Cardinality(list) = - value
  /\ user[p] = "incremented" => list = Asleep /\ Cardinality(list) = Below(value - 1)
  /\ user[p] = "remove" => value <= 0 /\ list = Asleep /\ Cardinality(list) = 1 - value

Calm == ~ torn => AloneMidway /\ Quiet /\ \A p \in User : Phase(p)

ValueInv == ~ torn => value = Units - Cardinality(At(Holding))

(***************************************************************************)
(* Every step keeps the types and, until a call has been torn, the meaning *)
(* of the value.                                                           *)
(***************************************************************************)
LEMMA ValueStep ==
  SemTypeOK /\ ValueInv /\ Calm /\ [SemNext]_semVars => SemTypeOK' /\ ValueInv'
<1> SUFFICES ASSUME SemTypeOK, ValueInv, Calm, [SemNext]_semVars
             PROVE  SemTypeOK' /\ ValueInv'
  OBVIOUS
<1>t. /\ value \in Int /\ list \subseteq User /\ user \in [User -> UserLabel]
      /\ register \in [User -> Int] /\ torn \in BOOLEAN /\ Units \in Nat
  BY SemaphoreAssumption DEF SemTypeOK, UserLabel
<1>f. IsFiniteSet(At(Holding)) /\ Cardinality(At(Holding)) \in Nat
  BY AtFinite
<1>p. ASSUME NEW p \in User, user[p] \in {"subtract", "add"}, ~ torn PROVE register[p] = value
  BY <1>p DEF Calm, Phase
<1>a. ASSUME NEW p \in User, NEW l \in UserLabel, UserTo(p, l), value' = value, list' \subseteq User,
             register' \in [User -> Int], torn' \in BOOLEAN, torn => torn',
             user[p] \in Holding <=> l \in Holding
      PROVE  SemTypeOK' /\ ValueInv'
  <2>1. At(Holding)' = At(Holding) /\ user' \in [User -> UserLabel]
    <3>1. /\ p \in At(Holding) <=> l \in Holding
          /\ user' \in [User -> UserLabel]
          /\ At(Holding)' = IF l \in Holding THEN At(Holding) \cup {p} ELSE At(Holding) \ {p}
      BY <1>t, <1>a, OneMoves DEF At
    <3>2. CASE l \in Holding
      BY <3>1, <3>2
    <3>3. CASE l \notin Holding
      BY <3>1, <3>3
    <3> QED
      BY <3>2, <3>3
  <2> QED
    BY <1>t, <1>a, <2>1 DEF SemTypeOK, ValueInv, UserLabel
<1>b. /\ "subtract" \in UserLabel /\ "add" \in UserLabel
      /\ "decremented" \in UserLabel /\ "enqueue" \in UserLabel /\ "block" \in UserLabel
      /\ "suspended" \in UserLabel /\ "inside" \in UserLabel
      /\ "incremented" \in UserLabel /\ "remove" \in UserLabel /\ "outside" \in UserLabel
      /\ "decremented" \in Holding /\ "enqueue" \in Holding /\ "block" \in Holding
      /\ "suspended" \in Holding /\ "inside" \in Holding /\ "add" \in Holding
      /\ "incremented" \notin Holding /\ "remove" \notin Holding /\ "outside" \notin Holding
      /\ "subtract" \notin Holding
  BY DEF UserLabel, Midway, Holding
<1>r. ASSUME NEW p \in User, Begins(p)
      PROVE  /\ value' = value /\ list' \subseteq User /\ register' \in [User -> Int]
             /\ torn' \in BOOLEAN /\ (torn => torn')
  BY <1>r, <1>t DEF Begins
<1>w. ASSUME NEW p \in User, NEW v \in Int, Stores(p, v)
      PROVE  /\ value' = v /\ list' \subseteq User /\ register' \in [User -> Int]
             /\ torn' = torn
  BY <1>w, <1>t DEF Stores
<1>1. ASSUME NEW p \in User, xwait(p) PROVE SemTypeOK' /\ ValueInv'
  BY <1>1, <1>a, <1>b, <1>r DEF xwait
<1>2. ASSUME NEW p \in User, Subtract(p) PROVE SemTypeOK' /\ ValueInv'
  <2>1. /\ user[p] = "subtract" /\ UserTo(p, "decremented") /\ register[p] - 1 \in Int
        /\ Stores(p, register[p] - 1)
    BY <1>2, <1>t DEF Subtract
  <2>2. At(Holding)' = At(Holding) \cup {p} /\ user' \in [User -> UserLabel] /\ p \notin At(Holding)
    BY <1>b, <1>t, <2>1, OneMoves DEF At
  <2>3. Cardinality(At(Holding)') = Cardinality(At(Holding)) + 1
    BY <1>f, <2>2, FS_AddElement
  <2>4. /\ value' = register[p] - 1 /\ list' \subseteq User
        /\ register' \in [User -> Int] /\ torn' = torn
    BY <1>w, <2>1
  <2>5. ~ torn => register[p] = value
    BY <1>p, <2>1
  <2> QED
    BY <1>t, <1>f, <2>1, <2>2, <2>3, <2>4, <2>5 DEF SemTypeOK, ValueInv, UserLabel
<1>3. ASSUME NEW p \in User, WaitTest(p) PROVE SemTypeOK' /\ ValueInv'
  BY <1>3, <1>a, <1>b, <1>t DEF WaitTest
<1>4. ASSUME NEW p \in User, Enqueue(p) PROVE SemTypeOK' /\ ValueInv'
  BY <1>4, <1>a, <1>b, <1>t DEF Enqueue
<1>5. ASSUME NEW p \in User, Block(p) PROVE SemTypeOK' /\ ValueInv'
  BY <1>5, <1>a, <1>b, <1>t DEF Block
<1>6. ASSUME NEW p \in User, xsignal(p) PROVE SemTypeOK' /\ ValueInv'
  BY <1>6, <1>a, <1>b, <1>r DEF xsignal
<1>7. ASSUME NEW p \in User, Add(p) PROVE SemTypeOK' /\ ValueInv'
  <2>1. /\ user[p] = "add" /\ UserTo(p, "incremented") /\ register[p] + 1 \in Int
        /\ Stores(p, register[p] + 1)
    BY <1>7, <1>t DEF Add
  <2>2. At(Holding)' = At(Holding) \ {p} /\ user' \in [User -> UserLabel] /\ p \in At(Holding)
    BY <1>b, <1>t, <2>1, OneMoves DEF At
  <2>3. Cardinality(At(Holding)') = Cardinality(At(Holding)) - 1
    BY <1>f, <2>2, FS_RemoveElement
  <2>4. /\ value' = register[p] + 1 /\ list' \subseteq User
        /\ register' \in [User -> Int] /\ torn' = torn
    BY <1>w, <2>1
  <2>5. ~ torn => register[p] = value
    BY <1>p, <2>1
  <2> QED
    BY <1>t, <1>f, <2>1, <2>2, <2>3, <2>4, <2>5 DEF SemTypeOK, ValueInv, UserLabel
<1>8. ASSUME NEW p \in User, SignalTest(p) PROVE SemTypeOK' /\ ValueInv'
  BY <1>8, <1>a, <1>b, <1>t DEF SignalTest
<1>9. ASSUME NEW p \in User, Remove(p) PROVE SemTypeOK' /\ ValueInv'
  <2>1. PICK q \in list :
          /\ list' = list \ {q} /\ user[p] = "remove"
          /\ value' = value /\ register' = register /\ torn' = torn
          /\ user' = [user EXCEPT ![p] = "outside",
                                  ![q] = IF @ = "suspended" THEN "inside" ELSE @]
    BY <1>9 DEF Remove
  <2>2. q \in User
    BY <1>t, <2>1
  <2>3. user' \in [User -> UserLabel]
    BY <1>b, <1>t, <2>1, <2>2
  <2>4. \A u \in User : user[u] \in Holding <=> user'[u] \in Holding
    BY <1>b, <1>t, <2>1, <2>2
  <2>5. At(Holding)' = At(Holding)
    BY <2>4 DEF At
  <2> QED
    BY <1>t, <2>1, <2>3, <2>5 DEF SemTypeOK, ValueInv, UserLabel
<1>10. ASSUME NEW p \in User, RemoveNobody(p) PROVE SemTypeOK' /\ ValueInv'
  BY <1>10, <1>a, <1>b, <1>t DEF RemoveNobody
<1>11. CASE UNCHANGED semVars
  BY <1>11 DEF semVars, SemTypeOK, ValueInv, At
<1> QED
  BY <1>1, <1>2, <1>3, <1>4, <1>5, <1>6, <1>7, <1>8, <1>9, <1>10, <1>11 DEF SemNext

(***************************************************************************)
(* Once p, alone midway, has left its call, nobody is midway, and while it *)
(* is in it somebody is.                                                   *)
(***************************************************************************)
LEMMA MidwayMoves ==
  ASSUME SemTypeOK, NEW p \in User, NEW l \in UserLabel, UserTo(p, l),
         \A q \in User : user[q] \in Midway => q = p
  PROVE  /\ \A q \in User : user'[q] \in Midway => q = p
         /\ l \notin Midway => At(Midway)' = {}
         /\ l \in Midway => At(Midway)' # {}
         /\ \A q \in User : user'[q] = IF q = p THEN l ELSE user[q]
<1>1. user' = [user EXCEPT ![p] = l] /\ user \in [User -> UserLabel]
  BY DEF UserTo, SemTypeOK, UserLabel
<1>2. \A q \in User : user'[q] = IF q = p THEN l ELSE user[q]
  BY <1>1
<1> QED
  BY <1>2 DEF At

(***************************************************************************)
(* A step of a call that neither tears nor is torn.                        *)
(***************************************************************************)
LEMMA CalmMove ==
  ASSUME SemTypeOK, NEW p \in User, NEW l \in UserLabel, UserTo(p, l), ~ torn',
         \A q \in User : user[q] \in Midway => q = p,
         Phase(p)', l \notin Midway => list' = Asleep' /\ Cardinality(list') = Below(value')
  PROVE  Calm'
<1>1. /\ \A q \in User : user'[q] \in Midway => q = p
      /\ l \in Midway => At(Midway)' # {}
  BY MidwayMoves
<1>2. AloneMidway'
  BY <1>1 DEF AloneMidway
<1>3. Quiet'
  BY <1>1 DEF Quiet
<1>4. ASSUME NEW q \in User PROVE Phase(q)'
  <2>1. CASE q = p
    BY <2>1
  <2>2. CASE q # p
    <3>1. user'[q] \notin Midway
      BY <1>1, <2>2
    <3> QED
      BY <3>1 DEF Phase, Midway
  <2> QED
    BY <2>1, <2>2
<1> QED
  BY <1>2, <1>3, <1>4 DEF Calm

(***************************************************************************)
(* Nothing disturbs the calm but a call begun in the midst of another.     *)
(***************************************************************************)
LEMMA CalmStep == SemTypeOK /\ Calm /\ [SemNext]_semVars => Calm'
<1> SUFFICES ASSUME SemTypeOK, Calm, [SemNext]_semVars, ~ torn' PROVE Calm'
  BY DEF Calm
<1>t. /\ value \in Int /\ list \subseteq User /\ user \in [User -> UserLabel]
      /\ register \in [User -> Int] /\ torn \in BOOLEAN /\ Units \in Nat
  BY SemaphoreAssumption DEF SemTypeOK, UserLabel
<1>f. IsFiniteSet(list) /\ Cardinality(list) \in Nat
  <2>1. IsFiniteSet(list)
    BY <1>t, SemaphoreAssumption, FS_Subset
  <2> QED
    BY <2>1, FS_CardinalityType
<1>b. /\ "subtract" \in UserLabel /\ "add" \in UserLabel
      /\ "decremented" \in UserLabel /\ "enqueue" \in UserLabel /\ "block" \in UserLabel
      /\ "suspended" \in UserLabel /\ "inside" \in UserLabel
      /\ "incremented" \in UserLabel /\ "remove" \in UserLabel /\ "outside" \in UserLabel
      /\ Midway = {"subtract", "decremented", "enqueue", "block", "add", "incremented",
                   "remove"}
  BY DEF UserLabel, Midway
<1>k. ASSUME ~ torn PROVE AloneMidway /\ Quiet /\ \A p \in User : Phase(p)
  BY <1>k DEF Calm
<1>s. ASSUME NEW p \in User, NEW l \in UserLabel, UserTo(p, l), user[p] # "suspended"
      PROVE  /\ Asleep' = IF l = "suspended" THEN Asleep \cup {p} ELSE Asleep
             /\ user'[p] = l
  <2>1. Asleep' = IF l \in {"suspended"} THEN Asleep \cup {p} ELSE Asleep \ {p}
    BY <1>t, <1>s, OneMoves DEF Asleep
  <2>2. p \notin Asleep
    BY <1>s DEF Asleep, At
  <2>3. user'[p] = l
    BY <1>t, <1>s DEF UserTo
  <2>4. CASE l = "suspended"
    BY <2>1, <2>3, <2>4
  <2>5. CASE l # "suspended"
    BY <2>1, <2>2, <2>3, <2>5
  <2> QED
    BY <2>4, <2>5
<1>1. ASSUME NEW p \in User, xwait(p) PROVE Calm'
  <2>1. /\ user[p] = "outside" /\ UserTo(p, "subtract") /\ value' = value
        /\ register' = [register EXCEPT ![p] = value]
        /\ list' = list /\ ~ torn /\ \A q \in User : user[q] \notin Midway
    BY <1>1 DEF xwait, Begins
  <2>2. list = Asleep /\ Cardinality(list) = Below(value)
    BY <1>k, <2>1 DEF Quiet, At
  <2>3. Asleep' = Asleep /\ user'[p] = "subtract" /\ register'[p] = value
    BY <1>b, <1>s, <1>t, <2>1
  <2>4. Phase(p)'
    BY <2>1, <2>2, <2>3 DEF Phase
  <2> QED
    BY <1>b, <2>1, <2>4, CalmMove
<1>10. ASSUME NEW p \in User, Subtract(p) PROVE Calm'
  <2>1. /\ user[p] = "subtract" /\ UserTo(p, "decremented") /\ value' = register[p] - 1
        /\ list' = list /\ ~ torn
    BY <1>10 DEF Subtract, Stores
  <2>2. /\ register[p] = value /\ list = Asleep /\ Cardinality(list) = Below(value)
        /\ \A q \in User : user[q] \in Midway => q = p
    BY <1>k, <1>b, <2>1 DEF Phase, AloneMidway
  <2>3. Asleep' = Asleep /\ user'[p] = "decremented"
    BY <1>b, <1>s, <2>1
  <2>4. Phase(p)'
    BY <1>t, <2>1, <2>2, <2>3 DEF Phase, Below
  <2> QED
    BY <1>b, <2>1, <2>2, <2>4, CalmMove
<1>2. ASSUME NEW p \in User, WaitTest(p) PROVE Calm'
  <2> DEFINE l == IF value < 0 THEN "enqueue" ELSE "inside"
  <2>1. /\ user[p] = "decremented" /\ value' = value /\ UserTo(p, l)
        /\ list' = list /\ ~ torn /\ l \in UserLabel /\ l # "suspended"
    BY <1>2, <1>b DEF WaitTest
  <2>2. /\ list = Asleep /\ Cardinality(list) = Below(value + 1)
        /\ \A q \in User : user[q] \in Midway => q = p
    BY <1>k, <1>b, <2>1 DEF Phase, AloneMidway
  <2>3. Asleep' = Asleep /\ user'[p] = l
    BY <1>s, <2>1
  <2>4. Phase(p)' /\ (l \notin Midway => Cardinality(list') = Below(value'))
    BY <1>t, <1>b, <2>1, <2>2, <2>3 DEF Phase, Below
  <2> HIDE DEF l
  <2> QED
    BY <2>1, <2>2, <2>3, <2>4, CalmMove
<1>3. ASSUME NEW p \in User, Enqueue(p) PROVE Calm'
  <2>1. /\ user[p] = "enqueue" /\ value' = value /\ UserTo(p, "block")
        /\ list' = list \cup {p} /\ ~ torn
    BY <1>3 DEF Enqueue
  <2>2. /\ value < 0 /\ list = Asleep /\ Cardinality(list) = - value - 1
        /\ \A q \in User : user[q] \in Midway => q = p
    BY <1>k, <1>b, <2>1 DEF Phase, AloneMidway
  <2>3. Asleep' = Asleep /\ user'[p] = "block"
    BY <1>b, <1>s, <2>1
  <2>4. p \notin list
    BY <2>1, <2>2 DEF Asleep, At
  <2>5. Cardinality(list') = Cardinality(list) + 1
    BY <1>f, <2>1, <2>4, FS_AddElement
  <2>6. Phase(p)'
    BY <1>t, <2>1, <2>2, <2>3, <2>5 DEF Phase
  <2> QED
    BY <1>b, <2>1, <2>2, <2>6, CalmMove
<1>4. ASSUME NEW p \in User, Block(p) PROVE Calm'
  <2>1. /\ user[p] = "block" /\ value' = value /\ UserTo(p, "suspended")
        /\ list' = list /\ ~ torn
    BY <1>4 DEF Block
  <2>2. /\ value < 0 /\ list = Asleep \cup {p} /\ Cardinality(list) = - value
        /\ \A q \in User : user[q] \in Midway => q = p
    BY <1>k, <1>b, <2>1 DEF Phase, AloneMidway
  <2>3. Asleep' = Asleep \cup {p} /\ user'[p] = "suspended"
    BY <1>b, <1>s, <2>1
  <2>4. Phase(p)' /\ list' = Asleep' /\ Cardinality(list') = Below(value')
    BY <1>t, <2>1, <2>2, <2>3 DEF Phase, Below
  <2> QED
    BY <1>b, <2>1, <2>2, <2>4, CalmMove
<1>5. ASSUME NEW p \in User, xsignal(p) PROVE Calm'
  <2>1. /\ user[p] = "inside" /\ UserTo(p, "add") /\ value' = value
        /\ register' = [register EXCEPT ![p] = value]
        /\ list' = list /\ ~ torn /\ \A q \in User : user[q] \notin Midway
    BY <1>5 DEF xsignal, Begins
  <2>2. list = Asleep /\ Cardinality(list) = Below(value)
    BY <1>k, <2>1 DEF Quiet, At
  <2>3. Asleep' = Asleep /\ user'[p] = "add" /\ register'[p] = value
    BY <1>b, <1>s, <1>t, <2>1
  <2>4. Phase(p)'
    BY <2>1, <2>2, <2>3 DEF Phase
  <2> QED
    BY <1>b, <2>1, <2>4, CalmMove
<1>11. ASSUME NEW p \in User, Add(p) PROVE Calm'
  <2>1. /\ user[p] = "add" /\ UserTo(p, "incremented") /\ value' = register[p] + 1
        /\ list' = list /\ ~ torn
    BY <1>11 DEF Add, Stores
  <2>2. /\ register[p] = value /\ list = Asleep /\ Cardinality(list) = Below(value)
        /\ \A q \in User : user[q] \in Midway => q = p
    BY <1>k, <1>b, <2>1 DEF Phase, AloneMidway
  <2>3. Asleep' = Asleep /\ user'[p] = "incremented"
    BY <1>b, <1>s, <2>1
  <2>4. Phase(p)'
    BY <1>t, <2>1, <2>2, <2>3 DEF Phase, Below
  <2> QED
    BY <1>b, <2>1, <2>2, <2>4, CalmMove
<1>6. ASSUME NEW p \in User, SignalTest(p) PROVE Calm'
  <2> DEFINE l == IF value <= 0 THEN "remove" ELSE "outside"
  <2>1. /\ user[p] = "incremented" /\ value' = value /\ UserTo(p, l)
        /\ list' = list /\ ~ torn /\ l \in UserLabel /\ l # "suspended"
    BY <1>6, <1>b DEF SignalTest
  <2>2. /\ list = Asleep /\ Cardinality(list) = Below(value - 1)
        /\ \A q \in User : user[q] \in Midway => q = p
    BY <1>k, <1>b, <2>1 DEF Phase, AloneMidway
  <2>3. Asleep' = Asleep /\ user'[p] = l
    BY <1>s, <2>1
  <2>4. Phase(p)' /\ (l \notin Midway => Cardinality(list') = Below(value'))
    BY <1>t, <1>b, <2>1, <2>2, <2>3 DEF Phase, Below
  <2> HIDE DEF l
  <2> QED
    BY <2>1, <2>2, <2>3, <2>4, CalmMove
<1>7. ASSUME NEW p \in User, Remove(p) PROVE Calm'
  <2>1. PICK q \in list :
          /\ list' = list \ {q} /\ user[p] = "remove" /\ value' = value /\ ~ torn
          /\ user' = [user EXCEPT ![p] = "outside",
                                  ![q] = IF @ = "suspended" THEN "inside" ELSE @]
    BY <1>7 DEF Remove
  <2>2. /\ value <= 0 /\ list = Asleep /\ Cardinality(list) = 1 - value
        /\ \A r \in User : user[r] \in Midway => r = p
    BY <1>k, <1>b, <2>1 DEF Phase, AloneMidway
  <2>3. q \in User /\ user[q] = "suspended" /\ q # p
    BY <1>t, <2>1, <2>2 DEF Asleep, At
  <2>4. \A r \in User : user'[r] = IF r = p THEN "outside" ELSE IF r = q THEN "inside" ELSE user[r]
    BY <1>t, <2>1, <2>3
  <2>5. \A r \in User : user'[r] \notin Midway
    BY <1>b, <2>2, <2>4
  <2>6. Asleep' = Asleep \ {q}
    <3>1. \A r \in User : user'[r] = "suspended" <=> user[r] = "suspended" /\ r # q
      <4>1. user[p] = "remove"
        BY <2>1
      <4> QED
        BY <2>3, <2>4, <4>1
    <3>2. /\ Asleep' = {r \in User : user'[r] = "suspended"}
          /\ Asleep = {r \in User : user[r] = "suspended"}
      BY DEF Asleep, At
    <3> QED
      BY <3>1, <3>2
  <2>7. Cardinality(list') = Cardinality(list) - 1
    BY <1>f, <2>1, FS_RemoveElement
  <2>8. Quiet'
    BY <1>t, <2>1, <2>2, <2>6, <2>7 DEF Quiet, Below
  <2> QED
    BY <1>b, <2>5, <2>8 DEF Calm, AloneMidway, Phase
<1>8. ASSUME NEW p \in User, RemoveNobody(p) PROVE Calm'
  <2>1. user[p] = "remove" /\ list = {} /\ ~ torn
    BY <1>8 DEF RemoveNobody
  <2>2. value <= 0 /\ Cardinality(list) = 1 - value
    BY <1>k, <2>1 DEF Phase
  <2> QED
    BY <1>t, <2>1, <2>2, FS_EmptySet
<1>9. CASE UNCHANGED semVars
  BY <1>9 DEF semVars, Calm, AloneMidway, Quiet, Phase, Asleep, At
<1> QED
  BY <1>1, <1>2, <1>3, <1>4, <1>5, <1>6, <1>7, <1>8, <1>9, <1>10, <1>11 DEF SemNext

(***************************************************************************)
(* Calm and the meaning of the value say what the semaphore promises.      *)
(***************************************************************************)
LEMMA CalmCounts == SemTypeOK /\ ValueInv /\ Calm => SemaphoreCounts
<1> SUFFICES ASSUME SemTypeOK, ValueInv, Calm, ~ torn
             PROVE  Cardinality(At({"inside"})) <= Units
  BY DEF ValueInv, Holding, SemaphoreCounts, Calm, Quiet, Asleep, Below
<1> DEFINE i == Cardinality(At({"inside"}))
           a == Cardinality(Asleep)
           h == Cardinality(At(Holding))
<1>1. /\ IsFiniteSet(At({"inside"})) /\ IsFiniteSet(Asleep) /\ IsFiniteSet(At(Holding))
      /\ i \in Nat /\ a \in Nat /\ h \in Nat /\ Units \in Nat /\ value \in Int
      /\ h = Units - value
  BY AtFinite, SemaphoreAssumption DEF Asleep, SemTypeOK, ValueInv
<1>2. /\ At({"inside"}) \cap Asleep = {}
      /\ At({"inside"}) \cup Asleep \subseteq At(Holding)
  BY DEF At, Asleep, Holding
<1> DEFINE both == At({"inside"}) \cup Asleep
<1>3. IsFiniteSet(both) /\ Cardinality(both) = i + a
  <2>1. Cardinality(At({"inside"}) \cap Asleep) = 0
    BY <1>2, FS_EmptySet
  <2>2. IsFiniteSet(both) /\ Cardinality(both) = i + a - Cardinality(At({"inside"}) \cap Asleep)
    BY <1>1, FS_Union
  <2> QED
    BY <1>1, <2>1, <2>2
<1>4. i + a <= h
  <2>1. Cardinality(both) <= Cardinality(At(Holding))
    BY <1>1, <1>2, FS_Subset
  <2> QED
    BY <1>3, <2>1
<1>5. ASSUME NEW p \in User, user[p] \in {"decremented", "enqueue", "block"}
      PROVE  i + a + 1 <= h
  <2>1. p \notin both /\ both \cup {p} \subseteq At(Holding)
    BY <1>2, <1>5 DEF At, Asleep, Holding
  <2>2. Cardinality(both \cup {p}) = i + a + 1 /\ IsFiniteSet(both \cup {p})
    BY <1>3, <2>1, FS_AddElement
  <2>3. Cardinality(both \cup {p}) <= h
    BY <1>1, <2>1, FS_Subset
  <2> QED
    BY <2>2, <2>3
<1>6. CASE At(Midway) = {}
  <2>1. a = Below(value)
    BY <1>6 DEF Calm, Quiet
  <2> QED
    BY <1>1, <1>4, <2>1 DEF Below
<1>7. CASE At(Midway) # {}
  <2>1. PICK p \in User : user[p] \in Midway
    BY <1>7 DEF At
  <2>2. Phase(p)
    BY DEF Calm
  <2>8. CASE user[p] \in {"subtract", "add"}
    <3>1. a = Below(value)
      BY <2>2, <2>8 DEF Phase
    <3> QED
      BY <1>1, <1>4, <3>1 DEF Below
  <2>3. CASE user[p] = "decremented"
    <3>1. a = Below(value + 1) /\ i + a + 1 <= h
      BY <1>5, <2>2, <2>3 DEF Phase
    <3> QED
      BY <1>1, <3>1 DEF Below
  <2>4. CASE user[p] = "enqueue"
    <3>1. value < 0 /\ a = - value - 1 /\ i + a + 1 <= h
      BY <1>5, <2>2, <2>4 DEF Phase
    <3> QED
      BY <1>1, <3>1
  <2>5. CASE user[p] = "block"
    <3>1. value < 0 /\ list = Asleep \cup {p} /\ Cardinality(list) = - value /\ i + a + 1 <= h
      BY <1>5, <2>2, <2>5 DEF Phase
    <3>2. p \notin Asleep
      BY <2>5 DEF Asleep, At
    <3>3. Cardinality(list) = a + 1
      BY <1>1, <3>1, <3>2, FS_AddElement
    <3> QED
      BY <1>1, <3>1, <3>3
  <2>6. CASE user[p] = "incremented"
    <3>1. a = Below(value - 1)
      BY <2>2, <2>6 DEF Phase
    <3> QED
      BY <1>1, <1>4, <3>1 DEF Below
  <2>7. CASE user[p] = "remove"
    <3>1. a = 1 - value
      BY <2>2, <2>7 DEF Phase
    <3> QED
      BY <1>1, <1>4, <3>1
  <2> QED
    BY <2>1, <2>3, <2>4, <2>5, <2>6, <2>7, <2>8 DEF Midway
<1> QED
  BY <1>6, <1>7

(***************************************************************************)
(* While no call has begun in the midst of another, the value counts the   *)
(* processes that hold a unit and tells how many sleep, and no more than   *)
(* Units are inside, for any set of processes and any number of units.     *)
(* (xwait and xsignal, Lock.c:278)                                         *)
(***************************************************************************)
THEOREM ValueMeans == SemSpec => []SemaphoreCounts
<1> DEFINE SemInv == SemTypeOK /\ ValueInv /\ Calm
<1>1. SemInit => SemInv
  <2> SUFFICES ASSUME SemInit PROVE SemInv
    OBVIOUS
  <2>1. SemTypeOK
    <3>1. Units \in Int /\ user \in [User -> {"outside"}] /\ register \in [User -> Int]
      BY SemaphoreAssumption DEF SemInit
    <3> QED
      BY <3>1 DEF SemInit, SemTypeOK
  <2>2. /\ At(Holding) = {} /\ Asleep = {}
        /\ \A p \in User : user[p] = "outside"
    BY DEF SemInit, At, Holding, Asleep
  <2>3. ValueInv
    BY <2>2, FS_EmptySet, SemaphoreAssumption DEF SemInit, ValueInv
  <2>4. list = {} /\ Cardinality(list) = 0 /\ value \in Nat
    BY FS_EmptySet, SemaphoreAssumption DEF SemInit
  <2>5. Calm
    BY <2>2, <2>4 DEF Calm, AloneMidway, Midway, Quiet, Phase, Below
  <2> QED
    BY <2>1, <2>3, <2>5
<1>2. SemInv /\ [SemNext]_semVars => SemInv'
  BY ValueStep, CalmStep
<1>3. SemInv => SemaphoreCounts
  BY CalmCounts
<1> QED
  BY <1>1, <1>2, <1>3, PTL DEF SemSpec
=============================================================================
