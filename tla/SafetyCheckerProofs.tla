------------------------ MODULE SafetyCheckerProofs ------------------------
(***************************************************************************)
(* What safety_Checker answers, for tables of any size.                    *)
(***************************************************************************)
EXTENDS SafetyChecker, FiniteSets, Functions, FiniteSetTheorems, WellFoundedInduction, TLAPS

Waiting == {p \in Proc : running[p] = 1}

(***************************************************************************)
(* checked counts the processes not yet run, and the outer loop has been   *)
(* left either with none of them or with none that can be run.             *)
(***************************************************************************)
Counted == checked = Cardinality(Waiting)

Left == /\ checkerPc \in {"verdict", "done"} => checked = 0 \/ \A p \in Proc : ~ Runnable(p)
        /\ checkerPc = "done" => (safety = 1 <=> checked = 0)

IInv == CheckerTypeOK /\ Counted /\ Left

(***************************************************************************)
(* The processes are finitely many.                                        *)
(***************************************************************************)
LEMMA Processes == IsFiniteSet(Proc) /\ Cardinality(Proc) = number_p
<1>1. 0 \in Int /\ number_p - 1 \in Int /\ number_p \in Nat \ {0}
  BY CheckerAssumption
<1>2. /\ IsFiniteSet(0 .. number_p - 1)
      /\ Cardinality(0 .. number_p - 1)
           = IF 0 > number_p - 1 THEN 0 ELSE (number_p - 1) - 0 + 1
  BY <1>1, FS_Interval
<1> QED
  BY <1>1, <1>2 DEF Proc

(***************************************************************************)
(* At the start no process has been run.                                   *)
(***************************************************************************)
LEMMA InitCounted == CheckerInit => IInv
<1> SUFFICES ASSUME CheckerInit PROVE IInv
  OBVIOUS
<1>1. Waiting = Proc
  BY DEF CheckerInit, Waiting
<1>2. CheckerTypeOK
  <2>1. /\ allocation \in [Proc -> [Res -> Nat]] /\ current_Avail \in [Res -> Nat]
        /\ Need \in [Proc -> [Res -> Nat]]
    BY CheckerAssumption DEF CheckerInit
  <2> QED
    BY <2>1, CheckerAssumption DEF CheckerInit, CheckerTypeOK
<1> QED
  BY <1>1, <1>2, Processes DEF CheckerInit, IInv, Counted, Left

(***************************************************************************)
(* Every pass keeps the count, and a pass that finds nobody is the last.   *)
(***************************************************************************)
LEMMA StepCounted == IInv /\ [CheckerNext]_checkerVars => IInv'
<1> SUFFICES ASSUME IInv, [CheckerNext]_checkerVars PROVE IInv'
  OBVIOUS
<1>t. CheckerTypeOK /\ Counted /\ Left
  BY DEF IInv
<1>1. ASSUME NEW p \in Proc, Run(p) PROVE IInv'
  <2>1. /\ running[p] = 1 /\ running' = [running EXCEPT ![p] = 0]
        /\ checked' = checked - 1 /\ checked # 0 /\ safety' = 1 /\ checkerPc' = "pass"
    BY <1>1 DEF Run, FirstRunnable, Runnable
  <2>2. Waiting' = Waiting \ {p} /\ p \in Waiting
    BY <1>t, <2>1 DEF Waiting, CheckerTypeOK
  <2>3. IsFiniteSet(Waiting)
    BY Processes, FS_Subset DEF Waiting
  <2>4. Cardinality(Waiting') = Cardinality(Waiting) - 1
    BY <2>2, <2>3, FS_RemoveElement
  <2>5. avail_checker' \in [Res -> Nat]
    BY <1>1, <1>t DEF Run, CheckerTypeOK
  <2>6. running' \in [Proc -> {0, 1}] /\ checked' \in 0 .. number_p
    BY <1>t, <2>1, CheckerAssumption DEF CheckerTypeOK
  <2>7. CheckerTypeOK'
    BY <1>1, <1>t, <2>1, <2>5, <2>6 DEF Run, CheckerTypeOK
  <2> QED
    BY <1>t, <2>1, <2>4, <2>7 DEF IInv, Counted, Left
<1>2. CASE Stuck
  BY <1>2, <1>t DEF Stuck, IInv, CheckerTypeOK, Counted, Waiting, Left, Runnable
<1>3. CASE AllRun
  BY <1>3, <1>t DEF AllRun, IInv, CheckerTypeOK, Counted, Waiting, Left, Runnable
<1>4. CASE Verdict
  BY <1>4, <1>t DEF Verdict, IInv, CheckerTypeOK, Counted, Waiting, Left, Runnable
<1>5. CASE UNCHANGED checkerVars
  BY <1>5, <1>t DEF checkerVars, IInv, CheckerTypeOK, Counted, Waiting, Left, Runnable
<1> QED
  BY <1>1, <1>2, <1>3, <1>4, <1>5 DEF CheckerNext

(***************************************************************************)
(* The tables keep their shapes.  (safety_Checker, Banker.c:353)           *)
(***************************************************************************)
THEOREM TypeCorrect == CheckerSpec => []CheckerTypeOK
<1> QED
  BY InitCounted, StepCounted, PTL DEF CheckerSpec, IInv

(***************************************************************************)
(* It answers 1 exactly when it has run every process, and 0 only when one *)
(* is left and none that is left can be run with what is then free.        *)
(* (Banker.c:353 to its return)                                            *)
(***************************************************************************)
Answers ==
  checkerPc = "done" =>
    /\ safety = 1 <=> \A p \in Proc : running[p] = 0
    /\ safety = 0 => \A p \in Proc : ~ Runnable(p)

THEOREM AnswerIsEarned == CheckerSpec => []Answers
<1>1. IInv => Answers
  <2> SUFFICES ASSUME IInv, checkerPc = "done" PROVE Answers
    BY DEF Answers
  <2>1. /\ safety = 1 <=> checked = 0
        /\ safety = 0 => \A p \in Proc : ~ Runnable(p)
    BY DEF IInv, Left, CheckerTypeOK
  <2>2. IsFiniteSet(Waiting)
    BY Processes, FS_Subset DEF Waiting
  <2>3. checked = 0 <=> Waiting = {}
    BY <2>2, FS_EmptySet DEF IInv, Counted
  <2>4. Waiting = {} <=> \A p \in Proc : running[p] = 0
    BY DEF Waiting, IInv, CheckerTypeOK
  <2> QED
    BY <2>1, <2>3, <2>4 DEF Answers
<1> QED
  BY <1>1, InitCounted, StepCounted, PTL DEF CheckerSpec
-----------------------------------------------------------------------------
(***************************************************************************)
(* Induction without a predicate parameter: a set of numbers, or of        *)
(* subsets, takes the place of the predicate.  With it, what               *)
(* SumFunctionOnSet computes on a finite set: the sums in which SafeState  *)
(* counts the holdings of processes.                                       *)
(***************************************************************************)

(***************************************************************************)
(* A set of naturals that is not empty has a least member.                 *)
(***************************************************************************)
LEMMA Least ==
  ASSUME NEW T \in SUBSET Nat, T # {}
  PROVE  \E n \in T : \A m \in T : n <= m
<1> DEFINE R == {ss \in Nat \X Nat : ss[1] < ss[2]}
<1>1. IsWellFoundedOn(R, Nat)
  BY NatLessThanWellFounded DEF OpToRel
<1>2. PICK n \in T : \A m \in T : ~ (<<m, n>> \in R)
  <2> HIDE DEF R
  <2> QED
    BY <1>1, WFMin
<1>3. ASSUME NEW m \in T PROVE n <= m
  <2>1. <<m, n>> \in Nat \X Nat
    BY <1>2
  <2>2. ~ (m < n)
    BY <1>2, <2>1
  <2> QED
    BY <2>2
<1> QED
  BY <1>2, <1>3

(***************************************************************************)
(* Induction on the naturals, for the members of a set.                    *)
(***************************************************************************)
LEMMA EveryNat ==
  ASSUME NEW T, 0 \in T, \A n \in Nat : n \in T => n + 1 \in T
  PROVE  Nat \subseteq T
<1> DEFINE U == {n \in Nat : n \notin T}
<1> SUFFICES ASSUME U # {} PROVE FALSE
  OBVIOUS
<1>1. PICK n \in U : \A m \in U : n <= m
  BY Least
<1>2. n # 0 /\ n - 1 \in Nat /\ ~ (n - 1 \in U)
  BY <1>1
<1> QED
  BY <1>1, <1>2

(***************************************************************************)
(* Induction on the subsets of a finite set.                               *)
(***************************************************************************)
LEMMA EverySubset ==
  ASSUME NEW S, IsFiniteSet(S), NEW Q,
         \A s \in SUBSET S : (\A x \in s : s \ {x} \in Q) => s \in Q
  PROVE  SUBSET S \subseteq Q
<1> DEFINE T == {n \in Nat : \A s \in SUBSET S : Cardinality(s) <= n => s \in Q}
<1>0. \A s \in SUBSET S : IsFiniteSet(s) /\ Cardinality(s) \in Nat
  BY FS_Subset, FS_CardinalityType
<1>1. 0 \in T
  <2> SUFFICES ASSUME NEW s \in SUBSET S, Cardinality(s) <= 0 PROVE s \in Q
    OBVIOUS
  <2>1. s = {}
    BY <1>0, FS_EmptySet
  <2> QED
    BY <2>1
<1>2. ASSUME NEW n \in Nat, n \in T PROVE n + 1 \in T
  <2> SUFFICES ASSUME NEW s \in SUBSET S, Cardinality(s) <= n + 1 PROVE s \in Q
    OBVIOUS
  <2>1. ASSUME NEW x \in s PROVE s \ {x} \in Q
    <3>1. Cardinality(s \ {x}) = Cardinality(s) - 1
      BY <1>0, FS_RemoveElement
    <3> QED
      BY <1>0, <1>2, <3>1
  <2> QED
    BY <2>1
<1>3. Nat \subseteq T
  <2> HIDE DEF T
  <2> QED
    BY <1>1, <1>2, EveryNat
<1> QED
  BY <1>0, <1>3
-----------------------------------------------------------------------------
\* The element the sum takes next, and the rule it is computed by.
Taken(s) == CHOOSE x \in s : TRUE

Rule(fun, sum, s) == IF s = {} THEN 0 ELSE fun[Taken(s)] + sum[s \ {Taken(s)}]

Iter(fun, S) == CHOOSE iter : iter = [s \in SUBSET S |-> Rule(fun, iter, s)]

(***************************************************************************)
(* The sum over S is the value at S of the function that the rule defines  *)
(* on the subsets of S.                                                    *)
(***************************************************************************)
LEMMA SumIsIter == ASSUME NEW fun, NEW S
                   PROVE  SumFunctionOnSet(fun, S) = Iter(fun, S)[S]
  BY Zenon DEF SumFunctionOnSet, FoldFunctionOnSet, MapThenFoldSet, Iter, Rule, Taken

(***************************************************************************)
(* There is a function that obeys the rule on the subsets of a finite set. *)
(***************************************************************************)
LEMMA IterObeys ==
  ASSUME NEW fun, NEW S, IsFiniteSet(S)
  PROVE  \A s \in SUBSET S : Iter(fun, S)[s] = Rule(fun, Iter(fun, S), s)
<1> DEFINE Small(n) == {s \in SUBSET S : Cardinality(s) <= n}
           T == {n \in Nat : \E g : g = [s \in Small(n) |-> Rule(fun, g, s)]}
<1>0. \A s \in SUBSET S : IsFiniteSet(s) /\ Cardinality(s) \in Nat
  BY FS_Subset, FS_CardinalityType
<1>a. \A s : s # {} => Taken(s) \in s
  BY DEF Taken
<1>1. 0 \in T
  <2> DEFINE g == [s \in Small(0) |-> 0]
  <2>1. \A s \in Small(0) : s = {}
    BY <1>0, FS_EmptySet
  <2>2. g = [s \in Small(0) |-> Rule(fun, g, s)]
    BY <2>1 DEF Rule
  <2> QED
    BY <2>2
<1>2. ASSUME NEW n \in Nat, n \in T PROVE n + 1 \in T
  <2>1. PICK g : g = [s \in Small(n) |-> Rule(fun, g, s)]
    BY <1>2
  <2> DEFINE h == [s \in Small(n + 1) |-> IF s \in Small(n) THEN g[s] ELSE Rule(fun, g, s)]
  <2>2. ASSUME NEW s \in Small(n + 1) PROVE h[s] = Rule(fun, h, s)
    <3>1. h[s] = Rule(fun, g, s)
      BY <2>1
    <3>2. CASE s = {}
      BY <3>1, <3>2 DEF Rule
    <3>3. CASE s # {}
      <4> DEFINE r == s \ {Taken(s)}
      <4>1. Cardinality(r) = Cardinality(s) - 1
        BY <1>0, <1>a, <3>3, FS_RemoveElement
      <4>2. r \in Small(n) /\ r \in Small(n + 1)
        BY <1>0, <4>1
      <4>3. h[r] = g[r]
        BY <4>2
      <4> QED
        BY <3>1, <3>3, <4>3 DEF Rule
    <3> QED
      BY <3>2, <3>3
  <2>3. h = [s \in Small(n + 1) |-> Rule(fun, h, s)]
    <3>1. h = [s \in Small(n + 1) |-> h[s]]
      OBVIOUS
    <3>2. \A s \in Small(n + 1) : h[s] = Rule(fun, h, s)
      BY <2>2
    <3> HIDE DEF h, Small
    <3> QED
      BY <3>1, <3>2, Zenon
  <2>4. \E f : f = [s \in Small(n + 1) |-> Rule(fun, f, s)]
    <3> HIDE DEF h, Small
    <3> QED
      BY <2>3
  <2> HIDE DEF Small
  <2> QED
    BY <2>4
<1>3. Nat \subseteq T
  <2> HIDE DEF T
  <2> QED
    BY <1>1, <1>2, EveryNat
<1>4. Small(Cardinality(S)) = SUBSET S
  BY <1>0, FS_Subset
<1>5. \E g : g = [s \in SUBSET S |-> Rule(fun, g, s)]
  <2>1. Cardinality(S) \in T
    BY <1>0, <1>3
  <2>2. \E g : g = [s \in Small(Cardinality(S)) |-> Rule(fun, g, s)]
    BY <2>1
  <2> QED
    BY <1>4, <2>2
<1>6. Iter(fun, S) = [s \in SUBSET S |-> Rule(fun, Iter(fun, S), s)]
  BY <1>5, Zenon DEF Iter
<1> QED
  BY <1>6, Zenon
(***************************************************************************)
(* The function defined on the subsets of a larger set agrees.             *)
(***************************************************************************)
LEMMA IterAgree ==
  ASSUME NEW fun, NEW S, IsFiniteSet(S), NEW U \in SUBSET S
  PROVE  Iter(fun, S)[U] = Iter(fun, U)[U]
<1> DEFINE Q == {s \in SUBSET U : Iter(fun, S)[s] = Iter(fun, U)[s]}
<1>1. IsFiniteSet(U) /\ SUBSET U \subseteq SUBSET S
  BY FS_Subset
<1>2. ASSUME NEW s \in SUBSET U, \A x \in s : s \ {x} \in Q PROVE s \in Q
  <2>1. /\ Iter(fun, S)[s] = Rule(fun, Iter(fun, S), s)
        /\ Iter(fun, U)[s] = Rule(fun, Iter(fun, U), s)
    <3>1. s \in SUBSET S
      BY <1>1, <1>2
    <3> QED
      BY <1>1, <3>1, IterObeys
  <2>2. CASE s = {}
    BY <2>1, <2>2 DEF Rule
  <2>3. CASE s # {}
    <3>1. Taken(s) \in s
      BY <2>3 DEF Taken
    <3>2. Iter(fun, S)[s \ {Taken(s)}] = Iter(fun, U)[s \ {Taken(s)}]
      BY <1>2, <3>1
    <3> QED
      BY <2>1, <2>3, <3>2 DEF Rule
  <2> QED
    BY <2>2, <2>3
<1> QED
  <2> HIDE DEF Q
  <2>1. SUBSET U \subseteq Q
    BY <1>1, <1>2, EverySubset
  <2> QED
    BY <2>1 DEF Q

(***************************************************************************)
(* Nothing adds up to 0; anything else, to the value of the element taken  *)
(* and the sum of the others.                                              *)
(***************************************************************************)
LEMMA SumRule ==
  ASSUME NEW fun, NEW S, IsFiniteSet(S)
  PROVE  /\ S = {} => SumFunctionOnSet(fun, S) = 0
         /\ S # {} => /\ Taken(S) \in S
                      /\ SumFunctionOnSet(fun, S)
                           = fun[Taken(S)] + SumFunctionOnSet(fun, S \ {Taken(S)})
<1>1. Iter(fun, S)[S] = Rule(fun, Iter(fun, S), S)
  <2>1. S \in SUBSET S
    OBVIOUS
  <2> QED
    BY <2>1, IterObeys
<1>2. CASE S = {}
  BY <1>1, <1>2, SumIsIter DEF Rule
<1>3. CASE S # {}
  <2>1. Taken(S) \in S
    BY <1>3 DEF Taken
  <2>2. Iter(fun, S)[S \ {Taken(S)}] = Iter(fun, S \ {Taken(S)})[S \ {Taken(S)}]
    BY IterAgree
  <2> QED
    BY <1>1, <1>3, <2>1, <2>2, SumIsIter DEF Rule
<1> QED
  BY <1>2, <1>3

(***************************************************************************)
(* A sum of naturals is a natural.                                         *)
(***************************************************************************)
LEMMA SumType ==
  ASSUME NEW fun, NEW S, IsFiniteSet(S), \A x \in S : fun[x] \in Nat
  PROVE  \A s \in SUBSET S : SumFunctionOnSet(fun, s) \in Nat
<1> DEFINE Q == {s \in SUBSET S : SumFunctionOnSet(fun, s) \in Nat}
<1>1. ASSUME NEW s \in SUBSET S, \A x \in s : s \ {x} \in Q PROVE s \in Q
  <2>1. IsFiniteSet(s)
    BY FS_Subset
  <2>2. CASE s = {}
    <3>1. SumFunctionOnSet(fun, s) = 0
      BY <2>1, <2>2, SumRule
    <3> QED
      BY <3>1
  <2>3. CASE s # {}
    <3>1. /\ Taken(s) \in s
          /\ SumFunctionOnSet(fun, s) = fun[Taken(s)] + SumFunctionOnSet(fun, s \ {Taken(s)})
      BY <2>1, <2>3, SumRule
    <3>2. SumFunctionOnSet(fun, s \ {Taken(s)}) \in Nat
      BY <1>1, <3>1
    <3> QED
      BY <3>1, <3>2
  <2> QED
    BY <2>2, <2>3
<1> QED
  <2> HIDE DEF Q
  <2>1. SUBSET S \subseteq Q
    BY <1>1, EverySubset
  <2> QED
    BY <2>1 DEF Q

(***************************************************************************)
(* Any element may be counted first: the order does not matter.            *)
(***************************************************************************)
LEMMA SumSplit ==
  ASSUME NEW fun, NEW S, IsFiniteSet(S), \A x \in S : fun[x] \in Nat
  PROVE  \A p \in S :
           SumFunctionOnSet(fun, S) = fun[p] + SumFunctionOnSet(fun, S \ {p})
<1> DEFINE Q == {s \in SUBSET S : \A p \in s :
                   SumFunctionOnSet(fun, s) = fun[p] + SumFunctionOnSet(fun, s \ {p})}
<1>1. ASSUME NEW s \in SUBSET S, \A x \in s : s \ {x} \in Q PROVE s \in Q
  <2> SUFFICES ASSUME NEW p \in s
               PROVE  SumFunctionOnSet(fun, s) = fun[p] + SumFunctionOnSet(fun, s \ {p})
    OBVIOUS
  <2> DEFINE t == Taken(s)
  <2>1. /\ IsFiniteSet(s) /\ t \in s
        /\ SumFunctionOnSet(fun, s) = fun[t] + SumFunctionOnSet(fun, s \ {t})
    BY FS_Subset, SumRule
  <2>2. CASE p = t
    BY <2>1, <2>2
  <2>3. CASE p # t
    <3>1. p \in s \ {t} /\ t \in s \ {p}
      BY <2>1, <2>3
    <3>2. (s \ {t}) \ {p} = (s \ {p}) \ {t}
      OBVIOUS
    <3>3. SumFunctionOnSet(fun, s \ {t})
            = fun[p] + SumFunctionOnSet(fun, (s \ {t}) \ {p})
      BY <1>1, <2>1, <3>1
    <3>4. SumFunctionOnSet(fun, s \ {p})
            = fun[t] + SumFunctionOnSet(fun, (s \ {t}) \ {p})
      BY <1>1, <3>1, <3>2
    <3>5. /\ fun[p] \in Nat /\ fun[t] \in Nat
          /\ SumFunctionOnSet(fun, (s \ {t}) \ {p}) \in Nat
      BY <2>1, SumType
    <3> QED
      BY <2>1, <3>3, <3>4, <3>5
  <2> QED
    BY <2>2, <2>3
<1> QED
  <2> HIDE DEF Q
  <2>1. SUBSET S \subseteq Q
    BY <1>1, EverySubset
  <2> QED
    BY <2>1 DEF Q

(***************************************************************************)
(* More elements do not add up to less.                                    *)
(***************************************************************************)
LEMMA SumGrows ==
  ASSUME NEW fun, NEW S, IsFiniteSet(S), \A x \in S : fun[x] \in Nat,
         NEW U \in SUBSET S
  PROVE  SumFunctionOnSet(fun, U) <= SumFunctionOnSet(fun, S)
<1> DEFINE Q == {s \in SUBSET S :
                   U \subseteq s => SumFunctionOnSet(fun, U) <= SumFunctionOnSet(fun, s)}
<1>1. ASSUME NEW s \in SUBSET S, \A x \in s : s \ {x} \in Q PROVE s \in Q
  <2> SUFFICES ASSUME U \subseteq s
               PROVE  SumFunctionOnSet(fun, U) <= SumFunctionOnSet(fun, s)
    OBVIOUS
  <2>1. /\ IsFiniteSet(s) /\ SumFunctionOnSet(fun, U) \in Nat
        /\ \A r \in SUBSET s : SumFunctionOnSet(fun, r) \in Nat
    BY FS_Subset, SumType
  <2>2. CASE U = s
    BY <2>1, <2>2
  <2>3. CASE U # s
    <3>1. PICK p \in s : p \notin U
      BY <2>3
    <3>2. SumFunctionOnSet(fun, U) <= SumFunctionOnSet(fun, s \ {p})
      BY <1>1, <3>1
    <3>3. SumFunctionOnSet(fun, s) = fun[p] + SumFunctionOnSet(fun, s \ {p})
      BY <2>1, SumSplit
    <3>4. fun[p] \in Nat /\ SumFunctionOnSet(fun, s \ {p}) \in Nat
      BY <2>1
    <3> QED
      BY <2>1, <3>2, <3>3, <3>4
  <2> QED
    BY <2>2, <2>3
<1> QED
  <2> HIDE DEF Q
  <2>1. SUBSET S \subseteq Q
    BY <1>1, EverySubset
  <2> QED
    BY <2>1 DEF Q
-----------------------------------------------------------------------------
(***************************************************************************)
(* What a set of processes holds of a resource type.                       *)
(***************************************************************************)
LEMMA Holdings ==
  ASSUME NEW alloc \in [Proc -> [Res -> Nat]], NEW j \in Res, NEW S \in SUBSET Proc
  PROVE  /\ Reference!HeldBy({}, alloc, j) = 0
         /\ Reference!HeldBy(S, alloc, j) \in Nat
         /\ \A p \in Proc \ S : Reference!HeldBy(S \cup {p}, alloc, j)
                               = Reference!HeldBy(S, alloc, j) + alloc[p][j]
         /\ \A U \in SUBSET S : Reference!HeldBy(U, alloc, j) <= Reference!HeldBy(S, alloc, j)
<1> DEFINE held == [p \in Proc |-> alloc[p][j]]
<1>1. \A p \in Proc : held[p] \in Nat
  OBVIOUS
<1>2. \A U : Reference!HeldBy(U, alloc, j) = SumFunctionOnSet(held, U)
  BY Zenon DEF Reference!HeldBy, Reference!SumFunctionOnSet, Reference!FoldFunctionOnSet,
    Reference!MapThenFoldSet, SumFunctionOnSet, FoldFunctionOnSet, MapThenFoldSet
<1> HIDE DEF held
<1>3. IsFiniteSet(S) /\ \A p \in Proc : IsFiniteSet(S \cup {p})
  BY Processes, FS_Subset, FS_AddElement
<1>4. SumFunctionOnSet(held, {}) = 0
  BY SumRule, FS_EmptySet
<1>5. SumFunctionOnSet(held, S) \in Nat
  BY <1>1, Processes, SumType
<1>6. ASSUME NEW p \in Proc \ S
      PROVE  SumFunctionOnSet(held, S \cup {p}) = SumFunctionOnSet(held, S) + held[p]
  <2>1. (S \cup {p}) \ {p} = S
    OBVIOUS
  <2>2. SumFunctionOnSet(held, S \cup {p})
          = held[p] + SumFunctionOnSet(held, (S \cup {p}) \ {p})
    BY <1>1, <1>3, SumSplit
  <2>3. SumFunctionOnSet(held, S \cup {p}) = held[p] + SumFunctionOnSet(held, S)
    BY <2>1, <2>2
  <2>4. held[p] \in Nat
    BY <1>1
  <2> QED
    BY <1>5, <2>3, <2>4
<1>7. \A U \in SUBSET S : SumFunctionOnSet(held, U) <= SumFunctionOnSet(held, S)
  BY <1>1, <1>3, SumGrows
<1>8. \A p \in Proc : held[p] = alloc[p][j]
  BY DEF held
<1> QED
  BY <1>2, <1>4, <1>5, <1>6, <1>7, <1>8

Ran == {p \in Proc : running[p] = 0}

Tables == <<allocation, current_Avail, Need>>

\* Each process of a line finds its need in the free units and the holdings
\* of those before it.
Fits(line) ==
  \A n \in DOMAIN line : \A j \in Res :
    Need[line[n]][j]
      <= current_Avail[j] + Reference!HeldBy({line[m] : m \in 1 .. n - 1}, allocation, j)

(***************************************************************************)
(* The units free are those of the call and those of the processes run,    *)
(* and the order in which they ran is a line in which each of them fits.   *)
(***************************************************************************)
Freed ==
  \A j \in Res : avail_checker[j] = current_Avail[j] + Reference!HeldBy(Ran, allocation, j)

Lined == \E line \in Bijection(1 .. number_p - checked, Ran) : Fits(line)

GreedyInv == IInv /\ Freed /\ Lined

LEMMA InitGreedy == CheckerInit => GreedyInv
<1> SUFFICES ASSUME CheckerInit PROVE Freed /\ Lined
  BY InitCounted DEF GreedyInv
<1>0. CheckerTypeOK
  BY InitCounted DEF IInv
<1>1. Ran = {} /\ avail_checker = current_Avail /\ number_p - checked = 0
  BY CheckerAssumption DEF CheckerInit, Ran
<1>2. Freed
  <2> SUFFICES ASSUME NEW j \in Res
               PROVE  avail_checker[j]
                        = current_Avail[j] + Reference!HeldBy(Ran, allocation, j)
    BY DEF Freed
  <2>1. Reference!HeldBy({}, allocation, j) = 0
    BY <1>0, Holdings DEF CheckerTypeOK
  <2> QED
    BY <1>0, <1>1, <2>1 DEF CheckerTypeOK
<1>3. Lined
  <2> DEFINE none == [n \in 1 .. 0 |-> 0]
  <2>1. none \in Bijection(1 .. 0, {})
    BY DEF Bijection, Injection, Surjection, IsInjective
  <2>2. Fits(none)
    BY DEF Fits
  <2> QED
    BY <1>1, <2>1, <2>2 DEF Lined
<1> QED
  BY <1>2, <1>3

(***************************************************************************)
(* A pass that runs a process puts it at the end of the line.              *)
(***************************************************************************)
LEMMA RunGreedy ==
  ASSUME GreedyInv, NEW p \in Proc, Run(p)
  PROVE  Freed' /\ Lined'
<1>0. CheckerTypeOK /\ Freed /\ Lined
  BY DEF GreedyInv, IInv
<1>1. /\ UNCHANGED Tables /\ checked' = checked - 1 /\ checked # 0
      /\ running[p] = 1 /\ running' = [running EXCEPT ![p] = 0]
      /\ \A j \in Res : Need[p][j] <= avail_checker[j]
      /\ avail_checker' = [j \in Res |-> avail_checker[j] + allocation[p][j]]
  BY DEF Run, FirstRunnable, Runnable, Tables
<1>2. Ran' = Ran \cup {p} /\ p \notin Ran /\ Ran \in SUBSET Proc
  BY <1>0, <1>1 DEF Ran, CheckerTypeOK
<1>3. Freed'
  <2> SUFFICES ASSUME NEW j \in Res
               PROVE  avail_checker'[j]
                        = current_Avail[j] + Reference!HeldBy(Ran \cup {p}, allocation, j)
    BY <1>1, <1>2 DEF Freed, Tables
  <2>1. /\ Reference!HeldBy(Ran \cup {p}, allocation, j)
             = Reference!HeldBy(Ran, allocation, j) + allocation[p][j]
        /\ Reference!HeldBy(Ran, allocation, j) \in Nat
    BY <1>0, <1>2, Holdings DEF CheckerTypeOK
  <2>2. allocation[p][j] \in Nat /\ current_Avail[j] \in Nat
    BY <1>0 DEF CheckerTypeOK
  <2> QED
    BY <1>0, <1>1, <2>1, <2>2 DEF Freed
<1>4. Lined'
  <2>1. PICK k \in Nat : k = number_p - checked /\ number_p - checked' = k + 1
    BY <1>0, <1>1, CheckerAssumption DEF CheckerTypeOK
  <2>2. PICK line \in Bijection(1 .. k, Ran) : Fits(line)
    BY <1>0, <2>1 DEF Lined
  <2> DEFINE longer == [n \in 1 .. k + 1 |-> IF n = k + 1 THEN p ELSE line[n]]
  <2>3. /\ line \in [1 .. k -> Ran]
        /\ \A a, b \in 1 .. k : line[a] = line[b] => a = b
        /\ \A q \in Ran : \E n \in 1 .. k : line[n] = q
    BY <2>2 DEF Bijection, Injection, Surjection, IsInjective
  <2>4. longer[k + 1] = p /\ \A n \in 1 .. k : longer[n] = line[n] /\ n # k + 1
    BY <2>1
  <2>5. longer \in Bijection(1 .. k + 1, Ran \cup {p})
    <3>1. longer \in [1 .. k + 1 -> Ran \cup {p}]
      BY <2>1, <2>3
    <3>2. ASSUME NEW a \in 1 .. k + 1, NEW b \in 1 .. k + 1, longer[a] = longer[b]
          PROVE  a = b
      BY <1>2, <2>1, <2>3, <2>4, <3>2
    <3>3. ASSUME NEW q \in Ran \cup {p} PROVE \E n \in 1 .. k + 1 : longer[n] = q
      <4>1. CASE q = p
        BY <2>1, <2>4, <4>1
      <4>2. CASE q \in Ran
        BY <2>1, <2>3, <2>4, <4>2
      <4> QED
        BY <4>1, <4>2
    <3> HIDE DEF longer
    <3> QED
      BY <3>1, <3>2, <3>3 DEF Bijection, Injection, Surjection, IsInjective
  <2>6. ASSUME NEW n \in 1 .. k + 1, NEW j \in Res
        PROVE  Need[longer[n]][j]
                 <= current_Avail[j]
                      + Reference!HeldBy({longer[m] : m \in 1 .. n - 1}, allocation, j)
    <3>1. CASE n = k + 1
      <4>1. n - 1 = k /\ \A m \in 1 .. k : longer[m] = line[m]
        BY <2>1, <2>4, <3>1
      <4>2. {longer[m] : m \in 1 .. k} = {line[m] : m \in 1 .. k}
        BY <4>1
      <4>3. {line[m] : m \in 1 .. k} = Ran
        BY <2>3
      <4> QED
        BY <1>0, <1>1, <2>4, <3>1, <4>1, <4>2, <4>3 DEF Freed
    <3>2. CASE n # k + 1
      <4>1. n \in 1 .. k /\ longer[n] = line[n] /\ n \in DOMAIN line
        BY <2>1, <2>3, <2>4, <3>2
      <4>2. \A m \in 1 .. n - 1 : longer[m] = line[m]
        BY <2>1, <2>4, <4>1
      <4>3. {longer[m] : m \in 1 .. n - 1} = {line[m] : m \in 1 .. n - 1}
        BY <4>2
      <4> QED
        BY <2>2, <4>1, <4>3 DEF Fits
    <3> QED
      BY <3>1, <3>2
  <2>7. DOMAIN longer = 1 .. k + 1
    OBVIOUS
  <2> HIDE DEF longer
  <2>8. Fits(longer)'
    BY <1>1, <2>6, <2>7 DEF Fits, Tables
  <2> QED
    BY <1>2, <2>1, <2>5, <2>8 DEF Lined
<1> QED
  BY <1>3, <1>4

LEMMA StepGreedy == GreedyInv /\ [CheckerNext]_checkerVars => GreedyInv'
<1> SUFFICES ASSUME GreedyInv, [CheckerNext]_checkerVars PROVE Freed' /\ Lined'
  BY StepCounted DEF GreedyInv
<1>1. ASSUME NEW p \in Proc, Run(p) PROVE Freed' /\ Lined'
  BY <1>1, RunGreedy
<1>2. CASE UNCHANGED <<allocation, current_Avail, Need, avail_checker, running, checked>>
  BY <1>2 DEF GreedyInv, Freed, Lined, Fits, Ran
<1> QED
  BY <1>1, <1>2 DEF CheckerNext, Stuck, AllRun, Verdict, checkerVars

(***************************************************************************)
(* The lines of the reference are the orders of all processes.             *)
(***************************************************************************)
LEMMA LinesAre == Reference!Lines = Bijection(1 .. number_p, Proc)
<1>1. Reference!Cardinality(Proc) = Cardinality(Proc)
  BY Zenon DEF Reference!Cardinality, Cardinality, Reference!IsFiniteSet, IsFiniteSet
<1>2. \A S, T : Reference!Bijection(S, T) = Bijection(S, T)
  BY Zenon DEF Reference!Bijection, Reference!Injection, Reference!Surjection,
    Reference!IsInjective, Bijection, Injection, Surjection, IsInjective
<1> QED
  BY <1>1, <1>2, Processes DEF Reference!Lines

(***************************************************************************)
(* When a process is left and none of those left can be run, no line of    *)
(* all processes has each of them fit: the first of the line that was not  *)
(* run would have been runnable.                                           *)
(***************************************************************************)
LEMMA NoOtherOrder ==
  ASSUME GreedyInv, checked # 0, \A p \in Proc : ~ Runnable(p)
  PROVE  ~ Reference!IsSafe(allocation, current_Avail, Need)
<1> SUFFICES ASSUME NEW line \in Bijection(1 .. number_p, Proc), Fits(line)
             PROVE  FALSE
  BY LinesAre DEF Reference!IsSafe, Fits
<1>0. CheckerTypeOK /\ Counted /\ Freed
  BY DEF GreedyInv, IInv
<1>1. line \in [1 .. number_p -> Proc] /\ \A q \in Proc : \E n \in 1 .. number_p : line[n] = q
  BY DEF Bijection, Injection, Surjection
<1> DEFINE Late == {n \in 1 .. number_p : running[line[n]] = 1}
<1>2. PICK n \in Late : \A m \in Late : n <= m
  <2>1. Waiting # {}
    BY <1>0, FS_EmptySet DEF Counted
  <2>2. Late # {} /\ Late \in SUBSET Nat
    BY <1>1, <2>1 DEF Waiting
  <2> HIDE DEF Late
  <2> QED
    BY <2>2, Least
<1> DEFINE Before == {line[m] : m \in 1 .. n - 1}
<1>3. Before \in SUBSET Ran
  <2> SUFFICES ASSUME NEW m \in 1 .. n - 1 PROVE line[m] \in Proc /\ running[line[m]] = 0
    BY DEF Ran
  <2>1. m \in 1 .. number_p /\ m < n
    BY <1>2, CheckerAssumption
  <2>2. line[m] \in Proc /\ m \notin Late
    BY <1>1, <1>2, <2>1
  <2> QED
    BY <1>0, <2>1, <2>2 DEF CheckerTypeOK
<1>4. ASSUME NEW j \in Res PROVE Need[line[n]][j] <= avail_checker[j]
  <2>1. Need[line[n]][j] <= current_Avail[j] + Reference!HeldBy(Before, allocation, j)
    BY <1>1, <1>2 DEF Fits
  <2>2. /\ Reference!HeldBy(Before, allocation, j) <= Reference!HeldBy(Ran, allocation, j)
        /\ Reference!HeldBy(Before, allocation, j) \in Nat
        /\ Reference!HeldBy(Ran, allocation, j) \in Nat
    <3>1. Ran \in SUBSET Proc /\ Before \in SUBSET Proc
      BY <1>3 DEF Ran
    <3> HIDE DEF Before
    <3> QED
      BY <1>0, <1>3, <3>1, Holdings DEF CheckerTypeOK
  <2>3. Need[line[n]][j] \in Nat /\ current_Avail[j] \in Nat
    BY <1>0, <1>1, <1>2 DEF CheckerTypeOK
  <2> QED
    BY <1>0, <2>1, <2>2, <2>3 DEF Freed
<1> QED
  BY <1>1, <1>2, <1>4 DEF Runnable

(***************************************************************************)
(* The greedy scan answers 1 exactly when the tables are safe: whatever    *)
(* their size and contents, an order in which every process can run is     *)
(* found if there is one.  (safety_Checker, Banker.c:371)                  *)
(***************************************************************************)
THEOREM GreedyDecides == CheckerSpec => []DecidesSafety
<1>1. GreedyInv => DecidesSafety
  <2> SUFFICES ASSUME GreedyInv, checkerPc = "done"
               PROVE  safety = 1 <=> Reference!IsSafe(allocation, current_Avail, Need)
    BY DEF DecidesSafety
  <2>1. /\ CheckerTypeOK /\ Counted /\ Lined
        /\ safety = 1 <=> checked = 0
        /\ checked = 0 \/ \A p \in Proc : ~ Runnable(p)
    BY DEF GreedyInv, IInv, Left
  <2>2. CASE checked = 0
    <3>1. Waiting = {}
      <4>1. IsFiniteSet(Waiting)
        BY Processes, FS_Subset DEF Waiting
      <4> QED
        BY <2>1, <2>2, <4>1, FS_EmptySet DEF Counted
    <3>2. Ran = Proc
      BY <2>1, <3>1 DEF Ran, Waiting, CheckerTypeOK
    <3>3. PICK line \in Bijection(1 .. number_p, Proc) : Fits(line)
      BY <2>1, <2>2, <3>2, CheckerAssumption DEF Lined
    <3>4. line \in Reference!Lines
      BY <3>3, LinesAre
    <3> QED
      BY <2>1, <2>2, <3>3, <3>4 DEF Fits, Reference!IsSafe
  <2>3. CASE checked # 0
    BY <2>1, <2>3, NoOtherOrder
  <2> QED
    BY <2>2, <2>3
<1> QED
  BY <1>1, InitGreedy, StepGreedy, PTL DEF CheckerSpec
=============================================================================
