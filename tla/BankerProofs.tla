---------------------------- MODULE BankerProofs ----------------------------
(***************************************************************************)
(* Theorems about the simulation of Assignment3/Banker.c, for any number   *)
(* of processes and resource types and any quantities.                     *)
(***************************************************************************)
EXTENDS BankerPool, TLAPS

USE BankerAssumption

(***************************************************************************)
(* The inductive invariant.  ClaimsRespected needs BooksClean (a request   *)
(* is added to an empty row), BooksClean and NoForgottenWaiter need        *)
(* DriverRuns (a grant and a release belong to a process not waiting).     *)
(***************************************************************************)
Inv == /\ TypeOK
       /\ ClaimsRespected
       /\ NoForgottenWaiter
       /\ BooksClean
       /\ DriverRuns
-----------------------------------------------------------------------------
(* Lemmas about vectors and random draws.                                  *)

\* The sum of two vectors is a vector, also when taken the other way round.
LEMMA PlusType ==
  ASSUME NEW v \in Vector, NEW w \in Vector
  PROVE  Plus(v, w) \in Vector
BY DEF Vector, Plus

\* A difference is a vector when nothing is taken that is not there.
LEMMA MinusType ==
  ASSUME NEW v \in Vector, NEW w \in Vector, veccmp(w, v)
  PROVE  Minus(v, w) \in Vector
<1>1. \A j \in Res : v[j] - w[j] \in Nat
  BY DEF Vector, veccmp
<1> QED BY <1>1 DEF Vector, Minus

\* Taking a vector from itself leaves nothing.
LEMMA MinusSelf ==
  ASSUME NEW v \in Vector
  PROVE  Minus(v, v) = Zero
BY DEF Vector, Minus, Zero

\* The empty vector is a vector and changes no sum.
LEMMA ZeroVector == /\ Zero \in Vector
                    /\ \A v \in Vector : Plus(Zero, v) = v
BY DEF Zero, Vector, Plus

\* main always draws a declared process.
LEMMA DrawProc == rdm_num(0, number_p - 1) \subseteq Proc
BY DEF rdm_num, Proc

\* A drawn vector is a vector, and stays within every bound that is a count.
LEMMA DrawType ==
  ASSUME NEW hi \in [Res -> Int], NEW v \in DrawVector(hi)
  PROVE  /\ v \in Vector
         /\ \A j \in Res : v[j] <= hi[j] \/ (hi[j] < 0 /\ v[j] = 0)
<1>1. \A j \in Res : v[j] \in Nat /\ (v[j] <= hi[j] \/ (hi[j] < 0 /\ v[j] = 0))
  <2> SUFFICES ASSUME NEW j \in Res
               PROVE  v[j] \in Nat /\ (v[j] <= hi[j] \/ (hi[j] < 0 /\ v[j] = 0))
    OBVIOUS
  <2>1. v[j] \in rdm_num(0, hi[j])
    BY DEF DrawVector
  <2>2. hi[j] \in Int
    OBVIOUS
  <2> QED BY <2>1, <2>2 DEF rdm_num
<1>2. v \in [Res -> UNION {rdm_num(0, hi[j]) : j \in Res}]
  BY DEF DrawVector
<1> QED BY <1>1, <1>2 DEF Vector

\* release gives back no more than the process holds.
LEMMA ReleaseBound ==
  ASSUME TypeOK, NEW which \in Proc, NEW m \in Res,
         NEW r \in ReleaseVectors(which, m)
  PROVE  r \in Vector /\ veccmp(r, allocation[which])
<1> DEFINE hi == [j \in Res |-> IF j = m THEN allocation[which][j] - 1
                                         ELSE allocation[which][j]]
<1>1. allocation[which] \in Vector
  BY DEF TypeOK
<1>2. hi \in [Res -> Int]
  BY <1>1 DEF Vector
<1>3. r \in DrawVector(hi)
  BY DEF ReleaseVectors
<1> HIDE DEF hi
<1>4. /\ r \in Vector
      /\ \A j \in Res : r[j] <= hi[j] \/ (hi[j] < 0 /\ r[j] = 0)
  BY <1>2, <1>3, DrawType
<1>5. \A j \in Res : r[j] <= allocation[which][j]
  <2> SUFFICES ASSUME NEW j \in Res PROVE r[j] <= allocation[which][j]
    OBVIOUS
  <2>1. allocation[which][j] \in Nat /\ r[j] \in Nat
    BY <1>1, <1>4 DEF Vector
  <2>2. hi[j] = allocation[which][j] - 1 \/ hi[j] = allocation[which][j]
    BY DEF hi
  <2> QED BY <1>4, <2>1, <2>2
<1> QED BY <1>4, <1>5 DEF veccmp

\* A request is a vector; within a claim that covers the holding, holding
\* and request together stay within the claim.
LEMMA RequestBound ==
  ASSUME TypeOK, NEW which \in Proc, NEW r \in request_generator(which)
  PROVE  /\ r \in Vector
         /\ veccmp(allocation[which], processes[which])
              => veccmp(Plus(allocation[which], r), processes[which])
<1> DEFINE hi == Minus(processes[which], allocation[which])
<1>1. allocation[which] \in Vector /\ processes[which] \in Vector
  BY DEF TypeOK
<1>2. hi \in [Res -> Int]
  BY <1>1 DEF Vector, Minus
<1>3. r \in DrawVector(hi)
  BY DEF request_generator
<1>4. \A j \in Res : hi[j] = processes[which][j] - allocation[which][j]
  BY DEF Minus
<1> HIDE DEF hi
<1>5. /\ r \in Vector
      /\ \A j \in Res : r[j] <= hi[j] \/ (hi[j] < 0 /\ r[j] = 0)
  BY <1>2, <1>3, DrawType
<1>6. ASSUME veccmp(allocation[which], processes[which]), NEW j \in Res
      PROVE  Plus(allocation[which], r)[j] <= processes[which][j]
  <2>1. /\ allocation[which][j] \in Nat /\ processes[which][j] \in Nat
        /\ r[j] \in Nat
    BY <1>1, <1>5 DEF Vector
  <2>2. allocation[which][j] <= processes[which][j]
    BY <1>6 DEF veccmp
  <2>3. r[j] <= processes[which][j] - allocation[which][j]
    BY <1>4, <1>5, <2>1, <2>2
  <2> QED BY <2>1, <2>3 DEF Plus
<1> QED BY <1>5, <1>6 DEF veccmp
-----------------------------------------------------------------------------
(* Each conjunct of the invariant is preserved by every step.              *)

LEMMA InitInv == Init => Inv
<1> SUFFICES ASSUME Init PROVE Inv
  OBVIOUS
<1>1. Availres \in Vector /\ processes \in [Proc -> Vector]
  BY DEF Init, Vector
<1>2. TypeOK
  BY <1>1, ZeroVector DEF Init, TypeOK, Proc
<1>3. ClaimsRespected
  <2> SUFFICES ASSUME NEW p \in Proc
               PROVE  veccmp(Plus(allocation[p], request_Table[p]), processes[p])
    BY DEF ClaimsRespected
  <2>1. Plus(allocation[p], request_Table[p]) = Zero
    BY ZeroVector DEF Init
  <2>2. processes[p] \in Vector
    BY <1>1
  <2> QED BY <2>1, <2>2 DEF veccmp, Zero, Vector
<1>4. NoForgottenWaiter /\ BooksClean /\ DriverRuns
  BY DEF Init, NoForgottenWaiter, BooksClean, DriverRuns
<1> QED BY <1>2, <1>3, <1>4 DEF Inv

\* Handing over a request that fits keeps all tables tables of counts.
LEMMA HandOverType ==
  ASSUME TypeOK, NEW p \in Proc, veccmp(request_Table[p], current_Avail),
         HandOver(p)
  PROVE  /\ current_Avail' \in Vector
         /\ request_Table' \in [Proc -> Vector]
         /\ allocation' \in [Proc -> Vector]
         /\ request_Table' = [request_Table EXCEPT ![p] = Zero]
<1>1. /\ request_Table[p] \in Vector /\ allocation[p] \in Vector
      /\ current_Avail \in Vector
  BY DEF TypeOK
<1>2. Minus(current_Avail, request_Table[p]) \in Vector
  BY <1>1, MinusType
<1>3. Plus(allocation[p], request_Table[p]) \in Vector
  BY <1>1, PlusType
<1>4. Minus(request_Table[p], request_Table[p]) = Zero
  BY <1>1, MinusSelf
<1> QED BY <1>2, <1>3, <1>4, ZeroVector DEF HandOver, TypeOK

LEMMA TypeStep == TypeOK /\ [Next]_vars => TypeOK'
<1> SUFFICES ASSUME TypeOK, [Next]_vars PROVE TypeOK'
  OBVIOUS
<1>1. CASE LoopHead
  BY <1>1, DrawProc DEF LoopHead, TypeOK, input
<1>2. CASE DrawAgain
  BY <1>2, DrawProc DEF DrawAgain, TypeOK, input
<1>3. CASE Request
  <2>1. PICK r \in request_generator(k) :
          request_Table' = [request_Table EXCEPT ![k] = Plus(@, r)]
    BY <1>3 DEF Request
  <2>2. k \in Proc /\ request_Table[k] \in Vector
    BY DEF TypeOK
  <2>3. Plus(request_Table[k], r) \in Vector
    BY <2>2, RequestBound, PlusType
  <2> QED BY <1>3, <2>1, <2>3 DEF Request, TypeOK, input
<1>4. CASE Refuse
  BY <1>4 DEF Refuse, TypeOK, input
<1>5. CASE Grant
  <2>1. k \in Proc
    BY DEF TypeOK
  <2> QED BY <1>5, <2>1, HandOverType DEF Grant, TypeOK, input
<1>6. CASE Release
  <2>m. PICK m \in Res : \E r \in ReleaseVectors(k, m) :
          /\ allocation' = [allocation EXCEPT ![k] = Minus(@, r)]
          /\ current_Avail' = Plus(current_Avail, r)
    BY <1>6 DEF Release
  <2>1. PICK r \in ReleaseVectors(k, m) :
          /\ allocation' = [allocation EXCEPT ![k] = Minus(@, r)]
          /\ current_Avail' = Plus(current_Avail, r)
    BY <2>m
  <2>2. /\ k \in Proc /\ allocation[k] \in Vector /\ current_Avail \in Vector
    BY DEF TypeOK
  <2>3. Minus(allocation[k], r) \in Vector /\ Plus(current_Avail, r) \in Vector
    BY <2>2, ReleaseBound, MinusType, PlusType
  <2> QED BY <1>6, <2>1, <2>3 DEF Release, TypeOK, input
<1>7. CASE WakeUp
  <2>1. /\ current_Avail' \in Vector
        /\ request_Table' \in [Proc -> Vector]
        /\ allocation' \in [Proc -> Vector]
    BY <1>7, HandOverType DEF WakeUp
  <2>2. i' \in 0 .. number_p /\ locking' \in [Proc -> {0, 1}]
    BY <1>7 DEF WakeUp, TypeOK, Proc
  <2> QED BY <1>7, <2>1, <2>2 DEF WakeUp, TypeOK, input
<1>8. CASE PassOver
  BY <1>8 DEF PassOver, TypeOK, input, Proc
<1>9. CASE ScanDone
  BY <1>9 DEF ScanDone, TypeOK, input
<1>10. CASE sig_handler
  BY <1>10 DEF sig_handler, TypeOK, input
<1>11. CASE UNCHANGED vars
  BY <1>11 DEF vars, TypeOK
<1> QED BY <1>1, <1>2, <1>3, <1>4, <1>5, <1>6, <1>7, <1>8, <1>9, <1>10,
           <1>11 DEF Next, Main

LEMMA DriverStep == Inv /\ [Next]_vars => DriverRuns'
<1> SUFFICES ASSUME Inv, [Next]_vars PROVE DriverRuns'
  OBVIOUS
<1> USE DEF Inv, DriverRuns
<1>1. CASE LoopHead
  BY <1>1 DEF LoopHead
<1>2. CASE DrawAgain
  BY <1>2 DEF DrawAgain
<1>3. CASE Request
  BY <1>3 DEF Request
<1>4. CASE Refuse
  BY <1>4 DEF Refuse
<1>5. CASE Grant
  BY <1>5 DEF Grant
<1>6. CASE Release
  BY <1>6 DEF Release
<1>7. CASE WakeUp
  BY <1>7 DEF WakeUp, TypeOK
<1>8. CASE PassOver
  BY <1>8 DEF PassOver
<1>9. CASE ScanDone
  BY <1>9 DEF ScanDone
<1>10. CASE sig_handler
  BY <1>10 DEF sig_handler
<1>11. CASE UNCHANGED vars
  BY <1>11 DEF vars
<1> QED BY <1>1, <1>2, <1>3, <1>4, <1>5, <1>6, <1>7, <1>8, <1>9, <1>10,
           <1>11 DEF Next, Main

LEMMA BooksStep == Inv /\ [Next]_vars => BooksClean'
<1> SUFFICES ASSUME Inv, [Next]_vars PROVE BooksClean'
  OBVIOUS
<1> USE DEF Inv
<1>0. TypeOK
  OBVIOUS
<1>1. CASE LoopHead
  BY <1>1 DEF LoopHead, BooksClean
<1>2. CASE DrawAgain
  BY <1>2 DEF DrawAgain, BooksClean
<1>3. CASE Request
  BY <1>3 DEF Request, BooksClean, TypeOK
<1>4. CASE Refuse
  BY <1>4 DEF Refuse, BooksClean, TypeOK
<1>5. CASE Grant
  <2>1. request_Table' = [request_Table EXCEPT ![k] = Zero]
    BY <1>0, <1>5, HandOverType DEF Grant, TypeOK
  <2> QED BY <1>0, <1>5, <2>1 DEF Grant, BooksClean, TypeOK
<1>6. CASE Release
  BY <1>6 DEF Release, BooksClean
<1>7. CASE WakeUp
  <2>1. request_Table' = [request_Table EXCEPT ![i] = Zero]
    BY <1>0, <1>7, HandOverType DEF WakeUp
  <2> QED BY <1>0, <1>7, <2>1 DEF WakeUp, BooksClean, TypeOK
<1>8. CASE PassOver
  BY <1>8 DEF PassOver, BooksClean
<1>9. CASE ScanDone
  BY <1>9 DEF ScanDone, BooksClean
<1>10. CASE sig_handler
  BY <1>10 DEF sig_handler, BooksClean
<1>11. CASE UNCHANGED vars
  BY <1>11 DEF vars, BooksClean
<1> QED BY <1>1, <1>2, <1>3, <1>4, <1>5, <1>6, <1>7, <1>8, <1>9, <1>10,
           <1>11 DEF Next, Main

\* A hand-over moves a request to the holding: their sum stays the same.
LEMMA HandOverClaim ==
  ASSUME TypeOK, ClaimsRespected, NEW p \in Proc, HandOver(p),
         veccmp(request_Table[p], current_Avail),
         processes' = processes
  PROVE  ClaimsRespected'
<1>1. request_Table' = [request_Table EXCEPT ![p] = Zero]
  BY HandOverType
<1> SUFFICES ASSUME NEW q \in Proc, NEW j \in Res
             PROVE  allocation'[q][j] + request_Table'[q][j] <= processes[q][j]
  BY DEF ClaimsRespected, veccmp, Plus
<1>2. allocation[q][j] + request_Table[q][j] <= processes[q][j]
  BY DEF ClaimsRespected, veccmp, Plus
<1>3. allocation[q][j] \in Nat /\ request_Table[q][j] \in Nat
  BY DEF TypeOK, Vector
<1>4. CASE q # p
  BY <1>1, <1>2, <1>4 DEF HandOver, TypeOK
<1>5. CASE q = p
  <2>1. allocation'[q][j] = allocation[q][j] + request_Table[q][j]
    BY <1>5 DEF HandOver, TypeOK, Plus
  <2>2. request_Table'[q][j] = 0
    BY <1>1, <1>5 DEF TypeOK, Zero
  <2> QED BY <1>2, <1>3, <2>1, <2>2
<1> QED BY <1>4, <1>5

LEMMA ClaimsStep == Inv /\ [Next]_vars => ClaimsRespected'
<1> SUFFICES ASSUME Inv, [Next]_vars PROVE ClaimsRespected'
  OBVIOUS
<1>0. TypeOK /\ ClaimsRespected /\ k \in Proc
  BY DEF Inv, TypeOK
<1>1. CASE LoopHead
  BY <1>0, <1>1 DEF LoopHead, ClaimsRespected, input
<1>2. CASE DrawAgain
  BY <1>0, <1>2 DEF DrawAgain, ClaimsRespected, input
<1>3. CASE Request
  <2>1. PICK r \in request_generator(k) :
          request_Table' = [request_Table EXCEPT ![k] = Plus(@, r)]
    BY <1>3 DEF Request
  <2>2. request_Table[k] = Zero
    BY <1>0, <1>3 DEF Request, Inv, BooksClean
  <2>3. r \in Vector
    BY <1>0, RequestBound
  <2>4. request_Table' = [request_Table EXCEPT ![k] = r]
    BY <2>1, <2>2, <2>3, ZeroVector
  <2>5. veccmp(allocation[k], processes[k])
    <3>1. veccmp(Plus(allocation[k], Zero), processes[k])
      BY <1>0, <2>2 DEF ClaimsRespected
    <3>2. \A j \in Res : allocation[k][j] \in Nat
      BY <1>0 DEF TypeOK, Vector
    <3> QED BY <3>1, <3>2 DEF veccmp, Plus, Zero
  <2>6. veccmp(Plus(allocation[k], r), processes[k])
    BY <1>0, <2>5, RequestBound
  <2> QED BY <1>0, <1>3, <2>4, <2>6
          DEF Request, ClaimsRespected, TypeOK, input
<1>4. CASE Refuse
  BY <1>0, <1>4 DEF Refuse, ClaimsRespected, input
<1>5. CASE Grant
  BY <1>0, <1>5, HandOverClaim DEF Grant, input
<1>6. CASE Release
  <2>m. PICK m \in Res : \E r \in ReleaseVectors(k, m) :
          allocation' = [allocation EXCEPT ![k] = Minus(@, r)]
    BY <1>6 DEF Release
  <2>1. PICK r \in ReleaseVectors(k, m) :
          allocation' = [allocation EXCEPT ![k] = Minus(@, r)]
    BY <2>m
  <2>2. r \in Vector
    BY <1>0, ReleaseBound
  <2>3. UNCHANGED <<request_Table, processes>>
    BY <1>6 DEF Release, input
  <2> SUFFICES ASSUME NEW q \in Proc, NEW j \in Res
               PROVE  allocation'[q][j] + request_Table[q][j] <= processes[q][j]
    BY <2>3 DEF ClaimsRespected, veccmp, Plus
  <2>4. allocation[q][j] + request_Table[q][j] <= processes[q][j]
    BY <1>0 DEF ClaimsRespected, veccmp, Plus
  <2>5. /\ allocation[q][j] \in Nat /\ request_Table[q][j] \in Nat
        /\ processes[q][j] \in Nat /\ r[j] \in Nat
    BY <1>0, <2>2 DEF TypeOK, Vector
  <2>6. allocation'[q][j] = allocation[q][j]
          \/ allocation'[q][j] = allocation[q][j] - r[j]
    BY <1>0, <2>1 DEF TypeOK, Minus
  <2> QED BY <2>4, <2>5, <2>6
<1>7. CASE WakeUp
  BY <1>0, <1>7, HandOverClaim DEF WakeUp, input
<1>8. CASE PassOver
  BY <1>0, <1>8 DEF PassOver, ClaimsRespected, input
<1>9. CASE ScanDone
  BY <1>0, <1>9 DEF ScanDone, ClaimsRespected, input
<1>10. CASE sig_handler
  BY <1>0, <1>10 DEF sig_handler, ClaimsRespected, input
<1>11. CASE UNCHANGED vars
  BY <1>0, <1>11 DEF vars, ClaimsRespected
<1> QED BY <1>1, <1>2, <1>3, <1>4, <1>5, <1>6, <1>7, <1>8, <1>9, <1>10,
           <1>11 DEF Next, Main

\* Who was refused stays refused when somebody else is served.
LEMMA StillRefused ==
  ASSUME TypeOK, NEW p \in Proc, veccmp(request_Table[p], current_Avail),
         HandOver(p), NEW q \in Proc, q # p, locking'[q] = locking[q],
         Refused(q)
  PROVE  Refused(q)'
<1>1. PICK j \in Res : ~ (request_Table[q][j] <= current_Avail[j])
  BY DEF Refused, veccmp
<1>2. request_Table'[q] = request_Table[q]
  BY DEF HandOver, TypeOK
<1>3. /\ request_Table[q][j] \in Nat /\ request_Table[p][j] \in Nat
      /\ current_Avail[j] \in Nat
  BY DEF TypeOK, Vector
<1>4. current_Avail'[j] = current_Avail[j] - request_Table[p][j]
  BY DEF HandOver, Minus
<1> QED BY <1>1, <1>2, <1>3, <1>4 DEF Refused, veccmp

LEMMA WaiterStep == Inv /\ [Next]_vars => NoForgottenWaiter'
<1> SUFFICES ASSUME Inv, [Next]_vars PROVE NoForgottenWaiter'
  OBVIOUS
<1>0. TypeOK /\ NoForgottenWaiter /\ DriverRuns /\ k \in Proc
  BY DEF Inv, TypeOK
<1> USE DEF NoForgottenWaiter
<1>1. CASE LoopHead
  BY <1>0, <1>1 DEF LoopHead, Refused
<1>2. CASE DrawAgain
  BY <1>0, <1>2 DEF DrawAgain, Refused
<1>3. CASE Request
  BY <1>0, <1>3 DEF Request, Refused, TypeOK
<1>4. CASE Refuse
  BY <1>0, <1>4 DEF Refuse, Refused, TypeOK
<1>5. CASE Grant
  <2>1. locking[k] = 0 /\ locking' = locking /\ pc = "decide" /\ pc' = "release"
    BY <1>0, <1>5 DEF Grant, DriverRuns
  <2>2. ASSUME NEW q \in Proc, locking'[q] = 1 PROVE Refused(q)'
    <3>1. q # k /\ Refused(q) /\ locking'[q] = locking[q]
      BY <1>0, <2>1, <2>2
    <3> QED BY <1>0, <1>5, <3>1, StillRefused DEF Grant
  <2> QED BY <2>1, <2>2
<1>6. CASE Release
  BY <1>0, <1>6 DEF Release, Proc
<1>7. CASE WakeUp
  <2>1. /\ i \in Proc /\ pc = "scan" /\ pc' = "scan" /\ i' = i + 1
        /\ locking' = [locking EXCEPT ![i] = 0]
    BY <1>7 DEF WakeUp
  <2>2. ASSUME NEW q \in Proc, q < i', locking'[q] = 1 PROVE Refused(q)'
    <3>1. q # i /\ locking'[q] = locking[q]
      BY <1>0, <2>1, <2>2 DEF TypeOK
    <3>2. q < i
      BY <2>1, <2>2, <3>1 DEF Proc
    <3>3. Refused(q)
      BY <1>0, <2>1, <2>2, <3>1, <3>2
    <3> QED BY <1>0, <1>7, <3>1, <3>3, StillRefused DEF WakeUp
  <2> QED BY <2>1, <2>2
<1>8. CASE PassOver
  <2>1. \A q \in Proc : q < i + 1 => q < i \/ q = i
    BY <1>8 DEF PassOver, Proc
  <2> QED BY <1>0, <1>8, <2>1 DEF PassOver, Refused
<1>9. CASE ScanDone
  BY <1>0, <1>9 DEF ScanDone, Refused, Proc
<1>10. CASE sig_handler
  BY <1>0, <1>10 DEF sig_handler, Refused
<1>11. CASE UNCHANGED vars
  BY <1>0, <1>11 DEF vars, Refused
<1> QED BY <1>1, <1>2, <1>3, <1>4, <1>5, <1>6, <1>7, <1>8, <1>9, <1>10,
           <1>11 DEF Next, Main
-----------------------------------------------------------------------------
(***************************************************************************)
(* The invariant holds in every reachable state.                           *)
(***************************************************************************)
THEOREM Invariance == Spec => []Inv
<1>1. Inv /\ [Next]_vars => Inv'
  BY TypeStep, DriverStep, BooksStep, ClaimsStep, WaiterStep DEF Inv
<1> QED BY InitInv, <1>1, PTL DEF Spec

(***************************************************************************)
(* No table ever holds a negative quantity; in particular the pool is      *)
(* never overdrawn.                                                        *)
(***************************************************************************)
THEOREM TypeCorrect == Spec => []TypeOK
<1>1. Inv => TypeOK
  BY DEF Inv
<1> QED BY Invariance, <1>1, PTL

(***************************************************************************)
(* Holding plus open request never exceed the claim.                       *)
(***************************************************************************)
THEOREM WithinClaims == Spec => []ClaimsRespected
<1>1. Inv => ClaimsRespected
  BY DEF Inv
<1> QED BY Invariance, <1>1, PTL

(***************************************************************************)
(* One ascending scan after a release serves every waiting process that    *)
(* can be served.                                                          *)
(***************************************************************************)
THEOREM ScanIsEnough == Spec => []NoForgottenWaiter
<1>1. Inv => NoForgottenWaiter
  BY DEF Inv
<1> QED BY Invariance, <1>1, PTL

(***************************************************************************)
(* Only waiting processes and the one being decided have an open request.  *)
(***************************************************************************)
THEOREM CleanBooks == Spec => []BooksClean
<1>1. Inv => BooksClean
  BY DEF Inv
<1> QED BY Invariance, <1>1, PTL

(***************************************************************************)
(* A hand-over is a transfer from the pool to one process.                 *)
(***************************************************************************)
LEMMA HandOverTransfer ==
  ASSUME TypeOK, NEW p \in Proc, HandOver(p)
  PROVE  Transfer
<1>1. \A q \in Proc \ {p} : allocation'[q] = allocation[q]
  BY DEF HandOver, TypeOK
<1>2. ASSUME NEW j \in Res
      PROVE  allocation'[p][j] + current_Avail'[j]
               = allocation[p][j] + current_Avail[j]
  <2>1. /\ allocation[p][j] \in Nat /\ current_Avail[j] \in Nat
        /\ request_Table[p][j] \in Nat
    BY DEF TypeOK, Vector
  <2>2. /\ allocation'[p][j] = allocation[p][j] + request_Table[p][j]
        /\ current_Avail'[j] = current_Avail[j] - request_Table[p][j]
    BY DEF HandOver, TypeOK, Plus, Minus
  <2> QED BY <2>1, <2>2
<1> QED BY <1>1, <1>2 DEF Transfer

(***************************************************************************)
(* Every step moves units between the pool and one process only, so no     *)
(* unit is ever lost or made, whatever the number of processes.            *)
(***************************************************************************)
THEOREM UnitsMove == Spec => UnitsOnlyMove
<1>1. ASSUME Inv, [Next]_vars PROVE [Transfer]_<<allocation, current_Avail>>
  <2>0. TypeOK /\ k \in Proc
    BY <1>1 DEF Inv, TypeOK
  <2>1. CASE Grant
    BY <2>0, <2>1, HandOverTransfer DEF Grant
  <2>2. CASE WakeUp
    BY <2>0, <2>2, HandOverTransfer DEF WakeUp
  <2>3. CASE Release
    <3>m. PICK m \in Res : \E r \in ReleaseVectors(k, m) :
            /\ allocation' = [allocation EXCEPT ![k] = Minus(@, r)]
            /\ current_Avail' = Plus(current_Avail, r)
      BY <2>3 DEF Release
    <3>1. PICK r \in ReleaseVectors(k, m) :
            /\ allocation' = [allocation EXCEPT ![k] = Minus(@, r)]
            /\ current_Avail' = Plus(current_Avail, r)
      BY <3>m
    <3>2. r \in Vector
      BY <2>0, ReleaseBound
    <3>3. ASSUME NEW j \in Res
          PROVE  allocation'[k][j] + current_Avail'[j]
                   = allocation[k][j] + current_Avail[j]
      <4>1. /\ allocation[k][j] \in Nat /\ current_Avail[j] \in Nat
            /\ r[j] \in Nat
        BY <2>0, <3>2 DEF TypeOK, Vector
      <4>2. /\ allocation'[k][j] = allocation[k][j] - r[j]
            /\ current_Avail'[j] = current_Avail[j] + r[j]
        BY <2>0, <3>1 DEF TypeOK, Plus, Minus
      <4> QED BY <4>1, <4>2
    <3>4. \A q \in Proc \ {k} : allocation'[q] = allocation[q]
      BY <2>0, <3>1 DEF TypeOK
    <3> QED BY <2>0, <3>3, <3>4 DEF Transfer
  <2>4. CASE ~ (Grant \/ WakeUp \/ Release)
    BY <1>1, <2>4 DEF Next, Main, LoopHead, DrawAgain, Request, Refuse,
                      PassOver, ScanDone, sig_handler, vars
  <2> QED BY <2>1, <2>2, <2>3, <2>4
<1> QED BY <1>1, Invariance, PTL DEF Spec, UnitsOnlyMove

(***************************************************************************)
(* Once all processes wait, all processes wait for ever, for no process is *)
(* left that would run release.  (while (locking[k] == 1), Banker.c:117)   *)
(***************************************************************************)
THEOREM DeadlockStays == Spec => DeadlockIsForever
<1>1. ASSUME Inv, [Next]_vars, AllWaiting PROVE AllWaiting'
  <2>0. locking[k] = 1 /\ locking \in [Proc -> {0, 1}] /\ k \in Proc
    BY <1>1 DEF Inv, TypeOK, AllWaiting
  <2>1. pc \notin {"decide", "release", "scan"}
    BY <1>1, <2>0 DEF Inv, DriverRuns
  <2>2. UNCHANGED locking
    BY <1>1, <2>0, <2>1 DEF Next, Main, LoopHead, DrawAgain, Request, Refuse,
       Grant, Release, WakeUp, PassOver, ScanDone, sig_handler, vars
  <2> QED BY <1>1, <2>2 DEF AllWaiting
<1>2. Inv /\ [Next]_vars => [AllWaiting => AllWaiting']_vars
  BY <1>1
<1> QED BY <1>2, Invariance, PTL DEF Spec, DeadlockIsForever

(***************************************************************************)
(* A waiting process keeps its units and its request until it is granted   *)
(* all of it.                                                              *)
(***************************************************************************)
THEOREM WaitersStay == Spec => WaitersKeepTheirPlace
<1> DEFINE Kept(p) ==
      locking[p] = 1 =>
        \/ /\ locking'[p] = 1
           /\ request_Table'[p] = request_Table[p]
           /\ allocation'[p] = allocation[p]
        \/ /\ locking'[p] = 0
           /\ request_Table'[p] = Zero
           /\ allocation'[p] = Plus(allocation[p], request_Table[p])
<1>1. ASSUME Inv, [Next]_vars, NEW p \in Proc PROVE Kept(p)
  <2> SUFFICES ASSUME locking[p] = 1
               PROVE  \/ /\ locking'[p] = 1
                         /\ request_Table'[p] = request_Table[p]
                         /\ allocation'[p] = allocation[p]
                      \/ /\ locking'[p] = 0
                         /\ request_Table'[p] = Zero
                         /\ allocation'[p] = Plus(allocation[p], request_Table[p])
    OBVIOUS
  <2>0. TypeOK /\ DriverRuns /\ k \in Proc
    BY <1>1 DEF Inv, TypeOK
  <2>1. CASE Request
    BY <2>0, <2>1 DEF Request, TypeOK
  <2>2. CASE Refuse
    BY <2>0, <2>2 DEF Refuse, TypeOK, DriverRuns
  <2>3. CASE Grant
    BY <2>0, <2>3 DEF Grant, HandOver, TypeOK, DriverRuns
  <2>4. CASE Release
    BY <2>0, <2>4 DEF Release, TypeOK, DriverRuns
  <2>5. CASE WakeUp
    <3>1. request_Table' = [request_Table EXCEPT ![i] = Zero] /\ i \in Proc
      BY <2>0, <2>5, HandOverType DEF WakeUp
    <3>2. /\ allocation' = [allocation EXCEPT ![i] = Plus(@, request_Table[i])]
          /\ locking' = [locking EXCEPT ![i] = 0]
      BY <2>5 DEF WakeUp, HandOver
    <3> QED BY <2>0, <3>1, <3>2 DEF TypeOK
  <2>6. CASE ~ (Request \/ Refuse \/ Grant \/ Release \/ WakeUp)
    BY <1>1, <2>6 DEF Next, Main, LoopHead, DrawAgain, PassOver, ScanDone,
                      sig_handler, vars
  <2> QED BY <2>1, <2>2, <2>3, <2>4, <2>5, <2>6
<1>2. Inv /\ [Next]_vars => [\A p \in Proc : Kept(p)]_vars
  BY <1>1
<1> QED BY <1>2, Invariance, PTL DEF Spec, WaitersKeepTheirPlace
-----------------------------------------------------------------------------
(* Banker implements ResourcePool.                                         *)

LEMMA SameArithmetic ==
  /\ Pool!Nothing = Zero
  /\ Pool!Bundle = Vector
  /\ \A v, w : Pool!Add(v, w) = Plus(v, w) /\ Pool!Sub(v, w) = Minus(v, w)
  /\ \A v, w : Pool!Leq(v, w) <=> veccmp(v, w)
BY DEF Pool!Nothing, Zero, Pool!Bundle, Vector, Pool!Add, Plus, Pool!Sub,
       Minus, Pool!Leq, veccmp

\* A hand-over of a request that fits serves the client.
LEMMA HandOverServes ==
  ASSUME TypeOK, NEW p \in Proc, HandOver(p), UNCHANGED input,
         veccmp(request_Table[p], current_Avail)
  PROVE  Pool!Serve(p)
<1>1. request_Table' = [request_Table EXCEPT ![p] = Zero]
  BY HandOverType
<1> QED BY <1>1, SameArithmetic DEF HandOver, Pool!Serve, input

\* Request is the opening of a request in the pool.
LEMMA RequestAsks == Inv /\ ClaimsRespected' /\ TypeOK' /\ Request => Pool!Ask(k)
<1> SUFFICES ASSUME Inv, ClaimsRespected', TypeOK', Request PROVE Pool!Ask(k)
  OBVIOUS
<1>1. k \in Proc /\ request_Table[k] = Zero
  BY DEF Inv, TypeOK, Request, BooksClean
<1>2. UNCHANGED <<Availres, processes, allocation, current_Avail>>
  BY DEF Request, input
<1>3. request_Table' \in [Proc -> Vector]
  BY DEF TypeOK
<1>4. \A q \in Proc \ {k} : request_Table'[q] = request_Table[q]
  BY DEF Request, Inv, TypeOK
<1>5. veccmp(Plus(allocation[k], request_Table'[k]), processes[k])
  BY <1>1, <1>2 DEF ClaimsRespected
<1> QED BY <1>1, <1>2, <1>3, <1>4, <1>5, SameArithmetic DEF Pool!Ask

\* Release is a client giving units back.
LEMMA ReleaseGivesBack == Inv /\ TypeOK' /\ Release => Pool!GiveBack(k)
<1> SUFFICES ASSUME Inv, TypeOK', Release PROVE Pool!GiveBack(k)
  OBVIOUS
<1>0. TypeOK /\ k \in Proc
  BY DEF Inv, TypeOK
<1>1. request_Table[k] = Zero
  BY <1>0 DEF Inv, DriverRuns, BooksClean, Release
<1>2. PICK m \in Res : \E r \in ReleaseVectors(k, m) :
        /\ allocation' = [allocation EXCEPT ![k] = Minus(@, r)]
        /\ current_Avail' = Plus(current_Avail, r)
  BY DEF Release
<1>3. PICK r \in ReleaseVectors(k, m) :
        /\ allocation' = [allocation EXCEPT ![k] = Minus(@, r)]
        /\ current_Avail' = Plus(current_Avail, r)
  BY <1>2
<1>4. r \in Vector /\ allocation[k] \in Vector
  BY <1>0, ReleaseBound DEF TypeOK
<1>5. allocation'[k] = Minus(allocation[k], r)
  BY <1>0, <1>3 DEF TypeOK
<1>6. veccmp(allocation'[k], allocation[k])
  <2>1. \A j \in Res : r[j] \in Nat /\ allocation[k][j] \in Nat
    BY <1>4 DEF Vector
  <2> QED BY <1>5, <2>1 DEF veccmp, Minus
<1>7. Minus(allocation[k], allocation'[k]) = r
  <2>1. \A j \in Res : allocation[k][j] - (allocation[k][j] - r[j]) = r[j]
    BY <1>4 DEF Vector
  <2>2. r = [j \in Res |-> r[j]]
    BY <1>4 DEF Vector
  <2> QED BY <1>5, <2>1, <2>2 DEF Minus
<1>8. \A q \in Proc \ {k} : allocation'[q] = allocation[q]
  BY <1>0, <1>3 DEF TypeOK
<1>9. allocation' \in [Proc -> Vector] /\ UNCHANGED <<Availres, processes, request_Table>>
  BY DEF TypeOK, Release, input
<1> QED BY <1>1, <1>3, <1>6, <1>7, <1>8, <1>9, SameArithmetic DEF Pool!GiveBack

(***************************************************************************)
(* The simulation is a resource pool: everything it does to its tables is  *)
(* asking within a claim, serving in full, or giving back.                 *)
(***************************************************************************)
THEOREM Refinement == Spec => ImplementsResourcePool
<1>1. Init => Pool!Init
  BY SameArithmetic DEF Init, Pool!Init, Zero, Pool!Nothing
<1>2. ASSUME Inv, Inv', [Next]_vars PROVE [Pool!Next]_(Pool!vars)
  <2>0. TypeOK /\ TypeOK' /\ k \in Proc
    BY <1>2 DEF Inv, TypeOK
  <2>1. CASE Request
    BY <1>2, <2>0, <2>1, RequestAsks DEF Inv, Pool!Next
  <2>2. CASE Grant
    BY <2>0, <2>2, HandOverServes DEF Grant, Pool!Next
  <2>3. CASE WakeUp
    BY <2>0, <2>3, HandOverServes DEF WakeUp, Pool!Next
  <2>4. CASE Release
    BY <1>2, <2>0, <2>4, ReleaseGivesBack DEF Pool!Next
  <2>5. CASE ~ (Request \/ Grant \/ WakeUp \/ Release)
    BY <1>2, <2>5 DEF Next, Main, LoopHead, DrawAgain, Refuse, PassOver,
                      ScanDone, sig_handler, vars, input, Pool!vars
  <2> QED BY <2>1, <2>2, <2>3, <2>4, <2>5
<1> QED BY <1>1, <1>2, Invariance, PTL
        DEF Spec, ImplementsResourcePool, Pool!Spec
=============================================================================
