--------------------------- MODULE MutexFileProofs ---------------------------
(***************************************************************************)
(* What 1.txt holds and when the mutex is destroyed, for any number of     *)
(* threads of Midterm2/mutex.c; and how far the handshake of               *)
(* Final/Pthread.c gets.                                                   *)
(***************************************************************************)
EXTENDS MutexFile, PipeHandshake, FiniteSetTheorems, TLAPS

Inside  == {"announce", "open", "print", "close", "unlock"}
Writing == {"open", "print", "close"}
Label   == {"none", "lock", "announce", "open", "print", "close", "unlock",
            "released", "exited"}

(***************************************************************************)
(* Who is between lock and unlock owns the mutex, and nobody else.         *)
(***************************************************************************)
LockInv == \A t \in Thread : thread[t] \in Inside <=> owner = t

(***************************************************************************)
(* What main has done so far: it creates the threads in order and joins    *)
(* them in order.                                                          *)
(***************************************************************************)
MainInv ==
  /\ live = (main # "finished")
  /\ main = "create" => \A t \in Thread : thread[t] = "none" <=> t >= i
  /\ main = "join" => \A t \in Thread : /\ thread[t] # "none"
                                        /\ t < i => thread[t] = "exited"
  /\ main = "finished" => \A t \in Thread : thread[t] = "exited"

(***************************************************************************)
(* The buffer of a thread holds its own texts, in order, and only while it *)
(* prints.                                                                 *)
(***************************************************************************)
BufInv ==
  \A t \in Thread :
    /\ thread[t] \notin {"print", "close"} => buf[t] = <<>>
    /\ thread[t] = "print" => Len(buf[t]) < 3
    /\ thread[t] = "close" => Len(buf[t]) = 3
    /\ \A k \in 1 .. Len(buf[t]) : buf[t][k] = <<t, k>>

(***************************************************************************)
(* A thread that prints has one text more in its buffer.                   *)
(***************************************************************************)
LEMMA WriteAdds ==
  ASSUME FileTypeOK, BufInv, NEW t \in Thread, Write(t)
  PROVE  /\ buf' \in [Thread -> Seq(Text)]
         /\ \A s \in Thread \ {t} : buf'[s] = buf[s]
         /\ Len(buf[t]) \in 0 .. 2 /\ Len(buf'[t]) = Len(buf[t]) + 1
         /\ \A k \in 1 .. Len(buf'[t]) : buf'[t][k] = <<t, k>>
         /\ \A s \in Thread : Len(buf'[s]) <= 3
<1>1. buf \in [Thread -> Seq(Text)] /\ \A s \in Thread : Len(buf[s]) <= 3
  BY DEF FileTypeOK
<1>2. Len(buf[t]) \in 0 .. 2
  <2>1. Len(buf[t]) < 3
    BY DEF Write, BufInv
  <2>2. buf[t] \in Seq(Text)
    BY <1>1
  <2>3. Len(buf[t]) \in Nat
    BY <2>2
  <2>4. \A n \in Nat : n < 3 => n \in 0 .. 2
    OBVIOUS
  <2> QED
    BY <2>1, <2>3, <2>4, Zenon
<1> DEFINE x == <<t, Len(buf[t]) + 1>>
<1>3. x \in Text
  <2> DEFINE n == Len(buf[t])
  <2> HIDE DEF n
  <2>1. n \in 0 .. 2
    BY <1>2 DEF n
  <2>2. n + 1 \in 1 .. 3
    BY <2>1
  <2>3. <<t, n + 1>> \in Thread \X (1 .. 3)
    BY <2>2
  <2> QED
    BY <2>3 DEF Text, n
<1>4. \A k \in 1 .. Len(buf[t]) : buf[t][k] = <<t, k>>
  BY DEF BufInv
<1>5. x = <<t, Len(buf[t]) + 1>>
  OBVIOUS
<1>6. buf' = [buf EXCEPT ![t] = Append(buf[t], x)]
  BY DEF Write
<1> HIDE DEF x
<1>7. buf'[t] = Append(buf[t], x)
  BY <1>1, <1>6
<1>8. Len(buf'[t]) = Len(buf[t]) + 1
  BY <1>1, <1>3, <1>7
<1>9. \A k \in 1 .. Len(buf'[t]) : buf'[t][k] = <<t, k>>
  <2> SUFFICES ASSUME NEW k \in 1 .. Len(buf[t]) + 1 PROVE buf'[t][k] = <<t, k>>
    BY <1>8
  <2>1. CASE k = Len(buf[t]) + 1
    <3>1. buf'[t][k] = x
      BY <1>1, <1>3, <1>7, <2>1
    <3> QED
      BY <1>5, <2>1, <3>1
  <2>2. CASE k \in 1 .. Len(buf[t])
    <3>1. buf'[t][k] = buf[t][k]
      BY <1>1, <1>3, <1>7, <2>2
    <3> QED
      BY <1>4, <2>2, <3>1
  <2> QED
    BY <1>2, <2>1, <2>2
<1>10. buf' \in [Thread -> Seq(Text)]
  BY <1>1, <1>3, <1>6
<1>11. \A s \in Thread \ {t} : buf'[s] = buf[s]
  BY <1>1, <1>6
<1>12. ASSUME NEW s \in Thread PROVE Len(buf'[s]) <= 3
  <2>1. CASE s = t
    <3>1. \A n \in 0 .. 2 : n + 1 <= 3
      OBVIOUS
    <3> QED
      BY <1>2, <1>8, <2>1, <3>1, Zenon
  <2>2. CASE s # t
    BY <1>1, <1>11, <2>2
  <2> QED
    BY <2>1, <2>2
<1> QED
  BY <1>2, <1>8, <1>9, <1>10, <1>11, <1>12

(***************************************************************************)
(* Every step keeps the types.                                             *)
(***************************************************************************)
LEMMA TypeStep == FileTypeOK /\ BufInv /\ [FileNext]_fileVars => FileTypeOK'
<1> SUFFICES ASSUME FileTypeOK, BufInv, [FileNext]_fileVars PROVE FileTypeOK'
  OBVIOUS
<1> USE ThreadAssumption DEF FileTypeOK, Thread, Nobody, ThreadTo, Running
<1>1. CASE Create
  BY <1>1 DEF Create
<1>2. CASE AllCreated
  BY <1>2 DEF AllCreated
<1>3. CASE Join
  BY <1>3 DEF Join
<1>4. CASE Destroy
  BY <1>4 DEF Destroy
<1>5. ASSUME NEW t \in Thread, MutexLock(t) PROVE FileTypeOK'
  BY <1>5 DEF MutexLock
<1>6. ASSUME NEW t \in Thread, Announce(t) PROVE FileTypeOK'
  BY <1>6 DEF Announce
<1>7. ASSUME NEW t \in Thread, Open(t) PROVE FileTypeOK'
  BY <1>7 DEF Open
<1>8. ASSUME NEW t \in Thread, OpenFails(t) PROVE FileTypeOK'
  BY <1>8 DEF OpenFails
<1>9. ASSUME NEW t \in Thread, Write(t) PROVE FileTypeOK'
  <2>1. /\ thread' = [thread EXCEPT ![t] = IF Len(buf[t]) = 2 THEN "close" ELSE "print"]
        /\ UNCHANGED <<main, i, owner, live, file, failed, output>>
    BY <1>9 DEF Write
  <2>2. buf' \in [Thread -> Seq(Text)]
    BY <1>9, WriteAdds
  <2>3. \A s \in Thread : Len(buf'[s]) <= 3
    BY <1>9, WriteAdds
  <2> QED
    BY <2>1, <2>2, <2>3
<1>10. ASSUME NEW t \in Thread, Close(t) PROVE FileTypeOK'
  BY <1>10 DEF Close
<1>11. ASSUME NEW t \in Thread, MutexUnlock(t) PROVE FileTypeOK'
  BY <1>11 DEF MutexUnlock
<1>12. ASSUME NEW t \in Thread, Exit(t) PROVE FileTypeOK'
  BY <1>12 DEF Exit
<1>14. ASSUME NEW t \in Thread, CloseFails(t) PROVE FileTypeOK'
  <2>1. PICK k \in 0 .. Len(buf[t]) : file' = file \o SubSeq(buf[t], 1, k)
    BY <1>14 DEF CloseFails
  <2>2. SubSeq(buf[t], 1, k) \in Seq(Text)
    OBVIOUS
  <2>3. file' \in Seq(Text)
    BY <2>1, <2>2
  <2> QED
    BY <1>14, <2>3 DEF CloseFails
<1>13. CASE UNCHANGED fileVars
  BY <1>13 DEF fileVars
<1> QED
  BY <1>1, <1>2, <1>3, <1>4, <1>5, <1>6, <1>7, <1>8, <1>9,
     <1>10, <1>11, <1>12, <1>13, <1>14 DEF FileNext, MainStep, runner

(***************************************************************************)
(* Every step keeps the mutex with its owner.                              *)
(***************************************************************************)
LEMMA LockStep == FileTypeOK /\ MainInv /\ LockInv /\ [FileNext]_fileVars => LockInv'
<1> SUFFICES ASSUME FileTypeOK, MainInv, LockInv, [FileNext]_fileVars PROVE LockInv'
  OBVIOUS
<1>a. thread \in [Thread -> Label] /\ i \in 0 .. N /\ Nobody \notin Thread
  BY ThreadAssumption DEF FileTypeOK, Thread, Nobody, Label
<1> USE <1>a DEF LockInv, Inside, ThreadTo
<1>1. CASE Create
  <2>1. thread' = [thread EXCEPT ![i] = "lock"] /\ owner' = owner
    BY <1>1 DEF Create
  <2>2. i \in Thread /\ thread[i] = "none"
    BY <1>1, ThreadAssumption DEF Create, MainInv, Thread
  <2> QED
    BY <2>1, <2>2
<1>2. CASE AllCreated
  BY <1>2 DEF AllCreated
<1>3. CASE Join
  BY <1>3 DEF Join
<1>4. CASE Destroy
  BY <1>4 DEF Destroy
<1>5. ASSUME NEW t \in Thread, MutexLock(t) PROVE LockInv'
  BY <1>5 DEF MutexLock
<1>6. ASSUME NEW t \in Thread, Announce(t) PROVE LockInv'
  BY <1>6 DEF Announce
<1>7. ASSUME NEW t \in Thread, Open(t) PROVE LockInv'
  BY <1>7 DEF Open
<1>8. ASSUME NEW t \in Thread, OpenFails(t) PROVE LockInv'
  BY <1>8 DEF OpenFails
<1>9. ASSUME NEW t \in Thread, Write(t) PROVE LockInv'
  BY <1>9 DEF Write
<1>10. ASSUME NEW t \in Thread, Close(t) PROVE LockInv'
  BY <1>10 DEF Close
<1>11. ASSUME NEW t \in Thread, MutexUnlock(t) PROVE LockInv'
  BY <1>11 DEF MutexUnlock
<1>12. ASSUME NEW t \in Thread, Exit(t) PROVE LockInv'
  BY <1>12 DEF Exit
<1>14. ASSUME NEW t \in Thread, CloseFails(t) PROVE LockInv'
  BY <1>14 DEF CloseFails
<1>13. CASE UNCHANGED fileVars
  BY <1>13 DEF fileVars
<1> QED
  BY <1>1, <1>2, <1>3, <1>4, <1>5, <1>6, <1>7, <1>8, <1>9,
     <1>10, <1>11, <1>12, <1>13, <1>14 DEF FileNext, MainStep, runner

(***************************************************************************)
(* Every step keeps main with its threads.                                 *)
(***************************************************************************)
LEMMA MainStepKeeps == FileTypeOK /\ MainInv /\ [FileNext]_fileVars => MainInv'
<1> SUFFICES ASSUME FileTypeOK, MainInv, [FileNext]_fileVars PROVE MainInv'
  OBVIOUS
<1>a. /\ thread \in [Thread -> Label] /\ i \in 0 .. N
      /\ main \in {"create", "join", "finished", "crashed"}
  BY DEF FileTypeOK, Label
<1> USE <1>a, ThreadAssumption DEF MainInv, ThreadTo, Running, Thread
<1>1. CASE Create
  BY <1>1 DEF Create
<1>2. CASE AllCreated
  BY <1>2 DEF AllCreated
<1>3. CASE Join
  BY <1>3 DEF Join
<1>4. CASE Destroy
  <2>1. i = N /\ main' = "finished" /\ live' = FALSE /\ thread' = thread
    BY <1>4 DEF Destroy
  <2>2. \A t \in Thread : thread[t] = "exited"
    <3>1. main = "join"
      BY <1>4 DEF Destroy
    <3> QED
      BY <2>1, <3>1
  <2> QED
    BY <2>1, <2>2
<1>5. ASSUME NEW t \in Thread, MutexLock(t) PROVE MainInv'
  BY <1>5 DEF MutexLock
<1>6. ASSUME NEW t \in Thread, Announce(t) PROVE MainInv'
  BY <1>6 DEF Announce
<1>7. ASSUME NEW t \in Thread, Open(t) PROVE MainInv'
  BY <1>7 DEF Open
<1>8. ASSUME NEW t \in Thread, OpenFails(t) PROVE MainInv'
  BY <1>8 DEF OpenFails
<1>9. ASSUME NEW t \in Thread, Write(t) PROVE MainInv'
  BY <1>9 DEF Write
<1>10. ASSUME NEW t \in Thread, Close(t) PROVE MainInv'
  BY <1>10 DEF Close
<1>11. ASSUME NEW t \in Thread, MutexUnlock(t) PROVE MainInv'
  BY <1>11 DEF MutexUnlock
<1>12. ASSUME NEW t \in Thread, Exit(t) PROVE MainInv'
  BY <1>12 DEF Exit
<1>14. ASSUME NEW t \in Thread, CloseFails(t) PROVE MainInv'
  BY <1>14 DEF CloseFails
<1>13. CASE UNCHANGED fileVars
  BY <1>13 DEF fileVars
<1> QED
  BY <1>1, <1>2, <1>3, <1>4, <1>5, <1>6, <1>7, <1>8, <1>9,
     <1>10, <1>11, <1>12, <1>13, <1>14 DEF FileNext, MainStep, runner

(***************************************************************************)
(* Every step keeps the buffers.                                           *)
(***************************************************************************)
LEMMA BufStep == FileTypeOK /\ MainInv /\ BufInv /\ [FileNext]_fileVars => BufInv'
<1> SUFFICES ASSUME FileTypeOK, MainInv, BufInv, [FileNext]_fileVars PROVE BufInv'
  OBVIOUS
<1>a. /\ thread \in [Thread -> Label] /\ i \in 0 .. N
      /\ buf \in [Thread -> Seq(Text)]
  BY DEF FileTypeOK, Label
<1> USE <1>a DEF BufInv, ThreadTo
<1>1. CASE Create
  <2>1. thread' = [thread EXCEPT ![i] = "lock"] /\ buf' = buf
    BY <1>1 DEF Create
  <2>2. i \in Thread /\ thread[i] = "none"
    BY <1>1, ThreadAssumption DEF Create, MainInv, Thread
  <2> QED
    BY <2>1, <2>2
<1>2. CASE AllCreated
  BY <1>2 DEF AllCreated
<1>3. CASE Join
  BY <1>3 DEF Join
<1>4. CASE Destroy
  BY <1>4 DEF Destroy
<1>5. ASSUME NEW t \in Thread, MutexLock(t) PROVE BufInv'
  BY <1>5 DEF MutexLock
<1>6. ASSUME NEW t \in Thread, Announce(t) PROVE BufInv'
  BY <1>6 DEF Announce
<1>7. ASSUME NEW t \in Thread, Open(t) PROVE BufInv'
  BY <1>7 DEF Open
<1>8. ASSUME NEW t \in Thread, OpenFails(t) PROVE BufInv'
  BY <1>8 DEF OpenFails
<1>9. ASSUME NEW t \in Thread, Write(t) PROVE BufInv'
  <2>1. thread' = [thread EXCEPT ![t] = IF Len(buf[t]) = 2 THEN "close" ELSE "print"]
    BY <1>9 DEF Write
  <2>2. Len(buf'[t]) = Len(buf[t]) + 1 /\ Len(buf[t]) \in 0 .. 2
    BY <1>9, WriteAdds
  <2>3. \A k \in 1 .. Len(buf'[t]) : buf'[t][k] = <<t, k>>
    BY <1>9, WriteAdds
  <2>4. \A s \in Thread \ {t} : buf'[s] = buf[s] /\ thread'[s] = thread[s]
    BY <1>9, <2>1, WriteAdds
  <2>5. \/ thread'[t] = "close" /\ Len(buf'[t]) = 3
        \/ thread'[t] = "print" /\ Len(buf'[t]) < 3
    <3>1. CASE Len(buf[t]) = 2
      BY <2>1, <2>2, <3>1
    <3>2. CASE Len(buf[t]) # 2
      <4>1. Len(buf'[t]) < 3
        BY <2>2, <3>2
      <4> QED
        BY <2>1, <3>2, <4>1
    <3> QED
      BY <3>1, <3>2
  <2> QED
    BY <2>3, <2>4, <2>5
<1>10. ASSUME NEW t \in Thread, Close(t) PROVE BufInv'
  BY <1>10 DEF Close
<1>11. ASSUME NEW t \in Thread, MutexUnlock(t) PROVE BufInv'
  BY <1>11 DEF MutexUnlock
<1>12. ASSUME NEW t \in Thread, Exit(t) PROVE BufInv'
  BY <1>12 DEF Exit
<1>14. ASSUME NEW t \in Thread, CloseFails(t) PROVE BufInv'
  BY <1>14 DEF CloseFails
<1>13. CASE UNCHANGED fileVars
  BY <1>13 DEF fileVars
<1> QED
  BY <1>1, <1>2, <1>3, <1>4, <1>5, <1>6, <1>7, <1>8, <1>9,
     <1>10, <1>11, <1>12, <1>13, <1>14 DEF FileNext, MainStep, runner

Announced == {t \in Thread : thread[t] \in Label \ {"none", "lock", "announce"}}
Busy      == \E t \in Thread : thread[t] \in Writing
Complete  == IF Busy THEN Len(output) - 1 ELSE Len(output)

(***************************************************************************)
(* Each thread that has come so far has announced itself once, and the     *)
(* last one to do so is the one that writes.                               *)
(***************************************************************************)
OutInv ==
  /\ Len(output) = Cardinality(Announced)
  /\ \A t \in Thread : thread[t] \in Writing => Len(output) > 0 /\ output[Len(output)] = t

(***************************************************************************)
(* Unless a write has failed, three texts for each line of the output, but *)
(* for the thread that still writes.                                       *)
(***************************************************************************)
FileInv ==
  ~ failed =>
    /\ Len(file) = 3 * Complete
    /\ \A n \in 1 .. Complete : \A k \in 1 .. 3 : file[3 * (n - 1) + k] = <<output[n], k>>

(***************************************************************************)
(* Also when a write has failed, the texts of a thread are together and    *)
(* begin with its first, and the threads come in the order of the output.  *)
(***************************************************************************)
Together(f) ==
  \A m \in 1 .. Len(f) : f[m][2] > 1 => m > 1 /\ f[m - 1] = <<f[m][1], f[m][2] - 1>>

Later(o, r, s) == \E x, y \in 1 .. Len(o) : x < y /\ o[x] = r /\ o[y] = s

Ordered(f, o) ==
  \A m \in 1 .. Len(f) : \A k \in 1 .. Len(f) :
    m < k => f[m][1] = f[k][1] \/ Later(o, f[m][1], f[k][1])

OrderInv ==
  /\ Together(file)
  /\ Ordered(file, output)
  /\ \A m \in 1 .. Len(file) : \E x \in 1 .. Complete : output[x] = file[m][1]

(***************************************************************************)
(* What a step does to the output, the file and the sets of threads these  *)
(* are about, if it neither announces nor closes.                          *)
(***************************************************************************)
Rest == /\ UNCHANGED <<output, file, failed>>
        /\ \A t \in Thread :
             /\ thread'[t] \in Writing <=> thread[t] \in Writing
             /\ thread'[t] \in Label \ {"none", "lock", "announce"}
                  <=> thread[t] \in Label \ {"none", "lock", "announce"}

(***************************************************************************)
(* Only announcing and closing change what FileInv and OutInv are about.   *)
(***************************************************************************)
LEMMA RestStep ==
  ASSUME FileTypeOK, MainInv, [FileNext]_fileVars,
         \A t \in Thread : ~ Announce(t) /\ ~ Close(t) /\ ~ CloseFails(t)
  PROVE  Rest
<1>a. thread \in [Thread -> Label]
  BY DEF FileTypeOK, Label
<1> USE <1>a DEF Rest, Writing, ThreadTo, Label
<1>1. CASE Create
  <2>1. i \in Thread /\ thread[i] = "none"
    BY <1>1, ThreadAssumption DEF Create, MainInv, Thread, FileTypeOK
  <2> QED
    BY <1>1, <2>1 DEF Create
<1>2. CASE AllCreated \/ Join \/ Destroy
  BY <1>2 DEF AllCreated, Join, Destroy
<1>3. ASSUME NEW t \in Thread, MutexLock(t) PROVE Rest
  BY <1>3 DEF MutexLock
<1>4. ASSUME NEW t \in Thread, Open(t) PROVE Rest
  BY <1>4 DEF Open
<1>5. ASSUME NEW t \in Thread, OpenFails(t) PROVE Rest
  BY <1>5 DEF OpenFails
<1>6. ASSUME NEW t \in Thread, Write(t) PROVE Rest
  BY <1>6 DEF Write
<1>7. ASSUME NEW t \in Thread, MutexUnlock(t) PROVE Rest
  BY <1>7 DEF MutexUnlock
<1>8. ASSUME NEW t \in Thread, Exit(t) PROVE Rest
  BY <1>8 DEF Exit
<1>9. CASE UNCHANGED fileVars
  BY <1>9 DEF fileVars
<1> QED
  BY <1>1, <1>2, <1>3, <1>4, <1>5, <1>6, <1>7, <1>8, <1>9
  DEF FileNext, MainStep, runner

(***************************************************************************)
(* Every step keeps the output.                                            *)
(***************************************************************************)
LEMMA OutStep ==
  FileTypeOK /\ MainInv /\ LockInv /\ OutInv /\ [FileNext]_fileVars => OutInv'
<1> SUFFICES ASSUME FileTypeOK, MainInv, LockInv, OutInv, [FileNext]_fileVars PROVE OutInv'
  OBVIOUS
<1>a. thread \in [Thread -> Label] /\ output \in Seq(Thread)
  BY DEF FileTypeOK, Label
<1>1. ASSUME NEW t \in Thread, Announce(t) PROVE OutInv'
  <2>1. /\ output' = Append(output, t) /\ thread[t] = "announce"
        /\ thread' = [thread EXCEPT ![t] = "open"]
    BY <1>1 DEF Announce, ThreadTo
  <2>2. Len(output') = Len(output) + 1 /\ output'[Len(output')] = t /\ Len(output) \in Nat
    BY <1>a, <2>1
  <2>3. Announced' = Announced \cup {t} /\ t \notin Announced
    BY <1>a, <2>1 DEF Announced, Label
  <2>4. IsFiniteSet(Announced)
    <3>1. IsFiniteSet(Thread)
      BY FS_Interval, ThreadAssumption DEF Thread
    <3> QED
      BY <3>1, FS_Subset DEF Announced
  <2>5. Cardinality(Announced') = Cardinality(Announced) + 1
    BY <2>3, <2>4, FS_AddElement
  <2>6. ASSUME NEW s \in Thread, thread'[s] \in Writing PROVE s = t
    <3> SUFFICES ASSUME s # t PROVE FALSE
      OBVIOUS
    <3>1. thread[s] \in Inside /\ thread[t] \in Inside
      BY <1>a, <2>1, <2>6 DEF Writing, Inside
    <3> QED
      BY <3>1 DEF LockInv
  <2> QED
    BY <2>2, <2>5, <2>6 DEF OutInv
<1>2. ASSUME NEW t \in Thread, Close(t) PROVE OutInv'
  <2>1. /\ output' = output /\ thread[t] = "close"
        /\ thread' = [thread EXCEPT ![t] = "unlock"]
    BY <1>2 DEF Close, ThreadTo
  <2>2. Announced' = Announced
    BY <1>a, <2>1 DEF Announced, Label
  <2>3. \A s \in Thread : thread'[s] \in Writing => thread[s] \in Writing
    BY <1>a, <2>1 DEF Writing
  <2> QED
    BY <2>1, <2>2, <2>3 DEF OutInv
<1>4. ASSUME NEW t \in Thread, CloseFails(t) PROVE OutInv'
  <2>1. /\ output' = output /\ thread[t] = "close"
        /\ thread' = [thread EXCEPT ![t] = "unlock"]
    BY <1>4 DEF CloseFails, ThreadTo
  <2>2. Announced' = Announced
    BY <1>a, <2>1 DEF Announced, Label
  <2>3. \A s \in Thread : thread'[s] \in Writing => thread[s] \in Writing
    BY <1>a, <2>1 DEF Writing
  <2> QED
    BY <2>1, <2>2, <2>3 DEF OutInv
<1>3. CASE Rest
  <2>1. Announced' = Announced
    BY <1>3 DEF Rest, Announced
  <2> QED
    BY <1>3, <2>1 DEF Rest, OutInv
<1> QED
  BY <1>1, <1>2, <1>3, <1>4, RestStep

(***************************************************************************)
(* Every step keeps the file.                                              *)
(***************************************************************************)
LEMMA FileStep ==
  FileTypeOK /\ MainInv /\ LockInv /\ BufInv /\ OutInv /\ FileInv /\ [FileNext]_fileVars
    => FileInv'
<1> SUFFICES ASSUME FileTypeOK, MainInv, LockInv, BufInv, OutInv, FileInv, [FileNext]_fileVars
             PROVE  FileInv'
  OBVIOUS
<1>a. /\ thread \in [Thread -> Label] /\ output \in Seq(Thread) /\ file \in Seq(Text)
      /\ buf \in [Thread -> Seq(Text)]
  BY DEF FileTypeOK, Label
<1>b. ASSUME NEW s \in Thread, NEW t \in Thread,
             thread[s] \in Inside, thread[t] \in Inside
      PROVE  s = t
  BY <1>b DEF LockInv
<1>1. ASSUME NEW t \in Thread, Announce(t) PROVE FileInv'
  <2>1. /\ output' = Append(output, t) /\ file' = file /\ thread[t] = "announce"
        /\ failed' = failed /\ thread' = [thread EXCEPT ![t] = "open"]
    BY <1>1 DEF Announce, ThreadTo
  <2>2. ~ Busy
    BY <1>b, <2>1 DEF Busy, Writing, Inside
  <2>3. Busy'
    BY <1>a, <2>1 DEF Busy, Writing
  <2>4. Len(output') = Len(output) + 1 /\ Len(output) \in Nat
        /\ \A n \in 1 .. Len(output) : output'[n] = output[n]
    BY <1>a, <2>1
  <2>5. Complete = Len(output) /\ Complete' = Len(output)
    BY <2>2, <2>3, <2>4 DEF Complete
  <2> QED
    BY <2>1, <2>4, <2>5 DEF FileInv
<1>2. ASSUME NEW t \in Thread, Close(t) PROVE FileInv'
  <2> SUFFICES ASSUME ~ failed PROVE FileInv'
    BY <1>2 DEF Close, FileInv
  <2>1. /\ output' = output /\ file' = file \o buf[t] /\ thread[t] = "close"
        /\ thread' = [thread EXCEPT ![t] = "unlock"]
    BY <1>2 DEF Close, ThreadTo
  <2>2. Busy
    BY <2>1 DEF Busy, Writing
  <2>3. ~ Busy'
    BY <1>a, <1>b, <2>1 DEF Busy, Writing, Inside
  <2>4. Len(output) \in Nat /\ Len(output) > 0 /\ output[Len(output)] = t
    BY <1>a, <2>1 DEF OutInv, Writing
  <2> DEFINE c == Len(output) - 1  b == buf[t]
  <2>5. Complete = c /\ Complete' = c + 1 /\ c \in Nat
    BY <2>1, <2>2, <2>3, <2>4 DEF Complete
  <2>6. Len(b) = 3 /\ \A k \in 1 .. 3 : b[k] = <<t, k>>
    BY <2>1 DEF BufInv
  <2>7. file' = file \o b /\ b \in Seq(Text) /\ output[c + 1] = t
    BY <1>a, <2>1, <2>4
  <2>8. Len(file) = 3 * c
        /\ \A n \in 1 .. c : \A k \in 1 .. 3 : file[3 * (n - 1) + k] = <<output[n], k>>
    BY <2>5 DEF FileInv
  <2> HIDE DEF c, b
  <2>9. /\ Len(file \o b) = Len(file) + Len(b)
        /\ \A j \in 1 .. Len(b) : (file \o b)[Len(file) + j] = b[j]
    BY <1>a, <2>7
  <2>10. Len(file') = 3 * (c + 1)
    BY <2>5, <2>6, <2>7, <2>8, <2>9
  <2>11. ASSUME NEW n \in 1 .. c + 1, NEW k \in 1 .. 3
         PROVE  file'[3 * (n - 1) + k] = <<output[n], k>>
    <3>1. CASE n = c + 1
      <4>1. file'[3 * c + k] = b[k]
        BY <2>6, <2>7, <2>8, <2>9
      <4>2. 3 * (n - 1) + k = 3 * c + k
        BY <2>5, <3>1
      <4> QED
        BY <2>6, <2>7, <3>1, <4>1, <4>2
    <3>2. CASE n \in 1 .. c
      <4>1. 3 * (n - 1) + k \in 1 .. Len(file)
        BY <2>5, <2>8, <3>2
      <4>2. file'[3 * (n - 1) + k] = file[3 * (n - 1) + k]
        BY <1>a, <2>7, <4>1
      <4> QED
        BY <2>8, <3>2, <4>2
    <3> QED
      BY <2>5, <3>1, <3>2
  <2> QED
    BY <2>1, <2>5, <2>10, <2>11 DEF FileInv
<1>4. ASSUME NEW t \in Thread, CloseFails(t) PROVE FileInv'
  BY <1>4 DEF CloseFails, FileInv
<1>3. CASE Rest
  <2>1. Complete' = Complete
    BY <1>3 DEF Rest, Complete, Busy
  <2> QED
    BY <1>3, <2>1 DEF Rest, FileInv
<1> QED
  BY <1>1, <1>2, <1>3, <1>4, RestStep

(***************************************************************************)
(* Texts that fclose appends, all of them or the first few, come together, *)
(* and after those of the threads that announced themselves before.        *)
(***************************************************************************)
LEMMA AppendKeepsOrder ==
  ASSUME FileTypeOK, LockInv, OutInv, OrderInv,
         NEW t \in Thread, thread[t] = "close", ThreadTo(t, "unlock"),
         NEW g \in Seq(Text), \A j \in 1 .. Len(g) : g[j] = <<t, j>>,
         file' = file \o g, output' = output
  PROVE  OrderInv'
<1>a. thread \in [Thread -> Label] /\ output \in Seq(Thread) /\ file \in Seq(Text)
  BY DEF FileTypeOK, Label
<1>b. \A s \in Thread : thread[s] \in Inside => s = t
  BY DEF LockInv, Inside
<1> DEFINE c == Len(output) - 1  n == Len(file)
<1>1. c \in Nat /\ n \in Nat /\ output[c + 1] = t /\ Len(output) = c + 1
  <2>1. Len(output) \in Nat /\ n \in Nat
    BY <1>a
  <2>2. Len(output) > 0 /\ output[Len(output)] = t
    BY DEF OutInv, Writing
  <2> QED
    BY <2>1, <2>2
<1>2. Complete = c /\ Complete' = c + 1
  <2>1. Busy
    BY DEF Busy, Writing
  <2>2. ~ Busy'
    BY <1>a, <1>b DEF Busy, Writing, Inside, ThreadTo
  <2> QED
    BY <1>1, <2>1, <2>2 DEF Complete
<1>3. /\ Len(file') = n + Len(g) /\ Len(g) \in Nat
      /\ \A m \in 1 .. n : file'[m] = file[m]
      /\ \A m \in n + 1 .. n + Len(g) : file'[m] = <<t, m - n>>
  BY <1>a
<1>4. /\ Together(file) /\ Ordered(file, output)
      /\ \A m \in 1 .. n : \E x \in 1 .. c : output[x] = file[m][1]
  BY <1>2 DEF OrderInv
<1>5. \A m \in 1 .. Len(file') : m \in 1 .. n \/ m \in n + 1 .. n + Len(g)
  BY <1>1, <1>3
<1> HIDE DEF c, n
<1>6. Together(file')
  <2> SUFFICES ASSUME NEW m \in 1 .. Len(file'), file'[m][2] > 1
               PROVE  m > 1 /\ file'[m - 1] = <<file'[m][1], file'[m][2] - 1>>
    BY DEF Together
  <2>1. CASE m \in 1 .. n
    <3>1. m > 1 /\ file[m - 1] = <<file[m][1], file[m][2] - 1>>
      BY <1>3, <1>4, <2>1 DEF Together, n
    <3>2. m - 1 \in 1 .. n
      BY <1>1, <2>1, <3>1
    <3> QED
      BY <1>3, <2>1, <3>1, <3>2
  <2>2. CASE m \in n + 1 .. n + Len(g)
    <3>1. file'[m] = <<t, m - n>>
      BY <1>3, <2>2
    <3>2. m - n > 1
      BY <3>1
    <3>3. m > 1 /\ m - 1 \in n + 1 .. n + Len(g) /\ m - 1 - n = m - n - 1
      BY <1>1, <1>3, <2>2, <3>2
    <3>4. file'[m - 1] = <<t, m - n - 1>>
      BY <1>3, <3>3
    <3> QED
      BY <3>1, <3>3, <3>4
  <2> QED
    BY <1>5, <2>1, <2>2
<1>7. \A m \in 1 .. Len(file') : \E x \in 1 .. c + 1 : output[x] = file'[m][1]
  <2> SUFFICES ASSUME NEW m \in 1 .. Len(file')
               PROVE  \E x \in 1 .. c + 1 : output[x] = file'[m][1]
    OBVIOUS
  <2>1. CASE m \in 1 .. n
    BY <1>1, <1>3, <1>4, <2>1
  <2>2. CASE m \in n + 1 .. n + Len(g)
    <3>0. file'[m] = <<t, m - n>>
      BY <1>3, <2>2
    <3>1. file'[m][1] = t /\ c + 1 \in 1 .. c + 1
      BY <1>1, <3>0
    <3> QED
      BY <1>1, <3>1
  <2> QED
    BY <1>5, <2>1, <2>2
<1>8. ASSUME NEW m \in 1 .. Len(file'), NEW k \in 1 .. Len(file'), m < k
      PROVE  file'[m][1] = file'[k][1] \/ Later(output', file'[m][1], file'[k][1])
  <2>1. CASE m \in 1 .. n /\ k \in 1 .. n
    <3>1. file'[m] = file[m] /\ file'[k] = file[k]
      BY <1>3, <2>1
    <3>2. file[m][1] = file[k][1] \/ Later(output, file[m][1], file[k][1])
      BY <1>4, <1>8, <2>1 DEF Ordered, n
    <3> QED
      BY <3>1, <3>2
  <2>2. CASE m \in 1 .. n /\ k \in n + 1 .. n + Len(g)
    <3>1. PICK x \in 1 .. c : output[x] = file'[m][1]
      BY <1>3, <1>4, <2>2
    <3>2. x \in 1 .. Len(output') /\ c + 1 \in 1 .. Len(output') /\ x < c + 1
      BY <1>a, <1>1
    <3>3. output'[c + 1] = file'[k][1]
      <4>1. file'[k] = <<t, k - n>>
        BY <1>3, <2>2
      <4>2. file'[k][1] = t
        BY <4>1
      <4>3. output'[c + 1] = t
        BY <1>1
      <4> QED
        BY <4>2, <4>3
    <3> QED
      BY <3>1, <3>2, <3>3 DEF Later
  <2>3. CASE m \in n + 1 .. n + Len(g) /\ k \in n + 1 .. n + Len(g)
    <3>1. file'[m] = <<t, m - n>> /\ file'[k] = <<t, k - n>>
      BY <1>3, <2>3
    <3> QED
      BY <3>1
  <2> QED
    BY <1>1, <1>3, <1>5, <1>8, <2>1, <2>2, <2>3
<1>9. Ordered(file', output')
  BY <1>8 DEF Ordered
<1> QED
  BY <1>2, <1>6, <1>7, <1>9 DEF OrderInv

(***************************************************************************)
(* Every step keeps the order of the file.                                 *)
(***************************************************************************)
LEMMA OrderStep ==
  FileTypeOK /\ MainInv /\ LockInv /\ BufInv /\ OutInv /\ OrderInv /\ [FileNext]_fileVars
    => OrderInv'
<1> SUFFICES ASSUME FileTypeOK, MainInv, LockInv, BufInv, OutInv, OrderInv,
                    [FileNext]_fileVars
             PROVE  OrderInv'
  OBVIOUS
<1>a. /\ thread \in [Thread -> Label] /\ output \in Seq(Thread) /\ file \in Seq(Text)
      /\ buf \in [Thread -> Seq(Text)]
  BY DEF FileTypeOK, Label
<1>1. ASSUME NEW t \in Thread, Announce(t) PROVE OrderInv'
  <2>1. /\ output' = Append(output, t) /\ file' = file /\ thread[t] = "announce"
        /\ thread' = [thread EXCEPT ![t] = "open"]
    BY <1>1 DEF Announce, ThreadTo
  <2>2. ~ Busy
    BY <2>1 DEF LockInv, Busy, Writing, Inside
  <2>3. Busy'
    BY <1>a, <2>1 DEF Busy, Writing
  <2>4. Len(output') = Len(output) + 1 /\ Len(output) \in Nat
        /\ \A n \in 1 .. Len(output) : output'[n] = output[n]
    BY <1>a, <2>1
  <2>5. Complete = Len(output) /\ Complete' = Len(output)
    BY <2>2, <2>3, <2>4 DEF Complete
  <2>6. \A r, q : Later(output, r, q) => Later(output', r, q)
    <3> SUFFICES ASSUME NEW r, NEW q, Later(output, r, q) PROVE Later(output', r, q)
      OBVIOUS
    <3>1. PICK x \in 1 .. Len(output), y \in 1 .. Len(output) :
            x < y /\ output[x] = r /\ output[y] = q
      BY DEF Later
    <3>2. x \in 1 .. Len(output') /\ y \in 1 .. Len(output')
      BY <2>4
    <3> QED
      BY <2>4, <3>1, <3>2 DEF Later
  <2>8. Ordered(file, output')
    BY <2>6 DEF OrderInv, Ordered
  <2>9. \A m \in 1 .. Len(file) : \E x \in 1 .. Complete' : output'[x] = file[m][1]
    BY <2>4, <2>5 DEF OrderInv
  <2>10. Together(file)
    BY DEF OrderInv
  <2> QED
    BY <2>1, <2>8, <2>9, <2>10 DEF OrderInv
<1>2. ASSUME NEW t \in Thread, Close(t) PROVE OrderInv'
  <2>1. /\ thread[t] = "close" /\ ThreadTo(t, "unlock")
        /\ file' = file \o buf[t] /\ output' = output
    BY <1>2 DEF Close
  <2>2. buf[t] \in Seq(Text) /\ \A j \in 1 .. Len(buf[t]) : buf[t][j] = <<t, j>>
    BY <1>a DEF BufInv
  <2> QED
    BY <2>1, <2>2, AppendKeepsOrder
<1>3. ASSUME NEW t \in Thread, CloseFails(t) PROVE OrderInv'
  <2>1. /\ thread[t] = "close" /\ ThreadTo(t, "unlock") /\ output' = output
    BY <1>3 DEF CloseFails
  <2>2. PICK k \in 0 .. Len(buf[t]) : file' = file \o SubSeq(buf[t], 1, k)
    BY <1>3 DEF CloseFails
  <2>3. buf[t] \in Seq(Text) /\ \A j \in 1 .. Len(buf[t]) : buf[t][j] = <<t, j>>
    BY <1>a DEF BufInv
  <2> DEFINE g == SubSeq(buf[t], 1, k)
  <2>4. g \in Seq(Text) /\ Len(g) = k /\ \A j \in 1 .. k : g[j] = buf[t][j]
    BY <2>3
  <2>5. \A j \in 1 .. Len(g) : g[j] = <<t, j>>
    BY <2>3, <2>4
  <2> HIDE DEF g
  <2> QED
    BY <2>1, <2>2, <2>4, <2>5, AppendKeepsOrder DEF g
<1>4. CASE Rest
  <2>1. Complete' = Complete /\ output' = output /\ file' = file
    BY <1>4 DEF Rest, Complete, Busy
  <2> QED
    BY <2>1 DEF OrderInv
<1> QED
  BY <1>1, <1>2, <1>3, <1>4, RestStep

IInv == FileTypeOK /\ MainInv /\ LockInv /\ BufInv /\ OutInv /\ FileInv /\ OrderInv

(***************************************************************************)
(* It all holds in every state.                                            *)
(***************************************************************************)
LEMMA Inductive == FileSpec => []IInv
<1>1. FileInit => IInv
  <2> SUFFICES ASSUME FileInit PROVE IInv
    OBVIOUS
  <2>1. file = <<>> /\ output = <<>> /\ failed = FALSE /\ file \in Seq(Text) /\ output \in Seq(Thread)
        /\ buf \in [Thread -> Seq(Text)] /\ \A t \in Thread : Len(buf[t]) = 0
    BY DEF FileInit
  <2>2. FileTypeOK
    <3>1. failed \in BOOLEAN /\ live \in BOOLEAN
      BY DEF FileInit
    <3>2. i \in 0 .. N
      BY ThreadAssumption DEF FileInit
    <3>3. \A t \in Thread : Len(buf[t]) <= 3
      BY <2>1
    <3>4. /\ main \in {"create", "join", "finished", "crashed"}
          /\ thread \in [Thread -> {"none", "lock", "announce", "open", "print",
                                    "close", "unlock", "released", "exited"}]
          /\ owner \in Thread \cup {Nobody}
      BY DEF FileInit
    <3> QED
      BY <2>1, <3>1, <3>2, <3>3, <3>4 DEF FileTypeOK
  <2>3. MainInv
    <3>1. main = "create" /\ live = TRUE /\ i = 0 /\ \A t \in Thread : thread[t] = "none"
      BY DEF FileInit
    <3>2. \A t \in Thread : t >= 0
      BY ThreadAssumption DEF Thread
    <3> QED
      BY <3>1, <3>2 DEF MainInv
  <2>4. LockInv
    BY ThreadAssumption DEF FileInit, LockInv, Thread, Inside, Nobody
  <2>5. BufInv
    BY <2>1 DEF FileInit, BufInv
  <2>6. Len(output) = 0 /\ Len(file) = 0
    BY <2>1
  <2>7. \A t \in Thread : thread[t] \notin Writing
    BY DEF FileInit, Writing
  <2>8. OutInv
    <3>1. Announced = {}
      BY DEF FileInit, Announced
    <3> QED
      BY <2>6, <2>7, <3>1, FS_EmptySet DEF OutInv
  <2>9. FileInv
    <3>1. Complete = 0
      BY <2>6, <2>7 DEF Complete, Busy
    <3> QED
      BY <2>6, <3>1 DEF FileInv
  <2>10. OrderInv
    BY <2>6 DEF OrderInv, Together, Ordered
  <2> QED
    BY <2>2, <2>3, <2>4, <2>5, <2>8, <2>9, <2>10 DEF IInv
<1>2. IInv /\ [FileNext]_fileVars => IInv'
  BY TypeStep, MainStepKeeps, LockStep, BufStep, OutStep, FileStep, OrderStep DEF IInv
<1> QED
  BY <1>1, <1>2, PTL DEF FileSpec

(***************************************************************************)
(* Place 3 (n - 1) + k of the file is the place of text k of thread n.     *)
(***************************************************************************)
LEMMA Threes == \A m \in Nat \ {0} :
  LET n == ((m - 1) \div 3) + 1  k == ((m - 1) % 3) + 1
  IN  n \in Nat \ {0} /\ k \in 1 .. 3 /\ m = 3 * (n - 1) + k
  OBVIOUS

(***************************************************************************)
(* Threads of any number keep their texts together in 1.txt, in the order  *)
(* of the announcements, also when the process crashes in between or a     *)
(* write fails; and unless one fails, no text is left out.                 *)
(* (fprintf and fclose, mutex.c:54 and 61)                                 *)
(***************************************************************************)
THEOREM TextsTogether == FileSpec => []FileFollowsOutput
<1>1. IInv => FileFollowsOutput
  <2> SUFFICES ASSUME IInv PROVE FileFollowsOutput
    OBVIOUS
  <2>1. output \in Seq(Thread) /\ file \in Seq(Text) /\ Len(output) \in Nat
    BY DEF IInv, FileTypeOK
  <2>6. /\ \A m \in DOMAIN file :
             file[m][2] > 1 => m > 1 /\ file[m - 1] = <<file[m][1], file[m][2] - 1>>
        /\ \A m, k \in DOMAIN file :
             m < k => file[m][1] = file[k][1] \/ Before(file[m], file[k])
    <3>1. DOMAIN file = 1 .. Len(file) /\ DOMAIN output = 1 .. Len(output)
      BY <2>1
    <3>2. Together(file) /\ Ordered(file, output)
      BY DEF IInv, OrderInv
    <3>3. \A a, b : Later(output, a[1], b[1]) => Before(a, b)
      BY <3>1 DEF Later, Before
    <3> QED
      BY <3>1, <3>2, <3>3 DEF Together, Ordered
  <2> SUFFICES ASSUME ~ failed
               PROVE  /\ Len(file) % 3 = 0
                      /\ Len(file) <= 3 * Len(output)
                      /\ \A m \in DOMAIN file :
                           file[m] = <<output[((m - 1) \div 3) + 1], ((m - 1) % 3) + 1>>
    BY <2>6 DEF FileFollowsOutput
  <2>2. Complete \in Nat /\ Complete <= Len(output)
    BY <2>1 DEF IInv, OutInv, Complete, Busy
  <2>3. Len(file) = 3 * Complete
        /\ \A n \in 1 .. Complete : \A k \in 1 .. 3 : file[3 * (n - 1) + k] = <<output[n], k>>
    BY DEF IInv, FileInv
  <2>4. ASSUME NEW m \in DOMAIN file
        PROVE  file[m] = <<output[((m - 1) \div 3) + 1], ((m - 1) % 3) + 1>>
    <3> DEFINE n == ((m - 1) \div 3) + 1  k == ((m - 1) % 3) + 1
    <3>1. m \in Nat \ {0} /\ m <= 3 * Complete
      BY <2>1, <2>2, <2>3
    <3>2. n \in Nat \ {0} /\ k \in 1 .. 3 /\ m = 3 * (n - 1) + k
      BY <3>1, Threes
    <3> SUFFICES file[m] = <<output[n], k>>
      OBVIOUS
    <3> HIDE DEF n, k
    <3>3. n \in 1 .. Complete
      BY <2>2, <3>1, <3>2
    <3> QED
      BY <2>3, <3>2, <3>3
  <2>5. Len(file) % 3 = 0 /\ Len(file) <= 3 * Len(output)
    BY <2>1, <2>2, <2>3
  <2> QED
    BY <2>4, <2>5
<1> QED
  BY <1>1, Inductive, PTL

(***************************************************************************)
(* The mutex is destroyed when every thread has given it back and written. *)
(* (join, mutex.c:31 and 34)                                               *)
(***************************************************************************)
THEOREM DestroyedLast == FileSpec => []DestroyedWhenUnused
<1>1. IInv => DestroyedWhenUnused
  <2> SUFFICES ASSUME IInv, ~ live PROVE DestroyedWhenUnused
    BY DEF DestroyedWhenUnused
  <2>1. \A t \in Thread : thread[t] = "exited"
    BY DEF IInv, MainInv
  <2>2. owner = Nobody
    BY <2>1 DEF IInv, LockInv, FileTypeOK, Inside
  <2>3. Announced = Thread /\ ~ Busy
    BY <2>1 DEF Announced, Busy, Writing, Label
  <2>4. Cardinality(Thread) = N
    BY FS_Interval, ThreadAssumption DEF Thread
  <2>5. Len(output) = N
    BY <2>3, <2>4 DEF IInv, OutInv
  <2>6. failed \/ Len(file) = 3 * N
    BY <2>3, <2>5 DEF IInv, FileInv, Complete
  <2> QED
    BY <2>1, <2>2, <2>6 DEF DestroyedWhenUnused
<1> QED
  BY <1>1, Inductive, PTL

(***************************************************************************)
(* Every variable keeps its type, whatever is interleaved.                 *)
(* (mutex.c:45)                                                            *)
(***************************************************************************)
THEOREM TypeCorrect == FileSpec => []FileTypeOK
  BY Inductive, PTL DEF IInv
-----------------------------------------------------------------------------
(***************************************************************************)
(* The handshake.  The only byte ever written is the parent's own, into    *)
(* the pipe the parent reads; the child stays at its first read.           *)
(***************************************************************************)
HandshakeInv ==
  /\ pipe = [d \in 1 .. 2 |-> IF d = 2 /\ step["parent"] = "await" /\ said["parent"] = 1
                              THEN <<"parent">> ELSE <<>>]
  /\ step \in [Process -> {"none", "pipe", "fork", "failed", "say", "notify",
                           "await", "incorrect"}]
  /\ step["parent"] # "none"
  /\ step["child"] = (IF step["parent"] \in {"pipe", "fork", "failed"}
                      THEN "none" ELSE "await")
  /\ said = [w \in Process |->
               IF w = "parent" /\ step["parent"] \in {"notify", "await", "incorrect"}
               THEN 1 ELSE 0]

(***************************************************************************)
(* Every step of either process leaves the handshake at one of the places  *)
(* HandshakeInv lists, because notify_child writes where wait_for_child    *)
(* reads.  (Pthread.c:46 and 62)                                           *)
(***************************************************************************)
LEMMA HandshakeStep == HandshakeInv /\ [PipeNext]_pipeVars => HandshakeInv'
<1> SUFFICES ASSUME HandshakeInv, [PipeNext]_pipeVars PROVE HandshakeInv'
  OBVIOUS
<1> DEFINE p == step["parent"]
<1>1. CASE CreatePipes \/ CreationFails
  BY <1>1 DEF CreatePipes, CreationFails, HandshakeInv, Process
<1>2. CASE Fork
  BY <1>2 DEF Fork, HandshakeInv, Process
<1>3. ASSUME NEW w \in Process, Say(w) PROVE HandshakeInv'
  <2>1. w = "parent" /\ p = "say" /\ said["parent"] = 0
    BY <1>3 DEF Say, HandshakeInv, Process
  <2>2. step' = [step EXCEPT !["parent"] = "notify"] /\ pipe' = pipe
    BY <1>3, <2>1 DEF Say
  <2>3. said' = [said EXCEPT !["parent"] = 1]
    BY <1>3, <2>1 DEF Say
  <2> QED
    BY <2>1, <2>2, <2>3 DEF HandshakeInv, Process
<1>4. ASSUME NEW w \in Process, Notify(w) PROVE HandshakeInv'
  <2>1. w = "parent" /\ p = "notify" /\ said["parent"] = 1 /\ pipe[2] = <<>>
    BY <1>4 DEF Notify, HandshakeInv, Process
  <2>2. step' = [step EXCEPT !["parent"] = "await"] /\ said' = said
    BY <1>4, <2>1 DEF Notify
  <2>3. pipe' = [pipe EXCEPT ![2] = <<"parent">>]
    BY <1>4, <2>1 DEF Notify, WritesTo
  <2> QED
    BY <2>1, <2>2, <2>3 DEF HandshakeInv, Process
<1>5. ASSUME NEW w \in Process, Await(w) PROVE HandshakeInv'
  <2>1. w = "parent" /\ p = "await" /\ said["parent"] = 1 /\ pipe[2] = <<"parent">>
    BY <1>5 DEF Await, HandshakeInv, Process, ReadsFrom
  <2>2. Head(pipe[2]) = "parent" /\ Tail(pipe[2]) = <<>>
    BY <2>1
  <2>3. Head(pipe[2]) # Peer(w)
    BY <2>1, <2>2 DEF Peer
  <2>4. step' = [step EXCEPT !["parent"] = "incorrect"] /\ said' = said
    BY <1>5, <2>1, <2>3 DEF Await, ReadsFrom
  <2>5. pipe' = [pipe EXCEPT ![2] = Tail(pipe[2])]
    BY <1>5, <2>1 DEF Await, ReadsFrom
  <2> QED
    BY <2>1, <2>2, <2>4, <2>5 DEF HandshakeInv, Process
<1>6. CASE UNCHANGED pipeVars
  BY <1>6 DEF pipeVars, HandshakeInv
<1> QED
  BY <1>1, <1>2, <1>3, <1>4, <1>5, <1>6 DEF PipeNext, PipeWork

(***************************************************************************)
(* Everything said about the handshake holds throughout.  (Pthread.c:46)   *)
(***************************************************************************)
LEMMA HandshakeInvariance == PipeSpec => []HandshakeInv
<1>1. PipeInit => HandshakeInv
  BY DEF PipeInit, HandshakeInv, Process
<1> QED
  BY <1>1, HandshakeStep, PTL DEF PipeSpec

(***************************************************************************)
(* The two never speak out of turn.  In the code as it is that is all      *)
(* there is to the handshake: the parent says one thing at most, and the   *)
(* child nothing.  (wait_for_child, Pthread.c:62; wait_for_parent, 53)     *)
(***************************************************************************)
THEOREM TurnsKept == PipeSpec => [](InTurns /\ said["child"] = 0)
<1>1. HandshakeInv => InTurns /\ said["child"] = 0
  BY DEF HandshakeInv, InTurns, Process
<1> QED
  BY <1>1, HandshakeInvariance, PTL

(***************************************************************************)
(* A parent that has called its own byte incorrect, or that could not      *)
(* create the pipes or the child, leaves nothing that could still happen:  *)
(* a child that waits then waits for ever.  (Pthread.c:62)                 *)
(***************************************************************************)
THEOREM WaitsForEver ==
  PipeSpec => [][step["parent"] \notin {"incorrect", "failed"}]_pipeVars
<1>1. HandshakeInv /\ [PipeNext]_pipeVars
        => [step["parent"] \notin {"incorrect", "failed"}]_pipeVars
  <2> SUFFICES ASSUME HandshakeInv, PipeNext,
                      step["parent"] \in {"incorrect", "failed"}
               PROVE  FALSE
    BY DEF pipeVars
  <2>1. step["child"] \in {"none", "await"} /\ pipe[1] = <<>>
    BY DEF HandshakeInv
  <2>2. \A w \in Process : ~ Say(w) /\ ~ Notify(w) /\ ~ Await(w)
    BY <2>1 DEF Say, Notify, Await, ReadsFrom, Process
  <2>3. ~ CreatePipes /\ ~ CreationFails /\ ~ Fork
    BY DEF CreatePipes, CreationFails, Fork
  <2> QED
    BY <2>2, <2>3 DEF PipeNext, PipeWork
<1> QED
  BY <1>1, HandshakeInvariance, PTL DEF PipeSpec
=============================================================================
