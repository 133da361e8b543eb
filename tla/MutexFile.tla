----------------------------- MODULE MutexFile -----------------------------
(***************************************************************************)
(* Midterm2/mutex.c: main starts N threads, joins them and destroys the    *)
(* mutex; each thread takes the mutex, announces that, and appends three   *)
(* texts to 1.txt through a buffer of its own, which fclose writes out.    *)
(* A mutex that is initialised and held by another can be locked and given *)
(* back without an error, so the branches for errors are left out; so is   *)
(* sleep.  fopen may fail, and fprintf then crashes the process; the write *)
(* of fclose may fail, which nobody looks at.                              *)
(*                                                                         *)
(* Threads can be created: the code joins them all unasked, and joining    *)
(* one that was not created has no defined result.  output is what has     *)
(* been handed to standard output; a terminal shows it line by line, and a *)
(* file gets it when the process ends, unless that crashes.                *)
(***************************************************************************)
EXTENDS Integers, Sequences

CONSTANT N  \* how many threads, 10 in the code

ASSUME ThreadAssumption == N \in Nat \ {0}

Thread == 0 .. N - 1
Nobody == -1

VARIABLES
  main,    \* "create", "join", "finished" or "crashed"
  i,       \* its loop variable
  thread,  \* where each thread is
  owner,   \* who holds the mutex, or Nobody
  live,    \* is the mutex initialised
  buf,     \* the texts in the buffer of each thread's stream
  file,    \* 1.txt, as <<thread, text>>
  failed,  \* has a write to it failed (history)
  output   \* standard output, the "Mutex acquired" lines only

fileVars == <<main, i, thread, owner, live, buf, file, failed, output>>

FileInit == /\ main = "create"
            /\ i = 0
            /\ thread = [t \in Thread |-> "none"]
            /\ owner = Nobody
            /\ live = TRUE
            /\ buf = [t \in Thread |-> <<>>]
            /\ file = <<>>
            /\ failed = FALSE
            /\ output = <<>>

Running == main \in {"create", "join"}
ThreadTo(t, label) == thread' = [thread EXCEPT ![t] = label]

Create ==
  /\ main = "create" /\ i < N
  /\ ThreadTo(i, "lock")
  /\ i' = i + 1
  /\ UNCHANGED <<main, owner, live, buf, file, failed, output>>

AllCreated ==
  /\ main = "create" /\ i = N
  /\ main' = "join"
  /\ i' = 0
  /\ UNCHANGED <<thread, owner, live, buf, file, failed, output>>

\* Faulty: goes on without waiting for the thread.
JoinNobody ==
  /\ main = "join" /\ i < N
  /\ i' = i + 1
  /\ UNCHANGED <<main, thread, owner, live, buf, file, failed, output>>

Join ==
  /\ main = "join" /\ i < N
  /\ thread[i] = "exited"
  /\ i' = i + 1
  /\ UNCHANGED <<main, thread, owner, live, buf, file, failed, output>>

\* All threads are joined: the mutex is destroyed and main returns.
Destroy ==
  /\ main = "join" /\ i = N
  /\ live' = FALSE
  /\ main' = "finished"
  /\ UNCHANGED <<i, thread, owner, buf, file, failed, output>>
-----------------------------------------------------------------------------
\* Faulty: a mutex that is held does not keep anybody out.
LockHeld(t) ==
  /\ Running /\ thread[t] = "lock"
  /\ owner' = t
  /\ ThreadTo(t, "announce")
  /\ UNCHANGED <<main, i, live, buf, file, failed, output>>

MutexLock(t) ==
  /\ Running /\ thread[t] = "lock" /\ live /\ owner = Nobody
  /\ owner' = t
  /\ ThreadTo(t, "announce")
  /\ UNCHANGED <<main, i, live, buf, file, failed, output>>

Announce(t) ==
  /\ Running /\ thread[t] = "announce"
  /\ output' = Append(output, t)
  /\ ThreadTo(t, "open")
  /\ UNCHANGED <<main, i, owner, live, buf, file, failed>>

Open(t) ==
  /\ Running /\ thread[t] = "open"
  /\ ThreadTo(t, "print")
  /\ UNCHANGED <<main, i, owner, live, buf, file, failed, output>>

\* fopen returns NULL and fprintf crashes: the process ends.
OpenFails(t) ==
  /\ Running /\ thread[t] = "open"
  /\ main' = "crashed"
  /\ UNCHANGED <<i, thread, owner, live, buf, file, failed, output>>

Write(t) ==
  /\ Running /\ thread[t] = "print"
  /\ buf' = [buf EXCEPT ![t] = Append(@, <<t, Len(@) + 1>>)]
  /\ ThreadTo(t, IF Len(buf[t]) = 2 THEN "close" ELSE "print")
  /\ UNCHANGED <<main, i, owner, live, file, failed, output>>

\* fclose: the buffer is appended to the file by one write.
Close(t) ==
  /\ Running /\ thread[t] = "close"
  /\ file' = file \o buf[t]
  /\ buf' = [buf EXCEPT ![t] = <<>>]
  /\ ThreadTo(t, "unlock")
  /\ UNCHANGED <<main, i, owner, live, failed, output>>

\* The write fails: the first texts of the buffer are in the file or none,
\* the last of them perhaps cut short.
CloseFails(t) ==
  /\ Running /\ thread[t] = "close"
  /\ \E k \in 0 .. Len(buf[t]) : file' = file \o SubSeq(buf[t], 1, k)
  /\ failed' = TRUE
  /\ buf' = [buf EXCEPT ![t] = <<>>]
  /\ ThreadTo(t, "unlock")
  /\ UNCHANGED <<main, i, owner, live, output>>

\* Faulty: the mutex is never given back.
UnlockNothing(t) ==
  /\ Running /\ thread[t] = "unlock"
  /\ ThreadTo(t, "exited")
  /\ UNCHANGED <<main, i, owner, live, buf, file, failed, output>>

MutexUnlock(t) ==
  /\ Running /\ thread[t] = "unlock"
  /\ owner' = Nobody
  /\ ThreadTo(t, "released")
  /\ UNCHANGED <<main, i, live, buf, file, failed, output>>

Exit(t) ==
  /\ Running /\ thread[t] = "released"
  /\ ThreadTo(t, "exited")
  /\ UNCHANGED <<main, i, owner, live, buf, file, failed, output>>

MainStep == Create \/ AllCreated \/ Join \/ Destroy
runner(t) == \/ MutexLock(t) \/ Announce(t) \/ Open(t) \/ Write(t) \/ Close(t)
             \/ MutexUnlock(t) \/ Exit(t)

FileNext == MainStep \/ \E t \in Thread : runner(t) \/ OpenFails(t) \/ CloseFails(t)

FileSpec == FileInit /\ [][FileNext]_fileVars

\* Every thread keeps running.  The mutex need not be fair: each thread takes
\* it once, so at last it stays free for whoever is left.
FileFairSpec == /\ FileSpec
                /\ WF_fileVars(MainStep)
                /\ \A t \in Thread : WF_fileVars(runner(t))
-----------------------------------------------------------------------------
Text == Thread \X (1 .. 3)  \* whose text, and which of the three

FileTypeOK ==
  /\ main \in {"create", "join", "finished", "crashed"}
  /\ i \in 0 .. N
  /\ thread \in [Thread -> {"none", "lock", "announce", "open", "print", "close",
                            "unlock", "released", "exited"}]
  /\ owner \in Thread \cup {Nobody}
  /\ live \in BOOLEAN
  /\ buf \in [Thread -> Seq(Text)]
  /\ \A t \in Thread : Len(buf[t]) <= 3
  /\ file \in Seq(Text)
  /\ failed \in BOOLEAN
  /\ output \in Seq(Thread)

\* The thread of a has announced itself before that of b.
Before(a, b) ==
  \E x, y \in DOMAIN output : x < y /\ output[x] = a[1] /\ output[y] = b[1]

(***************************************************************************)
(* 1.txt holds the texts of each thread together and from the first on,    *)
(* the threads in the order in which they announced themselves, also when  *)
(* the process crashes in between or a write fails; and unless one fails,  *)
(* all three texts of each of the first threads, none left out.  (fprintf  *)
(* and fclose, mutex.c:54 and 61)                                          *)
(***************************************************************************)
FileFollowsOutput ==
  /\ \A m \in DOMAIN file :
       file[m][2] > 1 => m > 1 /\ file[m - 1] = <<file[m][1], file[m][2] - 1>>
  /\ \A m, k \in DOMAIN file :
       m < k => file[m][1] = file[k][1] \/ Before(file[m], file[k])
  /\ ~ failed =>
       /\ Len(file) % 3 = 0
       /\ Len(file) <= 3 * Len(output)
       /\ \A m \in DOMAIN file :
            file[m] = <<output[((m - 1) \div 3) + 1], ((m - 1) % 3) + 1>>

(***************************************************************************)
(* main destroys the mutex only when nobody holds it or will ask for it,   *)
(* and then every thread has written, unless a write has failed.  (join,   *)
(* mutex.c:31 and 34)                                                      *)
(***************************************************************************)
DestroyedWhenUnused ==
  ~ live => /\ owner = Nobody
            /\ \A t \in Thread : thread[t] = "exited"
            /\ failed \/ Len(file) = 3 * N

(***************************************************************************)
(* The program finishes, unless the file cannot be opened: whoever comes   *)
(* last, the mutex is given back to everyone.  (mutex.c:48 and 63)         *)
(***************************************************************************)
Finishes == <>(main \in {"finished", "crashed"})
=============================================================================
