--------------------------- MODULE PipeHandshake ---------------------------
(***************************************************************************)
(* Final/Pthread.c: parent and child are to print three messages each, in  *)
(* turns, and tell each other by a byte in a pipe.  Both processes keep    *)
(* all ends of both pipes open, so a read of an empty pipe waits and a     *)
(* write never fails.  wait(NULL), the parent's last call, is a place only *)
(* and is never left.                                                      *)
(***************************************************************************)
EXTENDS Integers, Sequences

VARIABLES pipe,  \* what is in pfd1 and pfd2
          step,  \* where each process is
          said   \* how many messages each has printed

pipeVars == <<pipe, step, said>>

Process == {"parent", "child"}
Peer(w) == IF w = "parent" THEN "child" ELSE "parent"

\* The pipe a process writes to: pfd2 in notify_parent and in notify_child.
WritesTo(w) == 2

\* The pipe a process reads from: pfd1 in wait_for_parent, pfd2 in wait_for_child.
ReadsFrom(w) == IF w = "parent" THEN 2 ELSE 1

PipeInit == /\ pipe = [d \in 1 .. 2 |-> <<>>]
            /\ step = [w \in Process |-> IF w = "parent" THEN "pipe" ELSE "none"]
            /\ said = [w \in Process |-> 0]

\* enable_waiting
CreatePipes ==
  /\ step["parent"] = "pipe"
  /\ step' = [step EXCEPT !["parent"] = "fork"]
  /\ UNCHANGED <<pipe, said>>

\* pipe or fork returns -1, and the program ends.
CreationFails ==
  /\ step["parent"] \in {"pipe", "fork"}
  /\ step' = [step EXCEPT !["parent"] = "failed"]
  /\ UNCHANGED <<pipe, said>>

\* The parent speaks first.
Fork == /\ step["parent"] = "fork"
        /\ step' = [w \in Process |-> IF w = "parent" THEN "say" ELSE "await"]
        /\ UNCHANGED <<pipe, said>>

\* printf; the child's third message is its last call.
Say(w) ==
  /\ step[w] = "say"
  /\ said' = [said EXCEPT ![w] = @ + 1]
  /\ step' = [step EXCEPT ![w] =
                IF w = "child" /\ said[w] = 2 THEN "exited" ELSE "notify"]
  /\ UNCHANGED pipe

\* notify_child and notify_parent, writing "p" and "c".
Notify(w) ==
  /\ step[w] = "notify"
  /\ pipe' = [pipe EXCEPT ![WritesTo(w)] = Append(@, w)]
  /\ step' = [step EXCEPT ![w] =
                IF w = "parent" /\ said[w] = 3 THEN "wait" ELSE "await"]
  /\ UNCHANGED said

\* Faulty: whatever byte there is will do.
AwaitAnyByte(w) ==
  /\ step[w] = "await"
  /\ LET from == ReadsFrom(w)
     IN  /\ pipe[from] # <<>>
         /\ pipe' = [pipe EXCEPT ![from] = Tail(@)]
         /\ step' = [step EXCEPT ![w] = "say"]
  /\ UNCHANGED said

\* wait_for_child and wait_for_parent: any byte but that of the other process
\* is "incorrect data", and the process exits.
Await(w) ==
  /\ step[w] = "await"
  /\ LET from == ReadsFrom(w)
     IN  /\ pipe[from] # <<>>
         /\ pipe' = [pipe EXCEPT ![from] = Tail(@)]
         /\ step' = [step EXCEPT ![w] =
                       IF Head(pipe[from]) = Peer(w) THEN "say" ELSE "incorrect"]
  /\ UNCHANGED said

PipeWork == CreatePipes \/ Fork \/ \E w \in Process : Say(w) \/ Notify(w) \/ Await(w)
PipeNext == PipeWork \/ CreationFails

PipeSpec == PipeInit /\ [][PipeNext]_pipeVars
-----------------------------------------------------------------------------
PipeTypeOK ==
  /\ pipe \in [1 .. 2 -> Seq(Process)]
  /\ step \in [Process -> {"none", "pipe", "fork", "failed", "say", "notify",
                           "await", "incorrect", "wait", "exited"}]
  /\ said \in [Process -> 0 .. 3]

(***************************************************************************)
(* Nobody speaks out of turn: the messages printed alternate, the parent's *)
(* first, although both processes could run ahead.  (main, Pthread.c:83)   *)
(***************************************************************************)
InTurns == said["parent"] - said["child"] \in {0, 1}

(***************************************************************************)
(* What a process reads from its pipe is the byte of the other one, as the *)
(* tests for "incorrect data" demand.  (wait_for_child, Pthread.c:62)      *)
(***************************************************************************)
ReadsPeersByte == \A w \in Process : step[w] # "incorrect"
=============================================================================
