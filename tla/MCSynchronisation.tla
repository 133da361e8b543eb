------------------------- MODULE MCSynchronisation --------------------------
(***************************************************************************)
(* The programs of Final/Lock.c, Final/Pthread.c and Midterm2/mutex.c for  *)
(* TLC.  They share nothing, so each behaviour is one of program, and the  *)
(* variables of the others rest.                                           *)
(***************************************************************************)
EXTENDS BoundedWaiting, ProducerConsumer, Semaphore, Philosophers, MutexFile,
        PipeHandshake

VARIABLE program

Program == {"bounded", "producer consumer", "semaphore", "philosophers", "mutex",
            "pipe"}

programVars == <<program, vars, pcVars, semVars, philVars, fileVars, pipeVars>>

ProgramInit == /\ program \in Program
               /\ Init /\ PCInit /\ SemInit /\ PhilInit /\ FileInit /\ PipeInit

\* Only the variables of the program p may change.
Only(p) ==
  /\ program = p /\ UNCHANGED program
  /\ p # "bounded" => UNCHANGED vars
  /\ p # "producer consumer" => UNCHANGED pcVars
  /\ p # "semaphore" => UNCHANGED semVars
  /\ p # "philosophers" => UNCHANGED philVars
  /\ p # "mutex" => UNCHANGED fileVars
  /\ p # "pipe" => UNCHANGED pipeVars

ProgramNext == \/ Next /\ Only("bounded")
               \/ PCNext /\ Only("producer consumer")
               \/ SemNext /\ Only("semaphore")
               \/ PhilNext /\ Only("philosophers")
               \/ FileNext /\ Only("mutex")
               \/ PipeNext /\ Only("pipe")

(***************************************************************************)
(* A process or thread keeps running; but none has to ask for the critical *)
(* section of the bounded-waiting lock, and no call has to fail.           *)
(***************************************************************************)
ProgramSpec ==
  /\ ProgramInit /\ [][ProgramNext]_programVars
  /\ \A p \in Proc : WF_programVars(Work(p) /\ Only("bounded"))
  /\ \A p \in Seat : WF_programVars(philosopher(p) /\ Only("philosophers"))
  /\ WF_programVars(MainStep /\ Only("mutex"))
  /\ \A t \in Thread : WF_programVars(runner(t) /\ Only("mutex"))
-----------------------------------------------------------------------------
(***************************************************************************)
(* All philosophers end up waiting for ever, after one meal at most and    *)
(* next to nobody who has had one.  (Lock.c:318)                           *)
(***************************************************************************)
PhilosophersStarve ==
  program = "philosophers" => AllWaitForEver /\ []OneMealForTwo

(***************************************************************************)
(* The program of mutex.c finishes.  (mutex.c:48 and 63)                   *)
(***************************************************************************)
MutexFileFinishes == program = "mutex" => Finishes

Users == {"p", "q", "r"}
=============================================================================
