---------------------------- MODULE Philosophers ----------------------------
(***************************************************************************)
(* philosopher of Final/Lock.c, with the semaphores that wait by spinning: *)
(* a wait for the chopstick on the left, one for that on the right, and    *)
(* the next round.  There is no call of signal: a chopstick taken is never *)
(* put back.  wait takes its semaphore by value (Lock.c:237); it is read   *)
(* as the text above it says, as an atomic access to the semaphore itself  *)
(* (Lock.c:234), since with the copy of each caller nothing is shared.     *)
(***************************************************************************)
EXTENDS Integers

CONSTANT Seats  \* philosophers and chopsticks, 5 in the code

ASSUME SeatsAssumption == Seats \in Nat \ {0}

VARIABLES
  chopstick,  \* the semaphores, 1 at the beginning
  phil,       \* where each philosopher is
  ate         \* the philosophers who have eaten (history)

philVars == <<chopstick, phil, ate>>

Seat == 0 .. Seats - 1
RightOf(i) == (i + 1) % Seats

PhilInit == /\ chopstick = [i \in Seat |-> 1]
            /\ phil = [i \in Seat |-> "think"]
            /\ ate = {}

\* while (S <= 0); S--;
wait(s) == /\ chopstick[s] > 0
           /\ chopstick' = [chopstick EXCEPT ![s] = @ - 1]

\* wait(chopstick[i])
WaitLeft(i) ==
  /\ phil[i] = "think" /\ wait(i)
  /\ phil' = [phil EXCEPT ![i] = "left"]
  /\ UNCHANGED ate

\* wait(chopstick[(i+1)%5])
WaitRight(i) ==
  /\ phil[i] = "left" /\ wait(RightOf(i))
  /\ phil' = [phil EXCEPT ![i] = "eat"]
  /\ UNCHANGED ate

\* Faulty: the chopstick on the left is put back after the meal.
EatAndSignal(i) ==
  /\ phil[i] = "eat"
  /\ ate' = ate \cup {i}
  /\ chopstick' = [chopstick EXCEPT ![i] = @ + 1]
  /\ phil' = [phil EXCEPT ![i] = "think"]

Eat(i) ==
  /\ phil[i] = "eat"
  /\ ate' = ate \cup {i}
  /\ phil' = [phil EXCEPT ![i] = "think"]
  /\ UNCHANGED chopstick

philosopher(i) == WaitLeft(i) \/ WaitRight(i) \/ Eat(i)

PhilNext == \E i \in Seat : philosopher(i)

PhilSpec == PhilInit /\ [][PhilNext]_philVars
-----------------------------------------------------------------------------
PhilTypeOK ==
  /\ chopstick \in [Seat -> {0, 1}]
  /\ phil \in [Seat -> {"think", "left", "eat"}]
  /\ ate \subseteq Seat

HasEaten(i) == i \in ate \/ phil[i] = "eat"

(***************************************************************************)
(* Each philosopher eats at most once, and of two neighbours at most one:  *)
(* whoever begins a second round waits for a chopstick of its own.         *)
(* (philosopher, Lock.c:313)                                               *)
(***************************************************************************)
OneMealForTwo ==
  \A i \in Seat : /\ HasEaten(i) /\ HasEaten(RightOf(i)) => i = RightOf(i)
                  /\ i \in ate => phil[i] = "think" /\ chopstick[i] = 0

Waits(i) == \/ phil[i] = "think" /\ chopstick[i] = 0
            \/ phil[i] = "left" /\ chopstick[RightOf(i)] = 0

(***************************************************************************)
(* "May create deadlock and Starvation" (Lock.c:325): it always does.  All *)
(* philosophers end up waiting for ever, whatever the order in which they  *)
(* take the chopsticks.                                                    *)
(***************************************************************************)
AllWaitForEver == <>[](\A i \in Seat : Waits(i))
=============================================================================
