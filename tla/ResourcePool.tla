---------------------------- MODULE ResourcePool ----------------------------
(***************************************************************************)
(* What the simulation of Assignment3/Banker.c promises, without its       *)
(* control flow: a pool of units of several types and clients that ask,    *)
(* are served in full or not at all, and give units back.  A client asks   *)
(* for nothing new, and gives nothing back, while a request is open; it    *)
(* never holds and asks for more than its claim.  The pool owes nobody     *)
(* progress.  Banker is shown to implement this specification.             *)
(***************************************************************************)
EXTENDS Integers

CONSTANTS Client, Type, Amount

VARIABLES
  capacity,  \* units of each type in the system
  claim,     \* what each client declared as its maximum
  held,      \* what each client holds
  wanted,    \* what each client has asked for and not received
  free       \* what nobody holds

vars == <<capacity, claim, held, wanted, free>>

Nothing == [t \in Type |-> 0]
Bundle == [Type -> Nat]
Leq(v, w) == \A t \in Type : v[t] <= w[t]
Add(v, w) == [t \in Type |-> v[t] + w[t]]
Sub(v, w) == [t \in Type |-> v[t] - w[t]]

Init == /\ capacity \in [Type -> Amount]
        /\ claim \in [Client -> [Type -> Amount]]
        /\ held = [c \in Client |-> Nothing]
        /\ wanted = [c \in Client |-> Nothing]
        /\ free = capacity

\* A client with no open request opens one, within its claim.
Ask(c) ==
  /\ wanted[c] = Nothing
  /\ wanted' \in [Client -> Bundle]
  /\ \A d \in Client \ {c} : wanted'[d] = wanted[d]
  /\ Leq(Add(held[c], wanted'[c]), claim[c])
  /\ UNCHANGED <<capacity, claim, held, free>>

\* A client receives everything it asked for.
Serve(c) ==
  /\ Leq(wanted[c], free)
  /\ free' = Sub(free, wanted[c])
  /\ held' = [held EXCEPT ![c] = Add(@, wanted[c])]
  /\ wanted' = [wanted EXCEPT ![c] = Nothing]
  /\ UNCHANGED <<capacity, claim>>

\* A client with no open request gives some of its units back.
GiveBack(c) ==
  /\ wanted[c] = Nothing
  /\ held' \in [Client -> Bundle]
  /\ \A d \in Client \ {c} : held'[d] = held[d]
  /\ Leq(held'[c], held[c])
  /\ free' = Add(free, Sub(held[c], held'[c]))
  /\ UNCHANGED <<capacity, claim, wanted>>

Next == \E c \in Client : Ask(c) \/ Serve(c) \/ GiveBack(c)

Spec == Init /\ [][Next]_vars
=============================================================================
