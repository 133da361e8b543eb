----------------------------- MODULE Semaphore -----------------------------
(***************************************************************************)
(* The semaphore without busy waiting of Final/Lock.c.  Processes call     *)
(* xwait, are inside, and call xsignal.  "Can only be accessed via two     *)
(* atomic operations" (Lock.c:234) is a demand on the callers: the two     *)
(* functions are several steps here.  value-- and value++ load and store,  *)
(* as Lock.c:36 says of such updates, and the tests read the value again.  *)
(* block() suspends its caller; wakeup(P) resumes a process that is        *)
(* suspended, and does nothing to one that is not suspended yet.           *)
(***************************************************************************)
EXTENDS Integers, FiniteSets

CONSTANTS User,  \* the processes
          Units, \* the initial value
          Drift  \* bound on the value at which a call begins: updates that
                 \* undo each other can move it without end

ASSUME SemaphoreAssumption == IsFiniteSet(User) /\ Units \in Nat /\ Drift \in Nat

VARIABLES
  value, list,  \* the semaphore
  user,         \* where each process is
  register,     \* the value each has loaded for its update
  torn          \* has one begun in the midst of another's call (history)

semVars == <<value, list, user, register, torn>>

SemInit == /\ value = Units
           /\ list = {}
           /\ user = [p \in User |-> "outside"]
           /\ register = [p \in User |-> 0]
           /\ torn = FALSE

UserTo(p, label) == user' = [user EXCEPT ![p] = label]

\* A call that has begun and not returned, and is not suspended.
Midway == {"subtract", "decremented", "enqueue", "block", "add", "incremented",
           "remove"}

\* p begins a call, in which the value is loaded first.
Begins(p) ==
  /\ value \in - Drift .. Drift
  /\ register' = [register EXCEPT ![p] = value]
  /\ torn' = (torn \/ \E q \in User : user[q] \in Midway)
  /\ UNCHANGED <<value, list>>

\* p stores what has become of the value it loaded.
Stores(p, v) ==
  /\ value' = v
  /\ register' = [register EXCEPT ![p] = 0]
  /\ UNCHANGED <<list, torn>>

\* S->value--
xwait(p) == user[p] = "outside" /\ Begins(p) /\ UserTo(p, "subtract")

Subtract(p) ==
  user[p] = "subtract" /\ Stores(p, register[p] - 1) /\ UserTo(p, "decremented")

\* if (S->value < 0)
WaitTest(p) ==
  /\ user[p] = "decremented"
  /\ UserTo(p, IF value < 0 THEN "enqueue" ELSE "inside")
  /\ UNCHANGED <<value, list, register, torn>>

Enqueue(p) ==
  /\ user[p] = "enqueue"
  /\ list' = list \cup {p}
  /\ UserTo(p, "block")
  /\ UNCHANGED <<value, register, torn>>

Block(p) ==
  /\ user[p] = "block"
  /\ UserTo(p, "suspended")
  /\ UNCHANGED <<value, list, register, torn>>

\* S->value++
xsignal(p) == user[p] = "inside" /\ Begins(p) /\ UserTo(p, "add")

Add(p) == user[p] = "add" /\ Stores(p, register[p] + 1) /\ UserTo(p, "incremented")

\* Faulty: the last waiter is forgotten.
SignalTestStrict(p) ==
  /\ user[p] = "incremented"
  /\ UserTo(p, IF value < 0 THEN "remove" ELSE "outside")
  /\ UNCHANGED <<value, list, register, torn>>

\* if (S->value <= 0)
SignalTest(p) ==
  /\ user[p] = "incremented"
  /\ UserTo(p, IF value <= 0 THEN "remove" ELSE "outside")
  /\ UNCHANGED <<value, list, register, torn>>

\* A process is removed from the list, any one, and woken up.
Remove(p) ==
  /\ user[p] = "remove" /\ list # {}
  /\ \E q \in list :
       /\ list' = list \ {q}
       /\ user' = [user EXCEPT ![p] = "outside",
                               ![q] = IF @ = "suspended" THEN "inside" ELSE @]
  /\ UNCHANGED <<value, register, torn>>

\* The one to be woken up is not in the list yet.
RemoveNobody(p) ==
  /\ user[p] = "remove" /\ list = {}
  /\ UserTo(p, "outside")
  /\ UNCHANGED <<value, list, register, torn>>

SemNext == \E p \in User :
             \/ xwait(p) \/ Subtract(p) \/ WaitTest(p) \/ Enqueue(p) \/ Block(p)
             \/ xsignal(p) \/ Add(p) \/ SignalTest(p) \/ Remove(p) \/ RemoveNobody(p)

SemSpec == SemInit /\ [][SemNext]_semVars
-----------------------------------------------------------------------------
At(labels) == {p \in User : user[p] \in labels}

SemTypeOK ==
  /\ value \in Int
  /\ list \subseteq User
  /\ user \in [User -> Midway \cup {"outside", "inside", "suspended"}]
  /\ register \in [User -> Int]
  /\ torn \in BOOLEAN

(***************************************************************************)
(* As long as no call has begun in the midst of another, as the text       *)
(* demands, the value tells how many processes have taken a unit and not   *)
(* given it back; no more processes than units are inside; and whenever no *)
(* call is under way the processes suspended are those in the list, and as *)
(* many as the value is below zero, so none has been forgotten.  (xwait    *)
(* and xsignal, Lock.c:278 and 287)                                        *)
(***************************************************************************)
SemaphoreCounts ==
  ~ torn =>
    /\ value = Units - Cardinality(At({"decremented", "enqueue", "block", "suspended",
                                       "inside", "add"}))
    /\ Cardinality(At({"inside"})) <= Units
    /\ At(Midway) = {} => /\ list = At({"suspended"})
                          /\ Cardinality(list) = (IF value < 0 THEN - value ELSE 0)
=============================================================================
