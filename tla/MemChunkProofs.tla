--------------------------- MODULE MemChunkProofs ---------------------------
(***************************************************************************)
(* What testmem shows of the memory, for any number of pages, any layout   *)
(* of permissions and a list of any size (Assignment1).                    *)
(***************************************************************************)
EXTENDS TestMem, TLAPS

Memory == [0 .. Pages - 1 -> Permission]

\* What may be done to page p; before the first page there is nothing.
Seen(m, p) == IF p \in 0 .. Pages - 1 THEN m[p] ELSE "none"

\* The stretches that have ended once the decisions on d pages are taken,
\* and the first page of the one that has not.
Closed(m, d) == {s \in Stretches(m) : s[2] < d - 1}

Run(m, a, d) == /\ a \in 0 .. d - 1 /\ m[a] # "none"
                /\ \A p \in a .. d - 1 : m[p] = m[a]
                /\ a > 0 => m[a - 1] # m[a]

\* The mark of a stretch, and an entry that describes it.
Code(m, s) == IF m[s[2] + 1] = "none" THEN -1 ELSE IF m[s[1]] = "write" THEN 1 ELSE 0

Listed(m, entry, s) == /\ entry.start = s[1] + 1
                       /\ entry.length = s[2] - s[1] + 1
                       /\ entry.RW = Code(m, s)

(***************************************************************************)
(* The first k entries are the stretches that have ended, in order; when   *)
(* the list is full, those that come first.                                *)
(***************************************************************************)
Lists(m, list, k, d) ==
  /\ \A n \in 0 .. k - 1 : \E s \in Closed(m, d) : Listed(m, list[n], s)
  /\ \A n1, n2 \in 0 .. k - 1 : n1 < n2 => list[n1].start < list[n2].start
  /\ \A s \in Closed(m, d) :
       \/ \E n \in 0 .. k - 1 : Listed(m, list[n], s)
       \/ k = size /\ \A n \in 0 .. k - 1 : list[n].start <= s[1]

(***************************************************************************)
(* Of two stretches one ends before the other begins.                      *)
(***************************************************************************)
LEMMA Apart ==
  ASSUME NEW m \in Memory, NEW s \in Stretches(m), NEW t \in Stretches(m), s[2] < t[2]
  PROVE  s[2] < t[1]
<1> SUFFICES ASSUME t[1] <= s[2] PROVE FALSE
  BY MemAssumption DEF Stretches
<1>1. /\ s[2] \in t[1] .. t[2] /\ s[2] + 1 \in t[1] .. t[2] /\ s[2] < Pages - 1
  BY MemAssumption DEF Stretches
<1>2. m[s[2]] = m[t[1]] /\ m[s[2] + 1] = m[t[1]]
  BY <1>1 DEF Stretches
<1>3. m[s[2] + 1] # m[s[2]]
  BY <1>1 DEF Stretches
<1> QED
  BY <1>2, <1>3

(***************************************************************************)
(* One more decision ends the stretches whose last page is d - 1.          *)
(***************************************************************************)
LEMMA Grows ==
  ASSUME NEW m, NEW d \in Int
  PROVE  Closed(m, d + 1) = Closed(m, d) \cup {s \in Stretches(m) : s[2] = d - 1}
  BY MemAssumption DEF Closed, Stretches

(***************************************************************************)
(* A page that cannot be read, or like the next, is not the last of one.   *)
(***************************************************************************)
LEMMA NoneEnds ==
  ASSUME NEW m \in Memory, NEW d \in Int, d <= Pages - 1,
         Seen(m, d - 1) = "none" \/ m[d] = m[d - 1],
         NEW s \in Stretches(m)
  PROVE  s[2] # d - 1
<1> SUFFICES ASSUME s[2] = d - 1 PROVE FALSE
  OBVIOUS
<1>1. /\ s[1] \in 0 .. Pages - 1 /\ s[2] \in 0 .. Pages - 1 /\ s[1] <= s[2]
      /\ m[s[1]] # "none"
      /\ s[2] < Pages - 1 => m[s[2] + 1] # m[s[2]]
  BY DEF Stretches
<1>2. m[s[2]] = m[s[1]]
  BY <1>1 DEF Stretches
<1>3. Seen(m, d - 1) = m[s[2]]
  BY <1>1 DEF Seen
<1>4. s[2] + 1 = d /\ s[2] < Pages - 1
  BY <1>1, MemAssumption
<1> QED
  BY <1>1, <1>2, <1>3, <1>4

(***************************************************************************)
(* A run that does not go on is a stretch, and the only one to end there.  *)
(***************************************************************************)
LEMMA RunEnds ==
  ASSUME NEW m \in Memory, NEW d \in 1 .. Pages - 1, NEW a, Run(m, a, d), m[d] # m[d - 1]
  PROVE  {s \in Stretches(m) : s[2] = d - 1} = {<<a, d - 1>>}
<1>1. /\ a \in 0 .. Pages - 1 /\ d - 1 \in 0 .. Pages - 1 /\ a <= d - 1
      /\ m[a] # "none" /\ \A p \in a .. d - 1 : m[p] = m[a]
      /\ a > 0 => m[a - 1] # m[a]
  BY MemAssumption DEF Run
<1>2. <<a, d - 1>> \in Stretches(m)
  BY <1>1 DEF Stretches
<1>3. ASSUME NEW s \in Stretches(m), s[2] = d - 1 PROVE s = <<a, d - 1>>
  <2>1. /\ s[1] \in 0 .. d - 1 /\ s = <<s[1], s[2]>>
        /\ \A p \in s[1] .. d - 1 : m[p] = m[s[1]]
        /\ s[1] > 0 => m[s[1] - 1] # m[s[1]]
    BY <1>3 DEF Stretches
  <2>2. ~ (s[1] < a)
    <3> SUFFICES ASSUME s[1] < a PROVE FALSE
      OBVIOUS
    <3>1. a - 1 \in s[1] .. d - 1 /\ a \in s[1] .. d - 1 /\ a > 0
      BY <1>1, <2>1
    <3> QED
      BY <1>1, <2>1, <3>1
  <2>3. ~ (a < s[1])
    <3> SUFFICES ASSUME a < s[1] PROVE FALSE
      OBVIOUS
    <3>1. s[1] - 1 \in a .. d - 1 /\ s[1] \in a .. d - 1 /\ s[1] > 0
      BY <1>1, <2>1
    <3> QED
      BY <1>1, <2>1, <3>1
  <2> QED
    BY <1>1, <1>3, <2>1, <2>2, <2>3
<1> QED
  BY <1>2, <1>3

(***************************************************************************)
(* A decision that ends no stretch.                                        *)
(***************************************************************************)
LEMMA SameList ==
  ASSUME NEW m \in Memory, NEW d \in Int, d <= Pages - 1,
         Seen(m, d - 1) = "none" \/ m[d] = m[d - 1],
         NEW k \in 0 .. size, NEW list, NEW more, Lists(m, list, k, d),
         \A n \in 0 .. k - 1 : more[n] = list[n]
  PROVE  Lists(m, more, k, d + 1)
<1>1. \A s \in Stretches(m) : s[2] # d - 1
  BY NoneEnds
<1>2. Closed(m, d + 1) = Closed(m, d)
  BY <1>1, Grows
<1> QED
  BY <1>2 DEF Lists

(***************************************************************************)
(* A decision that ends a stretch for which the list has an entry.         *)
(***************************************************************************)
LEMMA LongerList ==
  ASSUME NEW m \in Memory, NEW d \in 1 .. Pages - 1, NEW a, Run(m, a, d), m[d] # m[d - 1],
         NEW k \in 0 .. size - 1, NEW list, NEW more, Lists(m, list, k, d),
         \A n \in 0 .. k - 1 : more[n] = list[n],
         Listed(m, more[k], <<a, d - 1>>)
  PROVE  Lists(m, more, k + 1, d + 1)
<1> DEFINE e == <<a, d - 1>>
<1>1. Closed(m, d + 1) = Closed(m, d) \cup {e}
  BY Grows, RunEnds
<1>2. e \in Stretches(m) /\ e[2] = d - 1 /\ e[1] = a
  BY RunEnds
<1>3. ASSUME NEW n \in 0 .. k - 1 PROVE more[n].start < more[k].start
  <2>1. PICK s \in Closed(m, d) : Listed(m, list[n], s)
    BY DEF Lists
  <2>2. s \in Stretches(m) /\ s[2] < e[2]
    BY <1>2, <2>1 DEF Closed
  <2>3. s[2] < a
    BY <1>2, <2>2, Apart
  <2>4. s[1] <= s[2] /\ s[1] \in Int /\ s[2] \in Int /\ a \in Int
    BY <1>2, <2>2 DEF Stretches
  <2>5. more[n].start = s[1] + 1 /\ more[k].start = a + 1
    BY <1>2, <2>1 DEF Listed
  <2> QED
    BY <2>3, <2>4, <2>5
<1>4. k \in Nat /\ 0 .. (k + 1) - 1 = (0 .. k - 1) \cup {k}
  OBVIOUS
<1>5. \A n \in 0 .. k : \E s \in Closed(m, d + 1) : Listed(m, more[n], s)
  <2> TAKE n \in 0 .. k
  <2>1. CASE n = k
    BY <1>1, <2>1
  <2>2. CASE n # k
    <3>1. n \in 0 .. k - 1
      BY <1>4, <2>2
    <3> QED
      BY <1>1, <3>1 DEF Lists
  <2> QED
    BY <2>1, <2>2
<1>6. \A n1, n2 \in 0 .. k : n1 < n2 => more[n1].start < more[n2].start
  <2> SUFFICES ASSUME NEW n1 \in 0 .. k, NEW n2 \in 0 .. k, n1 < n2
               PROVE  more[n1].start < more[n2].start
    OBVIOUS
  <2>1. n1 \in 0 .. k - 1
    BY <1>4
  <2>2. CASE n2 = k
    BY <1>3, <2>1, <2>2
  <2>3. CASE n2 # k
    <3>1. n2 \in 0 .. k - 1
      BY <1>4, <2>3
    <3> QED
      BY <2>1, <3>1 DEF Lists
  <2> QED
    BY <2>2, <2>3
<1>7. \A s \in Closed(m, d + 1) : \E n \in 0 .. k : Listed(m, more[n], s)
  <2> TAKE s \in Closed(m, d + 1)
  <2>1. CASE s = e
    BY <1>4, <2>1
  <2>2. CASE s \in Closed(m, d)
    <3>1. PICK n \in 0 .. k - 1 : Listed(m, list[n], s)
      BY <1>4, <2>2 DEF Lists
    <3> QED
      BY <1>4, <3>1
  <2> QED
    BY <1>1, <2>1, <2>2
<1>8. (k + 1) - 1 = k
  OBVIOUS
<1> QED
  BY <1>5, <1>6, <1>7, <1>8 DEF Lists

(***************************************************************************)
(* A decision when the list is full.                                       *)
(***************************************************************************)
LEMMA FullList ==
  ASSUME NEW m \in Memory, NEW d \in Int, NEW list, NEW more, Lists(m, list, size, d),
         \A n \in 0 .. size - 1 : more[n] = list[n]
  PROVE  Lists(m, more, size, d + 1)
<1>1. Closed(m, d + 1) = Closed(m, d) \cup {s \in Stretches(m) : s[2] = d - 1}
  BY Grows
<1>2. ASSUME NEW n \in 0 .. size - 1, NEW s \in Stretches(m), s[2] = d - 1
      PROVE  more[n].start <= s[1]
  <2>1. PICK t \in Closed(m, d) : Listed(m, list[n], t)
    BY DEF Lists
  <2>2. t \in Stretches(m) /\ t[2] < s[2]
    BY <1>2, <2>1 DEF Closed
  <2>3. t[2] < s[1]
    BY <2>2, Apart
  <2>4. t[1] <= t[2] /\ t[1] \in Int /\ t[2] \in Int /\ s[1] \in Int
    BY <2>2 DEF Stretches
  <2>5. more[n].start = t[1] + 1
    BY <2>1 DEF Listed
  <2> QED
    BY <2>3, <2>4, <2>5
<1>3. \A n \in 0 .. size - 1 : \E s \in Closed(m, d + 1) : Listed(m, more[n], s)
  BY <1>1 DEF Lists
<1>4. \A n1, n2 \in 0 .. size - 1 : n1 < n2 => more[n1].start < more[n2].start
  BY DEF Lists
<1>5. ASSUME NEW s \in Closed(m, d + 1)
      PROVE  \/ \E n \in 0 .. size - 1 : Listed(m, more[n], s)
             \/ \A n \in 0 .. size - 1 : more[n].start <= s[1]
  <2>1. CASE s \in Closed(m, d)
    BY <2>1 DEF Lists
  <2>2. CASE s \in Stretches(m) /\ s[2] = d - 1
    BY <1>2, <2>2
  <2> QED
    BY <1>1, <2>1, <2>2
<1> QED
  BY <1>3, <1>4, <1>5 DEF Lists
-----------------------------------------------------------------------------
(***************************************************************************)
(* The scan.                                                               *)
(***************************************************************************)
Label == {"page", "examine", "compare", "probe", "handler", "count", "killed",
          "done", "shown"}

Field == [start : Int, length : Int, RW : Int]

Types ==
  /\ memory \in Memory
  /\ i \in 0 .. Pages /\ address \in Int /\ tmp_start \in Int
  /\ readable \in {0, 1} /\ writeable \in {0, 1} /\ this \in {0, 1}
  /\ counter \in Nat
  /\ chunk_list \in [0 .. size - 1 -> Field]
  /\ blocked \in BOOLEAN
  /\ pc \in Label

\* readable and writeable are those of page p.
Reads(p) == /\ readable = (IF Seen(memory, p) = "none" THEN 0 ELSE 1)
            /\ writeable = (IF Seen(memory, p) = "write" THEN 1 ELSE 0)

(***************************************************************************)
(* Up to the probe of a page the permissions are those of the page before. *)
(* The signal is blocked in its handler only, so no fault kills.           *)
(***************************************************************************)
ScanInv ==
  /\ pc \in {"examine", "compare", "probe", "handler", "count"} => i < Pages /\ address = i
  /\ pc \in {"done", "shown"} => i = Pages
  /\ pc \in {"page", "examine", "compare"} => Reads(i - 1)
  /\ pc \in {"handler", "count"} => Reads(i)
  /\ blocked <=> pc = "handler"
  /\ pc # "killed"

\* Entry n with its RW set to -1, if the list has it.
Marked(list, n) == IF n < size THEN [list EXCEPT ![n].RW = -1] ELSE list

(***************************************************************************)
(* A chunk that begins sets start and RW of the entry at counter, if the   *)
(* list has one, and changes no other entry.                               *)
(***************************************************************************)
LEMMA OpenedIs ==
  ASSUME NEW list \in [0 .. size - 1 -> Field], NEW n \in Nat,
         address \in Int, writeable \in Int
  PROVE  /\ Opened(list, n) \in [0 .. size - 1 -> Field]
         /\ \A k \in 0 .. size - 1 : k # n => Opened(list, n)[k] = list[k]
         /\ n < size => /\ Opened(list, n)[n].start = address
                        /\ Opened(list, n)[n].RW = writeable
<1> DEFINE e == [list[n] EXCEPT !.start = address, !.RW = writeable]
<1>1. CASE n < size
  <2>1. n \in 0 .. size - 1 /\ list[n] \in Field
    BY <1>1, MemAssumption
  <2>2. e \in Field /\ e.start = address /\ e.RW = writeable
    BY <2>1 DEF Field
  <2>3. Opened(list, n) = [list EXCEPT ![n] = e]
    BY <1>1, <2>1 DEF Opened
  <2> HIDE DEF e
  <2> QED
    BY <2>1, <2>2, <2>3
<1>2. CASE ~ (n < size)
  BY <1>2 DEF Opened
<1> QED
  BY <1>1, <1>2

(***************************************************************************)
(* A chunk that is closed changes the length of its entry only.            *)
(* (memchunk.c:146)                                                        *)
(***************************************************************************)
LEMMA MeasuredIs ==
  ASSUME NEW list \in [0 .. size - 1 -> Field], NEW n \in Nat,
         address \in Int, tmp_start \in Int
  PROVE  /\ Measured(list, n) \in [0 .. size - 1 -> Field]
         /\ \A k \in 0 .. size - 1 : k # n => Measured(list, n)[k] = list[k]
         /\ n < size => /\ Measured(list, n)[n].start = list[n].start
                        /\ Measured(list, n)[n].RW = list[n].RW
                        /\ Measured(list, n)[n].length = address - tmp_start
<1> DEFINE e == [list[n] EXCEPT !.length = address - tmp_start]
<1>1. CASE n < size
  <2>1. n \in 0 .. size - 1 /\ list[n] \in Field
    BY <1>1, MemAssumption
  <2>2. /\ e \in Field /\ e.start = list[n].start /\ e.RW = list[n].RW
        /\ e.length = address - tmp_start
    BY <2>1 DEF Field
  <2>3. Measured(list, n) = [list EXCEPT ![n] = e]
    BY <1>1, <2>1 DEF Measured
  <2> HIDE DEF e
  <2> QED
    BY <2>1, <2>2, <2>3
<1>2. CASE ~ (n < size)
  BY <1>2 DEF Measured
<1> QED
  BY <1>1, <1>2

(***************************************************************************)
(* A page that cannot be read changes the RW of the entry at counter only. *)
(* (memchunk.c:113)                                                        *)
(***************************************************************************)
LEMMA MarkedIs ==
  ASSUME NEW list \in [0 .. size - 1 -> Field], NEW n \in Nat
  PROVE  /\ Marked(list, n) \in [0 .. size - 1 -> Field]
         /\ \A k \in 0 .. size - 1 : k # n => Marked(list, n)[k] = list[k]
         /\ n < size => /\ Marked(list, n)[n].start = list[n].start
                        /\ Marked(list, n)[n].RW = -1
<1> DEFINE e == [list[n] EXCEPT !.RW = -1]
<1>1. CASE n < size
  <2>1. n \in 0 .. size - 1 /\ list[n] \in Field
    BY <1>1, MemAssumption
  <2>2. e \in Field /\ e.start = list[n].start /\ e.RW = -1
    BY <2>1 DEF Field
  <2>3. Marked(list, n) = [list EXCEPT ![n] = e]
    BY <1>1, <2>1 DEF Marked
  <2> HIDE DEF e
  <2> QED
    BY <2>1, <2>2, <2>3
<1>2. CASE ~ (n < size)
  BY <1>2 DEF Marked
<1> QED
  BY <1>1, <1>2

(***************************************************************************)
(* Every step keeps the types.                                             *)
(***************************************************************************)
LEMMA TypesStep == Types /\ ScanInv /\ [TestNext]_testVars => Types'
<1> SUFFICES ASSUME Types, ScanInv, [TestNext]_testVars PROVE Types'
  OBVIOUS
<1>t. /\ memory \in Memory /\ i \in 0 .. Pages /\ address \in Int /\ tmp_start \in Int
      /\ readable \in {0, 1} /\ writeable \in {0, 1} /\ this \in {0, 1}
      /\ counter \in Nat /\ chunk_list \in [0 .. size - 1 -> Field]
      /\ blocked \in BOOLEAN /\ pc \in Label /\ Pages \in Nat \ {0} /\ size \in Nat
  BY MemAssumption DEF Types
<1> USE <1>t DEF Types, Label
<1>1. CASE NextPage
  BY <1>1 DEF NextPage, scanVars
<1>2. CASE Begin
  BY <1>2, OpenedIs DEF Begin
<1>3. CASE GoOn
  BY <1>3 DEF GoOn, scanVars
<1>4. CASE Close
  <2>1. /\ chunk_list' = IF this = 1 THEN Measured(Marked(chunk_list, counter), counter)
                                    ELSE Marked(chunk_list, counter)
    BY <1>4 DEF Close, Marked
  <2>2. Marked(chunk_list, counter) \in [0 .. size - 1 -> Field]
    BY MarkedIs
  <2>3. chunk_list' \in [0 .. size - 1 -> Field]
    BY <2>1, <2>2, MeasuredIs
  <2>4. counter' \in Nat
    BY <1>4 DEF Close
  <2> QED
    BY <1>4, <2>3, <2>4 DEF Close
<1>5. CASE Split
  <2>1. Measured(chunk_list, counter) \in [0 .. size - 1 -> Field] /\ counter + 1 \in Nat
    BY MeasuredIs
  <2>2. chunk_list' = Opened(Measured(chunk_list, counter), counter + 1)
    BY <1>5 DEF Split
  <2>3. chunk_list' \in [0 .. size - 1 -> Field]
    BY <2>1, <2>2, OpenedIs
  <2> QED
    BY <1>5, <2>3 DEF Split
<1>6. CASE Same
  BY <1>6 DEF Same, scanVars
<1>7. CASE Probe
  BY <1>7 DEF Probe, scanVars, Faults
<1>8. CASE signal_handler
  BY <1>8 DEF signal_handler, scanVars
<1>9. CASE Count
  BY <1>9 DEF Count, scanVars, ScanInv
<1>10. CASE Return
  BY <1>10 DEF Return, scanVars
<1>11. CASE Show
  BY <1>11 DEF Show, vars
<1>12. CASE ShowTotal
  BY <1>12 DEF ShowTotal, scanVars
<1>13. CASE UNCHANGED testVars
  BY <1>13 DEF testVars, vars
<1> QED
  BY <1>1, <1>2, <1>3, <1>4, <1>5, <1>6, <1>7, <1>8, <1>9, <1>10, <1>11, <1>12, <1>13
  DEF TestNext, Next

(***************************************************************************)
(* Every step keeps the permissions with their page.                       *)
(***************************************************************************)
LEMMA ScanStep == Types /\ ScanInv /\ [TestNext]_testVars => ScanInv'
<1> SUFFICES ASSUME Types, ScanInv, [TestNext]_testVars PROVE ScanInv'
  OBVIOUS
<1>t. i \in 0 .. Pages /\ Pages \in Nat \ {0} /\ pc \in Label /\ memory \in Memory
  BY MemAssumption DEF Types
<1> USE <1>t DEF ScanInv, Reads, Label
<1>1. CASE NextPage
  BY <1>1 DEF NextPage
<1>2. CASE Begin
  BY <1>2 DEF Begin
<1>3. CASE GoOn
  BY <1>3 DEF GoOn
<1>4. CASE Close
  BY <1>4 DEF Close
<1>5. CASE Split
  BY <1>5 DEF Split
<1>6. CASE Same
  BY <1>6 DEF Same
<1>7. CASE Probe
  <2>1. Seen(memory, i) = memory[i] /\ address = i /\ i' = i /\ memory' = memory
    BY <1>7 DEF Probe, Seen
  <2> QED
    BY <1>7, <2>1 DEF Probe, Faults
<1>8. CASE signal_handler
  BY <1>8 DEF signal_handler
<1>9. CASE Count
  BY <1>9 DEF Count
<1>10. CASE Return
  BY <1>10 DEF Return
<1>11. CASE Show
  BY <1>11 DEF Show, vars
<1>12. CASE ShowTotal
  BY <1>12 DEF ShowTotal
<1>13. CASE UNCHANGED testVars
  BY <1>13 DEF testVars, vars
<1> QED
  BY <1>1, <1>2, <1>3, <1>4, <1>5, <1>6, <1>7, <1>8, <1>9, <1>10, <1>11, <1>12, <1>13
  DEF TestNext, Next

\* The pages decided on, and the entries that are kept.
Pending == pc \in {"page", "examine", "compare", "done", "shown"}
Decided == IF Pending THEN i - 1 ELSE i
Kept    == IF counter < size THEN counter ELSE size

\* The chunk that is open is the run that ends with page d - 1.
IsOpen(m, d, list, k, from) ==
  /\ Run(m, from - 1, d)
  /\ list[k].start = from
  /\ list[k].RW = IF m[from - 1] = "write" THEN 1 ELSE 0

(***************************************************************************)
(* The list is right, and as long as it has room a chunk is open just when *)
(* the last page decided on can be read.                                   *)
(***************************************************************************)
ListInv ==
  /\ Lists(memory, chunk_list, Kept, Decided)
  /\ counter < size =>
       /\ overrun = {}
       /\ pc # "compare" =>
            /\ this = 1 <=> Seen(memory, Decided - 1) # "none"
            /\ this = 1 => IsOpen(memory, Decided, chunk_list, counter, tmp_start)
       /\ pc = "compare" =>
            /\ this = 1 /\ Seen(memory, i - 1) # "none"
            /\ \/ IsOpen(memory, i - 1, chunk_list, counter, tmp_start)
               \/ /\ Seen(memory, i - 2) = "none"
                  /\ IsOpen(memory, i, chunk_list, counter, tmp_start)

(***************************************************************************)
(* A chunk is closed when its permission changes or the page cannot be     *)
(* read, and goes on otherwise.                                            *)
(***************************************************************************)
LEMMA ListStep == Types /\ ScanInv /\ ListInv /\ [TestNext]_testVars => ListInv'
<1> SUFFICES ASSUME Types, ScanInv, ListInv, [TestNext]_testVars PROVE ListInv'
  OBVIOUS
<1>t. /\ memory \in Memory /\ i \in 0 .. Pages /\ address \in Int /\ tmp_start \in Int
      /\ readable \in {0, 1} /\ writeable \in {0, 1} /\ this \in {0, 1}
      /\ counter \in Nat /\ chunk_list \in [0 .. size - 1 -> Field]
      /\ pc \in Label /\ Pages \in Nat \ {0} /\ size \in Nat
  BY MemAssumption DEF Types
<1>k. Kept \in 0 .. size /\ (counter < size => Kept = counter) /\ (counter >= size => Kept = size)
  BY <1>t DEF Kept
<1>l. Lists(memory, chunk_list, Kept, Decided)
  BY DEF ListInv
\* What neither decides nor changes the list.
<1>e. ASSUME UNCHANGED <<memory, scanVars>>, Decided' = Decided, pc # "compare", pc' # "compare"
      PROVE  ListInv'
  BY <1>e DEF ListInv, scanVars, Kept
<1> USE <1>t DEF Label
<1>1. CASE NextPage
  BY <1>1, <1>e DEF NextPage, Decided, Pending
<1>2. CASE Begin
  <2>1. /\ pc = "examine" /\ readable = 1 /\ this = 0 /\ this' = 1 /\ tmp_start' = i
        /\ chunk_list' = Opened(chunk_list, counter) /\ pc' = "compare"
        /\ i' = i /\ counter' = counter /\ overrun' = overrun /\ memory' = memory
        /\ address = i /\ i < Pages /\ Reads(i - 1)
    BY <1>2 DEF Begin, ScanInv
  <2>2. /\ Kept' = Kept /\ Decided = i - 1 /\ Decided' = i - 1
    BY <2>1 DEF Kept, Decided, Pending
  <2>3. \A n \in 0 .. Kept - 1 : chunk_list'[n] = chunk_list[n]
    BY <1>k, <2>1, OpenedIs
  <2>4. Lists(memory, chunk_list', Kept, i - 1)
    BY <1>l, <2>2, <2>3 DEF Lists
  <2>5. ASSUME counter < size
        PROVE  /\ overrun = {} /\ Seen(memory, i - 1) # "none" /\ Seen(memory, i - 2) = "none"
               /\ IsOpen(memory, i, chunk_list', counter, i)
    <3>1. overrun = {} /\ Seen(memory, i - 2) = "none"
      <4>1. (i - 1) - 1 = i - 2
        OBVIOUS
      <4> QED
        BY <2>1, <2>2, <2>5, <4>1 DEF ListInv
    <3>2. Seen(memory, i - 1) # "none" /\ writeable = (IF Seen(memory, i - 1) = "write" THEN 1 ELSE 0)
      BY <2>1 DEF Reads
    <3>3. i - 1 \in 0 .. Pages - 1 /\ memory[i - 1] = Seen(memory, i - 1)
      BY <3>2 DEF Seen
    <3>4. i - 1 > 0 => memory[i - 2] = "none"
      BY <3>1, <3>3 DEF Seen
    <3>5. (i - 1) - 1 = i - 2
      OBVIOUS
    <3>6. Run(memory, i - 1, i)
      BY <3>2, <3>3, <3>4, <3>5 DEF Run
    <3>7. chunk_list'[counter].start = i /\ chunk_list'[counter].RW = writeable
      BY <2>1, <2>5, OpenedIs
    <3> QED
      BY <3>1, <3>2, <3>3, <3>6, <3>7 DEF IsOpen
  <2> QED
    BY <2>1, <2>2, <2>4, <2>5 DEF ListInv
<1>3. CASE GoOn
  <2>1. /\ pc = "examine" /\ readable = 1 /\ this = 1 /\ pc' = "compare"
        /\ UNCHANGED <<memory, i, this, counter, tmp_start, chunk_list, overrun>>
        /\ Reads(i - 1)
    BY <1>3 DEF GoOn, scanVars, ScanInv
  <2>2. Kept' = Kept /\ Decided = i - 1 /\ Decided' = i - 1
    BY <2>1 DEF Kept, Decided, Pending
  <2>3. Seen(memory, i - 1) # "none"
    BY <2>1 DEF Reads
  <2> QED
    BY <2>1, <2>2, <2>3 DEF ListInv
<1>4. CASE Close
  <2> DEFINE marked == Marked(chunk_list, counter)
  <2>1. /\ pc = "examine" /\ readable = 0 /\ pc' = "probe"
        /\ chunk_list' = IF this = 1 THEN Measured(marked, counter) ELSE marked
        /\ overrun' = IF counter < size THEN overrun ELSE overrun \cup {counter}
        /\ counter' = counter + this /\ this' = 0 /\ i' = i /\ memory' = memory
        /\ address = i /\ i < Pages /\ Reads(i - 1)
    BY <1>4 DEF Close, ScanInv, Marked
  <2>m. /\ marked \in [0 .. size - 1 -> Field]
        /\ \A k \in 0 .. size - 1 : k # counter => marked[k] = chunk_list[k]
        /\ counter < size => /\ marked[counter].start = chunk_list[counter].start
                             /\ marked[counter].RW = -1
    BY MarkedIs
  <2> HIDE DEF marked
  <2>2. /\ Decided = i - 1 /\ Decided' = i /\ Seen(memory, i - 1) = "none"
        /\ i - 1 \in Int /\ (i - 1) + 1 = i /\ (i - 1) - 1 = i - 2 /\ i - 1 <= Pages - 1
    BY <2>1 DEF Decided, Pending, Reads
  <2>3. \A n \in 0 .. Kept - 1 : chunk_list'[n] = chunk_list[n]
    BY <1>k, <2>1, <2>m, MeasuredIs
  <2>4. CASE counter >= size
    <3>1. Kept = size /\ Kept' = size /\ counter' >= size
      BY <1>k, <2>1, <2>4 DEF Kept
    <3>2. Lists(memory, chunk_list', size, i)
      BY <1>l, <2>2, <2>3, <3>1, FullList
    <3> QED
      BY <2>1, <2>2, <3>1, <3>2 DEF ListInv
  <2>5. CASE counter < size /\ this = 0
    <3>1. Kept = counter /\ Kept' = counter /\ counter' = counter
      BY <1>k, <2>1, <2>5 DEF Kept
    <3>2. Seen(memory, i - 2) = "none" /\ overrun = {}
      BY <2>1, <2>2, <2>5 DEF ListInv
    <3>3. Lists(memory, chunk_list', counter, (i - 1) + 1)
      BY <1>k, <1>l, <2>2, <2>3, <3>1, <3>2, SameList
    <3> QED
      BY <2>1, <2>2, <2>5, <3>1, <3>2, <3>3 DEF ListInv
  <2>6. CASE counter < size /\ this = 1
    <3>1. Kept = counter /\ Kept' = counter + 1 /\ counter' = counter + 1
      BY <1>k, <2>1, <2>6 DEF Kept
    <3>2. /\ IsOpen(memory, i - 1, chunk_list, counter, tmp_start) /\ overrun = {}
      BY <2>1, <2>2, <2>6 DEF ListInv
    <3> DEFINE a == tmp_start - 1
    <3>3. /\ Run(memory, a, i - 1) /\ chunk_list[counter].start = a + 1 /\ a \in Int
      BY <3>2 DEF IsOpen
    <3>4. /\ a \in 0 .. i - 2 /\ i - 1 \in 1 .. Pages - 1 /\ memory[i - 2] = memory[a]
          /\ memory[a] # "none"
      BY <2>2, <3>3 DEF Run
    <3>5. memory[i - 1] = "none"
      BY <2>2, <3>4 DEF Seen
    <3>6. /\ chunk_list'[counter].start = a + 1 /\ chunk_list'[counter].RW = -1
          /\ chunk_list'[counter].length = i - tmp_start
      BY <2>1, <2>m, <2>6, <3>3, MeasuredIs
    <3>7. Listed(memory, chunk_list'[counter], <<a, i - 2>>)
      <4>1. i - tmp_start = (i - 2) - a + 1 /\ (i - 2) + 1 = i - 1
        OBVIOUS
      <4> QED
        BY <3>5, <3>6, <4>1 DEF Listed, Code
    <3> HIDE DEF a
    <3>8. Lists(memory, chunk_list', counter + 1, i)
      <4> DEFINE d == i - 1
      <4>1. d \in 1 .. Pages - 1 /\ counter \in 0 .. size - 1 /\ d + 1 = i /\ d - 1 = i - 2
        BY <2>2, <2>6, <3>4
      <4>2. Run(memory, a, d) /\ memory[d] # memory[d - 1]
        BY <2>2, <3>3, <3>4, <3>5, <4>1
      <4>3. Lists(memory, chunk_list, counter, d)
        BY <1>l, <2>2, <3>1
      <4>4. \A n \in 0 .. counter - 1 : chunk_list'[n] = chunk_list[n]
        BY <2>3, <3>1
      <4>5. Listed(memory, chunk_list'[counter], <<a, d - 1>>)
        BY <3>7, <4>1
      <4>6. memory \in Memory
        BY <1>t
      <4> HIDE DEF d
      <4>7. Lists(memory, chunk_list', counter + 1, d + 1)
        BY <4>1, <4>2, <4>3, <4>4, <4>5, <4>6, LongerList
      <4> QED
        BY <4>1, <4>7
    <3> QED
      BY <2>1, <2>2, <3>1, <3>2, <3>8 DEF ListInv
  <2> QED
    BY <2>4, <2>5, <2>6
<1>5. CASE Split
  <2> DEFINE measured == Measured(chunk_list, counter)
  <2>1. /\ pc = "compare" /\ pc' = "probe" /\ counter' = counter + 1 /\ tmp_start' = i
        /\ chunk_list' = Opened(measured, counter + 1)
        /\ overrun' = overrun /\ this' = this /\ i' = i /\ memory' = memory
        /\ address = i /\ i < Pages /\ Reads(i - 1)
        /\ \E rw \in RWAt(counter) : (rw # 0) # (writeable # 0)
    BY <1>5 DEF Split, ScanInv
  <2>m. /\ measured \in [0 .. size - 1 -> Field]
        /\ \A k \in 0 .. size - 1 : k # counter => measured[k] = chunk_list[k]
        /\ counter < size => /\ measured[counter].start = chunk_list[counter].start
                             /\ measured[counter].RW = chunk_list[counter].RW
                             /\ measured[counter].length = i - tmp_start
    BY <2>1, MeasuredIs
  <2> HIDE DEF measured
  <2>o. /\ \A k \in 0 .. size - 1 : k # counter + 1 => chunk_list'[k] = measured[k]
        /\ counter + 1 < size => /\ chunk_list'[counter + 1].start = i
                                 /\ chunk_list'[counter + 1].RW = writeable
    BY <2>1, <2>m, OpenedIs
  <2>2. /\ Decided = i - 1 /\ Decided' = i
        /\ i - 1 \in Int /\ (i - 1) + 1 = i /\ (i - 1) - 1 = i - 2 /\ i - 1 <= Pages - 1
    BY <2>1 DEF Decided, Pending
  <2>3. \A n \in 0 .. Kept - 1 : chunk_list'[n] = chunk_list[n]
    BY <1>k, <2>m, <2>o
  <2>4. CASE counter >= size
    <3>1. Kept = size /\ Kept' = size /\ counter' >= size
      BY <1>k, <2>1, <2>4 DEF Kept
    <3>2. Lists(memory, chunk_list', size, i)
      BY <1>l, <2>2, <2>3, <3>1, FullList
    <3> QED
      BY <2>1, <2>2, <3>1, <3>2 DEF ListInv
  <2>5. CASE counter < size
    <3>1. Kept = counter /\ Kept' = counter + 1 /\ counter + 1 <= size
      BY <1>k, <2>1, <2>5 DEF Kept
    <3>2. /\ overrun = {} /\ this = 1 /\ Seen(memory, i - 1) # "none"
          /\ \/ IsOpen(memory, i - 1, chunk_list, counter, tmp_start)
             \/ /\ Seen(memory, i - 2) = "none"
                /\ IsOpen(memory, i, chunk_list, counter, tmp_start)
      BY <2>1, <2>5 DEF ListInv
    <3> DEFINE a == tmp_start - 1
    <3>3. /\ chunk_list[counter].start = a + 1 /\ a \in Int /\ a \in 0 .. i - 1
          /\ chunk_list[counter].RW = (IF memory[a] = "write" THEN 1 ELSE 0)
          /\ memory[a] # "none"
      BY <3>2 DEF IsOpen, Run
    <3>4. /\ i - 1 \in 0 .. Pages - 1 /\ memory[i - 1] # "none"
          /\ writeable = (IF memory[i - 1] = "write" THEN 1 ELSE 0)
      BY <2>1, <3>2 DEF Seen, Reads
    <3>5. memory[i - 1] # memory[a]
      <4>1. RWAt(counter) = {chunk_list[counter].RW}
        BY <2>5 DEF RWAt
      <4> QED
        BY <2>1, <3>3, <3>4, <4>1
    <3>6. Run(memory, a, i - 1)
      <4>1. ~ Run(memory, a, i)
        BY <3>3, <3>4, <3>5 DEF Run
      <4> QED
        BY <3>2, <4>1 DEF IsOpen
    <3>7. /\ i - 1 \in 1 .. Pages - 1 /\ memory[i - 2] = memory[a]
      BY <2>2, <3>4, <3>6 DEF Run
    <3>8. /\ chunk_list'[counter].start = a + 1
          /\ chunk_list'[counter].RW = (IF memory[a] = "write" THEN 1 ELSE 0)
          /\ chunk_list'[counter].length = i - tmp_start
      BY <2>m, <2>o, <2>5, <3>3
    <3>9. Listed(memory, chunk_list'[counter], <<a, i - 2>>)
      <4>1. i - tmp_start = (i - 2) - a + 1 /\ (i - 2) + 1 = i - 1
        OBVIOUS
      <4> QED
        BY <3>4, <3>8, <4>1 DEF Listed, Code
    <3>10. ASSUME counter + 1 < size PROVE IsOpen(memory, i, chunk_list', counter + 1, i)
      <4>1. chunk_list'[counter + 1].start = i /\ chunk_list'[counter + 1].RW = writeable
        BY <2>o, <3>10
      <4>2. Run(memory, i - 1, i)
        BY <2>2, <3>4, <3>5, <3>7 DEF Run
      <4> QED
        BY <3>4, <4>1, <4>2 DEF IsOpen
    <3> HIDE DEF a
    <3>11. Lists(memory, chunk_list', counter + 1, i)
      <4> DEFINE d == i - 1
      <4>1. d \in 1 .. Pages - 1 /\ counter \in 0 .. size - 1 /\ d + 1 = i /\ d - 1 = i - 2
        BY <2>2, <2>5, <3>7
      <4>2. Run(memory, a, d) /\ memory[d] # memory[d - 1]
        BY <2>2, <3>5, <3>6, <3>7, <4>1
      <4>3. Lists(memory, chunk_list, counter, d)
        BY <1>l, <2>2, <3>1
      <4>4. \A n \in 0 .. counter - 1 : chunk_list'[n] = chunk_list[n]
        BY <2>3, <3>1
      <4>5. Listed(memory, chunk_list'[counter], <<a, d - 1>>)
        BY <3>9, <4>1
      <4>6. memory \in Memory
        BY <1>t
      <4> HIDE DEF d
      <4>7. Lists(memory, chunk_list', counter + 1, d + 1)
        BY <4>1, <4>2, <4>3, <4>4, <4>5, <4>6, LongerList
      <4> QED
        BY <4>1, <4>7
    <3> QED
      BY <2>1, <2>2, <3>1, <3>2, <3>10, <3>11 DEF ListInv
  <2> QED
    BY <2>4, <2>5
<1>6. CASE Same
  <2>1. /\ pc = "compare" /\ pc' = "probe"
        /\ UNCHANGED <<memory, i, this, counter, tmp_start, chunk_list, overrun>>
        /\ i < Pages /\ Reads(i - 1)
        /\ \E rw \in RWAt(counter) : (rw # 0) = (writeable # 0)
    BY <1>6 DEF Same, scanVars, ScanInv
  <2>2. /\ Decided = i - 1 /\ Decided' = i /\ Kept' = Kept
        /\ i - 1 \in Int /\ (i - 1) + 1 = i /\ (i - 1) - 1 = i - 2 /\ i - 1 <= Pages - 1
    BY <2>1 DEF Decided, Pending, Kept
  <2>3. CASE counter >= size
    <3>1. Kept = size
      BY <1>k, <2>3
    <3>2. Lists(memory, chunk_list, size, i)
      BY <1>l, <2>2, <3>1, FullList
    <3> QED
      BY <2>1, <2>2, <2>3, <3>1, <3>2 DEF ListInv
  <2>4. CASE counter < size
    <3>1. /\ overrun = {} /\ this = 1 /\ Seen(memory, i - 1) # "none"
          /\ \/ IsOpen(memory, i - 1, chunk_list, counter, tmp_start)
             \/ /\ Seen(memory, i - 2) = "none"
                /\ IsOpen(memory, i, chunk_list, counter, tmp_start)
      BY <2>1, <2>4 DEF ListInv
    <3> DEFINE a == tmp_start - 1
    <3>2. /\ a \in Int /\ a \in 0 .. i - 1 /\ memory[a] # "none"
          /\ chunk_list[counter].RW = (IF memory[a] = "write" THEN 1 ELSE 0)
      BY <3>1 DEF IsOpen, Run
    <3>3. /\ i - 1 \in 0 .. Pages - 1 /\ memory[i - 1] # "none"
          /\ writeable = (IF memory[i - 1] = "write" THEN 1 ELSE 0)
      BY <2>1, <3>1 DEF Seen, Reads
    <3>4. memory[i - 1] = memory[a]
      <4>1. RWAt(counter) = {chunk_list[counter].RW}
        BY <2>4 DEF RWAt
      <4>2. memory[i - 1] = "write" <=> memory[a] = "write"
        BY <2>1, <3>2, <3>3, <4>1
      <4>3. memory[i - 1] \in Permission /\ memory[a] \in Permission
        BY <3>2, <3>3 DEF Memory
      <4> QED
        BY <3>2, <3>3, <4>2, <4>3 DEF Permission
    <3>5. IsOpen(memory, i, chunk_list, counter, tmp_start)
      <4>1. Run(memory, a, i - 1) => Run(memory, a, i)
        BY <2>2, <3>2, <3>4 DEF Run
      <4> QED
        BY <3>1, <4>1 DEF IsOpen
    <3>6. Seen(memory, i - 2) = "none" \/ memory[i - 1] = memory[i - 2]
      <4>1. CASE Run(memory, a, i - 1)
        <5>1. i - 2 \in a .. i - 2 /\ \A p \in a .. i - 2 : memory[p] = memory[a]
          BY <2>2, <3>2, <4>1 DEF Run
        <5> QED
          BY <3>4, <5>1
      <4>2. CASE Seen(memory, i - 2) = "none"
        BY <4>2
      <4> QED
        BY <3>1, <4>1, <4>2 DEF IsOpen
    <3>7. Lists(memory, chunk_list, Kept, i)
      BY <1>k, <1>l, <2>2, <3>6, SameList
    <3> QED
      BY <2>1, <2>2, <3>1, <3>5, <3>7 DEF ListInv
  <2> QED
    BY <2>3, <2>4
<1>7. CASE Probe
  BY <1>7, <1>e DEF Probe, Decided, Pending
<1>8. CASE signal_handler
  BY <1>8, <1>e DEF signal_handler, Decided, Pending
<1>9. CASE Count
  BY <1>9, <1>e DEF Count, Decided, Pending
<1>10. CASE Return
  BY <1>10, <1>e DEF Return, Decided, Pending
<1>11. CASE Show
  BY <1>11, <1>e DEF Show, vars, scanVars, Decided, Pending
<1>12. CASE ShowTotal
  BY <1>12, <1>e DEF ShowTotal, Decided, Pending
<1>13. CASE UNCHANGED testVars
  BY <1>13 DEF testVars, vars, ListInv, Kept, Decided, Pending
<1> QED
  BY <1>1, <1>2, <1>3, <1>4, <1>5, <1>6, <1>7, <1>8, <1>9, <1>10, <1>11, <1>12, <1>13
  DEF TestNext, Next

\* How an entry of the list is printed.
AsLine(entry) == [start |-> entry.start, length |-> entry.length,
                 RW |-> display_RW(entry.RW)]

Line == [start : Int, length : Int, RW : {"R", "W", "N"}]

(***************************************************************************)
(* What has been shown are the first of the entries that are kept.         *)
(***************************************************************************)
ShownInv ==
  /\ shown \in Seq(Line)
  /\ pc \notin {"done", "shown"} => shown = <<>>
  /\ Len(shown) <= Kept
  /\ \A n \in 1 .. Len(shown) : shown[n] = AsLine(chunk_list[n - 1])
  /\ pc = "shown" => Len(shown) = Kept

(***************************************************************************)
(* Each entry kept is shown once, in the order of the list.                *)
(***************************************************************************)
LEMMA ShownStep == Types /\ ShownInv /\ [TestNext]_testVars => ShownInv'
<1> SUFFICES ASSUME Types, ShownInv, [TestNext]_testVars PROVE ShownInv'
  OBVIOUS
<1>t. counter \in Nat /\ size \in Nat /\ chunk_list \in [0 .. size - 1 -> Field]
  BY MemAssumption DEF Types
<1>k. /\ Kept \in 0 .. size /\ (counter < size => Kept = counter)
      /\ (counter >= size => Kept = size)
  BY <1>t DEF Kept
\* What does not show anything.
<1>e. ASSUME shown' = shown, counter' \in Nat, pc \notin {"done", "shown"},
             pc' # "shown"
      PROVE  ShownInv'
  <2>1. shown = <<>> /\ Len(shown) = 0 /\ shown' \in Seq(Line)
    BY <1>e DEF ShownInv
  <2>2. Kept' \in Nat
    BY <1>t, <1>e DEF Kept
  <2> QED
    BY <1>e, <2>1, <2>2 DEF ShownInv
<1>1. CASE NextPage /\ UNCHANGED shown
  BY <1>1, <1>e, <1>t DEF NextPage, scanVars
<1>2. CASE Begin /\ UNCHANGED shown
  BY <1>2, <1>e, <1>t DEF Begin
<1>3. CASE GoOn /\ UNCHANGED shown
  BY <1>3, <1>e, <1>t DEF GoOn, scanVars
<1>4. CASE Close /\ UNCHANGED shown
  <2>1. counter' \in Nat
    BY <1>4, <1>t DEF Close, Types
  <2> QED
    BY <1>4, <1>e, <2>1 DEF Close
<1>5. CASE Split /\ UNCHANGED shown
  BY <1>5, <1>e, <1>t DEF Split
<1>6. CASE Same /\ UNCHANGED shown
  BY <1>6, <1>e, <1>t DEF Same, scanVars
<1>7. CASE Probe /\ UNCHANGED shown
  <2>1. pc = "probe" /\ pc' \in {"count", "killed", "handler"} /\ counter' = counter
    BY <1>7 DEF Probe, scanVars
  <2> QED
    BY <1>7, <1>e, <1>t, <2>1
<1>8. CASE signal_handler /\ UNCHANGED shown
  BY <1>8, <1>e, <1>t DEF signal_handler, scanVars
<1>9. CASE Count /\ UNCHANGED shown
  BY <1>9, <1>e, <1>t DEF Count, scanVars
<1>10. CASE Return /\ UNCHANGED shown
  BY <1>10, <1>e, <1>t DEF Return, scanVars
<1>11. CASE Show
  <2> DEFINE l == AsLine(chunk_list[Len(shown)])
  <2>1. /\ pc = "done" /\ Len(shown) < counter /\ Len(shown) < size
        /\ shown' = Append(shown, l)
        /\ UNCHANGED <<counter, chunk_list, pc>>
    BY <1>11 DEF Show, vars, AsLine
  <2>2. Len(shown) \in Nat /\ shown \in Seq(Line)
    BY DEF ShownInv
  <2>3. l \in Line
    <3>1. chunk_list[Len(shown)] \in Field
      BY <1>t, <2>1, <2>2
    <3> QED
      BY <3>1 DEF AsLine, Line, Field, display_RW
  <2> HIDE DEF l
  <2>4. /\ shown' \in Seq(Line) /\ Len(shown') = Len(shown) + 1
        /\ \A n \in 1 .. Len(shown) : shown'[n] = shown[n]
        /\ shown'[Len(shown) + 1] = l
    BY <2>1, <2>2, <2>3
  <2>5. Len(shown') <= Kept' /\ Kept' = Kept
    BY <1>t, <2>1, <2>2, <2>4 DEF Kept
  <2>6. \A n \in 1 .. Len(shown') : shown'[n] = AsLine(chunk_list'[n - 1])
    <3> TAKE n \in 1 .. Len(shown')
    <3>1. CASE n \in 1 .. Len(shown)
      BY <2>1, <2>4, <3>1 DEF ShownInv
    <3>2. CASE n = Len(shown) + 1
      <4>1. n - 1 = Len(shown)
        BY <2>2, <3>2
      <4> QED
        BY <2>1, <2>4, <3>2, <4>1 DEF l
    <3> QED
      BY <2>2, <2>4, <3>1, <3>2
  <2> QED
    BY <2>1, <2>4, <2>5, <2>6 DEF ShownInv
<1>12. CASE ShowTotal
  <2>1. /\ pc = "done" /\ pc' = "shown" /\ UNCHANGED <<counter, chunk_list, shown>>
        /\ Len(shown) >= counter \/ Len(shown) >= size
    BY <1>12 DEF ShowTotal, scanVars
  <2>2. Kept' = Kept
    BY <2>1 DEF Kept
  <2>3. Len(shown) \in Nat /\ Len(shown) <= Kept
    BY DEF ShownInv
  <2>4. Len(shown) = Kept
    BY <1>t, <1>k, <2>1, <2>3
  <2> QED
    BY <2>1, <2>2, <2>4 DEF ShownInv
<1>13. CASE UNCHANGED testVars
  BY <1>13 DEF testVars, vars, ShownInv, Kept
<1> QED
  BY <1>1, <1>2, <1>3, <1>4, <1>5, <1>6, <1>7, <1>8, <1>9, <1>10, <1>11, <1>12, <1>13
  DEF TestNext, Next

MemInv == Types /\ ScanInv /\ ListInv /\ ShownInv

(***************************************************************************)
(* It all holds in every state.                                            *)
(***************************************************************************)
LEMMA Inductive == TestSpec => []MemInv
<1>1. TestInit => MemInv
  <2> SUFFICES ASSUME TestInit PROVE MemInv
    OBVIOUS
  <2>a. /\ memory \in Memory /\ i = 0 /\ address = 0 /\ readable = 0 /\ writeable = 0
        /\ this = 0 /\ counter = 0 /\ tmp_start = 0 /\ overrun = {} /\ blocked = FALSE
        /\ pc = "page" /\ shown = <<>>
        /\ chunk_list = [n \in 0 .. size - 1 |-> [start |-> -1, length |-> 0, RW |-> 0]]
    BY DEF TestInit, Init, Memory
  <2>1. Types
    <3>1. chunk_list \in [0 .. size - 1 -> Field]
      BY <2>a DEF Field
    <3>2. i \in 0 .. Pages /\ pc \in Label
      BY <2>a, MemAssumption DEF Label
    <3>3. blocked \in BOOLEAN
      <4>1. blocked = FALSE
        BY <2>a
      <4> QED
        BY <4>1, Zenon
    <3> QED
      BY <2>a, <3>1, <3>2, <3>3 DEF Types
  <2>2. ScanInv
    <3>1. Seen(memory, 0 - 1) = "none"
      BY DEF Seen
    <3> QED
      BY <2>a, <3>1 DEF ScanInv, Reads
  <2>3. Kept = 0 /\ Decided = -1
    BY <2>a, MemAssumption DEF Kept, Decided, Pending
  <2>4. ListInv
    <3>1. Closed(memory, -1) = {}
      BY DEF Closed, Stretches
    <3>2. Lists(memory, chunk_list, 0, -1)
      BY <3>1 DEF Lists
    <3>3. Seen(memory, -1 - 1) = "none"
      BY DEF Seen
    <3> QED
      BY <2>a, <2>3, <3>2, <3>3 DEF ListInv
  <2>5. ShownInv
    <3>1. shown \in Seq(Line) /\ Len(shown) = 0
      BY <2>a
    <3> QED
      BY <2>a, <2>3, <3>1 DEF ShownInv
  <2> QED
    BY <2>1, <2>2, <2>4, <2>5 DEF MemInv
<1>2. MemInv /\ [TestNext]_testVars => MemInv'
  BY TypesStep, ScanStep, ListStep, ShownStep DEF MemInv
<1> QED
  BY <1>1, <1>2, PTL DEF TestSpec

(***************************************************************************)
(* What testmem prints are the stretches of memory, in order, all of them  *)
(* or those that come first, for any number of pages, any layout and a     *)
(* list of any size. (get_mem_layout, memchunk.c:49)                       *)
(***************************************************************************)
THEOREM StretchesShown == TestSpec => []ShowsStretches
<1>1. MemInv => ShowsStretches
  <2> SUFFICES ASSUME MemInv, pc = "shown" PROVE ShowsStretches
    BY DEF ShowsStretches
  <2>1. /\ i = Pages /\ Decided = Pages - 1 /\ Len(shown) = Kept /\ shown \in Seq(Line)
        /\ DOMAIN shown = 1 .. Kept /\ counter \in Nat /\ size \in Nat /\ memory \in Memory
        /\ Pages \in Nat \ {0}
    BY MemAssumption DEF MemInv, Types, ScanInv, ShownInv, Decided, Pending
  <2>2. Lists(memory, chunk_list, Kept, Pages - 1)
    BY <2>1 DEF MemInv, ListInv
  <2>3. Noticed = Closed(memory, Pages - 1)
    BY <2>1 DEF Noticed, Closed
  <2>4. /\ Kept \in 0 .. size /\ (Kept < size => counter = Kept /\ overrun = {})
        /\ (Kept >= size => Kept = size /\ counter >= size)
    BY <2>1 DEF Kept, MemInv, ListInv
  <2>5. ASSUME NEW n \in 1 .. Kept, NEW s \in Noticed, Listed(memory, chunk_list[n - 1], s)
        PROVE  shown[n] = Shows(s)
    <3>1. shown[n] = AsLine(chunk_list[n - 1])
      BY <2>1, <2>5 DEF MemInv, ShownInv
    <3>2. display_RW(Code(memory, s)) = IF memory[s[2] + 1] = "none" THEN "N"
                                        ELSE IF memory[s[1]] = "write" THEN "W" ELSE "R"
      BY DEF display_RW, Code
    <3> QED
      BY <2>5, <3>1, <3>2 DEF AsLine, Listed, Shows
  <2>6. ASSUME NEW n \in 1 .. Kept
        PROVE  n - 1 \in 0 .. Kept - 1 /\ shown[n].start = chunk_list[n - 1].start
    BY <2>1, <2>4 DEF MemInv, ShownInv, AsLine
  <2>7. \A n \in 1 .. Kept : \E s \in Noticed : shown[n] = Shows(s)
    BY <2>2, <2>3, <2>5, <2>6 DEF Lists
  <2>8. \A m, n \in 1 .. Kept : m < n => shown[m].start < shown[n].start
    <3> SUFFICES ASSUME NEW m \in 1 .. Kept, NEW n \in 1 .. Kept, m < n
                 PROVE  shown[m].start < shown[n].start
      OBVIOUS
    <3>1. m - 1 \in 0 .. Kept - 1 /\ n - 1 \in 0 .. Kept - 1 /\ m - 1 < n - 1
      BY <2>6
    <3> QED
      BY <2>2, <2>6, <3>1 DEF Lists
  <2>9. ASSUME NEW s \in Noticed
        PROVE  \/ \E n \in 1 .. Kept : shown[n] = Shows(s)
               \/ Kept = size /\ \A n \in 1 .. Kept : shown[n].start <= s[1]
    <3>1. CASE \E n \in 0 .. Kept - 1 : Listed(memory, chunk_list[n], s)
      <4>1. PICK n \in 0 .. Kept - 1 : Listed(memory, chunk_list[n], s)
        BY <3>1
      <4>2. n + 1 \in 1 .. Kept /\ (n + 1) - 1 = n
        BY <2>4
      <4>3. shown[n + 1] = Shows(s)
        BY <2>5, <4>1, <4>2
      <4> QED
        BY <4>2, <4>3
    <3>2. CASE Kept = size /\ \A n \in 0 .. Kept - 1 : chunk_list[n].start <= s[1]
      BY <2>6, <3>2
    <3> QED
      BY <2>2, <2>3, <2>9, <3>1, <3>2 DEF Lists
  <2>10. IF Kept < size THEN counter = Kept /\ overrun = {}
                        ELSE Kept = size /\ counter >= size
    BY <2>1, <2>4
  <2>11. DOMAIN shown = 1 .. Kept /\ Len(shown) = Kept
    BY <2>1
  <2> HIDE DEF MemInv
  <2> QED
    BY <2>7, <2>8, <2>9, <2>10, <2>11, Zenon DEF ShowsStretches
<1> QED
  BY <1>1, Inductive, PTL

(***************************************************************************)
(* No fault kills the program, however many pages in a row cannot be       *)
(* touched: siglongjmp has restored the mask before the next.              *)
(* (signal_handler, memchunk.c:22)                                         *)
(***************************************************************************)
THEOREM FaultsAreCaught == TestSpec => [](pc # "killed" /\ (blocked => pc = "handler"))
<1>1. MemInv => pc # "killed" /\ (blocked => pc = "handler")
  BY DEF MemInv, ScanInv
<1> QED
  BY <1>1, Inductive, PTL
=============================================================================
