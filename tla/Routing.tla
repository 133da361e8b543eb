------------------------------ MODULE Routing ------------------------------
(***************************************************************************)
(* The address arithmetic of Asn2a/router.c, for octets of any width: with *)
(* Octet = 8 it is the code's, with 7 the numbers fit in TLC's integers.   *)
(* Nothing here has state.                                                 *)
(***************************************************************************)
EXTENDS Integers

CONSTANT Octet  \* bits to an octet, 8 in the code; at least 1

Width == 4 * Octet
Address == [1 .. 4 -> 0 .. 2^Octet - 1]

\* 2^n, as a recursion: the provers know nothing of ^.
Pow2[n \in Nat] == IF n = 0 THEN 1 ELSE 2 * Pow2[n - 1]

\* The four octets next to each other, an unsigned number of Width bits.
IPtoDec(ip) ==
  (ip[1] * Pow2[3 * Octet] + ip[2] * Pow2[2 * Octet] + ip[3] * Pow2[Octet] + ip[4])
    % Pow2[Width]

\* x >> shift
ShiftRight(x, shift) == x \div Pow2[shift]

\* The results of comparing two addresses after a shift.  A shift by less
\* than 0 is undefined: either result.
Compared(ip, table, shift) ==
  IF shift < 0 THEN BOOLEAN
  ELSE {ShiftRight(IPtoDec(ip), shift) = ShiftRight(IPtoDec(table.IP_addr), shift)}

\* Faulty: shifts by the length of the prefix.
Ip_maskingShift(ip, table) == Compared(ip, table, table.prefix_length)

\* Does the address match the table entry: 31 - prefix_length leaves one bit
\* more than the prefix has.
Ip_masking(ip, table) == Compared(ip, table, Width - 1 - table.prefix_length)

\* The scan of Make_Decision: the first of the entries 0, 1, 2 that matches,
\* or 3.  The look at entry 3, beyond the table, has no effect.
FirstMatch(matches) ==
  CHOOSE ri \in 0 .. 3 : /\ ri < 3 => ri \in matches
                         /\ \A n \in 0 .. ri - 1 : n \notin matches
=============================================================================
