--------------------------- MODULE MCFileService ---------------------------
(* Instances of FileService for TLC. *)
EXTENDS FileService

Sessions2 == 1 .. 2
Kids2 == 1 .. 2

\* A file of two datagrams, a missing one and a directory.
FileA == {"a", "missing", "dir"}
PiecesA == [f \in FileA |-> IF f = "a" THEN 2 ELSE 0]
UnreadableA == {"dir"}

\* The three kinds of lines differ in length.
LineLenA == [f \in FileA |-> [flag \in 0 .. 2 |-> <<3, 1, 2>>[flag + 1]]]
=============================================================================
