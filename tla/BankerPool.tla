----------------------------- MODULE BankerPool -----------------------------
(***************************************************************************)
(* The simulation of Assignment3/Banker.c as a ResourcePool: where each    *)
(* variable of the abstract pool is found in the program.                  *)
(***************************************************************************)
EXTENDS Banker

Pool == INSTANCE ResourcePool WITH
          Client <- Proc, Type <- Res, Amount <- Units,
          capacity <- Availres, claim <- processes,
          held <- allocation, wanted <- request_Table, free <- current_Avail

(***************************************************************************)
(* Every step of main is a step of the pool or changes nothing the pool    *)
(* knows of: requests are served in full or not at all, and only a process *)
(* without an open request asks or gives back.  (main, Banker.c:102)       *)
(***************************************************************************)
ImplementsResourcePool == Pool!Spec
=============================================================================
