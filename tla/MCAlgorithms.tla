---------------------------- MODULE MCAlgorithms ----------------------------
(***************************************************************************)
(* The parts that run alone, from a call to its end, for TLC:              *)
(* safety_Checker, the chunk loop of the file server and testmem's scan of *)
(* the memory.  They share nothing, so each behaviour is one of part, and  *)
(* the variables of the others rest at a fixed value.                      *)
(***************************************************************************)
EXTENDS SafetyChecker, SendFile, TestMem

VARIABLE part

partsVars == <<part, checkerVars, sendVars, testVars>>

\* The parts that rest have one initial state each.
CheckerRests == /\ allocation = [p \in Proc |-> [r \in Res |-> 0]]
                /\ Need = [p \in Proc |-> [r \in Res |-> 0]]
                /\ current_Avail = [r \in Res |-> 0]
ChunksRest == ifp = <<>> /\ canRead = TRUE
ScanRests  == memory = [p \in 0 .. Pages - 1 |-> "none"]

PartsInit ==
  /\ \/ part = "checker" /\ ChunksRest /\ ScanRests
     \/ part = "chunks" /\ CheckerRests /\ ScanRests
     \/ part = "scan" /\ CheckerRests /\ ChunksRest
  /\ CheckerInit /\ SendInit /\ TestInit

\* Only the variables of the part p may change.
Only(p) ==
  /\ part = p /\ UNCHANGED part
  /\ p # "checker" => UNCHANGED checkerVars
  /\ p # "chunks" => UNCHANGED sendVars
  /\ p # "scan" => UNCHANGED testVars

PartsNext == \/ CheckerNext /\ Only("checker")
             \/ SendNext /\ Only("chunks")
             \/ TestNext /\ Only("scan")

\* Each part keeps running; sendto need not ever fail.
PartsSpec ==
  /\ PartsInit /\ [][PartsNext]_partsVars
  /\ WF_partsVars(CheckerNext /\ Only("checker"))
  /\ WF_partsVars(Work /\ Only("chunks"))
  /\ WF_partsVars(TestNext /\ Only("scan"))
-----------------------------------------------------------------------------
Units0to1 == 0 .. 1

(***************************************************************************)
(* safety_Checker always comes to its return, also when no process can     *)
(* run.  (while (checked != 0), Banker.c:371)                              *)
(***************************************************************************)
CheckerReturns == part = "checker" ~> checkerPc = "done"

(***************************************************************************)
(* The chunk loop ends for every file that can be read, also when it ends  *)
(* with a full chunk and the end-of-file flag is not set yet.              *)
(* (while (!feof), file_server.c:178)                                      *)
(***************************************************************************)
LoopEnds == part = "chunks" /\ canRead ~> sendPc = "exit"

(***************************************************************************)
(* However many pages cannot be touched one after the other, the scan      *)
(* comes to its end, and so does the program.  (siglongjmp, memchunk.c:23) *)
(***************************************************************************)
ScanReturns == part = "scan" ~> pc = "shown"

(***************************************************************************)
(* "Initialize the address. Then we need to check if it is readable"       *)
(* (memchunk.c:77): the page a chunk begins with may be read.              *)
(***************************************************************************)
StartsReadable ==
  pc = "compare" /\ counter < size => memory[chunk_list[counter].start] # "none"
=============================================================================
