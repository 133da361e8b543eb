------------------------------ MODULE MCBanker ------------------------------
(***************************************************************************)
(* The instances of Banker and of its refinement that TLC checks.          *)
(***************************************************************************)
EXTENDS BankerPool

Units0to2 == 0 .. 2
Units01 == {0, 1}
Units02 == {0, 2}
=============================================================================
