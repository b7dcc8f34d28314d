--------------------------- MODULE MCPetersonTest ---------------------------
(***************************************************************************)
(* Small instances of PetersonTest for TLC.                                *)
(***************************************************************************)
EXTENDS PetersonTest

MCProcs   == Progs \X {0, 1}
FirstProg == {1} \X {0, 1}
=============================================================================
