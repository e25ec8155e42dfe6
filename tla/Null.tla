-------------------------------- MODULE Null --------------------------------
(***************************************************************************)
(* The null pointer, a constant that components which are used together     *)
(* have in common.                                                          *)
(***************************************************************************)
CONSTANT NULL
=============================================================================
