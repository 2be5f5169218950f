------------------------------- MODULE MCConf -------------------------------
(***************************************************************************)
(* Configurations for model checking WoxConf: the second version is        *)
(* shorter than the first.                                                 *)
(***************************************************************************)
EXTENDS WoxConf

MCSize == <<2, 1>>
=============================================================================
