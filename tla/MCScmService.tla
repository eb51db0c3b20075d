---------------------------- MODULE MCScmService ----------------------------
(* Instances of ScmService for TLC: see the configurations MCScmService*.cfg. *)
EXTENDS ScmService
=============================================================================
