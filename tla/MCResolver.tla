----------------------------- MODULE MCResolver -----------------------------
(***************************************************************************)
(* The resolver in the worlds of MCWorld.                                  *)
(***************************************************************************)
EXTENDS ResolverProperties, MCWorld
=============================================================================
