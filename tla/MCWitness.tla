----------------------------- MODULE MCWitness -----------------------------
(***************************************************************************)
(* The worlds of MCResolver, for the resolver with its history.            *)
(***************************************************************************)
EXTENDS MCResolver, ResolverWitness
=============================================================================
