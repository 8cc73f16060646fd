---------------------------- MODULE MCEditServer ----------------------------
(***************************************************************************)
(* Bounds for EditServer: one file, two ids against a table of one so that *)
(* the second preview evicts the first, an expiry, one outside change and  *)
(* one crash.  Other ClipFit processes are left to MCFileStore.  Contents  *)
(* and ids are interchangeable, and no liveness is checked.                *)
(***************************************************************************)
EXTENDS EditServer, TLC

MCBodies == [t : Targets, base : Data, out : Contents]

Symmetry == Permutations(Contents) \union Permutations(Ids)
=============================================================================
