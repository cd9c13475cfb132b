---------------------------- MODULE MCFileSystem ----------------------------
(***************************************************************************)
(* FileSystem with names that may be exchanged: no operation distinguishes *)
(* them (the one that Nowhere chooses is never looked at).                 *)
(***************************************************************************)
EXTENDS FileSystem, TLC

NameSymmetry == Permutations(Name)
=============================================================================
