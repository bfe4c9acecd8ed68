---------------------------- MODULE MCFolderSync ----------------------------
(* Small instances of FolderSync for TLC. *)
EXTENDS FolderSync, TLC

CONSTANTS f1, f2, f3, n1, n2

Permuted == Permutations(Folder) \cup Permutations(Name)
=============================================================================
