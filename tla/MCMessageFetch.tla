--------------------------- MODULE MCMessageFetch ---------------------------
(* A small instance of MessageFetch for TLC: two messages of one folder and *)
(* one of another account that happens to have the id of the first.         *)
EXTENDS MessageFetch, TLC

CONSTANTS m1, m2, m3, inbox, other, a1, a2

MCFolderOf == m1 :> inbox @@ m2 :> inbox @@ m3 :> other
MCIdOf == m1 :> 1 @@ m2 :> 2 @@ m3 :> 1
MCAccountOf == m1 :> a1 @@ m2 :> a1 @@ m3 :> a2
=============================================================================
