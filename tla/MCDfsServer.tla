----------------------------- MODULE MCDfsServer -----------------------------
(***************************************************************************)
(* A small instance of DfsServer for TLC.                                  *)
(***************************************************************************)
EXTENDS DfsServer, TLC

\* Two blocks, one other block, and the empty file.
MCVersions == {<<"a1", "a2">>, <<"b1">>, << >>}

CallSymmetry == Permutations(Clients) \cup Permutations(Threads)
=============================================================================
