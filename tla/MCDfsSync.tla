------------------------------ MODULE MCDfsSync ------------------------------
(***************************************************************************)
(* A small instance of DfsSync for TLC: one file, and                      *)
(*   - one client with any files at first, whose user creates and removes, *)
(*     or with equal folders, whose user modifies twice; the server is     *)
(*     stopped once and started again;                                     *)
(*   - two clients with equal folders, the user of one modifies once, to   *)
(*     the longer of the two contents.                                     *)
(***************************************************************************)
EXTENDS DfsSync

CONSTANTS A, B

MCVersions == {<<"a1">>, <<"b1", "b2">>}

Long == {<<"b1", "b2">>}

Scenario(mounted, equal, saved, create, modify, remove, restart) ==
    [mounted |-> mounted, users |-> {A}, equal |-> equal, saved |-> saved,
     create |-> create, modify |-> modify, remove |-> remove, restart |-> restart]

MCScenarios == {Scenario({A}, FALSE, MCVersions, 1, 0, 1, 1),
                Scenario({A}, TRUE, MCVersions, 0, 2, 0, 1),
                Scenario({A, B}, TRUE, Long, 0, 1, 0, 0)}

\* A user creates one file and removes none.
OneCreation == {Scenario({A}, TRUE, Long, 1, 0, 0, 0)}
=============================================================================
