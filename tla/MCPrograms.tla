------------------------------ MODULE MCPrograms ------------------------------
(***************************************************************************)
(* Small instances of the programs for TLC: the values of the constants.   *)
(***************************************************************************)
EXTENDS Programs

C == INSTANCE CrcCatalogue

UpTo(n, set) == UNION {[1 .. k -> set] : k \in 0 .. n}

Digits == <<49, 50, 51, 52, 53, 54, 55, 56, 57>>       \* "123456789"

\* Lists of up to four lines, all with an end of line or all but the last.
KeyLists == UpTo(4, {1, 3, 5})
MCLists ==
    {[i \in DOMAIN keys |-> [key |-> keys[i], opens |-> opens, eol |-> i < Len(keys) \/ eol]] :
        keys \in KeyLists, opens \in {"whole", "short"}, eol \in BOOLEAN}

\* Lines of up to five characters for a buffer of three.
MCTexts == {<< >>, <<"a">>, <<"a", "n">>, <<"a", "b", "n">>, <<"a", "b", "c", "n">>,
            <<"a", "b", "c", "d", "n", "e">>, <<"n", "a">>, <<"n", "n">>, <<"a", "b", "c", "d">>}

MCAddressLists == {<< >>, <<"no socket", "free">>, <<"in use", "free">>, <<"in use", "in use">>}
Unset          == {<<"no option", "free">>}

\* Requests as the protocol has them, and others: without blanks or with more of
\* them, without a path, with another first word or method, without an end.
Start == <<"GETFILE", " ", "GET", " ", "/">>
End   == <<"\r\n", "\r\n">>
MCRequests ==
    {Start \o <<"a">> \o End, Start \o <<"a", "b">> \o End, Start \o <<"a", " ">> \o End,
     Start \o End, Start \o End \o <<"a", "b">>, Start \o <<"a", "\r\n", "b">>, End,
     <<"GETFILE", "GET", "/", "a">> \o End, <<" ">> \o Start \o <<"a">> \o End,
     <<"GETFILE", " ", " ", "GET", "\r\n", "/", " ", "a", " ", "b">> \o End \o <<"c">>,
     <<"GETFILE", " ", "/", "a">> \o End, <<"GET", " ", "GET", " ", "/", "a">> \o End}

\* One or two of the paths /a, /a/b, /a-000000 and /a-000000/b, or none.
MCWorkloads == UpTo(2, {<<<<"a">>>>, <<<<"a">>, <<"b">>>>, <<<<"a", 0>>>>, <<<<"a", 0>>, <<"b">>>>})
MCNoList    == <<<<<<"no list">>>>>>
MCDisks     == {<< >>, [p \in {<<<<"a", 0>>>>} |-> [of |-> << >>, part |-> "whole"]],
                [p \in {<<<<"a", 0>>>>} |-> [of |-> << >>, part |-> "directory"]]}
-----------------------------------------------------------------------------
(* The constants that a .cfg cannot write down.                             *)

MCParameterSets == C!Catalogue
MCMessages      == {Digits, <<0, 255, 97>>}
MCContents      == UpTo(5, {97, 98})
MCVersions      == {<< >>, <<"a1">>, <<"b1", "b2">>}
MCEchoMessages  == {<< >>, <<"a">>, <<"b", "c">>, <<"d", "e", "f">>}
MCEchoAddresses == MCAddressLists \cup Unset
=============================================================================
