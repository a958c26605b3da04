----------------------------- MODULE MCRouting -----------------------------
(***************************************************************************)
(* Names and list entries for TLC.                                         *)
(***************************************************************************)
EXTENDS Routing

MCNames == {<<"www", "google", "com">>, <<"google", "com">>,
            <<"a", "b", "google", "com">>}
MCLists == {<<"google", "com">>, <<"notgoogle", "com">>}
MCEndsIn == {<<"notgoogle", "google">>}
=============================================================================
