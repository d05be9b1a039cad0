------------------------------- MODULE MCShims -------------------------------
(***************************************************************************)
(* Small instances of the shims for TLC.                                   *)
(***************************************************************************)
EXTENDS Shims

OneText == {"letter"}
Dirs == {<<"assets", "x">>, <<"savedata", "y">>, <<"assets", "y">>}
ThreeNames == {<<"x">>, <<"assets", "x">>, <<"z">>}
=============================================================================
