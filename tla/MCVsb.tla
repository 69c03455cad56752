------------------------------- MODULE MCVsb --------------------------------
(***************************************************************************)
(* Vsb for TLC: lengths on both sides of the first sizes and of a page.    *)
(***************************************************************************)
EXTENDS Vsb
MCLengths == {0, 1, 15, 17, 2047, 4081}
MCStrings == {<<>>, <<"octal", "escaped">>, <<"graph", "octal", "octal">>}
=============================================================================
