------------------------------ MODULE MCVolume ------------------------------
(* Instances of Volume for TLC: two directories that may be files, too.    *)
EXTENDS Volume, TLC

MCPath == {<<"d">>, <<"d", "x">>, <<"d", "y">>, <<"e">>, <<"e", "x">>, <<"e", "y">>}
MCDirPath == {<<"e">>, <<"e", "x">>}
MCSmall == {<<"d">>, <<"d", "x">>, <<"e">>, <<"e", "x">>}
Symmetry == Permutations(Doc) \cup Permutations(Slot)
=============================================================================
