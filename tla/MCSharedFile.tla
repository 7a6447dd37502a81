---------------------------- MODULE MCSharedFile ----------------------------
(* Two editors, alike.  A behaviour is followed up to its first accident.  *)
EXTENDS SharedFile, TLC
CONSTANTS e1, e2
TwoEditors == {e1, e2}
Alike == Permutations(TwoEditors)
UpToAnAccident == ~raced
=============================================================================
