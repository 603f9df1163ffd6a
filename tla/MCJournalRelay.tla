---------------------------- MODULE MCJournalRelay ----------------------------
(* Small instances of the journal: collars whose files have two slots.         *)
EXTENDS JournalRelay, TLC

CONSTANTS c1, c2

CollarSymmetry == Permutations(Collars)
===============================================================================
