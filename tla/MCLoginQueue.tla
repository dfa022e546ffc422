---------------------------- MODULE MCLoginQueue ----------------------------
(***************************************************************************)
(* Instances of LoginQueue for TLC.                                        *)
(***************************************************************************)
EXTENDS LoginQueue, TLC

CONSTANTS alice, bob, carol, dave

\* Everybody in one region, everybody equal; one address for all.
OneRegion == [x \in Account |-> 0]
Equal == [x \in Account |-> 0]
OneAddress == [x \in Account |-> 0]

\* Two accounts of the other region; one account of higher priority.
TwoRegions == [x \in Account |-> IF x \in {carol, dave} THEN 1 ELSE 0]
Unequal == [x \in Account |-> IF x = bob THEN 2 ELSE 1]

\* No limit per region beyond the hard limit.
NoQuota == [r \in {0, 1} |-> HardLimit]

AccountSymmetry == Permutations(Account)
=============================================================================
