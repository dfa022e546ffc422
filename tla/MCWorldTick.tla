---------------------------- MODULE MCWorldTick -----------------------------
(* Maps and players of WorldTick for TLC. *)
EXTENDS WorldTick

CONSTANTS alice, north, south, crypt

\* Two parts of one continent and a dungeon.
Ids == [m \in Map |-> IF m \in Continent THEN 0 ELSE 1]
=============================================================================
