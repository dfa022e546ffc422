----------------------------- MODULE MCEconomy ------------------------------
(* The characters of Economy for TLC. *)
EXTENDS Economy

CONSTANTS alice, bob, carol, sword

Amounts == {<<1, 1>>}

\* Behaviours are followed until a statement overtakes another, and no further
\* where a trade is open while there are two mails or a deleted one, or where
\* expired mails are looked for during a trade, an auction or the count query of
\* a new mail.
Followed ==
  /\ ~overtaken
  /\ (\E p \in Player : Trading(p)) =>
       Cardinality(UsedIds) <= 1 /\ job = NoJob /\ \A p \in Player : deleted[p] = {}
  /\ job # NoJob => Auctioned = {} /\ \A p \in Player : request[p] = None
=============================================================================
