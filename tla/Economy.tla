------------------------------ MODULE Economy -------------------------------
(***************************************************************************)
(* What players own, and the three ways in which it changes hands: Mail,   *)
(* AuctionHouse and Trade.  The world thread handles one packet, one query *)
(* callback or one expired auction at a time; the workers of the database  *)
(* execute statements in between.                                          *)
(***************************************************************************)
EXTENDS AuctionHouse, Trade

CONSTANT StartGold  \* what every player has at first

ASSUME EconomyAssumption == StartGold \in Nat

vars == <<mailVars, house, trade>>

Init ==
  /\ MailInit /\ AuctionInit /\ TradeInit
  /\ gold = [p \in Player |-> StartGold]

\* LogoutPlayer(): the trade is cancelled, the mailbox saved.
Logout(p) ==
  /\ LogoutMail(p)
  /\ trade' = Cancelled(p)
  /\ UNCHANGED house

Next ==
  \/ MailNext /\ UNCHANGED <<house, trade>>
  \/ AuctionNext /\ UNCHANGED trade
  \/ \E p \in Player :
       \/ MailStep(p) /\ UNCHANGED <<house, trade>>
       \/ AuctionStep(p) /\ UNCHANGED trade
       \/ TradeStep(p) /\ UNCHANGED house
       \/ Logout(p)

Spec == Init /\ [][Next]_vars

----------------------------------------------------------------------------
\* The mails of those who are online, and what the table holds besides.
Mails ==
  LET held == UNION {inbox[p] : p \in Player}
      ids == IdsOf(held)
  IN held \cup {m \in Settled : m.id \notin ids}

\* Types, and the trades are between two players who are online.
TypeOK ==
  /\ gold \in [Player -> Int] /\ bag \in [Player -> SUBSET Item]
  /\ login \in [Player -> {"out", "read", "in"}]
  /\ \A p \in Player : deleted[p] \subseteq IdsOf(inbox[p])
  /\ \A p \in Player : Trading(p) =>
       Online(p) /\ trade[trade[p].with].with = p /\ trade[p].with # p

\* A place an item can be in: a bag, an auction, a mail, or nowhere any more.
Places(i, mails) ==
  {<<"bag", p>> : p \in {q \in Player : i \in bag[q]}}
    \cup {<<"mail", m.id>> : m \in {n \in mails : n.item = i}}
    \cup (IF i \in Auctioned THEN {<<"house", 0>>} ELSE {})
    \cup (IF i \in lost THEN {<<"lost", 0>>} ELSE {})

\* However packets, callbacks, saves, logins and expiry interleave, an item is in
\* exactly one place, as long as no statement overtook another.
ItemOnce ==
  /\ TypeOK
  /\ ~overtaken => LET mails == Mails IN \A i \in Item : Cardinality(Places(i, mails)) = 1

\* Money in the game: purses, mails, bids and deposits, and what the code takes.
Money ==
  SumFunction(gold) + MoneyIn(Mails)
    + SumFunction([i \in Auctioned |-> house[i].bid + house[i].deposit]) + sunk

\* Money is neither made nor does it vanish unaccounted for, and nobody has debts.
MoneyConserved ==
  ~overtaken => Money = StartGold * Cardinality(Player) /\ \A p \in Player : gold[p] >= 0

\* A mail that a step sends to p, with at least so much money or with that item.
Sends(p, money, item) ==
  \E m \in Mails' : m.id \notin IdsOf(Mails) /\ m.to = p /\ (m.money >= money \/ m.item = item)

Unbid(i) == house'[i] = NoAuction \/ house'[i].bidder # house[i].bidder

\* Who bids gets the bid back or the item, whatever ends the bid; who auctions gets
\* the price less the cut or the item, whatever ends the auction.  Only hardcore
\* characters go without.
AuctionServes ==
  [][\A i \in Auctioned :
       LET a == house[i]
       IN /\ a.bidder \notin {None} \cup Hardcore /\ Unbid(i) => Sends(a.bidder, a.bid, i)
          /\ house'[i] = NoAuction /\ a.owner \notin Hardcore =>
               Sends(a.owner, a.bid + a.deposit - GetAuctionCut(a), i)]_vars

\* A player's acceptance never outlives a change of what either side offers.
AcceptedIsCurrent ==
  \A p \in Player : Trading(p) => trade[p].accepted \in {<<>>, Offers(p)}
=============================================================================
