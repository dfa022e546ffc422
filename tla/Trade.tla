------------------------------- MODULE Trade --------------------------------
(***************************************************************************)
(* Trading of Handlers/TradeHandler.cpp: two TradeData that name each      *)
(* other's players, each with the money and the items its player offers    *)
(* and whether he accepted.  One of the six slots is modelled, the slot    *)
(* for an item that is not traded and its spell are left out.              *)
(*                                                                         *)
(* An offered item stays in the bag, and TradeData::GetItem() looks for it *)
(* there: an item that is mailed or auctioned meanwhile drops out of the   *)
(* trade.  How far the traders are from each other, and whether the items  *)
(* fit, may be anything.                                                   *)
(***************************************************************************)
EXTENDS Mail

CONSTANTS
  Trader,  \* bound: the players who may meet to trade
  Coin     \* bound: the amounts of money they offer

ASSUME TradeAssumption == Trader \subseteq Player /\ Coin \subseteq Nat

VARIABLE trade  \* m_trade of each player, NoTrade without one

\* accepted is TRUE in the code where it is not <<>> here: it remembers what both
\* offered when the player accepted.
NoTrade == [with |-> None, money |-> 0, item |-> None, accepted |-> <<>>]

Trading(p) == trade[p].with # None
Offer(p) == <<trade[p].money, trade[p].item>>
Offers(p) == <<Offer(p), Offer(trade[p].with)>>

\* TradeData::GetItem(): what of the offer the player has.
Given(p) == {trade[p].item} \cap bag[p]

HandleInitiateTrade(p) ==
  /\ Online(p) /\ ~Trading(p)
  /\ \E other \in Trader \ {p} :
       /\ Online(other) /\ ~Trading(other)
       /\ p \in Hardcore <=> other \in Hardcore
       /\ trade' = [trade EXCEPT ![p] = [NoTrade EXCEPT !.with = other],
                                 ![other] = [NoTrade EXCEPT !.with = p]]
  /\ UNCHANGED mailVars

\* Mutant: only the player's own acceptance is taken back.
ChangeOfferQuietly(p, money, item) ==
  trade' = [trade EXCEPT ![p] = [@ EXCEPT !.money = money, !.item = item, !.accepted = <<>>]]

\* The handler takes back the other's acceptance; TradeData::SetMoney() and
\* SetItem() take back both if the offer is another.
ChangeOffer(p, money, item) ==
  LET mine == IF Offer(p) = <<money, item>> THEN trade[p].accepted ELSE <<>>
  IN trade' = [trade EXCEPT
                 ![p] = [@ EXCEPT !.money = money, !.item = item, !.accepted = mine],
                 ![trade[p].with] = [@ EXCEPT !.accepted = <<>>]]

HandleSetTradeGold(p) ==
  /\ Trading(p)
  /\ \E money \in Coin : money <= gold[p] /\ ChangeOffer(p, money, trade[p].item)
  /\ UNCHANGED mailVars

HandleSetTradeItem(p) ==
  /\ Trading(p)
  /\ \E item \in bag[p] \ {trade[p].item} : ChangeOffer(p, trade[p].money, item)
  /\ UNCHANGED mailVars

HandleClearTradeItem(p) ==
  /\ Trading(p)
  /\ ChangeOffer(p, trade[p].money, None)
  /\ UNCHANGED mailVars

Accept(p, mine, his) ==
  /\ trade' = [trade EXCEPT ![p].accepted = mine, ![trade[p].with].accepted = his]
  /\ UNCHANGED mailVars

Without(p, other) == [trade EXCEPT ![p] = NoTrade, ![other] = NoTrade]

\* Mutant: the money was looked at when it was offered, that is enough.
HadMoney(p) == TRUE

HasMoney(p) == trade[p].money <= gold[p]

Exchange(p, other) ==
  /\ gold' = [gold EXCEPT ![p] = @ - trade[p].money + trade[other].money,
                          ![other] = @ - trade[other].money + trade[p].money]
  /\ bag' = [bag EXCEPT ![p] = (@ \ Given(p)) \cup Given(other),
                        ![other] = (@ \ Given(other)) \cup Given(p)]
  /\ trade' = Without(p, other)
  /\ UNCHANGED <<loginVars, boxVars, storeVars, job, lossVars, overtaken>>

\* The player's acceptance stands before anything is checked; it is all that happens
\* if they are too far apart, an item cannot be traded or the other did not accept.
HandleAcceptTrade(p) ==
  LET other == trade[p].with
  IN /\ Trading(p)
     /\ \/ Accept(p, Offers(p), trade[other].accepted)
        \/ ~HasMoney(p) /\ Accept(p, <<>>, trade[other].accepted)
        \/ HasMoney(p) /\ ~HasMoney(other) /\ Accept(p, Offers(p), <<>>)
        \/ /\ HasMoney(p) /\ HasMoney(other) /\ trade[other].accepted # <<>>
           /\ Exchange(p, other) \/ Accept(p, <<>>, <<>>)

HandleUnacceptTrade(p) ==
  /\ Trading(p) /\ trade[p].accepted # <<>>
  /\ trade' = [trade EXCEPT ![p].accepted = <<>>]
  /\ UNCHANGED mailVars

\* Mutant: only the player's own end.
CancelledHere(p) == [trade EXCEPT ![p] = NoTrade]

\* TradeCancel(): both ends of the trade are gone.
Cancelled(p) == IF Trading(p) THEN Without(p, trade[p].with) ELSE trade

HandleCancelTrade(p) ==
  /\ Trading(p)
  /\ trade' = Cancelled(p)
  /\ UNCHANGED mailVars

TradeInit == trade = [p \in Player |-> NoTrade]

TradeStep(p) ==
  \/ p \in Trader /\ HandleInitiateTrade(p)
  \/ HandleSetTradeGold(p) \/ HandleSetTradeItem(p) \/ HandleClearTradeItem(p)
  \/ HandleAcceptTrade(p) \/ HandleUnacceptTrade(p) \/ HandleCancelTrade(p)
=============================================================================
