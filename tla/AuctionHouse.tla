---------------------------- MODULE AuctionHouse ----------------------------
(***************************************************************************)
(* The auctions of AuctionHouse/AuctionHouseMgr.cpp and                    *)
(* Handlers/AuctionHouseHandler.cpp.  An auction holds an item, the bid of *)
(* its best bidder and the owner's deposit; everything it gives back it    *)
(* gives by Mail.  There is one house, an auction is known by its item.    *)
(***************************************************************************)
EXTENDS Mail

CONSTANTS
  Price,      \* bound: the prices clients name
  Deposit,    \* GetAuctionDeposit()
  CutPercent  \* cutPercent times the rate of the configuration

ASSUME AuctionAssumption ==
  /\ Price \subseteq Nat \ {0}
  /\ Deposit \in Nat /\ CutPercent \in 0..100

VARIABLE house  \* AuctionsMap and mAitems: the auction of each item, or NoAuction

NoAuction == [owner |-> None]

Auctioned == {i \in Item : house[i] # NoAuction}

GetAuctionCut(a) == (CutPercent * a.bid) \div 100

GetAuctionOutBid(a) == LET n == (a.bid \div 100) * 5 IN IF n = 0 THEN 1 ELSE n

AuctionMail(to, item, money) == Draft(to, None, item, money, 0, FALSE, FALSE)

\* Mutant: the auction already has its new bidder when the mail is written.
OutbiddedMailLate(a, p) == AuctionMail(p, None, a.bid)

\* The old bidder gets his bid back when p overbids him.
SendAuctionOutbiddedMail(a, p) == AuctionMail(a.bidder, None, a.bid)

\* Mutant: nothing is taken from the price.
SuccessfulUncut(a) == AuctionMail(a.owner, None, a.bid + a.deposit)

SendAuctionSuccessfulMail(a) ==
  AuctionMail(a.owner, None, a.bid + a.deposit - GetAuctionCut(a))

SendAuctionWonMail(a, i) == AuctionMail(a.bidder, i, 0)

SendAuctionExpiredMail(a, i) == AuctionMail(a.owner, i, 0)

\* The drafts are sent but those to hardcore characters, whose money and items are
\* gone; certain are sent to anyone.
Pay(drafts, certain, taken) ==
  LET gone == {d \in drafts : d.to \in Hardcore}
  IN /\ Post(inbox, <<>>, (drafts \ gone) \cup certain, <<>>)
     /\ sunk' = sunk + taken + MoneyIn(gone)
     /\ lost' = lost \cup ({d.item : d \in gone} \ {None})

HandleAuctionSellItem(p) ==
  /\ Online(p)
  /\ \E i \in bag[p], bid \in Price, buyout \in Price \cup {0} :
       /\ buyout = 0 \/ bid <= buyout
       /\ i \notin Auctioned
       /\ gold[p] >= Deposit
       /\ bag' = [bag EXCEPT ![p] = @ \ {i}]
       /\ house' = [house EXCEPT ![i] =
                      [owner |-> p, startbid |-> bid, buyout |-> buyout,
                       bidder |-> None, bid |-> 0, deposit |-> Deposit]]
  /\ gold' = [gold EXCEPT ![p] = @ - Deposit]
  /\ UNCHANGED <<loginVars, boxVars, storeVars, job, lossVars, overtaken>>

\* The owner gets the price and his deposit but the cut, the bidder the item.
Sold(a, i, refunds) ==
  /\ Pay(refunds \cup {SendAuctionSuccessfulMail(a), SendAuctionWonMail(a, i)}, {},
         GetAuctionCut(a))
  /\ house' = [house EXCEPT ![i] = NoAuction]

BidAccepted(p, a, price) ==
  /\ a.owner # p
  /\ price >= a.startbid
  /\ price > a.bid
  /\ price >= a.bid + GetAuctionOutBid(a) \/ (a.buyout # 0 /\ price >= a.buyout)
  /\ price <= gold[p]

\* A bid, or a buyout at the price the owner named.  One who raises his own bid
\* pays the difference.
HandleAuctionPlaceBid(p, i) ==
  LET a == house[i]
  IN /\ Online(p) /\ i \in Auctioned
     /\ \E price \in Price :
          LET buys == a.buyout # 0 /\ price >= a.buyout
              paid == IF buys THEN a.buyout ELSE price
              next == [a EXCEPT !.bidder = p, !.bid = paid]
              own == a.bidder = p
              refunds == IF own \/ a.bidder = None THEN {}
                                                    ELSE {SendAuctionOutbiddedMail(a, p)}
          IN /\ BidAccepted(p, a, price)
             /\ gold' = [gold EXCEPT ![p] = @ - (IF own THEN paid - a.bid ELSE paid)]
             /\ IF buys
                  THEN Sold(next, i, refunds)
                  ELSE /\ Pay(refunds, {}, 0)
                       /\ house' = [house EXCEPT ![i] = next]
     /\ UNCHANGED <<bag, loginVars, deleted, rows, job, overtaken>>

\* The owner takes an auction back: the bidder is paid back, the owner pays the cut.
HandleAuctionRemoveItem(p, i) ==
  LET a == house[i]
      cut == IF a.bidder = None THEN 0 ELSE GetAuctionCut(a)
      refunds == IF a.bidder = None THEN {} ELSE {AuctionMail(a.bidder, None, a.bid)}
  IN /\ Online(p) /\ i \in Auctioned /\ a.owner = p
     /\ gold[p] >= cut
     /\ gold' = [gold EXCEPT ![p] = @ - cut]
     /\ Pay(refunds, {AuctionMail(p, i, 0)}, a.deposit + cut)
     /\ house' = [house EXCEPT ![i] = NoAuction]
     /\ UNCHANGED <<bag, loginVars, deleted, rows, job, overtaken>>

\* Mutant: an auction without a bid is listed once more.
UpdateKeeps(i) ==
  LET a == house[i]
  IN /\ i \in Auctioned
     /\ IF a.bidder = None
          THEN Pay({SendAuctionExpiredMail(a, i)}, {}, a.deposit) /\ UNCHANGED house
          ELSE Sold(a, i, {})
     /\ UNCHANGED <<holdVars, loginVars, deleted, rows, job, overtaken>>

\* AuctionHouseObject::Update() finds the auction expired.
UpdateAuction(i) ==
  LET a == house[i]
  IN /\ i \in Auctioned
     /\ IF a.bidder = None
          THEN /\ Pay({SendAuctionExpiredMail(a, i)}, {}, a.deposit)
               /\ house' = [house EXCEPT ![i] = NoAuction]
          ELSE Sold(a, i, {})
     /\ UNCHANGED <<holdVars, loginVars, deleted, rows, job, overtaken>>

AuctionInit == house = [i \in Item |-> NoAuction]

AuctionStep(p) ==
  \/ HandleAuctionSellItem(p)
  \/ \E i \in Item : HandleAuctionPlaceBid(p, i) \/ HandleAuctionRemoveItem(p, i)

AuctionNext == \E i \in Item : UpdateAuction(i)
=============================================================================
