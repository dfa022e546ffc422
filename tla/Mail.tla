-------------------------------- MODULE Mail --------------------------------
(***************************************************************************)
(* The mail of Handlers/MailHandler.cpp, Mail/Mail.cpp and                 *)
(* MapNodes/MasterPlayer.cpp: what players hold, the mails the server has  *)
(* in memory for the characters that are logged in, the rows of the table  *)
(* mail, and the statements between the two.                               *)
(*                                                                         *)
(* A mail is written by a transaction without serial id, a mailbox is      *)
(* saved by one with the character's serial id, so two workers of          *)
(* AsyncDatabase may run them in either order.  The properties judge what  *)
(* happens as long as nothing was overtaken; the history variable          *)
(* overtaken says that something was.                                      *)
(*                                                                         *)
(* Time is left out: a mail may be delivered, may expire, and the job that *)
(* returns expired mails may start at any moment.  Bags are never full for *)
(* mail, every character's account exists, senders are not anonymous.  A   *)
(* character keeps its money and its items when it logs out: they are      *)
(* saved and loaded under its own serial id, in order.                     *)
(***************************************************************************)
EXTENDS Integers, FiniteSets, FiniteSetsExt, SequencesExt

CONSTANTS
  Player,    \* characters
  Item,      \* items
  None,      \* no item, no player
  Hardcore,  \* characters IsPlayerHardcore() is true of
  Postage,   \* what sending a mail costs (30 copper in the code)
  Writer,    \* bound: the players who send mails of their own
  Leaver,    \* bound: the players who log out
  Amount,    \* bound: the pairs of money and price (COD) clients send with mails
  MaxMail,   \* bound: mails that exist at a time
  MaxQueue   \* bound: statements about mails on their way

ASSUME MailAssumption ==
  /\ IsFiniteSet(Player) /\ IsFiniteSet(Item)
  /\ None \notin Player \cup Item
  /\ Hardcore \cup Writer \cup Leaver \subseteq Player
  /\ Amount \subseteq Nat \X Nat
  /\ {Postage, MaxMail, MaxQueue} \subseteq Nat

VARIABLES
  gold,      \* GetMoney()
  bag,       \* the items of the inventory
  login,     \* "out" (perhaps asking to log in), "read" (the mails were) or "in"
  answer,    \* the mails that were read
  inbox,     \* MasterPlayer::m_mail and mMitems of those who are in
  deleted,   \* ids of mails of an inbox in MAIL_STATE_DELETED
  request,   \* AsyncMailSendRequest waiting for its count query
  rows,      \* table mail with mail_items, without the rows isDeleted
  pending,   \* statements about mails, in the order they were queued
  job,       \* OldMailsReturner, then SingleMailReturner
  sunk,      \* history: money the code takes out of the game
  lost,      \* history: items the code destroys
  overtaken  \* history: a statement, or a reader, came before an older one

holdVars == <<gold, bag>>
loginVars == <<login, answer, request>>
boxVars == <<inbox, deleted>>
storeVars == <<rows, pending>>
lossVars == <<sunk, lost>>
mailVars == <<holdVars, loginVars, boxVars, storeVars, job, lossVars, overtaken>>

\* normal: messageType is MAIL_NORMAL.  final: checked has COD_PAYMENT or
\* RETURNED, so the mail is not returned once more when it expires.
Draft(to, from, item, money, cod, normal, final) ==
  [to |-> to, from |-> from, item |-> item, money |-> money, cod |-> cod,
   normal |-> normal, final |-> final]

WithId(draft, n) ==
  [id |-> n, to |-> draft.to, from |-> draft.from, item |-> draft.item,
   money |-> draft.money, cod |-> draft.cod, normal |-> draft.normal,
   final |-> draft.final]

IdsOf(mails) == {m.id : m \in mails}
MoneyIn(mails) == SumFunction([m \in mails |-> m.money])
Online(p) == login[p] = "in"

----------------------------------------------------------------------------
(* The table and the statements about it. *)

Write(serial, op, m) == [serial |-> serial, op |-> op, mail |-> m]

\* A statement about a mail that has no row changes nothing.
Apply(table, w) ==
  LET others == {m \in table : m.id # w.mail.id}
      here == table \ others
  IN CASE w.op = "insert" -> table \cup {w.mail}
       [] w.op = "delete" -> others
       [] w.op = "update" ->
            others \cup {[m EXCEPT !.money = w.mail.money, !.cod = w.mail.cod,
                                   !.item = w.mail.item] : m \in here}
       [] w.op = "return" ->
            others \cup {[m EXCEPT !.to = m.from, !.from = m.to, !.cod = 0,
                                   !.final = TRUE] : m \in here}

\* The table after the statements writes, executed in order.
Executed(table, writes) ==
  LET after[k \in 0..Len(writes)] ==
        IF k = 0 THEN table ELSE Apply(after[k - 1], writes[k])
  IN after[Len(writes)]

\* The table as it will be when everything queued so far was executed in order.
Settled == Executed(rows, pending)

NoJob == [at |-> "none"]

UsedIds ==
  IdsOf(rows) \cup IdsOf(UNION {inbox[p] \cup answer[p] : p \in Player})
    \cup {pending[k].mail.id : k \in DOMAIN pending}
    \cup (IF job = NoJob THEN {} ELSE {job.mail.id})

FreeIds == (1..MaxMail) \ UsedIds

\* A worker may take any statement but one that waits for another of its serial
\* id.
Ready(k) ==
  \A j \in 1..(k - 1) : pending[j].serial = None \/ pending[j].serial # pending[k].serial

Execute ==
  \E k \in DOMAIN pending :
    /\ Ready(k)
    /\ rows' = Apply(rows, pending[k])
    /\ pending' = RemoveAt(pending, k)
    /\ overtaken' = (overtaken \/ \E j \in 1..(k - 1) : pending[j].mail.id = pending[k].mail.id)
    /\ UNCHANGED <<holdVars, loginVars, boxVars, job, lossVars>>

----------------------------------------------------------------------------
(* Sending and saving. *)

\* MailDraft::SendMailTo() of each of drafts, whose mails get different ids of
\* GenerateMailID(): some that nothing refers to any more.
Numbered(drafts) ==
  LET id == CHOOSE f \in [drafts -> FreeIds] : IsInjective(f)
  IN {WithId(d, id[d]) : d \in drafts}

MayPost(drafts) == Cardinality(drafts) <= Cardinality(FreeIds)

\* A statement about each of mails, in some order.
Writes(serial, op, mails) ==
  LET order == SetToSeq(mails) IN [k \in DOMAIN order |-> Write(serial, op, order[k])]

\* What an online receiver gets at once.
Received(boxes, mails) ==
  [p \in Player |-> boxes[p] \cup {m \in mails : m.to = p /\ Online(p)}]

Enqueue(writes) ==
  /\ Len(pending) + Len(writes) <= MaxQueue
  /\ pending' = pending \o writes

\* Sends drafts; before and after are the statements queued around them.
Post(boxes, before, drafts, after) ==
  /\ MayPost(drafts)
  /\ inbox' = Received(boxes, Numbered(drafts))
  /\ Enqueue(before \o Writes(None, "insert", Numbered(drafts)) \o after)

\* MasterPlayer::SaveMails(), after the mails of changed were changed.
SavedBox(p, box) == {m \in box : m.id \notin deleted[p]}

SaveWrites(p, box, changed) ==
  Writes(p, "update", changed) \o Writes(p, "delete", box \ SavedBox(p, box))

SavesMoney(p, box) == MoneyIn(box \ SavedBox(p, box))
SavesItems(p, box) == {m.item : m \in box \ SavedBox(p, box)} \ {None}

----------------------------------------------------------------------------
(* Packets about mail. *)

MailRequest(from, to, item, money, cod) ==
  [from |-> from, to |-> to, item |-> item, money |-> money, cod |-> cod]

NoAttachment(r) == r.item = None /\ r.money = 0 /\ r.cod = 0

\* Mutant: the item is not looked for again.
CallbackUnchecked(r) ==
  LET cost == r.money + Postage
  IN /\ gold[r.from] >= cost
     /\ gold' = [gold EXCEPT ![r.from] = @ - cost]
     /\ bag' = [bag EXCEPT ![r.from] = @ \ {r.item}]
     /\ sunk' = sunk + Postage
     /\ Post(inbox, <<>>, {Draft(r.to, r.from, r.item, r.money, r.cod, TRUE, FALSE)}, <<>>)

\* The money and the item are looked at again.  A COD without an item is dropped.
HandleSendMailCallback(r) ==
  LET cost == r.money + Postage
  IN /\ gold[r.from] >= cost
     /\ r.item = None \/ r.item \in bag[r.from]
     /\ gold' = [gold EXCEPT ![r.from] = @ - cost]
     /\ bag' = [bag EXCEPT ![r.from] = @ \ {r.item}]
     /\ sunk' = sunk + Postage
     /\ Post(inbox, <<>>,
             {Draft(r.to, r.from, r.item, r.money, IF r.item = None THEN 0 ELSE r.cod, TRUE, FALSE)}, <<>>)

MailAllowed(r) ==
  /\ r.from # r.to
  /\ {r.from, r.to} \cap Hardcore # {} => NoAttachment(r)

\* To an online receiver a mail is sent at once, otherwise the count of the
\* receiver's mails is asked for and the rest happens in the callback.
HandleSendMail(p) ==
  /\ Online(p)
  /\ request[p] = None
  /\ \E to \in Player, item \in bag[p] \cup {None}, amount \in Amount :
       LET r == MailRequest(p, to, item, amount[1], amount[2])
       IN /\ MailAllowed(r)
          /\ IF Online(to)
               THEN HandleSendMailCallback(r) /\ UNCHANGED request
               ELSE request' = [request EXCEPT ![p] = r]
                    /\ UNCHANGED <<gold, bag, sunk, inbox, pending>>
  /\ UNCHANGED <<login, answer, deleted, rows, job, lost, overtaken>>

\* AsyncMailSendRequest::Callback: the session must still have that character in
\* the world; a request that fails its checks is gone.
SendMailAnswer(p) ==
  LET r == request[p]
  IN /\ r # None
     /\ request' = [request EXCEPT ![p] = None]
     /\ IF Online(p)
          THEN \/ HandleSendMailCallback(r)
               \/ /\ gold[p] < r.money + Postage \/ r.item \notin bag[p] \cup {None}
                  /\ UNCHANGED <<gold, bag, sunk, inbox, pending>>
          ELSE UNCHANGED <<gold, bag, sunk, inbox, pending>>
     /\ UNCHANGED <<login, answer, deleted, rows, job, lost, overtaken>>

\* A mail of p's mailbox that p may touch.
Readable(p, m) == Online(p) /\ m \in inbox[p] /\ m.id \notin deleted[p]

\* The item goes to the bag, its price to the sender by mail.
HandleMailTakeItem(p, m) ==
  LET empty == [m EXCEPT !.item = None, !.cod = 0]
      box == (inbox[p] \ {m}) \cup {empty}
  IN /\ Readable(p, m) /\ m.item # None /\ gold[p] >= m.cod
     /\ bag' = [bag EXCEPT ![p] = @ \cup {m.item}]
     /\ gold' = [gold EXCEPT ![p] = @ - m.cod]
     /\ Post([inbox EXCEPT ![p] = SavedBox(p, box)], <<>>,
             IF m.cod > 0 THEN {Draft(m.from, p, None, m.cod, 0, TRUE, TRUE)} ELSE {},
             SaveWrites(p, box, {empty}))
     /\ deleted' = [deleted EXCEPT ![p] = {}]
     /\ sunk' = sunk + SavesMoney(p, box)
     /\ lost' = lost \cup SavesItems(p, box)
     /\ UNCHANGED <<loginVars, rows, job, overtaken>>

HandleMailTakeMoney(p, m) ==
  LET empty == [m EXCEPT !.money = 0]
      box == (inbox[p] \ {m}) \cup {empty}
  IN /\ Readable(p, m)
     /\ gold' = [gold EXCEPT ![p] = @ + m.money]
     /\ inbox' = [inbox EXCEPT ![p] = SavedBox(p, box)]
     /\ Enqueue(SaveWrites(p, box, {empty}))
     /\ deleted' = [deleted EXCEPT ![p] = {}]
     /\ sunk' = sunk + SavesMoney(p, box)
     /\ lost' = lost \cup SavesItems(p, box)
     /\ UNCHANGED <<bag, loginVars, rows, job, overtaken>>

\* Marks the mail, whatever it holds; only a price forbids it.
HandleMailDelete(p, m) ==
  /\ Online(p) /\ m \in inbox[p] /\ m.cod = 0
  /\ deleted' = [deleted EXCEPT ![p] = @ \cup {m.id}]
  /\ UNCHANGED <<holdVars, loginVars, inbox, storeVars, job, lossVars, overtaken>>

\* Only mails of players who may get mail are sent back, the others' contents
\* are dropped.
HandleMailReturnToSender(p, m) ==
  LET back == m.normal /\ m.from \notin Hardcore
  IN /\ Readable(p, m)
     /\ Post([inbox EXCEPT ![p] = @ \ {m}], <<Write(p, "delete", m)>>,
             IF back THEN {Draft(m.from, p, m.item, m.money, 0, TRUE, TRUE)} ELSE {}, <<>>)
     /\ sunk' = sunk + (IF back THEN 0 ELSE m.money)
     /\ lost' = lost \cup (IF back THEN {} ELSE {m.item} \ {None})
     /\ UNCHANGED <<holdVars, loginVars, deleted, rows, job, overtaken>>

----------------------------------------------------------------------------
(* Logging in and out. *)

\* The queries of the login have p's serial id: they run after p's own
\* statements.  Statements of others about p's mails may still be on their way.
ReadMails(p) ==
  /\ login[p] = "out"
  /\ \A k \in DOMAIN pending : pending[k].serial # p
  /\ login' = [login EXCEPT ![p] = "read"]
  /\ answer' = [answer EXCEPT ![p] = {m \in rows : m.to = p}]
  /\ overtaken' = (overtaken \/ \E k \in DOMAIN pending :
                     pending[k].mail.id \in {m.id : m \in {r \in rows : r.to = p}})
  /\ UNCHANGED <<holdVars, request, boxVars, storeVars, job, lossVars>>

\* HandlePlayerLogin: the MasterPlayer loads its mails.
FinishLogin(p) ==
  /\ login[p] = "read"
  /\ login' = [login EXCEPT ![p] = "in"]
  /\ inbox' = [inbox EXCEPT ![p] = answer[p]]
  /\ answer' = [answer EXCEPT ![p] = {}]
  /\ UNCHANGED <<holdVars, request, deleted, storeVars, job, lossVars, overtaken>>

\* MasterPlayer::SaveToDB(), by the timer or at logout.
SaveMailbox(p, next) ==
  /\ Online(p)
  /\ Enqueue(SaveWrites(p, inbox[p], {}))
  /\ inbox' = [inbox EXCEPT ![p] = next]
  /\ deleted' = [deleted EXCEPT ![p] = {}]
  /\ sunk' = sunk + SavesMoney(p, inbox[p])
  /\ lost' = lost \cup SavesItems(p, inbox[p])

SaveMails(p) ==
  /\ deleted[p] # {}
  /\ SaveMailbox(p, SavedBox(p, inbox[p]))
  /\ UNCHANGED <<holdVars, loginVars, rows, job, overtaken>>

LogoutMail(p) ==
  /\ p \in Leaver
  /\ SaveMailbox(p, {})
  /\ login' = [login EXCEPT ![p] = "out"]
  /\ UNCHANGED <<holdVars, answer, request, rows, job, overtaken>>

----------------------------------------------------------------------------
(* Expired mails. *)

\* The query of ReturnOrDeleteOldMails(), on a worker: it may find any mail
\* expired.  One of those is followed at a time.
ReturnOrDeleteOldMails ==
  /\ job = NoJob
  /\ \E m \in rows : job' = [at |-> "found", mail |-> m]
  /\ UNCHANGED <<holdVars, loginVars, boxVars, storeVars, lossVars, overtaken>>

\* The job's statement about a mail is queued; with a deleted mail the item is
\* deleted that was in it.  Someone who is just logging in may have read the mail
\* already, and the mail may have changed since the job read it.
JobWrite(w) ==
  /\ Enqueue(<<w>>)
  /\ overtaken' = \/ overtaken
                  \/ w.mail \notin Settled
                  \/ \E p \in Player : w.mail.id \in IdsOf(answer[p])
  /\ sunk' = sunk + (IF w.op = "delete" THEN w.mail.money ELSE 0)
  /\ lost' = lost \cup (IF w.op = "delete" THEN {w.mail.item} \ {None} ELSE {})

\* OldMailsReturner::Callback: online players' mails are left alone.
OldMailsCallback ==
  LET m == job.mail
  IN /\ job.at = "found"
     /\ \/ /\ Online(m.to)
           /\ job' = NoJob
           /\ UNCHANGED <<pending, overtaken, sunk, lost>>
        \/ /\ ~Online(m.to) /\ m.item = None
           /\ JobWrite(Write(None, "delete", m))
           /\ job' = NoJob
        \/ /\ ~Online(m.to) /\ m.item # None
           /\ job' = [at |-> "item", mail |-> m]
           /\ UNCHANGED <<pending, overtaken, sunk, lost>>
     /\ UNCHANGED <<holdVars, loginVars, boxVars, rows>>

\* SingleMailReturner::Callback, when the second query has found the item: the
\* mail goes back, or is deleted if it came back already or no player sent it.
SingleMailCallback ==
  LET m == job.mail
      op == IF m.normal /\ ~m.final THEN "return" ELSE "delete"
  IN /\ job.at = "item"
     /\ job' = NoJob
     /\ IF Online(m.to) THEN UNCHANGED <<pending, overtaken, sunk, lost>>
                        ELSE JobWrite(Write(None, op, m))
     /\ UNCHANGED <<holdVars, loginVars, boxVars, rows>>

----------------------------------------------------------------------------
MailInit ==
  /\ bag \in [Player -> SUBSET Item]
  /\ \A i \in Item : Cardinality({p \in Player : i \in bag[p]}) = 1
  /\ login = [p \in Player |-> "in"]
  /\ answer = [p \in Player |-> {}]
  /\ inbox = [p \in Player |-> {}]
  /\ deleted = [p \in Player |-> {}]
  /\ request = [p \in Player |-> None]
  /\ rows = {}
  /\ pending = <<>>
  /\ job = NoJob
  /\ sunk = 0
  /\ lost = {}
  /\ overtaken = FALSE

\* A handler of a packet about one mail.
MailStep(p) ==
  \/ p \in Writer /\ HandleSendMail(p)
  \/ \E m \in inbox[p] :
       \/ HandleMailTakeItem(p, m)
       \/ HandleMailTakeMoney(p, m)
       \/ HandleMailDelete(p, m)
       \/ HandleMailReturnToSender(p, m)

MailNext ==
  \/ Execute
  \/ ReturnOrDeleteOldMails \/ OldMailsCallback \/ SingleMailCallback
  \/ \E p \in Player : MailStep(p) \/ SendMailAnswer(p) \/ ReadMails(p)
                       \/ FinishLogin(p) \/ SaveMails(p)
=============================================================================
