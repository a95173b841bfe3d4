------------------------------- MODULE Accounts -------------------------------
(***************************************************************************)
(* The accounts of meta (user.py, and the recipient of a transaction in    *)
(* transaction.py). An address belongs to one document: of a registered    *)
(* user, of a contact found in an address book, or of a ghost to whom      *)
(* something was sent. A contact or a ghost becomes a user when he         *)
(* registers, and a ghost is merged into the user who shows its code or    *)
(* proves that the address is his.                                         *)
(*                                                                         *)
(* A request takes several steps, one or more operations on the database   *)
(* each; only one document is changed at once, and nothing is locked in    *)
(* between. What a request has read may be outdated when it writes.        *)
(***************************************************************************)
EXTENDS Naturals, FiniteSets

CONSTANTS Users,    \* the documents there may be
          First,    \* the user who is there to begin with
          Emails,   \* the addresses
          Primary,  \* that of the first user
          Book,     \* the addresses of the contact that is in the address books
          Workers,  \* the requests that may be under way
          MaxOps    \* bound on the requests there are in all

Nobody == "nobody"
NoEmail == "no email"

ASSUME AccountsAssumption ==
  /\ First \in Users /\ Nobody \notin Users
  /\ Primary \in Emails /\ NoEmail \notin Emails
  /\ Book \subseteq Emails
  /\ MaxOps \in Nat

VARIABLES users,        \* the documents
          transactions, \* those of the n-th request: from, to, and whether it is over
          req,          \* the requests
          started,      \* how many there were
          wins,         \* history: how often a document was registered
          stale,        \* history: a request wrote over a document that had become
                        \* something else since it was read
          aborted,      \* history: an address could not be given, the request is dropped
          late          \* history: the transactions made or forwarded to a document that
                        \* was merged since it was read

history == <<wins, stale, aborted, late>>
avars == <<users, transactions, req, started, history>>

Ops == 1..MaxOps
Unregistered == {"contact", "ghost"}

NoUser == [status |-> "none", accounts |-> {}, email |-> NoEmail, swaggers |-> {},
           contact_of |-> {}]

\* A request: what it is for (see Steps), what it does next, on whose behalf, about which
\* address and document, and what it read of it.
NoRequest == [op |-> "none", at |-> "idle", n |-> 0, user |-> Nobody, email |-> NoEmail,
              doc |-> Nobody, read |-> NoUser]

NoTransaction == [from |-> Nobody, to |-> Nobody, over |-> TRUE]

AInit == /\ users = [u \in Users |->
                       IF u = First THEN [NoUser EXCEPT !.status = "ok", !.email = Primary,
                                                        !.accounts = {Primary}]
                       ELSE NoUser]
         /\ transactions = [n \in Ops |-> NoTransaction]
         /\ req = [w \in Workers |-> NoRequest]
         /\ started = 0
         /\ wins = [u \in Users |-> IF u = First THEN 1 ELSE 0]
         /\ stale = FALSE
         /\ aborted = FALSE
         /\ late = {}

-----------------------------------------------------------------------------
status(u) == users[u].status

\* accounts.id is unique.
owners(email) == {u \in Users : email \in users[u].accounts}
free(emails, u) == \A v \in Users \ {u} : emails \cap users[v].accounts = {}

insert(user, u) ==
  /\ status(u) = "none" /\ u = CHOOSE v \in Users : status(v) = "none"
  /\ users' = [users EXCEPT ![u] = user]

\* A request begins.
Start(w, op, at, user, email, doc) ==
  /\ started' = started + 1
  /\ req' = [req EXCEPT ![w] =
               [op |-> op, at |-> at, n |-> started', user |-> user, email |-> email,
                doc |-> doc, read |-> IF doc = Nobody THEN NoUser ELSE users[doc]]]

At(w, at) == req[w].at = at /\ UNCHANGED started
Go(w, at) == req' = [req EXCEPT ![w].at = at]
Work(w, at, doc) == req' = [req EXCEPT ![w].at = at, ![w].doc = doc]
Done(w) == req' = [req EXCEPT ![w] = NoRequest]

LoggedIn(u) == status(u) = "ok"

-----------------------------------------------------------------------------
(***************************************************************************)
(* A transaction to an address.                                            *)
(***************************************************************************)

\* __recipient_from_identifier looks the address up.
Look(w, u, email) ==
  /\ LoggedIn(u) /\ email \notin users[u].accounts
  /\ \/ /\ owners(email) = {}
        /\ Start(w, "send", "ghost", u, email, Nobody)
     \/ \E doc \in owners(email) :
          /\ status(doc) # "deleted"
          /\ Start(w, "send", IF status(doc) = "contact" THEN "ghost" ELSE "insert",
                   u, email, doc)
  /\ UNCHANGED <<users, transactions, history>>

\* __register_ghost: a new document, or the contact that was found.
RegisterGhost(w) ==
  LET email == req[w].email
      doc == req[w].doc
  IN
  /\ At(w, "ghost")
  /\ \/ /\ doc = Nobody /\ free({email}, Nobody)
        /\ \E u \in Users :
             /\ insert([NoUser EXCEPT !.status = "ghost", !.email = email,
                                      !.accounts = {email}], u)
             /\ Work(w, "insert", u)
        /\ UNCHANGED stale
     \/ /\ doc = Nobody /\ ~free({email}, Nobody)
        /\ Done(w)
        /\ UNCHANGED <<users, stale>>
     \/ /\ doc # Nobody
        /\ users' = [users EXCEPT ![doc] =
                       [@ EXCEPT !.status = "ghost", !.email = email, !.swaggers = {}]]
        /\ stale' = (stale \/ status(doc) # "contact")
        /\ Go(w, "insert")
  /\ UNCHANGED <<transactions, wins, aborted, late>>

\* Another request that merges a document, and will look for its transactions again.
Merging(w, doc) == \E v \in Workers \ {w} : req[v].doc = doc /\ req[v].at \in {"give", "rest"}

\* Transactions made for a document as it was read, which has been merged since.
Lost(w, doc, ns) == IF status(doc) = "merged" /\ ~Merging(w, doc) THEN ns ELSE {}

\* transaction_create.
Insert(w) ==
  LET doc == req[w].doc IN
  /\ At(w, "insert")
  /\ transactions' = [transactions EXCEPT ![req[w].n] =
                        [from |-> req[w].user, to |-> doc, over |-> FALSE]]
  /\ late' = late \union Lost(w, doc, {req[w].n})
  /\ Go(w, "swag")
  /\ UNCHANGED <<users, wins, stale, aborted>>

\* _increase_swag.
IncreaseSwag(w) ==
  LET lhs == req[w].user
      rhs == req[w].doc
  IN
  /\ At(w, "swag")
  /\ users' = [users EXCEPT ![lhs].swaggers = @ \union {rhs},
                            ![rhs].swaggers = @ \union {lhs}]
  /\ Done(w)
  /\ UNCHANGED <<transactions, history>>

-----------------------------------------------------------------------------
(***************************************************************************)
(* Registration.                                                           *)
(***************************************************************************)

registered(email) == [NoUser EXCEPT !.status = "ok", !.email = email, !.accounts = {email}]

Won(u) == wins' = [wins EXCEPT ![u] = @ + 1]

\* user_register: the document is inserted, unless the address is in one.
Upsert(w, email) ==
  /\ \/ \E u \in Users :
          /\ owners(email) = {}
          /\ insert(registered(email), u)
          /\ Start(w, "register", "welcome", Nobody, email, u)
          /\ Won(u)
     \/ \E u \in owners(email) :
          /\ status(u) \in Unregistered
          /\ Start(w, "register", "transform", Nobody, email, u)
          /\ UNCHANGED <<users, wins>>
  /\ UNCHANGED <<transactions, stale, aborted, late>>

\* The contact or ghost that has the address now, which need not be the one that was found,
\* becomes a user.
Transform(w) ==
  LET email == req[w].email
      found == {u \in owners(email) : status(u) \in Unregistered}
  IN
  /\ At(w, "transform")
  /\ \/ \E u \in found :
          /\ users' = [users EXCEPT ![u] =
                         [registered(email) EXCEPT !.swaggers = req[w].read.swaggers,
                                                   !.contact_of = users[u].contact_of]]
          /\ req' = [req EXCEPT ![w].at = "welcome", ![w].doc = u, ![w].read = users[u]]
          /\ Won(u)
     \/ /\ found = {}
        /\ Done(w)
        /\ UNCHANGED <<users, wins>>
  /\ UNCHANGED <<transactions, stale, aborted, late>>

\* Those who have him in their address book are told.
Befriend(others, u) ==
  users' = [v \in Users |-> IF v \in others THEN [users[v] EXCEPT !.swaggers = @ \union {u}]
                            ELSE users[v]]

Welcome(w) == /\ At(w, "welcome")
              /\ Befriend(req[w].read.contact_of, req[w].doc)
              /\ Done(w)
              /\ UNCHANGED <<transactions, history>>

-----------------------------------------------------------------------------
(***************************************************************************)
(* Address books.                                                          *)
(***************************************************************************)

\* user_update_contacts: the documents of the contact are looked up.
Contacts(w, u) ==
  /\ LoggedIn(u) /\ Book \cap users[u].accounts = {}
  /\ \E found \in {UNION {owners(email) : email \in Book}} :
       /\ started' = started + 1
       /\ req' = [req EXCEPT ![w] =
                    [NoRequest EXCEPT
                       !.op = "contacts", !.at = "store", !.user = u, !.n = started',
                       !.read = [NoUser EXCEPT
                          !.status = IF found = {} THEN "none" ELSE "ok",
                          !.swaggers = {v \in found : status(v) = "ok"},
                          !.contact_of = {v \in found : status(v) \in Unregistered}]]]
  /\ UNCHANGED <<users, transactions, history>>

\* Faulty: whatever the document has become.
StoreAny(w) ==
  LET u == req[w].user
      read == req[w].read
      mark(v) == IF v \in read.contact_of
                   THEN [users[v] EXCEPT !.contact_of = @ \union {u}]
                 ELSE IF v = u THEN [users[v] EXCEPT !.swaggers = @ \union read.swaggers]
                 ELSE users[v]
  IN
  /\ At(w, "store")
  /\ IF read.status = "none" /\ free(Book, Nobody)
       THEN \E v \in Users : insert([NoUser EXCEPT !.status = "contact", !.accounts = Book,
                                                   !.contact_of = {u}], v)
       ELSE users' = [v \in Users |-> mark(v)]
  /\ Done(w)
  /\ UNCHANGED <<transactions, history>>

\* They are told apart by what they were; a contact that was not found is inserted, unless
\* one of its addresses has been taken.
Store(w) ==
  LET u == req[w].user
      read == req[w].read
      mark(v) == IF v \in read.contact_of /\ status(v) \in Unregistered
                   THEN [users[v] EXCEPT !.contact_of = @ \union {u}]
                 ELSE IF v = u THEN [users[v] EXCEPT !.swaggers = @ \union read.swaggers]
                 ELSE users[v]
  IN
  /\ At(w, "store")
  /\ IF read.status = "none" /\ free(Book, Nobody)
       THEN \E v \in Users : insert([NoUser EXCEPT !.status = "contact", !.accounts = Book,
                                                   !.contact_of = {u}], v)
       ELSE users' = [v \in Users |-> mark(v)]
  /\ Done(w)
  /\ UNCHANGED <<transactions, history>>

-----------------------------------------------------------------------------
(***************************************************************************)
(* A ghost is merged into a user.                                          *)
(***************************************************************************)

\* merge_ghost: the user shows the code of the ghost.
Find(w, u, ghost) == /\ LoggedIn(u)
                     /\ status(ghost) = "ghost"
                     /\ Start(w, "merge", "forward", u, NoEmail, ghost)
                     /\ UNCHANGED <<users, transactions, history>>

\* change_transactions_recipient.
forwarded(from, to) ==
  [n \in Ops |-> IF transactions[n].to = from THEN [transactions[n] EXCEPT !.to = to]
                 ELSE transactions[n]]

\* A user who is merged himself may be given transactions.
Forwards(w) ==
  /\ transactions' = forwarded(req[w].doc, req[w].user)
  /\ late' = late \union Lost(w, req[w].user, {n \in Ops : transactions[n].to = req[w].doc})

\* user_delete with merge_with, up to the document.
Forward(w) == /\ At(w, "forward")
              /\ Forwards(w)
              /\ Go(w, "clear")
              /\ UNCHANGED <<users, wins, stale, aborted>>

cleared(u, s) == [NoUser EXCEPT !.status = s, !.contact_of = users[u].contact_of]

Clear(w) == /\ At(w, "clear")
            /\ users' = [users EXCEPT ![req[w].doc] = cleared(req[w].doc, "merged")]
            /\ stale' = (stale \/ status(req[w].doc) \notin {"ghost", "deleted"})
            /\ Go(w, "give")
            /\ UNCHANGED <<transactions, wins, aborted, late>>

\* What was read of the ghost is added to the user.
Give(w) ==
  LET u == req[w].user
      read == req[w].read
  IN
  /\ At(w, "give")
  /\ \/ /\ free(read.accounts, u)
        /\ users' = [users EXCEPT ![u].accounts = @ \union read.accounts,
                                  ![u].swaggers = @ \union read.swaggers]
        /\ Go(w, "rest")
        /\ UNCHANGED aborted
     \/ /\ ~free(read.accounts, u)
        /\ aborted' = TRUE
        /\ Done(w)
        /\ UNCHANGED users
  /\ UNCHANGED <<transactions, wins, stale, late>>

\* Its swaggers and those who had it in their address book are given the user instead.
Befriended(w) ==
  LET u == req[w].user
      ghost == req[w].doc
      read == req[w].read
  IN users' = [v \in Users |->
                 LET swaggers == IF v \in read.swaggers
                                   THEN (users[v].swaggers \union {u}) \ {ghost}
                                   ELSE users[v].swaggers
                 IN [users[v] EXCEPT !.swaggers = IF v \in read.contact_of
                                                    THEN swaggers \union {u} ELSE swaggers]]

\* Faulty: the transactions are not looked for again.
RestOnce(w) ==
  /\ At(w, "rest")
  /\ Befriended(w)
  /\ IF req[w].op = "confirm" THEN Go(w, "add") ELSE Done(w)
  /\ UNCHANGED <<transactions, history>>

Rest(w) ==
  /\ At(w, "rest")
  /\ Befriended(w)
  /\ Forwards(w)
  /\ IF req[w].op = "confirm" THEN Go(w, "add") ELSE Done(w)
  /\ UNCHANGED <<wins, stale, aborted>>

-----------------------------------------------------------------------------
(***************************************************************************)
(* The addresses of a user.                                                *)
(***************************************************************************)

\* account_confirm, by the link that was sent to the address.
Confirm(w, u, email) == /\ LoggedIn(u) /\ email \notin users[u].accounts
                        /\ Start(w, "confirm", "add", u, email, Nobody)
                        /\ UNCHANGED <<users, transactions, history>>

Add(w) == /\ At(w, "add")
          /\ IF free({req[w].email}, req[w].user)
               THEN /\ users' = [users EXCEPT ![req[w].user].accounts = @ \union {req[w].email}]
                    /\ Done(w)
               ELSE /\ Go(w, "previous")
                    /\ UNCHANGED users
          /\ UNCHANGED <<transactions, history>>

\* Faulty: a deleted one is not merged.
PreviousGhost(w) ==
  LET email == req[w].email IN
  /\ At(w, "previous")
  /\ \/ \E doc \in owners(email) :
          \/ status(doc) \in {"ok", "merged"} /\ Done(w)
          \/ status(doc) \in {"contact", "deleted"} /\ Go(w, "add")
          \/ /\ status(doc) = "ghost"
             /\ req' = [req EXCEPT ![w].at = "forward", ![w].doc = doc,
                                   ![w].read = [NoUser EXCEPT
                                                  !.swaggers = users[doc].swaggers]]
     \/ owners(email) = {} /\ Go(w, "add")
  /\ UNCHANGED <<users, transactions, history>>

\* Who has the address is merged, of which neither the addresses nor the address books that
\* have it were asked for; a contact is none of the cases.
Previous(w) ==
  LET email == req[w].email IN
  /\ At(w, "previous")
  /\ \/ \E doc \in owners(email) :
          \/ status(doc) \in {"ok", "merged"} /\ Done(w)
          \/ status(doc) = "contact" /\ Go(w, "add")
          \/ /\ status(doc) \in {"ghost", "deleted"}
             /\ req' = [req EXCEPT ![w].at = "forward", ![w].doc = doc,
                                   ![w].read = [NoUser EXCEPT
                                                  !.swaggers = users[doc].swaggers]]
     \/ owners(email) = {} /\ Go(w, "add")
  /\ UNCHANGED <<users, transactions, history>>

\* change_email, of an address that nobody has; swap_primary_account, of one of his.
ChangeEmail(w, u, email) == /\ LoggedIn(u) /\ users[u].email # email
                            /\ owners(email) \subseteq {u}
                            /\ Start(w, "email", "change", u, email, u)
                            /\ UNCHANGED <<users, transactions, history>>

\* cancel_transactions.
canceled(u) == [n \in Ops |-> IF u \in {transactions[n].from, transactions[n].to}
                                THEN [transactions[n] EXCEPT !.over = TRUE]
                                ELSE transactions[n]]

\* _change_email.
Change(w) ==
  LET u == req[w].user
      email == req[w].email
  IN
  /\ At(w, "change")
  /\ transactions' = canceled(u)
  /\ users' = IF free({email}, u)
                THEN [users EXCEPT ![u].email = email, ![u].accounts = @ \union {email}]
                ELSE users
  /\ Done(w)
  /\ UNCHANGED history

\* Faulty: the primary address as the session knows it is looked at, not that of the document.
RemoveRead(w) ==
  /\ At(w, "remove")
  /\ users' = [users EXCEPT ![req[w].user].accounts = @ \ {req[w].email}]
  /\ Done(w)
  /\ UNCHANGED <<transactions, history>>

\* remove_auxiliary_email_address.
RemoveAddress(w, u, email) == /\ LoggedIn(u) /\ email \in users[u].accounts
                              /\ users[u].email # email
                              /\ Start(w, "remove", "remove", u, email, u)
                              /\ UNCHANGED <<users, transactions, history>>

Remove(w) ==
  LET u == req[w].user
      email == req[w].email
  IN
  /\ At(w, "remove")
  /\ users' = IF users[u].email # email
                THEN [users EXCEPT ![u].accounts = @ \ {email}] ELSE users
  /\ Done(w)
  /\ UNCHANGED <<transactions, history>>

\* user_delete, without merge_with.
Delete(w, u) == /\ LoggedIn(u)
                /\ Start(w, "delete", "erase", u, NoEmail, u)
                /\ transactions' = canceled(u)
                /\ UNCHANGED <<users, history>>

Erase(w) == /\ At(w, "erase")
            /\ users' = [users EXCEPT ![req[w].doc] = cleared(req[w].doc, "deleted")]
            /\ Done(w)
            /\ UNCHANGED <<transactions, history>>

-----------------------------------------------------------------------------
Begin(w) ==
  /\ req[w].at = "idle" /\ started < MaxOps
  /\ \/ \E u \in Users :
          \/ Contacts(w, u) \/ Delete(w, u)
          \/ \E ghost \in Users : Find(w, u, ghost)
          \/ \E email \in Emails : \/ Look(w, u, email) \/ Confirm(w, u, email)
                                   \/ ChangeEmail(w, u, email) \/ RemoveAddress(w, u, email)
     \/ \E email \in Emails : Upsert(w, email)

Steps(w) == \/ RegisterGhost(w) \/ Insert(w) \/ IncreaseSwag(w)
            \/ Transform(w) \/ Welcome(w) \/ Store(w)
            \/ Forward(w) \/ Clear(w) \/ Give(w) \/ Rest(w)
            \/ Add(w) \/ Previous(w) \/ Change(w) \/ Remove(w) \/ Erase(w)

ANext == \E w \in Workers : Begin(w) \/ Steps(w)

\* A request that has begun is carried on.
Fairness == \A w \in Workers : WF_avars(Steps(w))

ASpec == AInit /\ [][ANext]_avars /\ Fairness

-----------------------------------------------------------------------------
(***************************************************************************)
(* Properties.                                                             *)
(***************************************************************************)

Statuses == {"none", "contact", "ghost", "ok", "deleted", "merged"}
Documents == [status : Statuses, accounts : SUBSET Emails, email : Emails \union {NoEmail},
              swaggers : SUBSET Users, contact_of : SUBSET Users]

ATypeOK == /\ users \in [Users -> Documents]
           /\ transactions \in [Ops -> [from : Users \union {Nobody},
                                        to : Users \union {Nobody}, over : BOOLEAN]]
           /\ \A w \in Workers : /\ req[w].n \in 0..MaxOps
                                 /\ req[w].user \in Users \union {Nobody}
                                 /\ req[w].email \in Emails \union {NoEmail}
                                 /\ req[w].doc \in Users \union {Nobody}
                                 /\ req[w].read \in Documents
           /\ started \in 0..MaxOps
           /\ wins \in [Users -> Nat]
           /\ {stale, aborted} \subseteq BOOLEAN
           /\ late \subseteq Ops

AtRest == \A w \in Workers : req[w].at = "idle"

\* Safety: a registered user can log in with his address and be found by it: it is one of
\* his accounts, whatever is added, removed, changed and merged at once.
PrimaryListed ==
  /\ ATypeOK
  /\ \A u \in Users : status(u) = "ok" => users[u].email \in users[u].accounts

\* Safety: one registration of a document succeeds, however many are made of its address,
\* unless a request has unmade the user (user_register).
RegisteredOnce == stale \/ \A u \in Users : wins[u] <= 1

\* Safety: whatever is registered, merged and deleted at once, a registered user is one
\* document that can be found by its address.
Registered == PrimaryListed /\ RegisteredOnce

\* Safety: when meta is at rest no transaction waits for a ghost that was merged, unless the
\* merge was dropped or it was sent, or forwarded, to what was read before the merge.
Forwarded ==
  AtRest /\ ~aborted =>
    \A n \in Ops : LET t == transactions[n] IN
      ~t.over /\ n \notin late => status(t.to) # "merged"

\* Safety: when meta is at rest, whoever has a registered user in his address book knows him.
ContactsMeet ==
  AtRest /\ ~stale =>
    \A u, v \in Users : status(u) = "ok" /\ status(v) = "ok" /\ v \in users[u].contact_of
                          => u \in users[v].swaggers

\* Liveness: a request ends, unless it confirms the address of a contact (account_confirm).
RequestsEnd ==
  <>[] \A w \in Workers :
         \/ req[w].at = "idle"
         \/ req[w].op = "confirm" /\ \E u \in owners(req[w].email) : status(u) = "contact"

=============================================================================
