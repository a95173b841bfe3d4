---------------------------- MODULE MeetingProofs ----------------------------
(***************************************************************************)
(* Proofs about who finds whom. Accounts: what is true of the accounts of  *)
(* meta, whatever requests are served at once, for any documents, addresses*)
(* and requests. Station and PeerConnection, for any number of connections,*)
(* addresses and faults: the rounds use their stations as Station lets an  *)
(* owner, so that what is proved of Station holds of them, and they hold   *)
(* every host.                                                             *)
(***************************************************************************)
EXTENDS Accounts, PeerConnection, TLAPS

-----------------------------------------------------------------------------
(***************************************************************************)
(* Accounts.                                                               *)
(***************************************************************************)

Kinds == {"none", "send", "register", "contacts", "merge", "confirm", "email", "remove", "delete"}
Stages == {"idle", "ghost", "insert", "swag", "transform", "welcome", "store", "forward", "clear",
           "give", "rest", "add", "previous", "change", "remove", "erase"}

Requests == [op : Kinds, at : Stages, n : 0..MaxOps, user : Users \union {Nobody},
             email : Emails \union {NoEmail}, doc : Users \union {Nobody}, read : Documents]

\* Where a request has a user, an address and a document.
ForUser == {"ghost", "insert", "swag", "store", "forward", "clear", "give", "rest", "add",
            "previous", "change", "remove"}
ForEmail == {"ghost", "transform", "add", "previous", "change", "remove"}
ForDoc == {"insert", "swag", "welcome", "forward", "clear", "give", "rest", "erase"}

Able(r) == /\ r.at # "idle" => r.n \in Ops
           /\ r.at \in ForUser => r.user \in Users
           /\ r.at \in ForEmail => r.email \in Emails
           /\ r.op = "confirm" => r.email \in Emails
           /\ r.at \in ForDoc => r.doc \in Users

\* What goes on is to somebody.
Addressed == \A n \in Ops : ~transactions[n].over => transactions[n].to \in Users

Typed == /\ ATypeOK
         /\ req \in [Workers -> Requests]
         /\ \A w \in Workers : Able(req[w])
         /\ Addressed

-----------------------------------------------------------------------------
(***************************************************************************)
(* The types.                                                              *)
(***************************************************************************)

\* What the parts of Typed are made of.
LEMMA Parts ==
  Typed <=> /\ users \in [Users -> Documents]
            /\ transactions \in [Ops -> [from : Users \union {Nobody},
                                         to : Users \union {Nobody}, over : BOOLEAN]]
            /\ Addressed
            /\ req \in [Workers -> Requests] /\ \A w \in Workers : Able(req[w])
            /\ started \in 0..MaxOps
            /\ wins \in [Users -> Nat]
            /\ stale \in BOOLEAN /\ aborted \in BOOLEAN
            /\ late \subseteq Ops
  BY DEF Typed, ATypeOK, Requests

\* The same after a step.
LEMMA PartsNext ==
  ASSUME users' \in [Users -> Documents],
         transactions' \in [Ops -> [from : Users \union {Nobody},
                                    to : Users \union {Nobody}, over : BOOLEAN]],
         Addressed',
         req' \in [Workers -> Requests], \A w \in Workers : Able(req'[w]),
         started' \in 0..MaxOps,
         wins' \in [Users -> Nat],
         stale' \in BOOLEAN, aborted' \in BOOLEAN,
         late' \subseteq Ops
  PROVE  Typed'
  BY DEF Typed, ATypeOK, Requests

\* The documents that are written.
LEMMA Drafts ==
  /\ NoUser \in Documents
  /\ \A e \in Emails : registered(e) \in Documents
  /\ \A u \in Users, s \in Statuses : Typed => cleared(u, s) \in Documents
<1>1. NoUser \in Documents
  BY DEF NoUser, Documents, Statuses
<1>2. \A e \in Emails : registered(e) \in Documents
  BY DEF NoUser, registered, Documents, Statuses
<1>3. ASSUME Typed, NEW u \in Users, NEW s \in Statuses PROVE cleared(u, s) \in Documents
  <2>1. users[u].contact_of \subseteq Users
    BY <1>3, Parts DEF Documents
  <2> QED
    BY <2>1 DEF NoUser, cleared, Documents
<1> QED
  BY <1>1, <1>2, <1>3

\* What a document becomes.
LEMMA Edits ==
  ASSUME NEW d \in Documents
  PROVE  /\ \A s \in Statuses, e \in Emails :
              [d EXCEPT !.status = s, !.email = e, !.swaggers = {}] \in Documents
         /\ \A vs \in SUBSET Users : [d EXCEPT !.swaggers = @ \union vs] \in Documents
         /\ \A e \in Emails : [d EXCEPT !.email = e, !.accounts = @ \union {e}] \in Documents
  BY DEF Documents

\* A request that begins.
LEMMA Begun ==
  ASSUME Typed, NEW w \in Workers, NEW op \in Kinds, NEW place \in Stages,
         NEW user \in Users \union {Nobody}, NEW email \in Emails \union {NoEmail},
         NEW doc \in Users \union {Nobody}, Start(w, op, place, user, email, doc), started < MaxOps,
         place \in ForUser => user \in Users,
         place \in ForEmail \/ op = "confirm" => email \in Emails,
         place \in ForDoc => doc \in Users
  PROVE  /\ req' \in [Workers -> Requests] /\ \A v \in Workers : Able(req'[v])
         /\ started' \in 0..MaxOps
<1>1. MaxOps \in Nat /\ Nobody \notin Users
  BY AccountsAssumption
<1>2. started' \in 0..MaxOps /\ started' \in Ops
  BY <1>1, Parts DEF Start, Ops
<1> DEFINE read == IF doc = Nobody THEN NoUser ELSE users[doc]
           r == [op |-> op, at |-> place, n |-> started', user |-> user, email |-> email,
                 doc |-> doc, read |-> read]
<1>3. read \in Documents
  BY Parts, Drafts
<1>4. req' = [req EXCEPT ![w] = r]
  BY DEF Start
<1> HIDE DEF read
<1>5. r \in Requests /\ Able(r)
  BY <1>2, <1>3 DEF Requests, Able
<1> HIDE DEF r
<1> QED
  BY <1>2, <1>4, <1>5, Parts

\* A request that goes on.
LEMMA Gone ==
  ASSUME Typed, NEW w \in Workers, NEW r \in Requests, Able(r), req' = [req EXCEPT ![w] = r]
  PROVE  req' \in [Workers -> Requests] /\ \A v \in Workers : Able(req'[v])
  BY Parts

\* The next step of a request, and its end.
LEMMA GoesOn ==
  ASSUME Typed, NEW w \in Workers
  PROVE  /\ \A place \in Stages :
              /\ req[w].at # "idle"
              /\ place \in ForUser => req[w].user \in Users
              /\ place \in ForEmail => req[w].email \in Emails
              /\ place \in ForDoc => req[w].doc \in Users
              /\ Go(w, place)
              => req' \in [Workers -> Requests] /\ \A v \in Workers : Able(req'[v])
         /\ Done(w) => req' \in [Workers -> Requests] /\ \A v \in Workers : Able(req'[v])
<1>1. ASSUME NEW place \in Stages, req[w].at # "idle",
             place \in ForUser => req[w].user \in Users,
             place \in ForEmail => req[w].email \in Emails,
             place \in ForDoc => req[w].doc \in Users, Go(w, place)
      PROVE  req' \in [Workers -> Requests] /\ \A v \in Workers : Able(req'[v])
  <2> DEFINE r == [req[w] EXCEPT !.at = place]
  <2>1. r \in Requests /\ Able(r)
    BY <1>1, Parts DEF Requests, Able
  <2>2. req' = [req EXCEPT ![w] = r]
    BY <1>1 DEF Go
  <2> HIDE DEF r
  <2> QED
    BY <2>1, <2>2, Gone
<1>2. ASSUME Done(w) PROVE req' \in [Workers -> Requests] /\ \A v \in Workers : Able(req'[v])
  <2>1. NoRequest \in Requests /\ Able(NoRequest)
    BY Drafts, AccountsAssumption DEF NoRequest, Requests, Able, Kinds, Stages, ForUser, ForEmail, ForDoc
  <2> QED
    BY <1>2, <2>1, Gone DEF Done
<1> QED
  BY <1>1, <1>2

\* What a change of the documents, and of nothing else but the request, leaves to see.
LEMMA Rewritten ==
  ASSUME Typed, users' \in [Users -> Documents], UNCHANGED <<transactions, started, late>>,
         wins' \in [Users -> Nat], stale' \in BOOLEAN, aborted' \in BOOLEAN,
         req' \in [Workers -> Requests], \A v \in Workers : Able(req'[v])
  PROVE  Typed'
<1>1. Addressed'
  BY Parts DEF Addressed
<1> QED
  BY <1>1, Parts, PartsNext

\* Requests that begin.
LEMMA TypedBegin ==
  ASSUME Typed, NEW w \in Workers, Begin(w)
  PROVE  Typed'
<1> DEFINE Laid == /\ req' \in [Workers -> Requests] /\ \A v \in Workers : Able(req'[v])
                   /\ started' \in 0..MaxOps
<1>1. MaxOps \in Nat /\ Nobody \notin Users /\ NoEmail \notin Emails /\ started < MaxOps
  BY AccountsAssumption DEF Begin
<1>2. ASSUME Laid, UNCHANGED <<users, transactions, history>> PROVE Typed'
  <2>1. Addressed'
    BY <1>2, Parts DEF Addressed
  <2> QED
    BY <1>2, <2>1, Parts, PartsNext DEF history
<1>3. ASSUME NEW u \in Users, Contacts(w, u) PROVE Typed'
  <2>1. PICK met \in {UNION {owners(email) : email \in Book}} :
       /\ started' = started + 1
       /\ req' = [req EXCEPT ![w] =
                    [NoRequest EXCEPT
                       !.op = "contacts", !.at = "store", !.user = u, !.n = started',
                       !.read = [NoUser EXCEPT
                          !.status = IF met = {} THEN "none" ELSE "ok",
                          !.swaggers = {v \in met : status(v) = "ok"},
                          !.contact_of = {v \in met : status(v) \in Unregistered}]]]
    BY <1>3 DEF Contacts
  <2>2. met \subseteq Users
    BY <2>1 DEF owners
  <2> DEFINE read == [NoUser EXCEPT
                          !.status = IF met = {} THEN "none" ELSE "ok",
                          !.swaggers = {v \in met : status(v) = "ok"},
                          !.contact_of = {v \in met : status(v) \in Unregistered}]
             r == [NoRequest EXCEPT !.op = "contacts", !.at = "store", !.user = u, !.n = started',
                                    !.read = read]
  <2>3. read \in Documents
    BY <2>2 DEF NoUser, Documents, Statuses
  <2>4. started' \in 0..MaxOps /\ started' \in Ops
    BY <1>1, <2>1, Parts DEF Ops
  <2> HIDE DEF read
  <2>5. r \in Requests /\ Able(r)
    BY <2>3, <2>4 DEF Requests, Able, NoRequest, Kinds, Stages, ForUser, ForEmail, ForDoc
  <2>6. req' = [req EXCEPT ![w] = r]
    BY <2>1 DEF read
  <2>7. Laid
    BY <2>4, <2>5, <2>6, Gone
  <2> QED
    BY <1>2, <1>3, <2>7 DEF Contacts
<1>4. ASSUME NEW u \in Users, Delete(w, u) PROVE Typed'
  <2>1. Start(w, "delete", "erase", u, NoEmail, u)
    BY <1>4 DEF Delete
  <2>2. Laid
    BY <1>1, <2>1, Begun DEF Kinds, Stages, ForUser, ForEmail, ForDoc
  <2>3. transactions' = canceled(u)
    BY <1>4 DEF Delete
  <2>4. transactions' \in [Ops -> [from : Users \union {Nobody}, to : Users \union {Nobody}, over : BOOLEAN]]
    BY ZenonT(60), <2>3, Parts DEF canceled
  <2>5. Addressed'
    BY <2>3, Parts DEF canceled, Addressed
  <2> QED
    BY <1>4, <2>2, <2>4, <2>5, Parts, PartsNext DEF Delete, history
<1>5. ASSUME NEW u \in Users, NEW ghost \in Users, Find(w, u, ghost) PROVE Typed'
  <2>1. Start(w, "merge", "forward", u, NoEmail, ghost)
    BY <1>5 DEF Find
  <2>2. Laid
    BY <1>1, <2>1, Begun DEF Kinds, Stages, ForUser, ForEmail, ForDoc
  <2> QED
    BY <1>2, <1>5, <2>2 DEF Find
<1>6. ASSUME NEW u \in Users, NEW email \in Emails, Look(w, u, email) PROVE Typed'
  <2>1. CASE Start(w, "send", "ghost", u, email, Nobody)
    <3>1. Laid
      BY <1>1, <2>1, Begun DEF Kinds, Stages, ForUser, ForEmail, ForDoc
    <3> QED
      BY <1>2, <1>6, <3>1 DEF Look
  <2>2. ASSUME NEW doc \in owners(email), NEW place \in {"ghost", "insert"},
               Start(w, "send", place, u, email, doc)
        PROVE  Typed'
    <3>1. doc \in Users
      BY DEF owners
    <3>2. Laid
      BY <1>1, <2>2, <3>1, Begun DEF Kinds, Stages, ForUser, ForEmail, ForDoc
    <3> QED
      BY <1>2, <1>6, <3>2 DEF Look
  <2>3. \/ Start(w, "send", "ghost", u, email, Nobody)
        \/ \E doc \in owners(email) :
             Start(w, "send", IF status(doc) = "contact" THEN "ghost" ELSE "insert", u, email, doc)
    BY <1>6 DEF Look
  <2> QED
    BY <2>1, <2>2, <2>3
<1>7. ASSUME NEW u \in Users, NEW email \in Emails, Confirm(w, u, email) PROVE Typed'
  <2>1. Start(w, "confirm", "add", u, email, Nobody)
    BY <1>7 DEF Confirm
  <2>2. Laid
    BY <1>1, <2>1, Begun DEF Kinds, Stages, ForUser, ForEmail, ForDoc
  <2> QED
    BY <1>2, <1>7, <2>2 DEF Confirm
<1>8. ASSUME NEW u \in Users, NEW email \in Emails, ChangeEmail(w, u, email) PROVE Typed'
  <2>1. Start(w, "email", "change", u, email, u)
    BY <1>8 DEF ChangeEmail
  <2>2. Laid
    BY <1>1, <2>1, Begun DEF Kinds, Stages, ForUser, ForEmail, ForDoc
  <2> QED
    BY <1>2, <1>8, <2>2 DEF ChangeEmail
<1>9. ASSUME NEW u \in Users, NEW email \in Emails, RemoveAddress(w, u, email) PROVE Typed'
  <2>1. Start(w, "remove", "remove", u, email, u)
    BY <1>9 DEF RemoveAddress
  <2>2. Laid
    BY <1>1, <2>1, Begun DEF Kinds, Stages, ForUser, ForEmail, ForDoc
  <2> QED
    BY <1>2, <1>9, <2>2 DEF RemoveAddress
<1>10. ASSUME NEW email \in Emails, Upsert(w, email) PROVE Typed'
  <2>1. CASE \E u \in Users : /\ owners(email) = {}
                              /\ insert(registered(email), u)
                              /\ Start(w, "register", "welcome", Nobody, email, u)
                              /\ Won(u)
    <3>1. PICK u \in Users : /\ insert(registered(email), u)
                             /\ Start(w, "register", "welcome", Nobody, email, u)
                             /\ Won(u)
      BY <2>1
    <3>2. Laid
      BY <1>1, <3>1, Begun DEF Kinds, Stages, ForUser, ForEmail, ForDoc
    <3>3. users' \in [Users -> Documents] /\ wins' \in [Users -> Nat]
      BY <3>1, Parts, Drafts DEF insert, Won
    <3>4. Addressed'
      BY <1>10, Parts DEF Addressed, Upsert
    <3> QED
      BY <1>10, <3>2, <3>3, <3>4, Parts, PartsNext DEF Upsert
  <2>2. CASE \E u \in owners(email) : /\ Start(w, "register", "transform", Nobody, email, u)
                                      /\ UNCHANGED <<users, wins>>
    <3>1. PICK u \in owners(email) : Start(w, "register", "transform", Nobody, email, u)
      BY <2>2
    <3>2. u \in Users
      BY DEF owners
    <3>3. Laid
      BY <1>1, <3>1, <3>2, Begun DEF Kinds, Stages, ForUser, ForEmail, ForDoc
    <3> QED
      BY <1>2, <1>10, <2>2, <3>3 DEF Upsert, history
  <2> QED
    BY <1>10, <2>1, <2>2 DEF Upsert
<1> QED
  BY <1>3, <1>4, <1>5, <1>6, <1>7, <1>8, <1>9, <1>10 DEF Begin

\* The transactions that are forwarded.
LEMMA Sent ==
  ASSUME Typed, NEW w \in Workers, req[w].at \in ForDoc, req[w].user \in Users, Forwards(w)
  PROVE  /\ transactions' \in [Ops -> [from : Users \union {Nobody}, to : Users \union {Nobody},
                                       over : BOOLEAN]]
         /\ Addressed' /\ late' \subseteq Ops
<1>1. transactions' = forwarded(req[w].doc, req[w].user)
  BY DEF Forwards
<1>2. late' \subseteq Ops
  BY Parts DEF Forwards, Lost
<1>3. transactions' \in [Ops -> [from : Users \union {Nobody}, to : Users \union {Nobody},
                                 over : BOOLEAN]]
  BY <1>1, Parts DEF forwarded
<1>4. Addressed'
  BY <1>1, Parts DEF forwarded, Addressed
<1> QED
  BY <1>2, <1>3, <1>4

\* Requests that go on.
LEMMA TypedSteps ==
  ASSUME Typed, NEW w \in Workers, Steps(w)
  PROVE  Typed'
<1> DEFINE r == req[w]
           Laid == req' \in [Workers -> Requests] /\ \A v \in Workers : Able(req'[v])
<1>1. /\ r \in Requests /\ Able(r)
      /\ Nobody \notin Users /\ NoEmail \notin Emails /\ First \in Users /\ Book \subseteq Emails
  BY Parts, AccountsAssumption
<1>2. \A u \in Users : users[u] \in Documents
  BY Parts
<1> DEFINE Forms == [Users -> Documents]
<1>3. ASSUME RegisterGhost(w) PROVE Typed'
  <2>1. r.at = "ghost" /\ r.email \in Emails /\ r.user \in Users
    BY <1>1, <1>3 DEF RegisterGhost, At, Able, ForEmail, ForUser
  <2>2. CASE r.doc = Nobody /\ free({r.email}, Nobody)
    <3> DEFINE doc == [NoUser EXCEPT !.status = "ghost", !.email = r.email, !.accounts = {r.email}]
    <3>1. PICK u \in Users : insert(doc, u) /\ Work(w, "insert", u)
      BY <1>3, <2>2, <1>1 DEF RegisterGhost
    <3>2. doc \in Documents
      BY <2>1 DEF NoUser, Documents, Statuses
    <3>3. users' \in Forms
      BY <3>1, <3>2, Parts DEF insert
    <3> DEFINE s == [r EXCEPT !.at = "insert", !.doc = u]
    <3>4. s \in Requests /\ Able(s)
      BY <1>1, <2>1 DEF Requests, Able, Stages, ForEmail, ForUser, ForDoc
    <3>5. req' = [req EXCEPT ![w] = s]
      BY <3>1 DEF Work
    <3> HIDE DEF s
    <3>6. Laid
      BY <3>4, <3>5, Gone
    <3> QED
      BY <1>1, <1>3, <2>2, <3>3, <3>6, Rewritten, Parts DEF RegisterGhost, At
  <2>3. CASE r.doc = Nobody /\ ~free({r.email}, Nobody)
    <3>1. Done(w) /\ UNCHANGED <<users, stale>>
      BY <1>3, <2>3, <1>1 DEF RegisterGhost
    <3>2. Laid
      BY <3>1, GoesOn
    <3> QED
      BY <1>3, <3>1, <3>2, Rewritten, Parts DEF RegisterGhost, At
  <2>4. CASE r.doc # Nobody
    <3>1. /\ users' = [users EXCEPT ![r.doc] =
                         [@ EXCEPT !.status = "ghost", !.email = r.email, !.swaggers = {}]]
          /\ stale' = (stale \/ status(r.doc) # "contact")
          /\ Go(w, "insert")
      BY <1>3, <2>4 DEF RegisterGhost
    <3>2. r.doc \in Users
      BY <1>1, <2>4 DEF Requests
    <3>3. [users[r.doc] EXCEPT !.status = "ghost", !.email = r.email, !.swaggers = {}] \in Documents
      BY <1>2, <2>1, <3>2, Edits DEF Statuses
    <3>4. users' \in Forms
      BY <3>1, <3>3, Parts
    <3>5. Laid
      BY <2>1, <3>1, <3>2, GoesOn DEF Stages, ForEmail, ForUser, ForDoc
    <3> QED
      BY <1>3, <3>1, <3>4, <3>5, Rewritten, Parts DEF RegisterGhost, At
  <2> QED
    BY <2>2, <2>3, <2>4
<1>4. ASSUME Insert(w) PROVE Typed'
  <2>1. r.at = "insert" /\ r.user \in Users /\ r.doc \in Users /\ r.n \in Ops
    BY <1>1, <1>4 DEF Insert, At, Able, ForUser, ForDoc
  <2>2. transactions' = [transactions EXCEPT ![r.n] = [from |-> r.user, to |-> r.doc, over |-> FALSE]]
    BY <1>4 DEF Insert
  <2>3. /\ transactions' \in [Ops -> [from : Users \union {Nobody}, to : Users \union {Nobody},
                                      over : BOOLEAN]]
        /\ Addressed'
    BY <2>1, <2>2, Parts DEF Addressed
  <2>4. late' \subseteq Ops
    BY <1>4, <2>1, Parts DEF Insert, Lost
  <2>5. Laid
    BY <1>4, <2>1, GoesOn DEF Insert, Stages, ForEmail, ForUser, ForDoc
  <2> QED
    BY <1>4, <2>3, <2>4, <2>5, Parts, PartsNext DEF Insert, At
<1>5. ASSUME IncreaseSwag(w) PROVE Typed'
  <2>1. r.user \in Users /\ r.doc \in Users
    BY <1>1, <1>5 DEF IncreaseSwag, At, Able, ForUser, ForDoc
  <2>2. users' = [users EXCEPT ![r.user].swaggers = @ \union {r.doc},
                               ![r.doc].swaggers = @ \union {r.user}]
    BY <1>5 DEF IncreaseSwag
  <2> DEFINE half == [users EXCEPT ![r.user].swaggers = @ \union {r.doc}]
  <2>3. half \in Forms
    <3>1. [users[r.user] EXCEPT !.swaggers = @ \union {r.doc}] \in Documents
      BY <1>2, <2>1, Edits
    <3> QED
      BY <2>1, <3>1, Parts
  <2>4. users' = [half EXCEPT ![r.doc].swaggers = @ \union {r.user}]
    BY <2>2, Zenon
  <2> HIDE DEF half
  <2>5. users' \in Forms
    BY <2>1, <2>3, <2>4 DEF Documents
  <2>6. Laid
    BY <1>5, GoesOn DEF IncreaseSwag
  <2> QED
    BY <1>5, <2>5, <2>6, Rewritten, Parts DEF IncreaseSwag, At, history
<1>6. ASSUME Transform(w) PROVE Typed'
  <2>1. r.at = "transform" /\ r.email \in Emails
    BY <1>1, <1>6 DEF Transform, At, Able, ForEmail
  <2> DEFINE met == {u \in owners(r.email) : status(u) \in Unregistered}
  <2>2. ASSUME NEW u \in met,
               users' = [users EXCEPT ![u] =
                           [registered(r.email) EXCEPT !.swaggers = r.read.swaggers,
                                                       !.contact_of = users[u].contact_of]],
               req' = [req EXCEPT ![w].at = "welcome", ![w].doc = u, ![w].read = users[u]],
               Won(u)
        PROVE  Typed'
    <3>1. u \in Users
      BY DEF owners
    <3>2. [registered(r.email) EXCEPT !.swaggers = r.read.swaggers,
                                      !.contact_of = users[u].contact_of] \in Documents
      <4>1. r.read.swaggers \subseteq Users /\ users[u].contact_of \subseteq Users
        BY <1>1, <1>2, <3>1 DEF Requests, Documents
      <4> QED
        BY <2>1, <4>1, Drafts DEF Documents
    <3>3. users' \in Forms /\ wins' \in [Users -> Nat]
      BY <2>2, <3>1, <3>2, Parts DEF Won
    <3> DEFINE s == [r EXCEPT !.at = "welcome", !.doc = u, !.read = users[u]]
    <3>4. s \in Requests /\ Able(s)
      BY <1>1, <1>2, <2>1, <3>1 DEF Requests, Able, Stages, ForEmail, ForUser, ForDoc
    <3>5. req' = [req EXCEPT ![w] = s]
      BY <2>2
    <3> HIDE DEF s
    <3>6. Laid
      BY <3>4, <3>5, Gone
    <3> QED
      BY <1>6, <3>3, <3>6, Rewritten, Parts DEF Transform, At
  <2>3. ASSUME Done(w), UNCHANGED <<users, wins>> PROVE Typed'
    <3>1. Laid
      BY <2>3, GoesOn
    <3> QED
      BY <1>6, <2>3, <3>1, Rewritten, Parts DEF Transform, At
  <2> QED
    BY <1>6, <2>2, <2>3 DEF Transform
<1>7. ASSUME Welcome(w) PROVE Typed'
  <2>1. r.at = "welcome" /\ r.doc \in Users
    BY <1>1, <1>7 DEF Welcome, At, Able, ForDoc
  <2>2. users' \in Forms
    BY <1>2, <1>7, <2>1 DEF Welcome, Befriend, Documents
  <2>3. Laid
    BY <1>7, GoesOn DEF Welcome
  <2> QED
    BY <1>7, <2>2, <2>3, Rewritten, Parts DEF Welcome, At, history
<1>8. ASSUME Store(w) PROVE Typed'
  <2>1. r.at = "store" /\ r.user \in Users
    BY <1>1, <1>8 DEF Store, At, Able, ForUser
  <2> DEFINE mark(v) == IF v \in r.read.contact_of /\ status(v) \in Unregistered
                          THEN [users[v] EXCEPT !.contact_of = @ \union {r.user}]
                        ELSE IF v = r.user THEN [users[v] EXCEPT !.swaggers = @ \union r.read.swaggers]
                        ELSE users[v]
             doc == [NoUser EXCEPT !.status = "contact", !.accounts = Book, !.contact_of = {r.user}]
  <2>2. \/ \E v \in Users : insert(doc, v)
        \/ users' = [v \in Users |-> mark(v)]
    BY <1>8 DEF Store
  <2>3. doc \in Documents
    BY <1>1, <2>1 DEF NoUser, Documents, Statuses
  <2>4. \A v \in Users : mark(v) \in Documents
    BY <1>1, <1>2, <2>1 DEF Requests, Documents
  <2> HIDE DEF doc, mark
  <2>5. users' \in Forms
    BY <2>2, <2>3, <2>4, Parts DEF insert
  <2>6. Laid
    BY <1>8, GoesOn DEF Store
  <2> QED
    BY <1>8, <2>5, <2>6, Rewritten, Parts DEF Store, At, history
<1>9. ASSUME Forward(w) PROVE Typed'
  <2>1. r.at = "forward" /\ r.user \in Users /\ r.doc \in Users
    BY <1>1, <1>9 DEF Forward, At, Able, ForUser, ForDoc
  <2>2. Laid
    BY <1>9, <2>1, GoesOn DEF Forward, Stages, ForEmail, ForUser, ForDoc
  <2>3. /\ transactions' \in [Ops -> [from : Users \union {Nobody}, to : Users \union {Nobody},
                                      over : BOOLEAN]]
        /\ Addressed' /\ late' \subseteq Ops
    BY <1>9, <2>1, Sent DEF Forward, ForDoc
  <2> QED
    BY <1>9, <2>2, <2>3, Parts, PartsNext DEF Forward, At
<1>10. ASSUME Clear(w) PROVE Typed'
  <2>1. r.at = "clear" /\ r.user \in Users /\ r.doc \in Users
    BY <1>1, <1>10 DEF Clear, At, Able, ForUser, ForDoc
  <2>2. Laid
    BY <1>10, <2>1, GoesOn DEF Clear, Stages, ForEmail, ForUser, ForDoc
  <2>3. users' \in Forms
    BY <1>10, <2>1, Parts, Drafts DEF Clear, Statuses
  <2> QED
    BY <1>10, <2>2, <2>3, Rewritten, Parts DEF Clear, At
<1>11. ASSUME Give(w) PROVE Typed'
  <2>1. r.at = "give" /\ r.user \in Users /\ r.doc \in Users
    BY <1>1, <1>11 DEF Give, At, Able, ForUser, ForDoc
  <2>2. CASE /\ users' = [users EXCEPT ![r.user].accounts = @ \union r.read.accounts,
                                       ![r.user].swaggers = @ \union r.read.swaggers]
             /\ Go(w, "rest") /\ UNCHANGED aborted
    <3>1. users' \in Forms
      BY SMTT(30), <1>1, <2>1, <2>2, Parts DEF Requests, Documents
    <3>2. Laid
      BY <2>1, <2>2, GoesOn DEF Stages, ForEmail, ForUser, ForDoc
    <3> QED
      BY <1>11, <2>2, <3>1, <3>2, Rewritten, Parts DEF Give, At
  <2>3. CASE aborted' = TRUE /\ Done(w) /\ UNCHANGED users
    <3>1. Laid
      BY <2>3, GoesOn
    <3> QED
      BY <1>11, <2>3, <3>1, Rewritten, Parts DEF Give, At
  <2> QED
    BY <1>11, <2>2, <2>3 DEF Give
<1>12. ASSUME Rest(w) PROVE Typed'
  <2>1. r.at = "rest" /\ r.user \in Users /\ r.doc \in Users
    BY <1>1, <1>12 DEF Rest, At, Able, ForUser, ForDoc
  <2>2. Laid
    <3>1. CASE r.op = "confirm"
      <4>1. Go(w, "add") /\ r.email \in Emails
        BY <1>1, <1>12, <3>1 DEF Rest, Able
      <4> QED
        BY <2>1, <4>1, GoesOn DEF Stages, ForEmail, ForUser, ForDoc
    <3>2. CASE r.op # "confirm"
      BY <1>12, <3>2, GoesOn DEF Rest
    <3> QED
      BY <3>1, <3>2
  <2>3. /\ transactions' \in [Ops -> [from : Users \union {Nobody}, to : Users \union {Nobody},
                                      over : BOOLEAN]]
        /\ Addressed' /\ late' \subseteq Ops
    BY <1>12, <2>1, Sent DEF Rest, ForDoc
  <2>4. users' \in Forms
    BY <1>2, <1>12, <2>1 DEF Rest, Befriended, Documents
  <2> QED
    BY <1>12, <2>2, <2>3, <2>4, Parts, PartsNext DEF Rest, At
<1>13. ASSUME Add(w) PROVE Typed'
  <2>1. r.at = "add" /\ r.user \in Users /\ r.email \in Emails
    BY <1>1, <1>13 DEF Add, At, Able, ForUser, ForEmail
  <2>2. Laid
    BY <1>13, <2>1, GoesOn DEF Add, Stages, ForEmail, ForUser, ForDoc
  <2>3. users' \in Forms
    BY SMTT(30), <1>13, <2>1, Parts DEF Add, Documents
  <2> QED
    BY <1>13, <2>2, <2>3, Rewritten, Parts DEF Add, At, history
<1>14. ASSUME Previous(w) PROVE Typed'
  <2>1. r.at = "previous" /\ r.user \in Users /\ r.email \in Emails
    BY <1>1, <1>14 DEF Previous, At, Able, ForUser, ForEmail
  <2>2. ASSUME Done(w) \/ Go(w, "add") PROVE Laid
    BY <2>1, <2>2, GoesOn DEF Stages, ForEmail, ForUser, ForDoc
  <2>3. ASSUME NEW doc \in owners(r.email),
               req' = [req EXCEPT ![w].at = "forward", ![w].doc = doc,
                                  ![w].read = [NoUser EXCEPT !.swaggers = users[doc].swaggers]]
        PROVE  Laid
    <3>1. doc \in Users
      BY DEF owners
    <3> DEFINE s == [r EXCEPT !.at = "forward", !.doc = doc,
                              !.read = [NoUser EXCEPT !.swaggers = users[doc].swaggers]]
    <3>2. [NoUser EXCEPT !.swaggers = users[doc].swaggers] \in Documents
      BY <1>2, <3>1 DEF NoUser, Documents, Statuses
    <3>3. s \in Requests /\ Able(s)
      BY <1>1, <2>1, <3>1, <3>2 DEF Requests, Able, Stages, ForEmail, ForUser, ForDoc
    <3>4. req' = [req EXCEPT ![w] = s]
      BY <2>3
    <3> HIDE DEF s
    <3> QED
      BY <3>3, <3>4, Gone
  <2>4. Laid
    BY <1>14, <2>2, <2>3 DEF Previous
  <2> QED
    BY <1>14, <2>4, Rewritten, Parts DEF Previous, At, history
<1>15. ASSUME Change(w) PROVE Typed'
  <2>1. r.at = "change" /\ r.user \in Users /\ r.email \in Emails
    BY <1>1, <1>15 DEF Change, At, Able, ForUser, ForEmail
  <2>2. transactions' = canceled(r.user)
    BY <1>15 DEF Change
  <2>3. transactions' \in [Ops -> [from : Users \union {Nobody}, to : Users \union {Nobody}, over : BOOLEAN]]
    BY <2>2, Parts DEF canceled
  <2>4. Addressed'
    BY <2>2, Parts DEF canceled, Addressed
  <2>5. users' \in Forms
    BY <1>2, <1>15, <2>1, Parts, Edits DEF Change
  <2>6. Laid
    BY <1>15, GoesOn DEF Change
  <2> QED
    BY <1>15, <2>3, <2>4, <2>5, <2>6, Parts, PartsNext DEF Change, At, history
<1>16. ASSUME Remove(w) PROVE Typed'
  <2>1. r.at = "remove" /\ r.user \in Users /\ r.email \in Emails
    BY <1>1, <1>16 DEF Remove, At, Able, ForUser, ForEmail
  <2>2. users' \in Forms
    BY ZenonT(30), <1>16, <2>1, Parts DEF Remove, Documents
  <2>3. Laid
    BY <1>16, GoesOn DEF Remove
  <2> QED
    BY <1>16, <2>2, <2>3, Rewritten, Parts DEF Remove, At, history
<1>17. ASSUME Erase(w) PROVE Typed'
  <2>1. r.at = "erase" /\ r.doc \in Users
    BY <1>1, <1>17 DEF Erase, At, Able, ForDoc
  <2>2. users' \in Forms
    BY <1>17, <2>1, Parts, Drafts DEF Erase, Statuses
  <2>3. Laid
    BY <1>17, GoesOn DEF Erase
  <2> QED
    BY <1>17, <2>2, <2>3, Rewritten, Parts DEF Erase, At, history
<1> QED
  BY <1>3, <1>4, <1>5, <1>6, <1>7, <1>8, <1>9, <1>10, <1>11, <1>12, <1>13, <1>14, <1>15,
     <1>16, <1>17 DEF Steps

LEMMA TypedNext == ASSUME Typed, [ANext]_avars PROVE Typed'
<1>1. CASE ANext
  BY <1>1, TypedBegin, TypedSteps DEF ANext
<1>2. CASE UNCHANGED avars
  BY <1>2 DEF avars, history, Typed, ATypeOK, Addressed
<1> QED
  BY <1>1, <1>2

LEMMA TypedInit == AInit => Typed
<1> SUFFICES ASSUME AInit PROVE Typed
  OBVIOUS
<1>1. NoRequest \in Requests /\ Able(NoRequest)
  BY Drafts, AccountsAssumption DEF NoRequest, Requests, Able, Kinds, Stages, ForUser, ForEmail, ForDoc
<1>2. [NoUser EXCEPT !.status = "ok", !.email = Primary, !.accounts = {Primary}] \in Documents
  BY AccountsAssumption DEF NoUser, Documents, Statuses
<1>3. users \in [Users -> Documents] /\ wins \in [Users -> Nat]
  BY <1>2, Drafts DEF AInit
<1>4. req \in [Workers -> Requests] /\ \A w \in Workers : Able(req[w])
  BY <1>1 DEF AInit
<1>5. transactions \in [Ops -> [from : Users \union {Nobody}, to : Users \union {Nobody}, over : BOOLEAN]]
  BY DEF AInit, NoTransaction
<1>6. Addressed
  BY DEF AInit, NoTransaction, Addressed
<1> QED
  <2>1. started = 0 /\ stale = FALSE /\ aborted = FALSE /\ late = {}
    BY DEF AInit
  <2>2. started \in 0..MaxOps
    BY <2>1, AccountsAssumption
  <2> QED
    BY <1>3, <1>4, <1>5, <1>6, <2>1, <2>2, Parts

-----------------------------------------------------------------------------
(***************************************************************************)
(* The status of a document.                                               *)
(***************************************************************************)

\* Who has been a user.
Been(u) == status(u) \in {"ok", "deleted", "merged"}
Over(u) == status(u) \in {"deleted", "merged"}

\* A user stays one until he is deleted or merged, unless a request wrote over what he
\* had become.
LEMMA Fates ==
  ASSUME Typed, NEW w \in Workers, Begin(w) \/ Steps(w)
  PROVE  /\ stale => stale'
         /\ \A u \in Users : \/ status(u)' = status(u)
                             \/ status(u) = "none"
                             \/ status(u) \in Unregistered /\ status(u)' = "ok"
                             \/ Over(u)'
                             \/ (status(u) = "contact" \/ stale') /\ status(u)' = "ghost"
         /\ \A u \in Users : status(u)' = "merged" /\ status(u) # "merged"
                               => Clear(w) /\ u = req[w].doc
<1> DEFINE Goal == /\ stale => stale'
                   /\ \A u \in Users : \/ status(u)' = status(u)
                                       \/ status(u) = "none"
                                       \/ status(u) \in Unregistered /\ status(u)' = "ok"
                                       \/ Over(u)'
                                       \/ (status(u) = "contact" \/ stale') /\ status(u)' = "ghost"
                   /\ \A u \in Users : status(u)' = "merged" /\ status(u) # "merged"
                                         => Clear(w) /\ u = req[w].doc
           r == req[w]
           Same == \A u \in Users : status(u)' = status(u)
<1>1. ASSUME UNCHANGED stale, Same PROVE Goal
  BY <1>1
<1>2. \A u \in Users : users[u] \in Documents
  BY Parts
<1>3. users \in [Users -> Documents] /\ r \in Requests /\ Able(r)
  BY Parts
<1>4. ASSUME Begin(w) PROVE Goal
  <2>1. CASE UNCHANGED <<users, stale>>
    BY <1>1, <2>1 DEF status
  <2>2. ASSUME NEW email \in Emails, NEW u \in Users, insert(registered(email), u), UNCHANGED stale
        PROVE  Goal
    BY <1>3, <2>2 DEF insert, status, registered, NoUser
  <2>3. \/ UNCHANGED <<users, stale>>
        \/ \E email \in Emails : \E u \in Users : insert(registered(email), u) /\ UNCHANGED stale
    BY <1>4 DEF Begin, Contacts, Delete, Find, Look, Confirm, ChangeEmail, RemoveAddress, Upsert,
                history
  <2> QED
    BY <2>1, <2>2, <2>3
<1>5. ASSUME RegisterGhost(w) PROVE Goal
  <2>1. \/ \E u \in Users : insert([NoUser EXCEPT !.status = "ghost", !.email = r.email,
                                                  !.accounts = {r.email}], u) /\ UNCHANGED stale
        \/ UNCHANGED <<users, stale>>
        \/ /\ users' = [users EXCEPT ![r.doc] =
                         [@ EXCEPT !.status = "ghost", !.email = r.email, !.swaggers = {}]]
           /\ stale' = (stale \/ status(r.doc) # "contact")
    BY <1>5 DEF RegisterGhost
  <2>2. ASSUME users' = [users EXCEPT ![r.doc] =
                          [@ EXCEPT !.status = "ghost", !.email = r.email, !.swaggers = {}]],
               stale' = (stale \/ status(r.doc) # "contact")
        PROVE  Goal
    <3> DEFINE doc == [users[r.doc] EXCEPT !.status = "ghost", !.email = r.email, !.swaggers = {}]
    <3>1. users' = [users EXCEPT ![r.doc] = doc]
      BY <2>2, Zenon
    <3>2. r.doc \in Users => doc.status = "ghost"
      BY <1>2 DEF Documents
    <3> HIDE DEF doc
    <3>3. \A u \in Users : status(u)' = status(u) \/ (u = r.doc /\ status(u)' = "ghost")
      BY <1>3, <3>1, <3>2 DEF status
    <3> QED
      BY <2>2, <3>3 DEF status
  <2>3. ASSUME NEW u \in Users, UNCHANGED stale,
               insert([NoUser EXCEPT !.status = "ghost", !.email = r.email,
                                     !.accounts = {r.email}], u)
        PROVE  Goal
    BY <1>3, <2>3 DEF insert, status
  <2> QED
    BY <1>1, <2>1, <2>2, <2>3 DEF status
<1>6. ASSUME IncreaseSwag(w) PROVE Goal
  <2>1. users' = [users EXCEPT ![r.user].swaggers = @ \union {r.doc},
                               ![r.doc].swaggers = @ \union {r.user}]
    BY <1>6 DEF IncreaseSwag
  <2>2. r.user \in Users /\ r.doc \in Users
    BY <1>3, <1>6 DEF IncreaseSwag, At, Able, ForUser, ForDoc
  <2> DEFINE half == [users EXCEPT ![r.user].swaggers = @ \union {r.doc}]
  <2>3. users' = [half EXCEPT ![r.doc].swaggers = @ \union {r.user}]
    BY <2>1, Zenon
  <2>4. half \in [Users -> Documents] /\ \A u \in Users : half[u].status = users[u].status
    BY <1>2, <1>3, <2>2 DEF Documents
  <2> HIDE DEF half
  <2>5. Same
    BY <2>3, <2>4 DEF status, Documents
  <2> QED
    BY <1>1, <1>6, <2>5 DEF IncreaseSwag, history
<1>7. ASSUME Transform(w) PROVE Goal
  BY ZenonT(60), <1>2, <1>3, <1>7 DEF Transform, status, registered, owners, NoUser
<1>8. ASSUME Welcome(w) PROVE Goal
  <2>1. Same
    BY <1>2, <1>3, <1>8 DEF Welcome, Befriend, status, Documents
  <2> QED
    BY <1>1, <1>8, <2>1 DEF Welcome, history
<1>9. ASSUME Store(w) PROVE Goal
  <2> DEFINE doc == [NoUser EXCEPT !.status = "contact", !.accounts = Book, !.contact_of = {r.user}]
  <2>1. CASE \E v \in Users : insert(doc, v)
    BY <1>3, <1>9, <2>1 DEF Store, insert, status, NoUser, history
  <2>2. CASE ~\E v \in Users : insert(doc, v)
    <3>1. Same
      BY <1>2, <1>3, <1>9, <2>2 DEF Store, status, Documents
    <3> QED
      BY <1>1, <1>9, <3>1 DEF Store, history
  <2> QED
    BY <2>1, <2>2
<1>10. ASSUME Clear(w) PROVE Goal
  BY <1>3, <1>10 DEF Clear, cleared, NoUser, status, Over
<1>11. ASSUME Give(w) PROVE Goal
  <2>1. Same
    BY <1>2, <1>3, <1>11 DEF Give, status, Documents
  <2> QED
    BY <1>1, <1>11, <2>1 DEF Give
<1>12. ASSUME Rest(w) PROVE Goal
  <2>1. Same
    BY <1>2, <1>3, <1>12 DEF Rest, Befriended, status, Documents
  <2> QED
    BY <1>1, <1>12, <2>1 DEF Rest
<1>13. ASSUME Add(w) \/ Change(w) \/ Remove(w) PROVE Goal
  <2>1. Same
    BY <1>2, <1>3, <1>13 DEF Add, Change, Remove, status, Documents
  <2> QED
    BY <1>1, <1>13, <2>1 DEF Add, Change, Remove, history
<1>14. ASSUME Erase(w) PROVE Goal
  BY <1>3, <1>14 DEF Erase, cleared, NoUser, status, Over, history
<1>15. ASSUME Insert(w) \/ Forward(w) \/ Previous(w) PROVE Goal
  BY <1>1, <1>15 DEF Insert, Forward, Previous, status, history
<1> HIDE DEF Goal
<1>16. Goal
  BY <1>4, <1>5, <1>6, <1>7, <1>8, <1>9, <1>10, <1>11, <1>12, <1>13, <1>14, <1>15 DEF Steps
<1> QED
  BY <1>16 DEF Goal

\* What is kept unless a request wrote over a document.
LEMMA Stays ==
  ASSUME Typed, NEW w \in Workers, Begin(w) \/ Steps(w), ~stale'
  PROVE  /\ ~stale
         /\ \A u \in Users : /\ Been(u) => Been(u)'
                             /\ Over(u) => Over(u)'
                             /\ status(u)' = "ok" => status(u) \in {"ok", "none"} \union Unregistered
  BY Fates DEF Been, Over, Unregistered

\* A step is that of one request.
LEMMA Others ==
  ASSUME Typed, NEW w \in Workers, Begin(w) \/ Steps(w)
  PROVE  /\ \A v \in Workers \ {w} : req'[v] = req[v]
         /\ Begin(w) => req[w].at = "idle"
<1>1. req \in [Workers -> Requests]
  BY Parts
<1>2. ASSUME Begin(w) PROVE req[w].at = "idle" /\ \A v \in Workers \ {w} : req'[v] = req[v]
  <2> DEFINE Own == \E r : req' = [req EXCEPT ![w] = r]
  <2>1. ASSUME NEW op, NEW place, NEW user, NEW email, NEW doc, Start(w, op, place, user, email, doc)
        PROVE  Own
    BY <2>1 DEF Start
  <2>2. ASSUME NEW u \in Users, Contacts(w, u) PROVE Own
    BY <2>2 DEF Contacts
  <2> HIDE DEF Own
  <2>3. ASSUME NEW u \in Users, NEW v \in Users, Delete(w, u) \/ Find(w, u, v) PROVE Own
    BY <2>1, <2>3 DEF Delete, Find
  <2>4. ASSUME NEW u \in Users, NEW email \in Emails,
               \/ Confirm(w, u, email) \/ ChangeEmail(w, u, email) \/ RemoveAddress(w, u, email)
        PROVE  Own
    BY <2>1, <2>4 DEF Confirm, ChangeEmail, RemoveAddress
  <2>5. ASSUME NEW u \in Users, NEW email \in Emails, Look(w, u, email) PROVE Own
    BY <2>1, <2>5 DEF Look
  <2>6. ASSUME NEW email \in Emails, Upsert(w, email) PROVE Own
    BY <2>1, <2>6 DEF Upsert
  <2>7. Own
    BY <1>2, <2>2, <2>3, <2>4, <2>5, <2>6 DEF Begin
  <2> QED
    BY <1>1, <1>2, <2>7 DEF Own, Begin
<1>3. ASSUME Steps(w) PROVE \A v \in Workers \ {w} : req'[v] = req[v]
  <2>1. ASSUME \/ RegisterGhost(w) \/ Insert(w) \/ IncreaseSwag(w) \/ Transform(w) \/ Welcome(w)
               \/ Store(w)
        PROVE  \A v \in Workers \ {w} : req'[v] = req[v]
    BY <1>1, <2>1 DEF RegisterGhost, Insert, IncreaseSwag, Transform, Welcome, Store, Go, Work, Done
  <2>2. ASSUME Forward(w) \/ Clear(w) \/ Give(w) \/ Rest(w) \/ Add(w) \/ Previous(w)
        PROVE  \A v \in Workers \ {w} : req'[v] = req[v]
    BY <1>1, <2>2 DEF Forward, Clear, Give, Rest, Add, Previous, Go, Done
  <2>3. ASSUME Change(w) \/ Remove(w) \/ Erase(w) PROVE \A v \in Workers \ {w} : req'[v] = req[v]
    BY <1>1, <2>3 DEF Change, Remove, Erase, Done
  <2> QED
    BY <1>3, <2>1, <2>2, <2>3 DEF Steps
<1> QED
  BY <1>2, <1>3

-----------------------------------------------------------------------------
(***************************************************************************)
(* A registered user is found by his address.                              *)
(***************************************************************************)

Listed == \A u \in Users : status(u) = "ok" => users[u].email \in users[u].accounts

LEMMA ListedNext ==
  ASSUME Typed, Listed, NEW w \in Workers, Begin(w) \/ Steps(w)
  PROVE  Listed'
<1> DEFINE r == req[w]
           Longer == \A u \in Users : /\ users'[u].status = users[u].status
                                      /\ users'[u].email = users[u].email
                                      /\ users[u].accounts \subseteq users'[u].accounts
<1>1. ASSUME Longer PROVE Listed'
  BY <1>1 DEF Listed, status
<1>2. users \in [Users -> Documents] /\ \A u \in Users : users[u] \in Documents
  BY Parts
<1>3. r \in Requests /\ Able(r)
  BY Parts
<1>4. ASSUME Begin(w) PROVE Listed'
  <2>1. CASE UNCHANGED users
    BY <2>1 DEF Listed, status
  <2>2. ASSUME NEW email \in Emails, NEW u \in Users, insert(registered(email), u) PROVE Listed'
    <3>1. registered(email).email \in registered(email).accounts
      BY DEF registered, NoUser
    <3> QED
      BY <1>2, <2>2, <3>1 DEF insert, status, Listed
  <2>3. \/ UNCHANGED users
        \/ \E email \in Emails : \E u \in Users : insert(registered(email), u)
    BY <1>4 DEF Begin, Contacts, Delete, Find, Look, Confirm, ChangeEmail, RemoveAddress, Upsert
  <2> QED
    BY <2>1, <2>2, <2>3
<1>5. ASSUME RegisterGhost(w) PROVE Listed'
  <2>1. \/ \E u \in Users : insert([NoUser EXCEPT !.status = "ghost", !.email = r.email,
                                                  !.accounts = {r.email}], u)
        \/ UNCHANGED users
        \/ users' = [users EXCEPT ![r.doc] =
                       [@ EXCEPT !.status = "ghost", !.email = r.email, !.swaggers = {}]]
    BY <1>5 DEF RegisterGhost
  <2>2. ASSUME users' = [users EXCEPT ![r.doc] =
                          [@ EXCEPT !.status = "ghost", !.email = r.email, !.swaggers = {}]]
        PROVE  Listed'
    <3> DEFINE doc == [users[r.doc] EXCEPT !.status = "ghost", !.email = r.email, !.swaggers = {}]
    <3>1. users' = [users EXCEPT ![r.doc] = doc]
      BY <2>2, Zenon
    <3>2. r.doc \in Users => doc.status = "ghost"
      BY <1>2 DEF Documents
    <3> HIDE DEF doc
    <3> QED
      BY <1>2, <3>1, <3>2 DEF status, Listed
  <2>3. ASSUME NEW u \in Users,
               insert([NoUser EXCEPT !.status = "ghost", !.email = r.email,
                                     !.accounts = {r.email}], u)
        PROVE  Listed'
    BY <1>2, <2>3 DEF insert, status, NoUser, Listed
  <2> QED
    BY <2>1, <2>2, <2>3 DEF status, Listed
<1>6. ASSUME IncreaseSwag(w) PROVE Listed'
  <2>1. users' = [users EXCEPT ![r.user].swaggers = @ \union {r.doc},
                               ![r.doc].swaggers = @ \union {r.user}]
    BY <1>6 DEF IncreaseSwag
  <2>2. r.user \in Users /\ r.doc \in Users
    BY <1>3, <1>6 DEF IncreaseSwag, At, Able, ForUser, ForDoc
  <2> DEFINE half == [users EXCEPT ![r.user].swaggers = @ \union {r.doc}]
  <2>3. users' = [half EXCEPT ![r.doc].swaggers = @ \union {r.user}]
    BY <2>1, Zenon
  <2>4. /\ half \in [Users -> Documents]
        /\ \A u \in Users : /\ half[u].status = users[u].status
                            /\ half[u].email = users[u].email
                            /\ half[u].accounts = users[u].accounts
    BY <1>2, <2>2 DEF Documents
  <2> HIDE DEF half
  <2>5. Longer
    BY <2>2, <2>3, <2>4 DEF Documents
  <2> QED
    BY <1>1, <2>5
<1>7. ASSUME Transform(w) PROVE Listed'
  <2>1. ASSUME NEW u \in Users,
               users' = [users EXCEPT ![u] =
                           [registered(r.email) EXCEPT !.swaggers = r.read.swaggers,
                                                       !.contact_of = users[u].contact_of]]
        PROVE  Listed'
    BY <1>2, <2>1 DEF registered, NoUser, status, Listed
  <2> QED
    BY <1>7, <2>1 DEF Transform, owners, Listed, status
<1>8. ASSUME Welcome(w) PROVE Listed'
  <2>1. Longer
    BY <1>2, <1>8 DEF Welcome, Befriend, Documents
  <2> QED
    BY <1>1, <2>1
<1>9. ASSUME Store(w) PROVE Listed'
  <2> DEFINE doc == [NoUser EXCEPT !.status = "contact", !.accounts = Book, !.contact_of = {r.user}]
  <2>1. CASE \E v \in Users : insert(doc, v)
    BY <1>2, <2>1 DEF insert, status, NoUser, Listed
  <2>2. CASE ~\E v \in Users : insert(doc, v)
    <3>1. Longer
      BY <1>2, <1>3, <1>9, <2>2 DEF Store, Documents
    <3> QED
      BY <1>1, <3>1
  <2> QED
    BY <2>1, <2>2
<1>10. ASSUME Clear(w) \/ Erase(w) PROVE Listed'
  BY <1>2, <1>10 DEF Clear, Erase, cleared, NoUser, status, Listed
<1>11. ASSUME Give(w) PROVE Listed'
  <2>1. Longer
    BY <1>2, <1>3, <1>11 DEF Give, Documents
  <2> QED
    BY <1>1, <2>1
<1>12. ASSUME Rest(w) PROVE Listed'
  <2>1. Longer
    BY SMTT(30), <1>2, <1>12 DEF Rest, Befriended, Documents
  <2> QED
    BY <1>1, <2>1
<1>13. ASSUME Add(w) PROVE Listed'
  <2>1. Longer
    BY <1>2, <1>13 DEF Add, Documents
  <2> QED
    BY <1>1, <2>1
<1>14. ASSUME Change(w) PROVE Listed'
  BY <1>2, <1>14 DEF Change, Documents, status, Listed
<1>15. ASSUME Remove(w) PROVE Listed'
  BY <1>2, <1>15 DEF Remove, Documents, status, Listed
<1>16. ASSUME Insert(w) \/ Forward(w) \/ Previous(w) PROVE Listed'
  BY <1>16 DEF Insert, Forward, Previous, status, Listed
<1> QED
  BY <1>4, <1>5, <1>6, <1>7, <1>8, <1>9, <1>10, <1>11, <1>12, <1>13, <1>14, <1>15, <1>16 DEF Steps

-----------------------------------------------------------------------------
(***************************************************************************)
(* One registration succeeds.                                              *)
(***************************************************************************)

Once == ~stale => \A u \in Users : wins[u] <= 1 /\ (~Been(u) => wins[u] = 0)

LEMMA OnceNext ==
  ASSUME Typed, Once, NEW w \in Workers, Begin(w) \/ Steps(w)
  PROVE  Once'
<1> SUFFICES ASSUME ~stale'
             PROVE  \A u \in Users : wins'[u] <= 1 /\ (~Been(u)' => wins'[u] = 0)
  BY DEF Once
<1>1. /\ \A u \in Users : wins[u] <= 1 /\ (~Been(u) => wins[u] = 0)
      /\ \A u \in Users : Been(u) => Been(u)'
  BY Stays DEF Once
<1>2. wins \in [Users -> Nat] /\ users \in [Users -> Documents]
  BY Parts
<1>3. CASE UNCHANGED wins
  BY <1>1, <1>3
<1>4. ASSUME NEW u \in Users, Won(u), ~Been(u), Been(u)'
      PROVE  \A v \in Users : wins'[v] <= 1 /\ (~Been(v)' => wins'[v] = 0)
  <2>1. wins' = [wins EXCEPT ![u] = @ + 1] /\ wins[u] = 0
    BY <1>1, <1>4 DEF Won
  <2>2. wins'[u] = 1
    BY <1>2, <2>1
  <2>3. \A v \in Users \ {u} : wins'[v] = wins[v]
    BY <1>2, <2>1
  <2> QED
    BY <1>1, <1>4, <2>2, <2>3
<1>5. ASSUME NEW email \in Emails, Upsert(w, email), ~UNCHANGED wins
      PROVE  \E u \in Users : Won(u) /\ ~Been(u) /\ Been(u)'
  <2>1. PICK u \in Users : insert(registered(email), u) /\ Won(u)
    BY <1>5 DEF Upsert
  <2>2. ~Been(u) /\ Been(u)'
    BY <1>2, <2>1 DEF insert, registered, NoUser, Been, status
  <2> QED
    BY <2>1, <2>2
<1>6. ASSUME Transform(w), ~UNCHANGED wins
      PROVE  \E u \in Users : Won(u) /\ ~Been(u) /\ Been(u)'
  <2>1. PICK u \in Users :
               /\ status(u) \in Unregistered
               /\ users' = [users EXCEPT ![u] =
                           [registered(req[w].email) EXCEPT !.swaggers = req[w].read.swaggers,
                                                            !.contact_of = users[u].contact_of]]
               /\ Won(u)
    BY <1>6 DEF Transform, owners
  <2>2. ~Been(u) /\ Been(u)'
    BY <1>2, <2>1 DEF registered, NoUser, Been, status, Unregistered
  <2> QED
    BY <2>1, <2>2
<1>7. ASSUME Begin(w) PROVE UNCHANGED wins \/ \E email \in Emails : Upsert(w, email)
  BY <1>7 DEF Begin, Contacts, Delete, Find, Look, Confirm, ChangeEmail, RemoveAddress, history
<1>8. ASSUME Steps(w) PROVE UNCHANGED wins \/ Transform(w)
  BY <1>8 DEF Steps, RegisterGhost, Insert, IncreaseSwag, Welcome, Store, Forward, Clear, Give, Rest,
              Add, Previous, Change, Remove, Erase, history
<1> QED
  BY <1>3, <1>4, <1>5, <1>6, <1>7, <1>8

-----------------------------------------------------------------------------
(***************************************************************************)
(* Whom the requests are about.                                            *)
(***************************************************************************)

\* A request is made by a user, and the ghost whose merge goes on has been cleared.
Asked == ~stale => \A w \in Workers : /\ req[w].user \in Users => Been(req[w].user)
                                      /\ req[w].at \in {"give", "rest"} => Over(req[w].doc)

\* What the request under way becomes.
LEMMA Own ==
  ASSUME Typed, NEW w \in Workers, Begin(w) \/ Steps(w)
  PROVE  /\ \/ req'[w].user \in {req[w].user, Nobody}
            \/ req[w].at = "idle" /\ LoggedIn(req'[w].user)
         /\ req'[w].at \in {"give", "rest"} =>
              /\ Steps(w)
              /\ req'[w].doc = req[w].doc
              /\ req[w].at = "give" \/ Clear(w)
<1> DEFINE Goal == /\ \/ req'[w].user \in {req[w].user, Nobody}
                      \/ req[w].at = "idle" /\ LoggedIn(req'[w].user)
                   /\ req'[w].at \in {"give", "rest"} =>
                        /\ Steps(w)
                        /\ req'[w].doc = req[w].doc
                        /\ req[w].at = "give" \/ Clear(w)
<1>1. req \in [Workers -> Requests] /\ req[w] \in Requests
  BY Parts
<1>2. ASSUME NEW place \in Stages \ {"give", "rest"}, Go(w, place) \/ Done(w) PROVE Goal
  BY <1>1, <1>2 DEF Go, Done, NoRequest, Requests
<1>3. ASSUME NEW place \in Stages \ {"give", "rest"}, NEW op, NEW user, NEW email, NEW doc,
             user # Nobody => LoggedIn(user), Start(w, op, place, user, email, doc), req[w].at = "idle"
      PROVE  Goal
  BY <1>1, <1>3 DEF Start
<1>4. ASSUME Begin(w) PROVE Goal
  <2>1. req[w].at = "idle"
    BY <1>4 DEF Begin
  <2>2. ASSUME NEW u \in Users, Contacts(w, u) PROVE Goal
    BY <1>1, <2>1, <2>2 DEF Contacts, NoRequest, LoggedIn
  <2>3. ASSUME NEW u \in Users, Delete(w, u) PROVE Goal
    <3>1. Start(w, "delete", "erase", u, NoEmail, u) /\ LoggedIn(u)
      BY <2>3 DEF Delete
    <3> QED
      BY <1>3, <2>1, <3>1 DEF Stages
  <2>4. ASSUME NEW u \in Users, NEW ghost \in Users, Find(w, u, ghost) PROVE Goal
    <3>1. Start(w, "merge", "forward", u, NoEmail, ghost) /\ LoggedIn(u)
      BY <2>4 DEF Find
    <3> QED
      BY <1>3, <2>1, <3>1 DEF Stages
  <2>5. ASSUME NEW u \in Users, NEW email \in Emails, Look(w, u, email) PROVE Goal
    <3>1. LoggedIn(u)
      BY <2>5 DEF Look
    <3>2. \E place \in {"ghost", "insert"} : \E doc \in Users \union {Nobody} :
            Start(w, "send", place, u, email, doc)
      BY <2>5 DEF Look, owners
    <3>3. PICK place \in {"ghost", "insert"} : \E doc \in Users \union {Nobody} :
            Start(w, "send", place, u, email, doc)
      BY <3>2
    <3>4. place \in Stages \ {"give", "rest"}
      BY DEF Stages
    <3> QED
      BY <1>3, <2>1, <3>1, <3>3, <3>4
  <2>6. ASSUME NEW u \in Users, NEW email \in Emails, Confirm(w, u, email) PROVE Goal
    <3>1. Start(w, "confirm", "add", u, email, Nobody) /\ LoggedIn(u)
      BY <2>6 DEF Confirm
    <3> QED
      BY <1>3, <2>1, <3>1 DEF Stages
  <2>7. ASSUME NEW u \in Users, NEW email \in Emails, ChangeEmail(w, u, email) PROVE Goal
    <3>1. Start(w, "email", "change", u, email, u) /\ LoggedIn(u)
      BY <2>7 DEF ChangeEmail
    <3> QED
      BY <1>3, <2>1, <3>1 DEF Stages
  <2>8. ASSUME NEW u \in Users, NEW email \in Emails, RemoveAddress(w, u, email) PROVE Goal
    <3>1. Start(w, "remove", "remove", u, email, u) /\ LoggedIn(u)
      BY <2>8 DEF RemoveAddress
    <3> QED
      BY <1>3, <2>1, <3>1 DEF Stages
  <2>9. ASSUME NEW email \in Emails, Upsert(w, email) PROVE Goal
    <3>1. \E place \in {"welcome", "transform"} : \E doc \in Users :
            Start(w, "register", place, Nobody, email, doc)
      BY <2>9 DEF Upsert, owners
    <3>2. PICK place \in {"welcome", "transform"} : \E doc \in Users :
            Start(w, "register", place, Nobody, email, doc)
      BY <3>1
    <3>3. place \in Stages \ {"give", "rest"}
      BY DEF Stages
    <3> QED
      BY <1>3, <2>1, <3>2, <3>3
  <2> HIDE DEF Goal
  <2> QED
    BY <1>4, <2>2, <2>3, <2>4, <2>5, <2>6, <2>7, <2>8, <2>9 DEF Begin
<1>5. ASSUME Clear(w) PROVE Goal
  BY <1>1, <1>5 DEF Clear, Go, Steps, Requests
<1>6. ASSUME Give(w) PROVE Goal
  <2>1. CASE Done(w)
    BY <1>2, <2>1 DEF Stages
  <2>2. CASE Go(w, "rest") /\ req[w].at = "give"
    BY <1>1, <1>6, <2>2 DEF Go, Steps, Requests
  <2> QED
    BY <1>6, <2>1, <2>2 DEF Give, At
<1>7. ASSUME RegisterGhost(w) PROVE Goal
  <2>1. CASE \E u \in Users : Work(w, "insert", u)
    BY <1>1, <2>1 DEF Work, Requests
  <2>2. CASE Done(w) \/ Go(w, "insert")
    BY <1>2, <2>2 DEF Stages
  <2> QED
    BY <1>7, <2>1, <2>2 DEF RegisterGhost
<1>8. ASSUME Transform(w) PROVE Goal
  <2>1. CASE Done(w)
    BY <1>2, <2>1 DEF Stages
  <2>2. ASSUME NEW u, req' = [req EXCEPT ![w].at = "welcome", ![w].doc = u, ![w].read = users[u]]
        PROVE  Goal
    BY <1>1, <2>2 DEF Requests
  <2> QED
    BY <1>8, <2>1, <2>2 DEF Transform
<1>9. ASSUME Previous(w) PROVE Goal
  <2>1. CASE Done(w) \/ Go(w, "add")
    BY <1>2, <2>1 DEF Stages
  <2>2. ASSUME NEW u, req' = [req EXCEPT ![w].at = "forward", ![w].doc = u,
                                         ![w].read = [NoUser EXCEPT !.swaggers = users[u].swaggers]]
        PROVE  Goal
    BY <1>1, <2>2 DEF Requests
  <2> QED
    BY <1>9, <2>1, <2>2 DEF Previous
<1>10. ASSUME \/ Insert(w) \/ IncreaseSwag(w) \/ Welcome(w) \/ Store(w) \/ Forward(w) \/ Rest(w)
              \/ Add(w) \/ Change(w) \/ Remove(w) \/ Erase(w)
       PROVE  Goal
  <2>1. \E place \in {"swag", "clear", "add", "previous"} : Go(w, place) \/ Done(w)
    BY <1>10 DEF Insert, IncreaseSwag, Welcome, Store, Forward, Rest, Add, Change, Remove, Erase
  <2> QED
    BY <1>2, <2>1 DEF Stages
<1> HIDE DEF Goal
<1>11. Goal
  BY <1>4, <1>5, <1>6, <1>7, <1>8, <1>9, <1>10 DEF Steps
<1> QED
  BY <1>11 DEF Goal

LEMMA AskedNext ==
  ASSUME Typed, Asked, NEW w \in Workers, Begin(w) \/ Steps(w)
  PROVE  Asked'
<1> SUFFICES ASSUME ~stale', NEW v \in Workers
             PROVE  /\ req'[v].user \in Users => Been(req[v].user)'
                    /\ req'[v].at \in {"give", "rest"} => Over(req[v].doc)'
  BY DEF Asked
<1>1. /\ ~stale
      /\ \A u \in Users : Been(u) => Been(u)'
      /\ \A u \in Users : Over(u) => Over(u)'
  BY Stays
<1>2. /\ req[v].user \in Users => Been(req[v].user)
      /\ req[v].at \in {"give", "rest"} => Over(req[v].doc)
      /\ req[v].at \in {"give", "rest"} => req[v].doc \in Users
  BY <1>1, Parts DEF Asked, Able, ForDoc
<1>3. CASE v # w
  <2>1. req'[v] = req[v]
    BY <1>3, Others
  <2>2. ASSUME req[v].user \in Users PROVE Been(req[v].user)'
    BY <1>1, <1>2, <2>1, <2>2 DEF Been, status
  <2>3. ASSUME req[v].at \in {"give", "rest"} PROVE Over(req[v].doc)'
    BY <1>1, <1>2, <2>1, <2>3 DEF Over, status
  <2> QED
    BY <2>1, <2>2, <2>3 DEF Been, Over, status
<1>4. CASE v = w
  <2>1. ASSUME req'[w].user \in Users PROVE Been(req[w].user)'
    <3>1. Been(req'[w].user)
      BY <1>2, <1>4, <2>1, Own, AccountsAssumption DEF LoggedIn, Been
    <3> QED
      BY <1>1, <2>1, <3>1 DEF Been, status
  <2>2. ASSUME req'[w].at \in {"give", "rest"} PROVE Over(req[w].doc)'
    <3>1. req'[w].doc = req[w].doc /\ (req[w].at = "give" \/ Clear(w))
      BY <2>2, Own
    <3>2. CASE req[w].at = "give"
      BY <1>1, <1>2, <1>4, <3>1, <3>2 DEF Over, status
    <3>3. CASE Clear(w)
      <4>1. req[w].doc \in Users /\ users \in [Users -> Documents]
        BY <3>3, Parts DEF Clear, At, Able, ForDoc
      <4> QED
        BY <3>1, <3>3, <4>1 DEF Clear, cleared, NoUser, Over, status
    <3> QED
      BY <3>1, <3>2, <3>3
  <2> QED
    BY <1>4, <2>1, <2>2 DEF Been, Over, status
<1> QED
  BY <1>3, <1>4

-----------------------------------------------------------------------------
(***************************************************************************)
(* Those who have a user in their address book, and those who know him.    *)
(***************************************************************************)

\* What a step adds to the address books that have a document and takes from those it knows,
\* and how a document becomes a user.
LEMMA Circles ==
  ASSUME Typed, NEW w \in Workers, Begin(w) \/ Steps(w)
  PROVE  /\ \A u \in Users : \A v \in users'[u].contact_of \ users[u].contact_of :
              v = req[w].user /\ status(u)' # "ok"
         /\ \A u \in Users : \A v \in users[u].swaggers \ users'[u].swaggers :
              \/ status(u)' # "ok"
              \/ status(u) # "ok"
              \/ v = req[w].doc /\ req[w].at = "rest"
         /\ \A u \in Users : status(u)' = "ok" /\ status(u) # "ok" =>
              \/ users'[u].contact_of = {}
              \/ req'[w].at = "welcome" /\ req'[w].doc = u /\ req'[w].read = users[u]
<1> DEFINE r == req[w]
           Goal == /\ \A u \in Users : \A v \in users'[u].contact_of \ users[u].contact_of :
                        v = req[w].user /\ status(u)' # "ok"
                   /\ \A u \in Users : \A v \in users[u].swaggers \ users'[u].swaggers :
                        \/ status(u)' # "ok"
                        \/ status(u) # "ok"
                        \/ v = req[w].doc /\ req[w].at = "rest"
                   /\ \A u \in Users : status(u)' = "ok" /\ status(u) # "ok" =>
                        \/ users'[u].contact_of = {}
                        \/ req'[w].at = "welcome" /\ req'[w].doc = u /\ req'[w].read = users[u]
           Wider == \A u \in Users : /\ users'[u].status = users[u].status
                                     /\ users'[u].contact_of = users[u].contact_of
                                     /\ users[u].swaggers \subseteq users'[u].swaggers
<1>1. ASSUME Wider PROVE Goal
  BY <1>1 DEF status
<1>2. users \in [Users -> Documents] /\ \A u \in Users : users[u] \in Documents
  BY Parts
<1>3. r \in Requests /\ Able(r) /\ req \in [Workers -> Requests]
  BY Parts
<1>4. ASSUME NEW doc, NEW u \in Users, insert(doc, u), doc.status = "ok" => doc.contact_of = {},
             doc.contact_of \subseteq {r.user}, doc.contact_of # {} => doc.status # "ok"
      PROVE  Goal
  BY <1>2, <1>4 DEF insert, status
<1>5. ASSUME NEW doc, NEW u \in Users, users' = [users EXCEPT ![u] = doc], doc.status # "ok",
             doc.contact_of = users[u].contact_of
      PROVE  Goal
  BY <1>2, <1>5 DEF status
<1>6. ASSUME Begin(w) PROVE Goal
  <2>1. CASE UNCHANGED users
    BY <1>1, <2>1
  <2>2. ASSUME NEW email \in Emails, NEW u \in Users, insert(registered(email), u) PROVE Goal
    <3>1. registered(email).contact_of = {}
      BY DEF registered, NoUser
    <3> QED
      BY <1>4, <2>2, <3>1
  <2>3. \/ UNCHANGED users
        \/ \E email \in Emails : \E u \in Users : insert(registered(email), u)
    BY <1>6 DEF Begin, Contacts, Delete, Find, Look, Confirm, ChangeEmail, RemoveAddress, Upsert
  <2> QED
    BY <2>1, <2>2, <2>3
<1>7. ASSUME RegisterGhost(w) PROVE Goal
  <2> DEFINE ghost == [NoUser EXCEPT !.status = "ghost", !.email = r.email, !.accounts = {r.email}]
             doc == [users[r.doc] EXCEPT !.status = "ghost", !.email = r.email, !.swaggers = {}]
  <2>1. \/ \E u \in Users : insert(ghost, u)
        \/ UNCHANGED users
        \/ users' = [users EXCEPT ![r.doc] =
                       [@ EXCEPT !.status = "ghost", !.email = r.email, !.swaggers = {}]]
    BY <1>7 DEF RegisterGhost
  <2>2. ghost.contact_of = {}
    BY DEF NoUser
  <2>3. ASSUME users' = [users EXCEPT ![r.doc] =
                          [@ EXCEPT !.status = "ghost", !.email = r.email, !.swaggers = {}]]
        PROVE  Goal
    <3>1. users' = [users EXCEPT ![r.doc] = doc]
      BY <2>3, Zenon
    <3>2. CASE r.doc \in Users
      <4>1. doc.status = "ghost" /\ doc.contact_of = users[r.doc].contact_of
        BY <1>2, <3>2 DEF Documents
      <4> HIDE DEF doc, Goal
      <4> QED
        BY <1>5, <3>1, <3>2, <4>1
    <3>3. CASE r.doc \notin Users
      <4> HIDE DEF doc
      <4>1. \A u \in Users : users'[u] = users[u]
        BY <1>2, <3>1, <3>3
      <4> QED
        BY <1>1, <4>1
    <3> QED
      BY <3>2, <3>3
  <2> HIDE DEF ghost, Goal
  <2>4. ASSUME NEW u \in Users, insert(ghost, u) PROVE Goal
    BY <1>4, <2>2, <2>4
  <2> QED
    BY <1>1, <2>1, <2>3, <2>4
<1>8. ASSUME IncreaseSwag(w) PROVE Goal
  <2>1. users' = [users EXCEPT ![r.user].swaggers = @ \union {r.doc},
                               ![r.doc].swaggers = @ \union {r.user}]
    BY <1>8 DEF IncreaseSwag
  <2>2. r.user \in Users /\ r.doc \in Users
    BY <1>3, <1>8 DEF IncreaseSwag, At, Able, ForUser, ForDoc
  <2> DEFINE half == [users EXCEPT ![r.user].swaggers = @ \union {r.doc}]
  <2>3. users' = [half EXCEPT ![r.doc].swaggers = @ \union {r.user}]
    BY <2>1, Zenon
  <2>4. /\ half \in [Users -> Documents]
        /\ \A u \in Users : /\ half[u].status = users[u].status
                            /\ half[u].contact_of = users[u].contact_of
                            /\ users[u].swaggers \subseteq half[u].swaggers
    BY <1>2, <2>2 DEF Documents
  <2> HIDE DEF half
  <2>5. Wider
    BY <2>2, <2>3, <2>4 DEF Documents
  <2> QED
    BY <1>1, <2>5
<1>9. ASSUME Transform(w) PROVE Goal
  <2>1. ASSUME NEW u \in Users, status(u) # "ok",
               users' = [users EXCEPT ![u] =
                           [registered(r.email) EXCEPT !.swaggers = r.read.swaggers,
                                                       !.contact_of = users[u].contact_of]],
               req' = [req EXCEPT ![w].at = "welcome", ![w].doc = u, ![w].read = users[u]]
        PROVE  Goal
    <3>1. users'[u].contact_of = users[u].contact_of
      BY <1>2, <2>1 DEF registered, NoUser
    <3>2. \A v \in Users \ {u} : users'[v] = users[v]
      BY <1>2, <2>1
    <3>3. req'[w].at = "welcome" /\ req'[w].doc = u /\ req'[w].read = users[u]
      BY <1>3, <2>1 DEF Requests
    <3> QED
      BY <2>1, <3>1, <3>2, <3>3 DEF status
  <2> HIDE DEF Goal
  <2>2. CASE UNCHANGED users
    BY <1>1, <2>2
  <2> QED
    BY <1>9, <2>1, <2>2 DEF Transform, owners, Unregistered
<1>10. ASSUME Welcome(w) PROVE Goal
  <2>1. Wider
    BY <1>2, <1>10 DEF Welcome, Befriend, Documents
  <2> QED
    BY <1>1, <2>1
<1>11. ASSUME Store(w) PROVE Goal
  <2> DEFINE doc == [NoUser EXCEPT !.status = "contact", !.accounts = Book, !.contact_of = {r.user}]
             mark(v) == IF v \in r.read.contact_of /\ status(v) \in Unregistered
                          THEN [users[v] EXCEPT !.contact_of = @ \union {r.user}]
                        ELSE IF v = r.user THEN [users[v] EXCEPT !.swaggers = @ \union r.read.swaggers]
                        ELSE users[v]
  <2>1. CASE \E v \in Users : insert(doc, v)
    <3>1. doc.contact_of = {r.user} /\ doc.status = "contact"
      BY DEF NoUser
    <3> HIDE DEF doc, Goal
    <3> QED
      BY <1>4, <2>1, <3>1
  <2>2. CASE users' = [v \in Users |-> mark(v)]
    <3>1. ASSUME NEW u \in Users
          PROVE  /\ users'[u].status = users[u].status
                 /\ users[u].swaggers \subseteq users'[u].swaggers
                 /\ \/ users'[u].contact_of = users[u].contact_of
                    \/ /\ users'[u].contact_of = users[u].contact_of \union {r.user}
                       /\ users[u].status # "ok"
      BY <1>2, <2>2 DEF Documents, Unregistered, status
    <3> HIDE DEF mark
    <3> QED
      BY <3>1 DEF status
  <2> QED
    BY <1>11, <2>1, <2>2 DEF Store
<1>12. ASSUME Clear(w) \/ Erase(w) PROVE Goal
  <2>1. PICK s \in {"merged", "deleted"} : users' = [users EXCEPT ![r.doc] = cleared(r.doc, s)]
    BY <1>12 DEF Clear, Erase
  <2>2. r.doc \in Users
    BY <1>3, <1>12 DEF Clear, Erase, At, Able, ForDoc
  <2>3. cleared(r.doc, s).status = s /\ cleared(r.doc, s).contact_of = users[r.doc].contact_of
    BY DEF cleared, NoUser
  <2> HIDE DEF Goal
  <2> QED
    BY <1>5, <2>1, <2>2, <2>3
<1>13. ASSUME Give(w) PROVE Goal
  <2>1. Wider
    BY <1>2, <1>3, <1>13 DEF Give, Documents
  <2> QED
    BY <1>1, <2>1
<1>14. ASSUME Rest(w) PROVE Goal
  <2>1. ASSUME NEW u \in Users
        PROVE  /\ users'[u].status = users[u].status
               /\ users'[u].contact_of = users[u].contact_of
               /\ users[u].swaggers \ {r.doc} \subseteq users'[u].swaggers
    BY <1>2, <1>14 DEF Rest, Befriended, Documents
  <2>2. r.at = "rest"
    BY <1>14 DEF Rest, At
  <2> QED
    BY <2>1, <2>2 DEF status
<1>15. ASSUME Add(w) \/ Change(w) \/ Remove(w) PROVE Goal
  <2>1. Wider
    BY <1>2, <1>15 DEF Add, Change, Remove, Documents
  <2> QED
    BY <1>1, <2>1
<1>16. ASSUME Insert(w) \/ Forward(w) \/ Previous(w) PROVE Goal
  BY <1>1, <1>16 DEF Insert, Forward, Previous
<1> HIDE DEF Goal
<1>17. Goal
  BY <1>6, <1>7, <1>8, <1>9, <1>10, <1>11, <1>12, <1>13, <1>14, <1>15, <1>16 DEF Steps
<1> QED
  BY <1>17 DEF Goal

\* Who has a document in his address book is a user.
Known == ~stale => \A u \in Users : \A v \in users[u].contact_of : Been(v)

LEMMA KnownNext ==
  ASSUME Typed, Asked, Known, NEW w \in Workers, Begin(w) \/ Steps(w)
  PROVE  Known' /\ \A u \in Users : users[u].contact_of \subseteq Users
<1>1. \A u \in Users : users[u].contact_of \subseteq Users
  BY Parts DEF Documents
<1>2. Typed'
  BY TypedBegin, TypedSteps
<1>3. users' \in [Users -> Documents]
  BY <1>2 DEF Typed, ATypeOK
<1>4. \A u \in Users : users'[u].contact_of \subseteq Users
  BY <1>3 DEF Documents
<1>5. ASSUME ~stale', NEW u \in Users, NEW v \in users'[u].contact_of PROVE Been(v)'
  <2>1. ~stale /\ (Been(v) => Been(v)') /\ v \in Users
    BY <1>4, <1>5, Stays
  <2>2. v \in users[u].contact_of \/ v = req[w].user
    BY <1>5, Circles
  <2>3. Been(v)
    BY <2>1, <2>2 DEF Known, Asked
  <2> QED
    BY <2>1, <2>3
<1> QED
  BY <1>1, <1>5 DEF Known

\* A user who has another in his address book is known to him, or is about to be made known.
Met == ~stale =>
  \A u, v \in Users :
    status(u) = "ok" /\ status(v) = "ok" /\ v \in users[u].contact_of =>
      \/ u \in users[v].swaggers
      \/ \E x \in Workers : /\ req[x].at = "welcome" /\ req[x].doc = u
                            /\ v \in req[x].read.contact_of

LEMMA MetNext ==
  ASSUME Typed, Asked, Known, Met, NEW w \in Workers, Begin(w) \/ Steps(w)
  PROVE  Met'
<1> SUFFICES ASSUME ~stale', NEW u \in Users, NEW v \in Users,
                    status(u)' = "ok", status(v)' = "ok", v \in users'[u].contact_of
             PROVE  \/ u \in users'[v].swaggers
                    \/ \E x \in Workers : /\ req'[x].at = "welcome" /\ req'[x].doc = u
                                          /\ v \in req'[x].read.contact_of
  BY DEF Met
<1>1. /\ ~stale
      /\ status(v)' = "ok" => status(v) \in {"ok", "none"} \union Unregistered
      /\ status(u)' = "ok" => status(u) \in {"ok", "none"} \union Unregistered
  BY Stays
<1>2. v \in users[u].contact_of
  BY Circles
<1>3. status(v) = "ok"
  BY <1>1, <1>2 DEF Known, Been, Unregistered
<1>4. CASE status(u) # "ok"
  <2>1. req'[w].at = "welcome" /\ req'[w].doc = u /\ req'[w].read = users[u]
    BY <1>4, Circles
  <2> QED
    BY <1>2, <2>1
<1>5. CASE status(u) = "ok" /\ u \in users[v].swaggers
  <2>1. CASE u \notin users'[v].swaggers
    <3>1. u = req[w].doc /\ req[w].at = "rest"
      BY <1>3, <1>5, <2>1, Circles
    <3>2. Over(u)
      BY <1>1, <3>1 DEF Asked
    <3> QED
      BY <1>5, <3>2 DEF Over
  <2> QED
    BY <2>1
<1>6. CASE status(u) = "ok" /\ u \notin users[v].swaggers
  <2>1. PICK x \in Workers : /\ req[x].at = "welcome" /\ req[x].doc = u
                             /\ v \in req[x].read.contact_of
    BY <1>1, <1>2, <1>3, <1>6 DEF Met
  <2>2. CASE x # w
    <3>1. req'[x] = req[x]
      BY <2>2, Others
    <3> QED
      BY <2>1, <3>1
  <2>3. CASE x = w
    <3>1. Welcome(w)
      BY <2>1, <2>3, Others DEF Steps, RegisterGhost, Insert, IncreaseSwag, Transform, Store, Forward,
                                Clear, Give, Rest, Add, Previous, Change, Remove, Erase, At
    <3>2. users'[v].swaggers = users[v].swaggers \union {u}
      <4>1. users[v] \in Documents
        BY Parts
      <4> QED
        BY <2>1, <2>3, <3>1, <4>1 DEF Welcome, Befriend, Documents
    <3> QED
      BY <3>2
  <2> QED
    BY <2>2, <2>3
<1> QED
  BY <1>4, <1>5, <1>6

-----------------------------------------------------------------------------
(***************************************************************************)
(* What was sent to a ghost that is merged.                                *)
(***************************************************************************)

\* Which step a request at one of its places takes.
LEMMA Turns ==
  ASSUME Typed, NEW w \in Workers, Begin(w) \/ Steps(w)
  PROVE  /\ Clear(w) => req[w].at = "clear"
         /\ req[w].at = "give" <=> Give(w)
         /\ req[w].at = "rest" <=> Rest(w)
<1>1. req[w].at = "give" => Give(w)
  BY Others DEF Steps, RegisterGhost, Insert, IncreaseSwag, Transform, Welcome, Store, Forward,
                Clear, Rest, Add, Previous, Change, Remove, Erase, At
<1>2. req[w].at = "rest" => Rest(w)
  BY Others DEF Steps, RegisterGhost, Insert, IncreaseSwag, Transform, Welcome, Store, Forward,
                Clear, Give, Add, Previous, Change, Remove, Erase, At
<1> QED
  BY <1>1, <1>2 DEF Clear, Give, Rest, At

\* Where a transaction that goes on is after a step: where it was, and that is not a ghost
\* that this step has forwarded, or where this step has put it.
LEMMA Letters ==
  ASSUME Typed, NEW w \in Workers, Begin(w) \/ Steps(w), NEW n \in Ops,
         ~transactions'[n].over, n \notin late'
  PROVE  /\ n \notin late
         /\ \/ /\ transactions'[n].to = transactions[n].to /\ ~transactions[n].over
               /\ Rest(w) => transactions[n].to # req[w].doc
            \/ /\ ~Clear(w)
               /\ status(transactions'[n].to) = "merged" => Merging(w, transactions'[n].to)
<1> DEFINE Goal == /\ n \notin late
                   /\ \/ /\ transactions'[n].to = transactions[n].to /\ ~transactions[n].over
                         /\ Rest(w) => transactions[n].to # req[w].doc
                      \/ /\ ~Clear(w)
                         /\ \/ status(transactions'[n].to) # "merged"
                            \/ Merging(w, transactions'[n].to)
<1>1. transactions \in [Ops -> [from : Users \union {Nobody}, to : Users \union {Nobody},
                                over : BOOLEAN]]
  BY Parts
<1>2. ASSUME UNCHANGED <<transactions, late>>, ~Rest(w) PROVE Goal
  BY <1>2
<1>3. ASSUME NEW u, transactions' = canceled(u), UNCHANGED late, ~Rest(w) PROVE Goal
  BY <1>1, <1>3 DEF canceled
<1>4. ASSUME NEW to, Forwards(w), to = req[w].user, Forward(w) \/ Rest(w) PROVE Goal
  <2>1. /\ transactions' = forwarded(req[w].doc, to)
        /\ late' = late \union Lost(w, to, {m \in Ops : transactions[m].to = req[w].doc})
    BY <1>4 DEF Forwards
  <2>2. CASE transactions[n].to = req[w].doc
    <3>1. transactions'[n].to = to
      BY <1>1, <2>1, <2>2 DEF forwarded
    <3>2. n \notin Lost(w, to, {m \in Ops : transactions[m].to = req[w].doc}) /\ n \notin late
      BY <2>1
    <3>3. status(to) # "merged" \/ Merging(w, to)
      BY <2>2, <3>2 DEF Lost
    <3>4. ~Clear(w)
      BY <1>4, Turns DEF Forward, At
    <3> QED
      BY <3>1, <3>2, <3>3, <3>4
  <2>3. CASE transactions[n].to # req[w].doc
    BY <1>1, <2>1, <2>3 DEF forwarded
  <2> QED
    BY <2>2, <2>3
<1>5. ASSUME Insert(w) PROVE Goal
  <2>1. ~Rest(w) /\ ~Clear(w)
    BY <1>5, Turns DEF Insert, At
  <2>2. CASE n = req[w].n
    <3>1. transactions'[n].to = req[w].doc
      BY <1>1, <1>5, <2>2 DEF Insert
    <3>2. n \notin late /\ n \notin Lost(w, req[w].doc, {req[w].n})
      BY <1>5 DEF Insert
    <3> QED
      BY <2>1, <2>2, <3>1, <3>2 DEF Lost
  <2>3. CASE n # req[w].n
    BY <1>1, <1>5, <2>1, <2>3 DEF Insert
  <2> QED
    BY <2>2, <2>3
<1>6. ASSUME Begin(w) PROVE Goal
  <2>1. ~Rest(w)
    BY <1>6, Others, Turns
  <2>2. UNCHANGED late /\ (UNCHANGED transactions \/ \E u \in Users : transactions' = canceled(u))
    BY <1>6 DEF Begin, Contacts, Delete, Find, Look, Confirm, ChangeEmail, RemoveAddress, Upsert, history
  <2> HIDE DEF Goal
  <2> QED
    BY <1>2, <1>3, <2>1, <2>2
<1>7. ASSUME Forward(w) \/ Rest(w) PROVE Goal
  BY <1>4, <1>7 DEF Forward, Rest
<1>8. ASSUME Change(w) PROVE Goal
  <2>1. ~Rest(w)
    BY <1>8, Turns DEF Change, At
  <2> QED
    BY <1>3, <1>8, <2>1 DEF Change, history
<1>9. ASSUME \/ RegisterGhost(w) \/ IncreaseSwag(w) \/ Transform(w) \/ Welcome(w) \/ Store(w)
             \/ Clear(w) \/ Give(w) \/ Add(w) \/ Previous(w) \/ Remove(w) \/ Erase(w)
      PROVE  Goal
  <2>1. ~Rest(w)
    BY <1>9, Turns DEF RegisterGhost, IncreaseSwag, Transform, Welcome, Store, Clear, Give, Add,
                         Previous, Remove, Erase, At
  <2>2. UNCHANGED <<transactions, late>>
    BY <1>9 DEF RegisterGhost, IncreaseSwag, Transform, Welcome, Store, Clear, Give, Add, Previous,
                Remove, Erase, history
  <2> QED
    BY <1>2, <2>1, <2>2
<1> HIDE DEF Goal
<1>10. Goal
  BY <1>5, <1>6, <1>7, <1>8, <1>9 DEF Steps
<1> QED
  BY <1>10 DEF Goal

\* What waits for a ghost that was merged will be forwarded by who merges it.
Waits == ~aborted =>
  \A n \in Ops :
    ~transactions[n].over /\ n \notin late /\ status(transactions[n].to) = "merged" =>
      \E x \in Workers : req[x].doc = transactions[n].to /\ req[x].at \in {"give", "rest"}

LEMMA WaitsNext ==
  ASSUME Typed, Waits, NEW w \in Workers, Begin(w) \/ Steps(w)
  PROVE  Waits'
<1> SUFFICES ASSUME ~aborted', NEW n \in Ops, ~transactions'[n].over, n \notin late',
                    NEW to, to = transactions'[n].to, users'[to].status = "merged"
             PROVE  \E x \in Workers : req'[x].doc = to /\ req'[x].at \in {"give", "rest"}
  BY DEF Waits, status
<1>1. ~aborted
  BY DEF Begin, Contacts, Delete, Find, Look, Confirm, ChangeEmail, RemoveAddress, Upsert, Steps,
         RegisterGhost, Insert, IncreaseSwag, Transform, Welcome, Store, Forward, Clear, Give, Rest,
         Add, Previous, Change, Remove, Erase, history
<1>2. to \in Users
  <2>1. Typed'
    BY TypedBegin, TypedSteps
  <2> QED
    BY <2>1 DEF Typed, Addressed
<1>3. req \in [Workers -> Requests] /\ req[w] \in Requests
  BY Parts
<1>4. \/ /\ to = transactions[n].to /\ ~transactions[n].over /\ n \notin late
         /\ Rest(w) => to # req[w].doc
      \/ ~Clear(w) /\ (status(to) = "merged" => Merging(w, to))
  BY Letters
<1>5. status(to) = "merged" \/ (Clear(w) /\ to = req[w].doc)
  BY <1>2, Fates DEF status
<1>6. CASE status(to) # "merged"
  <2>1. req'[w].doc = to /\ req'[w].at = "give"
    BY <1>3, <1>5, <1>6 DEF Clear, Go, Requests
  <2> QED
    BY <2>1
<1>7. ASSUME NEW x \in Workers, x # w, req[x].doc = to, req[x].at \in {"give", "rest"}
      PROVE  \E y \in Workers : req'[y].doc = to /\ req'[y].at \in {"give", "rest"}
  BY <1>7, Others
<1>8. CASE status(to) = "merged" /\ Merging(w, to)
  BY <1>7, <1>8 DEF Merging
<1>9. CASE /\ status(to) = "merged" /\ to = transactions[n].to /\ ~transactions[n].over
           /\ n \notin late /\ (Rest(w) => to # req[w].doc)
  <2>1. PICK x \in Workers : req[x].doc = to /\ req[x].at \in {"give", "rest"}
    BY <1>1, <1>9 DEF Waits
  <2>2. CASE x = w
    <3>1. Give(w)
      BY <1>9, <2>1, <2>2, Turns
    <3>2. Go(w, "rest")
      BY <3>1 DEF Give
    <3>3. req'[w].doc = to /\ req'[w].at = "rest"
      BY <1>3, <2>1, <2>2, <3>2 DEF Go, Requests
    <3> QED
      BY <3>3
  <2> QED
    BY <1>7, <2>1, <2>2
<1> QED
  BY <1>4, <1>5, <1>6, <1>8, <1>9

-----------------------------------------------------------------------------
(***************************************************************************)
(* What is always true.                                                    *)
(***************************************************************************)

AInv == Typed /\ Listed /\ Once /\ Asked /\ Known /\ Met /\ Waits

LEMMA IInvInit == AInit => AInv
<1> SUFFICES ASSUME AInit PROVE AInv
  OBVIOUS
<1>1. Typed
  BY TypedInit
<1> DEFINE firstDoc == [NoUser EXCEPT !.status = "ok", !.email = Primary, !.accounts = {Primary}]
<1>2. /\ firstDoc.status = "ok" /\ firstDoc.email = Primary /\ firstDoc.accounts = {Primary}
      /\ firstDoc.contact_of = {} /\ NoUser.status = "none" /\ NoUser.contact_of = {}
  BY DEF NoUser
<1>3. \A u \in Users : users[u] = IF u = First THEN firstDoc ELSE NoUser
  BY DEF AInit
<1> HIDE DEF firstDoc
<1>4. Listed /\ Known /\ Met
  BY <1>2, <1>3 DEF Listed, Known, Met, status
<1>5. Once
  BY <1>2, <1>3 DEF AInit, Once, Been, status
<1>6. Asked
  BY AccountsAssumption DEF AInit, NoRequest, Asked
<1>7. Waits
  BY DEF AInit, NoTransaction, Waits
<1> QED
  BY <1>1, <1>4, <1>5, <1>6, <1>7 DEF AInv

LEMMA IInvNext == AInv /\ [ANext]_avars => AInv'
<1> SUFFICES ASSUME AInv, [ANext]_avars PROVE AInv'
  OBVIOUS
<1>1. Typed'
  BY TypedNext DEF AInv
<1>2. CASE ANext
  <2>1. PICK w \in Workers : Begin(w) \/ Steps(w)
    BY <1>2 DEF ANext
  <2>2. Listed' /\ Once'
    BY <2>1, ListedNext, OnceNext DEF AInv
  <2>3. Asked' /\ Known' /\ Met'
    BY <2>1, AskedNext, KnownNext, MetNext DEF AInv
  <2>4. Waits'
    BY <2>1, WaitsNext DEF AInv
  <2> QED
    BY <1>1, <2>2, <2>3, <2>4 DEF AInv
<1>3. CASE UNCHANGED avars
  <2>1. Listed' /\ Once'
    BY <1>3 DEF AInv, avars, history, Listed, Once, Been, status
  <2>2. Asked' /\ Known' /\ Met'
    BY <1>3 DEF AInv, avars, history, Asked, Known, Met, Been, Over, status
  <2>3. Waits'
    BY <1>3 DEF AInv, avars, history, Waits, status
  <2> QED
    BY <1>1, <2>1, <2>2, <2>3 DEF AInv
<1> QED
  BY <1>2, <1>3

LEMMA Always == ASpec => []AInv
  BY IInvInit, IInvNext, PTL DEF ASpec

\* A registered user is one document that is found by its address, whatever is registered,
\* sent, merged, changed and deleted at once (user_register, account_confirm, merge_ghost).
THEOREM FoundOnce == ASpec => []Registered
<1>1. AInv => Registered
  BY DEF AInv, Typed, Registered, PrimaryListed, RegisteredOnce, Listed, Once
<1> QED
  BY <1>1, Always, PTL

\* Whatever is merged at once, at rest no transaction waits for a ghost that was merged, but
\* those that Forwarded excuses (merge_ghost, change_transactions_recipient).
THEOREM NothingWaits == ASpec => []Forwarded
<1>1. AInv => Forwarded
  BY DEF AInv, Waits, Forwarded, AtRest
<1> QED
  BY <1>1, Always, PTL

\* At rest, whoever has a registered user in his address book knows him, whether he found him
\* there or the user registered later, even meanwhile (user_update_contacts, user_register).
THEOREM ContactsTold == ASpec => []ContactsMeet
<1>1. AInv => ContactsMeet
  BY DEF AInv, Met, ContactsMeet, AtRest
<1> QED
  BY <1>1, Always, PTL

-----------------------------------------------------------------------------
(***************************************************************************)
(* Station and PeerConnection.                                             *)
(***************************************************************************)

(***************************************************************************)
(* The inductive invariant.                                                *)
(***************************************************************************)

\* _host_negotiating names the connection whose verdict the master reads.
OneNegotiation == \A c \in Conns : at[c][Master] = "status" <=> negotiating = c

\* _hosts names the end that is a host.
OneHost == \A c \in Conns, p \in Peers : at[c][p] = "host" <=> hosts[p] = c

\* The master does not negotiate and have a host.
Exclusive == negotiating # NoConn => hosts[Master] = NoConn

\* The master said succeeded on the connection of the slave's host.
Promised == \A c \in Conns :
              at[c][Slave] = "host" => at[c][Master] \in {"status", "host", "dropped"}

IInv == TypeOK /\ OneNegotiation /\ OneHost /\ Exclusive /\ Promised

\* The constants are apart.
LEMMA Apart == Master # Slave /\ NoConn \notin Conns /\ Peers = {Master, Slave}
  BY StationAssumption DEF Peers

\* The invariant implies both properties.
LEMMA Enough == IInv => MasterFree /\ Agreement
<1> SUFFICES ASSUME IInv PROVE MasterFree /\ Agreement
  OBVIOUS
<1> USE Apart DEF IInv
<1>1. MasterFree
  BY DEF MasterFree, OneNegotiation, Exclusive
<1>2. Agreement
  <2> SUFFICES ASSUME hosts[Master] # NoConn, hosts[Slave] # NoConn,
                      hosts[Master] # hosts[Slave]
               PROVE  at[hosts[Slave]][Master] = "dropped"
    BY DEF Agreement
  <2> DEFINE d == hosts[Slave]
  <2>1. d \in Conns
    BY DEF TypeOK
  <2>2. at[d][Slave] = "host"
    BY <2>1 DEF OneHost
  <2>3. at[d][Master] \in {"status", "host", "dropped"}
    BY <2>1, <2>2 DEF Promised
  <2>4. at[d][Master] # "host"
    BY <2>1 DEF OneHost
  <2>5. at[d][Master] # "status"
    BY <2>1 DEF OneNegotiation, Exclusive
  <2> QED
    BY <2>3, <2>4, <2>5
<1> QED
  BY <1>1, <1>2

\* Initially no connection has an end.
LEMMA InitInv == Init => IInv
  BY Apart DEF Init, IInv, TypeOK, OneNegotiation, OneHost, Exclusive, Promised, Unused,
     Places, Talking, Shut

-----------------------------------------------------------------------------
(***************************************************************************)
(* Closing ends.                                                           *)
(***************************************************************************)

\* The ends Close leaves before the signal.
ClosedEnds(p, lost, refused) ==
  [c \in Conns |-> IF c \in refused THEN Ends(c, p, "rejected")
                   ELSE IF c \in lost THEN Ends(c, p, Closed(c, p))
                   ELSE at[c]]

\* Ends moves one end to a closed place, or forgets a connection whose other end
\* is closed.
LEMMA EndsFact ==
  ASSUME TypeOK, NEW c \in Conns, NEW p \in Peers, NEW e \in Shut
  PROVE  /\ Ends(c, p, e) \in [Peers -> Places]
         /\ \/ Ends(c, p, e) = [at[c] EXCEPT ![p] = e]
            \/ at[c][other(p)] \in Shut /\ Ends(c, p, e) = Unused
<1>1. at[c] \in [Peers -> Places] /\ e \in Places /\ Unused \in [Peers -> Places]
  BY DEF TypeOK, Places, Unused
<1> QED
  BY <1>1 DEF Ends

\* The signal moves ends of the master from "queued" to "woken" only.
LEMMA SignalFact ==
  ASSUME TypeOK, NEW p \in Peers, NEW done, NEW ends \in [Conns -> [Peers -> Places]],
         Signal(p, done, ends)
  PROVE  /\ at' \in [Conns -> [Peers -> Places]]
         /\ \A c \in Conns : \/ at'[c] = ends[c]
                             \/ /\ ends[c][Master] = "queued"
                                /\ at'[c] = [ends[c] EXCEPT ![Master] = "woken"]
         /\ IF p = Master /\ negotiating \in done THEN negotiating' = NoConn
            ELSE negotiating' = negotiating
<1>1. "woken" \in Places
  BY DEF Places, Talking
<1> QED
  BY <1>1 DEF Signal

\* Closing ends that talk or are hosts keeps the invariant.
LEMMA CloseInv ==
  ASSUME IInv, NEW p \in Peers, NEW lost, NEW refused, refused \subseteq lost,
         lost \subseteq Conns,
         \A c \in lost : at[c][p] \in Talking \union {"host"},
         \A c \in refused : at[c][p] \in {"hello", "woken"},
         Close(p, lost, refused)
  PROVE  IInv'
<1> DEFINE ends == ClosedEnds(p, lost, refused)
<1> USE Apart
<1>t. TypeOK
  BY DEF IInv
<1>0. /\ Signal(p, lost, ends)
      /\ hosts' = IF hosts[p] \in lost THEN [hosts EXCEPT ![p] = NoConn] ELSE hosts
      /\ host_new' = [host_new EXCEPT ![p] = @ \ lost]
      /\ serving' = IF serving[p] \in lost THEN [serving EXCEPT ![p] = NoConn] ELSE serving
      /\ silent' = {c \in silent : at'[c] # Unused}
  BY DEF Close, ClosedEnds
<1>1. ASSUME NEW c \in Conns
      PROVE  /\ ends[c] \in [Peers -> Places]
             /\ c \notin lost => ends[c] = at[c]
             /\ c \in lost =>
                  \E e \in Shut :
                    /\ e = "dropped" => at[c][p] \in {"status", "host"} /\ c \notin refused
                    /\ at[c][p] \in {"status", "host"} => e = "dropped"
                    /\ \/ ends[c] = [at[c] EXCEPT ![p] = e]
                       \/ at[c][other(p)] \in Shut /\ ends[c] = Unused
  <2>1. CASE c \in refused
    BY <2>1, <1>t, EndsFact, "rejected" \in Shut DEF ClosedEnds, Shut
  <2>2. CASE c \in lost \ refused
    <3>1. Closed(c, p) \in Shut
      BY DEF Closed, Shut
    <3> QED
      BY ZenonT(30), <2>2, <3>1, <1>t, EndsFact DEF ClosedEnds, Closed
  <2>3. CASE c \notin lost
    BY <2>3, <1>t DEF ClosedEnds, TypeOK
  <2> QED
    BY <2>1, <2>2, <2>3
<1>2. ends \in [Conns -> [Peers -> Places]]
  BY <1>1 DEF ClosedEnds
<1>3. /\ at' \in [Conns -> [Peers -> Places]]
      /\ \A c \in Conns : \/ at'[c] = ends[c]
                          \/ /\ ends[c][Master] = "queued"
                             /\ at'[c] = [ends[c] EXCEPT ![Master] = "woken"]
      /\ IF p = Master /\ negotiating \in lost THEN negotiating' = NoConn
         ELSE negotiating' = negotiating
  BY <1>t, <1>0, <1>2, SignalFact
<1>4. TypeOK'
  BY <1>t, <1>0, <1>3 DEF TypeOK
\* What the closed ends of one connection are afterwards.
<1>5. ASSUME NEW c \in Conns
      PROVE  /\ c \in lost => at'[c][p] \in Shut \union {"none"}
             /\ c \notin lost => \A q \in Peers :
                                   \/ at'[c][q] = at[c][q]
                                   \/ at[c][q] = "queued" /\ at'[c][q] = "woken"
             /\ \A q \in Peers : q # p =>
                  \/ at'[c][q] = at[c][q]
                  \/ at[c][q] = "queued" /\ at'[c][q] = "woken"
                  \/ at[c][q] \in Shut /\ at'[c][q] = "none"
             /\ (c \in lost /\ at[c][p] \in {"status", "host"}) =>
                  \/ at'[c][p] = "dropped"
                  \/ \A q \in Peers : at'[c][q] = "none"
  <2>0. at[c] \in [Peers -> Places] /\ \A q \in Peers : q # p => q = other(p)
    BY <1>t DEF TypeOK, other
  <2>u. \A q \in Peers : Unused[q] = "none"
    BY DEF Unused
  <2>1. CASE c \notin lost
    BY <2>1, <2>0, <1>1, <1>3
  <2>2. CASE c \in lost
    <3>1. PICK e \in Shut :
                    /\ at[c][p] \in {"status", "host"} => e = "dropped"
                    /\ \/ ends[c] = [at[c] EXCEPT ![p] = e]
                       \/ at[c][other(p)] \in Shut /\ ends[c] = Unused
      BY <2>2, <1>1
    <3>2. CASE ends[c] = [at[c] EXCEPT ![p] = e]
      BY <2>2, <3>1, <3>2, <2>0, <1>3 DEF Shut
    <3>3. CASE at[c][other(p)] \in Shut /\ ends[c] = Unused
      BY <2>2, <3>1, <3>3, <2>0, <2>u, <1>3
    <3> QED
      BY <3>1, <3>2, <3>3
  <2> QED
    BY <2>1, <2>2
<1>6. OneNegotiation'
  <2> SUFFICES ASSUME NEW c \in Conns
               PROVE  at'[c][Master] = "status" <=> negotiating' = c
    BY DEF OneNegotiation
  <2>1. at[c][Master] = "status" <=> negotiating = c
    BY DEF IInv, OneNegotiation
  <2>2. CASE p = Master
    <3>1. c \in lost => at'[c][Master] # "status"
      BY <2>2, <1>5 DEF Shut
    <3>2. c \notin lost => (at'[c][Master] = "status" <=> at[c][Master] = "status")
      BY <1>5
    <3> QED
      BY <2>1, <2>2, <3>1, <3>2, <1>3
  <2>3. CASE p # Master
    <3>1. at'[c][Master] = "status" <=> at[c][Master] = "status"
      BY <2>3, <1>5 DEF Shut
    <3> QED
      BY <2>1, <2>3, <3>1, <1>3
  <2> QED
    BY <2>2, <2>3
<1>7. OneHost'
  <2> SUFFICES ASSUME NEW c \in Conns, NEW q \in Peers
               PROVE  at'[c][q] = "host" <=> hosts'[q] = c
    BY DEF OneHost
  <2>1. at[c][q] = "host" <=> hosts[q] = c
    BY DEF IInv, OneHost
  <2>h. hosts \in [Peers -> Conns \union {NoConn}]
    BY <1>t DEF TypeOK
  <2>2. CASE q = p
    <3>1. c \in lost => at'[c][p] # "host" /\ hosts'[p] # c
      BY <1>0, <1>5, <2>h DEF Shut
    <3>2. c \notin lost => /\ at'[c][p] = "host" <=> at[c][p] = "host"
                           /\ hosts'[p] = c <=> hosts[p] = c
      BY <1>0, <1>5, <2>h
    <3> QED
      BY <2>1, <2>2, <3>1, <3>2
  <2>3. CASE q # p
    <3>1. at'[c][q] = "host" <=> at[c][q] = "host"
      BY <2>3, <1>5 DEF Shut
    <3> QED
      BY <2>1, <2>3, <2>h, <3>1, <1>0
  <2> QED
    BY <2>2, <2>3
<1>8. Exclusive'
  BY <1>0, <1>3, <1>t DEF IInv, Exclusive, TypeOK
<1>9. Promised'
  <2> SUFFICES ASSUME NEW c \in Conns, at'[c][Slave] = "host"
               PROVE  at'[c][Master] \in {"status", "host", "dropped"}
    BY DEF Promised
  <2>1. at[c][Slave] = "host"
    BY <1>5 DEF Shut
  <2>2. at[c][Master] \in {"status", "host", "dropped"}
    BY <2>1 DEF IInv, Promised
  <2>3. CASE p = Master
    BY <2>2, <2>3, <1>5 DEF Talking
  <2>4. CASE p = Slave
    <3>1. c \notin lost
      BY <2>4, <1>5 DEF Shut
    <3> QED
      BY <2>2, <3>1, <1>5
  <2> QED
    BY <2>3, <2>4
<1> QED
  BY <1>4, <1>6, <1>7, <1>8, <1>9 DEF IInv

-----------------------------------------------------------------------------
(***************************************************************************)
(* The actions.                                                            *)
(***************************************************************************)

\* An end that may check the hosts has not said its verdict.
LEMMA MayCheckFact ==
  ASSUME NEW c \in Conns, NEW p \in Peers, MayCheck(c, p)
  PROVE  at[c][p] \in {"hello", "woken"}
  BY DEF MayCheck

\* What an owner may drop is its host.
LEMMA HeldFact ==
  ASSUME IInv, NEW p \in Peers, NEW with \in SUBSET Held(p)
  PROVE  with \subseteq Conns /\ \A c \in with : at[c][p] = "host"
  BY DEF IInv, OneHost, Held

\* A step that moves the end of p of one connection from the hello to a place where
\* it is no host.
LEMMA MoveInv ==
  ASSUME IInv, NEW c \in Conns, NEW p \in Peers, NEW e \in Places,
         at[c][p] \in {"hello", "woken", "backlog"}, e # "host",
         at' = [at EXCEPT ![c][p] = e],
         serving' \in [Peers -> Conns \union {NoConn}],
         UNCHANGED <<hosts, host_new, silent>>,
         IF p = Master /\ e = "status"
           THEN negotiating = NoConn /\ hosts[Master] = NoConn /\ negotiating' = c
           ELSE UNCHANGED negotiating
  PROVE  IInv'
<1> USE Apart
<1>1. TypeOK'
  BY DEF IInv, TypeOK
<1>2. at \in [Conns -> [Peers -> Places]]
  BY DEF IInv, TypeOK
<1>3. \A d \in Conns, q \in Peers :
        at'[d][q] = IF d = c /\ q = p THEN e ELSE at[d][q]
  BY <1>2
<1>4. OneNegotiation'
  BY <1>3 DEF IInv, OneNegotiation
<1>5. OneHost'
  BY <1>3 DEF IInv, OneHost
<1>6. Exclusive'
  BY DEF IInv, Exclusive
<1>7. Promised'
  <2> SUFFICES ASSUME NEW d \in Conns, at'[d][Slave] = "host"
               PROVE  at'[d][Master] \in {"status", "host", "dropped"}
    BY DEF Promised
  <2>1. at[d][Slave] = "host"
    BY <1>3
  <2>2. at[d][Master] \in {"status", "host", "dropped"}
    BY <2>1 DEF IInv, Promised
  <2> QED
    BY <2>2, <1>3
<1> QED
  BY <1>1, <1>4, <1>5, <1>6, <1>7 DEF IInv

\* One end becomes a host.
LEMMA SucceedInv ==
  ASSUME IInv, NEW c \in Conns, NEW p \in Peers, Succeed(c, p)
  PROVE  IInv'
<1> USE Apart
<1> DEFINE ends == [at EXCEPT ![c][p] = "host"]
<1>t. TypeOK
  BY DEF IInv
<1>0. /\ at[c][p] = "status" /\ hosts[p] = NoConn
      /\ at[c][other(p)] \in {"status", "host", "dropped"}
      /\ hosts' = [hosts EXCEPT ![p] = c]
      /\ Signal(p, {c}, ends)
  BY DEF Succeed, StatusReadable
<1>1. ends \in [Conns -> [Peers -> Places]]
  BY <1>t DEF TypeOK, Places
<1>2. /\ at' \in [Conns -> [Peers -> Places]]
      /\ \A d \in Conns : \/ at'[d] = ends[d]
                          \/ /\ ends[d][Master] = "queued"
                             /\ at'[d] = [ends[d] EXCEPT ![Master] = "woken"]
      /\ IF p = Master /\ negotiating \in {c} THEN negotiating' = NoConn
         ELSE negotiating' = negotiating
  BY <1>t, <1>0, <1>1, SignalFact
<1>3. ASSUME NEW d \in Conns, NEW q \in Peers
      PROVE  \/ at'[d][q] = IF d = c /\ q = p THEN "host" ELSE at[d][q]
             \/ ~(d = c /\ q = p) /\ at[d][q] = "queued" /\ at'[d][q] = "woken"
  BY <1>t, <1>1, <1>2 DEF TypeOK
<1>4. TypeOK'
  BY <1>t, <1>2 DEF TypeOK, Succeed
<1>5. OneNegotiation'
  <2>1. p = Master => negotiating = c
    BY <1>0 DEF IInv, OneNegotiation
  <2> QED
    BY <2>1, <1>2, <1>3 DEF IInv, OneNegotiation
<1>6. OneHost'
  BY <1>t, <1>0, <1>3 DEF IInv, OneHost, TypeOK
<1>7. Exclusive'
  <2>1. p = Master => negotiating' = NoConn
    BY <1>0, <1>2 DEF IInv, OneNegotiation
  <2> QED
    BY <2>1, <1>t, <1>0, <1>2 DEF IInv, Exclusive, TypeOK
<1>8. Promised'
  <2> SUFFICES ASSUME NEW d \in Conns, at'[d][Slave] = "host"
               PROVE  at'[d][Master] \in {"status", "host", "dropped"}
    BY DEF Promised
  <2>1. CASE d = c /\ p = Slave
    BY <2>1, <1>0, <1>3 DEF other
  <2>2. CASE ~(d = c /\ p = Slave)
    <3>1. at[d][Slave] = "host"
      BY <2>2, <1>3
    <3>2. at[d][Master] \in {"status", "host", "dropped"}
      BY <3>1 DEF IInv, Promised
    <3> QED
      BY <3>2, <1>3
  <2> QED
    BY <2>1, <2>2
<1> QED
  BY <1>4, <1>5, <1>6, <1>7, <1>8 DEF IInv

\* A call makes a connection of one that had no end.
LEMMA CallInv ==
  ASSUME IInv, NEW p \in Peers, NEW S \in SUBSET Conns, Call(p, S)
  PROVE  IInv'
<1> USE Apart
<1>t. TypeOK
  BY DEF IInv
<1>1. ASSUME NEW c \in Conns, NEW q \in Peers
      PROVE  \/ at'[c][q] = at[c][q]
             \/ c \in S /\ at[c][q] = "none" /\ at'[c][q] \in {"hello", "backlog"}
  BY <1>t DEF Call, Unused, other, TypeOK
<1>2. at' \in [Conns -> [Peers -> Places]]
  BY <1>t DEF Call, Unused, Places, Talking, TypeOK
<1>3. TypeOK'
  BY <1>t, <1>2 DEF Call, TypeOK
<1>u. UNCHANGED <<hosts, negotiating>>
  BY DEF Call
<1>n. OneNegotiation'
  BY <1>1, <1>u DEF IInv, OneNegotiation
<1>h. OneHost'
  BY <1>1, <1>u DEF IInv, OneHost
<1>e. Exclusive'
  BY <1>u DEF IInv, Exclusive
<1>5. Promised'
  <2> SUFFICES ASSUME NEW c \in Conns, at'[c][Slave] = "host"
               PROVE  at'[c][Master] \in {"status", "host", "dropped"}
    BY DEF Promised
  <2>1. at[c][Slave] = "host"
    BY <1>1
  <2>2. at[c][Master] \in {"status", "host", "dropped"}
    BY <2>1 DEF IInv, Promised
  <2> QED
    BY <2>2, <1>1
<1> QED
  BY <1>3, <1>n, <1>h, <1>e, <1>5 DEF IInv

\* The steps of a negotiation.
LEMMA NegotiateInv ==
  ASSUME IInv, NEW c \in Conns, NEW p \in Peers, Negotiate(c, p)
  PROVE  IInv'
<1> USE Apart
<1>1. ASSUME NEW with \in SUBSET Held(p), Refuse(c, p, with)
      PROVE  IInv'
  <2>1. at[c][p] \in {"hello", "woken"}
    BY <1>1, MayCheckFact DEF Refuse
  <2>2. with \subseteq Conns /\ \A d \in with : at[d][p] = "host"
    BY <1>1, HeldFact
  <2>3. Close(p, {c} \union with, {c})
    BY <1>1 DEF Refuse
  <2>4. /\ {c} \subseteq {c} \union with
        /\ {c} \union with \subseteq Conns
        /\ \A d \in {c} \union with : at[d][p] \in Talking \union {"host"}
        /\ \A d \in {c} : at[d][p] \in {"hello", "woken"}
    BY <2>1, <2>2 DEF Talking
  <2> QED
    BY <2>3, <2>4, CloseInv
<1>2. ASSUME NEW with \in SUBSET Held(p), Fail(c, p, with)
      PROVE  IInv'
  <2>1. at[c][p] \in {"hello", "status"}
    BY <1>2 DEF Fail, StatusReadable
  <2>2. with \subseteq Conns /\ \A d \in with : at[d][p] = "host"
    BY <1>2, HeldFact
  <2>3. Close(p, {c} \union with, {})
    BY <1>2 DEF Fail
  <2>4. /\ {} \subseteq {c} \union with
        /\ {c} \union with \subseteq Conns
        /\ \A d \in {c} \union with : at[d][p] \in Talking \union {"host"}
        /\ \A d \in {} : at[d][p] \in {"hello", "woken"}
    BY <2>1, <2>2 DEF Talking
  <2> QED
    BY <2>3, <2>4, CloseInv
<1>3. ASSUME Queue(c, p) PROVE IInv'
  <2>1. at[c][p] \in {"hello", "woken"} /\ "queued" \in Places
    BY <1>3, MayCheckFact DEF Queue, Places, Talking
  <2>2. serving' \in [Peers -> Conns \union {NoConn}]
    BY <1>3 DEF Queue, IInv, TypeOK
  <2> QED
    BY <1>3, <2>1, <2>2, MoveInv DEF Queue
<1>4. ASSUME Accept(c, p) PROVE IInv'
  <2>1. at[c][p] \in {"hello", "woken"} /\ "status" \in Places
    BY <1>4, MayCheckFact DEF Accept, Places, Talking
  <2>2. serving' \in [Peers -> Conns \union {NoConn}]
    BY <1>4 DEF Accept, IInv, TypeOK
  <2> QED
    BY <1>4, <2>1, <2>2, MoveInv DEF Accept
<1>5. ASSUME Succeed(c, p) PROVE IInv'
  BY <1>5, SucceedInv
<1> QED
  BY <1>1, <1>2, <1>3, <1>4, <1>5 DEF Negotiate

\* Every step keeps the invariant.
LEMMA NextInv == IInv /\ [Next]_vars => IInv'
<1> SUFFICES ASSUME IInv, [Next]_vars PROVE IInv'
  OBVIOUS
<1> USE Apart
<1>1. ASSUME NEW c \in Conns, NEW p \in Peers, Negotiate(c, p)
      PROVE  IInv'
  BY <1>1, NegotiateInv
<1>2. ASSUME NEW c \in Conns, NEW p \in Peers, Serve(c, p)
      PROVE  IInv'
  <2>1. serving' \in [Peers -> Conns \union {NoConn}] /\ "hello" \in Places
    BY <1>2 DEF Serve, IInv, TypeOK, Places, Talking
  <2> QED
    BY <1>2, <2>1, MoveInv DEF Serve
<1>3. ASSUME NEW c \in Conns, NEW p \in Peers, TakeHost(c, p)
      PROVE  IInv'
  BY <1>3 DEF TakeHost, IInv, TypeOK, OneNegotiation, OneHost, Exclusive, Promised
<1>4. ASSUME NEW p \in Peers, NEW S \in SUBSET Conns, Call(p, S)
      PROVE  IInv'
  BY <1>4, CallInv
<1>5. ASSUME NEW p \in Peers, NEW S \in SUBSET Conns, Abandon(p, S)
      PROVE  IInv'
  <2>1. /\ {} \subseteq S
        /\ \A d \in S : at[d][p] \in Talking \union {"host"}
        /\ \A d \in {} : at[d][p] \in {"hello", "woken"}
        /\ Close(p, S, {})
    BY <1>5 DEF Abandon
  <2> QED
    BY <2>1, CloseInv
<1>6. ASSUME NEW c \in Conns, Silence(c)
      PROVE  IInv'
  BY <1>6 DEF Silence, IInv, TypeOK, OneNegotiation, OneHost, Exclusive, Promised
<1>7. ASSUME UNCHANGED vars
      PROVE  IInv'
  BY <1>7 DEF vars, IInv, TypeOK, OneNegotiation, OneHost, Exclusive, Promised
<1> QED
  BY <1>1, <1>2, <1>3, <1>4, <1>5, <1>6, <1>7 DEF Next

-----------------------------------------------------------------------------
\* The inductive invariant holds in every behaviour.
LEMMA Inductive == Spec => []IInv
<1>1. IInv /\ [Next]_vars => IInv'
  BY NextInv
<1> QED
  BY <1>1, InitInv, PTL DEF Spec

\* Station.cc:244: the assertion of the master that it has no host for a peer that
\* accepts it cannot fail, whatever the owners do and however many calls cross.
THEOREM MasterNeverAsserts == Spec => []MasterFree
<1>1. IInv => MasterFree
  BY Enough
<1> QED
  BY <1>1, Inductive, PTL

\* Two stations never keep two connections: a slave's host the master does not have
\* is one the master had and dropped.
THEOREM SameConnection == Spec => []Agreement
<1>1. IInv => Agreement
  BY Enough
<1> QED
  BY <1>1, Inductive, PTL

-----------------------------------------------------------------------------
(***************************************************************************)
(* The inductive invariant.                                                *)
(***************************************************************************)

\* What accept() is to return is the host of the table.
NewHost == \A p \in Peers : host_new[p] \subseteq {hosts[p]}

\* What the rounds hold is the host of the table, once, and accept() has returned it.
Holds == \A p \in Peers :
           /\ \A c \in {found[p], host[p]} \intersect Conns :
                hosts[p] = c /\ c \notin host_new[p]
           /\ found[p] \in Conns => host[p] # found[p]

CInv == CTypeOK /\ IInv /\ NewHost /\ Holds /\ HostHeld

\* The places of the Transferer and of the rounds.
Phases == {"idle", "transfer", "failed"} \union Connecting

\* The constants are apart.
LEMMA RelayApart == /\ Relay \notin Conns /\ Relay # NoConn
                    /\ NoConn \notin Conns /\ NoOne \notin Peers
                    /\ Addresses \subseteq [Peers -> Nat]
                    /\ MaxFaults \in [Addresses -> Nat]
  BY ConnectionAssumption, Apart

LEMMA CInitInv == CInit => CInv
<1> SUFFICES ASSUME CInit PROVE CInv
  OBVIOUS
<1>1. IInv
  BY InitInv DEF CInit
<1>2. CTypeOK
  BY <1>1, RelayApart DEF CInit, CTypeOK, IInv
<1>3. NewHost /\ Holds /\ HostHeld
  BY RelayApart DEF CInit, Init, NewHost, Holds, HostHeld
<1> QED
  BY <1>1, <1>2, <1>3 DEF CInv

-----------------------------------------------------------------------------
(***************************************************************************)
(* Hosts.                                                                  *)
(***************************************************************************)

\* A fault stays within its bound.
LEMMA FaultFact ==
  ASSUME CTypeOK, NEW f, Fault(f), UNCHANGED addresses
  PROVE  faults' \in 0..MaxFaults'[addresses']
  BY RelayApart DEF Fault, CTypeOK

\* What the rounds hold is a host, and no call.
LEMMA HeldByRounds ==
  ASSUME CInv, NEW p \in Peers, NEW c \in {found[p], host[p]} \intersect Conns
  PROVE  at[c][p] = "host" /\ c \in Held(p) /\ c \notin Calls(p)
<1>1. hosts[p] = c /\ c \notin host_new[p]
  BY DEF CInv, Holds
<1>2. at[c][p] = "host"
  BY <1>1 DEF CInv, IInv, OneHost
<1> QED
  BY <1>1, <1>2 DEF Held, Calls, Talking

\* Closing ends, the rounds keep what they hold that is not closed: f and h are what
\* found and host are afterwards.
LEMMA CloseHolds ==
  ASSUME CInv, NEW p \in Peers, NEW lost \in SUBSET Conns, NEW refused,
         Close(p, lost, refused),
         NEW f \in Conns \union {NoConn}, NEW h \in Conns \union {NoConn, Relay},
         found' = [found EXCEPT ![p] = f], host' = [host EXCEPT ![p] = h],
         \A c \in {f, h} \intersect Conns : c \in {found[p], host[p]} /\ c \notin lost,
         f \in Conns => h # f,
         {found[p], host[p]} \intersect Conns \subseteq lost \union {f, h}
  PROVE  /\ NewHost' /\ Holds' /\ HostHeld'
         /\ found' \in [Peers -> Conns \union {NoConn}]
         /\ host' \in [Peers -> Conns \union {NoConn, Relay}]
<1> USE RelayApart
<1>1. /\ hosts' = IF hosts[p] \in lost THEN [hosts EXCEPT ![p] = NoConn] ELSE hosts
      /\ host_new' = [host_new EXCEPT ![p] = @ \ lost]
  BY DEF Close
<1>2. /\ hosts \in [Peers -> Conns \union {NoConn}]
      /\ host_new \in [Peers -> SUBSET Conns]
      /\ found \in [Peers -> Conns \union {NoConn}]
      /\ host \in [Peers -> Conns \union {NoConn, Relay}]
  BY DEF CInv, CTypeOK, TypeOK
<1>3. /\ hosts'[p] = IF hosts[p] \in lost THEN NoConn ELSE hosts[p]
      /\ host_new'[p] = host_new[p] \ lost
      /\ found'[p] = f /\ host'[p] = h
  BY <1>1, <1>2
<1>4. \A q \in Peers : q # p => /\ hosts'[q] = hosts[q] /\ host_new'[q] = host_new[q]
                                /\ found'[q] = found[q] /\ host'[q] = host[q]
  BY <1>1, <1>2
<1>5. NewHost'
  BY <1>3, <1>4 DEF CInv, NewHost
<1>6. Holds'
  <2>1. \A c \in {f, h} \intersect Conns : hosts'[p] = c /\ c \notin host_new'[p]
    BY <1>3 DEF CInv, Holds
  <2> QED
    BY <2>1, <1>3, <1>4 DEF CInv, Holds
<1>7. HostHeld'
  <2>1. hosts'[p] # NoConn => hosts'[p] \in host_new'[p] \union {f, h}
    BY <1>2, <1>3 DEF CInv, HostHeld
  <2> QED
    BY <2>1, <1>3, <1>4 DEF CInv, HostHeld
<1> QED
  BY <1>2, <1>5, <1>6, <1>7

\* The table and what accept() is to return do not change, nor what the rounds hold.
LEMMA SameHolds ==
  ASSUME CInv, UNCHANGED <<hosts, host_new, found, host>>
  PROVE  NewHost' /\ Holds' /\ HostHeld'
  BY DEF CInv, NewHost, Holds, HostHeld

\* The relay's end of a tunnel is moved within its places.
LEMMA HangupFact ==
  ASSUME CTypeOK, NEW p \in Peers, Hangup(p)
  PROVE  tunnel' \in [Peers -> {"off", "sent", "first", "linked", "widowed", "refused"}]
  BY DEF CTypeOK, Hangup

\* A step of the stations keeps their invariant.
LEMMA StationInv ==
  ASSUME CInv, [Next]_vars
  PROVE  IInv'
  BY NextInv DEF CInv

\* Calls are given up, and hosts dropped, that p holds.
LEMMA AbandonNext ==
  ASSUME CInv, NEW p \in Peers, NEW lost \in SUBSET Conns, Close(p, lost, {}),
         lost \subseteq Calls(p) \union {found[p], host[p]}
  PROVE  Next
<1>1. ASSUME NEW c \in lost
      PROVE  \/ caller(c) = p /\ at[c][p] \in Talking
             \/ at[c][p] = "host" /\ c \notin host_new[p]
  BY HeldByRounds DEF Calls, Held
<1>2. Abandon(p, lost)
  BY <1>1 DEF Abandon
<1> QED
  BY <1>2 DEF Next

-----------------------------------------------------------------------------
(***************************************************************************)
(* The actions.                                                            *)
(***************************************************************************)

\* What every action is shown to do.
Good == [Next]_vars /\ CInv'

\* The end of the scope of _connect.
LEMMA LeaveGood ==
  ASSUME CInv, NEW p \in Peers, NEW h \in {NoConn, host[p]},
         NEW next \in {"idle", "transfer", "failed"}, Leave(p, h, next),
         UNCHANGED addresses, faults' \in 0..MaxFaults'[addresses']
  PROVE  Good
<1> DEFINE lost == Calls(p) \union Direct(found[p]) \union (Direct(host[p]) \ {h})
<1> USE RelayApart
<1>1. /\ found \in [Peers -> Conns \union {NoConn}]
      /\ host \in [Peers -> Conns \union {NoConn, Relay}]
      /\ phase \in [Peers -> Phases]
  BY DEF CInv, CTypeOK, Phases
<1>2. lost \in SUBSET Conns /\ h \in Conns \union {NoConn, Relay}
  BY <1>1 DEF Calls, Direct
<1>3. /\ Close(p, lost, {})
      /\ found' = [found EXCEPT ![p] = NoConn]
      /\ host' = [host EXCEPT ![p] = h]
      /\ phase' = [phase EXCEPT ![p] = next]
      /\ first' = first
      /\ IF h = Relay THEN UNCHANGED tunnel ELSE Hangup(p)
  BY DEF Leave
<1>4. Next
  <2>1. lost \subseteq Calls(p) \union {found[p], host[p]}
    BY DEF Direct
  <2> QED
    BY <1>2, <1>3, <2>1, AbandonNext
<1>5. IInv'
  BY <1>4, StationInv
<1>6. /\ NewHost' /\ Holds' /\ HostHeld'
      /\ found' \in [Peers -> Conns \union {NoConn}]
      /\ host' \in [Peers -> Conns \union {NoConn, Relay}]
  <2>1. \A c \in {NoConn, h} \intersect Conns : c \in {found[p], host[p]} /\ c \notin lost
    <3> SUFFICES ASSUME h \in Conns PROVE h = host[p] /\ h \notin lost
      OBVIOUS
    <3>1. h = host[p]
      OBVIOUS
    <3>2. h \notin Calls(p)
      BY <3>1, HeldByRounds
    <3>3. h \notin Direct(found[p])
      BY <3>1, <1>1 DEF Direct, CInv, Holds
    <3> QED
      BY <3>1, <3>2, <3>3
  <2>2. {found[p], host[p]} \intersect Conns \subseteq lost \union {NoConn, h}
    BY DEF Direct
  <2> HIDE DEF lost
  <2> QED
    BY <1>2, <1>3, <2>1, <2>2, CloseHolds
<1>7. CTypeOK'
  <2>1. tunnel' \in [Peers -> {"off", "sent", "first", "linked", "widowed", "refused"}]
    BY <1>3, HangupFact DEF CInv, CTypeOK
  <2>2. phase' \in [Peers -> Phases]
    BY <1>1, <1>3 DEF Phases
  <2> QED
    BY <2>1, <2>2, <1>3, <1>5, <1>6 DEF CInv, CTypeOK, IInv, Phases
<1> QED
  BY <1>4, <1>5, <1>6, <1>7 DEF Good, CInv

\* The direct round is over with host h, or with none, and its calls are given up.
LEMMA RoundGood ==
  ASSUME CInv, NEW p \in Peers, NEW f, NEW h, NEW next \in Phases,
         \/ f = found[p] /\ h = host[p]
         \/ f = NoConn /\ h = found[p] /\ host[p] = NoConn,
         Close(p, Calls(p), {}),
         found' = [found EXCEPT ![p] = f], host' = [host EXCEPT ![p] = h],
         phase' = [phase EXCEPT ![p] = next], UNCHANGED first,
         tunnel' = tunnel \/ tunnel' = [tunnel EXCEPT ![p] = "sent"],
         UNCHANGED addresses, faults' \in 0..MaxFaults'[addresses']
  PROVE  Good
<1> USE RelayApart
<1>1. /\ found \in [Peers -> Conns \union {NoConn}]
      /\ host \in [Peers -> Conns \union {NoConn, Relay}]
      /\ phase \in [Peers -> Phases]
      /\ tunnel \in [Peers -> {"off", "sent", "first", "linked", "widowed", "refused"}]
  BY DEF CInv, CTypeOK, Phases
<1>2. /\ Calls(p) \in SUBSET Conns
      /\ f \in Conns \union {NoConn} /\ h \in Conns \union {NoConn, Relay}
  BY <1>1 DEF Calls
<1>3. Next
  BY <1>2, AbandonNext
<1>4. IInv'
  BY <1>3, StationInv
<1>5. /\ NewHost' /\ Holds' /\ HostHeld'
      /\ found' \in [Peers -> Conns \union {NoConn}]
      /\ host' \in [Peers -> Conns \union {NoConn, Relay}]
  <2>1. \A c \in {f, h} \intersect Conns : c \in {found[p], host[p]} /\ c \notin Calls(p)
    BY HeldByRounds
  <2>2. f \in Conns => h # f
    BY DEF CInv, Holds
  <2>3. {found[p], host[p]} \intersect Conns \subseteq Calls(p) \union {f, h}
    OBVIOUS
  <2> QED
    BY <1>2, <2>1, <2>2, <2>3, CloseHolds
<1>6. CTypeOK'
  BY <1>1, <1>4, <1>5 DEF CInv, CTypeOK, IInv, Phases
<1> QED
  BY <1>3, <1>4, <1>5, <1>6 DEF Good, CInv

\* A step of a station that touches no host.
LEMMA QuietGood ==
  ASSUME CInv, [Next]_vars, UNCHANGED <<hosts, host_new, found, host, first, addresses>>,
         phase' \in [Peers -> Phases],
         tunnel' \in [Peers -> {"off", "sent", "first", "linked", "widowed", "refused"}],
         faults' \in 0..MaxFaults'[addresses']
  PROVE  Good
<1>1. IInv'
  BY StationInv
<1>2. NewHost' /\ Holds' /\ HostHeld'
  BY SameHolds
<1>3. CTypeOK'
  BY <1>1 DEF CInv, CTypeOK, IInv, Phases
<1> QED
  BY <1>1, <1>2, <1>3 DEF Good, CInv

\* The types of what the rounds and the relay keep.
LEMMA RoundTypes ==
  ASSUME CInv
  PROVE  /\ found \in [Peers -> Conns \union {NoConn}]
         /\ host \in [Peers -> Conns \union {NoConn, Relay}]
         /\ phase \in [Peers -> Phases]
         /\ tunnel \in [Peers -> {"off", "sent", "first", "linked", "widowed", "refused"}]
         /\ first \in Peers \union {NoOne}
         /\ faults \in 0..MaxFaults[addresses]
  BY DEF CInv, CTypeOK, Phases

\* A negotiation of p succeeds: it had no host, so that its rounds held none.
LEMMA SucceedGood ==
  ASSUME CInv, NEW c \in Conns, NEW p \in Peers, Succeed(c, p),
         found' = IF caller(c) = p THEN [found EXCEPT ![p] = c] ELSE found,
         phase' = IF caller(c) = p THEN [phase EXCEPT ![p] = "opened"] ELSE phase,
         UNCHANGED <<host, relay, faults, addresses>>
  PROVE  Good
<1> USE RelayApart
<1>1. Next
  BY DEF Next, Negotiate
<1>2. IInv'
  BY <1>1, StationInv
<1>3. /\ hosts \in [Peers -> Conns \union {NoConn}]
      /\ host_new \in [Peers -> SUBSET Conns]
  BY DEF CInv, CTypeOK, TypeOK
<1>4. /\ hosts[p] = NoConn /\ hosts' = [hosts EXCEPT ![p] = c]
      /\ host_new' = IF caller(c) = p THEN host_new
                     ELSE [host_new EXCEPT ![p] = @ \union {c}]
  BY DEF Succeed
<1>5. host_new[p] = {} /\ found[p] \notin Conns /\ host[p] \notin Conns
  BY <1>3, <1>4 DEF CInv, NewHost, Holds
<1>6. /\ hosts'[p] = c /\ host'[p] = host[p]
      /\ host_new'[p] = IF caller(c) = p THEN {} ELSE {c}
      /\ found'[p] = IF caller(c) = p THEN c ELSE found[p]
  BY <1>3, <1>4, <1>5, RoundTypes
<1>7. \A q \in Peers : q # p => /\ hosts'[q] = hosts[q] /\ host_new'[q] = host_new[q]
                                /\ found'[q] = found[q] /\ host'[q] = host[q]
  BY <1>3, <1>4, RoundTypes
<1>8. NewHost' /\ Holds' /\ HostHeld'
  <2>1. NewHost'
    BY <1>6, <1>7 DEF CInv, NewHost
  <2>2. Holds'
    BY <1>5, <1>6, <1>7 DEF CInv, Holds
  <2>3. HostHeld'
    BY <1>6, <1>7 DEF CInv, HostHeld
  <2> QED
    BY <2>1, <2>2, <2>3
<1>9. CTypeOK'
  <2>1. /\ found' \in [Peers -> Conns \union {NoConn}]
        /\ phase' \in [Peers -> Phases]
    BY RoundTypes DEF Phases, Connecting
  <2> QED
    BY <1>2, <2>1 DEF CInv, CTypeOK, IInv, relay, Phases
<1> QED
  BY <1>1, <1>2, <1>8, <1>9 DEF Good, CInv

\* A negotiation of p is refused, or fails: with a call goes what found held.
LEMMA FailGood ==
  ASSUME CInv, NEW c \in Conns, NEW p \in Peers,
         Refuse(c, p, Overwritten(c, p)) \/ Fail(c, p, Overwritten(c, p)),
         found' = IF caller(c) = p THEN [found EXCEPT ![p] = NoConn] ELSE found,
         UNCHANGED <<phase, host, relay, faults, addresses>>
  PROVE  Good
<1> DEFINE with == Overwritten(c, p)
           f == IF caller(c) = p THEN NoConn ELSE found[p]
<1> USE RelayApart
<1>1. with \in SUBSET Held(p) /\ with \in SUBSET Conns
  BY HeldByRounds, RoundTypes DEF Overwritten, Direct
<1>2. Next
  BY <1>1 DEF Next, Negotiate
<1>3. IInv'
  BY <1>2, StationInv
<1>4. at[c][p] # "host"
  BY DEF Refuse, Fail, MayCheck, StatusReadable
<1>5. PICK refused : Close(p, {c} \union with, refused)
  BY DEF Refuse, Fail
<1>6. NewHost' /\ Holds' /\ HostHeld' /\ found' \in [Peers -> Conns \union {NoConn}]
  <2>1. /\ f \in Conns \union {NoConn} /\ host[p] \in Conns \union {NoConn, Relay}
        /\ found' = [found EXCEPT ![p] = f] /\ host' = [host EXCEPT ![p] = host[p]]
    BY RoundTypes
  <2>2. \A d \in {found[p], host[p]} \intersect Conns : d # c
    BY <1>4, HeldByRounds
  <2>3. found[p] \in Conns => host[p] # found[p]
    BY DEF CInv, Holds
  <2>4. \A d \in {f, host[p]} \intersect Conns :
          d \in {found[p], host[p]} /\ d \notin {c} \union with
    BY <2>2, <2>3 DEF Overwritten, Direct
  <2>5. {found[p], host[p]} \intersect Conns \subseteq ({c} \union with) \union {f, host[p]}
    BY DEF Overwritten, Direct
  <2>6. f \in Conns => host[p] # f
    BY <2>3
  <2>7. {c} \union with \in SUBSET Conns
    BY <1>1
  <2> HIDE DEF with, f
  <2> QED
    BY <1>5, <2>1, <2>4, <2>5, <2>6, <2>7, CloseHolds
<1>7. CTypeOK'
  BY <1>3, <1>6 DEF CInv, CTypeOK, IInv, relay
<1> QED
  BY <1>2, <1>3, <1>6, <1>7 DEF Good, CInv

\* Any step of a negotiation.
LEMMA TalkGood ==
  ASSUME CInv, NEW c \in Conns, NEW p \in Peers, Talk(c, p), UNCHANGED addresses
  PROVE  Good
<1>1. CASE (Queue(c, p) \/ Accept(c, p) \/ Serve(c, p)) /\ UNCHANGED <<found, phase>>
  <2>1. Next
    BY <1>1 DEF Next, Negotiate
  <2>2. UNCHANGED <<hosts, host_new, found, host, first, addresses, phase, tunnel, faults>>
    BY <1>1 DEF Queue, Accept, Serve, Talk, relay
  <2> QED
    BY <2>1, <2>2, QuietGood, RoundTypes
<1>2. CASE /\ Succeed(c, p)
           /\ found' = IF caller(c) = p THEN [found EXCEPT ![p] = c] ELSE found
           /\ phase' = IF caller(c) = p THEN [phase EXCEPT ![p] = "opened"] ELSE phase
  BY <1>2, SucceedGood DEF Talk
<1>3. CASE /\ Refuse(c, p, Overwritten(c, p)) \/ Fail(c, p, Overwritten(c, p))
           /\ found' = IF caller(c) = p THEN [found EXCEPT ![p] = NoConn] ELSE found
           /\ UNCHANGED phase
  BY <1>3, FailGood DEF Talk
<1> QED
  BY <1>1, <1>2, <1>3 DEF Talk

\* The direct round begins.
LEMMA ConnectGood ==
  ASSUME CInv, NEW p \in Peers, Connect(p), UNCHANGED addresses
  PROVE  Good
<1>1. PICK calls \in SUBSET {c \in Conns : caller(c) = p /\ at[c] = Unused} : Call(p, calls)
  BY DEF Connect
<1>2. Next
  <2>1. calls \in SUBSET Conns
    OBVIOUS
  <2> QED
    BY <1>1, <2>1 DEF Next
<1>3. UNCHANGED <<hosts, host_new, found, host, first, addresses, tunnel, faults>>
  BY <1>1 DEF Call, Connect, relay
<1>4. phase' \in [Peers -> Phases]
  BY RoundTypes DEF Connect, Phases, Connecting
<1> QED
  BY <1>2, <1>3, <1>4, QuietGood, RoundTypes

\* The direct round is given up for the relay.
LEMMA FallbackGood ==
  ASSUME CInv, NEW p \in Peers, Fallback(p), UNCHANGED addresses,
         faults' \in 0..MaxFaults'[addresses']
  PROVE  Good
<1>1. /\ found' = [found EXCEPT ![p] = found[p]] /\ host' = [host EXCEPT ![p] = host[p]]
      /\ Close(p, Calls(p), {}) /\ UNCHANGED first
      /\ phase' = [phase EXCEPT ![p] = "fallback"]
      /\ tunnel' = [tunnel EXCEPT ![p] = "sent"]
  BY RoundTypes DEF Fallback
<1>2. "fallback" \in Phases
  BY DEF Phases, Connecting
<1> QED
  BY <1>1, <1>2, RoundGood

\* The direct round ends with what it found.
LEMMA DirectGood ==
  ASSUME CInv, NEW p \in Peers, DirectFound(p), UNCHANGED addresses
  PROVE  Good
<1>1. faults' \in 0..MaxFaults'[addresses']
  BY RoundTypes DEF DirectFound
<1>2. CASE Fallback(p)
  BY <1>1, <1>2, FallbackGood
<1>3. CASE Assertion(p)
  BY <1>1, <1>3, LeaveGood DEF Assertion
<1>4. CASE /\ found[p] # NoConn /\ host[p] = NoConn
           /\ Close(p, Calls(p), {})
           /\ host' = [host EXCEPT ![p] = found[p]]
           /\ found' = [found EXCEPT ![p] = NoConn]
           /\ phase' = [phase EXCEPT ![p] = "over"]
           /\ UNCHANGED relay
  <2>1. "over" \in Phases
    BY DEF Phases, Connecting
  <2> QED
    BY <1>1, <1>4, <2>1, RoundGood DEF relay
<1> QED
  BY <1>2, <1>3, <1>4 DEF DirectFound

\* The two seconds of the direct round are over.
LEMMA TimeoutGood ==
  ASSUME CInv, NEW p \in Peers, DirectTimeout(p), UNCHANGED addresses
  PROVE  Good
<1>1. faults' \in 0..MaxFaults'[addresses']
  <2>1. CASE UNCHANGED faults
    BY <2>1, RoundTypes
  <2>2. CASE Fault("early")
    BY <2>2, FaultFact DEF CInv
  <2> QED
    BY <2>1, <2>2 DEF DirectTimeout
<1> QED
  BY <1>1, FallbackGood DEF DirectTimeout

\* accept() returns a host: the rounds held none, since it is the one of the table.
LEMMA AcceptedGood ==
  ASSUME CInv, NEW p \in Peers, Accepted(p), UNCHANGED addresses
  PROVE  Good
<1>1. faults' \in 0..MaxFaults'[addresses']
  BY RoundTypes DEF Accepted
<1>2. CASE Assertion(p)
  BY <1>1, <1>2, LeaveGood DEF Assertion
<1>3. ASSUME NEW c \in host_new[p], TakeHost(c, p), host[p] = NoConn,
             host' = [host EXCEPT ![p] = c], UNCHANGED <<phase, found, relay>>
      PROVE  Good
  <2> USE RelayApart
  <2>1. host_new \in [Peers -> SUBSET Conns]
    BY DEF CInv, CTypeOK, TypeOK
  <2>2. c \in Conns
    BY <2>1, <1>3
  <2>3. Next
    BY <1>3, <2>2 DEF Next
  <2>4. IInv'
    BY <2>3, StationInv
  <2>5. hosts[p] = c /\ found[p] # c
    BY <1>3, <2>2 DEF CInv, NewHost, Holds
  <2>6. /\ hosts' = hosts /\ found' = found
        /\ host_new' = [host_new EXCEPT ![p] = @ \ {c}]
        /\ host' = [host EXCEPT ![p] = c]
    BY <1>3 DEF TakeHost
  <2>7. /\ host_new'[p] = host_new[p] \ {c} /\ host'[p] = c
        /\ \A q \in Peers : q # p => host_new'[q] = host_new[q] /\ host'[q] = host[q]
    BY <2>1, <2>6, RoundTypes
  <2>8. NewHost'
    BY <2>6, <2>7 DEF CInv, NewHost
  <2>9. Holds'
    BY <2>5, <2>6, <2>7 DEF CInv, Holds
  <2>10. HostHeld'
    BY <2>5, <2>6, <2>7 DEF CInv, HostHeld
  <2>11. CTypeOK'
    <3>1. host' \in [Peers -> Conns \union {NoConn, Relay}]
      BY <2>2, <2>6, RoundTypes
    <3> QED
      BY <1>1, <1>3, <2>4, <2>6, <3>1 DEF CInv, CTypeOK, IInv, relay
  <2> QED
    BY <2>3, <2>4, <2>8, <2>9, <2>10, <2>11 DEF Good, CInv
<1> QED
  BY <1>2, <1>3 DEF Accepted

\* The relay has paired p with the other.
LEMMA SyncedGood ==
  ASSUME CInv, NEW p \in Peers, Synced(p), UNCHANGED addresses
  PROVE  Good
<1>1. faults' \in 0..MaxFaults'[addresses']
  BY RoundTypes DEF Synced
<1>2. CASE Assertion(p)
  BY <1>1, <1>2, LeaveGood DEF Assertion
<1>3. CASE /\ host[p] = NoConn /\ host' = [host EXCEPT ![p] = Relay]
           /\ phase' = [phase EXCEPT ![p] = "over"]
           /\ UNCHANGED <<vars, found, relay>>
  <2> USE RelayApart
  <2>1. hosts' = hosts /\ host_new' = host_new /\ found' = found /\ UNCHANGED vars
    BY <1>3 DEF vars
  <2>2. IInv'
    BY <2>1, StationInv
  <2>3. /\ host'[p] = Relay
        /\ \A q \in Peers : q # p => host'[q] = host[q]
    BY <1>3, RoundTypes
  <2>4. NewHost' /\ Holds' /\ HostHeld'
    <3>1. NewHost'
      BY <2>1 DEF CInv, NewHost
    <3>2. Holds'
      BY <2>1, <2>3 DEF CInv, Holds
    <3>3. HostHeld'
      BY <1>3, <2>1, <2>3 DEF CInv, HostHeld
    <3> QED
      BY <3>1, <3>2, <3>3
  <2>5. CTypeOK'
    <3>1. /\ host' \in [Peers -> Conns \union {NoConn, Relay}]
          /\ phase' \in [Peers -> Phases]
      BY <1>3, RoundTypes DEF Phases, Connecting
    <3> QED
      BY <1>1, <1>3, <2>2, <3>1 DEF CInv, CTypeOK, IInv, relay, Phases
  <2> QED
    BY <2>1, <2>2, <2>4, <2>5 DEF Good, CInv
<1> QED
  BY <1>2, <1>3 DEF Synced

\* _connect returns a host, or fails, or the transfer loses its connection.
LEMMA LeavesGood ==
  ASSUME CInv, NEW p \in Peers, UNCHANGED addresses,
         RelayLost(p) \/ Found(p) \/ TransferLost(p) \/ Interrupt(p)
  PROVE  Good
<1>1. faults' \in 0..MaxFaults'[addresses']
  <2>1. CASE UNCHANGED faults
    BY <2>1, RoundTypes
  <2>2. CASE Fault("interrupt")
    BY <2>2, FaultFact DEF CInv
  <2> QED
    BY <2>1, <2>2 DEF RelayLost, Found, TransferLost, Interrupt
<1> QED
  BY <1>1, LeaveGood DEF RelayLost, Found, TransferLost, Interrupt

\* apertus pairs a client, or closes the socket of one that waits.
LEMMA RelayGood ==
  ASSUME CInv, NEW p \in Peers, Join(p) \/ RelayTimeout(p), UNCHANGED addresses
  PROVE  Good
<1>1. UNCHANGED <<vars, found, host, phase>>
  BY DEF Join, RelayTimeout, rounds
<1>2. faults' \in 0..MaxFaults'[addresses']
  <2>1. CASE Join(p)
    BY <2>1, RoundTypes DEF Join
  <2>2. CASE RelayTimeout(p)
    BY <2>2, FaultFact DEF RelayTimeout, CInv
  <2> QED
    BY <2>1, <2>2
<1>3. /\ tunnel' \in [Peers -> {"off", "sent", "first", "linked", "widowed", "refused"}]
      /\ first' \in Peers \union {NoOne}
  BY RoundTypes DEF Join, RelayTimeout
<1>4. IInv'
  BY <1>1, StationInv
<1>5. NewHost' /\ Holds' /\ HostHeld'
  BY <1>1, SameHolds DEF vars
<1>6. CTypeOK'
  BY <1>1, <1>2, <1>3, <1>4 DEF CInv, CTypeOK, IInv, vars
<1> QED
  BY <1>1, <1>4, <1>5, <1>6 DEF Good, CInv

\* A connection loses the network.
LEMMA LoseGood ==
  ASSUME CInv, NEW c \in Conns, Lose(c), UNCHANGED addresses
  PROVE  Good
<1>1. Next
  BY DEF Lose, Next
<1>2. faults' \in 0..MaxFaults'[addresses']
  BY FaultFact DEF Lose, CInv
<1>3. /\ UNCHANGED <<hosts, host_new, found, host, first>>
      /\ UNCHANGED phase /\ UNCHANGED tunnel
  BY DEF Lose, Silence, rounds, relay
<1> QED
  BY <1>1, <1>2, <1>3, QuietGood, RoundTypes

\* Every step.
LEMMA StepGood == CInv /\ [CNext]_all => Good
<1> SUFFICES ASSUME CInv, [CNext]_all PROVE Good
  OBVIOUS
<1>1. CASE UNCHANGED all
  <2>1. UNCHANGED <<vars, rounds, relay, faults, addresses>>
    BY <1>1 DEF all
  <2>2. UNCHANGED <<hosts, host_new, found, host, first, addresses, phase, tunnel, faults>>
    BY <2>1 DEF vars, rounds, relay
  <2> QED
    BY <2>1, <2>2, QuietGood, RoundTypes
<1>2. CASE CNext
  <2>1. UNCHANGED addresses
    BY <1>2 DEF CNext
  <2>2. ASSUME NEW p \in Peers, Move(p) PROVE Good
    BY <2>1, <2>2, TalkGood, ConnectGood, DirectGood, AcceptedGood, SyncedGood,
       LeavesGood, RelayGood DEF Move, Step
  <2>3. ASSUME NEW p \in Peers, DirectTimeout(p) \/ RelayTimeout(p) \/ Interrupt(p)
        PROVE  Good
    BY <2>1, <2>3, TimeoutGood, RelayGood, LeavesGood
  <2>4. ASSUME NEW c \in Conns, Lose(c) PROVE Good
    BY <2>1, <2>4, LoseGood
  <2> QED
    BY <1>2, <2>2, <2>3, <2>4 DEF CNext
<1> QED
  BY <1>1, <1>2

-----------------------------------------------------------------------------
(***************************************************************************)
(* The theorems.                                                           *)
(***************************************************************************)

\* The invariant holds, whatever the bounds on addresses, connections and faults.
LEMMA ConnectionInv == CSpec => []CInv
<1>1. CInv /\ [CNext]_all => CInv'
  BY StepGood DEF Good
<1> QED
  BY CInitInv, <1>1, PTL DEF CSpec

\* The states of the rounds, the relay and the stations are the expected ones.
THEOREM ConnectionTyped == CSpec => []CTypeOK
<1>1. CInv => CTypeOK
  BY DEF CInv
<1> QED
  BY <1>1, ConnectionInv, PTL

\* A station never has a host that neither accept() nor a round holds: the peer is not
\* answered already_connected for ever (PeerTransferMachine.cc, Rounds.cc).
THEOREM HostsHeld == CSpec => []HostHeld
<1>1. CInv => HostHeld
  BY DEF CInv
<1> QED
  BY <1>1, ConnectionInv, PTL

\* The rounds are an owner of the station as Station describes it: every step of theirs
\* is a step of the stations, or leaves them as they are.
THEOREM ConnectionRefines == CSpec => UsesStation
<1>1. CInit => Init
  BY DEF CInit
<1>2. CInv /\ [CNext]_all => [Next]_vars
  BY StepGood DEF Good
<1> QED
  BY <1>1, <1>2, ConnectionInv, PTL DEF CSpec, UsesStation, Spec

\* So the master has no host when it reads the verdict of a connection it has accepted,
\* and the hosts of the two stations are of one connection, or about to be.
THEOREM ConnectionAgrees == CSpec => [](MasterFree /\ Agreement)
<1>1. CInv => MasterFree /\ Agreement
  BY Enough DEF CInv
<1> QED
  BY <1>1, ConnectionInv, PTL

\* The stations are safe in the hands of the rounds, for any bounds.
THEOREM ConnectionSafe == CSpec => []StationsSafe
<1>1. CInv => StationsSafe
  BY Enough DEF CInv, StationsSafe
<1> QED
  BY <1>1, ConnectionInv, PTL
=============================================================================
