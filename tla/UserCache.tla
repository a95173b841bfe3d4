------------------------------ MODULE UserCache ------------------------------
(***************************************************************************)
(* What the client knows of the other users (_detail/User.cc): _users and  *)
(* _swagger_indexes, and what the transfers of its transactions believe of *)
(* their peer. It is filled by the answers of meta (user_sync,             *)
(* _user_resync) and by the notifications (_on_swagger_status_update), and *)
(* an answer is applied when it arrives, however old it is.                *)
(*                                                                         *)
(* A user has one device; a transaction with each of them is running.      *)
(***************************************************************************)
EXTENDS Integers, Sequences, FiniteSetsExt

CONSTANTS Peers,
          MaxChanges  \* bound on the changes of the documents of the peers

VARIABLES users,   \* meta: users[p], the document of p
          known,   \* _users: what is cached, of those that are
          index,   \* _swagger_indexes
          told,    \* told[p]: the transfer with p has its peer online
          newest,  \* history, newest[p]: the latest revision of p ever applied
          stale,   \* history: an older one was applied after it
          silent   \* history: their status was replaced without a word to the
                   \* transactions

cache == <<known, index, told, newest, stale, silent>>

CacheInit == /\ users \in [Peers -> [state : {"ghost", "ok"}, friend : BOOLEAN,
                                     up : {FALSE}, rev : {0}]]
             /\ known = <<>> /\ index = {} /\ silent = {} /\ stale = {}
             /\ told = [p \in Peers |-> FALSE]
             /\ newest = [p \in Peers |-> 0]

-----------------------------------------------------------------------------
(***************************************************************************)
(* meta: what happens to a user, and what his swaggers are sent of it.     *)
(***************************************************************************)

Write(p, u) == /\ MapThenSumSet(LAMBDA q : users[q].rev, Peers) < MaxChanges
               /\ users' = [users EXCEPT ![p] = [u EXCEPT !.rev = @ + 1]]

\* _increase_swag, for a first transaction.
Befriend(p) == users[p].state # "deleted" /\ ~users[p].friend
               /\ Write(p, [users[p] EXCEPT !.friend = TRUE])

\* A ghost registers.
Register(p) == users[p].state = "ghost" /\ Write(p, [users[p] EXCEPT !.state = "ok"])

\* set_connection_status.
Flip(p) == users[p].state = "ok" /\ Write(p, [users[p] EXCEPT !.up = ~@])

\* user_delete takes his devices; he stays among the swaggers of the others.
Erase(p) == /\ users[p].state = "ok"
            /\ Write(p, [users[p] EXCEPT !.state = "deleted", !.up = FALSE])

\* The notification of a change: NEW_SWAGGER, USER_STATUS, DELETED_SWAGGER.
Note(type, p) == [type |-> type, peer |-> p, up |-> users'[p].up, rev |-> users'[p].rev]

-----------------------------------------------------------------------------
(***************************************************************************)
(* The client. a: the documents of an answer, as they were when meta read  *)
(* them.                                                                   *)
(***************************************************************************)

Online(p) == p \in DOMAIN known /\ known[p].up
Cached(u) == [ghost |-> u.state = "ghost", up |-> u.up]

\* What is cached once the users of new are replaced.
Put(new) == [p \in DOMAIN known \union DOMAIN new |-> IF p \in DOMAIN new THEN new[p]
                                                                        ELSE known[p]]

Applied(p, rev) == /\ newest' = [newest EXCEPT ![p] = Max({@, rev})]
                   /\ stale' = IF rev < newest[p] THEN stale \union {p} ELSE stale

\* user_sync: what is cached is replaced by what was fetched.
UserSync(p, a, swagger) ==
  /\ known' = Put([q \in {p} |-> Cached(a[q])])
  /\ index' = IF swagger THEN index \union {p} ELSE index
  /\ silent' = IF a[p].up # told[p] THEN silent \union {p} ELSE silent \ {p}
  /\ Applied(p, a[p].rev)
  /\ UNCHANGED told

\* _on_swagger_status_update asks meta first for a user it does not know, and for a
\* ghost that is online: he is one no more.
MustFetch(n) == \/ n.type # "status"
                \/ n.peer \notin DOMAIN known
                \/ /\ n.peer \in DOMAIN known
                   /\ known[n.peer].ghost /\ n.up

\* Faulty: the cache is updated, the transactions are not told.
StatusUpdateQuiet(n) ==
  /\ known' = [known EXCEPT ![n.peer].up = n.up]
  /\ silent' = silent \ {n.peer}
  /\ Applied(n.peer, n.rev)
  /\ UNCHANGED <<index, told>>

\* The device is added or removed, and the transactions are told.
StatusUpdate(n) ==
  /\ known' = [known EXCEPT ![n.peer].up = n.up]
  /\ told' = [told EXCEPT ![n.peer] = n.up]
  /\ silent' = silent \ {n.peer}
  /\ Applied(n.peer, n.rev)
  /\ UNCHANGED index

\* The same once the user is fetched: a ghost also becomes a swagger.
StatusFetched(n, a) ==
  /\ known' = Put([q \in {n.peer} |-> [Cached(a[q]) EXCEPT !.up = n.up]])
  /\ index' = IF n.peer \in DOMAIN known THEN index \union {n.peer} ELSE index
  /\ told' = [told EXCEPT ![n.peer] = n.up]
  /\ silent' = silent \ {n.peer}
  /\ Applied(n.peer, n.rev)

\* _on_new_swagger, _on_deleted_swagger, once the user is fetched.
NewSwagger(n, a) == UserSync(n.peer, a, TRUE)

DeletedSwagger(n, a) ==
  /\ known' = Put([q \in {n.peer} |-> Cached(a[q])])
  /\ index' = index \ {n.peer}
  /\ silent' = silent \union {n.peer}
  /\ Applied(n.peer, a[n.peer].rev)
  /\ UNCHANGED told

\* Transferer::run: a transfer that starts again looks at the cache.
Reset == /\ told' = [p \in Peers |-> IF p \in DOMAIN known THEN known[p].up ELSE told[p]]
         /\ silent' = {}
         /\ UNCHANGED <<known, index, newest, stale>>

\* _user_resync: the swaggers of the answer replace those of the cache; for each of
\* them the difference is handled as a notification. At the login the transactions
\* are loaded afterwards.
Resync(a, login) ==
  LET friends == {p \in Peers : a[p].friend} IN
  /\ known' = Put([p \in friends |-> Cached(a[p])])
  /\ index' = friends
  /\ told' = [p \in Peers |->
                IF p \in friends /\ (login \/ Online(p) # a[p].up) THEN a[p].up
                                                                   ELSE told[p]]
  /\ silent' = {p \in silent : told'[p] # Online(p)'}
  /\ stale' = {p \in Peers : a[p].rev < newest[p]}
  /\ newest' = [p \in Peers |-> Max({newest[p], a[p].rev})]

\* _cleanup.
Clear == /\ known' = <<>> /\ index' = {} /\ silent' = {} /\ stale' = {}
         /\ told' = [p \in Peers |-> FALSE]
         /\ newest' = [p \in Peers |-> 0]

\* The client agrees with meta on p, unless an older answer or notification overtook
\* a later one. A user who is deleted stays a swagger in meta, and not in the client.
Agrees(p) == \/ users[p].state = "deleted"
             \/ p \in stale
             \/ /\ users[p].friend => /\ p \in index
                                      /\ Online(p) = users[p].up
                                      /\ p \notin silent => told[p] = users[p].up
                /\ p \in index => users[p].friend
=============================================================================
