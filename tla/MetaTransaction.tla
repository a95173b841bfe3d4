--------------------------- MODULE MetaTransaction ---------------------------
(***************************************************************************)
(* The transactions of the meta server: what the HTTP calls that create,   *)
(* fill in, update, pause, download, merge and cancel a transaction do to  *)
(* the database, and the notifications they send.                          *)
(*                                                                         *)
(* The server is a pool of processes (meta.xml.tmpl: four) without a lock  *)
(* between them: only one database operation is atomic. So a request reads *)
(* and checks what it needs when it starts, and leaves the rest of its     *)
(* database operations, in order, in the script todo[w] of the worker that *)
(* serves it; the actions below execute one operation of one script. A     *)
(* request that is refused changes nothing and has no step.                *)
(***************************************************************************)
EXTENDS TransactionStatus, Sequences, Integers

CONSTANTS Users,        \* accounts, the ghosts included
          Ghosts,       \* accounts of people who never registered
          Devices,      \* devices that exist at the start
          owner,        \* owner[d]: the account of device d
          Transactions, \* identifiers the database may allocate
          Workers,      \* server processes
          Calls,        \* the requests the clients of an instance may make
          Asked,        \* the statuses they may ask for in updates
          NoUser,
          NoDevice      \* the empty device identifier, ''

ASSUME UsersAssumption == /\ Ghosts \subseteq Users
                          /\ owner \in [Devices -> Users \ Ghosts]
                          /\ NoUser \notin Users
                          /\ NoDevice \notin Devices
                          /\ Asked \subseteq Statuses

VARIABLES tx,              \* the transaction documents
          linked,          \* transactions with a download_link
          paused,          \* transactions whose document says paused
          devices,         \* devices[u]: the devices of an account
          register_status, \* of an account: "ok", "ghost", "merged", "deleted"
          sessions,        \* devices with a session
          listed,          \* listed[u].pending, listed[u].unaccepted
          has,             \* has[u].pending, has[u].unaccepted: the _has flags
          activity_has,    \* accounts whose activity_has is True
          reached,         \* reached[t]: times t was counted as reached
          told,            \* told[t][u]: status in the last notification of t to u
          todo             \* todo[w]: what is left of the request of worker w

docs == <<tx, linked, paused>>
accounts == <<devices, register_status, sessions>>
stats == <<listed, has, activity_has>>
vars == <<docs, accounts, stats, reached, told, todo>>

Lists == {"pending", "unaccepted"}

Documents == [status : Statuses \union {"none", "empty"},
              sender : Users \union {NoUser},
              sender_device : Devices \union {NoDevice},
              recipient : Users \union {NoUser},
              recipient_device : Devices \union {NoDevice},
              is_ghost : BOOLEAN]

Absent == [status |-> "none", sender |-> NoUser, sender_device |-> NoDevice,
           recipient |-> NoUser, recipient_device |-> NoDevice,
           is_ghost |-> FALSE]

\* A document the queries of the server find and transaction() returns: not
\* absent, and not the {} of create_empty.
exists(t) == tx[t].status \in Statuses

running(t) == exists(t) /\ tx[t].status \notin final

involved(u, t) == u \in {tx[t].sender, tx[t].recipient}

is_sender(t, u, d) == tx[t].sender = u /\ tx[t].sender_device = d

-----------------------------------------------------------------------------
(***************************************************************************)
(* The operations of a script.                                             *)
(***************************************************************************)
StatOps == [op : {"push", "pull", "clear_has", "clear_activity"},
            user : Users, list : Lists, t : Transactions]
CountOps == [op : {"count"}, t : Transactions]
PutOps == [op : {"put"}, t : Transactions,
           doc : [status : {"created", "initialized"},
                  sender : Users, sender_device : Devices \union {NoDevice},
                  recipient : Users, recipient_device : Devices \union {NoDevice},
                  is_ghost : BOOLEAN]]
WriteOps == [op : {"write"}, t : Transactions, status : Statuses,
             device : Devices \union {NoDevice}, link : BOOLEAN]
PauseOps == [op : {"pause"}, t : Transactions, paused : BOOLEAN]
NotifyOps == [op : {"notify"}, t : Transactions, status : Statuses,
              users : SUBSET Users]
FindOps == [op : {"cancel_find"}, user : Users,
            device : Devices \union {NoDevice}]
CancelOps == [op : {"cancel"}, user : Users, ts : SUBSET Transactions]
TakeOverOps == [op : {"take_over"}, ghost : Users, user : Users]
AccountOps == [op : {"remove_devices", "delete", "merge"}, user : Users]
SessionOps == [op : {"end_session"}, device : Devices]

\* What is left of a request whose process died: nobody serves it. The process
\* that replaces a dead one is one more worker.
DeadOps == [op : {"dead"}]
Dead == [op |-> "dead"]

Ops == UNION {StatOps, CountOps, PutOps, WriteOps, PauseOps, NotifyOps,
              FindOps, CancelOps, TakeOverOps, AccountOps, SessionOps, DeadOps}

Push(u, t, l) == [op |-> "push", user |-> u, list |-> l, t |-> t]

\* __complete_transaction_stats is three updates of the user's document.
Complete(u, t, l) ==
  LET stat(op) == [op |-> op, user |-> u, list |-> l, t |-> t]
  IN  <<stat("pull"), stat("clear_has"), stat("clear_activity")>>

Notify(t, doc) == [op |-> "notify", t |-> t, status |-> doc.status,
                   users |-> {doc.sender, doc.recipient}]

\* Every request has run to its end.
AtRest == \A w \in Workers : todo[w] = <<>>

\* No request in progress is about to insert t.
fresh(t) == /\ tx[t].status = "none"
            /\ \A w \in Workers : \A i \in DOMAIN todo[w] :
                 todo[w][i].op = "put" => todo[w][i].t # t

\* Worker w starts serving a request of device d, and is left with ops to do.
Request(call, w, ops) == /\ call \in Calls
                         /\ todo[w] = <<>>
                         /\ todo' = [todo EXCEPT ![w] = ops]

LoggedIn(d) == d \in sessions

At(w, op) == todo[w] # <<>> /\ Head(todo[w]).op = op

\* The operation at the head of the script is done, ops come before the rest.
Continue(w, ops) == todo' = [todo EXCEPT ![w] = ops \o Tail(@)]

Init == /\ tx = [t \in Transactions |-> Absent]
        /\ linked = {}
        /\ paused = {}
        /\ devices = [u \in Users |-> {d \in Devices : owner[d] = u}]
        /\ register_status = [u \in Users |-> IF u \in Ghosts THEN "ghost" ELSE "ok"]
        /\ sessions = Devices
        /\ listed = [u \in Users |-> [l \in Lists |-> {}]]
        /\ has = [u \in Users |-> [l \in Lists |-> FALSE]]
        /\ activity_has = {}
        /\ reached = [t \in Transactions |-> 0]
        /\ told = [t \in Transactions |-> [u \in Users |-> "none"]]
        /\ todo = [w \in Workers |-> <<>>]

-----------------------------------------------------------------------------
(***************************************************************************)
(* Creation: transaction_create, with or without the id of a transaction   *)
(* to fill in, create_empty and the bare creation of POST /transactions.   *)
(***************************************************************************)

\* The document and the pushes of transaction_create. A recipient by identifier
\* may be any account that is not deleted, a merged one included.
CreateOps(t, s, d, r, rd) ==
  LET is_ghost == register_status[r] = "ghost"
      doc == [status |-> s, sender |-> owner[d], sender_device |-> d,
              recipient |-> r, recipient_device |-> rd, is_ghost |-> is_ghost]
  IN  <<[op |-> "put", t |-> t, doc |-> doc]>>
      \o (IF s = "initialized"
            THEN <<[op |-> "notify", t |-> t, status |-> s, users |-> {r}]>>
            ELSE <<>>)
      \o <<Push(owner[d], t, "pending")>>
      \o (IF is_ghost THEN <<>> ELSE <<Push(r, t, "unaccepted")>>)

Create(w, d, t, r) ==
  /\ LoggedIn(d) /\ fresh(t)
  /\ register_status[r] # "deleted"
  /\ Request("create", w, CreateOps(t, "created", d, r, NoDevice))
  /\ UNCHANGED <<docs, accounts, stats, reached, told>>

\* The sender of an empty document is what the client that created it knows,
\* the server stores no owner.
CreateEmpty(w, d, t) ==
  /\ LoggedIn(d) /\ fresh(t)
  /\ Request("create_empty", w, <<>>)
  /\ tx' = [tx EXCEPT ![t] = [Absent EXCEPT !.status = "empty", !.sender = owner[d]]]
  /\ UNCHANGED <<linked, paused, accounts, stats, reached, told>>

\* A bare transaction has no sender device yet, and the recipient is not checked.
Bare(w, d, t, r) ==
  /\ LoggedIn(d) /\ fresh(t)
  /\ Request("bare", w,
             <<[op |-> "put", t |-> t,
                doc |-> [Absent EXCEPT !.status = "created", !.sender = owner[d],
                                       !.recipient = r]]>>)
  /\ UNCHANGED <<docs, accounts, stats, reached, told>>

\* transaction_fill looks at neither the status nor the owner of the document.
\* The client calls it once on an empty or bare transaction, and again when it
\* restarts from a snapshot taken in its "initialize transaction" state: by then
\* the recipient may have accepted or rejected, or anyone canceled.
Fillable(t, d) ==
  /\ tx[t].sender = owner[d]
  /\ t \notin linked
  /\ \/ tx[t].status = "empty"
     \/ tx[t].status \in {"created", "canceled"} /\ tx[t].sender_device = NoDevice
     \/ /\ tx[t].sender_device = d
        /\ tx[t].status \in {"initialized", "accepted", "rejected", "canceled",
                             "failed"}

Fill(w, d, t, r, rd) ==
  /\ LoggedIn(d) /\ Fillable(t, d)
  /\ tx[t].status = "empty" \/ r = tx[t].recipient \/ register_status[r] = "merged"
  /\ register_status[r] # "deleted"
  /\ rd # NoDevice => rd \in devices[r]
  /\ Request("fill", w, CreateOps(t, "initialized", d, r, rd))
  /\ UNCHANGED <<docs, accounts, stats, reached, told>>

\* database.transactions.insert, or update with $set: the link, if any, stays.
Put(w) ==
  /\ At(w, "put")
  /\ LET o == Head(todo[w]) IN
       /\ tx' = [tx EXCEPT ![o.t] = o.doc]
       /\ paused' = paused \ {o.t}
  /\ Continue(w, <<>>)
  /\ UNCHANGED <<linked, accounts, stats, reached, told>>

-----------------------------------------------------------------------------
(***************************************************************************)
(* Update: _transaction_update and its hooks.                              *)
(***************************************************************************)

\* Faulty: the table alone decides, final or not.
PermittedFinal(t, s, sender) == s \in transitions[tx[t].status][sender]

\* The checks of _transaction_update on the status it has read.
Permitted(t, s, sender) == /\ s \in transitions[tx[t].status][sender]
                           /\ tx[t].status \notin final

\* What on_accept, on_reject and the branches for the other statuses do to the
\* users' documents before the transaction is written.
Hook(t, s, u) ==
  CASE s = "accepted" -> <<Push(u, t, "pending")>> \o Complete(u, t, "unaccepted")
    [] s \in {"rejected", "canceled", "failed"} -> Complete(u, t, "unaccepted")
    [] s = "finished" -> <<[op |-> "count", t |-> t]>>
    [] OTHER -> <<>>

\* Faulty: only the end that updates completes its pending transfer.
CompletionsOfRecipient(t, s) ==
  IF s \in final THEN Complete(tx[t].recipient, t, "pending")
  ELSE IF s \in {"ghost_uploaded", "cloud_buffered"}
         THEN Complete(tx[t].sender, t, "pending")
         ELSE <<>>

\* The end of the pending transfer for those whose part is over.
Completions(t, s) ==
  CASE s \in final -> Complete(tx[t].recipient, t, "pending")
                      \o Complete(tx[t].sender, t, "pending")
    [] s \in {"ghost_uploaded", "cloud_buffered"} ->
         Complete(tx[t].sender, t, "pending")
    [] OTHER -> <<>>

\* Don't override accepted with cloud_buffered.
NewStatus(t, s) ==
  IF s = "cloud_buffered" /\ tx[t].status = "accepted" THEN "accepted" ELSE s

UpdateOps(t, s, u, d) ==
  Hook(t, s, u) \o Completions(t, s)
  \o <<[op |-> "write", t |-> t, status |-> NewStatus(t, s),
        device |-> IF s \in {"accepted", "rejected"} THEN d ELSE NoDevice,
        link |-> s = "ghost_uploaded" /\ tx[t].is_ghost]>>

\* The devices of the sender other than the sending one only cancel. A rejection
\* by a device that has just been deleted fails after its first completion.
Update(w, d, t, s) ==
  LET u == owner[d] IN
    /\ LoggedIn(d) /\ exists(t) /\ involved(u, t)
    /\ u = tx[t].recipient \/ d = tx[t].sender_device \/ s = "canceled"
    /\ s # tx[t].status
    /\ Permitted(t, s, is_sender(t, u, d))
    /\ s = "accepted" => d \in devices[u]
    /\ s = "ghost_uploaded" => register_status[tx[t].recipient] # "deleted"
    /\ Request("update", w, IF s = "rejected" /\ d \notin devices[u]
                              THEN Complete(u, t, "unaccepted")
                              ELSE UpdateOps(t, s, u, d))
    /\ UNCHANGED <<docs, accounts, stats, reached, told>>

\* The update with paused and no status, by either end.
Pause(w, d, t, p) ==
  /\ LoggedIn(d) /\ exists(t) /\ involved(owner[d], t)
  /\ Request("pause", w, <<[op |-> "pause", t |-> t, paused |-> p]>>)
  /\ UNCHANGED <<docs, accounts, stats, reached, told>>

\* Faulty: new = False, the document that is notified is the old one.
WriteNotifyingOld(w) ==
  /\ At(w, "write")
  /\ LET o == Head(todo[w]) IN
       /\ tx' = [tx EXCEPT ![o.t].status = o.status,
                           ![o.t].recipient_device = IF o.device = NoDevice
                                                       THEN @ ELSE o.device]
       /\ linked' = IF o.link THEN linked \union {o.t} ELSE linked
       /\ Continue(w, <<Notify(o.t, tx[o.t])>>)
  /\ UNCHANGED <<paused, accounts, stats, reached, told>>

\* find_and_modify: it has no condition on the status. The document it returns
\* is the one that is notified.
Write(w) ==
  /\ At(w, "write")
  /\ LET o == Head(todo[w])
         doc == [tx[o.t] EXCEPT !.status = o.status,
                                !.recipient_device = IF o.device = NoDevice
                                                       THEN @ ELSE o.device]
     IN  /\ tx' = [tx EXCEPT ![o.t] = doc]
         /\ linked' = IF o.link THEN linked \union {o.t} ELSE linked
         /\ Continue(w, <<Notify(o.t, doc)>>)
  /\ UNCHANGED <<paused, accounts, stats, reached, told>>

WritePaused(w) ==
  /\ At(w, "pause")
  /\ LET o == Head(todo[w]) IN
       /\ paused' = IF o.paused THEN paused \union {o.t} ELSE paused \ {o.t}
       /\ Continue(w, <<Notify(o.t, tx[o.t])>>)
  /\ UNCHANGED <<tx, linked, accounts, stats, reached, told>>

\* notify_some(PEER_TRANSACTION)
SendNotification(w) ==
  /\ At(w, "notify")
  /\ LET o == Head(todo[w]) IN
       told' = [told EXCEPT ![o.t] =
                  [u \in Users |-> IF u \in o.users THEN o.status ELSE @[u]]]
  /\ Continue(w, <<>>)
  /\ UNCHANGED <<docs, accounts, stats, reached>>

\* Anyone who holds the link calls it. The status is written first, whatever it
\* was, and the old document is the one that is notified.
Download(w, t) ==
  /\ t \in linked
  /\ Request("download", w,
             IF tx[t].status = "finished"
               THEN <<>>
               ELSE <<[op |-> "count", t |-> t], Notify(t, tx[t])>>)
  /\ tx' = [tx EXCEPT ![t].status = "finished"]
  /\ UNCHANGED <<linked, paused, accounts, stats, reached, told>>

-----------------------------------------------------------------------------
(***************************************************************************)
(* Statistics of the users: one update of one user document each.          *)
(***************************************************************************)
PushStat(w) ==
  /\ At(w, "push")
  /\ LET o == Head(todo[w]) IN
       /\ listed' = [listed EXCEPT ![o.user][o.list] = @ \union {o.t}]
       /\ has' = [has EXCEPT ![o.user][o.list] = TRUE]
       /\ activity_has' = activity_has \union {o.user}
  /\ Continue(w, <<>>)
  /\ UNCHANGED <<docs, accounts, reached, told>>

PullStat(w) ==
  /\ At(w, "pull")
  /\ LET o == Head(todo[w]) IN
       listed' = [listed EXCEPT ![o.user][o.list] = @ \ {o.t}]
  /\ Continue(w, <<>>)
  /\ UNCHANGED <<docs, accounts, has, activity_has, reached, told>>

\* Faulty: the flag is cleared without a look at the list.
ClearHasBlindly(w) ==
  /\ At(w, "clear_has")
  /\ LET o == Head(todo[w]) IN has' = [has EXCEPT ![o.user][o.list] = FALSE]
  /\ Continue(w, <<>>)
  /\ UNCHANGED <<docs, accounts, listed, activity_has, reached, told>>

ClearHas(w) ==
  /\ At(w, "clear_has")
  /\ LET o == Head(todo[w]) IN
       has' = IF listed[o.user][o.list] = {}
                THEN [has EXCEPT ![o.user][o.list] = FALSE] ELSE has
  /\ Continue(w, <<>>)
  /\ UNCHANGED <<docs, accounts, listed, activity_has, reached, told>>

\* Faulty: the flag of the other list is not looked at.
ClearActivityOfList(w) ==
  /\ At(w, "clear_activity")
  /\ LET o == Head(todo[w]) IN
       activity_has' = IF ~has[o.user][o.list] THEN activity_has \ {o.user}
                                               ELSE activity_has
  /\ Continue(w, <<>>)
  /\ UNCHANGED <<docs, accounts, listed, has, reached, told>>

ClearActivity(w) ==
  /\ At(w, "clear_activity")
  /\ LET o == Head(todo[w]) IN
       activity_has' = IF \A l \in Lists : ~has[o.user][l]
                         THEN activity_has \ {o.user} ELSE activity_has
  /\ Continue(w, <<>>)
  /\ UNCHANGED <<docs, accounts, listed, has, reached, told>>

\* The received and reached counters, which saturate at 2 in the model.
Count(w) ==
  /\ At(w, "count")
  /\ LET o == Head(todo[w]) IN
       reached' = [reached EXCEPT ![o.t] = IF @ = 2 THEN 2 ELSE @ + 1]
  /\ Continue(w, <<>>)
  /\ UNCHANGED <<docs, accounts, stats, told>>

-----------------------------------------------------------------------------
(***************************************************************************)
(* Devices and accounts that go away.                                      *)
(***************************************************************************)
CancelFind(u, d) == [op |-> "cancel_find", user |-> u, device |-> d]
Cancel(u, ts) == [op |-> "cancel", user |-> u, ts |-> ts]

DeleteDevice(w, d, e) ==
  LET u == owner[d] IN
    /\ LoggedIn(d) /\ e \in devices[u]
    /\ Request("delete_device", w,
               <<CancelFind(u, e), [op |-> "end_session", device |-> e]>>)
    /\ devices' = [devices EXCEPT ![u] = @ \ {e}]
    /\ UNCHANGED <<docs, register_status, sessions, stats, reached, told>>

EndSession(w) ==
  /\ At(w, "end_session")
  /\ sessions' = sessions \ {Head(todo[w]).device}
  /\ Continue(w, <<>>)
  /\ UNCHANGED <<docs, devices, register_status, stats, reached, told>>

\* The sessions of the account are the first thing that goes.
LeaveOps(w, d, call, ops) ==
  /\ LoggedIn(d)
  /\ Request(call, w, ops)
  /\ sessions' = {e \in sessions : owner[e] # owner[d]}
  /\ UNCHANGED <<docs, devices, register_status, stats, reached, told>>

DeleteUser(w, d) ==
  LET u == owner[d] IN
    LeaveOps(w, d, "delete_user",
             <<CancelFind(u, NoDevice),
               [op |-> "remove_devices", user |-> u], [op |-> "delete", user |-> u]>>)

\* The identity changes, so the transactions are canceled.
ChangePassword(w, d) ==
  LeaveOps(w, d, "change_password", <<CancelFind(owner[d], NoDevice)>>)

Login(w, d) ==
  /\ ~LoggedIn(d) /\ d \in devices[owner[d]] /\ register_status[owner[d]] = "ok"
  /\ Request("login", w, <<>>)
  /\ sessions' = sessions \union {d}
  /\ UNCHANGED <<docs, devices, register_status, stats, reached, told>>

\* A user types the code of the invitation a ghost received. Transactions are
\* taken over before and after the ghost is marked merged.
MergeGhost(w, d, g) ==
  LET take == [op |-> "take_over", ghost |-> g, user |-> owner[d]] IN
    /\ LoggedIn(d) /\ register_status[g] = "ghost"
    /\ Request("merge_ghost", w, <<take, [op |-> "merge", user |-> g], take>>)
    /\ UNCHANGED <<docs, accounts, stats, reached, told>>

\* One turn of the loop of change_transactions_recipient.
TakeOver(w) ==
  /\ At(w, "take_over")
  /\ LET o == Head(todo[w])
         left == {t \in Transactions : exists(t) /\ tx[t].recipient = o.ghost}
     IN  \/ /\ left = {}
            /\ Continue(w, <<>>)
            /\ UNCHANGED tx
         \/ \E t \in left :
              LET doc == [tx[t] EXCEPT !.recipient = o.user] IN
                /\ tx' = [tx EXCEPT ![t] = doc]
                /\ Continue(w, (IF doc.status = "created" THEN <<>>
                                  ELSE <<Notify(t, doc)>>) \o <<o>>)
  /\ UNCHANGED <<linked, paused, accounts, stats, reached, told>>

\* remove_devices, and the find_and_modify that clears the account.
ClearAccount(w) ==
  /\ todo[w] # <<>> /\ Head(todo[w]).op \in {"remove_devices", "delete", "merge"}
  /\ LET o == Head(todo[w]) IN
       /\ devices' = [devices EXCEPT ![o.user] = {}]
       /\ register_status' = [register_status EXCEPT ![o.user] =
                                CASE o.op = "delete" -> "deleted"
                                  [] o.op = "merge" -> "merged"
                                  [] OTHER -> @]
  /\ Continue(w, <<>>)
  /\ UNCHANGED <<docs, sessions, stats, reached, told>>

\* Faulty: the transactions the device was to receive are forgotten.
FindSent(w) ==
  /\ At(w, "cancel_find")
  /\ LET o == Head(todo[w])
         ours(t) == tx[t].sender = o.user /\ o.device \in {NoDevice, tx[t].sender_device}
     IN  Continue(w, <<Cancel(o.user, {t \in Transactions : running(t) /\ ours(t)})>>)
  /\ UNCHANGED <<docs, accounts, stats, reached, told>>

\* The query of cancel_transactions.
FindTransactions(w) ==
  /\ At(w, "cancel_find")
  /\ LET o == Head(todo[w])
         ours(t) == \/ /\ tx[t].sender = o.user
                       /\ o.device \in {NoDevice, tx[t].sender_device}
                    \/ /\ tx[t].recipient = o.user
                       /\ o.device \in {NoDevice, tx[t].recipient_device}
     IN  Continue(w, <<Cancel(o.user, {t \in Transactions : running(t) /\ ours(t)})>>)
  /\ UNCHANGED <<docs, accounts, stats, reached, told>>

\* One turn of the loop of cancel_transactions: _transaction_update reads the
\* transaction again. If it has become final in between, or belongs to another
\* account, the 403 is not an error.Error: it ends the whole request.
CancelNext(w) ==
  /\ At(w, "cancel")
  /\ LET o == Head(todo[w]) IN
       \/ /\ o.ts = {}
          /\ Continue(w, <<>>)
       \/ \E t \in o.ts :
            LET rest == <<Cancel(o.user, o.ts \ {t})>>
                gone == ~involved(o.user, t) \/ tx[t].status \in final \ {"canceled"}
            IN  \/ /\ gone
                   /\ todo' = [todo EXCEPT ![w] = <<>>]
                \/ /\ ~gone /\ ~running(t)
                   /\ Continue(w, rest)
                \/ /\ ~gone /\ running(t)
                   /\ Continue(w, UpdateOps(t, "canceled", o.user, NoDevice) \o rest)
  /\ UNCHANGED <<docs, accounts, stats, reached, told>>

\* A process of the pool dies: what it had done stays in the database, and what
\* holds between complete requests is no longer promised.
Crash(w) ==
  /\ "crash" \in Calls /\ todo[w] # <<>> /\ ~At(w, "dead")
  /\ todo' = [todo EXCEPT ![w] = <<Dead>>]
  /\ UNCHANGED <<docs, accounts, stats, reached, told>>

-----------------------------------------------------------------------------
Receive(w) ==
  \/ \E t \in Transactions : Download(w, t)
  \/ \E d \in Devices :
    \/ \E t \in Transactions :
         \/ CreateEmpty(w, d, t)
         \/ \E s \in Asked : Update(w, d, t, s)
         \/ \E p \in BOOLEAN : Pause(w, d, t, p)
         \/ \E r \in Users :
              \/ Create(w, d, t, r)
              \/ Bare(w, d, t, r)
              \/ \E rd \in Devices \union {NoDevice} : Fill(w, d, t, r, rd)
    \/ \E e \in Devices : DeleteDevice(w, d, e)
    \/ DeleteUser(w, d)
    \/ ChangePassword(w, d)
    \/ Login(w, d)
    \/ \E g \in Users : MergeGhost(w, d, g)

Serve(w) == \/ Put(w) \/ Write(w) \/ WritePaused(w) \/ SendNotification(w)
            \/ PushStat(w) \/ PullStat(w) \/ ClearHas(w) \/ ClearActivity(w)
            \/ Count(w)
            \/ EndSession(w) \/ TakeOver(w) \/ ClearAccount(w)
            \/ FindTransactions(w) \/ CancelNext(w)

Next == \E w \in Workers : Receive(w) \/ Serve(w) \/ Crash(w)

Spec == Init /\ [][Next]_vars

-----------------------------------------------------------------------------
(***************************************************************************)
(* Properties.                                                             *)
(***************************************************************************)

\* Documents, accounts and statistics have the fields the code gives them, a
\* document that can be found has two ends, and a script is made of operations on
\* existing users and transactions.
TypeOK == /\ tx \in [Transactions -> Documents]
          /\ \A t \in Transactions : exists(t) => {tx[t].sender, tx[t].recipient} \subseteq Users
          /\ linked \subseteq Transactions
          /\ paused \subseteq Transactions
          /\ devices \in [Users -> SUBSET Devices]
          /\ register_status \in [Users -> {"ok", "ghost", "merged", "deleted"}]
          /\ sessions \subseteq Devices
          /\ listed \in [Users -> [Lists -> SUBSET Transactions]]
          /\ has \in [Users -> [Lists -> BOOLEAN]]
          /\ activity_has \subseteq Users
          /\ reached \in [Transactions -> 0..2]
          /\ told \in [Transactions -> [Users -> Statuses \union {"none"}]]
          /\ todo \in [Workers -> Seq(Ops)]

\* The flags the reminder mails are selected by never hide anything: whatever is
\* interleaved or interrupted, a user whose flag is off has nothing listed, and
\* a user without activity has both flags off.
StatsHonest == \A u \in Users :
                 /\ \A l \in Lists : ~has[u][l] => listed[u][l] = {}
                 /\ u \notin activity_has => \A l \in Lists : ~has[u][l]

\* When every request has run to its end, none cut short by the death of its
\* process, the flags are exact: the three updates __complete_transaction_stats
\* makes per completion, interleaved in any way, leave no flag on for an empty list.
StatsAtRest == AtRest => \A u \in Users :
                 /\ \A l \in Lists : has[u][l] <=> listed[u][l] # {}
                 /\ u \in activity_has <=> \E l \in Lists : has[u][l]

\* A transaction that is over is nobody's pending transfer. A downloaded one is
\* left out: the download completes nothing.
FinalNotPending == AtRest => \A t \in Transactions \ linked :
                     tx[t].status \in final =>
                       \A u \in {tx[t].sender, tx[t].recipient} :
                         t \notin listed[u].pending

\* A transaction is counted as reached at most once, by its recipient's devices
\* or by downloads of its file.
ReachedOnce == \A t \in Transactions : reached[t] <= 1

\* What the statistics of the users say follows the transactions, whichever of
\* the many ways one ends.
Accounted == FinalNotPending /\ ReachedOnce

\* Between requests both ends have been told the current status. The sender is
\* not notified when a transaction is filled in, and nobody of a creation; the
\* download notifies the document it replaced.
LastNotificationCurrent ==
  AtRest => \A t \in Transactions :
    exists(t) /\ tx[t].status # "created" /\ ~(t \in linked /\ tx[t].status = "finished")
      => /\ told[t][tx[t].recipient] = tx[t].status
         /\ tx[t].status # "initialized" => told[t][tx[t].sender] = tx[t].status

\* Deleting a device leaves no running transaction it was to send or receive.
DeletedDeviceFree ==
  AtRest => \A t \in Transactions, d \in Devices :
    running(t) /\ d \notin devices[owner[d]] =>
      /\ ~is_sender(t, owner[d], d)
      /\ ~(tx[t].recipient = owner[d] /\ tx[t].recipient_device = d)

\* A deleted account has no transfer under way; what it is sent afterwards gets
\* no further than a bare document.
DeletedUserIdle ==
  AtRest => \A t \in Transactions, u \in Users :
    register_status[u] = "deleted" /\ involved(u, t) /\ exists(t) =>
      tx[t].status \in final \union {"created"}

\* Whatever is deleted, nothing that runs is left behind.
NothingLeft == DeletedDeviceFree /\ DeletedUserIdle

Abstract == INSTANCE AbstractTransaction
              WITH status <- [t \in Transactions |-> tx[t].status],
                   recipient_device <- [t \in Transactions |-> tx[t].recipient_device],
                   uploaded <- linked

\* Served one request at a time, the server implements the life of a transaction.
RefinesAbstract == Abstract!Spec
=============================================================================
