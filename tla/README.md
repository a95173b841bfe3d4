# A verification of infinit.io in TLA+

infinit.io sends files between the devices of its users: directly between two
clients when both are online, through a buffer in the cloud when they are not,
and by a link or a mail to people who have no account. This directory models
the parts of it whose correctness depends on the order in which things happen,
checks them with TLC on small instances and proves the main results with TLAPS
for every instance.

## 1. The system

| Part (under `src/`) | State it keeps | Operations | What is hard |
|---|---|---|---|
| **meta: transactions** `oracles/meta/server` (Python, four uwsgi processes over MongoDB) | documents of the transactions; lists, flags and counters of their users | create, fill, update, pause, download, endpoints | no lock between the processes: a request is a sequence of atomic database calls, anything may come between them, and a process is killed after 60 s or 2000 requests |
| **meta: users and devices** `user.py`, `device.py` | accounts, ghosts, contacts, addresses, swaggers, devices, sessions | register, invite, merge, confirm, change an address, delete, login | one document is changed at a time, on the strength of others that were read before |
| **meta: presence** `trophonius.py`, `notifier.py`, `user.py` `set_connection_status` | which device is connected to which trophonius server | registration of a server, connection, disconnection, notification, synchronization | late reports of a disconnection, servers that disappear |
| **meta: links** `link_generation.py` | the links, the space they take | create, initialize, update, delete, expire | meta acts on the store, then on its database |
| **trophonius server** `oracles/trophonius/server` | connected and registered clients, one notification queue each | authentication, ping, notification, removal, shutdown | a client that reconnects before it is removed, pings against authentication |
| **trophonius client**, **meta client** `oracles/*/client` | connection, session | connect, poll, reconnect, HTTP calls | retries, refusals |
| **client: transactions** `fist/src/surface/gap` | per transaction: a state machine with a snapshot on disk | accept, reject, cancel, pause, send, receive, upload, restart | notifications reordered with answers, restart in any state, events while a state runs |
| **client: transfer** `TransferMachine.cc`, `PeerTransferMachine.cc`, `Rounds.cc` | a second machine, the Transferer: publish, connect, transfer, cloud, paused | start, retry, pause, stop | the peer comes and goes while a transfer runs |
| **client: reception** `PeerReceiveMachine.cc`, `frete` | queue of blocks, files, snapshot of the progress | fetch, write, save, resume | parallel fetchers, interruptions, crashes between a write and its snapshot |
| **client: cloud** `PeerSendMachine.cc`, `S3TransferBufferer.cc`, `GhostReceiveMachine.cc`, `SendMachine.cc` | a bucket, the progress of both sides | upload, download, clean | several coroutines, the same blocks by two ways |
| **client: state** `State.cc`, `_detail/User.cc` | session, threads, caches of users and transactions | login, logout, kick-out, synchronization, notifications | five threads that may log out |
| **station** `station` | connected hosts, negotiations under way | connect, accept, negotiate | both peers call each other at once |
| **apertus** `oracles/apertus` | first client of each rendezvous | accept, pair, forward | one of the two gives up |
| **metrics** `metrics`, `fist/src/surface/gap/State.cc`, `onboarding` | a queue, the thread that posts it, who is named | push, post, stop | metrics of a user posted under the name of another, a stop that does not wait for the last ones |
| papier, hermes, sisyphus, apertus registry, bindings, tools, submodules | | | not modelled, see section 6 |

How they interact: clients call meta by HTTP; meta writes the database and asks
the trophonius server a device is registered with to push a notification; the
clients of a transaction then publish their addresses to meta, are told when both
are reachable, call each other through station (directly, else through apertus)
and run the RPCs of frete over the connection. The receiver pulls blocks. A
sender whose peer is offline uploads to the cloud, from which the receiver pulls
the same blocks; a ghost, or anybody who has a link, downloads one object.

What makes each part correct:

* transactions: a life cycle that follows the table of `transaction_status.py`
  and ends; devices and accounts that leave take their transactions along; the
  reminder flags never hide a pending transaction;
* accounts: an address belongs to one document, what is sent to a ghost reaches
  the user it becomes, and people who know each other are told so;
* presence: a connected device is seen as connected, a disconnected one is not in
  the end, and nothing that changes meanwhile is missed;
* transfer: both devices know of the other, and of a pause, what meta does, and
  end up on the two ends of one connection;
* reception: what is on disk is what was sent, through any number of
  interruptions and crashes, directly or from the cloud; the transfer ends;
* links: what is behind a finished link is the whole file, and the space used is right;
* clients: every machine ends as meta says, and nothing of a session survives it;
* metrics: what is reported of a transaction is what happened to it.

## 2. Modules

| Module | Models | Code |
|---|---|---|
| `TransactionStatus` | statuses, final ones, table of the permitted moves | `oracles/transaction.py`, `transaction_status.py` |
| `AbstractTransaction` | what a transaction promises to both ends | specification, no code |
| `MetaTransaction` | the transactions of meta, and the account and device requests that touch them | `transaction.py`, `user.py`, `device.py` |
| `Accounts` | users, ghosts, contacts and their addresses | `user.py`, `transaction.py` |
| `Presence` | devices, trophonius servers, meta's record of them, synchronization | `trophonius.py`, `notifier.py`, `user.py`, `User.cc`, `Trophonius.cc`, `Client.cc`, `State.cc` |
| `PeerTransaction` | the machines of both sides of a transaction, with meta and its notifications | `TransactionMachine.cc`, `PeerSendMachine.cc`, `ReceiveMachine.cc`, `PeerReceiveMachine.cc`, `Transaction.cc` |
| `Rendezvous` | the Transferers of the two devices, endpoints, pause | `TransferMachine.cc`, `PeerMachine.cc`, `_detail/Transaction.cc`, `transaction.py`, `user.py` |
| `Station` | two stations that call each other until they agree on one connection | `Station.cc`, `Host.cc` |
| `PeerConnection` | two clients that connect: rounds over `Station` (which it extends), relay, retry | `PeerTransferMachine.cc`, `Rounds.cc`, `Accepter.cc`, `Transfer.cc`, `TransferMachine.cc` |
| `BlockPipeline` | reception of the files of a transaction | `PeerReceiveMachine.cc`, `frete` |
| `CloudBuffer` | the bucket of a transaction, filled by the sender and emptied by the recipient | `PeerSendMachine.cc`, `PeerReceiveMachine.cc`, `S3TransferBufferer.cc`, `Frete.cc` |
| `GhostDownload` | the recipient of one object in the cloud | `GhostReceiveMachine.cc` |
| `PlainUpload` | the upload of one file to S3 or GCS | `SendMachine.cc` |
| `LinkTransaction` | a link: its machine, meta, the expiry job; extends `PlainUpload` | `LinkSendMachine.cc`, `link_generation.py` |
| `Metrics` | the queue of what is reported, its thread, its stop | `Reporter.cc`, `CompositeReporter.cc` |
| `Onboarding` | the transaction a new user is shown; extends `Metrics` | `onboarding/*.cc` |
| `Reports` | a client that downloads as a ghost or is shown the onboarding, and reports it; composes `Onboarding` and `GhostDownload` | `State.cc`, `TransactionMachine.cc`, `Transaction.cc` |
| `UserCache` | what a client knows of other users | `_detail/User.cc` |
| `Session` | the threads of a client over its session; extends `UserCache` | `State.cc`, `user.py`, `device.py`, `Client.cc` |
| `*Proofs` | proofs, section 5 | |
| `MC*` | instances for TLC; the modules without one give their constants in the .cfg | |

Operators with "Faulty:" in their comment stand before the definition they
replace: each is what a plausible bug would make of it. No specification uses
them; they are there to see that each property can fail.

### MetaTransaction

One action per request (`Create`, `CreateEmpty`, `Bare`, `Fill`, `Update`,
`Pause`, `Download`, `DeleteDevice`, `DeleteUser`, `ChangePassword`, `Login`,
`MergeGhost`) does what the request does up to its first write: it reads,
checks, and leaves the database operations that follow, in order, in the script
`todo[w]` of the process that serves it. One action per kind of operation
(`Put`, `Write`, `WritePaused`, `SendNotification`, `PushStat`, `PullStat`,
`ClearHas`, `ClearActivity`, `Count`, `EndSession`, `ClearAccount`, `TakeOver`,
`FindTransactions`, `CancelNext`) takes the head of a script and executes it.
With several workers the operations of their scripts interleave; the three calls
of `__complete_transaction_stats` are three operations. `Crash` drops a script.
A refused request changes nothing and has no step.

The database: `tx` and `linked`, `paused` are the transaction documents; `devices`,
`register_status`, `sessions` the accounts; `listed`, `has`, `activity_has` the
statistics that the reminder mails select on; `reached` counts, up to 2, how many
times a transaction was counted as reached; `told` is the status in the last
notification to each end.

Assumed of the clients: the devices of the sender other than the sending one only
cancel (the others do not know the transaction's files), and `fill` is called by
the device that created the transaction, once or again after a restart
(`Fillable`). Registration is over: accounts and devices are those of `Init`.

The counters of swaggers and the invitations are in `Accounts`, the endpoints and
the notifications of a transfer in `Rendezvous`. Not modelled: mails, credentials
and clean-up of the cloud buffer on the side of meta, the `canceler` field, the
listing calls, deletion by an administrator.

### BlockPipeline

`Start` begins an attempt; `OpenFile`, `SaveOpened`, `OpenedAll` are
`_fetch_next_file` and `_initialize_one`, cut between the `touch` and the save of
the snapshot; `Resume`, `Exit`, `NextFile`, `Ask`, `Answer` are the steps of a
`_fetcher_thread` between two points where it may lose the processor; `Wake`,
`WriteBlock`, `SaveBlock` those of `_disk_thread`, cut between the write and the
save of the snapshot; `Join` and `Finish` are the end of `get`, cut between the
removal of the snapshot and the call to the source. `Interrupt` ends an attempt where its coroutines wait:
a network error, the peer going offline, or a pause. `Crash` kills the process,
in the middle of a write too. The disk (`disk`, `copies`, `saved`) survives it.

The coroutines of the reactor are cooperative: `running` is the one that has the
processor, and it keeps it until the code waits. A round of the scheduler runs
each runnable coroutine once, so the disk coroutine is overtaken at most once by
each fetcher (`ran`). The answers of the sender come in the order of the
requests, those of the cloud in any order.

A file is a sequence of units, of which `Sizes[f]` were announced and `Served[f]`
exist; a unit is identified by its file and its place, so a unit that is missing,
doubled or misplaced shows. Exceptions follow `TransferMachine.cc` 205-260 and
`PeerReceiveMachine.cc` 405-432 (`Throw`): network errors, protocol errors and
checksum errors lead to another attempt; any other one fails the transaction when
it comes from the transfer with the sender, and is forgiven when it comes from the cloud.

Not modelled: the choice of file names, directories, decryption, the
`set_progress` of old peers, a user who deletes a file that is being received.

### Station

A connection has two ends; `at[c][p]` is where the code that serves the end of
`p` is: not accepted yet (`backlog`), exchanging versions and passports
(`hello`), waiting for another negotiation (`queued`, then `woken` by
`_negotiation_ended`), waiting for the verdict of the other (`status`), a `host`,
or closed. How an end was closed tells what it said last, which the other end
still reads: `rejected` said already_connected, `dropped` said succeeded.
`_negotiate` is `Refuse`, `Queue` or `Accept` (from the passport of the other up to
the wait for its verdict, which the code does without yielding), then `Succeed`
or `Fail`. `Serve` is a turn of `_serve`, `TakeHost` is `accept`, `Call` is
`connect`, `Abandon` is what its owner does: a terminated call, or `~Host`.
`Silence` is a network that loses a connection and tells nobody.

A connection both ends have closed is forgotten and its name is used again, so
`Lines` bounds the connections of one caller that exist at one time.

### PeerConnection

`_connect` runs two coroutines: one accepts a host of the station (`Accepted`),
one goes through the rounds: `Connect`, `Talk` and `DirectFound` or `DirectTimeout`
for the direct one, then `Synced` or `RelayLost` for the one through apertus. The
coroutine that waits for `found` ends the scope (`Found`, `Leave`). `TransferLost` is
the way back from the transfer, `Interrupt` the peer going away and coming back.
apertus keeps the first socket of an identifier (`first`), even when its owner
has left or its time is up (`RelayTimeout`), and pairs it with the next one (`Join`).

Two hosts at a time are an assertion of `_connect` (`phase` "failed"): that depends
on the order in which the reactor runs coroutines woken together, which this
repository does not contain, so the model leaves it possible.

Not modelled: passports that are not valid, a station with several peers, silence
on a tunnel, `upnp`, the bandwidth and the registration of a relay.

### Accounts

A request is `Start`ed for a user and an address and takes the steps of its
operation, each one or more database calls with nothing of another request in
between only where one call does it all. What a step has read is kept in
`req[w].read` and may be outdated when it is written back. `Insert` and `Upsert`
depend on the unique index of the addresses; `Transform` turns a contact or a
ghost into a user (`user_register`), `Forward`, `Clear`, `Give` and `Rest` are the
steps of a merge (`user_delete` for somebody who takes the ghost over), `Add` and
`Previous` the loop of `account_confirm`.
History variables: `wins` counts the registrations of a document that succeeded,
`late` holds the transactions made for, or forwarded to, a document that was merged
since it was read and that nobody merges any more (`Lost`), `stale` and `aborted`
mark two disagreements of section 4 that the properties set apart.

Not modelled: passwords and identities, mails and mailing lists, Facebook and
phone numbers, favorites, avatars, plans, the use of a code twice.

### Presence

A connection (`conns[d]`, oldest first) goes from dialing through the separate
writes of `set_connection_status` and back: a report is an HTTP request that
outlives its connection. The client dials, asks meta for a synchronization and
is up; a server closes in steps (`ServerLeave`, `Unregister`) or dies (`ServerCrash`) and its
record expires. A change of something of the user makes one notification per device, sent where the
documents say the device is. `strays` and `lost` remember that a report ran out
of order, or that a message was lost, which nothing repairs before the next
connection.

Not modelled: push notifications, versions, TLS, several devices of a user at
once in TLC (`Devices` is a constant, and `ReportsProofs` covers any), a logout
before the connection is up.

### PeerTransaction

`fsm[d]` is the state of the machine of a device, which a client saves whenever
it changes; `call[d]` the request it makes, which `Serve` handles and a lost answer
repeats; `barriers` the events that were opened while a state ran; `data` what the
client believes of the document and `gap` what it shows. `Listen` reads the next
notification, or comes back after a cut: it synchronizes, restarts machines from
their snapshots or from the status, and ignores what is older. Faults: `crash`,
`cut`, `twice` (an answer is lost), `refill`, `forget` (the snapshot is gone),
`overtake` (notifications swap), `error` and `cancel`.

Not modelled: ghosts, the other devices of the sender, sending to oneself; a
request is one step here (`MetaTransaction` cuts it), a transfer too.

### Rendezvous

Each device runs a Transferer from `synchronize` to `transfer`, `buffer` (the
cloud) or `paused`. `put[d]` is the request that publishes endpoints: written
when it is sent, notified later from the documents it had read. `leave[d]` is
the disconnection of a former connection, in two steps, which may take the
endpoints of the new one away. `reach`, `peer` and `halt` are what a device was
told last of the endpoints, the presence and the pause, `missed` what it was told
in the wrong order or never, and which of its own endpoints meta lost (`"node"`).

Not modelled: two pauses at once, a publication that fails, the end of a transfer
(`PeerTransaction` has it).

### CloudBuffer

The blocks of all files are ranks. The upload (`up`) is what
`pipeline_cloud_upload` keeps: a cursor, the block each coroutine stores, the last
block each has stored, and what is to be acknowledged, which is acknowledged and
saved only when a coroutine goes on. A coroutine runs from an answer to its next request
(`Take`) without yielding; `Store` is the bucket. The recipient gets what follows
in the bucket up to the first block that is missing (`Exhausted`), or goes on
directly (`Connect`, `Direct`), where the sender acknowledges what was received.
`Reset` is what a reconnection does to both machines, `Crash` and `Restart` what
their snapshots and the status of the transaction make of them.

Not modelled: retries and credentials of S3 within a call, more than one device on
each side, a crash while the recipient cleans up.

### GhostDownload

The state of the machine is saved when it changes, the name of the target once, and
the file is its own progress. `Locate` finds the name, `Request` opens the file
to append and asks for what follows its size, `Read` gets a block, `Broken` is a
network error, `Crash` and `Restart` are `_run_from_snapshot`, which deduces the
states it does not know. The last word is said in three steps, as `_finalize` waits in
between: `Update` is the request as it reaches the server, `Answered` its answer, after
which the reporters are told, and `Finalized` leaves the state and saves that. A client may
die or be logged out between any two of them. `Refused` is a server that refuses (the session
was taken away): the exception is logged, nothing is saved or reported, and the machine
ends (`untold`); so it does when an archive is to be ended again by a process that did not
download it.

Not modelled: the cancel of a user, of the sender, or of the machine itself on an error of the
file system (`GhostReceiveMachine.cc:346`, which pushes `canceled` and returns), a rejection,
several devices, a refusal of the acceptance. The names of a folder and those outside it are one
set of names. The server gets a final status from this machine only, so it never refuses for
having another one.

### Metrics, Onboarding and Reports

`Push` adds to the queue and opens the barrier; the thread (`Polling`) takes the first
metric, posts it with every reporter at once, and takes the next when all have
answered. A post may fail, which loses that metric for that reporter (`missed`).
`BeginStop` and `EndStop` are the stop: it waits for an empty queue, but not for
ever. The name a post gives is the one known when it is made. `Onboarding` is the
machine that pretends to receive a file of the application; the interface plays
its peer. A failure is pushed when the machine enters `fail`, before the crash report and the
update, and again when the server answered (`RAnswered`); what is finished only then.
`Reports` gives each step of both machines what it reports, and adds
what the state does around them: login, logout, a login that fails, the end of the program
and its death.

Not modelled: the format of the posts, reporters that write a file, the
other transactions of the user.

### PlainUpload and LinkTransaction

On S3 the client opens a multipart upload, saves its identifier, and pushes
chunks from several coroutines; after a restart it lists the parts and goes on at
the first chunk that nobody has (`max_check_id`). On GCS there is one session
and the chunks follow one another. `LinkTransaction` adds the machine of the link
(`fsm`), its snapshots, meta, whose `link_update` is cut between what it
reads and does to the store (`Read`) and what it writes and notifies (`Write`),
and the other askers: another device of the user, the user, and the job that
deletes links that expired.

Not modelled: public access and its counter, passwords, archives and mirrors,
`delete_all_links`, a change of the size of the chunks between two runs, expiry
of credentials.

### UserCache and Session

`Session` has one program counter per thread: the interface (`gui`), the login
(`login`), the thread that kicks out (`kick`), the one that handles notifications
(`poll`), and those of the trophonius client that connect again (`link`) and
synchronize (`back`). Threads are cooperative, so a step is what runs between two
waits; every logout takes the mutex and terminates the other threads where they
wait. meta may take the session away in three steps (`PullDevice`,
`RemoveSession`, `Kickout`), which a registration of the device may come between. `UserCache` applies
answers and notifications to the caches, however old they are.

Not modelled: the first connection refused while it is dialed, the timeout of a
login, a second login while one runs, Facebook, favorites, avatars.

## 3. Runs

| Run | Instance | States | Shows |
|---|---|---|---|
| `meta_requests` | one process, one transaction, two users and a ghost, every request | 1 640 834 | life cycle (`RefinesAbstract`), statistics follow it (`Accounted`), nothing that runs survives a deletion (`NothingLeft`), `LastNotificationCurrent` |
| `meta_pool` | two processes that may die, two transactions of one user | 152 880 | `StatsHonest`, and `StatsAtRest` when none died |
| `accounts` | two requests at a time, four in all, five documents, three addresses | 888 537 | `Registered`, `Forwarded`, `ContactsMeet`, `RequestsEnd` |
| `presence` | one device that logs in twice, two servers, one change, two faults | 831 739 | `Recorded`, `NoMissedUpdate`, `GoesOffline` |
| `machines` | a sender with one device of the recipient and two faults, or two devices | 480 403 | `OverRightly`, `Delivered`, `Completes`, `Converges` |
| `rendezvous` | two devices, one of which is cut or crashes, one pause | 915 518 | `Informed`, `Meets` |
| `peers` | one address each and two faults, or two addresses of the slave | 379 087 | `StationsSafe` (which includes the agreement on one connection), `Connects`, `UsesStation` |
| `blocks` | four files, two fetchers, three faults, from the sender or a cloud that lost an end | 96 207 | `Orderly`, `FinishedComplete`, `Completes` |
| `cloud` | two files of two blocks, two coroutines, two faults | 309 316 | `Promise`, `Served`, `Completes` |
| `reports` | an object of two blocks, file or archive, computer or phone, or the onboarding; one metric that waits, one reporter, one of the user, two faults | 402 619 | `RightFiles`, `ReporterSafe`, `LastWord`, `Ends`, `Concludes` |
| `links` | three chunks, two coroutines, S3 and GCS, one fault, every asker | 1 058 491 | `LinkSafe` (the object is whole, a finished link has it, the space used is right), `UploadEnds` |
| `client` | one client, one other user, two calls, two changes, one cut, one loss of the session, one refusal | 550 844 | `Emptied`, `GuiTold`, `SwaggersKnown`, `CallEnds`, `KickedOut` |

Bounds, and why they are enough. The requests of one transaction touch another
one only through the lists of its users, so one transaction shows the life cycle
and two the flags. Two processes are enough for a lost update: a third one adds
steps of the same kind between two operations. In `meta_pool` the processes and the
transactions are symmetric and only safety is checked; the constraint keeps the
device that sends the same. Five documents and three addresses are a user, two
ghosts or contacts, and two to come. In `presence` two servers are a former and a new
one, two connections one that is dying and one that lives. In `blocks` the first
file is longer than the queue (7 blocks, 6 places) so that the queue fills up; there are
an empty file, a file whose last block is full and one whose last block is short;
two fetchers are what it takes to have answers out of order. In `peers` two
connections of each caller are what a call that crosses another one, or a retry that
finds the former connection, needs; two addresses are enough for one call to
overwrite the host of another. In `cloud` two files show a cursor that enters a
file in the middle of its progress, two coroutines blocks stored out of order. In
`links` three chunks and two coroutines leave a hole behind the last chunk pushed. In `reports` a queue of
one metric makes pushes wait behind one another, two faults are two
of a connection that breaks, a program that dies and a server that refuses; four names are enough for the
file of the user and the downloads that these make begin again.
Faults are counted by `MaxFaults` (`MaxFailures`, `MaxCuts`, `MaxRefusals`), changes
by `MaxChanges` and `MaxVer`, logins by `MaxLogins` and calls by `MaxCalls`; two faults are the one that breaks
something and the one that comes while it is repaired.

Fairness. Faults, users and the interface are never obliged to act.
* `meta_*`: none, the properties are safety.
* `accounts`: a request that has begun is carried on.
* `presence`: reports, the client, the departure of a server and the expiry of its
  record, and notifications that are not lost.
* `machines`: a request is repeated until it is answered, machines run, notifications
  are read, a client that is cut or dead comes back, and a transfer between two
  devices that are there ends.
* `rendezvous`: requests, machines and notifications; a client that died need not
  be started again and a connection need not succeed.
* `peers`: coroutines run, messages on a connection that is not silent arrive, and
  the two seconds of the direct round end (strong fairness: time passes whatever
  the other peer does). A timeout while a message is on its way is a fault: exchanges
  are taken to be shorter than two seconds, else two peers could miss each other for ever.
* `blocks`: the scheduler runs every coroutine that can run, the source answers a request
  it does not drop, and the Transferer tries again, which its machine does after
  every exception that is retried.
* `cloud`: each client does what it does by itself, and the bucket answers. The
  properties assume what they need of presence: `Served` that the recipient comes back
  again and again, `Completes` that both are there in the end.
* `reports`: the machines and the thread run, a stop ends, and the user comes back: a client that died is
  started again, another user logs out and the first one logs in.
* `links`: requests, the machine, notifications; not the restart of the client.
* `client`: every thread runs until it waits and meta answers; each logout goes on.

Deadlock is not checked where everything may be over: all accounts deleted, all
transactions final, the transfer ended, both peers connected, the client logged
out and the calls used up.

The properties set apart what the code does not repair. Each exception is a history
variable that the action sets where it happens, and names one of the
disagreements of section 4 or a loss the code accepts: `strays` and `lost`
(`Presence`), `missed` (`PeerTransaction`, `Rendezvous`, `Metrics`), `refilled`, `stale`, `late` and `aborted`,
`crossed`, `deleted` and `refused`, `excuse`, `unnoticed`, `left`, `silent`, `untold`.

## 4. Where the code does not do what it seems to

Met while modelling; the models do what the code does.

* Two updates that both pass the checks of `transaction.py:897` are both written
  (`transaction.py:986` writes on the `_id` alone): a transaction that was canceled
  becomes accepted. With one process the life cycle holds and is proved.
* A sender who cancels completes his own lists only (`transaction.py:934`): the
  recipient is reminded of a transaction that is over.
* A `fill` whose answer was lost is repeated (`Client.cc:1594`) and puts an accepted
  transaction back to initialized (`refilled`).
* The barrier that keeps the disk coroutine from a queue without the block it
  expects stays open after an interruption (`PeerReceiveMachine.cc:962`); the first answer of the
  next attempt is taken whatever it is, and an attempt from the cloud fails at the
  assertion of line 1016.
* A recipient that waits for the cloud (`PeerReceiveMachine.cc:421`) is not woken when the rest
  comes, since an accepted transaction stays accepted (`asleep`).
* A receiver whose user had not decided stays in its decision when the sender fails
  (`ReceiveMachine.cc:60`).
* A device that is offline when its peer becomes unreachable keeps its endpoints
  (`TransferMachine.cc:118`), and one that is away during a resume stays paused
  (`Transaction.cc:703`).
* `set_connection_status` takes the endpoints of the device that left off its transactions in a second
  step (`user.py:2496`), also those the device has published since on a new connection;
  it does not publish them again, and its peer never learns of them (`missed`).
* A login that starts terminates the thread that was about to log out, and closes
  `_logged_out` alone (`State.cc:494`): when it is refused, `_logged_in`, which only a logout or a lost
  connection closes (`State.cc:856`, `State.cc:1209`), may be left open by the session before (`left`).
* A contact a send has read may register meanwhile: `__register_ghost` makes it a
  ghost again (`user.py:1047`). A merge of a ghost that registered meanwhile destroys
  the user (`user.py:1684`).
* A user who takes over a ghost may be deleted and merged himself before the ghost's
  transactions are forwarded (`user.py:1243`, `transaction.py:62`): they are given to a
  document that is merged, and nobody looks for them again (`late`).
* `account_confirm` asks for ever when the address belongs to a contact (`user.py:1243`).
* A trophonius server that leaves clears the presence of one user only
  (`trophonius.py:69`).
* A job that deletes a finished link has no user, which is an exception after the
  object is erased; GCS answers 404 to what is not there, which becomes a 500 that
  is retried for ever (`link_generation.py:430`); a chunk that GCS refuses is taken for the end
  of the upload (`SendMachine.cc:227`); a link deleted while its client was down may be restored into
  a pair of states that is declared unreachable (`LinkSendMachine.cc:170`).
* A ghost's download on a phone that was interrupted after it named its file under the folder of
  the transaction cannot be resumed: the folder was in memory only
  (`GhostReceiveMachine.cc:191`), and the machine fails. One begun by a process that does
  not know the folder can be.
* The reporters are told of an end after the server has answered (`TransactionMachine.cc:466`): a client
  that is interrupted while it waits has a transaction that is finished and not reported. It reports
  it when it comes back, except for an archive, which it cannot end again, and when the server
  refuses (`untold`). A failure is reported first (`TransactionMachine.cc:327`), also one
  that the server then refuses to hear of.

## 5. Proofs

All of them are for any values of the constants, from the named assumptions of the
modules (`UsersAssumption`, `StationAssumption`, `UploadAssumption`, `GhostAssumption`, ...),
and of the instances that TLC checks. Every invariant was first checked by TLC on
an instance of its run.

### `MetaTransactionProofs`

For any number of processes:

* `TypeCorrect`: `Spec => [](TypeOK /\ Grounded)`. `TypeOK` alone is not
  inductive: a `write` or `pause` in a script notifies both ends, so its
  transaction must be one that exists by then. `Grounded` says so of every script.
* `FlagsHonest`: `Spec => []StatsHonest`, from `TypeOK`. Each operation preserves it
  on its own, which is why neither interleaving nor crashes break it.
* `FlagsExact`: `Spec => []StatsAtRest`. `StatsAtRest` speaks of a server with nothing
  to do; what is true at any time (`Restful`) is that a flag that is on for nothing
  has a process that is about to look at it. That needs to know of every script
  (`Tidy`) that whoever takes a transaction off a list looks at the flag of the list
  next, then at that of the user, and that no loop, which a refusal may cut, comes
  before. A process that dies keeps the flag on, hence `Alive`.

For one process (`Serial`, the hypothesis of these theorems: what two processes do
to the same document is in section 4, and `meta_pool` has two):

* `SerialRefinement`: `Spec => RefinesAbstract`. The invariant `SInv` says that a
  script writes at most one document, that nothing before that write changes a
  document, and that the write is along an edge of the abstract life (`Sound`).
  It holds because what a request has read is still true when it writes; with two
  processes it fails (first point of section 4).
* `AccountsFollow` (`Accounted`), `LastToldCurrent` (`LastNotificationCurrent`) and
  `NothingBehind` (`NothingLeft`). All three speak of a server at rest. What they rest on
  is what is left of the request in progress, as a set of operations (`Left`), which of
  them may come before which (`Follows`, `Chain`), and what is known of each (`Laid`): an
  insertion is of a transaction that does not exist, a writer is the only one, a merge is
  of a ghost. On top of it:
  `Booked` (for `Accounted`) says that what ends is about to be pulled from the pending lists it is in
  (`Settled`), that it is not in one before it exists (`Unseen`, `Pushing`, `Putting`), nor in that of
  a recipient who may change (`Ghostly`), and that who is counted has reached the end (`Counting`);
  `Posted` (for `LastNotificationCurrent`), that both ends know the status or a notification is left (`Informing`), that what is
  left to send is the last status that will be written (`Timely`), and that an insertion comes with its
  notification (`Announced`);
  `Parted` (for `NothingLeft`), that what runs and is tied to a deleted device is about to be canceled
  (`Loose`), that what involves a deleted account is a bare document (`Departed`), that nothing left to write or
  insert undoes that (`Lawful`, `Admitted`), that a departure cancels what it found and is refused none of it
  (`Cancelable`, `Leaving`), that sessions go with devices (`Seated`), and that a ghost has no device and is
  merged into somebody who is there (`Deviceless`, `Welcomed`).
  They hold while the process has not died: what it had left is lost then.

### `MeetingProofs`

The proofs about peers that connect and accounts that are merged.

For `Station`, with any number of connections:

* `MasterNeverAsserts`: `Spec => []MasterFree`, and `SameConnection`:
  `Spec => []Agreement`. The properties speak of hosts and places, which are not
  enough to be inductive: the invariant adds that `_host_negotiating` names the
  connection in `status`, `_hosts` the one that is a `host`, that the master never
  has both, and that a slave's host is a connection on which the master said
  succeeded. `CloseInv` shows once that closing ends preserves it; each action
  that closes cites it.

For `PeerConnection`, the composition with the rounds, the relay and the faults.
The invariant `CInv` is the types, that of the stations, and three facts on who
holds a host. Lemma `StepGood` shows of each step that it is a step of `Station`, or
leaves it alone, and keeps `CInv`:

* `ConnectionRefines`: `CSpec => UsesStation`; so `ConnectionAgrees` (`MasterFree` and `Agreement`)
  carries over without another proof;
* `HostsHeld`, `ConnectionTyped`; `ConnectionSafe` (`StationsSafe`) puts them together.

For `Accounts`, with any documents, addresses, address books and requests at once, from
`AccountsAssumption` only. None of the three properties is inductive; the
invariant `AInv` adds what relates the requests under way to the documents:

* `FoundOnce` (`Registered`): the address of a registered user is among his
  accounts whatever is written (`Listed`); who has never been a user was never
  registered, and who has been one stays one, deleted or merged (`Stays`), so a
  second registration finds nobody to transform (`Once`).
* `ContactsTold` (`ContactsMeet`): a document is in the address books of those
  who have been users (`Known`); when it becomes a user, those it had in
  `contact_of` then are told by a request that is still to come (`Met`). Whoever is
  taken out of the swaggers is a ghost that was cleared (`Asked`), never a user.
* `NothingWaits` (`Forwarded`): while a transaction waits for a merged ghost, a
  request that merges it has not looked for its transactions the second time
  (`Waits`). This one needs no hypothesis on `stale`. The attempt to prove it found that
  the property was too strong: a user who is merged himself, even into himself, while he takes over a
  ghost; with two requests TLC could not reach it, with three it did, and `late` says it now.

### `LinkProofs`

For any number of chunks and coroutines. `WholeObject` needs to
know what a coroutine may have stored without an answer: the invariant `UInv` says that
a chunk that is pushed was taken by one coroutine alone, that every chunk below
the next one is in the list once or being pushed, that one above it which is in
the list was found in the store, and that the store has what is in the list:

* `UploadWhole`: `USpec => []WholeObject`;
* `LinkUploads`: `Spec => USpec`, a link is an upload with more around it; and
  `LinkWhole`: `Spec => []WholeObject`.
* `LinkCounted`: `Spec => []SizeHonest`. The invariant says that the space used is
  that of the link, or what the only update under way will make of it, and that
  only the machine finishes a link, not before it is made.
* `LinkHonest`: `Spec => []LinkSafe`, with the two above and that a finished link has its
  object: `FInv` follows what the machine may tell meta, what meta has read and not yet
  written, and who may erase the object meanwhile.

### `ReportsProofs`

For any size of the object, any number of names, faults, reporters and metrics. `GInv` says
that each name the download may use holds nothing or a beginning of the object, that a
request asks for what follows it, that what is remembered of the target never is a file
of the user, and which saved states go with which status.

* `ReportedFiles`: `RSpec => []RightFiles`, from `GInv`: reporting, logging out and dying do not disturb it.
* `ReportsKept`: `RSpec => []ReporterSafe`. `SInv` is the queue and its barrier, the thread, what a stop
  has promised to wait for, and who is logged in against the name the posts give.
* `LastTold`: `RSpec => []LastWord`. `LInv` adds to both how each machine came where
  it is (`Ways`), and (`Spoken`) what the last ending among what a reporter posted, then what it is posting,
  then the queue, is: a failure as soon as it is saved, a finish when the server has answered (which
  `LastWord` does not see: `at = "done"`, not yet saved), and nothing that is not true. It is needed
  because the update of the server and the push are apart: in between the server is right and
  the reporters are not, and the snapshot says that the machine is still to tell.

For `Presence`, with any devices of a user, servers, connections, changes and faults, where
the run has one device and two servers. `PInv` has, besides the types and the two facts that
need no device (`UserFlag`; `Gone`: a server without a document is over), two
parts for each device. `Line`: the client has its connection while a server holds it open
(`Owned`), a client that was answered is on a connection that is ready (`Dialed`), nothing is heard that meta
has not written (`Known`), and each change that a client which is up does not know
is still to be sent, on its way to the server it is on, or in the queue of its connection (`Reached`).
`Docs`: a device on a server is online (`Seen`), on the one its client is connected to as soon as that is
written and as long as the server stays (`OnRecord`), and what the swaggers were told is where
meta has it, or there is a connection of which it is still to be told (`Followed`).

* `PresenceFollows`: `PSpec => []Recorded`.
* `UpdatesReach`: `PSpec => []NoMissedUpdate`. It takes both parts: a change is sent where the documents say the
  device is, so `Notify` keeps `Reached` only because of `OnRecord`.

### `BlockProofs`

For any files, blocks, fetchers (finitely many), places in the queue, sources and faults:

* `BlocksInOrder`: `Spec => []Orderly`; `WholeWhenFinished`: `Spec => []FinishedComplete`.
  The invariant has four parts besides the types. `Grounded`, at any time: the disk has the
  beginning of each file, the snapshots promise no more than there is, names are taken
  once. `Bounded`: a block in the queue has a place, or a fetcher that waits to leave. `Scheduled`:
  who has the processor. `Attempted` and `Ordered`, during an attempt: the length of an opened file is what was
  counted, plus the block that was written and not counted yet (`Uncounted`); all that comes before the expected block
  is whole; nothing in the queue was written already.

### `MachineProofs`

For any devices of the recipient and any faults:

* `RightlyOver`: `Spec => []OverRightly`, and `FinishedDelivered`: `Spec => []Delivered`.
  The invariant says of each device which states its machine, its snapshot and its
  calls may be in (`Fits`, `Silent`, `Asking`), and, unless a repeated `fill` undid an
  acceptance (`refilled`), that every end in its notifications (`Told`), in what it knows
  (`Knows`), in its barriers (`Opens`) and in what it is answered (`Calls`) is the end meta has, and that the last
  notification left is not older than what it knows (`Latest`). A final status of meta never changes then, which
  is what makes it inductive. `Undelivered` says that before a device has the files nobody says finished.

### `CloudProofs`

For any number of blocks, files, coroutines and faults:

* `CloudPromise`: `Spec => []Promise`. `Promise` is not inductive: that a block was
  counted says nothing of the coroutine that stored it. The invariant `BInv` says of
  an upload that every block below its cursor is received, in the bucket, or being
  stored by a coroutine; that a coroutine stores blocks in order, so none it has to
  store is below the smallest of the last blocks stored, which is what is
  acknowledged; that one which ended found nothing left; that the server is told
  once everything is saved; and that the bucket is emptied once the transaction is over.

### `ClientProofs`

For `Session`, with any number of users, calls, changes and failures:

* `NothingKept` (`Emptied`) and `InterfaceTold` (`GuiTold`), from `Control`: where each
  thread may be (`Located`), who holds the mutex (`Mutex`), which threads the state of the
  connection and the login let run (`Line`, `Alone`), and that whoever is not logged in
  has been cleaned or is about to be (`Cleaned`). The attempt to prove the first one found what
  two logins, the bound of the run, cannot show: `_logged_in` may be left open by a session before
  (section 4). The history variable `left` says so, and `Emptied` sets that case apart.
* `SwaggersFollowed` (`SwaggersKnown`). `DataInv` says that what is in an answer, in
  the wire, in the hands of a thread or in a cache was true of meta at its
  revision; that who is a friend in one answer and not in another is in the later
  (`Flight`); and that the latest revision that was applied, if no older one was after it, is what is cached
  (`CacheInv`). `Covered` says of a connection that lives that the latest revision of each swagger is somewhere
  between meta and the cache (`Fresh`), and that he is a swagger there (`Counted`): a synchronization
  that is to come, a notification, an answer, or the cache.

For `Rendezvous`, with any number of faults and pauses:

* `DevicesInformed` (`Informed`). `RInv` says, of what the inbox of a device says last of
  the peer, of the pause and of the endpoints, or of what it believes when the inbox
  says nothing, that it is what meta has or that a request that is under way will correct it (`PeerOk`,
  `HaltOk`, `ReachOk`); that who has published has endpoints in meta (`Noted`); and that when both
  have some the last word to each is that the peer is reachable (`Owed`). The
  attempt found that this was false after two cuts: a device that has come back
  and published its endpoints loses them to the end of its former connection
  (`set_connection_status` tells in a second step), does not publish them again, and waits.
  One cut, the bound of the run, is not enough to see it; `missed` says `"node"` now.

### What is only model-checked

Every safety property of the runs is a theorem. The liveness properties are not
(`Completes`, `Converges`, `Meets`, `Connects`, `UploadEnds`, `Served`, `RequestsEnd`, `Ends`,
`Concludes`, `CallEnds`, `KickedOut`, `GoesOffline`): the prover has no rule for fairness.

## 6. Not modelled

* papier: cryptography. hermes: storage that no client
  uses any more. sisyphus: periodic mails, which read the flags of `StatsHonest`.
* The registry of the relays in meta, and the rest of meta: one write each, or reads.
* The C interface of the client and the bindings, which marshal to `State`; the
  user interfaces; build and deployment.
* elle, reactor, aws and das are submodules that are not here. What the code uses
  of them (the scheduler and the channel in `BlockPipeline`, the stores in
  `PlainUpload`) is modelled from that use and marked external.
* Two processes of meta are cut at every database call in `MetaTransaction` and
  `Accounts` only; in the modules of the clients a request of meta is one step, or
  two where its order with a notification matters (`Rendezvous`, `Presence`, `LinkTransaction`).
* One transaction at a time in the modules of the clients: what transactions share is
  the session and the caches (`Session`).
