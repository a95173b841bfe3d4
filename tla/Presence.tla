------------------------------ MODULE Presence ------------------------------
(***************************************************************************)
(* Which devices of a user are online, and how they learn what changes     *)
(* (meta: trophonius.py, user.py, notifier.py; the trophonius server and   *)
(* client; State.cc). A device keeps a connection to one of the trophonius *)
(* servers, which reports it to meta and later takes the report back; meta *)
(* sends what changes to the server it has on record for the device, which *)
(* forwards it. A device that connects asks meta for everything first.     *)
(*                                                                         *)
(* The reports are HTTP requests: one that is under way outlives the       *)
(* connection it is about, and two of them run in meta in any order, each  *)
(* in the separate writes of set_connection_status.                        *)
(***************************************************************************)
EXTENDS Integers, Sequences

CONSTANTS Devices,   \* the devices of one user
          Servers,   \* the trophonius servers
          NoServer,
          MaxConns,  \* bound: connections of a device, and what is left of them
          MaxVer,    \* bound on the changes
          MaxLogins, \* bound on the logins of a device
          Faults,    \* what may go wrong: "break", "lose", "refuse", "forget",
                     \* "leave", "crash"
          MaxFailures \* bound on the number of faults

ASSUME PresenceAssumption == /\ NoServer \notin Servers
                             /\ MaxConns \in Nat \ {0}
                             /\ {MaxVer, MaxLogins, MaxFailures} \subseteq Nat

Ext == INSTANCE SequencesExt

VARIABLES tropho,     \* tropho[d]: devices.trophonius, the server meta has for d
          devOnline,  \* devOnline[d]: devices.online
          userOnline, \* online
          shown,      \* shown[d]: the last device_status the swaggers were sent
          record,     \* record[s]: the document of s: "up", "closing" or "none"
          alive,      \* alive[s]: the process: "up", "leaving" or "gone"
          conns,      \* conns[d]: the connections of d from the first dialed
          mine,       \* mine[d]: the last of them has its socket open at both ends
          client,     \* client[d]: what the client is at
          server,     \* server[d]: the server it dials
          ver,        \* how many changes meta has written
          unsent,     \* those whose notify_some has not run
          flight,     \* notifications on their way from meta to a server
          heard,      \* heard[d]: the changes d knows of
          strays,     \* history, strays[d]: "write": a report was written out of
                      \* order, or lost; "told": it was told out of order
          lost,       \* history, lost[d]: a notification was lost since the last
                      \* synchronization
          failures, logins \* so far

presence == <<tropho, devOnline, userOnline, shown>>
servers == <<record, alive>>
sockets == <<conns, mine>>
clients == <<client, server, heard>>
changes == <<ver, unsent, flight>>
history == <<strays, lost>>
pvars == <<presence, servers, sockets, clients, changes, history, failures, logins>>

\* Of a connection: "pending" has not given its identifiers; the report is sent,
\* written (for a device that was offline, or online already), told; "ready"; the
\* disconnection is sent, written, counted.
Reporting == {"sent", "written", "rewritten"}
Listed == Reporting \union {"told", "ready"} \* in _users
Open == Listed \union {"pending"}
Closing == {"unsent", "cleared", "counted"}
Written == Listed \ {"sent"}

\* held: the server has the connection; queue: User::_notifications.
Connection == [at : Open \union Closing, srv : Servers, held : BOOLEAN,
               queue : SUBSET (1..MaxVer)]

PInit == /\ tropho = [d \in Devices |-> NoServer]
         /\ devOnline = [d \in Devices |-> FALSE]
         /\ userOnline = FALSE
         /\ shown = [d \in Devices |-> FALSE]
         /\ record = [s \in Servers |-> "up"]
         /\ alive = [s \in Servers |-> "up"]
         /\ conns = [d \in Devices |-> <<>>]
         /\ mine = [d \in Devices |-> FALSE]
         /\ client = [d \in Devices |-> "out"]
         /\ server = [d \in Devices |-> NoServer]
         /\ ver = 0 /\ unsent = {} /\ flight = {}
         /\ heard = [d \in Devices |-> {}]
         /\ strays = [d \in Devices |-> {}]
         /\ lost = [d \in Devices |-> FALSE]
         /\ failures = 0
         /\ logins = [d \in Devices |-> 0]

Fault(f) == f \in Faults /\ failures < MaxFailures /\ failures' = failures + 1

mark(d, m, really) == strays' = [strays EXCEPT ![d] = IF really THEN @ \union {m}
                                                                 ELSE @ \ {m}]

\* Connection i of d becomes c, or goes: the client has it no more when it was its
\* own and it is closed.
Put(d, i, c) ==
  /\ conns' = [conns EXCEPT ![d][i] = c]
  /\ mine' = [mine EXCEPT ![d] = @ /\ (i = Len(conns[d]) => c.held /\ c.at \in Open)]

Drop(d, i) ==
  /\ conns' = [conns EXCEPT ![d] = Ext!RemoveAt(@, i)]
  /\ mine' = [mine EXCEPT ![d] = @ /\ i # Len(conns[d])]

Move(d, i, phase) == Put(d, i, [conns[d][i] EXCEPT !.at = phase])

\* A later connection of the device is already on record.
Overtaken(d, i) == \E j \in (i + 1)..Len(conns[d]) : conns[d][j].at \in Written

-----------------------------------------------------------------------------
(***************************************************************************)
(* meta: set_connection_status in its separate writes.                     *)
(***************************************************************************)

\* find_and_modify for status True: the device is on that server, whatever it was
\* on, and the user is online.
WriteConnection(d, i) ==
  LET c == conns[d][i] IN
  /\ c.at = "sent"
  /\ tropho' = [tropho EXCEPT ![d] = c.srv]
  /\ devOnline' = [devOnline EXCEPT ![d] = TRUE]
  /\ userOnline' = TRUE
  /\ mark(d, "write", Overtaken(d, i) \/ ~c.held)
  /\ Move(d, i, IF tropho[d] = NoServer THEN "written" ELSE "rewritten")
  /\ UNCHANGED <<shown, servers, clients, changes, lost, failures, logins>>

\* The swaggers are told, of a device that was online already that it left and came
\* back. The answer goes to the server, if it still waits for it.
TellConnection(d, i) ==
  LET c == conns[d][i] IN
  /\ c.at \in {"written", "rewritten"}
  /\ shown' = [shown EXCEPT ![d] = TRUE]
  /\ mark(d, "told", tropho[d] # c.srv)
  /\ IF c.held THEN Move(d, i, "told") ELSE Drop(d, i)
  /\ UNCHANGED <<tropho, devOnline, userOnline, servers, clients, changes, lost,
                 failures, logins>>

\* Faulty: any disconnection clears the device, whatever server it is on.
WriteDisconnectionUnmatched(d, i) ==
  /\ conns[d][i].at = "unsent"
  /\ tropho' = [tropho EXCEPT ![d] = NoServer]
  /\ devOnline' = [devOnline EXCEPT ![d] = FALSE]
  /\ Move(d, i, "cleared")
  /\ mark(d, "write", FALSE)
  /\ UNCHANGED <<userOnline, shown, servers, clients, changes, lost, failures, logins>>

\* find_and_modify for status False: only of a device that is on that server.
WriteDisconnection(d, i) ==
  LET c == conns[d][i] IN
  /\ c.at = "unsent"
  /\ \/ /\ tropho[d] = c.srv
        /\ tropho' = [tropho EXCEPT ![d] = NoServer]
        /\ devOnline' = [devOnline EXCEPT ![d] = FALSE]
        /\ mark(d, "write", Overtaken(d, i))
        /\ Move(d, i, "cleared")
     \/ /\ tropho[d] # c.srv
        /\ Drop(d, i)
        /\ UNCHANGED <<tropho, devOnline, strays>>
  /\ UNCHANGED <<userOnline, shown, servers, clients, changes, lost, failures, logins>>

\* The user is offline when no device is online any more.
CountDevices(d, i) ==
  /\ conns[d][i].at = "cleared"
  /\ userOnline' = (userOnline /\ \E e \in Devices : devOnline[e])
  /\ Move(d, i, "counted")
  /\ UNCHANGED <<tropho, devOnline, shown, servers, clients, changes, history, failures,
                 logins>>

\* The endpoints go and the swaggers are told, whatever has happened meanwhile.
TellDisconnection(d, i) ==
  /\ conns[d][i].at = "counted"
  /\ shown' = [shown EXCEPT ![d] = FALSE]
  /\ mark(d, "told", tropho[d] # NoServer)
  /\ Drop(d, i)
  /\ UNCHANGED <<tropho, devOnline, userOnline, servers, clients, changes, lost,
                 failures, logins>>

Serve(d, i) == \/ WriteConnection(d, i) \/ TellConnection(d, i)
               \/ WriteDisconnection(d, i) \/ CountDevices(d, i)
               \/ TellDisconnection(d, i)

-----------------------------------------------------------------------------
(***************************************************************************)
(* The trophonius server.                                                  *)
(***************************************************************************)

\* The handler has read the identifiers: a previous connection of the device to this
\* server is terminated, without a word to meta; a report that is under way goes on.
Authenticate(d, i) ==
  LET c == conns[d][i]
      previous == {j \in 1..Len(conns[d]) : /\ conns[d][j].srv = c.srv /\ conns[d][j].held
                                            /\ conns[d][j].at \in Listed}
      joined == [conns[d] EXCEPT ![i].at = "sent"]
      last == Len(conns[d])
  IN
  /\ c.at = "pending" /\ c.held /\ alive[c.srv] # "gone"
  /\ \/ /\ previous = {}
        /\ Move(d, i, "sent")
     \/ \E j \in previous :
          /\ conns' = [conns EXCEPT ![d] =
                         IF joined[j].at \in Reporting
                           THEN [joined EXCEPT ![j].held = FALSE]
                           ELSE Ext!RemoveAt(joined, j)]
          /\ mine' = [mine EXCEPT ![d] = @ /\ j # last]
  /\ UNCHANGED <<presence, servers, clients, changes, history, failures, logins>>

\* meta has answered: registered, the client is answered, its notifications follow.
Answer(d, i) ==
  LET c == conns[d][i] IN
  /\ c.at = "told" /\ c.held /\ alive[c.srv] # "gone"
  /\ Move(d, i, "ready")
  /\ UNCHANGED <<presence, servers, clients, changes, history, failures, logins>>

\* meta refuses the report, which tells the client never to come back, or does not
\* answer, which closes the connection. What meta has on record stays, be it of this
\* connection or of the previous one that was terminated for it.
Refuse(d, i) ==
  LET c == conns[d][i] IN
  /\ Fault("refuse")
  /\ c.at \in {"sent", "told"} /\ c.held /\ alive[c.srv] # "gone"
  /\ Drop(d, i)
  /\ \/ UNCHANGED client
     \/ /\ mine[d] /\ i = Len(conns[d])
        /\ client' = [client EXCEPT ![d] = "out"]
  /\ strays' = [strays EXCEPT ![d] =
       IF tropho[d] = NoServer \/ Overtaken(d, i) THEN @ ELSE @ \union {"write"}]
  /\ UNCHANGED <<presence, servers, server, heard, changes, lost, logins>>

\* Faulty: what is removed is not unregistered.
RemoveSilently(d, i) ==
  LET c == conns[d][i] IN
  /\ c.at \in {"pending", "ready"} /\ c.held /\ alive[c.srv] # "gone"
  /\ ~(mine[d] /\ i = Len(conns[d]))
  /\ Drop(d, i)
  /\ UNCHANGED <<presence, servers, clients, changes, history, failures, logins>>

\* client_remove: the connection is closed, or no ping came for two periods. One
\* that is registered is unregistered.
ClientRemove(d, i) ==
  LET c == conns[d][i] IN
  /\ c.at \in {"pending", "ready"} /\ c.held /\ alive[c.srv] # "gone"
  /\ ~(mine[d] /\ i = Len(conns[d]))
  /\ IF c.at = "ready" THEN Put(d, i, [c EXCEPT !.at = "unsent", !.queue = {}])
                       ELSE Drop(d, i)
  /\ UNCHANGED <<presence, servers, clients, changes, history, failures, logins>>

\* "unable to disconnect user": the server warns and forgets.
Forget(d, i) ==
  LET c == conns[d][i] IN
  /\ Fault("forget")
  /\ c.at = "unsent"
  /\ Drop(d, i)
  /\ strays' = [strays EXCEPT ![d] = IF Overtaken(d, i) THEN @ ELSE @ \union {"write"}]
  /\ UNCHANGED <<presence, servers, clients, changes, lost, logins>>

\* Meta::_handle: a notification comes in for a device, which may be unknown here.
Deliver(m) ==
  LET q == conns[m.dev]
      fed == [i \in 1..Len(q) |-> [q[i] EXCEPT !.queue = @ \union {m.ver}]]
      there == {i \in 1..Len(q) : /\ q[i].srv = m.srv /\ q[i].held
                                  /\ q[i].at \in Listed /\ alive[m.srv] # "gone"}
  IN
  /\ flight' = flight \ {m}
  /\ conns' = [conns EXCEPT ![m.dev] = [i \in 1..Len(q) |-> IF i \in there THEN fed[i]
                                                            ELSE q[i]]]
  /\ UNCHANGED <<presence, servers, mine, clients, ver, unsent, history, failures,
                 logins>>

\* disconnect_all_users when the server leaves, or its sudden end: a connection goes
\* without a word to meta; a request that is under way goes on, or is not sent.
Vanish(d, i) ==
  LET c == conns[d][i] IN
  /\ c.held
  /\ \/ alive[c.srv] = "gone"
     \/ alive[c.srv] = "leaving" /\ c.at \in Open
  /\ IF c.at \in Reporting \union Closing
       THEN Put(d, i, [c EXCEPT !.held = FALSE, !.queue = {}])
       ELSE Drop(d, i)
  /\ UNCHANGED <<presence, servers, clients, changes, history, failures, logins>>

\* A request its server did not live to send.
NotSent(d, i) ==
  LET c == conns[d][i] IN
  /\ ~c.held /\ c.at \in {"sent", "unsent"}
  /\ Drop(d, i)
  /\ strays' = [strays EXCEPT ![d] = IF c.at = "sent" \/ Overtaken(d, i) THEN @
                                     ELSE @ \union {"write"}]
  /\ UNCHANGED <<presence, servers, clients, changes, lost, failures, logins>>

\* terminate(): no user is sent here any more, and none accepted.
ServerLeave(s) ==
  /\ Fault("leave")
  /\ alive[s] = "up" /\ \E r \in Servers \ {s} : alive[r] = "up"
  /\ alive' = [alive EXCEPT ![s] = "leaving"]
  /\ record' = [record EXCEPT ![s] = "closing"]
  /\ UNCHANGED <<presence, sockets, clients, changes, history, logins>>

\* trophonius_delete, when every connection is gone: the update is of one device.
Unregister(s) ==
  /\ alive[s] = "leaving"
  /\ \A d \in Devices, i \in 1..MaxConns : i <= Len(conns[d]) =>
       ~(conns[d][i].srv = s /\ conns[d][i].held)
  /\ alive' = [alive EXCEPT ![s] = "gone"]
  /\ record' = [record EXCEPT ![s] = "none"]
  /\ LET there == {d \in Devices : tropho[d] = s} IN
     \/ there = {} /\ UNCHANGED <<tropho, strays>>
     \/ \E d \in there : /\ tropho' = [tropho EXCEPT ![d] = NoServer]
                         /\ mark(d, "told", TRUE)
  /\ UNCHANGED <<devOnline, userOnline, shown, sockets, clients, changes, lost, failures,
                 logins>>

ServerCrash(s) ==
  /\ Fault("crash")
  /\ alive[s] # "gone" /\ \E r \in Servers \ {s} : alive[r] = "up"
  /\ alive' = [alive EXCEPT ![s] = "gone"]
  /\ UNCHANGED <<presence, record, sockets, clients, changes, history, logins>>

\* No ping for 90 seconds: trophonius_pick skips the server, the cron removes it.
Expire(s) == /\ alive[s] = "gone" /\ record[s] # "none"
             /\ record' = [record EXCEPT ![s] = "none"]
             /\ UNCHANGED <<presence, alive, sockets, clients, changes, history, failures,
                            logins>>

-----------------------------------------------------------------------------
(***************************************************************************)
(* The client.                                                             *)
(***************************************************************************)

Own(d) == conns[d][Len(conns[d])]

\* The server that meta picks: one that is not shutting down and has pinged lately.
Picks == {s \in Servers : record[s] = "up"}

Login(d) == /\ client[d] = "out" /\ logins[d] < MaxLogins
            /\ logins' = [logins EXCEPT ![d] = @ + 1]
            /\ client' = [client EXCEPT ![d] = "dialing"]
            /\ \E s \in Picks : server' = [server EXCEPT ![d] = s]
            /\ UNCHANGED <<presence, servers, sockets, heard, changes, history, failures>>

\* The socket is open and the identifiers are sent.
Dial(d) ==
  /\ client[d] = "dialing" /\ alive[server[d]] = "up" /\ Len(conns[d]) < MaxConns
  /\ conns' = [conns EXCEPT ![d] = Append(@, [at |-> "pending", srv |-> server[d],
                                             held |-> TRUE, queue |-> {}])]
  /\ mine' = [mine EXCEPT ![d] = TRUE]
  /\ client' = [client EXCEPT ![d] = "asking"]
  /\ UNCHANGED <<presence, servers, server, heard, changes, history, failures, logins>>

\* The connection failed: on_reconnection_failed asks meta for a server.
Repick(d) ==
  /\ \/ client[d] = "dialing" /\ alive[server[d]] # "up"
     \/ client[d] = "asking" /\ ~mine[d]
  /\ client' = [client EXCEPT ![d] = "dialing"]
  /\ \/ Picks = {} /\ UNCHANGED server
     \/ \E s \in Picks : server' = [server EXCEPT ![d] = s]
  /\ UNCHANGED <<presence, servers, sockets, heard, changes, history, failures, logins>>

\* connection_enabled was read.
Connected(d) ==
  /\ client[d] = "asking" /\ mine[d] /\ Own(d).at = "ready"
  /\ client' = [client EXCEPT ![d] = "syncing"]
  /\ UNCHANGED <<presence, servers, sockets, server, heard, changes, history, failures,
                 logins>>

\* Faulty: what happened before this connection is not asked for.
SynchronizeNot(d) ==
  /\ client[d] = "syncing" /\ mine[d]
  /\ client' = [client EXCEPT ![d] = "up"]
  /\ lost' = [lost EXCEPT ![d] = FALSE]
  /\ UNCHANGED <<presence, servers, sockets, server, heard, changes, strays, failures,
                 logins>>

\* on_connection_changed: all that meta has, then the notifications.
Synchronize(d) ==
  /\ client[d] = "syncing" /\ mine[d]
  /\ client' = [client EXCEPT ![d] = "up"]
  /\ heard' = [heard EXCEPT ![d] = 1..ver]
  /\ lost' = [lost EXCEPT ![d] = FALSE]
  /\ UNCHANGED <<presence, servers, sockets, server, changes, strays, failures, logins>>

\* The notifications of the connection, read and handled.
Poll(d) ==
  /\ client[d] = "up" /\ mine[d] /\ Own(d).queue # {}
  /\ heard' = [heard EXCEPT ![d] = @ \union Own(d).queue]
  /\ conns' = [conns EXCEPT ![d][Len(conns[d])].queue = {}]
  /\ UNCHANGED <<presence, servers, mine, client, server, changes, history, failures,
                 logins>>

\* The threads of the connection notice that it is closed: the same server first.
Reconnect(d) ==
  /\ client[d] \in {"syncing", "up"} /\ ~mine[d]
  /\ client' = [client EXCEPT ![d] = "dialing"]
  /\ UNCHANGED <<presence, servers, sockets, server, heard, changes, history, failures,
                 logins>>

\* Or, with the socket broken or mute for longer than the ping timeout.
Break(d) ==
  /\ Fault("break")
  /\ mine[d]
  /\ mine' = [mine EXCEPT ![d] = FALSE]
  /\ UNCHANGED <<presence, servers, conns, clients, changes, history, logins>>

Logout(d) ==
  /\ client[d] = "up"
  /\ client' = [client EXCEPT ![d] = "out"]
  /\ mine' = [mine EXCEPT ![d] = FALSE]
  /\ UNCHANGED <<presence, servers, conns, server, heard, changes, history, failures,
                 logins>>

-----------------------------------------------------------------------------
(***************************************************************************)
(* What changes in meta, and whom it tells.                                *)
(***************************************************************************)

\* A handler writes a change, and has it to notify.
Change == /\ ver < MaxVer
          /\ ver' = ver + 1
          /\ unsent' = unsent \union {ver'}
          /\ UNCHANGED <<presence, servers, sockets, clients, flight, history, failures,
                         logins>>

\* notify_some: each device that is on a server with a document.
Notify(v) ==
  /\ v \in unsent
  /\ unsent' = unsent \ {v}
  /\ flight' = flight \union
       {[ver |-> v, srv |-> tropho[d], dev |-> d] :
          d \in {e \in Devices : tropho[e] # NoServer /\ record[tropho[e]] # "none"}}
  /\ UNCHANGED <<presence, servers, sockets, clients, ver, history, failures, logins>>

\* "unable to contact": the notification is not sent again.
Lose(m) ==
  /\ Fault("lose")
  /\ flight' = flight \ {m}
  /\ lost' = [lost EXCEPT ![m.dev] = TRUE]
  /\ UNCHANGED <<presence, servers, sockets, clients, ver, unsent, strays, logins>>

-----------------------------------------------------------------------------
Reports(d) == \E i \in 1..Len(conns[d]) :
                \/ Serve(d, i) \/ Authenticate(d, i) \/ Answer(d, i)
                \/ ClientRemove(d, i) \/ Vanish(d, i)

Client(d) == \/ Dial(d) \/ Repick(d) \/ Connected(d) \/ Synchronize(d) \/ Poll(d)
             \/ Reconnect(d)

Fails(d) == \/ \E i \in 1..Len(conns[d]) : Refuse(d, i) \/ Forget(d, i) \/ NotSent(d, i)
            \/ Break(d)

Notifications == \/ \E v \in unsent : Notify(v)
                 \/ \E m \in flight : Deliver(m)

PNext == \/ \E d \in Devices : \/ Reports(d) \/ Client(d) \/ Fails(d)
                               \/ Login(d) \/ Logout(d)
         \/ \E s \in Servers : \/ ServerLeave(s) \/ Unregister(s)
                               \/ ServerCrash(s) \/ Expire(s)
         \/ Notifications
         \/ Change
         \/ \E m \in flight : Lose(m)

\* What has started goes on; nobody has to log in or out, and nothing has to change
\* or to fail.
Fairness == /\ \A d \in Devices : WF_pvars(Reports(d)) /\ WF_pvars(Client(d))
            /\ \A s \in Servers : WF_pvars(Unregister(s)) /\ WF_pvars(Expire(s))
            /\ WF_pvars(Notifications)

PSpec == PInit /\ [][PNext]_pvars /\ Fairness

-----------------------------------------------------------------------------
(***************************************************************************)
(* Properties.                                                             *)
(***************************************************************************)

\* The documents of meta, the connections of the servers and the states of the
\* clients have the values the code gives them: nothing is ever sent to a server
\* that does not exist.
PTypeOK == /\ tropho \in [Devices -> Servers \union {NoServer}]
           /\ devOnline \in [Devices -> BOOLEAN]
           /\ userOnline \in BOOLEAN
           /\ shown \in [Devices -> BOOLEAN]
           /\ record \in [Servers -> {"up", "closing", "none"}]
           /\ alive \in [Servers -> {"up", "leaving", "gone"}]
           /\ conns \in [Devices -> Seq(Connection)]
           /\ mine \in [Devices -> BOOLEAN]
           /\ client \in [Devices -> {"out", "dialing", "asking", "syncing", "up"}]
           /\ server \in [Devices -> Servers \union {NoServer}]
           /\ ver \in 0..MaxVer /\ unsent \subseteq 1..ver
           /\ flight \subseteq [ver : 1..ver, srv : Servers, dev : Devices]
           /\ heard \in [Devices -> SUBSET (1..MaxVer)]
           /\ strays \in [Devices -> SUBSET {"write", "told"}]
           /\ lost \in [Devices -> BOOLEAN]
           /\ failures \in 0..MaxFailures
           /\ logins \in [Devices -> 0..MaxLogins]

\* The device has no connection but, maybe, one that works.
Quiet(d) == conns[d] # <<>> => /\ Len(conns[d]) = 1 /\ mine[d]
                               /\ Own(d).at = "ready" /\ alive[Own(d).srv] = "up"

\* The device is connected and nothing about it is under way.
AtRest(d) == Quiet(d) /\ client[d] = "up" /\ mine[d] /\ conns[d] # <<>>

\* Safety: a device that is connected is on record on its server, unless a report
\* was written out of order or lost: the reports of the connections before, on this
\* server or another, never take it off.
Placed ==
  /\ PTypeOK
  /\ \A d \in Devices :
       AtRest(d) /\ "write" \notin strays[d] => /\ tropho[d] = Own(d).srv
                                                /\ devOnline[d] /\ userOnline

\* Safety: a device that is connected and has read its notifications knows of every
\* change, those from before, from between two connections and from while it was
\* connecting, unless a notification was lost or a report written out of order.
NoMissedUpdate ==
  \A d \in Devices :
    /\ AtRest(d) /\ "write" \notin strays[d] /\ ~lost[d]
    /\ Own(d).queue = {} /\ unsent = {} /\ \A m \in flight : m.dev # d
    => heard[d] = 1..ver

\* Safety: a user with a device online is online, and one who is online without is
\* about to be offline.
UserFlag ==
  /\ (\E d \in Devices : devOnline[d]) => userOnline
  /\ userOnline => \/ \E d \in Devices : devOnline[d]
                   \/ \E d \in Devices : \E i \in 1..Len(conns[d]) :
                        conns[d][i].at = "cleared"

\* Safety: what the swaggers heard last of a device is where meta has it, unless two
\* reports told them out of order.
PeersTold ==
  \A d \in Devices :
    Quiet(d) /\ "told" \notin strays[d] => shown[d] = (tropho[d] # NoServer)

\* Safety: what meta has on record of the devices and told of them follows their
\* connections, whatever order the reports came in.
Recorded == Placed /\ UserFlag /\ PeersTold

\* Liveness: a client that logs in is connected again and again until it stays
\* connected, or until it is out.
Settles == \A d \in Devices : <>[](client[d] \in {"up", "out"})

\* Liveness: so everything settles, and meta has no device of a client that is out on a
\* server that lives, unless a report was lost or written out of order.
GoesOffline ==
  /\ Settles
  /\ \A d \in Devices :
    <>[](client[d] = "out" /\ "write" \notin strays[d] =>
           tropho[d] = NoServer \/ alive[tropho[d]] = "gone")
=============================================================================
