------------------------------ MODULE Rendezvous ------------------------------
(***************************************************************************)
(* How the two devices of an accepted transaction meet (gap:               *)
(* TransferMachine.cc, PeerMachine.cc, PeerTransferMachine.cc,             *)
(* _detail/Transaction.cc, _detail/User.cc; meta: transaction.py, user.py).*)
(* Each device runs a Transferer: it publishes its endpoints, meta tells   *)
(* both when it has those of both, and they connect; a device whose peer   *)
(* is away uses the cloud, and either user may pause the transfer.         *)
(*                                                                         *)
(* Requests are written when they are sent, and notified later; meta       *)
(* serves several at a time. A device that is not connected to trophonius  *)
(* hears nothing: it is reset when it is again. Presence has the           *)
(* connections, PeerConnection what connecting takes, BlockPipeline the    *)
(* transfer and PeerTransaction its end: here it lasts.                    *)
(***************************************************************************)
EXTENDS Naturals, Sequences

CONSTANTS Devices,    \* the two of them
          Nobody,
          Faults,     \* what may go wrong: "cut", "crash"
          Frail,      \* the devices it may happen to
          MaxFaults,  \* bound on the number of faults
          MaxPauses   \* bound on the requests to pause and to resume

ASSUME RendezvousAssumption ==
  /\ \E d, e \in Devices : d # e /\ Devices = {d, e}
  /\ Nobody \notin Devices
  /\ Frail \subseteq Devices
  /\ {MaxFaults, MaxPauses} \subseteq Nat

VARIABLES node,    \* node[d]: in meta, the endpoints of d, 0 for none: the number of
                   \* the process of d, which has a station of its own
          online,  \* online[d]: meta has d on a trophonius server
          leave,   \* leave[d]: a disconnection is written and not told
          paused,  \* what meta has
          put,     \* put[d]: the request that has written the endpoints of d, and
                   \* the document it wrote
          pausing, \* the request to pause or to resume
          conn,    \* conn[d]: "off", "cut", "joined" when meta has it here, "up"
          inbox,   \* inbox[d]: its notifications
          life,    \* life[d]: number of the process
          fsm,     \* fsm[d]: state of the Transferer
          reach,   \* reach[d]: endpoints of the peer; peer_reachable is open when
                   \* there are any, peer_unreachable when there are none
          peer,    \* peer[d]: peer_online is open, otherwise peer_offline
          halt,    \* halt[d]: the barrier paused
          missed,  \* history, missed[d]: what d was told too late, or not at all, and
                   \* nothing tells again: "reach", "peer", "halt"; "node": the end
                   \* of its former connection took the endpoints it has published
          faults, pauses \* so far

meta == <<node, online, leave, paused>>
requests == <<put, pausing>>
machine == <<fsm, reach, peer, halt>>
vars == <<meta, requests, conn, inbox, life, machine, missed, faults, pauses>>

other(d) == CHOOSE e \in Devices : e # d

Idle == [at |-> "no", seen |-> [d \in Devices |-> 0]]
Calm == [at |-> "no", by |-> Nobody, to |-> FALSE]

\* The recipient has accepted, and it may be paused already.
Init == /\ node = [d \in Devices |-> 0]
        /\ online = [d \in Devices |-> TRUE]
        /\ leave = [d \in Devices |-> FALSE]
        /\ paused \in BOOLEAN
        /\ put = [d \in Devices |-> Idle]
        /\ pausing = Calm
        /\ conn = [d \in Devices |-> "up"]
        /\ inbox = [d \in Devices |-> <<>>]
        /\ life = [d \in Devices |-> 1]
        /\ fsm = [d \in Devices |-> "synchronize"]
        /\ reach = [d \in Devices |-> 0]
        /\ peer = [d \in Devices |-> TRUE]
        /\ halt = [d \in Devices |-> paused]
        /\ missed = [d \in Devices |-> {}]
        /\ faults = 0 /\ pauses = 0

Fault(f, d) == /\ f \in Faults /\ d \in Frail /\ faults < MaxFaults
               /\ faults' = faults + 1

-----------------------------------------------------------------------------
(***************************************************************************)
(* Notifications. ok: what one says is still so when it is sent.           *)
(***************************************************************************)

Reach(e, ok) == [is |-> "reach", status |-> TRUE, val |-> e, ok |-> ok]
Unreach(ok) == [is |-> "reach", status |-> FALSE, val |-> 0, ok |-> ok]
Status(s, ok) == [is |-> "peer", val |-> s, ok |-> ok]
Halt(b) == [is |-> "halt", val |-> b, ok |-> TRUE]

\* What a device that does not get m misses: new endpoints and status are told or
\* asked for again, and so is that the transaction is paused.
Loss(m) == IF m \in {Unreach(TRUE), Unreach(FALSE), Halt(FALSE)} THEN {m.is} ELSE {}
Losses(q) == UNION {Loss(q[i]) : i \in DOMAIN q}

Listening(d) == conn[d] \in {"joined", "up"}

\* notify_some to the devices that are on record and connected.
SendTo(here, to, taken) ==
  /\ inbox' = [d \in Devices |-> IF d \in here THEN inbox[d] \o to[d] ELSE inbox[d]]
  /\ missed' = [d \in Devices |-> missed[d] \union (IF d \in here THEN {}
                                                                  ELSE Losses(to[d]))
                                            \union (IF d \in taken THEN {"node"} ELSE {})]

Send(to) == SendTo({d \in Devices : Listening(d)}, to, {})

-----------------------------------------------------------------------------
(***************************************************************************)
(* meta.                                                                   *)
(***************************************************************************)

\* The trophonius server reports that d left: set_connection_status.
WriteLeave(d) == /\ online[d] /\ ~Listening(d) /\ ~leave[d]
                 /\ online' = [online EXCEPT ![d] = FALSE]
                 /\ leave' = [leave EXCEPT ![d] = TRUE]
                 /\ UNCHANGED <<node, paused, requests, conn, inbox, life, machine, missed,
                                faults, pauses>>

\* __disconnect_endpoint: what each device is told, if d had endpoints here.
Disconnected(d, ok) == IF node[d] = 0 THEN <<>> ELSE <<Unreach(ok)>>

\* Faulty: the endpoints go and nobody is told.
TellLeaveQuietly(d) ==
  /\ leave[d]
  /\ leave' = [leave EXCEPT ![d] = FALSE]
  /\ node' = [node EXCEPT ![d] = 0]
  /\ Send([e \in Devices |-> IF e = d THEN <<>> ELSE <<Status(FALSE, ~online[d])>>])
  /\ UNCHANGED <<online, paused, requests, conn, life, machine, faults, pauses>>

\* Then it takes the endpoints of d off its transactions and tells both, whatever has
\* happened meanwhile.
TellLeave(d) ==
  LET gone == Disconnected(d, ~online[d]) IN
  /\ leave[d]
  /\ leave' = [leave EXCEPT ![d] = FALSE]
  /\ node' = [node EXCEPT ![d] = 0]
  /\ SendTo({e \in Devices : Listening(e)},
            [e \in Devices |-> IF e = d THEN gone
                               ELSE gone \o <<Status(FALSE, ~online[d])>>],
            {e \in {d} : online[e] /\ node[e] # 0})
  /\ UNCHANGED <<online, paused, requests, conn, life, machine, faults, pauses>>

\* d connects and it reports that d is here: a device that is on record already is
\* disconnected and connected again.
Join(d) ==
  /\ conn[d] = "cut"
  /\ conn' = [conn EXCEPT ![d] = "joined"]
  /\ online' = [online EXCEPT ![d] = TRUE]
  /\ node' = [node EXCEPT ![d] = IF online[d] THEN 0 ELSE @]
  /\ SendTo({e \in Devices : e = d \/ Listening(e)},
            [e \in Devices |->
               (IF online[d] THEN Disconnected(d, TRUE) ELSE <<>>)
               \o (IF online[d] /\ e # d THEN <<Status(FALSE, TRUE)>> ELSE <<>>)
               \o (IF e # d THEN <<Status(TRUE, TRUE)>> ELSE <<>>)], {})
  /\ UNCHANGED <<leave, paused, requests, life, machine, faults, pauses>>

\* put_endpoints goes on: __notify_reachability of the document it has written, if
\* that has the endpoints of both; then it answers.
NotifyReachability(d) ==
  LET seen == put[d].seen
      current(e) == node[e] = seen[e] /\ seen[e] = life[e] /\ online[e]
  IN
  /\ put[d].at = "written"
  /\ Send([e \in Devices |-> IF \E f \in Devices : seen[f] = 0 THEN <<>>
                             ELSE <<Reach(seen[other(e)], current(other(e)))>>])
  /\ put' = [put EXCEPT ![d] = Idle]
  /\ UNCHANGED <<meta, pausing, conn, life, machine, faults, pauses>>

\* transaction_update with paused goes on: the devices have been told, it is written
\* and they get the document, which only ever pauses. Then it answers, and the user
\* who asked has the barrier set.
WritePaused ==
  /\ pausing.at = "told"
  /\ pausing' = Calm
  /\ paused' = pausing.to
  /\ halt' = [d \in Devices |-> IF d = pausing.by THEN pausing.to ELSE halt[d]]
  /\ Send([d \in Devices |-> IF pausing.to THEN <<Halt(TRUE)>> ELSE <<>>])
  /\ UNCHANGED <<node, online, leave, put, conn, life, fsm, reach, peer, faults, pauses>>

-----------------------------------------------------------------------------
(***************************************************************************)
(* The connection of a device.                                             *)
(***************************************************************************)

LoseLink(d) == /\ Fault("cut", d)
               /\ conn[d] \in {"joined", "up"}
               /\ conn' = [conn EXCEPT ![d] = "cut"]
               /\ inbox' = [inbox EXCEPT ![d] = <<>>]
               /\ missed' = [missed EXCEPT ![d] = @ \union Losses(inbox[d])]
               /\ UNCHANGED <<meta, requests, life, machine, pauses>>

\* The requests under way go on.
Crash(d) == /\ Fault("crash", d)
            /\ conn[d] \in {"joined", "up", "cut"} /\ fsm[d] # "off"
            /\ conn' = [conn EXCEPT ![d] = "off"]
            /\ inbox' = [inbox EXCEPT ![d] = <<>>]
            /\ fsm' = [fsm EXCEPT ![d] = "off"]
            /\ pausing' = IF pausing.by = d THEN [pausing EXCEPT !.by = Nobody]
                                            ELSE pausing
            /\ UNCHANGED <<meta, put, life, reach, peer, halt, missed, pauses>>

Restart(d) == /\ conn[d] = "off"
              /\ conn' = [conn EXCEPT ![d] = "cut"]
              /\ life' = [life EXCEPT ![d] = @ + 1]
              /\ UNCHANGED <<meta, requests, inbox, machine, missed, faults, pauses>>

\* on_connection_changed: the Transferer is run again, or a new one is; the users and
\* the transactions are asked for. What is not paused stays as it was.
Resynchronize(d) ==
  LET new == fsm[d] = "off"
      resuming == paused /\ pausing.at = "told" /\ ~pausing.to
  IN
  /\ conn[d] = "joined"
  /\ conn' = [conn EXCEPT ![d] = "up"]
  /\ fsm' = [fsm EXCEPT ![d] = "synchronize"]
  /\ reach' = [reach EXCEPT ![d] = IF new THEN 0 ELSE @]
  /\ peer' = [peer EXCEPT ![d] = online[other(d)]]
  /\ halt' = [halt EXCEPT ![d] = paused \/ (@ /\ ~new)]
  /\ missed' = [missed EXCEPT ![d] = (IF new THEN {} ELSE @ \ {"peer", "node"})
                                     \union (IF resuming THEN {"halt"} ELSE {})]
  /\ UNCHANGED <<meta, requests, inbox, life, faults, pauses>>

-----------------------------------------------------------------------------
(***************************************************************************)
(* The Transferer.                                                         *)
(***************************************************************************)

\* A notification is handled; the barriers are there whatever the state is.
Hear(d) ==
  LET m == Head(inbox[d])
      set(barrier, k) == [barrier EXCEPT ![d] = IF m.is = k THEN m.val ELSE @]
  IN
  /\ conn[d] = "up" /\ inbox[d] # <<>>
  /\ inbox' = [inbox EXCEPT ![d] = Tail(@)]
  /\ reach' = set(reach, "reach")
  /\ peer' = set(peer, "peer")
  /\ halt' = set(halt, "halt")
  /\ missed' = [missed EXCEPT ![d] = IF m.ok THEN @ \ {m.is} ELSE @ \union {m.is}]
  /\ UNCHANGED <<meta, requests, conn, life, fsm, faults, pauses>>

\* transaction_pause, one at a time: meta tells both before it writes.
Pause(d) == /\ conn[d] = "up" /\ pausing = Calm /\ pauses < MaxPauses
            /\ pauses' = pauses + 1
            /\ pausing' = [at |-> "told", by |-> d, to |-> ~halt[d]]
            /\ Send([e \in Devices |-> <<Halt(~halt[d])>>])
            /\ UNCHANGED <<meta, put, conn, life, machine, faults>>

Enter(d, f) == fsm' = [fsm EXCEPT ![d] = f]
Rest == <<online, leave, paused, pausing, conn, inbox, life, reach, peer, halt, faults,
          pauses>>

\* Faulty: a connection is not given up when the peer is unreachable.
triggersConnecting(d) ==
  CASE fsm[d] \in {"off", "paused"} -> {}
    [] fsm[d] \notin {"off", "paused"} /\ halt[d] -> {"paused"}
    [] fsm[d] = "wait" /\ ~halt[d] -> (IF reach[d] # 0 THEN {"connection"} ELSE {})
                                      \union (IF ~peer[d] THEN {"buffer"} ELSE {})
    [] fsm[d] = "buffer" /\ ~halt[d] /\ peer[d] -> {"wait"}
    [] fsm[d] = "transfer" /\ ~halt[d] /\ ~peer[d] -> {"connection"}
    [] OTHER -> {}

\* The transitions of the other states on a barrier: they stop what the state does.
triggers(d) ==
  CASE fsm[d] \in {"off", "paused"} -> {}
    [] fsm[d] \notin {"off", "paused"} /\ halt[d] -> {"paused"}
    [] fsm[d] = "connection" /\ ~halt[d] /\ reach[d] = 0 -> {"wait"}
    [] fsm[d] = "wait" /\ ~halt[d] -> (IF reach[d] # 0 THEN {"connection"} ELSE {})
                                      \union (IF ~peer[d] THEN {"buffer"} ELSE {})
    [] fsm[d] = "buffer" /\ ~halt[d] /\ peer[d] -> {"wait"}
    [] fsm[d] = "transfer" /\ ~halt[d] /\ ~peer[d] -> {"connection"}
    [] OTHER -> {}

Trigger(d) == /\ \E f \in triggers(d) : Enter(d, f)
              /\ UNCHANGED <<Rest, missed, node, put>>

Resume(d) == /\ fsm[d] = "paused" /\ ~halt[d]
             /\ Enter(d, "synchronize")
             /\ UNCHANGED <<Rest, missed, node, put>>

\* put_endpoints writes the endpoints, and keeps the document it gets.
PutEndpoints(d) == /\ node' = [node EXCEPT ![d] = life[d]]
                   /\ put' = [put EXCEPT ![d] = [at |-> "written", seen |-> node']]

\* What the cloud has is here: the endpoints are published.
Publish(d) == /\ fsm[d] = "synchronize" /\ triggers(d) = {} /\ put[d] = Idle
              /\ Enter(d, "publish")
              /\ PutEndpoints(d)
              /\ missed' = [missed EXCEPT ![d] = @ \ {"node"}]
              /\ UNCHANGED Rest

Published(d) == /\ fsm[d] = "publish" /\ triggers(d) = {} /\ put[d] = Idle
                /\ Enter(d, IF reach[d] # 0 THEN "connection" ELSE "wait")
                /\ UNCHANGED <<Rest, missed, node, put>>

\* Both try, and end on one connection.
Connect == /\ \A d \in Devices : fsm[d] = "connection" /\ triggers(d) = {}
           /\ fsm' = [d \in Devices |-> "transfer"]
           /\ UNCHANGED <<Rest, missed, node, put>>

\* Which breaks, or is closed by the peer.
Break(d) == /\ fsm[d] = "transfer" /\ triggers(d) = {}
            /\ Enter(d, "connection")
            /\ UNCHANGED <<Rest, missed, node, put>>

-----------------------------------------------------------------------------
Meta(d) == \/ WriteLeave(d) \/ TellLeave(d) \/ Join(d) \/ NotifyReachability(d)
Machine(d) == Trigger(d) \/ Resume(d) \/ Publish(d) \/ Published(d)
Listen(d) == Resynchronize(d) \/ Hear(d)

Next == \/ \E d \in Devices : \/ Meta(d) \/ Machine(d) \/ Listen(d) \/ Break(d)
                              \/ Pause(d) \/ LoseLink(d) \/ Crash(d) \/ Restart(d)
        \/ WritePaused \/ Connect

\* Requests are handled, notifications read, and a client that is cut comes back; one
\* that crashes need not, and a connection need not succeed.
Fairness == /\ \A d \in Devices : WF_vars(Meta(d)) /\ WF_vars(Machine(d))
                                  /\ WF_vars(Listen(d))
            /\ WF_vars(WritePaused)

Spec == Init /\ [][Next]_vars /\ Fairness

-----------------------------------------------------------------------------
(***************************************************************************)
(* Properties.                                                             *)
(***************************************************************************)

Lives == 0..(MaxFaults + 1)
Message == UNION {[is : {"reach"}, status : {TRUE}, val : Lives \ {0}, ok : BOOLEAN],
                  [is : {"reach"}, status : {FALSE}, val : {0}, ok : BOOLEAN],
                  [is : {"peer", "halt"}, val : BOOLEAN, ok : BOOLEAN]}

\* The documents of meta, its requests and the barriers have the values the code gives
\* them, and a peer that is said to be reachable has endpoints.
TypeOK ==
  /\ node \in [Devices -> Lives]
  /\ {online, leave, peer, halt} \subseteq [Devices -> BOOLEAN]
  /\ paused \in BOOLEAN
  /\ put \in [Devices -> [at : {"no", "written"}, seen : [Devices -> Lives]]]
  /\ pausing \in [at : {"no", "told"}, by : Devices \union {Nobody}, to : BOOLEAN]
  /\ conn \in [Devices -> {"off", "cut", "joined", "up"}]
  /\ inbox \in [Devices -> Seq(Message)]
  /\ life \in [Devices -> Lives \ {0}]
  /\ fsm \in [Devices -> {"off", "synchronize", "publish", "connection", "wait",
                          "buffer", "transfer", "paused"}]
  /\ reach \in [Devices -> Lives]
  /\ missed \in [Devices -> SUBSET {"reach", "peer", "halt", "node"}]
  /\ faults \in 0..MaxFaults /\ pauses \in 0..MaxPauses

Settled == /\ \A d \in Devices : /\ inbox[d] = <<>> /\ ~leave[d] /\ put[d] = Idle
                                 /\ online[d] = Listening(d)
           /\ pausing = Calm

Meeting == {"connection", "wait", "buffer", "transfer"}

\* Safety: when nothing is under way, a device that is connected knows what meta does:
\* the peer is there or not, the transaction is paused or not, and a device that has
\* published knows the endpoints of the process the peer runs, and only those; unless
\* it was told in the wrong order, or something nobody repeats.
Informed ==
  /\ TypeOK
  /\ \A d \in Devices :
       Settled /\ conn[d] = "up" =>
         /\ "peer" \notin missed[d] => peer[d] = online[other(d)]
         /\ "halt" \notin missed[d] => halt[d] = paused
         /\ missed[d] \intersect {"reach", "node"} = {} /\ fsm[d] \in Meeting =>
              reach[d] = node[other(d)]

\* Liveness: each device ends where it should: paused when the transfer is, in the
\* cloud when the peer is away, and when it is there both connecting, again and again;
\* unless it was told in the wrong order, or something nobody repeats.
Rightly(d) ==
  LET e == other(d) IN
  conn[d] = "up" /\ missed[d] = {} =>
    IF paused THEN fsm[d] = "paused"
    ELSE IF ~online[e] THEN fsm[d] = "buffer"
    ELSE conn[e] = "up" /\ missed[e] = {} =>
           fsm[d] \in {"connection", "transfer"} /\ reach[d] = life[e]

Meets == <>[](\A d \in Devices : Rightly(d))
===============================================================================
