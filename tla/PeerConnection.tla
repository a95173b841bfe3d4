--------------------------- MODULE PeerConnection ---------------------------
(***************************************************************************)
(* How the two clients of a transaction get connected                      *)
(* (PeerTransferMachine.cc, Rounds.cc, apertus/Accepter.cc). Each waits    *)
(* for a connection to its station and, at the same time, goes through two *)
(* rounds: it calls the addresses of the other directly, and after two     *)
(* seconds meets it on a relay, apertus, that pairs the first two clients  *)
(* that give the identifier of the transaction. The first connection found *)
(* ends the rest, and a transfer that loses its connection starts again.   *)
(***************************************************************************)
EXTENDS Station, FiniteSets

CONSTANTS Addresses, \* a bound: how many addresses the peers may have
          Faults,    \* what may go wrong: "early", "interrupt", "silence", "relay"
          MaxFaults, \* bound on the number of faults, for each of Addresses
          Relay,     \* the connection through apertus
          NoOne

ASSUME ConnectionAssumption == /\ Relay \notin Conns \union {NoConn}
                               /\ NoOne \notin Peers
                               /\ Addresses \subseteq [Peers -> Nat]
                               /\ MaxFaults \in [Addresses -> Nat]

VARIABLES addresses, \* addresses[p]: those of p, which the other calls
          phase,     \* phase[p]: of the Transferer, and of the rounds
          found,     \* found[p]: host of AddressRound::connect
          host,      \* host[p]: host of _connect, then _host
          tunnel,    \* tunnel[p]: the socket of p to apertus
          first,     \* apertus' _clients[tid]: whose socket waits for a peer
          faults     \* faults so far

rounds == <<phase, found, host>>
relay == <<tunnel, first>>
all == <<addresses, vars, rounds, relay, faults>>
running == <<vars, rounds, relay, faults>>

\* "opened": the direct round has had a host, it is about to return. "over": a
\* round has returned a host.
Connecting == {"direct", "opened", "fallback", "over"}

CInit == /\ Init
         /\ addresses \in Addresses
         /\ phase = [p \in Peers |-> "idle"]
         /\ found = [p \in Peers |-> NoConn]
         /\ host = [p \in Peers |-> NoConn]
         /\ tunnel = [p \in Peers |-> "off"]
         /\ first = NoOne
         /\ faults = 0

Fault(f) == f \in Faults /\ faults < MaxFaults[addresses] /\ faults' = faults + 1

\* Faulty: the negotiations of _serve are given up with those of the calls.
CallsAndServed(p) == {c \in Conns : at[c][p] \in Talking}

Calls(p) == {c \in Conns : caller(c) = p /\ at[c][p] \in Talking}

Direct(h) == {h} \ {NoConn, Relay}

-----------------------------------------------------------------------------
(***************************************************************************)
(* apertus.                                                                *)
(***************************************************************************)

\* Faulty: the socket at the other end of a tunnel stays open.
HangupAlone(p) == tunnel' = [tunnel EXCEPT ![p] = "off"]

\* p closes its socket, the one at the other end of a tunnel is widowed. What
\* _clients holds stays there.
Hangup(p) == tunnel' = [q \in Peers |-> IF q = p THEN "off"
                                        ELSE IF tunnel[p] = "linked" THEN "widowed"
                                        ELSE tunnel[q]]

\* Accepter::_handle has read the identifier: the first client waits, the second
\* is connected with it, dead or alive. Both are sent the sync byte.
Join(p) ==
  /\ tunnel[p] = "sent"
  /\ \/ /\ first = NoOne
        /\ first' = p
        /\ tunnel' = [tunnel EXCEPT ![p] = "first"]
     \/ /\ first # NoOne /\ tunnel[first] = "first"
        /\ first' = NoOne
        /\ tunnel' = [q \in Peers |-> "linked"]
     \/ /\ first # NoOne /\ tunnel[first] # "first"
        /\ first' = NoOne
        /\ tunnel' = [tunnel EXCEPT ![p] = "widowed"]
  /\ UNCHANGED <<vars, rounds, faults>>

\* The relay closes the socket of a client that has waited too long, and keeps it.
RelayTimeout(p) == /\ Fault("relay")
                   /\ tunnel[p] = "first"
                   /\ tunnel' = [tunnel EXCEPT ![p] = "refused"]
                   /\ UNCHANGED <<vars, rounds, first>>

-----------------------------------------------------------------------------
(***************************************************************************)
(* _connect.                                                               *)
(***************************************************************************)

\* The scope of _connect ends with host h, or with none: everything else p had is
\* closed.
Leave(p, h, next) ==
  /\ Close(p, Calls(p) \union Direct(found[p]) \union (Direct(host[p]) \ {h}), {})
  /\ found' = [found EXCEPT ![p] = NoConn]
  /\ host' = [host EXCEPT ![p] = h]
  /\ phase' = [phase EXCEPT ![p] = next]
  /\ IF h = Relay THEN UNCHANGED tunnel ELSE Hangup(p)
  /\ UNCHANGED first

\* One of the assertions that there is no other host fails, and with it the
\* transaction.
Assertion(p) == Leave(p, NoConn, "failed")

\* AddressRound::connect calls the addresses of the other that answer.
Connect(p) ==
  /\ phase[p] = "idle"
  /\ \E calls \in SUBSET {c \in Conns : caller(c) = p /\ at[c] = Unused} :
       Cardinality(calls) <= addresses[other(p)] /\ Call(p, calls)
  /\ phase' = [phase EXCEPT ![p] = "direct"]
  /\ UNCHANGED <<found, host, relay, faults>>

\* What a call that ends without a host assigns nullptr to.
Overwritten(c, p) == IF caller(c) = p THEN Direct(found[p]) ELSE {}

\* The ends of p negotiate; host = _connect(station, endpoint) for its calls.
Talk(c, p) ==
  /\ \/ /\ Queue(c, p) \/ Accept(c, p) \/ Serve(c, p)
        /\ UNCHANGED found
        /\ UNCHANGED phase
     \/ /\ Succeed(c, p)
        /\ found' = IF caller(c) = p THEN [found EXCEPT ![p] = c] ELSE found
        /\ phase' = IF caller(c) = p THEN [phase EXCEPT ![p] = "opened"] ELSE phase
     \/ /\ Refuse(c, p, Overwritten(c, p)) \/ Fail(c, p, Overwritten(c, p))
        /\ found' = IF caller(c) = p THEN [found EXCEPT ![p] = NoConn] ELSE found
        /\ UNCHANGED phase
  /\ UNCHANGED <<host, relay, faults>>

\* The direct round ends, its calls are given up, and the second round begins.
Fallback(p) == /\ Close(p, Calls(p), {})
               /\ phase' = [phase EXCEPT ![p] = "fallback"]
               /\ tunnel' = [tunnel EXCEPT ![p] = "sent"]
               /\ UNCHANGED <<found, host, first>>

\* found is open: the direct round returns its host, if it still has one.
DirectFound(p) ==
  /\ phase[p] = "opened"
  /\ \/ found[p] = NoConn /\ Fallback(p)
     \/ found[p] # NoConn /\ host[p] # NoConn /\ Assertion(p)
     \/ /\ found[p] # NoConn /\ host[p] = NoConn
        /\ Close(p, Calls(p), {})
        /\ host' = [host EXCEPT ![p] = found[p]]
        /\ found' = [found EXCEPT ![p] = NoConn]
        /\ phase' = [phase EXCEPT ![p] = "over"]
        /\ UNCHANGED relay
  /\ UNCHANGED faults

\* No end of a connection has anything to do.
Still == \A c \in Conns, p \in Peers :
           /\ ~MayCheck(c, p) /\ ~StatusReadable(c, p)
           /\ at[c][p] = "backlog" => serving[p] # NoConn

\* found.wait(2_sec): no exchange takes that long, but for a fault.
DirectTimeout(p) ==
  /\ phase[p] = "direct" /\ host[p] = NoConn
  /\ IF Still THEN UNCHANGED faults ELSE Fault("early")
  /\ Fallback(p)

\* wait_accepted
Accepted(p) ==
  /\ phase[p] \in Connecting
  /\ \E c \in host_new[p] :
       IF host[p] # NoConn
         THEN Assertion(p)
         ELSE /\ TakeHost(c, p)
              /\ host' = [host EXCEPT ![p] = c]
              /\ UNCHANGED <<phase, found, relay>>
  /\ UNCHANGED faults

\* FallbackRound::connect reads the sync byte.
Synced(p) ==
  /\ phase[p] = "fallback" /\ tunnel[p] \in {"linked", "widowed"}
  /\ IF host[p] # NoConn
       THEN Assertion(p)
       ELSE /\ host' = [host EXCEPT ![p] = Relay]
            /\ phase' = [phase EXCEPT ![p] = "over"]
            /\ UNCHANGED <<vars, found, relay>>
  /\ UNCHANGED faults

\* The relay has closed the connection: "network error on connection", connect
\* again.
RelayLost(p) == /\ phase[p] = "fallback" /\ tunnel[p] \in {"widowed", "refused"}
                /\ Leave(p, NoConn, "idle")
                /\ UNCHANGED faults

\* found is open: _connect returns its host, and the transfer begins.
Found(p) == /\ phase[p] \in Connecting /\ host[p] # NoConn
            /\ Leave(p, host[p], "transfer")
            /\ UNCHANGED faults

\* The connection p transfers on has no other end.
Dead(p) == \/ host[p] \in Conns /\ host[p] \notin silent
              /\ at[host[p]][other(p)] \in Shut
           \/ host[p] = Relay /\ tunnel[p] = "widowed"

\* "peer disconnected from the frete": the host goes, and the peers connect again.
TransferLost(p) == /\ phase[p] = "transfer" /\ Dead(p)
                   /\ Leave(p, NoConn, "idle")
                   /\ UNCHANGED faults

\* The peer is said to be unreachable, then reachable again.
Interrupt(p) == /\ Fault("interrupt")
                /\ phase[p] \in Connecting \union {"transfer"}
                /\ Leave(p, NoConn, "idle")

Lose(c) == Fault("silence") /\ Silence(c) /\ UNCHANGED <<rounds, relay>>

-----------------------------------------------------------------------------
Step(p) == \/ Connect(p) \/ DirectFound(p) \/ Accepted(p) \/ Synced(p)
           \/ RelayLost(p) \/ Found(p) \/ TransferLost(p)

Move(p) == (\E c \in Conns : Talk(c, p)) \/ Step(p) \/ Join(p)

CNext == /\ \/ \E p \in Peers : \/ Move(p) \/ DirectTimeout(p)
                                \/ RelayTimeout(p) \/ Interrupt(p)
            \/ \E c \in Conns : Lose(c)
         /\ UNCHANGED addresses

\* The coroutines run, the network carries what is not lost, the relay answers and
\* the time passes.
CFairness == \A p \in Peers : /\ \A c \in Conns : WF_running(Talk(c, p))
                              /\ WF_running(Step(p)) /\ WF_running(Join(p))
                              /\ SF_running(DirectTimeout(p) /\ UNCHANGED faults)

CSpec == CInit /\ [][CNext]_all /\ CFairness

-----------------------------------------------------------------------------
(***************************************************************************)
(* Properties.                                                             *)
(***************************************************************************)
CTypeOK == /\ TypeOK
           /\ phase \in [Peers -> {"idle", "transfer", "failed"} \union Connecting]
           /\ found \in [Peers -> Conns \union {NoConn}]
           /\ host \in [Peers -> Conns \union {NoConn, Relay}]
           /\ tunnel \in [Peers -> {"off", "sent", "first", "linked", "widowed", "refused"}]
           /\ first \in Peers \union {NoOne}
           /\ addresses \in Addresses
           /\ faults \in 0..MaxFaults[addresses]

\* A station that says already_connected has a host somebody holds, in accept() or
\* in a round: one that nobody will drop would refuse the peer for ever.
HostHeld == \A p \in Peers : hosts[p] # NoConn =>
              hosts[p] \in host_new[p] \union {found[p], host[p]}

\* The stations are safe in the hands of the rounds: the assertion of the master
\* cannot fail, the hosts of both are of one connection or about to be, and no station
\* refuses the peer for a host that nobody holds.
StationsSafe == CTypeOK /\ MasterFree /\ Agreement /\ HostHeld

\* Both transfer, and on the same connection.
Together == /\ \A p \in Peers : phase[p] = "transfer"
            /\ host[Master] = host[Slave]
            /\ ~\E p \in Peers : Dead(p)

\* Whatever was lost or late, the retries of the rounds bring both peers on one
\* connection, unless an assertion fails or one waits for data on a connection that
\* nobody says is lost. With several addresses the late refusal of one may drop the
\* host another has found, again and again.
Connects ==
  (\A p \in Peers : addresses[p] <= 1)
    => <>[](\/ Together
            \/ \E p \in Peers : phase[p] = "failed" \/ host[p] \in silent)

\* The rounds use their stations as Station lets an owner, and no other way: they
\* close what they called or hold, never a negotiation or a host of _serve.
UsesStation == Spec
=============================================================================
