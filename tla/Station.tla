------------------------------- MODULE Station -------------------------------
(***************************************************************************)
(* Two stations that call each other (station/Station.cc): both ends of a  *)
(* connection send their version and passport (hello), then a verdict, and *)
(* become hosts when both verdicts are favourable. Either may call, at the *)
(* same time and at several addresses, so they must settle on one          *)
(* connection: the one with the smaller passport, the master, negotiates   *)
(* one connection at a time and refuses the others.                        *)
(*                                                                         *)
(* The owner of a station (a transfer of the client) calls, takes hosts,   *)
(* and drops them or gives a call up whenever it likes.                    *)
(***************************************************************************)
EXTENDS Integers

CONSTANTS Master, Slave, \* the stations, in the order of their passports
          Lines,         \* a bound: connections of one caller that still have an end
          NoConn

Peers == {Master, Slave}

Conns == Peers \X Lines

ASSUME StationAssumption == Master # Slave /\ NoConn \notin Conns

caller(c) == c[1]

other(p) == IF p = Master THEN Slave ELSE Master

VARIABLES at,          \* at[c][p]: where the end of p of connection c is
          hosts,       \* hosts[p]: _hosts, at most the other station here
          host_new,    \* host_new[p]: the hosts accept() has not returned yet
          serving,     \* serving[p]: connection _serve negotiates
          negotiating, \* what the master has in _host_negotiating
          silent       \* connections that lost the network: nothing arrives

vars == <<at, hosts, host_new, serving, negotiating, silent>>

\* "closed" said hello, "rejected" already_connected, "dropped" succeeded.
Shut == {"closed", "rejected", "dropped"}

\* Ends whose negotiation is under way.
Talking == {"hello", "queued", "woken", "status"}

\* "none": a connection without an end, which may be used again. "queued" waits for
\* _negotiation_ended, "woken" has had the signal.
Places == {"none", "backlog", "host"} \union Talking \union Shut

Unused == [p \in Peers |-> "none"]

Init == /\ at = [c \in Conns |-> Unused]
        /\ hosts = [p \in Peers |-> NoConn]
        /\ host_new = [p \in Peers |-> {}]
        /\ serving = [p \in Peers |-> NoConn]
        /\ negotiating = NoConn
        /\ silent = {}

\* What p's end of c is when p has closed it.
Closed(c, p) == IF at[c][p] \in {"status", "host"} THEN "dropped" ELSE "closed"

\* Connection c when p's end becomes e: forgotten when it has no end any more.
Ends(c, p, e) == IF e \in Shut /\ at[c][other(p)] \in Shut
                   THEN Unused ELSE [at[c] EXCEPT ![p] = e]

\* pop_negotiation, when the negotiations of the master in done end: those that
\* wait get the signal.
Signal(p, done, ends) ==
  IF p = Master /\ negotiating \in done
    THEN /\ negotiating' = NoConn
         /\ at' = [c \in Conns |-> IF ends[c][Master] = "queued"
                                     THEN [ends[c] EXCEPT ![Master] = "woken"]
                                     ELSE ends[c]]
    ELSE at' = ends /\ UNCHANGED negotiating

\* p's ends in lost are closed, those in refused after saying already_connected:
\* their hosts are forgotten and their negotiations end.
Close(p, lost, refused) ==
  /\ Signal(p, lost,
            [c \in Conns |-> IF c \in refused THEN Ends(c, p, "rejected")
                             ELSE IF c \in lost THEN Ends(c, p, Closed(c, p))
                             ELSE at[c]])
  /\ hosts' = IF hosts[p] \in lost THEN [hosts EXCEPT ![p] = NoConn] ELSE hosts
  /\ host_new' = [host_new EXCEPT ![p] = @ \ lost]
  /\ serving' = IF serving[p] \in lost THEN [serving EXCEPT ![p] = NoConn] ELSE serving
  /\ silent' = {c \in silent : at'[c] # Unused}

-----------------------------------------------------------------------------
(***************************************************************************)
(* _negotiate.                                                             *)
(***************************************************************************)

\* The other end's passport has come.
HelloReadable(c, p) == c \notin silent /\ at[c][other(p)] \notin {"none", "backlog"}

\* The end may check the table of hosts: it has read the passport of the other, or
\* it is the master's and has waited for another negotiation to end.
MayCheck(c, p) == \/ at[c][p] = "hello" /\ HelloReadable(c, p)
                  \/ at[c][p] = "woken"

\* check_already finds a host. The owner may drop its host in the same step.
Refuse(c, p, with) == /\ MayCheck(c, p)
                      /\ hosts[p] # NoConn
                      /\ Close(p, {c} \union with, {c})

\* The master is already negotiating with this peer: wait.
Queue(c, p) == /\ MayCheck(c, p)
               /\ hosts[p] = NoConn
               /\ p = Master /\ negotiating # NoConn
               /\ at' = [at EXCEPT ![c][p] = "queued"]
               /\ UNCHANGED <<hosts, host_new, serving, negotiating, silent>>

\* Faulty: a negotiation that waited for another does not check the hosts again.
AcceptWoken(c, p) == /\ MayCheck(c, p)
                     /\ hosts[p] = NoConn \/ at[c][p] = "woken"
                     /\ p = Master => negotiating = NoConn
                     /\ at' = [at EXCEPT ![c][p] = "status"]
                     /\ negotiating' = IF p = Master THEN c ELSE negotiating
                     /\ UNCHANGED <<hosts, host_new, serving, silent>>

\* "accept peer": both say succeeded. All passports are valid here.
Accept(c, p) == /\ MayCheck(c, p)
                /\ hosts[p] = NoConn
                /\ p = Master => negotiating = NoConn
                /\ at' = [at EXCEPT ![c][p] = "status"]
                /\ negotiating' = IF p = Master THEN c ELSE negotiating
                /\ UNCHANGED <<hosts, host_new, serving, silent>>

\* What the other end has said last has come: its verdict, or that it is closed.
StatusReadable(c, p) == /\ at[c][p] = "status" /\ c \notin silent
                        /\ at[c][other(p)] \in {"status", "host"} \union Shut

\* The other end said succeeded: the host of an accepted connection is for
\* accept(), the one of a call for the caller.
Succeed(c, p) == /\ StatusReadable(c, p)
                 /\ at[c][other(p)] \in {"status", "host", "dropped"}
                 /\ hosts[p] = NoConn
                 /\ Signal(p, {c}, [at EXCEPT ![c][p] = "host"])
                 /\ hosts' = [hosts EXCEPT ![p] = c]
                 /\ IF caller(c) = p
                      THEN UNCHANGED <<host_new, serving>>
                      ELSE /\ host_new' = [host_new EXCEPT ![p] = @ \union {c}]
                           /\ serving' = [serving EXCEPT ![p] = NoConn]
                 /\ UNCHANGED silent

\* already_connected, a "station conflict", or an error: always possible when the
\* other end is closed, which may lose what it has said.
Fail(c, p, with) == /\ \/ /\ StatusReadable(c, p)
                          /\ at[c][other(p)] \in Shut \/ hosts[p] # NoConn
                       \/ /\ at[c][p] = "hello" /\ HelloReadable(c, p)
                          /\ at[c][other(p)] \in Shut
                    /\ Close(p, {c} \union with, {})

-----------------------------------------------------------------------------
(***************************************************************************)
(* connect, _serve, ~Host.                                                 *)
(***************************************************************************)

\* p calls the other: the sockets are connected before they are accepted.
Call(p, calls) ==
  /\ \A c \in calls : caller(c) = p /\ at[c] = Unused
  /\ at' = [c \in Conns |-> IF c \in calls
                              THEN [Unused EXCEPT ![p] = "hello", ![other(p)] = "backlog"]
                              ELSE at[c]]
  /\ UNCHANGED <<hosts, host_new, serving, negotiating, silent>>

\* One turn of the loop of _serve begins: it negotiates one connection at a time.
Serve(c, p) == /\ serving[p] = NoConn
               /\ at[c][p] = "backlog"
               /\ at' = [at EXCEPT ![c][p] = "hello"]
               /\ serving' = [serving EXCEPT ![p] = c]
               /\ UNCHANGED <<hosts, host_new, negotiating, silent>>

\* accept() returns the new host.
TakeHost(c, p) == /\ c \in host_new[p]
                  /\ host_new' = [host_new EXCEPT ![p] = @ \ {c}]
                  /\ UNCHANGED <<at, hosts, serving, negotiating, silent>>

\* The owner gives calls up, or destroys a host it holds.
Abandon(p, lost) ==
  /\ \A c \in lost : \/ caller(c) = p /\ at[c][p] \in Talking
                     \/ at[c][p] = "host" /\ c \notin host_new[p]
  /\ Close(p, lost, {})

\* From now on nothing passes on c, and neither end is told.
Silence(c) == /\ at[c] # Unused
              /\ \E p \in Peers : at[c][p] \in Talking
              /\ silent' = silent \union {c}
              /\ UNCHANGED <<at, hosts, host_new, serving, negotiating>>

\* What the owner may drop when one of its calls fails: its host.
Held(p) == {c \in Conns : hosts[p] = c /\ c \notin host_new[p]}

Negotiate(c, p) == \/ \E with \in SUBSET Held(p) : Refuse(c, p, with) \/ Fail(c, p, with)
                   \/ Queue(c, p) \/ Accept(c, p) \/ Succeed(c, p)

Next == \/ \E c \in Conns, p \in Peers :
             Negotiate(c, p) \/ Serve(c, p) \/ TakeHost(c, p)
        \/ \E p \in Peers, S \in SUBSET Conns : Call(p, S) \/ Abandon(p, S)
        \/ \E c \in Conns : Silence(c)

Spec == Init /\ [][Next]_vars

-----------------------------------------------------------------------------
(***************************************************************************)
(* Properties.                                                             *)
(***************************************************************************)

TypeOK == /\ at \in [Conns -> [Peers -> Places]]
          /\ hosts \in [Peers -> Conns \union {NoConn}]
          /\ host_new \in [Peers -> SUBSET Conns]
          /\ serving \in [Peers -> Conns \union {NoConn}]
          /\ negotiating \in Conns \union {NoConn}
          /\ silent \subseteq Conns

\* ELLE_ASSERT_NCONTAINS(_hosts, remote): when the master reads the verdict of a
\* connection it has accepted it has no host, whoever called and however many.
MasterFree == \A c \in Conns : at[c][Master] = "status" => hosts[Master] = NoConn

\* When both stations have a host it is the same connection, or the slave's is one
\* the master has dropped.
Agreement == NoConn \notin {hosts[Master], hosts[Slave]} /\ hosts[Master] # hosts[Slave]
               => at[hosts[Slave]][Master] = "dropped"
==============================================================================
