--------------------------- MODULE PeerTransaction ---------------------------
(***************************************************************************)
(* One transaction between the device that sends it and the devices of its *)
(* recipient (gap: TransactionMachine.cc, PeerSendMachine.cc,              *)
(* ReceiveMachine.cc, PeerReceiveMachine.cc, Transaction.cc): the state    *)
(* machine each device runs, what it saves, the requests it makes to meta, *)
(* the notifications it gets and what it asks for when it comes back.      *)
(*                                                                         *)
(* A request to meta is tried until it is answered, so that it may be      *)
(* handled twice; here each is handled in one step (MetaTransaction has    *)
(* what happens when it is not). A device that is not connected to its     *)
(* trophonius server gets no notification and asks meta for what it missed *)
(* when it is again (Presence). The transfer is one step: BlockPipeline    *)
(* and PeerConnection have it.                                             *)
(***************************************************************************)
EXTENDS TransactionStatus, Integers, Sequences, SequencesExt, FiniteSets

CONSTANTS Sender,    \* the device that sends
          Groups,    \* the sets of devices the recipient may have
          NoDevice,
          Faults,    \* what may go wrong: "crash", "cut", "twice", "refill",
                     \* "forget", "overtake", "error", "cancel"
          MaxFaults  \* bound on the number of faults, by number of these devices

Receivers == UNION Groups
Devices == Receivers \union {Sender}

ASSUME PeerAssumption == /\ Sender \notin Receivers
                         /\ NoDevice \notin Devices
                         /\ \A g \in Groups : MaxFaults[Cardinality(g)] \in Nat

VARIABLES doc,      \* what meta has: status, device that accepted, cloud: the files
                    \* are in the cloud
          link,     \* link[d]: "up": connected to trophonius, "joining": again, and
                    \* has not synchronized, "cut": not, "starting", "off",
                    \* "away" for a device that the recipient does not have
          inbox,    \* inbox[d]: the notifications sent to d
          synced,   \* synced[d]: d has synchronized since doc is final
          fsm,      \* fsm[d]: state of the machine, "none" without the transaction,
                    \* "over" when it is over, "idle" if it was never run
          call,     \* call[d]: the request of that state: "no", "sent", or its
                    \* answer: "yes", "refused"
          barriers, \* barriers[d]: those that are open
          data,     \* data[d]: the document d knows
          gap,      \* gap[d]: what the user sees: "running" or a final status
          done,     \* done[r]: r has all the files
          missed,   \* history, missed[d]: an update was lost, overwritten or came
                    \* out of order since d last asked for everything
          refilled, \* history: the transaction was initialized a second time after
                    \* its recipient changed its status
          faults    \* so far

network == <<link, inbox, synced>>
machine == <<fsm, call, barriers, data, gap>>
history == <<missed, refilled>>
vars == <<doc, network, machine, done, history, faults>>

Present == {r \in Receivers : link[r] # "away"}
Budget == MaxFaults[Cardinality(Present)]
Fault(f) == f \in Faults /\ faults < Budget /\ faults' = faults + 1

\* The document as notified: the status and the recipient's device.
Seen == [status |-> doc.status, device |-> doc.device]
Nothing == [status |-> "none", device |-> NoDevice]

Init == /\ doc = [status |-> "none", device |-> NoDevice, cloud |-> FALSE]
        /\ \E g \in Groups :
             link = [d \in Devices |-> IF d \in g \union {Sender} THEN "up" ELSE "away"]
        /\ inbox = [d \in Devices |-> <<>>]
        /\ synced = [d \in Devices |-> FALSE]
        /\ fsm = [d \in Devices |-> IF d = Sender THEN "create" ELSE "none"]
        /\ call = [d \in Devices |-> IF d = Sender THEN "sent" ELSE "no"]
        /\ barriers = [d \in Devices |-> {}]
        /\ data = [d \in Devices |-> Nothing]
        /\ gap = [d \in Devices |-> "running"]
        /\ done = [r \in Receivers |-> FALSE]
        /\ missed = [d \in Devices |-> FALSE]
        /\ refilled = FALSE
        /\ faults = 0

Running(d) == link[d] \in {"up", "cut", "joining"}

\* What a state asks meta for; create and init make the transaction.
asks == [create |-> "created", init |-> "initialized", accept |-> "accepted",
         finish |-> "finished", reject |-> "rejected", cancel |-> "canceled",
         fail |-> "failed"]
Finalizing == {"finish", "reject", "cancel", "fail"}

\* The states whose action shows that the transaction goes on.
Showing == {"init", "wait", "decide", "transfer", "other"}

\* gap_status of a status of meta, and of the last one at the end of the machine.
shown(s) == IF s \in final THEN s ELSE "running"
impossible(s) == s \notin final

\* The machine of d enters f with what it knows of the transaction; _finalize needs
\* an identifier.
Entered(d, f, known) ==
  /\ fsm' = [fsm EXCEPT ![d] = f]
  /\ call' = [call EXCEPT ![d] =
                IF f \in DOMAIN asks /\ (f \in Finalizing => known.status # "none")
                  THEN "sent" ELSE "no"]
  /\ data' = [data EXCEPT ![d] = known]

Enter(d, f, known) ==
  /\ Entered(d, f, known)
  /\ gap' = [gap EXCEPT ![d] = IF f \in Showing THEN "running" ELSE @]

-----------------------------------------------------------------------------
(***************************************************************************)
(* meta.                                                                   *)
(***************************************************************************)

\* notify_some: the devices that are connected.
Notify(devices, new) ==
  LET to == {d \in devices : link[d] \in {"up", "joining", "starting"}}
      m == [status |-> new.status, device |-> new.device]
  IN
  \/ /\ inbox' = [d \in Devices |-> IF d \in to THEN Append(inbox[d], m) ELSE inbox[d]]
     /\ UNCHANGED <<missed, faults>>
  \/ \* The notification of the request before comes after.
     \E d \in to :
       /\ inbox[d] # <<>> /\ Fault("overtake")
       /\ inbox' = [e \in Devices |->
                      IF e = d THEN InsertAt(inbox[e], Len(inbox[e]), m)
                      ELSE IF e \in to THEN Append(inbox[e], m) ELSE inbox[e]]
       /\ missed' = [missed EXCEPT ![d] = TRUE]

\* The answer to a request of d, which may be lost: then it is sent again.
Answer(d, answer) == call' = [call EXCEPT ![d] = answer]

Write(d, new, told) ==
  /\ doc' = new
  /\ synced' = [e \in Devices |-> FALSE]
  /\ Notify(told, new)
  /\ Answer(d, "yes")

Keep == UNCHANGED <<link, fsm, barriers, data, gap, done>>

\* transaction_create: a second one if it is asked twice; nobody sees the first.
Create(d) ==
  /\ call[d] = "sent" /\ fsm[d] = "create"
  /\ doc' = [doc EXCEPT !.status = "created"]
  /\ Answer(d, "yes")
  /\ Keep /\ UNCHANGED <<inbox, synced, history, faults>>

\* transaction_fill: whatever the status is.
Fill(d) ==
  /\ call[d] = "sent" /\ fsm[d] = "init"
  /\ Write(d, [doc EXCEPT !.status = "initialized", !.device = NoDevice], Receivers)
  /\ refilled' = (refilled \/ doc.status \notin {"created", "initialized"})
  /\ Keep

\* The status that d asks for: the sender, in its wait or transfer, that the files
\* are in the cloud.
asked(d) == IF fsm[d] \in {"wait", "transfer"} THEN "cloud_buffered" ELSE asks[fsm[d]]

Permitted(d) == /\ asked(d) \in transitions[doc.status][d = Sender]
                /\ doc.status \notin final

\* The document after a change of status that is permitted.
Changed(d) ==
  CASE asked(d) = "accepted" -> [doc EXCEPT !.status = "accepted", !.device = d]
    [] asked(d) = "cloud_buffered" ->
         [doc EXCEPT !.status = IF @ = "accepted" THEN @ ELSE "cloud_buffered",
                     !.cloud = TRUE]
    [] OTHER -> [doc EXCEPT !.status = asked(d)]

\* _transaction_update.
Update(d) ==
  /\ call[d] = "sent" /\ fsm[d] \notin {"create", "init"}
  /\ \/ /\ doc.status # asked(d) /\ Permitted(d)
        /\ Write(d, Changed(d), Devices)
        /\ UNCHANGED refilled
     \/ /\ doc.status = asked(d) \/ ~Permitted(d)
        /\ Answer(d, IF doc.status = asked(d) THEN "yes" ELSE "refused")
        /\ UNCHANGED <<doc, inbox, synced, history, faults>>
  /\ Keep

\* The client did not get the answer: it asks again.
Retry(d) ==
  /\ Running(d) /\ call[d] \in {"yes", "refused"}
  /\ Fault(IF fsm[d] = "init" THEN "refill" ELSE "twice")
  /\ Answer(d, "sent")
  /\ UNCHANGED <<doc, network, fsm, barriers, data, gap, done, history>>

-----------------------------------------------------------------------------
(***************************************************************************)
(* The machine of a device.                                                *)
(***************************************************************************)

Others == <<doc, network, barriers, done, history>>

\* The answer to the request of a state.
Proceed(d) ==
  LET f == fsm[d]
      to == IF f \in Finalizing THEN [data[d] EXCEPT !.status = asks[f]] ELSE data[d]
  IN
  /\ Running(d) /\ call[d] \in {"yes", "refused"}
  /\ \/ f = "create" /\ Enter(d, "init", [data[d] EXCEPT !.status = "created"])
     \/ \* What a synchronization brought meanwhile is overwritten.
        f = "init" /\ Enter(d, "wait", [data[d] EXCEPT !.status = "initialized"])
     \/ f = "accept" /\ Enter(d, IF call[d] = "yes" THEN "transfer" ELSE "fail", data[d])
     \/ \* _finalize: a refusal is logged.
        f \in Finalizing /\ Enter(d, "end", IF call[d] = "yes" THEN to ELSE data[d])
     \/ \* _cloud_operation, whatever the answer is.
        /\ f \in {"wait", "transfer"}
        /\ Answer(d, "no")
        /\ UNCHANGED <<fsm, data, gap>>
  /\ missed' = [missed EXCEPT ![d] =
                  @ \/ (f = "init" /\ data[d].status \notin {"created", "initialized"})]
  /\ UNCHANGED <<doc, network, barriers, done, refilled, faults>>

\* Faulty: so does a transaction that meta has, when the device is offline.
SkipOffline(d) == /\ Running(d) /\ fsm[d] \in Finalizing
                  /\ call[d] = "no" \/ link[d] = "cut"
                  /\ Enter(d, "end", data[d])
                  /\ UNCHANGED <<Others, faults>>

\* _finalize of a transaction without identifier.
Skip(d) == /\ Running(d) /\ fsm[d] \in Finalizing /\ call[d] = "no"
           /\ Enter(d, "end", data[d])
           /\ UNCHANGED <<Others, faults>>

\* Faulty: a transfer does not end with the failure of the peer.
triggersNotFailed(f, b) ==
  CASE f \in {"create", "init", "wait", "transfer", "other"} /\ b = "finished" -> {"end"}
    [] f \in {"create", "init", "wait", "transfer", "other", "decide", "accept", "reject"}
         /\ b = "canceled" -> {"cancel"}
    [] f = "wait" /\ b = "accepted" -> {"transfer"}
    [] f \in {"other", "wait"} /\ b \in {"failed", "rejected"} -> {"end"}
    [] f = "decide" /\ b = "finished" -> {"finish"}
    [] f = "decide" /\ b = "rejected" -> {"reject"}
    [] f = "decide" /\ b = "elsewhere" -> {"other"}
    [] OTHER -> {}

\* The transitions of f on a barrier, to whatever f has asked.
triggers(f, b) ==
  CASE f \in {"create", "init", "wait", "transfer", "other"} /\ b = "finished" -> {"end"}
    [] f \in {"create", "init", "wait", "transfer", "other"} /\ b = "failed" ->
         IF f = "other" THEN {"fail", "end"} ELSE {"fail"}
    [] f \in {"create", "init", "wait", "transfer", "other", "decide", "accept", "reject"}
         /\ b = "canceled" -> {"cancel"}
    [] f = "wait" /\ b = "accepted" -> {"transfer"}
    [] f = "wait" /\ b = "rejected" -> {"end"}
    [] f = "decide" /\ b = "finished" -> {"finish"}
    [] f = "decide" /\ b = "rejected" -> {"reject"}
    [] f = "decide" /\ b = "elsewhere" -> {"other"}
    [] OTHER -> {}

Trigger(d) ==
  /\ Running(d)
  /\ \E b \in barriers[d] : \E f \in triggers(fsm[d], b) : Enter(d, f, data[d])
  /\ UNCHANGED <<Others, faults>>

\* _end: the status is the last one this device knows.
End(d) == /\ Running(d) /\ fsm[d] = "end"
          /\ Entered(d, "over", data[d])
          /\ gap' = [gap EXCEPT ![d] = IF impossible(data[d].status) THEN "failed"
                                       ELSE data[d].status]
          /\ UNCHANGED <<Others, faults>>

\* The user decides, which opens a barrier of this device.
Decide(r) == /\ Running(r) /\ fsm[r] = "decide"
             /\ \E f \in {"accept", "reject"} : Enter(r, f, data[r])
             /\ UNCHANGED <<Others, faults>>

Cancel(d) == /\ Fault("cancel")
             /\ Running(d) /\ fsm[d] \notin {"none", "over", "idle"}
             /\ barriers' = [barriers EXCEPT ![d] = @ \union {"canceled"}]
             /\ UNCHANGED <<doc, network, fsm, call, data, gap, done, history>>

\* An error that is not of the network: a file, the disk.
Error(d) == /\ Fault("error")
            /\ Running(d) /\ fsm[d] \in {"create", "init", "transfer"}
            /\ Enter(d, "fail", data[d])
            /\ UNCHANGED Others

\* The sender has put the files in the cloud; a barrier that is open stops it.
Upload == /\ Running(Sender) /\ fsm[Sender] \in {"wait", "transfer"}
          /\ \A b \in barriers[Sender] : triggers(fsm[Sender], b) = {}
          /\ call[Sender] = "no" /\ ~doc.cloud /\ data[Sender].status # "cloud_buffered"
          /\ Answer(Sender, "sent")
          /\ UNCHANGED <<doc, network, fsm, barriers, data, gap, done, history, faults>>

\* Faulty: a connection that breaks ends the transfer.
TransferCut(r) == /\ Running(r) /\ fsm[r] = "transfer" /\ call[r] = "no"
                  /\ \/ doc.cloud
                     \/ fsm[Sender] = "transfer" /\ data[Sender].device = r
                  /\ done' = [done EXCEPT ![r] = link[Sender] = "up" \/ doc.cloud]
                  /\ Enter(r, "finish", data[r])
                  /\ UNCHANGED <<doc, network, barriers, history, faults>>

\* The files come from the cloud, or from the sender to the device it knows.
Transfer(r) == /\ Running(r) /\ fsm[r] = "transfer" /\ call[r] = "no"
               /\ \/ doc.cloud
                  \/ /\ link[r] = "up" /\ link[Sender] = "up"
                     /\ fsm[Sender] = "transfer" /\ data[Sender].device = r
               /\ done' = [done EXCEPT ![r] = TRUE]
               /\ Enter(r, "finish", data[r])
               /\ UNCHANGED <<doc, network, barriers, history, faults>>

-----------------------------------------------------------------------------
(***************************************************************************)
(* What a device hears of meta.                                            *)
(***************************************************************************)

concerned(d, m) == d = Sender \/ m.device = d

\* transaction_status_update.
opened(d, m) ==
  CASE m.status \in final -> {m.status}
    [] m.status = "accepted" -> IF d = Sender THEN {"accepted"}
                                ELSE IF m.device # d THEN {"elsewhere"} ELSE {}
    [] OTHER -> {}

\* The first state of a receiver that learns of the transaction.
guess(d, m) ==
  CASE m.status = "accepted" -> IF m.device = d THEN "transfer" ELSE "other"
    [] m.status = "finished" -> "finish"
    [] m.status = "canceled" -> "cancel"
    [] m.status = "failed" -> "fail"
    [] m.status = "rejected" -> "idle"
    [] OTHER -> "decide"

\* A new transaction: the sender has lost what it needs to go on.
Learn(d, m, old) ==
  /\ Entered(d, IF old /\ m.status \in final THEN "over"
                ELSE IF d = Sender THEN "fail" ELSE guess(d, m), m)
  /\ gap' = [gap EXCEPT ![d] = shown(m.status)]
  /\ UNCHANGED barriers

\* on_transaction_update.
Hear(d, m) ==
  LET known == IF data[d].status = "cloud_buffered" /\ m.status = "initialized"
                 THEN [m EXCEPT !.status = "cloud_buffered"] ELSE m
  IN
  /\ data' = [data EXCEPT ![d] = known]
  /\ \/ /\ fsm[d] # "over"
        /\ barriers' = [barriers EXCEPT ![d] = @ \union opened(d, known)]
        /\ gap' = [gap EXCEPT ![d] = IF known.status \in final /\ ~concerned(d, known)
                                       THEN known.status ELSE @]
     \/ /\ fsm[d] = "over"
        /\ gap' = [gap EXCEPT ![d] = shown(m.status)]
        /\ UNCHANGED barriers
  /\ UNCHANGED <<fsm, call>>

\* A notification is handled, unless the transaction is being initialized.
Deliver(d) ==
  /\ link[d] = "up" /\ inbox[d] # <<>>
  /\ ~(fsm[d] = "init" /\ call[d] # "no")
  /\ inbox' = [inbox EXCEPT ![d] = Tail(@)]
  /\ IF fsm[d] = "none" THEN Learn(d, Head(inbox[d]), FALSE)
                        ELSE Hear(d, Head(inbox[d]))
  /\ UNCHANGED <<doc, link, synced, done, history, faults>>

\* Faulty: only what is over since the last time.
ListedFinal == doc.status \in final

\* synchronize: the transactions that run, and the final ones since the last time.
Listed == doc.status \notin {"none", "created"}

Synchronized(d) ==
  /\ link' = [link EXCEPT ![d] = "up"]
  /\ synced' = [synced EXCEPT ![d] = doc.status \in final]

\* Connected again.
Resync(d) ==
  /\ link[d] = "joining"
  /\ Synchronized(d)
  /\ \/ /\ Listed /\ ~synced[d]
        /\ IF fsm[d] = "none" THEN Learn(d, Seen, TRUE) ELSE Hear(d, Seen)
        /\ missed' = [missed EXCEPT ![d] = @ /\ inbox[d] # <<>>]
     \/ /\ ~Listed \/ synced[d]
        /\ UNCHANGED <<machine, missed>>
  /\ UNCHANGED <<doc, inbox, done, refilled, faults>>

\* meta has noted the time and the answer is lost: it is asked again.
Forget(d) ==
  /\ link[d] = "joining" /\ Listed /\ ~synced[d] /\ doc.status \in final
  /\ Fault("forget")
  /\ synced' = [synced EXCEPT ![d] = TRUE]
  /\ missed' = [missed EXCEPT ![d] = TRUE]
  /\ UNCHANGED <<doc, link, inbox, machine, done, refilled>>

\* Started again: from the snapshots, then from meta; the machine runs before or after
\* its barriers are opened.
Restore(d) ==
  /\ link[d] = "starting"
  /\ Synchronized(d)
  /\ missed' = [missed EXCEPT ![d] = @ /\ inbox[d] # <<>>]
  /\ \/ /\ fsm[d] \in {"none", "over"} /\ Listed
        /\ Learn(d, Seen, TRUE)
     \/ /\ fsm[d] \in {"none", "over"} /\ ~Listed
        /\ fsm' = [fsm EXCEPT ![d] = "none"]
        /\ UNCHANGED <<call, data, gap, barriers>>
     \/ LET known == IF data[d].status = "none" THEN data[d] ELSE Seen IN
        /\ fsm[d] \notin {"none", "over"}
        /\ Entered(d, fsm[d], known)
        /\ barriers' = [barriers EXCEPT ![d] = opened(d, known)]
        /\ \/ gap' = [gap EXCEPT ![d] = IF fsm[d] \in Showing THEN "running"
                                        ELSE shown(known.status)]
           \/ /\ ~concerned(d, known)
              /\ gap' = [gap EXCEPT ![d] = shown(known.status)]
  /\ UNCHANGED <<doc, inbox, done, refilled, faults>>

\* The connection to trophonius is lost, with what was on it; the process dies: what
\* it has saved is what it knew.
Cut(d) == /\ Fault("cut")
          /\ link[d] \in {"up", "joining"}
          /\ link' = [link EXCEPT ![d] = "cut"]
          /\ inbox' = [inbox EXCEPT ![d] = <<>>]
          /\ missed' = [missed EXCEPT ![d] = @ \/ (synced[d] /\ inbox[d] # <<>>)]
          /\ UNCHANGED <<doc, synced, machine, done, refilled>>

Crash(d) == /\ Fault("crash")
            /\ link[d] \notin {"off", "away"}
            /\ link' = [link EXCEPT ![d] = "off"]
            /\ inbox' = [inbox EXCEPT ![d] = <<>>]
            /\ barriers' = [barriers EXCEPT ![d] = {}]
            /\ Answer(d, "no")
            /\ UNCHANGED <<doc, synced, fsm, data, gap, done, history>>

Reconnect(d) == /\ link[d] \in {"cut", "off"}
                /\ link' = [link EXCEPT ![d] = IF @ = "cut" THEN "joining" ELSE "starting"]
                /\ UNCHANGED <<doc, inbox, synced, machine, done, history, faults>>

-----------------------------------------------------------------------------
Serve(d) == Create(d) \/ Fill(d) \/ Update(d)
Advance(d) == Proceed(d) \/ Skip(d) \/ Trigger(d) \/ End(d)
Listen(d) == Deliver(d) \/ Resync(d) \/ Restore(d) \/ Reconnect(d)

Next == \/ \E d \in Devices : \/ Serve(d) \/ Advance(d) \/ Listen(d) \/ Retry(d)
                              \/ Cancel(d) \/ Error(d) \/ Forget(d) \/ Cut(d) \/ Crash(d)
        \/ \E r \in Receivers : Decide(r) \/ Transfer(r)
        \/ Upload

\* Requests are tried until they are answered, machines run, clients come back and
\* transfers go on; the user need not decide.
Fairness == /\ \A d \in Devices : WF_vars(Serve(d) \/ Advance(d)) /\ WF_vars(Listen(d))
            /\ \A r \in Receivers : WF_vars(Transfer(r))

Spec == Init /\ [][Next]_vars /\ Fairness

-----------------------------------------------------------------------------
(***************************************************************************)
(* Properties.                                                             *)
(***************************************************************************)

Document == [status : Statuses \union {"none"}, device : Devices \union {NoDevice}]

\* The documents, the states of the machines, their requests and barriers have the
\* values the code gives them: only a device of the recipient ever accepts, and a
\* receiver is never in a state of the sender.
TypeOK ==
  /\ doc \in [status : Statuses \union {"none"}, device : Receivers \union {NoDevice},
              cloud : BOOLEAN]
  /\ link \in [Devices -> {"up", "joining", "cut", "starting", "off", "away"}]
  /\ inbox \in [Devices -> Seq(Document)]
  /\ synced \in [Devices -> BOOLEAN]
  /\ fsm \in [Devices -> DOMAIN asks \union Showing \union {"none", "idle", "end", "over"}]
  /\ call \in [Devices -> {"no", "sent", "yes", "refused"}]
  /\ barriers \in [Devices -> SUBSET (final \union {"accepted", "elsewhere"})]
  /\ data \in [Devices -> Document]
  /\ gap \in [Devices -> final \union {"running"}]
  /\ done \in [Receivers -> BOOLEAN]
  /\ missed \in [Devices -> BOOLEAN]
  /\ refilled \in BOOLEAN
  /\ faults \in 0..Budget
  /\ \A r \in Receivers : fsm[r] \notin {"create", "init", "wait"}

\* Safety: what a device that is over shows, once it has heard everything, is how the
\* transaction ended.
Agree ==
  \A d \in Devices :
    /\ fsm[d] \in {"over", "idle"} /\ link[d] = "up" /\ inbox[d] = <<>>
    /\ doc.status \in final /\ ~missed[d] /\ ~refilled
    => gap[d] = doc.status

\* Safety: a transaction is finished when a device has all its files.
Delivered == doc.status = "finished" => \E r \in Receivers : done[r]

\* Safety: neither the sender nor the device that accepted is over with a transaction,
\* and has removed its snapshots, before meta is.
NeverForgotten ==
  /\ TypeOK
  /\ \A d \in Devices :
       /\ fsm[d] = "over" /\ d \in {Sender, doc.device} /\ ~refilled
       => doc.status \in final \union {"none", "created"}

\* Safety: a device that is over with a transaction is right about its end.
OverRightly == NeverForgotten /\ Agree

\* Liveness: a transaction that is accepted comes to an end, whoever crashes or leaves.
Completes == doc.status = "accepted" ~> (doc.status \in final \/ refilled)

\* Liveness: every device comes to the end of a transaction that has ended, but one
\* that missed it, and one whose user had not decided when it failed.
Converged(d) == \/ doc.status \notin final \/ refilled \/ missed[d]
                \/ fsm[d] \in {"none", "over", "idle"}
                \/ fsm[d] = "decide" /\ doc.status = "failed"
Converges == <>[](\A d \in Devices : Converged(d))
=============================================================================
