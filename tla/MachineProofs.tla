---------------------------- MODULE MachineProofs ----------------------------
(***************************************************************************)
(* How the devices end a transaction: those that are over with it are      *)
(* right, and it is finished when a device has its files, for any devices  *)
(* and faults.                                                             *)
(***************************************************************************)
EXTENDS PeerTransaction, SequenceTheorems, TLAPS

States == {"create", "init", "accept", "finish", "reject", "cancel", "fail", "wait",
           "decide", "transfer", "other", "none", "idle", "end", "over"}
Links == {"up", "joining", "cut", "starting", "off", "away"}
Answers == {"no", "sent", "yes", "refused"}
Barriers == final \union {"accepted", "elsewhere"}

Early == doc.status \in {"none", "created"}
Ended == doc.status \in final

\* The states of the sender, and of a receiver.
Fits(d, f) == IF d = Sender
                THEN f \notin {"decide", "accept", "reject", "finish", "other", "idle"}
                ELSE f \notin {"create", "init", "wait"}

\* A notification of an end tells the one that meta has.
Sayable == {m \in Document : /\ m.status \notin {"none", "created"}
                             /\ m.status \in final => m.status = doc.status}
Told(d) == inbox[d] \in Seq(Sayable)

\* So does what a device knows.
Knows(d) ==
  /\ data[d].status \in final => data[d].status = doc.status
  /\ data[d].status # "none" => doc.status # "none"
  /\ data[d].status = "none" =>
       IF d = Sender THEN Early /\ fsm[d] \in {"create", "cancel", "fail", "end", "over", "none"}
                     ELSE fsm[d] = "none"

\* And its barriers.
Opens(d) == \A b \in {"finished", "failed", "rejected"} : b \in barriers[d] => doc.status = b

\* The states that have a request.
Asking(d) == call[d] # "no" => fsm[d] \in DOMAIN asks \union {"wait", "transfer"}

\* The answers: only meta refuses the end that its sender or its recipient asks for,
\* because it has one.
Calls(d) ==
  /\ fsm[d] = "create" => /\ call[d] # "refused"
                          /\ call[d] = "yes" => doc.status = "created"
  /\ fsm[d] \in Finalizing =>
       /\ call[d] # "no" => data[d].status # "none"
       /\ call[d] = "yes" => doc.status = asks[fsm[d]]
       /\ call[d] = "refused" /\ d \in {Sender, doc.device} => Ended
       /\ call[d] = "no" /\ Running(d) => data[d].status = "none"

\* Where a machine is, from what meta has.
Stage(d) ==
  /\ fsm[d] = "create" => Early
  /\ Early => inbox[d] = <<>> /\ (d # Sender => fsm[d] = "none")
  /\ d = Sender /\ fsm[d] \in {"end", "over"} => Ended \/ Early
  /\ d = doc.device => Ended \/ fsm[d] \in {"accept", "transfer", "finish", "cancel", "fail"}
  /\ fsm[d] = "idle" => doc.status = "rejected" /\ gap[d] = "rejected"

Heard(d) == fsm[d] = "none" \/ /\ data[d].status = doc.status
                               /\ fsm[d] = "over" => gap[d] = doc.status

\* A device that misses nothing has heard of the end, or has it to hear.
Latest(d) ==
  Ended /\ ~missed[d] =>
    /\ inbox[d] # <<>> => inbox[d][Len(inbox[d])].status = doc.status
    /\ link[d] = "up" \/ (link[d] \in {"cut", "joining"} /\ synced[d])
         => inbox[d] # <<>> \/ Heard(d)

Silent(d) == link[d] \notin {"up", "joining", "starting"} => inbox[d] = <<>>

Mine(d) ==
  /\ Fits(d, fsm[d])
  /\ Silent(d)
  /\ Asking(d)
  /\ ~refilled => /\ Told(d) /\ Knows(d) /\ Opens(d)
                  /\ Calls(d) /\ Stage(d) /\ Latest(d)

\* The device that accepted.
Documented ==
  /\ doc.status # "ghost_uploaded"
  /\ doc.device = NoDevice \/ doc.status \in final \union {"accepted"}
  /\ doc.status = "accepted" => doc.device # NoDevice

\* Nobody says that a transaction is finished before a device has its files.
Unfinished(d) == /\ fsm[d] # "finish"
                 /\ "finished" \notin barriers[d]
                 /\ data[d].status # "finished"
                 /\ inbox[d] \in Seq({m \in Document : m.status # "finished"})

Undelivered == \/ \E r \in Receivers : done[r]
               \/ doc.status # "finished" /\ \A d \in Devices : Unfinished(d)

IInv == /\ TypeOK
        /\ Present \in Groups
        /\ ~refilled => Documented
        /\ \A d \in Devices : Mine(d)
        /\ Undelivered

-----------------------------------------------------------------------------
(***************************************************************************)
(* The constants, the documents and the requests.                          *)
(***************************************************************************)
LEMMA Constants ==
  /\ Sender \in Devices /\ Sender \notin Receivers /\ NoDevice \notin Devices
  /\ \A d \in Devices : d # Sender => d \in Receivers
  /\ \A r \in Receivers : r \in Devices /\ r # Sender
  /\ \A g \in Groups : MaxFaults[Cardinality(g)] \in Nat /\ g \subseteq Receivers
BY PeerAssumption DEF Devices, Receivers

\* What a state asks for.
LEMMA Asks ==
  /\ DOMAIN asks = {"create", "init", "accept", "finish", "reject", "cancel", "fail"}
  /\ asks["create"] = "created" /\ asks["init"] = "initialized"
  /\ asks["accept"] = "accepted" /\ asks["finish"] = "finished"
  /\ asks["reject"] = "rejected" /\ asks["cancel"] = "canceled"
  /\ asks["fail"] = "failed"
BY DEF asks

LEMMA AsksTyped ==
  /\ \A f \in DOMAIN asks : asks[f] \in Statuses
  /\ \A f \in Finalizing : f \in DOMAIN asks /\ asks[f] \in final
  /\ final \subseteq Statuses
BY Asks DEF Finalizing, final, Statuses

\* The variables, each in its set.
LEMMA Typed ==
  TypeOK <=>
    /\ doc \in [status : Statuses \union {"none"}, device : Receivers \union {NoDevice},
                cloud : BOOLEAN]
    /\ link \in [Devices -> Links]
    /\ inbox \in [Devices -> Seq(Document)]
    /\ synced \in [Devices -> BOOLEAN]
    /\ fsm \in [Devices -> States]
    /\ call \in [Devices -> Answers]
    /\ barriers \in [Devices -> SUBSET Barriers]
    /\ data \in [Devices -> Document]
    /\ gap \in [Devices -> final \union {"running"}]
    /\ done \in [Receivers -> BOOLEAN]
    /\ missed \in [Devices -> BOOLEAN]
    /\ refilled \in BOOLEAN
    /\ faults \in 0..Budget
    /\ \A r \in Receivers : fsm[r] \notin {"create", "init", "wait"}
<1>1. DOMAIN asks \union Showing \union {"none", "idle", "end", "over"} = States
  BY Asks DEF Showing, States
<1> QED
  BY <1>1, Zenon DEF TypeOK, Links, Answers, Barriers

LEMMA TypedNext ==
  ASSUME doc' \in [status : Statuses \union {"none"}, device : Receivers \union {NoDevice},
                   cloud : BOOLEAN],
         link' \in [Devices -> Links],
         inbox' \in [Devices -> Seq(Document)],
         synced' \in [Devices -> BOOLEAN],
         fsm' \in [Devices -> States],
         call' \in [Devices -> Answers],
         barriers' \in [Devices -> SUBSET Barriers],
         data' \in [Devices -> Document],
         gap' \in [Devices -> final \union {"running"}],
         done' \in [Receivers -> BOOLEAN],
         missed' \in [Devices -> BOOLEAN],
         refilled' \in BOOLEAN,
         faults' \in 0..Budget',
         \A r \in Receivers : fsm'[r] \notin {"create", "init", "wait"}
  PROVE  TypeOK'
<1>1. DOMAIN asks \union Showing \union {"none", "idle", "end", "over"} = States
  BY Asks DEF Showing, States
<1> QED
  BY <1>1, Zenon DEF TypeOK, Links, Answers, Barriers

LEMMA DocumentTyped ==
  ASSUME TypeOK
  PROVE  /\ doc.status \in Statuses \union {"none"}
         /\ doc.device \in Receivers \union {NoDevice}
         /\ Seen \in Document /\ Seen.status = doc.status /\ Seen.device = doc.device
         /\ \A s \in Statuses, m \in Document :
              /\ [m EXCEPT !.status = s] \in Document
              /\ [m EXCEPT !.status = s].status = s
BY Typed, Constants DEF Seen, Document

\* meta allows the end that the sender, or the device that accepted, asks for.
LEMMA EndAllowed ==
  /\ \A s \in Statuses \ (final \union {"ghost_uploaded"}), f \in {"cancel", "fail"} :
        asks[f] \in transitions[s][TRUE]
  /\ \A f \in {"finish", "cancel", "fail"} : asks[f] \in transitions["accepted"][FALSE]
  /\ "cloud_buffered" \notin transitions["initialized"][FALSE]
  /\ "accepted" \notin transitions["created"][FALSE]
<1>1. /\ transitions["created"][TRUE] = {"initialized", "canceled", "failed"}
      /\ transitions["created"][FALSE] = {"canceled"}
  BY DEF transitions, Statuses
<1>2. /\ transitions["initialized"][TRUE] = {"canceled", "failed", "finished",
                                              "ghost_uploaded", "cloud_buffered"}
      /\ transitions["initialized"][FALSE] = {"accepted", "rejected", "canceled", "failed"}
  BY DEF transitions, Statuses
<1>3. transitions["cloud_buffered"][TRUE] = {"canceled", "failed"}
  BY DEF transitions, Statuses
<1>4. /\ transitions["accepted"][TRUE] = {"cloud_buffered", "canceled", "failed"}
      /\ transitions["accepted"][FALSE] = {"accepted", "finished", "canceled", "failed"}
  BY DEF transitions, Statuses
<1>5. ASSUME NEW s \in Statuses \ (final \union {"ghost_uploaded"})
      PROVE  s \in {"created", "initialized", "cloud_buffered", "accepted"}
  BY DEF Statuses, final
<1>6. ASSUME NEW s \in Statuses \ (final \union {"ghost_uploaded"}), NEW f \in {"cancel", "fail"}
      PROVE  asks[f] \in transitions[s][TRUE]
  <2>1. asks[f] \in {"canceled", "failed"}
    BY Asks
  <2> QED
    BY <1>1, <1>2, <1>3, <1>4, <1>5, <2>1
<1>7. ASSUME NEW f \in {"finish", "cancel", "fail"}
      PROVE  asks[f] \in transitions["accepted"][FALSE]
  BY <1>4, Asks
<1> QED
  BY <1>1, <1>2, <1>6, <1>7

\* Notifications of one set are, one more or one less, of the set.
LEMMA Inboxes ==
  ASSUME NEW S, NEW s \in Seq(S), NEW x \in S
  PROVE  /\ Append(s, x) \in Seq(S) /\ Append(s, x) # <<>>
         /\ Append(s, x)[Len(Append(s, x))] = x
         /\ s # <<>> => /\ InsertAt(s, Len(s), x) \in Seq(S)
                        /\ Head(s) \in S /\ Tail(s) \in Seq(S)
                        /\ Tail(s) = <<>> => Head(s) = s[Len(s)]
                        /\ Tail(s) # <<>> => Tail(s)[Len(Tail(s))] = s[Len(s)]
<1>1. /\ Append(s, x) \in Seq(S) /\ Len(Append(s, x)) = Len(s) + 1
      /\ Append(s, x)[Len(s) + 1] = x
  BY AppendProperties
<1>2. Append(s, x) # <<>>
  BY <1>1, EmptySeq, LenProperties
<1>3. ASSUME s # <<>> PROVE InsertAt(s, Len(s), x) \in Seq(S)
  <2>1. Len(s) \in Nat /\ Len(s) > 0
    BY <1>3, EmptySeq, LenProperties
  <2>2. SubSeq(s, 1, Len(s) - 1) \in Seq(S) /\ SubSeq(s, Len(s), Len(s)) \in Seq(S)
    <3>1. \A i \in 1..Len(s) : s[i] \in S
      BY ElementOfSeq
    <3>2. \A i \in 1..(Len(s) - 1) : s[i] \in S
      BY <3>1, <2>1
    <3>3. \A i \in Len(s)..Len(s) : s[i] \in S
      BY <3>1, <2>1
    <3> QED
      BY <3>2, <3>3, <2>1, SubSeqProperties
  <2>3. <<x>> \in Seq(S)
    OBVIOUS
  <2>4. SubSeq(s, 1, Len(s) - 1) \o <<x>> \in Seq(S)
    BY <2>2, <2>3, ConcatProperties
  <2> QED
    BY <2>2, <2>4, ConcatProperties DEF InsertAt
<1>4. ASSUME s # <<>>
      PROVE  /\ Head(s) \in S /\ Tail(s) \in Seq(S)
             /\ Tail(s) = <<>> => Head(s) = s[Len(s)]
             /\ Tail(s) # <<>> => Tail(s)[Len(Tail(s))] = s[Len(s)]
  <2>1. Len(s) \in Nat /\ Len(s) > 0
    BY <1>4, EmptySeq, LenProperties
  <2>2. /\ Tail(s) \in Seq(S) /\ Len(Tail(s)) = Len(s) - 1
        /\ \A i \in 1..Len(Tail(s)) : Tail(s)[i] = s[i + 1]
        /\ Head(s) \in S /\ Head(s) = s[1]
    BY <1>4, HeadTailProperties, <2>1, ElementOfSeq
  <2>3. Tail(s) = <<>> <=> Len(Tail(s)) = 0
    BY <2>2, EmptySeq, LenProperties
  <2> QED
    BY <2>1, <2>2, <2>3
<1> QED
  BY <1>1, <1>2, <1>3, <1>4

LEMMA Widened ==
  ASSUME NEW S, NEW T, S \subseteq T, NEW s \in Seq(S)
  PROVE  s \in Seq(T)
<1>1. \A i \in 1..Len(s) : s[i] \in T
  BY ElementOfSeq
<1> QED
  BY <1>1, SeqDef, LenProperties

LEMMA EmptyIn == \A S : <<>> \in Seq(S)
BY EmptySeq

\* The bound on the faults.
LEMMA Bounded ==
  ASSUME TypeOK, Present \in Groups, Present' = Present,
         faults' = faults \/ \E f \in Faults \union {"twice", "refill"} : Fault(f)
  PROVE  faults' \in 0..Budget'
<1>1. Budget' = Budget
  BY DEF Budget
<1>2. Budget \in Nat
  BY Constants DEF Budget
<1>3. faults \in 0..Budget
  BY Typed
<1>4. faults' = faults \/ (faults < Budget /\ faults' = faults + 1)
  BY DEF Fault
<1> QED
  BY <1>1, <1>2, <1>3, <1>4

-----------------------------------------------------------------------------
(***************************************************************************)
(* The start, and the steps of one device.                                 *)
(***************************************************************************)
LEMMA Initial == Init => IInv
<1> SUFFICES ASSUME Init PROVE IInv
  OBVIOUS
<1>1. Present \in Groups /\ faults \in 0..Budget
  <2>1. PICK g \in Groups :
          link = [d \in Devices |-> IF d \in g \union {Sender} THEN "up" ELSE "away"]
    BY DEF Init
  <2>2. \A r \in Receivers : link[r] # "away" <=> r \in g
    BY <2>1, Constants
  <2>3. Present = g
    BY <2>2, Constants DEF Present
  <2>4. Budget \in Nat
    BY <2>3, Constants DEF Budget
  <2> QED
    BY <2>3, <2>4 DEF Init
<1>2. TypeOK
  <2>1. link \in [Devices -> Links]
    BY DEF Init, Links
  <2>2. inbox \in [Devices -> Seq(Document)]
    BY EmptyIn DEF Init
  <2>3. data \in [Devices -> Document]
    BY DEF Init, Nothing, Document
  <2>4. doc \in [status : Statuses \union {"none"}, device : Receivers \union {NoDevice},
                 cloud : BOOLEAN]
    BY DEF Init
  <2>5. fsm \in [Devices -> States] /\ call \in [Devices -> Answers]
    BY DEF Init, States, Answers
  <2>6. \A r \in Receivers : fsm[r] = "none"
    BY Constants DEF Init
  <2> QED
    BY <1>1, <2>1, <2>2, <2>3, <2>4, <2>5, <2>6, Typed DEF Init
<1>3. ASSUME NEW d \in Devices PROVE Mine(d) /\ Unfinished(d)
  <2>1. /\ fsm[d] = IF d = Sender THEN "create" ELSE "none"
        /\ call[d] = IF d = Sender THEN "sent" ELSE "no"
        /\ inbox[d] = <<>> /\ barriers[d] = {} /\ data[d] = Nothing
    BY DEF Init
  <2>2. doc.status = "none" /\ doc.device = NoDevice
    BY DEF Init
  <2>3. Fits(d, fsm[d]) /\ Silent(d)
    BY <2>1 DEF Fits, Silent
  <2>4. Told(d) /\ Unfinished(d)
    BY <2>1, EmptyIn DEF Told, Unfinished, Nothing
  <2>5. Knows(d) /\ Opens(d)
    BY <2>1, <2>2 DEF Knows, Opens, Nothing, Early, final
  <2>6. Asking(d) /\ Calls(d)
    BY <2>1, <2>2, Asks DEF Asking, Calls, Finalizing
  <2>7. Stage(d) /\ Latest(d)
    BY <2>1, <2>2, Constants DEF Stage, Latest, Early, Ended, final
  <2> QED
    BY <2>3, <2>4, <2>5, <2>6, <2>7 DEF Mine
<1>4. doc.status = "none" /\ doc.device = NoDevice
  BY DEF Init
<1> QED
  BY <1>1, <1>2, <1>3, <1>4 DEF IInv, Documented, Undelivered

\* A step that is only about d.
Alone(d) ==
  /\ doc' = doc /\ refilled' = refilled
  /\ \A e \in Devices \ {d} :
       /\ link'[e] = link[e] /\ inbox'[e] = inbox[e] /\ synced'[e] = synced[e]
       /\ fsm'[e] = fsm[e] /\ call'[e] = call[e] /\ barriers'[e] = barriers[e]
       /\ data'[e] = data[e] /\ gap'[e] = gap[e] /\ missed'[e] = missed[e]

LEMMA OthersKeep ==
  ASSUME NEW d \in Devices, Alone(d), NEW e \in Devices, e # d
  PROVE  (Mine(e) => Mine(e)') /\ (Unfinished(e) => Unfinished(e)')
<1>1. /\ doc' = doc /\ refilled' = refilled
      /\ link'[e] = link[e] /\ inbox'[e] = inbox[e] /\ synced'[e] = synced[e]
      /\ fsm'[e] = fsm[e] /\ call'[e] = call[e] /\ barriers'[e] = barriers[e]
      /\ data'[e] = data[e] /\ gap'[e] = gap[e] /\ missed'[e] = missed[e]
  BY DEF Alone
<1>2. (Fits(e, fsm[e]) => Fits(e, fsm[e])') /\ (Silent(e) => Silent(e)')
  BY <1>1 DEF Fits, Silent
<1>3. (Told(e) => Told(e)') /\ (Unfinished(e) => Unfinished(e)')
  <2>1. Sayable' = Sayable
    BY <1>1 DEF Sayable
  <2> QED
    BY <1>1, <2>1 DEF Told, Unfinished
<1>4. (Early' = Early) /\ (Ended' = Ended)
  BY <1>1 DEF Early, Ended
<1>5. (Knows(e) => Knows(e)') /\ (Opens(e) => Opens(e)')
  BY <1>1, <1>4 DEF Knows, Opens
<1>6. (Asking(e) => Asking(e)') /\ (Calls(e) => Calls(e)')
  BY <1>1, <1>4 DEF Asking, Calls, Running
<1>7. Stage(e) => Stage(e)'
  BY <1>1, <1>4 DEF Stage
<1>8. Latest(e) => Latest(e)'
  <2>1. Heard(e)' = Heard(e)
    BY <1>1 DEF Heard
  <2> QED
    BY <1>1, <1>4, <2>1 DEF Latest
<1> QED
  BY <1>1, <1>2, <1>3, <1>5, <1>6, <1>7, <1>8 DEF Mine

LEMMA AloneSafe ==
  ASSUME IInv, NEW d \in Devices, Alone(d), TypeOK', Present' = Present, Mine(d)',
         \/ \E r \in Receivers : done'[r]
         \/ done' = done /\ (doc.status # "finished" /\ Unfinished(d) => Unfinished(d)')
  PROVE  IInv'
<1>1. \A e \in Devices : Mine(e)'
  BY OthersKeep DEF IInv
<1>2. (~refilled => Documented)'
  BY DEF IInv, Documented, Alone
<1>3. Undelivered'
  <2>1. CASE \E r \in Receivers : done'[r]
    BY <2>1 DEF Undelivered
  <2>2. CASE /\ done' = done /\ ~ \E r \in Receivers : done'[r]
             /\ doc.status # "finished" /\ Unfinished(d) => Unfinished(d)'
    <3>1. doc.status # "finished" /\ \A e \in Devices : Unfinished(e)
      BY <2>2 DEF IInv, Undelivered
    <3>2. \A e \in Devices : Unfinished(e)'
      BY <2>2, <3>1, OthersKeep
    <3>3. doc' = doc
      BY DEF Alone
    <3> QED
      BY <3>1, <3>2, <3>3 DEF Undelivered
  <2> QED
    BY <2>1, <2>2
<1> QED
  BY <1>1, <1>2, <1>3 DEF IInv

-----------------------------------------------------------------------------
(***************************************************************************)
(* meta answers.                                                           *)
(***************************************************************************)
\* What a notification does to the inboxes.
LEMMA Notified ==
  ASSUME TypeOK, Present \in Groups, Present' = Present,
         NEW devices \in SUBSET Devices,
         NEW new \in [status : Statuses, device : Receivers \union {NoDevice}, cloud : BOOLEAN],
         Notify(devices, new),
         NEW m, m = [status |-> new.status, device |-> new.device]
  PROVE  /\ inbox' \in [Devices -> Seq(Document)] /\ missed' \in [Devices -> BOOLEAN]
         /\ faults' \in 0..Budget'
         /\ m \in Document
         /\ \A S : m \in S => \A d \in Devices : inbox[d] \in Seq(S) => inbox'[d] \in Seq(S)
         /\ \A d \in Devices : ~missed'[d] => ~missed[d]
         /\ \A d \in Devices :
              link[d] \notin {"up", "joining", "starting"} => inbox'[d] = inbox[d]
         /\ \A d \in devices :
              link[d] \in {"up", "joining", "starting"} /\ ~missed'[d]
                => inbox'[d] = Append(inbox[d], m)
<1> DEFINE to == {d \in devices : link[d] \in {"up", "joining", "starting"}}
<1> HIDE DEF to
<1>1. \A d \in to : d \in Devices /\ link[d] \in {"up", "joining", "starting"}
  BY DEF to
<1>2. /\ inbox \in [Devices -> Seq(Document)] /\ missed \in [Devices -> BOOLEAN]
      /\ m \in Document
  BY Typed, Constants DEF Document
<1>3. CASE /\ inbox' = [d \in Devices |-> IF d \in to THEN Append(inbox[d], m) ELSE inbox[d]]
           /\ UNCHANGED <<missed, faults>>
  <2>1. \A d \in Devices : inbox'[d] = IF d \in to THEN Append(inbox[d], m) ELSE inbox[d]
    BY <1>3
  <2>2. ASSUME NEW S, m \in S, NEW d \in Devices, inbox[d] \in Seq(S)
        PROVE  inbox'[d] \in Seq(S)
    <3>1. Append(inbox[d], m) \in Seq(S)
      BY <2>2, Inboxes
    <3> QED
      BY <2>1, <2>2, <3>1
  <2>3. inbox' \in [Devices -> Seq(Document)]
    <3>1. \A d \in Devices : inbox'[d] \in Seq(Document)
      BY <2>2, <1>2
    <3> QED
      BY <3>1, <1>3
  <2>4. faults' \in 0..Budget'
    BY <1>3, Bounded
  <2> QED
    BY <1>1, <1>2, <1>3, <2>1, <2>2, <2>3, <2>4 DEF to
<1>4. CASE \E d \in to :
             /\ inbox[d] # <<>> /\ Fault("overtake")
             /\ inbox' = [e \in Devices |->
                            IF e = d THEN InsertAt(inbox[e], Len(inbox[e]), m)
                            ELSE IF e \in to THEN Append(inbox[e], m) ELSE inbox[e]]
             /\ missed' = [missed EXCEPT ![d] = TRUE]
  <2>1. PICK d \in to :
          /\ inbox[d] # <<>> /\ Fault("overtake")
          /\ inbox' = [e \in Devices |->
                         IF e = d THEN InsertAt(inbox[e], Len(inbox[e]), m)
                         ELSE IF e \in to THEN Append(inbox[e], m) ELSE inbox[e]]
          /\ missed' = [missed EXCEPT ![d] = TRUE]
    BY <1>4
  <2>2. \A e \in Devices : inbox'[e] = IF e = d THEN InsertAt(inbox[e], Len(inbox[e]), m)
                                       ELSE IF e \in to THEN Append(inbox[e], m) ELSE inbox[e]
    BY <2>1
  <2>3. ASSUME NEW S, m \in S, NEW e \in Devices, inbox[e] \in Seq(S)
        PROVE  inbox'[e] \in Seq(S)
    <3>1. /\ Append(inbox[e], m) \in Seq(S)
          /\ inbox[e] # <<>> => InsertAt(inbox[e], Len(inbox[e]), m) \in Seq(S)
      BY <2>3, Inboxes
    <3> QED
      BY <2>1, <2>2, <2>3, <3>1
  <2>4. inbox' \in [Devices -> Seq(Document)]
    <3>1. \A e \in Devices : inbox'[e] \in Seq(Document)
      BY <2>3, <1>2
    <3> QED
      BY <3>1, <2>1
  <2>5. faults' \in 0..Budget'
    <3>1. "overtake" \in Faults
      BY <2>1 DEF Fault
    <3> QED
      BY <2>1, <3>1, Bounded
  <2>6. \A e \in Devices : missed'[e] = IF e = d THEN TRUE ELSE missed[e]
    BY <2>1, <1>2
  <2>7. missed' \in [Devices -> BOOLEAN]
    BY <2>1, <1>2
  <2> QED
    BY <1>1, <1>2, <2>1, <2>2, <2>3, <2>4, <2>5, <2>6, <2>7 DEF to
<1> QED
  BY <1>3, <1>4 DEF Notify, to

\* An answer to d changes only its call.
LEMMA Answered ==
  ASSUME TypeOK, NEW d \in Devices, NEW a \in Answers, Answer(d, a)
  PROVE  /\ call' \in [Devices -> Answers] /\ call'[d] = a
         /\ \A e \in Devices : e # d => call'[e] = call[e]
BY Typed DEF Answer

LEMMA CreateSafe ==
  ASSUME IInv, NEW d \in Devices, Create(d)
  PROVE  IInv'
<1>1. /\ call[d] = "sent" /\ fsm[d] = "create"
      /\ doc' = [doc EXCEPT !.status = "created"]
      /\ Answer(d, "yes")
      /\ UNCHANGED <<link, fsm, barriers, data, gap, done, inbox, synced, missed, refilled, faults>>
  BY DEF Create, Keep, history
<1>2. d = Sender
  BY <1>1, Constants DEF IInv, Mine, Fits
<1>3. /\ call' \in [Devices -> Answers] /\ call'[d] = "yes"
      /\ \A e \in Devices : e # d => call'[e] = call[e]
  <2>1. TypeOK /\ "yes" \in Answers
    BY DEF IInv, Answers
  <2> QED
    BY <1>1, <2>1, Answered
<1>4. doc'.status = "created" /\ doc'.device = doc.device
  BY <1>1, Typed DEF IInv
<1>5. Present' = Present
  BY <1>1 DEF Present
<1>6. TypeOK'
  <2>1. doc' \in [status : Statuses \union {"none"}, device : Receivers \union {NoDevice},
                  cloud : BOOLEAN]
    BY <1>1, Typed DEF IInv, Statuses
  <2>2. faults' \in 0..Budget'
    BY <1>1, <1>5, Bounded DEF IInv
  <2> QED
    BY <1>1, <1>3, <2>1, <2>2, Typed, TypedNext DEF IInv
<1>7. ASSUME ~refilled PROVE Early /\ doc.device = NoDevice
  <2>1. Early
    BY <1>1, <1>7 DEF IInv, Mine, Stage
  <2> QED
    BY <1>7, <2>1 DEF IInv, Documented, Early, final
<1>8. ASSUME NEW e \in Devices PROVE Mine(e)'
  <2>1. Fits(e, fsm[e])' /\ Silent(e)' /\ Asking(e)'
    <3>1. fsm[d] \in DOMAIN asks
      BY <1>1, Asks
    <3> QED
      BY <1>1, <1>3, <3>1 DEF IInv, Mine, Fits, Silent, Asking
  <2>2. ASSUME ~refilled PROVE (Told(e) /\ Knows(e) /\ Opens(e) /\ Calls(e) /\ Stage(e) /\ Latest(e))'
    <3>1. /\ Told(e) /\ Knows(e) /\ Opens(e) /\ Calls(e) /\ Stage(e) /\ Latest(e)
          /\ Asking(e)
      BY <2>2 DEF IInv, Mine
    <3>2. Early /\ Early' /\ ~Ended /\ ~Ended' /\ inbox[e] = <<>>
      BY <1>4, <1>7, <2>2, <3>1 DEF Early, Ended, final, Stage
    <3>3. Told(e)'
      BY <1>1, <3>2, EmptyIn DEF Told
    <3>4. Knows(e)'
      BY <1>1, <1>4, <3>1, <3>2 DEF Knows, Ended
    <3>5. Opens(e)'
      BY <1>1, <1>4, <3>1, <3>2 DEF Opens, Early
    <3>6. Calls(e)'
      <4>1. CASE e = d
        BY <1>1, <1>3, <1>4, <4>1, Asks DEF Calls, Finalizing
      <4>2. CASE e # d
        <5>1. fsm[e] = "none" /\ call[e] = "no"
          BY <1>2, <3>1, <3>2, <4>2, Asks, Typed DEF Stage, Asking, IInv
        <5> QED
          BY <1>1, <1>3, <4>2, <5>1 DEF Calls, Finalizing
      <4> QED
        BY <4>1, <4>2
    <3>7. Stage(e)'
      <4>1. fsm[e] # "idle" /\ e # doc.device
        BY <1>7, <2>2, <3>1, <3>2, Constants DEF Stage, Early
      <4> QED
        BY <1>1, <1>4, <3>1, <3>2, <4>1 DEF Stage
    <3>8. Latest(e)'
      BY <3>2 DEF Latest
    <3> QED
      BY <3>3, <3>4, <3>5, <3>6, <3>7, <3>8
  <2> QED
    BY <1>1, <2>1, <2>2 DEF Mine
<1>9. (~refilled => Documented)'
  BY <1>1, <1>4, <1>7 DEF Documented
<1>10. Undelivered'
  BY <1>1, <1>4 DEF IInv, Undelivered, Unfinished
<1> QED
  BY <1>5, <1>6, <1>8, <1>9, <1>10 DEF IInv

\* What both Fill and Update write.
LEMMA Written ==
  ASSUME IInv, NEW d \in Devices, NEW told \in SUBSET Devices,
         NEW new \in [status : Statuses, device : Receivers \union {NoDevice}, cloud : BOOLEAN],
         call[d] = "sent", Write(d, new, told), Keep,
         refilled' \in BOOLEAN
  PROVE  /\ TypeOK' /\ Present' = Present
         /\ doc' = new
         /\ \A e \in Devices : ~synced'[e]
         /\ call'[d] = "yes" /\ \A e \in Devices : e # d => call'[e] = call[e]
         /\ \A e \in Devices : Fits(e, fsm[e])' /\ Silent(e)' /\ Asking(e)'
         /\ \A S : [status |-> new.status, device |-> new.device] \in S =>
              \A e \in Devices : inbox[e] \in Seq(S) => inbox'[e] \in Seq(S)
         /\ [status |-> new.status, device |-> new.device] \in Document
         /\ \A e \in told :
              link[e] \in {"up", "joining", "starting"} /\ ~missed'[e]
                => inbox'[e] = Append(inbox[e], [status |-> new.status, device |-> new.device])
<1>1. /\ doc' = new /\ synced' = [e \in Devices |-> FALSE]
      /\ Notify(told, new) /\ Answer(d, "yes")
      /\ UNCHANGED <<link, fsm, barriers, data, gap, done>>
  BY DEF Write, Keep
<1>2. TypeOK /\ Present \in Groups /\ "yes" \in Answers
  BY DEF IInv, Answers
<1>3. Present' = Present
  BY <1>1 DEF Present
<1> DEFINE m == [status |-> new.status, device |-> new.device]
<1> HIDE DEF m
<1>4. m = [status |-> new.status, device |-> new.device]
  BY DEF m
<1>5. /\ inbox' \in [Devices -> Seq(Document)] /\ missed' \in [Devices -> BOOLEAN]
      /\ faults' \in 0..Budget'
      /\ m \in Document
      /\ \A S : m \in S => \A e \in Devices : inbox[e] \in Seq(S) => inbox'[e] \in Seq(S)
      /\ \A e \in Devices :
           link[e] \notin {"up", "joining", "starting"} => inbox'[e] = inbox[e]
      /\ \A e \in told :
           link[e] \in {"up", "joining", "starting"} /\ ~missed'[e]
             => inbox'[e] = Append(inbox[e], m)
  BY ZenonT(30), <1>1, <1>2, <1>3, <1>4, Notified
<1>6. /\ call' \in [Devices -> Answers] /\ call'[d] = "yes"
      /\ \A e \in Devices : e # d => call'[e] = call[e]
  BY <1>1, <1>2, Answered
<1>7. TypeOK'
  <2>1. doc' \in [status : Statuses \union {"none"}, device : Receivers \union {NoDevice},
                  cloud : BOOLEAN]
    BY <1>1
  <2>2. synced' \in [Devices -> BOOLEAN]
    BY <1>1
  <2> QED
    BY <1>1, <1>2, <1>5, <1>6, <2>1, <2>2, Typed, TypedNext
<1>8. ASSUME NEW e \in Devices PROVE Fits(e, fsm[e])' /\ Silent(e)' /\ Asking(e)'
  BY <1>1, <1>5, <1>6 DEF IInv, Mine, Fits, Silent, Asking
<1>9. \A e \in Devices : ~synced'[e]
  BY <1>1
<1> QED
  BY <1>1, <1>3, <1>4, <1>5, <1>6, <1>7, <1>8, <1>9

LEMMA FillSafe ==
  ASSUME IInv, NEW d \in Devices, Fill(d)
  PROVE  IInv'
<1> DEFINE new == [doc EXCEPT !.status = "initialized", !.device = NoDevice]
           m == [status |-> new.status, device |-> new.device]
<1>1. /\ call[d] = "sent" /\ fsm[d] = "init" /\ Write(d, new, Receivers) /\ Keep
      /\ refilled' = (refilled \/ doc.status \notin {"created", "initialized"})
  BY DEF Fill
<1>2. d = Sender
  BY <1>1, Constants DEF IInv, Mine, Fits
<1>3. /\ new \in [status : Statuses, device : Receivers \union {NoDevice}, cloud : BOOLEAN]
      /\ new.status = "initialized" /\ new.device = NoDevice
  BY Typed DEF IInv, Statuses
<1>4. refilled' \in BOOLEAN /\ Receivers \in SUBSET Devices
  BY <1>1, Typed DEF IInv, Devices
<1> HIDE DEF new
<1>5. /\ TypeOK' /\ Present' = Present
      /\ doc' = new
      /\ \A e \in Devices : ~synced'[e]
      /\ call'[d] = "yes" /\ \A e \in Devices : e # d => call'[e] = call[e]
      /\ \A e \in Devices : Fits(e, fsm[e])' /\ Silent(e)' /\ Asking(e)'
      /\ \A S : m \in S =>
           \A e \in Devices : inbox[e] \in Seq(S) => inbox'[e] \in Seq(S)
      /\ m \in Document
  BY <1>1, <1>3, <1>4, Written, Zenon
<1>6. m.status = "initialized"
  BY <1>3
<1> HIDE DEF m
<1>7. UNCHANGED <<link, fsm, barriers, data, gap, done>>
  BY <1>1 DEF Keep
<1>8. ASSUME ~refilled'
      PROVE  ~refilled /\ doc.status \in {"created", "initialized"} /\ doc.device = NoDevice
  <2>1. ~refilled /\ doc.status \in {"created", "initialized"}
    BY <1>1, <1>8
  <2> QED
    BY <2>1 DEF IInv, Documented, final
<1>9. doc'.status = "initialized" /\ doc'.device = NoDevice
  BY <1>3, <1>5
<1>10. ~Early' /\ ~Ended'
  BY <1>9 DEF Early, Ended, final
<1>11. ASSUME NEW e \in Devices, ~refilled'
       PROVE  (Told(e) /\ Knows(e) /\ Opens(e) /\ Calls(e) /\ Stage(e) /\ Latest(e))'
  <2>1. Told(e) /\ Knows(e) /\ Opens(e) /\ Calls(e) /\ Stage(e) /\ Latest(e)
    BY <1>8, <1>11 DEF IInv, Mine
  <2>2. ~Ended /\ doc.status # "none"
    BY <1>8, <1>11 DEF Ended, final
  <2>3. Told(e)'
    <3>1. Sayable \subseteq Sayable'
      BY <2>2 DEF Sayable, Ended
    <3>2. m \in Sayable'
      BY <1>5, <1>6 DEF Sayable, final
    <3>3. inbox[e] \in Seq(Sayable')
      BY <2>1, <3>1, Widened DEF Told
    <3>4. inbox'[e] \in Seq(Sayable')
      BY <1>5, <3>2, <3>3
    <3> QED
      BY <3>4 DEF Told
  <2>4. Knows(e)'
    <3>1. data[e].status = "none" => e # Sender /\ fsm[e] = "none"
      BY <1>1, <1>2, <2>1 DEF Knows
    <3> QED
      BY <1>7, <1>9, <2>1, <2>2, <3>1 DEF Knows, Ended
  <2>5. Opens(e)'
    BY <1>7, <1>9, <2>1, <2>2 DEF Opens, Ended, final
  <2>6. Calls(e)'
    <3>1. CASE e = d
      BY <1>1, <1>5, <1>7, <3>1, Asks DEF Calls, Finalizing
    <3>2. CASE e # d
      <4>1. call'[e] = call[e] /\ fsm'[e] = fsm[e] /\ data'[e] = data[e] /\ Running(e)' = Running(e)
        BY <1>5, <1>7, <3>2 DEF Running
      <4>2. fsm[e] # "create"
        BY <1>2, <3>2, Constants DEF IInv, Mine, Fits
      <4>3. e \notin {Sender, doc'.device}
        BY <1>2, <1>9, <3>2, Constants
      <4>4. fsm[e] \in Finalizing => call[e] # "yes"
        BY <2>1, <2>2, AsksTyped DEF Calls, Ended
      <4> QED
        BY <2>1, <4>1, <4>2, <4>3, <4>4 DEF Calls
    <3> QED
      BY <3>1, <3>2
  <2>7. Stage(e)'
    <3>1. fsm'[e] # "create"
      <4>1. CASE e = d
        BY <1>1, <1>7, <4>1
      <4>2. CASE e # d
        BY <1>2, <1>7, <4>2, Constants DEF IInv, Mine, Fits
      <4> QED
        BY <4>1, <4>2
    <3>2. e = Sender => fsm'[e] = "init"
      BY <1>1, <1>2, <1>7
    <3>3. e # doc'.device
      BY <1>9, Constants
    <3>4. fsm'[e] # "idle"
      BY <1>7, <2>1, <2>2 DEF Stage, Ended, final
    <3> QED
      BY <1>10, <3>1, <3>2, <3>3, <3>4 DEF Stage
  <2>8. Latest(e)'
    BY <1>10 DEF Latest
  <2> QED
    BY <2>3, <2>4, <2>5, <2>6, <2>7, <2>8
<1>12. \A e \in Devices : Mine(e)'
  BY <1>5, <1>11 DEF Mine
<1>13. (~refilled => Documented)'
  BY <1>9 DEF Documented
<1>14. Undelivered'
  <2>1. CASE \E r \in Receivers : done[r]
    BY <1>7, <2>1 DEF Undelivered
  <2>2. CASE \A e \in Devices : Unfinished(e)
    <3>1. m \in {n \in Document : n.status # "finished"}
      BY <1>5, <1>6
    <3>2. \A e \in Devices : Unfinished(e)'
      BY <1>5, <1>7, <2>2, <3>1 DEF Unfinished
    <3> QED
      BY <1>9, <3>2 DEF Undelivered
  <2> QED
    BY <2>1, <2>2 DEF IInv, Undelivered
<1> QED
  BY <1>5, <1>12, <1>13, <1>14 DEF IInv

\* A request for a status.
LEMMA Requested ==
  ASSUME IInv, NEW d \in Devices, call[d] = "sent", fsm[d] \notin {"create", "init"}
  PROVE  /\ fsm[d] \in {"accept", "finish", "reject", "cancel", "fail", "wait", "transfer"}
         /\ asked(d) \in final \union {"accepted", "cloud_buffered"}
         /\ asked(d) = "accepted" => fsm[d] = "accept" /\ d \in Receivers
         /\ asked(d) = "finished" => fsm[d] = "finish"
         /\ fsm[d] \in Finalizing => asked(d) = asks[fsm[d]] /\ asked(d) \in final
         /\ d = Sender => fsm[d] \in {"cancel", "fail", "wait", "transfer"}
         /\ ~refilled => doc.status # "none" /\ (Early => d = Sender)
<1>1. fsm[d] \in DOMAIN asks \union {"wait", "transfer"} /\ Fits(d, fsm[d])
  BY DEF IInv, Mine, Asking
<1>2. fsm[d] \in {"accept", "finish", "reject", "cancel", "fail", "wait", "transfer"}
  BY <1>1, Asks
<1>3. asked(d) = IF fsm[d] \in {"wait", "transfer"} THEN "cloud_buffered" ELSE asks[fsm[d]]
  BY DEF asked
<1>4. fsm[d] = "accept" => d \in Receivers
  BY <1>1, Constants DEF Fits
<1>5. d = Sender => fsm[d] \in {"cancel", "fail", "wait", "transfer"}
  BY <1>1, <1>2 DEF Fits
<1>6. ASSUME ~refilled PROVE doc.status # "none" /\ (Early => d = Sender)
  <2>1. Knows(d) /\ Calls(d) /\ Stage(d)
    BY <1>6 DEF IInv, Mine
  <2>2. Early => d = Sender
    BY <1>2, <2>1 DEF Stage
  <2>3. ASSUME doc.status = "none" PROVE FALSE
    <3>1. d = Sender /\ data[d].status = "none"
      BY <2>1, <2>2, <2>3 DEF Early, Knows
    <3>2. fsm[d] \in {"cancel", "fail"}
      BY <1>2, <2>1, <3>1 DEF Knows
    <3> QED
      BY <2>1, <3>1, <3>2 DEF Calls, Finalizing
  <2> QED
    BY <2>2, <2>3
<1>7. /\ asked(d) \in final \union {"accepted", "cloud_buffered"}
      /\ asked(d) = "accepted" => fsm[d] = "accept"
      /\ asked(d) = "finished" => fsm[d] = "finish"
  BY <1>2, <1>3, Asks DEF final
<1>8. fsm[d] \in Finalizing => asked(d) = asks[fsm[d]] /\ asked(d) \in final
  BY <1>3, AsksTyped DEF Finalizing
<1> QED
  BY <1>2, <1>4, <1>5, <1>6, <1>7, <1>8

LEMMA Replaced ==
  ASSUME IInv, NEW d \in Devices, call[d] = "sent", fsm[d] \notin {"create", "init"},
         doc.status # asked(d), Permitted(d)
  PROVE  /\ Changed(d) \in [status : Statuses, device : Receivers \union {NoDevice}, cloud : BOOLEAN]
         /\ doc.status \notin final
         /\ Changed(d).status \in {"accepted", "cloud_buffered"} \union final
         /\ Changed(d).status = "finished" => fsm[d] = "finish"
         /\ fsm[d] \in Finalizing => Changed(d).status = asks[fsm[d]]
         /\ Changed(d).device = doc.device
              \/ (Changed(d).device = d /\ fsm[d] = "accept" /\ Changed(d).status = "accepted")
         /\ Changed(d).status = "accepted" => Changed(d).device = d \/ doc.status = "accepted"
         /\ Changed(d).status = "cloud_buffered" => doc.status # "accepted"
<1>1. /\ asked(d) \in final \union {"accepted", "cloud_buffered"}
      /\ asked(d) = "accepted" => fsm[d] = "accept" /\ d \in Receivers
      /\ asked(d) = "finished" => fsm[d] = "finish"
      /\ fsm[d] \in Finalizing => asked(d) = asks[fsm[d]] /\ asked(d) \in final
  BY Requested
<1>2. doc \in [status : Statuses \union {"none"}, device : Receivers \union {NoDevice},
               cloud : BOOLEAN]
  BY Typed DEF IInv
<1>3. doc.status \notin final
  BY DEF Permitted
<1>4. CASE asked(d) = "accepted"
  <2>1. Changed(d) = [doc EXCEPT !.status = "accepted", !.device = d]
    BY <1>4 DEF Changed
  <2> QED
    BY <1>1, <1>2, <1>3, <1>4, <2>1 DEF Statuses, final
<1>5. CASE asked(d) = "cloud_buffered"
  <2>1. Changed(d) = [doc EXCEPT !.status = IF @ = "accepted" THEN @ ELSE "cloud_buffered",
                                 !.cloud = TRUE]
    BY <1>5 DEF Changed
  <2> QED
    BY <1>1, <1>2, <1>3, <1>5, <2>1 DEF Statuses, final
<1>6. CASE asked(d) \in final
  <2>1. Changed(d) = [doc EXCEPT !.status = asked(d)]
    BY <1>6 DEF Changed, final
  <2> QED
    BY <1>1, <1>2, <1>3, <1>6, <2>1, AsksTyped DEF final
<1> QED
  BY <1>1, <1>4, <1>5, <1>6

LEMMA WriteSafe ==
  ASSUME IInv, NEW d \in Devices, call[d] = "sent", fsm[d] \notin {"create", "init"},
         doc.status # asked(d), Permitted(d), Write(d, Changed(d), Devices), Keep,
         refilled' = refilled
  PROVE  IInv'
<1> DEFINE new == Changed(d)
           m == [status |-> new.status, device |-> new.device]
<1>1. /\ new \in [status : Statuses, device : Receivers \union {NoDevice}, cloud : BOOLEAN]
      /\ doc.status \notin final
      /\ new.status \in {"accepted", "cloud_buffered"} \union final
      /\ new.status = "finished" => fsm[d] = "finish"
      /\ fsm[d] \in Finalizing => new.status = asks[fsm[d]]
      /\ new.device = doc.device \/ (new.device = d /\ fsm[d] = "accept" /\ new.status = "accepted")
      /\ new.status = "accepted" => new.device = d \/ doc.status = "accepted"
      /\ new.status = "cloud_buffered" => doc.status # "accepted"
  BY Replaced
<1>2. /\ fsm[d] \in {"accept", "finish", "reject", "cancel", "fail", "wait", "transfer"}
      /\ ~refilled => doc.status # "none" /\ (Early => d = Sender)
  BY Requested
<1>3. refilled' \in BOOLEAN /\ Devices \in SUBSET Devices /\ Write(d, new, Devices)
  BY Typed DEF IInv
<1> HIDE DEF new
<1>4. /\ TypeOK' /\ Present' = Present
      /\ doc' = new
      /\ \A e \in Devices : ~synced'[e]
      /\ call'[d] = "yes" /\ \A e \in Devices : e # d => call'[e] = call[e]
      /\ \A e \in Devices : Fits(e, fsm[e])' /\ Silent(e)' /\ Asking(e)'
      /\ \A S : m \in S =>
           \A e \in Devices : inbox[e] \in Seq(S) => inbox'[e] \in Seq(S)
      /\ m \in Document
      /\ \A e \in Devices : link[e] \in {"up", "joining", "starting"} /\ ~missed'[e]
                              => inbox'[e] = Append(inbox[e], m)
  BY <1>1, <1>3, Written, Zenon
<1>5. m.status = doc'.status
  BY <1>4
<1> HIDE DEF m
<1>6. UNCHANGED <<link, fsm, barriers, data, gap, done>>
  BY DEF Keep
<1>7. ~Early' /\ doc'.status \notin {"none", "created", "initialized", "ghost_uploaded"} /\ ~Ended
  BY <1>1, <1>4 DEF Early, Ended, final
<1>8. ASSUME NEW e \in Devices, ~refilled
      PROVE  (Told(e) /\ Knows(e) /\ Opens(e) /\ Calls(e) /\ Stage(e) /\ Latest(e))'
  <2>1. /\ Told(e) /\ Knows(e) /\ Opens(e) /\ Calls(e) /\ Stage(e) /\ Latest(e)
        /\ Asking(e) /\ Fits(e, fsm[e]) /\ Knows(d) /\ Calls(d)
    BY <1>8 DEF IInv, Mine
  <2>2. doc.status # "none" /\ (Early => d = Sender)
    BY <1>2, <1>8
  <2>3. Told(e)'
    <3>1. Sayable \subseteq Sayable'
      BY <1>7 DEF Sayable, Ended
    <3>2. m \in Sayable'
      BY <1>4, <1>5, <1>7 DEF Sayable
    <3>3. inbox[e] \in Seq(Sayable')
      BY <2>1, <3>1, Widened DEF Told
    <3>4. inbox'[e] \in Seq(Sayable')
      BY <1>4, <3>2, <3>3
    <3> QED
      BY <3>4 DEF Told
  <2>4. Knows(e)'
    <3>1. ASSUME data[e].status = "none" PROVE e # Sender
      <4>1. ASSUME e = Sender PROVE FALSE
        <5>1. Early /\ fsm[e] \in {"create", "cancel", "fail", "end", "over", "none"}
          BY <2>1, <3>1, <4>1 DEF Knows
        <5>2. d = e /\ fsm[d] \in {"cancel", "fail"}
          BY <1>2, <2>2, <4>1, <5>1
        <5> QED
          BY <2>1, <3>1, <5>2 DEF Calls, Finalizing
      <4> QED
        BY <4>1
    <3> QED
      BY <1>6, <1>7, <2>1, <3>1 DEF Knows, Ended
  <2>5. Opens(e)'
    BY <1>6, <1>7, <2>1 DEF Opens, Ended, final
  <2>6. fsm[e] # "create"
    <3>1. ASSUME fsm[e] = "create" PROVE FALSE
      <4>1. e = Sender /\ Early
        BY <2>1, <3>1, Constants DEF Fits, Stage
      <4> QED
        BY <1>2, <2>2, <3>1, <4>1
    <3> QED
      BY <3>1
  <2>7. Calls(e)'
    <3>1. CASE e = d
      <4>1. fsm[d] \in Finalizing => data[d].status # "none"
        BY <2>1 DEF Calls
      <4> QED
        BY <1>1, <1>4, <1>6, <2>6, <3>1, <4>1 DEF Calls
    <3>2. CASE e # d
      <4>1. call'[e] = call[e] /\ fsm'[e] = fsm[e] /\ data'[e] = data[e] /\ Running(e)' = Running(e)
        BY <1>4, <1>6, <3>2 DEF Running
      <4>2. fsm[e] \in Finalizing => call[e] # "yes"
        BY <1>7, <2>1, AsksTyped DEF Calls, Ended
      <4>3. e = doc'.device => e = doc.device
        BY <1>1, <1>4, <3>2
      <4> QED
        BY <1>7, <2>1, <2>6, <4>1, <4>2, <4>3 DEF Calls
    <3> QED
      BY <3>1, <3>2
  <2>8. Stage(e)'
    <3>1. fsm'[e] # "create" /\ fsm'[e] # "idle"
      BY <1>6, <1>7, <2>1, <2>6 DEF Stage, Ended, final
    <3>2. ~ (e = Sender /\ fsm'[e] \in {"end", "over"})
      <4>1. ASSUME e = Sender, fsm[e] \in {"end", "over"} PROVE FALSE
        <5>1. Early
          BY <1>7, <2>1, <4>1 DEF Stage
        <5> QED
          BY <1>2, <2>2, <4>1, <5>1
      <4> QED
        BY <1>6, <4>1
    <3>3. e = doc'.device => fsm'[e] \in {"accept", "transfer", "finish", "cancel", "fail"}
      <4>1. e = doc.device => fsm[e] \in {"accept", "transfer", "finish", "cancel", "fail"}
        BY <1>7, <2>1 DEF Stage
      <4> QED
        BY <1>1, <1>4, <1>6, <4>1
    <3> QED
      BY <1>7, <3>1, <3>2, <3>3 DEF Stage
  <2>9. Latest(e)'
    <3>1. CASE link[e] \in {"up", "joining", "starting"}
      <4>1. ASSUME ~missed'[e]
            PROVE  inbox'[e] # <<>> /\ inbox'[e][Len(inbox'[e])] = m
        <5>1. inbox'[e] = Append(inbox[e], m)
          BY <1>4, <3>1, <4>1
        <5>2. inbox[e] \in Seq(Document) /\ m \in Document
          BY <1>4, Typed DEF IInv
        <5>3. Append(inbox[e], m) # <<>> /\ Append(inbox[e], m)[Len(Append(inbox[e], m))] = m
          BY <5>2, Inboxes
        <5> QED
          BY <5>1, <5>3
      <4> QED
        BY <1>5, <4>1 DEF Latest
    <3>2. CASE link[e] \notin {"up", "joining", "starting"}
      <4>1. inbox'[e] = <<>>
        BY <1>4, <1>6, <3>2 DEF Silent
      <4> QED
        BY <1>4, <1>6, <3>2, <4>1 DEF Latest
    <3> QED
      BY <3>1, <3>2
  <2> QED
    BY <2>3, <2>4, <2>5, <2>7, <2>8, <2>9
<1>9. \A e \in Devices : Mine(e)'
  BY <1>4, <1>8 DEF Mine
<1>10. (~refilled => Documented)'
  <2>1. ASSUME ~refilled PROVE doc.device = NoDevice \/ doc.status = "accepted"
    BY <1>1, <2>1 DEF IInv, Documented
  <2>2. ~refilled /\ doc.status = "accepted" => doc.device # NoDevice
    BY DEF IInv, Documented
  <2>3. d # NoDevice
    BY Constants
  <2> QED
    BY <1>1, <1>4, <1>7, <2>1, <2>2, <2>3 DEF Documented
<1>11. Undelivered'
  <2>1. CASE \E r \in Receivers : done[r]
    BY <1>6, <2>1 DEF Undelivered
  <2>2. CASE \A e \in Devices : Unfinished(e)
    <3>1. new.status # "finished"
      BY <1>1, <2>2 DEF Unfinished
    <3>2. m \in {n \in Document : n.status # "finished"}
      BY <1>4, <1>5, <3>1
    <3>3. \A e \in Devices : Unfinished(e)'
      BY <1>4, <1>6, <2>2, <3>2 DEF Unfinished
    <3> QED
      BY <1>4, <3>1, <3>3 DEF Undelivered
  <2> QED
    BY <2>1, <2>2 DEF IInv, Undelivered
<1> QED
  BY <1>4, <1>9, <1>10, <1>11 DEF IInv

LEMMA UpdateSafe ==
  ASSUME IInv, NEW d \in Devices, Update(d)
  PROVE  IInv'
<1>1. call[d] = "sent" /\ fsm[d] \notin {"create", "init"} /\ Keep
  BY DEF Update
<1>2. CASE /\ doc.status # asked(d) /\ Permitted(d)
           /\ Write(d, Changed(d), Devices)
           /\ UNCHANGED refilled
  BY <1>1, <1>2, WriteSafe
<1>3. CASE /\ doc.status = asked(d) \/ ~Permitted(d)
           /\ Answer(d, IF doc.status = asked(d) THEN "yes" ELSE "refused")
           /\ UNCHANGED <<doc, inbox, synced, history, faults>>
  <2>1. UNCHANGED <<link, fsm, barriers, data, gap, done, doc, inbox, synced, missed, refilled, faults>>
    BY <1>1, <1>3 DEF Keep, history
  <2>2. /\ call' \in [Devices -> Answers]
        /\ call'[d] = IF doc.status = asked(d) THEN "yes" ELSE "refused"
        /\ \A e \in Devices : e # d => call'[e] = call[e]
    BY <1>3, Answered DEF IInv, Answers
  <2>3. Present' = Present
    BY <2>1 DEF Present
  <2>4. Alone(d)
    BY <2>1, <2>2 DEF Alone
  <2>5. TypeOK'
    <3>1. faults' \in 0..Budget'
      BY <2>1, <2>3, Bounded DEF IInv
    <3> QED
      BY <2>1, <2>2, <3>1, Typed, TypedNext DEF IInv
  <2>6. /\ fsm[d] \in {"accept", "finish", "reject", "cancel", "fail", "wait", "transfer"}
        /\ fsm[d] \in Finalizing => asked(d) = asks[fsm[d]] /\ asked(d) \in final
        /\ d = Sender => fsm[d] \in {"cancel", "fail", "wait", "transfer"}
        /\ ~refilled => doc.status # "none"
    BY <1>1, Requested
  <2>7. ASSUME ~refilled
        PROVE  (Told(d) /\ Knows(d) /\ Opens(d) /\ Calls(d) /\ Stage(d) /\ Latest(d))'
    <3>1. Told(d) /\ Knows(d) /\ Opens(d) /\ Calls(d) /\ Stage(d) /\ Latest(d) /\ Documented
      BY <2>7 DEF IInv, Mine
    <3>2. Told(d)' /\ Opens(d)' /\ Knows(d)'
      BY <2>1, <3>1 DEF Told, Sayable, Opens, Knows, Early
    <3>3. Stage(d)' /\ Latest(d)'
      BY <2>1, <3>1 DEF Stage, Latest, Heard, Early, Ended
    <3>4. ASSUME fsm[d] \in Finalizing, doc.status # asked(d), d \in {Sender, doc.device}
          PROVE  Ended
      <4>1. ASSUME ~Ended PROVE FALSE
        <5>1. ~ (asked(d) \in transitions[doc.status][d = Sender])
          BY <1>3, <3>4, <4>1 DEF Permitted, Ended
        <5>2. CASE d = Sender
          <6>1. fsm[d] \in {"cancel", "fail"}
            BY <2>6, <3>4, <5>2 DEF Finalizing
          <6>2. doc.status \in Statuses \ (final \union {"ghost_uploaded"})
            BY <2>6, <2>7, <3>1, <4>1, Typed DEF IInv, Documented, Ended
          <6>3. asks[fsm[d]] \in transitions[doc.status][TRUE]
            BY <6>1, <6>2, EndAllowed
          <6> QED
            BY <2>6, <3>4, <5>1, <5>2, <6>3
        <5>3. CASE d # Sender
          <6>1. d = doc.device /\ doc.status = "accepted"
            BY <3>1, <3>4, <4>1, <5>3, Constants DEF Documented, Ended
          <6>2. fsm[d] \in {"finish", "cancel", "fail"}
            BY <3>1, <3>4, <4>1, <6>1 DEF Stage, Finalizing
          <6>3. asks[fsm[d]] \in transitions["accepted"][FALSE]
            BY <6>2, EndAllowed
          <6>4. (d = Sender) = FALSE
            BY <5>3
          <6> QED
            BY <2>6, <3>4, <5>1, <6>1, <6>3, <6>4
        <5> QED
          BY <5>2, <5>3
      <4> QED
        BY <4>1
    <3>5. Calls(d)'
      <4>1. fsm[d] \in Finalizing => data[d].status # "none"
        BY <1>1, <3>1 DEF Calls
      <4> QED
        BY <2>1, <2>2, <2>6, <3>4, <4>1 DEF Calls, Ended
    <3> QED
      BY <3>2, <3>3, <3>5
  <2>8. Mine(d)'
    <3>1. Fits(d, fsm[d])' /\ Silent(d)'
      BY <2>1 DEF IInv, Mine, Fits, Silent
    <3>2. Asking(d)'
      BY <2>1, <2>6, Asks DEF Asking
    <3> QED
      BY <2>1, <2>7, <3>1, <3>2 DEF Mine
  <2>9. done' = done /\ (doc.status # "finished" /\ Unfinished(d) => Unfinished(d)')
    BY <2>1 DEF Unfinished
  <2> QED
    BY <2>3, <2>4, <2>5, <2>8, <2>9, AloneSafe
<1> QED
  BY <1>2, <1>3 DEF Update

-----------------------------------------------------------------------------
(***************************************************************************)
(* The machine of a device moves.                                          *)
(***************************************************************************)
LEMMA EnteredValues ==
  ASSUME TypeOK, NEW d \in Devices, NEW f \in States, NEW known \in Document,
         Entered(d, f, known)
  PROVE  /\ fsm' \in [Devices -> States] /\ call' \in [Devices -> Answers]
         /\ data' \in [Devices -> Document]
         /\ fsm'[d] = f /\ data'[d] = known
         /\ call'[d] = IF f \in DOMAIN asks /\ (f \in Finalizing => known.status # "none")
                         THEN "sent" ELSE "no"
         /\ \A e \in Devices \ {d} : fsm'[e] = fsm[e] /\ call'[e] = call[e] /\ data'[e] = data[e]
BY Typed DEF Entered, Answers

\* The states a machine goes to.
Onward == {"init", "accept", "finish", "reject", "cancel", "fail", "wait", "transfer",
           "other", "end"}

\* What a device that goes to f must know.
Allowed(d, f, known) ==
  /\ known.status \in final => known.status = doc.status
  /\ known.status # "none" => doc.status # "none"
  /\ known.status = "none" => d = Sender /\ Early /\ f \in {"cancel", "fail", "end"}
  /\ d # Sender => ~Early
  /\ d = Sender /\ f = "end" => Ended \/ Early
  /\ d = doc.device => Ended \/ f \in {"accept", "transfer", "finish", "cancel", "fail"}

LEMMA EnterSafe ==
  ASSUME IInv, NEW d \in Devices, NEW f \in Onward, NEW known \in Document,
         UNCHANGED <<doc, link, inbox, synced, barriers, refilled>>,
         Enter(d, f, known), Running(d), Fits(d, f), fsm[d] # "none",
         missed' \in [Devices -> BOOLEAN],
         \A e \in Devices : e # d => missed'[e] = missed[e],
         ~missed'[d] => ~missed[d],
         done' \in [Receivers -> BOOLEAN], faults' \in 0..Budget',
         ~refilled => Allowed(d, f, known),
         Ended /\ ~missed'[d] /\ data[d].status = doc.status /\ ~refilled
           => known.status = doc.status,
         \/ \E r \in Receivers : done'[r]
         \/ /\ done' = done
            /\ Unfinished(d) /\ doc.status # "finished" => f # "finish" /\ known.status # "finished"
  PROVE  IInv'
<1>1. f \in States
  BY DEF Onward, States
<1>2. /\ fsm' \in [Devices -> States] /\ call' \in [Devices -> Answers]
      /\ data' \in [Devices -> Document]
      /\ fsm'[d] = f /\ data'[d] = known
      /\ call'[d] = IF f \in DOMAIN asks /\ (f \in Finalizing => known.status # "none")
                      THEN "sent" ELSE "no"
      /\ \A e \in Devices \ {d} : fsm'[e] = fsm[e] /\ call'[e] = call[e] /\ data'[e] = data[e]
  BY <1>1, EnteredValues DEF Enter, IInv
<1>3. gap' = [gap EXCEPT ![d] = IF f \in Showing THEN "running" ELSE @]
  BY DEF Enter
<1>4. Present' = Present
  BY DEF Present
<1>5. Alone(d)
  <2>1. \A e \in Devices \ {d} : gap'[e] = gap[e]
    BY <1>3, Typed DEF IInv
  <2> QED
    BY <1>2, <2>1 DEF Alone
<1>6. TypeOK'
  <2>1. gap' \in [Devices -> final \union {"running"}]
    BY <1>3, Typed DEF IInv
  <2>2. \A r \in Receivers : fsm'[r] \notin {"create", "init", "wait"}
    <3>1. d \in Receivers => f \notin {"create", "init", "wait"}
      BY Constants DEF Fits
    <3>2. \A r \in Receivers : fsm[r] \notin {"create", "init", "wait"}
      BY Typed DEF IInv
    <3> QED
      BY <1>2, <3>1, <3>2, Constants
  <2> QED
    BY <1>2, <2>1, <2>2, Typed, TypedNext DEF IInv
<1>7. Early' = Early /\ Ended' = Ended
  BY DEF Early, Ended
<1>8. ASSUME ~refilled
      PROVE  (Told(d) /\ Knows(d) /\ Opens(d) /\ Calls(d) /\ Stage(d) /\ Latest(d))'
  <2>1. Told(d) /\ Opens(d) /\ Stage(d) /\ Latest(d) /\ Allowed(d, f, known)
    BY <1>8 DEF IInv, Mine
  <2>2. Told(d)' /\ Opens(d)'
    BY <2>1 DEF Told, Sayable, Opens
  <2>3. Knows(d)'
    BY <1>2, <1>7, <2>1 DEF Knows, Allowed
  <2>4. Calls(d)'
    <3>1. f # "create"
      BY DEF Onward
    <3>2. f \in Finalizing => call'[d] = IF known.status # "none" THEN "sent" ELSE "no"
      BY <1>2, AsksTyped
    <3> QED
      BY <1>2, <3>1, <3>2 DEF Calls
  <2>5. Stage(d)'
    <3>1. f \notin {"create", "over", "idle"}
      BY DEF Onward
    <3>2. Early => inbox[d] = <<>>
      BY <2>1 DEF Stage
    <3> QED
      BY <1>2, <1>7, <2>1, <3>1, <3>2 DEF Stage, Allowed
  <2>6. Latest(d)'
    <3>1. ASSUME Ended, ~missed'[d]
          PROVE  /\ inbox[d] # <<>> => inbox[d][Len(inbox[d])].status = doc.status
                 /\ link[d] = "up" \/ (link[d] \in {"cut", "joining"} /\ synced[d])
                      => inbox[d] # <<>> \/ Heard(d)
      BY <2>1, <3>1 DEF Latest
    <3>2. ASSUME Ended, ~missed'[d], Heard(d) PROVE Heard(d)'
      <4>1. known.status = doc.status
        BY <1>8, <3>2 DEF Heard
      <4>2. f # "over"
        BY DEF Onward
      <4> QED
        BY <1>2, <4>1, <4>2 DEF Heard
    <3> QED
      BY <1>7, <3>1, <3>2 DEF Latest
  <2> QED
    BY <2>2, <2>3, <2>4, <2>5, <2>6
<1>9. Mine(d)'
  <2>1. Fits(d, fsm[d])' /\ Silent(d)'
    BY <1>2 DEF Fits, IInv, Mine, Silent
  <2>2. Asking(d)'
    BY <1>2 DEF Asking
  <2> QED
    BY <1>8, <2>1, <2>2 DEF Mine
<1>10. \/ \E r \in Receivers : done'[r]
       \/ done' = done /\ (doc.status # "finished" /\ Unfinished(d) => Unfinished(d)')
  <2>1. ASSUME done' = done, Unfinished(d), doc.status # "finished",
               f # "finish", known.status # "finished"
        PROVE  Unfinished(d)'
    BY <1>2, <2>1 DEF Unfinished
  <2> QED
    BY <2>1
<1> QED
  BY <1>4, <1>5, <1>6, <1>9, <1>10, AloneSafe

\* What the invariant says of a machine that runs.
LEMMA Placed ==
  ASSUME IInv, NEW d \in Devices
  PROVE  /\ fsm[d] \in States /\ data[d] \in Document /\ call[d] \in Answers
         /\ fsm[d] \in {"create", "init", "wait"} => d = Sender
         /\ fsm[d] \in {"decide", "accept", "reject", "finish", "other", "idle"} => d # Sender
         /\ fsm[d] \in Finalizing =>
              fsm[d] \in {"cancel", "fail"} \/ (fsm[d] \in {"finish", "reject"} /\ d # Sender)
         /\ ~refilled =>
              /\ Knows(d) /\ Calls(d) /\ Opens(d) /\ Stage(d)
              /\ fsm[d] = "create" => Early
              /\ fsm[d] # "none" => d = Sender \/ (~Early /\ data[d].status # "none")
              /\ fsm[d] \notin {"create", "cancel", "fail", "end", "over", "none"} =>
                   data[d].status # "none" /\ doc.status # "none"
              /\ doc.device # Sender
<1>1. fsm[d] \in States /\ data[d] \in Document /\ call[d] \in Answers /\ Fits(d, fsm[d])
  BY Typed DEF IInv, Mine
<1>2. ASSUME ~refilled PROVE Knows(d) /\ Calls(d) /\ Opens(d) /\ Stage(d)
  BY <1>2 DEF IInv, Mine
<1>3. doc.device # Sender
  BY DocumentTyped, Constants DEF IInv
<1>4. ASSUME ~refilled
      PROVE  /\ fsm[d] = "create" => Early
             /\ fsm[d] # "none" => d = Sender \/ (~Early /\ data[d].status # "none")
             /\ fsm[d] \notin {"create", "cancel", "fail", "end", "over", "none"} =>
                  data[d].status # "none" /\ doc.status # "none"
  BY <1>2, <1>4 DEF Knows, Stage
<1> QED
  BY <1>1, <1>2, <1>3, <1>4 DEF Fits, Finalizing

LEMMA ProceedSafe ==
  ASSUME IInv, NEW d \in Devices, Proceed(d)
  PROVE  IInv'
<1> DEFINE f == fsm[d]
           to == IF f \in Finalizing THEN [data[d] EXCEPT !.status = asks[f]] ELSE data[d]
<1>1. /\ Running(d) /\ call[d] \in {"yes", "refused"}
      /\ missed' = [missed EXCEPT ![d] =
                      @ \/ (f = "init" /\ data[d].status \notin {"created", "initialized"})]
      /\ UNCHANGED <<doc, link, inbox, synced, barriers, done, refilled, faults>>
  BY DEF Proceed, network
<1>2. /\ missed' \in [Devices -> BOOLEAN]
      /\ \A e \in Devices : e # d => missed'[e] = missed[e]
      /\ ~missed'[d] =>
           ~missed[d] /\ (f = "init" => data[d].status \in {"created", "initialized"})
  BY <1>1, Typed DEF IInv
<1>3. Present' = Present
  BY <1>1 DEF Present
<1>4. done' = done /\ done' \in [Receivers -> BOOLEAN] /\ faults' \in 0..Budget'
  BY <1>1, <1>3, Bounded, Typed DEF IInv
<1>5. /\ fsm[d] \in States /\ data[d] \in Document /\ call[d] \in Answers
      /\ fsm[d] \in {"create", "init", "wait"} => d = Sender
      /\ fsm[d] \in {"decide", "accept", "reject", "finish", "other", "idle"} => d # Sender
      /\ fsm[d] \in Finalizing =>
           fsm[d] \in {"cancel", "fail"} \/ (fsm[d] \in {"finish", "reject"} /\ d # Sender)
      /\ ~refilled =>
           /\ Knows(d) /\ Calls(d) /\ Opens(d) /\ Stage(d)
           /\ fsm[d] = "create" => Early
           /\ fsm[d] # "none" => d = Sender \/ (~Early /\ data[d].status # "none")
           /\ fsm[d] \notin {"create", "cancel", "fail", "end", "over", "none"} =>
                data[d].status # "none" /\ doc.status # "none"
           /\ doc.device # Sender
  BY Placed
<1>6. \A s \in Statuses : /\ [data[d] EXCEPT !.status = s] \in Document
                          /\ [data[d] EXCEPT !.status = s].status = s
  BY <1>5, DocumentTyped DEF IInv
<1>7. CASE f = "create" /\ Enter(d, "init", [data[d] EXCEPT !.status = "created"])
  <2> DEFINE known == [data[d] EXCEPT !.status = "created"]
  <2>1. known \in Document /\ known.status = "created"
    BY <1>6 DEF Statuses
  <2>0. Enter(d, "init", known) /\ fsm[d] # "none"
    BY <1>7
  <2> HIDE DEF known
  <2>2. d = Sender /\ Fits(d, "init") /\ "init" \in Onward
    BY <1>5, <1>7 DEF Fits, Onward
  <2>3. ASSUME ~refilled PROVE doc.status = "created" /\ d # doc.device /\ Early
    BY <1>1, <1>5, <1>7, <2>2, <2>3 DEF Calls
  <2>4. ~refilled => Allowed(d, "init", known)
    BY <2>1, <2>2, <2>3 DEF Allowed, final
  <2>5. ~refilled => ~Ended
    BY <2>3 DEF Ended, final
  <2>6. Unfinished(d) => "init" # "finish" /\ known.status # "finished"
    BY <2>1
  <2> QED
    BY <1>1, <1>2, <1>4, <2>0, <2>1, <2>2, <2>4, <2>5, <2>6, EnterSafe
<1>8. CASE f = "init" /\ Enter(d, "wait", [data[d] EXCEPT !.status = "initialized"])
  <2> DEFINE known == [data[d] EXCEPT !.status = "initialized"]
  <2>1. known \in Document /\ known.status = "initialized"
    BY <1>6 DEF Statuses
  <2>0. Enter(d, "wait", known) /\ fsm[d] # "none"
    BY <1>8
  <2> HIDE DEF known
  <2>2. d = Sender /\ Fits(d, "wait") /\ "wait" \in Onward
    BY <1>5, <1>8 DEF Fits, Onward
  <2>3. ASSUME ~refilled PROVE doc.status # "none" /\ d # doc.device
    BY <1>5, <1>8, <2>2, <2>3
  <2>4. ~refilled => Allowed(d, "wait", known)
    BY <2>1, <2>2, <2>3 DEF Allowed, final
  <2>5. ~ (Ended /\ ~missed'[d] /\ data[d].status = doc.status)
    BY <1>2, <1>8 DEF Ended, final
  <2>6. Unfinished(d) => "wait" # "finish" /\ known.status # "finished"
    BY <2>1
  <2> QED
    BY <1>1, <1>2, <1>4, <2>0, <2>1, <2>2, <2>4, <2>5, <2>6, EnterSafe
<1>9. CASE f = "accept" /\ Enter(d, IF call[d] = "yes" THEN "transfer" ELSE "fail", data[d])
  <2> DEFINE g == IF call[d] = "yes" THEN "transfer" ELSE "fail"
  <2>1. g \in {"transfer", "fail"}
    OBVIOUS
  <2>2. Enter(d, g, data[d])
    BY <1>9
  <2> HIDE DEF g
  <2>3. Fits(d, g) /\ g \in Onward /\ d # Sender
    BY <1>5, <1>9, <2>1 DEF Fits, Onward
  <2>4. ASSUME ~refilled PROVE Allowed(d, g, data[d])
    BY <1>5, <1>9, <2>1, <2>3, <2>4 DEF Allowed, Knows
  <2>5. Unfinished(d) => g # "finish" /\ data[d].status # "finished"
    BY <2>1 DEF Unfinished
  <2> QED
    BY <1>1, <1>2, <1>4, <1>5, <1>9, <2>2, <2>3, <2>4, <2>5, EnterSafe
<1>10. CASE f \in Finalizing /\ Enter(d, "end", IF call[d] = "yes" THEN to ELSE data[d])
  <2> DEFINE known == IF call[d] = "yes" THEN to ELSE data[d]
  <2>1. /\ known \in Document
        /\ call[d] = "yes" => known.status = asks[f]
        /\ call[d] # "yes" => known = data[d]
    BY <1>5, <1>6, <1>10, AsksTyped
  <2>2. Enter(d, "end", known)
    BY <1>10
  <2> HIDE DEF known
  <2>3. Fits(d, "end") /\ "end" \in Onward /\ fsm[d] # "none"
    BY <1>10 DEF Fits, Onward, Finalizing
  <2>4. ASSUME ~refilled
        PROVE  Allowed(d, "end", known) /\ (data[d].status = doc.status => known.status = doc.status)
    <3>1. /\ data[d].status # "none" /\ doc.status # "none"
          /\ call[d] = "yes" => doc.status = asks[f] /\ Ended
          /\ call[d] = "refused" /\ d \in {Sender, doc.device} => Ended
      BY <1>1, <1>5, <1>10, <2>4, AsksTyped DEF Calls, Knows, Ended
    <3>2. known.status \in final => known.status = doc.status
      BY <1>5, <2>1, <2>4, <3>1 DEF Knows
    <3>3. known.status # "none"
      BY <2>1, <3>1, Asks, <1>10 DEF Finalizing
    <3>4. d \in {Sender, doc.device} => Ended
      BY <1>1, <3>1
    <3>5. d # Sender => ~Early
      BY <1>5, <2>3, <2>4
    <3>6. Allowed(d, "end", known)
      BY <3>1, <3>2, <3>3, <3>4, <3>5 DEF Allowed
    <3>7. data[d].status = doc.status => known.status = doc.status
      BY <1>1, <2>1, <3>1
    <3> QED
      BY <3>6, <3>7
  <2>5. Unfinished(d) => "end" # "finish" /\ known.status # "finished"
    <3>1. ASSUME Unfinished(d) PROVE known.status # "finished"
      <4>1. f # "finish" => asks[f] # "finished"
        BY <1>10, Asks DEF Finalizing
      <4> QED
        BY <1>1, <2>1, <3>1, <4>1 DEF Unfinished
    <3> QED
      BY <3>1
  <2> QED
    BY <1>1, <1>2, <1>4, <2>1, <2>2, <2>3, <2>4, <2>5, EnterSafe
<1>11. CASE f \in {"wait", "transfer"} /\ Answer(d, "no") /\ UNCHANGED <<fsm, data, gap>>
  <2>1. /\ call' \in [Devices -> Answers] /\ call'[d] = "no"
        /\ \A e \in Devices : e # d => call'[e] = call[e]
    BY <1>11, Answered DEF IInv, Answers
  <2>2. Alone(d)
    BY <1>1, <1>2, <1>11, <2>1 DEF Alone
  <2>3. TypeOK'
    BY <1>1, <1>2, <1>4, <1>11, <2>1, Typed, TypedNext DEF IInv
  <2>4. Early' = Early /\ Ended' = Ended
    BY <1>1 DEF Early, Ended
  <2>5. ASSUME ~refilled
        PROVE  (Told(d) /\ Knows(d) /\ Opens(d) /\ Calls(d) /\ Stage(d) /\ Latest(d))'
    <3>1. Told(d) /\ Knows(d) /\ Opens(d) /\ Stage(d) /\ Latest(d)
      BY <2>5 DEF IInv, Mine
    <3>2. Told(d)' /\ Opens(d)' /\ Knows(d)'
      BY <1>1, <1>11, <2>4, <3>1 DEF Told, Sayable, Opens, Knows
    <3>3. Calls(d)'
      BY <1>11, <2>1 DEF Calls, Finalizing
    <3>4. Stage(d)'
      BY <1>1, <1>11, <2>4, <3>1 DEF Stage
    <3>5. Latest(d)'
      <4>1. Heard(d)' = Heard(d) /\ (~missed'[d] => ~missed[d])
        BY <1>1, <1>2, <1>11 DEF Heard
      <4> QED
        BY <1>1, <2>4, <3>1, <4>1 DEF Latest
    <3> QED
      BY <3>2, <3>3, <3>4, <3>5
  <2>6. Mine(d)'
    <3>1. Fits(d, fsm[d])' /\ Silent(d)' /\ Asking(d)'
      BY <1>1, <1>11, <2>1 DEF IInv, Mine, Fits, Silent, Asking
    <3> QED
      BY <1>1, <2>5, <3>1 DEF Mine
  <2>7. doc.status # "finished" /\ Unfinished(d) => Unfinished(d)'
    BY <1>1, <1>11 DEF Unfinished
  <2> QED
    BY <1>3, <1>4, <2>2, <2>3, <2>6, <2>7, AloneSafe
<1> QED
  BY <1>7, <1>8, <1>9, <1>10, <1>11 DEF Proceed

\* A step of the machine that keeps what the device knows.
LEMMA MoveSafe ==
  ASSUME IInv, NEW d \in Devices, NEW f \in Onward, Running(d), Fits(d, f), fsm[d] # "none",
         Enter(d, f, data[d]),
         UNCHANGED <<doc, link, inbox, synced, barriers, missed, refilled>>,
         done' \in [Receivers -> BOOLEAN], faults' \in 0..Budget',
         f = "finish" => "finished" \in barriers[d] \/ \E r \in Receivers : done'[r],
         done' = done \/ \E r \in Receivers : done'[r],
         ~refilled =>
           /\ data[d].status = "none" => f \in {"cancel", "fail", "end"}
           /\ d = Sender /\ f = "end" => Ended \/ Early
           /\ d = doc.device => Ended \/ f \in {"accept", "transfer", "finish", "cancel", "fail"}
  PROVE  IInv'
<1>1. data[d] \in Document
  BY Placed
<1>2. missed' \in [Devices -> BOOLEAN]
  BY Typed DEF IInv
<1>3. ASSUME ~refilled PROVE Allowed(d, f, data[d])
  <2>1. Knows(d) /\ (d # Sender => ~Early)
    BY <1>3, Placed
  <2> QED
    BY <1>3, <2>1 DEF Allowed, Knows
<1>4. Unfinished(d) => data[d].status # "finished" /\ "finished" \notin barriers[d]
  BY DEF Unfinished
<1> QED
  BY <1>1, <1>2, <1>3, <1>4, EnterSafe

LEMMA SkipSafe ==
  ASSUME IInv, NEW d \in Devices, Skip(d)
  PROVE  IInv'
<1>1. /\ Running(d) /\ fsm[d] \in Finalizing /\ call[d] = "no"
      /\ Enter(d, "end", data[d])
      /\ UNCHANGED <<doc, link, inbox, synced, barriers, done, missed, refilled, faults>>
  BY DEF Skip, Others, network, history
<1>2. Fits(d, "end") /\ "end" \in Onward /\ fsm[d] # "none"
  BY <1>1 DEF Fits, Onward, Finalizing
<1>3. done' \in [Receivers -> BOOLEAN] /\ faults' \in 0..Budget'
  <2>1. Present' = Present
    BY <1>1 DEF Present
  <2> QED
    BY <1>1, <2>1, Bounded, Typed DEF IInv
<1>4. ASSUME ~refilled PROVE (d = Sender => Early) /\ d # doc.device
  <2>1. data[d].status = "none" /\ Knows(d) /\ doc.device # Sender
    BY <1>1, <1>4, Placed DEF Calls
  <2>2. d = Sender /\ Early
    BY <1>2, <2>1 DEF Knows
  <2> QED
    BY <2>1, <2>2
<1> QED
  BY <1>1, <1>2, <1>3, <1>4, MoveSafe

\* What the transitions on a barrier are.
LEMMA Triggers ==
  ASSUME NEW g \in States, NEW b \in Barriers, NEW f \in triggers(g, b)
  PROVE  /\ f \in {"end", "fail", "cancel", "transfer", "finish", "reject", "other"}
         /\ g \in {"create", "init", "wait", "transfer", "other", "decide", "accept", "reject"}
         /\ f = "end" => b \in {"finished", "failed", "rejected"}
         /\ f = "transfer" => g = "wait"
         /\ f \in {"finish", "reject", "other"} => g = "decide"
         /\ f = "finish" => b = "finished"
<1>1. CASE b = "finished"
  BY <1>1 DEF triggers
<1>2. CASE b = "failed"
  BY <1>2 DEF triggers
<1>3. CASE b = "canceled"
  BY <1>3 DEF triggers
<1>4. CASE b = "accepted"
  BY <1>4 DEF triggers
<1>5. CASE b = "rejected"
  BY <1>5 DEF triggers
<1>6. CASE b = "elsewhere"
  BY <1>6 DEF triggers
<1> QED
  BY <1>1, <1>2, <1>3, <1>4, <1>5, <1>6 DEF Barriers, final

LEMMA TriggerSafe ==
  ASSUME IInv, NEW d \in Devices, Trigger(d)
  PROVE  IInv'
<1>1. /\ Running(d)
      /\ UNCHANGED <<doc, link, inbox, synced, barriers, done, missed, refilled, faults>>
  BY DEF Trigger, Others, network, history
<1>2. PICK b \in barriers[d] : \E f \in triggers(fsm[d], b) : Enter(d, f, data[d])
  BY DEF Trigger
<1>3. PICK f \in triggers(fsm[d], b) : Enter(d, f, data[d])
  BY <1>2
<1>4. b \in Barriers /\ fsm[d] \in States
  BY Typed DEF IInv
<1>5. /\ f \in {"end", "fail", "cancel", "transfer", "finish", "reject", "other"}
      /\ fsm[d] \in {"create", "init", "wait", "transfer", "other", "decide", "accept", "reject"}
      /\ f = "end" => b \in {"finished", "failed", "rejected"}
      /\ f = "transfer" => fsm[d] = "wait"
      /\ f \in {"finish", "reject", "other"} => fsm[d] = "decide"
      /\ f = "finish" => b = "finished"
  BY <1>4, Triggers
<1>6. Fits(d, f) /\ f \in Onward
  <2>1. fsm[d] = "decide" => d # Sender
    BY Placed
  <2> QED
    BY <1>5, <2>1 DEF Fits, Onward
<1>7. done' \in [Receivers -> BOOLEAN] /\ faults' \in 0..Budget'
  <2>1. Present' = Present
    BY <1>1 DEF Present
  <2> QED
    BY <1>1, <2>1, Bounded, Typed DEF IInv
<1>8. ASSUME ~refilled
      PROVE  /\ data[d].status = "none" => f \in {"cancel", "fail", "end"}
             /\ f = "end" => Ended
             /\ d = doc.device => Ended \/ f \in {"accept", "transfer", "finish", "cancel", "fail"}
  <2>1. Knows(d) /\ Opens(d) /\ Stage(d)
    BY <1>8, Placed
  <2>2. f = "end" => Ended
    BY <1>2, <1>5, <2>1 DEF Opens, Ended, final
  <2>3. data[d].status = "none" => fsm[d] = "create"
    BY <1>5, <2>1 DEF Knows
  <2>4. d = doc.device => Ended \/ fsm[d] \in {"accept", "transfer"}
    BY <1>5, <2>1 DEF Stage
  <2> QED
    BY <1>5, <2>2, <2>3, <2>4
<1> QED
  BY <1>1, <1>3, <1>5, <1>6, <1>7, <1>8, MoveSafe

LEMMA DecideSafe ==
  ASSUME IInv, NEW r \in Receivers, Decide(r)
  PROVE  IInv'
<1>1. /\ Running(r) /\ fsm[r] = "decide"
      /\ UNCHANGED <<doc, link, inbox, synced, barriers, done, missed, refilled, faults>>
  BY DEF Decide, Others, network, history
<1>2. PICK f \in {"accept", "reject"} : Enter(r, f, data[r])
  BY DEF Decide
<1>3. r \in Devices /\ r # Sender
  BY Constants
<1>4. Fits(r, f) /\ f \in Onward
  BY <1>3 DEF Fits, Onward
<1>5. done' \in [Receivers -> BOOLEAN] /\ faults' \in 0..Budget'
  <2>1. Present' = Present
    BY <1>1 DEF Present
  <2> QED
    BY <1>1, <2>1, Bounded, Typed DEF IInv
<1>6. ASSUME ~refilled PROVE data[r].status # "none" /\ (r = doc.device => Ended)
  <2>1. Stage(r) /\ data[r].status # "none"
    BY <1>1, <1>3, <1>6, Placed
  <2> QED
    BY <1>1, <2>1 DEF Stage
<1> QED
  BY <1>1, <1>2, <1>3, <1>4, <1>5, <1>6, MoveSafe

LEMMA ErrorSafe ==
  ASSUME IInv, NEW d \in Devices, Error(d)
  PROVE  IInv'
<1>1. /\ Running(d) /\ fsm[d] \in {"create", "init", "transfer"}
      /\ Enter(d, "fail", data[d]) /\ Fault("error")
      /\ UNCHANGED <<doc, link, inbox, synced, barriers, done, missed, refilled>>
  BY DEF Error, Others, network, history
<1>2. Fits(d, "fail") /\ "fail" \in Onward
  BY DEF Fits, Onward
<1>3. done' \in [Receivers -> BOOLEAN] /\ faults' \in 0..Budget'
  <2>1. Present' = Present /\ "error" \in Faults
    BY <1>1 DEF Present, Fault
  <2> QED
    BY <1>1, <2>1, Bounded, Typed DEF IInv
<1> QED
  BY <1>1, <1>2, <1>3, MoveSafe

LEMMA TransferSafe ==
  ASSUME IInv, NEW r \in Receivers, Transfer(r)
  PROVE  IInv'
<1>1. /\ Running(r) /\ fsm[r] = "transfer"
      /\ done' = [done EXCEPT ![r] = TRUE] /\ Enter(r, "finish", data[r])
      /\ UNCHANGED <<doc, link, inbox, synced, barriers, missed, refilled, faults>>
  BY DEF Transfer, network, history
<1>2. r \in Devices /\ r # Sender
  BY Constants
<1>3. Fits(r, "finish") /\ "finish" \in Onward
  BY <1>2 DEF Fits, Onward
<1>4. done' \in [Receivers -> BOOLEAN] /\ done'[r] /\ faults' \in 0..Budget'
  <2>1. Present' = Present
    BY <1>1 DEF Present
  <2> QED
    BY <1>1, <2>1, Bounded, Typed DEF IInv
<1>5. ~refilled => data[r].status # "none"
  BY <1>1, <1>2, Placed
<1> QED
  BY <1>1, <1>2, <1>3, <1>4, <1>5, MoveSafe

LEMMA EndSafe ==
  ASSUME IInv, NEW d \in Devices, End(d)
  PROVE  IInv'
<1>1. /\ Running(d) /\ fsm[d] = "end" /\ Entered(d, "over", data[d])
      /\ gap' = [gap EXCEPT ![d] = IF impossible(data[d].status) THEN "failed"
                                   ELSE data[d].status]
      /\ UNCHANGED <<doc, link, inbox, synced, barriers, done, missed, refilled, faults>>
  BY DEF End, Others, network, history
<1>2. TypeOK /\ data[d] \in Document /\ "over" \in States
  BY Typed DEF IInv, States
<1>3. /\ fsm' \in [Devices -> States] /\ call' \in [Devices -> Answers]
      /\ data' \in [Devices -> Document]
      /\ fsm'[d] = "over" /\ data'[d] = data[d]
      /\ call'[d] = "no"
      /\ \A e \in Devices \ {d} : fsm'[e] = fsm[e] /\ call'[e] = call[e] /\ data'[e] = data[e]
  <2>1. "over" \notin DOMAIN asks
    BY Asks
  <2> QED
    BY <1>1, <1>2, <2>1, EnteredValues
<1>4. /\ gap' \in [Devices -> final \union {"running"}]
      /\ data[d].status \in final => gap'[d] = data[d].status
      /\ \A e \in Devices \ {d} : gap'[e] = gap[e]
  BY <1>1, <1>2, Typed DEF impossible, final
<1>5. Present' = Present
  BY <1>1 DEF Present
<1>6. Alone(d)
  BY <1>1, <1>3, <1>4 DEF Alone
<1>7. TypeOK'
  <2>1. faults' \in 0..Budget'
    BY <1>1, <1>2, <1>5, Bounded DEF IInv
  <2>2. \A r \in Receivers : fsm'[r] \notin {"create", "init", "wait"}
    BY <1>2, <1>3, Typed, Constants
  <2> QED
    BY <1>1, <1>2, <1>3, <1>4, <2>1, <2>2, Typed, TypedNext
<1>8. Early' = Early /\ Ended' = Ended
  BY <1>1 DEF Early, Ended
<1>9. ASSUME ~refilled
      PROVE  (Told(d) /\ Knows(d) /\ Opens(d) /\ Calls(d) /\ Stage(d) /\ Latest(d))'
  <2>1. Told(d) /\ Knows(d) /\ Opens(d) /\ Stage(d) /\ Latest(d)
    BY <1>9 DEF IInv, Mine
  <2>2. Told(d)' /\ Opens(d)'
    BY <1>1, <2>1 DEF Told, Sayable, Opens
  <2>3. Knows(d)'
    BY <1>1, <1>3, <1>8, <2>1 DEF Knows
  <2>4. Calls(d)'
    BY <1>3 DEF Calls, Finalizing
  <2>5. Stage(d)'
    BY <1>1, <1>3, <1>8, <2>1 DEF Stage
  <2>6. Latest(d)'
    <3>1. ASSUME Ended, Heard(d) PROVE Heard(d)'
      BY <1>1, <1>3, <1>4, <3>1 DEF Heard, Ended
    <3> QED
      BY <1>1, <1>8, <2>1, <3>1 DEF Latest
  <2> QED
    BY <2>2, <2>3, <2>4, <2>5, <2>6
<1>10. Mine(d)'
  <2>1. Fits(d, fsm[d])' /\ Silent(d)' /\ Asking(d)'
    BY <1>1, <1>3 DEF IInv, Mine, Fits, Silent, Asking
  <2> QED
    BY <1>1, <1>9, <2>1 DEF Mine
<1>11. done' = done /\ (Unfinished(d) => Unfinished(d)')
  BY <1>1, <1>3 DEF Unfinished
<1> QED
  BY <1>5, <1>6, <1>7, <1>10, <1>11, AloneSafe

-----------------------------------------------------------------------------
(***************************************************************************)
(* A request or a barrier is opened; the connection is lost; the process   *)
(* dies.                                                                   *)
(***************************************************************************)
\* A step that leaves the machine of d where it is.
LEMMA StaySafe ==
  ASSUME IInv, NEW d \in Devices,
         UNCHANGED <<doc, inbox, fsm, data, gap, done, refilled>>,
         Alone(d), Present' = Present,
         link' \in [Devices -> Links], synced' \in [Devices -> BOOLEAN],
         call' \in [Devices -> Answers], barriers' \in [Devices -> SUBSET Barriers],
         missed' \in [Devices -> BOOLEAN], faults' \in 0..Budget',
         barriers'[d] \subseteq barriers[d] \union {"canceled"},
         Silent(d)', Asking(d)', ~refilled => Calls(d)' /\ Latest(d)'
  PROVE  IInv'
<1>1. TypeOK'
  BY Typed, TypedNext DEF IInv
<1>2. Early' = Early /\ Ended' = Ended
  BY DEF Early, Ended
<1>3. ASSUME ~refilled
      PROVE  (Told(d) /\ Knows(d) /\ Opens(d) /\ Stage(d))'
  <2>1. Told(d) /\ Knows(d) /\ Opens(d) /\ Stage(d)
    BY <1>3 DEF IInv, Mine
  <2> QED
    BY <1>2, <2>1 DEF Told, Sayable, Knows, Opens, Stage
<1>4. Mine(d)'
  <2>1. Fits(d, fsm[d])'
    BY DEF IInv, Mine, Fits
  <2> QED
    BY <1>3, <2>1 DEF Mine
<1>5. Unfinished(d) => Unfinished(d)'
  BY DEF Unfinished
<1> QED
  BY <1>1, <1>4, <1>5, AloneSafe

LEMMA RetrySafe ==
  ASSUME IInv, NEW d \in Devices, Retry(d)
  PROVE  IInv'
<1>1. /\ call[d] \in {"yes", "refused"} /\ Answer(d, "sent")
      /\ Fault(IF fsm[d] = "init" THEN "refill" ELSE "twice")
      /\ UNCHANGED <<doc, link, inbox, synced, fsm, barriers, data, gap, done, missed, refilled>>
  BY DEF Retry, network, history
<1>2. /\ call' \in [Devices -> Answers] /\ call'[d] = "sent"
      /\ \A e \in Devices : e # d => call'[e] = call[e]
  BY <1>1, Answered DEF IInv, Answers
<1>3. Present' = Present /\ Alone(d)
  BY <1>1, <1>2 DEF Present, Alone
<1>4. faults' \in 0..Budget'
  BY <1>1, <1>3, Bounded DEF IInv
<1>5. Silent(d)' /\ Asking(d)'
  BY <1>1, <1>2 DEF IInv, Mine, Silent, Asking
<1>6. ASSUME ~refilled PROVE Calls(d)' /\ Latest(d)'
  <2>1. Calls(d) /\ Latest(d)
    BY <1>6 DEF IInv, Mine
  <2> QED
    BY <1>1, <1>2, <2>1 DEF Calls, Latest, Heard, Ended
<1> QED
  BY <1>1, <1>2, <1>3, <1>4, <1>5, <1>6, StaySafe, Typed DEF IInv

LEMMA UploadSafe ==
  ASSUME IInv, Upload
  PROVE  IInv'
<1> DEFINE d == Sender
<1>1. /\ fsm[d] \in {"wait", "transfer"} /\ Answer(d, "sent")
      /\ UNCHANGED <<doc, link, inbox, synced, fsm, barriers, data, gap, done, missed, refilled,
                     faults>>
  BY DEF Upload, network, history
<1>2. d \in Devices
  BY Constants
<1> HIDE DEF d
<1>3. /\ call' \in [Devices -> Answers] /\ call'[d] = "sent"
      /\ \A e \in Devices : e # d => call'[e] = call[e]
  BY <1>1, <1>2, Answered DEF IInv, Answers
<1>4. Present' = Present /\ Alone(d)
  BY <1>1, <1>3 DEF Present, Alone
<1>5. faults' \in 0..Budget'
  BY <1>1, <1>4, Bounded DEF IInv
<1>6. Silent(d)' /\ Asking(d)'
  BY <1>1, <1>2, <1>3 DEF IInv, Mine, Silent, Asking
<1>7. ASSUME ~refilled PROVE Calls(d)' /\ Latest(d)'
  <2>1. Calls(d) /\ Latest(d)
    BY <1>2, <1>7 DEF IInv, Mine
  <2> QED
    BY <1>1, <1>3, <2>1 DEF Calls, Latest, Heard, Ended, Finalizing
<1> QED
  BY <1>1, <1>2, <1>3, <1>4, <1>5, <1>6, <1>7, StaySafe, Typed DEF IInv

LEMMA CancelSafe ==
  ASSUME IInv, NEW d \in Devices, Cancel(d)
  PROVE  IInv'
<1>1. /\ barriers' = [barriers EXCEPT ![d] = @ \union {"canceled"}] /\ Fault("cancel")
      /\ UNCHANGED <<doc, link, inbox, synced, fsm, call, data, gap, done, missed, refilled>>
  BY DEF Cancel, network, history
<1>2. /\ barriers' \in [Devices -> SUBSET Barriers]
      /\ barriers'[d] = barriers[d] \union {"canceled"}
      /\ \A e \in Devices : e # d => barriers'[e] = barriers[e]
  BY <1>1, Typed DEF IInv, Barriers, final
<1>3. Present' = Present /\ Alone(d) /\ "cancel" \in Faults
  BY <1>1, <1>2 DEF Present, Alone, Fault
<1>4. faults' \in 0..Budget'
  BY <1>1, <1>3, Bounded DEF IInv
<1>5. Silent(d)' /\ Asking(d)'
  BY <1>1 DEF IInv, Mine, Silent, Asking
<1>6. ASSUME ~refilled PROVE Calls(d)' /\ Latest(d)'
  <2>1. Calls(d) /\ Latest(d)
    BY <1>6 DEF IInv, Mine
  <2> QED
    BY <1>1, <2>1 DEF Calls, Latest, Heard, Ended, Running
<1> QED
  BY <1>1, <1>2, <1>3, <1>4, <1>5, <1>6, StaySafe, Typed DEF IInv

LEMMA ForgetSafe ==
  ASSUME IInv, NEW d \in Devices, Forget(d)
  PROVE  IInv'
<1>1. /\ synced' = [synced EXCEPT ![d] = TRUE] /\ missed' = [missed EXCEPT ![d] = TRUE]
      /\ Fault("forget")
      /\ UNCHANGED <<doc, link, inbox, fsm, call, barriers, data, gap, done, refilled>>
  BY DEF Forget, machine
<1>2. /\ synced' \in [Devices -> BOOLEAN] /\ missed' \in [Devices -> BOOLEAN] /\ missed'[d]
      /\ \A e \in Devices : e # d => synced'[e] = synced[e] /\ missed'[e] = missed[e]
  BY <1>1, Typed DEF IInv
<1>3. Present' = Present /\ Alone(d) /\ "forget" \in Faults
  BY <1>1, <1>2 DEF Present, Alone, Fault
<1>4. faults' \in 0..Budget'
  BY <1>1, <1>3, Bounded DEF IInv
<1>5. Silent(d)' /\ Asking(d)'
  BY <1>1 DEF IInv, Mine, Silent, Asking
<1>6. ASSUME ~refilled PROVE Calls(d)' /\ Latest(d)'
  <2>1. Calls(d)
    BY <1>6 DEF IInv, Mine
  <2> QED
    BY <1>1, <1>2, <2>1 DEF Calls, Latest, Ended, Running
<1> QED
  BY <1>1, <1>2, <1>3, <1>4, <1>5, <1>6, StaySafe, Typed DEF IInv

LEMMA ReconnectSafe ==
  ASSUME IInv, NEW d \in Devices, Reconnect(d)
  PROVE  IInv'
<1>1. /\ link[d] \in {"cut", "off"}
      /\ link' = [link EXCEPT ![d] = IF @ = "cut" THEN "joining" ELSE "starting"]
      /\ UNCHANGED <<doc, inbox, synced, fsm, call, barriers, data, gap, done, missed, refilled,
                     faults>>
  BY DEF Reconnect, machine, history
<1>2. /\ link' \in [Devices -> Links]
      /\ link'[d] = IF link[d] = "cut" THEN "joining" ELSE "starting"
      /\ \A e \in Devices : e # d => link'[e] = link[e]
  BY <1>1, Typed DEF IInv, Links
<1>3. Present' = Present
  <2>1. \A r \in Receivers : link'[r] # "away" <=> link[r] # "away"
    BY <1>1, <1>2, Constants
  <2> QED
    BY <2>1 DEF Present
<1>4. Alone(d)
  BY <1>1, <1>2 DEF Alone
<1>5. faults' \in 0..Budget'
  BY <1>1, <1>3, Bounded DEF IInv
<1>6. Silent(d)' /\ Asking(d)'
  BY <1>1, <1>2 DEF IInv, Mine, Silent, Asking
<1>7. ASSUME ~refilled PROVE Calls(d)' /\ Latest(d)'
  <2>1. Calls(d) /\ Latest(d)
    BY <1>7 DEF IInv, Mine
  <2> QED
    BY <1>1, <1>2, <2>1 DEF Calls, Latest, Heard, Ended, Running
<1> QED
  BY <1>1, <1>2, <1>3, <1>4, <1>5, <1>6, <1>7, StaySafe, Typed DEF IInv

\* A device that is cut, or dies, loses its inbox.
LEMMA LostSafe ==
  ASSUME IInv, NEW d \in Devices, NEW l \in {"cut", "off"}, link[d] # "away",
         link' = [link EXCEPT ![d] = l], inbox' = [inbox EXCEPT ![d] = <<>>],
         UNCHANGED <<doc, synced, fsm, data, gap, done, refilled>>,
         call' \in [Devices -> Answers], barriers' \in [Devices -> SUBSET Barriers],
         \A e \in Devices : e # d => call'[e] = call[e] /\ barriers'[e] = barriers[e]
                                     /\ missed'[e] = missed[e],
         missed' \in [Devices -> BOOLEAN], \E f \in Faults : Fault(f),
         call'[d] \in {call[d], "no"}, l = "cut" => call'[d] = call[d] /\ Running(d),
         barriers'[d] \subseteq barriers[d],
         ~missed'[d] => ~missed[d],
         l = "cut" => /\ link[d] \in {"up", "joining"}
                      /\ ~missed'[d] => ~ (synced[d] /\ inbox[d] # <<>>)
  PROVE  IInv'
<1>1. /\ link' \in [Devices -> Links] /\ link'[d] = l
      /\ \A e \in Devices : e # d => link'[e] = link[e]
      /\ inbox' \in [Devices -> Seq(Document)] /\ inbox'[d] = <<>>
      /\ \A e \in Devices : e # d => inbox'[e] = inbox[e]
  BY Typed, EmptyIn DEF IInv, Links
<1>2. Present' = Present
  <2>1. \A r \in Receivers : link'[r] # "away" <=> link[r] # "away"
    BY <1>1, Constants
  <2> QED
    BY <2>1 DEF Present
<1>3. Alone(d)
  BY <1>1 DEF Alone
<1>4. TypeOK'
  <2>1. faults' \in 0..Budget'
    BY <1>2, Bounded DEF IInv
  <2> QED
    BY <1>1, <2>1, Typed, TypedNext DEF IInv
<1>5. Early' = Early /\ Ended' = Ended
  BY DEF Early, Ended
<1>6. ASSUME ~refilled
      PROVE  (Told(d) /\ Knows(d) /\ Opens(d) /\ Calls(d) /\ Stage(d) /\ Latest(d))'
  <2>1. Knows(d) /\ Opens(d) /\ Calls(d) /\ Stage(d) /\ Latest(d)
    BY <1>6 DEF IInv, Mine
  <2>2. Told(d)' /\ Knows(d)' /\ Opens(d)' /\ Stage(d)'
    BY <1>1, <1>5, <2>1, EmptyIn DEF Told, Knows, Opens, Stage
  <2>3. Calls(d)'
    <3>1. ~ (call'[d] = "no" /\ Running(d)' /\ call[d] # "no")
      BY <1>1 DEF Running
    <3>2. Running(d)' => Running(d)
      BY <1>1 DEF Running
    <3> QED
      BY <1>5, <2>1, <3>1, <3>2 DEF Calls
  <2>4. Latest(d)'
    <3>1. CASE l = "off"
      BY <1>1, <3>1 DEF Latest
    <3>2. CASE l = "cut"
      <4>1. ASSUME Ended, ~missed'[d], synced[d] PROVE Heard(d)
        <5>1. inbox[d] = <<>> /\ ~missed[d] /\ link[d] \in {"up", "joining"}
          BY <3>2, <4>1
        <5> QED
          BY <2>1, <4>1, <5>1 DEF Latest
      <4>2. Heard(d)' = Heard(d)
        BY DEF Heard
      <4> QED
        BY <1>1, <1>5, <3>2, <4>1, <4>2 DEF Latest
    <3> QED
      BY <3>1, <3>2
  <2> QED
    BY <2>2, <2>3, <2>4
<1>7. Mine(d)'
  <2>1. Fits(d, fsm[d])' /\ Silent(d)' /\ Asking(d)'
    BY <1>1 DEF IInv, Mine, Fits, Silent, Asking
  <2> QED
    BY <1>6, <2>1 DEF Mine
<1>8. Unfinished(d) => Unfinished(d)'
  BY <1>1, EmptyIn DEF Unfinished
<1> QED
  BY <1>2, <1>3, <1>4, <1>7, <1>8, AloneSafe

LEMMA CutSafe ==
  ASSUME IInv, NEW d \in Devices, Cut(d)
  PROVE  IInv'
<1>1. /\ Fault("cut") /\ "cut" \in Faults /\ link[d] \in {"up", "joining"}
      /\ link' = [link EXCEPT ![d] = "cut"] /\ inbox' = [inbox EXCEPT ![d] = <<>>]
      /\ missed' = [missed EXCEPT ![d] = @ \/ (synced[d] /\ inbox[d] # <<>>)]
      /\ UNCHANGED <<doc, synced, fsm, call, barriers, data, gap, done, refilled>>
  BY DEF Cut, machine, Fault
<1>2. /\ missed' \in [Devices -> BOOLEAN]
      /\ missed'[d] = (missed[d] \/ (synced[d] /\ inbox[d] # <<>>))
      /\ \A e \in Devices : e # d => missed'[e] = missed[e]
  BY <1>1, Typed DEF IInv
<1>3. Running(d)
  BY <1>1 DEF Running
<1>4. call' \in [Devices -> Answers] /\ barriers' \in [Devices -> SUBSET Barriers]
  BY <1>1, Typed DEF IInv
<1> QED
  BY <1>1, <1>2, <1>3, <1>4, LostSafe

LEMMA CrashSafe ==
  ASSUME IInv, NEW d \in Devices, Crash(d)
  PROVE  IInv'
<1>1. /\ Fault("crash") /\ "crash" \in Faults /\ link[d] # "away"
      /\ link' = [link EXCEPT ![d] = "off"] /\ inbox' = [inbox EXCEPT ![d] = <<>>]
      /\ barriers' = [barriers EXCEPT ![d] = {}] /\ Answer(d, "no")
      /\ UNCHANGED <<doc, synced, fsm, data, gap, done, missed, refilled>>
  BY DEF Crash, history, Fault
<1>2. /\ call' \in [Devices -> Answers] /\ call'[d] = "no"
      /\ \A e \in Devices : e # d => call'[e] = call[e]
  BY <1>1, Answered DEF IInv, Answers
<1>3. /\ barriers' \in [Devices -> SUBSET Barriers] /\ barriers'[d] = {}
      /\ \A e \in Devices : e # d => barriers'[e] = barriers[e]
      /\ missed' \in [Devices -> BOOLEAN]
  BY <1>1, Typed DEF IInv
<1> QED
  BY <1>1, <1>2, <1>3, LostSafe

-----------------------------------------------------------------------------
(***************************************************************************)
(* A device hears of meta.                                                 *)
(***************************************************************************)
\* What d may hear of a transaction that has a recipient.
Heeded(d, m) ==
  /\ ~refilled => /\ m.status \notin {"none", "created"} /\ ~Early
                  /\ m.status \in final => m.status = doc.status
  /\ Unfinished(d) /\ doc.status # "finished" => m.status # "finished"

\* The part of d that a synchronization or a delivery changes, beside the machine.
Listening(d, m) ==
  /\ UNCHANGED <<doc, done, refilled>>
  /\ Present' = Present
  /\ link' \in [Devices -> Links] /\ link'[d] = "up"
  /\ inbox' \in [Devices -> Seq(Document)] /\ synced' \in [Devices -> BOOLEAN]
  /\ missed' \in [Devices -> BOOLEAN] /\ faults' \in 0..Budget'
  /\ \A e \in Devices : e # d => /\ link'[e] = link[e] /\ inbox'[e] = inbox[e]
                                 /\ synced'[e] = synced[e] /\ missed'[e] = missed[e]
  /\ Unfinished(d) => inbox'[d] \in Seq({n \in Document : n.status # "finished"})
  /\ ~refilled =>
       /\ inbox'[d] \in Seq(Sayable)
       /\ Ended /\ ~missed'[d] =>
            /\ inbox'[d] # <<>> => inbox'[d][Len(inbox'[d])].status = doc.status
            /\ inbox'[d] # <<>> \/ m.status = doc.status

LEMMA LearnSafe ==
  ASSUME IInv, NEW d \in Devices, NEW m \in Document, NEW old \in BOOLEAN,
         Learn(d, m, old), Heeded(d, m), Listening(d, m), fsm[d] \in {"none", "over"}
  PROVE  IInv'
<1> DEFINE f == IF old /\ m.status \in final THEN "over"
                ELSE IF d = Sender THEN "fail" ELSE guess(d, m)
<1>1. /\ Entered(d, f, m)
      /\ gap' = [gap EXCEPT ![d] = shown(m.status)]
      /\ barriers' = barriers
  BY DEF Learn
<1>2. /\ f \in {"over", "fail", "transfer", "other", "finish", "cancel", "idle", "decide"}
      /\ d = Sender => f \in {"over", "fail"}
      /\ f = "over" => m.status \in final
      /\ f = "idle" => m.status = "rejected"
      /\ f = "finish" => m.status = "finished"
  BY DEF guess
<1> HIDE DEF f
<1>3. f \in States
  BY <1>2 DEF States
<1>4. TypeOK
  BY DEF IInv
<1>5. /\ fsm' \in [Devices -> States] /\ call' \in [Devices -> Answers]
      /\ data' \in [Devices -> Document]
      /\ fsm'[d] = f /\ data'[d] = m
      /\ call'[d] = IF f \in DOMAIN asks /\ (f \in Finalizing => m.status # "none")
                      THEN "sent" ELSE "no"
      /\ \A e \in Devices \ {d} : fsm'[e] = fsm[e] /\ call'[e] = call[e] /\ data'[e] = data[e]
  BY <1>1, <1>3, <1>4, EnteredValues
<1>6. /\ gap' \in [Devices -> final \union {"running"}]
      /\ gap'[d] = shown(m.status)
      /\ \A e \in Devices \ {d} : gap'[e] = gap[e]
  BY <1>1, <1>4, Typed DEF shown
<1>7. Alone(d)
  BY <1>1, <1>5, <1>6 DEF Alone, Listening
<1>8. TypeOK'
  <2>1. \A r \in Receivers : fsm'[r] \notin {"create", "init", "wait"}
    BY <1>2, <1>4, <1>5, Typed, Constants
  <2> QED
    BY <1>1, <1>4, <1>5, <1>6, <2>1, Typed, TypedNext DEF Listening
<1>9. Early' = Early /\ Ended' = Ended /\ doc' = doc
  BY DEF Early, Ended, Listening
<1>10. ASSUME ~refilled
       PROVE  (Told(d) /\ Knows(d) /\ Opens(d) /\ Calls(d) /\ Stage(d) /\ Latest(d))'
  <2>1. Opens(d) /\ Stage(d)
    BY <1>10 DEF IInv, Mine
  <2>2. m.status \notin {"none", "created"} /\ ~Early /\ (m.status \in final => m.status = doc.status)
    BY <1>10 DEF Heeded
  <2>3. Told(d)'
    BY <1>9, <1>10 DEF Told, Sayable, Listening
  <2>4. Knows(d)' /\ Opens(d)'
    BY <1>1, <1>5, <1>9, <2>1, <2>2 DEF Knows, Opens, Early
  <2>5. Calls(d)'
    <3>1. f \in Finalizing => call'[d] = "sent"
      BY <1>5, <2>2, AsksTyped
    <3> QED
      BY <1>2, <1>5, <2>2, <3>1 DEF Calls
  <2>6. Stage(d)'
    <3>1. d = doc.device => Ended
      BY <2>1 DEF Stage
    <3>2. d = Sender /\ f \in {"end", "over"} => Ended
      BY <1>2, <2>2 DEF Ended
    <3>3. f = "idle" => doc.status = "rejected" /\ gap'[d] = "rejected"
      BY <1>2, <1>6, <2>2 DEF shown, final
    <3>4. f # "create"
      BY <1>2
    <3> QED
      BY <1>5, <1>9, <2>2, <3>1, <3>2, <3>3, <3>4 DEF Stage
  <2>7. Latest(d)'
    <3>1. ASSUME Ended, m.status = doc.status PROVE Heard(d)'
      BY <1>5, <1>6, <1>9, <3>1 DEF Heard, shown, Ended
    <3> QED
      BY <1>9, <1>10, <3>1 DEF Latest, Listening
  <2> QED
    BY <2>3, <2>4, <2>5, <2>6, <2>7
<1>11. Mine(d)'
  <2>1. Fits(d, fsm[d])'
    BY <1>2, <1>5 DEF Fits
  <2>2. Silent(d)' /\ Asking(d)'
    BY <1>5 DEF Silent, Asking, Listening
  <2> QED
    BY <1>10, <2>1, <2>2 DEF Mine, Listening
<1>12. done' = done /\ (doc.status # "finished" /\ Unfinished(d) => Unfinished(d)')
  BY <1>1, <1>2, <1>5 DEF Unfinished, Heeded, Listening
<1> QED
  BY <1>7, <1>8, <1>11, <1>12, AloneSafe DEF Listening

LEMMA HearSafe ==
  ASSUME IInv, NEW d \in Devices, NEW m \in Document,
         Hear(d, m), Heeded(d, m), Listening(d, m), fsm[d] # "none", Running(d)
  PROVE  IInv'
<1> DEFINE known == IF data[d].status = "cloud_buffered" /\ m.status = "initialized"
                      THEN [m EXCEPT !.status = "cloud_buffered"] ELSE m
<1>1. /\ data' = [data EXCEPT ![d] = known] /\ UNCHANGED <<fsm, call>>
      /\ \/ /\ fsm[d] # "over"
            /\ barriers' = [barriers EXCEPT ![d] = @ \union opened(d, known)]
            /\ gap' = [gap EXCEPT ![d] = IF known.status \in final /\ ~concerned(d, known)
                                           THEN known.status ELSE @]
         \/ /\ fsm[d] = "over" /\ barriers' = barriers
            /\ gap' = [gap EXCEPT ![d] = shown(m.status)]
  BY DEF Hear
<1>2. /\ known \in Document
      /\ known.status \in final \/ m.status \in final => known = m
      /\ known.status \in {"none", "created", "finished"} => known = m
  BY DEF Document, Statuses, final
<1> HIDE DEF known
<1>3. opened(d, known) \subseteq {known.status, "accepted", "elsewhere"}
  BY DEF opened
<1>4. /\ opened(d, known) \subseteq Barriers
      /\ \A b \in {"finished", "failed", "rejected"} :
           b \in opened(d, known) => b = known.status
  BY <1>3 DEF opened, Barriers
<1>5. TypeOK
  BY DEF IInv
<1>6. /\ data' \in [Devices -> Document] /\ data'[d] = known
      /\ barriers' \in [Devices -> SUBSET Barriers]
      /\ barriers'[d] \subseteq barriers[d] \union opened(d, known)
      /\ gap' \in [Devices -> final \union {"running"}]
      /\ fsm[d] = "over" => gap'[d] = shown(m.status)
      /\ fsm[d] # "over" =>
           gap'[d] = gap[d] \/ (known.status \in final /\ gap'[d] = known.status)
      /\ \A e \in Devices \ {d} :
           data'[e] = data[e] /\ barriers'[e] = barriers[e] /\ gap'[e] = gap[e]
  <2>1. /\ data \in [Devices -> Document] /\ barriers \in [Devices -> SUBSET Barriers]
        /\ gap \in [Devices -> final \union {"running"}]
    BY <1>5, Typed
  <2>2. shown(m.status) \in final \union {"running"}
    BY DEF shown
  <2>3. /\ data' \in [Devices -> Document] /\ data'[d] = known
        /\ \A e \in Devices \ {d} : data'[e] = data[e]
    BY <1>1, <1>2, <2>1
  <2>4. CASE fsm[d] # "over"
    <3>1. barriers' = [barriers EXCEPT ![d] = @ \union opened(d, known)]
      BY <1>1, <2>4
    <3>2. gap' = [gap EXCEPT ![d] = IF known.status \in final /\ ~concerned(d, known)
                                      THEN known.status ELSE @]
      BY <1>1, <2>4
    <3>3. /\ barriers' \in [Devices -> SUBSET Barriers]
          /\ barriers'[d] \subseteq barriers[d] \union opened(d, known)
          /\ \A e \in Devices \ {d} : barriers'[e] = barriers[e]
      BY <1>4, <2>1, <3>1
    <3>4. /\ gap' \in [Devices -> final \union {"running"}]
          /\ gap'[d] = gap[d] \/ (known.status \in final /\ gap'[d] = known.status)
          /\ \A e \in Devices \ {d} : gap'[e] = gap[e]
      BY <2>1, <3>2
    <3> QED
      BY <2>3, <2>4, <3>3, <3>4
  <2>5. CASE fsm[d] = "over"
    <3>1. barriers' = barriers /\ gap' = [gap EXCEPT ![d] = shown(m.status)]
      BY <1>1, <2>5
    <3> QED
      BY <2>1, <2>2, <2>3, <2>5, <3>1
  <2> QED
    BY <2>4, <2>5
<1>7. Alone(d)
  BY <1>1, <1>6 DEF Alone, Listening
<1>8. TypeOK'
  <2>1. fsm' = fsm /\ call' = call
    BY <1>1
  <2> QED
    BY <1>5, <1>6, <2>1, Typed, TypedNext DEF Listening
<1>9. Early' = Early /\ Ended' = Ended /\ doc' = doc
  BY DEF Early, Ended, Listening
<1>10. ASSUME ~refilled
       PROVE  (Told(d) /\ Knows(d) /\ Opens(d) /\ Calls(d) /\ Stage(d) /\ Latest(d))'
  <2>1. Knows(d) /\ Opens(d) /\ Calls(d) /\ Stage(d)
    BY <1>10 DEF IInv, Mine
  <2>2. /\ known.status \notin {"none", "created"} /\ ~Early
        /\ known.status \in final => known.status = doc.status
        /\ m.status \in final => m.status = doc.status
    BY <1>2, <1>10 DEF Heeded
  <2>3. Told(d)'
    BY <1>9, <1>10 DEF Told, Sayable, Listening
  <2>4. Knows(d)'
    BY <1>6, <1>9, <2>2 DEF Knows, Early
  <2>5. Opens(d)'
    <3>1. \A b \in {"finished", "failed", "rejected"} :
            b \in opened(d, known) => b = known.status /\ b \in final
      BY <1>4 DEF final
    <3> QED
      BY <1>6, <1>9, <2>1, <2>2, <3>1 DEF Opens
  <2>6. Calls(d)'
    <3>1. data[d].status # "none"
      BY <2>1, <2>2 DEF Knows
    <3> QED
      BY <1>1, <1>6, <1>9, <2>1, <2>2, <3>1 DEF Calls
  <2>7. Stage(d)'
    <3>1. fsm[d] = "idle" => gap'[d] = "rejected"
      BY <1>6, <2>1, <2>2 DEF Stage
    <3> QED
      BY <1>1, <1>9, <2>1, <2>2, <3>1 DEF Stage
  <2>8. Latest(d)'
    <3>1. ASSUME Ended, m.status = doc.status PROVE Heard(d)'
      <4>1. known = m /\ m.status \in final
        BY <1>2, <3>1 DEF Ended
      <4> QED
        BY <1>1, <1>6, <1>9, <3>1, <4>1 DEF Heard, shown
    <3> QED
      BY <1>9, <1>10, <3>1 DEF Latest, Listening
  <2> QED
    BY <2>3, <2>4, <2>5, <2>6, <2>7, <2>8
<1>11. Mine(d)'
  <2>1. Fits(d, fsm[d])' /\ Silent(d)' /\ Asking(d)'
    BY <1>1 DEF IInv, Mine, Fits, Silent, Asking, Listening
  <2> QED
    BY <1>10, <2>1 DEF Mine, Listening
<1>12. done' = done /\ (doc.status # "finished" /\ Unfinished(d) => Unfinished(d)')
  <2>1. ASSUME doc.status # "finished", Unfinished(d) PROVE Unfinished(d)'
    <3>1. known.status # "finished"
      BY <1>2, <2>1 DEF Heeded
    <3>2. "finished" \notin barriers'[d]
      BY <1>4, <1>6, <2>1, <3>1 DEF Unfinished
    <3> QED
      BY <1>1, <1>6, <2>1, <3>1, <3>2 DEF Unfinished, Listening
  <2> QED
    BY <2>1 DEF Listening
<1> QED
  BY <1>7, <1>8, <1>11, <1>12, AloneSafe DEF Listening

LEMMA DeliverSafe ==
  ASSUME IInv, NEW d \in Devices, Deliver(d)
  PROVE  IInv'
<1> DEFINE m == Head(inbox[d])
<1>1. /\ link[d] = "up" /\ inbox[d] # <<>>
      /\ inbox' = [inbox EXCEPT ![d] = Tail(@)]
      /\ IF fsm[d] = "none" THEN Learn(d, m, FALSE) ELSE Hear(d, m)
      /\ UNCHANGED <<doc, link, synced, done, missed, refilled, faults>>
  BY DEF Deliver, history
<1>2. inbox[d] \in Seq(Document)
  BY Typed DEF IInv
<1>3. \A S : inbox[d] \in Seq(S) => m \in S /\ Tail(inbox[d]) \in Seq(S)
  <2>1. ASSUME NEW S, inbox[d] \in Seq(S) PROVE m \in S /\ Tail(inbox[d]) \in Seq(S)
    BY <1>1, <2>1, HeadTailProperties
  <2> QED
    BY <2>1
<1>4. /\ m \in Document
      /\ Tail(inbox[d]) = <<>> => m = inbox[d][Len(inbox[d])]
      /\ Tail(inbox[d]) # <<>> => Tail(inbox[d])[Len(Tail(inbox[d]))] = inbox[d][Len(inbox[d])]
  <2>1. m \in Document
    BY <1>2, <1>3
  <2> QED
    BY <1>1, <1>2, <2>1, Inboxes
<1> HIDE DEF m
<1>5. /\ inbox' \in [Devices -> Seq(Document)] /\ inbox'[d] = Tail(inbox[d])
      /\ \A e \in Devices : e # d => inbox'[e] = inbox[e]
  <2>1. Tail(inbox[d]) \in Seq(Document) /\ inbox \in [Devices -> Seq(Document)]
    BY <1>2, <1>3, Typed DEF IInv
  <2> QED
    BY <1>1, <2>1
<1>6. Present' = Present
  BY <1>1 DEF Present
<1>7. ASSUME ~refilled
      PROVE  /\ inbox[d] \in Seq(Sayable) /\ ~Early
             /\ Ended /\ ~missed[d] => inbox[d][Len(inbox[d])].status = doc.status
  BY <1>1, <1>7 DEF IInv, Mine, Told, Stage, Latest
<1>8. Heeded(d, m)
  <2>1. ASSUME ~refilled PROVE m \in Sayable
    BY <1>3, <1>7, <2>1
  <2>2. ASSUME Unfinished(d) PROVE m.status # "finished"
    BY <1>3, <2>2 DEF Unfinished
  <2> QED
    BY <1>7, <2>1, <2>2 DEF Heeded, Sayable
<1>9. Listening(d, m)
  <2>1. /\ link' \in [Devices -> Links] /\ synced' \in [Devices -> BOOLEAN]
        /\ missed' \in [Devices -> BOOLEAN] /\ faults' \in 0..Budget'
    BY <1>1, <1>6, Bounded, Typed DEF IInv
  <2>2. Unfinished(d) => inbox'[d] \in Seq({n \in Document : n.status # "finished"})
    BY <1>3, <1>5 DEF Unfinished
  <2>3. ASSUME ~refilled
        PROVE  /\ inbox'[d] \in Seq(Sayable)
               /\ Ended /\ ~missed'[d] =>
                    /\ inbox'[d] # <<>> => inbox'[d][Len(inbox'[d])].status = doc.status
                    /\ inbox'[d] # <<>> \/ m.status = doc.status
    <3>1. inbox'[d] \in Seq(Sayable)
      BY <1>3, <1>5, <1>7, <2>3
    <3> QED
      BY <1>1, <1>4, <1>5, <1>7, <2>3, <3>1
  <2> QED
    BY <1>1, <1>5, <1>6, <2>1, <2>2, <2>3 DEF Listening
<1>10. CASE fsm[d] = "none"
  BY <1>1, <1>4, <1>8, <1>9, <1>10, LearnSafe
<1>11. CASE fsm[d] # "none"
  <2>1. Running(d)
    BY <1>1 DEF Running
  <2> QED
    BY <1>1, <1>4, <1>8, <1>9, <1>11, <2>1, HearSafe
<1> QED
  BY <1>10, <1>11

\* The document that a synchronization brings.
LEMMA SeenHeeded ==
  ASSUME IInv, NEW d \in Devices, Listed
  PROVE  Seen \in Document /\ Heeded(d, Seen)
<1>1. Seen \in Document /\ Seen.status = doc.status
  BY DocumentTyped DEF IInv
<1> QED
  BY <1>1 DEF Heeded, Listed, Early

\* The links after a synchronization.
LEMMA SynchronizedValues ==
  ASSUME IInv, NEW d \in Devices, Synchronized(d), link[d] \in {"joining", "starting"},
         faults' = faults
  PROVE  /\ link' \in [Devices -> Links] /\ link'[d] = "up"
         /\ synced' \in [Devices -> BOOLEAN]
         /\ \A e \in Devices : e # d => link'[e] = link[e] /\ synced'[e] = synced[e]
         /\ Present' = Present /\ faults' \in 0..Budget'
<1>1. /\ link' \in [Devices -> Links] /\ link'[d] = "up"
      /\ synced' \in [Devices -> BOOLEAN]
      /\ \A e \in Devices : e # d => link'[e] = link[e] /\ synced'[e] = synced[e]
  BY Typed DEF Synchronized, IInv, Links
<1>2. Present' = Present
  <2>1. \A r \in Receivers : link'[r] # "away" <=> link[r] # "away"
    BY <1>1, Constants
  <2> QED
    BY <2>1 DEF Present
<1> QED
  BY <1>1, <1>2, Bounded DEF IInv

LEMMA SynchronizedListens ==
  ASSUME IInv, NEW d \in Devices, Synchronized(d), link[d] \in {"joining", "starting"},
         missed' = [missed EXCEPT ![d] = @ /\ inbox[d] # <<>>],
         UNCHANGED <<doc, inbox, done, refilled, faults>>
  PROVE  Listening(d, Seen)
<1>1. /\ link' \in [Devices -> Links] /\ link'[d] = "up"
      /\ synced' \in [Devices -> BOOLEAN]
      /\ \A e \in Devices : e # d => link'[e] = link[e] /\ synced'[e] = synced[e]
      /\ Present' = Present /\ faults' \in 0..Budget'
  BY SynchronizedValues
<1>2. /\ missed' \in [Devices -> BOOLEAN] /\ missed'[d] = (missed[d] /\ inbox[d] # <<>>)
      /\ \A e \in Devices : e # d => missed'[e] = missed[e]
      /\ inbox' \in [Devices -> Seq(Document)]
  BY Typed DEF IInv
<1>3. Unfinished(d) => inbox'[d] \in Seq({n \in Document : n.status # "finished"})
  BY DEF Unfinished
<1>4. ASSUME ~refilled
      PROVE  /\ inbox'[d] \in Seq(Sayable)
             /\ Ended /\ ~missed'[d] =>
                  /\ inbox'[d] # <<>> => inbox'[d][Len(inbox'[d])].status = doc.status
                  /\ inbox'[d] # <<>> \/ Seen.status = doc.status
  <2>1. Told(d) /\ Latest(d) /\ Seen.status = doc.status
    BY <1>4, DocumentTyped DEF IInv, Mine
  <2> QED
    BY <1>2, <2>1 DEF Told, Latest
<1> QED
  BY <1>1, <1>2, <1>3, <1>4 DEF Listening

LEMMA ResyncSafe ==
  ASSUME IInv, NEW d \in Devices, Resync(d)
  PROVE  IInv'
<1>1. /\ link[d] = "joining" /\ Synchronized(d)
      /\ UNCHANGED <<doc, inbox, done, refilled, faults>>
  BY DEF Resync
<1>2. CASE /\ Listed /\ ~synced[d]
           /\ IF fsm[d] = "none" THEN Learn(d, Seen, TRUE) ELSE Hear(d, Seen)
           /\ missed' = [missed EXCEPT ![d] = @ /\ inbox[d] # <<>>]
  <2>1. Seen \in Document /\ Heeded(d, Seen)
    BY <1>2, SeenHeeded
  <2>2. Listening(d, Seen)
    BY <1>1, <1>2, SynchronizedListens
  <2>3. Running(d)
    BY <1>1 DEF Running
  <2>4. CASE fsm[d] = "none"
    BY <1>2, <2>1, <2>2, <2>4, LearnSafe
  <2>5. CASE fsm[d] # "none"
    BY <1>2, <2>1, <2>2, <2>3, <2>5, HearSafe
  <2> QED
    BY <2>4, <2>5
<1>3. CASE /\ ~Listed \/ synced[d]
           /\ UNCHANGED <<fsm, call, barriers, data, gap, missed>>
  <2>1. /\ link' \in [Devices -> Links] /\ link'[d] = "up"
        /\ synced' \in [Devices -> BOOLEAN]
        /\ \A e \in Devices : e # d => link'[e] = link[e] /\ synced'[e] = synced[e]
        /\ Present' = Present /\ faults' \in 0..Budget'
    BY <1>1, SynchronizedValues
  <2>2. Alone(d)
    BY <1>1, <1>3, <2>1 DEF Alone
  <2>3. Silent(d)' /\ Asking(d)'
    BY <1>3, <2>1 DEF IInv, Mine, Silent, Asking
  <2>4. ASSUME ~refilled PROVE Calls(d)' /\ Latest(d)'
    <3>1. Calls(d) /\ Latest(d)
      BY <2>4 DEF IInv, Mine
    <3>2. Calls(d)'
      BY <1>1, <1>3, <3>1 DEF Calls, Running, Ended
    <3>3. Latest(d)'
      <4>1. Ended => Listed
        BY DEF Ended, Listed, final
      <4>2. Heard(d)' = Heard(d) /\ Ended' = Ended
        BY <1>1, <1>3 DEF Heard, Ended
      <4> QED
        BY <1>1, <1>3, <2>1, <3>1, <4>1, <4>2 DEF Latest
    <3> QED
      BY <3>2, <3>3
  <2>5. /\ call' \in [Devices -> Answers] /\ barriers' \in [Devices -> SUBSET Barriers]
        /\ missed' \in [Devices -> BOOLEAN]
    BY <1>3, Typed DEF IInv
  <2> QED
    BY <1>1, <1>3, <2>1, <2>2, <2>3, <2>4, <2>5, StaySafe
<1> QED
  BY <1>2, <1>3 DEF Resync, machine

\* The machine goes on where the snapshot says.
LEMMA ResumeSafe ==
  ASSUME IInv, NEW d \in Devices, NEW known \in Document, Listening(d, Seen), inbox' = inbox,
         known = IF data[d].status = "none" THEN data[d] ELSE Seen,
         fsm[d] \notin {"none", "over"}, Entered(d, fsm[d], known),
         barriers' = [barriers EXCEPT ![d] = opened(d, known)],
         \/ gap' = [gap EXCEPT ![d] = IF fsm[d] \in Showing THEN "running" ELSE shown(known.status)]
         \/ gap' = [gap EXCEPT ![d] = shown(known.status)]
  PROVE  IInv'
<1>1. fsm[d] \in States /\ TypeOK
  BY Placed DEF IInv
<1>2. /\ fsm' \in [Devices -> States] /\ call' \in [Devices -> Answers]
      /\ data' \in [Devices -> Document]
      /\ fsm'[d] = fsm[d] /\ data'[d] = known
      /\ call'[d] = IF fsm[d] \in DOMAIN asks /\ (fsm[d] \in Finalizing => known.status # "none")
                      THEN "sent" ELSE "no"
      /\ \A e \in Devices \ {d} : fsm'[e] = fsm[e] /\ call'[e] = call[e] /\ data'[e] = data[e]
  BY <1>1, EnteredValues
<1>3. Seen.status = doc.status
  BY <1>1, DocumentTyped
<1>4. /\ opened(d, known) \subseteq Barriers
      /\ \A b \in {"finished", "failed", "rejected"} : b \in opened(d, known) => b = known.status
  BY DEF opened, Barriers
<1>5. /\ barriers' \in [Devices -> SUBSET Barriers] /\ barriers'[d] = opened(d, known)
      /\ \A e \in Devices : e # d => barriers'[e] = barriers[e]
  BY <1>1, <1>4, Typed
<1>6. /\ gap' \in [Devices -> final \union {"running"}]
      /\ fsm[d] = "idle" => gap'[d] = shown(known.status)
      /\ \A e \in Devices : e # d => gap'[e] = gap[e]
  <2>1. shown(known.status) \in final \union {"running"}
    BY DEF shown
  <2>2. gap \in [Devices -> final \union {"running"}]
    BY <1>1, Typed
  <2>3. "idle" \notin Showing
    BY DEF Showing
  <2>4. CASE gap' = [gap EXCEPT ![d] = IF fsm[d] \in Showing THEN "running"
                                       ELSE shown(known.status)]
    BY <2>1, <2>2, <2>3, <2>4
  <2>5. CASE gap' = [gap EXCEPT ![d] = shown(known.status)]
    BY <2>1, <2>2, <2>5
  <2> QED
    BY <2>4, <2>5
<1>7. Alone(d)
  BY <1>2, <1>5, <1>6 DEF Alone, Listening
<1>8. TypeOK'
  <2>1. \A r \in Receivers : fsm'[r] \notin {"create", "init", "wait"}
    BY <1>1, <1>2, Typed, Constants
  <2> QED
    BY <1>1, <1>2, <1>5, <1>6, <2>1, Typed, TypedNext DEF Listening
<1>9. Early' = Early /\ Ended' = Ended /\ doc' = doc
  BY DEF Early, Ended, Listening
<1>10. ASSUME ~refilled
       PROVE  (Told(d) /\ Knows(d) /\ Opens(d) /\ Calls(d) /\ Stage(d) /\ Latest(d))'
  <2>1. Knows(d) /\ Stage(d)
    BY <1>10 DEF IInv, Mine
  <2>2. Early => inbox'[d] = <<>>
    BY <1>10, <2>1 DEF Stage
  <2>3. data[d].status = "none" => d = Sender /\ Early
    BY <2>1 DEF Knows
  <2>4. Told(d)'
    BY <1>9, <1>10 DEF Told, Sayable, Listening
  <2>5. Knows(d)'
    BY <1>2, <1>3, <1>9, <2>1 DEF Knows
  <2>6. Opens(d)'
    <3>1. known.status \in final => known.status = doc.status
      BY <1>3, <2>1 DEF Knows
    <3> QED
      BY <1>4, <1>5, <1>9, <3>1 DEF Opens, final
  <2>7. Calls(d)'
    <3>1. fsm[d] \in Finalizing => call'[d] = IF known.status # "none" THEN "sent" ELSE "no"
      BY <1>2, AsksTyped
    <3>2. fsm[d] = "create" => call'[d] = "sent"
      BY <1>2, Asks DEF Finalizing
    <3> QED
      BY <1>2, <3>1, <3>2 DEF Calls
  <2>8. Stage(d)'
    <3>1. fsm[d] = "idle" => gap'[d] = "rejected"
      <4>1. ASSUME fsm[d] = "idle" PROVE known = Seen /\ doc.status = "rejected"
        BY <2>1, <4>1 DEF Knows, Stage
      <4> QED
        BY <1>3, <1>6, <4>1 DEF shown, final
    <3> QED
      BY <1>2, <1>9, <2>1, <2>2, <3>1 DEF Stage
  <2>9. Latest(d)'
    <3>1. Ended => known = Seen
      BY <2>3 DEF Early, Ended, final
    <3>2. Ended => Heard(d)'
      BY <1>2, <1>3, <1>9, <3>1 DEF Heard
    <3> QED
      BY <1>9, <1>10, <3>2 DEF Latest, Listening
  <2> QED
    BY <2>4, <2>5, <2>6, <2>7, <2>8, <2>9
<1>11. Mine(d)'
  <2>1. Fits(d, fsm[d])' /\ Silent(d)' /\ Asking(d)'
    BY <1>2 DEF IInv, Mine, Fits, Silent, Asking, Listening
  <2> QED
    BY <1>10, <2>1 DEF Mine, Listening
<1>12. done' = done /\ (doc.status # "finished" /\ Unfinished(d) => Unfinished(d)')
  <2>1. ASSUME doc.status # "finished", Unfinished(d) PROVE Unfinished(d)'
    <3>1. known.status # "finished"
      BY <1>3, <2>1 DEF Unfinished
    <3> QED
      BY <1>2, <1>4, <1>5, <2>1, <3>1 DEF Unfinished, Listening
  <2> QED
    BY <2>1 DEF Listening
<1> QED
  BY <1>7, <1>8, <1>11, <1>12, AloneSafe DEF Listening

\* Without a transaction that meta lists, a machine that was over is removed.
LEMMA RemovedSafe ==
  ASSUME IInv, NEW d \in Devices, Listening(d, Seen), inbox' = inbox,
         fsm[d] \in {"none", "over"}, ~Listed,
         fsm' = [fsm EXCEPT ![d] = "none"], UNCHANGED <<call, data, gap, barriers>>
  PROVE  IInv'
<1>1. TypeOK
  BY DEF IInv
<1>2. /\ fsm' \in [Devices -> States] /\ fsm'[d] = "none"
      /\ \A e \in Devices : e # d => fsm'[e] = fsm[e]
  BY <1>1, Typed DEF States
<1>3. Alone(d)
  BY <1>2 DEF Alone, Listening
<1>4. TypeOK'
  <2>1. \A r \in Receivers : fsm'[r] \notin {"create", "init", "wait"}
    BY <1>1, <1>2, Typed, Constants
  <2> QED
    BY <1>1, <1>2, <2>1, Typed, TypedNext DEF Listening
<1>5. /\ Early' = Early /\ Ended' = Ended /\ doc' = doc
      /\ Early /\ ~Ended
  BY DEF Early, Ended, Listening, Listed, final
<1>6. call[d] = "no"
  BY Asks DEF IInv, Mine, Asking
<1>7. ASSUME ~refilled
      PROVE  (Told(d) /\ Knows(d) /\ Opens(d) /\ Calls(d) /\ Stage(d) /\ Latest(d))'
  <2>1. Knows(d) /\ Opens(d) /\ Stage(d)
    BY <1>7 DEF IInv, Mine
  <2>2. inbox'[d] = <<>>
    BY <1>5, <2>1 DEF Stage
  <2>3. d # doc.device
    BY <1>5, <1>7, Constants DEF IInv, Documented, Early, final
  <2>4. Told(d)'
    BY <2>2, EmptyIn DEF Told
  <2>5. Knows(d)' /\ Opens(d)'
    BY <1>2, <1>5, <2>1 DEF Knows, Opens
  <2>6. Calls(d)'
    BY <1>2 DEF Calls, Finalizing
  <2>7. Stage(d)' /\ Latest(d)'
    BY <1>2, <1>5, <2>2, <2>3 DEF Stage, Latest
  <2> QED
    BY <2>4, <2>5, <2>6, <2>7
<1>8. Mine(d)'
  <2>1. Fits(d, fsm[d])' /\ Silent(d)' /\ Asking(d)'
    BY <1>2, <1>6 DEF Fits, Silent, Asking, Listening
  <2> QED
    BY <1>7, <2>1 DEF Mine, Listening
<1>9. done' = done /\ (doc.status # "finished" /\ Unfinished(d) => Unfinished(d)')
  BY <1>2 DEF Unfinished, Listening
<1> QED
  BY <1>3, <1>4, <1>8, <1>9, AloneSafe DEF Listening

LEMMA RestoreSafe ==
  ASSUME IInv, NEW d \in Devices, Restore(d)
  PROVE  IInv'
<1>1. /\ link[d] = "starting" /\ Synchronized(d)
      /\ missed' = [missed EXCEPT ![d] = @ /\ inbox[d] # <<>>]
      /\ UNCHANGED <<doc, inbox, done, refilled, faults>>
  BY DEF Restore
<1>2. Listening(d, Seen)
  BY <1>1, SynchronizedListens
<1> DEFINE known == IF data[d].status = "none" THEN data[d] ELSE Seen
<1>3. CASE fsm[d] \in {"none", "over"} /\ Listed /\ Learn(d, Seen, TRUE)
  <2>1. Seen \in Document /\ Heeded(d, Seen)
    BY <1>3, SeenHeeded
  <2> QED
    BY <1>2, <1>3, <2>1, LearnSafe
<1>4. CASE /\ fsm[d] \in {"none", "over"} /\ ~Listed
           /\ fsm' = [fsm EXCEPT ![d] = "none"]
           /\ UNCHANGED <<call, data, gap, barriers>>
  BY <1>1, <1>2, <1>4, RemovedSafe
<1>5. CASE /\ fsm[d] \notin {"none", "over"}
           /\ Entered(d, fsm[d], known)
           /\ barriers' = [barriers EXCEPT ![d] = opened(d, known)]
           /\ \/ gap' = [gap EXCEPT ![d] = IF fsm[d] \in Showing THEN "running"
                                           ELSE shown(known.status)]
              \/ /\ ~concerned(d, known)
                 /\ gap' = [gap EXCEPT ![d] = shown(known.status)]
  <2>1. known \in Document
    BY Placed, DocumentTyped DEF IInv
  <2> QED
    BY <1>1, <1>2, <1>5, <2>1, ResumeSafe
<1> QED
  BY <1>3, <1>4, <1>5 DEF Restore

-----------------------------------------------------------------------------
(***************************************************************************)
(* The theorems.                                                           *)
(***************************************************************************)
LEMMA NextSafe == IInv /\ [Next]_vars => IInv'
<1> SUFFICES ASSUME IInv, [Next]_vars PROVE IInv'
  OBVIOUS
<1>1. ASSUME NEW d \in Devices, Serve(d) PROVE IInv'
  BY <1>1, CreateSafe, FillSafe, UpdateSafe DEF Serve
<1>2. ASSUME NEW d \in Devices, Advance(d) PROVE IInv'
  BY <1>2, ProceedSafe, SkipSafe, TriggerSafe, EndSafe DEF Advance
<1>3. ASSUME NEW d \in Devices, Listen(d) PROVE IInv'
  BY <1>3, DeliverSafe, ResyncSafe, RestoreSafe, ReconnectSafe DEF Listen
<1>4. ASSUME NEW d \in Devices, Retry(d) \/ Cancel(d) \/ Error(d) \/ Forget(d) \/ Cut(d) \/ Crash(d)
      PROVE  IInv'
  BY <1>4, RetrySafe, CancelSafe, ErrorSafe, ForgetSafe, CutSafe, CrashSafe
<1>5. ASSUME NEW r \in Receivers, Decide(r) \/ Transfer(r) PROVE IInv'
  BY <1>5, DecideSafe, TransferSafe
<1>6. CASE Upload
  BY <1>6, UploadSafe
<1>7. CASE UNCHANGED vars
  <2>1. UNCHANGED <<doc, link, inbox, synced, fsm, call, barriers, data, gap, done, missed,
                    refilled, faults>>
    BY <1>7 DEF vars, network, machine, history
  <2>2. UNCHANGED <<Present, Early, Ended, Sayable>>
    BY <2>1 DEF Present, Early, Ended, Sayable
  <2>3. TypeOK'
    <3>1. Budget' = Budget
      BY <2>2 DEF Budget
    <3> QED
      BY <2>1, <3>1, Typed, TypedNext DEF IInv
  <2>4. ASSUME NEW d \in Devices PROVE Mine(d)' /\ (Unfinished(d) => Unfinished(d)')
    <3>1. Alone(d) /\ Mine(d)
      BY <2>1 DEF Alone, IInv
    <3>2. Heard(d)' = Heard(d) /\ Running(d)' = Running(d)
      BY <2>1 DEF Heard, Running
    <3>3. Unfinished(d) => Unfinished(d)'
      BY <2>1 DEF Unfinished
    <3>4. Fits(d, fsm[d])' /\ Silent(d)' /\ Asking(d)'
      BY <2>1, <3>1 DEF Mine, Fits, Silent, Asking
    <3>5. ASSUME ~refilled
          PROVE  (Told(d) /\ Knows(d) /\ Opens(d) /\ Calls(d) /\ Stage(d) /\ Latest(d))'
      <4>1. Told(d) /\ Knows(d) /\ Opens(d) /\ Calls(d) /\ Stage(d) /\ Latest(d)
        BY <3>1, <3>5 DEF Mine
      <4> QED
        BY <2>1, <2>2, <3>2, <4>1 DEF Told, Knows, Opens, Calls, Stage, Latest
    <3> QED
      BY <2>1, <3>3, <3>4, <3>5 DEF Mine
  <2>5. (~refilled => Documented)'
    BY <2>1 DEF IInv, Documented
  <2>6. Undelivered'
    BY <2>1, <2>4 DEF IInv, Undelivered
  <2> QED
    BY <2>2, <2>3, <2>4, <2>5, <2>6 DEF IInv
<1> QED
  BY <1>1, <1>2, <1>3, <1>4, <1>5, <1>6, <1>7 DEF Next

LEMMA Invariant == Spec => []IInv
<1> QED
  BY Initial, NextSafe, PTL DEF Spec

\* Theorem: neither the sender nor the device that accepted is over with a transaction
\* before meta is, and a device that is over and missed nothing shows how it ended
\* (TransactionMachine.cc, _finalize and _end; Transaction.cc, on_transaction_update):
\* what a device has heard, opened or was answered of an end is the one that meta has.
THEOREM RightlyOver == Spec => []OverRightly
<1>1. IInv => OverRightly
  <2> SUFFICES ASSUME IInv PROVE OverRightly
    OBVIOUS
  <2>1. ASSUME NEW d \in Devices, fsm[d] = "over", d \in {Sender, doc.device}, ~refilled
        PROVE  doc.status \in final \union {"none", "created"}
    BY <2>1 DEF IInv, Mine, Stage, Ended, Early
  <2>2. ASSUME NEW d \in Devices, fsm[d] \in {"over", "idle"}, link[d] = "up", inbox[d] = <<>>,
               doc.status \in final, ~missed[d], ~refilled
        PROVE  gap[d] = doc.status
    <3>1. Stage(d) /\ Latest(d)
      BY <2>2 DEF IInv, Mine
    <3> QED
      BY <2>2, <3>1 DEF Stage, Latest, Heard, Ended
  <2> QED
    BY <2>1, <2>2 DEF OverRightly, NeverForgotten, Agree, IInv
<1> QED
  BY <1>1, Invariant, PTL

\* Theorem: a transaction is finished when a device of the recipient has all its files
\* (ReceiveMachine.cc, _finish): no machine, barrier, document or notification says
\* "finished" before.
THEOREM FinishedDelivered == Spec => []Delivered
<1>1. IInv => Delivered
  BY DEF IInv, Undelivered, Delivered
<1> QED
  BY <1>1, Invariant, PTL

=============================================================================
