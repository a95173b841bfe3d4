----------------------------- MODULE CloudBuffer -----------------------------
(***************************************************************************)
(* The buffer in the cloud of a transaction between two users: a bucket    *)
(* where the device of the sender puts the blocks that the device of the   *)
(* recipient lacks while that one is away, and from which the recipient    *)
(* takes them when the sender is.  The same blocks may pass directly from  *)
(* one device to the other when both are there, so the sender keeps one    *)
(* progress for the two ways: the blocks below it have left for good, and  *)
(* an upload starts from it.                                               *)
(*                                                                         *)
(* The blocks of the files follow one another in the order of the files:   *)
(* a block is its rank, and a progress is a number of blocks, as           *)
(* progress_from and progress_increment count them.                        *)
(***************************************************************************)
EXTENDS Naturals, FiniteSets, FiniteSetsExt, Functions

CONSTANTS Total,      \* the blocks of all files
          Starts,     \* the first block of each file
          Threads,    \* the coroutines of an upload
          Threshold,  \* the blocks sent before progress is acknowledged
          Window,     \* the blocks the recipient asks for at a time
          Preemptive, \* does the sender upload though the recipient is there?
          MaxFaults   \* bound: departures, crashes and refusals of the bucket

ASSUME CloudAssumption ==
  /\ Total \in Nat \ {0} /\ Starts \subseteq 0..(Total - 1)
  /\ IsFiniteSet(Threads) /\ Threads # {}
  /\ Threshold \in Nat \ {0} /\ Window \in Nat \ {0}
  /\ Preemptive \in BOOLEAN /\ MaxFaults \in Nat

Sender == "sender"
Recipient == "recipient"
Devices == {Sender, Recipient}
Peer(d) == IF d = Sender THEN Recipient ELSE Sender

VARIABLES
  status,    \* the status of the transaction on the server
  token,     \* the document holds credentials of the bucket
  meta_data, \* the bucket holds the description of the files
  bucket,    \* the blocks the bucket holds
  online,    \* the devices the notification server knows
  knows,     \* whether each device believes that the other one is there
  at,        \* the state of the machine of each device
  job,       \* what the operation of the device on the bucket is doing
  progress,  \* the progress the sender keeps in memory
  saved,     \* ... and in its snapshot
  up,        \* the local variables of an upload
  received,  \* the blocks the recipient wrote
  nothing,   \* _nothing_in_the_cloud
  bufferer,  \* the recipient built a bufferer since it started
  cleaned,   \* the recipient removed the snapshot of its files
  told,      \* history: the sender told that everything is in the cloud
  excuse,    \* history: what the recipient met that nothing repairs
  faults

server == <<status, token>>
s3 == <<meta_data, bucket>>
presence == <<online, knows>>
sender == <<progress, saved, up>>
recipient == <<received, nothing, bufferer, cleaned>>
history == <<told, excuse, faults>>
vars == <<server, s3, presence, at, job, sender, recipient, history>>

Ended == Total + 1
Fresh == Total + 2

\* pipeline_cloud_upload's variables when an upload begins
NewUpload ==
  [cursor |-> 0, thread |-> [w \in Threads |-> Fresh],
   last |-> [w \in Threads |-> 0], ack |-> 0, save |-> FALSE, since |-> 0]

Final == status = "finished"

TypeOK ==
  /\ status \in {"initialized", "cloud_buffered", "accepted", "finished"}
  /\ token \in BOOLEAN /\ meta_data \in BOOLEAN
  /\ bucket \subseteq 0..(Total - 1)
  /\ online \subseteq Devices
  /\ knows \in [Devices -> BOOLEAN]
  /\ at[Sender] \in {"off", "halted", "waiting", "looking", "away", "direct",
                     "finish", "done"}
  /\ at[Recipient] \in {"off", "halted", "undecided", "sync", "looking", "away",
                        "direct", "finish", "end", "done"}
  /\ job[Sender] \in {"none", "delay", "credentials", "meta_data", "upload",
                      "update", "rest"}
  /\ job[Recipient] \in {"none", "begin", "get", "rest"}
  /\ saved \in 0..progress /\ progress \in 0..Total
  /\ received \in 0..Total

-----------------------------------------------------------------------------
(***************************************************************************)
(* The upload                                                              *)
(***************************************************************************)
\* _wait_for_accept: what the sender does until the recipient answers.
Decision(there) ==
  CASE status # "cloud_buffered" /\ ~there -> "credentials"
    [] status # "cloud_buffered" /\ there /\ Preemptive -> "delay"
    [] OTHER -> "rest"

Become(d, state, work) ==
  /\ at' = [at EXCEPT ![d] = state]
  /\ job' = [job EXCEPT ![d] = work]

Work(d, work) == job' = [job EXCEPT ![d] = work] /\ UNCHANGED at

\* The grace period of a recipient that is there but does not answer is over.
Buffer ==
  /\ job[Sender] = "delay" /\ Work(Sender, "credentials")
  /\ UNCHANGED <<server, s3, presence, sender, recipient, history>>

\* What went directly is saved, and the server gives credentials, which it
\* keeps for the recipient; a transaction that is over has none.
Credentials ==
  /\ job[Sender] = "credentials"
  /\ saved' = progress
  /\ IF Final THEN Work(Sender, "rest") /\ UNCHANGED token
              ELSE Work(Sender, "meta_data") /\ token' = TRUE
  /\ UNCHANGED <<status, s3, presence, progress, up, recipient, history>>

\* The constructor of the sender's S3TransferBufferer.
PutMetaData ==
  /\ job[Sender] = "meta_data" /\ Work(Sender, "upload")
  /\ meta_data' = TRUE
  /\ up' = NewUpload
  /\ UNCHANGED <<server, bucket, presence, progress, saved, recipient, history>>

\* The block the next coroutine reads: a file is entered at its progress.
Next_block == IF up.cursor \in Starts THEN Max({up.cursor, progress})
                                      ELSE up.cursor

\* Faulty: what the fastest coroutine stored.
AcknowledgedFast(last) == Max(Range(last))

\* Every block before the smallest of the last blocks stored is stored.
Acknowledged(last) == Min(Range(last))

\* What an answer of the bucket changes before the coroutine goes on.
Answered(w) ==
  LET block == up.thread[w]
      last == [up.last EXCEPT ![w] = block]
      since == Min({up.since + 1, Threshold})
  IN IF block = Fresh THEN up
     ELSE [up EXCEPT !.last = last, !.since = since,
             !.ack = IF since = Threshold THEN Acknowledged(last) ELSE @,
             !.save = @ \/ since = Threshold]

\* encrypted_read_acknowledge: an acknowledgment that is behind is ignored.
Acknowledge(count) == progress' = Max({progress, count})

\* The variables of an upload go away with its coroutines.
Drop == up' = NewUpload /\ UNCHANGED <<progress, saved>>

\* A coroutine has its answer, takes the next block and asks to store it; it
\* does not yield in between.
Take(w) ==
  LET u == Answered(w) IN
  /\ job[Sender] = "upload"
  /\ up.thread[w] \in bucket \cup {Fresh}
  /\ IF Next_block >= Total
       THEN /\ up' = [u EXCEPT !.cursor = Total, !.thread[w] = Ended]
            /\ UNCHANGED <<progress, saved>>
       ELSE /\ up' = [u EXCEPT !.cursor = Next_block + 1,
                               !.thread[w] = Next_block, !.save = FALSE]
            /\ Acknowledge(u.ack)
            /\ saved' = IF u.save THEN progress' ELSE saved
  /\ UNCHANGED <<server, s3, presence, at, job, recipient, history>>

\* The bucket stores a block.
Store(w) ==
  /\ job[Sender] = "upload" /\ up.thread[w] \in 0..(Total - 1) \ bucket
  /\ bucket' = bucket \cup {up.thread[w]}
  /\ UNCHANGED <<server, meta_data, presence, at, job, sender, recipient, history>>

\* Every coroutine has ended.
Over == \A w \in Threads : up.thread[w] = Ended

\* All is acknowledged and saved.
Join ==
  /\ job[Sender] = "upload" /\ Over
  /\ Acknowledge(Total) /\ saved' = Total /\ up' = NewUpload
  /\ Work(Sender, "update")
  /\ UNCHANGED <<server, s3, presence, recipient, history>>

\* The server keeps an accepted transaction accepted.
Update ==
  /\ job[Sender] = "update" /\ Work(Sender, "rest")
  /\ status' = IF status = "initialized" THEN "cloud_buffered" ELSE status
  /\ told' = (told \/ ~Final)
  /\ excuse' = IF at[Recipient] = "away" /\ job[Recipient] = "rest" /\ ~Final
               THEN excuse \cup {"asleep"} ELSE excuse
  /\ UNCHANGED <<token, s3, presence, sender, recipient, faults>>

\* The bucket refuses: the operation stops, and is not tried again.
Refused ==
  /\ faults < MaxFaults /\ faults' = faults + 1
  /\ job[Sender] \in {"meta_data", "upload"} /\ Work(Sender, "rest") /\ Drop
  /\ UNCHANGED <<server, s3, presence, recipient, told, excuse>>

-----------------------------------------------------------------------------
(***************************************************************************)
(* The download                                                            *)
(***************************************************************************)
\* The user of the recipient accepts.  Without credentials in the answer of
\* the server, the first operation on the bucket does nothing.
Accept ==
  /\ at[Recipient] = "undecided" /\ Recipient \in online
  /\ status \in {"initialized", "cloud_buffered"}
  /\ status' = "accepted"
  /\ nothing' = ~token
  /\ Become(Recipient, "sync", "begin")
  /\ UNCHANGED <<token, s3, presence, sender, received, bufferer, cleaned, history>>

\* The constructor of the recipient's S3TransferBufferer: without the
\* description of the files there is nothing to get.
ReadMetaData ==
  /\ Work(Recipient, IF meta_data THEN "get" ELSE "rest")
  /\ bufferer' = (bufferer \/ meta_data)

\* The operation returns at once, or its bufferer reads what there is.
BeginGet ==
  /\ job[Recipient] = "begin"
  /\ nothing' = FALSE
  /\ IF nothing \/ Final
       THEN Work(Recipient, "rest") /\ UNCHANGED <<token, bufferer>>
       ELSE token' = TRUE /\ ReadMetaData
  /\ UNCHANGED <<status, s3, presence, sender, received, cleaned, history>>

Get ==
  /\ job[Recipient] = "get" /\ received \in bucket
  /\ received' = received + 1
  /\ UNCHANGED <<server, s3, presence, at, job, sender, nothing, bufferer,
                 cleaned, history>>

\* Faulty: the readers do not stop at the end of the last file.
AskedPast == received..(received + Window - 1)

\* The blocks that the readers have asked for.
Asked == received..(Min({received + Window, Total}) - 1)

\* DataExhausted: a block that was asked for is not there.
Exhausted ==
  /\ job[Recipient] = "get" /\ ~(Asked \subseteq bucket)
  /\ Work(Recipient, "rest")
  /\ UNCHANGED <<server, s3, presence, sender, recipient, history>>

\* Any other error: "We don't ever retry cloud DL".
GetFailed ==
  /\ faults < MaxFaults /\ faults' = faults + 1
  /\ job[Recipient] = "get" /\ Work(Recipient, "rest")
  /\ excuse' = excuse \cup {"failed"}
  /\ UNCHANGED <<server, s3, presence, sender, recipient, told>>

\* All is written: the snapshot of the files is removed, then the state
\* "finish" is saved.
Clean ==
  /\ job[Recipient] = "get" \/ at[Recipient] = "direct"
  /\ received = Total /\ ~cleaned
  /\ cleaned' = TRUE
  /\ UNCHANGED <<server, s3, presence, at, job, sender, received, nothing,
                 bufferer, history>>

GetDone ==
  /\ job[Recipient] = "get" /\ cleaned /\ Become(Recipient, "finish", "none")
  /\ UNCHANGED <<server, s3, presence, sender, recipient, history>>

-----------------------------------------------------------------------------
(***************************************************************************)
(* The states of the two machines                                          *)
(***************************************************************************)
\* The sender learns that the recipient accepted.
Accepted ==
  /\ at[Sender] = "waiting" /\ status = "accepted" /\ Sender \in online
  /\ Become(Sender, "looking", "none") /\ Drop
  /\ UNCHANGED <<server, s3, presence, recipient, history>>

\* The recipient has read what the bucket held, and looks for the sender.
Synchronized ==
  /\ at[Recipient] = "sync" /\ job[Recipient] = "rest"
  /\ Become(Recipient, "looking", "none")
  /\ UNCHANGED <<server, s3, presence, sender, recipient, history>>

\* The other device is away: the cloud.  It is back: the cloud is left.
Depart(d) ==
  /\ at[d] = "looking" /\ ~knows[d]
  /\ Become(d, "away", IF d = Sender THEN "credentials" ELSE "begin")
  /\ UNCHANGED <<server, s3, presence, sender, recipient, history>>

Rejoin(d) ==
  /\ at[d] = "away" /\ knows[d] /\ Become(d, "looking", "none")
  /\ IF d = Sender THEN Drop ELSE UNCHANGED sender
  /\ UNCHANGED <<server, s3, presence, recipient, history>>

Connect ==
  /\ \A d \in Devices : at[d] = "looking" /\ knows[d] /\ d \in online
  /\ at' = [d \in Devices |-> "direct"]
  /\ saved' = progress
  /\ UNCHANGED <<server, s3, presence, job, progress, up, recipient, history>>

\* Faulty: only the notification server tells of the other device.
BrokenSaid(d) == ~knows[d]

\* The other end of the connection is gone, or the other device is said away.
Broken(d) == at[Peer(d)] # "direct" \/ ~knows[d]

LinkLost(d) ==
  /\ at[d] = "direct" /\ Broken(d)
  /\ Become(d, "looking", "none")
  /\ UNCHANGED <<server, s3, presence, sender, recipient, history>>

\* The recipient asks for a block, and acknowledges those before.
Direct ==
  /\ at[Sender] = "direct" /\ at[Recipient] = "direct" /\ received < Total
  /\ Acknowledge(received)
  /\ received' = received + 1
  /\ UNCHANGED <<server, s3, presence, at, job, saved, up, nothing, bufferer,
                 cleaned, history>>

\* source.finish(), which opens the barrier of the sender.
Tell ==
  /\ at[Sender] = "direct" /\ at[Recipient] = "direct" /\ cleaned
  /\ progress' = Total
  /\ at' = [at EXCEPT ![Sender] = "finish", ![Recipient] = "finish"]
  /\ UNCHANGED <<server, s3, presence, job, saved, up, recipient, history>>

\* _finish tells the server, and _end cleans the bucket of the recipient.
Finish(d) ==
  /\ at[d] = "finish" /\ status' = "finished"
  /\ at' = [at EXCEPT ![d] = IF d = Sender THEN "done" ELSE "end"]
  /\ UNCHANGED <<token, s3, presence, job, sender, recipient, history>>

\* The folder of the transaction is deleted.
CleanUp == bucket' = {} /\ meta_data' = FALSE

End ==
  /\ at[Recipient] = "end" /\ Become(Recipient, "done", "none")
  /\ IF bufferer THEN CleanUp ELSE UNCHANGED s3
  /\ UNCHANGED <<server, presence, sender, recipient, history>>

\* A device learns that the transaction is finished.
Finished(d) ==
  /\ Final /\ d \in online
  /\ at[d] \notin {"off", "halted", "finish", "end", "done"}
  /\ Become(d, IF d = Sender THEN "done" ELSE "end", "none")
  /\ IF d = Sender THEN Drop ELSE UNCHANGED sender
  /\ UNCHANGED <<server, s3, presence, recipient, history>>

-----------------------------------------------------------------------------
(***************************************************************************)
(* Faults                                                                  *)
(***************************************************************************)
Told(d, there) == IF Peer(d) \in online THEN [knows EXCEPT ![Peer(d)] = there]
                                        ELSE knows

Leave(d) ==
  /\ faults < MaxFaults /\ faults' = faults + 1
  /\ d \in online /\ at[d] # "done"
  /\ online' = online \ {d} /\ knows' = Told(d, FALSE)
  /\ UNCHANGED <<server, s3, at, job, sender, recipient, told, excuse>>

\* reset(): the machine of a transfer starts again.
Reset(d) ==
  IF at[d] \in {"sync", "looking", "away", "direct"}
    THEN IF d = Sender THEN Become(d, "looking", "none") /\ Drop
                       ELSE Become(d, "sync", "begin") /\ UNCHANGED sender
    ELSE UNCHANGED <<at, job, sender>>

Appear(d) ==
  /\ online' = online \cup {d}
  /\ knows' = [Told(d, TRUE) EXCEPT ![d] = Peer(d) \in online]

Return(d) ==
  /\ d \notin online /\ at[d] \notin {"off", "halted"}
  /\ Appear(d) /\ Reset(d)
  /\ UNCHANGED <<server, s3, recipient, history>>

\* The client of a device dies.  Its machine had saved that it finishes, or
\* is restored from the status of the transaction.
Crash(d) ==
  /\ faults < MaxFaults /\ faults' = faults + 1
  /\ at[d] \notin {"off", "halted", "done", "end"}
  /\ Become(d, IF at[d] = "finish" THEN "halted" ELSE "off", "none")
  /\ online' = online \ {d} /\ knows' = Told(d, FALSE)
  /\ IF d = Sender
       THEN /\ progress' = saved /\ up' = NewUpload
            /\ UNCHANGED <<saved, recipient, excuse>>
       ELSE /\ nothing' = FALSE /\ bufferer' = FALSE
            /\ IF cleaned /\ at[d] # "finish"
                 THEN /\ received' = 0 /\ cleaned' = FALSE
                      /\ excuse' = excuse \cup {"lost"}
                 ELSE UNCHANGED <<received, cleaned, excuse>>
            /\ UNCHANGED sender
  /\ UNCHANGED <<server, s3, told>>

RestartSender ==
  IF status = "accepted" THEN Become(Sender, "looking", "none")
  ELSE Become(Sender, "waiting", Decision(Recipient \in online))

RestartRecipient ==
  IF status \in {"accepted", "finished"} THEN Become(Recipient, "sync", "begin")
  ELSE Become(Recipient, "undecided", "none")

Restart(d) ==
  /\ at[d] \in {"off", "halted"}
  /\ Appear(d)
  /\ IF at[d] = "halted" THEN Become(d, "finish", "none")
     ELSE IF d = Sender THEN RestartSender ELSE RestartRecipient
  /\ UNCHANGED <<server, s3, sender, recipient, history>>

-----------------------------------------------------------------------------
Init ==
  /\ status = "initialized" /\ token = FALSE
  /\ meta_data = FALSE /\ bucket = {}
  /\ online = Devices /\ knows = [d \in online |-> TRUE]
  /\ at = [d \in Devices |-> IF d = Sender THEN "waiting" ELSE "undecided"]
  /\ job = [d \in Devices |-> IF d = Sender THEN Decision(TRUE) ELSE "none"]
  /\ progress = 0 /\ saved = 0 /\ up = NewUpload
  /\ received = 0 /\ nothing = FALSE /\ bufferer = FALSE /\ cleaned = FALSE
  /\ told = FALSE /\ excuse = {} /\ faults = 0

\* What a client does by itself.
SenderStep ==
  \/ Buffer \/ Credentials \/ PutMetaData \/ Join \/ Update
  \/ \E w \in Threads : Take(w) \/ Store(w)
  \/ Accepted \/ Depart(Sender) \/ Rejoin(Sender) \/ LinkLost(Sender)
  \/ Finish(Sender) \/ Finished(Sender)

RecipientStep ==
  \/ BeginGet \/ Get \/ Exhausted \/ Clean \/ GetDone \/ Synchronized
  \/ Depart(Recipient) \/ Rejoin(Recipient) \/ LinkLost(Recipient)
  \/ Finish(Recipient) \/ End \/ Finished(Recipient)

Link == Connect \/ Direct \/ Tell

Fault ==
  \/ Refused \/ GetFailed
  \/ \E d \in Devices : Leave(d) \/ Return(d) \/ Crash(d) \/ Restart(d)

Next == SenderStep \/ RecipientStep \/ Link \/ Accept \/ Fault

Fairness == WF_vars(SenderStep) /\ WF_vars(RecipientStep) /\ WF_vars(Link)

Spec == Init /\ [][Next]_vars /\ Fairness

-----------------------------------------------------------------------------
\* The blocks that the recipient lacks.
Lacking == received..(Total - 1)

\* A block below the progress of the sender, which no upload will send any
\* more even after a restart, is in the bucket or was received, whatever the
\* coroutines store in which order (PeerSendMachine.cc:794): the exception is
\* a recipient that died after the removal of its snapshot.
Honest ==
  Final \/ "lost" \in excuse \/ 0..(progress - 1) \ bucket \subseteq 0..(received - 1)

\* So once the sender told that all is in the cloud, the bucket holds the
\* description of the files and every block that the recipient lacks,
\* though some may have passed directly before the upload began.
Promise ==
  /\ TypeOK /\ Honest
  /\ told /\ ~Final /\ "lost" \notin excuse => meta_data /\ Lacking \subseteq bucket

\* Once all is in the cloud and accepted, the recipient gets everything even
\* if the sender never comes back, unless an error of the bucket or the
\* removal of its snapshot stopped it, or it waited already when the rest
\* came (PeerReceiveMachine.cc:418).
Served ==
  []<>(Recipient \in online) =>
    (told /\ status = "accepted" ~> Final \/ excuse # {})

\* When both devices end up there for good, an accepted transaction is
\* finished, whichever way its blocks went and whatever was interrupted.
Completes ==
  <>[](online = Devices) => (status = "accepted" ~> Final)

=============================================================================
