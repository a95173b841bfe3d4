----------------------------- MODULE CloudProofs -----------------------------
(***************************************************************************)
(* Proofs about CloudBuffer for any number of blocks, files, coroutines    *)
(* and faults: what the sender counts as sent has been received or is in   *)
(* the cloud.                                                              *)
(***************************************************************************)
EXTENDS CloudBuffer, TLAPS, WellFoundedInduction

-----------------------------------------------------------------------------
(***************************************************************************)
(* The inductive invariant.                                                *)
(***************************************************************************)

Blocks == 0..(Total - 1)

Places == {"off", "halted", "waiting", "undecided", "sync", "looking", "away", "direct",
           "finish", "end", "done"}
Works == {"none", "delay", "credentials", "meta_data", "upload", "update", "begin", "get",
          "rest"}

Uploads == [cursor : 0..Total, thread : [Threads -> 0..Fresh], last : [Threads -> 0..Total],
            ack : 0..Total, save : BOOLEAN, since : Nat]

Typed ==
  /\ TypeOK
  /\ at \in [Devices -> Places] /\ job \in [Devices -> Works]
  /\ up \in Uploads

\* The transaction goes on, and its recipient has not lost what he had.
Live == ~Final /\ "lost" \notin excuse

\* What the recipient has, or finds in the bucket.
Safe(b) == b \in bucket \/ b < received
SafeBelow(n) == \A b \in 0..(n - 1) : Safe(b)

\* What the sender will never send again is safe.
Acknowledging == Live => SafeBelow(progress)

\* A coroutine stores one of the blocks that were taken, after those it has stored;
\* one that ended found nothing to take.
Ordered ==
  job[Sender] = "upload" =>
    \A w \in Threads :
      /\ up.last[w] =< up.cursor
      /\ \/ up.thread[w] = Fresh /\ up.last[w] = 0
         \/ up.thread[w] = Ended /\ up.cursor = Total
         \/ up.thread[w] \in Blocks /\ up.last[w] =< up.thread[w] /\ up.thread[w] < up.cursor

\* A block that was taken is safe, or a coroutine is storing it; what is to be
\* acknowledged is safe.
Uploading ==
  job[Sender] = "upload" /\ Live =>
    /\ meta_data
    /\ \A b \in 0..(up.cursor - 1) : Safe(b) \/ \E w \in Threads : up.thread[w] = b
    /\ SafeBelow(up.ack)

\* The server is told once all is acknowledged, and saved.
Telling == job[Sender] = "update" \/ told => saved = Total /\ (Live => meta_data)

\* The snapshot of the files goes once they are there; the bucket goes once the
\* transaction is over.
Ending == /\ cleaned => received = Total
          /\ at[Recipient] = "end" => Final

BInv == Typed /\ Acknowledging /\ Ordered /\ Uploading /\ Telling /\ Ending

-----------------------------------------------------------------------------
(***************************************************************************)
(* Lemmas about the smallest and the greatest.                             *)
(***************************************************************************)

LEMMA Constants ==
  /\ Total \in Nat \ {0} /\ Starts \subseteq Blocks
  /\ IsFiniteSet(Threads) /\ Threads # {}
  /\ Threshold \in Nat \ {0} /\ Window \in Nat \ {0} /\ MaxFaults \in Nat
BY CloudAssumption DEF Blocks

LEMMA MaxOfTwo ==
  ASSUME NEW x \in Nat, NEW y \in Nat
  PROVE  Max({x, y}) = IF x >= y THEN x ELSE y
<1> DEFINE m == IF x >= y THEN x ELSE y
<1>1. m \in {x, y} /\ \A z \in {x, y} : z =< m
  OBVIOUS
<1>2. \A n \in {x, y} : (\A z \in {x, y} : n >= z) => n = m
  OBVIOUS
<1> QED
  BY <1>1, <1>2 DEF Max

LEMMA MinOfTwo ==
  ASSUME NEW x \in Nat, NEW y \in Nat
  PROVE  Min({x, y}) = IF x =< y THEN x ELSE y
<1> DEFINE m == IF x =< y THEN x ELSE y
<1>1. m \in {x, y} /\ \A z \in {x, y} : m =< z
  OBVIOUS
<1>2. \A n \in {x, y} : (\A z \in {x, y} : n =< z) => n = m
  OBVIOUS
<1> QED
  BY <1>1, <1>2 DEF Min

\* The smallest of the last blocks stored is the last of a coroutine, and not above that
\* of any.
LEMMA Smallest ==
  ASSUME NEW last \in [Threads -> 0..Total]
  PROVE  /\ Acknowledged(last) \in 0..Total
         /\ \A w \in Threads : Acknowledged(last) =< last[w]
<1> DEFINE R == Range(last)
<1>1. R \subseteq Nat /\ R \subseteq 0..Total /\ R # {} /\ \A w \in Threads : last[w] \in R
  BY Constants DEF Range
<1>2. PICK x \in R : \A y \in R : <<y, x>> \notin OpToRel(<, Nat)
  <2> HIDE DEF R
  <2> QED
    BY <1>1, NatLessThanWellFounded, WFMin
<1>3. \A y \in R : x =< y
  <2>1. OpToRel(<, Nat) = {ss \in Nat \X Nat : ss[1] < ss[2]}
    BY Zenon DEF OpToRel
  <2>2. SUFFICES ASSUME NEW y \in R, y < x PROVE FALSE
    BY <1>1
  <2>3. <<y, x>> \in {ss \in Nat \X Nat : ss[1] < ss[2]}
    BY <1>1, <2>2
  <2> QED
    BY <1>2, <2>1, <2>3, Zenon
<1>4. Acknowledged(last) = CHOOSE m \in R : \A y \in R : m =< y
  BY DEF Acknowledged, Min
<1>5. Acknowledged(last) \in R /\ \A y \in R : Acknowledged(last) =< y
  <2> HIDE DEF R
  <2> QED
    BY <1>3, <1>4
<1> QED
  BY <1>1, <1>5

-----------------------------------------------------------------------------
(***************************************************************************)
(* The initial states.                                                     *)
(***************************************************************************)

LEMMA NewUploadTyped == NewUpload \in Uploads
BY Constants DEF NewUpload, Fresh, Uploads

LEMMA DecisionWork ==
  ASSUME NEW there
  PROVE  Decision(there) \in {"rest", "delay", "credentials"}
<1>1. \/ Decision(there) = "rest" \/ Decision(there) = "delay"
      \/ Decision(there) = "credentials"
  BY Zenon DEF Decision
<1> QED
  BY <1>1

LEMMA InitGood == Init => BInv
<1> SUFFICES ASSUME Init PROVE BInv
  OBVIOUS
<1>1. Decision(TRUE) \in {"rest", "delay", "credentials"}
  BY DecisionWork
<1>2. /\ job[Sender] = Decision(TRUE) /\ job[Recipient] = "none"
      /\ at[Sender] = "waiting" /\ at[Recipient] = "undecided"
  BY DEF Init, Devices, Sender, Recipient
<1>5. at \in [Devices -> Places]
  BY DEF Init, Places
<1>6. job \in [Devices -> Works]
  <2>1. Decision(TRUE) \in Works /\ "none" \in Works
    BY <1>1 DEF Works
  <2> HIDE DEF Works
  <2> QED
    BY <2>1 DEF Init
<1>4. Typed
  <2>1. up \in Uploads
    BY NewUploadTyped DEF Init
  <2>2. knows \in [Devices -> BOOLEAN] /\ token \in BOOLEAN /\ meta_data \in BOOLEAN
    BY DEF Init
  <2>3. saved \in 0..progress /\ progress \in 0..Total /\ received \in 0..Total
    BY Constants DEF Init
  <2> QED
    BY <1>1, <1>2, <1>5, <1>6, <2>1, <2>2, <2>3 DEF Init, Typed, TypeOK
<1>3. Acknowledging
  BY DEF Init, Acknowledging, SafeBelow
<1> QED
  BY <1>1, <1>2, <1>4, <1>3 DEF Init, BInv, Ordered, Uploading, Telling, Ending

-----------------------------------------------------------------------------
(***************************************************************************)
(* Every step keeps the types.                                             *)
(***************************************************************************)

\* The states and the works of the two devices.
Moving ==
  /\ at \in [Devices -> Places] /\ job \in [Devices -> Works]
  /\ at[Sender] \in {"off", "halted", "waiting", "looking", "away", "direct", "finish",
                     "done"}
  /\ at[Recipient] \in {"off", "halted", "undecided", "sync", "looking", "away", "direct",
                        "finish", "end", "done"}
  /\ job[Sender] \in {"none", "delay", "credentials", "meta_data", "upload", "update",
                      "rest"}
  /\ job[Recipient] \in {"none", "begin", "get", "rest"}

\* What a step does to the state and the work of a device.
LEMMA Moved ==
  ASSUME Typed, NEW d \in Devices, NEW state \in Places, NEW work \in Works,
         Become(d, state, work)
  PROVE  /\ at' \in [Devices -> Places] /\ job' \in [Devices -> Works]
         /\ at'[d] = state /\ job'[d] = work
         /\ \A e \in Devices \ {d} : at'[e] = at[e] /\ job'[e] = job[e]
<1> HIDE DEF Places, Works
<1> QED
  BY DEF Typed, Become

LEMMA Worked ==
  ASSUME Typed, NEW d \in Devices, NEW work \in Works, Work(d, work)
  PROVE  /\ at' = at /\ job' \in [Devices -> Works]
         /\ job'[d] = work
         /\ \A e \in Devices \ {d} : job'[e] = job[e]
<1> HIDE DEF Places, Works
<1> QED
  BY DEF Typed, Work

LEMMA TwoDevices ==
  /\ Sender \in Devices /\ Recipient \in Devices /\ Sender # Recipient
  /\ \A d \in Devices : d = Sender \/ d = Recipient
BY DEF Devices, Sender, Recipient

LEMMA BufferTyped == ASSUME Typed, Buffer PROVE Typed'
<1>1. /\ at' = at /\ job' \in [Devices -> Works] /\ job'[Sender] \in {"credentials"}
      /\ job'[Recipient] = job[Recipient]
  BY Worked, TwoDevices, "credentials" \in Works DEF Buffer, Works
<1> QED
  BY <1>1 DEF Buffer, Typed, TypeOK, server, s3, presence, sender, recipient, history

LEMMA CredentialsTyped == ASSUME Typed, Credentials PROVE Typed'
<1>1. /\ at' = at /\ job' \in [Devices -> Works] /\ job'[Sender] \in {"rest", "meta_data"}
      /\ job'[Recipient] = job[Recipient]
  BY Worked, TwoDevices, "rest" \in Works, "meta_data" \in Works DEF Credentials, Works
<1>2. token' \in BOOLEAN
  BY DEF Credentials, Typed, TypeOK
<1>3. saved' \in 0..progress' /\ progress' \in 0..Total
  BY Constants DEF Credentials, Typed, TypeOK
<1> QED
  BY <1>1, <1>2, <1>3
  DEF Credentials, Typed, TypeOK, server, s3, presence, sender, recipient, history

LEMMA PutMetaDataTyped == ASSUME Typed, PutMetaData PROVE Typed'
<1>1. /\ at' = at /\ job' \in [Devices -> Works] /\ job'[Sender] \in {"upload"}
      /\ job'[Recipient] = job[Recipient]
  BY Worked, TwoDevices, "upload" \in Works DEF PutMetaData, Works
<1>2. meta_data' \in BOOLEAN
  BY DEF PutMetaData
<1> QED
  BY <1>1, <1>2, NewUploadTyped
  DEF PutMetaData, Typed, TypeOK, server, s3, presence, sender, recipient, history

LEMMA UpdateTyped == ASSUME Typed, Update PROVE Typed'
<1>1. /\ at' = at /\ job' \in [Devices -> Works] /\ job'[Sender] \in {"rest"}
      /\ job'[Recipient] = job[Recipient]
  BY Worked, TwoDevices, "rest" \in Works DEF Update, Works
<1>2. status' \in {"initialized", "cloud_buffered", "accepted", "finished"}
  BY DEF Update, Typed, TypeOK
<1> QED
  BY <1>1, <1>2 DEF Update, Typed, TypeOK, server, s3, presence, sender, recipient, history

LEMMA RefusedTyped == ASSUME Typed, Refused PROVE Typed'
<1>1. /\ at' = at /\ job' \in [Devices -> Works] /\ job'[Sender] \in {"rest"}
      /\ job'[Recipient] = job[Recipient]
  BY Worked, TwoDevices, "rest" \in Works DEF Refused, Works
<1> QED
  BY <1>1, NewUploadTyped
  DEF Refused, Typed, TypeOK, server, s3, presence, sender, recipient, history, Drop

LEMMA AcceptTyped == ASSUME Typed, Accept PROVE Typed'
<1>1. /\ at' \in [Devices -> Places] /\ job' \in [Devices -> Works]
      /\ at'[Recipient] = "sync" /\ job'[Recipient] = "begin"
      /\ at'[Sender] = at[Sender] /\ job'[Sender] = job[Sender]
  BY Moved, TwoDevices, "sync" \in Places, "begin" \in Works DEF Accept, Places, Works
<1> QED
  BY <1>1 DEF Accept, Typed, TypeOK, server, s3, presence, sender, recipient, history

LEMMA BeginGetTyped == ASSUME Typed, BeginGet PROVE Typed'
<1>1. /\ at' = at /\ job' \in [Devices -> Works] /\ job'[Recipient] \in {"rest", "get"}
      /\ job'[Sender] = job[Sender]
  BY Worked, TwoDevices, "rest" \in Works, "get" \in Works DEF BeginGet, Works, ReadMetaData
<1>2. token' \in BOOLEAN
  BY DEF BeginGet, Typed, TypeOK
<1> QED
  BY <1>1, <1>2 DEF BeginGet, Typed, TypeOK, server, s3, presence, sender, recipient,
       history, ReadMetaData

LEMMA ExhaustedTyped == ASSUME Typed, Exhausted PROVE Typed'
<1>1. /\ at' = at /\ job' \in [Devices -> Works] /\ job'[Recipient] \in {"rest"}
      /\ job'[Sender] = job[Sender]
  BY Worked, TwoDevices, "rest" \in Works DEF Exhausted, Works
<1> QED
  BY <1>1 DEF Exhausted, Typed, TypeOK, server, s3, presence, sender, recipient, history

LEMMA GetFailedTyped == ASSUME Typed, GetFailed PROVE Typed'
<1>1. /\ at' = at /\ job' \in [Devices -> Works] /\ job'[Recipient] \in {"rest"}
      /\ job'[Sender] = job[Sender]
  BY Worked, TwoDevices, "rest" \in Works DEF GetFailed, Works
<1> QED
  BY <1>1 DEF GetFailed, Typed, TypeOK, server, s3, presence, sender, recipient, history

LEMMA GetDoneTyped == ASSUME Typed, GetDone PROVE Typed'
<1>1. /\ at' \in [Devices -> Places] /\ job' \in [Devices -> Works]
      /\ at'[Recipient] = "finish" /\ job'[Recipient] = "none"
      /\ at'[Sender] = at[Sender] /\ job'[Sender] = job[Sender]
  BY Moved, TwoDevices, "finish" \in Places, "none" \in Works DEF GetDone, Places, Works
<1> QED
  BY <1>1 DEF GetDone, Typed, TypeOK, server, s3, presence, sender, recipient, history

LEMMA AcceptedTyped == ASSUME Typed, Accepted PROVE Typed'
<1>1. /\ at' \in [Devices -> Places] /\ job' \in [Devices -> Works]
      /\ at'[Sender] = "looking" /\ job'[Sender] = "none"
      /\ at'[Recipient] = at[Recipient] /\ job'[Recipient] = job[Recipient]
  BY Moved, TwoDevices, "looking" \in Places, "none" \in Works DEF Accepted, Places, Works
<1> QED
  BY <1>1, NewUploadTyped
  DEF Accepted, Typed, TypeOK, server, s3, presence, sender, recipient, history, Drop

LEMMA SynchronizedTyped == ASSUME Typed, Synchronized PROVE Typed'
<1>1. /\ at' \in [Devices -> Places] /\ job' \in [Devices -> Works]
      /\ at'[Recipient] = "looking" /\ job'[Recipient] = "none"
      /\ at'[Sender] = at[Sender] /\ job'[Sender] = job[Sender]
  BY Moved, TwoDevices, "looking" \in Places, "none" \in Works
  DEF Synchronized, Places, Works
<1> QED
  BY <1>1 DEF Synchronized, Typed, TypeOK, server, s3, presence, sender, recipient, history

\* The next block is that at the cursor, or at the progress of the sender.
LEMMA NextBlock ==
  ASSUME Typed
  PROVE  /\ Next_block \in 0..Total /\ up.cursor =< Next_block
         /\ Next_block = up.cursor \/ Next_block = progress
<1>1. up.cursor \in 0..Total /\ progress \in 0..Total
  BY DEF Typed, Uploads, TypeOK
<1> QED
  BY <1>1, MaxOfTwo, Constants DEF Next_block

LEMMA Progressed ==
  ASSUME Typed, NEW count \in 0..Total, Acknowledge(count)
  PROVE  progress' \in 0..Total /\ progress =< progress' /\ count =< progress'
         /\ (progress' = progress \/ progress' = count)
<1>1. progress \in 0..Total
  BY DEF Typed, Uploads, TypeOK
<1> QED
  BY <1>1, MaxOfTwo, Constants DEF Acknowledge

\* What an answer changes: the last block of the coroutine, and maybe what is acknowledged.
LEMMA AnsweredBlock ==
  ASSUME Typed, NEW w \in Threads, up.thread[w] \in Blocks,
         NEW last, last = [up.last EXCEPT ![w] = up.thread[w]]
  PROVE  /\ Answered(w) \in Uploads
         /\ Answered(w).cursor = up.cursor /\ Answered(w).thread = up.thread
         /\ last \in [Threads -> 0..Total]
         /\ Answered(w).last = last
         /\ Answered(w).ack = up.ack \/ Answered(w).ack = Acknowledged(last)
<1>0. up \in Uploads
  BY DEF Typed, Uploads
<1>1. last \in [Threads -> 0..Total]
  BY Constants DEF Typed, Uploads, Blocks
<1>2. Acknowledged(last) \in 0..Total
  BY <1>1, Smallest
<1> DEFINE since == Min({up.since + 1, Threshold})
<1>3. since \in Nat
  BY <1>0, MinOfTwo, Constants DEF Uploads
<1>4. up.thread[w] # Fresh
  BY Constants DEF Blocks, Fresh
<1> DEFINE ack == IF since = Threshold THEN Acknowledged(last) ELSE up.ack
<1> DEFINE save == up.save \/ since = Threshold
<1>5. Answered(w) = [up EXCEPT !.last = last, !.since = since, !.ack = ack, !.save = save]
  BY <1>4 DEF Answered
<1>6. ack \in 0..Total /\ save \in BOOLEAN
  BY <1>0, <1>2 DEF Uploads
<1> HIDE DEF since, ack, save
<1>7. /\ Answered(w) \in Uploads
      /\ Answered(w).cursor = up.cursor /\ Answered(w).thread = up.thread
      /\ Answered(w).last = last /\ Answered(w).ack = ack
  BY <1>0, <1>1, <1>3, <1>5, <1>6 DEF Uploads
<1> QED
  BY <1>1, <1>7 DEF ack

LEMMA AnsweredFresh ==
  ASSUME Typed, NEW w \in Threads, up.thread[w] = Fresh
  PROVE  Answered(w) = up
BY DEF Answered

\* What a coroutine that goes on works with: nothing new, or one block more stored.
LEMMA AnsweredTyped ==
  ASSUME Typed, NEW w \in Threads, Take(w)
  PROVE  Answered(w) \in Uploads /\ (up.thread[w] = Fresh \/ up.thread[w] \in bucket \cap Blocks)
<1>1. up.thread[w] = Fresh \/ up.thread[w] \in bucket \cap Blocks
  BY DEF Take, Typed, TypeOK, Blocks
<1>2. up \in Uploads
  BY DEF Typed, Uploads
<1> QED
  BY <1>1, <1>2, AnsweredBlock, AnsweredFresh

LEMMA TakeTyped == ASSUME Typed, NEW w \in Threads, Take(w) PROVE Typed'
<1>1. Answered(w) \in Uploads
  BY AnsweredTyped
<1>2. Next_block \in 0..Total
  BY NextBlock
<1>3. CASE Next_block >= Total
  <2>1. /\ up' = [Answered(w) EXCEPT !.cursor = Total, !.thread[w] = Ended]
        /\ UNCHANGED <<progress, saved>>
    BY <1>3 DEF Take
  <2>2. Ended \in 0..Fresh /\ Total \in 0..Total
    BY Constants DEF Ended, Fresh
  <2>3. up' \in Uploads
    <3> HIDE DEF Ended, Fresh
    <3> QED
      BY <1>1, <2>1, <2>2 DEF Uploads
  <2> QED
    BY <2>1, <2>3 DEF Take, Typed, TypeOK, Uploads, server, s3, presence, recipient, history
<1>4. CASE ~(Next_block >= Total)
  <2>1. /\ up' = [Answered(w) EXCEPT !.cursor = Next_block + 1, !.thread[w] = Next_block,
                                    !.save = FALSE]
        /\ Acknowledge(Answered(w).ack)
        /\ saved' = progress' \/ saved' = saved
    BY <1>4 DEF Take
  <2>2. Next_block + 1 \in 0..Total /\ Next_block \in 0..Fresh
    BY <1>2, <1>4, Constants DEF Fresh
  <2>3. up' \in Uploads
    <3> HIDE DEF Fresh
    <3> QED
      BY <1>1, <2>1, <2>2 DEF Uploads
  <2>4. Answered(w).ack \in 0..Total
    BY <1>1 DEF Uploads
  <2>5. progress' \in 0..Total /\ progress =< progress'
    BY <2>1, <2>4, Progressed
  <2>6. saved' \in 0..progress'
    BY <2>1, <2>5, Constants DEF Typed, TypeOK
  <2> QED
    BY <2>3, <2>5, <2>6 DEF Take, Typed, TypeOK, Uploads, server, s3, presence, recipient,
       history
<1> QED
  BY <1>3, <1>4

LEMMA StoreTyped == ASSUME Typed, NEW w \in Threads, Store(w) PROVE Typed'
<1>1. bucket' \subseteq Blocks
  BY DEF Store, Typed, TypeOK, Blocks
<1> QED
  BY <1>1 DEF Store, Typed, TypeOK, server, s3, presence, sender, recipient, history, Blocks

LEMMA JoinTyped == ASSUME Typed, Join PROVE Typed'
<1>1. /\ at' = at /\ job' \in [Devices -> Works] /\ job'[Sender] \in {"update"}
      /\ job'[Recipient] = job[Recipient]
  BY Worked, TwoDevices, "update" \in Works DEF Join, Works
<1>2. progress' \in 0..Total /\ saved' = Total /\ progress' = Total
  BY Progressed, Constants DEF Join, Typed, TypeOK
<1>3. saved' \in 0..progress'
  BY <1>2, Constants
<1> QED
  BY <1>1, <1>2, <1>3, NewUploadTyped
  DEF Join, Typed, TypeOK, server, s3, presence, sender, recipient, history

LEMMA GetTyped == ASSUME Typed, Get PROVE Typed'
<1>1. received' \in 0..Total
  BY Constants DEF Get, Typed, TypeOK
<1> QED
  BY <1>1 DEF Get, Typed, TypeOK, server, s3, presence, sender, recipient, history

LEMMA CleanTyped == ASSUME Typed, Clean PROVE Typed'
<1> QED
  BY  DEF Clean, Typed, TypeOK, server, s3, presence, sender, recipient, history

LEMMA ConnectTyped == ASSUME Typed, Connect PROVE Typed'
<1>1. at' \in [Devices -> Places] /\ at'[Sender] = "direct" /\ at'[Recipient] = "direct"
  BY TwoDevices DEF Connect, Places
<1>2. saved' \in 0..progress'
  BY Constants DEF Connect, Typed, TypeOK
<1> QED
  BY <1>1, <1>2 DEF Connect, Typed, TypeOK, server, s3, presence, sender, recipient, history

LEMMA DirectTyped == ASSUME Typed, Direct PROVE Typed'
<1>1. received' \in 0..Total /\ progress' \in 0..Total /\ progress =< progress'
  BY Progressed, Constants DEF Direct, Typed, TypeOK
<1>2. saved' \in 0..progress'
  BY <1>1, Constants DEF Direct, Typed, TypeOK
<1> QED
  BY <1>1, <1>2 DEF Direct, Typed, TypeOK, server, s3, presence, sender, recipient, history

LEMMA TellTyped == ASSUME Typed, Tell PROVE Typed'
<1>1. at' \in [Devices -> Places] /\ at'[Sender] = "finish" /\ at'[Recipient] = "finish"
  BY TwoDevices DEF Tell, Typed, Places
<1>2. progress' \in 0..Total /\ saved' \in 0..progress'
  BY Constants DEF Tell, Typed, TypeOK
<1> QED
  BY <1>1, <1>2 DEF Tell, Typed, TypeOK, server, s3, presence, sender, recipient, history

LEMMA EndTyped == ASSUME Typed, End PROVE Typed'
<1>1. /\ at' \in [Devices -> Places] /\ job' \in [Devices -> Works]
      /\ at'[Recipient] = "done" /\ job'[Recipient] = "none"
      /\ at'[Sender] = at[Sender] /\ job'[Sender] = job[Sender]
  BY Moved, TwoDevices, "done" \in Places, "none" \in Works DEF End, Places, Works
<1>2. bucket' \subseteq Blocks /\ meta_data' \in BOOLEAN
  BY DEF End, CleanUp, s3, Typed, TypeOK, Blocks
<1> QED
  BY <1>1, <1>2
  DEF End, Typed, TypeOK, server, s3, presence, sender, recipient, history, Blocks, CleanUp

LEMMA DepartTyped == ASSUME Typed, NEW d \in Devices, Depart(d) PROVE Typed'
<1>1. CASE d = Sender
  <2>1. /\ at' \in [Devices -> Places] /\ job' \in [Devices -> Works]
        /\ at'[Sender] \in {"away"} /\ job'[Sender] \in {"credentials"}
        /\ at'[Recipient] = at[Recipient] /\ job'[Recipient] = job[Recipient]
    BY <1>1, Moved, TwoDevices, "away" \in Places, "credentials" \in Works
    DEF Depart, Places, Works
  <2> QED
    BY <1>1, <2>1, NewUploadTyped, TwoDevices
    DEF Depart, Typed, TypeOK, server, s3, presence, sender, recipient, history
<1>2. CASE d = Recipient
  <2>1. /\ at' \in [Devices -> Places] /\ job' \in [Devices -> Works]
        /\ at'[Recipient] \in {"away"} /\ job'[Recipient] \in {"begin"}
        /\ at'[Sender] = at[Sender] /\ job'[Sender] = job[Sender]
    BY <1>2, Moved, TwoDevices, "away" \in Places, "begin" \in Works
    DEF Depart, Places, Works
  <2> QED
    BY <1>2, <2>1, NewUploadTyped, TwoDevices
    DEF Depart, Typed, TypeOK, server, s3, presence, sender, recipient, history
<1> QED
  BY <1>1, <1>2, TwoDevices

LEMMA RejoinTyped == ASSUME Typed, NEW d \in Devices, Rejoin(d) PROVE Typed'
<1>1. CASE d = Sender
  <2>1. /\ at' \in [Devices -> Places] /\ job' \in [Devices -> Works]
        /\ at'[Sender] \in {"looking"} /\ job'[Sender] \in {"none"}
        /\ at'[Recipient] = at[Recipient] /\ job'[Recipient] = job[Recipient]
    BY <1>1, Moved, TwoDevices, "looking" \in Places, "none" \in Works
    DEF Rejoin, Places, Works
  <2> QED
    BY <1>1, <2>1, NewUploadTyped, TwoDevices
    DEF Rejoin, Typed, TypeOK, server, s3, presence, sender, recipient, history, Drop
<1>2. CASE d = Recipient
  <2>1. /\ at' \in [Devices -> Places] /\ job' \in [Devices -> Works]
        /\ at'[Recipient] \in {"looking"} /\ job'[Recipient] \in {"none"}
        /\ at'[Sender] = at[Sender] /\ job'[Sender] = job[Sender]
    BY <1>2, Moved, TwoDevices, "looking" \in Places, "none" \in Works
    DEF Rejoin, Places, Works
  <2> QED
    BY <1>2, <2>1, NewUploadTyped, TwoDevices
    DEF Rejoin, Typed, TypeOK, server, s3, presence, sender, recipient, history, Drop
<1> QED
  BY <1>1, <1>2, TwoDevices

LEMMA LinkLostTyped == ASSUME Typed, NEW d \in Devices, LinkLost(d) PROVE Typed'
<1>1. CASE d = Sender
  <2>1. /\ at' \in [Devices -> Places] /\ job' \in [Devices -> Works]
        /\ at'[Sender] \in {"looking"} /\ job'[Sender] \in {"none"}
        /\ at'[Recipient] = at[Recipient] /\ job'[Recipient] = job[Recipient]
    BY <1>1, Moved, TwoDevices, "looking" \in Places, "none" \in Works
    DEF LinkLost, Places, Works
  <2> QED
    BY <1>1, <2>1, NewUploadTyped, TwoDevices
    DEF LinkLost, Typed, TypeOK, server, s3, presence, sender, recipient, history
<1>2. CASE d = Recipient
  <2>1. /\ at' \in [Devices -> Places] /\ job' \in [Devices -> Works]
        /\ at'[Recipient] \in {"looking"} /\ job'[Recipient] \in {"none"}
        /\ at'[Sender] = at[Sender] /\ job'[Sender] = job[Sender]
    BY <1>2, Moved, TwoDevices, "looking" \in Places, "none" \in Works
    DEF LinkLost, Places, Works
  <2> QED
    BY <1>2, <2>1, NewUploadTyped, TwoDevices
    DEF LinkLost, Typed, TypeOK, server, s3, presence, sender, recipient, history
<1> QED
  BY <1>1, <1>2, TwoDevices

LEMMA FinishedTyped == ASSUME Typed, NEW d \in Devices, Finished(d) PROVE Typed'
<1>1. CASE d = Sender
  <2>1. /\ at' \in [Devices -> Places] /\ job' \in [Devices -> Works]
        /\ at'[Sender] \in {"done"} /\ job'[Sender] \in {"none"}
        /\ at'[Recipient] = at[Recipient] /\ job'[Recipient] = job[Recipient]
    BY <1>1, Moved, TwoDevices, "done" \in Places, "none" \in Works
    DEF Finished, Places, Works
  <2> QED
    BY <1>1, <2>1, NewUploadTyped, TwoDevices
    DEF Finished, Typed, TypeOK, server, s3, presence, sender, recipient, history, Drop
<1>2. CASE d = Recipient
  <2>1. /\ at' \in [Devices -> Places] /\ job' \in [Devices -> Works]
        /\ at'[Recipient] \in {"end"} /\ job'[Recipient] \in {"none"}
        /\ at'[Sender] = at[Sender] /\ job'[Sender] = job[Sender]
    BY <1>2, Moved, TwoDevices, "end" \in Places, "none" \in Works
    DEF Finished, Places, Works
  <2> QED
    BY <1>2, <2>1, NewUploadTyped, TwoDevices
    DEF Finished, Typed, TypeOK, server, s3, presence, sender, recipient, history, Drop
<1> QED
  BY <1>1, <1>2, TwoDevices

LEMMA FinishTyped == ASSUME Typed, NEW d \in Devices, Finish(d) PROVE Typed'
<1>1. at' \in [Devices -> Places]
  BY DEF Finish, Typed, Places
<1>2. /\ d = Sender => at'[Sender] = "done" /\ at'[Recipient] = at[Recipient]
      /\ d = Recipient => at'[Recipient] = "end" /\ at'[Sender] = at[Sender]
  BY TwoDevices DEF Finish, Typed
<1>3. status' = "finished" /\ UNCHANGED <<token, s3, presence, job, sender, recipient, history>>
  BY DEF Finish
<1>4. CASE d = Sender
  BY <1>1, <1>2, <1>3, <1>4
  DEF Typed, TypeOK, server, s3, presence, sender, recipient, history
<1>5. CASE d = Recipient
  BY <1>1, <1>2, <1>3, <1>5
  DEF Typed, TypeOK, server, s3, presence, sender, recipient, history
<1> QED
  BY <1>4, <1>5, TwoDevices

LEMMA ToldTyped ==
  ASSUME Typed, NEW d \in Devices, NEW there \in BOOLEAN
  PROVE  Told(d, there) \in [Devices -> BOOLEAN]
<1>1. Peer(d) \in Devices
  BY TwoDevices DEF Peer
<1>2. knows \in [Devices -> BOOLEAN]
  BY DEF Typed, Uploads, TypeOK
<1>3. [knows EXCEPT ![Peer(d)] = there] \in [Devices -> BOOLEAN]
  BY <1>1, <1>2, Zenon
<1> QED
  BY <1>2, <1>3, Zenon DEF Told

LEMMA LeaveTyped == ASSUME Typed, NEW d \in Devices, Leave(d) PROVE Typed'
<1>1. knows' \in [Devices -> BOOLEAN]
  BY ToldTyped, FALSE \in BOOLEAN, Zenon DEF Leave
<1>2. online' \subseteq Devices
  BY DEF Leave, Typed, TypeOK
<1>3. UNCHANGED <<server, s3, at, job, sender, recipient, told, excuse>>
  BY DEF Leave
<1> QED
  BY <1>1, <1>2, <1>3 DEF Typed, TypeOK, server, s3, presence, sender, recipient, history

LEMMA AppearTyped ==
  ASSUME Typed, NEW d \in Devices, Appear(d)
  PROVE  online' \subseteq Devices /\ knows' \in [Devices -> BOOLEAN]
<1>1. Told(d, TRUE) \in [Devices -> BOOLEAN]
  BY ToldTyped
<1>2. online' \subseteq Devices
  BY DEF Appear, Typed, TypeOK
<1>3. (Peer(d) \in online) \in BOOLEAN
  OBVIOUS
<1>4. [Told(d, TRUE) EXCEPT ![d] = Peer(d) \in online] \in [Devices -> BOOLEAN]
  BY <1>1, <1>3, Zenon
<1> QED
  BY <1>2, <1>4 DEF Appear

\* A device that moves takes one of its own states.
LEMMA MovedTyped ==
  ASSUME Typed, NEW d \in Devices, NEW state \in Places, NEW work \in Works,
         Become(d, state, work),
         d = Sender => /\ state \in {"off", "halted", "waiting", "looking", "finish"}
                       /\ work \in {"none", "delay", "credentials", "rest"},
         d = Recipient => /\ state \in {"off", "halted", "undecided", "sync", "finish"}
                          /\ work \in {"none", "begin"}
  PROVE  Moving'
<1>1. /\ at' \in [Devices -> Places] /\ job' \in [Devices -> Works]
      /\ at'[d] = state /\ job'[d] = work
      /\ \A e \in Devices \ {d} : at'[e] = at[e] /\ job'[e] = job[e]
  BY Moved
<1>2. CASE d = Sender
  BY <1>1, <1>2, TwoDevices DEF Moving, Typed, TypeOK
<1>3. CASE d = Recipient
  BY <1>1, <1>3, TwoDevices DEF Moving, Typed, TypeOK
<1> QED
  BY <1>2, <1>3, TwoDevices

LEMMA ReturnTyped == ASSUME Typed, NEW d \in Devices, Return(d) PROVE Typed'
<1>1. online' \subseteq Devices /\ knows' \in [Devices -> BOOLEAN]
  BY AppearTyped DEF Return
<1>2. UNCHANGED <<server, s3, recipient, history, progress, saved>> /\ (up' = up \/ up' = NewUpload)
  BY DEF Return, Reset, Drop, sender
<1>3. Moving'
  <2>1. CASE at[d] \in {"sync", "looking", "away", "direct"} /\ d = Sender
    <3>1. Become(d, "looking", "none")
      BY <2>1 DEF Return, Reset
    <3> QED
      BY <2>1, <3>1, MovedTyped, TwoDevices, "looking" \in Places, "none" \in Works
      DEF Places, Works
  <2>2. CASE at[d] \in {"sync", "looking", "away", "direct"} /\ d # Sender
    <3>1. Become(d, "sync", "begin")
      BY <2>2 DEF Return, Reset
    <3> QED
      BY <2>2, <3>1, MovedTyped, TwoDevices, "sync" \in Places, "begin" \in Works
      DEF Places, Works
  <2>3. CASE at[d] \notin {"sync", "looking", "away", "direct"}
    BY <2>3 DEF Return, Reset, Typed, TypeOK, Moving
  <2> QED
    BY <2>1, <2>2, <2>3
<1> QED
  BY <1>1, <1>2, <1>3, NewUploadTyped
  DEF Moving, Typed, TypeOK, server, s3, recipient, history

LEMMA CrashTyped == ASSUME Typed, NEW d \in Devices, Crash(d) PROVE Typed'
<1>1. online' \subseteq Devices
  BY DEF Crash, Typed, TypeOK
<1>2. knows' \in [Devices -> BOOLEAN]
  BY ToldTyped, FALSE \in BOOLEAN, Zenon DEF Crash
<1>3. Moving'
  <2>1. Become(d, "halted", "none") \/ Become(d, "off", "none")
    BY DEF Crash
  <2> QED
    BY <2>1, MovedTyped, TwoDevices, "halted" \in Places, "off" \in Places, "none" \in Works
    DEF Places, Works
<1>4. UNCHANGED <<server, s3, told>>
  BY DEF Crash
<1>5. /\ progress' \in 0..Total /\ saved' \in 0..progress'
      /\ up' = up \/ up' = NewUpload
  BY Constants DEF Crash, Typed, TypeOK, sender
<1>6. received' \in 0..Total
  BY Constants DEF Crash, Typed, TypeOK, recipient
<1> QED
  BY <1>1, <1>2, <1>3, <1>4, <1>5, <1>6, NewUploadTyped
  DEF Moving, Typed, TypeOK, server, s3

LEMMA RestartTyped == ASSUME Typed, NEW d \in Devices, Restart(d) PROVE Typed'
<1>1. online' \subseteq Devices /\ knows' \in [Devices -> BOOLEAN]
  BY AppearTyped DEF Restart
<1>2. UNCHANGED <<server, s3, sender, recipient, history>>
  BY DEF Restart
<1>3. Moving'
  <2>1. CASE at[d] = "halted"
    <3>1. Become(d, "finish", "none")
      BY <2>1 DEF Restart
    <3> QED
      BY <3>1, MovedTyped, "finish" \in Places, "none" \in Works DEF Places, Works
  <2>2. CASE at[d] # "halted" /\ d = Sender
    <3> DEFINE work == Decision(Recipient \in online)
    <3>1. Become(d, "looking", "none") \/ Become(d, "waiting", work)
      BY <2>2 DEF Restart, RestartSender
    <3>2. work \in {"rest", "delay", "credentials"}
      BY DecisionWork
    <3> HIDE DEF work
    <3> QED
      BY <2>2, <3>1, <3>2, MovedTyped, TwoDevices, "looking" \in Places,
         "waiting" \in Places, "none" \in Works, work \in Works DEF Places, Works
  <2>3. CASE at[d] # "halted" /\ d # Sender
    <3>1. Become(d, "sync", "begin") \/ Become(d, "undecided", "none")
      BY <2>3, TwoDevices DEF Restart, RestartRecipient
    <3> QED
      BY <2>3, <3>1, MovedTyped, TwoDevices, "sync" \in Places, "undecided" \in Places,
         "none" \in Works, "begin" \in Works DEF Places, Works
  <2> QED
    BY <2>1, <2>2, <2>3
<1> QED
  BY <1>1, <1>2, <1>3 DEF Moving, Typed, TypeOK, server, s3, sender, recipient, history

-----------------------------------------------------------------------------
(***************************************************************************)
(* Most steps leave the blocks where they are.                             *)
(***************************************************************************)

Calm ==
  /\ UNCHANGED <<meta_data, bucket, progress, received, cleaned>>
  /\ saved' = saved \/ saved' = progress
  /\ Live' => Live
  /\ told' => told
  /\ job'[Sender] = "upload" => job[Sender] = "upload" /\ up' = up
  /\ job'[Sender] = "update" => job[Sender] = "update"
  /\ at'[Recipient] = "end" => Final'

LEMMA CalmKeeps == ASSUME BInv, Typed', Calm PROVE BInv'
<1>1. Acknowledging'
  BY DEF BInv, Calm, Acknowledging, SafeBelow, Safe
<1>2. Ordered'
  BY DEF BInv, Calm, Ordered
<1>3. Uploading'
  BY DEF BInv, Calm, Uploading, SafeBelow, Safe
<1>4. Telling'
  <2>1. saved = Total => progress = Total
    BY Constants DEF BInv, Typed, Uploads, TypeOK
  <2> QED
    BY <2>1 DEF BInv, Calm, Telling
<1>5. Ending'
  BY DEF BInv, Calm, Ending
<1> QED
  BY <1>1, <1>2, <1>3, <1>4, <1>5 DEF BInv

LEMMA BufferCalm == ASSUME BInv, Buffer PROVE Calm
<1>1. /\ at' = at /\ job' \in [Devices -> Works] /\ job'[Sender] \in {"credentials"}
      /\ job'[Recipient] = job[Recipient]
  BY Worked, TwoDevices, "credentials" \in Works DEF BInv, Buffer, Works
<1>2. /\ UNCHANGED <<meta_data, bucket, progress, received, cleaned>>
      /\ saved' = saved \/ saved' = progress
  BY DEF Buffer, Calm, Live, Final, server, s3, presence, sender, recipient, history
<1>3. (Live' => Live) /\ (told' => told)
  BY DEF Buffer, Calm, Live, Final, server, s3, presence, sender, recipient, history
<1> QED
  BY <1>1, <1>2, <1>3 DEF Buffer, BInv, Ending, Calm, Live, Final, server, s3, presence,
       sender, recipient, history

LEMMA CredentialsCalm == ASSUME BInv, Credentials PROVE Calm
<1>1. /\ at' = at /\ job' \in [Devices -> Works] /\ job'[Sender] \in {"rest", "meta_data"}
      /\ job'[Recipient] = job[Recipient]
  BY Worked, TwoDevices, "rest" \in Works, "meta_data" \in Works
  DEF BInv, Credentials, Works
<1>2. /\ UNCHANGED <<meta_data, bucket, progress, received, cleaned>>
      /\ saved' = saved \/ saved' = progress
  BY DEF Credentials, Calm, Live, Final, server, s3, presence, sender, recipient, history
<1>3. (Live' => Live) /\ (told' => told)
  BY DEF Credentials, Calm, Live, Final, server, s3, presence, sender, recipient, history
<1> QED
  BY <1>1, <1>2, <1>3 DEF Credentials, BInv, Ending, Calm, Live, Final, server, s3,
       presence, sender, recipient, history

LEMMA RefusedCalm == ASSUME BInv, Refused PROVE Calm
<1>1. /\ at' = at /\ job' \in [Devices -> Works] /\ job'[Sender] \in {"rest"}
      /\ job'[Recipient] = job[Recipient]
  BY Worked, TwoDevices, "rest" \in Works DEF BInv, Refused, Works
<1>2. /\ UNCHANGED <<meta_data, bucket, progress, received, cleaned>>
      /\ saved' = saved \/ saved' = progress
  BY DEF Refused, Calm, Live, Final, server, s3, presence, sender, recipient, history, Drop
<1>3. (Live' => Live) /\ (told' => told)
  BY DEF Refused, Calm, Live, Final, server, s3, presence, sender, recipient, history, Drop
<1> QED
  BY <1>1, <1>2, <1>3 DEF Refused, BInv, Ending, Calm, Live, Final, server, s3, presence,
       sender, recipient, history, Drop

LEMMA AcceptCalm == ASSUME BInv, Accept PROVE Calm
<1>1. /\ at' \in [Devices -> Places] /\ job' \in [Devices -> Works]
      /\ at'[Recipient] = "sync" /\ job'[Recipient] = "begin"
      /\ at'[Sender] = at[Sender] /\ job'[Sender] = job[Sender]
  BY Moved, TwoDevices, "sync" \in Places, "begin" \in Works DEF BInv, Accept, Places, Works
<1>2. /\ UNCHANGED <<meta_data, bucket, progress, received, cleaned>>
      /\ saved' = saved \/ saved' = progress
  BY DEF Accept, Calm, Live, Final, server, s3, presence, sender, recipient, history
<1>3. (Live' => Live) /\ (told' => told)
  BY DEF Accept, Calm, Live, Final, server, s3, presence, sender, recipient, history
<1> QED
  BY <1>1, <1>2, <1>3 DEF Accept, BInv, Ending, Calm, Live, Final, server, s3, presence,
       sender, recipient, history

LEMMA BeginGetCalm == ASSUME BInv, BeginGet PROVE Calm
<1>1. /\ at' = at /\ job' \in [Devices -> Works] /\ job'[Recipient] \in {"rest", "get"}
      /\ job'[Sender] = job[Sender]
  BY Worked, TwoDevices, "rest" \in Works, "get" \in Works
  DEF BInv, BeginGet, Works, ReadMetaData
<1>2. /\ UNCHANGED <<meta_data, bucket, progress, received, cleaned>>
      /\ saved' = saved \/ saved' = progress
  BY DEF BeginGet, Calm, Live, Final, server, s3, presence, sender, recipient, history,
       ReadMetaData
<1>3. (Live' => Live) /\ (told' => told)
  BY DEF BeginGet, Calm, Live, Final, server, s3, presence, sender, recipient, history,
       ReadMetaData
<1> QED
  BY <1>1, <1>2, <1>3 DEF BeginGet, BInv, Ending, Calm, Live, Final, server, s3,
       presence, sender, recipient, history, ReadMetaData

LEMMA ExhaustedCalm == ASSUME BInv, Exhausted PROVE Calm
<1>1. /\ at' = at /\ job' \in [Devices -> Works] /\ job'[Recipient] \in {"rest"}
      /\ job'[Sender] = job[Sender]
  BY Worked, TwoDevices, "rest" \in Works DEF BInv, Exhausted, Works
<1>2. /\ UNCHANGED <<meta_data, bucket, progress, received, cleaned>>
      /\ saved' = saved \/ saved' = progress
  BY DEF Exhausted, Calm, Live, Final, server, s3, presence, sender, recipient, history
<1>3. (Live' => Live) /\ (told' => told)
  BY DEF Exhausted, Calm, Live, Final, server, s3, presence, sender, recipient, history
<1> QED
  BY <1>1, <1>2, <1>3 DEF Exhausted, BInv, Ending, Calm, Live, Final, server, s3,
       presence, sender, recipient, history

LEMMA GetFailedCalm == ASSUME BInv, GetFailed PROVE Calm
<1>1. /\ at' = at /\ job' \in [Devices -> Works] /\ job'[Recipient] \in {"rest"}
      /\ job'[Sender] = job[Sender]
  BY Worked, TwoDevices, "rest" \in Works DEF BInv, GetFailed, Works
<1>2. /\ UNCHANGED <<meta_data, bucket, progress, received, cleaned>>
      /\ saved' = saved \/ saved' = progress
  BY DEF GetFailed, Calm, Live, Final, server, s3, presence, sender, recipient, history
<1>3. (Live' => Live) /\ (told' => told)
  BY DEF GetFailed, Calm, Live, Final, server, s3, presence, sender, recipient, history
<1> QED
  BY <1>1, <1>2, <1>3 DEF GetFailed, BInv, Ending, Calm, Live, Final, server, s3,
       presence, sender, recipient, history

LEMMA GetDoneCalm == ASSUME BInv, GetDone PROVE Calm
<1>1. /\ at' \in [Devices -> Places] /\ job' \in [Devices -> Works]
      /\ at'[Recipient] = "finish" /\ job'[Recipient] = "none"
      /\ at'[Sender] = at[Sender] /\ job'[Sender] = job[Sender]
  BY Moved, TwoDevices, "finish" \in Places, "none" \in Works
  DEF BInv, GetDone, Places, Works
<1>2. /\ UNCHANGED <<meta_data, bucket, progress, received, cleaned>>
      /\ saved' = saved \/ saved' = progress
  BY DEF GetDone, Calm, Live, Final, server, s3, presence, sender, recipient, history
<1>3. (Live' => Live) /\ (told' => told)
  BY DEF GetDone, Calm, Live, Final, server, s3, presence, sender, recipient, history
<1> QED
  BY <1>1, <1>2, <1>3 DEF GetDone, BInv, Ending, Calm, Live, Final, server, s3, presence,
       sender, recipient, history

LEMMA AcceptedCalm == ASSUME BInv, Accepted PROVE Calm
<1>1. /\ at' \in [Devices -> Places] /\ job' \in [Devices -> Works]
      /\ at'[Sender] = "looking" /\ job'[Sender] = "none"
      /\ at'[Recipient] = at[Recipient] /\ job'[Recipient] = job[Recipient]
  BY Moved, TwoDevices, "looking" \in Places, "none" \in Works
  DEF BInv, Accepted, Places, Works
<1>2. /\ UNCHANGED <<meta_data, bucket, progress, received, cleaned>>
      /\ saved' = saved \/ saved' = progress
  BY DEF Accepted, Calm, Live, Final, server, s3, presence, sender, recipient, history, Drop
<1>3. (Live' => Live) /\ (told' => told)
  BY DEF Accepted, Calm, Live, Final, server, s3, presence, sender, recipient, history, Drop
<1> QED
  BY <1>1, <1>2, <1>3 DEF Accepted, BInv, Ending, Calm, Live, Final, server, s3,
       presence, sender, recipient, history, Drop

LEMMA SynchronizedCalm == ASSUME BInv, Synchronized PROVE Calm
<1>1. /\ at' \in [Devices -> Places] /\ job' \in [Devices -> Works]
      /\ at'[Recipient] = "looking" /\ job'[Recipient] = "none"
      /\ at'[Sender] = at[Sender] /\ job'[Sender] = job[Sender]
  BY Moved, TwoDevices, "looking" \in Places, "none" \in Works
  DEF BInv, Synchronized, Places, Works
<1>2. /\ UNCHANGED <<meta_data, bucket, progress, received, cleaned>>
      /\ saved' = saved \/ saved' = progress
  BY DEF Synchronized, Calm, Live, Final, server, s3, presence, sender, recipient, history
<1>3. (Live' => Live) /\ (told' => told)
  BY DEF Synchronized, Calm, Live, Final, server, s3, presence, sender, recipient, history
<1> QED
  BY <1>1, <1>2, <1>3 DEF Synchronized, BInv, Ending, Calm, Live, Final, server, s3,
       presence, sender, recipient, history

LEMMA ConnectCalm == ASSUME BInv, Connect PROVE Calm
<1>1. at'[Recipient] = "direct"
  BY TwoDevices DEF Connect
<1>2. /\ UNCHANGED <<meta_data, bucket, progress, received, cleaned>>
      /\ saved' = saved \/ saved' = progress
  BY DEF Connect, Calm, Live, Final, server, s3, presence, sender, recipient, history
<1>3. (Live' => Live) /\ (told' => told)
  BY DEF Connect, Calm, Live, Final, server, s3, presence, sender, recipient, history
<1> QED
  BY <1>1, <1>2, <1>3 DEF Connect, BInv, Ending, Calm, Live, Final, server, s3, presence,
       sender, recipient, history

\* What a device that moves, or does not, does to the upload and to the end.
LEMMA MovedCalm ==
  ASSUME BInv, NEW d \in Devices, NEW state \in Places, NEW work \in Works,
         Become(d, state, work), work \notin {"upload", "update"}
  PROVE  /\ job'[Sender] \in {"upload", "update"} => job'[Sender] = job[Sender] /\ d # Sender
         /\ at'[Recipient] = "end" => state = "end" \/ Final
<1>1. /\ at'[d] = state /\ job'[d] = work
      /\ \A e \in Devices \ {d} : at'[e] = at[e] /\ job'[e] = job[e]
  BY Moved DEF BInv
<1> QED
  BY <1>1, TwoDevices DEF BInv, Ending

LEMMA DepartCalm == ASSUME BInv, NEW d \in Devices, Depart(d) PROVE Calm
<1>1. /\ UNCHANGED <<meta_data, bucket, progress, received, cleaned>>
      /\ saved' = saved \/ saved' = progress
      /\ d # Sender => up' = up
  BY DEF Depart, Calm, Live, Final, server, s3, presence, sender, recipient, history
<1>2. (Live' => Live) /\ (told' => told) /\ (Final => Final')
  BY DEF Depart, Calm, Live, Final, server, s3, presence, sender, recipient, history
<1>3. /\ job'[Sender] \in {"upload", "update"} => job'[Sender] = job[Sender] /\ up' = up
      /\ at'[Recipient] = "end" => Final'
  <2>1. Become(d, "away", "credentials") \/ Become(d, "away", "begin")
    BY DEF Depart
  <2> QED
    BY <1>1, <1>2, <2>1, MovedCalm, "away" \in Places, "begin" \in Works,
         "credentials" \in Works DEF Places, Works
<1> QED
  BY <1>1, <1>2, <1>3 DEF Calm

LEMMA RejoinCalm == ASSUME BInv, NEW d \in Devices, Rejoin(d) PROVE Calm
<1>1. /\ UNCHANGED <<meta_data, bucket, progress, received, cleaned>>
      /\ saved' = saved \/ saved' = progress
      /\ d # Sender => up' = up
  BY DEF Rejoin, Calm, Live, Final, server, s3, presence, sender, recipient, history, Drop
<1>2. (Live' => Live) /\ (told' => told) /\ (Final => Final')
  BY DEF Rejoin, Calm, Live, Final, server, s3, presence, sender, recipient, history, Drop
<1>3. /\ job'[Sender] \in {"upload", "update"} => job'[Sender] = job[Sender] /\ up' = up
      /\ at'[Recipient] = "end" => Final'
  <2>1. Become(d, "looking", "none")
    BY DEF Rejoin
  <2> QED
    BY <1>1, <1>2, <2>1, MovedCalm, "looking" \in Places, "none" \in Works DEF Places, Works
<1> QED
  BY <1>1, <1>2, <1>3 DEF Calm

LEMMA LinkLostCalm == ASSUME BInv, NEW d \in Devices, LinkLost(d) PROVE Calm
<1>1. /\ UNCHANGED <<meta_data, bucket, progress, received, cleaned>>
      /\ saved' = saved \/ saved' = progress
      /\ d # Sender => up' = up
  BY DEF LinkLost, Calm, Live, Final, server, s3, presence, sender, recipient, history
<1>2. (Live' => Live) /\ (told' => told) /\ (Final => Final')
  BY DEF LinkLost, Calm, Live, Final, server, s3, presence, sender, recipient, history
<1>3. /\ job'[Sender] \in {"upload", "update"} => job'[Sender] = job[Sender] /\ up' = up
      /\ at'[Recipient] = "end" => Final'
  <2>1. Become(d, "looking", "none")
    BY DEF LinkLost
  <2> QED
    BY <1>1, <1>2, <2>1, MovedCalm, "looking" \in Places, "none" \in Works DEF Places, Works
<1> QED
  BY <1>1, <1>2, <1>3 DEF Calm

LEMMA FinishedCalm == ASSUME BInv, NEW d \in Devices, Finished(d) PROVE Calm
<1>1. /\ UNCHANGED <<meta_data, bucket, progress, received, cleaned>>
      /\ saved' = saved \/ saved' = progress
      /\ d # Sender => up' = up
  BY DEF Finished, Calm, Live, Final, server, s3, presence, sender, recipient, history, Drop
<1>2. (Live' => Live) /\ (told' => told) /\ (Final => Final')
  BY DEF Finished, Calm, Live, Final, server, s3, presence, sender, recipient, history, Drop
<1>3. /\ job'[Sender] \in {"upload", "update"} => job'[Sender] = job[Sender] /\ up' = up
      /\ at'[Recipient] = "end" => Final'
  <2>1. Become(d, "done", "none") \/ Become(d, "end", "none")
    BY DEF Finished
  <2> QED
    BY <1>1, <1>2, <2>1, MovedCalm, "done" \in Places, "end" \in Places,
         "none" \in Works DEF Finished, Places, Works
<1> QED
  BY <1>1, <1>2, <1>3 DEF Calm

LEMMA FinishCalm == ASSUME BInv, NEW d \in Devices, Finish(d) PROVE Calm
<1>1. /\ UNCHANGED <<meta_data, bucket, progress, received, cleaned>>
      /\ saved' = saved \/ saved' = progress
      /\ d # Sender => up' = up
  BY DEF Finish, Calm, Live, Final, server, s3, presence, sender, recipient, history
<1>2. (Live' => Live) /\ (told' => told) /\ (Final => Final')
  BY DEF Finish, Calm, Live, Final, server, s3, presence, sender, recipient, history
<1>3. /\ job'[Sender] \in {"upload", "update"} => job'[Sender] = job[Sender] /\ up' = up
      /\ at'[Recipient] = "end" => Final'
  <2>1. job' = job /\ up' = up /\ Final'
    BY DEF Finish, sender, Final
  <2> QED
    BY <2>1
<1> QED
  BY <1>1, <1>2, <1>3 DEF Calm

LEMMA LeaveCalm == ASSUME BInv, NEW d \in Devices, Leave(d) PROVE Calm
<1>1. /\ UNCHANGED <<meta_data, bucket, progress, received, cleaned>>
      /\ saved' = saved \/ saved' = progress
      /\ d # Sender => up' = up
  BY DEF Leave, Calm, Live, Final, server, s3, presence, sender, recipient, history
<1>2. (Live' => Live) /\ (told' => told) /\ (Final => Final')
  BY DEF Leave, Calm, Live, Final, server, s3, presence, sender, recipient, history
<1>3. /\ job'[Sender] \in {"upload", "update"} => job'[Sender] = job[Sender] /\ up' = up
      /\ at'[Recipient] = "end" => Final'
  BY DEF Leave, BInv, Ending, sender, Final, server
<1> QED
  BY <1>1, <1>2, <1>3 DEF Calm

LEMMA ReturnCalm == ASSUME BInv, NEW d \in Devices, Return(d) PROVE Calm
<1>1. /\ UNCHANGED <<meta_data, bucket, progress, received, cleaned>>
      /\ saved' = saved \/ saved' = progress
      /\ d # Sender => up' = up
  BY DEF Return, Calm, Live, Final, server, s3, presence, sender, recipient, history,
       Reset, Drop
<1>2. (Live' => Live) /\ (told' => told) /\ (Final => Final')
  BY DEF Return, Calm, Live, Final, server, s3, presence, sender, recipient, history,
       Reset, Drop
<1>3. /\ job'[Sender] \in {"upload", "update"} => job'[Sender] = job[Sender] /\ up' = up
      /\ at'[Recipient] = "end" => Final'
  <2>1. \/ Become(d, "looking", "none") \/ Become(d, "sync", "begin")
        \/ UNCHANGED <<at, job, up>>
    BY DEF Return, Reset, sender
  <2>2. Final' = Final
    BY DEF Return, server, Final
  <2>3. CASE UNCHANGED <<at, job, up>>
    BY <2>2, <2>3 DEF BInv, Ending
  <2> QED
    BY <1>1, <1>2, <2>1, <2>3, MovedCalm, "looking" \in Places, "sync" \in Places,
       "none" \in Works, "begin" \in Works DEF Places, Works
<1> QED
  BY <1>1, <1>2, <1>3 DEF Calm

LEMMA RestartCalm == ASSUME BInv, NEW d \in Devices, Restart(d) PROVE Calm
<1>1. /\ UNCHANGED <<meta_data, bucket, progress, received, cleaned>>
      /\ saved' = saved \/ saved' = progress
      /\ d # Sender => up' = up
  BY DEF Restart, Calm, Live, Final, server, s3, presence, sender, recipient, history
<1>2. (Live' => Live) /\ (told' => told) /\ (Final => Final')
  BY DEF Restart, Calm, Live, Final, server, s3, presence, sender, recipient, history
<1>3. /\ job'[Sender] \in {"upload", "update"} => job'[Sender] = job[Sender] /\ up' = up
      /\ at'[Recipient] = "end" => Final'
  <2> DEFINE work == Decision(Recipient \in online)
  <2>1. \/ Become(d, "looking", "none") \/ Become(d, "waiting", work)
        \/ Become(d, "sync", "begin") \/ Become(d, "undecided", "none")
        \/ Become(d, "finish", "none")
    BY TwoDevices DEF Restart, RestartSender, RestartRecipient
  <2>2. work \in {"rest", "delay", "credentials"}
    BY DecisionWork
  <2> HIDE DEF work
  <2> QED
    BY <1>1, <1>2, <2>1, <2>2, MovedCalm, "looking" \in Places, "waiting" \in Places,
       "sync" \in Places, "undecided" \in Places, "finish" \in Places,
       "none" \in Works, "begin" \in Works, work \in Works DEF Places, Works
<1> QED
  BY <1>1, <1>2, <1>3 DEF Calm

-----------------------------------------------------------------------------
(***************************************************************************)
(* The steps of the upload, and those that receive or remove blocks.       *)
(***************************************************************************)

LEMMA PutMetaDataKeeps == ASSUME BInv, PutMetaData PROVE BInv'
<1>1. Typed'
  BY PutMetaDataTyped DEF BInv
<1>2. /\ job'[Sender] = "upload" /\ meta_data' /\ up' = NewUpload /\ at' = at
      /\ UNCHANGED <<server, bucket, progress, saved, recipient, history>>
  BY Worked, TwoDevices, "upload" \in Works DEF BInv, PutMetaData, Works
<1>3. /\ NewUpload.cursor = 0 /\ NewUpload.ack = 0
      /\ \A w \in Threads : NewUpload.thread[w] = Fresh /\ NewUpload.last[w] = 0
  BY DEF NewUpload
<1>4. Acknowledging' /\ Telling' /\ Ending'
  BY <1>2 DEF BInv, Acknowledging, Telling, Ending, SafeBelow, Safe, Live, Final, server,
              recipient, history
<1>5. Ordered'
  BY <1>2, <1>3 DEF Ordered
<1>6. Uploading'
  BY <1>2, <1>3 DEF Uploading, SafeBelow
<1> QED
  BY <1>1, <1>4, <1>5, <1>6 DEF BInv

LEMMA StoreKeeps == ASSUME BInv, NEW w \in Threads, Store(w) PROVE BInv'
<1>1. Typed'
  BY StoreTyped DEF BInv
<1>2. /\ bucket \subseteq bucket'
      /\ UNCHANGED <<server, meta_data, at, job, sender, recipient, history>>
  BY DEF Store
<1> QED
  BY <1>1, <1>2 DEF BInv, Acknowledging, Ordered, Uploading, Telling, Ending, SafeBelow,
       Safe, Live, Final, server, sender, recipient, history

\* Below the last block each coroutine has stored, every block was taken, and none is
\* being stored.
LEMMA BelowLast ==
  ASSUME BInv, NEW w \in Threads, job[Sender] = "upload", Live,
         up.thread[w] \in bucket \cap Blocks,
         NEW last, last = [up.last EXCEPT ![w] = up.thread[w]]
  PROVE  SafeBelow(Acknowledged(last))
<1>1. last \in [Threads -> 0..Total] /\ up.last \in [Threads -> 0..Total]
      /\ up.cursor \in 0..Total
  BY Constants DEF BInv, Typed, Uploads, Blocks
<1>2. Acknowledged(last) \in 0..Total /\ \A x \in Threads : Acknowledged(last) =< last[x]
  BY <1>1, Smallest
<1> SUFFICES ASSUME NEW b \in 0..(Acknowledged(last) - 1), ~Safe(b) PROVE FALSE
  BY DEF SafeBelow
<1>3. last[w] = up.thread[w] /\ up.thread[w] < up.cursor
  <2>1. up.thread[w] # Fresh /\ up.thread[w] # Ended
    BY Constants DEF Blocks, Fresh, Ended
  <2> QED
    BY <1>1, <2>1 DEF BInv, Ordered
<1>4. b \in Nat /\ b < last[w] /\ b \in 0..(up.cursor - 1) /\ b \in Blocks
  BY <1>1, <1>2, <1>3, Constants DEF Blocks
<1>5. PICK x \in Threads : up.thread[x] = b
  BY <1>4 DEF BInv, Uploading
<1>6. x # w
  BY <1>3, <1>4, <1>5
<1>7. last[x] = up.last[x] /\ up.last[x] =< b
  <2>1. up.thread[x] # Fresh /\ up.thread[x] # Ended
    BY <1>4, <1>5, Constants DEF Blocks, Fresh, Ended
  <2> QED
    BY <1>1, <1>5, <1>6, <2>1 DEF BInv, Ordered
<1> QED
  BY <1>1, <1>2, <1>7

LEMMA TakeKeeps == ASSUME BInv, NEW w \in Threads, Take(w) PROVE BInv'
<1> DEFINE u == Answered(w)
<1>0. /\ job[Sender] = "upload" /\ up.cursor \in 0..Total /\ progress \in 0..Total
      /\ up.last \in [Threads -> 0..Total] /\ up.thread \in [Threads -> 0..Fresh]
      /\ received \in 0..Total
      /\ UNCHANGED <<server, s3, at, job, recipient, history>>
  BY DEF BInv, Typed, Uploads, TypeOK, Take
<1>1. Typed'
  BY TakeTyped DEF BInv
<1>2. /\ u \in Uploads /\ u.cursor = up.cursor /\ u.thread = up.thread
      /\ \A x \in Threads \ {w} : u.last[x] = up.last[x]
      /\ u.last[w] =< up.cursor
      /\ Live => SafeBelow(u.ack)
  <2>1. CASE up.thread[w] = Fresh
    BY <1>0, <2>1, AnsweredTyped, AnsweredFresh DEF BInv, Ordered, Uploading
  <2>2. CASE up.thread[w] \in bucket \cap Blocks
    <3> DEFINE last == [up.last EXCEPT ![w] = up.thread[w]]
    <3>1. /\ u \in Uploads /\ u.cursor = up.cursor /\ u.thread = up.thread
          /\ u.last = last /\ (u.ack = up.ack \/ u.ack = Acknowledged(last))
      BY <2>2, AnsweredBlock DEF BInv
    <3>2. Live => SafeBelow(Acknowledged(last))
      BY <1>0, <2>2, BelowLast
    <3>3. Live => SafeBelow(up.ack)
      BY <1>0 DEF BInv, Uploading
    <3>4. last[w] = up.thread[w] /\ \A x \in Threads \ {w} : last[x] = up.last[x]
      BY <1>0
    <3>5. up.thread[w] =< up.cursor
      <4>1. up.thread[w] # Fresh /\ up.thread[w] # Ended
        BY <2>2, Constants DEF Blocks, Fresh, Ended
      <4> QED
        BY <1>0, <2>2, <4>1, Constants DEF BInv, Ordered, Blocks
    <3> HIDE DEF u, last
    <3> QED
      BY <3>1, <3>2, <3>3, <3>4, <3>5
  <2> QED
    BY <2>1, <2>2, AnsweredTyped DEF BInv
<1> HIDE DEF u
<1>3. /\ Next_block \in 0..Total /\ up.cursor =< Next_block
      /\ Next_block = up.cursor \/ Next_block = progress
  BY NextBlock DEF BInv
<1>4. Live => \A b \in 0..(Next_block - 1) :
                 Safe(b) \/ \E x \in Threads \ {w} : up.thread[x] = b
  <2> SUFFICES ASSUME Live, NEW b \in 0..(Next_block - 1), ~Safe(b)
               PROVE  \E x \in Threads \ {w} : up.thread[x] = b
    OBVIOUS
  <2>1. b \notin 0..(progress - 1)
    BY DEF BInv, Acknowledging, SafeBelow
  <2>2. b \in 0..(up.cursor - 1)
    BY <1>0, <1>3, <2>1
  <2>3. PICK x \in Threads : up.thread[x] = b
    BY <1>0, <2>2 DEF BInv, Uploading
  <2>4. b # Fresh
    BY <1>0, <2>2, Constants DEF Fresh
  <2>5. x # w
    BY <2>3, <2>4, AnsweredTyped DEF BInv, Safe
  <2> QED
    BY <2>3, <2>5
<1>5. CASE Next_block >= Total
  <2>1. /\ up' = [u EXCEPT !.cursor = Total, !.thread[w] = Ended]
        /\ UNCHANGED <<progress, saved>>
    BY <1>5 DEF Take, u
  <2>2. /\ up'.cursor = Total /\ up'.thread[w] = Ended /\ up'.last = u.last
        /\ up'.ack = u.ack /\ \A x \in Threads \ {w} : up'.thread[x] = up.thread[x]
    BY <1>0, <1>2, <2>1 DEF Uploads
  <2>3. Ordered'
    <3> SUFFICES ASSUME NEW x \in Threads
                 PROVE  /\ u.last[x] =< Total
                        /\ \/ up'.thread[x] = Fresh /\ u.last[x] = 0
                           \/ up'.thread[x] = Ended
                           \/ /\ up'.thread[x] \in Blocks /\ u.last[x] =< up'.thread[x]
                              /\ up'.thread[x] < Total
      BY <2>2 DEF Ordered
    <3>1. u.last[x] \in 0..Total
      BY <1>2 DEF Uploads
    <3>2. CASE x = w
      BY <2>2, <3>1, <3>2
    <3>3. CASE x # w
      <4>1. up'.thread[x] = up.thread[x] /\ u.last[x] = up.last[x]
        BY <1>2, <2>2, <3>3
      <4>2. \A b \in Blocks : b < Total
        BY Constants DEF Blocks
      <4> QED
        BY <1>0, <3>1, <4>1, <4>2, Constants DEF BInv, Ordered
    <3> QED
      BY <3>2, <3>3
  <2>4. Next_block = Total
    BY <1>3, <1>5, Constants
  <2>5. Uploading'
    BY <1>0, <1>2, <1>4, <2>2, <2>4 DEF BInv, Uploading, SafeBelow, Safe, Live, Final,
       server, s3, recipient, history
  <2>6. Acknowledging' /\ Telling' /\ Ending'
    BY <1>0, <2>1 DEF BInv, Acknowledging, Telling, Ending, SafeBelow, Safe, Live, Final,
       server, s3, recipient, history
  <2> QED
    BY <1>1, <2>3, <2>5, <2>6 DEF BInv
<1>6. CASE ~(Next_block >= Total)
  <2>1. /\ up' = [u EXCEPT !.cursor = Next_block + 1, !.thread[w] = Next_block,
                         !.save = FALSE]
        /\ Acknowledge(u.ack)
        /\ saved' = progress' \/ saved' = saved
    BY <1>6 DEF Take, u
  <2>2. /\ up'.cursor = Next_block + 1 /\ up'.thread[w] = Next_block /\ up'.last = u.last
        /\ up'.ack = u.ack /\ \A x \in Threads \ {w} : up'.thread[x] = up.thread[x]
    BY <1>0, <1>2, <2>1 DEF Uploads
  <2>3. Next_block \in Blocks /\ up.cursor < Total
    BY <1>0, <1>3, <1>6, Constants DEF Blocks
  <2>4. Ordered'
    <3> SUFFICES ASSUME NEW x \in Threads
                 PROVE  /\ u.last[x] =< Next_block + 1
                        /\ \/ up'.thread[x] = Fresh /\ u.last[x] = 0
                           \/ /\ up'.thread[x] \in Blocks /\ u.last[x] =< up'.thread[x]
                              /\ up'.thread[x] < Next_block + 1
      BY <2>2 DEF Ordered
    <3>1. u.last[x] \in 0..Total
      BY <1>2 DEF Uploads
    <3>2. CASE x = w
      BY <1>0, <1>2, <1>3, <2>2, <2>3, <3>1, <3>2
    <3>3. CASE x # w
      <4>1. up'.thread[x] = up.thread[x] /\ u.last[x] = up.last[x]
        BY <1>2, <2>2, <3>3
      <4>2. \A b \in Blocks : b \in Nat
        BY Constants DEF Blocks
      <4>3. /\ up.last[x] =< up.cursor
            /\ \/ up.thread[x] = Fresh /\ up.last[x] = 0
               \/ /\ up.thread[x] \in Blocks /\ up.last[x] =< up.thread[x]
                  /\ up.thread[x] < up.cursor
        BY <1>0, <2>3, Constants DEF BInv, Ordered
      <4> QED
        BY <1>0, <1>3, <3>1, <4>1, <4>2, <4>3
    <3> QED
      BY <3>2, <3>3
  <2>5. Uploading'
    <3> SUFFICES ASSUME Live PROVE /\ meta_data
                                   /\ \A b \in 0..Next_block :
                                        Safe(b) \/ \E x \in Threads : up'.thread[x] = b
                                   /\ SafeBelow(u.ack)
      BY <1>0, <1>3, <2>2
      DEF Uploading, SafeBelow, Safe, Live, Final, server, s3, recipient,
         history
    <3>1. \A b \in 0..Next_block : b = Next_block \/ b \in 0..(Next_block - 1)
      BY <1>3
    <3> QED
      BY <1>0, <1>2, <1>4, <2>2, <3>1 DEF BInv, Uploading
  <2>6. /\ progress' \in 0..Total /\ progress =< progress'
        /\ progress' = progress \/ progress' = u.ack
    BY <1>2, <2>1, Progressed DEF BInv, Uploads
  <2>7. Acknowledging'
    BY <1>0, <1>2, <2>6 DEF BInv, Acknowledging, SafeBelow, Safe, Live, Final, server, s3,
       recipient, history
  <2>8. Telling'
    <3>1. saved = Total => progress' = Total
      BY <1>0, <2>6, Constants DEF BInv, Typed, Uploads, TypeOK
    <3> QED
      BY <1>0, <2>1, <3>1 DEF BInv, Telling, Live, Final, server, s3, history
  <2>9. Ending'
    BY <1>0 DEF BInv, Ending, Final, server, recipient
  <2> QED
    BY <1>1, <2>4, <2>5, <2>7, <2>8, <2>9 DEF BInv
<1> QED
  BY <1>5, <1>6

\* The last coroutine found nothing left, and what is stored is all there is.
LEMMA JoinKeeps == ASSUME BInv, Join PROVE BInv'
<1>1. Typed'
  BY JoinTyped DEF BInv
<1>2. /\ job'[Sender] = "update" /\ at' = at
      /\ UNCHANGED <<server, s3, presence, recipient, history>>
  BY Worked, TwoDevices, "update" \in Works DEF BInv, Join, Works
<1>3. saved' = Total
  BY DEF Join
<1>4. Live => meta_data /\ SafeBelow(Total)
  <2> SUFFICES ASSUME Live PROVE meta_data /\ SafeBelow(Total)
    OBVIOUS
  <2>1. job[Sender] = "upload" /\ \A w \in Threads : up.thread[w] = Ended
    BY DEF Join, Over
  <2>2. up.cursor = Total
    <3>1. PICK w \in Threads : TRUE
      BY Constants
    <3>2. Ended # Fresh /\ Ended \notin Blocks
      BY Constants DEF Ended, Fresh, Blocks
    <3> QED
      BY <2>1, <3>1, <3>2 DEF BInv, Ordered
  <2>3. Ended \notin 0..(Total - 1)
    BY Constants DEF Ended
  <2> QED
    BY <2>1, <2>2, <2>3 DEF BInv, Uploading, SafeBelow
<1>5. progress' = progress \/ progress' = Total
  BY Progressed, Constants DEF BInv, Join
<1>6. Acknowledging'
  BY <1>2, <1>4, <1>5 DEF BInv, Acknowledging, SafeBelow, Safe, Live, Final, server, s3,
     recipient, history
<1>7. Ordered' /\ Uploading'
  BY <1>2 DEF Ordered, Uploading
<1>8. Telling' /\ Ending'
  BY <1>2, <1>3, <1>4 DEF BInv, Telling, Ending, Live, Final, server, s3, recipient, history
<1> QED
  BY <1>1, <1>6, <1>7, <1>8 DEF BInv

LEMMA UpdateKeeps == ASSUME BInv, Update PROVE BInv'
<1>1. Typed'
  BY UpdateTyped DEF BInv
<1>2. /\ job[Sender] = "update" /\ job'[Sender] = "rest" /\ at' = at
      /\ UNCHANGED <<token, s3, presence, sender, recipient>>
  BY Worked, TwoDevices, "rest" \in Works DEF BInv, Update, Works
<1>3. (Live' => Live) /\ (Final => Final')
  BY DEF Update, Live, Final
<1> QED
  BY <1>1, <1>2, <1>3 DEF BInv, Acknowledging, Ordered, Uploading, Telling, Ending,
       SafeBelow, Safe, s3, sender, recipient

\* What the recipient receives is safe.
LEMMA GetKeeps == ASSUME BInv, Get PROVE BInv'
<1>1. Typed'
  BY GetTyped DEF BInv
<1>2. received < Total /\ received \in 0..Total
  BY Constants DEF BInv, Typed, Uploads, TypeOK, Get
<1>3. received' = received + 1 /\ \A b : Safe(b) => b \in bucket' \/ b = received \/ b < received
  BY DEF Get, Safe, s3
<1>4. \A b \in 0..Total : Safe(b) => Safe(b)'
  BY <1>2 DEF Get, Safe, s3
<1>5. UNCHANGED <<server, s3, at, job, sender, cleaned, history>>
  BY DEF Get
<1>6. Acknowledging'
  BY <1>4, <1>5, Constants
  DEF BInv, Typed, Uploads, TypeOK, Acknowledging, SafeBelow, Live, Final,
     server, sender, history
<1>7. Ordered' /\ Telling' /\ Ending'
  BY <1>2, <1>5 DEF BInv, Ordered, Telling, Ending, Live, Final, server, s3, sender, history
<1>8. Uploading'
  <2>1. up.cursor \in 0..Total /\ up.ack \in 0..Total
    BY DEF BInv, Typed, Uploads
  <2> QED
    BY <1>4, <1>5, <2>1, Constants
    DEF BInv, Uploading, SafeBelow, Live, Final, server, s3, sender, history
<1> QED
  BY <1>1, <1>6, <1>7, <1>8 DEF BInv

LEMMA CleanKeeps == ASSUME BInv, Clean PROVE BInv'
<1>1. Typed'
  BY CleanTyped DEF BInv
<1> QED
  BY <1>1 DEF BInv, Clean, Acknowledging, Ordered, Uploading, Telling, Ending, SafeBelow,
       Safe, Live, Final, server, s3, sender, history

\* What the sender acknowledges was received.
LEMMA DirectKeeps == ASSUME BInv, Direct PROVE BInv'
<1>1. Typed'
  BY DirectTyped DEF BInv
<1>2. received < Total /\ received \in 0..Total /\ received' = received + 1
  BY DEF BInv, Typed, Uploads, TypeOK, Direct
<1>3. \A b \in 0..Total : (Safe(b) => Safe(b)') /\ (b < received => Safe(b)')
  BY <1>2 DEF Direct, Safe, s3
<1>4. UNCHANGED <<server, s3, at, job, saved, up, cleaned, history>>
  BY DEF Direct
<1>5. /\ progress \in 0..Total /\ progress' \in 0..Total /\ progress =< progress'
      /\ progress' = progress \/ progress' = received
  BY <1>2, Progressed DEF BInv, Typed, Uploads, TypeOK, Direct
<1>6. Acknowledging'
  <2>1. ASSUME NEW n \in 0..Total, n = progress \/ n = received, Live,
               NEW b \in 0..(n - 1)
        PROVE  Safe(b)'
    <3>1. b \in 0..Total /\ b < n
      BY Constants
    <3>2. CASE n = progress
      BY <1>3, <2>1, <3>1, <3>2 DEF BInv, Acknowledging, SafeBelow
    <3>3. CASE n = received
      BY <1>3, <3>1, <3>3
    <3> QED
      BY <2>1, <3>2, <3>3
  <2> QED
    BY <1>4, <1>5, <2>1 DEF Acknowledging, SafeBelow, Live, Final, server, history
<1>7. Ordered' /\ Ending'
  BY <1>2, <1>4 DEF BInv, Ordered, Ending, Final, server
<1>8. Telling'
  BY <1>4 DEF BInv, Telling, Live, Final, server, s3, history
<1>9. Uploading'
  <2>1. up.cursor \in 0..Total /\ up.ack \in 0..Total
    BY DEF BInv, Typed, Uploads
  <2> QED
    BY <1>3, <1>4, <2>1, Constants
    DEF BInv, Uploading, SafeBelow, Live, Final, server, s3, history
<1> QED
  BY <1>1, <1>6, <1>7, <1>8, <1>9 DEF BInv

\* The files are there.
LEMMA TellKeeps == ASSUME BInv, Tell PROVE BInv'
<1>1. Typed'
  BY TellTyped DEF BInv
<1>2. /\ cleaned /\ progress' = Total /\ at'[Recipient] = "finish"
      /\ UNCHANGED <<server, s3, job, saved, up, recipient, history>>
  BY TwoDevices DEF BInv, Typed, Uploads, Tell
<1>3. received = Total
  BY <1>2 DEF BInv, Ending
<1>4. Acknowledging'
  BY <1>2, <1>3, Constants DEF Acknowledging, SafeBelow, Safe, recipient
<1> QED
  BY <1>1, <1>2, <1>4 DEF BInv, Ordered, Uploading, Telling, Ending, SafeBelow, Safe, Live,
       Final, server, s3, recipient, history

\* The bucket goes when nothing is promised any more.
LEMMA EndKeeps == ASSUME BInv, End PROVE BInv'
<1>1. Typed'
  BY EndTyped DEF BInv
<1>2. /\ at'[Recipient] = "done" /\ job'[Sender] = job[Sender]
      /\ UNCHANGED <<server, presence, sender, recipient, history>>
  BY Moved, TwoDevices, "done" \in Places, "none" \in Works DEF BInv, End, Places, Works
<1>3. Final /\ ~Live'
  BY <1>2 DEF BInv, Ending, End, Live, Final, server
<1> QED
  BY <1>1, <1>2, <1>3 DEF BInv, Acknowledging, Ordered, Uploading, Telling, Ending, sender,
       recipient, history

\* The sender goes back to what it saved; a recipient that lost its files is set apart.
LEMMA CrashKeeps == ASSUME BInv, NEW d \in Devices, Crash(d) PROVE BInv'
<1>1. Typed'
  BY CrashTyped DEF BInv
<1>2. /\ UNCHANGED <<server, s3, told, saved>>
      /\ job'[d] = "none"
      /\ at'[Recipient] # "end" \/ at'[Recipient] = at[Recipient]
      /\ d # Sender => job'[Sender] = job[Sender]
  <2>1. /\ Become(d, "halted", "none") \/ Become(d, "off", "none")
        /\ UNCHANGED <<server, s3, told, saved>>
    BY TwoDevices DEF Crash, sender
  <2> QED
    BY <2>1, Moved, TwoDevices, "halted" \in Places, "off" \in Places, "none" \in Works
    DEF BInv, Places, Works
<1>3. CASE d = Sender
  <2>1. progress' = saved /\ UNCHANGED <<recipient, excuse>>
    BY <1>3 DEF Crash
  <2>2. SafeBelow(progress) => SafeBelow(saved)
    BY Constants DEF BInv, Typed, Uploads, TypeOK, SafeBelow
  <2>3. Acknowledging'
    BY <1>2, <2>1, <2>2 DEF BInv, Acknowledging, SafeBelow, Safe, Live, Final, server, s3,
       recipient
  <2>4. job'[Sender] = "none"
    BY <1>2, <1>3
  <2>5. Ordered' /\ Uploading'
    BY <2>4 DEF Ordered, Uploading
  <2>6. Telling'
    BY <1>2, <2>1, <2>4 DEF BInv, Telling, Live, Final, server, s3, recipient
  <2>7. Ending'
    BY <1>2, <2>1 DEF BInv, Ending, Final, server, recipient
  <2> QED
    BY <1>1, <2>3, <2>5, <2>6, <2>7 DEF BInv
<1>4. CASE d # Sender
  <2>1. UNCHANGED sender /\ job'[Sender] = job[Sender]
    BY <1>2, <1>4 DEF Crash
  <2>2. \/ UNCHANGED <<received, cleaned, excuse>>
        \/ ~cleaned' /\ "lost" \in excuse'
    BY <1>4 DEF Crash
  <2>3. CASE UNCHANGED <<received, cleaned, excuse>>
    BY <1>1, <1>2, <2>1, <2>3 DEF BInv, Acknowledging, Ordered, Uploading, Telling, Ending,
       SafeBelow, Safe, Live, Final, server, s3, sender
  <2>4. CASE ~cleaned' /\ "lost" \in excuse'
    BY <1>1, <1>2, <2>1, <2>4 DEF BInv, Acknowledging, Ordered, Uploading, Telling, Ending,
       Live, Final, server, s3, sender
  <2> QED
    BY <2>2, <2>3, <2>4
<1> QED
  BY <1>3, <1>4

-----------------------------------------------------------------------------
LEMMA SenderGood == ASSUME BInv, SenderStep PROVE BInv'
BY CalmKeeps, TwoDevices, BufferCalm, BufferTyped, CredentialsCalm, CredentialsTyped,
   PutMetaDataKeeps, JoinKeeps, UpdateKeeps, TakeKeeps, StoreKeeps, AcceptedCalm,
   AcceptedTyped, DepartCalm, DepartTyped, RejoinCalm, RejoinTyped, LinkLostCalm,
   LinkLostTyped, FinishCalm, FinishTyped, FinishedCalm, FinishedTyped
DEF SenderStep, BInv

LEMMA RecipientGood == ASSUME BInv, RecipientStep PROVE BInv'
BY CalmKeeps, TwoDevices, BeginGetCalm, BeginGetTyped, GetKeeps, ExhaustedCalm,
   ExhaustedTyped, CleanKeeps, GetDoneCalm, GetDoneTyped, SynchronizedCalm,
   SynchronizedTyped, DepartCalm, DepartTyped, RejoinCalm, RejoinTyped, LinkLostCalm,
   LinkLostTyped, FinishCalm, FinishTyped, EndKeeps, FinishedCalm, FinishedTyped
DEF RecipientStep, BInv

LEMMA LinkGood == ASSUME BInv, Link PROVE BInv'
BY CalmKeeps, ConnectCalm, ConnectTyped, DirectKeeps, TellKeeps DEF Link, BInv

LEMMA FaultGood == ASSUME BInv, Fault PROVE BInv'
BY CalmKeeps, RefusedCalm, RefusedTyped, GetFailedCalm, GetFailedTyped, LeaveCalm,
   LeaveTyped, ReturnCalm, ReturnTyped, CrashKeeps, RestartCalm, RestartTyped
DEF Fault, BInv

LEMMA StutterGood == ASSUME BInv, UNCHANGED vars PROVE BInv'
BY DEF BInv, Typed, Uploads, TypeOK, Acknowledging, Ordered, Uploading, Telling, Ending,
     SafeBelow,
       Safe, Live, Final, vars, server, s3, presence, sender, recipient, history

LEMMA BufferGood == Spec => []BInv
<1>1. ASSUME BInv, [Next]_vars PROVE BInv'
  BY <1>1, StutterGood, SenderGood, RecipientGood, LinkGood, FaultGood, CalmKeeps,
     AcceptCalm, AcceptTyped DEF Next, BInv
<1> QED
  BY <1>1, InitGood, PTL DEF Spec

\* Whatever the coroutines of the upload store in which order, whatever the two devices
\* lose and whichever way the blocks go (PeerSendMachine.cc, PeerReceiveMachine.cc), what
\* the sender counts as sent was received or is in the bucket; once it told that all is in
\* the cloud, what the recipient lacks is there.
THEOREM CloudPromise == Spec => []Promise
<1>1. BInv => Promise
  <2> SUFFICES ASSUME BInv PROVE Promise
    OBVIOUS
  <2>1. Honest
    BY Constants
    DEF BInv, Typed, Uploads, TypeOK, Acknowledging, SafeBelow, Safe, Live, Honest
  <2>2. ASSUME told, Live PROVE meta_data /\ Lacking \subseteq bucket
    <3>1. progress = Total
      BY <2>2, Constants DEF BInv, Typed, Uploads, TypeOK, Telling
    <3> QED
      BY <2>2, <3>1, Constants
      DEF BInv, Typed, Uploads, TypeOK, Telling, Acknowledging, SafeBelow, Safe, Lacking
  <2> QED
    BY <2>1, <2>2 DEF BInv, Typed, Uploads, Promise, Live
<1> QED
  BY <1>1, BufferGood, PTL
=============================================================================
