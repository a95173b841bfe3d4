----------------------------- MODULE LinkProofs -----------------------------
(***************************************************************************)
(* Proofs about PlainUpload and LinkTransaction, for any number of chunks, *)
(* coroutines and faults: the device of a link uploads as PlainUpload      *)
(* says, what the store puts together is the file, and what meta keeps of  *)
(* a link is right: the space that is counted for its owner too, unless    *)
(* two updates overlap.                                                    *)
(***************************************************************************)
EXTENDS LinkTransaction, TLAPS

-----------------------------------------------------------------------------
(***************************************************************************)
(* The inductive invariant of an upload.                                   *)
(***************************************************************************)

\* Nothing is known of an upload that has not begun.
Fresh == protocol = "aws" /\ step \in {"off", "start"} =>
           /\ next_chunk = 0
           /\ chunks = NoChunks
           /\ pushing = [c \in Coroutines |-> Idle]

\* A chunk a coroutine pushes was taken by it alone, and is not in the list.
Alone == \A c \in Coroutines : pushing[c] \in Chunks =>
           /\ pushing[c] < next_chunk
           /\ chunks[pushing[c]] = 0
           /\ \A d \in Coroutines \ {c} : pushing[d] # pushing[c]

\* Below the next chunk, every chunk is in the list once or being pushed; from it on, a
\* chunk of the list is one that was found there.
Accounted == \A k \in Chunks :
               /\ chunks[k] \in {0, 1}
               /\ k < next_chunk => chunks[k] = 1 \/ \E c \in Coroutines : pushing[c] = k
               /\ k >= next_chunk /\ chunks[k] = 1 => k <= max_check_id

\* The store has what is in the list.
Kept == session.live => \A k \in Chunks : chunks[k] = 1 => k \in session.parts

\* A coroutine leaves when there is nothing to take.
Finishing == \A c \in Coroutines : pushing[c] = Left => next_chunk = Count

Pushing == aws("push") => Alone /\ Accounted /\ Kept /\ Finishing

Listed == aws("finalize") => Kept /\ \A k \in Chunks : chunks[k] = 1

\* The steps of each store, and what is left to push on GCS.
Steps == /\ protocol = "gcs" => step \notin {"finalize", "answered"}
         /\ gcs("push") => next_chunk < Count

UInv == UTypeOK /\ object # "partial" /\ Fresh /\ Pushing /\ Listed /\ Steps

-----------------------------------------------------------------------------
(***************************************************************************)
(* Every step of an upload keeps it.                                       *)
(***************************************************************************)

\* The count is a positive number, and there is a coroutine.
LEMMA CountFact == Count \in Nat /\ Count > 0 /\ Coroutines # {} /\ Chunks = 0..(Count - 1) /\ Left = Count
                   /\ Idle = -1 /\ Protocols \subseteq {"aws", "gcs"} /\ MaxFaults \in Nat
  BY UploadAssumption DEF Chunks, Left, Idle

\* What the store may have.
Sessions == [live : BOOLEAN, parts : SUBSET Chunks]

LEMMA SessionFact == /\ Opened \in Sessions /\ Opened.live /\ Opened.parts = {}
                     /\ [live |-> FALSE, parts |-> {}] \in Sessions
  BY DEF Opened, Sessions

LEMMA UInitInv == UInit => UInv
<1> SUFFICES ASSUME UInit PROVE UInv
  OBVIOUS
<1>0. /\ chunks \in [Chunks -> Nat] /\ pushing \in [Coroutines -> {Idle} \union 0..Count]
      /\ next_chunk \in 0..Count /\ max_check_id \in Chunks
  BY CountFact DEF UInit, NoChunks
<1>1. UTypeOK
  BY <1>0, CountFact, SessionFact DEF UInit, UTypeOK, Sessions
<1> QED
  BY <1>1 DEF UInit, UInv, Fresh, Pushing, Listed, Steps, aws, gcs

LEMMA BeginInv == ASSUME UInv, Begin PROVE UInv'
  BY CountFact DEF Begin, UInv, UTypeOK, Fresh, NoChunks, Pushing, Listed, Steps, aws, gcs

\* What was listed is there, and what was pushed before it is in the list.
LEMMA ResumeInv == ASSUME UInv, Resume PROVE UInv'
<1>1. /\ protocol = "aws" /\ step = "start" /\ step' = "push" /\ protocol' = protocol
      /\ session' = session /\ object' = object /\ uid' = uid /\ refused' = refused
      /\ faults' = faults
      /\ pushing = [c \in Coroutines |-> Idle] /\ pushing' = pushing
  BY DEF Resume, aws, UInv, Fresh
<1>2. PICK n \in 0..Count : 0..(n - 1) \subseteq session.parts /\ next_chunk' = n
  BY DEF Resume
<1>3. PICK last \in Chunks : /\ max_check_id' = last
                             /\ \A k \in session.parts : k <= last
  BY DEF Resume
<1>4. session.parts \subseteq Chunks
  BY DEF UInv, UTypeOK
<1>5. /\ chunks' \in [Chunks -> {0, 1}]
      /\ \A k \in Chunks : chunks'[k] = 1 <=> k \in session.parts
  BY DEF Resume
<1>6. UTypeOK'
  BY SMTT(30), <1>1, <1>2, <1>3, <1>5, CountFact DEF UInv, UTypeOK
<1>7. Accounted'
  BY <1>2, <1>3, <1>5, CountFact DEF Accounted
<1>8. Alone' /\ Finishing'
  BY <1>1, CountFact DEF Alone, Finishing
<1>9. Kept'
  BY <1>1, <1>5 DEF Kept
<1> QED
  BY <1>1, <1>6, <1>7, <1>8, <1>9 DEF UInv, Fresh, Pushing, Listed, Steps, aws, gcs

LEMMA InitializeInv == ASSUME UInv, Initialize PROVE UInv'
<1>1. /\ chunks' = NoChunks /\ pushing' = [c \in Coroutines |-> Idle] /\ next_chunk' = 0
      /\ protocol' = "aws" /\ step' = "push"
  BY DEF Initialize, aws, UInv, Fresh
<1>2. UTypeOK' /\ object' # "partial"
  BY CountFact DEF Initialize, Opened, UInv, UTypeOK
<1>3. Alone' /\ Accounted' /\ Kept' /\ Finishing'
  BY <1>1, CountFact DEF NoChunks, Alone, Accounted, Kept, Finishing
<1> QED
  BY <1>1, <1>2, <1>3 DEF UInv, Fresh, Pushing, Listed, Steps, aws, gcs

LEMMA FetchInv == ASSUME UInv, NEW c \in Coroutines, Fetch(c) PROVE UInv'
<1> USE CountFact
<1>1. /\ protocol = "aws" /\ step = "push" /\ pushing[c] = Idle
      /\ UNCHANGED <<protocol, object, session, uid, step, max_check_id, chunks, refused,
                     faults>>
  BY DEF Fetch, aws
<1>2. UTypeOK /\ Alone /\ Accounted /\ Kept /\ Finishing
  BY <1>1 DEF UInv, Pushing, aws
<1>3. CASE next_chunk < Count /\ has_it(next_chunk)
  <2>1. next_chunk' = next_chunk + 1 /\ pushing' = pushing /\ chunks[next_chunk] = 1
    BY <1>1, <1>2, <1>3 DEF Fetch, has_it, UTypeOK, Accounted
  <2>2. UTypeOK' /\ Alone' /\ Accounted' /\ Kept' /\ Finishing'
    BY <1>1, <1>2, <1>3, <2>1 DEF UTypeOK, Alone, Accounted, Kept, Finishing
  <2> QED
    BY <1>1, <2>2 DEF UInv, Fresh, Pushing, Listed, Steps, aws, gcs
<1>4. CASE next_chunk < Count /\ ~has_it(next_chunk)
  <2>1. /\ next_chunk' = next_chunk + 1 /\ chunks[next_chunk] = 0
        /\ pushing' = [pushing EXCEPT ![c] = next_chunk]
    BY <1>1, <1>2, <1>4 DEF Fetch, has_it, UTypeOK, Accounted
  <2>2. pushing'[c] = next_chunk /\ \A d \in Coroutines \ {c} : pushing'[d] = pushing[d]
    BY <2>1, <1>2 DEF UTypeOK
  <2>3. UTypeOK'
    BY <1>1, <1>2, <1>4, <2>1 DEF UTypeOK
  <2>4. Alone'
    BY <1>1, <1>2, <1>4, <2>1, <2>2 DEF UTypeOK, Alone
  <2>5. Accounted'
    <3> SUFFICES ASSUME NEW k \in Chunks
                 PROVE  /\ chunks'[k] \in {0, 1}
                        /\ k < next_chunk' => \/ chunks'[k] = 1
                                              \/ \E d \in Coroutines : pushing'[d] = k
                        /\ k >= next_chunk' /\ chunks'[k] = 1 => k <= max_check_id'
      BY DEF Accounted
    <3>1. CASE k = next_chunk
      BY <1>1, <1>2, <2>1, <2>2, <3>1 DEF UTypeOK, Accounted
    <3>2. CASE k # next_chunk
      BY <1>1, <1>2, <2>1, <2>2, <3>2 DEF UTypeOK, Accounted
    <3> QED
      BY <3>1, <3>2
  <2>6. Kept' /\ Finishing'
    BY <1>1, <1>2, <1>4, <2>1, <2>2 DEF UTypeOK, Kept, Finishing
  <2> QED
    BY <1>1, <2>3, <2>4, <2>5, <2>6 DEF UInv, Fresh, Pushing, Listed, Steps, aws, gcs
<1>5. CASE next_chunk >= Count
  <2>1. pushing' = [pushing EXCEPT ![c] = Left] /\ next_chunk' = next_chunk
    BY <1>2, <1>5 DEF Fetch, UTypeOK
  <2>2. pushing'[c] = Left /\ \A d \in Coroutines \ {c} : pushing'[d] = pushing[d]
    BY <2>1, <1>2 DEF UTypeOK
  <2>3. UTypeOK' /\ Alone' /\ Kept' /\ Finishing'
    BY <1>1, <1>2, <1>5, <2>1, <2>2 DEF UTypeOK, Alone, Kept, Finishing
  <2>4. Accounted'
    BY <1>1, <1>2, <2>1, <2>2 DEF UTypeOK, Accounted
  <2> QED
    BY <1>1, <2>3, <2>4 DEF UInv, Fresh, Pushing, Listed, Steps, aws, gcs
<1> QED
  BY <1>2, <1>3, <1>4, <1>5 DEF UTypeOK

LEMMA PushInv == ASSUME UInv, NEW c \in Coroutines, Push(c) PROVE UInv'
<1> USE CountFact
<1> DEFINE q == pushing[c]
<1>1. /\ protocol = "aws" /\ step = "push" /\ q \in Chunks /\ session.live
      /\ session' = [session EXCEPT !.parts = @ \union {q}]
      /\ chunks' = [chunks EXCEPT ![q] = @ + 1]
      /\ pushing' = [pushing EXCEPT ![c] = Idle]
      /\ UNCHANGED <<protocol, object, uid, step, next_chunk, max_check_id, refused, faults>>
  BY DEF Push, aws
<1>2. UTypeOK /\ Alone /\ Accounted /\ Kept /\ Finishing
  BY <1>1 DEF UInv, Pushing, aws
<1>3. chunks[q] = 0 /\ q < next_chunk
  BY <1>1, <1>2 DEF Alone
<1>4. /\ chunks'[q] = 1 /\ \A k \in Chunks \ {q} : chunks'[k] = chunks[k]
      /\ pushing'[c] = Idle /\ \A d \in Coroutines \ {c} : pushing'[d] = pushing[d]
  BY <1>1, <1>2, <1>3 DEF UTypeOK
<1>5. /\ session'.live = session.live
      /\ session'.parts = session.parts \union {q}
  BY <1>1, <1>2 DEF UTypeOK
<1>6. UTypeOK'
  BY SMTT(30), <1>1, <1>2 DEF UTypeOK
<1>7. Alone'
  BY <1>1, <1>2, <1>4 DEF Alone
<1>8. Accounted'
  BY <1>1, <1>2, <1>3, <1>4 DEF UTypeOK, Accounted
<1>9. Kept' /\ Finishing'
  BY <1>1, <1>2, <1>4, <1>5 DEF Kept, Finishing
<1> QED
  BY <1>1, <1>6, <1>7, <1>8, <1>9 DEF UInv, Fresh, Pushing, Listed, Steps, aws, gcs

LEMMA LostInv == ASSUME UInv, NEW c \in Coroutines, Lost(c) PROVE UInv'
  BY CountFact DEF Lost, UInv, UTypeOK, Fresh, Pushing, Listed, Steps, aws, gcs

\* When every coroutine is done every chunk is in the list.
LEMMA JoinedInv == ASSUME UInv, Joined PROVE UInv'
<1>1. /\ protocol = "aws" /\ step' = "finalize" /\ \A c \in Coroutines : pushing[c] = Left
      /\ UNCHANGED <<protocol, object, session, uid, next_chunk, max_check_id, chunks,
                     pushing, refused, faults>>
      /\ UTypeOK /\ Accounted /\ Kept /\ Finishing
  BY DEF Joined, UInv, Pushing, aws
<1>2. UTypeOK' /\ Kept'
  BY <1>1 DEF UTypeOK, Kept
<1>3. ASSUME NEW k \in Chunks PROVE chunks[k] = 1
  BY <1>1, CountFact DEF Accounted, Finishing
<1> QED
  BY <1>1, <1>2, <1>3 DEF UInv, Fresh, Pushing, Listed, Steps, aws, gcs

LEMMA FinalizeInv == ASSUME UInv, Finalize PROVE UInv'
<1>1. protocol = "aws" /\ step = "finalize" /\ UTypeOK /\ object # "partial"
      /\ Kept /\ \A k \in Chunks : chunks[k] = 1
  BY DEF Finalize, UInv, Listed, aws
<1>2. object' # "partial"
  BY <1>1 DEF Finalize, Kept
<1>3. session' \in Sessions
  BY <1>1, SessionFact DEF Finalize, UTypeOK, Sessions
<1>4. UTypeOK' /\ step' \in {"answered", "error"} /\ protocol' = "aws"
  BY <1>1, <1>3 DEF Finalize, UTypeOK, Sessions
<1> QED
  BY <1>2, <1>4 DEF UInv, Fresh, Pushing, Listed, Steps, aws, gcs

LEMMA AnsweredInv == ASSUME UInv, Answered PROVE UInv'
  BY CountFact DEF Answered, UInv, UTypeOK, Fresh, Pushing, Listed, Steps, aws, gcs

-----------------------------------------------------------------------------
\* On GCS an upload is where its session is.
LEMMA QueryInv == ASSUME UInv, NEW granted \in BOOLEAN, Query(granted) PROVE UInv'
<1>1. protocol = "gcs" /\ protocol' = "gcs" /\ step' \in {"uploaded", "push", "start", "error"}
  BY DEF Query, Regenerate, gcs
<1>2. next_chunk' \in 0..Count /\ (step' = "push" => next_chunk' < Count)
  BY CountFact DEF Query, Regenerate, UInv, UTypeOK
<1>3. session' \in Sessions
  BY SessionFact DEF Query, Regenerate, UInv, UTypeOK, Sessions
<1>4. UTypeOK' /\ object' # "partial"
  BY <1>1, <1>2, <1>3 DEF Query, UInv, UTypeOK, Sessions
<1> QED
  BY <1>1, <1>2, <1>4 DEF UInv, Fresh, Pushing, Listed, Steps, aws, gcs

LEMMA StoredFact ==
  ASSUME UInv, gcs("push"), Stored
  PROVE  /\ session' \in Sessions
         /\ object' \in {"none", "whole"}
<1>1. next_chunk \in Chunks
  BY CountFact DEF UInv, UTypeOK, Steps
<1> QED
  BY <1>1 DEF Stored, UInv, UTypeOK, Sessions

LEMMA PushNextInv == ASSUME UInv, PushNext PROVE UInv'
<1>1. protocol = "gcs" /\ protocol' = "gcs" /\ next_chunk \in 0..(Count - 1)
      /\ next_chunk' = next_chunk + 1 /\ step' \in {"uploaded", "push"}
      /\ (step' = "push" => next_chunk' # Count)
  BY CountFact DEF PushNext, gcs, UInv, UTypeOK, Steps
<1>2. UTypeOK' /\ object' # "partial"
  BY <1>1, StoredFact, CountFact DEF PushNext, UInv, UTypeOK, Sessions
<1> QED
  BY <1>1, <1>2, CountFact DEF UInv, Fresh, Pushing, Listed, Steps, aws, gcs

LEMMA BreakInv == ASSUME UInv, Break PROVE UInv'
<1>1. protocol = "gcs" /\ protocol' = "gcs" /\ step' = "start"
  BY DEF Break, gcs
<1>2. UTypeOK' /\ object' # "partial"
  BY StoredFact, CountFact DEF Break, Fault, UInv, UTypeOK, Sessions
<1> QED
  BY <1>1, <1>2 DEF UInv, Fresh, Pushing, Listed, Steps, aws, gcs

LEMMA RefusedInv == ASSUME UInv, NEW granted \in BOOLEAN, Refused(granted) PROVE UInv'
<1>1. protocol = "gcs" /\ protocol' = "gcs" /\ step' \in {"uploaded", "error"}
  BY DEF Refused, Regenerate, gcs
<1>2. session' \in Sessions /\ faults' \in Nat
  BY SessionFact DEF Refused, Regenerate, Fault, UInv, UTypeOK, Sessions
<1>3. UTypeOK' /\ object' # "partial"
  BY <1>1, <1>2 DEF Refused, UInv, UTypeOK, Sessions
<1> QED
  BY <1>1, <1>3 DEF UInv, Fresh, Pushing, Listed, Steps, aws, gcs

-----------------------------------------------------------------------------
LEMMA StopInv == ASSUME UInv, Stop, faults' \in Nat PROVE UInv'
<1>1. /\ step' = "off" /\ protocol' = protocol /\ object' = object
      /\ next_chunk' = 0 /\ chunks' = NoChunks /\ chunks' = NoChunks'
      /\ pushing' = [c \in Coroutines |-> Idle]
  BY DEF Stop, Forgotten, NoChunks
<1>2. session' \in Sessions
  BY DEF Stop, UInv, UTypeOK, Sessions
<1>3. UTypeOK' /\ object' # "partial"
  BY <1>1, <1>2, CountFact DEF Stop, Forgotten, NoChunks, UInv, UTypeOK, Sessions
<1> QED
  BY <1>1, <1>3 DEF UInv, Fresh, Pushing, Listed, Steps, aws, gcs

\* What others do to the store, or to the rest of the link.
LEMMA OthersInv ==
  ASSUME UInv, Suffer \/ Expire \/ Erase \/ (step = "off" /\ Open)
  PROVE  UInv'
<1>1. /\ object' \in {object, "none"} /\ faults' \in {faults, faults + 1}
      /\ session' \in {session, Opened, [live |-> FALSE, parts |-> {}]}
      /\ UNCHANGED <<protocol, uid, memory, refused>>
  BY DEF Suffer, Expire, Erase, Open, Fault
<1>2. session \in Sessions /\ faults \in Nat
  BY DEF UInv, UTypeOK, Sessions
<1>3. session' \in Sessions
  BY <1>1, <1>2, SessionFact, Zenon
<1>4. faults' \in Nat
  BY <1>1, <1>2
<1>5. UTypeOK' /\ object' # "partial"
  BY <1>1, <1>3, <1>4 DEF UInv, UTypeOK, memory, Sessions
<1>6. Fresh' /\ Steps'
  BY <1>1 DEF UInv, Fresh, NoChunks, Steps, memory, gcs
<1>7. protocol = "aws" => session' = session \/ ~session'.live
  BY DEF Suffer, Expire, Erase, Open
<1>8. protocol = "aws" /\ Kept => Kept'
  BY <1>1, <1>7 DEF Kept, memory
<1> QED
  BY <1>1, <1>5, <1>6, <1>8
  DEF UInv, Pushing, Listed, Alone, Accounted, Finishing, memory, aws

-----------------------------------------------------------------------------
(***************************************************************************)
(* The theorems.                                                           *)
(***************************************************************************)

LEMMA WorkInv == ASSUME UInv, NEW granted \in BOOLEAN, Work(granted) PROVE UInv'
<1>1. ASSUME NEW c \in Coroutines, Fetch(c) \/ Push(c) \/ Lost(c) PROVE UInv'
  BY <1>1, FetchInv, PushInv, LostInv
<1> QED
  BY <1>1, ResumeInv, InitializeInv, JoinedInv, FinalizeInv, AnsweredInv, QueryInv,
     PushNextInv, BreakInv, RefusedInv
  DEF Work

LEMMA StepInv == UInv /\ [UNext]_uvars => UInv'
<1> SUFFICES ASSUME UInv, [UNext]_uvars PROVE UInv'
  OBVIOUS
<1>1. CASE Begin
  BY <1>1, BeginInv
<1>2. CASE Halt \/ Die
  <2>1. faults' \in Nat
    BY <1>2 DEF Halt, Die, Fault, UInv, UTypeOK
  <2> QED
    BY <1>2, <2>1, StopInv DEF Halt, Die
<1>3. CASE Suffer \/ Expire \/ Erase \/ (step = "off" /\ Open)
  BY <1>3, OthersInv
<1>4. CASE \E granted \in BOOLEAN : Work(granted)
  BY <1>4, WorkInv
<1>5. CASE UNCHANGED uvars
  BY <1>5 DEF uvars, memory, UInv, UTypeOK, Fresh, NoChunks, Pushing, Listed, Steps, Alone,
     Accounted, Kept, Finishing, aws, gcs
<1> QED
  BY <1>1, <1>2, <1>3, <1>4, <1>5 DEF UNext

\* What the store puts together is the file, whoever is interrupted and whatever the store
\* forgets (SendMachine::_plain_upload).
THEOREM UploadWhole == USpec => []WholeObject
<1>1. UInv => WholeObject
  BY DEF UInv, WholeObject
<1> QED
  BY <1>1, UInitInv, StepInv, PTL DEF USpec

-----------------------------------------------------------------------------
(***************************************************************************)
(* The device of a link uploads as PlainUpload says.                       *)
(***************************************************************************)

Requests == [Callers -> [status : {"none", "empty", "created"} \union updates,
                         at : {"no", "sent", "read", "yes", "refused"}, size : {0, 1}]]

\* The upload runs while its machine is in the state that waits for it, which asks meta for
\* nothing.
LInv == /\ req \in Requests
        /\ step # "off" => fsm = "transfer" /\ up = "up"
        /\ fsm = "transfer" => req["machine"].at = "no"

Good == LInv' /\ [UNext]_uvars

LEMMA LInitInv == Init => UInit /\ LInv
<1> SUFFICES ASSUME Init PROVE UInit /\ LInv
  OBVIOUS
<1>1. UInit /\ fsm = "create" /\ step = "off"
  BY DEF Init, UInit
<1>2. req \in Requests
  BY DEF Init, Requests, Sent, NoRequest, Callers, updates
<1> QED
  BY <1>1, <1>2 DEF LInv

\* The machine enters a state.
LEMMA EnterFact ==
  ASSUME req \in Requests, NEW f, Enter(f)
  PROVE  /\ req' \in Requests /\ fsm' = f
         /\ f = "transfer" => req'["machine"].at = "no"
<1> DEFINE r == IF f \in DOMAIN asks /\ (f \in Finalizing => data' # "none")
                THEN Sent(asks[f]) ELSE NoRequest
<1>1. fsm' = f /\ req' = [req EXCEPT !["machine"] = r]
  BY DEF Enter
<1>2. DOMAIN asks = {"create", "init", "finish", "cancel", "fail"}
  BY DEF asks
<1>3. \A g \in DOMAIN asks : asks[g] \in {"empty", "created", "finished", "canceled", "failed"}
  BY <1>2 DEF asks
<1>4. r \in [status : {"none", "empty", "created"} \union updates,
             at : {"no", "sent", "read", "yes", "refused"}, size : {0, 1}]
  BY <1>3 DEF Sent, NoRequest, updates
<1>5. f = "transfer" => r.at = "no"
  BY <1>2 DEF NoRequest
<1> HIDE DEF r
<1> QED
  BY <1>1, <1>4, <1>5 DEF Requests, Callers

\* A request is sent, answered or under way.
LEMMA AtFact ==
  ASSUME req \in Requests, NEW c \in Callers,
         NEW a \in {"no", "sent", "read", "yes", "refused"}, NEW n \in {0, 1},
         \/ req' = [req EXCEPT ![c].at = a]
         \/ req' = [req EXCEPT ![c].at = a, ![c].size = n]
  PROVE  req' \in Requests /\ \A d \in Callers \ {c} : req'[d] = req[d]
  BY DEF Requests

LEMMA SentFact ==
  ASSUME req \in Requests, NEW c \in Callers \ {"machine"},
         NEW s \in {"canceled", "deleted"}, req' = [req EXCEPT ![c] = Sent(s)]
  PROVE  req' \in Requests /\ req'["machine"] = req["machine"]
<1>1. Sent(s) \in [status : {"none", "empty", "created"} \union updates,
                  at : {"no", "sent", "read", "yes", "refused"}, size : {0, 1}]
  BY DEF Sent, NoRequest, updates
<1> QED
  BY <1>1 DEF Requests, Callers

\* A step that leaves the upload alone.
LEMMA Apart ==
  ASSUME LInv, UNCHANGED uvars, req' \in Requests,
         step # "off" => fsm' = "transfer" /\ up' = "up",
         fsm' = "transfer" => req'["machine"].at = "no"
  PROVE  Good
  BY DEF LInv, Good, uvars, memory

LEMMA CreateEmptyGood == ASSUME LInv, CreateEmpty PROVE Good
<1>1. req' \in Requests
  BY AtFact DEF CreateEmpty, Reply, LInv, Callers
<1> QED
  BY <1>1, Apart DEF CreateEmpty, LInv, device

LEMMA InitializedGood == ASSUME LInv, Initialized PROVE Good
<1>1. req' \in Requests
  BY AtFact DEF Initialized, Reply, LInv, Callers
<1>2. fsm # "transfer" /\ fsm' = fsm /\ step = "off"
  BY DEF Initialized, LInv, device
<1>3. UNext /\ step' = step
  BY <1>2 DEF Initialized, Open, memory, UNext
<1> QED
  BY <1>1, <1>2, <1>3 DEF Good, LInv

LEMMA QuotaGood == ASSUME LInv, QuotaExceeded PROVE Good
<1>1. req' \in Requests
  BY AtFact DEF QuotaExceeded, Reply, LInv, Callers
<1>2. fsm # "transfer" /\ fsm' = fsm /\ step = "off"
  BY DEF QuotaExceeded, LInv, device
<1>3. UNext /\ step' = step
  BY <1>2 DEF QuotaExceeded, Suffer, memory, UNext
<1> QED
  BY <1>1, <1>2, <1>3 DEF Good, LInv

LEMMA ReadGood == ASSUME LInv, NEW c \in Callers, Read(c) PROVE Good
<1>1. req[c].at = "sent" /\ UNCHANGED <<fsm, up, step>>
  BY DEF Read, device, memory
<1>2. PICK a \in {"yes", "refused", "read"}, n \in {0, 1} :
        \/ req' = [req EXCEPT ![c].at = a]
        \/ req' = [req EXCEPT ![c].at = a, ![c].size = n]
  BY DEF Read, Reply
<1>3. req' \in Requests /\ \A d \in Callers \ {c} : req'[d] = req[d]
  BY <1>2, AtFact DEF LInv
<1>4. fsm' = "transfer" => req'["machine"].at = "no"
  BY <1>1, <1>3 DEF LInv, Callers
<1>5. object' = "none" \/ object' = object
  BY DEF Read
<1>6. [UNext]_uvars
  BY <1>5 DEF Read, UNext, Erase, uvars
<1> QED
  BY <1>1, <1>3, <1>4, <1>6 DEF Good, LInv

LEMMA WriteGood == ASSUME LInv, NEW c \in Callers, Write(c) PROVE Good
<1>1. req[c].at = "read" /\ UNCHANGED <<fsm, up, uvars>> /\ req' = [req EXCEPT ![c].at = "yes"]
  BY DEF Write, Reply, device
<1>2. req' \in Requests /\ \A d \in Callers \ {c} : req'[d] = req[d]
  BY <1>1, AtFact DEF LInv
<1>3. fsm' = "transfer" => req'["machine"].at = "no"
  BY <1>1, <1>2 DEF LInv, Callers
<1> QED
  BY <1>1, <1>2, <1>3, Apart DEF LInv

LEMMA ProceedGood == ASSUME LInv, Proceed PROVE Good
<1>1. step = "off" /\ UNCHANGED uvars
  BY DEF Proceed, LInv
<1>2. req \in Requests
  BY DEF LInv
<1>3. \E f \in {"end", "init", "transfer"} : Enter(f)
  BY DEF Proceed
<1> QED
  BY <1>1, <1>2, <1>3, EnterFact, Apart

LEMMA SkipGood == ASSUME LInv, Skip PROVE Good
<1>1. step = "off" /\ UNCHANGED uvars /\ Enter("end") /\ req \in Requests
  BY DEF Skip, LInv, Finalizing
<1> QED
  BY <1>1, EnterFact, Apart

LEMMA TransferGood == ASSUME LInv, Transfer PROVE Good
<1>1. Up /\ fsm = "transfer" /\ step = "off" /\ req \in Requests /\ up' = up
  BY DEF Transfer, LInv, Elsewhere
<1>2. CASE Begin /\ UNCHANGED <<req, fsm>>
  BY <1>1, <1>2 DEF Good, LInv, UNext, Up
<1>3. CASE Enter("fail") /\ UNCHANGED uvars
  BY <1>1, <1>3, EnterFact, Apart
<1> QED
  BY <1>2, <1>3 DEF Transfer

LEMMA UploadGood == ASSUME LInv, Upload PROVE Good
<1>1. UNext
  BY DEF Upload, UNext
<1> QED
  BY <1>1 DEF Upload, Good, LInv, Up, lvars, device

LEMMA TransferredGood == ASSUME LInv, Transferred PROVE Good
<1>1. step' = "off" /\ UNext
  BY DEF Transferred, Halt, Stop, UNext
<1>2. \E f \in {"finish", "fail"} : Enter(f)
  BY DEF Transferred
<1> QED
  BY <1>1, <1>2, EnterFact DEF Good, LInv

LEMMA TriggerGood == ASSUME LInv, Trigger PROVE Good
<1>1. PICK b \in barriers : Enter(triggers[b])
  BY DEF Trigger
<1>2. step' = "off" /\ [UNext]_uvars
  BY DEF Trigger, Halt, Stop, UNext, uvars, memory
<1> QED
  BY <1>1, <1>2, EnterFact DEF Good, LInv

LEMMA EndGood == ASSUME LInv, End PROVE Good
  BY Apart DEF End, LInv

LEMMA CancelGood == ASSUME LInv, Cancel PROVE Good
  BY DEF Cancel, Suffer, memory, UNext, Good, LInv, Elsewhere

LEMMA DeleteGood == ASSUME LInv, Delete PROVE Good
<1>1. req' \in Requests /\ req'["machine"] = req["machine"]
  BY SentFact DEF Delete, LInv, Callers
<1> QED
  BY <1>1, Apart DEF Delete, LInv, Elsewhere

LEMMA AskGood == ASSUME LInv, Ask PROVE Good
<1>1. PICK c \in Asks \ {"user"}, s \in {"canceled", "deleted"} :
        req' = [req EXCEPT ![c] = Sent(s)]
  BY DEF Ask
<1>2. req' \in Requests /\ req'["machine"] = req["machine"]
  BY <1>1, SentFact, LinkAssumption DEF LInv, Callers
<1> QED
  BY <1>2, Apart DEF Ask, LInv, Elsewhere, device

LEMMA DeliverGood == ASSUME LInv, Deliver PROVE Good
  BY Apart DEF Deliver, LInv

LEMMA CrashGood == ASSUME LInv, Crash PROVE Good
<1>1. req' = [c \in Callers |->
                IF c \in {"machine", "user"} /\ req[c].at # "read"
                  THEN [req[c] EXCEPT !.at = IF c = "user" /\ @ # "no" THEN "refused" ELSE "no"]
                  ELSE req[c]]
  BY DEF Crash
<1>2. req' \in Requests
  BY <1>1 DEF LInv, Requests
<1>3. fsm = "transfer" => req'["machine"].at = "no"
  BY <1>1 DEF LInv, Requests, Callers
<1>4. step' = "off" /\ UNext
  BY DEF Crash, Suffer, Die, Stop, UNext, memory
<1> QED
  BY <1>2, <1>3, <1>4 DEF Good, LInv, Crash

LEMMA RestartGood == ASSUME LInv, Restart PROVE Good
<1>1. step = "off" /\ UNCHANGED uvars /\ req \in Requests
  BY DEF Restart, LInv
<1>2. (UNCHANGED <<req, fsm>>) \/ \E f : Enter(f)
  BY DEF Restart
<1> QED
  BY <1>1, <1>2, EnterFact, Apart DEF LInv

LEMMA ForgetGood == ASSUME LInv, Forget PROVE Good
  BY DEF Forget, Expire, UNext, Good, LInv, lvars, device, memory

LEMMA LinkStep == LInv /\ [Next]_vars => Good
<1>1. ASSUME LInv, UNCHANGED vars PROVE Good
  BY <1>1, Apart DEF vars, lvars, device, LInv
<1>2. ASSUME LInv, Next PROVE Good
  BY <1>2, CreateEmptyGood, InitializedGood, ReadGood, WriteGood, ProceedGood, SkipGood,
     TransferGood, UploadGood, TransferredGood, TriggerGood, EndGood, QuotaGood, CancelGood,
     DeleteGood, AskGood, DeliverGood, CrashGood, RestartGood, ForgetGood
  DEF Next, Serve, Advance
<1> QED
  BY <1>1, <1>2

\* The device, with its user, the other device, meta and the job around it, uploads as
\* PlainUpload says: cancellations, deletions and restarts are no more than interruptions.
THEOREM LinkUploads == Spec => USpec
<1>1. LInv /\ [Next]_vars => LInv' /\ [UNext]_uvars
  BY LinkStep DEF Good
<1> QED
  BY LInitInv, <1>1, PTL DEF Spec, USpec

\* So what the store puts together for a link is the file (LinkSendMachine::_transfer).
THEOREM LinkWhole == Spec => []WholeObject
  BY LinkUploads, UploadWhole, PTL

-----------------------------------------------------------------------------
(***************************************************************************)
(* The inductive invariant.                                                *)
(***************************************************************************)

States == {"none", "empty", "created"} \union updates
Places == {"no", "sent", "read", "yes", "refused"}
Documents == [status : States, size : {0, 1}]

Typed == req \in Requests /\ doc \in Documents /\ total \in Int /\ crossed \in BOOLEAN

\* Only the machine finishes a link, and not before it is made.
FinishedLate ==
  /\ \A c \in Callers \ {"machine"} : req[c].status # "finished"
  /\ fsm \in {"create", "init"} => /\ req["machine"].status \notin updates
                                   /\ req["machine"].at # "read"
                                   /\ doc.status # "finished"
  /\ req["machine"].at = "sent" /\ req["machine"].status \in {"empty", "created"}
       => fsm \in {"create", "init"}

Reading(c) == req[c].at = "read"

\* The space that is used by a link of this status and size.
Used(status, size) == IF status = "finished" THEN size ELSE 0

\* The total is that of the link, or what the only update under way will make of it.
Counting ==
  ~crossed =>
    /\ ~Writing => total = Used(doc.status, doc.size)
    /\ \A c \in Callers :
         Reading(c) /\ (\A d \in Callers \ {c} : ~Reading(d))
           => total = Used(req[c].status, req[c].size)

SInv == Typed /\ FinishedLate /\ Counting

Same == UNCHANGED <<doc, total, crossed>>

LEMMA SInitInv == Init => SInv
<1> SUFFICES ASSUME Init PROVE SInv
  OBVIOUS
<1>1. req \in Requests
  BY LInitInv DEF LInv
<1>2. \A c \in Callers : req[c].at # "read" /\ req[c].status \in {"none", "empty"}
  BY DEF Init, Callers, Sent, NoRequest
<1>3. Typed
  <2>1. doc = [status |-> "none", size |-> 0] /\ total = 0 /\ crossed = FALSE
    BY DEF Init
  <2>2. doc \in Documents
    BY <2>1 DEF Documents, States
  <2>3. total \in Int
    BY <2>1
  <2> QED
    BY <1>1, <2>1, <2>2, <2>3, Zenon DEF Typed
<1>4. FinishedLate
  BY <1>2 DEF Init, FinishedLate, Callers, updates
<1>5. Counting
  BY <1>2 DEF Init, Counting, Writing, Used, Reading
<1> QED
  BY <1>3, <1>4, <1>5 DEF SInv

-----------------------------------------------------------------------------
(***************************************************************************)
(* The steps of the device.                                                *)
(***************************************************************************)

\* No update begins or ends.
LEMMA QuietStep ==
  ASSUME SInv, Same, FinishedLate', req' \in Requests,
         \A c \in Callers : /\ Reading(c)' <=> Reading(c)
                            /\ Reading(c) => /\ req'[c].status = req[c].status
                                             /\ req'[c].size = req[c].size
  PROVE  SInv'
<1>1. Typed'
  BY DEF SInv, Same, Typed
<1>2. Writing' <=> Writing
  BY DEF Writing, Reading
<1>3. Counting'
  BY <1>2 DEF SInv, Same, Counting, Used
<1> QED
  BY <1>1, <1>3 DEF SInv

\* What the machine asks for when it enters a state.
LEMMA EnterAsks ==
  ASSUME req \in Requests, NEW f, Enter(f)
  PROVE  /\ req' \in Requests /\ fsm' = f
         /\ \A c \in Callers \ {"machine"} : req'[c] = req[c]
         /\ req'["machine"].at \in {"no", "sent"}
         /\ f \in {"create", "init"} => req'["machine"].status \notin updates
         /\ req'["machine"].status \in {"empty", "created"} => f \in {"create", "init"}
<1> DEFINE r == IF f \in DOMAIN asks /\ (f \in Finalizing => data' # "none")
                THEN Sent(asks[f]) ELSE NoRequest
<1>1. req' \in Requests /\ fsm' = f /\ req' = [req EXCEPT !["machine"] = r]
  BY EnterFact DEF Enter
<1>2. DOMAIN asks = {"create", "init", "finish", "cancel", "fail"}
  BY DEF asks
<1>3. \A g \in DOMAIN asks : /\ g \in {"create", "init"} => asks[g] \in {"empty", "created"}
                             /\ asks[g] \in {"empty", "created"} => g \in {"create", "init"}
  BY <1>2 DEF asks
<1>4. /\ r.at \in {"no", "sent"}
      /\ f \in {"create", "init"} => r.status \notin updates
      /\ r.status \in {"empty", "created"} => f \in {"create", "init"}
  BY <1>3 DEF Sent, NoRequest, updates
<1> HIDE DEF r
<1> QED
  BY <1>1, <1>4 DEF Requests, Callers

\* A machine that is not waiting for a write enters a state, and comes to create or
\* initialize only from there.
LEMMA EnterStep ==
  ASSUME SInv, Same, NEW f, Enter(f), ~Reading("machine"),
         f \in {"create", "init"} => fsm \in {"create", "init"}
  PROVE  SInv'
<1>1. req \in Requests
  BY DEF SInv, Typed
<1>2. FinishedLate'
  BY <1>1, EnterAsks DEF SInv, FinishedLate, Same, Callers
<1> QED
  BY <1>1, <1>2, EnterAsks, QuietStep DEF Reading, Callers

\* The machine stays where it is, or leaves another state than those, and asks nothing.
LEMMA StayStep ==
  ASSUME SInv, Same, UNCHANGED req,
         fsm' = fsm \/ ~({fsm, fsm'} \subseteq {"create", "init"}),
         fsm' \in {"create", "init"} => fsm' = fsm,
         fsm \in {"create", "init"} => fsm' = fsm
  PROVE  SInv'
<1>1. FinishedLate'
  BY DEF SInv, FinishedLate, Same
<1> QED
  BY <1>1, QuietStep DEF Reading, SInv, Typed

LEMMA ProceedCounts == ASSUME SInv, Proceed PROVE SInv'
<1>1. Same /\ ~Reading("machine")
  BY DEF Proceed, Same, Elsewhere, meta, history, Reading
<1>2. \E f \in {"end", "init", "transfer"} : Enter(f) /\ (f = "init" => fsm = "create")
  BY DEF Proceed
<1> QED
  BY <1>1, <1>2, EnterStep

LEMMA MachineCounts ==
  ASSUME SInv, LInv, Skip \/ Transfer \/ Transferred \/ Trigger \/ Restart
  PROVE  SInv'
<1>1. Same
  BY DEF Skip, Transfer, Transferred, Trigger, Restart, Same, Elsewhere, meta, history
<1>2. CASE Skip
  BY <1>1, <1>2, EnterStep DEF Skip, Reading
<1>3. CASE Transfer
  BY <1>1, <1>3, EnterStep, StayStep DEF Transfer, Reading, LInv
<1>4. CASE Transferred
  BY <1>1, <1>4, EnterStep DEF Transferred, Reading, LInv
<1>5. CASE Trigger
  <2>1. ~Reading("machine") /\ fsm \in {"create", "init", "transfer"}
    BY <1>5 DEF Trigger, Reading, SInv, FinishedLate, LInv
  <2>2. \E f \in {"end", "cancel", "fail"} : Enter(f)
    BY <1>5 DEF Trigger, triggers
  <2> QED
    BY <1>1, <2>1, <2>2, EnterStep
<1>6. CASE Restart
  <2>1. ~Reading("machine")
    BY <1>6 DEF Restart, Reading
  <2>2. restored \in {"create", "init"} => fsm \in {"create", "init"}
    BY DEF restored
  <2>3. (UNCHANGED <<req, fsm>>) \/ \E f : Enter(f) /\ (f \in {"create", "init"} => fsm \in {"create", "init"})
    BY <1>6, <2>2 DEF Restart
  <2>4. CASE UNCHANGED <<req, fsm>>
    BY <1>1, <2>4, StayStep
  <2> QED
    BY <1>1, <2>1, <2>3, <2>4, EnterStep
<1> QED
  BY <1>2, <1>3, <1>4, <1>5, <1>6

LEMMA OthersCount ==
  ASSUME SInv, End \/ Upload \/ Forget \/ Cancel \/ Deliver
  PROVE  SInv'
  BY StayStep DEF End, Upload, Forget, Cancel, Deliver, Same, Elsewhere, lvars, meta,
     device, history

LEMMA AskCounts == ASSUME SInv, Delete \/ Ask PROVE SInv'
<1>1. PICK c \in Callers \ {"machine"}, s \in {"canceled", "deleted"} :
        req' = [req EXCEPT ![c] = Sent(s)] /\ ~Reading(c)
  BY LinkAssumption DEF Delete, Ask, Reading, Callers
<1>2. UNCHANGED fsm /\ Same /\ req \in Requests
  BY DEF Delete, Ask, Elsewhere, device, meta, history, Same, SInv, Typed
<1>3. Sent(s).at = "sent" /\ Sent(s).status = s
  BY DEF Sent, NoRequest
<1>4. /\ req' \in Requests /\ req'[c].at = "sent" /\ req'[c].status = s
      /\ \A d \in Callers \ {c} : req'[d] = req[d]
  BY <1>1, <1>2, <1>3, SentFact DEF Requests
<1>5. FinishedLate'
  BY <1>2, <1>4 DEF SInv, FinishedLate, Same, Callers
<1> QED
  BY <1>1, <1>2, <1>4, <1>5, QuietStep DEF Reading

LEMMA CrashCounts == ASSUME SInv, Crash PROVE SInv'
<1>1. req' = [c \in Callers |->
                IF c \in {"machine", "user"} /\ req[c].at # "read"
                  THEN [req[c] EXCEPT !.at = IF c = "user" /\ @ # "no" THEN "refused" ELSE "no"]
                  ELSE req[c]]
      /\ Same /\ UNCHANGED fsm /\ req \in Requests
  BY DEF Crash, meta, history, Same, SInv, Typed
<1>2. req' \in Requests /\ \A c \in Callers :
         /\ Reading(c)' <=> Reading(c)
         /\ req'[c].status = req[c].status /\ req'[c].size = req[c].size
         /\ req'[c].at # "no" => req'[c].at = req[c].at \/ c = "user"
  BY <1>1 DEF Requests, Reading
<1>3. FinishedLate'
  BY <1>1, <1>2 DEF SInv, FinishedLate, Same, Callers, Reading
<1> QED
  BY <1>1, <1>2, <1>3, QuietStep

-----------------------------------------------------------------------------
(***************************************************************************)
(* The steps of meta.                                                      *)
(***************************************************************************)

\* The link is created, or initialized, before it can be finished.
LEMMA MakeCounts == ASSUME SInv, CreateEmpty \/ Initialized \/ QuotaExceeded PROVE SInv'
<1>1. /\ req["machine"].at = "sent" /\ req["machine"].status \in {"empty", "created"}
      /\ req \in Requests /\ doc \in Documents
      /\ UNCHANGED <<fsm, total, crossed>>
      /\ \E a \in {"yes", "refused"} : req' = [req EXCEPT !["machine"].at = a]
  BY DEF CreateEmpty, Initialized, QuotaExceeded, Reply, device, history, meta, SInv, Typed
<1>2. /\ req' \in Requests /\ req'["machine"].at \in {"yes", "refused"}
      /\ req'["machine"].status = req["machine"].status
      /\ \A c \in Callers \ {"machine"} : req'[c] = req[c]
  BY <1>1 DEF Requests, Callers
<1>3. fsm \in {"create", "init"} /\ doc.status # "finished"
  BY <1>1 DEF SInv, FinishedLate
<1>4. doc' \in Documents /\ doc'.status # "finished"
  BY <1>1, <1>3 DEF CreateEmpty, Initialized, QuotaExceeded, meta, Documents, States
<1>5. \A c \in Callers : Reading(c)' <=> Reading(c)
  BY <1>1, <1>2 DEF Reading
<1>6. Typed' /\ FinishedLate'
  BY <1>1, <1>2, <1>3, <1>4 DEF SInv, Typed, FinishedLate
<1>7. Counting'
  BY <1>1, <1>2, <1>3, <1>4, <1>5 DEF SInv, Counting, Used, Writing, Reading
<1> QED
  BY <1>6, <1>7 DEF SInv

\* What is read decides what is counted; nothing else may be under way for it to matter.
LEMMA ReadCounts == ASSUME SInv, NEW c \in Callers, Read(c) PROVE SInv'
<1>1. /\ req[c].at = "sent" /\ req[c].status \in updates
      /\ req \in Requests /\ doc \in Documents /\ total \in Int
      /\ UNCHANGED <<fsm, doc, crossed>>
  BY DEF Read, device, SInv, Typed
<1>2. CASE /\ total' = total
           /\ \E a \in {"yes", "refused"} : req' = [req EXCEPT ![c].at = a]
  <2>1. /\ req' \in Requests
        /\ \A d \in Callers : /\ Reading(d)' <=> Reading(d)
                              /\ req'[d].status = req[d].status
                              /\ req'[d].size = req[d].size
                              /\ req'[d].at = "sent" => req[d].at = "sent"
                              /\ req'[d].at = "read" => req[d].at = "read"
    BY <1>1, <1>2 DEF Requests, Reading
  <2>2. FinishedLate'
    BY <1>1, <2>1 DEF SInv, FinishedLate, Callers
  <2> QED
    BY <1>1, <1>2, <2>1, <2>2, QuietStep DEF Same
<1>3. CASE \E n \in {0, 1} :
             /\ \/ req' = [req EXCEPT ![c].at = "read", ![c].size = n]
                \/ req[c].status # "finished" /\ req' = [req EXCEPT ![c].at = "read"]
             /\ Counted(req[c].status, n)
             /\ req[c].status # doc.status
  <2>1. PICK n \in {0, 1} :
             /\ \/ req' = [req EXCEPT ![c].at = "read", ![c].size = n]
                \/ req[c].status # "finished" /\ req' = [req EXCEPT ![c].at = "read"]
             /\ Counted(req[c].status, n)
             /\ req[c].status # doc.status
    BY <1>3
  <2>2. /\ req' \in Requests /\ Reading(c)' /\ req'[c].status = req[c].status
        /\ \A d \in Callers \ {c} : req'[d] = req[d]
        /\ Used(req'[c].status, req'[c].size) = Used(req[c].status, n)
    BY <1>1, <2>1 DEF Requests, Reading, Used
  <2>3. total' \in Int
    BY <1>1, <2>1 DEF Counted, Documents
  <2>4. FinishedLate'
    BY <1>1, <2>2 DEF SInv, FinishedLate, Callers, Reading
  <2>5. ASSUME ~Writing, ~crossed PROVE total' = Used(req'[c].status, req'[c].size)
    <3>1. total = Used(doc.status, doc.size)
      BY <2>5 DEF SInv, Counting
    <3>2. CASE req[c].status = "finished"
      BY <1>1, <2>1, <2>2, <3>1, <3>2 DEF Used, Counted
    <3>3. CASE req[c].status # "finished"
      BY <1>1, <2>1, <2>2, <3>1, <3>3 DEF Used, Counted, Documents
    <3> QED
      BY <3>2, <3>3
  <2>6. Counting'
    BY <1>1, <2>2, <2>5 DEF Counting, Writing, Reading
  <2> QED
    BY <1>1, <2>2, <2>3, <2>4, <2>6 DEF SInv, Typed
<1> QED
  BY <1>1, <1>2, <1>3 DEF Read, Reply

\* What is written is what was counted, or the update has crossed another.
LEMMA WriteCounts == ASSUME SInv, NEW c \in Callers, Write(c) PROVE SInv'
<1>1. /\ Reading(c) /\ req' = [req EXCEPT ![c].at = "yes"]
      /\ req \in Requests /\ doc \in Documents /\ total \in Int
      /\ UNCHANGED <<fsm, total>>
      /\ doc' = [status |-> req[c].status,
                 size |-> IF req[c].status = "finished" THEN req[c].size ELSE doc.size]
      /\ crossed' = (crossed \/ \E d \in Callers \ {c} : req[d].at = "read")
  BY DEF Write, Reply, device, SInv, Typed, Reading
<1>2. /\ req' \in Requests /\ ~Reading(c)' /\ req'[c].status = req[c].status
      /\ req'[c].at = "yes" /\ \A d \in Callers \ {c} : req'[d] = req[d]
  BY <1>1 DEF Requests, Reading
<1>3. Typed'
  BY <1>1, <1>2 DEF SInv, Typed, Documents, Requests, States
<1>4. fsm \in {"create", "init"} => req[c].status # "finished"
  BY <1>1 DEF SInv, FinishedLate, Reading, updates
<1>5. FinishedLate'
  BY <1>1, <1>2, <1>4 DEF SInv, FinishedLate, Callers
<1>6. Counting'
  <2> SUFFICES ASSUME ~crossed' PROVE Counting'
    BY DEF Counting
  <2>1. ~crossed /\ \A d \in Callers \ {c} : ~Reading(d)
    BY <1>1 DEF Reading, SInv, Typed
  <2>2. total' = Used(doc'.status, doc'.size)
    BY <1>1, <2>1 DEF SInv, Counting, Used
  <2>3. \A d \in Callers : ~Reading(d)'
    BY <1>2, <2>1 DEF Reading
  <2> QED
    BY <2>2, <2>3 DEF Counting
<1> QED
  BY <1>3, <1>5, <1>6 DEF SInv

-----------------------------------------------------------------------------
LEMMA CountStep == SInv /\ LInv /\ [Next]_vars => SInv'
<1>1. ASSUME SInv, UNCHANGED vars PROVE SInv'
  BY <1>1, StayStep DEF vars, lvars, meta, device, history, Same
<1>2. ASSUME SInv, LInv, Next PROVE SInv'
  BY <1>2, ProceedCounts, MachineCounts, OthersCount, AskCounts, CrashCounts, MakeCounts,
     ReadCounts, WriteCounts
  DEF Next, Serve, Advance
<1> QED
  BY <1>1, <1>2

\* The space an owner uses is what his link takes while it is finished, however it is
\* finished, canceled and deleted, unless two updates overlap (link_update).
THEOREM LinkCounted == Spec => []SizeHonest
<1>1. LInv /\ [Next]_vars => LInv'
  BY LinkStep DEF Good
<1>2. SInv => SizeHonest
  BY DEF SInv, Counting, SizeHonest, Used
<1> QED
  BY LInitInv, SInitInv, <1>1, <1>2, CountStep, PTL DEF Spec
-----------------------------------------------------------------------------
(***************************************************************************)
(* The file behind a link that is finished.                                *)
(***************************************************************************)

\* What leads to a link that is finished: the request, an upload that ends, and what the
\* device was told.
Asking == fsm = "finish" \/ (req["machine"].status = "finished" /\ req["machine"].at # "no")
Complete == \/ step \in {"answered", "uploaded"}
            \/ protocol = "gcs" /\ Count - 1 \in session.parts
Informed == "finished" \in {data, saved} \/ \E i \in 1..Len(inbox) : inbox[i] = "finished"
Concluding == Asking \/ Complete \/ Informed \/ doc.status = "finished"

\* The link is canceled or has failed, or will be.
Undone == \/ doc.status \in final \ {"finished"}
          \/ \E c \in Callers : Reading(c) /\ req[c].status # "finished"

\* Nothing of that before the link is there.
Beginning == fsm \in {"create", "init"} => ~Concluding /\ session.parts = {}

\* An update under way is one of a link that is not over, or a deletion.
Overlap == ~crossed => \A c \in Callers :
             Reading(c) /\ req[c].status # "deleted" => doc.status \notin final
Deletions == \A c \in Callers : Reading(c) /\ req[c].status = "deleted" => deleted

\* Then the file is there, unless the link is undone.
Behind == ~(deleted \/ crossed \/ refused) /\ Concluding => object = "whole" \/ Undone

\* The fields of the device.
Fields == /\ up \in {"up", "off", "aborted"}
          /\ fsm \in {"create", "init", "transfer", "finish", "cancel", "fail", "end", "over"}
          /\ {data, saved} \subseteq {"none", "created"} \union updates
          /\ barriers \subseteq DOMAIN triggers
          /\ {creds, deleted, crossed} \subseteq BOOLEAN
          /\ gap \in {"running", "payment_required"} \union updates
          /\ inbox \in Seq({"created"} \union updates)
          /\ \A c \in Callers : Reading(c) => req[c].status \in updates

FInv == Fields /\ Beginning /\ Overlap /\ Deletions /\ Behind

All == FInv /\ SInv /\ LInv /\ UInv

LEMMA FInitInv == Init => FInv
<1> SUFFICES ASSUME Init PROVE FInv
  OBVIOUS
<1>1. \A c \in Callers : req[c].at # "read" /\ req[c].status \in {"none", "empty"}
  BY DEF Init, Callers, Sent, NoRequest
<1>2. Fields
  <2>1. inbox \in Seq({"created"} \union updates) /\ barriers \subseteq DOMAIN triggers
    BY DEF Init
  <2> QED
    BY <1>1, <2>1 DEF Init, Fields, Reading
<1>3. ~Concluding /\ session.parts = {}
  BY <1>1 DEF Init, UInit, Concluding, Asking, Complete, Informed, Callers
<1> QED
  BY <1>1, <1>2, <1>3 DEF FInv, Beginning, Overlap, Deletions, Behind, Reading

-----------------------------------------------------------------------------
(***************************************************************************)
(* The fields.                                                             *)
(***************************************************************************)

LEMMA Names == /\ updates = {"finished", "canceled", "failed", "deleted"}
               /\ final = {"rejected", "failed", "finished", "canceled"}
               /\ Finalizing = {"finish", "cancel", "fail"}
               /\ DOMAIN triggers = {"finished", "canceled", "failed"}
               /\ DOMAIN asks = {"create", "init", "finish", "cancel", "fail"}
               /\ \A f \in DOMAIN asks : asks[f] \in {"empty", "created"} \union updates
               /\ \A f \in DOMAIN asks : asks[f] = "finished" <=> f = "finish"
               /\ \A f \in Finalizing : asks[f] \in updates
  BY DEF updates, final, Finalizing, triggers, asks

LEMMA HearFields ==
  ASSUME Fields, NEW s \in {"created"} \union updates, Hear(s)
  PROVE  /\ {data', saved'} \subseteq {"none", "created"} \union updates
         /\ barriers' \subseteq DOMAIN triggers
         /\ gap' \in {"running", "payment_required"} \union updates
  BY Names DEF Fields, Hear


LEMMA MetaFields ==
  ASSUME Fields, SInv, CreateEmpty \/ Initialized \/ QuotaExceeded \/ \E c \in Callers : Read(c) \/ Write(c)
  PROVE  Fields'
<1>0. req \in Requests
  BY DEF SInv, Typed
<1>1. UNCHANGED <<up, device>>
  BY DEF CreateEmpty, Initialized, QuotaExceeded, Read, Write
<1>2. {deleted', crossed'} \subseteq BOOLEAN
  BY DEF CreateEmpty, Initialized, QuotaExceeded, Read, Write, Fields, history
<1>3. inbox' = inbox \/ \E s \in {"created"} \union updates : inbox' = Append(inbox, s)
  <2>1. ASSUME NEW c \in Callers, Write(c) PROVE req[c].status \in {"created"} \union updates
    BY <2>1 DEF Write, Fields, Reading
  <2> QED
    BY <2>1 DEF CreateEmpty, Initialized, QuotaExceeded, Read, Write, Notify
<1>4. \A c \in Callers : Reading(c)' => req'[c].status \in updates
  <2>1. ASSUME NEW c \in Callers, Read(c) PROVE \A d \in Callers : Reading(d)' => req'[d].status \in updates
    BY <1>0, <2>1 DEF Read, Reply, Reading, Requests, Fields
  <2>2. ASSUME NEW c \in Callers, Write(c) PROVE \A d \in Callers : Reading(d)' => req'[d].status \in updates
    BY <1>0, <2>2 DEF Write, Reply, Reading, Requests, Fields
  <2>3. ASSUME CreateEmpty \/ Initialized \/ QuotaExceeded
        PROVE \A d \in Callers : Reading(d)' => req'[d].status \in updates
    BY <1>0, <2>3 DEF CreateEmpty, Initialized, QuotaExceeded, Reply, Reading, Requests, Fields, Callers
  <2> QED
    BY <2>1, <2>2, <2>3
<1>5. inbox' \in Seq({"created"} \union updates)
  BY <1>3 DEF Fields
<1> QED
  BY <1>1, <1>2, <1>4, <1>5 DEF Fields, device

\* The machine enters a state; nothing that is read changes.
LEMMA DeviceFields ==
  ASSUME Fields, SInv, LInv,
         Proceed \/ Skip \/ Transfer \/ Transferred \/ Trigger \/ Restart
  PROVE  Fields'
<1>0. req \in Requests
  BY DEF SInv, Typed
<1>1. \/ UNCHANGED <<req, fsm>>
      \/ \E f \in {"create", "init", "transfer", "finish", "cancel", "fail", "end"} : Enter(f)
  BY Names DEF Proceed, Skip, Transfer, Transferred, Trigger, triggers, Restart, restored, Fields
<1>2. \A c \in Callers : Reading(c)' => req'[c].status \in updates
  BY <1>0, <1>1, EnterAsks DEF Fields, Reading
<1>3. fsm' \in {"create", "init", "transfer", "finish", "cancel", "fail", "end", "over"}
  BY <1>0, <1>1, EnterAsks DEF Fields
<1>4. /\ {data', saved'} \subseteq {"none", "created"} \union updates
      /\ barriers' \subseteq DOMAIN triggers
      /\ gap' \in {"running", "payment_required"} \union updates
      /\ up' \in {"up", "off", "aborted"} /\ creds' \in BOOLEAN
  <2>1. CASE Restart
    BY <2>1, Names, HearFields DEF Restart, Fields
  <2>2. CASE Proceed
    BY ZenonT(30), <2>2, Names DEF Proceed, Fields, Elsewhere
  <2>3. CASE Skip \/ Transfer \/ Transferred \/ Trigger
    BY <2>3 DEF Skip, Transfer, Transferred, Trigger, Fields, Elsewhere
  <2> QED
    BY <2>1, <2>2, <2>3
<1>5. UNCHANGED <<inbox, history>>
  BY DEF Proceed, Skip, Transfer, Transferred, Trigger, Restart, Elsewhere
<1> QED
  BY <1>2, <1>3, <1>4, <1>5 DEF Fields, history

LEMMA OtherFields ==
  ASSUME Fields, SInv, End \/ Upload \/ Forget \/ Cancel \/ Deliver \/ Delete \/ Ask \/ Crash
  PROVE  Fields'
<1>0. req \in Requests
  BY DEF SInv, Typed
<1>1. CASE End \/ Upload \/ Forget \/ Cancel
  BY <1>1, Names DEF End, Upload, Forget, Cancel, Fields, Elsewhere, lvars, meta, device, history, Reading
<1>2. CASE Deliver
  <2>1. Head(inbox) \in {"created"} \union updates /\ inbox' \in Seq({"created"} \union updates)
    BY <1>2 DEF Deliver, Fields
  <2> QED
    BY <1>2, <2>1, HearFields DEF Deliver, Fields, history, Reading
<1>3. CASE Delete \/ Ask
  <2>1. PICK c \in Callers, s \in {"canceled", "deleted"} : req' = [req EXCEPT ![c] = Sent(s)]
    BY <1>3, LinkAssumption DEF Delete, Ask, Callers
  <2>2. \A d \in Callers : Reading(d)' => Reading(d) /\ req'[d] = req[d]
    BY <1>0, <2>1 DEF Reading, Sent, NoRequest, Requests
  <2> QED
    BY <1>3, <2>2, Names DEF Delete, Ask, Fields, Elsewhere, device, history
<1>4. CASE Crash
  <2>1. \A d \in Callers : Reading(d)' => Reading(d) /\ req'[d].status = req[d].status
    BY <1>0, <1>4 DEF Crash, Reading, Requests
  <2>2. inbox' \in Seq({"created"} \union updates) /\ barriers' \subseteq DOMAIN triggers
    BY <1>4 DEF Crash
  <2>3. up' = "off" /\ data' = saved /\ creds' = FALSE /\ UNCHANGED <<fsm, saved, gap, history>>
    BY <1>4 DEF Crash
  <2> QED
    BY <2>1, <2>2, <2>3 DEF Fields, history
<1> QED
  BY <1>1, <1>2, <1>3, <1>4

LEMMA FieldsStep == ASSUME Fields, SInv, LInv, [Next]_vars PROVE Fields'
<1>1. CASE UNCHANGED vars
  BY <1>1 DEF vars, lvars, device, history, Fields, Reading
<1> QED
  BY <1>1, MetaFields, DeviceFields, OtherFields DEF Next, Serve, Advance

-----------------------------------------------------------------------------
(***************************************************************************)
(* The steps that read nothing and write nothing.                          *)
(***************************************************************************)

\* The updates under way are the same, no more leads to the end than before, and the file
\* does not go.
LEMMA CalmStep ==
  ASSUME FInv, Fields', UNCHANGED <<doc, deleted, crossed>>,
         object' \in {object, "whole"}, refused => refused',
         \A c \in Callers : /\ Reading(c)' <=> Reading(c)
                            /\ Reading(c) => req'[c].status = req[c].status,
         fsm' \in {"create", "init"} =>
           fsm \in {"create", "init"} /\ session'.parts = {} /\ (Concluding' => Concluding),
         Concluding' => Concluding \/ object' = "whole" \/ refused'
  PROVE  FInv'
<1>1. Undone' <=> Undone
  BY DEF Undone
<1>2. Beginning' /\ Overlap' /\ Deletions'
  BY DEF FInv, Beginning, Overlap, Deletions
<1>3. Behind'
  BY <1>1 DEF FInv, Behind
<1> QED
  BY <1>2, <1>3 DEF FInv

\* The machine finishes when it enters that state.
LEMMA EnterConcludes ==
  ASSUME req \in Requests, NEW f, Enter(f), ~Reading("machine")
  PROVE  /\ \A c \in Callers : /\ Reading(c)' <=> Reading(c)
                               /\ Reading(c) => req'[c].status = req[c].status
         /\ Asking' <=> f = "finish"
         /\ fsm' = f
<1>1. (req'["machine"].status = "finished" /\ req'["machine"].at # "no") => f = "finish"
  BY Names DEF Enter, Requests, Callers, Sent, NoRequest
<1> QED
  BY <1>1, EnterAsks DEF Asking, Reading, Callers

LEMMA StopConcludes ==
  ASSUME Stop PROVE  /\ Complete' => Complete
                     /\ step' = "off" /\ UNCHANGED <<object, refused>>
  BY DEF Stop, Complete, aws

\* The machine enters a state that nothing but the end of the upload makes a finished one.
LEMMA EnterFinishes ==
  ASSUME All, Fields', NEW f, Enter(f), ~Reading("machine"),
         UNCHANGED <<doc, deleted, crossed, object, refused>>,
         f \in {"create", "init"} => fsm \in {"create", "init"} /\ UNCHANGED session,
         f = "finish" => Concluding, Informed' => Concluding, Complete' => Complete
  PROVE  FInv'
<1>1. req \in Requests
  BY DEF All, SInv, Typed
<1>2. Concluding' => Concluding
  BY <1>1, EnterConcludes DEF Concluding
<1>3. f \in {"create", "init"} => session'.parts = {}
  BY DEF All, FInv, Beginning
<1> QED
  BY <1>1, <1>2, <1>3, EnterConcludes, CalmStep DEF All

LEMMA ProceedFinishes == ASSUME All, Proceed PROVE FInv'
<1>1. PICK f \in {"end", "init", "transfer"} : Enter(f) /\ (f = "init" => fsm = "create")
  BY DEF Proceed
<1>2. ~Reading("machine") /\ UNCHANGED <<uvars, Elsewhere>>
  BY DEF Proceed, Reading
<1>3. Informed' => Concluding
  BY Names DEF Proceed, Informed, Elsewhere, Concluding, Asking
<1>4. Complete' <=> Complete
  BY <1>2 DEF Complete, uvars, memory
<1>7. Fields'
  BY FieldsStep DEF All, FInv, Next, Advance
<1> QED
  BY <1>1, <1>2, <1>3, <1>4, <1>7, EnterFinishes DEF Elsewhere, meta, history, uvars

LEMMA MachineFinishes == ASSUME All, Skip \/ Transfer \/ Transferred \/ Trigger PROVE FInv'
<1>1. Fields'
  BY FieldsStep DEF All, FInv, Next, Advance
<1>2. UNCHANGED <<doc, deleted, crossed, data, saved, inbox>>
  BY DEF Skip, Transfer, Transferred, Trigger, Elsewhere, meta, history
<1>3. (Complete' => Complete) /\ UNCHANGED <<object, refused>>
  BY StopConcludes DEF Skip, Transfer, Transferred, Trigger, Begin, Halt, Complete, uvars, memory
<1>4. Informed' => Concluding
  BY <1>2 DEF Informed, Concluding
<1>5. CASE Transfer /\ Begin /\ UNCHANGED <<req, fsm>>
  <2>1. fsm' \notin {"create", "init"}
    BY <1>5 DEF Transfer
  <2>2. Concluding' => Concluding
    BY <1>3, <1>4, <1>5, <1>2 DEF Concluding, Asking
  <2> QED
    BY <1>1, <1>2, <1>3, <1>5, <2>1, <2>2, CalmStep DEF All, Reading
<1>6. CASE Skip
  BY <1>1, <1>2, <1>3, <1>4, <1>6, EnterFinishes DEF Skip, Reading
<1>7. CASE Transfer /\ Enter("fail")
  <2>1. ~Reading("machine")
    BY <1>7 DEF Transfer, All, LInv, Reading
  <2> QED
    BY <1>1, <1>2, <1>3, <1>4, <1>7, <2>1, EnterFinishes
<1>8. CASE Transferred
  <2>1. ~Reading("machine")
    BY <1>8 DEF Transferred, All, LInv, Reading
  <2>2. PICK f \in {"finish", "fail"} : Enter(f) /\ (f = "finish" => Complete)
    BY <1>8 DEF Transferred, Complete
  <2> QED
    BY <1>1, <1>2, <1>3, <1>4, <2>1, <2>2, EnterFinishes DEF Concluding
<1>9. CASE Trigger
  <2>1. ~Reading("machine")
    BY <1>9 DEF Trigger, All, SInv, FinishedLate, LInv, Reading
  <2>2. PICK f \in {"end", "cancel", "fail"} : Enter(f)
    BY <1>9, Names DEF Trigger, triggers
  <2> QED
    BY <1>1, <1>2, <1>3, <1>4, <2>1, <2>2, EnterFinishes
<1> QED
  BY <1>5, <1>6, <1>7, <1>8, <1>9 DEF Transfer

LEMMA RestartFinishes == ASSUME All, Restart PROVE FInv'
<1>1. Fields'
  BY FieldsStep DEF All, FInv, Next
<1>2. UNCHANGED <<uvars, doc, deleted, crossed, inbox>> /\ ~Reading("machine")
  BY DEF Restart, meta, history, Reading
<1>3. Informed' => Concluding
  BY <1>2 DEF Restart, Informed, Concluding, Hear
<1>4. Complete' <=> Complete
  BY <1>2 DEF Complete, uvars, memory
<1>5. CASE UNCHANGED <<req, fsm>>
  <2>1. Concluding' => Concluding
    BY <1>2, <1>3, <1>4, <1>5 DEF Concluding, Asking
  <2> QED
    BY <1>1, <1>2, <1>5, <2>1, CalmStep DEF All, FInv, Beginning, Reading, uvars
<1>6. ASSUME NEW f, Enter(f), f = fsm \/ f = restored \/ f = "fail"
      PROVE  FInv'
  <2>1. f \in {"create", "init"} => fsm \in {"create", "init"}
    BY <1>6 DEF restored
  <2>2. f = "finish" => Concluding
    BY <1>6 DEF restored, Concluding, Asking, Informed
  <2> QED
    BY <1>1, <1>2, <1>3, <1>4, <1>6, <2>1, <2>2, EnterFinishes DEF uvars
<1> QED
  BY <1>5, <1>6 DEF Restart

\* What an upload does: only the file is put there, and it does not end otherwise.
LEMMA WorkEffect ==
  ASSUME UInv, UInv', NEW granted \in BOOLEAN, Work(granted)
  PROVE  /\ object' \in {object, "whole"}
         /\ refused => refused'
         /\ Complete' => Complete \/ object' = "whole" \/ refused'
<1> USE CountFact
<1>1. CASE Resume \/ Initialize \/ Joined \/ \E c \in Coroutines : Fetch(c) \/ Push(c) \/ Lost(c)
  BY <1>1 DEF Resume, Initialize, Joined, Fetch, Push, Lost, aws, Complete
<1>2. CASE Finalize \/ Answered
  BY <1>2 DEF Finalize, Answered, aws, Complete, UInv, UTypeOK
<1>3. CASE Query(granted)
  BY <1>3 DEF Query, Regenerate, gcs, Complete, Opened
<1>4. CASE Refused(granted)
  BY <1>4 DEF Refused
<1>5. CASE PushNext
  BY <1>5 DEF PushNext, Stored, gcs, Complete, UInv, UTypeOK
<1>6. CASE Break
  BY <1>6 DEF Break, Stored, gcs, Complete, UInv, UTypeOK
<1> QED
  BY <1>1, <1>2, <1>3, <1>4, <1>5, <1>6 DEF Work

LEMMA UploadFinishes ==
  ASSUME All, UInv', End \/ Upload \/ Forget \/ Cancel
  PROVE  FInv'
<1>1. Fields'
  BY FieldsStep DEF All, FInv, Next, Advance
<1>2. UNCHANGED <<doc, deleted, crossed, req, data, saved, inbox>>
  BY DEF End, Upload, Forget, Cancel, Elsewhere, lvars, meta, device, history
<1>3. CASE Upload
  <2>1. /\ fsm = "transfer" /\ UNCHANGED fsm
        /\ (doc.status # "deleted") \in BOOLEAN /\ Work(doc.status # "deleted")
    BY <1>3 DEF Upload, lvars, device
  <2>2. /\ object' \in {object, "whole"}
        /\ refused => refused'
        /\ Complete' => Complete \/ object' = "whole" \/ refused'
    BY <2>1, WorkEffect DEF All
  <2>3. Concluding' => Concluding \/ object' = "whole" \/ refused'
    BY <1>2, <2>1, <2>2 DEF Concluding, Asking, Informed
  <2> QED
    BY <1>1, <1>2, <2>1, <2>2, <2>3, CalmStep DEF All, Reading
<1>4. CASE End \/ Forget \/ Cancel
  <2>1. /\ Complete' => Complete
        /\ UNCHANGED <<object, refused>>
        /\ session' = session \/ session'.parts = {}
        /\ fsm' = fsm \/ fsm' = "over"
    BY <1>4 DEF End, Forget, Cancel, Suffer, Expire, Complete, uvars, lvars, device, memory
  <2>2. Concluding' => Concluding
    BY <1>2, <2>1 DEF Concluding, Asking, Informed
  <2> QED
    BY <1>1, <1>2, <2>1, <2>2, CalmStep DEF All, FInv, Beginning, Reading
<1> QED
  BY <1>3, <1>4

LEMMA AskFinishes == ASSUME All, Delete \/ Ask \/ Deliver PROVE FInv'
<1>1. Fields' /\ req \in Requests
  BY FieldsStep DEF All, FInv, Next, SInv, Typed
<1>2. UNCHANGED <<uvars, doc, deleted, crossed, fsm>>
  BY DEF Delete, Ask, Deliver, Elsewhere, meta, device, history
<1>3. \A c \in Callers : /\ Reading(c)' <=> Reading(c)
                         /\ Reading(c) => req'[c].status = req[c].status
  <2>1. CASE Deliver
    BY <2>1 DEF Deliver, Reading
  <2>2. CASE Delete \/ Ask
    <3>1. PICK c \in Callers, s \in {"canceled", "deleted"} :
            req' = [req EXCEPT ![c] = Sent(s)] /\ ~Reading(c)
      BY <2>2, LinkAssumption DEF Delete, Ask, Callers, Reading
    <3> QED
      BY <1>1, <3>1 DEF Reading, Sent, NoRequest, Requests
  <2> QED
    BY <2>1, <2>2
<1>4. Asking' => Asking
  BY <1>1, <1>2, LinkAssumption DEF Delete, Ask, Deliver, Asking, Requests, Sent, NoRequest, Callers
<1>5. Informed' => Informed
  <2>1. CASE Deliver
    <3>1. /\ Len(inbox) \in Nat /\ Len(inbox) > 0 /\ Head(inbox) = inbox[1]
          /\ \A i \in 1..Len(inbox') : i + 1 \in 1..Len(inbox) /\ inbox'[i] = inbox[i + 1]
      BY <2>1 DEF Deliver, All, FInv, Fields
    <3>2. data' = inbox[1] /\ saved' \in {saved, inbox[1]}
      BY <2>1, <3>1 DEF Deliver, Hear
    <3> QED
      BY <3>1, <3>2 DEF Informed
  <2>2. CASE Delete \/ Ask
    BY <2>2 DEF Delete, Ask, Elsewhere, device, Informed
  <2> QED
    BY <2>1, <2>2
<1>6. Complete' <=> Complete
  BY <1>2 DEF Complete, uvars, memory
<1>7. Concluding' => Concluding
  BY <1>2, <1>4, <1>5, <1>6 DEF Concluding
<1> QED
  BY <1>1, <1>2, <1>3, <1>7, CalmStep DEF All, FInv, Beginning, uvars

LEMMA CrashFinishes == ASSUME All, Crash PROVE FInv'
<1>1. Fields' /\ req \in Requests
  BY FieldsStep DEF All, FInv, Next, SInv, Typed
<1>2. UNCHANGED <<doc, deleted, crossed, fsm, saved>> /\ data' = saved /\ inbox' = <<>>
  BY DEF Crash, meta, history
<1>3. /\ \A c \in Callers : /\ Reading(c)' <=> Reading(c)
                            /\ Reading(c) => req'[c].status = req[c].status
      /\ Asking' => Asking
  BY <1>1, <1>2 DEF Crash, Reading, Asking, Requests, Callers
<1>4. /\ Complete' => Complete
      /\ UNCHANGED <<object, refused>>
      /\ session' = session \/ step # "off"
  BY StopConcludes DEF Crash, Die, Suffer, Complete, memory
<1>5. Concluding' => Concluding
  BY <1>2, <1>3, <1>4 DEF Concluding, Informed
<1> QED
  BY <1>1, <1>2, <1>3, <1>4, <1>5, CalmStep DEF All, LInv, FInv, Beginning

-----------------------------------------------------------------------------
(***************************************************************************)
(* The steps of meta.                                                      *)
(***************************************************************************)

\* A link that is made is not over, whatever came before.
LEMMA MakeFinishes == ASSUME All, CreateEmpty \/ Initialized PROVE FInv'
<1>1. Fields' /\ req \in Requests
  BY FieldsStep DEF All, FInv, Next, Serve, SInv, Typed
<1>2. /\ req["machine"].at = "sent" /\ req["machine"].status \in {"empty", "created"}
      /\ req' = [req EXCEPT !["machine"].at = "yes"]
      /\ doc'.status \in {"empty", "created"}
      /\ UNCHANGED <<object, memory, protocol, fsm, data, saved, deleted, crossed>>
      /\ inbox' \in {inbox, Append(inbox, "created")}
      /\ session' \in {session, Opened}
  BY DEF CreateEmpty, Initialized, Open, Reply, Notify, device, history, uvars, All, SInv,
     Typed, Documents
<1>3. fsm \in {"create", "init"} /\ ~Concluding /\ session.parts = {}
  BY <1>2, Names DEF All, SInv, FinishedLate, FInv, Beginning
<1>4. session'.parts = {}
  BY <1>2, <1>3, SessionFact
<1>5. ~Informed'
  <2>1. inbox \in Seq({"created"} \union updates)
    BY DEF All, FInv, Fields
  <2>2. \A i \in 1..Len(inbox') : inbox'[i] # "finished"
    BY <1>2, <1>3, <2>1 DEF Concluding, Informed
  <2> QED
    BY <1>2, <1>3, <2>2 DEF Concluding, Informed
<1>6. ~Asking' /\ ~Complete'
  BY <1>1, <1>2, <1>3, <1>4, CountFact DEF Concluding, Asking, Complete, Requests, Callers, memory
<1>7. ~Concluding'
  BY <1>2, <1>5, <1>6 DEF Concluding
<1>8. \A c \in Callers : /\ Reading(c)' <=> Reading(c)
                         /\ Reading(c) => req'[c].status = req[c].status
  BY <1>1, <1>2 DEF Reading, Requests
<1>9. Overlap' /\ Deletions'
  BY <1>2, <1>8, Names DEF All, FInv, Overlap, Deletions
<1> QED
  BY <1>1, <1>4, <1>7, <1>9 DEF FInv, Beginning, Behind

\* An answer changes nothing else.
LEMMA AnswerFinishes ==
  ASSUME All, Fields', NEW c \in Callers, NEW a \in {"yes", "refused"},
         req' = [req EXCEPT ![c].at = a], req[c].at = "sent",
         UNCHANGED <<doc, deleted, crossed, fsm, data, saved, inbox, object, protocol, session,
                     memory, refused>>
  PROVE  FInv'
<1>1. /\ \A d \in Callers : /\ Reading(d)' <=> Reading(d)
                            /\ Reading(d) => req'[d].status = req[d].status
      /\ Asking' => Asking
  BY DEF Reading, Asking, Requests, Callers, All, SInv, Typed
<1>2. Concluding' => Concluding
  BY <1>1 DEF Concluding, Informed, Complete, memory
<1> QED
  BY <1>1, <1>2, CalmStep DEF All, FInv, Beginning

LEMMA QuotaFinishes == ASSUME All, QuotaExceeded PROVE FInv'
<1>1. Fields'
  BY FieldsStep DEF All, FInv, Next
<1> QED
  BY <1>1, AnswerFinishes DEF QuotaExceeded, Suffer, Reply, meta, device, history, Callers

\* An update that begins is one that finishes the link, or undoes it.
LEMMA ReadFinishes == ASSUME All, NEW c \in Callers, Read(c) PROVE FInv'
<1> DEFINE s == req[c].status
<1>1. Fields' /\ req \in Requests
  BY FieldsStep DEF All, FInv, Next, Serve, SInv, Typed
<1>2. /\ req[c].at = "sent" /\ s \in updates
      /\ UNCHANGED <<doc, crossed, fsm, data, saved, inbox, protocol, session, memory, refused>>
  BY DEF Read, device
<1>3. CASE object' = object /\ deleted' = deleted
           /\ \E a \in {"yes", "refused"} : req' = [req EXCEPT ![c].at = a]
  BY <1>1, <1>2, <1>3, AnswerFinishes
<1>4. ASSUME ~Forbidden(s), s # doc.status
      PROVE  s # "deleted" => doc.status \notin final
  BY <1>4 DEF Forbidden
<1>5. ASSUME ~Forbidden(s), s # doc.status,
             req'[c].at = "read", req'[c].status = s,
             \A d \in Callers \ {c} : req'[d] = req[d],
             IF s = "finished" THEN UNCHANGED <<object, deleted>>
                               ELSE object' = "none" /\ deleted' = (deleted \/ s = "deleted")
      PROVE  FInv'
  <2>1. \A d \in Callers : /\ req'[d].status = req[d].status
                           /\ req'[d].at = "no" <=> req[d].at = "no"
                           /\ Reading(d)' <=> Reading(d) \/ d = c
    BY <1>2, <1>5 DEF Reading
  <2>2. Concluding' <=> Concluding
    BY <1>2, <2>1 DEF Concluding, Asking, Informed, Complete, memory, Callers
  <2>3. Beginning'
    BY <1>2, <2>2 DEF All, FInv, Beginning
  <2>4. Overlap' /\ Deletions'
    BY <1>2, <1>4, <1>5, <2>1 DEF All, FInv, Fields, Overlap, Deletions
  <2>5. Undone => Undone'
    BY <1>2, <2>1 DEF Undone
  <2>6. s # "finished" => Undone'
    BY <2>1 DEF Undone
  <2>7. Behind'
    BY <1>2, <1>5, <2>2, <2>5, <2>6 DEF All, FInv, Behind
  <2> QED
    BY <1>1, <2>3, <2>4, <2>7 DEF FInv
<1>6. CASE /\ ~Forbidden(s) /\ s # doc.status /\ s = "finished"
           /\ UNCHANGED <<object, deleted>>
           /\ req' = [req EXCEPT ![c].at = "read", ![c].size = IF object = "whole" THEN 1 ELSE 0]
  <2>1. req'[c].at = "read" /\ req'[c].status = s /\ \A d \in Callers \ {c} : req'[d] = req[d]
    BY <1>1, <1>6 DEF Requests
  <2> QED
    BY <1>5, <1>6, <2>1
<1>7. CASE /\ ~Forbidden(s) /\ s # doc.status /\ s # "finished"
           /\ object' = "none" /\ deleted' = (deleted \/ s = "deleted")
           /\ req' = [req EXCEPT ![c].at = "read"]
  <2>1. req'[c].at = "read" /\ req'[c].status = s /\ \A d \in Callers \ {c} : req'[d] = req[d]
    BY <1>1, <1>7 DEF Requests
  <2> QED
    BY <1>5, <1>7, <2>1
\* The job, which is refused what it has done.
<1>8. CASE /\ ~Forbidden(s) /\ doc.status = "finished" /\ s # doc.status
           /\ deleted' = (deleted \/ s = "deleted") /\ object' = "none"
           /\ req' = [req EXCEPT ![c].at = "refused"]
  <2>1. deleted'
    BY <1>4, <1>8, Names
  <2>2. /\ \A d \in Callers : /\ Reading(d)' <=> Reading(d)
                              /\ Reading(d) => req'[d].status = req[d].status
        /\ Asking' => Asking
    BY <1>1, <1>2, <1>8 DEF Reading, Asking, Requests, Callers
  <2>3. Concluding' => Concluding
    BY <1>2, <2>2 DEF Concluding, Informed, Complete, memory
  <2> QED
    BY <1>1, <1>2, <2>1, <2>2, <2>3 DEF All, FInv, Beginning, Overlap, Deletions, Behind
<1> QED
  <2>1. \/ /\ object' = object /\ deleted' = deleted
           /\ \E a \in {"yes", "refused"} : req' = [req EXCEPT ![c].at = a]
        \/ /\ ~Forbidden(s) /\ s # doc.status /\ s = "finished"
           /\ UNCHANGED <<object, deleted>>
           /\ req' = [req EXCEPT ![c].at = "read", ![c].size = IF object = "whole" THEN 1 ELSE 0]
        \/ /\ ~Forbidden(s) /\ s # doc.status /\ s # "finished"
           /\ object' = "none" /\ deleted' = (deleted \/ s = "deleted")
           /\ \/ doc.status = "finished" /\ req' = [req EXCEPT ![c].at = "refused"]
              \/ req' = [req EXCEPT ![c].at = "read"]
    BY DEF Read, Reply
  <2> QED
    BY <2>1, <1>3, <1>6, <1>7, <1>8

\* One that is written without another under way leaves the link finished, with its file,
\* or over otherwise.
LEMMA WriteFinishes == ASSUME All, NEW c \in Callers, Write(c) PROVE FInv'
<1> DEFINE s == req[c].status
<1>1. Fields' /\ req \in Requests /\ doc \in Documents
  BY FieldsStep DEF All, FInv, Next, Serve, SInv, Typed
<1>2. /\ Reading(c) /\ s \in updates /\ doc'.status = s
      /\ crossed' = (crossed \/ \E d \in Callers \ {c} : Reading(d))
      /\ req' = [req EXCEPT ![c].at = "yes"]
      /\ inbox' \in {inbox, Append(inbox, s)}
      /\ UNCHANGED <<object, session, protocol, memory, refused, fsm, data, saved, deleted>>
  BY DEF Write, Reply, Notify, Reading, uvars, device, All, FInv, Fields
<1>3. \A d \in Callers : /\ req'[d].status = req[d].status
                         /\ req'[d].at = "no" <=> req[d].at = "no"
                         /\ Reading(d)' <=> Reading(d) /\ d # c
  BY <1>1, <1>2 DEF Reading, Requests
<1>4. /\ Asking' <=> Asking
      /\ Complete' <=> Complete
      /\ Informed' => Informed \/ s = "finished"
  <2>1. inbox \in Seq({"created"} \union updates)
    BY DEF All, FInv, Fields
  <2>2. (\E i \in 1..Len(inbox') : inbox'[i] = "finished")
          => s = "finished" \/ \E i \in 1..Len(inbox) : inbox[i] = "finished"
    BY <1>2, <2>1
  <2> QED
    BY <1>2, <1>3, <2>2 DEF Asking, Complete, Informed, memory, Callers
<1>5. Concluding' => Concluding \/ s = "finished"
  BY <1>2, <1>4 DEF Concluding
<1>6. s = "finished" => c = "machine" /\ Concluding
  BY <1>2 DEF All, SInv, FinishedLate, Concluding, Asking, Reading
<1>7. Beginning'
  BY <1>2, <1>5, <1>6 DEF All, FInv, Beginning
<1>8. Overlap' /\ Deletions'
  BY <1>2, <1>3 DEF All, FInv, Overlap, Deletions
<1>9. Behind'
  <2> SUFFICES ASSUME ~(deleted' \/ crossed' \/ refused'), Concluding'
               PROVE  object' = "whole" \/ Undone'
    BY DEF Behind
  <2>1. ~crossed /\ \A d \in Callers \ {c} : ~Reading(d)
    BY <1>2
  <2>2. CASE s # "finished"
    <3>1. s # "deleted"
      BY <1>2 DEF All, FInv, Deletions
    <3> QED
      BY <1>2, <2>2, <3>1, Names DEF Undone
  <2>3. CASE s = "finished"
    <3>1. doc.status \notin final
      BY <1>2, <2>1, <2>3 DEF All, FInv, Overlap
    <3>2. ~Undone
      BY <2>1, <2>3, <3>1 DEF Undone
    <3> QED
      BY <1>2, <1>6, <2>1, <2>3, <3>2 DEF All, FInv, Behind
  <2> QED
    BY <2>2, <2>3
<1> QED
  BY <1>1, <1>7, <1>8, <1>9 DEF FInv

-----------------------------------------------------------------------------
LEMMA FinishStep == All /\ [Next]_vars => FInv'
<1>1. ASSUME All, UNCHANGED vars PROVE FInv'
  <2>1. Fields'
    BY <1>1, FieldsStep DEF All, FInv
  <2>2. UNCHANGED <<doc, deleted, crossed, object, refused, req, fsm, session, step, protocol,
                    data, saved, inbox>>
    BY <1>1 DEF vars, lvars, meta, device, history, uvars, memory
  <2>3. Concluding' <=> Concluding
    BY <2>2 DEF Concluding, Asking, Complete, Informed
  <2>4. \A c \in Callers : (Reading(c)' <=> Reading(c)) /\ req'[c].status = req[c].status
    BY <2>2 DEF Reading
  <2>5. fsm' \in {"create", "init"} => fsm \in {"create", "init"} /\ session'.parts = {}
    BY <1>1, <2>2 DEF All, FInv, Beginning
  <2>6. FInv
    BY <1>1 DEF All
  <2> QED
    BY <2>1, <2>2, <2>3, <2>4, <2>5, <2>6, CalmStep
<1>2. ASSUME All, Next PROVE FInv'
  <2>1. UInv'
    BY <1>2, LinkStep, StepInv DEF All, Good
  <2> QED
    BY <1>2, <2>1, ProceedFinishes, MachineFinishes, RestartFinishes, UploadFinishes, AskFinishes,
       CrashFinishes, MakeFinishes, QuotaFinishes, ReadFinishes, WriteFinishes
    DEF Next, Serve, Advance
<1> QED
  BY <1>1, <1>2

\* A link that is finished leads to its file, counts for its size, and nothing but the
\* file is ever uploaded for it, unless a deletion was asked for, two updates overlap
\* (link_update) or GCS refused a chunk.
THEOREM LinkHonest == Spec => []LinkSafe
<1>1. Init => All
  BY LInitInv, SInitInv, FInitInv, UInitInv DEF All
<1>2. All /\ [Next]_vars => All'
  BY LinkStep, StepInv, CountStep, FinishStep DEF All, Good
<1>3. ASSUME All PROVE LinkSafe
  <2>1. TypeOK
    BY <1>3 DEF All, TypeOK, FInv, Fields, SInv, Typed, LInv, UInv, Requests, Documents, States,
       Places
  <2>2. doc.status = "finished" /\ ~Writing => ~Undone
    BY DEF Undone, Writing, Reading
  <2>3. FinishedHasObject
    BY <1>3, <2>1, <2>2 DEF FinishedHasObject, All, FInv, Behind, Concluding
  <2>4. SizeHonest
    BY <1>3 DEF All, SInv, Counting, SizeHonest, Used
  <2>5. WholeObject
    BY <1>3 DEF All, UInv, WholeObject
  <2> QED
    BY <2>3, <2>4, <2>5 DEF LinkSafe
<1> QED
  BY <1>1, <1>2, <1>3, PTL DEF Spec
=============================================================================
