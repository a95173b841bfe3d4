----------------------------- MODULE PlainUpload -----------------------------
(***************************************************************************)
(* The upload of one file to a bucket (gap: SendMachine::_plain_upload and *)
(* _gcs_plain_upload), which a client that is started again goes on with.  *)
(*                                                                         *)
(* On S3 the client opens a multipart upload, saves its identifier, pushes *)
(* the chunks from several coroutines and asks for them to be put          *)
(* together. On GCS meta opens a session and the chunks go one after the   *)
(* other. The store keeps what it has of either, the session below; it may *)
(* forget it at any time.                                                  *)
(***************************************************************************)
EXTENDS Integers

CONSTANTS Count,      \* chunk_count
          Coroutines, \* the threads that push chunks
          Protocols,  \* the stores of an instance, of "aws" and "gcs"
          MaxFaults   \* bound on the number of faults

ASSUME UploadAssumption == /\ Count \in Nat \ {0}
                           /\ Coroutines # {}
                           /\ Protocols \subseteq {"aws", "gcs"}
                           /\ MaxFaults \in Nat

Chunks == 0..(Count - 1)
Idle == -1     \* a coroutine that has no chunk
Left == Count  \* a coroutine that is done

VARIABLES protocol,     \* the store in use
          object,       \* what is under the name of the file: "none", "whole", or
                        \* "partial": something else than the file
          session,      \* of the store: live, and the chunks it has
          uid,          \* plain_upload_uid is in the snapshot
          step,         \* of the client: "off", "start", "push", "finalize",
                        \* "answered", "uploaded" or "error"
          next_chunk,   \* the next chunk to be pushed
          max_check_id, \* the last chunk that was listed
          chunks,       \* how often each chunk is in the list to put together
          pushing,      \* the chunk a coroutine is pushing
          refused,      \* history: GCS refused a chunk
          faults        \* so far

memory == <<step, next_chunk, max_check_id, chunks, pushing>>
uvars == <<protocol, object, session, uid, memory, refused, faults>>

Fault == faults < MaxFaults /\ faults' = faults + 1

NoChunks == [k \in Chunks |-> 0]
Opened == [live |-> TRUE, parts |-> {}]

Forgotten == /\ next_chunk' = 0
             /\ max_check_id' = 0
             /\ chunks' = NoChunks
             /\ pushing' = [c \in Coroutines |-> Idle]

UInit == /\ protocol \in Protocols
         /\ object = "none"
         /\ session = [live |-> FALSE, parts |-> {}]
         /\ uid = FALSE
         /\ step = "off"
         /\ next_chunk = 0
         /\ max_check_id = 0
         /\ chunks = NoChunks
         /\ pushing = [c \in Coroutines |-> Idle]
         /\ refused = FALSE
         /\ faults = 0

Begin == /\ step = "off"
         /\ step' = "start"
         /\ UNCHANGED <<protocol, object, session, uid, next_chunk, max_check_id,
                        chunks, pushing, refused, faults>>

-----------------------------------------------------------------------------
(***************************************************************************)
(* S3.                                                                     *)
(***************************************************************************)

aws(s) == protocol = "aws" /\ step = s

\* The chunks that are there are listed. The first that is missing is the next; after
\* it, there may be others up to max_check_id.
Resume ==
  /\ aws("start") /\ uid /\ session.live
  /\ chunks' = [k \in Chunks |-> IF k \in session.parts THEN 1 ELSE 0]
  /\ \E n \in 0..Count : /\ 0..(n - 1) \subseteq session.parts /\ n \notin session.parts
                         /\ next_chunk' = n
  /\ \E last \in Chunks : /\ max_check_id' = last
                          /\ \/ session.parts = {} /\ last = 0
                             \/ /\ last \in session.parts
                                /\ \A k \in session.parts : k <= last
  /\ step' = "push"
  /\ UNCHANGED <<protocol, object, session, uid, pushing, refused, faults>>

\* No upload to go on with, or one that the store has forgotten.
Initialize == /\ aws("start") /\ ~(uid /\ session.live)
              /\ session' = Opened
              /\ uid' = TRUE
              /\ step' = "push"
              /\ UNCHANGED <<protocol, object, next_chunk, max_check_id, chunks, pushing,
                             refused, faults>>

has_it(k) == k <= max_check_id /\ chunks[k] > 0

\* A coroutine takes the next chunk, and passes over those that were listed.
Fetch(c) ==
  /\ aws("push") /\ pushing[c] = Idle
  /\ \/ /\ next_chunk < Count
        /\ next_chunk' = next_chunk + 1
        /\ pushing' = [pushing EXCEPT ![c] = IF has_it(next_chunk) THEN Idle
                                             ELSE next_chunk]
     \/ /\ next_chunk >= Count
        /\ pushing' = [pushing EXCEPT ![c] = Left]
        /\ UNCHANGED next_chunk
  /\ UNCHANGED <<protocol, object, session, uid, step, max_check_id, chunks, refused,
                 faults>>

\* multipart_upload.
Push(c) == /\ aws("push") /\ pushing[c] \in Chunks /\ session.live
           /\ session' = [session EXCEPT !.parts = @ \union {pushing[c]}]
           /\ chunks' = [chunks EXCEPT ![pushing[c]] = @ + 1]
           /\ pushing' = [pushing EXCEPT ![c] = Idle]
           /\ UNCHANGED <<protocol, object, uid, step, next_chunk, max_check_id, refused,
                          faults>>

\* The store answers a coroutine that it does not know the upload.
Lost(c) == /\ aws("push") /\ pushing[c] \in Chunks /\ ~session.live
           /\ step' = "error"
           /\ UNCHANGED <<protocol, object, session, uid, next_chunk, max_check_id, chunks,
                          pushing, refused, faults>>

Joined == /\ aws("push") /\ \A c \in Coroutines : pushing[c] = Left
          /\ step' = "finalize"
          /\ UNCHANGED <<protocol, object, session, uid, next_chunk, max_check_id, chunks,
                         pushing, refused, faults>>

\* multipart_finalize: the store puts the chunks of the list together, then answers.
Finalize ==
  /\ aws("finalize")
  /\ \/ /\ session.live
        /\ object' = IF \A k \in Chunks : k \in session.parts /\ chunks[k] = 1
                       THEN "whole" ELSE "partial"
        /\ session' = [live |-> FALSE, parts |-> {}]
        /\ step' = "answered"
     \/ /\ ~session.live
        /\ step' = "error"
        /\ UNCHANGED <<object, session>>
  /\ UNCHANGED <<protocol, uid, next_chunk, max_check_id, chunks, pushing, refused, faults>>

Answered == /\ aws("answered")
            /\ step' = "uploaded"
            /\ UNCHANGED <<protocol, object, session, uid, next_chunk, max_check_id, chunks,
                           pushing, refused, faults>>

-----------------------------------------------------------------------------
(***************************************************************************)
(* GCS.                                                                    *)
(***************************************************************************)

gcs(s) == protocol = "gcs" /\ step = s

\* The credentials are made again, if meta grants it: with them a session.
Regenerate(granted, then) ==
  /\ session' = IF granted THEN Opened ELSE session
  /\ step' = IF granted THEN then ELSE "error"

\* Faulty: the session is asked again, whatever the store said of it.
QuerySame(granted) ==
  /\ gcs("start") /\ session.live
  /\ step' = IF session.parts = Chunks THEN "uploaded" ELSE "push"
  /\ \E n \in 0..Count : session.parts = 0..(n - 1) /\ next_chunk' = n
  /\ UNCHANGED <<protocol, object, session, uid, max_check_id, chunks, pushing, refused,
                 faults>>

\* The position of the upload is asked for.
Query(granted) ==
  /\ gcs("start")
  /\ \/ /\ session.live
        /\ step' = IF session.parts = Chunks THEN "uploaded" ELSE "push"
        /\ \E n \in 0..Count : session.parts = 0..(n - 1) /\ next_chunk' = n
        /\ UNCHANGED session
     \/ /\ ~session.live
        /\ Regenerate(granted, "start")
        /\ UNCHANGED next_chunk
  /\ UNCHANGED <<protocol, object, uid, max_check_id, chunks, pushing, refused, faults>>

\* The last chunk makes the object.
Stored == /\ session' = [session EXCEPT !.parts = @ \union {next_chunk}]
          /\ object' = IF next_chunk = Count - 1 THEN "whole" ELSE object

PushNext == /\ gcs("push") /\ session.live
            /\ Stored
            /\ next_chunk' = next_chunk + 1
            /\ step' = IF next_chunk' = Count THEN "uploaded" ELSE "push"
            /\ UNCHANGED <<protocol, uid, max_check_id, chunks, pushing, refused, faults>>

\* The connection breaks: the position is asked for again.
Break == /\ gcs("push") /\ Fault
         /\ Stored \/ UNCHANGED <<session, object>>
         /\ step' = "start"
         /\ UNCHANGED <<protocol, uid, next_chunk, max_check_id, chunks, pushing, refused>>

\* A chunk is answered by an error, transient or not: both loops are left.
Refused(granted) ==
  /\ gcs("push")
  /\ \/ /\ session.live /\ Fault
        /\ step' = "uploaded"
        /\ UNCHANGED session
     \/ /\ ~session.live
        /\ Regenerate(granted, "uploaded")
        /\ UNCHANGED faults
  /\ refused' = TRUE
  /\ UNCHANGED <<protocol, object, uid, next_chunk, max_check_id, chunks, pushing>>

-----------------------------------------------------------------------------
(***************************************************************************)
(* Interruptions, and what others do to the store.                         *)
(***************************************************************************)

\* The upload stops: some of the chunks under way may be stored nevertheless.
Stop == /\ step # "off"
        /\ step' = "off"
        /\ Forgotten
        /\ \/ UNCHANGED session
           \/ /\ aws("push") /\ session.live
              /\ \E s \in SUBSET {pushing[c] : c \in Coroutines} :
                   session' = [session EXCEPT !.parts = @ \union (s \cap Chunks)]
        /\ UNCHANGED <<protocol, object, uid, refused>>

\* It is over, or terminated by its machine; or the process dies.
Halt == Stop /\ UNCHANGED faults
Die == Stop /\ Fault

\* A fault of something else.
Suffer == Fault /\ UNCHANGED <<protocol, object, session, uid, memory, refused>>

\* The store forgets an upload that is not finished.
Expire == /\ session.live /\ Fault
          /\ session' = [live |-> FALSE, parts |-> {}]
          /\ UNCHANGED <<protocol, object, uid, memory, refused>>

\* meta opens a session, or removes the object.
Open == /\ session' = IF protocol = "gcs" THEN Opened ELSE session
        /\ UNCHANGED <<protocol, object, uid, memory, refused, faults>>

Erase == /\ object' = "none"
         /\ UNCHANGED <<protocol, session, uid, memory, refused, faults>>

-----------------------------------------------------------------------------
Work(granted) ==
  \/ Resume \/ Initialize \/ Joined \/ Finalize \/ Answered
  \/ \E c \in Coroutines : Fetch(c) \/ Push(c) \/ Lost(c)
  \/ Query(granted) \/ PushNext \/ Break \/ Refused(granted)

UNext == \/ Begin \/ Halt \/ Die \/ Suffer \/ Expire \/ Erase
         \/ step = "off" /\ Open
         \/ \E granted \in BOOLEAN : Work(granted)

USpec == UInit /\ [][UNext]_uvars

UTypeOK == /\ protocol \in {"aws", "gcs"}
           /\ object \in {"none", "whole", "partial"}
           /\ session \in [live : BOOLEAN, parts : SUBSET Chunks]
           /\ uid \in BOOLEAN
           /\ step \in {"off", "start", "push", "finalize", "answered", "uploaded", "error"}
           /\ next_chunk \in 0..Count
           /\ max_check_id \in Chunks
           /\ chunks \in [Chunks -> Nat]
           /\ pushing \in [Coroutines -> {Idle} \union 0..Count]
           /\ refused \in BOOLEAN
           /\ faults \in Nat

\* Safety: what is put together is the file, each chunk once, however often the upload
\* was interrupted and wherever it was resumed.
WholeObject == UTypeOK /\ object # "partial"
=============================================================================
