--------------------------- MODULE LinkTransaction ---------------------------
(***************************************************************************)
(* A link: a file that one device uploads and that anybody may then fetch  *)
(* (gap: LinkSendMachine.cc, TransactionMachine.cc, Transaction.cc; meta:  *)
(* link_generation.py). The device creates and initializes the link,       *)
(* uploads the file (PlainUpload) and finishes it. Its user may cancel or  *)
(* delete it there, or from another device, and a job of meta deletes the  *)
(* links that have expired.                                                *)
(*                                                                         *)
(* meta reads the link and acts on the bucket, then writes the link and    *)
(* notifies: other requests come between the two.                          *)
(***************************************************************************)
EXTENDS PlainUpload, TransactionStatus, Sequences

CONSTANTS Asks \* what is asked of meta, at most once each, besides what the machine
               \* of the device asks: of "user", "other" and "job"

Callers == {"machine", "user", "other", "job"}

ASSUME LinkAssumption == Asks \subseteq Callers \ {"machine"}

VARIABLES doc,      \* the link of meta: status and file_size
          total,    \* total_link_size of its owner
          req,      \* req[c]: the request of c: status, at: "no", "sent", "read",
                    \* "yes" or "refused", and the size found
          up,       \* the device: "up", "off", or "aborted" by an assertion
          fsm,      \* state of its machine
          data,     \* the status the device knows, "none" without an identifier
          saved,    \* the same in the snapshot
          barriers, \* of the machine, that are open
          creds,    \* the machine has credentials in memory
          gap,      \* what its user sees
          inbox,    \* notifications sent to the device
          deleted,  \* history: a deletion was asked of meta
          crossed   \* history: an update was written while another one was under way

meta == <<doc, total>>
device == <<fsm, data, saved, barriers, creds, gap>>
history == <<deleted, crossed>>
lvars == <<meta, req, up, device, inbox, history>>
vars == <<uvars, lvars>>

NoRequest == [status |-> "none", at |-> "no", size |-> 0]
Sent(s) == [NoRequest EXCEPT !.status = s, !.at = "sent"]

Init == /\ UInit
        /\ doc = [status |-> "none", size |-> 0]
        /\ total = 0
        /\ req = [c \in Callers |-> IF c = "machine" THEN Sent("empty") ELSE NoRequest]
        /\ up = "up"
        /\ fsm = "create"
        /\ data = "none"
        /\ saved = "none"
        /\ barriers = {}
        /\ creds = FALSE
        /\ gap = "running"
        /\ inbox = <<>>
        /\ deleted = FALSE
        /\ crossed = FALSE

\* What a state of the machine asks for.
asks == [create |-> "empty", init |-> "created", finish |-> "finished",
         cancel |-> "canceled", fail |-> "failed"]
Finalizing == {"finish", "cancel", "fail"}

\* The machine enters f; _finalize needs an identifier.
Enter(f) ==
  /\ fsm' = f
  /\ req' = [req EXCEPT !["machine"] =
               IF f \in DOMAIN asks /\ (f \in Finalizing => data' # "none")
                 THEN Sent(asks[f]) ELSE NoRequest]

-----------------------------------------------------------------------------
(***************************************************************************)
(* meta.                                                                   *)
(***************************************************************************)

Reply(c, answer) == req' = [req EXCEPT ![c].at = answer]

Notify(s) == inbox' = IF up = "up" THEN Append(inbox, s) ELSE inbox

\* link_create_empty: a second document if it is asked twice; nobody sees the first.
CreateEmpty == /\ req["machine"].at = "sent" /\ req["machine"].status = "empty"
               /\ doc' = [status |-> "empty", size |-> 0]
               /\ Reply("machine", "yes")
               /\ UNCHANGED <<uvars, total, up, device, inbox, history>>

\* link_generate of that document, whatever became of it.
Initialized == /\ req["machine"].at = "sent" /\ req["machine"].status = "created"
               /\ doc' = [doc EXCEPT !.status = "created"]
               /\ Open
               /\ Notify("created")
               /\ Reply("machine", "yes")
               /\ UNCHANGED <<total, up, device, history>>

\* _link_check_quota, of either request.
QuotaExceeded == /\ req["machine"].at = "sent"
                 /\ req["machine"].status \in {"empty", "created"}
                 /\ Suffer
                 /\ Reply("machine", "refused")
                 /\ UNCHANGED <<meta, up, device, inbox, history>>

updates == {"finished", "canceled", "failed", "deleted"}

\* Faulty: a link that is over may change.
ForbiddenNever(s) == doc.status \in {"none", "empty"}

\* No such link yet, or it is over.
Forbidden(s) == \/ doc.status \in {"none", "empty"}
                \/ doc.status \in final /\ s \notin {doc.status, "deleted"}

\* The space the owner uses, when the data is erased or found.
Counted(s, file_size) ==
  total' = CASE s = "finished" -> total + file_size
             [] s # "finished" /\ doc.status = "finished" -> total - doc.size
             [] OTHER -> total

\* link_update, up to the bucket. GCS knows no object that is not finished: meta aborts
\* with an error 500, and the client asks again. The job updates in the name of nobody:
\* that fails once the data is erased, when it must be taken off the space of its owner.
Read(c) ==
  LET s == req[c].status
      file_size == IF object = "whole" THEN 1 ELSE 0
      known == ~Forbidden(s) /\ s # doc.status
  IN
  /\ req[c].at = "sent" /\ s \in updates
  /\ \/ /\ ~known
        /\ Reply(c, IF Forbidden(s) THEN "refused" ELSE "yes")
        /\ UNCHANGED <<object, total, deleted>>
     \/ /\ known /\ s = "finished"
        /\ Counted(s, file_size)
        /\ req' = [req EXCEPT ![c].at = "read", ![c].size = file_size]
        /\ UNCHANGED <<object, deleted>>
     \/ /\ known /\ s # "finished"
        /\ protocol = "gcs" => object # "none"
        /\ object' = "none"
        /\ deleted' = (deleted \/ s = "deleted")
        /\ \/ /\ c = "job" /\ doc.status = "finished"
              /\ Reply(c, "refused")
              /\ UNCHANGED total
           \/ /\ c = "job" => doc.status # "finished"
              /\ Counted(s, 0)
              /\ Reply(c, "read")
     \/ /\ known /\ s # "finished" /\ c = "job"
        /\ protocol = "gcs" /\ object = "none"
        /\ Reply(c, "refused")
        /\ UNCHANGED <<object, total, deleted>>
  /\ UNCHANGED <<protocol, session, uid, memory, refused, faults, doc, up, device, inbox,
                 crossed>>

\* The rest of it: find_and_modify and the notification.
Write(c) ==
  LET s == req[c].status IN
  /\ req[c].at = "read"
  /\ doc' = [status |-> s, size |-> IF s = "finished" THEN req[c].size ELSE doc.size]
  /\ crossed' = (crossed \/ \E other \in Callers \ {c} : req[other].at = "read")
  /\ Notify(s)
  /\ Reply(c, "yes")
  /\ UNCHANGED <<uvars, total, up, device, deleted>>

-----------------------------------------------------------------------------
(***************************************************************************)
(* The device.                                                             *)
(***************************************************************************)

Up == up = "up"
Elsewhere == <<meta, up, inbox, history>>

\* The answer to the request of a state.
Proceed ==
  LET answer == req["machine"].at
      made == data' = "created" /\ saved' = "created"
      over == data' = asks[fsm] /\ saved' = asks[fsm]
  IN
  /\ Up /\ answer \in {"yes", "refused"}
  /\ \/ /\ fsm \in {"create", "init"} /\ answer = "refused"
        /\ gap' = "payment_required"
        /\ Enter("end")
        /\ UNCHANGED <<data, saved, creds>>
     \/ /\ fsm = "create" /\ answer = "yes"
        /\ made /\ Enter("init")
        /\ UNCHANGED <<creds, gap>>
     \/ /\ fsm = "init" /\ answer = "yes"
        /\ made /\ Enter("transfer")
        /\ creds' = TRUE
        /\ UNCHANGED gap
     \/ \* _finalize: a refusal is logged.
        /\ fsm \in Finalizing
        /\ IF answer = "yes" THEN over ELSE UNCHANGED <<data, saved>>
        /\ Enter("end")
        /\ UNCHANGED <<creds, gap>>
  /\ UNCHANGED <<uvars, Elsewhere, barriers>>

\* _finalize of a link without identifier.
Skip == /\ Up /\ fsm \in Finalizing /\ req["machine"].at = "no"
        /\ UNCHANGED data
        /\ Enter("end")
        /\ UNCHANGED <<uvars, Elsewhere, saved, barriers, creds, gap>>

\* The upload starts with credentials, which meta does not give for a deleted link.
Transfer == /\ Up /\ fsm = "transfer" /\ step = "off"
            /\ \/ /\ creds \/ doc.status # "deleted"
                  /\ Begin
                  /\ creds' = TRUE
                  /\ UNCHANGED <<req, fsm, data>>
               \/ /\ ~creds /\ doc.status = "deleted"
                  /\ UNCHANGED <<data, creds>>
                  /\ Enter("fail")
                  /\ UNCHANGED uvars
            /\ UNCHANGED <<Elsewhere, saved, barriers, gap>>

Upload == /\ Up /\ fsm = "transfer"
          /\ Work(doc.status # "deleted")
          /\ UNCHANGED lvars

\* The upload is over, by an error or not.
Transferred == /\ Up /\ fsm = "transfer" /\ step \in {"uploaded", "error"}
               /\ Halt
               /\ UNCHANGED data
               /\ Enter(IF step = "uploaded" THEN "finish" ELSE "fail")
               /\ UNCHANGED <<Elsewhere, saved, barriers, creds, gap>>

\* The transitions on a barrier, whatever the state was doing.
triggers == [finished |-> "end", canceled |-> "cancel", failed |-> "fail"]

Trigger == /\ Up /\ fsm \in {"create", "init", "transfer"}
           /\ UNCHANGED data
           /\ \E b \in DOMAIN triggers : b \in barriers /\ Enter(triggers[b])
           /\ IF step = "off" THEN UNCHANGED uvars ELSE Halt
           /\ UNCHANGED <<Elsewhere, saved, barriers, creds, gap>>

\* _end: the status is the last one this device knows; a deleted one is "impossible".
\* The snapshots are removed.
End == /\ Up /\ fsm = "end"
       /\ fsm' = "over"
       /\ gap' = IF data \in final THEN data ELSE "failed"
       /\ UNCHANGED <<uvars, Elsewhere, req, data, saved, barriers, creds>>

\* The user cancels, or the source disappears.
Cancel == /\ Up /\ fsm # "over"
          /\ Suffer
          /\ barriers' = barriers \union {"canceled"}
          /\ UNCHANGED <<Elsewhere, req, fsm, data, saved, creds, gap>>

\* Transaction::delete_.
Delete == /\ Up /\ "user" \in Asks /\ req["user"].at = "no" /\ data # "none"
          /\ IF data \in final \union {"deleted"} THEN UNCHANGED <<barriers, gap>>
             ELSE barriers' = barriers \union {"canceled"} /\ gap' = "deleted"
          /\ data' = "deleted"
          /\ req' = [req EXCEPT !["user"] = Sent("deleted")]
          /\ UNCHANGED <<uvars, Elsewhere, fsm, saved, creds>>

\* Another device cancels or deletes; the job deletes.
Ask == \E c \in Asks \ {"user"}, s \in {"canceled", "deleted"} :
         /\ req[c].at = "no" /\ doc.status \notin {"none", "empty"}
         /\ c = "job" => s = "deleted"
         /\ req' = [req EXCEPT ![c] = Sent(s)]
         /\ UNCHANGED <<uvars, Elsewhere, device>>

\* on_transaction_update and transaction_status_update.
Hear(s) ==
  /\ data' = s
  /\ saved' = IF fsm # "over" THEN s ELSE saved
  /\ barriers' = IF fsm # "over" THEN barriers \union ({s} \cap final) ELSE barriers
  /\ gap' = CASE s = "deleted" -> "deleted"
              [] s # "deleted" /\ fsm = "over" -> IF s \in final THEN s ELSE "running"
              [] OTHER -> gap

\* A notification is handled, unless the link is being initialized.
Deliver == /\ Up /\ inbox # <<>>
           /\ ~(fsm = "init" /\ req["machine"].at # "no")
           /\ inbox' = Tail(inbox)
           /\ Hear(Head(inbox))
           /\ UNCHANGED <<uvars, meta, req, up, fsm, creds, history>>

\* The process dies; what it had asked for is done or not.
Crash == /\ Up
         /\ up' = "off"
         /\ inbox' = <<>>
         /\ barriers' = {}
         /\ data' = saved
         /\ creds' = FALSE
         /\ req' = [c \in Callers |-> IF c \in {"machine", "user"} /\ req[c].at # "read"
                                        THEN [req[c] EXCEPT !.at = IF c = "user" /\ @ # "no"
                                                THEN "refused" ELSE "no"]
                                        ELSE req[c]]
         /\ IF step = "off" THEN Suffer ELSE Die
         /\ UNCHANGED <<meta, fsm, saved, gap, history>>

\* The state a machine is started in: "transfer" is not a name _run_from_snapshot knows,
\* and the status tells.
restored ==
  CASE fsm # "transfer" -> fsm
    [] fsm = "transfer" /\ saved = "created" -> "transfer"
    [] fsm = "transfer" /\ saved = "finished" -> "finish"
    [] fsm = "transfer" /\ saved = "canceled" -> "cancel"
    [] fsm = "transfer" /\ saved = "failed" -> "fail"
    [] OTHER -> "aborted"

\* Started again, once meta is done with what it had asked: from the snapshot, then from
\* what meta lists, without the links that are canceled or deleted.
Restart ==
  LET listed == doc.status \in {"created", "finished", "failed"}
      f == IF fsm # "over" THEN restored
           ELSE IF doc.status = "created" THEN "fail" ELSE "over"
  IN
  /\ up = "off" /\ req["machine"].at # "read" /\ req["user"].at # "read"
  /\ \/ /\ f = "aborted"
        /\ up' = "aborted"
        /\ UNCHANGED <<req, fsm, data, saved, barriers, gap>>
     \/ /\ f # "aborted"
        /\ up' = "up"
        /\ \/ listed /\ data # "none" /\ Hear(doc.status)
           \/ /\ ~listed \/ data = "none"
              /\ gap' = IF fsm # "over" /\ saved \in final THEN saved ELSE gap
              /\ UNCHANGED <<data, saved, barriers>>
        /\ IF f = "over" THEN UNCHANGED <<req, fsm>> ELSE Enter(f)
  /\ UNCHANGED <<uvars, meta, creds, inbox, history>>

Forget == Expire /\ UNCHANGED lvars

-----------------------------------------------------------------------------
Serve == CreateEmpty \/ Initialized \/ \E c \in Callers : Read(c) \/ Write(c)
Advance == Proceed \/ Skip \/ Transfer \/ Upload \/ Transferred \/ Trigger \/ End

Next == Serve \/ Advance \/ QuotaExceeded \/ Cancel \/ Delete \/ Ask \/ Deliver \/ Crash
        \/ Restart \/ Forget

\* Requests are sent until they are answered, the machine and the upload go on and the
\* notifications come; a client that died need not be started again.
Fairness == /\ \A c \in Callers : WF_vars(Read(c)) /\ WF_vars(Write(c))
            /\ WF_vars(CreateEmpty \/ Initialized)
            /\ WF_vars(Advance)
            /\ WF_vars(Deliver)

Spec == Init /\ [][Next]_vars /\ Fairness

-----------------------------------------------------------------------------
(***************************************************************************)
(* Properties.                                                             *)
(***************************************************************************)

Writing == \E c \in Callers : req[c].at = "read"

TypeOK ==
  /\ UTypeOK
  /\ doc \in [status : {"none", "empty", "created"} \union updates, size : {0, 1}]
  /\ total \in Int
  /\ req \in [Callers -> [status : {"none", "empty", "created"} \union updates,
                          at : {"no", "sent", "read", "yes", "refused"}, size : {0, 1}]]
  /\ up \in {"up", "off", "aborted"}
  /\ fsm \in {"create", "init", "transfer", "finish", "cancel", "fail", "end", "over"}
  /\ {data, saved} \subseteq {"none", "created"} \union updates
  /\ barriers \subseteq DOMAIN triggers
  /\ {creds, deleted, crossed} \subseteq BOOLEAN
  /\ gap \in {"running", "payment_required"} \union updates
  /\ inbox \in Seq({"created"} \union updates)
  /\ step # "off" => up = "up" /\ fsm = "transfer"

\* Safety: behind a link that is finished, no update of which is under way, there is the
\* file, unless its deletion was asked for, two updates crossed or GCS refused a chunk.
FinishedHasObject ==
  /\ TypeOK
  /\ doc.status = "finished" /\ ~Writing /\ ~(deleted \/ crossed \/ refused)
       => object = "whole"

\* Safety: the space its owner uses is the size of the link while it is finished, unless
\* two updates crossed.
SizeHonest ==
  ~Writing /\ ~crossed => total = IF doc.status = "finished" THEN doc.size ELSE 0

\* Safety: what a link leads to and what it counts for are right; what is uploaded for
\* it is never something else than the file.
LinkSafe == WholeObject /\ FinishedHasObject /\ SizeHonest

\* meta refuses for ever to cancel or delete what GCS does not have.
Blocked == protocol = "gcs" /\ object = "none"
           /\ req["machine"].at = "sent" /\ req["machine"].status \in {"canceled", "failed"}

\* Liveness: a device that stays up comes to the end of its link, which is over for meta.
UploadEnds == <>[](\/ ~Up \/ Blocked
                   \/ fsm = "over" /\ doc.status \in updates \union {"none", "empty"})
=============================================================================
