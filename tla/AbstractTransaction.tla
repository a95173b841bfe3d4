------------------------- MODULE AbstractTransaction -------------------------
(***************************************************************************)
(* What a transaction promises to the people on both ends, with none of    *)
(* the server's machinery: its life goes from created to one of the final  *)
(* statuses, one device of the recipient takes it, and it is over when it  *)
(* is over. Two calls are allowed to bring a finished life back: filling   *)
(* the transaction in again (a sender that restarts in the middle of its   *)
(* initialisation does it) and reporting the download of an uploaded file. *)
(***************************************************************************)
EXTENDS TransactionStatus

CONSTANTS Transactions, \* transaction identifiers
          Devices,      \* device identifiers
          NoDevice      \* the empty device identifier

VARIABLES status,           \* status of each transaction, or "none", "empty"
          recipient_device, \* the recipient's device in charge
          uploaded          \* transactions whose file can be downloaded from a link

vars == <<status, recipient_device, uploaded>>

Init == /\ status = [t \in Transactions |-> "none"]
        /\ recipient_device = [t \in Transactions |-> NoDevice]
        /\ uploaded = {}

Move(t, from, to) == /\ status[t] \in from
                     /\ \E s \in to : status' = [status EXCEPT ![t] = s]

Pending == {"initialized", "cloud_buffered", "ghost_uploaded"}

Create(t) == Move(t, {"none"}, {"empty", "created"})
             /\ UNCHANGED <<recipient_device, uploaded>>

Fill(t) == /\ t \notin uploaded
           /\ Move(t, {"empty", "created", "initialized", "accepted", "rejected",
                       "canceled", "failed"}, {"initialized"})
           /\ \E d \in Devices \union {NoDevice} :
                recipient_device' = [recipient_device EXCEPT ![t] = d]
           /\ UNCHANGED uploaded

Initialize(t) == Move(t, {"created"}, {"initialized"})
                 /\ UNCHANGED <<recipient_device, uploaded>>

\* Accept or reject: a device of the recipient takes the decision.
Decide(t) == /\ Move(t, Pending, {"accepted", "rejected"})
             /\ \E d \in Devices :
                  recipient_device' = [recipient_device EXCEPT ![t] = d]
             /\ UNCHANGED uploaded

\* The data is in the cloud: for a user, or for someone without an account.
Store(t) == /\ Move(t, {"initialized"}, {"cloud_buffered", "ghost_uploaded"})
            /\ uploaded' \in {uploaded, uploaded \union {t}}
            /\ UNCHANGED recipient_device

Finish(t) == Move(t, {"initialized", "accepted", "ghost_uploaded"}, {"finished"})
             /\ UNCHANGED <<recipient_device, uploaded>>

Abort(t) == Move(t, Statuses \ final, {"canceled", "failed"})
            /\ UNCHANGED <<recipient_device, uploaded>>

Download(t) == /\ t \in uploaded
               /\ Move(t, Statuses, {"finished"})
               /\ UNCHANGED <<recipient_device, uploaded>>

Next == \E t \in Transactions :
          \/ Create(t) \/ Fill(t) \/ Initialize(t) \/ Decide(t) \/ Store(t)
          \/ Finish(t) \/ Abort(t) \/ Download(t)

Spec == Init /\ [][Next]_vars
==============================================================================
