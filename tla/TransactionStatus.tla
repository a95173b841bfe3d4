-------------------------- MODULE TransactionStatus --------------------------
(***************************************************************************)
(* The statuses of a transaction and the moves the meta server permits     *)
(* between them (oracles/transaction.py, meta/server/transaction_status.py)*)
(***************************************************************************)

\* statuses: the ones a transaction document can hold. "none", "started" and
\* "deleted" are in the source's dictionary but no code path of the server
\* stores them.
Statuses == {"created", "initialized", "accepted", "finished", "rejected",
             "canceled", "failed", "ghost_uploaded", "cloud_buffered"}

\* final: the statuses after which a transaction is over.
final == {"rejected", "failed", "finished", "canceled"}

\* transitions[status][is_sender]: the statuses that the device of the sender
\* (TRUE) or anyone else involved (FALSE) may ask for.
transitions ==
  [s \in Statuses |->
    CASE s = "created" ->
           [is_sender \in BOOLEAN |->
              IF is_sender THEN {"initialized", "canceled", "failed"}
                           ELSE {"canceled"}]
      [] s = "initialized" ->
           [is_sender \in BOOLEAN |->
              IF is_sender THEN {"canceled", "failed", "finished",
                                 "ghost_uploaded", "cloud_buffered"}
                           ELSE {"accepted", "rejected", "canceled", "failed"}]
      [] s = "cloud_buffered" ->
           [is_sender \in BOOLEAN |->
              IF is_sender THEN {"canceled", "failed"}
                           ELSE {"accepted", "rejected", "canceled", "failed"}]
      [] s = "accepted" ->
           [is_sender \in BOOLEAN |->
              IF is_sender THEN {"cloud_buffered", "canceled", "failed"}
                           ELSE {"accepted", "finished", "canceled", "failed"}]
      [] s = "ghost_uploaded" ->
           [is_sender \in BOOLEAN |->
              IF is_sender THEN {"canceled"}
                           ELSE {"accepted", "rejected", "canceled", "failed",
                                 "finished"}]
      [] s = "finished" ->
           [is_sender \in BOOLEAN |-> {"finished", "canceled", "failed"}]
      [] s \in {"canceled", "failed"} ->
           [is_sender \in BOOLEAN |-> {"canceled", "failed"}]
      [] s = "rejected" ->
           [is_sender \in BOOLEAN |->
              IF is_sender THEN {"canceled", "failed"}
                           ELSE {"rejected", "canceled", "failed"}]]
==============================================================================
