------------------------------- MODULE Metrics -------------------------------
(***************************************************************************)
(* The reporter of the metrics of a client: whoever has something to       *)
(* report pushes it on a queue, and one thread takes the metrics in order  *)
(* and posts each with every reporter at once before it takes the next.    *)
(* The program waits for an empty queue, but not for ever, before it       *)
(* stops the thread.  A post says who the user is when it is made, not     *)
(* when the metric was pushed.                                             *)
(***************************************************************************)
EXTENDS Integers, Sequences

CONSTANTS Reporters,  \* where the metrics are posted
          MaxQueue    \* bound: metrics that wait when another comes

ASSUME MetricsAssumption == MaxQueue \in Nat

VARIABLES
  muted,      \* INFINIT_NO_METRICS is set
  queue,      \* _metric_queue; a metric leaves it once it was posted
  available,  \* the barrier _metric_available
  poll,       \* the polling thread: not there, at its barrier, dispatching
  posting,    \* the reporters that have not posted the metric dispatched
  stopping,   \* does a stop wait for an empty queue, or was it signaled of one?
  due,        \* history: the metrics of the queue that were pushed before the stop
  sender,     \* _metric_sender_id
  seen,       \* history: the last ending of the transaction that each reporter posted
  missed      \* history: did it fail to post any, or were any lost?

queueVars == <<queue, available>>
pollVars == <<poll, posting, seen, missed>>
metricsVars == <<muted, queueVars, pollVars, stopping, due, sender>>

\* What is reported of a transaction; the statuses stand for the metric that it
\* ended with them.
Endings == {"finished", "failed", "canceled", "rejected"}
TransactionEvents == {"created", "accepted", "begin", "end"} \union Endings
\* What is reported of the user of the client, and of its interface.
UserEvents == {"users"}
UiEvents == {"ui"}
Events == TransactionEvents \union UserEvents \union UiEvents
Nothing == "nothing"

MetricsTyped ==
  /\ muted \in BOOLEAN
  /\ queue \in Seq(Events) /\ available \in BOOLEAN
  /\ poll \in {"off", "muted", "wait", "dispatch"}
  /\ posting \subseteq Reporters
  /\ stopping \in {"no", "waiting", "signaled"} /\ due \in Nat
  /\ sender \in {"unknown", "me", "other"}
  /\ seen \in [Reporters -> Endings \union {Nothing}]
  /\ missed \in [Reporters -> BOOLEAN]

-----------------------------------------------------------------------------
Queued(events) == queue \o events

\* _push, of several metrics in a row; a client that is muted drops them.
Push(events) ==
  /\ Len(queue) <= MaxQueue
  /\ queue' = IF muted THEN queue ELSE Queued(events)
  /\ available' = (available \/ (~muted /\ events # << >>))

\* A thread that is muted ends at once.
Polled == IF muted THEN "muted" ELSE "wait"

\* start, at the creation of the program.
StartPoll ==
  /\ poll = "off" /\ poll' = Polled /\ available' = FALSE
  /\ UNCHANGED <<muted, queue, posting, stopping, due, sender, seen, missed>>

\* The thread passes its barrier and the metric at the head is dispatched, in a
\* thread for each reporter.
Dispatch ==
  /\ poll = "wait" /\ available
  /\ poll' = "dispatch" /\ posting' = Reporters
  /\ UNCHANGED <<muted, queueVars, stopping, due, sender, seen, missed>>

Posted(r) == poll = "dispatch" /\ r \in posting /\ posting' = posting \ {r}

\* _send and _post, to the destination of the transactions.  The identity is read
\* when the post is made; whatever it throws is caught.
PostTransaction(r, ok) ==
  /\ Posted(r) /\ Head(queue) \in TransactionEvents
  /\ seen' = IF ok /\ Head(queue) \in Endings THEN [seen EXCEPT ![r] = Head(queue)] ELSE seen
  /\ missed' = [missed EXCEPT ![r] = @ \/ ~ok]
  /\ UNCHANGED <<muted, queueVars, poll, stopping, due, sender>>

\* The same to the destinations of the users and of the interface.
PostUser(r) ==
  /\ Posted(r) /\ Head(queue) \in UserEvents
  /\ UNCHANGED <<muted, queueVars, poll, stopping, due, sender, seen, missed>>

PostUi(r) ==
  /\ Posted(r) /\ Head(queue) \in UiEvents
  /\ UNCHANGED <<muted, queueVars, poll, stopping, due, sender, seen, missed>>

Less(n) == IF n > 0 THEN n - 1 ELSE 0

\* Faulty: the barrier stays open.
KeptOpen == available

\* Faulty: the barrier closes whatever is left.
Closed == FALSE

\* The barrier closes when nothing is left.
Reopened == queue' # << >>

\* Every reporter is done: the metric leaves the queue, and a stop that waits is
\* signaled when nothing is left.
Pop ==
  /\ poll = "dispatch" /\ posting = {} /\ poll' = "wait"
  /\ queue' = Tail(queue) /\ due' = Less(due)
  /\ available' = Reopened
  /\ stopping' = IF stopping = "waiting" /\ queue' = << >> THEN "signaled" ELSE stopping
  /\ UNCHANGED <<muted, posting, sender, seen, missed>>

\* stop: it waits unless the queue is empty.
BeginStop ==
  /\ poll # "off" /\ stopping = "no"
  /\ stopping' = IF queue' = << >> THEN "signaled" ELSE "waiting"
  /\ due' = Len(queue')

\* The metrics of the queue that a reporter has not tried to post.
Untried(r) == (IF poll = "dispatch" /\ r \notin posting THEN 2 ELSE 1)..Len(queue)

\* The process ends, with its thread: what is still in the queue is lost.
Terminate ==
  /\ poll' = "off" /\ stopping' = "no" /\ posting' = {} /\ due' = 0
  /\ queue' = << >> /\ available' = FALSE
  /\ missed' = [r \in Reporters |->
                  missed[r] \/ \E k \in Untried(r) : queue[k] \in TransactionEvents]
  /\ sender' = "unknown"
  /\ UNCHANGED <<muted, seen>>

\* The stop is over, signaled or after five seconds.
EndStop == stopping # "no" /\ Terminate

\* A program that has just started, whose user has logged in.
MetricsInit ==
  /\ muted \in BOOLEAN
  /\ queue = << >> /\ available = FALSE
  /\ poll = Polled /\ posting = {} /\ stopping = "no" /\ due = 0
  /\ sender = "me"
  /\ seen = [r \in Reporters |-> Nothing]
  /\ missed = [r \in Reporters |-> FALSE]

Polling ==
  \/ Dispatch \/ Pop
  \/ \E r \in Reporters : PostUser(r) \/ PostUi(r) \/ PostTransaction(r, TRUE)

-----------------------------------------------------------------------------
\* The thread at its barrier passes it if and only if there is a metric, on which
\* ELLE_ASSERT(!_metric_queue.empty()) relies; the one being posted stays there.
Awake == /\ poll = "wait" => (available <=> queue # << >>)
         /\ poll = "dispatch" => queue # << >>

\* A stop that was signaled leaves nothing that was reported before it.
Flushed == stopping = "signaled" => due = 0

\* A client that is muted tells nothing.
Silent == muted => queue = << >> /\ \A r \in Reporters : seen[r] = Nothing

\* The thread, the queue and the stop agree.
QueueSafe == MetricsTyped /\ Awake /\ Flushed /\ Silent
=============================================================================
