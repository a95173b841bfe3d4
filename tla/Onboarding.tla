------------------------------ MODULE Onboarding ------------------------------
(***************************************************************************)
(* The transaction a new user is shown: a file that is already on the      *)
(* device, sent by nobody, that the machine of a reception pretends to     *)
(* receive and copies at the end.  The server knows nothing of it and no   *)
(* snapshot is kept, but it is reported like any other.                    *)
(***************************************************************************)
EXTENDS Metrics

CONSTANT Ticks   \* how many steps the transfer pretends to make

ASSUME OnboardingAssumption == Ticks \in Nat \ {0}

VARIABLES
  stage,     \* the state of the machine, "none" before it is made
  leg,       \* the state of its Transferer, while it transfers
  progress,  \* the steps made
  wanted,    \* the barriers the user opened
  reachable, \* is the peer said to be?
  source,    \* is the file of the application there?
  copied,    \* is its copy in the folder of the user?
  outcome,   \* the status of the transaction
  late       \* history: did the user choose again when it was over?

welcomeVars == <<stage, leg, progress, wanted, reachable, source, copied, outcome, late>>

OnboardingTyped ==
  /\ stage \in {"none", "decision", "transfer", "fail", "over"}
  /\ leg \in {"none", "publish", "wait", "connect", "transfer"}
  /\ progress \in 0..Ticks
  /\ wanted \subseteq {"accepted", "rejected", "canceled"}
  /\ outcome \in {"initialized", "finished", "failed", "canceled", "rejected"}
  /\ reachable \in BOOLEAN /\ source \in BOOLEAN
  /\ copied \in BOOLEAN /\ late \in BOOLEAN

-----------------------------------------------------------------------------
\* start_onboarding: the data says failed at once when the file is not there,
\* which does not stop the machine.
StartOnboarding ==
  /\ stage = "none" /\ stage' = "decision"
  /\ outcome' = IF source THEN "initialized" ELSE "failed"
  /\ Push(<<"created">>)
  /\ UNCHANGED <<leg, progress, wanted, reachable, source, copied, late>>

\* What is said of the transaction each time a barrier is asked to open, when it
\* is not: the program does not look at the state of the machine.
Click(choice) ==
  /\ stage # "none"
  /\ choice \notin wanted /\ wanted' = wanted \union {choice}
  /\ Push(<<choice>>)
  /\ late' = (late \/ stage = "over")
  /\ UNCHANGED <<stage, leg, progress, source, copied, outcome>>

\* Accepting says that the peer is reachable too.
AcceptWelcome == Click("accepted") /\ reachable' = TRUE
RejectWelcome == Click("rejected") /\ UNCHANGED reachable
CancelWelcome == Click("canceled") /\ UNCHANGED reachable

\* The interface plays the peer that comes and goes, which nothing looks at once the
\* transfer is over.
SetAvailability(up) ==
  /\ stage \in {"decision", "transfer"} /\ reachable # up /\ reachable' = up
  /\ UNCHANGED <<stage, leg, progress, wanted, source, copied, outcome, late>>

\* _finalize: nothing is told to the server.
Conclude(result) ==
  /\ stage' = "over" /\ leg' = "none" /\ outcome' = result
  /\ Push(<<result>>)
  /\ UNCHANGED <<progress, wanted, reachable, source, late>>

\* Out of the wait for a decision: any barrier that is open.
BeginWelcome ==
  /\ stage = "decision" /\ "accepted" \in wanted
  /\ stage' = "transfer" /\ leg' = "publish"
  /\ UNCHANGED <<queueVars, progress, wanted, reachable, source, copied, outcome, late>>

Rejected == stage = "decision" /\ "rejected" \in wanted /\ Conclude("rejected") /\ UNCHANGED copied

\* Cancelation preempts everything but the end.
Canceled ==
  /\ stage \in {"decision", "transfer"} /\ "canceled" \in wanted
  /\ Conclude("canceled") /\ UNCHANGED copied

Leg(from, to) ==
  /\ stage = "transfer" /\ leg = from /\ leg' = to
  /\ UNCHANGED <<queueVars, stage, progress, wanted, reachable, source, copied, outcome, late>>

\* The Transferer: publication, then connection or wait, as the peer is reachable.
Meet ==
  \/ reachable /\ (Leg("publish", "connect") \/ Leg("wait", "connect"))
  \/ ~reachable /\ (Leg("publish", "wait") \/ Leg("connect", "wait"))
  \/ Leg("connect", "transfer")

\* _transfer: one step of the progress.
Tick ==
  /\ stage = "transfer" /\ leg = "transfer" /\ progress < Ticks
  /\ progress' = progress + 1
  /\ UNCHANGED <<queueVars, stage, leg, wanted, reachable, source, copied, outcome, late>>

\* The file is copied, over one of the same name if there is one.
Copy ==
  /\ stage = "transfer" /\ leg = "transfer" /\ progress = Ticks /\ source
  /\ copied' = TRUE
  /\ Conclude("finished")

\* The copy fails: the transaction fails, which _fail says before it reports the
\* failure and _finalize once more.
CopyFails ==
  /\ stage = "transfer" /\ leg = "transfer" /\ progress = Ticks /\ ~source
  /\ stage' = "fail" /\ leg' = "none"
  /\ Push(<<"failed">>)
  /\ UNCHANGED <<progress, wanted, reachable, source, copied, outcome, late>>

Failed == stage = "fail" /\ Conclude("failed") /\ UNCHANGED copied

\* The transactions of the program are cleared: nothing is left of this one.
ForgetWelcome ==
  /\ stage' = "none" /\ leg' = "none" /\ progress' = 0 /\ wanted' = {}
  /\ reachable' = FALSE /\ outcome' = "initialized" /\ late' = FALSE
  /\ UNCHANGED <<source, copied>>

OnboardingInit ==
  /\ stage = "none" /\ leg = "none" /\ progress = 0 /\ wanted = {}
  /\ reachable = FALSE /\ source \in BOOLEAN /\ copied = FALSE
  /\ outcome = "initialized" /\ late = FALSE

WelcomeStep ==
  BeginWelcome \/ Rejected \/ Canceled \/ Meet \/ Tick \/ Copy \/ CopyFails \/ Failed
=============================================================================
