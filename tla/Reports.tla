------------------------------- MODULE Reports -------------------------------
(***************************************************************************)
(* A client that reports what it does.  Its user receives what was sent    *)
(* to him when he was a ghost, or is shown the onboarding; he logs out, in *)
(* again, as someone else, quits, and the program may die.  Both machines  *)
(* push their metrics, and so do the state and the interface.              *)
(***************************************************************************)
EXTENDS Onboarding, GhostDownload

CONSTANT MaxTold   \* bound: the metrics of the user and of the interface

ASSUME ReportsAssumption == MaxTold \in Nat

VARIABLES
  kind,     \* which machine this client runs: "ghost" or "onboarding"
  session,  \* who is logged in: "none", "me" or "other"
  told      \* the metrics of the user and of the interface

rvars == <<metricsVars, welcomeVars, vars, kind, session, told>>

On == poll # "off" /\ stopping = "no"

\* A machine works for the user it belongs to.
Busy(machine) == kind = machine /\ On /\ session = "me"
Apart == UNCHANGED <<muted, pollVars, stopping, due, sender, kind, session, told>>

-----------------------------------------------------------------------------
(***************************************************************************)
(* The ghost: each step of its machine, and what it reports.               *)
(***************************************************************************)
Ghostly(step, events) ==
  /\ step /\ Push(events) /\ Apart /\ UNCHANGED welcomeVars

FailedIf == IF at' = "fail" THEN <<"failed">> ELSE << >>

RQuiet ==
  Ghostly(Uploaded \/ Tell \/ Read \/ Finish \/ Remove \/ Update \/ Finalized \/ End, << >>)
RAccept == Ghostly(Accept, <<"accepted">>)
RLocate == Ghostly(Locate, FailedIf)
\* The metric of the end of a request is pushed whatever ends it.
RRequest ==
  Ghostly(Request, IF at' = "fail" THEN <<"begin", "end", "failed">> ELSE <<"begin">>)
RDownloaded == Ghostly(Downloaded, <<"end">>)
\* The reporters are told after the server answered, and nothing when it refused;
\* a failure they are told before, too.
RAnswered == Ghostly(Answered, <<Outcome>>)

RStep ==
  /\ Busy("ghost")
  /\ RQuiet \/ RAccept \/ RLocate \/ RRequest \/ RDownloaded \/ RAnswered

RBroken == Busy("ghost") /\ Ghostly(Broken, <<"end">>)
RRefused == Busy("ghost") /\ Ghostly(Refused, << >>)
RRestart == Busy("ghost") /\ Ghostly(Restart, FailedIf)
RUpload == kind = "ghost" /\ Upload /\ UNCHANGED <<metricsVars, welcomeVars, kind, session, told>>

-----------------------------------------------------------------------------
(***************************************************************************)
(* The onboarding.                                                         *)
(***************************************************************************)
Welcomed == Apart /\ UNCHANGED vars

RWelcome == Busy("onboarding") /\ WelcomeStep /\ Welcomed

RClicks ==
  /\ Busy("onboarding") /\ Welcomed
  /\ \/ StartOnboarding \/ AcceptWelcome \/ RejectWelcome \/ CancelWelcome
     \/ \E up \in BOOLEAN : SetAvailability(up) /\ UNCHANGED queueVars

-----------------------------------------------------------------------------
(***************************************************************************)
(* The state.                                                              *)
(***************************************************************************)
Told(n) == told + n <= MaxTold /\ told' = told + n

\* A heartbeat, a proxy, the first launch, a download folder, what the user does
\* with the interface.
Use(event) ==
  /\ On /\ Push(<<event>>) /\ Told(1)
  /\ UNCHANGED <<muted, pollVars, stopping, due, sender, welcomeVars, vars, kind, session>>

\* What a client that is interrupted keeps: nothing of the onboarding, and the
\* snapshots of the other.
Interrupt ==
  /\ IF kind = "ghost" /\ at # "off" THEN Crash
     ELSE /\ faults < MaxFaults /\ faults' = faults + 1
          /\ UNCHANGED <<case, status, at, saved, note, under, path, folder, files, request,
                         extracted, untold>>
  /\ ForgetWelcome

\* _cleanup clears the transactions; a request that was running says that it ends.
Ending == IF request # None THEN <<"end">> ELSE << >>

\* logout; the name that the posts give stays.
LogOut(user) ==
  /\ On /\ session = user /\ session' = "none"
  /\ Push(Ending \o <<"users">>)
  /\ IF user = "me" THEN Interrupt ELSE UNCHANGED <<welcomeVars, vars>>
  /\ UNCHANGED <<muted, pollVars, stopping, due, sender, kind, told>>

\* login and facebook_connect, which may register the user too.
LogIn(user, events) ==
  /\ On /\ session = "none" /\ session' = user
  /\ Push(events) /\ sender' = user
  /\ IF user = "me" THEN UNCHANGED told ELSE Told(1)
  /\ UNCHANGED <<muted, pollVars, stopping, due, welcomeVars, vars, kind>>

Connect(user) == LogIn(user, <<"users">>) \/ LogIn(user, <<"users", "users">>)

\* A login that fails, and a registration (which logs out first, and logs in if it
\* succeeds), give the posts the name of what was tried: of a failure, the address.
Attempt ==
  /\ On /\ session = "none" /\ Told(1)
  /\ Push(<<"users">>) /\ sender' = "other"
  /\ UNCHANGED <<muted, pollVars, stopping, due, welcomeVars, vars, kind, session>>

\* ~State: the transactions are cleared, the user is logged out, and the reporter is
\* stopped.
Quit ==
  /\ Push(Ending \o IF session = "none" THEN << >> ELSE <<"users">>)
  /\ BeginStop /\ session' = "none" /\ Interrupt
  /\ UNCHANGED <<muted, pollVars, sender, kind, told>>

Leave == EndStop /\ UNCHANGED <<welcomeVars, vars, kind, session, told>>

Die ==
  /\ poll # "off"
  /\ Interrupt /\ Terminate
  /\ session' = "none" /\ UNCHANGED <<kind, told>>

Launch == StartPoll /\ UNCHANGED <<welcomeVars, vars, kind, session, told>>

RPolling == Polling /\ UNCHANGED <<welcomeVars, vars, kind, session, told>>
RFailedPost ==
  \E r \in Reporters : PostTransaction(r, FALSE) /\ UNCHANGED <<welcomeVars, vars, kind, session, told>>

-----------------------------------------------------------------------------
RInit ==
  /\ MetricsInit /\ OnboardingInit /\ Init
  /\ kind \in {"ghost", "onboarding"} /\ session = "me" /\ told = 0
  /\ kind = "ghost" => source
  /\ kind = "onboarding" => ~Archive /\ ~Mobile /\ ~Taken

RNext ==
  \/ RStep \/ RBroken \/ RRefused \/ RRestart \/ RUpload
  \/ RWelcome \/ RClicks
  \/ \E event \in UserEvents \union UiEvents : Use(event)
  \/ \E user \in {"me", "other"} : LogOut(user) \/ Connect(user)
  \/ Attempt
  \/ Quit \/ Leave \/ Die \/ Launch
  \/ RPolling \/ RFailedPost

\* The program runs, and its user comes back.
RSpec ==
  /\ RInit /\ [][RNext]_rvars
  /\ WF_rvars(RStep) /\ WF_rvars(RRestart) /\ WF_rvars(RWelcome)
  /\ WF_rvars(RPolling) /\ WF_rvars(Leave) /\ WF_rvars(Launch)
  /\ WF_rvars(Connect("me")) /\ WF_rvars(LogOut("other"))

-----------------------------------------------------------------------------
Pending == \E k \in 1..Len(queue) : queue[k] \in TransactionEvents

\* Whoever is logged in is whom the posts name, except that another user may be
\* logged in when the last of the first one are posted.
Signed == session # "none" => sender = session

ReporterSafe == QueueSafe /\ OnboardingTyped /\ Signed

\* A reporter that missed nothing and has nothing left to post has told last how
\* the transaction ended.  A failure it tells before the server knows; of what is
\* finished it tells when the server has answered, so a client that dies in between
\* tells when it comes back, unless it cannot end the archive again or is refused.
\* What it tells is true: the server has it, or of a failure will have it or would
\* not; and an onboarding that is said to be finished has its file.
LastWord ==
  \A r \in Reporters :
    ~muted /\ ~missed[r] /\ ~Pending =>
      /\ status = "failed" => seen[r] = "failed"
      /\ status = "finished" => seen[r] = "finished" \/ saved = "finish" \/ untold
      /\ stage = "over" /\ ~late => seen[r] = outcome
      /\ kind = "ghost" /\ seen[r] = "finished" => status = "finished"
      /\ kind = "ghost" /\ seen[r] = "failed" =>
           status = "failed" \/ saved = "fail" \/ untold
      /\ kind = "onboarding" /\ seen[r] = "finished" => copied

\* What is pushed is posted or lost with the process, a stop always ends, and an
\* onboarding that was accepted ends unless the peer is said to be away.
Concludes ==
  /\ queue # << >> ~> queue = << >>
  /\ stopping # "no" ~> poll = "off"
  /\ stage = "transfer" ~> stage # "transfer" \/ ~reachable
=============================================================================
