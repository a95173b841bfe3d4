------------------------------- MODULE Session -------------------------------
(***************************************************************************)
(* The life of a session of the client (State.cc): login and logout called *)
(* by the interface, the thread that logs in, the thread that waits to kick *)
(* the client out, the one that handles the notifications, the ones of the *)
(* trophonius client that connect again and resynchronize. Any of them but *)
(* the last two may log out, all under one mutex, and each is terminated by *)
(* the clean up of another. On the other side, meta, which may take the    *)
(* session away (invalidate_device, kickout).                              *)
(*                                                                         *)
(* Threads are cooperative: a step is what runs between two waits.         *)
(***************************************************************************)
EXTENDS UserCache

CONSTANTS MaxCalls,   \* bound on the calls of the interface
          MaxCuts,    \* bound on the losses of the connection
          MaxFailures,  \* bound on the temporary failures of the login
          MaxRefusals \* bound on the sessions taken away

Threads == {"gui", "login", "kicker", "poll", "link", "back"}
Leavers == {"gui", "kicker", "poll", "link"}
Free == "nobody"

VARIABLES session,   \* meta: the session of the client is valid
          listed,    \* meta: its device is among those of the user
          pulled,    \* meta: how far invalidate_device is: "no", "reached" when
                     \* the device was connected, "unreached"
          link,      \* trophonius::Client: "off", "dialing" (the first time),
                     \* "up", "down"
          wire,      \* the notifications received and not handled
          held,      \* _notifications is closed
          inMeta,    \* meta::Client::_logged_in
          loggedIn,  \* the barrier _logged_in
          loggedOut, \* the barrier _logged_out
          kicked,    \* the barrier _kick_out_barrier
          forbid,    \* the handler of Forbidden is set
          left,      \* history: the login that began last found _logged_in open
          mutex,     \* who holds _login_mutex
          pc,        \* where each thread is: "none" when there is no such thread
          goal,      \* what the interface called
          job,       \* the notification in the hands of the polling thread
          ans,       \* ans[t]: the answer of meta thread t waits to apply
          believes,  \* the interface takes the user to be logged in
          unnoticed, \* history: the session of a device that registered again was
                     \* taken by the invalidation of its former self
          calls, cuts, failures, refusals

server   == <<session, listed, pulled, refusals, unnoticed>>
network  == <<link, wire, held, cuts>>
barriers == <<loggedIn, loggedOut, kicked, forbid, left>>
hands    == <<job, ans>>
svars    == <<users, cache, server, network, barriers, hands, inMeta, mutex, pc, goal,
              believes, calls, failures>>

NoAnswer == <<>>

SInit == /\ CacheInit
         /\ session = FALSE /\ listed = FALSE /\ pulled = "no" /\ unnoticed = FALSE
         /\ link = "off" /\ wire = <<>> /\ held = TRUE
         /\ inMeta = FALSE /\ loggedIn = FALSE /\ loggedOut = TRUE
         /\ kicked = FALSE /\ forbid = FALSE /\ left = FALSE
         /\ mutex = Free /\ goal = "none" /\ job = <<>>
         /\ pc = [t \in Threads |-> IF t = "gui" THEN "idle" ELSE "none"]
         /\ ans = [t \in Threads |-> NoAnswer]
         /\ believes = FALSE
         /\ calls = 0 /\ cuts = 0 /\ failures = 0 /\ refusals = 0

Goto(t, l) == pc' = [pc EXCEPT ![t] = l]
Hold(t, a) == ans' = [ans EXCEPT ![t] = a]

-----------------------------------------------------------------------------
(***************************************************************************)
(* meta.                                                                   *)
(***************************************************************************)

Push(n) == wire' = IF link = "up" THEN Append(wire, n) ELSE wire

Tell(type, p) == /\ Push(Note(type, p))
                 /\ UNCHANGED <<cache, server, link, held, cuts, barriers, hands, inMeta,
                                mutex, pc, goal, believes, calls, failures>>

Changed == \E p \in Peers :
  \/ Befriend(p) /\ Tell("new", p)
  \/ users[p].friend /\ Register(p) /\ Tell("new", p)
  \/ users[p].friend /\ Flip(p) /\ Tell("status", p)
  \/ users[p].friend /\ Erase(p) /\ Tell("gone", p)
  \/ ~users[p].friend /\ (Register(p) \/ Flip(p))
     /\ UNCHANGED <<cache, server, network, barriers, hands, inMeta, mutex, pc, goal,
                    believes, calls, failures>>

Silence == UNCHANGED <<users, cache, link, held, cuts, barriers, hands, inMeta, mutex, pc,
                       goal, believes, calls, failures>>

\* invalidate_device: the device is taken from the list, and whether it is connected
\* is what that document says ... Refused in the middle of a first connection: the
\* thread that makes it would have to terminate itself.
PullDevice == /\ refusals < MaxRefusals
              /\ session /\ listed /\ pulled = "no" /\ link # "dialing"
              /\ listed' = FALSE
              /\ pulled' = IF link = "up" THEN "reached" ELSE "unreached"
              /\ refusals' = refusals + 1
              /\ UNCHANGED <<session, wire, unnoticed>> /\ Silence

\* ... then its session is removed, and it is told if it was connected.
RemoveSession == /\ pulled # "no" /\ link # "dialing"
                 /\ session' = FALSE /\ pulled' = "no"
                 /\ IF pulled = "reached" THEN Push([type |-> "invalid"])
                                          ELSE UNCHANGED wire
                 /\ unnoticed' = (unnoticed \/ (pulled = "unreached" /\ listed))
                 /\ UNCHANGED <<listed, refusals>> /\ Silence

\* kickout: all the sessions of the user are removed.
Kickout == /\ refusals < MaxRefusals
           /\ session /\ link # "dialing"
           /\ session' = FALSE /\ refusals' = refusals + 1
           /\ Push([type |-> "invalid"])
           /\ UNCHANGED <<listed, pulled, unnoticed>> /\ Silence

\* Faulty: it does not.
ForbiddenIgnored == kicked' = kicked

\* A request meta refuses opens the barrier of the kicker.
Forbidden == kicked' = (kicked \/ forbid)

\* A session that is opened puts the device on the list again.
CreateDevice(opened) == listed' = (listed \/ opened)

-----------------------------------------------------------------------------
(***************************************************************************)
(* The clean up: every thread but the one that cleans is terminated, the   *)
(* connection is closed, the users and the transactions are forgotten.     *)
(***************************************************************************)

\* Faulty: the thread that resynchronizes survives.
KilledButBack == {"poll", "kicker", "link"}

Killed == {"poll", "kicker", "link", "back"}

Cleanup(t, next) ==
  /\ pc' = [u \in Threads |-> IF u = t THEN next
                              ELSE IF u \in Killed THEN "none" ELSE pc[u]]
  /\ link' = "off" /\ wire' = <<>> /\ held' = TRUE
  /\ ans' = [u \in Threads |-> IF u \in Killed THEN NoAnswer ELSE ans[u]]
  /\ job' = <<>>
  /\ Clear
  /\ UNCHANGED cuts

-----------------------------------------------------------------------------
(***************************************************************************)
(* State::logout, run by thread t.                                         *)
(***************************************************************************)

\* The thread that logs in is terminated: at once when it waits, else once it has
\* told meta; then the handler of Forbidden is removed.
Terminate(t) ==
  /\ pc[t] = "leave" /\ pc["login"] \in {"lock", "sleep", "meta"}
  /\ Goto("login", "none")
  /\ mutex' = IF mutex = "login" THEN Free ELSE mutex
  /\ session' \in (IF pc["login"] = "meta" THEN {session, TRUE} ELSE {session})
  /\ CreateDevice(session' # session)
  /\ UNCHANGED <<users, cache, pulled, refusals, unnoticed, network, barriers, hands,
                 inMeta, goal, believes, calls, failures>>

Interrupt(t) ==
  /\ pc[t] = "leave" /\ pc["login"] \in {"connect", "sync", "resync"}
  /\ Goto("login", "undo")
  /\ UNCHANGED <<users, cache, server, network, barriers, hands, inMeta, mutex, goal,
                 believes, calls, failures>>

Unforbid(t) ==
  /\ pc[t] = "leave" /\ pc["login"] = "none"
  /\ Goto(t, "lock") /\ forbid' = FALSE
  /\ UNCHANGED <<users, cache, server, network, loggedIn, loggedOut, kicked, left, hands,
                 inMeta, mutex, goal, believes, calls, failures>>

\* The mutex is taken and the state cleaned; one who is not logged in is done.
Leave(t) ==
  /\ t # "login" /\ pc[t] = "lock" /\ mutex = Free
  /\ mutex' = IF inMeta THEN t ELSE Free
  /\ Cleanup(t, IF inMeta THEN "bye" ELSE "done")
  /\ loggedIn' = FALSE /\ loggedOut' = (loggedOut \/ ~inMeta)
  /\ UNCHANGED <<users, server, kicked, forbid, left, inMeta, goal, believes, calls, failures>>

\* meta is told, for ten seconds at most.
Goodbye(t) ==
  /\ pc[t] = "bye" /\ Goto(t, "gone")
  /\ session' \in {session, FALSE} /\ inMeta' = FALSE
  /\ UNCHANGED <<users, cache, listed, pulled, refusals, unnoticed, network, barriers,
                 hands, mutex, goal, believes, calls, failures>>

Gone(t) ==
  /\ pc[t] = "gone" /\ Goto(t, "done")
  /\ loggedOut' = TRUE /\ mutex' = Free
  /\ UNCHANGED <<users, cache, server, network, loggedIn, kicked, forbid, left, hands, inMeta,
                 goal, believes, calls, failures>>

\* Login goes on, the polling thread waits for a notification again, the others end.
Then(t) == CASE t = "gui" /\ goal = "login"  -> "start"
             [] t = "gui" /\ goal = "logout" -> "idle"
             [] t = "poll"                   -> "watch"
             [] t \in {"kicker", "link"}     -> "none"

\* Faulty: the interface is not told.
DoneQuiet(t) ==
  /\ pc[t] = "done" /\ Goto(t, Then(t))
  /\ believes' = IF t = "gui" THEN FALSE ELSE believes
  /\ UNCHANGED <<users, cache, server, network, barriers, hands, inMeta, mutex, goal,
                 calls, failures>>

\* _kick_out and the lost connection tell the interface.
Done(t) ==
  /\ pc[t] = "done" /\ Goto(t, Then(t))
  /\ believes' = FALSE
  /\ UNCHANGED <<users, cache, server, network, barriers, hands, inMeta, mutex, goal,
                 calls, failures>>

Logout == \E t \in Leavers : \/ Terminate(t) \/ Interrupt(t) \/ Unforbid(t) \/ Leave(t)
                             \/ Goodbye(t) \/ Gone(t) \/ Done(t)

-----------------------------------------------------------------------------
(***************************************************************************)
(* The interface.                                                          *)
(***************************************************************************)

Calling(name) == /\ pc["gui"] = "idle" /\ calls < MaxCalls
                 /\ calls' = calls + 1 /\ goal' = name

\* login: a client that is logged in logs out first. There is no second call while a
\* thread of the first still logs in: it would destroy that thread.
CallLogin == /\ Calling("login") /\ pc["login"] = "none"
             /\ Goto("gui", IF inMeta THEN "leave" ELSE "start")
             /\ UNCHANGED <<users, cache, server, network, barriers, hands, inMeta, mutex,
                            believes, failures>>

CallLogout == /\ Calling("logout") /\ Goto("gui", "leave")
              /\ UNCHANGED <<users, cache, server, network, barriers, hands, inMeta, mutex,
                             believes, failures>>

\* users_search: the answer is put in the cache when it comes.
CallSearch == /\ inMeta /\ Calling("search")
              /\ IF session THEN Goto("gui", "search") /\ Hold("gui", users)
                            ELSE Goto("gui", "idle") /\ UNCHANGED ans
              /\ kicked' = (kicked \/ (~session /\ forbid))
              /\ UNCHANGED <<users, cache, server, network, loggedIn, loggedOut, forbid, left,
                             job, inMeta, mutex, believes, failures>>

Found == /\ pc["gui"] = "search" /\ Goto("gui", "idle")
         /\ \E p \in Peers : UserSync(p, ans["gui"], FALSE)
         /\ Hold("gui", NoAnswer)
         /\ UNCHANGED <<users, server, network, barriers, job, inMeta, mutex, goal,
                        believes, calls, failures>>

Start == /\ pc["gui"] = "start"
         /\ loggedOut' = FALSE
         /\ pc' = [pc EXCEPT !["gui"] = "wait", !["login"] = "lock"]
         /\ UNCHANGED <<users, cache, server, network, loggedIn, kicked, forbid, left, hands,
                        inMeta, mutex, goal, believes, calls, failures>>

\* Either barrier ends the call; it is the answer of meta that says which way.
Return == /\ pc["gui"] = "wait" /\ (loggedIn \/ loggedOut)
          /\ Goto("gui", "idle")
          /\ believes' = inMeta
          /\ UNCHANGED <<users, cache, server, network, barriers, hands, inMeta, mutex,
                         goal, calls, failures>>

Interface == CallLogin \/ CallLogout \/ CallSearch \/ Found \/ Start \/ Return

-----------------------------------------------------------------------------
(***************************************************************************)
(* State::_login.                                                          *)
(***************************************************************************)

Retry == Goto("login", "sleep") /\ mutex' = Free

\* A client that meta still has (it refused its log out) may not log in.
BeginLogin == /\ pc["login"] = "lock" /\ mutex = Free
              /\ IF inMeta
                 THEN Retry /\ UNCHANGED <<cache, network, hands, left>>
                 ELSE mutex' = "login" /\ Cleanup("login", "meta") /\ left' = loggedIn
              /\ UNCHANGED <<users, server, loggedIn, loggedOut, kicked, forbid, inMeta, goal,
                             believes, calls, failures>>

\* The kicker is started, then the connection.
Accepted == /\ pc["login"] = "meta"
            /\ pc' = [pc EXCEPT !["login"] = "connect", !["kicker"] = "watch"]
            /\ session' = TRUE /\ CreateDevice(TRUE) /\ inMeta' = TRUE /\ forbid' = TRUE
            /\ link' = "dialing" /\ wire' = <<>> /\ held' = FALSE /\ unnoticed' = FALSE
            /\ UNCHANGED <<users, cache, pulled, refusals, cuts, loggedIn, loggedOut, kicked, left,
                           hands, mutex, goal, believes, calls, failures>>

\* Faulty: the refused call is left waiting.
RefusedQuiet == /\ pc["login"] = "meta"
                /\ Goto("login", "none") /\ mutex' = Free
                /\ UNCHANGED <<users, cache, server, network, barriers, hands, inMeta, goal,
                               believes, calls, failures>>

\* Wrong credentials: the login is over.
Refused == /\ pc["login"] = "meta"
           /\ Goto("login", "none") /\ mutex' = Free
           /\ loggedOut' = TRUE /\ believes' = FALSE
           /\ UNCHANGED <<users, cache, server, network, loggedIn, kicked, forbid, left, hands,
                          inMeta, goal, calls, failures>>

\* Anything else is tried again, though meta may have opened the session.
Failed == /\ pc["login"] = "meta" /\ failures < MaxFailures
          /\ failures' = failures + 1
          /\ Retry
          /\ session' \in {session, TRUE} /\ CreateDevice(session' # session)
          /\ UNCHANGED <<users, cache, pulled, refusals, unnoticed, network, barriers, hands,
                         inMeta, goal, believes, calls>>

Again == /\ pc["login"] = "sleep" /\ Goto("login", "lock")
         /\ UNCHANGED <<users, cache, server, network, barriers, hands, inMeta, mutex, goal,
                        believes, calls, failures>>

Connected == /\ pc["login"] = "connect" /\ session /\ listed
             /\ Goto("login", "sync") /\ link' = "up"
             /\ UNCHANGED <<users, cache, server, wire, held, cuts, barriers, hands, inMeta,
                            mutex, goal, believes, calls, failures>>

\* synchronize(true): without its device the request fails, and is repeated; without
\* the session it is forbidden, and so is the log out that follows.
Synchronize == /\ pc["login"] = "sync" /\ (session => listed)
               /\ IF session
                  THEN Goto("login", "resync") /\ Hold("login", users)
                       /\ UNCHANGED <<kicked, mutex>>
                  ELSE Retry /\ Forbidden /\ UNCHANGED ans
               /\ UNCHANGED <<users, cache, server, network, loggedIn, loggedOut, forbid, left,
                              job, inMeta, goal, believes, calls, failures>>

\* Users, transactions, the thread that handles the notifications, the barrier.
LoggedIn == /\ pc["login"] = "resync"
            /\ Resync(ans["login"], TRUE)
            /\ pc' = [pc EXCEPT !["login"] = "none", !["poll"] = "watch"]
            /\ Hold("login", NoAnswer)
            /\ loggedIn' = TRUE /\ believes' = TRUE /\ mutex' = Free
            /\ UNCHANGED <<users, server, network, loggedOut, kicked, forbid, left, job, inMeta,
                           goal, calls, failures>>

\* The thread is terminated: a session that still is one is closed, and the interface
\* hears nothing of it.
Undo == /\ pc["login"] = "undo"
        /\ Goto("login", "none") /\ mutex' = Free /\ Hold("login", NoAnswer)
        /\ session' = FALSE /\ inMeta' = (inMeta /\ ~session)
        /\ kicked' = (kicked \/ (~session /\ forbid))
        /\ UNCHANGED <<users, cache, listed, pulled, refusals, unnoticed, network, loggedIn,
                       loggedOut, forbid, left, job, goal, believes, calls, failures>>

Login == \/ BeginLogin \/ Accepted \/ Refused \/ Failed \/ Again
         \/ Connected \/ Synchronize \/ LoggedIn \/ Undo

-----------------------------------------------------------------------------
(***************************************************************************)
(* The kicker and the polling thread.                                      *)
(***************************************************************************)

\* The barrier is never closed again: once opened it kicks out every later session.
Kick == /\ pc["kicker"] = "watch" /\ kicked
        /\ Goto("kicker", "leave")
        /\ UNCHANGED <<users, cache, server, network, barriers, hands, inMeta, mutex, goal,
                       believes, calls, failures>>

\* The next notification: told that its credentials are invalid the client logs out;
\* one that needs a user of meta waits for him.
Handle ==
  /\ pc["poll"] = "watch" /\ ~held /\ wire # <<>>
  /\ wire' = Tail(wire)
  /\ LET n == Head(wire) IN
       \/ /\ n.type = "invalid" /\ Goto("poll", "leave")
          /\ UNCHANGED <<cache, hands>>
       \/ /\ n.type # "invalid" /\ MustFetch(n)
          /\ Goto("poll", "apply") /\ job' = n /\ Hold("poll", users)
          /\ UNCHANGED cache
       \/ /\ n.type # "invalid" /\ ~MustFetch(n)
          /\ StatusUpdate(n)
          /\ UNCHANGED <<pc, hands>>
  /\ UNCHANGED <<users, server, link, held, cuts, barriers, inMeta, mutex, goal, believes,
                 calls, failures>>

Fetched ==
  /\ pc["poll"] = "apply" /\ Goto("poll", "watch")
  /\ CASE job.type = "status" -> StatusFetched(job, ans["poll"])
       [] job.type = "new"    -> NewSwagger(job, ans["poll"])
       [] job.type = "gone"   -> DeletedSwagger(job, ans["poll"])
  /\ job' = <<>> /\ Hold("poll", NoAnswer)
  /\ UNCHANGED <<users, server, network, barriers, inMeta, mutex, goal, believes, calls,
                 failures>>

Poll == Handle \/ Fetched

-----------------------------------------------------------------------------
(***************************************************************************)
(* The connection to trophonius, once it was made.                         *)
(***************************************************************************)

Cut == /\ link = "up" /\ cuts < MaxCuts
       /\ cuts' = cuts + 1
       /\ link' = "down" /\ wire' = <<>> /\ held' = TRUE
       /\ loggedIn' = FALSE
       /\ pc' = [pc EXCEPT !["link"] = "dial", !["back"] = "none"]
       /\ Hold("back", NoAnswer)
       /\ UNCHANGED <<users, cache, server, loggedOut, kicked, forbid, left, job, inMeta, mutex,
                      goal, believes, calls, failures>>

Redial == /\ pc["link"] = "dial" /\ session /\ listed
          /\ link' = "up"
          /\ pc' = [pc EXCEPT !["link"] = "none", !["back"] = "reset"]
          /\ UNCHANGED <<users, cache, server, wire, held, cuts, barriers, hands, inMeta,
                         mutex, goal, believes, calls, failures>>

\* trophonius refuses, for good.
RedialRefused == /\ pc["link"] = "dial" /\ ~(session /\ listed)
                 /\ Goto("link", "leave") /\ loggedIn' = FALSE
                 /\ UNCHANGED <<users, cache, server, network, loggedOut, kicked, forbid, left,
                                hands, inMeta, mutex, goal, believes, calls, failures>>

\* on_connection_changed: one who is not logged in only opens the channel; the others
\* start their transfers again and synchronize.
Reconnected == /\ pc["back"] = "reset"
               /\ IF inMeta THEN Goto("back", "ask") /\ Reset /\ UNCHANGED held
                            ELSE Goto("back", "none") /\ held' = FALSE /\ UNCHANGED cache
               /\ UNCHANGED <<users, server, link, wire, cuts, barriers, hands, inMeta,
                              mutex, goal, believes, calls, failures>>

\* Forbidden, the thread dies of it and the channel stays closed.
AskAgain == /\ pc["back"] = "ask" /\ (session => listed)
            /\ IF session
               THEN Goto("back", "resync") /\ Hold("back", users) /\ UNCHANGED kicked
               ELSE Goto("back", "none") /\ Forbidden /\ UNCHANGED ans
            /\ UNCHANGED <<users, cache, server, network, loggedIn, loggedOut, forbid, left, job,
                           inMeta, mutex, goal, believes, calls, failures>>

Resynchronized == /\ pc["back"] = "resync" /\ Goto("back", "none")
                  /\ Resync(ans["back"], FALSE)
                  /\ Hold("back", NoAnswer)
                  /\ loggedIn' = TRUE /\ held' = FALSE
                  /\ believes' = TRUE
                  /\ UNCHANGED <<users, server, link, wire, cuts, loggedOut, kicked, forbid, left,
                                 job, inMeta, mutex, goal, calls, failures>>

Reconnect == Redial \/ RedialRefused
Back      == Reconnected \/ AskAgain \/ Resynchronized

-----------------------------------------------------------------------------
SNext == \/ Changed \/ PullDevice \/ RemoveSession \/ Kickout \/ Logout \/ Interface \/ Login
         \/ Kick \/ Poll \/ Cut \/ Reconnect \/ Back

\* Every thread runs until it waits, and what it waits for of meta comes: a request is
\* repeated until it is answered, and what meta began it ends. Nothing obliges the
\* interface to call, nor the users to change.
SSpec == /\ SInit /\ [][SNext]_svars
         /\ WF_svars(Login) /\ WF_svars(Kick) /\ WF_svars(Poll)
         /\ WF_svars(Reconnect) /\ WF_svars(Back)
         /\ WF_svars(Found \/ Start \/ Return) /\ WF_svars(RemoveSession)
         /\ \A t \in Leavers :
              WF_svars(\/ Terminate(t) \/ Interrupt(t) \/ Unforbid(t) \/ Leave(t)
                      \/ Goodbye(t) \/ Gone(t) \/ Done(t))

-----------------------------------------------------------------------------
Leaving == \E t \in Leavers : pc[t] \in {"leave", "lock", "bye", "gone", "done"}

\* A client that is not logged in, and does nothing about it, has kept nothing of its
\* last session: no connection, no thread that would handle a notification or apply a
\* synchronization, no swagger, and the barrier that lets requests go is closed, unless
\* the login that began last found it open: only a log out and a lost connection close
\* it, and a login that follows one undone behind a reconnection may outrun both.
Emptied == ~inMeta /\ pc["login"] = "none" /\ ~Leaving =>
             /\ link = "off" /\ wire = <<>> /\ (loggedIn => left)
             /\ pc["link"] = "none" /\ pc["back"] = "none"
             /\ pc["poll"] = "none" \/ held
             /\ index = {}

\* The interface does not take a client for logged in that was kicked out, whatever
\* thread noticed: the kicker, a notification, or the connection that was refused.
GuiTold == believes /\ pc["gui"] = "idle" /\ pc["login"] = "none" /\ ~Leaving => inMeta

AtRest == /\ inMeta /\ session /\ loggedIn /\ link = "up" /\ wire = <<>> /\ ~held
          /\ pc["login"] = "none" /\ pc["poll"] = "watch" /\ pc["back"] = "none"
          /\ pc["gui"] = "idle" /\ ~Leaving

\* Whatever was lost with a connection, a client that is connected again and has
\* nothing left to handle knows its swaggers as meta does, and so do its transfers.
SwaggersKnown == AtRest => \A p \in Peers : Agrees(p)

\* A call of the interface returns: no logout waits for ever for the thread that logs
\* in, nor a login for a barrier nobody opens.
CallEnds == pc["gui"] # "idle" ~> pc["gui"] = "idle"

\* A client whose session meta took away learns it, by the notification, at the
\* synchronization or when it connects again, and leaves (or has logged in again);
\* not the one that registered its device while the former was being invalidated.
KickedOut == inMeta /\ ~session /\ ~unnoticed ~> ~inMeta \/ session
=============================================================================
