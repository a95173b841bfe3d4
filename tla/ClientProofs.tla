---------------------------- MODULE ClientProofs ----------------------------
(***************************************************************************)
(* Proofs about the clients, whatever the order of what happens to them:   *)
(* about Session, for any number of logins, losses of the connection,      *)
(* failures and sessions taken away; then about Rendezvous, for any number *)
(* of faults of either device and of requests to pause.                    *)
(***************************************************************************)
EXTENDS Session, Rendezvous, SequenceTheorems, WellFoundedInduction, TLAPS

-----------------------------------------------------------------------------
(***************************************************************************)
(* Session.                                                                *)
(***************************************************************************)

(***************************************************************************)
(* The inductive invariant: where the threads are.                         *)
(***************************************************************************)

Going  == {"leave", "lock"}
Closed == {"bye", "gone"}
Exits  == Going \union Closed \union {"done"}
Beyond == {"connect", "sync", "resync", "undo"}

Located == /\ DOMAIN pc = Threads
           /\ pc["gui"] \in {"idle", "start", "wait", "search"} \union Exits
           /\ pc["login"] \in {"none", "lock", "sleep", "meta"} \union Beyond
           /\ pc["kicker"] \in {"none", "watch"} \union Exits
           /\ pc["poll"] \in {"none", "watch", "apply"} \union Exits
           /\ pc["link"] \in {"none", "dial"} \union Exits
           /\ pc["back"] \in {"none", "reset", "ask", "resync"}
           /\ pc["gui"] \in Exits => goal \in {"login", "logout"}

\* Who holds the mutex.
Mutex == /\ mutex = "login" <=> pc["login"] \in {"meta"} \union Beyond
         /\ \A t \in Leavers : mutex = t <=> pc[t] \in Closed

\* Which threads the state of the connection lets run.
Line == /\ link = "down" <=> pc["link"] \in {"dial"} \union Going
        /\ pc["link"] \in Closed \union {"done"} => link = "off"
        /\ link = "down" => held
        /\ pc["back"] # "none" => link = "up" /\ held
        /\ pc["login"] = "meta" => link = "off"
        /\ pc["login"] = "connect" => link = "dialing"
        /\ wire # <<>> => link = "up"

\* Which threads the login lets run.
Alone == /\ pc["login"] = "meta" => \A t \in Killed : pc[t] = "none"
         /\ pc["login"] = "connect" => pc["back"] = "none"
         /\ pc["login"] \in Beyond => inMeta /\ pc["poll"] = "none"
         /\ pc["login"] = "undo" => \E t \in Leavers : pc[t] = "leave"
         /\ pc["gui"] \in {"start", "lock", "done"} \union Closed => pc["login"] = "none"
         /\ \A t \in Leavers : pc[t] = "gone" => ~inMeta
         /\ pc["poll"] = "done" => ~inMeta

\* What a clean up leaves.
Clean == /\ link = "off" /\ wire = <<>> /\ (loggedIn => left)
         /\ pc["link"] \in {"none", "done"} \union Closed /\ pc["back"] = "none"
         /\ pc["poll"] # "apply" /\ (pc["poll"] = "none" \/ held)
         /\ index = {}

\* Who is not logged in has been cleaned, or will be.
Cleaned == /\ ~inMeta => Clean \/ \E t \in Leavers : pc[t] \in Going
           /\ \A t \in Leavers : pc[t] \in Closed => Clean

\* The interface will be told.
Telling == believes /\ ~inMeta => Leaving \/ pc["login"] \in {"lock", "sleep", "meta"}

Control == Located /\ Mutex /\ Line /\ Alone /\ Cleaned /\ Telling

\* The invariant implies the two properties.
LEMMA ControlEnough == Control => Emptied /\ GuiTold
<1> SUFFICES ASSUME Control PROVE Emptied /\ GuiTold
  OBVIOUS
<1>1. Emptied
  <2> SUFFICES ASSUME ~inMeta, ~Leaving
               PROVE  Clean /\ pc["link"] = "none"
    BY DEF Emptied, Clean
  <2>1. Clean
    BY DEF Control, Cleaned, Leaving, Going
  <2> QED
    BY <2>1 DEF Clean, Leaving, Closed, Leavers
<1>2. GuiTold
  BY DEF GuiTold, Control, Telling
<1> QED
  BY <1>1, <1>2

\* At the beginning there is nothing.
LEMMA ControlInit == SInit => Control
  BY DEF SInit, CacheInit, Control, Located, Mutex, Line, Alone, Cleaned, Telling, Clean,
     Threads, Leavers, Killed, Free, Exits, Going, Closed, Beyond

-----------------------------------------------------------------------------
(***************************************************************************)
(* The steps of meta and of the interface.                                 *)
(***************************************************************************)

\* What most steps of others leave alone.
Still == UNCHANGED <<pc, goal, mutex, link, held, inMeta, loggedIn, left, believes, index>>

\* A notification that is pushed, and nothing else, changes nothing here.
LEMMA StillKeeps ==
  ASSUME Control, Still, wire' # <<>> => wire # <<>> \/ link = "up"
  PROVE  Control'
<1> USE DEF Control, Still
<1>1. Located'
  BY DEF Located
<1>2. Mutex'
  BY DEF Mutex
<1>3. Line'
  BY DEF Line
<1>4. Alone'
  BY DEF Alone
<1>5. Clean => Clean'
  BY DEF Clean, Line
<1>6. Cleaned'
  BY <1>5 DEF Cleaned
<1>7. Telling'
  BY DEF Telling, Leaving
<1> QED
  BY <1>1, <1>2, <1>3, <1>4, <1>6, <1>7

-----------------------------------------------------------------------------
(***************************************************************************)
(* Every other step keeps the threads in their places.                     *)
(***************************************************************************)

\* Cut ends two threads at once.
LEMMA CutControl == ASSUME Control, Cut PROVE Control'
<1> USE DEF Control, Cut, Hold, cache, server, network, barriers, hands, Threads, Leavers,
        Killed, Free, Exits, Going, Closed, Beyond, Located
<1>1. Located' /\ Line'
  BY DEF Line
<1>2. Mutex'
  BY DEF Mutex, Line
<1>3. Alone'
  <2>1. ASSUME pc'["login"] = "undo" PROVE \E t \in Leavers : pc'[t] = "leave"
    <3>1. PICK t \in Leavers : pc[t] = "leave"
      BY <2>1 DEF Alone
    <3>2. t # "link"
      BY <3>1 DEF Line
    <3> QED
      BY <3>1, <3>2
  <2> QED
    BY <2>1 DEF Alone, Line
<1>4. Cleaned'
  <2>1. ~Clean
    BY DEF Clean
  <2>2. ASSUME ~inMeta PROVE \E t \in Leavers : pc'[t] \in Going
    <3>1. PICK t \in Leavers : pc[t] \in Going
      BY <2>1, <2>2 DEF Cleaned
    <3>2. t # "link"
      BY <3>1 DEF Line
    <3> QED
      BY <3>1, <3>2
  <2> QED
    BY <2>1, <2>2 DEF Cleaned, Line
<1>5. Telling'
  BY DEF Telling, Leaving, Line
<1> QED
  BY <1>1, <1>2, <1>3, <1>4, <1>5

\* Reconnected opens the channel for one who is not logged in.
LEMMA ReconnectedControl == ASSUME Control, Reconnected PROVE Control'
<1>1. UNCHANGED <<goal, mutex, link, inMeta, loggedIn, left, believes, index, wire>>
  BY DEF Reconnected, Reset, cache, server, barriers
<1>2. /\ pc["back"] = "reset" /\ pc' = [pc EXCEPT !["back"] = IF inMeta THEN "ask" ELSE "none"]
      /\ held' = (inMeta /\ held)
  BY DEF Reconnected, Goto, Control, Line
<1> USE <1>1, <1>2 DEF Control, Threads, Leavers, Killed, Free, Exits, Going, Closed, Beyond,
        Located
<1>3. Located'
  OBVIOUS
<1>4. Mutex' /\ Line'
  <2>1. Mutex'
    BY DEF Mutex
  <2>2. Line'
    BY DEF Line
  <2> QED
    BY <2>1, <2>2
<1>5. Alone'
  BY DEF Alone
<1>6. Cleaned'
  BY DEF Cleaned, Clean
<1>7. Telling'
  BY DEF Telling, Leaving
<1> QED
  BY <1>3, <1>4, <1>5, <1>6, <1>7

\* What the client does.
LEMMA ControlStep ==
  ASSUME Control, Logout \/ Interface \/ Login \/ Kick \/ Poll \/ Cut \/ Reconnect \/ Back
  PROVE  Control'
<1> USE DEF Control, Goto, Hold, cache, server, network, barriers, hands, Threads, Leavers,
        Killed, Free, Exits, Going, Closed, Beyond, Telling, Leaving, Located, Mutex, Line,
        Alone, Cleaned, Clean
<1>1. ASSUME NEW t \in Leavers, Terminate(t) PROVE Control'
  BY <1>1 DEF Terminate, CreateDevice
<1>2. ASSUME NEW t \in Leavers, Interrupt(t) PROVE Control'
  BY <1>2 DEF Interrupt
<1>3. ASSUME NEW t \in Leavers, Unforbid(t) PROVE Control'
  BY <1>3 DEF Unforbid
<1>4. ASSUME NEW t \in Leavers, Leave(t) PROVE Control'
  BY <1>4 DEF Leave, Cleanup, Clear
<1>5. ASSUME NEW t \in Leavers, Goodbye(t) PROVE Control'
  BY <1>5 DEF Goodbye
<1>6. ASSUME NEW t \in Leavers, Gone(t) PROVE Control'
  BY <1>6 DEF Gone
<1>7. ASSUME NEW t \in Leavers, Done(t) PROVE Control'
  BY <1>7 DEF Done, Then
<1>8. CASE CallLogin
  BY <1>8 DEF CallLogin, Calling
<1>9. CASE CallLogout
  BY <1>9 DEF CallLogout, Calling
<1>10. CASE CallSearch
  BY <1>10 DEF CallSearch, Calling
<1>11. CASE Found
  BY <1>11 DEF Found, UserSync
<1>12. CASE Start
  BY <1>12 DEF Start
<1>13. CASE Return
  BY <1>13 DEF Return
<1>14. CASE BeginLogin
  BY <1>14 DEF BeginLogin, Retry, Cleanup, Clear
<1>15. CASE Accepted
  BY <1>15 DEF Accepted
<1>16. CASE Refused
  BY <1>16 DEF Refused
<1>17. CASE Failed
  BY <1>17 DEF Failed, Retry
<1>18. CASE Again
  BY <1>18 DEF Again
<1>19. CASE Connected
  BY <1>19 DEF Connected
<1>20. CASE Synchronize
  BY <1>20 DEF Synchronize, Retry
<1>21. CASE LoggedIn
  BY <1>21 DEF LoggedIn, Resync
<1>22. CASE Undo
  BY <1>22 DEF Undo
<1>23. CASE Kick
  BY <1>23 DEF Kick
<1>24. CASE Handle
  BY <1>24 DEF Handle, StatusUpdate
<1>25. CASE Fetched
  BY <1>25 DEF Fetched, StatusFetched, NewSwagger, DeletedSwagger, UserSync
<1>26. CASE Redial
  BY <1>26 DEF Redial
<1>27. CASE RedialRefused
  BY <1>27 DEF RedialRefused
<1>28. CASE AskAgain
  BY <1>28 DEF AskAgain
<1>29. CASE Resynchronized
  BY <1>29 DEF Resynchronized, Resync
<1> QED
  BY <1>1, <1>2, <1>3, <1>4, <1>5, <1>6, <1>7, <1>8, <1>9, <1>10, <1>11, <1>12, <1>13,
     <1>14, <1>15, <1>16, <1>17, <1>18, <1>19, <1>20, <1>21, <1>22, <1>23, <1>24, <1>25,
     <1>26, <1>27, <1>28, <1>29, CutControl, ReconnectedControl
     DEF Logout, Interface, Login, Poll, Reconnect, Back

\* What meta does.
LEMMA ControlMeta ==
  ASSUME Control, Changed \/ PullDevice \/ RemoveSession \/ Kickout \/ UNCHANGED svars
  PROVE  Control'
<1>1. Still /\ (wire' # <<>> => wire # <<>> \/ link = "up")
  BY DEF Changed, Tell, Push, PullDevice, RemoveSession, Kickout, Silence, Still, svars, cache,
     server, network, barriers, hands
<1> QED
  BY <1>1, StillKeeps

LEMMA ControlNext == ASSUME Control, [SNext]_svars PROVE Control'
  BY ControlStep, ControlMeta DEF SNext

\* A client that is not logged in, and does nothing about it, has kept nothing of its
\* last session: no connection, no thread of it that could apply anything, no swagger
\* (State::_cleanup, under _login_mutex).
THEOREM NothingKept == SSpec => []Emptied
<1>1. Control => Emptied
  BY ControlEnough
<1> QED
  BY <1>1, ControlInit, ControlNext, PTL DEF SSpec

\* The interface does not take a client for logged in that was kicked out, whichever
\* thread noticed (State::_kick_out, logout, on_connection_changed).
THEOREM InterfaceTold == SSpec => []GuiTold
<1>1. Control => GuiTold
  BY ControlEnough
<1> QED
  BY <1>1, ControlInit, ControlNext, PTL DEF SSpec

-----------------------------------------------------------------------------
(***************************************************************************)
(* The types of what is known of the users.                                *)
(***************************************************************************)

Docs == [state : {"ghost", "ok", "deleted"}, friend : BOOLEAN, up : BOOLEAN, rev : Nat]
Notes == [type : {"new", "status", "gone"}, peer : Peers, up : BOOLEAN, rev : Nat]
Invalid == [type |-> "invalid"]

\* The notifications of a wire, and the threads that have an answer to apply.
In(w) == {w[i] : i \in DOMAIN w}
Waiting == {t \in Threads : pc[t] \in {"apply", "resync", "search"}}

TypedCache == /\ DOMAIN known \subseteq Peers
              /\ \A p \in DOMAIN known : known[p] \in [ghost : BOOLEAN, up : BOOLEAN]
              /\ told \in [Peers -> BOOLEAN]
              /\ newest \in [Peers -> Nat]

STyped == /\ users \in [Peers -> Docs] /\ TypedCache
          /\ DOMAIN ans = Threads
          /\ \A t \in Waiting : ans[t] \in [Peers -> Docs]
          /\ wire \in Seq(Notes \union {Invalid})
          /\ pc["poll"] = "apply" => job \in Notes

\* What a wire holds once one is added, or taken.
LEMMA InAppend ==
  ASSUME NEW S, NEW w \in Seq(S), NEW n \in S
  PROVE  Append(w, n) \in Seq(S) /\ In(Append(w, n)) = In(w) \union {n}
<1>1. /\ Append(w, n) \in Seq(S) /\ DOMAIN Append(w, n) = 1..(Len(w) + 1)
      /\ DOMAIN w = 1..Len(w) /\ Len(w) \in Nat
      /\ \A i \in 1..Len(w) : Append(w, n)[i] = w[i]
      /\ Append(w, n)[Len(w) + 1] = n
  BY AppendProperties
<1>2. 1..(Len(w) + 1) = (1..Len(w)) \union {Len(w) + 1}
  BY <1>1
<1> QED
  BY <1>1, <1>2 DEF In

LEMMA InTail ==
  ASSUME NEW S, NEW w \in Seq(S), w # <<>>
  PROVE  /\ Tail(w) \in Seq(S) /\ Head(w) \in S
         /\ In(w) = {Head(w)} \union In(Tail(w))
<1>1. /\ Tail(w) \in Seq(S) /\ Head(w) \in S /\ Head(w) = w[1]
      /\ Len(w) \in Nat \ {0} /\ Len(Tail(w)) = Len(w) - 1
      /\ \A i \in 1..Len(Tail(w)) : Tail(w)[i] = w[i + 1]
      /\ DOMAIN w = 1..Len(w) /\ DOMAIN Tail(w) = 1..Len(Tail(w))
  BY HeadTailProperties, EmptySeq, LenProperties
<1>2. ASSUME NEW i \in DOMAIN w, i # 1
      PROVE  i - 1 \in DOMAIN Tail(w) /\ Tail(w)[i - 1] = w[i]
  BY <1>1, <1>2
<1>3. ASSUME NEW i \in DOMAIN Tail(w)
      PROVE  i + 1 \in DOMAIN w /\ Tail(w)[i] = w[i + 1]
  BY <1>1, <1>3
<1>4. In(w) \subseteq {Head(w)} \union In(Tail(w))
  BY <1>1, <1>2 DEF In
<1>5. {Head(w)} \union In(Tail(w)) \subseteq In(w)
  BY <1>1, <1>3 DEF In
<1> QED
  BY <1>1, <1>4, <1>5

LEMMA InNone == In(<<>>) = {}
  BY DEF In

\* The later of two revisions.
LEMMA MaxFact ==
  ASSUME NEW a \in Nat, NEW b \in Nat
  PROVE  Max({a, b}) = IF a >= b THEN a ELSE b
<1>1. \A x \in {a, b} : (\A y \in {a, b} : x >= y) => x = IF a >= b THEN a ELSE b
  OBVIOUS
<1>2. \E x \in {a, b} : \A y \in {a, b} : x >= y
  OBVIOUS
<1> QED
  BY <1>1, <1>2 DEF Max

-----------------------------------------------------------------------------
(***************************************************************************)
(* The cache. Documents get older: what is applied was so once.            *)
(***************************************************************************)

Older(d, e) == /\ d.rev <= e.rev
               /\ d.rev = e.rev => d = e
               /\ d.friend => e.friend
               /\ d.state = "deleted" => e.state = "deleted"

Old(a) == a \in [Peers -> Docs] /\ \A p \in Peers : Older(a[p], users[p])

\* What a notification says of its peer.
OldNote(n) == LET u == users[n.peer] IN
                /\ n \in Notes
                /\ n.rev <= u.rev /\ (n.rev = u.rev => n.up = u.up)
                /\ u.friend
                /\ n.type = "gone" => u.state = "deleted"

\* No revision is applied before meta has it; a swagger is one in meta; a transfer
\* believes what the cache says, unless it was not told; and the latest revision of a
\* swagger, if no older one was applied after it, is what is cached.
Newest == \A p \in Peers : newest[p] <= users[p].rev
Friends == \A p \in index : p \in Peers /\ users[p].friend
Trusted == \A p \in Peers :
             /\ p \in DOMAIN known /\ p \notin silent => told[p] = known[p].up
             /\ p \notin DOMAIN known => ~told[p]
Right == \A p \in Peers :
           /\ users[p].friend /\ p \in DOMAIN known /\ p \notin stale
           /\ newest[p] = users[p].rev
           => known[p].up = users[p].up

CacheInv == Newest /\ Friends /\ Trusted /\ Right

\* What is common to the steps that apply something of one user.
Takes(p, rev) ==
  /\ DOMAIN known' = DOMAIN known \union {p}
  /\ known'[p] \in [ghost : BOOLEAN, up : BOOLEAN]
  /\ \A q \in DOMAIN known : q # p => known'[q] = known[q]
  /\ Applied(p, rev)
  /\ told' \in [Peers -> BOOLEAN] /\ \A q \in Peers : q # p => told'[q] = told[q]
  /\ \A q \in Peers : q # p => (q \in silent' <=> q \in silent)
  /\ p \notin silent' => told'[p] = known'[p].up
  /\ index' \subseteq index \union {p}
  /\ p \in index' => p \in index \/ users[p].friend
  /\ rev = users[p].rev => known'[p].up = users[p].up

LEMMA TakesKeeps ==
  ASSUME users \in [Peers -> Docs], users' = users, TypedCache, CacheInv,
         NEW p \in Peers, NEW rev \in Nat, rev <= users[p].rev, Takes(p, rev)
  PROVE  /\ TypedCache' /\ CacheInv'
         /\ p \in DOMAIN known' /\ newest'[p] >= rev
         /\ \A q \in Peers : newest'[q] >= newest[q] /\ (q # p => newest'[q] = newest[q])
         /\ DOMAIN known \subseteq DOMAIN known' /\ stale \subseteq stale'
<1> USE DEF TypedCache, Takes
<1>1. newest[p] \in Nat /\ users[p].rev \in Nat
  BY DEF Docs
<1>2. /\ newest' = [newest EXCEPT ![p] = IF newest[p] >= rev THEN newest[p] ELSE rev]
      /\ stale' = IF rev < newest[p] THEN stale \union {p} ELSE stale
  BY <1>1, MaxFact DEF Applied
<1>3. TypedCache'
  BY <1>1, <1>2
<1>4. Newest'
  BY <1>1, <1>2 DEF CacheInv, Newest
<1>5. Friends'
  BY DEF CacheInv, Friends
<1>6. Trusted'
  BY DEF CacheInv, Trusted
<1>7. Right'
  <2> SUFFICES ASSUME NEW q \in Peers, users[q].friend, q \in DOMAIN known', q \notin stale',
                      newest'[q] = users[q].rev
               PROVE  known'[q].up = users[q].up
    BY DEF Right
  <2>1. CASE q = p
    <3>1. rev >= newest[p]
      BY <2>1, <1>1, <1>2
    <3>2. newest'[p] = rev
      BY <1>1, <1>2, <3>1
    <3> QED
      BY <2>1, <3>2
  <2>2. CASE q # p
    BY <2>2, <1>2 DEF CacheInv, Right
  <2> QED
    BY <2>1, <2>2
<1>8. /\ newest'[p] >= rev /\ stale \subseteq stale'
      /\ \A q \in Peers : newest'[q] >= newest[q] /\ (q # p => newest'[q] = newest[q])
  BY <1>1, <1>2
<1> QED
  BY <1>3, <1>4, <1>5, <1>6, <1>7, <1>8 DEF CacheInv

\* The steps that are such ones.
LEMMA SyncTakes ==
  ASSUME users \in [Peers -> Docs], TypedCache, NEW a, Old(a), NEW p \in Peers,
         NEW swagger \in BOOLEAN, UserSync(p, a, swagger), swagger => users[p].friend
  PROVE  /\ Takes(p, a[p].rev) /\ a[p].rev \in Nat /\ a[p].rev <= users[p].rev
         /\ index \subseteq index' /\ (swagger => p \in index')
<1> USE DEF TypedCache
<1>1. a[p] \in Docs /\ users[p] \in Docs /\ Older(a[p], users[p])
  BY DEF Old
<1>2. Cached(a[p]) \in [ghost : BOOLEAN, up : BOOLEAN] /\ Cached(a[p]).up = a[p].up
  BY <1>1 DEF Docs, Cached
<1>3. /\ DOMAIN known' = DOMAIN known \union {p} /\ known'[p] = Cached(a[p])
      /\ \A q \in DOMAIN known : q # p => known'[q] = known[q]
  BY DEF UserSync, Put
<1>4. a[p].rev = users[p].rev => a[p].up = users[p].up
  BY <1>1 DEF Older
<1> HIDE DEF Cached
<1> QED
  BY <1>1, <1>2, <1>3, <1>4 DEF UserSync, Takes, Older, Docs

LEMMA UpdateTakes ==
  ASSUME users \in [Peers -> Docs], TypedCache, NEW n, OldNote(n), n.peer \in DOMAIN known,
         StatusUpdate(n)
  PROVE  Takes(n.peer, n.rev) /\ index' = index
<1> USE DEF TypedCache
<1>1. n \in Notes
  BY DEF OldNote
<1>2. /\ DOMAIN known' = DOMAIN known
      /\ known'[n.peer] = [known[n.peer] EXCEPT !.up = n.up]
      /\ \A q \in DOMAIN known : q # n.peer => known'[q] = known[q]
  BY DEF StatusUpdate
<1>3. known'[n.peer] \in [ghost : BOOLEAN, up : BOOLEAN] /\ known'[n.peer].up = n.up
  BY <1>1, <1>2 DEF Notes
<1>4. /\ told' = [told EXCEPT ![n.peer] = n.up] /\ silent' = silent \ {n.peer}
      /\ Applied(n.peer, n.rev) /\ index' = index
  BY DEF StatusUpdate
<1>5. n.peer \in Peers /\ n.up \in BOOLEAN
  BY <1>1 DEF Notes
<1>6. DOMAIN known' = DOMAIN known \union {n.peer}
  BY <1>2
<1> HIDE DEF Applied
<1> QED
  BY <1>1, <1>2, <1>3, <1>4, <1>5, <1>6 DEF Takes, OldNote

LEMMA FetchedTakes ==
  ASSUME users \in [Peers -> Docs], TypedCache, NEW n, OldNote(n), NEW a, Old(a),
         StatusFetched(n, a)
  PROVE  Takes(n.peer, n.rev) /\ index \subseteq index'
<1> USE DEF TypedCache
<1>1. n \in Notes /\ a[n.peer] \in Docs
  BY DEF OldNote, Old, Notes
<1>2. /\ DOMAIN known' = DOMAIN known \union {n.peer}
      /\ known'[n.peer] = [Cached(a[n.peer]) EXCEPT !.up = n.up]
      /\ \A q \in DOMAIN known : q # n.peer => known'[q] = known[q]
  BY DEF StatusFetched, Put
<1>3. known'[n.peer] \in [ghost : BOOLEAN, up : BOOLEAN] /\ known'[n.peer].up = n.up
  BY <1>1, <1>2 DEF Notes, Cached, Docs
<1> QED
  BY <1>1, <1>2, <1>3 DEF StatusFetched, Takes, OldNote, Notes

LEMMA DeletedTakes ==
  ASSUME users \in [Peers -> Docs], TypedCache, NEW n, OldNote(n), NEW a, Old(a),
         DeletedSwagger(n, a)
  PROVE  /\ Takes(n.peer, a[n.peer].rev) /\ a[n.peer].rev \in Nat
         /\ a[n.peer].rev <= users[n.peer].rev /\ index' = index \ {n.peer}
<1> USE DEF TypedCache
<1>1. n \in Notes /\ a[n.peer] \in Docs /\ users[n.peer] \in Docs
      /\ Older(a[n.peer], users[n.peer])
  BY DEF OldNote, Old, Notes
<1>2. /\ Cached(a[n.peer]) \in [ghost : BOOLEAN, up : BOOLEAN]
      /\ Cached(a[n.peer]).up = a[n.peer].up
  BY <1>1 DEF Docs, Cached
<1>3. /\ DOMAIN known' = DOMAIN known \union {n.peer}
      /\ known'[n.peer] = Cached(a[n.peer])
      /\ \A q \in DOMAIN known : q # n.peer => known'[q] = known[q]
  BY DEF DeletedSwagger, Put
<1>4. a[n.peer].rev = users[n.peer].rev => a[n.peer].up = users[n.peer].up
  BY <1>1 DEF Older
<1> HIDE DEF Cached
<1> QED
  BY <1>1, <1>2, <1>3, <1>4 DEF DeletedSwagger, Takes, Older, Docs, Notes

\* A transfer that starts again looks at the cache.
LEMMA ResetKeeps ==
  ASSUME users' = users, TypedCache, CacheInv, Reset
  PROVE  TypedCache' /\ CacheInv'
<1> USE DEF Reset, TypedCache, CacheInv
<1>1. TypedCache'
  OBVIOUS
<1>2. Newest' /\ Friends' /\ Right'
  BY DEF Newest, Friends, Right
<1>3. Trusted'
  BY DEF Trusted
<1> QED
  BY <1>1, <1>2, <1>3

LEMMA ClearKeeps ==
  ASSUME users \in [Peers -> Docs], users' = users, Clear
  PROVE  TypedCache' /\ CacheInv'
<1> USE DEF Clear
<1>1. DOMAIN known' = {}
  OBVIOUS
<1>2. TypedCache'
  BY <1>1 DEF TypedCache
<1>3. Newest'
  BY DEF Newest, Docs
<1>4. Friends' /\ Trusted' /\ Right'
  BY <1>1 DEF Friends, Trusted, Right
<1> QED
  BY <1>2, <1>3, <1>4 DEF CacheInv

\* A synchronization replaces the swaggers.
LEMMA ResyncKeeps ==
  ASSUME users \in [Peers -> Docs], users' = users, TypedCache, CacheInv, NEW a, Old(a),
         NEW login \in BOOLEAN, Resync(a, login)
  PROVE  /\ TypedCache' /\ CacheInv'
         /\ index' = {p \in Peers : a[p].friend}
         /\ \A p \in Peers : newest'[p] >= a[p].rev /\ newest'[p] >= newest[p]
         /\ \A p \in Peers : a[p].friend => p \in DOMAIN known'
         /\ DOMAIN known \subseteq DOMAIN known'
         /\ stale' = {p \in Peers : a[p].rev < newest[p]}
<1> USE DEF TypedCache
<1> DEFINE friends == {p \in Peers : a[p].friend}
<1>1. \A p \in Peers : a[p] \in Docs /\ users[p] \in Docs /\ Older(a[p], users[p])
  BY DEF Old
<1>2. \A p \in Peers : a[p].rev \in Nat /\ users[p].rev \in Nat /\ newest[p] \in Nat
  BY <1>1 DEF Docs
<1>3. \A p \in Peers :
        newest'[p] = IF newest[p] >= a[p].rev THEN newest[p] ELSE a[p].rev
  <2> SUFFICES ASSUME NEW p \in Peers
               PROVE  newest'[p] = IF newest[p] >= a[p].rev THEN newest[p] ELSE a[p].rev
    OBVIOUS
  <2>1. newest'[p] = Max({newest[p], a[p].rev})
    BY DEF Resync
  <2> QED
    BY <2>1, <1>2, MaxFact
<1>4. newest' \in [Peers -> Nat]
  <2>1. newest' = [p \in Peers |-> Max({newest[p], a[p].rev})]
    BY DEF Resync
  <2> QED
    BY <2>1, <1>2, <1>3
<1>5. \A p \in Peers : /\ Cached(a[p]) \in [ghost : BOOLEAN, up : BOOLEAN]
                       /\ Cached(a[p]).up = a[p].up /\ a[p].up \in BOOLEAN
  BY <1>1 DEF Docs, Cached
<1> HIDE DEF Cached
<1>6. /\ DOMAIN known' = DOMAIN known \union friends
      /\ \A p \in friends : known'[p] = Cached(a[p])
      /\ \A p \in DOMAIN known : p \notin friends => known'[p] = known[p]
  BY DEF Resync, Put
<1>7. index' = friends
  BY DEF Resync
<1>8. stale' = {p \in Peers : a[p].rev < newest[p]}
  BY DEF Resync
<1>9. told' = [p \in Peers |-> IF p \in friends /\ (login \/ Online(p) # a[p].up)
                                 THEN a[p].up ELSE told[p]]
  BY DEF Resync
<1>10. silent' = {p \in silent : told'[p] # Online(p)'}
  BY DEF Resync
<1>11. TypedCache'
  BY <1>4, <1>5, <1>6, <1>9
<1>12. Newest'
  BY <1>1, <1>2, <1>3 DEF CacheInv, Newest, Older
<1>13. Friends'
  BY <1>1, <1>7 DEF Friends, Older
<1>14. Trusted'
  <2> SUFFICES ASSUME NEW p \in Peers
               PROVE  /\ p \in DOMAIN known' /\ p \notin silent' => told'[p] = known'[p].up
                      /\ p \notin DOMAIN known' => ~told'[p]
    BY DEF Trusted
  <2>1. told'[p] = IF p \in friends /\ (login \/ Online(p) # a[p].up)
                     THEN a[p].up ELSE told[p]
    BY <1>9
  <2>2. Online(p)' = (p \in DOMAIN known' /\ known'[p].up)
    BY DEF Online
  <2>3. CASE p \in friends /\ (login \/ Online(p) # a[p].up)
    BY <2>1, <2>3, <1>5, <1>6
  <2>4. CASE p \notin friends
    BY <2>1, <2>2, <2>4, <1>6, <1>10, <1>11 DEF CacheInv, Trusted
  <2>5. CASE p \in friends /\ ~login /\ Online(p) = a[p].up
    <3>1. told'[p] = told[p] /\ p \in DOMAIN known' /\ known'[p].up = Online(p)
      BY <2>1, <2>5, <1>5, <1>6
    <3>2. p \notin silent => told[p] = Online(p)
      BY <2>5 DEF CacheInv, Trusted, Online
    <3> QED
      BY <3>1, <3>2, <2>2, <1>10, <1>11
  <2> QED
    BY <2>3, <2>4, <2>5
<1>15. Right'
  <2> SUFFICES ASSUME NEW p \in Peers, users[p].friend, p \in DOMAIN known', p \notin stale',
                      newest'[p] = users[p].rev
               PROVE  known'[p].up = users[p].up
    BY DEF Right
  <2>1. newest[p] <= a[p].rev
    BY <1>2, <1>8
  <2>2. a[p].rev = users[p].rev
    BY <2>1, <1>2, <1>3
  <2>3. a[p] = users[p]
    BY <2>2, <1>1 DEF Older
  <2> QED
    BY <2>3, <1>5, <1>6
<1>16. \A p \in Peers : newest'[p] >= a[p].rev /\ newest'[p] >= newest[p]
  BY <1>2, <1>3
<1> QED
  BY <1>6, <1>7, <1>8, <1>11, <1>12, <1>13, <1>14, <1>15, <1>16 DEF CacheInv

\* A change of meta makes a revision of its user nobody has applied.
Changes(p) == /\ users' \in [Peers -> Docs]
              /\ \A q \in Peers : q # p => users'[q] = users[q]
              /\ users'[p].rev = users[p].rev + 1
              /\ users[p].friend => users'[p].friend
              /\ users[p].state = "deleted" => users'[p].state = "deleted"

LEMMA ChangesKeeps ==
  ASSUME users \in [Peers -> Docs], TypedCache, CacheInv, NEW p \in Peers, Changes(p),
         UNCHANGED cache
  PROVE  TypedCache' /\ CacheInv'
<1> USE DEF cache, Changes, CacheInv, TypedCache
<1>1. \A q \in Peers : users[q].rev \in Nat
  BY DEF Docs
<1>2. TypedCache' /\ Trusted'
  BY DEF Trusted
<1>3. Newest' /\ Friends'
  BY <1>1 DEF Newest, Friends
<1>4. Right'
  <2> SUFFICES ASSUME NEW q \in Peers, users'[q].friend, q \in DOMAIN known, q \notin stale,
                      newest[q] = users'[q].rev
               PROVE  known[q].up = users'[q].up
    BY DEF Right
  <2>1. q # p
    BY <1>1 DEF Newest
  <2> QED
    BY <2>1 DEF Right
<1> QED
  BY <1>2, <1>3, <1>4

-----------------------------------------------------------------------------
(***************************************************************************)
(* What is on its way: the answers threads wait to apply, and the          *)
(* notifications.                                                          *)
(***************************************************************************)

Flying == {ans[t] : t \in Waiting}
Heard == {n \in In(wire) : n.type # "invalid"}
           \union (IF pc["poll"] = "apply" THEN {job} ELSE {})

\* They tell what was so; who is a friend in one answer and not in another is in the
\* later; and a user is asked for after he is heard of.
Flight == /\ \A a \in Flying : Old(a)
          /\ \A a, b \in Flying : \A p \in Peers :
               ~a[p].friend /\ b[p].friend => a[p].rev < b[p].rev
          /\ \A n \in Heard : OldNote(n)
          /\ pc["poll"] = "apply" => job.rev <= ans["poll"][job.peer].rev

\* What the steps of the client do to them: an answer is what meta has, a thread that
\* waits goes on waiting, and a notification is taken from the wire with an answer.
Waits(t) == pc[t] \in {"apply", "resync", "search"}

Carries ==
  /\ users' = users
  /\ DOMAIN ans' = Threads
  /\ \A t \in Threads : Waits(t)' => (Waits(t) /\ ans'[t] = ans[t]) \/ ans'[t] = users
  /\ wire' \in Seq(Notes \union {Invalid}) /\ In(wire') \subseteq In(wire) \union {Invalid}
  /\ pc'["poll"] = "apply" =>
       \/ pc["poll"] = "apply" /\ job' = job /\ ans'["poll"] = ans["poll"]
       \/ job' \in In(wire) /\ job'.type # "invalid" /\ ans'["poll"] = users

LEMMA OldSelf == ASSUME users \in [Peers -> Docs] PROVE Old(users)
  BY DEF Old, Older, Docs

LEMMA CarriesKeeps ==
  ASSUME STyped, Flight, Carries, TypedCache'
  PROVE  STyped' /\ Flight'
<1> USE DEF Carries
<1>1. Flying' \subseteq Flying \union {users}
  BY DEF Flying, Waiting, Waits
<1>2. \A n \in In(wire) : n \in Notes \union {Invalid}
  BY DEF STyped, In
<1>3. Heard' \subseteq Heard
  <2> SUFFICES ASSUME NEW n \in Heard' PROVE n \in Heard
    OBVIOUS
  <2>1. CASE n \in In(wire') /\ n.type # "invalid"
    BY <2>1 DEF Heard, Invalid
  <2>2. CASE pc'["poll"] = "apply" /\ n = job'
    BY <2>2 DEF Heard
  <2> QED
    BY <2>1, <2>2 DEF Heard
<1>4. Old(users)
  BY OldSelf DEF STyped
<1>5. Old(users)' /\ \A a \in Flying : Old(a)'
  BY <1>4 DEF Old, Flight
<1>6. \A a \in Flying' : Old(a)'
  BY <1>1, <1>5
<1>7. ASSUME NEW a \in Flying', NEW b \in Flying', NEW p \in Peers, ~a[p].friend, b[p].friend
      PROVE  a[p].rev < b[p].rev
  <2>1. CASE a \in Flying /\ b \in Flying
    BY <2>1, <1>7 DEF Flight
  <2>2. CASE a \in Flying /\ b = users
    <3>1. Older(a[p], b[p]) /\ a[p].rev \in Nat /\ b[p].rev \in Nat
      BY <2>2, <1>4 DEF Flight, Old, Docs
    <3> QED
      BY <3>1, <1>7 DEF Older
  <2>3. CASE b \in Flying /\ a = users
    BY <2>3, <1>7 DEF Flight, Old, Older
  <2> QED
    BY <2>1, <2>2, <2>3, <1>1, <1>7
<1>8. \A n \in Heard' : OldNote(n)'
  <2>1. \A n \in Heard : OldNote(n)'
    BY DEF Flight, OldNote
  <2> QED
    BY <2>1, <1>3
<1>9. pc'["poll"] = "apply" => job' \in Notes /\ job'.rev <= ans'["poll"][job'.peer].rev
  <2>1. CASE pc["poll"] = "apply" /\ job' = job /\ ans'["poll"] = ans["poll"]
    BY <2>1 DEF Flight, STyped
  <2>2. CASE job' \in In(wire) /\ job'.type # "invalid" /\ ans'["poll"] = users
    <3>1. OldNote(job')
      BY <2>2 DEF Flight, Heard
    <3> QED
      BY <3>1, <2>2 DEF OldNote
  <2> QED
    BY <2>1, <2>2
<1>10. \A t \in Waiting' : ans'[t] \in [Peers -> Docs]
  BY DEF Waiting, Waits, STyped
<1>11. STyped'
  BY <1>9, <1>10 DEF STyped
<1>12. Flight'
  BY <1>6, <1>7, <1>8, <1>9 DEF Flight
<1> QED
  BY <1>11, <1>12

\* What changes meta leaves everything older, but the notification of the change.
LEMMA ChangesFlight ==
  ASSUME STyped, Flight, NEW p \in Peers, Changes(p), TypedCache',
         UNCHANGED <<pc, ans, job>>,
         \/ wire' = wire
         \/ \E type \in {"new", "status", "gone"} :
              /\ wire' = Append(wire, Note(type, p))
              /\ users'[p].friend
              /\ type = "gone" => users'[p].state = "deleted"
  PROVE  STyped' /\ Flight'
<1> USE DEF Changes
<1>1. \A q \in Peers : users[q] \in Docs /\ users'[q] \in Docs
  BY DEF STyped
<1>2. \A q \in Peers : Older(users[q], users'[q])
  BY <1>1 DEF Older, Docs
<1>3. \A a \in Flying : Old(a)'
  <2> SUFFICES ASSUME NEW a \in Flying, NEW q \in Peers PROVE Older(a[q], users'[q])
    BY DEF Old, Flight
  <2>1. Older(a[q], users[q]) /\ a[q] \in Docs
    BY DEF Flight, Old
  <2> QED
    BY <2>1, <1>1 DEF Older, Docs
<1>4. \A n \in Heard : OldNote(n)'
  <2> SUFFICES ASSUME NEW n \in Heard PROVE OldNote(n)'
    OBVIOUS
  <2>1. OldNote(n)
    BY DEF Flight
  <2>2. n.peer \in Peers /\ n.rev \in Nat
    BY <2>1 DEF OldNote, Notes
  <2>3. CASE n.peer = p
    <3>1. users[p].rev \in Nat
      BY <1>1 DEF Docs
    <3>2. /\ n.rev <= users'[p].rev /\ n.rev # users'[p].rev
          /\ users'[p].friend /\ (n.type = "gone" => users'[p].state = "deleted")
      BY <2>1, <2>2, <2>3, <3>1 DEF OldNote
    <3> QED
      BY <2>1, <2>3, <3>2 DEF OldNote
  <2>4. CASE n.peer # p
    BY <2>1, <2>2, <2>4 DEF OldNote
  <2> QED
    BY <2>3, <2>4
<1>5. wire' \in Seq(Notes \union {Invalid}) /\ \A n \in Heard' : OldNote(n)'
  <2>1. CASE wire' = wire
    BY <2>1, <1>4 DEF Heard, STyped
  <2>2. ASSUME NEW type \in {"new", "status", "gone"}, wire' = Append(wire, Note(type, p)),
               users'[p].friend, type = "gone" => users'[p].state = "deleted"
        PROVE  wire' \in Seq(Notes \union {Invalid}) /\ \A n \in Heard' : OldNote(n)'
    <3>1. Note(type, p) \in Notes
      BY <1>1 DEF Note, Notes, Docs
    <3>3. wire' \in Seq(Notes \union {Invalid}) /\ In(wire') = In(wire) \union {Note(type, p)}
      BY <2>2, <3>1, InAppend DEF STyped
    <3>4. Heard' \subseteq Heard \union {Note(type, p)}
      BY <3>3 DEF Heard
    <3>5. \A n \in Heard' : n \in Heard \/ n = Note(type, p)
      BY <3>4
    <3>6. ASSUME NEW n \in Heard' PROVE OldNote(n)'
      <4>1. CASE n \in Heard
        BY <4>1, <1>4
      <4>2. CASE n = Note(type, p)
        BY <4>2, <2>2, <3>1, <1>1 DEF OldNote, Note, Docs
      <4> QED
        BY <4>1, <4>2, <3>5
    <3> QED
      BY <3>3, <3>6
  <2> QED
    BY <2>1, <2>2
<1>6. STyped'
  BY <1>5 DEF STyped, Waiting
<1>7. Flying' = Flying
  BY DEF Flying, Waiting
<1>8. Flight'
  BY <1>3, <1>5, <1>7 DEF Flight
<1> QED
  BY <1>6, <1>8

-----------------------------------------------------------------------------
(***************************************************************************)
(* Every step keeps what is known, and what is on its way, true.           *)
(***************************************************************************)

DataInv == STyped /\ Flight /\ CacheInv

\* Every step of the client carries answers and notifications as it should ...
LEMMA CarriesStep ==
  ASSUME Located, STyped,
         Logout \/ Interface \/ Login \/ Kick \/ Poll \/ Cut \/ Reconnect \/ Back
  PROVE  Carries
<1>1. wire \in Seq(Notes \union {Invalid}) /\ DOMAIN ans = Threads /\ DOMAIN pc = Threads
  BY DEF STyped, Located
<1>2. <<>> \in Seq(Notes \union {Invalid}) /\ In(<<>>) = {}
  BY InNone
<1>3. wire # <<>> => /\ Tail(wire) \in Seq(Notes \union {Invalid})
                     /\ In(wire) = {Head(wire)} \union In(Tail(wire))
  BY <1>1, InTail
<1> USE <1>1, <1>2, <1>3 DEF Carries, Waits, Goto, Hold, cache, server, network, barriers,
        hands, Killed, Threads
<1>4. ASSUME NEW t \in Leavers, Terminate(t) PROVE Carries
  BY <1>4 DEF Terminate
<1>5. ASSUME NEW t \in Leavers, Interrupt(t) PROVE Carries
  BY <1>5 DEF Interrupt
<1>6. ASSUME NEW t \in Leavers, Unforbid(t) PROVE Carries
  BY <1>6 DEF Unforbid
<1>7. ASSUME NEW t \in Leavers, Leave(t) PROVE Carries
  BY <1>7 DEF Leave, Cleanup, Leavers
<1>8. ASSUME NEW t \in Leavers, Goodbye(t) PROVE Carries
  BY <1>8 DEF Goodbye
<1>9. ASSUME NEW t \in Leavers, Gone(t) PROVE Carries
  BY <1>9 DEF Gone
<1>10. ASSUME NEW t \in Leavers, Done(t) PROVE Carries
  BY <1>10 DEF Done, Then, Leavers, Located, Exits
<1>11. CASE CallLogin
  BY <1>11 DEF CallLogin, Calling
<1>12. CASE CallLogout
  BY <1>12 DEF CallLogout, Calling
<1>13. CASE CallSearch
  BY <1>13 DEF CallSearch, Calling
<1>14. CASE Found
  BY <1>14 DEF Found
<1>15. CASE Start
  BY <1>15 DEF Start
<1>16. CASE Return
  BY <1>16 DEF Return
<1>17. CASE BeginLogin
  BY <1>17 DEF BeginLogin, Retry, Cleanup
<1>18. CASE Accepted
  BY <1>18 DEF Accepted
<1>19. CASE Refused
  BY <1>19 DEF Refused
<1>20. CASE Failed
  BY <1>20 DEF Failed, Retry
<1>21. CASE Again
  BY <1>21 DEF Again
<1>22. CASE Connected
  BY <1>22 DEF Connected
<1>23. CASE Synchronize
  BY <1>23 DEF Synchronize, Retry
<1>24. CASE LoggedIn
  BY <1>24 DEF LoggedIn
<1>25. CASE Undo
  BY <1>25 DEF Undo
<1>26. CASE Kick
  BY <1>26 DEF Kick
<1>27. CASE Handle
  BY <1>27 DEF Handle
<1>28. CASE Fetched
  BY <1>28 DEF Fetched
<1>29. CASE Cut
  BY <1>29 DEF Cut
<1>30. CASE Redial
  BY <1>30 DEF Redial
<1>31. CASE RedialRefused
  BY <1>31 DEF RedialRefused
<1>32. CASE Reconnected
  BY <1>32 DEF Reconnected
<1>33. CASE AskAgain
  BY <1>33 DEF AskAgain
<1>34. CASE Resynchronized
  BY <1>34 DEF Resynchronized
<1> HIDE DEF Carries
<1> QED
  BY <1>4, <1>5, <1>6, <1>7, <1>8, <1>9, <1>10, <1>11, <1>12, <1>13, <1>14, <1>15, <1>16,
     <1>17, <1>18, <1>19, <1>20, <1>21, <1>22, <1>23, <1>24, <1>25, <1>26, <1>27, <1>28,
     <1>29, <1>30, <1>31, <1>32, <1>33, <1>34
     DEF Logout, Interface, Login, Poll, Reconnect, Back

\* ... and applies only such.
LEMMA CacheStay ==
  ASSUME users' = users, TypedCache, CacheInv, UNCHANGED cache
  PROVE  TypedCache' /\ CacheInv'
  BY DEF cache, TypedCache, CacheInv, Newest, Friends, Trusted, Right

\* The notification that is handled.
LEMMA Handled ==
  ASSUME STyped, Flight, wire # <<>>, Head(wire).type # "invalid"
  PROVE  OldNote(Head(wire)) /\ Head(wire) \in In(wire)
<1>1. In(wire) = {Head(wire)} \union In(Tail(wire))
  BY InTail DEF STyped
<1>2. Head(wire) \in Heard
  BY <1>1 DEF Heard
<1> QED
  BY <1>1, <1>2 DEF Flight

\* The notification whose user was asked for.
LEMMA Applied1 ==
  ASSUME STyped, Flight, pc["poll"] = "apply"
  PROVE  /\ OldNote(job) /\ Old(ans["poll"]) /\ job \in Notes
         /\ job.rev <= ans["poll"][job.peer].rev
<1>1. job \in Heard
  BY DEF Heard
<1>2. ans["poll"] \in Flying
  BY DEF Flying, Waiting, Threads
<1> QED
  BY <1>1, <1>2 DEF Flight, OldNote

\* The polling thread applies one notification.
LEMMA PollTakes ==
  ASSUME STyped, Flight, Poll, ~UNCHANGED cache
  PROVE  \E p \in Peers, rev \in Nat : rev <= users[p].rev /\ Takes(p, rev)
<1> USE DEF STyped
<1>1. CASE Handle
  <2>1. ~MustFetch(Head(wire)) /\ StatusUpdate(Head(wire)) /\ Head(wire).type # "invalid"
    BY <1>1 DEF Handle
  <2>2. OldNote(Head(wire))
    BY <1>1, <2>1, Handled DEF Handle
  <2>3. Takes(Head(wire).peer, Head(wire).rev)
    BY <2>1, <2>2, UpdateTakes DEF MustFetch
  <2> QED
    BY <2>2, <2>3 DEF OldNote, Notes
<1>2. CASE Fetched
  <2>1. pc["poll"] = "apply"
    BY <1>2 DEF Fetched
  <2>2. /\ OldNote(job) /\ Old(ans["poll"]) /\ job \in Notes
    BY <2>1, Applied1
  <2>3. job.peer \in Peers /\ job.rev \in Nat /\ job.type \in {"new", "status", "gone"}
    BY <2>2 DEF Notes
  <2>4. CASE job.type = "status"
    <3>1. StatusFetched(job, ans["poll"])
      BY <1>2, <2>4 DEF Fetched
    <3> QED
      BY <3>1, <2>2, <2>3, FetchedTakes DEF OldNote
  <2>5. CASE job.type = "new"
    <3>1. UserSync(job.peer, ans["poll"], TRUE)
      BY <1>2, <2>5 DEF Fetched, NewSwagger
    <3>2. users[job.peer].friend
      BY <2>2 DEF OldNote
    <3> QED
      BY <3>1, <3>2, <2>2, <2>3, SyncTakes
  <2>6. CASE job.type = "gone"
    <3>1. DeletedSwagger(job, ans["poll"])
      BY <1>2, <2>6 DEF Fetched
    <3> QED
      BY <3>1, <2>2, <2>3, DeletedTakes
  <2> QED
    BY <2>3, <2>4, <2>5, <2>6
<1> QED
  BY <1>1, <1>2 DEF Poll

LEMMA CacheStep ==
  ASSUME Located, DataInv, Carries,
         Logout \/ Interface \/ Login \/ Kick \/ Poll \/ Cut \/ Reconnect \/ Back
  PROVE  TypedCache' /\ CacheInv'
<1> USE DEF DataInv, STyped
<1>1. users' = users
  BY DEF Carries
<1>2. CASE UNCHANGED cache
  BY <1>1, <1>2, CacheStay
<1>3. CASE Clear
  BY <1>1, <1>3, ClearKeeps
<1>4. CASE Poll
  <2>1. CASE ~UNCHANGED cache
    <3>1. PICK p \in Peers, rev \in Nat : rev <= users[p].rev /\ Takes(p, rev)
      BY <1>4, <2>1, PollTakes
    <3> QED
      BY <3>1, <1>1, TakesKeeps
  <2> QED
    BY <2>1, <1>2
<1>5. CASE Found
  <2>1. PICK p \in Peers : UserSync(p, ans["gui"], FALSE)
    BY <1>5 DEF Found
  <2>2. Old(ans["gui"])
    BY <1>5 DEF Found, Flight, Flying, Waiting, Threads
  <2>3. Takes(p, ans["gui"][p].rev) /\ ans["gui"][p].rev \in Nat
        /\ ans["gui"][p].rev <= users[p].rev
    BY <2>1, <2>2, SyncTakes
  <2> QED
    BY <2>3, <1>1, TakesKeeps
<1>6. CASE LoggedIn
  <2>1. Resync(ans["login"], TRUE) /\ Old(ans["login"])
    BY <1>6 DEF LoggedIn, Flight, Flying, Waiting, Threads
  <2> QED
    BY <2>1, <1>1, ResyncKeeps
<1>7. CASE Resynchronized
  <2>1. Resync(ans["back"], FALSE) /\ Old(ans["back"])
    BY <1>7 DEF Resynchronized, Flight, Flying, Waiting, Threads
  <2> QED
    BY <2>1, <1>1, ResyncKeeps
<1>8. CASE Reset
  BY <1>1, <1>8, ResetKeeps
<1>9. CASE Logout
  <2>1. ASSUME NEW t \in Leavers, Leave(t) PROVE Clear
    BY <2>1 DEF Leave, Cleanup
  <2> QED
    BY <1>2, <1>3, <1>9, <2>1
       DEF Logout, Terminate, Interrupt, Unforbid, Goodbye, Gone, Done, cache
<1>10. CASE Interface
  BY <1>2, <1>5, <1>10 DEF Interface, CallLogin, CallLogout, CallSearch, Start, Return, cache
<1>11. CASE Login
  <2>1. CASE BeginLogin
    BY <2>1, <1>2, <1>3 DEF BeginLogin, Cleanup
  <2> QED
    BY <2>1, <1>2, <1>6, <1>11
       DEF Login, Accepted, Refused, Failed, Again, Connected, Synchronize, Undo, cache
<1>12. CASE Kick \/ Cut \/ Reconnect
  BY <1>2, <1>12 DEF Kick, Cut, Reconnect, Redial, RedialRefused, cache
<1>13. CASE Back
  BY <1>2, <1>7, <1>8, <1>13 DEF Back, Reconnected, AskAgain, cache
<1> QED
  BY <1>4, <1>9, <1>10, <1>11, <1>12, <1>13

\* A user changes, and his swaggers are told of it.
LEMMA ChangedIs ==
  ASSUME STyped, Changed
  PROVE  \E p \in Peers :
           /\ Changes(p) /\ UNCHANGED <<cache, pc, ans, job, link>>
           /\ \/ wire' = wire /\ (link = "up" => ~users'[p].friend)
              \/ link = "up" /\ \E type \in {"new", "status", "gone"} :
                   /\ wire' = Append(wire, Note(type, p))
                   /\ users'[p].friend
                   /\ type = "gone" => users'[p].state = "deleted"
                   /\ ~users[p].friend => type = "new"
<1> DEFINE Told(p) == \/ wire' = wire /\ (link = "up" => ~users'[p].friend)
                      \/ link = "up" /\ \E type \in {"new", "status", "gone"} :
                           /\ wire' = Append(wire, Note(type, p))
                           /\ users'[p].friend
                           /\ type = "gone" => users'[p].state = "deleted"
                           /\ ~users[p].friend => type = "new"
           Edit(p, u) == /\ u \in Docs /\ u.rev = users[p].rev
                         /\ users' = [users EXCEPT ![p] = [u EXCEPT !.rev = @ + 1]]
                         /\ users[p].friend => u.friend
                         /\ users[p].state # "deleted"
<1>1. ASSUME NEW p \in Peers, NEW u, Edit(p, u)
      PROVE  /\ Changes(p) /\ users'[p].friend = u.friend /\ users'[p].state = u.state
             /\ users'[p].rev = u.rev + 1
  <2>1. users[p] \in Docs /\ users \in [Peers -> Docs]
    BY DEF STyped
  <2>2. [u EXCEPT !.rev = @ + 1] \in Docs
    BY <1>1 DEF Docs
  <2>3. /\ users' \in [Peers -> Docs] /\ \A q \in Peers : q # p => users'[q] = users[q]
        /\ users'[p] = [u EXCEPT !.rev = @ + 1]
    BY <1>1, <2>1, <2>2
  <2>4. /\ users'[p].rev = u.rev + 1 /\ users'[p].friend = u.friend
        /\ users'[p].state = u.state
    BY <2>3, <1>1 DEF Docs
  <2> QED
    BY <1>1, <2>3, <2>4 DEF Changes
<1>2. PICK p \in Peers :
        \/ Befriend(p) /\ Tell("new", p)
        \/ users[p].friend /\ Register(p) /\ Tell("new", p)
        \/ users[p].friend /\ Flip(p) /\ Tell("status", p)
        \/ users[p].friend /\ Erase(p) /\ Tell("gone", p)
        \/ /\ ~users[p].friend /\ (Register(p) \/ Flip(p))
           /\ UNCHANGED <<cache, server, network, barriers, hands, inMeta, mutex, pc, goal,
                          believes, calls, failures>>
  BY DEF Changed
<1>3. UNCHANGED <<cache, pc, ans, job, link>>
  BY <1>2 DEF Tell, hands, network, cache
<1>4. users[p] \in Docs
  BY DEF STyped
<1>5. ASSUME Befriend(p) PROVE Edit(p, [users[p] EXCEPT !.friend = TRUE])
  BY <1>4, <1>5 DEF Befriend, Write, Docs
<1>6. ASSUME Register(p) PROVE Edit(p, [users[p] EXCEPT !.state = "ok"])
  BY <1>4, <1>6 DEF Register, Write, Docs
<1>7. ASSUME Flip(p) PROVE Edit(p, [users[p] EXCEPT !.up = ~@])
  BY <1>4, <1>7 DEF Flip, Write, Docs
<1>8. ASSUME Erase(p) PROVE Edit(p, [users[p] EXCEPT !.state = "deleted", !.up = FALSE])
  BY <1>4, <1>8 DEF Erase, Write, Docs
<1>9. ASSUME NEW type, Tell(type, p) PROVE wire' = IF link = "up" THEN Append(wire, Note(type, p)) ELSE wire
  BY <1>9 DEF Tell, Push
<1> HIDE DEF Edit
<1>10. Changes(p) /\ Told(p)
  <2>1. CASE Befriend(p) /\ Tell("new", p)
    <3>1. Changes(p) /\ users'[p].friend
      BY <2>1, <1>1, <1>4, <1>5 DEF Docs
    <3> QED
      BY <3>1, <2>1, <1>9
  <2>2. CASE users[p].friend /\ Register(p) /\ Tell("new", p)
    <3>1. Changes(p) /\ users'[p].friend
      BY <2>2, <1>1, <1>4, <1>6 DEF Docs
    <3> QED
      BY <3>1, <2>2, <1>9
  <2>3. CASE users[p].friend /\ Flip(p) /\ Tell("status", p)
    <3>1. Changes(p) /\ users'[p].friend
      BY <2>3, <1>1, <1>4, <1>7 DEF Docs
    <3> QED
      BY <3>1, <2>3, <1>9
  <2>4. CASE users[p].friend /\ Erase(p) /\ Tell("gone", p)
    <3> DEFINE u == [users[p] EXCEPT !.state = "deleted", !.up = FALSE]
    <3>2. u.friend = users[p].friend /\ u.state = "deleted"
      BY <1>4 DEF Docs
    <3>3. Edit(p, u)
      BY <2>4, <1>8
    <3> HIDE DEF u
    <3>1. Changes(p) /\ users'[p].friend /\ users'[p].state = "deleted"
      BY <2>4, <3>2, <3>3, <1>1
    <3> QED
      BY <3>1, <2>4, <1>9
  <2>5. CASE /\ ~users[p].friend /\ (Register(p) \/ Flip(p))
             /\ UNCHANGED <<cache, server, network, barriers, hands, inMeta, mutex, pc, goal,
                            believes, calls, failures>>
    <3>1. Changes(p) /\ ~users'[p].friend
      BY <2>5, <1>1, <1>4, <1>6, <1>7 DEF Docs
    <3> QED
      BY <3>1, <2>5 DEF network
  <2> QED
    BY <2>1, <2>2, <2>3, <2>4, <2>5, <1>2
<1> QED
  BY <1>3, <1>10

LEMMA DataMeta ==
  ASSUME Located, DataInv, Changed \/ PullDevice \/ RemoveSession \/ Kickout \/ UNCHANGED svars
  PROVE  DataInv'
<1> USE DEF DataInv
<1>1. CASE Changed
  <2>1. PICK p \in Peers :
          /\ Changes(p) /\ UNCHANGED <<cache, pc, ans, job, link>>
          /\ \/ wire' = wire /\ (link = "up" => ~users'[p].friend)
             \/ link = "up" /\ \E type \in {"new", "status", "gone"} :
                  /\ wire' = Append(wire, Note(type, p))
                  /\ users'[p].friend
                  /\ type = "gone" => users'[p].state = "deleted"
                  /\ ~users[p].friend => type = "new"
    BY <1>1, ChangedIs
  <2>2. TypedCache' /\ CacheInv'
    BY <2>1, ChangesKeeps DEF STyped
  <2>3. STyped' /\ Flight'
    BY <2>1, <2>2, ChangesFlight
  <2> QED
    BY <2>2, <2>3
<1>2. CASE PullDevice \/ RemoveSession \/ Kickout \/ UNCHANGED svars
  <2>1. UNCHANGED <<users, cache, pc, ans, job>> /\ wire' \in {wire, Append(wire, Invalid)}
    BY <1>2 DEF PullDevice, RemoveSession, Kickout, Silence, Push, svars, hands, network, cache,
       Invalid
  <2>2. wire' \in Seq(Notes \union {Invalid}) /\ In(wire') \subseteq In(wire) \union {Invalid}
    <3>1. wire \in Seq(Notes \union {Invalid}) /\ Invalid \in Notes \union {Invalid}
      BY DEF STyped
    <3>2. CASE wire' = wire
      BY <3>1, <3>2
    <3>3. CASE wire' = Append(wire, Invalid)
      BY <3>1, <3>3, InAppend
    <3> QED
      BY <2>1, <3>2, <3>3
  <2>3. Carries
    BY <2>1, <2>2 DEF Carries, Waits, STyped
  <2>4. TypedCache' /\ CacheInv'
    BY <2>1, CacheStay DEF STyped
  <2> QED
    BY <2>3, <2>4, CarriesKeeps
<1> QED
  BY <1>1, <1>2

LEMMA DataNext == ASSUME Located, DataInv, [SNext]_svars PROVE DataInv'
<1>1. CASE Changed \/ PullDevice \/ RemoveSession \/ Kickout \/ UNCHANGED svars
  BY <1>1, DataMeta
<1>2. CASE Logout \/ Interface \/ Login \/ Kick \/ Poll \/ Cut \/ Reconnect \/ Back
  <2>1. Carries
    BY <1>2, CarriesStep DEF DataInv
  <2>2. TypedCache' /\ CacheInv'
    BY <1>2, <2>1, CacheStep
  <2> QED
    BY <2>1, <2>2, CarriesKeeps DEF DataInv
<1> QED
  BY <1>1, <1>2 DEF SNext

LEMMA DataInit == SInit => DataInv
<1> SUFFICES ASSUME SInit PROVE DataInv
  OBVIOUS
<1> USE DEF SInit, CacheInit
<1>1. users \in [Peers -> Docs]
  <2>1. \A u \in [state : {"ghost", "ok"}, friend : BOOLEAN, up : {FALSE}, rev : {0}] :
          u \in Docs
    <3> SUFFICES ASSUME NEW u \in [state : {"ghost", "ok"}, friend : BOOLEAN, up : {FALSE},
                                   rev : {0}]
                 PROVE  u \in Docs
      OBVIOUS
    <3>1. u = [state |-> u.state, friend |-> u.friend, up |-> u.up, rev |-> u.rev]
      OBVIOUS
    <3>2. u.state \in {"ghost", "ok"} /\ u.friend \in BOOLEAN /\ u.up = FALSE /\ u.rev = 0
      OBVIOUS
    <3>3. u.state \in {"ghost", "ok", "deleted"} /\ u.rev \in Nat
      BY <3>2
    <3>4. u.up \in BOOLEAN
      BY <3>2, Zenon
    <3> QED
      BY <3>1, <3>2, <3>3, <3>4, Zenon DEF Docs
  <2> QED
    BY <2>1
<1>2. Waiting = {} /\ DOMAIN known = {} /\ In(wire) = {} /\ pc["poll"] # "apply"
  BY InNone DEF Waiting, Threads
<1>3. TypedCache
  BY <1>2 DEF TypedCache
<1>4. STyped
  BY <1>1, <1>2, <1>3 DEF STyped, NoAnswer
<1>5. Flight
  BY <1>2 DEF Flight, Flying, Heard
<1>6. CacheInv
  BY <1>1, <1>2 DEF CacheInv, Newest, Friends, Trusted, Right, Docs
<1> QED
  BY <1>4, <1>5, <1>6 DEF DataInv

-----------------------------------------------------------------------------
(***************************************************************************)
(* Nothing is missed: while a client that is logged in is connected, the   *)
(* latest of every swagger is applied, or on its way.                      *)
(***************************************************************************)

\* The channel is open, or a synchronization will open it.
Live == /\ inMeta /\ link = "up"
        /\ pc["login"] \in {"sync", "resync"} \/ pc["poll"] \in {"watch", "apply"}
        /\ held => pc["back"] # "none"

Swagger(p) == users[p].friend /\ users[p].state # "deleted"
Latest(p) == p \in DOMAIN known /\ newest[p] = users[p].rev
Coming(p) == \E n \in In(wire) : n.type # "invalid" /\ n.peer = p /\ n.rev = users[p].rev
ComingNew(p) == \E n \in In(wire) : n.type = "new" /\ n.peer = p

\* Where the latest revision of p is: a synchronization is to be asked for, it is in
\* the wire, in an answer, in the hands of the polling thread, or applied.
Fresh(p) ==
  \/ pc["back"] \in {"reset", "ask"}
  \/ Coming(p)
  \/ pc["back"] = "resync" /\ ans["back"][p].rev = users[p].rev
  \/ /\ pc["back"] = "none"
     /\ \/ pc["login"] = "sync"
        \/ pc["login"] = "resync" /\ (ans["login"][p].rev = users[p].rev \/ Latest(p))
        \/ /\ pc["login"] \notin {"sync", "resync"}
           /\ \/ Latest(p)
              \/ pc["poll"] = "apply" /\ job.peer = p /\ job.rev = users[p].rev

\* Likewise that he is a swagger; an answer of the login that does not say so is older
\* than what was applied.
Counted(p) ==
  \/ pc["back"] \in {"reset", "ask"}
  \/ ComingNew(p)
  \/ pc["back"] = "resync" /\ ans["back"][p].friend
  \/ /\ pc["back"] = "none"
     /\ \/ pc["login"] = "sync"
        \/ /\ pc["login"] = "resync"
           /\ ans["login"][p].friend \/ ans["login"][p].rev < newest[p]
        \/ /\ pc["login"] \notin {"sync", "resync"}
           /\ \/ p \in index \/ p \in stale
              \/ pc["poll"] = "apply" /\ job.peer = p /\ job.type = "new"

Covered == Live => \A p \in Peers : Swagger(p) => Fresh(p) /\ Counted(p)

\* At rest there is nothing on its way: what is applied is the latest.
LEMMA RestEnough == Control /\ DataInv /\ Covered => SwaggersKnown
<1> SUFFICES ASSUME Control, DataInv, Covered, AtRest, NEW p \in Peers PROVE Agrees(p)
  BY DEF SwaggersKnown
<1> USE DEF AtRest
<1>1. Live
  BY DEF Live
<1>2. p \in index => users[p].friend
  BY DEF DataInv, CacheInv, Friends
<1>3. ASSUME Swagger(p), p \notin stale
      PROVE  p \in index /\ Online(p) = users[p].up /\ (p \notin silent => told[p] = users[p].up)
  <2>1. In(wire) = {}
    BY InNone
  <2>2. Latest(p) /\ p \in index
    BY <1>1, <1>3, <2>1 DEF Covered, Fresh, Counted, Coming, ComingNew
  <2>3. known[p].up = users[p].up
    BY <1>3, <2>2 DEF Latest, Swagger, DataInv, CacheInv, Right
  <2>4. users[p].up \in BOOLEAN
    BY DEF DataInv, STyped, Docs
  <2>5. Online(p) = users[p].up
    BY <2>2, <2>3, <2>4 DEF Online, Latest
  <2>6. p \notin silent => told[p] = users[p].up
    BY <2>2, <2>3 DEF Latest, DataInv, CacheInv, Trusted
  <2> QED
    BY <2>2, <2>5, <2>6
<1> QED
  BY <1>2, <1>3 DEF Agrees, Swagger

\* A step that applies something of one user loses nothing of the others.
LEMMA TakesCovers ==
  ASSUME DataInv, CacheInv', TypedCache', users' = users, NEW q \in Peers, NEW rev \in Nat,
         rev <= users[q].rev, Takes(q, rev)
  PROVE  \A p \in Peers :
           /\ Latest(p) => Latest(p)'
           /\ newest'[p] \in Nat /\ newest[p] \in Nat /\ newest'[p] >= newest[p]
           /\ p \in stale => p \in stale'
           /\ p = q /\ rev = users[p].rev => Latest(p)'
<1>1. /\ q \in DOMAIN known' /\ newest'[q] >= rev
      /\ \A p \in Peers : newest'[p] >= newest[p]
      /\ DOMAIN known \subseteq DOMAIN known' /\ stale \subseteq stale'
  BY TakesKeeps DEF DataInv, STyped
<1>2. \A p \in Peers : /\ newest'[p] \in Nat /\ newest[p] \in Nat /\ users[p].rev \in Nat
                       /\ newest'[p] <= users[p].rev
  BY DEF DataInv, STyped, TypedCache, Docs, CacheInv, Newest
<1> QED
  BY <1>1, <1>2 DEF Latest

\* The steps that leave alone all this is about.
LEMMA AloneCovers ==
  ASSUME Covered, Live' => Live,
         UNCHANGED <<users, known, index, newest, stale, wire, job>>,
         Live' => \/ UNCHANGED <<pc, ans>>
                  \/ /\ pc'["back"] = pc["back"] /\ ans'["back"] = ans["back"]
                     /\ ans'["login"] = ans["login"]
                     /\ \/ pc'["login"] = pc["login"]
                        \/ {pc["login"], pc'["login"]} \intersect {"sync", "resync"} = {}
                     /\ pc["poll"] = "apply" => pc'["poll"] = "apply"
  PROVE  Covered'
<1> SUFFICES ASSUME Live', NEW p \in Peers, Swagger(p)' PROVE Fresh(p)' /\ Counted(p)'
  BY DEF Covered
<1>1. Swagger(p) /\ Fresh(p) /\ Counted(p)
  BY DEF Covered, Swagger
<1>2. (Coming(p) <=> Coming(p)') /\ (ComingNew(p) <=> ComingNew(p)') /\ (Latest(p) <=> Latest(p)')
  BY DEF Coming, ComingNew, Latest
<1> QED
  BY <1>1, <1>2 DEF Fresh, Counted

\* Most steps do, or leave the client without its connection or its session.
LEMMA CoversAlone ==
  ASSUME Located, Mutex, Line, Alone, DataInv, Covered,
         \/ Logout \/ CallLogin \/ CallLogout \/ CallSearch \/ Start \/ Return
         \/ BeginLogin \/ Accepted \/ Refused \/ Failed \/ Again \/ Undo
         \/ Kick \/ Cut \/ RedialRefused \/ UNCHANGED svars
  PROVE  Covered'
<1> DEFINE Quiet ==
      /\ Live' => Live
      /\ UNCHANGED <<users, known, index, newest, stale, wire, job>>
      /\ Live' => \/ UNCHANGED <<pc, ans>>
                  \/ /\ pc'["back"] = pc["back"] /\ ans'["back"] = ans["back"]
                     /\ ans'["login"] = ans["login"]
                     /\ \/ pc'["login"] = pc["login"]
                        \/ {pc["login"], pc'["login"]} \intersect {"sync", "resync"} = {}
                     /\ pc["poll"] = "apply" => pc'["poll"] = "apply"
<1> DEFINE Ok == Quiet \/ ~Live'
<1>0. DOMAIN ans = Threads
  BY DEF DataInv, STyped
<1> USE <1>0 DEF Live, Located, Line, Alone, Goto, Hold, cache, server, network, barriers,
        hands, Killed, Threads, Leavers, Beyond, Exits, Closed, Going
<1>1. ASSUME NEW t \in Leavers, Terminate(t) PROVE Ok
  BY <1>1 DEF Terminate
<1>2. ASSUME NEW t \in Leavers, Interrupt(t) PROVE Ok
  BY <1>2 DEF Interrupt
<1>3. ASSUME NEW t \in Leavers, Unforbid(t) PROVE Ok
  BY <1>3 DEF Unforbid
<1>4. ASSUME NEW t \in Leavers, Leave(t) PROVE Ok
  BY <1>4 DEF Leave, Cleanup
<1>5. ASSUME NEW t \in Leavers, Goodbye(t) PROVE Ok
  BY <1>5 DEF Goodbye
<1>6. ASSUME NEW t \in Leavers, Gone(t) PROVE Ok
  BY <1>6 DEF Gone
<1>7. ASSUME NEW t \in Leavers, Done(t) PROVE Ok
  BY <1>7 DEF Done, Then
<1>8. ASSUME CallLogin PROVE Ok
  BY <1>8 DEF CallLogin, Calling
<1>9. ASSUME CallLogout PROVE Ok
  BY <1>9 DEF CallLogout, Calling
<1>10. ASSUME CallSearch PROVE Ok
  BY <1>10 DEF CallSearch, Calling
<1>11. ASSUME Start PROVE Ok
  BY <1>11 DEF Start
<1>12. ASSUME Return PROVE Ok
  BY <1>12 DEF Return
<1>13. ASSUME BeginLogin PROVE Ok
  BY <1>13 DEF BeginLogin, Retry, Cleanup
<1>14. ASSUME Accepted PROVE Ok
  BY <1>14 DEF Accepted
<1>15. ASSUME Refused PROVE Ok
  BY <1>15 DEF Refused
<1>16. ASSUME Failed PROVE Ok
  BY <1>16 DEF Failed, Retry
<1>17. ASSUME Again PROVE Ok
  BY <1>17 DEF Again
<1>18. ASSUME Undo PROVE Ok
  BY <1>18 DEF Undo
<1>19. ASSUME Kick PROVE Ok
  BY <1>19 DEF Kick
<1>20. ASSUME Cut PROVE Ok
  BY <1>20 DEF Cut
<1>21. ASSUME RedialRefused PROVE Ok
  BY <1>21 DEF RedialRefused
<1>22. ASSUME UNCHANGED svars PROVE Ok
  BY <1>22 DEF svars
<1> HIDE DEF Ok, Live
<1>23. Ok
  BY <1>1, <1>2, <1>3, <1>4, <1>5, <1>6, <1>7, <1>8, <1>9, <1>10, <1>11, <1>12, <1>13, <1>14,
     <1>15, <1>16, <1>17, <1>18, <1>19, <1>20, <1>21, <1>22 DEF Logout
<1>24. CASE Quiet
  BY <1>24, AloneCovers
<1>25. CASE ~Live'
  BY <1>25 DEF Covered
<1> QED
  BY <1>23, <1>24, <1>25 DEF Ok

\* The synchronization of the login: asked for, answered, applied.
LEMMA LoginCovers ==
  ASSUME Located, Line, Alone, DataInv, DataInv', Covered,
         Connected \/ Synchronize \/ LoggedIn
  PROVE  Covered'
<1> SUFFICES ASSUME Live', NEW p \in Peers, Swagger(p)' PROVE Fresh(p)' /\ Counted(p)'
  BY DEF Covered
<1>0. DOMAIN ans = Threads /\ users[p] \in Docs
  BY DEF DataInv, STyped
<1> USE <1>0 DEF Live, Located, Line, Alone, Goto, Hold, cache, server, network, barriers,
        hands, Threads, Beyond
<1>1. CASE Connected
  BY <1>1 DEF Connected, Fresh, Counted
<1>2. CASE Synchronize
  <2>1. /\ pc["login"] = "sync" /\ pc'["login"] = "resync" /\ ans'["login"] = users
        /\ UNCHANGED <<users, wire>> /\ ans'["back"] = ans["back"] /\ pc'["back"] = pc["back"]
        /\ Live
    BY <1>2 DEF Synchronize, Retry
  <2>2. Fresh(p) /\ Counted(p) /\ users[p].friend
    BY <2>1 DEF Covered, Swagger
  <2> QED
    BY <2>1, <2>2 DEF Fresh, Counted, Coming, ComingNew
<1>3. CASE LoggedIn
  <2>1. /\ pc["login"] = "resync" /\ pc'["login"] = "none"
        /\ UNCHANGED <<users, wire>> /\ ans'["back"] = ans["back"] /\ pc'["back"] = pc["back"]
        /\ Live /\ Resync(ans["login"], TRUE)
    BY <1>3 DEF LoggedIn
  <2>2. Fresh(p) /\ Counted(p) /\ users[p].friend
    BY <2>1 DEF Covered, Swagger
  <2>3. Old(ans["login"])
    BY <2>1 DEF DataInv, Flight, Flying, Waiting
  <2>4. ans["login"][p].rev = users[p].rev => ans["login"][p] = users[p]
    BY <2>3 DEF Old, Older
  <2>5. /\ ans["login"][p].rev \in Nat /\ users[p].rev \in Nat
        /\ newest[p] \in Nat /\ newest'[p] \in Nat /\ newest'[p] <= users[p].rev
    BY <2>1, <2>3 DEF Old, Docs, DataInv, STyped, TypedCache, CacheInv, Newest
  <2>6. /\ index' = {q \in Peers : ans["login"][q].friend}
        /\ newest'[p] >= ans["login"][p].rev /\ newest'[p] >= newest[p]
        /\ ans["login"][p].friend => p \in DOMAIN known'
        /\ DOMAIN known \subseteq DOMAIN known'
        /\ stale' = {q \in Peers : ans["login"][q].rev < newest[q]}
    <3>1. users \in [Peers -> Docs] /\ users' = users /\ TypedCache /\ CacheInv
      BY <2>1 DEF DataInv, STyped
    <3> QED
      BY <2>1, <2>3, <3>1, ResyncKeeps
  <2>7. ans["login"][p].rev = users[p].rev \/ Latest(p) => Latest(p)'
    BY <2>1, <2>2, <2>4, <2>5, <2>6 DEF Latest
  <2>8. ans["login"][p].friend \/ ans["login"][p].rev < newest[p] => p \in index' \/ p \in stale'
    BY <2>6
  <2> HIDE DEF Latest
  <2>9. Fresh(p)'
    BY <2>1, <2>2, <2>7 DEF Fresh, Coming
  <2>10. Counted(p)'
    BY <2>1, <2>2, <2>8 DEF Counted, ComingNew
  <2> QED
    BY <2>9, <2>10
<1> QED
  BY <1>1, <1>2, <1>3

\* The one of a connection made again.
LEMMA BackCovers ==
  ASSUME Located, Line, Alone, DataInv, DataInv', Covered,
         Redial \/ Reconnected \/ AskAgain \/ Resynchronized
  PROVE  Covered'
<1> SUFFICES ASSUME Live', NEW p \in Peers, Swagger(p)' PROVE Fresh(p)' /\ Counted(p)'
  BY DEF Covered
<1>0. DOMAIN ans = Threads /\ users[p] \in Docs
  BY DEF DataInv, STyped
<1> USE <1>0 DEF Live, Located, Line, Alone, Goto, Hold, cache, server, network, barriers,
        hands, Threads, Beyond
<1>1. CASE Redial
  BY <1>1 DEF Redial, Fresh, Counted
<1>2. CASE Reconnected
  <2>1. pc' = [pc EXCEPT !["back"] = "ask"]
    <3>1. inMeta'
      OBVIOUS
    <3>2. inMeta
      BY <3>1, <1>2, Zenon DEF Reconnected
    <3> QED
      BY <3>2, <1>2, Zenon DEF Reconnected
  <2> QED
    BY <2>1 DEF Fresh, Counted
<1>3. CASE AskAgain
  BY <1>3 DEF AskAgain, Fresh, Counted, Swagger
<1>4. CASE Resynchronized
  <2>1. /\ pc["back"] = "resync" /\ pc'["back"] = "none"
        /\ UNCHANGED <<users, wire>> /\ ans'["login"] = ans["login"]
        /\ pc'["login"] = pc["login"]
        /\ Live /\ Resync(ans["back"], FALSE)
    BY <1>4 DEF Resynchronized
  <2>2. Fresh(p) /\ Counted(p) /\ users[p].friend
    BY <2>1 DEF Covered, Swagger
  <2>3. Old(ans["back"])
    BY <2>1 DEF DataInv, Flight, Flying, Waiting
  <2>4. ans["back"][p].rev = users[p].rev => ans["back"][p] = users[p]
    BY <2>3 DEF Old, Older
  <2>5. /\ ans["back"][p].rev \in Nat /\ users[p].rev \in Nat
        /\ newest[p] \in Nat /\ newest'[p] \in Nat /\ newest'[p] <= users[p].rev
    BY <2>1, <2>3 DEF Old, Docs, DataInv, STyped, TypedCache, CacheInv, Newest
  <2>6. /\ index' = {q \in Peers : ans["back"][q].friend}
        /\ newest'[p] >= ans["back"][p].rev
        /\ ans["back"][p].friend => p \in DOMAIN known'
    <3>1. users \in [Peers -> Docs] /\ users' = users /\ TypedCache /\ CacheInv
      BY <2>1 DEF DataInv, STyped
    <3> QED
      BY <2>1, <2>3, <3>1, ResyncKeeps
  <2>7. ans["back"][p].rev = users[p].rev => Latest(p)'
    BY <2>1, <2>2, <2>4, <2>5, <2>6 DEF Latest
  <2>8. ans["back"][p].friend => p \in index'
    BY <2>6
  <2>9. ASSUME pc["login"] = "resync", ans["back"][p].friend
        PROVE  ans["login"][p].friend \/ ans["login"][p].rev < newest'[p]
    <3>1. {ans["login"], ans["back"]} \subseteq Flying
      BY <2>1, <2>9 DEF Flying, Waiting
    <3>2. ~ans["login"][p].friend => ans["login"][p].rev < ans["back"][p].rev
      BY <2>9, <3>1 DEF DataInv, Flight
    <3>3. ans["login"][p].rev \in Nat
      BY <3>1 DEF DataInv, Flight, Old, Docs
    <3> QED
      BY <2>5, <2>6, <3>2, <3>3
  <2> HIDE DEF Latest
  <2>10. Fresh(p)'
    BY <2>1, <2>2, <2>7 DEF Fresh, Coming
  <2>11. Counted(p)'
    BY <2>1, <2>2, <2>8, <2>9 DEF Counted, ComingNew
  <2> QED
    BY <2>10, <2>11
<1> QED
  BY <1>1, <1>2, <1>3, <1>4

\* An answer to the interface is one more thing applied.
LEMMA FoundCovers ==
  ASSUME Located, DataInv, DataInv', Covered, Found PROVE Covered'
<1> SUFFICES ASSUME Live', NEW p \in Peers, Swagger(p)' PROVE Fresh(p)' /\ Counted(p)'
  BY DEF Covered
<1>1. PICK q \in Peers : UserSync(q, ans["gui"], FALSE)
  BY DEF Found
<1>2. Old(ans["gui"])
  BY DEF Found, DataInv, Flight, Flying, Waiting, Threads
<1>3. /\ Takes(q, ans["gui"][q].rev) /\ ans["gui"][q].rev \in Nat
      /\ ans["gui"][q].rev <= users[q].rev
  BY <1>1, <1>2, SyncTakes DEF DataInv, STyped
<1>4. /\ UNCHANGED <<users, wire, job, index, held, link, inMeta>>
      /\ \A t \in {"login", "back", "poll"} : pc'[t] = pc[t] /\ ans'[t] = ans[t]
  BY <1>1 DEF Found, Goto, Hold, network, Located, UserSync, Threads, DataInv, STyped
<1>5. CacheInv' /\ TypedCache'
  BY DEF DataInv, STyped
<1>6. /\ Latest(p) => Latest(p)'
      /\ newest'[p] \in Nat /\ newest[p] \in Nat /\ newest'[p] >= newest[p]
      /\ p \in stale => p \in stale'
  BY <1>3, <1>4, <1>5, TakesCovers
<1>7. Fresh(p) /\ Counted(p)
  BY <1>4 DEF Covered, Live, Swagger
<1>8. pc["login"] = "resync" => ans["login"][p].rev \in Nat
  BY DEF DataInv, STyped, Waiting, Threads, Docs
<1>9. Fresh(p)'
  BY <1>4, <1>6, <1>7 DEF Fresh, Coming
<1>10. Counted(p)'
  BY <1>4, <1>6, <1>7, <1>8 DEF Counted, ComingNew
<1> QED
  BY <1>9, <1>10

\* A notification leaves the wire for the cache, or for the hands of the polling thread.
LEMMA HandleCovers ==
  ASSUME Located, Line, Alone, DataInv, DataInv', Covered, Handle PROVE Covered'
<1> SUFFICES ASSUME Live', NEW p \in Peers, Swagger(p)' PROVE Fresh(p)' /\ Counted(p)'
  BY DEF Covered
<1> DEFINE n == Head(wire)
<1>1. /\ pc["poll"] = "watch" /\ ~held /\ wire # <<>> /\ wire' = Tail(wire)
      /\ UNCHANGED <<users, held, link, inMeta>>
      /\ pc'["back"] = pc["back"] /\ pc'["login"] = pc["login"]
      /\ pc["back"] = "none" /\ pc["login"] \notin Beyond
  BY DEF Handle, Goto, Located, Line, Alone, Threads
<1>2. In(wire) = {n} \union In(wire')
  BY <1>1, InTail DEF DataInv, STyped
<1>3. Fresh(p) /\ Counted(p)
  BY <1>1 DEF Covered, Live, Swagger
<1>4. /\ Coming(p) => Coming(p)' \/ (n.type # "invalid" /\ n.peer = p /\ n.rev = users[p].rev)
      /\ ComingNew(p) => ComingNew(p)' \/ (n.type = "new" /\ n.peer = p)
  BY <1>1, <1>2 DEF Coming, ComingNew
<1>5. /\ Coming(p) \/ Latest(p)
      /\ ComingNew(p) \/ p \in index \/ p \in stale
  BY <1>1, <1>3 DEF Fresh, Counted, Beyond
<1>6. CASE n.type = "invalid"
  <2>1. pc'["poll"] = "leave"
    BY <1>6 DEF Handle, Goto, Located, Threads
  <2> QED
    BY <2>1, <1>1 DEF Live, Beyond
<1>7. CASE n.type # "invalid" /\ MustFetch(n)
  <2>1. pc'["poll"] = "apply" /\ job' = n /\ UNCHANGED cache
    BY <1>7 DEF Handle, Goto, Located, Threads
  <2>2. Latest(p) => Latest(p)'
    BY <2>1, <1>1 DEF Latest, cache
  <2>3. Fresh(p)'
    BY <1>1, <1>4, <1>5, <2>1, <2>2 DEF Fresh, Beyond
  <2>4. Counted(p)'
    BY <1>1, <1>4, <1>5, <2>1 DEF Counted, Beyond, cache
  <2> QED
    BY <2>3, <2>4
<1>8. CASE n.type # "invalid" /\ ~MustFetch(n)
  <2>1. StatusUpdate(n) /\ UNCHANGED <<pc, hands>> /\ n.peer \in DOMAIN known
        /\ n.type = "status"
    BY <1>8 DEF Handle, MustFetch
  <2>2. OldNote(n)
    BY <1>1, <1>8, Handled DEF DataInv
  <2>3. Takes(n.peer, n.rev) /\ index' = index
    BY <2>1, <2>2, UpdateTakes DEF DataInv, STyped
  <2>4. n.peer \in Peers /\ n.rev \in Nat /\ n.rev <= users[n.peer].rev
    BY <2>2 DEF OldNote, Notes
  <2>5. CacheInv' /\ TypedCache'
    BY DEF DataInv, STyped
  <2>6. /\ Latest(p) => Latest(p)'
        /\ p \in stale => p \in stale'
        /\ p = n.peer /\ n.rev = users[p].rev => Latest(p)'
    BY <1>1, <2>3, <2>4, <2>5, TakesCovers
  <2>7. Latest(p)' \/ Coming(p)'
    BY <1>4, <1>5, <2>6
  <2>8. ComingNew(p)' \/ p \in index' \/ p \in stale'
    BY <1>4, <1>5, <2>1, <2>3, <2>6
  <2> QED
    BY <1>1, <2>1, <2>7, <2>8 DEF Fresh, Counted, Beyond
<1> QED
  BY <1>6, <1>7, <1>8

\* ... and from there for the cache, with the answer of meta.
LEMMA FetchedCovers ==
  ASSUME Located, Line, Alone, DataInv, DataInv', Covered, Fetched PROVE Covered'
<1> SUFFICES ASSUME Live', NEW p \in Peers, Swagger(p)' PROVE Fresh(p)' /\ Counted(p)'
  BY DEF Covered
<1> DEFINE a == ans["poll"]
           n == job
<1>1. /\ pc["poll"] = "apply" /\ pc'["poll"] = "watch"
      /\ UNCHANGED <<users, held, link, inMeta, wire>>
      /\ \A t \in {"login", "back"} : pc'[t] = pc[t] /\ ans'[t] = ans[t]
      /\ pc["login"] \notin Beyond
  BY DEF Fetched, Goto, Hold, Located, Alone, Threads, network, DataInv, STyped
<1>2. Fresh(p) /\ Counted(p)
  BY <1>1 DEF Covered, Live, Swagger
<1>3. OldNote(n) /\ Old(a) /\ n \in Notes /\ n.rev <= a[n.peer].rev
  BY <1>1, Applied1 DEF DataInv
<1>4. n.peer \in Peers /\ n.rev \in Nat /\ n.type \in {"new", "status", "gone"}
      /\ n.rev <= users[n.peer].rev
  BY <1>3 DEF Notes, OldNote
<1>5. users \in [Peers -> Docs] /\ TypedCache /\ CacheInv' /\ TypedCache'
  BY DEF DataInv, STyped
<1>6. \E rev \in Nat : /\ Takes(n.peer, rev) /\ rev <= users[n.peer].rev
                       /\ n.rev <= rev \/ n.type = "gone"
                       /\ IF n.type = "gone" THEN index' = index \ {n.peer}
                                             ELSE index \subseteq index'
                       /\ n.type = "new" => n.peer \in index'
  <2>1. CASE n.type = "status"
    <3>1. StatusFetched(n, a)
      BY <2>1 DEF Fetched
    <3>2. Takes(n.peer, n.rev) /\ index \subseteq index'
      BY <3>1, <1>3, <1>5, FetchedTakes
    <3> QED
      BY <2>1, <3>2, <1>4
  <2>2. CASE n.type = "new"
    <3>1. UserSync(n.peer, a, TRUE)
      BY <2>2 DEF Fetched, NewSwagger
    <3>2. users[n.peer].friend
      BY <1>3 DEF OldNote
    <3>3. /\ Takes(n.peer, a[n.peer].rev) /\ a[n.peer].rev \in Nat
          /\ a[n.peer].rev <= users[n.peer].rev
          /\ index \subseteq index' /\ n.peer \in index'
      BY <3>1, <3>2, <1>3, <1>4, <1>5, SyncTakes
    <3> QED
      BY <2>2, <3>3, <1>3
  <2>3. CASE n.type = "gone"
    <3>1. DeletedSwagger(n, a)
      BY <2>3 DEF Fetched
    <3>2. /\ Takes(n.peer, a[n.peer].rev) /\ a[n.peer].rev \in Nat
          /\ a[n.peer].rev <= users[n.peer].rev /\ index' = index \ {n.peer}
      BY <3>1, <1>3, <1>5, DeletedTakes
    <3> QED
      BY <2>3, <3>2
  <2> QED
    BY <1>4, <2>1, <2>2, <2>3
<1>7. PICK rev \in Nat : /\ Takes(n.peer, rev) /\ rev <= users[n.peer].rev
                         /\ n.rev <= rev \/ n.type = "gone"
                         /\ IF n.type = "gone" THEN index' = index \ {n.peer}
                                               ELSE index \subseteq index'
                         /\ n.type = "new" => n.peer \in index'
  BY <1>6
<1>8. /\ Latest(p) => Latest(p)'
      /\ p \in stale => p \in stale'
      /\ p = n.peer /\ rev = users[p].rev => Latest(p)'
  BY <1>1, <1>4, <1>5, <1>7, TakesCovers
<1>9. p = n.peer => n.type # "gone"
  BY <1>1, <1>3 DEF OldNote, Swagger
<1>10. p = n.peer /\ n.rev = users[p].rev => Latest(p)'
  BY <1>4, <1>7, <1>8, <1>9
<1>11. p \in index => p \in index'
  BY <1>7, <1>9
<1>12. p = n.peer /\ n.type = "new" => p \in index'
  BY <1>7
<1>13. (Coming(p) <=> Coming(p)') /\ (ComingNew(p) <=> ComingNew(p)')
  BY <1>1 DEF Coming, ComingNew
<1>14. Fresh(p)'
  BY <1>1, <1>2, <1>8, <1>10, <1>13 DEF Fresh, Beyond
<1>15. Counted(p)'
  BY <1>1, <1>2, <1>8, <1>11, <1>12, <1>13 DEF Counted, Beyond
<1> QED
  BY <1>14, <1>15

\* What meta changes it tells.
LEMMA MetaCovers ==
  ASSUME Located, DataInv, Covered,
         Changed \/ PullDevice \/ RemoveSession \/ Kickout
  PROVE  Covered'
<1> SUFFICES ASSUME Live', NEW p \in Peers, Swagger(p)' PROVE Fresh(p)' /\ Counted(p)'
  BY DEF Covered
<1>0. wire \in Seq(Notes \union {Invalid})
  BY DEF DataInv, STyped
<1>1. CASE PullDevice \/ RemoveSession \/ Kickout
  <2>1. /\ UNCHANGED <<users, cache, pc, ans, job, inMeta, held, link>>
        /\ wire' \in {wire, Append(wire, Invalid)}
    BY <1>1 DEF PullDevice, RemoveSession, Kickout, Silence, Push, hands, cache, Invalid
  <2>2. In(wire) \subseteq In(wire')
    <3>1. CASE wire' = wire
      BY <3>1
    <3>2. CASE wire' = Append(wire, Invalid)
      <4>1. Invalid \in Notes \union {Invalid}
        OBVIOUS
      <4> QED
        BY <4>1, <3>2, <1>0, InAppend
    <3> QED
      BY <2>1, <3>1, <3>2
  <2>3. Fresh(p) /\ Counted(p)
    BY <2>1 DEF Covered, Live, Swagger
  <2>4. (Coming(p) => Coming(p)') /\ (ComingNew(p) => ComingNew(p)') /\ (Latest(p) <=> Latest(p)')
    BY <2>1, <2>2 DEF Coming, ComingNew, Latest, cache
  <2> QED
    BY <2>1, <2>3, <2>4 DEF Fresh, Counted, cache
<1>2. CASE Changed
  <2>1. PICK q \in Peers :
          /\ Changes(q) /\ UNCHANGED <<cache, pc, ans, job, link>>
          /\ \/ wire' = wire /\ (link = "up" => ~users'[q].friend)
             \/ link = "up" /\ \E type \in {"new", "status", "gone"} :
                  /\ wire' = Append(wire, Note(type, q))
                  /\ users'[q].friend
                  /\ type = "gone" => users'[q].state = "deleted"
                  /\ ~users[q].friend => type = "new"
    BY <1>2, ChangedIs DEF DataInv
  <2>2. UNCHANGED <<held, inMeta>>
    BY <1>2 DEF Changed, Tell, network
  <2>3. Live
    BY <2>1, <2>2 DEF Live
  <2>4. In(wire) \subseteq In(wire')
    <3>1. CASE wire' = wire
      BY <3>1
    <3>2. ASSUME NEW type \in {"new", "status", "gone"}, wire' = Append(wire, Note(type, q))
          PROVE  In(wire) \subseteq In(wire')
      <4>1. Note(type, q) \in Notes
        BY <2>1 DEF Note, Notes, Docs, Changes
      <4> QED
        BY <4>1, <3>2, <1>0, InAppend
    <3> QED
      BY <2>1, <3>1, <3>2
  <2>5. CASE p # q
    <3>1. users'[p] = users[p]
      BY <2>1, <2>5 DEF Changes
    <3>2. Fresh(p) /\ Counted(p)
      BY <2>3, <3>1 DEF Covered, Swagger
    <3>3. /\ Coming(p) => Coming(p)'
          /\ ComingNew(p) => ComingNew(p)'
          /\ Latest(p) <=> Latest(p)'
      BY <2>1, <2>4, <3>1 DEF Coming, ComingNew, Latest, cache
    <3> QED
      BY <2>1, <3>1, <3>2, <3>3 DEF Fresh, Counted, cache
  <2>6. CASE p = q
    <3>1. PICK type \in {"new", "status", "gone"} :
                  /\ wire' = Append(wire, Note(type, p))
                  /\ users'[p].friend
                  /\ ~users[p].friend => type = "new"
      BY <2>1, <2>3, <2>6 DEF Live, Swagger
    <3>2. Note(type, p) \in Notes /\ Note(type, p).type = type /\ Note(type, p).peer = p
          /\ Note(type, p).rev = users'[p].rev
      BY <2>1 DEF Note, Notes, Docs, Changes
    <3>3. Note(type, p) \in In(wire')
      BY <3>1, <3>2, <1>0, InAppend
    <3>4. Coming(p)'
      BY <3>2, <3>3 DEF Coming
    <3>5. Counted(p)'
      <4>1. CASE users[p].friend
        <5>1. Counted(p)
          BY <4>1, <2>1, <2>3, <2>6 DEF Covered, Swagger, Changes
        <5>2. ComingNew(p) => ComingNew(p)'
          BY <2>4 DEF ComingNew
        <5> QED
          BY <5>1, <5>2, <2>1 DEF Counted, cache
      <4>2. CASE ~users[p].friend
        BY <4>2, <3>1, <3>2, <3>3 DEF Counted, ComingNew
      <4> QED
        BY <4>1, <4>2
    <3> QED
      BY <3>4, <3>5 DEF Fresh
  <2> QED
    BY <2>5, <2>6
<1> QED
  BY <1>1, <1>2

LEMMA CoveredNext ==
  ASSUME Control, DataInv, DataInv', Covered, [SNext]_svars PROVE Covered'
<1> USE DEF Control
<1>1. CASE Changed \/ PullDevice \/ RemoveSession \/ Kickout
  BY <1>1, MetaCovers
<1>2. CASE Logout \/ Kick \/ Cut \/ UNCHANGED svars
  BY <1>2, CoversAlone
<1>3. CASE Interface
  BY <1>3, CoversAlone, FoundCovers DEF Interface
<1>4. CASE Login
  BY <1>4, CoversAlone, LoginCovers DEF Login
<1>5. CASE Poll
  BY <1>5, HandleCovers, FetchedCovers DEF Poll
<1>6. CASE Reconnect \/ Back
  BY <1>6, CoversAlone, BackCovers DEF Reconnect, Back
<1> QED
  BY <1>1, <1>2, <1>3, <1>4, <1>5, <1>6 DEF SNext

LEMMA CoveredInit == SInit => Covered
  BY DEF SInit, Covered, Live

\* Whatever is lost with a connection, and whatever answer overtakes a notification, a
\* client at rest that is logged in knows its swaggers as meta does: Peers is any set,
\* and changes, calls, failures and lost connections are as many as they like.
THEOREM SwaggersFollowed == SSpec => []SwaggersKnown
<1>1. SInit => Control /\ DataInv /\ Covered
  BY ControlInit, DataInit, CoveredInit
<1>2. Control /\ DataInv /\ Covered /\ [SNext]_svars => (Control /\ DataInv /\ Covered)'
  <2> SUFFICES ASSUME Control, DataInv, Covered, [SNext]_svars
               PROVE  (Control /\ DataInv /\ Covered)'
    OBVIOUS
  <2>1. Control'
    BY ControlNext
  <2>2. DataInv'
    BY DataNext DEF Control
  <2>3. Covered'
    BY <2>2, CoveredNext
  <2> QED
    BY <2>1, <2>2, <2>3
<1> QED
  BY <1>1, <1>2, RestEnough, PTL DEF SSpec

-----------------------------------------------------------------------------
(***************************************************************************)
(* Rendezvous.                                                             *)
(***************************************************************************)

(***************************************************************************)
(* What is in an inbox.                                                    *)
(***************************************************************************)

\* m is the last of its kind; there is none of that kind.
Says(q, k, m) == \E i \in DOMAIN q : /\ q[i] = m /\ m.is = k
                                     /\ \A j \in DOMAIN q : j > i => q[j].is # k
Silent(q, k) == \A i \in DOMAIN q : q[i].is # k

\* m says that the peer is not reachable; no message does; none does after m.
Ends(m) == m.is = "reach" /\ ~m.status
Lasting(q) == \A i \in DOMAIN q : ~Ends(q[i])
Stands(q, m) == \E i \in DOMAIN q : /\ q[i] = m
                                    /\ \A j \in DOMAIN q : j > i => ~Ends(q[j])

\* What meta sends.
Sent == {m \in Message : m.is = "halt" => m.ok}

LEMMA Messages ==
  ASSUME NEW m \in Message
  PROVE  \/ m \in [is : {"reach"}, status : {TRUE}, val : Lives \ {0}, ok : BOOLEAN]
         \/ m \in [is : {"reach"}, status : {FALSE}, val : {0}, ok : BOOLEAN]
         \/ m \in [is : {"peer", "halt"}, val : BOOLEAN, ok : BOOLEAN]
  BY DEF Message

LEMMA Couple ==
  ASSUME NEW d \in Devices
  PROVE  /\ other(d) \in Devices /\ other(d) # d /\ other(other(d)) = d
         /\ \A e \in Devices : e = d \/ e = other(d)
<1>1. PICK a \in Devices, b \in Devices : a # b /\ Devices = {a, b}
  BY RendezvousAssumption
<1>2. \A x \in Devices : other(x) \in Devices /\ other(x) # x
  BY <1>1 DEF other
<1> QED
  BY <1>1, <1>2

LEMMA Joining ==
  ASSUME NEW S, NEW q \in Seq(S), NEW s \in Seq(S)
  PROVE  /\ q \o s \in Seq(S)
         /\ \A k, m : Says(q \o s, k, m) => Says(s, k, m) \/ (Silent(s, k) /\ Says(q, k, m))
         /\ \A k : Silent(q \o s, k) <=> Silent(q, k) /\ Silent(s, k)
         /\ \A m : Stands(q \o s, m) => Stands(s, m) \/ (Lasting(s) /\ Stands(q, m))
         /\ Lasting(q \o s) <=> Lasting(q) /\ Lasting(s)
<1> DEFINE r == q \o s
<1>1. /\ r \in Seq(S) /\ DOMAIN r = 1..(Len(q) + Len(s)) /\ Len(q) \in Nat /\ Len(s) \in Nat
      /\ DOMAIN q = 1..Len(q) /\ DOMAIN s = 1..Len(s)
      /\ \A i \in 1..(Len(q) + Len(s)) : r[i] = IF i <= Len(q) THEN q[i] ELSE s[i - Len(q)]
  BY ConcatProperties, LenProperties
<1>2. \A i \in DOMAIN q : i \in DOMAIN r /\ r[i] = q[i]
  BY <1>1
<1>3. \A i \in DOMAIN s : i + Len(q) \in DOMAIN r /\ r[i + Len(q)] = s[i]
  BY <1>1
<1>4. \A i \in DOMAIN r : \/ i \in DOMAIN q /\ r[i] = q[i]
                          \/ i - Len(q) \in DOMAIN s /\ r[i] = s[i - Len(q)] /\ i \notin DOMAIN q
  BY <1>1
<1> HIDE DEF r
<1>5. \A k : Silent(r, k) <=> Silent(q, k) /\ Silent(s, k)
  BY <1>2, <1>3, <1>4 DEF Silent
<1>6. Lasting(r) <=> Lasting(q) /\ Lasting(s)
  BY <1>2, <1>3, <1>4 DEF Lasting
<1>7. \A i \in DOMAIN r : \A j \in DOMAIN s : i \in DOMAIN q => j + Len(q) > i
  BY <1>1
<1>8. \A i \in DOMAIN r : \A j \in DOMAIN s : j > i - Len(q) => j + Len(q) > i
  BY <1>1
<1>9. \A k, m : Says(r, k, m) => Says(s, k, m) \/ (Silent(s, k) /\ Says(q, k, m))
  <2> SUFFICES ASSUME NEW k, NEW m, NEW i \in DOMAIN r, r[i] = m, m.is = k,
                      \A j \in DOMAIN r : j > i => r[j].is # k
               PROVE  Says(s, k, m) \/ (Silent(s, k) /\ Says(q, k, m))
    BY DEF Says
  <2>1. CASE i \in DOMAIN q /\ r[i] = q[i]
    BY <2>1, <1>2, <1>3, <1>7 DEF Says, Silent
  <2>2. CASE i - Len(q) \in DOMAIN s /\ r[i] = s[i - Len(q)]
    BY <2>2, <1>3, <1>8 DEF Says
  <2> QED
    BY <1>4, <2>1, <2>2
<1>10. \A m : Stands(r, m) => Stands(s, m) \/ (Lasting(s) /\ Stands(q, m))
  <2> SUFFICES ASSUME NEW m, NEW i \in DOMAIN r, r[i] = m,
                      \A j \in DOMAIN r : j > i => ~Ends(r[j])
               PROVE  Stands(s, m) \/ (Lasting(s) /\ Stands(q, m))
    BY DEF Stands
  <2>1. CASE i \in DOMAIN q /\ r[i] = q[i]
    BY <2>1, <1>2, <1>3, <1>7 DEF Stands, Lasting
  <2>2. CASE i - Len(q) \in DOMAIN s /\ r[i] = s[i - Len(q)]
    BY <2>2, <1>3, <1>8 DEF Stands
  <2> QED
    BY <1>4, <2>1, <2>2
<1> QED
  BY <1>1, <1>5, <1>6, <1>9, <1>10 DEF r

\* No message, and one.
LEMMA Single ==
  /\ \A k : Silent(<<>>, k) /\ \A m : ~Says(<<>>, k, m)
  /\ Lasting(<<>>) /\ \A m : ~Stands(<<>>, m)
  /\ \A x, k : /\ Silent(<<x>>, k) <=> x.is # k
               /\ x.is = k => Says(<<x>>, k, x)
               /\ \A m : Says(<<x>>, k, m) => m = x /\ x.is = k
  /\ \A x : (Lasting(<<x>>) <=> ~Ends(x)) /\ \A m : Stands(<<x>>, m) => m = x
  BY DEF Silent, Says, Lasting, Stands

\* There is a last one of a kind.
LEMMA Lately ==
  ASSUME NEW S, NEW q \in Seq(S), NEW k, ~Silent(q, k)
  PROVE  \E m : Says(q, k, m)
<1>1. Len(q) \in Nat /\ DOMAIN q = 1..Len(q)
  BY LenProperties
<1> DEFINE R == {Len(q) - i : i \in {j \in DOMAIN q : q[j].is = k}}
<1>2. R \subseteq Nat /\ R # {}
  BY <1>1 DEF Silent
<1>3. PICK x \in R : \A y \in R : <<y, x>> \notin OpToRel(<, Nat)
  <2> HIDE DEF R
  <2> QED
    BY <1>2, NatLessThanWellFounded, WFMin
<1>4. \A y \in R : ~(y < x)
  <2>1. OpToRel(<, Nat) = {ss \in Nat \X Nat : ss[1] < ss[2]}
    BY Zenon DEF OpToRel
  <2> HIDE DEF R
  <2> QED
    BY <1>2, <1>3, <2>1
<1>5. PICK i \in DOMAIN q : x = Len(q) - i /\ q[i].is = k
  BY <1>3
<1>6. ASSUME NEW j \in DOMAIN q, j > i PROVE q[j].is # k
  <2>1. CASE q[j].is = k
    <3>1. Len(q) - j \in R
      BY <2>1
    <3>2. ~(Len(q) - j < x)
      BY <3>1, <1>4
    <3> QED
      BY <3>2, <1>1, <1>5, <1>6
  <2> QED
    BY <2>1
<1> QED
  BY <1>5, <1>6 DEF Says

\* One message is taken.
LEMMA Taking ==
  ASSUME NEW S, NEW q \in Seq(S), q # <<>>
  PROVE  /\ Tail(q) \in Seq(S) /\ Head(q) \in S
         /\ \A k, m : Says(Tail(q), k, m) => Says(q, k, m)
         /\ \A k : Silent(Tail(q), k) =>
                     IF Head(q).is = k THEN Says(q, k, Head(q)) ELSE Silent(q, k)
         /\ \A m : Stands(Tail(q), m) => Stands(q, m)
         /\ Lasting(Tail(q)) => Stands(q, Head(q)) /\ (Ends(Head(q)) \/ Lasting(q))
<1> DEFINE r == Tail(q)
           h == Head(q)
<1>1. /\ r \in Seq(S) /\ h \in S /\ h = q[1]
      /\ Len(q) \in Nat \ {0} /\ Len(r) = Len(q) - 1
      /\ \A i \in 1..Len(r) : r[i] = q[i + 1]
      /\ DOMAIN q = 1..Len(q) /\ DOMAIN r = 1..Len(r)
  BY HeadTailProperties, EmptySeq, LenProperties
<1>2. \A i \in DOMAIN r : i + 1 \in DOMAIN q /\ r[i] = q[i + 1] /\ i \in Int
  BY <1>1
<1>3. \A i \in DOMAIN q : i \in Int /\ (i = 1 \/ (i - 1 \in DOMAIN r /\ r[i - 1] = q[i]))
  BY <1>1
<1>4. 1 \in DOMAIN q /\ h = q[1]
  BY <1>1
<1> HIDE DEF r, h
<1>5. \A k, m : Says(r, k, m) => Says(q, k, m)
  <2> SUFFICES ASSUME NEW k, NEW m, NEW i \in DOMAIN r, r[i] = m, m.is = k,
                      \A j \in DOMAIN r : j > i => r[j].is # k
               PROVE  Says(q, k, m)
    BY DEF Says
  <2>1. ASSUME NEW j \in DOMAIN q, j > i + 1 PROVE q[j].is # k
    <3>1. j # 1 /\ j - 1 > i
      BY <2>1, <1>2, <1>3, <1>1
    <3> QED
      BY <3>1, <1>3
  <2> QED
    BY <1>2, <2>1 DEF Says
<1>6. \A m : Stands(r, m) => Stands(q, m)
  <2> SUFFICES ASSUME NEW m, NEW i \in DOMAIN r, r[i] = m,
                      \A j \in DOMAIN r : j > i => ~Ends(r[j])
               PROVE  Stands(q, m)
    BY DEF Stands
  <2>1. ASSUME NEW j \in DOMAIN q, j > i + 1 PROVE ~Ends(q[j])
    <3>1. j # 1 /\ j - 1 > i
      BY <2>1, <1>2, <1>3, <1>1
    <3> QED
      BY <3>1, <1>3
  <2> QED
    BY <1>2, <2>1 DEF Stands
<1>7. \A k : Silent(r, k) => IF h.is = k THEN Says(q, k, h) ELSE Silent(q, k)
  <2> SUFFICES ASSUME NEW k, Silent(r, k)
               PROVE  IF h.is = k THEN Says(q, k, h) ELSE Silent(q, k)
    OBVIOUS
  <2>1. \A j \in DOMAIN q : j # 1 => q[j].is # k
    BY <1>3 DEF Silent
  <2>2. \A j \in DOMAIN q : j > 1 => q[j].is # k
    BY <2>1, <1>3
  <2>3. CASE h.is = k
    BY <2>2, <2>3, <1>4 DEF Says
  <2>4. CASE h.is # k
    BY <2>1, <2>4, <1>4 DEF Silent
  <2> QED
    BY <2>3, <2>4
<1>8. Lasting(r) => Stands(q, h) /\ (Ends(h) \/ Lasting(q))
  <2> SUFFICES ASSUME Lasting(r) PROVE Stands(q, h) /\ (Ends(h) \/ Lasting(q))
    OBVIOUS
  <2>1. \A j \in DOMAIN q : j # 1 => ~Ends(q[j])
    BY <1>3 DEF Lasting
  <2>2. \A j \in DOMAIN q : j > 1 => ~Ends(q[j])
    BY <2>1, <1>3
  <2> QED
    BY <2>1, <2>2, <1>4 DEF Stands, Lasting
<1> QED
  BY <1>1, <1>5, <1>6, <1>7, <1>8 DEF r, h

\* What is lost with messages.
LEMMA Losing ==
  ASSUME NEW q \in Seq(Sent)
  PROVE  /\ Losses(q) \subseteq {"reach", "halt"}
         /\ Lasting(q) \/ "reach" \in Losses(q)
         /\ \A m : Says(q, "halt", m) => m \in Sent /\ (m.val \/ "halt" \in Losses(q))
<1>1. \A i \in DOMAIN q : q[i] \in Sent
  OBVIOUS
<1>2. \A m \in Sent : Loss(m) \subseteq {"reach", "halt"}
  BY DEF Loss, Unreach, Halt
<1>3. \A m \in Sent : Ends(m) => "reach" \in Loss(m)
  <2> SUFFICES ASSUME NEW m \in Sent, Ends(m) PROVE "reach" \in Loss(m)
    OBVIOUS
  <2>1. m \in Message /\ m.is = "reach" /\ ~m.status
    BY DEF Sent, Ends
  <2>2. m \notin [is : {"reach"}, status : {TRUE}, val : Lives \ {0}, ok : BOOLEAN]
    BY <2>1, Zenon
  <2>3. m \notin [is : {"peer", "halt"}, val : BOOLEAN, ok : BOOLEAN]
    BY <2>1
  <2>4. m \in [is : {"reach"}, status : {FALSE}, val : {0}, ok : BOOLEAN]
    BY <2>1, <2>2, <2>3, Messages
  <2>5. m = [is |-> m.is, status |-> m.status, val |-> m.val, ok |-> m.ok]
    BY <2>4
  <2>6. m.is = "reach" /\ m.status = FALSE /\ m.val = 0 /\ m.ok \in {TRUE, FALSE}
    BY <2>4, Zenon
  <2>7. m = [is |-> "reach", status |-> FALSE, val |-> 0, ok |-> m.ok]
    BY <2>5, <2>6, Zenon
  <2>8. m = Unreach(TRUE) \/ m = Unreach(FALSE)
    BY <2>6, <2>7, Zenon DEF Unreach
  <2>9. m.is \in Loss(m)
    BY <2>8 DEF Loss
  <2> QED
    BY <2>6, <2>9
<1>4. \A m \in Sent : m.is = "halt" => m.val \/ "halt" \in Loss(m)
  <2> SUFFICES ASSUME NEW m \in Sent, m.is = "halt", ~m.val PROVE "halt" \in Loss(m)
    OBVIOUS
  <2>1. m \in [is : {"peer", "halt"}, val : BOOLEAN, ok : BOOLEAN] /\ m.ok
    BY Messages DEF Sent
  <2>2. m = [is |-> "halt", val |-> m.val, ok |-> m.ok] /\ m.val \in BOOLEAN /\ m.ok \in BOOLEAN
    BY <2>1
  <2>3. m = [is |-> "halt", val |-> FALSE, ok |-> TRUE]
    BY <2>1, <2>2
  <2> QED
    BY <2>3 DEF Loss, Halt
<1> HIDE DEF Sent
<1>5. \A i \in DOMAIN q : Loss(q[i]) \subseteq Losses(q)
  BY DEF Losses
<1>6. Losses(q) \subseteq {"reach", "halt"}
  BY <1>1, <1>2 DEF Losses
<1>7. Lasting(q) \/ "reach" \in Losses(q)
  BY <1>1, <1>3, <1>5 DEF Lasting
<1>8. \A m : Says(q, "halt", m) => m \in Sent /\ (m.val \/ "halt" \in Losses(q))
  BY <1>1, <1>4, <1>5 DEF Says
<1> QED
  BY <1>6, <1>7, <1>8

-----------------------------------------------------------------------------
(***************************************************************************)
(* The inductive invariant.                                                *)
(***************************************************************************)

Typed ==
  /\ node \in [Devices -> Lives]
  /\ online \in [Devices -> BOOLEAN] /\ leave \in [Devices -> BOOLEAN]
  /\ peer \in [Devices -> BOOLEAN] /\ halt \in [Devices -> BOOLEAN]
  /\ paused \in BOOLEAN
  /\ put \in [Devices -> [at : {"no", "written"}, seen : [Devices -> Lives]]]
  /\ pausing \in [at : {"no", "told"}, by : Devices \union {Nobody}, to : BOOLEAN]
  /\ conn \in [Devices -> {"off", "cut", "joined", "up"}]
  /\ inbox \in [Devices -> Seq(Sent)]
  /\ life \in [Devices -> Lives \ {0}]
  /\ fsm \in [Devices -> {"off", "synchronize", "publish", "connection", "wait",
                          "buffer", "transfer", "paused"}]
  /\ reach \in [Devices -> Lives]
  /\ missed \in [Devices -> SUBSET {"reach", "peer", "halt", "node"}]
  /\ faults \in 0..MaxFaults /\ pauses \in 0..MaxPauses

\* What the connection of a device tells of it.
Away(d) ==
  /\ ~Listening(d) => inbox[d] = <<>>
  /\ Listening(d) => online[d]
  /\ conn[d] = "off" => fsm[d] = "off"
  /\ conn[d] = "up" => fsm[d] # "off"
  /\ life[d] <= faults + 1 /\ (conn[d] = "off" => life[d] <= faults)

\* Whether the peer is there, by the last that was said of it; unless it left and
\* nobody was told.
PeerOk(d) ==
  LET e == other(d) IN
  /\ Listening(d) => \A m \in Sent : Says(inbox[d], "peer", m) /\ m.ok =>
                                       leave[e] \/ m.val = online[e]
  /\ conn[d] = "up" /\ Silent(inbox[d], "peer") /\ "peer" \notin missed[d] =>
       leave[e] \/ peer[d] = online[e]

\* Whether the transfer is paused. A request to pause tells again once it is written,
\* one to resume does not: who may have missed it is known to have, and who has only
\* joined still has the barrier as it was.
Pausing == pausing.at = "told" /\ pausing.to
Target == IF pausing.at = "told" THEN pausing.to ELSE paused

HaltOk(d) ==
  \/ Pausing
  \/ /\ Listening(d) => \A m \in Sent : Says(inbox[d], "halt", m) => m.val = Target
     /\ conn[d] = "up" /\ Silent(inbox[d], "halt") /\ "halt" \notin missed[d] =>
          halt[d] = Target
     /\ /\ conn[d] \in {"cut", "joined"} /\ fsm[d] # "off"
        /\ Silent(inbox[d], "halt") /\ "halt" \notin missed[d]
        => (halt[d] => Target)

\* The endpoints v of e are those meta has and those of its process, unless it left and
\* nobody was told.
Firm(e, v) == node[e] = v /\ online[e] /\ (Listening(e) \/ fsm[e] # "off" => life[e] = v)
Fine(e, v) == node[e] # 0 /\ (leave[e] \/ Firm(e, v))

\* The endpoints that a device has, and the ones that are on their way to it, are fine
\* unless word of their end is on its way too.
ReachOk(d) ==
  LET e == other(d) IN
  /\ \A m \in Sent : Stands(inbox[d], m) /\ m.is = "reach" /\ m.ok /\ m.val # 0 =>
                       Fine(e, m.val)
  /\ fsm[d] # "off" /\ "reach" \notin missed[d] /\ reach[d] # 0 /\ Lasting(inbox[d]) =>
       Fine(e, reach[d])

\* A device that has published has endpoints in meta, or is known to have lost them ...
Announced(d) == conn[d] = "up" /\ fsm[d] \in Meeting \union {"publish"}
Noted(d) == Announced(d) /\ "node" \notin missed[d] => node[d] # 0

\* ... and when both have some, the last that was said to it is that the peer is
\* reachable, or a request is about to tell it.
Both(d) == put[d].at = "written" /\ \A e \in Devices : put[d].seen[e] # 0
Owed(d) ==
  LET e == other(d) IN
  Announced(d) /\ node[d] # 0 /\ node[e] # 0 =>
    \/ Both(d) \/ Both(e)
    \/ /\ \A m \in Sent : Says(inbox[d], "reach", m) => m.val # 0
       /\ Silent(inbox[d], "reach") => reach[d] # 0

RInv == /\ Typed
        /\ \A d \in Devices : /\ Away(d) /\ PeerOk(d) /\ HaltOk(d)
                              /\ ReachOk(d) /\ Noted(d) /\ Owed(d)

\* It implies what is promised.
LEMMA InvEnough == RInv => Informed
<1> SUFFICES ASSUME RInv PROVE Informed
  OBVIOUS
<1>1. TypeOK
  <2>1. \A q : q \in Seq(Sent) => q \in Seq(Message)
    <3>1. Sent \subseteq Message
      BY DEF Sent
    <3> QED
      BY <3>1, SeqDef
  <2>2. inbox \in [Devices -> Seq(Message)]
    BY <2>1 DEF RInv, Typed
  <2> HIDE DEF Message
  <2> QED
    BY <2>2 DEF RInv, Typed, TypeOK
<1>2. ASSUME NEW d \in Devices, Settled, conn[d] = "up"
      PROVE  /\ "peer" \notin missed[d] => peer[d] = online[other(d)]
             /\ "halt" \notin missed[d] => halt[d] = paused
             /\ missed[d] \intersect {"reach", "node"} = {} /\ fsm[d] \in Meeting =>
                  reach[d] = node[other(d)]
  <2> DEFINE e == other(d)
  <2>1. e \in Devices /\ other(e) = d
    BY Couple
  <2>2. inbox[d] = <<>> /\ ~leave[e] /\ pausing = Calm /\ put[d] = Idle /\ put[e] = Idle
    BY <1>2, <2>1 DEF Settled
  <2>3. \A k : Silent(inbox[d], k) /\ Lasting(inbox[d])
    BY <2>2, Single
  <2>4. "peer" \notin missed[d] => peer[d] = online[e]
    BY <1>2, <2>2, <2>3 DEF RInv, PeerOk
  <2>5. "halt" \notin missed[d] => halt[d] = paused
    BY <1>2, <2>2, <2>3 DEF RInv, HaltOk, Pausing, Target, Calm
  <2>6. ASSUME "reach" \notin missed[d], "node" \notin missed[d], fsm[d] \in Meeting
        PROVE  reach[d] = node[e]
    <3>1. reach[d] # 0 => node[e] # 0 /\ reach[d] = node[e]
      BY <1>2, <2>2, <2>3, <2>6 DEF RInv, Away, ReachOk, Fine, Firm
    <3>2. node[d] # 0
      BY <1>2, <2>6 DEF RInv, Noted, Announced
    <3>3. node[e] # 0 => reach[d] # 0
      BY <1>2, <2>1, <2>2, <2>3, <2>6, <3>2 DEF RInv, Owed, Announced, Both, Idle
    <3> QED
      BY <3>1, <3>3
  <2> QED
    BY <2>4, <2>5, <2>6
<1> QED
  BY <1>1, <1>2 DEF Informed

LEMMA InvInit == Init => RInv
<1> SUFFICES ASSUME Init PROVE RInv
  OBVIOUS
<1> USE RendezvousAssumption DEF Init
<1>1. <<>> \in Seq(Sent)
  OBVIOUS
<1>2. 0 \in Lives /\ 1 \in Lives \ {0}
  BY DEF Lives
<1>3. Typed
  BY <1>1, <1>2 DEF Typed, Idle, Calm
<1>4. ASSUME NEW d \in Devices
      PROVE  Away(d) /\ PeerOk(d) /\ HaltOk(d) /\ ReachOk(d) /\ Noted(d) /\ Owed(d)
  <2> DEFINE e == other(d)
  <2>1. e \in Devices
    BY Couple
  <2>2. /\ inbox[d] = <<>> /\ conn[d] = "up" /\ online[d] /\ online[e] = TRUE
        /\ peer[d] = TRUE /\ halt[d] = paused /\ reach[d] = 0 /\ node[e] = 0
        /\ fsm[d] = "synchronize" /\ life[d] = 1 /\ faults = 0 /\ pausing = Calm
    BY <2>1
  <2>3. \A k, m : ~Says(inbox[d], k, m) /\ ~Stands(inbox[d], m)
    BY <2>2, Single
  <2>4. Away(d) /\ Noted(d) /\ Owed(d)
    BY <2>2 DEF Away, Noted, Owed, Announced, Listening, Meeting
  <2>5. PeerOk(d)
    BY <2>2, <2>3 DEF PeerOk
  <2>6. HaltOk(d)
    BY <2>2, <2>3 DEF HaltOk, Target, Calm
  <2>7. ReachOk(d)
    BY <2>2, <2>3 DEF ReachOk
  <2> QED
    BY <2>4, <2>5, <2>6, <2>7
<1> QED
  BY <1>3, <1>4 DEF RInv

-----------------------------------------------------------------------------
(***************************************************************************)
(* The steps that send nothing and take no message.                        *)
(***************************************************************************)

LEMMA LeaveKeeps ==
  ASSUME RInv, NEW x \in Devices, WriteLeave(x) PROVE RInv'
<1> USE DEF WriteLeave, Rest, meta, requests, machine
<1>1. Typed'
  BY Couple DEF RInv, Typed, Lives, Away
<1>2. ASSUME NEW d \in Devices
      PROVE  (Away(d) /\ PeerOk(d) /\ HaltOk(d) /\ ReachOk(d) /\ Noted(d) /\ Owed(d))'
  <2> DEFINE e == other(d)
  <2>0. e \in Devices /\ e # d /\ (x = d \/ x = e) /\ other(x) \in Devices
    BY Couple
  <2>1. /\ Away(d) /\ PeerOk(d) /\ HaltOk(d) /\ ReachOk(d) /\ Noted(d) /\ Owed(d)
        /\ Away(e) /\ Typed
    BY <2>0 DEF RInv
  <2>2. inbox' = inbox
    OBVIOUS
  <2>3. Away(d)'
    BY <2>0, <2>1 DEF Typed, Away, Listening, Lives
  <2>4. PeerOk(d)'
    BY <2>0, <2>1, <2>2 DEF Typed, PeerOk, Listening
  <2>5. HaltOk(d)'
    BY <2>0, <2>1, <2>2 DEF Typed, HaltOk, Listening, Pausing, Target
  <2>6. ReachOk(d)'
    BY <2>0, <2>1, <2>2 DEF Typed, ReachOk, Fine, Firm, Listening, Away
  <2>7. Noted(d)'
    BY <2>0, <2>1, <2>2 DEF Typed, Noted, Announced, Meeting
  <2>8. Owed(d)'
    BY <2>0, <2>1, <2>2 DEF Typed, Owed, Announced, Meeting, Both
  <2> QED
    BY <2>3, <2>4, <2>5, <2>6, <2>7, <2>8
<1> QED
  BY <1>1, <1>2 DEF RInv

LEMMA RestartKeeps ==
  ASSUME RInv, NEW x \in Devices, Restart(x) PROVE RInv'
<1> USE DEF Restart, Rest, meta, requests, machine
<1>1. Typed'
  <2>1. life[x] \in Nat /\ life[x] <= faults /\ faults <= MaxFaults /\ faults \in Nat
        /\ MaxFaults \in Nat
    BY SMTT(30), RendezvousAssumption DEF RInv, Away, Typed, Lives
  <2>2. life[x] + 1 \in Lives \ {0}
    BY <2>1 DEF Lives
  <2> QED
    BY <2>2 DEF RInv, Typed
<1>2. ASSUME NEW d \in Devices
      PROVE  (Away(d) /\ PeerOk(d) /\ HaltOk(d) /\ ReachOk(d) /\ Noted(d) /\ Owed(d))'
  <2> DEFINE e == other(d)
  <2>0. e \in Devices /\ e # d /\ (x = d \/ x = e) /\ other(x) \in Devices
    BY Couple
  <2>1. /\ Away(d) /\ PeerOk(d) /\ HaltOk(d) /\ ReachOk(d) /\ Noted(d) /\ Owed(d)
        /\ Away(e) /\ Typed
    BY <2>0 DEF RInv
  <2>2. inbox' = inbox
    OBVIOUS
  <2>3. Away(d)'
    <3>1. life[d] \in Nat /\ faults \in Nat
      BY SMTT(30), RendezvousAssumption DEF RInv, Typed, Lives
    <3> QED
      BY <3>1, <2>0, <2>1 DEF Typed, Away, Listening
  <2>4. PeerOk(d)'
    BY <2>0, <2>1, <2>2 DEF Typed, PeerOk, Listening
  <2>5. HaltOk(d)'
    BY <2>0, <2>1, <2>2 DEF Typed, HaltOk, Listening, Pausing, Target, Away
  <2>6. ReachOk(d)'
    BY <2>0, <2>1, <2>2 DEF Typed, ReachOk, Fine, Firm, Listening, Away
  <2>7. Noted(d)'
    BY <2>0, <2>1, <2>2 DEF Typed, Noted, Announced, Meeting
  <2>8. Owed(d)'
    BY <2>0, <2>1, <2>2 DEF Typed, Owed, Announced, Meeting, Both
  <2> QED
    BY <2>3, <2>4, <2>5, <2>6, <2>7, <2>8
<1> QED
  BY <1>1, <1>2 DEF RInv

LEMMA SynchronizeKeeps ==
  ASSUME RInv, NEW x \in Devices, Resynchronize(x) PROVE RInv'
<1> USE DEF Resynchronize, Rest, meta, requests, machine
<1>1. Typed'
  <2>1. other(x) \in Devices
    BY Couple
  <2>2. /\ peer' \in [Devices -> BOOLEAN] /\ halt' \in [Devices -> BOOLEAN]
        /\ missed' \in [Devices -> SUBSET {"reach", "peer", "halt", "node"}]
    BY <2>1 DEF RInv, Typed
  <2>3. /\ conn' \in [Devices -> {"off", "cut", "joined", "up"}]
        /\ reach' \in [Devices -> Lives]
        /\ fsm' \in [Devices -> {"off", "synchronize", "publish", "connection", "wait",
                                  "buffer", "transfer", "paused"}]
    BY SMTT(30), RendezvousAssumption DEF RInv, Typed, Lives
  <2> QED
    BY <2>2, <2>3 DEF RInv, Typed
<1>2. ASSUME NEW d \in Devices
      PROVE  (Away(d) /\ PeerOk(d) /\ HaltOk(d) /\ ReachOk(d) /\ Noted(d) /\ Owed(d))'
  <2> DEFINE e == other(d)
  <2>0. e \in Devices /\ e # d /\ (x = d \/ x = e) /\ other(x) \in Devices
    BY Couple
  <2>1. /\ Away(d) /\ PeerOk(d) /\ HaltOk(d) /\ ReachOk(d) /\ Noted(d) /\ Owed(d)
        /\ Away(e) /\ Typed
    BY <2>0 DEF RInv
  <2>2. inbox' = inbox
    OBVIOUS
  <2>3. Away(d)'
    BY <2>0, <2>1 DEF Typed, Away, Listening, Lives
  <2>4. PeerOk(d)'
    BY <2>0, <2>1, <2>2 DEF Typed, PeerOk, Listening
  <2>5. HaltOk(d)'
    BY <2>0, <2>1, <2>2 DEF Typed, HaltOk, Listening, Pausing, Target
  <2>6. ReachOk(d)'
    BY <2>0, <2>1, <2>2 DEF Typed, ReachOk, Fine, Firm, Listening, Away
  <2>7. Noted(d)'
    BY <2>0, <2>1, <2>2 DEF Typed, Noted, Announced, Meeting
  <2>8. Owed(d)'
    BY <2>0, <2>1, <2>2 DEF Typed, Owed, Announced, Meeting, Both
  <2> QED
    BY <2>3, <2>4, <2>5, <2>6, <2>7, <2>8
<1> QED
  BY <1>1, <1>2 DEF RInv

LEMMA TriggerKeeps ==
  ASSUME RInv, NEW x \in Devices, Trigger(x) PROVE RInv'
<1> USE DEF Trigger, Enter, triggers, Rest, meta, requests, machine
<1>1. Typed'
  <2>1. PICK f \in triggers(x) : fsm' = [fsm EXCEPT ![x] = f]
    OBVIOUS
  <2>2. f \in {"paused", "wait", "connection", "buffer"}
    OBVIOUS
  <2> HIDE DEF triggers, Trigger
  <2>3. UNCHANGED <<Rest, missed, node, put>>
    BY DEF Trigger
  <2> QED
    BY <2>1, <2>2, <2>3 DEF RInv, Typed
<1>2. ASSUME NEW d \in Devices
      PROVE  (Away(d) /\ PeerOk(d) /\ HaltOk(d) /\ ReachOk(d) /\ Noted(d) /\ Owed(d))'
  <2> DEFINE e == other(d)
  <2>0. e \in Devices /\ e # d /\ (x = d \/ x = e) /\ other(x) \in Devices
    BY Couple
  <2>1. /\ Away(d) /\ PeerOk(d) /\ HaltOk(d) /\ ReachOk(d) /\ Noted(d) /\ Owed(d)
        /\ Away(e) /\ Typed
    BY <2>0 DEF RInv
  <2>2. inbox' = inbox
    OBVIOUS
  <2>3. Away(d)'
    BY <2>0, <2>1 DEF Typed, Away, Listening, Lives
  <2>4. PeerOk(d)'
    BY <2>0, <2>1, <2>2 DEF Typed, PeerOk, Listening
  <2>5. HaltOk(d)'
    BY <2>0, <2>1, <2>2 DEF Typed, HaltOk, Listening, Pausing, Target
  <2>6. ReachOk(d)'
    BY <2>0, <2>1, <2>2 DEF Typed, ReachOk, Fine, Firm, Listening, Away
  <2>7. Noted(d)'
    BY <2>0, <2>1, <2>2 DEF Typed, Noted, Announced, Meeting
  <2>8. Owed(d)'
    BY <2>0, <2>1, <2>2 DEF Typed, Owed, Announced, Meeting, Both
  <2> QED
    BY <2>3, <2>4, <2>5, <2>6, <2>7, <2>8
<1> QED
  BY <1>1, <1>2 DEF RInv

LEMMA ResumeKeeps ==
  ASSUME RInv, NEW x \in Devices, Resume(x) PROVE RInv'
<1> USE DEF Resume, Enter, Rest, meta, requests, machine
<1>1. Typed'
  BY Couple DEF RInv, Typed, Lives, Away
<1>2. ASSUME NEW d \in Devices
      PROVE  (Away(d) /\ PeerOk(d) /\ HaltOk(d) /\ ReachOk(d) /\ Noted(d) /\ Owed(d))'
  <2> DEFINE e == other(d)
  <2>0. e \in Devices /\ e # d /\ (x = d \/ x = e) /\ other(x) \in Devices
    BY Couple
  <2>1. /\ Away(d) /\ PeerOk(d) /\ HaltOk(d) /\ ReachOk(d) /\ Noted(d) /\ Owed(d)
        /\ Away(e) /\ Typed
    BY <2>0 DEF RInv
  <2>2. inbox' = inbox
    OBVIOUS
  <2>3. Away(d)'
    BY <2>0, <2>1 DEF Typed, Away, Listening, Lives
  <2>4. PeerOk(d)'
    BY <2>0, <2>1, <2>2 DEF Typed, PeerOk, Listening
  <2>5. HaltOk(d)'
    BY <2>0, <2>1, <2>2 DEF Typed, HaltOk, Listening, Pausing, Target
  <2>6. ReachOk(d)'
    BY <2>0, <2>1, <2>2 DEF Typed, ReachOk, Fine, Firm, Listening, Away
  <2>7. Noted(d)'
    BY <2>0, <2>1, <2>2 DEF Typed, Noted, Announced, Meeting
  <2>8. Owed(d)'
    BY <2>0, <2>1, <2>2 DEF Typed, Owed, Announced, Meeting, Both
  <2> QED
    BY <2>3, <2>4, <2>5, <2>6, <2>7, <2>8
<1> QED
  BY <1>1, <1>2 DEF RInv

LEMMA PublishKeeps ==
  ASSUME RInv, NEW x \in Devices, Publish(x) PROVE RInv'
<1> USE DEF Publish, PutEndpoints, Enter, Idle, Rest, meta, requests, machine
<1>1. Typed'
  BY Couple DEF RInv, Typed, Lives, Away
<1>2. ASSUME NEW d \in Devices
      PROVE  (Away(d) /\ PeerOk(d) /\ HaltOk(d) /\ ReachOk(d) /\ Noted(d) /\ Owed(d))'
  <2> DEFINE e == other(d)
  <2>0. e \in Devices /\ e # d /\ (x = d \/ x = e) /\ other(x) \in Devices
    BY Couple
  <2>1. /\ Away(d) /\ PeerOk(d) /\ HaltOk(d) /\ ReachOk(d) /\ Noted(d) /\ Owed(d)
        /\ Away(e) /\ Typed
    BY <2>0 DEF RInv
  <2>2. inbox' = inbox
    OBVIOUS
  <2>3. Away(d)'
    BY <2>0, <2>1 DEF Typed, Away, Listening, Lives
  <2>4. PeerOk(d)'
    BY <2>0, <2>1, <2>2 DEF Typed, PeerOk, Listening
  <2>5. HaltOk(d)'
    BY <2>0, <2>1, <2>2 DEF Typed, HaltOk, Listening, Pausing, Target
  <2>6. ReachOk(d)'
    BY <2>0, <2>1, <2>2 DEF Typed, ReachOk, Fine, Firm, Listening, Away
  <2>7. Noted(d)'
    BY <2>0, <2>1, <2>2 DEF Typed, Noted, Announced, Meeting
  <2>8. Owed(d)'
    <3>1. /\ put'[x].at = "written" /\ put'[x].seen = node' /\ node'[x] # 0
          /\ \A f \in Devices : f = d \/ f = e
      BY <2>0, <2>1, Couple DEF Typed
    <3>2. node'[d] # 0 /\ node'[e] # 0 => Both(x)'
      BY <3>1 DEF Both
    <3> QED
      BY <2>0, <3>2 DEF Owed
  <2> QED
    BY <2>3, <2>4, <2>5, <2>6, <2>7, <2>8
<1> QED
  BY <1>1, <1>2 DEF RInv

LEMMA PublishedKeeps ==
  ASSUME RInv, NEW x \in Devices, Published(x) PROVE RInv'
<1> USE DEF Published, Enter, Idle, Rest, meta, requests, machine
<1>1. Typed'
  BY Couple DEF RInv, Typed, Lives, Away
<1>2. ASSUME NEW d \in Devices
      PROVE  (Away(d) /\ PeerOk(d) /\ HaltOk(d) /\ ReachOk(d) /\ Noted(d) /\ Owed(d))'
  <2> DEFINE e == other(d)
  <2>0. e \in Devices /\ e # d /\ (x = d \/ x = e) /\ other(x) \in Devices
    BY Couple
  <2>1. /\ Away(d) /\ PeerOk(d) /\ HaltOk(d) /\ ReachOk(d) /\ Noted(d) /\ Owed(d)
        /\ Away(e) /\ Typed
    BY <2>0 DEF RInv
  <2>2. inbox' = inbox
    OBVIOUS
  <2>3. Away(d)'
    BY <2>0, <2>1 DEF Typed, Away, Listening, Lives
  <2>4. PeerOk(d)'
    BY <2>0, <2>1, <2>2 DEF Typed, PeerOk, Listening
  <2>5. HaltOk(d)'
    BY <2>0, <2>1, <2>2 DEF Typed, HaltOk, Listening, Pausing, Target
  <2>6. ReachOk(d)'
    BY <2>0, <2>1, <2>2 DEF Typed, ReachOk, Fine, Firm, Listening, Away
  <2>7. Noted(d)'
    BY <2>0, <2>1, <2>2 DEF Typed, Noted, Announced, Meeting
  <2>8. Owed(d)'
    BY <2>0, <2>1, <2>2 DEF Typed, Owed, Announced, Meeting, Both
  <2> QED
    BY <2>3, <2>4, <2>5, <2>6, <2>7, <2>8
<1> QED
  BY <1>1, <1>2 DEF RInv

LEMMA BreakKeeps ==
  ASSUME RInv, NEW x \in Devices, Break(x) PROVE RInv'
<1> USE DEF Break, Enter, Rest, meta, requests, machine
<1>1. Typed'
  BY Couple DEF RInv, Typed, Lives, Away
<1>2. ASSUME NEW d \in Devices
      PROVE  (Away(d) /\ PeerOk(d) /\ HaltOk(d) /\ ReachOk(d) /\ Noted(d) /\ Owed(d))'
  <2> DEFINE e == other(d)
  <2>0. e \in Devices /\ e # d /\ (x = d \/ x = e) /\ other(x) \in Devices
    BY Couple
  <2>1. /\ Away(d) /\ PeerOk(d) /\ HaltOk(d) /\ ReachOk(d) /\ Noted(d) /\ Owed(d)
        /\ Away(e) /\ Typed
    BY <2>0 DEF RInv
  <2>2. inbox' = inbox
    OBVIOUS
  <2>3. Away(d)'
    BY <2>0, <2>1 DEF Typed, Away, Listening, Lives
  <2>4. PeerOk(d)'
    BY <2>0, <2>1, <2>2 DEF Typed, PeerOk, Listening
  <2>5. HaltOk(d)'
    BY <2>0, <2>1, <2>2 DEF Typed, HaltOk, Listening, Pausing, Target
  <2>6. ReachOk(d)'
    BY <2>0, <2>1, <2>2 DEF Typed, ReachOk, Fine, Firm, Listening, Away
  <2>7. Noted(d)'
    BY <2>0, <2>1, <2>2 DEF Typed, Noted, Announced, Meeting
  <2>8. Owed(d)'
    BY <2>0, <2>1, <2>2 DEF Typed, Owed, Announced, Meeting, Both
  <2> QED
    BY <2>3, <2>4, <2>5, <2>6, <2>7, <2>8
<1> QED
  BY <1>1, <1>2 DEF RInv

LEMMA ConnectKeeps ==
  ASSUME RInv, Connect PROVE RInv'
<1> USE DEF Connect, Rest
<1>1. Typed'
  BY DEF RInv, Typed
<1>2. ASSUME NEW d \in Devices
      PROVE  (Away(d) /\ PeerOk(d) /\ HaltOk(d) /\ ReachOk(d) /\ Noted(d) /\ Owed(d))'
  <2> DEFINE e == other(d)
  <2>0. e \in Devices
    BY Couple
  <2>1. /\ Away(d) /\ PeerOk(d) /\ HaltOk(d) /\ ReachOk(d) /\ Noted(d) /\ Owed(d)
        /\ Away(e) /\ Typed
    BY <2>0 DEF RInv
  <2>2. fsm[d] = "connection" /\ fsm[e] = "connection" /\ fsm'[d] = "transfer"
        /\ fsm'[e] = "transfer"
    BY <2>0
  <2>3. Away(d)' /\ PeerOk(d)' /\ HaltOk(d)' /\ Noted(d)' /\ Owed(d)'
    BY <2>1, <2>2
       DEF Away, PeerOk, HaltOk, Noted, Owed, Announced, Meeting, Listening, Pausing, Target,
           Both
  <2>4. ReachOk(d)'
    BY <2>1, <2>2 DEF ReachOk, Fine, Firm, Listening
  <2> QED
    BY <2>3, <2>4
<1> QED
  BY <1>1, <1>2 DEF RInv

-----------------------------------------------------------------------------
(***************************************************************************)
(* What is sent is added to what a device has to hear, or lost.            *)
(***************************************************************************)

LEMMA Sending ==
  ASSUME Typed, NEW here \in SUBSET Devices, NEW to \in [Devices -> Seq(Sent)], NEW taken,
         SendTo(here, to, taken), NEW d \in Devices
  PROVE  /\ inbox'[d] \in Seq(Sent)
         /\ missed[d] \subseteq missed'[d]
         /\ missed'[d] \subseteq {"reach", "peer", "halt", "node"}
         /\ "node" \in missed'[d] <=> "node" \in missed[d] \/ d \in taken
         /\ "peer" \in missed'[d] <=> "peer" \in missed[d]
         /\ d \in here =>
              /\ inbox'[d] = inbox[d] \o to[d]
              /\ \A k, m : Says(inbox'[d], k, m) =>
                             Says(to[d], k, m) \/ (Silent(to[d], k) /\ Says(inbox[d], k, m))
              /\ \A k : Silent(inbox'[d], k) <=> Silent(inbox[d], k) /\ Silent(to[d], k)
              /\ \A m : Stands(inbox'[d], m) =>
                          Stands(to[d], m) \/ (Lasting(to[d]) /\ Stands(inbox[d], m))
              /\ Lasting(inbox'[d]) <=> Lasting(inbox[d]) /\ Lasting(to[d])
         /\ d \notin here => /\ inbox'[d] = inbox[d]
                             /\ Lasting(to[d]) \/ "reach" \in missed'[d]
                             /\ \A m : Says(to[d], "halt", m) =>
                                         m \in Sent /\ (m.val \/ "halt" \in missed'[d])
<1> USE DEF SendTo
<1>1. inbox[d] \in Seq(Sent) /\ to[d] \in Seq(Sent)
  BY DEF Typed
<1> DEFINE r == inbox[d] \o to[d]
<1>2. /\ r \in Seq(Sent)
      /\ \A k, m : Says(r, k, m) => Says(to[d], k, m) \/ (Silent(to[d], k) /\ Says(inbox[d], k, m))
      /\ \A k : Silent(r, k) <=> Silent(inbox[d], k) /\ Silent(to[d], k)
      /\ \A m : Stands(r, m) => Stands(to[d], m) \/ (Lasting(to[d]) /\ Stands(inbox[d], m))
      /\ Lasting(r) <=> Lasting(inbox[d]) /\ Lasting(to[d])
  BY <1>1, Joining
<1>3. /\ inbox'[d] = IF d \in here THEN r ELSE inbox[d]
      /\ missed'[d] = missed[d] \union (IF d \in here THEN {} ELSE Losses(to[d]))
                                \union (IF d \in taken THEN {"node"} ELSE {})
  OBVIOUS
<1>4. missed[d] \subseteq {"reach", "peer", "halt", "node"}
  BY DEF Typed
<1>5. /\ Losses(to[d]) \subseteq {"reach", "halt"}
      /\ Lasting(to[d]) \/ "reach" \in Losses(to[d])
      /\ \A m : Says(to[d], "halt", m) => m \in Sent /\ (m.val \/ "halt" \in Losses(to[d]))
  BY <1>1, Losing
<1>6. /\ inbox'[d] \in Seq(Sent)
      /\ missed[d] \subseteq missed'[d]
      /\ missed'[d] \subseteq {"reach", "peer", "halt", "node"}
      /\ "node" \in missed'[d] <=> "node" \in missed[d] \/ d \in taken
      /\ "peer" \in missed'[d] <=> "peer" \in missed[d]
  BY <1>1, <1>2, <1>3, <1>4, <1>5
<1>7. CASE d \in here
  <2>1. inbox'[d] = r
    BY <1>3, <1>7
  <2> QED
    BY <1>2, <1>6, <1>7, <2>1
<1>8. CASE d \notin here
  BY <1>3, <1>5, <1>6, <1>8
<1> QED
  BY <1>7, <1>8

LEMMA SentTyped ==
  ASSUME Typed, NEW here \in SUBSET Devices, NEW to \in [Devices -> Seq(Sent)], NEW taken,
         SendTo(here, to, taken)
  PROVE  /\ inbox' \in [Devices -> Seq(Sent)]
         /\ missed' \in [Devices -> SUBSET {"reach", "peer", "halt", "node"}]
<1>1. \A d \in Devices : /\ inbox'[d] \in Seq(Sent)
                         /\ missed'[d] \subseteq {"reach", "peer", "halt", "node"}
  BY Sending
<1> QED
  BY <1>1 DEF SendTo

\* The messages there are.
LEMMA Words ==
  /\ \A ok \in BOOLEAN : /\ Unreach(ok) \in Sent /\ Ends(Unreach(ok))
                         /\ Unreach(ok).is = "reach" /\ Unreach(ok).val = 0
                         /\ Unreach(ok).ok = ok
  /\ \A b, ok \in BOOLEAN : /\ Status(b, ok) \in Sent /\ ~Ends(Status(b, ok))
                            /\ Status(b, ok).is = "peer" /\ Status(b, ok).val = b
                            /\ Status(b, ok).ok = ok
  /\ \A b \in BOOLEAN : /\ Halt(b) \in Sent /\ ~Ends(Halt(b))
                        /\ Halt(b).is = "halt" /\ Halt(b).val = b
  /\ \A v \in Lives \ {0}, ok \in BOOLEAN :
       /\ Reach(v, ok) \in Sent /\ ~Ends(Reach(v, ok))
       /\ Reach(v, ok).is = "reach" /\ Reach(v, ok).val = v /\ Reach(v, ok).ok = ok
<1>1. ASSUME NEW ok \in BOOLEAN PROVE Unreach(ok) \in Sent
  <2>1. Unreach(ok) \in [is : {"reach"}, status : {FALSE}, val : {0}, ok : BOOLEAN]
    BY DEF Unreach
  <2> QED
    BY <2>1 DEF Sent, Message, Unreach
<1>2. ASSUME NEW b \in BOOLEAN, NEW ok \in BOOLEAN PROVE Status(b, ok) \in Sent
  <2>1. Status(b, ok) \in [is : {"peer", "halt"}, val : BOOLEAN, ok : BOOLEAN]
    BY DEF Status
  <2> QED
    BY <2>1 DEF Sent, Message, Status
<1>3. ASSUME NEW b \in BOOLEAN PROVE Halt(b) \in Sent
  <2>1. Halt(b) \in [is : {"peer", "halt"}, val : BOOLEAN, ok : BOOLEAN]
    BY DEF Halt
  <2> QED
    BY <2>1 DEF Sent, Message, Halt
<1>4. ASSUME NEW v \in Lives \ {0}, NEW ok \in BOOLEAN PROVE Reach(v, ok) \in Sent
  <2>1. Reach(v, ok) \in [is : {"reach"}, status : {TRUE}, val : Lives \ {0}, ok : BOOLEAN]
    BY DEF Reach
  <2> QED
    BY <2>1 DEF Sent, Message, Reach
<1>5. /\ \A ok \in BOOLEAN : /\ Ends(Unreach(ok)) /\ Unreach(ok).is = "reach"
                             /\ Unreach(ok).val = 0 /\ Unreach(ok).ok = ok
      /\ \A b, ok \in BOOLEAN : /\ ~Ends(Status(b, ok)) /\ Status(b, ok).is = "peer"
                                /\ Status(b, ok).val = b /\ Status(b, ok).ok = ok
      /\ \A b \in BOOLEAN : ~Ends(Halt(b)) /\ Halt(b).is = "halt" /\ Halt(b).val = b
      /\ \A v \in Lives \ {0}, ok \in BOOLEAN :
           /\ ~Ends(Reach(v, ok)) /\ Reach(v, ok).is = "reach"
           /\ Reach(v, ok).val = v /\ Reach(v, ok).ok = ok
  BY DEF Ends, Unreach, Status, Halt, Reach
<1> QED
  BY <1>1, <1>2, <1>3, <1>4, <1>5

\* Sequences of one or none, and their concatenation.
LEMMA Few ==
  ASSUME NEW S
  PROVE  <<>> \in Seq(S) /\ \A x \in S : <<x>> \in Seq(S)
  OBVIOUS

\* The end of the endpoints of x.
LEMMA GoneWords ==
  ASSUME Typed, NEW x \in Devices, NEW ok \in BOOLEAN
  PROVE  LET s == Disconnected(x, ok) IN
           /\ s \in Seq(Sent)
           /\ Silent(s, "peer") /\ Silent(s, "halt")
           /\ \A m : ~Says(s, "peer", m) /\ ~Says(s, "halt", m)
           /\ Lasting(s) <=> node[x] = 0
           /\ Silent(s, "reach") <=> node[x] = 0
           /\ \A m : Stands(s, m) => m.val = 0
<1>1. CASE node[x] = 0
  BY <1>1, Single, Few DEF Disconnected
<1>2. CASE node[x] # 0
  <2>1. Disconnected(x, ok) = <<Unreach(ok)>>
    BY <1>2 DEF Disconnected
  <2>2. /\ Unreach(ok) \in Sent /\ Ends(Unreach(ok)) /\ Unreach(ok).is = "reach"
        /\ Unreach(ok).val = 0
    BY Words
  <2> QED
    BY <1>2, <2>1, <2>2, Single, Few
<1> QED
  BY <1>1, <1>2

\* ... and then its status.
LEMMA ThenWords ==
  ASSUME NEW q \in Seq(Sent), NEW b \in BOOLEAN, NEW ok \in BOOLEAN,
         Silent(q, "halt"), \A m : Stands(q, m) /\ m.is = "reach" => m.val = 0
  PROVE  LET s == q \o <<Status(b, ok)>> IN
           /\ s \in Seq(Sent)
           /\ ~Silent(s, "peer") /\ Silent(s, "halt")
           /\ \A m : Says(s, "peer", m) => m = Status(b, ok)
           /\ Lasting(s) <=> Lasting(q)
           /\ Silent(s, "reach") <=> Silent(q, "reach")
           /\ \A m : Stands(s, m) /\ m.is = "reach" => m.val = 0
<1> DEFINE u == Status(b, ok)
           r == <<u>>
           s == q \o r
<1>1. u \in Sent /\ ~Ends(u) /\ u.is = "peer"
  BY Words
<1>2. r \in Seq(Sent)
  BY <1>1, Few
<1>3. /\ ~Silent(r, "peer") /\ Silent(r, "halt") /\ Silent(r, "reach") /\ Lasting(r)
      /\ \A m : Says(r, "peer", m) => m = u
      /\ \A m : Stands(r, m) => m = u
  BY <1>1, Single
<1> HIDE DEF r, u
<1>4. /\ s \in Seq(Sent)
      /\ \A k, m : Says(s, k, m) => Says(r, k, m) \/ (Silent(r, k) /\ Says(q, k, m))
      /\ \A k : Silent(s, k) <=> Silent(q, k) /\ Silent(r, k)
      /\ \A m : Stands(s, m) => Stands(r, m) \/ (Lasting(r) /\ Stands(q, m))
      /\ Lasting(s) <=> Lasting(q) /\ Lasting(r)
  BY <1>2, Joining
<1> HIDE DEF s
<1>5. /\ s \in Seq(Sent)
      /\ ~Silent(s, "peer") /\ Silent(s, "halt")
      /\ \A m : Says(s, "peer", m) => m = u
      /\ Lasting(s) <=> Lasting(q)
      /\ Silent(s, "reach") <=> Silent(q, "reach")
      /\ \A m : Stands(s, m) /\ m.is = "reach" => m.val = 0
  BY <1>1, <1>3, <1>4
<1> QED
  BY <1>5 DEF r, s, u

-----------------------------------------------------------------------------
(***************************************************************************)
(* The steps of meta that send.                                            *)
(***************************************************************************)

\* Everything the invariant says of d, in the order it is proved.
Good(d) == Away(d) /\ PeerOk(d) /\ HaltOk(d) /\ ReachOk(d) /\ Noted(d) /\ Owed(d)

LEMMA TellLeaveKeeps ==
  ASSUME RInv, NEW x \in Devices, TellLeave(x) PROVE RInv'
<1> DEFINE gone == Disconnected(x, ~online[x])
           word == Status(FALSE, ~online[x])
           to == [e \in Devices |-> IF e = x THEN gone ELSE gone \o <<word>>]
           here == {e \in Devices : Listening(e)}
           taken == {e \in {x} : online[e] /\ node[e] # 0}
<1>1. Typed /\ online[x] \in BOOLEAN /\ (~online[x]) \in BOOLEAN
  BY DEF RInv, Typed
<1>2. /\ gone \in Seq(Sent)
      /\ Silent(gone, "peer") /\ Silent(gone, "halt")
      /\ \A m : ~Says(gone, "peer", m) /\ ~Says(gone, "halt", m)
      /\ Lasting(gone) <=> node[x] = 0
      /\ Silent(gone, "reach") <=> node[x] = 0
      /\ \A m : Stands(gone, m) => m.val = 0
  BY <1>1, GoneWords
<1>3. /\ gone \o <<word>> \in Seq(Sent)
      /\ ~Silent(gone \o <<word>>, "peer") /\ Silent(gone \o <<word>>, "halt")
      /\ \A m : Says(gone \o <<word>>, "peer", m) => m = word
      /\ Lasting(gone \o <<word>>) <=> Lasting(gone)
      /\ \A m : Stands(gone \o <<word>>, m) /\ m.is = "reach" => m.val = 0
  BY <1>1, <1>2, ThenWords
<1>4. word.val = FALSE /\ word.ok = ~online[x]
  BY DEF Status
<1> HIDE DEF gone, word
<1>5. to \in [Devices -> Seq(Sent)] /\ here \in SUBSET Devices
  BY <1>2, <1>3
<1>6. /\ leave[x] /\ leave' = [leave EXCEPT ![x] = FALSE]
      /\ node' = [node EXCEPT ![x] = 0]
      /\ SendTo(here, to, taken)
      /\ UNCHANGED <<online, paused, requests, conn, life, machine, faults, pauses>>
  BY DEF TellLeave, gone, word
<1>9. /\ \A d \in Devices : to[d] = IF d = x THEN gone ELSE gone \o <<word>>
      /\ \A d \in Devices : d \in here <=> Listening(d)
      /\ \A d \in Devices : d \in taken <=> d = x /\ online[x] /\ node[x] # 0
  OBVIOUS
<1> HIDE DEF to, here, taken
<1>7. Typed'
  <2>1. 0 \in Lives
    BY RendezvousAssumption DEF Lives
  <2>2. /\ inbox' \in [Devices -> Seq(Sent)]
        /\ missed' \in [Devices -> SUBSET {"reach", "peer", "halt", "node"}]
    BY <1>1, <1>5, <1>6, SentTyped
  <2> QED
    BY <1>1, <1>6, <2>1, <2>2 DEF Typed, requests, machine
<1>8. ASSUME NEW d \in Devices PROVE Good(d)'
  <2> DEFINE e == other(d)
             s == to[d]
             q == inbox[d]
             r == inbox'[d]
  <2>0. e \in Devices /\ e # d /\ (x = d \/ x = e)
    BY Couple
  <2>1. Away(d) /\ PeerOk(d) /\ HaltOk(d) /\ ReachOk(d) /\ Noted(d) /\ Owed(d)
    BY DEF RInv
  <2>2. /\ missed[d] \subseteq missed'[d]
        /\ "node" \in missed'[d] <=> "node" \in missed[d] \/ d \in taken
        /\ "peer" \in missed'[d] <=> "peer" \in missed[d]
        /\ d \in here =>
             /\ \A k, m : Says(r, k, m) => Says(s, k, m) \/ (Silent(s, k) /\ Says(q, k, m))
             /\ \A k : Silent(r, k) <=> Silent(q, k) /\ Silent(s, k)
             /\ \A m : Stands(r, m) => Stands(s, m) \/ (Lasting(s) /\ Stands(q, m))
             /\ Lasting(r) <=> Lasting(q) /\ Lasting(s)
        /\ d \notin here => r = q /\ (Lasting(s) \/ "reach" \in missed'[d])
    BY <1>1, <1>5, <1>6, Sending
  <2>3. d \in here <=> Listening(d)
    BY <1>9
  <2>5. ~Listening(d) => q = <<>>
    BY <2>1 DEF Away
  <2>6. /\ Silent(s, "halt") /\ \A m : Says(s, "peer", m) => m = word
        /\ d # x => ~Silent(s, "peer")
        /\ d = x => Silent(s, "peer") /\ \A m : ~Says(s, "peer", m)
        /\ Lasting(s) <=> node[x] = 0
        /\ \A m : Stands(s, m) /\ m.is = "reach" => m.val = 0
        /\ \A m : ~Says(s, "halt", m)
    <3>1. s = IF d = x THEN gone ELSE gone \o <<word>>
      BY <1>9
    <3>2. \A t, m : Silent(t, "halt") => ~Says(t, "halt", m)
      BY DEF Silent, Says
    <3> HIDE DEF s
    <3> QED
      BY <1>2, <1>3, <3>1, <3>2
  <2>7. d \in taken <=> d = x /\ online[x] /\ node[x] # 0
    BY <1>9
  <2>8. /\ \A f \in Devices : Listening(f)' <=> Listening(f)
        /\ UNCHANGED <<online, paused, put, pausing, conn, life, fsm, reach, peer, halt, faults>>
    BY <1>6 DEF requests, machine, Listening
  <2>9. /\ leave'[d] = (leave[d] /\ d # x) /\ leave'[e] = (leave[e] /\ e # x)
        /\ node'[d] = (IF d = x THEN 0 ELSE node[d])
        /\ node'[e] = (IF e = x THEN 0 ELSE node[e])
    BY <1>1, <1>6, <2>0 DEF Typed
  <2> HIDE DEF s, q, r
  <2>10. Away(d)'
    BY <2>1, <2>2, <2>3, <2>5, <2>8 DEF Away, q, r
  <2>11. PeerOk(d)'
    <3>1. CASE d = x
      BY <3>1, <2>0, <2>1, <2>2, <2>3, <2>6, <2>8, <2>9 DEF PeerOk, Listening, q, r
    <3>2. CASE d # x
      <4>1. ASSUME NEW m \in Sent, Listening(d), Says(r, "peer", m), m.ok
            PROVE  m.val = online[e]
        <5>1. m = word
          BY <3>2, <4>1, <2>2, <2>3, <2>6
        <5>2. online[e] = FALSE /\ m.val = FALSE
          BY <1>1, <1>4, <2>0, <3>2, <4>1, <5>1
        <5> QED
          BY <5>2
      <4>2. conn[d] = "up" => ~Silent(r, "peer")
        BY <3>2, <2>2, <2>3, <2>6 DEF Listening
      <4> QED
        BY <4>1, <4>2, <2>8 DEF PeerOk, r
    <3> QED
      BY <3>1, <3>2
  <2>12. HaltOk(d)'
    BY <2>1, <2>2, <2>3, <2>6, <2>8 DEF HaltOk, Listening, Pausing, Target, q, r
  <2>13. ReachOk(d)'
    <3>1. \A v : Fine(e, v)' => Fine(e, v)
      BY <2>0, <2>8, <2>9 DEF Fine, Firm
    <3>2. \A v : Fine(e, v) => Fine(e, v)' \/ (x = e /\ node[x] # 0)
      BY <2>0, <2>8, <2>9 DEF Fine, Firm
    <3>3. ASSUME NEW m \in Sent, Stands(r, m), m.is = "reach", m.ok, m.val # 0
          PROVE  Fine(e, m.val)'
      <4>1. Stands(q, m) /\ (Listening(d) => node[x] = 0)
        BY <3>3, <2>2, <2>3, <2>6
      <4>2. Listening(d)
        BY <4>1, <2>5, Single
      <4> QED
        BY <3>2, <3>3, <4>1, <4>2, <2>1 DEF ReachOk, q
    <3>4. ASSUME fsm[d] # "off", "reach" \notin missed'[d], reach[d] # 0, Lasting(r)
          PROVE  Fine(e, reach[d])'
      <4>1. node[x] = 0 /\ Lasting(q) /\ "reach" \notin missed[d]
        BY <3>4, <2>2, <2>3, <2>6
      <4>2. Fine(e, reach[d]) /\ reach'[d] = reach[d]
        BY <3>4, <4>1, <2>1, <2>8 DEF ReachOk, q
      <4> QED
        BY <3>2, <4>1, <4>2
    <3>5. /\ \A m \in Sent : Stands(r, m) /\ m.is = "reach" /\ m.ok /\ m.val # 0 => Fine(e, m.val)'
          /\ fsm[d] # "off" /\ "reach" \notin missed'[d] /\ reach[d] # 0 /\ Lasting(r) =>
               Fine(e, reach[d])'
      BY <3>3, <3>4
    <3> QED
      BY <3>5, <2>8 DEF ReachOk, r
  <2>14. Noted(d)'
    BY <2>0, <2>1, <2>2, <2>7, <2>8, <2>9 DEF Noted, Announced, Away, Listening
  <2>15. Owed(d)'
    BY <2>0, <2>9 DEF Owed
  <2> QED
    BY <2>10, <2>11, <2>12, <2>13, <2>14, <2>15 DEF Good
<1> QED
  BY <1>7, <1>8 DEF RInv, Good

LEMMA JoinKeeps ==
  ASSUME RInv, NEW x \in Devices, Join(x) PROVE RInv'
<1> DEFINE gone == IF online[x] THEN Disconnected(x, TRUE) ELSE <<>>
           then == gone \o (IF online[x] THEN <<Status(FALSE, TRUE)>> ELSE <<>>)
           word == Status(TRUE, TRUE)
           to == [e \in Devices |->
                    (IF online[x] THEN Disconnected(x, TRUE) ELSE <<>>)
                    \o (IF online[x] /\ e # x THEN <<Status(FALSE, TRUE)>> ELSE <<>>)
                    \o (IF e # x THEN <<Status(TRUE, TRUE)>> ELSE <<>>)]
           here == {e \in Devices : e = x \/ Listening(e)}
           taken == {}
<1>1. Typed /\ online[x] \in BOOLEAN /\ Away(x)
  BY DEF RInv, Typed
<1>2. /\ gone \in Seq(Sent)
      /\ Silent(gone, "peer") /\ Silent(gone, "halt")
      /\ \A m : ~Says(gone, "peer", m) /\ ~Says(gone, "halt", m)
      /\ Lasting(gone) <=> node[x] = 0 \/ ~online[x]
      /\ Silent(gone, "reach") <=> node[x] = 0 \/ ~online[x]
      /\ \A m : Stands(gone, m) => m.val = 0
  <2>1. CASE online[x]
    BY <1>1, <2>1, GoneWords
  <2>2. CASE ~online[x]
    BY <2>2, Single, Few
  <2> QED
    BY <2>1, <2>2
<1>3. /\ then \in Seq(Sent)
      /\ Silent(then, "halt")
      /\ Lasting(then) <=> Lasting(gone)
      /\ Silent(then, "reach") <=> Silent(gone, "reach")
      /\ \A m : Stands(then, m) /\ m.is = "reach" => m.val = 0
  <2>1. CASE online[x]
    <3>1. then = gone \o <<Status(FALSE, TRUE)>>
      BY <2>1
    <3> HIDE DEF gone, then
    <3> QED
      BY <1>2, <3>1, ThenWords
  <2>2. CASE ~online[x]
    <3>1. then = gone
      BY <2>2
    <3> HIDE DEF gone, then
    <3> QED
      BY <1>2, <3>1
  <2> QED
    BY <2>1, <2>2
<1>4. /\ then \o <<word>> \in Seq(Sent)
      /\ ~Silent(then \o <<word>>, "peer") /\ Silent(then \o <<word>>, "halt")
      /\ \A m : Says(then \o <<word>>, "peer", m) => m = word
      /\ Lasting(then \o <<word>>) <=> Lasting(then)
      /\ Silent(then \o <<word>>, "reach") <=> Silent(then, "reach")
      /\ \A m : Stands(then \o <<word>>, m) /\ m.is = "reach" => m.val = 0
  <2> HIDE DEF then
  <2> QED
    BY <1>3, ThenWords
<1>9. /\ \A d \in Devices : to[d] = IF d = x THEN gone ELSE then \o <<word>>
      /\ \A d \in Devices : d \in here <=> d = x \/ Listening(d)
      /\ \A d : d \notin taken
  <2>1. gone \o <<>> = gone
    BY <1>2
  <2>2. to[x] = gone
    BY <2>1
  <2> QED
    BY <2>2
<1>10. word.val = TRUE /\ word.ok = TRUE
  BY DEF Status
<1>6. /\ conn[x] = "cut" /\ conn' = [conn EXCEPT ![x] = "joined"]
      /\ online' = [online EXCEPT ![x] = TRUE]
      /\ node' = [node EXCEPT ![x] = IF online[x] THEN 0 ELSE @]
      /\ SendTo(here, to, taken)
      /\ UNCHANGED <<leave, paused, requests, life, machine, faults, pauses>>
  BY DEF Join
<1> HIDE DEF gone, word, then, to, here, taken
<1>5. to \in [Devices -> Seq(Sent)] /\ here \in SUBSET Devices
  <2>1. \A d \in Devices : to[d] \in Seq(Sent)
    BY <1>2, <1>4, <1>9
  <2> QED
    BY <2>1 DEF to, here
<1>7. Typed'
  <2>1. 0 \in Lives
    BY RendezvousAssumption DEF Lives
  <2>2. /\ inbox' \in [Devices -> Seq(Sent)]
        /\ missed' \in [Devices -> SUBSET {"reach", "peer", "halt", "node"}]
    BY <1>1, <1>5, <1>6, SentTyped
  <2> QED
    BY <1>1, <1>6, <2>1, <2>2 DEF Typed, requests, machine
<1>8. ASSUME NEW d \in Devices PROVE Good(d)'
  <2> DEFINE e == other(d)
             s == to[d]
             q == inbox[d]
             r == inbox'[d]
  <2>0. e \in Devices /\ e # d /\ (x = d \/ x = e)
    BY Couple
  <2>1. Away(d) /\ PeerOk(d) /\ HaltOk(d) /\ ReachOk(d) /\ Noted(d) /\ Owed(d)
    BY DEF RInv
  <2>2. /\ missed[d] \subseteq missed'[d]
        /\ "node" \in missed'[d] <=> "node" \in missed[d] \/ d \in taken
        /\ "peer" \in missed'[d] <=> "peer" \in missed[d]
        /\ d \in here =>
             /\ \A k, m : Says(r, k, m) => Says(s, k, m) \/ (Silent(s, k) /\ Says(q, k, m))
             /\ \A k : Silent(r, k) <=> Silent(q, k) /\ Silent(s, k)
             /\ \A m : Stands(r, m) => Stands(s, m) \/ (Lasting(s) /\ Stands(q, m))
             /\ Lasting(r) <=> Lasting(q) /\ Lasting(s)
        /\ d \notin here => /\ r = q /\ (Lasting(s) \/ "reach" \in missed'[d])
                            /\ \A m : Says(s, "halt", m) =>
                                        m \in Sent /\ (m.val \/ "halt" \in missed'[d])
    BY <1>1, <1>5, <1>6, Sending
  <2>3. (d \in here <=> d = x \/ Listening(d)) /\ d \notin taken
    BY <1>9
  <2>5. ~Listening(d) => q = <<>>
    BY <2>1 DEF Away
  <2>6. /\ Silent(s, "halt") /\ \A m : Says(s, "peer", m) => m = word
        /\ d # x => ~Silent(s, "peer")
        /\ d = x => \A m : ~Says(s, "peer", m)
        /\ Lasting(s) <=> node[x] = 0 \/ ~online[x]
        /\ Silent(s, "reach") <=> node[x] = 0 \/ ~online[x]
        /\ \A m : Stands(s, m) /\ m.is = "reach" => m.val = 0
        /\ \A m : ~Says(s, "halt", m)
        /\ Silent(s, "reach") => \A m : ~Says(s, "reach", m)
    <3>1. s = IF d = x THEN gone ELSE then \o <<word>>
      BY <1>9
    <3>2. \A t, k, m : Silent(t, k) => ~Says(t, k, m)
      BY DEF Silent, Says
    <3> HIDE DEF s
    <3> QED
      BY <1>2, <1>3, <1>4, <3>1, <3>2
  <2>8. /\ \A f \in Devices : Listening(f)' <=> Listening(f) \/ f = x
        /\ \A f \in Devices : f # x => conn'[f] = conn[f] /\ online'[f] = online[f]
        /\ conn'[x] = "joined" /\ online'[x] = TRUE
        /\ UNCHANGED <<leave, paused, put, pausing, life, fsm, reach, peer, halt, faults>>
    BY <1>1, <1>6 DEF requests, machine, Listening, Typed
  <2>9. /\ node'[d] = (IF d = x /\ online[x] THEN 0 ELSE node[d])
        /\ node'[e] = (IF e = x /\ online[x] THEN 0 ELSE node[e])
    BY <1>1, <1>6, <2>0 DEF Typed
  <2>4. d = x => q = <<>> /\ ~Listening(d)
    BY <1>6, <2>5 DEF Listening
  <2> HIDE DEF s, q, r
  <2>10. Away(d)'
    BY <1>6, <2>1, <2>2, <2>3, <2>5, <2>8 DEF Away, q, r
  <2>11. PeerOk(d)'
    <3>1. CASE d = x
      BY <3>1, <2>0, <2>2, <2>3, <2>4, <2>6, <2>8, Single DEF PeerOk, r
    <3>2. CASE d # x
      <4>1. ASSUME NEW m \in Sent, Listening(d), Says(r, "peer", m), m.ok
            PROVE  m.val = online'[e]
        <5>1. m = word
          BY <3>2, <4>1, <2>2, <2>3, <2>6
        <5> QED
          BY <1>10, <5>1, <2>0, <2>8, <3>2
      <4>2. conn[d] = "up" => ~Silent(r, "peer")
        BY <3>2, <2>2, <2>3, <2>6 DEF Listening
      <4> QED
        BY <4>1, <4>2, <2>8, <3>2 DEF PeerOk, r
    <3> QED
      BY <3>1, <3>2
  <2>12. HaltOk(d)'
    <3>1. CASE d = x
      BY <3>1, <1>6, <2>1, <2>2, <2>3, <2>4, <2>6, <2>8, Single
         DEF HaltOk, Pausing, Target, q, r
    <3>2. CASE d # x
      BY <3>2, <2>1, <2>2, <2>3, <2>6, <2>8 DEF HaltOk, Listening, Pausing, Target, q, r
    <3> QED
      BY <3>1, <3>2
  <2>13. ReachOk(d)'
    <3>2. \A v : Fine(e, v) => Fine(e, v)' \/ (x = e /\ node[x] # 0 /\ online[x])
      <4>1. CASE x = e
        BY <4>1, <2>0, <2>8, <2>9 DEF Fine, Firm
      <4>2. CASE x # e
        BY <4>2, <2>0, <2>8, <2>9 DEF Fine, Firm
      <4> QED
        BY <4>1, <4>2
    <3>3. ASSUME NEW m \in Sent, Stands(r, m), m.is = "reach", m.ok, m.val # 0
          PROVE  Fine(e, m.val)'
      <4>1. Stands(q, m) /\ (d = x \/ Listening(d) => node[x] = 0 \/ ~online[x])
        BY <3>3, <2>2, <2>3, <2>6
      <4>2. Listening(d)
        BY <4>1, <2>5, Single
      <4> QED
        BY <3>2, <3>3, <4>1, <4>2, <2>1 DEF ReachOk, q
    <3>4. ASSUME fsm[d] # "off", "reach" \notin missed'[d], reach[d] # 0, Lasting(r)
          PROVE  Fine(e, reach[d])'
      <4>1. (node[x] = 0 \/ ~online[x]) /\ Lasting(q) /\ "reach" \notin missed[d]
        BY <3>4, <2>2, <2>3, <2>6
      <4>2. Fine(e, reach[d]) /\ reach'[d] = reach[d]
        BY <3>4, <4>1, <2>1, <2>8 DEF ReachOk, q
      <4> QED
        BY <3>2, <4>1, <4>2
    <3>5. /\ \A m \in Sent : Stands(r, m) /\ m.is = "reach" /\ m.ok /\ m.val # 0 => Fine(e, m.val)'
          /\ fsm[d] # "off" /\ "reach" \notin missed'[d] /\ reach[d] # 0 /\ Lasting(r) =>
               Fine(e, reach[d])'
      BY <3>3, <3>4
    <3> QED
      BY <3>5, <2>8 DEF ReachOk, r
  <2>14. Noted(d)'
    BY <2>0, <2>1, <2>2, <2>3, <2>8, <2>9 DEF Noted, Announced
  <2>15. Owed(d)'
    <3>1. CASE d = x
      BY <3>1, <2>8 DEF Owed, Announced
    <3>2. CASE d # x
      <4>1. Both(d)' <=> Both(d)
        BY <2>8 DEF Both
      <4>2. Both(e)' <=> Both(e)
        BY <2>8 DEF Both
      <4>3. node'[e] # 0 /\ Announced(d)' => Silent(s, "reach") /\ Announced(d) /\ Listening(d)
        BY <3>2, <2>0, <2>6, <2>8, <2>9 DEF Announced, Listening
      <4> QED
        BY <3>2, <4>1, <4>2, <4>3, <2>0, <2>1, <2>2, <2>3, <2>6, <2>8, <2>9 DEF Owed, q, r
    <3> QED
      BY <3>1, <3>2
  <2> QED
    BY <2>10, <2>11, <2>12, <2>13, <2>14, <2>15 DEF Good
<1> QED
  BY <1>7, <1>8 DEF RInv, Good

LEMMA NotifyReachabilityKeeps ==
  ASSUME RInv, NEW x \in Devices, NotifyReachability(x) PROVE RInv'
<1> DEFINE seen == put[x].seen
           both == \A f \in Devices : seen[f] # 0
           current(e) == node[e] = seen[e] /\ seen[e] = life[e] /\ online[e]
           word(d) == Reach(seen[other(d)], current(other(d)))
           to == [d \in Devices |-> IF \E f \in Devices : seen[f] = 0 THEN <<>>
                                    ELSE <<word(d)>>]
           here == {d \in Devices : Listening(d)}
           taken == {}
<1>1. Typed /\ put[x] \in [at : {"no", "written"}, seen : [Devices -> Lives]]
  BY DEF RInv, Typed
<1>6. /\ put[x].at = "written"
      /\ SendTo(here, to, taken)
      /\ put' = [put EXCEPT ![x] = Idle]
      /\ UNCHANGED <<meta, pausing, conn, life, machine, faults, pauses>>
  BY DEF NotifyReachability, Send
<1>9. /\ \A d \in Devices : to[d] = IF both THEN <<word(d)>> ELSE <<>>
      /\ \A d \in Devices : d \in here <=> Listening(d)
      /\ \A d : d \notin taken
  OBVIOUS
<1>3. \A d \in Devices : both => /\ word(d) \in Sent /\ ~Ends(word(d))
                                 /\ word(d).is = "reach" /\ word(d).val = seen[other(d)]
                                 /\ word(d).val # 0
                                 /\ word(d).ok = current(other(d))
  <2> SUFFICES ASSUME NEW d \in Devices, both
               PROVE  /\ word(d) \in Sent /\ ~Ends(word(d))
                      /\ word(d).is = "reach" /\ word(d).val = seen[other(d)]
                      /\ word(d).val # 0
                      /\ word(d).ok = current(other(d))
    OBVIOUS
  <2>1. other(d) \in Devices
    BY Couple
  <2>2. seen[other(d)] \in Lives \ {0}
    BY <1>1, <2>1
  <2>3. current(other(d)) \in BOOLEAN
    OBVIOUS
  <2> HIDE DEF current, seen
  <2> QED
    BY <2>2, <2>3, Words
<1>2. \A d \in Devices : (both => <<word(d)>> \in Seq(Sent)) /\ <<>> \in Seq(Sent)
  BY <1>3, Few
<1>4. \A d \in Devices :
        (both => /\ \A k : (Silent(<<word(d)>>, k) <=> k # "reach")
                 /\ \A k, m : Says(<<word(d)>>, k, m) => m = word(d) /\ k = "reach"
                 /\ Lasting(<<word(d)>>) /\ \A m : Stands(<<word(d)>>, m) => m = word(d))
  <2> SUFFICES ASSUME NEW d \in Devices, both
               PROVE  LET w == word(d) IN
                      /\ \A k : (Silent(<<w>>, k) <=> k # "reach")
                      /\ \A k, m : Says(<<w>>, k, m) => m = w /\ k = "reach"
                      /\ Lasting(<<w>>) /\ \A m : Stands(<<w>>, m) => m = w
    OBVIOUS
  <2> DEFINE w == word(d)
  <2>1. ~Ends(w) /\ w.is = "reach"
    BY <1>3
  <2> HIDE DEF both, word, w
  <2>2. /\ \A k : (Silent(<<w>>, k) <=> k # "reach")
        /\ \A k, m : Says(<<w>>, k, m) => m = w /\ k = "reach"
        /\ Lasting(<<w>>) /\ \A m : Stands(<<w>>, m) => m = w
    BY <2>1, Single
  <2> QED
    BY <2>2 DEF w
<1> HIDE DEF both, word, to, here, taken
<1>5. to \in [Devices -> Seq(Sent)] /\ here \in SUBSET Devices
  <2>1. \A d \in Devices : to[d] \in Seq(Sent)
    BY <1>2, <1>9
  <2> QED
    BY <2>1 DEF to, here
<1>7. Typed'
  <2>1. /\ inbox' \in [Devices -> Seq(Sent)]
        /\ missed' \in [Devices -> SUBSET {"reach", "peer", "halt", "node"}]
    BY <1>1, <1>5, <1>6, SentTyped
  <2>2. Idle \in [at : {"no", "written"}, seen : [Devices -> Lives]]
    BY RendezvousAssumption DEF Idle, Lives
  <2>3. put' \in [Devices -> [at : {"no", "written"}, seen : [Devices -> Lives]]]
    BY <1>1, <1>6, <2>2 DEF Typed
  <2> QED
    BY <1>1, <1>6, <2>1, <2>3 DEF Typed, meta, machine
<1>8. ASSUME NEW d \in Devices PROVE Good(d)'
  <2> DEFINE e == other(d)
             s == to[d]
             q == inbox[d]
             r == inbox'[d]
  <2>0. e \in Devices /\ e # d /\ \A y \in Devices : y = d \/ y = e
    BY Couple
  <2>1. Away(d) /\ PeerOk(d) /\ HaltOk(d) /\ ReachOk(d) /\ Noted(d) /\ Owed(d)
    BY DEF RInv
  <2>2. /\ missed[d] \subseteq missed'[d]
        /\ "node" \in missed'[d] <=> "node" \in missed[d] \/ d \in taken
        /\ "peer" \in missed'[d] <=> "peer" \in missed[d]
        /\ d \in here =>
             /\ \A k, m : Says(r, k, m) => Says(s, k, m) \/ (Silent(s, k) /\ Says(q, k, m))
             /\ \A k : Silent(r, k) <=> Silent(q, k) /\ Silent(s, k)
             /\ \A m : Stands(r, m) => Stands(s, m) \/ (Lasting(s) /\ Stands(q, m))
             /\ Lasting(r) <=> Lasting(q) /\ Lasting(s)
        /\ d \notin here => /\ r = q /\ (Lasting(s) \/ "reach" \in missed'[d])
                            /\ \A m : Says(s, "halt", m) =>
                                        m \in Sent /\ (m.val \/ "halt" \in missed'[d])
    BY <1>1, <1>5, <1>6, Sending
  <2>3. (d \in here <=> Listening(d)) /\ d \notin taken
    BY <1>9
  <2>5. ~Listening(d) => q = <<>>
    BY <2>1 DEF Away
  <2>6. /\ Silent(s, "halt") /\ Silent(s, "peer") /\ Lasting(s)
        /\ \A m : ~Says(s, "halt", m) /\ ~Says(s, "peer", m)
        /\ Silent(s, "reach") <=> ~both
        /\ \A m : Says(s, "reach", m) => both /\ m.val # 0
        /\ \A m : Stands(s, m) => both /\ m.val = seen[e] /\ m.ok = current(e)
    <3>1. s = IF both THEN <<word(d)>> ELSE <<>>
      BY <1>9
    <3> HIDE DEF s, current, seen
    <3> QED
      BY <1>3, <1>4, <3>1, Single
  <2>8. /\ \A f \in Devices : Listening(f)' <=> Listening(f)
        /\ UNCHANGED <<meta, node, online, leave, paused, pausing, conn, life, fsm, reach,
                       peer, halt, faults>>
    BY <1>6 DEF meta, machine, Listening
  <2>9. /\ \A f \in Devices : f # x => put'[f] = put[f]
        /\ Both(x) => both
    BY <1>1, <1>6 DEF Typed, Both, both
  <2> HIDE DEF s, q, r
  <2>10. Away(d)'
    BY <2>1, <2>2, <2>3, <2>5, <2>8 DEF Away, q, r
  <2>11. PeerOk(d)'
    BY <2>1, <2>2, <2>3, <2>5, <2>6, <2>8 DEF PeerOk, Listening, q, r
  <2>12. HaltOk(d)'
    BY <2>1, <2>2, <2>3, <2>6, <2>8 DEF HaltOk, Listening, Pausing, Target, q, r
  <2>13. ReachOk(d)'
    <3>2. \A v : Fine(e, v) => Fine(e, v)'
      BY <2>0, <2>8 DEF Fine, Firm
    <3>3. ASSUME NEW m \in Sent, Stands(r, m), m.is = "reach", m.ok, m.val # 0
          PROVE  Fine(e, m.val)'
      <4>1. Stands(q, m) \/ Stands(s, m)
        BY <3>3, <2>2
      <4>2. CASE Stands(q, m)
        BY <3>2, <3>3, <4>2, <2>1 DEF ReachOk, q
      <4>3. CASE Stands(s, m)
        <5>1. m.val = seen[e] /\ current(e)
          BY <3>3, <4>3, <2>6
        <5>2. Fine(e, m.val)
          BY <3>3, <5>1 DEF Fine, Firm
        <5> QED
          BY <3>2, <5>2
      <4> QED
        BY <4>1, <4>2, <4>3
    <3>4. ASSUME fsm[d] # "off", "reach" \notin missed'[d], reach[d] # 0, Lasting(r)
          PROVE  Fine(e, reach[d])'
      <4>1. Lasting(q) /\ "reach" \notin missed[d]
        BY <3>4, <2>2, <2>6
      <4>2. Fine(e, reach[d]) /\ reach'[d] = reach[d]
        BY <3>4, <4>1, <2>1, <2>8 DEF ReachOk, q
      <4> QED
        BY <3>2, <4>2
    <3>5. /\ \A m \in Sent : Stands(r, m) /\ m.is = "reach" /\ m.ok /\ m.val # 0 => Fine(e, m.val)'
          /\ fsm[d] # "off" /\ "reach" \notin missed'[d] /\ reach[d] # 0 /\ Lasting(r) =>
               Fine(e, reach[d])'
      BY <3>3, <3>4
    <3> QED
      BY <3>5, <2>8 DEF ReachOk, r
  <2>14. Noted(d)'
    BY <2>1, <2>2, <2>3, <2>8 DEF Noted, Announced
  <2>15. Owed(d)'
    <3> SUFFICES ASSUME Announced(d)', node'[d] # 0, node'[e] # 0
                 PROVE  \/ Both(d)' \/ Both(e)'
                        \/ /\ \A m \in Sent : Says(r, "reach", m) => m.val # 0
                           /\ Silent(r, "reach") => reach'[d] # 0
      BY DEF Owed, r
    <3>1. Announced(d) /\ d \in here /\ node[d] # 0 /\ node[e] # 0
      BY <2>3, <2>8 DEF Announced, Listening
    <3>2. CASE Both(x)
      BY <3>1, <3>2, <2>2, <2>6, <2>9
    <3>3. CASE ~Both(x) /\ (Both(d) \/ Both(e))
      <4>1. \A f \in Devices : f # x /\ Both(f) => Both(f)'
        BY <2>9 DEF Both
      <4> QED
        BY <3>3, <4>1, <2>0
    <3>4. CASE ~Both(d) /\ ~Both(e)
      BY <3>1, <3>4, <2>1, <2>2, <2>6, <2>8 DEF Owed, q
    <3> QED
      BY <3>2, <3>3, <3>4
  <2> QED
    BY <2>10, <2>11, <2>12, <2>13, <2>14, <2>15 DEF Good
<1> QED
  BY <1>7, <1>8 DEF RInv, Good

LEMMA WritePausedKeeps == ASSUME RInv, WritePaused PROVE RInv'
<1> DEFINE word == Halt(TRUE)
           to == [d \in Devices |-> IF pausing.to THEN <<word>> ELSE <<>>]
           here == {d \in Devices : Listening(d)}
           taken == {}
<1>1. Typed /\ pausing.to \in BOOLEAN
  BY DEF RInv, Typed
<1>6. /\ pausing.at = "told" /\ pausing' = Calm /\ paused' = pausing.to
      /\ halt' = [d \in Devices |-> IF d = pausing.by THEN pausing.to ELSE halt[d]]
      /\ SendTo(here, to, taken)
      /\ UNCHANGED <<node, online, leave, put, conn, life, fsm, reach, peer, faults, pauses>>
  BY DEF WritePaused, Send
<1>9. /\ \A d \in Devices : to[d] = IF pausing.to THEN <<word>> ELSE <<>>
      /\ \A d \in Devices : d \in here <=> Listening(d)
      /\ \A d : d \notin taken
  OBVIOUS
<1>3. word \in Sent /\ ~Ends(word) /\ word.is = "halt" /\ word.val = TRUE
  BY Words
<1> HIDE DEF word, to, here, taken
<1>2. <<word>> \in Seq(Sent) /\ <<>> \in Seq(Sent)
  BY <1>3, Few
<1>5. to \in [Devices -> Seq(Sent)] /\ here \in SUBSET Devices
  <2>1. \A d \in Devices : to[d] \in Seq(Sent)
    BY <1>2, <1>9
  <2> QED
    BY <2>1 DEF to, here
<1>7. Typed'
  <2>1. /\ inbox' \in [Devices -> Seq(Sent)]
        /\ missed' \in [Devices -> SUBSET {"reach", "peer", "halt", "node"}]
    BY <1>1, <1>5, <1>6, SentTyped
  <2> QED
    BY <1>1, <1>6, <2>1, RendezvousAssumption DEF Typed, Idle, Calm, Lives, meta, machine
<1>8. ASSUME NEW d \in Devices PROVE Good(d)'
  <2> DEFINE e == other(d)
             s == to[d]
             q == inbox[d]
             r == inbox'[d]
  <2>0. e \in Devices /\ e # d /\ \A y \in Devices : y = d \/ y = e
    BY Couple
  <2>1. Away(d) /\ PeerOk(d) /\ HaltOk(d) /\ ReachOk(d) /\ Noted(d) /\ Owed(d)
    BY DEF RInv
  <2>2. /\ missed[d] \subseteq missed'[d]
        /\ "node" \in missed'[d] <=> "node" \in missed[d] \/ d \in taken
        /\ "peer" \in missed'[d] <=> "peer" \in missed[d]
        /\ d \in here =>
             /\ \A k, m : Says(r, k, m) => Says(s, k, m) \/ (Silent(s, k) /\ Says(q, k, m))
             /\ \A k : Silent(r, k) <=> Silent(q, k) /\ Silent(s, k)
             /\ \A m : Stands(r, m) => Stands(s, m) \/ (Lasting(s) /\ Stands(q, m))
             /\ Lasting(r) <=> Lasting(q) /\ Lasting(s)
        /\ d \notin here => /\ r = q /\ (Lasting(s) \/ "reach" \in missed'[d])
                            /\ \A m : Says(s, "halt", m) =>
                                        m \in Sent /\ (m.val \/ "halt" \in missed'[d])
    BY <1>1, <1>5, <1>6, Sending
  <2>3. (d \in here <=> Listening(d)) /\ d \notin taken
    BY <1>9
  <2>5. ~Listening(d) => q = <<>>
    BY <2>1 DEF Away
  <2>6. /\ Silent(s, "reach") /\ Silent(s, "peer") /\ Lasting(s)
        /\ \A m : ~Says(s, "reach", m) /\ ~Says(s, "peer", m)
        /\ Silent(s, "halt") <=> ~pausing.to
        /\ \A m : Says(s, "halt", m) => pausing.to /\ m.val = TRUE
        /\ \A m : Stands(s, m) => m.is = "halt"
    <3>1. s = IF pausing.to THEN <<word>> ELSE <<>>
      BY <1>9
    <3> HIDE DEF s
    <3> QED
      BY <1>3, <3>1, Single
  <2>8. /\ \A f \in Devices : Listening(f)' <=> Listening(f)
        /\ UNCHANGED <<node, online, leave, put, conn, life, fsm, reach, peer, faults>>
    BY <1>6 DEF Listening
  <2>9. halt'[d] = IF d = pausing.by THEN pausing.to ELSE halt[d]
    BY <1>6
  <2> HIDE DEF s, q, r
  <2>10. Away(d)'
    BY <2>1, <2>2, <2>3, <2>5, <2>8 DEF Away, q, r
  <2>11. PeerOk(d)'
    BY <2>1, <2>2, <2>3, <2>5, <2>6, <2>8 DEF PeerOk, Listening, q, r
  <2>12. HaltOk(d)'
    <3>1. Target' = pausing.to /\ Target = pausing.to
      BY <1>6 DEF Target, Calm
    <3>2. CASE pausing.to
      <4>1. Target' = TRUE
        BY <1>1, <3>1, <3>2
      <4> QED
        BY <3>2, <4>1, <2>2, <2>3, <2>6, <2>8 DEF HaltOk, Listening, q, r
    <3>3. CASE ~pausing.to
      <4>1. Target' = FALSE /\ Target = FALSE /\ ~Pausing
        BY <1>1, <3>1, <3>3 DEF Pausing
      <4>2. halt'[d] = FALSE \/ halt'[d] = halt[d]
        BY <1>1, <2>9, <3>3
      <4> QED
        BY <3>3, <4>1, <4>2, <2>1, <2>2, <2>3, <2>6, <2>8 DEF HaltOk, Listening, q, r
    <3> QED
      BY <3>2, <3>3
  <2>13. ReachOk(d)'
    <3>2. \A v : Fine(e, v) => Fine(e, v)'
      BY <2>0, <2>8 DEF Fine, Firm
    <3>3. ASSUME NEW m \in Sent, Stands(r, m), m.is = "reach", m.ok, m.val # 0
          PROVE  Fine(e, m.val)'
      <4>1. Stands(q, m)
        BY <3>3, <2>2, <2>6
      <4> QED
        BY <3>2, <3>3, <4>1, <2>1 DEF ReachOk, q
    <3>4. ASSUME fsm[d] # "off", "reach" \notin missed'[d], reach[d] # 0, Lasting(r)
          PROVE  Fine(e, reach[d])'
      <4>1. Lasting(q) /\ "reach" \notin missed[d]
        BY <3>4, <2>2, <2>6
      <4>2. Fine(e, reach[d]) /\ reach'[d] = reach[d]
        BY <3>4, <4>1, <2>1, <2>8 DEF ReachOk, q
      <4> QED
        BY <3>2, <4>2
    <3>5. /\ \A m \in Sent : Stands(r, m) /\ m.is = "reach" /\ m.ok /\ m.val # 0 => Fine(e, m.val)'
          /\ fsm[d] # "off" /\ "reach" \notin missed'[d] /\ reach[d] # 0 /\ Lasting(r) =>
               Fine(e, reach[d])'
      BY <3>3, <3>4
    <3> QED
      BY <3>5, <2>8 DEF ReachOk, r
  <2>14. Noted(d)'
    BY <2>1, <2>2, <2>3, <2>8 DEF Noted, Announced
  <2>15. Owed(d)'
    BY <2>0, <2>1, <2>2, <2>3, <2>6, <2>8 DEF Owed, Announced, Both, Listening, q, r
  <2> QED
    BY <2>10, <2>11, <2>12, <2>13, <2>14, <2>15 DEF Good
<1> QED
  BY <1>7, <1>8 DEF RInv, Good

LEMMA PauseKeeps ==
  ASSUME RInv, NEW x \in Devices, Pause(x) PROVE RInv'
<1> DEFINE word == Halt(~halt[x])
           to == [d \in Devices |-> <<word>>]
           here == {d \in Devices : Listening(d)}
           taken == {}
<1>1. Typed /\ halt[x] \in BOOLEAN /\ (~halt[x]) \in BOOLEAN
  BY DEF RInv, Typed
<1>6. /\ pausing' = [at |-> "told", by |-> x, to |-> ~halt[x]]
      /\ pauses < MaxPauses /\ pauses' = pauses + 1
      /\ SendTo(here, to, taken)
      /\ UNCHANGED <<meta, put, conn, life, machine, faults>>
  BY DEF Pause, Send
<1>9. /\ \A d \in Devices : to[d] = <<word>>
      /\ \A d \in Devices : d \in here <=> Listening(d)
      /\ \A d : d \notin taken
  OBVIOUS
<1>3. word \in Sent /\ ~Ends(word) /\ word.is = "halt" /\ word.val = ~halt[x]
  BY <1>1, Words
<1> HIDE DEF word, to, here, taken
<1>2. <<word>> \in Seq(Sent)
  BY <1>3, Few
<1>5. to \in [Devices -> Seq(Sent)] /\ here \in SUBSET Devices
  <2>1. \A d \in Devices : to[d] \in Seq(Sent)
    BY <1>2, <1>9
  <2> QED
    BY <2>1 DEF to, here
<1>7. Typed'
  <2>1. /\ inbox' \in [Devices -> Seq(Sent)]
        /\ missed' \in [Devices -> SUBSET {"reach", "peer", "halt", "node"}]
    BY <1>1, <1>5, <1>6, SentTyped
  <2>2. pauses' \in 0..MaxPauses
    BY <1>1, <1>6, RendezvousAssumption DEF Typed
  <2>3. pausing' \in [at : {"no", "told"}, by : Devices \union {Nobody}, to : BOOLEAN]
    BY <1>1, <1>6
  <2> QED
    BY <1>1, <1>6, <2>1, <2>2, <2>3 DEF Typed, meta, machine
<1>8. ASSUME NEW d \in Devices PROVE Good(d)'
  <2> DEFINE e == other(d)
             s == to[d]
             q == inbox[d]
             r == inbox'[d]
  <2>0. e \in Devices /\ e # d /\ \A y \in Devices : y = d \/ y = e
    BY Couple
  <2>1. Away(d) /\ PeerOk(d) /\ HaltOk(d) /\ ReachOk(d) /\ Noted(d) /\ Owed(d)
    BY DEF RInv
  <2>2. /\ missed[d] \subseteq missed'[d]
        /\ "node" \in missed'[d] <=> "node" \in missed[d] \/ d \in taken
        /\ "peer" \in missed'[d] <=> "peer" \in missed[d]
        /\ d \in here =>
             /\ \A k, m : Says(r, k, m) => Says(s, k, m) \/ (Silent(s, k) /\ Says(q, k, m))
             /\ \A k : Silent(r, k) <=> Silent(q, k) /\ Silent(s, k)
             /\ \A m : Stands(r, m) => Stands(s, m) \/ (Lasting(s) /\ Stands(q, m))
             /\ Lasting(r) <=> Lasting(q) /\ Lasting(s)
        /\ d \notin here => /\ r = q /\ (Lasting(s) \/ "reach" \in missed'[d])
                            /\ \A m : Says(s, "halt", m) =>
                                        m \in Sent /\ (m.val \/ "halt" \in missed'[d])
    BY <1>1, <1>5, <1>6, Sending
  <2>3. (d \in here <=> Listening(d)) /\ d \notin taken
    BY <1>9
  <2>5. ~Listening(d) => q = <<>>
    BY <2>1 DEF Away
  <2>6. /\ Silent(s, "reach") /\ Silent(s, "peer") /\ Lasting(s)
        /\ \A m : ~Says(s, "reach", m) /\ ~Says(s, "peer", m)
        /\ ~Silent(s, "halt") /\ Says(s, "halt", word)
        /\ \A m : Says(s, "halt", m) => m.val = ~halt[x]
        /\ \A m : Stands(s, m) => m.is = "halt"
    <3>1. s = <<word>>
      BY <1>9
    <3> HIDE DEF s
    <3> QED
      BY <1>3, <3>1, Single
  <2>8. /\ \A f \in Devices : Listening(f)' <=> Listening(f)
        /\ UNCHANGED <<node, online, leave, paused, put, conn, life, fsm, reach, peer, halt,
                       faults>>
    BY <1>6 DEF meta, machine, Listening
  <2> HIDE DEF s, q, r
  <2>10. Away(d)'
    BY <2>1, <2>2, <2>3, <2>5, <2>8 DEF Away, q, r
  <2>11. PeerOk(d)'
    BY <2>1, <2>2, <2>3, <2>5, <2>6, <2>8 DEF PeerOk, Listening, q, r
  <2>12. HaltOk(d)'
    <3>1. Target' = ~halt[x] /\ (Pausing' <=> ~halt[x])
      BY <1>6 DEF Target, Pausing
    <3>2. CASE ~halt[x]
      BY <3>1, <3>2 DEF HaltOk
    <3>3. CASE halt[x]
      <4>1. Target' = FALSE /\ word.val = FALSE
        BY <1>1, <1>3, <3>1, <3>3
      <4>2. d \notin here => "halt" \in missed'[d]
        BY <4>1, <2>2, <2>6
      <4> QED
        BY <1>3, <4>1, <4>2, <2>2, <2>3, <2>6, <2>8 DEF HaltOk, Listening, q, r
    <3> QED
      BY <3>2, <3>3
  <2>13. ReachOk(d)'
    <3>2. \A v : Fine(e, v) => Fine(e, v)'
      BY <2>0, <2>8 DEF Fine, Firm
    <3>3. ASSUME NEW m \in Sent, Stands(r, m), m.is = "reach", m.ok, m.val # 0
          PROVE  Fine(e, m.val)'
      <4>1. Stands(q, m)
        BY <3>3, <2>2, <2>6
      <4> QED
        BY <3>2, <3>3, <4>1, <2>1 DEF ReachOk, q
    <3>4. ASSUME fsm[d] # "off", "reach" \notin missed'[d], reach[d] # 0, Lasting(r)
          PROVE  Fine(e, reach[d])'
      <4>1. Lasting(q) /\ "reach" \notin missed[d]
        BY <3>4, <2>2, <2>6
      <4>2. Fine(e, reach[d]) /\ reach'[d] = reach[d]
        BY <3>4, <4>1, <2>1, <2>8 DEF ReachOk, q
      <4> QED
        BY <3>2, <4>2
    <3>5. /\ \A m \in Sent : Stands(r, m) /\ m.is = "reach" /\ m.ok /\ m.val # 0 => Fine(e, m.val)'
          /\ fsm[d] # "off" /\ "reach" \notin missed'[d] /\ reach[d] # 0 /\ Lasting(r) =>
               Fine(e, reach[d])'
      BY <3>3, <3>4
    <3> QED
      BY <3>5, <2>8 DEF ReachOk, r
  <2>14. Noted(d)'
    BY <2>1, <2>2, <2>3, <2>8 DEF Noted, Announced
  <2>15. Owed(d)'
    BY <2>0, <2>1, <2>2, <2>3, <2>6, <2>8 DEF Owed, Announced, Both, Listening, q, r
  <2> QED
    BY <2>10, <2>11, <2>12, <2>13, <2>14, <2>15 DEF Good
<1> QED
  BY <1>7, <1>8 DEF RInv, Good

-----------------------------------------------------------------------------
(***************************************************************************)
(* The faults, and the message that is heard.                              *)
(***************************************************************************)

LEMMA CutKeeps ==
  ASSUME RInv, NEW x \in Devices, LoseLink(x) PROVE RInv'
<1>1. /\ Typed /\ inbox[x] \in Seq(Sent) /\ <<>> \in Seq(Sent)
      /\ Losses(inbox[x]) \subseteq {"reach", "halt"}
      /\ Lasting(inbox[x]) \/ "reach" \in Losses(inbox[x])
      /\ \A m : Says(inbox[x], "halt", m) =>
                  m \in Sent /\ (m.val \/ "halt" \in Losses(inbox[x]))
  <2>1. Typed /\ inbox[x] \in Seq(Sent) /\ <<>> \in Seq(Sent)
    BY DEF RInv, Typed
  <2> QED
    BY <2>1, Losing
<1>2. /\ conn[x] \in {"joined", "up"} /\ conn' = [conn EXCEPT ![x] = "cut"]
      /\ faults < MaxFaults /\ faults' = faults + 1
      /\ inbox' = [inbox EXCEPT ![x] = <<>>]
      /\ missed' = [missed EXCEPT ![x] = @ \union Losses(inbox[x])]
      /\ UNCHANGED <<node, online, leave, paused, put, pausing, life, fsm, reach, peer, halt,
                     pauses>>
  BY DEF LoseLink, Fault, meta, requests, machine
<1>3. Typed'
  <2>1. faults' \in 0..MaxFaults /\ faults \in Nat
    BY <1>1, <1>2, RendezvousAssumption DEF Typed
  <2>2. /\ missed' \in [Devices -> SUBSET {"reach", "peer", "halt", "node"}]
        /\ inbox' \in [Devices -> Seq(Sent)]
        /\ conn' \in [Devices -> {"off", "cut", "joined", "up"}]
    BY <1>1, <1>2 DEF Typed
  <2> QED
    BY <1>1, <1>2, <2>1, <2>2 DEF Typed
<1>4. ASSUME NEW d \in Devices PROVE Good(d)'
  <2> DEFINE e == other(d)
             q == inbox[d]
  <2>0. e \in Devices /\ e # d /\ \A y \in Devices : y = d \/ y = e
    BY Couple
  <2>1. Away(d) /\ PeerOk(d) /\ HaltOk(d) /\ ReachOk(d) /\ Noted(d) /\ Owed(d)
    BY DEF RInv
  <2>2. \A v : Fine(e, v) => Fine(e, v)'
    BY <1>1, <1>2, <2>0 DEF Typed, Fine, Firm, Listening
  <2>3. life[d] \in Nat /\ faults \in Nat
    BY SMTT(30), <1>1, RendezvousAssumption DEF Typed, Lives
  <2>4. CASE d = x
    <3>1. /\ conn'[d] = "cut" /\ inbox'[d] = <<>> /\ ~Listening(d)' /\ Listening(d)
          /\ missed'[d] = missed[d] \union Losses(q)
      BY <1>1, <1>2, <2>4 DEF Typed, Listening
    <3>2. /\ \A k, m : Silent(inbox'[d], k) /\ ~Says(inbox'[d], k, m)
          /\ Lasting(inbox'[d]) /\ \A m : ~Stands(inbox'[d], m)
      <4>1. inbox'[d] = <<>>
        BY <3>1
      <4> DEFINE r == inbox'[d]
      <4>2. /\ \A k : Silent(<<>>, k) /\ \A m : ~Says(<<>>, k, m)
            /\ Lasting(<<>>) /\ \A m : ~Stands(<<>>, m)
        BY Single
      <4> HIDE DEF r
      <4>3. r = <<>>
        BY <4>1 DEF r
      <4>4. /\ \A k, m : Silent(r, k) /\ ~Says(r, k, m)
            /\ Lasting(r) /\ \A m : ~Stands(r, m)
        BY <4>2, <4>3
      <4> QED
        BY <4>4 DEF r
    <3>3. Away(d)' /\ PeerOk(d)' /\ Noted(d)' /\ Owed(d)'
      BY <1>2, <2>1, <2>3, <3>1 DEF Away, PeerOk, Noted, Owed, Announced
    <3>4. HaltOk(d)'
      <4>1. CASE Pausing
        BY <4>1, <1>2 DEF HaltOk, Pausing
      <4>2. CASE ~Pausing
        <5>1. ASSUME fsm[d] # "off", "halt" \notin missed'[d], halt[d] PROVE Target
          <6>1. "halt" \notin missed[d] /\ "halt" \notin Losses(q)
            BY <3>1, <5>1
          <6>2. CASE Silent(q, "halt")
            BY <1>2, <2>1, <2>4, <4>2, <5>1, <6>1, <6>2 DEF HaltOk
          <6>3. CASE ~Silent(q, "halt")
            <7>1. PICK m : Says(q, "halt", m)
              BY <1>1, <2>4, <6>3, Lately
            <7>2. m \in Sent /\ m.val
              BY <1>1, <2>4, <6>1, <7>1
            <7>3. m.val = Target
              BY <2>1, <3>1, <4>2, <7>1, <7>2 DEF HaltOk
            <7> QED
              BY <7>2, <7>3
          <6> QED
            BY <6>2, <6>3
        <5>2. Target' = Target
          BY <1>2 DEF Target
        <5> QED
          BY <1>2, <3>1, <5>1, <5>2 DEF HaltOk
      <4> QED
        BY <4>1, <4>2
    <3>5. ReachOk(d)'
      <4>1. ASSUME fsm[d] # "off", "reach" \notin missed'[d], reach[d] # 0
            PROVE  Fine(e, reach[d])'
        <5>1. Lasting(q) /\ "reach" \notin missed[d]
          BY <1>1, <2>4, <3>1, <4>1
        <5> QED
          BY <1>2, <2>1, <2>2, <4>1, <5>1 DEF ReachOk
      <4> QED
        BY <1>2, <3>2, <4>1 DEF ReachOk
    <3> QED
      BY <3>3, <3>4, <3>5 DEF Good
  <2>5. CASE d # x
    <3>1. /\ conn'[d] = conn[d] /\ inbox'[d] = q /\ (Listening(d)' <=> Listening(d))
          /\ missed'[d] = missed[d]
      BY <1>1, <1>2, <2>5 DEF Typed, Listening
    <3> HIDE DEF q
    <3>2. Away(d)' /\ PeerOk(d)' /\ Noted(d)'
      BY <1>2, <2>1, <2>3, <3>1 DEF Away, PeerOk, Noted, Announced, q
    <3>3. Owed(d)'
      BY <1>2, <2>1, <3>1 DEF Owed, Announced, Both, q
    <3>4. HaltOk(d)'
      BY <1>2, <2>1, <3>1 DEF HaltOk, Pausing, Target, q
    <3>5. ReachOk(d)'
      <4>1. \A m \in Sent : Stands(q, m) /\ m.is = "reach" /\ m.ok /\ m.val # 0 =>
                              Fine(e, m.val)'
        BY <2>1, <2>2 DEF ReachOk, q
      <4>2. fsm[d] # "off" /\ "reach" \notin missed[d] /\ reach[d] # 0 /\ Lasting(q) =>
              Fine(e, reach[d])'
        BY <1>2, <2>1, <2>2 DEF ReachOk, q
      <4> QED
        BY <1>2, <3>1, <4>1, <4>2 DEF ReachOk
    <3> QED
      BY <3>2, <3>3, <3>4, <3>5 DEF Good
  <2> QED
    BY <2>4, <2>5
<1> QED
  BY <1>3, <1>4 DEF RInv, Good

LEMMA CrashKeeps ==
  ASSUME RInv, NEW x \in Devices, Crash(x) PROVE RInv'
<1>1. Typed /\ <<>> \in Seq(Sent)
  BY DEF RInv
<1>2. /\ conn' = [conn EXCEPT ![x] = "off"]
      /\ faults < MaxFaults /\ faults' = faults + 1
      /\ inbox' = [inbox EXCEPT ![x] = <<>>]
      /\ fsm' = [fsm EXCEPT ![x] = "off"]
      /\ pausing' = IF pausing.by = x THEN [pausing EXCEPT !.by = Nobody] ELSE pausing
      /\ UNCHANGED <<node, online, leave, paused, put, life, reach, peer, halt, missed, pauses>>
  BY DEF Crash, Fault, meta, machine
<1>5. pausing' \in [at : {"no", "told"}, by : Devices \union {Nobody}, to : BOOLEAN]
      /\ pausing'.at = pausing.at /\ pausing'.to = pausing.to
  BY <1>1, <1>2 DEF Typed
<1>3. Typed'
  <2>1. faults' \in 0..MaxFaults /\ faults \in Nat
    BY <1>1, <1>2, RendezvousAssumption DEF Typed
  <2>2. /\ inbox' \in [Devices -> Seq(Sent)]
        /\ conn' \in [Devices -> {"off", "cut", "joined", "up"}]
        /\ fsm' \in [Devices -> {"off", "synchronize", "publish", "connection", "wait",
                                 "buffer", "transfer", "paused"}]
    BY <1>1, <1>2 DEF Typed
  <2> QED
    BY <1>1, <1>2, <1>5, <2>1, <2>2 DEF Typed
<1>4. ASSUME NEW d \in Devices PROVE Good(d)'
  <2> DEFINE e == other(d)
             q == inbox[d]
  <2>0. e \in Devices /\ e # d /\ \A y \in Devices : y = d \/ y = e
    BY Couple
  <2>1. Away(d) /\ PeerOk(d) /\ HaltOk(d) /\ ReachOk(d) /\ Noted(d) /\ Owed(d)
    BY DEF RInv
  <2>2. \A v : Fine(e, v) => Fine(e, v)'
    BY <1>1, <1>2, <2>0 DEF Typed, Fine, Firm, Listening
  <2>3. life[d] \in Nat /\ faults \in Nat
    BY SMTT(30), <1>1, RendezvousAssumption DEF Typed, Lives
  <2>6. (Pausing' <=> Pausing) /\ Target' = Target
    BY <1>2, <1>5 DEF Pausing, Target
  <2>4. CASE d = x
    <3>1. conn'[d] = "off" /\ inbox'[d] = <<>> /\ ~Listening(d)' /\ fsm'[d] = "off"
      BY <1>1, <1>2, <2>4 DEF Typed, Listening
    <3>2. /\ \A k, m : Silent(inbox'[d], k) /\ ~Says(inbox'[d], k, m)
          /\ Lasting(inbox'[d]) /\ \A m : ~Stands(inbox'[d], m)
      <4>1. inbox'[d] = <<>>
        BY <3>1
      <4> DEFINE r == inbox'[d]
      <4>2. /\ \A k : Silent(<<>>, k) /\ \A m : ~Says(<<>>, k, m)
            /\ Lasting(<<>>) /\ \A m : ~Stands(<<>>, m)
        BY Single
      <4> HIDE DEF r
      <4>3. r = <<>>
        BY <4>1 DEF r
      <4>4. /\ \A k, m : Silent(r, k) /\ ~Says(r, k, m)
            /\ Lasting(r) /\ \A m : ~Stands(r, m)
        BY <4>2, <4>3
      <4> QED
        BY <4>4 DEF r
    <3>4. life[d] <= faults + 1
      BY <2>1 DEF Away
    <3>3. Away(d)' /\ PeerOk(d)' /\ Noted(d)' /\ Owed(d)' /\ HaltOk(d)' /\ ReachOk(d)'
      BY <1>2, <2>3, <3>1, <3>2, <3>4 DEF Away, PeerOk, Noted, Owed, Announced, HaltOk, ReachOk
    <3> QED
      BY <3>3 DEF Good
  <2>5. CASE d # x
    <3>1. /\ conn'[d] = conn[d] /\ inbox'[d] = q /\ (Listening(d)' <=> Listening(d))
          /\ fsm'[d] = fsm[d]
      BY <1>1, <1>2, <2>5 DEF Typed, Listening
    <3> HIDE DEF q
    <3>2. Away(d)' /\ PeerOk(d)' /\ Noted(d)'
      BY <1>2, <2>1, <2>3, <3>1 DEF Away, PeerOk, Noted, Announced, q
    <3>3. Owed(d)'
      BY <1>2, <2>1, <3>1 DEF Owed, Announced, Both, q
    <3>4. HaltOk(d)'
      BY <1>2, <2>1, <2>6, <3>1 DEF HaltOk, q
    <3>5. ReachOk(d)'
      <4>1. \A m \in Sent : Stands(q, m) /\ m.is = "reach" /\ m.ok /\ m.val # 0 =>
                              Fine(e, m.val)'
        BY <2>1, <2>2 DEF ReachOk, q
      <4>2. fsm[d] # "off" /\ "reach" \notin missed[d] /\ reach[d] # 0 /\ Lasting(q) =>
              Fine(e, reach[d])'
        BY <1>2, <2>1, <2>2 DEF ReachOk, q
      <4> QED
        BY <1>2, <3>1, <4>1, <4>2 DEF ReachOk
    <3> QED
      BY <3>2, <3>3, <3>4, <3>5 DEF Good
  <2> QED
    BY <2>4, <2>5
<1> QED
  BY <1>3, <1>4 DEF RInv, Good

LEMMA HearKeeps ==
  ASSUME RInv, NEW x \in Devices, Hear(x) PROVE RInv'
<1> DEFINE h == Head(inbox[x])
<1>1. /\ Typed /\ inbox[x] \in Seq(Sent) /\ inbox[x] # <<>> /\ conn[x] = "up"
      /\ inbox' = [inbox EXCEPT ![x] = Tail(@)]
      /\ reach' = [reach EXCEPT ![x] = IF h.is = "reach" THEN h.val ELSE @]
      /\ peer' = [peer EXCEPT ![x] = IF h.is = "peer" THEN h.val ELSE @]
      /\ halt' = [halt EXCEPT ![x] = IF h.is = "halt" THEN h.val ELSE @]
      /\ missed' = [missed EXCEPT ![x] = IF h.ok THEN @ \ {h.is} ELSE @ \union {h.is}]
      /\ UNCHANGED <<node, online, leave, paused, put, pausing, conn, life, fsm, faults, pauses>>
  BY DEF RInv, Typed, Hear, meta, requests
<1>2. /\ Tail(inbox[x]) \in Seq(Sent) /\ h \in Sent
      /\ \A k, m : Says(Tail(inbox[x]), k, m) => Says(inbox[x], k, m)
      /\ \A k : Silent(Tail(inbox[x]), k) =>
                  IF h.is = k THEN Says(inbox[x], k, h) ELSE Silent(inbox[x], k)
      /\ \A m : Stands(Tail(inbox[x]), m) => Stands(inbox[x], m)
      /\ Lasting(Tail(inbox[x])) => Stands(inbox[x], h) /\ (Ends(h) \/ Lasting(inbox[x]))
  BY <1>1, Taking
<1>3. /\ h.is \in {"reach", "peer", "halt"}
      /\ h.is = "reach" => h.val \in Lives
      /\ h.is \in {"peer", "halt"} => h.val \in BOOLEAN
      /\ h.is = "halt" => h.ok
  <2>1. h \in Message
    BY <1>2 DEF Sent
  <2>2. h.is = "halt" => h.ok
    BY <1>2 DEF Sent
  <2>3. CASE h \in [is : {"reach"}, status : {TRUE}, val : Lives \ {0}, ok : BOOLEAN]
    BY <2>2, <2>3
  <2>4. CASE h \in [is : {"reach"}, status : {FALSE}, val : {0}, ok : BOOLEAN]
    <3>1. 0 \in Lives
      BY RendezvousAssumption DEF Lives
    <3>2. h.val = 0 /\ h.is = "reach"
      BY <2>4, Zenon
    <3> QED
      BY <2>2, <3>1, <3>2
  <2>5. CASE h \in [is : {"peer", "halt"}, val : BOOLEAN, ok : BOOLEAN]
    BY <2>2, <2>5
  <2> HIDE DEF h
  <2> QED
    BY <2>1, <2>3, <2>4, <2>5, Messages
<1> HIDE DEF h
<1>4. Typed'
  <2>1. inbox' \in [Devices -> Seq(Sent)] /\ reach' \in [Devices -> Lives]
    BY <1>1, <1>2, <1>3 DEF Typed
  <2>2. peer' \in [Devices -> BOOLEAN] /\ halt' \in [Devices -> BOOLEAN]
    BY <1>1, <1>3 DEF Typed
  <2>3. missed' \in [Devices -> SUBSET {"reach", "peer", "halt", "node"}]
    BY <1>1, <1>3 DEF Typed
  <2> QED
    BY <1>1, <2>1, <2>2, <2>3 DEF Typed
<1>5. ASSUME NEW d \in Devices PROVE Good(d)'
  <2> DEFINE e == other(d)
             q == inbox[d]
             r == inbox'[d]
  <2>0. e \in Devices /\ e # d /\ \A y \in Devices : y = d \/ y = e
    BY Couple
  <2>1. Away(d) /\ PeerOk(d) /\ HaltOk(d) /\ ReachOk(d) /\ Noted(d) /\ Owed(d)
    BY DEF RInv
  <2>2. \A v : Fine(e, v) <=> Fine(e, v)'
    BY <1>1 DEF Fine, Firm, Listening
  <2>3. (Pausing' <=> Pausing) /\ Target' = Target /\ (Listening(d)' <=> Listening(d))
    BY <1>1 DEF Pausing, Target, Listening
  <2>4. CASE d # x
    <3>1. /\ r = q /\ missed'[d] = missed[d] /\ reach'[d] = reach[d] /\ peer'[d] = peer[d]
          /\ halt'[d] = halt[d]
      BY <1>1, <2>4 DEF Typed
    <3> HIDE DEF q, r
    <3>2. Away(d)' /\ PeerOk(d)' /\ Noted(d)'
      BY <1>1, <2>1, <2>3, <3>1 DEF Away, PeerOk, Noted, Announced, q, r
    <3>3. Owed(d)'
      BY <1>1, <2>1, <3>1 DEF Owed, Announced, Both, q, r
    <3>4. HaltOk(d)'
      BY <1>1, <2>1, <2>3, <3>1 DEF HaltOk, q, r
    <3>5. ReachOk(d)'
      BY <1>1, <2>1, <2>2, <3>1 DEF ReachOk, q, r
    <3> QED
      BY <3>2, <3>3, <3>4, <3>5 DEF Good
  <2>5. CASE d = x
    <3>1. /\ r = Tail(inbox[x]) /\ q = inbox[x] /\ conn[d] = "up" /\ Listening(d)
          /\ reach'[d] = (IF h.is = "reach" THEN h.val ELSE reach[d])
          /\ peer'[d] = (IF h.is = "peer" THEN h.val ELSE peer[d])
          /\ halt'[d] = (IF h.is = "halt" THEN h.val ELSE halt[d])
          /\ missed'[d] = (IF h.ok THEN missed[d] \ {h.is} ELSE missed[d] \union {h.is})
      BY <1>1, <2>5 DEF Typed, Listening
    <3>2. /\ \A k, m : Says(r, k, m) => Says(q, k, m)
          /\ \A k : Silent(r, k) => IF h.is = k THEN Says(q, k, h) ELSE Silent(q, k)
          /\ \A m : Stands(r, m) => Stands(q, m)
          /\ Lasting(r) => Stands(q, h) /\ (Ends(h) \/ Lasting(q))
      BY <1>2, <3>1
    <3>3. /\ \A k : k \notin missed'[d] => (h.is = k => h.ok) /\ (h.is # k => k \notin missed[d])
          /\ "node" \in missed'[d] <=> "node" \in missed[d]
      BY <1>3, <3>1
    <3> HIDE DEF q, r
    <3>4. Away(d)' /\ Noted(d)'
      BY <1>1, <2>1, <2>3, <3>1, <3>3 DEF Away, Noted, Announced
    <3>5. PeerOk(d)'
      BY <1>1, <1>2, <2>1, <2>3, <3>1, <3>2, <3>3 DEF PeerOk, q, r
    <3>6. HaltOk(d)'
      BY <1>1, <1>2, <1>3, <2>1, <2>3, <3>1, <3>2, <3>3 DEF HaltOk, q, r
    <3>7. ReachOk(d)'
      <4>1. \A m \in Sent : Stands(r, m) /\ m.is = "reach" /\ m.ok /\ m.val # 0 =>
                              Fine(e, m.val)'
        BY <2>1, <2>2, <3>2 DEF ReachOk, q
      <4>2. ASSUME fsm[d] # "off", "reach" \notin missed'[d], reach'[d] # 0, Lasting(r)
            PROVE  Fine(e, reach'[d])
        <5>1. CASE h.is = "reach"
          <6>1. h.ok /\ h.val # 0 /\ Stands(q, h) /\ reach'[d] = h.val
            BY <3>1, <3>2, <3>3, <4>2, <5>1
          <6> QED
            BY <1>2, <2>1, <5>1, <6>1 DEF ReachOk, q
        <5>2. CASE h.is # "reach"
          <6>1. Lasting(q) /\ reach'[d] = reach[d] /\ "reach" \notin missed[d]
            BY <3>1, <3>2, <3>3, <4>2, <5>2 DEF Ends
          <6> QED
            BY <2>1, <4>2, <6>1 DEF ReachOk, q
        <5> QED
          BY <5>1, <5>2
      <4>3. \A v : Fine(e, v) => (v = reach'[d] => Fine(e, reach[d])')
        BY <2>2
      <4> QED
        BY <1>1, <4>1, <4>2, <4>3 DEF ReachOk, r
    <3>8. Owed(d)'
      <4>1. (Both(d)' <=> Both(d)) /\ (Both(e)' <=> Both(e)) /\ (Announced(d)' <=> Announced(d))
        BY <1>1 DEF Both, Announced
      <4> QED
        BY <1>1, <1>2, <2>1, <3>1, <3>2, <4>1 DEF Owed, q, r
    <3> QED
      BY <3>4, <3>5, <3>6, <3>7, <3>8 DEF Good
  <2> QED
    BY <2>4, <2>5
<1> QED
  BY <1>4, <1>5 DEF RInv, Good

-----------------------------------------------------------------------------
LEMMA InvNext == RInv /\ [Next]_vars => RInv'
<1> SUFFICES ASSUME RInv, [Next]_vars PROVE RInv'
  OBVIOUS
<1>1. ASSUME NEW d \in Devices, Meta(d) PROVE RInv'
  BY <1>1, LeaveKeeps, TellLeaveKeeps, JoinKeeps, NotifyReachabilityKeeps DEF Meta
<1>2. ASSUME NEW d \in Devices, Machine(d) PROVE RInv'
  BY <1>2, TriggerKeeps, ResumeKeeps, PublishKeeps, PublishedKeeps DEF Machine
<1>3. ASSUME NEW d \in Devices, Listen(d) PROVE RInv'
  BY <1>3, SynchronizeKeeps, HearKeeps DEF Listen
<1>4. ASSUME NEW d \in Devices, Break(d) \/ Pause(d) \/ LoseLink(d) \/ Crash(d) \/ Restart(d)
      PROVE  RInv'
  BY <1>4, BreakKeeps, PauseKeeps, CutKeeps, CrashKeeps, RestartKeeps
<1>5. CASE WritePaused \/ Connect
  BY <1>5, WritePausedKeeps, ConnectKeeps
<1>6. CASE UNCHANGED vars
  <2> USE <1>6 DEF vars, meta, requests, machine
  <2>1. Typed'
    BY DEF RInv, Typed
  <2>2. ASSUME NEW d \in Devices PROVE Good(d)'
    BY DEF RInv, Good, Away, PeerOk, HaltOk, ReachOk, Noted, Owed, Listening, Pausing, Target,
           Fine, Firm, Announced, Both
  <2> QED
    BY <2>1, <2>2 DEF RInv, Good
<1> QED
  BY <1>1, <1>2, <1>3, <1>4, <1>5, <1>6 DEF Next

\* Safety: for any number of faults, of either device, and of requests to pause, when
\* nothing is under way a device that is connected knows what meta does of the peer, of
\* the pause and, once it has published, of the endpoints; unless it was told in the
\* wrong order, or lost what nobody repeats.
THEOREM DevicesInformed == Spec => []Informed
  BY InvInit, InvNext, InvEnough, PTL DEF Spec
=============================================================================
