------------------------ MODULE MetaTransactionProofs ------------------------
(***************************************************************************)
(* Proofs about MetaTransaction for any accounts, devices, transactions    *)
(* and any number of server processes.                                     *)
(***************************************************************************)
EXTENDS MetaTransaction, TLAPS

-----------------------------------------------------------------------------
(***************************************************************************)
(* Typing of the scripts.                                                  *)
(***************************************************************************)

\* What an operation is tells the set its record belongs to.
LEMMA OpKinds ==
  ASSUME NEW o \in Ops
  PROVE  /\ o.op \in {"push", "pull", "clear_has", "clear_activity"} => o \in StatOps
         /\ o.op = "count" => o \in CountOps
         /\ o.op = "put" => o \in PutOps
         /\ o.op = "write" => o \in WriteOps
         /\ o.op = "pause" => o \in PauseOps
         /\ o.op = "notify" => o \in NotifyOps
         /\ o.op = "cancel_find" => o \in FindOps
         /\ o.op = "cancel" => o \in CancelOps
         /\ o.op = "take_over" => o \in TakeOverOps
         /\ o.op \in {"remove_devices", "delete", "merge"} => o \in AccountOps
         /\ o.op = "end_session" => o \in SessionOps
  BY DEF Ops, StatOps, CountOps, PutOps, WriteOps, PauseOps, NotifyOps, FindOps,
         CancelOps, TakeOverOps, AccountOps, SessionOps, DeadOps

\* The operation at the head of a script that is not over is one of Ops.
LEMMA HeadInOps ==
  ASSUME TypeOK, NEW w \in Workers, todo[w] # <<>>
  PROVE  Head(todo[w]) \in Ops /\ Tail(todo[w]) \in Seq(Ops)
  BY DEF TypeOK

\* A script stays a script when its head is replaced by a sequence of operations.
LEMMA ContinueType ==
  ASSUME TypeOK, NEW w \in Workers, todo[w] # <<>>,
         NEW ops \in Seq(Ops), Continue(w, ops)
  PROVE  todo' \in [Workers -> Seq(Ops)]
  BY HeadInOps DEF TypeOK, Continue

\* The script a request lays out is one too.
LEMMA RequestType ==
  ASSUME TypeOK, NEW w \in Workers, NEW call, NEW ops \in Seq(Ops),
         Request(call, w, ops)
  PROVE  todo' \in [Workers -> Seq(Ops)]
  BY DEF TypeOK, Request

\* Scripts without a write or a pause.
Harmless(ops) == \A i \in DOMAIN ops : ops[i].op \notin {"write", "pause"}

\* The three updates of a completion are operations, and write no document.
LEMMA CompleteType ==
  ASSUME NEW u \in Users, NEW t \in Transactions, NEW l \in Lists
  PROVE  Complete(u, t, l) \in Seq(Ops) /\ Harmless(Complete(u, t, l))
<1>1. Complete(u, t, l) \in Seq(Ops)
  BY DEF Complete, Ops, StatOps
<1>2. Harmless(Complete(u, t, l))
  BY DEF Complete, Harmless
<1> QED
  BY <1>1, <1>2

\* The document of a transaction with two ends is notified to both.
LEMMA NotifyType ==
  ASSUME NEW t \in Transactions, NEW doc, doc.status \in Statuses,
         doc.sender \in Users, doc.recipient \in Users
  PROVE  Notify(t, doc) \in Ops
  BY DEF Notify, Ops, NotifyOps

\* The script an update leaves is made of operations, and the only document it
\* writes is the one it is about.
LEMMA UpdateOpsType ==
  ASSUME TypeOK, NEW t \in Transactions, exists(t), NEW s \in Statuses,
         NEW u \in Users, NEW d \in Devices \union {NoDevice}
  PROVE  /\ UpdateOps(t, s, u, d) \in Seq(Ops)
         /\ \A i \in DOMAIN UpdateOps(t, s, u, d) :
              UpdateOps(t, s, u, d)[i].op \in {"write", "pause"} =>
                UpdateOps(t, s, u, d)[i].t = t
<1>1. \A v \in Users, l \in Lists : /\ Complete(v, t, l) \in Seq(Ops)
                                  /\ Harmless(Complete(v, t, l))
  BY CompleteType
<1>2. ASSUME NEW a \in Seq(Ops), NEW b \in Seq(Ops), Harmless(a), Harmless(b)
      PROVE  a \o b \in Seq(Ops) /\ Harmless(a \o b)
  BY <1>2 DEF Harmless
<1>3. <<>> \in Seq(Ops) /\ Harmless(<<>>)
  BY DEF Harmless
<1>4. /\ <<Push(u, t, "pending")>> \in Seq(Ops) /\ Harmless(<<Push(u, t, "pending")>>)
      /\ <<[op |-> "count", t |-> t]>> \in Seq(Ops)
      /\ Harmless(<<[op |-> "count", t |-> t]>>)
  BY DEF Push, Ops, StatOps, CountOps, Lists, Harmless
<1>5. "pending" \in Lists /\ "unaccepted" \in Lists
  BY DEF Lists
<1>6. tx[t].sender \in Users /\ tx[t].recipient \in Users
  BY DEF TypeOK
<1>7. Hook(t, s, u) \in Seq(Ops) /\ Harmless(Hook(t, s, u))
  <2>1. CASE s = "accepted"
    BY <2>1, <1>1, <1>2, <1>4, <1>5 DEF Hook
  <2>2. CASE s \in {"rejected", "canceled", "failed"}
    BY <2>2, <1>1, <1>5 DEF Hook
  <2>3. CASE s = "finished"
    BY <2>3, <1>4 DEF Hook
  <2>4. CASE s \notin {"accepted", "rejected", "canceled", "failed", "finished"}
    BY <2>4, <1>3 DEF Hook
  <2> QED
    BY <2>1, <2>2, <2>3, <2>4
<1>8. Completions(t, s) \in Seq(Ops) /\ Harmless(Completions(t, s))
  <2>1. CASE s \in final
    BY <2>1, <1>1, <1>2, <1>5, <1>6 DEF Completions
  <2>2. CASE s \in {"ghost_uploaded", "cloud_buffered"}
    BY <2>2, <1>1, <1>5, <1>6 DEF Completions, final
  <2>3. CASE s \notin final \union {"ghost_uploaded", "cloud_buffered"}
    BY <2>3, <1>3 DEF Completions
  <2> QED
    BY <2>1, <2>2, <2>3
<1> DEFINE write == [op |-> "write", t |-> t, status |-> NewStatus(t, s),
                     device |-> IF s \in {"accepted", "rejected"} THEN d ELSE NoDevice,
                     link |-> s = "ghost_uploaded" /\ tx[t].is_ghost]
<1>9. write \in Ops
  <2>1. NewStatus(t, s) \in Statuses
    BY DEF NewStatus, Statuses
  <2>2. write.link \in BOOLEAN
    OBVIOUS
  <2>3. write.device \in Devices \union {NoDevice}
    OBVIOUS
  <2>4. write \in WriteOps
    BY <2>1, <2>2, <2>3 DEF WriteOps
  <2> QED
    BY <2>4 DEF Ops
<1>10. UpdateOps(t, s, u, d) = (Hook(t, s, u) \o Completions(t, s)) \o <<write>>
  BY DEF UpdateOps
<1>11. Hook(t, s, u) \o Completions(t, s) \in Seq(Ops)
       /\ Harmless(Hook(t, s, u) \o Completions(t, s))
  BY <1>2, <1>7, <1>8
<1> HIDE DEF write
<1>12. ASSUME NEW a \in Seq(Ops), Harmless(a)
       PROVE  /\ a \o <<write>> \in Seq(Ops)
              /\ \A i \in DOMAIN (a \o <<write>>) :
                   (a \o <<write>>)[i].op \in {"write", "pause"} => (a \o <<write>>)[i] = write
  <2>1. <<write>> \in Seq(Ops) /\ Len(<<write>>) = 1 /\ <<write>>[1] = write
    BY <1>9
  <2>2. a \o <<write>> \in Seq(Ops)
    BY <2>1
  <2> SUFFICES ASSUME NEW i \in DOMAIN (a \o <<write>>),
                      (a \o <<write>>)[i].op \in {"write", "pause"}
               PROVE  (a \o <<write>>)[i] = write
    BY <2>2
  <2>3. (a \o <<write>>)[i] = IF i <= Len(a) THEN a[i] ELSE write
    BY <2>1
  <2> QED
    BY <1>12, <2>3 DEF Harmless
<1>13. write.t = t
  BY DEF write
<1> DEFINE before == Hook(t, s, u) \o Completions(t, s)
           all == before \o <<write>>
<1>14. before \in Seq(Ops) /\ Harmless(before)
  BY <1>11
<1> HIDE DEF before
<1>15. all \in Seq(Ops) /\ \A i \in DOMAIN all : all[i].op \in {"write", "pause"} =>
                                                 all[i] = write
  BY <1>12, <1>14
<1>16. UpdateOps(t, s, u, d) = all
  BY <1>10 DEF before
<1> HIDE DEF all
<1> QED
  BY <1>13, <1>15, <1>16

-----------------------------------------------------------------------------
(***************************************************************************)
(* TypeOK and Grounded are inductive together: what is notified are the    *)
(* ends of documents that exist, and what exists stays.                    *)
(***************************************************************************)
\* What is still to be written is a document that has been read, and only such a
\* document has a link.
Grounded == /\ \A w \in Workers : \A i \in DOMAIN todo[w] :
                 todo[w][i].op \in {"write", "pause"} => exists(todo[w][i].t)
            /\ \A t \in linked : exists(t)

IInv == TypeOK /\ Grounded

ScriptsGrounded == \A w \in Workers : \A i \in DOMAIN todo[w] :
                     todo[w][i].op \in {"write", "pause"} => exists(todo[w][i].t)

Persistent == \A t \in Transactions :
                tx[t].status \in Statuses => tx'[t].status \in Statuses

\* Documents do not disappear, so the writes that are left stay grounded when a
\* script goes on with operations that are.
LEMMA ContinueGrounded ==
  ASSUME TypeOK, ScriptsGrounded, Persistent, NEW w \in Workers, todo[w] # <<>>,
         NEW ops \in Seq(Ops), Continue(w, ops),
         \A i \in DOMAIN ops : ops[i].op \in {"write", "pause"} =>
                              ops[i].t \in Transactions /\ exists(ops[i].t)
  PROVE  ScriptsGrounded'
<1> SUFFICES ASSUME NEW v \in Workers, NEW i \in DOMAIN todo'[v],
                    todo'[v][i].op \in {"write", "pause"}
             PROVE  tx'[todo'[v][i].t].status \in Statuses
  BY DEF ScriptsGrounded, exists
<1>1. \A x \in Workers : \A j \in DOMAIN todo[x] :
        todo[x][j].op \in {"write", "pause"} =>
          todo[x][j].t \in Transactions /\ exists(todo[x][j].t)
  <2> SUFFICES ASSUME NEW x \in Workers, NEW j \in DOMAIN todo[x],
                      todo[x][j].op \in {"write", "pause"}
               PROVE  todo[x][j].t \in Transactions
    BY DEF ScriptsGrounded, exists
  <2>1. todo[x][j] \in Ops
    BY DEF TypeOK
  <2> QED
    BY <2>1, OpKinds DEF WriteOps, PauseOps
<1>2. todo[w] \in Seq(Ops) /\ Tail(todo[w]) \in Seq(Ops)
  BY HeadInOps DEF TypeOK
<1>3. CASE v # w
  <2>1. todo'[v] = todo[v]
    BY <1>3 DEF Continue, TypeOK
  <2> QED
    BY <2>1, <1>1 DEF Persistent, exists
<1>4. CASE v = w
  <2>1. todo'[v] = ops \o Tail(todo[w])
    BY <1>4 DEF Continue, TypeOK
  <2>2. CASE i <= Len(ops)
    <3>1. todo'[v][i] = ops[i] /\ i \in DOMAIN ops
      BY <2>1, <2>2, <1>2
    <3> QED
      BY <3>1 DEF Persistent, exists
  <2>3. CASE ~(i <= Len(ops))
    <3> DEFINE j == i - Len(ops) + 1
    <3>1. todo'[v][i] = todo[w][j] /\ j \in DOMAIN todo[w]
      BY <2>1, <2>3, <1>2
    <3> QED
      BY <3>1, <1>1 DEF Persistent, exists
  <2> QED
    BY <2>2, <2>3
<1> QED
  BY <1>3, <1>4

\* The same when a request starts.
LEMMA RequestGrounded ==
  ASSUME TypeOK, ScriptsGrounded, Persistent, NEW w \in Workers, NEW call,
         NEW ops \in Seq(Ops), Request(call, w, ops),
         \A i \in DOMAIN ops : ops[i].op \in {"write", "pause"} =>
                              ops[i].t \in Transactions /\ exists(ops[i].t)
  PROVE  ScriptsGrounded'
<1> SUFFICES ASSUME NEW v \in Workers, NEW i \in DOMAIN todo'[v],
                    todo'[v][i].op \in {"write", "pause"}
             PROVE  tx'[todo'[v][i].t].status \in Statuses
  BY DEF ScriptsGrounded, exists
<1>1. CASE v = w
  BY <1>1 DEF Request, TypeOK, Persistent, exists
<1>2. CASE v # w
  <2>1. todo'[v] = todo[v]
    BY <1>2 DEF Request, TypeOK
  <2>2. todo[v][i] \in Ops
    BY <2>1 DEF TypeOK
  <2>3. todo[v][i].t \in Transactions
    BY <2>1, <2>2, OpKinds DEF WriteOps, PauseOps
  <2> QED
    BY <2>1, <2>3 DEF ScriptsGrounded, Persistent, exists
<1> QED
  BY <1>1, <1>2

\* The script of a creation: the document, its notification and the pushes.
LEMMA CreateOpsType ==
  ASSUME TypeOK, NEW t \in Transactions, NEW s \in {"created", "initialized"},
         NEW d \in Devices, NEW r \in Users, NEW rd \in Devices \union {NoDevice}
  PROVE  CreateOps(t, s, d, r, rd) \in Seq(Ops) /\ Harmless(CreateOps(t, s, d, r, rd))
<1> DEFINE ghost == register_status[r] = "ghost"
           doc == [status |-> s, sender |-> owner[d], sender_device |-> d,
                   recipient |-> r, recipient_device |-> rd, is_ghost |-> ghost]
           put == [op |-> "put", t |-> t, doc |-> doc]
           note == [op |-> "notify", t |-> t, status |-> s, users |-> {r}]
           a == IF s = "initialized" THEN <<note>> ELSE <<>>
           b == IF ghost THEN <<>> ELSE <<Push(r, t, "unaccepted")>>
           p == Push(owner[d], t, "pending")
<1>1. owner[d] \in Users
  BY UsersAssumption
<1>2. put \in Ops /\ put.op = "put"
  BY <1>1 DEF Ops, PutOps
<1>3. note \in Ops /\ note.op = "notify"
  BY DEF Ops, NotifyOps, Statuses
<1>4. \A u \in Users, l \in Lists : Push(u, t, l) \in Ops /\ Push(u, t, l).op = "push"
  BY DEF Push, Ops, StatOps
<1>5. p \in Ops /\ p.op = "push"
  BY <1>1, <1>4 DEF Lists
<1>6. a \in Seq(Ops) /\ Harmless(a)
  BY <1>3 DEF Harmless
<1>7. b \in Seq(Ops) /\ Harmless(b)
  BY <1>4 DEF Harmless, Lists
<1>8. CreateOps(t, s, d, r, rd) = ((<<put>> \o a) \o <<p>>) \o b
  BY DEF CreateOps
<1> HIDE DEF put, a, b, p
<1>9. <<put>> \in Seq(Ops) /\ Harmless(<<put>>) /\ <<p>> \in Seq(Ops) /\ Harmless(<<p>>)
  BY <1>2, <1>5 DEF Harmless
<1>10. ASSUME NEW x \in Seq(Ops), NEW y \in Seq(Ops), Harmless(x), Harmless(y)
       PROVE  x \o y \in Seq(Ops) /\ Harmless(x \o y)
  BY <1>10 DEF Harmless
<1>11. <<put>> \o a \in Seq(Ops) /\ Harmless(<<put>> \o a)
  BY <1>6, <1>9, <1>10
<1>12. (<<put>> \o a) \o <<p>> \in Seq(Ops) /\ Harmless((<<put>> \o a) \o <<p>>)
  BY <1>9, <1>10, <1>11
<1> QED
  BY <1>7, <1>8, <1>10, <1>12

\* A request that only lays out a script keeps the invariant.
LEMMA PlainRequest ==
  ASSUME IInv, NEW w \in Workers, NEW call, NEW ops \in Seq(Ops),
         Request(call, w, ops),
         \A i \in DOMAIN ops : ops[i].op \in {"write", "pause"} =>
                              ops[i].t \in Transactions /\ exists(ops[i].t),
         UNCHANGED <<docs, accounts, stats, reached, told>>
  PROVE  IInv'
<1>1. ScriptsGrounded /\ TypeOK
  BY DEF IInv, Grounded, ScriptsGrounded
<1>2. Persistent
  BY DEF Persistent, docs
<1>3. todo' \in [Workers -> Seq(Ops)]
  BY <1>1, RequestType
<1>4. TypeOK'
  BY <1>1, <1>3 DEF TypeOK, docs, accounts, stats, exists
<1>5. ScriptsGrounded'
  BY <1>1, <1>2, RequestGrounded
<1>6. (\A t \in linked : exists(t))'
  BY DEF IInv, Grounded, exists, docs
<1> QED
  BY <1>4, <1>5, <1>6 DEF IInv, Grounded, ScriptsGrounded

\* So does a step of a script that leaves the documents alone.
LEMMA PlainContinue ==
  ASSUME IInv, NEW w \in Workers, todo[w] # <<>>, NEW ops \in Seq(Ops),
         Continue(w, ops),
         \A i \in DOMAIN ops : ops[i].op \in {"write", "pause"} =>
                              ops[i].t \in Transactions /\ exists(ops[i].t),
         Persistent
  PROVE  ScriptsGrounded' /\ todo' \in [Workers -> Seq(Ops)]
<1>1. ScriptsGrounded /\ TypeOK
  BY DEF IInv, Grounded, ScriptsGrounded
<1> QED
  BY <1>1, ContinueType, ContinueGrounded

\* Every request keeps the invariant when it starts.
LEMMA ReceiveInv == ASSUME IInv, NEW w \in Workers, Receive(w) PROVE IInv'
<1> USE UsersAssumption
<1>1. ScriptsGrounded /\ TypeOK /\ \A t \in linked : exists(t)
  BY DEF IInv, Grounded, ScriptsGrounded
<1>2. <<>> \in Seq(Ops) /\ Harmless(<<>>)
  BY DEF Harmless
<1>3. ASSUME NEW t \in Transactions, Download(w, t) PROVE IInv'
  <2> DEFINE note == Notify(t, tx[t])
             ops == IF tx[t].status = "finished"
                      THEN <<>> ELSE <<[op |-> "count", t |-> t], note>>
  <2>1. exists(t)
    BY <1>1, <1>3 DEF Download
  <2>2. note \in Ops /\ note.op = "notify"
    BY <1>1, <2>1, NotifyType DEF TypeOK, Notify, exists
  <2>3. [op |-> "count", t |-> t] \in Ops
    BY DEF Ops, CountOps
  <2> HIDE DEF note
  <2>4. ops \in Seq(Ops) /\ Harmless(ops)
    BY <2>2, <2>3 DEF Harmless
  <2>5. Request("download", w, ops)
    BY <1>3 DEF Download, note
  <2> HIDE DEF ops
  <2>6. todo' \in [Workers -> Seq(Ops)]
    BY <1>1, <2>4, <2>5, RequestType
  <2>7. tx' = [tx EXCEPT ![t].status = "finished"]
        /\ UNCHANGED <<linked, paused, accounts, stats, reached, told>>
    BY <1>3 DEF Download
  <2>8. Persistent
    BY <1>1, <2>7 DEF Persistent, TypeOK, Statuses
  <2>9. ScriptsGrounded'
    BY <1>1, <2>4, <2>5, <2>8, RequestGrounded DEF Harmless
  <2>10. TypeOK'
    <3>1. tx' \in [Transactions -> Documents]
      <4>1. tx \in [Transactions -> Documents]
        BY <1>1 DEF TypeOK
      <4>2. [tx[t] EXCEPT !.status = "finished"] \in Documents
        BY <4>1 DEF Documents, Statuses
      <4> QED
        BY <2>7, <4>1, <4>2
    <3>2. (\A x \in Transactions :
             exists(x) => {tx[x].sender, tx[x].recipient} \subseteq Users)'
      BY <1>1, <2>1, <2>7 DEF TypeOK, exists
    <3> QED
      BY <1>1, <2>6, <2>7, <3>1, <3>2 DEF TypeOK, accounts, stats
  <2>11. (\A x \in linked : exists(x))'
    BY <1>1, <2>7, <2>8 DEF exists, Persistent, TypeOK
  <2> QED
    BY <2>9, <2>10, <2>11 DEF IInv, Grounded, ScriptsGrounded
<1>4. ASSUME NEW d \in Devices, NEW t \in Transactions, NEW r \in Users,
             Create(w, d, t, r)
      PROVE  IInv'
  <2>1. CreateOps(t, "created", d, r, NoDevice) \in Seq(Ops)
        /\ Harmless(CreateOps(t, "created", d, r, NoDevice))
    BY <1>1, CreateOpsType
  <2> QED
    BY <1>4, <2>1, PlainRequest DEF Create, Harmless
<1>5. ASSUME NEW d \in Devices, NEW t \in Transactions, CreateEmpty(w, d, t)
      PROVE  IInv'
  <2>1. tx' = [tx EXCEPT ![t] = [Absent EXCEPT !.status = "empty", !.sender = owner[d]]]
        /\ UNCHANGED <<linked, paused, accounts, stats, reached, told>>
        /\ Request("create_empty", w, <<>>) /\ tx[t].status = "none"
    BY <1>5 DEF CreateEmpty, fresh
  <2>2. Persistent
    BY <1>1, <2>1 DEF Persistent, TypeOK, Statuses
  <2>3. ScriptsGrounded' /\ todo' \in [Workers -> Seq(Ops)]
    BY <1>1, <1>2, <2>1, <2>2, RequestGrounded, RequestType DEF Harmless
  <2>4. TypeOK'
    <3>1. tx' \in [Transactions -> Documents]
      BY <1>1, <2>1 DEF TypeOK, Documents, Absent, Statuses
    <3>2. (\A x \in Transactions :
             exists(x) => {tx[x].sender, tx[x].recipient} \subseteq Users)'
      BY <1>1, <2>1 DEF TypeOK, exists, Absent, Statuses
    <3> QED
      BY <1>1, <2>1, <2>3, <3>1, <3>2 DEF TypeOK, accounts, stats
  <2>5. (\A x \in linked : exists(x))'
    BY <1>1, <2>1, <2>2 DEF exists, Persistent, TypeOK
  <2> QED
    BY <2>3, <2>4, <2>5 DEF IInv, Grounded, ScriptsGrounded
<1>6. ASSUME NEW d \in Devices, NEW t \in Transactions, NEW r \in Users, Bare(w, d, t, r)
      PROVE  IInv'
  <2> DEFINE doc == [Absent EXCEPT !.status = "created", !.sender = owner[d],
                                   !.recipient = r]
             put == [op |-> "put", t |-> t, doc |-> doc]
  <2>1. put \in PutOps
    BY DEF PutOps, Absent
  <2>2. put \in Ops /\ put.op = "put"
    BY <2>1 DEF Ops
  <2>3. Request("bare", w, <<put>>) /\ UNCHANGED <<docs, accounts, stats, reached, told>>
    BY <1>6 DEF Bare
  <2> HIDE DEF put
  <2>4. <<put>> \in Seq(Ops) /\ \A i \in DOMAIN <<put>> : <<put>>[i] = put
    BY <2>2
  <2> QED
    BY <2>2, <2>3, <2>4, PlainRequest
<1>7. ASSUME NEW d \in Devices, NEW t \in Transactions, NEW r \in Users,
             NEW rd \in Devices \union {NoDevice}, Fill(w, d, t, r, rd)
      PROVE  IInv'
  <2>1. CreateOps(t, "initialized", d, r, rd) \in Seq(Ops)
        /\ Harmless(CreateOps(t, "initialized", d, r, rd))
    BY <1>1, CreateOpsType
  <2> QED
    BY <1>7, <2>1, PlainRequest DEF Fill, Harmless
<1>8. ASSUME NEW d \in Devices, NEW t \in Transactions, NEW s \in Asked,
             Update(w, d, t, s)
      PROVE  IInv'
  <2> DEFINE u == owner[d]
             ops == IF s = "rejected" /\ d \notin devices[u]
                      THEN Complete(u, t, "unaccepted") ELSE UpdateOps(t, s, u, d)
  <2>1. exists(t) /\ Request("update", w, ops)
        /\ UNCHANGED <<docs, accounts, stats, reached, told>>
    BY <1>8 DEF Update
  <2>2. s \in Statuses /\ u \in Users /\ d \in Devices \union {NoDevice}
    OBVIOUS
  <2> HIDE DEF u
  <2>3. Complete(u, t, "unaccepted") \in Seq(Ops)
        /\ Harmless(Complete(u, t, "unaccepted"))
    BY <2>2, CompleteType DEF Lists
  <2>4. /\ UpdateOps(t, s, u, d) \in Seq(Ops)
        /\ \A i \in DOMAIN UpdateOps(t, s, u, d) :
             UpdateOps(t, s, u, d)[i].op \in {"write", "pause"} =>
               UpdateOps(t, s, u, d)[i].t = t
    <3>1. TypeOK /\ exists(t) /\ s \in Statuses
      BY <1>1, <2>1, <2>2
    <3> HIDE UsersAssumption
    <3>2. \A x \in Statuses, v \in Users, e \in Devices \union {NoDevice} :
            /\ UpdateOps(t, x, v, e) \in Seq(Ops)
            /\ \A i \in DOMAIN UpdateOps(t, x, v, e) :
                 UpdateOps(t, x, v, e)[i].op \in {"write", "pause"} =>
                   UpdateOps(t, x, v, e)[i].t = t
      BY <3>1, UpdateOpsType
    <3> QED
      BY <2>2, <3>2
  <2>5. ops \in Seq(Ops) /\ \A i \in DOMAIN ops : ops[i].op \in {"write", "pause"} =>
                                ops[i].t \in Transactions /\ exists(ops[i].t)
    BY <2>1, <2>3, <2>4 DEF Harmless
  <2> HIDE DEF ops
  <2> QED
    BY <2>1, <2>5, PlainRequest
<1>9. ASSUME NEW d \in Devices, NEW t \in Transactions, NEW p \in BOOLEAN,
             Pause(w, d, t, p)
      PROVE  IInv'
  <2> DEFINE o == [op |-> "pause", t |-> t, paused |-> p]
  <2>1. o \in Ops /\ o.t = t
    BY DEF Ops, PauseOps
  <2>3. <<o>> \in Seq(Ops) /\ \A i \in DOMAIN <<o>> : <<o>>[i] = o
    BY <2>1
  <2>2. exists(t) /\ Request("pause", w, <<o>>)
        /\ UNCHANGED <<docs, accounts, stats, reached, told>>
    BY <1>9 DEF Pause
  <2> HIDE DEF o
  <2> QED
    BY <2>1, <2>2, <2>3, PlainRequest
<1>10. ASSUME NEW d \in Devices, NEW e \in Devices, DeleteDevice(w, d, e) PROVE IInv'
  <2> DEFINE u == owner[d]
             find == CancelFind(u, e)
             end == [op |-> "end_session", device |-> e]
  <2>1. find \in Ops /\ find.op = "cancel_find" /\ end \in Ops /\ end.op = "end_session"
    BY DEF CancelFind, Ops, FindOps, SessionOps
  <2>2. Request("delete_device", w, <<find, end>>)
        /\ devices' = [devices EXCEPT ![u] = @ \ {e}]
        /\ UNCHANGED <<docs, register_status, sessions, stats, reached, told>>
    BY <1>10 DEF DeleteDevice
  <2> HIDE DEF find, end
  <2>3. <<find, end>> \in Seq(Ops) /\ Harmless(<<find, end>>)
    BY <2>1 DEF Harmless
  <2>4. Persistent
    BY <2>2 DEF Persistent, docs
  <2>5. ScriptsGrounded' /\ todo' \in [Workers -> Seq(Ops)]
    BY <1>1, <2>2, <2>3, <2>4, RequestGrounded, RequestType DEF Harmless
  <2>6. TypeOK'
    BY <1>1, <2>2, <2>5 DEF TypeOK, docs, stats, exists
  <2> QED
    BY <1>1, <2>2, <2>5, <2>6 DEF IInv, Grounded, ScriptsGrounded, docs, exists
<1>11. ASSUME NEW d \in Devices, NEW call, NEW ops \in Seq(Ops), Harmless(ops),
              LeaveOps(w, d, call, ops)
       PROVE  IInv'
  <2>1. Request(call, w, ops) /\ sessions' = {e \in sessions : owner[e] # owner[d]}
        /\ UNCHANGED <<docs, devices, register_status, stats, reached, told>>
    BY <1>11 DEF LeaveOps
  <2>2. Persistent
    BY <2>1 DEF Persistent, docs
  <2>3. ScriptsGrounded' /\ todo' \in [Workers -> Seq(Ops)]
    BY <1>1, <1>11, <2>1, <2>2, RequestGrounded, RequestType DEF Harmless
  <2>4. TypeOK'
    BY <1>1, <2>1, <2>3 DEF TypeOK, docs, stats, exists
  <2> QED
    BY <1>1, <2>1, <2>3, <2>4 DEF IInv, Grounded, ScriptsGrounded, docs, exists
<1>12. ASSUME NEW d \in Devices, DeleteUser(w, d) PROVE IInv'
  <2> DEFINE u == owner[d]
             find == CancelFind(u, NoDevice)
             o1 == [op |-> "remove_devices", user |-> u]
             o2 == [op |-> "delete", user |-> u]
  <2>1. find \in Ops /\ find.op = "cancel_find" /\ o1 \in Ops /\ o2 \in Ops
        /\ o1.op = "remove_devices" /\ o2.op = "delete"
    BY DEF CancelFind, Ops, FindOps, AccountOps
  <2>2. LeaveOps(w, d, "delete_user", <<find, o1, o2>>)
    BY <1>12 DEF DeleteUser
  <2> HIDE DEF find, o1, o2
  <2>3. <<find, o1, o2>> \in Seq(Ops) /\ Harmless(<<find, o1, o2>>)
    BY <2>1 DEF Harmless
  <2> QED
    BY <1>11, <2>2, <2>3
<1>13. ASSUME NEW d \in Devices, ChangePassword(w, d) PROVE IInv'
  <2> DEFINE find == CancelFind(owner[d], NoDevice)
  <2>1. find \in Ops /\ find.op = "cancel_find"
    BY DEF CancelFind, Ops, FindOps
  <2>2. LeaveOps(w, d, "change_password", <<find>>)
    BY <1>13 DEF ChangePassword
  <2> HIDE DEF find
  <2>3. <<find>> \in Seq(Ops) /\ Harmless(<<find>>)
    BY <2>1 DEF Harmless
  <2> QED
    BY <1>11, <2>2, <2>3
<1>14. ASSUME NEW d \in Devices, Login(w, d) PROVE IInv'
  <2>1. Request("login", w, <<>>) /\ sessions' = sessions \union {d}
        /\ UNCHANGED <<docs, devices, register_status, stats, reached, told>>
    BY <1>14 DEF Login
  <2>2. Persistent
    BY <2>1 DEF Persistent, docs
  <2>3. ScriptsGrounded' /\ todo' \in [Workers -> Seq(Ops)]
    BY <1>1, <1>2, <2>1, <2>2, RequestGrounded, RequestType DEF Harmless
  <2>4. TypeOK'
    BY <1>1, <2>1, <2>3 DEF TypeOK, docs, stats, exists
  <2> QED
    BY <1>1, <2>1, <2>3, <2>4 DEF IInv, Grounded, ScriptsGrounded, docs, exists
<1>15. ASSUME NEW d \in Devices, NEW g \in Users, MergeGhost(w, d, g) PROVE IInv'
  <2> DEFINE take == [op |-> "take_over", ghost |-> g, user |-> owner[d]]
             o == [op |-> "merge", user |-> g]
  <2>1. take \in Ops /\ o \in Ops /\ take.op = "take_over" /\ o.op = "merge"
    BY DEF Ops, TakeOverOps, AccountOps
  <2>2. Request("merge_ghost", w, <<take, o, take>>)
        /\ UNCHANGED <<docs, accounts, stats, reached, told>>
    BY <1>15 DEF MergeGhost
  <2> HIDE DEF take, o
  <2>3. <<take, o, take>> \in Seq(Ops) /\ Harmless(<<take, o, take>>)
    BY <2>1 DEF Harmless
  <2> QED
    BY <2>2, <2>3, PlainRequest DEF Harmless
<1> QED
  BY <1>3, <1>4, <1>5, <1>6, <1>7, <1>8, <1>9, <1>10, <1>12, <1>13, <1>14, <1>15
     DEF Receive

\* Every operation of a script keeps the invariant.
LEMMA ServeInv == ASSUME IInv, NEW w \in Workers, Serve(w) PROVE IInv'
<1> DEFINE o == Head(todo[w])
<1>1. ScriptsGrounded /\ TypeOK /\ \A t \in linked : exists(t)
  BY DEF IInv, Grounded, ScriptsGrounded
<1>2. <<>> \in Seq(Ops) /\ Harmless(<<>>)
  BY DEF Harmless
<1>3. todo[w] # <<>> /\ o \in Ops
  <2>1. todo[w] # <<>>
    BY DEF Serve, At, Put, Write, WritePaused, SendNotification, PushStat, PullStat,
           ClearHas, ClearActivity, Count, EndSession, TakeOver, ClearAccount,
           FindTransactions, CancelNext
  <2> QED
    BY <1>1, <2>1, HeadInOps
<1>4. \A ops : Harmless(ops) => \A i \in DOMAIN ops : ops[i].op \in {"write", "pause"} =>
                                ops[i].t \in Transactions /\ exists(ops[i].t)
  BY DEF Harmless
<1>5. ASSUME NEW ops \in Seq(Ops), Continue(w, ops), tx' = tx, linked' = linked,
             \A i \in DOMAIN ops : ops[i].op \in {"write", "pause"} =>
                                  ops[i].t \in Transactions /\ exists(ops[i].t)
      PROVE  Grounded' /\ todo' \in [Workers -> Seq(Ops)]
  <2>1. Persistent
    BY <1>5 DEF Persistent
  <2>2. ScriptsGrounded' /\ todo' \in [Workers -> Seq(Ops)]
    BY <1>3, <1>5, <2>1, PlainContinue
  <2> QED
    BY <1>1, <1>5, <2>2 DEF Grounded, ScriptsGrounded, exists
<1>6. ASSUME Put(w) PROVE IInv'
  <2>1. o \in PutOps
    BY <1>3, <1>6, OpKinds DEF Put, At
  <2>2. o.t \in Transactions /\ o.doc \in Documents /\ o.doc.status \in Statuses
        /\ o.doc.sender \in Users /\ o.doc.recipient \in Users
    BY <2>1 DEF PutOps, Documents, Statuses
  <2>3. /\ tx' = [tx EXCEPT ![o.t] = o.doc] /\ paused' = paused \ {o.t}
        /\ Continue(w, <<>>) /\ UNCHANGED <<linked, accounts, stats, reached, told>>
    BY <1>6 DEF Put
  <2> HIDE DEF o
  <2>4. Persistent
    BY <1>1, <2>2, <2>3 DEF Persistent, TypeOK
  <2>5. ScriptsGrounded' /\ todo' \in [Workers -> Seq(Ops)]
    BY <1>2, <1>3, <1>4, <2>3, <2>4, PlainContinue
  <2>6. TypeOK'
    BY <1>1, <2>2, <2>3, <2>5 DEF TypeOK, accounts, stats, exists
  <2>7. (\A x \in linked : exists(x))'
    BY <1>1, <2>3, <2>4 DEF exists, Persistent, TypeOK
  <2> QED
    BY <2>5, <2>6, <2>7 DEF IInv, Grounded, ScriptsGrounded
<1>7. ASSUME Write(w) PROVE IInv'
  <2> DEFINE doc == [tx[o.t] EXCEPT !.status = o.status,
                                    !.recipient_device = IF o.device = NoDevice
                                                           THEN @ ELSE o.device]
             note == Notify(o.t, doc)
  <2>1. o \in WriteOps /\ o.op = "write"
    BY <1>3, <1>7, OpKinds DEF Write, At
  <2>2. o.t \in Transactions /\ o.status \in Statuses /\ o.device \in Devices \union {NoDevice}
    BY <2>1 DEF WriteOps
  <2>3. exists(o.t) /\ tx[o.t].sender \in Users /\ tx[o.t].recipient \in Users
    <3>1. 1 \in DOMAIN todo[w] /\ todo[w][1] = o
      BY <1>1, <1>3 DEF TypeOK
    <3>2. exists(o.t)
      BY <1>1, <2>1, <3>1 DEF ScriptsGrounded
    <3> QED
      BY <1>1, <2>2, <3>2 DEF TypeOK
  <2>4. /\ tx' = [tx EXCEPT ![o.t] = doc]
        /\ linked' = IF o.link THEN linked \union {o.t} ELSE linked
        /\ Continue(w, <<note>>) /\ UNCHANGED <<paused, accounts, stats, reached, told>>
    BY <1>7 DEF Write
  <2> HIDE DEF o
  <2>5. doc \in Documents /\ doc.status \in Statuses
        /\ doc.sender \in Users /\ doc.recipient \in Users
    <3>1. tx[o.t] \in Documents
      BY <1>1, <2>2 DEF TypeOK
    <3> QED
      BY <2>2, <2>3, <3>1 DEF Documents
  <2> HIDE DEF doc
  <2>6. note \in Ops /\ note.op = "notify"
    BY <2>2, <2>5, NotifyType DEF Notify
  <2> HIDE DEF note
  <2>7. <<note>> \in Seq(Ops) /\ Harmless(<<note>>)
    BY <2>6 DEF Harmless
  <2>8. Persistent
    BY <1>1, <2>4, <2>5 DEF Persistent, TypeOK
  <2>9. ScriptsGrounded' /\ todo' \in [Workers -> Seq(Ops)]
    BY <1>3, <1>4, <2>4, <2>7, <2>8, PlainContinue
  <2>10. TypeOK'
    BY <1>1, <2>2, <2>4, <2>5, <2>9 DEF TypeOK, accounts, stats, exists
  <2>11. (\A x \in linked : exists(x))'
    BY <1>1, <2>2, <2>3, <2>4, <2>8 DEF exists, Persistent, TypeOK
  <2> QED
    BY <2>9, <2>10, <2>11 DEF IInv, Grounded, ScriptsGrounded
<1>8. ASSUME WritePaused(w) PROVE IInv'
  <2> DEFINE note == Notify(o.t, tx[o.t])
  <2>1. o \in PauseOps /\ o.op = "pause"
    BY <1>3, <1>8, OpKinds DEF WritePaused, At
  <2>2. o.t \in Transactions
    BY <2>1 DEF PauseOps
  <2>3. exists(o.t)
    <3>1. 1 \in DOMAIN todo[w] /\ todo[w][1] = o
      BY <1>1, <1>3 DEF TypeOK
    <3> QED
      BY <1>1, <2>1, <3>1 DEF ScriptsGrounded
  <2>4. /\ paused' = IF o.paused THEN paused \union {o.t} ELSE paused \ {o.t}
        /\ Continue(w, <<note>>)
        /\ UNCHANGED <<tx, linked, accounts, stats, reached, told>>
    BY <1>8 DEF WritePaused
  <2> HIDE DEF o
  <2>5. note \in Ops /\ note.op = "notify"
    BY <1>1, <2>2, <2>3, NotifyType DEF TypeOK, Notify, exists
  <2> HIDE DEF note
  <2>6. <<note>> \in Seq(Ops) /\ Harmless(<<note>>)
    BY <2>5 DEF Harmless
  <2>7. Grounded' /\ todo' \in [Workers -> Seq(Ops)]
    BY <1>4, <1>5, <2>4, <2>6
  <2>8. TypeOK'
    BY <1>1, <2>2, <2>4, <2>7 DEF TypeOK, accounts, stats, exists
  <2> QED
    BY <2>7, <2>8 DEF IInv
<1>9. ASSUME SendNotification(w) PROVE IInv'
  <2>1. o \in NotifyOps
    BY <1>3, <1>9, OpKinds DEF SendNotification, At
  <2>2. /\ told' = [told EXCEPT ![o.t] =
                      [u \in Users |-> IF u \in o.users THEN o.status ELSE @[u]]]
        /\ Continue(w, <<>>) /\ UNCHANGED <<docs, accounts, stats, reached>>
    BY <1>9 DEF SendNotification
  <2>3. o.t \in Transactions /\ o.status \in Statuses
    BY <2>1 DEF NotifyOps
  <2> HIDE DEF o
  <2>4. Grounded' /\ todo' \in [Workers -> Seq(Ops)]
    BY <1>2, <1>4, <1>5, <2>2 DEF docs
  <2>5. TypeOK'
    BY <1>1, <2>2, <2>3, <2>4 DEF TypeOK, accounts, stats, docs, exists
  <2> QED
    BY <2>4, <2>5 DEF IInv
<1>10. ASSUME PushStat(w) \/ PullStat(w) \/ ClearHas(w) \/ ClearActivity(w) \/ Count(w)
              \/ EndSession(w) \/ ClearAccount(w)
       PROVE  IInv'
  <2>1. Continue(w, <<>>) /\ UNCHANGED <<docs, told>>
    BY <1>10 DEF PushStat, PullStat, ClearHas, ClearActivity, Count, EndSession, ClearAccount
  <2>2. Grounded' /\ todo' \in [Workers -> Seq(Ops)]
    BY <1>2, <1>4, <1>5, <2>1 DEF docs
  <2>3. TypeOK'
    <3>1. ASSUME PushStat(w) \/ PullStat(w) \/ ClearHas(w) \/ ClearActivity(w)
          PROVE  TypeOK'
      <4>1. o \in StatOps
        BY <1>3, <3>1, OpKinds DEF PushStat, PullStat, ClearHas, ClearActivity, At
      <4>2. o.user \in Users /\ o.list \in Lists /\ o.t \in Transactions
        BY <4>1 DEF StatOps
      <4>3. /\ listed' \in [Users -> [Lists -> SUBSET Transactions]]
            /\ has' \in [Users -> [Lists -> BOOLEAN]]
            /\ activity_has' \subseteq Users
        <5> DEFINE typed == /\ listed' \in [Users -> [Lists -> SUBSET Transactions]]
                            /\ has' \in [Users -> [Lists -> BOOLEAN]]
                            /\ activity_has' \subseteq Users
        <5>1. /\ listed \in [Users -> [Lists -> SUBSET Transactions]]
              /\ has \in [Users -> [Lists -> BOOLEAN]]
              /\ activity_has \subseteq Users
          BY <1>1 DEF TypeOK
        <5>2. ASSUME PushStat(w) PROVE typed
          <6>1. /\ listed' = [listed EXCEPT ![o.user][o.list] = @ \union {o.t}]
                /\ has' = [has EXCEPT ![o.user][o.list] = TRUE]
                /\ activity_has' = activity_has \union {o.user}
            BY <5>2 DEF PushStat
          <6> HIDE DEF o
          <6> QED
            BY <4>2, <5>1, <6>1
        <5>3. ASSUME PullStat(w) PROVE typed
          <6>1. /\ listed' = [listed EXCEPT ![o.user][o.list] = @ \ {o.t}]
                /\ UNCHANGED <<has, activity_has>>
            BY <5>3 DEF PullStat
          <6> HIDE DEF o
          <6> QED
            BY <4>2, <5>1, <6>1
        <5>4. ASSUME ClearHas(w) PROVE typed
          <6>1. /\ has' = IF listed[o.user][o.list] = {}
                            THEN [has EXCEPT ![o.user][o.list] = FALSE] ELSE has
                /\ UNCHANGED <<listed, activity_has>>
            BY <5>4 DEF ClearHas
          <6> HIDE DEF o
          <6> QED
            BY <4>2, <5>1, <6>1
        <5>5. ASSUME ClearActivity(w) PROVE typed
          <6>1. activity_has' \in {activity_has, activity_has \ {o.user}}
                /\ UNCHANGED <<listed, has>>
            BY <5>5 DEF ClearActivity
          <6> HIDE DEF o
          <6> QED
            BY <5>1, <6>1
        <5> QED
          BY <3>1, <5>2, <5>3, <5>4, <5>5
      <4>4. UNCHANGED <<docs, accounts, reached, told>>
        BY <3>1 DEF PushStat, PullStat, ClearHas, ClearActivity
      <4> QED
        BY <1>1, <2>2, <4>3, <4>4 DEF TypeOK, docs, accounts, exists
    <3>2. ASSUME Count(w) PROVE TypeOK'
      <4>1. o \in CountOps
        BY <1>3, <3>2, OpKinds DEF Count, At
      <4>2. reached' \in [Transactions -> 0..2]
        <5>1. o.t \in Transactions /\ reached \in [Transactions -> 0..2]
          BY <1>1, <4>1 DEF CountOps, TypeOK
        <5>2. reached' = [reached EXCEPT ![o.t] = IF @ = 2 THEN 2 ELSE @ + 1]
          BY <3>2 DEF Count
        <5> HIDE DEF o
        <5> QED
          BY <5>1, <5>2
      <4>3. UNCHANGED <<docs, accounts, stats, told>>
        BY <3>2 DEF Count
      <4> QED
        BY <1>1, <2>2, <4>2, <4>3 DEF TypeOK, docs, accounts, stats, exists
    <3>3. ASSUME EndSession(w) PROVE TypeOK'
      BY <1>1, <2>2, <3>3 DEF TypeOK, EndSession, docs, stats, exists
    <3>4. ASSUME ClearAccount(w) PROVE TypeOK'
      <4>1. o \in AccountOps
        BY <1>3, <3>4, OpKinds DEF ClearAccount
      <4>2. o.user \in Users
        BY <4>1 DEF AccountOps
      <4> DEFINE s == CASE o.op = "delete" -> "deleted"
                        [] o.op = "merge" -> "merged"
                        [] OTHER -> register_status[o.user]
      <4>3. s \in {"ok", "ghost", "merged", "deleted"}
        BY <1>1, <4>2 DEF TypeOK
      <4>4. /\ devices' = [devices EXCEPT ![o.user] = {}]
            /\ register_status' = [register_status EXCEPT ![o.user] = s]
            /\ UNCHANGED <<docs, sessions, stats, reached, told>>
        BY <3>4 DEF ClearAccount
      <4> HIDE DEF o, s
      <4> QED
        BY <1>1, <2>2, <4>2, <4>3, <4>4 DEF TypeOK, docs, stats, exists
    <3> QED
      BY <1>10, <3>1, <3>2, <3>3, <3>4
  <2> QED
    BY <2>2, <2>3 DEF IInv
<1>11. ASSUME TakeOver(w) PROVE IInv'
  <2>1. o \in TakeOverOps /\ o.op = "take_over"
    BY <1>3, <1>11, OpKinds DEF TakeOver, At
  <2>2. o.user \in Users
    BY <2>1 DEF TakeOverOps
  <2>3. UNCHANGED <<linked, paused, accounts, stats, reached, told>>
    BY <1>11 DEF TakeOver
  <2>4. CASE Continue(w, <<>>) /\ UNCHANGED tx
    <3>1. Grounded' /\ todo' \in [Workers -> Seq(Ops)]
      BY <1>2, <1>4, <1>5, <2>3, <2>4
    <3>2. TypeOK'
      BY <1>1, <2>3, <2>4, <3>1 DEF TypeOK, accounts, stats, exists
    <3> QED
      BY <3>1, <3>2 DEF IInv
  <2>5. ASSUME NEW t \in Transactions, exists(t),
               LET doc == [tx[t] EXCEPT !.recipient = o.user] IN
                 /\ tx' = [tx EXCEPT ![t] = doc]
                 /\ Continue(w, (IF doc.status = "created" THEN <<>>
                                   ELSE <<Notify(t, doc)>>) \o <<o>>)
        PROVE  IInv'
    <3> DEFINE doc == [tx[t] EXCEPT !.recipient = o.user]
               note == Notify(t, doc)
               ops == (IF doc.status = "created" THEN <<>> ELSE <<note>>) \o <<o>>
    <3>1. doc \in Documents /\ doc.status \in Statuses
          /\ doc.sender \in Users /\ doc.recipient \in Users
      <4>1. tx[t] \in Documents /\ tx[t].sender \in Users /\ tx[t].status \in Statuses
        BY <1>1, <2>5 DEF TypeOK, exists
      <4> HIDE DEF o
      <4> QED
        BY <2>2, <4>1 DEF Documents
    <3>2. tx' = [tx EXCEPT ![t] = doc] /\ Continue(w, ops)
      BY <2>5
    <3> HIDE DEF o, doc
    <3>3. note \in Ops /\ note.op = "notify"
      BY <3>1, NotifyType DEF Notify
    <3> HIDE DEF note
    <3>4. ops \in Seq(Ops) /\ Harmless(ops)
      BY <1>3, <2>1, <3>3 DEF Harmless
    <3> HIDE DEF ops
    <3>5. Persistent
      BY <1>1, <3>1, <3>2 DEF Persistent, TypeOK
    <3>6. ScriptsGrounded' /\ todo' \in [Workers -> Seq(Ops)]
      BY <1>3, <1>4, <3>2, <3>4, <3>5, PlainContinue
    <3>7. TypeOK'
      BY <1>1, <2>3, <3>1, <3>2, <3>6 DEF TypeOK, accounts, stats, exists
    <3>8. (\A x \in linked : exists(x))'
      BY <1>1, <2>3, <3>2, <3>5 DEF exists, Persistent, TypeOK
    <3> QED
      BY <3>6, <3>7, <3>8 DEF IInv, Grounded, ScriptsGrounded
  <2> QED
    BY <1>11, <2>4, <2>5 DEF TakeOver
<1>12. ASSUME FindTransactions(w) PROVE IInv'
  <2>1. o \in FindOps
    BY <1>3, <1>12, OpKinds DEF FindTransactions, At
  <2>2. PICK ts \in SUBSET Transactions : Continue(w, <<Cancel(o.user, ts)>>)
    BY <1>12 DEF FindTransactions
  <2>3. UNCHANGED <<docs, accounts, stats, reached, told>>
    BY <1>12 DEF FindTransactions
  <2> DEFINE c == Cancel(o.user, ts)
  <2>4. c \in Ops /\ c.op = "cancel"
    BY <2>1 DEF Cancel, Ops, CancelOps, FindOps
  <2> HIDE DEF c
  <2>5. <<c>> \in Seq(Ops) /\ Harmless(<<c>>)
    BY <2>4 DEF Harmless
  <2>6. Grounded' /\ todo' \in [Workers -> Seq(Ops)]
    BY <1>4, <1>5, <2>2, <2>3, <2>5 DEF c, docs
  <2>7. TypeOK'
    BY <1>1, <2>3, <2>6 DEF TypeOK, docs, accounts, stats, exists
  <2> QED
    BY <2>6, <2>7 DEF IInv
<1>13. ASSUME CancelNext(w) PROVE IInv'
  <2>1. o \in CancelOps
    BY <1>3, <1>13, OpKinds DEF CancelNext, At
  <2>2. o.user \in Users /\ o.ts \subseteq Transactions
    BY <2>1 DEF CancelOps
  <2>3. UNCHANGED <<docs, accounts, stats, reached, told>>
    BY <1>13 DEF CancelNext
  <2>4. ASSUME Grounded' /\ todo' \in [Workers -> Seq(Ops)] PROVE IInv'
    BY <1>1, <2>3, <2>4 DEF IInv, TypeOK, docs, accounts, stats, exists
  <2>5. CASE todo' = [todo EXCEPT ![w] = <<>>]
    <3>1. ScriptsGrounded' /\ todo' \in [Workers -> Seq(Ops)]
      BY <1>1, <1>2, <2>3, <2>5 DEF ScriptsGrounded, TypeOK, docs, exists
    <3> QED
      BY <1>1, <2>3, <2>4, <3>1 DEF Grounded, ScriptsGrounded, docs, exists
  <2>6. CASE Continue(w, <<>>)
    BY <1>2, <1>4, <1>5, <2>3, <2>4, <2>6 DEF docs
  <2>7. ASSUME NEW t \in o.ts PROVE
           LET c == Cancel(o.user, o.ts \ {t}) IN
             /\ <<c>> \in Seq(Ops) /\ Harmless(<<c>>)
    <3> DEFINE c == Cancel(o.user, o.ts \ {t})
    <3>1. c \in CancelOps /\ c.op = "cancel"
      BY <2>2 DEF Cancel, CancelOps
    <3>2. c \in Ops
      BY <3>1 DEF Ops
    <3> HIDE DEF c
    <3>3. <<c>> \in Seq(Ops) /\ Harmless(<<c>>)
      BY <3>1, <3>2 DEF Harmless
    <3> QED
      BY <3>3 DEF c
  <2>8. ASSUME NEW t \in o.ts, Continue(w, <<Cancel(o.user, o.ts \ {t})>>) PROVE IInv'
    <3> DEFINE c == Cancel(o.user, o.ts \ {t})
    <3>1. <<c>> \in Seq(Ops) /\ Harmless(<<c>>) /\ Continue(w, <<c>>)
      BY <2>7, <2>8
    <3> HIDE DEF c, o
    <3> QED
      BY <1>4, <1>5, <2>3, <2>4, <3>1 DEF docs
  <2>9. ASSUME NEW t \in o.ts, running(t),
               Continue(w, UpdateOps(t, "canceled", o.user, NoDevice)
                           \o <<Cancel(o.user, o.ts \ {t})>>)
        PROVE  IInv'
    <3> DEFINE c == Cancel(o.user, o.ts \ {t})
               up == UpdateOps(t, "canceled", o.user, NoDevice)
               ops == up \o <<c>>
    <3>1. <<c>> \in Seq(Ops) /\ Harmless(<<c>>)
      BY <2>7
    <3>2. t \in Transactions /\ exists(t)
      BY <2>2, <2>9 DEF running
    <3>3. up \in Seq(Ops) /\ \A i \in DOMAIN up : up[i].op \in {"write", "pause"} =>
                                               up[i].t = t
      <4>1. /\ TypeOK /\ exists(t) /\ "canceled" \in Statuses
            /\ o.user \in Users /\ NoDevice \in Devices \union {NoDevice}
        BY <1>1, <2>2, <3>2 DEF Statuses
      <4> HIDE DEF o
      <4>2. \A x \in Statuses, v \in Users, e \in Devices \union {NoDevice} :
              /\ UpdateOps(t, x, v, e) \in Seq(Ops)
              /\ \A i \in DOMAIN UpdateOps(t, x, v, e) :
                   UpdateOps(t, x, v, e)[i].op \in {"write", "pause"} =>
                     UpdateOps(t, x, v, e)[i].t = t
        BY <3>2, <4>1, UpdateOpsType
      <4> QED
        BY <4>1, <4>2
    <3>4. Continue(w, ops)
      BY <2>9
    <3> HIDE DEF c, up, o
    <3>5. ops \in Seq(Ops)
      BY <3>1, <3>3
    <3>6. \A i \in DOMAIN ops : ops[i].op \in {"write", "pause"} =>
                                ops[i].t \in Transactions /\ exists(ops[i].t)
      <4> SUFFICES ASSUME NEW i \in DOMAIN ops, ops[i].op \in {"write", "pause"}
                   PROVE  ops[i].t = t
        BY <3>2
      <4>1. CASE i <= Len(up)
        BY <3>1, <3>3, <4>1
      <4>2. CASE ~(i <= Len(up))
        BY <3>1, <3>3, <4>2 DEF Harmless
      <4> QED
        BY <4>1, <4>2
    <3> HIDE DEF ops
    <3> QED
      BY <1>5, <2>3, <2>4, <3>4, <3>5, <3>6 DEF docs
  <2> QED
    BY <1>13, <2>5, <2>6, <2>8, <2>9 DEF CancelNext
<1> QED
  BY <1>6, <1>7, <1>8, <1>9, <1>10, <1>11, <1>12, <1>13 DEF Serve

\* Every reachable state is well formed, for any number of processes: accounts,
\* documents and scripts have their types, and nothing is written to or notified
\* about a document that does not exist.
THEOREM TypeCorrect == Spec => [](TypeOK /\ Grounded)
<1>1. Init => IInv
  <2> SUFFICES ASSUME Init PROVE IInv
    OBVIOUS
  <2>1. TypeOK
    BY UsersAssumption DEF Init, TypeOK, Absent, Documents, Lists, Statuses, exists
  <2>2. Grounded
    BY DEF Init, Grounded
  <2> QED
    BY <2>1, <2>2 DEF IInv
<1>2. IInv /\ [Next]_vars => IInv'
  <2> SUFFICES ASSUME IInv, [Next]_vars PROVE IInv'
    OBVIOUS
  <2>1. ASSUME NEW w \in Workers, Crash(w) PROVE IInv'
    <3>1. <<Dead>> \in Seq(Ops)
      BY DEF Dead, DeadOps, Ops
    <3>2. TypeOK'
      BY <2>1, <3>1 DEF IInv, Crash, TypeOK, docs, accounts, stats, exists
    <3>3. ASSUME NEW x \in Workers
          PROVE  todo'[x] = todo[x] \/ todo'[x] = <<Dead>>
      BY <2>1, <3>3 DEF Crash, IInv, TypeOK
    <3>4. Grounded'
      BY <2>1, <3>3 DEF IInv, Crash, Grounded, Dead, docs, exists
    <3> QED
      BY <3>2, <3>4 DEF IInv
  <2>2. CASE UNCHANGED vars
    BY <2>2 DEF IInv, vars, docs, accounts, stats, TypeOK, Grounded, exists
  <2> QED
    BY <2>1, <2>2, ReceiveInv, ServeInv DEF Next
<1> QED
  BY <1>1, <1>2, PTL DEF Spec, IInv

-----------------------------------------------------------------------------
(***************************************************************************)
(* The flags never hide a transaction: each of the four kinds of update of *)
(* a user document keeps StatsHonest by itself, so no order of the updates *)
(* of any number of processes, and no crash between them, can break it.    *)
(***************************************************************************)
THEOREM FlagsHonest == Spec => []StatsHonest
<1>1. Init => StatsHonest
  BY DEF Init, StatsHonest
<1>2. TypeOK /\ StatsHonest /\ [Next]_vars => StatsHonest'
  <2> SUFFICES ASSUME TypeOK, StatsHonest, [Next]_vars PROVE StatsHonest'
    OBVIOUS
  <2>1. CASE UNCHANGED stats
    BY <2>1 DEF StatsHonest, stats
  <2>2. ASSUME NEW w \in Workers,
               PushStat(w) \/ PullStat(w) \/ ClearHas(w) \/ ClearActivity(w)
        PROVE  StatsHonest'
    <3> DEFINE o == Head(todo[w])
    <3>1. o \in StatOps
      BY <2>2, HeadInOps, OpKinds DEF PushStat, PullStat, ClearHas, ClearActivity, At
    <3>2. o.user \in Users /\ o.list \in Lists /\ o.t \in Transactions
      BY <3>1 DEF StatOps
    <3>3. /\ listed \in [Users -> [Lists -> SUBSET Transactions]]
          /\ has \in [Users -> [Lists -> BOOLEAN]]
          /\ activity_has \subseteq Users
      BY DEF TypeOK
    <3>4. ASSUME PushStat(w) PROVE StatsHonest'
      <4>1. /\ listed' = [listed EXCEPT ![o.user][o.list] = @ \union {o.t}]
            /\ has' = [has EXCEPT ![o.user][o.list] = TRUE]
            /\ activity_has' = activity_has \union {o.user}
        BY <3>4 DEF PushStat
      <4> HIDE DEF o
      <4> QED
        BY <3>2, <3>3, <4>1 DEF StatsHonest
    <3>5. ASSUME PullStat(w) PROVE StatsHonest'
      <4>1. /\ listed' = [listed EXCEPT ![o.user][o.list] = @ \ {o.t}]
            /\ UNCHANGED <<has, activity_has>>
        BY <3>5 DEF PullStat
      <4> HIDE DEF o
      <4> QED
        BY <3>2, <3>3, <4>1 DEF StatsHonest
    <3>6. ASSUME ClearHas(w) PROVE StatsHonest'
      <4>1. /\ has' = IF listed[o.user][o.list] = {}
                        THEN [has EXCEPT ![o.user][o.list] = FALSE] ELSE has
            /\ UNCHANGED <<listed, activity_has>>
        BY <3>6 DEF ClearHas
      <4> HIDE DEF o
      <4> QED
        BY <3>2, <3>3, <4>1 DEF StatsHonest
    <3>7. ASSUME ClearActivity(w) PROVE StatsHonest'
      <4>1. /\ activity_has' = IF \A l \in Lists : ~has[o.user][l]
                                 THEN activity_has \ {o.user} ELSE activity_has
            /\ UNCHANGED <<listed, has>>
        BY <3>7 DEF ClearActivity
      <4> HIDE DEF o
      <4> QED
        BY <3>2, <3>3, <4>1 DEF StatsHonest
    <3> QED
      BY <2>2, <3>4, <3>5, <3>6, <3>7
  <2>3. ASSUME NEW w \in Workers, Receive(w) PROVE UNCHANGED stats
    <3>1. \A t \in Transactions : Download(w, t) => UNCHANGED stats
      BY DEF Download
    <3>2. \A d \in Devices, t \in Transactions :
            /\ CreateEmpty(w, d, t) => UNCHANGED stats
            /\ \A s \in Asked : Update(w, d, t, s) => UNCHANGED stats
            /\ \A p \in BOOLEAN : Pause(w, d, t, p) => UNCHANGED stats
      BY ZenonT(30) DEF CreateEmpty, Update, Pause
    <3>3. \A d \in Devices, t \in Transactions, r \in Users :
            /\ Create(w, d, t, r) => UNCHANGED stats
            /\ Bare(w, d, t, r) => UNCHANGED stats
            /\ \A rd \in Devices \union {NoDevice} : Fill(w, d, t, r, rd) => UNCHANGED stats
      BY ZenonT(30) DEF Create, Bare, Fill
    <3>4. \A d \in Devices :
            /\ \A e \in Devices : DeleteDevice(w, d, e) => UNCHANGED stats
            /\ DeleteUser(w, d) => UNCHANGED stats
            /\ ChangePassword(w, d) => UNCHANGED stats
            /\ Login(w, d) => UNCHANGED stats
            /\ \A g \in Users : MergeGhost(w, d, g) => UNCHANGED stats
      BY ZenonT(30) DEF DeleteDevice, DeleteUser, ChangePassword, LeaveOps, Login, MergeGhost
    <3> QED
      BY <2>3, <3>1, <3>2, <3>3, <3>4, ZenonT(60) DEF Receive
  <2>4. ASSUME NEW w \in Workers,
               Put(w) \/ Write(w) \/ WritePaused(w) \/ SendNotification(w) \/ Count(w)
               \/ EndSession(w) \/ TakeOver(w) \/ ClearAccount(w)
               \/ FindTransactions(w) \/ CancelNext(w) \/ Crash(w)
        PROVE  UNCHANGED stats
    BY <2>4 DEF Put, Write, WritePaused, SendNotification, Count, EndSession, TakeOver,
                ClearAccount, FindTransactions, CancelNext, Crash
  <2>5. CASE UNCHANGED vars
    BY <2>1, <2>5 DEF vars
  <2> QED
    BY <2>1, <2>2, <2>3, <2>4, <2>5 DEF Next, Serve
<1> QED
  BY <1>1, <1>2, TypeCorrect, PTL DEF Spec

-----------------------------------------------------------------------------
(***************************************************************************)
(* One process: the server implements AbstractTransaction. What a request  *)
(* has read is still true when it writes, because nothing else writes, and *)
(* a script holds at most one write: the loop of cancel_transactions lays  *)
(* out the next one only when it has read the next transaction. With two   *)
(* processes the implementation breaks.                                    *)
(***************************************************************************)
Writers == {"write", "put"}

\* The operations that may come before a write: they leave the documents alone.
Steady == {"push", "pull", "clear_has", "clear_activity", "count"}

\* The write o takes its transaction along an edge of the abstract life.
Sound(o) ==
  LET s == tx[o.t].status IN
    /\ o.op = "write" =>
         \/ o.status \in {"accepted", "rejected"} /\ s \in Abstract!Pending
            /\ o.device \in Devices /\ ~o.link
         \/ o.device = NoDevice
            /\ \/ o.status = "accepted" /\ s = "accepted" /\ ~o.link
               \/ o.status = "initialized" /\ s = "created" /\ ~o.link
               \/ o.status \in {"ghost_uploaded", "cloud_buffered"} /\ s = "initialized"
               \/ o.status = "finished" /\ ~o.link
                  /\ s \in {"initialized", "accepted", "ghost_uploaded"}
               \/ o.status \in {"canceled", "failed"} /\ s \in Statuses \ final /\ ~o.link
    /\ o.op = "put" =>
         \/ o.doc.status = "created" /\ s = "none" /\ o.doc.recipient_device = NoDevice
         \/ /\ o.doc.status = "initialized" /\ o.t \notin linked
            /\ s \in {"empty", "created", "initialized", "accepted", "rejected",
                      "canceled", "failed"}

\* A script writes at most once, soundly, and changes no document before.
Orderly(ops) == \A i \in DOMAIN ops : ops[i].op \in Writers =>
                  /\ Sound(ops[i])
                  /\ \A j \in DOMAIN ops : j # i => ops[j].op \notin Writers
                  /\ \A j \in DOMAIN ops : j < i => ops[j].op \in Steady

Quiet(ops) == \A i \in DOMAIN ops : ops[i].op \notin Writers

Unused == \A t \in Transactions :
            tx[t].status = "none" => tx[t].recipient_device = NoDevice

SInv == Unused /\ \A w \in Workers : Orderly(todo[w])

Serial == \A v, w \in Workers : v = w

-----------------------------------------------------------------------------
(***************************************************************************)
(* What the scripts write.                                                 *)
(***************************************************************************)

\* Every move the table permits from a status that is not final is a move of the
\* abstract life: cloud_buffered over accepted, the one that is not, is written
\* as accepted.
LEMMA PermittedMoves ==
  ASSUME NEW t \in Transactions, exists(t), NEW s, NEW b \in BOOLEAN, Permitted(t, s, b)
  PROVE  LET f == tx[t].status IN
           \/ s \in {"accepted", "rejected"} /\ (f \in Abstract!Pending \/ f = s)
           \/ s = "initialized" /\ f = "created"
           \/ s \in {"ghost_uploaded", "cloud_buffered"} /\ f = "initialized"
           \/ s = "cloud_buffered" /\ f = "accepted"
           \/ s = "finished" /\ f \in {"initialized", "accepted", "ghost_uploaded"}
           \/ s \in {"canceled", "failed"}
  BY DEF Permitted, exists, Statuses, final, transitions, Abstract!Pending

Updated(t, s, d) ==
  [op |-> "write", t |-> t, status |-> NewStatus(t, s),
   device |-> IF s \in {"accepted", "rejected"} THEN d ELSE NoDevice,
   link |-> s = "ghost_uploaded" /\ tx[t].is_ghost]

\* An update counts and completes, then writes.
LEMMA UpdateShape ==
  ASSUME TypeOK, NEW t \in Transactions, exists(t), NEW s \in Statuses,
         NEW u \in Users, NEW d \in Devices \union {NoDevice}
  PROVE  \E ops \in Seq(Ops) :
           /\ UpdateOps(t, s, u, d) = ops \o <<Updated(t, s, d)>>
           /\ \A i \in DOMAIN ops : ops[i].op \in Steady
<1> DEFINE Calm(ops) == \A i \in DOMAIN ops : ops[i].op \in Steady
<1>1. \A v \in Users, l \in Lists : Complete(v, t, l) \in Seq(Ops) /\ Calm(Complete(v, t, l))
  <2>1. \A v \in Users, l \in Lists : Complete(v, t, l) \in Seq(Ops)
    BY CompleteType
  <2>2. \A v \in Users, l \in Lists : Calm(Complete(v, t, l))
    BY DEF Complete, Steady
  <2> QED
    BY <2>1, <2>2
<1>2. ASSUME NEW a \in Seq(Ops), NEW b \in Seq(Ops), Calm(a), Calm(b)
      PROVE  a \o b \in Seq(Ops) /\ Calm(a \o b)
  BY <1>2
<1>3. <<>> \in Seq(Ops) /\ Calm(<<>>)
  OBVIOUS
<1>4. /\ <<Push(u, t, "pending")>> \in Seq(Ops) /\ Calm(<<Push(u, t, "pending")>>)
      /\ <<[op |-> "count", t |-> t]>> \in Seq(Ops) /\ Calm(<<[op |-> "count", t |-> t]>>)
  BY DEF Push, Ops, StatOps, CountOps, Lists, Steady
<1>5. "pending" \in Lists /\ "unaccepted" \in Lists
  BY DEF Lists
<1>6. tx[t].sender \in Users /\ tx[t].recipient \in Users
  BY DEF TypeOK
<1> HIDE DEF Calm
<1>7. Hook(t, s, u) \in Seq(Ops) /\ Calm(Hook(t, s, u))
  <2>1. CASE s = "accepted"
    BY <2>1, <1>1, <1>2, <1>4, <1>5 DEF Hook
  <2>2. CASE s \in {"rejected", "canceled", "failed"}
    BY <2>2, <1>1, <1>5 DEF Hook
  <2>3. CASE s = "finished"
    BY <2>3, <1>4 DEF Hook
  <2>4. CASE s \notin {"accepted", "rejected", "canceled", "failed", "finished"}
    BY <2>4, <1>3 DEF Hook
  <2> QED
    BY <2>1, <2>2, <2>3, <2>4
<1>8. Completions(t, s) \in Seq(Ops) /\ Calm(Completions(t, s))
  <2>1. CASE s \in final
    BY <2>1, <1>1, <1>2, <1>5, <1>6 DEF Completions
  <2>2. CASE s \in {"ghost_uploaded", "cloud_buffered"}
    BY <2>2, <1>1, <1>5, <1>6 DEF Completions, final
  <2>3. CASE s \notin final \union {"ghost_uploaded", "cloud_buffered"}
    BY <2>3, <1>3 DEF Completions
  <2> QED
    BY <2>1, <2>2, <2>3
<1> DEFINE before == Hook(t, s, u) \o Completions(t, s)
<1>9. before \in Seq(Ops) /\ Calm(before)
  BY <1>2, <1>7, <1>8
<1>10. UpdateOps(t, s, u, d) = before \o <<Updated(t, s, d)>>
  BY DEF UpdateOps, Updated
<1> HIDE DEF before
<1> QED
  BY <1>9, <1>10 DEF Calm

\* A script that ends its steady part with one sound write is orderly, whatever
\* quiet operations follow.
LEMMA OneWrite ==
  ASSUME NEW a \in Seq(Ops), NEW o \in Ops, NEW b \in Seq(Ops),
         \A i \in DOMAIN a : a[i].op \in Steady, Sound(o), Quiet(b)
  PROVE  Orderly((a \o <<o>>) \o b)
<1> DEFINE ops == (a \o <<o>>) \o b
           n == Len(a) + 1
<1>1. <<o>> \in Seq(Ops) /\ Len(<<o>>) = 1 /\ <<o>>[1] = o
  OBVIOUS
<1>2. /\ \A i \in DOMAIN ops : i < n => ops[i] = a[i] /\ i \in DOMAIN a
      /\ \A i \in DOMAIN ops : i = n => ops[i] = o
      /\ \A i \in DOMAIN ops : i > n => ops[i] = b[i - n] /\ i - n \in DOMAIN b
      /\ DOMAIN ops \subseteq Nat
  BY <1>1
<1> HIDE DEF ops
<1>3. \A i \in DOMAIN ops : i # n => ops[i].op \notin Writers
  BY <1>2 DEF Quiet, Steady, Writers
<1>4. \A i \in DOMAIN ops : i < n => ops[i].op \in Steady
  BY <1>2
<1>5. Orderly(ops)
  BY <1>2, <1>3, <1>4 DEF Orderly
<1> QED
  BY <1>5 DEF ops

\* When the head of an orderly script is more than a statistic, nothing behind it
\* writes.
LEMMA QuietTail ==
  ASSUME NEW ops \in Seq(Ops), ops # <<>>, Orderly(ops), Head(ops).op \notin Steady
  PROVE  Quiet(Tail(ops))
<1> SUFFICES ASSUME NEW i \in DOMAIN Tail(ops), Tail(ops)[i].op \in Writers
             PROVE  FALSE
  BY DEF Quiet
<1>1. /\ i + 1 \in DOMAIN ops /\ ops[i + 1] = Tail(ops)[i] /\ 1 < i + 1
      /\ 1 \in DOMAIN ops /\ ops[1] = Head(ops)
  OBVIOUS
<1> QED
  BY <1>1 DEF Orderly

-----------------------------------------------------------------------------
(***************************************************************************)
(* SInv is inductive when there is one process.                            *)
(***************************************************************************)

\* A script that stays orderly while the documents stay the same.
LEMMA OrderlyStays ==
  ASSUME NEW w \in Workers, NEW ops, Orderly(ops), todo'[w] = ops, UNCHANGED <<tx, linked>>
  PROVE  Orderly(todo[w])'
<1>1. \A i \in DOMAIN ops : ops[i].op \in Writers => Sound(todo[w][i])'
  BY DEF Orderly, Sound
<1> QED
  BY <1>1 DEF Orderly

\* A script with nothing left to write is orderly whatever the documents become.
LEMMA QuietOrderly ==
  ASSUME NEW w \in Workers, Quiet(todo'[w])
  PROVE  Orderly(todo[w])'
  BY DEF Quiet, Orderly

\* A request that lays out a script for the documents it has read.
LEMMA SRequest ==
  ASSUME TypeOK, SInv, Serial, NEW w \in Workers, NEW call, NEW ops, Orderly(ops),
         Request(call, w, ops), UNCHANGED docs
  PROVE  SInv'
<1>1. todo'[w] = ops
  BY DEF TypeOK, Request
<1>2. Orderly(todo[w])'
  BY <1>1, OrderlyStays DEF docs
<1>3. Unused'
  BY DEF SInv, Unused, docs
<1> QED
  BY <1>2, <1>3 DEF SInv, Serial

\* An update of a user's statistics.
LEMMA SStat ==
  ASSUME TypeOK, SInv, Serial, NEW w \in Workers, todo[w] # <<>>,
         Continue(w, <<>>), UNCHANGED docs
  PROVE  SInv'
<1>1. todo[w] \in Seq(Ops)
  BY DEF TypeOK
<1>2. todo'[w] = Tail(todo[w])
  BY <1>1 DEF TypeOK, Continue
<1>3. Orderly(todo[w])
  BY DEF SInv
<1>4. Orderly(Tail(todo[w]))
  <2>1. \A i \in DOMAIN Tail(todo[w]) : i + 1 \in DOMAIN todo[w]
                                        /\ Tail(todo[w])[i] = todo[w][i + 1]
    BY <1>1
  <2>2. DOMAIN Tail(todo[w]) \subseteq Nat
    BY <1>1
  <2> DEFINE tail == Tail(todo[w])
  <2> HIDE DEF tail
  <2>3. SUFFICES ASSUME NEW i \in DOMAIN tail, tail[i].op \in Writers
                 PROVE  /\ Sound(tail[i])
                        /\ \A j \in DOMAIN tail : j # i => tail[j].op \notin Writers
                        /\ \A j \in DOMAIN tail : j < i => tail[j].op \in Steady
    BY DEF Orderly, tail
  <2>4. \A j \in DOMAIN tail : j \in Nat /\ j + 1 \in DOMAIN todo[w] /\ tail[j] = todo[w][j + 1]
    BY <2>1, <2>2 DEF tail
  <2>5. tail[i] = todo[w][i + 1] /\ todo[w][i + 1].op \in Writers /\ i + 1 \in DOMAIN todo[w]
    BY <2>3, <2>4
  <2>6. Sound(tail[i])
    BY <1>3, <2>5 DEF Orderly
  <2>7. \A j \in DOMAIN tail : j # i => tail[j].op \notin Writers
    BY <1>3, <2>3, <2>4, <2>5 DEF Orderly
  <2>8. \A j \in DOMAIN tail : j < i => tail[j].op \in Steady
    BY <1>3, <2>3, <2>4, <2>5 DEF Orderly
  <2> QED
    BY <2>6, <2>7, <2>8
<1>5. Orderly(todo[w])'
  BY <1>2, <1>4, OrderlyStays DEF docs
<1>6. Unused'
  BY DEF SInv, Unused, docs
<1> QED
  BY <1>5, <1>6 DEF SInv, Serial

\* Any other operation: it writes or is not followed by a write.
LEMMA SContinue ==
  ASSUME TypeOK, SInv, Serial, NEW w \in Workers, todo[w] # <<>>,
         Head(todo[w]).op \notin Steady, NEW ops \in Seq(Ops), Quiet(ops),
         Continue(w, ops), Unused'
  PROVE  SInv'
<1>1. todo[w] \in Seq(Ops) /\ Orderly(todo[w])
  BY DEF TypeOK, SInv
<1>2. Quiet(Tail(todo[w])) /\ Tail(todo[w]) \in Seq(Ops)
  BY <1>1, QuietTail
<1>3. todo'[w] = ops \o Tail(todo[w])
  BY DEF TypeOK, Continue
<1>4. Quiet(todo'[w])
  BY <1>2, <1>3 DEF Quiet
<1> QED
  BY <1>4, QuietOrderly DEF SInv, Serial

\* The document a creation inserts.
Inserted(t, s, d, r, rd) ==
  [op |-> "put", t |-> t,
   doc |-> [status |-> s, sender |-> owner[d], sender_device |-> d, recipient |-> r,
            recipient_device |-> rd, is_ghost |-> register_status[r] = "ghost"]]

\* A creation whose insertion is sound lays out an orderly script.
LEMMA CreateOrderly ==
  ASSUME TypeOK, NEW t \in Transactions, NEW s \in {"created", "initialized"},
         NEW d \in Devices, NEW r \in Users, NEW rd \in Devices \union {NoDevice},
         Sound(Inserted(t, s, d, r, rd))
  PROVE  Orderly(CreateOps(t, s, d, r, rd))
<1> DEFINE put == Inserted(t, s, d, r, rd)
           note == [op |-> "notify", t |-> t, status |-> s, users |-> {r}]
           a == IF s = "initialized" THEN <<note>> ELSE <<>>
           b == IF register_status[r] = "ghost" THEN <<>> ELSE <<Push(r, t, "unaccepted")>>
           p == Push(owner[d], t, "pending")
<1>1. owner[d] \in Users
  BY UsersAssumption
<1>2. put \in Ops
  <2>1. put \in PutOps
    BY <1>1 DEF Inserted, PutOps
  <2> QED
    BY <2>1 DEF Ops
<1>3. note \in Ops /\ note.op \notin Writers
  BY DEF Ops, NotifyOps, Statuses, Writers
<1>4. \A u \in Users, l \in Lists : Push(u, t, l) \in Ops /\ Push(u, t, l).op \notin Writers
  BY DEF Push, Ops, StatOps, Writers
<1>5. p \in Ops /\ p.op \notin Writers
  BY <1>1, <1>4 DEF Lists
<1>6. a \in Seq(Ops) /\ Quiet(a)
  BY <1>3 DEF Quiet
<1>7. b \in Seq(Ops) /\ Quiet(b)
  BY <1>4 DEF Quiet, Lists
<1>8. CreateOps(t, s, d, r, rd) = ((<<put>> \o a) \o <<p>>) \o b
  BY DEF CreateOps, Inserted
<1> HIDE DEF put, a, b, p
<1>9. <<put>> \in Seq(Ops) /\ <<p>> \in Seq(Ops) /\ Quiet(<<p>>) /\ <<>> \in Seq(Ops)
  BY <1>2, <1>5 DEF Quiet
<1>10. ASSUME NEW x \in Seq(Ops), NEW y \in Seq(Ops), Quiet(x), Quiet(y)
       PROVE  x \o y \in Seq(Ops) /\ Quiet(x \o y)
  BY <1>10 DEF Quiet
<1> DEFINE rest == (a \o <<p>>) \o b
<1>11. a \o <<p>> \in Seq(Ops) /\ Quiet(a \o <<p>>)
  BY <1>6, <1>9, <1>10
<1>12. rest \in Seq(Ops) /\ Quiet(rest)
  BY <1>7, <1>10, <1>11
<1>13. ((<<put>> \o a) \o <<p>>) \o b = (<<>> \o <<put>>) \o rest
  <2>1. \A x, y, z \in Seq(Ops) : (x \o y) \o z = x \o (y \o z)
    OBVIOUS
  <2>2. <<put>> \o a \in Seq(Ops)
    BY <1>6, <1>9
  <2>3. ((<<put>> \o a) \o <<p>>) \o b = (<<put>> \o (a \o <<p>>)) \o b
    BY <1>6, <1>9, <2>1
  <2>4. (<<put>> \o (a \o <<p>>)) \o b = <<put>> \o ((a \o <<p>>) \o b)
    BY <1>7, <1>9, <1>11, <2>1
  <2>5. <<>> \o <<put>> = <<put>>
    BY <1>9
  <2> QED
    BY <2>3, <2>4, <2>5
<1> HIDE DEF rest
<1>14. Sound(put)
  BY DEF put
<1>15. Orderly((<<>> \o <<put>>) \o rest)
  <2>1. \A i \in DOMAIN <<>> : <<>>[i].op \in Steady
    OBVIOUS
  <2> QED
    BY <1>2, <1>9, <1>12, <1>14, <2>1, OneWrite
<1> QED
  BY <1>8, <1>13, <1>15

\* So does an update whose write is sound.
LEMMA UpdateOrderly ==
  ASSUME TypeOK, NEW t \in Transactions, exists(t), NEW s \in Statuses,
         NEW u \in Users, NEW d \in Devices \union {NoDevice},
         NEW rest \in Seq(Ops), Quiet(rest), Sound(Updated(t, s, d))
  PROVE  Orderly(UpdateOps(t, s, u, d) \o rest)
<1>1. PICK a \in Seq(Ops) : /\ UpdateOps(t, s, u, d) = a \o <<Updated(t, s, d)>>
                           /\ \A i \in DOMAIN a : a[i].op \in Steady
  BY UpdateShape
<1>2. Updated(t, s, d) \in Ops
  <2>1. NewStatus(t, s) \in Statuses
    BY DEF NewStatus, Statuses
  <2>2. (s = "ghost_uploaded" /\ tx[t].is_ghost) \in BOOLEAN
    OBVIOUS
  <2>3. (IF s \in {"accepted", "rejected"} THEN d ELSE NoDevice) \in Devices \union {NoDevice}
    OBVIOUS
  <2>4. Updated(t, s, d) \in WriteOps
    BY <2>1, <2>2, <2>3 DEF WriteOps, Updated
  <2> QED
    BY <2>4 DEF Ops
<1> QED
  BY <1>1, <1>2, OneWrite

\* A cancellation is sound from every status that is not final.
LEMMA CancelSound ==
  ASSUME NEW t \in Transactions, running(t)
  PROVE  Sound(Updated(t, "canceled", NoDevice))
  BY DEF Sound, Updated, NewStatus, running, exists

\* So is what an update lets through.
LEMMA UpdateSound ==
  ASSUME NEW t \in Transactions, exists(t), NEW s, NEW b \in BOOLEAN, Permitted(t, s, b),
         s # tx[t].status, NEW d \in Devices
  PROVE  Sound(Updated(t, s, d))
<1> DEFINE o == Updated(t, s, d)
           f == tx[t].status
<1>1. f \in Statuses \ final
  BY DEF Permitted, exists
<1>2. /\ o.op = "write" /\ o.t = t /\ o.status = NewStatus(t, s)
      /\ o.device = IF s \in {"accepted", "rejected"} THEN d ELSE NoDevice
      /\ o.link <=> s = "ghost_uploaded" /\ tx[t].is_ghost
  BY DEF Updated
<1> HIDE DEF o
<1>3. \/ s \in {"accepted", "rejected"} /\ f \in Abstract!Pending
      \/ s = "initialized" /\ f = "created"
      \/ s \in {"ghost_uploaded", "cloud_buffered"} /\ f = "initialized"
      \/ s = "cloud_buffered" /\ f = "accepted"
      \/ s = "finished" /\ f \in {"initialized", "accepted", "ghost_uploaded"}
      \/ s \in {"canceled", "failed"}
  BY PermittedMoves
<1>4. NewStatus(t, s) = IF s = "cloud_buffered" /\ f = "accepted" THEN "accepted" ELSE s
  BY DEF NewStatus
<1> DEFINE g == tx[o.t].status
<1>6. g = f
  BY <1>2
<1> HIDE DEF f, g
<1>7. \/ o.status \in {"accepted", "rejected"} /\ g \in Abstract!Pending
         /\ o.device \in Devices /\ ~o.link
      \/ o.device = NoDevice
         /\ \/ o.status = "accepted" /\ g = "accepted" /\ ~o.link
            \/ o.status = "initialized" /\ g = "created" /\ ~o.link
            \/ o.status \in {"ghost_uploaded", "cloud_buffered"} /\ g = "initialized"
            \/ o.status = "finished" /\ ~o.link
               /\ g \in {"initialized", "accepted", "ghost_uploaded"}
            \/ o.status \in {"canceled", "failed"} /\ g \in Statuses \ final /\ ~o.link
  <2>1. CASE s \in {"accepted", "rejected"}
    BY <1>2, <1>3, <1>4, <1>6, <2>1
  <2>2. CASE s = "initialized"
    BY <1>2, <1>3, <1>4, <1>6, <2>2
  <2>3. CASE s \in {"ghost_uploaded", "cloud_buffered"}
    BY <1>2, <1>3, <1>4, <1>6, <2>3
  <2>4. CASE s = "finished"
    BY <1>2, <1>3, <1>4, <1>6, <2>4
  <2>5. CASE s \in {"canceled", "failed"}
    BY <1>1, <1>2, <1>3, <1>4, <1>6, <2>5
  <2> QED
    BY <1>3, <2>1, <2>2, <2>3, <2>4, <2>5
<1>8. o.op # "put"
  BY <1>2
<1> QED
  BY <1>7, <1>8 DEF Sound, g, o

\* Every request lays out an orderly script: what it checks when it starts is what
\* makes its write sound.
LEMMA ReceiveS == ASSUME IInv, SInv, Serial, NEW w \in Workers, Receive(w) PROVE SInv'
<1> USE UsersAssumption
<1>1. TypeOK /\ Unused
  BY DEF IInv, SInv
<1>2. <<>> \in Seq(Ops) /\ Quiet(<<>>)
  BY DEF Quiet
<1>3. ASSUME NEW ops, Quiet(ops) PROVE Orderly(ops)
  BY <1>3 DEF Quiet, Orderly
<1>4. ASSUME NEW call, NEW ops, Quiet(ops), Request(call, w, ops), Unused' PROVE SInv'
  <2>1. todo'[w] = ops
    BY <1>1, <1>4 DEF TypeOK, Request
  <2>2. Orderly(todo[w])'
    BY <1>4, <2>1, QuietOrderly
  <2> QED
    BY <1>4, <2>2 DEF SInv, Serial
<1>5. ASSUME UNCHANGED tx PROVE Unused'
  BY <1>1, <1>5 DEF Unused
<1>6. ASSUME NEW t \in Transactions, Download(w, t) PROVE SInv'
  <2> DEFINE ops == IF tx[t].status = "finished"
                      THEN <<>> ELSE <<[op |-> "count", t |-> t], Notify(t, tx[t])>>
  <2>1. Quiet(ops)
    BY DEF Quiet, Notify, Writers
  <2>2. Request("download", w, ops)
    BY <1>6 DEF Download
  <2>3. Unused'
    BY <1>1, <1>6 DEF Unused, Download, TypeOK, Documents
  <2> HIDE DEF ops
  <2> QED
    BY <1>4, <2>1, <2>2, <2>3
<1>7. ASSUME NEW d \in Devices, NEW t \in Transactions, CreateEmpty(w, d, t) PROVE SInv'
  <2>1. Unused'
    BY <1>1, <1>7 DEF CreateEmpty, Unused, TypeOK, Documents, Absent
  <2> QED
    BY <1>2, <1>4, <1>7, <2>1 DEF CreateEmpty
<1>8. ASSUME NEW d \in Devices, NEW t \in Transactions, NEW p \in BOOLEAN, Pause(w, d, t, p)
      PROVE  SInv'
  <2>1. Quiet(<<[op |-> "pause", t |-> t, paused |-> p]>>)
    BY DEF Quiet, Writers
  <2>2. UNCHANGED tx /\ Request("pause", w, <<[op |-> "pause", t |-> t, paused |-> p]>>)
    BY <1>8 DEF Pause, docs
  <2> QED
    BY <1>4, <1>5, <2>1, <2>2
<1>9. ASSUME NEW d \in Devices, NEW t \in Transactions, NEW s \in Asked, Update(w, d, t, s)
      PROVE  SInv'
  <2> DEFINE u == owner[d]
  <2>1. /\ exists(t) /\ Permitted(t, s, is_sender(t, u, d)) /\ s # tx[t].status
        /\ UNCHANGED docs
        /\ Request("update", w, IF s = "rejected" /\ d \notin devices[u]
                                  THEN Complete(u, t, "unaccepted")
                                  ELSE UpdateOps(t, s, u, d))
    BY <1>9 DEF Update
  <2>2. CASE s = "rejected" /\ d \notin devices[u]
    <3>1. Quiet(Complete(u, t, "unaccepted"))
      BY DEF Complete, Quiet, Writers
    <3> QED
      BY <1>4, <1>5, <2>1, <2>2, <3>1 DEF docs
  <2>3. CASE ~(s = "rejected" /\ d \notin devices[u])
    <3>1. is_sender(t, u, d) \in BOOLEAN
      BY DEF is_sender
    <3>2. s \in Statuses /\ u \in Users /\ d \in Devices \union {NoDevice}
      OBVIOUS
    <3>3. Sound(Updated(t, s, d))
      BY <2>1, <3>1, UpdateSound
    <3>4. Orderly(UpdateOps(t, s, u, d) \o <<>>)
      BY <1>1, <1>2, <2>1, <3>2, <3>3, UpdateOrderly
    <3>5. UpdateOps(t, s, u, d) \in Seq(Ops)
      BY <1>1, <2>1, <3>2, UpdateOpsType
    <3>6. Orderly(UpdateOps(t, s, u, d))
      BY <3>4, <3>5
    <3>7. Request("update", w, UpdateOps(t, s, u, d))
      BY <2>1, <2>3
    <3> QED
      BY <1>1, <2>1, <3>6, <3>7, SRequest
  <2> QED
    BY <2>2, <2>3
<1>10. ASSUME NEW d \in Devices, NEW t \in Transactions, NEW r \in Users, Create(w, d, t, r)
       PROVE  SInv'
  <2>1. Sound(Inserted(t, "created", d, r, NoDevice))
    BY <1>10 DEF Create, fresh, Sound, Inserted
  <2>2. Orderly(CreateOps(t, "created", d, r, NoDevice))
    BY <1>1, <2>1, CreateOrderly
  <2>3. Request("create", w, CreateOps(t, "created", d, r, NoDevice)) /\ UNCHANGED docs
    BY <1>10 DEF Create
  <2> QED
    BY <1>1, <2>2, <2>3, SRequest
<1>11. ASSUME NEW d \in Devices, NEW t \in Transactions, NEW r \in Users, Bare(w, d, t, r)
       PROVE  SInv'
  <2> DEFINE doc == [Absent EXCEPT !.status = "created", !.sender = owner[d], !.recipient = r]
             put == [op |-> "put", t |-> t, doc |-> doc]
  <2>1. doc.status = "created" /\ doc.recipient_device = NoDevice
    BY DEF Absent
  <2>2. tx[t].status = "none" /\ Request("bare", w, <<put>>) /\ UNCHANGED docs
    BY <1>11 DEF Bare, fresh
  <2>3. Sound(put)
    BY <2>1, <2>2 DEF Sound
  <2> HIDE DEF put
  <2>4. Orderly(<<put>>)
    BY <2>3 DEF Orderly
  <2> QED
    BY <1>1, <2>2, <2>4, SRequest
<1>12. ASSUME NEW d \in Devices, NEW t \in Transactions, NEW r \in Users,
              NEW rd \in Devices \union {NoDevice}, Fill(w, d, t, r, rd)
       PROVE  SInv'
  <2>1. Sound(Inserted(t, "initialized", d, r, rd))
    BY <1>12 DEF Fill, Fillable, Sound, Inserted
  <2>2. Orderly(CreateOps(t, "initialized", d, r, rd))
    BY <1>1, <2>1, CreateOrderly
  <2>3. Request("fill", w, CreateOps(t, "initialized", d, r, rd)) /\ UNCHANGED docs
    BY <1>12 DEF Fill
  <2> QED
    BY <1>1, <2>2, <2>3, SRequest
<1>13. ASSUME NEW d \in Devices, NEW e \in Devices, DeleteDevice(w, d, e) PROVE SInv'
  <2> DEFINE ops == <<CancelFind(owner[d], e), [op |-> "end_session", device |-> e]>>
  <2>1. Quiet(ops)
    BY DEF Quiet, CancelFind, Writers
  <2>2. Request("delete_device", w, ops) /\ UNCHANGED tx
    BY <1>13 DEF DeleteDevice, docs
  <2> HIDE DEF ops
  <2> QED
    BY <1>4, <1>5, <2>1, <2>2
<1>14. ASSUME NEW d \in Devices, DeleteUser(w, d) PROVE SInv'
  <2> DEFINE ops == <<CancelFind(owner[d], NoDevice),
                      [op |-> "remove_devices", user |-> owner[d]],
                      [op |-> "delete", user |-> owner[d]]>>
  <2>1. Quiet(ops)
    BY DEF Quiet, CancelFind, Writers
  <2>2. Request("delete_user", w, ops) /\ UNCHANGED tx
    BY <1>14 DEF DeleteUser, LeaveOps, docs
  <2> HIDE DEF ops
  <2> QED
    BY <1>4, <1>5, <2>1, <2>2
<1>15. ASSUME NEW d \in Devices, ChangePassword(w, d) PROVE SInv'
  <2>1. Quiet(<<CancelFind(owner[d], NoDevice)>>)
    BY DEF Quiet, CancelFind, Writers
  <2>2. Request("change_password", w, <<CancelFind(owner[d], NoDevice)>>) /\ UNCHANGED tx
    BY <1>15 DEF ChangePassword, LeaveOps, docs
  <2> QED
    BY <1>4, <1>5, <2>1, <2>2
<1>16. ASSUME NEW d \in Devices, Login(w, d) PROVE SInv'
  BY <1>2, <1>4, <1>5, <1>16 DEF Login, docs
<1>17. ASSUME NEW d \in Devices, NEW g \in Users, MergeGhost(w, d, g) PROVE SInv'
  <2> DEFINE take == [op |-> "take_over", ghost |-> g, user |-> owner[d]]
             ops == <<take, [op |-> "merge", user |-> g], take>>
  <2>1. Quiet(ops)
    BY DEF Quiet, Writers
  <2>2. Request("merge_ghost", w, ops) /\ UNCHANGED tx
    BY <1>17 DEF MergeGhost, docs
  <2> HIDE DEF ops
  <2> QED
    BY <1>4, <1>5, <2>1, <2>2
<1> QED
  BY <1>6, <1>7, <1>8, <1>9, <1>10, <1>11, <1>12, <1>13, <1>14, <1>15, <1>16, <1>17 DEF Receive

\* Every operation of a script leaves an orderly one.
LEMMA ServeS == ASSUME IInv, SInv, Serial, NEW w \in Workers, Serve(w) PROVE SInv'
<1> DEFINE o == Head(todo[w])
<1>1. TypeOK /\ Unused /\ \A t \in Transactions : exists(t) => tx[t].status # "none"
  BY DEF IInv, SInv, exists, Statuses
<1>2. <<>> \in Seq(Ops) /\ Quiet(<<>>)
  BY DEF Quiet
<1>3. todo[w] # <<>> /\ o \in Ops
  <2>1. todo[w] # <<>>
    BY DEF Serve, At, Put, Write, WritePaused, SendNotification, PushStat, PullStat,
           ClearHas, ClearActivity, Count, EndSession, TakeOver, ClearAccount,
           FindTransactions, CancelNext
  <2> QED
    BY <1>1, <2>1, HeadInOps
<1>4. ASSUME UNCHANGED tx PROVE Unused'
  BY <1>1, <1>4 DEF Unused
<1>5. ASSUME PushStat(w) \/ PullStat(w) \/ ClearHas(w) \/ ClearActivity(w) \/ Count(w)
      PROVE  SInv'
  <2>1. Continue(w, <<>>) /\ UNCHANGED docs
    BY <1>5 DEF PushStat, PullStat, ClearHas, ClearActivity, Count
  <2> QED
    BY <1>1, <1>3, <2>1, SStat
<1>6. ASSUME SendNotification(w) \/ EndSession(w) \/ ClearAccount(w) PROVE SInv'
  <2>1. Continue(w, <<>>) /\ UNCHANGED docs
    BY <1>6 DEF SendNotification, EndSession, ClearAccount
  <2>2. o.op \notin Steady
    BY <1>6 DEF SendNotification, EndSession, ClearAccount, At, Steady
  <2> HIDE DEF o
  <2>3. Unused'
    BY <1>4, <2>1 DEF docs
  <2> QED
    BY <1>1, <1>2, <1>3, <2>1, <2>2, <2>3, SContinue DEF o
<1>7. ASSUME Put(w) PROVE SInv'
  <2>1. o \in PutOps /\ o.op = "put"
    BY <1>3, <1>7, OpKinds DEF Put, At
  <2>2. o.t \in Transactions /\ o.doc.status # "none"
    BY <2>1 DEF PutOps
  <2>3. tx' = [tx EXCEPT ![o.t] = o.doc] /\ Continue(w, <<>>)
    BY <1>7 DEF Put
  <2>4. o.op \notin Steady
    BY <2>1 DEF Steady
  <2> HIDE DEF o
  <2>5. Unused'
    BY <1>1, <2>2, <2>3 DEF Unused, TypeOK
  <2> QED
    BY <1>1, <1>2, <1>3, <2>3, <2>4, <2>5, SContinue DEF o
<1>8. ASSUME Write(w) PROVE SInv'
  <2> DEFINE doc == [tx[o.t] EXCEPT !.status = o.status,
                                    !.recipient_device = IF o.device = NoDevice
                                                           THEN @ ELSE o.device]
             note == Notify(o.t, doc)
  <2>1. o \in WriteOps /\ o.op = "write"
    BY <1>3, <1>8, OpKinds DEF Write, At
  <2>2. o.t \in Transactions /\ o.status \in Statuses
    BY <2>1 DEF WriteOps
  <2>3. exists(o.t)
    <3>1. 1 \in DOMAIN todo[w] /\ todo[w][1] = o
      BY <1>1, <1>3 DEF TypeOK
    <3> QED
      BY <2>1, <3>1 DEF IInv, Grounded
  <2>4. tx' = [tx EXCEPT ![o.t] = doc] /\ Continue(w, <<note>>)
    BY <1>8 DEF Write
  <2>5. o.op \notin Steady
    BY <2>1 DEF Steady
  <2> HIDE DEF o
  <2>6. doc.status \in Statuses /\ doc.sender \in Users /\ doc.recipient \in Users
    <3>1. tx[o.t] \in Documents /\ tx[o.t].sender \in Users /\ tx[o.t].recipient \in Users
      BY <1>1, <2>2, <2>3 DEF TypeOK
    <3> QED
      BY <2>2, <3>1 DEF Documents
  <2> HIDE DEF doc
  <2>7. Unused'
    BY <1>1, <2>2, <2>4, <2>6 DEF Unused, TypeOK, Statuses
  <2>8. note \in Ops /\ note.op \notin Writers
    BY <2>2, <2>6, NotifyType DEF Notify, Writers
  <2> HIDE DEF note
  <2>9. <<note>> \in Seq(Ops) /\ Quiet(<<note>>)
    BY <2>8 DEF Quiet
  <2> QED
    BY <1>1, <1>3, <2>4, <2>5, <2>7, <2>9, SContinue DEF o
<1>9. ASSUME WritePaused(w) PROVE SInv'
  <2> DEFINE note == Notify(o.t, tx[o.t])
  <2>1. o \in PauseOps /\ o.op = "pause"
    BY <1>3, <1>9, OpKinds DEF WritePaused, At
  <2>2. o.t \in Transactions
    BY <2>1 DEF PauseOps
  <2>3. exists(o.t)
    <3>1. 1 \in DOMAIN todo[w] /\ todo[w][1] = o
      BY <1>1, <1>3 DEF TypeOK
    <3> QED
      BY <2>1, <3>1 DEF IInv, Grounded
  <2>4. Continue(w, <<note>>) /\ UNCHANGED tx
    BY <1>9 DEF WritePaused
  <2>5. o.op \notin Steady
    BY <2>1 DEF Steady
  <2> HIDE DEF o
  <2>6. note \in Ops /\ note.op \notin Writers
    BY <1>1, <2>2, <2>3, NotifyType DEF TypeOK, Notify, exists, Writers
  <2> HIDE DEF note
  <2>7. <<note>> \in Seq(Ops) /\ Quiet(<<note>>)
    BY <2>6 DEF Quiet
  <2>8. Unused'
    BY <1>4, <2>4
  <2> QED
    BY <1>1, <1>3, <2>4, <2>5, <2>7, <2>8, SContinue DEF o
<1>10. ASSUME TakeOver(w) PROVE SInv'
  <2>1. o \in TakeOverOps /\ o.op = "take_over"
    BY <1>3, <1>10, OpKinds DEF TakeOver, At
  <2>2. o.user \in Users /\ o.op \notin Steady
    BY <2>1 DEF TakeOverOps, Steady
  <2>3. CASE Continue(w, <<>>) /\ UNCHANGED tx
    <3>1. Unused'
      BY <1>4, <2>3
    <3> HIDE DEF o
    <3> QED
      BY <1>1, <1>2, <1>3, <2>2, <2>3, <3>1, SContinue DEF o
  <2>4. ASSUME NEW t \in Transactions, exists(t),
               LET doc == [tx[t] EXCEPT !.recipient = o.user] IN
                 /\ tx' = [tx EXCEPT ![t] = doc]
                 /\ Continue(w, (IF doc.status = "created" THEN <<>>
                                   ELSE <<Notify(t, doc)>>) \o <<o>>)
        PROVE  SInv'
    <3> DEFINE doc == [tx[t] EXCEPT !.recipient = o.user]
               note == Notify(t, doc)
               ops == (IF doc.status = "created" THEN <<>> ELSE <<note>>) \o <<o>>
    <3>1. doc.status \in Statuses /\ doc.sender \in Users /\ doc.recipient \in Users
      <4>1. tx[t] \in Documents /\ tx[t].sender \in Users /\ tx[t].status \in Statuses
        BY <1>1, <2>4 DEF TypeOK, exists
      <4> HIDE DEF o
      <4> QED
        BY <2>2, <4>1 DEF Documents
    <3>2. tx' = [tx EXCEPT ![t] = doc] /\ Continue(w, ops)
      BY <2>4
    <3>3. o \in Ops /\ o.op \notin Writers
      BY <1>3, <2>1 DEF Writers
    <3> HIDE DEF o, doc
    <3>4. note \in Ops /\ note.op \notin Writers
      BY <3>1, NotifyType DEF Notify, Writers
    <3> HIDE DEF note
    <3>5. ops \in Seq(Ops) /\ Quiet(ops)
      BY <3>3, <3>4 DEF Quiet
    <3> HIDE DEF ops
    <3>6. Unused'
      BY <1>1, <3>1, <3>2 DEF Unused, TypeOK, Statuses
    <3> QED
      BY <1>1, <1>3, <2>2, <3>2, <3>5, <3>6, SContinue DEF o
  <2> QED
    BY <1>10, <2>3, <2>4 DEF TakeOver
<1>11. ASSUME FindTransactions(w) PROVE SInv'
  <2>1. o \in FindOps /\ o.op = "cancel_find"
    BY <1>3, <1>11, OpKinds DEF FindTransactions, At
  <2>2. PICK ts \in SUBSET Transactions : Continue(w, <<Cancel(o.user, ts)>>)
    BY <1>11 DEF FindTransactions
  <2>3. UNCHANGED tx
    BY <1>11 DEF FindTransactions, docs
  <2> DEFINE c == Cancel(o.user, ts)
  <2>4. c \in Ops /\ c.op \notin Writers
    BY <2>1 DEF Cancel, Ops, CancelOps, FindOps, Writers
  <2>5. o.op \notin Steady
    BY <2>1 DEF Steady
  <2>6. Continue(w, <<c>>)
    BY <2>2
  <2> HIDE DEF c, o
  <2>7. <<c>> \in Seq(Ops) /\ Quiet(<<c>>)
    BY <2>4 DEF Quiet
  <2>8. Unused'
    BY <1>4, <2>3
  <2> QED
    BY <1>1, <1>3, <2>5, <2>6, <2>7, <2>8, SContinue DEF o
<1>12. ASSUME CancelNext(w) PROVE SInv'
  <2>1. o \in CancelOps /\ o.op = "cancel"
    BY <1>3, <1>12, OpKinds DEF CancelNext, At
  <2>2. o.user \in Users /\ o.ts \subseteq Transactions /\ o.op \notin Steady
    BY <2>1 DEF CancelOps, Steady
  <2>3. UNCHANGED docs
    BY <1>12 DEF CancelNext
  <2>4. Unused'
    BY <1>4, <2>3 DEF docs
  <2>5. CASE todo' = [todo EXCEPT ![w] = <<>>]
    <3>1. todo'[w] = <<>>
      BY <1>1, <2>5 DEF TypeOK
    <3>2. Orderly(todo[w])'
      BY <3>1, QuietOrderly DEF Quiet
    <3> QED
      BY <2>4, <3>2 DEF SInv, Serial
  <2>6. CASE Continue(w, <<>>)
    BY <1>1, <1>2, <1>3, <2>2, <2>4, <2>6, SContinue
  <2>7. ASSUME NEW t \in o.ts PROVE
           LET c == Cancel(o.user, o.ts \ {t}) IN <<c>> \in Seq(Ops) /\ Quiet(<<c>>)
    <3> DEFINE c == Cancel(o.user, o.ts \ {t})
    <3>1. c \in CancelOps /\ c.op \notin Writers
      BY <2>2 DEF Cancel, CancelOps, Writers
    <3>2. c \in Ops
      BY <3>1 DEF Ops
    <3> HIDE DEF c
    <3>3. <<c>> \in Seq(Ops) /\ Quiet(<<c>>)
      BY <3>1, <3>2 DEF Quiet
    <3> QED
      BY <3>3 DEF c
  <2>8. ASSUME NEW t \in o.ts, Continue(w, <<Cancel(o.user, o.ts \ {t})>>) PROVE SInv'
    <3> DEFINE c == Cancel(o.user, o.ts \ {t})
    <3>1. <<c>> \in Seq(Ops) /\ Quiet(<<c>>) /\ Continue(w, <<c>>)
      BY <2>7, <2>8
    <3> HIDE DEF c, o
    <3> QED
      BY <1>1, <1>3, <2>2, <2>4, <3>1, SContinue DEF o
  <2>9. ASSUME NEW t \in o.ts, running(t),
               Continue(w, UpdateOps(t, "canceled", o.user, NoDevice)
                           \o <<Cancel(o.user, o.ts \ {t})>>)
        PROVE  SInv'
    <3> DEFINE c == Cancel(o.user, o.ts \ {t})
               up == UpdateOps(t, "canceled", o.user, NoDevice)
               tail == Tail(todo[w])
    <3>1. /\ t \in Transactions /\ exists(t) /\ "canceled" \in Statuses
          /\ o.user \in Users /\ NoDevice \in Devices \union {NoDevice}
      BY <2>2, <2>9 DEF running, Statuses
    <3>2. Sound(Updated(t, "canceled", NoDevice))
      BY <2>9, <3>1, CancelSound
    <3>3. <<c>> \in Seq(Ops) /\ Quiet(<<c>>)
      BY <2>7
    <3>4. tail \in Seq(Ops) /\ Quiet(tail)
      <4>1. todo[w] \in Seq(Ops) /\ Orderly(todo[w])
        BY <1>1 DEF TypeOK, SInv
      <4> QED
        BY <1>3, <2>2, <4>1, QuietTail
    <3>5. up \in Seq(Ops)
      BY <1>1, <3>1, UpdateOpsType
    <3>6. todo'[w] = (up \o <<c>>) \o tail
      BY <1>1, <2>9 DEF Continue, TypeOK
    <3>7. \A r \in Seq(Ops) : Quiet(r) => Orderly(up \o r)
      <4> HIDE DEF o
      <4> QED
        BY <1>1, <3>1, <3>2, UpdateOrderly DEF up
    <3> HIDE DEF c, up, tail, o
    <3>8. <<c>> \o tail \in Seq(Ops) /\ Quiet(<<c>> \o tail)
      BY <3>3, <3>4 DEF Quiet
    <3>9. (up \o <<c>>) \o tail = up \o (<<c>> \o tail)
      BY <3>3, <3>4, <3>5
    <3>10. Orderly(todo'[w])
      BY <3>6, <3>7, <3>8, <3>9
    <3>11. Orderly(todo[w])'
      BY <2>3, <3>10, OrderlyStays DEF docs
    <3> QED
      BY <2>4, <3>11 DEF SInv, Serial
  <2> QED
    BY <1>12, <2>5, <2>6, <2>8, <2>9 DEF CancelNext
<1> QED
  BY <1>5, <1>6, <1>7, <1>8, <1>9, <1>10, <1>11, <1>12 DEF Serve

-----------------------------------------------------------------------------
(***************************************************************************)
(* Every step is a step of the abstract life of one transaction, or none.  *)
(***************************************************************************)
AbstractStep == [Abstract!Next]_(Abstract!vars)

\* What does not touch the statuses, the recipients' devices or the links is no
\* step of the abstract life.
LEMMA Stutter ==
  ASSUME UNCHANGED <<tx, linked>>
  PROVE  AbstractStep
  BY DEF AbstractStep, Abstract!vars

\* The abstract view of a document that is replaced: one transaction moves.
LEMMA Replaced ==
  ASSUME TypeOK, NEW t \in Transactions, NEW doc, tx' = [tx EXCEPT ![t] = doc]
  PROVE  /\ \A from, to : tx[t].status \in from /\ doc.status \in to
                            => Abstract!Move(t, from, to)
         /\ [x \in Transactions |-> tx[x].recipient_device]'
              = [[x \in Transactions |-> tx[x].recipient_device]
                   EXCEPT ![t] = doc.recipient_device]
         /\ doc.status = tx[t].status => UNCHANGED [x \in Transactions |-> tx[x].status]
         /\ doc.recipient_device = tx[t].recipient_device =>
              UNCHANGED [x \in Transactions |-> tx[x].recipient_device]
<1>1. [x \in Transactions |-> tx[x].status]'
        = [[x \in Transactions |-> tx[x].status] EXCEPT ![t] = doc.status]
  BY DEF TypeOK
<1>2. [x \in Transactions |-> tx[x].recipient_device]'
        = [[x \in Transactions |-> tx[x].recipient_device] EXCEPT ![t] = doc.recipient_device]
  BY DEF TypeOK
<1>3. ASSUME NEW from, NEW to, tx[t].status \in from, doc.status \in to
      PROVE  Abstract!Move(t, from, to)
  BY <1>1, <1>3 DEF Abstract!Move
<1>4. doc.status = tx[t].status => UNCHANGED [x \in Transactions |-> tx[x].status]
  BY DEF TypeOK
<1>5. doc.recipient_device = tx[t].recipient_device =>
        UNCHANGED [x \in Transactions |-> tx[x].recipient_device]
  BY DEF TypeOK
<1> QED
  BY <1>2, <1>3, <1>4, <1>5

\* The requests that change a document when they start create it or report the
\* download of its file.
LEMMA ReceiveStep == ASSUME IInv, SInv, NEW w \in Workers, Receive(w) PROVE AbstractStep
<1>1. ASSUME NEW t \in Transactions, Download(w, t) PROVE AbstractStep
  <2> DEFINE doc == [tx[t] EXCEPT !.status = "finished"]
  <2>1. tx' = [tx EXCEPT ![t] = doc] /\ UNCHANGED linked /\ t \in linked
    BY <1>1 DEF Download
  <2>2. tx[t].status \in Statuses
    BY <2>1 DEF IInv, Grounded, exists
  <2>3. doc.status = "finished" /\ doc.recipient_device = tx[t].recipient_device
    BY DEF IInv, TypeOK, Documents
  <2> HIDE DEF doc
  <2>4. Abstract!Download(t)
    <3>1. Abstract!Move(t, Abstract!Statuses, {"finished"})
      BY <2>1, <2>2, <2>3, Replaced DEF IInv, Statuses, Abstract!Statuses
    <3>2. UNCHANGED [x \in Transactions |-> tx[x].recipient_device]
      BY <2>1, <2>3, Replaced DEF IInv
    <3> QED
      BY <2>1, <3>1, <3>2 DEF Abstract!Download
  <2> QED
    BY <2>4 DEF AbstractStep, Abstract!Next
<1>2. ASSUME NEW d \in Devices, NEW t \in Transactions, CreateEmpty(w, d, t)
      PROVE  AbstractStep
  <2> DEFINE doc == [Absent EXCEPT !.status = "empty", !.sender = owner[d]]
  <2>1. tx' = [tx EXCEPT ![t] = doc] /\ UNCHANGED linked /\ tx[t].status = "none"
    BY <1>2 DEF CreateEmpty, fresh
  <2>2. doc.status = "empty" /\ doc.recipient_device = tx[t].recipient_device
    BY <2>1 DEF SInv, Unused, Absent
  <2> HIDE DEF doc
  <2>3. Abstract!Create(t)
    BY <2>1, <2>2, Replaced DEF IInv, Abstract!Create
  <2> QED
    BY <2>3 DEF AbstractStep, Abstract!Next
<1>3. ASSUME NEW d \in Devices, NEW t \in Transactions PROVE
        /\ \A s \in Asked : Update(w, d, t, s) => AbstractStep
        /\ \A p \in BOOLEAN : Pause(w, d, t, p) => AbstractStep
  BY Stutter DEF Update, Pause, docs
<1>4. ASSUME NEW d \in Devices, NEW t \in Transactions, NEW r \in Users PROVE
        /\ Create(w, d, t, r) => AbstractStep
        /\ Bare(w, d, t, r) => AbstractStep
        /\ \A rd \in Devices \union {NoDevice} : Fill(w, d, t, r, rd) => AbstractStep
  BY Stutter DEF Create, Bare, Fill, docs
<1>5. ASSUME NEW d \in Devices PROVE
        /\ \A e \in Devices : DeleteDevice(w, d, e) => AbstractStep
        /\ DeleteUser(w, d) => AbstractStep
        /\ ChangePassword(w, d) => AbstractStep
        /\ Login(w, d) => AbstractStep
        /\ \A g \in Users : MergeGhost(w, d, g) => AbstractStep
  BY Stutter DEF DeleteDevice, DeleteUser, ChangePassword, LeaveOps, Login, MergeGhost, docs
<1> QED
  BY <1>1, <1>2, <1>3, <1>4, <1>5 DEF Receive

\* A sound insertion creates the transaction or fills it in.
LEMMA PutStep == ASSUME IInv, SInv, NEW w \in Workers, Put(w) PROVE AbstractStep
<1> DEFINE o == Head(todo[w])
<1>1. TypeOK /\ todo[w] # <<>> /\ o \in Ops /\ o.op = "put"
  BY HeadInOps DEF IInv, Put, At
<1>2. o \in PutOps
  BY <1>1, OpKinds
<1>3. /\ o.t \in Transactions /\ o.doc.status \in {"created", "initialized"}
      /\ o.doc.recipient_device \in Devices \union {NoDevice}
  BY <1>2 DEF PutOps
<1>4. Sound(o)
  <2>1. 1 \in DOMAIN todo[w] /\ todo[w][1] = o
    BY <1>1 DEF TypeOK
  <2> QED
    BY <1>1, <2>1 DEF SInv, Orderly, Writers
<1>5. tx' = [tx EXCEPT ![o.t] = o.doc] /\ UNCHANGED linked
  BY <1>1 DEF Put
<1>t. PICK t \in Transactions : t = o.t
  BY <1>3
<1> HIDE DEF o
<1>6. CASE /\ o.doc.status = "created" /\ tx[o.t].status = "none"
           /\ o.doc.recipient_device = NoDevice
  <2>1. tx[o.t].recipient_device = NoDevice
    BY <1>3, <1>6 DEF SInv, Unused
  <2>2. Abstract!Create(t)
    BY ZenonT(60), <1>1, <1>t, <1>5, <1>6, <2>1, Replaced DEF Abstract!Create
  <2> QED
    BY <2>2 DEF AbstractStep, Abstract!Next
<1>7. CASE /\ o.doc.status = "initialized" /\ o.t \notin linked
           /\ tx[o.t].status \in {"empty", "created", "initialized", "accepted",
                                  "rejected", "canceled", "failed"}
  <2>1. Abstract!Move(t, {"empty", "created", "initialized", "accepted", "rejected",
                          "canceled", "failed"}, {"initialized"})
    BY <1>1, <1>t, <1>5, <1>7, Replaced
  <2>2. [x \in Transactions |-> tx[x].recipient_device]'
          = [[x \in Transactions |-> tx[x].recipient_device]
               EXCEPT ![t] = o.doc.recipient_device]
    BY <1>1, <1>t, <1>5, Replaced
  <2>3. Abstract!Fill(t)
    BY <1>t, <1>3, <1>5, <1>7, <2>1, <2>2 DEF Abstract!Fill
  <2> QED
    BY <2>3 DEF AbstractStep, Abstract!Next
<1> QED
  BY <1>1, <1>4, <1>6, <1>7 DEF Sound

\* A sound update is the move it asks for.
LEMMA WriteStep == ASSUME IInv, SInv, NEW w \in Workers, Write(w) PROVE AbstractStep
<1> DEFINE o == Head(todo[w])
           doc == [tx[o.t] EXCEPT !.status = o.status,
                                  !.recipient_device = IF o.device = NoDevice
                                                         THEN @ ELSE o.device]
           from == tx[o.t].status
<1>1. TypeOK /\ todo[w] # <<>> /\ o \in Ops /\ o.op = "write"
  BY HeadInOps DEF IInv, Write, At
<1>2. o \in WriteOps
  BY <1>1, OpKinds
<1>3. o.t \in Transactions /\ o.status \in Statuses /\ o.device \in Devices \union {NoDevice}
      /\ o.link \in BOOLEAN
  BY <1>2 DEF WriteOps
<1>4. Sound(o)
  <2>1. 1 \in DOMAIN todo[w] /\ todo[w][1] = o
    BY <1>1 DEF TypeOK
  <2> QED
    BY <1>1, <2>1 DEF SInv, Orderly, Writers
<1>5. tx' = [tx EXCEPT ![o.t] = doc]
      /\ linked' = IF o.link THEN linked \union {o.t} ELSE linked
  BY <1>1 DEF Write
<1> HIDE DEF o
<1>6. /\ doc.status = o.status
      /\ doc.recipient_device = IF o.device = NoDevice THEN tx[o.t].recipient_device
                                                       ELSE o.device
  BY <1>1, <1>3 DEF TypeOK, Documents
<1> HIDE DEF doc
<1>t. PICK t \in Transactions : t = o.t
  BY <1>3
<1>u. tx' = [tx EXCEPT ![t] = doc] /\ from = tx[t].status
  BY <1>t, <1>5
<1>v. [x \in Transactions |-> tx[x].recipient_device]'
        = [[x \in Transactions |-> tx[x].recipient_device]
             EXCEPT ![t] = doc.recipient_device]
  BY <1>1, <1>u, Replaced
<1>7. CASE /\ o.status \in {"accepted", "rejected"} /\ from \in Abstract!Pending
           /\ o.device \in Devices /\ ~o.link
  <2>1. doc.recipient_device = o.device /\ UNCHANGED linked
    BY <1>5, <1>6, <1>7, UsersAssumption
  <2>2. Abstract!Move(t, Abstract!Pending, {"accepted", "rejected"})
    BY <1>1, <1>t, <1>u, <1>6, <1>7, Replaced
  <2>3. Abstract!Decide(t)
    BY <1>v, <1>7, <2>1, <2>2 DEF Abstract!Decide
  <2> QED
    BY <2>3 DEF AbstractStep, Abstract!Next
<1>8. CASE o.device = NoDevice /\ ~o.link /\ o.status = "accepted" /\ from = "accepted"
  <2>1. doc.status = from /\ doc.recipient_device = tx[o.t].recipient_device
        /\ UNCHANGED linked
    BY <1>5, <1>6, <1>8
  <2>2. UNCHANGED Abstract!vars
    BY <1>1, <1>t, <1>u, <1>6, <2>1, Replaced DEF Abstract!vars
  <2> QED
    BY <2>2 DEF AbstractStep
<1>9. CASE o.device = NoDevice /\ ~o.link /\ o.status = "initialized" /\ from = "created"
  <2>1. doc.recipient_device = tx[o.t].recipient_device /\ UNCHANGED linked
    BY <1>5, <1>6, <1>9
  <2>2. Abstract!Initialize(t)
    BY <1>1, <1>t, <1>u, <1>6, <1>9, <2>1, Replaced DEF Abstract!Initialize
  <2> QED
    BY <2>2 DEF AbstractStep, Abstract!Next
<1>10. CASE /\ o.device = NoDevice /\ from = "initialized"
            /\ o.status \in {"ghost_uploaded", "cloud_buffered"}
  <2>1. doc.recipient_device = tx[o.t].recipient_device
    BY <1>6, <1>10
  <2>2. linked' \in {linked, linked \union {t}}
    BY <1>5, <1>t
  <2>3. Abstract!Move(t, {"initialized"}, {"cloud_buffered", "ghost_uploaded"})
    BY <1>1, <1>t, <1>u, <1>6, <1>10, Replaced
  <2>4. UNCHANGED [x \in Transactions |-> tx[x].recipient_device]
    BY <1>1, <1>t, <1>u, <2>1, Replaced
  <2>5. Abstract!Store(t)
    BY <2>2, <2>3, <2>4 DEF Abstract!Store
  <2> QED
    BY <2>5 DEF AbstractStep, Abstract!Next
<1>11. CASE /\ o.device = NoDevice /\ ~o.link /\ o.status = "finished"
            /\ from \in {"initialized", "accepted", "ghost_uploaded"}
  <2>1. doc.recipient_device = tx[o.t].recipient_device /\ UNCHANGED linked
    BY <1>5, <1>6, <1>11
  <2>2. Abstract!Finish(t)
    BY ZenonT(60), <1>1, <1>t, <1>u, <1>6, <1>11, <2>1, Replaced DEF Abstract!Finish
  <2> QED
    BY <2>2 DEF AbstractStep, Abstract!Next
<1>12. CASE /\ o.device = NoDevice /\ ~o.link /\ o.status \in {"canceled", "failed"}
            /\ from \in Statuses \ final
  <2>1. doc.recipient_device = tx[o.t].recipient_device /\ UNCHANGED linked
    BY <1>5, <1>6, <1>12
  <2>2. Abstract!Abort(t)
    BY <1>1, <1>t, <1>u, <1>6, <1>12, <2>1, Replaced
       DEF Abstract!Abort, Statuses, final, Abstract!Statuses, Abstract!final
  <2> QED
    BY <2>2 DEF AbstractStep, Abstract!Next
<1> QED
  BY <1>1, <1>4, <1>7, <1>8, <1>9, <1>10, <1>11, <1>12 DEF Sound

\* A ghost's transactions change hands without a change of their life.
LEMMA TakeOverStep == ASSUME IInv, NEW w \in Workers, TakeOver(w) PROVE AbstractStep
<1>1. CASE UNCHANGED tx
  BY <1>1, Stutter DEF TakeOver
<1>2. ASSUME NEW t \in Transactions, NEW u,
             tx' = [tx EXCEPT ![t] = [tx[t] EXCEPT !.recipient = u]]
      PROVE  AbstractStep
  <2> DEFINE doc == [tx[t] EXCEPT !.recipient = u]
  <2>1. doc.status = tx[t].status /\ doc.recipient_device = tx[t].recipient_device
    BY DEF IInv, TypeOK, Documents
  <2>2. tx' = [tx EXCEPT ![t] = doc]
    BY <1>2
  <2> HIDE DEF doc
  <2>3. UNCHANGED Abstract!vars
    BY <2>1, <2>2, Replaced DEF IInv, Abstract!vars, TakeOver
  <2> QED
    BY <2>3 DEF AbstractStep
<1> QED
  BY <1>1, <1>2 DEF TakeOver

\* Served one request at a time, and whatever the requests, their order, the
\* deletions and the crashes, a transaction lives the life AbstractTransaction
\* describes: the cloud_buffered that comes after the accept, the cancellation of a
\* finished one and the second device that accepts change nothing.
THEOREM SerialRefinement == ASSUME Serial PROVE Spec => RefinesAbstract
<1>1. Init => SInv /\ Abstract!Init
  <2> SUFFICES ASSUME Init PROVE SInv /\ Abstract!Init
    OBVIOUS
  <2>1. SInv
    BY DEF Init, SInv, Unused, Orderly, Absent
  <2>2. /\ [t \in Transactions |-> tx[t].status] = [t \in Transactions |-> "none"]
        /\ [t \in Transactions |-> tx[t].recipient_device]
             = [t \in Transactions |-> NoDevice]
    BY DEF Init, Absent
  <2>3. linked = {}
    BY DEF Init
  <2> QED
    BY <2>1, <2>2, <2>3 DEF Abstract!Init
<1>2. IInv /\ SInv /\ [Next]_vars => SInv' /\ AbstractStep
  <2> SUFFICES ASSUME IInv, SInv, [Next]_vars PROVE SInv' /\ AbstractStep
    OBVIOUS
  <2>1. ASSUME NEW w \in Workers, Receive(w) PROVE SInv' /\ AbstractStep
    BY <2>1, ReceiveS, ReceiveStep
  <2>2. ASSUME NEW w \in Workers, Serve(w) PROVE SInv' /\ AbstractStep
    <3>1. SInv'
      BY <2>2, ServeS
    <3>2. ASSUME UNCHANGED docs PROVE AbstractStep
      BY <3>2, Stutter DEF docs
    <3>3. ASSUME Put(w) PROVE AbstractStep
      BY <3>3, PutStep
    <3>4. ASSUME Write(w) PROVE AbstractStep
      BY <3>4, WriteStep
    <3>5. ASSUME TakeOver(w) PROVE AbstractStep
      BY <3>5, TakeOverStep
    <3>6. ASSUME WritePaused(w) PROVE AbstractStep
      BY <3>6, Stutter DEF WritePaused
    <3>7. ASSUME SendNotification(w) \/ PushStat(w) \/ PullStat(w) \/ ClearHas(w)
                 \/ ClearActivity(w) \/ Count(w) \/ EndSession(w) \/ ClearAccount(w)
                 \/ FindTransactions(w) \/ CancelNext(w)
          PROVE  AbstractStep
      BY <3>2, <3>7 DEF SendNotification, PushStat, PullStat, ClearHas, ClearActivity,
                        Count, EndSession, ClearAccount, FindTransactions, CancelNext
    <3> QED
      BY <2>2, <3>1, <3>3, <3>4, <3>5, <3>6, <3>7 DEF Serve
  <2>3. ASSUME NEW w \in Workers, Crash(w) PROVE SInv' /\ AbstractStep
    <3>1. todo'[w] = <<Dead>> /\ UNCHANGED docs
      BY <2>3 DEF Crash, IInv, TypeOK
    <3>2. Orderly(todo[w])'
      BY <3>1, QuietOrderly DEF Quiet, Dead, Writers
    <3>3. Unused'
      BY <3>1 DEF SInv, Unused, docs
    <3> QED
      BY <3>1, <3>2, <3>3, Stutter DEF SInv, Serial, docs
  <2>4. CASE UNCHANGED vars
    <3>1. UNCHANGED <<tx, linked, todo>>
      BY <2>4 DEF vars, docs
    <3>2. \A w \in Workers : Orderly(todo[w])'
      BY <3>1, OrderlyStays DEF SInv
    <3> QED
      BY <3>1, <3>2, Stutter DEF SInv, Unused
  <2> QED
    BY <2>1, <2>2, <2>3, <2>4 DEF Next
<1>3. Spec => []IInv
  BY TypeCorrect DEF IInv
<1> QED
  BY <1>1, <1>2, <1>3, PTL DEF Spec, RefinesAbstract, Abstract!Spec, AbstractStep

-----------------------------------------------------------------------------
(***************************************************************************)
(* The flags are exact at rest: whoever empties a list has still to look   *)
(* at its flag, and whoever clears a flag has still to look at the         *)
(* activity, unless his process died; so it is between any two updates of  *)
(* any number of processes.                                                *)
(***************************************************************************)
StatKinds == {"pull", "clear_has", "clear_activity"}
LoopKinds == {"cancel", "cancel_find"}

\* The script looks at the flag of a list of u, and at his activity.
ClearsList(ops, u, l) ==
  \E i \in DOMAIN ops : ops[i].op = "clear_has" /\ ops[i].user = u /\ ops[i].list = l
ClearsUser(ops, u) == \E i \in DOMAIN ops : ops[i].op = "clear_activity" /\ ops[i].user = u

\* Nothing is completed, and nothing is canceled in a loop that a refusal would end.
NoStat(ops) == \A i \in DOMAIN ops : ops[i].op \notin StatKinds
NoLoop(ops) == \A i \in DOMAIN ops : ops[i].op \notin LoopKinds

\* The updates of a completion come in their order, and none after a loop.
Tidy(ops) ==
  \A i \in DOMAIN ops :
    /\ ops[i].op = "pull" =>
         \E j \in DOMAIN ops : /\ j > i /\ ops[j].op = "clear_has"
                               /\ ops[j].user = ops[i].user /\ ops[j].list = ops[i].list
    /\ ops[i].op = "clear_has" =>
         \E j \in DOMAIN ops : /\ j > i /\ ops[j].op = "clear_activity"
                               /\ ops[j].user = ops[i].user
    /\ ops[i].op \in LoopKinds =>
         \A j \in DOMAIN ops : j > i => ops[j].op \notin StatKinds

Alive == \A w \in Workers : ~At(w, "dead")

\* A flag that is on for nothing is about to be looked at.
Restful ==
  /\ \A w \in Workers : Tidy(todo[w])
  /\ Alive =>
       \A u \in Users :
         /\ \A l \in Lists : has[u][l] /\ listed[u][l] = {} =>
              \E w \in Workers : ClearsList(todo[w], u, l)
         /\ u \in activity_has /\ (\A l \in Lists : ~has[u][l]) =>
              \E w \in Workers : ClearsUser(todo[w], u)

\* The tail of a script is a script.
LEMMA Tails ==
  ASSUME NEW ops \in Seq(Ops), ops # << >>
  PROVE  /\ Tail(ops) \in Seq(Ops)
         /\ \A i \in DOMAIN ops : i = 1 \/ (i - 1 \in DOMAIN Tail(ops) /\ Tail(ops)[i - 1] = ops[i])
         /\ \A i \in DOMAIN Tail(ops) : i + 1 \in DOMAIN ops /\ Tail(ops)[i] = ops[i + 1] /\ i \in Nat
         /\ 1 \in DOMAIN ops /\ ops[1] = Head(ops)
         /\ \A i \in DOMAIN ops : i \in Nat /\ i >= 1
<1>1. /\ Tail(ops) \in Seq(Ops) /\ Len(ops) \in Nat /\ Len(ops) > 0
      /\ Len(Tail(ops)) = Len(ops) - 1 /\ ops[1] = Head(ops)
      /\ DOMAIN ops = 1..Len(ops) /\ DOMAIN Tail(ops) = 1..Len(Tail(ops))
  OBVIOUS
<1>2. \A i \in 1..Len(Tail(ops)) : Tail(ops)[i] = ops[i + 1]
  OBVIOUS
<1> DEFINE t == Tail(ops)
<1> HIDE DEF t
<1>3. \A i \in DOMAIN t : i + 1 \in DOMAIN ops /\ t[i] = ops[i + 1] /\ i \in Nat
  BY <1>1, <1>2 DEF t
<1>4. ASSUME NEW i \in DOMAIN ops, i # 1
      PROVE  i - 1 \in DOMAIN t /\ t[i - 1] = ops[i]
  <2>1. i - 1 \in 1..Len(t) /\ (i - 1) + 1 = i
    BY <1>1, <1>4 DEF t
  <2> QED
    BY <1>1, <1>2, <2>1 DEF t
<1>5. \A i \in DOMAIN ops : i \in Nat /\ i >= 1
  BY <1>1
<1>6. 1 \in DOMAIN ops
  BY <1>1
<1>7. t \in Seq(Ops)
  BY <1>1 DEF t
<1>8. \A i \in DOMAIN ops : i = 1 \/ (i - 1 \in DOMAIN t /\ t[i - 1] = ops[i])
  BY <1>4
<1> QED
  BY <1>1, <1>3, <1>5, <1>6, <1>7, <1>8 DEF t

\* What is behind the head.
LEMMA TidyTail ==
  ASSUME NEW ops \in Seq(Ops), ops # << >>, Tidy(ops)
  PROVE  /\ Tidy(Tail(ops))
         /\ Head(ops).op = "pull" => ClearsList(Tail(ops), Head(ops).user, Head(ops).list)
         /\ Head(ops).op = "clear_has" => ClearsUser(Tail(ops), Head(ops).user)
         /\ Head(ops).op \in LoopKinds => NoStat(Tail(ops))
         /\ \A u, l : ClearsList(ops, u, l) /\ ~(Head(ops).op = "clear_has" /\ Head(ops).user = u
                                                 /\ Head(ops).list = l)
                        => ClearsList(Tail(ops), u, l)
         /\ \A u : ClearsUser(ops, u) /\ ~(Head(ops).op = "clear_activity" /\ Head(ops).user = u)
                     => ClearsUser(Tail(ops), u)
<1> DEFINE t == Tail(ops)
<1>1. /\ \A i \in DOMAIN ops : i = 1 \/ (i - 1 \in DOMAIN t /\ t[i - 1] = ops[i])
      /\ \A i \in DOMAIN t : i + 1 \in DOMAIN ops /\ t[i] = ops[i + 1] /\ i \in Nat
      /\ 1 \in DOMAIN ops /\ ops[1] = Head(ops)
      /\ \A i \in DOMAIN ops : i \in Nat /\ i >= 1
  BY Tails
<1> HIDE DEF t
<1>2. ASSUME NEW i \in DOMAIN t, NEW j \in DOMAIN ops, j > i + 1
      PROVE  j - 1 \in DOMAIN t /\ t[j - 1] = ops[j] /\ j - 1 > i
  <2>1. i \in Nat /\ j \in Nat /\ j # 1
    BY <1>1, <1>2
  <2> QED
    BY <1>1, <1>2, <2>1
<1>3. Tidy(t)
  <2> SUFFICES ASSUME NEW i \in DOMAIN t
               PROVE  /\ t[i].op = "pull" =>
                           \E j \in DOMAIN t : /\ j > i /\ t[j].op = "clear_has"
                                               /\ t[j].user = t[i].user /\ t[j].list = t[i].list
                      /\ t[i].op = "clear_has" =>
                           \E j \in DOMAIN t : /\ j > i /\ t[j].op = "clear_activity"
                                               /\ t[j].user = t[i].user
                      /\ t[i].op \in LoopKinds =>
                           \A j \in DOMAIN t : j > i => t[j].op \notin StatKinds
    BY DEF Tidy
  <2>0. i + 1 \in DOMAIN ops /\ t[i] = ops[i + 1]
    BY <1>1
  <2>1. ASSUME t[i].op = "pull"
        PROVE  \E j \in DOMAIN t : /\ j > i /\ t[j].op = "clear_has"
                                   /\ t[j].user = t[i].user /\ t[j].list = t[i].list
    <3>1. PICK j \in DOMAIN ops : /\ j > i + 1 /\ ops[j].op = "clear_has"
                                  /\ ops[j].user = t[i].user /\ ops[j].list = t[i].list
      BY <2>0, <2>1 DEF Tidy
    <3> QED
      BY <1>2, <3>1
  <2>2. ASSUME t[i].op = "clear_has"
        PROVE  \E j \in DOMAIN t : /\ j > i /\ t[j].op = "clear_activity"
                                   /\ t[j].user = t[i].user
    <3>1. PICK j \in DOMAIN ops : /\ j > i + 1 /\ ops[j].op = "clear_activity"
                                  /\ ops[j].user = t[i].user
      BY <2>0, <2>2 DEF Tidy
    <3> QED
      BY <1>2, <3>1
  <2>3. ASSUME t[i].op \in LoopKinds, NEW j \in DOMAIN t, j > i PROVE t[j].op \notin StatKinds
    <3>1. j + 1 \in DOMAIN ops /\ t[j] = ops[j + 1] /\ j + 1 > i + 1
      BY <1>1, <2>3
    <3> QED
      BY <2>0, <2>3, <3>1 DEF Tidy
  <2> QED
    BY <2>1, <2>2, <2>3
<1>4. \A j \in DOMAIN ops : j > 1 => j - 1 \in DOMAIN t /\ t[j - 1] = ops[j]
  BY <1>1
<1>5. ASSUME ops[1].op = "pull" PROVE ClearsList(t, ops[1].user, ops[1].list)
  <2>1. PICK j \in DOMAIN ops : /\ j > 1 /\ ops[j].op = "clear_has"
                                /\ ops[j].user = ops[1].user /\ ops[j].list = ops[1].list
    BY <1>1, <1>5 DEF Tidy
  <2> QED
    BY <1>4, <2>1 DEF ClearsList
<1>6. ASSUME ops[1].op = "clear_has" PROVE ClearsUser(t, ops[1].user)
  <2>1. PICK j \in DOMAIN ops : /\ j > 1 /\ ops[j].op = "clear_activity"
                                /\ ops[j].user = ops[1].user
    BY <1>1, <1>6 DEF Tidy
  <2> QED
    BY <1>4, <2>1 DEF ClearsUser
<1>7. Head(ops).op \in LoopKinds => NoStat(t)
  <2> SUFFICES ASSUME ops[1].op \in LoopKinds, NEW i \in DOMAIN t PROVE t[i].op \notin StatKinds
    BY <1>1 DEF NoStat
  <2>0. 1 \in DOMAIN ops
    BY <1>1
  <2>1. \A j \in DOMAIN ops : j > 1 => ops[j].op \notin StatKinds
    BY <2>0, Zenon DEF Tidy
  <2>2. i + 1 \in DOMAIN ops /\ i + 1 > 1 /\ t[i] = ops[i + 1]
    BY <1>1
  <2> QED
    BY <2>1, <2>2
<1>8. \A u, l : ClearsList(ops, u, l) /\ ~(Head(ops).op = "clear_has" /\ Head(ops).user = u
                                           /\ Head(ops).list = l)
                  => ClearsList(t, u, l)
  BY SMTT(30), <1>1 DEF ClearsList
<1>9. \A u : ClearsUser(ops, u) /\ ~(Head(ops).op = "clear_activity" /\ Head(ops).user = u)
               => ClearsUser(t, u)
  BY <1>1 DEF ClearsUser
<1> QED
  BY <1>1, <1>3, <1>5, <1>6, <1>7, <1>8, <1>9 DEF t

\* Two scripts, one behind the other, are a script.
LEMMA Joins ==
  ASSUME NEW a \in Seq(Ops), NEW b \in Seq(Ops)
  PROVE  /\ a \o b \in Seq(Ops)
         /\ \A i \in DOMAIN a : i \in DOMAIN (a \o b) /\ (a \o b)[i] = a[i] /\ i \in Nat /\ i <= Len(a)
         /\ \A i \in DOMAIN b : i + Len(a) \in DOMAIN (a \o b) /\ (a \o b)[i + Len(a)] = b[i] /\ i \in Nat /\ i > 0
         /\ \A i \in DOMAIN (a \o b) : i \in DOMAIN a \/ i - Len(a) \in DOMAIN b
         /\ Len(a) \in Nat /\ \A i \in DOMAIN (a \o b) : i \in Nat
OBVIOUS

\* Scripts that are laid end to end.
LEMMA TidyJoin ==
  ASSUME NEW a \in Seq(Ops), NEW b \in Seq(Ops), Tidy(a), Tidy(b), NoLoop(a) \/ NoStat(b)
  PROVE  /\ a \o b \in Seq(Ops) /\ Tidy(a \o b)
         /\ NoLoop(a) /\ NoLoop(b) => NoLoop(a \o b)
         /\ NoStat(a) /\ NoStat(b) => NoStat(a \o b)
         /\ \A u, l : ClearsList(b, u, l) => ClearsList(a \o b, u, l)
         /\ \A u : ClearsUser(b, u) => ClearsUser(a \o b, u)
<1> DEFINE s == a \o b
           n == Len(a)
<1>1. /\ s \in Seq(Ops) /\ n \in Nat /\ \A i \in DOMAIN s : i \in Nat
      /\ \A i \in DOMAIN a : i \in DOMAIN s /\ s[i] = a[i] /\ i \in Nat /\ i <= n
      /\ \A i \in DOMAIN b : i + n \in DOMAIN s /\ s[i + n] = b[i] /\ i \in Nat /\ i > 0
      /\ \A i \in DOMAIN s : i \in DOMAIN a \/ i - n \in DOMAIN b
  BY Joins
<1> HIDE DEF s, n
<1>2. \A i \in DOMAIN s : i \in DOMAIN a \/ (i - n \in DOMAIN b /\ s[i] = b[i - n] /\ i > n)
  <2> SUFFICES ASSUME NEW i \in DOMAIN s, i - n \in DOMAIN b PROVE s[i] = b[i - n] /\ i > n
    BY <1>1
  <2>1. s[(i - n) + n] = b[i - n] /\ (i - n) + n = i /\ i - n > 0
    BY <1>1
  <2> QED
    BY <1>1, <2>1
<1>3. Tidy(s)
  <2> SUFFICES ASSUME NEW i \in DOMAIN s
               PROVE  /\ s[i].op = "pull" =>
                           \E j \in DOMAIN s : /\ j > i /\ s[j].op = "clear_has"
                                               /\ s[j].user = s[i].user /\ s[j].list = s[i].list
                      /\ s[i].op = "clear_has" =>
                           \E j \in DOMAIN s : /\ j > i /\ s[j].op = "clear_activity"
                                               /\ s[j].user = s[i].user
                      /\ s[i].op \in LoopKinds =>
                           \A j \in DOMAIN s : j > i => s[j].op \notin StatKinds
    BY DEF Tidy
  <2>1. CASE i \in DOMAIN a
    <3>1. s[i] = a[i] /\ \A j \in DOMAIN a : j \in DOMAIN s /\ s[j] = a[j]
      BY <1>1, <2>1
    <3>2. s[i].op \in LoopKinds => \A j \in DOMAIN s : j > i => s[j].op \notin StatKinds
      BY <1>2, <2>1, <3>1 DEF Tidy, NoLoop, NoStat
    <3> QED
      BY <2>1, <3>1, <3>2 DEF Tidy
  <2>2. CASE i - n \in DOMAIN b /\ s[i] = b[i - n] /\ i > n
    <3>1. \A j \in DOMAIN b : j > i - n => j + n \in DOMAIN s /\ s[j + n] = b[j] /\ j + n > i
      BY <1>1, <2>2
    <3>2. \A j \in DOMAIN s : j > i => j - n \in DOMAIN b /\ s[j] = b[j - n] /\ j - n > i - n
      BY <1>1, <1>2, <2>2
    <3>3. s[i].op = "pull" =>
            \E j \in DOMAIN s : /\ j > i /\ s[j].op = "clear_has"
                                /\ s[j].user = s[i].user /\ s[j].list = s[i].list
      BY SMTT(30), <2>2, <3>1 DEF Tidy
    <3>4. s[i].op = "clear_has" =>
            \E j \in DOMAIN s : /\ j > i /\ s[j].op = "clear_activity"
                                /\ s[j].user = s[i].user
      BY <2>2, <3>1 DEF Tidy
    <3>5. s[i].op \in LoopKinds => \A j \in DOMAIN s : j > i => s[j].op \notin StatKinds
      BY <2>2, <3>2 DEF Tidy
    <3> QED
      BY <3>3, <3>4, <3>5
  <2> QED
    BY <1>2, <2>1, <2>2
<1>4. NoLoop(a) /\ NoLoop(b) => NoLoop(s)
  BY <1>1, <1>2 DEF NoLoop
<1>5. NoStat(a) /\ NoStat(b) => NoStat(s)
  BY <1>1, <1>2 DEF NoStat
<1>6. \A u, l : ClearsList(b, u, l) => ClearsList(s, u, l)
  BY <1>1 DEF ClearsList
<1>7. \A u : ClearsUser(b, u) => ClearsUser(s, u)
  BY <1>1 DEF ClearsUser
<1> QED
  BY <1>1, <1>3, <1>4, <1>5, <1>6, <1>7 DEF s

\* A script that touches no list and loops over none is tidy.
LEMMA Calm == ASSUME NEW ops, NoStat(ops), NoLoop(ops) PROVE Tidy(ops)
BY DEF NoStat, NoLoop, Tidy, StatKinds, LoopKinds

\* A script of one operation.
LEMMA OneOp ==
  ASSUME NEW o \in Ops
  PROVE  /\ <<o>> \in Seq(Ops)
         /\ o.op \notin StatKinds => Tidy(<<o>>) /\ NoStat(<<o>>)
         /\ o.op \notin StatKinds \union LoopKinds => NoLoop(<<o>>)
BY DEF NoStat, NoLoop, Tidy, StatKinds, LoopKinds

\* Nothing left to do is a tidy script.
LEMMA NoOp == << >> \in Seq(Ops) /\ Tidy(<< >>) /\ NoStat(<< >>) /\ NoLoop(<< >>)
BY DEF NoStat, NoLoop, Tidy

\* What completes a transaction is tidy: whoever empties a list looks at its flag next.
LEMMA TidyComplete ==
  ASSUME NEW u \in Users, NEW t \in Transactions, NEW l \in Lists
  PROVE  /\ Complete(u, t, l) \in Seq(Ops)
         /\ Tidy(Complete(u, t, l)) /\ NoLoop(Complete(u, t, l))
<1>1. Complete(u, t, l) \in Seq(Ops)
  BY CompleteType
<1>2. /\ DOMAIN Complete(u, t, l) = 1..3
      /\ Complete(u, t, l)[1] = [op |-> "pull", user |-> u, list |-> l, t |-> t]
      /\ Complete(u, t, l)[2] = [op |-> "clear_has", user |-> u, list |-> l, t |-> t]
      /\ Complete(u, t, l)[3] = [op |-> "clear_activity", user |-> u, list |-> l, t |-> t]
  BY DEF Complete
<1> DEFINE c == Complete(u, t, l)
<1> HIDE DEF c
<1>3. /\ 1 \in DOMAIN c /\ 2 \in DOMAIN c /\ 3 \in DOMAIN c
      /\ \A i \in DOMAIN c : i = 1 \/ i = 2 \/ i = 3
      /\ c[1].op = "pull" /\ c[1].user = u /\ c[1].list = l
      /\ c[2].op = "clear_has" /\ c[2].user = u /\ c[2].list = l
      /\ c[3].op = "clear_activity" /\ c[3].user = u
  BY <1>2 DEF c
<1>4. NoLoop(c)
  BY <1>3 DEF NoLoop, LoopKinds
<1>5. Tidy(c)
  BY <1>3, <1>4 DEF Tidy, NoLoop
<1> QED
  BY <1>1, <1>4, <1>5 DEF c

\* What an update of a transaction lays out is tidy.
LEMMA TidyUpdate ==
  ASSUME TypeOK, NEW t \in Transactions, exists(t), NEW s \in Statuses,
         NEW u \in Users, NEW d \in Devices \union {NoDevice}
  PROVE  /\ UpdateOps(t, s, u, d) \in Seq(Ops)
         /\ Tidy(UpdateOps(t, s, u, d)) /\ NoLoop(UpdateOps(t, s, u, d))
<1> DEFINE Fit(ops) == ops \in Seq(Ops) /\ Tidy(ops) /\ NoLoop(ops)
<1>1. \A v \in Users, l \in Lists : Fit(Complete(v, t, l))
  BY TidyComplete
<1>2. ASSUME NEW a, NEW b, Fit(a), Fit(b) PROVE Fit(a \o b)
  BY <1>2, TidyJoin
<1>3. Fit(<< >>)
  BY NoOp
<1>4. /\ Push(u, t, "pending") \in Ops /\ Push(u, t, "pending").op = "push"
      /\ [op |-> "count", t |-> t] \in Ops
  BY DEF Push, Ops, StatOps, CountOps, Lists
<1>5. Fit(<<Push(u, t, "pending")>>) /\ Fit(<<[op |-> "count", t |-> t]>>)
  BY <1>4, OneOp DEF StatKinds, LoopKinds
<1>6. "pending" \in Lists /\ "unaccepted" \in Lists
  BY DEF Lists
<1>7. tx[t].sender \in Users /\ tx[t].recipient \in Users
  BY DEF TypeOK
<1> HIDE DEF Fit
<1>8. Fit(Hook(t, s, u))
  <2>1. CASE s = "accepted"
    BY <2>1, <1>1, <1>2, <1>5, <1>6 DEF Hook
  <2>2. CASE s \in {"rejected", "canceled", "failed"}
    BY <2>2, <1>1, <1>6 DEF Hook
  <2>3. CASE s = "finished"
    BY <2>3, <1>5 DEF Hook
  <2>4. CASE s \notin {"accepted", "rejected", "canceled", "failed", "finished"}
    BY <2>4, <1>3 DEF Hook
  <2> QED
    BY <2>1, <2>2, <2>3, <2>4
<1>9. Fit(Completions(t, s))
  <2>1. CASE s \in final
    BY <2>1, <1>1, <1>2, <1>6, <1>7 DEF Completions
  <2>2. CASE s \in {"ghost_uploaded", "cloud_buffered"}
    BY <2>2, <1>1, <1>6, <1>7 DEF Completions, final
  <2>3. CASE s \notin final \union {"ghost_uploaded", "cloud_buffered"}
    BY <2>3, <1>3 DEF Completions
  <2> QED
    BY <2>1, <2>2, <2>3
<1> DEFINE write == Updated(t, s, d)
<1>10. write \in Ops /\ write.op = "write"
  <2>1. NewStatus(t, s) \in Statuses
    BY DEF NewStatus, Statuses
  <2>2. (s = "ghost_uploaded" /\ tx[t].is_ghost) \in BOOLEAN
    OBVIOUS
  <2>3. (IF s \in {"accepted", "rejected"} THEN d ELSE NoDevice) \in Devices \union {NoDevice}
    OBVIOUS
  <2>4. write \in WriteOps
    BY <2>1, <2>2, <2>3 DEF WriteOps, Updated
  <2> QED
    BY <2>4 DEF Ops, Updated
<1>11. UpdateOps(t, s, u, d) = (Hook(t, s, u) \o Completions(t, s)) \o <<write>>
  BY DEF UpdateOps, Updated
<1> HIDE DEF write
<1>12. Fit(<<write>>)
  BY <1>10, OneOp DEF Fit, StatKinds, LoopKinds
<1>13. Fit((Hook(t, s, u) \o Completions(t, s)) \o <<write>>)
  BY <1>2, <1>8, <1>9, <1>12
<1> QED
  BY <1>11, <1>13 DEF Fit

-----------------------------------------------------------------------------
\* What a step does to a script, and to the user it looks at.
LEMMA RestStep ==
  ASSUME TypeOK, Restful, NEW w \in Workers, NEW new \in Seq(Ops),
         todo' = [todo EXCEPT ![w] = new], ~At(w, "dead"), Tidy(new),
         \A u \in Users, l \in Lists : has'[u][l] /\ listed'[u][l] = {} =>
           \/ has[u][l] /\ listed[u][l] = {} /\ (ClearsList(todo[w], u, l) => ClearsList(new, u, l))
           \/ ClearsList(new, u, l),
         \A u \in Users : u \in activity_has' /\ (\A l \in Lists : ~has'[u][l]) =>
           \/ /\ u \in activity_has /\ \A l \in Lists : ~has[u][l]
              /\ ClearsUser(todo[w], u) => ClearsUser(new, u)
           \/ ClearsUser(new, u)
  PROVE  Restful'
<1>1. todo'[w] = new /\ \A v \in Workers : v # w => todo'[v] = todo[v]
  BY DEF TypeOK
<1>2. \A v \in Workers : Tidy(todo'[v])
  BY <1>1 DEF Restful
<1>3. Alive' => Alive
  BY <1>1 DEF Alive, At
<1>4. ASSUME Alive', NEW u \in Users, NEW l \in Lists, has'[u][l], listed'[u][l] = {}
      PROVE  \E v \in Workers : ClearsList(todo'[v], u, l)
  <2>1. CASE ClearsList(new, u, l)
    BY <1>1, <2>1
  <2>2. CASE /\ has[u][l] /\ listed[u][l] = {}
             /\ ClearsList(todo[w], u, l) => ClearsList(new, u, l)
    <3>1. PICK v \in Workers : ClearsList(todo[v], u, l)
      BY <1>3, <1>4, <2>2 DEF Restful
    <3> QED
      BY <1>1, <2>2, <3>1
  <2> QED
    BY <1>4, <2>1, <2>2
<1>5. ASSUME Alive', NEW u \in Users, u \in activity_has', \A l \in Lists : ~has'[u][l]
      PROVE  \E v \in Workers : ClearsUser(todo'[v], u)
  <2>1. CASE ClearsUser(new, u)
    BY <1>1, <2>1
  <2>2. CASE /\ u \in activity_has /\ \A l \in Lists : ~has[u][l]
             /\ ClearsUser(todo[w], u) => ClearsUser(new, u)
    <3>1. PICK v \in Workers : ClearsUser(todo[v], u)
      BY <1>3, <1>5, <2>2 DEF Restful
    <3> QED
      BY <1>1, <2>2, <3>1
  <2> QED
    BY <1>5, <2>1, <2>2
<1> QED
  BY <1>2, <1>4, <1>5 DEF Restful

\* A request starts.
LEMMA RestRequest ==
  ASSUME TypeOK, Restful, NEW w \in Workers, NEW call, NEW ops \in Seq(Ops), Tidy(ops),
         Request(call, w, ops), UNCHANGED stats
  PROVE  Restful'
<1>1. todo[w] = << >> /\ todo' = [todo EXCEPT ![w] = ops]
  BY DEF Request
<1>2. ~At(w, "dead")
  BY <1>1 DEF At
<1>3. UNCHANGED <<has, listed, activity_has>>
  BY DEF stats
<1>4. \A u, l : ~ClearsList(todo[w], u, l) /\ ~ClearsUser(todo[w], u)
  BY <1>1 DEF ClearsList, ClearsUser
<1> QED
  BY <1>1, <1>2, <1>3, <1>4, RestStep

\* An operation that is not about the statistics is done, and others come before the rest.
LEMMA RestContinue ==
  ASSUME TypeOK, Restful, NEW w \in Workers, todo[w] # << >>, NEW ops \in Seq(Ops), Tidy(ops),
         Continue(w, ops), UNCHANGED stats,
         Head(todo[w]).op \notin {"pull", "clear_has", "clear_activity", "dead"},
         NoLoop(ops) \/ Head(todo[w]).op \in LoopKinds
  PROVE  Restful'
<1> DEFINE tail == Tail(todo[w])
           new == ops \o tail
<1>1. todo[w] \in Seq(Ops) /\ Tidy(todo[w])
  BY DEF TypeOK, Restful
<1>2. /\ tail \in Seq(Ops) /\ Tidy(tail)
      /\ Head(todo[w]).op \in LoopKinds => NoStat(tail)
      /\ \A u, l : ClearsList(todo[w], u, l) => ClearsList(tail, u, l)
      /\ \A u : ClearsUser(todo[w], u) => ClearsUser(tail, u)
  BY <1>1, TidyTail, HeadInOps
<1>3. todo' = [todo EXCEPT ![w] = new]
  BY DEF Continue, TypeOK
<1> HIDE DEF tail
<1>4. /\ new \in Seq(Ops) /\ Tidy(new)
      /\ \A u, l : ClearsList(tail, u, l) => ClearsList(new, u, l)
      /\ \A u : ClearsUser(tail, u) => ClearsUser(new, u)
  BY <1>2, TidyJoin
<1> HIDE DEF new
<1>5. ~At(w, "dead") /\ UNCHANGED <<has, listed, activity_has>>
  BY DEF At, stats
<1> QED
  BY <1>2, <1>3, <1>4, <1>5, RestStep

\* An update of a user.
LEMMA RestStat ==
  ASSUME TypeOK, Restful, NEW w \in Workers,
         PushStat(w) \/ PullStat(w) \/ ClearHas(w) \/ ClearActivity(w)
  PROVE  Restful'
<1> DEFINE o == Head(todo[w])
           tail == Tail(todo[w])
<1>1. o \in StatOps /\ todo[w] # << >> /\ Continue(w, << >>) /\ ~At(w, "dead")
  BY HeadInOps, OpKinds DEF PushStat, PullStat, ClearHas, ClearActivity, At
<1>2. o.user \in Users /\ o.list \in Lists /\ o.t \in Transactions
  BY <1>1 DEF StatOps
<1>3. /\ listed \in [Users -> [Lists -> SUBSET Transactions]]
      /\ has \in [Users -> [Lists -> BOOLEAN]]
      /\ activity_has \subseteq Users
  BY DEF TypeOK
<1>4. todo[w] \in Seq(Ops) /\ Tidy(todo[w])
  BY DEF TypeOK, Restful
<1>5. /\ tail \in Seq(Ops) /\ Tidy(tail)
      /\ o.op = "pull" => ClearsList(tail, o.user, o.list)
      /\ o.op = "clear_has" => ClearsUser(tail, o.user)
      /\ \A u, l : ClearsList(todo[w], u, l) /\ ~(o.op = "clear_has" /\ o.user = u /\ o.list = l)
                     => ClearsList(tail, u, l)
      /\ \A u : ClearsUser(todo[w], u) /\ ~(o.op = "clear_activity" /\ o.user = u)
                  => ClearsUser(tail, u)
  BY <1>1, <1>4, TidyTail
<1>6. todo' = [todo EXCEPT ![w] = tail]
  <2>1. << >> \o tail = tail
    BY <1>5
  <2> QED
    BY <1>1, <2>1 DEF Continue
<1>7. CASE PushStat(w)
  <2>1. /\ listed' = [listed EXCEPT ![o.user][o.list] = @ \union {o.t}]
        /\ has' = [has EXCEPT ![o.user][o.list] = TRUE]
        /\ activity_has' = activity_has \union {o.user}
        /\ o.op = "push"
    BY <1>7 DEF PushStat, At
  <2> HIDE DEF o, tail
  <2>2. \A u \in Users, l \in Lists : has'[u][l] /\ listed'[u][l] = {} =>
          has[u][l] /\ listed[u][l] = {}
    BY <1>2, <1>3, <2>1
  <2>3. \A u \in Users : u \in activity_has' /\ (\A l \in Lists : ~has'[u][l]) =>
          u \in activity_has /\ \A l \in Lists : ~has[u][l]
    BY <1>2, <1>3, <2>1
  <2> QED
    BY <1>1, <1>5, <1>6, <2>1, <2>2, <2>3, RestStep
<1>8. CASE PullStat(w)
  <2>1. /\ listed' = [listed EXCEPT ![o.user][o.list] = @ \ {o.t}]
        /\ UNCHANGED <<has, activity_has>>
        /\ o.op = "pull"
    BY <1>8 DEF PullStat, At
  <2> HIDE DEF o, tail
  <2>2. \A u \in Users, l \in Lists : (u # o.user \/ l # o.list) => listed'[u][l] = listed[u][l]
    BY <1>2, <1>3, <2>1
  <2>3. \A u \in Users, l \in Lists : has'[u][l] /\ listed'[u][l] = {} =>
          \/ has[u][l] /\ listed[u][l] = {} /\ (ClearsList(todo[w], u, l) => ClearsList(tail, u, l))
          \/ ClearsList(tail, u, l)
    BY <1>5, <2>1, <2>2
  <2>4. \A u \in Users : u \in activity_has' /\ (\A l \in Lists : ~has'[u][l]) =>
          /\ u \in activity_has /\ \A l \in Lists : ~has[u][l]
          /\ ClearsUser(todo[w], u) => ClearsUser(tail, u)
    BY <1>5, <2>1
  <2> QED
    BY <1>1, <1>5, <1>6, <2>3, <2>4, RestStep
<1>9. CASE ClearHas(w)
  <2>1. /\ has' = IF listed[o.user][o.list] = {}
                    THEN [has EXCEPT ![o.user][o.list] = FALSE] ELSE has
        /\ UNCHANGED <<listed, activity_has>>
        /\ o.op = "clear_has"
    BY <1>9 DEF ClearHas, At
  <2> HIDE DEF o, tail
  <2>2. \A u \in Users, l \in Lists : has'[u][l] /\ listed'[u][l] = {} =>
          has[u][l] /\ listed[u][l] = {} /\ (u # o.user \/ l # o.list)
    BY <1>2, <1>3, <2>1
  <2>3. \A u \in Users : u # o.user => \A l \in Lists : has'[u][l] = has[u][l]
    BY <1>2, <1>3, <2>1
  <2>4. \A u \in Users, l \in Lists : has'[u][l] /\ listed'[u][l] = {} =>
          has[u][l] /\ listed[u][l] = {} /\ (ClearsList(todo[w], u, l) => ClearsList(tail, u, l))
    BY <1>5, <2>2
  <2>5. \A u \in Users : u \in activity_has' /\ (\A l \in Lists : ~has'[u][l]) =>
          \/ /\ u \in activity_has /\ \A l \in Lists : ~has[u][l]
             /\ ClearsUser(todo[w], u) => ClearsUser(tail, u)
          \/ ClearsUser(tail, u)
    BY <1>5, <2>1, <2>3
  <2> QED
    BY <1>1, <1>5, <1>6, <2>4, <2>5, RestStep
<1>10. CASE ClearActivity(w)
  <2>1. /\ activity_has' = IF \A l \in Lists : ~has[o.user][l]
                             THEN activity_has \ {o.user} ELSE activity_has
        /\ UNCHANGED <<listed, has>>
        /\ o.op = "clear_activity"
    BY <1>10 DEF ClearActivity, At
  <2> HIDE DEF o, tail
  <2>2. \A u \in Users : u \in activity_has' /\ (\A l \in Lists : ~has'[u][l]) =>
          u \in activity_has /\ u # o.user
    BY <2>1
  <2> QED
    BY <1>1, <1>5, <1>6, <2>1, <2>2, RestStep
<1> QED
  BY <1>7, <1>8, <1>9, <1>10

\* What the creation of a transaction lays out is tidy.
LEMMA TidyCreate ==
  ASSUME TypeOK, NEW t \in Transactions, NEW s \in {"created", "initialized"},
         NEW d \in Devices, NEW r \in Users, NEW rd \in Devices \union {NoDevice}
  PROVE  CreateOps(t, s, d, r, rd) \in Seq(Ops) /\ Tidy(CreateOps(t, s, d, r, rd))
<1> DEFINE put == Inserted(t, s, d, r, rd)
           note == [op |-> "notify", t |-> t, status |-> s, users |-> {r}]
           a == IF s = "initialized" THEN <<note>> ELSE << >>
           b == IF register_status[r] = "ghost" THEN << >> ELSE <<Push(r, t, "unaccepted")>>
           p == Push(owner[d], t, "pending")
           Fit(ops) == ops \in Seq(Ops) /\ Tidy(ops) /\ NoLoop(ops)
<1>1. owner[d] \in Users
  BY UsersAssumption
<1>2. put \in Ops /\ put.op = "put"
  <2>1. put \in PutOps
    BY <1>1 DEF Inserted, PutOps
  <2> QED
    BY <2>1 DEF Ops, Inserted
<1>3. note \in Ops /\ note.op = "notify"
  BY DEF Ops, NotifyOps, Statuses
<1>4. \A u \in Users, l \in Lists : Push(u, t, l) \in Ops /\ Push(u, t, l).op = "push"
  BY DEF Push, Ops, StatOps
<1>5. p \in Ops /\ p.op = "push" /\ Push(r, t, "unaccepted") \in Ops
      /\ Push(r, t, "unaccepted").op = "push"
  BY <1>1, <1>4 DEF Lists
<1>6. CreateOps(t, s, d, r, rd) = ((<<put>> \o a) \o <<p>>) \o b
  BY DEF CreateOps, Inserted
<1> HIDE DEF put, note, p
<1>7. Fit(<<put>>) /\ Fit(<<p>>) /\ Fit(a) /\ Fit(b)
  BY <1>2, <1>3, <1>5, OneOp, NoOp DEF StatKinds, LoopKinds
<1>8. ASSUME NEW x, NEW y, Fit(x), Fit(y) PROVE Fit(x \o y)
  BY <1>8, TidyJoin
<1> HIDE DEF a, b, Fit
<1>9. Fit(((<<put>> \o a) \o <<p>>) \o b)
  BY <1>7, <1>8
<1> QED
  BY <1>6, <1>9 DEF Fit

\* A request received leaves the lists and their flags at rest, or work to do.
LEMMA RestReceive == ASSUME IInv, Restful, NEW w \in Workers, Receive(w) PROVE Restful'
<1>0. TypeOK /\ \A t \in linked : exists(t)
  BY DEF IInv, Grounded
<1>1. ASSUME NEW t \in Transactions, Download(w, t) PROVE Restful'
  <2> DEFINE note == Notify(t, tx[t])
             ops == IF tx[t].status = "finished"
                      THEN << >> ELSE <<[op |-> "count", t |-> t], note>>
  <2>1. exists(t)
    BY <1>0, <1>1 DEF Download
  <2>2. note \in Ops /\ note.op = "notify"
    BY <1>0, <2>1, NotifyType DEF TypeOK, Notify, exists
  <2>3. [op |-> "count", t |-> t] \in Ops
    BY DEF Ops, CountOps
  <2> HIDE DEF note
  <2>4. ops \in Seq(Ops) /\ NoStat(ops) /\ NoLoop(ops)
    BY <2>2, <2>3 DEF NoStat, NoLoop, StatKinds, LoopKinds
  <2>5. Request("download", w, ops) /\ UNCHANGED stats
    BY <1>1 DEF Download, note
  <2> HIDE DEF ops
  <2> QED
    BY <1>0, <2>4, <2>5, Calm, RestRequest
<1>2. ASSUME NEW d \in Devices, NEW t \in Transactions, NEW r \in Users, Create(w, d, t, r)
      PROVE  Restful'
  <2>1. Request("create", w, CreateOps(t, "created", d, r, NoDevice)) /\ UNCHANGED stats
    BY <1>2 DEF Create
  <2> QED
    BY <1>0, <2>1, TidyCreate, RestRequest
<1>3. ASSUME NEW d \in Devices, NEW t \in Transactions, CreateEmpty(w, d, t) PROVE Restful'
  BY <1>0, <1>3, NoOp, RestRequest DEF CreateEmpty
<1>4. ASSUME NEW d \in Devices, NEW t \in Transactions, NEW r \in Users, Bare(w, d, t, r)
      PROVE  Restful'
  <2> DEFINE doc == [Absent EXCEPT !.status = "created", !.sender = owner[d], !.recipient = r]
             put == [op |-> "put", t |-> t, doc |-> doc]
  <2>1. put \in Ops
    <3>1. owner[d] \in Users
      BY UsersAssumption
    <3>2. put \in PutOps
      BY <3>1 DEF PutOps, Absent
    <3> QED
      BY <3>2 DEF Ops
  <2>2. put.op \notin StatKinds \union LoopKinds
    BY DEF StatKinds, LoopKinds
  <2>3. Request("bare", w, <<put>>) /\ UNCHANGED stats
    BY <1>4 DEF Bare
  <2> HIDE DEF put
  <2> QED
    BY <1>0, <2>1, <2>2, <2>3, OneOp, RestRequest
<1>5. ASSUME NEW d \in Devices, NEW t \in Transactions, NEW r \in Users,
             NEW rd \in Devices \union {NoDevice}, Fill(w, d, t, r, rd)
      PROVE  Restful'
  <2>1. Request("fill", w, CreateOps(t, "initialized", d, r, rd)) /\ UNCHANGED stats
    BY <1>5 DEF Fill
  <2> QED
    BY <1>0, <2>1, TidyCreate, RestRequest
<1>6. ASSUME NEW d \in Devices, NEW t \in Transactions, NEW s \in Asked, Update(w, d, t, s)
      PROVE  Restful'
  <2> DEFINE u == owner[d]
             ops == IF s = "rejected" /\ d \notin devices[u]
                      THEN Complete(u, t, "unaccepted") ELSE UpdateOps(t, s, u, d)
  <2>1. Request("update", w, ops) /\ UNCHANGED stats /\ exists(t)
    BY <1>6 DEF Update
  <2>2. u \in Users /\ s \in Statuses /\ "unaccepted" \in Lists
    BY UsersAssumption DEF Lists
  <2> HIDE DEF u
  <2>3. ops \in Seq(Ops) /\ Tidy(ops)
    BY <1>0, <2>1, <2>2, TidyUpdate, TidyComplete
  <2> HIDE DEF ops
  <2> QED
    BY <1>0, <2>1, <2>3, RestRequest
<1>7. ASSUME NEW d \in Devices, NEW t \in Transactions, NEW p \in BOOLEAN, Pause(w, d, t, p)
      PROVE  Restful'
  <2> DEFINE o == [op |-> "pause", t |-> t, paused |-> p]
  <2>1. o \in Ops /\ o.op \notin StatKinds \union LoopKinds
    BY DEF Ops, PauseOps, StatKinds, LoopKinds
  <2>2. Request("pause", w, <<o>>) /\ UNCHANGED stats
    BY <1>7 DEF Pause
  <2> HIDE DEF o
  <2> QED
    BY <1>0, <2>1, <2>2, OneOp, RestRequest
<1>8. ASSUME NEW d \in Devices, NEW e \in Devices, DeleteDevice(w, d, e) PROVE Restful'
  <2> DEFINE find == CancelFind(owner[d], e)
             end == [op |-> "end_session", device |-> e]
  <2>1. find \in Ops /\ end \in Ops /\ find.op = "cancel_find" /\ end.op = "end_session"
    BY UsersAssumption DEF Ops, FindOps, SessionOps, CancelFind
  <2>2. Request("delete_device", w, <<find, end>>) /\ UNCHANGED stats
    BY <1>8 DEF DeleteDevice
  <2> HIDE DEF find, end
  <2>3. <<find, end>> \in Seq(Ops) /\ Tidy(<<find, end>>)
    BY <2>1 DEF Tidy, StatKinds
  <2> QED
    BY <1>0, <2>2, <2>3, RestRequest
<1>9. ASSUME NEW d \in Devices, DeleteUser(w, d) PROVE Restful'
  <2> DEFINE find == CancelFind(owner[d], NoDevice)
             remove == [op |-> "remove_devices", user |-> owner[d]]
             delete == [op |-> "delete", user |-> owner[d]]
  <2>1. /\ find \in Ops /\ remove \in Ops /\ delete \in Ops
        /\ find.op = "cancel_find" /\ remove.op = "remove_devices" /\ delete.op = "delete"
    BY UsersAssumption DEF Ops, FindOps, AccountOps, CancelFind
  <2>2. Request("delete_user", w, <<find, remove, delete>>) /\ UNCHANGED stats
    BY <1>9 DEF DeleteUser, LeaveOps
  <2> HIDE DEF find, remove, delete
  <2>3. <<find, remove, delete>> \in Seq(Ops) /\ Tidy(<<find, remove, delete>>)
    BY <2>1 DEF Tidy, StatKinds
  <2> QED
    BY <1>0, <2>2, <2>3, RestRequest
<1>10. ASSUME NEW d \in Devices, ChangePassword(w, d) PROVE Restful'
  <2> DEFINE find == CancelFind(owner[d], NoDevice)
  <2>1. find \in Ops /\ find.op \notin StatKinds
    BY UsersAssumption DEF Ops, FindOps, CancelFind, StatKinds
  <2>2. Request("change_password", w, <<find>>) /\ UNCHANGED stats
    BY <1>10 DEF ChangePassword, LeaveOps
  <2> HIDE DEF find
  <2> QED
    BY <1>0, <2>1, <2>2, OneOp, RestRequest
<1>11. ASSUME NEW d \in Devices, Login(w, d) PROVE Restful'
  BY <1>0, <1>11, NoOp, RestRequest DEF Login
<1>12. ASSUME NEW d \in Devices, NEW g \in Users, MergeGhost(w, d, g) PROVE Restful'
  <2> DEFINE take == [op |-> "take_over", ghost |-> g, user |-> owner[d]]
             merge == [op |-> "merge", user |-> g]
  <2>1. take \in Ops /\ merge \in Ops /\ take.op = "take_over" /\ merge.op = "merge"
    BY UsersAssumption DEF Ops, TakeOverOps, AccountOps
  <2>2. Request("merge_ghost", w, <<take, merge, take>>) /\ UNCHANGED stats
    BY <1>12 DEF MergeGhost
  <2> HIDE DEF take, merge
  <2>3. <<take, merge, take>> \in Seq(Ops) /\ Tidy(<<take, merge, take>>)
    BY <2>1 DEF Tidy, LoopKinds
  <2> QED
    BY <1>0, <2>2, <2>3, RestRequest
<1> QED
  BY <1>1, <1>2, <1>3, <1>4, <1>5, <1>6, <1>7, <1>8, <1>9, <1>10, <1>11, <1>12, ZenonT(60)
  DEF Receive

\* So does each operation of a request, and the death of a process.
LEMMA RestServe == ASSUME IInv, Restful, NEW w \in Workers, Serve(w) \/ Crash(w) PROVE Restful'
<1>0. TypeOK /\ ScriptsGrounded
  BY DEF IInv, Grounded, ScriptsGrounded
<1> DEFINE o == Head(todo[w])
<1>1. CASE PushStat(w) \/ PullStat(w) \/ ClearHas(w) \/ ClearActivity(w)
  BY <1>0, <1>1, RestStat
<1>2. CASE Put(w) \/ SendNotification(w) \/ Count(w) \/ EndSession(w) \/ ClearAccount(w)
  <2>1. todo[w] # << >> /\ Continue(w, << >>) /\ UNCHANGED stats
        /\ o.op \in {"put", "notify", "count", "end_session", "remove_devices", "delete", "merge"}
    BY <1>2 DEF Put, SendNotification, Count, EndSession, ClearAccount, At
  <2> HIDE DEF o
  <2> QED
    BY <1>0, <2>1, NoOp, RestContinue DEF o
<1>3. CASE Write(w) \/ WritePaused(w)
  <2>1. todo[w] # << >> /\ o.op \in {"write", "pause"} /\ UNCHANGED stats
    BY <1>3 DEF Write, WritePaused, At
  <2>2. o \in Ops /\ 1 \in DOMAIN todo[w] /\ todo[w][1] = o
    BY <1>0, <2>1, HeadInOps DEF TypeOK
  <2>3. o \in WriteOps \union PauseOps /\ o.t \in Transactions /\ exists(o.t)
        /\ (o.op = "write" => o.status \in Statuses)
    BY <1>0, <2>1, <2>2, OpKinds DEF ScriptsGrounded, WriteOps, PauseOps
  <2>4. /\ tx[o.t].status \in Statuses /\ tx[o.t].sender \in Users /\ tx[o.t].recipient \in Users
        /\ tx[o.t] \in Documents
    BY <1>0, <2>3 DEF TypeOK, exists
  <2> HIDE DEF o
  <2>5. PICK note \in Ops : note.op = "notify" /\ Continue(w, <<note>>)
    <3>1. CASE Write(w)
      <4> DEFINE doc == [tx[o.t] EXCEPT !.status = o.status,
                                        !.recipient_device = IF o.device = NoDevice
                                                               THEN @ ELSE o.device]
      <4>1. o.op = "write"
        BY <3>1 DEF Write, At, o
      <4>2. doc.status \in Statuses /\ doc.sender \in Users /\ doc.recipient \in Users
        BY <2>3, <2>4, <4>1 DEF Documents
      <4>3. Continue(w, <<Notify(o.t, doc)>>)
        BY <3>1 DEF Write, o
      <4> HIDE DEF doc
      <4> QED
        BY <2>3, <4>2, <4>3, NotifyType DEF Notify
    <3>2. CASE WritePaused(w)
      <4>1. Continue(w, <<Notify(o.t, tx[o.t])>>)
        BY <3>2 DEF WritePaused, o
      <4> QED
        BY <2>3, <2>4, <4>1, NotifyType DEF Notify
    <3> QED
      BY <1>3, <3>1, <3>2
  <2> QED
    BY <1>0, <2>1, <2>5, OneOp, RestContinue DEF StatKinds, LoopKinds, o
<1>4. CASE TakeOver(w)
  <2>1. todo[w] # << >> /\ o.op = "take_over" /\ UNCHANGED stats /\ o \in Ops
    BY <1>0, <1>4, HeadInOps DEF TakeOver, At
  <2>2. o \in TakeOverOps /\ o.user \in Users
    BY <2>1, OpKinds DEF TakeOverOps
  <2> HIDE DEF o
  <2>3. PICK ops \in Seq(Ops) : Continue(w, ops) /\ Tidy(ops) /\ NoLoop(ops)
    <3>1. CASE Continue(w, << >>)
      BY <3>1, NoOp
    <3>2. ASSUME NEW t \in Transactions, exists(t),
                 LET doc == [tx[t] EXCEPT !.recipient = o.user] IN
                   Continue(w, (IF doc.status = "created" THEN << >> ELSE <<Notify(t, doc)>>) \o <<o>>)
          PROVE  \E ops \in Seq(Ops) : Continue(w, ops) /\ Tidy(ops) /\ NoLoop(ops)
      <4> DEFINE doc == [tx[t] EXCEPT !.recipient = o.user]
                 note == Notify(t, doc)
                 a == IF doc.status = "created" THEN << >> ELSE <<note>>
      <4>1. doc.status \in Statuses /\ doc.sender \in Users /\ doc.recipient \in Users
        BY <1>0, <2>2, <3>2 DEF TypeOK, exists, Documents
      <4>2. note \in Ops /\ note.op = "notify"
        BY <4>1, NotifyType DEF Notify
      <4> HIDE DEF note
      <4>3. a \in Seq(Ops) /\ Tidy(a) /\ NoLoop(a)
        BY <4>2, NoOp, OneOp DEF StatKinds, LoopKinds
      <4>4. <<o>> \in Seq(Ops) /\ Tidy(<<o>>) /\ NoLoop(<<o>>)
        BY <2>1, OneOp DEF StatKinds, LoopKinds
      <4>5. Continue(w, a \o <<o>>)
        BY <3>2 DEF note
      <4> HIDE DEF a
      <4> QED
        BY <4>3, <4>4, <4>5, TidyJoin
    <3> QED
      BY <1>4, <3>1, <3>2 DEF TakeOver, o
  <2> QED
    BY <1>0, <2>1, <2>3, RestContinue DEF o
<1>5. CASE FindTransactions(w)
  <2>1. todo[w] # << >> /\ o.op = "cancel_find" /\ UNCHANGED stats /\ o \in Ops
    BY <1>0, <1>5, HeadInOps DEF FindTransactions, At
  <2>2. o.user \in Users
    BY <2>1, OpKinds DEF FindOps
  <2>3. PICK ts \in SUBSET Transactions : Continue(w, <<Cancel(o.user, ts)>>)
    BY <1>5 DEF FindTransactions
  <2> HIDE DEF o
  <2>4. Cancel(o.user, ts) \in Ops /\ Cancel(o.user, ts).op \notin StatKinds
    BY <2>2 DEF Cancel, Ops, CancelOps, StatKinds
  <2>5. <<Cancel(o.user, ts)>> \in Seq(Ops) /\ Tidy(<<Cancel(o.user, ts)>>)
    BY <2>4, OneOp
  <2>6. o.op \in LoopKinds
    BY <2>1 DEF LoopKinds
  <2> QED
    BY <1>0, <2>1, <2>3, <2>5, <2>6, RestContinue DEF o
<1>6. CASE CancelNext(w)
  <2>1. todo[w] # << >> /\ o.op = "cancel" /\ UNCHANGED stats /\ o \in Ops
    BY <1>0, <1>6, HeadInOps DEF CancelNext, At
  <2>2. o.user \in Users /\ o.ts \subseteq Transactions
    BY <2>1, OpKinds DEF CancelOps
  <2>3. o.op \in LoopKinds
    BY <2>1 DEF LoopKinds
  <2> HIDE DEF o
  <2>4. ASSUME todo' = [todo EXCEPT ![w] = << >>] PROVE Restful'
    <3>1. todo[w] \in Seq(Ops) /\ Tidy(todo[w])
      BY <1>0 DEF TypeOK, Restful
    <3>2. NoStat(Tail(todo[w]))
      BY <2>1, <2>3, <3>1, TidyTail DEF o
    <3>3. /\ \A u, l : ~ClearsList(todo[w], u, l)
          /\ \A u : ~ClearsUser(todo[w], u)
      <4> DEFINE ops == todo[w]
                 tail == Tail(todo[w])
      <4>1. /\ \A i \in DOMAIN ops : i = 1 \/ (i - 1 \in DOMAIN tail /\ tail[i - 1] = ops[i])
            /\ ops[1].op = "cancel"
        BY <2>1, <3>1, Tails DEF o
      <4>2. \A i \in DOMAIN tail : tail[i].op \notin StatKinds
        BY <3>2 DEF NoStat
      <4> HIDE DEF ops, tail
      <4>3. \A i \in DOMAIN ops : ops[i].op # "clear_has" /\ ops[i].op # "clear_activity"
        BY <4>1, <4>2 DEF StatKinds
      <4> QED
        BY <4>3 DEF ops, ClearsList, ClearsUser
    <3>4. ~At(w, "dead") /\ UNCHANGED <<has, listed, activity_has>>
      BY <2>1 DEF At, o, stats
    <3> QED
      BY <1>0, <2>4, <3>3, <3>4, NoOp, RestStep
  <2>5. ASSUME NEW ops \in Seq(Ops), Tidy(ops), Continue(w, ops) PROVE Restful'
    BY <1>0, <2>1, <2>3, <2>5, RestContinue DEF o
  <2>6. ASSUME NEW t \in o.ts PROVE
          /\ <<Cancel(o.user, o.ts \ {t})>> \in Seq(Ops)
          /\ Tidy(<<Cancel(o.user, o.ts \ {t})>>) /\ NoStat(<<Cancel(o.user, o.ts \ {t})>>)
    <3>1. Cancel(o.user, o.ts \ {t}) \in Ops /\ Cancel(o.user, o.ts \ {t}).op \notin StatKinds
      BY <2>2 DEF Cancel, Ops, CancelOps, StatKinds
    <3> QED
      BY <3>1, OneOp
  <2>7. ASSUME NEW t \in o.ts, running(t),
               Continue(w, UpdateOps(t, "canceled", o.user, NoDevice) \o <<Cancel(o.user, o.ts \ {t})>>)
        PROVE  Restful'
    <3>1. /\ UpdateOps(t, "canceled", o.user, NoDevice) \in Seq(Ops)
          /\ Tidy(UpdateOps(t, "canceled", o.user, NoDevice))
          /\ NoLoop(UpdateOps(t, "canceled", o.user, NoDevice))
      BY <1>0, <2>2, <2>7, TidyUpdate DEF running, Statuses
    <3> QED
      BY <2>5, <2>6, <2>7, <3>1, TidyJoin
  <2> QED
    BY <1>6, <2>4, <2>5, <2>6, <2>7, NoOp DEF CancelNext, o
<1>7. CASE Crash(w)
  <2>1. todo' = [todo EXCEPT ![w] = <<Dead>>] /\ UNCHANGED stats
    BY <1>7 DEF Crash
  <2>2. todo'[w] = <<Dead>> /\ \A v \in Workers : v # w => todo'[v] = todo[v]
    BY <1>0, <2>1 DEF TypeOK
  <2>3. Dead \in Ops /\ Dead.op = "dead"
    BY DEF Ops, DeadOps, Dead
  <2>4. Tidy(<<Dead>>)
    BY <2>3, OneOp DEF StatKinds
  <2>5. ~Alive'
    BY <2>2, <2>3 DEF Alive, At
  <2> QED
    BY <2>2, <2>4, <2>5 DEF Restful
<1> QED
  BY <1>1, <1>2, <1>3, <1>4, <1>5, <1>6, <1>7 DEF Serve

\* When every request has run to its end, none cut short, the flags say exactly what is
\* listed, however the three updates of each completion were interleaved (user.py,
\* transaction.py).
THEOREM FlagsExact == Spec => []StatsAtRest
<1>1. Init => Restful
  BY DEF Init, Restful, Tidy, Lists
<1>2. IInv /\ Restful /\ [Next]_vars => Restful'
  <2> SUFFICES ASSUME IInv, Restful, [Next]_vars PROVE Restful'
    OBVIOUS
  <2>1. CASE UNCHANGED vars
    BY <2>1 DEF vars, stats, Restful, Alive, At
  <2> QED
    BY <2>1, RestReceive, RestServe DEF Next
<1>3. Restful /\ StatsHonest => StatsAtRest
  <2> SUFFICES ASSUME Restful, StatsHonest, AtRest, NEW u \in Users
               PROVE  /\ \A l \in Lists : has[u][l] <=> listed[u][l] # {}
                      /\ u \in activity_has <=> \E l \in Lists : has[u][l]
    BY DEF StatsAtRest
  <2>1. Alive
    BY DEF AtRest, Alive, At
  <2>2. \A w \in Workers : \A l : ~ClearsList(todo[w], u, l) /\ ~ClearsUser(todo[w], u)
    BY DEF AtRest, ClearsList, ClearsUser
  <2>3. /\ \A l \in Lists : has[u][l] /\ listed[u][l] = {} =>
             \E w \in Workers : ClearsList(todo[w], u, l)
        /\ u \in activity_has /\ (\A l \in Lists : ~has[u][l]) =>
             \E w \in Workers : ClearsUser(todo[w], u)
    BY <2>1 DEF Restful
  <2>4. /\ \A l \in Lists : ~has[u][l] => listed[u][l] = {}
        /\ u \notin activity_has => \A l \in Lists : ~has[u][l]
    BY DEF StatsHonest
  <2>5. \A l \in Lists : has[u][l] <=> listed[u][l] # {}
    BY <2>2, <2>3, <2>4, Zenon
  <2>6. u \in activity_has <=> \E l \in Lists : has[u][l]
    BY <2>2, <2>3, <2>4, Zenon
  <2> QED
    BY <2>5, <2>6
<1>4. TypeOK /\ Grounded <=> IInv
  BY DEF IInv
<1> QED
  BY <1>1, <1>2, <1>3, <1>4, TypeCorrect, FlagsHonest, PTL DEF Spec
-----------------------------------------------------------------------------
(***************************************************************************)
(* One process: what is left of the request in progress, as a set. Which   *)
(* operation may come behind which is all that the invariants below need   *)
(* to know of the order.                                                   *)
(***************************************************************************)
Items(ops) == {ops[i] : i \in DOMAIN ops}
Behind(w) == Items(Tail(todo[w]))
Left == UNION {Items(todo[w]) : w \in Workers}

\* The operation b may come behind a in a script.
Follows(a, b) ==
  /\ b.op # "put"
  /\ a.op = "put" => b.op \in {"notify", "push"}
  /\ a.op = "count" => b.op # "count"
  /\ a.op \in {"cancel", "cancel_find"} => b.op \in {"end_session", "remove_devices", "delete"}
  /\ a.op = "remove_devices" => b.op = "delete"
  /\ a.op \in {"take_over", "merge"} => b.op \in {"merge", "take_over"}
  /\ a.op \notin {"end_session", "delete"}

Chain(ops) == \A i, j \in DOMAIN ops : i < j => Follows(ops[i], ops[j])

\* Devices belong to their account, and only ghosts are merged, into other accounts.
Folk ==
  /\ \A u \in Users : devices[u] \subseteq {d \in Devices : owner[d] = u}
  /\ \A u \in Users : register_status[u] = "ghost" => u \in Ghosts
  /\ \A o \in Left : /\ o.op = "merge" => o.user \in Ghosts
                     /\ o.op = "take_over" => o.ghost \in Ghosts /\ o.user \in Users \ Ghosts

Laid == Folk /\ \A w \in Workers : Chain(todo[w])

\* The operations of no script and of a script of one.
LEMMA ItemsOne == Items(<< >>) = {} /\ \A o : Items(<<o>>) = {o}
<1>1. Items(<< >>) = {}
  BY DEF Items
<1>2. ASSUME NEW o PROVE Items(<<o>>) = {o}
  <2>1. DOMAIN <<o>> = {1} /\ <<o>>[1] = o
    OBVIOUS
  <2> QED
    BY <2>1 DEF Items
<1> QED
  BY <1>1, <1>2

\* The operations of two scripts, one behind the other.
LEMMA ItemsJoin ==
  ASSUME NEW a \in Seq(Ops), NEW b \in Seq(Ops)
  PROVE  Items(a \o b) = Items(a) \union Items(b)
<1> DEFINE c == a \o b
<1>1. /\ \A i \in DOMAIN a : i \in DOMAIN c /\ c[i] = a[i]
      /\ \A i \in DOMAIN b : i + Len(a) \in DOMAIN c /\ c[i + Len(a)] = b[i]
      /\ \A i \in DOMAIN c : \/ i \in DOMAIN a /\ c[i] = a[i]
                             \/ i - Len(a) \in DOMAIN b /\ c[i] = b[i - Len(a)]
  OBVIOUS
<1> HIDE DEF c
<1>2. Items(c) = Items(a) \union Items(b)
  BY <1>1 DEF Items
<1> QED
  BY <1>2 DEF c

\* The operations of a script are operations.
LEMMA ItemsIn == ASSUME NEW ops \in Seq(Ops) PROVE Items(ops) \subseteq Ops
  BY DEF Items

\* Two scripts joined are in order when whatever is in the second may follow the first.
LEMMA ChainJoin ==
  ASSUME NEW a \in Seq(Ops), NEW b \in Seq(Ops), Chain(a), Chain(b),
         \A x \in Items(a), y \in Items(b) : Follows(x, y)
  PROVE  Chain(a \o b)
<1> DEFINE c == a \o b
<1>1. \A i \in DOMAIN c : \/ i \in DOMAIN a /\ c[i] = a[i] /\ c[i] \in Items(a)
                          \/ i > Len(a) /\ i - Len(a) \in DOMAIN b /\ c[i] = b[i - Len(a)]
                             /\ c[i] \in Items(b)
  BY DEF Items
<1>2. /\ \A i \in DOMAIN a : i \in Nat /\ i <= Len(a)
      /\ \A i \in DOMAIN c : i \in Nat
      /\ Len(a) \in Nat
  OBVIOUS
<1> HIDE DEF c
<1>3. ASSUME NEW i \in DOMAIN c, NEW j \in DOMAIN c, i < j PROVE Follows(c[i], c[j])
  <2>1. CASE i \in DOMAIN a /\ c[i] = a[i] /\ j \in DOMAIN a /\ c[j] = a[j]
    BY <1>3, <2>1 DEF Chain
  <2>2. CASE c[i] \in Items(a) /\ c[j] \in Items(b)
    BY <2>2
  <2>3. CASE /\ i - Len(a) \in DOMAIN b /\ c[i] = b[i - Len(a)]
             /\ j - Len(a) \in DOMAIN b /\ c[j] = b[j - Len(a)]
    <3>1. i - Len(a) < j - Len(a)
      BY <1>2, <1>3
    <3> QED
      BY <2>3, <3>1 DEF Chain
  <2>4. CASE i > Len(a) /\ j \in DOMAIN a
    BY <1>2, <1>3, <2>4
  <2> QED
    BY <1>1, <2>1, <2>2, <2>3, <2>4
<1> QED
  BY <1>3 DEF Chain, c

\* A script of at most one operation is in order.
LEMMA ChainOne == Chain(<< >>) /\ \A o : Chain(<<o>>)
  BY DEF Chain

\* The one process that receives a request had nothing left to do.
LEMMA Idle ==
  ASSUME Serial, NEW w \in Workers, todo[w] = << >>
  PROVE  Left = {}
<1>1. {Items(todo[v]) : v \in Workers} = {Items(todo[w])}
  BY DEF Serial
<1> QED
  BY <1>1, ItemsOne DEF Left

\* What is behind the head.
LEMMA Served ==
  ASSUME IInv, SInv, Serial, Laid, NEW w \in Workers, todo[w] # << >>
  PROVE  /\ Left = {Head(todo[w])} \union Behind(w)
         /\ Left \subseteq Ops
         /\ \A b \in Behind(w) : Follows(Head(todo[w]), b)
         /\ Head(todo[w]).op \notin Steady => \A b \in Behind(w) : b.op \notin Writers
         /\ \A p, q \in Left : p.op \in Writers /\ q.op \in Writers => p = q
         /\ \A p \in Left : p.op \in Writers => Sound(p)
<1> DEFINE ops == todo[w]
           tail == Tail(todo[w])
<1>1. ops \in Seq(Ops) /\ Orderly(ops) /\ Chain(ops) /\ TypeOK
  BY DEF IInv, TypeOK, SInv, Laid
<1>2. /\ tail \in Seq(Ops)
      /\ \A i \in DOMAIN ops : i = 1 \/ (i - 1 \in DOMAIN tail /\ tail[i - 1] = ops[i])
      /\ \A i \in DOMAIN tail : i + 1 \in DOMAIN ops /\ tail[i] = ops[i + 1] /\ i \in Nat
      /\ 1 \in DOMAIN ops /\ ops[1] = Head(ops)
      /\ \A i \in DOMAIN ops : i \in Nat /\ i >= 1
      /\ \A i \in DOMAIN tail : i >= 1
  BY <1>1, Tails
<1>3. Left = Items(ops)
  <2>1. {Items(todo[v]) : v \in Workers} = {Items(todo[w])}
    BY DEF Serial
  <2> QED
    BY <2>1 DEF Left
<1>4. Head(ops).op \notin Steady => Quiet(tail)
  BY <1>1, QuietTail
<1> HIDE DEF ops, tail
<1>5. Items(ops) = {Head(ops)} \union Items(tail)
  BY <1>2 DEF Items
<1>6. \A b \in Items(tail) : Follows(Head(ops), b)
  <2> SUFFICES ASSUME NEW i \in DOMAIN tail PROVE Follows(Head(ops), tail[i])
    BY DEF Items
  <2>1. i + 1 \in DOMAIN ops /\ tail[i] = ops[i + 1] /\ 1 < i + 1
    BY <1>2
  <2> QED
    BY <1>1, <1>2, <2>1 DEF Chain
<1>7. Head(ops).op \notin Steady => \A b \in Items(tail) : b.op \notin Writers
  BY <1>4 DEF Items, Quiet
<1>8. /\ \A p, q \in Items(ops) : p.op \in Writers /\ q.op \in Writers => p = q
      /\ \A p \in Items(ops) : p.op \in Writers => Sound(p)
  BY <1>1 DEF Items, Orderly
<1>9. Items(ops) \subseteq Ops
  BY <1>1, ItemsIn
<1> QED
  BY <1>3, <1>5, <1>6, <1>7, <1>8, <1>9 DEF ops, tail, Behind

\* A request lays out what is left, a step replaces the head.
LEMMA LeftRequest ==
  ASSUME TypeOK, Serial, NEW w \in Workers, NEW call, NEW ops, Request(call, w, ops)
  PROVE  Left' = Items(ops) /\ Left = {} /\ todo'[w] = ops
<1>1. todo'[w] = ops /\ todo[w] = << >>
  BY DEF Request, TypeOK
<1>2. {Items(todo'[v]) : v \in Workers} = {Items(ops)}
  BY <1>1 DEF Serial
<1>3. Left' = UNION {Items(todo'[v]) : v \in Workers}
  BY DEF Left, Items
<1> QED
  BY <1>1, <1>2, <1>3, Idle

\* What is left once the head of the script made place for others.
LEMMA LeftContinue ==
  ASSUME TypeOK, Serial, NEW w \in Workers, todo[w] # << >>, NEW ops \in Seq(Ops), Continue(w, ops)
  PROVE  Left' = Items(ops) \union Behind(w) /\ todo'[w] = ops \o Tail(todo[w])
<1>1. todo'[w] = ops \o Tail(todo[w])
  BY DEF Continue, TypeOK
<1>2. {Items(todo'[v]) : v \in Workers} = {Items(ops \o Tail(todo[w]))}
  BY <1>1 DEF Serial
<1>3. Left' = UNION {Items(todo'[v]) : v \in Workers}
  BY DEF Left, Items
<1>4. Tail(todo[w]) \in Seq(Ops)
  BY HeadInOps
<1>5. Items(ops \o Tail(todo[w])) = Items(ops) \union Items(Tail(todo[w]))
  BY <1>4, ItemsJoin
<1>6. Left' = Items(ops \o Tail(todo[w]))
  BY <1>2, <1>3
<1> QED
  BY <1>1, <1>5, <1>6 DEF Behind

\* A request keeps the order when its script is one, a step when what it lays out goes
\* before what is left.
LEMMA ChainRequest ==
  ASSUME TypeOK, Serial, NEW w \in Workers, NEW call, NEW ops, Chain(ops), Request(call, w, ops)
  PROVE  \A v \in Workers : Chain(todo[v])'
<1>1. todo'[w] = ops
  BY DEF Request, TypeOK
<1> QED
  BY <1>1 DEF Serial, Chain

\* The script stays in order when what the head lays out may come before the rest.
LEMMA ChainContinue ==
  ASSUME TypeOK, Serial, NEW w \in Workers, todo[w] # << >>, NEW ops \in Seq(Ops), Continue(w, ops),
         Chain(todo[w]), Chain(ops), \A x \in Items(ops), y \in Behind(w) : Follows(x, y)
  PROVE  \A v \in Workers : Chain(todo[v])'
<1> DEFINE all == todo[w]
           tail == Tail(todo[w])
<1>1. todo'[w] = ops \o tail
  BY DEF Continue, TypeOK
<1>2. all \in Seq(Ops) /\ tail \in Seq(Ops)
  BY HeadInOps DEF TypeOK
<1>3. \A i \in DOMAIN tail : i + 1 \in DOMAIN all /\ tail[i] = all[i + 1] /\ i \in Nat
  BY <1>2, Tails
<1>4. Chain(tail)
  <2> HIDE DEF all, tail
  <2>1. Chain(all)
    BY DEF all
  <2> SUFFICES ASSUME NEW i \in DOMAIN tail, NEW j \in DOMAIN tail, i < j
               PROVE  Follows(tail[i], tail[j])
    BY DEF Chain
  <2>2. i + 1 < j + 1
    BY <1>3
  <2> QED
    BY <1>3, <2>1, <2>2 DEF Chain
<1>5. Chain(ops \o tail)
  BY <1>2, <1>4, ChainJoin DEF Behind
<1> QED
  BY <1>1, <1>5 DEF Serial, Chain
-----------------------------------------------------------------------------
(***************************************************************************)
(* The scripts, as sets.                                                   *)
(***************************************************************************)
LEMMA ItemsFew ==
  /\ \A a, b : Items(<<a, b>>) = {a, b} /\ (Follows(a, b) => Chain(<<a, b>>))
  /\ \A a, b, c : /\ Items(<<a, b, c>>) = {a, b, c}
                  /\ Follows(a, b) /\ Follows(a, c) /\ Follows(b, c) => Chain(<<a, b, c>>)
<1>1. ASSUME NEW a, NEW b PROVE Items(<<a, b>>) = {a, b} /\ (Follows(a, b) => Chain(<<a, b>>))
  <2> DEFINE s == <<a, b>>
  <2>1. DOMAIN s = {1, 2} /\ s[1] = a /\ s[2] = b
    OBVIOUS
  <2> HIDE DEF s
  <2>2. Items(s) = {a, b} /\ (Follows(a, b) => Chain(s))
    BY <2>1 DEF Items, Chain
  <2> QED
    BY <2>2 DEF s
<1>2. ASSUME NEW a, NEW b, NEW c
      PROVE  /\ Items(<<a, b, c>>) = {a, b, c}
             /\ Follows(a, b) /\ Follows(a, c) /\ Follows(b, c) => Chain(<<a, b, c>>)
  <2> DEFINE s == <<a, b, c>>
  <2>1. DOMAIN s = {1, 2, 3} /\ s[1] = a /\ s[2] = b /\ s[3] = c
    OBVIOUS
  <2> HIDE DEF s
  <2>2. Items(s) = {a, b, c} /\ (Follows(a, b) /\ Follows(a, c) /\ Follows(b, c) => Chain(s))
    BY <2>1 DEF Items, Chain
  <2> QED
    BY <2>2 DEF s
<1> QED
  BY <1>1, <1>2

\* A script in two parts.
LEMMA Spliced ==
  ASSUME NEW a, NEW b, a \in Seq(Ops), b \in Seq(Ops), Chain(a), Chain(b),
         \A x \in Items(a), y \in Items(b) : Follows(x, y)
  PROVE  /\ a \o b \in Seq(Ops) /\ Chain(a \o b)
         /\ Items(a \o b) = Items(a) \union Items(b)
<1>1. a \o b \in Seq(Ops)
  OBVIOUS
<1> QED
  BY <1>1, ItemsJoin, ChainJoin

\* One operation, as a script.
LEMMA Single ==
  ASSUME NEW o \in Ops
  PROVE  <<o>> \in Seq(Ops) /\ Chain(<<o>>) /\ Items(<<o>>) = {o}
  BY ItemsOne, ChainOne

\* The empty script.
LEMMA Empty == << >> \in Seq(Ops) /\ Chain(<< >>) /\ Items(<< >>) = {}
  BY ItemsOne, ChainOne

Told(t, r) == [op |-> "notify", t |-> t, status |-> "initialized", users |-> {r}]

\* What the creation of a transaction lays out, and that it is in order.
LEMMA CreateItems ==
  ASSUME TypeOK, NEW t \in Transactions, NEW s \in {"created", "initialized"},
         NEW d \in Devices, NEW r \in Users, NEW rd \in Devices \union {NoDevice}
  PROVE  /\ CreateOps(t, s, d, r, rd) \in Seq(Ops) /\ Chain(CreateOps(t, s, d, r, rd))
         /\ Inserted(t, s, d, r, rd) \in Items(CreateOps(t, s, d, r, rd))
         /\ s = "initialized" => Told(t, r) \in Items(CreateOps(t, s, d, r, rd))
         /\ \A x \in Items(CreateOps(t, s, d, r, rd)) :
              \/ x = Inserted(t, s, d, r, rd)
              \/ s = "initialized" /\ x = Told(t, r)
              \/ x = Push(owner[d], t, "pending")
              \/ x = Push(r, t, "unaccepted")
<1> DEFINE ops == CreateOps(t, s, d, r, rd)
           put == Inserted(t, s, d, r, rd)
           note == [op |-> "notify", t |-> t, status |-> s, users |-> {r}]
           a == IF s = "initialized" THEN <<note>> ELSE << >>
           b == IF register_status[r] = "ghost" THEN << >> ELSE <<Push(r, t, "unaccepted")>>
           p == Push(owner[d], t, "pending")
<1>1. owner[d] \in Users
  BY UsersAssumption
<1>2. put \in Ops /\ put.op = "put"
  <2>1. put \in PutOps
    BY <1>1 DEF Inserted, PutOps
  <2> QED
    BY <2>1 DEF Ops, Inserted
<1>3. note \in Ops /\ note.op = "notify"
  BY DEF Ops, NotifyOps, Statuses
<1>4. \A u \in Users, l \in Lists : Push(u, t, l) \in Ops /\ Push(u, t, l).op = "push"
  BY DEF Push, Ops, StatOps
<1>5. p \in Ops /\ p.op = "push" /\ Push(r, t, "unaccepted") \in Ops
      /\ Push(r, t, "unaccepted").op = "push"
  BY <1>1, <1>4 DEF Lists
<1>6. ops = ((<<put>> \o a) \o <<p>>) \o b
  BY DEF CreateOps, Inserted
<1> DEFINE q == Push(r, t, "unaccepted")
<1>10. q.op = "push" /\ q \in Ops /\ (s = "initialized" => note = Told(t, r))
  BY <1>5 DEF Told
<1>16. b = IF register_status[r] = "ghost" THEN << >> ELSE <<q>>
  OBVIOUS
<1> HIDE DEF put, note, p, q, ops
<1>7. /\ a \in Seq(Ops) /\ Chain(a) /\ Items(a) \subseteq {note}
      /\ s = "initialized" => note \in Items(a)
      /\ s # "initialized" => Items(a) = {}
  <2>1. CASE s = "initialized"
    <3>1. a = <<note>>
      BY <2>1
    <3> QED
      BY <1>3, <2>1, <3>1, Single
  <2>2. CASE s # "initialized"
    <3>1. a = << >>
      BY <2>2
    <3> QED
      BY <2>2, <3>1, Empty
  <2> QED
    BY <2>1, <2>2
<1> HIDE DEF a, b
<1>8. b \in Seq(Ops) /\ Chain(b) /\ Items(b) \subseteq {q}
  <2>1. CASE b = << >>
    BY <2>1, Empty
  <2>2. CASE b = <<q>>
    BY <1>10, <2>2, Single
  <2> QED
    BY <1>16, <2>1, <2>2
<1> DEFINE puts == <<put>>
           pushes == <<p>>
<1>9. /\ puts \in Seq(Ops) /\ Chain(puts) /\ Items(puts) = {put}
      /\ pushes \in Seq(Ops) /\ Chain(pushes) /\ Items(pushes) = {p}
  BY <1>2, <1>5, Single
<1>17. ops = ((puts \o a) \o pushes) \o b
  BY <1>6
<1> HIDE DEF puts, pushes
<1> DEFINE x == puts \o a
           y == x \o pushes
<1>11. x \in Seq(Ops) /\ Chain(x) /\ Items(x) = {put} \union Items(a)
  <2>1. \A m \in Items(puts), n \in Items(a) : Follows(m, n)
    BY <1>2, <1>3, <1>7, <1>9 DEF Follows
  <2> QED
    BY <1>7, <1>9, <2>1, Spliced
<1>18. ops = (x \o pushes) \o b
  BY <1>17
<1> HIDE DEF x
<1>12. y \in Seq(Ops) /\ Chain(y) /\ Items(y) = {put} \union Items(a) \union {p}
  <2>1. \A m \in Items(x), n \in Items(pushes) : Follows(m, n)
    BY <1>2, <1>3, <1>5, <1>7, <1>9, <1>11 DEF Follows
  <2> QED
    BY <1>9, <1>11, <2>1, Spliced
<1>19. ops = y \o b
  BY <1>18
<1> HIDE DEF y
<1>13. ops \in Seq(Ops) /\ Chain(ops) /\ Items(ops) = ({put} \union Items(a) \union {p}) \union Items(b)
  <2>1. \A m \in Items(y), n \in Items(b) : Follows(m, n)
    BY <1>2, <1>3, <1>5, <1>7, <1>8, <1>10, <1>12 DEF Follows
  <2> QED
    BY <1>8, <1>12, <1>19, <2>1, Spliced
<1>14. put \in Items(ops) /\ (s = "initialized" => Told(t, r) \in Items(ops))
  BY <1>7, <1>10, <1>13
<1>15. \A e \in Items(ops) :
         \/ e = put
         \/ s = "initialized" /\ e = Told(t, r)
         \/ e = p
         \/ e = q
  BY <1>7, <1>8, <1>10, <1>13
<1>20. ops \in Seq(Ops) /\ Chain(ops)
  BY <1>13
<1> QED
  BY <1>14, <1>15, <1>20 DEF ops, put, p, q

Pull(u, t) == [op |-> "pull", user |-> u, list |-> "pending", t |-> t]

\* What the updates of a completion are, and what an update of a transaction lays out
\* besides.
Completes(x, t) == x.op \in {"pull", "clear_has", "clear_activity"} /\ x.t = t

\* What the completion of a transaction lays out, and that it is in order.
LEMMA CompleteItems ==
  ASSUME NEW u \in Users, NEW t \in Transactions, NEW l \in Lists
  PROVE  /\ Complete(u, t, l) \in Seq(Ops) /\ Chain(Complete(u, t, l))
         /\ \A x \in Items(Complete(u, t, l)) : Completes(x, t)
         /\ l = "pending" => Pull(u, t) \in Items(Complete(u, t, l))
<1> DEFINE stat(op) == [op |-> op, user |-> u, list |-> l, t |-> t]
           a == stat("pull")
           b == stat("clear_has")
           c == stat("clear_activity")
<1>1. Complete(u, t, l) = <<a, b, c>> /\ Complete(u, t, l) \in Seq(Ops)
  BY CompleteType DEF Complete
<1>2. a.op = "pull" /\ b.op = "clear_has" /\ c.op = "clear_activity" /\ a.t = t /\ b.t = t /\ c.t = t
      /\ (l = "pending" => a = Pull(u, t))
  BY DEF Pull
<1> HIDE DEF a, b, c
<1>3. Items(<<a, b, c>>) = {a, b, c}
  BY ItemsFew
<1>4. Follows(a, b) /\ Follows(a, c) /\ Follows(b, c)
  BY <1>2 DEF Follows
<1>5. Chain(<<a, b, c>>)
  BY <1>4, ItemsFew
<1>6. \A x \in {a, b, c} : Completes(x, t)
  BY <1>2 DEF Completes
<1> QED
  BY <1>1, <1>2, <1>3, <1>5, <1>6

\* The statistics an update lays out before its write.
Counted(x, t, s, u) == \/ Completes(x, t)
                       \/ s = "accepted" /\ x = Push(u, t, "pending")
                       \/ s = "finished" /\ x = [op |-> "count", t |-> t]

\* What an update of a transaction lays out, and that it is in order.
LEMMA UpdateItems ==
  ASSUME TypeOK, NEW t \in Transactions, exists(t), NEW s \in Statuses,
         NEW u \in Users, NEW d \in Devices \union {NoDevice}
  PROVE  /\ UpdateOps(t, s, u, d) \in Seq(Ops) /\ Chain(UpdateOps(t, s, u, d))
         /\ Updated(t, s, d) \in Items(UpdateOps(t, s, u, d))
         /\ s \in final => \A v \in {tx[t].sender, tx[t].recipient} :
                             Pull(v, t) \in Items(UpdateOps(t, s, u, d))
         /\ \A x \in Items(UpdateOps(t, s, u, d)) :
              x = Updated(t, s, d) \/ Counted(x, t, s, u)
<1> DEFINE ops == UpdateOps(t, s, u, d)
           count == [op |-> "count", t |-> t]
           push == Push(u, t, "pending")
           up == Updated(t, s, d)
           h == Hook(t, s, u)
           c == Completions(t, s)
           Mild(a) == a \in Seq(Ops) /\ Chain(a) /\ \A x \in Items(a) : Completes(x, t)
<1>1. "pending" \in Lists /\ "unaccepted" \in Lists
      /\ tx[t].sender \in Users /\ tx[t].recipient \in Users
  BY DEF Lists, TypeOK
<1>2. \A v \in Users, l \in Lists : Mild(Complete(v, t, l))
  BY CompleteItems
<1>3. \A v \in Users : Pull(v, t) \in Items(Complete(v, t, "pending"))
  BY <1>1, CompleteItems
<1>4. ASSUME NEW a, NEW b, Mild(a), Mild(b)
      PROVE  Mild(a \o b) /\ Items(a \o b) = Items(a) \union Items(b)
  <2>1. \A x \in Items(a), y \in Items(b) : Follows(x, y)
    BY <1>4 DEF Follows, Completes
  <2>2. a \o b \in Seq(Ops) /\ Chain(a \o b) /\ Items(a \o b) = Items(a) \union Items(b)
    BY <1>4, <2>1, Spliced
  <2> QED
    BY <1>4, <2>2
<1>5. push \in Ops /\ push.op = "push" /\ count \in Ops /\ count.op = "count"
  BY <1>1 DEF Push, Ops, StatOps, CountOps
<1>6. Mild(<< >>)
  BY Empty
<1>7. up \in Ops /\ up.op = "write"
  <2>1. NewStatus(t, s) \in Statuses
    BY DEF NewStatus, Statuses
  <2>2. (s = "ghost_uploaded" /\ tx[t].is_ghost) \in BOOLEAN
    OBVIOUS
  <2>3. (IF s \in {"accepted", "rejected"} THEN d ELSE NoDevice) \in Devices \union {NoDevice}
    OBVIOUS
  <2>4. Updated(t, s, d) \in WriteOps
    BY <2>1, <2>2, <2>3 DEF WriteOps, Updated
  <2> QED
    BY <2>4 DEF Ops, Updated
<1> HIDE DEF count, push, up, h, c, Mild
<1>8. /\ h \in Seq(Ops) /\ Chain(h)
      /\ \A x \in Items(h) : Counted(x, t, s, u)
      /\ \A x \in Items(h) : x.op # "put" /\ x.op \in Steady
  <2>1. CASE s = "accepted"
    <3> DEFINE b == Complete(u, t, "unaccepted")
           a == <<push>>
    <3>1. h = a \o b
      BY <2>1 DEF h, Hook, push
    <3>2. Mild(b)
      BY <1>1, <1>2
    <3>3. /\ a \in Seq(Ops) /\ Chain(a) /\ Items(a) = {push}
          /\ b \in Seq(Ops) /\ Chain(b) /\ \A y \in Items(b) : Completes(y, t)
      BY <1>5, <3>2, Single DEF Mild
    <3> HIDE DEF a, b
    <3>4. \A x \in Items(a), y \in Items(b) : Follows(x, y)
      BY <1>5, <3>3 DEF Follows, Completes
    <3>5. h \in Seq(Ops) /\ Chain(h) /\ Items(h) = {push} \union Items(b)
      BY <3>1, <3>3, <3>4, Spliced
    <3> QED
      BY <1>5, <2>1, <3>3, <3>5 DEF Counted, Completes, push, Steady
  <2>2. CASE s \in {"rejected", "canceled", "failed"}
    <3>1. h = Complete(u, t, "unaccepted")
      BY <2>2 DEF h, Hook
    <3> QED
      BY <1>1, <1>2, <3>1 DEF Counted, Completes, Mild, Steady
  <2>3. CASE s = "finished"
    <3>1. h = <<count>>
      BY <2>3 DEF h, Hook, count
    <3> QED
      BY <1>5, <2>3, <3>1, Single DEF Counted, count, Steady
  <2>4. CASE s \notin {"accepted", "rejected", "canceled", "failed", "finished"}
    <3>1. h = << >>
      BY <2>4 DEF h, Hook
    <3> QED
      BY <3>1, Empty
  <2> QED
    BY <2>1, <2>2, <2>3, <2>4
<1>9. /\ Mild(c)
      /\ s \in final => \A v \in {tx[t].sender, tx[t].recipient} : Pull(v, t) \in Items(c)
  <2>1. CASE s \in final
    <3>1. c = Complete(tx[t].recipient, t, "pending") \o Complete(tx[t].sender, t, "pending")
      BY <2>1 DEF Completions, final, c
    <3> QED
      BY <1>1, <1>2, <1>3, <1>4, <3>1
  <2>2. CASE s \in {"ghost_uploaded", "cloud_buffered"}
    BY <2>2, <1>1, <1>2 DEF Completions, final, c
  <2>3. CASE s \notin final \union {"ghost_uploaded", "cloud_buffered"}
    BY <2>3, <1>6 DEF Completions, c
  <2> QED
    BY <2>1, <2>2, <2>3
<1> DEFINE hc == h \o c
<1>10. hc \in Seq(Ops) /\ Chain(hc) /\ Items(hc) = Items(h) \union Items(c)
  <2>1. c \in Seq(Ops) /\ Chain(c) /\ \A x \in Items(c) : Completes(x, t)
    BY <1>9 DEF Mild
  <2>2. \A x \in Items(h), y \in Items(c) : Follows(x, y)
    BY <1>8, <2>1 DEF Follows, Completes, Steady
  <2> QED
    BY <1>8, <2>1, <2>2, Spliced
<1>11. \A x \in Items(hc) : Counted(x, t, s, u) /\ x.op \in Steady
  BY <1>8, <1>9, <1>10 DEF Counted, Completes, Steady, Mild
<1> DEFINE ups == <<up>>
<1>12. ops = hc \o ups
  BY DEF UpdateOps, Updated, h, c, up
<1>16. ups \in Seq(Ops) /\ Chain(ups) /\ Items(ups) = {up}
  BY <1>7, Single
<1> HIDE DEF ops, hc, ups
<1>13. ops \in Seq(Ops) /\ Chain(ops) /\ Items(ops) = Items(hc) \union {up}
  <2>1. \A x \in Items(hc), y \in Items(ups) : Follows(x, y)
    BY <1>7, <1>11, <1>16 DEF Follows, Steady
  <2> QED
    BY <1>10, <1>12, <1>16, <2>1, Spliced
<1>14. \A x \in Items(ops) : x = up \/ Counted(x, t, s, u)
  BY <1>11, <1>13
<1>15. up \in Items(ops)
       /\ (s \in final => \A v \in {tx[t].sender, tx[t].recipient} : Pull(v, t) \in Items(ops))
  BY <1>9, <1>10, <1>13
<1> QED
  BY <1>13, <1>14, <1>15 DEF ops, up

\* Devices and ghosts only go, and what is laid out about ghosts is about ghosts.
LEMMA LaidStep ==
  ASSUME Laid,
         (\A v \in Workers : Chain(todo[v]))',
         \A u \in Users : /\ devices'[u] \subseteq devices[u]
                          /\ register_status'[u] = "ghost" => register_status[u] = "ghost",
         \A o \in Left' : \/ o \in Left
                          \/ /\ o.op = "merge" => o.user \in Ghosts
                             /\ o.op = "take_over" => o.ghost \in Ghosts /\ o.user \in Users \ Ghosts
  PROVE  Laid'
<1>1. Folk'
  BY DEF Laid, Folk
<1> QED
  BY <1>1 DEF Laid

\* What a request may lay out for it to stay laid.
LEMMA LaidRequest ==
  ASSUME IInv, Laid, Serial, NEW w \in Workers, NEW call, NEW ops, Chain(ops),
         Request(call, w, ops), UNCHANGED <<devices, register_status>>,
         \A o \in Items(ops) :
           /\ o.op = "merge" => o.user \in Ghosts
           /\ o.op = "take_over" => o.ghost \in Ghosts /\ o.user \in Users \ Ghosts
  PROVE  Laid'
<1>1. TypeOK
  BY DEF IInv
<1>2. (\A v \in Workers : Chain(todo[v]))' /\ Left' = Items(ops)
  BY <1>1, ChainRequest, LeftRequest
<1> QED
  BY <1>2, LaidStep

\* A request received lays out what may be laid out.
LEMMA LaidReceive == ASSUME IInv, Laid, Serial, NEW w \in Workers, Receive(w) PROVE Laid'
<1>0. TypeOK /\ \A t \in linked : exists(t)
  BY DEF IInv, Grounded
<1>1. ASSUME NEW t \in Transactions, Download(w, t) PROVE Laid'
  <2> DEFINE note == Notify(t, tx[t])
             count == [op |-> "count", t |-> t]
             ops == IF tx[t].status = "finished" THEN << >> ELSE <<count, note>>
  <2>1. Request("download", w, ops) /\ UNCHANGED <<devices, register_status>>
    BY <1>1 DEF Download, accounts
  <2>2. note.op = "notify" /\ count.op = "count"
    BY DEF Notify
  <2> HIDE DEF note, count
  <2>3. Items(ops) \subseteq {count, note} /\ Chain(ops)
    <3>1. Follows(count, note)
      BY <2>2 DEF Follows
    <3> QED
      BY <3>1, ItemsFew, Empty
  <2> HIDE DEF ops
  <2> QED
    BY <2>1, <2>2, <2>3, LaidRequest
<1>2. ASSUME NEW d \in Devices, NEW t \in Transactions, NEW r \in Users,
             NEW s \in {"created", "initialized"}, NEW rd \in Devices \union {NoDevice}, NEW call,
             Request(call, w, CreateOps(t, s, d, r, rd)), UNCHANGED accounts
      PROVE  Laid'
  <2> DEFINE ops == CreateOps(t, s, d, r, rd)
  <2>1. /\ Chain(ops)
        /\ \A x \in Items(ops) : x.op \in {"put", "notify", "push"}
    <3>1. /\ Chain(ops)
          /\ \A x \in Items(ops) : \/ x = Inserted(t, s, d, r, rd) \/ x = Told(t, r)
                                  \/ x = Push(owner[d], t, "pending")
                                  \/ x = Push(r, t, "unaccepted")
      BY <1>0, CreateItems
    <3>2. /\ Inserted(t, s, d, r, rd).op = "put" /\ Told(t, r).op = "notify"
          /\ Push(owner[d], t, "pending").op = "push" /\ Push(r, t, "unaccepted").op = "push"
      BY DEF Inserted, Told, Push
    <3> QED
      BY <3>1, <3>2
  <2>2. Request(call, w, ops) /\ UNCHANGED <<devices, register_status>>
    BY <1>2 DEF accounts
  <2> HIDE DEF ops
  <2> QED
    BY <2>1, <2>2, LaidRequest
<1>3. ASSUME NEW d \in Devices, NEW t \in Transactions, CreateEmpty(w, d, t) PROVE Laid'
  <2>1. Request("create_empty", w, << >>)
    BY <1>3 DEF CreateEmpty
  <2>2. UNCHANGED <<devices, register_status>>
    BY <1>3 DEF CreateEmpty, accounts
  <2> QED
    BY <2>1, <2>2, Empty, LaidRequest
<1>4. ASSUME NEW o, NEW call, Request(call, w, <<o>>), UNCHANGED <<devices, register_status>>,
             o.op \in {"put", "pause", "cancel_find"}
      PROVE  Laid'
  <2>1. Chain(<<o>>) /\ Items(<<o>>) = {o}
    BY ChainOne, ItemsOne
  <2> DEFINE ops == <<o>>
  <2>2. Request(call, w, ops) /\ Chain(ops) /\ Items(ops) = {o}
    BY <1>4, <2>1
  <2> HIDE DEF ops
  <2> QED
    BY <1>4, <2>2, LaidRequest
<1>5. ASSUME NEW d \in Devices, NEW t \in Transactions, NEW s \in Asked, Update(w, d, t, s)
      PROVE  Laid'
  <2> DEFINE u == owner[d]
             ops == IF s = "rejected" /\ d \notin devices[u]
                      THEN Complete(u, t, "unaccepted") ELSE UpdateOps(t, s, u, d)
  <2>1. Request("update", w, ops) /\ UNCHANGED <<devices, register_status>> /\ exists(t)
    BY <1>5 DEF Update, accounts
  <2>2. u \in Users /\ s \in Statuses /\ "unaccepted" \in Lists
    BY UsersAssumption DEF Lists
  <2> HIDE DEF u
  <2>3. Chain(ops) /\ \A x \in Items(ops) : x.op \notin {"merge", "take_over"}
    <3>1. CASE s = "rejected" /\ d \notin devices[u]
      BY <2>2, <3>1, CompleteItems DEF Completes
    <3>2. CASE ~(s = "rejected" /\ d \notin devices[u])
      <4>1. ops = UpdateOps(t, s, u, d)
        BY <3>2
      <4>2. \A x \in Items(UpdateOps(t, s, u, d)) : x = Updated(t, s, d) \/ Counted(x, t, s, u)
        BY <1>0, <2>1, <2>2, UpdateItems
      <4>3. Chain(UpdateOps(t, s, u, d))
        BY <1>0, <2>1, <2>2, UpdateItems
      <4>4. \A x : x = Updated(t, s, d) \/ Counted(x, t, s, u) => x.op \notin {"merge", "take_over"}
        BY DEF Updated, Counted, Completes, Push
      <4> QED
        BY <4>1, <4>2, <4>3, <4>4
    <3> QED
      BY <3>1, <3>2
  <2> HIDE DEF ops
  <2> QED
    BY <2>1, <2>3, LaidRequest
<1>6. ASSUME NEW d \in Devices, NEW e \in Devices, DeleteDevice(w, d, e) PROVE Laid'
  <2> DEFINE find == CancelFind(owner[d], e)
             end == [op |-> "end_session", device |-> e]
             ops == <<find, end>>
  <2>1. find.op = "cancel_find" /\ end.op = "end_session"
    BY DEF CancelFind
  <2>2. /\ Request("delete_device", w, ops)
        /\ devices' = [devices EXCEPT ![owner[d]] = @ \ {e}] /\ UNCHANGED register_status
    BY <1>6 DEF DeleteDevice
  <2> HIDE DEF find, end
  <2>3. Chain(ops) /\ Items(ops) = {find, end}
    <3>1. Follows(find, end)
      BY <2>1 DEF Follows
    <3> QED
      BY <3>1, ItemsFew
  <2> HIDE DEF ops
  <2>4. (\A v \in Workers : Chain(todo[v]))' /\ Left' = Items(ops)
    BY <1>0, <2>2, <2>3, ChainRequest, LeftRequest
  <2>5. \A u \in Users : devices'[u] \subseteq devices[u]
    BY <1>0, <2>2 DEF TypeOK
  <2> QED
    BY <2>1, <2>2, <2>3, <2>4, <2>5, LaidStep
<1>7. ASSUME NEW d \in Devices, DeleteUser(w, d) PROVE Laid'
  <2> DEFINE find == CancelFind(owner[d], NoDevice)
             remove == [op |-> "remove_devices", user |-> owner[d]]
             delete == [op |-> "delete", user |-> owner[d]]
             ops == <<find, remove, delete>>
  <2>1. find.op = "cancel_find" /\ remove.op = "remove_devices" /\ delete.op = "delete"
    BY DEF CancelFind
  <2>2. Request("delete_user", w, ops) /\ UNCHANGED <<devices, register_status>>
    BY <1>7 DEF DeleteUser, LeaveOps
  <2> HIDE DEF find, remove, delete
  <2>3. Chain(ops) /\ Items(ops) = {find, remove, delete}
    <3>1. Follows(find, remove) /\ Follows(find, delete) /\ Follows(remove, delete)
      BY <2>1 DEF Follows
    <3> QED
      BY <3>1, ItemsFew
  <2> HIDE DEF ops
  <2> QED
    BY <2>1, <2>2, <2>3, LaidRequest
<1>8. ASSUME NEW d \in Devices, NEW g \in Users, MergeGhost(w, d, g) PROVE Laid'
  <2> DEFINE take == [op |-> "take_over", ghost |-> g, user |-> owner[d]]
             merge == [op |-> "merge", user |-> g]
             ops == <<take, merge, take>>
  <2>1. take.op = "take_over" /\ merge.op = "merge" /\ take.ghost = g /\ take.user = owner[d]
        /\ merge.user = g
    OBVIOUS
  <2>2. Request("merge_ghost", w, ops) /\ UNCHANGED <<devices, register_status>>
        /\ register_status[g] = "ghost"
    BY <1>8 DEF MergeGhost, accounts
  <2> HIDE DEF take, merge
  <2>3. Chain(ops) /\ Items(ops) = {take, merge}
    <3>1. Follows(take, merge) /\ Follows(merge, take) /\ Follows(take, take)
      BY <2>1 DEF Follows
    <3> QED
      BY <3>1, ItemsFew
  <2> HIDE DEF ops
  <2>4. g \in Ghosts /\ owner[d] \in Users \ Ghosts
    BY <2>2, UsersAssumption DEF Laid, Folk
  <2> QED
    BY <2>1, <2>2, <2>3, <2>4, LaidRequest
<1>9. ASSUME NEW d \in Devices, NEW t \in Transactions, NEW r \in Users, Bare(w, d, t, r)
      PROVE  Laid'
  BY <1>4, <1>9 DEF Bare, accounts
<1>10. ASSUME NEW d \in Devices, NEW t \in Transactions, NEW p \in BOOLEAN, Pause(w, d, t, p)
       PROVE  Laid'
  BY <1>4, <1>10 DEF Pause, accounts
<1>11. ASSUME NEW d \in Devices, ChangePassword(w, d) PROVE Laid'
  BY <1>4, <1>11 DEF ChangePassword, LeaveOps, CancelFind
<1>12. ASSUME NEW d \in Devices, NEW t \in Transactions, NEW r \in Users, Create(w, d, t, r)
       PROVE  Laid'
  BY <1>2, <1>12 DEF Create
<1>13. ASSUME NEW d \in Devices, NEW t \in Transactions, NEW r \in Users,
              NEW rd \in Devices \union {NoDevice}, Fill(w, d, t, r, rd)
       PROVE  Laid'
  BY <1>2, <1>13 DEF Fill
<1>14. ASSUME NEW d \in Devices, Login(w, d) PROVE Laid'
  <2>1. Request("login", w, << >>)
    BY <1>14 DEF Login
  <2>2. UNCHANGED <<devices, register_status>>
    BY <1>14 DEF Login
  <2> QED
    BY <2>1, <2>2, Empty, LaidRequest
<1> QED
  BY <1>1, <1>3, <1>5, <1>6, <1>7, <1>8, <1>9, <1>10, <1>11, <1>12, <1>13, <1>14, ZenonT(60)
  DEF Receive

\* What a step leaves, when what it lays out may come before what it was to do.
LEMMA Onward ==
  ASSUME IInv, SInv, Laid, Serial, NEW w \in Workers, todo[w] # << >>, NEW ops \in Seq(Ops),
         Continue(w, ops), Chain(ops), \A x \in Items(ops), y \in Behind(w) : Follows(x, y)
  PROVE  Left' = Items(ops) \union Behind(w) /\ (\A v \in Workers : Chain(todo[v]))'
<1>1. TypeOK /\ Chain(todo[w])
  BY DEF IInv, Laid
<1>2. Left' = Items(ops) \union Behind(w)
  BY <1>1, LeftContinue
<1>3. (\A v \in Workers : Chain(todo[v]))'
  BY <1>1, ChainContinue
<1> QED
  BY <1>2, <1>3

\* What is left when the head lays nothing out.
LEMMA Shorter ==
  ASSUME IInv, SInv, Laid, Serial, NEW w \in Workers, todo[w] # << >>, Continue(w, << >>)
  PROVE  Left' = Behind(w) /\ (\A v \in Workers : Chain(todo[v]))'
<1>1. \A x \in Items(<< >>), y \in Behind(w) : Follows(x, y)
  BY Empty
<1> QED
  BY <1>1, Empty, Onward

\* What is left when the head lays a notification out.
LEMMA Noticed ==
  ASSUME IInv, SInv, Laid, Serial, NEW w \in Workers, todo[w] # << >>,
         NEW note \in Ops, note.op = "notify", Continue(w, <<note>>)
  PROVE  Left' = {note} \union Behind(w) /\ (\A v \in Workers : Chain(todo[v]))'
<1>1. \A b \in Behind(w) : Follows(Head(todo[w]), b)
  BY Served
<1> DEFINE ops == <<note>>
<1>2. ops \in Seq(Ops) /\ Chain(ops) /\ Items(ops) = {note} /\ Continue(w, ops)
  BY Single
<1> HIDE DEF ops
<1>3. \A x \in Items(ops), y \in Behind(w) : Follows(x, y)
  BY <1>1, <1>2 DEF Follows
<1> QED
  BY <1>2, <1>3, Onward

\* The document a write leaves.
Written(o) == [tx[o.t] EXCEPT !.status = o.status,
                              !.recipient_device = IF o.device = NoDevice THEN @ ELSE o.device]

\* What is left after a status is written.
LEMMA WriteItems ==
  ASSUME IInv, SInv, Laid, Serial, NEW w \in Workers, Write(w)
  PROVE  LET o == Head(todo[w]) IN
         /\ todo[w] # << >> /\ o \in WriteOps /\ o.op = "write" /\ exists(o.t)
         /\ tx' = [tx EXCEPT ![o.t] = Written(o)] /\ tx[o.t] \in Documents
         /\ linked' = IF o.link THEN linked \union {o.t} ELSE linked
         /\ Left' = {Notify(o.t, Written(o))} \union Behind(w)
         /\ Notify(o.t, Written(o)).op = "notify"
         /\ (\A v \in Workers : Chain(todo[v]))'
<1> DEFINE o == Head(todo[w])
<1>1. TypeOK /\ todo[w] # << >> /\ o.op = "write"
  BY DEF IInv, Write, At
<1>2. o \in Ops /\ o \in WriteOps
  BY <1>1, HeadInOps, OpKinds
<1>3. exists(o.t)
  <2>1. 1 \in DOMAIN todo[w] /\ todo[w][1] = o
    BY <1>1 DEF TypeOK
  <2> QED
    BY <1>1, <2>1 DEF IInv, Grounded
<1>4. /\ tx' = [tx EXCEPT ![o.t] = Written(o)]
      /\ linked' = IF o.link THEN linked \union {o.t} ELSE linked
      /\ Continue(w, <<Notify(o.t, Written(o))>>)
  BY DEF Write, Written
<1>5. o.t \in Transactions /\ o.status \in Statuses
  BY <1>2 DEF WriteOps
<1> HIDE DEF o
<1>6. /\ Written(o).status \in Statuses /\ Written(o).sender \in Users
      /\ Written(o).recipient \in Users /\ tx[o.t] \in Documents
  <2>1. tx[o.t] \in Documents /\ tx[o.t].sender \in Users /\ tx[o.t].recipient \in Users
    BY <1>1, <1>3, <1>5 DEF TypeOK
  <2> QED
    BY <1>5, <2>1 DEF Documents, Written
<1>7. Notify(o.t, Written(o)) \in Ops /\ Notify(o.t, Written(o)).op = "notify"
  BY <1>5, <1>6, NotifyType DEF Notify
<1>8. /\ Left' = {Notify(o.t, Written(o))} \union Behind(w)
      /\ (\A v \in Workers : Chain(todo[v]))'
  BY <1>1, <1>4, <1>7, Noticed
<1> QED
  BY <1>1, <1>2, <1>3, <1>4, <1>6, <1>7, <1>8 DEF o

\* What is left after a pause is written.
LEMMA PauseItems ==
  ASSUME IInv, SInv, Laid, Serial, NEW w \in Workers, WritePaused(w)
  PROVE  LET o == Head(todo[w]) IN
         /\ todo[w] # << >> /\ o.op = "pause" /\ o.t \in Transactions /\ exists(o.t)
         /\ Left' = {Notify(o.t, tx[o.t])} \union Behind(w)
         /\ (\A v \in Workers : Chain(todo[v]))'
<1> DEFINE o == Head(todo[w])
<1>1. TypeOK /\ todo[w] # << >> /\ o.op = "pause" /\ Continue(w, <<Notify(o.t, tx[o.t])>>)
  BY DEF IInv, WritePaused, At
<1>2. o \in PauseOps
  BY <1>1, HeadInOps, OpKinds
<1>3. exists(o.t)
  <2>1. 1 \in DOMAIN todo[w] /\ todo[w][1] = o
    BY <1>1 DEF TypeOK
  <2> QED
    BY <1>1, <2>1 DEF IInv, Grounded
<1>4. o.t \in Transactions
  BY <1>2 DEF PauseOps
<1> HIDE DEF o
<1>5. Notify(o.t, tx[o.t]) \in Ops /\ Notify(o.t, tx[o.t]).op = "notify"
  BY <1>1, <1>3, <1>4, NotifyType DEF TypeOK, Notify, exists
<1>6. /\ Left' = {Notify(o.t, tx[o.t])} \union Behind(w)
      /\ (\A v \in Workers : Chain(todo[v]))'
  BY <1>1, <1>5, Noticed
<1> QED
  BY <1>1, <1>3, <1>4, <1>6 DEF o

Taken(o, t) == [tx[t] EXCEPT !.recipient = o.user]

\* What is left after a transaction is handed to another user.
LEMMA TakeOverItems ==
  ASSUME IInv, SInv, Laid, Serial, NEW w \in Workers, TakeOver(w)
  PROVE  LET o == Head(todo[w]) IN
         /\ todo[w] # << >> /\ o.op = "take_over" /\ o.ghost \in Users /\ o.user \in Users
         /\ (\A v \in Workers : Chain(todo[v]))'
         /\ \/ UNCHANGED tx /\ Left' = Behind(w)
            \/ \E t \in Transactions :
                 /\ exists(t) /\ tx[t].recipient = o.ghost /\ tx[t] \in Documents
                 /\ tx' = [tx EXCEPT ![t] = Taken(o, t)]
                 /\ Left' = (IF tx[t].status = "created" THEN {} ELSE {Notify(t, Taken(o, t))})
                              \union Left
<1> DEFINE o == Head(todo[w])
<1>1. TypeOK /\ todo[w] # << >> /\ o.op = "take_over"
  BY DEF IInv, TakeOver, At
<1>2. o \in Ops /\ o \in TakeOverOps
  BY <1>1, HeadInOps, OpKinds
<1>3. o.ghost \in Users /\ o.user \in Users
  BY <1>2 DEF TakeOverOps
<1>4. \A b \in Behind(w) : Follows(o, b)
  BY <1>1, Served
<1>5. Left = {o} \union Behind(w)
  BY <1>1, Served
<1>6. CASE UNCHANGED tx /\ Continue(w, << >>)
  BY <1>1, <1>3, <1>6, Shorter
<1>7. ASSUME NEW t \in Transactions, exists(t), tx[t].recipient = o.ghost,
             tx' = [tx EXCEPT ![t] = Taken(o, t)],
             Continue(w, (IF Taken(o, t).status = "created" THEN << >>
                            ELSE <<Notify(t, Taken(o, t))>>) \o <<o>>)
      PROVE  /\ Left' = (IF tx[t].status = "created" THEN {} ELSE {Notify(t, Taken(o, t))})
                          \union Left
             /\ (\A v \in Workers : Chain(todo[v]))' /\ tx[t] \in Documents
  <2> DEFINE doc == Taken(o, t)
             note == Notify(t, doc)
             a == IF doc.status = "created" THEN << >> ELSE <<note>>
             b == <<o>>
             ops == a \o b
  <2>1. tx[t] \in Documents /\ tx[t].sender \in Users /\ tx[t].status \in Statuses
    BY <1>1, <1>7 DEF TypeOK, exists
  <2>2. /\ doc.status = tx[t].status /\ doc.status \in Statuses /\ doc.sender \in Users
        /\ doc.recipient \in Users
    <3> HIDE DEF o
    <3> QED
      BY <1>3, <2>1 DEF Documents, Taken
  <2>3. Continue(w, ops)
    BY <1>7
  <2> HIDE DEF o, doc
  <2>4. note \in Ops /\ note.op = "notify"
    BY <2>2, NotifyType DEF Notify
  <2> HIDE DEF note
  <2>5. /\ a \in Seq(Ops) /\ Chain(a)
        /\ Items(a) = IF tx[t].status = "created" THEN {} ELSE {note}
    BY <2>2, <2>4, Empty, Single
  <2>6. b \in Seq(Ops) /\ Chain(b) /\ Items(b) = {o}
    BY <1>2, Single
  <2> HIDE DEF a, b
  <2>7. \A x \in Items(a), y \in Items(b) : Follows(x, y)
    BY <1>1, <2>4, <2>5, <2>6 DEF Follows
  <2>8. ops \in Seq(Ops) /\ Chain(ops) /\ Items(ops) = Items(a) \union {o}
    BY <2>5, <2>6, <2>7, Spliced
  <2> HIDE DEF ops
  <2>9. \A x \in Items(ops), y \in Behind(w) : Follows(x, y)
    BY <1>4, <2>4, <2>5, <2>8 DEF Follows
  <2>10. Left' = Items(ops) \union Behind(w) /\ (\A v \in Workers : Chain(todo[v]))'
    BY <1>1, <2>3, <2>8, <2>9, Onward
  <2>11. Left' = Items(a) \union Left
    BY <1>5, <2>8, <2>10
  <2> QED
    BY <2>1, <2>5, <2>10, <2>11 DEF note, doc
<1>8. \/ UNCHANGED tx /\ Continue(w, << >>)
      \/ \E t \in Transactions :
           /\ exists(t) /\ tx[t].recipient = o.ghost
           /\ tx' = [tx EXCEPT ![t] = Taken(o, t)]
           /\ Continue(w, (IF Taken(o, t).status = "created" THEN << >>
                             ELSE <<Notify(t, Taken(o, t))>>) \o <<o>>)
  BY DEF TakeOver, Taken
<1> HIDE DEF o
<1>9. ASSUME NEW t \in Transactions, exists(t), tx[t].recipient = o.ghost,
             tx' = [tx EXCEPT ![t] = Taken(o, t)],
             Continue(w, (IF Taken(o, t).status = "created" THEN << >>
                            ELSE <<Notify(t, Taken(o, t))>>) \o <<o>>)
      PROVE  /\ (\A v \in Workers : Chain(todo[v]))'
             /\ \E x \in Transactions :
                 /\ exists(x) /\ tx[x].recipient = o.ghost /\ tx[x] \in Documents
                 /\ tx' = [tx EXCEPT ![x] = Taken(o, x)]
                 /\ Left' = (IF tx[x].status = "created" THEN {} ELSE {Notify(x, Taken(o, x))})
                              \union Left
  <2>1. /\ Left' = (IF tx[t].status = "created" THEN {} ELSE {Notify(t, Taken(o, t))})
                     \union Left
        /\ (\A v \in Workers : Chain(todo[v]))' /\ tx[t] \in Documents
    BY <1>7, <1>9
  <2> QED
    BY <1>9, <2>1
<1>10. CASE UNCHANGED tx /\ Continue(w, << >>)
  <2>1. Left' = Behind(w) /\ (\A v \in Workers : Chain(todo[v]))'
    BY <1>1, <1>10, Shorter
  <2> QED
    BY <1>1, <1>3, <1>10, <2>1 DEF o
<1> QED
  BY <1>1, <1>3, <1>8, <1>9, <1>10 DEF o

Found(o) == {t \in Transactions :
               /\ running(t)
               /\ \/ /\ tx[t].sender = o.user
                     /\ o.device \in {NoDevice, tx[t].sender_device}
                  \/ /\ tx[t].recipient = o.user
                     /\ o.device \in {NoDevice, tx[t].recipient_device}}

\* What is left after the transactions of who leaves are found.
LEMMA FindItems ==
  ASSUME IInv, SInv, Laid, Serial, NEW w \in Workers, FindTransactions(w)
  PROVE  LET o == Head(todo[w]) IN
         /\ todo[w] # << >> /\ o.op = "cancel_find" /\ o.user \in Users
         /\ (\A v \in Workers : Chain(todo[v]))'
         /\ Left' = {Cancel(o.user, Found(o))} \union Behind(w)
<1> DEFINE o == Head(todo[w])
           c == Cancel(o.user, Found(o))
           ops == <<c>>
<1>1. TypeOK /\ todo[w] # << >> /\ o.op = "cancel_find" /\ Continue(w, ops)
  BY DEF IInv, FindTransactions, At, Found
<1>2. o \in FindOps
  BY <1>1, HeadInOps, OpKinds
<1>3. \A b \in Behind(w) : Follows(o, b)
  BY <1>1, Served
<1>4. o.user \in Users
  BY <1>2 DEF FindOps
<1>5. Found(o) \subseteq Transactions
  BY DEF Found
<1> HIDE DEF o
<1>6. c \in Ops /\ c.op = "cancel"
  BY <1>4, <1>5 DEF Cancel, Ops, CancelOps
<1> HIDE DEF c
<1>7. ops \in Seq(Ops) /\ Chain(ops) /\ Items(ops) = {c}
  BY <1>6, Single
<1> HIDE DEF ops
<1>8. \A x \in Items(ops), y \in Behind(w) : Follows(x, y)
  BY <1>1, <1>3, <1>6, <1>7 DEF Follows
<1>9. Left' = Items(ops) \union Behind(w) /\ (\A v \in Workers : Chain(todo[v]))'
  BY <1>1, <1>7, <1>8, Onward
<1> QED
  BY <1>1, <1>4, <1>7, <1>9 DEF o, c

\* What is left after one of the transactions found is canceled.
LEMMA CancelItems ==
  ASSUME IInv, SInv, Laid, Serial, NEW w \in Workers, CancelNext(w)
  PROVE  LET o == Head(todo[w]) IN
         /\ todo[w] # << >> /\ o.op = "cancel" /\ o.user \in Users /\ o.ts \subseteq Transactions
         /\ (\A v \in Workers : Chain(todo[v]))'
         /\ \/ o.ts = {} /\ Left' = Behind(w)
            \/ \E t \in o.ts : ~(running(t) /\ involved(o.user, t)) /\ todo'[w] = << >> /\ Left' = {}
            \/ \E t \in o.ts : ~running(t) /\ Left' = {Cancel(o.user, o.ts \ {t})} \union Behind(w)
            \/ \E t \in o.ts :
                 /\ running(t) /\ involved(o.user, t)
                 /\ Left' = (Items(UpdateOps(t, "canceled", o.user, NoDevice))
                               \union {Cancel(o.user, o.ts \ {t})}) \union Behind(w)
<1> DEFINE o == Head(todo[w])
<1>1. TypeOK /\ todo[w] # << >> /\ o.op = "cancel"
  BY DEF IInv, CancelNext, At
<1>2. o \in CancelOps
  BY <1>1, HeadInOps, OpKinds
<1>3. \A b \in Behind(w) : Follows(o, b)
  BY <1>1, Served
<1>4. o.user \in Users /\ o.ts \subseteq Transactions
  BY <1>2 DEF CancelOps
<1>5. \/ o.ts = {} /\ Continue(w, << >>)
      \/ \E t \in o.ts : ~(running(t) /\ involved(o.user, t)) /\ todo' = [todo EXCEPT ![w] = << >>]
      \/ \E t \in o.ts : ~running(t) /\ Continue(w, <<Cancel(o.user, o.ts \ {t})>>)
      \/ \E t \in o.ts : /\ running(t) /\ involved(o.user, t)
                         /\ Continue(w, UpdateOps(t, "canceled", o.user, NoDevice)
                                          \o <<Cancel(o.user, o.ts \ {t})>>)
  BY DEF CancelNext, running
<1> HIDE DEF o
<1> DEFINE Kept == (\A v \in Workers : Chain(todo[v]))'
<1>6. CASE o.ts = {} /\ Continue(w, << >>)
  <2>1. Left' = Behind(w) /\ Kept
    BY <1>1, <1>6, Shorter
  <2> QED
    BY <1>1, <1>4, <1>6, <2>1 DEF o
<1>7. ASSUME NEW t \in o.ts
      PROVE  LET c == Cancel(o.user, o.ts \ {t}) IN
             <<c>> \in Seq(Ops) /\ Chain(<<c>>) /\ Items(<<c>>) = {c} /\ c.op = "cancel"
  <2> DEFINE c == Cancel(o.user, o.ts \ {t})
  <2>1. c \in Ops /\ c.op = "cancel"
    BY <1>4 DEF Cancel, Ops, CancelOps
  <2> QED
    BY <2>1, Single
<1>8. ASSUME NEW t \in o.ts, ~(running(t) /\ involved(o.user, t)), todo' = [todo EXCEPT ![w] = << >>]
      PROVE  Kept /\ todo'[w] = << >> /\ Left' = {}
  <2>1. todo'[w] = << >>
    BY <1>1, <1>8 DEF TypeOK
  <2>2. Kept
    BY <2>1, ChainOne DEF Serial, Chain
  <2>3. {Items(todo'[v]) : v \in Workers} = {Items(todo'[w])}
    BY DEF Serial
  <2>4. Left' = UNION {Items(todo'[v]) : v \in Workers}
    BY DEF Left, Items
  <2>5. Left' = {}
    BY <2>1, <2>3, <2>4, Empty
  <2> QED
    BY <2>1, <2>2, <2>5
<1>9. ASSUME NEW t \in o.ts, Continue(w, <<Cancel(o.user, o.ts \ {t})>>)
      PROVE  Kept /\ Left' = {Cancel(o.user, o.ts \ {t})} \union Behind(w)
  <2> DEFINE c == Cancel(o.user, o.ts \ {t})
             ops == <<c>>
  <2>1. ops \in Seq(Ops) /\ Chain(ops) /\ Items(ops) = {c} /\ c.op = "cancel" /\ Continue(w, ops)
    BY <1>7, <1>9
  <2> HIDE DEF c, ops
  <2>2. \A x \in Items(ops), y \in Behind(w) : Follows(x, y)
    BY <1>1, <1>3, <2>1 DEF Follows
  <2>3. Left' = Items(ops) \union Behind(w) /\ Kept
    BY <1>1, <2>1, <2>2, Onward
  <2> QED
    BY <2>1, <2>3 DEF c
<1>10. ASSUME NEW t \in o.ts, running(t),
              Continue(w, UpdateOps(t, "canceled", o.user, NoDevice)
                            \o <<Cancel(o.user, o.ts \ {t})>>)
       PROVE  /\ Kept
              /\ Left' = (Items(UpdateOps(t, "canceled", o.user, NoDevice))
                            \union {Cancel(o.user, o.ts \ {t})}) \union Behind(w)
  <2> DEFINE up == UpdateOps(t, "canceled", o.user, NoDevice)
             c == Cancel(o.user, o.ts \ {t})
             cs == <<c>>
             ops == up \o cs
  <2>1. t \in Transactions /\ exists(t) /\ "canceled" \in Statuses
    BY <1>4, <1>10 DEF running, Statuses
  <2>2. /\ up \in Seq(Ops) /\ Chain(up)
        /\ \A x \in Items(up) : \/ x = Updated(t, "canceled", NoDevice)
                                \/ Counted(x, t, "canceled", o.user)
    BY <1>1, <1>4, <2>1, UpdateItems
  <2>3. cs \in Seq(Ops) /\ Chain(cs) /\ Items(cs) = {c} /\ c.op = "cancel"
    BY <1>7
  <2>4. Continue(w, ops)
    BY <1>10
  <2> HIDE DEF up, c, cs
  <2>5. \A x \in Items(up) : x.op \in {"write", "pull", "clear_has", "clear_activity"}
    BY <2>2 DEF Updated, Counted, Completes
  <2>6. \A x \in Items(up), y \in Items(cs) : Follows(x, y)
    BY <2>3, <2>5 DEF Follows
  <2>7. ops \in Seq(Ops) /\ Chain(ops) /\ Items(ops) = Items(up) \union {c}
    BY <2>2, <2>3, <2>6, Spliced
  <2> HIDE DEF ops
  <2>8. \A x \in Items(ops), y \in Behind(w) : Follows(x, y)
    BY <1>1, <1>3, <2>3, <2>5, <2>7 DEF Follows
  <2>9. Left' = Items(ops) \union Behind(w) /\ Kept
    BY <1>1, <2>4, <2>7, <2>8, Onward
  <2> QED
    BY <2>7, <2>9 DEF up, c
<1> HIDE DEF Kept
<1>11. CASE \E t \in o.ts : ~(running(t) /\ involved(o.user, t)) /\ todo' = [todo EXCEPT ![w] = << >>]
  <2>1. PICK t \in o.ts : ~(running(t) /\ involved(o.user, t)) /\ todo' = [todo EXCEPT ![w] = << >>]
    BY <1>11
  <2>2. Kept /\ todo'[w] = << >> /\ Left' = {}
    BY <1>8, <2>1
  <2> QED
    BY <1>1, <1>4, <2>1, <2>2 DEF o, Kept
<1>12. CASE \E t \in o.ts : ~running(t) /\ Continue(w, <<Cancel(o.user, o.ts \ {t})>>)
  <2>1. PICK t \in o.ts : ~running(t) /\ Continue(w, <<Cancel(o.user, o.ts \ {t})>>)
    BY <1>12
  <2>2. Kept /\ Left' = {Cancel(o.user, o.ts \ {t})} \union Behind(w)
    BY <1>9, <2>1
  <2> QED
    BY <1>1, <1>4, <2>1, <2>2 DEF o, Kept
<1>13. CASE \E t \in o.ts : /\ running(t) /\ involved(o.user, t)
                            /\ Continue(w, UpdateOps(t, "canceled", o.user, NoDevice)
                                             \o <<Cancel(o.user, o.ts \ {t})>>)
  <2>1. PICK t \in o.ts : /\ running(t) /\ involved(o.user, t)
                          /\ Continue(w, UpdateOps(t, "canceled", o.user, NoDevice)
                                           \o <<Cancel(o.user, o.ts \ {t})>>)
    BY <1>13
  <2>2. /\ Kept
        /\ Left' = (Items(UpdateOps(t, "canceled", o.user, NoDevice))
                      \union {Cancel(o.user, o.ts \ {t})}) \union Behind(w)
    BY <1>10, <2>1
  <2> QED
    BY <1>1, <1>4, <2>1, <2>2 DEF o, Kept
<1> QED
  BY <1>5, <1>6, <1>11, <1>12, <1>13

\* The order is kept, and the folk tame.
LEMMA LaidServe ==
  ASSUME IInv, SInv, Laid, Serial, NEW w \in Workers, Serve(w)
  PROVE  Laid'
<1> DEFINE o == Head(todo[w])
           R == Behind(w)
           Kept == (\A v \in Workers : Chain(todo[v]))'
<1>0. todo[w] # << >> => Left = {o} \union R
  BY Served
<1>1. ASSUME Kept, UNCHANGED <<devices, register_status>>,
             \A x \in Left' : x \in Left \/ x.op \notin {"merge", "take_over"}
      PROVE  Laid'
  BY <1>1, LaidStep
<1>2. CASE Put(w) \/ SendNotification(w) \/ PushStat(w) \/ PullStat(w) \/ ClearHas(w)
           \/ ClearActivity(w) \/ Count(w) \/ EndSession(w)
  <2>1. todo[w] # << >> /\ Continue(w, << >>) /\ UNCHANGED <<devices, register_status>>
    BY <1>2 DEF Put, SendNotification, PushStat, PullStat, ClearHas, ClearActivity, Count,
                EndSession, At, accounts
  <2> QED
    BY <1>0, <1>1, <2>1, Shorter
<1>3. CASE ClearAccount(w)
  <2>1. todo[w] # << >> /\ o.op \in {"remove_devices", "delete", "merge"}
    BY <1>3 DEF ClearAccount
  <2>2. /\ Continue(w, << >>) /\ devices' = [devices EXCEPT ![o.user] = {}]
        /\ register_status' = [register_status EXCEPT ![o.user] =
                                 CASE o.op = "delete" -> "deleted"
                                   [] o.op = "merge" -> "merged"
                                   [] OTHER -> register_status[o.user]]
    BY <1>3 DEF ClearAccount
  <2>3. TypeOK /\ Kept /\ Left' = R
    BY <2>1, <2>2, Shorter DEF IInv
  <2> HIDE DEF o
  <2>4. \A u \in Users : /\ devices'[u] \subseteq devices[u]
                         /\ register_status'[u] = "ghost" => register_status[u] = "ghost"
    BY <2>1, <2>2, <2>3 DEF TypeOK
  <2> QED
    BY <1>0, <2>1, <2>3, <2>4, LaidStep
<1>4. CASE Write(w)
  <2>1. /\ todo[w] # << >> /\ Kept /\ Left' = {Notify(o.t, Written(o))} \union R
        /\ Notify(o.t, Written(o)).op = "notify"
    BY <1>4, WriteItems
  <2>2. UNCHANGED <<devices, register_status>>
    BY <1>4 DEF Write, accounts
  <2> QED
    BY <1>0, <1>1, <2>1, <2>2
<1>5. CASE WritePaused(w)
  <2>1. todo[w] # << >> /\ Kept /\ Left' = {Notify(o.t, tx[o.t])} \union R
    BY <1>5, PauseItems
  <2>2. UNCHANGED <<devices, register_status>> /\ Notify(o.t, tx[o.t]).op = "notify"
    BY <1>5 DEF WritePaused, accounts, Notify
  <2> QED
    BY <1>0, <1>1, <2>1, <2>2
<1>6. CASE TakeOver(w)
  <2>1. /\ todo[w] # << >> /\ Kept
        /\ \/ Left' = R
           \/ \E t \in Transactions :
                Left' = (IF tx[t].status = "created" THEN {} ELSE {Notify(t, Taken(o, t))}) \union Left
    BY <1>6, TakeOverItems
  <2>2. UNCHANGED <<devices, register_status>> /\ \A t : Notify(t, Taken(o, t)).op = "notify"
    BY <1>6 DEF TakeOver, accounts, Notify
  <2> HIDE DEF o
  <2> QED
    BY <1>0, <1>1, <2>1, <2>2
<1>7. CASE FindTransactions(w)
  <2>1. todo[w] # << >> /\ Kept /\ Left' = {Cancel(o.user, Found(o))} \union R
    BY <1>7, FindItems
  <2>2. UNCHANGED <<devices, register_status>> /\ Cancel(o.user, Found(o)).op = "cancel"
    BY <1>7 DEF FindTransactions, accounts, Cancel
  <2> QED
    BY <1>0, <1>1, <2>1, <2>2
<1>8. CASE CancelNext(w)
  <2>1. /\ todo[w] # << >> /\ Kept /\ o.user \in Users /\ o.ts \subseteq Transactions
        /\ \/ Left' \subseteq R
           \/ \E t \in o.ts : Left' = {Cancel(o.user, o.ts \ {t})} \union R
           \/ \E t \in o.ts :
                /\ running(t)
                /\ Left' = (Items(UpdateOps(t, "canceled", o.user, NoDevice))
                              \union {Cancel(o.user, o.ts \ {t})}) \union R
    <3>1. \/ Left' = R
          \/ Left' = {}
          \/ \E t \in o.ts : Left' = {Cancel(o.user, o.ts \ {t})} \union R
          \/ \E t \in o.ts :
               /\ running(t)
               /\ Left' = (Items(UpdateOps(t, "canceled", o.user, NoDevice))
                             \union {Cancel(o.user, o.ts \ {t})}) \union R
      BY <1>8, CancelItems
    <3>2. todo[w] # << >> /\ Kept /\ o.user \in Users /\ o.ts \subseteq Transactions
      BY <1>8, CancelItems
    <3> QED
      BY <3>1, <3>2
  <2>2. UNCHANGED <<devices, register_status>> /\ \A ts : Cancel(o.user, ts).op = "cancel"
    BY <1>8 DEF CancelNext, accounts, Cancel
  <2>3. ASSUME NEW t \in o.ts, running(t), NEW x \in Items(UpdateOps(t, "canceled", o.user, NoDevice))
        PROVE  x.op \notin {"merge", "take_over"}
    <3>1. TypeOK /\ t \in Transactions /\ exists(t) /\ "canceled" \in Statuses
      BY <2>1, <2>3 DEF running, Statuses, IInv
    <3>2. x = Updated(t, "canceled", NoDevice) \/ Counted(x, t, "canceled", o.user)
      BY <2>1, <2>3, <3>1, UpdateItems
    <3> QED
      BY <3>2 DEF Updated, Counted, Completes
  <2> HIDE DEF o, Kept, R
  <2>4. \A x \in Left' : x \in Left \/ x.op \notin {"merge", "take_over"}
    BY <1>0, <2>1, <2>2, <2>3
  <2> QED
    BY <1>1, <2>1, <2>2, <2>4
<1> QED
  BY <1>2, <1>3, <1>4, <1>5, <1>6, <1>7, <1>8 DEF Serve
-----------------------------------------------------------------------------
(***************************************************************************)
(* Accounted.                                                              *)
(***************************************************************************)
Writes(t, s) == \E o \in Left : o.op = "write" /\ o.t = t /\ o.status = s
Inserts(t) == \E o \in Left : o.op = "put" /\ o.t = t
Pulls(u, t) == \E o \in Left : o.op = "pull" /\ o.user = u /\ o.list = "pending" /\ o.t = t
Ending(t) == \E s \in final : tx[t].status = s \/ Writes(t, s)
Reaching(t) == tx[t].status = "finished" \/ Writes(t, "finished")

\* What ends is nobody's pending transfer, or is about to be pulled from his list.
Settled ==
  \A t \in Transactions, u \in Users :
    t \notin linked /\ Ending(t) /\ involved(u, t) /\ t \in listed[u].pending => Pulls(u, t)

\* What does not exist is in no list.
Unseen == \A t \in Transactions, u \in Users :
            tx[t].status \in {"none", "empty"} => t \notin listed[u].pending

\* What is the pending transfer of its recipient is not for a ghost: it is not taken over.
Ghostly ==
  \A t \in Transactions, u \in Users :
    t \in listed[u].pending /\ u # tx[t].sender =>
      /\ register_status[tx[t].recipient] # "ghost"
      /\ \A o \in Left : o.op = "take_over" => o.ghost # tx[t].recipient

\* What is about to become pending runs, or is about to be inserted.
Pushing ==
  \A o \in Left : o.op = "push" /\ o.list = "pending" =>
    /\ \A s \in final : ~Writes(o.t, s)
    /\ \/ Inserts(o.t)
       \/ /\ exists(o.t) /\ tx[o.t].status \notin final
          /\ o.user = tx[o.t].sender \/ tx[o.t].recipient \notin Ghosts

\* A document that is filled in again keeps its ends, but for a recipient who is no
\* ghost any more.
Putting ==
  \A o \in Left : o.op = "put" =>
    /\ tx[o.t].status \in {"none", "empty"} \/
         /\ o.doc.sender = tx[o.t].sender
         /\ o.doc.recipient = tx[o.t].recipient \/ register_status[o.doc.recipient] # "ghost"
    /\ \A p \in Left : p.op = "push" /\ p.list = "pending" => p.t = o.t /\ p.user = o.doc.sender

\* Who is counted has reached the end, or is about to, and is counted once.
Counting ==
  /\ \A t \in Transactions : reached[t] > 0 => Reaching(t)
  /\ \A o \in Left : o.op = "count" => reached[o.t] = 0 /\ Reaching(o.t)

Booked == Settled /\ Unseen /\ Ghostly /\ Pushing /\ Putting /\ Counting

\* What is left to write has been read.
LEMMA Ground ==
  ASSUME IInv, NEW p \in Left
  PROVE  /\ p \in Ops
         /\ p.op = "write" => p \in WriteOps /\ exists(p.t)
<1>1. PICK w \in Workers : \E i \in DOMAIN todo[w] : p = todo[w][i]
  BY DEF Left, Items
<1>2. p \in Ops
  BY <1>1 DEF IInv, TypeOK
<1> QED
  BY <1>1, <1>2, OpKinds DEF IInv, Grounded

\* The operations the accounts depend on.
BookKinds == {"write", "put", "pull", "push", "count", "take_over"}

\* Booked says nothing of what such a step changes.
LEMMA BookedStays ==
  ASSUME IInv, Booked, UNCHANGED <<tx, linked, listed, reached>>,
         \A u \in Users : register_status'[u] = "ghost" => register_status[u] = "ghost",
         \A x \in Left' : x \in Left \/ x.op \notin BookKinds,
         \A x \in Left : x.op \in {"write", "put", "pull"} => x \in Left'
  PROVE  Booked'
<1>1. \A t, s : Writes(t, s)' <=> Writes(t, s)
  BY DEF Writes, BookKinds
<1>2. \A t : Inserts(t)' <=> Inserts(t)
  BY DEF Inserts, BookKinds
<1>3. \A u, t : Pulls(u, t) => Pulls(u, t)'
  BY DEF Pulls
<1>4. Settled'
  BY <1>1, <1>3 DEF Booked, Settled, Ending, involved
<1>5. Unseen'
  BY DEF Booked, Unseen
<1>6. Ghostly'
  <2> SUFFICES ASSUME NEW t \in Transactions, NEW u \in Users, t \in listed[u].pending,
                      u # tx[t].sender
               PROVE  /\ register_status'[tx[t].recipient] # "ghost"
                      /\ \A o \in Left' : o.op = "take_over" => o.ghost # tx[t].recipient
    BY DEF Ghostly
  <2>1. tx[t].recipient \in Users
    <3>1. tx[t].status \notin {"none", "empty"}
      BY DEF Booked, Unseen
    <3> QED
      BY <3>1 DEF IInv, TypeOK, Documents, exists
  <2>2. /\ register_status[tx[t].recipient] # "ghost"
        /\ \A o \in Left : o.op = "take_over" => o.ghost # tx[t].recipient
    BY DEF Booked, Ghostly
  <2> QED
    BY <2>1, <2>2 DEF BookKinds
<1>7. Pushing'
  BY <1>1, <1>2 DEF Booked, Pushing, BookKinds, exists
<1>8. Putting'
  <2> SUFFICES ASSUME NEW o \in Left', o.op = "put"
               PROVE  /\ tx[o.t].status \in {"none", "empty"} \/
                           /\ o.doc.sender = tx[o.t].sender
                           /\ \/ o.doc.recipient = tx[o.t].recipient
                              \/ register_status'[o.doc.recipient] # "ghost"
                      /\ \A p \in Left' : p.op = "push" /\ p.list = "pending" =>
                                            p.t = o.t /\ p.user = o.doc.sender
    BY DEF Putting
  <2>1. o \in Left
    BY DEF BookKinds
  <2>2. o.doc.recipient \in Users
    BY <2>1, Ground, OpKinds DEF PutOps
  <2> QED
    BY <2>1, <2>2 DEF Booked, Putting, BookKinds
<1>9. Counting'
  BY <1>1 DEF Booked, Counting, Reaching, BookKinds
<1> QED
  BY <1>4, <1>5, <1>6, <1>7, <1>8, <1>9 DEF Booked

\* What is true when a request starts.
LEMMA BookedIdle ==
  ASSUME IInv, Booked, Left = {}
  PROVE  /\ \A t \in Transactions : tx[t].status # "finished" => reached[t] = 0
         /\ \A t \in Transactions, u \in Users :
              t \notin linked /\ tx[t].status \in final /\ involved(u, t) => t \notin listed[u].pending
<1>1. \A t, s : ~Writes(t, s)
  BY DEF Writes
<1>2. \A u, t : ~Pulls(u, t)
  BY DEF Pulls
<1>3. reached \in [Transactions -> 0..2]
  BY DEF IInv, TypeOK
<1> QED
  BY <1>1, <1>2, <1>3 DEF Booked, Settled, Counting, Reaching, Ending

\* A request that lays out nothing of that sort.
LEMMA BookedRequest ==
  ASSUME IInv, Serial, Booked, NEW w \in Workers, NEW call, NEW ops, Request(call, w, ops),
         UNCHANGED <<tx, linked, register_status, listed, reached>>,
         \A x \in Items(ops) : x.op \notin BookKinds
  PROVE  Booked'
<1>1. TypeOK
  BY DEF IInv
<1>2. Left' = Items(ops) /\ Left = {}
  BY <1>1, LeftRequest
<1> QED
  BY <1>2, BookedStays

\* The request that inserts a transaction keeps Booked.
LEMMA BookedPut ==
  ASSUME IInv, Serial, Booked, NEW w \in Workers, NEW call, NEW ops, Request(call, w, ops),
         UNCHANGED <<tx, linked, register_status, listed, reached>>,
         NEW o, o \in Items(ops), o.op = "put",
         \A x \in Items(ops) : x.op \in BookKinds =>
            x = o \/ (x.op = "push" /\ (x.list = "pending" => x.t = o.t /\ x.user = o.doc.sender)),
         tx[o.t].status \in {"none", "empty"} \/
           /\ o.doc.sender = tx[o.t].sender
           /\ o.doc.recipient = tx[o.t].recipient \/ register_status[o.doc.recipient] # "ghost"
  PROVE  Booked'
<1>1. TypeOK
  BY DEF IInv
<1>2. Left' = Items(ops) /\ Left = {}
  BY <1>1, LeftRequest
<1>3. \A t, s : ~Writes(t, s) /\ ~Writes(t, s)'
  BY <1>2 DEF Writes, BookKinds
<1>4. Inserts(o.t)' /\ \A u, t : ~Pulls(u, t)
  BY <1>2 DEF Inserts, Pulls
<1>5. Settled'
  BY <1>3, <1>4 DEF Booked, Settled, Ending, involved
<1>6. Unseen'
  BY DEF Booked, Unseen
<1>7. Ghostly'
  BY <1>2 DEF Booked, Ghostly, BookKinds
<1>8. Pushing'
  BY <1>2, <1>3, <1>4 DEF Pushing, BookKinds
<1>9. Putting'
  BY <1>2 DEF Putting, BookKinds
<1>10. Counting'
  BY <1>2, <1>3 DEF Booked, Counting, Reaching, BookKinds
<1> QED
  BY <1>5, <1>6, <1>7, <1>8, <1>9, <1>10 DEF Booked

\* The request that updates a transaction keeps Booked.
LEMMA BookedUpdate ==
  ASSUME IInv, Laid, Serial, Booked, NEW w \in Workers,
         NEW d \in Devices, NEW t \in Transactions, NEW s \in Asked, Update(w, d, t, s)
  PROVE  Booked'
<1> DEFINE u == owner[d]
           ops == IF s = "rejected" /\ d \notin devices[u]
                    THEN Complete(u, t, "unaccepted") ELSE UpdateOps(t, s, u, d)
<1>1. /\ Request("update", w, ops) /\ UNCHANGED <<tx, linked, register_status, listed, reached>>
      /\ exists(t) /\ involved(u, t) /\ tx[t].status \notin final
  BY DEF Update, docs, accounts, stats, Permitted
<1>2. u \in Users \ Ghosts /\ u \in Users /\ s \in Statuses /\ "unaccepted" \in Lists /\ TypeOK
  BY UsersAssumption DEF Lists, IInv
<1>3. CASE s = "rejected" /\ d \notin devices[u]
  <2>1. ops = Complete(u, t, "unaccepted")
    BY <1>3
  <2>2. \A x \in Items(Complete(u, t, "unaccepted")) : Completes(x, t)
    BY <1>2, CompleteItems
  <2> HIDE DEF ops
  <2>3. Left' = Items(ops) /\ Left = {}
    BY <1>1, <1>2, LeftRequest
  <2>4. \A x \in Left' : x.op \in {"pull", "clear_has", "clear_activity"}
    BY <2>1, <2>2, <2>3 DEF Completes
  <2>5. \A a, b : ~Writes(a, b) /\ ~Writes(a, b)' /\ ~Pulls(a, b)
    BY <2>3, <2>4 DEF Writes, Pulls
  <2>6. Settled'
    BY <1>1, <2>5 DEF Booked, Settled, Ending, involved
  <2>7. Unseen' /\ Ghostly' /\ Pushing' /\ Putting' /\ Counting'
    BY <1>1, <2>4, <2>5 DEF Booked, Unseen, Ghostly, Pushing, Putting, Counting, Reaching
  <2> QED
    BY <2>6, <2>7 DEF Booked
<1>4. CASE ~(s = "rejected" /\ d \notin devices[u])
  <2>1. ops = UpdateOps(t, s, u, d)
    BY <1>4
  <2> HIDE DEF ops, u
  <2> DEFINE o == Updated(t, s, d)
  <2>2. /\ o \in Items(ops)
        /\ s \in final => \A v \in {tx[t].sender, tx[t].recipient} : Pull(v, t) \in Items(ops)
        /\ \A x \in Items(ops) : x = o \/ Counted(x, t, s, u)
    BY <1>1, <1>2, <2>1, UpdateItems
  <2>3. Left' = Items(ops) /\ Left = {}
    BY <1>1, <1>2, LeftRequest
  <2>4. o.op = "write" /\ o.t = t /\ (o.status \in final => s \in final)
        /\ (s = "finished" => o.status = "finished") /\ (s = "accepted" => o.status = "accepted")
    BY DEF Updated, NewStatus, final
  <2> HIDE DEF o
  <2>5. \A x \in Left' : \/ x = o
                         \/ x.op \in {"pull", "clear_has", "clear_activity"}
                         \/ s = "accepted" /\ x.op = "push" /\ x.t = t /\ x.user = u
                         \/ s = "finished" /\ x.op = "count" /\ x.t = t
    BY <2>2, <2>3 DEF Counted, Completes, Push
  <2>6. \A a, b : ~Writes(a, b) /\ (Writes(a, b)' => a = t /\ b = o.status)
    BY <2>3, <2>4, <2>5 DEF Writes
  <2>7. s = "finished" => Writes(t, "finished")'
    BY <2>2, <2>3, <2>4 DEF Writes
  <2>8. /\ \A x \in Transactions : tx[x].status # "finished" => reached[x] = 0
        /\ \A x \in Transactions, v \in Users :
             x \notin linked /\ tx[x].status \in final /\ involved(v, x) => x \notin listed[v].pending
    BY <2>3, BookedIdle
  <2>9. Settled'
    <3> SUFFICES ASSUME NEW x \in Transactions, NEW v \in Users, x \notin linked, Ending(x)',
                        involved(v, x), x \in listed[v].pending
                 PROVE  Pulls(v, x)'
      BY <1>1 DEF Settled, involved
    <3>1. PICK f \in final : tx[x].status = f \/ Writes(x, f)'
      BY <1>1 DEF Ending
    <3>2. x = t /\ s \in final
      BY <2>4, <2>6, <2>8, <3>1
    <3>3. Pull(v, t) \in Left'
      BY <2>2, <2>3, <3>2 DEF involved
    <3> QED
      BY <3>2, <3>3 DEF Pulls, Pull
  <2>10. Unseen'
    BY <1>1 DEF Booked, Unseen
  <2>11. Ghostly'
    BY <1>1, <2>4, <2>5 DEF Booked, Ghostly
  <2>12. Pushing'
    <3> SUFFICES ASSUME NEW x \in Left', x.op = "push"
                 PROVE  /\ \A f \in final : ~Writes(x.t, f)'
                        /\ exists(x.t)' /\ tx'[x.t].status \notin final
                        /\ x.user = tx'[x.t].sender \/ tx'[x.t].recipient \notin Ghosts
      BY DEF Pushing
    <3>1. s = "accepted" /\ x.t = t /\ x.user = u
      BY <2>4, <2>5
    <3>2. \A f \in final : ~Writes(t, f)'
      BY <2>4, <2>6, <3>1 DEF final
    <3> QED
      BY <1>1, <1>2, <3>1, <3>2 DEF exists, involved
  <2>13. Putting'
    BY <2>4, <2>5 DEF Putting
  <2>14. Counting'
    <3>1. \A x \in Transactions : reached'[x] > 0 => Reaching(x)'
      <4>1. \A x \in Transactions : reached[x] > 0 => Reaching(x)
        BY DEF Booked, Counting
      <4> QED
        BY <1>1, <2>6, <4>1 DEF Reaching
    <3>2. ASSUME NEW x \in Left', x.op = "count" PROVE reached'[x.t] = 0 /\ Reaching(x.t)'
      <4>1. s = "finished" /\ x.t = t
        BY <2>4, <2>5, <3>2
      <4>2. tx[t].status # "finished"
        BY <1>1 DEF final
      <4> QED
        BY <1>1, <2>7, <2>8, <4>1, <4>2 DEF Reaching
    <3> QED
      BY <3>1, <3>2 DEF Counting
  <2> QED
    BY <2>9, <2>10, <2>11, <2>12, <2>13, <2>14 DEF Booked
<1> QED
  BY <1>3, <1>4

\* The request that asks for the buffer keeps Booked.
LEMMA BookedDownload ==
  ASSUME IInv, Serial, Booked, NEW w \in Workers, NEW t \in Transactions, Download(w, t)
  PROVE  Booked'
<1> DEFINE note == Notify(t, tx[t])
           count == [op |-> "count", t |-> t]
           ops == IF tx[t].status = "finished" THEN << >> ELSE <<count, note>>
<1>1. /\ Request("download", w, ops) /\ t \in linked /\ tx' = [tx EXCEPT ![t].status = "finished"]
      /\ UNCHANGED <<linked, register_status, listed, reached>>
  BY DEF Download, accounts, stats
<1>2. note.op = "notify" /\ count.op = "count" /\ count.t = t
  BY DEF Notify
<1>3. TypeOK /\ exists(t)
  BY <1>1 DEF IInv, Grounded
<1> HIDE DEF note, count
<1>4. Items(ops) \subseteq {count, note} /\ (tx[t].status = "finished" => Items(ops) = {})
  BY ItemsFew, Empty
<1> HIDE DEF ops
<1>5. Left' = Items(ops) /\ Left = {}
  BY <1>1, <1>3, LeftRequest
<1>6. \A x \in Left' : x.op = "notify" \/ (x = count /\ tx[t].status # "finished")
  BY <1>2, <1>4, <1>5
<1>7. \A a, b : ~Writes(a, b) /\ ~Writes(a, b)' /\ ~Pulls(a, b)
  BY <1>2, <1>5, <1>6 DEF Writes, Pulls
<1>8. /\ \A x \in Transactions : tx[x].status # "finished" => reached[x] = 0
      /\ \A x \in Transactions, v \in Users :
           x \notin linked /\ tx[x].status \in final /\ involved(v, x) => x \notin listed[v].pending
  BY <1>5, BookedIdle
<1>9. /\ tx[t] \in Documents /\ tx'[t].status = "finished" /\ tx'[t].sender = tx[t].sender
      /\ tx'[t].recipient = tx[t].recipient
      /\ \A x \in Transactions : x # t => tx'[x] = tx[x]
  BY <1>1, <1>3 DEF TypeOK, Documents
<1>10. Settled'
  BY <1>1, <1>7, <1>8, <1>9 DEF Settled, Ending, involved
<1>11. Unseen'
  BY <1>1, <1>9 DEF Booked, Unseen
<1>12. Ghostly'
  BY <1>1, <1>2, <1>6, <1>9 DEF Booked, Ghostly
<1>13. Pushing' /\ Putting'
  BY <1>2, <1>6 DEF Pushing, Putting
<1>14. Counting'
  BY <1>1, <1>2, <1>6, <1>8, <1>9 DEF Booked, Counting, Reaching
<1> QED
  BY <1>10, <1>11, <1>12, <1>13, <1>14 DEF Booked

\* The creation of an empty transaction keeps Booked.
LEMMA BookedEmpty ==
  ASSUME IInv, Serial, Booked, NEW w \in Workers, NEW d \in Devices, NEW t \in Transactions,
         CreateEmpty(w, d, t)
  PROVE  Booked'
<1> DEFINE doc == [Absent EXCEPT !.status = "empty", !.sender = owner[d]]
<1>1. /\ Request("create_empty", w, << >>) /\ tx[t].status = "none" /\ tx' = [tx EXCEPT ![t] = doc]
      /\ UNCHANGED <<linked, register_status, listed, reached>>
  BY DEF CreateEmpty, accounts, stats, fresh
<1>2. doc.status = "empty" /\ TypeOK
  BY DEF Absent, IInv
<1> HIDE DEF doc
<1>3. Left' = {} /\ Left = {}
  BY <1>1, <1>2, Empty, LeftRequest
<1>4. \A a, b : ~Writes(a, b) /\ ~Writes(a, b)'
  BY <1>3 DEF Writes
<1>5. \A u \in Users : t \notin listed[u].pending
  BY <1>1 DEF Booked, Unseen
<1>6. tx'[t] = doc /\ \A x \in Transactions : x # t => tx'[x] = tx[x]
  BY <1>1, <1>2 DEF TypeOK
<1>7. \A u, x : ~Pulls(u, x)
  BY <1>3 DEF Pulls
<1>8. Settled'
  <2> SUFFICES ASSUME NEW x \in Transactions, NEW u \in Users, x \notin linked, Ending(x)',
                      involved(u, x)', x \in listed[u].pending
               PROVE  FALSE
    BY <1>1 DEF Settled
  <2>1. x # t
    BY <1>5
  <2> QED
    BY <1>4, <1>6, <1>7, <2>1 DEF Booked, Settled, Ending, involved
<1>9. Unseen'
  BY <1>1, <1>5, <1>6 DEF Booked, Unseen
<1>10. Ghostly'
  BY <1>1, <1>3, <1>5, <1>6 DEF Booked, Ghostly
<1>11. Pushing' /\ Putting'
  BY <1>3 DEF Pushing, Putting
<1>12. Counting'
  BY <1>1, <1>3, <1>4, <1>6 DEF Booked, Counting, Reaching
<1> QED
  BY <1>8, <1>9, <1>10, <1>11, <1>12 DEF Booked

\* The merge of a ghost into an account keeps Booked.
LEMMA BookedMerge ==
  ASSUME IInv, Serial, Booked, NEW w \in Workers, NEW d \in Devices, NEW g \in Users,
         MergeGhost(w, d, g)
  PROVE  Booked'
<1> DEFINE take == [op |-> "take_over", ghost |-> g, user |-> owner[d]]
           merge == [op |-> "merge", user |-> g]
           ops == <<take, merge, take>>
<1>1. take.op = "take_over" /\ merge.op = "merge" /\ take.ghost = g
  OBVIOUS
<1>2. /\ Request("merge_ghost", w, ops) /\ register_status[g] = "ghost"
      /\ UNCHANGED <<tx, linked, register_status, listed, reached>>
  BY DEF MergeGhost, docs, accounts, stats
<1>3. TypeOK
  BY DEF IInv
<1> HIDE DEF take, merge
<1>4. Items(ops) = {take, merge}
  BY ItemsFew
<1> HIDE DEF ops
<1>5. Left' = {take, merge} /\ Left = {}
  BY <1>2, <1>3, <1>4, LeftRequest
<1>6. \A a, b : ~Writes(a, b) /\ ~Writes(a, b)' /\ ~Pulls(a, b)
  BY <1>1, <1>5 DEF Writes, Pulls
<1>7. Settled'
  BY <1>2, <1>6 DEF Booked, Settled, Ending, involved
<1>8. Unseen'
  BY <1>2 DEF Booked, Unseen
<1>9. Ghostly'
  BY <1>1, <1>2, <1>5 DEF Booked, Ghostly
<1>10. Pushing' /\ Putting'
  BY <1>1, <1>5 DEF Pushing, Putting
<1>11. Counting'
  BY <1>1, <1>2, <1>5, <1>6 DEF Booked, Counting, Reaching
<1> QED
  BY <1>7, <1>8, <1>9, <1>10, <1>11 DEF Booked

\* The request that creates a transaction keeps Booked.
LEMMA BookedCreate ==
  ASSUME IInv, Serial, Booked, NEW w \in Workers, NEW call, NEW d \in Devices,
         NEW t \in Transactions, NEW s \in {"created", "initialized"}, NEW r \in Users,
         NEW rd \in Devices \union {NoDevice}, Request(call, w, CreateOps(t, s, d, r, rd)),
         UNCHANGED <<tx, linked, register_status, listed, reached>>,
         tx[t].status \in {"none", "empty"} \/
           /\ owner[d] = tx[t].sender
           /\ r = tx[t].recipient \/ register_status[r] # "ghost"
  PROVE  Booked'
<1> DEFINE ops == CreateOps(t, s, d, r, rd)
           o == Inserted(t, s, d, r, rd)
<1>1. TypeOK
  BY DEF IInv
<1>2. /\ o \in Items(ops)
      /\ \A x \in Items(ops) : \/ x = o \/ x = Told(t, r)
                               \/ x = Push(owner[d], t, "pending") \/ x = Push(r, t, "unaccepted")
  BY <1>1, CreateItems
<1>3. o.op = "put" /\ o.t = t /\ o.doc.sender = owner[d] /\ o.doc.recipient = r
  BY DEF Inserted
<1>4. Request(call, w, ops)
  OBVIOUS
<1> HIDE DEF ops, o
<1>5. \A x \in Items(ops) : x.op \in BookKinds =>
        x = o \/ (x.op = "push" /\ (x.list = "pending" => x.t = o.t /\ x.user = o.doc.sender))
  BY <1>2, <1>3 DEF Told, Push, BookKinds
<1> QED
  BY <1>2, <1>3, <1>4, <1>5, BookedPut

\* A request received keeps Booked.
LEMMA BookedReceive ==
  ASSUME IInv, Laid, Serial, Booked, NEW w \in Workers, Receive(w)
  PROVE  Booked'
<1>1. ASSUME NEW t \in Transactions, Download(w, t) PROVE Booked'
  BY <1>1, BookedDownload
<1>2. ASSUME NEW d \in Devices, NEW t \in Transactions, CreateEmpty(w, d, t) PROVE Booked'
  BY <1>2, BookedEmpty
<1>3. ASSUME NEW d \in Devices, NEW t \in Transactions, NEW s \in Asked, Update(w, d, t, s)
      PROVE  Booked'
  BY <1>3, BookedUpdate
<1>4. ASSUME NEW d \in Devices, NEW t \in Transactions, NEW p \in BOOLEAN, Pause(w, d, t, p)
      PROVE  Booked'
  <2> DEFINE o == [op |-> "pause", t |-> t, paused |-> p]
             ops == <<o>>
  <2>1. /\ Request("pause", w, ops) /\ o.op = "pause" /\ Items(ops) = {o}
        /\ UNCHANGED <<tx, linked, register_status, listed, reached>>
    BY <1>4, ItemsOne DEF Pause, docs, accounts, stats
  <2> HIDE DEF ops, o
  <2> QED
    BY <2>1, BookedRequest DEF BookKinds
<1>5. ASSUME NEW d \in Devices, NEW t \in Transactions, NEW r \in Users, Create(w, d, t, r)
      PROVE  Booked'
  <2>1. /\ Request("create", w, CreateOps(t, "created", d, r, NoDevice))
        /\ tx[t].status = "none" /\ UNCHANGED <<tx, linked, register_status, listed, reached>>
    BY <1>5 DEF Create, fresh, docs, accounts, stats
  <2> QED
    BY <2>1, BookedCreate
<1>6. ASSUME NEW d \in Devices, NEW t \in Transactions, NEW r \in Users, Bare(w, d, t, r)
      PROVE  Booked'
  <2> DEFINE doc == [Absent EXCEPT !.status = "created", !.sender = owner[d], !.recipient = r]
             o == [op |-> "put", t |-> t, doc |-> doc]
             ops == <<o>>
  <2>1. /\ Request("bare", w, ops) /\ o.op = "put" /\ o.t = t /\ Items(ops) = {o}
        /\ tx[t].status = "none" /\ UNCHANGED <<tx, linked, register_status, listed, reached>>
    BY <1>6, ItemsOne DEF Bare, fresh, docs, accounts, stats
  <2> HIDE DEF ops, o
  <2>2. /\ o \in Items(ops) /\ tx[o.t].status \in {"none", "empty"}
        /\ \A x \in Items(ops) : x.op \in BookKinds =>
             x = o \/ (x.op = "push" /\ (x.list = "pending" => x.t = o.t /\ x.user = o.doc.sender))
    BY <2>1
  <2> QED
    BY <2>1, <2>2, BookedPut
<1>7. ASSUME NEW d \in Devices, NEW t \in Transactions, NEW r \in Users,
             NEW rd \in Devices \union {NoDevice}, Fill(w, d, t, r, rd)
      PROVE  Booked'
  <2>1. /\ Request("fill", w, CreateOps(t, "initialized", d, r, rd))
        /\ UNCHANGED <<tx, linked, register_status, listed, reached>>
        /\ owner[d] = tx[t].sender
        /\ tx[t].status \in {"none", "empty"} \/ r = tx[t].recipient \/ register_status[r] # "ghost"
    BY <1>7 DEF Fill, Fillable, docs, accounts, stats
  <2> QED
    BY <2>1, BookedCreate
<1>8. ASSUME NEW d \in Devices, NEW e \in Devices, DeleteDevice(w, d, e) PROVE Booked'
  <2> DEFINE find == CancelFind(owner[d], e)
             end == [op |-> "end_session", device |-> e]
             ops == <<find, end>>
  <2>1. /\ Request("delete_device", w, ops) /\ find.op = "cancel_find" /\ end.op = "end_session"
        /\ Items(ops) = {find, end}
        /\ UNCHANGED <<tx, linked, register_status, listed, reached>>
    BY <1>8, ItemsFew DEF DeleteDevice, CancelFind, docs, stats
  <2> HIDE DEF ops, find, end
  <2> QED
    BY <2>1, BookedRequest DEF BookKinds
<1>9. ASSUME NEW d \in Devices, DeleteUser(w, d) PROVE Booked'
  <2> DEFINE find == CancelFind(owner[d], NoDevice)
             remove == [op |-> "remove_devices", user |-> owner[d]]
             delete == [op |-> "delete", user |-> owner[d]]
             ops == <<find, remove, delete>>
  <2>1. /\ Request("delete_user", w, ops) /\ find.op = "cancel_find"
        /\ remove.op = "remove_devices" /\ delete.op = "delete"
        /\ Items(ops) = {find, remove, delete}
        /\ UNCHANGED <<tx, linked, register_status, listed, reached>>
    BY <1>9, ItemsFew DEF DeleteUser, LeaveOps, CancelFind, docs, stats
  <2> HIDE DEF ops, find, remove, delete
  <2> QED
    BY <2>1, BookedRequest DEF BookKinds
<1>10. ASSUME NEW d \in Devices, ChangePassword(w, d) PROVE Booked'
  <2> DEFINE find == CancelFind(owner[d], NoDevice)
             ops == <<find>>
  <2>1. /\ Request("change_password", w, ops) /\ find.op = "cancel_find" /\ Items(ops) = {find}
        /\ UNCHANGED <<tx, linked, register_status, listed, reached>>
    BY <1>10, ItemsOne DEF ChangePassword, LeaveOps, CancelFind, docs, stats
  <2> HIDE DEF ops, find
  <2> QED
    BY <2>1, BookedRequest DEF BookKinds
<1>11. ASSUME NEW d \in Devices, Login(w, d) PROVE Booked'
  <2>1. Request("login", w, << >>) /\ UNCHANGED <<tx, linked, register_status, listed, reached>>
    BY <1>11 DEF Login, docs, stats
  <2> QED
    BY <2>1, Empty, BookedRequest
<1>12. ASSUME NEW d \in Devices, NEW g \in Users, MergeGhost(w, d, g) PROVE Booked'
  BY <1>12, BookedMerge
<1> QED
  BY <1>1, <1>2, <1>3, <1>4, <1>5, <1>6, <1>7, <1>8, <1>9, <1>10, <1>11, <1>12, ZenonT(60)
  DEF Receive

\* A writer at the head of the script is the only one, and nothing is inserted behind
\* the head.
LEMMA Headed ==
  ASSUME IInv, SInv, Laid, Serial, NEW w \in Workers, todo[w] # << >>
  PROVE  LET o == Head(todo[w]) IN
         /\ Left = {o} \union Behind(w) /\ o \in Left /\ o \in Ops
         /\ \A b \in Behind(w) : Follows(o, b) /\ b \in Left /\ b \in Ops
         /\ o.op # "put" => \A x \in Transactions : ~Inserts(x)
         /\ o.op \notin Steady => \A t, s : Writes(t, s) => o.op = "write" /\ t = o.t /\ s = o.status
         /\ \A p, q \in Left : p.op \in Writers /\ q.op \in Writers => p = q
         /\ \A p \in Left : p.op \in Writers => Sound(p)
<1> DEFINE o == Head(todo[w])
           R == Behind(w)
<1>1. /\ Left = {o} \union R /\ Left \subseteq Ops
      /\ \A b \in R : Follows(o, b)
      /\ o.op \notin Steady => \A b \in R : b.op \notin Writers
      /\ \A p, q \in Left : p.op \in Writers /\ q.op \in Writers => p = q
      /\ \A p \in Left : p.op \in Writers => Sound(p)
  BY Served
<1> HIDE DEF o, R
<1>2. o.op # "put" => \A x \in Transactions : ~Inserts(x)
  BY <1>1 DEF Inserts, Follows
<1>3. o.op \notin Steady => \A t, s : Writes(t, s) => o.op = "write" /\ t = o.t /\ s = o.status
  BY <1>1 DEF Writes, Writers
<1>4. o \in Left /\ o \in Ops /\ \A b \in R : Follows(o, b) /\ b \in Left /\ b \in Ops
  BY <1>1
<1> QED
  BY <1>1, <1>2, <1>3, <1>4 DEF o, R

\* The insertion of the transaction keeps Booked.
LEMMA BookedInsert ==
  ASSUME IInv, SInv, Laid, Serial, Booked, NEW w \in Workers, Put(w)
  PROVE  Booked'
<1> DEFINE o == Head(todo[w])
           R == Behind(w)
<1>1. /\ todo[w] # << >> /\ o.op = "put" /\ tx' = [tx EXCEPT ![o.t] = o.doc] /\ Continue(w, << >>)
      /\ UNCHANGED <<linked, register_status, listed, reached>>
  BY DEF Put, At, accounts, stats
<1>2. /\ Left = {o} \union R /\ o \in Left /\ o \in Ops
      /\ \A b \in R : Follows(o, b)
      /\ \A t, s : ~Writes(t, s)
      /\ Sound(o) /\ TypeOK
  BY <1>1, Headed DEF Steady, Writers, IInv
<1>3. Left' = R
  BY <1>1, Shorter
<1>4. o \in PutOps
  BY <1>1, <1>2, OpKinds
<1> HIDE DEF o, R
<1>5. /\ o.t \in Transactions /\ o.doc.status \in {"created", "initialized"}
      /\ o.doc.status \in Statuses \ final /\ o.doc.sender \in Users /\ o.doc.recipient \in Users
  BY <1>4 DEF PutOps, Statuses, final
<1>6. tx'[o.t] = o.doc /\ \A x \in Transactions : x # o.t => tx'[x] = tx[x]
  BY <1>1, <1>2, <1>5 DEF TypeOK
<1>7. \A b \in R : b.op \in {"notify", "push"} /\ b \in Left
  BY <1>1, <1>2 DEF Follows
<1>8. \A t, s : ~Writes(t, s)'
  BY <1>3, <1>7 DEF Writes
<1>9. \A u, t : ~Pulls(u, t)
  BY <1>1, <1>2, <1>7 DEF Pulls
<1>10. tx[o.t].status # "finished" /\ reached[o.t] = 0
  <2>1. tx[o.t].status # "finished"
    BY <1>1, <1>2 DEF Sound
  <2>2. reached \in [Transactions -> 0..2]
    BY <1>2 DEF TypeOK
  <2> QED
    BY <1>2, <1>5, <2>1, <2>2 DEF Booked, Counting, Reaching
<1>11. /\ tx[o.t].status \in {"none", "empty"} \/
            /\ o.doc.sender = tx[o.t].sender
            /\ o.doc.recipient = tx[o.t].recipient \/ register_status[o.doc.recipient] # "ghost"
       /\ \A p \in Left : p.op = "push" /\ p.list = "pending" => p.t = o.t /\ p.user = o.doc.sender
  BY <1>1, <1>2 DEF Booked, Putting
<1>12. Settled'
  BY <1>1, <1>2, <1>5, <1>6, <1>8, <1>9 DEF Booked, Settled, Ending, involved
<1>13. Unseen'
  BY <1>1, <1>5, <1>6 DEF Booked, Unseen
<1>14. Ghostly'
  <2> SUFFICES ASSUME NEW t \in Transactions, NEW u \in Users, t \in listed[u].pending,
                      u # tx'[t].sender
               PROVE  /\ register_status[tx'[t].recipient] # "ghost"
                      /\ \A p \in Left' : p.op = "take_over" => p.ghost # tx'[t].recipient
    BY <1>1 DEF Ghostly
  <2>1. \A p \in Left' : p.op # "take_over"
    BY <1>3, <1>7
  <2>2. register_status[tx'[t].recipient] # "ghost"
    <3>1. CASE t # o.t
      BY <1>6, <3>1 DEF Booked, Ghostly
    <3>2. CASE t = o.t
      BY <1>5, <1>6, <1>11, <3>2 DEF Booked, Ghostly, Unseen
    <3> QED
      BY <3>1, <3>2
  <2> QED
    BY <2>1, <2>2
<1>15. Pushing'
  BY <1>3, <1>5, <1>6, <1>7, <1>8, <1>11 DEF Pushing, exists
<1>16. Putting'
  BY <1>3, <1>7 DEF Putting
<1>17. Counting'
  BY <1>1, <1>3, <1>6, <1>7, <1>10, <1>2 DEF Booked, Counting, Reaching
<1> QED
  BY <1>12, <1>13, <1>14, <1>15, <1>16, <1>17 DEF Booked

\* The writing of a status keeps Booked.
LEMMA BookedWrite ==
  ASSUME IInv, SInv, Laid, Serial, Booked, NEW w \in Workers, Write(w)
  PROVE  Booked'
<1> DEFINE o == Head(todo[w])
           R == Behind(w)
           note == Notify(o.t, Written(o))
<1>1. /\ todo[w] # << >> /\ o \in WriteOps /\ o.op = "write" /\ exists(o.t)
      /\ tx' = [tx EXCEPT ![o.t] = Written(o)] /\ tx[o.t] \in Documents
      /\ linked' = IF o.link THEN linked \union {o.t} ELSE linked
      /\ Left' = {note} \union R /\ note.op = "notify"
  BY WriteItems
<1>2. /\ Left = {o} \union R /\ o \in Left
      /\ \A b \in R : Follows(o, b)
      /\ \A t, s : Writes(t, s) => t = o.t /\ s = o.status
      /\ \A x \in Transactions : ~Inserts(x)
      /\ Sound(o) /\ TypeOK
  BY <1>1, Headed DEF Steady, Writers, IInv
<1>3. UNCHANGED <<register_status, listed, reached>>
  BY DEF Write, accounts, stats
<1> HIDE DEF o, R, note
<1>4. o.t \in Transactions /\ o.status \in Statuses
  BY <1>1 DEF WriteOps
<1>5. /\ tx'[o.t].status = o.status /\ tx'[o.t].sender = tx[o.t].sender
      /\ tx'[o.t].recipient = tx[o.t].recipient
      /\ \A x \in Transactions : x # o.t => tx'[x] = tx[x]
  BY <1>1, <1>2, <1>4 DEF TypeOK, Documents, Written
<1>6. \A b \in R : b.op \notin {"write", "put"} /\ b \in Left
  BY <1>1, <1>2, Headed, Served DEF Follows, Steady, Writers, o, R
<1>7. \A t, s : ~Writes(t, s)'
  BY <1>1, <1>6 DEF Writes
<1>8. Writes(o.t, o.status)
  BY <1>1, <1>2 DEF Writes
<1>9. \A u, t : Pulls(u, t) => Pulls(u, t)'
  BY <1>1, <1>2 DEF Pulls
<1>10. tx[o.t].status # "finished"
  BY <1>1, <1>2 DEF Sound, final, Abstract!Pending
<1>11. Settled'
  <2>1. \A t \in Transactions : Ending(t)' => Ending(t)
    BY <1>5, <1>7, <1>8 DEF Ending
  <2>2. linked \subseteq linked'
    BY <1>1
  <2>3. \A t \in Transactions : \A u : involved(u, t)' <=> involved(u, t)
    BY <1>5 DEF involved
  <2> QED
    BY <1>3, <1>9, <2>1, <2>2, <2>3 DEF Booked, Settled
<1>12. Unseen'
  BY <1>1, <1>3, <1>4, <1>5 DEF Booked, Unseen, Statuses
<1>13. Ghostly'
  BY <1>1, <1>2, <1>3, <1>5 DEF Booked, Ghostly
<1>14. Pushing'
  <2> SUFFICES ASSUME NEW p \in Left', p.op = "push", p.list = "pending"
               PROVE  /\ exists(p.t)' /\ tx'[p.t].status \notin final
                      /\ p.user = tx'[p.t].sender \/ tx'[p.t].recipient \notin Ghosts
    BY <1>7 DEF Pushing
  <2>1. p \in Left
    BY <1>1, <1>2
  <2>2. p.t \in Transactions
    BY <2>1, Ground, OpKinds DEF StatOps
  <2>3. /\ \A s \in final : ~Writes(p.t, s)
        /\ exists(p.t) /\ tx[p.t].status \notin final
        /\ p.user = tx[p.t].sender \/ tx[p.t].recipient \notin Ghosts
    BY <1>2, <2>1, <2>2 DEF Booked, Pushing
  <2> QED
    BY <1>4, <1>5, <1>8, <2>2, <2>3 DEF exists
<1>15. Putting'
  BY <1>1, <1>6 DEF Putting
<1>16. Counting'
  <2>1. \A t \in Transactions : Reaching(t) => Reaching(t)'
    BY <1>2, <1>5, <1>10 DEF Reaching
  <2>2. \A p \in Left : p.op = "count" => p.t \in Transactions
    BY Ground, OpKinds DEF CountOps
  <2> QED
    BY <1>1, <1>2, <1>3, <2>1, <2>2 DEF Booked, Counting
<1> QED
  BY <1>11, <1>12, <1>13, <1>14, <1>15, <1>16 DEF Booked

\* The entry of a transaction in the lists keeps Booked.
LEMMA BookedPush ==
  ASSUME IInv, SInv, Laid, Serial, Booked, NEW w \in Workers, PushStat(w)
  PROVE  Booked'
<1> DEFINE o == Head(todo[w])
           R == Behind(w)
<1>1. /\ todo[w] # << >> /\ o.op = "push" /\ Continue(w, << >>)
      /\ listed' = [listed EXCEPT ![o.user][o.list] = @ \union {o.t}]
      /\ UNCHANGED <<tx, linked, register_status, reached>>
  BY DEF PushStat, At, docs, accounts
<1>2. /\ Left = {o} \union R /\ o \in Left /\ o \in Ops
      /\ \A x \in Transactions : ~Inserts(x) /\ TypeOK
  BY <1>1, Headed DEF IInv
<1>3. Left' = R
  BY <1>1, Shorter
<1>4. o \in StatOps
  BY <1>1, <1>2, OpKinds
<1> HIDE DEF o, R
<1>5. o.user \in Users /\ o.list \in Lists /\ o.t \in Transactions
  BY <1>4 DEF StatOps
<1>6. \A u \in Users : listed'[u].pending = IF u = o.user /\ o.list = "pending"
                                              THEN listed[u].pending \union {o.t}
                                              ELSE listed[u].pending
  BY ZenonT(30), <1>1, <1>2, <1>5 DEF TypeOK, Lists
<1>7. /\ \A t, s : Writes(t, s)' <=> Writes(t, s)
      /\ \A t : Inserts(t)' <=> Inserts(t)
      /\ \A u, t : Pulls(u, t)' <=> Pulls(u, t)
  BY <1>1, <1>2, <1>3 DEF Writes, Inserts, Pulls
<1>8. o.list = "pending" =>
        /\ \A s \in final : ~Writes(o.t, s)
        /\ exists(o.t) /\ tx[o.t].status \notin final
        /\ o.user = tx[o.t].sender \/ tx[o.t].recipient \notin Ghosts
  BY <1>1, <1>2, <1>5 DEF Booked, Pushing
<1>9. Settled'
  <2> SUFFICES ASSUME NEW t \in Transactions, NEW u \in Users, t \notin linked, Ending(t)',
                      involved(u, t), t \in listed'[u].pending
               PROVE  Pulls(u, t)
    BY <1>1, <1>7 DEF Settled, involved
  <2>1. Ending(t)
    BY <1>1, <1>7 DEF Ending
  <2>2. t \in listed[u].pending
    <3>1. o.list = "pending" => ~Ending(o.t)
      BY <1>8 DEF Ending
    <3> QED
      BY <1>6, <2>1, <3>1
  <2> QED
    BY <2>1, <2>2 DEF Booked, Settled
<1>10. Unseen'
  BY <1>1, <1>6, <1>8 DEF Booked, Unseen, exists, Statuses
<1>11. Ghostly'
  <2> SUFFICES ASSUME NEW t \in Transactions, NEW u \in Users, t \in listed'[u].pending,
                      u # tx[t].sender
               PROVE  /\ register_status[tx[t].recipient] # "ghost"
                      /\ \A p \in Left' : p.op = "take_over" => p.ghost # tx[t].recipient
    BY <1>1 DEF Ghostly
  <2>1. CASE t \in listed[u].pending
    BY <1>2, <1>3, <2>1 DEF Booked, Ghostly
  <2>2. CASE t \notin listed[u].pending
    <3>1. t = o.t /\ u = o.user /\ tx[t].recipient \notin Ghosts
      BY <1>6, <1>8, <2>2
    <3>2. tx[t].recipient \in Users
      BY <1>2, <1>6, <1>8, <2>2, <3>1 DEF TypeOK
    <3> QED
      BY <1>2, <1>3, <3>1, <3>2 DEF Laid, Folk
  <2> QED
    BY <2>1, <2>2
<1>12. Pushing' /\ Putting'
  BY <1>1, <1>2, <1>3, <1>7 DEF Booked, Pushing, Putting, exists
<1>13. Counting'
  BY <1>1, <1>2, <1>3, <1>7 DEF Booked, Counting, Reaching
<1> QED
  BY <1>9, <1>10, <1>11, <1>12, <1>13 DEF Booked

\* The removal of a transaction from the lists keeps Booked.
LEMMA BookedPull ==
  ASSUME IInv, SInv, Laid, Serial, Booked, NEW w \in Workers, PullStat(w)
  PROVE  Booked'
<1> DEFINE o == Head(todo[w])
           R == Behind(w)
<1>1. /\ todo[w] # << >> /\ o.op = "pull" /\ Continue(w, << >>)
      /\ listed' = [listed EXCEPT ![o.user][o.list] = @ \ {o.t}]
      /\ UNCHANGED <<tx, linked, register_status, reached>>
  BY DEF PullStat, At, docs, accounts
<1>2. Left = {o} \union R /\ o \in Left /\ o \in Ops /\ TypeOK
  BY <1>1, Headed DEF IInv
<1>3. Left' = R
  BY <1>1, Shorter
<1>4. o \in StatOps
  BY <1>1, <1>2, OpKinds
<1> HIDE DEF o, R
<1>5. o.user \in Users /\ o.list \in Lists /\ o.t \in Transactions
  BY <1>4 DEF StatOps
<1>6. \A u \in Users : listed'[u].pending = IF u = o.user /\ o.list = "pending"
                                              THEN listed[u].pending \ {o.t}
                                              ELSE listed[u].pending
  BY ZenonT(30), <1>1, <1>2, <1>5 DEF TypeOK, Lists
<1>7. /\ \A t, s : Writes(t, s)' <=> Writes(t, s)
      /\ \A t : Inserts(t)' <=> Inserts(t)
      /\ \A u, t : Pulls(u, t) => Pulls(u, t)' \/ (u = o.user /\ o.list = "pending" /\ t = o.t)
  BY <1>1, <1>2, <1>3 DEF Writes, Inserts, Pulls
<1>8. Settled'
  <2> SUFFICES ASSUME NEW t \in Transactions, NEW u \in Users, t \notin linked, Ending(t)',
                      involved(u, t), t \in listed'[u].pending
               PROVE  Pulls(u, t)'
    BY <1>1 DEF Settled, involved
  <2>1. Ending(t)
    BY <1>1, <1>7 DEF Ending
  <2>2. t \in listed[u].pending /\ ~(u = o.user /\ o.list = "pending" /\ t = o.t)
    BY <1>6
  <2> QED
    BY <1>7, <2>1, <2>2 DEF Booked, Settled
<1>9. Unseen' /\ Ghostly'
  BY <1>1, <1>2, <1>3, <1>6 DEF Booked, Unseen, Ghostly
<1>10. Pushing' /\ Putting'
  BY <1>1, <1>2, <1>3, <1>7 DEF Booked, Pushing, Putting, exists
<1>11. Counting'
  BY <1>1, <1>2, <1>3, <1>7 DEF Booked, Counting, Reaching
<1> QED
  BY <1>8, <1>9, <1>10, <1>11 DEF Booked

\* The count of a download keeps Booked.
LEMMA BookedCount ==
  ASSUME IInv, SInv, Laid, Serial, Booked, ReachedOnce, NEW w \in Workers, Count(w)
  PROVE  Booked' /\ ReachedOnce'
<1> DEFINE o == Head(todo[w])
           R == Behind(w)
<1>1. /\ todo[w] # << >> /\ o.op = "count" /\ Continue(w, << >>)
      /\ reached' = [reached EXCEPT ![o.t] = IF @ = 2 THEN 2 ELSE @ + 1]
      /\ UNCHANGED <<tx, linked, register_status, listed>>
  BY DEF Count, At, docs, accounts, stats
<1>2. Left = {o} \union R /\ o \in Left /\ o \in Ops /\ TypeOK /\ \A b \in R : Follows(o, b)
  BY <1>1, Headed DEF IInv
<1>3. Left' = R
  BY <1>1, Shorter
<1>4. o \in CountOps
  BY <1>1, <1>2, OpKinds
<1> HIDE DEF o, R
<1>5. o.t \in Transactions
  BY <1>4 DEF CountOps
<1>6. reached[o.t] = 0 /\ Reaching(o.t)
  BY <1>1, <1>2 DEF Booked, Counting
<1>7. reached'[o.t] = 1 /\ \A t \in Transactions : t # o.t => reached'[t] = reached[t]
  BY <1>1, <1>2, <1>5, <1>6 DEF TypeOK
<1>8. /\ \A t, s : Writes(t, s)' <=> Writes(t, s)
      /\ \A t : Inserts(t)' <=> Inserts(t)
      /\ \A u, t : Pulls(u, t)' <=> Pulls(u, t)
  BY <1>1, <1>2, <1>3 DEF Writes, Inserts, Pulls
<1>9. \A b \in R : b.op # "count"
  BY <1>1, <1>2 DEF Follows
<1>10. Settled'
  BY <1>1, <1>8 DEF Booked, Settled, Ending, involved
<1>11. Unseen' /\ Ghostly'
  BY <1>1, <1>2, <1>3 DEF Booked, Unseen, Ghostly
<1>12. Pushing' /\ Putting'
  BY <1>1, <1>2, <1>3, <1>8 DEF Booked, Pushing, Putting, exists
<1>13. Counting'
  BY <1>1, <1>3, <1>6, <1>7, <1>8, <1>9 DEF Booked, Counting, Reaching
<1>14. ReachedOnce'
  BY <1>5, <1>7 DEF ReachedOnce
<1> QED
  BY <1>10, <1>11, <1>12, <1>13, <1>14 DEF Booked

\* The handing over of a transaction keeps Booked.
LEMMA BookedTakeOver ==
  ASSUME IInv, SInv, Laid, Serial, Booked, NEW w \in Workers, TakeOver(w)
  PROVE  Booked'
<1> DEFINE o == Head(todo[w])
           R == Behind(w)
<1>1. /\ todo[w] # << >> /\ o.op = "take_over" /\ o.user \in Users
      /\ \/ UNCHANGED tx /\ Left' = R
         \/ \E t \in Transactions :
              /\ exists(t) /\ tx[t].recipient = o.ghost /\ tx[t] \in Documents
              /\ tx' = [tx EXCEPT ![t] = Taken(o, t)]
              /\ Left' = (IF tx[t].status = "created" THEN {} ELSE {Notify(t, Taken(o, t))})
                           \union Left
  BY TakeOverItems
<1>2. /\ Left = {o} \union R /\ o \in Left /\ TypeOK
      /\ \A b \in R : Follows(o, b)
      /\ \A t, s : ~Writes(t, s)
  BY <1>1, Headed DEF IInv, Steady
<1>3. UNCHANGED <<linked, register_status, listed, reached>>
  BY DEF TakeOver, accounts, stats
<1>4. o.user \notin Ghosts /\ \A p \in Left : p.op = "take_over" => p.ghost \in Ghosts
  BY <1>1, <1>2 DEF Laid, Folk
<1>5. \A b \in R : b.op \in {"merge", "take_over"}
  BY <1>1, <1>2 DEF Follows
<1> HIDE DEF o, R
<1>6. CASE UNCHANGED tx /\ Left' = R
  BY <1>1, <1>2, <1>3, <1>6, BookedStays
<1>7. ASSUME NEW t \in Transactions, exists(t), tx[t].recipient = o.ghost, tx[t] \in Documents,
             tx' = [tx EXCEPT ![t] = Taken(o, t)],
             Left' = (IF tx[t].status = "created" THEN {} ELSE {Notify(t, Taken(o, t))}) \union Left
      PROVE  Booked'
  <2>1. /\ tx'[t].status = tx[t].status /\ tx'[t].sender = tx[t].sender
        /\ tx'[t].recipient = o.user
        /\ \A x \in Transactions : x # t => tx'[x] = tx[x]
    BY <1>2, <1>7 DEF TypeOK, Documents, Taken
  <2>2. /\ \A x \in Left' : x \in Left \/ x.op = "notify"
        /\ Left \subseteq Left'
    BY <1>7 DEF Notify
  <2>3. /\ \A x, s : ~Writes(x, s)'
        /\ \A u, x : Pulls(u, x) => Pulls(u, x)'
        /\ \A p \in Left' : p.op \in {"merge", "take_over", "notify"}
    BY <1>1, <1>2, <1>5, <2>2 DEF Writes, Pulls
  <2>4. Settled'
    <3> SUFFICES ASSUME NEW x \in Transactions, NEW u \in Users, x \notin linked, Ending(x)',
                        involved(u, x)', x \in listed[u].pending
                 PROVE  Pulls(u, x)'
      BY <1>3 DEF Settled
    <3>1. Ending(x)
      BY <2>1, <2>3 DEF Ending
    <3>2. CASE x # t
      BY <2>1, <2>3, <3>1, <3>2 DEF Booked, Settled, involved
    <3>3. CASE x = t
      <4>1. u = tx[t].sender
        BY <1>1, <1>2, <1>7, <3>3 DEF Booked, Ghostly
      <4> QED
        BY <2>3, <3>1, <3>3, <4>1 DEF Booked, Settled, involved
    <3> QED
      BY <3>2, <3>3
  <2>5. Unseen'
    BY <1>3, <2>1 DEF Booked, Unseen
  <2>6. Ghostly'
    <3> SUFFICES ASSUME NEW x \in Transactions, NEW u \in Users, x \in listed[u].pending,
                        u # tx'[x].sender
                 PROVE  /\ register_status[tx'[x].recipient] # "ghost"
                        /\ \A p \in Left' : p.op = "take_over" => p.ghost # tx'[x].recipient
      BY <1>3 DEF Ghostly
    <3>1. CASE x # t
      BY <2>1, <2>2, <3>1 DEF Booked, Ghostly
    <3>2. CASE x = t
      BY <1>1, <1>4, <2>1, <2>2, <3>2 DEF Laid, Folk
    <3> QED
      BY <3>1, <3>2
  <2>7. Pushing' /\ Putting'
    BY <2>3 DEF Pushing, Putting
  <2>8. Counting'
    BY <1>2, <1>3, <2>1, <2>3 DEF Booked, Counting, Reaching
  <2> QED
    BY <2>4, <2>5, <2>6, <2>7, <2>8 DEF Booked
<1> QED
  BY <1>1, <1>6, <1>7

\* The cancelation of one of the transactions found keeps Booked.
LEMMA BookedCancel ==
  ASSUME IInv, SInv, Laid, Serial, Booked, NEW w \in Workers, CancelNext(w)
  PROVE  Booked'
<1> DEFINE o == Head(todo[w])
           R == Behind(w)
           up(t) == Items(UpdateOps(t, "canceled", o.user, NoDevice))
           c(t) == Cancel(o.user, o.ts \ {t})
<1>1. /\ todo[w] # << >> /\ o.op = "cancel" /\ o.user \in Users /\ o.ts \subseteq Transactions
      /\ \/ Left' = R
         \/ Left' = {}
         \/ \E t \in o.ts : Left' = {c(t)} \union R
         \/ \E t \in o.ts : running(t) /\ Left' = (up(t) \union {c(t)}) \union R
  <2>1. todo[w] # << >> /\ o.op = "cancel" /\ o.user \in Users /\ o.ts \subseteq Transactions
    BY CancelItems
  <2>2. \/ Left' = R
        \/ Left' = {}
        \/ \E t \in o.ts : Left' = {c(t)} \union R
        \/ \E t \in o.ts : running(t) /\ Left' = (up(t) \union {c(t)}) \union R
    BY CancelItems
  <2> QED
    BY <2>1, <2>2
<1>2. /\ Left = {o} \union R /\ TypeOK
      /\ \A b \in R : Follows(o, b)
  BY <1>1, Headed DEF IInv
<1>3. UNCHANGED <<tx, linked, register_status, listed, reached>>
  BY DEF CancelNext, docs, accounts, stats
<1>4. \A t \in o.ts : c(t).op = "cancel"
  BY DEF Cancel
<1>5. \A b \in R : b.op \in {"end_session", "remove_devices", "delete"}
  BY <1>1, <1>2 DEF Follows
<1>6. \A x \in Left : x.op \notin BookKinds
  BY <1>1, <1>2, <1>5 DEF BookKinds
<1>7. ASSUME NEW t \in o.ts, running(t)
      PROVE  /\ \A x \in up(t) : \/ x = Updated(t, "canceled", NoDevice)
                                 \/ x.op \in {"pull", "clear_has", "clear_activity"}
             /\ \A v \in {tx[t].sender, tx[t].recipient} : Pull(v, t) \in up(t)
  <2>1. t \in Transactions /\ exists(t) /\ "canceled" \in Statuses /\ "canceled" \in final
    BY <1>1, <1>7 DEF running, Statuses, final
  <2>2. \A x \in up(t) : x = Updated(t, "canceled", NoDevice) \/ Counted(x, t, "canceled", o.user)
    BY <1>1, <1>2, <2>1, UpdateItems
  <2>3. \A v \in {tx[t].sender, tx[t].recipient} : Pull(v, t) \in up(t)
    BY <1>1, <1>2, <2>1, UpdateItems
  <2> HIDE DEF o, up
  <2> QED
    BY <2>2, <2>3 DEF Counted, Completes
<1> HIDE DEF o, R, up, c
<1>8. CASE \A x \in Left' : x.op \notin BookKinds
  BY <1>3, <1>6, <1>8, BookedStays DEF BookKinds
<1>9. ASSUME NEW t \in o.ts, running(t), Left' = (up(t) \union {c(t)}) \union R
      PROVE  Booked'
  <2> DEFINE p == Updated(t, "canceled", NoDevice)
  <2>1. p.op = "write" /\ p.t = t /\ p.status = "canceled"
    BY DEF Updated, NewStatus
  <2> HIDE DEF p
  <2>2. \A x \in Left' : x = p \/ x.op \in {"pull", "clear_has", "clear_activity", "cancel",
                                            "end_session", "remove_devices", "delete"}
    BY <1>4, <1>5, <1>7, <1>9 DEF p
  <2>3. /\ \A a, b : Writes(a, b)' => a = t /\ b = "canceled"
        /\ \A a, b : ~Writes(a, b)
        /\ \A u, a : ~Pulls(u, a)
    BY <1>6, <2>1, <2>2 DEF Writes, Pulls, BookKinds
  <2>4. \A v \in {tx[t].sender, tx[t].recipient} : Pulls(v, t)'
    <3>1. \A v \in {tx[t].sender, tx[t].recipient} : Pull(v, t) \in Left'
      BY <1>7, <1>9
    <3> QED
      BY <3>1 DEF Pulls, Pull
  <2>5. Settled'
    <3> SUFFICES ASSUME NEW x \in Transactions, NEW u \in Users, x \notin linked, Ending(x)',
                        involved(u, x), x \in listed[u].pending
                 PROVE  Pulls(u, x)'
      BY <1>3 DEF Settled, involved
    <3>1. CASE x = t
      BY <2>4, <3>1 DEF involved
    <3>2. CASE x # t
      <4>1. Ending(x)
        BY <1>3, <2>3, <3>2 DEF Ending
      <4> QED
        BY <2>3, <4>1 DEF Booked, Settled
    <3> QED
      BY <3>1, <3>2
  <2>6. Unseen' /\ Ghostly'
    BY <1>3, <2>1, <2>2 DEF Booked, Unseen, Ghostly
  <2>7. Pushing' /\ Putting'
    BY <2>1, <2>2 DEF Pushing, Putting
  <2>8. Counting'
    BY <1>3, <2>1, <2>2, <2>3 DEF Booked, Counting, Reaching
  <2> QED
    BY <2>5, <2>6, <2>7, <2>8 DEF Booked
<1>10. (\A x \in Left' : x.op \notin BookKinds)
       \/ \E t \in o.ts : running(t) /\ Left' = (up(t) \union {c(t)}) \union R
  BY <1>1, <1>4, <1>5 DEF BookKinds
<1> QED
  BY <1>8, <1>9, <1>10

\* Each operation of a request keeps Booked.
LEMMA BookedServe ==
  ASSUME IInv, SInv, Laid, Serial, Booked, ReachedOnce, NEW w \in Workers, Serve(w)
  PROVE  Booked' /\ ReachedOnce'
<1> DEFINE o == Head(todo[w])
           R == Behind(w)
<1>0. todo[w] # << >> => Left = {o} \union R
  BY Served
<1>1. CASE Put(w) \/ Write(w) \/ PushStat(w) \/ PullStat(w) \/ TakeOver(w) \/ CancelNext(w)
  <2>1. Booked'
    BY <1>1, BookedInsert, BookedWrite, BookedPush, BookedPull, BookedTakeOver, BookedCancel
  <2>2. UNCHANGED reached
    BY <1>1 DEF Put, Write, PushStat, PullStat, TakeOver, CancelNext
  <2> QED
    BY <2>1, <2>2 DEF ReachedOnce
<1>2. CASE Count(w)
  BY <1>2, BookedCount
<1>3. CASE SendNotification(w) \/ ClearHas(w) \/ ClearActivity(w) \/ EndSession(w)
  <2>1. /\ todo[w] # << >> /\ Continue(w, << >>)
        /\ o.op \in {"notify", "clear_has", "clear_activity", "end_session"}
        /\ UNCHANGED <<tx, linked, register_status, listed, reached>>
    BY <1>3 DEF SendNotification, ClearHas, ClearActivity, EndSession, At, docs, accounts, stats
  <2>2. Left' = R
    BY <2>1, Shorter
  <2> HIDE DEF o, R
  <2> QED
    BY <1>0, <2>1, <2>2, BookedStays DEF ReachedOnce
<1>4. CASE ClearAccount(w)
  <2>1. /\ todo[w] # << >> /\ Continue(w, << >>) /\ o.op \in {"remove_devices", "delete", "merge"}
        /\ UNCHANGED <<tx, linked, listed, reached>>
        /\ register_status' = [register_status EXCEPT ![o.user] =
                                 CASE o.op = "delete" -> "deleted"
                                   [] o.op = "merge" -> "merged"
                                   [] OTHER -> register_status[o.user]]
    BY <1>4 DEF ClearAccount, docs, stats
  <2>2. Left' = R
    BY <2>1, Shorter
  <2> HIDE DEF o, R
  <2>3. \A u \in Users : register_status'[u] = "ghost" => register_status[u] = "ghost"
    BY <2>1 DEF IInv, TypeOK
  <2> QED
    BY <1>0, <2>1, <2>2, <2>3, BookedStays DEF ReachedOnce
<1>5. CASE WritePaused(w)
  <2>1. todo[w] # << >> /\ o.op = "pause" /\ Left' = {Notify(o.t, tx[o.t])} \union R
    BY <1>5, PauseItems
  <2>2. /\ Notify(o.t, tx[o.t]).op = "notify"
        /\ UNCHANGED <<tx, linked, register_status, listed, reached>>
    BY <1>5 DEF WritePaused, accounts, stats, Notify
  <2> HIDE DEF o, R
  <2> QED
    BY <1>0, <2>1, <2>2, BookedStays DEF ReachedOnce, BookKinds
<1>6. CASE FindTransactions(w)
  <2>1. todo[w] # << >> /\ o.op = "cancel_find" /\ Left' = {Cancel(o.user, Found(o))} \union R
    BY <1>6, FindItems
  <2>2. /\ Cancel(o.user, Found(o)).op = "cancel"
        /\ UNCHANGED <<tx, linked, register_status, listed, reached>>
    BY <1>6 DEF FindTransactions, docs, accounts, stats, Cancel
  <2> HIDE DEF o, R
  <2> QED
    BY <1>0, <2>1, <2>2, BookedStays DEF ReachedOnce, BookKinds
<1> QED
  BY <1>1, <1>2, <1>3, <1>4, <1>5, <1>6 DEF Serve

\* A process that died leaves what it had begun: nothing but the counters is promised.
Books == ReachedOnce /\ (Alive => Booked)

\* A request starts on an idle process, and counts nobody yet.
LEMMA Received ==
  ASSUME NEW w \in Workers, Receive(w)
  PROVE  todo[w] = << >> /\ UNCHANGED <<reached, told>>
<1> DEFINE Start == todo[w] = << >> /\ UNCHANGED <<reached, told>>
<1>1. ASSUME NEW t \in Transactions, Download(w, t) PROVE Start
  BY <1>1 DEF Download, Request
<1>2. ASSUME NEW d \in Devices, NEW t \in Transactions, CreateEmpty(w, d, t) PROVE Start
  BY <1>2 DEF CreateEmpty, Request
<1>3. ASSUME NEW d \in Devices, NEW t \in Transactions, NEW s \in Asked, Update(w, d, t, s)
      PROVE  Start
  BY <1>3 DEF Update, Request
<1>4. ASSUME NEW d \in Devices, NEW t \in Transactions, NEW p \in BOOLEAN, Pause(w, d, t, p)
      PROVE  Start
  BY <1>4 DEF Pause, Request
<1>5. ASSUME NEW d \in Devices, NEW t \in Transactions, NEW r \in Users, Create(w, d, t, r)
      PROVE  Start
  BY <1>5 DEF Create, Request
<1>6. ASSUME NEW d \in Devices, NEW t \in Transactions, NEW r \in Users, Bare(w, d, t, r)
      PROVE  Start
  BY <1>6 DEF Bare, Request
<1>7. ASSUME NEW d \in Devices, NEW t \in Transactions, NEW r \in Users,
             NEW rd \in Devices \union {NoDevice}, Fill(w, d, t, r, rd)
      PROVE  Start
  BY <1>7 DEF Fill, Request
<1>8. ASSUME NEW d \in Devices, NEW e \in Devices, DeleteDevice(w, d, e) PROVE Start
  BY <1>8 DEF DeleteDevice, Request
<1>9. ASSUME NEW d \in Devices, DeleteUser(w, d) \/ ChangePassword(w, d) PROVE Start
  BY <1>9 DEF DeleteUser, ChangePassword, LeaveOps, Request
<1>10. ASSUME NEW d \in Devices, Login(w, d) PROVE Start
  BY <1>10 DEF Login, Request
<1>11. ASSUME NEW d \in Devices, NEW g \in Users, MergeGhost(w, d, g) PROVE Start
  BY <1>11 DEF MergeGhost, Request
<1> HIDE DEF Start
<1>12. Start
  BY <1>1, <1>2, <1>3, <1>4, <1>5, <1>6, <1>7, <1>8, <1>9, <1>10, <1>11, ZenonT(60) DEF Receive
<1> QED
  BY <1>12 DEF Start

\* One process: whoever serves is alive, and one that died serves nobody.
LEMMA Living ==
  ASSUME Serial, NEW w \in Workers
  PROVE  /\ Receive(w) \/ Serve(w) => Alive
         /\ Crash(w) => UNCHANGED <<docs, accounts, stats, reached, told>>
         /\ IInv /\ Crash(w) => ~Alive'
<1>1. ASSUME Receive(w) \/ Serve(w) PROVE Alive
  <2>1. Receive(w) => todo[w] = << >>
    BY Received
  <2>2. Serve(w) => Head(todo[w]).op # "dead"
    <3>1. Put(w) \/ Write(w) \/ WritePaused(w) \/ SendNotification(w) \/ PushStat(w) \/ PullStat(w)
          => Head(todo[w]).op # "dead"
      BY DEF Put, Write, WritePaused, SendNotification, PushStat, PullStat, At
    <3>2. ClearHas(w) \/ ClearActivity(w) \/ Count(w) \/ EndSession(w) \/ TakeOver(w) \/ ClearAccount(w)
          => Head(todo[w]).op # "dead"
      BY DEF ClearHas, ClearActivity, Count, EndSession, TakeOver, ClearAccount, At
    <3>3. FindTransactions(w) \/ CancelNext(w) => Head(todo[w]).op # "dead"
      BY DEF FindTransactions, CancelNext, At
    <3> QED
      BY <3>1, <3>2, <3>3 DEF Serve
  <2> QED
    BY <1>1, <2>1, <2>2 DEF Alive, At, Serial
<1>2. ASSUME IInv, Crash(w) PROVE ~Alive'
  <2>1. todo'[w] = <<Dead>>
    BY <1>2 DEF Crash, IInv, TypeOK
  <2> QED
    BY <2>1 DEF Alive, At, Dead
<1>3. Crash(w) => UNCHANGED <<docs, accounts, stats, reached, told>>
  BY DEF Crash
<1> QED
  BY <1>1, <1>2, <1>3

\* The order and the folk, and what SerialRefinement has shown.
LEMMA ServedInOrder == ASSUME Serial PROVE Spec => [](IInv /\ SInv /\ Laid)
<1>1. Init => SInv /\ Laid
  <2> SUFFICES ASSUME Init PROVE SInv /\ Laid
    OBVIOUS
  <2>1. SInv
    BY DEF Init, SInv, Unused, Orderly, Absent
  <2>2. \A w \in Workers : todo[w] = << >>
    BY DEF Init
  <2>3. Left = {}
    BY <2>2, Empty DEF Left
  <2>4. \A w \in Workers : Chain(todo[w])
    BY <2>2, Empty
  <2>5. Folk
    BY <2>3 DEF Init, Folk
  <2> QED
    BY <2>1, <2>4, <2>5 DEF Laid
<1>2. IInv /\ SInv /\ Laid /\ [Next]_vars => SInv' /\ Laid'
  <2> SUFFICES ASSUME IInv, SInv, Laid, [Next]_vars PROVE SInv' /\ Laid'
    OBVIOUS
  <2>1. CASE UNCHANGED vars
    <3>1. UNCHANGED <<tx, linked, todo, devices, register_status>>
      BY <2>1 DEF vars, docs, accounts
    <3>2. \A w \in Workers : Orderly(todo[w])'
      BY <3>1, OrderlyStays DEF SInv
    <3>3. Left' = Left
      BY <3>1 DEF Left, Items
    <3>4. (\A v \in Workers : Chain(todo[v]))'
      BY <3>1 DEF Laid, Chain
    <3>5. Laid'
      BY <3>1, <3>3, <3>4, LaidStep
    <3> QED
      BY <3>1, <3>2, <3>5 DEF SInv, Unused
  <2>2. ASSUME NEW w \in Workers, Receive(w) PROVE SInv' /\ Laid'
    BY <2>2, ReceiveS, LaidReceive
  <2>3. ASSUME NEW w \in Workers, Serve(w) PROVE SInv' /\ Laid'
    BY <2>3, ServeS, LaidServe
  <2>4. ASSUME NEW w \in Workers, Crash(w) PROVE SInv' /\ Laid'
    <3>1. todo'[w] = <<Dead>> /\ UNCHANGED <<docs, devices, register_status>>
      BY <2>4 DEF Crash, IInv, TypeOK, accounts
    <3>2. Orderly(todo[w])'
      BY <3>1, QuietOrderly DEF Quiet, Dead, Writers
    <3>3. Unused'
      BY <3>1 DEF SInv, Unused, docs
    <3>4. (\A v \in Workers : Chain(todo[v]))'
      BY <3>1, ChainOne DEF Serial, Chain
    <3>5. Left' = {Dead}
      <4>1. {Items(todo'[v]) : v \in Workers} = {Items(<<Dead>>)}
        BY <3>1 DEF Serial
      <4>2. Left' = UNION {Items(todo'[v]) : v \in Workers}
        BY DEF Left, Items
      <4> QED
        BY <4>1, <4>2, ItemsOne
    <3>6. Laid'
      BY <3>1, <3>4, <3>5, LaidStep DEF Dead
    <3> QED
      BY <3>2, <3>3, <3>6 DEF SInv, Serial
  <2> QED
    BY <2>1, <2>2, <2>3, <2>4 DEF Next
<1>3. Spec => []IInv
  BY TypeCorrect DEF IInv
<1> QED
  BY <1>1, <1>2, <1>3, PTL DEF Spec

\* One process: what the statistics of the users say follows the transactions, whichever of
\* the many ways one ends, and none is counted as reached twice (transaction.py).
THEOREM AccountsFollow == ASSUME Serial PROVE Spec => []Accounted
<1>1. Init => Books
  <2> SUFFICES ASSUME Init PROVE Books
    OBVIOUS
  <2>1. \A w \in Workers : todo[w] = << >>
    BY DEF Init
  <2>2. Left = {}
    BY <2>1, Empty DEF Left
  <2>3. /\ \A t \in Transactions : reached[t] = 0 /\ tx[t].status = "none"
        /\ \A u \in Users : listed[u].pending = {}
    BY DEF Init, Absent, Lists
  <2>4. Booked
    BY <2>2, <2>3 DEF Booked, Settled, Unseen, Ghostly, Pushing, Putting, Counting
  <2> QED
    BY <2>3, <2>4 DEF Books, ReachedOnce
<1>2. IInv /\ SInv /\ Laid /\ Books /\ [Next]_vars => Books'
  <2> SUFFICES ASSUME IInv, SInv, Laid, Books, [Next]_vars PROVE Books'
    OBVIOUS
  <2>1. CASE UNCHANGED vars
    <3>1. UNCHANGED <<tx, linked, register_status, listed, reached, todo>>
      BY <2>1 DEF vars, docs, accounts, stats
    <3>2. Left' = Left /\ (Alive' <=> Alive)
      BY <3>1 DEF Left, Items, Alive, At
    <3> QED
      BY <3>1, <3>2, BookedStays DEF Books, ReachedOnce
  <2>2. ASSUME NEW w \in Workers, Receive(w) PROVE Books'
    <3>1. Alive
      BY <2>2, Living
    <3>2. Booked'
      BY <2>2, <3>1, BookedReceive DEF Books
    <3>3. UNCHANGED reached
      BY <2>2, Received
    <3> QED
      BY <3>2, <3>3 DEF Books, ReachedOnce
  <2>3. ASSUME NEW w \in Workers, Serve(w) PROVE Books'
    BY <2>3, Living, BookedServe DEF Books
  <2>4. ASSUME NEW w \in Workers, Crash(w) PROVE Books'
    BY <2>4, Living DEF Books, ReachedOnce
  <2> QED
    BY <2>1, <2>2, <2>3, <2>4 DEF Next
<1>3. IInv /\ Books => Accounted
  <2> SUFFICES ASSUME IInv, Books PROVE Accounted
    OBVIOUS
  <2>1. ASSUME AtRest, NEW t \in Transactions \ linked, tx[t].status \in final,
               NEW u \in {tx[t].sender, tx[t].recipient}
        PROVE  t \notin listed[u].pending
    <3>1. Alive /\ \A w \in Workers : todo[w] = << >>
      BY <2>1 DEF AtRest, Alive, At
    <3>2. Left = {}
      BY <3>1, Empty DEF Left
    <3>3. u \in Users
      BY <2>1 DEF IInv, TypeOK, exists, final, Statuses
    <3> QED
      BY <2>1, <3>1, <3>2, <3>3, BookedIdle DEF Books, involved
  <2> QED
    BY <2>1 DEF Accounted, FinalNotPending, Books
<1>4. Spec => [](IInv /\ SInv /\ Laid)
  BY ServedInOrder
<1> QED
  BY <1>1, <1>2, <1>3, <1>4, PTL DEF Spec
-----------------------------------------------------------------------------
(***************************************************************************)
(* LastNotificationCurrent.                                                *)
(***************************************************************************)

\* u knows the status of t, or a notification of it is left to send to him.
Will(t, u) == \/ told[t][u] = tx[t].status
              \/ \E o \in Left : o.op = "notify" /\ o.t = t /\ o.status = tx[t].status /\ u \in o.users

\* A file that was downloaded: nobody is told.
Moot(t) == t \in linked /\ tx[t].status = "finished"

Informing ==
  \A t \in Transactions : exists(t) /\ tx[t].status # "created" /\ ~Moot(t) =>
    /\ Will(t, tx[t].recipient)
    /\ tx[t].status # "initialized" => Will(t, tx[t].sender)

\* What is left to send is the status, unless the document is yet to be inserted.
Timely ==
  \A o \in Left : o.op = "notify" =>
    \/ Inserts(o.t)
    \/ (\A s : ~Writes(o.t, s)) /\ (Moot(o.t) \/ o.status = tx[o.t].status)

\* A document that is inserted as initialized comes with a notification to its recipient,
\* and none comes with another.
Announced ==
  \A o \in Left : o.op = "put" =>
    /\ \A p \in Left : p.op = "notify" => p.t = o.t /\ p.status = o.doc.status
    /\ o.doc.status = "initialized" =>
         \E p \in Left : p.op = "notify" /\ p.t = o.t /\ o.doc.recipient \in p.users

Posted == Informing /\ Timely /\ Announced

\* The operations the notifications depend on.
PostKinds == {"notify", "put", "write"}

\* Posted says nothing of what such a step changes.
LEMMA PostedStays ==
  ASSUME Posted, UNCHANGED <<tx, linked, told>>,
         \A x \in Left' : x \in Left \/ x.op \notin PostKinds,
         \A x \in Left : x.op \in PostKinds => x \in Left'
  PROVE  Posted'
<1>1. \A t, s : Writes(t, s)' <=> Writes(t, s)
  BY DEF Writes, PostKinds
<1>2. \A t : Inserts(t)' <=> Inserts(t)
  BY DEF Inserts, PostKinds
<1>3. \A t, u : Will(t, u) => Will(t, u)'
  BY DEF Will, PostKinds
<1>4. Informing'
  BY <1>3 DEF Posted, Informing, exists, Moot
<1>5. Timely'
  BY <1>1, <1>2 DEF Posted, Timely, Moot, PostKinds
<1>6. Announced'
  BY DEF Posted, Announced, PostKinds
<1> QED
  BY <1>4, <1>5, <1>6 DEF Posted

\* Nothing left to send: all that is known is current.
LEMMA PostedIdle ==
  ASSUME Posted, \A x \in Left : x.op # "notify", NEW t \in Transactions,
         exists(t), tx[t].status # "created", ~Moot(t)
  PROVE  /\ told[t][tx[t].recipient] = tx[t].status
         /\ tx[t].status # "initialized" => told[t][tx[t].sender] = tx[t].status
<1>1. \A u : Will(t, u) => told[t][u] = tx[t].status
  BY DEF Will
<1> QED
  BY <1>1 DEF Posted, Informing

\* A request that sends and inserts nothing.
LEMMA PostedRequest ==
  ASSUME IInv, Serial, Posted, NEW w \in Workers, NEW call, NEW ops, Request(call, w, ops),
         UNCHANGED <<tx, linked, told>>, \A x \in Items(ops) : x.op \notin {"notify", "put"}
  PROVE  Posted'
<1>1. Left' = Items(ops) /\ Left = {}
  BY LeftRequest DEF IInv
<1>2. Informing'
  <2>1. \A t, u : Will(t, u) => Will(t, u)'
    BY <1>1 DEF Will
  <2> QED
    BY <2>1 DEF Posted, Informing, exists, Moot
<1>3. Timely' /\ Announced'
  BY <1>1 DEF Timely, Announced
<1> QED
  BY <1>2, <1>3 DEF Posted

\* The request that inserts a transaction keeps Posted.
LEMMA PostedPut ==
  ASSUME IInv, Serial, Posted, NEW w \in Workers, NEW call, NEW ops, Request(call, w, ops),
         UNCHANGED <<tx, linked, told>>,
         NEW o, o \in Items(ops), o.op = "put",
         \A x \in Items(ops) : \/ x = o \/ x.op = "push"
                               \/ x.op = "notify" /\ x.t = o.t /\ x.status = o.doc.status,
         o.doc.status = "initialized" =>
           \E p \in Items(ops) : p.op = "notify" /\ p.t = o.t /\ o.doc.recipient \in p.users
  PROVE  Posted'
<1>1. Left' = Items(ops) /\ Left = {}
  BY LeftRequest DEF IInv
<1>2. Informing'
  <2>1. \A t, u : Will(t, u) => Will(t, u)'
    BY <1>1 DEF Will
  <2> QED
    BY <2>1 DEF Posted, Informing, exists, Moot
<1>3. Timely'
  BY <1>1 DEF Timely, Inserts
<1>4. Announced'
  <2>1. \A x \in Left' : x.op = "put" => x = o
    BY <1>1
  <2>2. /\ \A p \in Left' : p.op = "notify" => p.t = o.t /\ p.status = o.doc.status
        /\ o.doc.status = "initialized" =>
             \E p \in Left' : p.op = "notify" /\ p.t = o.t /\ o.doc.recipient \in p.users
    BY <1>1
  <2> QED
    BY <2>1, <2>2 DEF Announced
<1> QED
  BY <1>2, <1>3, <1>4 DEF Posted

\* The request that creates a transaction keeps Posted.
LEMMA PostedCreate ==
  ASSUME IInv, Serial, Posted, NEW w \in Workers, NEW call, NEW d \in Devices,
         NEW t \in Transactions, NEW s \in {"created", "initialized"}, NEW r \in Users,
         NEW rd \in Devices \union {NoDevice}, Request(call, w, CreateOps(t, s, d, r, rd)),
         UNCHANGED <<tx, linked, told>>
  PROVE  Posted'
<1> DEFINE ops == CreateOps(t, s, d, r, rd)
           o == Inserted(t, s, d, r, rd)
<1>1. TypeOK
  BY DEF IInv
<1>2. /\ o \in Items(ops) /\ (s = "initialized" => Told(t, r) \in Items(ops))
      /\ \A x \in Items(ops) : \/ x = o
                               \/ s = "initialized" /\ x = Told(t, r)
                               \/ x = Push(owner[d], t, "pending")
                               \/ x = Push(r, t, "unaccepted")
  BY <1>1, CreateItems
<1>3. o.op = "put" /\ o.t = t /\ o.doc.status = s /\ o.doc.recipient = r
  BY DEF Inserted
<1>4. Request(call, w, ops)
  OBVIOUS
<1> HIDE DEF ops, o
<1>5. /\ Told(t, r).op = "notify" /\ Told(t, r).t = t /\ Told(t, r).status = "initialized"
      /\ r \in Told(t, r).users
      /\ \A u, l : Push(u, t, l).op = "push"
  BY DEF Told, Push
<1>6. \A x \in Items(ops) : \/ x = o \/ x.op = "push"
                            \/ x.op = "notify" /\ x.t = o.t /\ x.status = o.doc.status
  BY <1>2, <1>3, <1>5
<1>7. o.doc.status = "initialized" =>
        \E p \in Items(ops) : p.op = "notify" /\ p.t = o.t /\ o.doc.recipient \in p.users
  BY <1>2, <1>3, <1>5
<1> QED
  BY <1>2, <1>3, <1>4, <1>6, <1>7, PostedPut

\* The request that asks for the buffer keeps Posted.
LEMMA PostedDownload ==
  ASSUME IInv, Serial, Posted, NEW w \in Workers, NEW t \in Transactions, Download(w, t)
  PROVE  Posted'
<1> DEFINE note == Notify(t, tx[t])
           count == [op |-> "count", t |-> t]
           ops == IF tx[t].status = "finished" THEN << >> ELSE <<count, note>>
<1>1. /\ Request("download", w, ops) /\ t \in linked /\ tx' = [tx EXCEPT ![t].status = "finished"]
      /\ UNCHANGED <<linked, told>>
  BY DEF Download
<1>2. note.op = "notify" /\ note.t = t /\ count.op = "count"
  BY DEF Notify
<1>3. TypeOK
  BY DEF IInv
<1> HIDE DEF note, count
<1>4. Items(ops) \subseteq {count, note}
  BY ItemsFew, Empty
<1> HIDE DEF ops
<1>5. Left' \subseteq {count, note} /\ Left = {}
  BY <1>1, <1>3, <1>4, LeftRequest
<1>6. /\ tx'[t].status = "finished" /\ \A x \in Transactions : x # t => tx'[x] = tx[x]
  BY <1>1, <1>3 DEF TypeOK, Documents
<1>7. Moot(t)'
  BY <1>1, <1>6 DEF Moot
<1>8. Informing'
  <2> SUFFICES ASSUME NEW x \in Transactions, exists(x)', tx'[x].status # "created", ~Moot(x)'
               PROVE  /\ Will(x, tx[x].recipient)'
                      /\ tx'[x].status # "initialized" => Will(x, tx[x].sender)'
    BY <1>6, <1>7 DEF Informing
  <2>1. x # t /\ tx'[x] = tx[x]
    BY <1>6, <1>7
  <2>2. exists(x) /\ tx[x].status # "created" /\ ~Moot(x)
    BY <1>1, <2>1 DEF exists, Moot
  <2>3. /\ told[x][tx[x].recipient] = tx[x].status
        /\ tx[x].status # "initialized" => told[x][tx[x].sender] = tx[x].status
    BY <1>5, <2>2, PostedIdle
  <2> QED
    BY <1>1, <2>1, <2>3 DEF Will
<1>9. Timely' /\ Announced'
  BY <1>2, <1>5, <1>7 DEF Timely, Announced, Writes
<1> QED
  BY <1>8, <1>9 DEF Posted

\* The creation of an empty transaction keeps Posted.
LEMMA PostedEmpty ==
  ASSUME IInv, Serial, Posted, NEW w \in Workers, NEW d \in Devices, NEW t \in Transactions,
         CreateEmpty(w, d, t)
  PROVE  Posted'
<1> DEFINE doc == [Absent EXCEPT !.status = "empty", !.sender = owner[d]]
<1>1. /\ Request("create_empty", w, << >>) /\ tx' = [tx EXCEPT ![t] = doc]
      /\ UNCHANGED <<linked, told>>
  BY DEF CreateEmpty
<1>2. doc.status = "empty" /\ TypeOK
  BY DEF Absent, IInv
<1> HIDE DEF doc
<1>3. Left' = {} /\ Left = {}
  BY <1>1, <1>2, Empty, LeftRequest
<1>4. tx'[t] = doc /\ \A x \in Transactions : x # t => tx'[x] = tx[x]
  BY <1>1, <1>2 DEF TypeOK
<1>5. ~exists(t)'
  BY <1>2, <1>4 DEF exists, Statuses
<1>6. Informing'
  <2> SUFFICES ASSUME NEW x \in Transactions, exists(x)', tx'[x].status # "created", ~Moot(x)'
               PROVE  /\ Will(x, tx[x].recipient)'
                      /\ tx'[x].status # "initialized" => Will(x, tx[x].sender)'
    BY DEF Informing
  <2>1. x # t /\ tx'[x] = tx[x]
    BY <1>4, <1>5
  <2>2. exists(x) /\ tx[x].status # "created" /\ ~Moot(x)
    BY <1>1, <2>1 DEF exists, Moot
  <2>3. /\ told[x][tx[x].recipient] = tx[x].status
        /\ tx[x].status # "initialized" => told[x][tx[x].sender] = tx[x].status
    BY <1>3, <2>2, PostedIdle
  <2> QED
    BY <1>1, <2>1, <2>3 DEF Will
<1>7. Timely' /\ Announced'
  BY <1>3 DEF Timely, Announced
<1> QED
  BY <1>6, <1>7 DEF Posted

\* The request that updates a transaction keeps Posted.
LEMMA PostedUpdate ==
  ASSUME IInv, Serial, Posted, NEW w \in Workers,
         NEW d \in Devices, NEW t \in Transactions, NEW s \in Asked, Update(w, d, t, s)
  PROVE  Posted'
<1> DEFINE u == owner[d]
           ops == IF s = "rejected" /\ d \notin devices[u]
                    THEN Complete(u, t, "unaccepted") ELSE UpdateOps(t, s, u, d)
<1>1. Request("update", w, ops) /\ UNCHANGED <<tx, linked, told>> /\ exists(t)
  BY DEF Update, docs
<1>2. u \in Users /\ s \in Statuses /\ "unaccepted" \in Lists /\ TypeOK
  BY UsersAssumption DEF Lists, IInv
<1>3. \A x \in Items(ops) : x.op \notin {"notify", "put"}
  <2>1. CASE s = "rejected" /\ d \notin devices[u]
    BY <1>2, <2>1, CompleteItems DEF Completes
  <2>2. CASE ~(s = "rejected" /\ d \notin devices[u])
    <3>1. ops = UpdateOps(t, s, u, d)
      BY <2>2
    <3>2. \A x \in Items(UpdateOps(t, s, u, d)) : x = Updated(t, s, d) \/ Counted(x, t, s, u)
      BY <1>1, <1>2, UpdateItems
    <3>3. \A x : x = Updated(t, s, d) \/ Counted(x, t, s, u) => x.op \notin {"notify", "put"}
      BY DEF Updated, Counted, Completes, Push
    <3> QED
      BY <3>1, <3>2, <3>3
  <2> QED
    BY <2>1, <2>2
<1> HIDE DEF ops
<1> QED
  BY <1>1, <1>3, PostedRequest

\* A request received keeps Posted.
LEMMA PostedReceive ==
  ASSUME IInv, Serial, Posted, NEW w \in Workers, Receive(w)
  PROVE  Posted'
<1>1. ASSUME NEW t \in Transactions, Download(w, t) PROVE Posted'
  BY <1>1, PostedDownload
<1>2. ASSUME NEW d \in Devices, NEW t \in Transactions, CreateEmpty(w, d, t) PROVE Posted'
  BY <1>2, PostedEmpty
<1>3. ASSUME NEW d \in Devices, NEW t \in Transactions, NEW s \in Asked, Update(w, d, t, s)
      PROVE  Posted'
  BY <1>3, PostedUpdate
<1>4. ASSUME NEW d \in Devices, NEW t \in Transactions, NEW p \in BOOLEAN, Pause(w, d, t, p)
      PROVE  Posted'
  <2> DEFINE o == [op |-> "pause", t |-> t, paused |-> p]
             ops == <<o>>
  <2>1. /\ Request("pause", w, ops) /\ o.op = "pause" /\ Items(ops) = {o}
        /\ UNCHANGED <<tx, linked, told>>
    BY <1>4, ItemsOne DEF Pause, docs
  <2> HIDE DEF ops, o
  <2> QED
    BY <2>1, PostedRequest
<1>5. ASSUME NEW d \in Devices, NEW t \in Transactions, NEW r \in Users, Create(w, d, t, r)
      PROVE  Posted'
  <2>1. /\ Request("create", w, CreateOps(t, "created", d, r, NoDevice))
        /\ UNCHANGED <<tx, linked, told>>
    BY <1>5 DEF Create, docs
  <2> QED
    BY <2>1, PostedCreate
<1>6. ASSUME NEW d \in Devices, NEW t \in Transactions, NEW r \in Users, Bare(w, d, t, r)
      PROVE  Posted'
  <2> DEFINE doc == [Absent EXCEPT !.status = "created", !.sender = owner[d], !.recipient = r]
             o == [op |-> "put", t |-> t, doc |-> doc]
             ops == <<o>>
  <2>1. /\ Request("bare", w, ops) /\ o.op = "put" /\ o.doc.status = "created" /\ Items(ops) = {o}
        /\ UNCHANGED <<tx, linked, told>>
    BY <1>6, ItemsOne DEF Bare, docs, Absent
  <2> HIDE DEF ops, o
  <2>2. /\ o \in Items(ops) /\ o.doc.status # "initialized" /\ \A x \in Items(ops) : x = o
    BY <2>1
  <2> QED
    BY <2>1, <2>2, PostedPut
<1>7. ASSUME NEW d \in Devices, NEW t \in Transactions, NEW r \in Users,
             NEW rd \in Devices \union {NoDevice}, Fill(w, d, t, r, rd)
      PROVE  Posted'
  <2>1. /\ Request("fill", w, CreateOps(t, "initialized", d, r, rd))
        /\ UNCHANGED <<tx, linked, told>>
    BY <1>7 DEF Fill, docs
  <2> QED
    BY <2>1, PostedCreate
<1>8. ASSUME NEW d \in Devices, NEW e \in Devices, DeleteDevice(w, d, e) PROVE Posted'
  <2> DEFINE find == CancelFind(owner[d], e)
             end == [op |-> "end_session", device |-> e]
             ops == <<find, end>>
  <2>1. /\ Request("delete_device", w, ops) /\ find.op = "cancel_find" /\ end.op = "end_session"
        /\ Items(ops) = {find, end} /\ UNCHANGED <<tx, linked, told>>
    BY <1>8, ItemsFew DEF DeleteDevice, CancelFind, docs
  <2> HIDE DEF ops, find, end
  <2> QED
    BY <2>1, PostedRequest
<1>9. ASSUME NEW d \in Devices, DeleteUser(w, d) PROVE Posted'
  <2> DEFINE find == CancelFind(owner[d], NoDevice)
             remove == [op |-> "remove_devices", user |-> owner[d]]
             delete == [op |-> "delete", user |-> owner[d]]
             ops == <<find, remove, delete>>
  <2>1. /\ Request("delete_user", w, ops) /\ find.op = "cancel_find"
        /\ remove.op = "remove_devices" /\ delete.op = "delete"
        /\ Items(ops) = {find, remove, delete} /\ UNCHANGED <<tx, linked, told>>
    BY <1>9, ItemsFew DEF DeleteUser, LeaveOps, CancelFind, docs
  <2> HIDE DEF ops, find, remove, delete
  <2> QED
    BY <2>1, PostedRequest
<1>10. ASSUME NEW d \in Devices, ChangePassword(w, d) PROVE Posted'
  <2> DEFINE find == CancelFind(owner[d], NoDevice)
             ops == <<find>>
  <2>1. /\ Request("change_password", w, ops) /\ find.op = "cancel_find" /\ Items(ops) = {find}
        /\ UNCHANGED <<tx, linked, told>>
    BY <1>10, ItemsOne DEF ChangePassword, LeaveOps, CancelFind, docs
  <2> HIDE DEF ops, find
  <2> QED
    BY <2>1, PostedRequest
<1>11. ASSUME NEW d \in Devices, Login(w, d) PROVE Posted'
  <2>1. Request("login", w, << >>) /\ UNCHANGED <<tx, linked, told>>
    BY <1>11 DEF Login, docs
  <2> QED
    BY <2>1, Empty, PostedRequest
<1>12. ASSUME NEW d \in Devices, NEW g \in Users, MergeGhost(w, d, g) PROVE Posted'
  <2> DEFINE take == [op |-> "take_over", ghost |-> g, user |-> owner[d]]
             merge == [op |-> "merge", user |-> g]
             ops == <<take, merge, take>>
  <2>1. /\ Request("merge_ghost", w, ops) /\ take.op = "take_over" /\ merge.op = "merge"
        /\ Items(ops) = {take, merge} /\ UNCHANGED <<tx, linked, told>>
    BY <1>12, ItemsFew DEF MergeGhost, docs
  <2> HIDE DEF ops, take, merge
  <2> QED
    BY <2>1, PostedRequest
<1> QED
  BY <1>1, <1>2, <1>3, <1>4, <1>5, <1>6, <1>7, <1>8, <1>9, <1>10, <1>11, <1>12, ZenonT(60)
  DEF Receive

\* The insertion of the transaction keeps Posted.
LEMMA PostedInsert ==
  ASSUME IInv, SInv, Laid, Serial, Posted, NEW w \in Workers, Put(w)
  PROVE  Posted'
<1> DEFINE o == Head(todo[w])
           R == Behind(w)
<1>1. /\ todo[w] # << >> /\ o.op = "put" /\ tx' = [tx EXCEPT ![o.t] = o.doc] /\ Continue(w, << >>)
      /\ UNCHANGED <<linked, told>>
  BY DEF Put, At
<1>2. /\ Left = {o} \union R /\ o \in Left /\ o \in Ops /\ TypeOK
      /\ \A b \in R : Follows(o, b)
  BY <1>1, Headed DEF IInv
<1>3. Left' = R
  BY <1>1, Shorter
<1>4. o \in PutOps
  BY <1>1, <1>2, OpKinds
<1> HIDE DEF o, R
<1>5. o.t \in Transactions /\ o.doc.status \in {"created", "initialized"}
  BY <1>4 DEF PutOps
<1>6. tx'[o.t] = o.doc /\ \A x \in Transactions : x # o.t => tx'[x] = tx[x]
  BY <1>1, <1>2, <1>5 DEF TypeOK
<1>7. \A b \in R : b.op \in {"notify", "push"} /\ b \in Left
  BY <1>1, <1>2 DEF Follows
<1>8. /\ \A p \in Left : p.op = "notify" => p.t = o.t /\ p.status = o.doc.status
      /\ o.doc.status = "initialized" =>
           \E p \in Left : p.op = "notify" /\ p.t = o.t /\ o.doc.recipient \in p.users
  BY <1>1, <1>2 DEF Posted, Announced
<1>9. Informing'
  <2> SUFFICES ASSUME NEW x \in Transactions, exists(x)', tx'[x].status # "created", ~Moot(x)'
               PROVE  /\ Will(x, tx[x].recipient)'
                      /\ tx'[x].status # "initialized" => Will(x, tx[x].sender)'
    BY DEF Informing
  <2>1. CASE x = o.t
    <3>1. tx'[x].status = "initialized" /\ o.doc.status = "initialized"
      BY <1>5, <1>6, <2>1
    <3>2. PICK p \in Left : p.op = "notify" /\ p.t = o.t /\ o.doc.recipient \in p.users
      BY <1>8, <3>1
    <3>3. p \in Left' /\ p.status = "initialized"
      BY <1>1, <1>2, <1>3, <1>8, <3>1, <3>2
    <3> QED
      BY <1>6, <2>1, <3>1, <3>2, <3>3 DEF Will
  <2>2. CASE x # o.t
    <3>1. tx'[x] = tx[x]
      BY <1>6, <2>2
    <3>2. exists(x) /\ tx[x].status # "created" /\ ~Moot(x)
      BY <1>1, <3>1 DEF exists, Moot
    <3>3. \A p \in Left : p.op = "notify" => p.t # x
      BY <1>8, <2>2
    <3>4. \A u : Will(x, u) => Will(x, u)'
      BY <1>1, <3>1, <3>3 DEF Will
    <3> QED
      BY <3>1, <3>2, <3>4 DEF Posted, Informing
  <2> QED
    BY <2>1, <2>2
<1>10. Timely'
  <2>1. \A t, s : ~Writes(t, s)'
    BY <1>3, <1>7 DEF Writes
  <2>2. \A p \in Left' : p.op = "notify" => p.t = o.t /\ p.status = tx'[p.t].status
    BY <1>3, <1>6, <1>7, <1>8
  <2> QED
    BY <2>1, <2>2 DEF Timely
<1>11. Announced'
  BY <1>3, <1>7 DEF Announced
<1> QED
  BY <1>9, <1>10, <1>11 DEF Posted

\* The writing of a status keeps Posted.
LEMMA PostedWrite ==
  ASSUME IInv, SInv, Laid, Serial, Posted, NEW w \in Workers, Write(w)
  PROVE  Posted'
<1> DEFINE o == Head(todo[w])
           R == Behind(w)
           note == Notify(o.t, Written(o))
<1>1. /\ todo[w] # << >> /\ o \in WriteOps /\ o.op = "write"
      /\ tx' = [tx EXCEPT ![o.t] = Written(o)] /\ tx[o.t] \in Documents
      /\ linked' = IF o.link THEN linked \union {o.t} ELSE linked
      /\ Left' = {note} \union R
  BY WriteItems
<1>2. /\ Left = {o} \union R /\ o \in Left /\ TypeOK
      /\ \A x \in Transactions : ~Inserts(x)
  BY <1>1, Headed DEF IInv
<1>3. UNCHANGED told
  BY DEF Write
<1>4. \A b \in R : b.op \notin {"write", "put"} /\ b \in Left /\ b \in Ops
  BY <1>1, Headed, Served DEF Steady, Writers
<1>5. o.t \in Transactions
  BY <1>1 DEF WriteOps
<1>6. /\ note.op = "notify" /\ note.t = o.t /\ note.status = Written(o).status
      /\ note.users = {Written(o).sender, Written(o).recipient}
  BY DEF Notify
<1> HIDE DEF o, R, note
<1>7. tx'[o.t] = Written(o) /\ \A x \in Transactions : x # o.t => tx'[x] = tx[x]
  BY <1>1, <1>2, <1>5 DEF TypeOK
<1>8. \A t, s : ~Writes(t, s)'
  BY <1>1, <1>4, <1>6 DEF Writes
<1>9. \A x : x # o.t => (Moot(x)' <=> x \in linked /\ tx'[x].status = "finished")
  BY <1>1 DEF Moot
<1>10. Informing'
  <2> SUFFICES ASSUME NEW x \in Transactions, exists(x)', tx'[x].status # "created", ~Moot(x)'
               PROVE  /\ Will(x, tx[x].recipient)'
                      /\ tx'[x].status # "initialized" => Will(x, tx[x].sender)'
    BY DEF Informing
  <2>1. CASE x = o.t
    BY <1>1, <1>6, <1>7, <2>1 DEF Will
  <2>2. CASE x # o.t
    <3>1. tx'[x] = tx[x]
      BY <1>7, <2>2
    <3>2. exists(x) /\ tx[x].status # "created" /\ ~Moot(x)
      BY <1>9, <2>2, <3>1 DEF exists, Moot
    <3>3. \A u : Will(x, u) => Will(x, u)'
      BY <1>1, <1>2, <1>3, <3>1 DEF Will
    <3> QED
      BY <3>1, <3>2, <3>3 DEF Posted, Informing
  <2> QED
    BY <2>1, <2>2
<1>11. Timely'
  <2> SUFFICES ASSUME NEW p \in Left', p.op = "notify"
               PROVE  Moot(p.t)' \/ p.status = tx'[p.t].status
    BY <1>8 DEF Timely
  <2>1. CASE p = note
    BY <1>6, <1>7, <2>1
  <2>2. CASE p \in R
    <3>1. p.t \in Transactions
      BY <1>4, <2>2, OpKinds DEF NotifyOps
    <3>2. ~Inserts(p.t) /\ p \in Left
      BY <1>2, <1>4, <2>2, <3>1
    <3>3. (\A s : ~Writes(p.t, s)) /\ (Moot(p.t) \/ p.status = tx[p.t].status)
      BY <3>2 DEF Posted, Timely
    <3>4. p.t # o.t
      BY <1>1, <1>2, <3>3 DEF Writes
    <3> QED
      BY <1>7, <1>9, <3>1, <3>3, <3>4 DEF Moot
  <2> QED
    BY <1>1, <2>1, <2>2
<1>12. Announced'
  BY <1>1, <1>4, <1>6 DEF Announced
<1> QED
  BY <1>10, <1>11, <1>12 DEF Posted

\* The writing of a pause keeps Posted.
LEMMA PostedPause ==
  ASSUME IInv, SInv, Laid, Serial, Posted, NEW w \in Workers, WritePaused(w)
  PROVE  Posted'
<1> DEFINE o == Head(todo[w])
           R == Behind(w)
           note == Notify(o.t, tx[o.t])
<1>1. /\ todo[w] # << >> /\ o.op = "pause" /\ o.t \in Transactions
      /\ Left' = {note} \union R
  BY PauseItems
<1>2. /\ Left = {o} \union R
      /\ \A x \in Transactions : ~Inserts(x)
      /\ \A t, s : ~Writes(t, s)
  BY <1>1, Headed DEF Steady
<1>3. UNCHANGED <<tx, linked, told>>
  BY DEF WritePaused
<1>4. note.op = "notify" /\ note.t = o.t /\ note.status = tx[o.t].status
  BY DEF Notify
<1>5. \A b \in R : b.op # "put" /\ b \in Left /\ b \in Ops
  BY <1>1, Headed DEF Follows
<1> HIDE DEF o, R, note
<1>6. \A t, s : ~Writes(t, s)'
  BY <1>1, <1>2, <1>4 DEF Writes
<1>7. \A t, u : Will(t, u) => Will(t, u)'
  BY <1>1, <1>2, <1>3 DEF Will
<1>8. Informing'
  BY <1>3, <1>7 DEF Posted, Informing, exists, Moot
<1>9. Timely'
  <2> SUFFICES ASSUME NEW p \in Left', p.op = "notify"
               PROVE  Moot(p.t)' \/ p.status = tx'[p.t].status
    BY <1>6 DEF Timely
  <2>1. CASE p = note
    BY <1>3, <1>4, <2>1
  <2>2. CASE p \in R
    <3>1. p.t \in Transactions /\ p \in Left
      BY <1>5, <2>2, OpKinds DEF NotifyOps
    <3>2. ~Inserts(p.t)
      BY <1>2, <3>1
    <3> QED
      BY <1>3, <3>1, <3>2 DEF Posted, Timely, Moot
  <2> QED
    BY <1>1, <2>1, <2>2
<1>10. Announced'
  BY <1>1, <1>4, <1>5 DEF Announced
<1> QED
  BY <1>8, <1>9, <1>10 DEF Posted

\* The sending of a notification keeps Posted.
LEMMA PostedSend ==
  ASSUME IInv, SInv, Laid, Serial, Posted, NEW w \in Workers, SendNotification(w)
  PROVE  Posted'
<1> DEFINE o == Head(todo[w])
           R == Behind(w)
<1>1. /\ todo[w] # << >> /\ o.op = "notify" /\ Continue(w, << >>)
      /\ told' = [told EXCEPT ![o.t] = [u \in Users |-> IF u \in o.users THEN o.status ELSE @[u]]]
      /\ UNCHANGED <<tx, linked>>
  BY DEF SendNotification, At, docs
<1>2. /\ Left = {o} \union R /\ o \in Left /\ o \in Ops /\ TypeOK
      /\ \A x \in Transactions : ~Inserts(x)
      /\ \A b \in R : b.op # "put"
  BY <1>1, Headed DEF IInv, Follows
<1>3. Left' = R
  BY <1>1, Shorter
<1>4. o \in NotifyOps
  BY <1>1, <1>2, OpKinds
<1>5. \A b \in R : b \in Ops
  BY <1>1, Headed
<1> HIDE DEF o, R
<1>6. o.t \in Transactions /\ o.users \subseteq Users
  BY <1>4 DEF NotifyOps
<1>7. Moot(o.t) \/ o.status = tx[o.t].status
  BY <1>1, <1>2, <1>6 DEF Posted, Timely
<1>8. /\ \A u \in Users : told'[o.t][u] = IF u \in o.users THEN o.status ELSE told[o.t][u]
      /\ \A x \in Transactions : x # o.t => told'[x] = told[x]
  BY <1>1, <1>2, <1>6 DEF TypeOK
<1>9. ASSUME NEW t \in Transactions, NEW u \in Users, Will(t, u), ~Moot(t) PROVE Will(t, u)'
  <2>1. CASE told[t][u] = tx[t].status
    BY <1>1, <1>7, <1>8, <1>9, <2>1 DEF Will
  <2>2. ASSUME NEW p \in Left, p.op = "notify", p.t = t, p.status = tx[t].status, u \in p.users
        PROVE  Will(t, u)'
    <3>1. CASE p = o
      BY <1>1, <1>8, <2>2, <3>1 DEF Will
    <3>2. CASE p \in R
      BY <1>1, <1>3, <2>2, <3>2 DEF Will
    <3> QED
      BY <1>2, <3>1, <3>2
  <2> QED
    BY <1>9, <2>1, <2>2 DEF Will
<1>10. Informing'
  <2> SUFFICES ASSUME NEW t \in Transactions, exists(t), tx[t].status # "created", ~Moot(t)
               PROVE  /\ Will(t, tx[t].recipient)'
                      /\ tx[t].status # "initialized" => Will(t, tx[t].sender)'
    BY <1>1 DEF Informing, exists, Moot
  <2>1. tx[t].recipient \in Users /\ tx[t].sender \in Users
    BY <1>2 DEF TypeOK
  <2>2. /\ Will(t, tx[t].recipient)
        /\ tx[t].status # "initialized" => Will(t, tx[t].sender)
    BY DEF Posted, Informing
  <2>3. /\ Will(t, tx[t].recipient) => Will(t, tx[t].recipient)'
        /\ Will(t, tx[t].sender) => Will(t, tx[t].sender)'
    <3>1. \A u \in Users : Will(t, u) => Will(t, u)'
      BY <1>9
    <3>2. tx' = tx
      BY <1>1
    <3> QED
      BY <2>1, <3>1, <3>2 DEF Will
  <2> QED
    BY <2>2, <2>3
<1>11. Timely'
  <2> SUFFICES ASSUME NEW p \in Left', p.op = "notify"
               PROVE  (\A s : ~Writes(p.t, s)') /\ (Moot(p.t)' \/ p.status = tx'[p.t].status)
    BY DEF Timely
  <2>1. p \in Left /\ p.t \in Transactions
    BY <1>2, <1>3, <1>5, OpKinds DEF NotifyOps
  <2>2. (\A s : ~Writes(p.t, s)) /\ (Moot(p.t) \/ p.status = tx[p.t].status)
    BY <1>2, <2>1 DEF Posted, Timely
  <2>3. \A s : Writes(p.t, s)' => Writes(p.t, s)
    BY <1>2, <1>3 DEF Writes
  <2> QED
    BY <1>1, <2>2, <2>3 DEF Moot
<1>12. Announced'
  BY <1>2, <1>3 DEF Announced
<1> QED
  BY <1>10, <1>11, <1>12 DEF Posted

\* The handing over of a transaction keeps Posted.
LEMMA PostedTakeOver ==
  ASSUME IInv, SInv, Laid, Serial, Posted, NEW w \in Workers, TakeOver(w)
  PROVE  Posted'
<1> DEFINE o == Head(todo[w])
           R == Behind(w)
<1>1. /\ todo[w] # << >> /\ o.op = "take_over"
      /\ \/ UNCHANGED tx /\ Left' = R
         \/ \E t \in Transactions :
              /\ exists(t) /\ tx[t] \in Documents /\ tx' = [tx EXCEPT ![t] = Taken(o, t)]
              /\ Left' = (IF tx[t].status = "created" THEN {} ELSE {Notify(t, Taken(o, t))})
                           \union Left
  BY TakeOverItems
<1>2. /\ Left = {o} \union R /\ TypeOK
      /\ \A x \in Transactions : ~Inserts(x)
      /\ \A t, s : ~Writes(t, s)
      /\ \A b \in R : b.op # "put"
      /\ Left \subseteq Ops
  BY <1>1, Headed, Served DEF IInv, Steady, Follows
<1>3. UNCHANGED <<linked, told>>
  BY DEF TakeOver
<1>4. \A p \in Left : p.op = "notify" =>
        Moot(p.t) \/ p.status = tx[p.t].status
  <2> SUFFICES ASSUME NEW p \in Left, p.op = "notify" PROVE Moot(p.t) \/ p.status = tx[p.t].status
    OBVIOUS
  <2>1. p.t \in Transactions
    BY <1>2, OpKinds DEF NotifyOps
  <2> QED
    BY <1>2, <2>1 DEF Posted, Timely
<1> HIDE DEF o, R
<1>5. CASE UNCHANGED tx /\ Left' = R
  <2>1. \A x \in Left : x.op \in PostKinds => x \in R
    BY <1>1, <1>2 DEF PostKinds
  <2> QED
    BY <1>2, <1>3, <1>5, <2>1, PostedStays
<1>6. ASSUME NEW t \in Transactions, exists(t), tx[t] \in Documents,
             tx' = [tx EXCEPT ![t] = Taken(o, t)],
             Left' = (IF tx[t].status = "created" THEN {} ELSE {Notify(t, Taken(o, t))}) \union Left
      PROVE  Posted'
  <2> DEFINE note == Notify(t, Taken(o, t))
  <2>1. /\ tx'[t].status = tx[t].status /\ tx'[t] = Taken(o, t)
        /\ \A x \in Transactions : x # t => tx'[x] = tx[x]
    BY <1>2, <1>6 DEF TypeOK, Documents, Taken
  <2>2. /\ note.op = "notify" /\ note.t = t /\ note.status = tx'[t].status
        /\ note.users = {tx'[t].sender, tx'[t].recipient}
    BY <2>1 DEF Notify
  <2>3. /\ \A x \in Left' : x \in Left \/ x = note
        /\ Left \subseteq Left'
        /\ tx[t].status # "created" => note \in Left'
    BY <1>6
  <2> HIDE DEF note
  <2>4. \A x \in Transactions : tx'[x].status = tx[x].status
    BY <2>1
  <2>5. \A x, s : ~Writes(x, s)'
    BY <1>2, <2>2, <2>3 DEF Writes
  <2>6. Informing'
    <3> SUFFICES ASSUME NEW x \in Transactions, exists(x)', tx'[x].status # "created", ~Moot(x)'
                 PROVE  /\ Will(x, tx[x].recipient)'
                        /\ tx'[x].status # "initialized" => Will(x, tx[x].sender)'
      BY DEF Informing
    <3>1. CASE x = t
      BY <2>1, <2>2, <2>3, <3>1 DEF Will
    <3>2. CASE x # t
      <4>1. tx'[x] = tx[x]
        BY <2>1, <3>2
      <4>2. exists(x) /\ tx[x].status # "created" /\ ~Moot(x)
        BY <1>3, <4>1 DEF exists, Moot
      <4>3. \A u : Will(x, u) => Will(x, u)'
        BY <1>3, <2>3, <4>1 DEF Will
      <4> QED
        BY <4>1, <4>2, <4>3 DEF Posted, Informing
    <3> QED
      BY <3>1, <3>2
  <2>7. Timely'
    <3> SUFFICES ASSUME NEW p \in Left', p.op = "notify"
                 PROVE  Moot(p.t)' \/ p.status = tx'[p.t].status
      BY <2>5 DEF Timely
    <3>1. CASE p = note
      BY <2>2, <3>1
    <3>2. CASE p \in Left
      <4>1. p.t \in Transactions
        BY <1>2, <3>2, OpKinds DEF NotifyOps
      <4> QED
        BY <1>3, <1>4, <2>4, <3>2, <4>1 DEF Moot
    <3> QED
      BY <2>3, <3>1, <3>2
  <2>8. Announced'
    BY <1>1, <1>2, <2>2, <2>3 DEF Announced
  <2> QED
    BY <2>6, <2>7, <2>8 DEF Posted
<1> QED
  BY <1>1, <1>5, <1>6

\* The cancelation of one of the transactions found keeps Posted.
LEMMA PostedCancel ==
  ASSUME IInv, SInv, Laid, Serial, Posted, NEW w \in Workers, CancelNext(w)
  PROVE  Posted'
<1> DEFINE o == Head(todo[w])
           R == Behind(w)
           up(t) == Items(UpdateOps(t, "canceled", o.user, NoDevice))
           c(t) == Cancel(o.user, o.ts \ {t})
<1>1. /\ todo[w] # << >> /\ o.op = "cancel" /\ o.user \in Users /\ o.ts \subseteq Transactions
      /\ \/ Left' = R
         \/ Left' = {}
         \/ \E t \in o.ts : Left' = {c(t)} \union R
         \/ \E t \in o.ts : running(t) /\ Left' = (up(t) \union {c(t)}) \union R
  <2>1. todo[w] # << >> /\ o.op = "cancel" /\ o.user \in Users /\ o.ts \subseteq Transactions
    BY CancelItems
  <2>2. \/ Left' = R
        \/ Left' = {}
        \/ \E t \in o.ts : Left' = {c(t)} \union R
        \/ \E t \in o.ts : running(t) /\ Left' = (up(t) \union {c(t)}) \union R
    BY CancelItems
  <2> QED
    BY <2>1, <2>2
<1>2. /\ Left = {o} \union R /\ TypeOK
      /\ \A b \in R : Follows(o, b)
  BY <1>1, Headed DEF IInv
<1>3. UNCHANGED <<tx, linked, told>>
  BY DEF CancelNext, docs
<1>4. \A t \in o.ts : c(t).op = "cancel"
  BY DEF Cancel
<1>5. \A b \in R : b.op \notin {"notify", "put"}
  BY <1>1, <1>2 DEF Follows
<1>6. ASSUME NEW t \in o.ts, running(t), NEW x \in up(t) PROVE x.op \notin {"notify", "put"}
  <2>1. t \in Transactions /\ exists(t) /\ "canceled" \in Statuses
    BY <1>1, <1>6 DEF running, Statuses
  <2>2. x = Updated(t, "canceled", NoDevice) \/ Counted(x, t, "canceled", o.user)
    BY <1>1, <1>2, <1>6, <2>1, UpdateItems
  <2> HIDE DEF o, up
  <2> QED
    BY <2>2 DEF Updated, Counted, Completes
<1> HIDE DEF o, R, up, c
<1>7. \A x \in Left : x.op \notin {"notify", "put"}
  BY <1>1, <1>2, <1>5
<1>8. \A x \in Left' : x.op \notin {"notify", "put"}
  BY <1>1, <1>4, <1>5, <1>6
<1>9. \A t, u : Will(t, u) => Will(t, u)'
  BY <1>3, <1>7 DEF Will
<1>10. Informing'
  BY <1>3, <1>9 DEF Posted, Informing, exists, Moot
<1>11. Timely' /\ Announced'
  BY <1>8 DEF Timely, Announced
<1> QED
  BY <1>10, <1>11 DEF Posted

\* Each operation of a request keeps Posted.
LEMMA PostedServe ==
  ASSUME IInv, SInv, Laid, Serial, Posted, NEW w \in Workers, Serve(w)
  PROVE  Posted'
<1> DEFINE o == Head(todo[w])
           R == Behind(w)
<1>0. todo[w] # << >> => Left = {o} \union R
  BY Served
<1>1. CASE Put(w) \/ Write(w) \/ WritePaused(w) \/ SendNotification(w) \/ TakeOver(w) \/ CancelNext(w)
  BY <1>1, PostedInsert, PostedWrite, PostedPause, PostedSend, PostedTakeOver, PostedCancel
<1>2. CASE \/ PushStat(w) \/ PullStat(w) \/ ClearHas(w) \/ ClearActivity(w) \/ Count(w)
           \/ EndSession(w) \/ ClearAccount(w)
  <2>1. /\ todo[w] # << >> /\ Continue(w, << >>) /\ o.op \notin PostKinds
        /\ UNCHANGED <<tx, linked, told>>
    <3>1. PushStat(w) \/ PullStat(w) \/ ClearHas(w) \/ ClearActivity(w) =>
            /\ todo[w] # << >> /\ Continue(w, << >>) /\ o.op \notin PostKinds
            /\ UNCHANGED <<tx, linked, told>>
      BY DEF PushStat, PullStat, ClearHas, ClearActivity, At, docs, PostKinds
    <3>2. Count(w) \/ EndSession(w) \/ ClearAccount(w) =>
            /\ todo[w] # << >> /\ Continue(w, << >>) /\ o.op \notin PostKinds
            /\ UNCHANGED <<tx, linked, told>>
      BY DEF Count, EndSession, ClearAccount, At, docs, PostKinds
    <3> QED
      BY <1>2, <3>1, <3>2
  <2>2. Left' = R
    BY <2>1, Shorter
  <2> HIDE DEF o, R
  <2> QED
    BY <1>0, <2>1, <2>2, PostedStays
<1>3. CASE FindTransactions(w)
  <2>1. todo[w] # << >> /\ o.op = "cancel_find" /\ Left' = {Cancel(o.user, Found(o))} \union R
    BY <1>3, FindItems
  <2>2. Cancel(o.user, Found(o)).op = "cancel" /\ UNCHANGED <<tx, linked, told>>
    BY <1>3 DEF FindTransactions, docs, Cancel
  <2> HIDE DEF o, R
  <2> QED
    BY <1>0, <2>1, <2>2, PostedStays DEF PostKinds
<1> QED
  BY <1>1, <1>2, <1>3 DEF Serve

Posts == Alive => Posted

\* One process: between requests both ends have been told the status of a transaction,
\* whatever was updated, filled in again, taken over, paused or canceled (transaction.py).
THEOREM LastToldCurrent == ASSUME Serial PROVE Spec => []LastNotificationCurrent
<1>1. Init => Posts
  <2> SUFFICES ASSUME Init PROVE Posted
    BY DEF Posts
  <2>1. \A w \in Workers : todo[w] = << >>
    BY DEF Init
  <2>2. Left = {}
    BY <2>1, Empty DEF Left
  <2>3. \A t \in Transactions : ~exists(t)
    BY DEF Init, Absent, exists, Statuses
  <2> QED
    BY <2>2, <2>3 DEF Posted, Informing, Timely, Announced
<1>2. IInv /\ SInv /\ Laid /\ Posts /\ [Next]_vars => Posts'
  <2> SUFFICES ASSUME IInv, SInv, Laid, Posts, [Next]_vars PROVE Posts'
    OBVIOUS
  <2>1. CASE UNCHANGED vars
    <3>1. UNCHANGED <<tx, linked, told, todo>>
      BY <2>1 DEF vars, docs
    <3>2. Left' = Left /\ (Alive' <=> Alive)
      BY <3>1 DEF Left, Items, Alive, At
    <3> QED
      BY <3>1, <3>2, PostedStays DEF Posts
  <2>2. ASSUME NEW w \in Workers, Receive(w) PROVE Posts'
    BY <2>2, Living, PostedReceive DEF Posts
  <2>3. ASSUME NEW w \in Workers, Serve(w) PROVE Posts'
    BY <2>3, Living, PostedServe DEF Posts
  <2>4. ASSUME NEW w \in Workers, Crash(w) PROVE Posts'
    BY <2>4, Living DEF Posts
  <2> QED
    BY <2>1, <2>2, <2>3, <2>4 DEF Next
<1>3. Posts => LastNotificationCurrent
  <2> SUFFICES ASSUME Posts, AtRest PROVE
        \A t \in Transactions :
          exists(t) /\ tx[t].status # "created" /\ ~(t \in linked /\ tx[t].status = "finished")
            => /\ told[t][tx[t].recipient] = tx[t].status
               /\ tx[t].status # "initialized" => told[t][tx[t].sender] = tx[t].status
    BY DEF LastNotificationCurrent
  <2>1. Posted /\ \A w \in Workers : todo[w] = << >>
    BY DEF AtRest, Alive, At, Posts
  <2>2. Left = {}
    BY <2>1, Empty DEF Left
  <2> QED
    BY <2>1, <2>2, PostedIdle DEF Moot
<1>4. Spec => [](IInv /\ SInv /\ Laid)
  BY ServedInOrder
<1> QED
  BY <1>1, <1>2, <1>3, <1>4, PTL DEF Spec
-----------------------------------------------------------------------------
(***************************************************************************)
(* NothingLeft.                                                            *)
(***************************************************************************)

\* The device d sends t, or is the one that receives it.
Tied(t, d) == \/ is_sender(t, owner[d], d)
              \/ tx[t].recipient = owner[d] /\ tx[t].recipient_device = d

\* t is about to be canceled for u, or for his device d.
Seeks(u, d) == \E o \in Left : o.op = "cancel_find" /\ o.user = u /\ o.device \in {d, NoDevice}
Cancels(u, t) == \E o \in Left : o.op = "cancel" /\ o.user = u /\ t \in o.ts
Doomed(t, u, d) == Seeks(u, d) \/ Cancels(u, t) \/ Writes(t, "canceled")

Quits(d) == \E o \in Left : o.op = "end_session" /\ o.device = d

Gone(u) == register_status[u] = "deleted"

\* What runs and is tied to a device that was deleted is about to be canceled.
Loose ==
  \A t \in Transactions, d \in Devices :
    running(t) /\ d \notin devices[owner[d]] /\ Tied(t, d) => Doomed(t, owner[d], d)

\* Ghosts receive on no device.
Deviceless == \A t \in Transactions : tx[t].recipient \in Ghosts => tx[t].recipient_device = NoDevice

\* What runs and involves a deleted account is a bare document it is the recipient of.
Departed ==
  \A t \in Transactions, u \in Users :
    Gone(u) /\ running(t) /\ involved(u, t) =>
      tx[t].status = "created" /\ tx[t].sender_device = NoDevice /\ tx[t].sender # u

\* Whoever has a session has his device, or is about to be thrown out.
Seated == \A d \in sessions : ~Gone(owner[d]) /\ (d \in devices[owner[d]] \/ Quits(d))

\* What is written ties nothing to a device that was deleted, and starts nothing for an
\* account that was.
Lawful ==
  \A o \in Left : o.op = "write" =>
    /\ o.device # NoDevice => /\ tx[o.t].recipient \notin Ghosts
                              /\ o.device \in devices[owner[o.device]] \/ o.status \in final
    /\ o.status \notin final => ~Gone(tx[o.t].sender) /\ ~Gone(tx[o.t].recipient)

\* So for what is inserted.
Admitted ==
  \A o \in Left : o.op = "put" =>
    /\ o.doc.sender_device # NoDevice => o.doc.sender_device \in devices[owner[o.doc.sender_device]]
    /\ o.doc.recipient_device # NoDevice => o.doc.recipient_device \in devices[o.doc.recipient]
    /\ ~Gone(o.doc.sender)
    /\ Gone(o.doc.recipient) => o.doc.status = "created" /\ o.doc.sender_device = NoDevice

\* What was found to cancel still runs: nothing else is served in between.
Cancelable ==
  \A o \in Left : o.op = "cancel" =>
    \A t \in o.ts : running(t) /\ involved(o.user, t) /\ \A s : ~Writes(t, s)

\* An account that is about to go has no session, and what involves it is about to be canceled.
Leaving ==
  \A o \in Left : o.op \in {"remove_devices", "delete"} =>
    /\ \A t \in Transactions : running(t) /\ involved(o.user, t) => Doomed(t, o.user, NoDevice)
    /\ \A d \in sessions : owner[d] # o.user

\* Ghosts are merged into accounts that are there.
Welcomed == \A o \in Left : o.op = "take_over" => ~Gone(o.user)

Parted == /\ Loose /\ Deviceless /\ Departed /\ Seated
          /\ Lawful /\ Admitted /\ Cancelable /\ Leaving /\ Welcomed

PartKinds == {"cancel_find", "cancel", "write", "put", "end_session", "remove_devices", "delete",
              "take_over"}

\* Parted says nothing of what such a step changes.
LEMMA PartedStays ==
  ASSUME Parted, UNCHANGED <<tx, devices, register_status, sessions>>,
         \A x \in Left' : x \in Left \/ x.op \notin PartKinds,
         \A x \in Left : x.op \in PartKinds => x \in Left'
  PROVE  Parted'
<1>1. \A t, s : Writes(t, s)' <=> Writes(t, s)
  BY DEF Writes, PartKinds
<1>2. \A u, d : Seeks(u, d)' <=> Seeks(u, d)
  BY DEF Seeks, PartKinds
<1>3. \A u, t : Cancels(u, t)' <=> Cancels(u, t)
  BY DEF Cancels, PartKinds
<1>4. \A d : Quits(d)' <=> Quits(d)
  BY DEF Quits, PartKinds
<1>5. \A t, u, d : Doomed(t, u, d)' <=> Doomed(t, u, d)
  BY <1>1, <1>2, <1>3 DEF Doomed
<1>6. /\ \A t : running(t)' <=> running(t)
      /\ \A u, t : involved(u, t)' <=> involved(u, t)
      /\ \A u : Gone(u)' <=> Gone(u)
      /\ \A t, d : Tied(t, d)' <=> Tied(t, d)
  BY DEF running, exists, involved, Gone, Tied, is_sender
<1>7. Loose' /\ Deviceless' /\ Departed' /\ Seated'
  BY <1>4, <1>5, <1>6 DEF Parted, Loose, Deviceless, Departed, Seated
<1>8. Lawful' /\ Admitted'
  BY <1>6 DEF Parted, Lawful, Admitted, PartKinds
<1>9. Cancelable' /\ Leaving' /\ Welcomed'
  BY <1>1, <1>5, <1>6 DEF Parted, Cancelable, Leaving, Welcomed, PartKinds
<1> QED
  BY <1>7, <1>8, <1>9 DEF Parted

\* Nothing left to cancel: what runs is tied to devices that are there.
LEMMA PartedIdle ==
  ASSUME Parted, \A x \in Left : x.op \notin {"cancel_find", "cancel", "write"}
  PROVE  /\ \A t, u, d : ~Doomed(t, u, d)
         /\ \A t \in Transactions, d \in Devices :
              running(t) /\ d \notin devices[owner[d]] => ~Tied(t, d)
<1>1. \A t, u, d : ~Doomed(t, u, d)
  BY DEF Doomed, Seeks, Cancels, Writes
<1> QED
  BY <1>1 DEF Parted, Loose

\* When a request starts, sessions are of devices that are there.
LEMMA PartedStart ==
  ASSUME IInv, Serial, Parted, NEW w \in Workers, NEW call, NEW ops, Request(call, w, ops)
  PROVE  /\ Left' = Items(ops) /\ Left = {} /\ TypeOK
         /\ \A t, u, d : ~Doomed(t, u, d)
         /\ \A t \in Transactions, d \in Devices :
              running(t) /\ d \notin devices[owner[d]] => ~Tied(t, d)
         /\ \A d \in sessions : d \in Devices /\ d \in devices[owner[d]] /\ ~Gone(owner[d])
<1>1. Left' = Items(ops) /\ Left = {} /\ TypeOK
  BY LeftRequest DEF IInv
<1>2. \A d \in sessions : d \in Devices /\ d \in devices[owner[d]] /\ ~Gone(owner[d])
  BY <1>1 DEF Parted, Seated, Quits, TypeOK
<1> QED
  BY <1>1, <1>2, PartedIdle

\* A request that leaves documents and accounts alone; what it lays out is judged apart.
LEMMA PartedRequest ==
  ASSUME IInv, Serial, Parted, NEW w \in Workers, NEW call, NEW ops, Request(call, w, ops),
         UNCHANGED <<tx, devices, register_status>>,
         \A d \in sessions' : d \in sessions
  PROVE  Loose' /\ Deviceless' /\ Departed' /\ Seated'
<1>1. /\ \A t \in Transactions, d \in Devices :
           running(t) /\ d \notin devices[owner[d]] => ~Tied(t, d)
      /\ \A d \in sessions : d \in Devices /\ d \in devices[owner[d]] /\ ~Gone(owner[d])
  BY PartedStart
<1>2. /\ \A t : running(t)' <=> running(t)
      /\ \A u, t : involved(u, t)' <=> involved(u, t)
      /\ \A u : Gone(u)' <=> Gone(u)
      /\ \A t, d : Tied(t, d)' <=> Tied(t, d)
  BY DEF running, exists, involved, Gone, Tied, is_sender
<1>3. Loose'
  BY <1>1, <1>2 DEF Loose
<1>4. Deviceless' /\ Departed'
  BY <1>2 DEF Parted, Deviceless, Departed
<1>5. Seated'
  BY <1>1, <1>2 DEF Seated
<1> QED
  BY <1>3, <1>4, <1>5

\* What it may always lay out.
LEMMA PartedPlain ==
  ASSUME IInv, Serial, Parted, NEW w \in Workers, NEW call, NEW ops, Request(call, w, ops),
         UNCHANGED <<tx, devices, register_status>>,
         \A d \in sessions' : d \in sessions,
         \A x \in Items(ops) : x.op \notin PartKinds \/ x.op \in {"cancel_find", "end_session"}
  PROVE  Parted'
<1>1. Left' = Items(ops)
  BY PartedStart
<1>2. Loose' /\ Deviceless' /\ Departed' /\ Seated'
  BY PartedRequest
<1>3. Lawful' /\ Admitted' /\ Cancelable' /\ Leaving' /\ Welcomed'
  BY <1>1 DEF Lawful, Admitted, Cancelable, Leaving, Welcomed, PartKinds
<1> QED
  BY <1>2, <1>3 DEF Parted

\* The request that inserts a transaction keeps Parted.
LEMMA PartedPut ==
  ASSUME IInv, Serial, Parted, NEW w \in Workers, NEW call, NEW ops, Request(call, w, ops),
         UNCHANGED <<tx, devices, register_status, sessions>>,
         NEW o, o.op = "put",
         \A x \in Items(ops) : x = o \/ x.op \notin PartKinds,
         o.doc.sender_device # NoDevice => o.doc.sender_device \in devices[owner[o.doc.sender_device]],
         o.doc.recipient_device # NoDevice => o.doc.recipient_device \in devices[o.doc.recipient],
         ~Gone(o.doc.sender),
         Gone(o.doc.recipient) => o.doc.status = "created" /\ o.doc.sender_device = NoDevice
  PROVE  Parted'
<1>1. Left' = Items(ops)
  BY PartedStart
<1>2. Loose' /\ Deviceless' /\ Departed' /\ Seated'
  BY PartedRequest
<1>3. Admitted'
  <2>1. \A u : Gone(u)' <=> Gone(u)
    BY DEF Gone
  <2>2. \A x \in Left' : x.op = "put" => x = o
    BY <1>1 DEF PartKinds
  <2> QED
    BY <2>1, <2>2 DEF Admitted
<1>4. Lawful' /\ Cancelable' /\ Leaving' /\ Welcomed'
  BY <1>1 DEF Lawful, Cancelable, Leaving, Welcomed, PartKinds
<1> QED
  BY <1>2, <1>3, <1>4 DEF Parted

\* The request that creates a transaction keeps Parted.
LEMMA PartedCreate ==
  ASSUME IInv, Serial, Parted, NEW w \in Workers, NEW call, NEW d \in Devices, LoggedIn(d),
         NEW t \in Transactions, NEW s \in {"created", "initialized"}, NEW r \in Users,
         NEW rd \in Devices \union {NoDevice}, Request(call, w, CreateOps(t, s, d, r, rd)),
         UNCHANGED <<tx, devices, register_status, sessions>>,
         register_status[r] # "deleted", rd # NoDevice => rd \in devices[r]
  PROVE  Parted'
<1> DEFINE ops == CreateOps(t, s, d, r, rd)
           o == Inserted(t, s, d, r, rd)
<1>1. TypeOK /\ d \in devices[owner[d]] /\ ~Gone(owner[d]) /\ ~Gone(r)
  BY PartedStart DEF LoggedIn, Gone
<1>2. \A x \in Items(ops) : \/ x = o
                            \/ x = Told(t, r)
                            \/ x = Push(owner[d], t, "pending")
                            \/ x = Push(r, t, "unaccepted")
  BY <1>1, CreateItems
<1>3. /\ o.op = "put" /\ o.doc.sender = owner[d] /\ o.doc.sender_device = d
      /\ o.doc.recipient = r /\ o.doc.recipient_device = rd
  BY DEF Inserted
<1>4. Request(call, w, ops) /\ \A u, l : Push(u, t, l).op = "push" /\ Told(t, r).op = "notify"
  BY DEF Push, Told
<1> HIDE DEF ops, o
<1>5. \A x \in Items(ops) : x = o \/ x.op \notin PartKinds
  BY <1>2, <1>4 DEF PartKinds
<1> QED
  BY <1>1, <1>3, <1>4, <1>5, PartedPut

\* The creation of a transaction whose files are not known yet keeps Parted.
LEMMA PartedBare ==
  ASSUME IInv, Serial, Parted, NEW w \in Workers, NEW d \in Devices, NEW t \in Transactions,
         NEW r \in Users, Bare(w, d, t, r)
  PROVE  Parted'
<1> DEFINE doc == [Absent EXCEPT !.status = "created", !.sender = owner[d], !.recipient = r]
           o == [op |-> "put", t |-> t, doc |-> doc]
           ops == <<o>>
<1>1. /\ Request("bare", w, ops) /\ o.op = "put" /\ o.doc = doc /\ Items(ops) = {o} /\ LoggedIn(d)
      /\ UNCHANGED <<tx, devices, register_status, sessions>>
  BY ItemsOne DEF Bare, docs, accounts
<1>2. /\ doc.status = "created" /\ doc.sender = owner[d] /\ doc.sender_device = NoDevice
      /\ doc.recipient_device = NoDevice
  BY DEF Absent
<1> HIDE DEF ops, o, doc
<1>3. ~Gone(owner[d])
  BY <1>1, PartedStart DEF LoggedIn
<1> QED
  BY <1>1, <1>2, <1>3, PartedPut

\* The request that asks for the buffer keeps Parted.
LEMMA PartedDownload ==
  ASSUME IInv, Serial, Parted, NEW w \in Workers, NEW t \in Transactions, Download(w, t)
  PROVE  Parted'
<1> DEFINE note == Notify(t, tx[t])
           count == [op |-> "count", t |-> t]
           ops == IF tx[t].status = "finished" THEN << >> ELSE <<count, note>>
<1>1. /\ Request("download", w, ops) /\ tx' = [tx EXCEPT ![t].status = "finished"]
      /\ UNCHANGED <<devices, register_status, sessions>>
  BY DEF Download, accounts
<1>2. note.op = "notify" /\ count.op = "count"
  BY DEF Notify
<1> HIDE DEF note, count
<1>3. Items(ops) \subseteq {count, note}
  BY ItemsFew, Empty
<1> HIDE DEF ops
<1>4. /\ Left' \subseteq {count, note} /\ Left = {} /\ TypeOK
      /\ \A x \in Transactions, d \in Devices :
           running(x) /\ d \notin devices[owner[d]] => ~Tied(x, d)
      /\ \A d \in sessions : d \in Devices /\ d \in devices[owner[d]] /\ ~Gone(owner[d])
  BY <1>1, <1>3, PartedStart
<1>5. /\ tx'[t].status = "finished" /\ tx'[t].recipient = tx[t].recipient
      /\ tx'[t].recipient_device = tx[t].recipient_device
      /\ \A x \in Transactions : x # t => tx'[x] = tx[x]
  BY <1>1, <1>4 DEF TypeOK, Documents
<1>6. /\ ~running(t)'
      /\ \A x \in Transactions : x # t =>
           /\ running(x)' <=> running(x)
           /\ \A u : involved(u, x)' <=> involved(u, x)
           /\ \A d : Tied(x, d)' <=> Tied(x, d)
      /\ \A u : Gone(u)' <=> Gone(u)
  BY <1>1, <1>5 DEF running, exists, final, involved, Tied, is_sender, Gone
<1>7. Loose'
  BY <1>1, <1>4, <1>6 DEF Loose
<1>8. Deviceless' /\ Departed'
  BY <1>5, <1>6 DEF Parted, Deviceless, Departed
<1>9. Seated'
  BY <1>1, <1>4, <1>6 DEF Seated
<1>10. Lawful' /\ Admitted' /\ Cancelable' /\ Leaving' /\ Welcomed'
  BY <1>2, <1>4 DEF Lawful, Admitted, Cancelable, Leaving, Welcomed
<1> QED
  BY <1>7, <1>8, <1>9, <1>10 DEF Parted

\* The creation of an empty transaction keeps Parted.
LEMMA PartedEmpty ==
  ASSUME IInv, Serial, Parted, NEW w \in Workers, NEW d \in Devices, NEW t \in Transactions,
         CreateEmpty(w, d, t)
  PROVE  Parted'
<1> DEFINE doc == [Absent EXCEPT !.status = "empty", !.sender = owner[d]]
<1>1. /\ Request("create_empty", w, << >>) /\ tx' = [tx EXCEPT ![t] = doc]
      /\ UNCHANGED <<devices, register_status, sessions>>
  BY DEF CreateEmpty, accounts
<1>2. doc.status = "empty" /\ doc.recipient_device = NoDevice
  BY DEF Absent
<1> HIDE DEF doc
<1>3. /\ Left' = {} /\ Left = {} /\ TypeOK
      /\ \A x \in Transactions, e \in Devices :
           running(x) /\ e \notin devices[owner[e]] => ~Tied(x, e)
      /\ \A e \in sessions : e \in Devices /\ e \in devices[owner[e]] /\ ~Gone(owner[e])
  BY <1>1, Empty, PartedStart
<1>4. tx'[t] = doc /\ \A x \in Transactions : x # t => tx'[x] = tx[x]
  BY <1>1, <1>3 DEF TypeOK
<1>5. /\ ~running(t)'
      /\ \A x \in Transactions : x # t =>
           /\ running(x)' <=> running(x)
           /\ \A u : involved(u, x)' <=> involved(u, x)
           /\ \A e : Tied(x, e)' <=> Tied(x, e)
      /\ \A u : Gone(u)' <=> Gone(u)
  BY <1>1, <1>2, <1>4 DEF running, exists, Statuses, involved, Tied, is_sender, Gone
<1>6. Loose'
  BY <1>1, <1>3, <1>5 DEF Loose
<1>7. Deviceless' /\ Departed'
  BY <1>2, <1>4, <1>5 DEF Parted, Deviceless, Departed
<1>8. Seated'
  BY <1>1, <1>3, <1>5 DEF Seated
<1>9. Lawful' /\ Admitted' /\ Cancelable' /\ Leaving' /\ Welcomed'
  BY <1>3 DEF Lawful, Admitted, Cancelable, Leaving, Welcomed
<1> QED
  BY <1>6, <1>7, <1>8, <1>9 DEF Parted

\* Who accepts or rejects is the recipient, who asks for anything but a cancelation has a device.
LEMMA Accepting ==
  ASSUME IInv, NEW d \in Devices, NEW t \in Transactions, exists(t), NEW s,
         involved(owner[d], t),
         owner[d] = tx[t].recipient \/ d = tx[t].sender_device \/ s = "canceled",
         Permitted(t, s, is_sender(t, owner[d], d))
  PROVE  /\ running(t)
         /\ s \in {"accepted", "rejected"} => tx[t].recipient = owner[d]
         /\ s # "canceled" => tx[t].recipient = owner[d] \/ tx[t].sender_device = d
<1>1. running(t)
  BY DEF running, Permitted
<1>2. s \in {"accepted", "rejected"} => ~is_sender(t, owner[d], d)
  <2>1. is_sender(t, owner[d], d) \in BOOLEAN
    BY DEF is_sender
  <2> HIDE DEF is_sender
  <2> QED
    BY <2>1 DEF Permitted, exists, Statuses, final, transitions
<1>3. s \in {"accepted", "rejected"} => tx[t].recipient = owner[d]
  BY <1>2 DEF involved, is_sender
<1> QED
  BY <1>1, <1>3

\* The request that updates a transaction keeps Parted.
LEMMA PartedUpdate ==
  ASSUME IInv, Laid, Serial, Parted, NEW w \in Workers,
         NEW d \in Devices, NEW t \in Transactions, NEW s \in Asked, Update(w, d, t, s)
  PROVE  Parted'
<1> DEFINE u == owner[d]
           ops == IF s = "rejected" /\ d \notin devices[u]
                    THEN Complete(u, t, "unaccepted") ELSE UpdateOps(t, s, u, d)
<1>1. /\ Request("update", w, ops) /\ UNCHANGED <<tx, devices, register_status, sessions>>
      /\ exists(t) /\ involved(u, t) /\ LoggedIn(d)
      /\ u = tx[t].recipient \/ d = tx[t].sender_device \/ s = "canceled"
      /\ Permitted(t, s, is_sender(t, u, d))
      /\ s = "accepted" => d \in devices[u]
  BY DEF Update, docs, accounts
<1>2. u \in Users \ Ghosts /\ u \in Users /\ s \in Statuses /\ "unaccepted" \in Lists /\ TypeOK
  BY UsersAssumption DEF Lists, IInv
<1>3. ~Gone(u)
  BY <1>1, PartedStart DEF LoggedIn
<1>4. /\ running(t)
      /\ s \in {"accepted", "rejected"} => tx[t].recipient = u
      /\ s # "canceled" => tx[t].recipient = u \/ tx[t].sender_device = d
  BY <1>1, Accepting
<1>5. CASE s = "rejected" /\ d \notin devices[u]
  <2>1. ops = Complete(u, t, "unaccepted")
    BY <1>5
  <2>2. \A x \in Items(Complete(u, t, "unaccepted")) : Completes(x, t)
    BY <1>2, CompleteItems
  <2> HIDE DEF ops
  <2>3. \A x \in Items(ops) : x.op \notin PartKinds
    BY <2>1, <2>2 DEF Completes, PartKinds
  <2> QED
    BY <1>1, <2>3, PartedPlain
<1>6. CASE ~(s = "rejected" /\ d \notin devices[u])
  <2>1. ops = UpdateOps(t, s, u, d)
    BY <1>6
  <2> HIDE DEF ops, u
  <2> DEFINE o == Updated(t, s, d)
  <2>2. \A x \in Items(ops) : x = o \/ Counted(x, t, s, u)
    BY <1>1, <1>2, <2>1, UpdateItems
  <2>3. /\ o.op = "write" /\ o.t = t /\ (o.status \in final <=> s \in final)
        /\ o.device = IF s \in {"accepted", "rejected"} THEN d ELSE NoDevice
    BY DEF Updated, NewStatus, final
  <2> HIDE DEF o
  <2>4. \A x \in Items(ops) : x = o \/ x.op \notin PartKinds
    BY <2>2 DEF Counted, Completes, Push, PartKinds
  <2>5. Left' = Items(ops)
    BY <1>1, PartedStart
  <2>6. Loose' /\ Deviceless' /\ Departed' /\ Seated'
    BY <1>1, PartedRequest
  <2>7. tx[t].recipient \in Users /\ tx[t].sender \in Users
    BY <1>1, <1>2 DEF TypeOK
  <2>8. s \notin final => ~Gone(tx[t].sender) /\ ~Gone(tx[t].recipient)
    <3> SUFFICES ASSUME s \notin final PROVE ~Gone(tx[t].sender) /\ ~Gone(tx[t].recipient)
      OBVIOUS
    <3>1. ~Gone(tx[t].sender)
      BY <1>4, <2>7 DEF Parted, Departed, involved
    <3>2. tx[t].recipient = u \/ tx[t].sender_device = d
      BY <1>4 DEF final
    <3>3. ASSUME Gone(tx[t].recipient) PROVE tx[t].sender_device = NoDevice
      BY <1>4, <2>7, <3>3 DEF Parted, Departed, involved
    <3> QED
      BY <1>3, <3>1, <3>2, <3>3, UsersAssumption
  <2>9. o.device # NoDevice => /\ tx[o.t].recipient \notin Ghosts
                               /\ o.device \in devices[owner[o.device]] \/ o.status \in final
    <3>1. s = "rejected" => s \in final
      BY DEF final
    <3> QED
      BY <1>1, <1>2, <1>4, <2>3, <3>1 DEF u
  <2>10. Lawful'
    <3>1. \A x \in Left' : x.op = "write" => x = o
      BY <2>3, <2>4, <2>5 DEF PartKinds
    <3>2. \A v : Gone(v)' <=> Gone(v)
      BY <1>1 DEF Gone
    <3> QED
      BY <1>1, <2>3, <2>8, <2>9, <3>1, <3>2 DEF Lawful
  <2>11. Admitted' /\ Cancelable' /\ Leaving' /\ Welcomed'
    BY <2>3, <2>4, <2>5 DEF Admitted, Cancelable, Leaving, Welcomed, PartKinds
  <2> QED
    BY <2>6, <2>10, <2>11 DEF Parted
<1> QED
  BY <1>5, <1>6

\* The deletion of a device keeps Parted.
LEMMA PartedDeleteDevice ==
  ASSUME IInv, Laid, Serial, Parted, NEW w \in Workers, NEW d \in Devices, NEW e \in Devices,
         DeleteDevice(w, d, e)
  PROVE  Parted'
<1> DEFINE u == owner[d]
           find == CancelFind(u, e)
           end == [op |-> "end_session", device |-> e]
           ops == <<find, end>>
<1>1. /\ Request("delete_device", w, ops) /\ e \in devices[u]
      /\ devices' = [devices EXCEPT ![u] = @ \ {e}]
      /\ UNCHANGED <<tx, register_status, sessions>>
  BY DEF DeleteDevice, docs
<1>2. /\ find.op = "cancel_find" /\ find.user = u /\ find.device = e
      /\ end.op = "end_session" /\ end.device = e
  BY DEF CancelFind
<1>3. u \in Users /\ owner[e] = u
  BY <1>1, UsersAssumption DEF Laid, Folk
<1> HIDE DEF find, end, u
<1>4. Items(ops) = {find, end}
  BY ItemsFew
<1> HIDE DEF ops
<1>5. /\ Left' = {find, end} /\ Left = {} /\ TypeOK
      /\ \A x \in Transactions, f \in Devices :
           running(x) /\ f \notin devices[owner[f]] => ~Tied(x, f)
      /\ \A f \in sessions : f \in Devices /\ f \in devices[owner[f]] /\ ~Gone(owner[f])
  BY <1>1, <1>4, PartedStart
<1>6. \A f \in Devices : f \in devices[owner[f]] /\ f # e => f \in devices'[owner[f]]
  BY <1>1, <1>3, <1>5, UsersAssumption DEF TypeOK
<1>7. /\ \A t : running(t)' <=> running(t)
      /\ \A v, t : involved(v, t)' <=> involved(v, t)
      /\ \A v : Gone(v)' <=> Gone(v)
      /\ \A t, f : Tied(t, f)' <=> Tied(t, f)
  BY <1>1 DEF running, exists, involved, Gone, Tied, is_sender
<1>8. Seeks(u, e)' /\ Quits(e)'
  BY <1>2, <1>5 DEF Seeks, Quits
<1>9. Loose'
  BY <1>3, <1>5, <1>6, <1>7, <1>8 DEF Loose, Doomed
<1>10. Deviceless' /\ Departed'
  BY <1>1, <1>7 DEF Parted, Deviceless, Departed
<1>11. Seated'
  BY <1>1, <1>5, <1>6, <1>7, <1>8 DEF Seated
<1>12. Lawful' /\ Admitted' /\ Cancelable' /\ Leaving' /\ Welcomed'
  BY <1>2, <1>5 DEF Lawful, Admitted, Cancelable, Leaving, Welcomed
<1> QED
  BY <1>9, <1>10, <1>11, <1>12 DEF Parted

\* The deletion of a user keeps Parted.
LEMMA PartedDeleteUser ==
  ASSUME IInv, Laid, Serial, Parted, NEW w \in Workers, NEW d \in Devices, DeleteUser(w, d)
  PROVE  Parted'
<1> DEFINE u == owner[d]
           find == CancelFind(u, NoDevice)
           remove == [op |-> "remove_devices", user |-> u]
           delete == [op |-> "delete", user |-> u]
           ops == <<find, remove, delete>>
<1>1. /\ Request("delete_user", w, ops) /\ sessions' = {e \in sessions : owner[e] # u}
      /\ UNCHANGED <<tx, devices, register_status>>
  BY DEF DeleteUser, LeaveOps, docs
<1>2. /\ find.op = "cancel_find" /\ find.user = u /\ find.device = NoDevice
      /\ remove.op = "remove_devices" /\ remove.user = u
      /\ delete.op = "delete" /\ delete.user = u
  BY DEF CancelFind
<1> HIDE DEF find, remove, delete, u
<1>3. Items(ops) = {find, remove, delete}
  BY ItemsFew
<1> HIDE DEF ops
<1>4. Left' = {find, remove, delete}
  BY <1>1, <1>3, PartedStart
<1>5. Loose' /\ Deviceless' /\ Departed' /\ Seated'
  BY <1>1, PartedRequest
<1>6. Seeks(u, NoDevice)'
  BY <1>2, <1>4 DEF Seeks
<1>7. Leaving'
  BY <1>1, <1>2, <1>4, <1>6 DEF Leaving, Doomed
<1>8. Lawful' /\ Admitted' /\ Cancelable' /\ Welcomed'
  BY <1>2, <1>4 DEF Lawful, Admitted, Cancelable, Welcomed
<1> QED
  BY <1>5, <1>7, <1>8 DEF Parted

\* A login keeps Parted.
LEMMA PartedLogin ==
  ASSUME IInv, Serial, Parted, NEW w \in Workers, NEW d \in Devices, Login(w, d)
  PROVE  Parted'
<1>1. /\ Request("login", w, << >>) /\ d \in devices[owner[d]] /\ register_status[owner[d]] = "ok"
      /\ sessions' = sessions \union {d}
      /\ UNCHANGED <<tx, devices, register_status>>
  BY DEF Login, docs
<1>2. /\ Left' = {} /\ Left = {}
      /\ \A x \in Transactions, e \in Devices :
           running(x) /\ e \notin devices[owner[e]] => ~Tied(x, e)
      /\ \A e \in sessions : e \in Devices /\ e \in devices[owner[e]] /\ ~Gone(owner[e])
  BY <1>1, Empty, PartedStart
<1>3. /\ \A t : running(t)' <=> running(t)
      /\ \A v, t : involved(v, t)' <=> involved(v, t)
      /\ \A v : Gone(v)' <=> Gone(v)
      /\ \A t, f : Tied(t, f)' <=> Tied(t, f)
  BY <1>1 DEF running, exists, involved, Gone, Tied, is_sender
<1>4. Loose'
  BY <1>1, <1>2, <1>3 DEF Loose
<1>5. Deviceless' /\ Departed'
  BY <1>1, <1>3 DEF Parted, Deviceless, Departed
<1>6. Seated'
  BY <1>1, <1>2, <1>3 DEF Seated, Gone
<1>7. Lawful' /\ Admitted' /\ Cancelable' /\ Leaving' /\ Welcomed'
  BY <1>2 DEF Lawful, Admitted, Cancelable, Leaving, Welcomed
<1> QED
  BY <1>4, <1>5, <1>6, <1>7 DEF Parted

\* The merge of a ghost into an account keeps Parted.
LEMMA PartedMerge ==
  ASSUME IInv, Serial, Parted, NEW w \in Workers, NEW d \in Devices, NEW g \in Users,
         MergeGhost(w, d, g)
  PROVE  Parted'
<1> DEFINE take == [op |-> "take_over", ghost |-> g, user |-> owner[d]]
           merge == [op |-> "merge", user |-> g]
           ops == <<take, merge, take>>
<1>1. take.op = "take_over" /\ merge.op = "merge" /\ take.user = owner[d]
  OBVIOUS
<1>2. /\ Request("merge_ghost", w, ops) /\ LoggedIn(d)
      /\ UNCHANGED <<tx, devices, register_status, sessions>>
  BY DEF MergeGhost, docs, accounts
<1> HIDE DEF take, merge
<1>3. Items(ops) = {take, merge}
  BY ItemsFew
<1> HIDE DEF ops
<1>4. Left' = {take, merge} /\ ~Gone(owner[d])
  BY <1>2, <1>3, PartedStart DEF LoggedIn
<1>5. Loose' /\ Deviceless' /\ Departed' /\ Seated'
  BY <1>2, PartedRequest
<1>6. Welcomed'
  BY <1>1, <1>2, <1>4 DEF Welcomed, Gone
<1>7. Lawful' /\ Admitted' /\ Cancelable' /\ Leaving'
  BY <1>1, <1>4 DEF Lawful, Admitted, Cancelable, Leaving
<1> QED
  BY <1>5, <1>6, <1>7 DEF Parted

\* A request received keeps Parted.
LEMMA PartedReceive ==
  ASSUME IInv, Laid, Serial, Parted, NEW w \in Workers, Receive(w)
  PROVE  Parted'
<1>1. ASSUME NEW t \in Transactions, Download(w, t) PROVE Parted'
  BY <1>1, PartedDownload
<1>2. ASSUME NEW d \in Devices, NEW t \in Transactions, CreateEmpty(w, d, t) PROVE Parted'
  BY <1>2, PartedEmpty
<1>3. ASSUME NEW d \in Devices, NEW t \in Transactions, NEW s \in Asked, Update(w, d, t, s)
      PROVE  Parted'
  BY <1>3, PartedUpdate
<1>4. ASSUME NEW d \in Devices, NEW t \in Transactions, NEW p \in BOOLEAN, Pause(w, d, t, p)
      PROVE  Parted'
  <2> DEFINE o == [op |-> "pause", t |-> t, paused |-> p]
             ops == <<o>>
  <2>1. /\ Request("pause", w, ops) /\ o.op = "pause" /\ Items(ops) = {o}
        /\ UNCHANGED <<tx, devices, register_status, sessions>>
    BY <1>4, ItemsOne DEF Pause, docs, accounts
  <2> HIDE DEF ops, o
  <2> QED
    BY <2>1, PartedPlain DEF PartKinds
<1>5. ASSUME NEW d \in Devices, NEW t \in Transactions, NEW r \in Users, Create(w, d, t, r)
      PROVE  Parted'
  <2>1. /\ Request("create", w, CreateOps(t, "created", d, r, NoDevice)) /\ LoggedIn(d)
        /\ register_status[r] # "deleted"
        /\ UNCHANGED <<tx, devices, register_status, sessions>>
    BY <1>5 DEF Create, docs, accounts
  <2> QED
    BY <2>1, PartedCreate
<1>6. ASSUME NEW d \in Devices, NEW t \in Transactions, NEW r \in Users, Bare(w, d, t, r)
      PROVE  Parted'
  BY <1>6, PartedBare
<1>7. ASSUME NEW d \in Devices, NEW t \in Transactions, NEW r \in Users,
             NEW rd \in Devices \union {NoDevice}, Fill(w, d, t, r, rd)
      PROVE  Parted'
  <2>1. /\ Request("fill", w, CreateOps(t, "initialized", d, r, rd)) /\ LoggedIn(d)
        /\ register_status[r] # "deleted" /\ (rd # NoDevice => rd \in devices[r])
        /\ UNCHANGED <<tx, devices, register_status, sessions>>
    BY <1>7 DEF Fill, docs, accounts
  <2> QED
    BY <2>1, PartedCreate
<1>8. ASSUME NEW d \in Devices, NEW e \in Devices, DeleteDevice(w, d, e) PROVE Parted'
  BY <1>8, PartedDeleteDevice
<1>9. ASSUME NEW d \in Devices, DeleteUser(w, d) PROVE Parted'
  BY <1>9, PartedDeleteUser
<1>10. ASSUME NEW d \in Devices, ChangePassword(w, d) PROVE Parted'
  <2> DEFINE find == CancelFind(owner[d], NoDevice)
             ops == <<find>>
  <2>1. /\ Request("change_password", w, ops) /\ find.op = "cancel_find" /\ Items(ops) = {find}
        /\ sessions' = {e \in sessions : owner[e] # owner[d]}
        /\ UNCHANGED <<tx, devices, register_status>>
    BY <1>10, ItemsOne DEF ChangePassword, LeaveOps, CancelFind, docs
  <2> HIDE DEF ops, find
  <2> QED
    BY <2>1, PartedPlain
<1>11. ASSUME NEW d \in Devices, Login(w, d) PROVE Parted'
  BY <1>11, PartedLogin
<1>12. ASSUME NEW d \in Devices, NEW g \in Users, MergeGhost(w, d, g) PROVE Parted'
  BY <1>12, PartedMerge
<1> QED
  BY <1>1, <1>2, <1>3, <1>4, <1>5, <1>6, <1>7, <1>8, <1>9, <1>10, <1>11, <1>12, ZenonT(60)
  DEF Receive

\* The insertion of the transaction keeps Parted.
LEMMA PartedInsert ==
  ASSUME IInv, SInv, Laid, Serial, Parted, NEW w \in Workers, Put(w)
  PROVE  Parted'
<1> DEFINE o == Head(todo[w])
           R == Behind(w)
<1>1. /\ todo[w] # << >> /\ o.op = "put" /\ tx' = [tx EXCEPT ![o.t] = o.doc] /\ Continue(w, << >>)
      /\ UNCHANGED <<devices, register_status, sessions>>
  BY DEF Put, At, accounts
<1>2. /\ Left = {o} \union R /\ o \in Left /\ o \in Ops /\ TypeOK
      /\ \A b \in R : Follows(o, b)
      /\ \A t, s : ~Writes(t, s)
  BY <1>1, Headed DEF IInv, Steady
<1>3. Left' = R
  BY <1>1, Shorter
<1>4. o \in PutOps
  BY <1>1, <1>2, OpKinds
<1> HIDE DEF o, R
<1>5. /\ o.t \in Transactions /\ o.doc.sender \in Users /\ o.doc.recipient \in Users
      /\ o.doc.sender_device \in Devices \union {NoDevice}
      /\ o.doc.recipient_device \in Devices \union {NoDevice}
  BY <1>4 DEF PutOps
<1>6. tx'[o.t] = o.doc /\ \A x \in Transactions : x # o.t => tx'[x] = tx[x]
  BY <1>1, <1>2, <1>5 DEF TypeOK
<1>7. \A b \in R : b.op \in {"notify", "push"}
  BY <1>1, <1>2 DEF Follows
<1>8. \A x \in Left : x.op \notin {"cancel_find", "cancel", "write", "end_session"}
  BY <1>1, <1>2, <1>7
<1>9. \A t \in Transactions, d \in Devices :
        running(t) /\ d \notin devices[owner[d]] => ~Tied(t, d)
  BY <1>8, PartedIdle
<1>10. /\ o.doc.sender_device # NoDevice =>
            o.doc.sender_device \in devices[owner[o.doc.sender_device]]
       /\ o.doc.recipient_device # NoDevice => o.doc.recipient_device \in devices[o.doc.recipient]
       /\ ~Gone(o.doc.sender)
       /\ Gone(o.doc.recipient) => o.doc.status = "created" /\ o.doc.sender_device = NoDevice
  BY <1>1, <1>2 DEF Parted, Admitted
<1>11. /\ \A x \in Transactions : x # o.t =>
            /\ running(x)' <=> running(x)
            /\ \A u : involved(u, x)' <=> involved(u, x)
            /\ \A d : Tied(x, d)' <=> Tied(x, d)
       /\ \A u : Gone(u)' <=> Gone(u)
  BY <1>1, <1>6 DEF running, exists, involved, Tied, is_sender, Gone
<1>12. Loose'
  <2> SUFFICES ASSUME NEW t \in Transactions, NEW d \in Devices, running(t)',
                      d \notin devices[owner[d]], Tied(t, d)'
               PROVE  FALSE
    BY <1>1 DEF Loose
  <2>1. t = o.t
    BY <1>9, <1>11
  <2>2. d # NoDevice
    BY UsersAssumption
  <2> QED
    BY <1>6, <1>10, <2>1, <2>2 DEF Tied, is_sender
<1>13. Deviceless'
  <2>1. o.doc.recipient \in Ghosts => o.doc.recipient_device = NoDevice
    <3> SUFFICES ASSUME o.doc.recipient \in Ghosts, o.doc.recipient_device # NoDevice PROVE FALSE
      OBVIOUS
    <3>1. o.doc.recipient_device \in Devices /\ owner[o.doc.recipient_device] = o.doc.recipient
      BY <1>5, <1>10 DEF Laid, Folk
    <3> QED
      BY <3>1, UsersAssumption
  <2> QED
    BY <1>6, <2>1 DEF Parted, Deviceless
<1>14. Departed'
  <2> SUFFICES ASSUME NEW t \in Transactions, NEW u \in Users, Gone(u), running(t)', involved(u, t)'
               PROVE  tx'[t].status = "created" /\ tx'[t].sender_device = NoDevice /\ tx'[t].sender # u
    BY <1>11 DEF Departed
  <2>1. CASE t = o.t
    BY <1>6, <1>10, <2>1 DEF involved
  <2>2. CASE t # o.t
    BY <1>6, <1>11, <2>2 DEF Parted, Departed
  <2> QED
    BY <2>1, <2>2
<1>15. Seated'
  BY <1>1, <1>8, <1>11 DEF Parted, Seated, Quits
<1>16. Lawful' /\ Admitted' /\ Cancelable' /\ Leaving' /\ Welcomed'
  BY <1>3, <1>7 DEF Lawful, Admitted, Cancelable, Leaving, Welcomed
<1> QED
  BY <1>12, <1>13, <1>14, <1>15, <1>16 DEF Parted

\* The writing of a status keeps Parted.
LEMMA PartedWrite ==
  ASSUME IInv, SInv, Laid, Serial, Parted, NEW w \in Workers, Write(w)
  PROVE  Parted'
<1> DEFINE o == Head(todo[w])
           R == Behind(w)
           note == Notify(o.t, Written(o))
<1>1. /\ todo[w] # << >> /\ o \in WriteOps /\ o.op = "write" /\ exists(o.t)
      /\ tx' = [tx EXCEPT ![o.t] = Written(o)] /\ tx[o.t] \in Documents
      /\ Left' = {note} \union R /\ note.op = "notify"
  BY WriteItems
<1>2. /\ Left = {o} \union R /\ o \in Left /\ Sound(o) /\ TypeOK
      /\ \A t, s : Writes(t, s) => t = o.t /\ s = o.status
  BY <1>1, Headed DEF IInv, Steady, Writers
<1>3. UNCHANGED <<devices, register_status, sessions>>
  BY DEF Write, accounts
<1>4. \A b \in R : b.op \notin {"write", "put"} /\ b \in Left
  BY <1>1, Headed, Served DEF Steady, Writers
<1> HIDE DEF o, R, note
<1>5. o.t \in Transactions /\ o.status \in Statuses /\ o.device \in Devices \union {NoDevice}
  BY <1>1 DEF WriteOps
<1>6. /\ tx'[o.t].status = o.status /\ tx'[o.t].sender = tx[o.t].sender
      /\ tx'[o.t].sender_device = tx[o.t].sender_device
      /\ tx'[o.t].recipient = tx[o.t].recipient
      /\ tx'[o.t].recipient_device = IF o.device = NoDevice THEN tx[o.t].recipient_device
                                                            ELSE o.device
      /\ \A x \in Transactions : x # o.t => tx'[x] = tx[x]
  BY <1>1, <1>2, <1>5 DEF TypeOK, Documents, Written
<1>7. running(o.t)
  BY <1>1, <1>2 DEF Sound, running, final, Abstract!Pending
<1>8. \A x \in Transactions : running(x)' /\ x = o.t => o.status \notin final
  BY <1>6 DEF running
<1>9. /\ \A x \in Transactions : running(x)' => running(x)
      /\ \A x \in Transactions : x # o.t =>
           /\ running(x)' <=> running(x)
           /\ \A d : Tied(x, d)' <=> Tied(x, d)
      /\ \A x \in Transactions : \A u : involved(u, x)' <=> involved(u, x)
      /\ \A u : Gone(u)' <=> Gone(u)
  BY <1>3, <1>6, <1>7 DEF running, exists, involved, Tied, is_sender, Gone
<1>10. Writes(o.t, o.status) /\ \A t, s : ~Writes(t, s)'
  BY <1>1, <1>2, <1>4 DEF Writes
<1>11. /\ o.device # NoDevice => /\ tx[o.t].recipient \notin Ghosts
                                 /\ o.device \in devices[owner[o.device]] \/ o.status \in final
       /\ o.status \notin final => ~Gone(tx[o.t].sender) /\ ~Gone(tx[o.t].recipient)
  BY <1>1, <1>2 DEF Parted, Lawful
<1>12. /\ \A u, d : Seeks(u, d) => Seeks(u, d)'
       /\ \A u, t : Cancels(u, t) => Cancels(u, t)'
       /\ \A d : Quits(d) => Quits(d)'
  BY <1>1, <1>2 DEF Seeks, Cancels, Quits
<1>13. \A u : ~Cancels(u, o.t)
  BY <1>10 DEF Parted, Cancelable, Cancels
<1>14. ASSUME NEW t \in Transactions, NEW u, NEW d, running(t)', Doomed(t, u, d)
       PROVE  Doomed(t, u, d)'
  <2>1. ~Writes(t, "canceled")
    BY <1>2, <1>8, <1>14 DEF final
  <2> QED
    BY <1>12, <1>14, <2>1 DEF Doomed
<1>15. Loose'
  <2> SUFFICES ASSUME NEW t \in Transactions, NEW d \in Devices, running(t)',
                      d \notin devices[owner[d]], Tied(t, d)'
               PROVE  Doomed(t, owner[d], d)'
    BY <1>3 DEF Loose
  <2>1. Tied(t, d)
    <3>1. CASE t # o.t
      BY <1>9, <3>1
    <3>2. CASE t = o.t
      <4>1. o.device # d
        BY <1>8, <1>11, <3>2, UsersAssumption
      <4> QED
        BY <1>6, <3>2, <4>1 DEF Tied, is_sender
    <3> QED
      BY <3>1, <3>2
  <2>2. Doomed(t, owner[d], d)
    BY <1>9, <2>1 DEF Parted, Loose
  <2> QED
    BY <1>14, <2>2
<1>16. Deviceless'
  BY <1>6, <1>11 DEF Parted, Deviceless
<1>17. Departed'
  <2> SUFFICES ASSUME NEW t \in Transactions, NEW u \in Users, Gone(u), running(t)', involved(u, t)
               PROVE  tx'[t].status = "created" /\ tx'[t].sender_device = NoDevice /\ tx'[t].sender # u
    BY <1>9 DEF Departed
  <2>1. t # o.t
    BY <1>8, <1>11 DEF involved
  <2> QED
    BY <1>6, <1>9, <2>1 DEF Parted, Departed
<1>18. Seated'
  BY <1>3, <1>9, <1>12 DEF Parted, Seated
<1>19. Lawful' /\ Admitted'
  BY <1>1, <1>4 DEF Lawful, Admitted
<1>20. Cancelable'
  <2> SUFFICES ASSUME NEW c \in Left', c.op = "cancel", NEW t \in c.ts
               PROVE  running(t)' /\ involved(c.user, t)'
    BY <1>10 DEF Cancelable
  <2>1. c \in Left /\ c \in R
    BY <1>1, <1>4
  <2>2. running(t) /\ involved(c.user, t) /\ t # o.t
    BY <1>10, <2>1 DEF Parted, Cancelable
  <2>3. c.ts \subseteq Transactions
    BY <2>1, Ground, OpKinds DEF CancelOps
  <2> QED
    BY <1>9, <2>2, <2>3
<1>21. Leaving'
  <2> SUFFICES ASSUME NEW p \in Left', p.op \in {"remove_devices", "delete"}
               PROVE  /\ \A t \in Transactions : running(t)' /\ involved(p.user, t)' =>
                                                   Doomed(t, p.user, NoDevice)'
                      /\ \A d \in sessions' : owner[d] # p.user
    BY DEF Leaving
  <2>1. p \in Left
    BY <1>1, <1>4
  <2>2. /\ \A t \in Transactions : running(t) /\ involved(p.user, t) => Doomed(t, p.user, NoDevice)
        /\ \A d \in sessions : owner[d] # p.user
    BY <2>1 DEF Parted, Leaving
  <2> QED
    BY <1>3, <1>9, <1>14, <2>2
<1>22. Welcomed'
  BY <1>1, <1>4, <1>9 DEF Parted, Welcomed
<1> QED
  BY <1>15, <1>16, <1>17, <1>18, <1>19, <1>20, <1>21, <1>22 DEF Parted

\* The handing over of a transaction keeps Parted.
LEMMA PartedTakeOver ==
  ASSUME IInv, SInv, Laid, Serial, Parted, NEW w \in Workers, TakeOver(w)
  PROVE  Parted'
<1> DEFINE o == Head(todo[w])
           R == Behind(w)
<1>1. /\ todo[w] # << >> /\ o.op = "take_over" /\ o.user \in Users
      /\ \/ UNCHANGED tx /\ Left' = R
         \/ \E t \in Transactions :
              /\ exists(t) /\ tx[t].recipient = o.ghost /\ tx[t] \in Documents
              /\ tx' = [tx EXCEPT ![t] = Taken(o, t)]
              /\ Left' = (IF tx[t].status = "created" THEN {} ELSE {Notify(t, Taken(o, t))})
                           \union Left
  BY TakeOverItems
<1>2. /\ Left = {o} \union R /\ o \in Left /\ TypeOK
      /\ \A b \in R : b.op \in {"merge", "take_over"}
  BY <1>1, Headed DEF IInv, Follows
<1>3. UNCHANGED <<devices, register_status, sessions>>
  BY DEF TakeOver, accounts
<1>4. o.ghost \in Ghosts /\ o.user \notin Ghosts /\ ~Gone(o.user)
  BY <1>1, <1>2 DEF Laid, Folk, Parted, Welcomed
<1> HIDE DEF o, R
<1>5. \A x \in Left : x.op \in {"merge", "take_over"}
  BY <1>1, <1>2
<1>6. \A t \in Transactions, d \in Devices :
        running(t) /\ d \notin devices[owner[d]] => ~Tied(t, d)
  BY <1>5, PartedIdle
<1>7. CASE UNCHANGED tx /\ Left' = R
  <2>1. /\ \A t : running(t)' <=> running(t)
        /\ \A u, t : involved(u, t)' <=> involved(u, t)
        /\ \A u : Gone(u)' <=> Gone(u)
        /\ \A t, d : Tied(t, d)' <=> Tied(t, d)
    BY <1>3, <1>7 DEF running, exists, involved, Gone, Tied, is_sender
  <2>2. Loose'
    BY <1>3, <1>6, <2>1 DEF Loose
  <2>3. Deviceless' /\ Departed'
    BY <1>7, <2>1 DEF Parted, Deviceless, Departed
  <2>4. Seated'
    BY <1>3, <1>5, <2>1 DEF Parted, Seated, Quits
  <2>5. Lawful' /\ Admitted' /\ Cancelable' /\ Leaving' /\ Welcomed'
    BY <1>2, <1>7, <2>1 DEF Parted, Lawful, Admitted, Cancelable, Leaving, Welcomed
  <2> QED
    BY <2>2, <2>3, <2>4, <2>5 DEF Parted
<1>8. ASSUME NEW t \in Transactions, tx[t].recipient = o.ghost, tx[t] \in Documents,
             tx' = [tx EXCEPT ![t] = Taken(o, t)],
             Left' = (IF tx[t].status = "created" THEN {} ELSE {Notify(t, Taken(o, t))}) \union Left
      PROVE  Parted'
  <2>1. /\ tx'[t].status = tx[t].status /\ tx'[t].sender = tx[t].sender
        /\ tx'[t].sender_device = tx[t].sender_device
        /\ tx'[t].recipient_device = tx[t].recipient_device
        /\ tx'[t].recipient = o.user
        /\ \A x \in Transactions : x # t => tx'[x] = tx[x]
    BY <1>2, <1>8 DEF TypeOK, Documents, Taken
  <2>2. \A x \in Left' : x \in Left \/ x.op = "notify"
    BY <1>8 DEF Notify
  <2>3. tx[t].recipient_device = NoDevice
    BY <1>4, <1>8 DEF Parted, Deviceless
  <2>4. /\ \A x \in Transactions : running(x)' <=> running(x)
        /\ \A x \in Transactions : x # t => \A u : involved(u, x)' <=> involved(u, x)
        /\ \A x \in Transactions, d \in Devices : Tied(x, d)' => Tied(x, d)
        /\ \A u : Gone(u)' <=> Gone(u)
        /\ \A u : involved(u, t)' => u = o.user \/ u = tx[t].sender
    BY <1>3, <2>1, <2>3, UsersAssumption DEF running, exists, involved, Gone, Tied, is_sender
  <2>5. Loose'
    BY <1>3, <1>6, <2>4 DEF Loose
  <2>6. Deviceless'
    BY <1>4, <2>1, <2>3 DEF Parted, Deviceless
  <2>7. Departed'
    <3> SUFFICES ASSUME NEW x \in Transactions, NEW u \in Users, Gone(u), running(x), involved(u, x)'
                 PROVE  tx'[x].status = "created" /\ tx'[x].sender_device = NoDevice /\ tx'[x].sender # u
      BY <2>4 DEF Departed
    <3>1. CASE x = t
      BY <1>4, <2>4, <3>1 DEF Parted, Departed, involved
    <3>2. CASE x # t
      BY <2>1, <2>4, <3>2 DEF Parted, Departed
    <3> QED
      BY <3>1, <3>2
  <2>8. Seated'
    BY <1>3, <1>5, <2>4 DEF Parted, Seated, Quits
  <2>9. \A x \in Left' : x.op \in {"merge", "take_over", "notify"}
    BY <1>5, <2>2
  <2>10. Lawful' /\ Admitted' /\ Cancelable' /\ Leaving'
    BY <2>9 DEF Lawful, Admitted, Cancelable, Leaving
  <2>11. Welcomed'
    BY <2>2, <2>4 DEF Parted, Welcomed
  <2> QED
    BY <2>5, <2>6, <2>7, <2>8, <2>10, <2>11 DEF Parted
<1> QED
  BY <1>1, <1>7, <1>8

\* The end of a session keeps Parted.
LEMMA PartedEnd ==
  ASSUME IInv, SInv, Laid, Serial, Parted, NEW w \in Workers, EndSession(w)
  PROVE  Parted'
<1> DEFINE o == Head(todo[w])
           R == Behind(w)
<1>1. /\ todo[w] # << >> /\ o.op = "end_session" /\ Continue(w, << >>)
      /\ sessions' = sessions \ {o.device} /\ UNCHANGED <<tx, devices, register_status>>
  BY DEF EndSession, At, docs
<1>2. Left = {o} \union R /\ R = {} /\ TypeOK
  BY <1>1, Headed DEF IInv, Follows
<1>3. Left' = R
  BY <1>1, Shorter
<1> HIDE DEF o, R
<1>4. \A t \in Transactions, d \in Devices :
        running(t) /\ d \notin devices[owner[d]] => ~Tied(t, d)
  BY <1>1, <1>2, PartedIdle
<1>5. /\ \A t : running(t)' <=> running(t)
      /\ \A u, t : involved(u, t)' <=> involved(u, t)
      /\ \A u : Gone(u)' <=> Gone(u)
      /\ \A t, d : Tied(t, d)' <=> Tied(t, d)
  BY <1>1 DEF running, exists, involved, Gone, Tied, is_sender
<1>6. Loose'
  BY <1>1, <1>4, <1>5 DEF Loose
<1>7. Deviceless' /\ Departed'
  BY <1>1, <1>5 DEF Parted, Deviceless, Departed
<1>8. Seated'
  BY <1>1, <1>2, <1>5 DEF Parted, Seated, Quits
<1>9. Lawful' /\ Admitted' /\ Cancelable' /\ Leaving' /\ Welcomed'
  BY <1>2, <1>3 DEF Lawful, Admitted, Cancelable, Leaving, Welcomed
<1> QED
  BY <1>6, <1>7, <1>8, <1>9 DEF Parted

\* The emptying of a departed user's entry keeps Parted.
LEMMA PartedClear ==
  ASSUME IInv, SInv, Laid, Serial, Parted, NEW w \in Workers, ClearAccount(w)
  PROVE  Parted'
<1> DEFINE o == Head(todo[w])
           R == Behind(w)
<1>1. /\ todo[w] # << >> /\ o.op \in {"remove_devices", "delete", "merge"} /\ Continue(w, << >>)
      /\ devices' = [devices EXCEPT ![o.user] = {}]
      /\ register_status' = [register_status EXCEPT ![o.user] =
                               CASE o.op = "delete" -> "deleted"
                                 [] o.op = "merge" -> "merged"
                                 [] OTHER -> register_status[o.user]]
      /\ UNCHANGED <<tx, sessions>>
  BY DEF ClearAccount, docs
<1>2. /\ Left = {o} \union R /\ o \in Left /\ o \in Ops /\ TypeOK
      /\ \A b \in R : Follows(o, b)
      /\ \A t, s : ~Writes(t, s)
  BY <1>1, Headed DEF IInv, Steady
<1>3. Left' = R
  BY <1>1, Shorter
<1>4. o \in AccountOps
  BY <1>1, <1>2, OpKinds
<1> HIDE DEF o, R
<1>5. /\ o.user \in Users
      /\ \A u \in Users : devices'[u] = IF u = o.user THEN {} ELSE devices[u]
      /\ \A u \in Users : Gone(u)' <=> IF u = o.user /\ o.op # "remove_devices"
                                         THEN o.op = "delete" ELSE Gone(u)
  BY <1>1, <1>2, <1>4 DEF AccountOps, TypeOK, Gone
<1>6. /\ \A b \in R : b.op \in {"delete", "merge", "take_over"}
      /\ \A b \in R : b.op = "delete" => o.op = "remove_devices"
      /\ \A b \in R : b.op = "take_over" => o.op = "merge"
  BY <1>1, <1>2 DEF Follows
<1>7. \A x \in Left : x.op \notin {"cancel_find", "cancel", "write", "put", "end_session"}
  BY <1>1, <1>2, <1>6
<1>8. /\ \A t, u, d : ~Doomed(t, u, d)
      /\ \A t \in Transactions, d \in Devices :
           running(t) /\ d \notin devices[owner[d]] => ~Tied(t, d)
  BY <1>7, PartedIdle
<1>9. o.op \in {"remove_devices", "delete"} =>
        /\ \A t \in Transactions : running(t) => ~involved(o.user, t)
        /\ \A d \in sessions : owner[d] # o.user
  BY <1>2, <1>8 DEF Parted, Leaving
<1>10. o.op = "merge" => \A d \in Devices : owner[d] # o.user
  BY <1>2, UsersAssumption DEF Laid, Folk
<1>11. /\ \A t : running(t)' <=> running(t)
       /\ \A u, t : involved(u, t)' <=> involved(u, t)
       /\ \A t, d : Tied(t, d)' <=> Tied(t, d)
  BY <1>1 DEF running, exists, involved, Tied, is_sender
<1>12. Loose'
  <2> SUFFICES ASSUME NEW t \in Transactions, NEW d \in Devices, running(t),
                      d \notin devices'[owner[d]], Tied(t, d)
               PROVE  FALSE
    BY <1>11 DEF Loose
  <2>1. owner[d] \in Users
    BY UsersAssumption
  <2>2. owner[d] = o.user
    BY <1>5, <1>8, <2>1
  <2> QED
    BY <1>1, <1>9, <1>10, <2>2 DEF Tied, is_sender, involved
<1>13. Deviceless'
  BY <1>1 DEF Parted, Deviceless
<1>14. Departed'
  <2> SUFFICES ASSUME NEW t \in Transactions, NEW u \in Users, Gone(u)', running(t), involved(u, t)
               PROVE  tx[t].status = "created" /\ tx[t].sender_device = NoDevice /\ tx[t].sender # u
    BY <1>1, <1>11 DEF Departed
  <2>1. Gone(u)
    BY <1>5, <1>9
  <2> QED
    BY <2>1 DEF Parted, Departed
<1>15. Seated'
  <2> SUFFICES ASSUME NEW d \in sessions PROVE ~Gone(owner[d])' /\ d \in devices'[owner[d]]
    BY <1>1 DEF Seated
  <2>1. d \in Devices /\ owner[d] \in Users
    BY <1>2, UsersAssumption DEF TypeOK
  <2>2. ~Gone(owner[d]) /\ d \in devices[owner[d]]
    BY <1>7 DEF Parted, Seated, Quits
  <2>3. owner[d] # o.user
    BY <1>1, <1>9, <1>10, <2>1
  <2> QED
    BY <1>5, <2>1, <2>2, <2>3
<1>16. Lawful' /\ Admitted' /\ Cancelable'
  BY <1>3, <1>6 DEF Lawful, Admitted, Cancelable
<1>17. Leaving'
  <2> SUFFICES ASSUME NEW p \in R, p.op = "delete"
               PROVE  /\ \A t \in Transactions : ~(running(t) /\ involved(p.user, t))
                      /\ \A d \in sessions : owner[d] # p.user
    BY <1>1, <1>3, <1>6, <1>11 DEF Leaving
  <2>1. p \in Left
    BY <1>2
  <2> QED
    BY <1>8, <2>1 DEF Parted, Leaving
<1>18. Welcomed'
  <2> SUFFICES ASSUME NEW p \in R, p.op = "take_over" PROVE ~Gone(p.user)'
    BY <1>3 DEF Welcomed
  <2>1. o.op = "merge" /\ p \in Left
    BY <1>2, <1>6
  <2>2. ~Gone(p.user) /\ p.user \in Users
    BY <2>1 DEF Parted, Welcomed, Laid, Folk
  <2> QED
    BY <1>5, <2>1, <2>2
<1> QED
  BY <1>12, <1>13, <1>14, <1>15, <1>16, <1>17, <1>18 DEF Parted

\* The search of the transactions of who leaves keeps Parted.
LEMMA PartedFind ==
  ASSUME IInv, SInv, Laid, Serial, Parted, NEW w \in Workers, FindTransactions(w)
  PROVE  Parted'
<1> DEFINE o == Head(todo[w])
           R == Behind(w)
           F == Found(o)
           c == Cancel(o.user, F)
<1>1. todo[w] # << >> /\ o.op = "cancel_find" /\ Left' = {c} \union R
  BY FindItems
<1>2. /\ Left = {o} \union R /\ o \in Left
      /\ \A t, s : ~Writes(t, s)
      /\ \A b \in R : b.op \in {"end_session", "remove_devices", "delete"} /\ b \in Left
  BY <1>1, Headed DEF Steady, Follows
<1>3. UNCHANGED <<tx, devices, register_status, sessions>>
  BY DEF FindTransactions, docs, accounts
<1>4. c.op = "cancel" /\ c.user = o.user /\ c.ts = F
  BY DEF Cancel
<1>5. /\ \A t \in F : t \in Transactions /\ running(t) /\ involved(o.user, t)
      /\ \A t \in Transactions : running(t) /\ o.device = NoDevice /\ involved(o.user, t) => t \in F
      /\ \A t \in Transactions : \A d :
           running(t) /\ o.device \in {d, NoDevice} /\ o.user = owner[d] /\ Tied(t, d) => t \in F
  BY DEF Found, involved, Tied, is_sender
<1> HIDE DEF o, R, F, c
<1>6. /\ \A t : running(t)' <=> running(t)
      /\ \A u, t : involved(u, t)' <=> involved(u, t)
      /\ \A u : Gone(u)' <=> Gone(u)
      /\ \A t, d : Tied(t, d)' <=> Tied(t, d)
  BY <1>3 DEF running, exists, involved, Gone, Tied, is_sender
<1>7. \A t, u, d : Doomed(t, u, d) => o.user = u /\ o.device \in {d, NoDevice}
  BY <1>1, <1>2 DEF Doomed, Seeks, Cancels
<1>8. \A t \in F : \A u, d : u = o.user => Doomed(t, u, d)'
  BY <1>1, <1>4 DEF Doomed, Cancels
<1>9. \A t, s : ~Writes(t, s)'
  BY <1>1, <1>2, <1>4 DEF Writes
<1>10. Loose'
  <2> SUFFICES ASSUME NEW t \in Transactions, NEW d \in Devices, running(t),
                      d \notin devices[owner[d]], Tied(t, d)
               PROVE  Doomed(t, owner[d], d)'
    BY <1>3, <1>6 DEF Loose
  <2>1. Doomed(t, owner[d], d)
    BY DEF Parted, Loose
  <2>2. o.user = owner[d] /\ o.device \in {d, NoDevice}
    BY <1>7, <2>1
  <2>3. t \in F
    BY <1>5, <2>2
  <2> QED
    BY <1>8, <2>2, <2>3
<1>11. Deviceless' /\ Departed'
  BY <1>3, <1>6 DEF Parted, Deviceless, Departed
<1>12. Seated'
  <2>1. \A d : Quits(d) => Quits(d)'
    BY <1>1, <1>2 DEF Quits
  <2> QED
    BY <1>3, <1>6, <2>1 DEF Parted, Seated
<1>13. Cancelable'
  <2>1. \A x \in Left' : x.op = "cancel" => x = c
    BY <1>1, <1>2
  <2> QED
    BY <1>4, <1>5, <1>6, <1>9, <2>1 DEF Cancelable
<1>14. Leaving'
  <2> SUFFICES ASSUME NEW p \in Left', p.op \in {"remove_devices", "delete"}
               PROVE  /\ \A t \in Transactions : running(t) /\ involved(p.user, t) =>
                                                   Doomed(t, p.user, NoDevice)'
                      /\ \A d \in sessions : owner[d] # p.user
    BY <1>3, <1>6 DEF Leaving
  <2>1. p \in Left
    BY <1>1, <1>2, <1>4
  <2>2. /\ \A t \in Transactions : running(t) /\ involved(p.user, t) => Doomed(t, p.user, NoDevice)
        /\ \A d \in sessions : owner[d] # p.user
    BY <2>1 DEF Parted, Leaving
  <2>3. ASSUME NEW t \in Transactions, running(t), involved(p.user, t)
        PROVE  Doomed(t, p.user, NoDevice)'
    <3>1. o.user = p.user /\ o.device = NoDevice
      BY <1>7, <2>2, <2>3
    <3>2. t \in F
      BY <1>5, <2>3, <3>1
    <3> QED
      BY <1>8, <3>1, <3>2
  <2> QED
    BY <2>2, <2>3
<1>15. Lawful' /\ Admitted' /\ Welcomed'
  BY <1>1, <1>2, <1>4 DEF Lawful, Admitted, Welcomed
<1> QED
  BY <1>10, <1>11, <1>12, <1>13, <1>14, <1>15 DEF Parted

\* The cancelation of one of the transactions found keeps Parted.
LEMMA PartedCancel ==
  ASSUME IInv, SInv, Laid, Serial, Parted, NEW w \in Workers, CancelNext(w)
  PROVE  Parted'
<1> DEFINE o == Head(todo[w])
           R == Behind(w)
           up(t) == Items(UpdateOps(t, "canceled", o.user, NoDevice))
           c(t) == Cancel(o.user, o.ts \ {t})
           Turn(t) == running(t) /\ involved(o.user, t)
                        /\ Left' = (up(t) \union {c(t)}) \union R
<1>1. todo[w] # << >> /\ o.op = "cancel" /\ o.user \in Users /\ o.ts \subseteq Transactions
  BY CancelItems
<1>2. /\ Left = {o} \union R /\ o \in Left /\ TypeOK
      /\ \A t, s : ~Writes(t, s)
      /\ \A b \in R : b.op \in {"end_session", "remove_devices", "delete"} /\ b \in Left
  BY <1>1, Headed DEF IInv, Steady, Follows
<1>3. \A t \in o.ts : running(t) /\ involved(o.user, t)
  BY <1>1, <1>2 DEF Parted, Cancelable
<1>4. \/ o.ts = {} /\ Left' = R
      \/ \E t \in o.ts : Turn(t)
  <2>1. \/ o.ts = {} /\ Left' = R
        \/ \E t \in o.ts : ~(running(t) /\ involved(o.user, t))
        \/ \E t \in o.ts : ~running(t)
        \/ \E t \in o.ts : Turn(t)
    BY CancelItems
  <2> QED
    BY <1>3, <2>1
<1>5. UNCHANGED <<tx, devices, register_status, sessions>>
  BY DEF CancelNext, docs, accounts
<1>6. /\ \A t : running(t)' <=> running(t)
      /\ \A u, t : involved(u, t)' <=> involved(u, t)
      /\ \A u : Gone(u)' <=> Gone(u)
      /\ \A t, d : Tied(t, d)' <=> Tied(t, d)
  BY <1>5 DEF running, exists, involved, Gone, Tied, is_sender
<1>7. ASSUME NEW t \in o.ts
      PROVE  /\ Updated(t, "canceled", NoDevice) \in up(t)
             /\ \A x \in up(t) : \/ x = Updated(t, "canceled", NoDevice)
                                 \/ x.op \in {"pull", "clear_has", "clear_activity"}
             /\ c(t).op = "cancel" /\ c(t).user = o.user /\ c(t).ts = o.ts \ {t}
  <2>1. t \in Transactions /\ exists(t) /\ "canceled" \in Statuses
    BY <1>1, <1>3 DEF running, Statuses
  <2>2. /\ Updated(t, "canceled", NoDevice) \in up(t)
        /\ \A x \in up(t) : x = Updated(t, "canceled", NoDevice) \/ Counted(x, t, "canceled", o.user)
    BY <1>1, <1>2, <2>1, UpdateItems
  <2>3. c(t).op = "cancel" /\ c(t).user = o.user /\ c(t).ts = o.ts \ {t}
    BY DEF Cancel
  <2> HIDE DEF o, up, c
  <2> QED
    BY <2>2, <2>3 DEF Counted, Completes
<1> HIDE DEF o, R, up, c
<1>8. /\ \A t, u, d : Doomed(t, u, d) => o.user = u /\ t \in o.ts
      /\ \A t \in Transactions, d \in Devices :
           running(t) /\ d \notin devices[owner[d]] /\ Tied(t, d) => Doomed(t, owner[d], d)
  BY <1>1, <1>2 DEF Doomed, Seeks, Cancels, Parted, Loose
<1>9. /\ R \subseteq Left'
      /\ \A x \in Left' : x.op = "cancel" => \E t \in o.ts : x = c(t) /\ Turn(t)
      /\ \A x \in Left' : x.op = "write" =>
           \E t \in o.ts : x = Updated(t, "canceled", NoDevice) /\ Turn(t)
      /\ \A x \in Left' : x.op \in {"remove_devices", "delete"} => x \in R
      /\ \A x \in Left' : x.op \notin {"put", "take_over"}
  <2>1. CASE o.ts = {} /\ Left' = R
    BY <1>2, <2>1
  <2>2. ASSUME NEW t \in o.ts, Turn(t)
        PROVE  /\ R \subseteq Left'
               /\ \A x \in Left' : x.op = "cancel" => x = c(t)
               /\ \A x \in Left' : x.op = "write" => x = Updated(t, "canceled", NoDevice)
               /\ \A x \in Left' : x.op \in {"remove_devices", "delete"} => x \in R
               /\ \A x \in Left' : x.op \notin {"put", "take_over"}
    <3>1. Updated(t, "canceled", NoDevice).op = "write"
      BY DEF Updated
    <3> QED
      BY <1>2, <1>7, <2>2, <3>1
  <2> HIDE DEF Turn
  <2> QED
    BY <1>4, <2>1, <2>2
<1>10. \A t : /\ Updated(t, "canceled", NoDevice).op = "write"
              /\ Updated(t, "canceled", NoDevice).t = t
              /\ Updated(t, "canceled", NoDevice).status = "canceled"
              /\ Updated(t, "canceled", NoDevice).device = NoDevice
  BY DEF Updated, NewStatus
<1>11. \A t \in o.ts : \A u, d : u = o.user => Doomed(t, u, d)'
  <2> SUFFICES ASSUME NEW t \in o.ts, NEW d PROVE \A u : u = o.user => Doomed(t, u, d)'
    OBVIOUS
  <2>1. PICK x \in o.ts : Turn(x)
    BY <1>4
  <2>2. CASE t = x
    <3>1. Updated(t, "canceled", NoDevice) \in Left'
      BY <1>7, <2>1, <2>2
    <3>2. Writes(t, "canceled")'
      BY <1>10, <3>1 DEF Writes
    <3> QED
      BY <3>2 DEF Doomed
  <2>3. CASE t # x
    <3>1. c(x) \in Left' /\ t \in c(x).ts /\ c(x).op = "cancel" /\ c(x).user = o.user
      BY <1>7, <2>1, <2>3
    <3>2. \A u : u = o.user => Cancels(u, t)'
      BY <3>1 DEF Cancels
    <3> QED
      BY <3>2 DEF Doomed
  <2> QED
    BY <2>2, <2>3
<1>12. Loose'
  BY <1>5, <1>6, <1>8, <1>11 DEF Loose
<1>13. Deviceless' /\ Departed'
  BY <1>5, <1>6 DEF Parted, Deviceless, Departed
<1>14. Seated'
  <2>1. \A d : Quits(d) => Quits(d)'
    BY <1>1, <1>2, <1>9 DEF Quits
  <2> QED
    BY <1>5, <1>6, <2>1 DEF Parted, Seated
<1>15. Lawful'
  <2>1. \A x \in Left' : x.op = "write" => x.device = NoDevice /\ x.status \in final
    BY <1>9, <1>10 DEF final
  <2> QED
    BY <2>1 DEF Lawful
<1>16. Cancelable'
  <2> SUFFICES ASSUME NEW x \in Left', x.op = "cancel", NEW t \in x.ts
               PROVE  running(t) /\ involved(x.user, t) /\ \A s : ~Writes(t, s)'
    BY <1>6 DEF Cancelable
  <2>1. PICK y \in o.ts : x = c(y) /\ Turn(y)
    BY <1>9
  <2>2. x.user = o.user /\ t \in o.ts /\ t # y
    BY <1>7, <2>1
  <2>3. \A z \in Left' : z.op = "write" => z = Updated(y, "canceled", NoDevice)
    BY <1>2, <1>7, <2>1
  <2> QED
    BY <1>3, <1>10, <2>2, <2>3 DEF Writes
<1>17. Leaving'
  <2> SUFFICES ASSUME NEW p \in Left', p.op \in {"remove_devices", "delete"}
               PROVE  /\ \A t \in Transactions : running(t) /\ involved(p.user, t) =>
                                                   Doomed(t, p.user, NoDevice)'
                      /\ \A d \in sessions : owner[d] # p.user
    BY <1>5, <1>6 DEF Leaving
  <2>1. p \in Left
    BY <1>2, <1>9
  <2>2. /\ \A t \in Transactions : running(t) /\ involved(p.user, t) => Doomed(t, p.user, NoDevice)
        /\ \A d \in sessions : owner[d] # p.user
    BY <2>1 DEF Parted, Leaving
  <2> QED
    BY <1>8, <1>11, <2>2
<1>18. Admitted' /\ Welcomed'
  BY <1>9 DEF Admitted, Welcomed
<1> QED
  BY <1>12, <1>13, <1>14, <1>15, <1>16, <1>17, <1>18 DEF Parted

\* Each operation of a request keeps Parted.
LEMMA PartedServe ==
  ASSUME IInv, SInv, Laid, Serial, Parted, NEW w \in Workers, Serve(w)
  PROVE  Parted'
<1> DEFINE o == Head(todo[w])
           R == Behind(w)
<1>0. todo[w] # << >> => Left = {o} \union R
  BY Served
<1>1. CASE \/ Put(w) \/ Write(w) \/ TakeOver(w) \/ EndSession(w) \/ ClearAccount(w)
           \/ FindTransactions(w) \/ CancelNext(w)
  BY <1>1, PartedInsert, PartedWrite, PartedTakeOver, PartedEnd, PartedClear, PartedFind, PartedCancel
<1>2. CASE \/ SendNotification(w) \/ PushStat(w) \/ PullStat(w) \/ ClearHas(w) \/ ClearActivity(w)
           \/ Count(w)
  <2>1. /\ todo[w] # << >> /\ Continue(w, << >>) /\ o.op \notin PartKinds
        /\ UNCHANGED <<tx, devices, register_status, sessions>>
    <3>1. SendNotification(w) \/ PushStat(w) \/ PullStat(w) =>
            /\ todo[w] # << >> /\ Continue(w, << >>) /\ o.op \notin PartKinds
            /\ UNCHANGED <<tx, devices, register_status, sessions>>
      BY DEF SendNotification, PushStat, PullStat, At, docs, accounts, PartKinds
    <3>2. ClearHas(w) \/ ClearActivity(w) \/ Count(w) =>
            /\ todo[w] # << >> /\ Continue(w, << >>) /\ o.op \notin PartKinds
            /\ UNCHANGED <<tx, devices, register_status, sessions>>
      BY DEF ClearHas, ClearActivity, Count, At, docs, accounts, PartKinds
    <3> QED
      BY <1>2, <3>1, <3>2
  <2>2. Left' = R
    BY <2>1, Shorter
  <2> HIDE DEF o, R
  <2> QED
    BY <1>0, <2>1, <2>2, PartedStays
<1>3. CASE WritePaused(w)
  <2>1. todo[w] # << >> /\ o.op = "pause" /\ Left' = {Notify(o.t, tx[o.t])} \union R
    BY <1>3, PauseItems
  <2>2. /\ Notify(o.t, tx[o.t]).op = "notify"
        /\ UNCHANGED <<tx, devices, register_status, sessions>>
    BY <1>3 DEF WritePaused, accounts, Notify
  <2> HIDE DEF o, R
  <2> QED
    BY <1>0, <2>1, <2>2, PartedStays DEF PartKinds
<1> QED
  BY <1>1, <1>2, <1>3 DEF Serve

Partings == Alive => Parted

\* One process: a device or an account that is deleted leaves no transaction that runs
\* behind, wherever it was in the life of the transaction (user.py, device.py).
THEOREM NothingBehind == ASSUME Serial PROVE Spec => []NothingLeft
<1>1. Init => Partings
  <2> SUFFICES ASSUME Init PROVE Parted
    BY DEF Partings
  <2>1. \A w \in Workers : todo[w] = << >>
    BY DEF Init
  <2>2. Left = {}
    BY <2>1, Empty DEF Left
  <2>3. \A t \in Transactions : ~running(t) /\ tx[t].recipient_device = NoDevice
    BY DEF Init, Absent, running, exists, Statuses
  <2>4. \A d \in sessions : d \in devices[owner[d]] /\ ~Gone(owner[d])
    BY UsersAssumption DEF Init, Gone
  <2>5. Loose /\ Deviceless /\ Departed /\ Seated
    BY <2>3, <2>4 DEF Loose, Deviceless, Departed, Seated
  <2> QED
    BY <2>2, <2>5 DEF Parted, Lawful, Admitted, Cancelable, Leaving, Welcomed
<1>2. IInv /\ SInv /\ Laid /\ Partings /\ [Next]_vars => Partings'
  <2> SUFFICES ASSUME IInv, SInv, Laid, Partings, [Next]_vars PROVE Partings'
    OBVIOUS
  <2>1. CASE UNCHANGED vars
    <3>1. UNCHANGED <<tx, devices, register_status, sessions, todo>>
      BY <2>1 DEF vars, docs, accounts
    <3>2. Left' = Left /\ (Alive' <=> Alive)
      BY <3>1 DEF Left, Items, Alive, At
    <3> QED
      BY <3>1, <3>2, PartedStays DEF Partings
  <2>2. ASSUME NEW w \in Workers, Receive(w) PROVE Partings'
    BY <2>2, Living, PartedReceive DEF Partings
  <2>3. ASSUME NEW w \in Workers, Serve(w) PROVE Partings'
    BY <2>3, Living, PartedServe DEF Partings
  <2>4. ASSUME NEW w \in Workers, Crash(w) PROVE Partings'
    BY <2>4, Living DEF Partings
  <2> QED
    BY <2>1, <2>2, <2>3, <2>4 DEF Next
<1>3. Partings => NothingLeft
  <2> SUFFICES ASSUME Partings, AtRest PROVE NothingLeft
    BY DEF NothingLeft, DeletedDeviceFree, DeletedUserIdle
  <2>1. Parted /\ \A w \in Workers : todo[w] = << >>
    BY DEF AtRest, Alive, At, Partings
  <2>2. Left = {}
    BY <2>1, Empty DEF Left
  <2>3. \A t \in Transactions, d \in Devices :
          running(t) /\ d \notin devices[owner[d]] => ~Tied(t, d)
    BY <2>1, <2>2, PartedIdle
  <2>4. DeletedDeviceFree
    BY <2>3 DEF DeletedDeviceFree, Tied
  <2>5. DeletedUserIdle
    BY <2>1 DEF DeletedUserIdle, Parted, Departed, Gone, running
  <2> QED
    BY <2>4, <2>5 DEF NothingLeft
<1>4. Spec => [](IInv /\ SInv /\ Laid)
  BY ServedInOrder
<1> QED
  BY <1>1, <1>2, <1>3, <1>4, PTL DEF Spec
=============================================================================
