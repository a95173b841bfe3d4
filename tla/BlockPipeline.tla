---------------------------- MODULE BlockPipeline ----------------------------
(***************************************************************************)
(* How the client that receives a transaction gets the files onto its disk *)
(* (surface/gap/PeerReceiveMachine.cc): fetcher coroutines ask the source  *)
(* for blocks and queue the answers, one disk coroutine writes them in     *)
(* order and saves a snapshot of the progress, from which a later attempt  *)
(* or a restarted client goes on. The source is the sender itself, or the  *)
(* cloud, where the answers of parallel requests come in any order.        *)
(*                                                                         *)
(* Coroutines are scheduled cooperatively: one that has the processor      *)
(* (running) keeps it until it waits for an answer, a barrier or a place   *)
(* in the queue, and in a round of the scheduler each runs at most once.   *)
(* A process may crash anywhere.                                           *)
(***************************************************************************)
EXTENDS Integers, Sequences, FiniteSets

CONSTANTS Sizes,     \* Sizes[f]: size of file f in units, as announced
          Served,    \* what the source may really have: units of each file
          Chunk,     \* units in a block: _chunk_size
          Readers,   \* fetcher coroutines: rpc_pipeline_size()
          Slots,     \* the max_size of the queue: num_reader * 3
          Sources,   \* where attempts may get the blocks: "peer", "cloud"
          Faults,    \* what may go wrong: "interrupt", "crash"
          MaxFaults, \* bound on the number of faults
          NoOne      \* no coroutine

ASSUME BlockAssumption ==
  /\ Sizes \in Seq(Nat)
  /\ Served \subseteq [DOMAIN Sizes -> Nat]
  /\ \A s \in Served : \A f \in DOMAIN Sizes : s[f] <= Sizes[f]
  /\ Chunk \in Nat \ {0} /\ Slots \in Nat \ {0} /\ MaxFaults \in Nat
  /\ IsFiniteSet(Readers) /\ Readers # {} /\ NoOne \notin Readers \union {"writer"}
  /\ "writer" \notin Readers

VARIABLES served,    \* served[f]: units of f the source has
          disk,      \* disk[f]: units in the file on disk
          copies,    \* copies[f]: times the process chose a name for file f
          saved,     \* saved[f]: progress of f in the snapshot file
          progress,  \* progress[f]: the same in the snapshot in memory
          phase,     \* of the transfer
          from,      \* the source of the attempt
          fetching,  \* _fetch_current_file_index, _fetch_current_position
          fetcher,   \* fetcher[r]: what the coroutine is at
          asked,     \* asked[r]: block it asked for
          buffers,   \* blocks in the queue
          barrier,   \* _disk_writer_barrier is open
          expected,  \* _store_expected_file, _store_expected_position
          writer,    \* what the disk coroutine is at
          running,   \* coroutine that has the processor
          ran,       \* fetchers that ran since the disk coroutine can
          faults     \* faults so far

durable == <<disk, copies, saved>>
threads == <<fetcher, asked, writer, running, ran>>
state == <<durable, progress, phase, from, fetching, threads, buffers, barrier,
           expected, faults>>
vars == <<served, state>>

Files == DOMAIN Sizes
N == Len(Sizes)
NotInSnapshot == -1
Nothing == [f \in Files |-> NotInSnapshot]
Over == <<N + 1, 0>> \* the index -1 of the source
NoBlock == <<0, 0>>

Ended == {"finished", "canceled", "failed"}

Content(f, n) == [i \in 1..n |-> <<f, i>>]

min(m, n) == IF m <= n THEN m ELSE n

\* The units the source sends for block b: fewer than asked at the end.
Block(b) == LET first == min(b[2], served[b[1]])
                last == min(b[2] + Chunk, served[b[1]])
            IN  [i \in 1..(last - first) |-> <<b[1], first + i>>]

complete(f) == progress[f] = Sizes[f]

before(a, b) == a[1] < b[1] \/ (a[1] = b[1] /\ a[2] < b[2])

\* The priority queue gives the first block in the order of files and positions.
top(bs) == CHOOSE b \in bs : \A c \in bs \ {b} : before(b, c)

Full(bs) == Cardinality(bs) >= Slots

Init == /\ served \in Served
        /\ disk = [f \in Files |-> <<>>]
        /\ copies = [f \in Files |-> 0]
        /\ saved = Nothing
        /\ progress = Nothing
        /\ phase = "down"
        /\ from \in Sources
        /\ fetching = Over
        /\ fetcher = [r \in Readers |-> "off"]
        /\ asked = [r \in Readers |-> NoBlock]
        /\ buffers = {}
        /\ barrier = FALSE
        /\ expected = NoBlock
        /\ writer = "off"
        /\ running = NoOne
        /\ ran = {}
        /\ faults = 0

ThreadsOff == /\ fetcher' = [r \in Readers |-> "off"]
              /\ asked' = [r \in Readers |-> NoBlock]
              /\ writer' = "off"
              /\ running' = NoOne
              /\ ran' = {}

\* An exception leaves get(): the scope ends its coroutines, the snapshot in
\* memory, the queue and the barrier stay as they are.
Leave(p) == /\ ThreadsOff
            /\ phase' = p
            /\ UNCHANGED <<from, fetching, buffers, barrier, expected>>

\* An elle::Exception fails the transaction when it leaves the transfer with the
\* sender, and is not fatal when it leaves the download from the cloud.
Throw == Leave(IF from = "peer" THEN "failed" ELSE "down")

-----------------------------------------------------------------------------
(***************************************************************************)
(* Attempts, and the files they open.                                      *)
(***************************************************************************)

\* get(): up to the first _fetch_next_file.
Start(s) == /\ phase = "down"
            /\ phase' = "opening" /\ from' = s /\ fetching' = <<1, 0>>
            /\ buffers' = {}
            /\ UNCHANGED <<durable, progress, threads, barrier, expected, faults>>

\* Faulty: a file the snapshot knows is taken for a complete one.
DoneWithKnown(f) == progress[f] # NotInSnapshot

\* _initialize_one found nothing to receive for f.
DoneWith(f) == complete(f)

\* Faulty: a file that is longer than the snapshot says keeps its end.
Untruncated(f) == disk[f]

\* The file as _initialize_one leaves it: it keeps what the snapshot knows of.
Truncated(f) == IF complete(f) THEN disk[f] ELSE SubSeq(disk[f], 1, progress[f])

\* One turn of the loop of _fetch_next_file, up to the touch of _initialize_one.
\* An unknown file gets a name no file on the disk has, and is empty.
OpenFile ==
  LET f == fetching[1] IN
    /\ phase = "opening" /\ f \in Files
    /\ \/ /\ progress[f] = NotInSnapshot
          /\ copies' = [copies EXCEPT ![f] = @ + 1]
          /\ disk' = [disk EXCEPT ![f] = <<>>]
          /\ progress' = [progress EXCEPT ![f] = 0]
          /\ IF Sizes[f] = 0
               THEN phase' = phase /\ fetching' = <<f + 1, 0>>
               ELSE phase' = "touched" /\ fetching' = <<f, 0>>
          /\ UNCHANGED <<saved, from, threads, buffers, barrier, expected>>
       \/ /\ progress[f] # NotInSnapshot /\ DoneWith(f)
          /\ fetching' = <<f + 1, 0>>
          /\ UNCHANGED <<durable, progress, phase, from, threads, buffers, barrier,
                         expected>>
       \/ /\ progress[f] # NotInSnapshot /\ ~DoneWith(f)
          /\ Len(disk[f]) >= progress[f]
          /\ disk' = [disk EXCEPT ![f] = Truncated(f)]
          /\ phase' = "touched" /\ fetching' = <<f, progress[f]>>
          /\ UNCHANGED <<copies, saved, progress, from, threads, buffers, barrier,
                         expected>>
       \/ /\ progress[f] # NotInSnapshot /\ ~DoneWith(f)
          /\ Len(disk[f]) < progress[f] \* "too short"
          /\ Throw
          /\ UNCHANGED <<durable, progress>>
    /\ UNCHANGED faults

\* The scope starts its coroutines when there is a file to receive.
StartThreads == /\ expected' = fetching
                /\ fetcher' = [r \in Readers |-> "new"]
                /\ writer' = "waiting"
                /\ UNCHANGED <<asked, running, ran>>

\* The end of _initialize_one and of _fetch_next_file.
SaveOpened == /\ phase = "touched"
              /\ saved' = progress
              /\ phase' = "up"
              /\ IF writer = "off" THEN StartThreads ELSE UNCHANGED <<threads, expected>>
              /\ UNCHANGED <<disk, copies, progress, from, fetching, buffers, barrier,
                             faults>>

\* No file is left: the fetcher that found out ends, or there was nothing to do.
OpenedAll == /\ phase = "opening" /\ fetching = Over
             /\ IF writer = "off"
                  THEN phase' = "finishing" /\ UNCHANGED threads
                  ELSE /\ phase' = "up"
                       /\ fetcher' = [fetcher EXCEPT ![running] = "done"]
                       /\ running' = NoOne
                       /\ UNCHANGED <<asked, writer, ran>>
             /\ UNCHANGED <<durable, progress, from, fetching, buffers, barrier,
                            expected, faults>>

-----------------------------------------------------------------------------
(***************************************************************************)
(* _fetcher_thread.                                                        *)
(***************************************************************************)
Fetches(r) == phase = "up" /\ running = r

WriterReady == writer = "waiting" /\ barrier /\ buffers # {}

\* The scheduler may run r: the disk coroutine, if it can run, is not overtaken
\* twice.
Turn(r) == /\ phase = "up" /\ running = NoOne
           /\ WriterReady => r \notin ran

Ran(r) == ran' = IF WriterReady' THEN ran \union {r} ELSE {}

\* It runs for the first time, or again when the queue has a place.
Resume(r) == /\ Turn(r)
             /\ \/ fetcher[r] = "new"
                \/ fetcher[r] = "putting" /\ ~Full(buffers)
             /\ running' = r
             /\ fetcher' = [fetcher EXCEPT ![r] = "running"]
             /\ UNCHANGED <<durable, progress, phase, from, fetching, asked, buffers,
                            barrier, expected, writer, faults>>
             /\ Ran(r)

Exit(r) == /\ Fetches(r) /\ fetching = Over
           /\ fetcher' = [fetcher EXCEPT ![r] = "done"]
           /\ running' = NoOne
           /\ UNCHANGED <<durable, progress, phase, from, fetching, asked, buffers,
                          barrier, expected, writer, ran, faults>>

\* "would read past end"
NextFile(r) == /\ Fetches(r) /\ fetching # Over
               /\ fetching[2] >= Sizes[fetching[1]]
               /\ phase' = "opening"
               /\ fetching' = <<fetching[1] + 1, 0>>
               /\ UNCHANGED <<durable, progress, from, threads, buffers, barrier,
                              expected, faults>>

Ask(r) == /\ Fetches(r) /\ fetching # Over
          /\ fetching[2] < Sizes[fetching[1]]
          /\ asked' = [asked EXCEPT ![r] = fetching]
          /\ fetching' = <<fetching[1], fetching[2] + Chunk>>
          /\ fetcher' = [fetcher EXCEPT ![r] = "asking"]
          /\ running' = NoOne
          /\ UNCHANGED <<durable, progress, phase, from, buffers, barrier, expected,
                         writer, ran, faults>>

\* The sender serves the requests one after the other, the cloud in any order.
Answered(r) == /\ Turn(r) /\ fetcher[r] = "asking"
               /\ from = "cloud" \/ \A q \in Readers \ {r} :
                    fetcher[q] = "asking" => before(asked[r], asked[q])

\* Channel::put blocks after the insertion if the queue is full.
Put(r) == /\ buffers' = buffers \union {asked[r]}
          /\ asked' = [asked EXCEPT ![r] = NoBlock]
          /\ IF Full(buffers')
               THEN fetcher' = [fetcher EXCEPT ![r] = "putting"] /\ running' = NoOne
               ELSE fetcher' = [fetcher EXCEPT ![r] = "running"] /\ running' = r

Answer(r) == /\ Answered(r)
             /\ barrier' = (barrier \/ asked[r] = expected)
             /\ Put(r)
             /\ UNCHANGED <<durable, progress, phase, from, fetching, expected, writer,
                            faults>>
             /\ Ran(r)

-----------------------------------------------------------------------------
(***************************************************************************)
(* _disk_thread.                                                           *)
(***************************************************************************)
Wake == /\ phase = "up" /\ running = NoOne /\ WriterReady
        /\ ran' = {}
        /\ running' = "writer" /\ writer' = "draining"
        /\ UNCHANGED <<durable, progress, phase, from, fetching, fetcher, asked,
                       buffers, barrier, expected, faults>>

AppendTo(f, units) == disk' = [disk EXCEPT ![f] = @ \o units]

WriteBlock == /\ phase = "up" /\ writer = "draining"
              /\ IF top(buffers) # expected
                   THEN Leave("failed") /\ UNCHANGED <<durable, progress>>
                   ELSE /\ AppendTo(expected[1], Block(expected))
                        /\ buffers' = buffers \ {expected}
                        /\ writer' = "written"
                        /\ UNCHANGED <<copies, saved, progress, phase, from, fetching,
                                       fetcher, asked, running, ran, barrier,
                                       expected>>
              /\ UNCHANGED faults

\* The first file after f that is not complete.
NextExpected(f, p) ==
  LET left == {g \in (f + 1)..N : p[g] # Sizes[g]}
  IN  IF left = {} THEN N + 1 ELSE CHOOSE g \in left : \A h \in left : g <= h

\* Faulty: the writer waits for a fetcher after each block.
QueuedNever(next) == FALSE

\* The queue has the block that comes next.
Queued(next) == buffers # {} /\ top(buffers) = next

\* The writer goes on with the block next, or closes the barrier and waits for it.
Expect(next) == /\ expected' = next
                /\ barrier' = (barrier /\ Queued(next))
                /\ IF Queued(next)
                     THEN writer' = "draining" /\ running' = running
                     ELSE writer' = "waiting" /\ running' = NoOne
                /\ UNCHANGED <<phase, from, fetching, fetcher, asked, ran, buffers>>

\* A block that is short for its file is a filesystem_error, and cancels.
WrongSize(f, n, p) == (n < Chunk \/ p >= Sizes[f]) /\ p # Sizes[f]

SaveBlock ==
  LET f == expected[1]
      n == Len(Block(expected))
      p == [progress EXCEPT ![f] = @ + n]
      g == NextExpected(f, p)
  IN  /\ phase = "up" /\ writer = "written"
      /\ progress' = p
      /\ \/ /\ WrongSize(f, n, p[f])
            /\ saved' = Nothing
            /\ Leave("canceled")
         \/ /\ ~WrongSize(f, n, p[f])
            /\ saved' = p
            /\ \/ p[f] # Sizes[f] /\ Expect(<<f, p[f]>>)
               \/ p[f] = Sizes[f] /\ g = N + 1
                  /\ writer' = "done" /\ running' = NoOne
                  /\ UNCHANGED <<phase, from, fetching, fetcher, asked, ran, buffers,
                                 barrier, expected>>
               \/ p[f] = Sizes[f] /\ g \in Files /\ p[g] # NotInSnapshot
                  /\ Expect(<<g, p[g]>>)
               \/ p[f] = Sizes[f] /\ g \in Files /\ p[g] = NotInSnapshot
                  /\ Throw \* "file id out of range"
      /\ UNCHANGED <<disk, copies, faults>>

-----------------------------------------------------------------------------
(***************************************************************************)
(* The end of an attempt, faults.                                          *)
(***************************************************************************)

\* All the coroutines have returned: the snapshot is removed, then the source
\* is told.
Join == /\ phase = "up" /\ writer = "done"
        /\ \A r \in Readers : fetcher[r] = "done"
        /\ phase' = "finishing"
        /\ saved' = Nothing
        /\ ThreadsOff
        /\ UNCHANGED <<disk, copies, progress, from, fetching, buffers, barrier,
                       expected, faults>>

Finish == /\ phase = "finishing"
          /\ phase' = "finished"
          /\ saved' = Nothing
          /\ UNCHANGED <<disk, copies, progress, from, fetching, threads, buffers,
                         barrier, expected, faults>>

Fault(f) == f \in Faults /\ faults < MaxFaults /\ faults' = faults + 1

\* A request to the source throws a network error, the peer goes offline or the
\* user pauses the transaction: the coroutines end where they wait.
Interrupt == /\ Fault("interrupt")
             /\ running = NoOne /\ phase \in {"up", "finishing"}
             /\ Leave("down")
             /\ UNCHANGED <<durable, progress>>

\* The process dies, maybe in the middle of a write, and is started again.
Crash == /\ Fault("crash") /\ phase \notin Ended
         /\ IF writer = "draining" /\ top(buffers) = expected
              THEN \E n \in 0..Len(Block(expected)) :
                     AppendTo(expected[1], SubSeq(Block(expected), 1, n))
              ELSE disk' = disk
         /\ progress' = saved
         /\ phase' = "down"
         /\ fetching' = Over /\ buffers' = {} /\ barrier' = FALSE /\ expected' = NoBlock
         /\ ThreadsOff
         /\ copies' = [f \in Files |-> 0]
         /\ UNCHANGED <<saved, from>>

-----------------------------------------------------------------------------
Fetcher(r) == Resume(r) \/ Exit(r) \/ NextFile(r) \/ Ask(r) \/ Answer(r)

Open == OpenFile \/ SaveOpened \/ OpenedAll

Writer == Wake \/ WriteBlock \/ SaveBlock

Attempt == \E s \in Sources : Start(s)

Next == /\ \/ Attempt \/ Open
           \/ \E r \in Readers : Fetcher(r)
           \/ Writer \/ Join \/ Finish
           \/ Interrupt \/ Crash
        /\ UNCHANGED served

\* The scheduler runs every coroutine that can run, the source answers every
\* request it does not drop, and the machine tries again after a failed attempt.
Fairness == /\ WF_state(Attempt) /\ WF_state(Open)
            /\ \A r \in Readers : WF_state(Fetcher(r))
            /\ WF_state(Writer) /\ WF_state(Join) /\ WF_state(Finish)

Spec == Init /\ [][Next]_vars /\ Fairness

-----------------------------------------------------------------------------
(***************************************************************************)
(* Properties.                                                             *)
(***************************************************************************)
\* The snapshots, the queue and the program points of the coroutines have the
\* values the code gives them, and no progress passes the size of its file.
TypeOK == /\ served \in Served
          /\ disk \in [Files -> Seq(Files \X (Nat \ {0}))]
          /\ copies \in [Files -> Nat]
          /\ {saved, progress} \subseteq [Files -> Nat \union {NotInSnapshot}]
          /\ \A f \in Files : progress[f] <= Sizes[f]
          /\ phase \in {"down", "opening", "touched", "up", "finishing"} \union Ended
          /\ from \in Sources
          /\ fetching \in Nat \X Nat /\ expected \in Nat \X Nat
          /\ fetcher \in [Readers -> {"off", "new", "running", "asking", "putting",
                                      "done"}]
          /\ asked \in [Readers -> Nat \X Nat]
          /\ buffers \subseteq Nat \X Nat
          /\ barrier \in BOOLEAN
          /\ writer \in {"off", "waiting", "draining", "written", "done"}
          /\ running \in Readers \union {"writer", NoOne}
          /\ ran \subseteq Readers
          /\ faults \in 0..MaxFaults

\* Whatever was interrupted, what is on the disk is the beginning of the file: no
\* block is missing, twice there, or in the wrong file.
PrefixOnDisk == \A f \in Files : disk[f] = Content(f, Len(disk[f]))

\* The snapshot a restarted client reads never promises more than the disk has.
SavedBehindDisk == \A f \in Files : saved[f] <= Len(disk[f])

\* The sender is told the transfer is over when every file is whole.
FinishedComplete == phase = "finished" =>
                      \A f \in Files : disk[f] = Content(f, Sizes[f])

\* As long as the process lives a file gets one name, over all attempts.
OneCopy == \A f \in Files : copies[f] <= 1

\* However late the expected block is, the memory is bounded: every fetcher adds
\* at most one block to a full queue.
BoundedBuffer == Cardinality(buffers) <= Slots - 1 + Cardinality(Readers)

\* What has come is in order, in the queue, on the disk and in the snapshot,
\* however the attempts before ended.
Orderly == TypeOK /\ BoundedBuffer /\ PrefixOnDisk /\ SavedBehindDisk /\ OneCopy

\* Whatever the source, a transfer ends: no coroutine waits for ever.
Settles == <>(phase \in Ended)

\* With a source that has the files it ends finished. Only an attempt from the
\* cloud may fail instead, where the disk coroutine does not find the block it
\* expects.
Completes ==
  /\ Settles
  /\ served = Sizes => <>(\/ phase = "finished"
                          \/ phase = "failed" /\ from = "cloud")
=============================================================================
