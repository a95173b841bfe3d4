----------------------------- MODULE BlockProofs -----------------------------
(***************************************************************************)
(* What a received transaction puts on the disk is in order and whole, for *)
(* any files, blocks, fetchers, places in the queue, sources and faults.   *)
(***************************************************************************)
EXTENDS BlockPipeline, FiniteSetTheorems, SequenceTheorems, WellFoundedInduction, TLAPS

\* A device that is in an attempt.
Going == {"opening", "touched", "up"}

\* The part of what an attempt may have asked and written.
Opened(f) == f < fetching[1] \/ (f = fetching[1] /\ phase # "opening")

\* What the disk coroutine wrote and did not count yet.
Uncounted(f) == IF writer = "written" /\ f = expected[1] THEN Len(Block(expected)) ELSE 0

\* What is on the disk, in the snapshots, and the names: at any time.
Grounded ==
  \A f \in Files :
    /\ \A i \in 1..Len(disk[f]) : disk[f][i] = <<f, i>>
    /\ Len(disk[f]) <= Sizes[f]
    /\ saved[f] <= progress[f] /\ progress[f] <= Len(disk[f])
    /\ copies[f] <= 1
    /\ progress[f] = NotInSnapshot => copies[f] = 0

\* The queue has a block at most for each place, and one for each fetcher that waits.
Bounded ==
  /\ IsFiniteSet(buffers)
  /\ Cardinality(buffers) <= Slots - 1 + Cardinality(Readers)
  /\ phase \in Going => Cardinality(buffers) <=
       Slots - 1 + Cardinality({r \in Readers : fetcher[r] = "putting"})

\* When the threads of an attempt run: none before it and after it, one at a time in it.
Scheduled ==
  /\ phase \notin {"opening", "touched", "up"} => writer = "off"
  /\ phase \notin {"opening", "touched", "up"} => \A r \in Readers : fetcher[r] = "off"
  /\ phase \in {"opening", "touched"} /\ writer = "off" => \A r \in Readers : fetcher[r] = "off"
  /\ phase = "up" => writer # "off"
  /\ \A r \in Readers : running = r => fetcher[r] = "running"
  /\ writer \in {"draining", "written"} => phase = "up" /\ running = "writer"
  /\ writer = "draining" => buffers # {}

\* What an attempt has asked, queued and written so far, from what the snapshot says.
Attempted ==
  phase \in Going =>
    /\ fetching[1] \in Files \/ fetching = Over
    /\ phase = "touched" => fetching[1] \in Files /\ fetching[2] = progress[fetching[1]]
    /\ \A f \in Files : Opened(f) => Len(disk[f]) = progress[f] + Uncounted(f)
    /\ \A b \in buffers : b[1] \in Files /\ Opened(b[1])
    /\ \A r \in Readers : fetcher[r] = "asking" => asked[r][1] \in Files /\ Opened(asked[r][1])

\* The disk coroutine expects the first block that is not there, and is done when all are.
Ordered ==
  /\ phase \in Going /\ writer = "off" => \A f \in Files : f < fetching[1] => complete(f)
  /\ phase \in Going /\ writer # "off" =>
       /\ expected[1] \in Files
       /\ \A f \in Files : f < expected[1] => complete(f)
  /\ writer \in {"waiting", "draining", "written"} => expected[2] = progress[expected[1]]
  /\ writer = "written" => Opened(expected[1])
  /\ writer = "done" \/ phase \in {"finishing", "finished"} => \A f \in Files : complete(f)

IInv == TypeOK /\ Grounded /\ Bounded /\ Scheduled /\ Attempted /\ Ordered

-----------------------------------------------------------------------------
(***************************************************************************)
(* The constants, blocks and the queue.                                    *)
(***************************************************************************)
LEMMA Constants ==
  /\ N \in Nat /\ Files = 1..N
  /\ \A f \in Files : Sizes[f] \in Nat
  /\ \A s \in Served : s \in [Files -> Nat] /\ \A f \in Files : s[f] <= Sizes[f]
  /\ Chunk \in Nat /\ Chunk > 0 /\ Slots \in Nat /\ Slots > 0
  /\ IsFiniteSet(Readers) /\ Readers # {} /\ Cardinality(Readers) \in Nat
  /\ NoOne \notin Readers /\ NoOne # "writer" /\ "writer" \notin Readers
<1>1. Sizes \in Seq(Nat)
  BY BlockAssumption
<1>2. N \in Nat /\ Files = 1..N /\ \A f \in Files : Sizes[f] \in Nat
  BY <1>1, LenProperties DEF N, Files
<1>3. Cardinality(Readers) \in Nat
  BY BlockAssumption, FS_CardinalityType
<1> QED
  BY <1>2, <1>3, BlockAssumption DEF Files

\* The snapshots, the disk and the queue in the form the proofs use.
LEMMA Typed ==
  ASSUME TypeOK
  PROVE  /\ served \in [Files -> Nat] /\ \A f \in Files : served[f] <= Sizes[f]
         /\ \A f \in Files : f \in Nat /\ f >= 1 /\ f <= N /\ Sizes[f] \in Nat
         /\ \A f \in Files : Len(disk[f]) \in Nat /\ disk[f] \in Seq(Files \X (Nat \ {0}))
         /\ saved \in [Files -> Nat \union {NotInSnapshot}]
         /\ progress \in [Files -> Nat \union {NotInSnapshot}]
         /\ fetching[1] \in Nat /\ fetching[2] \in Nat
         /\ expected[1] \in Nat /\ expected[2] \in Nat
         /\ fetching = <<fetching[1], fetching[2]>> /\ expected = <<expected[1], expected[2]>>
<1>1. \A f \in Files : disk[f] \in Seq(Files \X (Nat \ {0}))
  BY DEF TypeOK
<1>2. \A f \in Files : Len(disk[f]) \in Nat
  BY <1>1, LenProperties
<1>3. saved \in [Files -> Nat \union {NotInSnapshot}] /\ progress \in [Files -> Nat \union {NotInSnapshot}]
  BY DEF TypeOK
<1>4. \A f \in Files : f \in Nat /\ f >= 1 /\ f <= N /\ Sizes[f] \in Nat
  BY Constants
<1>5. served \in [Files -> Nat] /\ \A f \in Files : served[f] <= Sizes[f]
  BY Constants DEF TypeOK
<1>6. /\ fetching[1] \in Nat /\ fetching[2] \in Nat
      /\ expected[1] \in Nat /\ expected[2] \in Nat
      /\ fetching = <<fetching[1], fetching[2]>> /\ expected = <<expected[1], expected[2]>>
  BY DEF TypeOK
<1> QED
  BY <1>1, <1>2, <1>3, <1>4, <1>5, <1>6

\* A set of numbers has a least one.
LEMMA Least ==
  ASSUME NEW S, S \subseteq Nat, S # {}
  PROVE  \E m \in S : \A n \in S : m <= n
<1>1. PICK x \in S : \A y \in S : <<y, x>> \notin OpToRel(<, Nat)
  BY NatLessThanWellFounded, WFMin
<1>2. OpToRel(<, Nat) = {ss \in Nat \X Nat : ss[1] < ss[2]}
  BY Zenon DEF OpToRel
<1>3. \A y \in S : x <= y
  <2> SUFFICES ASSUME NEW y \in S, y < x PROVE FALSE
    OBVIOUS
  <2>1. <<y, x>> \in {ss \in Nat \X Nat : ss[1] < ss[2]}
    OBVIOUS
  <2> QED
    BY <1>1, <1>2, <2>1, Zenon
<1> QED
  BY <1>3

\* The block the queue gives is one of those it has.
LEMMA TopIn ==
  ASSUME NEW bs, bs \subseteq Nat \X Nat, bs # {}
  PROVE  top(bs) \in bs
<1> DEFINE F == {b[1] : b \in bs}
<1>1. F \subseteq Nat /\ F # {}
  OBVIOUS
<1>2. PICK m \in F : \A n \in F : m <= n
  <2> HIDE DEF F
  <2> QED
    BY <1>1, Least
<1> DEFINE P == {b[2] : b \in {c \in bs : c[1] = m}}
<1>3. P \subseteq Nat /\ P # {}
  BY <1>2
<1>4. PICK p \in P : \A n \in P : p <= n
  <2> HIDE DEF P
  <2> QED
    BY <1>3, Least
<1>5. PICK b \in bs : b[1] = m /\ b[2] = p
  BY <1>4
<1>6. ASSUME NEW c \in bs, c # b PROVE before(b, c)
  <2>1. m <= c[1] /\ (c[1] = m => p <= c[2])
    BY <1>2, <1>4
  <2>2. b = <<b[1], b[2]>> /\ c = <<c[1], c[2]>> /\ b[1] \in Nat /\ b[2] \in Nat /\ c[1] \in Nat /\ c[2] \in Nat
    OBVIOUS
  <2>3. ~(c[1] = m /\ c[2] = p)
    BY <1>5, <1>6, <2>2
  <2> QED
    BY <1>5, <2>1, <2>2, <2>3 DEF before
<1>7. \E x \in bs : \A c \in bs \ {x} : before(x, c)
  BY <1>6
<1> QED
  BY <1>7, Zenon DEF top

\* What a source returns for a block: the units that come next, none past the end.
LEMMA BlockUnits ==
  ASSUME NEW s \in [Files -> Nat], served = s, NEW b, b[1] \in Files, b[2] \in Nat
  PROVE  /\ Block(b) \in Seq(Files \X (Nat \ {0})) /\ Len(Block(b)) \in Nat
         /\ b[2] <= s[b[1]] => b[2] + Len(Block(b)) <= s[b[1]]
         /\ b[2] > s[b[1]] => Len(Block(b)) = 0
         /\ b[2] <= s[b[1]] => \A i \in 1..Len(Block(b)) : Block(b)[i] = <<b[1], b[2] + i>>
<1> DEFINE n == s[b[1]]
           first == min(b[2], n)
           last == min(b[2] + Chunk, n)
           k == last - first
           d == [i \in 1..k |-> <<b[1], first + i>>]
<1>1. n \in Nat /\ Chunk \in Nat
  BY Constants
<1>2. first \in Nat /\ last \in Nat /\ k \in Nat
      /\ (b[2] <= n => first = b[2] /\ last <= n) /\ (b[2] > n => k = 0)
  BY <1>1 DEF min
<1>3. Block(b) = d
  BY DEF Block
<1> HIDE DEF first, last
<1>4. d \in Seq(Files \X (Nat \ {0})) /\ Len(d) = k /\ \A i \in 1..k : d[i] = <<b[1], first + i>>
  <2>1. \A i \in 1..k : <<b[1], first + i>> \in Files \X (Nat \ {0})
    BY <1>2
  <2> QED
    BY <1>2, <2>1
<1> QED
  BY <1>2, <1>3, <1>4 DEF first, last

\* Units that come next leave a file in order.
LEMMA Appended ==
  ASSUME NEW f \in Files, NEW d \in Seq(Files \X (Nat \ {0})), NEW u \in Seq(Files \X (Nat \ {0})),
         \A i \in 1..Len(d) : d[i] = <<f, i>>,
         \A i \in 1..Len(u) : u[i] = <<f, Len(d) + i>>
  PROVE  /\ d \o u \in Seq(Files \X (Nat \ {0})) /\ Len(d \o u) = Len(d) + Len(u)
         /\ \A i \in 1..Len(d \o u) : (d \o u)[i] = <<f, i>>
<1>1. Len(d) \in Nat /\ Len(u) \in Nat
  BY LenProperties
<1>2. /\ d \o u \in Seq(Files \X (Nat \ {0}))
      /\ Len(d \o u) = Len(d) + Len(u)
      /\ \A i \in 1..Len(d) + Len(u) : (d \o u)[i] = IF i <= Len(d) THEN d[i] ELSE u[i - Len(d)]
  BY ConcatProperties
<1>3. ASSUME NEW i \in 1..Len(d) + Len(u) PROVE (d \o u)[i] = <<f, i>>
  <2>1. CASE i <= Len(d)
    BY <1>1, <1>2, <2>1
  <2>2. CASE i > Len(d)
    <3>1. i - Len(d) \in 1..Len(u) /\ Len(d) + (i - Len(d)) = i
      BY <1>1, <2>2
    <3> QED
      BY <1>1, <1>2, <2>2, <3>1
  <2> QED
    BY <1>1, <2>1, <2>2
<1> QED
  BY <1>2, <1>3

\* The first units of a file, or of a block.
LEMMA Cut ==
  ASSUME NEW d \in Seq(Files \X (Nat \ {0})), NEW n \in Nat, n <= Len(d)
  PROVE  /\ SubSeq(d, 1, n) \in Seq(Files \X (Nat \ {0})) /\ Len(SubSeq(d, 1, n)) = n
         /\ \A i \in 1..n : SubSeq(d, 1, n)[i] = d[i]
<1>1. Len(d) \in Nat
  BY LenProperties
<1>2. \A i \in 1..n : d[i] \in Files \X (Nat \ {0})
  BY <1>1, ElementOfSeq
<1>3. /\ SubSeq(d, 1, n) \in Seq(Files \X (Nat \ {0}))
      /\ Len(SubSeq(d, 1, n)) = IF 1 <= n THEN n - 1 + 1 ELSE 0
      /\ \A i \in 1..(n - 1 + 1) : SubSeq(d, 1, n)[i] = d[1 + i - 1]
  <2>1. 1 \in Int /\ n \in Int
    OBVIOUS
  <2> QED
    BY <1>2, <2>1, SubSeqProperties
<1> QED
  BY <1>3

LEMMA InContent ==
  ASSUME NEW f \in Files, NEW d \in Seq(Files \X (Nat \ {0})), \A i \in 1..Len(d) : d[i] = <<f, i>>
  PROVE  d = Content(f, Len(d))
<1>1. Len(d) \in Nat /\ d \in [1..Len(d) -> Files \X (Nat \ {0})]
  BY LenProperties
<1>2. d = [i \in 1..Len(d) |-> d[i]]
  BY <1>1
<1> QED
  BY <1>2 DEF Content

\* The coroutines that wait for a place are some of them.
LEMMA Waiters ==
  ASSUME NEW fs
  PROVE  LET waiting == {r \in Readers : fs[r] = "putting"} IN
           /\ IsFiniteSet(waiting) /\ Cardinality(waiting) \in Nat
           /\ Cardinality(waiting) <= Cardinality(Readers)
<1> DEFINE waiting == {r \in Readers : fs[r] = "putting"}
<1>1. waiting \in SUBSET Readers
  OBVIOUS
<1>2. IsFiniteSet(waiting) /\ Cardinality(waiting) <= Cardinality(Readers)
  BY <1>1, Constants, FS_Subset
<1> QED
  BY <1>2, FS_CardinalityType

-----------------------------------------------------------------------------
(***************************************************************************)
(* The steps keep the invariant.                                           *)
(***************************************************************************)
LEMMA LeaveSafe ==
  ASSUME IInv, NEW p \in {"down", "failed", "canceled"}, Leave(p), served' = served,
         {saved', progress'} \subseteq [Files -> Nat \union {NotInSnapshot}],
         \A f \in Files : progress'[f] <= Sizes[f],
         Grounded', disk' \in [Files -> Seq(Files \X (Nat \ {0}))], copies' \in [Files -> Nat],
         faults' \in 0..MaxFaults
  PROVE  IInv'
<1>1. /\ writer' = "off" /\ fetcher' = [r \in Readers |-> "off"] /\ running' = NoOne
      /\ asked' = [r \in Readers |-> NoBlock] /\ ran' = {} /\ phase' = p
      /\ UNCHANGED <<from, fetching, buffers, barrier, expected>>
  BY DEF Leave, ThreadsOff
<1>2. TypeOK'
  BY <1>1 DEF IInv, TypeOK, Ended, NoBlock
<1>3. Bounded'
  BY <1>1 DEF IInv, Bounded, Going
<1>4. Scheduled'
  BY <1>1, Constants DEF Scheduled
<1>5. Attempted' /\ Ordered'
  BY <1>1 DEF Attempted, Ordered, Going
<1> QED
  BY <1>2, <1>3, <1>4, <1>5 DEF IInv

LEMMA StartSafe ==
  ASSUME IInv, NEW s \in Sources, Start(s), served' = served
  PROVE  IInv'
<1>1. /\ phase = "down" /\ phase' = "opening" /\ from' = s /\ fetching' = <<1, 0>> /\ buffers' = {}
      /\ UNCHANGED <<disk, copies, saved, progress, fetcher, asked, writer, running, ran, barrier,
                     expected, faults>>
  BY DEF Start, durable, threads
<1>2. TypeOK'
  BY <1>1 DEF IInv, TypeOK
<1>3. Grounded'
  BY <1>1 DEF IInv, Grounded
<1>4. Bounded'
  <2>1. Cardinality(buffers') = 0 /\ IsFiniteSet(buffers')
    BY <1>1, FS_EmptySet
  <2>2. Cardinality({r \in Readers : fetcher'[r] = "putting"}) \in Nat
    BY Waiters
  <2> QED
    BY <2>1, <2>2, Constants DEF Bounded
<1>5. Scheduled'
  BY <1>1 DEF IInv, Scheduled
<1>6. Attempted'
  <2>1. \A f \in Files : ~Opened(f)'
    BY <1>1, Constants DEF Opened
  <2>2. fetching'[1] \in Files \/ fetching' = Over
    BY <1>1, Constants DEF Over
  <2>3. \A r \in Readers : fetcher'[r] = "off"
    BY <1>1 DEF IInv, Scheduled
  <2> QED
    BY <1>1, <2>1, <2>2, <2>3 DEF Attempted
<1>7. Ordered'
  <2>1. writer = "off"
    BY <1>1 DEF IInv, Scheduled
  <2> QED
    BY <1>1, <2>1, Constants DEF Ordered
<1> QED
  BY <1>2, <1>3, <1>4, <1>5, <1>6, <1>7 DEF IInv

\* A file gets a name, keeps what the snapshot knows of it, or is whole already.
LEMMA OpenFileSafe ==
  ASSUME IInv, OpenFile, served' = served
  PROVE  IInv'
<1> DEFINE f == fetching[1]
<1>0. TypeOK /\ Grounded /\ Bounded /\ Scheduled /\ Attempted /\ Ordered
  BY DEF IInv
<1>1. phase = "opening" /\ f \in Files /\ faults' = faults
  BY DEF OpenFile
<1>2. /\ f \in Nat /\ f >= 1 /\ f <= N /\ Sizes[f] \in Nat
      /\ Len(disk[f]) \in Nat /\ progress[f] \in Nat \union {NotInSnapshot}
      /\ f + 1 \in Files \/ <<f + 1, 0>> = Over
  BY <1>0, <1>1, Typed, Constants DEF Over
<1>3. writer \notin {"draining", "written"}
  BY <1>0, <1>1 DEF Scheduled
<1>4. ASSUME UNCHANGED <<from, threads, buffers, barrier, expected>>,
             \/ phase' = phase /\ fetching' = <<f + 1, 0>> /\ progress'[f] = Sizes[f]
             \/ phase' = "touched" /\ fetching' = <<f, progress'[f]>>,
             Len(disk'[f]) = progress'[f],
             progress'[f] \in Nat, progress'[f] <= Sizes[f],
             disk' \in [Files -> Seq(Files \X (Nat \ {0}))],
             copies' \in [Files -> Nat],
             saved' = saved,
             progress' \in [Files -> Nat \union {NotInSnapshot}],
             complete(f) => progress'[f] = Sizes[f],
             progress[f] # NotInSnapshot => progress'[f] = progress[f],
             \A g \in Files \ {f} : progress'[g] = progress[g] /\ disk'[g] = disk[g],
             Grounded'
      PROVE  IInv'
  <2>0. fetching[1] = f
    OBVIOUS
  <2> HIDE DEF f
  <2>1. UNCHANGED <<fetcher, asked, writer, running, ran, from, buffers, barrier, expected>>
    BY <1>4 DEF threads
  <2>2. fetching' = <<f + 1, 0>> \/ fetching' = <<f, progress'[f]>>
    BY <1>4
  <2>3. TypeOK'
    <3>1. fetching' \in Nat \X Nat
      BY <1>2, <1>4, <2>2
    <3>2. \A g \in Files : progress'[g] <= Sizes[g]
      BY <1>0, <1>4 DEF TypeOK
    <3>3. phase' \in {"opening", "touched"}
      BY <1>1, <1>4
    <3> QED
      BY <1>0, <1>1, <1>4, <2>1, <3>1, <3>2, <3>3 DEF TypeOK
  <2>4. Bounded'
    BY <1>0, <1>1, <1>4, <2>1 DEF Bounded, Going
  <2>5. Scheduled'
    BY <1>0, <1>1, <1>3, <1>4, <2>1 DEF Scheduled
  <2>6. phase \in Going /\ phase' \in Going /\ \A g \in Files : Opened(g) => Opened(g)'
    <3>1. phase \in Going /\ phase' \in Going
      BY <1>1, <1>4 DEF Going
    <3>2. \A g \in Files : Opened(g) => g < f
      BY <1>1, <2>0 DEF Opened
    <3>3. \A g \in Files : g < f => Opened(g)'
      <4>1. CASE phase' = "touched" /\ fetching' = <<f, progress'[f]>>
        BY <4>1 DEF Opened
      <4>2. CASE fetching' = <<f + 1, 0>>
        <5>1. fetching'[1] = f + 1 /\ \A g \in Files : g \in Nat
          BY <1>0, <4>2, Typed
        <5> QED
          BY <1>2, <5>1 DEF Opened
      <4> QED
        BY <1>4, <4>1, <4>2
    <3> QED
      BY <3>1, <3>2, <3>3
  <2>7. \A g \in Files : Opened(g)' => g = f \/ Opened(g)
    <3>1. \A g \in Files : g \in Nat
      BY <1>0, Typed
    <3>2. \A g \in Files : Opened(g)' => g < f + 1
      <4>1. fetching'[1] = f \/ (fetching'[1] = f + 1 /\ phase' = "opening")
        BY <1>1, <1>4
      <4> QED
        BY <1>2, <3>1, <4>1 DEF Opened
    <3> QED
      BY <1>1, <1>2, <2>0, <3>1, <3>2 DEF Opened
  <2>8. Attempted'
    <3>1. ASSUME NEW g \in Files, Opened(g) PROVE Len(disk'[g]) = progress'[g]
      <4>1. g # f
        BY <1>1, <1>2, <2>0, <3>1 DEF Opened
      <4>2. Len(disk[g]) = progress[g] + Uncounted(g)
        BY <1>0, <2>6, <3>1 DEF Attempted
      <4>3. Uncounted(g) = 0 /\ progress[g] \in Int
        BY <1>0, <1>3, Typed DEF Uncounted, NotInSnapshot
      <4>4. progress'[g] = progress[g] /\ disk'[g] = disk[g]
        BY <1>4, <4>1
      <4> QED
        BY <4>2, <4>3, <4>4
    <3>2. ASSUME NEW g \in Files, Opened(g)' PROVE Len(disk'[g]) = progress'[g] + Uncounted(g)'
      <4>1. Uncounted(g)' = 0
        BY <1>3, <2>1 DEF Uncounted
      <4>2. progress'[g] \in Int
        BY <1>4 DEF NotInSnapshot
      <4>3. Len(disk'[g]) = progress'[g]
        BY <1>4, <2>7, <3>1, <3>2
      <4> QED
        BY <4>1, <4>2, <4>3
    <3>3. fetching'[1] \in Files \/ fetching' = Over
      BY <1>1, <1>2, <2>2
    <3>4. phase' = "touched" => fetching'[1] \in Files /\ fetching'[2] = progress'[fetching'[1]]
      BY <1>1, <1>4
    <3>5. \A b \in buffers : b[1] \in Files /\ Opened(b[1])'
      BY <1>0, <2>6 DEF Attempted
    <3>6. ASSUME NEW r \in Readers, fetcher[r] = "asking"
          PROVE  asked[r][1] \in Files /\ Opened(asked[r][1])'
      <4>1. asked[r][1] \in Files /\ Opened(asked[r][1])
        BY <1>0, <2>6, <3>6 DEF Attempted
      <4> QED
        BY <2>1, <2>6, <4>1
    <3> QED
      BY <2>1, <3>2, <3>3, <3>4, <3>5, <3>6 DEF Attempted
  <2>9. Ordered'
    <3>1. \A g \in Files : complete(g) => complete(g)'
      <4>1. \A g \in Files \ {f} : complete(g) => complete(g)'
        BY <1>4 DEF complete
      <4>2. complete(f) => \A g \in {f} : complete(g)'
        BY <1>4 DEF complete
      <4> QED
        BY <4>1, <4>2
    <3>2. phase' \in {"opening", "touched"}
      BY <1>1, <1>4
    <3>3. writer = "off" => \A g \in Files : g < fetching'[1] => complete(g)'
      <4>1. writer = "off" => \A g \in Files : g < f => complete(g)'
        BY <1>0, <2>0, <2>6, <3>1 DEF Ordered
      <4>2. CASE fetching' = <<f + 1, 0>> /\ progress'[f] = Sizes[f]
        <5>1. \A g \in Files : g \in Nat
          BY <1>0, Typed
        <5>2. fetching'[1] = f + 1
          BY <4>2
        <5>3. \A g \in Files : g < f + 1 => g < f \/ g = f
          BY <1>2, <5>1
        <5>4. \A g \in {f} : complete(g)'
          BY <4>2 DEF complete
        <5> QED
          BY <4>1, <5>2, <5>3, <5>4
      <4>3. CASE fetching' = <<f, progress'[f]>>
        BY <4>1, <4>3
      <4> QED
        BY <1>4, <4>2, <4>3
    <3>4. writer # "off" => /\ expected[1] \in Files
                            /\ \A g \in Files : g < expected[1] => complete(g)'
      BY <1>0, <2>6, <3>1 DEF Ordered
    <3>5. writer = "waiting" => expected[2] = progress'[expected[1]]
      <4>1. writer = "waiting" => expected[2] = progress[expected[1]] /\ expected[2] \in Nat
        BY <1>0, Typed DEF Ordered
      <4> QED
        BY <1>4, <3>4, <4>1 DEF NotInSnapshot
    <3>6. writer = "done" => \A g \in Files : complete(g)'
      BY <1>0, <3>1 DEF Ordered
    <3> QED
      BY <1>3, <2>1, <3>2, <3>3, <3>4, <3>5, <3>6 DEF Ordered
  <2> QED
    BY <1>4, <2>3, <2>4, <2>5, <2>8, <2>9 DEF IInv
<1>5. CASE /\ progress[f] = NotInSnapshot
           /\ copies' = [copies EXCEPT ![f] = @ + 1]
           /\ disk' = [disk EXCEPT ![f] = <<>>]
           /\ progress' = [progress EXCEPT ![f] = 0]
           /\ IF Sizes[f] = 0
                THEN phase' = phase /\ fetching' = <<f + 1, 0>>
                ELSE phase' = "touched" /\ fetching' = <<f, 0>>
           /\ UNCHANGED <<saved, from, threads, buffers, barrier, expected>>
  <2>1. <<>> \in Seq(Files \X (Nat \ {0})) /\ Len(<<>>) = 0
    BY EmptySeq
  <2>2. disk'[f] = <<>> /\ progress'[f] = 0 /\ copies'[f] = copies[f] + 1
        /\ \A g \in Files \ {f} : /\ progress'[g] = progress[g] /\ disk'[g] = disk[g]
                                  /\ copies'[g] = copies[g]
    BY <1>0, <1>1, <1>5 DEF TypeOK
  <2>3. Grounded'
    <3>1. copies[f] = 0 /\ saved[f] <= NotInSnapshot
      BY <1>0, <1>1, <1>5 DEF Grounded
    <3>2. ASSUME NEW g \in Files, g # f PROVE
                 /\ \A i \in 1..Len(disk'[g]) : disk'[g][i] = <<g, i>>
                 /\ Len(disk'[g]) <= Sizes[g]
                 /\ saved'[g] <= progress'[g] /\ progress'[g] <= Len(disk'[g])
                 /\ copies'[g] <= 1
                 /\ progress'[g] = NotInSnapshot => copies'[g] = 0
      BY <1>0, <1>5, <2>2, <3>2 DEF Grounded
    <3>3. /\ \A i \in 1..Len(disk'[f]) : disk'[f][i] = <<f, i>>
          /\ Len(disk'[f]) <= Sizes[f]
          /\ saved'[f] <= progress'[f] /\ progress'[f] <= Len(disk'[f])
          /\ copies'[f] <= 1
          /\ progress'[f] = NotInSnapshot => copies'[f] = 0
      <4>1. saved[f] \in Int /\ saved'[f] = saved[f]
        BY <1>0, <1>1, <1>5, Typed DEF NotInSnapshot
      <4>2. saved'[f] <= 0
        BY <3>1, <4>1 DEF NotInSnapshot
      <4> QED
        BY <1>2, <2>1, <2>2, <3>1, <4>2 DEF NotInSnapshot
    <3> QED
      BY <3>2, <3>3 DEF Grounded
  <2>4. disk' \in [Files -> Seq(Files \X (Nat \ {0}))] /\ copies' \in [Files -> Nat]
        /\ progress' \in [Files -> Nat \union {NotInSnapshot}]
    BY SMTT(30), <1>0, <1>1, <1>5, <2>1 DEF TypeOK
  <2>5. complete(f) => progress'[f] = Sizes[f]
    BY <1>2, <1>5 DEF complete, NotInSnapshot
  <2>6. \/ phase' = phase /\ fetching' = <<f + 1, 0>> /\ progress'[f] = Sizes[f]
        \/ phase' = "touched" /\ fetching' = <<f, progress'[f]>>
    <3>1. CASE Sizes[f] = 0
      BY <1>5, <2>2, <3>1 DEF complete
    <3>2. CASE Sizes[f] # 0
      BY <1>5, <2>2, <3>2
    <3> QED
      BY <3>1, <3>2
  <2> QED
    BY <1>2, <1>4, <1>5, <2>1, <2>2, <2>3, <2>4, <2>5, <2>6
<1>6. CASE /\ progress[f] # NotInSnapshot /\ DoneWith(f)
           /\ fetching' = <<f + 1, 0>>
           /\ UNCHANGED <<durable, progress, phase, from, threads, buffers, barrier, expected>>
  <2>1. progress[f] = Sizes[f] /\ Len(disk[f]) = Sizes[f] /\ progress'[f] = Sizes[f] /\ complete(f)
    <3>1. progress[f] = Sizes[f] /\ progress'[f] = Sizes[f] /\ complete(f)
      BY <1>6 DEF DoneWith, complete
    <3>2. progress[f] <= Len(disk[f]) /\ Len(disk[f]) <= Sizes[f]
      BY <1>0, <1>1 DEF Grounded
    <3> QED
      BY <1>2, <3>1, <3>2
  <2>2. Grounded' /\ UNCHANGED <<disk, copies, saved, progress>>
    BY <1>0, <1>6 DEF Grounded, durable
  <2>3. /\ disk' \in [Files -> Seq(Files \X (Nat \ {0}))] /\ copies' \in [Files -> Nat]
        /\ progress' \in [Files -> Nat \union {NotInSnapshot}]
    BY <1>0, <2>2 DEF TypeOK
  <2> QED
    BY <1>2, <1>4, <1>6, <2>1, <2>2, <2>3
<1>7. CASE /\ progress[f] # NotInSnapshot /\ ~DoneWith(f)
           /\ Len(disk[f]) >= progress[f]
           /\ disk' = [disk EXCEPT ![f] = Truncated(f)]
           /\ phase' = "touched" /\ fetching' = <<f, progress[f]>>
           /\ UNCHANGED <<copies, saved, progress, from, threads, buffers, barrier, expected>>
  <2>1. progress[f] \in Nat /\ progress[f] <= Len(disk[f]) /\ progress[f] <= Sizes[f] /\ ~complete(f)
    BY <1>0, <1>1, <1>2, <1>7 DEF Grounded, DoneWith, TypeOK
  <2>2. disk'[f] = SubSeq(disk[f], 1, progress[f]) /\ \A g \in Files \ {f} : disk'[g] = disk[g]
    BY <1>0, <1>1, <1>7, <2>1 DEF TypeOK, Truncated
  <2>3. /\ disk'[f] \in Seq(Files \X (Nat \ {0})) /\ Len(disk'[f]) = progress[f]
        /\ \A i \in 1..Len(disk'[f]) : disk'[f][i] = <<f, i>>
    <3>1. disk[f] \in Seq(Files \X (Nat \ {0}))
      BY <1>0, <1>1, Typed
    <3>2. /\ SubSeq(disk[f], 1, progress[f]) \in Seq(Files \X (Nat \ {0}))
          /\ Len(SubSeq(disk[f], 1, progress[f])) = progress[f]
          /\ \A i \in 1..progress[f] : SubSeq(disk[f], 1, progress[f])[i] = disk[f][i]
      BY <2>1, <3>1, Cut
    <3>3. \A i \in 1..progress[f] : disk[f][i] = <<f, i>>
      BY <1>0, <1>1, <1>2, <2>1 DEF Grounded
    <3> QED
      BY <2>2, <3>2, <3>3
  <2>4. Grounded'
    <3>1. ASSUME NEW g \in Files, g # f PROVE
                 /\ \A i \in 1..Len(disk'[g]) : disk'[g][i] = <<g, i>>
                 /\ Len(disk'[g]) <= Sizes[g] /\ progress'[g] <= Len(disk'[g])
      BY <1>0, <1>7, <2>2, <3>1 DEF Grounded
    <3>2. \A g \in Files : saved'[g] <= progress'[g] /\ copies'[g] <= 1
                           /\ (progress'[g] = NotInSnapshot => copies'[g] = 0)
      BY <1>0, <1>7 DEF Grounded
    <3>3. Len(disk'[f]) <= Sizes[f] /\ progress'[f] <= Len(disk'[f])
      BY <1>7, <2>1, <2>3
    <3> QED
      BY <2>3, <3>1, <3>2, <3>3 DEF Grounded
  <2>5. disk' \in [Files -> Seq(Files \X (Nat \ {0}))] /\ copies' \in [Files -> Nat]
        /\ progress' \in [Files -> Nat \union {NotInSnapshot}]
    BY <1>0, <1>1, <1>7, <2>2, <2>3 DEF TypeOK
  <2> QED
    BY <1>4, <1>7, <2>1, <2>2, <2>3, <2>4, <2>5
<1>8. CASE Throw /\ UNCHANGED <<durable, progress>>
  <2>1. \E p \in {"down", "failed", "canceled"} : Leave(p)
    BY <1>8 DEF Throw
  <2>2. Grounded' /\ {saved', progress'} \subseteq [Files -> Nat \union {NotInSnapshot}]
        /\ (\A g \in Files : progress'[g] <= Sizes[g])
        /\ disk' \in [Files -> Seq(Files \X (Nat \ {0}))] /\ copies' \in [Files -> Nat]
        /\ faults' \in 0..MaxFaults
    BY <1>0, <1>1, <1>8 DEF Grounded, durable, TypeOK
  <2> QED
    BY <2>1, <2>2, LeaveSafe
<1> QED
  BY <1>5, <1>6, <1>7, <1>8, Zenon DEF OpenFile

\* The scope starts its coroutines on the first file that is not whole.
LEMMA SaveOpenedSafe ==
  ASSUME IInv, SaveOpened, served' = served
  PROVE  IInv'
<1>0. TypeOK /\ Grounded /\ Bounded /\ Scheduled /\ Attempted /\ Ordered
  BY DEF IInv
<1>1. /\ phase = "touched" /\ saved' = progress /\ phase' = "up"
      /\ UNCHANGED <<disk, copies, progress, from, fetching, buffers, barrier, faults, asked,
                     running, ran>>
  BY DEF SaveOpened, StartThreads, threads
<1>2. \/ /\ writer = "off" /\ expected' = fetching /\ writer' = "waiting"
         /\ fetcher' = [r \in Readers |-> "new"]
      \/ writer # "off" /\ UNCHANGED <<expected, fetcher, writer>>
  BY DEF SaveOpened, StartThreads, threads
<1>3. \A r \in Readers : running = r => writer # "off"
  BY <1>0, <1>1 DEF Scheduled
<1>4. TypeOK'
  BY <1>0, <1>1, <1>2 DEF TypeOK
<1>5. Grounded'
  <2>1. \A f \in Files : saved'[f] <= progress'[f]
    <3>1. \A f \in Files : progress[f] \in Int
      BY <1>0, Typed DEF NotInSnapshot
    <3> QED
      BY <1>1, <3>1
  <2> QED
    BY <1>0, <1>1, <2>1 DEF Grounded
<1>6. Bounded'
  <2>1. CASE writer = "off"
    <3>1. Cardinality(buffers) <= Slots - 1 + Cardinality({r \in Readers : fetcher[r] = "putting"})
      BY <1>0, <1>1 DEF Bounded, Going
    <3>2. \A r \in Readers : fetcher[r] = "off" /\ fetcher'[r] = "new"
      BY <1>0, <1>1, <1>2, <2>1 DEF Scheduled
    <3>3. {r \in Readers : fetcher[r] = "putting"} = {r \in Readers : fetcher'[r] = "putting"}
      BY <3>2
    <3> QED
      BY <1>0, <1>1, <3>1, <3>3 DEF Bounded
  <2>2. CASE writer # "off"
    BY <1>0, <1>1, <1>2, <2>2 DEF Bounded, Going
  <2> QED
    BY <2>1, <2>2
<1>7. Scheduled'
  BY <1>0, <1>1, <1>2, <1>3 DEF Scheduled
<1>8. \A f \in Files : Opened(f)' <=> Opened(f)
  BY <1>1 DEF Opened
<1>9. fetching[1] \in Files /\ fetching[2] = progress[fetching[1]] /\ Opened(fetching[1])
      /\ writer # "written"
  BY <1>0, <1>1 DEF Attempted, Going, Opened, Scheduled
<1>10. Attempted'
  <2>1. \A f \in Files : Uncounted(f)' = Uncounted(f)
    BY <1>2, <1>9 DEF Uncounted
  <2>2. \A f \in Files : Opened(f)' => Len(disk'[f]) = progress'[f] + Uncounted(f)'
    BY <1>0, <1>1, <1>8, <2>1 DEF Attempted, Going
  <2>3. \A b \in buffers : b[1] \in Files /\ Opened(b[1])'
    BY <1>0, <1>1, <1>8 DEF Attempted, Going
  <2>4. ASSUME NEW r \in Readers, fetcher'[r] = "asking"
        PROVE  asked'[r][1] \in Files /\ Opened(asked[r][1])'
    <3>1. fetcher[r] = "asking"
      BY <1>2, <2>4
    <3>2. asked[r][1] \in Files /\ Opened(asked[r][1])
      BY <1>0, <1>1, <3>1 DEF Attempted, Going
    <3> QED
      BY <1>1, <1>8, <3>2
  <2> QED
    BY <1>1, <1>9, <2>2, <2>3, <2>4 DEF Attempted
<1>11. Ordered'
  <2>1. \A f \in Files : complete(f)' <=> complete(f)
    BY <1>1 DEF complete
  <2>2. CASE writer = "off"
    <3>1. \A f \in Files : f < fetching[1] => complete(f)
      BY <1>0, <1>1, <2>2 DEF Ordered, Going
    <3> QED
      BY <1>1, <1>2, <1>9, <2>1, <2>2, <3>1 DEF Ordered
  <2>3. CASE writer # "off"
    BY <1>0, <1>1, <1>2, <1>9, <2>1, <2>3 DEF Ordered, Going
  <2> QED
    BY <2>2, <2>3
<1> QED
  BY <1>4, <1>5, <1>6, <1>7, <1>10, <1>11 DEF IInv

LEMMA OpenedAllSafe ==
  ASSUME IInv, OpenedAll, served' = served
  PROVE  IInv'
<1>0. TypeOK /\ Grounded /\ Bounded /\ Scheduled /\ Attempted /\ Ordered
  BY DEF IInv
<1>1. /\ phase = "opening" /\ fetching = Over
      /\ UNCHANGED <<disk, copies, saved, progress, from, fetching, buffers, barrier, expected,
                     faults, asked, writer, ran>>
  BY DEF OpenedAll, durable, threads
<1>2. \/ writer = "off" /\ phase' = "finishing" /\ UNCHANGED <<fetcher, running>>
      \/ writer # "off" /\ phase' = "up" /\ fetcher' = [fetcher EXCEPT ![running] = "done"]
         /\ running' = NoOne
  BY DEF OpenedAll, threads
<1>3. fetching[1] = N + 1 /\ \A f \in Files : f \in Nat /\ f < fetching[1]
  BY <1>0, <1>1, Typed, Constants DEF Over
<1>4. writer \notin {"draining", "written"}
  BY <1>0, <1>1 DEF Scheduled
<1>5. TypeOK'
  BY <1>0, <1>1, <1>2 DEF TypeOK
<1>6. Grounded'
  BY <1>0, <1>1 DEF Grounded
<1>7. \A r \in Readers : /\ fetcher'[r] = "putting" <=> fetcher[r] = "putting"
                         /\ fetcher'[r] = "asking" <=> fetcher[r] = "asking"
  BY <1>0, <1>2 DEF TypeOK, Scheduled
<1>8. Bounded'
  <2>1. {r \in Readers : fetcher[r] = "putting"} = {r \in Readers : fetcher'[r] = "putting"}
    BY <1>7
  <2> QED
    BY <1>0, <1>1, <2>1 DEF Bounded, Going
<1>9. Scheduled'
  BY <1>0, <1>1, <1>2, <1>4, Constants DEF Scheduled
<1>10. \A f \in Files : Opened(f)' /\ Opened(f)
  BY <1>1, <1>3 DEF Opened
<1>11. Attempted'
  <2>1. \A f \in Files : Len(disk[f]) = progress[f] + Uncounted(f)' 
    BY <1>0, <1>1, <1>4, <1>10 DEF Attempted, Going, Uncounted
  <2>2. \A b \in buffers : b[1] \in Files /\ Opened(b[1])'
    BY <1>0, <1>1, <1>10 DEF Attempted, Going
  <2>3. \A r \in Readers : fetcher'[r] = "asking" => asked'[r][1] \in Files /\ Opened(asked[r][1])'
    BY <1>0, <1>1, <1>7, <1>10 DEF Attempted, Going
  <2> QED
    BY <1>1, <1>2, <2>1, <2>2, <2>3 DEF Attempted
<1>12. Ordered'
  <2>1. \A f \in Files : complete(f)' <=> complete(f)
    BY <1>1 DEF complete
  <2>2. writer = "off" => \A f \in Files : complete(f)
    BY <1>0, <1>1, <1>3 DEF Ordered, Going
  <2> QED
    BY <1>0, <1>1, <1>2, <1>4, <2>1, <2>2 DEF Ordered, Going
<1> QED
  BY <1>5, <1>6, <1>8, <1>9, <1>11, <1>12 DEF IInv

\* A fetcher resumes, ends or finds the end of its file: nothing is written.
LEMMA ResumeSafe ==
  ASSUME IInv, NEW r \in Readers, Resume(r) \/ Exit(r), served' = served
  PROVE  IInv'
<1>0. TypeOK /\ Grounded /\ Bounded /\ Scheduled /\ Attempted /\ Ordered
  BY DEF IInv
<1>1. /\ phase = "up" /\ phase' = "up"
      /\ UNCHANGED <<disk, copies, saved, progress, from, fetching, asked, buffers, barrier,
                     expected, writer, faults>>
  BY DEF Resume, Exit, Turn, Fetches, durable
<1>2. \/ /\ fetcher[r] = "new" \/ (fetcher[r] = "putting" /\ ~Full(buffers))
         /\ running = NoOne /\ running' = r /\ fetcher' = [fetcher EXCEPT ![r] = "running"]
      \/ /\ running = r /\ running' = NoOne /\ fetcher' = [fetcher EXCEPT ![r] = "done"]
         /\ fetcher[r] = "running"
  BY <1>0 DEF Resume, Exit, Turn, Fetches, Scheduled
<1>3. ran' \subseteq Readers
  BY <1>0 DEF Resume, Exit, Ran, TypeOK
<1>4. fetcher \in [Readers -> {"off", "new", "running", "asking", "putting", "done"}]
  BY <1>0 DEF TypeOK
<1>5. TypeOK'
  BY <1>0, <1>1, <1>2, <1>3, <1>4 DEF TypeOK
<1>6. Grounded'
  BY <1>0, <1>1 DEF Grounded
<1>7. Bounded'
  <2>1. CASE \A q \in Readers : fetcher'[q] = "putting" <=> fetcher[q] = "putting"
    <3>1. {q \in Readers : fetcher[q] = "putting"} = {q \in Readers : fetcher'[q] = "putting"}
      BY <2>1
    <3> QED
      BY <1>0, <1>1, <3>1 DEF Bounded, Going
  <2>2. CASE ~Full(buffers)
    <3>1. Cardinality(buffers) \in Nat /\ Cardinality(buffers) <= Slots - 1
      <4>1. IsFiniteSet(buffers)
        BY <1>0 DEF Bounded
      <4>2. Cardinality(buffers) \in Nat
        BY <4>1, FS_CardinalityType
      <4> QED
        BY <2>2, <4>2, Constants DEF Full
    <3>2. Cardinality({q \in Readers : fetcher'[q] = "putting"}) \in Nat
      BY Waiters
    <3> QED
      BY <1>0, <1>1, <3>1, <3>2, Constants DEF Bounded
  <2> QED
    BY <1>2, <1>4, <2>1, <2>2
<1>8. Scheduled'
  <2>1. writer \notin {"draining", "written"}
    BY <1>0, <1>2, Constants DEF Scheduled
  <2> QED
    BY <1>0, <1>1, <1>2, <1>4, <2>1, Constants DEF Scheduled
<1>9. \A f \in Files : Opened(f)' <=> Opened(f)
  BY <1>1 DEF Opened
<1>10. Attempted'
  <2>1. \A f \in Files : Opened(f)' => Len(disk'[f]) = progress'[f] + Uncounted(f)'
    <3>1. \A f \in Files : Opened(f)' => Len(disk[f]) = progress[f] + Uncounted(f)
      BY <1>0, <1>1, <1>9 DEF Attempted, Going
    <3>2. \A f : Uncounted(f)' = Uncounted(f)
      <4>1. writer # "written"
        BY <1>0, <1>2, Constants DEF Scheduled
      <4> QED
        BY <1>1, <4>1 DEF Uncounted
    <3> QED
      BY <1>1, <3>1, <3>2
  <2>2. \A b \in buffers : b[1] \in Files /\ Opened(b[1])'
    BY <1>0, <1>1, <1>9 DEF Attempted, Going
  <2>3. ASSUME NEW q \in Readers, fetcher'[q] = "asking"
        PROVE  asked'[q][1] \in Files /\ Opened(asked[q][1])'
    <3>1. fetcher[q] = "asking"
      BY <1>2, <1>4, <2>3
    <3>2. asked[q][1] \in Files /\ Opened(asked[q][1])
      BY <1>0, <1>1, <3>1 DEF Attempted, Going
    <3> QED
      BY <1>1, <1>9, <3>2
  <2>4. fetching[1] \in Files \/ fetching = Over
    BY <1>0, <1>1 DEF Attempted, Going
  <2> QED
    BY <1>1, <2>1, <2>2, <2>3, <2>4 DEF Attempted
<1>11. Ordered'
  <2>1. \A f \in Files : complete(f)' <=> complete(f)
    BY <1>1 DEF complete
  <2>2. Opened(expected[1])' <=> Opened(expected[1])
    BY <1>1 DEF Opened
  <2> QED
    BY <1>0, <1>1, <2>1, <2>2 DEF Ordered
<1> QED
  BY <1>5, <1>6, <1>7, <1>8, <1>10, <1>11 DEF IInv

LEMMA NextFileSafe ==
  ASSUME IInv, NEW r \in Readers, NextFile(r), served' = served
  PROVE  IInv'
<1>0. TypeOK /\ Grounded /\ Bounded /\ Scheduled /\ Attempted /\ Ordered
  BY DEF IInv
<1>1. /\ phase = "up" /\ phase' = "opening" /\ running = r /\ fetching # Over
      /\ fetching' = <<fetching[1] + 1, 0>>
      /\ UNCHANGED <<disk, copies, saved, progress, from, asked, buffers, barrier, fetcher, running,
                     ran, expected, writer, faults>>
  BY DEF NextFile, Fetches, durable, threads
<1>2. /\ fetching[1] \in Files /\ fetching[1] \in Nat
      /\ fetching'[1] = fetching[1] + 1
      /\ fetching'[1] \in Files \/ fetching' = Over
  BY <1>0, <1>1, Typed, Constants DEF Attempted, Going, Over
<1>3. writer \notin {"draining", "written", "off"}
  BY <1>0, <1>1, Constants DEF Scheduled
<1>4. \A f \in Files : Opened(f)' <=> Opened(f)
  <2>1. \A f \in Files : f \in Nat
    BY <1>0, Typed
  <2>2. ASSUME NEW f \in Files PROVE f < fetching[1] + 1 <=> f < fetching[1] \/ f = fetching[1]
    BY <1>2, <2>1
  <2>3. ASSUME NEW f \in Files PROVE Opened(f)' <=> f < fetching[1] + 1
    BY <1>1, <1>2 DEF Opened
  <2>4. ASSUME NEW f \in Files PROVE Opened(f) <=> f < fetching[1] \/ f = fetching[1]
    BY <1>1 DEF Opened
  <2> QED
    BY <2>2, <2>3, <2>4, Zenon
<1>5. TypeOK'
  <2>1. fetching' \in Nat \X Nat
    BY <1>1, <1>2
  <2> QED
    BY <1>0, <1>1, <2>1 DEF TypeOK
<1>6. Grounded'
  BY <1>0, <1>1 DEF Grounded
<1>7. Bounded'
  BY <1>0, <1>1 DEF Bounded, Going
<1>8. Scheduled'
  BY <1>0, <1>1, <1>3 DEF Scheduled
<1>9. Attempted'
  <2>1. \A f \in Files : Opened(f)' => Len(disk'[f]) = progress'[f] + Uncounted(f)'
    <3>1. \A f \in Files : Opened(f)' => Len(disk[f]) = progress[f] + Uncounted(f)
      BY <1>0, <1>1, <1>4 DEF Attempted, Going
    <3>2. \A f : Uncounted(f)' = Uncounted(f)
      BY <1>1, <1>3 DEF Uncounted
    <3> QED
      BY <1>1, <3>1, <3>2
  <2>2. \A b \in buffers : b[1] \in Files /\ Opened(b[1])'
    BY <1>0, <1>1, <1>4 DEF Attempted, Going
  <2>3. \A q \in Readers : fetcher'[q] = "asking" => asked'[q][1] \in Files /\ Opened(asked[q][1])'
    BY <1>0, <1>1, <1>4 DEF Attempted, Going
  <2> QED
    BY <1>1, <1>2, <2>1, <2>2, <2>3 DEF Attempted
<1>10. Ordered'
  <2>1. \A f \in Files : complete(f)' <=> complete(f)
    BY <1>1 DEF complete
  <2> QED
    BY <1>0, <1>1, <1>3, <2>1 DEF Ordered, Going
<1> QED
  BY <1>5, <1>6, <1>7, <1>8, <1>9, <1>10 DEF IInv

LEMMA AskSafe ==
  ASSUME IInv, NEW r \in Readers, Ask(r), served' = served
  PROVE  IInv'
<1>0. TypeOK /\ Grounded /\ Bounded /\ Scheduled /\ Attempted /\ Ordered
  BY DEF IInv
<1>1. /\ phase = "up" /\ phase' = "up" /\ running = r /\ running' = NoOne /\ fetching # Over
      /\ fetching' = <<fetching[1], fetching[2] + Chunk>>
      /\ asked' = [asked EXCEPT ![r] = fetching]
      /\ fetcher' = [fetcher EXCEPT ![r] = "asking"]
      /\ UNCHANGED <<disk, copies, saved, progress, from, buffers, barrier, ran, expected, writer,
                     faults>>
  BY DEF Ask, Fetches, durable
<1>2. fetching[1] \in Files /\ fetching'[1] = fetching[1]
  BY <1>0, <1>1 DEF Attempted, Going
<1>3. writer \notin {"draining", "written"} /\ fetcher[r] = "running"
  BY <1>0, <1>1, Constants DEF Scheduled
<1>4. \A f \in Files : Opened(f)' <=> Opened(f)
  BY <1>1, <1>2 DEF Opened
<1>5. /\ fetcher \in [Readers -> {"off", "new", "running", "asking", "putting", "done"}]
      /\ asked \in [Readers -> Nat \X Nat]
  BY <1>0 DEF TypeOK
<1>6. TypeOK'
  <2>1. fetching' \in Nat \X Nat
    BY <1>0, <1>1, Typed, Constants
  <2>2. asked' \in [Readers -> Nat \X Nat]
    BY <1>0, <1>1, <1>5 DEF TypeOK
  <2> QED
    BY <1>0, <1>1, <2>1, <2>2 DEF TypeOK
<1>7. Grounded'
  BY <1>0, <1>1 DEF Grounded
<1>8. Bounded'
  <2>1. {q \in Readers : fetcher[q] = "putting"} = {q \in Readers : fetcher'[q] = "putting"}
    BY <1>1, <1>3, <1>5
  <2> QED
    BY <1>0, <1>1, <2>1 DEF Bounded, Going
<1>9. Scheduled'
  BY <1>0, <1>1, <1>3, <1>5, Constants DEF Scheduled
<1>10. Attempted'
  <2>1. \A f \in Files : Opened(f)' => Len(disk'[f]) = progress'[f] + Uncounted(f)'
    <3>1. \A f \in Files : Opened(f)' => Len(disk[f]) = progress[f] + Uncounted(f)
      BY <1>0, <1>1, <1>4 DEF Attempted, Going
    <3>2. \A f : Uncounted(f)' = Uncounted(f)
      BY <1>1, <1>3 DEF Uncounted
    <3> QED
      BY <1>1, <3>1, <3>2
  <2>2. \A b \in buffers : b[1] \in Files /\ Opened(b[1])'
    BY <1>0, <1>1, <1>4 DEF Attempted, Going
  <2>3. ASSUME NEW q \in Readers, fetcher'[q] = "asking"
        PROVE  asked'[q][1] \in Files /\ Opened(asked[q][1])'
    <3>1. CASE q = r
      <4>1. asked'[q] = fetching
        BY <1>1, <1>5, <3>1
      <4>2. Opened(fetching[1])
        BY <1>1 DEF Opened
      <4>3. \A f : f = fetching[1] => Opened(f)'
        BY <1>1, <1>2 DEF Opened
      <4> QED
        BY <1>2, <4>1, <4>3
    <3>2. CASE q # r
      <4>1. asked'[q] = asked[q] /\ fetcher[q] = "asking"
        BY <1>1, <1>5, <2>3, <3>2
      <4>2. asked[q][1] \in Files /\ Opened(asked[q][1])
        BY <1>0, <1>1, <4>1 DEF Attempted, Going
      <4> QED
        BY <1>4, <4>1, <4>2
    <3> QED
      BY <3>1, <3>2
  <2> QED
    BY <1>1, <1>2, <2>1, <2>2, <2>3 DEF Attempted
<1>11. Ordered'
  <2>1. \A f \in Files : complete(f)' <=> complete(f)
    BY <1>1 DEF complete
  <2> QED
    BY <1>0, <1>1, <1>3, <2>1 DEF Ordered, Going
<1> QED
  BY <1>6, <1>7, <1>8, <1>9, <1>10, <1>11 DEF IInv

\* An answer is queued, and its fetcher waits when that fills the queue.
LEMMA AnswerSafe ==
  ASSUME IInv, NEW r \in Readers, Answer(r), served' = served
  PROVE  IInv'
<1>0. TypeOK /\ Grounded /\ Bounded /\ Scheduled /\ Attempted /\ Ordered
  BY DEF IInv
<1>1. /\ phase = "up" /\ phase' = "up" /\ running = NoOne /\ fetcher[r] = "asking"
      /\ barrier' = (barrier \/ asked[r] = expected)
      /\ buffers' = buffers \union {asked[r]}
      /\ asked' = [asked EXCEPT ![r] = NoBlock]
      /\ \/ Full(buffers)' /\ fetcher' = [fetcher EXCEPT ![r] = "putting"] /\ running' = NoOne
         \/ ~Full(buffers)' /\ fetcher' = [fetcher EXCEPT ![r] = "running"] /\ running' = r
      /\ UNCHANGED <<disk, copies, saved, progress, from, fetching, expected, writer, faults>>
  <2>1. Answered(r) /\ Put(r)
    BY DEF Answer
  <2> QED
    BY <2>1 DEF Answer, Answered, Turn, Put, durable
<1>2. ran' \subseteq Readers
  BY <1>0 DEF Answer, Ran, TypeOK
<1>3. /\ fetcher \in [Readers -> {"off", "new", "running", "asking", "putting", "done"}]
      /\ asked \in [Readers -> Nat \X Nat]
      /\ writer \notin {"draining", "written"}
  BY <1>0, <1>1, Constants DEF TypeOK, Scheduled
<1>4. \A f \in Files : Opened(f)' <=> Opened(f)
  BY <1>1 DEF Opened
<1>5. TypeOK'
  <2>1. asked' \in [Readers -> Nat \X Nat] /\ buffers' \subseteq Nat \X Nat
    BY <1>0, <1>1, <1>3 DEF TypeOK, NoBlock
  <2>2. /\ fetcher' \in [Readers -> {"off", "new", "running", "asking", "putting", "done"}]
        /\ running' \in Readers \union {"writer", NoOne}
    BY <1>1, <1>3
  <2>3. barrier' \in BOOLEAN
    BY <1>0, <1>1 DEF TypeOK
  <2> QED
    BY <1>0, <1>1, <1>2, <2>1, <2>2, <2>3 DEF TypeOK
<1>6. Grounded'
  BY <1>0, <1>1 DEF Grounded
<1>7. Bounded'
  <2> DEFINE P == {q \in Readers : fetcher[q] = "putting"}
             Q == {q \in Readers : fetcher'[q] = "putting"}
  <2>1. /\ IsFiniteSet(buffers) /\ Cardinality(buffers) \in Nat
        /\ Cardinality(buffers) <= Slots - 1 + Cardinality(P)
    BY <1>0, <1>1, FS_CardinalityType DEF Bounded, Going
  <2>2. /\ IsFiniteSet(buffers') /\ Cardinality(buffers') \in Nat
        /\ Cardinality(buffers') <= Cardinality(buffers) + 1
    <3>1. /\ IsFiniteSet(buffers \union {asked[r]})
          /\ Cardinality(buffers \union {asked[r]}) =
               IF asked[r] \in buffers THEN Cardinality(buffers) ELSE Cardinality(buffers) + 1
      BY <2>1, FS_AddElement
    <3> QED
      BY <1>1, <2>1, <3>1
  <2>3. /\ IsFiniteSet(P) /\ Cardinality(P) \in Nat
        /\ Cardinality(Q) \in Nat /\ Cardinality(Q) <= Cardinality(Readers)
    BY Waiters
  <2>4. CASE Full(buffers)' /\ fetcher' = [fetcher EXCEPT ![r] = "putting"]
    <3>1. Q = P \union {r} /\ r \notin P
      BY <1>1, <1>3, <2>4
    <3> HIDE DEF P, Q
    <3>2. Cardinality(Q) = Cardinality(P) + 1
      BY <2>3, <3>1, FS_AddElement
    <3>3. Cardinality(buffers') <= Slots - 1 + Cardinality(Q)
      BY <2>1, <2>2, <2>3, <3>2, Constants
    <3>4. Cardinality(buffers') <= Slots - 1 + Cardinality(Readers)
      BY <2>2, <2>3, <3>3, Constants
    <3> QED
      BY <2>2, <3>3, <3>4 DEF Bounded, Q
  <2>5. CASE ~Full(buffers)'
    <3>1. Cardinality(buffers') <= Slots - 1
      BY <2>2, <2>5, Constants DEF Full
    <3> HIDE DEF P, Q
    <3>2. /\ Cardinality(buffers') <= Slots - 1 + Cardinality(Q)
          /\ Cardinality(buffers') <= Slots - 1 + Cardinality(Readers)
      BY <2>2, <2>3, <3>1, Constants
    <3> QED
      BY <2>2, <3>2 DEF Bounded, Q
  <2> QED
    BY <1>1, <2>4, <2>5
<1>8. Scheduled'
  BY <1>0, <1>1, <1>3, Constants DEF Scheduled
<1>9. Attempted'
  <2>1. \A f \in Files : Opened(f)' => Len(disk'[f]) = progress'[f] + Uncounted(f)'
    <3>1. \A f \in Files : Opened(f)' => Len(disk[f]) = progress[f] + Uncounted(f)
      BY <1>0, <1>1, <1>4 DEF Attempted, Going
    <3>2. \A f : Uncounted(f)' = Uncounted(f)
      BY <1>1, <1>3 DEF Uncounted
    <3> QED
      BY <1>1, <3>1, <3>2
  <2>2. asked[r][1] \in Files /\ Opened(asked[r][1])
    BY <1>0, <1>1 DEF Attempted, Going
  <2>3. ASSUME NEW b \in buffers \union {asked[r]} PROVE b[1] \in Files /\ Opened(b[1])'
    <3>1. b[1] \in Files /\ Opened(b[1])
      BY <1>0, <1>1, <2>2 DEF Attempted, Going
    <3> QED
      BY <1>4, <3>1
  <2>4. ASSUME NEW q \in Readers, fetcher'[q] = "asking"
        PROVE  asked'[q][1] \in Files /\ Opened(asked[q][1])'
    <3>1. q # r /\ fetcher[q] = "asking" /\ asked'[q] = asked[q]
      BY <1>1, <1>3, <2>4
    <3>2. asked[q][1] \in Files /\ Opened(asked[q][1])
      BY <1>0, <1>1, <3>1 DEF Attempted, Going
    <3> QED
      BY <1>4, <3>1, <3>2
  <2>5. fetching[1] \in Files \/ fetching = Over
    BY <1>0, <1>1 DEF Attempted, Going
  <2> QED
    BY <1>1, <2>1, <2>3, <2>4, <2>5 DEF Attempted
<1>10. Ordered'
  <2>1. \A f \in Files : complete(f)' <=> complete(f)
    BY <1>1 DEF complete
  <2> QED
    BY <1>0, <1>1, <1>3, <2>1 DEF Ordered, Going
<1> QED
  BY <1>5, <1>6, <1>7, <1>8, <1>9, <1>10 DEF IInv

\* The disk coroutine is woken.
LEMMA WakeSafe ==
  ASSUME IInv, Wake, served' = served
  PROVE  IInv'
<1>0. TypeOK /\ Grounded /\ Bounded /\ Scheduled /\ Attempted /\ Ordered
  BY DEF IInv
<1>1. /\ phase = "up" /\ writer = "waiting" /\ buffers # {}
      /\ ran' = {} /\ running' = "writer" /\ writer' = "draining"
      /\ UNCHANGED <<disk, copies, saved, progress, phase, from, fetching, fetcher, asked, buffers,
                     barrier, expected, faults>>
  BY DEF Wake, WriterReady, durable
<1>2. TypeOK'
  BY <1>0, <1>1 DEF TypeOK
<1>3. Grounded' /\ Bounded'
  BY <1>0, <1>1 DEF Grounded, Bounded
<1>4. Scheduled'
  BY <1>0, <1>1, Constants DEF Scheduled
<1>5. Attempted'
  <2>1. \A f : (Opened(f)' <=> Opened(f)) /\ Uncounted(f)' = Uncounted(f)
    BY <1>1 DEF Opened, Uncounted
  <2>2. \A q \in Readers : Opened(asked[q][1])' <=> Opened(asked[q][1])
    BY <1>1 DEF Opened
  <2> QED
    BY <1>0, <1>1, <2>1, <2>2 DEF Attempted
<1>6. Ordered'
  <2>1. \A f \in Files : complete(f)' <=> complete(f)
    BY <1>1 DEF complete
  <2> QED
    BY <1>0, <1>1, <2>1 DEF Ordered
<1> QED
  BY <1>2, <1>3, <1>4, <1>5, <1>6 DEF IInv

\* The blocks of the files that are open, where the disk has what was counted.
LEMMA Drained ==
  ASSUME TypeOK, Grounded, Scheduled, Attempted, Ordered, writer = "draining",
         top(buffers) = expected
  PROVE  /\ phase = "up" /\ running = "writer"
         /\ expected[1] \in Files /\ expected \in buffers /\ Opened(expected[1])
         /\ expected[2] = progress[expected[1]] /\ Len(disk[expected[1]]) = expected[2]
<1>1. phase = "up" /\ running = "writer" /\ buffers # {}
  BY DEF Scheduled
<1>2. expected \in buffers
  BY <1>1, TopIn DEF TypeOK
<1>3. expected[1] \in Files /\ Opened(expected[1])
  BY <1>1, <1>2 DEF Attempted, Going
<1>4. expected[2] = progress[expected[1]]
  BY DEF Ordered
<1>5. Len(disk[expected[1]]) = progress[expected[1]] + Uncounted(expected[1])
  BY <1>1, <1>3 DEF Attempted, Going
<1>6. Uncounted(expected[1]) = 0 /\ expected[2] \in Nat
  BY Typed DEF Uncounted
<1> QED
  BY <1>1, <1>2, <1>3, <1>4, <1>5, <1>6

\* Any first part of the block that comes next leaves the disk as it should be.
LEMMA WritePart ==
  ASSUME TypeOK, Grounded, Scheduled, Attempted, Ordered, writer = "draining",
         top(buffers) = expected, NEW n \in Nat, n <= Len(Block(expected))
  PROVE  LET f == expected[1]
             d == disk[f] \o SubSeq(Block(expected), 1, n)
         IN  /\ d \in Seq(Files \X (Nat \ {0})) /\ Len(d) = Len(disk[f]) + n
             /\ \A i \in 1..Len(d) : d[i] = <<f, i>>
             /\ Len(d) <= Sizes[f]
<1> DEFINE f == expected[1]
           u == SubSeq(Block(expected), 1, n)
           d == disk[f] \o u
<1>1. f \in Files /\ expected[2] \in Nat /\ Len(disk[f]) = expected[2]
  BY Drained, Typed
<1>2. served \in [Files -> Nat] /\ served[f] \in Nat /\ served[f] <= Sizes[f] /\ Sizes[f] \in Nat
  BY <1>1, Typed
<1>3. /\ Block(expected) \in Seq(Files \X (Nat \ {0})) /\ Len(Block(expected)) \in Nat
      /\ expected[2] <= served[f] => expected[2] + Len(Block(expected)) <= served[f]
      /\ expected[2] > served[f] => Len(Block(expected)) = 0
      /\ expected[2] <= served[f] => \A i \in 1..Len(Block(expected)) : Block(expected)[i] = <<f, expected[2] + i>>
  BY <1>1, <1>2, BlockUnits
<1>4. /\ u \in Seq(Files \X (Nat \ {0})) /\ Len(u) = n
      /\ \A i \in 1..n : u[i] = Block(expected)[i]
  BY <1>3, Cut
<1> HIDE DEF u, f
<1>5. \A i \in 1..Len(u) : u[i] = <<f, Len(disk[f]) + i>>
  <2>1. CASE expected[2] <= served[f]
    <3>1. \A i \in 1..n : i \in 1..Len(Block(expected))
      BY <1>3
    <3> QED
      BY <1>1, <1>3, <1>4, <2>1, <3>1
  <2>2. CASE expected[2] > served[f]
    BY <1>3, <1>4, <2>2
  <2> QED
    BY <1>1, <1>2, <2>1, <2>2
<1>6. disk[f] \in Seq(Files \X (Nat \ {0})) /\ \A i \in 1..Len(disk[f]) : disk[f][i] = <<f, i>>
  BY <1>1, Typed DEF Grounded
<1>7. /\ d \in Seq(Files \X (Nat \ {0})) /\ Len(d) = Len(disk[f]) + Len(u)
      /\ \A i \in 1..Len(d) : d[i] = <<f, i>>
  BY <1>1, <1>4, <1>5, <1>6, Appended
<1>8. Len(disk[f]) <= Sizes[f]
  BY <1>1 DEF Grounded
<1>9. Len(disk[f]) + n <= Sizes[f]
  BY SMTT(30), <1>1, <1>2, <1>3, <1>8
<1> QED
  BY <1>4, <1>7, <1>9 DEF f, u

\* The disk after such a part was written.
LEMMA PartOnDisk ==
  ASSUME TypeOK, Grounded, NEW f \in Files, NEW d \in Seq(Files \X (Nat \ {0})),
         \A i \in 1..Len(d) : d[i] = <<f, i>>, Len(d) <= Sizes[f], Len(disk[f]) <= Len(d),
         disk' = [disk EXCEPT ![f] = d]
  PROVE  /\ disk' \in [Files -> Seq(Files \X (Nat \ {0}))]
         /\ \A g \in Files : /\ \A i \in 1..Len(disk'[g]) : disk'[g][i] = <<g, i>>
                             /\ Len(disk'[g]) <= Sizes[g]
                             /\ progress[g] <= Len(disk'[g])
         /\ disk'[f] = d /\ \A g \in Files \ {f} : disk'[g] = disk[g]
<1>1. disk'[f] = d /\ \A g \in Files \ {f} : disk'[g] = disk[g]
  BY DEF TypeOK
<1>2. disk' \in [Files -> Seq(Files \X (Nat \ {0}))]
  BY DEF TypeOK
<1>3. progress[f] <= Len(d)
  <2>1. progress[f] <= Len(disk[f]) /\ progress[f] \in Int /\ Len(disk[f]) \in Nat /\ Len(d) \in Nat
    BY Typed, LenProperties DEF Grounded, NotInSnapshot
  <2> QED
    BY <2>1
<1>4. ASSUME NEW g \in Files
      PROVE  /\ \A i \in 1..Len(disk'[g]) : disk'[g][i] = <<g, i>>
             /\ Len(disk'[g]) <= Sizes[g]
             /\ progress[g] <= Len(disk'[g])
  <2>1. CASE g = f
    BY <1>1, <1>3, <2>1
  <2>2. CASE g # f
    BY <1>1, <2>2 DEF Grounded
  <2> QED
    BY <2>1, <2>2
<1> QED
  BY <1>1, <1>2, <1>4

LEMMA WriteBlockSafe ==
  ASSUME IInv, WriteBlock, served' = served
  PROVE  IInv'
<1>0. TypeOK /\ Grounded /\ Bounded /\ Scheduled /\ Attempted /\ Ordered
  BY DEF IInv
<1>1. writer = "draining" /\ phase = "up" /\ faults' = faults
  BY DEF WriteBlock
<1>2. CASE Leave("failed") /\ UNCHANGED <<durable, progress>>
  <2>1. Grounded' /\ {saved', progress'} \subseteq [Files -> Nat \union {NotInSnapshot}]
        /\ (\A g \in Files : progress'[g] <= Sizes[g])
        /\ disk' \in [Files -> Seq(Files \X (Nat \ {0}))] /\ copies' \in [Files -> Nat]
        /\ faults' \in 0..MaxFaults
    BY <1>0, <1>1, <1>2 DEF Grounded, durable, TypeOK
  <2> QED
    BY <1>2, <2>1, LeaveSafe
<1>3. CASE /\ top(buffers) = expected
           /\ AppendTo(expected[1], Block(expected))
           /\ buffers' = buffers \ {expected}
           /\ writer' = "written"
           /\ UNCHANGED <<copies, saved, progress, phase, from, fetching, fetcher, asked, running,
                          ran, barrier, expected>>
  <2> DEFINE f == expected[1]
             b == Block(expected)
             n == Len(b)
             d == disk[f] \o b
  <2>1. /\ running = "writer" /\ f \in Files /\ expected \in buffers /\ Opened(f)
        /\ expected[2] = progress[f] /\ Len(disk[f]) = expected[2]
    BY <1>0, <1>1, <1>3, Drained
  <2>2. n \in Nat /\ SubSeq(b, 1, n) = b
    <3>1. served \in [Files -> Nat] /\ expected[2] \in Nat
      BY <1>0, Typed
    <3>2. b \in Seq(Files \X (Nat \ {0})) /\ n \in Nat
      BY <2>1, <3>1, BlockUnits
    <3> HIDE DEF b
    <3> QED
      BY <3>2, SubSeqFull
  <2>3. /\ d \in Seq(Files \X (Nat \ {0})) /\ Len(d) = Len(disk[f]) + n
        /\ \A i \in 1..Len(d) : d[i] = <<f, i>>
        /\ Len(d) <= Sizes[f]
    <3>1. n <= Len(Block(expected))
      BY <2>2
    <3>2. LET e == disk[f] \o SubSeq(Block(expected), 1, n)
          IN  /\ e \in Seq(Files \X (Nat \ {0})) /\ Len(e) = Len(disk[f]) + n
              /\ \A i \in 1..Len(e) : e[i] = <<f, i>>
              /\ Len(e) <= Sizes[f]
      BY <1>0, <1>1, <1>3, <2>2, <3>1, WritePart
    <3> QED
      BY <2>2, <3>2
  <2>4. disk' = [disk EXCEPT ![f] = d]
    BY <1>3 DEF AppendTo
  <2>5. Len(disk[f]) \in Nat /\ Len(disk[f]) <= Len(d)
    BY <1>0, <2>1, <2>2, <2>3, Typed
  <2> HIDE DEF d, n
  <2>6. /\ disk' \in [Files -> Seq(Files \X (Nat \ {0}))]
        /\ \A g \in Files : /\ \A i \in 1..Len(disk'[g]) : disk'[g][i] = <<g, i>>
                            /\ Len(disk'[g]) <= Sizes[g]
                            /\ progress[g] <= Len(disk'[g])
        /\ disk'[f] = d /\ \A g \in Files \ {f} : disk'[g] = disk[g]
    <3> HIDE DEF f
    <3>1. f \in Files
      BY <2>1
    <3> QED
      BY <1>0, <2>3, <2>4, <2>5, <3>1, PartOnDisk
  <2>7. TypeOK'
    BY <1>0, <1>1, <1>3, <2>6 DEF TypeOK
  <2>8. Grounded'
    BY <1>0, <1>3, <2>6 DEF Grounded
  <2>9. Bounded'
    <3>1. IsFiniteSet(buffers) /\ Cardinality(buffers) \in Nat
      BY <1>0, FS_CardinalityType DEF Bounded
    <3>2. IsFiniteSet(buffers') /\ Cardinality(buffers') = Cardinality(buffers) - 1
      BY <1>3, <2>1, <3>1, FS_RemoveElement
    <3>3. Cardinality({r \in Readers : fetcher[r] = "putting"}) \in Nat
      BY Waiters
    <3>4. Cardinality(buffers') <= Slots - 1 + Cardinality(Readers)
      BY <1>0, <3>1, <3>2, Constants DEF Bounded
    <3>5. Cardinality(buffers') <= Slots - 1 + Cardinality({r \in Readers : fetcher[r] = "putting"})
      BY <1>0, <1>1, <3>1, <3>2, <3>3, Constants DEF Bounded, Going
    <3> QED
      BY <1>3, <3>2, <3>4, <3>5 DEF Bounded
  <2>10. Scheduled'
    BY <1>0, <1>1, <1>3, <2>1, Constants DEF Scheduled
  <2>11. \A g \in Files : Opened(g)' <=> Opened(g)
    BY <1>3 DEF Opened
  <2>12. Attempted'
    <3>1. ASSUME NEW g \in Files, Opened(g)' PROVE Len(disk'[g]) = progress'[g] + Uncounted(g)'
      <4>1. CASE g = f
        <5>1. Uncounted(g)' = n
          BY <1>3, <4>1 DEF Uncounted, n, Block
        <5> QED
          BY <1>3, <2>1, <2>3, <2>6, <4>1, <5>1
      <4>2. CASE g # f
        <5>1. Uncounted(g)' = 0 /\ Uncounted(g) = 0
          BY <1>1, <1>3, <4>2 DEF Uncounted
        <5>2. Len(disk[g]) = progress[g] + Uncounted(g)
          BY <1>0, <1>1, <2>11, <3>1 DEF Attempted, Going
        <5> QED
          BY <1>3, <2>6, <4>2, <5>1, <5>2
      <4> QED
        BY <4>1, <4>2
    <3>2. \A c \in buffers' : c[1] \in Files /\ Opened(c[1])'
      BY <1>0, <1>1, <1>3, <2>11 DEF Attempted, Going
    <3>3. \A r \in Readers : fetcher'[r] = "asking" => asked'[r][1] \in Files /\ Opened(asked[r][1])'
      BY <1>0, <1>1, <1>3, <2>11 DEF Attempted, Going
    <3>4. fetching[1] \in Files \/ fetching = Over
      BY <1>0, <1>1 DEF Attempted, Going
    <3> QED
      BY <1>1, <1>3, <3>1, <3>2, <3>3, <3>4 DEF Attempted
  <2>13. Ordered'
    <3>1. \A g \in Files : complete(g)' <=> complete(g)
      BY <1>3 DEF complete
    <3>2. Opened(expected[1])'
      BY <1>3, <2>1, <2>11
    <3> QED
      BY <1>0, <1>1, <1>3, <2>1, <3>1, <3>2 DEF Ordered, Going
  <2> QED
    BY <2>7, <2>8, <2>9, <2>10, <2>12, <2>13 DEF IInv
<1> QED
  BY <1>2, <1>3 DEF WriteBlock

\* The file that comes next is the first that is not whole.
LEMMA NextFileExpected ==
  ASSUME NEW f \in Files, NEW p
  PROVE  LET g == NextExpected(f, p) IN
           \/ g = N + 1 /\ \A h \in Files : h > f => p[h] = Sizes[h]
           \/ g \in Files /\ g > f /\ \A h \in Files : h > f /\ h < g => p[h] = Sizes[h]
<1> DEFINE left == {g \in (f + 1)..N : p[g] # Sizes[g]}
<1>1. f \in Nat /\ N \in Nat /\ Files = 1..N
  BY Constants
<1>2. CASE left = {}
  <2>1. \A h \in Files : h > f => h \in (f + 1)..N
    BY <1>1
  <2>2. NextExpected(f, p) = N + 1
    BY <1>2 DEF NextExpected
  <2> QED
    BY <1>2, <2>1, <2>2
<1>3. CASE left # {}
  <2> DEFINE m == CHOOSE g \in left : \A h \in left : g <= h
  <2>1. left \subseteq Nat
    BY <1>1
  <2>2. \E g \in left : \A h \in left : g <= h
    <3> HIDE DEF left
    <3> QED
      BY <1>3, <2>1, Least
  <2>3. m \in left /\ \A h \in left : m <= h
    <3> HIDE DEF left
    <3> QED
      BY <2>2, Zenon
  <2>4. NextExpected(f, p) = m
    BY <1>3 DEF NextExpected
  <2> HIDE DEF m
  <2>5. m \in Files /\ m > f
    BY <1>1, <2>3
  <2>6. ASSUME NEW h \in Files, h > f, h < m PROVE p[h] = Sizes[h]
    <3>1. h \in (f + 1)..N /\ ~(m <= h)
      BY <1>1, <2>5, <2>6
    <3> QED
      BY <2>3, <3>1
  <2> QED
    BY <2>4, <2>5, <2>6
<1> QED
  BY <1>2, <1>3

\* The disk coroutine counts the block it wrote.
LEMMA SaveBlockSafe ==
  ASSUME IInv, SaveBlock, served' = served
  PROVE  IInv'
<1> DEFINE f == expected[1]
           n == Len(Block(expected))
           p == [progress EXCEPT ![f] = @ + n]
           g == NextExpected(f, p)
<1>0. TypeOK /\ Grounded /\ Bounded /\ Scheduled /\ Attempted /\ Ordered
  BY DEF IInv
<1>1. /\ writer = "written" /\ phase = "up" /\ running = "writer" /\ Opened(f)
      /\ progress' = p /\ UNCHANGED <<disk, copies, faults>>
  BY <1>0 DEF SaveBlock, Scheduled, Ordered
<1>2. /\ f \in Files /\ expected[2] = progress[f] /\ expected[2] \in Nat
      /\ \A h \in Files : h < f => complete(h)
  BY <1>0, <1>1, Typed DEF Ordered, Going
<1>3. n \in Nat
  <2>1. served \in [Files -> Nat]
    BY <1>0, Typed
  <2> QED
    BY <1>2, <2>1, BlockUnits
<1>4. Len(disk[f]) = progress[f] + n
  BY <1>0, <1>1, <1>2 DEF Attempted, Going, Uncounted
<1> HIDE DEF n, f
<1>5. /\ p \in [Files -> Nat \union {NotInSnapshot}] /\ p[f] = Len(disk[f]) /\ p[f] \in Nat
      /\ p[f] <= Sizes[f] /\ progress[f] <= p[f]
      /\ \A h \in Files \ {f} : p[h] = progress[h]
  <2>1. progress \in [Files -> Nat \union {NotInSnapshot}]
    BY <1>0, Typed
  <2>2. progress[f] + n \in Nat
    BY <1>2, <1>3
  <2>3. Len(disk[f]) <= Sizes[f]
    BY <1>0, <1>2 DEF Grounded
  <2> QED
    BY <1>2, <1>3, <1>4, <2>1, <2>2, <2>3
<1> HIDE DEF p
<1>6. \A h \in Files : p[h] <= Sizes[h] /\ p[h] <= Len(disk[h]) /\ p[h] \in Int
                       /\ (progress[h] # NotInSnapshot => p[h] # NotInSnapshot)
                       /\ (p[h] = NotInSnapshot => progress[h] = NotInSnapshot)
  <2>1. Len(disk[f]) \in Nat
    BY <1>0, <1>2, Typed
  <2>2. \A h \in Files : progress[h] <= Sizes[h] /\ progress[h] <= Len(disk[h])
                         /\ progress[h] \in Nat \union {NotInSnapshot}
    BY <1>0, Typed DEF TypeOK, Grounded
  <2>3. progress[f] \in Nat
    BY <1>2
  <2>4. p[f] <= Sizes[f] /\ p[f] <= Len(disk[f]) /\ p[f] \in Int /\ p[f] # NotInSnapshot
    BY <1>5, <2>1 DEF NotInSnapshot
  <2> QED
    BY <1>5, <2>2, <2>4 DEF NotInSnapshot
<1>7. Nothing \in [Files -> Nat \union {NotInSnapshot}] /\ \A h \in Files : Nothing[h] <= p[h]
  BY <1>5 DEF Nothing, NotInSnapshot
<1>8. ASSUME saved' \in [Files -> Nat \union {NotInSnapshot}], \A h \in Files : saved'[h] <= p[h]
      PROVE  Grounded' /\ {saved', progress'} \subseteq [Files -> Nat \union {NotInSnapshot}]
             /\ (\A h \in Files : progress'[h] <= Sizes[h])
             /\ disk' \in [Files -> Seq(Files \X (Nat \ {0}))] /\ copies' \in [Files -> Nat]
             /\ faults' \in 0..MaxFaults
  <2>1. Grounded'
    BY <1>0, <1>1, <1>6, <1>8 DEF Grounded
  <2> QED
    BY <1>0, <1>1, <1>5, <1>6, <1>8, <2>1 DEF TypeOK
<1>9. \A h \in Files : h < f => p[h] = Sizes[h]
  BY <1>2, <1>5 DEF complete
<1>10. ASSUME Leave("canceled") \/ Throw, saved' = Nothing \/ saved' = p
       PROVE  IInv'
  <2>1. PICK q \in {"down", "failed", "canceled"} : Leave(q)
    BY <1>10 DEF Throw
  <2>2. saved' \in [Files -> Nat \union {NotInSnapshot}] /\ \A h \in Files : saved'[h] <= p[h]
    BY <1>5, <1>6, <1>7, <1>10
  <2> QED
    BY <1>8, <2>1, <2>2, LeaveSafe
<1>11. /\ IsFiniteSet(buffers) /\ Cardinality(buffers) <= Slots - 1 + Cardinality(Readers)
       /\ Cardinality(buffers) <= Slots - 1 + Cardinality({r \in Readers : fetcher[r] = "putting"})
  BY <1>0, <1>1 DEF Bounded, Going
<1>12. ASSUME NEW to \in Files \X Nat, to[2] = p[to[1]], \A h \in Files : h < to[1] => p[h] = Sizes[h],
              saved' = p, Expect(to)
       PROVE  IInv'
  <2>1. /\ expected' = to /\ barrier' = (barrier /\ Queued(to))
        /\ \/ Queued(to) /\ writer' = "draining" /\ running' = "writer"
           \/ ~Queued(to) /\ writer' = "waiting" /\ running' = NoOne
        /\ UNCHANGED <<phase, from, fetching, fetcher, asked, ran, buffers>>
    BY <1>1, <1>12 DEF Expect
  <2>2. /\ Grounded' /\ {saved', progress'} \subseteq [Files -> Nat \union {NotInSnapshot}]
        /\ \A h \in Files : progress'[h] <= Sizes[h]
        /\ disk' \in [Files -> Seq(Files \X (Nat \ {0}))] /\ copies' \in [Files -> Nat]
        /\ faults' \in 0..MaxFaults
    <3>1. \A h \in Files : saved'[h] <= p[h]
      BY <1>6, <1>12
    <3> QED
      BY <1>5, <1>8, <1>12, <3>1
  <2>3. TypeOK'
    <3>1. to \in Nat \X Nat
      BY Constants
    <3>2. barrier' \in BOOLEAN
      BY <1>0, <2>1 DEF TypeOK
    <3> QED
      BY <1>0, <2>1, <2>2, <3>1, <3>2 DEF TypeOK
  <2>4. Bounded'
    BY <1>11, <2>1 DEF Bounded
  <2>5. Scheduled'
    <3>1. Queued(to) => buffers # {}
      BY DEF Queued
    <3> QED
      BY <1>0, <1>1, <2>1, <3>1, Constants DEF Scheduled
  <2>6. \A h \in Files : Opened(h)' <=> Opened(h)
    BY <2>1 DEF Opened
  <2>7. Attempted'
    <3>1. ASSUME NEW h \in Files, Opened(h)' PROVE Len(disk'[h]) = progress'[h] + Uncounted(h)'
      <4>1. Uncounted(h)' = 0
        BY <2>1 DEF Uncounted
      <4>2. Len(disk[h]) = p[h]
        <5>1. CASE h = f
          BY <1>5, <5>1
        <5>2. CASE h # f
          <6>1. Len(disk[h]) = progress[h] + Uncounted(h)
            BY <1>0, <1>1, <2>6, <3>1 DEF Attempted, Going
          <6>2. Uncounted(h) = 0
            BY <5>2 DEF Uncounted, f
          <6> QED
            BY <1>5, <1>6, <5>2, <6>1, <6>2
        <5> QED
          BY <5>1, <5>2
      <4> QED
        BY <1>1, <1>6, <4>1, <4>2
    <3>2. \A b \in buffers : b[1] \in Files /\ Opened(b[1])'
      BY <1>0, <1>1, <2>6 DEF Attempted, Going
    <3>3. \A r \in Readers : fetcher'[r] = "asking" => asked'[r][1] \in Files /\ Opened(asked[r][1])'
      BY <1>0, <1>1, <2>1, <2>6 DEF Attempted, Going
    <3>4. fetching[1] \in Files \/ fetching = Over
      BY <1>0, <1>1 DEF Attempted, Going
    <3> QED
      BY <1>1, <2>1, <3>1, <3>2, <3>3, <3>4 DEF Attempted
  <2>8. Ordered'
    <3>1. \A h \in Files : h < to[1] => complete(h)'
      BY <1>1, <1>12 DEF complete
    <3>2. expected'[1] \in Files /\ expected'[2] = progress'[expected'[1]]
      BY <1>1, <1>12, <2>1
    <3> QED
      BY <1>1, <2>1, <3>1, <3>2 DEF Ordered
  <2> QED
    BY <2>2, <2>3, <2>4, <2>5, <2>7, <2>8 DEF IInv
<1>13. ASSUME \A h \in Files : p[h] = Sizes[h], saved' = p, writer' = "done", running' = NoOne,
              UNCHANGED <<phase, from, fetching, fetcher, asked, ran, buffers, barrier, expected>>
       PROVE  IInv'
  <2>2. /\ Grounded' /\ {saved', progress'} \subseteq [Files -> Nat \union {NotInSnapshot}]
        /\ \A h \in Files : progress'[h] <= Sizes[h]
        /\ disk' \in [Files -> Seq(Files \X (Nat \ {0}))] /\ copies' \in [Files -> Nat]
        /\ faults' \in 0..MaxFaults
    <3>1. \A h \in Files : saved'[h] <= p[h]
      BY <1>6, <1>13
    <3> QED
      BY <1>5, <1>8, <1>13, <3>1
  <2>3. TypeOK'
    BY <1>0, <1>13, <2>2 DEF TypeOK
  <2>4. Bounded'
    BY <1>11, <1>13 DEF Bounded
  <2>5. Scheduled'
    BY <1>0, <1>1, <1>13, Constants DEF Scheduled
  <2>6. \A h \in Files : Opened(h)' <=> Opened(h)
    BY <1>13 DEF Opened
  <2>7. Attempted'
    <3>1. ASSUME NEW h \in Files, Opened(h)' PROVE Len(disk'[h]) = progress'[h] + Uncounted(h)'
      <4>1. Uncounted(h)' = 0
        BY <1>13 DEF Uncounted
      <4>2. p[h] <= Len(disk[h]) /\ Len(disk[h]) <= Sizes[h] /\ p[h] = Sizes[h]
        BY <1>0, <1>6, <1>13 DEF Grounded
      <4>3. Len(disk[h]) \in Nat /\ Sizes[h] \in Nat
        BY <1>0, Typed
      <4> QED
        BY <1>1, <4>1, <4>2, <4>3
    <3>2. \A b \in buffers : b[1] \in Files /\ Opened(b[1])'
      BY <1>0, <1>1, <2>6 DEF Attempted, Going
    <3>3. \A r \in Readers : fetcher'[r] = "asking" => asked'[r][1] \in Files /\ Opened(asked[r][1])'
      BY <1>0, <1>1, <1>13, <2>6 DEF Attempted, Going
    <3>4. fetching[1] \in Files \/ fetching = Over
      BY <1>0, <1>1 DEF Attempted, Going
    <3> QED
      BY <1>1, <1>13, <3>1, <3>2, <3>3, <3>4 DEF Attempted
  <2>8. Ordered'
    <3>1. \A h \in Files : complete(h)'
      BY <1>1, <1>13 DEF complete
    <3> QED
      BY <1>1, <1>2, <1>13, <3>1 DEF Ordered, f
  <2> QED
    BY <2>2, <2>3, <2>4, <2>5, <2>7, <2>8 DEF IInv
<1>14. \/ Leave("canceled") /\ saved' = Nothing
       \/ saved' = p /\ Expect(<<f, p[f]>>)
       \/ /\ saved' = p /\ p[f] = Sizes[f] /\ g = N + 1 /\ writer' = "done" /\ running' = NoOne
          /\ UNCHANGED <<phase, from, fetching, fetcher, asked, ran, buffers, barrier, expected>>
       \/ saved' = p /\ p[f] = Sizes[f] /\ g \in Files /\ p[g] # NotInSnapshot /\ Expect(<<g, p[g]>>)
       \/ saved' = p /\ Throw
  BY Zenon DEF SaveBlock, p, n, f
<1>15. \/ g = N + 1 /\ \A h \in Files : h > f => p[h] = Sizes[h]
       \/ g \in Files /\ g > f /\ \A h \in Files : h > f /\ h < g => p[h] = Sizes[h]
  BY <1>2, NextFileExpected
<1>16. \A h \in Files : h \in Nat /\ h # N + 1
  BY Constants
<1> HIDE DEF g
<1>17. CASE saved' = p /\ Expect(<<f, p[f]>>)
  <2> DEFINE to == <<f, p[f]>>
  <2>1. to \in Files \X Nat /\ to[2] = p[to[1]] /\ \A h \in Files : h < to[1] => p[h] = Sizes[h]
    BY <1>2, <1>5, <1>9
  <2> QED
    BY <1>12, <1>17, <2>1
<1>18. CASE /\ saved' = p /\ p[f] = Sizes[f] /\ g = N + 1 /\ writer' = "done" /\ running' = NoOne
            /\ UNCHANGED <<phase, from, fetching, fetcher, asked, ran, buffers, barrier, expected>>
  <2>1. ASSUME NEW h \in Files PROVE p[h] = Sizes[h]
    <3>1. h < f \/ h = f \/ h > f
      BY <1>2, <1>16
    <3> QED
      BY <1>9, <1>15, <1>16, <1>18, <3>1
  <2> QED
    BY <1>13, <1>18, <2>1
<1>19. CASE saved' = p /\ p[f] = Sizes[f] /\ g \in Files /\ p[g] # NotInSnapshot /\ Expect(<<g, p[g]>>)
  <2> DEFINE to == <<g, p[g]>>
  <2>1. ASSUME NEW h \in Files, h < g PROVE p[h] = Sizes[h]
    <3>1. h < f \/ h = f \/ h > f
      BY <1>2, <1>16
    <3> QED
      BY <1>9, <1>15, <1>16, <1>19, <2>1, <3>1
  <2>2. to \in Files \X Nat /\ to[2] = p[to[1]] /\ \A h \in Files : h < to[1] => p[h] = Sizes[h]
    BY <1>5, <1>19, <2>1
  <2> QED
    BY <1>12, <1>19, <2>2
<1> QED
  BY <1>10, <1>14, <1>17, <1>18, <1>19

LEMMA EndSafe ==
  ASSUME IInv, Join \/ Finish, served' = served
  PROVE  IInv'
<1>0. TypeOK /\ Grounded /\ Bounded /\ Scheduled /\ Attempted /\ Ordered
  BY DEF IInv
<1>1. /\ phase' \in {"finishing", "finished"} /\ saved' = Nothing
      /\ UNCHANGED <<disk, copies, progress, from, fetching, buffers, barrier, expected, faults>>
      /\ writer = "done" \/ phase = "finishing"
  BY DEF Join, Finish
<1>2. /\ writer' = "off" /\ \A r \in Readers : fetcher'[r] = "off"
      /\ fetcher' \in [Readers -> {"off"}]
      /\ asked' \in [Readers -> Nat \X Nat]
      /\ running' = NoOne \/ running' = running
      /\ ran' \subseteq Readers
  <2>1. CASE Join
    BY <2>1 DEF Join, ThreadsOff, NoBlock
  <2>2. CASE Finish
    BY <1>0, <2>2 DEF Finish, threads, Scheduled, TypeOK
  <2> QED
    BY <2>1, <2>2
<1>3. running' = NoOne \/ (running' = running /\ \A r \in Readers : running # r)
  <2>1. CASE Join
    BY <2>1 DEF Join, ThreadsOff
  <2>2. CASE Finish
    BY <1>0, <2>2 DEF Finish, threads, Scheduled
  <2> QED
    BY <2>1, <2>2
<1>4. \A f \in Files : complete(f)' /\ complete(f)
  BY <1>0, <1>1 DEF Ordered, complete
<1>5. saved' \in [Files -> Nat \union {NotInSnapshot}]
  BY <1>1 DEF Nothing
<1>6. TypeOK'
  BY <1>0, <1>1, <1>2, <1>5 DEF TypeOK, Ended
<1>7. Grounded'
  <2>1. \A f \in Files : saved'[f] <= progress'[f]
    <3>1. \A f \in Files : progress[f] \in Nat
      BY <1>4, Constants DEF complete
    <3> QED
      BY <1>1, <3>1 DEF Nothing, NotInSnapshot
  <2> QED
    BY <1>0, <1>1, <2>1 DEF Grounded
<1>8. Bounded'
  BY <1>0, <1>1 DEF Bounded, Going
<1>9. Scheduled'
  BY <1>1, <1>2, <1>3, Constants DEF Scheduled
<1>10. Attempted' /\ Ordered'
  BY <1>1, <1>2, <1>4 DEF Attempted, Ordered, Going
<1> QED
  BY <1>6, <1>7, <1>8, <1>9, <1>10 DEF IInv

LEMMA InterruptSafe ==
  ASSUME IInv, Interrupt, served' = served
  PROVE  IInv'
<1>1. Leave("down") /\ UNCHANGED <<durable, progress>> /\ faults' \in 0..MaxFaults
  <2>1. faults \in 0..MaxFaults /\ MaxFaults \in Nat
    BY BlockAssumption DEF IInv, TypeOK
  <2> QED
    BY <2>1 DEF Interrupt, Fault
<1>2. Grounded' /\ {saved', progress'} \subseteq [Files -> Nat \union {NotInSnapshot}]
      /\ (\A g \in Files : progress'[g] <= Sizes[g])
      /\ disk' \in [Files -> Seq(Files \X (Nat \ {0}))] /\ copies' \in [Files -> Nat]
  BY <1>1 DEF IInv, Grounded, durable, TypeOK
<1> QED
  BY <1>1, <1>2, LeaveSafe

\* A process that dies leaves the snapshot behind the disk, maybe in the middle of a write.
LEMMA CrashSafe ==
  ASSUME IInv, Crash, served' = served
  PROVE  IInv'
<1>0. TypeOK /\ Grounded /\ Bounded /\ Scheduled /\ Attempted /\ Ordered
  BY DEF IInv
<1>1. /\ progress' = saved /\ phase' = "down" /\ fetching' = Over /\ buffers' = {} /\ barrier' = FALSE
      /\ expected' = NoBlock /\ copies' = [f \in Files |-> 0] /\ UNCHANGED <<saved, from>>
      /\ fetcher' = [r \in Readers |-> "off"] /\ asked' = [r \in Readers |-> NoBlock]
      /\ writer' = "off" /\ running' = NoOne /\ ran' = {}
  BY DEF Crash, ThreadsOff
<1>2. faults' \in 0..MaxFaults
  <2>1. faults \in 0..MaxFaults /\ MaxFaults \in Nat
    BY <1>0, BlockAssumption DEF TypeOK
  <2> QED
    BY <2>1 DEF Crash, Fault
<1>3. /\ disk' \in [Files -> Seq(Files \X (Nat \ {0}))]
      /\ \A g \in Files : /\ \A i \in 1..Len(disk'[g]) : disk'[g][i] = <<g, i>>
                          /\ Len(disk'[g]) <= Sizes[g]
                          /\ progress[g] <= Len(disk'[g])
  <2>1. CASE disk' = disk
    BY <1>0, <2>1 DEF TypeOK, Grounded
  <2>2. CASE writer = "draining" /\ top(buffers) = expected
    <3> DEFINE f == expected[1]
    <3>1. PICK n \in 0..Len(Block(expected)) : AppendTo(f, SubSeq(Block(expected), 1, n))
      BY <2>2 DEF Crash
    <3>2. f \in Files /\ served \in [Files -> Nat] /\ expected[2] \in Nat /\ Len(disk[f]) \in Nat
      BY <1>0, <2>2, Drained, Typed
    <3>3. Len(Block(expected)) \in Nat
      BY <3>2, BlockUnits
    <3>4. n \in Nat /\ n <= Len(Block(expected))
      BY <3>3
    <3> DEFINE d == disk[f] \o SubSeq(Block(expected), 1, n)
    <3>5. /\ d \in Seq(Files \X (Nat \ {0})) /\ Len(d) = Len(disk[f]) + n
          /\ \A i \in 1..Len(d) : d[i] = <<f, i>>
          /\ Len(d) <= Sizes[f]
      BY <1>0, <2>2, <3>4, WritePart
    <3>6. disk' = [disk EXCEPT ![f] = d]
      BY <3>1 DEF AppendTo
    <3> HIDE DEF d, f
    <3>7. Len(disk[f]) <= Len(d)
      BY <3>2, <3>4, <3>5
    <3> QED
      BY <1>0, <3>2, <3>5, <3>6, <3>7, PartOnDisk
  <2> QED
    BY <2>1, <2>2 DEF Crash
<1>4. saved \in [Files -> Nat \union {NotInSnapshot}] /\ progress \in [Files -> Nat \union {NotInSnapshot}]
  BY <1>0, Typed
<1>5. \A f \in Files : /\ saved[f] \in Int /\ progress[f] \in Int /\ Len(disk'[f]) \in Int
                       /\ saved[f] <= progress[f] /\ progress[f] <= Sizes[f] /\ Sizes[f] \in Int
  <2>1. \A f \in Files : disk'[f] \in Seq(Files \X (Nat \ {0}))
    BY <1>3
  <2>2. \A f \in Files : Len(disk'[f]) \in Int
    BY <2>1, LenProperties
  <2>3. \A f \in Files : saved[f] <= progress[f] /\ progress[f] <= Sizes[f]
    BY <1>0 DEF Grounded, TypeOK
  <2> QED
    BY <1>4, <2>2, <2>3, Constants DEF NotInSnapshot
<1>6. \A f \in Files : saved[f] <= Len(disk'[f]) /\ saved[f] <= Sizes[f] /\ saved[f] <= saved[f]
  BY <1>3, <1>5
<1>7. TypeOK'
  <2>1. fetching' \in Nat \X Nat /\ expected' \in Nat \X Nat /\ asked' \in [Readers -> Nat \X Nat]
    BY <1>1, Constants DEF Over, NoBlock
  <2>2. copies' \in [Files -> Nat] /\ barrier' \in BOOLEAN /\ buffers' \subseteq Nat \X Nat
        /\ ran' \subseteq Readers /\ running' \in Readers \union {"writer", NoOne}
    BY <1>1
  <2>3. fetcher' \in [Readers -> {"off", "new", "running", "asking", "putting", "done"}]
    BY <1>1
  <2> QED
    BY <1>0, <1>1, <1>2, <1>3, <1>4, <1>6, <2>1, <2>2, <2>3 DEF TypeOK
<1>8. Grounded'
  BY <1>1, <1>3, <1>6 DEF Grounded
<1>9. Bounded'
  <2>1. IsFiniteSet(buffers') /\ Cardinality(buffers') = 0
    BY <1>1, FS_EmptySet
  <2> QED
    BY <1>1, <2>1, Constants DEF Bounded, Going
<1>10. Scheduled'
  BY <1>1, Constants DEF Scheduled
<1>11. Attempted' /\ Ordered'
  BY <1>1 DEF Attempted, Ordered, Going
<1> QED
  BY <1>7, <1>8, <1>9, <1>10, <1>11 DEF IInv

-----------------------------------------------------------------------------
(***************************************************************************)
(* The theorems.                                                           *)
(***************************************************************************)
LEMMA Initially ==
  ASSUME Init
  PROVE  IInv
<1>1. /\ phase = "down" /\ fetching = Over /\ buffers = {} /\ barrier = FALSE /\ expected = NoBlock
      /\ served \in Served /\ from \in Sources /\ faults = 0
      /\ disk = [f \in Files |-> <<>>] /\ copies = [f \in Files |-> 0]
      /\ saved = Nothing /\ progress = Nothing
      /\ fetcher = [r \in Readers |-> "off"] /\ asked = [r \in Readers |-> NoBlock]
      /\ writer = "off" /\ running = NoOne /\ ran = {}
  BY DEF Init
<1>2. <<>> \in Seq(Files \X (Nat \ {0})) /\ Len(<<>>) = 0
  BY EmptySeq
<1>3. /\ Nothing \in [Files -> Nat \union {NotInSnapshot}]
      /\ \A f \in Files : Nothing[f] = -1 /\ Sizes[f] \in Nat
  BY Constants DEF Nothing, NotInSnapshot
<1>4. TypeOK
  <2>1. fetching \in Nat \X Nat /\ expected \in Nat \X Nat /\ asked \in [Readers -> Nat \X Nat]
    BY <1>1, Constants DEF Over, NoBlock
  <2>2. faults \in 0..MaxFaults
    BY <1>1, BlockAssumption
  <2>3. disk \in [Files -> Seq(Files \X (Nat \ {0}))]
    BY <1>1, <1>2
  <2>4. \A f \in Files : progress[f] <= Sizes[f]
    BY <1>1, <1>3
  <2> QED
    BY <1>1, <1>3, <2>1, <2>2, <2>3, <2>4 DEF TypeOK
<1>5. Grounded
  BY <1>1, <1>2, <1>3 DEF Grounded, NotInSnapshot
<1>6. Bounded
  <2>1. IsFiniteSet(buffers) /\ Cardinality(buffers) = 0
    BY <1>1, FS_EmptySet
  <2> QED
    BY <1>1, <2>1, Constants DEF Bounded, Going
<1>7. Scheduled
  BY <1>1, Constants DEF Scheduled
<1>8. Attempted /\ Ordered
  BY <1>1 DEF Attempted, Ordered, Going
<1> QED
  BY <1>4, <1>5, <1>6, <1>7, <1>8 DEF IInv

LEMMA StepSafe ==
  ASSUME IInv, [Next]_vars
  PROVE  IInv'
<1>1. CASE UNCHANGED vars
  <2>1. UNCHANGED <<served, disk, copies, saved, progress, phase, from, fetching, fetcher, asked,
                    writer, running, ran, buffers, barrier, expected, faults>>
    BY <1>1 DEF vars, state, durable, threads
  <2>2. TypeOK' /\ Grounded' /\ Bounded' /\ Scheduled'
    BY <2>1 DEF IInv, TypeOK, Grounded, Bounded, Scheduled
  <2>3. Attempted' /\ Ordered'
    BY <2>1 DEF IInv, Attempted, Ordered, Opened, Uncounted, Block, complete
  <2> QED
    BY <2>2, <2>3 DEF IInv
<1>2. CASE Next
  <2>1. served' = served
    BY <1>2 DEF Next
  <2>2. CASE Attempt
    BY <2>1, <2>2, StartSafe DEF Attempt
  <2>3. CASE Open
    BY <2>1, <2>3, OpenFileSafe, SaveOpenedSafe, OpenedAllSafe DEF Open
  <2>4. CASE \E r \in Readers : Fetcher(r)
    BY <2>1, <2>4, ResumeSafe, NextFileSafe, AskSafe, AnswerSafe DEF Fetcher
  <2>5. CASE Writer
    BY <2>1, <2>5, WakeSafe, WriteBlockSafe, SaveBlockSafe DEF Writer
  <2>6. CASE Join \/ Finish \/ Interrupt \/ Crash
    BY <2>1, <2>6, EndSafe, InterruptSafe, CrashSafe
  <2> QED
    BY <1>2, <2>2, <2>3, <2>4, <2>5, <2>6 DEF Next
<1> QED
  BY <1>1, <1>2

LEMMA Inductive == Spec => []IInv
<1>1. Init => IInv
  BY Initially
<1>2. IInv /\ [Next]_vars => IInv'
  BY StepSafe
<1> QED
  BY <1>1, <1>2, PTL DEF Spec

\* However attempts end and whichever blocks come first, what has come is in order: in the
\* queue, which stays bounded, on the disk, and in the snapshot, which never promises more
\* than the disk has (PeerReceiveMachine.cc).
THEOREM BlocksInOrder == Spec => []Orderly
<1>1. IInv => Orderly
  <2> SUFFICES ASSUME IInv PROVE Orderly
    OBVIOUS
  <2>0. TypeOK /\ Grounded /\ Bounded
    BY DEF IInv
  <2>1. BoundedBuffer /\ OneCopy
    BY <2>0 DEF Bounded, BoundedBuffer, Grounded, OneCopy
  <2>2. PrefixOnDisk
    BY <2>0, Typed, InContent DEF Grounded, PrefixOnDisk
  <2>3. SavedBehindDisk
    <3>1. \A f \in Files : saved[f] \in Int /\ progress[f] \in Int /\ Len(disk[f]) \in Int
      BY <2>0, Typed DEF NotInSnapshot
    <3> QED
      BY <2>0, <3>1 DEF Grounded, SavedBehindDisk
  <2> QED
    BY <2>0, <2>1, <2>2, <2>3 DEF Orderly
<1> QED
  BY <1>1, Inductive, PTL

\* The source is told the transfer is over, and the transaction finished, only when every file
\* is whole (PeerReceiveMachine.cc: get()).
THEOREM WholeWhenFinished == Spec => []FinishedComplete
<1>1. IInv => FinishedComplete
  <2> SUFFICES ASSUME IInv, phase = "finished", NEW f \in Files
               PROVE  disk[f] = Content(f, Sizes[f])
    BY DEF FinishedComplete
  <2>1. disk[f] \in Seq(Files \X (Nat \ {0})) /\ Len(disk[f]) \in Nat /\ Sizes[f] \in Nat
    BY Typed DEF IInv
  <2>2. \A i \in 1..Len(disk[f]) : disk[f][i] = <<f, i>>
    BY DEF IInv, Grounded
  <2>3. Len(disk[f]) = Sizes[f]
    <3>1. progress[f] = Sizes[f] /\ progress[f] <= Len(disk[f]) /\ Len(disk[f]) <= Sizes[f]
      BY DEF IInv, Ordered, Grounded, complete
    <3> QED
      BY <2>1, <3>1
  <2>4. disk[f] = Content(f, Len(disk[f]))
    BY <2>1, <2>2, InContent
  <2> QED
    BY <2>3, <2>4
<1> QED
  BY <1>1, Inductive, PTL
=============================================================================
