----------------------------- MODULE ReportsProofs ----------------------------
(***************************************************************************)
(* Proofs about what is reported.                                          *)
(*                                                                         *)
(* By a client, of what it does (Reports), for an object of any size, any  *)
(* number of names, faults, metrics and reporters: what a recipient that   *)
(* was a ghost ends with is whole, and no file he had is touched; the      *)
(* queue of the metrics, its thread and the stop agree; and the last that  *)
(* is told of a transaction is how it ended.                               *)
(*                                                                         *)
(* By a trophonius server, of the devices connected to it (Presence), for  *)
(* any devices, servers, connections, changes and faults: what meta has on *)
(* record of a device, and what it tells of it, follows its connections;   *)
(* and what changes reaches it.                                            *)
(***************************************************************************)
EXTENDS Reports, Presence, SequenceTheorems, TLAPS, WellFoundedInduction

-----------------------------------------------------------------------------
(***************************************************************************)
(* The inductive invariant.                                                *)
(***************************************************************************)

Prefix(k) == [i \in 1..k |-> i]

\* The names the download may use.
Free == {n \in 1..Names : ~(Taken /\ n = 1)}

\* A name that is used has nothing, or the beginning of the object.
Beginnings == \A n \in Free : files[n] = Absent \/ \E k \in 0..Blocks : files[n] = Prefix(k)

\* What is remembered of the target is a name that may be used, if it is not one under
\* the folder: a process that knows its folder has saved no name when it looks for one.
Targets ==
  /\ path # None => path \in Free
  /\ note # None /\ ~under => note \in Free
  /\ folder /\ at \in {"accept", "locate"} => note = None
  /\ at = "off" => path = None /\ ~folder
  /\ at = "transfer" => path # None

\* A request asks for what follows in the file.
Requests ==
  request # None => /\ at = "transfer"
                    /\ \E k \in 0..Blocks : files[path] = Prefix(k) /\ request = k + 1

\* What is saved, and what the server is told, follow the machine.
Stages ==
  /\ status = "initialized" => /\ at \in {"upload", "off"}
                               /\ saved \notin {"accept", "finish", "fail", "end"}
  /\ at = "upload" => status \in {"initialized", "ghost_uploaded"}
  /\ at = "decision" => status = "ghost_uploaded"
  /\ note # None \/ at = "locate" => status \notin {"initialized", "ghost_uploaded"}
  /\ at \in {"locate", "transfer"} => saved = "transfer"
  /\ at \in {"finish", "remove", "report"} => saved = "finish"
  /\ at = "fail" => saved = "fail"
  /\ at \in {"answer", "done"} => saved \in {"finish", "fail"}
  /\ at = "answer" => status = Outcome
  /\ at = "done" => status = Outcome \/ untold
  /\ status \in Final => at \in {"finish", "remove", "report", "fail", "answer", "done",
                                "end", "over", "off"}
  /\ status = "finished" => saved \in {"finish", "end", "none"}
  /\ status = "failed" => saved \in {"fail", "end", "none"}

\* Once the download is over its object is there, or was extracted.
Results ==
  /\ saved = "finish" /\ ~Archive => \E n \in Free : files[n] = Whole
  /\ at = "finish" /\ path # None => files[path] = Whole
  /\ at = "remove" => Archive /\ path # None
  /\ at \in {"remove", "report"} /\ Archive => extracted
  /\ status = "finished" =>
       IF Archive THEN extracted ELSE \E n \in Free : files[n] = Whole

GInv == /\ TypeOK /\ Untouched
        /\ Beginnings /\ Targets /\ Requests /\ Stages /\ Results

-----------------------------------------------------------------------------
(***************************************************************************)
(* Lemmas about the beginnings of the object and the names.                *)
(***************************************************************************)

LEMMA Constants == Blocks \in Nat \ {0} /\ Names \in Nat \ {0} /\ MaxFaults \in Nat
BY GhostAssumption

\* The beginnings of the object are sequences of its blocks; one more block makes the
\* next, and the last is the object.
LEMMA Prefixes ==
  ASSUME NEW k \in 0..Blocks
  PROVE  /\ Prefix(k) \in Seq(0..Blocks) /\ Len(Prefix(k)) = k
         /\ Prefix(k) # Absent
         /\ k < Blocks => Append(Prefix(k), k + 1) = Prefix(k + 1)
<1>1. Prefix(k) \in Seq(0..Blocks) /\ Len(Prefix(k)) = k
  BY Constants DEF Prefix
<1>2. Prefix(k) # Absent
  <2>1. CASE k = 0
    BY <2>1, <1>1 DEF Absent
  <2>2. CASE k # 0
    BY <2>2, <1>1, Constants, Prefix(k)[1] = 1, Absent[1] = -1 DEF Prefix, Absent
  <2> QED
    BY <2>1, <2>2
<1>3. ASSUME k < Blocks PROVE Append(Prefix(k), k + 1) = Prefix(k + 1)
  BY <1>1, <1>3, Constants DEF Prefix
<1> QED
  BY <1>1, <1>2, <1>3

LEMMA Complete == Prefix(Blocks) = Whole /\ Prefix(0) = << >>
BY Constants DEF Prefix, Whole

\* eligible_name finds a name that nothing has, when there is one.
LEMMA EligibleName ==
  ASSUME NEW n \in 1..Names, files[n] = Absent
  PROVE  Eligible \in 1..Names /\ files[Eligible] = Absent
<1> DEFINE T == {m \in 1..Names : files[m] = Absent}
<1>1. T \subseteq Nat /\ T # {}
  BY Constants
<1>2. PICK x \in T : \A y \in T : <<y, x>> \notin OpToRel(<, Nat)
  <2> HIDE DEF T
  <2> QED
    BY <1>1, NatLessThanWellFounded, WFMin
<1>3. \A y \in T : x =< y
  <2>1. OpToRel(<, Nat) = {ss \in Nat \X Nat : ss[1] < ss[2]}
    BY Zenon DEF OpToRel
  <2>2. SUFFICES ASSUME NEW y \in T, y < x PROVE FALSE
    BY <1>1
  <2>3. <<y, x>> \in {ss \in Nat \X Nat : ss[1] < ss[2]}
    BY <1>1, <2>2
  <2> QED
    BY <1>2, <2>1, <2>3, Zenon
<1>4. Eligible = CHOOSE m \in T : \A y \in T : m =< y
  BY DEF Eligible, Min
<1>5. Eligible \in T
  <2> HIDE DEF T
  <2> QED
    BY <1>3, <1>4
<1> QED
  BY <1>5

-----------------------------------------------------------------------------
(***************************************************************************)
(* Every step keeps the invariant.                                         *)
(***************************************************************************)

LEMMA InitGood == Init => GInv
<1> SUFFICES ASSUME Init PROVE GInv
  OBVIOUS
<1>1. TypeOK
  <2>1. Other \in Seq(0..Blocks)
    BY Constants, 0 \in 0..Blocks DEF Other
  <2>2. files \in [1..Names -> {Absent} \cup Seq(0..Blocks)]
    <3>1. \A n \in 1..Names : files[n] \in {Absent, Other}
      BY DEF Init
    <3> QED
      BY <2>1, <3>1 DEF Init
  <2>3. under \in BOOLEAN /\ folder \in BOOLEAN /\ extracted \in BOOLEAN /\ untold \in BOOLEAN
    BY DEF Init
  <2>4. /\ note \in 0..Names /\ path \in 0..Names /\ request \in 0..(Blocks + 1)
        /\ faults \in 0..MaxFaults
    BY Constants DEF Init, None
  <2>5. /\ case \in [archive : BOOLEAN, mobile : BOOLEAN, taken : BOOLEAN]
        /\ status = "initialized" /\ at = "upload" /\ saved = "upload"
    BY DEF Init
  <2> QED
    BY <2>2, <2>3, <2>4, <2>5 DEF TypeOK
<1>2. Untouched /\ Beginnings
  BY Constants DEF Init, Untouched, Beginnings, Free, Taken, Absent, Other
<1> QED
  BY <1>1, <1>2
  DEF Init, GInv, Targets, Requests, Stages, Results, Final, None

LEMMA UploadKeeps == ASSUME GInv, Upload PROVE GInv'
BY Constants
DEF GInv, Upload, Enter, TypeOK, Untouched, Beginnings, Targets, Requests, Stages, Results,
    Final, None, Free, Archive, Mobile, Taken

LEMMA UploadedKeeps == ASSUME GInv, Uploaded PROVE GInv'
BY Constants
DEF GInv, Uploaded, Enter, TypeOK, Untouched, Beginnings, Targets, Requests, Stages, Results,
    Final, None, Free, Archive, Mobile, Taken

LEMMA AcceptKeeps == ASSUME GInv, Accept PROVE GInv'
BY Constants
DEF GInv, Accept, Enter, TypeOK, Untouched, Beginnings, Targets, Requests, Stages, Results,
    Final, None, Free, Archive, Mobile, Taken

LEMMA TellKeeps == ASSUME GInv, Tell PROVE GInv'
BY Constants
DEF GInv, Tell, Enter, TypeOK, Untouched, Beginnings, Targets, Requests, Stages, Results,
    Final, None, Free, Archive, Mobile, Taken

LEMMA BrokenKeeps == ASSUME GInv, Broken PROVE GInv'
BY Constants
DEF GInv, Broken, Enter, TypeOK, Untouched, Beginnings, Targets, Requests, Stages, Results,
    Final, None, Free, Archive, Mobile, Taken

LEMMA FinishKeeps == ASSUME GInv, Finish PROVE GInv'
<1>1. TypeOK'
  <2>1. untold' \in BOOLEAN /\ extracted' \in BOOLEAN
    BY DEF GInv, Finish, TypeOK
  <2>2. at' \in {"report", "end", "remove"} /\ saved' \in {"end", saved}
    BY DEF Finish, Enter
  <2>3. UNCHANGED <<case, status, note, under, path, folder, files, request, faults>>
    BY DEF Finish
  <2> QED
    BY <2>1, <2>2, <2>3 DEF GInv, TypeOK, Final
<1>2. Untouched' /\ Beginnings' /\ Targets' /\ Requests'
  BY DEF GInv, Finish, Enter, Untouched, Beginnings, Targets, Requests, None, Free, Taken
<1>3. Stages'
  BY DEF GInv, Finish, Enter, Outcome, Stages, Final, None
<1>4. Results'
  BY ZenonT(30) DEF GInv, Finish, Enter, Results, Stages, Free, Archive, Taken
<1> QED
  BY <1>1, <1>2, <1>3, <1>4 DEF GInv

LEMMA UpdateKeeps == ASSUME GInv, Update PROVE GInv'
BY Constants
DEF GInv, Update, Outcome, TypeOK, Untouched, Beginnings, Targets, Requests, Stages, Results,
    Final, None, Free, Archive, Mobile, Taken

LEMMA AnsweredKeeps == ASSUME GInv, Answered PROVE GInv'
<1>1. TypeOK'
  <2>1. untold' \in BOOLEAN /\ at' = "done"
    BY DEF Answered
  <2>2. UNCHANGED <<case, status, saved, note, under, path, folder, files, request,
                    extracted, faults>>
    BY DEF Answered
  <2> QED
    BY <2>1, <2>2 DEF GInv, TypeOK, Final
<1>2. Untouched' /\ Beginnings' /\ Targets' /\ Requests'
  BY DEF GInv, Answered, Untouched, Beginnings, Targets, Requests, None, Free, Taken
<1>3. Stages'
  BY DEF GInv, Answered, Outcome, Stages, Final, None
<1>4. Results'
  BY DEF GInv, Answered, Results, Free, Archive, Taken
<1> QED
  BY <1>1, <1>2, <1>3, <1>4 DEF GInv

LEMMA RefusedKeeps == ASSUME GInv, Refused PROVE GInv'
<1>1. TypeOK'
  BY Constants DEF GInv, Refused, TypeOK, Final
<1>2. Untouched' /\ Beginnings' /\ Targets' /\ Requests'
  BY DEF GInv, Refused, Untouched, Beginnings, Targets, Requests, None, Free, Taken
<1>3. Stages'
  BY DEF GInv, Refused, Outcome, Stages, Final, None
<1>4. Results'
  BY DEF GInv, Refused, Results, Free, Archive, Taken
<1> QED
  BY <1>1, <1>2, <1>3, <1>4 DEF GInv

LEMMA FinalizedKeeps == ASSUME GInv, Finalized PROVE GInv'
<1>1. TypeOK'
  BY Constants DEF GInv, Finalized, Enter, TypeOK, Final, None
<1>2. Untouched' /\ Beginnings' /\ Targets' /\ Requests'
  BY DEF GInv, Finalized, Enter, Untouched, Beginnings, Targets, Requests, None, Free, Taken
<1>3. Stages'
  BY DEF GInv, Finalized, Enter, Outcome, Stages, Final, None
<1>4. Results'
  BY DEF GInv, Finalized, Enter, Results, Free, Archive, Taken
<1> QED
  BY <1>1, <1>2, <1>3, <1>4 DEF GInv

LEMMA EndKeeps == ASSUME GInv, End PROVE GInv'
<1>1. TypeOK'
  <2>1. /\ under' \in BOOLEAN /\ folder' \in BOOLEAN /\ extracted' \in BOOLEAN
        /\ untold' \in BOOLEAN
    BY DEF GInv, End, TypeOK
  <2>2. /\ note' \in 0..Names /\ at' = "over" /\ saved' = "none"
        /\ UNCHANGED <<case, status, path, files, request, faults>>
    BY Constants DEF End, None
  <2> QED
    BY <2>1, <2>2 DEF GInv, TypeOK, Final
<1>2. Untouched' /\ Beginnings' /\ Targets' /\ Requests'
  BY DEF GInv, End, Untouched, Beginnings, Targets, Requests, None, Free, Taken
<1>3. Stages'
  BY DEF GInv, End, Outcome, Stages, Final, None
<1>4. Results'
  BY DEF GInv, End, Results, Free, Archive, Taken
<1> QED
  BY <1>1, <1>2, <1>3, <1>4 DEF GInv

\* The name is new, or the one that was saved.
LEMMA LocateKeeps == ASSUME GInv, Locate PROVE GInv'
<1>1. CASE note # None
  BY <1>1, Constants
  DEF GInv, Locate, Enter, TypeOK, Untouched, Beginnings, Targets, Requests, Stages,
      Results, Final, None, Free, Archive, Mobile, Taken
<1>2. CASE note = None
  <2>1. Eligible \in Free
    BY <1>2, EligibleName DEF GInv, Locate, Untouched, Free, Other, Absent
  <2>2. Eligible \in 1..Names
    BY <2>1 DEF Free
  <2>3. 1 \in 0..Names
    BY Constants
  <2>4. /\ path' = Eligible /\ note' \in {1, Eligible} /\ (~under' => note' = Eligible)
        /\ at' = "transfer" /\ at = "locate" /\ under' = folder
        /\ UNCHANGED <<case, status, saved, folder, files, request, extracted, untold, faults>>
    BY <1>2 DEF Locate
  <2>5. request = None
    BY <2>4 DEF GInv, Requests
  <2> QED
    BY <2>1, <2>2, <2>3, <2>4, <2>5, Constants
    DEF GInv, TypeOK, Untouched, Beginnings, Targets, Requests, Stages, Results, Final,
        None, Free, Archive, Mobile, Taken
<1> QED
  BY <1>1, <1>2

\* The file is there from now on, and the request asks for what follows.
LEMMA RequestKeeps == ASSUME GInv, Request PROVE GInv'
<1>1. path \in Free /\ path \in 1..Names
  BY DEF GInv, Request, Targets, Free
<1>2. PICK k \in 0..Blocks : /\ files'[path] = Prefix(k) /\ From = k + 1
                             /\ files' = [files EXCEPT ![path] = Prefix(k)]
  <2>1. CASE files[path] = Absent
    <3>1. From = 0 + 1
      BY <2>1 DEF From, Size
    <3>3. files' = [files EXCEPT ![path] = Prefix(0)]
      <4>1. files' = [files EXCEPT ![path] = << >>]
        BY <2>1 DEF Request
      <4> QED
        BY <4>1, Complete
    <3>2. files'[path] = Prefix(0)
      BY <1>1, <3>3 DEF GInv, TypeOK
    <3>4. 0 \in 0..Blocks
      BY Constants
    <3> QED
      BY <3>1, <3>2, <3>3, <3>4
  <2>2. CASE files[path] # Absent
    <3>1. PICK k \in 0..Blocks : files[path] = Prefix(k)
      BY <1>1, <2>2 DEF GInv, Beginnings
    <3>2. From = k + 1
      BY <2>2, <3>1, Prefixes DEF From, Size
    <3>3. files' = [files EXCEPT ![path] = Prefix(k)]
      BY <2>2, <3>1 DEF Request
    <3>4. files'[path] = Prefix(k)
      BY <1>1, <3>3 DEF GInv, TypeOK
    <3> QED
      BY <3>2, <3>3, <3>4
  <2> QED
    BY <2>1, <2>2
<1>3. TypeOK'
  <2>1. files' \in [1..Names -> {Absent} \cup Seq(0..Blocks)]
    BY <1>1, <1>2, Prefixes DEF GInv, TypeOK
  <2>2. request' \in 0..(Blocks + 1)
    <3>1. From \in 0..(Blocks + 1)
      BY <1>2, Constants
    <3>2. request' \in {From, request}
      BY DEF Request
    <3> QED
      BY <3>1, <3>2 DEF GInv, TypeOK
  <2> QED
    BY <2>1, <2>2 DEF GInv, TypeOK, Request, Enter, Final
<1>4. Untouched' /\ Beginnings'
  BY <1>1, <1>2 DEF GInv, Request, TypeOK, Untouched, Beginnings, Free, Taken
<1>5. Targets' /\ Stages'
  BY DEF GInv, Request, Enter, Targets, Stages, Final, None, Free, Mobile, Taken
<1>6. Requests'
  BY <1>2 DEF GInv, Request, Requests, Enter, None
<1>7. Results'
  BY DEF GInv, Request, Enter, Results, Stages, Final, Archive, Free, Taken
<1> QED
  BY <1>3, <1>4, <1>5, <1>6, <1>7 DEF GInv

\* One more block.
LEMMA ReadKeeps == ASSUME GInv, Read PROVE GInv'
<1>1. path \in Free /\ path \in 1..Names
  BY DEF GInv, Read, Targets, Free
<1>2. PICK k \in 0..Blocks : files[path] = Prefix(k) /\ request = k + 1
  BY Constants DEF GInv, Read, Requests, None
<1>3. k + 1 \in 0..Blocks /\ request' = (k + 1) + 1
  BY <1>2, Constants DEF Read
<1>4. files' = [files EXCEPT ![path] = Prefix(k + 1)]
  <2>1. Append(files[path], request) = Append(Prefix(k), k + 1)
    BY <1>2
  <2>2. k < Blocks
    BY <1>3, Constants
  <2>3. Append(Prefix(k), k + 1) = Prefix(k + 1)
    BY <2>2, Prefixes
  <2> QED
    BY <2>1, <2>3 DEF Read
<1>5. files'[path] = Prefix(k + 1)
  BY <1>1, <1>4 DEF GInv, TypeOK
<1>6. TypeOK'
  <2>1. files' \in [1..Names -> {Absent} \cup Seq(0..Blocks)]
    BY <1>1, <1>3, <1>4, Prefixes DEF GInv, TypeOK
  <2>2. request' \in 0..(Blocks + 1)
    BY <1>3, Constants
  <2> QED
    BY <2>1, <2>2 DEF GInv, TypeOK, Read, Final
<1>7. Untouched' /\ Beginnings'
  <2>1. UNCHANGED case /\ Free' = Free
    BY DEF Read, Free, Taken
  <2>2. \A n \in 1..Names : n # path => files'[n] = files[n]
    BY <1>1, <1>4 DEF GInv, TypeOK
  <2>3. Untouched'
    BY <1>1, <2>1, <2>2, Constants DEF GInv, Untouched, Free, Taken
  <2>4. ASSUME NEW n \in Free
        PROVE  files'[n] = Absent \/ \E j \in 0..Blocks : files'[n] = Prefix(j)
    <3>1. CASE n = path
      BY <1>3, <1>5, <3>1
    <3>2. CASE n # path
      BY <2>2, <2>4, <3>2 DEF GInv, Beginnings, Free
    <3> QED
      BY <3>1, <3>2
  <2>5. Beginnings'
    BY <2>1, <2>4 DEF Beginnings, Absent, Prefix
  <2> QED
    BY <2>3, <2>5
<1>8. Requests'
  BY <1>3, <1>5 DEF Requests, Read
<1>9. Targets' /\ Stages' /\ Results'
  BY DEF GInv, Read, Targets, Stages, Results, Final, Archive, Free, Mobile, Taken
<1> QED
  BY <1>6, <1>7, <1>8, <1>9 DEF GInv

\* The beginning that is not followed by anything is the object.
LEMMA DownloadedKeeps == ASSUME GInv, Downloaded PROVE GInv'
<1>1. path \in Free /\ files[path] = Whole
  <2>1. PICK k \in 0..Blocks : files[path] = Prefix(k) /\ request = k + 1
    BY Constants DEF GInv, Downloaded, Requests, None
  <2>2. k = Blocks
    BY <2>1, Constants DEF Downloaded
  <2> QED
    BY <2>1, <2>2, Complete DEF GInv, Downloaded, Targets
<1>2. TypeOK'
  BY Constants DEF GInv, Downloaded, Enter, TypeOK, Final, None
<1>3. Untouched' /\ Beginnings' /\ Targets' /\ Requests'
  BY DEF GInv, Downloaded, Enter, Untouched, Beginnings, Targets, Requests, Free, Mobile,
         Taken
<1>4. Stages'
  BY DEF GInv, Downloaded, Enter, Stages, Final
<1>5. Results'
  BY <1>1 DEF GInv, Downloaded, Enter, Results, Stages, Final, Archive, Free, Taken
<1> QED
  BY <1>2, <1>3, <1>4, <1>5 DEF GInv

\* The archive, which is a file of the download.
LEMMA RemoveKeeps == ASSUME GInv, Remove PROVE GInv'
<1>1. Archive /\ path \in Free /\ path \in 1..Names
  BY DEF GInv, Remove, Targets, Results, Free
<1>2. TypeOK' /\ Untouched' /\ Beginnings'
  BY <1>1 DEF GInv, Remove, TypeOK, Untouched, Beginnings, Free, Taken, Final
<1>3. Targets' /\ Requests' /\ Stages'
  BY DEF GInv, Remove, Targets, Requests, Stages, Final, Free, Mobile, Taken
<1>4. Results'
  BY <1>1 DEF GInv, Remove, Results, Stages, Final, Archive, Free, Taken
<1> QED
  BY <1>2, <1>3, <1>4 DEF GInv

LEMMA CrashKeeps == ASSUME GInv, Crash PROVE GInv'
<1>1. TypeOK'
  <2>1. /\ under' \in BOOLEAN /\ folder' \in BOOLEAN /\ extracted' \in BOOLEAN
        /\ untold' \in BOOLEAN
    BY DEF GInv, Crash, TypeOK
  <2>2. path' \in 0..Names /\ request' \in 0..(Blocks + 1) /\ faults' \in 0..MaxFaults
    BY Constants DEF GInv, Crash, TypeOK, None
  <2>3. /\ at' \in {"off", "upload", "decision", "accept", "locate", "transfer",
                   "finish", "remove", "report", "fail", "answer", "done", "end", "over"}
        /\ UNCHANGED <<case, status, saved, note, files>>
    BY DEF Crash
  <2> QED
    BY <2>1, <2>2, <2>3 DEF GInv, TypeOK, Final
<1>2. Untouched' /\ Beginnings'
  BY Constants DEF GInv, Crash, Untouched, Beginnings, Free, Taken
<1>3. Targets' /\ Requests'
  BY Constants DEF GInv, Crash, TypeOK, Targets, Requests, None, Free, Mobile, Taken
<1>4. Stages' /\ Results'
  BY Constants DEF GInv, Crash, Stages, Results, Final, None, Free, Archive, Taken
<1> QED
  BY <1>1, <1>2, <1>3, <1>4 DEF GInv

LEMMA RestartKeeps == ASSUME GInv, Restart PROVE GInv'
<1>0. Deduced \in {"upload", "decision", "accept"}
  BY DEF Deduced
<1>1. TypeOK'
  BY <1>0 DEF GInv, Restart, TypeOK, Enter, Final
<1>2. Untouched' /\ Beginnings'
  BY Constants DEF GInv, Restart, Untouched, Beginnings, Free, Taken
<1>3. Targets' /\ Requests'
  BY Constants DEF GInv, Restart, TypeOK, Targets, Requests, None, Free, Mobile, Taken, Enter, Deduced, Stages
<1>4. Stages'
  <2>1. /\ status = "initialized" => Deduced = "upload"
        /\ status = "ghost_uploaded" => Deduced = "decision"
        /\ status \notin {"initialized", "ghost_uploaded"} => Deduced = "accept"
    BY Zenon DEF Deduced
  <2>2. saved \in {"accept", "end", "fail", "finish"} =>
          status # "initialized"
    BY DEF GInv, Stages
  <2> QED
    BY <2>1, <2>2 DEF GInv, Restart, TypeOK, Stages, Final, Enter, None
<1>5. Results'
  BY <1>0 DEF GInv, Restart, Results, Targets, Free, Archive, Taken, Enter
<1> QED
  BY <1>1, <1>2, <1>3, <1>4, <1>5 DEF GInv

-----------------------------------------------------------------------------
LEMMA StutterKeeps == ASSUME GInv, UNCHANGED vars PROVE GInv'
BY DEF GInv, vars, TypeOK, Untouched, Beginnings, Targets, Requests, Stages, Results, Outcome,
       Free, Archive, Mobile, Taken

-----------------------------------------------------------------------------
(***************************************************************************)
(* The same client when it reports what it does, and its user comes and    *)
(* goes: what Reports adds to the download keeps the files right.          *)
(***************************************************************************)

\* What is interrupted, if not the download itself.
LEMMA SufferKeeps ==
  ASSUME GInv, faults < MaxFaults, faults' = faults + 1,
         UNCHANGED <<case, status, at, saved, note, under, path, folder, files, request,
                     extracted, untold>>
  PROVE  GInv'
BY Constants
DEF GInv, TypeOK, Untouched, Beginnings, Targets, Requests, Stages, Results, Outcome, Final,
    None, Free, Archive, Mobile, Taken

LEMMA InterruptKeeps == ASSUME GInv, Interrupt PROVE GInv'
BY SufferKeeps, CrashKeeps DEF Interrupt

LEMMA ReportedKeeps == ASSUME GInv, [RNext]_rvars PROVE GInv'
<1>1. CASE RStep \/ RBroken \/ RRefused \/ RRestart \/ RUpload
  BY <1>1, UploadKeeps, UploadedKeeps, AcceptKeeps, TellKeeps, LocateKeeps, RequestKeeps,
     ReadKeeps, DownloadedKeeps, BrokenKeeps, FinishKeeps, RemoveKeeps, UpdateKeeps, AnsweredKeeps,
     RefusedKeeps, FinalizedKeeps, EndKeeps, RestartKeeps
  DEF RStep, RBroken, RRefused, RRestart, RUpload, Ghostly, RQuiet, RAccept, RLocate, RRequest,
      RDownloaded, RAnswered
<1>2. CASE Quit \/ Die \/ \E user \in {"me", "other"} : LogOut(user)
  BY <1>2, InterruptKeeps, StutterKeeps DEF Quit, Die, LogOut
<1>3. CASE UNCHANGED vars
  BY <1>3, StutterKeeps
<1>4. CASE \/ RWelcome \/ RClicks \/ Attempt \/ Leave \/ Launch \/ RPolling \/ RFailedPost
           \/ \E event \in UserEvents \union UiEvents : Use(event)
           \/ \E user \in {"me", "other"} : Connect(user)
  BY <1>3, <1>4
  DEF RWelcome, RClicks, Welcomed, Attempt, Leave, Launch, RPolling, RFailedPost, Use, Connect,
      LogIn
<1>5. CASE UNCHANGED rvars
  BY <1>3, <1>5 DEF rvars
<1> QED
  BY <1>1, <1>2, <1>4, <1>5 DEF RNext

LEMMA RGoodForEver == RSpec => []GInv
<1>1. RInit => GInv
  BY InitGood DEF RInit
<1> QED
  BY <1>1, ReportedKeeps, PTL DEF RSpec

\* The files of the user are right, those that came and those he had, also when he logs out
\* and in, quits and comes back while he is a ghost no more (GhostReceiveMachine.cc).
THEOREM ReportedFiles == RSpec => []RightFiles
<1>1. GInv => RightFiles
  <2> SUFFICES ASSUME GInv PROVE Delivered
    BY DEF GInv, RightFiles
  <2> QED
    BY DEF GInv, Delivered, Results, Free
<1> QED
  BY <1>1, RGoodForEver, PTL

-----------------------------------------------------------------------------
(***************************************************************************)
(* The queue and its thread, whatever is pushed.                           *)
(***************************************************************************)

\* The thread runs unless it was told not to or was not started; a stop waits for what was
\* there, and nothing is pushed after it.
Polls == /\ poll \in {"wait", "dispatch"} => ~muted
         /\ poll = "off" => queue = << >> /\ stopping = "no"
         /\ stopping = "waiting" => due <= Len(queue)

QInv == QueueSafe /\ Polls

LEMMA EventFacts ==
  /\ Endings \subseteq TransactionEvents /\ TransactionEvents \subseteq Events
  /\ UserEvents \subseteq Events /\ UiEvents \subseteq Events
  /\ Endings \cap (UserEvents \union UiEvents) = {} /\ Nothing \notin Endings
  /\ {"created", "accepted", "begin", "end", "users", "ui"} \union Endings = Events
  /\ Endings = {"finished", "failed", "canceled", "rejected"}
BY DEF Endings, TransactionEvents, UserEvents, UiEvents, Events, Nothing

\* What is pushed at once is a sequence of metrics.
LEMMA Several ==
  /\ << >> \in Seq(Events)
  /\ \A a \in Events : <<a>> \in Seq(Events)
  /\ \A a, b \in Events : <<a, b>> \in Seq(Events)
  /\ \A a, b, c \in Events : <<a, b, c>> \in Seq(Events)
OBVIOUS

LEMMA QInit == MetricsInit => QInv
<1> SUFFICES ASSUME MetricsInit PROVE QInv
  OBVIOUS
<1>1. queue \in Seq(Events) /\ posting \subseteq Reporters /\ due \in Nat
  BY DEF MetricsInit
<1>2. seen \in [Reporters -> Endings \union {Nothing}] /\ missed \in [Reporters -> BOOLEAN]
  BY DEF MetricsInit
<1> QED
  BY <1>1, <1>2
  DEF MetricsInit, QInv, QueueSafe, MetricsTyped, Awake, Flushed, Silent, Polls, Polled

\* Whoever pushes does so on a program that was not told to stop.
LEMMA PushKeeps ==
  ASSUME QInv, On, NEW events \in Seq(Events), Push(events),
         UNCHANGED <<muted, pollVars, stopping, due>>, sender' \in {"unknown", "me", "other"}
  PROVE  QInv'
<1>1. queue' \in Seq(Events) /\ available' \in BOOLEAN
  BY DEF QInv, QueueSafe, MetricsTyped, Push, Queued
<1>2. queue' # << >> <=> queue # << >> \/ (~muted /\ events # << >>)
  BY DEF QInv, QueueSafe, MetricsTyped, Silent, Push, Queued
<1>3. Awake' /\ Silent'
  BY <1>2 DEF QInv, QueueSafe, Awake, Silent, Polls, Push, Queued, pollVars
<1>4. MetricsTyped' /\ Flushed' /\ Polls'
  BY <1>1 DEF QInv, QueueSafe, MetricsTyped, Flushed, Polls, pollVars, On
<1> QED
  BY <1>3, <1>4 DEF QInv, QueueSafe

LEMMA UntoldKeeps == ASSUME QInv, UNCHANGED metricsVars PROVE QInv'
BY DEF metricsVars, queueVars, pollVars, QInv, QueueSafe, MetricsTyped, Awake, Flushed, Silent,
       Polls

LEMMA StopKeeps ==
  ASSUME QInv, NEW events \in Seq(Events), Push(events), BeginStop,
         UNCHANGED <<muted, pollVars, sender>>
  PROVE  QInv'
<1>1. queue' \in Seq(Events) /\ available' \in BOOLEAN /\ Len(queue') \in Nat
  BY DEF QInv, QueueSafe, MetricsTyped, Push, Queued
<1>2. queue' # << >> <=> queue # << >> \/ (~muted /\ events # << >>)
  BY DEF QInv, QueueSafe, MetricsTyped, Silent, Push, Queued
<1>3. Awake' /\ Silent'
  BY <1>2 DEF QInv, QueueSafe, Awake, Silent, Polls, Push, Queued, pollVars
<1>4. /\ poll # "off" /\ due' = Len(queue')
      /\ stopping' = IF queue' = << >> THEN "signaled" ELSE "waiting"
  BY DEF BeginStop
<1>5. MetricsTyped' /\ Flushed' /\ Polls'
  BY <1>1, <1>4 DEF QInv, QueueSafe, MetricsTyped, Flushed, Polls, pollVars
<1> QED
  BY <1>3, <1>5 DEF QInv, QueueSafe

LEMMA TerminateKeeps == ASSUME QInv, Terminate PROVE QInv'
<1>1. queue' \in Seq(Events) /\ due' \in Nat /\ posting' \subseteq Reporters
  BY DEF Terminate
<1>2. missed' \in [Reporters -> BOOLEAN]
  BY DEF Terminate, QInv, QueueSafe, MetricsTyped
<1> QED
  BY <1>1, <1>2
  DEF Terminate, QInv, QueueSafe, MetricsTyped, Awake, Flushed, Silent, Polls

LEMMA StartKeeps == ASSUME QInv, StartPoll PROVE QInv'
<1>1. /\ poll' \in {"muted", "wait"} /\ (poll' = "wait" => ~muted)
      /\ available' = FALSE /\ queue = << >> /\ stopping = "no"
      /\ UNCHANGED <<muted, queue, posting, stopping, due, sender, seen, missed>>
  BY DEF StartPoll, QInv, Polls, Polled
<1>2. MetricsTyped'
  BY <1>1 DEF QInv, QueueSafe, MetricsTyped
<1>3. Awake' /\ Flushed' /\ Silent'
  BY <1>1 DEF QInv, QueueSafe, Awake, Flushed, Silent
<1>4. Polls'
  BY <1>1 DEF Polls
<1> QED
  BY <1>2, <1>3, <1>4 DEF QInv, QueueSafe

LEMMA PostKeeps ==
  ASSUME QInv, NEW r \in Reporters,
         PostUser(r) \/ PostUi(r) \/ \E ok \in BOOLEAN : PostTransaction(r, ok)
  PROVE  QInv'
<1>1. poll = "dispatch" /\ posting' \subseteq Reporters
      /\ UNCHANGED <<muted, queueVars, poll, stopping, due, sender>>
  BY DEF PostUser, PostUi, PostTransaction, Posted, QInv, QueueSafe, MetricsTyped
<1>2. /\ seen' \in [Reporters -> Endings \union {Nothing}]
      /\ missed' \in [Reporters -> BOOLEAN]
  <2>1. CASE PostUser(r) \/ PostUi(r)
    BY <2>1 DEF PostUser, PostUi, QInv, QueueSafe, MetricsTyped
  <2>2. CASE \E ok \in BOOLEAN : PostTransaction(r, ok)
    BY <2>2 DEF PostTransaction, QInv, QueueSafe, MetricsTyped
  <2> QED
    BY <2>1, <2>2
<1> QED
  BY <1>1, <1>2 DEF QInv, QueueSafe, MetricsTyped, Awake, Flushed, Silent, Polls, queueVars

LEMMA NoMore == ASSUME NEW S, NEW s \in Seq(S) PROVE s = << >> <=> Len(s) = 0
OBVIOUS

\* What is left when a metric was posted.
LEMMA Rest ==
  ASSUME QInv, Pop
  PROVE  /\ Len(queue) \in Nat /\ Len(queue) > 0
         /\ queue' \in Seq(Events) /\ Len(queue') = Len(queue) - 1
         /\ \A k \in 1..Len(queue') : queue'[k] = queue[k + 1]
         /\ queue' = << >> <=> Len(queue) = 1
<1>1. queue \in Seq(Events) /\ queue # << >> /\ queue' = Tail(queue)
  BY DEF QInv, QueueSafe, MetricsTyped, Awake, Pop
<1>2. Len(queue) \in Nat /\ Len(queue) > 0
  BY <1>1
<1>3. queue' \in Seq(Events) /\ Len(queue') = Len(queue) - 1
  BY <1>1
<1>4. \A k \in 1..Len(queue') : queue'[k] = queue[k + 1]
  BY <1>1
<1>5. queue' = << >> <=> Len(queue') = 0
  BY <1>3, NoMore
<1> QED
  BY <1>2, <1>3, <1>4, <1>5

LEMMA PopKeeps == ASSUME QInv, Pop PROVE QInv'
<1>1. /\ due \in Nat /\ due' \in Nat /\ due' <= due
      /\ due > 0 => due' = due - 1
  BY DEF QInv, QueueSafe, MetricsTyped, Pop, Less
<1>2. available' = (queue' # << >>)
  BY DEF Pop, Reopened
<1>3. MetricsTyped'
  BY <1>1, <1>2, Rest DEF QInv, QueueSafe, MetricsTyped, Pop
<1>4. Flushed' /\ Polls'
  BY <1>1, Rest DEF QInv, QueueSafe, MetricsTyped, Flushed, Polls, Pop
<1>5. Awake' /\ Silent'
  BY <1>2 DEF QInv, QueueSafe, Polls, Awake, Silent, Pop
<1> QED
  BY <1>3, <1>4, <1>5 DEF QInv, QueueSafe

LEMMA DispatchKeeps == ASSUME QInv, Dispatch PROVE QInv'
BY DEF Dispatch, QInv, QueueSafe, MetricsTyped, Awake, Flushed, Silent, Polls, queueVars

LEMMA PollingKeeps == ASSUME QInv, RPolling \/ RFailedPost PROVE QInv'
BY PostKeeps, PopKeeps, DispatchKeeps DEF RPolling, RFailedPost, Polling

-----------------------------------------------------------------------------
(***************************************************************************)
(* What this client pushes, and who its user is.                           *)
(***************************************************************************)

\* A stop begins when nobody is logged in any more.
Alone == /\ kind \in {"ghost", "onboarding"} /\ session \in {"none", "me", "other"}
         /\ told \in Nat
         /\ stopping # "no" => session = "none"

SInv == QInv /\ OnboardingTyped /\ Signed /\ Alone

\* What is pushed by each step is a sequence of metrics.
LEMMA Pushed ==
  /\ FailedIf \in Seq(Events) /\ Ending \in Seq(Events)
  /\ \A e \in UserEvents \union UiEvents : <<e>> \in Seq(Events)
  /\ \A e \in {"created", "accepted", "begin", "end", "users"} \union Endings : <<e>> \in Seq(Events)
  /\ <<"begin", "end", "failed">> \in Seq(Events) /\ <<"users", "users">> \in Seq(Events)
  /\ Ending \o <<"users">> \in Seq(Events) /\ Ending \o << >> \in Seq(Events)
<1>1. {"created", "accepted", "begin", "end", "users", "failed"} \subseteq Events
  BY EventFacts
<1>2. FailedIf \in Seq(Events) /\ Ending \in Seq(Events)
  BY <1>1, Several DEF FailedIf, Ending
<1>3. Ending \o <<"users">> \in Seq(Events) /\ Ending \o << >> \in Seq(Events)
  BY <1>1, <1>2, Several
<1>4. <<"begin", "end", "failed">> \in Seq(Events) /\ <<"users", "users">> \in Seq(Events)
  BY <1>1, Several
<1> QED
  BY <1>1, <1>2, <1>3, <1>4, Several, EventFacts

LEMMA StillTyped == ASSUME OnboardingTyped, UNCHANGED welcomeVars PROVE OnboardingTyped'
BY DEF OnboardingTyped, welcomeVars

LEMMA NoTick == 0 \in 0..Ticks
BY OnboardingAssumption

LEMMA GhostPushes ==
  ASSUME SInv, Busy("ghost"), RStep \/ RBroken \/ RRefused \/ RRestart
  PROVE  SInv'
<1>1. PICK events \in Seq(Events) : Push(events) /\ Apart /\ UNCHANGED welcomeVars
  <2>1. CASE RQuiet \/ RAccept \/ RLocate \/ RDownloaded \/ RBroken \/ RRefused \/ RRestart
    BY <2>1, Pushed, Several
    DEF RQuiet, RAccept, RLocate, RDownloaded, RBroken, RRefused, RRestart, Ghostly
  <2>2. CASE RRequest
    BY <2>2, Pushed DEF RRequest, Ghostly
  <2>3. CASE RAnswered
    <3>1. Outcome \in Endings
      BY DEF Outcome, Endings
    <3> QED
      BY <2>3, <3>1, Pushed DEF RAnswered, Ghostly
  <2> QED
    BY <2>1, <2>2, <2>3 DEF RStep
<1>2. UNCHANGED <<muted, pollVars, stopping, due, sender, kind, session, told>>
  BY <1>1 DEF Apart
<1>3. sender \in {"unknown", "me", "other"} /\ On
  BY DEF SInv, QInv, QueueSafe, MetricsTyped, Busy
<1>4. QInv'
  BY <1>1, <1>2, <1>3, PushKeeps DEF SInv
<1> QED
  BY <1>1, <1>2, <1>4, StillTyped DEF SInv, Signed, Alone

LEMMA WelcomeTypes ==
  ASSUME OnboardingTyped, WelcomeStep \/ ForgetWelcome
  PROVE  OnboardingTyped'
<1> USE DEF OnboardingTyped
<1>0. CASE ForgetWelcome
  BY <1>0, NoTick DEF ForgetWelcome
<1>1. CASE BeginWelcome
  BY <1>1 DEF BeginWelcome
<1>2. CASE Rejected \/ Canceled \/ Copy \/ CopyFails \/ Failed
  BY <1>2 DEF Rejected, Canceled, Copy, CopyFails, Failed, Conclude
<1>3. CASE Meet
  BY <1>3 DEF Meet, Leg
<1>4. CASE Tick
  BY <1>4, OnboardingAssumption DEF Tick
<1> QED
  BY <1>0, <1>1, <1>2, <1>3, <1>4 DEF WelcomeStep

LEMMA WelcomePushes == ASSUME SInv, RWelcome PROVE SInv'
<1>1. OnboardingTyped'
  BY WelcomeTypes DEF SInv, RWelcome
<1>2. /\ UNCHANGED <<muted, pollVars, stopping, due, sender, kind, session, told>>
      /\ sender \in {"unknown", "me", "other"} /\ On
  BY DEF RWelcome, Welcomed, Apart, Busy, SInv, QInv, QueueSafe, MetricsTyped
<1>3. UNCHANGED queueVars \/ \E events \in Seq(Events) : Push(events)
  <2>1. CASE BeginWelcome \/ Meet \/ Tick
    BY <2>1 DEF BeginWelcome, Meet, Leg, Tick
  <2>2. CASE Rejected \/ Canceled \/ Copy \/ CopyFails \/ Failed
    BY <2>2, Pushed, EventFacts DEF Rejected, Canceled, Copy, CopyFails, Failed, Conclude
  <2> QED
    BY <2>1, <2>2 DEF RWelcome, WelcomeStep
<1>4. QInv'
  <2>1. CASE UNCHANGED queueVars
    BY <2>1, <1>2 DEF SInv, QInv, QueueSafe, MetricsTyped, Awake, Flushed, Silent, Polls,
                      queueVars, pollVars
  <2>2. CASE \E events \in Seq(Events) : Push(events)
    BY <2>2, <1>2, PushKeeps DEF SInv
  <2> QED
    BY <1>3, <2>1, <2>2
<1> QED
  BY <1>1, <1>2, <1>4 DEF SInv, Signed, Alone

LEMMA ClicksPush == ASSUME SInv, RClicks PROVE SInv'
<1>1. OnboardingTyped'
  <2> USE DEF SInv, OnboardingTyped
  <2>1. CASE StartOnboarding
    BY <2>1 DEF StartOnboarding
  <2>2. CASE AcceptWelcome
    BY <2>2 DEF AcceptWelcome, Click
  <2>3. CASE RejectWelcome \/ CancelWelcome
    BY ZenonT(30), <2>3 DEF RejectWelcome, CancelWelcome, Click
  <2>4. CASE \E up \in BOOLEAN : SetAvailability(up)
    BY <2>4 DEF SetAvailability
  <2> QED
    BY <2>1, <2>2, <2>3, <2>4 DEF RClicks
<1>2. /\ UNCHANGED <<muted, pollVars, stopping, due, sender, kind, session, told>>
      /\ sender \in {"unknown", "me", "other"} /\ On
  BY DEF RClicks, Welcomed, Apart, Busy, SInv, QInv, QueueSafe, MetricsTyped
<1>3. UNCHANGED queueVars \/ \E events \in Seq(Events) : Push(events)
  BY Pushed, EventFacts
  DEF RClicks, StartOnboarding, AcceptWelcome, RejectWelcome, CancelWelcome, Click
<1>4. QInv'
  <2>1. CASE UNCHANGED queueVars
    BY <2>1, <1>2 DEF SInv, QInv, QueueSafe, MetricsTyped, Awake, Flushed, Silent, Polls,
                      queueVars, pollVars
  <2>2. CASE \E events \in Seq(Events) : Push(events)
    BY <2>2, <1>2, PushKeeps DEF SInv
  <2> QED
    BY <1>3, <2>1, <2>2
<1> QED
  BY <1>1, <1>2, <1>4 DEF SInv, Signed, Alone

LEMMA InterruptTypes == ASSUME OnboardingTyped, Interrupt PROVE OnboardingTyped'
BY WelcomeTypes DEF Interrupt

LEMMA UserPushes ==
  ASSUME SInv,
         \/ \E event \in UserEvents \union UiEvents : Use(event)
         \/ \E user \in {"me", "other"} : LogOut(user) \/ Connect(user)
         \/ Attempt
  PROVE  SInv'
<1>1. PICK events \in Seq(Events) : Push(events)
  BY Pushed DEF Use, LogOut, Connect, LogIn, Attempt
<1>2. UNCHANGED <<muted, pollVars, stopping, due, kind>> /\ On
  BY DEF Use, LogOut, Connect, LogIn, Attempt
<1>3. sender' \in {"unknown", "me", "other"}
  BY DEF Use, LogOut, Connect, LogIn, Attempt, SInv, QInv, QueueSafe, MetricsTyped
<1>4. QInv'
  BY <1>1, <1>2, <1>3, PushKeeps DEF SInv
<1>5. OnboardingTyped'
  <2>1. CASE \E user \in {"me", "other"} : LogOut(user)
    BY <2>1, InterruptTypes, StillTyped DEF LogOut, SInv
  <2>2. CASE \/ \E event \in UserEvents \union UiEvents : Use(event)
             \/ \E user \in {"me", "other"} : Connect(user)
             \/ Attempt
    BY <2>2, StillTyped DEF Use, Connect, LogIn, Attempt, SInv
  <2> QED
    BY <2>1, <2>2
<1>6. Signed' /\ Alone'
  <2>1. CASE (\E event \in UserEvents \union UiEvents : Use(event)) \/ Attempt
    <3>1. told' = told + 1 /\ UNCHANGED <<kind, session>> /\ stopping = "no"
      BY <1>2, <2>1 DEF Use, Attempt, Told, On
    <3>2. session = "none" \/ UNCHANGED sender
      BY <2>1 DEF Use, Attempt
    <3> QED
      BY <1>2, <3>1, <3>2 DEF SInv, Signed, Alone
  <2>2. CASE \E user \in {"me", "other"} : LogOut(user)
    BY <1>2, <2>2 DEF LogOut, SInv, Signed, Alone, On
  <2>3. CASE \E user \in {"me", "other"} : Connect(user)
    BY <1>2, <2>3 DEF Connect, LogIn, Told, SInv, Signed, Alone, On
  <2> QED
    BY <2>1, <2>2, <2>3
<1> QED
  BY <1>4, <1>5, <1>6 DEF SInv

LEMMA StopsKeep == ASSUME SInv, Quit \/ Leave \/ Die \/ Launch PROVE SInv'
<1>1. QInv'
  <2>1. CASE Quit
    <3>1. PICK events \in Seq(Events) : Push(events)
      BY <2>1, Pushed DEF Quit
    <3> QED
      BY <2>1, <3>1, StopKeeps DEF Quit, SInv
  <2>2. CASE Leave \/ Die
    BY <2>2, TerminateKeeps DEF Leave, Die, EndStop, SInv
  <2>3. CASE Launch
    BY <2>3, StartKeeps DEF Launch, SInv
  <2> QED
    BY <2>1, <2>2, <2>3
<1>2. OnboardingTyped'
  <2>1. CASE Quit \/ Die
    BY <2>1, InterruptTypes DEF Quit, Die, SInv
  <2>2. CASE Leave \/ Launch
    BY <2>2, StillTyped DEF Leave, Launch, SInv
  <2> QED
    BY <2>1, <2>2
<1>3. Signed' /\ Alone'
  BY DEF Quit, Leave, Die, Launch, EndStop, Terminate, StartPoll, BeginStop, SInv, Signed, Alone
<1> QED
  BY <1>1, <1>2, <1>3 DEF SInv

LEMMA ReporterKeeps == ASSUME SInv, [RNext]_rvars PROVE SInv'
<1>1. CASE RStep \/ RBroken \/ RRefused \/ RRestart
  BY <1>1, GhostPushes DEF RStep, RBroken, RRefused, RRestart
<1>2. CASE RUpload \/ UNCHANGED rvars
  <2>1. UNCHANGED <<metricsVars, welcomeVars, kind, session, told>>
    BY <1>2 DEF RUpload, rvars
  <2>2. QInv' /\ UNCHANGED <<sender, stopping>>
    BY <2>1, UntoldKeeps DEF metricsVars, SInv
  <2> QED
    BY <2>1, <2>2, StillTyped DEF SInv, Signed, Alone
<1>3. CASE RPolling \/ RFailedPost
  <2>1. QInv' /\ UNCHANGED <<welcomeVars, kind, session, told>>
    BY <1>3, PollingKeeps DEF RPolling, RFailedPost, SInv
  <2>2. UNCHANGED sender /\ (stopping' # "no" => stopping # "no")
    BY <1>3
    DEF RPolling, RFailedPost, Polling, Dispatch, Pop, PostUser, PostUi, PostTransaction
  <2> QED
    BY <2>1, <2>2, StillTyped DEF SInv, Signed, Alone
<1> QED
  BY <1>1, <1>2, <1>3, WelcomePushes, ClicksPush, UserPushes, StopsKeep DEF RNext

LEMMA ReporterStarts == RInit => SInv
<1> SUFFICES ASSUME RInit PROVE SInv
  OBVIOUS
<1>1. QInv
  BY QInit DEF RInit
<1>2. OnboardingTyped
  BY NoTick DEF RInit, OnboardingInit, OnboardingTyped
<1>3. Signed /\ Alone
  BY DEF RInit, MetricsInit, Signed, Alone
<1> QED
  BY <1>1, <1>2, <1>3 DEF SInv

LEMMA ReporterForEver == RSpec => []SInv
BY ReporterStarts, ReporterKeeps, PTL DEF RSpec

\* The thread at its barrier passes it when and only when there is a metric, a stop that was
\* signaled leaves nothing that was reported before it, a client that is muted tells nothing,
\* and whoever is logged in is whom the posts name (Reporter.cc, State.cc).
THEOREM ReportsKept == RSpec => []ReporterSafe
<1>1. SInv => ReporterSafe
  BY DEF SInv, QInv, ReporterSafe
<1> QED
  BY <1>1, ReporterForEver, PTL

-----------------------------------------------------------------------------
(***************************************************************************)
(* What is the last ending of a queue.                                     *)
(***************************************************************************)

LastFrom(q, n, w) == \E k \in n..Len(q) : q[k] = w /\ \A j \in n..Len(q) : j > k => q[j] \notin Endings
NoneFrom(q, n) == \A k \in n..Len(q) : q[k] \notin Endings

LEMMA Joined ==
  ASSUME NEW q \in Seq(Events), NEW e \in Seq(Events)
  PROVE  /\ Len(q) \in Nat /\ Len(e) \in Nat /\ Len(q \o e) = Len(q) + Len(e)
         /\ \A k \in 1..Len(q) : (q \o e)[k] = q[k]
         /\ \A k \in 1..Len(e) : (q \o e)[Len(q) + k] = e[k]
OBVIOUS

\* Metrics that are no ending change nothing.
LEMMA CalmPush ==
  ASSUME NEW q \in Seq(Events), NEW e \in Seq(Events), NEW n \in Nat, 1 <= n, n <= Len(q) + 1,
         \A k \in 1..Len(e) : e[k] \notin Endings
  PROVE  /\ NoneFrom(q \o e, n) <=> NoneFrom(q, n)
         /\ \A w \in Endings : LastFrom(q \o e, n, w) <=> LastFrom(q, n, w)
<1> DEFINE s == q \o e
<1>1. /\ Len(q) \in Nat /\ Len(e) \in Nat /\ Len(s) = Len(q) + Len(e)
      /\ \A k \in n..Len(q) : s[k] = q[k]
  BY Joined
<1>2. \A k \in n..Len(s) : k > Len(q) => s[k] \notin Endings
  <2> SUFFICES ASSUME NEW k \in n..Len(s), k > Len(q) PROVE s[k] \notin Endings
    OBVIOUS
  <2>1. k - Len(q) \in 1..Len(e) /\ k = Len(q) + (k - Len(q))
    BY <1>1
  <2>2. s[Len(q) + (k - Len(q))] = e[k - Len(q)]
    BY <2>1, Joined
  <2> QED
    BY <2>1, <2>2
<1> HIDE DEF s
<1>3. NoneFrom(s, n) <=> NoneFrom(q, n)
  <2>1. ASSUME NoneFrom(s, n), NEW k \in n..Len(q) PROVE q[k] \notin Endings
    BY <1>1, <2>1 DEF NoneFrom
  <2>2. ASSUME NoneFrom(q, n), NEW k \in n..Len(s) PROVE s[k] \notin Endings
    <3>1. k > Len(q) \/ (k \in n..Len(q) /\ s[k] = q[k])
      BY <1>1
    <3> QED
      BY <3>1, <1>2, <2>2 DEF NoneFrom
  <2> QED
    BY <2>1, <2>2 DEF NoneFrom
<1>4. \A w \in Endings : LastFrom(s, n, w) <=> LastFrom(q, n, w)
  <2> SUFFICES ASSUME NEW w \in Endings PROVE LastFrom(s, n, w) <=> LastFrom(q, n, w)
    OBVIOUS
  <2>1. ASSUME LastFrom(s, n, w) PROVE LastFrom(q, n, w)
    <3>1. PICK k \in n..Len(s) : s[k] = w /\ \A j \in n..Len(s) : j > k => s[j] \notin Endings
      BY <2>1 DEF LastFrom
    <3>2. k \in n..Len(q)
      BY <1>1, <1>2, <3>1
    <3>3. q[k] = w /\ \A j \in n..Len(q) : j > k => q[j] \notin Endings
      BY <1>1, <3>1, <3>2
    <3> QED
      BY <3>2, <3>3 DEF LastFrom
  <2>2. ASSUME LastFrom(q, n, w) PROVE LastFrom(s, n, w)
    <3>1. PICK k \in n..Len(q) : q[k] = w /\ \A j \in n..Len(q) : j > k => q[j] \notin Endings
      BY <2>2 DEF LastFrom
    <3>2. k \in n..Len(s) /\ s[k] = w
      BY <1>1, <3>1
    <3>3. \A j \in n..Len(s) : j > k => s[j] \notin Endings
      BY <1>1, <1>2, <3>1
    <3> QED
      BY <3>2, <3>3 DEF LastFrom
  <2> QED
    BY <2>1, <2>2
<1> QED
  BY <1>3, <1>4 DEF s

\* An ending that comes last is the last.
LEMMA LoudPush ==
  ASSUME NEW q \in Seq(Events), NEW e \in Seq(Events), NEW n \in Nat, 1 <= n, n <= Len(q) + 1,
         NEW last \in Endings, Len(e) > 0, e[Len(e)] = last
  PROVE  /\ ~NoneFrom(q \o e, n)
         /\ \A w \in Endings : LastFrom(q \o e, n, w) <=> w = last
<1> DEFINE s == q \o e
<1>1. Len(q) \in Nat /\ Len(e) \in Nat /\ Len(s) = Len(q) + Len(e)
  BY Joined
<1>2. Len(e) \in 1..Len(e)
  BY <1>1
<1>3. s[Len(q) + Len(e)] = e[Len(e)]
  BY <1>2, Joined
<1>4. s[Len(s)] = last /\ Len(s) \in n..Len(s)
  BY <1>1, <1>3
<1> HIDE DEF s
<1>5. ~NoneFrom(s, n)
  BY <1>4 DEF NoneFrom
<1>6. \A w \in Endings : LastFrom(s, n, w) <=> w = last
  <2> SUFFICES ASSUME NEW w \in Endings PROVE LastFrom(s, n, w) <=> w = last
    OBVIOUS
  <2>1. ASSUME LastFrom(s, n, w) PROVE w = last
    <3>1. PICK k \in n..Len(s) : s[k] = w /\ \A j \in n..Len(s) : j > k => s[j] \notin Endings
      BY <2>1 DEF LastFrom
    <3> QED
      BY <1>1, <1>4, <3>1
  <2>2. ASSUME w = last PROVE LastFrom(s, n, w)
    <3>1. \A j \in n..Len(s) : ~(j > Len(s))
      BY <1>1
    <3> QED
      BY <1>4, <2>2, <3>1 DEF LastFrom
  <2> QED
    BY <2>1, <2>2
<1> QED
  BY <1>5, <1>6 DEF s

\* The metric at the head.
LEMMA HeadOf ==
  ASSUME NEW q \in Seq(Events), q # << >>
  PROVE  /\ Head(q) \notin Endings =>
              /\ NoneFrom(q, 1) <=> NoneFrom(q, 2)
              /\ \A w \in Endings : LastFrom(q, 1, w) <=> LastFrom(q, 2, w)
         /\ Head(q) \in Endings =>
              /\ ~NoneFrom(q, 1)
              /\ \A w \in Endings :
                   LastFrom(q, 1, w) <=> LastFrom(q, 2, w) \/ (w = Head(q) /\ NoneFrom(q, 2))
<1>1. Len(q) \in Nat /\ Len(q) > 0 /\ Head(q) = q[1]
  OBVIOUS
<1>2. \A k \in 1..Len(q) : k = 1 \/ k \in 2..Len(q)
  BY <1>1
<1>3. \A k \in 2..Len(q) : k \in 1..Len(q) /\ k > 1
  BY <1>1
<1>4. 1 \in 1..Len(q)
  BY <1>1
<1>5. NoneFrom(q, 1) <=> Head(q) \notin Endings /\ NoneFrom(q, 2)
  BY <1>1, <1>2, <1>3, <1>4 DEF NoneFrom
<1>6. \A w \in Endings : LastFrom(q, 2, w) => LastFrom(q, 1, w)
  <2> SUFFICES ASSUME NEW w \in Endings, LastFrom(q, 2, w) PROVE LastFrom(q, 1, w)
    OBVIOUS
  <2>1. PICK k \in 2..Len(q) : q[k] = w /\ \A j \in 2..Len(q) : j > k => q[j] \notin Endings
    BY DEF LastFrom
  <2>2. \A j \in 1..Len(q) : j > k => q[j] \notin Endings
    BY <1>1, <2>1
  <2> QED
    BY <1>3, <2>1, <2>2 DEF LastFrom
<1>7. \A w \in Endings : LastFrom(q, 1, w) => LastFrom(q, 2, w) \/ (w = Head(q) /\ NoneFrom(q, 2))
  <2> SUFFICES ASSUME NEW w \in Endings, LastFrom(q, 1, w)
               PROVE  LastFrom(q, 2, w) \/ (w = Head(q) /\ NoneFrom(q, 2))
    OBVIOUS
  <2>1. PICK k \in 1..Len(q) : q[k] = w /\ \A j \in 1..Len(q) : j > k => q[j] \notin Endings
    BY DEF LastFrom
  <2>2. CASE k = 1
    <3>1. \A j \in 2..Len(q) : q[j] \notin Endings
      BY <1>3, <2>1, <2>2
    <3> QED
      BY <1>1, <2>1, <2>2, <3>1 DEF NoneFrom
  <2>3. CASE k \in 2..Len(q)
    BY <1>3, <2>1, <2>3 DEF LastFrom
  <2> QED
    BY <1>2, <2>2, <2>3
<1>8. \A w \in Endings : w = Head(q) /\ NoneFrom(q, 2) => LastFrom(q, 1, w)
  <2>1. ASSUME NoneFrom(q, 2) PROVE \A j \in 1..Len(q) : j > 1 => q[j] \notin Endings
    BY <1>1, <1>2, <2>1 DEF NoneFrom
  <2> QED
    BY <1>1, <1>4, <2>1 DEF LastFrom
<1> QED
  BY <1>5, <1>6, <1>7, <1>8

LEMMA TailOf ==
  ASSUME NEW q \in Seq(Events), q # << >>
  PROVE  /\ NoneFrom(Tail(q), 1) <=> NoneFrom(q, 2)
         /\ \A w \in Endings : LastFrom(Tail(q), 1, w) <=> LastFrom(q, 2, w)
<1> DEFINE t == Tail(q)
<1>1. /\ t \in Seq(Events) /\ Len(t) = Len(q) - 1 /\ Len(q) \in Nat /\ Len(q) > 0
      /\ \A k \in 1..Len(t) : t[k] = q[k + 1]
  OBVIOUS
<1> HIDE DEF t
<1>2. \A k \in 2..Len(q) : k - 1 \in 1..Len(t) /\ q[k] = t[k - 1]
  <2> SUFFICES ASSUME NEW k \in 2..Len(q) PROVE k - 1 \in 1..Len(t) /\ q[k] = t[k - 1]
    OBVIOUS
  <2>1. k - 1 \in 1..Len(t) /\ (k - 1) + 1 = k
    BY <1>1
  <2>2. t[k - 1] = q[(k - 1) + 1]
    BY <1>1, <2>1
  <2> QED
    BY <2>1, <2>2
<1>3. \A k \in 1..Len(t) : k + 1 \in 2..Len(q)
  BY <1>1
<1>4. NoneFrom(t, 1) <=> NoneFrom(q, 2)
  BY <1>1, <1>2, <1>3 DEF NoneFrom
<1>5. \A w \in Endings : LastFrom(t, 1, w) <=> LastFrom(q, 2, w)
  <2> SUFFICES ASSUME NEW w \in Endings PROVE LastFrom(t, 1, w) <=> LastFrom(q, 2, w)
    OBVIOUS
  <2>1. ASSUME LastFrom(t, 1, w) PROVE LastFrom(q, 2, w)
    <3>1. PICK k \in 1..Len(t) : t[k] = w /\ \A j \in 1..Len(t) : j > k => t[j] \notin Endings
      BY <2>1 DEF LastFrom
    <3>2. k + 1 \in 2..Len(q) /\ q[k + 1] = w
      BY <1>1, <1>3, <3>1
    <3>3. \A j \in 2..Len(q) : j > k + 1 => q[j] \notin Endings
      BY <1>2, <3>1
    <3> QED
      BY <3>2, <3>3 DEF LastFrom
  <2>2. ASSUME LastFrom(q, 2, w) PROVE LastFrom(t, 1, w)
    <3>1. PICK k \in 2..Len(q) : q[k] = w /\ \A j \in 2..Len(q) : j > k => q[j] \notin Endings
      BY <2>2 DEF LastFrom
    <3>2. k - 1 \in 1..Len(t) /\ t[k - 1] = w
      BY <1>2, <3>1
    <3>3. \A j \in 1..Len(t) : j > k - 1 => t[j] \notin Endings
      BY <1>1, <1>3, <3>1
    <3> QED
      BY <3>2, <3>3 DEF LastFrom
  <2> QED
    BY <2>1, <2>2
<1> QED
  BY <1>4, <1>5 DEF t

-----------------------------------------------------------------------------
(***************************************************************************)
(* The last word on a transaction: the last ending that a reporter has     *)
(* still to post or, if there is none, the last that it posted.            *)
(***************************************************************************)

First(r) == IF poll = "dispatch" /\ r \notin posting THEN 2 ELSE 1

Word(r, w) == \/ LastFrom(queue, First(r), w)
              \/ seen[r] = w /\ NoneFrom(queue, First(r))

\* The machines are apart, and the end of a reception is told again until it is over.
Ways == /\ kind = "ghost" => stage = "none"
        /\ kind = "onboarding" =>
             status = "initialized" /\ saved = "upload" /\ at \in {"upload", "off"}
        /\ saved = "fail" => at \in {"fail", "answer", "done", "off"}
        /\ saved = "finish" => at \in {"finish", "remove", "report", "answer", "done", "off"}
        /\ stage = "over" => outcome \in Endings

\* The reception failed, whether the server knows or not.
Failure == status = "failed" \/ saved = "fail"

\* The word is how the transaction ended, and is said of nothing else: a failure from
\* the moment it is saved, and the rest when the server has answered.
SpokenOf(r) ==
  /\ Failure => Word(r, "failed")
  /\ status = "finished" => Word(r, "finished") \/ saved = "finish" \/ untold
  /\ at = "done" => Word(r, Outcome) \/ untold
  /\ stage = "over" /\ ~late => Word(r, outcome)
  /\ kind = "ghost" => (Word(r, "finished") => status = "finished")
  /\ kind = "ghost" => (Word(r, "failed") => Failure \/ untold)
  /\ kind = "onboarding" => (Word(r, "finished") => copied)

Spoken == ~muted => \A r \in Reporters : ~missed[r] => SpokenOf(r)

LInv == SInv /\ GInv /\ Ways /\ Spoken

\* The word of a reporter that misses nothing stays.
Heard == ~muted => \A r \in Reporters : ~missed'[r] =>
                     ~missed[r] /\ \A w \in Endings : Word(r, w)' <=> Word(r, w)

LEMMA FinalEndings == Final \subseteq Endings /\ "finished" \in Endings /\ "failed" \in Endings
BY DEF Final, Endings

LEMMA Firsts ==
  ASSUME QInv, NEW r \in Reporters
  PROVE  /\ First(r) \in Nat /\ 1 <= First(r) /\ First(r) <= Len(queue) + 1
         /\ Untried(r) = First(r)..Len(queue)
         /\ queue \in Seq(Events) /\ Len(queue) \in Nat
<1>1. queue \in Seq(Events) /\ Len(queue) \in Nat
  BY DEF QInv, QueueSafe, MetricsTyped
<1>2. poll = "dispatch" => Len(queue) > 0
  BY <1>1 DEF QInv, QueueSafe, Awake
<1> QED
  BY <1>1, <1>2 DEF First, Untried

LEMMA CalmHeard ==
  ASSUME QInv, NEW events \in Seq(Events), Push(events), UNCHANGED <<muted, pollVars>>,
         \A k \in 1..Len(events) : events[k] \notin Endings
  PROVE  Heard
<1> SUFFICES ASSUME ~muted, NEW r \in Reporters, ~missed'[r]
             PROVE  ~missed[r] /\ \A w \in Endings : Word(r, w)' <=> Word(r, w)
  BY DEF Heard
<1>1. queue' = queue \o events /\ ~missed[r] /\ seen' = seen /\ First(r)' = First(r)
  BY DEF Push, Queued, pollVars, First
<1>2. /\ NoneFrom(queue', First(r)) <=> NoneFrom(queue, First(r))
      /\ \A w \in Endings : LastFrom(queue', First(r), w) <=> LastFrom(queue, First(r), w)
  BY <1>1, Firsts, CalmPush
<1> QED
  BY <1>1, <1>2 DEF Word

LEMMA LoudHeard ==
  ASSUME QInv, NEW events \in Seq(Events), Push(events), UNCHANGED <<muted, pollVars>>, ~muted,
         NEW last \in Endings, Len(events) > 0, events[Len(events)] = last,
         NEW r \in Reporters
  PROVE  \A w \in Endings : Word(r, w)' <=> w = last
<1>1. queue' = queue \o events /\ seen' = seen /\ First(r)' = First(r)
  BY DEF Push, Queued, pollVars, First
<1>2. /\ ~NoneFrom(queue', First(r))
      /\ \A w \in Endings : LastFrom(queue', First(r), w) <=> w = last
  BY <1>1, Firsts, LoudPush
<1> QED
  BY <1>1, <1>2 DEF Word

LEMMA SameHeard == ASSUME UNCHANGED <<queue, poll, posting, seen, missed>> PROVE Heard
BY DEF Heard, Word, First

LEMMA DispatchHeard == ASSUME QInv, Dispatch PROVE Heard
BY DEF Dispatch, Heard, Word, First, queueVars

LEMMA PopHeard == ASSUME QInv, Pop PROVE Heard
<1>1. queue \in Seq(Events) /\ queue # << >> /\ queue' = Tail(queue)
  BY DEF QInv, QueueSafe, MetricsTyped, Awake, Pop
<1>2. \A r \in Reporters : First(r) = 2 /\ First(r)' = 1 /\ seen' = seen /\ missed' = missed
  BY DEF Pop, First
<1>3. /\ NoneFrom(queue', 1) <=> NoneFrom(queue, 2)
      /\ \A w \in Endings : LastFrom(queue', 1, w) <=> LastFrom(queue, 2, w)
  BY <1>1, TailOf
<1> QED
  BY <1>2, <1>3 DEF Heard, Word

LEMMA PostHeard ==
  ASSUME QInv, NEW r \in Reporters,
         PostUser(r) \/ PostUi(r) \/ \E ok \in BOOLEAN : PostTransaction(r, ok)
  PROVE  Heard
<1> SUFFICES ASSUME ~muted, NEW s \in Reporters, ~missed'[s]
             PROVE  ~missed[s] /\ \A w \in Endings : Word(s, w)' <=> Word(s, w)
  BY DEF Heard
<1>0. /\ seen \in [Reporters -> Endings \union {Nothing}] /\ missed \in [Reporters -> BOOLEAN]
      /\ queue \in Seq(Events)
  BY DEF QInv, QueueSafe, MetricsTyped
<1>1. poll = "dispatch" /\ r \in posting /\ posting' = posting \ {r} /\ poll' = poll /\ queue' = queue
  BY DEF PostUser, PostUi, PostTransaction, Posted, queueVars
<1>2. queue # << >>
  BY <1>1 DEF QInv, QueueSafe, Awake
<1>3. CASE s # r
  <2>1. seen'[s] = seen[s] /\ missed'[s] = missed[s]
    BY <1>0, <1>3 DEF PostUser, PostUi, PostTransaction
  <2>2. First(s)' = First(s)
    BY <1>1, <1>3 DEF First
  <2> QED
    BY <1>1, <2>1, <2>2 DEF Word
<1>4. CASE s = r
  <2>1. First(r) = 1 /\ First(r)' = 2
    BY <1>1 DEF First
  <2>2. CASE Head(queue) \in Endings
    <3>1. PostTransaction(r, TRUE) /\ ~missed[r]
      <4>1. PICK ok \in BOOLEAN : PostTransaction(r, ok)
        BY <2>2, EventFacts DEF PostUser, PostUi
      <4>2. missed'[r] = (missed[r] \/ ~ok)
        BY <1>0, <4>1 DEF PostTransaction
      <4>3. ok = TRUE /\ ~missed[r]
        BY <1>4, <4>2
      <4> QED
        BY <4>1, <4>3
    <3>2. seen'[r] = Head(queue)
      BY <1>0, <2>2, <3>1 DEF PostTransaction
    <3>3. /\ ~NoneFrom(queue, 1)
          /\ \A w \in Endings :
               LastFrom(queue, 1, w) <=> LastFrom(queue, 2, w) \/ (w = Head(queue) /\ NoneFrom(queue, 2))
      BY <1>0, <1>2, <2>2, HeadOf
    <3> QED
      BY <1>1, <1>4, <2>1, <3>1, <3>2, <3>3 DEF Word
  <2>3. CASE Head(queue) \notin Endings
    <3>1. ~missed[r] /\ seen'[r] = seen[r]
      BY <1>0, <1>4, <2>3 DEF PostUser, PostUi, PostTransaction
    <3>2. /\ NoneFrom(queue, 1) <=> NoneFrom(queue, 2)
          /\ \A w \in Endings : LastFrom(queue, 1, w) <=> LastFrom(queue, 2, w)
      BY <1>0, <1>2, <2>3, HeadOf
    <3> QED
      BY <1>1, <1>4, <2>1, <3>1, <3>2 DEF Word
  <2> QED
    BY <2>2, <2>3
<1> QED
  BY <1>3, <1>4

\* What a process leaves in its queue is missed.
LEMMA TerminateHeard == ASSUME QInv, Terminate PROVE Heard
<1> SUFFICES ASSUME NEW r \in Reporters, ~missed'[r]
             PROVE  ~missed[r] /\ \A w \in Endings : Word(r, w)' <=> Word(r, w)
  BY DEF Heard
<1>1. ~missed[r] /\ \A k \in Untried(r) : queue[k] \notin TransactionEvents
  BY DEF Terminate
<1>2. NoneFrom(queue, First(r)) /\ \A w \in Endings : ~LastFrom(queue, First(r), w)
  BY <1>1, Firsts, EventFacts DEF NoneFrom, LastFrom
<1>3. queue' = << >> /\ seen' = seen /\ First(r)' \in {1, 2}
  BY DEF Terminate, First
<1>4. NoneFrom(<< >>, First(r)') /\ \A w \in Endings : ~LastFrom(<< >>, First(r)', w)
  <2>1. \A n \in {1, 2} : n..Len(<< >>) = {}
    OBVIOUS
  <2> QED
    BY <1>3, <2>1 DEF NoneFrom, LastFrom
<1> QED
  BY <1>1, <1>2, <1>3, <1>4 DEF Word

LEMMA StartHeard == ASSUME QInv, StartPoll PROVE Heard
BY DEF StartPoll, Polled, Heard, Word, First

-----------------------------------------------------------------------------
\* A step that says nothing of how a transaction ends.
LEMMA CalmSpeaks ==
  ASSUME LInv, Heard, UNCHANGED <<muted, kind>>,
         Failure' => Failure,
         status' = "finished" =>
           \/ status = "finished" /\ saved # "finish" /\ ~untold
           \/ at = "done" /\ Outcome = "finished" /\ ~untold
           \/ saved' = "finish" \/ untold',
         at' = "done" => (at = "done" /\ ~untold /\ Outcome' = Outcome) \/ untold',
         status = "finished" => status' = "finished",
         Failure \/ untold => Failure' \/ untold',
         stage' = "over" /\ ~late' => stage = "over" /\ ~late /\ outcome' = outcome,
         copied => copied'
  PROVE  Spoken'
<1> SUFFICES ASSUME ~muted, NEW r \in Reporters, ~missed'[r] PROVE SpokenOf(r)'
  BY DEF Spoken
<1>1. SpokenOf(r) /\ \A w \in Endings : Word(r, w)' <=> Word(r, w)
  BY DEF Heard, LInv, Spoken
<1>2. /\ Word(r, "finished")' <=> Word(r, "finished")
      /\ Word(r, "failed")' <=> Word(r, "failed")
      /\ Outcome \in {"finished", "failed"}
  BY <1>1, FinalEndings DEF Outcome
<1>3. Failure' => Word(r, "failed")'
  BY <1>1, <1>2, Zenon DEF SpokenOf
<1>4. status' = "finished" => Word(r, "finished")' \/ saved' = "finish" \/ untold'
  BY <1>1, <1>2, Zenon DEF SpokenOf
<1>5. at' = "done" => Word(r, Outcome)' \/ untold'
  <2>1. CASE Outcome = "finished"
    BY <1>1, <1>2, <2>1, Zenon DEF SpokenOf, Word
  <2>2. CASE Outcome = "failed"
    BY <1>1, <1>2, <2>2, Zenon DEF SpokenOf, Word
  <2> QED
    BY <1>2, <2>1, <2>2
<1>6. stage' = "over" /\ ~late' => Word(r, outcome)'
  BY <1>1 DEF SpokenOf, LInv, Ways, Word
<1>7. /\ kind' = "ghost" => (Word(r, "finished")' => status' = "finished")
      /\ kind' = "ghost" => (Word(r, "failed")' => Failure' \/ untold')
      /\ kind' = "onboarding" => (Word(r, "finished")' => copied')
  BY <1>1, <1>2, Zenon DEF SpokenOf
<1> QED
  BY <1>3, <1>4, <1>5, <1>6, <1>7, Zenon DEF SpokenOf, Failure, Word

\* A step that says how one ends.
LEMMA LoudSpeaks ==
  ASSUME LInv, Ways', NEW events \in Seq(Events), Push(events), UNCHANGED <<muted, pollVars, kind>>,
         NEW last \in Endings, Len(events) > 0, events[Len(events)] = last,
         kind = "ghost" => \/ last = "failed" /\ saved' = "fail" /\ status' # "finished" /\ at' # "done"
                           \/ last = status' /\ last = Outcome' /\ saved' \in {"finish", "fail"},
         kind = "onboarding" => /\ stage' = "over" /\ ~late' => outcome' = last
                                /\ last = "finished" => copied'
  PROVE  Spoken'
<1> SUFFICES ASSUME ~muted, NEW r \in Reporters PROVE SpokenOf(r)'
  BY DEF Spoken
<1>1. \A w \in Endings : Word(r, w)' <=> w = last
  BY LoudHeard DEF LInv, SInv
<1>2. kind' = kind /\ kind \in {"ghost", "onboarding"}
  BY DEF LInv, SInv, Alone
<1>3. /\ Word(r, "finished")' <=> last = "finished"
      /\ Word(r, "failed")' <=> last = "failed"
  BY <1>1, FinalEndings
<1>4. CASE kind = "onboarding"
  <2>1. status' = "initialized" /\ saved' = "upload" /\ at' \in {"upload", "off"}
    BY <1>2, <1>4 DEF Ways
  <2>2. stage' = "over" /\ ~late' => Word(r, outcome)'
    BY <1>1, <1>4 DEF Ways, Word
  <2> QED
    BY <1>2, <1>3, <1>4, <2>1, <2>2 DEF SpokenOf, Failure, Word
<1>5. CASE kind = "ghost"
  <2>1. stage' # "over"
    BY <1>2, <1>5 DEF Ways
  <2>2. Failure' => Word(r, "failed")'
    BY <1>3, <1>5 DEF Failure, Outcome
  <2>3. status' = "finished" => Word(r, "finished")'
    BY <1>3, <1>5
  <2>4. at' = "done" => Word(r, Outcome)'
    BY <1>1, <1>5 DEF Word
  <2>5. /\ Word(r, "finished")' => status' = "finished"
        /\ Word(r, "failed")' => Failure'
    BY <1>3, <1>5 DEF Failure
  <2> QED
    BY <1>2, <1>5, <2>1, <2>2, <2>3, <2>4, <2>5, Zenon DEF SpokenOf, Failure, Word
<1> QED
  BY <1>2, <1>4, <1>5

\* What is pushed, ending or not.
LEMMA Metrics ==
  /\ \A k \in 1..Len(<< >>) : << >>[k] \notin Endings
  /\ \A e \in {"created", "accepted", "begin", "end", "users", "ui"} :
       \A k \in 1..Len(<<e>>) : <<e>>[k] \notin Endings
  /\ \A k \in 1..Len(<<"users", "users">>) : <<"users", "users">>[k] \notin Endings
  /\ \A e \in Endings : Len(<<e>>) > 0 /\ <<e>>[Len(<<e>>)] = e
  /\ LET e == <<"begin", "end", "failed">> IN Len(e) > 0 /\ e[Len(e)] = "failed"
<1>1. {"created", "accepted", "begin", "end", "users", "ui"} \cap Endings = {}
  BY EventFacts DEF Endings
<1>2. \A k \in 1..Len(<<"users", "users">>) : <<"users", "users">>[k] \notin Endings
  BY <1>1
<1>4. \A e \in {"created", "accepted", "begin", "end", "users", "ui"} :
        \A k \in 1..Len(<<e>>) : <<e>>[k] \notin Endings
  BY <1>1
<1>5. 1..Len(<< >>) = {}
  OBVIOUS
<1> QED
  BY <1>2, <1>4, <1>5

LEMMA EndingCalm ==
  /\ \A k \in 1..Len(Ending \o <<"users">>) : (Ending \o <<"users">>)[k] \notin Endings
  /\ \A k \in 1..Len(Ending \o << >>) : (Ending \o << >>)[k] \notin Endings
<1>1. Ending \in Seq(Events) /\ <<"users">> \in Seq(Events) /\ << >> \in Seq(Events)
  BY Pushed, Several
<1>2. NoneFrom(Ending, 1)
  BY Metrics DEF Ending, NoneFrom
<1>3. Len(Ending) \in Nat
  BY <1>1
<1>4. NoneFrom(Ending \o <<"users">>, 1) /\ NoneFrom(Ending \o << >>, 1)
  BY SMTT(30), <1>1, <1>2, <1>3, Metrics, CalmPush
<1> QED
  BY <1>4 DEF NoneFrom

-----------------------------------------------------------------------------
(***************************************************************************)
(* Each step of the program, and what it says.                             *)
(***************************************************************************)

LEMMA GhostCalm ==
  ASSUME LInv, Busy("ghost"), NEW events \in Seq(Events), Push(events), Apart, UNCHANGED welcomeVars,
         \A k \in 1..Len(events) : events[k] \notin Endings,
         Failure' => Failure,
         status' = "finished" =>
           \/ status = "finished" /\ saved # "finish" /\ ~untold
           \/ at = "done" /\ Outcome = "finished" /\ ~untold
           \/ saved' = "finish" \/ untold',
         at' = "done" => (at = "done" /\ ~untold /\ Outcome' = Outcome) \/ untold',
         status = "finished" => status' = "finished",
         Failure \/ untold => Failure' \/ untold'
  PROVE  Spoken'
<1>1. Heard
  BY CalmHeard DEF LInv, SInv, Apart
<1>2. UNCHANGED <<muted, kind, stage, late, outcome, copied>>
  BY DEF Apart, welcomeVars
<1> QED
  BY <1>1, <1>2, CalmSpeaks

LEMMA GhostLoud ==
  ASSUME LInv, Ways', Busy("ghost"), NEW events \in Seq(Events), Push(events), Apart,
         NEW last \in Endings, Len(events) > 0, events[Len(events)] = last,
         \/ last = "failed" /\ saved' = "fail" /\ status' # "finished" /\ at' # "done"
         \/ last = status' /\ last = Outcome' /\ saved' \in {"finish", "fail"}
  PROVE  Spoken'
<1>1. UNCHANGED <<muted, pollVars, kind>> /\ kind # "onboarding"
  BY DEF Apart, Busy
<1> QED
  BY <1>1, LoudSpeaks

\* The states of the machine while it receives, when the server knows of no end.
LEMMA Receiving ==
  ASSUME LInv, at \in {"upload", "decision", "accept", "locate", "transfer"}
  PROVE  status \notin Final /\ ~Failure /\ saved \notin {"fail", "finish"}
BY DEF LInv, Ways, GInv, Stages, Failure, Final

\* The machine fails before the server knows of an end.
LEMMA GhostWays ==
  ASSUME LInv, Busy("ghost"), RStep \/ RBroken \/ RRefused \/ RRestart
  PROVE  /\ Ways'
         /\ at' = "fail" => saved' = "fail" /\ status' # "finished"
<1>1. kind = "ghost" /\ kind' = "ghost" /\ stage = "none" /\ stage' = "none"
  BY DEF LInv, Ways, Busy, RStep, RQuiet, RAccept, RLocate, RRequest, RDownloaded, RAnswered,
         RBroken, RRefused, RRestart, Ghostly, Apart, welcomeVars
<1>2. /\ saved = "fail" => at \in {"fail", "answer", "done", "off"}
      /\ saved = "finish" => at \in {"finish", "remove", "report", "answer", "done", "off"}
      /\ at = "fail" => saved = "fail"
      /\ at \in {"locate", "transfer"} => status \notin Final
      /\ saved = "fail" => status # "finished"
  BY DEF LInv, Ways, GInv, Stages, Final
<1>3. /\ saved' = "fail" => at' \in {"fail", "answer", "done", "off"}
      /\ saved' = "finish" => at' \in {"finish", "remove", "report", "answer", "done", "off"}
      /\ at' = "fail" => saved' = "fail" /\ status' # "finished"
  <2>1. CASE RQuiet
    BY <1>2, <2>1
    DEF RQuiet, Ghostly, Uploaded, Tell, Read, Finish, Remove, Update, Finalized, End, Enter
  <2>2. CASE RAccept \/ RDownloaded
    BY <1>2, <2>2 DEF RAccept, RDownloaded, Ghostly, Accept, Downloaded, Enter
  <2>3. CASE RLocate \/ RRequest
    BY <1>2, <2>3 DEF RLocate, RRequest, Ghostly, Locate, Request, Enter, Final
  <2>4. CASE RAnswered \/ RRefused
    BY <1>2, <2>4 DEF RAnswered, RRefused, Ghostly, Answered, Refused
  <2>5. CASE RBroken
    BY <1>2, <2>5 DEF RBroken, Ghostly, Broken
  <2>6. CASE RRestart
    <3>1. Deduced \notin {"fail", "finish"}
      BY DEF Deduced
    <3> QED
      BY <1>2, <2>6, <3>1 DEF RRestart, Ghostly, Restart, Enter
  <2> QED
    BY <2>1, <2>2, <2>3, <2>4, <2>5, <2>6 DEF RStep
<1> QED
  BY <1>1, <1>3 DEF Ways

\* What the quiet steps of the machine leave of how it ends.
LEMMA QuietSpeaks ==
  ASSUME LInv, Busy("ghost"), RQuiet \/ RRefused
  PROVE  Spoken'
<1>1. Push(<< >>) /\ Apart /\ UNCHANGED welcomeVars
  BY DEF RQuiet, RRefused, Ghostly
<1>2. CASE Uploaded \/ Tell
  <2>1. status \notin Final /\ status' \notin Final /\ ~Failure /\ ~Failure'
    BY <1>2, Receiving DEF Uploaded, Tell, Enter, Failure, Final
  <2>2. at' # "done" /\ UNCHANGED untold
    BY <1>2 DEF Uploaded, Tell, Enter
  <2> QED
    BY <1>1, <2>1, <2>2, GhostCalm, Several, Metrics DEF Final
<1>3. CASE Read \/ Remove \/ End
  <2>1. UNCHANGED <<status, untold>> /\ at' # "done"
    BY <1>3 DEF Read, Remove, End
  <2>2. Failure' <=> Failure
    BY <1>3 DEF Read, Remove, End, Failure, LInv, Ways
  <2>3. saved = "finish" => saved' = "finish"
    BY <1>3 DEF Read, Remove, End, LInv, Ways
  <2> QED
    BY <1>1, <2>1, <2>2, <2>3, GhostCalm, Several, Metrics
<1>4. CASE Finish
  <2>1. UNCHANGED status /\ at' # "done" /\ saved = "finish" /\ saved' # "fail"
    BY <1>4 DEF Finish, Enter, LInv, GInv, Stages
  <2>2. saved' = "finish" \/ untold'
    BY <1>4, <2>1 DEF Finish
  <2>3. untold => untold'
    BY <1>4 DEF Finish
  <2>4. Failure' <=> Failure
    BY <2>1 DEF Failure
  <2> QED
    BY <1>1, <2>1, <2>2, <2>3, <2>4, GhostCalm, Several, Metrics
<1>5. CASE Update
  <2>1. at' = "answer" /\ UNCHANGED <<saved, untold>> /\ saved \in {"finish", "fail"}
    BY <1>5 DEF Update, LInv, GInv, Stages
  <2>2. status' = Outcome /\ (status \in Final => status' = status)
    BY <1>5 DEF Update
  <2>3. Outcome = "finished" <=> saved = "finish"
    BY DEF Outcome
  <2>4. Failure' <=> Failure
    BY <2>1, <2>2, <2>3 DEF Failure, Outcome, Final
  <2>5. status' = "finished" => saved' = "finish"
    BY <2>1, <2>2, <2>3
  <2> QED
    BY <1>1, <2>1, <2>2, <2>4, <2>5, GhostCalm, Several, Metrics DEF Final
<1>6. CASE Finalized
  <2>1. /\ UNCHANGED <<status, untold>> /\ at = "done" /\ at' = "end" /\ saved' = "end"
        /\ status = Outcome \/ untold
        /\ saved \in {"finish", "fail"}
    BY <1>6 DEF Finalized, Enter, LInv, GInv, Stages
  <2>2. /\ Failure' => Failure
        /\ Failure \/ untold => Failure' \/ untold'
    BY <2>1 DEF Failure, Outcome
  <2>3. status' = "finished" => (at = "done" /\ Outcome = "finished" /\ ~untold) \/ untold'
    BY <2>1
  <2> QED
    BY <1>1, <2>1, <2>2, <2>3, GhostCalm, Several, Metrics
<1>7. CASE Refused
  <2>1. untold' /\ UNCHANGED <<status, saved>>
    BY <1>7 DEF Refused
  <2>2. Failure' <=> Failure
    BY <2>1 DEF Failure
  <2> QED
    BY <1>1, <2>1, <2>2, GhostCalm, Several, Metrics
<1> QED
  BY <1>2, <1>3, <1>4, <1>5, <1>6, <1>7 DEF RQuiet, RRefused, Ghostly

LEMMA GhostSpeaks ==
  ASSUME LInv, Busy("ghost"), RStep \/ RBroken \/ RRefused \/ RRestart
  PROVE  Spoken'
<1>0. Ways' /\ (at' = "fail" => saved' = "fail" /\ status' # "finished")
  BY GhostWays
<1>1. CASE RAccept
  <2>1. Push(<<"accepted">>) /\ Apart /\ UNCHANGED welcomeVars
    BY <1>1 DEF RAccept, Ghostly
  <2>2. UNCHANGED <<status, untold>> /\ status \notin Final /\ at' # "done" /\ ~Failure /\ ~Failure'
    BY <1>1, Receiving DEF RAccept, Ghostly, Accept, Enter, Failure, Final
  <2> QED
    BY <2>1, <2>2, GhostCalm, Pushed, Metrics DEF Final
<1>2. CASE RDownloaded
  <2>1. Push(<<"end">>) /\ Apart /\ UNCHANGED welcomeVars
    BY <1>2 DEF RDownloaded, Ghostly
  <2>2. UNCHANGED <<status, untold>> /\ status \notin Final /\ at' # "done" /\ ~Failure /\ ~Failure'
    BY <1>2, Receiving DEF RDownloaded, Ghostly, Downloaded, Enter, Failure, Final
  <2> QED
    BY <2>1, <2>2, GhostCalm, Pushed, Metrics DEF Final
<1>3. CASE RBroken
  <2>1. Push(<<"end">>) /\ Apart /\ UNCHANGED welcomeVars
    BY <1>3 DEF RBroken, Ghostly
  <2>2. UNCHANGED <<status, untold, saved, at>> /\ at = "transfer"
    BY <1>3 DEF RBroken, Ghostly, Broken, LInv, GInv, Requests
  <2>3. Failure' <=> Failure
    BY <2>2 DEF Failure
  <2>4. status \notin Final
    BY <2>2, Receiving
  <2> QED
    BY <2>1, <2>2, <2>3, <2>4, GhostCalm, Pushed, Metrics DEF Final
<1>4. CASE RLocate \/ RRestart
  <2>1. /\ Push(FailedIf) /\ Apart /\ UNCHANGED welcomeVars /\ UNCHANGED <<status, untold>>
        /\ at' # "done"
    <3>1. Deduced # "done"
      BY DEF Deduced
    <3> QED
      BY <1>4, <3>1 DEF RLocate, RRestart, Ghostly, Locate, Restart, Enter
  <2>2. CASE at' = "fail"
    <3>1. FailedIf = <<"failed">>
      BY <2>2 DEF FailedIf
    <3> QED
      BY <1>0, <2>1, <2>2, <3>1, GhostLoud, Pushed, Metrics, FinalEndings
  <2>3. CASE at' # "fail"
    <3>1. FailedIf = << >>
      BY <2>3 DEF FailedIf
    <3>2. /\ Failure' <=> Failure
          /\ status = "finished" /\ saved = "finish" => saved' = "finish"
      <4>1. CASE RLocate
        BY <2>3, <4>1, Receiving DEF RLocate, Ghostly, Locate, Enter, Failure, Final
      <4>2. CASE RRestart
        <5>1. Deduced # "fail"
          BY DEF Deduced
        <5> QED
          BY <2>3, <4>2, <5>1 DEF RRestart, Ghostly, Restart, Enter, Failure
      <4> QED
        BY <1>4, <4>1, <4>2
    <3> QED
      BY <2>1, <3>1, <3>2, GhostCalm, Several, Metrics
  <2> QED
    BY <2>2, <2>3
<1>5. CASE RRequest
  <2>1. /\ Apart /\ UNCHANGED welcomeVars /\ UNCHANGED <<status, untold>>
        /\ status \notin Final /\ ~Failure /\ at' # "done"
    BY <1>5, Receiving DEF RRequest, Ghostly, Request, Enter
  <2>2. CASE at' = "fail"
    <3>1. Push(<<"begin", "end", "failed">>)
      BY <1>5, <2>2 DEF RRequest, Ghostly
    <3> QED
      BY <1>0, <2>1, <2>2, <3>1, GhostLoud, Pushed, Metrics, FinalEndings
  <2>3. CASE at' # "fail"
    <3>1. Push(<<"begin">>)
      BY <1>5, <2>3 DEF RRequest, Ghostly
    <3>2. ~Failure'
      BY <1>5, <2>1, <2>3 DEF RRequest, Ghostly, Request, Enter, Failure
    <3> QED
      BY <2>1, <3>1, <3>2, GhostCalm, Pushed, Metrics DEF Final
  <2> QED
    BY <2>2, <2>3
<1>6. CASE RAnswered
  <2>1. Push(<<Outcome>>) /\ Apart
    BY <1>6 DEF RAnswered, Ghostly
  <2>2. /\ status' = Outcome /\ Outcome' = Outcome /\ Outcome \in Endings
        /\ saved' \in {"finish", "fail"}
    BY <1>6, FinalEndings DEF RAnswered, Ghostly, Answered, Outcome, LInv, GInv, Stages
  <2> QED
    BY <1>0, <2>1, <2>2, GhostLoud, Pushed, Metrics
<1> QED
  BY <1>1, <1>2, <1>3, <1>4, <1>5, <1>6, QuietSpeaks DEF RStep

LEMMA WelcomeCalm ==
  ASSUME LInv, kind = "onboarding", Heard,
         UNCHANGED <<muted, kind, copied>>, UNCHANGED vars,
         stage' = "over" /\ ~late' => stage = "over" /\ ~late /\ outcome' = outcome
  PROVE  Spoken'
<1>1. /\ UNCHANGED <<status, saved, at, untold>>
      /\ status # "finished" /\ at # "done"
  BY DEF vars, LInv, Ways
<1>2. Failure' <=> Failure
  BY <1>1 DEF Failure
<1> QED
  BY <1>1, <1>2, CalmSpeaks

\* The onboarding never ends on the server.
LEMMA WelcomeWays ==
  ASSUME LInv, kind = "onboarding", kind' = kind, UNCHANGED vars,
         stage' = "over" => outcome' \in Endings
  PROVE  Ways'
BY DEF LInv, Ways, vars

LEMMA WelcomeSpeaks == ASSUME LInv, RWelcome PROVE Ways' /\ Spoken'
<1>0. /\ kind = "onboarding" /\ UNCHANGED <<muted, pollVars, kind>> /\ UNCHANGED vars
  BY DEF RWelcome, Busy, Welcomed, Apart
<1>1. CASE BeginWelcome \/ Meet \/ Tick
  <2>1. UNCHANGED <<queue, copied>> /\ stage' # "over"
    BY <1>1 DEF BeginWelcome, Meet, Leg, Tick, queueVars
  <2>2. Heard
    BY <1>0, <2>1, SameHeard DEF pollVars
  <2> QED
    BY <1>0, <2>1, <2>2, WelcomeCalm, WelcomeWays
<1>2. CASE Rejected \/ Canceled \/ Copy \/ Failed
  <2>1. PICK last \in Endings : Conclude(last) /\ (last = "finished" => copied')
    BY <1>2 DEF Rejected, Canceled, Copy, Failed, Endings
  <2>2. Push(<<last>>) /\ stage' = "over" /\ outcome' = last
    BY <2>1 DEF Conclude
  <2>3. Ways'
    BY <1>0, <2>2, WelcomeWays
  <2> QED
    BY <1>0, <2>1, <2>2, <2>3, LoudSpeaks, Pushed, Metrics
<1>3. CASE CopyFails
  <2>1. Push(<<"failed">>) /\ stage' = "fail"
    BY <1>3 DEF CopyFails
  <2>2. Ways'
    BY <1>0, <2>1, WelcomeWays
  <2> QED
    BY <1>0, <2>1, <2>2, LoudSpeaks, Pushed, Metrics, FinalEndings
<1> QED
  BY <1>1, <1>2, <1>3 DEF RWelcome, WelcomeStep

LEMMA ClicksSpeak == ASSUME LInv, RClicks PROVE Ways' /\ Spoken'
<1>0. kind = "onboarding" /\ UNCHANGED <<muted, pollVars, kind>> /\ UNCHANGED vars
  BY DEF RClicks, Busy, Welcomed, Apart
<1>1. CASE StartOnboarding
  <2>1. Push(<<"created">>) /\ UNCHANGED copied /\ stage' # "over"
    BY <1>1 DEF StartOnboarding
  <2>2. Heard
    BY <1>0, <2>1, CalmHeard, Pushed, Metrics DEF LInv, SInv
  <2> QED
    BY <1>0, <2>1, <2>2, WelcomeCalm, WelcomeWays
<1>2. CASE AcceptWelcome
  <2>1. Push(<<"accepted">>) /\ UNCHANGED <<copied, stage, outcome>> /\ (stage' = "over" => late')
    BY <1>2 DEF AcceptWelcome, Click
  <2>2. Heard
    BY <1>0, <2>1, CalmHeard, Pushed, Metrics DEF LInv, SInv
  <2>3. stage' = "over" => outcome' \in Endings
    BY <2>1 DEF LInv, Ways
  <2> QED
    BY <1>0, <2>1, <2>2, <2>3, WelcomeCalm, WelcomeWays
<1>3. CASE RejectWelcome \/ CancelWelcome
  <2>1. PICK last \in {"rejected", "canceled"} : Click(last)
    BY <1>3 DEF RejectWelcome, CancelWelcome
  <2>2. Push(<<last>>) /\ UNCHANGED <<copied, stage, outcome>> /\ (stage' = "over" => late')
    BY <2>1 DEF Click
  <2>3. last \in Endings /\ last # "finished"
    BY DEF Endings
  <2>4. Ways'
    BY <1>0, <2>2, WelcomeWays DEF LInv, Ways
  <2> QED
    BY <1>0, <2>2, <2>3, <2>4, LoudSpeaks, Pushed, Metrics
<1>4. CASE \E up \in BOOLEAN : SetAvailability(up) /\ UNCHANGED queueVars
  <2>1. UNCHANGED <<queue, copied>> /\ stage' # "over"
    BY <1>4 DEF SetAvailability, queueVars
  <2>2. Heard
    BY <1>0, <2>1, SameHeard DEF pollVars
  <2> QED
    BY <1>0, <2>1, <2>2, WelcomeCalm, WelcomeWays
<1> QED
  BY <1>1, <1>2, <1>3, <1>4 DEF RClicks

\* A step that leaves the transaction and the machines, or forgets them.
LEMMA OtherSpeaks ==
  ASSUME LInv, Heard, UNCHANGED <<muted, kind, status, saved, copied, untold>>,
         at' = at \/ at' = "off",
         UNCHANGED welcomeVars \/ stage' = "none"
  PROVE  Ways' /\ Spoken'
<1>1. Ways'
  BY DEF LInv, Ways, welcomeVars
<1>2. stage' = "over" /\ ~late' => stage = "over" /\ ~late /\ outcome' = outcome
  BY DEF welcomeVars
<1>3. (Failure' <=> Failure) /\ (Outcome' = Outcome)
  BY DEF Failure, Outcome
<1>4. at' = "done" => at = "done"
  OBVIOUS
<1> QED
  BY <1>1, <1>2, <1>3, <1>4, CalmSpeaks

LEMMA Interrupted ==
  ASSUME Interrupt
  PROVE  /\ UNCHANGED <<status, saved, copied, untold>>
         /\ (at' = at \/ at' = "off") /\ stage' = "none"
BY DEF Interrupt, Crash, ForgetWelcome

LEMMA UserSpeaks ==
  ASSUME LInv,
         \/ \E event \in UserEvents \union UiEvents : Use(event)
         \/ \E user \in {"me", "other"} : LogOut(user) \/ Connect(user)
         \/ Attempt
  PROVE  Ways' /\ Spoken'
<1>1. PICK events \in Seq(Events) : Push(events) /\ \A k \in 1..Len(events) : events[k] \notin Endings
  <2>1. CASE \E event \in UserEvents \union UiEvents : Use(event)
    <3>1. PICK event \in {"users", "ui"} : Push(<<event>>)
      BY <2>1 DEF Use, UserEvents, UiEvents
    <3> QED
      BY <3>1, Metrics, EventFacts, Several
  <2>2. CASE \E user \in {"me", "other"} : LogOut(user)
    BY <2>2, Pushed, EndingCalm DEF LogOut
  <2>3. CASE \E user \in {"me", "other"} : Connect(user)
    BY <2>3, Pushed, Metrics DEF Connect, LogIn
  <2>4. CASE Attempt
    BY <2>4, Pushed, Metrics DEF Attempt
  <2> QED
    BY <2>1, <2>2, <2>3, <2>4
<1>2. UNCHANGED <<muted, pollVars, kind>>
  BY DEF Use, LogOut, Connect, LogIn, Attempt
<1>3. Heard
  BY <1>1, <1>2, CalmHeard DEF LInv, SInv
<1>4. /\ UNCHANGED <<status, saved, copied, untold>>
      /\ at' = at \/ at' = "off"
      /\ UNCHANGED welcomeVars \/ stage' = "none"
  BY Interrupted DEF Use, LogOut, Connect, LogIn, Attempt, vars, welcomeVars
<1> QED
  BY <1>2, <1>3, <1>4, OtherSpeaks

LEMMA StopsSpeak == ASSUME LInv, Quit \/ Leave \/ Die \/ Launch PROVE Ways' /\ Spoken'
<1>1. Heard /\ UNCHANGED <<muted, kind>>
  <2>1. CASE Quit
    <3>1. /\ UNCHANGED <<muted, pollVars, kind>>
          /\ Push(Ending \o <<"users">>) \/ Push(Ending \o << >>)
      BY <2>1 DEF Quit
    <3> QED
      BY <3>1, CalmHeard, Pushed, EndingCalm DEF LInv, SInv
  <2>2. CASE Leave \/ Die
    BY <2>2, TerminateHeard DEF Leave, Die, EndStop, Terminate, LInv, SInv
  <2>3. CASE Launch
    BY <2>3, StartHeard DEF Launch, StartPoll, LInv, SInv
  <2> QED
    BY <2>1, <2>2, <2>3
<1>2. /\ UNCHANGED <<status, saved, copied, untold>>
      /\ at' = at \/ at' = "off"
      /\ UNCHANGED welcomeVars \/ stage' = "none"
  BY Interrupted DEF Quit, Leave, Die, Launch, vars, welcomeVars
<1> QED
  BY <1>1, <1>2, OtherSpeaks

LEMMA PollingSpeaks == ASSUME LInv, RPolling \/ RFailedPost \/ UNCHANGED rvars PROVE Ways' /\ Spoken'
<1>1. Heard
  BY DispatchHeard, PopHeard, PostHeard, SameHeard
  DEF RPolling, RFailedPost, Polling, rvars, metricsVars, queueVars, pollVars, LInv, SInv
<1>2. UNCHANGED <<welcomeVars, vars, kind, muted>>
  BY DEF RPolling, RFailedPost, Polling, Dispatch, Pop, PostUser, PostUi, PostTransaction, rvars,
         metricsVars
<1>3. UNCHANGED <<status, saved, copied, at, untold>>
  BY <1>2 DEF vars, welcomeVars
<1> QED
  BY <1>1, <1>2, <1>3, OtherSpeaks

LEMMA UploadSpeaks == ASSUME LInv, RUpload PROVE Ways' /\ Spoken'
<1>1. /\ kind = "ghost" /\ status \notin Final /\ status' \notin Final
      /\ UNCHANGED <<saved, at, kind, untold>> /\ UNCHANGED <<metricsVars, welcomeVars>>
      /\ at # "done"
  BY DEF RUpload, Upload, Final, LInv, GInv, Stages
<1>2. Heard
  BY <1>1, SameHeard DEF metricsVars, queueVars, pollVars
<1>3. Ways'
  BY <1>1 DEF LInv, Ways, welcomeVars
<1>4. /\ UNCHANGED <<muted, copied>>
      /\ stage' = "over" /\ ~late' => stage = "over" /\ ~late /\ outcome' = outcome
  BY <1>1 DEF metricsVars, welcomeVars
<1>5. Failure' <=> Failure
  BY <1>1 DEF Failure, Final
<1> QED
  BY <1>1, <1>2, <1>3, <1>4, <1>5, CalmSpeaks DEF Final

LEMMA LastKeeps == ASSUME LInv, [RNext]_rvars PROVE LInv'
<1>1. SInv' /\ GInv'
  BY ReporterKeeps, ReportedKeeps DEF LInv
<1>2. Ways' /\ Spoken'
  <2>1. CASE RStep \/ RBroken \/ RRefused \/ RRestart
    BY <2>1, GhostWays, GhostSpeaks DEF RStep, RBroken, RRefused, RRestart
  <2> QED
    BY <2>1, UploadSpeaks, WelcomeSpeaks, ClicksSpeak, UserSpeaks, StopsSpeak, PollingSpeaks
    DEF RNext
<1> QED
  BY <1>1, <1>2 DEF LInv

LEMMA LastForEver == RSpec => []LInv
<1>1. RInit => Ways /\ Spoken
  <2> SUFFICES ASSUME RInit PROVE Ways /\ Spoken
    OBVIOUS
  <2>1. /\ status = "initialized" /\ saved = "upload" /\ at = "upload" /\ stage = "none"
        /\ queue = << >>
        /\ seen = [r \in Reporters |-> Nothing]
    BY DEF RInit, Init, OnboardingInit, MetricsInit
  <2>2. Ways
    BY <2>1 DEF Ways
  <2>3. \A r \in Reporters, w \in Endings : ~Word(r, w)
    <3> SUFFICES ASSUME NEW r \in Reporters, NEW w \in Endings PROVE ~Word(r, w)
      OBVIOUS
    <3>1. seen[r] # w
      BY <2>1, EventFacts
    <3>2. First(r)..Len(queue) = {}
      BY <2>1, Firsts, QInit DEF RInit
    <3> QED
      BY <3>1, <3>2 DEF Word, LastFrom
  <2>4. Spoken
    BY <2>1, <2>3, FinalEndings DEF Spoken, SpokenOf, Failure
  <2> QED
    BY <2>2, <2>4
<1>2. RInit => SInv /\ GInv
  BY InitGood, ReporterStarts DEF RInit
<1>3. RInit => LInv
  BY <1>1, <1>2 DEF LInv
<1> QED
  BY <1>3, LastKeeps, PTL DEF RSpec

\* A reporter that missed nothing and has nothing left to post has told last how the
\* transaction ended: of a failure before the server knows, of what is finished after it
\* answered, unless the machine is still to tell or could not; and told of nothing else,
\* wherever it was interrupted (TransactionMachine.cc, Reporter.cc, Onboarding*.cc).
THEOREM LastTold == RSpec => []LastWord
<1>1. LInv => LastWord
  <2> SUFFICES ASSUME LInv, NEW r \in Reporters, ~muted, ~missed[r], ~Pending
               PROVE  /\ status = "failed" => seen[r] = "failed"
                      /\ status = "finished" => seen[r] = "finished" \/ saved = "finish" \/ untold
                      /\ stage = "over" /\ ~late => seen[r] = outcome
                      /\ kind = "ghost" /\ seen[r] = "finished" => status = "finished"
                      /\ kind = "ghost" /\ seen[r] = "failed" =>
                           status = "failed" \/ saved = "fail" \/ untold
                      /\ kind = "onboarding" /\ seen[r] = "finished" => copied
    BY DEF LastWord
  <2>1. SpokenOf(r)
    BY DEF LInv, Spoken
  <2>2. \A k \in First(r)..Len(queue) : queue[k] \notin Endings
    <3>1. \A k \in 1..Len(queue) : queue[k] \notin Endings
      BY EventFacts DEF Pending
    <3> QED
      BY <3>1, Firsts DEF LInv, SInv
  <2>3. \A w \in Endings : Word(r, w) <=> seen[r] = w
    BY <2>2 DEF Word, LastFrom, NoneFrom
  <2>4. /\ Word(r, "finished") <=> seen[r] = "finished"
        /\ Word(r, "failed") <=> seen[r] = "failed"
    BY <2>3, FinalEndings
  <2>5. stage = "over" /\ ~late => seen[r] = outcome
    BY <2>1, <2>3 DEF SpokenOf, LInv, Ways
  <2> QED
    BY <2>1, <2>4, <2>5, Zenon DEF SpokenOf, Failure
<1> QED
  BY <1>1, LastForEver, PTL

-----------------------------------------------------------------------------
(***************************************************************************)
(* Presence. What is invariant of a device: the line between it and meta   *)
(* (Line), and what meta has and told (Docs).                              *)
(***************************************************************************)

\* The client has its connection while the server holds it open.
Owned(d) == mine[d] => conns[d] # <<>> /\ Own(d).held /\ Own(d).at \in Open

\* It dials a server; one that synchronizes, or is up, was answered.
Dialed(d) == /\ client[d] # "out" => server[d] \in Servers
             /\ client[d] \in {"syncing", "up"} /\ mine[d] => Own(d).at = "ready"

\* Nothing is heard, or waits to be, that meta has not written.
Known(d) == /\ heard[d] \subseteq 1..ver
            /\ \A i \in 1..Len(conns[d]) : conns[d][i].queue \subseteq 1..ver

\* Where a change is that a client which is up does not know: not yet sent, on its way to
\* the server the client is on, or in the queue of its connection.
Reached(d) ==
  LET c == Own(d) IN
  client[d] = "up" /\ mine[d] /\ alive[c.srv] = "up" /\ "write" \notin strays[d] /\ ~lost[d]
  => \A v \in 1..ver : \/ v \in heard[d] \/ v \in unsent \/ v \in c.queue
                       \/ [ver |-> v, srv |-> c.srv, dev |-> d] \in flight

Line(d) == Owned(d) /\ Dialed(d) /\ Known(d) /\ Reached(d)

\* A device on a server is online ...
Seen(d) == tropho[d] # NoServer => devOnline[d]

\* ... on the one its client is connected to, once that was written in order, unless that
\* server is going.
OnRecord(d) ==
  mine[d] /\ Own(d).at \in Written /\ "write" \notin strays[d]
  => tropho[d] = Own(d).srv \/ alive[Own(d).srv] # "up"

\* What was written of a connection is to be told.
Untold == {"written", "rewritten", "cleared", "counted"}

Followed(d) ==
  "told" \notin strays[d] => \/ shown[d] = (tropho[d] # NoServer)
                             \/ \E i \in 1..Len(conns[d]) : conns[d][i].at \in Untold

Docs(d) == Seen(d) /\ OnRecord(d) /\ Followed(d)

\* A server without a document is over.
Gone == \A s \in Servers : record[s] = "none" => alive[s] = "gone"

PInv == /\ PTypeOK /\ UserFlag /\ Gone
        /\ \A d \in Devices : Line(d) /\ Docs(d)

-----------------------------------------------------------------------------
\* What is left of a sequence when one of its elements is replaced ...
LEMMA Exchange ==
  ASSUME NEW S, NEW q \in Seq(S), NEW i \in 1..Len(q), NEW c \in S
  PROVE  LET r == [q EXCEPT ![i] = c] IN
         /\ r \in Seq(S) /\ Len(r) = Len(q) /\ r[i] = c
         /\ \A j \in 1..Len(q) : j # i => r[j] = q[j]
  OBVIOUS

\* ... and when one is removed.
LEMMA Removal ==
  ASSUME NEW S, NEW q \in Seq(S), NEW i \in 1..Len(q)
  PROVE  LET r == Ext!RemoveAt(q, i) IN
         /\ r \in Seq(S) /\ Len(r) = Len(q) - 1
         /\ \A j \in 1..Len(r) : r[j] = IF j < i THEN q[j] ELSE q[j + 1]
<1> DEFINE a == SubSeq(q, 1, i - 1)
           b == SubSeq(q, i + 1, Len(q))
<1>1. a \in Seq(S) /\ Len(a) = i - 1 /\ \A j \in 1..(i - 1) : a[j] = q[j]
  BY SubSeqProperties
<1>2. b \in Seq(S) /\ Len(b) = Len(q) - i /\ \A j \in 1..(Len(q) - i) : b[j] = q[i + j]
  <2>1. i + 1 \in Int /\ Len(q) \in Int /\ \A j \in (i + 1)..Len(q) : q[j] \in S
    OBVIOUS
  <2>2. /\ b \in Seq(S)
        /\ Len(b) = IF i + 1 <= Len(q) THEN Len(q) - (i + 1) + 1 ELSE 0
        /\ \A j \in 1..(Len(q) - (i + 1) + 1) : b[j] = q[i + 1 + j - 1]
    BY <2>1, SubSeqProperties
  <2> HIDE DEF b
  <2>3. Len(b) = Len(q) - i
    BY <2>2
  <2>4. ASSUME NEW j \in 1..(Len(q) - i) PROVE b[j] = q[i + j]
    <3>1. b[j] = q[i + 1 + j - 1] /\ i + 1 + j - 1 = i + j
      BY <2>2
    <3> QED
      BY <3>1
  <2> QED
    BY <2>2, <2>3, <2>4
<1>3. Ext!RemoveAt(q, i) = a \o b
  BY DEF Ext!RemoveAt
<1> HIDE DEF a, b
<1>4. /\ a \o b \in Seq(S) /\ Len(a \o b) = Len(a) + Len(b)
      /\ \A j \in 1..(Len(a) + Len(b)) :
           (a \o b)[j] = IF j <= Len(a) THEN a[j] ELSE b[j - Len(a)]
  BY <1>1, <1>2, ConcatProperties
<1> DEFINE r == a \o b
<1>5. r \in Seq(S) /\ Len(r) = Len(q) - 1
  BY <1>1, <1>2, <1>4
<1>6. ASSUME NEW j \in 1..(Len(q) - 1)
      PROVE  r[j] = IF j < i THEN q[j] ELSE q[j + 1]
  <2>1. r[j] = IF j <= Len(a) THEN a[j] ELSE b[j - Len(a)]
    BY SMTT(30), <1>1, <1>2, <1>4
  <2> HIDE DEF r
  <2>2. CASE j < i
    BY <1>1, <2>1, <2>2
  <2>3. CASE j >= i
    <3>1. j - (i - 1) \in 1..(Len(q) - i) /\ i + (j - (i - 1)) = j + 1
      BY <2>3
    <3>2. r[j] = b[j - (i - 1)]
      BY <1>1, <2>1, <2>3
    <3>3. b[j - (i - 1)] = q[i + (j - (i - 1))]
      BY <1>2, <3>1
    <3> QED
      BY <2>3, <3>1, <3>2, <3>3
  <2> QED
    BY <2>2, <2>3
<1>7. Ext!RemoveAt(q, i) = r
  BY <1>3
<1> HIDE DEF r
<1>8. \A j \in 1..Len(r) : r[j] = IF j < i THEN q[j] ELSE q[j + 1]
  BY <1>5, <1>6
<1> QED
  BY <1>5, <1>7, <1>8

-----------------------------------------------------------------------------
\* Connection i of d is at another stage, or gone ("none"), and nothing else changed of
\* the connections.
Touched(d, i, phase) ==
  LET q == conns[d]
      r == conns'[d]
  IN
  /\ conns' \in [Devices -> Seq(Connection)] /\ mine' \in [Devices -> BOOLEAN]
  /\ \A e \in Devices : e # d => conns'[e] = conns[e] /\ mine'[e] = mine[e]
  /\ \A j \in 1..Len(r) : r[j].queue \subseteq 1..ver
  /\ \A j \in 1..Len(q) : j # i /\ q[j].at \in Untold =>
                            \E k \in 1..Len(r) : r[k].at = q[j].at
  /\ phase # "none" => \E k \in 1..Len(r) : r[k].at = phase
  /\ mine'[d] => /\ mine[d] /\ r # <<>>
                 /\ i = Len(q) => phase \in Open /\ Own(d)' = [Own(d) EXCEPT !.at = phase]
                 /\ i # Len(q) => Own(d)' = Own(d)

\* Such is what Put does, and Drop.
LEMMA TouchedPut ==
  ASSUME PInv, NEW d \in Devices, NEW i \in 1..Len(conns[d]), NEW c \in Connection,
         Put(d, i, c), c.queue \subseteq conns[d][i].queue,
         c.held /\ c.at \in Open => c = [conns[d][i] EXCEPT !.at = c.at]
  PROVE  Touched(d, i, c.at)
<1> DEFINE q == conns[d]
           r == [q EXCEPT ![i] = c]
<1>1. conns \in [Devices -> Seq(Connection)] /\ mine \in [Devices -> BOOLEAN]
  BY DEF PInv, PTypeOK
<1>2. \A j \in 1..Len(q) : q[j] \in Connection /\ q[j].queue \subseteq 1..ver
  BY <1>1 DEF PInv, Line, Known
<1>3. conns' = [conns EXCEPT ![d] = r] /\ conns'[d] = r
  BY <1>1 DEF Put
<1>4. /\ r \in Seq(Connection) /\ Len(r) = Len(q) /\ r[i] = c
      /\ \A j \in 1..Len(q) : j # i => r[j] = q[j]
  BY <1>1, Exchange
<1>5. /\ mine' \in [Devices -> BOOLEAN]
      /\ \A e \in Devices : e # d => mine'[e] = mine[e]
      /\ mine'[d] => mine[d] /\ (i = Len(q) => c.held /\ c.at \in Open)
  BY <1>1 DEF Put
<1> HIDE DEF r
<1>6. /\ conns' \in [Devices -> Seq(Connection)]
      /\ \A e \in Devices : e # d => conns'[e] = conns[e]
  BY <1>1, <1>3, <1>4
<1>7. \A j \in 1..Len(r) : r[j].queue \subseteq 1..ver
  BY <1>2, <1>4
<1>8. /\ \A j \in 1..Len(q) : j # i => \E k \in 1..Len(r) : r[k].at = q[j].at
      /\ \E k \in 1..Len(r) : r[k].at = c.at
  BY <1>4
<1>9. ASSUME mine'[d]
      PROVE  /\ mine[d] /\ r # <<>>
             /\ i = Len(q) => c.at \in Open /\ r[Len(r)] = [q[Len(q)] EXCEPT !.at = c.at]
             /\ i # Len(q) => r[Len(r)] = q[Len(q)]
  <2>1. Len(q) \in 1..Len(q) /\ r # <<>>
    BY <1>1, <1>4
  <2> QED
    BY <1>4, <1>5, <1>9, <2>1
<1>10. Own(d) = q[Len(q)] /\ Own(d)' = r[Len(r)]
  BY <1>3 DEF Own
<1> HIDE DEF q
<1> QED
  BY <1>3, <1>5, <1>6, <1>7, <1>8, <1>9, <1>10 DEF Touched, q

LEMMA TouchedDrop ==
  ASSUME PInv, NEW d \in Devices, NEW i \in 1..Len(conns[d]), Drop(d, i)
  PROVE  Touched(d, i, "none")
<1> DEFINE q == conns[d]
           r == Ext!RemoveAt(q, i)
<1>1. conns \in [Devices -> Seq(Connection)] /\ mine \in [Devices -> BOOLEAN]
  BY DEF PInv, PTypeOK
<1>2. \A j \in 1..Len(q) : q[j] \in Connection /\ q[j].queue \subseteq 1..ver
  BY <1>1 DEF PInv, Line, Known
<1>3. conns' = [conns EXCEPT ![d] = r] /\ conns'[d] = r
  BY <1>1 DEF Drop
<1>4. /\ r \in Seq(Connection) /\ Len(r) = Len(q) - 1
      /\ \A j \in 1..Len(r) : r[j] = IF j < i THEN q[j] ELSE q[j + 1]
  BY <1>1, Removal
<1>5. /\ mine' \in [Devices -> BOOLEAN]
      /\ \A e \in Devices : e # d => mine'[e] = mine[e]
      /\ mine'[d] => mine[d] /\ i # Len(q)
  BY <1>1 DEF Drop
<1> HIDE DEF r
<1>6. /\ conns' \in [Devices -> Seq(Connection)]
      /\ \A e \in Devices : e # d => conns'[e] = conns[e]
  BY <1>1, <1>3, <1>4
<1>7. \A j \in 1..Len(r) : r[j].queue \subseteq 1..ver
  <2>1. Len(q) \in Nat
    BY <1>1
  <2> QED
    BY SMTT(30), <1>2, <1>4, <2>1
<1>8. ASSUME NEW j \in 1..Len(q), j # i
      PROVE  \E k \in 1..Len(r) : r[k].at = q[j].at
  <2>1. Len(q) \in Nat
    BY <1>1
  <2>2. CASE j < i
    BY <1>4, <2>1, <2>2
  <2>3. CASE j > i
    <3>1. j - 1 \in 1..Len(r) /\ ~(j - 1 < i) /\ (j - 1) + 1 = j
      BY <1>4, <2>1, <2>3
    <3> QED
      BY <1>4, <3>1
  <2> QED
    BY <1>8, <2>2, <2>3
<1>9. ASSUME mine'[d]
      PROVE  mine[d] /\ i # Len(q) /\ r # <<>> /\ r[Len(r)] = q[Len(q)]
  <2>1. Len(q) \in Nat /\ i < Len(q)
    BY <1>1, <1>5, <1>9
  <2>2. Len(r) \in 1..Len(r) /\ ~(Len(r) < i) /\ Len(r) + 1 = Len(q)
    BY <1>4, <2>1
  <2> QED
    BY <1>4, <1>5, <1>9, <2>2
<1>10. Own(d) = q[Len(q)] /\ Own(d)' = r[Len(r)]
  BY <1>3 DEF Own
<1> HIDE DEF q
<1> QED
  BY <1>3, <1>5, <1>6, <1>7, <1>8, <1>9, <1>10 DEF Touched, q

\* What has to be shown of the connections.
LEMMA TouchedIf ==
  ASSUME NEW d \in Devices, NEW i \in 1..Len(conns[d]), NEW phase,
         conns' \in [Devices -> Seq(Connection)], mine' \in [Devices -> BOOLEAN],
         \A e \in Devices : e # d => conns'[e] = conns[e] /\ mine'[e] = mine[e],
         \A k \in 1..Len(conns'[d]) : conns'[d][k].queue \subseteq 1..ver,
         \A k \in 1..Len(conns[d]) : k # i /\ conns[d][k].at \in Untold =>
                           \E l \in 1..Len(conns'[d]) : conns'[d][l].at = conns[d][k].at,
         phase \in Open, \E l \in 1..Len(conns'[d]) : conns'[d][l].at = phase,
         mine'[d] => /\ mine[d] /\ conns'[d] # <<>>
                     /\ i = Len(conns[d]) => Own(d)' = [Own(d) EXCEPT !.at = phase]
                     /\ i # Len(conns[d]) => Own(d)' = Own(d)
  PROVE  Touched(d, i, phase)
  BY DEF Touched

\* Two connections change when a device comes back to the same server.
LEMMA TouchedAuthenticate ==
  ASSUME PInv, NEW d \in Devices, NEW i \in 1..Len(conns[d]), Authenticate(d, i)
  PROVE  Touched(d, i, "sent")
<1> DEFINE q == conns[d]
           c == [q[i] EXCEPT !.at = "sent"]
           joined == [q EXCEPT ![i] = c]
<1>1. conns \in [Devices -> Seq(Connection)] /\ mine \in [Devices -> BOOLEAN]
  BY DEF PInv, PTypeOK
<1>2. \A j \in 1..Len(q) : q[j] \in Connection /\ q[j].queue \subseteq 1..ver
  BY <1>1 DEF PInv, Line, Known
<1>3. c \in Connection /\ c.at = "sent" /\ c.queue = q[i].queue /\ q[i].at = "pending"
  BY <1>2 DEF Connection, Open, Listed, Reporting, Authenticate
<1> HIDE DEF c
<1>31. /\ joined \in Seq(Connection) /\ Len(joined) = Len(q) /\ joined[i] = c
       /\ \A k \in 1..Len(q) : k # i => joined[k] = q[k]
  BY <1>1, <1>3, Exchange
<1>32. i \in 1..Len(q) /\ Len(q) \in Nat
  BY <1>1
<1>33. "sent" \in Open /\ "sent" # "none"
  BY DEF Open, Listed, Reporting
<1>34. i = Len(q) => c = [q[Len(q)] EXCEPT !.at = "sent"]
  BY DEF c
<1> USE DEF c
<1>4. CASE Move(d, i, "sent")
  BY <1>3, <1>4, TouchedPut DEF Move
<1>5. CASE \E j \in 1..Len(q) :
             /\ q[j].at \in Listed
             /\ conns' = [conns EXCEPT ![d] = IF joined[j].at \in Reporting
                                                THEN [joined EXCEPT ![j].held = FALSE]
                                                ELSE Ext!RemoveAt(joined, j)]
             /\ mine' = [mine EXCEPT ![d] = @ /\ j # Len(q)]
  <2> PICK j \in 1..Len(q) :
             /\ q[j].at \in Listed
             /\ conns' = [conns EXCEPT ![d] = IF joined[j].at \in Reporting
                                                THEN [joined EXCEPT ![j].held = FALSE]
                                                ELSE Ext!RemoveAt(joined, j)]
             /\ mine' = [mine EXCEPT ![d] = @ /\ j # Len(q)]
    BY <1>5
  <2> HIDE DEF c
  <2>1. /\ joined \in Seq(Connection) /\ Len(joined) = Len(q) /\ joined[i] = c
        /\ \A k \in 1..Len(q) : k # i => joined[k] = q[k]
    BY <1>31
  <2>2. j # i /\ joined[j] = q[j]
    BY <1>3, <2>1 DEF Listed, Reporting
  <2> HIDE DEF joined
  <2>3. /\ mine' \in [Devices -> BOOLEAN]
        /\ \A e \in Devices : e # d => conns'[e] = conns[e] /\ mine'[e] = mine[e]
        /\ mine'[d] => mine[d] /\ j # Len(q)
    BY <1>1
  <2>4. Own(d) = q[Len(q)]
    BY DEF Own
  <2>5. CASE q[j].at \in Reporting
    <3> DEFINE g == [q[j] EXCEPT !.held = FALSE]
               r == [joined EXCEPT ![j] = g]
    <3>1. conns' = [conns EXCEPT ![d] = r] /\ conns'[d] = r
      BY <1>1, <2>2, <2>5
    <3>2. g \in Connection /\ g.at = q[j].at /\ g.queue = q[j].queue
      BY <1>2 DEF Connection
    <3>3. /\ r \in Seq(Connection) /\ Len(r) = Len(q) /\ r[j] = g
          /\ \A k \in 1..Len(q) : k # j => r[k] = joined[k]
      BY <2>1, <3>2, Exchange
    <3> HIDE DEF r, g, c, q
    <3>4. \A k \in 1..Len(r) : r[k].queue \subseteq 1..ver
      BY <1>2, <1>3, <2>1, <2>2, <3>2, <3>3
    <3>5. /\ \A k \in 1..Len(q) : k # i /\ q[k].at \in Untold => r[k].at = q[k].at
          /\ r[i].at = "sent"
      BY <1>3, <1>32, <2>1, <2>2, <3>2, <3>3
    <3>6. mine'[d] => /\ mine[d] /\ r # <<>>
                      /\ i = Len(q) => r[Len(r)] = c
                      /\ i # Len(q) => r[Len(r)] = q[Len(q)]
      BY <2>1, <2>2, <2>3, <3>3
    <3>7. conns' \in [Devices -> Seq(Connection)]
      BY <1>1, <3>1, <3>3
    <3>8. Own(d)' = r[Len(r)]
      BY <3>1 DEF Own
    <3>9. /\ \A k \in 1..Len(conns'[d]) : conns'[d][k].queue \subseteq 1..ver
          /\ \A k \in 1..Len(q) : k # i /\ q[k].at \in Untold =>
                                   \E l \in 1..Len(conns'[d]) : conns'[d][l].at = q[k].at
          /\ \E l \in 1..Len(conns'[d]) : conns'[d][l].at = "sent"
      BY <1>32, <3>1, <3>3, <3>4, <3>5
    <3>10. mine'[d] => /\ mine[d] /\ conns'[d] # <<>>
                       /\ i = Len(q) => Own(d)' = [Own(d) EXCEPT !.at = "sent"]
                       /\ i # Len(q) => Own(d)' = Own(d)
      BY <1>34, <2>4, <3>1, <3>6, <3>8
    <3> QED
      BY ZenonT(30), <1>33, <2>3, <3>7, <3>9, <3>10, TouchedIf DEF q
  <2>6. CASE q[j].at \notin Reporting
    <3> DEFINE r == Ext!RemoveAt(joined, j)
    <3>1. conns' = [conns EXCEPT ![d] = r] /\ conns'[d] = r
      BY <1>1, <2>2, <2>6
    <3>2. /\ r \in Seq(Connection) /\ Len(r) = Len(q) - 1
          /\ \A k \in 1..Len(r) : r[k] = IF k < j THEN joined[k] ELSE joined[k + 1]
      <4>1. j \in 1..Len(joined) /\ joined \in Seq(Connection) /\ Len(joined) = Len(q)
        BY <2>1
      <4> HIDE DEF q
      <4>2. /\ r \in Seq(Connection) /\ Len(r) = Len(joined) - 1
            /\ \A k \in 1..Len(r) : r[k] = IF k < j THEN joined[k] ELSE joined[k + 1]
        BY <4>1, Removal
      <4> QED
        BY <4>1, <4>2
    <3>3. Len(q) \in Nat /\ Len(r) \in Nat
      BY <1>1, <3>2
    <3> HIDE DEF r, c, q
    <3>4. \A k \in 1..Len(q) : joined[k].queue \subseteq 1..ver
      BY <1>2, <1>3, <2>1
    <3>5. \A k \in 1..Len(r) : r[k].queue \subseteq 1..ver
      <4> TAKE k \in 1..Len(r)
      <4>1. k \in 1..Len(q) /\ (k >= j => k + 1 \in 1..Len(q))
        BY <3>2, <3>3
      <4> QED
        BY <3>2, <3>3, <3>4, <4>1
    <3>6. ASSUME NEW k \in 1..Len(q), k # j
          PROVE  \E l \in 1..Len(r) : r[l] = joined[k]
      <4>1. CASE k < j
        BY <3>2, <3>3, <4>1
      <4>2. CASE k > j
        <5>1. k - 1 \in 1..Len(r) /\ ~(k - 1 < j) /\ (k - 1) + 1 = k
          BY <3>2, <3>3, <4>2
        <5> QED
          BY <3>2, <5>1
      <4> QED
        BY <3>6, <4>1, <4>2
    <3>7. \A k \in 1..Len(q) : k # i /\ q[k].at \in Untold =>
                                 \E l \in 1..Len(r) : r[l].at = q[k].at
      <4>1. q[j].at \notin Untold
        BY <2>6 DEF Untold, Listed, Reporting
      <4> QED
        BY <2>1, <3>6, <4>1
    <3>8. \E l \in 1..Len(r) : r[l].at = "sent"
      BY <1>3, <1>32, <2>1, <2>2, <3>6
    <3>9. mine'[d] => /\ mine[d] /\ r # <<>>
                      /\ i = Len(q) => r[Len(r)] = c
                      /\ i # Len(q) => r[Len(r)] = q[Len(q)]
      <4> SUFFICES ASSUME mine'[d] PROVE mine[d] /\ r # <<>> /\ r[Len(r)] = joined[Len(q)]
        BY <2>1
      <4>1. mine[d] /\ j < Len(q)
        BY <2>3, <3>3
      <4>2. Len(r) \in 1..Len(r) /\ ~(Len(r) < j) /\ Len(r) + 1 = Len(q)
        BY <3>2, <3>3, <4>1
      <4> QED
        BY <3>2, <4>1, <4>2
    <3>10. conns' \in [Devices -> Seq(Connection)]
      BY <1>1, <3>1, <3>2
    <3>11. Own(d)' = r[Len(r)]
      BY <3>1 DEF Own
    <3>12. /\ \A k \in 1..Len(conns'[d]) : conns'[d][k].queue \subseteq 1..ver
           /\ \A k \in 1..Len(q) : k # i /\ q[k].at \in Untold =>
                                    \E l \in 1..Len(conns'[d]) : conns'[d][l].at = q[k].at
           /\ \E l \in 1..Len(conns'[d]) : conns'[d][l].at = "sent"
      BY <3>1, <3>5, <3>7, <3>8
    <3>13. mine'[d] => /\ mine[d] /\ conns'[d] # <<>>
                       /\ i = Len(q) => Own(d)' = [Own(d) EXCEPT !.at = "sent"]
                       /\ i # Len(q) => Own(d)' = Own(d)
      BY <1>34, <2>4, <3>1, <3>9, <3>11
    <3> QED
      BY ZenonT(30), <1>33, <2>3, <3>10, <3>12, <3>13, TouchedIf DEF q
  <2> QED
    BY <2>5, <2>6
<1> QED
  BY <1>4, <1>5 DEF Authenticate

\* What the steps about a connection of d may change besides.
Aside(d) ==
  /\ UNCHANGED <<servers, changes, server, heard, lost, logins>>
  /\ tropho' \in [Devices -> Servers \union {NoServer}] /\ devOnline' \in [Devices -> BOOLEAN]
  /\ userOnline' \in BOOLEAN /\ shown' \in [Devices -> BOOLEAN]
  /\ strays' \in [Devices -> SUBSET {"write", "told"}] /\ failures' \in 0..MaxFailures
  /\ client' \in [Devices -> {"out", "dialing", "asking", "syncing", "up"}]
  /\ client'[d] \in {client[d], "out"}
  /\ \A e \in Devices : e # d => /\ tropho'[e] = tropho[e] /\ devOnline'[e] = devOnline[e]
                                 /\ shown'[e] = shown[e] /\ strays'[e] = strays[e]
                                 /\ client'[e] = client[e]

\* Such a step keeps the connection of the client, or ends it.
LEMMA TouchedLine ==
  ASSUME PInv, NEW d \in Devices, NEW i \in 1..Len(conns[d]), NEW phase, Touched(d, i, phase),
         Aside(d), conns[d][i].at = "ready" => phase \notin Open,
         mine[d] /\ Own(d).at = "ready" /\ i # Len(conns[d]) /\ "write" \in strays[d]
         => "write" \in strays'[d]
  PROVE  Line(d)'
<1>1. /\ conns[d] \in Seq(Connection) /\ mine[d] \in BOOLEAN /\ Line(d)
      /\ Own(d) = conns[d][Len(conns[d])]
  BY DEF PInv, PTypeOK, Own
<1>2. /\ alive' = alive /\ ver' = ver /\ unsent' = unsent /\ flight' = flight
      /\ server' = server /\ heard' = heard /\ lost' = lost /\ client'[d] \in {client[d], "out"}
  BY DEF Aside, servers, changes
<1>3. Own(d) \in Connection \/ conns[d] = <<>>
  BY <1>1
<1>4. mine'[d] => /\ mine[d] /\ conns'[d] # <<>> /\ Own(d)' \in Connection
                  /\ Own(d)'.held /\ Own(d)'.at \in Open
                  /\ Own(d)'.srv = Own(d).srv /\ Own(d)'.queue = Own(d).queue
                  /\ Own(d).at = "ready" => i # Len(conns[d]) /\ Own(d)' = Own(d)
  BY <1>1, <1>3 DEF Touched, Line, Owned, Connection
<1> DEFINE own == Own(d)
           new == Own(d)'
<1>5. \A j \in 1..Len(conns'[d]) : conns'[d][j].queue \subseteq 1..ver
  BY DEF Touched
<1> HIDE DEF own, new
<1>6. Owned(d)'
  BY <1>4 DEF Owned
<1>7. Dialed(d)'
  BY <1>1, <1>2, <1>4 DEF Dialed, Line
<1>8. Known(d)'
  BY <1>1, <1>2, <1>5 DEF Known, Line
<1>9. Reached(d)'
  <2>1. ASSUME client'[d] = "up", mine'[d], alive'[Own(d)'.srv] = "up",
               "write" \notin strays'[d], ~lost'[d]
        PROVE  /\ client[d] = "up" /\ mine[d] /\ alive[Own(d).srv] = "up"
               /\ "write" \notin strays[d] /\ ~lost[d]
               /\ Own(d)'.srv = Own(d).srv /\ Own(d)'.queue = Own(d).queue
    BY <1>1, <1>2, <1>4, <2>1 DEF Line, Dialed
  <2> QED
    BY <1>1, <1>2, <2>1 DEF Reached, Line
<1> QED
  BY <1>6, <1>7, <1>8, <1>9 DEF Line

\* The connection of the client.
LEMMA OwnTyped ==
  ASSUME PInv, NEW d \in Devices, mine[d]
  PROVE  /\ Len(conns[d]) \in 1..Len(conns[d])
         /\ Own(d) \in Connection /\ Own(d).srv \in Servers
         /\ Own(d).held /\ Own(d).at \in Open
<1>1. conns[d] \in Seq(Connection) /\ Owned(d)
  BY DEF PInv, PTypeOK, Line
<1>2. Len(conns[d]) \in 1..Len(conns[d])
  BY <1>1 DEF Owned
<1>3. Own(d) \in Connection
  BY <1>1, <1>2 DEF Own
<1> QED
  BY <1>1, <1>2, <1>3 DEF Owned, Connection

\* A device nothing happens to.
LEMMA NothingHappens ==
  ASSUME PInv, NEW e \in Devices,
         conns'[e] = conns[e], mine'[e] = mine[e], tropho'[e] = tropho[e],
         devOnline'[e] = devOnline[e], shown'[e] = shown[e], strays'[e] = strays[e],
         lost'[e] = lost[e], client'[e] = client[e], server'[e] = server[e],
         heard'[e] = heard[e], ver' = ver, unsent' = unsent,
         \A m \in flight : m.dev = e => m \in flight',
         \A s \in Servers : alive'[s] = "up" => alive[s] = "up"
  PROVE  Line(e)' /\ Docs(e)'
<1>1. Line(e) /\ Docs(e) /\ Own(e)' = Own(e)
  BY DEF PInv, Own
<1>2. mine[e] => Own(e).srv \in Servers
  BY OwnTyped
<1>3. Owned(e)' /\ Dialed(e)' /\ Known(e)'
  BY <1>1 DEF Line, Owned, Dialed, Known
<1>4. Reached(e)'
  BY <1>1, <1>2 DEF Line, Reached
<1>5. Docs(e)'
  BY <1>1, <1>2 DEF Docs, Seen, OnRecord, Followed
<1> QED
  BY <1>3, <1>4, <1>5 DEF Line

\* So it is enough to look at what meta has and what it tells.
LEMMA TouchedGood ==
  ASSUME PInv, NEW d \in Devices, NEW i \in 1..Len(conns[d]), NEW phase, Touched(d, i, phase),
         Aside(d), conns[d][i].at = "ready" => phase \notin Open,
         mine[d] /\ Own(d).at = "ready" /\ i # Len(conns[d]) /\ "write" \in strays[d]
         => "write" \in strays'[d],
         UserFlag', Docs(d)'
  PROVE  PInv'
<1>1. Line(d)'
  BY TouchedLine
<1>2. ASSUME NEW e \in Devices, e # d PROVE Line(e)' /\ Docs(e)'
  BY <1>2, NothingHappens DEF Touched, Aside, servers, changes
<1>3. PTypeOK'
  BY DEF PInv, PTypeOK, Touched, Aside, servers, changes
<1>4. Gone'
  BY DEF PInv, Gone, Aside, servers
<1> QED
  BY <1>1, <1>2, <1>3, <1>4 DEF PInv

\* A step that moves a connection and leaves what meta wrote alone.
LEMMA TouchedOnly ==
  ASSUME PInv, NEW d \in Devices, NEW i \in 1..Len(conns[d]), NEW phase, Touched(d, i, phase),
         Aside(d), conns[d][i].at = "ready" => phase \notin Open,
         UNCHANGED presence, strays[d] \subseteq strays'[d],
         conns[d][i].at \in Untold => phase = conns[d][i].at,
         conns[d][i].at \in Written \/ phase \notin Written
  PROVE  PInv'
<1>1. /\ UNCHANGED <<tropho, devOnline, userOnline, shown, alive>>
      /\ \A e \in Devices : e # d => conns'[e] = conns[e]
      /\ conns \in [Devices -> Seq(Connection)]
  BY DEF presence, Aside, servers, Touched, PInv, PTypeOK
<1>2. ASSUME NEW j \in 1..Len(conns[d]), conns[d][j].at \in Untold
      PROVE  \E k \in 1..Len(conns'[d]) : conns'[d][k].at = conns[d][j].at
  <2>1. CASE j # i
    BY <1>2, <2>1 DEF Touched
  <2>2. CASE j = i
    BY <1>2, <2>2 DEF Touched, Untold
  <2> QED
    BY <2>1, <2>2
<1>3. UserFlag'
  <2>1. ASSUME NEW e \in Devices, NEW j \in 1..Len(conns[e]), conns[e][j].at = "cleared"
        PROVE  \E k \in 1..Len(conns'[e]) : conns'[e][k].at = "cleared"
    <3>1. CASE e = d
      BY <1>2, <2>1, <3>1 DEF Untold
    <3>2. CASE e # d
      BY <1>1, <2>1, <3>2
    <3> QED
      BY <3>1, <3>2
  <2> QED
    BY <1>1, <2>1 DEF PInv, UserFlag
<1>4. Docs(d) /\ Line(d)
  BY DEF PInv
<1>5. Seen(d)' /\ Followed(d)'
  BY <1>1, <1>2, <1>4 DEF Docs, Seen, Followed
<1>6. OnRecord(d)'
  <2> SUFFICES ASSUME mine'[d], Own(d)'.at \in Written, "write" \notin strays'[d]
               PROVE  tropho'[d] = Own(d)'.srv \/ alive'[Own(d)'.srv] # "up"
    BY DEF OnRecord
  <2>1. mine[d]
    BY DEF Touched
  <2>2. Own(d) \in Connection /\ Own(d) = conns[d][Len(conns[d])]
    BY <2>1, OwnTyped DEF Own
  <2>3. Own(d).at \in Written /\ Own(d)'.srv = Own(d).srv
    BY <2>2 DEF Touched, Connection
  <2> QED
    BY <1>1, <1>4, <2>1, <2>3 DEF Docs, OnRecord
<1> QED
  BY <1>3, <1>4, <1>5, <1>6, TouchedGood DEF Docs

\* The connection as it moves to another phase.
LEMMA TouchedMove ==
  ASSUME PInv, NEW d \in Devices, NEW i \in 1..Len(conns[d]),
         NEW phase \in Open \union Closing, Move(d, i, phase)
  PROVE  Touched(d, i, phase)
<1> DEFINE c == [conns[d][i] EXCEPT !.at = phase]
<1>1. conns[d] \in Seq(Connection)
  BY DEF PInv, PTypeOK
<1>2. conns[d][i] \in Connection
  BY <1>1
<1>3. c \in Connection /\ c.at = phase /\ c.queue = conns[d][i].queue
  BY <1>2 DEF Connection
<1> QED
  BY <1>3, TouchedPut DEF Move

\* What leaves everything but the connections alone.
LEMMA AsideAll ==
  ASSUME PInv, NEW d \in Devices, UNCHANGED presence, UNCHANGED <<servers, changes>>,
         UNCHANGED <<server, heard, lost, logins, client>>, failures' \in 0..MaxFailures,
         strays' = strays \/ \E S \in SUBSET {"write", "told"} :
                                strays' = [strays EXCEPT ![d] = S]
  PROVE  Aside(d)
<1>1. /\ strays' \in [Devices -> SUBSET {"write", "told"}]
      /\ \A e \in Devices : e # d => strays'[e] = strays[e]
  <2>1. strays \in [Devices -> SUBSET {"write", "told"}]
    BY DEF PInv, PTypeOK
  <2>2. CASE strays' = strays
    BY <2>1, <2>2
  <2>3. CASE \E S \in SUBSET {"write", "told"} : strays' = [strays EXCEPT ![d] = S]
    <3> PICK S \in SUBSET {"write", "told"} : strays' = [strays EXCEPT ![d] = S]
      BY <2>3
    <3> QED
      BY <2>1
  <2> QED
    BY <2>2, <2>3
<1> QED
  BY <1>1 DEF Aside, PInv, PTypeOK, presence

\* A fault is counted.
LEMMA FaultCounted ==
  ASSUME PInv, NEW f, Fault(f) PROVE failures' \in 0..MaxFailures
  BY PresenceAssumption DEF PInv, PTypeOK, Fault

\* The steps of the servers meta does not hear of, or has not yet.
LEMMA SilentSteps ==
  ASSUME PInv, NEW d \in Devices, NEW i \in 1..Len(conns[d]),
         \/ Authenticate(d, i) \/ Answer(d, i) \/ ClientRemove(d, i)
         \/ Vanish(d, i) \/ NotSent(d, i) \/ Forget(d, i) \/ Refuse(d, i)
  PROVE  PInv'
<1> DEFINE c == conns[d][i]
<1>1. conns[d] \in Seq(Connection) /\ c \in Connection /\ failures \in 0..MaxFailures
      /\ strays \in [Devices -> SUBSET {"write", "told"}]
  <2>1. conns[d] \in Seq(Connection)
    BY DEF PInv, PTypeOK
  <2> QED
    BY <2>1 DEF PInv, PTypeOK
<1> USE DEF Open, Listed, Reporting, Closing, Written, Untold
<1>2. CASE Authenticate(d, i)
  <2>1. Aside(d)
    BY <1>1, <1>2, AsideAll DEF Authenticate, clients, history
  <2>2. c.at = "pending" /\ UNCHANGED presence /\ strays' = strays
    BY <1>2 DEF Authenticate, history
  <2>3. Touched(d, i, "sent")
    BY <1>2, TouchedAuthenticate
  <2> QED
    BY <2>1, <2>2, <2>3, TouchedOnly
<1>3. CASE Answer(d, i)
  <2>1. Aside(d)
    BY <1>1, <1>3, AsideAll DEF Answer, clients, history
  <2>2. c.at = "told" /\ UNCHANGED presence /\ strays' = strays
    BY <1>3 DEF Answer, history
  <2>3. Touched(d, i, "ready")
    BY <1>3, TouchedMove DEF Answer
  <2> QED
    BY <2>1, <2>2, <2>3, TouchedOnly
<1>4. CASE ClientRemove(d, i)
  <2>1. Aside(d)
    BY <1>1, <1>4, AsideAll DEF ClientRemove, clients, history
  <2>2. c.at \in {"pending", "ready"} /\ UNCHANGED presence /\ strays' = strays
    BY <1>4 DEF ClientRemove, history
  <2>3. CASE Drop(d, i)
    <3>1. Touched(d, i, "none")
      BY <2>3, TouchedDrop
    <3> QED
      BY <2>1, <2>2, <3>1, TouchedOnly
  <2>4. CASE Put(d, i, [c EXCEPT !.at = "unsent", !.queue = {}])
    <3> DEFINE n == [c EXCEPT !.at = "unsent", !.queue = {}]
    <3>1. n \in Connection /\ n.at = "unsent" /\ n.queue = {} /\ n.at \notin Open
      BY <1>1 DEF Connection
    <3> HIDE DEF n
    <3>2. Put(d, i, n)
      BY <2>4 DEF n
    <3>3. Touched(d, i, "unsent")
      BY <3>1, <3>2, TouchedPut
    <3> QED
      BY <2>1, <2>2, <3>3, TouchedOnly
  <2> QED
    BY <1>4, <2>3, <2>4 DEF ClientRemove
<1>5. CASE Vanish(d, i)
  <2>1. Aside(d)
    BY <1>1, <1>5, AsideAll DEF Vanish, clients, history
  <2>2. UNCHANGED presence /\ strays' = strays
    BY <1>5 DEF Vanish, history
  <2>3. CASE c.at \in Reporting \union Closing
    <3> DEFINE n == [c EXCEPT !.held = FALSE, !.queue = {}]
    <3>1. n \in Connection /\ n.at = c.at /\ n.queue = {} /\ ~n.held
      BY <1>1 DEF Connection
    <3> HIDE DEF n
    <3>2. Put(d, i, n)
      BY <1>5, <2>3 DEF n, Vanish
    <3>3. Touched(d, i, c.at)
      BY <3>1, <3>2, TouchedPut
    <3> QED
      BY <2>1, <2>2, <2>3, <3>3, TouchedOnly
  <2>4. CASE c.at \notin Reporting \union Closing
    <3>1. Touched(d, i, "none")
      BY <1>5, <2>4, TouchedDrop DEF Vanish
    <3> QED
      BY <2>1, <2>2, <2>4, <3>1, TouchedOnly
  <2> QED
    BY <2>3, <2>4
<1>6. CASE NotSent(d, i)
  <2> DEFINE more == IF c.at = "sent" \/ Overtaken(d, i) THEN strays[d]
                     ELSE strays[d] \union {"write"}
  <2>1. strays' = [strays EXCEPT ![d] = more] /\ more \in SUBSET {"write", "told"}
        /\ strays[d] \subseteq strays'[d]
    BY <1>1, <1>6 DEF NotSent
  <2>2. Aside(d)
    BY <1>1, <1>6, <2>1, AsideAll DEF NotSent, clients
  <2>3. Touched(d, i, "none") /\ c.at \in {"sent", "unsent"} /\ UNCHANGED presence
    BY <1>6, TouchedDrop DEF NotSent
  <2> QED
    BY <2>1, <2>2, <2>3, TouchedOnly
<1>7. CASE Forget(d, i)
  <2> DEFINE more == IF Overtaken(d, i) THEN strays[d] ELSE strays[d] \union {"write"}
  <2>1. strays' = [strays EXCEPT ![d] = more] /\ more \in SUBSET {"write", "told"}
        /\ strays[d] \subseteq strays'[d]
    BY <1>1, <1>7 DEF Forget
  <2>2. Aside(d)
    BY <1>1, <1>7, <2>1, AsideAll, FaultCounted DEF Forget, clients
  <2>3. Touched(d, i, "none") /\ c.at = "unsent" /\ UNCHANGED presence
    BY <1>7, TouchedDrop DEF Forget
  <2> QED
    BY <2>1, <2>2, <2>3, TouchedOnly
<1>8. CASE Refuse(d, i)
  <2> DEFINE more == IF tropho[d] = NoServer \/ Overtaken(d, i) THEN strays[d]
                     ELSE strays[d] \union {"write"}
  <2>1. strays' = [strays EXCEPT ![d] = more] /\ more \in SUBSET {"write", "told"}
        /\ strays[d] \subseteq strays'[d]
    BY <1>1, <1>8 DEF Refuse
  <2>2. Aside(d)
    <3>1. client' = client \/ client' = [client EXCEPT ![d] = "out"]
      BY <1>8 DEF Refuse
    <3>2. failures' \in 0..MaxFailures
      BY <1>8, FaultCounted DEF Refuse
    <3>3. UNCHANGED <<presence, servers, server, heard, changes, lost, logins>>
      BY <1>8 DEF Refuse
    <3> HIDE DEF more
    <3>4. /\ strays' \in [Devices -> SUBSET {"write", "told"}]
          /\ \A e \in Devices : e # d => strays'[e] = strays[e]
      BY <2>1 DEF PInv, PTypeOK
    <3>5. /\ client' \in [Devices -> {"out", "dialing", "asking", "syncing", "up"}]
          /\ client'[d] \in {client[d], "out"}
          /\ \A e \in Devices : e # d => client'[e] = client[e]
      BY <3>1 DEF PInv, PTypeOK
    <3> QED
      BY <3>2, <3>3, <3>4, <3>5 DEF Aside, PInv, PTypeOK, presence
  <2>3. Touched(d, i, "none") /\ c.at \in {"sent", "told"} /\ UNCHANGED presence
    BY <1>8, TouchedDrop DEF Refuse
  <2> QED
    BY <2>1, <2>2, <2>3, TouchedOnly
<1> QED
  BY <1>2, <1>3, <1>4, <1>5, <1>6, <1>7, <1>8

\* A phase that is marked, or not.
LEMMA Marked ==
  ASSUME PInv, NEW d \in Devices, NEW m \in {"write", "told"}, NEW really \in BOOLEAN,
         mark(d, m, really)
  PROVE  /\ strays' \in [Devices -> SUBSET {"write", "told"}]
         /\ \A e \in Devices : e # d => strays'[e] = strays[e]
         /\ m \in strays'[d] <=> really
         /\ \A n \in {"write", "told"} : n # m => (n \in strays'[d] <=> n \in strays[d])
<1>1. strays \in [Devices -> SUBSET {"write", "told"}]
  BY DEF PInv, PTypeOK
<1> QED
  BY <1>1 DEF mark

\* The user is online, or will be said not to be.
LEMMA TouchedUser ==
  ASSUME PInv, NEW d \in Devices, NEW i \in 1..Len(conns[d]), NEW phase, Touched(d, i, phase),
         Aside(d),
         \/ phase = "cleared" /\ userOnline' = userOnline /\ ~devOnline'[d]
         \/ userOnline' = userOnline /\ devOnline' = devOnline /\ conns[d][i].at # "cleared"
  PROVE  UserFlag'
<1>1. UserFlag
  BY DEF PInv
<1>2. ASSUME NEW e \in Devices, NEW j \in 1..Len(conns[e]), conns[e][j].at = "cleared",
             conns[d][i].at # "cleared"
      PROVE  \E k \in 1..Len(conns'[e]) : conns'[e][k].at = "cleared"
  BY <1>2 DEF Touched, Untold
<1>3. \A e \in Devices : e # d => devOnline'[e] = devOnline[e]
  BY DEF Aside
<1>4. CASE phase = "cleared" /\ userOnline' = userOnline /\ ~devOnline'[d]
  <2>1. \E k \in 1..Len(conns'[d]) : conns'[d][k].at = "cleared"
    BY <1>4 DEF Touched
  <2> QED
    BY <1>1, <1>3, <1>4, <2>1 DEF UserFlag
<1>5. CASE userOnline' = userOnline /\ devOnline' = devOnline /\ conns[d][i].at # "cleared"
  BY <1>1, <1>2, <1>5 DEF UserFlag
<1> QED
  BY <1>4, <1>5

\* The connection of the client, once written, overtakes those before.
LEMMA OwnOvertakes ==
  ASSUME PInv, NEW d \in Devices, NEW i \in 1..Len(conns[d]),
         mine[d], Own(d).at \in Written, i # Len(conns[d])
  PROVE  Overtaken(d, i)
<1>1. conns[d] \in Seq(Connection)
  BY DEF PInv, PTypeOK
<1>2. Len(conns[d]) \in (i + 1)..Len(conns[d])
  BY <1>1
<1> QED
  BY <1>2 DEF Overtaken, Own

\* The steps of set_connection_status, one after the other.
LEMMA WritesConnection ==
  ASSUME PInv, NEW d \in Devices, NEW i \in 1..Len(conns[d]), WriteConnection(d, i)
  PROVE  PInv'
<1> DEFINE c == conns[d][i]
           phase == IF tropho[d] = NoServer THEN "written" ELSE "rewritten"
<1>1. conns[d] \in Seq(Connection) /\ c \in Connection /\ Line(d) /\ Docs(d)
  <2>1. conns[d] \in Seq(Connection)
    BY DEF PInv, PTypeOK
  <2> QED
    BY <2>1 DEF PInv
<1>2. phase \in {"written", "rewritten"} /\ phase \in Untold /\ phase \in Open /\ phase # "none"
      /\ c.at = "sent" /\ c.srv \in Servers
  BY <1>1 DEF WriteConnection, Open, Listed, Reporting, Untold, Connection
<1>3. Touched(d, i, phase)
  BY <1>2, TouchedMove DEF WriteConnection
<1>4. /\ strays' \in [Devices -> SUBSET {"write", "told"}]
      /\ \A e \in Devices : e # d => strays'[e] = strays[e]
      /\ "write" \in strays'[d] <=> Overtaken(d, i) \/ ~c.held
  BY Marked DEF WriteConnection
<1>5. /\ tropho' = [tropho EXCEPT ![d] = c.srv] /\ devOnline' = [devOnline EXCEPT ![d] = TRUE]
      /\ tropho \in [Devices -> Servers \union {NoServer}]
      /\ devOnline \in [Devices -> BOOLEAN]
      /\ userOnline' = TRUE
      /\ UNCHANGED <<shown, servers, clients, changes, lost, failures, logins>>
  BY DEF WriteConnection, PInv, PTypeOK
<1>6. tropho'[d] = c.srv /\ devOnline'[d] = TRUE
  BY <1>5
<1> HIDE DEF phase
<1>7. Aside(d)
  BY <1>2, <1>4, <1>5 DEF Aside, clients, PInv, PTypeOK
<1>8. UserFlag'
  BY <1>5, <1>6 DEF UserFlag
<1>9. mine[d] /\ Own(d).at \in Written /\ i # Len(conns[d]) => Overtaken(d, i)
  BY OwnOvertakes
<1>10. mine[d] /\ Own(d).at = "ready" /\ i # Len(conns[d]) /\ "write" \in strays[d]
       => "write" \in strays'[d]
  BY <1>4, <1>9 DEF Written, Listed
<1>11. Seen(d)' /\ Followed(d)'
  BY <1>2, <1>3, <1>6 DEF Seen, Followed, Touched
<1>12. OnRecord(d)'
  <2> SUFFICES ASSUME mine'[d], Own(d)'.at \in Written, "write" \notin strays'[d]
               PROVE  tropho'[d] = Own(d)'.srv
    BY DEF OnRecord
  <2>1. mine[d]
    BY <1>3 DEF Touched
  <2>2. Own(d) \in Connection /\ Own(d) = conns[d][Len(conns[d])]
    BY <2>1, OwnTyped DEF Own
  <2>3. i = Len(conns[d])
    BY <1>3, <1>4, <1>9, <2>1 DEF Touched
  <2>4. Own(d)'.srv = c.srv
    BY <1>3, <2>2, <2>3 DEF Touched, Connection
  <2> QED
    BY <1>6, <2>4
<1> QED
  BY <1>2, <1>3, <1>7, <1>8, <1>10, <1>11, <1>12, TouchedGood DEF Docs

LEMMA TellsConnection ==
  ASSUME PInv, NEW d \in Devices, NEW i \in 1..Len(conns[d]), TellConnection(d, i)
  PROVE  PInv'
<1> DEFINE c == conns[d][i]
           phase == IF c.held THEN "told" ELSE "none"
<1>1. conns[d] \in Seq(Connection) /\ c \in Connection /\ Docs(d)
  <2>1. conns[d] \in Seq(Connection)
    BY DEF PInv, PTypeOK
  <2> QED
    BY <2>1 DEF PInv
<1>2. c.at \in {"written", "rewritten"} /\ c.srv \in Servers
  BY <1>1 DEF TellConnection, Connection
<1>3. Touched(d, i, phase)
  BY TouchedMove, TouchedDrop DEF TellConnection, Open, Listed
<1>4. /\ strays' \in [Devices -> SUBSET {"write", "told"}]
      /\ \A e \in Devices : e # d => strays'[e] = strays[e]
      /\ "told" \in strays'[d] <=> tropho[d] # c.srv
      /\ "write" \in strays'[d] <=> "write" \in strays[d]
  BY Marked DEF TellConnection
<1>5. /\ shown' = [shown EXCEPT ![d] = TRUE] /\ shown \in [Devices -> BOOLEAN]
      /\ UNCHANGED <<tropho, devOnline, userOnline, servers, clients, changes, lost,
                     failures, logins>>
  BY DEF TellConnection, PInv, PTypeOK
<1>6. Aside(d)
  BY <1>4, <1>5 DEF Aside, clients, PInv, PTypeOK
<1> HIDE DEF phase
<1>7. UserFlag'
  BY <1>2, <1>3, <1>5, <1>6, TouchedUser
<1>8. Seen(d)' /\ Followed(d)'
  <2>1. c.srv # NoServer
    BY <1>2, PresenceAssumption
  <2> QED
    BY <1>1, <1>4, <1>5, <2>1 DEF Docs, Seen, Followed
<1>9. OnRecord(d)'
  <2> SUFFICES ASSUME mine'[d], Own(d)'.at \in Written, "write" \notin strays'[d]
               PROVE  tropho'[d] = Own(d)'.srv \/ alive'[Own(d)'.srv] # "up"
    BY DEF OnRecord
  <2>1. mine[d]
    BY <1>3 DEF Touched
  <2>2. Own(d) \in Connection /\ Own(d) = conns[d][Len(conns[d])]
    BY <2>1, OwnTyped DEF Own
  <2>3. Own(d).at \in Written /\ Own(d)'.srv = Own(d).srv
    BY <1>2, <1>3, <2>2 DEF Touched, Connection, Written, Listed, Reporting
  <2> QED
    BY <1>1, <1>4, <1>5, <2>1, <2>3 DEF Docs, OnRecord, servers
<1> QED
  BY <1>2, <1>3, <1>4, <1>6, <1>7, <1>8, <1>9, TouchedGood DEF Docs

LEMMA WritesDisconnection ==
  ASSUME PInv, NEW d \in Devices, NEW i \in 1..Len(conns[d]), WriteDisconnection(d, i)
  PROVE  PInv'
<1> DEFINE c == conns[d][i]
<1>1. conns[d] \in Seq(Connection) /\ c \in Connection /\ Docs(d)
  <2>1. conns[d] \in Seq(Connection)
    BY DEF PInv, PTypeOK
  <2> QED
    BY <2>1 DEF PInv
<1>2. /\ c.at = "unsent"
      /\ UNCHANGED <<userOnline, shown, servers, clients, changes, lost, failures, logins>>
  BY DEF WriteDisconnection
<1>3. CASE Drop(d, i) /\ UNCHANGED <<tropho, devOnline, strays>>
  <2>1. UNCHANGED presence /\ strays' = strays
    BY <1>2, <1>3 DEF presence
  <2>2. Aside(d)
    BY <1>2, <2>1, AsideAll DEF clients, PInv, PTypeOK
  <2>3. Touched(d, i, "none")
    BY <1>3, TouchedDrop
  <2> QED
    BY <1>2, <2>1, <2>2, <2>3, TouchedOnly DEF Untold, Written, Listed, Reporting
<1>4. CASE /\ tropho' = [tropho EXCEPT ![d] = NoServer]
           /\ devOnline' = [devOnline EXCEPT ![d] = FALSE]
           /\ mark(d, "write", Overtaken(d, i)) /\ Move(d, i, "cleared")
  <2>1. Touched(d, i, "cleared")
    BY <1>4, TouchedMove DEF Closing
  <2>2. /\ strays' \in [Devices -> SUBSET {"write", "told"}]
        /\ \A e \in Devices : e # d => strays'[e] = strays[e]
        /\ "write" \in strays'[d] <=> Overtaken(d, i)
    BY <1>4, Marked DEF Overtaken
  <2>3. /\ tropho'[d] = NoServer /\ devOnline'[d] = FALSE
        /\ tropho \in [Devices -> Servers \union {NoServer}]
        /\ devOnline \in [Devices -> BOOLEAN]
    BY <1>4 DEF PInv, PTypeOK
  <2>4. Aside(d)
    BY <1>2, <1>4, <2>2, <2>3 DEF Aside, clients, PInv, PTypeOK
  <2>5. UserFlag'
    BY <1>2, <2>1, <2>3, <2>4, TouchedUser
  <2>6. "cleared" \notin Open /\ "cleared" \in Untold /\ "ready" \in Written
    BY DEF Open, Listed, Reporting, Untold, Written
  <2>7. Seen(d)' /\ Followed(d)'
    BY <2>1, <2>3, <2>6 DEF Seen, Followed, Touched
  <2>8. OnRecord(d)'
    <3> SUFFICES ASSUME mine'[d], Own(d)'.at \in Written, "write" \notin strays'[d]
                 PROVE  FALSE
      BY DEF OnRecord
    <3>1. mine[d] /\ i # Len(conns[d]) /\ Own(d)' = Own(d)
      BY <2>1, <2>6 DEF Touched
    <3> QED
      BY <2>2, <3>1, OwnOvertakes
  <2> QED
    BY <1>2, <2>1, <2>2, <2>4, <2>5, <2>6, <2>7, <2>8, OwnOvertakes, TouchedGood DEF Docs
<1> QED
  BY <1>3, <1>4 DEF WriteDisconnection

LEMMA CountsDevices ==
  ASSUME PInv, NEW d \in Devices, NEW i \in 1..Len(conns[d]), CountDevices(d, i)
  PROVE  PInv'
<1>1. Docs(d) /\ UserFlag /\ userOnline \in BOOLEAN
  BY DEF PInv, PTypeOK
<1>2. /\ conns[d][i].at = "cleared"
      /\ userOnline' = (userOnline /\ \E e \in Devices : devOnline[e])
      /\ UNCHANGED <<tropho, devOnline, shown, servers, clients, changes, history, failures,
                     logins>>
  BY DEF CountDevices
<1>3. Touched(d, i, "counted")
  BY TouchedMove DEF CountDevices, Closing
<1>4. Aside(d)
  BY <1>1, <1>2 DEF Aside, clients, history, PInv, PTypeOK
<1>5. UserFlag'
  BY <1>1, <1>2 DEF UserFlag
<1>6. "counted" \notin Open /\ "counted" \in Untold /\ UNCHANGED strays
  BY <1>2 DEF Open, Listed, Reporting, Untold, history
<1>7. Seen(d)' /\ Followed(d)'
  BY <1>1, <1>2, <1>3, <1>6 DEF Docs, Seen, Followed, Touched
<1>8. OnRecord(d)'
  BY <1>1, <1>2, <1>3, <1>6 DEF Docs, OnRecord, Touched, servers
<1> QED
  BY <1>2, <1>3, <1>4, <1>5, <1>6, <1>7, <1>8, TouchedGood DEF Docs

LEMMA TellsDisconnection ==
  ASSUME PInv, NEW d \in Devices, NEW i \in 1..Len(conns[d]), TellDisconnection(d, i)
  PROVE  PInv'
<1>1. Docs(d)
  BY DEF PInv
<1>2. /\ conns[d][i].at = "counted"
      /\ shown' = [shown EXCEPT ![d] = FALSE] /\ shown \in [Devices -> BOOLEAN]
      /\ UNCHANGED <<tropho, devOnline, userOnline, servers, clients, changes, lost,
                     failures, logins>>
  BY DEF TellDisconnection, PInv, PTypeOK
<1>3. Touched(d, i, "none")
  BY TouchedDrop DEF TellDisconnection
<1>4. /\ strays' \in [Devices -> SUBSET {"write", "told"}]
      /\ \A e \in Devices : e # d => strays'[e] = strays[e]
      /\ "told" \in strays'[d] <=> tropho[d] # NoServer
      /\ "write" \in strays'[d] <=> "write" \in strays[d]
  BY Marked DEF TellDisconnection
<1>5. Aside(d)
  BY <1>2, <1>4 DEF Aside, clients, PInv, PTypeOK
<1>6. UserFlag'
  BY <1>2, <1>3, <1>5, TouchedUser
<1>7. Seen(d)' /\ Followed(d)'
  BY <1>1, <1>2, <1>4 DEF Docs, Seen, Followed
<1>8. OnRecord(d)'
  BY <1>1, <1>2, <1>3, <1>4 DEF Docs, OnRecord, Touched, servers, Open, Listed, Reporting
<1> QED
  BY <1>2, <1>3, <1>4, <1>5, <1>6, <1>7, <1>8, TouchedGood DEF Docs

-----------------------------------------------------------------------------
\* A notification that comes in is in the queue of every connection it is for, and of
\* that of the client when it was sent to its server.
LEMMA Delivers ==
  ASSUME PInv, NEW m \in flight, Deliver(m) PROVE PInv'
<1> DEFINE d == m.dev
           q == conns[d]
           fed == [i \in 1..Len(q) |-> [q[i] EXCEPT !.queue = @ \union {m.ver}]]
           there == {i \in 1..Len(q) : /\ q[i].srv = m.srv /\ q[i].held
                                       /\ q[i].at \in Listed /\ alive[m.srv] # "gone"}
           new(i) == IF i \in there THEN fed[i] ELSE q[i]
           r == [i \in 1..Len(q) |-> new(i)]
<1>1. /\ m \in [ver : 1..ver, srv : Servers, dev : Devices] /\ d \in Devices
      /\ m.ver \in 1..ver /\ m.srv \in Servers /\ ver \in 0..MaxVer
      /\ conns \in [Devices -> Seq(Connection)] /\ q \in Seq(Connection)
  BY DEF PInv, PTypeOK
<1>2. /\ flight' = flight \ {m} /\ conns' = [conns EXCEPT ![d] = r]
      /\ UNCHANGED <<presence, servers, mine, clients, ver, unsent, history, failures,
                     logins>>
  BY <1>1 DEF Deliver
<1>3. m.ver \in 1..MaxVer
  BY <1>1, PresenceAssumption
<1>4. ASSUME NEW i \in 1..Len(q)
      PROVE  /\ new(i) \in Connection /\ new(i).at = q[i].at /\ new(i).srv = q[i].srv
             /\ new(i).held = q[i].held /\ q[i].queue \subseteq new(i).queue
             /\ new(i).queue \subseteq q[i].queue \union {m.ver}
             /\ i \in there => m.ver \in new(i).queue
  <2>1. q[i] \in Connection
    BY <1>1
  <2> QED
    BY <1>3, <2>1 DEF Connection
<1> HIDE DEF new
<1>5. /\ r \in Seq(Connection) /\ Len(r) = Len(q) /\ \A i \in 1..Len(q) : r[i] = new(i)
  BY <1>1, <1>4
<1> HIDE DEF r
<1>6. /\ conns' \in [Devices -> Seq(Connection)] /\ conns'[d] = r
      /\ \A e \in Devices : e # d => conns'[e] = conns[e]
  BY <1>1, <1>2, <1>5
<1>7. PTypeOK'
  BY <1>2, <1>6 DEF PInv, PTypeOK, presence, servers, clients, history
<1>8. UserFlag'
  <2>1. UserFlag /\ devOnline' = devOnline /\ userOnline' = userOnline
    BY <1>2 DEF PInv, presence
  <2>2. ASSUME NEW e \in Devices, NEW j \in 1..Len(conns[e]), conns[e][j].at = "cleared"
        PROVE  \E k \in 1..Len(conns'[e]) : conns'[e][k].at = "cleared"
    BY <1>4, <1>5, <1>6, <2>2
  <2> QED
    BY <2>1, <2>2 DEF UserFlag
<1>9. Gone'
  BY <1>2 DEF PInv, Gone, servers
<1>10. ASSUME NEW e \in Devices, e # d PROVE Line(e)' /\ Docs(e)'
  BY <1>2, <1>6, <1>10, NothingHappens DEF presence, servers, clients, history
<1>11. /\ Line(d) /\ Docs(d) /\ Own(d) = q[Len(q)] /\ Own(d)' = r[Len(r)]
  BY <1>1, <1>6 DEF PInv, Own
<1>12. /\ mine' = mine /\ client' = client /\ server' = server /\ heard' = heard /\ lost' = lost
       /\ strays' = strays /\ tropho' = tropho /\ devOnline' = devOnline /\ shown' = shown
       /\ alive' = alive /\ ver' = ver /\ unsent' = unsent
  BY <1>2 DEF presence, servers, clients, history
<1>13. ASSUME mine[d]
       PROVE  /\ r # <<>> /\ Own(d)'.at = Own(d).at /\ Own(d)'.srv = Own(d).srv
              /\ Own(d)'.held = Own(d).held /\ Own(d).queue \subseteq Own(d)'.queue
              /\ Own(d).held /\ Own(d).srv \in Servers /\ Own(d).at \in Open
              /\ Own(d).srv = m.srv /\ Own(d).at \in Listed /\ alive[m.srv] # "gone"
                 => m.ver \in Own(d)'.queue
  <2>1. Len(q) \in 1..Len(q)
    BY <1>1, <1>13, OwnTyped
  <2>2. Own(d).held /\ Own(d).srv \in Servers /\ Own(d).at \in Open
    BY <1>1, <1>13, OwnTyped
  <2>3. Own(d)' = new(Len(q)) /\ r # <<>>
    BY <1>5, <1>11, <2>1
  <2> QED
    BY <1>4, <1>11, <2>1, <2>2, <2>3
<1>14. Owned(d)' /\ Dialed(d)'
  BY <1>6, <1>11, <1>12, <1>13 DEF Line, Owned, Dialed
<1>15. Known(d)'
  <2>1. ASSUME NEW i \in 1..Len(r) PROVE r[i].queue \subseteq 1..ver
    BY <1>1, <1>4, <1>5, <1>11 DEF Line, Known
  <2> QED
    BY <1>6, <1>11, <1>12, <2>1 DEF Line, Known
<1>16. Reached(d)'
  <2> SUFFICES ASSUME client[d] = "up", mine[d], alive[Own(d)'.srv] = "up",
                      "write" \notin strays[d], ~lost[d], NEW v \in 1..ver
               PROVE  \/ v \in heard[d] \/ v \in unsent \/ v \in Own(d)'.queue
                      \/ [ver |-> v, srv |-> Own(d)'.srv, dev |-> d] \in flight'
    BY <1>12 DEF Reached
  <2>1. Own(d).at = "ready" /\ "ready" \in Listed
    BY <1>11 DEF Line, Dialed, Listed
  <2>2. \/ v \in heard[d] \/ v \in unsent \/ v \in Own(d).queue
        \/ [ver |-> v, srv |-> Own(d).srv, dev |-> d] \in flight
    BY <1>11, <1>13 DEF Line, Reached
  <2>3. CASE [ver |-> v, srv |-> Own(d).srv, dev |-> d] = m
    <3>1. m.ver = v /\ m.srv = Own(d).srv
      BY <2>3
    <3> QED
      BY <1>13, <2>1, <3>1
  <2>4. CASE [ver |-> v, srv |-> Own(d).srv, dev |-> d] # m
    BY <1>2, <1>13, <2>2, <2>4
  <2> QED
    BY <2>3, <2>4
<1>17. Docs(d)'
  <2>1. Seen(d)' /\ OnRecord(d)'
    BY <1>11, <1>12, <1>13 DEF Docs, Seen, OnRecord
  <2>2. Followed(d)'
    BY <1>4, <1>5, <1>6, <1>11, <1>12 DEF Docs, Followed
  <2> QED
    BY <2>1, <2>2 DEF Docs
<1> QED
  BY <1>7, <1>8, <1>9, <1>10, <1>14, <1>15, <1>16, <1>17 DEF PInv, Line

-----------------------------------------------------------------------------
\* A server closes, leaves or dies: no device on record there was told out of order but
\* the one that is taken off.
LEMMA ServersGood ==
  ASSUME PInv, NEW s \in Servers, ServerLeave(s) \/ Unregister(s) \/ ServerCrash(s) \/ Expire(s)
  PROVE  PInv'
<1>1. /\ UNCHANGED <<devOnline, userOnline, shown, lost, logins>>
      /\ UNCHANGED <<sockets, clients, changes>>
      /\ failures' \in 0..MaxFailures
      /\ alive' \in [Servers -> {"up", "leaving", "gone"}]
      /\ record' \in [Servers -> {"up", "closing", "none"}]
      /\ \A r \in Servers : alive'[r] = "up" => alive[r] = "up"
      /\ \A r \in Servers : record'[r] = "none" => alive'[r] = "gone"
  <2>1. CASE ServerLeave(s)
    BY <2>1, FaultCounted DEF ServerLeave, presence, history, PInv, PTypeOK, Gone
  <2>2. CASE Unregister(s)
    BY <2>2 DEF Unregister, PInv, PTypeOK, Gone
  <2>3. CASE ServerCrash(s)
    BY <2>3, FaultCounted DEF ServerCrash, presence, history, PInv, PTypeOK, Gone
  <2>4. CASE Expire(s)
    BY <2>4 DEF Expire, presence, history, PInv, PTypeOK, Gone
  <2> QED
    BY <2>1, <2>2, <2>3, <2>4
<1>2. \/ UNCHANGED <<tropho, strays>>
      \/ \E d \in Devices : /\ tropho[d] = s /\ alive'[s] = "gone"
                            /\ tropho' = [tropho EXCEPT ![d] = NoServer]
                            /\ mark(d, "told", TRUE)
  <2>1. CASE Unregister(s)
    BY <2>1 DEF Unregister, PInv, PTypeOK
  <2>2. CASE ServerLeave(s) \/ ServerCrash(s) \/ Expire(s)
    BY <2>2 DEF ServerLeave, ServerCrash, Expire, presence, history
  <2> QED
    BY <2>1, <2>2
<1>3. /\ UNCHANGED <<conns, mine, client, server, heard, ver, unsent, flight>>
      /\ tropho \in [Devices -> Servers \union {NoServer}]
      /\ strays \in [Devices -> SUBSET {"write", "told"}]
  BY <1>1 DEF sockets, clients, changes, PInv, PTypeOK
<1>4. Gone' /\ UserFlag'
  BY <1>1, <1>3 DEF PInv, Gone, UserFlag
<1>5. CASE UNCHANGED <<tropho, strays>>
  <2>1. PTypeOK'
    BY <1>1, <1>3, <1>5 DEF PInv, PTypeOK
  <2>2. ASSUME NEW e \in Devices PROVE Line(e)' /\ Docs(e)'
    BY <1>1, <1>3, <1>5, NothingHappens
  <2> QED
    BY <1>4, <2>1, <2>2 DEF PInv
<1>6. CASE \E d \in Devices : /\ tropho[d] = s /\ alive'[s] = "gone"
                              /\ tropho' = [tropho EXCEPT ![d] = NoServer]
                              /\ mark(d, "told", TRUE)
  <2> PICK d \in Devices : /\ tropho[d] = s /\ alive'[s] = "gone"
                           /\ tropho' = [tropho EXCEPT ![d] = NoServer]
                           /\ mark(d, "told", TRUE)
    BY <1>6
  <2>1. /\ strays' \in [Devices -> SUBSET {"write", "told"}]
        /\ \A e \in Devices : e # d => strays'[e] = strays[e]
        /\ "told" \in strays'[d]
        /\ "write" \in strays'[d] <=> "write" \in strays[d]
    BY Marked
  <2>2. /\ tropho' \in [Devices -> Servers \union {NoServer}] /\ tropho'[d] = NoServer
        /\ \A e \in Devices : e # d => tropho'[e] = tropho[e]
    BY <1>3
  <2>3. PTypeOK'
    BY <1>1, <1>3, <2>1, <2>2 DEF PInv, PTypeOK
  <2>4. ASSUME NEW e \in Devices, e # d PROVE Line(e)' /\ Docs(e)'
    BY <1>1, <1>3, <2>1, <2>2, <2>4, NothingHappens
  <2>5. Line(d) /\ Docs(d) /\ Own(d)' = Own(d) /\ (mine[d] => Own(d).srv \in Servers)
    BY <1>3, OwnTyped DEF PInv, Own
  <2>6. Line(d)'
    <3>1. Owned(d)' /\ Dialed(d)' /\ Known(d)'
      BY <1>3, <2>5 DEF Line, Owned, Dialed, Known
    <3>2. Reached(d)'
      BY <1>1, <1>3, <2>1, <2>5 DEF Line, Reached
    <3> QED
      BY <3>1, <3>2 DEF Line
  <2>7. Docs(d)'
    <3>1. Seen(d)' /\ Followed(d)'
      BY <2>1, <2>2 DEF Seen, Followed
    <3>2. OnRecord(d)'
      BY <1>1, <1>3, <2>1, <2>5 DEF Docs, OnRecord
    <3> QED
      BY <3>1, <3>2 DEF Docs
  <2> QED
    BY <1>4, <2>3, <2>4, <2>6, <2>7 DEF PInv
<1> QED
  BY <1>2, <1>5, <1>6

-----------------------------------------------------------------------------
\* What a step of a client leaves alone.
ClientOnly(d) ==
  /\ UNCHANGED <<presence, servers, changes, strays>>
  /\ failures' \in 0..MaxFailures
  /\ logins' \in [Devices -> 0..MaxLogins]
  /\ client' \in [Devices -> {"out", "dialing", "asking", "syncing", "up"}]
  /\ server' \in [Devices -> Servers \union {NoServer}]
  /\ heard' \in [Devices -> SUBSET (1..MaxVer)] /\ lost' \in [Devices -> BOOLEAN]
  /\ conns' \in [Devices -> Seq(Connection)] /\ mine' \in [Devices -> BOOLEAN]
  /\ \A e \in Devices : e # d => /\ conns'[e] = conns[e] /\ mine'[e] = mine[e]
                                 /\ client'[e] = client[e] /\ server'[e] = server[e]
                                 /\ heard'[e] = heard[e] /\ lost'[e] = lost[e]
  /\ \A j \in 1..Len(conns[d]) : j \in 1..Len(conns'[d]) /\ conns'[d][j].at = conns[d][j].at
  /\ mine'[d] /\ Own(d)'.at \in Written => mine[d] /\ Own(d)'.srv = Own(d).srv
                                           /\ Own(d)'.at = Own(d).at

\* Such a step keeps the invariant when the line of the client is right.
LEMMA ClientOnlyGood ==
  ASSUME PInv, NEW d \in Devices, ClientOnly(d), Line(d)'
  PROVE  PInv'
<1>1. /\ UNCHANGED <<tropho, devOnline, userOnline, shown, record, alive, ver, unsent, flight,
                     strays>>
  BY DEF ClientOnly, presence, servers, changes
<1>2. PTypeOK'
  BY <1>1 DEF ClientOnly, PInv, PTypeOK
<1>3. Gone' /\ UserFlag'
  <2>1. ASSUME NEW e \in Devices, NEW j \in 1..Len(conns[e])
        PROVE  j \in 1..Len(conns'[e]) /\ conns'[e][j].at = conns[e][j].at
    BY DEF ClientOnly
  <2> QED
    BY <1>1, <2>1 DEF PInv, Gone, UserFlag
<1>4. ASSUME NEW e \in Devices, e # d PROVE Line(e)' /\ Docs(e)'
  BY <1>1, <1>4, NothingHappens DEF ClientOnly
<1>5. Docs(d)'
  <2>1. Docs(d)
    BY DEF PInv
  <2>2. Seen(d)' /\ Followed(d)'
    BY <1>1, <2>1 DEF Docs, Seen, Followed, ClientOnly
  <2>3. OnRecord(d)'
    BY <1>1, <2>1 DEF Docs, OnRecord, ClientOnly
  <2> QED
    BY <2>2, <2>3 DEF Docs
<1> QED
  BY <1>2, <1>3, <1>4, <1>5 DEF PInv

\* The steps that leave the connections alone.
LEMMA ClientSteps ==
  ASSUME PInv, NEW d \in Devices,
         \/ Login(d) \/ Repick(d) \/ Connected(d) \/ Synchronize(d) \/ Reconnect(d)
         \/ Break(d) \/ Logout(d)
  PROVE  PInv'
<1>1. /\ UNCHANGED <<presence, servers, changes, strays, conns>>
      /\ \A e \in Devices : e # d => /\ client'[e] = client[e] /\ server'[e] = server[e]
                                     /\ mine'[e] = mine[e] /\ heard'[e] = heard[e]
                                     /\ lost'[e] = lost[e]
  BY DEF Login, Repick, Connected, Synchronize, Reconnect, Break, Logout, PInv, PTypeOK,
         sockets, clients, history
<1>2. /\ client' \in [Devices -> {"out", "dialing", "asking", "syncing", "up"}]
      /\ server' \in [Devices -> Servers \union {NoServer}]
      /\ logins' \in [Devices -> 0..MaxLogins] /\ failures' \in 0..MaxFailures
      /\ mine' \in [Devices -> BOOLEAN] /\ lost' \in [Devices -> BOOLEAN]
      /\ heard' \in [Devices -> SUBSET (1..MaxVer)]
      /\ mine'[d] => mine[d]
  <2> USE DEF PInv, PTypeOK, sockets, clients, history, Picks
  <2>1. CASE Login(d)
    <3>1. logins[d] + 1 \in 0..MaxLogins
      BY <2>1, PresenceAssumption DEF Login
    <3> QED
      BY <2>1, <3>1 DEF Login
  <2>2. CASE Repick(d)
    <3>1. server' \in [Devices -> Servers \union {NoServer}]
      <4>1. CASE \E s \in Picks : server' = [server EXCEPT ![d] = s]
        BY <4>1
      <4> QED
        BY <2>2, <4>1 DEF Repick
    <3>2. client' \in [Devices -> {"out", "dialing", "asking", "syncing", "up"}]
      BY <2>2 DEF Repick
    <3>3. UNCHANGED <<mine, heard, lost, logins, failures>>
      BY <2>2 DEF Repick
    <3> QED
      BY <3>1, <3>2, <3>3
  <2>3. CASE Connected(d) \/ Reconnect(d)
    BY <2>3 DEF Connected, Reconnect
  <2>4. CASE Synchronize(d)
    <3>1. 1..ver \subseteq 1..MaxVer
      BY PresenceAssumption
    <3> QED
      BY <2>4, <3>1 DEF Synchronize
  <2>5. CASE Break(d)
    BY <2>5, FaultCounted DEF Break
  <2>6. CASE Logout(d)
    BY <2>6 DEF Logout
  <2> QED
    BY <2>1, <2>2, <2>3, <2>4, <2>5, <2>6
<1>3. /\ UNCHANGED <<alive, ver, unsent, flight>> /\ Own(d)' = Own(d)
      /\ conns' \in [Devices -> Seq(Connection)]
  BY <1>1 DEF servers, changes, Own, PInv, PTypeOK
<1>4. ClientOnly(d)
  BY <1>1, <1>2, <1>3 DEF ClientOnly
<1>5. Line(d)
  BY DEF PInv
<1>6. Owned(d)'
  BY <1>1, <1>2, <1>3, <1>5 DEF Line, Owned
<1>7. Dialed(d)'
  <2>1. client'[d] # "out" => server'[d] \in Servers
    BY <1>5 DEF Line, Dialed, Login, Repick, Connected, Synchronize, Reconnect, Break, Logout,
                clients, Picks, PInv, PTypeOK
  <2>2. client'[d] \in {"syncing", "up"} /\ mine'[d] => Own(d).at = "ready"
    BY <1>2, <1>5 DEF Line, Dialed, Login, Repick, Connected, Synchronize, Reconnect, Break,
                Logout, clients, sockets, PInv, PTypeOK
  <2> QED
    BY <1>3, <2>1, <2>2 DEF Dialed
<1>8. Known(d)'
  <2>1. heard'[d] \subseteq 1..ver
    BY <1>5 DEF Line, Known, Login, Repick, Connected, Synchronize, Reconnect, Break,
                Logout, clients, PInv, PTypeOK
  <2> QED
    BY <1>1, <1>3, <1>5, <2>1 DEF Line, Known
<1>9. Reached(d)'
  <2>1. CASE Synchronize(d)
    <3>1. heard'[d] = 1..ver
      BY <2>1 DEF Synchronize, PInv, PTypeOK
    <3> QED
      BY <1>3, <3>1 DEF Reached
  <2>2. CASE Break(d) \/ Logout(d)
    <3>1. ~mine'[d]
      BY <2>2 DEF Break, Logout, PInv, PTypeOK
    <3> QED
      BY <3>1 DEF Reached
  <2>3. CASE Login(d) \/ Repick(d) \/ Connected(d) \/ Reconnect(d)
    <3>1. client'[d] # "up"
      BY <2>3 DEF Login, Repick, Connected, Reconnect, PInv, PTypeOK
    <3> QED
      BY <3>1 DEF Reached
  <2> QED
    BY <2>1, <2>2, <2>3
<1> QED
  BY <1>4, <1>6, <1>7, <1>8, <1>9, ClientOnlyGood DEF Line

\* A new connection is not on record, and the client is not up on it.
LEMMA Dials ==
  ASSUME PInv, NEW d \in Devices, Dial(d) PROVE PInv'
<1> DEFINE q == conns[d]
           c == [at |-> "pending", srv |-> server[d], held |-> TRUE, queue |-> {}]
           r == Append(q, c)
<1>1. /\ conns \in [Devices -> Seq(Connection)] /\ q \in Seq(Connection) /\ Line(d)
      /\ client[d] = "dialing" /\ server[d] \in Servers
  BY DEF PInv, PTypeOK, Line, Dialed, Dial
<1>2. c \in Connection /\ c.at = "pending" /\ c.held /\ c.queue = {}
  BY <1>1 DEF Connection, Open
<1>3. /\ conns' = [conns EXCEPT ![d] = r] /\ mine' = [mine EXCEPT ![d] = TRUE]
      /\ client' = [client EXCEPT ![d] = "asking"]
      /\ UNCHANGED <<presence, servers, server, heard, changes, history, failures, logins>>
  BY DEF Dial
<1> HIDE DEF c
<1>4. /\ r \in Seq(Connection) /\ Len(r) = Len(q) + 1 /\ r[Len(q) + 1] = c
      /\ \A j \in 1..Len(q) : r[j] = q[j]
  BY <1>1, <1>2
<1> HIDE DEF r
<1>5. /\ conns' \in [Devices -> Seq(Connection)] /\ conns'[d] = r /\ Own(d)' = c
      /\ \A e \in Devices : e # d => conns'[e] = conns[e]
  BY <1>1, <1>3, <1>4 DEF Own
<1>6. /\ mine' \in [Devices -> BOOLEAN] /\ client'[d] = "asking"
      /\ client' \in [Devices -> {"out", "dialing", "asking", "syncing", "up"}]
      /\ \A e \in Devices : e # d => mine'[e] = mine[e] /\ client'[e] = client[e]
  BY <1>3 DEF PInv, PTypeOK
<1>7. "pending" \in Open /\ "pending" \notin Written
  BY DEF Open, Written, Listed, Reporting
<1>8. ClientOnly(d)
  BY <1>1, <1>2, <1>3, <1>4, <1>5, <1>6, <1>7 DEF ClientOnly, history, PInv, PTypeOK
<1>9. Owned(d)' /\ Dialed(d)' /\ Reached(d)'
  BY <1>1, <1>2, <1>3, <1>4, <1>5, <1>6, <1>7 DEF Owned, Dialed, Reached
<1>10. Known(d)'
  <2>1. ASSUME NEW j \in 1..Len(r) PROVE r[j].queue \subseteq 1..ver
    <3>1. CASE j = Len(q) + 1
      BY <1>2, <1>4, <3>1
    <3>2. CASE j # Len(q) + 1
      <4>1. j \in 1..Len(q)
        BY <1>1, <1>4, <3>2
      <4> QED
        BY <1>1, <1>4, <4>1 DEF Line, Known
    <3> QED
      BY <3>1, <3>2
  <2>2. ver' = ver /\ heard' = heard
    BY <1>3 DEF changes
  <2> QED
    BY <1>1, <1>5, <2>1, <2>2 DEF Line, Known
<1> QED
  BY <1>8, <1>9, <1>10, ClientOnlyGood DEF Line

\* What leaves the queue of the connection is heard.
LEMMA Reads ==
  ASSUME PInv, NEW d \in Devices, Poll(d) PROVE PInv'
<1> DEFINE q == conns[d]
           n == Len(q)
           c == [q[n] EXCEPT !.queue = {}]
           r == [q EXCEPT ![n] = c]
<1>1. /\ conns \in [Devices -> Seq(Connection)] /\ q \in Seq(Connection) /\ Line(d)
      /\ mine[d] /\ client[d] = "up" /\ n \in 1..n /\ q[n] \in Connection /\ Own(d) = q[n]
  BY OwnTyped DEF PInv, PTypeOK, Poll, Own
<1>2. /\ c \in Connection /\ c.at = q[n].at /\ c.srv = q[n].srv /\ c.held = q[n].held
      /\ c.queue = {}
  BY <1>1 DEF Connection
<1>3. /\ conns' = [conns EXCEPT ![d] = r] /\ heard' = [heard EXCEPT ![d] = @ \union q[n].queue]
      /\ UNCHANGED <<presence, servers, mine, client, server, changes, history, failures,
                     logins>>
  BY <1>1 DEF Poll, Own
<1> HIDE DEF c
<1>4. /\ r \in Seq(Connection) /\ Len(r) = n /\ r[n] = c
      /\ \A j \in 1..n : j # n => r[j] = q[j]
  BY <1>1, <1>2, Exchange
<1> HIDE DEF r
<1>5. /\ conns' \in [Devices -> Seq(Connection)] /\ conns'[d] = r /\ Own(d)' = c
      /\ \A e \in Devices : e # d => conns'[e] = conns[e]
  BY <1>1, <1>3, <1>4 DEF Own
<1>6. /\ heard' \in [Devices -> SUBSET (1..MaxVer)]
      /\ heard'[d] = heard[d] \union q[n].queue
      /\ \A e \in Devices : e # d => heard'[e] = heard[e]
  <2>1. heard \in [Devices -> SUBSET (1..MaxVer)] /\ q[n].queue \in SUBSET (1..MaxVer)
    BY <1>1 DEF PInv, PTypeOK, Connection
  <2> QED
    BY <1>3, <2>1
<1>7. ClientOnly(d)
  BY <1>1, <1>2, <1>3, <1>4, <1>5, <1>6 DEF ClientOnly, history, PInv, PTypeOK
<1>8. /\ mine' = mine /\ client' = client /\ server' = server /\ lost' = lost
      /\ strays' = strays /\ alive' = alive /\ ver' = ver /\ unsent' = unsent
      /\ flight' = flight
  BY <1>3 DEF servers, changes, history
<1>9. Owned(d)' /\ Dialed(d)'
  BY <1>1, <1>2, <1>4, <1>5, <1>8 DEF Line, Owned, Dialed
<1>10. Known(d)'
  <2>1. ASSUME NEW j \in 1..n PROVE q[j].queue \subseteq 1..ver /\ r[j].queue \subseteq 1..ver
    BY <1>1, <1>2, <1>4 DEF Line, Known
  <2> QED
    BY <1>1, <1>4, <1>5, <1>6, <1>8, <2>1 DEF Line, Known
<1>11. Reached(d)'
  BY <1>1, <1>2, <1>5, <1>6, <1>8 DEF Line, Reached
<1> QED
  BY <1>7, <1>9, <1>10, <1>11, ClientOnlyGood DEF Line

-----------------------------------------------------------------------------
\* What is written is to be notified ...
LEMMA Changes ==
  ASSUME PInv, Change PROVE PInv'
<1>1. /\ ver \in 0..MaxVer /\ ver < MaxVer /\ ver' = ver + 1 /\ ver + 1 \in 0..MaxVer
      /\ unsent \subseteq 1..ver /\ unsent' = unsent \union {ver + 1}
      /\ 1..(ver + 1) = (1..ver) \union {ver + 1}
      /\ flight \subseteq [ver : 1..ver, srv : Servers, dev : Devices]
  BY PresenceAssumption DEF Change, PInv, PTypeOK
<1>2. /\ UNCHANGED <<tropho, devOnline, userOnline, shown, record, alive, conns, mine,
                     client, server, heard, flight, strays, lost, failures, logins>>
  BY DEF Change, presence, servers, sockets, clients, history
<1>3. PTypeOK'
  <2>1. flight' \subseteq [ver : 1..ver', srv : Servers, dev : Devices]
    BY <1>1, <1>2
  <2>2. unsent' \subseteq 1..ver' /\ ver' \in 0..MaxVer
    BY <1>1
  <2> QED
    BY <1>2, <2>1, <2>2 DEF PInv, PTypeOK
<1>4. Gone' /\ UserFlag'
  BY <1>2 DEF PInv, Gone, UserFlag
<1>5. ASSUME NEW d \in Devices PROVE Line(d)' /\ Docs(d)'
  <2>1. Line(d) /\ Docs(d) /\ Own(d)' = Own(d)
    BY <1>2 DEF PInv, Own
  <2>2. Docs(d)'
    BY <1>2, <2>1 DEF Docs, Seen, OnRecord, Followed
  <2>3. Owned(d)' /\ Dialed(d)'
    BY <1>2, <2>1 DEF Line, Owned, Dialed
  <2>4. Known(d)'
    BY <1>1, <1>2, <2>1 DEF Line, Known
  <2>5. Reached(d)'
    BY <1>1, <1>2, <2>1 DEF Line, Reached
  <2> QED
    BY <2>2, <2>3, <2>4, <2>5 DEF Line
<1> QED
  BY <1>3, <1>4, <1>5 DEF PInv

\* ... and is notified to the server of a device that is connected ...
LEMMA Notifies ==
  ASSUME PInv, NEW v \in unsent, Notify(v) PROVE PInv'
<1> DEFINE to == {e \in Devices : tropho[e] # NoServer /\ record[tropho[e]] # "none"}
           msg(d) == [ver |-> v, srv |-> tropho[d], dev |-> d]
<1>1. /\ unsent' = unsent \ {v} /\ flight' = flight \union {msg(d) : d \in to}
      /\ UNCHANGED <<tropho, devOnline, userOnline, shown, record, alive, conns, mine,
                     client, server, heard, ver, strays, lost, failures, logins>>
  BY DEF Notify, presence, servers, sockets, clients, history
<1>2. v \in 1..ver
  BY DEF PInv, PTypeOK
<1>3. PTypeOK'
  <2>1. \A d \in to : msg(d) \in [ver : 1..ver, srv : Servers, dev : Devices]
    BY <1>2 DEF PInv, PTypeOK
  <2>2. flight' \subseteq [ver : 1..ver, srv : Servers, dev : Devices]
    BY <1>1, <2>1 DEF PInv, PTypeOK
  <2>3. unsent' \subseteq 1..ver
    BY <1>1 DEF PInv, PTypeOK
  <2> QED
    BY <1>1, <2>2, <2>3 DEF PInv, PTypeOK
<1>4. Gone' /\ UserFlag'
  BY <1>1 DEF PInv, Gone, UserFlag
<1>5. ASSUME NEW d \in Devices PROVE Line(d)' /\ Docs(d)'
  <2>1. Line(d) /\ Docs(d) /\ Own(d)' = Own(d)
    BY <1>1 DEF PInv, Own
  <2>2. Docs(d)'
    BY <1>1, <2>1 DEF Docs, Seen, OnRecord, Followed
  <2>3. Owned(d)' /\ Dialed(d)' /\ Known(d)'
    BY <1>1, <2>1 DEF Line, Owned, Dialed, Known
  <2>4. Reached(d)'
    <3> SUFFICES ASSUME client[d] = "up", mine[d], alive[Own(d).srv] = "up",
                        "write" \notin strays[d], ~lost[d], NEW w \in 1..ver
                 PROVE  \/ w \in heard[d] \/ w \in unsent' \/ w \in Own(d).queue
                        \/ [ver |-> w, srv |-> Own(d).srv, dev |-> d] \in flight'
      BY <1>1, <2>1 DEF Reached
    <3>1. \/ w \in heard[d] \/ w \in unsent \/ w \in Own(d).queue
          \/ [ver |-> w, srv |-> Own(d).srv, dev |-> d] \in flight
      BY <2>1 DEF Line, Reached
    <3>2. CASE w # v
      BY <1>1, <3>1, <3>2
    <3>3. CASE w = v
      <4>1. Own(d).srv \in Servers
        BY OwnTyped
      <4>2. tropho[d] = Own(d).srv
        BY <2>1 DEF Line, Dialed, Docs, OnRecord, Written, Listed
      <4>3. tropho[d] # NoServer /\ record[tropho[d]] # "none"
        BY <4>1, <4>2, PresenceAssumption DEF PInv, Gone
      <4>4. d \in to /\ msg(d) = [ver |-> w, srv |-> Own(d).srv, dev |-> d]
        BY <3>3, <4>2, <4>3
      <4> QED
        BY <1>1, <4>4
    <3> QED
      BY <3>2, <3>3
  <2> QED
    BY <2>2, <2>3, <2>4 DEF Line
<1> QED
  BY <1>3, <1>4, <1>5 DEF PInv

\* ... unless the notification is lost.
LEMMA Loses ==
  ASSUME PInv, NEW m \in flight, Lose(m) PROVE PInv'
<1> DEFINE d == m.dev
<1>1. d \in Devices /\ failures' \in 0..MaxFailures
  BY FaultCounted DEF Lose, PInv, PTypeOK
<1>2. /\ flight' = flight \ {m} /\ lost' = [lost EXCEPT ![d] = TRUE]
      /\ UNCHANGED <<tropho, devOnline, userOnline, shown, record, alive, conns, mine,
                     client, server, heard, ver, unsent, strays, logins>>
  BY DEF Lose, presence, servers, sockets, clients
<1>3. /\ lost' \in [Devices -> BOOLEAN] /\ lost'[d] = TRUE
      /\ \A e \in Devices : e # d => lost'[e] = lost[e]
  BY <1>1, <1>2 DEF PInv, PTypeOK
<1>4. PTypeOK'
  BY <1>1, <1>2, <1>3 DEF PInv, PTypeOK
<1>5. Gone' /\ UserFlag'
  BY <1>2 DEF PInv, Gone, UserFlag
<1>6. ASSUME NEW e \in Devices, e # d PROVE Line(e)' /\ Docs(e)'
  BY <1>2, <1>3, <1>6, NothingHappens
<1>7. Line(d) /\ Docs(d) /\ Own(d)' = Own(d)
  BY <1>1, <1>2 DEF PInv, Own
<1>8. Docs(d)'
  BY <1>2, <1>7 DEF Docs, Seen, OnRecord, Followed
<1>9. Line(d)'
  BY <1>2, <1>3, <1>7 DEF Line, Owned, Dialed, Known, Reached
<1> QED
  BY <1>4, <1>5, <1>6, <1>8, <1>9 DEF PInv

-----------------------------------------------------------------------------
LEMMA PInvInit == PInit => PInv
<1> SUFFICES ASSUME PInit PROVE PInv
  OBVIOUS
<1>1. PTypeOK
  <2>1. 0 \in 0..MaxVer /\ 0 \in 0..MaxFailures /\ 0 \in 0..MaxLogins
    BY PresenceAssumption
  <2>2. /\ conns \in [Devices -> Seq(Connection)] /\ logins \in [Devices -> 0..MaxLogins]
        /\ heard \in [Devices -> SUBSET (1..MaxVer)]
        /\ strays \in [Devices -> SUBSET {"write", "told"}]
    <3>1. <<>> \in Seq(Connection)
      OBVIOUS
    <3> QED
      BY <2>1, <3>1 DEF PInit
  <2>3. /\ tropho \in [Devices -> Servers \union {NoServer}]
        /\ server \in [Devices -> Servers \union {NoServer}]
        /\ devOnline \in [Devices -> BOOLEAN] /\ shown \in [Devices -> BOOLEAN]
        /\ mine \in [Devices -> BOOLEAN] /\ lost \in [Devices -> BOOLEAN]
        /\ record \in [Servers -> {"up", "closing", "none"}]
        /\ alive \in [Servers -> {"up", "leaving", "gone"}]
        /\ client \in [Devices -> {"out", "dialing", "asking", "syncing", "up"}]
    BY DEF PInit
  <2>4. /\ userOnline \in BOOLEAN /\ ver = 0 /\ unsent \subseteq 1..ver /\ failures = 0
        /\ flight \subseteq [ver : 1..ver, srv : Servers, dev : Devices]
    BY DEF PInit
  <2> QED
    BY <2>1, <2>2, <2>3, <2>4 DEF PTypeOK
<1>2. UserFlag /\ Gone
  BY DEF PInit, UserFlag, Gone
<1>3. ASSUME NEW d \in Devices PROVE Line(d) /\ Docs(d)
  <2>1. /\ conns[d] = <<>> /\ Len(conns[d]) = 0 /\ ~mine[d] /\ client[d] = "out"
        /\ heard[d] = {} /\ tropho[d] = NoServer /\ shown[d] = FALSE
    BY DEF PInit
  <2>2. Owned(d) /\ Dialed(d) /\ Known(d) /\ Reached(d)
    BY <2>1 DEF Owned, Dialed, Known, Reached
  <2>3. Seen(d) /\ OnRecord(d) /\ Followed(d)
    BY <2>1 DEF Seen, OnRecord, Followed
  <2> QED
    BY <2>2, <2>3 DEF Line, Docs
<1> QED
  BY <1>1, <1>2, <1>3 DEF PInv

LEMMA PInvNext == PInv /\ [PNext]_pvars => PInv'
<1> SUFFICES ASSUME PInv, [PNext]_pvars PROVE PInv'
  OBVIOUS
<1>1. ASSUME NEW d \in Devices, Reports(d) PROVE PInv'
  BY <1>1, SilentSteps, WritesConnection, TellsConnection, WritesDisconnection,
     CountsDevices, TellsDisconnection DEF Reports, Serve
<1>2. ASSUME NEW d \in Devices, Client(d) PROVE PInv'
  BY <1>2, ClientSteps, Dials, Reads DEF Client
<1>3. ASSUME NEW d \in Devices, Fails(d) PROVE PInv'
  BY <1>3, SilentSteps, ClientSteps DEF Fails
<1>4. ASSUME NEW d \in Devices, Login(d) \/ Logout(d) PROVE PInv'
  BY <1>4, ClientSteps
<1>5. ASSUME NEW s \in Servers, ServerLeave(s) \/ Unregister(s) \/ ServerCrash(s) \/ Expire(s)
      PROVE  PInv'
  BY <1>5, ServersGood
<1>6. ASSUME Notifications PROVE PInv'
  BY <1>6, Notifies, Delivers DEF Notifications
<1>7. CASE UNCHANGED pvars
  <2>1. UNCHANGED <<tropho, devOnline, userOnline, shown, record, alive, conns, mine, client,
                    server, heard, ver, unsent, flight, strays, lost, failures, logins>>
    BY <1>7 DEF pvars, presence, servers, sockets, clients, changes, history
  <2> QED
    BY <2>1 DEF PInv, PTypeOK, UserFlag, Gone, Line, Owned, Dialed, Known, Reached,
                Docs, Seen, OnRecord, Followed, Own
<1> QED
  BY <1>1, <1>2, <1>3, <1>4, <1>5, <1>6, <1>7, Changes, Loses DEF PNext

\* The invariant implies the two properties.
LEMMA PInvEnough == PInv => Recorded /\ NoMissedUpdate
<1> SUFFICES ASSUME PInv PROVE Recorded /\ NoMissedUpdate
  OBVIOUS
<1>1. Placed
  <2> SUFFICES ASSUME NEW d \in Devices, AtRest(d), "write" \notin strays[d]
               PROVE  tropho[d] = Own(d).srv /\ devOnline[d] /\ userOnline
    BY DEF Placed, PInv
  <2>1. /\ mine[d] /\ Own(d).at = "ready" /\ alive[Own(d).srv] = "up"
        /\ Own(d).srv \in Servers
    BY OwnTyped DEF AtRest, Quiet
  <2>2. tropho[d] = Own(d).srv
    BY <2>1 DEF PInv, Docs, OnRecord, Written, Listed
  <2>3. devOnline[d]
    BY <2>1, <2>2, PresenceAssumption DEF PInv, Docs, Seen
  <2> QED
    BY <2>2, <2>3 DEF PInv, UserFlag
<1>2. PeersTold
  <2> SUFFICES ASSUME NEW d \in Devices, Quiet(d), "told" \notin strays[d]
               PROVE  shown[d] = (tropho[d] # NoServer)
    BY DEF PeersTold
  <2>1. \A i \in 1..Len(conns[d]) : conns[d][i].at \notin Untold
    BY DEF Quiet, Own, Untold
  <2> QED
    BY <2>1 DEF PInv, Docs, Followed
<1>3. NoMissedUpdate
  <2> SUFFICES ASSUME NEW d \in Devices, AtRest(d), "write" \notin strays[d], ~lost[d],
                      Own(d).queue = {}, unsent = {}, \A m \in flight : m.dev # d
               PROVE  heard[d] = 1..ver
    BY DEF NoMissedUpdate
  <2>1. client[d] = "up" /\ mine[d] /\ alive[Own(d).srv] = "up"
    BY DEF AtRest, Quiet
  <2>2. \A v \in 1..ver : v \in heard[d]
    BY <2>1 DEF PInv, Line, Reached
  <2> QED
    BY <2>2 DEF PInv, Line, Known
<1> QED
  BY <1>1, <1>2, <1>3 DEF Recorded, PInv

\* Whatever order the reports of the connections come in, a device that is connected is on
\* record on its server and online, its user is, and the swaggers heard of it what meta
\* has (set_connection_status, trophonius_put_user, trophonius_delete_user).
THEOREM PresenceFollows == PSpec => []Recorded
<1> QED
  BY PInvInit, PInvNext, PInvEnough, PTL DEF PSpec

\* A device that is connected and has read its notifications knows of every change: those
\* from before it asked, from while it was connecting and from after (notify_some,
\* on_connection_changed).
THEOREM UpdatesReach == PSpec => []NoMissedUpdate
<1> QED
  BY PInvInit, PInvNext, PInvEnough, PTL DEF PSpec
===============================================================================
