---------------------------- MODULE GhostDownload ----------------------------
(***************************************************************************)
(* The recipient of a transaction that was sent to a ghost, once it is a   *)
(* user: the sender has put one object in the cloud, a file or an archive  *)
(* of several, and the device that accepts downloads it by HTTP.  The      *)
(* machine of the transaction saves its state whenever it changes; the     *)
(* name of the target is saved apart, once; the file itself is the         *)
(* progress: a download resumes at its size.                               *)
(***************************************************************************)
EXTENDS Integers, Sequences, FiniteSets, FiniteSetsExt

CONSTANTS Blocks,    \* the blocks of the object
          Names,     \* how many names for the target there are
          MaxFaults  \* bound: crashes and network errors

ASSUME GhostAssumption ==
  /\ Blocks \in Nat \ {0} /\ Names \in Nat \ {0} /\ MaxFaults \in Nat

VARIABLES
  case,      \* is the object an archive of several files, does the client keep
             \* a folder per transaction as on a phone, and has the user a file
             \* of the name of the object already?
  status,    \* the status of the transaction on the server
  at,        \* the state of the machine, or "off"
  saved,     \* fsm.snapshot
  note,      \* ghostreceive.snapshot: the name of the target, or None
  under,     \* and whether it is one under the folder
  path,      \* _path, in memory
  folder,    \* _relative_output_dir is known to this process
  files,     \* the files of each name
  request,   \* the next block of the request, or None
  extracted, \* the files of the archive are there
  untold,    \* history: the machine ended and could not tell the server how
  faults

vars == <<case, status, at, saved, note, under, path, folder, files, request,
          extracted, untold, faults>>

None == 0
Whole == [i \in 1..Blocks |-> i]
Other == <<0>>     \* what a file of the user holds
Absent == <<-1>>

Final == {"finished", "failed"}

Archive == case.archive
Mobile == case.mobile
Taken == case.taken

TypeOK ==
  /\ case \in [archive : BOOLEAN, mobile : BOOLEAN, taken : BOOLEAN]
  /\ status \in {"initialized", "ghost_uploaded", "accepted"} \cup Final
  /\ at \in {"off", "upload", "decision", "accept", "locate", "transfer",
             "finish", "remove", "report", "fail", "answer", "done", "end", "over"}
  /\ saved \in {"none", "upload", "decision", "accept", "transfer", "finish",
                "fail", "end"}
  /\ note \in 0..Names /\ path \in 0..Names /\ request \in 0..(Blocks + 1)
  /\ files \in [1..Names -> {Absent} \cup Seq(0..Blocks)]
  /\ under \in BOOLEAN /\ folder \in BOOLEAN /\ extracted \in BOOLEAN
  /\ untold \in BOOLEAN /\ faults \in 0..MaxFaults

-----------------------------------------------------------------------------
\* Every change of state is saved.
Enter(state) == at' = state /\ saved' = state

\* The sender ends its upload; the server makes the link of the download.
Upload ==
  /\ status = "initialized" /\ status' = "ghost_uploaded"
  /\ UNCHANGED <<case, at, saved, note, under, path, folder, files, request,
                 extracted, untold, faults>>

\* The client learns it.
Uploaded ==
  /\ at = "upload" /\ status = "ghost_uploaded" /\ Enter("decision")
  /\ UNCHANGED <<case, status, note, under, path, folder, files, request,
                 extracted, untold, faults>>

\* The user accepts; on a phone the folder of the transaction is kept in
\* memory.
Accept ==
  /\ at = "decision" /\ Enter("accept")
  /\ folder' = Mobile
  /\ UNCHANGED <<case, status, note, under, path, files, request, extracted,
                 untold, faults>>

\* The server is told; telling it again changes nothing.
Tell ==
  /\ at = "accept"
  /\ status' = IF status \in Final THEN status ELSE "accepted"
  /\ at' = "locate" /\ saved' = "transfer"
  /\ UNCHANGED <<case, note, under, path, folder, files, request, extracted,
                 untold, faults>>

\* eligible_name: the first name that nothing has.
Eligible == Min({n \in 1..Names : files[n] = Absent})

\* The name saved, or a new one which is saved before the file is made: under
\* the folder of the transaction by a process that knows it, and as it is by any
\* other.  They are two fields of the snapshot, and each looks for its own.
Locate ==
  /\ at = "locate"
  /\ IF note # None
       THEN /\ UNCHANGED <<note, under>>
            /\ IF under # folder
                 THEN Enter("fail") /\ UNCHANGED path
                 ELSE path' = note /\ at' = "transfer" /\ UNCHANGED saved
       ELSE /\ \E n \in 1..Names : files[n] = Absent
            /\ path' = Eligible
            /\ note' = (IF folder THEN 1 ELSE path') /\ under' = folder
            /\ at' = "transfer" /\ UNCHANGED saved
  /\ UNCHANGED <<case, status, folder, files, request, extracted, untold, faults>>

Size(n) == IF files[n] = Absent THEN 0 ELSE Len(files[n])

\* Faulty: the whole object is asked for again.
FromStart == 1

\* Range: bytes=<size of the file>-
From == Size(path) + 1

\* The file is opened to append, and a request asks for what follows.  The
\* host of the object refuses an empty range, which is fatal.
Request ==
  /\ at = "transfer" /\ request = None
  /\ files' = [files EXCEPT ![path] = IF @ = Absent THEN << >> ELSE @]
  /\ IF From > Blocks THEN Enter("fail") /\ UNCHANGED request
                      ELSE request' = From /\ UNCHANGED <<at, saved>>
  /\ UNCHANGED <<case, status, note, under, path, folder, extracted, untold,
                 faults>>

Read ==
  /\ at = "transfer" /\ request \in 1..Blocks
  /\ files' = [files EXCEPT ![path] = Append(@, request)]
  /\ request' = request + 1
  /\ UNCHANGED <<case, status, at, saved, note, under, path, folder, extracted,
                 untold, faults>>

\* Nothing more to read.
Downloaded ==
  /\ at = "transfer" /\ request = Blocks + 1
  /\ request' = None /\ Enter("finish")
  /\ UNCHANGED <<case, status, note, under, path, folder, files, extracted,
                 untold, faults>>

\* A network error: the request is made again, from the size of the file.
Broken ==
  /\ faults < MaxFaults /\ faults' = faults + 1
  /\ request # None /\ request' = None
  /\ UNCHANGED <<case, status, at, saved, note, under, path, folder, files,
                 extracted, untold>>

\* _finish: an archive is extracted and removed before the server is told.  A
\* process that did not download it has no path: the extraction throws, which
\* ends the machine and tells nobody.
Finish ==
  /\ at = "finish"
  /\ IF ~Archive THEN at' = "report" /\ UNCHANGED <<extracted, untold, saved>>
     ELSE IF path = None THEN Enter("end") /\ untold' = TRUE /\ UNCHANGED extracted
     ELSE extracted' = TRUE /\ at' = "remove" /\ UNCHANGED <<untold, saved>>
  /\ UNCHANGED <<case, status, note, under, path, folder, files, request, faults>>

Remove ==
  /\ at = "remove" /\ at' = "report"
  /\ files' = [files EXCEPT ![path] = Absent]
  /\ UNCHANGED <<case, status, saved, note, under, path, folder, request,
                 extracted, untold, faults>>

\* What the machine has to tell.
Outcome == IF saved = "finish" THEN "finished" ELSE "failed"

\* Faulty: the state is left when the request is made.
UpdateSaved ==
  /\ at \in {"report", "fail"} /\ status \notin Final \ {Outcome}
  /\ status' = Outcome /\ at' = "answer" /\ saved' = "end"
  /\ UNCHANGED <<case, note, under, path, folder, files, request, extracted,
                 untold, faults>>

\* _finalize: the request reaches the server, to which the same status again is
\* nothing new and which refuses another final one.
Update ==
  /\ at \in {"report", "fail"} /\ status \notin Final \ {Outcome}
  /\ status' = Outcome /\ at' = "answer"
  /\ UNCHANGED <<case, saved, note, under, path, folder, files, request,
                 extracted,
                 untold, faults>>

\* Its answer: the status is saved with the transaction.
Answered ==
  /\ at = "answer" /\ at' = "done" /\ untold' = FALSE
  /\ UNCHANGED <<case, status, saved, note, under, path, folder, files, request,
                 extracted, faults>>

\* The server refuses, as when the session was taken away; that is only logged.
Refused ==
  /\ faults < MaxFaults /\ faults' = faults + 1
  /\ at \in {"report", "fail"} /\ at' = "done" /\ untold' = TRUE
  /\ UNCHANGED <<case, status, saved, note, under, path, folder, files, request,
                 extracted>>

\* Either way the machine leaves the state, and saves that.
Finalized ==
  /\ at = "done" /\ Enter("end")
  /\ UNCHANGED <<case, status, note, under, path, folder, files, request,
                 extracted,
                 untold, faults>>

\* _end: the folder of the snapshots goes.
End ==
  /\ at = "end" /\ at' = "over"
  /\ saved' = "none" /\ note' = None /\ under' = FALSE
  /\ UNCHANGED <<case, status, path, folder, files, request, extracted, untold,
                 faults>>

Crash ==
  /\ faults < MaxFaults /\ faults' = faults + 1
  /\ at # "off" /\ at' = "off"
  /\ path' = None /\ request' = None /\ folder' = FALSE
  /\ UNCHANGED <<case, status, saved, note, under, files, extracted, untold>>

\* Faulty: a transaction that is accepted waits for the upload.
DeducedUpload == IF status = "ghost_uploaded" THEN "decision" ELSE "upload"

\* The state that is deduced from the status.
Deduced ==
  CASE status = "initialized" -> "upload"
    [] status = "ghost_uploaded" -> "decision"
    [] OTHER -> "accept"

\* _run_from_snapshot, which does not know every state.
Restart ==
  /\ at = "off" /\ (saved # "none" \/ status \notin Final)
  /\ Enter(IF saved \in {"accept", "end", "fail", "finish"} THEN saved ELSE Deduced)
  /\ UNCHANGED <<case, status, note, under, path, folder, files, request,
                 extracted, untold, faults>>

Init ==
  /\ case \in [archive : BOOLEAN, mobile : BOOLEAN, taken : BOOLEAN]
  /\ status = "initialized" /\ at = "upload" /\ saved = "upload"
  /\ note = None /\ under = FALSE /\ path = None /\ folder = FALSE /\ request = None
  /\ files = [n \in 1..Names |-> IF n = 1 /\ Taken THEN Other ELSE Absent]
  /\ extracted = FALSE /\ untold = FALSE /\ faults = 0

Step ==
  \/ Uploaded \/ Accept \/ Tell \/ Locate \/ Request \/ Read \/ Downloaded
  \/ Finish \/ Remove \/ Update \/ Answered \/ Finalized \/ End

Next == Upload \/ Step \/ Broken \/ Refused \/ Crash \/ Restart

Spec == Init /\ [][Next]_vars /\ WF_vars(Step) /\ WF_vars(Restart)

-----------------------------------------------------------------------------
\* When the transaction is finished the user has the whole object, or what
\* the archive held, wherever the download was interrupted and resumed; what
\* was extracted was a whole archive.
Delivered ==
  /\ status = "finished" =>
       IF Archive THEN extracted ELSE \E n \in 1..Names : files[n] = Whole
  /\ at = "finish" /\ path # None => files[path] = Whole

\* A file that the user had is never changed, removed or extended.
Untouched == Taken => files[1] = Other

\* The files of the user are right, those that came and those he had.
RightFiles == TypeOK /\ Delivered /\ Untouched

\* An accepted download ends on the server, whatever is interrupted, unless the
\* client died while it ended an archive or the server refused its last word.
Ends == status = "accepted" ~> status \in Final \/ (untold /\ at = "over")

=============================================================================
