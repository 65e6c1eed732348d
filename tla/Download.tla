------------------------------ MODULE Download ------------------------------
(***************************************************************************)
(* The download of one binary target: downloadImage with its three tries,   *)
(* Fetcher::fetchVerifyTarget with resumption of a partial file and the     *)
(* pause loop, the curl callback, the hasher, the SQL write handle and its  *)
(* destructor, and the user's Pause and Resume from another thread.  A      *)
(* target is Length chunks; a chunk is Right or not, and the hash of the    *)
(* target is matched by Length right chunks and nothing else.  A response   *)
(* may stop short, fail, or bring more than was asked for, and the process  *)
(* may die: SQLite then drops what the open blob had not committed.         *)
(***************************************************************************)
EXTENDS Integers, Sequences

CONSTANTS Length,      \* chunks of the target, target.length()
          MaxWrong,    \* bound: chunks that differ from the target
          MaxFaults,   \* bound: responses that fail or stop short
          MaxCrashes,  \* bound: deaths of the process
          MaxPauses    \* bound: calls of Pause that take effect

ASSUME DownloadAssumption ==
  /\ Length \in Nat \ {0}
  /\ MaxWrong \in Nat /\ MaxFaults \in Nat /\ MaxCrashes \in Nat /\ MaxPauses \in Nat

Right == 0
Wrong == 1

VARIABLES row,         \* is the target in target_images?
          file,        \* its first real_size chunks
          handle,      \* the write handle: none, new, or opened on a partial file
          fed,         \* chunks given to it by wfeed, not committed yet
          hasher,      \* chunks the hasher has seen
          downloaded,  \* ds.downloaded_length
          pause_, retry_, downloading_,
          tries,       \* tries left in downloadImage
          pc,
          wrongs, faults, crashes, pauses

ds == <<handle, fed, hasher, downloaded>>
budget == <<wrongs, faults, crashes, pauses>>
vars == <<row, file, handle, fed, hasher, downloaded, pause_, retry_, downloading_, tries, pc,
          wrongs, faults, crashes, pauses>>

real_size == Len(file)

\* The bookkeeping of fetchVerifyTarget keeps its form: downloading_ counts the
\* running download, and only a download cut off by a pause is to be retried.
TypeOK ==
  /\ row \in {"absent", "present"} /\ file \in Seq(Nat)
  /\ handle \in {"none", "new", "partial"} /\ fed \in Seq(Nat)
  /\ hasher \in Seq(Nat) /\ downloaded \in Nat
  /\ pause_ \in {"no", "yes"} /\ retry_ \in {"no", "yes"} /\ downloading_ \in {0, 1}
  /\ tries \in 0..3
  /\ pc \in {"idle", "try", "wait", "get", "failed", "done"}
  /\ wrongs \in 0..MaxWrong /\ faults \in 0..MaxFaults
  /\ crashes \in 0..MaxCrashes /\ pauses \in 0..MaxPauses
  /\ row = "absent" => file = <<>>
  /\ handle = "none" => fed = <<>>
  /\ downloading_ = 1 <=> pc \in {"wait", "get", "failed"}
  /\ retry_ = "yes" => pc = "wait"

Init ==
  /\ row = "absent" /\ file = <<>>
  /\ handle = "none" /\ fed = <<>> /\ hasher = <<>> /\ downloaded = 0
  /\ pause_ = "no" /\ retry_ = "no" /\ downloading_ = 0
  /\ tries = 0 /\ pc = "idle"
  /\ wrongs = 0 /\ faults = 0 /\ crashes = 0 /\ pauses = 0

-----------------------------------------------------------------------------
(* The write handle. *)

\* The bytes fed so far become part of the file.
wcommit == file' = file \o fed

\* Only a handle that inserted the row itself removes it: on one opened on a
\* partial file sqlite3_changes is zero.
wabort ==
  /\ row' = IF handle = "new" THEN "absent" ELSE row
  /\ file' = IF handle = "new" THEN <<>> ELSE file

\* The handle on a file that is there already goes on behind real_size.
toWriteHandle == "partial"

\* The read handle gives the chunks up to real_size.
rread == SubSeq(file, 1, real_size)

-----------------------------------------------------------------------------
(* downloadImage and fetchVerifyTarget. *)

downloadImage ==
  /\ pc \in {"idle", "done"}
  /\ pc' = "try" /\ tries' = 3
  /\ UNCHANGED <<row, file, ds, pause_, retry_, downloading_, budget>>

\* "Image already downloaded skipping download": the size decides.
AlreadyDownloaded ==
  /\ pc = "try" /\ row = "present" /\ real_size = Length
  /\ pc' = "done"
  /\ UNCHANGED <<row, file, ds, pause_, retry_, downloading_, tries, budget>>

\* A partial file is read back into the hasher before the download goes on.
OpenTargetCold ==
  /\ pc = "try" /\ ~(row = "present" /\ real_size = Length)
  /\ row' = "present"
  /\ handle' = IF row = "present" THEN toWriteHandle ELSE "new"
  /\ hasher' = <<>> /\ downloaded' = Len(file) /\ fed' = <<>>
  /\ downloading_' = 1 /\ pc' = "wait"
  /\ UNCHANGED <<file, pause_, retry_, tries, budget>>
OpenTarget ==
  /\ pc = "try" /\ ~(row = "present" /\ real_size = Length)
  /\ row' = "present"
  /\ handle' = IF row = "present" THEN toWriteHandle ELSE "new"
  /\ hasher' = rread /\ downloaded' = Len(file) /\ fed' = <<>>
  /\ downloading_' = 1 /\ pc' = "wait"
  /\ UNCHANGED <<file, pause_, retry_, tries, budget>>

\* checkPause blocks while paused; after a pause the file is opened again.
checkPause ==
  /\ pc = "wait" /\ pause_ = "no"
  /\ handle' = IF retry_ = "yes" THEN toWriteHandle ELSE handle
  /\ retry_' = "no" /\ pc' = "get"
  /\ UNCHANGED <<row, file, fed, hasher, downloaded, pause_, downloading_, tries, budget>>

\* DownloadHandler: the next chunk of the response.
DownloadHandlerPaused(c) ==
  /\ pc = "get" /\ downloaded < Length
  /\ hasher' = Append(hasher, c) /\ downloaded' = downloaded + 1
  /\ IF pause_ = "yes"
     THEN retry_' = "yes" /\ file' = file /\ fed' = <<>> /\ handle' = "none" /\ pc' = "wait"
     ELSE fed' = Append(fed, c) /\ UNCHANGED <<retry_, file, handle, pc>>
  /\ UNCHANGED <<row, pause_, downloading_, tries>>
DownloadHandler(c) ==
  /\ pc = "get" /\ downloaded < Length
  /\ hasher' = Append(hasher, c) /\ downloaded' = downloaded + 1
  /\ IF pause_ = "yes"
     THEN /\ retry_' = "yes"
          /\ file' = file \o Append(fed, c) /\ fed' = <<>> /\ handle' = "none"
          /\ pc' = "wait"
     ELSE fed' = Append(fed, c) /\ UNCHANGED <<retry_, file, handle, pc>>
  /\ UNCHANGED <<row, pause_, downloading_, tries>>

Receive ==
  \/ DownloadHandler(Right) /\ UNCHANGED budget
  \/ /\ wrongs < MaxWrong /\ wrongs' = wrongs + 1
     /\ DownloadHandler(Wrong) /\ UNCHANGED <<faults, crashes, pauses>>

\* The response fails: the connection breaks, its status is an error, or it
\* holds more than the target and the callback refuses it.  The range request
\* for a file that was complete when the download was paused is refused too.
ResponseFails ==
  /\ pc = "get"
  /\ IF downloaded = Length /\ fed = <<>> THEN UNCHANGED budget
     ELSE faults < MaxFaults /\ faults' = faults + 1 /\ UNCHANGED <<wrongs, crashes, pauses>>
  /\ pc' = "failed"
  /\ UNCHANGED <<row, file, ds, pause_, retry_, downloading_, tries>>

hashMatches == hasher = [i \in 1..Length |-> Right]

\* The response ends well, with all of the target or, by a fault, short of it.
ResponseEnds ==
  /\ pc = "get"
  /\ IF downloaded = Length THEN UNCHANGED budget
     ELSE faults < MaxFaults /\ faults' = faults + 1 /\ UNCHANGED <<wrongs, crashes, pauses>>
  /\ IF hashMatches
     THEN wcommit /\ row' = row /\ pc' = "done" /\ tries' = tries
     ELSE wabort /\ tries' = tries - 1 /\ pc' = IF tries = 1 THEN "idle" ELSE "try"
  /\ handle' = "none" /\ fed' = <<>> /\ downloading_' = 0
  /\ UNCHANGED <<hasher, downloaded, pause_, retry_>>

\* The exception unwinds fetchVerifyTarget: the destructor of the write handle
\* commits what was fed, and downloadImage tries again.
Unwind ==
  /\ pc = "failed"
  /\ wcommit
  /\ handle' = "none" /\ fed' = <<>> /\ downloading_' = 0
  /\ tries' = tries - 1 /\ pc' = IF tries = 1 THEN "idle" ELSE "try"
  /\ UNCHANGED <<row, hasher, downloaded, pause_, retry_, budget>>

-----------------------------------------------------------------------------
(* Pause and Resume, and the death of the process. *)

Pause ==
  /\ pause_ = "no" /\ downloading_ = 1
  /\ pauses < MaxPauses /\ pauses' = pauses + 1
  /\ pause_' = "yes"
  /\ UNCHANGED <<row, file, ds, retry_, downloading_, tries, pc, wrongs, faults, crashes>>

Resume ==
  /\ pause_ = "yes" /\ pause_' = "no"
  /\ UNCHANGED <<row, file, ds, retry_, downloading_, tries, pc, budget>>

Crash ==
  /\ crashes < MaxCrashes /\ crashes' = crashes + 1
  /\ handle' = "none" /\ fed' = <<>> /\ hasher' = <<>> /\ downloaded' = 0
  /\ pause_' = "no" /\ retry_' = "no" /\ downloading_' = 0
  /\ tries' = 0 /\ pc' = "idle"
  /\ UNCHANGED <<row, file, wrongs, faults, pauses>>

-----------------------------------------------------------------------------

Downloader ==
  \/ downloadImage \/ AlreadyDownloaded \/ OpenTarget \/ checkPause
  \/ Receive \/ ResponseFails \/ ResponseEnds \/ Unwind

Next == Downloader \/ Pause \/ Resume \/ Crash

Spec == Init /\ [][Next]_vars

\* The download goes on unless it is paused, and whoever pauses it resumes it.
FairSpec == Spec /\ WF_vars(Downloader) /\ WF_vars(Resume)

-----------------------------------------------------------------------------
(* Properties. *)

\* What the hash check will judge is what the file will hold: through
\* resumption, pauses, failed responses and restarts, the hasher has seen
\* exactly the committed chunks followed by those in the open handle, and the
\* next range request starts right after them.
HasherTracksFile ==
  pc \in {"wait", "get", "failed"} => hasher = file \o fed /\ downloaded = Len(hasher)

\* Nothing is stored beyond the length the metadata gives.
FileWithinLength == Len(file) + Len(fed) <= Length

\* As long as the server sends the right data the target is downloaded in the
\* end, however often the response fails, the process dies or the user pauses.
EventuallyDownloaded == [](wrongs = 0) => []<>(pc = "done")
=============================================================================
