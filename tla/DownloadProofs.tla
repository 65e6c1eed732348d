--------------------------- MODULE DownloadProofs ---------------------------
(***************************************************************************)
(* Proofs about Download, for every length of the target and any number of  *)
(* wrong chunks, failed responses, deaths of the process and pauses.        *)
(***************************************************************************)
EXTENDS Download, SequenceTheorems, TLAPS

Busy == {"wait", "get", "failed"}

\* Outside fetchVerifyTarget no handle holds chunks; inside it the row exists
\* and a try is being spent, and unless it was paused a handle is open.
Phases ==
  /\ pc \in {"idle", "try", "done", "wait"} => fed = <<>>
  /\ pc \in Busy => row = "present"
  /\ pc \in Busy \cup {"try"} => tries \in 1..3
  /\ pc = "get" \/ (pc = "wait" /\ retry_ = "no") => handle # "none"

IInv == TypeOK /\ Phases /\ HasherTracksFile /\ FileWithinLength

\* What the leaves below use of sequences.
LEMMA SeqFacts ==
  /\ <<>> \in Seq(Nat) /\ Len(<<>>) = 0
  /\ \A s \in Seq(Nat) : s \o <<>> = s /\ Len(s) \in Nat
  /\ \A s, t \in Seq(Nat) : s \o t \in Seq(Nat) /\ Len(s \o t) = Len(s) + Len(t)
  /\ \A s \in Seq(Nat), c \in Nat : Append(s, c) \in Seq(Nat) /\ Len(Append(s, c)) = Len(s) + 1
<1>1. <<>> \in Seq(Nat) /\ Len(<<>>) = 0
  OBVIOUS
<1>2. \A s \in Seq(Nat) : s \o <<>> = s /\ Len(s) \in Nat
  BY ConcatEmptySeq
<1>3. \A s, t \in Seq(Nat) : s \o t \in Seq(Nat) /\ Len(s \o t) = Len(s) + Len(t)
  OBVIOUS
<1>4. \A s \in Seq(Nat), c \in Nat : Append(s, c) \in Seq(Nat) /\ Len(Append(s, c)) = Len(s) + 1
  OBVIOUS
<1> QED  BY <1>1, <1>2, <1>3, <1>4

\* A chunk appended to the open handle is appended to file and handle together.
LEMMA AppendConcat ==
  ASSUME NEW s \in Seq(Nat), NEW t \in Seq(Nat), NEW c \in Nat
  PROVE  s \o Append(t, c) = Append(s \o t, c)
OBVIOUS

\* No file, no handle, nothing hashed.
LEMMA InitInv == Init => IInv
<1> SUFFICES ASSUME Init PROVE IInv
  OBVIOUS
<1>1. TypeOK
  BY DownloadAssumption DEF Init, TypeOK
<1>2. Phases /\ HasherTracksFile
  BY DEF Init, Phases, HasherTracksFile, Busy
<1>3. FileWithinLength
  BY SeqFacts, DownloadAssumption DEF Init, FileWithinLength
<1> QED  BY <1>1, <1>2, <1>3 DEF IInv

\* The curl callback: the chunk reaches the hasher and the file, or neither.
LEMMA ReceiveInv ==
  ASSUME IInv, NEW c \in Nat, DownloadHandler(c),
         wrongs' \in 0..MaxWrong, faults' = faults, crashes' = crashes, pauses' = pauses
  PROVE  IInv'
<1> DEFINE Fed == Append(fed, c)
<1>0. file \in Seq(Nat) /\ fed \in Seq(Nat) /\ hasher \in Seq(Nat) /\ downloaded \in Nat
  BY DEF IInv, TypeOK
<1>1. /\ pc = "get" /\ downloaded < Length /\ row = "present" /\ row' = row
      /\ hasher = file \o fed /\ downloaded = Len(hasher)
      /\ hasher' = Append(hasher, c) /\ downloaded' = downloaded + 1
  BY DEF IInv, Phases, HasherTracksFile, DownloadHandler, Busy
<1>2. Fed \in Seq(Nat) /\ file \o Fed = hasher' /\ hasher' \in Seq(Nat)
  <2>1. Fed \in Seq(Nat) /\ Append(hasher, c) \in Seq(Nat)
    BY <1>0, SeqFacts
  <2>2. file \o Fed = Append(file \o fed, c)
    BY <1>0, AppendConcat
  <2> HIDE DEF Fed
  <2> QED  BY <1>1, <2>1, <2>2, Zenon
<1>3. Len(hasher') = downloaded' /\ downloaded' \in Nat /\ downloaded' <= Length
  BY <1>0, <1>1, SeqFacts, DownloadAssumption
<1>4. Len(file \o Fed) = Len(file) + Len(Fed)
  BY <1>0, <1>2, SeqFacts
<1> HIDE DEF Fed
<1>5. CASE pause_ = "yes"
  <2>1. /\ retry_' = "yes" /\ file' = file \o Fed /\ fed' = <<>> /\ handle' = "none"
        /\ pc' = "wait"
    BY <1>5 DEF DownloadHandler, Fed
  <2>2. file' \in Seq(Nat) /\ fed' \in Seq(Nat) /\ file' = hasher'
    BY <1>2, <2>1, SeqFacts, Zenon
  <2>3. hasher' = file' \o fed' /\ Len(file') + Len(fed') <= Length
    BY <1>2, <1>3, <2>1, <2>2, SeqFacts, DownloadAssumption
  <2>4. TypeOK'
    BY <1>1, <1>2, <1>3, <2>1, <2>2 DEF IInv, TypeOK, DownloadHandler
  <2> QED  BY <1>1, <1>3, <2>1, <2>3, <2>4 DEF IInv, Phases, HasherTracksFile, FileWithinLength,
           DownloadHandler, Busy
<1>6. CASE pause_ # "yes"
  <2>1. fed' = Fed /\ UNCHANGED <<retry_, file, handle, pc>>
    BY <1>6 DEF DownloadHandler, Fed
  <2>2. hasher' = file' \o fed' /\ Len(file') + Len(fed') <= Length
    BY <1>2, <1>3, <1>4, <2>1
  <2>3. handle # "none"
    BY <1>1 DEF IInv, Phases
  <2>4. TypeOK'
    BY <1>0, <1>1, <1>2, <1>3, <2>1, <2>3 DEF IInv, TypeOK, DownloadHandler
  <2> QED  BY <1>1, <1>3, <2>1, <2>2, <2>4 DEF IInv, Phases, HasherTracksFile, FileWithinLength,
           DownloadHandler, Busy
<1> QED  BY <1>5, <1>6

\* One case per action of the download, of Pause and Resume, and of the crash.
LEMMA StepInv == IInv /\ [Next]_vars => IInv'
<1> SUFFICES ASSUME IInv, [Next]_vars PROVE IInv'
  OBVIOUS
<1> USE DEF ds, budget
<1>0. /\ file \in Seq(Nat) /\ fed \in Seq(Nat) /\ hasher \in Seq(Nat) /\ downloaded \in Nat
      /\ Len(file) \in Nat /\ Len(fed) \in Nat /\ Len(file) + Len(fed) <= Length
  BY SeqFacts DEF IInv, TypeOK, FileWithinLength
<1>1. CASE downloadImage \/ AlreadyDownloaded
  <2>1. /\ UNCHANGED <<row, file, ds, pause_, retry_, downloading_, budget>>
        /\ pc \in {"idle", "done", "try"} /\ pc' \in {"try", "done"}
        /\ tries' = 3 \/ (tries' = tries /\ pc' = "done")
    BY <1>1 DEF downloadImage, AlreadyDownloaded
  <2>2. retry_ \in {"no", "yes"} /\ (retry_ = "yes" => pc = "wait") /\ tries \in 0..3
        /\ downloading_ \in {0, 1} /\ (downloading_ = 1 <=> pc \in {"wait", "get", "failed"})
    BY DEF IInv, TypeOK
  <2>3. retry_' = "no" /\ tries' \in 0..3 /\ downloading_' = 0
    BY <2>1, <2>2
  <2>4. TypeOK'
    BY <2>1, <2>3 DEF IInv, TypeOK
  <2> QED  BY <2>1, <2>4 DEF IInv, Phases, HasherTracksFile, FileWithinLength, Busy
<1>2. CASE OpenTarget
  <2>0. rread = file
    BY <1>0 DEF rread, real_size
  <2>1. row' = "present" /\ file' = file /\ hasher' = file /\ downloaded' = Len(file) /\ fed' = <<>>
    BY <1>2, <2>0 DEF OpenTarget
  <2>2. fed' \in Seq(Nat) /\ hasher' = file' \o fed' /\ Len(fed') = 0
    BY <1>0, <2>1, SeqFacts, Zenon
  <2>3. TypeOK'
    BY <1>0, <1>2, <2>1, <2>2 DEF OpenTarget, toWriteHandle, IInv, TypeOK
  <2>4. Len(file') + Len(fed') <= Length
    BY <1>0, <2>1, <2>2, DownloadAssumption
  <2> QED  BY <1>2, <2>1, <2>2, <2>3, <2>4
           DEF OpenTarget, toWriteHandle, IInv, Phases, HasherTracksFile, FileWithinLength, Busy
<1>3. CASE checkPause
  BY <1>3 DEF checkPause, toWriteHandle, IInv, TypeOK, Phases, HasherTracksFile, FileWithinLength, Busy
<1>4. CASE Receive
  <2>1. CASE DownloadHandler(Right) /\ UNCHANGED budget
    BY <2>1, ReceiveInv DEF Right, IInv, TypeOK
  <2>2. CASE /\ wrongs < MaxWrong /\ wrongs' = wrongs + 1
             /\ DownloadHandler(Wrong) /\ UNCHANGED <<faults, crashes, pauses>>
    <3>1. wrongs' \in 0..MaxWrong
      BY <2>2, DownloadAssumption DEF IInv, TypeOK
    <3> QED  BY <2>2, <3>1, ReceiveInv DEF Wrong
  <2> QED  BY <1>4, <2>1, <2>2 DEF Receive
<1>5. CASE ResponseFails
  <2>1. faults' \in 0..MaxFaults /\ wrongs' = wrongs /\ crashes' = crashes /\ pauses' = pauses
    BY <1>5, DownloadAssumption DEF ResponseFails, IInv, TypeOK
  <2> QED  BY <1>5, <2>1
           DEF ResponseFails, IInv, TypeOK, Phases, HasherTracksFile, FileWithinLength, Busy
<1>6. CASE ResponseEnds \/ Unwind
  <2>1. /\ handle' = "none" /\ fed' = <<>> /\ downloading_' = 0 /\ hasher' = hasher
        /\ downloaded' = downloaded /\ pause_' = pause_ /\ retry_' = retry_
        /\ pc \in {"get", "failed"} /\ row = "present"
    BY <1>6 DEF ResponseEnds, Unwind, IInv, Phases, Busy
  <2>2. /\ pc' \in {"done", "idle", "try"} /\ tries' \in 0..3
        /\ pc' = "try" => tries' \in 1..3
    BY <1>6, <2>1 DEF ResponseEnds, Unwind, IInv, TypeOK, Phases, Busy
  <2>3. faults' \in 0..MaxFaults /\ wrongs' = wrongs /\ crashes' = crashes /\ pauses' = pauses
    BY <1>6, DownloadAssumption DEF ResponseEnds, Unwind, IInv, TypeOK
  <2>4. \/ file' = file \o fed /\ row' = row
        \/ file' = <<>> /\ row' = "absent"
        \/ file' = file /\ row' = row
    BY <1>6 DEF ResponseEnds, Unwind, wcommit, wabort
  <2>5. file' \in Seq(Nat) /\ fed' \in Seq(Nat) /\ Len(fed') = 0
    BY <1>0, <2>1, <2>4, SeqFacts, Zenon
  <2>6. Len(file') + Len(fed') <= Length
    <3>1. CASE file' = file \o fed
      BY <1>0, <2>5, <3>1, SeqFacts, DownloadAssumption
    <3>2. CASE file' = <<>>
      <4>1. Len(file') = 0
        BY <3>2, SeqFacts, Zenon
      <4> QED  BY <2>5, <4>1, DownloadAssumption
    <3>3. CASE file' = file
      BY <1>0, <2>5, <3>3, DownloadAssumption
    <3> QED  BY <2>4, <3>1, <3>2, <3>3
  <2>7. row' \in {"absent", "present"} /\ (row' = "absent" => file' = <<>>)
    BY <2>1, <2>4
  <2>8. TypeOK'
    <3>0. retry_ \in {"no", "yes"} /\ pause_ \in {"no", "yes"} /\ (retry_ = "yes" => pc = "wait")
      BY DEF IInv, TypeOK
    <3>1. retry_ = "no" /\ pause_ \in {"no", "yes"}
      BY <2>1, <3>0
    <3> QED  BY <1>0, <2>1, <2>2, <2>3, <2>5, <2>7, <3>1 DEF IInv, TypeOK
  <2> QED  BY <2>1, <2>2, <2>6, <2>8
           DEF IInv, Phases, HasherTracksFile, FileWithinLength, Busy
<1>7. CASE Pause \/ Resume
  <2>1. /\ UNCHANGED <<row, file, ds, retry_, downloading_, tries, pc, wrongs, faults, crashes>>
        /\ pause_' \in {"no", "yes"}
    BY <1>7 DEF Pause, Resume
  <2>2. pauses' \in 0..MaxPauses
    BY <1>7, DownloadAssumption DEF Pause, Resume, IInv, TypeOK
  <2>3. TypeOK'
    BY <2>1, <2>2 DEF IInv, TypeOK
  <2> QED  BY <2>1, <2>3 DEF IInv, Phases, HasherTracksFile, FileWithinLength, Busy
<1>8. CASE Crash
  <2>1. fed' \in Seq(Nat) /\ hasher' \in Seq(Nat) /\ Len(fed') = 0
    BY <1>8, SeqFacts, Zenon DEF Crash
  <2>2. crashes' \in 0..MaxCrashes
    BY <1>8, DownloadAssumption DEF Crash, IInv, TypeOK
  <2>3. TypeOK'
    BY <1>8, <2>1, <2>2 DEF Crash, IInv, TypeOK
  <2>4. Len(file') + Len(fed') <= Length
    BY <1>0, <1>8, <2>1, DownloadAssumption DEF Crash
  <2> QED  BY <1>8, <2>3, <2>4 DEF Crash, IInv, Phases, HasherTracksFile, FileWithinLength, Busy
<1>9. CASE UNCHANGED vars
  BY <1>9 DEF vars, IInv, TypeOK, Phases, HasherTracksFile, FileWithinLength, Busy
<1> QED
  BY <1>1, <1>2, <1>3, <1>4, <1>5, <1>6, <1>7, <1>8, <1>9 DEF Next, Downloader

\* The inductive invariant: the file, the open handle, the hasher and the offset
\* of the next range request of fetchVerifyTarget stay in step.
THEOREM Invariance == Spec => []IInv
BY InitInv, StepInv, PTL DEF Spec

\* The download bookkeeping keeps its form: the count of running downloads
\* agrees with the place of the download loop, and only a paused download is
\* marked for a retry.
THEOREM TypeCorrect == Spec => []TypeOK
<1>1. IInv => TypeOK
  BY DEF IInv
<1> QED  BY <1>1, Invariance, PTL

\* The hash check judges exactly what the file will hold, through resumption,
\* pauses, failed responses and restarts, for every length.
THEOREM HasherSound == Spec => []HasherTracksFile
<1>1. IInv => HasherTracksFile
  BY DEF IInv
<1> QED  BY <1>1, Invariance, PTL

\* The stored file never outgrows the length the metadata gives.
THEOREM LengthRespected == Spec => []FileWithinLength
<1>1. IInv => FileWithinLength
  BY DEF IInv
<1> QED  BY <1>1, Invariance, PTL
=============================================================================
