---------------------------- MODULE Application -----------------------------
(***************************************************************************)
(* The programs that use the API: aktualizr in its run modes               *)
(* (aktualizr_primary/main.cc), hmi_stub, whose user types commands, and a *)
(* program that calls the API from threads of its own while RunForever     *)
(* runs.  The tasks are modelled by what a caller sees of them: their      *)
(* results, their events, and a download that pauses.  An exception that   *)
(* leaves a task ends the process.                                         *)
(***************************************************************************)
EXTENDS ApiQueue, Campaign

CONSTANTS Commands,   \* sequence: the names of the calls that main makes
          Users,      \* the other threads of a program, each with one call at a time
          Targets,    \* what the Director can assign
          Answers,    \* the campaigns that the server can send
          OstreeModes, \* bound: the modes in which the images may be OSTree commits
          MaxFaults   \* bound: failing requests and exceptions

RunForever == "RunForever"
ASSUME ApplicationAssumption ==
  /\ Calls = Range(Commands) \cup Users \cup {RunForever} /\ Stop \notin Calls /\ MaxFaults \in Nat
  /\ Commands \in Seq(Calls \ (Users \cup {RunForever})) /\ Len(Commands) >= 2   \* Script has at most two
  /\ \A i, j \in DOMAIN Commands : Commands[i] = Commands[j] => i = j

VARIABLES mode,          \* the run mode of aktualizr, "hmi_stub" or "library"
          main, made, r, \* the main thread, the calls it has made, its return value
          rf,            \* the thread of RunForever, or the main thread in UptaneCycle
          op, value,     \* what each call is about, and its result
          events,        \* history: the completion events of main's calls
          updates, pause_result, progress,  \* variables of hmi_stub
          pause_, work,  \* the fetcher: pause_, and the download that the API thread is busy with
          ostree,        \* the images are OSTree commits
          stored, installed,                \* images
          campaigns,     \* the answer to CampaignCheck and the list it became
          faults

hmi == <<updates, pause_result, progress>>
client == <<pause_, work, ostree, stored, installed, campaigns>>
thread == <<main, made, r>>
vars == <<queue, mode, thread, rf, op, value, events, hmi, client, faults>>

Idle == [phase |-> "idle", left |-> {}, done |-> {}, got |-> 0, tries |-> 3]
Busy == work.phase \in {"request", "transfer"}   \* downloading_ > 0

Script ==
  [campaign_check |-> <<"campaigncheck">>, campaign_accept |-> <<"campaignaccept">>, check |-> <<"senddevicedata", "check">>,
   download |-> <<"check", "download">>, install |-> <<"check", "install">>]

Init ==
  /\ QueueInit
  /\ mode \in DOMAIN Script \cup {"full", "once", "hmi_stub", "library"}
  /\ main = IF mode \in {"full", "once", "library"} THEN mode ELSE "read"
  /\ rf = CASE mode \in {"full", "library"} -> "send" [] mode = "once" -> "check" [] OTHER -> "end"
  /\ made = 0 /\ r = -1 /\ op = [c \in Calls |-> [op |-> "none", targets |-> {}]] /\ value = [c \in Calls |-> {}]
  /\ events = <<>> /\ updates = {} /\ pause_result = "kNotDownloading" /\ progress = [t \in Targets |-> 0]
  /\ ostree \in BOOLEAN /\ (ostree => mode \in OstreeModes) /\ pause_ = FALSE /\ work = Idle /\ stored \in (IF mode = "install" THEN SUBSET Targets ELSE {{}}) /\ installed = {}
  /\ campaigns = [json |-> <<>>, list |-> <<>>] /\ faults = 0

Fault == faults < MaxFaults /\ faults' = faults + 1
Run(name) == api = "run" /\ op[task].op = name
-----------------------------------------------------------------------------
(* Tasks. *)

\* The event that announces the end of an operation.
EventOf ==
  [senddevicedata |-> "SendDeviceDataComplete", check |-> "UpdateCheckComplete", download |-> "AllDownloadsComplete",
   install |-> "AllInstallsComplete", campaigncheck |-> "CampaignCheckComplete", campaignaccept |-> "CampaignAcceptComplete"]
\* The event is sent, then the promise gets the result.
Complete(result) ==
  /\ Answer /\ value' = [value EXCEPT ![task] = result]
  /\ events' = IF task \in Range(Commands) THEN Append(events, EventOf[op[task].op]) ELSE events

\* sendDeviceData and campaignAccept.
sendDeviceData ==
  /\ Run("senddevicedata") \/ Run("campaignaccept")
  /\ Complete({}) /\ UNCHANGED <<mode, thread, rf, op, hmi, client, faults>>

\* fetchMeta: all that is assigned and not installed, or nothing.  An error
\* is a result without updates, except that a root that cannot be read throws.
fetchMeta ==
  /\ Run("check")
  /\ \/ \E u \in {{}, Targets \ installed} : Complete(u) /\ UNCHANGED <<thread, faults>>
     \/ Fault /\ main' = "dead" /\ UNCHANGED <<queue, value, events, made, r>>
  /\ UNCHANGED <<mode, rf, op, hmi, client>>

\* hmi_stub looks at nothing of the answer: for it there is one.
campaignCheck ==
  /\ Run("campaigncheck") /\ Complete({})
  /\ \E json \in IF mode = "campaign_check" THEN Answers ELSE {<<>>} : campaigns' = [json |-> json, list |-> campaignsFromJson(json)]
  /\ UNCHANGED <<mode, thread, rf, op, hmi, pause_, work, ostree, stored, installed, faults>>

\* An image that was not downloaded cannot be installed.
uptaneInstall ==
  /\ Run("install") /\ Complete({}) /\ installed' = installed \cup (op[task].targets \cap stored)
  /\ UNCHANGED <<mode, thread, rf, op, hmi, pause_, work, ostree, stored, campaigns, faults>>

\* process_event of hmi_stub, on the API thread: a percentage is shown when
\* it is higher than the last one; the entry goes with the download.
\* Faulty variant: every percentage is shown.
ReportProgressAll(t, percent) == progress' = IF mode = "hmi_stub" THEN [progress EXCEPT ![t] = percent] ELSE progress
ReportProgress(t, percent) ==
  progress' = IF mode = "hmi_stub" /\ percent > progress[t] THEN [progress EXCEPT ![t] = percent] ELSE progress

\* downloadImages: nothing is fetched unless every target is in the images
\* metadata; the targets are fetched one after the other.
downloadImages ==
  /\ Run("download")
  /\ \/ work = Idle /\ op[task].targets # {} /\ work' = [Idle EXCEPT !.phase = "start", !.left = op[task].targets]
        /\ UNCHANGED <<queue, value, events, faults>>
     \/ work = Idle /\ Complete({}) /\ (IF op[task].targets = {} THEN UNCHANGED faults ELSE Fault) /\ UNCHANGED work
     \/ work.phase = "start" /\ work.left = {} /\ Complete(work.done) /\ work' = Idle /\ UNCHANGED faults
  /\ UNCHANGED <<mode, thread, rf, op, hmi, pause_, ostree, stored, installed, campaigns>>

\* DownloadTargetComplete.
TargetComplete(t, success) ==
  /\ work' = [work EXCEPT !.phase = "start", !.left = @ \ {t}, !.done = IF success THEN @ \cup {t} ELSE @, !.got = 0, !.tries = 3]
  /\ progress' = [progress EXCEPT ![t] = 0]
Current == CHOOSE t \in work.left : TRUE

\* A failed try is followed by another, three in all.
TryAgain(got) ==
  /\ Fault
  /\ IF work.tries > 1 THEN work' = [work EXCEPT !.phase = "start", !.tries = @ - 1, !.got = got] /\ UNCHANGED progress
     ELSE TargetComplete(Current, FALSE)

\* downloadImage and fetchVerifyTarget (Download has the details): a request
\* waits while paused, a chunk that finds pause_ set ends the request, and a
\* failed try leaves what was received or, after a wrong hash, nothing.
fetchVerifyTarget ==
  /\ work.left # {} /\ ~ostree
  /\ \/ /\ work.phase = "start" /\ UNCHANGED faults
        /\ IF Current \in stored \/ work.got = 100
           THEN TargetComplete(Current, TRUE) /\ stored' = stored \cup {Current}
           ELSE work' = [work EXCEPT !.phase = "request"] /\ UNCHANGED <<progress, stored>>
     \/ work.phase = "request" /\ ~pause_ /\ work' = [work EXCEPT !.phase = "transfer"] /\ UNCHANGED <<progress, stored, faults>>
     \/ /\ work.phase = "transfer" /\ work.got < 100 /\ UNCHANGED <<stored, faults>>
        /\ work' = [work EXCEPT !.got = @ + 50, !.phase = IF pause_ THEN "request" ELSE @]
        /\ ReportProgress(Current, work.got + 50)
     \/ /\ work.phase = "transfer" /\ work.got = 100 /\ stored' = stored \cup {Current}
        /\ TargetComplete(Current, TRUE) /\ UNCHANGED faults
     \/ work.phase = "transfer" /\ UNCHANGED stored /\ \E got \in {0, work.got} : TryAgain(got)
  /\ UNCHANGED <<queue, mode, thread, rf, op, value, events, updates, pause_result, pause_, ostree, installed, campaigns>>

\* A sysroot that cannot be loaded throws what downloadImage does not catch.
LoadSysroot == work.phase = "transfer" /\ work.got = 0 /\ Fault /\ main' = "dead"

\* pull of an OSTree commit: one that the repository has is not pulled again.
\* A failure to open the repository, to add the remote or to pull fails the
\* try.
pull ==
  /\ work.left # {} /\ ostree
  /\ \/ /\ work.phase = "start" /\ UNCHANGED <<main, faults>>
        /\ IF Current \in stored THEN TargetComplete(Current, TRUE) ELSE work' = [work EXCEPT !.phase = "transfer"] /\ UNCHANGED progress
        /\ UNCHANGED stored
     \/ LoadSysroot /\ UNCHANGED <<work, progress, stored>>
     \/ work.phase = "transfer" /\ TryAgain(0) /\ UNCHANGED <<main, stored>>
     \/ /\ work.phase = "transfer" /\ work.got = 100 /\ stored' = stored \cup {Current}
        /\ TargetComplete(Current, TRUE) /\ UNCHANGED <<main, faults>>
  /\ UNCHANGED <<queue, mode, made, r, rf, op, value, events, updates, pause_result, pause_, ostree, installed, campaigns>>

\* The progress callback of the pull, which sleeps in it while paused.  It
\* reports 0 for metadata, nothing for writes, and else the part of the
\* objects that has come.
aktualizr_progress_cb ==
  /\ work.left # {} /\ ostree /\ work.phase = "transfer" /\ work.got < 100 /\ ~pause_
  /\ work' = [work EXCEPT !.got = @ + 50]
  /\ \/ \E percent \in {0, work.got} : ReportProgress(Current, percent)
     \/ UNCHANGED progress
  /\ UNCHANGED <<queue, mode, thread, rf, op, value, events, updates, pause_result, pause_, ostree, stored, installed, campaigns, faults>>

Api ==
  \/ (dequeue \/ Woken \/ ApiLoop \/ ApiGot) /\ UNCHANGED <<mode, thread, rf, op, value, events, hmi, client, faults>>
  \/ sendDeviceData \/ fetchMeta \/ campaignCheck \/ uptaneInstall \/ downloadImages \/ fetchVerifyTarget \/ pull \/ aktualizr_progress_cb
-----------------------------------------------------------------------------
(* aktualizr. *)

\* A run mode makes its calls one after the other and waits for each.  The
\* targets of the second one are the updates that the first one found;
\* campaign_accept without an id throws.
\* Faulty variant: the last call is not waited for.
MainCallsOn ==
  /\ main = "read" /\ mode \in DOMAIN Script /\ made < Len(Script[mode])
  /\ Call(Commands[made + 1]) /\ made' = made + 1
  /\ main' = IF made + 1 = Len(Script[mode]) THEN "read" ELSE "get"
  /\ op' = [op EXCEPT ![Commands[made + 1]] = [op |-> Script[mode][made + 1], targets |-> IF made = 0 THEN {} ELSE value[Commands[made]]]]
  /\ UNCHANGED <<mode, r, rf, value, events, hmi, client, faults>>
MainCalls ==
  /\ main = "read" /\ mode \in DOMAIN Script /\ made < Len(Script[mode])
  /\ Call(Commands[made + 1]) /\ made' = made + 1 /\ main' = "get"
  /\ op' = [op EXCEPT ![Commands[made + 1]] = [op |-> Script[mode][made + 1], targets |-> IF made = 0 THEN {} ELSE value[Commands[made]]]]
  /\ UNCHANGED <<mode, r, rf, value, events, hmi, client, faults>>

NoCampaignId ==
  /\ main = "read" /\ mode = "campaign_accept" /\ made = 0 /\ main' = "leave"
  /\ UNCHANGED <<queue, mode, made, r, rf, op, value, events, hmi, client, faults>>

MainGets ==
  /\ main = "get" /\ Get(Commands[made]) /\ main' = "read"
  /\ updates' = value[Commands[made]]
  /\ UNCHANGED <<mode, made, r, rf, op, value, events, pause_result, progress, client, faults>>

MainEnds ==
  /\ \/ main = "read" /\ mode \in DOMAIN Script /\ made = Len(Script[mode]) /\ r' = 0
     \/ main \in {"full", "once"} /\ rf = "end" /\ r' = 0
     \/ main \in {"full", "once"} /\ rf = "threw" /\ r' = r
  /\ main' = "leave" /\ UNCHANGED <<queue, mode, made, rf, op, value, events, hmi, client, faults>>

\* The destructor of Aktualizr shuts down, if that was not done, and joins.
Leave ==
  /\ \/ main = "leave" /\ main' = "join" /\ IF shutdown_ THEN UNCHANGED queue ELSE Shutdown
     \/ main = "join" /\ stopping = "done" /\ api = "exit" /\ main' = "exit" /\ UNCHANGED queue
  /\ UNCHANGED <<mode, made, r, rf, op, value, events, hmi, client, faults>>

\* UptaneCycle waits for the check and the download, and installs on its own
\* thread; a broken promise and an exception of the installation end it.
RunForeverCalls ==
  /\ \/ rf = "send" /\ rf' = "sent" /\ op' = [op EXCEPT ![RunForever] = [op |-> "senddevicedata", targets |-> {}]]
     \/ rf = "check" /\ rf' = "checked" /\ op' = [op EXCEPT ![RunForever] = [op |-> "check", targets |-> {}]]
     \/ rf = "download" /\ rf' = "downloaded" /\ op' = [op EXCEPT ![RunForever] = [op |-> "download", targets |-> value[RunForever]]]
  /\ Call(RunForever) /\ UNCHANGED <<mode, thread, value, events, hmi, client, faults>>

CycleEnds == IF mode = "once" THEN "end" ELSE "sleep"
RunForeverGets ==
  /\ Get(RunForever)
  /\ rf' = IF future[RunForever] = "broken" THEN "threw"
           ELSE CASE rf = "sent" -> "loop"
                  [] rf = "checked" -> IF value[RunForever] = {} THEN CycleEnds ELSE "download"
                  [] rf = "downloaded" -> IF value[RunForever] # op[RunForever].targets THEN CycleEnds ELSE "install"
  /\ UNCHANGED <<mode, thread, op, value, events, hmi, client, faults>>

RunForeverSteps ==
  /\ \/ rf = "loop" /\ rf' = (IF shutdown_ THEN "end" ELSE "check") /\ UNCHANGED <<installed, faults>>
     \/ rf = "install" /\ rf' = CycleEnds /\ installed' = installed \cup value[RunForever] /\ UNCHANGED faults
     \/ rf = "install" /\ Fault /\ rf' = "threw" /\ UNCHANGED installed
     \/ rf = "sleep" /\ rf' = "loop" /\ UNCHANGED <<installed, faults>>
  /\ UNCHANGED <<queue, mode, thread, op, value, events, hmi, pause_, work, ostree, stored, campaigns>>
-----------------------------------------------------------------------------
(* hmi_stub. *)

\* Fetcher::setPause.
setPause(pause) ==
  IF pause_ = pause THEN pause_result' = (IF pause THEN "kAlreadyPaused" ELSE "kNotPaused") /\ UNCHANGED pause_
  ELSE IF pause /\ ~Busy THEN pause_result' = "kNotDownloading" /\ UNCHANGED pause_
  ELSE pause_' = pause /\ pause_result' = IF pause THEN "kPaused" ELSE "kResumed"

HmiPauses ==
  /\ main = "read" /\ mode = "hmi_stub" /\ \E pause \in BOOLEAN : setPause(pause)
  /\ UNCHANGED <<queue, mode, thread, rf, op, value, events, updates, progress, work, ostree, stored, installed, campaigns, faults>>

\* Only a check is waited for, and not after a pause: its task is behind the
\* paused download, and nobody could type resume.
\* Faulty variant: a second pause is forgotten.
WaitsUnlessPaused == pause_result # "kPaused"
Waits == pause_result \notin {"kPaused", "kAlreadyPaused"}

HmiCalls(command) ==
  /\ main = "read" /\ mode = "hmi_stub" /\ made < Len(Commands)
  /\ Call(Commands[made + 1]) /\ made' = made + 1
  /\ op' = [op EXCEPT ![Commands[made + 1]] = [op |-> command, targets |-> IF command \in {"download", "install"} THEN updates ELSE {}]]
  /\ main' = IF command = "check" /\ Waits THEN "get" ELSE "read"
  /\ updates' = IF command = "install" THEN {} ELSE updates
  /\ UNCHANGED <<mode, r, rf, value, events, pause_result, progress, client, faults>>

\* "shutdown", or the end of the input.
HmiEnds ==
  /\ main = "read" /\ mode = "hmi_stub" /\ main' = "leave" /\ r' = 0
  /\ Shutdown \/ UNCHANGED queue
  /\ UNCHANGED <<mode, made, rf, op, value, events, hmi, client, faults>>
-----------------------------------------------------------------------------
(* Another program: threads that call and wait, and one that shuts down.   *)
UserCalls(u) ==
  /\ mode = "library"
  /\ \/ Call(u) /\ op' = [op EXCEPT ![u] = [op |-> "senddevicedata", targets |-> {}]]
     \/ Get(u) /\ UNCHANGED op
  /\ UNCHANGED <<mode, thread, rf, value, events, hmi, client, faults>>

UserShutsDown == mode = "library" /\ Shutdown /\ UNCHANGED <<mode, thread, rf, op, value, events, hmi, client, faults>>

FinishShutdown == shutDown /\ UNCHANGED <<mode, thread, rf, op, value, events, hmi, client, faults>>
Wakeup == SpuriousWakeup /\ UNCHANGED <<mode, thread, rf, op, value, events, hmi, client, faults>>
-----------------------------------------------------------------------------
Alive == main \notin {"dead", "exit"}
ApiThread == Alive /\ Api
MainThread == Alive /\ (MainCalls \/ MainGets \/ MainEnds \/ Leave \/ RunForeverCalls \/ RunForeverGets \/ RunForeverSteps)
Typed == Alive /\ (NoCampaignId \/ HmiPauses \/ HmiEnds \/ \E c \in {"senddevicedata", "check", "download", "install", "campaigncheck"} : HmiCalls(c))

Next ==
  \/ ApiThread \/ MainThread \/ Typed
  \/ Alive /\ (Wakeup \/ FinishShutdown \/ UserShutsDown \/ \E u \in Users : UserCalls(u))

\* Threads are scheduled, and a Shutdown that was begun runs to its end;
\* nobody has to type anything.
Spec == Init /\ [][Next]_vars /\ WF_vars(ApiThread) /\ WF_vars(MainThread) /\ WF_vars(Alive /\ FinishShutdown)
-----------------------------------------------------------------------------
\* The queue and the threads keep their form: the API thread never runs the
\* empty function, and never sleeps on a queue with a task in it.
TypeOK ==
  /\ QueueTypeOK /\ made \in 0..Len(Commands) /\ r \in {-1, 0} /\ faults \in 0..MaxFaults
  /\ main \in {"read", "get", "full", "once", "library", "leave", "join", "exit", "dead"}
  /\ work.phase # "idle" <=> (api = "run" /\ op[task].op = "download" /\ work # Idle)
  /\ work.got \in {0, 50, 100} /\ work.tries \in 1..3

\* A future is unanswered exactly as long as its task is in the queue or in
\* the hands of the API thread, and there is one such task: none is lost, run
\* twice, or answered without having run.
PendingIsQueued ==
  \A c \in Calls :
    LET held == api \in {"got", "run"} /\ task = c
        queued == {i \in DOMAIN q_ : q_[i] = c}
    IN  /\ future[c] = "pending" <=> held \/ queued # {}
        /\ \A i, j \in queued : i = j
        /\ ~(held /\ queued # {})

\* The handler hears of the completion of main's calls in the order in which
\* they were made, of none twice and of none too late: an answered call has
\* been announced.
AnnouncedInOrder ==
  /\ Len(events) <= made /\ \A i \in DOMAIN events : events[i] = EventOf[op[Commands[i]].op]
  /\ \A i \in DOMAIN Commands : future[Commands[i]] = "ready" => i <= Len(events)

\* A run mode of aktualizr that ends with 0 has done all its calls: the
\* destructor, which drops what is queued, finds nothing to drop.
ExitZeroMeansDone == main = "exit" /\ r = 0 /\ mode \in DOMAIN Script => Len(events) = Len(Script[mode])

\* The percentage that hmi_stub shows of a file only rises while the file is
\* downloaded, although a try that failed may start again, and is forgotten
\* with the end of the download.
ProgressRises ==
  [][\A t \in Targets : progress'[t] # progress[t] => IF t \in work'.left THEN progress'[t] > progress[t] ELSE progress'[t] = 0]_vars

\* A campaign that cannot be read does not hide the others, and one that is
\* listed has an id, a name, and each entry that its metadata gives a value.
CampaignsListed ==
  LET json == campaigns.json  list == campaigns.list
      Good(c) == c.id # "" /\ c.name # "" /\ c.metadata = <<>>
  IN  /\ json # NotAList => \A i \in DOMAIN json : Good(json[i]) => \E k \in DOMAIN list : list[k].id = json[i].id
      /\ \A k \in DOMAIN list : \E i \in DOMAIN json :
           /\ json[i].id = list[k].id /\ list[k].id # "" /\ list[k].name # ""
           /\ \A e \in Range(json[i].metadata) : e.type \in DOMAIN Absent /\ e.value # Absent[e.type] => list[k].metadata[e.type] = e.value

\* Every call of RunForever and of another thread is answered, unless
\* somebody shuts down or pauses, or the process ends.
CallsAnswered == \A c \in Users \cup {RunForever} : future[c] = "pending" ~> future[c] # "pending" \/ shutdown_ \/ pause_ \/ ~Alive

\* Shutdown ends the API thread, so that the destructor's join returns,
\* unless the thread is in a download that is paused: nobody resumes it.
ApiThreadEnds == shutdown_ ~> api = "exit" \/ pause_ \/ ~Alive

\* main never waits for ever, paused or not: hmi_stub always reads the next
\* command, and a run mode other than full comes to its end.
MainGoesOn ==
  /\ main = "get" ~> main # "get"
  /\ mode \in DOMAIN Script \cup {"once"} => <>~Alive

\* What a program is told is so: the events of the API thread, the exit code
\* and the campaigns.
ToldRight == AnnouncedInOrder /\ ExitZeroMeansDone /\ CampaignsListed

\* Nobody waits for ever: neither the callers of the API for a future, nor
\* the destructor for the API thread, nor main.
NobodyWaits == CallsAnswered /\ ApiThreadEnds /\ MainGoesOn
=============================================================================
