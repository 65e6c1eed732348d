-------------------------------- MODULE Upload --------------------------------
(***************************************************************************)
(* The upload of an OSTree commit to a Treehub server: garage-push,        *)
(* garage-deploy and garage-check (sota_tools), with the graph of objects, *)
(* the request pool and its rate controller, a server that fails, loses    *)
(* answers or has some of the objects already, and what is announced once  *)
(* the objects are there.                                                  *)
(***************************************************************************)
EXTENDS RateController, FiniteSets, SequencesExt

CONSTANTS Objects,      \* the objects of the commit
          Kids,         \* the sequence of children each of them lists
          Root,         \* the commit
          Origins,      \* what the server may have before
          Absents,      \* what the source repository may lack, or not deliver in three attempts
          Credentials,  \* the contents that a credentials file may have
          MaxBad        \* bound: failures in a row that are counted

VARIABLES tool, mode,   \* the program and how it was called
          origin,       \* what the server had at the start
          server,       \* the objects the server has
          absent,       \* the objects the source repository does not have
          pc,
          offline,      \* the credentials hold keys to sign with
          pool,         \* queues of the RequestPool, and the OSTreeObjects with their links
          active,       \* the requests that curl is working on
          dry,          \* requests counted in running_requests_ that were never sent
          rate,
          result,       \* what UploadToTreehub returns
          announced,    \* the commit is a ref of the server, or a target of the repository
          bad           \* results in a row that made the limits tighter

vars == <<tool, mode, origin, server, absent, pc, offline, pool, active, dry, rate, result, announced, bad>>

Sends == mode \in {"kDefault", "kPushTree"}
Source == (IF tool = "check" THEN server ELSE Objects) \ absent
-----------------------------------------------------------------------------
(* RequestPool and OSTreeObject.  A handler of the code changes the pool.  *)

EmptyPool ==
  [is_on_server |-> [o \in Objects |-> "kObjectStateUnknown"], children |-> [o \in Objects |-> <<>>],
   parents |-> [o \in Objects |-> <<>>], queries |-> <<>>, uploads |-> <<>>, stopped |-> FALSE]

\* LaunchNotify comes first, also when the pool has stopped.
AddQuery(p, o) ==
  [p EXCEPT !.is_on_server[o] = "kObjectInProgress", !.queries = IF p.stopped THEN @ ELSE Append(@, o)]
AddUpload(p, o) ==
  [p EXCEPT !.is_on_server[o] = "kObjectInProgress", !.uploads = IF p.stopped THEN @ ELSE Append(@, o)]
Abort(p) == [p EXCEPT !.stopped = TRUE, !.queries = <<>>, !.uploads = <<>>]

\* Faulty variant: the parent does not wait for its other children.
ChildNotifyHasty(p, parent, child) == AddUpload([p EXCEPT !.children[parent] = RemoveFirst(@, child)], parent)
ChildNotify(p, parent, child) ==
  LET q == [p EXCEPT !.children[parent] = RemoveFirst(@, child)]
  IN  IF q.children[parent] = <<>> THEN AddUpload(q, parent) ELSE q
NotifyParents(p, o) == FoldLeft(LAMBDA q, parent : ChildNotify(q, parent, o), p, p.parents[o])

\* Faulty variant: a child on its way to the server is taken to be there.
AppendChildOnlyUnknown(p, o, child) ==
  IF p.is_on_server[child] # "kObjectStateUnknown" THEN p
  ELSE [p EXCEPT !.children[o] = Append(@, child), !.parents[child] = Append(@, o)]
AppendChild(p, o, child) ==
  IF p.is_on_server[child] = "kObjectPresent" THEN p
  ELSE [p EXCEPT !.children[o] = Append(@, child), !.parents[child] = Append(@, o)]

\* The children before the first one that the source does not have.
Found(o) == LET n == SelectInSeq(Kids[o], LAMBDA k : k \notin Source)
            IN  IF n = 0 THEN Kids[o] ELSE SubSeq(Kids[o], 1, n - 1)
PopulateChildren(p, o) == FoldLeft(LAMBDA q, child : AppendChild(q, o, child), p, Found(o))

\* Faulty variant: children that are being asked for are asked for again.
QueryChildrenAll(p, o) == FoldLeft(LAMBDA q, child : AddQuery(q, child), p, p.children[o])
QueryChildren(p, o) ==
  FoldLeft(LAMBDA q, child : IF q.is_on_server[child] = "kObjectStateUnknown" THEN AddQuery(q, child) ELSE q,
           p, p.children[o])

CheckChildren(p, o, rescode) ==
  LET q == PopulateChildren(p, o)
  IN  IF Found(o) # Kids[o] THEN Abort(q)
      ELSE IF q.children[o] # <<>> THEN QueryChildren(q, o)
      ELSE IF rescode # 200 THEN AddUpload(q, o) ELSE q

PresenceError(p, o) == AddQuery([p EXCEPT !.is_on_server[o] = "kObjectStateUnknown"], o)
\* Faulty variant: the upload is not retried.
UploadErrorDrops(p, o) == [p EXCEPT !.is_on_server[o] = "kObjectMissing"]
UploadError(p, o) == AddUpload([p EXCEPT !.is_on_server[o] = "kObjectMissing"], o)

CurlDone(p, request, rescode) ==
  LET o == request.obj
      present == [p EXCEPT !.is_on_server[o] = "kObjectPresent"]
  IN  CASE request.op = "query" /\ rescode = 200 ->
             IF mode \in {"kWalkTree", "kPushTree"} THEN CheckChildren(present, o, 200) ELSE NotifyParents(present, o)
        [] request.op = "query" /\ rescode = 404 -> CheckChildren([p EXCEPT !.is_on_server[o] = "kObjectMissing"], o, 404)
        [] request.op = "query" /\ rescode \notin {200, 404} -> PresenceError(p, o)
        [] request.op = "upload" /\ rescode \in {200, 409} -> NotifyParents(present, o)
        [] request.op = "upload" /\ rescode \notin {200, 409} -> UploadError(p, o)
LastOperationResultOk(request, rescode) == rescode \in IF request.op = "query" THEN {200, 404} ELSE {200, 409}

is_idle == pool.queries = <<>> /\ pool.uploads = <<>> /\ active = {}
RootPresent == pool.is_on_server[Root] = "kObjectPresent"
CheckPoolState ==
  /\ ~pool.stopped
  /\ mode \in {"kWalkTree", "kPushTree"} => ~is_idle
  /\ mode # "kWalkTree" => ~RootPresent
-----------------------------------------------------------------------------
\* The options of the three programs; garage-deploy cannot walk a tree, and
\* garage-check only does that, or nothing.
RunMode(dry_run, walk_tree) ==
  CASE tool = "push" -> IF dry_run THEN IF walk_tree THEN "kWalkTree" ELSE "kDryRun"
                        ELSE IF walk_tree THEN "kPushTree" ELSE "kDefault"
    [] tool = "deploy" -> IF dry_run THEN "kDryRun" ELSE "kDefault"
    [] tool = "check" -> IF walk_tree THEN "kWalkTree" ELSE "kDefault"

Init ==
  /\ tool \in {"push", "deploy", "check"}
  /\ \E dry_run, walk_tree \in BOOLEAN : mode = RunMode(dry_run, walk_tree)
  /\ origin \in Origins /\ server = origin
  /\ absent \in Absents
  /\ pc = "start" /\ offline = FALSE
  /\ pool = EmptyPool /\ active = {} /\ dry = 0
  /\ rate = NewController /\ result = FALSE /\ announced = FALSE /\ bad = 0

\* The credentials are an archive with files, or the json file itself.
ServerCredentials(c) ==
  CASE (c.archive /\ "treehub.json" \notin c.files) \/ c.json = "malformed" -> "throws"
    [] c.json = "oauth2" -> "kOauth2"
    [] c.json = "basic_auth" -> "kBasic"
    [] c.json = "certificate_auth" ->
         IF {"client.crt", "client.key", "root.crt"} \subseteq c.files THEN "kCert" ELSE "throws"
    [] OTHER -> "kNone"
CanSignOffline(c) == c.archive /\ {"root.json", "targets.pub", "targets.sec", "tufrepo.url"} \subseteq c.files

\* Only OAuth2 asks a server, which can refuse.
OAuth2Authenticate == BOOLEAN
authenticate(c) == IF ServerCredentials(c) = "kOauth2" THEN OAuth2Authenticate ELSE {TRUE}

\* The credentials are read and used; garage-push looks at its repository and
\* its ref before (usable).  An exception ends the program too.
Start ==
  /\ pc = "start"
  /\ \E c \in Credentials, usable \in IF tool = "push" THEN BOOLEAN ELSE {TRUE} : \E ok \in authenticate(c) :
       /\ offline' = CanSignOffline(c)
       /\ pc' = IF usable /\ ok /\ ServerCredentials(c) # "throws" THEN "root" ELSE "failure"
  /\ UNCHANGED <<tool, mode, origin, server, absent, pool, active, dry, rate, result, announced, bad>>

GetObject ==
  /\ pc = "root" /\ (tool # "check" \/ mode = "kWalkTree")
  /\ IF Root \in Source THEN pc' = "launch" /\ pool' = AddQuery(pool, Root)
     ELSE pc' = "failure" /\ UNCHANGED pool
  /\ UNCHANGED <<tool, mode, origin, server, absent, offline, active, dry, rate, result, announced, bad>>

\* garage-check asks for the commit first; an answer that is neither 200 nor
\* 404 is a failure too.  Only a walk goes on without the commit.
CheckCommit ==
  /\ pc = "root" /\ tool = "check"
  /\ \/ pc' = "failure"
     \/ mode # "kWalkTree" /\ Root \in server /\ pc' = "after"
  /\ UNCHANGED <<tool, mode, origin, server, absent, offline, pool, active, dry, rate, result, announced, bad>>

MakeTestRequest(o) == [obj |-> o, op |-> "query", fresh |-> TRUE]
UploadRequest(o) == [obj |-> o, op |-> "upload", fresh |-> TRUE]

MayLaunch == Cardinality(active) + dry < rate.max_concurrency

\* One turn of LoopLaunch: queries first.  A dry run goes on as if the object
\* had been sent, and counts it.
Launch ==
  /\ pc = "launch" /\ MayLaunch
  /\ \/ /\ pool.queries # <<>> /\ pool' = [pool EXCEPT !.queries = Tail(@)]
        /\ active' = active \cup {MakeTestRequest(Head(pool.queries))} /\ UNCHANGED dry
     \/ /\ pool.queries = <<>> /\ pool.uploads # <<>>
        /\ LET o == Head(pool.uploads)
               popped == [pool EXCEPT !.uploads = Tail(@)]
           IN  IF Sends
               THEN /\ active' = active \cup {UploadRequest(o)}
                    /\ pool' = popped /\ UNCHANGED dry
               ELSE /\ pool' = NotifyParents([popped EXCEPT !.is_on_server[o] = "kObjectPresent"], o)
                    /\ dry' = dry + 1 /\ UNCHANGED active
  /\ UNCHANGED <<tool, mode, origin, server, absent, pc, offline, rate, result, announced, bad>>

LaunchEnd ==
  /\ pc = "launch"
  /\ ~MayLaunch \/ (pool.queries = <<>> /\ pool.uploads = <<>>)
  /\ pc' = "listen" /\ dry' = 0
  /\ UNCHANGED <<tool, mode, origin, server, absent, offline, pool, active, rate, result, announced, bad>>

\* What the server may answer (0: anything else, or nothing), and what it has then.
Answers(request) ==
  LET with == server \cup {request.obj}
  IN  IF request.op = "query"
      THEN {<<IF request.obj \in server THEN 200 ELSE 404, server>>, <<0, server>>}
      ELSE {<<200, with>>, <<0, server>>, <<0, with>>} \cup (IF request.obj \in server THEN {<<409, server>>} ELSE {})

\* One completed request in LoopListen.
Complete(o) ==
  /\ pc \in {"listen", "drain"}
  /\ \E request \in {r \in active : r.obj = o} : \E a \in Answers(request) :
       LET ok == LastOperationResultOk(request, a[1])
           done == CurlDone(pool, request, a[1])
       IN  /\ server' = a[2]
           /\ rate' = RequestCompleted(rate, request.fresh, ok)
           /\ active' = {IF request.fresh THEN [r EXCEPT !.fresh = FALSE] ELSE r : r \in active \ {request}}
           /\ bad' = IF ~request.fresh THEN bad ELSE IF ok THEN 0 ELSE IF bad < MaxBad THEN bad + 1 ELSE bad
           /\ pool' = IF ServerHasFailed(rate') THEN Abort(done) ELSE done
  /\ UNCHANGED <<tool, mode, origin, absent, pc, offline, dry, result, announced>>

\* The end of one iteration; the destructor of the pool aborts it and waits.
Loop ==
  /\ pc = "listen"
  /\ IF CheckPoolState THEN pc' = "launch" /\ UNCHANGED <<pool, result>>
     ELSE pc' = "drain" /\ pool' = Abort(pool) /\ result' = RootPresent
  /\ UNCHANGED <<tool, mode, origin, server, absent, offline, active, dry, rate, announced, bad>>

Drained ==
  /\ pc = "drain" /\ active = {} /\ pc' = "after"
  /\ UNCHANGED <<tool, mode, origin, server, absent, offline, pool, active, dry, rate, result, announced, bad>>
-----------------------------------------------------------------------------
(* After the upload. *)

Exit(ok) == pc' = IF ok THEN "success" ELSE "failure"

\* Outcomes: a pair of the value returned and whether the commit is announced.
\* The answer to the last request can be lost, or not be 200.
PushRootRef == {<<TRUE, Sends>>, <<FALSE, FALSE>>, <<FALSE, Sends>>}
\* Five commands of garage-sign, the last of which publishes.
OfflineSignRepo == {<<n = 5, n = 5>> : n \in 0..5} \cup {<<FALSE, TRUE>>}

Outcome(outcomes) ==
  /\ \E r \in outcomes : pc' = (IF r[1] THEN "success" ELSE "failure") /\ announced' = r[2]
  /\ UNCHANGED <<tool, mode, origin, server, absent, offline, pool, active, dry, rate, result, bad>>

GaragePush ==
  /\ pc = "after" /\ tool = "push"
  /\ Outcome(IF ~result THEN {<<FALSE, FALSE>>} ELSE IF offline THEN {<<TRUE, FALSE>>} ELSE PushRootRef)
GarageDeploy ==
  /\ pc = "after" /\ tool = "deploy"
  /\ Outcome(IF ~result \/ (mode = "kDefault" /\ ~offline) THEN {<<FALSE, FALSE>>}
             ELSE IF mode # "kDefault" THEN {<<TRUE, FALSE>>} ELSE OfflineSignRepo)
\* garage-check only logs the result of the walk; it looks for a target.
GarageCheck == pc = "after" /\ tool = "check" /\ Outcome(BOOLEAN \X {FALSE})

Finished == pc \in {"success", "failure"} /\ UNCHANGED vars

Step == Start \/ GetObject \/ CheckCommit \/ Launch \/ LaunchEnd \/ Loop \/ Drained \/ GaragePush \/ GarageDeploy
          \/ GarageCheck
Next == Step \/ Finished \/ \E o \in Objects : Complete(o)

\* The tool runs, and every request is answered or times out.
Spec == Init /\ [][Next]_vars /\ WF_vars(Step) /\ \A o \in Objects : SF_vars(Complete(o))
-----------------------------------------------------------------------------
\* The tool's bookkeeping keeps its form, and no more requests run at a time
\* than the cap allows (RequestPool::LoopLaunch).
TypeOK ==
  /\ pc \in {"start", "root", "launch", "listen", "drain", "after", "success", "failure"}
  /\ server \subseteq Objects /\ {r.obj : r \in active} \subseteq Objects
  /\ Range(pool.queries) \cup Range(pool.uploads) \subseteq Objects
  /\ Cardinality(active) <= concurrency_cap /\ dry \in 0..concurrency_cap

Closed(s) == \A o \in s : Range(Kids[o]) \subseteq s

\* The assertions of the rate controller hold whatever the answers and their
\* order are, also those of requests from before the last change; and the
\* pool gives up only after failures in a row have doubled the sleep past its
\* maximum, or when the source is incomplete.
RateHolds ==
  /\ CheckInvariants(rate)
  /\ pc \in {"launch", "listen"} /\ pool.stopped => bad >= MaxBad \/ ~(Objects \subseteq Source)

\* An object is sent only when the server has all of its children, although
\* they are shared, retried and answered in any order.
ChildrenFirst ==
  [][\A o \in server' \ server : Range(Kids[o]) \subseteq server]_vars

\* No object has two requests, queued or running, so that the assertions on
\* its curl handle hold (OSTreeObject::MakeTestRequest, Upload).
OneRequestEach ==
  \A o \in Objects :
    Cardinality({r \in active : r.obj = o}) + Len(SelectSeq(pool.queries \o pool.uploads, LAMBDA q : q = o)) <= 1

\* A commit is announced only when the server has all of it, if what the
\* server had before was complete.
AnnouncedIsComplete == announced /\ Closed(origin) => Objects \subseteq server

\* Every run of a tool ends, even with a server that never stops failing.
Terminates == <>(pc \in {"success", "failure"})

\* Neither an object on the server nor the commit that is announced misses a
\* part.
NothingIncomplete == []AnnouncedIsComplete /\ ChildrenFirst
=============================================================================
