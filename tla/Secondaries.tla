----------------------------- MODULE Secondaries ------------------------------
(***************************************************************************)
(* The primary and its secondaries: registration of their keys, the        *)
(* metadata and the images the primary sends them (sendMetadataToEcus,     *)
(* sendImagesToEcus with one thread for each), and what the secondaries do *)
(* with them.  Virtual secondaries share the process of the primary; the   *)
(* others are processes of their own, behind a connection that can fail.   *)
(***************************************************************************)
EXTENDS RemoteSecondary, Sequences

CONSTANTS Secs,         \* the serials of the secondaries
          Images,       \* the images the Director assigns
          Fleets,       \* the types the secondaries may have
          Assignments,  \* what the Director may assign to the secondaries
          MaxVersion,   \* bound: versions of the Director's targets
          MaxRoot,      \* bound: versions of the Director's root
          MaxMishaps,   \* bound: deaths of processes, connections that fail, answers that are lost
          MaxKey        \* bound: key pairs generated

ASSUME SecondariesAssumption ==
  /\ Fleets \subseteq [Secs -> {"kVirtual", "kIpUptane", "kOpcuaUptane"}]
  /\ Assignments \subseteq [Secs -> Images \cup {None}]
  /\ MaxVersion \in Nat /\ MaxRoot \in Nat /\ MaxMishaps \in Nat /\ MaxKey \in Nat /\ MaxFds \in Nat
  /\ None \notin Images \cup Nat \cup {"launched", "writing", "ok", "failed"}

VARIABLES kind,       \* the type of each secondary
          credentials,\* the TLS credentials are in files, so that they can be packed
          director,   \* root and targets of the Director
          stored,     \* those in the storage of the primary; targets may be missing
          updates,    \* what the last check returned and Install is called with
          saved,      \* installed versions in the storage of the primary
          server_keys,\* the public keys the server knows
          registered, \* the flag in the storage
          pc, todo,   \* where the main thread is; the secondaries it still has to visit
          managed,    \* memory of the virtual secondaries
          files,      \* their files
          remote,     \* memory of the other secondaries
          disk,       \* their storage
          repo,       \* OPC-UA: the files received, "absent", "part" or "whole"
          thread,     \* the threads of sendFirmwareAsync
          cache,      \* OPC-UA: end points the main thread knows
          lastKey, torn, mishaps

primary == <<stored, saved, server_keys, registered>>
memory == <<pc, todo, managed, thread, cache>>
others == <<remote, disk, repo>>
vars == <<kind, credentials, director, stored, updates, saved, server_keys, registered, pc, todo, managed,
          files, remote, disk, repo, thread, cache, lastKey, torn, mishaps>>

OfKind(k) == {s \in Secs : kind[s] = k}
Nothing == [s \in Secs |-> None]
RepoFiles(i) == {i, "config"}
AllFiles == Images \cup {"config"}

\* The orders in which a set of secondaries can be visited, and the one in
\* which the primary goes through its maps.
Orders(S) == {o \in [1..Cardinality(S) -> S] : \A s \in S : \E i \in 1..Cardinality(S) : o[i] = s}
MapOrder(S) == CHOOSE o \in Orders(S) : TRUE

\* The secondaries are finitely many: those of any map or list of them can be
\* visited one after the other.
ASSUME FinitelyMany == \A S \in SUBSET Secs : Cardinality(S) \in Nat /\ Orders(S) # {}

Init ==
  /\ kind \in Fleets
  /\ credentials \in IF OfKind("kIpUptane") = {} THEN {TRUE} ELSE BOOLEAN
  /\ \E a \in Assignments : director = [root |-> 1, targets |-> [root |-> 1, version |-> 1, assign |-> a]]
  /\ stored = [root |-> 1, targets |-> None] /\ updates = Nothing /\ saved = Nothing
  /\ server_keys = Nothing /\ registered = FALSE
  /\ pc = "off" /\ todo = <<>> /\ managed = Nothing
  /\ files = [s \in Secs |-> NoFiles]
  /\ remote = [s \in Secs |-> IF kind[s] = "kVirtual" THEN Stopped ELSE Started(EmptyStorage)]
  /\ disk = [s \in Secs |-> EmptyStorage]
  /\ repo = [s \in Secs |-> [f \in AllFiles |-> "absent"]]
  /\ thread = Nothing /\ cache = {}
  /\ lastKey = 0 /\ torn = [s \in Secs |-> {}] /\ mishaps = 0

Mishap == mishaps < MaxMishaps /\ mishaps' = mishaps + 1
Tear(s, what) == torn' = [torn EXCEPT ![s] = @ \cup {what}]
-----------------------------------------------------------------------------
(* Start of the primary: secondaries are constructed, registered with the  *)
(* server, initialised, and the registration is recorded.                  *)

Construct ==
  /\ pc = "off"
  /\ managed' = [s \in Secs |-> IF kind[s] = "kVirtual" THEN Constructed(files[s], lastKey + 1) ELSE None]
  /\ lastKey' = IF \A s \in OfKind("kVirtual") : loadKeys(files[s]) THEN lastKey ELSE lastKey + 1
  /\ lastKey' <= MaxKey
  /\ pc' = "register" /\ todo' = <<>> /\ thread' = Nothing /\ cache' = {}
  /\ UNCHANGED <<kind, credentials, director, updates, primary, files, others, torn, mishaps>>

\* A server that knows the device already keeps what it knows.
initEcuRegister ==
  /\ pc = "register"
  /\ server_keys' = IF registered \/ server_keys # Nothing THEN server_keys
                    ELSE [s \in Secs |-> IF kind[s] = "kVirtual" THEN managed[s].public ELSE s]
  /\ pc' = "initialize" /\ todo' = MapOrder(OfKind("kVirtual"))
  /\ UNCHANGED <<kind, credentials, director, updates, stored, saved, registered, managed, files, others, thread,
                 cache, lastKey, torn, mishaps>>

Initialize ==
  /\ pc = "initialize" /\ todo # <<>>
  /\ LET s == Head(todo)
     IN  /\ files' = [files EXCEPT ![s] = storeKeysStep(@, managed[s])]
         /\ todo' = IF files'[s].public = managed[s].public THEN Tail(todo) ELSE todo
  /\ UNCHANGED <<kind, credentials, director, updates, primary, pc, managed, others, thread, cache, lastKey,
                 torn, mishaps>>

storeEcuRegistered ==
  /\ pc = "initialize" /\ todo = <<>> /\ registered' = TRUE /\ pc' = "idle"
  /\ UNCHANGED <<kind, credentials, director, updates, stored, saved, server_keys, todo, managed, files, others, thread,
                 cache, lastKey, torn, mishaps>>
-----------------------------------------------------------------------------
(* The Director and the check for updates. *)

Publish ==
  /\ director.targets.version < MaxVersion
  /\ \E r \in director.root..MaxRoot, a \in Assignments :
       director' = [root |-> r, targets |-> [root |-> r, version |-> director.targets.version + 1, assign |-> a]]
  /\ UNCHANGED <<kind, credentials, updates, primary, memory, files, others, lastKey, torn, mishaps>>

\* A target is new when one of its ECUs does not have it, and then goes to
\* all of them.
Sharing(targets, s) == {r \in Secs : targets.assign[r] = targets.assign[s]}
getNewTargets(targets) ==
  [s \in Secs |-> IF \A r \in Sharing(targets, s) : saved[r] = targets.assign[r] THEN None ELSE targets.assign[s]]

\* The root is stored, and the targets removed, before new targets are fetched.
fetchMeta ==
  /\ pc = "idle"
  /\ \/ /\ stored' = director /\ UNCHANGED mishaps
        /\ updates' \in {getNewTargets(director.targets), updates}
     \/ /\ Mishap /\ stored.root # director.root /\ stored' = [root |-> director.root, targets |-> None]
        /\ UNCHANGED updates
  /\ UNCHANGED <<kind, credentials, director, saved, server_keys, registered, memory, files, others, lastKey,
                 torn>>
-----------------------------------------------------------------------------
(* uptaneInstall: metadata. *)

Updated == {s \in Secs : updates[s] # None}

\* The application installs what a check returned, perhaps not the last one.
Install ==
  /\ pc = "idle" /\ Updated # {}
  /\ todo' \in IF stored.targets = None THEN {<<>>} ELSE Orders(Updated)
  /\ pc' = "metadata"
  /\ UNCHANGED <<kind, credentials, director, updates, primary, thread, managed, cache, files, others, lastKey,
                 torn, mishaps>>

\* One putRoot for each version that is missing.
rotateSecondaryRoot(mem, last) ==
  LET had == getRootVersion(mem)
      rotated[v \in had..last] ==
        IF v = had THEN [root |-> had, detected_attack |-> mem.detected_attack] ELSE putRoot(rotated[v - 1], v)
  IN  IF had >= last THEN mem
      ELSE [mem EXCEPT !.root = rotated[last].root, !.detected_attack = rotated[last].detected_attack]

Visited == pc = "metadata" /\ todo # <<>> /\ todo' = Tail(todo)

putMetadataVirtual(s) ==
  /\ Visited /\ s = Head(todo) /\ kind[s] = "kVirtual"
  /\ managed' = [managed EXCEPT ![s] = putMetadata(rotateSecondaryRoot(@, stored.root), stored, s)]
  /\ UNCHANGED <<kind, credentials, director, updates, primary, pc, thread, cache, files, others, lastKey,
                 torn, mishaps>>

\* No connection, or no answer that can be decoded: an empty message.
Asn1RpcEmpty(s) == (IF remote[s].up THEN Mishap ELSE UNCHANGED mishaps) /\ UNCHANGED <<remote, disk>>
Asn1Rpc(s, request) ==
  LET r == HandleOneConnection(remote[s], disk[s], request, stored, s)
  IN  remote[s].up /\ remote' = [remote EXCEPT ![s] = r.mem] /\ disk' = [disk EXCEPT ![s] = r.disk] /\ UNCHANGED mishaps

\* The answer is logged and nothing else.
putMetadataIp(s) ==
  /\ Visited /\ s = Head(todo) /\ kind[s] = "kIpUptane"
  /\ Asn1Rpc(s, "putMetaReq") \/ Asn1RpcEmpty(s)
  /\ UNCHANGED <<kind, credentials, director, updates, primary, pc, managed, thread, cache, files, repo, lastKey, torn>>

\* SelectEndPoint asks the network only while the thread knows no end point
\* at all, and keeps only the one it was asked for.
SelectEndPoint(s) == IF cache = {} /\ remote[s].up THEN {s} ELSE cache

\* sendMetadataFiles: the announcement, the root, the targets; a write that
\* fails ends the batch, with a cancellation if there is still a connection.
Writes(mem, n, cancel) ==
  LET announced == writeMetadataFiles(mem, 2)
      one == countReceivedMetadataFile(announced, "root", stored.targets.version)
      two == countReceivedMetadataFile(one, "targets", stored.targets.version)
      got == CASE n = 0 -> mem [] n = 1 -> announced [] n = 2 -> one [] OTHER -> IF one.up THEN two ELSE one
  IN  IF cancel /\ got.up /\ n < 3 THEN writeMetadataFiles(got, 0) ELSE got

putMetadataOpcua(s) ==
  /\ Visited /\ s = Head(todo) /\ kind[s] = "kOpcuaUptane"
  /\ cache' = SelectEndPoint(s)
  /\ IF s \notin cache' \/ ~remote[s].up THEN UNCHANGED <<remote, torn, mishaps>>
     ELSE \/ remote' = [remote EXCEPT ![s] = Writes(@, 3, FALSE)] /\ UNCHANGED <<torn, mishaps>>
          \/ /\ Mishap /\ Tear(s, "batch")
             /\ \E n \in 0..2, cancel \in BOOLEAN : remote' = [remote EXCEPT ![s] = Writes(@, n, cancel)]
  /\ UNCHANGED <<kind, credentials, director, updates, primary, pc, managed, thread, files, disk, repo, lastKey>>
-----------------------------------------------------------------------------
(* uptaneInstall: images.  One thread for each secondary. *)

\* An archive of credentials that cannot be made means no image, no event
\* and no report.
Sendable == {s \in Updated : kind[s] = "kIpUptane" => credentials}

sendImagesToEcus ==
  /\ pc = "metadata" /\ todo = <<>>
  /\ todo' = MapOrder(Sendable) /\ pc' = "join"
  /\ thread' = [s \in Secs |-> IF s \in Sendable THEN "launched" ELSE None]
  /\ UNCHANGED <<kind, credentials, director, updates, primary, managed, cache, files, others, lastKey,
                 torn, mishaps>>

\* A thread enqueues EcuInstallationStarted, sends, and enqueues
\* EcuInstallationCompleted with the answer.
Answer(s, ok) == thread' = [thread EXCEPT ![s] = IF ok THEN "ok" ELSE "failed"]

sendFirmwareVirtual(s) ==
  /\ kind[s] = "kVirtual"
  /\ \/ /\ thread[s] = "launched"
        /\ LET r == sendFirmware(managed[s], updates[s])
           IN  /\ managed' = [managed EXCEPT ![s] = r.mem]
               /\ IF r.ok
                  THEN /\ files' = [files EXCEPT ![s] = storeName(@, managed[s])]
                       /\ thread' = [thread EXCEPT ![s] = "writing"]
                  ELSE Answer(s, FALSE) /\ UNCHANGED files
     \/ /\ thread[s] = "writing" /\ files' = [files EXCEPT ![s] = storeContent(@, updates[s])]
        /\ Answer(s, TRUE) /\ UNCHANGED managed
  /\ UNCHANGED <<kind, credentials, director, updates, primary, pc, todo, cache, others, lastKey, torn, mishaps>>

sendFirmwareIp(s) ==
  /\ kind[s] = "kIpUptane" /\ thread[s] = "launched"
  /\ \/ /\ Asn1Rpc(s, "sendFirmwareReq")
        /\ Answer(s, HandleOneConnection(remote[s], disk[s], "sendFirmwareReq", None, s).ok)
     \/ Asn1RpcEmpty(s) /\ Answer(s, FALSE)
  /\ UNCHANGED <<kind, credentials, director, updates, primary, pc, todo, managed, cache, files, repo, lastKey, torn>>

\* syncDirectoryFiles, in a thread that looks for the end point itself.  The
\* end of the list is written even when a file failed; the secondary, which
\* has no target, does nothing then.
sendFirmwareOpcua(s) ==
  /\ kind[s] = "kOpcuaUptane" /\ thread[s] = "launched"
  /\ LET missing == MissingFiles(repo[s], RepoFiles(updates[s]))
     IN  \/ /\ remote[s].up /\ Answer(s, TRUE)
            /\ repo' = [repo EXCEPT ![s] = ClientWriteFile(@, missing, {})] /\ UNCHANGED <<torn, mishaps>>
         \/ ~remote[s].up /\ Answer(s, FALSE) /\ UNCHANGED <<repo, torn, mishaps>>
         \/ /\ remote[s].up /\ Mishap /\ Answer(s, FALSE) /\ Tear(s, "file")
            /\ \E whole \in SUBSET missing, part \in {{}} \cup {{f} : f \in missing} :
                 repo' = [repo EXCEPT ![s] = ClientWriteFile(@, whole, part)]
  /\ UNCHANGED <<kind, credentials, director, updates, primary, pc, todo, managed, cache, files, remote, disk, lastKey>>

\* Faulty variant: the version is saved whatever the secondary answered.
JoinUnasked(s) ==
  /\ pc = "join" /\ todo # <<>> /\ s = Head(todo) /\ thread[s] \in {"ok", "failed"}
  /\ todo' = Tail(todo)
  /\ saved' = [saved EXCEPT ![s] = updates[s]]
  /\ UNCHANGED <<kind, credentials, director, updates, stored, server_keys, registered, pc, managed, thread, cache,
                 files, others, lastKey, torn, mishaps>>
\* The futures, in the order of the launches.
Join(s) ==
  /\ pc = "join" /\ todo # <<>> /\ s = Head(todo) /\ thread[s] \in {"ok", "failed"}
  /\ todo' = Tail(todo)
  /\ saved' = IF thread[s] = "ok" THEN [saved EXCEPT ![s] = updates[s]] ELSE saved
  /\ UNCHANGED <<kind, credentials, director, updates, stored, server_keys, registered, pc, managed, thread, cache,
                 files, others, lastKey, torn, mishaps>>

AllInstallsComplete ==
  /\ pc = "join" /\ todo = <<>> /\ pc' = "idle" /\ thread' = Nothing
  /\ UNCHANGED <<kind, credentials, director, updates, primary, todo, managed, cache, files, others, lastKey, torn, mishaps>>
-----------------------------------------------------------------------------
(* Deaths. *)

\* The process of the primary ends, its threads and virtual secondaries with
\* it, and so does a transfer to an OPC-UA secondary.
CrashPrimary ==
  /\ pc # "off" /\ Mishap
  /\ pc' = "off" /\ todo' = <<>> /\ thread' = Nothing /\ cache' = {}
  /\ managed' = Nothing /\ updates' = Nothing
  /\ torn' = [s \in Secs |-> torn[s] \cup (IF thread[s] = "writing" THEN {"firmware"} ELSE {})
                 \cup (IF pc = "initialize" /\ kind[s] = "kVirtual" /\ files[s].public # managed[s].public
                       THEN {"keys"} ELSE {})]
  /\ UNCHANGED <<kind, credentials, director, primary, files, others, lastKey>>

CrashSecondary(s) ==
  /\ kind[s] # "kVirtual" /\ remote[s].up /\ Mishap
  /\ remote' = [remote EXCEPT ![s] = Stopped]
  /\ UNCHANGED <<kind, credentials, director, updates, primary, memory, files, disk, repo, lastKey, torn>>

RestartSecondary(s) ==
  /\ kind[s] # "kVirtual" /\ ~remote[s].up
  /\ remote' = [remote EXCEPT ![s] = Started(disk[s])]
  /\ repo' = [repo EXCEPT ![s] = [f \in AllFiles |-> "absent"]]
  /\ UNCHANGED <<kind, credentials, director, updates, primary, memory, files, disk, lastKey, torn, mishaps>>

Thread(s) ==
  sendFirmwareVirtual(s) \/ sendFirmwareIp(s) \/ sendFirmwareOpcua(s)
PutMetadata(s) == putMetadataVirtual(s) \/ putMetadataIp(s) \/ putMetadataOpcua(s)
Main ==
  Construct \/ initEcuRegister \/ Initialize \/ storeEcuRegistered \/ sendImagesToEcus \/ AllInstallsComplete
  \/ \E s \in Secs : PutMetadata(s) \/ Join(s)

Next ==
  \/ Main \/ fetchMeta \/ Install \/ Publish \/ CrashPrimary
  \/ \E s \in Secs : Thread(s) \/ CrashSecondary(s) \/ RestartSecondary(s)

\* Threads run; the loop of the application checks and installs again and
\* again; a service manager restarts what has ended.
Checked == fetchMeta /\ updates' = getNewTargets(director.targets)
Fairness ==
  /\ WF_vars(Main) /\ SF_vars(Checked) /\ SF_vars(Install)
  /\ \A s \in Secs : WF_vars(Thread(s)) /\ WF_vars(RestartSecondary(s))
Spec == Init /\ [][Next]_vars /\ Fairness
-----------------------------------------------------------------------------
\* The threads keep their form, and the connections that an IP secondary never
\* closes stay within its descriptors: it ends before it runs out of them.
TypeOK ==
  /\ pc \in {"off", "register", "initialize", "idle", "metadata", "join"}
  /\ todo \in Seq(Secs) /\ cache \subseteq Secs /\ lastKey \in 0..MaxKey /\ mishaps \in 0..MaxMishaps
  /\ \A s \in Secs :
       /\ saved[s] \in Images \cup {None} /\ updates[s] \in Images \cup {None}
       /\ thread[s] \in {None, "launched", "writing", "ok", "failed"}
       /\ remote[s].fds \in 0..MaxFds /\ remote[s].received \in 0..1

\* The two halves of a secondary's key in its files belong together, whatever
\* was interrupted (storeKeys writes two files, loadKeys wants both).
PairMatches ==
  \A s \in OfKind("kVirtual") : loadKeys(files[s]) => files[s].private = files[s].public

\* The key a running virtual secondary signs with is the one the server was
\* given, unless the process died after the registration and before the key
\* was stored (initializer.cc: keys are stored after the POST).
ServerKnowsKey ==
  \A s \in OfKind("kVirtual") :
    pc \in {"idle", "metadata", "join"} => managed[s].public = server_keys[s] \/ "keys" \in torn[s]

\* The manifest names an image and gives the hash of that image, unless the
\* process died between the two files of storeFirmware.
ManifestMatches ==
  \A s \in OfKind("kVirtual") :
    thread[s] # "writing" =>
      LET m == getFirmwareInfo(files[s])
      IN  m.name = "noimage" \/ m.name = m.hash \/ "firmware" \in torn[s]

\* What a virtual secondary stores is the image the Director assigned to it
\* in the metadata it holds, also when Install is called with the result of
\* an older check.
StoresDirected ==
  [][\A s \in OfKind("kVirtual") :
       files'[s].firmware # files[s].firmware =>
         files'[s].firmware = managed[s].targets.assign[s]]_vars

\* A version is saved for a virtual secondary only when its files hold that
\* image; the answers of the threads are joined before.
SavedIsStored ==
  [][\A s \in OfKind("kVirtual") :
       saved'[s] # saved[s] => files[s].name = saved'[s] /\ files[s].firmware = saved'[s]]_vars

\* An IP secondary follows the chain of roots one link at a time, over
\* restarts of its own and of the primary.
RootChainKept ==
  [][\A s \in OfKind("kIpUptane") :
       disk'[s].root # disk[s].root => disk[s].root = None \/ disk'[s].root = disk[s].root + 1]_vars

\* The OPC-UA server acts on a root and on targets of the same batch, unless
\* a batch was cut short before: the cancellation of one does not take back
\* the files that were counted.
BatchWhole ==
  \A s \in OfKind("kOpcuaUptane") :
    LET p == remote[s].received_meta_pack
    IN  ~remote[s].up /\ p.root # None => p.root = p.targets \/ "batch" \in torn[s]

\* A synchronisation that succeeds leaves every file of the image whole,
\* unless a file was cut short before: files are told apart by name only.
SyncedIsWhole ==
  [][\A s \in OfKind("kOpcuaUptane") :
       thread[s] = "launched" /\ thread'[s] = "ok" =>
         \A f \in RepoFiles(updates[s]) : repo'[s][f] = "whole" \/ "file" \in torn[s]]_vars

\* Once the Director is quiet, every virtual secondary ends up with what it
\* assigned, whatever was interrupted before.
EventuallyInstalled ==
  <>[](\A s \in OfKind("kVirtual") :
         LET i == director.targets.assign[s]
         IN  i # None => files[s].firmware = i /\ files[s].name = i /\ saved[s] = i)

\* ... and every IP secondary that is to be updated gets the metadata, unless
\* it has missed two roots: there is no putRoot to catch up with.
EventuallyInformed ==
  <>[](\A s \in OfKind("kIpUptane") :
         director.targets.assign[s] # None =>
           \/ disk[s].version = director.targets.version
           \/ disk[s].root # None /\ disk[s].root + 1 < director.root)

\* The keys of a virtual secondary are a pair, and the one the server knows.
KeysKnown == PairMatches /\ ServerKnowsKey

\* What the Director assigned to a virtual secondary, what its files hold,
\* what its manifest says and what the primary saves are the same image.
StoredAsDirected == []ManifestMatches /\ StoresDirected /\ SavedIsStored

\* Secondaries behind a connection take in whole batches, whole files and one
\* root after the other, although both sides die and connections fail.
RemotesRight == []BatchWhole /\ SyncedIsWhole /\ RootChainKept

\* Once the Director is quiet, images and metadata arrive.
EventuallyUpdated == EventuallyInstalled /\ EventuallyInformed
=============================================================================
