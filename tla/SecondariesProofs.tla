-------------------------- MODULE SecondariesProofs --------------------------
(***************************************************************************)
(* Proofs about Secondaries, for any fleet, images, assignments and bounds *)
(* on what goes wrong.  The inductive invariant has five parts: where the  *)
(* threads are (Control), what the primary holds of the Director's         *)
(* metadata (Directed), the keys of the virtual secondaries (Keyed), their *)
(* images (Imaged), and what the other secondaries received (Received).    *)
(***************************************************************************)
EXTENDS Secondaries, TLAPS

Some(S) == S \cup {None}
Tgt == [root : Nat, version : Nat, assign : [Secs -> Some(Images)]]
Memory == [private : Nat, public : Nat, root : Nat, targets : Some(Tgt), expected : Some(Images),
           detected_attack : BOOLEAN]
FilesOf == [private : Some(Nat), public : Some(Nat), name : Some(Images), firmware : Some(Images)]
Pack == [root : Some(Nat), targets : Some(Nat)]
Process == [up : BOOLEAN, root : Nat, version : Int, target : Some(Images), fds : 0..MaxFds, number : Nat,
            received : 0..1, received_meta_pack : Pack]
Disk == [root : Some(Nat), version : Some(Nat)]

On == {"initialize", "idle", "metadata", "join"}
Waiting(s) == \E i \in 1..Len(todo) : todo[i] = s

\* Where the threads are.
Control ==
  /\ kind \in [Secs -> {"kVirtual", "kIpUptane", "kOpcuaUptane"}]
  /\ pc \in {"off", "register"} \cup On
  /\ todo \in Seq(Secs)
  /\ pc = "initialize" => \A i \in 1..Len(todo) : kind[todo[i]] = "kVirtual"
  /\ thread \in [Secs -> {None, "launched", "writing", "ok", "failed"}]
  /\ \A s \in Secs : thread[s] # None => pc = "join" /\ updates[s] # None
  /\ pc = "join" => \A s \in Secs : thread[s] \in {"launched", "writing"} => Waiting(s)
  /\ torn \in [Secs -> SUBSET {"keys", "firmware", "batch", "file"}]
  /\ updates \in [Secs -> Some(Images)] /\ saved \in [Secs -> Some(Images)]
  /\ lastKey \in 0..MaxKey /\ mishaps \in 0..MaxMishaps /\ cache \subseteq Secs

\* The targets that the primary has stored are of its root, and none are
\* newer than the Director's; it sends metadata only when it has targets.
Directed ==
  /\ director \in [root : Nat, targets : Tgt] /\ stored \in [root : Nat, targets : Some(Tgt)]
  /\ director.targets.root = director.root /\ director.root > 0 /\ stored.root > 0
  /\ stored.targets # None =>
       stored.targets.root = stored.root /\ stored.targets.version <= director.targets.version
  /\ pc = "metadata" /\ todo # <<>> => stored.targets # None

\* The keys of a virtual secondary, in memory, in its files and at the server.
KeyedAt(s) ==
  /\ files[s] \in FilesOf
  /\ files[s].public # None => files[s].private = files[s].public
  /\ pc # "off" => /\ managed[s] \in Memory /\ managed[s].private = managed[s].public
                   /\ files[s].public # None => files[s].public = managed[s].public
  /\ pc \in {"off", "register"} /\ (registered \/ server_keys # Nothing) =>
       "keys" \in torn[s] \/ (files[s].public # None /\ files[s].public = server_keys[s])
  /\ pc \in On => "keys" \in torn[s] \/ managed[s].public = server_keys[s]
  /\ pc = "initialize" => Waiting(s) \/ files[s].public = managed[s].public
  /\ pc \in {"idle", "metadata", "join"} => files[s].public = managed[s].public
Keyed ==
  /\ DOMAIN files = Secs /\ DOMAIN managed = Secs
  /\ \A s \in OfKind("kVirtual") : KeyedAt(s)

\* The image of a virtual secondary: expected, sent, stored and reported.
ImagedAt(s) ==
  /\ pc # "off" /\ managed[s].expected # None =>
       managed[s].targets # None /\ managed[s].targets.assign[s] = managed[s].expected
  /\ thread[s] = "writing" => managed[s].expected = updates[s] /\ files[s].name = updates[s]
  /\ thread[s] = "ok" => files[s].name = updates[s] /\ files[s].firmware = updates[s]
  /\ thread[s] # "writing" /\ files[s].name # None /\ files[s].firmware # None =>
       files[s].name = files[s].firmware \/ "firmware" \in torn[s]
Imaged == \A s \in OfKind("kVirtual") : ImagedAt(s)

\* What the other secondaries received.
ReceivedAt(s) ==
  /\ remote[s] \in Process /\ disk[s] \in Disk /\ repo[s] \in [AllFiles -> {"absent", "part", "whole"}]
  /\ disk[s].root # 0
  /\ remote[s].version <= director.targets.version
  /\ stored.targets # None => remote[s].version <= stored.targets.version
  /\ kind[s] = "kIpUptane" /\ remote[s].up /\ disk[s].root # None => remote[s].root = disk[s].root
  /\ kind[s] = "kOpcuaUptane" /\ remote[s].up /\ remote[s].received # 0 => "batch" \in torn[s]
  /\ kind[s] = "kOpcuaUptane" /\ ~remote[s].up /\ remote[s].received_meta_pack.root # None =>
       "batch" \in torn[s] \/ remote[s].received_meta_pack.root = remote[s].received_meta_pack.targets
  /\ \A f \in AllFiles : repo[s][f] = "part" => "file" \in torn[s]
Received ==
  /\ DOMAIN remote = Secs /\ DOMAIN disk = Secs /\ DOMAIN repo = Secs
  /\ \A s \in Secs : ReceivedAt(s)

SInv == Control /\ Directed /\ Keyed /\ Imaged /\ Received
-----------------------------------------------------------------------------
(* Orders and queues of secondaries. *)

\* Whatever order is chosen, every secondary of the set is visited.
LEMMA OrderVisitsAll ==
  ASSUME NEW S \in SUBSET Secs
  PROVE  /\ MapOrder(S) \in Orders(S)
         /\ \A o \in Orders(S) : o \in Seq(S) /\ \A s \in S : \E i \in 1..Len(o) : o[i] = s
<1>2. Cardinality(S) \in Nat /\ Orders(S) # {}
  BY FinitelyMany, Zenon
<1>3. MapOrder(S) \in Orders(S)
  BY <1>2, Zenon DEF MapOrder
<1>4. ASSUME NEW o \in Orders(S) PROVE o \in Seq(S) /\ \A s \in S : \E i \in 1..Len(o) : o[i] = s
  <2>1. o \in [1..Cardinality(S) -> S] /\ \A s \in S : \E i \in 1..Cardinality(S) : o[i] = s
    BY Zenon DEF Orders
  <2>2. o \in Seq(S) /\ Len(o) = Cardinality(S)
    BY <1>2, <2>1
  <2> QED  BY <2>1, <2>2, Zenon
<1> QED  BY <1>3, <1>4, Zenon

\* The rest of a queue: only its head is not waiting any more.
LEMMA TailWaits ==
  ASSUME todo \in Seq(Secs), todo # <<>>, todo' = Tail(todo)
  PROVE  /\ todo' \in Seq(Secs) /\ Head(todo) \in Secs /\ Waiting(Head(todo)) /\ Head(todo) = todo[1]
         /\ 1 \in 1..Len(todo)
         /\ \A i \in 1..Len(todo') : i + 1 \in 1..Len(todo) /\ todo'[i] = todo[i + 1]
         /\ \A s : Waiting(s) => s = Head(todo) \/ Waiting(s)'
<1>1. /\ todo' \in Seq(Secs) /\ Head(todo) \in Secs /\ Head(todo) = todo[1] /\ Len(todo) \in Nat /\ Len(todo) >= 1
      /\ Len(todo') = Len(todo) - 1 /\ \A i \in 1..(Len(todo) - 1) : todo'[i] = todo[i + 1]
  OBVIOUS
<1>2. ASSUME NEW s, Waiting(s), s # Head(todo) PROVE Waiting(s)'
  <2>1. PICK i \in 1..Len(todo) : todo[i] = s
    BY <1>2, Zenon DEF Waiting
  <2>2. i - 1 \in 1..(Len(todo) - 1) /\ (i - 1) + 1 = i
    BY <1>1, <1>2, <2>1
  <2>3. todo'[i - 1] = s
    BY <1>1, <2>1, <2>2, Zenon
  <2> QED  BY <1>1, <2>2, <2>3, Zenon DEF Waiting
<1> QED  BY <1>1, <1>2 DEF Waiting

-----------------------------------------------------------------------------
(* The threads. *)

\* The variables that say where the threads are, and their bounds.
Kept == UNCHANGED <<kind, pc, todo, thread, updates, saved>>
Counted == /\ lastKey' \in 0..MaxKey /\ mishaps' \in 0..MaxMishaps /\ cache' \subseteq Secs
           /\ torn' \in [Secs -> SUBSET {"keys", "firmware", "batch", "file"}]

LEMMA NothingIs == Nothing \in [Secs -> {None}]
<1> QED  BY Zenon DEF Nothing

LEMMA MishapCounts == ASSUME Control, Mishap \/ UNCHANGED mishaps PROVE mishaps' \in 0..MaxMishaps
<1>1. mishaps \in 0..MaxMishaps /\ MaxMishaps \in Nat
  BY SecondariesAssumption, Zenon DEF Control
<1> QED  BY <1>1 DEF Mishap

LEMMA TearCounts ==
  ASSUME Control, NEW s \in Secs, NEW what \in {"keys", "firmware", "batch", "file"}, Tear(s, what) \/ UNCHANGED torn
  PROVE  torn' \in [Secs -> SUBSET {"keys", "firmware", "batch", "file"}] /\ \A r \in Secs : torn[r] \subseteq torn'[r]
<1> QED  BY DEF Control, Tear

LEMMA ControlKept == ASSUME Control, Kept, Counted PROVE Control'
<1> QED  BY Zenon DEF Control, Kept, Counted, Waiting

\* A thread of sendFirmwareAsync goes on, or gives its answer.
LEMMA ControlThread ==
  ASSUME Control, Counted, UNCHANGED <<kind, pc, todo, updates, saved>>, NEW s \in Secs, thread[s] # None,
         NEW t \in {"writing", "ok", "failed"}, t = "writing" => thread[s] = "launched",
         thread[s] \in {"launched", "writing"}, thread' = [thread EXCEPT ![s] = t]
  PROVE  Control'
<1>1. thread' \in [Secs -> {None, "launched", "writing", "ok", "failed"}] /\ thread'[s] = t
      /\ \A r \in Secs \ {s} : thread'[r] = thread[r]
  BY Zenon DEF Control
<1>2. ASSUME NEW r \in Secs, thread'[r] # None PROVE pc' = "join" /\ updates'[r] # None
  BY <1>1, <1>2 DEF Control
<1>3. ASSUME NEW r \in Secs, pc' = "join", thread'[r] \in {"launched", "writing"} PROVE Waiting(r)'
  BY <1>1, <1>3 DEF Control, Waiting
<1> QED  BY <1>1, <1>2, <1>3, Zenon DEF Control, Counted

\* No threads: the main thread is elsewhere.
LEMMA ControlMain ==
  ASSUME Control, Counted, kind' = kind, pc' \in {"off", "register"} \cup On, pc' # "join", todo' \in Seq(Secs),
         pc' = "initialize" => \A i \in 1..Len(todo') : kind[todo'[i]] = "kVirtual",
         \A s \in Secs : thread[s] = None \/ thread' = Nothing, thread' \in {thread, Nothing},
         updates' \in [Secs -> Some(Images)], saved' = saved
  PROVE  Control'
<1>1. thread' \in [Secs -> {None, "launched", "writing", "ok", "failed"}] /\ \A s \in Secs : thread'[s] = None
  BY NothingIs DEF Control
<1> QED  BY <1>1, Zenon DEF Control, Counted

LEMMA ControlStep == Control /\ Directed /\ [Next]_vars => Control'
<1> SUFFICES ASSUME Control, Directed, [Next]_vars PROVE Control'
  OBVIOUS
<1>0. /\ lastKey \in 0..MaxKey /\ mishaps \in 0..MaxMishaps /\ cache \subseteq Secs /\ todo \in Seq(Secs)
      /\ torn \in [Secs -> SUBSET {"keys", "firmware", "batch", "file"}] /\ saved \in [Secs -> Some(Images)]
      /\ updates \in [Secs -> Some(Images)] /\ pc \in {"off", "register"} \cup On /\ MaxKey \in Nat
      /\ (pc # "join" => \A s \in Secs : thread[s] = None)
      /\ thread \in [Secs -> {None, "launched", "writing", "ok", "failed"}]
  BY SecondariesAssumption, Zenon DEF Control
<1>1. CASE UNCHANGED vars
  <2>1. Kept /\ Counted
    BY <1>0, <1>1, Zenon DEF vars, Kept, Counted
  <2> QED  BY <2>1, ControlKept, Zenon
<1>2. CASE Construct
  <2>1. /\ pc' = "register" /\ todo' = <<>> /\ thread' = Nothing /\ cache' = {} /\ lastKey' \in {lastKey, lastKey + 1}
        /\ lastKey' <= MaxKey /\ UNCHANGED <<kind, updates, saved, torn, mishaps>>
    BY <1>2, Zenon DEF Construct, primary
  <2>2. Counted
    BY <1>0, <2>1 DEF Counted
  <2> QED  BY <1>0, <2>1, <2>2, ControlMain DEF On
<1>3. CASE initEcuRegister
  <2>1. /\ pc = "register" /\ pc' = "initialize" /\ todo' = MapOrder(OfKind("kVirtual"))
        /\ UNCHANGED <<kind, updates, saved, thread, cache, lastKey, torn, mishaps>>
    BY <1>3, Zenon DEF initEcuRegister
  <2>2. OfKind("kVirtual") \in SUBSET Secs
    BY Zenon DEF OfKind
  <2>3. todo' \in Seq(OfKind("kVirtual"))
    BY <2>1, <2>2, OrderVisitsAll, Zenon
  <2>4. todo' \in Seq(Secs) /\ \A i \in 1..Len(todo') : kind[todo'[i]] = "kVirtual"
    BY <2>2, <2>3 DEF OfKind
  <2>5. Counted
    BY <1>0, <2>1, Zenon DEF Counted
  <2> QED  BY <1>0, <2>1, <2>4, <2>5, ControlMain, Zenon DEF On
<1>4. CASE Initialize
  <2>1. /\ pc = "initialize" /\ todo # <<>> /\ todo' \in {todo, Tail(todo)}
        /\ UNCHANGED <<kind, updates, pc, saved, thread, cache, lastKey, torn, mishaps>>
    BY <1>4, Zenon DEF Initialize, primary
  <2>2. todo' \in Seq(Secs) /\ \A i \in 1..Len(todo') : kind[todo'[i]] = "kVirtual"
    <3>1. \A i \in 1..Len(todo) : kind[todo[i]] = "kVirtual"
      BY <2>1, Zenon DEF Control
    <3>2. CASE todo' = Tail(todo)
      <4>1. todo' \in Seq(Secs) /\ \A i \in 1..Len(todo') : i + 1 \in 1..Len(todo) /\ todo'[i] = todo[i + 1]
        BY <1>0, <2>1, <3>2, TailWaits, Zenon
      <4> QED  BY <3>1, <4>1, Zenon
    <3> QED  BY <1>0, <2>1, <3>1, <3>2, Zenon
  <2>3. Counted
    BY <1>0, <2>1, Zenon DEF Counted
  <2> QED  BY <1>0, <2>1, <2>2, <2>3, ControlMain, Zenon DEF On
<1>5. CASE storeEcuRegistered
  <2>1. /\ pc = "initialize" /\ pc' = "idle"
        /\ UNCHANGED <<kind, updates, saved, todo, thread, cache, lastKey, torn, mishaps>>
    BY <1>5, Zenon DEF storeEcuRegistered
  <2>2. Counted
    BY <1>0, <2>1, Zenon DEF Counted
  <2> QED  BY <1>0, <2>1, <2>2, ControlMain, Zenon DEF On
<1>6. CASE Publish
  <2>1. Kept /\ Counted
    BY <1>0, <1>6, Zenon DEF Publish, primary, memory, Kept, Counted
  <2> QED  BY <2>1, ControlKept, Zenon
<1>7. CASE fetchMeta
  <2>1. /\ pc = "idle" /\ UNCHANGED <<kind, saved, pc, todo, thread, cache, lastKey, torn>>
        /\ updates' \in {getNewTargets(director.targets), updates} /\ (Mishap \/ UNCHANGED mishaps)
    BY <1>7, Zenon DEF fetchMeta, memory
  <2>2. getNewTargets(director.targets) \in [Secs -> Some(Images)]
    BY Zenon DEF getNewTargets, Directed, Tgt, Some
  <2>3. Counted
    BY <1>0, <2>1, MishapCounts, Zenon DEF Counted
  <2> QED  BY <1>0, <2>1, <2>2, <2>3, ControlMain, Zenon DEF On
<1>8. CASE Install
  <2>1. /\ pc = "idle" /\ pc' = "metadata" /\ UNCHANGED <<kind, updates, saved, thread, cache, lastKey, torn, mishaps>>
        /\ (todo' = <<>> \/ todo' \in Orders(Updated))
    BY <1>8, Zenon DEF Install, primary
  <2>2. Updated \in SUBSET Secs
    BY Zenon DEF Updated
  <2>3. todo' \in Seq(Secs)
    <3>1. \A o \in Orders(Updated) : o \in Seq(Updated)
      BY <2>2, OrderVisitsAll, Zenon
    <3>2. <<>> \in Seq(Secs) /\ \A o \in Seq(Updated) : o \in Seq(Secs)
      BY <2>2
    <3> QED  BY <2>1, <3>1, <3>2, Zenon
  <2>4. Counted
    BY <1>0, <2>1, Zenon DEF Counted
  <2> QED  BY <1>0, <2>1, <2>3, <2>4, ControlMain, Zenon DEF On
<1>9. ASSUME NEW s \in Secs, PutMetadata(s) PROVE Control'
  <2>1. /\ pc = "metadata" /\ todo # <<>> /\ todo' = Tail(todo)
        /\ UNCHANGED <<kind, updates, pc, saved, thread, lastKey>> /\ (cache' = cache \/ cache' = SelectEndPoint(s))
        /\ (Mishap \/ UNCHANGED mishaps) /\ (Tear(s, "batch") \/ UNCHANGED torn)
    <3>1. CASE putMetadataVirtual(s)
      BY <3>1, Zenon DEF putMetadataVirtual, Visited, primary
    <3>2. CASE putMetadataIp(s)
      BY <3>2, Zenon DEF putMetadataIp, Visited, primary, Asn1Rpc, Asn1RpcEmpty
    <3>3. CASE putMetadataOpcua(s)
      BY <3>3, Zenon DEF putMetadataOpcua, Visited, primary
    <3> QED  BY <1>9, <3>1, <3>2, <3>3, Zenon DEF PutMetadata
  <2>2. todo' \in Seq(Secs)
    BY <1>0, <2>1, TailWaits, Zenon
  <2>3. Counted
    <3>1. cache' \subseteq Secs
      BY <1>0, <2>1, Zenon DEF SelectEndPoint
    <3> QED  BY <1>0, <2>1, <3>1, MishapCounts, TearCounts, Zenon DEF Counted
  <2> QED  BY <1>0, <2>1, <2>2, <2>3, ControlMain, Zenon DEF On
<1>10. CASE sendImagesToEcus
  <2>1. /\ pc = "metadata" /\ pc' = "join" /\ todo' = MapOrder(Sendable)
        /\ thread' = [s \in Secs |-> IF s \in Sendable THEN "launched" ELSE None]
        /\ UNCHANGED <<kind, updates, saved, cache, lastKey, torn, mishaps>>
    BY <1>10, Zenon DEF sendImagesToEcus, primary
  <2>2. Sendable \in SUBSET Secs /\ \A s \in Sendable : updates[s] # None
    BY Zenon DEF Sendable, Updated
  <2>3. todo' \in Seq(Secs) /\ \A s \in Sendable : Waiting(s)'
    <3>1. todo' \in Seq(Sendable) /\ \A s \in Sendable : \E i \in 1..Len(todo') : todo'[i] = s
      <4>1. MapOrder(Sendable) \in Orders(Sendable)
        BY <2>2, OrderVisitsAll, Zenon
      <4>2. \A o \in Orders(Sendable) : o \in Seq(Sendable) /\ \A s \in Sendable : \E i \in 1..Len(o) : o[i] = s
        BY <2>2, OrderVisitsAll, Zenon
      <4> QED  BY <2>1, <4>1, <4>2, Zenon
    <3> QED  BY <2>2, <3>1 DEF Waiting
  <2>4. \A s \in Secs : (thread'[s] = "launched" /\ s \in Sendable) \/ thread'[s] = None
    BY <2>1, Zenon
  <2>5. thread' \in [Secs -> {None, "launched", "writing", "ok", "failed"}]
    BY <2>1, Zenon
  <2>6. \A s \in Secs : (thread'[s] # None => updates'[s] # None) /\ (thread'[s] \in {"launched", "writing"} => Waiting(s)')
    BY <2>1, <2>2, <2>3, <2>4, SecondariesAssumption, Zenon
  <2> QED  BY <1>0, <2>1, <2>3, <2>5, <2>6, Zenon DEF Control, On
<1>11. ASSUME NEW s \in Secs, Thread(s) PROVE Control'
  <2>1. /\ UNCHANGED <<kind, updates, pc, todo, saved, lastKey, cache>> /\ (Mishap \/ UNCHANGED mishaps)
        /\ Tear(s, "file") \/ UNCHANGED torn
    BY <1>11, Zenon DEF Thread, sendFirmwareVirtual, sendFirmwareIp, sendFirmwareOpcua, primary, Asn1Rpc, Asn1RpcEmpty
  <2>2. /\ thread[s] \in {"launched", "writing"}
        /\ \/ thread' = [thread EXCEPT ![s] = "writing"] /\ thread[s] = "launched"
           \/ \E t \in {"ok", "failed"} : thread' = [thread EXCEPT ![s] = t]
    <3>1. \A ok : Answer(s, ok) => \E t \in {"ok", "failed"} : thread' = [thread EXCEPT ![s] = t]
      BY Zenon DEF Answer
    <3> QED  BY <1>11, <3>1, Zenon DEF Thread, sendFirmwareVirtual, sendFirmwareIp, sendFirmwareOpcua
  <2>3. Counted
    BY <1>0, <2>1, MishapCounts, TearCounts, Zenon DEF Counted
  <2>4. PICK t \in {"writing", "ok", "failed"} : /\ thread' = [thread EXCEPT ![s] = t]
                                                 /\ t = "writing" => thread[s] = "launched"
    BY <2>2, Zenon
  <2>5. thread[s] # None
    BY <2>2, SecondariesAssumption, Zenon
  <2> QED  BY <2>1, <2>2, <2>3, <2>4, <2>5, ControlThread, Zenon
<1>12. ASSUME NEW s \in Secs, Join(s) PROVE Control'
  <2>1. /\ pc = "join" /\ todo # <<>> /\ s = Head(todo) /\ thread[s] \in {"ok", "failed"} /\ todo' = Tail(todo)
        /\ saved' = IF thread[s] = "ok" THEN [saved EXCEPT ![s] = updates[s]] ELSE saved
        /\ UNCHANGED <<kind, updates, pc, thread, cache, lastKey, torn, mishaps>>
    BY <1>12, Zenon DEF Join
  <2>2. saved' \in [Secs -> Some(Images)] /\ todo' \in Seq(Secs)
    BY <1>0, <2>1
  <2>3. ASSUME NEW r \in Secs, thread'[r] \in {"launched", "writing"} PROVE Waiting(r)'
    <3>1. Waiting(r) /\ r # Head(todo)
      BY <2>1, <2>3, Zenon DEF Control
    <3> QED  BY <1>0, <2>1, <3>1, TailWaits, Zenon
  <2> QED  BY <1>0, <2>1, <2>2, <2>3, Zenon DEF Control
<1>13. CASE AllInstallsComplete
  <2>1. /\ pc' = "idle" /\ thread' = Nothing /\ UNCHANGED <<kind, updates, todo, saved, cache, lastKey, torn, mishaps>>
    BY <1>13, Zenon DEF AllInstallsComplete, primary
  <2>2. Counted
    BY <1>0, <2>1, Zenon DEF Counted
  <2> QED  BY <1>0, <2>1, <2>2, ControlMain, Zenon DEF On
<1>14. CASE CrashPrimary
  <2>1. /\ pc' = "off" /\ todo' = <<>> /\ thread' = Nothing /\ cache' = {} /\ updates' = Nothing
        /\ UNCHANGED <<kind, saved, lastKey>> /\ Mishap
        /\ torn' = [s \in Secs |-> torn[s] \cup (IF thread[s] = "writing" THEN {"firmware"} ELSE {})
                       \cup (IF pc = "initialize" /\ kind[s] = "kVirtual" /\ files[s].public # managed[s].public
                             THEN {"keys"} ELSE {})]
    BY <1>14, Zenon DEF CrashPrimary, primary
  <2>2. torn' \in [Secs -> SUBSET {"keys", "firmware", "batch", "file"}]
    BY <1>0, <2>1, Zenon
  <2>3. Counted /\ updates' \in [Secs -> Some(Images)]
    BY <1>0, <2>1, <2>2, MishapCounts, NothingIs, Zenon DEF Counted, Some
  <2> QED  BY <1>0, <2>1, <2>3, ControlMain DEF On
<1>15. ASSUME NEW s \in Secs, CrashSecondary(s) \/ RestartSecondary(s) PROVE Control'
  <2>1. Kept /\ Counted
    BY <1>0, <1>15, MishapCounts, Zenon DEF CrashSecondary, RestartSecondary, primary, memory, Kept, Counted
  <2> QED  BY <2>1, ControlKept, Zenon
<1> QED
  BY <1>1, <1>2, <1>3, <1>4, <1>5, <1>6, <1>7, <1>8, <1>9, <1>10, <1>11, <1>12, <1>13, <1>14, <1>15, Zenon DEF Next, Main

-----------------------------------------------------------------------------
(* The metadata that the primary holds. *)

\* The rest of the steps: the metadata stays, and nothing is about to be sent
\* that was not before.
Undirected == /\ UNCHANGED <<director, stored>>
              /\ pc' = "metadata" /\ todo' # <<>> => pc = "metadata" /\ todo # <<>>

LEMMA DirectedKept == ASSUME Directed, Undirected PROVE Directed'
<1> QED  BY Zenon DEF Directed, Undirected

LEMMA DirectedSteps ==
  ASSUME Control, [Next]_vars
  PROVE  Undirected \/ Publish \/ fetchMeta \/ Install
<1>1. CASE UNCHANGED vars
  BY <1>1, Zenon DEF vars, Undirected
<1>2. CASE Construct \/ initEcuRegister \/ Initialize \/ storeEcuRegistered
  BY <1>2, Zenon DEF Construct, initEcuRegister, Initialize, storeEcuRegistered, primary, Undirected
<1>3. CASE sendImagesToEcus \/ AllInstallsComplete \/ CrashPrimary
  BY <1>3, Zenon DEF sendImagesToEcus, AllInstallsComplete, CrashPrimary, primary, Undirected
<1>4. ASSUME NEW s \in Secs, PutMetadata(s) PROVE Undirected
  <2>1. Visited /\ UNCHANGED <<director, stored, pc>>
    BY <1>4, Zenon DEF PutMetadata, putMetadataVirtual, putMetadataIp, putMetadataOpcua, primary
  <2> QED  BY <2>1, Zenon DEF Visited, Undirected
<1>5. ASSUME NEW s \in Secs, Join(s) PROVE Undirected
  BY <1>5, Zenon DEF Join, Undirected
<1>6. ASSUME NEW s \in Secs, Thread(s) PROVE Undirected
  BY <1>6, Zenon DEF Thread, sendFirmwareVirtual, sendFirmwareIp, sendFirmwareOpcua, primary, Undirected
<1>7. ASSUME NEW s \in Secs, CrashSecondary(s) \/ RestartSecondary(s) PROVE Undirected
  BY <1>7, Zenon DEF CrashSecondary, RestartSecondary, primary, memory, Undirected
<1> QED  BY <1>1, <1>2, <1>3, <1>4, <1>5, <1>6, <1>7, Zenon DEF Next, Main

\* Publish replaces the targets by newer ones, of a root that is not older.
LEMMA PublishIs ==
  ASSUME Directed, Publish
  PROVE  /\ director' \in [root : Nat, targets : Tgt] /\ director'.targets.root = director'.root /\ director'.root > 0
         /\ director'.targets.version = director.targets.version + 1 /\ director.targets.version \in Nat
         /\ UNCHANGED <<stored, pc, todo>>
<1>1. PICK r \in director.root..MaxRoot, a \in Assignments :
        director' = [root |-> r, targets |-> [root |-> r, version |-> director.targets.version + 1, assign |-> a]]
  BY Zenon DEF Publish
<1>2. director.root \in Nat /\ director.root > 0 /\ director.targets.version \in Nat
  BY Zenon DEF Directed, Tgt
<1>3. r \in Nat /\ r > 0 /\ director.targets.version + 1 \in Nat
  BY <1>2, SecondariesAssumption
<1>4. a \in [Secs -> Some(Images)]
  BY SecondariesAssumption, Zenon DEF Some
<1>5. UNCHANGED <<stored, pc, todo>>
  BY Zenon DEF Publish, primary, memory
<1> QED  BY <1>1, <1>2, <1>3, <1>4, <1>5, Zenon DEF Tgt

LEMMA DirectedStep == Control /\ Directed /\ [Next]_vars => Directed'
<1> SUFFICES ASSUME Control, Directed, [Next]_vars PROVE Directed'
  OBVIOUS
<1>1. CASE Undirected
  BY <1>1, DirectedKept, Zenon
<1>2. CASE Publish
  <2>1. /\ director' \in [root : Nat, targets : Tgt] /\ director'.targets.root = director'.root /\ director'.root > 0
        /\ director'.targets.version = director.targets.version + 1 /\ director.targets.version \in Nat
        /\ UNCHANGED <<stored, pc, todo>>
    BY <1>2, PublishIs, Zenon
  <2>2. stored.targets # None => stored.targets.version \in Nat
    BY Zenon DEF Directed, Tgt, Some
  <2> QED  BY <2>1, <2>2 DEF Directed
<1>3. CASE fetchMeta
  <2>1. /\ pc' = "idle" /\ director' = director
        /\ stored' = director \/ stored' = [root |-> director.root, targets |-> None]
    BY <1>3, Zenon DEF fetchMeta, memory
  <2>2. director.targets \in Tgt /\ director.targets.version \in Nat /\ director.root \in Nat
    BY Zenon DEF Directed, Tgt
  <2>3. CASE stored' = director
    BY <2>1, <2>2, <2>3 DEF Directed, Some
  <2>4. CASE stored' = [root |-> director.root, targets |-> None]
    BY <2>1, <2>2, <2>4, Zenon DEF Directed, Some
  <2> QED  BY <2>1, <2>3, <2>4, Zenon
<1>4. CASE Install
  BY <1>4, Zenon DEF Install, primary, Directed
<1> QED  BY <1>1, <1>2, <1>3, <1>4, DirectedSteps, Zenon

-----------------------------------------------------------------------------
(* What the operations of a virtual secondary do to its memory and files. *)

\* Whatever putRoot did, putMetadata leaves the metadata that was sent and,
\* since its targets are of its root, the image that it assigns.
LEMMA PutMetadataIs ==
  ASSUME NEW mem \in Memory, NEW s \in Secs, NEW pack \in [root : Nat, targets : Tgt], pack.targets.root = pack.root
  PROVE  LET new == putMetadata(rotateSecondaryRoot(mem, pack.root), pack, s)
         IN  /\ new \in Memory /\ new.private = mem.private /\ new.public = mem.public
             /\ new.targets = pack.targets /\ new.expected = pack.targets.assign[s]
<1> DEFINE rot == rotateSecondaryRoot(mem, pack.root)
           attack == pack.targets.assign[s] = None
<1>1. rot = mem \/ \E x, y : rot = [mem EXCEPT !.root = x, !.detected_attack = y]
  BY Zenon DEF rotateSecondaryRoot
<1>2. PICK x, y : rot = [private |-> mem.private, public |-> mem.public, root |-> x, targets |-> mem.targets,
                         expected |-> mem.expected, detected_attack |-> y]
  <2>1. mem = [private |-> mem.private, public |-> mem.public, root |-> mem.root, targets |-> mem.targets,
               expected |-> mem.expected, detected_attack |-> mem.detected_attack]
    BY Zenon DEF Memory
  <2>2. ASSUME NEW x, NEW y, rot = [mem EXCEPT !.root = x, !.detected_attack = y]
        PROVE  rot = [private |-> mem.private, public |-> mem.public, root |-> x, targets |-> mem.targets,
                      expected |-> mem.expected, detected_attack |-> y]
    BY <2>2, Zenon DEF Memory
  <2> HIDE DEF rot
  <2> QED  BY <1>1, <2>1, <2>2, Zenon
<1>3. pack.root \in Nat /\ pack.targets \in Tgt /\ pack.targets.assign[s] \in Some(Images) /\ attack \in BOOLEAN
  BY Zenon DEF Tgt
<1> HIDE DEF rot, attack
<1>4. putMetadata(rot, pack, s) =
        [private |-> mem.private, public |-> mem.public, root |-> pack.root, targets |-> pack.targets,
         expected |-> pack.targets.assign[s], detected_attack |-> attack]
  BY <1>2, Zenon DEF putMetadata, isConsistent, attack
<1>5. mem.private \in Nat /\ mem.public \in Nat
  BY Zenon DEF Memory
<1>6. putMetadata(rot, pack, s) \in Memory
  <2>1. pack.targets \in Some(Tgt)
    BY <1>3, Zenon DEF Some
  <2> QED  BY <1>3, <1>4, <1>5, <2>1 DEF Memory
<1> QED  BY <1>4, <1>6 DEF rot

LEMMA PutVirtual ==
  ASSUME Control, Directed, Keyed, NEW s \in Secs, putMetadataVirtual(s)
  PROVE  /\ s \in OfKind("kVirtual") /\ DOMAIN managed' = Secs /\ \A r \in Secs \ {s} : managed'[r] = managed[r]
         /\ managed'[s] \in Memory /\ managed'[s].private = managed[s].private /\ managed'[s].public = managed[s].public
         /\ stored.targets # None /\ managed'[s].targets = stored.targets
         /\ managed'[s].expected = stored.targets.assign[s]
<1>1. s \in OfKind("kVirtual") /\ pc = "metadata" /\ todo # <<>>
      /\ managed' = [managed EXCEPT ![s] = putMetadata(rotateSecondaryRoot(managed[s], stored.root), stored, s)]
  BY Zenon DEF putMetadataVirtual, Visited, OfKind
<1>2. managed[s] \in Memory /\ DOMAIN managed = Secs
  BY <1>1, Zenon DEF Keyed, KeyedAt
<1>3. stored \in [root : Nat, targets : Tgt] /\ stored.targets.root = stored.root /\ stored.targets # None
  BY <1>1, Zenon DEF Directed, Some
<1>4. managed'[s] = putMetadata(rotateSecondaryRoot(managed[s], stored.root), stored, s)
      /\ DOMAIN managed' = Secs /\ \A r \in Secs \ {s} : managed'[r] = managed[r]
  BY <1>1, <1>2, Zenon
<1>5. /\ managed'[s] \in Memory /\ managed'[s].private = managed[s].private /\ managed'[s].public = managed[s].public
      /\ managed'[s].targets = stored.targets /\ managed'[s].expected = stored.targets.assign[s]
  BY <1>2, <1>3, <1>4, PutMetadataIs
<1> QED  BY <1>1, <1>3, <1>4, <1>5, Zenon

\* A thread that sends to a virtual secondary: it is refused, its image is
\* the expected one and its name is written, or the image itself is written.
Refused(s) == /\ thread[s] = "launched" /\ files' = files /\ thread' = [thread EXCEPT ![s] = "failed"]
Named(s) == /\ thread[s] = "launched" /\ thread' = [thread EXCEPT ![s] = "writing"]
            /\ managed[s].expected = updates[s] /\ managed[s].expected # None
            /\ files' = [files EXCEPT ![s] = [private |-> files[s].private, public |-> files[s].public,
                                              name |-> updates[s], firmware |-> files[s].firmware]]
Written(s) == /\ thread[s] = "writing" /\ thread' = [thread EXCEPT ![s] = "ok"]
              /\ files' = [files EXCEPT ![s] = [private |-> files[s].private, public |-> files[s].public,
                                                name |-> files[s].name, firmware |-> updates[s]]]

LEMMA SendVirtual ==
  ASSUME Control, Keyed, NEW s \in Secs, sendFirmwareVirtual(s)
  PROVE  /\ s \in OfKind("kVirtual") /\ DOMAIN managed' = Secs /\ \A r \in Secs \ {s} : managed'[r] = managed[r]
         /\ managed'[s] \in Memory /\ managed'[s].private = managed[s].private /\ managed'[s].public = managed[s].public
         /\ managed'[s].targets = managed[s].targets /\ managed'[s].expected = managed[s].expected
         /\ Refused(s) \/ Named(s) \/ Written(s)
<1>1. s \in OfKind("kVirtual") /\ thread[s] \in {"launched", "writing"}
  BY Zenon DEF sendFirmwareVirtual, OfKind
<1>2. pc = "join" /\ updates[s] \in Images
  <2>1. thread[s] # None
    BY <1>1, SecondariesAssumption, Zenon
  <2> QED  BY <2>1, Zenon DEF Control, Some
<1>3. managed[s] \in Memory /\ files[s] \in FilesOf /\ DOMAIN managed = Secs /\ DOMAIN files = Secs
  BY <1>1, <1>2, Zenon DEF Keyed, KeyedAt
<1>4. files[s] = [private |-> files[s].private, public |-> files[s].public, name |-> files[s].name,
                  firmware |-> files[s].firmware]
  BY <1>3, Zenon DEF FilesOf
<1>5. CASE thread[s] = "launched"
  <2> DEFINE e == sendFirmware(managed[s], updates[s])
  <2>1. /\ managed' = [managed EXCEPT ![s] = e.mem]
        /\ IF e.ok THEN /\ files' = [files EXCEPT ![s] = storeName(files[s], managed[s])]
                        /\ thread' = [thread EXCEPT ![s] = "writing"]
           ELSE thread' = [thread EXCEPT ![s] = "failed"] /\ files' = files
    BY <1>5, Zenon DEF sendFirmwareVirtual, Answer
  <2>2. /\ e.ok \in BOOLEAN /\ (e.ok => managed[s].expected = updates[s] /\ managed[s].expected # None)
        /\ \/ e.mem = managed[s]
           \/ \E b \in BOOLEAN : e.mem = [managed[s] EXCEPT !.detected_attack = b]
    BY Zenon DEF sendFirmware
  <2>3. /\ e.mem \in Memory /\ e.mem.private = managed[s].private /\ e.mem.public = managed[s].public
        /\ e.mem.targets = managed[s].targets /\ e.mem.expected = managed[s].expected
    BY <1>3, <2>2, Zenon DEF Memory
  <2> HIDE DEF e
  <2>4. managed'[s] = e.mem /\ DOMAIN managed' = Secs /\ \A r \in Secs \ {s} : managed'[r] = managed[r]
    BY <1>3, <2>1, Zenon
  <2>5. CASE e.ok
    <3>1. storeName(files[s], managed[s]) = [private |-> files[s].private, public |-> files[s].public,
                                              name |-> updates[s], firmware |-> files[s].firmware]
      BY <1>3, <2>2, <2>5 DEF storeName, FilesOf
    <3>2. Named(s)
      BY <1>5, <2>1, <2>2, <2>5, <3>1, Zenon DEF Named
    <3> QED  BY <1>1, <2>3, <2>4, <3>2, Zenon
  <2>6. CASE ~e.ok
    <3>1. Refused(s)
      BY <1>5, <2>1, <2>6, Zenon DEF Refused
    <3> QED  BY <1>1, <2>3, <2>4, <3>1, Zenon
  <2> QED  BY <2>2, <2>5, <2>6, Zenon
<1>6. CASE thread[s] = "writing"
  <2>1. managed' = managed /\ files' = [files EXCEPT ![s] = storeContent(files[s], updates[s])]
        /\ thread' = [thread EXCEPT ![s] = "ok"]
    BY <1>6, Zenon DEF sendFirmwareVirtual, Answer
  <2>2. storeContent(files[s], updates[s]) = [private |-> files[s].private, public |-> files[s].public,
                                              name |-> files[s].name, firmware |-> updates[s]]
    BY <1>3 DEF storeContent, FilesOf
  <2>3. Written(s)
    BY <1>6, <2>1, <2>2, Zenon DEF Written
  <2> QED  BY <1>1, <1>3, <2>1, <2>3, Zenon
<1> QED  BY <1>1, <1>5, <1>6, Zenon

-----------------------------------------------------------------------------
(* The keys. *)

\* The keys stay where they are.
KeysStay ==
  /\ kind' = kind /\ DOMAIN files' = Secs /\ DOMAIN managed' = Secs /\ UNCHANGED <<registered, server_keys>>
  /\ \A s \in Secs : torn[s] \subseteq torn'[s]
  /\ \A s \in OfKind("kVirtual") :
       /\ files'[s] \in FilesOf /\ files'[s].private = files[s].private /\ files'[s].public = files[s].public
       /\ pc # "off" => /\ managed'[s] \in Memory /\ managed'[s].private = managed[s].private
                        /\ managed'[s].public = managed[s].public
  /\ \/ pc' = pc /\ (pc = "initialize" => todo' = todo)
     \/ pc \in {"idle", "metadata", "join"} /\ pc' \in {"idle", "metadata", "join"}

LEMMA KeyedKept == ASSUME Control, Keyed, KeysStay PROVE Keyed'
<1>1. OfKind("kVirtual")' = OfKind("kVirtual") /\ OfKind("kVirtual") \subseteq Secs
  BY Zenon DEF KeysStay, OfKind
<1>2. ASSUME NEW s \in OfKind("kVirtual") PROVE KeyedAt(s)'
  <2>1. KeyedAt(s) /\ s \in Secs
    BY <1>1, Zenon DEF Keyed
  <2>2. /\ files'[s] \in FilesOf /\ files'[s].private = files[s].private /\ files'[s].public = files[s].public
        /\ pc # "off" => /\ managed'[s] \in Memory /\ managed'[s].private = managed[s].private
                         /\ managed'[s].public = managed[s].public
        /\ torn[s] \subseteq torn'[s] /\ UNCHANGED <<registered, server_keys>>
    BY <2>1, Zenon DEF KeysStay
  <2>3. CASE pc' = pc /\ (pc = "initialize" => todo' = todo)
    BY <2>1, <2>2, <2>3, Zenon DEF KeyedAt, Waiting, On, Nothing
  <2>4. CASE pc \in {"idle", "metadata", "join"} /\ pc' \in {"idle", "metadata", "join"}
    BY <2>1, <2>2, <2>4, Zenon DEF KeyedAt, Waiting, On, Nothing
  <2> QED  BY <2>3, <2>4, Zenon DEF KeysStay
<1> QED  BY <1>1, <1>2, Zenon DEF Keyed, KeysStay

\* The steps after the registration leave the keys alone.
LEMMA KeyedSteps ==
  ASSUME Control, Directed, Keyed, [Next]_vars
  PROVE  KeysStay \/ Construct \/ initEcuRegister \/ Initialize \/ storeEcuRegistered \/ CrashPrimary
<1>0. /\ DOMAIN files = Secs /\ DOMAIN managed = Secs /\ torn \in [Secs -> SUBSET {"keys", "firmware", "batch", "file"}]
      /\ \A s \in OfKind("kVirtual") : files[s] \in FilesOf /\ (pc # "off" => managed[s] \in Memory) /\ s \in Secs
  BY Zenon DEF Keyed, KeyedAt, Control, OfKind
<1>1. ASSUME UNCHANGED <<kind, files, managed, registered, server_keys>>, \A s \in Secs : torn[s] \subseteq torn'[s],
             \/ pc' = pc /\ (pc = "initialize" => todo' = todo)
             \/ pc \in {"idle", "metadata", "join"} /\ pc' \in {"idle", "metadata", "join"}
      PROVE  KeysStay
  BY <1>0, <1>1, Zenon DEF KeysStay
<1>2. CASE UNCHANGED vars
  BY <1>1, <1>2, Zenon DEF vars
<1>3. CASE Publish \/ fetchMeta
  BY <1>1, <1>3, Zenon DEF Publish, fetchMeta, primary, memory
<1>4. CASE Install \/ sendImagesToEcus \/ AllInstallsComplete
  BY <1>1, <1>4, Zenon DEF Install, sendImagesToEcus, AllInstallsComplete, primary
<1>5. ASSUME NEW s \in Secs, putMetadataVirtual(s) PROVE KeysStay
  <2>1. pc = "metadata" /\ UNCHANGED <<kind, files, registered, server_keys, torn, pc>>
    BY <1>5, Zenon DEF putMetadataVirtual, Visited, primary
  <2>2. /\ DOMAIN managed' = Secs /\ \A r \in Secs \ {s} : managed'[r] = managed[r]
        /\ managed'[s] \in Memory /\ managed'[s].private = managed[s].private /\ managed'[s].public = managed[s].public
    BY <1>5, PutVirtual, Zenon
  <2> QED  BY <1>0, <2>1, <2>2, Zenon DEF KeysStay
<1>6. ASSUME NEW s \in Secs, putMetadataIp(s) \/ putMetadataOpcua(s) PROVE KeysStay
  <2>1. pc = "metadata" /\ UNCHANGED <<kind, files, managed, registered, server_keys, pc>>
    BY <1>6, Zenon DEF putMetadataIp, putMetadataOpcua, Visited, primary
  <2>2. Tear(s, "batch") \/ UNCHANGED torn
    BY <1>6, Zenon DEF putMetadataIp, putMetadataOpcua
  <2> QED  BY <1>1, <2>1, <2>2, TearCounts, Zenon
<1>7. ASSUME NEW s \in Secs, Join(s) PROVE KeysStay
  BY <1>1, <1>7, Zenon DEF Join
<1>8. ASSUME NEW s \in Secs, sendFirmwareVirtual(s) PROVE KeysStay
  <2>1. UNCHANGED <<kind, registered, server_keys, torn, pc, todo>>
    BY <1>8, Zenon DEF sendFirmwareVirtual, primary
  <2>2. /\ s \in OfKind("kVirtual") /\ DOMAIN managed' = Secs /\ \A r \in Secs \ {s} : managed'[r] = managed[r]
        /\ managed'[s] \in Memory /\ managed'[s].private = managed[s].private /\ managed'[s].public = managed[s].public
        /\ Refused(s) \/ Named(s) \/ Written(s)
    BY <1>8, SendVirtual, Zenon
  <2>3. files[s] \in FilesOf /\ updates[s] \in Some(Images)
    BY <1>0, <2>2, Zenon DEF Control
  <2>4. \A n, c \in Some(Images) : [private |-> files[s].private, public |-> files[s].public, name |-> n, firmware |-> c] \in FilesOf
    BY <2>3, Zenon DEF FilesOf
  <2>5. files[s].name \in Some(Images) /\ files[s].firmware \in Some(Images)
    BY <2>3, Zenon DEF FilesOf
  <2>6. /\ DOMAIN files' = Secs /\ \A r \in Secs \ {s} : files'[r] = files[r]
        /\ files'[s] \in FilesOf /\ files'[s].private = files[s].private /\ files'[s].public = files[s].public
    BY <1>0, <2>2, <2>3, <2>4, <2>5 DEF Refused, Named, Written
  <2> QED  BY <1>0, <2>1, <2>2, <2>6, Zenon DEF KeysStay
<1>9. ASSUME NEW s \in Secs, sendFirmwareIp(s) \/ sendFirmwareOpcua(s) PROVE KeysStay
  <2>1. UNCHANGED <<kind, files, managed, registered, server_keys, pc, todo>>
    BY <1>9, Zenon DEF sendFirmwareIp, sendFirmwareOpcua, primary
  <2>2. Tear(s, "file") \/ UNCHANGED torn
    BY <1>9, Zenon DEF sendFirmwareIp, sendFirmwareOpcua
  <2> QED  BY <1>1, <2>1, <2>2, TearCounts, Zenon
<1>10. ASSUME NEW s \in Secs, CrashSecondary(s) \/ RestartSecondary(s) PROVE KeysStay
  BY <1>1, <1>10, Zenon DEF CrashSecondary, RestartSecondary, primary, memory
<1> QED
  BY <1>2, <1>3, <1>4, <1>5, <1>6, <1>7, <1>8, <1>9, <1>10, Zenon DEF Next, Main, PutMetadata, Thread

\* Construct takes a pair from the files or makes one.
LEMMA KeyedConstruct == ASSUME Control, Keyed, Construct PROVE Keyed'
<1>0. /\ pc = "off" /\ pc' = "register" /\ UNCHANGED <<kind, files, server_keys, registered, torn>>
      /\ managed' = [s \in Secs |-> IF kind[s] = "kVirtual" THEN Constructed(files[s], lastKey + 1) ELSE None]
  BY Zenon DEF Construct, primary
<1>1. OfKind("kVirtual")' = OfKind("kVirtual") /\ lastKey + 1 \in Nat
  BY <1>0 DEF OfKind, Control
<1>2. ASSUME NEW s \in OfKind("kVirtual") PROVE KeyedAt(s)'
  <2>1. KeyedAt(s) /\ s \in Secs /\ kind[s] = "kVirtual" /\ files[s] \in FilesOf
    BY Zenon DEF Keyed, OfKind, KeyedAt
  <2>2. managed'[s] = Constructed(files[s], lastKey + 1)
    BY <1>0, <2>1, Zenon
  <2>3. files[s].private \in Some(Nat) /\ files[s].public \in Some(Nat)
    BY <2>1, Zenon DEF FilesOf
  <2>4. PICK k, p \in Nat : /\ managed'[s] = [private |-> p, public |-> k, root |-> 0, targets |-> None, expected |-> None,
                                              detected_attack |-> FALSE]
                            /\ k = p /\ (files[s].public # None => files[s].public = k)
    <3>1. CASE loadKeys(files[s])
      BY <2>1, <2>2, <2>3, <3>1, Zenon DEF Constructed, loadKeys, Some, KeyedAt
    <3>2. CASE ~loadKeys(files[s])
      <4>1. files[s].public = None
        BY <2>1, <3>2, Zenon DEF loadKeys, KeyedAt
      <4> QED  BY <1>1, <2>2, <3>2, <4>1, Zenon DEF Constructed
    <3> QED  BY <3>1, <3>2, Zenon
  <2>5. managed'[s] \in Memory
    BY <2>4 DEF Memory, Some
  <2> QED  BY <1>0, <2>1, <2>4, <2>5 DEF KeyedAt, On, Nothing
<1> QED  BY <1>0, <1>1, <1>2, Zenon DEF Keyed

\* The server learns the keys in memory, or knows those in the files.
LEMMA KeyedRegister == ASSUME Control, Keyed, initEcuRegister PROVE Keyed'
<1>0. /\ pc = "register" /\ pc' = "initialize" /\ UNCHANGED <<kind, files, managed, registered, torn>>
      /\ todo' = MapOrder(OfKind("kVirtual"))
      /\ server_keys' = IF registered \/ server_keys # Nothing THEN server_keys
                        ELSE [s \in Secs |-> IF kind[s] = "kVirtual" THEN managed[s].public ELSE s]
  BY Zenon DEF initEcuRegister
<1>1. OfKind("kVirtual")' = OfKind("kVirtual") /\ OfKind("kVirtual") \in SUBSET Secs
  BY <1>0, Zenon DEF OfKind
<1>2. ASSUME NEW s \in OfKind("kVirtual") PROVE KeyedAt(s)'
  <2>1. KeyedAt(s) /\ s \in Secs /\ kind[s] = "kVirtual"
    BY Zenon DEF Keyed, OfKind
  <2>2. Waiting(s)'
    BY <1>0, <1>1, OrderVisitsAll DEF Waiting
  <2>3. "keys" \in torn[s] \/ managed[s].public = server_keys'[s]
    <3>1. CASE registered \/ server_keys # Nothing
      BY <1>0, <2>1, <3>1, Zenon DEF KeyedAt
    <3>2. CASE ~(registered \/ server_keys # Nothing)
      BY <1>0, <2>1, <3>2, Zenon
    <3> QED  BY <3>1, <3>2, Zenon
  <2> QED  BY <1>0, <2>1, <2>2, <2>3, Zenon DEF KeyedAt, On
<1> QED  BY <1>0, <1>1, <1>2, Zenon DEF Keyed

\* Initialize writes one of the two files: the public key only next to the
\* private one.
LEMMA KeyedInitialize == ASSUME Control, Keyed, Initialize PROVE Keyed'
<1>a. PICK v : v = Head(todo)
  OBVIOUS
<1> DEFINE new == storeKeysStep(files[v], managed[v])
<1>0. /\ pc = "initialize" /\ todo # <<>> /\ UNCHANGED <<kind, pc, managed, server_keys, registered, torn>>
      /\ files' = [files EXCEPT ![v] = new]
      /\ todo' = IF files'[v].public = managed[v].public THEN Tail(todo) ELSE todo
  BY <1>a, Zenon DEF Initialize, primary
<1>1. OfKind("kVirtual")' = OfKind("kVirtual") /\ OfKind("kVirtual") \in SUBSET Secs
  BY <1>0, Zenon DEF OfKind
<1>2. todo \in Seq(Secs) /\ DOMAIN files = Secs /\ DOMAIN managed = Secs
  BY Zenon DEF Control, Keyed
<1>3. v \in Secs /\ kind[v] = "kVirtual" /\ v \in OfKind("kVirtual")
  <2>1. v \in Secs /\ v = todo[1] /\ 1 \in 1..Len(todo)
    BY <1>0, <1>2, <1>a
  <2> QED  BY <1>0, <2>1, Zenon DEF Control, OfKind
<1>4. KeyedAt(v) /\ managed[v] \in Memory /\ files[v] \in FilesOf /\ managed[v].private = managed[v].public
      /\ managed[v].public \in Nat
  BY <1>0, <1>3, Zenon DEF Keyed, KeyedAt, Memory
<1>5. /\ new \in FilesOf /\ (new.public # None => new.private = new.public)
      /\ (new.public # None => new.public = managed[v].public)
  <2>1. CASE files[v].private # managed[v].private
    <3>1. files[v].public = None
      BY <1>0, <1>4, <2>1, Zenon DEF KeyedAt
    <3>2. new = [files[v] EXCEPT !.private = managed[v].private]
      BY <2>1, Zenon DEF storeKeysStep
    <3> HIDE DEF new
    <3> QED  BY <1>4, <3>1, <3>2, Zenon DEF FilesOf, Some
  <2>2. CASE files[v].private = managed[v].private
    <3>1. new = [files[v] EXCEPT !.public = managed[v].public]
      BY <2>2, Zenon DEF storeKeysStep
    <3> HIDE DEF new
    <3> QED  BY <1>4, <2>2, <3>1, Zenon DEF FilesOf, Some
  <2> QED  BY <2>1, <2>2, Zenon
<1> HIDE DEF new
<1>6. files'[v] = new /\ \A s \in Secs \ {v} : files'[s] = files[s]
  BY <1>0, <1>2, <1>3, Zenon
<1>7. \A s \in Secs \ {v} : Waiting(s) => Waiting(s)'
  <2>1. CASE todo' = todo
    BY <2>1, Zenon DEF Waiting
  <2>2. CASE todo' = Tail(todo)
    BY <1>0, <1>2, <2>2, TailWaits, <1>a, Zenon
  <2> QED  BY <1>0, <2>1, <2>2, Zenon
<1>8. Waiting(v)' \/ files'[v].public = managed[v].public
  <2>1. ASSUME files'[v].public # managed[v].public PROVE Waiting(v)'
    <3>1. todo' = todo /\ v = todo[1] /\ 1 \in 1..Len(todo)
      BY <1>0, <1>2, <1>a, <2>1
    <3> QED  BY <3>1, Zenon DEF Waiting
  <2> QED  BY <2>1, Zenon
<1>9. ASSUME NEW s \in OfKind("kVirtual") PROVE KeyedAt(s)'
  <2>1. KeyedAt(s) /\ s \in Secs
    BY <1>1, Zenon DEF Keyed
  <2>2. CASE s = v
    BY <1>0, <1>4, <1>5, <1>6, <1>8, <2>2, Zenon DEF KeyedAt, On
  <2>3. CASE s # v
    BY <1>0, <1>6, <1>7, <2>1, <2>3, Zenon DEF KeyedAt, On
  <2> QED  BY <2>2, <2>3, Zenon
<1> QED  BY <1>0, <1>1, <1>2, <1>9, Zenon DEF Keyed

LEMMA KeyedStored == ASSUME Control, Keyed, storeEcuRegistered PROVE Keyed'
<1>0. pc = "initialize" /\ todo = <<>> /\ pc' = "idle" /\ UNCHANGED <<kind, files, managed, server_keys, torn>>
  BY Zenon DEF storeEcuRegistered
<1>1. OfKind("kVirtual")' = OfKind("kVirtual")
  BY <1>0, Zenon DEF OfKind
<1>2. ASSUME NEW s \in OfKind("kVirtual") PROVE KeyedAt(s)'
  <2>1. KeyedAt(s) /\ ~Waiting(s)
    BY <1>0 DEF Keyed, Waiting
  <2> QED  BY <1>0, <2>1, Zenon DEF KeyedAt, On
<1> QED  BY <1>0, <1>1, <1>2, Zenon DEF Keyed

\* A death leaves the key at the server in the files too, or it is recorded
\* that the keys were not stored.
LEMMA KeyedCrash == ASSUME Control, Keyed, CrashPrimary PROVE Keyed'
<1>0. /\ pc' = "off" /\ managed' = Nothing /\ UNCHANGED <<kind, files, server_keys, registered>>
      /\ torn' = [s \in Secs |-> torn[s] \cup (IF thread[s] = "writing" THEN {"firmware"} ELSE {})
                     \cup (IF pc = "initialize" /\ kind[s] = "kVirtual" /\ files[s].public # managed[s].public
                           THEN {"keys"} ELSE {})]
  BY Zenon DEF CrashPrimary, primary
<1>1. OfKind("kVirtual")' = OfKind("kVirtual")
  BY <1>0, Zenon DEF OfKind
<1>2. ASSUME NEW s \in OfKind("kVirtual") PROVE KeyedAt(s)'
  <2>1. KeyedAt(s) /\ s \in Secs /\ kind[s] = "kVirtual" /\ pc \in {"off", "register"} \cup On
    BY Zenon DEF Keyed, OfKind, Control
  <2>2. "keys" \in torn[s] => "keys" \in torn'[s]
    BY <1>0, <2>1, Zenon
  <2>3. pc = "initialize" /\ files[s].public # managed[s].public => "keys" \in torn'[s]
    BY <1>0, <2>1, Zenon
  <2>4. pc \in On => "keys" \in torn'[s] \/ (files[s].public = managed[s].public /\ files[s].public = server_keys[s])
    BY <2>1, <2>2, <2>3, Zenon DEF KeyedAt, On
  <2>5. pc \in On => managed[s].public # None
    BY <2>1, SecondariesAssumption, Zenon DEF KeyedAt, Memory, On
  <2> QED  BY <1>0, <2>1, <2>2, <2>4, <2>5, Zenon DEF KeyedAt, On, Nothing
<1> QED  BY <1>0, <1>1, <1>2, Zenon DEF Keyed, Nothing

LEMMA KeyedStep == Control /\ Directed /\ Keyed /\ [Next]_vars => Keyed'
<1> QED
  BY KeyedSteps, KeyedKept, KeyedConstruct, KeyedRegister, KeyedInitialize, KeyedStored, KeyedCrash, Zenon

\* The types of the secondaries do not change.
LEMMA KindStays == ASSUME [Next]_vars PROVE kind' = kind
<1>1. ASSUME NEW s \in Secs, PutMetadata(s) \/ Join(s) \/ CrashSecondary(s) \/ RestartSecondary(s) PROVE kind' = kind
  BY <1>1, Zenon DEF PutMetadata, putMetadataVirtual, putMetadataIp, putMetadataOpcua, Join, CrashSecondary, RestartSecondary
<1>2. ASSUME NEW s \in Secs, Thread(s) PROVE kind' = kind
  BY <1>2, Zenon DEF Thread, sendFirmwareVirtual, sendFirmwareIp, sendFirmwareOpcua
<1>3. CASE Construct \/ initEcuRegister \/ Initialize \/ storeEcuRegistered \/ sendImagesToEcus \/ AllInstallsComplete
  BY <1>3, Zenon DEF Construct, initEcuRegister, Initialize, storeEcuRegistered, sendImagesToEcus, AllInstallsComplete
<1>4. CASE fetchMeta \/ Install \/ Publish \/ CrashPrimary
  BY <1>4, Zenon DEF fetchMeta, Install, Publish, CrashPrimary
<1>5. CASE UNCHANGED vars
  BY <1>5, Zenon DEF vars
<1> QED  BY <1>1, <1>2, <1>3, <1>4, <1>5, Zenon DEF Next, Main

-----------------------------------------------------------------------------
(* The images. *)

\* The image of a secondary, its name and what is expected stay; its thread
\* stays too, or begins, or ends without a transfer.
ImageStays(s) ==
  /\ torn[s] \subseteq torn'[s] /\ files'[s].name = files[s].name /\ files'[s].firmware = files[s].firmware
  /\ pc' # "off" => /\ pc # "off" /\ managed'[s].expected = managed[s].expected
                    /\ managed'[s].targets = managed[s].targets
  /\ \/ thread'[s] = thread[s] /\ (thread[s] \in {"writing", "ok"} => updates'[s] = updates[s])
     \/ thread[s] # "writing" /\ thread'[s] \notin {"writing", "ok"}

LEMMA ImagedKept ==
  ASSUME Control', NEW s \in Secs, ImagedAt(s), ImageStays(s)
  PROVE  ImagedAt(s)'
<1>1. thread'[s] = "writing" => pc' # "off"
  <2>1. thread'[s] # None => pc' = "join"
    BY Zenon DEF Control
  <2> QED  BY <2>1, SecondariesAssumption, Zenon
<1> QED  BY <1>1, Zenon DEF ImagedAt, ImageStays

LEMMA ImagedPut ==
  ASSUME Control, Control', Directed, Keyed, NEW s \in Secs, ImagedAt(s), putMetadataVirtual(s)
  PROVE  ImagedAt(s)'
<1>1. /\ stored.targets # None /\ managed'[s].targets = stored.targets
      /\ managed'[s].expected = stored.targets.assign[s]
  BY PutVirtual, Zenon
<1>2. pc = "metadata" /\ pc' = pc /\ UNCHANGED <<thread, files, torn, updates>>
  BY Zenon DEF putMetadataVirtual, Visited
<1>3. thread[s] # "writing" /\ thread[s] # "ok"
  BY <1>2, SecondariesAssumption, Zenon DEF Control
<1> QED  BY <1>1, <1>2, <1>3, Zenon DEF ImagedAt

LEMMA ImagedSend ==
  ASSUME Control, Control', Keyed, NEW s \in Secs, ImagedAt(s), sendFirmwareVirtual(s)
  PROVE  ImagedAt(s)'
<1>1. /\ managed'[s].targets = managed[s].targets /\ managed'[s].expected = managed[s].expected
      /\ Refused(s) \/ Named(s) \/ Written(s)
  BY SendVirtual, Zenon
<1>2. UNCHANGED <<pc, torn, updates>>
  BY Zenon DEF sendFirmwareVirtual
<1>3. DOMAIN files = Secs /\ DOMAIN thread = Secs
  BY Zenon DEF Keyed, Control
<1>4. CASE Refused(s)
  <2>1. thread'[s] = "failed" /\ thread[s] = "launched" /\ files' = files
    BY <1>3, <1>4, Zenon DEF Refused
  <2> QED  BY <1>1, <1>2, <2>1, Zenon DEF ImagedAt
<1>5. CASE Named(s)
  <2>1. thread'[s] = "writing" /\ managed[s].expected = updates[s] /\ files'[s].name = updates[s]
    BY <1>3, <1>5, Zenon DEF Named
  <2> QED  BY <1>1, <1>2, <2>1, Zenon DEF ImagedAt
<1>6. CASE Written(s)
  <2>1. thread[s] = "writing" /\ thread'[s] = "ok" /\ files'[s].name = files[s].name /\ files'[s].firmware = updates[s]
    BY <1>3, <1>6, Zenon DEF Written
  <2> QED  BY <1>1, <1>2, <2>1, Zenon DEF ImagedAt
<1> QED  BY <1>1, <1>4, <1>5, <1>6, Zenon

LEMMA ImagedCrash ==
  ASSUME Control, NEW s \in Secs, ImagedAt(s), CrashPrimary
  PROVE  ImagedAt(s)'
<1>1. pc' = "off" /\ thread' = Nothing /\ files' = files
  BY Zenon DEF CrashPrimary
<1>2. torn[s] \subseteq torn'[s] /\ (thread[s] = "writing" => "firmware" \in torn'[s])
  BY Zenon DEF CrashPrimary
<1>3. thread'[s] = None /\ None # "writing" /\ None # "ok"
  BY <1>1, SecondariesAssumption, Zenon DEF Nothing
<1> QED  BY <1>1, <1>2, <1>3, Zenon DEF ImagedAt

\* Initialize writes keys.
LEMMA InitializeImages ==
  ASSUME Control, Keyed, Initialize, NEW s \in OfKind("kVirtual")
  PROVE  files'[s].name = files[s].name /\ files'[s].firmware = files[s].firmware
<1>1. PICK v : v = Head(todo)
  OBVIOUS
<1>2. files' = [files EXCEPT ![v] = storeKeysStep(files[v], managed[v])]
  BY <1>1, Zenon DEF Initialize
<1>3. files[s] \in FilesOf /\ s \in Secs /\ DOMAIN files = Secs
  BY Zenon DEF Keyed, KeyedAt, OfKind
<1>4. CASE s # v
  BY <1>2, <1>3, <1>4, Zenon
<1>5. CASE s = v
  <2>1. files'[s] = storeKeysStep(files[s], managed[s])
    BY <1>2, <1>3, <1>5, Zenon
  <2> QED  BY <1>3, <2>1, Zenon DEF storeKeysStep, FilesOf
<1> QED  BY <1>4, <1>5, Zenon

LEMMA ImagedStep ==
  Control /\ Control' /\ Directed /\ Keyed /\ Imaged /\ [Next]_vars => Imaged'
<1> SUFFICES ASSUME Control, Control', Directed, Keyed, Imaged, [Next]_vars PROVE Imaged'
  OBVIOUS
<1> SUFFICES ASSUME NEW s \in OfKind("kVirtual"), ImagedAt(s) PROVE ImagedAt(s)'
  <2>1. kind' = kind
    BY KindStays, Zenon
  <2> QED  BY <2>1, Zenon DEF Imaged, OfKind
<1>0. /\ s \in Secs /\ kind[s] = "kVirtual" /\ thread \in [Secs -> {None, "launched", "writing", "ok", "failed"}]
      /\ (pc # "join" => thread[s] = None) /\ None \notin {"launched", "writing", "ok", "failed"}
      /\ Nothing[s] = None
  BY SecondariesAssumption, Zenon DEF OfKind, Control, Nothing
<1>1. ImageStays(s) => ImagedAt(s)'
  BY <1>0, ImagedKept, Zenon
<1>2. CASE UNCHANGED vars
  BY <1>1, <1>2, Zenon DEF vars, ImageStays
<1>3. CASE Construct
  <2>1. pc = "off" /\ pc' = "register" /\ thread' = Nothing /\ UNCHANGED <<files, torn>>
    BY <1>3, Zenon DEF Construct
  <2>2. managed'[s] = Constructed(files[s], lastKey + 1)
    BY <1>0, <1>3, Zenon DEF Construct
  <2>3. managed'[s].expected = None
    BY <2>2 DEF Constructed
  <2> QED  BY <1>0, <2>1, <2>3, Zenon DEF ImagedAt
<1>4. CASE initEcuRegister \/ storeEcuRegistered
  BY <1>0, <1>1, <1>4, Zenon DEF initEcuRegister, storeEcuRegistered, ImageStays
<1>5. CASE Initialize
  <2>1. UNCHANGED <<pc, managed, thread, updates, torn>>
    BY <1>5, Zenon DEF Initialize
  <2> QED  BY <1>1, <1>5, <2>1, InitializeImages, Zenon DEF ImageStays
<1>6. CASE Publish \/ fetchMeta
  BY <1>0, <1>1, <1>6, Zenon DEF Publish, fetchMeta, memory, ImageStays
<1>7. CASE Install
  BY <1>0, <1>1, <1>7, Zenon DEF Install, ImageStays
<1>8. CASE sendImagesToEcus
  <2>1. thread'[s] \in {"launched", None} /\ pc = "metadata" /\ pc' = "join" /\ UNCHANGED <<managed, files, torn>>
    BY <1>0, <1>8, Zenon DEF sendImagesToEcus
  <2> QED  BY <1>0, <1>1, <2>1, Zenon DEF ImageStays
<1>9. CASE AllInstallsComplete
  <2>1. pc = "join" /\ todo = <<>> /\ pc' = "idle" /\ thread' = Nothing /\ UNCHANGED <<managed, files, torn>>
    BY <1>9, Zenon DEF AllInstallsComplete
  <2>2. thread[s] # "writing"
    BY <1>0, <2>1 DEF Control, Waiting
  <2> QED  BY <1>0, <1>1, <2>1, <2>2, Zenon DEF ImageStays
<1>10. CASE CrashPrimary
  BY <1>0, <1>10, ImagedCrash, Zenon
<1>11. ASSUME NEW q \in Secs, putMetadataVirtual(q) PROVE ImagedAt(s)'
  <2>1. CASE q = s
    BY <1>11, <2>1, ImagedPut, Zenon
  <2>2. CASE q # s
    <3>1. managed'[s] = managed[s]
      BY <1>0, <1>11, <2>2, PutVirtual, Zenon
    <3>2. UNCHANGED <<pc, thread, files, torn, updates>>
      BY <1>11, Zenon DEF putMetadataVirtual
    <3> QED  BY <1>1, <3>1, <3>2, <1>11, Zenon DEF ImageStays, putMetadataVirtual, Visited
  <2> QED  BY <2>1, <2>2, Zenon
<1>12. ASSUME NEW q \in Secs, putMetadataIp(q) \/ putMetadataOpcua(q) PROVE ImagedAt(s)'
  <2>1. UNCHANGED <<pc, thread, files, managed, updates>> /\ pc = "metadata"
    BY <1>12, Zenon DEF putMetadataIp, putMetadataOpcua, Visited
  <2>2. Tear(q, "batch") \/ UNCHANGED torn
    BY <1>12, Zenon DEF putMetadataIp, putMetadataOpcua
  <2>3. torn[s] \subseteq torn'[s]
    BY <1>0, <2>2, TearCounts, Zenon
  <2> QED  BY <1>1, <2>1, <2>3, Zenon DEF ImageStays
<1>13. ASSUME NEW q \in Secs, Join(q) PROVE ImagedAt(s)'
  BY <1>1, <1>13, Zenon DEF Join, ImageStays
<1>14. ASSUME NEW q \in Secs, sendFirmwareVirtual(q) PROVE ImagedAt(s)'
  <2>1. CASE q = s
    BY <1>14, <2>1, ImagedSend, Zenon
  <2>2. CASE q # s
    <3>1. managed'[s] = managed[s] /\ (Refused(q) \/ Named(q) \/ Written(q))
      BY <1>0, <1>14, <2>2, SendVirtual, Zenon
    <3>2. UNCHANGED <<pc, torn, updates>>
      BY <1>14, Zenon DEF sendFirmwareVirtual
    <3>3. files'[s] = files[s] /\ thread'[s] = thread[s]
      BY <1>0, <2>2, <3>1, Zenon DEF Refused, Named, Written, Keyed
    <3>4. pc # "off"
      BY <1>14, SecondariesAssumption, Zenon DEF sendFirmwareVirtual, Control
    <3> QED  BY <1>1, <3>1, <3>2, <3>3, <3>4, Zenon DEF ImageStays
  <2> QED  BY <2>1, <2>2, Zenon
<1>15. ASSUME NEW q \in Secs, sendFirmwareIp(q) \/ sendFirmwareOpcua(q) PROVE ImagedAt(s)'
  <2>1. UNCHANGED <<pc, files, managed, updates>> /\ kind[q] # "kVirtual" /\ thread[q] = "launched"
    BY <1>15, Zenon DEF sendFirmwareIp, sendFirmwareOpcua
  <2>2. Tear(q, "file") \/ UNCHANGED torn
    BY <1>15, Zenon DEF sendFirmwareIp, sendFirmwareOpcua
  <2>3. torn[s] \subseteq torn'[s]
    BY <1>0, <2>2, TearCounts, Zenon
  <2>4. \E ok : Answer(q, ok)
    BY <1>15, Zenon DEF sendFirmwareIp, sendFirmwareOpcua
  <2>5. thread'[s] = thread[s]
    BY <1>0, <2>1, <2>4, Zenon DEF Answer
  <2>6. pc # "off"
    BY <2>1, SecondariesAssumption, Zenon DEF Control
  <2> QED  BY <1>1, <2>1, <2>3, <2>5, <2>6, Zenon DEF ImageStays
<1>16. ASSUME NEW q \in Secs, CrashSecondary(q) \/ RestartSecondary(q) PROVE ImagedAt(s)'
  BY <1>1, <1>16, Zenon DEF CrashSecondary, RestartSecondary, memory, ImageStays
<1> QED
  BY <1>2, <1>3, <1>4, <1>5, <1>6, <1>7, <1>8, <1>9, <1>10, <1>11, <1>12, <1>13, <1>14, <1>15, <1>16, Zenon
  DEF Next, Main, PutMetadata, Thread

-----------------------------------------------------------------------------
(* What the operations of the other secondaries do. *)

\* A process that has just been started, and one that has ended.
LEMMA StartedIs ==
  ASSUME NEW d \in Disk
  PROVE  /\ Started(d) \in Process /\ Started(d).up /\ Started(d).version = -1 /\ Started(d).received = 0
         /\ d.root # None => Started(d).root = d.root
<1>1. 0 \in 0..MaxFds /\ (d.root # None => d.root \in Nat)
  BY SecondariesAssumption DEF Disk, Some
<1> QED  BY <1>1 DEF Started, kAcceptAll, Process, Pack, Some

LEMMA StoppedIs ==
  /\ Stopped \in Process /\ ~Stopped.up /\ Stopped.root = 0 /\ Stopped.version = -1 /\ Stopped.received = 0
  /\ Stopped.received_meta_pack.root = None
<1> DEFINE m == Started(EmptyStorage)
<1>1. m \in Process
  BY StartedIs, Zenon DEF EmptyStorage, Disk, Some
<1>2. m.root = 0 /\ m.version = -1 /\ m.received = 0 /\ m.received_meta_pack.root = None
  BY Zenon DEF Started, EmptyStorage, kAcceptAll
<1> HIDE DEF m
<1>3. Stopped = [m EXCEPT !.up = FALSE]
  BY Zenon DEF Stopped, m
<1> QED  BY <1>1, <1>2, <1>3, Zenon DEF Process

\* A connection is accepted, or the process ends.
LEMMA AcceptIs ==
  ASSUME NEW m \in Process, m.up
  PROVE  /\ Accept(m) \in Process
         /\ \/ Accept(m) = Stopped /\ ~Accept(m).up
            \/ Accept(m).up /\ Accept(m).root = m.root /\ Accept(m).version = m.version
<1>1. CASE m.fds < MaxFds
  <2>1. m.fds + 1 \in 0..MaxFds
    BY <1>1, SecondariesAssumption DEF Process
  <2>2. Accept(m) = [m EXCEPT !.fds = m.fds + 1]
    BY <1>1, Zenon DEF Accept
  <2> QED  BY <2>1, <2>2, Zenon DEF Process
<1>2. CASE ~(m.fds < MaxFds)
  BY <1>2, StoppedIs, Zenon DEF Accept
<1> QED  BY <1>1, <1>2, Zenon

\* Metadata that is not older than what the process has is taken whole, in
\* memory and in storage, or not at all.
LEMMA PutIp ==
  ASSUME Directed, stored.targets # None, NEW s \in Secs, NEW m \in Process, m.up, NEW d \in Disk,
         m.version <= stored.targets.version
  PROVE  LET r == HandleOneConnection(m, d, "putMetaReq", stored, s)
         IN  /\ r.mem \in Process
             /\ \/ r.mem = Stopped /\ r.disk = d
                \/ /\ r.mem.up /\ r.mem.root = stored.root /\ r.mem.version = stored.targets.version
                   /\ r.disk = [root |-> stored.root, version |-> stored.targets.version]
                   /\ Verifies(m.root, stored.root)
<1> DEFINE c == Accept(m)
           put == putMetadataResp(c, d, stored, s)
           r == HandleOneConnection(m, d, "putMetaReq", stored, s)
<1>1. /\ c \in Process
      /\ \/ c = Stopped /\ ~c.up
         \/ c.up /\ c.root = m.root /\ c.version = m.version
  BY AcceptIs, Zenon
<1>2. CASE ~c.up
  <2>1. c = Stopped
    BY <1>1, <1>2, Zenon
  <2>2. r = [mem |-> c, disk |-> d, ok |-> FALSE]
    BY <1>2, Zenon DEF HandleOneConnection
  <2>3. r.mem = Stopped /\ r.disk = d /\ r.mem \in Process
    <3> HIDE DEF c, r
    <3> QED  BY <2>1, <2>2, StoppedIs, Zenon
  <2> QED  BY <2>3, Zenon
<1>3. CASE c.up
  <2>0. c.root = m.root /\ c.version = m.version
    BY <1>1, <1>3, Zenon
  <2>1. r.mem = put.mem /\ r.disk = put.disk
    BY <1>3, Zenon DEF HandleOneConnection
  <2>2. /\ stored.root \in Nat /\ stored.targets.version \in Nat /\ stored.targets.assign[s] \in Some(Images)
        /\ m.version \in Int
    BY Zenon DEF Directed, Tgt, Some, Process
  <2>3. CASE ~Verifies(m.root, stored.root)
    <3>1. put = [mem |-> Stopped, disk |-> d]
      BY <2>0, <2>3, Zenon DEF putMetadataResp
    <3> QED  BY <2>1, <3>1, StoppedIs
  <2>4. CASE Verifies(m.root, stored.root)
    <3>1. ~(c.version > stored.targets.version)
      BY <2>0, <2>2
    <3>2. PICK i \in Some(Images) :
            put = [mem |-> [c EXCEPT !.root = stored.root, !.version = stored.targets.version, !.target = i],
                   disk |-> [root |-> stored.root, version |-> stored.targets.version]]
      <4>1. c.target \in Some(Images)
        BY <1>1, Zenon DEF Process
      <4>2. (IF stored.targets.assign[s] = None THEN c.target ELSE stored.targets.assign[s]) \in Some(Images)
        BY <2>2, <4>1, Zenon
      <4> HIDE DEF c
      <4> QED  BY <1>1, <2>0, <2>4, <3>1, <4>2, Zenon DEF putMetadataResp, Process
    <3> HIDE DEF c, put, r
    <3>3. put.mem \in Process /\ put.mem.up /\ put.mem.root = stored.root /\ put.mem.version = stored.targets.version
      <4>1. put.mem = [up |-> c.up, root |-> stored.root, version |-> stored.targets.version, target |-> i, fds |-> c.fds,
                       number |-> c.number, received |-> c.received, received_meta_pack |-> c.received_meta_pack]
        BY <1>1, <3>2, Zenon DEF Process
      <4> QED  BY <1>1, <1>3, <2>2, <4>1 DEF Process
    <3> QED  BY <2>1, <2>4, <3>2, <3>3, Zenon DEF r
  <2> QED  BY <2>3, <2>4, Zenon
<1> QED  BY <1>1, <1>2, <1>3, Zenon DEF Process

LEMMA SendIp ==
  ASSUME NEW s, NEW pack, NEW m \in Process, m.up, NEW d
  PROVE  LET r == HandleOneConnection(m, d, "sendFirmwareReq", pack, s)
         IN  /\ r.mem \in Process /\ r.disk = d
             /\ r.mem = Stopped \/ (r.mem.up /\ r.mem.root = m.root /\ r.mem.version = m.version)
<1>1. "sendFirmwareReq" # "putMetaReq"
  OBVIOUS
<1> QED  BY <1>1, AcceptIs, Zenon DEF HandleOneConnection

\* A file of a batch of two is counted: the first leaves the server running,
\* the second ends it.
LEMMA CountIs ==
  ASSUME NEW m \in Process, m.number = 2, NEW role \in {"root", "targets"}, NEW b \in Nat
  PROVE  LET c == countReceivedMetadataFile(m, role, b)
         IN  /\ c \in Process
             /\ c.received_meta_pack = [m.received_meta_pack EXCEPT ![role] = b]
             /\ IF m.received = 0 THEN c.up = m.up /\ c.received = 1 /\ c.number = 2 /\ c.version = m.version
                ELSE ~c.up /\ c.version = -1 /\ c.received = 0
<1> DEFINE pack == [m.received_meta_pack EXCEPT ![role] = b]
           c == countReceivedMetadataFile(m, role, b)
           got == [handleMetaDataFileReceived(m, role, b) EXCEPT !.received = m.received + 1]
<1>1. pack \in Pack /\ m.received \in 0..1
  BY Zenon DEF Process, Pack, Some
<1> HIDE DEF pack
<1>2. got = [up |-> m.up, root |-> m.root, version |-> m.version, target |-> m.target, fds |-> m.fds, number |-> m.number,
             received |-> m.received + 1, received_meta_pack |-> pack]
  <2>1. handleMetaDataFileReceived(m, role, b)
        = [up |-> m.up, root |-> m.root, version |-> m.version, target |-> m.target, fds |-> m.fds, number |-> m.number,
           received |-> m.received, received_meta_pack |-> pack]
    BY DEF handleMetaDataFileReceived, Process, pack
  <2> QED  BY <2>1
<1>3. c = IF got.received = m.number THEN handleAllMetaDataFilesReceived(got) ELSE got
  <2>1. [handleMetaDataFileReceived(m, role, b) EXCEPT !.received = @ + 1] = got
    BY Zenon DEF handleMetaDataFileReceived, Process
  <2> QED  BY <2>1, Zenon DEF countReceivedMetadataFile
<1> HIDE DEF got, c
<1>4. CASE m.received = 0
  <2>1. c = got /\ got.received = 1
    BY <1>2, <1>3, <1>4
  <2> QED  BY <1>1, <1>2, <1>4, <2>1 DEF Process, c, pack
<1>5. CASE m.received = 1
  <2>1. c = [Stopped EXCEPT !.received_meta_pack = pack]
    BY <1>2, <1>3, <1>5 DEF handleAllMetaDataFilesReceived
  <2>2. c \in Process /\ c.received_meta_pack = pack /\ ~c.up /\ c.version = -1 /\ c.received = 0
    BY <1>1, <2>1, StoppedIs, Zenon DEF Process
  <2> QED  BY <1>5, <2>2 DEF c, pack
<1> QED  BY <1>1, <1>4, <1>5

LEMMA AnnounceIs ==
  ASSUME NEW m \in Process, NEW n \in Nat
  PROVE  LET a == writeMetadataFiles(m, n)
         IN  /\ a \in Process /\ a.number = n /\ a.up = m.up /\ a.version = m.version /\ a.received = m.received
             /\ a.received_meta_pack = m.received_meta_pack
<1> QED  BY Zenon DEF writeMetadataFiles, Process

\* A whole batch ends the server, with a root and targets of that batch when
\* nothing had been counted before.
LEMMA WritesIs ==
  ASSUME Directed, stored.targets # None, NEW m \in Process, m.up, NEW n \in 0..3, NEW cancel \in BOOLEAN
  PROVE  LET w == Writes(m, n, cancel)
         IN  /\ w \in Process /\ w.version \in {m.version, -1}
             /\ n = 3 => ~w.up
             /\ n = 3 /\ m.received = 0 => w.received_meta_pack.root = w.received_meta_pack.targets
<1> DEFINE b == stored.targets.version
           announced == writeMetadataFiles(m, 2)
           one == countReceivedMetadataFile(announced, "root", b)
           two == countReceivedMetadataFile(one, "targets", b)
           got == CASE n = 0 -> m [] n = 1 -> announced [] n = 2 -> one [] OTHER -> IF one.up THEN two ELSE one
           w == Writes(m, n, cancel)
<1>1. b \in Nat /\ m.version \in Int /\ m.received \in 0..1
  BY Zenon DEF Directed, Tgt, Some, Process
<1>2. w = IF cancel /\ got.up /\ n < 3 THEN writeMetadataFiles(got, 0) ELSE got
  BY Zenon DEF Writes
<1>3. /\ announced \in Process /\ announced.number = 2 /\ announced.up /\ announced.version = m.version
      /\ announced.received = m.received /\ announced.received_meta_pack = m.received_meta_pack
  BY AnnounceIs, Zenon
<1> HIDE DEF announced, w
<1>4. /\ one \in Process /\ one.received_meta_pack = [m.received_meta_pack EXCEPT !.root = b]
      /\ IF m.received = 0 THEN one.up /\ one.received = 1 /\ one.number = 2 /\ one.version = m.version
         ELSE ~one.up /\ one.version = -1
  BY <1>1, <1>3, CountIs
<1> HIDE DEF one
<1>5. one.up => /\ two \in Process /\ two.received_meta_pack = [one.received_meta_pack EXCEPT !.targets = b]
                /\ ~two.up /\ two.version = -1
  <2> SUFFICES ASSUME one.up PROVE /\ two \in Process /\ two.received_meta_pack = [one.received_meta_pack EXCEPT !.targets = b]
                                   /\ ~two.up /\ two.version = -1
    OBVIOUS
  <2>1. one.number = 2 /\ one.received = 1 /\ one.received # 0 /\ one \in Process
    BY <1>4
  <2> QED  BY <1>1, <2>1, CountIs, Zenon
<1> HIDE DEF two, b
<1>6. /\ got \in Process /\ got.version \in {m.version, -1}
      /\ n = 3 => ~got.up
      /\ n = 3 /\ m.received = 0 => got.received_meta_pack.root = got.received_meta_pack.targets
  <2>1. CASE n = 3
    <3>1. got = IF one.up THEN two ELSE one
      BY <2>1
    <3>2. m.received = 0 => two.received_meta_pack.root = two.received_meta_pack.targets /\ one.up
      BY <1>3, <1>4, <1>5, Zenon DEF Process, Pack
    <3> HIDE DEF got
    <3> QED  BY <1>4, <1>5, <3>1, <3>2, Zenon
  <2>2. CASE n # 3
    <3>1. got \in {m, announced, one}
      BY <2>2
    <3> HIDE DEF got
    <3> QED  BY <1>3, <1>4, <2>2, <3>1, Zenon
  <2> QED  BY <2>1, <2>2, Zenon
<1> HIDE DEF got
<1>7. CASE cancel /\ got.up /\ n < 3
  <2>1. w = writeMetadataFiles(got, 0) /\ n # 3
    BY <1>2, <1>7
  <2>2. w \in Process /\ w.version = got.version
    BY <1>6, <2>1, AnnounceIs, Zenon
  <2> QED  BY <1>6, <2>1, <2>2, Zenon DEF w
<1>8. CASE ~(cancel /\ got.up /\ n < 3)
  BY <1>2, <1>6, <1>8, Zenon DEF w
<1> QED  BY <1>7, <1>8, Zenon

-----------------------------------------------------------------------------
(* What the other secondaries received. *)

\* A secondary that is not concerned, and metadata that only goes forward.
RemoteStays(s) == remote'[s] = remote[s] /\ disk'[s] = disk[s] /\ repo'[s] = repo[s] /\ torn[s] \subseteq torn'[s]
Forward ==
  /\ director'.targets.version >= director.targets.version
  /\ stored' = stored \/ stored'.targets = None \/ stored'.targets.version = director.targets.version
Extends(s) ==
  /\ DOMAIN remote' = Secs /\ DOMAIN disk' = Secs /\ DOMAIN repo' = Secs
  /\ \A r \in Secs \ {s} : RemoteStays(r)

LEMMA GoesForward == ASSUME Control, Directed, [Next]_vars PROVE Forward
<1>0. director.targets.version \in Nat
  BY Zenon DEF Directed, Tgt
<1>1. CASE Undirected
  BY <1>0, <1>1 DEF Undirected, Forward
<1>2. CASE Publish
  BY <1>0, <1>2, PublishIs DEF Forward
<1>3. CASE fetchMeta
  <2>1. director' = director /\ (stored' = director \/ stored' = [root |-> director.root, targets |-> None])
    BY <1>3, Zenon DEF fetchMeta
  <2> QED  BY <1>0, <2>1 DEF Forward
<1>4. CASE Install
  BY <1>0, <1>4 DEF Install, primary, Forward
<1> QED  BY <1>1, <1>2, <1>3, <1>4, DirectedSteps, Zenon

LEMMA ReceivedKept ==
  ASSUME Directed, Directed', Forward, kind' = kind, NEW s \in Secs, ReceivedAt(s), RemoteStays(s)
  PROVE  ReceivedAt(s)'
<1>1. remote[s].version \in Int /\ director.targets.version \in Nat /\ director'.targets.version \in Nat
  BY Zenon DEF Directed, Tgt, ReceivedAt, Process
<1>2. /\ remote'[s].version <= director'.targets.version
      /\ stored'.targets # None => remote'[s].version <= stored'.targets.version
  BY <1>1 DEF Forward, RemoteStays, ReceivedAt
<1> QED  BY <1>2, Zenon DEF ReceivedAt, RemoteStays

\* An IP secondary after a request: it has ended, or it has a version that is
\* not newer than the primary's and the root that it stored.
LEMMA ReceivedIp ==
  ASSUME Directed, NEW s \in Secs, ReceivedAt(s), kind[s] = "kIpUptane", UNCHANGED <<kind, director, stored>>,
         repo'[s] = repo[s], torn'[s] = torn[s], remote'[s] \in Process,
         \/ remote'[s] = Stopped /\ disk'[s] = disk[s]
         \/ remote[s].up /\ remote'[s].root = remote[s].root /\ remote'[s].version = remote[s].version /\ disk'[s] = disk[s]
         \/ /\ stored.targets # None /\ remote'[s].root = stored.root /\ remote'[s].version = stored.targets.version
            /\ disk'[s] = [root |-> stored.root, version |-> stored.targets.version]
  PROVE  ReceivedAt(s)'
<1>0. "kIpUptane" # "kOpcuaUptane" /\ director.targets.version \in Nat /\ stored.root \in Nat /\ stored.root > 0
  BY Zenon DEF Directed, Tgt
<1>1. stored.targets # None => stored.targets.version \in Nat /\ stored.targets.version <= director.targets.version
  BY Zenon DEF Directed, Tgt, Some
<1>2. CASE remote'[s] = Stopped /\ disk'[s] = disk[s]
  BY <1>0, <1>1, <1>2, StoppedIs DEF ReceivedAt
<1>3. CASE /\ remote[s].up /\ remote'[s].root = remote[s].root /\ remote'[s].version = remote[s].version
           /\ disk'[s] = disk[s]
  BY <1>0, <1>3, Zenon DEF ReceivedAt
<1>4. CASE /\ stored.targets # None /\ remote'[s].root = stored.root /\ remote'[s].version = stored.targets.version
           /\ disk'[s] = [root |-> stored.root, version |-> stored.targets.version]
  <2>1. disk'[s] \in Disk /\ disk'[s].root = stored.root
    BY <1>0, <1>1, <1>4 DEF Disk, Some
  <2> QED  BY <1>0, <1>1, <1>4, <2>1 DEF ReceivedAt
<1> QED  BY <1>2, <1>3, <1>4, Zenon

\* ... with one link of the chain of roots at a time.
LEMMA PutMetadataIpIs ==
  ASSUME Control, Directed, Received, NEW s \in Secs, putMetadataIp(s)
  PROVE  /\ ReceivedAt(s)' /\ Extends(s)
         /\ disk'[s].root # disk[s].root => disk[s].root = None \/ disk'[s].root = disk[s].root + 1
<1>1. /\ UNCHANGED <<kind, director, stored, repo, torn>> /\ kind[s] = "kIpUptane" /\ stored.targets # None
      /\ Asn1Rpc(s, "putMetaReq") \/ UNCHANGED <<remote, disk>>
  BY Zenon DEF putMetadataIp, primary, Visited, Directed, Asn1RpcEmpty
<1>2. /\ ReceivedAt(s) /\ remote[s] \in Process /\ disk[s] \in Disk /\ remote[s].version <= stored.targets.version
      /\ DOMAIN remote = Secs /\ DOMAIN disk = Secs /\ DOMAIN repo = Secs
  BY <1>1, Zenon DEF Received, ReceivedAt
<1>3. CASE UNCHANGED <<remote, disk>>
  BY <1>1, <1>2, <1>3, Zenon DEF ReceivedAt, Extends, RemoteStays
<1>4. CASE Asn1Rpc(s, "putMetaReq")
  <2> DEFINE a == HandleOneConnection(remote[s], disk[s], "putMetaReq", stored, s)
  <2>1. remote[s].up /\ remote' = [remote EXCEPT ![s] = a.mem] /\ disk' = [disk EXCEPT ![s] = a.disk]
    BY <1>4, Zenon DEF Asn1Rpc
  <2>2. /\ a.mem \in Process
        /\ \/ a.mem = Stopped /\ a.disk = disk[s]
           \/ /\ a.mem.up /\ a.mem.root = stored.root /\ a.mem.version = stored.targets.version
              /\ a.disk = [root |-> stored.root, version |-> stored.targets.version]
              /\ Verifies(remote[s].root, stored.root)
    BY <1>1, <1>2, <2>1, PutIp
  <2> HIDE DEF a
  <2>3. remote'[s] = a.mem /\ disk'[s] = a.disk /\ Extends(s)
    BY <1>1, <1>2, <2>1, Zenon DEF Extends, RemoteStays
  <2>4. ReceivedAt(s)'
    BY <1>1, <1>2, <2>2, <2>3, ReceivedIp, Zenon
  <2>5. ASSUME disk'[s].root # disk[s].root, disk[s].root # None PROVE disk'[s].root = disk[s].root + 1
    <3>1. disk'[s].root = stored.root /\ Verifies(remote[s].root, stored.root)
      BY <2>2, <2>3, <2>5
    <3>2. remote[s].root = disk[s].root /\ disk[s].root # 0
      BY <1>1, <1>2, <2>1, <2>5, Zenon DEF ReceivedAt
    <3> QED  BY <2>5, <3>1, <3>2, Zenon DEF Verifies, kAcceptAll
  <2> QED  BY <2>3, <2>4, <2>5, Zenon
<1> QED  BY <1>1, <1>3, <1>4, Zenon

LEMMA SendFirmwareIpIs ==
  ASSUME Control, Directed, Received, NEW s \in Secs, sendFirmwareIp(s)
  PROVE  ReceivedAt(s)' /\ Extends(s) /\ disk'[s] = disk[s]
<1>1. /\ UNCHANGED <<kind, director, stored, repo, torn>> /\ kind[s] = "kIpUptane"
      /\ Asn1Rpc(s, "sendFirmwareReq") \/ UNCHANGED <<remote, disk>>
  BY Zenon DEF sendFirmwareIp, primary, Asn1RpcEmpty
<1>2. /\ ReceivedAt(s) /\ remote[s] \in Process
      /\ DOMAIN remote = Secs /\ DOMAIN disk = Secs /\ DOMAIN repo = Secs
  BY <1>1, Zenon DEF Received, ReceivedAt
<1>3. CASE UNCHANGED <<remote, disk>>
  BY <1>1, <1>2, <1>3, Zenon DEF ReceivedAt, Extends, RemoteStays
<1>4. CASE Asn1Rpc(s, "sendFirmwareReq")
  <2> DEFINE a == HandleOneConnection(remote[s], disk[s], "sendFirmwareReq", stored, s)
  <2>1. remote[s].up /\ remote' = [remote EXCEPT ![s] = a.mem] /\ disk' = [disk EXCEPT ![s] = a.disk]
    BY <1>4, Zenon DEF Asn1Rpc
  <2>2. /\ a.mem \in Process /\ a.disk = disk[s]
        /\ a.mem = Stopped \/ (a.mem.up /\ a.mem.root = remote[s].root /\ a.mem.version = remote[s].version)
    BY <1>2, <2>1, SendIp
  <2> HIDE DEF a
  <2>3. remote'[s] = a.mem /\ disk'[s] = disk[s] /\ Extends(s)
    BY <1>1, <1>2, <2>1, <2>2, Zenon DEF Extends, RemoteStays
  <2>4. ReceivedAt(s)'
    BY <1>1, <1>2, <2>1, <2>2, <2>3, ReceivedIp, Zenon
  <2> QED  BY <2>3, <2>4, Zenon
<1> QED  BY <1>1, <1>3, <1>4, Zenon

\* The server counts the files of a batch, from zero unless one was cut short.
LEMMA PutMetadataOpcuaIs ==
  ASSUME Control, Directed, Received, NEW s \in Secs, putMetadataOpcua(s)
  PROVE  ReceivedAt(s)' /\ Extends(s)
<1>1. /\ UNCHANGED <<kind, director, stored, repo, disk>> /\ kind[s] = "kOpcuaUptane" /\ stored.targets # None
      /\ \/ UNCHANGED <<remote, torn>>
         \/ remote[s].up /\ remote' = [remote EXCEPT ![s] = Writes(remote[s], 3, FALSE)] /\ UNCHANGED torn
         \/ /\ remote[s].up /\ Tear(s, "batch")
            /\ \E n \in 0..2, cancel \in BOOLEAN : remote' = [remote EXCEPT ![s] = Writes(remote[s], n, cancel)]
  BY Zenon DEF putMetadataOpcua, primary, Visited, Directed
<1>2. /\ ReceivedAt(s) /\ remote[s] \in Process /\ remote[s].version <= stored.targets.version
      /\ stored.targets.version \in Nat /\ director.targets.version \in Nat /\ remote[s].version \in Int
      /\ DOMAIN remote = Secs /\ DOMAIN disk = Secs /\ DOMAIN repo = Secs /\ DOMAIN torn = Secs
  BY <1>1, Zenon DEF Received, ReceivedAt, Directed, Tgt, Some, Control, Process
<1>3. CASE UNCHANGED <<remote, torn>>
  BY <1>1, <1>2, <1>3, Zenon DEF ReceivedAt, Extends, RemoteStays
<1>4. CASE remote[s].up /\ remote' = [remote EXCEPT ![s] = Writes(remote[s], 3, FALSE)] /\ UNCHANGED torn
  <2>1. /\ remote'[s] \in Process /\ remote'[s].version \in {remote[s].version, -1} /\ ~remote'[s].up
        /\ remote[s].received = 0 => remote'[s].received_meta_pack.root = remote'[s].received_meta_pack.targets
    <3>1. remote'[s] = Writes(remote[s], 3, FALSE) /\ 3 \in 0..3
      BY <1>2, <1>4
    <3> QED  BY <1>1, <1>2, <1>4, <3>1, WritesIs, Zenon
  <2>2. remote[s].received # 0 => "batch" \in torn[s]
    BY <1>1, <1>2, <1>4, Zenon DEF ReceivedAt
  <2>3. Extends(s)
    BY <1>1, <1>2, <1>4, Zenon DEF Extends, RemoteStays
  <2>4. remote'[s].version <= director'.targets.version /\ remote'[s].version <= stored'.targets.version
    BY <1>1, <1>2, <2>1 DEF ReceivedAt
  <2>5. \/ "batch" \in torn'[s]
        \/ remote'[s].received_meta_pack.root = remote'[s].received_meta_pack.targets
    BY <1>4, <2>1, <2>2, Zenon
  <2> QED  BY <1>1, <1>2, <1>4, <2>1, <2>3, <2>4, <2>5, Zenon DEF ReceivedAt
<1>5. ASSUME remote[s].up, Tear(s, "batch"), NEW n \in 0..2, NEW cancel \in BOOLEAN,
             remote' = [remote EXCEPT ![s] = Writes(remote[s], n, cancel)]
      PROVE  ReceivedAt(s)' /\ Extends(s)
  <2>1. remote'[s] \in Process /\ remote'[s].version \in {remote[s].version, -1}
    <3>1. remote'[s] = Writes(remote[s], n, cancel) /\ n \in 0..3
      BY <1>2, <1>5
    <3> QED  BY <1>1, <1>2, <1>5, <3>1, WritesIs, Zenon
  <2>2. "batch" \in torn'[s] /\ torn[s] \subseteq torn'[s] /\ \A r \in Secs : torn[r] \subseteq torn'[r]
    BY <1>2, <1>5, Zenon DEF Tear
  <2>3. Extends(s)
    BY <1>1, <1>2, <1>5, <2>2, Zenon DEF Extends, RemoteStays
  <2> QED  BY <1>1, <1>2, <2>1, <2>2, <2>3 DEF ReceivedAt
<1> QED  BY <1>1, <1>3, <1>4, <1>5, Zenon

\* A synchronisation that succeeds leaves the files of the image there, whole
\* unless one was cut short.
LEMMA SendFirmwareOpcuaIs ==
  ASSUME Control, Directed, Received, NEW s \in Secs, sendFirmwareOpcua(s)
  PROVE  /\ ReceivedAt(s)' /\ Extends(s)
         /\ thread'[s] = "ok" => \A f \in RepoFiles(updates[s]) : repo'[s][f] = "whole" \/ "file" \in torn[s]
<1> DEFINE missing == MissingFiles(repo[s], RepoFiles(updates[s]))
<1>1. /\ UNCHANGED <<kind, director, stored, remote, disk>> /\ thread[s] = "launched"
      /\ \/ Answer(s, TRUE) /\ repo' = [repo EXCEPT ![s] = ClientWriteFile(repo[s], missing, {})] /\ UNCHANGED torn
         \/ Answer(s, FALSE) /\ UNCHANGED <<repo, torn>>
         \/ /\ Answer(s, FALSE) /\ Tear(s, "file")
            /\ \E whole \in SUBSET missing, part \in {{}} \cup {{f} : f \in missing} :
                 repo' = [repo EXCEPT ![s] = ClientWriteFile(repo[s], whole, part)]
  BY Zenon DEF sendFirmwareOpcua, primary
<1>2. /\ ReceivedAt(s) /\ repo[s] \in [AllFiles -> {"absent", "part", "whole"}] /\ DOMAIN torn = Secs /\ DOMAIN thread = Secs
      /\ DOMAIN remote = Secs /\ DOMAIN disk = Secs /\ DOMAIN repo = Secs
      /\ \A f \in AllFiles : repo[s][f] = "part" => "file" \in torn[s]
  BY Zenon DEF Received, ReceivedAt, Control
<1>3. RepoFiles(updates[s]) \subseteq AllFiles
  <2>1. updates[s] \in Images
    BY <1>1, SecondariesAssumption, Zenon DEF Control, Some
  <2> QED  BY <2>1, Zenon DEF RepoFiles, AllFiles
<1>4. ASSUME NEW whole, NEW part
      PROVE  /\ ClientWriteFile(repo[s], whole, part) \in [AllFiles -> {"absent", "part", "whole"}]
             /\ \A f \in AllFiles : ClientWriteFile(repo[s], whole, part)[f]
                                      = IF f \in whole THEN "whole" ELSE IF f \in part THEN "part" ELSE repo[s][f]
  BY <1>2, Zenon DEF ClientWriteFile
<1>5. CASE Answer(s, TRUE) /\ repo' = [repo EXCEPT ![s] = ClientWriteFile(repo[s], missing, {})] /\ UNCHANGED torn
  <2>1. /\ repo'[s] \in [AllFiles -> {"absent", "part", "whole"}]
        /\ \A f \in AllFiles : repo'[s][f] = IF f \in missing THEN "whole" ELSE repo[s][f]
    BY <1>2, <1>4, <1>5
  <2>2. \A f \in RepoFiles(updates[s]) : repo'[s][f] = "whole" \/ "file" \in torn[s]
    <3> SUFFICES ASSUME NEW f \in RepoFiles(updates[s]), f \notin missing PROVE repo'[s][f] = "whole" \/ "file" \in torn[s]
      BY <1>3, <2>1, Zenon
    <3>1. repo[s][f] # "absent" /\ f \in AllFiles
      BY <1>3, Zenon DEF MissingFiles
    <3>2. repo[s][f] \in {"part", "whole"} /\ repo'[s][f] = repo[s][f]
      BY <1>2, <2>1, <3>1, Zenon
    <3> QED  BY <1>2, <3>1, <3>2, Zenon
  <2>3. \A f \in AllFiles : repo'[s][f] = "part" => "file" \in torn[s]
    BY <1>2, <2>1, Zenon
  <2>4. Extends(s)
    BY <1>1, <1>2, <1>5, Zenon DEF Extends, RemoteStays
  <2> HIDE DEF missing
  <2> QED  BY <1>1, <1>2, <1>5, <2>1, <2>2, <2>3, <2>4, Zenon DEF ReceivedAt
<1>6. Answer(s, FALSE) => thread'[s] # "ok"
  BY <1>2, Zenon DEF Answer
<1>7. CASE Answer(s, FALSE) /\ UNCHANGED <<repo, torn>>
  BY <1>1, <1>2, <1>6, <1>7, Zenon DEF ReceivedAt, Extends, RemoteStays
<1>8. ASSUME Answer(s, FALSE), Tear(s, "file"), NEW whole, NEW part,
             repo' = [repo EXCEPT ![s] = ClientWriteFile(repo[s], whole, part)]
      PROVE  ReceivedAt(s)' /\ Extends(s) /\ thread'[s] # "ok"
  <2>1. repo'[s] \in [AllFiles -> {"absent", "part", "whole"}]
    BY <1>2, <1>4, <1>8, Zenon
  <2>2. "file" \in torn'[s] /\ \A r \in Secs : torn[r] \subseteq torn'[r]
    BY <1>2, <1>8, Zenon DEF Tear
  <2>3. Extends(s)
    BY <1>1, <1>2, <1>8, <2>2, Zenon DEF Extends, RemoteStays
  <2> QED  BY <1>1, <1>2, <1>6, <1>8, <2>1, <2>2, <2>3, Zenon DEF ReceivedAt
<1> QED  BY <1>1, <1>5, <1>6, <1>7, <1>8, Zenon

LEMMA DeathIs ==
  ASSUME Control, Directed, Received, NEW s \in Secs, CrashSecondary(s) \/ RestartSecondary(s)
  PROVE  ReceivedAt(s)' /\ Extends(s)
<1>1. UNCHANGED <<kind, director, stored, disk, torn>>
  BY Zenon DEF CrashSecondary, RestartSecondary, primary
<1>2. /\ ReceivedAt(s) /\ disk[s] \in Disk /\ director.targets.version \in Nat
      /\ DOMAIN remote = Secs /\ DOMAIN disk = Secs /\ DOMAIN repo = Secs
  BY Zenon DEF Received, ReceivedAt, Directed, Tgt
<1>3. stored.targets # None => stored.targets.version \in Nat
  BY Zenon DEF Directed, Tgt, Some
<1>4. CASE CrashSecondary(s)
  <2>1. remote' = [remote EXCEPT ![s] = Stopped] /\ repo' = repo
    BY <1>4, Zenon DEF CrashSecondary
  <2>2. remote'[s] = Stopped /\ Extends(s)
    BY <1>1, <1>2, <2>1, Zenon DEF Extends, RemoteStays
  <2> QED  BY <1>1, <1>2, <1>3, <2>1, <2>2, StoppedIs DEF ReceivedAt
<1>5. CASE RestartSecondary(s)
  <2>1. remote' = [remote EXCEPT ![s] = Started(disk[s])] /\ repo' = [repo EXCEPT ![s] = [f \in AllFiles |-> "absent"]]
    BY <1>5, Zenon DEF RestartSecondary
  <2>2. remote'[s] = Started(disk[s]) /\ repo'[s] = [f \in AllFiles |-> "absent"] /\ Extends(s)
    BY <1>1, <1>2, <2>1, Zenon DEF Extends, RemoteStays
  <2>3. /\ remote'[s] \in Process /\ remote'[s].up /\ remote'[s].version = -1 /\ remote'[s].received = 0
        /\ disk[s].root # None => remote'[s].root = disk[s].root
    BY <1>2, <2>2, StartedIs, Zenon
  <2> QED  BY <1>1, <1>2, <1>3, <2>2, <2>3 DEF ReceivedAt
<1> QED  BY <1>4, <1>5, Zenon

\* One secondary, of the right type, is concerned, or none is.
Contacted(s) ==
  putMetadataIp(s) \/ putMetadataOpcua(s) \/ sendFirmwareIp(s) \/ sendFirmwareOpcua(s)
  \/ CrashSecondary(s) \/ RestartSecondary(s)

LEMMA RemoteSteps ==
  ASSUME Control, [Next]_vars
  PROVE  \/ \E s \in Secs : Contacted(s)
         \/ UNCHANGED <<remote, disk, repo>> /\ \A s \in Secs : torn[s] \subseteq torn'[s]
<1>1. CASE UNCHANGED vars
  BY <1>1, Zenon DEF vars
<1>2. CASE Construct \/ initEcuRegister \/ Initialize \/ storeEcuRegistered \/ sendImagesToEcus \/ AllInstallsComplete
  BY <1>2, Zenon DEF Construct, initEcuRegister, Initialize, storeEcuRegistered, sendImagesToEcus, AllInstallsComplete, others
<1>3. CASE fetchMeta \/ Install \/ Publish
  BY <1>3, Zenon DEF fetchMeta, Install, Publish, others
<1>4. CASE CrashPrimary
  BY <1>4, Zenon DEF CrashPrimary, others
<1>5. ASSUME NEW s \in Secs, putMetadataVirtual(s) \/ Join(s) \/ sendFirmwareVirtual(s) PROVE UNCHANGED <<remote, disk, repo, torn>>
  BY <1>5, Zenon DEF putMetadataVirtual, Join, sendFirmwareVirtual, others
<1> QED  BY <1>1, <1>2, <1>3, <1>4, <1>5, Zenon DEF Next, Main, PutMetadata, Thread, Contacted

LEMMA ReceivedStep ==
  Control /\ Directed /\ Directed' /\ Received /\ [Next]_vars => Received'
<1> SUFFICES ASSUME Control, Directed, Directed', Received, [Next]_vars PROVE Received'
  OBVIOUS
<1>0. Forward /\ kind' = kind
  BY GoesForward, KindStays, Zenon
<1>1. \A r \in Secs : RemoteStays(r) => ReceivedAt(r)'
  BY <1>0, ReceivedKept, Zenon DEF Received
<1>2. ASSUME NEW s \in Secs, Contacted(s) PROVE Received'
  <2>1. ReceivedAt(s)' /\ Extends(s)
    BY <1>2, PutMetadataIpIs, SendFirmwareIpIs, PutMetadataOpcuaIs, SendFirmwareOpcuaIs, DeathIs, Zenon DEF Contacted
  <2>2. \A r \in Secs : ReceivedAt(r)'
    BY <1>1, <2>1, Zenon DEF Extends
  <2> QED  BY <2>1, <2>2, Zenon DEF Received, Extends
<1>3. CASE UNCHANGED <<remote, disk, repo>> /\ \A s \in Secs : torn[s] \subseteq torn'[s]
  <2>1. \A r \in Secs : RemoteStays(r)
    BY <1>3, Zenon DEF RemoteStays
  <2> QED  BY <1>1, <1>3, <2>1, Zenon DEF Received
<1> QED  BY <1>2, <1>3, RemoteSteps, Zenon

-----------------------------------------------------------------------------
(* The inductive invariant. *)

LEMMA SInvInit == Init => SInv
<1> SUFFICES ASSUME Init PROVE SInv
  OBVIOUS
<1>1. Control
  <2>1. /\ pc = "off" /\ todo = <<>> /\ thread \in [Secs -> {None}] /\ updates \in [Secs -> {None}]
        /\ saved \in [Secs -> {None}] /\ cache = {} /\ lastKey = 0 /\ mishaps = 0 /\ torn = [s \in Secs |-> {}]
        /\ kind \in Fleets
    BY NothingIs, Zenon DEF Init
  <2>2. 0 \in 0..MaxKey /\ 0 \in 0..MaxMishaps /\ kind \in [Secs -> {"kVirtual", "kIpUptane", "kOpcuaUptane"}]
    BY <2>1, SecondariesAssumption
  <2> QED  BY <2>1, <2>2 DEF Control, On, Some
<1>2. Directed
  <2>1. PICK a \in Assignments : director = [root |-> 1, targets |-> [root |-> 1, version |-> 1, assign |-> a]]
    BY Zenon DEF Init
  <2>2. a \in [Secs -> Some(Images)]
    BY SecondariesAssumption, Zenon DEF Some
  <2>3. stored = [root |-> 1, targets |-> None] /\ pc = "off"
    BY Zenon DEF Init
  <2> QED  BY <2>1, <2>2, <2>3 DEF Directed, Tgt, Some
<1>3. Keyed /\ Imaged
  <2>1. /\ pc = "off" /\ files = [s \in Secs |-> NoFiles] /\ managed = Nothing /\ thread = Nothing
        /\ server_keys = Nothing /\ registered = FALSE
    BY Zenon DEF Init
  <2>2. NoFiles \in FilesOf /\ NoFiles.public = None /\ NoFiles.name = None
    BY Zenon DEF NoFiles, FilesOf, Some
  <2>3. DOMAIN managed = Secs /\ \A s \in Secs : files[s] = NoFiles /\ thread[s] = None
    BY <2>1, Zenon DEF Nothing
  <2>4. None # "writing" /\ None # "ok"
    BY SecondariesAssumption, Zenon
  <2>5. ASSUME NEW s \in OfKind("kVirtual") PROVE KeyedAt(s) /\ ImagedAt(s)
    BY <2>1, <2>2, <2>3, <2>4, Zenon DEF KeyedAt, ImagedAt, OfKind, On
  <2> QED  BY <2>1, <2>3, <2>5, Zenon DEF Keyed, Imaged
<1>4. Received
  <2>1. /\ remote = [s \in Secs |-> IF kind[s] = "kVirtual" THEN Stopped ELSE Started(EmptyStorage)]
        /\ disk = [s \in Secs |-> EmptyStorage] /\ repo = [s \in Secs |-> [f \in AllFiles |-> "absent"]]
        /\ stored.targets = None /\ director.targets.version = 1
    BY DEF Init
  <2>2. EmptyStorage \in Disk /\ EmptyStorage.root = None /\ None # 0
    BY SecondariesAssumption DEF EmptyStorage, Disk, Some
  <2>3. ASSUME NEW s \in Secs PROVE ReceivedAt(s)
    <3>1. disk[s] = EmptyStorage /\ repo[s] = [f \in AllFiles |-> "absent"]
      BY <2>1, Zenon
    <3>2. CASE kind[s] = "kVirtual"
      <4>1. remote[s] = Stopped
        BY <2>1, <3>2, Zenon
      <4> QED  BY <2>1, <2>2, <3>1, <3>2, <4>1, StoppedIs DEF ReceivedAt
    <3>3. CASE kind[s] # "kVirtual"
      <4>1. remote[s] = Started(EmptyStorage)
        BY <2>1, <3>3, Zenon
      <4>2. remote[s] \in Process /\ remote[s].up /\ remote[s].version = -1 /\ remote[s].received = 0
        BY <2>2, <4>1, StartedIs, Zenon
      <4> QED  BY <2>1, <2>2, <3>1, <4>2 DEF ReceivedAt
    <3> QED  BY <3>2, <3>3, Zenon
  <2> QED  BY <2>1, <2>3, Zenon DEF Received
<1> QED  BY <1>1, <1>2, <1>3, <1>4, Zenon DEF SInv

LEMMA SInvStep == SInv /\ [Next]_vars => SInv'
<1> QED  BY ControlStep, DirectedStep, KeyedStep, ImagedStep, ReceivedStep, Zenon DEF SInv

LEMMA SInvHolds == Spec => []SInv
<1> QED  BY SInvInit, SInvStep, PTL DEF Spec

-----------------------------------------------------------------------------
(* The theorems. *)

\* Type correctness, with the bound of the descriptors that the connections of
\* SocketServer::Run take: the process ends before it runs out of them.
THEOREM TypeCorrect == Spec => []TypeOK
<1>1. SInv => TypeOK
  <2> SUFFICES ASSUME SInv PROVE TypeOK
    OBVIOUS
  <2>1. \A s \in Secs : remote[s].fds \in 0..MaxFds /\ remote[s].received \in 0..1
    BY Zenon DEF SInv, Received, ReceivedAt, Process
  <2> QED  BY <2>1, Zenon DEF SInv, TypeOK, Control, On, Some
<1> QED  BY <1>1, SInvHolds, PTL

\* Wherever the process of the primary dies between the POST of the ECUs, the
\* two files of storeKeys and the flag in the storage, the halves of a virtual
\* secondary's key belong together, and it signs with the key that the server
\* knows unless that death fell between the POST and the files.
THEOREM KeysAreKnown == Spec => []KeysKnown
<1>1. SInv => KeysKnown
  <2> SUFFICES ASSUME SInv, NEW s \in OfKind("kVirtual")
               PROVE  /\ loadKeys(files[s]) => files[s].private = files[s].public
                      /\ pc \in {"idle", "metadata", "join"} => managed[s].public = server_keys[s] \/ "keys" \in torn[s]
    BY Zenon DEF KeysKnown, PairMatches, ServerKnowsKey
  <2> QED  BY Zenon DEF SInv, Keyed, KeyedAt, loadKeys, On
<1> QED  BY <1>1, SInvHolds, PTL

\* The manifest of a virtual secondary: two files that were written together.
LEMMA ManifestOf == SInv => ManifestMatches
<1> SUFFICES ASSUME SInv, NEW s \in OfKind("kVirtual"), thread[s] # "writing"
             PROVE  LET m == getFirmwareInfo(files[s])
                    IN  m.name = "noimage" \/ m.name = m.hash \/ "firmware" \in torn[s]
  BY Zenon DEF ManifestMatches
<1>1. files[s].name # None /\ files[s].firmware # None => files[s].name = files[s].firmware \/ "firmware" \in torn[s]
  BY Zenon DEF SInv, Imaged, ImagedAt
<1> QED  BY <1>1, Zenon DEF getFirmwareInfo

\* The firmware of a virtual secondary is written by its thread alone.
LEMMA FirmwareSteps ==
  ASSUME SInv, [Next]_vars, NEW s \in OfKind("kVirtual"), files'[s].firmware # files[s].firmware
  PROVE  files'[s].firmware = managed[s].targets.assign[s]
<1>0. Control /\ Keyed /\ ImagedAt(s) /\ s \in Secs /\ DOMAIN files = Secs
  BY Zenon DEF SInv, Imaged, OfKind, Keyed
<1>1. CASE Initialize
  BY <1>0, <1>1, InitializeImages, Zenon
<1>2. ASSUME NEW q \in Secs, sendFirmwareVirtual(q) PROVE files'[s].firmware = managed[s].targets.assign[s]
  <2>1. Refused(q) \/ Named(q) \/ Written(q)
    BY <1>0, <1>2, SendVirtual, Zenon
  <2>2. Written(q) /\ q = s
    BY <1>0, <2>1 DEF Refused, Named, Written
  <2>3. thread[s] = "writing" /\ files'[s].firmware = updates[s] /\ updates[s] # None
    BY <1>0, <2>2, SecondariesAssumption, Zenon DEF Written, Control
  <2>4. managed[s].expected = updates[s] /\ pc # "off"
    BY <1>0, <2>3, SecondariesAssumption, Zenon DEF ImagedAt, Control
  <2> QED  BY <1>0, <2>3, <2>4, Zenon DEF ImagedAt
<1>3. ASSUME NEW q \in Secs,
             PutMetadata(q) \/ Join(q) \/ sendFirmwareIp(q) \/ sendFirmwareOpcua(q) \/ CrashSecondary(q) \/ RestartSecondary(q)
      PROVE  UNCHANGED files
  BY <1>3, Zenon DEF PutMetadata, putMetadataVirtual, putMetadataIp, putMetadataOpcua, Join, sendFirmwareIp, sendFirmwareOpcua,
              CrashSecondary, RestartSecondary
<1>4. CASE Construct \/ initEcuRegister \/ storeEcuRegistered \/ sendImagesToEcus \/ AllInstallsComplete
  BY <1>4, Zenon DEF Construct, initEcuRegister, storeEcuRegistered, sendImagesToEcus, AllInstallsComplete
<1>5. CASE fetchMeta \/ Install \/ Publish \/ CrashPrimary
  BY <1>5, Zenon DEF fetchMeta, Install, Publish, CrashPrimary
<1>6. CASE UNCHANGED vars
  BY <1>6, Zenon DEF vars
<1> QED  BY <1>1, <1>2, <1>3, <1>4, <1>5, <1>6, Zenon DEF Next, Main, Thread

\* Versions are saved when a future is joined.
LEMMA SavedSteps ==
  ASSUME SInv, [Next]_vars, NEW s \in OfKind("kVirtual"), saved'[s] # saved[s]
  PROVE  files[s].name = saved'[s] /\ files[s].firmware = saved'[s]
<1>0. Control /\ ImagedAt(s) /\ s \in Secs /\ DOMAIN saved = Secs
  BY Zenon DEF SInv, Imaged, OfKind, Control
<1>1. ASSUME NEW q \in Secs, Join(q) PROVE files[s].name = saved'[s] /\ files[s].firmware = saved'[s]
  <2>1. saved' = IF thread[q] = "ok" THEN [saved EXCEPT ![q] = updates[q]] ELSE saved
    BY <1>1, Zenon DEF Join
  <2>2. thread[s] = "ok" /\ saved'[s] = updates[s]
    BY <1>0, <2>1, Zenon
  <2> QED  BY <1>0, <2>2, Zenon DEF ImagedAt
<1>2. ASSUME NEW q \in Secs, PutMetadata(q) \/ Thread(q) \/ CrashSecondary(q) \/ RestartSecondary(q) PROVE UNCHANGED saved
  BY <1>2, Zenon DEF PutMetadata, putMetadataVirtual, putMetadataIp, putMetadataOpcua, Thread, sendFirmwareVirtual, sendFirmwareIp,
              sendFirmwareOpcua, CrashSecondary, RestartSecondary, primary
<1>3. CASE Construct \/ initEcuRegister \/ Initialize \/ storeEcuRegistered \/ sendImagesToEcus \/ AllInstallsComplete
  BY <1>3, Zenon DEF Construct, initEcuRegister, Initialize, storeEcuRegistered, sendImagesToEcus, AllInstallsComplete, primary
<1>4. CASE fetchMeta \/ Install \/ Publish \/ CrashPrimary
  BY <1>4, Zenon DEF fetchMeta, Install, Publish, CrashPrimary, primary
<1>5. CASE UNCHANGED vars
  BY <1>5, Zenon DEF vars
<1> QED  BY <1>1, <1>2, <1>3, <1>4, <1>5, Zenon DEF Next, Main

\* What a virtual secondary stores is what the Director assigned to it in the
\* metadata it holds (sendFirmware compares, storeFirmware writes), its
\* manifest gives the image and its hash alike, and the primary saves a
\* version only for an image that is stored: whichever check Install is
\* called with, in whatever order the threads of sendFirmwareAsync answer, and
\* wherever the process dies.
THEOREM StoredRight == Spec => StoredAsDirected
<1>1. SInv /\ [Next]_vars => [\A s \in OfKind("kVirtual") :
        files'[s].firmware # files[s].firmware => files'[s].firmware = managed[s].targets.assign[s]]_vars
  BY FirmwareSteps, Zenon
<1>2. SInv /\ [Next]_vars => [\A s \in OfKind("kVirtual") :
        saved'[s] # saved[s] => files[s].name = saved'[s] /\ files[s].firmware = saved'[s]]_vars
  BY SavedSteps, Zenon
<1> QED  BY <1>1, <1>2, ManifestOf, SInvHolds, PTL DEF Spec, StoredAsDirected, StoresDirected, SavedIsStored

\* The storage of an IP secondary changes when metadata is put.
LEMMA RootSteps ==
  ASSUME SInv, [Next]_vars, NEW s \in OfKind("kIpUptane"), disk'[s].root # disk[s].root
  PROVE  disk[s].root = None \/ disk'[s].root = disk[s].root + 1
<1>0. Control /\ Directed /\ Received /\ s \in Secs
  BY Zenon DEF SInv, OfKind
<1>1. PICK q \in Secs : Contacted(q)
  BY <1>0, RemoteSteps, Zenon
<1>2. q = s
  <2>1. Extends(q)
    BY <1>0, <1>1, PutMetadataIpIs, SendFirmwareIpIs, PutMetadataOpcuaIs, SendFirmwareOpcuaIs, DeathIs, Zenon DEF Contacted
  <2> QED  BY <1>0, <2>1, Zenon DEF Extends, RemoteStays
<1>3. putMetadataIp(s)
  <2>1. ~sendFirmwareIp(s)
    BY <1>0, SendFirmwareIpIs, Zenon
  <2>2. ~putMetadataOpcua(s) /\ ~sendFirmwareOpcua(s) /\ ~CrashSecondary(s) /\ ~RestartSecondary(s)
    BY Zenon DEF putMetadataOpcua, sendFirmwareOpcua, CrashSecondary, RestartSecondary
  <2> QED  BY <1>1, <1>2, <2>1, <2>2, Zenon DEF Contacted
<1> QED  BY <1>0, <1>3, PutMetadataIpIs, Zenon

\* The thread of an OPC-UA secondary answers for it, nobody else does.
LEMMA SyncSteps ==
  ASSUME SInv, [Next]_vars, NEW s \in OfKind("kOpcuaUptane"), thread[s] = "launched", thread'[s] = "ok"
  PROVE  sendFirmwareOpcua(s)
<1>0. Control /\ Keyed /\ s \in Secs /\ kind[s] = "kOpcuaUptane" /\ DOMAIN thread = Secs /\ thread' # thread
  BY Zenon DEF SInv, OfKind, Control
<1>1. ASSUME NEW q \in Secs, Thread(q) PROVE sendFirmwareOpcua(s)
  <2>1. \A r \in Secs \ {q} : thread'[r] = thread[r]
    <3>1. CASE sendFirmwareVirtual(q)
      BY <1>0, <3>1, SendVirtual DEF Refused, Named, Written
    <3>2. CASE sendFirmwareIp(q) \/ sendFirmwareOpcua(q)
      <4>1. \E ok : Answer(q, ok)
        BY <3>2, Zenon DEF sendFirmwareIp, sendFirmwareOpcua
      <4> QED  BY <1>0, <4>1, Zenon DEF Answer
    <3> QED  BY <1>1, <3>1, <3>2, Zenon DEF Thread
  <2>2. q = s
    BY <1>0, <2>1, Zenon
  <2> QED  BY <1>0, <1>1, <2>2, Zenon DEF Thread, sendFirmwareVirtual, sendFirmwareIp
<1>2. ASSUME NEW q \in Secs, PutMetadata(q) \/ Join(q) \/ CrashSecondary(q) \/ RestartSecondary(q) PROVE UNCHANGED thread
  BY <1>2, Zenon DEF PutMetadata, putMetadataVirtual, putMetadataIp, putMetadataOpcua, Join, CrashSecondary, RestartSecondary, memory
<1>3. CASE initEcuRegister \/ Initialize \/ storeEcuRegistered \/ fetchMeta \/ Install \/ Publish
  BY <1>0, <1>3, Zenon DEF initEcuRegister, Initialize, storeEcuRegistered, fetchMeta, Install, Publish, memory
<1>4. CASE Construct \/ AllInstallsComplete \/ CrashPrimary
  <2>1. thread' = Nothing
    BY <1>4, Zenon DEF Construct, AllInstallsComplete, CrashPrimary
  <2> QED  BY <1>0, <2>1, SecondariesAssumption, Zenon DEF Nothing
<1>5. CASE sendImagesToEcus
  <2>1. thread'[s] \in {"launched", None}
    BY <1>0, <1>5, Zenon DEF sendImagesToEcus
  <2> QED  BY <2>1, SecondariesAssumption, Zenon
<1>6. CASE UNCHANGED vars
  BY <1>0, <1>6, Zenon DEF vars
<1> QED  BY <1>0, <1>1, <1>2, <1>3, <1>4, <1>5, <1>6, Zenon DEF Next, Main

\* The secondaries behind a connection, although both sides die, answers are
\* lost and roots rotate: an IP secondary stores one root after the other
\* (putMetadataResp), an OPC-UA server acts on files of one batch
\* (countReceivedMetadataFile) and a synchronisation that succeeds leaves whole
\* files (syncDirectoryFiles), unless something was cut short before.
THEOREM RemotesAreRight == Spec => RemotesRight
<1>1. SInv => BatchWhole
  <2> SUFFICES ASSUME SInv, NEW s \in OfKind("kOpcuaUptane"), ~remote[s].up, remote[s].received_meta_pack.root # None
               PROVE  \/ remote[s].received_meta_pack.root = remote[s].received_meta_pack.targets
                      \/ "batch" \in torn[s]
    BY Zenon DEF BatchWhole
  <2> QED  BY Zenon DEF SInv, Received, ReceivedAt, OfKind
<1>2. SInv /\ [Next]_vars => [\A s \in OfKind("kOpcuaUptane") :
        thread[s] = "launched" /\ thread'[s] = "ok" =>
          \A f \in RepoFiles(updates[s]) : repo'[s][f] = "whole" \/ "file" \in torn[s]]_vars
  <2> SUFFICES ASSUME SInv, [Next]_vars, NEW s \in OfKind("kOpcuaUptane"), thread[s] = "launched", thread'[s] = "ok"
               PROVE  \A f \in RepoFiles(updates[s]) : repo'[s][f] = "whole" \/ "file" \in torn[s]
    OBVIOUS
  <2>1. sendFirmwareOpcua(s) /\ s \in Secs
    BY SyncSteps, Zenon DEF OfKind
  <2> QED  BY <2>1, SendFirmwareOpcuaIs, Zenon DEF SInv
<1>3. SInv /\ [Next]_vars => [\A s \in OfKind("kIpUptane") :
        disk'[s].root # disk[s].root => disk[s].root = None \/ disk'[s].root = disk[s].root + 1]_vars
  BY RootSteps, Zenon
<1> QED  BY <1>1, <1>2, <1>3, SInvHolds, PTL DEF Spec, RemotesRight, SyncedIsWhole, RootChainKept
=============================================================================
