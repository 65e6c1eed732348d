------------------------- MODULE ApplicationProofs --------------------------
(***************************************************************************)
(* Proofs about Application, for any calls, threads, targets and faults:   *)
(* what the API queue promises its callers, and in which order main hears  *)
(* of the end of its calls.                                                *)
(***************************************************************************)
EXTENDS Application, TLAPS

-----------------------------------------------------------------------------
(* The queue. *)

\* How a step may change the queue, whoever takes it.
QueueStep ==
  \/ UNCHANGED queue
  \/ dequeue \/ Woken \/ SpuriousWakeup \/ ApiLoop \/ ApiGot
  \/ api = "run" /\ Answer
  \/ \E c \in Calls : Call(c) \/ Get(c)
  \/ Shutdown \/ shutDown

\* Where main is with its calls.
MainAt ==
  /\ made \in 0..Len(Commands)
  /\ main = "get" => made > 0

\* Only shutDown enqueues the empty function, after Shutdown has set the flag.
StopsLate ==
  /\ stopping # "no" => shutdown_
  /\ (\E i \in DOMAIN q_ : q_[i] = Stop) => shutdown_
  /\ api = "got" /\ task = Stop => shutdown_

QInv == MainAt /\ QueueTypeOK /\ StopsLate /\ PendingIsQueued

Queued(c) == \E i \in DOMAIN q_ : q_[i] = c
Held(c) == api \in {"got", "run"} /\ task = c
Once(c) == \A i, j \in DOMAIN q_ : q_[i] = c /\ q_[j] = c => i = j
Pending(c) == (future[c] = "pending" <=> Held(c) \/ Queued(c)) /\ Once(c) /\ ~(Held(c) /\ Queued(c))

LEMMA CommandsAre ==
  /\ \A i \in 1..Len(Commands) : Commands[i] \in Calls
  /\ \A m \in DOMAIN Script : Len(Script[m]) \in Nat /\ Len(Script[m]) <= Len(Commands)
  /\ Len(Commands) \in Nat
<1>1. \A m \in DOMAIN Script : Len(Script[m]) \in {1, 2}
  BY DEF Script
<1>2. Commands \in Seq(Calls) /\ Len(Commands) >= 2 /\ Len(Commands) \in Nat
  BY ApplicationAssumption
<1>3. \A i \in 1..Len(Commands) : Commands[i] \in Calls
  BY <1>2
<1>4. \A m \in DOMAIN Script : Len(Script[m]) \in Nat /\ Len(Script[m]) <= 2
  <2> SUFFICES ASSUME NEW m \in DOMAIN Script PROVE Len(Script[m]) \in Nat /\ Len(Script[m]) <= 2
    OBVIOUS
  <2>1. Len(Script[m]) = 1 \/ Len(Script[m]) = 2
    BY <1>1, Zenon
  <2>2. \A n : n = 1 \/ n = 2 => n \in Nat /\ n <= 2
    OBVIOUS
  <2> QED  BY <2>1, <2>2, Zenon
<1>5. \A m \in DOMAIN Script : Len(Script[m]) <= Len(Commands)
  BY <1>2, <1>4
<1> QED  BY <1>2, <1>3, <1>4, <1>5, Zenon

\* Main makes and awaits only calls that it has names for.
LEMMA CallPlaces ==
  ASSUME MainAt
  PROVE  /\ MainCalls => /\ made + 1 \in 1..Len(Commands) /\ made + 1 \in 1..Len(Script[mode])
                         /\ mode \in DOMAIN Script /\ (made # 0 => made \in 1..Len(Commands))
         /\ \A command : HmiCalls(command) => made + 1 \in 1..Len(Commands)
         /\ MainGets => made \in 1..Len(Commands) /\ Commands[made] \in Calls
<1>1. made \in Nat /\ made <= Len(Commands) /\ Len(Commands) \in Nat /\ (main = "get" => made > 0)
  BY CommandsAre DEF MainAt
<1>2. ASSUME MainCalls
      PROVE  /\ made + 1 \in 1..Len(Commands) /\ made + 1 \in 1..Len(Script[mode])
             /\ mode \in DOMAIN Script /\ (made # 0 => made \in 1..Len(Commands))
  <2>1. mode \in DOMAIN Script /\ made < Len(Script[mode])
    BY <1>2, Zenon DEF MainCalls
  <2>2. Len(Script[mode]) \in Nat /\ Len(Script[mode]) <= Len(Commands)
    BY <2>1, CommandsAre, Zenon
  <2> QED  BY <1>1, <2>1, <2>2
<1>3. ASSUME NEW command, HmiCalls(command) PROVE made + 1 \in 1..Len(Commands)
  <2>1. made < Len(Commands)
    BY <1>3, Zenon DEF HmiCalls
  <2> QED  BY <1>1, <2>1
<1>4. ASSUME MainGets PROVE made \in 1..Len(Commands) /\ Commands[made] \in Calls
  <2>1. made \in 1..Len(Commands)
    BY <1>1, <1>4 DEF MainGets
  <2> QED  BY <2>1, CommandsAre, Zenon
<1> QED  BY <1>2, <1>3, <1>4, Zenon

LEMMA NextQueue == MainAt /\ [Next]_vars => QueueStep /\ MainAt'
<1> SUFFICES ASSUME MainAt, [Next]_vars PROVE QueueStep /\ MainAt'
  OBVIOUS
<1>1. CASE UNCHANGED vars
  BY <1>1, Zenon DEF vars, thread, QueueStep, MainAt
<1>2. CASE Api
  <2>1. CASE (dequeue \/ Woken \/ ApiLoop \/ ApiGot) /\ UNCHANGED thread
    BY <2>1, Zenon DEF QueueStep, MainAt, thread
  <2>2. CASE sendDeviceData \/ campaignCheck \/ uptaneInstall
    BY <2>2, Zenon DEF sendDeviceData, campaignCheck, uptaneInstall, Run, Complete, QueueStep, MainAt, thread
  <2>3. CASE fetchMeta
    BY <2>3, Zenon DEF fetchMeta, Run, Complete, QueueStep, MainAt, thread
  <2>4. CASE downloadImages
    BY <2>4, Zenon DEF downloadImages, Run, Complete, QueueStep, MainAt, thread
  <2>5. CASE fetchVerifyTarget \/ pull \/ aktualizr_progress_cb
    BY <2>5, Zenon DEF fetchVerifyTarget, pull, LoadSysroot, aktualizr_progress_cb, QueueStep, MainAt, thread
  <2> QED  BY <1>2, <2>1, <2>2, <2>3, <2>4, <2>5, Zenon DEF Api
<1>3. CASE MainCalls
  <2>1. made + 1 \in 1..Len(Commands)
    BY <1>3, CallPlaces, Zenon
  <2>2. Commands[made + 1] \in Calls /\ Call(Commands[made + 1]) /\ made' = made + 1
    BY <1>3, <2>1, CommandsAre, Zenon DEF MainCalls
  <2> QED  BY <2>1, <2>2, CommandsAre DEF QueueStep, MainAt
<1>4. CASE MainGets
  <2>1. made \in 1..Len(Commands)
    BY <1>4, CallPlaces, Zenon
  <2>2. Commands[made] \in Calls /\ Get(Commands[made]) /\ made' = made /\ main' = "read"
    BY <1>4, <2>1, CommandsAre, Zenon DEF MainGets
  <2> QED  BY <2>2, Zenon DEF QueueStep, MainAt
<1>5. CASE MainEnds \/ Leave
  BY <1>5, Zenon DEF MainEnds, Leave, QueueStep, MainAt
<1>6. CASE RunForeverCalls \/ RunForeverGets \/ RunForeverSteps
  <2>1. RunForever \in Calls
    BY ApplicationAssumption, Zenon
  <2> QED  BY <1>6, <2>1, Zenon DEF RunForeverCalls, RunForeverGets, RunForeverSteps, QueueStep, MainAt, thread
<1>7. CASE NoCampaignId \/ HmiPauses \/ HmiEnds
  BY <1>7, Zenon DEF NoCampaignId, HmiPauses, HmiEnds, QueueStep, MainAt, thread
<1>8. ASSUME NEW command, HmiCalls(command) PROVE QueueStep /\ MainAt'
  <2>1. made + 1 \in 1..Len(Commands)
    BY <1>8, CallPlaces, Zenon
  <2>2. Commands[made + 1] \in Calls /\ Call(Commands[made + 1]) /\ made' = made + 1
    BY <1>8, <2>1, CommandsAre, Zenon DEF HmiCalls
  <2> QED  BY <2>1, <2>2, CommandsAre DEF QueueStep, MainAt
<1>9. CASE Wakeup \/ FinishShutdown \/ UserShutsDown
  BY <1>9, Zenon DEF Wakeup, FinishShutdown, UserShutsDown, QueueStep, MainAt, thread
<1>10. ASSUME NEW u \in Users, UserCalls(u) PROVE QueueStep /\ MainAt'
  <2>1. u \in Calls
    BY ApplicationAssumption, Zenon
  <2> QED  BY <1>10, <2>1, Zenon DEF UserCalls, QueueStep, MainAt, thread
<1> QED
  BY <1>1, <1>2, <1>3, <1>4, <1>5, <1>6, <1>7, <1>8, <1>9, <1>10, Zenon DEF Next, ApiThread, MainThread, Typed

LEMMA PendingForm == PendingIsQueued <=> \A c \in Calls : Pending(c)
<1> QED  BY DEF PendingIsQueued, Pending, Held, Queued, Once

\* enqueue puts a task at the end, and wakes the thread that waits.
LEMMA Enqueued ==
  ASSUME QueueTypeOK, NEW t \in Calls \cup {Stop}, enqueue(t)
  PROVE  /\ q_' \in Seq(Calls \cup {Stop}) /\ api' \in {"loop", "lock", "woken", "got", "run", "exit"}
         /\ \A c : Queued(c)' <=> Queued(c) \/ c = t
         /\ \A c : Once(c) /\ (c = t => ~Queued(c)) => Once(c)'
         /\ api' \in {"got", "run"} => api' = api
         /\ api \in {"got", "run"} => api' = api
<1>1. q_ \in Seq(Calls \cup {Stop}) /\ q_' = Append(q_, t)
  BY Zenon DEF QueueTypeOK, enqueue
<1>2. /\ DOMAIN q_ = 1..Len(q_) /\ DOMAIN q_' = 1..(Len(q_) + 1) /\ Len(q_) \in Nat
      /\ q_'[Len(q_) + 1] = t /\ \A i \in 1..Len(q_) : q_'[i] = q_[i]
  BY <1>1
<1>3. \A c : Queued(c)' <=> Queued(c) \/ c = t
  BY <1>2 DEF Queued
<1>4. ASSUME NEW c, Once(c), c = t => ~Queued(c) PROVE Once(c)'
  BY <1>2, <1>4 DEF Once, Queued
<1> QED  BY <1>1, <1>3, <1>4 DEF QueueTypeOK, enqueue

\* dequeue takes the first task.
LEMMA Dequeued ==
  ASSUME q_ \in Seq(Calls \cup {Stop}), q_ # <<>>, q_' = Tail(q_)
  PROVE  /\ q_' \in Seq(Calls \cup {Stop}) /\ Head(q_) \in Calls \cup {Stop} /\ Queued(Head(q_))
         /\ \A c : Queued(c) <=> Queued(c)' \/ c = Head(q_)
         /\ \A c : Once(c) => Once(c)' /\ (c = Head(q_) => ~Queued(c)')
<1>1. /\ DOMAIN q_ = 1..Len(q_) /\ DOMAIN q_' = 1..(Len(q_) - 1) /\ Len(q_) \in Nat /\ Len(q_) >= 1
      /\ Head(q_) = q_[1] /\ \A i \in 1..(Len(q_) - 1) : q_'[i] = q_[i + 1]
      /\ q_' \in Seq(Calls \cup {Stop}) /\ Head(q_) \in Calls \cup {Stop}
  OBVIOUS
<1>2. Queued(Head(q_))
  BY <1>1 DEF Queued
<1>3. ASSUME NEW c PROVE Queued(c) <=> Queued(c)' \/ c = Head(q_)
  <2>1. ASSUME Queued(c), c # Head(q_) PROVE Queued(c)'
    <3>1. PICK i \in DOMAIN q_ : q_[i] = c
      BY <2>1, Zenon DEF Queued
    <3>2. i - 1 \in 1..(Len(q_) - 1) /\ (i - 1) + 1 = i
      BY <1>1, <2>1, <3>1
    <3>3. q_'[i - 1] = c
      BY <1>1, <3>1, <3>2, Zenon
    <3> QED  BY <1>1, <3>2, <3>3, Zenon DEF Queued
  <2>2. ASSUME Queued(c)' PROVE Queued(c)
    <3>1. PICK i \in DOMAIN q_' : q_'[i] = c
      BY <2>2, Zenon DEF Queued
    <3>2. i + 1 \in DOMAIN q_ /\ q_[i + 1] = c
      BY <1>1, <3>1
    <3> QED  BY <3>2, Zenon DEF Queued
  <2> QED  BY <1>2, <2>1, <2>2, Zenon
<1>4. ASSUME NEW c, Once(c) PROVE Once(c)' /\ (c = Head(q_) => ~Queued(c)')
  <2>1. \A i \in DOMAIN q_' : i + 1 \in DOMAIN q_ /\ q_'[i] = q_[i + 1] /\ i \in Nat /\ i + 1 # 1
    BY <1>1
  <2>2. Once(c)'
    BY <1>4, <2>1 DEF Once
  <2>3. c = Head(q_) => ~Queued(c)'
    <3>1. 1 \in DOMAIN q_
      BY <1>1
    <3> QED  BY <1>1, <1>4, <2>1, <3>1, Zenon DEF Once, Queued
  <2> QED  BY <2>2, <2>3, Zenon
<1> QED  BY <1>1, <1>2, <1>3, <1>4, Zenon

LEMMA QueueInvStep == QInv /\ [Next]_vars => QInv'
<1> SUFFICES ASSUME MainAt, QueueTypeOK, StopsLate, \A c \in Calls : Pending(c), [Next]_vars
             PROVE  MainAt' /\ QueueTypeOK' /\ StopsLate' /\ \A c \in Calls : Pending(c)'
  <2>1. (PendingIsQueued <=> \A c \in Calls : Pending(c))'
    BY PendingForm, PTL
  <2> QED  BY <2>1, PendingForm, Zenon DEF QInv
<1>1. QueueStep /\ MainAt'
  BY NextQueue, Zenon
<1> SUFFICES QueueTypeOK' /\ StopsLate' /\ \A c \in Calls : Pending(c)'
  BY <1>1, Zenon
<1>0. Stop \notin Calls
  BY ApplicationAssumption, Zenon
<1>2. CASE UNCHANGED queue
  BY <1>2, Zenon DEF queue, QueueTypeOK, StopsLate, Pending, Held, Queued, Once
<1>3. CASE dequeue
  <2>1. api = "lock" /\ UNCHANGED <<shutdown_, stopping, future>>
    BY <1>3, Zenon DEF dequeue, Flags
  <2>2. CASE q_ = <<>>
    <3>1. api' = "waiting" /\ UNCHANGED <<q_, task>>
      BY <1>3, <2>2, Zenon DEF dequeue
    <3> QED  BY <2>1, <2>2, <3>1 DEF QueueTypeOK, StopsLate, Pending, Held, Queued, Once
  <2>3. CASE q_ # <<>>
    <3>1. api' = "got" /\ task' = Head(q_) /\ q_' = Tail(q_) /\ q_ \in Seq(Calls \cup {Stop})
      BY <1>3, <2>3, Zenon DEF dequeue, QueueTypeOK
    <3>2. /\ q_' \in Seq(Calls \cup {Stop}) /\ Head(q_) \in Calls \cup {Stop} /\ Queued(Head(q_))
          /\ \A c : Queued(c) <=> Queued(c)' \/ c = Head(q_)
          /\ \A c : Once(c) => Once(c)' /\ (c = Head(q_) => ~Queued(c)')
      BY <2>3, <3>1, Dequeued, Zenon
    <3>3. QueueTypeOK'
      BY <2>1, <3>1, <3>2, Zenon DEF QueueTypeOK
    <3>4. StopsLate'
      BY <2>1, <3>1, <3>2, Zenon DEF StopsLate, Queued
    <3>5. ASSUME NEW c \in Calls PROVE Pending(c)'
      <4>1. Held(c)' <=> c = Head(q_)
        BY <3>1, Zenon DEF Held
      <4>2. ~Held(c)
        BY <2>1, Zenon DEF Held
      <4>3. (future[c] = "pending" <=> Queued(c)) /\ Once(c)
        BY <4>2, Zenon DEF Pending
      <4>4. future'[c] = "pending" <=> Held(c)' \/ Queued(c)'
        BY <2>1, <3>2, <4>1, <4>3, Zenon
      <4> QED  BY <3>2, <4>1, <4>3, <4>4, Zenon DEF Pending
    <3> QED  BY <3>3, <3>4, <3>5, Zenon
  <2> QED  BY <2>2, <2>3, Zenon
<1>4. CASE Woken
  <2>1. api = "woken" /\ UNCHANGED <<q_, shutdown_, stopping, future>>
        /\ \/ stopping # "no" /\ api' = "got" /\ task' = Stop
           \/ api' = "lock" /\ task' = task
    <3>1. CASE stopping # "no"
      BY <1>4, <3>1, Zenon DEF Woken, Flags
    <3>2. CASE ~(stopping # "no")
      BY <1>4, <3>2, Zenon DEF Woken, Flags
    <3> QED  BY <3>1, <3>2, Zenon
  <2>2. QueueTypeOK' /\ StopsLate'
    BY <1>0, <2>1, Zenon DEF QueueTypeOK, StopsLate
  <2>3. \A c \in Calls : ~Held(c) /\ ~Held(c)' /\ (Queued(c)' <=> Queued(c)) /\ (Once(c)' <=> Once(c))
    BY <1>0, <2>1, Zenon DEF Held, Queued, Once
  <2> QED  BY <2>1, <2>2, <2>3, Zenon DEF Pending
<1>5. CASE SpuriousWakeup \/ ApiLoop
  <2>1. api \in {"waiting", "loop"} /\ api' \in {"woken", "exit", "lock"} /\ UNCHANGED <<q_, shutdown_, stopping, task, future>>
    BY <1>5, Zenon DEF SpuriousWakeup, ApiLoop, Flags
  <2> QED  BY <2>1 DEF QueueTypeOK, StopsLate, Pending, Held, Queued, Once
<1>6. CASE ApiGot
  <2>1. api = "got" /\ UNCHANGED <<q_, shutdown_, stopping, task>>
    BY <1>6, Zenon DEF ApiGot, Flags
  <2>2. \A c : (Queued(c)' <=> Queued(c)) /\ (Once(c)' <=> Once(c))
    BY <2>1, Zenon DEF Queued, Once
  <2>3. CASE shutdown_
    <3>1. api' = "exit" /\ future' = IF task = Stop THEN future ELSE [future EXCEPT ![task] = "broken"]
      BY <1>6, <2>3, Zenon DEF ApiGot
    <3>2. QueueTypeOK' /\ StopsLate'
      BY <2>1, <2>3, <3>1, Zenon DEF QueueTypeOK, StopsLate
    <3>3. ASSUME NEW c \in Calls PROVE Pending(c)'
      <4>1. ~Held(c)'
        BY <3>1, Zenon DEF Held
      <4>2. CASE c = task
        <5>1. Held(c) /\ future'[c] = "broken"
          BY <1>0, <2>1, <3>1, <4>2, Zenon DEF Held, QueueTypeOK
        <5>2. ~Queued(c) /\ Once(c)
          BY <5>1, Zenon DEF Pending
        <5> QED  BY <2>2, <4>1, <5>1, <5>2, Zenon DEF Pending
      <4>3. CASE c # task
        <5>1. ~Held(c) /\ future'[c] = future[c]
          BY <3>1, <4>3, Zenon DEF Held, QueueTypeOK
        <5> QED  BY <2>2, <4>1, <5>1, Zenon DEF Pending
      <4> QED  BY <4>2, <4>3, Zenon
    <3> QED  BY <3>2, <3>3, Zenon
  <2>4. CASE ~shutdown_
    <3>1. api' = "run" /\ future' = future
      BY <1>6, <2>4, Zenon DEF ApiGot
    <3>2. QueueTypeOK' /\ StopsLate'
      BY <2>1, <2>4, <3>1, Zenon DEF QueueTypeOK, StopsLate
    <3>3. \A c : Held(c)' <=> Held(c)
      BY <2>1, <3>1, Zenon DEF Held
    <3> QED  BY <2>2, <3>1, <3>2, <3>3, Zenon DEF Pending
  <2> QED  BY <2>3, <2>4, Zenon
<1>7. CASE api = "run" /\ Answer
  <2>1. task \in Calls /\ api' = "loop" /\ UNCHANGED <<q_, shutdown_, stopping, task>>
        /\ future' = [future EXCEPT ![task] = "ready"]
    BY <1>7, Zenon DEF Answer, Flags, QueueTypeOK
  <2>2. \A c : (Queued(c)' <=> Queued(c)) /\ (Once(c)' <=> Once(c)) /\ ~Held(c)'
    BY <2>1, Zenon DEF Queued, Once, Held
  <2>3. QueueTypeOK' /\ StopsLate'
    BY <2>1, Zenon DEF QueueTypeOK, StopsLate
  <2>4. ASSUME NEW c \in Calls PROVE Pending(c)'
    <3>1. CASE c = task
      <4>1. Held(c) /\ future'[c] = "ready"
        BY <1>7, <2>1, <3>1, Zenon DEF Held, QueueTypeOK
      <4> QED  BY <2>2, <4>1, Zenon DEF Pending
    <3>2. CASE c # task
      <4>1. ~Held(c) /\ future'[c] = future[c]
        BY <2>1, <3>2, Zenon DEF Held, QueueTypeOK
      <4> QED  BY <2>2, <4>1, Zenon DEF Pending
    <3> QED  BY <3>1, <3>2, Zenon
  <2> QED  BY <2>3, <2>4, Zenon
<1>8. ASSUME NEW c \in Calls, Call(c) PROVE QueueTypeOK' /\ StopsLate' /\ \A b \in Calls : Pending(b)'
  <2>1. future[c] = "none" /\ future' = [future EXCEPT ![c] = "pending"] /\ enqueue(c)
        /\ UNCHANGED <<shutdown_, stopping, task>>
    BY <1>8, Zenon DEF Call, Flags
  <2>2. /\ q_' \in Seq(Calls \cup {Stop}) /\ api' \in {"loop", "lock", "woken", "got", "run", "exit"}
        /\ \A b : Queued(b)' <=> Queued(b) \/ b = c
        /\ \A b : Once(b) /\ (b = c => ~Queued(b)) => Once(b)'
        /\ api' \in {"got", "run"} => api' = api
        /\ api \in {"got", "run"} => api' = api
    BY <2>1, Enqueued, Zenon
  <2>3. QueueTypeOK'
    BY <2>1, <2>2, Zenon DEF QueueTypeOK
  <2>4. StopsLate'
    BY <1>0, <2>1, <2>2, Zenon DEF StopsLate, Queued
  <2>5. \A b : Held(b)' <=> Held(b)
    BY <2>1, <2>2, Zenon DEF Held
  <2>6. ASSUME NEW b \in Calls PROVE Pending(b)'
    <3>1. CASE b = c
      <4>1. future'[b] = "pending" /\ ~Held(b) /\ ~Queued(b) /\ Once(b)
        BY <2>1, <3>1, Zenon DEF Pending, QueueTypeOK
      <4> QED  BY <2>2, <2>5, <3>1, <4>1, Zenon DEF Pending
    <3>2. CASE b # c
      <4>1. future'[b] = future[b]
        BY <2>1, <3>2, Zenon DEF QueueTypeOK
      <4> QED  BY <2>2, <2>5, <3>2, <4>1, Zenon DEF Pending
    <3> QED  BY <3>1, <3>2, Zenon
  <2> QED  BY <2>3, <2>4, <2>6, Zenon
<1>9. ASSUME NEW c \in Calls, Get(c) PROVE QueueTypeOK' /\ StopsLate' /\ \A b \in Calls : Pending(b)'
  <2>1. /\ future[c] \in {"ready", "broken"} /\ future' = [future EXCEPT ![c] = "none"]
        /\ UNCHANGED <<q_, shutdown_, stopping, api, task>>
    BY <1>9, Zenon DEF Get, Flags
  <2>2. \A b : (Queued(b)' <=> Queued(b)) /\ (Once(b)' <=> Once(b)) /\ (Held(b)' <=> Held(b))
    BY <2>1, Zenon DEF Queued, Once, Held
  <2>3. \A b \in Calls : future'[b] = "pending" <=> future[b] = "pending"
    BY <2>1, Zenon DEF QueueTypeOK
  <2>4. QueueTypeOK' /\ StopsLate'
    BY <2>1, Zenon DEF QueueTypeOK, StopsLate
  <2> QED  BY <2>2, <2>3, <2>4, Zenon DEF Pending
<1>10. CASE Shutdown
  BY <1>10 DEF Shutdown, QueueTypeOK, StopsLate, Pending, Held, Queued, Once
<1>11. CASE shutDown
  <2>1. UNCHANGED <<shutdown_, task, future>>
    BY <1>11, Zenon DEF shutDown
  <2>2. CASE shutdown_ /\ stopping' = "set" /\ UNCHANGED <<q_, api>>
    BY <2>1, <2>2 DEF QueueTypeOK, StopsLate, Pending, Held, Queued, Once
  <2>3. CASE stopping = "set" /\ stopping' = "done" /\ enqueue(Stop)
    <3>1. /\ q_' \in Seq(Calls \cup {Stop}) /\ api' \in {"loop", "lock", "woken", "got", "run", "exit"}
          /\ \A b : Queued(b)' <=> Queued(b) \/ b = Stop
          /\ \A b : Once(b) /\ (b = Stop => ~Queued(b)) => Once(b)'
          /\ api' \in {"got", "run"} => api' = api
          /\ api \in {"got", "run"} => api' = api
      BY <2>3, Enqueued, Zenon
    <3>2. QueueTypeOK'
      BY <2>1, <2>3, <3>1, Zenon DEF QueueTypeOK
    <3>3. StopsLate'
      BY <2>1, <2>3, <3>1, Zenon DEF StopsLate
    <3>4. \A b : Held(b)' <=> Held(b)
      BY <2>1, <3>1, Zenon DEF Held
    <3>5. \A b \in Calls : Pending(b)'
      BY <1>0, <2>1, <3>1, <3>4, Zenon DEF Pending
    <3> QED  BY <3>2, <3>3, <3>5, Zenon
  <2> QED  BY <1>11, <2>2, <2>3, Zenon DEF shutDown
<1> QED
  BY <1>1, <1>2, <1>3, <1>4, <1>5, <1>6, <1>7, <1>8, <1>9, <1>10, <1>11, Zenon DEF QueueStep

LEMMA QueueInitially == Init => QInv
<1> SUFFICES ASSUME Init PROVE QInv
  OBVIOUS
<1>1. QueueInit /\ made = 0 /\ main # "get"
  BY Zenon DEF Init
<1>2. q_ = <<>> /\ DOMAIN q_ = {} /\ api = "loop" /\ task = Stop /\ stopping = "no" /\ shutdown_ = FALSE
      /\ future = [c \in Calls |-> "none"]
  BY <1>1 DEF QueueInit
<1>3. QueueTypeOK
  <2>1. q_ \in Seq(Calls \cup {Stop}) /\ future \in [Calls -> {"none", "pending", "ready", "broken"}]
    BY <1>2
  <2>2. task \in Calls \cup {Stop} /\ shutdown_ \in BOOLEAN
    BY <1>2, Zenon
  <2>3. api # "run" /\ api # "waiting" /\ stopping = "no" /\ api = "loop"
    BY <1>2, Zenon
  <2> QED  BY <2>1, <2>2, <2>3, Zenon DEF QueueTypeOK
<1>4. StopsLate /\ PendingIsQueued
  BY <1>2, Zenon DEF StopsLate, PendingIsQueued
<1> QED  BY <1>1, <1>3, <1>4, CommandsAre DEF QInv, MainAt

LEMMA QueueInvariant == Spec => []QInv
<1> QED  BY QueueInitially, QueueInvStep, PTL DEF Spec

\* ApiQueue and the API thread: every future that is not answered has its one
\* task in the queue or in the thread's hands, for any number of callers.
THEOREM PendingQueued == Spec => []PendingIsQueued
<1> QED  BY QueueInvariant, PTL DEF QInv

-----------------------------------------------------------------------------
(* What the threads hold. *)

Work ==
  [phase : {"idle", "start", "request", "transfer"}, left : SUBSET Targets, done : SUBSET Targets,
   got : {0, 50, 100}, tries : 1..3]

Operations == {"none", "senddevicedata", "check", "download", "install", "campaigncheck", "campaignaccept"}

\* The data of the calls.
Data ==
  /\ op \in [Calls -> [op : Operations, targets : SUBSET Targets]]
  /\ value \in [Calls -> SUBSET Targets]
  /\ updates \in SUBSET Targets
  /\ progress \in [Targets -> Nat]

\* The thread that runs a download is the only one with work.
Working ==
  /\ work \in Work
  /\ work.phase = "idle" => work = Idle
  /\ work # Idle => api = "run" /\ op[task].op = "download"

Control ==
  /\ r \in {-1, 0} /\ faults \in 0..MaxFaults
  /\ main \in {"read", "get", "full", "once", "library", "leave", "join", "exit", "dead"}

TInv == QInv /\ Data /\ Working /\ Control

LEMMA IdleWork == Idle \in Work /\ Idle.phase = "idle" /\ Idle.left = {}
<1> QED  BY DEF Idle, Work

\* A call does not touch the task that runs.
LEMMA CallKeeps ==
  ASSUME QInv, NEW c \in Calls, Call(c)
  PROVE  api = "run" => api' = "run" /\ task' = task /\ task \in Calls /\ c # task
<1> SUFFICES ASSUME api = "run" PROVE api' = "run" /\ task' = task /\ task \in Calls /\ c # task
  OBVIOUS
<1>1. task \in Calls /\ api' = "run" /\ task' = task
  BY Zenon DEF QInv, QueueTypeOK, Call, enqueue
<1>2. future[task] = "pending"
  BY <1>1, Zenon DEF QInv, PendingIsQueued
<1> QED  BY <1>1, <1>2, Zenon DEF Call

\* A new call with its operation.
LEMMA CallData ==
  ASSUME QInv, Data, Working, NEW c \in Calls, Call(c),
         NEW name \in Operations, NEW ts \in SUBSET Targets,
         op' = [op EXCEPT ![c] = [op |-> name, targets |-> ts]],
         UNCHANGED <<value, progress, work>>, updates' \in SUBSET Targets
  PROVE  Data' /\ Working'
<1>1. [op |-> name, targets |-> ts] \in [op : Operations, targets : SUBSET Targets]
  OBVIOUS
<1>2. op' \in [Calls -> [op : Operations, targets : SUBSET Targets]]
  BY <1>1, Zenon DEF Data
<1>3. Data'
  BY <1>2, Zenon DEF Data
<1>4. ASSUME work # Idle PROVE api' = "run" /\ op'[task'].op = "download"
  <2>1. api = "run" /\ op[task].op = "download"
    BY <1>4, Zenon DEF Working
  <2>2. api' = "run" /\ task' = task /\ task \in Calls /\ c # task
    BY <2>1, CallKeeps, Zenon
  <2> QED  BY <2>1, <2>2, Zenon DEF Data
<1> QED  BY <1>3, <1>4, Zenon DEF Working

\* TargetComplete and TryAgain: the next target, or another try.
LEMMA CompleteData ==
  ASSUME Data, work \in Work, NEW t \in work.left, NEW success \in BOOLEAN, TargetComplete(t, success)
  PROVE  /\ work' \in Work /\ work'.phase = "start" /\ progress' \in [Targets -> Nat]
         /\ \A u \in Targets : progress'[u] # progress[u] => u \notin work'.left /\ progress'[u] = 0
<1>1. t \in Targets
  BY Zenon DEF Work
<1>2. work' = [phase |-> "start", left |-> work.left \ {t}, done |-> IF success THEN work.done \cup {t} ELSE work.done,
               got |-> 0, tries |-> 3]
  BY Zenon DEF TargetComplete, Work
<1>3. work' \in Work /\ work'.phase = "start" /\ work'.left = work.left \ {t}
  BY <1>1, <1>2 DEF Work
<1>4. progress' = [progress EXCEPT ![t] = 0]
  BY Zenon DEF TargetComplete
<1> QED  BY <1>1, <1>3, <1>4, Zenon DEF Data

Rises == \A t \in Targets : progress'[t] # progress[t] => IF t \in work'.left THEN progress'[t] > progress[t] ELSE progress'[t] = 0

LEMMA CurrentIn == work.left # {} => Current \in work.left
<1> QED  BY Zenon DEF Current

LEMMA TryData ==
  ASSUME Data, work \in Work, work.left # {}, NEW got \in {0, 50, 100}, TryAgain(got), faults \in 0..MaxFaults
  PROVE  work' \in Work /\ work'.phase = "start" /\ progress' \in [Targets -> Nat] /\ Rises /\ faults' \in 0..MaxFaults
<1>1. faults' \in 0..MaxFaults
  BY ApplicationAssumption DEF TryAgain, Fault
<1>2. CASE work.tries > 1
  <2>1. work' = [work EXCEPT !.phase = "start", !.tries = @ - 1, !.got = got] /\ progress' = progress
    BY <1>2, Zenon DEF TryAgain
  <2>2. work' = [phase |-> "start", left |-> work.left, done |-> work.done, got |-> got, tries |-> work.tries - 1]
    BY <2>1, Zenon DEF Work
  <2>3. work.tries - 1 \in 1..3
    BY <1>2 DEF Work
  <2>4. work' \in Work /\ work'.phase = "start"
    BY <2>2, <2>3, Zenon DEF Work
  <2> QED  BY <1>1, <2>1, <2>4, Zenon DEF Data, Rises
<1>3. CASE ~(work.tries > 1)
  <2>1. TargetComplete(Current, FALSE) /\ Current \in work.left
    BY <1>3, CurrentIn, Zenon DEF TryAgain
  <2> QED  BY <1>1, <2>1, CompleteData, Zenon DEF Rises
<1> QED  BY <1>2, <1>3, Zenon

\* ReportProgress shows a higher percentage or nothing.
LEMMA ReportData ==
  ASSUME Data, NEW t \in Targets, NEW percent \in Nat, ReportProgress(t, percent)
  PROVE  progress' \in [Targets -> Nat] /\ \A u \in Targets : progress'[u] # progress[u] => u = t /\ progress'[u] > progress[u]
<1>1. CASE progress' = progress
  BY <1>1, Zenon DEF Data
<1>2. CASE percent > progress[t] /\ progress' = [progress EXCEPT ![t] = percent]
  BY <1>2, Zenon DEF Data
<1> QED  BY <1>1, <1>2, Zenon DEF ReportProgress

LEMMA ScriptSteps == \A m \in DOMAIN Script : \A i \in 1..Len(Script[m]) : Script[m][i] \in Operations
<1>1. DOMAIN Script = {"campaign_check", "campaign_accept", "check", "download", "install"}
  BY Zenon DEF Script
<1>2. /\ Script["campaign_check"] = <<"campaigncheck">> /\ Script["campaign_accept"] = <<"campaignaccept">>
      /\ Script["check"] = <<"senddevicedata", "check">> /\ Script["download"] = <<"check", "download">>
      /\ Script["install"] = <<"check", "install">>
  BY Zenon DEF Script
<1>3. \A a, b \in Operations : \A i \in 1..Len(<<a, b>>) : <<a, b>>[i] \in Operations
  OBVIOUS
<1>4. \A a \in Operations : \A i \in 1..Len(<<a>>) : <<a>>[i] \in Operations
  OBVIOUS
<1>5. {"senddevicedata", "check", "download", "install", "campaigncheck", "campaignaccept"} \subseteq Operations
  BY Zenon DEF Operations
<1>6. \A m \in DOMAIN Script : (\E a \in Operations : Script[m] = <<a>>) \/ (\E a, b \in Operations : Script[m] = <<a, b>>)
  BY <1>1, <1>2, <1>5, Zenon
<1> QED  BY <1>3, <1>4, <1>6, Zenon

\* The end of a task.
LEMMA RunEnds ==
  ASSUME Data, NEW result \in SUBSET Targets, Complete(result), UNCHANGED <<op, updates, progress>>
  PROVE  Data'
<1>1. value' = [value EXCEPT ![task] = result]
  BY Zenon DEF Complete
<1>2. value' \in [Calls -> SUBSET Targets]
  BY <1>1, Zenon DEF Data
<1> QED  BY <1>2, Zenon DEF Data

\* Steps that change neither the download nor what is shown of it.
LEMMA NoWorkStep ==
  ASSUME Working, work' = Idle
  PROVE  Working'
<1> QED  BY IdleWork, Zenon DEF Working

LEMMA FaultIn == ASSUME Fault, faults \in 0..MaxFaults PROVE faults' \in 0..MaxFaults
<1> QED  BY ApplicationAssumption DEF Fault

\* The tasks other than a download.
LEMMA TaskStep ==
  ASSUME TInv, sendDeviceData \/ fetchMeta \/ campaignCheck \/ uptaneInstall
  PROVE  Data' /\ Working' /\ Control' /\ Rises
<1> USE DEF TInv
<1>1. work = Idle /\ UNCHANGED <<work, progress, op, updates>> /\ work' = Idle
  <2>1. op[task].op # "download"
    BY Zenon DEF sendDeviceData, fetchMeta, campaignCheck, uptaneInstall, Run
  <2> QED  BY <2>1, Zenon DEF Working, sendDeviceData, fetchMeta, campaignCheck, uptaneInstall, hmi, client
<1>2. Working' /\ Rises
  BY <1>1, NoWorkStep, Zenon DEF Rises
<1>3. CASE sendDeviceData \/ campaignCheck \/ uptaneInstall
  <2>1. Complete({}) /\ UNCHANGED <<main, r, faults>>
    BY <1>3, Zenon DEF sendDeviceData, campaignCheck, uptaneInstall, thread
  <2>2. Data'
    BY <1>1, <2>1, RunEnds, Zenon
  <2> QED  BY <1>2, <2>1, <2>2, Zenon DEF Control
<1>4. CASE fetchMeta
  <2>1. CASE \E u \in {{}, Targets \ installed} : Complete(u) /\ UNCHANGED <<thread, faults>>
    <3>1. PICK u \in SUBSET Targets : Complete(u) /\ UNCHANGED <<thread, faults>>
      BY <2>1, Zenon
    <3>2. Data'
      BY <1>1, <3>1, RunEnds, Zenon
    <3> QED  BY <1>2, <3>1, <3>2, Zenon DEF Control, thread
  <2>2. CASE Fault /\ main' = "dead" /\ UNCHANGED <<queue, value, events, made, r>>
    <3>1. faults' \in 0..MaxFaults
      BY <2>2, FaultIn, Zenon DEF Control
    <3> QED  BY <1>1, <1>2, <2>2, <3>1, Zenon DEF Control, Data
  <2> QED  BY <1>4, <2>1, <2>2, Zenon DEF fetchMeta
<1> QED  BY <1>3, <1>4, Zenon

LEMMA DownloadStep == ASSUME TInv, downloadImages PROVE Data' /\ Working' /\ Control' /\ Rises
<1> USE DEF TInv
<1>1. /\ api = "run" /\ op[task].op = "download" /\ task \in Calls
      /\ UNCHANGED <<main, r, op, updates, progress>>
  BY Zenon DEF downloadImages, Run, thread, hmi, QInv, QueueTypeOK
<1>2. Rises
  BY <1>1, Zenon DEF Rises
<1>3. CASE /\ work = Idle /\ op[task].targets # {} /\ work' = [Idle EXCEPT !.phase = "start", !.left = op[task].targets]
           /\ UNCHANGED <<queue, value, events, faults>>
  <2>1. op[task].targets \in SUBSET Targets
    BY <1>1, Zenon DEF Data
  <2>2. work' = [phase |-> "start", left |-> op[task].targets, done |-> {}, got |-> 0, tries |-> 3]
    BY <1>3, Zenon DEF Idle
  <2>3. work' \in Work /\ work'.phase = "start"
    BY <2>1, <2>2 DEF Work
  <2>4. UNCHANGED <<api, task, value, faults>>
    BY <1>3, Zenon DEF queue
  <2> QED  BY <1>1, <1>2, <2>3, <2>4, Zenon DEF Data, Working, Control
<1>4. CASE work = Idle /\ Complete({}) /\ (IF op[task].targets = {} THEN UNCHANGED faults ELSE Fault) /\ UNCHANGED work
  <2>1. faults' \in 0..MaxFaults
    BY <1>4, FaultIn, Zenon DEF Control
  <2>2. Data'
    BY <1>1, <1>4, RunEnds, Zenon
  <2>3. Working'
    BY <1>4, NoWorkStep, Zenon
  <2> QED  BY <1>1, <1>2, <2>1, <2>2, <2>3, Zenon DEF Control
<1>5. CASE work.phase = "start" /\ work.left = {} /\ Complete(work.done) /\ work' = Idle /\ UNCHANGED faults
  <2>1. work.done \in SUBSET Targets
    BY Zenon DEF Working, Work
  <2>2. Data'
    BY <1>1, <1>5, <2>1, RunEnds, Zenon
  <2>3. Working'
    BY <1>5, NoWorkStep, Zenon
  <2> QED  BY <1>1, <1>2, <1>5, <2>2, <2>3, Zenon DEF Control
<1> QED  BY <1>3, <1>4, <1>5, Zenon DEF downloadImages

\* The download of a file over HTTP.
LEMMA FetchStep == ASSUME TInv, fetchVerifyTarget PROVE Data' /\ Working' /\ Control' /\ Rises
<1> USE DEF TInv
<1>1. /\ work.left # {} /\ Current \in work.left /\ Current \in Targets /\ work \in Work
      /\ UNCHANGED <<api, task, main, r, op, value, updates>> /\ faults \in 0..MaxFaults
  BY CurrentIn, Zenon DEF fetchVerifyTarget, Working, Work, Control, queue, thread
<1>2. work # Idle
  BY <1>1, IdleWork, Zenon
<1>3. api' = "run" /\ op'[task'].op = "download"
  BY <1>1, <1>2, Zenon DEF Working
<1> SUFFICES work' \in Work /\ work'.phase # "idle" /\ progress' \in [Targets -> Nat] /\ Rises /\ faults' \in 0..MaxFaults
  BY <1>1, <1>3, Zenon DEF Data, Working, Control
<1>4. CASE TargetComplete(Current, TRUE) /\ UNCHANGED faults
  BY <1>1, <1>4, CompleteData, Zenon DEF Rises
<1>5. CASE work' = [work EXCEPT !.phase = "request"] /\ UNCHANGED <<progress, faults>>
  <2>1. work' \in Work /\ work'.phase = "request"
    BY <1>1, <1>5, Zenon DEF Work
  <2> QED  BY <1>1, <1>5, <2>1, Zenon DEF Rises, Data
<1>6. CASE work' = [work EXCEPT !.phase = "transfer"] /\ UNCHANGED <<progress, faults>>
  <2>1. work' \in Work /\ work'.phase = "transfer"
    BY <1>1, <1>6, Zenon DEF Work
  <2> QED  BY <1>1, <1>6, <2>1, Zenon DEF Rises, Data
<1>7. CASE /\ work.phase = "transfer" /\ work.got < 100 /\ UNCHANGED faults
           /\ work' = [work EXCEPT !.got = @ + 50, !.phase = IF pause_ THEN "request" ELSE @]
           /\ ReportProgress(Current, work.got + 50)
  <2>1. work.got + 50 \in {0, 50, 100} /\ work.got + 50 \in Nat
    BY <1>1, <1>7 DEF Work
  <2>2. work' \in Work /\ work'.phase # "idle" /\ work'.left = work.left
    <3>1. PICK phase \in {"request", "transfer"} : work' = [work EXCEPT !.got = work.got + 50, !.phase = phase]
      BY <1>7, Zenon
    <3>2. work' = [phase |-> phase, left |-> work.left, done |-> work.done, got |-> work.got + 50, tries |-> work.tries]
      BY <1>1, <3>1, Zenon DEF Work
    <3>3. phase \in {"idle", "start", "request", "transfer"} /\ phase # "idle"
      OBVIOUS
    <3> QED  BY <1>1, <2>1, <3>2, <3>3, Zenon DEF Work
  <2>3. progress' \in [Targets -> Nat] /\ \A u \in Targets : progress'[u] # progress[u] => u = Current /\ progress'[u] > progress[u]
    BY <1>1, <1>7, <2>1, ReportData, Zenon
  <2> QED  BY <1>1, <1>7, <2>2, <2>3, Zenon DEF Rises
<1>8. CASE \E got \in {0, work.got} : TryAgain(got)
  <2>1. PICK got \in {0, 50, 100} : TryAgain(got)
    BY <1>1, <1>8 DEF Work
  <2> QED  BY <1>1, <2>1, TryData
<1> QED  BY <1>4, <1>5, <1>6, <1>7, <1>8, Zenon DEF fetchVerifyTarget

\* The pull of an OSTree commit.
LEMMA PullStep == ASSUME TInv, pull \/ aktualizr_progress_cb PROVE Data' /\ Working' /\ Control' /\ Rises
<1> USE DEF TInv
<1>1. /\ work.left # {} /\ Current \in work.left /\ Current \in Targets /\ work \in Work
      /\ UNCHANGED <<api, task, r, op, value, updates>> /\ faults \in 0..MaxFaults
  BY CurrentIn, Zenon DEF pull, aktualizr_progress_cb, Working, Work, Control, queue, thread
<1>2. work # Idle
  BY <1>1, IdleWork, Zenon
<1>3. api' = "run" /\ op'[task'].op = "download"
  BY <1>1, <1>2, Zenon DEF Working
<1> SUFFICES /\ work' \in Work /\ work'.phase # "idle" /\ progress' \in [Targets -> Nat] /\ Rises
             /\ faults' \in 0..MaxFaults /\ (main' = main \/ main' = "dead")
  BY <1>1, <1>3, Zenon DEF Data, Working, Control
<1>4. CASE TargetComplete(Current, TRUE) /\ UNCHANGED <<main, faults>>
  BY <1>1, <1>4, CompleteData, Zenon DEF Rises
<1>5. CASE work' = [work EXCEPT !.phase = "transfer"] /\ UNCHANGED <<main, progress, faults>>
  <2>1. work' \in Work /\ work'.phase = "transfer"
    BY <1>1, <1>5, Zenon DEF Work
  <2> QED  BY <1>1, <1>5, <2>1, Zenon DEF Rises, Data
<1>6. CASE LoadSysroot /\ UNCHANGED <<work, progress>>
  <2>1. faults' \in 0..MaxFaults
    BY <1>1, <1>6, FaultIn, Zenon DEF LoadSysroot
  <2> QED  BY <1>1, <1>6, <2>1, Zenon DEF LoadSysroot, Rises, Data
<1>7. CASE TryAgain(0) /\ UNCHANGED main
  BY <1>1, <1>7, TryData, Zenon
<1>8. CASE aktualizr_progress_cb
  <2>1. work.got + 50 \in {0, 50, 100} /\ work.got \in Nat /\ work.phase = "transfer" /\ UNCHANGED <<main, faults>>
        /\ work' = [work EXCEPT !.got = work.got + 50]
    BY <1>1, <1>8 DEF aktualizr_progress_cb, Work, thread
  <2>2. work' \in Work /\ work'.phase = "transfer" /\ work'.left = work.left
    BY <1>1, <2>1, Zenon DEF Work
  <2>3. CASE \E percent \in {0, work.got} : ReportProgress(Current, percent)
    <3>1. PICK percent \in Nat : ReportProgress(Current, percent)
      BY <2>1, <2>3
    <3>2. progress' \in [Targets -> Nat] /\ \A u \in Targets : progress'[u] # progress[u] => u = Current /\ progress'[u] > progress[u]
      BY <1>1, <3>1, ReportData, Zenon
    <3> QED  BY <1>1, <2>1, <2>2, <3>2, Zenon DEF Rises
  <2>4. CASE UNCHANGED progress
    BY <1>1, <2>1, <2>2, <2>4, Zenon DEF Rises, Data
  <2> QED  BY <1>8, <2>3, <2>4, Zenon DEF aktualizr_progress_cb
<1> QED  BY <1>4, <1>5, <1>6, <1>7, <1>8, Zenon DEF pull

LEMMA ThreadsStep == TInv /\ [Next]_vars => TInv' /\ Rises
<1> SUFFICES ASSUME TInv, [Next]_vars PROVE Data' /\ Working' /\ Control' /\ Rises
  BY QueueInvStep, Zenon DEF TInv
<1>0. QInv /\ Data /\ Working /\ Control
  BY Zenon DEF TInv
<1>1. CASE UNCHANGED vars
  BY <1>0, <1>1, Zenon DEF vars, queue, thread, hmi, client, Data, Working, Control, Rises
<1>2. CASE Api
  <2>1. CASE (dequeue \/ Woken \/ ApiLoop \/ ApiGot) /\ UNCHANGED <<mode, thread, rf, op, value, events, hmi, client, faults>>
    <3>1. api # "run"
      BY <2>1, Zenon DEF dequeue, Woken, ApiLoop, ApiGot
    <3>2. UNCHANGED <<main, r, op, value, updates, progress, work, faults>>
      BY <2>1, Zenon DEF thread, hmi, client
    <3>3. work' = Idle
      BY <1>0, <3>1, <3>2, Zenon DEF Working
    <3>4. Working'
      BY <1>0, <3>3, NoWorkStep, Zenon
    <3> QED  BY <1>0, <3>2, <3>4, Zenon DEF Data, Control, Rises
  <2> QED  BY <1>2, <2>1, TaskStep, DownloadStep, FetchStep, PullStep, Zenon DEF Api
<1>3. CASE MainCalls
  <2>1. made + 1 \in 1..Len(Commands) /\ mode \in DOMAIN Script /\ made + 1 \in 1..Len(Script[mode])
        /\ (made # 0 => made \in 1..Len(Commands))
    BY <1>0, <1>3, CallPlaces, Zenon DEF QInv
  <2>2. Commands[made + 1] \in Calls /\ Script[mode][made + 1] \in Operations
    BY <2>1, CommandsAre, ScriptSteps, Zenon
  <2>3. (IF made = 0 THEN {} ELSE value[Commands[made]]) \in SUBSET Targets
    BY <1>0, <2>1, CommandsAre, Zenon DEF Data
  <2>4. /\ Call(Commands[made + 1]) /\ main' = "get" /\ UNCHANGED <<r, value, updates, progress, work, faults>>
        /\ op' = [op EXCEPT ![Commands[made + 1]] = [op |-> Script[mode][made + 1],
                                                     targets |-> IF made = 0 THEN {} ELSE value[Commands[made]]]]
    BY <1>3, Zenon DEF MainCalls, hmi, client
  <2>5. updates' \in SUBSET Targets
    BY <1>0, <2>4, Zenon DEF Data
  <2>6. Data' /\ Working'
    BY <1>0, <2>2, <2>3, <2>4, <2>5, CallData, Zenon
  <2> QED  BY <1>0, <2>4, <2>6, Zenon DEF Control, Rises
<1>4. CASE MainGets
  <2>1. made \in 1..Len(Commands)
    BY <1>0, <1>4, CallPlaces, Zenon DEF QInv
  <2>2. Commands[made] \in Calls
    BY <2>1, CommandsAre, Zenon
  <2>3. updates' \in SUBSET Targets
    BY <1>0, <1>4, <2>2, Zenon DEF MainGets, Data
  <2>4. UNCHANGED <<api, task, r, op, value, progress, work, faults>> /\ main' = "read"
    BY <1>4, Zenon DEF MainGets, Get, client
  <2> QED  BY <1>0, <2>3, <2>4, Zenon DEF Data, Working, Control, Rises
<1>5. CASE MainEnds \/ Leave \/ NoCampaignId \/ HmiPauses \/ HmiEnds \/ RunForeverSteps
  <2>1. UNCHANGED <<api, task, op, value, updates, progress, work>>
    BY <1>5, Zenon DEF MainEnds, Leave, NoCampaignId, HmiPauses, HmiEnds, RunForeverSteps, Shutdown, queue, hmi, client
  <2>2. Control'
    <3>1. CASE MainEnds \/ Leave \/ NoCampaignId \/ HmiPauses \/ HmiEnds
      BY <1>0, <3>1, Zenon DEF MainEnds, Leave, NoCampaignId, HmiPauses, HmiEnds, Control, thread
    <3>2. CASE RunForeverSteps
      <4>1. UNCHANGED <<main, r>> /\ (faults' = faults \/ Fault)
        BY <3>2, Zenon DEF RunForeverSteps, thread
      <4> QED  BY <1>0, <4>1, FaultIn, Zenon DEF Control
    <3> QED  BY <1>5, <3>1, <3>2, Zenon
  <2> QED  BY <1>0, <2>1, <2>2, Zenon DEF Data, Working, Rises
<1>6. CASE RunForeverCalls
  <2>0. RunForever \in Calls
    BY ApplicationAssumption, Zenon
  <2>1. /\ Call(RunForever) /\ UNCHANGED <<main, r, value, updates, progress, work, faults>>
        /\ \E name \in Operations : \E ts \in SUBSET Targets : op' = [op EXCEPT ![RunForever] = [op |-> name, targets |-> ts]]
    BY <1>0, <1>6, <2>0, Zenon DEF RunForeverCalls, thread, hmi, client, Operations, Data
  <2>2. updates' \in SUBSET Targets
    BY <1>0, <2>1, Zenon DEF Data
  <2>3. Data' /\ Working'
    BY <1>0, <2>0, <2>1, <2>2, CallData, Zenon
  <2> QED  BY <1>0, <2>1, <2>3, Zenon DEF Control, Rises
<1>7. CASE RunForeverGets
  <2>1. UNCHANGED <<api, task, main, r, op, value, updates, progress, work, faults>>
    BY <1>7, Zenon DEF RunForeverGets, Get, thread, hmi, client
  <2> QED  BY <1>0, <2>1, Zenon DEF Data, Working, Control, Rises
<1>8. ASSUME NEW command \in {"senddevicedata", "check", "download", "install", "campaigncheck"}, HmiCalls(command)
      PROVE  Data' /\ Working' /\ Control' /\ Rises
  <2>1. made + 1 \in 1..Len(Commands)
    BY <1>0, <1>8, CallPlaces, Zenon DEF QInv
  <2>2. Commands[made + 1] \in Calls /\ command \in Operations
    BY <2>1, CommandsAre, Zenon DEF Operations
  <2>3. (IF command \in {"download", "install"} THEN updates ELSE {}) \in SUBSET Targets /\ updates' \in SUBSET Targets
    BY <1>0, <1>8, Zenon DEF Data, HmiCalls
  <2>4. /\ Call(Commands[made + 1]) /\ main' \in {"get", "read"} /\ UNCHANGED <<r, value, progress, work, faults>>
        /\ op' = [op EXCEPT ![Commands[made + 1]] = [op |-> command, targets |-> IF command \in {"download", "install"} THEN updates ELSE {}]]
    BY <1>8, Zenon DEF HmiCalls, client
  <2>5. Data' /\ Working'
    BY <1>0, <2>2, <2>3, <2>4, CallData, Zenon
  <2> QED  BY <1>0, <2>4, <2>5, Zenon DEF Control, Rises
<1>9. ASSUME NEW u \in Users, UserCalls(u) PROVE Data' /\ Working' /\ Control' /\ Rises
  <2>0. u \in Calls /\ "senddevicedata" \in Operations /\ {} \in SUBSET Targets
    BY ApplicationAssumption, Zenon DEF Operations
  <2>1. UNCHANGED <<main, r, value, updates, progress, work, faults>>
    BY <1>9, Zenon DEF UserCalls, thread, hmi, client
  <2>2. CASE Call(u) /\ op' = [op EXCEPT ![u] = [op |-> "senddevicedata", targets |-> {}]]
    <3>1. updates' \in SUBSET Targets
      BY <1>0, <2>1, Zenon DEF Data
    <3>2. Data' /\ Working'
      BY <1>0, <2>0, <2>1, <2>2, <3>1, CallData, Zenon
    <3> QED  BY <1>0, <2>1, <3>2, Zenon DEF Control, Rises
  <2>3. CASE Get(u) /\ UNCHANGED op
    BY <1>0, <2>1, <2>3, Zenon DEF Get, Data, Working, Control, Rises
  <2> QED  BY <1>9, <2>2, <2>3, Zenon DEF UserCalls
<1>10. CASE Wakeup \/ FinishShutdown \/ UserShutsDown
  <2>1. UNCHANGED <<main, r, op, value, updates, progress, work, faults>>
    BY <1>10, Zenon DEF Wakeup, FinishShutdown, UserShutsDown, thread, hmi, client
  <2>2. api = "run" => api' = "run" /\ task' = task
    BY <1>10, Zenon DEF Wakeup, FinishShutdown, UserShutsDown, SpuriousWakeup, shutDown, Shutdown, enqueue
  <2> QED  BY <1>0, <2>1, <2>2, Zenon DEF Data, Working, Control, Rises
<1> QED
  BY <1>1, <1>2, <1>3, <1>4, <1>5, <1>6, <1>7, <1>8, <1>9, <1>10, Zenon DEF Next, ApiThread, MainThread, Typed

LEMMA ThreadsInvariant == Spec => []TInv
<1>1. Init => TInv
  <2> SUFFICES ASSUME Init PROVE Data /\ Working /\ Control
    BY QueueInitially, Zenon DEF TInv
  <2>1. /\ op = [c \in Calls |-> [op |-> "none", targets |-> {}]] /\ value = [c \in Calls |-> {}] /\ updates = {}
        /\ progress = [t \in Targets |-> 0] /\ work = Idle /\ r = -1 /\ faults = 0
        /\ main \in {"full", "once", "library", "read"}
    BY Zenon DEF Init
  <2>2. [op |-> "none", targets |-> {}] \in [op : Operations, targets : SUBSET Targets]
    BY Zenon DEF Operations
  <2>3. Data
    BY <2>1, <2>2, Zenon DEF Data
  <2> QED  BY <2>1, <2>3, IdleWork, ApplicationAssumption DEF Working, Control
<1> QED  BY <1>1, ThreadsStep, PTL DEF Spec

\* The queue and the threads keep their form, for any calls and threads.
THEOREM TypeCorrect == Spec => []TypeOK
<1>1. TInv => TypeOK
  <2> SUFFICES ASSUME TInv PROVE TypeOK
    OBVIOUS
  <2>1. QInv /\ Working /\ Control
    BY Zenon DEF TInv
  <2>2. work.phase # "idle" <=> (api = "run" /\ op[task].op = "download" /\ work # Idle)
    BY <2>1, IdleWork, Zenon DEF Working
  <2>3. work.got \in {0, 50, 100} /\ work.tries \in 1..3
    BY <2>1, Zenon DEF Working, Work
  <2> QED  BY <2>1, <2>2, <2>3, Zenon DEF TypeOK, QInv, MainAt, Control
<1> QED  BY <1>1, ThreadsInvariant, PTL

\* process_event of hmi_stub: for any number of targets, tries and pauses, the
\* percentage shown of a file rises until the file is done.
THEOREM ShownProgressRises == Spec => ProgressRises
<1>1. TInv /\ [Next]_vars
      => [\A t \in Targets : progress'[t] # progress[t] => IF t \in work'.left THEN progress'[t] > progress[t] ELSE progress'[t] = 0]_vars
  BY ThreadsStep, Zenon DEF Rises
<1> QED  BY <1>1, ThreadsInvariant, PTL DEF Spec, ProgressRises

-----------------------------------------------------------------------------
(* What main is told. *)

\* main's calls are announced from the first on; those that were made and not
\* announced wait in the order in which they were made, until the API thread
\* has ended.
Waiting(i) == i \in (Len(events) + 1)..made
Announced ==
  /\ events \in Seq({EventOf[o] : o \in Operations}) /\ Len(events) <= made
  /\ \A i \in 1..Len(events) : events[i] = EventOf[op[Commands[i]].op]
Answered ==
  \A i \in 1..Len(Commands) :
    /\ i <= Len(events) => future[Commands[i]] \in {"ready", "none"}
    /\ i > made => future[Commands[i]] = "none"
    /\ Waiting(i) => future[Commands[i]] # "ready" /\ (api # "exit" => future[Commands[i]] = "pending")
Ended == (api = "exit" => shutdown_) /\ \A c \in Calls : future[c] = "broken" => api = "exit"
InOrder ==
  \A i, j \in 1..Len(Commands) : \A b \in DOMAIN q_ :
    q_[b] = Commands[j] => /\ Held(Commands[i]) => i < j
                           /\ \A a \in DOMAIN q_ : a < b /\ q_[a] = Commands[i] => i < j
AInv == Announced /\ Answered /\ Ended /\ InOrder

\* How a step may change what is announced.
Quiet == UNCHANGED <<made, events, op>>
OpKept(c) == \A b \in Calls \ {c} : op'[b] = op[b]
AStep ==
  \/ Quiet /\ UNCHANGED queue
  \/ Quiet /\ (dequeue \/ Woken \/ SpuriousWakeup \/ ApiLoop \/ ApiGot \/ Shutdown \/ shutDown)
  \/ Quiet /\ \E c \in Calls : Get(c)
  \/ /\ UNCHANGED <<made, op>> /\ api = "run" /\ Answer
     /\ events' = IF task \in Range(Commands) THEN Append(events, EventOf[op[task].op]) ELSE events
  \/ \E c \in Calls \ Range(Commands) : Call(c) /\ OpKept(c) /\ UNCHANGED <<made, events>>
  \/ /\ made + 1 \in 1..Len(Commands) /\ Call(Commands[made + 1]) /\ OpKept(Commands[made + 1])
     /\ made' = made + 1 /\ events' = events

LEMMA NamesApart ==
  /\ \A i, j \in 1..Len(Commands) : Commands[i] = Commands[j] => i = j
  /\ Range(Commands) = {Commands[i] : i \in 1..Len(Commands)}
  /\ \A u \in Users \cup {RunForever} : u \in Calls \ Range(Commands)
  /\ Stop \notin Calls
<1>1. Commands \in Seq(Calls \ (Users \cup {RunForever}))
  BY ApplicationAssumption, Zenon
<1>2. DOMAIN Commands = 1..Len(Commands) /\ \A i \in 1..Len(Commands) : Commands[i] \in Calls \ (Users \cup {RunForever})
  BY <1>1
<1>3. Range(Commands) = {Commands[i] : i \in 1..Len(Commands)}
  BY <1>2, Zenon DEF Range
<1> QED  BY <1>2, <1>3, ApplicationAssumption, Zenon

LEMMA NextAnnounces == TInv /\ [Next]_vars => AStep
<1> SUFFICES ASSUME TInv, [Next]_vars PROVE AStep
  OBVIOUS
<1>0. op \in [Calls -> [op : Operations, targets : SUBSET Targets]] /\ MainAt
  BY Zenon DEF TInv, Data, QInv
<1>a. \A c, o : op' = [op EXCEPT ![c] = o] => OpKept(c)
  BY <1>0, Zenon DEF OpKept
<1>1. CASE UNCHANGED vars
  BY <1>1, Zenon DEF vars, thread, AStep, Quiet
<1>2. CASE Api
  <2>1. CASE (dequeue \/ Woken \/ ApiLoop \/ ApiGot) /\ UNCHANGED <<mode, thread, rf, op, value, events, hmi, client, faults>>
    BY <2>1, Zenon DEF AStep, Quiet, thread
  <2>2. CASE sendDeviceData \/ campaignCheck \/ uptaneInstall
    BY <2>2, Zenon DEF sendDeviceData, campaignCheck, uptaneInstall, Run, Complete, AStep, thread
  <2>3. CASE fetchMeta
    BY <2>3, Zenon DEF fetchMeta, Run, Complete, AStep, Quiet, thread
  <2>4. CASE downloadImages
    BY <2>4, Zenon DEF downloadImages, Run, Complete, AStep, Quiet, thread
  <2>5. CASE fetchVerifyTarget \/ pull \/ aktualizr_progress_cb
    BY <2>5, Zenon DEF fetchVerifyTarget, pull, aktualizr_progress_cb, AStep, Quiet, thread
  <2> QED  BY <1>2, <2>1, <2>2, <2>3, <2>4, <2>5, Zenon DEF Api
<1>3. CASE MainCalls
  <2>1. made + 1 \in 1..Len(Commands)
    BY <1>0, <1>3, CallPlaces, Zenon
  <2>2. OpKept(Commands[made + 1])
    BY <1>3, <1>a, Zenon DEF MainCalls
  <2> QED  BY <1>3, <2>1, <2>2, Zenon DEF MainCalls, AStep
<1>4. CASE MainGets
  <2>1. Commands[made] \in Calls
    BY <1>0, <1>4, CallPlaces, Zenon
  <2> QED  BY <1>4, <2>1, Zenon DEF MainGets, AStep, Quiet
<1>5. CASE MainEnds \/ Leave \/ NoCampaignId \/ HmiPauses \/ HmiEnds \/ RunForeverSteps
  BY <1>5, Zenon DEF MainEnds, Leave, NoCampaignId, HmiPauses, HmiEnds, RunForeverSteps, AStep, Quiet, thread
<1>6. CASE RunForeverCalls
  <2>1. OpKept(RunForever)
    BY <1>6, <1>a, Zenon DEF RunForeverCalls
  <2> QED  BY <1>6, <2>1, NamesApart, Zenon DEF RunForeverCalls, AStep, thread
<1>7. CASE RunForeverGets
  BY <1>7, NamesApart, Zenon DEF RunForeverGets, AStep, Quiet, thread
<1>8. ASSUME NEW command, HmiCalls(command) PROVE AStep
  <2>1. made + 1 \in 1..Len(Commands)
    BY <1>0, <1>8, CallPlaces, Zenon
  <2>2. OpKept(Commands[made + 1])
    BY <1>8, <1>a, Zenon DEF HmiCalls
  <2> QED  BY <1>8, <2>1, <2>2, Zenon DEF HmiCalls, AStep
<1>9. CASE Wakeup \/ FinishShutdown \/ UserShutsDown
  BY <1>9, Zenon DEF Wakeup, FinishShutdown, UserShutsDown, AStep, Quiet, thread
<1>10. ASSUME NEW u \in Users, UserCalls(u) PROVE AStep
  <2>1. CASE Call(u) /\ op' = [op EXCEPT ![u] = [op |-> "senddevicedata", targets |-> {}]]
    <3>1. OpKept(u)
      BY <2>1, <1>a, Zenon
    <3> QED  BY <1>10, <2>1, <3>1, NamesApart, Zenon DEF UserCalls, AStep, thread
  <2>2. CASE Get(u) /\ UNCHANGED op
    BY <1>10, <2>2, NamesApart, Zenon DEF UserCalls, AStep, Quiet, thread
  <2> QED  BY <1>10, <2>1, <2>2, Zenon DEF UserCalls
<1> QED
  BY <1>1, <1>2, <1>3, <1>4, <1>5, <1>6, <1>7, <1>8, <1>9, <1>10, Zenon DEF Next, ApiThread, MainThread, Typed

\* Where main's calls are, as PendingIsQueued has it.
LEMMA CommandsPend ==
  ASSUME QInv
  PROVE  /\ \A c \in Calls : Held(c) \/ Queued(c) => future[c] = "pending"
         /\ \A c \in Calls : future[c] = "pending" => Held(c) \/ Queued(c)
         /\ \A c \in Calls : ~(Held(c) /\ Queued(c))
         /\ made \in Nat /\ made <= Len(Commands) /\ Len(Commands) \in Nat
         /\ q_ \in Seq(Calls \cup {Stop}) /\ DOMAIN q_ = 1..Len(q_) /\ Len(q_) \in Nat
         /\ future \in [Calls -> {"none", "pending", "ready", "broken"}]
<1>1. \A c \in Calls : Pending(c)
  BY PendingForm, Zenon DEF QInv
<1> QED  BY <1>1, CommandsAre DEF QInv, MainAt, QueueTypeOK, Pending

\* Steps in which main's calls stay where they are.
LEMMA QuietKeeps ==
  ASSUME AInv, Quiet, future' = future, q_' = q_, \A i \in 1..Len(Commands) : Held(Commands[i])' => Held(Commands[i]),
         api = "exit" <=> api' = "exit", shutdown_ => shutdown_'
  PROVE  AInv'
<1>1. Announced' /\ Answered' /\ Ended'
  BY Zenon DEF AInv, Quiet, Announced, Answered, Ended, Waiting
<1>2. InOrder'
  BY Zenon DEF AInv, Quiet, InOrder
<1> QED  BY <1>1, <1>2, Zenon DEF AInv

LEMMA DequeueKeeps == ASSUME QInv, AInv, Quiet, dequeue PROVE AInv'
<1>1. api = "lock" /\ UNCHANGED <<shutdown_, stopping, future>>
  BY Zenon DEF dequeue, Flags
<1>2. CASE q_ = <<>>
  <2>1. api' = "waiting" /\ UNCHANGED <<q_, task>>
    BY <1>2, Zenon DEF dequeue
  <2> QED  BY <1>1, <2>1, QuietKeeps, Zenon DEF Held
<1>3. CASE q_ # <<>>
  <2>1. api' = "got" /\ task' = Head(q_) /\ q_' = Tail(q_) /\ q_ \in Seq(Calls \cup {Stop})
    BY <1>3, Zenon DEF dequeue, QInv, QueueTypeOK
  <2>2. /\ DOMAIN q_ = 1..Len(q_) /\ DOMAIN q_' = 1..(Len(q_) - 1) /\ Len(q_) \in Nat /\ Len(q_) >= 1
        /\ task' = q_[1] /\ \A i \in 1..(Len(q_) - 1) : q_'[i] = q_[i + 1]
    BY <1>3, <2>1
  <2>3. Announced' /\ Answered' /\ Ended'
    BY <1>1, <2>1, Zenon DEF AInv, Quiet, Announced, Answered, Ended, Waiting
  <2>4. ASSUME NEW i \in 1..Len(Commands), NEW j \in 1..Len(Commands), NEW b \in DOMAIN q_', q_'[b] = Commands[j]
        PROVE  /\ Held(Commands[i])' => i < j
               /\ \A a \in DOMAIN q_' : a < b /\ q_'[a] = Commands[i] => i < j
    <3>1. b + 1 \in DOMAIN q_ /\ q_[b + 1] = Commands[j] /\ 1 \in DOMAIN q_ /\ 1 < b + 1
      BY <2>2, <2>4
    <3>2. \A a \in DOMAIN q_ : a < b + 1 /\ q_[a] = Commands[i] => i < j
      BY <3>1, Zenon DEF AInv, InOrder
    <3>3. Held(Commands[i])' => q_[1] = Commands[i]
      BY <2>2, Zenon DEF Held
    <3>4. ASSUME NEW a \in DOMAIN q_', a < b, q_'[a] = Commands[i] PROVE i < j
      <4>1. a + 1 \in DOMAIN q_ /\ q_[a + 1] = Commands[i] /\ a + 1 < b + 1
        BY <2>2, <3>4
      <4> QED  BY <3>2, <4>1, Zenon
    <3> QED  BY <3>1, <3>2, <3>3, <3>4, Zenon
  <2>5. InOrder'
    BY <2>4, Zenon DEF InOrder
  <2> QED  BY <2>3, <2>5, Zenon DEF AInv
<1> QED  BY <1>2, <1>3, Zenon

LEMMA GotKeeps == ASSUME QInv, AInv, Quiet, ApiGot PROVE AInv'
<1>1. api = "got" /\ UNCHANGED <<q_, shutdown_, stopping, task>>
  BY Zenon DEF ApiGot, Flags
<1>2. CASE ~shutdown_
  <2>1. api' = "run" /\ future' = future
    BY <1>2, Zenon DEF ApiGot
  <2> QED  BY <1>1, <2>1, QuietKeeps, Zenon DEF Held
<1>3. CASE shutdown_
  <2>1. api' = "exit" /\ future' = IF task = Stop THEN future ELSE [future EXCEPT ![task] = "broken"]
    BY <1>3, Zenon DEF ApiGot
  <2>2. future \in [Calls -> {"none", "pending", "ready", "broken"}] /\ \A i \in 1..Len(Commands) : Commands[i] \in Calls
    BY CommandsPend, CommandsAre, Zenon
  <2>3. \A i \in 1..Len(Commands) : \/ future'[Commands[i]] = future[Commands[i]]
                                    \/ future'[Commands[i]] = "broken" /\ future[Commands[i]] = "pending"
    <3> SUFFICES ASSUME NEW i \in 1..Len(Commands), Commands[i] = task, task # Stop
                 PROVE  future'[Commands[i]] = "broken" /\ future[Commands[i]] = "pending"
      BY <2>1, <2>2, Zenon
    <3>1. Held(Commands[i])
      BY <1>1, Zenon DEF Held
    <3> QED  BY <2>1, <2>2, <3>1, CommandsPend, Zenon
  <2>4. Announced' /\ Ended'
    BY <1>1, <1>3, <2>1, Zenon DEF AInv, Quiet, Announced, Ended
  <2>5. Answered'
    BY <2>1, <2>3, Zenon DEF AInv, Quiet, Answered, Waiting
  <2>6. InOrder'
    BY <1>1, <2>1, Zenon DEF AInv, InOrder, Held
  <2> QED  BY <2>4, <2>5, <2>6, Zenon DEF AInv
<1> QED  BY <1>2, <1>3, Zenon

LEMMA GetKeeps == ASSUME QInv, AInv, Quiet, NEW c \in Calls, Get(c) PROVE AInv'
<1>1. /\ future[c] \in {"ready", "broken"} /\ future' = [future EXCEPT ![c] = "none"]
      /\ UNCHANGED <<q_, shutdown_, stopping, api, task>>
  BY Zenon DEF Get, Flags
<1>2. future \in [Calls -> {"none", "pending", "ready", "broken"}] /\ \A i \in 1..Len(Commands) : Commands[i] \in Calls
  BY CommandsPend, CommandsAre, Zenon
<1>3. future[c] = "broken" => api = "exit"
  BY Zenon DEF AInv, Ended
<1>4. \A b \in Calls : \/ future'[b] = future[b]
                       \/ future'[b] = "none" /\ (future[b] = "ready" \/ api = "exit")
  BY <1>1, <1>2, <1>3, Zenon
<1>5. Answered'
  <2> SUFFICES ASSUME NEW i \in 1..Len(Commands)
               PROVE  /\ i <= Len(events) => future'[Commands[i]] \in {"ready", "none"}
                      /\ i > made => future'[Commands[i]] = "none"
                      /\ Waiting(i) => future'[Commands[i]] # "ready" /\ (api # "exit" => future'[Commands[i]] = "pending")
    BY <1>1, Zenon DEF Answered, Waiting, Quiet
  <2>1. Commands[i] \in Calls
    BY <1>2, Zenon
  <2>2. \/ future'[Commands[i]] = future[Commands[i]]
        \/ future'[Commands[i]] = "none" /\ (future[Commands[i]] = "ready" \/ api = "exit")
    BY <1>4, <2>1, Zenon
  <2> QED  BY <2>2, Zenon DEF AInv, Answered
<1>6. Announced' /\ InOrder'
  BY <1>1, Zenon DEF AInv, Quiet, Announced, InOrder, Held
<1>7. Ended'
  BY <1>1, <1>4, Zenon DEF AInv, Ended
<1> QED  BY <1>5, <1>6, <1>7, Zenon DEF AInv

\* The task that ends is the first of main's calls that was not announced, or
\* none of main's.
LEMMA AnswerKeeps ==
  ASSUME QInv, AInv, op \in [Calls -> [op : Operations, targets : SUBSET Targets]],
         UNCHANGED <<made, op>>, api = "run", Answer,
         events' = IF task \in Range(Commands) THEN Append(events, EventOf[op[task].op]) ELSE events
  PROVE  AInv'
<1>1. task \in Calls /\ api' = "loop" /\ UNCHANGED <<q_, shutdown_, task>> /\ future' = [future EXCEPT ![task] = "ready"]
  BY Zenon DEF Answer, Flags, QInv, QueueTypeOK
<1>2. /\ future \in [Calls -> {"none", "pending", "ready", "broken"}]
      /\ \A i \in 1..Len(Commands) : Commands[i] \in Calls
      /\ made \in Nat /\ made <= Len(Commands) /\ Len(Commands) \in Nat
  BY CommandsPend, CommandsAre, Zenon
<1>3. Held(task) /\ future[task] = "pending"
  BY <1>1, CommandsPend, Zenon DEF Held
<1>4. InOrder'
  BY <1>1, Zenon DEF AInv, InOrder, Held
<1>5. Ended'
  BY <1>1, <1>2, Zenon DEF AInv, Ended
<1>6. Len(events) \in Nat
  BY DEF AInv, Announced
<1>7. CASE task \notin Range(Commands)
  <2>1. events' = events /\ \A i \in 1..Len(Commands) : future'[Commands[i]] = future[Commands[i]]
    BY <1>1, <1>2, <1>7, NamesApart, Zenon
  <2>2. Announced' /\ Answered'
    BY <1>1, <2>1, Zenon DEF AInv, Announced, Answered, Waiting
  <2> QED  BY <1>4, <1>5, <2>2, Zenon DEF AInv
<1>8. CASE task \in Range(Commands)
  <2>1. PICK k \in 1..Len(Commands) : Commands[k] = task
    BY <1>8, NamesApart, Zenon
  <2>2. ~(k <= Len(events)) /\ ~(k > made)
    BY <1>3, <2>1, Zenon DEF AInv, Answered
  <2>3. k = Len(events) + 1
    <3> SUFFICES ASSUME k # Len(events) + 1 PROVE FALSE
      OBVIOUS
    <3>1. Len(events) + 1 \in 1..Len(Commands) /\ Len(events) + 1 \in (Len(events) + 1)..made /\ Len(events) + 1 < k
      BY <1>2, <1>6, <2>2
    <3> DEFINE n == Len(events) + 1
    <3>2. n \in 1..Len(Commands) /\ Waiting(n) /\ n < k /\ n \in Nat
      BY <3>1, <1>6 DEF Waiting
    <3> HIDE DEF n
    <3>3. future[Commands[n]] = "pending" /\ Commands[n] \in Calls /\ Commands[n] # task
      BY <1>2, <2>1, <3>2, NamesApart DEF AInv, Answered
    <3>4. Queued(Commands[n])
      BY <3>3, CommandsPend, Zenon DEF Held
    <3>5. PICK b \in DOMAIN q_ : q_[b] = Commands[n]
      BY <3>4, Zenon DEF Queued
    <3>6. k < n
      BY <1>3, <2>1, <3>2, <3>5, Zenon DEF AInv, InOrder
    <3> QED  BY <3>2, <3>6
  <2>4. events' = Append(events, EventOf[op[task].op])
    BY <1>8, Zenon
  <2>5. op[task].op \in Operations
    BY <1>1, Zenon
  <2>6. events \in Seq({EventOf[o] : o \in Operations}) /\ EventOf[op[task].op] \in {EventOf[o] : o \in Operations}
    BY <2>5, Zenon DEF AInv, Announced
  <2>7. /\ events' \in Seq({EventOf[o] : o \in Operations}) /\ Len(events') = k
        /\ events'[k] = EventOf[op[task].op] /\ \A i \in 1..(k - 1) : events'[i] = events[i]
    BY <2>3, <2>4, <2>6
  <2>8. k <= made /\ k \in Nat
    BY <1>2, <2>2
  <2>9. Announced'
    <3>1. ASSUME NEW i \in 1..k PROVE events'[i] = EventOf[op[Commands[i]].op]
      <4>1. CASE i = k
        BY <2>1, <2>7, <4>1, Zenon
      <4>2. CASE i # k
        <5>1. i \in 1..(k - 1) /\ i \in 1..Len(events)
          BY <1>6, <2>3, <4>2
        <5> QED  BY <2>7, <5>1, Zenon DEF AInv, Announced
      <4> QED  BY <4>1, <4>2, Zenon
    <3> QED  BY <2>7, <2>8, <3>1, Zenon DEF Announced
  <2>10. \A i \in 1..Len(Commands) : future'[Commands[i]] = IF i = k THEN "ready" ELSE future[Commands[i]]
    BY <1>1, <1>2, <2>1, NamesApart, Zenon
  <2>11. Answered'
    <3> SUFFICES ASSUME NEW i \in 1..Len(Commands)
                 PROVE  /\ i <= k => future'[Commands[i]] \in {"ready", "none"}
                        /\ i > made => future'[Commands[i]] = "none"
                        /\ i \in (k + 1)..made => future'[Commands[i]] = "pending"
      BY <2>7, Zenon DEF Answered, Waiting
    <3>1. CASE i = k
      <4>1. future'[Commands[i]] = "ready"
        BY <2>10, <3>1, Zenon
      <4>2. ~(i > made) /\ i \notin (k + 1)..made
        BY <1>2, <2>8, <3>1
      <4> QED  BY <4>1, <4>2, Zenon
    <3>2. CASE i # k
      <4>1. (i <= k => i <= Len(events)) /\ (i \in (k + 1)..made => i \in (Len(events) + 1)..made)
        BY <1>6, <2>3, <2>8, <3>2
      <4> QED  BY <2>10, <3>2, <4>1 DEF AInv, Answered, Waiting
    <3> QED  BY <3>1, <3>2, Zenon
  <2> QED  BY <1>4, <1>5, <2>9, <2>11, Zenon DEF AInv
<1> QED  BY <1>7, <1>8, Zenon

\* A task behind the others.
LEMMA EnqueueOrder ==
  ASSUME QInv, NEW t \in Calls \cup {Stop}, enqueue(t), UNCHANGED task
  PROVE  /\ DOMAIN q_ = 1..Len(q_) /\ DOMAIN q_' = 1..(Len(q_) + 1) /\ Len(q_) \in Nat
         /\ q_'[Len(q_) + 1] = t /\ \A i \in 1..Len(q_) : q_'[i] = q_[i]
         /\ \A c : Held(c)' <=> Held(c)
         /\ api = "exit" <=> api' = "exit"
<1>1. q_ \in Seq(Calls \cup {Stop}) /\ q_' = Append(q_, t) /\ api' = IF api = "waiting" THEN "woken" ELSE api
  BY Zenon DEF QInv, QueueTypeOK, enqueue
<1> QED  BY <1>1 DEF Held

LEMMA ForeignOrder ==
  ASSUME QInv, InOrder, NEW t \in Calls \cup {Stop}, t \notin Range(Commands), enqueue(t), UNCHANGED task
  PROVE  InOrder'
<1>1. /\ DOMAIN q_ = 1..Len(q_) /\ DOMAIN q_' = 1..(Len(q_) + 1) /\ Len(q_) \in Nat
      /\ q_'[Len(q_) + 1] = t /\ \A i \in 1..Len(q_) : q_'[i] = q_[i]
      /\ \A c : Held(c)' <=> Held(c)
  BY EnqueueOrder, Zenon
<1>2. \A b \in DOMAIN q_' : \A j \in 1..Len(Commands) : q_'[b] = Commands[j] => b \in DOMAIN q_ /\ q_[b] = Commands[j]
  BY <1>1, NamesApart
<1> QED  BY <1>1, <1>2, Zenon DEF InOrder

LEMMA StopKeeps == ASSUME QInv, AInv, Quiet, shutDown PROVE AInv'
<1>1. UNCHANGED <<shutdown_, task, future>>
  BY Zenon DEF shutDown
<1>2. CASE UNCHANGED <<q_, api>>
  BY <1>1, <1>2, QuietKeeps, Zenon DEF Held
<1>3. CASE enqueue(Stop)
  <2>1. Stop \notin Range(Commands)
    BY NamesApart, CommandsAre
  <2>2. InOrder'
    BY <1>1, <1>3, <2>1, ForeignOrder, Zenon DEF AInv
  <2>3. api = "exit" <=> api' = "exit"
    BY <1>1, <1>3, EnqueueOrder, Zenon
  <2>4. Announced' /\ Answered' /\ Ended'
    BY <1>1, <2>3, Zenon DEF AInv, Quiet, Announced, Answered, Ended, Waiting
  <2> QED  BY <2>2, <2>4, Zenon DEF AInv
<1> QED  BY <1>2, <1>3, Zenon DEF shutDown

LEMMA ForeignCallKeeps ==
  ASSUME QInv, AInv, NEW c \in Calls \ Range(Commands), Call(c), OpKept(c), UNCHANGED <<made, events>>
  PROVE  AInv'
<1>1. future' = [future EXCEPT ![c] = "pending"] /\ enqueue(c) /\ UNCHANGED <<shutdown_, task>>
  BY Zenon DEF Call, Flags
<1>2. /\ future \in [Calls -> {"none", "pending", "ready", "broken"}]
      /\ \A i \in 1..Len(Commands) : Commands[i] \in Calls /\ Commands[i] # c
      /\ made \in Nat /\ made <= Len(Commands) /\ Len(Commands) \in Nat
  BY CommandsPend, CommandsAre, NamesApart, Zenon
<1>3. \A i \in 1..Len(Commands) : future'[Commands[i]] = future[Commands[i]] /\ op'[Commands[i]] = op[Commands[i]]
  BY <1>1, <1>2, Zenon DEF OpKept
<1>4. api = "exit" <=> api' = "exit"
  BY <1>1, EnqueueOrder, Zenon
<1>5. \A i \in 1..Len(events) : i \in 1..Len(Commands)
  BY <1>2 DEF AInv, Announced
<1>6. Announced'
  BY <1>3, <1>5, Zenon DEF AInv, Announced
<1>7. Answered'
  BY <1>3, <1>4, Zenon DEF AInv, Answered, Waiting
<1>8. Ended'
  BY <1>1, <1>2, <1>4, Zenon DEF AInv, Ended
<1>9. InOrder'
  BY <1>1, ForeignOrder, Zenon DEF AInv
<1> QED  BY <1>6, <1>7, <1>8, <1>9, Zenon DEF AInv

\* main's next call goes behind those it made before.
LEMMA MainCallKeeps ==
  ASSUME QInv, AInv, made + 1 \in 1..Len(Commands), Call(Commands[made + 1]), OpKept(Commands[made + 1]),
         made' = made + 1, events' = events
  PROVE  AInv'
<1> DEFINE k == made + 1
           c == Commands[k]
<1>0. /\ future \in [Calls -> {"none", "pending", "ready", "broken"}]
      /\ \A i \in 1..Len(Commands) : Commands[i] \in Calls
      /\ made \in Nat /\ made <= Len(Commands) /\ Len(Commands) \in Nat
  BY CommandsPend, CommandsAre, Zenon
<1>1. /\ k \in 1..Len(Commands) /\ made' = k /\ c \in Calls /\ OpKept(c) /\ k \in Nat /\ made < k /\ \A i \in Nat : i <= k /\ i # k => i <= made
      /\ future' = [future EXCEPT ![c] = "pending"] /\ enqueue(c) /\ UNCHANGED <<shutdown_, task>>
  BY <1>0 DEF Call, Flags
<1>2. \A i \in 1..Len(Commands) : i # k => Commands[i] # c
  BY <1>1, NamesApart, Zenon
<1> HIDE DEF k
<1>3. \A i \in 1..Len(Commands) : i # k => future'[Commands[i]] = future[Commands[i]] /\ op'[Commands[i]] = op[Commands[i]]
  BY <1>0, <1>1, <1>2, Zenon DEF OpKept
<1>4. future'[c] = "pending"
  BY <1>0, <1>1, Zenon
<1>5. /\ DOMAIN q_ = 1..Len(q_) /\ DOMAIN q_' = 1..(Len(q_) + 1) /\ Len(q_) \in Nat
      /\ q_'[Len(q_) + 1] = c /\ \A i \in 1..Len(q_) : q_'[i] = q_[i]
      /\ \A b : Held(b)' <=> Held(b)
      /\ api = "exit" <=> api' = "exit"
  BY <1>1, EnqueueOrder, Zenon
<1>6. Len(events) \in Nat /\ Len(events) <= made
  BY DEF AInv, Announced
<1>7. Announced'
  <2>1. \A i \in 1..Len(events) : i \in 1..Len(Commands) /\ i # k
    BY <1>0, <1>1, <1>6
  <2>2. Len(events) <= k
    BY <1>0, <1>1, <1>6
  <2> QED  BY <1>1, <1>3, <2>1, <2>2, Zenon DEF AInv, Announced
<1>8. Answered'
  <2> SUFFICES ASSUME NEW i \in 1..Len(Commands)
               PROVE  /\ i <= Len(events) => future'[Commands[i]] \in {"ready", "none"}
                      /\ i > k => future'[Commands[i]] = "none"
                      /\ i \in (Len(events) + 1)..k => future'[Commands[i]] # "ready" /\ (api # "exit" => future'[Commands[i]] = "pending")
    BY <1>1, <1>5, Zenon DEF Answered, Waiting
  <2>1. CASE i = k
    <3>1. ~(i <= Len(events)) /\ ~(i > k)
      BY <1>0, <1>1, <1>6, <2>1
    <3> QED  BY <1>4, <2>1, <3>1, Zenon
  <2>2. CASE i # k
    <3>1. (i > k => i > made) /\ (i \in (Len(events) + 1)..k => i \in (Len(events) + 1)..made)
      BY <1>0, <1>1, <1>6, <2>2
    <3>2. future'[Commands[i]] = future[Commands[i]]
      BY <1>3, <2>2, Zenon
    <3> QED  BY <3>1, <3>2, Zenon DEF AInv, Answered, Waiting
  <2> QED  BY <2>1, <2>2, Zenon
<1>9. Ended'
  BY <1>0, <1>1, <1>5, Zenon DEF AInv, Ended
<1>10. \A i \in 1..Len(Commands) : Held(Commands[i]) \/ Queued(Commands[i]) => i < k
  <2> SUFFICES ASSUME NEW i \in 1..Len(Commands), Held(Commands[i]) \/ Queued(Commands[i]) PROVE i < k
    OBVIOUS
  <2>1. future[Commands[i]] = "pending"
    BY <1>0, CommandsPend, Zenon
  <2>2. ~(i > made)
    BY <2>1, Zenon DEF AInv, Answered
  <2> QED  BY <1>0, <1>1, <2>2
<1>11. InOrder'
  <2> SUFFICES ASSUME NEW i \in 1..Len(Commands), NEW j \in 1..Len(Commands), NEW b \in DOMAIN q_', q_'[b] = Commands[j]
               PROVE  /\ Held(Commands[i]) => i < j
                      /\ \A a \in DOMAIN q_' : a < b /\ q_'[a] = Commands[i] => i < j
    BY <1>5, Zenon DEF InOrder
  <2>1. CASE b \in DOMAIN q_
    <3>1. q_[b] = Commands[j]
      BY <1>5, <2>1, Zenon
    <3>2. \A a \in DOMAIN q_' : a < b => a \in DOMAIN q_ /\ q_'[a] = q_[a]
      BY <1>5, <2>1
    <3> QED  BY <2>1, <3>1, <3>2, Zenon DEF AInv, InOrder
  <2>2. CASE b \notin DOMAIN q_
    <3>1. b = Len(q_) + 1
      BY <1>5, <2>2
    <3>2. j = k
      BY <1>2, <1>5, <3>1, Zenon
    <3>3. \A a \in DOMAIN q_' : a < b => a \in DOMAIN q_ /\ q_'[a] = q_[a]
      BY <1>5, <3>1
    <3>4. \A a \in DOMAIN q_' : a < b /\ q_'[a] = Commands[i] => Queued(Commands[i])
      BY <3>3, Zenon DEF Queued
    <3> QED  BY <1>10, <3>2, <3>4, Zenon
  <2> QED  BY <2>1, <2>2, Zenon
<1> QED  BY <1>7, <1>8, <1>9, <1>11, Zenon DEF AInv

LEMMA AnnounceStep == TInv /\ AInv /\ [Next]_vars => AInv'
<1> SUFFICES ASSUME TInv, AInv, AStep PROVE AInv'
  BY NextAnnounces, Zenon
<1>0. QInv /\ op \in [Calls -> [op : Operations, targets : SUBSET Targets]] /\ Stop \notin Calls
      /\ \A i \in 1..Len(Commands) : Commands[i] \in Calls
  BY NamesApart, CommandsAre, Zenon DEF TInv, Data
<1>1. CASE Quiet /\ UNCHANGED queue
  BY <1>1, QuietKeeps, Zenon DEF queue, Held
<1>2. CASE Quiet /\ Woken
  <2>1. UNCHANGED <<q_, shutdown_, future>> /\ api = "woken" /\ (api' = "lock" \/ (api' = "got" /\ task' = Stop))
    BY <1>2, Zenon DEF Woken, Flags
  <2> QED  BY <1>0, <1>2, <2>1, QuietKeeps, Zenon DEF Held
<1>3. CASE Quiet /\ SpuriousWakeup
  <2>1. UNCHANGED <<q_, shutdown_, future>> /\ api = "waiting" /\ api' = "woken"
    BY <1>3, Zenon DEF SpuriousWakeup, Flags
  <2> QED  BY <1>3, <2>1, QuietKeeps, Zenon DEF Held
<1>4. CASE Quiet /\ ApiLoop
  <2>1. UNCHANGED <<q_, shutdown_, future, task>> /\ api = "loop"
        /\ (api' = "lock" \/ (api' = "exit" /\ shutdown_))
    BY <1>4, Zenon DEF ApiLoop, Flags
  <2>2. CASE api' = "lock"
    BY <1>4, <2>1, <2>2, QuietKeeps, Zenon DEF Held
  <2>3. CASE api' = "exit" /\ shutdown_
    <3>1. Announced' /\ Answered' /\ Ended'
      BY <1>4, <2>1, <2>3, Zenon DEF AInv, Quiet, Announced, Answered, Ended, Waiting
    <3>2. InOrder'
      BY <2>1, <2>3, Zenon DEF AInv, InOrder, Held
    <3> QED  BY <3>1, <3>2, Zenon DEF AInv
  <2> QED  BY <2>1, <2>2, <2>3, Zenon
<1>5. CASE Quiet /\ Shutdown
  <2>1. UNCHANGED <<q_, api, task, future>> /\ shutdown_'
    BY <1>5, Zenon DEF Shutdown
  <2> QED  BY <1>5, <2>1, QuietKeeps, Zenon DEF Held
<1>6. CASE Quiet /\ (dequeue \/ ApiGot \/ shutDown)
  BY <1>0, <1>6, DequeueKeeps, GotKeeps, StopKeeps, Zenon
<1>7. CASE Quiet /\ \E c \in Calls : Get(c)
  BY <1>0, <1>7, GetKeeps, Zenon
<1>8. CASE /\ UNCHANGED <<made, op>> /\ api = "run" /\ Answer
           /\ events' = IF task \in Range(Commands) THEN Append(events, EventOf[op[task].op]) ELSE events
  BY <1>0, <1>8, AnswerKeeps, Zenon
<1>9. CASE \E c \in Calls \ Range(Commands) : Call(c) /\ OpKept(c) /\ UNCHANGED <<made, events>>
  BY <1>0, <1>9, ForeignCallKeeps, Zenon
<1>10. CASE /\ made + 1 \in 1..Len(Commands) /\ Call(Commands[made + 1]) /\ OpKept(Commands[made + 1])
            /\ made' = made + 1 /\ events' = events
  BY <1>0, <1>10, MainCallKeeps, Zenon
<1> QED  BY <1>1, <1>2, <1>3, <1>4, <1>5, <1>6, <1>7, <1>8, <1>9, <1>10, Zenon DEF AStep

LEMMA AnnounceInvariant == Spec => [](TInv /\ AInv)
<1>1. Init => AInv
  <2> SUFFICES ASSUME Init PROVE AInv
    OBVIOUS
  <2>1. QueueInit /\ events = <<>> /\ made = 0
    BY Zenon DEF Init
  <2>2. q_ = <<>> /\ DOMAIN q_ = {} /\ api = "loop" /\ future = [c \in Calls |-> "none"]
    BY <2>1 DEF QueueInit
  <2>3. events \in Seq({EventOf[o] : o \in Operations}) /\ Len(events) = 0
    BY <2>1
  <2>4. Announced /\ InOrder
    BY <2>1, <2>2, <2>3 DEF Announced, InOrder
  <2>5. \A i \in 1..Len(Commands) : ~Waiting(i) /\ future[Commands[i]] = "none"
    BY <2>1, <2>2, <2>3, CommandsAre DEF Waiting
  <2>6. Answered /\ Ended
    BY <2>2, <2>5, Zenon DEF Answered, Ended
  <2> QED  BY <2>4, <2>6, Zenon DEF AInv
<1> QED  BY <1>1, AnnounceStep, ThreadsInvariant, PTL DEF Spec

\* Complete in every task, and the order of the queue: the handler of main's
\* events hears of each completed call once, in the order of the calls, and
\* not after the caller could read the result.
THEOREM EventsInOrder == Spec => []AnnouncedInOrder
<1>1. TInv /\ AInv => AnnouncedInOrder
  <2> SUFFICES ASSUME TInv, AInv PROVE AnnouncedInOrder
    OBVIOUS
  <2>1. /\ Len(events) \in Nat /\ Len(events) <= made /\ made \in Nat /\ made <= Len(Commands)
        /\ DOMAIN events = 1..Len(events) /\ DOMAIN Commands = 1..Len(Commands) /\ Len(Commands) \in Nat
    BY CommandsPend, CommandsAre, ApplicationAssumption DEF TInv, AInv, Announced
  <2>2. ASSUME NEW i \in 1..Len(Commands), future[Commands[i]] = "ready" PROVE i <= Len(events)
    <3>1. ~(i > made) /\ ~Waiting(i)
      BY <2>2, Zenon DEF AInv, Answered
    <3> QED  BY <2>1, <3>1 DEF Waiting
  <2> QED  BY <2>1, <2>2, Zenon DEF AnnouncedInOrder, AInv, Announced
<1> QED  BY <1>1, AnnounceInvariant, PTL

\* A run mode of aktualizr waits for each of its calls, and nobody shuts down
\* before its end.
EInv ==
  mode \in DOMAIN Script =>
    /\ main \notin {"full", "once", "library"}
    /\ main \in {"read", "get"} => ~shutdown_ /\ r = -1
    /\ main = "read" => Len(events) = made
    /\ r = 0 => made = Len(Script[mode]) /\ Len(events) = made

LEMMA Modes == {"hmi_stub", "library", "full", "once"} \cap DOMAIN Script = {}
<1>1. DOMAIN Script = {"campaign_check", "campaign_accept", "check", "download", "install"}
  BY Zenon DEF Script
<1> QED  BY <1>1, Zenon

LEMMA EventsGrow == ASSUME TInv, AInv, AStep, AInv' PROVE Len(events) <= Len(events') /\ Len(events) \in Nat /\ Len(events') \in Nat
<1>1. /\ events \in Seq({EventOf[o] : o \in Operations}) /\ events' \in Seq({EventOf[o] : o \in Operations})
  BY Zenon DEF AInv, Announced
<1>2. events' = events \/ \E e : events' = Append(events, e)
  BY Zenon DEF AStep, Quiet
<1>3. ASSUME NEW e, events' = Append(events, e) PROVE Len(events') = Len(events) + 1
  BY <1>1, <1>3
<1> QED  BY <1>1, <1>2, <1>3

\* Steps that leave main where it is, or end the process.
Aside == UNCHANGED <<mode, made, r>> /\ ((main' = main /\ shutdown_' = shutdown_) \/ main' = "dead" \/ mode \in {"hmi_stub", "library"})

LEMMA AsideKeeps ==
  ASSUME TInv, AInv, EInv, AInv', Len(events) <= Len(events'), Len(events) \in Nat, Len(events') \in Nat, Aside
  PROVE  EInv'
<1> SUFFICES ASSUME mode \in DOMAIN Script
             PROVE  /\ main' \notin {"full", "once", "library"}
                    /\ main' \in {"read", "get"} => ~shutdown_' /\ r' = -1
                    /\ main' = "read" => Len(events') = made'
                    /\ r' = 0 => made' = Len(Script[mode]) /\ Len(events') = made'
  BY Zenon DEF EInv, Aside
<1>1. UNCHANGED <<made, r>> /\ ((main' = main /\ shutdown_' = shutdown_) \/ main' = "dead")
  BY Modes, Zenon DEF Aside
<1>2. /\ main \notin {"full", "once", "library"}
      /\ main \in {"read", "get"} => ~shutdown_ /\ r = -1
      /\ main = "read" => Len(events) = made
      /\ r = 0 => made = Len(Script[mode]) /\ Len(events) = made
  BY Zenon DEF EInv
<1>3. Len(events) = made => Len(events') = made'
  <2>1. Len(events') <= made' /\ made \in Nat
    BY CommandsPend, Zenon DEF AInv, Announced, TInv
  <2> QED  BY <1>1, <2>1
<1> QED  BY <1>1, <1>2, <1>3

LEMMA EndStep == TInv /\ AInv /\ EInv /\ [Next]_vars => EInv'
<1> SUFFICES ASSUME TInv, AInv, EInv, [Next]_vars PROVE EInv'
  OBVIOUS
<1>0. AStep /\ AInv'
  BY NextAnnounces, AnnounceStep, Zenon
<1>1. Len(events) <= Len(events') /\ Len(events) \in Nat /\ Len(events') \in Nat
  BY <1>0, EventsGrow, Zenon
<1> SUFFICES ASSUME ~Aside PROVE EInv'
  BY <1>0, <1>1, AsideKeeps, Zenon
<1>2. made \in Nat /\ Len(events') <= made'
  BY <1>0, CommandsPend, Zenon DEF TInv, AInv, Announced
<1>3. CASE UNCHANGED vars
  BY <1>3, Zenon DEF vars, queue, thread, Aside
<1>4. CASE Api
  <2>1. UNCHANGED <<mode, made, r>> /\ (main' = main \/ main' = "dead")
    BY <1>4, Zenon DEF Api, sendDeviceData, fetchMeta, campaignCheck, uptaneInstall, downloadImages, fetchVerifyTarget, pull, LoadSysroot,
                aktualizr_progress_cb, thread
  <2>2. shutdown_' = shutdown_
    <3>1. CASE (dequeue \/ Woken \/ ApiLoop \/ ApiGot)
      BY <3>1, Zenon DEF dequeue, Woken, ApiLoop, ApiGot, Flags
    <3>2. CASE sendDeviceData \/ fetchMeta \/ campaignCheck \/ uptaneInstall \/ downloadImages
      BY <3>2, Zenon DEF sendDeviceData, fetchMeta, campaignCheck, uptaneInstall, downloadImages, Complete, Answer, Flags, queue
    <3>3. CASE fetchVerifyTarget \/ pull \/ aktualizr_progress_cb
      BY <3>3, Zenon DEF fetchVerifyTarget, pull, aktualizr_progress_cb, queue
    <3> QED  BY <1>4, <3>1, <3>2, <3>3, Zenon DEF Api
  <2> QED  BY <2>1, <2>2, Zenon DEF Aside
<1>5. CASE MainCalls
  <2>1. mode \in DOMAIN Script /\ main = "read" /\ main' = "get" /\ UNCHANGED <<mode, r, shutdown_>>
    BY <1>5, Zenon DEF MainCalls, Call, Flags
  <2>2. r' = -1 /\ ~shutdown_'
    BY <2>1, Zenon DEF EInv
  <2> QED  BY <2>1, <2>2 DEF EInv
<1>6. CASE MainGets
  <2>1. main = "get" /\ main' = "read" /\ UNCHANGED <<mode, made, r, shutdown_, events>> /\ Get(Commands[made])
    BY <1>6, Zenon DEF MainGets, Get, Flags
  <2> SUFFICES ASSUME mode \in DOMAIN Script PROVE EInv'
    BY <2>1, Zenon DEF EInv
  <2>2. r = -1 /\ ~shutdown_
    BY <2>1, Zenon DEF EInv
  <2>3. made \in 1..Len(Commands) /\ Commands[made] \in Calls
    BY <2>1, CommandsAre DEF TInv, QInv, MainAt
  <2>4. future[Commands[made]] = "ready"
    <3>1. future[Commands[made]] \in {"ready", "broken"}
      BY <2>1, Zenon DEF Get
    <3>2. future[Commands[made]] # "broken"
      BY <2>2, <2>3, Zenon DEF AInv, Ended
    <3> QED  BY <3>1, <3>2, Zenon
  <2>5. ~Waiting(made)
    BY <2>3, <2>4, Zenon DEF AInv, Answered
  <2>6. Len(events) = made
    BY <1>1, <1>2, <2>1, <2>5 DEF Waiting
  <2> QED  BY <2>1, <2>2, <2>6, Zenon DEF EInv
<1>7. CASE MainEnds
  <2>1. main' = "leave" /\ UNCHANGED <<mode, made, events>>
    BY <1>7, Zenon DEF MainEnds
  <2> SUFFICES ASSUME mode \in DOMAIN Script PROVE EInv'
    BY <2>1, Zenon DEF EInv
  <2>2. main = "read" /\ made = Len(Script[mode]) /\ r' = 0
    BY <1>7, Zenon DEF MainEnds, EInv
  <2> QED  BY <2>1, <2>2, Zenon DEF EInv
<1>8. CASE Leave \/ NoCampaignId
  <2>1. main' \in {"join", "exit", "leave"} /\ UNCHANGED <<mode, made, r, events>>
    BY <1>8, Zenon DEF Leave, NoCampaignId
  <2> QED  BY <2>1, Zenon DEF EInv
<1>9. CASE RunForeverCalls \/ RunForeverGets \/ RunForeverSteps
  BY <1>9, Zenon DEF RunForeverCalls, RunForeverGets, RunForeverSteps, Call, Get, Flags, queue, thread, Aside
<1>10. CASE HmiPauses
  BY <1>10, Zenon DEF HmiPauses, queue, thread, Aside
<1>11. ASSUME mode = "hmi_stub", mode' = mode PROVE EInv'
  BY <1>11, Modes, Zenon DEF EInv
<1>12. CASE HmiEnds \/ \E command : HmiCalls(command)
  BY <1>11, <1>12, Zenon DEF HmiEnds, HmiCalls
<1>13. CASE Wakeup \/ FinishShutdown \/ UserShutsDown
  BY <1>13, Zenon DEF Wakeup, FinishShutdown, UserShutsDown, SpuriousWakeup, shutDown, Flags, thread, Aside
<1>14. CASE \E u \in Users : UserCalls(u)
  BY <1>14, Zenon DEF UserCalls, thread, Aside
<1> QED
  BY <1>3, <1>4, <1>5, <1>6, <1>7, <1>8, <1>9, <1>10, <1>12, <1>13, <1>14, Zenon DEF Next, ApiThread, MainThread, Typed

\* aktualizr_primary/main.cc: for any commands and any faults, the run modes
\* that return 0 have had every one of their calls completed and announced.
THEOREM ExitZeroIsDone == Spec => []ExitZeroMeansDone
<1>1. Init => EInv
  <2> SUFFICES ASSUME Init, mode \in DOMAIN Script PROVE EInv
    BY Zenon DEF EInv
  <2>1. mode \notin {"full", "once", "library"}
    BY Modes, Zenon
  <2>2. main = "read" /\ r = -1 /\ events = <<>> /\ made = 0 /\ ~shutdown_
    BY <2>1, Zenon DEF Init, QueueInit
  <2>3. Len(events) = 0
    BY <2>2, Zenon
  <2> QED  BY <2>2, <2>3 DEF EInv
<1>2. EInv => ExitZeroMeansDone
  BY Zenon DEF EInv, ExitZeroMeansDone
<1> QED  BY <1>1, <1>2, EndStep, AnnounceInvariant, PTL DEF Spec

=============================================================================
