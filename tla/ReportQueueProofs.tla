------------------------- MODULE ReportQueueProofs -------------------------
(***************************************************************************)
(* For any number of events and outages: nothing enqueued is lost,         *)
(* repeated or overtaken inside the client, and an event is only let go    *)
(* once the server has answered for it.                                    *)
(***************************************************************************)
EXTENDS ReportQueue, SequenceTheorems, TLAPS

(* The empty sequence and concatenations are sequences of event numbers. *)
LEMMA SeqTypes ==
  /\ <<>> \in Seq(Nat)
  /\ \A s, t \in Seq(Nat) : s \o t \in Seq(Nat)
  /\ \A s \in Seq(Nat) : Range(s) \subseteq Nat
<1>1. <<>> \in Seq(Nat)
  OBVIOUS
<1>2. \A s, t \in Seq(Nat) : s \o t \in Seq(Nat)
  OBVIOUS
<1>3. \A s \in Seq(Nat) : Range(s) \subseteq Nat
  BY RangeOfSeq
<1> QED BY <1>1, <1>2, <1>3

(* The answer to a post leaves every variable it touches well typed. *)
LEMMA PostType ==
  ASSUME TypeOK, Post
  PROVE  /\ received' \subseteq Nat /\ unsupported' \subseteq Nat
         /\ cleared' \in Seq(Nat) /\ report_array' \in Seq(Nat)
<1>1. Range(report_array) \subseteq Nat
  BY SeqTypes DEF TypeOK
<1>2. received' \subseteq Nat /\ unsupported' \subseteq Nat
  BY <1>1 DEF TypeOK, Post
<1>3. cleared' \in Seq(Nat) /\ report_array' \in Seq(Nat)
  BY SeqTypes, Zenon DEF TypeOK, Post
<1> QED BY <1>2, <1>3

(* Every variable of the queue keeps its type. *)
THEOREM TypeCorrect == Spec => []TypeOK
<1>1. Init => TypeOK
  BY DEF Init, TypeOK
<1>2. TypeOK /\ [Next]_vars => TypeOK'
  <2> SUFFICES ASSUME TypeOK, [Next]_vars PROVE TypeOK'
    OBVIOUS
  <2>1. CASE Enqueue
    BY <2>1 DEF TypeOK, Enqueue, serverVars, linkVars
  <2>2. CASE RunWake
    <3>1. report_array' \in Seq(Nat) /\ report_queue_' \in Seq(Nat)
      BY <2>2, SeqTypes, Zenon DEF TypeOK, RunWake, Drain
    <3>2. runPc' \in {"wait", "post", "done"} /\ m_' = IF runPc' = "post" THEN "run" ELSE "free"
      BY <2>2 DEF TypeOK, RunWake
    <3> QED BY <3>1, <3>2, <2>2 DEF TypeOK, RunWake, serverVars, linkVars
  <2>3. CASE RunPost
    BY <2>3, PostType DEF TypeOK, RunPost, linkVars
  <2>4. CASE DtorShutdown
    BY <2>4 DEF TypeOK, DtorShutdown, queueVars, serverVars, linkVars
  <2>5. CASE DtorJoin
    BY <2>5 DEF TypeOK, DtorJoin, Drain, serverVars, linkVars
  <2>6. CASE DtorPost
    BY <2>6, PostType DEF TypeOK, DtorPost, linkVars
  <2>7. CASE LinkDown
    BY <2>7 DEF TypeOK, LinkDown, queueVars, serverVars
  <2>8. CASE LinkUp
    BY <2>8 DEF TypeOK, LinkUp, queueVars, serverVars
  <2>9. CASE UNCHANGED vars
    BY <2>9 DEF TypeOK, vars, queueVars, serverVars, linkVars
  <2> QED
    BY <2>1, <2>2, <2>3, <2>4, <2>5, <2>6, <2>7, <2>8, <2>9 DEF Next, Run, Dtor
<1> QED BY <1>1, <1>2, PTL DEF Spec

All == cleared \o report_array \o report_queue_

(* Concatenation of event sequences is associative. *)
LEMMA ConcatAssociates ==
  ASSUME NEW s \in Seq(Nat), NEW t \in Seq(Nat), NEW u \in Seq(Nat)
  PROVE  s \o (t \o u) = (s \o t) \o u
<1> DEFINE l == s \o (t \o u)
           r == (s \o t) \o u
<1>1. l \in Seq(Nat) /\ r \in Seq(Nat)
  OBVIOUS
<1>2. Len(l) = Len(r) /\ \A i \in 1..Len(l) : l[i] = r[i]
  BY SMTT(60)
<1> HIDE DEF l, r
<1>3. l = r
  BY <1>1, <1>2, SeqEqual
<1> QED BY <1>3 DEF l, r

(* Appending to the last piece appends to the whole. *)
LEMMA AppendConcat ==
  ASSUME NEW s \in Seq(Nat), NEW t \in Seq(Nat), NEW e \in Nat
  PROVE  s \o Append(t, e) = Append(s \o t, e)
OBVIOUS

(* Draining the queue into the array only moves a boundary. *)
LEMMA DrainKeepsAll ==
  ASSUME TypeOK, Drain, UNCHANGED cleared PROVE All' = All
<1>1. cleared \o (report_array \o report_queue_) = All
  BY ConcatAssociates DEF TypeOK, All
<1>2. cleared \o (report_array \o report_queue_) \in Seq(Nat)
  BY SeqTypes, Zenon DEF TypeOK
<1>3. All' = (cleared \o (report_array \o report_queue_)) \o <<>>
  BY Zenon DEF Drain, All
<1> QED BY <1>1, <1>2, <1>3, ConcatEmptySeq, Zenon

(* So does a post, whatever the answer. *)
LEMMA PostKeepsAll ==
  ASSUME TypeOK, Post, UNCHANGED report_queue_ PROVE All' = All
<1>1. cleared' \o report_array' = cleared \o report_array
  <2>1. CASE cleared' = cleared \o report_array /\ report_array' = <<>>
    BY <2>1, ConcatEmptySeq, SeqTypes DEF TypeOK
  <2>2. CASE UNCHANGED <<cleared, report_array>>
    BY <2>2
  <2> QED BY <2>1, <2>2 DEF Post
<1> QED BY <1>1 DEF All

(* Every event enqueued is, once and in order, among the cleared, the      *)
(* posted and the waiting ones, whatever posts fail.                       *)
THEOREM NoLoss == Spec => []InOrderNoLoss
<1>1. Init => InOrderNoLoss
  BY ConcatEmptySeq, SeqTypes DEF Init, InOrderNoLoss
<1>2. TypeOK /\ InOrderNoLoss /\ [Next]_vars => InOrderNoLoss'
  <2> SUFFICES ASSUME TypeOK, InOrderNoLoss, [Next]_vars PROVE InOrderNoLoss'
    OBVIOUS
  <2>1. CASE Enqueue
    <3>1. /\ cleared \o report_array \in Seq(Nat)
          /\ report_queue_ \in Seq(Nat)
          /\ enqueued + 1 \in Nat
      BY SeqTypes DEF TypeOK
    <3>2. All' = Append(All, enqueued + 1)
      <4>1. All' = (cleared \o report_array) \o Append(report_queue_, enqueued + 1)
        BY <2>1, Zenon DEF Enqueue, All
      <4> QED BY <3>1, <4>1, AppendConcat, Zenon DEF All
    <3>3. All \in Seq(Nat)
      BY <3>1, SeqTypes DEF TypeOK, All
    <3>4. Len(All) = enqueued /\ \A i \in 1..enqueued : All[i] = i
      BY DEF InOrderNoLoss, All
    <3>5. Len(All') = enqueued + 1 /\ \A i \in 1..(enqueued + 1) : All'[i] = i
      <4> HIDE DEF All
      <4> QED BY <3>2, <3>3, <3>4 DEF TypeOK
    <3> QED BY <2>1, <3>5 DEF Enqueue, InOrderNoLoss, All
  <2>2. CASE All' = All /\ enqueued' = enqueued
    BY <2>2 DEF InOrderNoLoss, All
  <2>3. CASE RunWake
    <3>1. CASE Drain
      BY <2>2, <2>3, <3>1, DrainKeepsAll DEF RunWake
    <3>2. CASE UNCHANGED <<report_queue_, report_array>>
      BY <2>2, <2>3, <3>2 DEF RunWake, All
    <3> QED BY <2>3, <3>1, <3>2 DEF RunWake
  <2>4. CASE RunPost
    BY <2>2, <2>4, PostKeepsAll DEF RunPost
  <2>5. CASE DtorShutdown \/ LinkDown \/ LinkUp \/ UNCHANGED vars
    BY <2>2, <2>5 DEF DtorShutdown, LinkDown, LinkUp, vars, queueVars, All
  <2>6. CASE DtorJoin
    BY <2>2, <2>6, DrainKeepsAll DEF DtorJoin
  <2>7. CASE DtorPost
    BY <2>2, <2>7, PostKeepsAll DEF DtorPost
  <2> QED
    BY <2>1, <2>3, <2>4, <2>5, <2>6, <2>7 DEF Next, Run, Dtor
<1> QED BY <1>1, <1>2, TypeCorrect, PTL DEF Spec

(* The client lets an event go only when the server stored it or refused   *)
(* it: a lost answer never clears report_array.                            *)
THEOREM Answered == Spec => []ClearedMeansAnswered
<1>1. Init => ClearedMeansAnswered
  BY DEF Init, ClearedMeansAnswered, Range
<1>2. TypeOK /\ ClearedMeansAnswered /\ [Next]_vars => ClearedMeansAnswered'
  <2> SUFFICES ASSUME TypeOK, ClearedMeansAnswered, [Next]_vars
               PROVE  ClearedMeansAnswered'
    OBVIOUS
  <2>1. CASE Post
    <3>1. Range(cleared \o report_array) = Range(cleared) \cup Range(report_array)
      BY RangeConcatenation DEF TypeOK
    <3> QED BY <2>1, <3>1 DEF Post, ClearedMeansAnswered
  <2>2. CASE UNCHANGED <<cleared, serverVars>>
    BY <2>2 DEF ClearedMeansAnswered, serverVars
  <2> QED
    BY <2>1, <2>2 DEF Next, Run, Dtor, Enqueue, RunWake, RunPost, DtorShutdown, DtorJoin,
                      DtorPost, LinkDown, LinkUp, vars, queueVars
<1> QED BY <1>1, <1>2, TypeCorrect, PTL DEF Spec

(* Cutting a concatenation where the first part ends gives the two parts. *)
LEMMA CutConcat ==
  ASSUME NEW s \in Seq(Nat), NEW t \in Seq(Nat)
  PROVE  /\ Len(s) \in 0..Len(s \o t)
         /\ SubSeq(s \o t, 1, Len(s)) = s
         /\ SubSeq(s \o t, Len(s) + 1, Len(s \o t)) = t
<1>1. s \o t \in Seq(Nat) /\ Len(s) \in Nat /\ Len(t) \in Nat /\ Len(s \o t) = Len(s) + Len(t)
  OBVIOUS
<1>2. SubSeq(s \o t, 1, Len(s)) = s
  <2> DEFINE l == SubSeq(s \o t, 1, Len(s))
  <2>1. l \in Seq(Nat) /\ Len(l) = Len(s) /\ \A i \in 1..Len(l) : l[i] = s[i]
    BY <1>1
  <2> HIDE DEF l
  <2>2. l = s
    BY <2>1, SeqEqual
  <2> QED BY <2>2 DEF l
<1>3. SubSeq(s \o t, Len(s) + 1, Len(s \o t)) = t
  <2> DEFINE r == SubSeq(s \o t, Len(s) + 1, Len(s \o t))
  <2>1. r \in Seq(Nat) /\ Len(r) = Len(t) /\ \A i \in 1..Len(r) : r[i] = t[i]
    BY <1>1
  <2> HIDE DEF r
  <2>2. r = t
    BY <2>1, SeqEqual
  <2> QED BY <2>2 DEF r
<1> QED BY <1>1, <1>2, <1>3

(* The events of the channel that are not let go. *)
Pending == report_array \o report_queue_

(* The answer to a post, or its absence, is the channel's LetGo or         *)
(* Unanswered for the events of the array, or nothing.                     *)
LEMMA PostIsAnswer ==
  ASSUME TypeOK, Post, UNCHANGED report_queue_
  PROVE  [Channel!Next]_(Channel!channelVars)
<1> DEFINE n == Len(report_array)
<1>1. /\ n \in 0..Len(Pending)
      /\ SubSeq(Pending, 1, n) = report_array
      /\ SubSeq(Pending, n + 1, Len(Pending)) = report_queue_
  BY CutConcat DEF TypeOK, Pending
<1>2. CASE /\ cleared' = cleared \o report_array /\ report_array' = <<>>
           /\ \/ received' = received \cup Range(report_array) /\ UNCHANGED unsupported
              \/ unsupported' = unsupported \cup Range(report_array) /\ UNCHANGED received
  <2>1. Pending' = report_queue_
    BY <1>2, ConcatEmptySeq DEF TypeOK, Pending
  <2>2. Channel!LetGo(n)
    BY <1>1, <1>2, <2>1 DEF Channel!LetGo, Channel!Oldest, Channel!Range, Range, Pending
  <2> QED BY <1>1, <2>2 DEF Channel!Next, Pending
<1>3. CASE /\ UNCHANGED <<cleared, report_array, unsupported>>
           /\ received' = received \cup Range(report_array)
  <2>1. Channel!Unanswered(n)
    BY <1>1, <1>3 DEF Channel!Unanswered, Channel!Oldest, Channel!Range, Range, Pending
  <2> QED BY <1>1, <2>1 DEF Channel!Next, Pending
<1>4. CASE UNCHANGED <<cleared, report_array, unsupported, received>>
  BY <1>4 DEF Channel!channelVars
<1> QED BY <1>2, <1>3, <1>4 DEF Post

(* The report queue implements the channel: every step of the client, of   *)
(* its thread, of its destructor or of the connection is a step of         *)
(* EventChannel or leaves what it shows unchanged.                         *)
THEOREM QueueIsChannel == Spec => ImplementsChannel
<1>1. Init => Channel!Init
  BY ConcatEmptySeq, SeqTypes DEF Init, Channel!Init
<1>2. TypeOK /\ InOrderNoLoss /\ [Next]_vars => [Channel!Next]_(Channel!channelVars)
  <2> SUFFICES ASSUME TypeOK, InOrderNoLoss, [Next]_vars
               PROVE  [Channel!Next]_(Channel!channelVars)
    OBVIOUS
  <2>1. CASE Enqueue
    <3>1. Pending' = Append(Pending, enqueued + 1)
      BY <2>1, AppendConcat DEF Enqueue, TypeOK, Pending
    <3>2. Len(cleared) + Len(Pending) = enqueued
      <4>1. cleared \o Pending = All
        BY ConcatAssociates DEF TypeOK, All, Pending
      <4>2. Pending \in Seq(Nat) /\ cleared \in Seq(Nat)
        BY SeqTypes, Zenon DEF TypeOK, Pending
      <4>3. Len(cleared \o Pending) = Len(cleared) + Len(Pending)
        BY <4>2
      <4>4. Len(All) = enqueued
        BY DEF InOrderNoLoss, All
      <4> QED BY <4>1, <4>3, <4>4
    <3>3. Channel!Accept
      BY <2>1, <3>1, <3>2 DEF Enqueue, Channel!Accept, Pending, serverVars
    <3> QED BY <3>3 DEF Channel!Next
  <2>2. CASE Drain /\ UNCHANGED <<cleared, serverVars>>
    <3>1. Pending' = Pending
      <4>1. Pending' = (report_array \o report_queue_) \o <<>>
        BY <2>2, Zenon DEF Drain, Pending
      <4>2. report_array \o report_queue_ \in Seq(Nat)
        BY SeqTypes, Zenon DEF TypeOK
      <4> QED BY <4>1, <4>2, ConcatEmptySeq, Zenon DEF Pending
    <3> QED BY <2>2, <3>1 DEF Channel!channelVars, Pending, serverVars
  <2>3. CASE UNCHANGED <<queueVars, serverVars>>
    BY <2>3 DEF Channel!channelVars, queueVars, serverVars
  <2>4. CASE RunPost \/ DtorPost
    BY <2>4, PostIsAnswer DEF RunPost, DtorPost
  <2>5. CASE RunWake \/ DtorJoin
    BY <2>2, <2>3, <2>5 DEF RunWake, DtorJoin, queueVars
  <2>6. CASE DtorShutdown \/ LinkDown \/ LinkUp \/ UNCHANGED vars
    BY <2>3, <2>6 DEF DtorShutdown, LinkDown, LinkUp, vars
  <2> QED BY <2>1, <2>4, <2>5, <2>6 DEF Next, Run, Dtor
<1> QED BY <1>1, <1>2, TypeCorrect, NoLoss, PTL DEF Spec, ImplementsChannel, Channel!Spec
=============================================================================
