---------------------------- MODULE EventChannel ----------------------------
(***************************************************************************)
(* What the client promises about the events it reports, without queue,    *)
(* batch, thread or connection: events are numbered as they are accepted,  *)
(* the oldest ones leave together, and only when the server has stored or  *)
(* refused them all; the server may store events without the client        *)
(* learning of it, and then gets them again.  ReportQueue implements it.   *)
(***************************************************************************)
EXTENDS Integers, Sequences, Functions

VARIABLES pending,   \* events accepted and not let go, oldest first
          answered,  \* events let go, in order
          stored,    \* events the server has stored
          refused    \* events the server takes no interest in

channelVars == <<pending, answered, stored, refused>>

Init == pending = <<>> /\ answered = <<>> /\ stored = {} /\ refused = {}

Accept ==
  /\ pending' = Append(pending, Len(answered) + Len(pending) + 1)
  /\ UNCHANGED <<answered, stored, refused>>

Oldest(n) == SubSeq(pending, 1, n)

LetGo(n) ==
  /\ answered' = answered \o Oldest(n)
  /\ pending' = SubSeq(pending, n + 1, Len(pending))
  /\ \/ stored' = stored \cup Range(Oldest(n)) /\ UNCHANGED refused
     \/ refused' = refused \cup Range(Oldest(n)) /\ UNCHANGED stored

Unanswered(n) ==
  /\ stored' = stored \cup Range(Oldest(n))
  /\ UNCHANGED <<pending, answered, refused>>

Next == Accept \/ \E n \in 0..Len(pending) : LetGo(n) \/ Unanswered(n)

Spec == Init /\ [][Next]_channelVars
=============================================================================
