---------------------------- MODULE ReportQueue ----------------------------
(***************************************************************************)
(* ReportQueue (primary/reportqueue.cc): events are enqueued by the        *)
(* threads of the client and posted to the server in batches by a thread   *)
(* of the queue's own.  Both take the mutex m_, which run() keeps while it *)
(* posts and gives up while it waits on the condition variable.  Events    *)
(* are numbered in the order in which enqueue() receives them.             *)
(***************************************************************************)
EXTENDS Integers, Sequences, Functions

CONSTANTS
  MaxEvents,      \* bound on the number of calls of enqueue()
  MaxOutages      \* bound on how often the connection goes down

ASSUME ReportQueueAssumption == MaxEvents \in Nat /\ MaxOutages \in Nat

VARIABLES
  report_queue_,  \* events not yet seen by flushQueue()
  report_array,   \* events of the batch that is posted until it is answered
  m_,             \* holder of the mutex: "free" or "run"
  runPc,          \* the thread: "wait" (no lock), "post" (in flushQueue), "done"
  dtorPc,         \* the owner: "up", "join", "post" (last flush), "gone"
  enqueued,       \* history: number of events enqueued so far
  cleared,        \* history: events removed from report_array, in order
  received,       \* history: events the server has stored
  unsupported,    \* history: events the server answered with 404
  link,           \* the connection: "up" or "down"
  outages

queueVars == <<report_queue_, report_array, cleared>>
serverVars == <<received, unsupported>>
linkVars == <<link, outages>>
vars == <<queueVars, serverVars, linkVars, m_, runPc, dtorPc, enqueued>>

Init ==
  /\ report_queue_ = <<>>
  /\ report_array = <<>>
  /\ m_ = "free"
  /\ runPc = "wait"
  /\ dtorPc = "up"
  /\ enqueued = 0
  /\ cleared = <<>>
  /\ received = {}
  /\ unsupported = {}
  /\ link = "up"
  /\ outages = 0

(* The flag is set by the destructor, in the step that leaves "up". *)
shutdown_ == dtorPc # "up"
-----------------------------------------------------------------------------
(* enqueue(): under the lock, so never while run() posts. *)
Enqueue ==
  /\ dtorPc = "up"
  /\ m_ = "free"
  /\ enqueued < MaxEvents
  /\ enqueued' = enqueued + 1
  /\ report_queue_' = Append(report_queue_, enqueued + 1)
  /\ UNCHANGED <<report_array, cleared, serverVars, linkVars, m_, runPc, dtorPc>>

(* The first half of flushQueue(): the queue is drained into the array. *)
Drain ==
  /\ report_array' = report_array \o report_queue_
  /\ report_queue_' = <<>>

(* Faulty variant: the array is cleared whatever the answer. *)
PostAlwaysClears ==
  /\ received' \in {received, received \cup Range(report_array)}
  /\ cleared' = cleared \o report_array
  /\ report_array' = <<>>
  /\ UNCHANGED unsupported

(* The second half of flushQueue(): one POST of the whole array.  The      *)
(* server may store the batch and its answer still be lost; the array is   *)
(* cleared only on success or on 404.                                      *)
Post ==
  \/ /\ link = "up"
     /\ received' = received \cup Range(report_array)
     /\ cleared' = cleared \o report_array
     /\ report_array' = <<>>
     /\ UNCHANGED unsupported
  \/ /\ link = "up"
     /\ unsupported' = unsupported \cup Range(report_array)
     /\ cleared' = cleared \o report_array
     /\ report_array' = <<>>
     /\ UNCHANGED received
  \/ /\ link = "down"
     /\ received' \in {received, received \cup Range(report_array)}
     /\ UNCHANGED <<report_array, cleared, unsupported>>

(* Faulty variants: shutdown_ is not looked at; an unanswered batch is     *)
(* retried only when a new event has come.                                 *)
RunWakeNoShutdown ==
  /\ runPc = "wait"
  /\ m_ = "free"
  /\ Drain
  /\ IF report_array' = <<>>
     THEN UNCHANGED <<runPc, m_>>
     ELSE runPc' = "post" /\ m_' = "run"
  /\ UNCHANGED <<cleared, serverVars, linkVars, dtorPc, enqueued>>

RunWakeNoRetry ==
  /\ runPc = "wait"
  /\ m_ = "free"
  /\ IF shutdown_
     THEN /\ runPc' = "done"
          /\ UNCHANGED <<report_queue_, report_array, m_>>
     ELSE /\ Drain
          /\ IF report_queue_ = <<>>
             THEN UNCHANGED <<runPc, m_>>
             ELSE runPc' = "post" /\ m_' = "run"
  /\ UNCHANGED <<cleared, serverVars, linkVars, dtorPc, enqueued>>

(* run(): the wait ends (notified or after ten seconds), the lock is taken *)
(* again; the loop ends on shutdown_, else the queue is drained and, if    *)
(* there is anything to send, posted with the lock held.                   *)
RunWake ==
  /\ runPc = "wait"
  /\ m_ = "free"
  /\ IF shutdown_
     THEN /\ runPc' = "done"
          /\ UNCHANGED <<report_queue_, report_array, m_>>
     ELSE /\ Drain
          /\ IF report_array' = <<>>
             THEN UNCHANGED <<runPc, m_>>
             ELSE runPc' = "post" /\ m_' = "run"
  /\ UNCHANGED <<cleared, serverVars, linkVars, dtorPc, enqueued>>

RunPost ==
  /\ runPc = "post"
  /\ Post
  /\ runPc' = "wait"
  /\ m_' = "free"
  /\ UNCHANGED <<report_queue_, linkVars, dtorPc, enqueued>>

(* ~ReportQueue(): shutdown_ is set under the lock, the thread joined, and *)
(* one last flush tried.                                                   *)
DtorShutdown ==
  /\ dtorPc = "up"
  /\ m_ = "free"
  /\ dtorPc' = "join"
  /\ UNCHANGED <<queueVars, serverVars, linkVars, m_, runPc, enqueued>>

DtorJoin ==
  /\ dtorPc = "join"
  /\ runPc = "done"
  /\ Drain
  /\ dtorPc' = IF report_array' = <<>> THEN "gone" ELSE "post"
  /\ UNCHANGED <<cleared, serverVars, linkVars, m_, runPc, enqueued>>

DtorPost ==
  /\ dtorPc = "post"
  /\ Post
  /\ dtorPc' = "gone"
  /\ UNCHANGED <<report_queue_, linkVars, m_, runPc, enqueued>>

(* The connection to the server. *)
LinkDown ==
  /\ link = "up"
  /\ outages < MaxOutages
  /\ link' = "down"
  /\ outages' = outages + 1
  /\ UNCHANGED <<queueVars, serverVars, m_, runPc, dtorPc, enqueued>>

LinkUp ==
  /\ link = "down"
  /\ link' = "up"
  /\ UNCHANGED <<queueVars, serverVars, outages, m_, runPc, dtorPc, enqueued>>

Run == RunWake \/ RunPost
Dtor == DtorShutdown \/ DtorJoin \/ DtorPost
Next == Enqueue \/ Run \/ Dtor \/ LinkDown \/ LinkUp

Spec == Init /\ [][Next]_vars

(* The thread runs, and a destructor once started goes on; nobody promises *)
(* that the connection comes back or that the client is ever destroyed.    *)
FairSpec == Spec /\ WF_vars(Run) /\ WF_vars(DtorJoin \/ DtorPost)
-----------------------------------------------------------------------------
(* The types of the variables; the mutex is held exactly while the thread  *)
(* posts, and given up by its wait.                                        *)
TypeOK ==
  /\ enqueued \in Nat
  /\ report_queue_ \in Seq(Nat)
  /\ report_array \in Seq(Nat)
  /\ cleared \in Seq(Nat)
  /\ m_ = IF runPc = "post" THEN "run" ELSE "free"
  /\ runPc \in {"wait", "post", "done"}
  /\ dtorPc \in {"up", "join", "post", "gone"}
  /\ received \subseteq Nat
  /\ unsupported \subseteq Nat
  /\ link \in {"up", "down"}
  /\ outages \in Nat

(* No event is lost, repeated or overtaken inside the client: what was     *)
(* cleared, what is being posted and what still waits are together the     *)
(* events enqueued, each once and in order (flushQueue moves and clears    *)
(* whole batches, failed posts keep the array).                            *)
InOrderNoLoss ==
  LET all == cleared \o report_array \o report_queue_
  IN Len(all) = enqueued /\ \A i \in 1..enqueued : all[i] = i

(* An event leaves the client only when the server stored it or answered   *)
(* that it takes no events (404); a post whose answer was lost never lets  *)
(* an event go.                                                            *)
ClearedMeansAnswered == Range(cleared) \subseteq received \cup unsupported

(* Seen from outside the queue is a channel: draining the queue into the   *)
(* array, waking up, shutting down and failing posts are no steps of it,   *)
(* and a post lets a whole batch of the oldest events go or none.          *)
Channel == INSTANCE EventChannel
             WITH pending <- report_array \o report_queue_, answered <- cleared,
                  stored <- received, refused <- unsupported
(* The report queue implements EventChannel.                              *)
ImplementsChannel == Channel!Spec

(* The destructor always gets through join(): the thread cannot sit in its *)
(* wait or its post forever once shutdown_ is set.                         *)
ShutdownEnds == shutdown_ ~> dtorPc = "gone"

(* Once the connection stays up, every event enqueued reaches the server   *)
(* or is refused with 404.  The one exception is what is left when the     *)
(* destructor's single last post fails: reports are not kept on disk.      *)
EventuallyAnswered ==
  <>[](link = "up") =>
     \A e \in 1..MaxEvents :
        (e <= enqueued) ~> \/ e \in received \cup unsupported
                           \/ dtorPc = "gone" /\ e \in Range(report_array)
=============================================================================
