------------------------------ MODULE ApiQueue ------------------------------
(***************************************************************************)
(* The API of the Aktualizr class (primary/aktualizr.cc, aktualizr.h): the  *)
(* ApiQueue, the API thread that takes tasks from it and runs them, the     *)
(* futures, and Shutdown.  A task is named by the call that enqueued it;    *)
(* the empty function that shutDown enqueues is Stop.  What a task does,    *)
(* and who calls, is in Application.                                        *)
(***************************************************************************)
EXTENDS Integers, Sequences

CONSTANT Calls  \* the names of the calls; a name is free again when its future was read

Stop == "Stop"

VARIABLES q_,         \* the queue of tasks
          shutdown_,  \* Aktualizr::shutdown_
          stopping,   \* ApiQueue::shutdown_
          api,        \* the API thread
          task,       \* the task it holds
          future      \* the promise and future of each call

queue == <<q_, shutdown_, stopping, api, task, future>>
Flags == <<shutdown_, stopping>>

QueueTypeOK ==
  /\ q_ \in Seq(Calls \cup {Stop})
  /\ shutdown_ \in BOOLEAN /\ stopping \in {"no", "set", "done"}
  /\ api \in {"loop", "lock", "waiting", "woken", "got", "run", "exit"}
  /\ task \in Calls \cup {Stop}
  /\ future \in [Calls -> {"none", "pending", "ready", "broken"}]
  /\ api = "run" => task \in Calls
  /\ api = "waiting" => q_ = <<>>

QueueInit ==
  /\ q_ = <<>> /\ shutdown_ = FALSE /\ stopping = "no"
  /\ api = "loop" /\ task = Stop
  /\ future = [c \in Calls |-> "none"]
-----------------------------------------------------------------------------
\* enqueue pushes and notifies while it holds the mutex.
enqueue(t) == q_' = Append(q_, t) /\ api' = IF api = "waiting" THEN "woken" ELSE api

\* dequeue, with the mutex: take the front, or wait for a notification.
\* Faulty variant: the front stays in the queue.
dequeueKeeps ==
  /\ api = "lock"
  /\ IF q_ = <<>> THEN api' = "waiting" /\ UNCHANGED <<q_, task>>
     ELSE api' = "got" /\ task' = Head(q_) /\ q_' = q_
  /\ UNCHANGED <<Flags, future>>
dequeue ==
  /\ api = "lock"
  /\ IF q_ = <<>> THEN api' = "waiting" /\ UNCHANGED <<q_, task>>
     ELSE api' = "got" /\ task' = Head(q_) /\ q_' = Tail(q_)
  /\ UNCHANGED <<Flags, future>>

\* After the wait: the empty function when the queue is shutting down.
Woken ==
  /\ api = "woken"
  /\ IF stopping # "no" THEN api' = "got" /\ task' = Stop
     ELSE api' = "lock" /\ task' = task
  /\ UNCHANGED <<q_, Flags, future>>

SpuriousWakeup ==
  /\ api = "waiting" /\ api' = "woken"
  /\ UNCHANGED <<q_, Flags, task, future>>

ApiLoop ==
  /\ api = "loop" /\ api' = IF shutdown_ THEN "exit" ELSE "lock"
  /\ UNCHANGED <<q_, Flags, task, future>>

\* On shutdown the task just taken is destroyed with its promise.
ApiGot ==
  /\ api = "got"
  /\ IF shutdown_
     THEN /\ api' = "exit"
          /\ future' = IF task = Stop THEN future ELSE [future EXCEPT ![task] = "broken"]
     ELSE api' = "run" /\ future' = future
  /\ UNCHANGED <<q_, Flags, task>>

\* The task has run: its promise gets the value.
Answer == future' = [future EXCEPT ![task] = "ready"] /\ api' = "loop" /\ UNCHANGED <<q_, Flags, task>>

\* A promise, a task, a future.
Call(c) ==
  /\ future[c] = "none" /\ future' = [future EXCEPT ![c] = "pending"]
  /\ enqueue(c) /\ UNCHANGED <<Flags, task>>

\* future.get(), which throws if the promise was destroyed.
Get(c) ==
  /\ future[c] \in {"ready", "broken"} /\ future' = [future EXCEPT ![c] = "none"]
  /\ UNCHANGED <<q_, Flags, api, task>>

\* Shutdown: the flag of the object, the flag of the queue, the empty task.
Shutdown == ~shutdown_ /\ shutdown_' = TRUE /\ UNCHANGED <<q_, stopping, api, task, future>>

shutDown ==
  /\ \/ shutdown_ /\ stopping = "no" /\ stopping' = "set" /\ UNCHANGED <<q_, api>>
     \/ stopping = "set" /\ stopping' = "done" /\ enqueue(Stop)
  /\ UNCHANGED <<shutdown_, task, future>>
=============================================================================
