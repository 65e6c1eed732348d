---------------------------- MODULE RateController ----------------------------
(***************************************************************************)
(* The rate controller of the upload tools (sota_tools): how many requests *)
(* may run at a time, and how long to sleep after failures.  A controller  *)
(* is a record; time is a flag of the request, "did it start after the     *)
(* last change of the limits?".                                            *)
(***************************************************************************)
EXTENDS Integers

CONSTANTS concurrency_cap,    \* --jobs
          kInitialSleepTime,  \* seconds
          kMaxSleepTime       \* seconds; more than that means the server has failed

ASSUME RateAssumption ==
  concurrency_cap \in Nat \ {0} /\ kInitialSleepTime \in Nat \ {0} /\ kMaxSleepTime \in Nat

NewController == [max_concurrency |-> 1, sleep_time |-> 0]

\* Faulty variant: the sleep starts before the concurrency is down to one.
RequestCompletedSleepy(rate, fresh, succeeded) ==
  IF ~fresh THEN rate
  ELSE IF succeeded THEN [rate EXCEPT !.max_concurrency = IF @ < concurrency_cap THEN @ + 1 ELSE @]
  ELSE [max_concurrency |-> IF rate.max_concurrency >= 2 THEN rate.max_concurrency \div 2 ELSE 1,
        sleep_time |-> IF rate.sleep_time = 0 THEN kInitialSleepTime ELSE 2 * rate.sleep_time]
RequestCompleted(rate, fresh, succeeded) ==
  IF ~fresh THEN rate
  ELSE IF succeeded
       THEN [max_concurrency |-> IF rate.max_concurrency < concurrency_cap THEN rate.max_concurrency + 1
                                 ELSE concurrency_cap, sleep_time |-> 0]
  ELSE IF rate.max_concurrency >= 2 THEN [rate EXCEPT !.max_concurrency = @ \div 2]
  ELSE [rate EXCEPT !.sleep_time = IF 2 * @ > kInitialSleepTime THEN 2 * @ ELSE kInitialSleepTime]

ServerHasFailed(rate) == rate.sleep_time > kMaxSleepTime

\* The assertions of CheckInvariants, which every method ends or begins with.
CheckInvariants(rate) ==
  /\ rate.sleep_time = 0 \/ rate.max_concurrency = 1
  /\ 0 < rate.max_concurrency /\ rate.max_concurrency <= concurrency_cap
=============================================================================
