------------------------------- MODULE MCKea128 -------------------------------
(***************************************************************************)
(* Two testers: one that programs the board, with erases and downloads     *)
(* that begin and end inside and at the bounds of sectors, in and out of   *)
(* range; and one that reads, resets and changes the session.              *)
(***************************************************************************)
EXTENDS Kea128

Session(op) == [sid |-> "session", op |-> op]
Erase(a, n) == [sid |-> "erase", addr |-> a, size |-> n]
Download(a, n) == [sid |-> "download", addr |-> a, size |-> n]
Data(n, d) == [sid |-> "data", seq |-> n, data |-> d]
Simple(sid) == [sid |-> sid]

Prog == Session("programming")
Exit == Simple("exit")
\* The firmware, then a program that waits and loops.
MCFactory == [a \in 0..7 |-> <<"code", "code", "magic", "wait", "loop", "old", "old", "old">>[a + 1]]
Plan(prog, other) == [t \in {"prog", "other"} |-> IF t = "prog" THEN <<Prog>> \o prog ELSE other]
MCPlans ==
  {Plan(<<Erase(3, 3), Download(3, 2), Data(1, <<"op", "op">>), Exit>>, <<>>),
   Plan(<<Download(2, 4), Data(1, <<"magic", "op">>), Data(1, <<"op">>), Exit>>, <<Session("default")>>),
   Plan(<<Download(3, 2), Data(1, <<"op">>), Erase(4, 1), Exit>>, <<>>),
   Plan(<<Download(5, 2), Data(1, <<"op">>), Download(6, 1), Data(1, <<"op">>), Exit>>, <<Simple("reset")>>),
   Plan(<<Erase(1, 1), Erase(2, 0), Erase(4, 2), Download(7, 2)>>, <<Simple("unknown")>>),
   Plan(<<Download(6, 1), Data(0, <<"op">>), Data(1, <<"op">>), Data(1, <<"op">>), Exit>>, <<>>),
   Plan(<<Simple("reset")>>, <<Simple("read"), Session("other"), Simple("reset")>>)}
=============================================================================
