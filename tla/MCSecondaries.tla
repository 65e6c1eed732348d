----------------------------- MODULE MCSecondaries -----------------------------
(* Secondaries with two ECUs: a virtual one next to one of every type. *)
EXTENDS Secondaries

MCSecs == {"s1", "s2"}
MCFleets == {[s1 |-> k, s2 |-> "kVirtual"] : k \in {"kVirtual", "kIpUptane", "kOpcuaUptane"}}
MCAssignments == {[s1 |-> "i1", s2 |-> "i1"], [s1 |-> "i2", s2 |-> "i1"], [s1 |-> None, s2 |-> "i2"]}
=============================================================================
