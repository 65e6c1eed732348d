------------------------------ MODULE MCUptiny ------------------------------
(* Metadata for a small instance of Uptiny. *)
EXTENDS Uptiny

Sig(key, sig) == [key |-> key, sig |-> sig]
Target(name, ecu, hw, hash) == [name |-> name, ecus |-> << <<ecu, hw>> >>, hashes |-> << <<"sha512", hash>> >>]
Mine1 == Target("fw", "ecu1", "hw", "ab")
Mine2 == Target("fw2", "ecu1", "hw", "cd")
Other == Target("other", "ecu2", "other", "ef")
Good == [sigs |-> <<Sig("t1", "good")>>, type |-> "Targets", expires |-> "2030", junk |-> FALSE, version |-> "1",
         targets |-> <<Mine1>>]
MCDocuments ==
  { Good,
    [Good EXCEPT !.targets = <<Mine1, Other>>, !.version = "2"],
    [Good EXCEPT !.targets = <<Other, Mine2>>, !.version = "2"],
    [Good EXCEPT !.targets = <<Mine1, Mine2>>],
    [Good EXCEPT !.targets = <<Other>>],
    [Good EXCEPT !.targets = <<Target("fw", "ecu1", "other", "ab")>>],
    [Good EXCEPT !.sigs = <<Sig("t1", "bad")>>],
    [Good EXCEPT !.sigs = <<Sig("t2", "good")>>, !.version = "3"],
    [Good EXCEPT !.type = "Root", !.expires = "someday"],
    [Good EXCEPT !.junk = TRUE] }
Root(v, rk, tk, sigs) == [type |-> "Root", version |-> v, keys |-> rk \o tk, root_keys |-> rk, root_threshold |-> 1,
                          targets_keys |-> tk, targets_threshold |-> 1, sigs |-> sigs]
MCFactoryRoot == Root(1, <<"r1">>, <<"t1">>, <<Sig("r1", "good")>>)
MCRoots ==
  { Root(2, <<"r2">>, <<"t1">>, <<Sig("r1", "good"), Sig("r2", "good")>>),
    Root(3, <<"r3">>, <<"t2">>, <<Sig("r2", "good"), Sig("r3", "good")>>),
    Root(2, <<"r4">>, <<"t2">>, <<Sig("r1", "good"), Sig("r4", "bad")>>),
    Root(1, <<"r2">>, <<"t3">>, <<Sig("r2", "good")>>) }
MCImages == { <<"a", "b">>, <<"cd">> }
=============================================================================
