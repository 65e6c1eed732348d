--------------------------- MODULE MCApplication ---------------------------
(* Three typed calls, another thread, one target, and answers with every   *)
(* way in which a campaign can be malformed.                                *)
EXTENDS Application

MCCommands == <<"c1", "c2", "c3">>
MCUsers == {"u1"}
MCCalls == {"c1", "c2", "c3", "u1", "RunForever"}

Entry(type, val) == [type |-> type, value |-> val]
Raw(id, name, metadata) == [id |-> id, name |-> name, metadata |-> metadata]
Good == Raw("a", "A", <<>>)
MCAnswers ==
  {NotAList, <<>>}
  \cup {<<Good, Raw(id, name, <<>>), Raw("c", "C", <<>>)>> : id \in {"", "b"}, name \in {"", "B"}}
  \cup {<<Raw("b", "B", <<e, f>>), Good>> :
          e, f \in {Entry("DESCRIPTION", ""), Entry("DESCRIPTION", "text"), Entry("ESTIMATED_INSTALLATION_DURATION", "0"),
                    Entry("ESTIMATED_INSTALLATION_DURATION", "1"), Entry("ESTIMATED_PREPARATION_DURATION", "soon"), Entry("OTHER", "")}}
=============================================================================
