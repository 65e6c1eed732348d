----------------------------- MODULE MCDiscovery -----------------------------
(* Two secondaries; the ports are those whose encoding differs in length,  *)
(* in its padding or in its sign; one hardware identifier is cut in chunks. *)
EXTENDS Discovery

CONSTANTS s1, s2
MCSerial == (s1 :> <<97, 98>>) @@ (s2 :> <<97, 200, 99>>)
MCHwIds == {(s1 :> <<104>>) @@ (s2 :> h) : h \in {<<104>>, <<104, 105, 0, 106>>}}
MCConfigured == {<<99>>}
MCPorts == {128, 384, 40000}
MCPrimaryPorts == {9030, 32768}
==============================================================================
