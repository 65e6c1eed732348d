------------------------------- MODULE MCUpload -------------------------------
(* A commit with a tree that shares its metadata object with the commit,   *)
(* and a file that occurs twice.                                           *)
EXTENDS Upload

MCObjects == {"commit", "tree", "meta", "file", "link"}
MCKids == [commit |-> <<"tree", "meta">>, tree |-> <<"file", "file", "link", "meta">>, meta |-> <<>>, file |-> <<>>, link |-> <<>>]
MCOrigins == {s \in SUBSET MCObjects : Closed(s)} \cup {{"commit"}, {"commit", "tree", "meta"}}
MCCredentials ==
  {[archive |-> FALSE, files |-> {}, json |-> "basic_auth"],
   [archive |-> TRUE, files |-> {"treehub.json", "client.crt"}, json |-> "certificate_auth"],
   [archive |-> TRUE, files |-> {"treehub.json", "root.json", "targets.pub", "targets.sec", "tufrepo.url"},
    json |-> "oauth2"]}
=============================================================================
