---------------------------- MODULE MCMetadata ----------------------------
(* Metadata with one more publication of the Images repository, which has  *)
(* to list an image before the Director can assign it.                     *)
EXTENDS Metadata

MCMaxRoots == [director |-> 3, images |-> 2]
MCMaxDocs == [director |-> 2, images |-> 3]
=============================================================================
