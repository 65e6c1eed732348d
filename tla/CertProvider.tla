---------------------------- MODULE CertProvider ----------------------------
(***************************************************************************)
(* aktualizr-cert-provider: it obtains a certificate with its private key, *)
(* from the server or signed by the CA of the fleet, and copies it file by *)
(* file to where the device imports it from.  A copy may fail, which the   *)
(* program reports and leaves as it is; the next run makes a new pair.     *)
(***************************************************************************)
EXTENDS Config

CONSTANT Pairs      \* the pairs that successive runs of the program obtain

VARIABLES import,   \* the files the device imports, and the file with the server's URL
          provider  \* the number of runs, and the files that the current one has yet to copy

ProviderIdle == [run |-> 0, todo |-> <<>>]

\* What a run writes: both halves are named after the pair, the CA after the run.
Contents(file) ==
  CASE file \in {"pkey", "cert"} -> Pairs[provider.run]
    [] file = "ca" -> <<"ca1", "ca2">>[provider.run]
    [] file = "url" -> <<"server">>

\* A key pair with a certificate that the CA of the fleet signs: an option
\* out of range, a file that cannot be read or a failing call of OpenSSL
\* gives none.  The pair of the server is refused in as many ways.
generate_and_sign(fails) == IF fails THEN None ELSE Pairs[provider.run + 1]

\* main up to the first copy.  Options that conflict and a pair that cannot
\* be had end the program: nothing is copied.
ObtainPair(provide_ca, provide_url, fails) ==
  /\ provider.todo = <<>> /\ provider.run < Len(Pairs)
  /\ provider' = [run |-> provider.run + 1,
                  todo |-> IF generate_and_sign(fails) = None THEN <<>>
                           ELSE <<"pkey", "cert">> \o (IF provide_ca THEN <<"ca">> ELSE <<>>) \o (IF provide_url THEN <<"url">> ELSE <<>>)]
  /\ UNCHANGED import

\* copyLocal or transferFile.
CopyFile ==
  /\ provider.todo # <<>>
  /\ import' = [import EXCEPT ![Head(provider.todo)] = Contents(Head(provider.todo))]
  /\ provider' = [provider EXCEPT !.todo = Tail(@)]
\* Over ssh a failure leaves the file as it was; copyLocal has removed it.
\* Either way no other file is copied, and over ssh the program still
\* reports success to its caller.
CopyFails ==
  /\ provider.todo # <<>>
  /\ import' \in {import, [import EXCEPT ![Head(provider.todo)] = None]}
  /\ provider' = [provider EXCEPT !.todo = <<>>]
=============================================================================
