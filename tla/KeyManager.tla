----------------------------- MODULE KeyManager -----------------------------
(***************************************************************************)
(* KeyManager (crypto/keymanager.cc) and the part of P11Engine it uses:    *)
(* where the TLS credentials and the Uptane key pair come from.  A source  *)
(* is the database (kFile) or a PKCS#11 token; tls_source is that of the   *)
(* certificate and its key, ca_source that of the CA.  A certificate is    *)
(* known by the name it was issued for and a key pair by the name of its   *)
(* key.  NotFound is the exception the functions throw.                    *)
(***************************************************************************)
EXTENDS FsStorage

NotFound == "exception"
P11Uri == "pkcs11:"

\* getPkey, getCert, getCa: a token's object is only named, never looked up.
getPkey(cfg, db) == IF cfg.tls_source = "kPkcs11" THEN P11Uri ELSE loadTlsPkey(db)
getCert(cfg, db) == IF cfg.tls_source = "kPkcs11" THEN P11Uri ELSE loadTlsCert(db)
getCa(cfg, db) == IF cfg.ca_source = "kPkcs11" THEN P11Uri ELSE loadTlsCa(db)
isOk(cfg, db) == getPkey(cfg, db) # None /\ getCert(cfg, db) # None /\ getCa(cfg, db) # None

\* What copyCertsToCurl passes on.
Credentials(cfg, db) == [ca |-> getCa(cfg, db), cert |-> getCert(cfg, db), pkey |-> getPkey(cfg, db)]

\* loadKeys writes what the database has into temporary files, and
\* getPkeyFile, getCertFile and getCaFile name those or a token's object.
loadKeys(cfg, db) ==
  LET file(source, value) == IF source = "kFile" THEN value ELSE None
  IN  [ca |-> file(cfg.ca_source, loadTlsCa(db)), cert |-> file(cfg.tls_source, loadTlsCert(db)), pkey |-> file(cfg.tls_source, loadTlsPkey(db))]
getFiles(cfg, tmp) ==
  LET name(source, value) == IF source = "kPkcs11" THEN P11Uri ELSE value
  IN  [ca |-> name(cfg.ca_source, tmp.ca), cert |-> name(cfg.tls_source, tmp.cert), pkey |-> name(cfg.tls_source, tmp.pkey)]

\* The credentials of the OSTree remote, set before each pull: all or none.
NoCerts == [ca |-> None, cert |-> None, pkey |-> None]
addRemote(cfg, db) ==
  LET files == getFiles(cfg, loadKeys(cfg, db)) IN IF None \in Range(files) THEN NoCerts ELSE files

readTlsCert(token) == token.cert

\* The common name of the client certificate.
getCN(cfg, db, token) ==
  LET cert == IF cfg.tls_source = "kFile" THEN loadTlsCert(db) ELSE readTlsCert(token)
  IN  IF cert = None THEN NotFound ELSE cert

\* The token may hold several objects with one id: the first is found.
readUptanePublicKey(token) == IF token.public = <<>> THEN None ELSE token.public[1]

UptanePublicKey(cfg, db, token) ==
  LET public == IF cfg.key_source = "kFile" THEN loadPrimaryPublic(db) ELSE readUptanePublicKey(token)
  IN  IF public = None THEN NotFound ELSE public

\* signTuf: the key that signs and the key id that is written next to it.
signTuf(cfg, db, token) ==
  [signer |-> IF cfg.key_source = "kFile" THEN loadPrimaryPrivate(db)
              ELSE IF token.private = <<>> THEN None ELSE token.private[1],
   keyid  |-> UptanePublicKey(cfg, db, token)]
=============================================================================
