---------------------------- MODULE SqlStorage -----------------------------
(***************************************************************************)
(* The tables of SQLStorage (storage/sqlstorage.cc) that hold the identity *)
(* of the device, as operators from a database to a database.  Each of     *)
(* them is one SQLite transaction: it happens as a whole or, when the      *)
(* process dies or a statement fails, not at all.  None stands for NULL    *)
(* and for a row that is not there, which the load functions do not tell   *)
(* apart.  Metadata, Install and Download model the tables they use        *)
(* themselves.                                                             *)
(***************************************************************************)
EXTENDS Config

CONSTANT Current       \* current_schema_version

kEmpty == -1
NoTls == [ca |-> None, cert |-> None, pkey |-> None]
NoKeys == [public |-> None, private |-> None]

\* The file as the first dbConnection() leaves it: no tables yet.
EmptyDb ==
  [schema |-> kEmpty, keys |-> NoKeys, tls |-> NoTls, device_info |-> None, ecu_serials |-> <<>>,
   misconfigured_ecus |-> {}, installed_versions |-> {}, installation_result |-> None, meta |-> {}]

getVersion(db) == db.schema

\* One turn of the loop of dbMigrate(): each schema step commits on its own.
dbMigrate(db) == [db EXCEPT !.schema = @ + 1]
-----------------------------------------------------------------------------
(* primary_keys and tls_creds. *)
storePrimaryKeys(db, public, private) == [db EXCEPT !.keys = [public |-> public, private |-> private]]
loadPrimaryPublic(db) == db.keys.public
loadPrimaryPrivate(db) == db.keys.private
loadPrimaryKeys(db) == loadPrimaryPublic(db) # None /\ loadPrimaryPrivate(db) # None

storeTlsCa(db, ca) == [db EXCEPT !.tls.ca = ca]
storeTlsCert(db, cert) == [db EXCEPT !.tls.cert = cert]
storeTlsPkey(db, pkey) == [db EXCEPT !.tls.pkey = pkey]
loadTlsCa(db) == db.tls.ca
loadTlsCert(db) == db.tls.cert
loadTlsPkey(db) == db.tls.pkey
loadTlsCreds(db) == \A col \in DOMAIN db.tls : db.tls[col] # None
-----------------------------------------------------------------------------
(* device_info: storing an id makes the device unregistered again. *)
\* Faulty variant: the flag is not cleared with a new id.
storeDeviceIdRegistered(db, id) == [db EXCEPT !.device_info = [device_id |-> id, is_registered |-> TRUE]]
storeDeviceId(db, id) == [db EXCEPT !.device_info = [device_id |-> id, is_registered |-> FALSE]]
loadDeviceId(db) == IF db.device_info = None THEN None ELSE db.device_info.device_id
\* Faulty variant: the occupied id is kept.
clearDeviceIdNot(db) == db
clearDeviceId(db) == [db EXCEPT !.device_info = None]

\* Throws when there is no row.
storeEcuRegistered(db) == [db EXCEPT !.device_info.is_registered = TRUE]
loadEcuRegistered(db) == db.device_info # None /\ db.device_info.is_registered
-----------------------------------------------------------------------------
(* ecu_serials, the primary first, and the versions saved before it was    *)
(* known: their rows have the empty serial and are given the primary's.    *)
Adopted(versions, serial) == {[v EXCEPT !.ecu = IF @ = "" THEN serial ELSE @] : v \in versions}

storeEcuSerials(db, serials) ==
  IF serials = <<>> \/ \E i, j \in DOMAIN serials : i # j /\ serials[i].serial = serials[j].serial
  THEN db
  ELSE [db EXCEPT !.ecu_serials = serials,
                  !.installed_versions = Adopted(@, serials[1].serial)]

loadEcuSerials(db) == db.ecu_serials

storeMisconfiguredEcus(db, ecus) == IF ecus = {} THEN db ELSE [db EXCEPT !.misconfigured_ecus = ecus]
loadMisconfiguredEcus(db) == db.misconfigured_ecus
clearMisconfiguredEcus(db) == [db EXCEPT !.misconfigured_ecus = {}]

\* savePrimaryInstalledVersion(): with the empty serial while the primary's
\* is not known ("lazy init mode").
PrimarySerial(db) == IF db.ecu_serials = <<>> THEN "" ELSE db.ecu_serials[1].serial

saveInstalledVersion(db, target, mode) ==
  LET ecu == PrimarySerial(db)
      kept == {v \in db.installed_versions : <<v.ecu, v.target>> # <<ecu, target>>}
      Unset(v) == IF v.ecu = ecu /\ mode = "kCurrent" THEN [v EXCEPT !.current = FALSE] ELSE v
  IN  [db EXCEPT !.installed_versions =
         {Unset(v) : v \in kept} \cup {[ecu |-> ecu, target |-> target, current |-> mode = "kCurrent"]}]

loadInstalledVersions(db) == {v \in db.installed_versions : v.ecu = PrimarySerial(db)}

storeInstallationResult(db, result) == [db EXCEPT !.installation_result = result]
loadInstallationResult(db) == db.installation_result
-----------------------------------------------------------------------------
(* meta: a document is known by the version it states.  A root is filed    *)
(* under its version, the other roles under -1, one row each; a root under *)
(* -1 was stored by old software.                                          *)
MetaRows(db, repo, role) == {m \in db.meta : m.repo = repo /\ m.role = role}
Row(repo, role, version, doc) == [repo |-> repo, role |-> role, version |-> version, doc |-> doc]

storeRoot(db, repo, version, doc) ==
  [db EXCEPT !.meta = {m \in @ : ~(m \in MetaRows(db, repo, "root") /\ m.version = version)}
                        \cup {Row(repo, "root", version, doc)}]

storeNonRoot(db, repo, role, doc) ==
  [db EXCEPT !.meta = (@ \ MetaRows(db, repo, role)) \cup {Row(repo, role, -1, doc)}]

\* The root row without a version gets the one its document states, in place
\* of a row that had it.
cleanMetaVersion(db, repo) ==
  LET unversioned == {m \in MetaRows(db, repo, "root") : m.version = -1}
  IN  IF unversioned = {} THEN db
      ELSE LET old == CHOOSE m \in unversioned : TRUE
           IN  storeRoot([db EXCEPT !.meta = @ \ {old}], repo, old.doc, old.doc)
=============================================================================
