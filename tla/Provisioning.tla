---------------------------- MODULE Provisioning ----------------------------
(***************************************************************************)
(* From the start of the process to a provisioned device: reading the      *)
(* configuration, opening the SQL storage and migrating an older one       *)
(* (SQLStorage, INvStorage), importing the files that                      *)
(* aktualizr-cert-provider copies (importData), the Initializer with its   *)
(* device id, TLS credentials, Uptane keys, ECU serials and registration,  *)
(* and verifySecondaries.  The process can die between any two writes; the *)
(* server can refuse, fail or have its answer lost; a copy or a statement  *)
(* of SQLite can fail, which the code logs and passes over.                *)
(***************************************************************************)
EXTENDS KeyManager, Config, CertProvider

CONSTANTS DeviceIds,      \* the names genPrettyName() draws from
          Taken,          \* those that other devices have
          Keys,           \* the key pairs that can be generated
          Secondaries,    \* the secondary ECUs, known by their serial
          MaxMishaps      \* bound: deaths of the process, answers that are lost, malformed or
                          \* errors, SQL statements that fail, changes of the configuration

ASSUME ProvisioningAssumption ==
  Taken \subseteq DeviceIds /\ Current \in Nat /\ MaxMishaps \in Nat

kMaxInitializationAttempts == 3

VARIABLES layout,        \* the fragments of the configuration, and the command line
          config,        \* the configuration as the process read it when it started
          fs0,           \* the old storage as it was found
          db, fs, token, \* the database (None: no file), the old files, the PKCS#11 token
          configured,    \* the secondaries of the configuration
          server,        \* devices known to it, and its ECUs as <<serial, device>>
          pc, todo,      \* where the process is; the storage calls it is making
          attempt,       \* i of the loop of the Initializer
          local,         \* the id of the P12 package received, the key generated, "fs" while migrating
          generated,     \* history: the key pairs generated so far
          secondaries,   \* the client's map of secondaries
          curl,          \* the credentials of the HTTP client
          torn,          \* history: what was interrupted or failed so far
          mishaps

disk == <<db, fs, token>>
memory == <<todo, attempt, local, secondaries, curl>>
setup == <<layout, config, fs0, configured, import, provider>>
vars == <<setup, disk, server, pc, memory, generated, torn, mishaps>>

Sec(s) == [serial |-> s, hw_id |-> "secondary"]
Serials == {db.ecu_serials[i].serial : i \in DOMAIN db.ecu_serials}
Exists == db # None

\* A root of version 2, and one without its number, in an older database.
OldDb == [EmptyDb EXCEPT !.schema = 0, !.meta = {Row(Image, "root", 2, 2), Row(Image, "root", -1, 2),
                                               Row(Director, "root", -1, 1)}]

\* A device that an earlier release registered.
OldFs(sec) ==
  [EmptyFs EXCEPT !.keys = [public |-> "k0", private |-> "k0"],
     !.tls = [ca |-> "ca", cert |-> "d0", pkey |-> "d0"], !.device_id = "d0", !.serial = "k0",
     !.lines = <<[text |-> sec, tab |-> TRUE, hw_id |-> "secondary"]>>, !.is_registered = TRUE,
     !.misconfigured = {[serial |-> sec, state |-> "kOld"]}, !.result = "ok",
     !.versions = <<[target |-> "t1", current |-> TRUE], [target |-> "t2", current |-> FALSE]>>,
     !.roots = [r \in {Director, Image} |-> IF r = Director THEN {1} ELSE {1, 2, 3}],
     !.old_root = [r \in {Director, Image} |-> IF r = Director THEN 2 ELSE None],
     !.nonroot = {[repo |-> Director, role |-> "targets", doc |-> 4]}]

\* Automatic provisioning with a random or a given id, with the key on a
\* token, or of a device with older storage; implicit provisioning from
\* imported files or from a token.  The fragments are those of the
\* distribution, of which the second directory hides one.
Fragment(keys, value) == [o \in keys |-> value]
Automatic == Fragment({"provision_path"}, "credentials.zip")
Given == Fragment({"device_id"}, "d0")
Server == <<"server">>
Layout(first, second, cmd) == [dirs |-> <<first, second>>, cmd |-> cmd]
Distribution ==
  {Layout(20 :> Automatic, 20 :> f, <<>>) : f \in {Automatic, Automatic @@ Given, Automatic @@ Fragment({"key_source"}, "pkcs11")}}
  \cup {Layout(20 :> Automatic @@ 30 :> Given, 20 :> Fragment({"server_url_path"}, "gateway.url") @@ 30 :> <<>>, <<>>),
        Layout(20 :> Fragment({"key_source", "tls_source"}, "pkcs11"), <<>>, Fragment({"director_server"}, Server)),
        Layout(20 :> Fragment({"tls_source", "ca_source"}, "pkcs11"), <<>>, Fragment({"director_server"}, Server))}
WithId(l) == [l EXCEPT !.dirs[2] = @ @@ (50 :> Given)]
ReadConfig(l, url) == Configuration(l.dirs, l.cmd, url, Server)

\* Implicit provisioning from files.
Imports == config.mode = "kImplicit" /\ config.tls_source = "kFile"

Init ==
  /\ layout \in Distribution /\ provider = ProviderIdle
  /\ config \in ReadConfig(layout, None)
  /\ fs0 \in {EmptyFs} \cup (IF layout = Layout(20 :> Automatic, 20 :> Automatic, <<>>) THEN {OldFs(s) : s \in Secondaries} ELSE {})
  /\ db \in {None} \cup (IF config.mode = "kAutomatic" /\ fs0 = EmptyFs THEN {OldDb} ELSE {})
  /\ fs = fs0
  /\ token = [private |-> <<>>, public |-> <<>>, cert |-> IF config.tls_source = "kPkcs11" THEN "d0" ELSE None]
  /\ import = [ca |-> IF config.tls_source = "kPkcs11" THEN "ca" ELSE None, pkey |-> None, cert |-> None, url |-> None,
               keys |-> IF Imports THEN "ki" ELSE None, version |-> IF Imports THEN "t1" ELSE None]
  /\ configured \in SUBSET Secondaries
  /\ server = [devices |-> Taken \cup (IF fs0 = EmptyFs THEN {} ELSE {"d0"}),
               ecus |-> IF fs0 = EmptyFs THEN {} ELSE {<<s.serial, "d0">> : s \in Range(loadEcuSerials_fs(fs0))}]
  /\ pc = "off" /\ todo = <<>> /\ attempt = 0 /\ local = None /\ secondaries = {} /\ curl = NoCerts
  /\ generated = {} /\ torn = {}
  /\ mishaps = 0
-----------------------------------------------------------------------------
(* Failures. *)
Mishap == mishaps < MaxMishaps /\ mishaps' = mishaps + 1

\* Death of the process: what it was migrating stays as it is.
Die ==
  /\ pc' = "off" /\ todo' = <<>> /\ attempt' = 0 /\ local' = None /\ secondaries' = {} /\ curl' = NoCerts

Crash ==
  /\ pc # "off" /\ Mishap /\ Die
  /\ torn' = torn \cup (IF local = "fs" THEN {"migration"} ELSE {})
                  \cup (IF pc = "p11" THEN {"p11"} ELSE {})
  /\ UNCHANGED <<disk, setup, server, generated>>

Restart ==
  /\ pc = "run" /\ Die
  /\ UNCHANGED <<disk, setup, server, generated, torn, mishaps>>

\* Between two runs of the process, a secondary is added to or removed from
\* the configuration, or a fragment that gives the device an id is put there
\* (not with implicit provisioning, where the certificate has to name it).
Change ==
  /\ pc = "off" /\ Mishap
  /\ \/ \E c \in SUBSET Secondaries \ {configured} : configured' = c /\ UNCHANGED layout
     \/ config.mode = "kAutomatic" /\ layout \in Distribution /\ layout' = WithId(layout) /\ UNCHANGED configured
  /\ UNCHANGED <<config, fs0, import, provider, disk, server, pc, memory, generated, torn>>

\* aktualizr-cert-provider is run for a device that imports files.  What it
\* copies is read at the next start of the process.
Provide ==
  /\ Imports /\ pc = "off"
  /\ \/ (provider.run > 0 => Mishap) /\ (provider.run = 0 => UNCHANGED mishaps)
        /\ \E ca, url \in BOOLEAN, fails \in BOOLEAN : (provider.run = 0 => ca /\ url /\ ~fails) /\ ObtainPair(ca, url, fails)
     \/ CopyFile /\ UNCHANGED mishaps
     \/ CopyFails /\ Mishap
  /\ UNCHANGED <<layout, config, fs0, configured, disk, server, pc, memory, generated, torn>>

\* A statement of SQLite that fails is logged and passed over: the write is
\* lost, and a value that cannot be read looks as if it were not there.
SqlFault == Mishap /\ torn' = torn \cup {"sql"}
SqlOk == UNCHANGED <<mishaps, torn>>
Store(new) == (SqlOk /\ db' = new) \/ (new # db /\ SqlFault /\ db' = db)
\* IF absent(value) THEN db' = new, where either statement may fail.
StoreUnless(present, new) ==
  \/ present /\ SqlOk /\ UNCHANGED db
  \/ present /\ SqlFault /\ db' = new
  \/ ~present /\ Store(new)

Stay == UNCHANGED <<setup, server>>
Go(next) == pc' = next /\ Stay
-----------------------------------------------------------------------------
(* INvStorage::newStorage and importData. *)

\* The files of an earlier release are read only when there is no database
\* yet; to look at its version is to create it.
newStorage ==
  /\ pc = "off" /\ config' \in ReadConfig(layout, import.url)
  /\ local' = IF ~Exists /\ FSStoragePresent(fs) THEN "fs" ELSE None
  /\ db' = IF Exists THEN db ELSE EmptyDb
  /\ pc' = "schema" /\ UNCHANGED <<layout, fs0, configured, import, provider, server>>
  /\ UNCHANGED <<fs, token, todo, attempt, secondaries, curl, generated, torn, mishaps>>

\* A step that fails is not retried before the next start, and the first
\* statement on a table that is missing throws.
MigrateSchema ==
  /\ pc = "schema" /\ getVersion(db) < Current
  /\ \/ SqlOk /\ db' = dbMigrate(db) /\ Go("schema") /\ UNCHANGED memory
     \/ /\ Mishap /\ torn' = torn \cup {"sql"} \cup (IF local = "fs" THEN {"migration"} ELSE {})
        /\ Die /\ Stay /\ UNCHANGED db
  /\ UNCHANGED <<fs, token, generated>>

\* Faulty variant: a replaced certificate is imported like a replaced CA.
importDataReplaces ==
  If(import.keys # None /\ ~loadPrimaryKeys(db), "storePrimaryKeys", [public |-> import.keys, private |-> import.keys])
  \o If(import.ca # None /\ import.ca # loadTlsCa(db), "storeTlsCa", import.ca)
  \o If(import.cert # None /\ loadTlsCert(db) # import.cert, "storeTlsCert", import.cert)
  \o If(import.pkey # None /\ loadTlsPkey(db) = None, "storeTlsPkey", import.pkey)
\* Keys, certificate and private key are imported once; the CA is compared
\* and replaced; the version is saved and its file removed.
importData ==
  If(import.keys # None /\ ~loadPrimaryKeys(db), "storePrimaryKeys", [public |-> import.keys, private |-> import.keys])
  \o If(import.ca # None /\ import.ca # loadTlsCa(db), "storeTlsCa", import.ca)
  \o If(import.cert # None /\ loadTlsCert(db) = None, "storeTlsCert", import.cert)
  \o If(import.pkey # None /\ loadTlsPkey(db) = None, "storeTlsPkey", import.pkey)
  \o IF import.version = None \/ loadInstalledVersions(db) # {} THEN <<>>
     ELSE <<Call("savePrimaryInstalledVersion", "kCurrent", import.version), Call("removeVersions", None, None)>>

\* An import that can mix two pairs: the files are not two halves of one, or
\* the database has one half of another.
Mixes ==
  \/ import.cert # import.pkey
  \/ import.cert # None /\ (loadTlsCert(db) = None) # (loadTlsPkey(db) = None) /\ import.cert \notin {loadTlsCert(db), loadTlsPkey(db)}

\* The next series of calls.
NextCalls ==
  /\ pc \in {"schema", "clean", "rename", "migrate", "import"} /\ todo = <<>>
  /\ pc = "schema" => getVersion(db) = Current
  /\ LET migrating == local = "fs" IN
     CASE pc = "schema" -> Go("clean") /\ todo' = [i \in DOMAIN Repos |-> Call("cleanMetaVersion", Repos[i], None)]
       [] pc = "clean" /\ migrating -> Go("rename") /\ todo' = FSStorageRead(fs)
       [] pc = "rename" -> Go("migrate") /\ todo' = FSSToSQLS(fs)
       [] pc = "migrate" \/ (pc = "clean" /\ ~migrating) -> Go("import") /\ todo' = importData
       [] pc = "import" -> Go("construct") /\ UNCHANGED todo
  /\ local' = IF pc = "migrate" THEN None ELSE local
  /\ torn' = IF pc' = "import" /\ Mixes THEN torn \cup {"import"} ELSE torn
  /\ UNCHANGED <<disk, attempt, secondaries, curl, generated, mishaps>>

\* One of them.  storeEcuRegistered throws when there is no device id.
MakeCall ==
  /\ todo # <<>>
  /\ LET c == Head(todo)
         throws == c.op = "storeEcuRegistered" /\ db.device_info = None
     IN  /\ IF throws THEN Die /\ torn' = torn \cup {"migration"} /\ UNCHANGED <<db, mishaps>>
            ELSE todo' = Tail(todo) /\ Store(ApplyToDb(c, db)) /\ UNCHANGED <<pc, attempt, local, secondaries, curl>>
         /\ fs' = ApplyToFs(c, fs)
         /\ import' = IF c.op = "removeVersions" THEN [import EXCEPT !.version = None] ELSE import
  /\ UNCHANGED <<token, layout, config, fs0, configured, provider, server, generated>>
-----------------------------------------------------------------------------
(* The client is constructed; secondaries may be added until Initialize.   *)

SotaUptaneClient ==
  /\ pc = "construct" /\ secondaries' = configured /\ Go("init")
  /\ UNCHANGED <<disk, todo, attempt, local, curl, generated, torn, mishaps>>

\* addNewSecondary throws for an ECU that a provisioned device did not register.
AddSecondary(s) ==
  /\ pc = "init" /\ s \notin secondaries
  /\ loadEcuRegistered(db) => s \in Serials
  /\ secondaries' = secondaries \cup {s} /\ Go("init")
  /\ UNCHANGED <<disk, todo, attempt, local, curl, generated, torn, mishaps>>

Initialize ==
  /\ pc = "init" /\ attempt' = 0 /\ Go("device")
  /\ UNCHANGED <<disk, todo, local, secondaries, curl, generated, torn, mishaps>>

\* The KeyManager opens the token: a module that cannot be loaded, a slot
\* without a token or an engine that does not start throws.
P11Engine ==
  /\ pc = "init" /\ "kPkcs11" \in {config.tls_source, config.key_source}
  /\ Mishap /\ Die /\ UNCHANGED <<disk, setup, server, generated, torn>>
-----------------------------------------------------------------------------
(* Initializer. *)

\* The id in the database, else the configured one, else a random name or
\* the one in the certificate (whose absence throws).
initDeviceId(id) ==
  /\ pc = "device"
  /\ id \in IF config.device_id # None THEN {config.device_id}
            ELSE IF config.mode = "kAutomatic" THEN DeviceIds ELSE {getCN(config, db, token)}
  /\ id # NotFound
  /\ StoreUnless(loadDeviceId(db) # None, storeDeviceId(db, id))
  /\ Go("tls")
  /\ UNCHANGED <<fs, token, memory, generated>>

NoCertificate ==
  /\ pc = "device" /\ config.mode = "kImplicit" /\ loadDeviceId(db) = None
  /\ getCN(config, db, token) = NotFound
  /\ Die /\ UNCHANGED <<disk, setup, server, generated, torn, mishaps>>

\* HttpClient::setCerts: the handle from which every request is copied.
setCerts(certs) == curl' = certs

\* loadSetTlsCreds: without credentials only automatic provisioning goes on.
\* copyCertsToCurl and isOk read them one after the other, and each read can
\* fail; a CA on the token is refused by setCerts, which throws.
loadSetTlsCreds(next, otherwise) ==
  LET ok == isOk(config, db)
      Without == IF otherwise = "off" \/ loadDeviceId(db) = None THEN Die /\ Stay
                 ELSE Go(otherwise) /\ UNCHANGED memory
  IN  /\ \/ ok /\ config.ca_source = "kPkcs11" /\ SqlOk /\ Die /\ Stay
         \/ ok /\ config.ca_source = "kFile" /\ SqlOk /\ setCerts(Credentials(config, db)) /\ Go(next) /\ UNCHANGED <<todo, attempt, local, secondaries>>
         \/ ok /\ config.ca_source = "kFile" /\ SqlFault /\ Go(next) /\ UNCHANGED memory
         \/ ((~ok /\ SqlOk) \/ (config.ca_source = "kFile" /\ SqlFault)) /\ Without
      /\ UNCHANGED <<disk, generated>>

initTlsCreds ==
  /\ pc = "tls" /\ loadSetTlsCreds("keys", IF config.mode = "kAutomatic" THEN "post" ELSE "off")

AnotherAttempt == attempt + 1 < kMaxInitializationAttempts

\* The archive of the fleet's credentials, with which a device asks for its
\* own; one that cannot be read or parsed throws.
Bootstrap == [ca |-> "boot", cert |-> "boot", pkey |-> "boot"]
UseBootstrap ==
  /\ pc = "post" /\ curl # Bootstrap
  /\ \/ setCerts(Bootstrap) /\ UNCHANGED <<pc, todo, attempt, local, secondaries, mishaps>>
     \/ Mishap /\ Die
  /\ UNCHANGED <<disk, setup, server, generated, torn>>

\* The P12 package with a device's credentials, or what is none.
Malformed == "malformed"
parseP12(body) == IF body = Malformed THEN None ELSE [ca |-> "ca", cert |-> body, pkey |-> body]

\* HttpClient::perform: a request whose answer is lost, too long or an error
\* of the server is sent again, although the server may have acted on it; the
\* last failure is the caller's, which gives up.  MaxMishaps stands for
\* RETRY_TIMES.
performFails(acted) == Mishap /\ server' \in {server, acted} /\ (Die \/ UNCHANGED <<pc, memory>>)

\* POST /devices.  The server knows the device from then on, whether or not
\* its answer arrives and can be parsed.
PostDevice ==
  /\ pc = "post" /\ config.provision_server # None /\ curl = Bootstrap
  /\ LET id == loadDeviceId(db)
         acted == [server EXCEPT !.devices = @ \cup {id}]
     IN  \/ /\ id \notin server.devices /\ server' = acted
            /\ \E body \in {id, Malformed} :
                 IF parseP12(body) = None THEN Mishap /\ Die
                 ELSE local' = body /\ pc' = "ca" /\ UNCHANGED <<todo, attempt, secondaries, curl, mishaps>>
            /\ UNCHANGED db
         \/ id \notin server.devices /\ performFails(acted) /\ UNCHANGED db
         \/ /\ id \in server.devices /\ db' = clearDeviceId(db)
            /\ IF AnotherAttempt
               THEN attempt' = attempt + 1 /\ pc' = "device" /\ UNCHANGED <<todo, local, secondaries, curl>>
               ELSE Die
            /\ UNCHANGED <<server, mishaps>>
  /\ UNCHANGED <<fs, token, setup, generated, torn>>

\* storeTlsCreds is three transactions.
storeTlsCreds ==
  /\ \/ pc = "ca" /\ Store(storeTlsCa(db, parseP12(local).ca)) /\ Go("cert")
     \/ pc = "cert" /\ Store(storeTlsCert(db, parseP12(local).cert)) /\ Go("pkey")
     \/ pc = "pkey" /\ Store(storeTlsPkey(db, parseP12(local).pkey)) /\ Go("set")
  /\ UNCHANGED <<fs, token, memory, generated>>

setTlsCreds == pc = "set" /\ loadSetTlsCreds("keys", "off")

\* A pair never seen before is generated unless both halves are found.
NewKey == CHOOSE k \in Keys : k \notin generated
generateUptaneKeyPair ==
  /\ pc = "keys"
  /\ IF config.key_source = "kFile"
     THEN /\ StoreUnless(loadPrimaryKeys(db), storePrimaryKeys(db, NewKey, NewKey))
          /\ generated' = IF db' = db /\ loadPrimaryKeys(db) THEN generated ELSE generated \cup {NewKey}
          /\ Go("serials") /\ UNCHANGED <<token, local>>
     ELSE /\ SqlOk /\ UNCHANGED db
          /\ IF readUptanePublicKey(token) # None
             THEN Go("serials") /\ UNCHANGED <<token, local, generated>>
             ELSE /\ token' = [token EXCEPT !.private = Append(@, NewKey)]
                  /\ generated' = generated \cup {NewKey} /\ local' = NewKey /\ Go("p11")
  /\ UNCHANGED <<fs, todo, attempt, secondaries, curl>>

\* The pair of the primary cannot be generated: the initializer throws.
generateKeyPairFails ==
  /\ pc = "keys" /\ config.key_source = "kFile" /\ ~loadPrimaryKeys(db)
  /\ Mishap /\ Die /\ UNCHANGED <<disk, setup, server, generated, torn>>

\* The token is not there, or cannot be logged in to.
NoToken ==
  /\ pc = "keys" /\ config.key_source # "kFile"
  /\ Mishap /\ Die /\ UNCHANGED <<disk, setup, server, generated, torn>>

\* The token is given the private key first.
StorePublicKey ==
  /\ pc = "p11" /\ token' = [token EXCEPT !.public = Append(@, local)] /\ Go("serials")
  /\ UNCHANGED <<db, fs, memory, generated, torn, mishaps>>

\* The primary is called after its key; what is stored stays.
initEcuSerials ==
  /\ pc = "serials"
  /\ LET key == UptanePublicKey(config, db, token)
         secs == SetToSeq(secondaries)
         serials == <<[serial |-> key, hw_id |-> "primary"]>> \o [i \in DOMAIN secs |-> Sec(secs[i])]
         stored == loadEcuSerials(db) # <<>>
     IN  \/ /\ key # NotFound \/ stored
            /\ IF key = NotFound THEN SqlOk /\ UNCHANGED db ELSE StoreUnless(stored, storeEcuSerials(db, serials))
            /\ Go("register") /\ UNCHANGED memory
         \/ /\ key = NotFound /\ IF stored THEN SqlFault ELSE SqlOk
            /\ Die /\ Stay /\ UNCHANGED db
  /\ UNCHANGED <<fs, token, generated>>

\* Who the server takes the device for: no connection without a matching pair.
CN ==
  CASE curl.cert = P11Uri -> readTlsCert(token)
    [] curl.cert \in DeviceIds \cup {"d0", "i1", "i2"} /\ curl.cert = curl.pkey -> curl.cert
    [] OTHER -> NotFound

\* POST to the registration endpoint: the stored primary and the secondaries
\* that are connected now.  An ECU that is known already is no obstacle.
initEcuRegister ==
  /\ pc = "register"
  /\ LET key == UptanePublicKey(config, db, token)
         posted == {<<s, CN>> : s \in {PrimarySerial(db)} \cup secondaries}
         known == \E e \in server.ecus : e[2] = CN \/ \E p \in posted : p[1] = e[1]
     IN  \/ loadEcuRegistered(db) /\ pc' = "flag" /\ UNCHANGED <<server, memory, mishaps>>
         \/ /\ ~loadEcuRegistered(db) /\ (key = NotFound \/ Serials = {} \/ CN = NotFound \/ config.ecu_registration_endpoint = None)
            /\ Die /\ UNCHANGED <<server, mishaps>>
         \/ /\ ~loadEcuRegistered(db) /\ key # NotFound /\ Serials # {} /\ CN # NotFound /\ config.ecu_registration_endpoint # None
            /\ \/ /\ server' = IF known THEN server ELSE [server EXCEPT !.ecus = @ \cup posted]
                  /\ pc' = "flag" /\ UNCHANGED <<memory, mishaps>>
               \/ performFails([server EXCEPT !.ecus = IF known THEN @ ELSE @ \cup posted])
  /\ UNCHANGED <<disk, setup, generated, torn>>

\* "TODO: acknowledge on server _before_ setting the flag".
StoreRegistered ==
  /\ pc = "flag"
  /\ IF db.device_info = None
     THEN SqlOk /\ Die /\ Stay /\ UNCHANGED db
     ELSE Store(storeEcuRegistered(db)) /\ Go("verify") /\ UNCHANGED memory
  /\ UNCHANGED <<fs, token, generated>>

\* verifySecondaries: the list is emptied, then written if there is any.
Misconfigured ==
  {[serial |-> s, state |-> "kOld"] : s \in Serials \ ({PrimarySerial(db)} \cup secondaries)}
  \cup {[serial |-> s, state |-> "kNotRegistered"] : s \in secondaries \ Serials}

verifySecondaries ==
  /\ \/ pc = "verify" /\ Store(clearMisconfiguredEcus(db)) /\ Go("misconfigured")
     \/ pc = "misconfigured" /\ Store(storeMisconfiguredEcus(db, Misconfigured)) /\ Go("run")
  /\ UNCHANGED <<fs, token, memory, generated>>
-----------------------------------------------------------------------------
Step ==
  \/ newStorage \/ MigrateSchema \/ NextCalls \/ MakeCall \/ SotaUptaneClient \/ Initialize
  \/ \E id \in DeviceIds \cup {"d0", "i1", "i2"} : initDeviceId(id)
  \/ NoCertificate \/ P11Engine \/ initTlsCreds \/ UseBootstrap \/ PostDevice \/ storeTlsCreds \/ setTlsCreds
  \/ generateUptaneKeyPair \/ generateKeyPairFails \/ NoToken \/ StorePublicKey \/ initEcuSerials \/ initEcuRegister \/ StoreRegistered \/ verifySecondaries

Next == Step \/ Crash \/ Restart \/ Change \/ Provide \/ \E s \in Secondaries : AddSecondary(s)

\* The process is started again whenever it ends, and runs on; a random name
\* is not one that the server knows for ever.
Spec ==
  /\ Init /\ [][Next]_vars /\ WF_vars(Step)
  /\ SF_vars(\E id \in DeviceIds \ server.devices : initDeviceId(id))
-----------------------------------------------------------------------------
\* The bookkeeping keeps its form: calls are left only while the storage is
\* opened or imported, and an attempt is one of three.
TypeOK ==
  /\ attempt \in 0..kMaxInitializationAttempts - 1 /\ mishaps \in 0..MaxMishaps
  /\ torn \subseteq {"migration", "sql", "p11", "import"} /\ generated \subseteq Keys
  /\ secondaries \subseteq Secondaries
  /\ todo # <<>> => pc \in {"clean", "rename", "migrate", "import"}
  /\ pc \notin {"off", "schema"} => getVersion(db) = Current

\* The process runs with the values that the last fragment and the command
\* line give: a fragment hides one of the same name in an earlier directory,
\* even if it is empty, and later names override earlier ones, whichever
\* directory they are in (updateFromDirs).
ConfigIsEffective ==
  pc = "schema" =>
    LET value(o) == EffectiveValue(layout.dirs, layout.cmd, o)
    IN  /\ config.device_id = value("device_id")
        /\ (config.mode = "kImplicit") = (value("provision_path") = None)
        /\ \A o \in {"key_source", "tls_source", "ca_source"} : config[o] = IF value(o) = None THEN "kFile" ELSE value(o)

Whole(parts) == torn \cap parts = {}
Registered == Exists /\ loadEcuRegistered(db)

\* initTlsCreds only asks whether the three columns of tls_creds are filled:
\* however the process dies between the three transactions of storeTlsCreds,
\* and however often it is provisioned anew, a full row holds a certificate
\* and the private key that belongs to it.
CredentialsMatch ==
  Exists /\ loadTlsCreds(db) /\ Whole({"sql", "import"}) => loadTlsCert(db) = loadTlsPkey(db)

\* After provisioning, every request is made with the device's own
\* credentials, which are those that OSTree's remote gets through temporary
\* files: neither with the fleet's, nor with those of an earlier attempt.
AuthenticatesAsItself ==
  pc \in {"keys", "p11", "serials", "register", "flag", "verify", "misconfigured", "run"} /\ Whole({"sql"}) =>
    curl # NoCerts /\ curl = addRemote(config, db)

\* Once the device counts as registered (initEcuRegister is skipped for
\* good), the server knows its primary ECU, under the name in the
\* certificate, and that is the device id: also after lost answers, name
\* collisions and deaths between the POST and the flag.
RegisteredIsKnown ==
  Registered /\ Whole({"sql", "migration"}) =>
    /\ loadDeviceId(db) = getCN(config, db, token)
    /\ <<PrimarySerial(db), loadDeviceId(db)>> \in server.ecus

\* A registered device keeps its identity: no start of the process replaces
\* the device id, the credentials, the key or the serials it registered with.
Identity(d) == <<d.device_info, d.tls.cert, d.tls.pkey, d.keys, d.ecu_serials>>
\* ... from the moment initEcuRegister has set the flag.
NeverForgets == [][Registered /\ "sql" \notin torn' => Identity(db') = Identity(db)]_vars

\* The key that signs the manifests is the one whose id the signature names
\* and the primary was registered with.
SignerIsKnown ==
  pc = "run" /\ Whole({"sql", "p11"}) =>
    LET s == signTuf(config, db, token) IN s.signer = s.keyid /\ s.keyid = PrimarySerial(db)

\* When the client runs, misconfigured_ecus is exactly the difference of the
\* stored serials and the secondaries there are, whatever an earlier start
\* or an earlier release left in it.
MisconfiguredExact ==
  pc = "run" /\ Whole({"sql"}) => loadMisconfiguredEcus(db) = Misconfigured

\* A device of an earlier release that was migrated without interruption is
\* the same device: identity, versions, metadata and, for both repositories,
\* the chain of roots up to the Director's latest.
MigratedWhole ==
  pc = "run" /\ fs0 # EmptyFs /\ torn = {} =>
    /\ loadDeviceId(db) = fs0.device_id /\ db.tls = fs0.tls /\ db.keys = fs0.keys
    /\ db.ecu_serials = loadEcuSerials_fs(fs0) /\ Registered /\ loadInstallationResult(db) = fs0.result
    /\ loadInstalledVersions(db) =
         {[ecu |-> fs0.serial, target |-> v.target, current |-> v.current] : v \in Range(fs0.versions)}
    /\ \A r \in {Director, Image} :
         LET all == fs0.roots[r] \cup ({fs0.old_root[r]} \ {None})
             latest == Max(fs0.roots[Director] \cup ({fs0.old_root[Director]} \ {None}))
         IN  {m.version : m \in MetaRows(db, r, "root")} = {v \in all : v <= latest}
    /\ fs = EmptyFs

\* importData: a CA that was replaced is used from the next start on, and the
\* version read from a file that is then removed is the primary's current
\* one, although the primary had no serial when it was saved.
ImportsTakeEffect ==
  pc = "run" /\ Whole({"sql"}) /\ Imports =>
    /\ import.ca # None => loadTlsCa(db) = import.ca
    /\ loadInstalledVersions(db) = {[ecu |-> PrimarySerial(db), target |-> "t1", current |-> TRUE]}

\* Every root row has its own version once the storage is open.
RootsVersioned ==
  pc \notin {"off", "schema", "clean"} /\ Whole({"sql"}) =>
    \A m \in db.meta : m.role = "root" => m.version = m.doc

\* A device that may choose its name is provisioned in the end, after every
\* start, whatever was lost before; unless SQLite failed or the device id is
\* fixed: a fixed id whose answer got lost stays occupied.
EventuallyProvisioned ==
  [](config.device_id = None /\ config.mode = "kAutomatic") => []<>(pc = "run" \/ "sql" \in torn)

\* The server knows the device by what it is registered with, authenticates
\* with and signs with, and a registered device never changes these.
KnownAsItself == [](RegisteredIsKnown /\ AuthenticatesAsItself /\ SignerIsKnown) /\ NeverForgets

\* What earlier releases, earlier starts and imported files left is taken
\* over as a whole (FSSToSQLS, importData, cleanMetaVersion, verifySecondaries).
TakenOver == MigratedWhole /\ ImportsTakeEffect /\ RootsVersioned /\ MisconfiguredExact
=============================================================================
