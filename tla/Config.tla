------------------------------- MODULE Config -------------------------------
(***************************************************************************)
(* How aktualizr arrives at its configuration: fragments in directories    *)
(* (BaseConfig::updateFromDirs), the command line, and the values derived  *)
(* from others (Config::postUpdateValues).  A directory is a function from *)
(* file names, which are numbers, to fragments; a fragment is a function   *)
(* from the options it sets to their values.  A URL is its parts.          *)
(***************************************************************************)
EXTENDS Integers, Sequences, SequencesExt, FiniteSets, TLC

CONSTANT None

Options == {"provision_path", "device_id", "key_source", "tls_source", "ca_source", "server", "server_url_path",
            "provision_server", "director_server", "ecu_registration_endpoint"}
Defaults == [o \in Options |-> None]

\* CopyFromConfig: an option of the fragment replaces the value there is; a
\* source of keys that is not pkcs11 is a file.
Converted(o, value) ==
  IF o \in {"key_source", "tls_source", "ca_source"} THEN (IF value = "pkcs11" THEN "kPkcs11" ELSE "kFile") ELSE value
updateFromPropertyTree(config, pt) ==
  [o \in DOMAIN pt |-> Converted(o, pt[o])] @@ config

\* Faulty variant: the files are read directory by directory.
updateFromDirs_unmerged(config, dirs) ==
  FoldLeft(LAMBDA c, d : FoldLeft(LAMBDA c2, name : updateFromPropertyTree(c2, d[name]), c, SetToSortSeq(DOMAIN d, <)),
           config, dirs)
\* A file hides one of the same name in an earlier directory; the files that
\* are left are read in the order of their names.
updateFromDirs(config, dirs) ==
  LET configs_map == FoldLeft(LAMBDA files, d : d @@ files, <<>>, dirs)
  IN  FoldLeft(LAMBDA c, name : updateFromPropertyTree(c, configs_map[name]), config, SetToSortSeq(DOMAIN configs_map, <))

updateFromCommandLine(config, cmd) == cmd @@ config

\* The server is the configured one, else the one in the file, which may be
\* unreadable, else the one of the archive with the credentials.
tls_server(c, gateway_url, archive_url) ==
  IF c.server # None THEN c.server
  ELSE IF c.server_url_path # None THEN gateway_url
  ELSE IF c.provision_path # None THEN archive_url ELSE None
\* An address that is not configured is a path below another one, if there is one.
Derived(value, base, path) == IF value # None \/ base = None THEN value ELSE base \o path
postUpdateValues(c, gateway_url, archive_url) ==
  LET server == tls_server(c, gateway_url, archive_url)
  IN  [mode |-> IF c.provision_path = None THEN "kImplicit" ELSE "kAutomatic",
       device_id |-> c.device_id,
       key_source |-> IF c.key_source = None THEN "kFile" ELSE c.key_source,
       tls_source |-> IF c.tls_source = None THEN "kFile" ELSE c.tls_source,
       ca_source |-> IF c.ca_source = None THEN "kFile" ELSE c.ca_source,
       server |-> server,
       provision_server |-> Derived(c.provision_server, server, <<>>),
       ecu_registration_endpoint |->
         Derived(c.ecu_registration_endpoint, Derived(c.director_server, server, <<"director">>), <<"ecus">>)]

\* The set of one configuration.
Configuration(dirs, cmd, gateway_url, archive_url) ==
  {postUpdateValues(c, gateway_url, archive_url) : c \in {updateFromCommandLine(updateFromDirs(Defaults, dirs), cmd)}}

-----------------------------------------------------------------------------
\* Reference: the value of an option is that of the command line, else that
\* of the last name whose file, in the last directory that has one, sets it.
Visible(dirs, name) == dirs[CHOOSE i \in DOMAIN dirs : name \in DOMAIN dirs[i] /\ \A j \in DOMAIN dirs : j > i => name \notin DOMAIN dirs[j]][name]
Setting(dirs, o) ==
  LET names == {n \in UNION {DOMAIN dirs[i] : i \in DOMAIN dirs} : o \in DOMAIN Visible(dirs, n)}
  IN  IF names = {} THEN None ELSE Converted(o, Visible(dirs, CHOOSE n \in names : \A k \in names : k <= n)[o])
EffectiveValue(dirs, cmd, o) == IF o \in DOMAIN cmd THEN cmd[o] ELSE Setting(dirs, o)
=============================================================================
