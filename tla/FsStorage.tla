----------------------------- MODULE FsStorage ------------------------------
(***************************************************************************)
(* The directory of files in which releases before the SQL storage kept    *)
(* the state of the device (storage/fsstorage_read.cc), and its migration  *)
(* (storage/invstorage.cc).  The migration is a sequence of calls, each of *)
(* which changes the database or the directory on its own: the process can *)
(* die between any two of them.                                            *)
(***************************************************************************)
EXTENDS SqlStorage, FiniteSetsExt

Director == "director"
Image == "repo"
Repos == <<Director, Image>>

\* No file of the old storage.  roots: the N.root.json of each repository;
\* old_root: the version stated by a root.json without a number, or None;
\* lines: secondaries_list; versions: installed_versions, in file order.
EmptyFs ==
  [keys |-> NoKeys, tls |-> NoTls, device_id |-> None, serial |-> None, lines |-> <<>>,
   is_registered |-> FALSE, misconfigured |-> None, result |-> None, versions |-> <<>>,
   roots |-> [r \in {Director, Image} |-> {}], old_root |-> [r \in {Director, Image} |-> None],
   nonroot |-> {}]

FSStoragePresent(fs) == fs.is_registered

\* The calls of a migration, as data; the process makes them one by one.
Call(op, repo, arg) == [op |-> op, repo |-> repo, arg |-> arg]
If(present, op, arg) == IF present THEN <<Call(op, None, arg)>> ELSE <<>>
-----------------------------------------------------------------------------
(* The constructor files a root.json under the version it states: it       *)
(* removes the file before it writes the new one.                          *)
FSStorageRead(fs) ==
  FlattenSeq([i \in DOMAIN Repos |->
    LET v == fs.old_root[Repos[i]]
    IN  IF v = None THEN <<>>
        ELSE <<Call("removeRoot", Repos[i], None), Call("writeRoot", Repos[i], v)>>])

findMaxVersion(fs, repo) == Max(fs.roots[repo] \cup {-1})

\* The latest root asked for is the Director's, whatever the repository.
loadRoot(fs, repo, version) ==
  LET v == IF version < 0 THEN findMaxVersion(fs, Director) ELSE version
  IN  IF v \in fs.roots[repo] THEN v ELSE None

\* The primary comes from its own file, each secondary from a line "serial
\* TAB hardware id"; of a line without the tab, substr(npos + 1) is all of it.
loadEcuSerials_fs(fs) ==
  IF fs.serial = None THEN <<>>
  ELSE <<[serial |-> fs.serial, hw_id |-> "primary"]>> \o
       [i \in DOMAIN fs.lines |->
          [serial |-> fs.lines[i].text,
           hw_id  |-> IF fs.lines[i].tab THEN fs.lines[i].hw_id ELSE fs.lines[i].text]]

\* fsReadInstalledVersions: the entry marked current, the last one if many.
current_version(versions) == Max({i \in DOMAIN versions : versions[i].current} \cup {0})

\* All but the roots, in the order of the code.
MigratedValues(fs) ==
  LET serials == loadEcuSerials_fs(fs)
      current == current_version(fs.versions)
  IN  If(fs.keys.public # None /\ fs.keys.private # None, "storePrimaryKeys", fs.keys)
      \o If(fs.tls.ca # None, "storeTlsCa", fs.tls.ca)
      \o If(fs.tls.cert # None, "storeTlsCert", fs.tls.cert)
      \o If(fs.tls.pkey # None, "storeTlsPkey", fs.tls.pkey)
      \o If(fs.device_id # None, "storeDeviceId", fs.device_id)
      \o If(serials # <<>>, "storeEcuSerials", serials)
      \o If(fs.is_registered, "storeEcuRegistered", None)
      \o If(fs.misconfigured # None, "storeMisconfiguredEcus", fs.misconfigured)
      \o If(fs.result # None, "storeInstallationResult", fs.result)
      \o [i \in DOMAIN fs.versions |->
            Call("savePrimaryInstalledVersion", IF i = current THEN "kCurrent" ELSE "kNone", fs.versions[i].target)]
      \o SetToSeq({Call("storeNonRoot", m.repo, m) : m \in fs.nonroot})

\* Faulty variant: the roots of each repository up to its own first one only.
MigratedRootsFirst(fs) ==
  FlattenSeq([i \in DOMAIN Repos |->
    LET found == {v \in 0..1 : loadRoot(fs, Repos[i], v) # None}
    IN  [k \in DOMAIN SetToSortSeq(found, <) |-> Call("storeRoot", Repos[i], SetToSortSeq(found, <)[k])]])
\* The roots of both repositories up to the latest of the Director.
MigratedRoots(fs) ==
  FlattenSeq([i \in DOMAIN Repos |->
    LET found == {v \in 0..findMaxVersion(fs, Director) : loadRoot(fs, Repos[i], v) # None}
    IN  [k \in DOMAIN SetToSortSeq(found, <) |-> Call("storeRoot", Repos[i], SetToSortSeq(found, <)[k])]])

\* "if everything is ok, remove old files": one call for each kind of file.
cleanUpAll ==
  LET fields == <<"keys", "tls", "device_id", "serial", "lines", "is_registered", "misconfigured",
                  "versions", "result", "roots", "old_root", "nonroot">>
  IN  [i \in DOMAIN fields |-> Call("clear", None, fields[i])]

FSSToSQLS(fs) == MigratedValues(fs) \o MigratedRoots(fs) \o cleanUpAll
-----------------------------------------------------------------------------
(* What one call does to the database and to the directory. *)
ApplyToDb(c, db) ==
  CASE c.op = "storePrimaryKeys" -> storePrimaryKeys(db, c.arg.public, c.arg.private)
    [] c.op = "storeTlsCa" -> storeTlsCa(db, c.arg)
    [] c.op = "storeTlsCert" -> storeTlsCert(db, c.arg)
    [] c.op = "storeTlsPkey" -> storeTlsPkey(db, c.arg)
    [] c.op = "storeDeviceId" -> storeDeviceId(db, c.arg)
    [] c.op = "storeEcuSerials" -> storeEcuSerials(db, c.arg)
    [] c.op = "storeEcuRegistered" -> storeEcuRegistered(db)
    [] c.op = "storeMisconfiguredEcus" -> storeMisconfiguredEcus(db, c.arg)
    [] c.op = "storeInstallationResult" -> storeInstallationResult(db, c.arg)
    [] c.op = "savePrimaryInstalledVersion" -> saveInstalledVersion(db, c.arg, c.repo)
    [] c.op = "storeNonRoot" -> storeNonRoot(db, c.repo, c.arg.role, c.arg.doc)
    [] c.op = "storeRoot" -> storeRoot(db, c.repo, c.arg, c.arg)
    [] c.op = "cleanMetaVersion" -> cleanMetaVersion(db, c.repo)
    [] OTHER -> db

ApplyToFs(c, fs) ==
  CASE c.op = "removeRoot" -> [fs EXCEPT !.old_root[c.repo] = None]
    [] c.op = "writeRoot" -> [fs EXCEPT !.roots[c.repo] = @ \cup {c.arg}]
    [] c.op = "clear" -> [fs EXCEPT ![c.arg] = EmptyFs[c.arg]]
    [] OTHER -> fs
=============================================================================
