--------------------------- MODULE RemoteSecondary ----------------------------
(***************************************************************************)
(* aktualizr-secondary, a process of its own that the primary reaches over *)
(* ASN.1 messages (SocketServer, AktualizrSecondary) or over OPC-UA        *)
(* (opcuabridge::Server, OpcuaServerSecondaryDelegate).  Operators on a    *)
(* record per secondary, used by module Secondaries.                       *)
(***************************************************************************)
EXTENDS ManagedSecondary, FiniteSets

CONSTANT MaxFds      \* bound: descriptors that the process may have open for connections

\* Storage: the root and the targets of the Director.
EmptyStorage == [root |-> None, version |-> None]

\* A root that accepts anything until one is stored.
kAcceptAll == 0

\* The state of a process that has just been started.  Only the root is
\* read back from the storage.
Started(disk) ==
  [up |-> TRUE, root |-> IF disk.root = None THEN kAcceptAll ELSE disk.root,
   version |-> -1, target |-> None, fds |-> 0,
   number |-> 0, received |-> 0, received_meta_pack |-> [root |-> None, targets |-> None]]
Stopped == [Started(EmptyStorage) EXCEPT !.up = FALSE]

\* A connection is accepted and never closed; when there is no descriptor
\* left, Run returns and the process ends.
Accept(mem) == IF mem.fds < MaxFds THEN [mem EXCEPT !.fds = @ + 1] ELSE Stopped

\* Root n is signed with the keys of n and of n - 1.
\* Faulty variant: the root in use is not asked.
VerifiesAny(root, new) == TRUE
Verifies(root, new) == root = kAcceptAll \/ new \in {root, root + 1}

\* Faulty variant: the metadata is not written to the storage.
putMetadataRespForgets(mem, disk, pack, s) ==
  IF ~Verifies(mem.root, pack.root) THEN [mem |-> Stopped, disk |-> disk]
  ELSE [mem |-> [mem EXCEPT !.root = pack.root, !.version = pack.targets.version], disk |-> disk]
\* A root that does not verify throws what HandleOneConnection does not
\* catch: the process ends.
putMetadataResp(mem, disk, pack, s) ==
  LET t == pack.targets
      same == [mem |-> [mem EXCEPT !.root = pack.root], disk |-> disk]
  IN  IF ~Verifies(mem.root, pack.root) THEN [mem |-> Stopped, disk |-> disk]
      ELSE IF mem.version > t.version THEN same
      ELSE [mem |-> [mem EXCEPT !.root = pack.root, !.version = t.version,
                                !.target = IF t.assign[s] = None THEN @ ELSE t.assign[s]],
            disk |-> [root |-> pack.root, version |-> t.version]]

\* The server that is pulled from: the archive's is read, and then replaced
\* by a string that was never assigned.
TreehubServer(archive) == None

\* Without a server nothing can be pulled; a commit that is present already
\* is not kOk either.
pull(server) == IF server = None THEN "kInstallFailed" ELSE "kOk"

\* An OSTree deployment waits for a reboot.
install == "kNeedCompletion"

sendFirmwareResp(mem, archive) ==
  mem.target # None /\ pull(TreehubServer(archive)) = "kOk" /\ install = "kOk"

\* The dispatch of one request, over a connection that has to be accepted.
HandleOneConnection(mem, disk, request, pack, s) ==
  LET c == Accept(mem)
      put == putMetadataResp(c, disk, pack, s)
  IN  IF ~c.up THEN [mem |-> c, disk |-> disk, ok |-> FALSE]
      ELSE IF request = "putMetaReq" THEN [mem |-> put.mem, disk |-> put.disk, ok |-> put.mem.up]
      ELSE [mem |-> c, disk |-> disk, ok |-> sendFirmwareResp(c, "server.url")]
-----------------------------------------------------------------------------
(* The OPC-UA server. *)

\* A write to MetadataFiles announces how many files follow; those received
\* before are not forgotten, whatever batch they are from.
writeMetadataFiles(mem, n) == [mem EXCEPT !.number = n]

handleMetaDataFileReceived(mem, role, batch) == [mem EXCEPT !.received_meta_pack[role] = batch]

\* handleAllMetaDataFilesReceived parses the stored root, which there is not
\* on a device that never stored one, and the exception is not caught.
handleAllMetaDataFilesReceived(mem) == [Stopped EXCEPT !.received_meta_pack = mem.received_meta_pack]

countReceivedMetadataFile(mem, role, batch) ==
  LET got == [handleMetaDataFileReceived(mem, role, batch) EXCEPT !.received = @ + 1]
  IN  IF got.received = mem.number THEN handleAllMetaDataFilesReceived(got) ELSE got

\* Of the files of the primary's repository those are sent whose name the
\* secondary does not have yet.
MissingFiles(files, all) == {f \in all : files[f] = "absent"}

\* Files arrive in blocks that are appended; the first block makes the file.
ClientWriteFile(files, whole, part) ==
  [f \in DOMAIN files |-> IF f \in whole THEN "whole" ELSE IF f \in part THEN "part" ELSE files[f]]
=============================================================================
