--------------------------- MODULE ManagedSecondary ---------------------------
(***************************************************************************)
(* A secondary that lives in the process of the primary (ManagedSecondary, *)
(* with the files of VirtualSecondary): its metadata is in memory only,    *)
(* its keys and its firmware are files.  Operators on a record per         *)
(* secondary, used by module Secondaries.                                  *)
(***************************************************************************)
EXTENDS Integers

CONSTANT None

\* The files of a secondary: the two halves of its key, the name of its
\* firmware and the firmware itself.
NoFiles == [private |-> None, public |-> None, name |-> None, firmware |-> None]

\* Faulty variant: one half of the pair is enough.
loadKeysHalf(files) == files.public # None \/ files.private # None
loadKeys(files) == files.public # None /\ files.private # None

\* The constructor: keys that are not both found are replaced by new ones,
\* which Initialize stores later.
Constructed(files, fresh) ==
  [private |-> IF loadKeys(files) THEN files.private ELSE fresh,
   public |-> IF loadKeys(files) THEN files.public ELSE fresh,
   root |-> 0, targets |-> None, expected |-> None, detected_attack |-> FALSE]

\* Initialize rewrites both files, the private key first.
storeKeysStep(files, mem) ==
  IF files.private # mem.private THEN [files EXCEPT !.private = mem.private]
  ELSE [files EXCEPT !.public = mem.public]

\* The root is signed with its own keys, the targets with those of the root.
isConsistent(mem) == mem.root # 0 /\ mem.targets # None => mem.targets.root = mem.root

getRootVersion(mem) == mem.root

\* The root is replaced before the check; the answer of the check is logged.
putRoot(mem, v) ==
  IF v = mem.root + 1 THEN [mem EXCEPT !.root = v] ELSE [mem EXCEPT !.detected_attack = TRUE]

\* What does not verify replaces the metadata, not the expected target.
putMetadata(mem, pack, s) ==
  LET read == [mem EXCEPT !.root = pack.root, !.targets = pack.targets, !.detected_attack = FALSE]
  IN  IF ~isConsistent(read) THEN read
      ELSE [read EXCEPT !.expected = pack.targets.assign[s],
                        !.detected_attack = pack.targets.assign[s] = None]

\* Before the firmware is stored: is an image expected, is it this one?
sendFirmware(mem, image) ==
  IF mem.expected = None \/ mem.detected_attack THEN [ok |-> FALSE, mem |-> mem]
  ELSE [ok |-> image = mem.expected, mem |-> [mem EXCEPT !.detected_attack = image # mem.expected]]

\* storeFirmware writes two files, each replaced as a whole.
storeName(files, mem) == [files EXCEPT !.name = mem.expected]
storeContent(files, image) == [files EXCEPT !.firmware = image]

\* The manifest names "noimage" unless both files are there.
getFirmwareInfo(files) ==
  IF files.name = None \/ files.firmware = None THEN [name |-> "noimage", hash |-> None]
  ELSE [name |-> files.name, hash |-> files.firmware]
=============================================================================
