-------------------------------- MODULE Uptiny --------------------------------
(***************************************************************************)
(* A secondary built on libuptiny: root metadata, targets metadata that    *)
(* arrive in pieces, verification of the firmware and the installation     *)
(* state the manifest reports.  libuptiny has no main loop; the order of   *)
(* the calls and what is kept are those of its tests (update_test.cc,      *)
(* targets_test.cc, test_state.cc).                                        *)
(***************************************************************************)
EXTENDS TargetsParser, TLC

CONSTANTS
  Roots,         \* Root metadata that may be delivered
  Documents,     \* Targets metadata that may be delivered
  Images,        \* Firmware images: sequences of blocks
  FactoryRoot,   \* Root metadata the device leaves the factory with
  ROOT_MAX_KEYS,
  Pieces,        \* Sizes of the pieces that a message may be cut into
  MaxDeliveries, \* Bound on the metadata files delivered
  None

VARIABLES
  root,        \* state_get_root(): the root metadata in force
  targets,     \* state_get_targets(), or NoTarget
  installed,   \* state_get_installation_state(), or NoImage
  num_keys,    \* Keys read from root metadata since power-up
  parser,      \* Static variables of targets.c and the token pool
  document,    \* Targets metadata under delivery, or None
  pending,     \* What of it the parser did not consume
  rest,        \* What of it was not sent yet
  piece,       \* Size of the pieces it comes in
  firmware,    \* Verification of an image
  deliveries
vars == <<root, targets, installed, num_keys, parser, document, pending, rest, piece, firmware, deliveries>>


NoImage == [name |-> "", hash |-> "", length |-> 0]
Idle == [phase |-> "idle", index |-> 0, context |-> "", image |-> <<>>, stale |-> FALSE]

-----------------------------------------------------------------------------
(* Texts of metadata. *)
Signatures(sigs) == Arr([i \in 1..Len(sigs) |-> Obj(<< <<"keyid", Str(sigs[i].key)>>, <<"method", Str("ed25519")>>,
                                                       <<"sig", Str(sigs[i].sig)>> >>)])
TargetText(t) ==
  Obj(<< <<"custom", Obj(<< <<"ecuIdentifiers",
             Obj([i \in 1..Len(t.ecus) |-> <<t.ecus[i][1], Obj(<< <<"hardwareId", Str(t.ecus[i][2])>> >>)>>])>> >>)>>,
         <<"hashes", Obj([i \in 1..Len(t.hashes) |-> <<t.hashes[i][1], Str(t.hashes[i][2])>>])>>,
         <<"length", Prim("1")>> >>)
Junk(name) == << <<name, Obj(<< <<"key", Str("value")>> >>)>> >>
SignedText(d) ==
  Obj(<< <<"_type", Str(d.type)>>, <<"expires", Str(d.expires)>> >> \o (IF d.junk THEN Junk("newsignedfield") ELSE <<>>)
      \o << <<"targets", Obj([i \in 1..Len(d.targets) |-> <<d.targets[i].name, TargetText(d.targets[i])>>])>>,
            <<"version", Prim(d.version)>> >>)
Text(d) ==
  Obj((IF d.junk THEN Junk("newtopfield") ELSE <<>>)
      \o << <<"signatures", Signatures(d.sigs)>>, <<"signed", SignedText(d)>> >>)
RootText(r) ==
  LET Role(ids, n) == Obj(<< <<"keyids", Arr([i \in 1..Len(ids) |-> Str(ids[i])])>>, <<"threshold", Prim(n)>> >>)
  IN  Obj(<< <<"signatures", Signatures(r.sigs)>>,
             <<"signed", Obj(<< <<"_type", Str(r.type)>>,
                                <<"keys", Obj([i \in 1..Len(r.keys) |-> <<r.keys[i], Obj(<< <<"keytype", Str("ed25519")>>,
                                                 <<"keyval", Obj(<< <<"public", Str("key")>> >>)>> >>)>>])>>,
                                <<"roles", Obj(<< <<"root", Role(r.root_keys, "1")>>,
                                                  <<"targets", Role(r.targets_keys, "1")>> >>)>>,
                                <<"version", Prim("1")>> >>)>> >>)

\* The signatures of root metadata r by keys among ids, as far as they fit.
Usable(r, ids) ==
  LET known == SelectSeq(r.sigs, LAMBDA s : s.key \in ids /\ s.sig # "short")
  IN  IF Len(known) > signature_pool_size THEN SubSeq(known, 1, signature_pool_size) ELSE known
GoodOnes(sigs) == Cardinality({i \in DOMAIN sigs : sigs[i].sig = "good"})

-----------------------------------------------------------------------------
Init ==
  /\ root = FactoryRoot
  /\ targets = NoTarget /\ installed = NoImage
  /\ num_keys = 0
  /\ parser = static_memory
  /\ document = None /\ pending = <<>> /\ rest = <<>> /\ piece = 0
  /\ firmware = Idle
  /\ deliveries = 0

\* The keys of the file are remembered behind those of earlier files.
RootKeysFit(r) == num_keys + Len(r.keys) < ROOT_MAX_KEYS

uptane_parse_root_signed(r) ==
  /\ r.type = "Root"
  /\ RootKeysFit(r)

\* Faulty variant: the signatures are not checked with the new keys.
uptane_parse_root_old(r) ==
  /\ ~jsmn_parse([parser EXCEPT !.pos = 0, !.toknext = 0, !.toksuper = -1], RootText(r)).err
  /\ LET old == Usable(r, Range(root.root_keys))
     IN  old # <<>> /\ GoodOnes(old) >= root.root_threshold
  /\ uptane_parse_root_signed(r)
  /\ r.version >= root.version

uptane_parse_root(r) ==
  /\ ~jsmn_parse([parser EXCEPT !.pos = 0, !.toknext = 0, !.toksuper = -1], RootText(r)).err
  /\ LET old == Usable(r, Range(root.root_keys))
     IN  old # <<>> /\ GoodOnes(old) >= root.root_threshold
  /\ uptane_parse_root_signed(r)
  /\ r.version >= root.version
  /\ LET new == Usable(r, Range(r.root_keys) \cap Range(r.keys))
     IN  new # <<>> /\ GoodOnes(new) >= r.root_threshold

\* Root metadata arrive between two messages; what the parser of root
\* metadata leaves in the token pool stays there.  After the last key that
\* fits the array of keys is full for good and no file is read again.
ParseRoot(r) ==
  /\ document = None /\ deliveries < MaxDeliveries /\ num_keys < ROOT_MAX_KEYS
  /\ deliveries' = deliveries + 1
  /\ root' = IF uptane_parse_root(r) THEN r ELSE root
  /\ num_keys' = LET old == Usable(r, Range(root.root_keys))
                     fails == jsmn_parse([parser EXCEPT !.pos = 0, !.toknext = 0, !.toksuper = -1], RootText(r)).err
                 IN  IF fails \/ old = <<>> \/ GoodOnes(old) < root.root_threshold \/ r.type # "Root" THEN num_keys
                     ELSE IF RootKeysFit(r) THEN num_keys + Len(r.keys) ELSE ROOT_MAX_KEYS
  /\ parser' = [parser EXCEPT !.tokens = jsmn_parse([parser EXCEPT !.pos = 0, !.toknext = 0, !.toksuper = -1], RootText(r)).tokens]
  /\ UNCHANGED <<targets, installed, document, pending, rest, piece, firmware>>

ParseTargetsInit(d, n) ==
  /\ document = None /\ deliveries < MaxDeliveries
  /\ deliveries' = deliveries + 1
  /\ document' = d /\ pending' = <<>> /\ rest' = Text(d) /\ piece' = n
  /\ parser' = [uptane_parse_targets_init(parser) EXCEPT !.out = NoTarget, !.result = "IN_PROGRESS", !.ret = 0]
  /\ UNCHANGED <<root, targets, installed, num_keys, firmware>>

InForce == [targets_keys |-> Range(root.targets_keys), targets_threshold |-> root.targets_threshold,
            targets_version |-> targets.version]

\* What was not consumed is presented again, with the next piece behind it.
ParseTargetsFeed ==
  /\ document # None /\ parser.result = "IN_PROGRESS" /\ rest # <<>>
  /\ LET size == IF piece > Len(rest) THEN Len(rest) ELSE piece
         text == pending \o SubSeq(rest, 1, size)
     IN  /\ parser' = uptane_parse_targets_feed(parser, text, InForce, SignedText(document))
         /\ pending' = IF parser'.ret > 0 THEN SubSeq(text, UnitsIn(text, parser'.ret) + 1, Len(text)) ELSE text
         /\ rest' = SubSeq(rest, size + 1, Len(rest))
  /\ UNCHANGED <<root, targets, installed, num_keys, document, piece, firmware, deliveries>>

\* The caller keeps a target that was found, and drops the message.
MessageDone ==
  /\ document # None
  /\ parser.result # "IN_PROGRESS" \/ rest = <<>>
  /\ targets' = IF parser.result = "END_FOUND" THEN parser.out ELSE targets
  /\ firmware' = IF parser.result = "END_FOUND" /\ firmware.phase # "idle" THEN [firmware EXCEPT !.stale = TRUE]
                 ELSE firmware
  /\ document' = None /\ pending' = <<>> /\ rest' = <<>> /\ piece' = 0
  /\ UNCHANGED <<root, installed, num_keys, parser, deliveries>>

-----------------------------------------------------------------------------
(* Firmware. *)
Supported == "sha512"
\* The last hash of the supported algorithm.
expected_hash == IF firmware.index \in DOMAIN targets.hashes THEN targets.hashes[firmware.index][2] ELSE ""
uptane_verify_firmware_init ==
  LET ours == {i \in DOMAIN targets.hashes : targets.hashes[i][1] = Supported}
  IN  /\ targets # NoTarget /\ firmware.phase = "idle" /\ document = None
      /\ ours # {}
      /\ LET i == CHOOSE i \in ours : \A j \in ours : j <= i
         IN  /\ targets.hashes[i][2] # installed.hash
             /\ \E image \in Images : firmware' = [Idle EXCEPT !.phase = "feeding", !.index = i, !.image = image]
      /\ UNCHANGED <<root, targets, installed, num_keys, parser, document, pending, rest, piece, deliveries>>

uptane_verify_firmware_feed ==
  /\ document = None /\ firmware.phase = "feeding" /\ firmware.image # <<>>
  /\ firmware' = [firmware EXCEPT !.context = @ \o Head(firmware.image), !.image = Tail(@)]
  /\ UNCHANGED <<root, targets, installed, num_keys, parser, document, pending, rest, piece, deliveries>>

uptane_verify_firmware_finalize ==
  /\ document = None /\ firmware.phase = "feeding" /\ firmware.image = <<>>
  /\ firmware' = IF firmware.context = expected_hash THEN [firmware EXCEPT !.phase = "verified"] ELSE Idle
  /\ UNCHANGED <<root, targets, installed, num_keys, parser, document, pending, rest, piece, deliveries>>

uptane_firmware_confirm ==
  /\ document = None /\ firmware.phase = "verified"
  /\ installed' = [name |-> targets.name, hash |-> expected_hash, length |-> targets.length]
  /\ firmware' = Idle
  /\ UNCHANGED <<root, targets, num_keys, parser, document, pending, rest, piece, deliveries>>

\* Power is lost; what the platform keeps survives.
Restart ==
  /\ document # None \/ firmware.phase # "idle"
  /\ num_keys' = 0 /\ parser' = static_memory
  /\ document' = None /\ pending' = <<>> /\ rest' = <<>> /\ piece' = 0
  /\ firmware' = Idle
  /\ UNCHANGED <<root, targets, installed, deliveries>>

Next ==
  \/ \E r \in Roots : ParseRoot(r)
  \/ \E d \in Documents, n \in Pieces : ParseTargetsInit(d, n)
  \/ ParseTargetsFeed
  \/ MessageDone
  \/ uptane_verify_firmware_init
  \/ uptane_verify_firmware_feed
  \/ uptane_verify_firmware_finalize
  \/ uptane_firmware_confirm
  \/ Restart

Spec == Init /\ [][Next]_vars
-----------------------------------------------------------------------------
(* Properties. *)

Finished == document # None /\ (parser.result # "IN_PROGRESS" \/ rest = <<>>)

\* What the answer to a message should be.
Mine(d) == {i \in DOMAIN d.targets : \E j \in DOMAIN d.targets[i].ecus : d.targets[i].ecus[j][1] = ecuid}
WrongHardware(d) == \E i \in Mine(d) : \E j \in DOMAIN d.targets[i].ecus :
                      d.targets[i].ecus[j][1] = ecuid /\ d.targets[i].ecus[j][2] # hwid
KnownSigs(d) == SelectSeq(d.sigs, LAMBDA s : s.key \in Range(root.targets_keys) /\ s.sig # "short")
Malformed(d) == d.type # "Targets" \/ d.expires = "someday" \/ Cardinality(Mine(d)) > 1
Answer(d) ==
  CASE KnownSigs(d) = <<>> -> "ERROR"
    [] KnownSigs(d) # <<>> /\ Malformed(d) -> "ERROR"
    [] OTHER -> IF WrongHardware(d) THEN "WRONG_HW_ID"
                ELSE IF dec2int(d.version) < targets.version THEN "VERSION_FAILED"
                ELSE IF GoodOnes(KnownSigs(d)) < root.targets_threshold THEN "SIGNATURES_FAILED"
                ELSE IF Mine(d) = {} THEN "END_NOT_FOUND" ELSE "END_FOUND"

\* Type invariant: the pool bounds the tokens, and no more is consumed than
\* was presented (targets.c:670-678).
TypeOK ==
  /\ root \in Roots \cup {FactoryRoot}
  /\ parser.state \in ParseStates /\ parser.result \in Results
  /\ parser.toknext \in 0..token_pool_size /\ parser.token_pos \in 0..parser.toknext
  /\ parser.tail_length \in Nat
  /\ num_keys \in 0..ROOT_MAX_KEYS
  /\ firmware.phase \in {"idle", "feeding", "verified"}

\* A message that comes unit by unit, or in one piece, gets the answer its
\* contents deserve: the state machine of uptane_parse_targets_feed resumes
\* where it stopped, whatever an earlier message left in the token pool.
AnswersRight == Finished /\ (piece = 1 \/ piece >= Len(Text(document))) => parser.result = Answer(document)

\* The same for pieces of every size, as the contract of the function has it:
\* "The rest of the message should be presented to the parser on the next
\* call" (targets.c:301).  Violated: see the README.
AnswersRightInPieces == Finished => parser.result = Answer(document)

\* Whatever the pieces, the signature is computed over the signed object,
\* the whole of it and nothing twice: what is presented again has been hashed
\* before (targets.c:618-635).
HashesSignedOnce ==
  document # None /\ parser.end_signed >= 0 /\ parser.result # "ERROR" => parser.fed = SignedText(document)

\* Whatever the pieces, a target is found only in a message that deserves it,
\* and it is the target for this ECU.  Its name may be followed by the end of
\* a longer name read before it (targets.c:92).
FoundIsRight ==
  Finished /\ parser.result = "END_FOUND" =>
    /\ Answer(document) = "END_FOUND"
    /\ parser.out.version = dec2int(document.version)
    /\ \E i \in Mine(document) : /\ parser.out.hashes = document.targets[i].hashes
                                 /\ IsPrefixOf(document.targets[i].name, parser.out.name)

\* The versions in force never go back, over any sequence of messages and
\* restarts (targets.c:491, root.c:77).
VersionsForward == [][root'.version >= root.version /\ targets'.version >= targets.version]_vars

\* New root metadata are signed by a key of the old root role and by a key of
\* their own (root.c:66, 101).
RootSigned ==
  [][root' # root => \A ids \in {Range(root.root_keys), Range(root'.root_keys)} :
                       \E i \in DOMAIN root'.sigs : root'.sigs[i].key \in ids /\ root'.sigs[i].sig = "good"]_vars

\* The installation state names firmware that was fed and hashed, unless new
\* targets were stored since the verification began: expected_hash points
\* into the stored targets (firmware.c:22, 44, 56).
ConfirmedIsVerified ==
  [][installed' # installed => firmware.stale \/ installed'.hash = firmware.context]_vars

\* The result of a message and the target it hands out are right.
ParsesRight == AnswersRight /\ FoundIsRight

\* What is in force was verified: roots and targets go forward, roots are
\* signed by old and new keys, and installed firmware is what was hashed.
InForceIsVerified == VersionsForward /\ RootSigned /\ ConfirmedIsVerified
=============================================================================
