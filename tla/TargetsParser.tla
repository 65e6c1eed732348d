---------------------------- MODULE TargetsParser ----------------------------
(***************************************************************************)
(* The incremental parser of targets metadata of libuptiny (targets.c and  *)
(* signatures.c).  It is fed a message in pieces: a call says how much of  *)
(* its argument it consumed, and the caller presents the rest again in     *)
(* front of the next piece.  Hashing of the signed object goes on beside   *)
(* the parsing, over what was not yet hashed of every argument.            *)
(***************************************************************************)
EXTENDS Jsmn

CONSTANTS
  ecuid, hwid,          \* Identity of this secondary
  signature_pool_size,  \* Signatures remembered
  crypto_ctx_pool_size, \* Signatures verified
  TARGETS_MAX_HASHES

ParseStates == {"BEGIN", "IN_TOP", "IN_SIGNATURES", "BEFORE_SIGNED", "IN_SIGNED", "IN_IGNORED", "IN_TARGETS", "IN_ERROR"}
Results == {"ERROR", "WRONG_HW_ID", "SIGNATURES_FAILED", "VERSION_FAILED", "IN_PROGRESS", "END_FOUND", "END_NOT_FOUND"}

NoTarget == [name |-> "", hashes |-> <<>>, length |-> 0, version |-> 0, expires |-> ""]

\* The static variables; the token pool, the scratch target and the output
\* keep what an earlier message left in them.
uptane_parse_targets_init(old) ==
  [old EXCEPT !.toknext = 0, !.toksuper = -1, !.token_pos = 0, !.ignored_top = 0, !.signed_top = -1, !.targets_top = -1,
              !.target_found = FALSE, !.signed_elems_read = 0, !.targets_elems_read = 0, !.sigs = <<>>, !.state = "BEGIN",
              !.end_signed = -1, !.in_signed = FALSE, !.tail_length = 0]
static_memory ==
  jsmn_init @@
  [token_pos |-> 0, ignored_top |-> 0, signed_top |-> -1, targets_top |-> -1, state |-> "BEGIN", prev_state |-> "BEGIN",
   target_found |-> FALSE, signed_elems_read |-> 0, targets_elems_read |-> 0, sigs |-> <<>>, end_signed |-> -1,
   in_signed |-> FALSE, tail_length |-> 0, fed |-> <<>>, tmp_target |-> NoTarget, out |-> NoTarget,
   result |-> "IN_PROGRESS", ret |-> 0]

\* Decimal and date texts the models use.
dec2int(v) == CASE v = "0" -> 0 [] v = "1" -> 1 [] v = "2" -> 2 [] v = "3" -> 3 [] OTHER -> -1
str2time(v) == v # "someday"
hex2bin(v) == v # "nothex"
\* strncmp over the length of the token: the token is a prefix of the name.
IsPrefixOf(v, name) == Len(v) <= Len(name) /\ v = SubSeq(name, 1, Len(v))

\* The loop over the n members of an object or an array at s.idx: each one
\* moves s.idx on, and the first one that fails ends all the loops.
RECURSIVE Visits(_, _, _, _)
\* Skip the name at s.idx and the value after it.
Skips(tokens, s) == [s EXCEPT !.idx = consume_recursive_json(tokens, s.idx + 1)]
\* Enter the object after the name at s.idx and visit its members.
Enters(member, tokens, s) ==
  IF tokens[s.idx + 1].type # "OBJECT" THEN [s EXCEPT !.err = "ERROR"]
  ELSE Visits(member, tokens, [s EXCEPT !.idx = @ + 2], tokens[s.idx + 1].size)

\* One field of a signature.
SigField(tokens, s) ==
  LET name == tokens[s.idx].v
      value == tokens[s.idx + 1]
  IN  CASE name = "keyid" /\ value.type = "STRING" -> [s EXCEPT !.idx = @ + 2, !.key = IF value.v \in s.keys THEN value.v ELSE @]
        [] name = "sig" /\ value.type = "STRING" -> [s EXCEPT !.idx = @ + 2, !.sig = IF value.v # "short" THEN value.v ELSE @]
        [] OTHER -> Skips(tokens, s)

\* One signature; signature_pool keeps it when key and signature are known.
Remembers(s) == IF s.key # "" /\ s.sig # "" THEN [s EXCEPT !.sigs = Append(@, [key |-> s.key, sig |-> s.sig])] ELSE s
parse_sig(tokens, s) ==
  IF tokens[s.idx].type # "OBJECT" THEN [s EXCEPT !.err = "ERROR"]
  ELSE Remembers(Visits("sig field", tokens, [s EXCEPT !.idx = @ + 1, !.key = "", !.sig = ""], tokens[s.idx].size))

uptane_parse_signatures(tokens, pos, keys) ==
  LET s == [idx |-> pos + 1, err |-> "", sigs |-> <<>>, keys |-> keys, key |-> "", sig |-> ""]
  IN  IF tokens[pos].type # "ARRAY" THEN [s EXCEPT !.err = "ERROR"] ELSE Visits("sig", tokens, s, tokens[pos].size)

HardwareId(tokens, s) ==
  IF tokens[s.idx].v # "hardwareId" THEN Skips(tokens, s)
  ELSE IF s.is_for_me /\ ~IsPrefixOf(tokens[s.idx + 1].v, hwid) THEN [s EXCEPT !.err = "WRONG_HW_ID"]
  ELSE [s EXCEPT !.idx = @ + 2]

ForMe(s) == [s EXCEPT !.target_for_me = @ \/ (s.is_for_me /\ s.err = "")]
EcuIdentifier(tokens, s) ==
  ForMe(Enters("hardware id", tokens, [s EXCEPT !.is_for_me = IsPrefixOf(tokens[s.idx].v, ecuid)]))

Custom(tokens, s) ==
  IF tokens[s.idx].v = "ecuIdentifiers" THEN Enters("ecu identifier", tokens, s) ELSE Skips(tokens, s)

\* A hash beyond the limit is left where it is.
Hash(tokens, s) ==
  LET alg == tokens[s.idx].v
      hash == tokens[s.idx + 1].v
  IN  CASE alg \notin {"sha256", "sha512"} -> Skips(tokens, s)
        [] alg \in {"sha256", "sha512"} /\ Len(s.target.hashes) >= TARGETS_MAX_HASHES -> [s EXCEPT !.idx = @ + 1]
        [] OTHER -> IF ~hex2bin(hash) THEN [s EXCEPT !.err = "ERROR"]
                    ELSE [s EXCEPT !.idx = @ + 2, !.target.hashes = Append(@, <<alg, hash>>)]

Field(tokens, s) ==
  LET v == tokens[s.idx].v
  IN  CASE v = "custom" -> Enters("custom", tokens, s)
        [] v = "hashes" -> Enters("hash", tokens, [s EXCEPT !.target.hashes = <<>>])
        [] v = "length" -> IF dec2int(tokens[s.idx + 1].v) < 0 THEN [s EXCEPT !.err = "ERROR"]
                           ELSE [s EXCEPT !.idx = @ + 2, !.target.length = dec2int(tokens[s.idx + 1].v)]
        [] OTHER -> Skips(tokens, s)

Visits(member, tokens, s, n) ==
  IF n = 0 \/ s.err # "" THEN s
  ELSE Visits(member, tokens,
              CASE member = "sig" -> IF Len(s.sigs) >= signature_pool_size THEN s ELSE parse_sig(tokens, s)
                [] member = "sig field" -> SigField(tokens, s)
                [] member = "field" -> Field(tokens, s)
                [] member = "custom" -> Custom(tokens, s)
                [] member = "ecu identifier" -> EcuIdentifier(tokens, s)
                [] member = "hardware id" -> HardwareId(tokens, s)
                [] member = "hash" -> Hash(tokens, s), n - 1)

\* memcpy without a terminator: the end of a longer name stays.
Overwrites(old, v) == v \o SubSeq(old, Len(v) + 1, Len(old))

parse_target(tokens, pos, tmp) ==
  LET s == [idx |-> pos, err |-> "", is_for_me |-> FALSE, target_for_me |-> FALSE,
            target |-> [tmp EXCEPT !.name = Overwrites(@, tokens[pos].v)]]
  IN  IF tokens[pos].type # "STRING" \/ tokens[pos].v = "" THEN [s EXCEPT !.err = "ERROR"]
      ELSE Enters("field", tokens, s)

-----------------------------------------------------------------------------
\* jsmn goes on after the last token that was consumed.
RECURSIVE OpenContainer(_, _)
OpenContainer(tokens, i) ==
  IF i < 0 \/ (Container(tokens[i]) /\ tokens[i].end < 0) THEN i ELSE OpenContainer(tokens, tokens[i].parent)

prepare_primary_parser(p) ==
  LET last == p.token_pos - 1
  IN  [p EXCEPT !.pos = 0, !.toknext = p.token_pos,
                !.toksuper = CASE last < 0 -> -1
                               [] last >= 0 /\ p.tokens[last].type = "STRING" /\ p.tokens[last].parent >= 0
                                    /\ p.tokens[p.tokens[last].parent].type = "OBJECT" -> last
                               [] OTHER -> OpenContainer(p.tokens, last)]

Separator(u) == u.c \in {":", ",", "}", "]"}
\* The position of the first unit from position res on that is no separator.
SkipsSeparators(text, res) ==
  LET from == UnitsIn(text, res)
      to == CHOOSE i \in from..Len(text) :
              (i = Len(text) \/ ~Separator(text[i + 1])) /\ \A j \in (from + 1)..i : Separator(text[j])
  IN  res + (to - from)

consumed_chars_newtoken(p, text, idx) ==
  LET last == p.tokens[idx - 1]
  IN  IF last.end > 0 THEN SkipsSeparators(text, IF last.type = "STRING" THEN last.end + 1 ELSE last.end)
      ELSE last.start + 1

consumed_chars_nonewtoken(p, text) == IF p.token_pos > 0 THEN SkipsSeparators(text, 0) ELSE 0

-----------------------------------------------------------------------------
(* One turn of the loop over the tokens; m.idx is the token at hand. *)
Goes(m, state) == [m EXCEPT !.state = state]
\* Faulty variant: the name that is not consumed stays counted.
BreaksCounted(m, top) == [m EXCEPT !.brk = TRUE]
Breaks(m, top) == [m EXCEPT !.tokens[top].size = @ - 1, !.brk = TRUE]
Returns(m, result) == [m EXCEPT !.state = "IN_ERROR", !.result = result, !.ret = -1]
\* The name at idx is the last token: its value has not come yet.
NameOnly(m) == m.idx = m.toknext - 1
Ignores(m) == [m EXCEPT !.prev_state = m.state, !.state = "IN_IGNORED", !.idx = @ + 1, !.ignored_top = m.idx + 1]

InTop(m) ==
  LET name == m.tokens[m.idx].v
  IN  CASE name = "signatures" -> IF NameOnly(m) \/ m.tokens[m.idx + 1].end < 0 THEN Breaks(m, 0)
                                  ELSE [m EXCEPT !.state = "IN_SIGNATURES", !.idx = @ + 1]
        [] name = "signed" -> IF m.sigs = <<>> THEN Goes(m, "IN_ERROR")
                              ELSE [m EXCEPT !.state = "BEFORE_SIGNED", !.idx = @ + 1]
        [] OTHER -> Ignores(m)

InIgnored(m) ==
  LET top == m.tokens[m.ignored_top]
      rest == {i \in m.idx..(m.toknext - 1) : m.tokens[i].start >= top.end}
  IN  IF m.ignored_top = m.idx \/ top.end < 0 THEN [m EXCEPT !.idx = @ + 1]
      ELSE [m EXCEPT !.idx = IF rest = {} THEN m.toknext ELSE CHOOSE i \in rest : \A j \in rest : i <= j,
                     !.state = m.prev_state]

SignaturesRead(m, r) ==
  IF r.err # "" \/ r.sigs = <<>> THEN Goes(m, "IN_ERROR")
  ELSE [m EXCEPT !.state = "IN_TOP", !.idx = r.idx, !.sigs = r.sigs]
InSignatures(m, keys) ==
  IF m.tokens[m.idx].end < 0 THEN [m EXCEPT !.brk = TRUE]
  ELSE SignaturesRead(m, uptane_parse_signatures(m.tokens, m.idx, keys))

BeforeSigned(m) ==
  IF m.tokens[m.idx].type # "OBJECT" THEN Goes(m, "IN_ERROR")
  ELSE [m EXCEPT !.state = "IN_SIGNED", !.idx = @ + 1, !.signed_top = m.idx, !.begun = TRUE,
                 !.sigs = IF Len(@) > crypto_ctx_pool_size THEN SubSeq(@, 1, crypto_ctx_pool_size) ELSE @]

InSigned(m, version) ==
  LET name == m.tokens[m.idx].v
      value == m.tokens[m.idx + 1].v
      Read(n) == [n EXCEPT !.idx = @ + 2, !.signed_elems_read = @ + 1]
  IN  CASE m.tokens[m.signed_top].end >= 0 /\ m.signed_elems_read >= m.tokens[m.signed_top].size -> Goes(m, "IN_TOP")
        [] OTHER ->
           CASE name \in {"_type", "expires", "version", "targets"} /\ NameOnly(m) -> Breaks(m, m.signed_top)
             [] name = "_type" /\ ~NameOnly(m) -> IF value # "Targets" THEN Goes(m, "IN_ERROR") ELSE Read(m)
             [] name = "expires" /\ ~NameOnly(m) ->
                  IF ~str2time(value) THEN Goes(m, "IN_ERROR") ELSE [Read(m) EXCEPT !.out.expires = value]
             [] name = "version" /\ ~NameOnly(m) ->
                  IF dec2int(value) < 0 THEN Goes(m, "IN_ERROR")
                  ELSE IF dec2int(value) < version THEN Returns(m, "VERSION_FAILED")
                  ELSE [Read(m) EXCEPT !.out.version = dec2int(value)]
             [] name = "targets" /\ ~NameOnly(m) ->
                  [m EXCEPT !.idx = @ + 2, !.targets_top = m.idx + 1,
                            !.state = IF m.tokens[m.idx + 1].type = "OBJECT" THEN "IN_TARGETS" ELSE "IN_ERROR"]
             [] OTHER -> [Ignores(m) EXCEPT !.signed_elems_read = @ + 1]

\* What parse_target found, r, is kept or counted.
TargetRead(m, r) ==
  LET n == [m EXCEPT !.idx = r.idx, !.targets_elems_read = @ + 1, !.tmp_target = r.target]
  IN  CASE r.err = "WRONG_HW_ID" -> Returns(m, "WRONG_HW_ID")
        [] r.err = "ERROR" \/ (r.err = "" /\ r.target_for_me /\ m.target_found) -> Goes(m, "IN_ERROR")
        [] r.err = "" /\ ~r.target_for_me -> n
        [] OTHER -> [n EXCEPT !.target_found = TRUE,
                              !.out = [r.target EXCEPT !.version = m.out.version, !.expires = m.out.expires]]

\* A target that is not complete is left, with the token before it.
InTargets(m) ==
  LET top == m.tokens[m.targets_top]
      over == top.end >= 0 /\ m.targets_elems_read >= top.size
  IN  CASE over -> [m EXCEPT !.state = "IN_SIGNED", !.signed_elems_read = @ + 1]
        [] ~over /\ m.tokens[m.idx].type # "STRING" -> Goes(m, "IN_ERROR")
        [] OTHER -> IF NameOnly(m) \/ m.tokens[m.idx + 1].end <= 0 THEN [Breaks(m, m.targets_top) EXCEPT !.idx = @ - 1]
                    ELSE TargetRead(m, parse_target(m.tokens, m.idx, m.tmp_target))

RECURSIVE Loop(_, _)
Loop(m, root) ==
  IF m.idx >= m.toknext \/ m.brk \/ m.state = "IN_ERROR" THEN m
  ELSE Loop(CASE m.state = "BEGIN" -> IF m.tokens[m.idx].type # "OBJECT" THEN Goes(m, "IN_ERROR")
                                      ELSE [m EXCEPT !.state = "IN_TOP", !.idx = @ + 1]
              [] m.state = "IN_TOP" -> InTop(m)
              [] m.state = "IN_IGNORED" -> InIgnored(m)
              [] m.state = "IN_SIGNATURES" -> InSignatures(m, root.targets_keys)
              [] m.state = "BEFORE_SIGNED" -> BeforeSigned(m)
              [] m.state = "IN_SIGNED" -> InSigned(m, root.targets_version)
              [] m.state = "IN_TARGETS" -> InTargets(m), root)

\* Faulty variant: what was not consumed is hashed once more.
first_signed_again(m) == IF m.begun THEN m.tokens[m.signed_top].start ELSE 0

\* What was presented before but not consumed has been hashed already.
first_signed(m) == IF m.begun THEN m.tokens[m.signed_top].start ELSE m.tail_length

\* After the loop: what of the signed object came is hashed, and at its end
\* the signatures, which are over the text signed, are verified.
HashesSigned(p, m, ended, text) ==
  LET last == IF ended THEN m.tokens[m.signed_top].end ELSE Length(text)
      new == SubSeq(text, UnitsIn(text, first_signed(m)) + 1, UnitsIn(text, last))
  IN  [k \in DOMAIN p |->
         CASE k = "end_signed" -> IF ended THEN last ELSE m.end_signed
           [] k = "in_signed" -> (m.begun \/ m.in_signed) /\ ~ended
           [] k = "fed" -> IF m.begun THEN new ELSE IF m.in_signed THEN m.fed \o new ELSE m.fed
           [] OTHER -> m[k]]

Consumes(h, m, text, ret) ==
  [h EXCEPT !.result = IF ~(m.idx > 0 /\ m.tokens[0].end >= 0) THEN "IN_PROGRESS"
                       ELSE IF m.target_found THEN "END_FOUND" ELSE "END_NOT_FOUND",
            !.ret = ret, !.token_pos = IF m.idx > @ THEN m.idx ELSE @, !.tail_length = Length(text) - ret]

\* External: a signature is right for the whole signed text and no other.
Valid(sigs, text, signed) == Cardinality({i \in DOMAIN sigs : sigs[i].sig = "good" /\ text = signed})
Finishes(h, m, ended, text, threshold, signed) ==
  IF ended /\ Valid(h.sigs, h.fed, signed) < threshold THEN Returns(h, "SIGNATURES_FAILED")
  ELSE Consumes(h, m, text, IF m.idx > m.token_pos THEN consumed_chars_newtoken(m, text, m.idx)
                            ELSE consumed_chars_nonewtoken(m, text))

AfterLoop(p, m, text, root, signed) ==
  LET ended == m.signed_top >= 0 /\ m.end_signed < 0 /\ m.tokens[m.signed_top].end >= 0
  IN  IF m.state = "IN_ERROR" THEN [k \in DOMAIN p |-> CASE k = "result" /\ m.ret # -1 -> "ERROR"
                                                         [] k = "ret" -> -1
                                                         [] OTHER -> m[k]]
      ELSE Finishes(HashesSigned(p, m, ended, text), m, ended, text, root.targets_threshold, signed)

uptane_parse_targets_feed(p, text, root, signed) ==
  IF p.state = "IN_ERROR" THEN [p EXCEPT !.result = "ERROR", !.ret = -1]
  ELSE AfterLoop(p, Loop(jsmn_parse(prepare_primary_parser(p), text)
                           @@ [idx |-> p.token_pos, brk |-> FALSE, begun |-> FALSE], root), text, root, signed)
=============================================================================
