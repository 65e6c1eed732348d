--------------------------------- MODULE Asn1 ---------------------------------
(***************************************************************************)
(* The ASN.1 codec of libaktualizr (asn1-cer.cc, asn1-cerstream.cc): CER   *)
(* encoding of integers and strings, the decoder of one token, and the     *)
(* Serializer and Deserializer that put tokens in sequence.  A message is  *)
(* a sequence of bytes.  Whether char is signed depends on the platform,   *)
(* so what the decoder makes of an integer takes that as an argument.      *)
(***************************************************************************)
EXTENDS Integers, Sequences, SequencesExt

CONSTANTS
  IntBytes,                 \* Bytes of int32_t (4)
  CER_MAX_PRIMITIVESTRING   \* Longest string that is not cut in chunks (1000)

kUnknown == 255
kAsn1EndSequence == 0
kAsn1Integer == 2
kAsn1Utf8String == 12
kAsn1Sequence == 16
kAsn1Context == 128

Modulus == 256 ^ IntBytes
\* An unsigned value taken for a signed one.
ToSigned(n) == IF n % Modulus >= Modulus \div 2 THEN (n % Modulus) - Modulus ELSE n % Modulus
From(s, i) == SubSeq(s, i, Len(s))

RECURSIVE LowBytes(_)
LowBytes(n) == <<n % 256>> \o (IF n \div 256 \in {0, -1} THEN <<>> ELSE LowBytes(n \div 256))
cer_encode_length(len) == IF len <= 127 THEN <<len>> ELSE Reverse(Append(LowBytes(len), 128 + Len(LowBytes(len))))

\* Faulty variant: no byte is added for the sign.
cer_encode_integer_unpadded(number) == Reverse(Append(LowBytes(number), Len(LowBytes(number))))
\* The byte for the sign depends on the lowest byte, so that 32768 comes out
\* as -32768 and 384 with a byte too many.
cer_encode_integer(number) ==
  LET low == LowBytes(number)
      res == IF low[1] >= 128 /\ number >= 0 THEN Append(low, 0)
             ELSE IF low[1] < 128 /\ number < 0 THEN Append(low, 255) ELSE low
  IN  Reverse(Append(res, Len(res)))

RECURSIVE Chunks(_, _)
Chunks(contents, tag) ==
  IF contents = <<>> THEN <<>>
  ELSE LET n == IF Len(contents) > CER_MAX_PRIMITIVESTRING THEN CER_MAX_PRIMITIVESTRING ELSE Len(contents)
       IN  <<tag>> \o cer_encode_length(n) \o SubSeq(contents, 1, n) \o Chunks(From(contents, n + 1), tag)
cer_encode_string(contents, tag) ==
  IF Len(contents) <= CER_MAX_PRIMITIVESTRING THEN cer_encode_length(Len(contents)) \o contents
  ELSE <<128>> \o Chunks(contents, tag) \o <<0, 0>>

-----------------------------------------------------------------------------
\* The length field that begins content: -1 stands for the indefinite form,
\* -2 for a length that does not fit.
LongLength(res, len_len) == [len |-> IF res < 0 THEN -2 ELSE res, endpos |-> len_len + 1]
cer_decode_length(content) ==
  CASE content[1] = 128 -> [len |-> -1, endpos |-> 1]
    [] content[1] < 128 -> [len |-> content[1], endpos |-> 1]
    [] content[1] > 128 + IntBytes -> LongLength(-2, content[1] - 128)
    [] OTHER -> LongLength(ToSigned(FoldLeft(LAMBDA v, b : (v % (Modulus \div 256)) * 256 + b, 0, SubSeq(content, 2, content[1] - 127))),
                           content[1] - 128)

\* res <<= 8, res |= content[i]: a signed char sets all the higher bits.
ShiftIn(res, b, char_signed) ==
  IF char_signed /\ b >= 128 THEN b - 256 ELSE ToSigned(res * 256 + b)
DecodedInteger(content, char_signed) ==
  LET res == FoldLeft(LAMBDA r, b : ShiftIn(r, b, char_signed), 0, content)
      rest == 256 ^ Len(content)
  IN  IF content[1] < 128 \/ Len(content) = IntBytes THEN res ELSE (res % rest) - rest

Token(token, endpos, int_param, string_param) ==
  [token |-> token, endpos |-> endpos, int |-> int_param, str |-> string_param]
Unknown == Token(kUnknown, 0, 0, <<>>)
\* substr beyond the end throws out_of_range; no tag has this value.
OutOfRange == Token(256, 0, 0, <<>>)

\* Any token but a string cut in chunks, of length l, its contents after next.
PlainTokenAt(ber, l, next, char_signed) ==
  LET content == SubSeq(ber, next + 1, IF next + l > Len(ber) THEN Len(ber) ELSE next + l)
      tag == ber[1] % 32
      constructed == (ber[1] \div 32) % 2 = 1
  IN  CASE l < -1 -> Unknown
        [] l >= 0 /\ next > Len(ber) -> OutOfRange
        [] OTHER ->
             CASE ber[1] >= 64 /\ constructed -> Token((ber[1] \div 64) * 64 + tag, next, l, <<>>)
               [] ber[1] < 64 /\ tag = kAsn1Sequence /\ constructed -> Token(tag, next, l, <<>>)
               [] ber[1] < 64 /\ tag = kAsn1EndSequence /\ l = 0 -> Token(tag, 0, 0, <<>>)
               [] ber[1] < 64 /\ tag = kAsn1Integer /\ ~constructed /\ l # -1 /\ Len(content) \in 1..IntBytes ->
                    Token(tag, next + l, DecodedInteger(content, char_signed), <<>>)
               [] ber[1] < 64 /\ tag = kAsn1Utf8String /\ l >= 0 -> Token(tag, next + l, 0, content)
               [] OTHER -> Unknown
PlainToken(ber, char_signed) ==
  IF Len(ber) < 2 THEN Unknown
  ELSE LET l == cer_decode_length(Tail(ber)) IN PlainTokenAt(ber, l.len, l.endpos + 1, char_signed)
\* The chunks of a string up to the end marker; endpos is left at 0.  A chunk
\* that is cut in chunks itself, which no encoder here writes, would be read
\* for ever, because it has no endpos either: it is left out.
RECURSIVE Segments(_, _)
Segments(ber, tag) ==
  LET t == PlainToken(ber, FALSE)
      r == Segments(From(ber, t.endpos + 1), tag)
  IN  IF t.token = kAsn1EndSequence THEN Token(tag, 0, 0, <<>>)
      ELSE IF t.token # tag THEN (IF t = OutOfRange THEN t ELSE Unknown)
      ELSE IF t.endpos > Len(ber) THEN OutOfRange
      ELSE IF r.token = tag THEN [r EXCEPT !.str = t.str \o @] ELSE r
cer_decode_token(ber, char_signed) ==
  IF Len(ber) >= 2 /\ ber[1] \div 64 = 0 /\ ber[1] % 32 = kAsn1Utf8String /\ ber[2] = 128
  THEN Segments(From(ber, 3), kAsn1Utf8String) ELSE PlainToken(ber, char_signed)

-----------------------------------------------------------------------------
(* Serializer: what each token or value appends. *)
seq == <<48, 128>>
endseq == <<0, 0>>
expl(tag) == <<kAsn1Context + 32 + tag, 128>>
Utf8String(s) == <<kAsn1Utf8String>> \o cer_encode_string(s, kAsn1Utf8String)
Integer(n) == <<kAsn1Integer>> \o cer_encode_integer(n)

(* Deserializer: one more token is read.  A state holds what is left of    *)
(* the data, the lengths and consumed bytes of the open sequences, the     *)
(* values read and what was thrown.                                        *)
Deserializer(data) == [data |-> data, open |-> <<>>, values |-> <<>>, thrown |-> "none"]
Throws(d, t) == [d EXCEPT !.thrown = IF t = OutOfRange THEN "out_of_range" ELSE "deserialization_error"]
\* data = data.substr(endpos)
Advances(d, n) == IF n > Len(d.data) THEN Throws(d, OutOfRange) ELSE [d EXCEPT !.data = From(@, n + 1)]
\* The bytes of a sequence that ended count for the one around it.
Counts(d, n) == IF d.open = <<>> THEN d ELSE [d EXCEPT !.open[1].consumed = @ + n]

(* Below, t is the token at the head of the data. *)
\* The consumed bytes are only counted, and checked, in a sequence of known length.
CountsValue(d, t) == IF d.open # <<>> /\ d.open[1].len > 0 THEN Counts(d, t.endpos) ELSE d
Overrun(d) == d.open # <<>> /\ d.open[1].len > 0 /\ d.open[1].consumed > d.open[1].len
ReadsValue(d, t, tag, val) ==
  IF t.token # tag \/ Overrun(CountsValue(d, t)) THEN Throws(d, t)
  ELSE Advances([CountsValue(d, t) EXCEPT !.values = Append(@, val)], t.endpos)
\* asn1::seq, asn1::expl
Opens(d, t, full_tag) ==
  IF t.token # full_tag THEN Throws(d, t)
  ELSE Advances([d EXCEPT !.open = <<[len |-> t.int, consumed |-> 0]>> \o @], t.endpos)
\* asn1::endseq, asn1::endexpl: top is the sequence, up the state without it.
Closes(d, t, top, up) ==
  IF top.len >= 0 THEN (IF top.consumed # top.len THEN Throws(d, Unknown) ELSE Counts(up, top.consumed + 2))
  ELSE IF t.token # kAsn1EndSequence THEN Throws(d, t)
  ELSE Counts(Advances(up, t.endpos), top.consumed + t.endpos + 2)

\* asn1::restseq: the rest of the sequence is skipped, token by token.
Nestedness(nestedness, t) ==
  IF t.token = kAsn1Sequence /\ t.int = -1 THEN nestedness + 1
  ELSE IF t.token = kAsn1EndSequence THEN nestedness - 1 ELSE nestedness
RECURSIVE Skips(_, _, _, _, _)
Skips(d, t, top, nestedness, char_signed) ==
  IF top.len >= 0 /\ top.consumed >= top.len THEN (IF top.consumed # top.len THEN Throws(d, Unknown) ELSE Counts(d, top.consumed + 2))
  ELSE IF t.token \in {kUnknown, OutOfRange.token} THEN Throws(d, t)
  ELSE IF t.endpos > Len(d.data) THEN Throws(d, OutOfRange)
  ELSE IF top.len < 0 /\ Nestedness(nestedness, t) < 0 THEN Counts(Advances(d, t.endpos), top.consumed + t.endpos + 2)
  ELSE Skips(Advances(d, t.endpos), cer_decode_token(From(d.data, t.endpos + 1), char_signed),
             [top EXCEPT !.consumed = @ + t.endpos], Nestedness(nestedness, t), char_signed)

ReadsToken(d, tok, t, char_signed) ==
  CASE tok = "integer" -> ReadsValue(d, t, kAsn1Integer, t.int)
    [] tok = "string" -> ReadsValue(d, t, kAsn1Utf8String, t.str)
    [] tok = "seq" -> Opens(d, t, kAsn1Sequence)
    [] tok = "expl0" -> Opens(d, t, kAsn1Context)
    [] tok = "expl1" -> Opens(d, t, kAsn1Context + 1)
    [] tok \in {"endseq", "endexpl"} -> Closes(d, t, d.open[1], [d EXCEPT !.open = Tail(@)])
    [] tok = "restseq" -> Skips([d EXCEPT !.open = Tail(@)], t, d.open[1], 0, char_signed)
Reads(d, tok, char_signed) ==
  IF d.thrown # "none" THEN d ELSE ReadsToken(d, tok, cer_decode_token(d.data, char_signed), char_signed)
=============================================================================
