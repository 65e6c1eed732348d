--------------------------------- MODULE Jsmn ---------------------------------
(***************************************************************************)
(* The JSON tokenizer jsmn as libuptiny builds it (strict, with parent     *)
(* links).  A text is a sequence of units: a bracket, a colon, a comma, a  *)
(* whole string or a whole primitive; a text that is cut inside a string   *)
(* or a primitive is to jsmn the same as a text cut before it.             *)
(* Positions are in characters; positions and token numbers start at 0,    *)
(* and -1 means none, as in C.                                             *)
(***************************************************************************)
EXTENDS Integers, SequencesExt

CONSTANT token_pool_size

U(c, v) == [c |-> c, v |-> v]
Str(v) == <<U("s", v)>>
Prim(v) == <<U("p", v)>>
\* Characters of a unit, and of units a to b of a text; by halves, which
\* keeps the evaluation shallow.
Chars(u) == CASE u.c = "s" -> Len(u.v) + 2 [] u.c = "p" -> Len(u.v) [] OTHER -> 1
RECURSIVE CharsOf(_, _, _)
CharsOf(text, a, b) ==
  IF a > b THEN 0
  ELSE IF a = b THEN Chars(text[a])
  ELSE LET mid == (a + b) \div 2 IN CharsOf(text, a, mid) + CharsOf(text, mid + 1, b)
Length(text) == CharsOf(text, 1, Len(text))
\* The number of units in the first n characters.
UnitsIn(text, n) == CHOOSE i \in 0..Len(text) : CharsOf(text, 1, i) = n
\* Members and elements are separated by commas.
Commas(parts) == FoldLeft(LAMBDA t, part : IF t = <<>> THEN part ELSE t \o <<U(",", "")>> \o part, <<>>, parts)
Obj(members) ==
  <<U("{", "")>> \o Commas([i \in 1..Len(members) |-> Str(members[i][1]) \o <<U(":", "")>> \o members[i][2]])
    \o <<U("}", "")>>
Arr(elements) == <<U("[", "")>> \o Commas(elements) \o <<U("]", "")>>

\* Static memory is zero at the start; a token keeps its text.
token_pool == [i \in 0..(token_pool_size - 1) |-> [type |-> "UNDEFINED", start |-> 0, end |-> 0, size |-> 0,
                                                   parent |-> 0, v |-> ""]]
jsmn_init == [pos |-> 0, toknext |-> 0, toksuper |-> -1, tokens |-> token_pool, err |-> FALSE]

Container(token) == token.type \in {"OBJECT", "ARRAY"}
Fails(p) == [p EXCEPT !.err = TRUE]

\* A new token below toksuper, which counts it.
jsmn_alloc_token(p, type, start, end, v) ==
  IF p.toknext >= token_pool_size THEN Fails(p)
  ELSE LET counted == IF p.toksuper = -1 THEN p.tokens ELSE [p.tokens EXCEPT ![p.toksuper].size = @ + 1]
       IN  [p EXCEPT !.toknext = @ + 1,
                     !.tokens = [counted EXCEPT ![p.toknext] = [type |-> type, start |-> start, end |-> end, size |-> 0,
                                                                parent |-> p.toksuper, v |-> v]]]

\* The innermost open token around token i, or the outermost token.
RECURSIVE Opened(_, _)
Opened(tokens, i) == IF tokens[i].end = -1 \/ tokens[i].parent = -1 THEN i ELSE Opened(tokens, tokens[i].parent)

Closes(p, type) ==
  IF p.toknext < 1 THEN Fails(p)
  ELSE LET i == Opened(p.tokens, p.toknext - 1)
       IN  IF p.tokens[i].type # type \/ (p.tokens[i].end # -1 /\ p.toksuper = -1) THEN Fails(p)
           ELSE IF p.tokens[i].end # -1 THEN p
           ELSE [p EXCEPT !.tokens[i].end = p.pos + 1, !.toksuper = p.tokens[i].parent]

\* A primitive is not a name, and is complete only when something follows.
jsmn_parse_primitive(p, text, i) ==
  IF p.toksuper # -1 /\ (p.tokens[p.toksuper].type = "OBJECT"
                          \/ (p.tokens[p.toksuper].type = "STRING" /\ p.tokens[p.toksuper].size # 0)) THEN Fails(p)
  ELSE IF i = Len(text) THEN Fails(p)
  ELSE jsmn_alloc_token(p, "PRIMITIVE", p.pos, p.pos + Len(text[i].v), text[i].v)

\* The quotes are not part of a string.
jsmn_parse_string(p, v) == jsmn_alloc_token(p, "STRING", p.pos + 1, p.pos + 1 + Len(v), v)

\* What one unit of the text does to the parser.
ParsesUnit(p, text, i) ==
  LET u == text[i]
      q == CASE u.c \in {"{", "["} ->
                  LET o == jsmn_alloc_token(p, IF u.c = "{" THEN "OBJECT" ELSE "ARRAY", p.pos, -1, "")
                  IN  IF o.err THEN o ELSE [o EXCEPT !.toksuper = p.toknext]
             [] u.c \in {"}", "]"} -> Closes(p, IF u.c = "}" THEN "OBJECT" ELSE "ARRAY")
             [] u.c = "s" -> jsmn_parse_string(p, u.v)
             [] u.c = ":" -> [p EXCEPT !.toksuper = p.toknext - 1]
             [] u.c = "," -> IF p.toksuper = -1 \/ Container(p.tokens[p.toksuper]) THEN p
                             ELSE [p EXCEPT !.toksuper = p.tokens[p.toksuper].parent]
             [] u.c = "p" -> jsmn_parse_primitive(p, text, i)
  IN  IF q.err THEN q ELSE [q EXCEPT !.pos = @ + Chars(u)]

\* Units a to b in turn, up to the first one that cannot be taken.
RECURSIVE Parses(_, _, _, _)
Parses(p, text, a, b) ==
  IF p.err \/ a > b THEN p
  ELSE IF a = b THEN ParsesUnit(p, text, a)
  ELSE LET mid == (a + b) \div 2
           q == Parses(p, text, a, mid)
       IN  IF q.err THEN q ELSE Parses(q, text, mid + 1, b)
jsmn_parse(parser, text) == Parses([parser EXCEPT !.err = FALSE], text, 1, Len(text))

\* The number of the token after token idx and all that it contains.
consume_recursive_json(tokens, idx) ==
  IF ~Container(tokens[idx]) THEN idx + 1
  ELSE CHOOSE i \in (idx + 1)..token_pool_size :
         /\ i = token_pool_size \/ tokens[i].start >= tokens[idx].end
         /\ \A j \in (idx + 1)..(i - 1) : tokens[j].start < tokens[idx].end
=============================================================================
