------------------------------- MODULE Query --------------------------------
(***************************************************************************)
(* query/: the filter language of `dtl query`, from text to match.         *)
(*                                                                         *)
(* A text is a sequence of symbols: a punctuation character, a digit, a    *)
(* blank, or a letter.  A letter may stand for a word ("pct"), so that the *)
(* names of the code are one symbol each; an identifier is a sequence of   *)
(* letters and digits, as in the code.  The symbol "NUL" ends a text and   *)
(* occurs only inside records.                                             *)
(*                                                                         *)
(* The text is typed piece by piece and then compiled in an arena that     *)
(* still serves some number of allocations: every bounded text is reached, *)
(* and every allocation of every compilation fails in some behaviour.      *)
(***************************************************************************)
EXTENDS Integers, Sequences, FiniteSetsExt, SequencesExt

CONSTANTS IntMax,       \* INT64_MAX
          MaxDepth,     \* DTL_QUERY_MAX_DEPTH
          Bytes,        \* every symbol, in the order memcmp gives them
          Letters,      \* the symbols that start an identifier
          Feeds,        \* [pieces, max, arenas]: the pieces typed, how many of
                        \* them, and how many allocations the arena still serves
          Records       \* the records a compiled query is matched with

ASSUME QueryConstants ==
  /\ IntMax \in Nat /\ MaxDepth \in Nat /\ \A f \in Feeds : f.arenas \subseteq Nat
  /\ Letters \subseteq Range(Bytes) /\ IsInjective(Bytes)

VARIABLES typed,      \* pieces typed so far
          given,      \* allocations the arena of the compilation serves
          compiled    \* [rc, root, arena] of dtl_query_compile, or Pending

vars == <<typed, given, compiled>>

text == FlattenSeq(typed)

-----------------------------------------------------------------------------
(***************************************************************************)
(* query/lex.                                                              *)
(***************************************************************************)
Blanks == {" "}
Digits == {"0", "1", "2", "3", "4", "5", "6", "7", "8", "9"}
DigitValue == [d \in Digits |-> CHOOSE v \in 0 .. 9 : d = ToString(v)]

Spelling == [AND |-> <<"&", "&">>, OR |-> <<"|", "|">>, EQ |-> <<"=", "=">>,
             NE |-> <<"!", "=">>, LE |-> <<"<", "=">>, GE |-> <<">", "=">>,
             NOT |-> <<"!">>, LT |-> <<"<">>, GT |-> <<">">>,
             LPAREN |-> <<"(">>, RPAREN |-> <<")">>, DOT |-> <<".">>]

(* s[i], and the terminator behind the end.                                *)
At(s, i) == IF i <= Len(s) THEN s[i] ELSE "NUL"

(* The first position from i on that holds no symbol of the class.         *)
SkipWhile(s, i, class) ==
  CHOOSE j \in i .. Len(s) + 1 : /\ At(s, j) \notin class
                                 /\ \A k \in i .. j - 1 : At(s, k) \in class

(* A token [kind, num, s], found at from .. to - 1.                        *)
Token(kind, num, s, from, to) ==
  [rc |-> "OK", kind |-> kind, num |-> num, s |-> s, from |-> from, to |-> to]
BadToken(i) == [rc |-> "BADQUERY", kind |-> "END", num |-> 0, s |-> <<>>, from |-> i, to |-> i]

MutOverflows(val, d) == val * 10 > IntMax

(* The test dtl_lex_number makes before it multiplies.                     *)
Overflows(val, d) == val > (IntMax - d) \div 10

LexNumber(s, i) ==
  LET first == IF s[i] = "-" THEN i + 1 ELSE i
      to == SkipWhile(s, first, Digits)
      val == FoldLeft(LAMBDA v, c : IF v < 0 \/ Overflows(v, DigitValue[c]) THEN -1
                                    ELSE v * 10 + DigitValue[c],
                      0, SubSeq(s, first, to - 1))
  IN  IF val < 0 THEN BadToken(i)
      ELSE Token("NUM", IF s[i] = "-" THEN -val ELSE val, <<>>, i, to)

(* The position of the quote that closes a string, or 0 if none does.      *)
StringEnd(s, i) ==
  LET from[j \in Nat] == CASE At(s, j) = "NUL" -> 0
                           [] At(s, j) = "\"" -> j
                           [] At(s, j) = "\\" -> IF At(s, j + 1) = "NUL" THEN 0 ELSE from[j + 2]
                           [] OTHER -> from[j + 1]
  IN  from[i]

LexString(s, i) ==
  LET end == StringEnd(s, i + 1) IN
    IF end = 0 THEN BadToken(i) ELSE Token("STR", 0, SubSeq(s, i + 1, end - 1), i, end + 1)

LexIdent(s, i) ==
  LET to == SkipWhile(s, i, Letters \cup Digits) IN Token("IDENT", 0, SubSeq(s, i, to - 1), i, to)

(* The operators of two characters are tried before those of one.          *)
LexOperator(s, i) ==
  LET ops == {k \in DOMAIN Spelling : IsPrefix(Spelling[k], SubSeq(s, i, Len(s)))}
      op == CHOOSE k \in ops : \A l \in ops : Len(Spelling[l]) <= Len(Spelling[k])
  IN  IF ops = {} THEN BadToken(i) ELSE Token(op, 0, <<>>, i, i + Len(Spelling[op]))

LexNext(s, pos) ==
  LET i == SkipWhile(s, pos, Blanks)
      c == At(s, i)
  IN  CASE c = "NUL" -> Token("END", 0, <<>>, i, i)
        [] c \in Digits \/ (c = "-" /\ At(s, i + 1) \in Digits) -> LexNumber(s, i)
        [] c \in Letters -> LexIdent(s, i)
        [] c = "\"" -> LexString(s, i)
        [] OTHER -> LexOperator(s, i)

-----------------------------------------------------------------------------
(***************************************************************************)
(* query/parse and query/ast.  A parser p is [s, pos, cur, err, arena]:    *)
(* arena counts the allocations that will still succeed.  Every parse      *)
(* operator yields [p, node], node being Null where the code returns NULL. *)
(***************************************************************************)
Null == [kind |-> "NULL"]

Advance(p) ==
  LET take(t) == IF t.rc = "OK" THEN [p EXCEPT !.pos = t.to, !.cur = t]
                 ELSE [p EXCEPT !.err = IF @ = "OK" THEN t.rc ELSE @, !.cur = t]
  IN  take(LexNext(p.s, p.pos))

ParseFail(p) == [p |-> [p EXCEPT !.err = IF @ = "OK" THEN "BADQUERY" ELSE @], node |-> Null]

(* A constructor that makes n allocations; when one fails, err becomes     *)
(* DTL_ERR_OOM whatever it was.                                            *)
Make(p, n, node) ==
  IF p.arena < n THEN [p |-> [p EXCEPT !.err = "OOM"], node |-> Null]
  ELSE [p |-> [p EXCEPT !.arena = @ - n], node |-> node]

(* A string's escapes decoded; ok says whether all of them are known.      *)
Decode(raw) ==
  LET from[i \in Nat] == CASE i > Len(raw) -> [ok |-> TRUE, s |-> <<>>]
                           [] At(raw, i) # "\\" ->
                                [from[i + 1] EXCEPT !.s = <<raw[i]>> \o @]
                           [] OTHER -> IF At(raw, i + 1) \in {"\"", "\\"}
                                       THEN [from[i + 2] EXCEPT !.s = <<raw[i + 1]>> \o @]
                                       ELSE [ok |-> FALSE, s |-> <<>>]
  IN  from[1]

(* dtl_parse_string: the buffer's allocation sets err, the node's does not.*)
ParseString(p, raw) ==
  LET buf == Make(p, 1, Null)
      d == Decode(raw)
  IN  CASE p.arena = 0 -> buf
        [] p.arena > 0 /\ ~d.ok -> ParseFail(buf.p)
        [] p.arena = 1 /\ d.ok -> buf
        [] OTHER -> Make(p, 2, [kind |-> "STR", s |-> d.s])

(* A node with two children; right is the outcome of parsing the second.   *)
Joined(left, kind, op, right) ==
  IF right.node = Null THEN right
  ELSE Make(right.p, 1, [kind |-> kind, op |-> op, left |-> left.node, right |-> right.node])

(* Descend is the call of one level of the grammar by another.             *)
RECURSIVE Descend(_, _, _), Chain(_, _, _)

(* An identifier, dotted or not.                                           *)
ParseIdent(p) ==
  LET field(s2) == [kind |-> "FIELD", s1 |-> p.cur.s, s2 |-> s2]
      dotted(p2) == IF p2.cur.kind # "IDENT" THEN ParseFail(p2)
                    ELSE Make(Advance(p2), 3, field(p2.cur.s))
      after(p1) == IF p1.cur.kind = "DOT" THEN dotted(Advance(p1)) ELSE Make(p1, 2, field(<<>>))
  IN  after(Advance(p))

ParseParen(p, depth) ==
  LET close(inner) == CASE inner.node = Null -> inner
                        [] inner.node # Null /\ inner.p.cur.kind # "RPAREN" -> ParseFail(inner.p)
                        [] OTHER -> [inner EXCEPT !.p = Advance(@)]
  IN  close(Descend("expr", Advance(p), depth + 1))

ParseNot(p, depth) ==
  LET negate(child) == IF child.node = Null THEN child
                       ELSE Make(child.p, 1, [kind |-> "NOT", left |-> child.node])
  IN  negate(Descend("primary", Advance(p), depth + 1))

MutStop(p, depth) == p.err # "OK" \/ depth >= MaxDepth

(* The guard every level of the descent starts with.                       *)
Stop(p, depth) == p.err # "OK" \/ depth > MaxDepth

ParsePrimary(p, depth) ==
  LET then(r) == IF r.node = Null THEN r ELSE [r EXCEPT !.p = Advance(@)] IN
    IF Stop(p, depth) THEN ParseFail(p)
    ELSE CASE p.cur.kind = "NUM" -> then(Make(p, 1, [kind |-> "INT", ival |-> p.cur.num]))
           [] p.cur.kind = "STR" -> then(ParseString(p, p.cur.s))
           [] p.cur.kind = "IDENT" -> ParseIdent(p)
           [] p.cur.kind = "LPAREN" -> ParseParen(p, depth)
           [] p.cur.kind = "NOT" -> ParseNot(p, depth)
           [] OTHER -> ParseFail(p)

CmpOps == {"EQ", "NE", "LT", "LE", "GT", "GE"}

ParseCmp(p, depth) ==
  LET compare(left) ==
        IF left.node = Null \/ left.p.cur.kind \notin CmpOps THEN left
        ELSE Joined(left, "CMP", left.p.cur.kind, Descend("primary", Advance(left.p), depth + 1))
  IN  IF Stop(p, depth) THEN ParseFail(p) ELSE compare(Descend("primary", p, depth + 1))

(* The loops of dtl_parse_and and dtl_parse_expr: while op follows, one    *)
(* more operand joins the node on the left.                                *)
Chain(left, op, depth) ==
  IF left.node = Null \/ left.p.cur.kind # op THEN left
  ELSE Chain(Joined(left, op, "NONE",
                    Descend(IF op = "AND" THEN "cmp" ELSE "and", Advance(left.p), depth)),
             op, depth)

ParseAnd(p, depth) ==
  IF Stop(p, depth) THEN ParseFail(p) ELSE Chain(Descend("cmp", p, depth + 1), "AND", depth + 1)

ParseExpr(p, depth) ==
  IF Stop(p, depth) THEN ParseFail(p) ELSE Chain(Descend("and", p, depth + 1), "OR", depth + 1)

Descend(level, p, depth) ==
  CASE level = "expr" -> ParseExpr(p, depth)
    [] level = "and" -> ParseAnd(p, depth)
    [] level = "cmp" -> ParseCmp(p, depth)
    [] level = "primary" -> ParsePrimary(p, depth)

(* dtl_parse.                                                              *)
Parse(s, arena) ==
  LET p0 == Advance([s |-> s, pos |-> 1, cur |-> BadToken(1), err |-> "OK", arena |-> arena])
      rc(r) == CASE r.p.err # "OK" -> r.p.err
                 [] r.p.err = "OK" /\ (r.node = Null \/ r.p.cur.kind # "END") -> "BADQUERY"
                 [] OTHER -> "OK"
      end(r) == [rc |-> rc(r), root |-> IF rc(r) = "OK" THEN r.node ELSE Null, arena |-> r.p.arena]
  IN  end(ParseExpr(p0, 0))

(* dtl_query_compile: the query object is one more allocation.             *)
QueryCompile(s, arena) ==
  LET object(r) == IF r.rc = "OK" /\ r.arena = 0 THEN [r EXCEPT !.rc = "OOM", !.root = Null] ELSE r
  IN  object(Parse(s, arena))

-----------------------------------------------------------------------------
(***************************************************************************)
(* query/eval.  A record is [tag, val]: val gives its fields, integers     *)
(* and strings, and for a CONFIG record the sequence of its pairs.         *)
(***************************************************************************)
None == [kind |-> "NONE"]
IntVal(i) == [kind |-> "INT", i |-> i]
StrVal(s) == [kind |-> "STR", s |-> s]
Flag(b) == IntVal(IF b THEN 1 ELSE 0)

TagOf == [HEARTBEAT |-> 16, SENSOR |-> 17, EVENT |-> 18, DIAG |-> 19, GEO |-> 20,
          BATTERY |-> 21, NET |-> 22, LOG |-> 23, CONFIG |-> 24, KEYREF |-> 25,
          FIRMWARE |-> 26]

(* The symbols for a type's name; case does not matter to dtl_name_ieq.    *)
TypeSymbols == [HEARTBEAT |-> {"HEARTBEAT", "heartbeat"}, SENSOR |-> {"SENSOR", "sensor"},
                EVENT |-> {"EVENT", "event"}, DIAG |-> {"DIAG", "diag"}, GEO |-> {"GEO", "geo"},
                BATTERY |-> {"BATTERY", "battery"}, NET |-> {"NET", "net"}, LOG |-> {"LOG", "log"},
                CONFIG |-> {"CONFIG", "config"}, KEYREF |-> {"KEYREF", "keyref"},
                FIRMWARE |-> {"FIRMWARE", "firmware"}]
TypesNamed(name) == {t \in DOMAIN TypeSymbols : \E w \in TypeSymbols[t] : name = <<w>>}

IntFields == [HEARTBEAT |-> {"seq", "uptime"}, SENSOR |-> {"id", "count"},
              EVENT |-> {"code", "len"}, DIAG |-> {"subsystem", "len"},
              GEO |-> {"lat", "lon", "alt"}, BATTERY |-> {"pct", "temp", "cycles"},
              NET |-> {"iface", "rx_bytes", "tx_bytes", "rx_pkts", "tx_pkts"},
              LOG |-> {"severity", "len"}, CONFIG |-> {}, KEYREF |-> {"slot"},
              FIRMWARE |-> {"major", "minor", "patch"}]
StrFields(tag) == CASE tag = "LOG" -> {"msg"} [] tag = "KEYREF" -> {"label"} [] OTHER -> {}

(* The (int64_t) cast of the code: an unsigned 64-bit counter may wrap.    *)
Signed(v) == IF v > IntMax THEN v - 2 * (IntMax + 1) ELSE v

(* What strlen makes of a string that may hold a zero byte.                *)
ToNul(s) == SubSeq(s, 1, SkipWhile(s, 1, Range(Bytes) \ {"NUL"}) - 1)

(* The name is looked up as a key; the first pair with it wins.            *)
ConfigValue(pairs, name) ==
  LET named == {i \in DOMAIN pairs : ToNul(pairs[i].key) = name} IN
    IF named = {} THEN None ELSE StrVal(ToNul(pairs[Min(named)].value))

FieldValue(rec, name) ==
  LET within(fields) == \E f \in fields : name = <<f>> IN
    CASE rec.tag = "CONFIG" -> ConfigValue(rec.val, name)
      [] within(IntFields[rec.tag]) -> IntVal(Signed(rec.val[name[1]]))
      [] within(StrFields(rec.tag)) -> StrVal(rec.val[name[1]])
      [] OTHER -> None

(* A bare name is "type", a type's name or a field; a qualifier must name  *)
(* the type of the record.                                                 *)
Resolve(node, rec) ==
  CASE node.s2 # <<>> -> IF rec.tag \in TypesNamed(node.s1) THEN FieldValue(rec, node.s2) ELSE None
    [] node.s2 = <<>> /\ node.s1 = <<"type">> -> IntVal(TagOf[rec.tag])
    [] OTHER -> IF TypesNamed(node.s1) # {}
                THEN IntVal(TagOf[CHOOSE t \in TypesNamed(node.s1) : TRUE])
                ELSE FieldValue(rec, node.s1)

Byte(c) == CHOOSE i \in DOMAIN Bytes : Bytes[i] = c

(* The sign of memcmp over the common length, then of the lengths.         *)
StrOrder(s, t) ==
  LET m == Min({Len(s), Len(t)})
      d == {i \in 1 .. m : s[i] # t[i]}
  IN  IF d # {} THEN Byte(s[Min(d)]) - Byte(t[Min(d)]) ELSE Len(s) - Len(t)

Holds(op, c) == CASE op = "EQ" -> c = 0 [] op = "NE" -> c # 0 [] op = "LT" -> c < 0
                  [] op = "LE" -> c <= 0 [] op = "GT" -> c > 0 [] op = "GE" -> c >= 0

MutCompare(l, r, op) ==
  CASE l.kind = "INT" /\ r.kind = "INT" -> Holds(op, l.i - r.i)
    [] l.kind = "STR" /\ r.kind = "STR" -> Holds(op, StrOrder(l.s, r.s))
    [] OTHER -> op = "NE"

Compare(l, r, op) ==
  CASE l.kind = "NONE" \/ r.kind = "NONE" -> FALSE
    [] l.kind = "INT" /\ r.kind = "INT" -> Holds(op, l.i - r.i)
    [] l.kind = "STR" /\ r.kind = "STR" -> Holds(op, StrOrder(l.s, r.s))
    [] OTHER -> op = "NE"

Truthy(v) == (v.kind = "INT" /\ v.i # 0) \/ (v.kind = "STR" /\ v.s # <<>>)

RECURSIVE EvalValue(_, _)
EvalValue(node, rec) ==
  CASE node.kind = "INT" -> IntVal(node.ival)
    [] node.kind = "STR" -> StrVal(node.s)
    [] node.kind = "FIELD" -> Resolve(node, rec)
    [] node.kind = "NOT" -> Flag(~Truthy(EvalValue(node.left, rec)))
    [] node.kind = "AND" -> Flag(Truthy(EvalValue(node.left, rec)) /\ Truthy(EvalValue(node.right, rec)))
    [] node.kind = "OR" -> Flag(Truthy(EvalValue(node.left, rec)) \/ Truthy(EvalValue(node.right, rec)))
    [] node.kind = "CMP" -> Flag(Compare(EvalValue(node.left, rec), EvalValue(node.right, rec), node.op))

QueryMatch(root, rec) == Truthy(EvalValue(root, rec))

-----------------------------------------------------------------------------

Pending == [rc |-> "NONE", root |-> Null, arena |-> 0]

Init == typed = <<>> /\ given = 0 /\ compiled = Pending

Type == \E f \in Feeds :
          /\ compiled = Pending /\ Len(typed) < f.max /\ Range(typed) \subseteq f.pieces
          /\ \E piece \in f.pieces : typed' = Append(typed, piece)
          /\ UNCHANGED <<given, compiled>>

Compile == \E f \in Feeds : \E n \in f.arenas :
             /\ compiled = Pending /\ Len(typed) <= f.max /\ Range(typed) \subseteq f.pieces
             /\ given' = n /\ compiled' = QueryCompile(text, n)
             /\ UNCHANGED typed

Next == Type \/ Compile

Spec == Init /\ [][Next]_vars

-----------------------------------------------------------------------------
(***************************************************************************)
(* The language, declared on the sequence of tokens and without a parser:  *)
(* what a text means is read off its outermost operator.                   *)
(***************************************************************************)
Tokens ==
  LET from[i \in Nat] == LET t == LexNext(text, i) IN
                           IF t.kind = "END" THEN <<t>> ELSE <<t>> \o from[t.to]
  IN  from[1]
Lexed == Last(Tokens).rc = "OK"

Count(ts, kind) == Cardinality({i \in DOMAIN ts : ts[i].kind = kind})
Outermost(ts, kinds) ==
  {i \in DOMAIN ts : /\ ts[i].kind \in kinds
                     /\ LET before == SubSeq(ts, 1, i - 1) IN
                          Count(before, "LPAREN") = Count(before, "RPAREN")}
Before(ts, i) == SubSeq(ts, 1, i - 1)
After(ts, i) == SubSeq(ts, i + 1, Len(ts))
Inner(ts) == SubSeq(ts, 2, Len(ts) - 1)
Parenthesised(ts) == Len(ts) > 2 /\ ts[1].kind = "LPAREN" /\ Last(ts).kind = "RPAREN"
Dotted(ts) == Len(ts) = 3 /\ ts[2].kind = "DOT" /\ ts[1].kind = "IDENT" /\ ts[3].kind = "IDENT"

(* Four nested calls for a parenthesis, one for a negation.                *)
RECURSIVE IsExpr(_, _), IsPrimary(_, _)
IsPrimary(ts, depth) ==
  /\ depth <= MaxDepth
  /\ \/ Len(ts) = 1 /\ ts[1].kind \in {"NUM", "IDENT"}
     \/ Len(ts) = 1 /\ ts[1].kind = "STR" /\ Decode(ts[1].s).ok
     \/ Dotted(ts)
     \/ Len(ts) > 1 /\ ts[1].kind = "NOT" /\ IsPrimary(Tail(ts), depth + 1)
     \/ Parenthesised(ts) /\ IsExpr(Inner(ts), depth + 4)
IsExpr(ts, depth) ==
  LET ors == Outermost(ts, {"OR"})
      ands == Outermost(ts, {"AND"})
      cmps == Outermost(ts, CmpOps)
      sides(i) == IsExpr(Before(ts, i), depth) /\ IsExpr(After(ts, i), depth)
  IN  IF ors # {} THEN sides(Max(ors))
      ELSE IF ands # {} THEN sides(Max(ands))
      ELSE IF cmps # {}
      THEN \A i \in cmps : IsPrimary(Before(ts, i), depth) /\ IsPrimary(After(ts, i), depth)
      ELSE IsPrimary(ts, depth)

(* memcmp's order on strings, as an order.                                 *)
Precedes(s, t) ==
  \/ IsStrictPrefix(s, t)
  \/ \E i \in 1 .. Min({Len(s), Len(t)}) :
       SubSeq(s, 1, i - 1) = SubSeq(t, 1, i - 1) /\ Byte(s[i]) < Byte(t[i])

Related(l, r, op) ==
  LET ints == l.kind = "INT" /\ r.kind = "INT"
      strs == l.kind = "STR" /\ r.kind = "STR"
      lt(a, b) == (ints /\ a.i < b.i) \/ (strs /\ Precedes(a.s, b.s))
  IN  /\ l.kind # "NONE" /\ r.kind # "NONE"
      /\ CASE op = "EQ" -> l = r
           [] op = "NE" -> l # r
           [] op = "LT" -> lt(l, r)
           [] op = "GT" -> lt(r, l)
           [] op = "LE" -> (ints \/ strs) /\ ~lt(r, l)
           [] op = "GE" -> (ints \/ strs) /\ ~lt(l, r)

(* The value of a grammatical sequence of tokens.                          *)
RECURSIVE Meaning(_, _)
Meaning(ts, rec) ==
  LET ors == Outermost(ts, {"OR"})
      ands == Outermost(ts, {"AND"})
      cmps == Outermost(ts, CmpOps)
      at(i) == [l |-> Meaning(Before(ts, i), rec), r |-> Meaning(After(ts, i), rec)]
  IN  IF ors # {} THEN LET m == at(Min(ors)) IN Flag(Truthy(m.l) \/ Truthy(m.r))
      ELSE IF ands # {} THEN LET m == at(Min(ands)) IN Flag(Truthy(m.l) /\ Truthy(m.r))
      ELSE IF cmps # {} THEN LET m == at(Min(cmps)) IN Flag(Related(m.l, m.r, ts[Min(cmps)].kind))
      ELSE CASE ts[1].kind = "NOT" -> Flag(~Truthy(Meaning(Tail(ts), rec)))
             [] ts[1].kind = "LPAREN" -> Meaning(Inner(ts), rec)
             [] ts[1].kind = "NUM" -> IntVal(ts[1].num)
             [] ts[1].kind = "STR" -> StrVal(Decode(ts[1].s).s)
             [] ts[1].kind = "IDENT" ->
                  Resolve([s1 |-> ts[1].s, s2 |-> IF Dotted(ts) THEN ts[3].s ELSE <<>>], rec)

Sentence == Front(Tokens)
Grammatical == Lexed /\ IsExpr(Sentence, 3)

(* The allocations a grammatical text costs: a node for each literal,      *)
(* field and operator, the bytes of each string and name, and the query.   *)
Cost ==
  LET of(t) == CASE t.kind \in {"LPAREN", "RPAREN"} -> 0
                 [] t.kind \in {"STR", "IDENT"} -> 2
                 [] t.kind = "DOT" -> -1
                 [] OTHER -> 1
  IN  1 + FoldLeft(LAMBDA n, t : n + of(t), 0, Sentence)

-----------------------------------------------------------------------------
(***************************************************************************)
(* dtl_query_compile accepts exactly the language, up to the depth limit:  *)
(* it neither accepts a text with an error anywhere in it nor refuses one  *)
(* for the way it nests, and it succeeds as soon as the arena has room for *)
(* what the tree really needs.  Its refusals are named as query.h says: a  *)
(* valid text is never called a bad query for want of memory, except where *)
(* a string literal's node is what could not be allocated, and a text is   *)
(* never called too large for memory when there is memory for any text.    *)
(***************************************************************************)
AcceptsExactly ==
  compiled # Pending =>
    /\ compiled.rc = "OK" <=> Grammatical /\ given >= Cost
    /\ compiled.rc = "BADQUERY" => ~Grammatical \/ Count(Sentence, "STR") > 0
    /\ compiled.rc = "OOM" => /\ ~Grammatical \/ given < Cost
                              /\ given < 2 * Len(text) + 1

(***************************************************************************)
(* A compiled query matches a record exactly when its text, read off its   *)
(* outermost operators, says so: precedence, grouping, short circuits, and *)
(* what comparisons with missing fields and between kinds of value yield.  *)
(***************************************************************************)
MatchesMeaning ==
  compiled.rc = "OK" =>
    \A rec \in Records : QueryMatch(compiled.root, rec) = Truthy(Meaning(Sentence, rec))

(* The quote at j closes a string opened at i: an even number of           *)
(* backslashes, none included, stands before it.                           *)
Closes(i, j) ==
  LET slashes == Max({k \in 0 .. j - i - 1 : \A l \in j - k .. j - 1 : text[l] = "\\"})
  IN  text[j] = "\"" /\ slashes % 2 = 0

(* The digits at i, behind a sign if there is one, and the number written. *)
DigitsAt(i) ==
  LET first == IF text[i] = "-" THEN i + 1 ELSE i
  IN  SubSeq(text, first, SkipWhile(text, first, Digits) - 1)

Written(ds) == FoldLeft(LAMBDA v, c : 10 * v + DigitValue[c], 0, ds)

(* What stands at i is a number that does not fit, a string without an end *)
(* or a character that starts nothing.                                     *)
NoToken(i) ==
  CASE DigitsAt(i) # <<>> -> Written(DigitsAt(i)) > IntMax
    [] text[i] = "\""     -> \A j \in i + 1 .. Len(text) : ~Closes(i, j)
    [] OTHER -> /\ text[i] \notin Letters \cup {"(", ")", "!", "<", ">", "."}
                /\ text[i] \notin {"&", "|", "="} \/ At(text, i + 1) # text[i]

(* Tokens ts, as the text has them.                                        *)
Tiled(ts) ==
  \A k \in DOMAIN ts :
    LET t == ts[k]
        start == IF k = 1 THEN 1 ELSE ts[k - 1].to
    IN  /\ Range(SubSeq(text, start, t.from - 1)) \subseteq Blanks
        /\ IF t.from > Len(text) THEN t.rc = "OK" /\ t.kind = "END"
           ELSE t.rc = IF NoToken(t.from) THEN "BADQUERY" ELSE "OK"
        /\ t.kind = "NUM" =>
             /\ t.num = Written(DigitsAt(t.from)) * (IF text[t.from] = "-" THEN -1 ELSE 1)
             /\ At(text, t.to) \notin Digits
        /\ t.kind = "STR" => /\ Closes(t.from, t.to - 1)
                             /\ \A j \in t.from + 1 .. t.to - 2 : ~Closes(t.from, j)
        /\ t.kind = "IDENT" => At(text, t.to) \notin Letters \cup Digits
        /\ t.kind \in {"NOT", "LT", "GT"} => At(text, t.to) # "="

(***************************************************************************)
(* The tokens lie in the text without a gap or an overlap, blanks apart,   *)
(* every number is the one that is written, every string ends at its first *)
(* quote that is not escaped, and names and operators are the longest      *)
(* there are; and dtl_lex_next refuses exactly the numbers beyond          *)
(* INT64_MAX of either sign, the strings without an end and the characters *)
(* that start no token.                                                    *)
(***************************************************************************)
TokensTileText == Tiled(Tokens)
=============================================================================
