----------------------------- MODULE JsonValue -----------------------------
(***************************************************************************)
(* The values of a configuration (Json::Value) and the conversions from    *)
(* and to the words of a document (jsoncpp.cpp).                           *)
(*                                                                         *)
(* The integers have fewer bits than in the code and a double fewer than   *)
(* the long integers, so that every limit is within reach: int 5 bits for  *)
(* 32, the long integers 7 for 64, a double 5 for 53.                      *)
(***************************************************************************)
EXTENDS Integers, Sequences, FiniteSets, SequencesExt, FiniteSetsExt

IntRange == [int   |-> -16..15, uint   |-> 0..31,
             int64 |-> -64..63, uint64 |-> 0..127]

Precision == 5

(* A value without its members: its type and, of a scalar, what it holds.  A   *)
(* string is a sequence of bytes, a double its number of halves.               *)
Null == <<"null">>
Array == <<"array">>
Object == <<"object">>
TypeOf(v) == v[1]
IsContainer(v) == v \in {Array, Object}

(* A whole value: the parts of it, each by the names and indices that lead to  *)
(* it.  The root is at <<>>, the null value before anything is read.           *)
Member(name) == <<"name", name>>
Element(index) == <<"index", index>>
NullTree == [p \in {<<>>} |-> Null]

Below(tree, path) == {p \in DOMAIN tree : Len(p) > Len(path) /\ IsPrefix(path, p)}
Children(tree, path) == {p \in DOMAIN tree : Len(p) = Len(path) + 1 /\ IsPrefix(path, p)}

(* swapPayload of a new value: what the old one held goes with it *)
Put(tree, path, v) ==
  [p \in (DOMAIN tree \ Below(tree, path)) \cup {path} |-> IF p = path THEN v ELSE tree[p]]

(* operator[] and resolveReference: a part that does not exist becomes a null *)
Resolved(tree, path) == IF path \in DOMAIN tree THEN tree ELSE Put(tree, path, Null)

-----------------------------------------------------------------------------
(* Numbers *)

Pow2(n) == 2 ^ n
Abs(n) == IF n < 0 THEN -n ELSE n

(* Nearest double of a number of halves; a tie goes to the even one *)
AsDouble(halves) ==
  LET h == Abs(halves)
      k == Min({e \in 0..8 : h < Pow2(Precision + e)})
      low == (h \div Pow2(k)) * Pow2(k)
      rest == 2 * (h - low)
      near == IF rest > Pow2(k) \/ (rest = Pow2(k) /\ (low \div Pow2(k)) % 2 = 1)
                THEN low + Pow2(k) ELSE low
  IN  IF halves < 0 THEN -near ELSE near

Wrapped(n) == ((n + 64) % 128) - 64    \* LargestInt(value)

(* A number as it is written: its sign, its digits and what follows them *)
Number(negative, digits, tail) == <<"number", negative, digits, tail>>
Tails == {"none", "zero", "half", "e"} \* nothing, ".0", ".5", an exponent without digits

Overflow == -1
Failed == <<"failed">>

Digits(n) ==
  LET size == Min({s \in 1..4 : n < 10 ^ s})
  IN  [i \in 1..size |-> (n \div 10 ^ (size - i)) % 10]

DecodeDouble(negative, digits, tail) ==
  LET n == FoldLeft(LAMBDA v, d : v * 10 + d, 0, digits)
      h == 2 * n + (IF tail = "half" THEN 1 ELSE 0)
  IN  IF tail = "e" THEN Failed ELSE <<"real", AsDouble(IF negative THEN -h ELSE h)>>

(* The next digit would take the value past the largest integer *)
Exceeds(value, digit, isLast, most) ==
  \/ value > most \div 10
  \/ value = most \div 10 /\ (~isLast \/ digit > most % 10)

DecodeNumber(negative, digits, tail) ==
  LET most == IF negative THEN 64 ELSE 127
      Next(value, i) ==
        IF value = Overflow \/ Exceeds(value, digits[i], i = Len(digits), most)
          THEN Overflow ELSE value * 10 + digits[i]
      value == FoldLeft(Next, 0, [i \in DOMAIN digits |-> i])
  IN  CASE tail /= "none" \/ value = Overflow -> DecodeDouble(negative, digits, tail)
        [] negative -> <<"int", Wrapped(-Wrapped(value))>>
        [] value \in IntRange.int -> <<"int", value>>
        [] OTHER -> <<"uint", value>>

(* valueToString *)
NumberText(v) ==
  IF TypeOf(v) = "real"
    THEN Number(v[2] < 0, Digits(Abs(v[2]) \div 2), IF v[2] % 2 = 1 THEN "half" ELSE "none")
    ELSE Number(v[2] < 0, Digits(Abs(v[2])), "none")

-----------------------------------------------------------------------------
(* Strings.  A text is a sequence of items: a byte, an escape sequence for a   *)
(* byte, one for a unit of UTF-16, one that is none of these.                  *)
Byte(b) == <<"byte", b>>
Escaped(b) == <<"escape", b>>
Unit(u) == <<"unicode", u>>
BadEscape == <<"bad">>

Quote == 34
Specials == {8, 9, 10, 12, 13, Quote, 92}
Controls == 1..31

HighSurrogates == 55296..56319

(* What follows the first byte of a code point: six bits each *)
Following(cp, shift) == 128 + ((cp \div Pow2(shift)) % 64)

CodePointToUtf8(cp) ==
  CASE cp <= 127   -> <<cp>>
    [] cp \in 128..2047 -> <<192 + ((cp \div 64) % 32), Following(cp, 0)>>
    [] cp \in 2048..65535 -> <<224 + ((cp \div 4096) % 16), Following(cp, 6), Following(cp, 0)>>
    [] OTHER -> <<240 + ((cp \div 262144) % 8), Following(cp, 12), Following(cp, 6), Following(cp, 0)>>

(* decodeString with decodeUnicodeCodePoint: the second half of a pair must be *)
(* an escape sequence, of any unit                                             *)
DecodeItem(d, item) ==
  CASE ~d.ok -> d
    [] d.high /= 0 /\ TypeOf(item) = "unicode" ->
         [d EXCEPT !.high = 0,
                   !.bytes = @ \o CodePointToUtf8(65536 + (d.high % 1024) * 1024 + (item[2] % 1024))]
    [] d.high /= 0 \/ item = BadEscape -> [d EXCEPT !.ok = FALSE]
    [] TypeOf(item) = "unicode" /\ item[2] \in HighSurrogates -> [d EXCEPT !.high = item[2]]
    [] TypeOf(item) = "unicode" -> [d EXCEPT !.bytes = @ \o CodePointToUtf8(item[2])]
    [] OTHER -> [d EXCEPT !.bytes = Append(@, item[2])]

DecodeString(text) ==
  LET d == FoldLeft(DecodeItem, [ok |-> TRUE, high |-> 0, bytes |-> <<>>], text)
  IN  IF d.ok /\ d.high = 0 THEN <<"string", d.bytes>> ELSE Failed

(* valueToQuotedStringN *)
QuotedN(bytes) ==
  [i \in DOMAIN bytes |-> CASE bytes[i] \in Specials -> Escaped(bytes[i])
                            [] bytes[i] \in Controls \cup {0} -> Unit(bytes[i])
                            [] OTHER -> Byte(bytes[i])]

(* valueToQuotedString: a text ends before its first zero *)
Quoted(bytes) ==
  QuotedN(SubSeq(bytes, 1, Min({i \in DOMAIN bytes : bytes[i] = 0} \cup {Len(bytes) + 1}) - 1))

-----------------------------------------------------------------------------
(* What the program asks of a value *)
Throws == <<"throws">>

(* The value towards zero of a number of halves *)
Truncated(halves) == IF halves < 0 THEN -((-halves) \div 2) ELSE halves \div 2

(* Mutant of InRange: the range of the type itself, with no lower bound. *)
InRangeAbove(range, halves) == halves <= AsDouble(2 * Max(range))

(* InRange: the limits are converted to a double before they are compared *)
InRange(range, halves) == AsDouble(2 * Min(range)) <= halves /\ halves <= AsDouble(2 * Max(range))

(* isInt, isUInt, isInt64, isUInt64: unlike InRange the last two leave out a    *)
(* double that is the limit as it was rounded                                  *)
IsInteger(type, v) ==
  LET range == IntRange[type]
  IN  \/ TypeOf(v) \in {"int", "uint"} /\ v[2] \in range
      \/ /\ TypeOf(v) = "real" /\ v[2] % 2 = 0
         /\ v[2] >= AsDouble(2 * Min(range))
         /\ v[2] <= AsDouble(2 * Max(range))
         /\ type \in {"int64", "uint64"} => v[2] < AsDouble(2 * Max(range))

(* asInt, asUInt, asInt64, asUInt64.  The conversion of a double that is too   *)
(* large has no defined result.                                                *)
AsInteger(type, v) ==
  LET range == IntRange[type]
  IN  CASE TypeOf(v) \in {"int", "uint"} -> IF IsInteger(type, v) THEN {<<"is", v[2]>>} ELSE {Throws}
        [] TypeOf(v) = "real" /\ InRange(range, v[2]) ->
             IF Truncated(v[2]) \in range THEN {<<"is", Truncated(v[2])>>}
                                          ELSE {<<"is", n>> : n \in range}
        [] TypeOf(v) = "null" -> {<<"is", 0>>}
        [] TypeOf(v) = "bool" -> {<<"is", IF v[2] THEN 1 ELSE 0>>}
        [] OTHER -> {Throws}

(* asDouble, in halves *)
AsReal(v) ==
  CASE TypeOf(v) \in {"int", "uint"} -> <<"is", AsDouble(2 * v[2])>>
    [] TypeOf(v) = "real" -> <<"is", v[2]>>
    [] TypeOf(v) = "null" -> <<"is", 0>>
    [] TypeOf(v) = "bool" -> <<"is", IF v[2] THEN 2 ELSE 0>>
    [] OTHER -> Throws

AsBool(v) ==
  CASE TypeOf(v) = "bool" -> <<"is", IF v[2] THEN 1 ELSE 0>>
    [] TypeOf(v) = "null" -> <<"is", 0>>
    [] TypeOf(v) \in {"int", "uint", "real"} -> <<"is", IF v[2] = 0 THEN 0 ELSE 1>>
    [] OTHER -> Throws

(* asString; the text of a number or a truth value is not told apart *)
AsString(v) ==
  CASE TypeOf(v) = "null" -> <<"is", <<>>>>
    [] TypeOf(v) = "string" -> <<"is", v[2]>>
    [] TypeOf(v) \in {"bool", "int", "uint", "real"} -> <<"is", <<v>>>>
    [] OTHER -> Throws

Accessors == DOMAIN IntRange \cup {"double", "bool", "string"}

(* The answers of an accessor, one unless the conversion has no defined result *)
Answers(accessor, v) ==
  CASE accessor = "double" -> {AsReal(v)}
    [] accessor = "bool" -> {AsBool(v)}
    [] accessor = "string" -> {AsString(v)}
    [] OTHER -> AsInteger(accessor, v)

(* get(name, default): find, and the default if there is no such member *)
Get(tree, path, name, default) ==
  CASE tree[path] \notin {Object, Null} -> Throws
    [] Append(path, Member(name)) \in DOMAIN tree -> tree[Append(path, Member(name))]
    [] OTHER -> default

(* size *)
Size(tree, path) == Cardinality(Children(tree, path))
=============================================================================
