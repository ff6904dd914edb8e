-------------------------------- MODULE Json --------------------------------
(***************************************************************************)
(* A configuration on its way through the program: read by Json::Reader,   *)
(* printed by tdoa::setParams (Value::toStyledString, StyledWriter), asked *)
(* for its members, and, printed, the configuration of another start.      *)
(***************************************************************************)
EXTENDS JsonReader

CONSTANTS Trees,       \* values somebody may want to configure
          Garbage,     \* other documents
          CodePoints,  \* characters that may be written as escape sequences
          RightMargin  \* rightMargin_: 74

VARIABLES intended,    \* the value the document was written for
          configured,  \* root of main, NoTree before
          printed,     \* what toStyledString returned
          answer       \* the last value setParams asked for

vars == <<readerVars, intended, configured, printed, answer>>

NoTree == [p \in {} |-> Null]
NoAnswer == [accessor |-> "none", name |-> <<>>, is |-> Throws]
Default == <<"int", 9>>      \* a default, as in get("port", 9999)

-----------------------------------------------------------------------------
(* StyledWriter.  Space is left out, but not the choice between the layouts:   *)
(* the elements of an array may be converted before they are written.          *)

TextOf(v) ==
  CASE TypeOf(v) = "string" -> <<"text", QuotedN(v[2])>>
    [] TypeOf(v) = "bool" -> IF v[2] THEN Word("true") ELSE Word("false")
    [] TypeOf(v) = "null" -> Word("null")
    [] OTHER -> NumberText(v)

PushValue(w, words) ==
  IF w.addChildValues THEN [w EXCEPT !.childValues = Append(@, words)]
                      ELSE [w EXCEPT !.document = @ \o words]

Written(w, words) == [w EXCEPT !.document = @ \o words]

Width(words) ==
  FoldLeft(LAMBDA n, word : n + (IF TypeOf(word) = "text" THEN 2 + Len(word[2]) ELSE 1), 0, words)

(* Members of an object in the order of the map: as memcmp and the length say *)
NameLess(a, b) ==
  \/ IsStrictPrefix(a, b)
  \/ \E i \in DOMAIN a \cap DOMAIN b :
        a[i] < b[i] /\ SubSeq(a, 1, i - 1) = SubSeq(b, 1, i - 1)

MemberNames(t, p) == SetToSortSeq({Last(c)[2] : c \in Children(t, p)}, NameLess)

(* The commas between n things *)
Comma(i) == IF i = 1 THEN <<>> ELSE <<Word(",")>>

RECURSIVE WriteValue(_, _, _)

(* Mutant of IsMultiline: the elements of an earlier array are kept. *)
IsMultilineKeeping(w, t, p) ==
  LET size == Size(t, p)
      holds == \E c \in Children(t, p) : Children(t, c) /= {}
      filled == FoldLeft(LAMBDA x, i : WriteValue(x, t, Append(p, Element(i - 1))),
                         [w EXCEPT !.addChildValues = TRUE], [i \in 1..size |-> i])
  IN  IF size * 3 >= RightMargin \/ holds
        THEN [w EXCEPT !.multiline = TRUE]
        ELSE [filled EXCEPT !.addChildValues = FALSE, !.multiline = FALSE]

(* isMultineArray: many elements, elements that hold something, or a long line; *)
(* for the last the elements are converted into childValues_                    *)
IsMultiline(w, t, p) ==
  LET size == Size(t, p)
      holds == \E c \in Children(t, p) : Children(t, c) /= {}
      filled == FoldLeft(LAMBDA x, i : WriteValue(x, t, Append(p, Element(i - 1))),
                         [w EXCEPT !.childValues = <<>>, !.addChildValues = TRUE],
                         [i \in 1..size |-> i])
      length == 4 + (size - 1) * 2 + Width(FlattenSeq(filled.childValues))
  IN  IF size * 3 >= RightMargin \/ holds
        THEN [w EXCEPT !.childValues = <<>>, !.multiline = TRUE]
        ELSE [filled EXCEPT !.addChildValues = FALSE, !.multiline = length >= RightMargin]

WriteArray(w, t, p) ==
  LET m == IsMultiline(w, t, p)
      hasChildValue == m.childValues /= <<>> \/ ~m.multiline
      Write(x, i) ==
        IF hasChildValue THEN Written(x, Comma(i) \o x.childValues[i])
                         ELSE WriteValue(Written(x, Comma(i)), t, Append(p, Element(i - 1)))
  IN  IF Size(t, p) = 0 THEN PushValue(w, <<Word("["), Word("]")>>)
      ELSE Written(FoldLeft(Write, Written(m, <<Word("[")>>), [i \in 1..Size(t, p) |-> i]),
                   <<Word("]")>>)

WriteObject(w, t, p) ==
  LET names == MemberNames(t, p)
      Write(x, i) ==
        WriteValue(Written(x, Comma(i) \o << <<"text", Quoted(names[i])>>, Word(":") >>),
                   t, Append(p, Member(names[i])))
  IN  IF names = <<>> THEN PushValue(w, <<Word("{"), Word("}")>>)
      ELSE Written(FoldLeft(Write, Written(w, <<Word("{")>>), [i \in DOMAIN names |-> i]),
                   <<Word("}")>>)

WriteValue(w, t, p) ==
  CASE t[p] = Array -> WriteArray(w, t, p)
    [] t[p] = Object -> WriteObject(w, t, p)
    [] OTHER -> PushValue(w, <<TextOf(t[p])>>)

ToStyledString(t) ==
  WriteValue([document |-> <<>>, childValues |-> <<>>, addChildValues |-> FALSE,
              multiline |-> FALSE], t, <<>>).document

-----------------------------------------------------------------------------
(* What JSON says, to compare the reader with *)

(* A double without a fraction is written with a point. *)
IsWhole(v) == TypeOf(v) = "real" /\ v[2] % 2 = 0

(* Every text of a value, its members in any order *)
RECURSIVE Texts(_, _)
Texts(t, p) ==
  LET Joined(parts) == FlattenSeq([i \in DOMAIN parts |-> Comma(i) \o parts[i]])
      Orders == {o \in [1..Size(t, p) -> Children(t, p)] : IsInjective(o)}
      Named(c) == {<< <<"text", QuotedN(Last(c)[2])>>, Word(":") >> \o s : s \in Texts(t, c)}
      All == IF t[p] = Object THEN UNION {Named(c) : c \in Children(t, p)}
                              ELSE UNION {Texts(t, c) : c \in Children(t, p)}
      Parts(o) == {s \in [DOMAIN o -> All] :
                     \A i \in DOMAIN o : s[i] \in IF t[p] = Object THEN Named(o[i])
                                                                   ELSE Texts(t, o[i])}
  IN  CASE t[p] = Object ->
             {<<Word("{")>> \o Joined(s) \o <<Word("}")>> : s \in UNION {Parts(o) : o \in Orders}}
        [] t[p] = Array ->
             LET o == [i \in 1..Size(t, p) |-> Append(p, Element(i - 1))]
             IN  {<<Word("[")>> \o Joined(s) \o <<Word("]")>> : s \in Parts(o)}
        [] OTHER -> {<<IF IsWhole(t[p]) THEN Number(t[p][2] < 0, Digits(Abs(t[p][2]) \div 2), "zero")
                                       ELSE TextOf(t[p])>>}

(* A comment may stand anywhere, but the reader does not look for one before a *)
(* colon and between the brackets of an empty array.                           *)
Commented(words) ==
  {InsertAt(words, i, Comment) : i \in
     {j \in 1..Len(words) + 1 :
        ~ \/ j \in DOMAIN words /\ words[j] = Word(":")
          \/ j \in DOMAIN words /\ j > 1 /\ words[j] = Word("]") /\ words[j - 1] = Word("[")}}

(* A member that is given twice counts as it is given last. *)
GivenTwice(t) ==
  {<<Word("{"), <<"text", QuotedN(Last(c)[2])>>, Word(":")>> \o s \o <<Word(",")>> \o Tail(words) :
     c \in Children(t, <<>>), words \in Texts(t, <<>>),
     s \in {<<Word("null")>>, <<Word("["), Word("true"), Word("]")>>,
            <<Word("{"), <<"text", <<Byte(97)>>>>, Word(":"), Word("["), Word("]"), Word("}")>>}}

Documents(t) ==
  Texts(t, <<>>) \cup UNION {Commented(words) : words \in Texts(t, <<>>)}
                 \cup (IF t[<<>>] = Object THEN GivenTwice(t) ELSE {})

(* UTF-8: six bits in each byte but the first, whose first bits say how many *)
Utf8(cp) ==
  LET n == Min({k \in 1..4 : cp < Pow2(<<7, 11, 16, 21>>[k])})
  IN  [i \in 1..n |-> IF i = 1 THEN <<0, 192, 224, 240>>[n] + (cp \div 64 ^ (n - 1))
                               ELSE 128 + ((cp \div 64 ^ (n - i)) % 64)]

Utf16(cp) ==
  IF cp < 65536 THEN <<Unit(cp)>>
  ELSE <<Unit(55296 + ((cp - 65536) \div 1024)), Unit(56320 + ((cp - 65536) % 1024))>>

-----------------------------------------------------------------------------
Init ==
  /\ \/ \E t \in Trees : intended = t /\ doc \in Documents(t)
     \/ \E cp \in CodePoints : /\ intended = [p \in {<<>>} |-> <<"string", Utf8(cp)>>]
                               /\ doc = << <<"text", Utf16(cp)>> >>
     \/ intended = NoTree /\ doc \in Garbage
  /\ InitReader
  /\ configured = NoTree /\ printed = <<>> /\ answer = NoAnswer

ReadStep == Parse /\ UNCHANGED <<intended, configured, printed, answer>>

(* tdoa::setParams prints what it is given. *)
PrintConfiguration ==
  /\ pc = "parsed" /\ configured = NoTree
  /\ configured' = tree
  /\ printed' = ToStyledString(tree)
  /\ pc' = "printed"
  /\ UNCHANGED <<doc, pos, tree, path, open, ok, errors, depth, replaced, intended, answer>>

(* ... and asks for members, each in the type it needs. *)
Ask ==
  /\ pc = "printed"
  /\ \E accessor \in Accessors, name \in {<<97>>, <<98>>} :
       LET v == Get(tree, <<>>, name, Default)
       IN  \E a \in (IF v = Throws THEN {Throws} ELSE Answers(accessor, v)) :
             answer' = [accessor |-> accessor, name |-> name, is |-> a]
  /\ pc' = "asked"
  /\ UNCHANGED <<doc, pos, tree, path, open, ok, errors, depth, replaced, intended,
                 configured, printed>>

(* The text that was printed is the configuration of the next start. *)
ReadBack ==
  /\ pc = "printed"
  /\ doc' = printed /\ pos' = 0 /\ tree' = NullTree /\ path' = <<>> /\ open' = <<>>
  /\ pc' = "value" /\ ok' = TRUE /\ errors' = 0 /\ depth' = 0 /\ replaced' = FALSE
  /\ UNCHANGED <<intended, configured, printed, answer>>

Next == ReadStep \/ PrintConfiguration \/ Ask \/ ReadBack

Spec == Init /\ [][Next]_vars
-----------------------------------------------------------------------------
Reading == {"value", "returned", "member", "separator", "recover"}

(* Types.  The parts of a value hang together: what has a name is in an object,  *)
(* what has an index in an array without gaps; a container that is written over  *)
(* leaves nothing behind (swapPayload).                                          *)
TypeOK ==
  /\ pos \in 0..Len(doc) /\ pc \in Reading \cup {"thrown", "failed", "parsed", "printed", "asked"}
  /\ ok \in BOOLEAN /\ replaced \in BOOLEAN /\ errors \in Nat /\ depth \in 0..StackLimit
  /\ path \in DOMAIN tree
  /\ \A p \in DOMAIN tree :
       p /= <<>> =>
         /\ Front(p) \in DOMAIN tree
         /\ tree[Front(p)] = IF Last(p)[1] = "name" THEN Object ELSE Array
         /\ Last(p)[1] = "index" /\ Last(p)[2] > 0 =>
              Append(Front(p), Element(Last(p)[2] - 1)) \in DOMAIN tree

(* A document written for a value is read as that value, whatever the order of   *)
(* its members, with a comment almost anywhere and a member given twice          *)
(* (Reader::readObject, readArray, decodeNumber, decodeString).                  *)
ReadAsIntended ==
  pc \in {"failed", "parsed"} /\ configured = NoTree /\ intended /= NoTree =>
    pc = "parsed" /\ tree = intended

(* What the reader takes for more than JSON: a lone minus sign is zero, and      *)
(* after a member without a name an object may end with a comma.                 *)
Tolerated(words) ==
  \/ Number(TRUE, <<>>, "none") \in Range(words)
  \/ \E i \in 2..Len(words) - 1 : words[i] = Word(",") /\ words[i + 1] = Word("}")
                                  /\ <<"text", <<>>>> \in Range(words)

(* A document that is accepted begins with a text of the value it is read as,    *)
(* but for what is tolerated and for members that were given twice.              *)
AcceptedIsJson ==
  pc = "parsed" /\ intended = NoTree =>
    LET words == SelectSeq(doc, LAMBDA word : word /= Comment)
    IN  replaced \/ Tolerated(words) \/ \E s \in Texts(tree, <<>>) : IsPrefix(s, words)

(* parse returns false exactly if there is an error to show (getFormattedErrorMessages). *)
ErrorsAreReported ==
  /\ pc = "returned" => (ok <=> errors = 0)
  /\ pc = "failed" => errors > 0

(* stackDepth_g is the number of values around the one that is read: it is not   *)
(* counted down on the way out of a syntax error, but no value is read after one. *)
DepthIsNesting ==
  pc \in {"value", "member", "separator"} =>
    /\ errors = 0 /\ depth = Len(open)
    /\ Len(open) = IF pc = "value" THEN Len(path) ELSE Len(path) + 1

(* The reader in every step: it reads what was meant, takes nothing else for     *)
(* JSON, tells of every error, and counts its depth right.                       *)
ReaderInv ==
  TypeOK /\ ReadAsIntended /\ AcceptedIsJson /\ ErrorsAreReported /\ DepthIsNesting

(* Numbers a text may change the type of: a double without a fraction *)
SameValue(v, w) ==
  \/ v = w
  \/ TypeOf(v) = "real" /\ TypeOf(w) \in {"int", "uint"} /\ v[2] = 2 * w[2]

(* What is printed is the configuration: read again it is the same value, but    *)
(* that a double may have become an integer and a name ends at a zero            *)
(* (valueToQuotedString of name.c_str()).                                        *)
RoundTrip ==
  configured /= NoTree /\ pc \in {"failed", "parsed"} =>
    \/ \E p \in DOMAIN configured : p /= <<>> /\ Last(p)[1] = "name" /\ 0 \in Range(Last(p)[2])
    \/ /\ pc = "parsed" /\ DOMAIN tree = DOMAIN configured
       /\ \A p \in DOMAIN tree : SameValue(configured[p], tree[p])

Halves(v) == IF TypeOf(v) = "real" THEN v[2] ELSE 2 * v[2]

(* The limit of a long type as a double is one too high: a double of that value  *)
(* passes the test of its range, and what comes out is not defined.              *)
AtRoundedLimit(type, v) ==
  TypeOf(v) = "real" /\ type \in {"int64", "uint64"} /\ v[2] = 2 * (Max(IntRange[type]) + 1)

(* A number that is asked for as an integer is answered as it was written, or    *)
(* without its fraction, or not at all: never as another number.  An integer in  *)
(* the range of the type is always answered.  A container is never converted.    *)
AnswersAreExact ==
  pc = "asked" /\ intended /= NoTree =>
    LET v == Get(intended, <<>>, answer.name, Default)
        type == answer.accessor
    IN  IF v = Throws \/ IsContainer(v) THEN answer.is = Throws
        ELSE type \in DOMAIN IntRange /\ TypeOf(v) \in {"int", "uint", "real"}
                /\ ~AtRoundedLimit(type, v) =>
             LET n == Truncated(Halves(v))
             IN  IF answer.is = Throws THEN n \notin IntRange[type] \/ 2 * n /= Halves(v)
                                       ELSE n \in IntRange[type] /\ answer.is[2] = n
=============================================================================
