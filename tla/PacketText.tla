----------------------------- MODULE PacketText -----------------------------
(***************************************************************************)
(* The text of a packet (json.c), which packet_print shows: written piece  *)
(* by piece into a buffer that grows, over lines that are indented.        *)
(* A piece is what one call of json_append adds: what it says, how many    *)
(* characters it has without the end of its line, and whether it ends one. *)
(***************************************************************************)
EXTENDS Integers, Sequences, SequencesExt

CONSTANTS Printed,      \* contents of packets that may be printed
          ChunkSize,    \* CHUNK_SIZE: 256
          SbufLen,      \* SBUF_LEN: 1024
          MaxLost       \* bound of the model: pieces that are lost in one text

(* What is printed: a parameter has one value, or an array of them, of at     *)
(* most width characters each.                                                *)
PrintedContents ==
  Seq([name : Nat, id : Nat,
       params : Seq([type : {"string", "int", "data"}, name : Nat, length : Nat, width : Nat])])

ASSUME PacketTextAssumption == /\ ChunkSize \in Nat \ {0} /\ SbufLen \in Nat \ {0}
                           /\ MaxLost \in Nat
                           /\ Printed \subseteq PrintedContents

Indent == 2
NTrunc == 4
MinTrunc == 15

VARIABLES writing,  \* idle | writing | returned | crashed
          shown,    \* the packet and the format: what is converted
          pieces,   \* the calls of json_append that are to come
          json,     \* the Json: length of the text, bufsiz, indent, midline
          said,     \* what the text says, as long as nothing is lost
          lost      \* history: pieces that are missing or garbled

textVars == <<writing, shown, pieces, json, said, lost>>

-----------------------------------------------------------------------------
(* The calls of json_append *)

Piece(says, length, line) == [says |-> says, length |-> length, line |-> line]
Mark(m) == Piece(<<"mark", m>>, 1, FALSE)
MarkLine(m) == Piece(<<"mark", m>>, 1, TRUE)
Header(length) == Piece(<<"header">>, length, TRUE)

NameLength == 4   \* of packet_key_to_str

(* ctime_r reads eight bytes where an int is: a date, or one beyond all years, *)
(* for which it returns NULL and "%s" shows "(null)" on a line that goes on.   *)
TimeString == {Header(18 + 24), Piece(<<"header">>, 18 + 6, FALSE)}

PacketHeader(time) ==
  <<MarkLine("{"), Header(16 + NameLength), Header(16), Header(18), Header(22), Header(28),
    Header(26), time>>

(* Mutant of Elements: one element is dropped from the end of a long array. *)
ElementsOneLess(p, format) ==
  LET trunc == format = "truncate" /\ p.length >= MinTrunc
      Element(i) ==
        IF trunc /\ i = NTrunc THEN <<Piece(<<"more">>, 4, FALSE)>>
        ELSE IF trunc /\ i > NTrunc /\ i <= p.length - NTrunc THEN <<>>
        ELSE <<Piece(<<"value", i>>, p.width + 1, FALSE)>>
  IN  FlattenSeq([i \in 1..p.length |-> Element(i - 1)])

(* json_append_vector: an element and its comma or bracket are one piece, so   *)
(* an array without elements is not closed                                     *)
Elements(p, format) ==
  LET trunc == format = "truncate" /\ p.length >= MinTrunc
      Element(i) ==
        IF trunc /\ i = NTrunc THEN <<Piece(<<"more">>, 4, FALSE)>>
        ELSE IF trunc /\ i > NTrunc /\ i < p.length - NTrunc THEN <<>>
        ELSE <<Piece(<<"value", i>>, p.width + 1, FALSE)>>
  IN  FlattenSeq([i \in 1..p.length |-> Element(i - 1)])

AppendVector(p, format) ==
  <<Piece(<<"param", p.name>>, NameLength + 8, FALSE)>> \o Elements(p, format)

AppendScalar(p) ==
  <<Piece(<<"param", p.name>>, NameLength + 3, FALSE),
    Piece(<<"value", 0>>, IF p.type = "string" THEN p.length + 2 ELSE p.width, FALSE)>>

AppendParams(f, format) ==
  LET Separated(i) == (IF i = 1 THEN <<>> ELSE <<Mark(",")>>)
                      \o IF f.params[i].type = "data" THEN AppendVector(f.params[i], format)
                                                      ELSE AppendScalar(f.params[i])
  IN  FlattenSeq([i \in DOMAIN f.params |-> Separated(i)])
      \o IF f.params = <<>> THEN <<>> ELSE <<Piece(<<"mark", "end">>, 0, TRUE)>>

AppendField(f, format) ==
  <<Piece(<<"mark", "FIELD">>, 8, TRUE), MarkLine("{"),
    Piece(<<"field", f.name>>, 16 + NameLength, TRUE), Piece(<<"id", f.id>>, 16, TRUE)>>
  \o AppendParams(f, format) \o <<MarkLine("}")>>

(* json_create_from_packet_impl *)
FromPacket(c, format, time) ==
  PacketHeader(time) \o FlattenSeq([i \in DOMAIN c |-> AppendField(c[i], format)]) \o <<Mark("}")>>

Incomplete == <<Piece(<<"incomplete">>, 19, TRUE)>>

-----------------------------------------------------------------------------
(* The buffer *)

(* json_adjust: what bufsiz has to be for a piece.  The length is counted with *)
(* the newline character, which "\r\n" takes the place of.                     *)
Adjusted(j, p) ==
  LET length == p.length + (IF p.line THEN 1 ELSE 0)
      newSize == j.length + 1 + j.indent + length + 2
  IN  IF newSize > j.bufsiz THEN newSize + ChunkSize ELSE j.bufsiz

Nonnegative(n) == IF n < 0 THEN 0 ELSE n

(* json_append *)
Appended(j, p) ==
  LET indent == IF p.says = <<"mark", "}">> THEN Nonnegative(j.indent - Indent) ELSE j.indent
      spaces == IF j.midline THEN 0 ELSE indent
  IN  [length |-> j.length + spaces + p.length + (IF p.line THEN 2 ELSE 0),
       bufsiz |-> Adjusted(j, p),
       indent |-> IF p.says = <<"mark", "{">> THEN indent + Indent ELSE indent,
       midline |-> ~p.line]

(* json_create: without memory the caller writes through a null pointer *)
JsonCreate == json' = [length |-> 0, bufsiz |-> ChunkSize, indent |-> 0, midline |-> FALSE]

TextInit ==
  /\ writing = "idle"
  /\ shown = [packet |-> <<>>, format |-> "full", complete |-> FALSE]
  /\ json = [length |-> 0, bufsiz |-> ChunkSize, indent |-> 0, midline |-> FALSE]
  /\ pieces = <<>> /\ said = <<>> /\ lost = 0

(* json_create_from_packet, json_full_create_from_packet *)
CreateFromPacket(c, format) ==
  /\ writing = "idle"
  /\ JsonCreate
  /\ shown' = [packet |-> c, format |-> format, complete |-> TRUE]
  /\ \E time \in TimeString : pieces' = FromPacket(c, format, time)
  /\ writing' = "writing" /\ said' = <<>> /\ lost' = 0

(* packet_read refuses a packet that is not COMPLETE *)
CreateFromIncomplete ==
  /\ writing = "idle"
  /\ JsonCreate
  /\ shown' = [packet |-> <<>>, format |-> "full", complete |-> FALSE]
  /\ pieces' = Incomplete
  /\ writing' = "writing" /\ said' = <<>> /\ lost' = 0

CreateFails ==
  /\ writing = "idle"
  /\ writing' = "crashed"
  /\ UNCHANGED <<shown, pieces, json, said, lost>>

(* A piece that does not fit into sbuf is formatted a second time, with a list *)
(* of arguments that was used up: what it then says is undefined.              *)
TooLong(p) == p.length + (IF p.line THEN 1 ELSE 0) > SbufLen - 1

AppendPiece ==
  /\ writing = "writing" /\ pieces /= <<>> /\ ~TooLong(Head(pieces))
  /\ json' = Appended(json, Head(pieces))
  /\ said' = IF lost > 0 THEN said ELSE Append(said, Head(pieces).says)
  /\ pieces' = Tail(pieces)
  /\ UNCHANGED <<writing, shown, lost>>

AppendGarbled ==
  /\ writing = "writing" /\ pieces /= <<>> /\ TooLong(Head(pieces))
  /\ \/ /\ \E length \in {2, Head(pieces).length} :
             json' = Appended(json, [Head(pieces) EXCEPT !.length = length])
        /\ UNCHANGED writing
     \/ writing' = "crashed" /\ UNCHANGED json
  /\ said' = <<>> /\ lost' = lost + 1
  /\ pieces' = Tail(pieces)
  /\ UNCHANGED shown

(* realloc fails: the error is returned, and no caller looks at it *)
AppendFails ==
  /\ writing = "writing" /\ pieces /= <<>> /\ lost < MaxLost
  /\ Adjusted(json, Head(pieces)) > json.bufsiz
  /\ pieces' = Tail(pieces)
  /\ said' = <<>> /\ lost' = lost + 1
  /\ UNCHANGED <<writing, shown, json>>

ReturnText ==
  /\ writing = "writing" /\ pieces = <<>>
  /\ writing' = "returned"
  /\ UNCHANGED <<shown, pieces, json, said, lost>>

(* packet_print frees what it has shown. *)
JsonFree ==
  /\ writing = "returned"
  /\ writing' = "idle"
  /\ shown' = [packet |-> <<>>, format |-> "full", complete |-> FALSE]
  /\ JsonCreate
  /\ said' = <<>> /\ lost' = 0
  /\ UNCHANGED pieces

TextNext ==
  \/ \E c \in Printed, format \in {"full", "truncate"} : CreateFromPacket(c, format)
  \/ CreateFromIncomplete \/ CreateFails
  \/ AppendPiece \/ AppendGarbled \/ AppendFails \/ ReturnText \/ JsonFree

-----------------------------------------------------------------------------
(* Indentation, text, the end of the line and of the string stay inside the    *)
(* buffer, wherever its end falls, also when it could not grow in between.     *)
TextFits == json.length + 1 <= json.bufsiz

(* What a reader looks for: fields with their ids, parameters, and of a long   *)
(* array its first and last elements, when it was asked to be shortened        *)
ValuesOf(p, format) ==
  LET Indices(a, b) == [i \in 1..b - a |-> <<"value", a + i - 1>>]
  IN  IF p.type # "data" THEN <<<<"value", 0>>>>
      ELSE IF format = "full" \/ p.length < MinTrunc THEN Indices(0, p.length)
      ELSE Indices(0, NTrunc) \o <<<<"more">>>> \o Indices(p.length - NTrunc, p.length)

Facts(c, format) ==
  FlattenSeq([i \in DOMAIN c |->
    <<<<"field", c[i].name>>, <<"id", c[i].id>>>>
    \o FlattenSeq([k \in DOMAIN c[i].params |->
         <<<<"param", c[i].params[k].name>>>> \o ValuesOf(c[i].params[k], format)])])

(* Whether a call of json_append tells something of the packet, and what a text *)
(* tells of it                                                                 *)
Tells(says) == says[1] \notin {"mark", "header"}
Told(text) == FlattenSeq([i \in 1..Len(text) |-> IF Tells(text[i]) THEN <<text[i]>> ELSE <<>>])

(* The text shows every field and parameter of the packet once, in the order   *)
(* of the packet, each array from its first to its last element, and what is   *)
(* left out is a middle part of a long array, marked - unless memory ran out   *)
(* or a string was too long for the formatting buffer, as the code has it.     *)
PrintedInFull ==
  writing = "returned" /\ lost = 0 /\ shown.complete =>
    Told(said) = Facts(shown.packet, shown.format)

(* The text is whole and inside its buffer.                                    *)
TextIsWhole == TextFits /\ PrintedInFull
=============================================================================
