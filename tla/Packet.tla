------------------------------- MODULE Packet -------------------------------
(***************************************************************************)
(* The NCP packet: its builder (packet_write, packet_add_field,            *)
(* packet_add_param_*, packet_append, packet_write_complete), packet_clone,*)
(* its receivers (packet_receive, packet_file_read) and its reader         *)
(* (packet_read, packet_get_next_field, packet_get_next_param and the      *)
(* getters by name), all in packets.c, over one word buffer.               *)
(*                                                                         *)
(* A packet is a header, fields and a footer; a field is a name, the       *)
(* distance to the next field, an id and its parameters; a parameter is a  *)
(* name, a word that holds its type and its size, and its data.  The       *)
(* builder fills the distances in afterwards, so the buffer makes sense    *)
(* only when all calls fit together.  The model keeps the words of the     *)
(* buffer, except those of the header no call here looks at again.         *)
(***************************************************************************)
EXTENDS Integers, Sequences, SequencesExt

CONSTANTS Names,       \* names of fields and parameters, numbers here
          Ids,         \* explicit field ids
          Lengths,     \* byte lengths of data parameters
          Incoming,    \* contents of the packets that may be received
          Deliveries,  \* bound of the model: words one recv may deliver of a body
          MinWords,    \* words a packet is created with: 74
          Headroom,    \* words a reallocation adds: 64
          MaxWords,    \* bound of the model: words of a packet
          AnyState     \* callers add a field, or complete the packet, without
                       \* packet_write or packet_append before it

HeaderSize == 8
FieldSize == 3
FooterSize == 2
Foot == -1  \* PACKET_FOOT_VALUE, a word no distance or size is equal to
SizeWord == 2  \* PACKET_INDEX_SIZE, counting from 0
NextNumber == -1  \* the field id that asks for the next number
IntType == 0
StringType == 2
TypeFactor == 16777216  \* a type is shifted left by 24

(* What a packet contains: fields with their parameters; a number is one word *)
Parameter == {p \in [name : Int, type : {IntType, StringType}, data : Seq(Int)] :
                p.type = IntType => Len(p.data) = 1}
Contents == Seq([name : Int, id : Nat, params : Seq(Parameter)])

ASSUME PacketAssumption ==
  /\ Names \subseteq Nat \ {0} /\ Ids \subseteq Nat /\ Lengths \subseteq Nat
  /\ Incoming \subseteq Contents
  /\ Deliveries \subseteq Nat \ {0}
  /\ MinWords \in Nat /\ MinWords >= HeaderSize + FooterSize
  /\ Headroom \in Nat /\ MaxWords \in MinWords..TypeFactor - 1
  /\ AnyState \in BOOLEAN

VARIABLES buffer,     \* packet_buffer, word by word
          size,       \* packet_buffer_size, in words
          state, position,
          tag,        \* write_position_tag
          autoId,     \* write_field_id
          received,   \* rx_byte_position, in words
          readOk,     \* read_ok
          fieldData, fieldIndex, paramData, paramIndex,
          content,    \* history: what the caller has put in or was sent
          arriving    \* history: the content of the packet being received

writer == <<position, tag, autoId>>
fieldTable == <<fieldData, fieldIndex>>
paramTable == <<paramData, paramIndex>>
reader == <<readOk, fieldTable, paramTable>>
vars == <<buffer, size, state, writer, received, reader, content, arriving>>

TypeSize(type, n) == n + type * TypeFactor
Words(bytes) == (bytes \div 4) + (IF bytes % 4 = 0 THEN 0 ELSE 1)

(* A content is a sequence of fields with their parameters. *)
Param(name, type, data) == [name |-> name, type |-> type, data |-> data]

(* The words from position at on are replaced by those of s. *)
Write(b, at, s) == [i \in DOMAIN b |-> IF i \in at..at + Len(s) - 1 THEN s[i - at + 1] ELSE b[i]]

Init ==
  /\ buffer = [i \in 0..MaxWords - 1 |-> 0]
  /\ size = MinWords
  /\ state = "created"
  /\ position = 0 /\ tag = 0 /\ autoId = 0
  /\ received = 0
  /\ readOk = FALSE
  /\ fieldData = <<>> /\ fieldIndex = 0 /\ paramData = <<>> /\ paramIndex = 0
  /\ content = <<>> /\ arriving = <<>>

(* The reading ends: read_ok is cleared.  The tables, which are not looked  *)
(* at any more before packet_read makes new ones, are emptied here.         *)
ReadingEnds == /\ readOk' = FALSE
               /\ fieldData' = <<>> /\ fieldIndex' = 0
               /\ paramData' = <<>> /\ paramIndex' = 0

Writing == state \in {"writing", "fieldWritten"}

-----------------------------------------------------------------------------
(* Mutant of PacketWrite: the reader is not stopped. *)
PacketWriteReadable ==
  /\ buffer' = [buffer EXCEPT ![SizeWord] = HeaderSize]
  /\ position' = HeaderSize /\ tag' = 0 /\ autoId' = 0
  /\ state' = "writing"
  /\ content' = <<>>
  /\ UNCHANGED <<size, received, reader, arriving>>

(* packet_write: the header is written, the next field is the first.       *)
PacketWrite ==
  /\ buffer' = [buffer EXCEPT ![SizeWord] = HeaderSize]
  /\ position' = HeaderSize /\ tag' = 0 /\ autoId' = 0
  /\ state' = "writing"
  /\ ReadingEnds
  /\ content' = <<>>
  /\ UNCHANGED <<size, received, arriving>>

(* packet_check_buffer_size: words are added if they do not suffice. *)
Reserve(required) ==
  /\ required <= MaxWords
  /\ size' = IF size < required THEN required + Headroom ELSE size

(* The distance of the last field, up to position pos, is filled in. *)
Linked(b, pos) == IF tag > 0 THEN [b EXCEPT ![tag] = pos - tag + 1] ELSE b

(* packet_add_field: it calls packet_write when the packet is COMPLETE, but *)
(* after position and tag were read into locals.                           *)
AddField(name, id) ==
  LET first == state = "complete"
      number == IF id # NextNumber THEN id ELSE IF first THEN 1 ELSE autoId + 1
      header == IF first THEN [buffer EXCEPT ![SizeWord] = HeaderSize] ELSE buffer
  IN  /\ Writing \/ AnyState
      /\ Reserve(position + FieldSize + FooterSize)
      /\ buffer' = Write(Linked(header, position), position, <<name, 0, number>>)
      /\ tag' = position + 1
      /\ autoId' = IF id = NextNumber THEN number ELSE IF first THEN 0 ELSE autoId
      /\ position' = position + FieldSize
      /\ state' = "fieldWritten"
      /\ IF first THEN ReadingEnds ELSE UNCHANGED reader
      /\ content' = Append(IF first THEN <<>> ELSE content,
                           [name |-> name, id |-> number, params |-> <<>>])
      /\ UNCHANGED <<received, arriving>>

AddParam(p) ==
  /\ state = "fieldWritten"
  /\ buffer' = Write(buffer, position, <<p.name, TypeSize(p.type, 2 + Len(p.data))>> \o p.data)
  /\ position' = position + 2 + Len(p.data)
  /\ content' = [content EXCEPT ![Len(content)].params = Append(@, p)]
  /\ UNCHANGED <<state, tag, autoId, received, reader, arriving>>

(* packet_add_param_int *)
AddParamInt(name) ==
  /\ Reserve(position + 3 + FooterSize)
  /\ AddParam(Param(name, IntType, <<7>>))

(* Mutant of AddParamData: the footer is not reserved. *)
AddParamDataOnly(name, length) ==
  /\ Reserve(position + 2 + Words(length))
  /\ AddParam(Param(name, StringType, [i \in 1..Words(length) |-> 9]))

(* packet_add_param_data: a length in bytes is rounded up to words.  What  *)
(* the bytes after the last one hold is left out.                          *)
AddParamData(name, length) ==
  /\ Reserve(position + 2 + Words(length) + FooterSize)
  /\ AddParam(Param(name, StringType, [i \in 1..Words(length) |-> 9]))

(* packet_write_complete, which packet_send calls too *)
WriteComplete ==
  /\ Writing \/ (AnyState /\ state # "complete")
  /\ buffer' = [Write(Linked(buffer, position), position, <<0, Foot>>)
                  EXCEPT ![SizeWord] = position + FooterSize]
  /\ position' = position + FooterSize
  /\ state' = "complete"
  /\ UNCHANGED <<size, tag, autoId, received, reader, content, arriving>>

-----------------------------------------------------------------------------
(* The positions of a table's items, from first on: each item gives the     *)
(* position after it, until last is met or jumped over.  (The code does not *)
(* leave its loop at a distance of 0, which here ends the table.)           *)
Walk(first, last, after) ==
  LET rows[s \in 0..MaxWords] ==
        IF s = last \/ after[s] \notin s + 1..last THEN <<>> ELSE <<s>> \o rows[after[s]]
  IN  rows[first]

(* packet_scan_fields *)
ScanFields ==
  LET after == [s \in 0..MaxWords - 2 |-> buffer[s + 1] + s]
      starts == Walk(HeaderSize, buffer[SizeWord] - FooterSize, after)
      Row(s) == [name |-> buffer[s], id |-> buffer[s + 2], start |-> s, end |-> after[s]]
  IN  [i \in 1..Len(starts) |-> Row(starts[i])]

(* packet_scan_params *)
ScanParams(field) ==
  LET length == [s \in 0..MaxWords - 2 |-> buffer[s + 1] % TypeFactor]
      after == [s \in 0..MaxWords - 2 |-> length[s] + s]
      starts == Walk(field.start + FieldSize, field.end, after)
      Row(s) == [name |-> buffer[s], type |-> buffer[s + 1] \div TypeFactor,
                 start |-> s, len |-> length[s] - 2]
  IN  [i \in 1..Len(starts) |-> Row(starts[i])]

(* packet_read *)
Read ==
  /\ state = "complete"
  /\ position' = HeaderSize
  /\ paramData' = <<>> /\ paramIndex' = 0
  /\ readOk' = TRUE
  /\ fieldData' = ScanFields /\ fieldIndex' = 0
  /\ UNCHANGED <<buffer, size, state, tag, autoId, received, content, arriving>>

(* packet_get_next_field *)
NextField ==
  /\ readOk
  /\ fieldIndex < Len(fieldData)
  /\ paramData' = ScanParams(fieldData[fieldIndex + 1]) /\ paramIndex' = 0
  /\ fieldIndex' = fieldIndex + 1
  /\ UNCHANGED <<buffer, size, state, writer, received, readOk, fieldData, content, arriving>>

(* packet_get_next_param *)
NextParam ==
  /\ readOk
  /\ paramIndex < Len(paramData)
  /\ paramIndex' = paramIndex + 1
  /\ UNCHANGED <<buffer, size, state, writer, received, readOk, fieldTable, paramData,
                 content, arriving>>

(* packet_get_named_param: the first parameter of that name, if any        *)
NamedParam(name) ==
  {i \in DOMAIN paramData : /\ readOk
                            /\ paramData[i].name = name
                            /\ \A j \in 1..i - 1 : paramData[j].name # name}

(* packet_get_named_typed_param, and with it the getters for each type.    *)
(* Of another type, a parameter is not found; the field that the warning   *)
(* about it names, which is the next one, is left out.                     *)
TypedParam(name, type) == {i \in NamedParam(name) : paramData[i].type = type}

(* packet_get_int_param_def *)
IntParamDef(name, default) ==
  IF TypedParam(name, IntType) = {} THEN default
  ELSE buffer[paramData[CHOOSE i \in TypedParam(name, IntType) : TRUE].start + 2]

(* packet_get_int_param_spec3: the upper limit is looked at first *)
IntParamSpec(name, default, lower, upper) ==
  LET value == IntParamDef(name, default)
  IN  CASE value > upper -> upper
        [] value <= upper /\ value < lower -> lower
        [] OTHER -> value

(* packet_get_string_param_def: a pointer into the packet *)
StringParamDef(name, default) ==
  IF TypedParam(name, StringType) = {} THEN default
  ELSE paramData[CHOOSE i \in TypedParam(name, StringType) : TRUE].start + 2

(* json_create_from_packet_impl reads the packet through, to print it, and  *)
(* does not end the reading: the caller who was reading is at the end.     *)
PacketPrint ==
  LET fields == ScanFields
      params == IF fields = <<>> THEN <<>> ELSE ScanParams(fields[Len(fields)])
  IN  /\ state = "complete"
      /\ position' = HeaderSize
      /\ readOk' = TRUE
      /\ fieldData' = fields /\ fieldIndex' = Len(fields)
      /\ paramData' = params /\ paramIndex' = Len(params)
      /\ UNCHANGED <<buffer, size, state, tag, autoId, received, content, arriving>>

(* packet_read_complete *)
ReadComplete ==
  /\ readOk
  /\ ReadingEnds
  /\ UNCHANGED <<buffer, size, state, writer, received, content, arriving>>

(* Mutant of AppendAux: the packet is continued after its footer. *)
AppendAfterFooter ==
  LET fields == ScanFields
      last == fields[Len(fields)]
  IN  IF fields = <<>>
        THEN /\ state' = "writing"
             /\ position' = HeaderSize /\ tag' = 0 /\ autoId' = 0
        ELSE /\ state' = "fieldWritten"
             /\ position' = buffer[SizeWord]
             /\ tag' = last.start + 1 /\ autoId' = last.id

(* packet_append_aux: continues after the last field *)
AppendAux ==
  LET fields == ScanFields
      last == fields[Len(fields)]
  IN  IF fields = <<>>
        THEN /\ state' = "writing"
             /\ position' = HeaderSize /\ tag' = 0 /\ autoId' = 0
        ELSE /\ state' = "fieldWritten"
             /\ position' = last.end
             /\ tag' = last.start + 1 /\ autoId' = last.id

(* packet_append on a COMPLETE packet reads it through and ends the reading *)
PacketAppend ==
  /\ state = "complete"
  /\ AppendAux
  /\ ReadingEnds
  /\ UNCHANGED <<buffer, size, received, content, arriving>>

-----------------------------------------------------------------------------
(* The layout of a packet, by which an incoming one was written *)
EncodeParam(p) == <<p.name, TypeSize(p.type, 2 + Len(p.data))>> \o p.data
EncodeField(f) ==
  LET params == FlattenSeq([i \in 1..Len(f.params) |-> EncodeParam(f.params[i])])
  IN  <<f.name, FieldSize + Len(params), f.id>> \o params
Encode(c) == FlattenSeq([i \in 1..Len(c) |-> EncodeField(c[i])]) \o <<0, Foot>>

(* packet_receive_header: the header is copied, room is made for the rest  *)
ReceiveHeader(c) ==
  LET total == HeaderSize + Len(Encode(c))
  IN  /\ state # "rxHdrOk"
      /\ total <= MaxWords
      /\ size' = IF size < total THEN total ELSE size
      /\ buffer' = [buffer EXCEPT ![SizeWord] = total]
      /\ state' = "rxHdrOk"
      /\ ReadingEnds
      /\ received' = HeaderSize
      /\ arriving' = c
      /\ UNCHANGED <<writer, content>>

(* packet_receive: recv delivers n more words; the last ones complete it *)
ReceiveBody(n) ==
  /\ state = "rxHdrOk"
  /\ received + n <= buffer[SizeWord]
  /\ buffer' = Write(buffer, received, SubSeq(Encode(arriving), received - HeaderSize + 1,
                                              received - HeaderSize + n))
  /\ received' = received + n
  /\ IF received + n = buffer[SizeWord]
       THEN state' = "complete" /\ content' = arriving /\ arriving' = <<>>
       ELSE UNCHANGED <<state, content, arriving>>
  /\ UNCHANGED <<size, writer, reader>>

(* packet_file_read: until the body is complete the state is an error. Of  *)
(* a file that ends early nobody looks at what was read of the body.       *)
FileRead(c) ==
  LET total == HeaderSize + Len(Encode(c))
      header == [buffer EXCEPT ![SizeWord] = total]
  IN  /\ total <= MaxWords
      /\ size' = IF size < total THEN total ELSE size
      /\ \/ /\ buffer' = Write(header, HeaderSize, Encode(c))
            /\ state' = "complete"
            /\ content' = c
         \/ /\ buffer' = header
            /\ state' = "freadError"
            /\ content' = <<>>
      /\ ReadingEnds
      /\ arriving' = <<>>
      /\ UNCHANGED <<writer, received>>

(* packet_clone: the caller goes on with the new packet *)
Clone ==
  /\ state = "complete"
  /\ position' = 0 /\ tag' = 0 /\ autoId' = 0
  /\ received' = 0
  /\ ReadingEnds
  /\ UNCHANGED <<buffer, size, state, content, arriving>>

Build == \/ PacketWrite \/ WriteComplete \/ PacketAppend \/ Clone
         \/ \E name \in Names : \/ \E id \in Ids \cup {NextNumber} : AddField(name, id)
                                \/ AddParamInt(name)
                                \/ \E length \in Lengths : AddParamData(name, length)
Consult == Read \/ PacketPrint \/ NextField \/ NextParam \/ ReadComplete
Receive == \/ \E c \in Incoming : ReceiveHeader(c) \/ FileRead(c)
           \/ \E n \in Deliveries : ReceiveBody(n)

Next == Build \/ Consult \/ Receive

Spec == Init /\ [][Next]_vars

-----------------------------------------------------------------------------
(* Types: the indices of the reader never leave its tables. *)
TypeOK ==
  /\ buffer \in [0..MaxWords - 1 -> Int]
  /\ size \in MinWords..MaxWords + Headroom
  /\ state \in {"created", "writing", "fieldWritten", "complete", "rxHdrOk", "freadError"}
  /\ position \in 0..MaxWords /\ tag \in 0..MaxWords - 1
  /\ autoId \in Nat
  /\ received \in 0..MaxWords
  /\ readOk \in BOOLEAN
  /\ fieldIndex \in 0..Len(fieldData) /\ paramIndex \in 0..Len(paramData)

(* A COMPLETE packet, however it was built, continued or received, and     *)
(* whatever its buffer held before, is the encoding of what the caller put *)
(* in: distances, sizes and footer, all filled in by calls of their own,   *)
(* fit together.                                                           *)
BuiltAsEncoded ==
  state = "complete" =>
    LET e == Encode(content)
    IN  /\ buffer[SizeWord] = HeaderSize + Len(e)
        /\ \A i \in 1..Len(e) : buffer[HeaderSize + i - 1] = e[i]

Fields(c) == [i \in 1..Len(c) |-> [name |-> c[i].name, id |-> c[i].id]]
DataOf(row) == [i \in 1..row.len |-> buffer[row.start + 1 + i]]
Params(rows) == [i \in 1..Len(rows) |-> Param(rows[i].name, rows[i].type, DataOf(rows[i]))]

(* A reader is served from tables made by earlier calls while the packet   *)
(* may be rewritten, continued or received anew in between: as long as     *)
(* reads are answered, the tables are those of the content of the packet,  *)
(* and parameters are those of the field read last.                        *)
ReaderCurrent ==
  readOk =>
    /\ state = "complete"
    /\ Fields(fieldData) = Fields(content)
    /\ Params(paramData) = IF fieldIndex = 0 THEN <<>> ELSE content[fieldIndex].params

(* Room for the footer is always kept, so packet_write_complete, which     *)
(* does not look at the size of the buffer, stays inside it, and so does   *)
(* the rest of a packet whose header was received.                         *)
NothingOverruns ==
  /\ state \in {"writing", "fieldWritten"} => position + FooterSize <= size
  /\ state \in {"rxHdrOk", "complete"} => buffer[SizeWord] <= size

(* In every state of the packet its positions stay inside the buffer.      *)
PacketInv == TypeOK /\ NothingOverruns

(* Whoever asks for a parameter by its name gets that of the field read    *)
(* last, also when names occur twice or with another type, and the default *)
(* when there is none or the packet cannot be read; a limited number is    *)
(* inside its limits, the default too.                                     *)
NamedLookup ==
  \A name \in Names \cup {0} :
    LET asked == IF readOk /\ fieldIndex > 0 THEN content[fieldIndex].params ELSE <<>>
        first == SelectInSeq(asked, LAMBDA p : p.name = name)
        found(type) == first > 0 /\ asked[first].type = type
    IN  /\ IntParamDef(name, -1) = IF found(IntType) THEN asked[first].data[1] ELSE -1
        /\ IntParamSpec(name, -1, 0, 6) \in 0..6
        /\ LET at == StringParamDef(name, -1)
           IN  IF found(StringType)
                 THEN [i \in 1..Len(asked[first].data) |-> buffer[at + i - 1]] = asked[first].data
                 ELSE at = -1

(* What is read, in sequence or by name, is what the packet contains.      *)
ReadAsEncoded == ReaderCurrent /\ NamedLookup
=============================================================================
