------------------------------ MODULE MCPacket ------------------------------
(* Small packets, and texts that end at every place of their buffer.       *)
EXTENDS NcpPackets

(* A field with two parameters of one name and two types, and two fields   *)
(* of which only the first has a parameter.  The builder makes the packet  *)
(* with no field.                                                          *)
SomePackets ==
  {<<[name |-> 1, id |-> 3, params |-> <<Param(1, StringType, <<>>), Param(1, IntType, <<5>>)>>]>>,
   <<[name |-> 1, id |-> 2, params |-> <<Param(1, StringType, <<>>)>>],
     [name |-> 1, id |-> 1, params |-> <<>>]>>}

Text(type, name, length, width) ==
  [type |-> type, name |-> name, length |-> length, width |-> width]

(* Strings up to and beyond the formatting buffer, and arrays around the   *)
(* lengths where they are shortened, one empty                             *)
SomeTexts ==
  {<<>>, <<[name |-> 1, id |-> 1, params |-> <<>>]>>} \cup
  {<<[name |-> 1, id |-> 1, params |-> <<Text("string", 1, n, 0), Text("int", 2, 1, 11)>>],
     [name |-> 1, id |-> 2, params |-> <<>>]>> : n \in 0..34 \cup 148..151} \cup
  {<<[name |-> 2, id |-> 1, params |-> <<Text("data", 1, n, w)>>],
     [name |-> 1, id |-> 7, params |-> <<Text("int", 1, 1, 1), Text("data", 3, n, w)>>]>> :
     n \in {0, 1, 4, 9, 14, 15, 16}, w \in 1..3}
=============================================================================
