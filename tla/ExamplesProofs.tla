---------------------------- MODULE ExamplesProofs ----------------------------
(***************************************************************************)
(* ExamplesInv, for every number of segments, captures and receives.  What *)
(* was sent and not printed is what the program is about to print and what *)
(* it has not received (FlowInv); at each call of an example that asks for *)
(* a status, for one measurement or to set the time, the rest of the       *)
(* answers is known (StatusInv, SegmentInv, TimeInv), and so is what is    *)
(* left at the end of the calls.  What   *)
(* is said of the scripts themselves (Shape, StatusShape, SegmentShape) is *)
(* proved first, from their text.                                          *)
(***************************************************************************)
EXTENDS Examples, FiniteSetTheorems, WellFoundedInduction, TLAPS

Calls == {"create", "connect", "connect_for_3_s", "if_connected", "ask_node", "ask_once",
          "ask_triggered", "ask_loop", "receive", "receive_node", "receive_any", "print",
          "until_last", "for_ever", "repeat", "read", "fi", "disconnect", "create_again",
          "free", "exit"}

Connecting == {"connect", "connect_for_3_s"}
Receiving == {"receive", "receive_node", "receive_any"}
Parting == {"fi", "create_again", "free", "exit"}

(* What the order of the calls is in every example, s that of example e *)
ShapeAt(e, s, i) ==
  LET L == Len(s)
  IN  /\ s[i] = "create" => i = 1
      /\ s[i] \in Connecting => i = 2
      /\ s[i] = "exit" <=> i = L
      /\ s[i] \in {"create_again", "free"} <=> i = L - 1
      /\ s[i] = "create_again" => e # "ncp"
      /\ s[i] = "free" => e = "ncp"
      /\ i < L => (s[i + 1] = "print" <=> s[i] \in Receiving)
      /\ s[i] = "until_last" => i > 4 /\ s[i - 2] = "receive" /\ e # "ncp"
      /\ s[i] = "for_ever" => i > 5 /\ s[i - 3] = "receive" /\ e # "ncp"
      /\ s[i] = "repeat" => e = "ncp" /\ i = 10
      /\ s[i] = "receive_any" => e = "ncp" /\ i = 8
      /\ s[i] = "receive_node" => e = "ncp" /\ i = 5
      /\ s[i] = "if_connected" =>
           /\ i = 3
           /\ \E j \in 4..L - 2 : s[j] = "fi" /\ \A k \in 1..L : s[k] = "fi" => k = j
      /\ e = "ncp" /\ i > 10 => s[i] \in Parting \cup {"disconnect"}
      /\ s[i] = "disconnect" => \A j \in i + 1..L : s[j] \in Parting
Shape(e, s) ==
  /\ s \in Seq(Calls) /\ Len(s) \in Nat /\ Len(s) > 4
  /\ s[1] = "create" /\ s[2] \in Connecting
  /\ e = "ncp" => Len(s) = 14 /\ s[8] = "receive_any"
  /\ \A i \in 1..Len(s) : ShapeAt(e, s, i)

Asking == {"ask_node", "ask_once", "ask_triggered", "ask_loop"}
Jumping == {"until_last", "for_ever", "repeat", "if_connected"}

(* Where the examples ask for a status, and where for a measurement *)
NodeAt(e) == IF e = "ncp" THEN 4 ELSE 3
OnceAt(e) == IF e = "bdc" THEN 6 ELSE 3
StatusShape(e, s, i) ==
  LET a == NodeAt(e)
  IN  /\ s[i] = "ask_loop" => e = "ncp" /\ i = 7
      /\ i <= a => s[i] \notin Receiving /\ (s[i] \in Asking => i = a)
      /\ i = a => s[i] = "ask_node"
      /\ i = a + 1 => s[i] = IF e = "ncp" THEN "receive_node" ELSE "receive"
      /\ i = a + 2 => s[i] = "print"
      /\ e \in {"gps", "versions"} /\ i > a + 1 => s[i] \notin Receiving \cup Asking
      /\ s[i] \in Jumping => e \in {"bdc", "ncp"} /\ (i = 3 \/ i > 9)
      /\ s[i] \in Jumping /\ i = 3 => s[i] = "if_connected"
      /\ e = "ncp" /\ i = 3 => s[i] = "if_connected"
      /\ s[i] = "fi" => i > 9
SegmentShape(e, s, i) ==
  LET a == OnceAt(e)
  IN  /\ s[i] # "ask_loop"
      /\ s[i] \in {"ask_once", "ask_triggered"} <=> i = a
      /\ i = a => s[i] = IF e = "triggered" THEN "ask_triggered" ELSE "ask_once"
      /\ s[i] = "ask_node" => i = 3 /\ e = "bdc"
      /\ i \in {a + 1, a + 3} => s[i] = "receive"
      /\ s[i] \in Receiving => i \in {a + 1, a + 3} \/ (e = "bdc" /\ i = 4)
      /\ i \in {a + 2, a + 4} => s[i] = "print"
      /\ i = a + 5 <=> s[i] = "until_last"
      /\ s[i] \in Jumping => s[i] = "until_last"

NodePacket == Packet("node", 0, 0)
Ack == Packet("ack", 0, 0)
Data == {Packet("data", seg, nseg) : seg \in 0..MaxSegments, nseg \in 0..MaxSegments}
Answers == {NodePacket, Ack} \cup Data
Size == Len(Script[example])

(* The answers in a box, of which the first may be a link packet *)
In(box) == IF box # <<>> /\ Head(box) = Link THEN Tail(box) ELSE box
Coming == In(inbox) \o owed

(* Where the program is, with its channel and its clients *)
PlaceInv ==
  /\ example \in Programs /\ at \in 1..Size
  /\ channel \in {"none", "open", "refused", "closed"}
  /\ \A flag \in {active, lost, looping, held, misprint, crashed} : flag \in BOOLEAN
  /\ at = 1 => channel = "none"
  /\ at > 2 => channel # "none"
  /\ clients = IF at = 1 THEN 0 ELSE IF at < Size THEN 1 ELSE IF example = "ncp" THEN 0 ELSE 2
  /\ count \in 0..Receives
  /\ count < Receives \/ (example = "ncp" /\ at > 10)

(* What may be on the way to it *)
StreamInv ==
  /\ rx \in Answers \cup {Link, Blank}
  /\ inbox \in Seq(Answers \cup {Link, Torn}) /\ Len(inbox) <= IF lost THEN 3 ELSE 2
  /\ owed \in Seq(Answers) /\ unprinted \in Seq(Answers)
  /\ segment \in (0..MaxSegments) \X (0..MaxSegments)

(* While the node is there, what was sent and not printed is what the      *)
(* program is about to print and what it has not received.                 *)
FlowInv ==
  /\ (misprint => example = "versions") /\ ~crashed
  /\ \A i \in 1..Len(inbox) : inbox[i] \in Answers \/ (i = 1 /\ inbox[i] = Link)
  /\ unprinted = IF Op = "print" /\ rx \notin {Link, Blank} THEN <<rx>> \o In(inbox) ELSE In(inbox)
  /\ channel \in {"none", "refused"} => inbox = <<>> /\ owed = <<>> /\ rx = Blank
  /\ example = "ncp" /\ at \in {4, 5} => channel = "open"
  /\ channel = "closed" => \A i \in at..Size : Script[example][i] \in Parting

(* What is to come at each call of an example that asks for a status ...   *)
StatusInv ==
  example \in {"gps", "versions", "bdc", "ncp"} =>
    LET a == NodeAt(example)
    IN  /\ at <= 6 \/ example \in {"gps", "versions"} => ~looping
        /\ at <= a \/ at = a + 2 => Coming = <<>>
        /\ at = a + 1 /\ channel = "open" => Coming = <<NodePacket>>
        /\ example \in {"gps", "versions"} /\ at > a + 1 => Coming = <<>>

(* ... for one measurement: the segments after the one read last, and the  *)
(* captures after the first, which are left; a response in one packet never*)
(* sets seg and nseg ...                                                   *)
Rest(k, n) == SubSeq(Response(n), k, n)
Single(n) == n = 1 => segment = <<0, 0>>
SegmentInv ==
  example \in {"single", "triggered", "bdc"} =>
    LET a == OnceAt(example)
    IN  /\ ~looping
        /\ at <= a + 2 => segment = <<0, 0>>
        /\ at = a \/ (example # "bdc" /\ at < a) => Coming = <<>>
        /\ at > a + 5 => IF rx = Blank THEN Coming = <<>>
                         ELSE \E n \in 1..MaxSegments : Coming = LeftUnread(n)
        /\ channel = "open" =>
             /\ at = a + 1 => \E n \in 1..MaxSegments :
                                Coming = <<Ack>> \o (Response(n) \o LeftUnread(n))
             /\ at = a + 2 => \E n \in 1..MaxSegments : Coming = Response(n) \o LeftUnread(n)
             /\ at = a + 3 => \E n \in 1..MaxSegments : \E k \in 1..n :
                                Single(n) /\ Coming = Rest(k, n) \o LeftUnread(n)
             /\ at \in {a + 4, a + 5} =>
                  \E n \in 1..MaxSegments : \E k \in 1..n :
                    /\ Single(n) /\ rx = Response(n)[k]
                    /\ Coming = Rest(k + 1, n) \o LeftUnread(n)

(* ... and for the time, whose answer nobody receives.                     *)
TimeInv ==
  example = "set_time" =>
    /\ ~looping /\ (channel = "open" => rx = Link)
    /\ at <= 4 => Coming = <<>>
    /\ at > 4 => IF rx = Blank THEN Coming = <<>>
                 ELSE \E n \in 1..MaxSegments : Coming = LeftUnread(n)

ExamplesIInv == PlaceInv /\ StreamInv /\ (~lost => FlowInv /\ StatusInv /\ SegmentInv /\ TimeInv)

-----------------------------------------------------------------------------
(* The scripts, call by call                                               *)

LEMMA Joined ==
  ASSUME NEW T, NEW a \in Seq(T), NEW b \in Seq(T)
  PROVE  /\ a \o b \in Seq(T) /\ Len(a \o b) = Len(a) + Len(b)
         /\ \A i \in 1..Len(a) : (a \o b)[i] = a[i]
         /\ \A i \in 1..Len(b) : (a \o b)[Len(a) + i] = b[i]
OBVIOUS

LEMMA SameSeq ==
  ASSUME NEW T, NEW a \in Seq(T), NEW b \in Seq(T), Len(a) = Len(b),
         \A i \in 1..Len(a) : a[i] = b[i]
  PROVE  a = b
OBVIOUS

LEMMA JoinedIs ==
  ASSUME NEW T, NEW a \in Seq(T), NEW b \in Seq(T), NEW c \in Seq(T), Len(c) = Len(a) + Len(b),
         \A i \in 1..Len(a) : c[i] = a[i], \A i \in 1..Len(b) : c[Len(a) + i] = b[i]
  PROVE  a \o b = c
<1>1. a \o b \in Seq(T) /\ Len(a \o b) = Len(c) BY Joined
<1>2. ASSUME NEW i \in 1..Len(c) PROVE (a \o b)[i] = c[i]
  <2>1. Len(a) \in Nat /\ Len(b) \in Nat OBVIOUS
  <2>2. CASE i \in 1..Len(a) BY <2>2, Joined
  <2>3. CASE i \notin 1..Len(a)
    <3>1. i - Len(a) \in 1..Len(b) /\ i = Len(a) + (i - Len(a)) BY <2>1, <2>3
    <3>2. (a \o b)[Len(a) + (i - Len(a))] = b[i - Len(a)] BY <3>1, Joined
    <3> QED BY <3>1, <3>2
  <2> QED BY <2>2, <2>3
<1> QED BY <1>1, <1>2, SameSeq

LEMMA ConnectionIs == NodeConnection =
  <<"create", "connect", "disconnect", "create_again", "exit">>
<1> DEFINE a == <<"create", "connect">>
           b == <<"create", "connect", "disconnect", "create_again", "exit">>
<1>1. a \o Closing = b
  <2>1. a \in Seq(Calls) /\ Closing \in Seq(Calls) /\ b \in Seq(Calls)
    BY DEF Calls, Closing, Captured
  <2>2. Len(b) = Len(a) + Len(Closing) BY DEF Closing, Captured
  <2>3. \A i \in 1..Len(a) : b[i] = a[i] OBVIOUS
  <2>4. \A i \in 1..Len(Closing) : b[Len(a) + i] = Closing[i] BY DEF Closing, Captured
  <2> HIDE DEF a, b
  <2> QED BY <2>1, <2>2, <2>3, <2>4, JoinedIs
<1> QED BY <1>1 DEF NodeConnection

LEMMA GpsIs == ReadGps =
  <<"create", "connect", "ask_node", "receive", "print", "disconnect", "create_again",
    "exit">>
<1> DEFINE a == <<"create", "connect", "ask_node", "receive", "print">>
           b == <<"create", "connect", "ask_node", "receive", "print", "disconnect",
                 "create_again", "exit">>
<1>1. a \o Closing = b
  <2>1. a \in Seq(Calls) /\ Closing \in Seq(Calls) /\ b \in Seq(Calls)
    BY DEF Calls, Closing, Captured
  <2>2. Len(b) = Len(a) + Len(Closing) BY DEF Closing, Captured
  <2>3. \A i \in 1..Len(a) : b[i] = a[i] OBVIOUS
  <2>4. \A i \in 1..Len(Closing) : b[Len(a) + i] = Closing[i] BY DEF Closing, Captured
  <2> HIDE DEF a, b
  <2> QED BY <2>1, <2>2, <2>3, <2>4, JoinedIs
<1> QED BY <1>1 DEF ReadGps

LEMMA SingleIs == SingleTime =
  <<"create", "connect", "ask_once", "receive", "print", "receive", "print",
    "until_last", "disconnect", "create_again", "exit">>
<1> DEFINE a == <<"create", "connect", "ask_once">>
           b == <<"create", "connect", "ask_once", "receive", "print", "receive",
                 "print", "until_last">>
           c == <<"create", "connect", "ask_once", "receive", "print", "receive",
                 "print", "until_last", "disconnect", "create_again", "exit">>
<1>1. a \o Captured = b
  <2>1. a \in Seq(Calls) /\ Captured \in Seq(Calls) /\ b \in Seq(Calls)
    BY DEF Calls, Closing, Captured
  <2>2. Len(b) = Len(a) + Len(Captured) BY DEF Closing, Captured
  <2>3. \A i \in 1..Len(a) : b[i] = a[i] OBVIOUS
  <2>4. \A i \in 1..Len(Captured) : b[Len(a) + i] = Captured[i] BY DEF Closing, Captured
  <2> HIDE DEF a, b, c
  <2> QED BY <2>1, <2>2, <2>3, <2>4, JoinedIs
<1>2. b \o Closing = c
  <2>1. b \in Seq(Calls) /\ Closing \in Seq(Calls) /\ c \in Seq(Calls)
    BY DEF Calls, Closing, Captured
  <2>2. Len(c) = Len(b) + Len(Closing) BY DEF Closing, Captured
  <2>3. \A i \in 1..Len(b) : c[i] = b[i] OBVIOUS
  <2>4. \A i \in 1..Len(Closing) : c[Len(b) + i] = Closing[i] BY DEF Closing, Captured
  <2> HIDE DEF a, b, c
  <2> QED BY <2>1, <2>2, <2>3, <2>4, JoinedIs
<1> QED BY <1>1, <1>2 DEF SingleTime

LEMMA TriggeredIs == Triggered =
  <<"create", "connect", "ask_triggered", "receive", "print", "receive", "print",
    "until_last", "disconnect", "create_again", "exit">>
<1> DEFINE a == <<"create", "connect", "ask_triggered">>
           b == <<"create", "connect", "ask_triggered", "receive", "print", "receive",
                 "print", "until_last">>
           c == <<"create", "connect", "ask_triggered", "receive", "print", "receive",
                 "print", "until_last", "disconnect", "create_again", "exit">>
<1>1. a \o Captured = b
  <2>1. a \in Seq(Calls) /\ Captured \in Seq(Calls) /\ b \in Seq(Calls)
    BY DEF Calls, Closing, Captured
  <2>2. Len(b) = Len(a) + Len(Captured) BY DEF Closing, Captured
  <2>3. \A i \in 1..Len(a) : b[i] = a[i] OBVIOUS
  <2>4. \A i \in 1..Len(Captured) : b[Len(a) + i] = Captured[i] BY DEF Closing, Captured
  <2> HIDE DEF a, b, c
  <2> QED BY <2>1, <2>2, <2>3, <2>4, JoinedIs
<1>2. b \o Closing = c
  <2>1. b \in Seq(Calls) /\ Closing \in Seq(Calls) /\ c \in Seq(Calls)
    BY DEF Calls, Closing, Captured
  <2>2. Len(c) = Len(b) + Len(Closing) BY DEF Closing, Captured
  <2>3. \A i \in 1..Len(b) : c[i] = b[i] OBVIOUS
  <2>4. \A i \in 1..Len(Closing) : c[Len(b) + i] = Closing[i] BY DEF Closing, Captured
  <2> HIDE DEF a, b, c
  <2> QED BY <2>1, <2>2, <2>3, <2>4, JoinedIs
<1> QED BY <1>1, <1>2 DEF Triggered

LEMMA BdcIs == BdcSweep =
  <<"create", "connect", "ask_node", "receive", "print", "ask_once", "receive", "print",
    "receive", "print", "until_last", "disconnect", "create_again", "exit">>
<1> DEFINE a == <<"create", "connect", "ask_node", "receive", "print", "ask_once">>
           b == <<"create", "connect", "ask_node", "receive", "print", "ask_once",
                 "receive", "print", "receive", "print", "until_last">>
           c == <<"create", "connect", "ask_node", "receive", "print", "ask_once",
                 "receive", "print", "receive", "print", "until_last", "disconnect",
                 "create_again", "exit">>
<1>1. a \o Captured = b
  <2>1. a \in Seq(Calls) /\ Captured \in Seq(Calls) /\ b \in Seq(Calls)
    BY DEF Calls, Closing, Captured
  <2>2. Len(b) = Len(a) + Len(Captured) BY DEF Closing, Captured
  <2>3. \A i \in 1..Len(a) : b[i] = a[i] OBVIOUS
  <2>4. \A i \in 1..Len(Captured) : b[Len(a) + i] = Captured[i] BY DEF Closing, Captured
  <2> HIDE DEF a, b, c
  <2> QED BY <2>1, <2>2, <2>3, <2>4, JoinedIs
<1>2. b \o Closing = c
  <2>1. b \in Seq(Calls) /\ Closing \in Seq(Calls) /\ c \in Seq(Calls)
    BY DEF Calls, Closing, Captured
  <2>2. Len(c) = Len(b) + Len(Closing) BY DEF Closing, Captured
  <2>3. \A i \in 1..Len(b) : c[i] = b[i] OBVIOUS
  <2>4. \A i \in 1..Len(Closing) : c[Len(b) + i] = Closing[i] BY DEF Closing, Captured
  <2> HIDE DEF a, b, c
  <2> QED BY <2>1, <2>2, <2>3, <2>4, JoinedIs
<1> QED BY <1>1, <1>2 DEF BdcSweep

LEMMA LoopedIs == LoopedTime =
  <<"create", "connect", "ask_loop", "receive", "print", "receive", "print",
    "until_last", "for_ever", "disconnect", "create_again", "exit">>
<1> DEFINE a == <<"create", "connect", "ask_loop">>
           b == <<"create", "connect", "ask_loop", "receive", "print", "receive",
                 "print", "until_last">>
           c == <<"create", "connect", "ask_loop", "receive", "print", "receive",
                 "print", "until_last", "for_ever">>
           d == <<"create", "connect", "ask_loop", "receive", "print", "receive",
                 "print", "until_last", "for_ever", "disconnect", "create_again", "exit">>
<1>1. a \o Captured = b
  <2>1. a \in Seq(Calls) /\ Captured \in Seq(Calls) /\ b \in Seq(Calls)
    BY DEF Calls, Closing, Captured
  <2>2. Len(b) = Len(a) + Len(Captured) BY DEF Closing, Captured
  <2>3. \A i \in 1..Len(a) : b[i] = a[i] OBVIOUS
  <2>4. \A i \in 1..Len(Captured) : b[Len(a) + i] = Captured[i] BY DEF Closing, Captured
  <2> HIDE DEF a, b, c, d
  <2> QED BY <2>1, <2>2, <2>3, <2>4, JoinedIs
<1>2. b \o <<"for_ever">> = c
  <2>1. b \in Seq(Calls) /\ <<"for_ever">> \in Seq(Calls) /\ c \in Seq(Calls)
    BY DEF Calls, Closing, Captured
  <2>2. Len(c) = Len(b) + Len(<<"for_ever">>) BY DEF Closing, Captured
  <2>3. \A i \in 1..Len(b) : c[i] = b[i] OBVIOUS
  <2>4. \A i \in 1..Len(<<"for_ever">>) : c[Len(b) + i] = <<"for_ever">>[i] BY DEF Closing, Captured
  <2> HIDE DEF a, b, c, d
  <2> QED BY <2>1, <2>2, <2>3, <2>4, JoinedIs
<1>3. c \o Closing = d
  <2>1. c \in Seq(Calls) /\ Closing \in Seq(Calls) /\ d \in Seq(Calls)
    BY DEF Calls, Closing, Captured
  <2>2. Len(d) = Len(c) + Len(Closing) BY DEF Closing, Captured
  <2>3. \A i \in 1..Len(c) : d[i] = c[i] OBVIOUS
  <2>4. \A i \in 1..Len(Closing) : d[Len(c) + i] = Closing[i] BY DEF Closing, Captured
  <2> HIDE DEF a, b, c, d
  <2> QED BY <2>1, <2>2, <2>3, <2>4, JoinedIs
<1> QED BY <1>1, <1>2, <1>3 DEF LoopedTime

LEMMA ScriptIs ==
  ASSUME NEW e \in {"connection", "gps", "versions", "set_time", "single", "triggered", "bdc",
                   "looped", "monitor", "ncp"}
  PROVE  Shape(e, Script[e])
<1>1. CASE e = "connection"
  <2> DEFINE s == NodeConnection
  <2>1. Script[e] = s BY <1>1 DEF Script
  <2>2. s \in Seq(Calls) /\ Len(s) = 5 BY ConnectionIs DEF Calls
  <2>3. s[1] = "create" /\ s[2] \in Connecting /\ (e = "ncp" => s[8] = "receive_any")
    BY <1>1, ConnectionIs DEF Connecting
  <2>4. ASSUME NEW i \in 1..5 PROVE ShapeAt(e, s, i)
    <3>1. i \in {1, 2, 3, 4, 5} OBVIOUS
    <3> QED BY <1>1, <2>2, <3>1, ConnectionIs DEF ShapeAt, Connecting, Receiving, Parting
  <2> QED BY <1>1, <2>1, <2>2, <2>3, <2>4 DEF Shape
<1>2. CASE e = "gps"
  <2> DEFINE s == ReadGps
  <2>1. Script[e] = s BY <1>2 DEF Script
  <2>2. s \in Seq(Calls) /\ Len(s) = 8 BY GpsIs DEF Calls
  <2>3. s[1] = "create" /\ s[2] \in Connecting /\ (e = "ncp" => s[8] = "receive_any")
    BY <1>2, GpsIs DEF Connecting
  <2>4. ASSUME NEW i \in 1..8 PROVE ShapeAt(e, s, i)
    <3>1. i \in {1, 2, 3, 4, 5, 6, 7, 8} OBVIOUS
    <3> QED BY <1>2, <2>2, <3>1, GpsIs DEF ShapeAt, Connecting, Receiving, Parting
  <2> QED BY <1>2, <2>1, <2>2, <2>3, <2>4 DEF Shape
<1>3. CASE e = "versions"
  <2> DEFINE s == ReadGps
  <2>1. Script[e] = s BY <1>3 DEF Script, Versions, ReadGps
  <2>2. s \in Seq(Calls) /\ Len(s) = 8 BY GpsIs DEF Calls
  <2>3. s[1] = "create" /\ s[2] \in Connecting /\ (e = "ncp" => s[8] = "receive_any")
    BY <1>3, GpsIs DEF Connecting
  <2>4. ASSUME NEW i \in 1..8 PROVE ShapeAt(e, s, i)
    <3>1. i \in {1, 2, 3, 4, 5, 6, 7, 8} OBVIOUS
    <3> QED BY <1>3, <2>2, <3>1, GpsIs DEF ShapeAt, Connecting, Receiving, Parting
  <2> QED BY <1>3, <2>1, <2>2, <2>3, <2>4 DEF Shape
<1>4. CASE e = "set_time"
  <2> DEFINE s == SetTime
  <2>1. Script[e] = s BY <1>4 DEF Script
  <2>2. s \in Seq(Calls) /\ Len(s) = 10 BY DEF Calls, SetTime
  <2>3. s[1] = "create" /\ s[2] \in Connecting /\ (e = "ncp" => s[8] = "receive_any")
    BY <1>4 DEF Connecting, SetTime
  <2>4. ASSUME NEW i \in 1..10 PROVE ShapeAt(e, s, i)
    <3>1. i \in {1, 2, 3, 4, 5, 6, 7, 8, 9, 10} OBVIOUS
    <3> QED BY <1>4, <2>2, <3>1 DEF ShapeAt, Connecting, Receiving, Parting, SetTime
  <2> QED BY <1>4, <2>1, <2>2, <2>3, <2>4 DEF Shape
<1>5. CASE e = "single"
  <2> DEFINE s == SingleTime
  <2>1. Script[e] = s BY <1>5 DEF Script
  <2>2. s \in Seq(Calls) /\ Len(s) = 11 BY SingleIs DEF Calls
  <2>3. s[1] = "create" /\ s[2] \in Connecting /\ (e = "ncp" => s[8] = "receive_any")
    BY <1>5, SingleIs DEF Connecting
  <2>4. ASSUME NEW i \in 1..11 PROVE ShapeAt(e, s, i)
    <3>1. i \in {1, 2, 3, 4, 5, 6, 7, 8, 9, 10, 11} OBVIOUS
    <3> QED BY <1>5, <2>2, <3>1, SingleIs DEF ShapeAt, Connecting, Receiving, Parting
  <2> QED BY <1>5, <2>1, <2>2, <2>3, <2>4 DEF Shape
<1>6. CASE e = "triggered"
  <2> DEFINE s == Triggered
  <2>1. Script[e] = s BY <1>6 DEF Script
  <2>2. s \in Seq(Calls) /\ Len(s) = 11 BY TriggeredIs DEF Calls
  <2>3. s[1] = "create" /\ s[2] \in Connecting /\ (e = "ncp" => s[8] = "receive_any")
    BY <1>6, TriggeredIs DEF Connecting
  <2>4. ASSUME NEW i \in 1..11 PROVE ShapeAt(e, s, i)
    <3>1. i \in {1, 2, 3, 4, 5, 6, 7, 8, 9, 10, 11} OBVIOUS
    <3> QED BY <1>6, <2>2, <3>1, TriggeredIs DEF ShapeAt, Connecting, Receiving, Parting
  <2> QED BY <1>6, <2>1, <2>2, <2>3, <2>4 DEF Shape
<1>7. CASE e = "bdc"
  <2> DEFINE s == BdcSweep
  <2>1. Script[e] = s BY <1>7 DEF Script
  <2>2. s \in Seq(Calls) /\ Len(s) = 14 BY BdcIs DEF Calls
  <2>3. s[1] = "create" /\ s[2] \in Connecting /\ (e = "ncp" => s[8] = "receive_any")
    BY <1>7, BdcIs DEF Connecting
  <2>4. ASSUME NEW i \in 1..14 PROVE ShapeAt(e, s, i)
    <3>1. i \in {1, 2, 3, 4, 5, 6, 7, 8, 9, 10, 11, 12, 13, 14} OBVIOUS
    <3> QED BY <1>7, <2>2, <3>1, BdcIs DEF ShapeAt, Connecting, Receiving, Parting
  <2> QED BY <1>7, <2>1, <2>2, <2>3, <2>4 DEF Shape
<1>8. CASE e = "looped"
  <2> DEFINE s == LoopedTime
  <2>1. Script[e] = s BY <1>8 DEF Script
  <2>2. s \in Seq(Calls) /\ Len(s) = 12 BY LoopedIs DEF Calls
  <2>3. s[1] = "create" /\ s[2] \in Connecting /\ (e = "ncp" => s[8] = "receive_any")
    BY <1>8, LoopedIs DEF Connecting
  <2>4. ASSUME NEW i \in 1..12 PROVE ShapeAt(e, s, i)
    <3>1. i \in {1, 2, 3, 4, 5, 6, 7, 8, 9, 10, 11, 12} OBVIOUS
    <3> QED BY <1>8, <2>2, <3>1, LoopedIs DEF ShapeAt, Connecting, Receiving, Parting
  <2> QED BY <1>8, <2>1, <2>2, <2>3, <2>4 DEF Shape
<1>9. CASE e = "monitor"
  <2> DEFINE s == LoopedTime
  <2>1. Script[e] = s BY <1>9 DEF Script, LoopedTimeSweepMonitor
  <2>2. s \in Seq(Calls) /\ Len(s) = 12 BY LoopedIs DEF Calls
  <2>3. s[1] = "create" /\ s[2] \in Connecting /\ (e = "ncp" => s[8] = "receive_any")
    BY <1>9, LoopedIs DEF Connecting
  <2>4. ASSUME NEW i \in 1..12 PROVE ShapeAt(e, s, i)
    <3>1. i \in {1, 2, 3, 4, 5, 6, 7, 8, 9, 10, 11, 12} OBVIOUS
    <3> QED BY <1>9, <2>2, <3>1, LoopedIs DEF ShapeAt, Connecting, Receiving, Parting
  <2> QED BY <1>9, <2>1, <2>2, <2>3, <2>4 DEF Shape
<1>10. CASE e = "ncp"
  <2> DEFINE s == NcpExample
  <2>1. Script[e] = s BY <1>10 DEF Script
  <2>2. s \in Seq(Calls) /\ Len(s) = 14 BY DEF Calls, NcpExample
  <2>3. s[1] = "create" /\ s[2] \in Connecting /\ (e = "ncp" => s[8] = "receive_any")
    BY <1>10 DEF Connecting, NcpExample
  <2>4. ASSUME NEW i \in 1..14 PROVE ShapeAt(e, s, i)
    <3>1. i \in {1, 2, 3, 4, 5, 6, 7, 8, 9, 10, 11, 12, 13, 14} OBVIOUS
    <3> QED BY <1>10, <2>2, <3>1 DEF ShapeAt, Connecting, Receiving, Parting, NcpExample
  <2> QED BY <1>10, <2>1, <2>2, <2>3, <2>4 DEF Shape
<1> QED BY <1>1, <1>2, <1>3, <1>4, <1>5, <1>6, <1>7, <1>8, <1>9, <1>10

LEMMA StatusScripts ==
  ASSUME NEW e \in {"gps", "versions", "bdc", "ncp"}
  PROVE  \A i \in 1..Len(Script[e]) : StatusShape(e, Script[e], i)
<1>1. CASE e = "gps"
  <2> DEFINE s == ReadGps
  <2>1. Script[e] = s BY <1>1 DEF Script
  <2>2. Len(s) = 8 BY GpsIs
  <2>3. ASSUME NEW i \in 1..8 PROVE StatusShape(e, s, i)
    <3>1. i \in {1, 2, 3, 4, 5, 6, 7, 8} OBVIOUS
    <3> QED BY <1>1, <2>2, <3>1, GpsIs DEF StatusShape, NodeAt, Receiving, Asking, Jumping
  <2> QED BY <1>1, <2>1, <2>2, <2>3
<1>2. CASE e = "versions"
  <2> DEFINE s == ReadGps
  <2>1. Script[e] = s BY <1>2 DEF Script, Versions, ReadGps
  <2>2. Len(s) = 8 BY GpsIs
  <2>3. ASSUME NEW i \in 1..8 PROVE StatusShape(e, s, i)
    <3>1. i \in {1, 2, 3, 4, 5, 6, 7, 8} OBVIOUS
    <3> QED BY <1>2, <2>2, <3>1, GpsIs DEF StatusShape, NodeAt, Receiving, Asking, Jumping
  <2> QED BY <1>2, <2>1, <2>2, <2>3
<1>3. CASE e = "bdc"
  <2> DEFINE s == BdcSweep
  <2>1. Script[e] = s BY <1>3 DEF Script
  <2>2. Len(s) = 14 BY BdcIs
  <2>3. ASSUME NEW i \in 1..14 PROVE StatusShape(e, s, i)
    <3>1. i \in {1, 2, 3, 4, 5, 6, 7, 8, 9, 10, 11, 12, 13, 14} OBVIOUS
    <3> QED BY <1>3, <2>2, <3>1, BdcIs DEF StatusShape, NodeAt, Receiving, Asking, Jumping
  <2> QED BY <1>3, <2>1, <2>2, <2>3
<1>4. CASE e = "ncp"
  <2> DEFINE s == NcpExample
  <2>1. Script[e] = s BY <1>4 DEF Script
  <2>2. Len(s) = 14 BY DEF NcpExample
  <2>3. ASSUME NEW i \in 1..14 PROVE StatusShape(e, s, i)
    <3>1. i \in {1, 2, 3, 4, 5, 6, 7, 8, 9, 10, 11, 12, 13, 14} OBVIOUS
    <3> QED BY <1>4, <2>2, <3>1 DEF StatusShape, NodeAt, Receiving, Asking, Jumping, NcpExample
  <2> QED BY <1>4, <2>1, <2>2, <2>3
<1> QED BY <1>1, <1>2, <1>3, <1>4

LEMMA SegmentScripts ==
  ASSUME NEW e \in {"single", "triggered", "bdc"}
  PROVE  \A i \in 1..Len(Script[e]) : SegmentShape(e, Script[e], i)
<1>1. CASE e = "single"
  <2> DEFINE s == SingleTime
  <2>1. Script[e] = s BY <1>1 DEF Script
  <2>2. Len(s) = 11 BY SingleIs
  <2>3. ASSUME NEW i \in 1..11 PROVE SegmentShape(e, s, i)
    <3>1. i \in {1, 2, 3, 4, 5, 6, 7, 8, 9, 10, 11} OBVIOUS
    <3> QED BY <1>1, <2>2, <3>1, SingleIs DEF SegmentShape, OnceAt, Receiving, Asking, Jumping
  <2> QED BY <1>1, <2>1, <2>2, <2>3
<1>2. CASE e = "triggered"
  <2> DEFINE s == Triggered
  <2>1. Script[e] = s BY <1>2 DEF Script
  <2>2. Len(s) = 11 BY TriggeredIs
  <2>3. ASSUME NEW i \in 1..11 PROVE SegmentShape(e, s, i)
    <3>1. i \in {1, 2, 3, 4, 5, 6, 7, 8, 9, 10, 11} OBVIOUS
    <3> QED BY <1>2, <2>2, <3>1, TriggeredIs DEF SegmentShape, OnceAt, Receiving, Asking, Jumping
  <2> QED BY <1>2, <2>1, <2>2, <2>3
<1>3. CASE e = "bdc"
  <2> DEFINE s == BdcSweep
  <2>1. Script[e] = s BY <1>3 DEF Script
  <2>2. Len(s) = 14 BY BdcIs
  <2>3. ASSUME NEW i \in 1..14 PROVE SegmentShape(e, s, i)
    <3>1. i \in {1, 2, 3, 4, 5, 6, 7, 8, 9, 10, 11, 12, 13, 14} OBVIOUS
    <3> QED BY <1>3, <2>2, <3>1, BdcIs DEF SegmentShape, OnceAt, Receiving, Asking, Jumping
  <2> QED BY <1>3, <2>1, <2>2, <2>3
<1> QED BY <1>1, <1>2, <1>3

-----------------------------------------------------------------------------
(* Induction without a predicate, and what FlattenSeq makes *)

LEMMA NatSetMin ==
  ASSUME NEW T \in SUBSET Nat, T # {}
  PROVE  \E x \in T : \A y \in T : x <= y
<1> DEFINE U == {0..n : n \in T}
<1>1. IsWellFoundedOn(StrictSubsetOrdering(Nat), FiniteSubsetsOf(Nat)) 
 BY FS_StrictSubsetOrderingWellFounded
<1>2. U \subseteq FiniteSubsetsOf(Nat) 
  <2>1. SUFFICES ASSUME NEW n \in T PROVE 0..n \in FiniteSubsetsOf(Nat) OBVIOUS
  <2>2. n \in Nat /\ 0 \in Int /\ n \in Int OBVIOUS
  <2>3. IsFiniteSet(0..n) BY <2>2, FS_Interval
  <2> QED BY <2>2, <2>3 DEF FiniteSubsetsOf
<1>3. U # {} OBVIOUS
<1>4. PICK u \in U : \A v \in U : ~(<<v, u>> \in StrictSubsetOrdering(Nat))
  <2> HIDE DEF U
  <2> QED BY <1>1, <1>2, <1>3, WFMin
<1>5. PICK n \in T : u = 0..n OBVIOUS
<1>6. ASSUME NEW m \in T PROVE n <= m
  <2>1. ~(<<0..m, 0..n>> \in StrictSubsetOrdering(Nat)) BY <1>4, <1>5
  <2>2. n \in Nat /\ m \in Nat OBVIOUS
  <2>3. CASE m < n
    <3>1. 0..m \subseteq 0..n BY <2>2, <2>3
    <3>2. n \in 0..n /\ n \notin 0..m BY <2>2, <2>3
    <3>3. 0..m # 0..n BY <3>2
    <3>4. 0..m \in SUBSET Nat /\ 0..n \in SUBSET Nat BY <2>2
    <3> QED BY <2>1, <3>1, <3>3, <3>4 DEF StrictSubsetOrdering
  <2> QED BY <2>2, <2>3
<1> QED BY <1>6

(* Induction over the numbers, with a set in the place of a predicate *)
LEMMA NatSetInduction ==
  ASSUME NEW S, 0 \in S, \A n \in Nat : n \in S => n + 1 \in S
  PROVE  \A n \in Nat : n \in S
<1> SUFFICES ASSUME Nat \ S # {} PROVE FALSE OBVIOUS
<1>1. PICK x \in Nat \ S : \A y \in Nat \ S : x <= y BY NatSetMin
<1>2. x # 0 /\ x \in Nat BY <1>1
<1>3. x - 1 \in Nat BY <1>2
<1>4. x - 1 \in S BY <1>1, <1>3
<1> QED BY <1>1, <1>3, <1>4

Flattening(s) == CHOOSE f : f = [i \in 1..Len(s) |-> IF i = 1 THEN s[i] ELSE f[i-1] \o s[i]]

LEMMA FlattenIs ==
  ASSUME NEW s
  PROVE  FlattenSeq(s) = IF Len(s) = 0 THEN s ELSE Flattening(s)[Len(s)]
BY DEF FlattenSeq, Flattening

(* The function that FlattenSeq chooses exists. *)
LEMMA FlattenDef == ASSUME NEW T, NEW s \in Seq(Seq(T)) 
 PROVE Flattening(s) = [i \in 1..Len(s) |-> IF i = 1 THEN s[i] ELSE Flattening(s)[i-1] \o s[i]]
<1> DEFINE Good(n) == \E f : f = [i \in 1..n |-> IF i = 1 THEN s[i] ELSE f[i-1] \o s[i]]
           G == {n \in Nat : Good(n)}
<1>1. 0 \in G 
  <2>1. \A i : i \notin 1..0 OBVIOUS
  <2>2. <<>> = [i \in 1..0 |-> IF i = 1 THEN s[i] ELSE <<>>[i-1] \o s[i]] BY <2>1
  <2> QED BY <2>2
<1>2. ASSUME NEW n \in Nat, n \in G PROVE n + 1 \in G
  <2>1. PICK f : f = [i \in 1..n |-> IF i = 1 THEN s[i] ELSE f[i-1] \o s[i]] BY <1>2
  <2> DEFINE g == [i \in 1..n+1 |-> IF i <= n THEN f[i] ELSE IF i = 1 THEN s[i] ELSE f[i-1] \o s[i]]
  <2>2. ASSUME NEW i \in 1..n+1 PROVE g[i] = IF i = 1 THEN s[i] ELSE g[i-1] \o s[i]
    <3>1. CASE i <= n 
      <4>1. i \in 1..n BY <3>1
      <4>2. f[i] = IF i = 1 THEN s[i] ELSE f[i-1] \o s[i] BY <2>1, <4>1
      <4>3. i # 1 => i - 1 \in 1..n+1 /\ i - 1 <= n BY <4>1
      <4> QED BY <4>1, <4>2, <4>3
    <3>2. CASE ~(i <= n) 
      <4>1. i # 1 => i - 1 \in 1..n+1 /\ i - 1 <= n BY <3>2
      <4> QED BY <4>1, <3>2
    <3> QED BY <3>1, <3>2
  <2>3. g = [i \in 1..n+1 |-> IF i = 1 THEN s[i] ELSE g[i-1] \o s[i]] 
    <3> DEFINE h == [i \in 1..n+1 |-> IF i = 1 THEN s[i] ELSE g[i-1] \o s[i]]
    <3>1. DOMAIN g = 1..n+1 /\ DOMAIN h = 1..n+1 OBVIOUS
    <3>2. \A i \in 1..n+1 : g[i] = h[i] BY <2>2
    <3>3. g = h 
      <4> HIDE DEF g
      <4>1. g = [i \in 1..n+1 |-> g[i]] BY DEF g
      <4> QED BY <3>2, <4>1
    <3> QED BY <3>3
  <2>4. Good(n+1) 
    <3> HIDE DEF g
    <3> QED BY <2>3
  <2> HIDE DEF Good
  <2> QED BY <2>4
<1>3. \A n \in Nat : n \in G 
  <2> HIDE DEF G
  <2> QED BY <1>1, <1>2, NatSetInduction
<1>4. Len(s) \in Nat OBVIOUS
<1>5. \E f : f = [i \in 1..Len(s) |-> IF i = 1 THEN s[i] ELSE f[i-1] \o s[i]] BY <1>3, <1>4
<1> QED BY <1>5 DEF Flattening

LEMMA FlattenAt == ASSUME NEW T, NEW s \in Seq(Seq(T)), NEW i \in 1..Len(s)
  PROVE Flattening(s)[i] = IF i = 1 THEN s[i] ELSE Flattening(s)[i-1] \o s[i]
<1> DEFINE F == Flattening(s)
<1>1. F = [k \in 1..Len(s) |-> IF k = 1 THEN s[k] ELSE F[k-1] \o s[k]] BY FlattenDef
<1> HIDE DEF F
<1>2. F[i] = IF i = 1 THEN s[i] ELSE F[i-1] \o s[i] BY <1>1
<1> QED BY <1>2 DEF F

LEMMA FlattenEmpty == FlattenSeq(<<>>) = <<>>
BY DEF FlattenSeq

LEMMA FlatteningType == ASSUME NEW T, NEW s \in Seq(Seq(T))
  PROVE \A i \in 1..Len(s) : Flattening(s)[i] \in Seq(T)
<1> DEFINE F == Flattening(s)
           G == {n \in Nat : n \in 1..Len(s) => F[n] \in Seq(T)}
<1>0. ASSUME NEW i \in 1..Len(s) PROVE F[i] = IF i = 1 THEN s[i] ELSE F[i-1] \o s[i]
  BY FlattenAt
<1> HIDE DEF F
<1>1. 0 \in G OBVIOUS
<1>2. ASSUME NEW n \in Nat, n \in G PROVE n + 1 \in G
  <2> SUFFICES ASSUME n + 1 \in 1..Len(s) PROVE F[n + 1] \in Seq(T) OBVIOUS
  <2>1. s[n + 1] \in Seq(T) OBVIOUS
  <2>2. CASE n = 0 BY <2>1, <2>2, <1>0
  <2>3. CASE n # 0
    <3>1. F[n] \in Seq(T) BY <2>3, <1>2
    <3>2. n + 1 # 1 /\ n + 1 - 1 = n BY <2>3
    <3>4. F[n+1] = IF n + 1 = 1 THEN s[n+1] ELSE F[n + 1 - 1] \o s[n+1] BY <1>0
    <3>3. F[n+1] = F[n] \o s[n+1] BY <3>2, <3>4
    <3> QED BY <2>1, <3>1, <3>3
  <2> QED BY <2>2, <2>3
<1>3. \A n \in Nat : n \in G
  <2> HIDE DEF G
  <2> QED BY <1>1, <1>2, NatSetInduction
<1> QED BY <1>3 DEF F

(* FlattenSeq makes a sequence of sequences of elements one of elements. *)
LEMMA FlattenType == ASSUME NEW T, NEW s \in Seq(Seq(T)) PROVE FlattenSeq(s) \in Seq(T)
<1>1. CASE Len(s) = 0 
  <2>1. s = <<>> BY <1>1
  <2>2. <<>> \in Seq(T) OBVIOUS
  <2> QED BY <2>1, <2>2, FlattenEmpty
<1>2. CASE Len(s) # 0
  <2>1. Len(s) \in 1..Len(s) BY <1>2
  <2>2. FlattenSeq(s) = Flattening(s)[Len(s)] BY <1>2, FlattenIs
  <2> QED BY <2>1, <2>2, FlatteningType
<1> QED BY <1>1, <1>2



-----------------------------------------------------------------------------
(* Sequences *)

(* What was said of the scripts, of the call the program is at *)
LEMMA AtShape ==
  ASSUME PlaceInv
  PROVE  Shape(example, Script[example]) /\ ShapeAt(example, Script[example], at) /\ Size \in Nat
<1>1. Shape(example, Script[example]) BY ExamplesAssumption, ScriptIs DEF PlaceInv
<1> QED BY <1>1 DEF Shape, PlaceInv, Size

LEMMA AtStatus ==
  ASSUME PlaceInv, example \in {"gps", "versions", "bdc", "ncp"}
  PROVE  StatusShape(example, Script[example], at)
BY StatusScripts DEF PlaceInv, Size

LEMMA AtSegment ==
  ASSUME PlaceInv, example \in {"single", "triggered", "bdc"}
  PROVE  SegmentShape(example, Script[example], at)
BY SegmentScripts DEF PlaceInv, Size

LEMMA AnswerKinds ==
  /\ Link \notin Answers /\ Torn \notin Answers /\ Blank \notin Answers
  /\ Link # Torn /\ Link # Blank
  /\ NodePacket \in Answers /\ Ack \in Answers /\ NodePacket # Link /\ Ack # Link
  /\ \A p \in Answers : p.kind \in {"node", "ack", "data"}
<1>1. Link.kind = "link" /\ Torn.kind = "torn" /\ Blank.kind = "blank"
  BY DEF Link, Torn, Blank, Packet
<1>2. NodePacket.kind = "node" /\ Ack.kind = "ack" BY DEF NodePacket, Ack, Packet
<1>3. \A p \in Data : p.kind = "data" BY DEF Data, Packet
<1>4. \A p \in Answers : p.kind \in {"node", "ack", "data"}
  <2> HIDE DEF NodePacket, Ack, Data
  <2> QED BY <1>2, <1>3 DEF Answers
<1>5. NodePacket \in Answers /\ Ack \in Answers BY DEF Answers
<1> QED BY <1>1, <1>2, <1>4, <1>5

LEMMA ResponseType ==
  ASSUME NEW n \in 1..MaxSegments
  PROVE  /\ Response(n) \in Seq(Data) /\ Len(Response(n)) = n
         /\ n = 1 => Response(n)[1] = Packet("data", 0, 0)
         /\ n # 1 => \A k \in 1..n : Response(n)[k] = Packet("data", k, n)
<1>0. MaxSegments \in Nat BY ExamplesAssumption
<1>1. CASE n = 1
  <2>1. Packet("data", 0, 0) \in Data BY <1>0 DEF Data
  <2>2. Response(n) = <<Packet("data", 0, 0)>> BY <1>1 DEF Response
  <2> DEFINE d == Packet("data", 0, 0)
  <2>3. d \in Data /\ Response(n) = <<d>> BY <2>1, <2>2
  <2> HIDE DEF d, Data
  <2>4. <<d>> \in Seq(Data) /\ Len(<<d>>) = 1 /\ <<d>>[1] = d BY <2>3
  <2> QED BY <1>1, <2>3, <2>4 DEF d
<1>2. CASE n # 1
  <2>1. \A k \in 1..n : Packet("data", k, n) \in Data BY <1>0 DEF Data
  <2>2. Response(n) = [k \in 1..n |-> Packet("data", k, n)] BY <1>2 DEF Response
  <2>3. n \in Nat BY <1>0
  <2> HIDE DEF Packet, Data
  <2> QED BY <1>2, <2>1, <2>2, <2>3
<1> QED BY <1>1, <1>2

(* The sequence without its first element *)
LEMMA FirstOff ==
  ASSUME NEW T, NEW s \in Seq(T), NEW t \in Seq(T), s # <<>>
  PROVE  /\ s \o t # <<>> /\ Head(s \o t) = Head(s) /\ Tail(s \o t) = Tail(s) \o t
         /\ Head(s) \in T /\ Tail(s) \in Seq(T) /\ s = <<Head(s)>> \o Tail(s)
OBVIOUS

LEMMA LastOn ==
  ASSUME NEW T, NEW s \in Seq(T), NEW t \in Seq(T), t # <<>>
  PROVE  Append(s, Head(t)) \o Tail(t) = s \o t
OBVIOUS

LEMMA Narrowed ==
  ASSUME NEW T, NEW U, NEW s \in Seq(T), \A i \in 1..Len(s) : s[i] \in U
  PROVE  s \in Seq(U)
OBVIOUS

LEMMA JoinThree ==
  ASSUME NEW T, NEW s \in Seq(T), NEW t \in Seq(T), NEW u \in Seq(T)
  PROVE  s \o (t \o u) = (s \o t) \o u /\ <<>> \o s = s
OBVIOUS

(* What is in a box: a link packet is not counted, an answer is. *)
Boxes == {b \in Seq(Answers \cup {Link, Torn}) :
            \A i \in 1..Len(b) : b[i] \in Answers \/ (i = 1 /\ b[i] = Link)}

LEMMA InType == ASSUME NEW b \in Boxes PROVE In(b) \in Seq(Answers)
<1>1. b \in Seq(Answers \cup {Link, Torn}) BY DEF Boxes
<1>2. \A i \in 1..Len(b) : b[i] \in Answers \/ (i = 1 /\ b[i] = Link) BY DEF Boxes
<1>3. CASE b # <<>> /\ Head(b) = Link
  <2>1. In(b) = Tail(b) /\ Tail(b) \in Seq(Answers \cup {Link, Torn}) BY <1>1, <1>3 DEF In
  <2>2. \A i \in 1..Len(Tail(b)) : Tail(b)[i] \in Answers BY <1>1, <1>2, <1>3
  <2>3. Tail(b) \in Seq(Answers)
    <3> DEFINE t == Tail(b)
               T == Answers \cup {Link, Torn}
    <3>1. t \in Seq(T) /\ \A i \in 1..Len(t) : t[i] \in Answers BY <2>1, <2>2
    <3> HIDE DEF t, T, Answers
    <3>2. t \in Seq(Answers) BY ONLY <3>1
    <3> QED BY <3>2 DEF t
  <2> QED BY <2>1, <2>3
<1>4. CASE b = <<>> BY <1>4 DEF In
<1>5. CASE b # <<>> /\ Head(b) # Link
  <2>1. In(b) = b BY <1>5 DEF In
  <2>2. \A i \in 1..Len(b) : b[i] \in Answers BY <1>1, <1>2, <1>5
  <2> HIDE DEF Answers
  <2> QED BY <1>1, <2>1, <2>2
<1> QED BY <1>3, <1>4, <1>5

LEMMA InAdd ==
  ASSUME NEW b \in Boxes, NEW p \in Answers
  PROVE  Append(b, p) \in Boxes /\ In(Append(b, p)) = Append(In(b), p)
<1> DEFINE T == Answers \cup {Link, Torn}
<1>1. b \in Seq(T) /\ p \in T BY DEF Boxes
<1>2. \A i \in 1..Len(b) : b[i] \in Answers \/ (i = 1 /\ b[i] = Link) BY DEF Boxes
<1> HIDE DEF T
<1>3. Append(b, p) \in Seq(T) /\ Len(Append(b, p)) = Len(b) + 1 /\ Len(b) \in Nat
      /\ (\A i \in 1..Len(b) : Append(b, p)[i] = b[i]) /\ Append(b, p)[Len(b) + 1] = p
  BY <1>1
<1>4. Append(b, p) \in Boxes
  <2>1. ASSUME NEW i \in 1..Len(b) + 1
        PROVE  Append(b, p)[i] \in Answers \/ (i = 1 /\ Append(b, p)[i] = Link)
    <3>1. i \in 1..Len(b) \/ i = Len(b) + 1 BY <1>3
    <3> QED BY <1>2, <1>3, <3>1
  <2> QED BY <1>3, <2>1 DEF Boxes, T
<1>5. CASE b = <<>>
  <2>1. Append(b, p) # <<>> /\ Head(Append(b, p)) = p BY <1>1, <1>5
  <2>2. p # Link BY AnswerKinds
  <2> QED BY <1>4, <1>5, <2>1, <2>2 DEF In
<1>6. CASE b # <<>>
  <2>1. /\ Append(b, p) # <<>> /\ Head(Append(b, p)) = Head(b)
        /\ Tail(Append(b, p)) = Append(Tail(b), p)
    BY <1>1, <1>6
  <2> QED BY <1>4, <1>6, <2>1 DEF In
<1> QED BY <1>5, <1>6

LEMMA InTake ==
  ASSUME NEW b \in Boxes, b # <<>>
  PROVE  /\ Tail(b) \in Boxes /\ In(Tail(b)) = Tail(b)
         /\ Head(b) = Link => In(b) = In(Tail(b))
         /\ Head(b) # Link => /\ Head(b) \in Answers
                              /\ In(b) = b
<1> DEFINE T == Answers \cup {Link, Torn}
<1>1. b \in Seq(T) BY DEF Boxes
<1>2. \A i \in 1..Len(b) : b[i] \in Answers \/ (i = 1 /\ b[i] = Link) BY DEF Boxes
<1> HIDE DEF T
<1>3. Tail(b) \in Seq(T) /\ Len(Tail(b)) = Len(b) - 1 /\ Len(b) \in Nat /\ Len(b) >= 1
      /\ (\A i \in 1..Len(b) - 1 : Tail(b)[i] = b[i + 1]) /\ Head(b) = b[1]
  BY <1>1
<1>4. \A i \in 1..Len(Tail(b)) : Tail(b)[i] \in Answers BY <1>2, <1>3
<1>5. Tail(b) \in Boxes BY <1>3, <1>4 DEF Boxes, T
<1>6. Tail(b) # <<>> => Head(Tail(b)) # Link
  <2> SUFFICES ASSUME Tail(b) # <<>> PROVE Head(Tail(b)) # Link OBVIOUS
  <2>1. Head(Tail(b)) = Tail(b)[1] /\ 1 \in 1..Len(Tail(b)) BY <1>3
  <2> QED BY <1>4, <2>1, AnswerKinds
<1>7. In(Tail(b)) = Tail(b) BY <1>6 DEF In
<1>8. Head(b) # Link => Head(b) \in Answers BY <1>2, <1>3
<1> QED BY <1>5, <1>7, <1>8 DEF In

(* The rest of a response *)
LEMMA RestTypes ==
  ASSUME NEW n \in 1..MaxSegments
  PROVE  /\ Rest(1, n) = Response(n)
         /\ Rest(n + 1, n) = <<>>
         /\ \A k \in 1..n : /\ Rest(k, n) # <<>> /\ Head(Rest(k, n)) = Response(n)[k]
                            /\ Tail(Rest(k, n)) = Rest(k + 1, n)
<1>1. Response(n) \in Seq(Data) /\ Len(Response(n)) = n /\ n \in Nat
  BY ResponseType, ExamplesAssumption
<1> DEFINE s == Response(n)
<1> HIDE DEF s
<1>2. s \in Seq(Data) /\ Len(s) = n /\ n \in Nat BY <1>1 DEF s
<1>3. SubSeq(s, 1, n) = s BY <1>2
<1>4. SubSeq(s, n + 1, n) = <<>> BY <1>2
<1>5. ASSUME NEW k \in 1..n
      PROVE  /\ SubSeq(s, k, n) # <<>> /\ Head(SubSeq(s, k, n)) = s[k]
             /\ Tail(SubSeq(s, k, n)) = SubSeq(s, k + 1, n)
  <2> DEFINE u == SubSeq(s, k, n)
             v == SubSeq(s, k + 1, n)
  <2>1. u \in Seq(Data) /\ Len(u) = n - k + 1 /\ \A i \in 1..n - k + 1 : u[i] = s[k + i - 1] BY <1>2
  <2>2. v \in Seq(Data) /\ Len(v) = n - k /\ \A i \in 1..n - k : v[i] = s[k + i] BY <1>2
  <2> HIDE DEF u, v
  <2>3. u # <<>> /\ Head(u) = s[k] BY <2>1
  <2>4. Tail(u) \in Seq(Data) /\ Len(Tail(u)) = n - k BY <2>1, <2>3
  <2>5. \A i \in 1..n - k : Tail(u)[i] = u[i + 1] BY <2>1, <2>3
  <2>6. \A i \in 1..n - k : Tail(u)[i] = v[i] BY <2>1, <2>2, <2>5
  <2>7. Tail(u) = v BY <2>2, <2>4, <2>6, SameSeq
  <2> QED BY <2>3, <2>7 DEF u, v
<1> QED BY <1>3, <1>4, <1>5 DEF Rest, s


-----------------------------------------------------------------------------
(* The place of the program, with the node or without it *)

Flags == \A flag \in {active, lost, looping, held, misprint, crashed} : flag \in BOOLEAN

(* A call between connecting and closing leads to another one between them. *)
LEMMA PlaceMoves ==
  ASSUME PlaceInv, Flags', example' = example, clients' = clients, count' = count,
         at \in 2..Size - 2, at' \in 3..Size - 1, channel' \in {"open", "refused", "closed"},
         at' >= at \/ ~(example = "ncp" /\ at > 10)
  PROVE  PlaceInv'
<1>1. Size' = Size BY DEF Size
<1>2. Size \in Nat /\ at \in Nat /\ at' \in Nat /\ count \in Nat /\ Receives \in Nat
  BY AtShape, ExamplesAssumption DEF PlaceInv
<1>3. count < Receives \/ (example = "ncp" /\ at' > 10)
  <2>1. count < Receives \/ (example = "ncp" /\ at > 10) BY DEF PlaceInv
  <2> QED BY <1>2, <2>1
<1>4. clients = 1 BY <1>2 DEF PlaceInv
<1> QED BY <1>1, <1>2, <1>3, <1>4 DEF PlaceInv, Flags

(* A step without a call *)
LEMMA PlaceStays ==
  ASSUME PlaceInv, Flags', UNCHANGED <<example, at, clients, count>>,
         channel' = channel \/ (channel' = "open" /\ at = 2)
  PROVE  PlaceInv'
<1>1. Size' = Size BY DEF Size
<1> QED BY <1>1 DEF PlaceInv, Flags

LEMMA InsideIs ==
  ASSUME PlaceInv, Op \notin {"create", "create_again", "free", "exit"}
  PROVE  /\ at \in 2..Size - 2 /\ at + 1 \in 3..Size - 1 /\ Size \in Nat
         /\ Op \notin Connecting => at > 2 /\ channel # "none"
<1>1. /\ Shape(example, Script[example]) /\ ShapeAt(example, Script[example], at)
      /\ Size \in Nat /\ at \in 1..Size
  BY AtShape DEF PlaceInv
<1>2. at # Size /\ at # Size - 1 BY <1>1 DEF ShapeAt, Op, Size
<1>3. at # 1 BY <1>1 DEF Shape, Op
<1>4. Op \notin Connecting => at # 2 BY <1>1 DEF Shape, Op
<1> QED BY <1>1, <1>2, <1>3, <1>4 DEF PlaceInv

LEMMA FlagsAre == ASSUME PlaceInv PROVE Flags
BY DEF PlaceInv, Flags

LEMMA PlaceInit == ASSUME Init PROVE PlaceInv
<1>1. example \in {"connection", "gps", "versions", "set_time", "single", "triggered", "bdc",
                   "looped", "monitor", "ncp"} /\ Receives \in Nat \ {0}
  BY ExamplesAssumption DEF Init
<1>2. Size \in Nat /\ Size > 4 BY <1>1, ScriptIs DEF Shape, Size
<1>3. Flags BY DEF Init, Flags
<1>4. count = 0 /\ count \in 0..Receives /\ count < Receives BY <1>1 DEF Init
<1>5. at = 1 /\ at \in 1..Size /\ channel = "none" /\ clients = 0 /\ example \in Programs
  BY <1>2 DEF Init
<1> HIDE DEF Size
<1> QED BY <1>3, <1>4, <1>5 DEF PlaceInv, Flags

LEMMA PlaceCreate == ASSUME PlaceInv, Create PROVE PlaceInv'
<1>1. /\ Shape(example, Script[example]) /\ ShapeAt(example, Script[example], at)
      /\ Size \in Nat /\ at \in 1..Size /\ Size' = Size /\ Size > 4
  BY AtShape DEF PlaceInv, Create, Size, Shape
<1>2. example' = example /\ at' = at + 1 /\ clients' = clients + 1
      /\ channel' = channel /\ count' = count /\ Op \in {"create", "create_again"}
  BY DEF Create, Advance, Goto, reader
<1>3. Flags' BY FlagsAre DEF Create, Flags, node, reader
<1>4. CASE Op = "create"
  <2>1. at = 1 BY <1>1, <1>4 DEF ShapeAt, Op
  <2> QED BY <1>1, <1>2, <1>3, <2>1 DEF PlaceInv, Flags
<1>5. CASE Op = "create_again"
  <2>1. at = Size - 1 /\ example # "ncp" BY <1>1, <1>5 DEF ShapeAt, Op, Size
  <2> QED BY <1>1, <1>2, <1>3, <2>1 DEF PlaceInv, Flags
<1> QED BY <1>2, <1>4, <1>5

LEMMA PlaceFree == ASSUME PlaceInv, Free PROVE PlaceInv'
<1>1. /\ Shape(example, Script[example]) /\ ShapeAt(example, Script[example], at)
      /\ Size \in Nat /\ at \in 1..Size /\ Size' = Size /\ Size > 4
  BY AtShape DEF PlaceInv, Free, Size, Shape
<1>2. example' = example /\ at' = at + 1 /\ clients' = clients - 1
      /\ channel' = channel /\ count' = count /\ Op = "free"
  BY DEF Free, Advance, Goto, reader
<1>3. Flags' BY FlagsAre DEF Free, Flags, node, reader
<1>4. at = Size - 1 /\ example = "ncp" BY <1>1, <1>2 DEF ShapeAt, Op, Size
<1>5. Size = 14 BY <1>1, <1>4 DEF Shape, Size
<1> QED BY <1>1, <1>2, <1>3, <1>4, <1>5 DEF PlaceInv, Flags

(* Where an example goes on that is not connected: SelectInSeq finds its fi *)
LEMMA FiIs ==
  ASSUME PlaceInv, Op = "if_connected"
  PROVE  LET j == SelectInSeq(Script[example], LAMBDA op : op = "fi")
         IN  j \in 4..Size - 2 /\ Script[example][j] = "fi"
<1> DEFINE s == Script[example]
           I == {i \in 1..Len(s) : s[i] = "fi"}
<1>1. /\ Shape(example, s) /\ ShapeAt(example, s, at) /\ Size \in Nat /\ Size = Len(s)
  BY AtShape DEF Size
<1>2. PICK j \in 4..Len(s) - 2 : s[j] = "fi" /\ \A k \in 1..Len(s) : s[k] = "fi" => k = j
  BY <1>1 DEF ShapeAt, Op
<1>3. I = {j} BY <1>1, <1>2
<1>4. SelectInSeq(s, LAMBDA op : op = "fi") = IF I # {} THEN Min(I) ELSE 0
  BY DEF SelectInSeq
<1>5. Min(I) = j
  <2>1. Min({j}) = j BY DEF Min
  <2> QED BY <1>3, <2>1
<1> QED BY <1>1, <1>2, <1>3, <1>4, <1>5


(* What is done within a connection, or without one *)
LEMMA PlaceNext ==
  ASSUME PlaceInv, [Next]_exampleVars
  PROVE  PlaceInv'
<1>1. /\ Shape(example, Script[example]) /\ ShapeAt(example, Script[example], at)
      /\ Size \in Nat /\ at \in 1..Size
  BY AtShape DEF PlaceInv
<1>0. Flags BY FlagsAre
<1>2. CASE UNCHANGED exampleVars
  <2>1. UNCHANGED <<example, at, clients, count, channel>> /\ Flags'
    BY <1>0, <1>2 DEF exampleVars, Flags
  <2> QED BY <2>1, PlaceStays
<1>3. CASE ConnectActive \/ ConnectRefused \/ ConnectTimesOut
  <2>1. /\ UNCHANGED <<example, clients, count>> /\ at' = at + 1 /\ Flags'
        /\ channel' \in {"open", "refused"} /\ Op \in Connecting
    BY <1>0, <1>3 DEF ConnectActive, ConnectRefused, ConnectTimesOut, Advance, Goto, node, reader,
                      Flags, Connecting
  <2>2. Op \notin {"create", "create_again", "free", "exit"} BY <2>1 DEF Connecting
  <2>3. at \in 2..Size - 2 /\ at' \in 3..Size - 1 /\ at' >= at BY <2>1, <2>2, InsideIs
  <2> QED BY <2>1, <2>3, PlaceMoves
<1>4. CASE ConnectBroken
  <2>1. /\ UNCHANGED <<example, at, clients, count>> /\ channel' = "open" /\ Op \in Connecting
    BY <1>4 DEF ConnectBroken, Connecting
  <2>2. Flags' BY <1>0, <1>4 DEF ConnectBroken, Flags
  <2>3. at = 2 BY <1>1, <2>1 DEF ShapeAt, Op
  <2> QED BY <2>1, <2>2, <2>3, PlaceStays
<1>5. CASE NodeSends \/ NodeRepeats \/ NodeLinks \/ NodeLost \/ Spin \/ Exit
  <2>1. UNCHANGED <<example, at, clients, count, channel>>
    BY <1>5 DEF NodeSends, NodeRepeats, NodeLinks, NodeLost, Spin, Exit, exampleVars, reader
  <2>2. Flags'
    BY <1>0, <1>5 DEF NodeSends, NodeRepeats, NodeLinks, NodeLost, Spin, Exit, exampleVars,
                     reader, Flags
  <2> QED BY <2>1, <2>2, PlaceStays
<1>6. CASE Create \/ Free BY <1>6, PlaceCreate, PlaceFree
<1>7. ASSUME Fi \/ (\E n \in 1..MaxSegments : Ask(n)) \/ Read \/ PrintPacket
      PROVE  PlaceInv'
  <2>1. /\ UNCHANGED <<example, clients, count, channel>> /\ at' = at + 1
        /\ Op \in {"fi", "read", "print"} \cup Asking
    BY <1>7 DEF Fi, Ask, Read, PrintPacket, Advance, Goto, node, reader, Asking
  <2>2. Flags'
    <3>1. CASE Fi \/ Read BY <1>0, <3>1 DEF Fi, Read, node, reader, Flags
    <3>2. CASE \E n \in 1..MaxSegments : Ask(n) BY <1>0, <3>2 DEF Ask, reader, Flags
    <3>3. CASE PrintPacket BY <1>0, <3>3 DEF PrintPacket, Flags
    <3> QED BY <1>7, <3>1, <3>2, <3>3
  <2>3. Op \notin {"create", "create_again", "free", "exit"} \cup Connecting
    BY <2>1 DEF Connecting, Asking
  <2>4. at \in 2..Size - 2 /\ at' \in 3..Size - 1 /\ at' >= at /\ channel # "none"
    BY <2>1, <2>3, InsideIs
  <2> QED BY <2>1, <2>2, <2>4, PlaceMoves DEF PlaceInv
<1>8. ASSUME ReceivePacket \/ ReceiveFails PROVE PlaceInv'
  <2>1. /\ UNCHANGED <<example, clients, count, channel>> /\ at' \in {at, at + 1}
        /\ Op \in Receiving
    BY <1>8 DEF ReceivePacket, ReceiveFails, Waiting, Advance, Goto, node, Receiving
  <2>2. Flags' BY <1>0, <1>8 DEF ReceivePacket, ReceiveFails, node, Flags
  <2>3. Op \notin {"create", "create_again", "free", "exit"} \cup Connecting
    BY <2>1 DEF Connecting, Receiving
  <2>4. at \in 2..Size - 2 /\ at + 1 \in 3..Size - 1 /\ channel # "none" /\ at > 2
    BY <2>3, InsideIs
  <2>5. at' \in 3..Size - 1 /\ at' >= at BY <1>1, <2>1, <2>4
  <2> QED BY <2>1, <2>2, <2>4, <2>5, PlaceMoves DEF PlaceInv
<1>9. CASE IfConnected
  <2>1. /\ UNCHANGED <<example, clients, count, channel>> /\ Op = "if_connected"
        /\ at' = IF channel = "open" THEN at + 1
                 ELSE SelectInSeq(Script[example], LAMBDA op : op = "fi")
    BY <1>9 DEF IfConnected, Goto, reader
  <2>2. Flags' BY <1>0, <1>9 DEF IfConnected, node, reader, Flags
  <2>3. at' \in 4..Size - 2 /\ at = 3 BY <1>1, <2>1, FiIs DEF ShapeAt, Op, Size
  <2>4. at \in 2..Size - 2 /\ channel # "none" BY <2>1, InsideIs DEF Connecting
  <2>5. at' \in 3..Size - 1 /\ at' >= at BY <1>1, <2>3
  <2> QED BY <2>1, <2>2, <2>4, <2>5, PlaceMoves DEF PlaceInv
<1>10. CASE UntilLast \/ ForEver
  <2>1. /\ UNCHANGED <<example, clients, count, channel>> /\ Op \in {"until_last", "for_ever"}
        /\ Op = "until_last" => at' \in {at + 1, at - 2}
        /\ Op = "for_ever" => at' = at - 3
    BY <1>10 DEF UntilLast, ForEver, Goto, node
  <2>2. Flags' BY <1>0, <1>10 DEF UntilLast, ForEver, node, Flags
  <2>3. at \in 2..Size - 2 /\ channel # "none" BY <2>1, InsideIs DEF Connecting
  <2>4. at' \in 3..Size - 1 BY <1>1, <2>1, <2>3 DEF ShapeAt, Op
  <2>5. ~(example = "ncp" /\ at > 10) BY <1>1, <2>1 DEF ShapeAt, Op, Parting
  <2> QED BY <2>1, <2>2, <2>3, <2>4, <2>5, PlaceMoves DEF PlaceInv
<1>11. CASE Repeat
  <2>1. /\ UNCHANGED <<example, clients, channel>> /\ Op = "repeat" /\ count' = count + 1
        /\ at' = IF count' < Receives THEN at - 2 ELSE at + 1
    BY <1>11 DEF Repeat, Goto, node
  <2>2. Flags' BY <1>0, <1>11 DEF Repeat, node, Flags
  <2>3. at = 10 /\ example = "ncp" /\ Size = 14 BY <1>1, <2>1 DEF ShapeAt, Shape, Op, Size
  <2>4. count < Receives /\ count \in Nat /\ Receives \in Nat /\ clients = 1
    BY <2>3, ExamplesAssumption DEF PlaceInv
  <2>5. at' \in {8, 11} /\ count' \in 0..Receives /\ (count' < Receives \/ at' > 10)
    BY <2>1, <2>3, <2>4
  <2>6. channel # "none" BY <2>3 DEF PlaceInv
  <2>7. Size' = 14 BY <2>1, <2>3 DEF Size
  <2> HIDE DEF Size
  <2> QED BY <2>1, <2>2, <2>3, <2>4, <2>5, <2>6, <2>7 DEF PlaceInv, Flags
<1>12. CASE Disconnect
  <2>1. /\ UNCHANGED <<example, clients, count>> /\ at' = at + 1 /\ channel' = "closed"
        /\ Op = "disconnect"
    BY <1>12 DEF Disconnect, Advance, Goto, reader
  <2>2. Flags' BY <1>0, <1>12 DEF Disconnect, node, reader, Flags
  <2>3. at \in 2..Size - 2 /\ at' \in 3..Size - 1 /\ at' >= at
    BY <2>1, InsideIs DEF Connecting
  <2> QED BY <2>1, <2>2, <2>3, PlaceMoves
<1> QED BY <1>2, <1>3, <1>4, <1>5, <1>6, <1>7, <1>8, <1>9, <1>10, <1>11, <1>12 DEF Next, Call


-----------------------------------------------------------------------------
(* What may be on the way *)

LEMMA ResponseAnswers == ASSUME NEW n \in 1..MaxSegments PROVE Response(n) \in Seq(Answers)
<1> DEFINE s == Response(n)
<1>1. s \in Seq(Data) BY ResponseType
<1>2. Data \subseteq Answers BY DEF Answers
<1> HIDE DEF s, Data, Answers
<1>3. \A i \in 1..Len(s) : s[i] \in Answers BY <1>1, <1>2
<1>4. s \in Seq(Answers) BY ONLY <1>1, <1>3
<1> QED BY <1>4 DEF s

(* The captures after the first, and what an example leaves *)
LEMMA FurtherType ==
  ASSUME NEW n \in 1..MaxSegments
  PROVE  FurtherCaptures(n) \in Seq(Answers)
<1> DEFINE r == Response(n)
           S == Seq(Answers)
           turns == [i \in 1..Captures - 1 |-> r]
<1>1. Captures - 1 \in Nat /\ r \in S BY ResponseAnswers, ExamplesAssumption
<1>2. turns \in Seq(S)
  <2> HIDE DEF r, S
  <2> QED BY ONLY <1>1
<1>3. FlattenSeq(turns) \in Seq(Answers)
  <2> HIDE DEF turns
  <2> QED BY <1>2, FlattenType
<1> QED BY <1>3 DEF FurtherCaptures

LEMMA RestAnswers ==
  ASSUME NEW n \in 1..MaxSegments, NEW k \in 1..n
  PROVE  Rest(k, n) \in Seq(Answers)
<1> DEFINE s == Response(n)
<1>1. s \in Seq(Answers) /\ Len(s) = n /\ n \in Nat
  BY ResponseAnswers, ResponseType, ExamplesAssumption
<1> HIDE DEF s, Answers
<1>2. SubSeq(s, k, n) \in Seq(Answers) BY <1>1
<1> QED BY <1>2 DEF Rest, s

LEMMA AnswerType ==
  ASSUME NEW request, NEW n \in 1..MaxSegments
  PROVE  Answer(request, n) \in Seq(Answers)
<1>1. Response(n) \in Seq(Answers) /\ FurtherCaptures(n) \in Seq(Answers)
  BY ResponseAnswers, FurtherType
<1>2. <<Ack>> \in Seq(Answers) /\ <<NodePacket>> \in Seq(Answers)
  <2>1. Ack \in Answers /\ NodePacket \in Answers BY DEF Answers
  <2> HIDE DEF Ack, NodePacket, Answers
  <2> QED BY <2>1
<1>3. \A s, t \in Seq(Answers) : s \o t \in Seq(Answers) OBVIOUS
<1>4. <<Ack>> \o Response(n) \in Seq(Answers) BY <1>1, <1>2, <1>3
<1>5. <<Ack>> \o (Response(n) \o FurtherCaptures(n)) \in Seq(Answers) BY <1>1, <1>2, <1>3
<1>6. Answer(request, n) =
        CASE request = "ask_node" -> <<NodePacket>>
          [] request = "ask_triggered" -> <<Ack>> \o (Response(n) \o FurtherCaptures(n))
          [] OTHER -> <<Ack>> \o Response(n)
  BY DEF Answer, NodePacket, Ack
<1> QED BY <1>2, <1>4, <1>5, <1>6

LEMMA LeftType ==
  ASSUME NEW n \in 1..MaxSegments
  PROVE  LeftUnread(n) \in Seq(Answers)
<1>1. <<>> \in Seq(Answers) OBVIOUS
<1> QED BY <1>1, FurtherType, AnswerType DEF LeftUnread

(* What is said of the answers does not change with the state. *)
LEMMA LeftSame ==
  ASSUME UNCHANGED example
  PROVE  /\ \A n : LeftUnread(n)' = LeftUnread(n)
         /\ \A k, n : Rest(k, n)' = Rest(k, n) /\ Response(n)' = Response(n)
<1>1. \A n : Response(n)' = Response(n) BY DEF Response, Packet
<1>2. \A k, n : Rest(k, n)' = Rest(k, n) BY DEF Rest, Response, Packet
<1>3. \A n : FurtherCaptures(n)' = FurtherCaptures(n) BY DEF FurtherCaptures, Response, Packet
<1>4. \A q, n : Answer(q, n)' = Answer(q, n) BY <1>1, <1>3 DEF Answer, Packet
<1>5. \A n : LeftUnread(n)' = LeftUnread(n)
  <2> HIDE DEF Answer, FurtherCaptures
  <2> QED BY <1>3, <1>4 DEF LeftUnread
<1> QED BY <1>1, <1>2, <1>5

LEMMA SegmentSame ==
  ASSUME UNCHANGED <<example, segment>>
  PROVE  /\ \A n : LeftUnread(n)' = LeftUnread(n) /\ (Single(n)' <=> Single(n))
         /\ \A k, n : Rest(k, n)' = Rest(k, n) /\ Response(n)' = Response(n)
<1>1. \A n : Single(n)' <=> Single(n) BY DEF Single
<1> QED BY <1>1, LeftSame

LEMMA StreamInit == ASSUME Init PROVE StreamInv
<1>1. MaxSegments \in Nat BY ExamplesAssumption
<1>2. inbox = <<>> /\ owed = <<>> /\ unprinted = <<>> /\ rx = Blank /\ segment = <<0, 0>>
  BY DEF Init
<1> HIDE DEF Answers
<1> QED BY <1>1, <1>2 DEF StreamInv

LEMMA PacketSegment ==
  ASSUME rx \in Answers \cup {Link, Blank}
  PROVE  <<rx.seg, rx.nseg>> \in (0..MaxSegments) \X (0..MaxSegments)
<1>1. MaxSegments \in Nat BY ExamplesAssumption
<1>2. CASE rx \in Data BY <1>1, <1>2 DEF Data, Packet
<1>3. CASE rx = NodePacket BY <1>1, <1>3 DEF NodePacket, Packet
<1>4. CASE rx = Ack BY <1>1, <1>4 DEF Ack, Packet
<1>5. CASE rx = Link BY <1>1, <1>5 DEF Link, Packet
<1>6. CASE rx = Blank BY <1>1, <1>6 DEF Blank, Packet
<1> HIDE DEF Data, NodePacket, Ack
<1> QED BY <1>2, <1>3, <1>4, <1>5, <1>6 DEF Answers

(* What is in a sequence stays of its type. *)
LEMMA BoxSteps ==
  ASSUME NEW T, NEW s \in Seq(T), NEW p \in T
  PROVE  /\ Append(s, p) \in Seq(T) /\ Len(Append(s, p)) = Len(s) + 1 /\ Len(s) \in Nat
         /\ <<p>> \in Seq(T) /\ Len(<<p>>) = 1
         /\ s # <<>> => Head(s) \in T /\ Tail(s) \in Seq(T) /\ Len(Tail(s)) = Len(s) - 1
OBVIOUS


LEMMA StreamNext ==
  ASSUME PlaceInv, StreamInv, [Next]_exampleVars
  PROVE  StreamInv'
<1> DEFINE T == Answers \cup {Link, Torn}
<1> HIDE DEF T
<1>1. /\ inbox \in Seq(T) /\ owed \in Seq(Answers) /\ unprinted \in Seq(Answers)
      /\ rx \in Answers \cup {Link, Blank} /\ segment \in (0..MaxSegments) \X (0..MaxSegments)
      /\ Len(inbox) \in Nat /\ Len(inbox) <= IF lost THEN 3 ELSE 2
  BY DEF StreamInv, T
<1>2. Link \in T /\ Torn \in T /\ Answers \subseteq T BY DEF T
<1> USE DEF T
<1>3. CASE UNCHANGED <<lost, inbox, owed, unprinted, rx, segment>>
  BY <1>1, <1>3 DEF StreamInv
<1>4. CASE NodeSends
  <2>1. /\ owed # <<>> /\ Len(inbox) < 2
        /\ inbox' = Append(inbox, Head(owed)) /\ owed' = Tail(owed)
        /\ unprinted' = Append(unprinted, Head(owed)) /\ UNCHANGED <<lost, rx, segment>>
    BY <1>4 DEF NodeSends, reader
  <2> HIDE DEF T
  <2>2. Head(owed) \in Answers /\ Tail(owed) \in Seq(Answers) BY <1>1, <2>1, BoxSteps
  <2>3. Head(owed) \in T BY <1>2, <2>2
  <2>4. Append(inbox, Head(owed)) \in Seq(T) /\ Len(Append(inbox, Head(owed))) = Len(inbox) + 1
    BY <1>1, <2>3, BoxSteps
  <2>5. Append(unprinted, Head(owed)) \in Seq(Answers) BY <1>1, <2>2, BoxSteps
  <2>6. Len(inbox') <= IF lost' THEN 3 ELSE 2 BY <1>1, <2>1, <2>4
  <2> QED BY <1>1, <2>1, <2>2, <2>4, <2>5, <2>6 DEF StreamInv, T
<1>5. CASE NodeRepeats
  <2>1. /\ UNCHANGED <<lost, inbox, unprinted, rx, segment>>
        /\ \E n \in 1..MaxSegments : owed' = Response(n)
    BY <1>5 DEF NodeRepeats, reader
  <2>2. owed' \in Seq(Answers) BY <2>1, ResponseAnswers
  <2> QED BY <1>1, <2>1, <2>2 DEF StreamInv
<1>6. CASE NodeLinks
  <2>1. /\ UNCHANGED <<lost, owed, unprinted, rx, segment>> /\ inbox' = <<Link>>
    BY <1>6 DEF NodeLinks, reader
  <2> HIDE DEF T
  <2>2. <<Link>> \in Seq(T) /\ Len(<<Link>>) = 1 BY <1>2, BoxSteps
  <2> QED BY <1>1, <2>1, <2>2 DEF StreamInv, T
<1>7. CASE NodeLost
  <2>1. /\ UNCHANGED <<owed, unprinted, rx, segment>> /\ ~lost /\ lost'
        /\ inbox' = inbox \/ inbox' = Append(inbox, Torn)
    BY <1>7 DEF NodeLost, Reachable, reader
  <2> HIDE DEF T
  <2>2. Append(inbox, Torn) \in Seq(T) /\ Len(Append(inbox, Torn)) = Len(inbox) + 1
    BY <1>1, <1>2, BoxSteps
  <2>3. inbox' \in Seq(T) BY <1>1, <2>1, <2>2
  <2>4. Len(inbox) <= 2 BY <1>1, <2>1
  <2>5. Len(inbox') <= 3 BY <1>1, <2>1, <2>2, <2>4
  <2> QED BY <1>1, <2>1, <2>3, <2>5 DEF StreamInv, T
<1>8. CASE ConnectActive \/ ConnectBroken
  <2>1. /\ UNCHANGED <<inbox, owed, unprinted, segment>> /\ rx' \in {Blank, Link}
        /\ lost' = lost \/ lost'
    BY <1>8 DEF ConnectActive, ConnectBroken, node
  <2>2. Len(inbox') <= IF lost' THEN 3 ELSE 2 BY <1>1, <2>1
  <2> QED BY <1>1, <2>1, <2>2 DEF StreamInv
<1>9. ASSUME NEW n \in 1..MaxSegments, Ask(n) PROVE StreamInv'
  <2>1. /\ UNCHANGED <<lost, inbox, unprinted, rx, segment>>
        /\ owed' = IF Reachable THEN owed \o Answer(Op, n) ELSE owed
    BY <1>9 DEF Ask, reader
  <2>2. Answer(Op, n) \in Seq(Answers) BY AnswerType
  <2>3. \A s, t \in Seq(Answers) : s \o t \in Seq(Answers) OBVIOUS
  <2>4. owed' \in Seq(Answers) BY <1>1, <2>1, <2>2, <2>3
  <2> QED BY <1>1, <2>1, <2>4 DEF StreamInv
<1>10. CASE ReceivePacket
  <2>1. /\ UNCHANGED <<lost, owed, unprinted, segment>> /\ inbox # <<>>
        /\ rx' = Head(inbox) /\ Head(inbox) # Torn /\ inbox' = Tail(inbox)
    BY <1>10 DEF ReceivePacket
  <2> HIDE DEF T
  <2>2. Head(inbox) \in T /\ Tail(inbox) \in Seq(T) /\ Len(Tail(inbox)) = Len(inbox) - 1
    BY <1>1, <2>1, BoxSteps
  <2>3. Head(inbox) \in Answers \cup {Link, Blank} BY <2>1, <2>2 DEF T
  <2>4. Len(inbox') <= IF lost' THEN 3 ELSE 2 BY <1>1, <2>1, <2>2
  <2> QED BY <1>1, <2>1, <2>2, <2>3, <2>4 DEF StreamInv, T
<1>11. CASE PrintPacket
  <2>1. /\ UNCHANGED <<lost, inbox, owed, rx, segment>>
        /\ unprinted' \in {unprinted, <<>>} \/ (unprinted # <<>> /\ unprinted' = Tail(unprinted))
    BY <1>11 DEF PrintPacket
  <2>2. unprinted # <<>> => Tail(unprinted) \in Seq(Answers)
    <3> HIDE DEF Answers
    <3> QED BY <1>1
  <2>3. <<>> \in Seq(Answers) OBVIOUS
  <2>4. unprinted' \in Seq(Answers) BY <1>1, <2>1, <2>2, <2>3
  <2> QED BY <1>1, <2>1, <2>4 DEF StreamInv
<1>12. CASE UntilLast \/ ForEver
  <2>1. /\ UNCHANGED <<lost, inbox, owed, unprinted, rx>>
        /\ segment' \in {<<rx.seg, rx.nseg>>, segment, <<0, 0>>}
    BY <1>12 DEF UntilLast, ForEver, node
  <2>2. <<rx.seg, rx.nseg>> \in (0..MaxSegments) \X (0..MaxSegments) BY <1>1, PacketSegment
  <2>3. <<0, 0>> \in (0..MaxSegments) \X (0..MaxSegments) BY ExamplesAssumption
  <2>4. segment' \in (0..MaxSegments) \X (0..MaxSegments) BY <1>1, <2>1, <2>2, <2>3
  <2> QED BY <1>1, <2>1, <2>4 DEF StreamInv
<1>13. CASE \/ Create \/ Free \/ ConnectRefused \/ ConnectTimesOut \/ IfConnected \/ Fi
            \/ ReceiveFails \/ Read \/ Repeat \/ Disconnect \/ Spin \/ Exit \/ UNCHANGED exampleVars
  <2>1. UNCHANGED <<lost, inbox, owed, unprinted, rx, segment>>
    BY <1>13 DEF Create, Free, ConnectRefused, ConnectTimesOut, IfConnected, Fi, ReceiveFails,
                 Read, Repeat, Disconnect, Spin, Exit, exampleVars, node, reader
  <2> QED BY <1>3, <2>1
<1> QED BY <1>4, <1>5, <1>6, <1>7, <1>8, <1>9, <1>10, <1>11, <1>12, <1>13 DEF Next, Call


-----------------------------------------------------------------------------
(* What is on the way while the node is there *)

There == PlaceInv /\ StreamInv /\ ~lost /\ FlowInv /\ StatusInv /\ SegmentInv

LEMMA ThereTypes ==
  ASSUME There
  PROVE  /\ inbox \in Boxes /\ In(inbox) \in Seq(Answers) /\ owed \in Seq(Answers)
         /\ Coming \in Seq(Answers) /\ unprinted \in Seq(Answers)
<1>1. inbox \in Boxes BY DEF There, StreamInv, FlowInv, Boxes
<1>2. In(inbox) \in Seq(Answers) BY <1>1, InType
<1>3. \A s, t \in Seq(Answers) : s \o t \in Seq(Answers) OBVIOUS
<1>4. owed \in Seq(Answers) /\ unprinted \in Seq(Answers) BY DEF There, StreamInv
<1> QED BY <1>1, <1>2, <1>3, <1>4 DEF Coming

LEMMA NothingComing ==
  ASSUME There, channel \in {"none", "refused"}
  PROVE  inbox = <<>> /\ owed = <<>> /\ rx = Blank /\ Coming = <<>> /\ unprinted = <<>>
<1>1. inbox = <<>> /\ owed = <<>> /\ rx = Blank BY DEF There, FlowInv
<1>2. In(inbox) = <<>> BY <1>1 DEF In
<1>3. unprinted = In(inbox) BY <1>1 DEF There, FlowInv
<1>4. <<>> \o <<>> = <<>> OBVIOUS
<1> QED BY <1>1, <1>2, <1>3, <1>4 DEF Coming

(* A call that receives nothing and does not change what comes *)
LEMMA FlowMoves ==
  ASSUME There, UNCHANGED <<example, inbox, unprinted, rx, misprint, crashed>>,
         channel \in {"none", "refused"} => owed' = owed,
         Op # "print", Op' # "print",
         channel' \in {channel, "closed"},
         channel' = "closed" => \A i \in at'..Size : Script[example][i] \in Parting,
         example = "ncp" /\ at' \in {4, 5} => channel' = "open"
  PROVE  FlowInv'
<1>1. Size' = Size /\ In(inbox)' = In(inbox) /\ Script[example]' = Script[example] BY DEF Size, In
<1>2. unprinted' = In(inbox)' BY <1>1 DEF There, FlowInv
<1> HIDE DEF In, Size
<1>3. channel' \in {"none", "refused"} => inbox' = <<>> /\ owed' = <<>> /\ rx' = Blank
  BY DEF There, FlowInv
<1>4. (misprint' => example' = "versions") /\ ~crashed' BY DEF There, FlowInv
<1>5. \A i \in 1..Len(inbox') : inbox'[i] \in Answers \/ (i = 1 /\ inbox'[i] = Link)
  BY DEF There, FlowInv
<1> HIDE DEF Answers
<1> QED BY <1>1, <1>2, <1>3, <1>4, <1>5 DEF FlowInv

(* The next call, after one that neither receives nor asks *)
LEMMA StatusMoves ==
  ASSUME There, UNCHANGED <<example, looping>>, Coming' = Coming, at' = at + 1,
         Op \notin Receiving \cup Asking
  PROVE  StatusInv'
<1> SUFFICES ASSUME example \in {"gps", "versions", "bdc", "ncp"} PROVE StatusInv'
  BY DEF StatusInv
<1> DEFINE a == NodeAt(example)
<1>1. StatusShape(example, Script[example], at) BY AtStatus DEF There
<1>2. at \in Nat /\ a \in {3, 4} BY AtShape DEF There, PlaceInv, NodeAt
<1>3. at # a /\ at # a + 1
  BY <1>1 DEF StatusShape, Op, Receiving, Asking
<1>4. a' = a BY DEF NodeAt
<1> HIDE DEF a
<1>5. /\ at <= 6 \/ example \in {"gps", "versions"} => ~looping
      /\ at <= a \/ at = a + 2 => Coming = <<>>
      /\ example \in {"gps", "versions"} /\ at > a + 1 => Coming = <<>>
  BY DEF There, StatusInv, a
<1>6. /\ at' <= 6 \/ example' \in {"gps", "versions"} => ~looping'
      /\ at' <= a \/ at' = a + 2 => Coming' = <<>>
      /\ ~(at' = a + 1)
      /\ example' \in {"gps", "versions"} /\ at' > a + 1 => Coming' = <<>>
  BY <1>2, <1>3, <1>5
<1> QED BY <1>4, <1>6 DEF StatusInv, a

LEMMA SegmentMoves ==
  ASSUME There, UNCHANGED <<example, looping, rx, segment>> , Coming' = Coming, at' = at + 1,
         channel' \in {channel, "closed", "refused"},
         Op \notin Receiving \cup Asking \cup {"until_last"}
  PROVE  SegmentInv'
<1> SUFFICES ASSUME example \in {"single", "triggered", "bdc"} PROVE SegmentInv'
  BY DEF SegmentInv
<1> DEFINE a == OnceAt(example)
<1>1. SegmentShape(example, Script[example], at) BY AtSegment DEF There
<1>2. at \in Nat /\ a \in {3, 6} /\ (a = 6 <=> example = "bdc")
  BY AtShape DEF There, PlaceInv, OnceAt
<1>3. at \notin {a, a + 1, a + 3, a + 5}
  BY <1>1 DEF SegmentShape, Op, Receiving, Asking
<1>4. a' = a BY DEF OnceAt
<1>5. example = "bdc" /\ at = 5 => Coming = <<>>
  BY DEF There, StatusInv, NodeAt
<1> HIDE DEF a
<1>6. /\ ~looping
      /\ at <= a + 2 => segment = <<0, 0>>
      /\ at = a \/ (example # "bdc" /\ at < a) => Coming = <<>>
      /\ at > a + 5 => IF rx = Blank THEN Coming = <<>>
                       ELSE \E n \in 1..MaxSegments : Coming = LeftUnread(n)
  BY DEF There, SegmentInv, a
<1>7. /\ ~looping'
      /\ at' <= a + 2 => segment' = <<0, 0>>
      /\ at' = a \/ (example' # "bdc" /\ at' < a) => Coming' = <<>>
  BY <1>2, <1>3, <1>5, <1>6
<1>8. at' > a + 5 => at > a + 5 BY <1>2, <1>3
<1>9. ASSUME channel' = "open"
      PROVE  /\ at' # a + 1 /\ at' # a + 2 /\ at' # a + 4
             /\ at' = a + 3 => \E n \in 1..MaxSegments : \E k \in 1..n :
                                 Single(n) /\ Coming = Rest(k, n) \o LeftUnread(n)
             /\ at' = a + 5 => \E n \in 1..MaxSegments : \E k \in 1..n :
                                 /\ Single(n) /\ rx = Response(n)[k]
                                 /\ Coming = Rest(k + 1, n) \o LeftUnread(n)
  <2>1. channel = "open" BY <1>9
  <2>2. at' # a + 1 /\ at' # a + 2 /\ at' # a + 4 BY <1>2, <1>3
  <2>3. ASSUME at' = a + 3
        PROVE  \E n \in 1..MaxSegments : \E k \in 1..n :
                 Single(n) /\ Coming = Rest(k, n) \o LeftUnread(n)
    <3>1. at = a + 2 BY <1>2, <2>3
    <3>2. PICK n \in 1..MaxSegments : Coming = Response(n) \o LeftUnread(n)
      BY <2>1, <3>1 DEF There, SegmentInv, a
    <3>3. Rest(1, n) = Response(n) BY RestTypes
    <3>4. 1 \in 1..n BY ExamplesAssumption
    <3>5. Single(n) BY <1>2, <1>6, <3>1 DEF Single
    <3> QED BY <3>2, <3>3, <3>4, <3>5
  <2>4. ASSUME at' = a + 5
        PROVE  \E n \in 1..MaxSegments : \E k \in 1..n :
                 /\ Single(n) /\ rx = Response(n)[k]
                 /\ Coming = Rest(k + 1, n) \o LeftUnread(n)
    <3>1. at = a + 4 BY <1>2, <2>4
    <3> QED BY <2>1, <3>1 DEF There, SegmentInv, a
  <2> QED BY <2>2, <2>3, <2>4
<1>10. /\ \A n : LeftUnread(n)' = LeftUnread(n) /\ (Single(n)' <=> Single(n))
       /\ \A k, n : Rest(k, n)' = Rest(k, n) /\ Response(n)' = Response(n)
  BY SegmentSame
<1> HIDE DEF Rest, Response, LeftUnread, Single, Coming
<1>11. at' > a + 5 => IF rx' = Blank THEN Coming' = <<>>
                      ELSE \E n \in 1..MaxSegments : Coming' = LeftUnread(n)
  BY <1>6, <1>8
<1>12. Blank' = Blank /\ Ack' = Ack BY DEF Blank, Ack, Packet
<1> HIDE DEF Blank, Ack
<1> QED BY <1>2, <1>4, <1>7, <1>9, <1>10, <1>11, <1>12 DEF SegmentInv, a


ThereThen == FlowInv /\ StatusInv /\ SegmentInv

(* What the call after this one is *)
LEMMA NextOp ==
  ASSUME PlaceInv, PlaceInv', UNCHANGED example, at' = at + 1
  PROVE  /\ Op' = "print" <=> Op \in Receiving
         /\ Op' = Script[example][at + 1] /\ at < Size
<1>1. ShapeAt(example, Script[example], at) /\ Size \in Nat /\ at \in Nat
  BY AtShape DEF PlaceInv
<1>2. at + 1 \in 1..Size BY DEF PlaceInv, Size
<1>3. at < Size BY <1>1, <1>2
<1> QED BY <1>1, <1>3 DEF ShapeAt, Op, Size

LEMMA NcpCalls ==
  ASSUME PlaceInv, example = "ncp"
  PROVE  (at = 3 => Op = "if_connected") /\ (at = 4 => Op = "ask_node")
BY AtStatus DEF StatusShape, NodeAt, Op

LEMMA ComingSame ==
  ASSUME UNCHANGED <<inbox, owed>>
  PROVE  Coming' = Coming /\ In(inbox)' = In(inbox)
BY DEF Coming, In

LEMMA ThereMoves ==
  ASSUME There, PlaceInv', Create \/ Free \/ ConnectRefused \/ Fi \/ Read \/ Disconnect
  PROVE  ThereThen'
<1>1. /\ UNCHANGED <<example, inbox, owed, unprinted, rx, segment, misprint, crashed, looping>>
      /\ at' = at + 1
  BY DEF Create, Free, ConnectRefused, Fi, Read, Disconnect, Advance, Goto, node, reader
<1>2. Op \in Connecting \cup {"create", "create_again", "free", "fi", "read", "disconnect"}
  BY DEF Create, Free, ConnectRefused, Fi, Read, Disconnect, Connecting
<1>3. Op # "print" /\ Op \notin Receiving \cup Asking \cup {"until_last"} /\ Op # "if_connected"
      /\ Op # "ask_node"
  BY <1>2 DEF Connecting, Receiving, Asking
<1>4. PlaceInv BY DEF There
<1>5. Op' # "print" BY <1>1, <1>3, <1>4, NextOp
<1>6. channel' = IF Op \in Connecting THEN "refused"
                 ELSE IF Op = "disconnect" THEN "closed" ELSE channel
  BY DEF Create, Free, ConnectRefused, Fi, Read, Disconnect, Connecting
<1>7. Op \in Connecting => channel = "none"
  BY DEF Create, Free, ConnectRefused, Fi, Read, Disconnect, Connecting
<1>8. Coming' = Coming BY <1>1, ComingSame
<1>9. StatusInv' BY <1>1, <1>3, <1>8, StatusMoves
<1>10. SegmentInv' BY <1>1, <1>3, <1>6, <1>8, SegmentMoves
<1>11. FlowInv'
  <2>1. CASE Op \notin Connecting
    <3>1. channel' \in {channel, "closed"} BY <1>6, <2>1
    <3>2. ASSUME channel' = "closed" PROVE \A i \in at'..Size : Script[example][i] \in Parting
      <4>1. CASE Op = "disconnect"
        BY <1>1, <1>4, <4>1, AtShape DEF ShapeAt, Op, Size
      <4>2. CASE Op # "disconnect"
        <5>1. channel = "closed" BY <1>6, <2>1, <3>2, <4>2
        <5>2. \A i \in at..Size : Script[example][i] \in Parting BY <5>1 DEF There, FlowInv
        <5>3. at \in Nat /\ Size \in Nat BY <1>4, AtShape DEF PlaceInv
        <5> QED BY <1>1, <5>2, <5>3
      <4> QED BY <4>1, <4>2
    <3>3. ASSUME example = "ncp", at' \in {4, 5} PROVE channel' = "open"
      <4>1. at \in {3, 4} BY <1>1, <1>4, <3>3 DEF PlaceInv
      <4> QED BY <1>3, <1>4, <3>3, <4>1, NcpCalls
    <3> QED BY <1>1, <1>3, <1>5, <3>1, <3>2, <3>3, FlowMoves
  <2>2. CASE Op \in Connecting
    <3>1. at = 2 BY <1>4, <2>2, AtShape DEF ShapeAt, Op
    <3>2. inbox = <<>> /\ owed = <<>> /\ rx = Blank /\ unprinted = <<>>
      BY <1>7, <2>2, NothingComing
    <3>3. In(inbox) = <<>> /\ In(inbox)' = <<>> BY <1>1, <3>2 DEF In
    <3>4. channel' = "refused" /\ at' = 3 BY <1>1, <1>6, <2>2, <3>1
    <3>5. (misprint' => example' = "versions") /\ ~crashed' BY <1>1 DEF There, FlowInv
    <3>6. inbox' = <<>> /\ owed' = <<>> /\ rx' = Blank /\ unprinted' = <<>> BY <1>1, <3>2
    <3> HIDE DEF In, Size, Op
    <3> QED BY <1>5, <3>3, <3>4, <3>5, <3>6 DEF FlowInv
  <2> QED BY <2>1, <2>2
<1> QED BY <1>9, <1>10, <1>11 DEF ThereThen

LEMMA ThereConnects ==
  ASSUME There, PlaceInv', ConnectActive
  PROVE  ThereThen'
<1>1. /\ UNCHANGED <<example, inbox, owed, unprinted, segment, misprint, crashed, looping>>
      /\ at' = at + 1 /\ rx' = Link /\ channel = "none" /\ channel' = "open" /\ Op \in Connecting
  BY DEF ConnectActive, Advance, Goto, node, Connecting
<1>2. PlaceInv BY DEF There
<1>3. at = 2 /\ at' = 3 BY <1>1, <1>2, AtShape DEF ShapeAt, Op
<1>4. inbox = <<>> /\ owed = <<>> /\ unprinted = <<>> /\ Coming = <<>> BY <1>1, NothingComing
<1>5. Coming' = Coming /\ In(inbox) = <<>> /\ In(inbox)' = <<>> BY <1>1, <1>4, ComingSame DEF In
<1>6. FlowInv'
  <2>1. (misprint' => example' = "versions") /\ ~crashed' BY <1>1 DEF There, FlowInv
  <2>2. unprinted' = In(inbox)' BY <1>1, <1>4, <1>5
  <2>3. inbox' = <<>> BY <1>1, <1>4
  <2> HIDE DEF In, Size, Op
  <2> QED BY <1>1, <1>3, <2>1, <2>2, <2>3 DEF FlowInv
<1>7. StatusInv'
  <2> SUFFICES ASSUME example \in {"gps", "versions", "bdc", "ncp"} PROVE StatusInv'
    BY <1>1 DEF StatusInv
  <2>1. ~looping BY <1>3 DEF There, StatusInv
  <2> QED BY <1>1, <1>3, <1>4, <1>5, <2>1 DEF StatusInv, NodeAt
<1>8. SegmentInv'
  <2> SUFFICES ASSUME example \in {"single", "triggered", "bdc"} PROVE SegmentInv'
    BY <1>1 DEF SegmentInv
  <2>1. ~looping /\ segment = <<0, 0>>
    <3>1. OnceAt(example) \in {3, 6} BY DEF OnceAt
    <3> QED BY <1>3, <3>1 DEF There, SegmentInv
  <2>2. OnceAt(example)' \in {3, 6} BY DEF OnceAt
  <2> HIDE DEF OnceAt, Coming
  <2> QED BY <1>1, <1>3, <1>4, <1>5, <2>1, <2>2 DEF SegmentInv
<1> QED BY <1>6, <1>7, <1>8 DEF ThereThen


LEMMA ThereBranches ==
  ASSUME There, PlaceInv', IfConnected
  PROVE  ThereThen'
<1>1. /\ UNCHANGED <<example, inbox, owed, unprinted, rx, segment, misprint, crashed, looping,
                     channel>>
      /\ at' = IF channel = "open" THEN at + 1
               ELSE SelectInSeq(Script[example], LAMBDA op : op = "fi")
      /\ Op = "if_connected"
  BY DEF IfConnected, Goto, node, reader
<1>2. PlaceInv BY DEF There
<1>3. at = 3 BY <1>1, <1>2, AtShape DEF ShapeAt, Op
<1>4. Op # "print" /\ Op \notin Receiving \cup Asking \cup {"until_last"}
  BY <1>1 DEF Receiving, Asking
<1>5. Coming' = Coming BY <1>1, ComingSame
<1>6. channel # "closed"
  <2> SUFFICES ASSUME channel = "closed" PROVE FALSE OBVIOUS
  <2>1. \A i \in at..Size : Script[example][i] \in Parting BY DEF There, FlowInv
  <2>2. at \in at..Size BY <1>2, AtShape DEF PlaceInv
  <2> QED BY <1>1, <2>1, <2>2 DEF Op, Parting
<1>7. CASE channel = "open"
  <2>1. at' = at + 1 BY <1>1, <1>7
  <2>2. Op' # "print" BY <1>1, <1>2, <1>4, <2>1, NextOp
  <2>3. FlowInv' BY <1>1, <1>4, <1>6, <1>7, <2>2, FlowMoves
  <2> QED BY <1>1, <1>4, <1>5, <2>1, <2>3, StatusMoves, SegmentMoves DEF ThereThen
<1>8. CASE channel # "open"
  <2>1. at' \in 4..Size - 2 /\ Script[example][at'] = "fi" BY <1>1, <1>2, <1>8, FiIs
  <2>2. Op' = "fi" BY <1>1, <2>1 DEF Op
  <2>3. ASSUME example \in {"gps", "versions", "bdc", "ncp"} PROVE example = "ncp" /\ at' > 9
    <3>1. StatusShape(example, Script[example], at) BY <1>2, <2>3, AtStatus
    <3>2. StatusShape(example', Script[example'], at')
      <4>1. at' \in 1..Len(Script[example]) BY <2>1, <1>2, AtShape DEF Size
      <4> QED BY <1>1, <2>3, <4>1, StatusScripts
    <3>3. at' > 9 BY <1>1, <2>1, <3>2 DEF StatusShape
    <3>4. example # "bdc"
      <4> SUFFICES ASSUME example = "bdc" PROVE FALSE OBVIOUS
      <4>1. SegmentShape(example, Script[example], at) BY <1>2, AtSegment
      <4> QED BY <1>1, <4>1 DEF SegmentShape, Op, Jumping
    <3> QED BY <1>1, <2>3, <3>1, <3>3, <3>4 DEF StatusShape, Op, Jumping
  <2>4. FlowInv'
    <3>1. ~(example = "ncp" /\ at' \in {4, 5}) BY <2>3
    <3> QED BY <1>1, <1>4, <1>6, <2>2, <3>1, FlowMoves
  <2>5. StatusInv'
    <3> SUFFICES ASSUME example \in {"gps", "versions", "bdc", "ncp"} PROVE StatusInv'
      BY <1>1 DEF StatusInv
    <3>1. example' = "ncp" /\ at' > 9 /\ at' \in Nat BY <1>1, <2>1, <2>3, <1>2, AtShape
    <3> QED BY <3>1 DEF StatusInv, NodeAt
  <2>6. SegmentInv'
    <3>1. example \notin {"single", "triggered", "bdc"}
      <4> SUFFICES ASSUME example \in {"single", "triggered", "bdc"} PROVE FALSE OBVIOUS
      <4>1. SegmentShape(example, Script[example], at) BY <1>2, AtSegment
      <4> QED BY <1>1, <4>1 DEF SegmentShape, Op, Jumping
    <3> QED BY <1>1, <3>1 DEF SegmentInv
  <2> QED BY <2>4, <2>5, <2>6 DEF ThereThen
<1> QED BY <1>7, <1>8

(* A jump back to a call that receives, in an example whose measurements   *)
(* nothing is said about                                                   *)
LEMMA ThereRepeats ==
  ASSUME There, PlaceInv', ForEver \/ Repeat
  PROVE  ThereThen'
<1>1. /\ UNCHANGED <<example, inbox, owed, unprinted, rx, misprint, crashed, looping, channel>>
      /\ Op \in {"for_ever", "repeat"}
      /\ Op = "for_ever" => at' = at - 3
      /\ Op = "repeat" => at' \in {at - 2, at + 1}
  BY DEF ForEver, Repeat, Goto, node
<1>2. PlaceInv BY DEF There
<1>3. /\ Shape(example, Script[example]) /\ ShapeAt(example, Script[example], at)
      /\ Size \in Nat /\ at \in 1..Size
  BY <1>2, AtShape DEF PlaceInv
<1>4. ASSUME Op = "repeat" PROVE example = "ncp" /\ at = 10 /\ at' \in {8, 11} /\ Size = 14
  BY <1>1, <1>3, <1>4 DEF ShapeAt, Shape, Op, Size
<1>5. Op' # "print"
  <2>1. CASE Op = "for_ever"
    <3>1. Script[example][at'] = "receive" BY <1>1, <1>3, <2>1 DEF ShapeAt, Op
    <3> QED BY <1>1, <3>1 DEF Op
  <2>2. CASE Op = "repeat" /\ at' = 8
    <3>1. Script[example][8] = "receive_any" BY <1>3, <1>4, <2>2 DEF Shape
    <3> QED BY <1>1, <2>2, <3>1 DEF Op
  <2>3. CASE Op = "repeat" /\ at' = 11
    <3>2. Len(Script[example]) = 14 BY <1>4, <2>3 DEF Size
    <3>0. 11 \in 1..Len(Script[example]) BY <3>2
    <3>1. ShapeAt(example, Script[example], 11) BY <1>3, <3>0 DEF Shape
    <3>3. Script[example][11] \in Parting \cup {"disconnect"} BY <1>4, <2>3, <3>1 DEF ShapeAt
    <3> QED BY <1>1, <2>3, <3>3 DEF Op, Parting
  <2> QED BY <1>1, <1>4, <2>1, <2>2, <2>3
<1>6. channel # "closed"
  <2> SUFFICES ASSUME channel = "closed" PROVE FALSE OBVIOUS
  <2>1. \A i \in at..Size : Script[example][i] \in Parting BY DEF There, FlowInv
  <2>2. at \in at..Size BY <1>3
  <2> QED BY <1>1, <2>1, <2>2 DEF Op, Parting
<1>7. /\ ~(example = "ncp" /\ Op = "for_ever")
      /\ example \in {"gps", "versions", "bdc"} => Op \notin {"for_ever", "repeat"}
  <2>1. example \in {"gps", "versions"} => Op \notin Jumping
    BY <1>2, AtStatus DEF StatusShape, Op
  <2>2. example = "bdc" => Op \notin {"for_ever", "repeat"}
    BY <1>2, AtSegment DEF SegmentShape, Op, Jumping
  <2>3. example = "ncp" => Op # "for_ever" BY <1>3 DEF ShapeAt, Op
  <2> QED BY <2>1, <2>2, <2>3 DEF Jumping
<1>8. FlowInv'
  <2>1. ~(example = "ncp" /\ at' \in {4, 5}) BY <1>1, <1>4, <1>7
  <2>2. Op # "print" BY <1>1
  <2> QED BY <1>1, <1>5, <1>6, <2>1, <2>2, FlowMoves
<1>9. StatusInv'
  <2> SUFFICES ASSUME example \in {"gps", "versions", "bdc", "ncp"} PROVE StatusInv'
    BY <1>1 DEF StatusInv
  <2>1. example' = "ncp" /\ at' \in {8, 11} BY <1>1, <1>4, <1>7
  <2> QED BY <2>1 DEF StatusInv, NodeAt
<1>10. SegmentInv'
  <2>1. example \notin {"single", "triggered", "bdc"}
    <3> SUFFICES ASSUME example \in {"single", "triggered", "bdc"} PROVE FALSE OBVIOUS
    <3>1. SegmentShape(example, Script[example], at) BY <1>2, AtSegment
    <3> QED BY <1>1, <3>1 DEF SegmentShape, Op, Jumping
  <2> QED BY <1>1, <2>1 DEF SegmentInv
<1> QED BY <1>8, <1>9, <1>10 DEF ThereThen


(* A program that waits for a packet, or works on one, has not disconnected. *)
LEMMA NotClosed ==
  ASSUME There, Op \notin Parting
  PROVE  channel # "closed"
<1> SUFFICES ASSUME channel = "closed" PROVE FALSE OBVIOUS
<1>1. \A i \in at..Size : Script[example][i] \in Parting BY DEF There, FlowInv
<1>2. at \in at..Size BY AtShape DEF There, PlaceInv
<1> QED BY <1>1, <1>2 DEF Op

LEMMA TwoDown ==
  ASSUME PlaceInv, UNCHANGED example, Op = "until_last", at' = at - 2
  PROVE  Op' = "receive"
<1>1. ShapeAt(example, Script[example], at) BY AtShape
<1>2. Script[example][at - 2] = "receive" BY <1>1 DEF ShapeAt, Op
<1> QED BY <1>2 DEF Op

(* The loop ends with the last segment: the other captures are left then.  *)
LEMMA UntilLastSegment ==
  ASSUME There, UntilLast, example \in {"single", "triggered", "bdc"}, at = OnceAt(example) + 5
  PROVE  /\ at' = at + 1 => IF rx = Blank THEN Coming = <<>>
                            ELSE \E n \in 1..MaxSegments : Coming = LeftUnread(n)
         /\ at' = at - 2 /\ channel = "open" =>
              \E n \in 1..MaxSegments : \E k \in 1..n :
                Single(n)' /\ Coming = Rest(k, n) \o LeftUnread(n)
<1>1. /\ rx.nseg > 0 => segment' = <<rx.seg, rx.nseg>>
      /\ ~(rx.nseg > 0) => segment' \in {segment, <<0, 0>>}
      /\ at' = IF segment'[1] >= segment'[2] THEN at + 1 ELSE at - 2
      /\ Op = "until_last" /\ at \in Nat /\ MaxSegments \in Nat
  BY ExamplesAssumption, AtShape DEF UntilLast, Goto, LastSegment, There, PlaceInv
<1>2. channel \in {"none", "refused", "open"} BY <1>1, NotClosed DEF Parting, There, PlaceInv
<1>3. CASE channel # "open" BY <1>2, <1>3, NothingComing
<1>4. CASE channel = "open"
  <2>1. PICK n \in 1..MaxSegments : \E k \in 1..n :
          /\ Single(n) /\ rx = Response(n)[k]
          /\ Coming = Rest(k + 1, n) \o LeftUnread(n)
    BY <1>4 DEF There, SegmentInv
  <2>2. PICK k \in 1..n : /\ Single(n) /\ rx = Response(n)[k]
                          /\ Coming = Rest(k + 1, n) \o LeftUnread(n)
    BY <2>1
  <2>3. n \in Nat /\ k \in Nat /\ n > 0 BY <1>1
  <2>4. Rest(n + 1, n) \o LeftUnread(n) = LeftUnread(n)
    <3>1. Rest(n + 1, n) = <<>> BY RestTypes
    <3>2. LeftUnread(n) \in Seq(Answers) BY LeftType
    <3> QED BY <3>1, <3>2, JoinThree
  <2>5. CASE n = 1
    <3>1. k = 1 /\ rx.nseg = 0 BY <2>2, <2>3, <2>5, ResponseType DEF Packet
    <3>2. segment' = <<0, 0>> BY <1>1, <2>2, <2>5, <3>1 DEF Single
    <3>3. at' = at + 1 BY <1>1, <3>2
    <3>4. rx # Blank
      <4>1. rx = Packet("data", 0, 0) BY <2>2, <2>5, <3>1, ResponseType
      <4> QED BY <4>1 DEF Blank, Packet
    <3>5. Coming = LeftUnread(n) BY <2>2, <2>4, <2>5, <3>1
    <3> HIDE DEF Coming, LeftUnread
    <3> QED BY <1>1, <3>3, <3>4, <3>5
  <2>6. CASE n # 1
    <3>0. rx = Packet("data", k, n) BY <2>2, <2>6, ResponseType
    <3>1. rx.seg = k /\ rx.nseg = n BY <3>0 DEF Packet
    <3>2. segment' = <<k, n>> BY <1>1, <2>3, <3>1
    <3>3. at' = IF k >= n THEN at + 1 ELSE at - 2 BY <1>1, <3>2
    <3>4. rx # Blank BY <3>0 DEF Blank, Packet
    <3>5. Single(n)' BY <2>6 DEF Single
    <3> HIDE DEF Coming, LeftUnread, Single
    <3>6. CASE k = n
      <4>1. at' = at + 1 /\ at' # at - 2 BY <1>1, <2>3, <3>3, <3>6
      <4>2. Coming = LeftUnread(n) BY <2>2, <2>4, <3>6
      <4> QED BY <3>4, <4>1, <4>2
    <3>7. CASE k # n
      <4>1. k + 1 \in 1..n /\ ~(k >= n) BY <2>3, <3>7
      <4>2. at' = at - 2 /\ at' # at + 1 BY <1>1, <3>3, <4>1
      <4> QED BY <2>2, <3>5, <4>1, <4>2
    <3> QED BY <3>6, <3>7
  <2> QED BY <2>5, <2>6
<1> QED BY <1>3, <1>4

LEMMA ThereLooks ==
  ASSUME There, PlaceInv', UntilLast
  PROVE  ThereThen'
<1>1. /\ UNCHANGED <<example, inbox, owed, unprinted, rx, misprint, crashed, looping, channel>>
      /\ Op = "until_last" /\ at' \in {at + 1, at - 2} /\ at \in Nat
  BY AtShape DEF UntilLast, Goto, node, There, PlaceInv
<1>2. PlaceInv BY DEF There
<1>3. Coming' = Coming BY <1>1, ComingSame
<1>4. Op' # "print"
  <2>1. Op \notin Receiving BY <1>1 DEF Receiving
  <2> QED BY <1>1, <1>2, <2>1, NextOp, TwoDown
<1>5. channel # "closed" BY <1>1, NotClosed DEF Parting
<1>6. example \in {"gps", "versions", "bdc", "ncp"} => example = "bdc"
  <2>1. example # "ncp" BY <1>1, <1>2, AtShape DEF ShapeAt, Op
  <2>2. example \in {"gps", "versions"} => Op \notin Jumping
    BY <1>2, AtStatus DEF StatusShape, Op
  <2> QED BY <1>1, <2>1, <2>2 DEF Jumping
<1>7. example \in {"single", "triggered", "bdc"} => at = OnceAt(example) + 5
  BY <1>1, <1>2, AtSegment DEF SegmentShape, Op
<1>8. FlowInv'
  <2>1. ~(example = "ncp" /\ at' \in {4, 5}) BY <1>6
  <2>2. Op # "print" BY <1>1
  <2> QED BY <1>1, <1>4, <1>5, <2>1, <2>2, FlowMoves
<1>9. StatusInv'
  <2> SUFFICES ASSUME example \in {"gps", "versions", "bdc", "ncp"} PROVE StatusInv'
    BY <1>1 DEF StatusInv
  <2>1. example' = "bdc" /\ at' \in {9, 12} BY <1>1, <1>6, <1>7 DEF OnceAt
  <2> QED BY <2>1 DEF StatusInv, NodeAt
<1>10. SegmentInv'
  <2> SUFFICES ASSUME example \in {"single", "triggered", "bdc"} PROVE SegmentInv'
    BY <1>1 DEF SegmentInv
  <2> DEFINE a == OnceAt(example)
  <2>1. a \in {3, 6} /\ a' = a /\ at = a + 5 BY <1>1, <1>7 DEF OnceAt
  <2>2. /\ at' = at + 1 => IF rx = Blank THEN Coming = <<>>
                           ELSE \E n \in 1..MaxSegments : Coming = LeftUnread(n)
        /\ at' = at - 2 /\ channel = "open" =>
             \E n \in 1..MaxSegments : \E k \in 1..n :
               Single(n)' /\ Coming = Rest(k, n) \o LeftUnread(n)
    BY <1>7, UntilLastSegment
  <2>3. ~looping' BY <1>1 DEF There, SegmentInv
  <2>4. /\ \A k, n : Rest(k, n)' = Rest(k, n)
        /\ \A n : LeftUnread(n)' = LeftUnread(n)
    BY <1>1, LeftSame
  <2>5. at' \in {a + 6, a + 3} BY <1>1, <2>1
  <2>6. Blank' = Blank BY DEF Blank, Packet
  <2> HIDE DEF a, Rest, LeftUnread, Single, Coming, Blank
  <2>7. /\ ~(at' <= a + 2) /\ at' # a /\ ~(at' < a)
        /\ at' > a + 5 => at' = at + 1
        /\ at' = a + 3 => at' = at - 2
        /\ at' \notin {a + 1, a + 2, a + 4, a + 5}
    BY <1>1, <2>1, <2>5
  <2>8. /\ at' > a + 5 => IF rx' = Blank THEN Coming' = <<>>
                          ELSE \E n \in 1..MaxSegments : Coming' = LeftUnread(n)
        /\ channel' = "open" /\ at' = a + 3 =>
             \E n \in 1..MaxSegments : \E k \in 1..n :
               Single(n)' /\ Coming' = Rest(k, n) \o LeftUnread(n)
    BY <1>1, <1>3, <2>2, <2>7
  <2> QED BY <2>1, <2>3, <2>4, <2>6, <2>7, <2>8 DEF SegmentInv, a
<1> QED BY <1>8, <1>9, <1>10 DEF ThereThen

LEMMA TakeFirst ==
  ASSUME NEW p \in Answers, NEW s \in Seq(Answers)
  PROVE  <<p>> \o s # <<>> /\ Head(<<p>> \o s) = p /\ Tail(<<p>> \o s) = s
<1> HIDE DEF Answers
<1> QED OBVIOUS

LEMMA TherePrints ==
  ASSUME There, PlaceInv', PrintPacket
  PROVE  ThereThen'
<1>1. /\ UNCHANGED <<example, inbox, owed, rx, segment, crashed, looping, channel>>
      /\ Op = "print" /\ at' = at + 1
  BY DEF PrintPacket, Advance, Goto
<1>2. Coming' = Coming /\ In(inbox)' = In(inbox) BY <1>1, ComingSame
<1>3. Op \notin Receiving \cup Asking \cup {"until_last"} BY <1>1 DEF Receiving, Asking
<1>4. Op' # "print" BY <1>1, <1>3, NextOp DEF There
<1>5. unprinted' = In(inbox) /\ (misprint' => example' = "versions")
  <2>1. CASE rx \in {Link, Blank}
    BY <1>1, <2>1 DEF PrintPacket, There, FlowInv
  <2>2. CASE rx \notin {Link, Blank}
    <3>1. unprinted = <<rx>> \o In(inbox) /\ (misprint => example = "versions")
      BY <1>1, <2>2 DEF There, FlowInv
    <3>2. rx \in Answers BY <2>2 DEF There, StreamInv
    <3>3. unprinted # <<>> /\ Head(unprinted) = rx /\ Tail(unprinted) = In(inbox)
      BY <3>1, <3>2, ThereTypes, TakeFirst
    <3>4. unprinted' = In(inbox) BY <2>2, <3>3 DEF PrintPacket
    <3>5. ASSUME misprint' PROVE example = "versions"
      <4> SUFFICES ASSUME example # "versions" PROVE FALSE OBVIOUS
      <4>1. Shown(rx) = {rx} BY DEF Shown
      <4>2. misprint' = (misprint \/ unprinted = <<>> \/ rx # Head(unprinted))
        BY <2>2, <4>1 DEF PrintPacket
      <4> QED BY <3>1, <3>3, <3>5, <4>2
    <3> QED BY <1>1, <3>4, <3>5
  <2> QED BY <2>1, <2>2
<1>6. channel # "closed" BY <1>1, NotClosed DEF Parting
<1>7. ~(example = "ncp" /\ at' \in {4, 5})
  <2> SUFFICES ASSUME example = "ncp", at' \in {4, 5} PROVE FALSE OBVIOUS
  <2>1. at \in {3, 4} BY <1>1, AtShape DEF There, PlaceInv
  <2> QED BY <1>1, <2>1, NcpCalls DEF There
<1>8. FlowInv'
  <2>1. ~crashed' BY <1>1 DEF There, FlowInv
  <2>2. \A i \in 1..Len(inbox') : inbox'[i] \in Answers \/ (i = 1 /\ inbox'[i] = Link)
    BY <1>1 DEF There, FlowInv
  <2>3. channel' \in {"none", "refused"} => inbox' = <<>> /\ owed' = <<>> /\ rx' = Blank
    BY <1>1 DEF There, FlowInv
  <2> HIDE DEF In, Op, Size, Answers
  <2> QED BY <1>1, <1>2, <1>4, <1>5, <1>6, <1>7, <2>1, <2>2, <2>3 DEF FlowInv
<1> QED BY <1>1, <1>2, <1>3, <1>8, StatusMoves, SegmentMoves DEF ThereThen


(* A call fails to receive while the node is there only if it refused.     *)
LEMMA ThereFails ==
  ASSUME There, PlaceInv', ReceiveFails
  PROVE  ThereThen'
<1>1. /\ UNCHANGED <<example, inbox, owed, unprinted, rx, segment, misprint, looping, channel>>
      /\ Op \in Receiving /\ channel # "open"
      /\ at' \in {at, at + 1} /\ (Wanted(rx) => at' = at + 1)
      /\ crashed' => Op = "receive_node"
  BY DEF ReceiveFails, Waiting, Receiving, Reachable, Advance, Goto, node, There
<1>2. channel # "closed" BY <1>1, NotClosed DEF Receiving, Parting
<1>3. channel \in {"none", "refused"} BY <1>1, <1>2 DEF There, PlaceInv
<1>4. inbox = <<>> /\ owed = <<>> /\ rx = Blank /\ Coming = <<>> /\ unprinted = <<>>
  BY <1>3, NothingComing
<1>5. Op # "receive_node"
  <2> SUFFICES ASSUME Op = "receive_node" PROVE FALSE OBVIOUS
  <2>1. example = "ncp" /\ at = 5 BY AtShape DEF ShapeAt, Op, There
  <2> QED BY <1>1, <2>1 DEF There, FlowInv
<1>6. at' = at + 1 /\ crashed' = FALSE
  <2>1. Blank.kind = "blank" BY DEF Blank, Packet
  <2>2. Wanted(rx) BY <1>1, <1>4, <1>5, <2>1 DEF Wanted, Receiving
  <2>3. crashed' \in BOOLEAN BY DEF PlaceInv
  <2> QED BY <1>1, <1>5, <2>2, <2>3
<1>7. Coming' = <<>> /\ In(inbox)' = <<>> BY <1>1, <1>4, ComingSame DEF In
<1>8. ~(example = "ncp" /\ at' \in {4, 5})
  <2> SUFFICES ASSUME example = "ncp", at' \in {4, 5} PROVE FALSE OBVIOUS
  <2>1. at \in {3, 4} BY <1>6, AtShape DEF There, PlaceInv
  <2> QED BY <1>1, <2>1, NcpCalls DEF There, Receiving
<1>9. FlowInv'
  <2>1. misprint' => example' = "versions" BY <1>1 DEF There, FlowInv
  <2>2. rx' = Blank /\ inbox' = <<>> /\ owed' = <<>> /\ unprinted' = <<>> BY <1>1, <1>4
  <2> HIDE DEF In, Op, Size, Answers
  <2> QED BY <1>1, <1>2, <1>6, <1>7, <1>8, <2>1, <2>2 DEF FlowInv
<1>10. StatusInv'
  <2> SUFFICES ASSUME example \in {"gps", "versions", "bdc", "ncp"} PROVE StatusInv'
    BY <1>1 DEF StatusInv
  <2>1. at <= 6 \/ example \in {"gps", "versions"} => ~looping BY DEF There, StatusInv
  <2>2. at \in Nat BY AtShape DEF There, PlaceInv
  <2>3. at' <= 6 \/ example' \in {"gps", "versions"} => ~looping' BY <1>1, <1>6, <2>1, <2>2
  <2> HIDE DEF Coming
  <2> QED BY <1>1, <1>7, <2>3 DEF StatusInv
<1>11. SegmentInv'
  <2> SUFFICES ASSUME example \in {"single", "triggered", "bdc"} PROVE SegmentInv'
    BY <1>1 DEF SegmentInv
  <2> DEFINE a == OnceAt(example)
  <2>1. ~looping' BY <1>1 DEF There, SegmentInv
  <2>2. a \in {3, 6} /\ a' = a BY <1>1 DEF OnceAt
  <2>3. at # a + 2
    <3>1. SegmentShape(example, Script[example], at) BY AtSegment DEF There
    <3> QED BY <1>1, <3>1 DEF SegmentShape, Op, Receiving
  <2>4. at \in Nat BY AtShape DEF There, PlaceInv
  <2>5. at <= a + 2 => segment = <<0, 0>> BY DEF There, SegmentInv
  <2>6. rx' = Blank /\ Blank' = Blank BY <1>1, <1>4 DEF Blank, Packet
  <2> HIDE DEF Coming, a, Blank
  <2>7. at' <= a + 2 => segment' = <<0, 0>> BY <1>1, <1>6, <2>2, <2>3, <2>4, <2>5
  <2> QED BY <1>1, <1>7, <2>1, <2>2, <2>6, <2>7 DEF SegmentInv, a
<1> QED BY <1>9, <1>10, <1>11 DEF ThereThen

(* What a call receives is a link packet, or the first of what comes.      *)
LEMMA Received ==
  ASSUME There, ReceivePacket
  PROVE  /\ channel = "open" /\ Op \in Receiving /\ inbox' \in Boxes
         /\ UNCHANGED <<example, owed, unprinted, segment, misprint, crashed, looping, channel>>
         /\ rx' = Link => Coming' = Coming /\ In(inbox)' = In(inbox)
         /\ rx' # Link => /\ rx' \in Answers /\ Coming # <<>> /\ rx' = Head(Coming)
                          /\ Coming' = Tail(Coming) /\ In(inbox) = <<rx'>> \o In(inbox)'
<1>1. /\ UNCHANGED <<example, owed, unprinted, segment, misprint, crashed, looping, channel>>
      /\ Op \in Receiving /\ inbox # <<>> /\ rx' = Head(inbox) /\ inbox' = Tail(inbox)
  <2>1. crashed' = crashed BY DEF ReceivePacket, Waiting, Running
  <2> QED BY <2>1 DEF ReceivePacket, Waiting, Receiving
<1>2. channel = "open"
  <2>1. channel # "closed" BY <1>1, NotClosed DEF Receiving, Parting
  <2>2. channel \notin {"none", "refused"} BY <1>1, NothingComing
  <2> QED BY <2>1, <2>2 DEF There, PlaceInv
<1>3. inbox \in Boxes /\ owed \in Seq(Answers) /\ In(inbox) \in Seq(Answers) BY ThereTypes
<1>4. /\ Tail(inbox) \in Boxes /\ In(Tail(inbox)) = Tail(inbox)
      /\ Head(inbox) = Link => In(inbox) = In(Tail(inbox))
      /\ Head(inbox) # Link => Head(inbox) \in Answers /\ In(inbox) = inbox
  BY <1>1, <1>3, InTake
<1>5. In(inbox)' = In(Tail(inbox)) BY <1>1 DEF In
<1>6. Coming' = In(inbox)' \o owed BY <1>1 DEF Coming
<1>7. rx' = Link => Coming' = Coming /\ In(inbox)' = In(inbox)
  BY <1>1, <1>4, <1>5, <1>6 DEF Coming
<1>8. ASSUME rx' # Link
      PROVE  /\ rx' \in Answers /\ Coming # <<>> /\ rx' = Head(Coming)
             /\ Coming' = Tail(Coming) /\ In(inbox) = <<rx'>> \o In(inbox)'
  <2>1. Head(inbox) \in Answers /\ In(inbox) = inbox BY <1>1, <1>4, <1>8
  <2>2. inbox \in Seq(Answers) BY <1>3, <2>1
  <2> HIDE DEF In, Answers
  <2>3. /\ inbox \o owed # <<>> /\ Head(inbox \o owed) = Head(inbox)
        /\ Tail(inbox \o owed) = Tail(inbox) \o owed /\ inbox = <<Head(inbox)>> \o Tail(inbox)
    BY <1>1, <1>3, <2>2, FirstOff
  <2>4. Coming = inbox \o owed BY <2>1 DEF Coming
  <2>5. Coming' = Tail(inbox) \o owed BY <1>4, <1>5, <1>6
  <2> QED BY <1>1, <1>4, <1>5, <2>1, <2>3, <2>4, <2>5
<1> QED BY <1>1, <1>2, <1>4, <1>7, <1>8


(* The first of what was to come is now about to be printed.               *)
LEMMA ThereReceives ==
  ASSUME There, PlaceInv', ReceivePacket
  PROVE  ThereThen'
<1>1. /\ channel = "open" /\ Op \in Receiving /\ inbox' \in Boxes
      /\ UNCHANGED <<example, owed, unprinted, segment, misprint, crashed, looping, channel>>
      /\ rx' = Link => Coming' = Coming /\ In(inbox)' = In(inbox)
      /\ rx' # Link => /\ rx' \in Answers /\ Coming # <<>> /\ rx' = Head(Coming)
                       /\ Coming' = Tail(Coming) /\ In(inbox) = <<rx'>> \o In(inbox)'
  BY Received
<1>2. at' = IF Wanted(rx') THEN at + 1 ELSE at BY DEF ReceivePacket, Advance, Goto
<1>3. PlaceInv /\ at \in Nat BY AtShape DEF There, PlaceInv
<1>4. ASSUME Op = "receive_node" PROVE example = "ncp" /\ at = 5 /\ Coming = <<NodePacket>>
  <2>1. example = "ncp" /\ at = 5 BY <1>3, <1>4, AtShape DEF ShapeAt, Op
  <2> QED BY <1>1, <2>1 DEF There, StatusInv, NodeAt
<1>5. rx' # Link => at' = at + 1
  <2> SUFFICES ASSUME rx' # Link PROVE Wanted(rx') BY <1>2
  <2>1. rx'.kind # "link" BY <1>1, AnswerKinds
  <2>2. Op = "receive_node" => rx' = NodePacket /\ NodePacket.kind = "node"
    BY <1>1, <1>4 DEF NodePacket, Packet
  <2> QED BY <1>1, <2>1, <2>2 DEF Wanted, Receiving
<1>6. rx' = Link => at' = IF Op = "receive_any" THEN at + 1 ELSE at
  <2> SUFFICES ASSUME rx' = Link PROVE Wanted(rx') <=> Op = "receive_any" BY <1>2
  <2>1. rx'.kind = "link" BY DEF Link, Packet
  <2> QED BY <1>1, <2>1 DEF Wanted, Receiving
<1>7. at' = at + 1 => Op' = "print" BY <1>1, <1>3, NextOp
<1>8. at' = at => Op' # "print" BY <1>1 DEF Op, Receiving
<1>9. Op = "receive_any" => example = "ncp" /\ at = 8 BY <1>3, AtShape DEF ShapeAt, Op
<1>10. FlowInv'
  <2>1. unprinted = In(inbox)
    <3>1. Op # "print" BY <1>1 DEF Receiving
    <3> QED BY <3>1 DEF There, FlowInv
  <2>2. unprinted' = IF Op' = "print" /\ rx' \notin {Link, Blank} THEN <<rx'>> \o In(inbox)'
                     ELSE In(inbox)'
    <3>1. CASE rx' = Link BY <1>1, <2>1, <3>1
    <3>2. CASE rx' # Link
      <4>1. rx' \notin {Link, Blank} /\ Op' = "print" BY <1>1, <1>5, <1>7, <3>2, AnswerKinds
      <4> QED BY <1>1, <2>1, <3>2, <4>1
    <3> QED BY <3>1, <3>2
  <2>3. \A i \in 1..Len(inbox') : inbox'[i] \in Answers \/ (i = 1 /\ inbox'[i] = Link)
    BY <1>1 DEF Boxes
  <2>4. (misprint' => example' = "versions") /\ ~crashed' /\ channel' = "open"
    BY <1>1 DEF There, FlowInv
  <2> HIDE DEF In, Op, Size, Answers
  <2> QED BY <2>2, <2>3, <2>4 DEF FlowInv
<1> HIDE DEF Coming
<1>11. StatusInv'
  <2> SUFFICES ASSUME example \in {"gps", "versions", "bdc", "ncp"} PROVE StatusInv'
    BY <1>1 DEF StatusInv
  <2> DEFINE a == NodeAt(example)
  <2>1. StatusShape(example, Script[example], at) BY <1>3, AtStatus
  <2>2. a \in {3, 4} /\ a' = a BY <1>1 DEF NodeAt
  <2>3. at > a /\ at # a + 2 /\ (example \in {"gps", "versions"} => at = a + 1)
    BY <1>1, <1>3, <2>1, <2>2 DEF StatusShape, Op, Receiving
  <2>4. /\ at <= 6 \/ example \in {"gps", "versions"} => ~looping
        /\ at = a + 1 => Coming = <<NodePacket>>
    BY <1>1 DEF There, StatusInv
  <2>5. Tail(<<NodePacket>>) = <<>> OBVIOUS
  <2>6. Op = "receive_any" => at = 8 /\ example = "ncp" BY <1>9
  <2> HIDE DEF a, Op, NodePacket
  <2>7. CASE at' = at /\ rx' = Link
    <3>1. Coming' = Coming /\ looping' = looping /\ example' = example BY <1>1, <2>7
    <3>2. /\ at' <= 6 \/ example' \in {"gps", "versions"} => ~looping'
          /\ ~(at' <= a \/ at' = a + 2)
          /\ at' = a + 1 => Coming' = <<NodePacket>>
          /\ ~(example' \in {"gps", "versions"} /\ at' > a + 1)
      BY <1>3, <2>2, <2>3, <2>4, <2>7, <3>1
    <3>3. NodePacket' = NodePacket BY DEF NodePacket, Packet
    <3> QED BY <2>2, <3>2, <3>3 DEF StatusInv, a
  <2>8. CASE at' = at + 1 /\ rx' = Link
    <3>1. example' = "ncp" /\ at' = 9 BY <1>1, <1>3, <1>6, <2>6, <2>8
    <3> QED BY <3>1 DEF StatusInv, NodeAt
  <2>9. CASE rx' # Link
    <3>1. at = a + 1 => Coming' = <<>> BY <1>1, <2>4, <2>5, <2>9
    <3>2. at' = at + 1 /\ looping' = looping /\ example' = example BY <1>1, <1>5, <2>9
    <3>3. /\ at' <= 6 \/ example' \in {"gps", "versions"} => ~looping'
          /\ at' > a + 1
          /\ at' = a + 2 => Coming' = <<>>
          /\ example' \in {"gps", "versions"} => Coming' = <<>>
      BY <1>3, <2>2, <2>3, <2>4, <3>1, <3>2
    <3> QED BY <1>3, <2>2, <3>2, <3>3 DEF StatusInv, a
  <2> QED BY <1>5, <1>6, <2>7, <2>8, <2>9
<1>12. SegmentInv'
  <2> SUFFICES ASSUME example \in {"single", "triggered", "bdc"} PROVE SegmentInv'
    BY <1>1 DEF SegmentInv
  <2> DEFINE a == OnceAt(example)
  <2>1. SegmentShape(example, Script[example], at) BY <1>3, AtSegment
  <2>2. a \in {3, 6} /\ a' = a /\ (a = 6 <=> example = "bdc") BY <1>1 DEF OnceAt
  <2>3. at \in {a + 1, a + 3} \/ (a = 6 /\ at = 4)
    BY <1>1, <2>1 DEF SegmentShape, Op, OnceAt
  <2>4. Op # "receive_any" BY <1>9
  <2>5. ~looping' BY <1>1 DEF There, SegmentInv
  <2>6. at <= a + 2 => segment = <<0, 0>> BY DEF There, SegmentInv
  <2>7. /\ \A n : LeftUnread(n)' = LeftUnread(n) /\ (Single(n)' <=> Single(n))
        /\ \A k, n : Rest(k, n)' = Rest(k, n) /\ Response(n)' = Response(n)
    BY <1>1, SegmentSame
  <2>8. Ack' = Ack /\ Blank' = Blank BY DEF Ack, Blank, Packet
  <2>9. CASE rx' = Link
    <3>1. at' = at /\ Coming' = Coming BY <1>1, <1>6, <2>4, <2>9
    <3>2. /\ at = a + 1 => \E n \in 1..MaxSegments :
                             Coming = <<Ack>> \o (Response(n) \o LeftUnread(n))
          /\ at = a + 3 => \E n \in 1..MaxSegments : \E k \in 1..n :
                             Single(n) /\ Coming = Rest(k, n) \o LeftUnread(n)
      BY <1>1 DEF There, SegmentInv
    <3> HIDE DEF a, Rest, Response, LeftUnread, Single, Ack, Blank
    <3>3. /\ at' <= a + 2 => segment' = <<0, 0>>
          /\ ~(at' = a \/ (example' # "bdc" /\ at' < a)) /\ ~(at' > a + 5)
          /\ at' # a + 2 /\ at' \notin {a + 4, a + 5}
      BY <1>1, <1>3, <2>2, <2>3, <2>6, <3>1
    <3> QED BY <1>1, <2>2, <2>5, <2>7, <2>8, <3>1, <3>2, <3>3 DEF SegmentInv, a
  <2>10. CASE rx' # Link
    <3>1. at' = at + 1 BY <1>5, <2>10
    <3>2. ASSUME at = a + 1
          PROVE  \E n \in 1..MaxSegments : Coming' = Response(n) \o LeftUnread(n)
      <4>1. PICK n \in 1..MaxSegments : Coming = <<Ack>> \o (Response(n) \o LeftUnread(n))
        BY <1>1, <3>2 DEF There, SegmentInv
      <4>2. Ack \in Answers /\ Response(n) \o LeftUnread(n) \in Seq(Answers)
        <5>1. \A s, t \in Seq(Answers) : s \o t \in Seq(Answers) OBVIOUS
        <5> QED BY <5>1, AnswerKinds, ResponseAnswers, LeftType
      <4> DEFINE q == Response(n) \o LeftUnread(n)
      <4>3. Tail(<<Ack>> \o q) = q
        <5> HIDE DEF q, Ack
        <5>1. Ack \in Answers /\ q \in Seq(Answers) BY <4>2 DEF q
        <5> QED BY <5>1, TakeFirst
      <4> QED BY <1>1, <2>10, <4>1, <4>3
    <3>3. ASSUME at = a + 3
          PROVE  \E n \in 1..MaxSegments : \E k \in 1..n :
                   /\ Single(n) /\ rx' = Response(n)[k]
                   /\ Coming' = Rest(k + 1, n) \o LeftUnread(n)
      <4>1. PICK n \in 1..MaxSegments : \E k \in 1..n :
              Single(n) /\ Coming = Rest(k, n) \o LeftUnread(n)
        BY <1>1, <3>3 DEF There, SegmentInv
      <4>2. PICK k \in 1..n : Single(n) /\ Coming = Rest(k, n) \o LeftUnread(n) BY <4>1
      <4>3. /\ Rest(k, n) # <<>> /\ Head(Rest(k, n)) = Response(n)[k]
            /\ Tail(Rest(k, n)) = Rest(k + 1, n)
        BY RestTypes
      <4>4. Rest(k, n) \in Seq(Answers) BY RestAnswers
      <4>5. LeftUnread(n) \in Seq(Answers) BY LeftType
      <4> DEFINE u == Rest(k, n)
                 v == LeftUnread(n)
      <4>6. Head(u \o v) = Head(u) /\ Tail(u \o v) = Tail(u) \o v
        <5>1. u \in Seq(Answers) /\ v \in Seq(Answers) /\ u # <<>> BY <4>3, <4>4, <4>5
        <5> HIDE DEF u, v, Answers
        <5> QED BY ONLY <5>1, FirstOff
      <4>7. rx' = Head(u \o v) /\ Coming' = Tail(u \o v) BY <1>1, <2>10, <4>2
      <4>8. rx' = Response(n)[k] /\ Coming' = Rest(k + 1, n) \o LeftUnread(n)
        BY <4>3, <4>6, <4>7
      <4> HIDE DEF u, v, Rest, Response, LeftUnread, Single, Coming
      <4> QED BY <4>2, <4>8
    <3> HIDE DEF a, Rest, Response, LeftUnread, Single, Ack, Blank
    <3>4. /\ at' <= a + 2 => segment' = <<0, 0>>
          /\ ~(at' = a \/ (example' # "bdc" /\ at' < a)) /\ ~(at' > a + 5)
          /\ at' # a + 1 /\ at' # a + 3 /\ at' # a + 5
          /\ at' = a + 2 => at = a + 1
          /\ at' = a + 4 => at = a + 3
      BY <1>1, <1>3, <2>2, <2>3, <2>6, <3>1
    <3> QED BY <1>1, <2>2, <2>5, <2>7, <2>8, <3>2, <3>3, <3>4 DEF SegmentInv, a
  <2> QED BY <2>9, <2>10
<1> QED BY <1>10, <1>11, <1>12 DEF ThereThen

(* What is asked for is then to come.                                      *)
LEMMA Asked ==
  ASSUME There, NEW m \in 1..MaxSegments, Ask(m)
  PROVE  /\ channel # "open" => Coming' = Coming
         /\ Coming = <<>> /\ channel = "open" => Coming' = Answer(Op, m)
<1>1. /\ UNCHANGED inbox
      /\ owed' = IF channel = "open" THEN owed \o Answer(Op, m) ELSE owed
  BY DEF Ask, Reachable, There
<1>2. In(inbox)' = In(inbox) BY <1>1 DEF In
<1>3. channel # "open" => Coming' = Coming BY <1>1, <1>2 DEF Coming
<1>4. ASSUME Coming = <<>>, channel = "open" PROVE Coming' = Answer(Op, m)
  <2>1. Answer(Op, m) \in Seq(Answers) BY AnswerType
  <2>2. owed' = owed \o Answer(Op, m) BY <1>1, <1>4
  <2>3. In(inbox) \in Seq(Answers) /\ owed \in Seq(Answers) BY ThereTypes
  <2> HIDE DEF In, Answers
  <2>4. In(inbox) \o (owed \o Answer(Op, m)) = (In(inbox) \o owed) \o Answer(Op, m)
    BY <2>1, <2>3, JoinThree
  <2>5. <<>> \o Answer(Op, m) = Answer(Op, m) BY <2>1, JoinThree
  <2> QED BY <1>2, <1>4, <2>2, <2>4, <2>5 DEF Coming
<1> QED BY <1>3, <1>4

LEMMA ThereAsks ==
  ASSUME There, PlaceInv', NEW m \in 1..MaxSegments, Ask(m)
  PROVE  ThereThen'
<1>1. /\ UNCHANGED <<example, inbox, unprinted, rx, segment, misprint, crashed, channel>>
      /\ Op \in Asking /\ at' = at + 1
      /\ owed' = IF channel = "open" THEN owed \o Answer(Op, m) ELSE owed
      /\ looping' = (looping \/ Op = "ask_loop")
  BY DEF Ask, Advance, Goto, reader, Asking, Reachable, There
<1>2. PlaceInv /\ at \in Nat BY AtShape DEF There, PlaceInv
<1>3. channel # "closed" BY <1>1, NotClosed DEF Asking, Parting
<1>4. Op # "print" /\ Op \notin Receiving BY <1>1 DEF Asking, Receiving
<1>5. Op' # "print" BY <1>1, <1>2, <1>4, NextOp
<1>6. FlowInv'
  <2>1. ASSUME example = "ncp", at' \in {4, 5} PROVE channel' = "open"
    <3>1. at \in {3, 4} BY <1>1, <1>2, <2>1
    <3>2. at = 4 BY <1>1, <1>2, <2>1, <3>1, NcpCalls DEF Asking
    <3> QED BY <1>1, <2>1, <3>2 DEF There, FlowInv
  <2>2. channel \in {"none", "refused"} => owed' = owed BY <1>1
  <2> QED BY <1>1, <1>3, <1>4, <1>5, <2>1, <2>2, FlowMoves
<1>7. Coming = <<>> /\ channel = "open" => Coming' = Answer(Op, m) BY Asked
<1> HIDE DEF Coming
<1>8. StatusInv'
  <2> SUFFICES ASSUME example \in {"gps", "versions", "bdc", "ncp"} PROVE StatusInv'
    BY <1>1 DEF StatusInv
  <2> DEFINE a == NodeAt(example)
  <2>1. StatusShape(example, Script[example], at) BY <1>2, AtStatus
  <2>2. a \in {3, 4} /\ a' = a BY <1>1 DEF NodeAt
  <2>3. at = a \/ at > a + 2
    BY <1>1, <1>2, <2>1, <2>2 DEF StatusShape, Op, Asking
  <2>4. /\ at = a => Op = "ask_node" /\ Coming = <<>> /\ ~looping
        /\ example \in {"gps", "versions"} => at = a
        /\ Op = "ask_loop" => at = 7 /\ example = "ncp"
        /\ at <= 6 \/ example \in {"gps", "versions"} => ~looping
    BY <1>1, <1>2, <2>1, <2>2 DEF StatusShape, Op, Asking, There, StatusInv
  <2>5. Answer("ask_node", m) = <<NodePacket>> BY DEF Answer, NodePacket
  <2> HIDE DEF a, Op, NodePacket
  <2>6. CASE at = a
    <3>1. at' = a + 1 /\ ~looping' /\ example' = example
          /\ (channel' = "open" => Coming' = <<NodePacket>>)
      BY <1>1, <1>7, <2>4, <2>5, <2>6
    <3> QED BY <2>2, <3>1 DEF StatusInv, a
  <2>7. CASE at > a + 2
    <3>1. /\ example' \notin {"gps", "versions"}
          /\ ~(at' <= a \/ at' = a + 2) /\ at' # a + 1
          /\ at' <= 6 => ~looping'
      BY <1>1, <1>2, <2>2, <2>4, <2>7
    <3> QED BY <2>2, <3>1 DEF StatusInv, a
  <2> QED BY <2>3, <2>6, <2>7
<1>9. SegmentInv'
  <2> SUFFICES ASSUME example \in {"single", "triggered", "bdc"} PROVE SegmentInv'
    BY <1>1 DEF SegmentInv
  <2> DEFINE a == OnceAt(example)
  <2>1. SegmentShape(example, Script[example], at) BY <1>2, AtSegment
  <2>2. a \in {3, 6} /\ a' = a /\ (a = 6 <=> example = "bdc") BY <1>1 DEF OnceAt
  <2>3. at = a \/ (a = 6 /\ at = 3)
    BY <1>1, <2>1 DEF SegmentShape, Op, Asking, OnceAt
  <2>4. ~looping'
    BY <1>1, <2>1 DEF SegmentShape, Op, There, SegmentInv
  <2>5. /\ at = a => Coming = <<>>
        /\ at <= a + 2 => segment = <<0, 0>>
    BY DEF There, SegmentInv
  <2>6. at = a => Answer(Op, m) = <<Ack>> \o (Response(m) \o LeftUnread(m))
    <3> SUFFICES ASSUME at = a PROVE Answer(Op, m) = <<Ack>> \o (Response(m) \o LeftUnread(m))
      OBVIOUS
    <3>1. Op = IF example = "triggered" THEN "ask_triggered" ELSE "ask_once"
      BY <2>1 DEF SegmentShape, Op
    <3>2. CASE example = "triggered"
      <4>1. LeftUnread(m) = FurtherCaptures(m) BY <3>2 DEF LeftUnread
      <4> QED BY <3>1, <3>2, <4>1 DEF Answer, Ack
    <3>3. CASE example # "triggered"
      <4>1. LeftUnread(m) = <<>> BY <3>3 DEF LeftUnread
      <4>2. Response(m) \in Seq(Answers) BY ResponseAnswers
      <4>3. Response(m) \o <<>> = Response(m)
        <5> DEFINE s == Response(m)
        <5>1. s \in Seq(Answers) BY <4>2
        <5> HIDE DEF s, Answers
        <5>2. s \o <<>> = s BY ONLY <5>1
        <5> QED BY <5>2 DEF s
      <4> QED BY <3>1, <3>3, <4>1, <4>3 DEF Answer, Ack
    <3> QED BY <3>2, <3>3
  <2>7. /\ \A n : LeftUnread(n)' = LeftUnread(n) /\ Response(n)' = Response(n)
        /\ Ack' = Ack /\ Blank' = Blank
    BY <1>1, LeftSame DEF Ack, Blank, Packet
  <2> HIDE DEF a, Op, Ack, Blank, Response, LeftUnread
  <2>8. CASE at = a
    <3>1. at' = a + 1 /\ (channel' = "open" => Coming' = <<Ack>> \o (Response(m) \o LeftUnread(m)))
      BY <1>1, <1>7, <2>5, <2>6, <2>8
    <3>2. /\ at' # a /\ ~(example' # "bdc" /\ at' < a) /\ ~(at' > a + 5)
          /\ at' # a + 2 /\ at' # a + 3 /\ at' \notin {a + 4, a + 5}
          /\ segment' = <<0, 0>>
      BY <1>1, <1>2, <2>2, <2>5, <2>8, <3>1
    <3>3. channel' = "open" /\ at' = a + 1 =>
            \E n \in 1..MaxSegments : Coming' = <<Ack>> \o (Response(n) \o LeftUnread(n))
      BY <3>1
    <3> QED BY <2>2, <2>4, <2>7, <3>2, <3>3 DEF SegmentInv, a
  <2>9. CASE a = 6 /\ at = 3
    <3>1. at' = 4 /\ example' = "bdc" /\ segment' = <<0, 0>> BY <1>1, <2>2, <2>5, <2>9
    <3> QED BY <2>2, <2>4, <2>9, <3>1 DEF SegmentInv, a
  <2> QED BY <2>3, <2>8, <2>9
<1> QED BY <1>6, <1>8, <1>9 DEF ThereThen


(* Of sequences                                                            *)
LEMMA LastAfter ==
  ASSUME NEW T, NEW p \in T, NEW s \in Seq(T), NEW q \in T
  PROVE  Append(<<p>> \o s, q) = <<p>> \o Append(s, q)
OBVIOUS

(* Nothing that is said of what comes changes with it and the place the same. *)
LEMMA ComingStays ==
  ASSUME There, UNCHANGED <<example, at, rx, segment, looping, channel>>, Coming' = Coming
  PROVE  StatusInv' /\ SegmentInv'
<1>1. NodeAt(example)' = NodeAt(example) /\ OnceAt(example)' = OnceAt(example)
  BY DEF NodeAt, OnceAt
<1>2. NodePacket' = NodePacket /\ Ack' = Ack /\ Blank' = Blank
  BY DEF NodePacket, Ack, Blank, Packet
<1>3. /\ \A n : LeftUnread(n)' = LeftUnread(n) /\ (Single(n)' <=> Single(n))
      /\ \A k, n : Rest(k, n)' = Rest(k, n) /\ Response(n)' = Response(n)
  BY SegmentSame
<1> HIDE DEF Coming, NodeAt, OnceAt, NodePacket, Ack, Blank, Rest, Response, LeftUnread, Single
<1>4. StatusInv' BY <1>1, <1>2 DEF There, StatusInv
<1>5. SegmentInv' BY <1>1, <1>2, <1>3 DEF There, SegmentInv
<1> QED BY <1>4, <1>5

(* What the node does: an answer goes from what is owed to the box of the  *)
(* program, and what is to come remains the same.                          *)
LEMMA NodeKeeps ==
  ASSUME There, NodeSends \/ NodeLinks
  PROVE  Coming' = Coming
<1>1. CASE NodeSends
  <2>1. owed # <<>> /\ inbox' = Append(inbox, Head(owed)) /\ owed' = Tail(owed)
    BY <1>1 DEF NodeSends
  <2>2. inbox \in Boxes /\ In(inbox) \in Seq(Answers) /\ owed \in Seq(Answers) BY ThereTypes
  <2>3. Head(owed) \in Answers BY <2>1, <2>2, BoxSteps
  <2>4. In(Append(inbox, Head(owed))) = Append(In(inbox), Head(owed)) BY <2>2, <2>3, InAdd
  <2>5. In(inbox)' = Append(In(inbox), Head(owed)) BY <2>1, <2>4 DEF In
  <2> HIDE DEF In, Answers
  <2>6. Append(In(inbox), Head(owed)) \o Tail(owed) = In(inbox) \o owed BY <2>1, <2>2, LastOn
  <2> QED BY <2>1, <2>5, <2>6 DEF Coming
<1>2. CASE NodeLinks
  <2>1. inbox = <<>> /\ inbox' = <<Link>> /\ owed' = owed BY <1>2 DEF NodeLinks
  <2>2. In(inbox) = <<>> /\ In(inbox)' = <<>> BY <2>1 DEF In
  <2> QED BY <2>1, <2>2 DEF Coming
<1> QED BY <1>1, <1>2

LEMMA ThereSends ==
  ASSUME There, NodeSends
  PROVE  ThereThen'
<1>1. /\ UNCHANGED <<example, at, rx, segment, misprint, crashed, looping, channel>>
      /\ channel = "open" /\ owed # <<>>
      /\ inbox' = Append(inbox, Head(owed)) /\ owed' = Tail(owed)
      /\ unprinted' = Append(unprinted, Head(owed))
  BY DEF NodeSends, Reachable, reader
<1>2. /\ inbox \in Boxes /\ In(inbox) \in Seq(Answers) /\ owed \in Seq(Answers)
  BY ThereTypes
<1>3. Head(owed) \in Answers BY <1>1, <1>2, BoxSteps
<1>4. /\ Append(inbox, Head(owed)) \in Boxes
      /\ In(Append(inbox, Head(owed))) = Append(In(inbox), Head(owed))
  BY <1>2, <1>3, InAdd
<1>5. In(inbox)' = Append(In(inbox), Head(owed)) BY <1>1, <1>4 DEF In
<1>6. Coming' = Coming BY NodeKeeps
<1>7. Op' = Op /\ Size' = Size BY <1>1 DEF Op, Size
<1>8. FlowInv'
  <2>1. unprinted' = IF Op' = "print" /\ rx' \notin {Link, Blank} THEN <<rx'>> \o In(inbox)'
                     ELSE In(inbox)'
    <3>1. CASE Op = "print" /\ rx \notin {Link, Blank}
      <4>1. unprinted = <<rx>> \o In(inbox) BY <3>1 DEF There, FlowInv
      <4>2. rx \in Answers BY <3>1 DEF There, StreamInv
      <4> HIDE DEF In, Answers
      <4>3. Append(<<rx>> \o In(inbox), Head(owed)) = <<rx>> \o Append(In(inbox), Head(owed))
        BY <1>2, <1>3, <4>2, LastAfter
      <4> QED BY <1>1, <1>5, <1>7, <3>1, <4>1, <4>3
    <3>2. CASE ~(Op = "print" /\ rx \notin {Link, Blank})
      <4>1. unprinted = In(inbox) BY <3>2 DEF There, FlowInv
      <4> QED BY <1>1, <1>5, <1>7, <3>2, <4>1
    <3> QED BY <3>1, <3>2
  <2>2. \A i \in 1..Len(inbox') : inbox'[i] \in Answers \/ (i = 1 /\ inbox'[i] = Link)
    BY <1>1, <1>4 DEF Boxes
  <2>3. (misprint' => example' = "versions") /\ ~crashed' /\ channel' = "open"
    BY <1>1 DEF There, FlowInv
  <2> HIDE DEF In, Op, Size, Answers
  <2> QED BY <2>1, <2>2, <2>3 DEF FlowInv
<1>9. StatusInv' /\ SegmentInv' BY <1>1, <1>6, ComingStays
<1> QED BY <1>8, <1>9 DEF ThereThen

(* "Once a second the node sends a packet to check": nothing of an answer. *)
LEMMA ThereLinks ==
  ASSUME There, NodeLinks
  PROVE  ThereThen'
<1>1. /\ UNCHANGED <<example, at, rx, segment, misprint, crashed, looping, channel>>
      /\ UNCHANGED <<owed, unprinted>>
      /\ channel = "open" /\ inbox = <<>> /\ inbox' = <<Link>>
  BY DEF NodeLinks, Reachable, reader
<1>2. In(inbox) = <<>> BY <1>1 DEF In
<1>3. In(inbox)' = <<>> BY <1>1 DEF In
<1>4. Coming' = Coming BY NodeKeeps
<1>5. Op' = Op /\ Size' = Size BY <1>1 DEF Op, Size
<1>6. FlowInv'
  <2>1. unprinted' = IF Op' = "print" /\ rx' \notin {Link, Blank} THEN <<rx'>> \o In(inbox)'
                     ELSE In(inbox)'
    BY <1>1, <1>2, <1>3, <1>5 DEF There, FlowInv
  <2>2. \A i \in 1..Len(inbox') : inbox'[i] \in Answers \/ (i = 1 /\ inbox'[i] = Link)
    <3> HIDE DEF Answers, Link
    <3> QED BY <1>1
  <2>3. (misprint' => example' = "versions") /\ ~crashed' /\ channel' = "open"
    BY <1>1 DEF There, FlowInv
  <2> HIDE DEF In, Op, Size, Answers
  <2> QED BY <2>1, <2>2, <2>3 DEF FlowInv
<1>7. StatusInv' /\ SegmentInv' BY <1>1, <1>4, ComingStays
<1> QED BY <1>6, <1>7 DEF ThereThen

(* It repeats its measurements for the examples that loop only.            *)
LEMMA ThereLoops ==
  ASSUME There, NodeRepeats
  PROVE  ThereThen'
<1>1. /\ UNCHANGED <<example, at, rx, segment, misprint, crashed, looping, channel>>
      /\ UNCHANGED <<inbox, unprinted>>
      /\ channel = "open" /\ looping
  BY DEF NodeRepeats, Reachable, reader
<1>2. Op' = Op /\ Size' = Size /\ In(inbox)' = In(inbox) BY <1>1 DEF Op, Size, In
<1>3. FlowInv'
  <2>1. /\ (misprint' => example' = "versions") /\ ~crashed' /\ channel' = "open"
        /\ \A i \in 1..Len(inbox') : inbox'[i] \in Answers \/ (i = 1 /\ inbox'[i] = Link)
    BY <1>1 DEF There, FlowInv
  <2>2. unprinted' = IF Op' = "print" /\ rx' \notin {Link, Blank} THEN <<rx'>> \o In(inbox)'
                     ELSE In(inbox)'
    BY <1>1, <1>2 DEF There, FlowInv
  <2> HIDE DEF In, Op, Size, Answers
  <2> QED BY <2>1, <2>2 DEF FlowInv
<1>4. example' \notin {"single", "triggered", "bdc"} BY <1>1 DEF There, SegmentInv
<1>5. example' \in {"gps", "versions", "bdc", "ncp"} =>
        example' = "ncp" /\ at' \in Nat /\ ~(at' <= 6)
  <2>1. at \in Nat BY AtShape DEF There, PlaceInv
  <2> QED BY <1>1, <1>4, <2>1 DEF There, StatusInv
<1>6. StatusInv'
  <2> HIDE DEF Coming
  <2> QED BY <1>5 DEF StatusInv, NodeAt
<1>7. SegmentInv' BY <1>4 DEF SegmentInv
<1> QED BY <1>3, <1>6, <1>7 DEF ThereThen

LEMMA ThereStays ==
  ASSUME There, UNCHANGED exampleVars
  PROVE  ThereThen'
<1>1. /\ UNCHANGED <<example, at, rx, segment, misprint, crashed, looping, channel>>
      /\ UNCHANGED <<inbox, owed, unprinted>>
  BY DEF exampleVars
<1>2. Op' = Op /\ Size' = Size /\ In(inbox)' = In(inbox) /\ Coming' = Coming
  BY <1>1 DEF Op, Size, In, Coming
<1>3. FlowInv'
  <2> HIDE DEF In, Op, Size, Answers
  <2> QED BY <1>1, <1>2 DEF There, FlowInv
<1>4. StatusInv' /\ SegmentInv' BY <1>1, <1>2, ComingStays
<1> QED BY <1>3, <1>4 DEF ThereThen

-----------------------------------------------------------------------------
(* The theorems *)

(* A node that is lost does not come back. *)
LEMMA LostStays ==
  ASSUME StreamInv, PlaceInv, [Next]_exampleVars
  PROVE  lost => lost'
BY DEF Next, Call, Create, Free, ConnectActive, ConnectRefused, ConnectBroken, ConnectTimesOut,
       IfConnected, Fi, Ask, ReceivePacket, ReceiveFails, Spin, Read, PrintPacket, UntilLast,
       ForEver, Repeat, Disconnect, Exit, NodeSends, NodeRepeats, NodeLinks, NodeLost, Reachable,
       exampleVars, node

LEMMA ThereNext ==
  ASSUME There, PlaceInv', ~lost', [Next]_exampleVars
  PROVE  ThereThen'
<1>1. CASE Create \/ Free \/ ConnectRefused \/ Fi \/ Read \/ Disconnect BY <1>1, ThereMoves
<1>2. CASE ConnectActive BY <1>2, ThereConnects
<1>3. CASE ConnectTimesOut BY <1>3 DEF ConnectTimesOut, There
<1>4. CASE IfConnected BY <1>4, ThereBranches
<1>5. ASSUME NEW n \in 1..MaxSegments, Ask(n) PROVE ThereThen' BY <1>5, ThereAsks
<1>6. CASE ReceivePacket BY <1>6, ThereReceives
<1>7. CASE ReceiveFails BY <1>7, ThereFails
<1>8. CASE PrintPacket BY <1>8, TherePrints
<1>9. CASE UntilLast BY <1>9, ThereLooks
<1>10. CASE ForEver \/ Repeat BY <1>10, ThereRepeats
<1>11. CASE ConnectBroken \/ NodeLost BY <1>11 DEF ConnectBroken, NodeLost
<1>12. CASE NodeSends BY <1>12, ThereSends
<1>13. CASE NodeRepeats BY <1>13, ThereLoops
<1>14. CASE NodeLinks BY <1>14, ThereLinks
<1>15. CASE Spin \/ Exit \/ UNCHANGED exampleVars
  <2>1. UNCHANGED exampleVars BY <1>15 DEF Spin, Exit
  <2> QED BY <2>1, ThereStays
<1> QED BY <1>1, <1>2, <1>3, <1>4, <1>5, <1>6, <1>7, <1>8, <1>9, <1>10, <1>11, <1>12, <1>13,
           <1>14, <1>15 DEF Next, Call

LEMMA ThereInit == ASSUME Init PROVE ThereThen
<1>1. /\ inbox = <<>> /\ owed = <<>> /\ unprinted = <<>> /\ rx = Blank /\ at = 1 /\ channel = "none"
      /\ segment = <<0, 0>> /\ ~misprint /\ ~crashed /\ ~looping
  BY DEF Init
<1>2. In(inbox) = <<>> BY <1>1 DEF In
<1>3. Coming = <<>> BY <1>1, <1>2 DEF Coming
<1>4. FlowInv
  <2> HIDE DEF In, Op, Size, Answers
  <2> QED BY <1>1, <1>2 DEF FlowInv
<1> HIDE DEF Coming
<1>5. StatusInv
  <2>1. NodeAt(example) \in {3, 4} BY DEF NodeAt
  <2> HIDE DEF NodeAt
  <2> QED BY <1>1, <1>3, <2>1 DEF StatusInv
<1>6. SegmentInv
  <2>1. OnceAt(example) \in {3, 6} BY DEF OnceAt
  <2> HIDE DEF OnceAt
  <2> QED BY <1>1, <1>3, <2>1 DEF SegmentInv
<1> QED BY <1>4, <1>5, <1>6 DEF ThereThen

(* The time is set: what comes then is not received.                       *)
LEMMA TimeCalls ==
  ASSUME PlaceInv, example = "set_time"
  PROVE  /\ at \in 1..10 /\ Size = 10
         /\ Op \notin Receiving \cup {"print", "until_last", "for_ever", "repeat", "ask_node",
                                     "ask_triggered", "ask_loop", "connect_for_3_s"}
         /\ (Op = "connect" <=> at = 2) /\ (Op = "if_connected" <=> at = 3)
         /\ (Op = "ask_once" <=> at = 4)
         /\ \A i \in 1..Size : Script[example][i] = "fi" => i = 8
<1>1. Script[example] = SetTime BY DEF Script
<1>2. Len(SetTime) = 10 BY DEF SetTime
<1>3. at \in {1, 2, 3, 4, 5, 6, 7, 8, 9, 10} /\ Size = 10 BY <1>1, <1>2 DEF PlaceInv, Size
<1>4. \A i \in {1, 2, 3, 4, 5, 6, 7, 8, 9, 10} : SetTime[i] = "fi" => i = 8 BY DEF SetTime
<1> QED BY <1>1, <1>3, <1>4 DEF Op, SetTime, Receiving, Parting

LEMMA TimeInit == ASSUME Init PROVE TimeInv
<1>1. inbox = <<>> /\ owed = <<>> /\ at = 1 /\ channel = "none" /\ ~looping BY DEF Init
<1>2. Coming = <<>> BY <1>1 DEF Coming, In
<1> HIDE DEF Coming
<1> QED BY <1>1, <1>2 DEF TimeInv

LEMMA TimeNext ==
  ASSUME There, TimeInv, PlaceInv', ~lost', [Next]_exampleVars
  PROVE  TimeInv'
<1>1. example' = example
  BY DEF Next, Call, Create, Free, ConnectActive, ConnectRefused, ConnectBroken, ConnectTimesOut,
         IfConnected, Fi, Ask, ReceivePacket, ReceiveFails, Spin, Read, PrintPacket, UntilLast,
         ForEver, Repeat, Disconnect, Exit, NodeSends, NodeRepeats, NodeLinks, NodeLost,
         exampleVars
<1> SUFFICES ASSUME example = "set_time" PROVE TimeInv' BY <1>1 DEF TimeInv
<1>2. PlaceInv /\ at \in Nat BY AtShape DEF There, PlaceInv
<1>3. /\ ~looping /\ (channel = "open" => rx = Link)
      /\ at <= 4 => Coming = <<>>
      /\ at > 4 => IF rx = Blank THEN Coming = <<>>
                   ELSE \E n \in 1..MaxSegments : Coming = LeftUnread(n)
  BY DEF TimeInv
<1>4. /\ \A n : LeftUnread(n)' = LeftUnread(n)
      /\ Link' = Link /\ Blank' = Blank
  BY <1>1, LeftSame DEF Link, Blank, Packet
<1>5. Op \notin Parting => channel # "closed" BY NotClosed
<1>6. channel \in {"none", "refused"} => rx = Blank /\ Coming = <<>> BY NothingComing
<1>7. CASE Create \/ Free \/ ConnectRefused \/ Fi \/ Read \/ Disconnect
  <2>1. /\ UNCHANGED <<inbox, owed, rx, looping>> /\ at' = at + 1
        /\ channel' = "open" => channel = "open"
    BY <1>7 DEF Create, Free, ConnectRefused, Fi, Read, Disconnect, Advance, Goto, node, reader
  <2>2. Op \notin {"ask_once", "if_connected"}
    BY <1>7 DEF Create, Free, ConnectRefused, Fi, Read, Disconnect
  <2>3. at # 4 BY <1>2, <2>2, TimeCalls
  <2>4. Coming' = Coming BY <2>1, ComingSame
  <2>5. (at' <= 4 => at <= 4) /\ (at' > 4 => at > 4) BY <1>2, <2>1, <2>3
  <2> HIDE DEF Coming, LeftUnread, Link, Blank
  <2> QED BY <1>3, <1>4, <2>1, <2>4, <2>5 DEF TimeInv
<1>8. CASE ConnectActive
  <2>1. UNCHANGED <<inbox, owed, looping>> /\ rx' = Link /\ at' = at + 1 /\ at = 2
    BY <1>2, <1>8, TimeCalls DEF ConnectActive, Advance, Goto, node
  <2>2. Coming' = Coming BY <2>1, ComingSame
  <2> HIDE DEF Coming, LeftUnread, Link, Blank
  <2> QED BY <1>3, <1>4, <2>1, <2>2 DEF TimeInv
<1>9. CASE ConnectTimesOut \/ ConnectBroken \/ NodeLost
  BY <1>9 DEF ConnectTimesOut, ConnectBroken, NodeLost, There
<1>10. CASE IfConnected
  <2>1. UNCHANGED <<inbox, owed, rx, looping, channel>> /\ Op = "if_connected"
    BY <1>10 DEF IfConnected, node, reader
  <2>2. Coming' = Coming BY <2>1, ComingSame
  <2>3. at = 3 BY <1>2, <2>1, TimeCalls
  <2>4. CASE channel = "open"
    <3>1. at' = 4 BY <1>10, <2>3, <2>4 DEF IfConnected, Goto
    <3> HIDE DEF Coming, LeftUnread, Link, Blank
    <3> QED BY <1>3, <1>4, <2>1, <2>2, <2>3, <3>1 DEF TimeInv
  <2>5. CASE channel # "open"
    <3>1. rx = Blank /\ Coming = <<>>
      BY <1>2, <1>5, <1>6, <2>1, <2>5 DEF Parting, PlaceInv
    <3>2. at' = SelectInSeq(Script[example], LAMBDA op : op = "fi")
      BY <1>10, <2>5 DEF IfConnected, Goto
    <3>3. at' \in 4..Size - 2 /\ Script[example][at'] = "fi" BY <1>2, <2>1, <3>2, FiIs
    <3>4. Size = 10 /\ \A i \in 1..Size : Script[example][i] = "fi" => i = 8
      BY <1>2, TimeCalls
    <3>5. at' > 4 BY <3>3, <3>4
    <3> HIDE DEF Coming, LeftUnread, Link, Blank
    <3> QED BY <1>3, <1>4, <2>1, <2>2, <2>5, <3>1, <3>5 DEF TimeInv
  <2> QED BY <2>4, <2>5
<1>11. ASSUME NEW m \in 1..MaxSegments, Ask(m) PROVE TimeInv'
  <2>1. UNCHANGED <<rx, channel>> /\ at' = at + 1 /\ Op \in Asking
        /\ looping' = (looping \/ Op = "ask_loop")
    BY <1>11 DEF Ask, Advance, Goto, reader, Asking
  <2>2. Op = "ask_once" /\ at = 4 BY <1>2, <2>1, TimeCalls DEF Asking
  <2>3. LeftUnread(m) = Answer(Op, m) BY <2>2 DEF LeftUnread
  <2>4. /\ channel # "open" => Coming' = Coming
        /\ Coming = <<>> /\ channel = "open" => Coming' = Answer(Op, m)
    BY <1>11, Asked
  <2>5. channel # "open" => rx = Blank
    BY <1>2, <1>5, <1>6, <2>2 DEF Parting, PlaceInv
  <2>6. Link # Blank BY AnswerKinds
  <2> HIDE DEF Coming, LeftUnread, Link, Blank, Answer
  <2>7. IF rx' = Blank THEN Coming' = <<>>
        ELSE \E n \in 1..MaxSegments : Coming' = LeftUnread(n)
    BY <1>3, <2>1, <2>2, <2>3, <2>4, <2>5, <2>6
  <2>8. at' = 5 /\ ~looping'
    <3>1. at' = 5 BY <2>1, <2>2
    <3>2. Op # "ask_loop" BY <2>2
    <3>3. ~looping' BY <1>3, <2>1, <3>2
    <3> QED BY <3>1, <3>3
  <2> QED BY <1>3, <1>4, <2>1, <2>7, <2>8 DEF TimeInv
<1>12. CASE ReceivePacket \/ ReceiveFails \/ PrintPacket \/ UntilLast \/ ForEver \/ Repeat
  <2>1. Op \in Receiving \cup {"print", "until_last", "for_ever", "repeat"}
    BY <1>12 DEF ReceivePacket, ReceiveFails, Waiting, PrintPacket, UntilLast, ForEver, Repeat,
                 Receiving
  <2> QED BY <1>2, <2>1, TimeCalls
<1>13. CASE NodeSends \/ NodeLinks
  <2>1. UNCHANGED <<at, rx, looping, channel>>
    BY <1>13 DEF NodeSends, NodeLinks, reader
  <2>2. Coming' = Coming BY <1>13, NodeKeeps
  <2> HIDE DEF Coming, LeftUnread, Link, Blank
  <2> QED BY <1>3, <1>4, <2>1, <2>2 DEF TimeInv
<1>14. CASE NodeRepeats BY <1>3, <1>14 DEF NodeRepeats
<1>15. CASE Spin \/ Exit \/ UNCHANGED exampleVars
  <2>1. UNCHANGED <<at, rx, looping, channel, inbox, owed>>
    BY <1>15 DEF Spin, Exit, exampleVars
  <2>2. Coming' = Coming BY <2>1, ComingSame
  <2> HIDE DEF Coming, LeftUnread, Link, Blank
  <2> QED BY <1>3, <1>4, <2>1, <2>2 DEF TimeInv
<1> QED BY <1>7, <1>8, <1>9, <1>10, <1>11, <1>12, <1>13, <1>14, <1>15 DEF Next, Call

LEMMA ExamplesInit == ASSUME Init PROVE ExamplesIInv
BY PlaceInit, StreamInit, ThereInit, TimeInit DEF ThereThen, ExamplesIInv

LEMMA ExamplesNext ==
  ASSUME ExamplesIInv, [Next]_exampleVars
  PROVE  ExamplesIInv'
<1>1. PlaceInv /\ StreamInv BY DEF ExamplesIInv
<1>2. PlaceInv' /\ StreamInv' BY <1>1, PlaceNext, StreamNext
<1>3. ASSUME ~lost' PROVE ThereThen' /\ TimeInv'
  <2>1. ~lost BY <1>1, <1>3, LostStays
  <2>2. There /\ TimeInv BY <2>1 DEF ExamplesIInv, There
  <2> QED BY <1>2, <1>3, <2>2, ThereNext, TimeNext
<1> QED BY <1>2, <1>3 DEF ThereThen, ExamplesIInv

(* At its end an example is behind the calls that receive its answers.     *)
LEMMA AtEnd ==
  ASSUME There, Op = "exit"
  PROVE  /\ example \in {"gps", "versions"} => at > NodeAt(example) + 1
         /\ example \in {"single", "triggered", "bdc"} => at > OnceAt(example) + 5
<1>1. /\ Shape(example, Script[example]) /\ ShapeAt(example, Script[example], at)
      /\ at = Size /\ at \in Nat /\ at > 4
  BY AtShape DEF There, PlaceInv, Shape, ShapeAt, Op, Size
<1>2. example \in {"gps", "versions"} => at > NodeAt(example) + 1 BY <1>1 DEF NodeAt
<1>3. ASSUME example \in {"single", "triggered", "bdc"} PROVE at > OnceAt(example) + 5
  <2> DEFINE a == OnceAt(example)
  <2>1. SegmentShape(example, Script[example], at) BY <1>3, AtSegment DEF There
  <2>2. at \notin {a, a + 1, a + 2, a + 3, a + 4, a + 5} BY <2>1 DEF SegmentShape, Op
  <2>3. example = "bdc" => at # 5
    <3> SUFFICES ASSUME example = "bdc" PROVE at # 5 OBVIOUS
    <3>1. StatusShape(example, Script[example], at) BY AtStatus DEF There
    <3>2. at = NodeAt(example) + 2 => Op = "print" BY <3>1 DEF StatusShape, Op
    <3> QED BY <3>2 DEF NodeAt
  <2>4. a = IF example = "bdc" THEN 6 ELSE 3 BY DEF OnceAt
  <2> HIDE DEF a
  <2>5. at > a + 5 BY <1>1, <1>3, <2>2, <2>3, <2>4
  <2> QED BY <2>5 DEF a
<1> QED BY <1>2, <1>3

(* The invariant holds what ExamplesInv says.                              *)
LEMMA ExamplesHold == ASSUME ExamplesIInv PROVE ExamplesInv
<1>1. PlaceInv /\ StreamInv BY DEF ExamplesIInv
<1>2. TypeOK
  <2>1. Len(inbox) \in Nat /\ Len(inbox) <= 3
    <3>1. Len(inbox) \in Nat BY <1>1, BoxSteps DEF StreamInv
    <3> QED BY <1>1, <3>1 DEF StreamInv
  <2>2. clients \in 0..2 BY <1>1 DEF PlaceInv
  <2> QED BY <1>1, <2>1, <2>2 DEF TypeOK, PlaceInv, StreamInv, Size
<1>3. PrintedAsSent BY DEF ExamplesIInv, FlowInv, PrintedAsSent
<1>4. ReadToTheEnd
  <2> SUFFICES ASSUME Op = "exit", ~lost,
                      example \in {"gps", "versions", "set_time", "single", "triggered", "bdc"}
               PROVE  IF rx = Blank THEN unprinted \o owed = <<>>
                      ELSE \E n \in 1..MaxSegments : unprinted \o owed = LeftUnread(n)
    BY DEF ReadToTheEnd
  <2>1. There /\ TimeInv BY DEF ExamplesIInv, There
  <2>2. IF rx = Blank THEN Coming = <<>>
        ELSE \E n \in 1..MaxSegments : Coming = LeftUnread(n)
    <3> HIDE DEF Coming
    <3>1. CASE example \in {"gps", "versions"}
      <4>1. Coming = <<>> BY <2>1, <3>1, AtEnd DEF There, StatusInv
      <4>2. \A n : LeftUnread(n) = <<>> BY <3>1 DEF LeftUnread
      <4>3. 1 \in 1..MaxSegments BY ExamplesAssumption
      <4> QED BY <4>1, <4>2, <4>3
    <3>2. CASE example \in {"single", "triggered", "bdc"}
      BY <2>1, <3>2, AtEnd DEF There, SegmentInv
    <3>3. CASE example = "set_time"
      <4>1. at = Size /\ Size = 10
        <5>1. PlaceInv BY <2>1 DEF There
        <5>2. at = Size BY <5>1, AtShape DEF ShapeAt, Op, Size
        <5>3. Size = 10 BY <3>3, <5>1, TimeCalls
        <5> QED BY <5>2, <5>3
      <4> QED BY <2>1, <3>3, <4>1 DEF TimeInv
    <3> QED BY <3>1, <3>2, <3>3
  <2>3. unprinted = In(inbox) BY <2>1 DEF There, FlowInv
  <2>4. unprinted \o owed = Coming BY <2>3 DEF Coming
  <2> QED BY <2>2, <2>4
<1> QED BY <1>2, <1>3, <1>4 DEF ExamplesInv

(* Whatever the node does while it is there, what was sent and not printed *)
(* is what the program has not received, and after each call to come is    *)
(* what it still waits for (invariant).                                    *)
THEOREM ExamplesInductive == Spec => []ExamplesIInv
<1>1. Init => ExamplesIInv BY ExamplesInit
<1>2. ExamplesIInv /\ [Next]_exampleVars => ExamplesIInv' BY ExamplesNext
<1> QED BY <1>1, <1>2, PTL DEF Spec

(* The examples show every answer of a node that is there, once and in     *)
(* order up to where they stop (versions with other numbers): those that   *)
(* ask for one status or measurement leave nothing, triggered leaves the   *)
(* captures after the first, set_time all of its answer; for any number of *)
(* segments and captures and however often link packets come between.      *)
THEOREM ExamplesPrintAll == Spec => []ExamplesInv
<1>1. ExamplesIInv => ExamplesInv BY ExamplesHold
<1> QED BY <1>1, ExamplesInductive, PTL

=============================================================================
