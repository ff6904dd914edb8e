------------------------------ MODULE Examples ------------------------------
(***************************************************************************)
(* The example programs of the NCP client (src/ncpclient/examples): what   *)
(* they ask a node for, how they wait for the answers, and what they print *)
(* of them.  Each is the sequence of the calls it makes; the calls are the *)
(* actions.  The client is that of NcpClient with a blocking socket, one   *)
(* packet at a time; SIGPIPE does not end the program (as on Windows).     *)
(***************************************************************************)
EXTENDS Naturals, Sequences, SequencesExt

CONSTANTS Programs,     \* the examples that are run
          MaxSegments,  \* packets a node may send a response in
          Captures,     \* triggered captures that are asked for (10 in the code)
          Receives      \* packets ncp_example waits for (10 in the code)

ASSUME ExamplesAssumption ==
  /\ Programs \subseteq {"connection", "gps", "versions", "set_time", "single", "triggered",
                         "bdc", "looped", "monitor", "ncp"}
  /\ MaxSegments \in Nat \ {0} /\ Captures \in Nat \ {0} /\ Receives \in Nat \ {0}

(* disconnect_from_node, which creates a client where it says it frees one *)
Closing == <<"disconnect", "create_again", "exit">>
Captured == <<"receive", "print", "receive", "print", "until_last">>

NodeConnection == <<"create", "connect">> \o Closing
ReadGps  == <<"create", "connect", "ask_node", "receive", "print">> \o Closing
Versions == <<"create", "connect", "ask_node", "receive", "print">> \o Closing
SetTime  == <<"create", "connect", "if_connected", "ask_once", "read", "read", "disconnect",
              "fi", "create_again", "exit">>
SingleTime == <<"create", "connect", "ask_once">> \o Captured \o Closing
Triggered  == <<"create", "connect", "ask_triggered">> \o Captured \o Closing
BdcSweep == <<"create", "connect", "ask_node", "receive", "print", "ask_once">>
            \o Captured \o Closing
LoopedTime == <<"create", "connect", "ask_loop">> \o Captured \o <<"for_ever">> \o Closing
LoopedTimeSweepMonitor == LoopedTime
NcpExample == <<"create", "connect_for_3_s", "if_connected", "ask_node", "receive_node", "print",
                "ask_loop", "receive_any", "print", "repeat", "fi", "disconnect", "free", "exit">>

Script == [connection |-> NodeConnection, gps |-> ReadGps, versions |-> Versions,
           set_time |-> SetTime, single |-> SingleTime, triggered |-> Triggered, bdc |-> BdcSweep,
           looped |-> LoopedTime, monitor |-> LoopedTimeSweepMonitor, ncp |-> NcpExample]

(* Packets: seg and nseg are 0 in one that does not carry them. *)
Packet(kind, seg, nseg) == [kind |-> kind, seg |-> seg, nseg |-> nseg]
Blank == Packet("blank", 0, 0)   \* of a client that received nothing yet
Link == Packet("link", 0, 0)
Torn == Packet("torn", 0, 0)     \* the beginning of a packet that never ends
Garbled == Packet("garbled", 0, 0)   \* shown with other numbers than it has

VARIABLES example,   \* the program that runs
          at,        \* the call it is at
          channel,   \* none | open | refused | closed
          active,    \* connectionstate is NCPClient_ConnectionActive
          lost,      \* the node has gone
          inbox,     \* sent by the node and not received
          owed,      \* what the node still has to answer
          looping,   \* the node repeats its measurements
          rx,        \* rx_packet of the client
          segment,   \* seg and nseg
          count,     \* receives done by ncp_example
          held,      \* check_for_bdc has set its rx_packet
          clients,   \* clients allocated and not freed
          unprinted, \* history: answers sent and not printed, in order
          misprint,  \* history: something else was shown
          crashed

exampleVars == <<example, at, channel, active, lost, inbox, owed, looping, rx, segment, count,
                 held, clients, unprinted, misprint, crashed>>
node == <<lost, inbox, owed, looping, unprinted>>
reader == <<rx, segment, count, held, misprint>>

Op == Script[example][at]
Ended == Op = "exit" \/ crashed
Running == ~crashed
Goto(there) == at' = there
Advance == Goto(at + 1)

Init ==
  /\ example \in Programs /\ at = 1
  /\ channel = "none" /\ active = FALSE /\ lost = FALSE
  /\ inbox = <<>> /\ owed = <<>> /\ looping = FALSE
  /\ rx = Blank /\ segment = <<0, 0>> /\ count = 0 /\ held = FALSE
  /\ clients = 0 /\ unprinted = <<>> /\ misprint = FALSE /\ crashed = FALSE

-----------------------------------------------------------------------------
(* the node *)

Response(n) == IF n = 1 THEN <<Packet("data", 0, 0)>>
               ELSE [i \in 1..n |-> Packet("data", i, n)]

Reachable == channel = "open" /\ ~lost

(* the triggered captures after the first *)
FurtherCaptures(n) == FlattenSeq([i \in 1..Captures - 1 |-> Response(n)])

(* An acknowledgement comes first, except from a node packet. *)
Answer(request, n) ==
  CASE request = "ask_node" -> <<Packet("node", 0, 0)>>
    [] request = "ask_triggered" ->
         <<Packet("ack", 0, 0)>> \o (Response(n) \o FurtherCaptures(n))
    [] OTHER -> <<Packet("ack", 0, 0)>> \o Response(n)

NodeSends ==
  /\ Reachable /\ owed # <<>> /\ Len(inbox) < 2
  /\ inbox' = Append(inbox, Head(owed)) /\ owed' = Tail(owed)
  /\ unprinted' = Append(unprinted, Head(owed))
  /\ UNCHANGED <<example, at, channel, active, lost, looping, reader, clients, crashed>>

NodeRepeats ==
  /\ Reachable /\ looping /\ owed = <<>> /\ unprinted = <<>>
  /\ \E n \in 1..MaxSegments : owed' = Response(n)
  /\ UNCHANGED <<example, at, channel, active, lost, inbox, looping, unprinted, reader, clients,
                 crashed>>

(* "Once a second the node sends a packet to check" *)
NodeLinks ==
  /\ Reachable /\ inbox = <<>> /\ inbox' = <<Link>>
  /\ UNCHANGED <<example, at, channel, active, lost, owed, looping, unprinted, reader, clients,
                 crashed>>

NodeLost ==
  /\ Reachable /\ lost' = TRUE
  /\ inbox' \in {inbox, Append(inbox, Torn)}
  /\ UNCHANGED <<example, at, channel, active, owed, looping, unprinted, reader, clients, crashed>>

-----------------------------------------------------------------------------
(* the calls *)

Create ==
  /\ Op \in {"create", "create_again"} /\ Advance
  /\ clients' = clients + 1
  /\ UNCHANGED <<example, channel, active, node, reader, crashed>>

Free ==
  /\ Op = "free" /\ Advance
  /\ clients' = clients - 1
  /\ UNCHANGED <<example, channel, active, node, reader, crashed>>

ConnectActive ==
  /\ Op \in {"connect", "connect_for_3_s"} /\ channel = "none" /\ Advance
  /\ channel' = "open" /\ active' = TRUE
  /\ rx' = Link
  /\ UNCHANGED <<example, node, segment, count, held, misprint, clients, crashed>>

ConnectRefused ==
  /\ Op \in {"connect", "connect_for_3_s"} /\ channel = "none" /\ Advance
  /\ channel' = "refused"
  /\ UNCHANGED <<example, active, node, reader, clients, crashed>>

(* The node goes before it has confirmed: without a time limit the program *)
(* waits for ever.                                                         *)
ConnectBroken ==
  /\ Op \in {"connect", "connect_for_3_s"} /\ channel = "none"
  /\ channel' = "open" /\ lost' = TRUE
  /\ rx' \in {Blank, Link}
  /\ UNCHANGED <<example, at, active, inbox, owed, looping, unprinted, segment, count, held,
                 misprint, clients, crashed>>

ConnectTimesOut ==
  /\ Op = "connect_for_3_s" /\ lost /\ Advance
  /\ channel' = "refused"
  /\ UNCHANGED <<example, active, node, reader, clients, crashed>>

IfConnected ==
  /\ Op = "if_connected"
  /\ Goto(IF channel = "open" THEN at + 1 ELSE SelectInSeq(Script[example], LAMBDA op : op = "fi"))
  /\ UNCHANGED <<example, channel, active, node, reader, clients, crashed>>

Fi == Op = "fi" /\ Advance /\ UNCHANGED <<example, channel, active, node, reader, clients, crashed>>

(* packet_write, the fields and parameters, packet_write_complete and      *)
(* ncp_client_send, whose result nobody looks at                           *)
Ask(n) ==
  /\ Op \in {"ask_node", "ask_once", "ask_triggered", "ask_loop"} /\ Advance
  /\ owed' = IF Reachable THEN owed \o Answer(Op, n) ELSE owed
  /\ looping' = (looping \/ Op = "ask_loop")
  /\ UNCHANGED <<example, channel, active, lost, inbox, unprinted, reader, clients, crashed>>

Waiting == Op \in {"receive", "receive_node", "receive_any"} /\ Running

(* the loop goes on while the packet is not of the type that is waited for *)
Wanted(packet) == CASE Op = "receive"      -> packet.kind # "link"
                    [] Op = "receive_node" -> packet.kind = "node"
                    [] OTHER -> TRUE

ReceivePacket ==
  /\ Waiting /\ inbox # <<>> /\ Head(inbox) # Torn
  /\ rx' = Head(inbox) /\ inbox' = Tail(inbox)
  /\ held' = (held \/ Op = "receive_node")
  /\ IF Wanted(rx') THEN Advance ELSE UNCHANGED at
  /\ UNCHANGED <<example, channel, active, lost, owed, looping, unprinted, segment, count,
                 misprint, clients, crashed>>

(* Nothing can come any more: ncp_client_receive fails and leaves          *)
(* rx_packet alone.  Its keep-alive may fail, which ends ConnectionActive; *)
(* only check_for_bdc looks at the result, which is 0 as long as the client*)
(* is active, and then reads its rx_packet even if that is still NULL.     *)
ReceiveFails ==
  /\ Waiting /\ inbox = <<>> /\ ~Reachable
  /\ active' \in {active, FALSE}
  /\ IF Wanted(rx) \/ (Op = "receive_node" /\ active') THEN Advance ELSE UNCHANGED at
  /\ held' = (held \/ (Op = "receive_node" /\ ~active'))
  /\ crashed' = (Op = "receive_node" /\ ~held')
  /\ UNCHANGED <<example, channel, node, rx, segment, count, misprint, clients>>

(* A packet of which only the beginning came, or a handshake that broke:   *)
(* recv returns at once, and is called again.                              *)
Spin ==
  /\ \/ Waiting /\ inbox # <<>> /\ Head(inbox) = Torn
     \/ Op = "connect" /\ lost
  /\ UNCHANGED exampleVars

Read ==
  /\ Op = "read" /\ Advance
  /\ UNCHANGED <<example, channel, active, node, reader, clients, crashed>>

(* What the program shows of a packet.  Which fields and parameters it     *)
(* picks is left out (gps those of the position, bdc two of the status, ncp*)
(* those of SWEEP and TIME).  versions prints a number as (int)pdata: the  *)
(* address it is at, where the other examples read the number there.       *)
Shown(packet) == IF example = "versions" THEN {packet, Garbled} ELSE {packet}

(* Link packets have no fields, and one that was never received shows none.*)
PrintPacket ==
  /\ Op = "print" /\ Running /\ Advance
  /\ IF rx \in {Link, Blank} THEN UNCHANGED <<unprinted, misprint>>
     ELSE /\ \E shown \in Shown(rx) :
               misprint' = (misprint \/ unprinted = <<>> \/ shown # Head(unprinted))
          /\ unprinted' = IF unprinted = <<>> THEN <<>> ELSE Tail(unprinted)
  /\ UNCHANGED <<example, channel, active, lost, inbox, owed, looping, rx, segment, count, held,
                 clients, crashed>>

(* Mutants of LastSegment: one segment early, one too many. *)
LastSegmentEarly(s) == s[1] + 1 >= s[2]
LastSegmentBeyond(s) == s[1] > s[2]

LastSegment(s) == s[1] >= s[2]

(* Mutant of UntilLast: the loop does not receive. *)
UntilLastNoReceive ==
  /\ Op = "until_last"
  /\ segment' = IF rx.nseg > 0 THEN <<rx.seg, rx.nseg>>
                ELSE IF example \in {"triggered", "looped"} THEN segment ELSE <<0, 0>>
  /\ Goto(IF LastSegment(segment') THEN at + 1 ELSE at - 1)
  /\ UNCHANGED <<example, channel, active, node, rx, count, held, misprint, clients, crashed>>

(* seg and nseg of the packet; the triggered and looped examples do not    *)
(* reset them before they are looked for again                             *)
UntilLast ==
  /\ Op = "until_last"
  /\ segment' = IF rx.nseg > 0 THEN <<rx.seg, rx.nseg>>
                ELSE IF example \in {"triggered", "looped"} THEN segment ELSE <<0, 0>>
  /\ Goto(IF LastSegment(segment') THEN at + 1 ELSE at - 2)
  /\ UNCHANGED <<example, channel, active, node, rx, count, held, misprint, clients, crashed>>

ForEver ==
  /\ Op = "for_ever" /\ Goto(at - 3)
  /\ segment' = <<0, 0>>
  /\ UNCHANGED <<example, channel, active, node, rx, count, held, misprint, clients, crashed>>

Repeat ==
  /\ Op = "repeat" /\ count' = count + 1
  /\ Goto(IF count' < Receives THEN at - 2 ELSE at + 1)
  /\ UNCHANGED <<example, channel, active, node, rx, segment, held, misprint, clients, crashed>>

Disconnect ==
  /\ Op = "disconnect" /\ Advance
  /\ channel' = "closed" /\ active' = FALSE
  /\ UNCHANGED <<example, node, reader, clients, crashed>>

Exit == Ended /\ UNCHANGED exampleVars

Call == \/ Create \/ Free \/ ConnectActive \/ ConnectRefused \/ ConnectTimesOut
        \/ IfConnected \/ Fi \/ (\E n \in 1..MaxSegments : Ask(n))
        \/ ReceivePacket \/ ReceiveFails \/ Read \/ PrintPacket
        \/ UntilLast \/ ForEver \/ Repeat \/ Disconnect

Next == Call \/ ConnectBroken \/ NodeSends \/ NodeRepeats \/ NodeLinks \/ NodeLost \/ Spin \/ Exit

Spec == Init /\ [][Next]_exampleVars

(* The program runs, and a node that is there sends what it owes. *)
FairSpec == Spec /\ WF_exampleVars(Call) /\ WF_exampleVars(NodeSends) /\ WF_exampleVars(NodeRepeats)
-----------------------------------------------------------------------------
(* Types: packets and calls are those the programs know. *)
TypeOK ==
  /\ example \in Programs /\ at \in 1..Len(Script[example])
  /\ channel \in {"none", "open", "refused", "closed"}
  /\ \A flag \in {active, lost, looping, held, misprint, crashed} : flag \in BOOLEAN
  /\ Len(inbox) <= 3 /\ count \in 0..Receives /\ clients \in 0..2
  /\ segment \in (0..MaxSegments) \X (0..MaxSegments)

(* As long as the node is there, every packet it sends in answer is shown  *)
(* once and in order, however link packets come between them, and nothing  *)
(* else is read as if it were an answer; but versions may show other       *)
(* numbers than were sent.                                                 *)
PrintedAsSent == /\ misprint => lost \/ example = "versions"
                 /\ crashed => lost

(* What an example that was connected leaves of the answers: triggered asks*)
(* for several captures and ends with the last segment of the first, and   *)
(* set_time receives neither "ACK & Response" but reads the packet of the  *)
(* handshake.                                                              *)
LeftUnread(n) == CASE example = "triggered" -> FurtherCaptures(n)
                   [] example = "set_time" -> Answer("ask_once", n)
                   [] OTHER -> <<>>

(* An example that ends by itself has then shown the answers up to those,  *)
(* and no other packet: neither the acknowledgement nor the last segment of*)
(* what it waits for stays behind.                                         *)
ReadToTheEnd ==
  Op = "exit" /\ ~lost
    /\ example \in {"gps", "versions", "set_time", "single", "triggered", "bdc"} =>
    IF rx = Blank THEN unprinted \o owed = <<>>
    ELSE \E n \in 1..MaxSegments : unprinted \o owed = LeftUnread(n)

(* What the examples show is what the node answered, in order and up to    *)
(* where they stop reading.                                                *)
ExamplesInv == TypeOK /\ PrintedAsSent /\ ReadToTheEnd

(* Every example that is not meant to run for ever ends, whether the       *)
(* connection is accepted or refused, unless the node is lost.             *)
EndsUnlessLost == example \notin {"looped", "monitor"} ~> Ended \/ lost
=============================================================================
