----------------------------- MODULE NcpPackets -----------------------------
(***************************************************************************)
(* A packet (Packet) and its conversion to text (PacketText).  The caller  *)
(* is in json_create_from_packet_impl until the text is returned: it makes *)
(* no other call meanwhile.  What the conversion does to the packet is     *)
(* PacketPrint; the text is followed for packets of its own.               *)
(***************************************************************************)
EXTENDS Packet, PacketText

packetsVars == <<vars, textVars>>

PacketsInit == Init /\ TextInit

Using == writing = "idle" /\ Next /\ UNCHANGED textVars
Converting == state = "created" /\ TextNext /\ UNCHANGED vars
Stopped == writing = "crashed" /\ UNCHANGED packetsVars

PacketsNext == Using \/ Converting \/ Stopped

PacketsSpec == PacketsInit /\ [][PacketsNext]_packetsVars
=============================================================================
