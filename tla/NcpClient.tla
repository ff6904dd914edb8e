----------------------------- MODULE NcpClient -----------------------------
(***************************************************************************)
(* One T_NCP_CLIENT_CONNECTION over a TCP connection, down to the calls of *)
(* recv and send: ncp_client_connect, _receive, _send and _disconnect      *)
(* (ncp_client.c), tcp_connect (tcp.c) and the framing of packets on the   *)
(* byte stream, packet_receive_header, packet_receive and packet_send      *)
(* (packets.c).  The server conforms; the network may deliver a packet in  *)
(* pieces, refuse or lose the connection; the application may connect the  *)
(* client again.                                                           *)
(*                                                                         *)
(* A packet on the wire is a sequence of pieces: those of its header, which*)
(* begin with PACKET_HEAD_VALUE and tell the size, and those of its body,  *)
(* which end with PACKET_FOOT_VALUE.  A piece knows the packet it is of,   *)
(* which the program does not.                                             *)
(***************************************************************************)
EXTENDS Naturals, Sequences, SequencesExt, FiniteSetsExt

CONSTANTS MaxConnects,  \* bound of the model: TCP connections made
          MaxData,      \* bound of the model: data packets of the server
          MaxStream,    \* bound of the model: pieces on the way to the client
          SendBuffer,   \* pieces the send buffer of the socket holds
          HeaderSize    \* pieces of a header

ASSUME NcpClientAssumption ==
  /\ MaxConnects \in Nat \ {0} /\ MaxData \in Nat
  /\ HeaderSize \in Nat \ {0} /\ SendBuffer \in Nat \ {0} /\ MaxStream \in Nat

Kinds == <<"greeting", "authRequest", "confirm">>
Numbers == 1..3 + MaxData    \* packets of a server, in the order it sends them
Kind(nr) == IF nr <= 3 THEN Kinds[nr] ELSE "data"
Size(nr) == HeaderSize + (IF nr <= 3 THEN 1 ELSE 2)
Piece == [connection : 1..MaxConnects, nr : Numbers, at : 1..HeaderSize + 2]
Pieces(c, nr) == [i \in 1..Size(nr) |-> [connection |-> c, nr |-> nr, at |-> i]]

Sent == {"request", "response", "data", "alive", "terminate"}  \* by the client
TxPiece == [kind : Sent, at : 1..2]
TxPieces(kind) == <<[kind |-> kind, at |-> 1], [kind |-> kind, at |-> 2]>>

VARIABLES
  op,         \* the call the application is in, "none" or "freed"
  at,         \* where in that call
  state,      \* connectionstate
  noblock,    \* non_blocking_connection
  timed,      \* ncp_client_connect runs with a time limit
  result,     \* what the call returns: "0", "1", "-1" or "socket"
  rxState,    \* state of rx_packet
  buffer,     \* what it has of a packet not yet complete: rx_byte_position pieces
  tx,         \* the rest of the packet packet_send is sending
  link,       \* the connection of the socket
  connection, \* its number
  split,      \* the network may deliver a part of a header
  stream,     \* pieces on their way to the client
  out,        \* pieces on their way to the server
  got,        \* pieces the server has of a packet
  server,     \* what the server has accepted: "none", "request" or "response"
  sent,       \* how many packets the server has sent on each connection
  outOfStep,  \* the server found something other than a packet
  resumed,    \* history: a connection began with half a packet in buffer
  completed   \* history: what packet_receive completed

clientVars == <<op, at, state, noblock, timed, result>>
packetVars == <<rxState, buffer, completed>>
serverVars == <<got, server, sent, outOfStep>>
netVars == <<link, connection, split, resumed>>
vars == <<clientVars, packetVars, tx, stream, out, serverVars, netVars>>

Init ==
  /\ op = "none" /\ at = "idle" /\ state = "noTCP"
  /\ noblock = FALSE /\ timed = FALSE /\ result = "0"
  /\ rxState = "created" /\ buffer = <<>> /\ completed = <<>>
  /\ tx = <<>>
  /\ link = "none" /\ connection = 0 /\ split \in BOOLEAN /\ resumed = FALSE
  /\ stream = <<>> /\ out = <<>>
  /\ got = <<>> /\ server = "none" /\ outOfStep = FALSE
  /\ sent = [c \in 1..MaxConnects |-> 0]

Lost == link \in {"closed", "reset"}
Goto(label) == at' = label /\ UNCHANGED op
Returns(value) == op' = "none" /\ at' = "idle" /\ result' = value

-----------------------------------------------------------------------------
(* The application, which disconnects before it connects again *)
Call(name, label) ==
  /\ op = "none"
  /\ op' = name /\ at' = label /\ result' = "0"
  /\ UNCHANGED <<state, packetVars, stream, out, serverVars, netVars>>

Connect ==
  /\ link = "none" /\ connection < MaxConnects
  /\ Call("connect", "tcp")
  /\ noblock' \in BOOLEAN /\ timed' \in BOOLEAN
  /\ UNCHANGED tx

Receive ==
  /\ link # "none"
  /\ Call("receive", "recv")
  /\ UNCHANGED <<noblock, timed, tx>>

Send ==
  /\ state = "active"
  /\ Call("send", "send")
  /\ tx' = TxPieces("data")
  /\ UNCHANGED <<noblock, timed>>

Disconnect ==
  /\ link # "none"
  /\ Call("disconnect", "bye")
  /\ tx' = TxPieces("terminate")
  /\ UNCHANGED <<noblock, timed>>

Free ==
  /\ link = "none"
  /\ Call("freed", "idle")
  /\ UNCHANGED <<noblock, timed, tx>>

(* tcp_connect fails: no such host, no socket, or nobody listens           *)
TcpRefused ==
  /\ at = "tcp"
  /\ Returns("-1") /\ timed' = FALSE
  /\ UNCHANGED <<state, noblock, packetVars, tx, stream, out, serverVars, netVars>>

(* A connection that does not block is still being made.  rx_packet is not *)
(* touched.                                                                *)
TcpConnected ==
  /\ at = "tcp"
  /\ Goto("recv")
  /\ state' = "established"
  /\ connection' = connection + 1
  /\ link' = IF noblock THEN "connecting" ELSE "up"
  /\ resumed' = (resumed \/ rxState = "hdr")
  /\ UNCHANGED <<noblock, timed, result, packetVars, tx, stream, out, serverVars, split>>

-----------------------------------------------------------------------------
(* recv: k pieces, which is as many as have arrived, or none               *)
Recv(k) ==
  /\ k <= Len(stream)
  /\ stream' = SubSeq(stream, k + 1, Len(stream))

RecvFails == stream = <<>> /\ \/ link \in {"reset", "refused", "connecting"}
                              \/ link = "up" /\ noblock
RecvEnds == stream = <<>> /\ link = "closed"

(* An error ends the loop of ncp_client_receive_packet: nothing received   *)
NothingReceived == Goto("received") /\ result' = "0" /\ UNCHANGED <<state, noblock, timed>>

HeaderDue == at = "recv" /\ rxState # "hdr"

HeaderAccepted(taken) == Len(taken) = HeaderSize /\ taken[1].at = 1

(* packet_receive_header: what is taken is lost unless it is a header      *)
Header ==
  /\ HeaderDue
  /\ \E k \in 1..HeaderSize :
       LET taken == SubSeq(stream, 1, k) IN
       /\ Recv(k)
       /\ \/ split \/ k = HeaderSize
          \/ Last(taken).at >= HeaderSize
          \/ Lost /\ k = Len(stream)
       /\ IF HeaderAccepted(taken)
            THEN rxState' = "hdr" /\ buffer' = taken /\ UNCHANGED clientVars
            ELSE NothingReceived /\ UNCHANGED <<rxState, buffer>>
  /\ UNCHANGED <<completed, tx, out, serverVars, netVars>>

HeaderError ==
  /\ HeaderDue
  /\ RecvFails \/ RecvEnds
  /\ NothingReceived
  /\ UNCHANGED <<packetVars, tx, stream, out, serverVars, netVars>>

(* packet_receive: how much it asks recv for *)
Missing == Size(buffer[1].nr) - Len(buffer)

(* the last piece ends a packet *)
FooterIn(contents) == Last(contents).at = Size(Last(contents).nr)

Whole(contents) == contents = Pieces(contents[1].connection, contents[1].nr)
Garbled == <<0, 0>>
Identity(contents) ==
  IF Whole(contents) THEN <<contents[1].connection, contents[1].nr>> ELSE Garbled

(* What the decoder can take a packet for: the fields of one that is not   *)
(* whole may be those of its header's kind or not.                         *)
Readings(contents) ==
  {Kind(contents[1].nr)} \cup (IF Whole(contents) THEN {} ELSE {"data"})

(* Mutant of Decoded: the greeting is not answered. *)
DecodedSilently(kind) ==
  CASE kind = "greeting"    -> [state |-> "sentRequest", tx |-> <<>>]
    [] kind = "authRequest" -> [state |-> "sentResponse", tx |-> TxPieces("response")]
    [] kind = "confirm"     -> [state |-> "active", tx |-> <<>>]
    [] OTHER                -> [state |-> state, tx |-> <<>>]

(* Mutant of Decoded: the request for authentication makes active. *)
DecodedTooEarly(kind) ==
  CASE kind = "greeting"    -> [state |-> "sentRequest", tx |-> TxPieces("request")]
    [] kind = "authRequest" -> [state |-> "active", tx |-> TxPieces("response")]
    [] OTHER                -> [state |-> state, tx |-> <<>>]

(* NCPClientDecodePacket with NCPClientSetConnectionState, whose transient *)
(* states are left in the same call: the next state, and what is sent      *)
Decoded(kind) ==
  CASE kind = "greeting"    -> [state |-> "sentRequest", tx |-> TxPieces("request")]
    [] kind = "authRequest" -> [state |-> "sentResponse", tx |-> TxPieces("response")]
    [] kind = "confirm"     -> [state |-> "active", tx |-> <<>>]
    [] OTHER                -> [state |-> state, tx |-> <<>>]

(* Mutant of BodyComplete: the packet is left as one of which the header is there. *)
BodyCompleteAgain(contents) ==
  /\ buffer' = contents
  /\ completed' = Append(completed, Identity(contents))
  /\ \E kind \in Readings(contents) :
       state' = Decoded(kind).state /\ tx' = Decoded(kind).tx
  /\ Goto("answer") /\ result' = "1"
  /\ UNCHANGED <<rxState, noblock, timed>>

BodyComplete(contents) ==
  /\ rxState' = "complete" /\ buffer' = <<>>
  /\ completed' = Append(completed, Identity(contents))
  /\ \E kind \in Readings(contents) :
       state' = Decoded(kind).state /\ tx' = Decoded(kind).tx
  /\ Goto("answer") /\ result' = "1"
  /\ UNCHANGED <<noblock, timed>>

BodyBad(contents) ==
  /\ rxState' = "error" /\ buffer' = <<>>
  /\ NothingReceived
  /\ UNCHANGED <<completed, tx>>

(* ncp_client_receive_packet calls again unless it must not block *)
BodyIncomplete(contents) ==
  /\ buffer' = contents
  /\ IF noblock THEN NothingReceived ELSE UNCHANGED clientVars
  /\ UNCHANGED <<rxState, completed, tx>>

Body ==
  /\ at = "recv" /\ rxState = "hdr"
  /\ \E k \in IF Missing = 0 THEN {0} ELSE 1..Missing :
       LET contents == buffer \o SubSeq(stream, 1, k) IN
       /\ Recv(k)
       /\ \/ k < Missing /\ BodyIncomplete(contents)
          \/ k = Missing /\ FooterIn(contents) /\ BodyComplete(contents)
          \/ k = Missing /\ ~FooterIn(contents) /\ BodyBad(contents)
  /\ UNCHANGED <<out, serverVars, netVars>>

(* At the end of the stream recv gives nothing, and a client that blocks   *)
(* calls it for ever, which changes nothing.                               *)
BodyError ==
  /\ at = "recv" /\ rxState = "hdr"
  /\ RecvFails \/ (RecvEnds /\ noblock)
  /\ NothingReceived
  /\ UNCHANGED <<packetVars, tx, stream, out, serverVars, netVars>>

-----------------------------------------------------------------------------
(* packet_send *)
Sending == at \in {"answer", "alive", "send", "bye"}
Room == SendBuffer - Len(out)

(* the call of ncp_client_receive_packet ends *)
Leave(value) == IF op = "connect" THEN Goto("test") /\ result' = "0" ELSE Returns(value)

(* Mutant of AfterSend: nobody looks whether the keep-alive was sent. *)
AfterSendUnchecked(succeeded) ==
  \/ at = "answer" /\ Goto("received") /\ UNCHANGED <<state, result>>
  \/ at = "alive" /\ Leave(result) /\ UNCHANGED state
  \/ at = "send" /\ Returns(IF succeeded THEN "1" ELSE "-1") /\ UNCHANGED state
  \/ at = "bye" /\ Goto("close") /\ UNCHANGED <<state, result>>

(* what follows packet_send, if it succeeds or not: NCPClientSetConnection-*)
(* State does not look, the keep-alive does                                *)
AfterSend(succeeded) ==
  \/ at = "answer" /\ Goto("received") /\ UNCHANGED <<state, result>>
  \/ at = "alive" /\ succeeded /\ Leave(result) /\ UNCHANGED state
  \/ at = "alive" /\ ~succeeded /\ Leave("-1") /\ state' = "noTCP"
  \/ at = "send" /\ Returns(IF succeeded THEN "1" ELSE "-1") /\ UNCHANGED state
  \/ at = "bye" /\ Goto("close") /\ UNCHANGED <<state, result>>

(* send may take a part; with no room, a socket that blocks waits          *)
SendSome ==
  /\ Sending /\ tx # <<>>
  /\ link = "up"
  /\ \E k \in 1..Min({Len(tx), Room}) :
       out' = out \o SubSeq(tx, 1, k) /\ tx' = SubSeq(tx, k + 1, Len(tx))
  /\ UNCHANGED <<clientVars, packetVars, stream, serverVars, netVars>>

(* On a connection the server has closed, send may still succeed. *)
SendSwallowed ==
  /\ Sending /\ tx # <<>>
  /\ link = "closed"
  /\ tx' = <<>>
  /\ UNCHANGED <<clientVars, packetVars, stream, out, serverVars, netVars>>

SendFails ==
  /\ Sending /\ tx # <<>>
  /\ \/ link \in {"closed", "reset", "refused", "connecting"}
     \/ link = "up" /\ noblock /\ Room = 0
  /\ tx' = <<>>
  /\ AfterSend(FALSE)
  /\ UNCHANGED <<noblock, timed, packetVars, stream, out, serverVars, netVars>>

SendDone ==
  /\ Sending /\ tx = <<>>
  /\ AfterSend(TRUE)
  /\ UNCHANGED <<noblock, timed, packetVars, tx, stream, out, serverVars, netVars>>

-----------------------------------------------------------------------------
(* ncp_client_receive_packet after its loop *)
KeepAlive ==
  /\ at = "received" /\ state = "active"
  /\ Goto("alive") /\ tx' = TxPieces("alive")
  /\ UNCHANGED <<state, noblock, timed, result, packetVars, stream, out, serverVars, netVars>>

NoKeepAlive ==
  /\ at = "received"
  /\ Leave(IF state = "active" THEN result ELSE "-1")
  /\ UNCHANGED <<state, noblock, timed, packetVars, tx, stream, out, serverVars, netVars>>

(* the loop of ncp_client_connect *)
ConnectEnds ==
  /\ at = "test" /\ state = "active"
  /\ Returns("socket") /\ timed' = FALSE
  /\ UNCHANGED <<state, noblock, packetVars, tx, stream, out, serverVars, netVars>>

TimesOut ==
  /\ at = "test" /\ state # "active"
  /\ timed
  /\ Returns("0") /\ timed' = FALSE /\ state' = "noTCP"
  /\ UNCHANGED <<noblock, packetVars, tx, stream, out, serverVars, netVars>>

ConnectAgain ==
  /\ at = "test" /\ state # "active"
  /\ Goto("recv") /\ result' = "0"
  /\ UNCHANGED <<state, noblock, timed, packetVars, tx, stream, out, serverVars, netVars>>

(* ncp_client_disconnect closes the socket; rx_packet is not touched       *)
Close ==
  /\ at = "close"
  /\ Returns("1") /\ state' = "noTCP"
  /\ link' = "none" /\ stream' = <<>> /\ out' = <<>>
  /\ got' = <<>> /\ server' = "none" /\ outOfStep' = FALSE
  /\ UNCHANGED <<noblock, timed, packetVars, tx, sent, connection, split, resumed>>

-----------------------------------------------------------------------------
(* The server and the network *)
Established ==
  /\ link = "connecting"
  /\ link' \in {"up", "refused"}
  /\ UNCHANGED <<clientVars, packetVars, tx, stream, out, serverVars, connection, split, resumed>>

Due(nr) == CASE Kind(nr) = "greeting"    -> TRUE
             [] Kind(nr) = "authRequest" -> server # "none"
             [] OTHER                    -> server = "response"

ServerSends ==
  /\ link = "up"
  /\ LET nr == sent[connection] + 1 IN
     /\ nr \in Numbers /\ Due(nr)
     /\ Len(stream) + Size(nr) <= MaxStream
     /\ stream' = stream \o Pieces(connection, nr)
     /\ sent' = [sent EXCEPT ![connection] = nr]
  /\ UNCHANGED <<clientVars, packetVars, tx, out, got, server, outOfStep, netVars>>

ServerTakes ==
  /\ link = "up" /\ out # <<>> /\ ~outOfStep
  /\ out' = Tail(out)
  /\ LET has == Append(got, Head(out)) IN
     /\ outOfStep' = ~IsPrefix(has, TxPieces(has[1].kind))
     /\ got' = IF outOfStep' \/ has = TxPieces(has[1].kind) THEN <<>> ELSE has
     /\ server' = CASE has = TxPieces("request")  -> "request"
                    [] has = TxPieces("response") -> "response"
                    [] OTHER                      -> server
  /\ UNCHANGED <<clientVars, packetVars, tx, stream, sent, netVars>>

(* The connection is lost, and with it some of what was on its way         *)
Lose ==
  /\ link = "up"
  /\ link' \in {"closed", "reset"}
  /\ \E k \in 0..Len(stream) : stream' = SubSeq(stream, 1, k)
  /\ out' = <<>>
  /\ UNCHANGED <<clientVars, packetVars, tx, serverVars, connection, split, resumed>>

Client == \/ TcpRefused \/ TcpConnected
          \/ Header \/ HeaderError \/ Body \/ BodyError
          \/ SendSome \/ SendSwallowed \/ SendFails \/ SendDone
          \/ KeepAlive \/ NoKeepAlive
          \/ ConnectEnds \/ TimesOut \/ ConnectAgain \/ Close

Application == Connect \/ Receive \/ Send \/ Disconnect \/ Free
Server == ServerSends \/ ServerTakes

Next == Client \/ Application \/ Server \/ Established \/ Lose

Spec == Init /\ [][Next]_vars

(* The client runs and the server answers; time passes, so that again and  *)
(* again a keep-alive is due and in the end a time limit is over; on a lost*)
(* connection send fails sooner or later; and the application receives     *)
(* again and again, as node::receive_packet and the examples do.           *)
KeepAliveFails == at = "alive" /\ SendFails
FairSpec == /\ Spec
            /\ WF_vars(Client) /\ WF_vars(Server) /\ WF_vars(Established)
            /\ SF_vars(KeepAlive) /\ SF_vars(TimesOut) /\ SF_vars(KeepAliveFails)
            /\ SF_vars(Receive)

-----------------------------------------------------------------------------
TypeOK ==
  /\ op \in {"none", "connect", "receive", "send", "disconnect", "freed"}
  /\ at \in {"idle", "tcp", "recv", "answer", "received", "alive", "test", "send", "bye", "close"}
  /\ state \in {"noTCP", "established", "sentRequest", "sentResponse", "active"}
  /\ noblock \in BOOLEAN /\ timed \in BOOLEAN /\ result \in {"0", "1", "-1", "socket"}
  /\ rxState \in {"created", "hdr", "complete", "error"}
  /\ buffer \in Seq(Piece) /\ Len(buffer) <= HeaderSize + 2
  /\ rxState = "hdr" => Missing > 0
  /\ completed \in Seq({Garbled} \cup ((1..MaxConnects) \X Numbers))
  /\ tx \in Seq(TxPiece) /\ Len(tx) <= 2 /\ out \in Seq(TxPiece) /\ Len(out) <= SendBuffer
  /\ link \in {"none", "connecting", "up", "refused", "closed", "reset"}
  /\ connection \in 0..MaxConnects /\ split \in BOOLEAN /\ resumed \in BOOLEAN
  /\ stream \in Seq(Piece) /\ Len(stream) <= MaxStream
  /\ got \in Seq(TxPiece) /\ Len(got) <= 1 /\ server \in {"none", "request", "response"}
  /\ outOfStep \in BOOLEAN /\ sent \in [1..MaxConnects -> 0..3 + MaxData]

(* However recv cuts the stream, and whatever was lost of it: what         *)
(* packet_receive completes is a packet as the server sent it, none twice, *)
(* none out of order; unless the client was connected again with half a    *)
(* packet in its buffer.                                                   *)
Before(p, q) == p[1] < q[1] \/ (p[1] = q[1] /\ p[2] < q[2])
CompletedAsSent ==
  resumed \/ \A j \in DOMAIN completed : /\ completed[j] # Garbled
                                         /\ \A i \in 1..j - 1 : Before(completed[i], completed[j])

(* The client takes itself for accepted only after the server had both its *)
(* answers on this connection.                                             *)
ActiveIsConfirmed == state = "active" => resumed \/ (sent[connection] >= 3 /\ server = "response")

(* What a client that blocks sends arrives as whole packets; one that does *)
(* not may leave a packet half sent, and the server out of step.           *)
BlockingSendsWhole == outOfStep => noblock

(* The client in every step: what it completed is what was sent, it is     *)
(* active only when it was accepted, and it sends whole packets.           *)
ClientInv == TypeOK /\ CompletedAsSent /\ ActiveIsConfirmed /\ BlockingSendsWhole

(* While headers arrive whole, the stream of the first connection is a     *)
(* channel: no packet is lost before the connection is.                    *)
OfFirst == {i \in DOMAIN completed : completed[i][1] = 1 /\ ~split}
AsChannel == INSTANCE Channel WITH
  Item  <- {1} \X Numbers,
  sent  <- [nr \in 1..(IF split THEN 0 ELSE sent[1]) |-> <<1, nr>>],
  taken <- [i \in OfFirst |-> completed[i]]
FirstConnectionIsChannel == AsChannel!Spec

(* A client whose connection is lost finds out by its keep-alive, unless   *)
(* it blocks and the stream ends inside a packet: then it stays in recv.   *)
StuckInRecv == at = "recv" /\ link = "closed" /\ rxState = "hdr" /\ ~noblock /\ stream = <<>>
LossIsNoticed == Lost /\ state = "active" ~> state # "active" \/ StuckInRecv

(* ncp_client_connect ends within its time limit if it does not block.     *)
TimeLimitHolds == at \in {"recv", "test"} /\ op = "connect" /\ noblock /\ timed ~> op # "connect"

(* With whole headers, a server that answers and no half packet left over, *)
(* ncp_client_connect ends.                                                *)
HandshakeEnds ==
  op = "connect" /\ ~split /\ ~resumed ~> op # "connect" \/ Lost \/ link = "refused" \/ resumed

(* ncp_client_connect returns, by its time limit or by its outcome.        *)
ConnectReturns == TimeLimitHolds /\ HandshakeEnds
=============================================================================
