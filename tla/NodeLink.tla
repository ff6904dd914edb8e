------------------------------ MODULE NodeLink ------------------------------
(***************************************************************************)
(* One node thread and its connection: node::run with connect, isConnected,*)
(* receive_packet, send_packet, ackWait and startMission (node.cpp), and   *)
(* the NCP client under it (ncp_client.c), against a conforming NCP server *)
(* whose connection may be lost at any moment.                             *)
(*                                                                         *)
(* The functions of node call each other in a circle: receive_packet calls *)
(* connect, connect calls startMission, which sends and waits for          *)
(* acknowledgements, for which receive_packet is called.  So the model     *)
(* keeps the call stack.  Every connect makes a new T_NCP_CLIENT_CONNECTION*)
(* with a new receive packet; both are named by the number of the attempt. *)
(***************************************************************************)
EXTENDS Naturals, Sequences, FiniteSets

CONSTANTS MaxBreaks,    \* bound of the model: connections lost
          MaxRefusals,  \* bound of the model: connection attempts that fail
          MaxData,      \* bound of the model: captures the server sends
          MaxWire,      \* bound of the model: packets in flight to the client
          MaxTries,     \* the 100 turns of ackWait, scaled down
          MaxFails      \* bound of the model: turns of run that receive nothing
                        \* before the loss is noticed

ASSUME NodeLinkAssumption ==
  /\ MaxBreaks \in Nat /\ MaxRefusals \in Nat /\ MaxData \in Nat \ {0}
  /\ MaxWire \in Nat \ {0} /\ MaxTries \in Nat \ {0} /\ MaxFails \in Nat

Clients == 1..1 + MaxBreaks + MaxRefusals
Null == 0

LinkKinds == {"greeting", "authRequest", "confirm", "alive"}  \* PACKET_TYPE_LINK
Packet == [kind : LinkKinds \cup {"ack", "data"}, nr : 0..MaxData, complete : BOOLEAN]
NoPacket == [kind |-> "none", nr |-> 0, complete |-> FALSE]
Commands == {"loop", "configure"}  \* startMission: DSP_LOOP, then NODE

VARIABLES stack,     \* the calls the thread is in, innermost last
          client,    \* _ncp_client
          created,   \* how many clients connect has made
          freed,     \* clients given to ncp_client_free
          state,     \* connectionstate of the client made last
          rx,        \* rx_packet of each client
          link,      \* the TCP connection of the client made last
          wire,      \* packets on their way to the client
          toServer,  \* packets on their way to the server
          confirmed, \* the server accepted the client of this connection
          mission,   \* commands the server has executed on this connection
          sentData,  \* captures the server has sent
          received,  \* history: captures received completely
          pushed,    \* history: how often each capture was pushed
          fails,     \* history: turns of run whose receive_packet failed
          breaks, refusals

vars == <<stack, client, created, freed, state, rx, link, wire, toServer,
          confirmed, mission, sentData, received, pushed, fails, breaks, refusals>>
serverVars == <<confirmed, mission, sentData>>
bounds == <<breaks, refusals>>

(* A call: where it is, a packet pointer it holds, and a turn or a command *)
Frame(at) == [at |-> at, ptr |-> Null, turn |-> 0, command |-> "none"]
Top == stack[Len(stack)]
Becomes(frames) == stack' = SubSeq(stack, 1, Len(stack) - 1) \o frames
Return == Becomes(<<>>)
At(label) == stack # <<>> /\ Top.at = label

Init ==
  /\ stack = <<Frame("run"), Frame("connect")>>
  /\ client = Null /\ created = 0 /\ freed = {}
  /\ state = "noTCP"
  /\ rx = [c \in Clients |-> NoPacket]
  /\ link = "none" /\ wire = <<>> /\ toServer = <<>>
  /\ confirmed = FALSE /\ mission = {} /\ sentData = 0
  /\ received = {} /\ pushed = [n \in 1..MaxData |-> 0] /\ fails = 0
  /\ breaks = 0 /\ refusals = 0

-----------------------------------------------------------------------------
(* isConnected: true if the client is active; forgets the client if not *)
Connected == client # Null /\ state = "active"

(* Mutant of ClientAfterTest: the client is kept, so connect frees it. *)
ClientKept == client

ClientAfterTest == IF Connected THEN client ELSE Null

Lost == link \in {"closed", "reset"}

(* packet_send: what is sent on a lost connection arrives nowhere *)
Send(x) == toServer' = IF link = "up" THEN Append(toServer, x) ELSE toServer

(* connect: free what is left of the old client, make a new one, and try   *)
(* tcp_connect.                                                            *)
NewClient ==
  /\ freed' = IF client # Null THEN freed \cup {client} ELSE freed
  /\ created' = created + 1
  /\ client' = created + 1

ConnectRefused ==
  /\ At("connect")
  /\ refusals < MaxRefusals
  /\ refusals' = refusals + 1
  /\ NewClient
  /\ state' = "noTCP"
  /\ link' = "none" /\ wire' = <<>> /\ toServer' = <<>>
  /\ confirmed' = FALSE /\ mission' = {}
  /\ Return
  /\ UNCHANGED <<rx, sentData, received, pushed, fails, breaks>>

(* The server greets a client that connects. *)
ConnectAccepted ==
  /\ At("connect")
  /\ NewClient
  /\ state' = "established"
  /\ link' = "up" /\ toServer' = <<>>
  /\ wire' = <<[kind |-> "greeting", nr |-> 0, complete |-> TRUE]>>
  /\ confirmed' = FALSE /\ mission' = {}
  /\ Becomes(<<Frame("handshake")>>)
  /\ UNCHANGED <<rx, sentData, received, pushed, fails, bounds>>

-----------------------------------------------------------------------------
(* Mutant of Delivered: the packets in flight are taken newest first. *)
DeliveredNewest(p) ==
  /\ wire # <<>> /\ wire[Len(wire)] = p
  /\ wire' = SubSeq(wire, 1, Len(wire) - 1)
  /\ rx' = [rx EXCEPT ![created] = p]

(* recv delivers a packet, or as much as arrived before the loss *)
Delivered(p) ==
  /\ wire # <<>> /\ Head(wire) = p
  /\ wire' = Tail(wire)
  /\ rx' = [rx EXCEPT ![created] = p]

(* Mutant of Answer: the request is sent on the first connection only. *)
AnswerOnce(p) ==
  CASE p.kind = "greeting"    -> state' = "sentRequest" /\ IF created = 1 THEN Send("request") ELSE UNCHANGED toServer
    [] p.kind = "authRequest" -> state' = "sentResponse" /\ Send("response")
    [] p.kind = "confirm"     -> state' = "active" /\ UNCHANGED toServer
    [] OTHER                  -> UNCHANGED <<state, toServer>>

(* NCPClientSetConnectionState after NCPClientDecodePacket: the transient  *)
(* states on the way are left in the same call.                            *)
Answer(p) ==
  CASE p.kind = "greeting"    -> state' = "sentRequest"  /\ Send("request")
    [] p.kind = "authRequest" -> state' = "sentResponse" /\ Send("response")
    [] p.kind = "confirm"     -> state' \in (IF Lost THEN {"active", "noTCP"} ELSE {"active"})
                                 /\ UNCHANGED toServer
    [] OTHER                  -> UNCHANGED <<state, toServer>>

(* ncp_client_connect receives until the client is active, without a time  *)
(* limit.  After the confirmation a keep-alive is due at once, which on a  *)
(* lost connection may fail.  When recv fails or ends instead, the loop    *)
(* goes on for ever, which changes nothing.                                *)
Handshake ==
  /\ At("handshake")
  /\ \E p \in Packet : /\ p.complete
                       /\ Delivered(p)
                       /\ Answer(p)
  /\ IF state' = "active" THEN Becomes(<<Frame("mission1")>>) ELSE UNCHANGED stack
  /\ UNCHANGED <<client, created, freed, link, serverVars, received, pushed, fails, bounds>>

(* startMission: each command is sent and its acknowledgement awaited *)
MissionSend(at, next, command) ==
  /\ At(at)
  /\ Becomes(<<Frame(next), [Frame("send") EXCEPT !.command = command]>>)
  /\ UNCHANGED <<client, created, freed, state, rx, link, wire, toServer, serverVars,
                 received, pushed, fails, bounds>>

MissionWait(at, next) ==
  /\ At(at)
  /\ Becomes(<<Frame(next), Frame("ackWait")>>)
  /\ UNCHANGED <<client, created, freed, state, rx, link, wire, toServer, serverVars,
                 received, pushed, fails, bounds>>

MissionDone ==
  /\ At("mission5")
  /\ Return
  /\ UNCHANGED <<client, created, freed, state, rx, link, wire, toServer, serverVars,
                 received, pushed, fails, bounds>>

(* Mutant of StartMission: the second command is left out. *)
StartHalfMission == \/ MissionSend("mission1", "mission2", "loop")
                    \/ MissionWait("mission2", "mission5")
                    \/ MissionDone

StartMission == \/ MissionSend("mission1", "mission2", "loop")
                \/ MissionWait("mission2", "mission3")
                \/ MissionSend("mission3", "mission4", "configure")
                \/ MissionWait("mission4", "mission5")
                \/ MissionDone

(* send_packet: connect if necessary, then send if connected *)
SendConnects ==
  /\ At("send") /\ ~Connected
  /\ client' = ClientAfterTest
  /\ Becomes(<<[Top EXCEPT !.at = "sendAfter"], Frame("connect")>>)
  /\ UNCHANGED <<created, freed, state, rx, link, wire, toServer, serverVars,
                 received, pushed, fails, bounds>>

SendPacket ==
  /\ At("send") \/ At("sendAfter")
  /\ Connected
  /\ Send(Top.command)
  /\ Return
  /\ UNCHANGED <<client, created, freed, state, rx, link, wire, serverVars,
                 received, pushed, fails, bounds>>

SendGivesUp ==
  /\ At("sendAfter") /\ ~Connected
  /\ client' = ClientAfterTest
  /\ Return
  /\ UNCHANGED <<created, freed, state, rx, link, wire, toServer, serverVars,
                 received, pushed, fails, bounds>>

-----------------------------------------------------------------------------
(* Mutant of ReceiveTest: it does not connect again. *)
ReceiveOnlyIfConnected ==
  /\ At("receive")
  /\ client' = ClientAfterTest
  /\ IF Connected THEN Becomes(<<Frame("receiveLoop")>>) ELSE Return
  /\ UNCHANGED <<created, freed, state, rx, link, wire, toServer, serverVars,
                 received, pushed, fails, bounds>>

(* receive_packet: connect if necessary, then receive if connected *)
ReceiveTest ==
  /\ At("receive") \/ At("receiveAfter")
  /\ client' = ClientAfterTest
  /\ \/ /\ Connected
        /\ Becomes(<<Frame("receiveLoop")>>)
     \/ /\ ~Connected /\ At("receive")
        /\ Becomes(<<Frame("receiveAfter"), Frame("connect")>>)
     \/ /\ ~Connected /\ At("receiveAfter")
        /\ Return
  /\ UNCHANGED <<created, freed, state, rx, link, wire, toServer, serverVars,
                 received, pushed, fails, bounds>>

(* Mutant of LoopUnlessLink: the comparison is the wrong way round. *)
LoopWhileOther(p) == IF p.kind \in LinkKinds THEN Return ELSE UNCHANGED stack

(* The loop of receive_packet ends by the type of the last packet alone *)
LoopUnlessLink(p) == IF p.kind \in LinkKinds THEN UNCHANGED stack ELSE Return

(* The keep-alive of ncp_client_receive_packet may find the loss out *)
KeepAlive == state' \in {state} \cup (IF Lost /\ state = "active" THEN {"noTCP"} ELSE {})

Receive ==
  /\ At("receiveLoop")
  /\ \E p \in Packet :
       /\ p.complete
       /\ Delivered(p)
       /\ received' = IF p.kind = "data" THEN received \cup {p.nr} ELSE received
       /\ LoopUnlessLink(p)
  /\ KeepAlive
  /\ UNCHANGED <<client, created, freed, link, toServer, serverVars, pushed, fails, bounds>>

(* The connection was lost in the middle of a packet: its header arrives.  *)
ReceiveHeader ==
  /\ At("receiveLoop") \/ At("handshake")
  /\ \E p \in Packet : ~p.complete /\ Delivered(p)
  /\ UNCHANGED <<stack, client, created, freed, state, link, toServer, serverVars,
                 received, pushed, fails, bounds>>

(* recv fails, or there is no header to be had.  When the connection was   *)
(* closed in the middle of a packet there is no error: recv returns 0,     *)
(* packet_receive too, and ncp_client_receive_packet calls it for ever.    *)
RecvFails ==
  /\ At("receiveLoop")
  /\ wire = <<>> /\ Lost
  /\ link = "reset" \/ rx[created].complete

(* The call that fails is that of run.                                     *)
CountFailedTurn == fails' = IF At("decode")' THEN fails + 1 ELSE fails

(* As long as no keep-alive is due, it fails again and again.              *)
ReceiveError ==
  /\ RecvFails
  /\ LoopUnlessLink(rx[created])
  /\ CountFailedTurn
  /\ state = "active" => fails' <= MaxFails
  /\ UNCHANGED <<client, created, freed, state, rx, link, wire, toServer, serverVars,
                 received, pushed, bounds>>

ReceiveErrorFoundOut ==
  /\ RecvFails
  /\ state = "active" /\ state' = "noTCP"
  /\ LoopUnlessLink(rx[created])
  /\ CountFailedTurn
  /\ UNCHANGED <<client, created, freed, rx, link, wire, toServer, serverVars,
                 received, pushed, bounds>>

-----------------------------------------------------------------------------
(* ackWait *)
AckWaitEnter ==
  /\ At("ackWait")
  /\ client' = ClientAfterTest
  /\ IF Connected THEN Becomes(<<Frame("ackTurn")>>) ELSE Return
  /\ UNCHANGED <<created, freed, state, rx, link, wire, toServer, serverVars,
                 received, pushed, fails, bounds>>

AckTurn ==
  /\ At("ackTurn")
  /\ Top.turn < MaxTries
  /\ IF client # Null
       THEN Becomes(<<[Top EXCEPT !.at = "ackRead", !.ptr = client], Frame("receive")>>)
       ELSE stack' = <<Frame("crashed")>>
  /\ UNCHANGED <<client, created, freed, state, rx, link, wire, toServer, serverVars,
                 received, pushed, fails, bounds>>

AckTimeout ==
  /\ At("ackTurn")
  /\ Top.turn = MaxTries
  /\ Return
  /\ UNCHANGED <<client, created, freed, state, rx, link, wire, toServer, serverVars,
                 received, pushed, fails, bounds>>

(* The packet is searched for a parameter; any will do, since the          *)
(* comparison with ACKN is an empty statement.  A keep-alive has none.     *)
HasParameter(p) == p.complete /\ p.kind # "alive"

AckRead ==
  /\ At("ackRead")
  /\ IF HasParameter(rx[Top.ptr])
       THEN Return
       ELSE Becomes(<<[Frame("ackTurn") EXCEPT !.turn = Top.turn + 1]>>)
  /\ UNCHANGED <<client, created, freed, state, rx, link, wire, toServer, serverVars,
                 received, pushed, fails, bounds>>

-----------------------------------------------------------------------------
(* run: the pointer to the receive packet is taken before receive_packet *)
RunTurn ==
  /\ At("run")
  /\ client' = ClientAfterTest
  /\ Becomes(<<[Frame("decode") EXCEPT !.ptr = ClientAfterTest], Frame("receive")>>)
  /\ UNCHANGED <<created, freed, state, rx, link, wire, toServer, serverVars,
                 received, pushed, fails, bounds>>

(* getPacketData: only a complete packet can be read, and only one with    *)
(* samples makes a capture that is pushed.  Nothing tells a packet that    *)
(* was read in an earlier turn from one that has just been received.       *)
Readable(p) == p.complete /\ p.kind = "data"

RunDecode ==
  /\ At("decode")
  /\ LET p == IF Top.ptr = Null THEN NoPacket ELSE rx[Top.ptr]
     IN  pushed' = IF Readable(p) THEN [pushed EXCEPT ![p.nr] = @ + 1] ELSE pushed
  /\ Becomes(<<Frame("run")>>)
  /\ UNCHANGED <<client, created, freed, state, rx, link, wire, toServer, serverVars,
                 received, fails, bounds>>

Node == \/ ConnectRefused \/ ConnectAccepted \/ Handshake
        \/ StartMission
        \/ SendConnects \/ SendPacket \/ SendGivesUp
        \/ ReceiveTest \/ Receive \/ ReceiveHeader \/ ReceiveError \/ ReceiveErrorFoundOut
        \/ AckWaitEnter \/ AckTurn \/ AckTimeout \/ AckRead
        \/ RunTurn \/ RunDecode

-----------------------------------------------------------------------------
(* The NCP server and the network, which are not part of the repository    *)
ClientUnchanged == UNCHANGED <<stack, client, created, freed, state, rx, received, pushed, fails>>
ToClient(kind, n) == wire' = Append(wire, [kind |-> kind, nr |-> n, complete |-> TRUE])

ServerHandles ==
  /\ link = "up" /\ toServer # <<>>
  /\ toServer' = Tail(toServer)
  /\ \/ /\ Head(toServer) = "request"
        /\ ToClient("authRequest", 0)
        /\ UNCHANGED <<confirmed, mission>>
     \/ /\ Head(toServer) = "response"
        /\ confirmed' = TRUE
        /\ ToClient("confirm", 0)
        /\ UNCHANGED mission
     \/ /\ Head(toServer) \in Commands
        /\ mission' = mission \cup {Head(toServer)}
        /\ ToClient("ack", 0)
        /\ UNCHANGED confirmed
  /\ ClientUnchanged
  /\ UNCHANGED <<link, sentData, bounds>>

ServerData ==
  /\ link = "up" /\ "loop" \in mission
  /\ sentData < MaxData /\ Len(wire) < MaxWire
  /\ sentData' = sentData + 1
  /\ ToClient("data", sentData + 1)
  /\ ClientUnchanged
  /\ UNCHANGED <<link, toServer, confirmed, mission, bounds>>

(* A second between two keep-alives: the one before has been received. *)
ServerAlive ==
  /\ link = "up" /\ confirmed
  /\ Len(wire) < MaxWire /\ \A i \in 1..Len(wire) : wire[i].kind # "alive"
  /\ ToClient("alive", 0)
  /\ ClientUnchanged
  /\ UNCHANGED <<link, toServer, serverVars, bounds>>

(* The connection is closed or reset: a prefix of what was in flight still *)
(* arrives, the last packet possibly in part.                              *)
Break ==
  /\ link = "up" /\ breaks < MaxBreaks
  /\ breaks' = breaks + 1
  /\ link' \in {"closed", "reset"}
  /\ \E n \in 0..Len(wire) :
       wire' \in {SubSeq(wire, 1, n)}
                 \cup (IF n = 0 THEN {} ELSE {[SubSeq(wire, 1, n) EXCEPT ![n].complete = FALSE]})
  /\ toServer' = <<>>
  /\ mission' = {}
  /\ ClientUnchanged
  /\ UNCHANGED <<confirmed, sentData, refusals>>

Next == Node \/ ServerHandles \/ ServerData \/ ServerAlive \/ Break

Spec == Init /\ [][Next]_vars

(* The thread runs, the server answers; and since a failing recv returns   *)
(* at once while time goes on, a keep-alive falls due and finds the loss.  *)
FairSpec == /\ Spec
            /\ WF_vars(Node) /\ SF_vars(ReceiveErrorFoundOut)
            /\ WF_vars(ServerHandles) /\ WF_vars(ServerData)

-----------------------------------------------------------------------------
Labels == {"run", "decode", "connect", "handshake", "mission1", "mission2", "mission3",
           "mission4", "mission5", "send", "sendAfter", "receive", "receiveAfter",
           "receiveLoop", "ackWait", "ackTurn", "ackRead", "crashed"}

TypeOK ==
  /\ \A i \in 1..Len(stack) : stack[i] \in [at : Labels, ptr : Clients \cup {Null},
                                           turn : 0..MaxTries,
                                           command : Commands \cup {"none"}]
  /\ stack # <<>>
  /\ client \in Clients \cup {Null} /\ created \in Clients \cup {0}
  /\ freed \subseteq Clients
  /\ state \in {"noTCP", "established", "sentRequest", "sentResponse", "active"}
  /\ rx \in [Clients -> Packet \cup {NoPacket}]
  /\ link \in {"none", "up", "closed", "reset"}
  /\ \A i \in 1..Len(wire) : wire[i] \in Packet
  /\ \A i \in 1..Len(toServer) : toServer[i] \in Commands \cup {"request", "response"}
  /\ confirmed \in BOOLEAN /\ mission \subseteq Commands
  /\ sentData \in 0..MaxData
  /\ received \subseteq 1..MaxData
  /\ pushed \in [1..MaxData -> Nat] /\ fails \in Nat
  /\ breaks \in 0..MaxBreaks /\ refusals \in 0..MaxRefusals

(* The client is active only on a connection whose server confirmed it,    *)
(* whatever happened to connections before: after each loss the greeting   *)
(* and the authentication start from the beginning.                        *)
ActiveIsConfirmed == state = "active" => confirmed

(* node.cpp:195: the mission is started again after each disconnection.    *)
(* Whenever run is at the top of its loop with a live connection, both     *)
(* commands are executed or on their way, although connections may have    *)
(* come and gone in the middle of startMission.                            *)
MissionRestarted ==
  (At("run") /\ Connected /\ link = "up")
    => Commands \subseteq mission \cup {toServer[i] : i \in 1..Len(toServer)}

(* run and ackWait hold a pointer to a receive packet over calls that may  *)
(* reconnect, yet never read a packet of a client that was freed.          *)
NoDanglingPacket ==
  At("decode") \/ At("ackRead") => Top.ptr \notin freed

(* What is pushed was received to the last word of its packet. *)
PushedWasReceived == \A n \in 1..MaxData : pushed[n] > 0 => n \in received

(* Whatever run pushes again, it pushes again because a receive_packet of  *)
(* its own failed: nothing is repeated while receiving succeeds, and no    *)
(* more often than it fails, over reconnections too.                       *)
RepeatsAreFailures == \A n \in 1..MaxData : pushed[n] <= 1 + fails

(* receive_packet, connect and ackWait call each other in a circle: each   *)
(* level of startMission beyond the first was caused by a loss.            *)
MissionLabels == {"mission1", "mission2", "mission3", "mission4", "mission5"}
RecursionBounded ==
  Cardinality({i \in 1..Len(stack) : stack[i].at \in MissionLabels}) <= breaks + 1

(* Captures enter the shared queue in the order in which they were         *)
(* measured, over losses and reconnections, and only the latest one can    *)
(* come again, any number of times: what the collector is given by each    *)
(* node.                                                                   *)
AsSource == INSTANCE Source WITH
              Nodes <- {"this"}, Captures <- 1..MaxData,
              count <- [n \in {"this"} |-> pushed]
ImplementsSource == AsSource!Spec

(* ackWait tests the connection once and uses _ncp_client in every turn.   *)
(* One loss, at whatever moment, is survived; it takes a second one, or a  *)
(* refused reconnection, before a call in progress has come to its end.    *)
OneLossSurvived == breaks + refusals < 2 => ~At("crashed")

(* What was received is pushed, but for one capture on the first           *)
(* connection, which the wait for the second acknowledgement takes, and    *)
(* three for each further attempt: the same on the new connection; one for *)
(* the first wait of the mission the loss interrupted, which does not find *)
(* its acknowledgement before the captures any more; and one received into *)
(* the packet of the new client while ackWait or run look at the old one.  *)
FewCapturesDropped ==
  At("run") => Cardinality({n \in received : pushed[n] = 0}) <= 3 * created - 2

(* isConnected forgets the client it finds inactive before connect could   *)
(* free it.  A client, its packets and its socket are lost that way, but   *)
(* no more than one for each connection lost or refused, however the calls *)
(* that connect again are nested in each other.                            *)
OneClientPerLoss == created - Cardinality(freed) <= breaks + refusals + 1

(* The node thread in the midst of its circular calls: it speaks only to a *)
(* server that confirmed it, reads no freed packet, pushes only what came  *)
(* to the last word, and again only when a receive failed; and no loss     *)
(* costs more than one level of recursion and one client.                  *)
LinkInv == /\ TypeOK /\ ActiveIsConfirmed /\ NoDanglingPacket /\ PushedWasReceived
           /\ RepeatsAreFailures /\ RecursionBounded /\ OneClientPerLoss

(* Whatever was lost or refused before, at whatever moment of the mission  *)
(* or the handshake, a connection that holds gets through authentication,  *)
(* both commands and both waits: the mission runs.  ncp_client_connect has *)
(* no time limit, and startMission may be nested in that of a connection   *)
(* that was lost.                                                          *)
MissionRuns == []<>(mission = Commands \/ link # "up")

(* The last capture that is on the wire when run turns to it, behind all   *)
(* others, is pushed, unless the connection is lost on the way.            *)
OnWire(n) == \E i \in 1..Len(wire) : wire[i].kind = "data" /\ wire[i].nr = n
CapturesFlow ==
  (At("run") /\ Connected /\ link = "up" /\ OnWire(MaxData))
    ~> (pushed[MaxData] > 0 \/ link # "up")

(* A connection that holds does what the node is there for.                *)
LinkWorks == MissionRuns /\ CapturesFlow
=============================================================================
