--------------------------- MODULE ProgramProofs ---------------------------
(***************************************************************************)
(* Proofs about Program for every set of receivers, any number of entries  *)
(* in the configuration and queues of any length: the threads live as      *)
(* Lifecycle says, no receiver has two nodes as long as the section "tdoa" *)
(* moves none of them, no result is used after its deletion and no node    *)
(* thread ends before the collector has left its loop.                     *)
(***************************************************************************)
EXTENDS Program, TLAPS

NodeType == [host : Hosts \cup {NoHost}, port : Ports \cup {DefaultPort}, mode : {"test", "real"}]

(* A configuration has room: the entries not yet read and the nodes made of*)
(* the others are no more than the configuration had.                      *)
NodesInv ==
  /\ nodes \in Seq(NodeType)
  /\ unread \in [nodes : Seq(Entry), tdoa : Entry]
  /\ Len(nodes) + Len(unread.nodes) <= MaxEntries
  /\ main = "configure" => nodes = <<>>
  /\ moved \in BOOLEAN
  /\ ~moved => unread.tdoa.host = Unset /\ unread.tdoa.port = Unset
  /\ OneNodePerReceiver

(* Where main and the tdoa thread are with respect to each other, and what *)
(* each says of the node threads                                           *)
ThreadsInv ==
  /\ main \in {"configure", "setParams", "thread", "aborted"} => tdoa = "new"
  /\ main \in {"window", "while", "plot", "delete", "pop", "join"} => tdoa # "new"
  /\ main = "ended" => tdoa \in {"new", "over"}
  /\ terminate => main \in {"join", "ended"}
  /\ tdoa \in {"stopNodes", "join", "over"} => terminate
  /\ stopped # {} => tdoa \in {"join", "over"}
  /\ \A n \in NodeIds : node[n] = "over" => n \in stopped
  /\ \A n \in NodeIds : node[n] # "new" => n \in DOMAIN nodes /\ tdoa # "new"
  /\ tdoa = "over" => \A n \in NodeIds : node[n] \in {"new", "over"}

(* What is at the head of each queue *)
HeadInv ==
  /\ main \in {"plot", "delete", "pop"} => results > 0
  /\ deleted => main = "pop"
  /\ tdoa \in {"work", "pop"} => sharedQ > 0

PlainType ==
  /\ main \in {"configure", "setParams", "thread", "window", "while", "plot", "delete", "pop",
               "join", "ended", "aborted"}
  /\ tdoa \in {"new", "spawn", "while", "front", "work", "pop", "stopNodes", "join", "over"}
  /\ node \in [NodeIds -> {"new", "connect", "while", "receive", "over"}]
  /\ results \in 0..MaxQueue /\ deleted \in BOOLEAN /\ sharedQ \in 0..MaxQueue
  /\ windowOpen \in BOOLEAN /\ closeEvent \in BOOLEAN
  /\ window \in {"none", "open", "closed"}
  /\ terminate \in BOOLEAN /\ stopped \subseteq NodeIds /\ offered \subseteq NodeIds

IInv == PlainType /\ NodesInv /\ ThreadsInv /\ HeadInv

-----------------------------------------------------------------------------
(* Bounded sequences are functions, as TypeOK has them, or sequences *)
LEMMA Bounded ==
  ASSUME NEW S, NEW s
  PROVE  s \in UpToMaxEntries(S) <=> s \in Seq(S) /\ Len(s) <= MaxEntries
<1> USE ProgramAssumption
<1>1. ASSUME s \in UpToMaxEntries(S) PROVE s \in Seq(S) /\ Len(s) <= MaxEntries
  <2>1. PICK m \in 0..MaxEntries : s \in [1..m -> S]
    BY <1>1 DEF UpToMaxEntries
  <2> QED BY <2>1
<1>2. ASSUME s \in Seq(S), Len(s) <= MaxEntries PROVE s \in UpToMaxEntries(S)
  <2>1. Len(s) \in 0..MaxEntries /\ s \in [1..Len(s) -> S]
    BY <1>2
  <2> QED BY <2>1 DEF UpToMaxEntries
<1> QED BY <1>1, <1>2

LEMMA WithParamsType ==
  ASSUME NEW n \in NodeType, NEW members \in Entry
  PROVE  WithParams(n, members) \in NodeType
BY ProgramAssumption DEF WithParams, Given, NodeType, Entry, Modes

(* A section without an address leaves each node at its entry's.           *)
LEMMA ConfiguredType ==
  ASSUME NEW n \in NodeType, NEW entry \in Entry, unread.tdoa \in Entry
  PROVE  /\ Configured(n, entry) \in NodeType
         /\ unread.tdoa.host = Unset /\ unread.tdoa.port = Unset =>
              /\ Configured(n, entry).host = Given(entry.host, n.host)
              /\ Configured(n, entry).port = Given(entry.port, n.port)
<1> DEFINE w == WithParams(n, entry)
<1>1. w \in NodeType
  BY WithParamsType
<1>2. w.host = Given(entry.host, n.host) /\ w.port = Given(entry.port, n.port)
  BY DEF WithParams
<1> HIDE DEF w
<1>3. WithParams(w, unread.tdoa) \in NodeType
  BY <1>1, WithParamsType
<1>4. /\ WithParams(w, unread.tdoa).host = Given(unread.tdoa.host, w.host)
      /\ WithParams(w, unread.tdoa).port = Given(unread.tdoa.port, w.port)
  BY DEF WithParams
<1>5. Configured(n, entry) = WithParams(w, unread.tdoa)
  BY DEF Configured, w
<1> QED BY <1>2, <1>3, <1>4, <1>5 DEF Given

(* Both branches of addNode keep the nodes well formed.                    *)
LEMMA WithEntryType ==
  ASSUME NodesInv, NEW entry \in Entry
  PROVE  /\ WithEntry(nodes, entry) \in Seq(NodeType)
         /\ Len(WithEntry(nodes, entry)) <= Len(nodes) + 1
<1> DEFINE known == Known(nodes, entry)
<1>0. nodes \in Seq(NodeType) /\ DOMAIN nodes = 1..Len(nodes) /\ Len(nodes) \in Nat /\ unread.tdoa \in Entry
  BY DEF NodesInv
<1>1. CASE known = {}
  <2>1. NewNode \in NodeType
    BY DEF NewNode, NodeType
  <2>2. Configured(NewNode, entry) \in NodeType
    BY <1>0, <2>1, ConfiguredType
  <2> QED BY <1>0, <1>1, <2>2 DEF WithEntry
<1>2. CASE known # {}
  <2> DEFINE k == CHOOSE j \in known : \A l \in known : j <= l
             all == [nodes EXCEPT ![k] = Configured(nodes[k], entry)]
  <2>1. WithEntry(nodes, entry) = all
    BY <1>2 DEF WithEntry
  <2> HIDE DEF k, known
  <2>2. \A i \in 1..Len(nodes) : all[i] = IF i = k THEN Configured(nodes[i], entry) ELSE nodes[i]
    BY <1>0
  <2>3. \A i \in 1..Len(nodes) : nodes[i] \in NodeType
    BY <1>0
  <2>4. \A i \in 1..Len(nodes) : Configured(nodes[i], entry) \in NodeType
    BY <1>0, <2>3, ConfiguredType
  <2>5. all \in [1..Len(nodes) -> NodeType]
    BY <1>0, <2>2, <2>3, <2>4
  <2> HIDE DEF all
  <2> QED BY <1>0, <2>1, <2>5
<1> QED BY <1>1, <1>2

(* addNode finds the node there is, or makes one that is not there yet, if *)
(* the nodes are where their entries say.                                  *)
LEMMA WithEntryKeeps ==
  ASSUME NodesInv, NEW entry \in Entry, ~moved
  PROVE  LET all == WithEntry(nodes, entry) IN
         \A i, j \in DOMAIN all : all[i].host = all[j].host /\ all[i].port = all[j].port
                                    => i = j \/ all[i].host = NoHost
<1> DEFINE known == Known(nodes, entry)
<1> USE ProgramAssumption
<1>0. /\ nodes \in Seq(NodeType) /\ Len(nodes) \in Nat /\ DOMAIN nodes = 1..Len(nodes)
      /\ unread.tdoa \in Entry /\ unread.tdoa.host = Unset /\ unread.tdoa.port = Unset
      /\ entry.host \in Hosts \cup {Unset}
      /\ \A i, j \in 1..Len(nodes) : nodes[i].host = nodes[j].host /\ nodes[i].port = nodes[j].port
                                       => i = j \/ nodes[i].host = NoHost
  BY DEF NodesInv, Entry, OneNodePerReceiver
<1>1. CASE known = {}
  <2> DEFINE new == Configured(NewNode, entry)
             all == Append(nodes, new)
  <2>1. /\ new \in NodeType /\ new.host = Given(entry.host, NoHost)
        /\ new.port = Given(entry.port, DefaultPort)
    <3>1. NewNode \in NodeType /\ NewNode.host = NoHost /\ NewNode.port = DefaultPort
      BY DEF NewNode, NodeType
    <3> QED BY <1>0, <3>1, ConfiguredType
  <2>2. WithEntry(nodes, entry) = all
    BY <1>1 DEF WithEntry
  <2>3. \A i \in 1..Len(nodes) : nodes[i].host = new.host /\ nodes[i].port = new.port
                                  => new.host = NoHost
    BY <1>0, <1>1, <2>1 DEF Known, Given
  <2> HIDE DEF new
  <2>4. /\ DOMAIN all = 1..Len(nodes) + 1
        /\ \A i \in 1..Len(nodes) : all[i] = nodes[i]
        /\ all[Len(nodes) + 1] = new
    BY <1>0, <2>1
  <2> HIDE DEF all
  <2>5. ASSUME NEW i \in DOMAIN all, NEW j \in DOMAIN all,
               all[i].host = all[j].host, all[i].port = all[j].port
        PROVE  i = j \/ all[i].host = NoHost
    <3>1. CASE i \in 1..Len(nodes) /\ j \in 1..Len(nodes)
      BY <1>0, <2>4, <2>5, <3>1
    <3>2. CASE i = Len(nodes) + 1 \/ j = Len(nodes) + 1
      BY <1>0, <2>3, <2>4, <2>5, <3>2
    <3> QED BY <1>0, <2>4, <3>1, <3>2
  <2> QED BY <2>2, <2>5
<1>2. CASE known # {}
  <2>1. PICK k \in known : TRUE
    BY <1>2
  <2>2. \A j \in known : /\ j \in 1..Len(nodes)
                         /\ nodes[j].host = Given(entry.host, DefaultHost)
                         /\ nodes[j].port = Given(entry.port, DefaultPort)
    BY <1>0 DEF Known
  <2>3. Given(entry.host, DefaultHost) # NoHost
    BY <1>0 DEF NoHost, DefaultHost, Given
  <2>4. known = {k}
    BY <1>0, <2>1, <2>2, <2>3
  <2> DEFINE new == Configured(nodes[k], entry)
             all == [nodes EXCEPT ![k] = new]
  <2>5. (CHOOSE j \in known : \A l \in known : j <= l) = k
    BY <1>0, <2>2, <2>4
  <2>6. WithEntry(nodes, entry) = all
    BY <1>2, <2>5 DEF WithEntry
  <2>7. nodes[k] \in NodeType /\ k \in 1..Len(nodes)
    BY <1>0, <2>1, <2>2
  <2>8. /\ new.host = Given(entry.host, nodes[k].host) /\ new.port = Given(entry.port, nodes[k].port)
    BY <1>0, <2>7, ConfiguredType
  <2>9. new.host = nodes[k].host /\ new.port = nodes[k].port
    BY <2>1, <2>2, <2>8 DEF Given
  <2> HIDE DEF new, known
  <2>10. /\ DOMAIN all = 1..Len(nodes)
         /\ \A i \in 1..Len(nodes) : all[i] = IF i = k THEN new ELSE nodes[i]
    BY <1>0, <2>7
  <2>11. \A i \in 1..Len(nodes) : all[i].host = nodes[i].host /\ all[i].port = nodes[i].port
    BY <2>9, <2>10
  <2> HIDE DEF all
  <2> QED BY <1>0, <2>6, <2>10, <2>11
<1> QED BY <1>1, <1>2

-----------------------------------------------------------------------------
LEMMA InitOk == Init => IInv
<1> SUFFICES ASSUME Init PROVE IInv
  OBVIOUS
<1> USE ProgramAssumption
<1>1. HeadInv
  BY DEF Init, HeadInv
<1>0. PlainType
  <2>1. node \in [NodeIds -> {"new", "connect", "while", "receive", "over"}]
    BY DEF Init
  <2>2. results \in 0..MaxQueue /\ sharedQ \in 0..MaxQueue
    BY DEF Init
  <2> QED BY <2>1, <2>2 DEF Init, PlainType
<1>2. ThreadsInv
  BY DEF Init, ThreadsInv
<1>3. unread.nodes = <<>> /\ unread \in [nodes : Seq(Entry), tdoa : Entry] /\ nodes = <<>>
      /\ unread.tdoa.host = Unset /\ unread.tdoa.port = Unset
  BY DEF Init, NothingUnread, NoMembers, Entry, Modes
<1>4. NodesInv
  <2>1. moved \in BOOLEAN
    BY DEF Init
  <2>2. OneNodePerReceiver
    BY <1>3 DEF OneNodePerReceiver
  <2> QED BY <1>3, <2>1, <2>2 DEF Init, NodesInv
<1> QED BY <1>0, <1>1, <1>2, <1>4 DEF IInv

(* Queues whose length is cut off at MaxQueue *)
LEMMA Lengths ==
  ASSUME NEW length \in 0..MaxQueue
  PROVE  /\ Pushed(length) \in 1..MaxQueue
         /\ length > 0 => Popped(length) \subseteq 0..MaxQueue
BY ProgramAssumption DEF Pushed, Popped

LEMMA PlainNext == IInv /\ [Next]_vars => PlainType'
<1> SUFFICES ASSUME IInv, [Next]_vars PROVE PlainType'
  OBVIOUS
<1>1. PlainType /\ HeadInv /\ DOMAIN nodes \subseteq NodeIds
  <2>1. DOMAIN nodes = 1..Len(nodes) /\ Len(nodes) \in Nat /\ Len(nodes) <= MaxEntries
    BY ProgramAssumption DEF IInv, NodesInv
  <2> QED BY <2>1, ProgramAssumption DEF IInv, NodeIds
<1>2. results \in 0..MaxQueue /\ sharedQ \in 0..MaxQueue
  BY <1>1 DEF PlainType
<1>3. CASE Main
  <2>1. CASE PopResult
    BY <1>1, <1>2, <2>1, Lengths DEF PopResult, PlainType, HeadInv
  <2> QED BY <1>1, <1>3, <2>1, ZenonT(60) DEF Main, NoConfiguration, Configure, SetParams, SetParamsEnds,
        BadConfiguration, StartTdoa, OpenWindow, WhileOpen, PlotResult, DeleteResult, Stop,
        JoinTdoa, PlainType
<1>4. CASE Tdoa
  <2>1. CASE TdoaWork
    BY <1>1, <1>2, <2>1, Lengths, ProgramAssumption DEF TdoaWork, TdoaOnly, PlainType
  <2>2. CASE TdoaPop
    BY <1>1, <1>2, <2>2, Lengths DEF TdoaPop, TdoaOnly, PlainType, HeadInv
  <2>3. CASE SpawnNode
    BY <1>1, <2>3 DEF SpawnNode, TdoaOnly, PlainType
  <2> QED BY <1>1, <1>4, <2>1, <2>2, <2>3 DEF Tdoa, AllSpawned, TdoaTest, TdoaFront, StopNodes,
        JoinNodes, TdoaOnly, PlainType
<1>5. ASSUME NEW n \in NodeIds, Node(n) PROVE PlainType'
  BY <1>1, <1>2, <1>5, Lengths, ProgramAssumption
  DEF Node, NodeConnect, NodeTest, NodeReceive, NodeOnly, Answered, PlainType
<1>6. CASE UserCloses
  BY <1>1, <1>6 DEF UserCloses, PlainType
<1>7. ASSUME NEW n \in NodeIds, ServerSends(n) PROVE PlainType'
  BY <1>1, <1>7 DEF ServerSends, PlainType
<1>8. CASE UNCHANGED vars
  BY <1>1, <1>8 DEF vars, PlainType
<1> QED BY <1>3, <1>4, <1>5, <1>6, <1>7, <1>8 DEF Next

(* Only setParams changes the nodes. *)
LEMMA NodesNext == IInv /\ [Next]_vars => NodesInv'
<1> SUFFICES ASSUME IInv, [Next]_vars PROVE NodesInv'
  OBVIOUS
<1> USE ProgramAssumption
<1>0. NodesInv
  BY DEF IInv
<1>1. CASE UNCHANGED <<unread, moved, nodes>> /\ (main' = "configure" => main = "configure")
  BY <1>0, <1>1 DEF NodesInv, OneNodePerReceiver
<1>2. CASE Configure
  <2>1. /\ unread' \in [nodes : Seq(Entry), tdoa : Entry] /\ Len(unread'.nodes) <= MaxEntries
    BY <1>2, Bounded DEF Configure, Configuration
  <2>2. nodes' = nodes /\ Len(nodes') = 0 /\ nodes' = <<>> /\ nodes' \in Seq(NodeType)
    BY <1>0, <1>2 DEF Configure, NodesInv
  <2>3. moved' \in BOOLEAN /\ (~moved' => unread'.tdoa.host = Unset /\ unread'.tdoa.port = Unset)
    BY <1>2 DEF Configure
  <2>4. OneNodePerReceiver'
    BY <2>2 DEF OneNodePerReceiver
  <2> QED BY <1>2, <2>1, <2>2, <2>3, <2>4 DEF NodesInv, Configure
<1>3. CASE SetParams
  <2> DEFINE entry == Head(unread.nodes)
  <2>1. /\ unread.nodes \in Seq(Entry) /\ unread.nodes # <<>>
        /\ Len(unread.nodes) \in Nat /\ Len(nodes) \in Nat
    BY <1>0, <1>3 DEF SetParams, NodesInv
  <2>2. /\ entry \in Entry
        /\ Tail(unread.nodes) \in Seq(Entry) /\ Len(Tail(unread.nodes)) = Len(unread.nodes) - 1
    BY <2>1
  <2>3. /\ unread'.nodes = Tail(unread.nodes)
        /\ unread' \in [nodes : Seq(Entry), tdoa : Entry]
        /\ unread'.tdoa = unread.tdoa /\ moved' = moved
        /\ nodes' = WithEntry(nodes, entry)
    BY <1>0, <1>3, <2>2 DEF SetParams, NodesInv
  <2> HIDE DEF entry
  <2>4. /\ nodes' \in Seq(NodeType) /\ Len(nodes') <= Len(nodes) + 1
        /\ OneNodePerReceiver'
    <3>1. nodes' \in Seq(NodeType) /\ Len(nodes') <= Len(nodes) + 1
      BY <1>0, <2>2, <2>3, WithEntryType
    <3>2. OneNodePerReceiver'
      BY <1>0, <2>2, <2>3, WithEntryKeeps DEF OneNodePerReceiver
    <3> QED BY <3>1, <3>2
  <2>5. Len(nodes') \in Nat
    BY <2>4
  <2> QED BY <1>0, <1>3, <2>1, <2>2, <2>3, <2>4, <2>5 DEF NodesInv, SetParams
<1>4. CASE SetParamsEnds
  <2>1. unread'.nodes = <<>> /\ unread' \in [nodes : Seq(Entry), tdoa : Entry]
        /\ nodes' = nodes /\ unread.nodes = <<>> /\ moved' = moved
        /\ unread'.tdoa.host = Unset /\ unread'.tdoa.port = Unset
    BY <1>4 DEF SetParamsEnds, NothingUnread, NoMembers, Entry, Modes
  <2> QED BY <1>0, <1>4, <2>1 DEF NodesInv, OneNodePerReceiver, SetParamsEnds
<1>5. CASE Main
  BY <1>1, <1>2, <1>3, <1>4, <1>5 DEF Main, NoConfiguration, BadConfiguration, StartTdoa, OpenWindow,
     WhileOpen, PlotResult, DeleteResult, PopResult, Stop, JoinTdoa
<1>6. CASE Tdoa
  BY <1>1, <1>6 DEF Tdoa, SpawnNode, AllSpawned, TdoaTest, TdoaFront, TdoaWork, TdoaPop, StopNodes,
     JoinNodes, TdoaOnly
<1>7. ASSUME NEW n \in NodeIds, Node(n) \/ ServerSends(n) PROVE NodesInv'
  BY <1>1, <1>7 DEF Node, NodeConnect, NodeTest, NodeReceive, NodeOnly, ServerSends
<1>8. CASE UserCloses \/ UNCHANGED vars
  BY <1>1, <1>8 DEF UserCloses, vars
<1> QED BY <1>5, <1>6, <1>7, <1>8 DEF Next

LEMMA ThreadsNext == IInv /\ [Next]_vars => ThreadsInv'
<1> SUFFICES ASSUME IInv, [Next]_vars PROVE ThreadsInv'
  OBVIOUS
<1>0. ThreadsInv /\ PlainType /\ DOMAIN nodes \subseteq NodeIds /\ DOMAIN nodes = 1..Len(nodes)
  <2>1. DOMAIN nodes = 1..Len(nodes) /\ Len(nodes) \in Nat /\ Len(nodes) <= MaxEntries
    BY ProgramAssumption DEF IInv, NodesInv
  <2> QED BY <2>1, ProgramAssumption DEF IInv, NodeIds
<1>1. CASE UNCHANGED <<main, tdoa, node, terminate, stopped, nodes>>
  BY <1>0, <1>1 DEF ThreadsInv
<1>2. CASE Configure \/ SetParams \/ SetParamsEnds \/ NoConfiguration \/ BadConfiguration \/ StartTdoa
  <2>1. tdoa = "new" /\ \A n \in NodeIds : node[n] = "new"
    BY <1>0, <1>2 DEF ThreadsInv, Configure, SetParams, SetParamsEnds, NoConfiguration, BadConfiguration,
       StartTdoa
  <2> QED BY <1>0, <1>2, <2>1 DEF ThreadsInv, Configure, SetParams, SetParamsEnds, NoConfiguration,
       BadConfiguration, StartTdoa
<1>3. CASE OpenWindow \/ WhileOpen \/ PlotResult \/ DeleteResult \/ PopResult \/ Stop \/ JoinTdoa
  BY <1>0, <1>3 DEF ThreadsInv, OpenWindow, WhileOpen, PlotResult, DeleteResult, PopResult, Stop, JoinTdoa
<1>4. CASE SpawnNode
  <2>1. PICK n \in DOMAIN nodes : node[n] = "new" /\ node' = [node EXCEPT ![n] = "connect"]
    BY <1>4 DEF SpawnNode
  <2>2. \A m \in NodeIds : node'[m] = IF m = n THEN "connect" ELSE node[m]
    BY <1>0, <2>1 DEF PlainType
  <2> QED BY <1>0, <1>4, <2>1, <2>2 DEF SpawnNode, TdoaOnly, ThreadsInv
<1>5. CASE AllSpawned \/ TdoaTest \/ TdoaFront \/ TdoaWork \/ TdoaPop \/ StopNodes
  BY <1>0, <1>5 DEF AllSpawned, TdoaTest, TdoaFront, TdoaWork, TdoaPop, StopNodes, TdoaOnly, ThreadsInv
<1>6. CASE JoinNodes
  BY <1>0, <1>6 DEF JoinNodes, TdoaOnly, ThreadsInv
<1>7. ASSUME NEW n \in NodeIds, Node(n) PROVE ThreadsInv'
  <2>1. /\ node[n] \notin {"new", "over"}
        /\ node' = [node EXCEPT ![n] = node'[n]]
        /\ node'[n] # "new" /\ (node'[n] = "over" => n \in stopped)
        /\ UNCHANGED <<main, tdoa, terminate, stopped, nodes>>
    BY <1>0, <1>7 DEF Node, NodeConnect, NodeTest, NodeReceive, NodeOnly, PlainType
  <2>2. \A m \in NodeIds : m # n => node'[m] = node[m]
    BY <1>0, <2>1 DEF PlainType
  <2> QED BY <1>0, <2>1, <2>2 DEF ThreadsInv
<1>8. CASE UserCloses \/ UNCHANGED vars
  BY <1>1, <1>8 DEF UserCloses, vars
<1>9. ASSUME NEW n \in NodeIds, ServerSends(n) PROVE ThreadsInv'
  BY <1>1, <1>9 DEF ServerSends
<1> QED BY <1>2, <1>3, <1>4, <1>5, <1>6, <1>7, <1>8, <1>9 DEF Next, Main, Tdoa

LEMMA HeadNext == IInv /\ [Next]_vars => HeadInv'
<1> SUFFICES ASSUME IInv, [Next]_vars PROVE HeadInv'
  OBVIOUS
<1>0. HeadInv /\ results \in 0..MaxQueue /\ sharedQ \in 0..MaxQueue
  BY DEF IInv, PlainType
<1>1. CASE UNCHANGED <<main, tdoa, results, deleted, sharedQ>>
  BY <1>0, <1>1 DEF HeadInv
<1>2. CASE Main
  BY <1>0, <1>2 DEF Main, NoConfiguration, Configure, SetParams, SetParamsEnds, BadConfiguration,
     StartTdoa, OpenWindow, WhileOpen, PlotResult, DeleteResult, PopResult, Stop, JoinTdoa, HeadInv
<1>3. CASE Tdoa
  <2>1. CASE TdoaWork
    <3>1. results' = results \/ results' \in 1..MaxQueue
      BY <1>0, <2>1, Lengths DEF TdoaWork
    <3> QED BY <1>0, <2>1, <3>1, ProgramAssumption DEF TdoaWork, TdoaOnly, HeadInv
  <2> QED BY <1>0, <1>3, <2>1 DEF Tdoa, SpawnNode, AllSpawned, TdoaTest, TdoaFront, TdoaPop, StopNodes,
        JoinNodes, TdoaOnly, HeadInv
<1>4. ASSUME NEW n \in NodeIds, Node(n) PROVE HeadInv'
  <2>1. /\ UNCHANGED <<main, tdoa, results, deleted>>
        /\ sharedQ' = sharedQ \/ sharedQ' \in 1..MaxQueue
    BY <1>0, <1>4, Lengths DEF Node, NodeConnect, NodeTest, NodeReceive, NodeOnly
  <2> QED BY <1>0, <2>1, ProgramAssumption DEF HeadInv
<1>5. CASE UserCloses \/ UNCHANGED vars
  BY <1>1, <1>5 DEF UserCloses, vars
<1>6. ASSUME NEW n \in NodeIds, ServerSends(n) PROVE HeadInv'
  BY <1>1, <1>6 DEF ServerSends
<1> QED BY <1>2, <1>3, <1>4, <1>5, <1>6 DEF Next

LEMMA Invariant == Spec => []IInv
<1>1. IInv /\ [Next]_vars => IInv'
  BY PlainNext, NodesNext, ThreadsNext, HeadNext DEF IInv
<1> QED BY <1>1, InitOk, PTL DEF Spec

(* One node for each receiver however often the configuration names it     *)
(* (addNode); no result drawn or deleted after its deletion (main); no     *)
(* node thread over before the collector has left its loop (tdoa::run).    *)
THEOREM ProgramConsistent == Spec => []ProgramInv
<1>1. IInv => ProgramInv
  <2> SUFFICES ASSUME IInv PROVE ProgramInv
    OBVIOUS
  <2>1. /\ nodes \in UpToMaxEntries(NodeType) /\ unread \in Configuration
    <3>1. Len(nodes) \in Nat /\ Len(unread.nodes) \in Nat /\ unread \in [nodes : Seq(Entry), tdoa : Entry]
      BY DEF IInv, NodesInv
    <3>2. Len(nodes) <= MaxEntries /\ Len(unread.nodes) <= MaxEntries
      BY <3>1, ProgramAssumption DEF IInv, NodesInv
    <3> QED BY <3>1, <3>2, Bounded DEF IInv, NodesInv, Configuration
  <2>2. TypeOK
    BY <2>1 DEF TypeOK, NodeType, IInv, NodesInv, PlainType
  <2>3. OneNodePerReceiver /\ ResultIsLive
    BY DEF IInv, NodesInv, HeadInv, ResultIsLive
  <2>4. NodesOutliveCollector
    <3>1. DOMAIN nodes \subseteq NodeIds
      <4>1. DOMAIN nodes = 1..Len(nodes) /\ Len(nodes) \in Nat /\ Len(nodes) <= MaxEntries
        BY ProgramAssumption DEF IInv, NodesInv
      <4> QED BY <4>1, ProgramAssumption DEF NodeIds
    <3> QED BY <3>1 DEF IInv, ThreadsInv, NodesOutliveCollector
  <2> QED BY <2>2, <2>3, <2>4 DEF ProgramInv
<1> QED BY <1>1, Invariant, PTL

-----------------------------------------------------------------------------
(* The refinement: what the threads do is what Lifecycle allows.           *)
Alive == {t \in Thread : At(t) \notin {"new", "over"}}
Finished == {t \in Thread : At(t) = "over"}

LEMMA RefinesInit == Init => Abstract!Init
<1> SUFFICES ASSUME Init PROVE Abstract!Init
  OBVIOUS
<1>1. \A t \in Thread : At(t) = "new"
  BY DEF Init, Thread, At
<1> QED BY <1>1 DEF Abstract!Init, Init, Phase

LEMMA RefinesQuiet ==
  ASSUME UNCHANGED <<Phase, tdoa, node>>
  PROVE  UNCHANGED Abstract!vars
BY DEF Abstract!vars, At

(* One thread moves, from at to to. *)
LEMMA OneThread ==
  ASSUME NEW t \in Thread, At(t)' # At(t), \A s \in Thread : s # t => At(s)' = At(s)
  PROVE  /\ At(t) = "new" /\ At(t)' # "over" =>
              t \notin Alive \cup Finished /\ Alive' = Alive \cup {t} /\ Finished' = Finished
         /\ At(t) \notin {"new", "over"} /\ At(t)' = "over" =>
              t \in Alive /\ Alive' = Alive \ {t} /\ Finished' = Finished \cup {t}
         /\ {At(t), At(t)'} \cap {"new", "over"} = {} => Alive' = Alive /\ Finished' = Finished
BY DEF Alive, Finished

LEMMA RefinesNext ==
  ASSUME IInv, [Next]_vars
  PROVE  [Abstract!Next]_(Abstract!vars)
<1>0. /\ ThreadsInv /\ PlainType /\ DOMAIN nodes \subseteq NodeIds
      /\ \A n \in NodeIds : <<"node", n>> \in Thread /\ At(<<"node", n>>) = node[n] /\ At(<<"node", n>>)' = node'[n]
      /\ <<"tdoa", 0>> \in Thread /\ At(<<"tdoa", 0>>) = tdoa /\ At(<<"tdoa", 0>>)' = tdoa'
      /\ \A t \in Thread : t = <<"tdoa", 0>> \/ \E n \in NodeIds : t = <<"node", n>>
  <2>1. DOMAIN nodes = 1..Len(nodes) /\ Len(nodes) \in Nat /\ Len(nodes) <= MaxEntries
    BY ProgramAssumption DEF IInv, NodesInv
  <2> QED BY <2>1, ProgramAssumption DEF IInv, NodeIds, Thread, At
<1>1. CASE UNCHANGED <<main, tdoa, node>>
  BY <1>1, RefinesQuiet DEF Phase
<1>2. CASE NoConfiguration \/ BadConfiguration \/ SetParamsEnds
  <2>1. UNCHANGED <<Alive, Finished>> /\ Phase = "configuring" /\ Phase' \in {"running", "ended", "aborted"}
    BY <1>2 DEF NoConfiguration, BadConfiguration, SetParamsEnds, Phase, Alive, Finished, At
  <2>2. Abstract!Configure
    BY <2>1 DEF Abstract!Configure, Abstract!Move, Alive, Finished
  <2> QED BY <2>2 DEF Abstract!Next
<1>3. CASE Configure \/ SetParams \/ OpenWindow \/ WhileOpen \/ PlotResult \/ DeleteResult \/ PopResult
  BY <1>3, RefinesQuiet DEF Configure, SetParams, OpenWindow, WhileOpen, PlotResult, DeleteResult,
     PopResult, Phase
<1>4. CASE StartTdoa
  <2>1. tdoa = "new" /\ tdoa' = "spawn" /\ node' = node /\ Phase = "running" /\ Phase' = "running"
    BY <1>0, <1>4 DEF StartTdoa, ThreadsInv, Phase
  <2>2. \A s \in Thread : s # <<"tdoa", 0>> => At(s)' = At(s)
    BY <1>0, <2>1
  <2>3. /\ <<"tdoa", 0>> \notin Alive \cup Finished
        /\ Alive' = Alive \cup {<<"tdoa", 0>>} /\ Finished' = Finished
    BY <1>0, <2>1, <2>2, OneThread
  <2>4. Abstract!Start(<<"tdoa", 0>>)
    BY <2>1, <2>3 DEF Abstract!Start, Alive, Finished
  <2> QED BY <1>0, <2>4 DEF Abstract!Next
<1>5. CASE Stop
  <2>1. UNCHANGED <<Alive, Finished>> /\ Phase = "running" /\ Phase' = "stopping"
    BY <1>5 DEF Stop, Phase, Alive, Finished, At
  <2>2. Abstract!Stop
    BY <2>1 DEF Abstract!Stop, Abstract!Move, Alive, Finished
  <2> QED BY <2>2 DEF Abstract!Next
<1>6. CASE JoinTdoa
  <2>1. UNCHANGED <<Alive, Finished>> /\ Phase = "stopping" /\ Phase' = "ended"
    BY <1>6 DEF JoinTdoa, Phase, Alive, Finished, At
  <2>2. tdoa = "over" /\ \A n \in NodeIds : node[n] \in {"new", "over"}
    BY <1>0, <1>6 DEF JoinTdoa, ThreadsInv
  <2>3. Alive = {}
    BY <1>0, <2>2 DEF Alive
  <2>4. Abstract!End
    BY <2>1, <2>3 DEF Abstract!End, Abstract!Move, Alive, Finished
  <2> QED BY <2>4 DEF Abstract!Next
<1>7. CASE SpawnNode
  <2>1. PICK n \in DOMAIN nodes : node[n] = "new" /\ node' = [node EXCEPT ![n] = "connect"]
    BY <1>7 DEF SpawnNode
  <2>2. /\ node'[n] = "connect" /\ \A m \in NodeIds : m # n => node'[m] = node[m]
        /\ tdoa' = tdoa /\ main' = main /\ n \in NodeIds /\ tdoa = "spawn"
    BY <1>0, <1>7, <2>1 DEF PlainType, SpawnNode, TdoaOnly
  <2>3. Phase \in {"running", "stopping"} /\ Phase' = Phase
    BY <1>0, <2>2 DEF ThreadsInv, PlainType, Phase
  <2> DEFINE t == <<"node", n>>
  <2>4. t \in Thread /\ At(t) = "new" /\ At(t)' = "connect" /\ \A s \in Thread : s # t => At(s)' = At(s)
    BY <1>0, <2>1, <2>2
  <2> HIDE DEF t
  <2>5. t \notin Alive \cup Finished /\ Alive' = Alive \cup {t} /\ Finished' = Finished
    BY <2>4, OneThread
  <2>6. Abstract!Start(t)
    BY <2>3, <2>5 DEF Abstract!Start, Alive, Finished
  <2> QED BY <2>4, <2>6 DEF Abstract!Next
<1>8. CASE AllSpawned \/ TdoaTest \/ TdoaFront \/ TdoaWork \/ TdoaPop \/ StopNodes
  <2>1. /\ {tdoa, tdoa'} \cap {"new", "over"} = {} /\ node' = node /\ main' = main
    BY <1>8 DEF AllSpawned, TdoaTest, TdoaFront, TdoaWork, TdoaPop, StopNodes, TdoaOnly
  <2>2. Alive' = Alive /\ Finished' = Finished /\ Phase' = Phase
    BY <1>0, <2>1 DEF Alive, Finished, Phase
  <2> QED BY <2>2 DEF Abstract!vars, Alive, Finished
<1>9. CASE JoinNodes
  <2>1. tdoa = "join" /\ tdoa' = "over" /\ node' = node /\ main' = main
    BY <1>9 DEF JoinNodes, TdoaOnly
  <2>2. Phase = "stopping" /\ Phase' = Phase
    BY <1>0, <2>1 DEF ThreadsInv, Phase
  <2>3. \A s \in Thread : s # <<"tdoa", 0>> => At(s)' = At(s)
    BY <1>0, <2>1
  <2>4. /\ <<"tdoa", 0>> \in Alive
        /\ Alive' = Alive \ {<<"tdoa", 0>>} /\ Finished' = Finished \cup {<<"tdoa", 0>>}
    BY <1>0, <2>1, <2>3, OneThread
  <2>5. Abstract!Finish(<<"tdoa", 0>>)
    BY <2>2, <2>4 DEF Abstract!Finish, Alive, Finished
  <2> QED BY <1>0, <2>5 DEF Abstract!Next
<1>10. ASSUME NEW n \in NodeIds, Node(n) PROVE [Abstract!Next]_(Abstract!vars)
  <2> DEFINE t == <<"node", n>>
  <2>1. /\ node[n] \notin {"new", "over"} /\ node'[n] # "new" /\ (node'[n] = "over" => n \in stopped)
        /\ \A m \in NodeIds : m # n => node'[m] = node[m]
        /\ tdoa' = tdoa /\ main' = main
    BY <1>0, <1>10 DEF Node, NodeConnect, NodeTest, NodeReceive, NodeOnly, PlainType
  <2>2. /\ t \in Thread /\ At(t) = node[n] /\ At(t)' = node'[n]
        /\ \A s \in Thread : s # t => At(s)' = At(s)
    BY <1>0, <2>1
  <2>3. Phase' = Phase
    BY <2>1 DEF Phase
  <2> HIDE DEF t
  <2>4. CASE node'[n] = "over"
    <3>1. Phase = "stopping"
      BY <1>0, <2>1, <2>4 DEF ThreadsInv, Phase
    <3>2. t \in Alive /\ Alive' = Alive \ {t} /\ Finished' = Finished \cup {t}
      BY <2>1, <2>2, <2>4, OneThread
    <3>3. Abstract!Finish(t)
      BY <2>3, <3>1, <3>2 DEF Abstract!Finish, Alive, Finished
    <3> QED BY <2>2, <3>3 DEF Abstract!Next
  <2>5. CASE node'[n] # "over"
    <3>1. Alive' = Alive /\ Finished' = Finished
      BY <2>1, <2>2, <2>5 DEF Alive, Finished
    <3> QED BY <2>3, <3>1 DEF Abstract!vars, Alive, Finished
  <2> QED BY <2>4, <2>5
<1>11. CASE UserCloses \/ UNCHANGED vars
  BY <1>1, <1>11 DEF UserCloses, vars
<1>12. ASSUME NEW n \in NodeIds, ServerSends(n) PROVE [Abstract!Next]_(Abstract!vars)
  BY <1>1, <1>12 DEF ServerSends
<1> QED BY <1>2, <1>3, <1>4, <1>5, <1>6, <1>7, <1>8, <1>9, <1>10, <1>11, <1>12 DEF Next, Main, Tdoa

(* From start to join (main, tdoa::run, node::run) the threads live as     *)
(* Lifecycle says: started once, over only when the program is stopped,    *)
(* none outliving main.                                                    *)
THEOREM ProgramIsLifecycle == Spec => ImplementsLifecycle
<1>1. Init => Abstract!Init
  BY RefinesInit
<1>2. IInv /\ [Next]_vars => [Abstract!Next]_(Abstract!vars)
  BY RefinesNext
<1> QED BY <1>1, <1>2, Invariant, PTL DEF Spec, ImplementsLifecycle, Abstract!Spec
=============================================================================
