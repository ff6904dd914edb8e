------------------------------ MODULE Program ------------------------------
(***************************************************************************)
(* The whole program: main with its window (main.cpp, graphics.cpp), the   *)
(* tdoa thread (tdoa::run) and one thread per node (node::run), between    *)
(* the configuration and the return of main.                               *)
(*                                                                         *)
(* What the threads do with captures and results is the subject of other   *)
(* modules.  Here a queue is the number of its entries, and the question   *)
(* is who waits for whom: main for a result, the tdoa thread for a         *)
(* capture, a node thread for its server, and at the end main for the tdoa *)
(* thread and the tdoa thread for the node threads.                        *)
(***************************************************************************)
EXTENDS Naturals, Sequences

CONSTANTS Hosts, Ports, \* addresses of the receivers that may be configured
          MaxEntries, \* bound of the model: entries of "nodes"
          Needed,     \* nodes a location needs: 3
          MaxQueue    \* a queue of this length may be longer

Unset == "unset"      \* a member the configuration does not have
DefaultHost == "host" \* the default of addNode
NoHost == ""          \* node::_host of a node that was given none
DefaultPort == "9999" \* of addNode and of a node

ASSUME ProgramAssumption == /\ Hosts \cap {Unset, NoHost} = {} /\ Unset \notin Ports
                            /\ MaxEntries \in Nat /\ Needed \in Nat
                            /\ MaxQueue \in Nat \ {0}

NodeIds == 1..MaxEntries
Modes == {Unset, "test", "real"}
Entry == [host : Hosts \cup {Unset}, port : Ports \cup {Unset}, mode : Modes]
UpToMaxEntries(S) == UNION {[1..m -> S] : m \in 0..MaxEntries}
Configuration == [nodes : UpToMaxEntries(Entry), tdoa : Entry]

VARIABLES unread,    \* the configuration, as far as setParams has not read it
          moved,     \* history: the section "tdoa" has a host or a port
          nodes,     \* tdoa::_nodes: host, port and mode of each
          main, tdoa, \* where the two threads are
          node,      \* where each node thread is
          results,   \* length of results
          deleted,   \* the result at the head of results was deleted
          sharedQ,   \* length of _sharedQ
          windowOpen, \* the local of main
          window,    \* "none", "open" or "closed"
          closeEvent, \* the user has closed the window, the event is queued
          terminate, \* tdoa::_terminate
          stopped,   \* nodes whose _terminate is set
          offered    \* nodes whose server has a packet for them

vars == <<unread, moved, nodes, main, tdoa, node, results, deleted, sharedQ, windowOpen, window,
          closeEvent, terminate, stopped, offered>>

NoMembers == [host |-> Unset, port |-> Unset, mode |-> Unset]
NothingUnread == [nodes |-> <<>>, tdoa |-> NoMembers]

Init ==
  /\ unread = NothingUnread /\ moved = FALSE /\ nodes = <<>>
  /\ main = "configure" /\ tdoa = "new" /\ node = [n \in NodeIds |-> "new"]
  /\ results = 0 /\ deleted = FALSE /\ sharedQ = 0
  /\ windowOpen = TRUE /\ window = "none" /\ closeEvent = FALSE
  /\ terminate = FALSE /\ stopped = {} /\ offered = {}

(* A length of MaxQueue stands for that length and any greater one. *)
Pushed(length) == IF length = MaxQueue THEN length ELSE length + 1
Popped(length) == IF length = MaxQueue THEN {length - 1, length} ELSE {length - 1}

-----------------------------------------------------------------------------
(* tdoa::setParams with addNode and node::setParams *)

Given(value, otherwise) == IF value = Unset THEN otherwise ELSE value

(* addNode: the node an entry is about, if it exists already *)
Known(known, entry) ==
  {i \in DOMAIN known : /\ known[i].host = Given(entry.host, DefaultHost)
                        /\ known[i].port = Given(entry.port, DefaultPort)}

(* node::setParams: a member that is not given keeps its value *)
WithParams(n, members) == [host |-> Given(members.host, n.host),
                           port |-> Given(members.port, n.port),
                           mode |-> Given(members.mode, n.mode)]

(* Every node is given its entry, then the section "tdoa", which moves it  *)
(* to another address if it has a host or a port.                          *)
Configured(n, entry) == WithParams(WithParams(n, entry), unread.tdoa)

NewNode == [host |-> NoHost, port |-> DefaultPort, mode |-> "real"]

(* addNode, with what setParams does to the node *)
WithEntry(known, entry) ==
  IF Known(known, entry) = {}
    THEN Append(known, Configured(NewNode, entry))
    ELSE LET i == CHOOSE j \in Known(known, entry) : \A k \in Known(known, entry) : j <= k
         IN  [known EXCEPT ![i] = Configured(@, entry)]

-----------------------------------------------------------------------------
(* main: no argument, no such file, not JSON *)
NoConfiguration ==
  /\ main = "configure" /\ main' = "ended"
  /\ UNCHANGED <<unread, moved, nodes, tdoa, node, results, deleted, sharedQ, windowOpen, window,
                 closeEvent, terminate, stopped, offered>>

Configure ==
  /\ main = "configure" /\ main' = "setParams"
  /\ unread' \in Configuration
  /\ moved' = (unread'.tdoa.host # Unset \/ unread'.tdoa.port # Unset)
  /\ UNCHANGED <<nodes, tdoa, node, results, deleted, sharedQ, windowOpen, window,
                 closeEvent, terminate, stopped, offered>>

(* A value of the wrong type: the conversion throws and nobody catches. *)
BadConfiguration ==
  /\ main = "setParams" /\ main' = "aborted"
  /\ UNCHANGED <<unread, moved, nodes, tdoa, node, results, deleted, sharedQ, windowOpen, window,
                 closeEvent, terminate, stopped, offered>>

(* A turn of the loop over the entries *)
SetParams ==
  /\ main = "setParams" /\ unread.nodes # <<>>
  /\ nodes' = WithEntry(nodes, Head(unread.nodes))
  /\ unread' = [unread EXCEPT !.nodes = Tail(@)]
  /\ UNCHANGED <<moved, main, tdoa, node, results, deleted, sharedQ, windowOpen, window,
                 closeEvent, terminate, stopped, offered>>

SetParamsEnds ==
  /\ main = "setParams" /\ unread.nodes = <<>>
  /\ main' = "thread" /\ unread' = NothingUnread
  /\ UNCHANGED <<moved, nodes, tdoa, node, results, deleted, sharedQ, windowOpen, window,
                 closeEvent, terminate, stopped, offered>>

StartTdoa ==
  /\ main = "thread" /\ main' = "window"
  /\ tdoa' = "spawn"
  /\ UNCHANGED <<unread, moved, nodes, node, results, deleted, sharedQ, windowOpen, window, closeEvent,
                 terminate, stopped, offered>>

OpenWindow ==
  /\ main = "window" /\ main' = "while"
  /\ window' = "open"
  /\ UNCHANGED <<unread, moved, nodes, tdoa, node, results, deleted, sharedQ, windowOpen, closeEvent,
                 terminate, stopped, offered>>

(* while (windowOpen), results.front(), which blocks *)
WhileOpen ==
  /\ main = "while" /\ windowOpen
  /\ results > 0
  /\ main' = "plot"
  /\ UNCHANGED <<unread, moved, nodes, tdoa, node, results, deleted, sharedQ, windowOpen, window,
                 closeEvent, terminate, stopped, offered>>

(* graphics::plotResult: what it returns was read before processEvents     *)
(* closes the window.                                                      *)
PlotResult ==
  /\ main = "plot" /\ main' = "delete"
  /\ windowOpen' = (window = "open")
  /\ IF window = "open" /\ closeEvent
       THEN window' = "closed" /\ closeEvent' = FALSE
       ELSE UNCHANGED <<window, closeEvent>>
  /\ UNCHANGED <<unread, moved, nodes, tdoa, node, results, deleted, sharedQ, terminate, stopped, offered>>

DeleteResult ==
  /\ main = "delete" /\ main' = "pop"
  /\ deleted' = TRUE
  /\ UNCHANGED <<unread, moved, nodes, tdoa, node, results, sharedQ, windowOpen, window, closeEvent,
                 terminate, stopped, offered>>

PopResult ==
  /\ main = "pop" /\ main' = "while"
  /\ results' \in Popped(results)
  /\ deleted' = FALSE
  /\ UNCHANGED <<unread, moved, nodes, tdoa, node, sharedQ, windowOpen, window, closeEvent, terminate,
                 stopped, offered>>

(* Mutant of Stop: the node threads are stopped at once. *)
StopAll ==
  /\ main = "while" /\ ~windowOpen
  /\ main' = "join"
  /\ terminate' = TRUE /\ stopped' = DOMAIN nodes
  /\ UNCHANGED <<unread, moved, nodes, tdoa, node, results, deleted, sharedQ, windowOpen, window,
                 closeEvent, offered>>

(* tdoa.stop() *)
Stop ==
  /\ main = "while" /\ ~windowOpen
  /\ main' = "join"
  /\ terminate' = TRUE
  /\ UNCHANGED <<unread, moved, nodes, tdoa, node, results, deleted, sharedQ, windowOpen, window,
                 closeEvent, stopped, offered>>

JoinTdoa ==
  /\ main = "join" /\ tdoa = "over"
  /\ main' = "ended"
  /\ UNCHANGED <<unread, moved, nodes, tdoa, node, results, deleted, sharedQ, windowOpen, window,
                 closeEvent, terminate, stopped, offered>>

Main == \/ NoConfiguration \/ Configure \/ SetParams \/ SetParamsEnds \/ BadConfiguration
        \/ StartTdoa \/ OpenWindow
        \/ WhileOpen \/ PlotResult \/ DeleteResult \/ PopResult
        \/ Stop \/ JoinTdoa

-----------------------------------------------------------------------------
TdoaOnly == UNCHANGED <<unread, moved, nodes, main, deleted, windowOpen, window, closeEvent, terminate, offered>>

(* tdoa::run: a thread for each node, in their order *)
SpawnNode ==
  /\ tdoa = "spawn"
  /\ \E n \in DOMAIN nodes : /\ node[n] = "new"
                             /\ \A i \in 1..n - 1 : node[i] # "new"
                             /\ node' = [node EXCEPT ![n] = "connect"]
  /\ TdoaOnly /\ UNCHANGED <<tdoa, results, sharedQ, stopped>>

AllSpawned ==
  /\ tdoa = "spawn"
  /\ \A n \in DOMAIN nodes : node[n] # "new"
  /\ tdoa' = "while"
  /\ TdoaOnly /\ UNCHANGED <<node, results, sharedQ, stopped>>

(* while (!_terminate) *)
TdoaTest ==
  /\ tdoa = "while"
  /\ tdoa' = IF terminate THEN "stopNodes" ELSE "front"
  /\ TdoaOnly /\ UNCHANGED <<node, results, sharedQ, stopped>>

TdoaFront ==
  /\ tdoa = "front" /\ sharedQ > 0
  /\ tdoa' = "work"
  /\ TdoaOnly /\ UNCHANGED <<node, results, sharedQ, stopped>>

(* At most one cohort that allows a location is processed in a turn.       *)
TdoaWork ==
  /\ tdoa = "work" /\ tdoa' = "pop"
  /\ results' \in {results} \cup (IF Len(nodes) >= Needed THEN {Pushed(results)} ELSE {})
  /\ TdoaOnly /\ UNCHANGED <<node, sharedQ, stopped>>

TdoaPop ==
  /\ tdoa = "pop" /\ tdoa' = "while"
  /\ sharedQ' \in Popped(sharedQ)
  /\ TdoaOnly /\ UNCHANGED <<node, results, stopped>>

(* Mutant of StopNodes: one node is forgotten. *)
StopNodesButFirst ==
  /\ tdoa = "stopNodes" /\ tdoa' = "join"
  /\ stopped' = DOMAIN nodes \ {1}
  /\ TdoaOnly /\ UNCHANGED <<node, results, sharedQ>>

StopNodes ==
  /\ tdoa = "stopNodes" /\ tdoa' = "join"
  /\ stopped' = DOMAIN nodes
  /\ TdoaOnly /\ UNCHANGED <<node, results, sharedQ>>

(* Mutant of JoinNodes: only the first node thread is joined. *)
JoinFirst ==
  /\ tdoa = "join" /\ tdoa' = "over"
  /\ nodes # <<>> => node[1] = "over"
  /\ TdoaOnly /\ UNCHANGED <<node, results, sharedQ, stopped>>

JoinNodes ==
  /\ tdoa = "join" /\ tdoa' = "over"
  /\ \A n \in DOMAIN nodes : node[n] = "over"
  /\ TdoaOnly /\ UNCHANGED <<node, results, sharedQ, stopped>>

Tdoa == \/ SpawnNode \/ AllSpawned \/ TdoaTest \/ TdoaFront \/ TdoaWork \/ TdoaPop
        \/ StopNodes \/ JoinNodes

-----------------------------------------------------------------------------
NodeOnly == UNCHANGED <<unread, moved, nodes, main, tdoa, results, deleted, windowOpen, window, closeEvent,
                        terminate, stopped>>

(* What a node thread waits for: nothing in test mode, its server otherwise *)
Answered(n) == IF nodes[n].mode = "test" THEN UNCHANGED offered
                                         ELSE n \in offered /\ offered' = offered \ {n}

(* node::run: connect *)
NodeConnect(n) ==
  /\ node[n] = "connect"
  /\ Answered(n)
  /\ node' = [node EXCEPT ![n] = "while"]
  /\ NodeOnly /\ UNCHANGED sharedQ

(* while (!_terminate) *)
NodeTest(n) ==
  /\ node[n] = "while"
  /\ node' = [node EXCEPT ![n] = IF n \in stopped THEN "over" ELSE "receive"]
  /\ NodeOnly /\ UNCHANGED <<sharedQ, offered>>

(* What comes has samples, and is pushed, or it has none. *)
NodeReceive(n) ==
  /\ node[n] = "receive"
  /\ Answered(n)
  /\ sharedQ' \in {sharedQ, Pushed(sharedQ)}
  /\ node' = [node EXCEPT ![n] = "while"]
  /\ NodeOnly

Node(n) == NodeConnect(n) \/ NodeTest(n) \/ NodeReceive(n)

-----------------------------------------------------------------------------
(* The user and the servers, which may do nothing for ever *)
UserCloses ==
  /\ window = "open" /\ ~closeEvent
  /\ closeEvent' = TRUE
  /\ UNCHANGED <<unread, moved, nodes, main, tdoa, node, results, deleted, sharedQ, windowOpen, window,
                 terminate, stopped, offered>>

ServerSends(n) ==
  /\ n \in DOMAIN nodes /\ nodes[n].mode = "real" /\ node[n] \in {"connect", "receive"}
  /\ offered' = offered \cup {n}
  /\ UNCHANGED <<unread, moved, nodes, main, tdoa, node, results, deleted, sharedQ, windowOpen, window,
                 closeEvent, terminate, stopped>>

Next == \/ Main \/ Tdoa \/ UserCloses
        \/ \E n \in NodeIds : Node(n) \/ ServerSends(n)

Spec == Init /\ [][Next]_vars

(* The threads run. *)
FairSpec == /\ Spec /\ WF_vars(Main) /\ WF_vars(Tdoa)
            /\ \A n \in NodeIds : WF_vars(Node(n))

-----------------------------------------------------------------------------
TypeOK ==
  /\ unread \in Configuration /\ moved \in BOOLEAN
  /\ nodes \in UpToMaxEntries([host : Hosts \cup {NoHost}, port : Ports \cup {DefaultPort},
                              mode : {"test", "real"}])
  /\ main \in {"configure", "setParams", "thread", "window", "while", "plot", "delete", "pop", "join", "ended", "aborted"}
  /\ tdoa \in {"new", "spawn", "while", "front", "work", "pop", "stopNodes", "join", "over"}
  /\ node \in [NodeIds -> {"new", "connect", "while", "receive", "over"}]
  /\ results \in 0..MaxQueue /\ deleted \in BOOLEAN /\ sharedQ \in 0..MaxQueue
  /\ windowOpen \in BOOLEAN /\ closeEvent \in BOOLEAN
  /\ window \in {"none", "open", "closed"}
  /\ terminate \in BOOLEAN /\ stopped \subseteq NodeIds /\ offered \subseteq NodeIds

(* No receiver has two nodes, however often the configuration names it: a  *)
(* second node would have every measurement wait for a capture too many.   *)
(* That is so unless the section "tdoa" has a host or a port: these move   *)
(* every node, so that addNode does not find it by its entry's address.    *)
OneNodePerReceiver ==
  ~moved => \A i, j \in DOMAIN nodes :
              nodes[i].host = nodes[j].host /\ nodes[i].port = nodes[j].port
                => i = j \/ nodes[i].host = NoHost

(* main never draws or deletes a result it has deleted, over all turns     *)
(* around the closing of the window.                                       *)
ResultIsLive == main \in {"plot", "delete"} => results > 0 /\ ~deleted

(* The tdoa thread leaves front only for a capture, so the nodes have to   *)
(* go on until it has left its loop: none ends before, and while it waits  *)
(* on an empty queue each is still at work or waits for its server.        *)
NodesOutliveCollector ==
  tdoa \in {"while", "front", "work", "pop"} => \A n \in DOMAIN nodes : node[n] # "over"

(* The threads of the program in every step: one node for each receiver,   *)
(* none over before the collector is, no result used after its deletion.   *)
ProgramInv == TypeOK /\ OneNodePerReceiver /\ ResultIsLive /\ NodesOutliveCollector

(* Threads as the abstract specification sees them *)
Thread == {<<"tdoa", 0>>} \cup {<<"node", n>> : n \in NodeIds}
At(t) == IF t[1] = "tdoa" THEN tdoa ELSE node[t[2]]
Phase == CASE main \in {"configure", "setParams"} -> "configuring"
           [] main = "join" -> "stopping"
           [] main \in {"ended", "aborted"} -> main
           [] OTHER -> "running"

Abstract == INSTANCE Lifecycle WITH
              Threads <- Thread, phase <- Phase,
              alive <- {t \in Thread : At(t) \notin {"new", "over"}},
              finished <- {t \in Thread : At(t) = "over"}

(* Threads are started once, none ends before the program is being stopped *)
(* and none outlives main.                                                 *)
ImplementsLifecycle == Abstract!Spec

(* The closing of the window ends the program, through two more results,   *)
(* one more capture and an answer of every server: provided that none of   *)
(* the three threads waits for ever, nothing else holds the shutdown up.   *)
MainServed == []<>(main # "while" \/ results > 0 \/ ~windowOpen)
TdoaServed == []<>(tdoa # "front" \/ sharedQ > 0)
NodeServed(n) == []<>(node[n] \notin {"connect", "receive"} \/ n \in offered)
ClosingEnds ==
  (MainServed /\ TdoaServed /\ \A n \in NodeIds : NodeServed(n))
    => ((closeEvent \/ window = "closed") ~> main = "ended")
=============================================================================
