# A verification of tdoaGeo and its NCP client

`src/tdoaGeo` locates a radio emitter: it keeps a connection to several receiver
nodes, each of which measures a short piece of spectrum at the same instants,
correlates the captures of one instant and finds the place that explains the time
differences of arrival. `src/ncpclient` is the C library it talks to the nodes with.
This directory holds TLA+ modules of both, TLC configurations that check them on small
instances, and proofs of the most important properties for every value of the constants.

    tlc -workers 2 -config MCTdoaBuffer.cfg MCTdoa      # any pair of the table of runs
    tlapm TdoaProofs.tla                                # any of the *Proofs modules

## 1. Inventory

    configuration --Reader--> main --starts--> tdoa thread --starts--> node threads
                               ^                                            |
                            results (SafeQueue)                             | one NCP client,
                               |                                            | two packets each
    display <-- main      tdoa thread <------- _sharedQ (SafeQueue) <-------+
                          one task per correlation                          |
                                                             NCP server (external), over TCP

| component | state | operations | interacts by |
|---|---|---|---|
| Program (`main.cpp`) | window, queue of results, threads | configure, start, show results, stop and join | starts the tdoa thread; `tdoa::stop` |
| Configuration, JsonCpp (`jsoncpp.cpp`) | document position, stack of values, errors, value tree | parse, recover, print, ask for members and convert them | called by `main`, `tdoa::setParams`, `addNode` |
| Collector (`tdoa.cpp`: `run`, `manageBuffer`, `stop`) | `_packets` (time key to cohort), `_terminate`, the capture in hand | take a capture, add it to its cohort, give up the oldest cohort, process complete ones, pop | takes from `_sharedQ`; calls `process` |
| Geolocation (`tdoa.cpp`: `process`, `correlate`) | the cohort, samples and power of its captures, futures, `_locations`, the result | sort, conjugate, launch, correlate, collect, optimise, publish, delete | concurrent tasks that share captures; pushes to `results` |
| Optimiser (`simplex.h`) | `_simplex`, iterations | `addStart`, `optimise` | called for the location, then for three axes of the error ellipse |
| SafeQueue (`safeQueue.h`) | queue, mutex, condition variable | `push`, `front`, `pop` (`size`, `clear` have no caller) | node threads to tdoa thread; tdoa thread to main |
| Node link (`node.cpp`) | `_ncp_client`, the call stack | `run`, `connect`, `isConnected`, `receive_packet`, `send_packet`, `ackWait`, `startMission` | calls the NCP client; pushes to `_sharedQ` |
| Decoding, resampling, FFT (`node.cpp`, `fft.cpp`) | samples, twiddle factors | `getPacketData`, `transform`, `invert`, `UpSampleSpectrum` | in the node thread |
| NCP client (`ncp_client.c`, `tcp.c`) | connection state, socket, time of the last keep-alive, tx and rx packet | create, connect, receive, send, keep-alive, disconnect, state machine of greeting and authentication | calls Packet; TCP |
| Packet (`packets.c`) | word buffer, state, write position, field and parameter tables, bytes received | builder, `packet_append`, `packet_clone`, receiver, `packet_file_read`, reader, printing | buffer shared by all of them |
| Text of packets (`json.c`) | growing buffer, indentation | `json_create_from_packet`, `json_append` and its kind | reads a packet |
| Examples (`examples/*/main.c`) | where each is in its sequence of calls | ten programs | call the NCP client |
| Mission arithmetic, locations, display, debug output, vocabulary | | | see section 5 |

**What is hard in this code**

- A capture is a raw pointer that the queue, a cohort, the local of `run` and up to
  four correlation tasks reach at once. `front` leaves it in the queue while `process`
  may delete it.
- Captures of one measurement arrive from several threads in any order, late or never;
  the collector has to decide when to stop waiting, with a buffer of five cohorts and
  with a map that it changes inside the loop over it.
- `receive_packet` calls `connect`, which calls `startMission`, which calls
  `send_packet` and `ackWait`, which call `receive_packet`: a loss at any moment starts
  the mission again inside the mission that was interrupted, while callers further out
  hold pointers to the packet of the old connection.
- TCP cuts packets anywhere; sockets may block or not; a client may be connected again
  with half a packet in its buffer.
- A packet's distances, sizes and footer are filled in by later calls than the ones
  that make room for them; builder, receiver and reader share one buffer.
- Objects that are used again keep something: the vertices of the optimiser, the twiddle
  factors of the transform, `_locations`, the receive packet.
- The queue's critical sections, with a consumer that takes in two of them.
- Shutdown: three kinds of threads, each of which blocks somewhere without a time limit.
- Numbers of five types in a configuration, with limits a double cannot represent.

`PROJECT.json` lists every component, modelled or not, and under `hazards` the lines at
which these difficulties bite, each with the properties that would catch it going wrong.

## 2. The modules

| module | models | refers to |
|---|---|---|
| `Tdoa` | the collector thread against node threads that push | ownership half of `process` |
| `Geolocate` | one call of `process` after another, with its correlation tasks | computing half of `process` |
| `Channel` | abstract: what a queue promises | |
| `SafeQueue` | queue, mutex, condition variable and the threads around | implements `Channel` |
| `Source` | abstract: what the collector is given by a node | |
| `NodeLink` | a node thread, its NCP client, the network and a conforming server | implements `Source` |
| `NcpClient` | the client library over a byte stream, blocking or not | implements `Channel` (first connection) |
| `Packet` | builder, receiver and reader over one word buffer | |
| `PacketText`, `NcpPackets` | the text of a packet; packet and text together | |
| `Lifecycle` | abstract: what the program promises of its threads | |
| `Program` | main, the tdoa thread, the node threads, from configuration to return | implements `Lifecycle` |
| `ExactComplex`, `Signal` | samples from the decoding to the time difference | |
| `Optimiser`, `Numerics` | the search for the axes of the ellipse; both together | |
| `JsonValue`, `JsonReader`, `Json` | values and words; the reader; printing, asking, reading again | |
| `Examples` | the example programs against a node | |
| `MC...` | model values, symmetry and inputs for TLC | the module named |
| `TdoaProofs`, `SafeQueueProofs`, `GeolocateProofs`, `NodeLinkProofs`, `NcpClientProofs`, `ProgramProofs`, `PacketProofs`, `ExamplesProofs` | theorems | the module named (`PacketProofs`: `NcpPackets`) |

**Tdoa.** `sharedQ`, `packets`, `packet` and `terminate` are the variables of the
class. A capture is identified by its node, its time stamp and the number of the decode
that made it; `freed` and `leaked` record what became of it. One turn of the loop in
`run` is `LoopTest`, `Front`, `Add`, then `manageBuffer` (`BufferEmpty`, `EvictOldest`
or `BufferFits`, then `ProcessComplete`, which goes back to the start of `manageBuffer`
as its recursive call does, or `NoneComplete`), then `Pop`. Node threads push between
any two steps. Of `process` this module has what matters to captures: it erases the
cohort, deletes the captures left in it, may push a result, and forgets the captures
beyond the strongest. Every node pushes its captures as `Source` says: in order of time,
a measurement interval apart, the latest possibly again. `Source` does not limit how often;
`Copies` does, as a bound of the model, which the theorems leave free.

**Geolocate.** The other half of `process`. Samples are abstracted to what was done to
them (`spectrum`, `conjugate`, `product`, `correlation`, `deleted`), powers to small
numbers; the tasks of `std::async` interleave with each other and with the launching
loop. Whether a correlation has a peak and whether the optimiser finds a good fit is a
free choice, since it depends on the signal.

**Channel, SafeQueue.** Each lock, test, wait, notification and unlock is a step.
`wait` releases the mutex and joins the waiters atomically, may end spuriously and must
get the mutex again, as C++ specifies. `SafeQueue` maps to `Channel` with `sent` and
`taken` as histories: `PushItem` is `Put`, `PopItem` is `Take`, all else stutters.

**NodeLink.** `stack` is the call stack of the node thread, a record per call with the
packet pointer it holds, `client` is `_ncp_client`, and every connection attempt makes
a new client with a new receive packet, so that stale pointers are seen. The server
greets, authenticates, acknowledges commands, sends captures once `DSP_LOOP` was
executed, and keep-alives. A loss closes or resets the connection and lets any prefix
of what was in flight through, the last packet possibly in part. `pushed` counts how
often each capture entered the queue, without a limit; as a count it is the variable of
`Source`. Nothing tells `run` that the packet it decodes is the one of the turn before, so a
`receive_packet` that fails is a capture pushed again; `fails` counts such turns.

**NcpClient.** Below `NodeLink`: `ncp_client_connect`, `_receive`, `_send` and
`_disconnect` with everything `node` does not use (non-blocking sockets, time limits,
connecting one client again), down to the calls of `recv` and `send`, which move pieces
of packets. A piece knows the packet it is of, the program only what it can see. The
packets the first connection completes are a `Channel` from the server.

**Packet, PacketText, NcpPackets.** The words of `packet_buffer`, the position and state
of the builder, the reader's tables and the receiver's position. Actions are the library's
functions; callers use them in every order in which their preconditions hold (the constant
`AnyState`, FALSE in the run, would allow the order the comments allow, see section 3).
`content` records what the caller put in or the peer sent. The text is a sequence of pieces,
one for each call of `json_append`, with a length and a meaning; one piece may be lost or
garbled (`MaxLost`).

**Program.** Queues are numbers here; the question is who waits for whom. Configurations
name hosts, ports and modes or leave them out, in their entries and in the section `tdoa`, or
are mistyped; the entries are read one at a time (`unread`), each making a node or finding the
one that has its address, which is then given the entry and the section. The window's events and what `plotResult`
tells `main` of them are those of `graphics.cpp`. Servers may fall silent at any moment.

**Signal, ExactComplex.** Impulses are sent with delays to two nodes, decoded, transformed
with the twiddle factors the object kept, interpolated, multiplied and searched for the
peak. Everything before the search is linear, which is why impulses are enough. Numbers
are combinations of 64th roots of unity with integer coefficients, so nothing is
rounded and results are compared with the definition of the transform. Captures of 16
samples are the ones whose peak counts, without interpolation and with two or four times as
many; eight samples never reach the peak the code asks for, which is checked as well.

**Optimiser.** One simplex object and three searches in three directions over an error
that grows linearly, with integer distances. `Numerics` puts both side by side: they share
no state, and the ellipse is searched before the first capture only, to keep the product small.

**JsonValue, JsonReader, Json.** A document is a sequence of words. The functions of the
reader that call each other are steps on a stack of open containers. A value is a function
from paths to parts, so that "what is read is what was written" is an equation. `int` has
5 bits, the long types 7, a double 5 bits of mantissa: every limit is within reach.

**Examples.** Each program is the sequence of its calls, a node answers in one to three
packets, and `torn` packets are what a loss leaves behind. `PrintPacket` shows a packet as a
whole, for which fields a program picks differs; `Shown` has the one exception where what is
printed is not what is in the packet.

## 3. What is checked

| run | what it shows |
|---|---|
| `tdoa_buffer` | captures have one owner and one fate (`Conservation`), none is used after its deletion, incomplete cohorts are given up only when overtaken; `CollectorInv`: the buffer is bounded, complete cohorts never wait, results are sound; the queue drains and delivered measurements are worked on |
| `tdoa_results` | no measurement has two results, late captures leave within the turn |
| `safe_queue` | `QueueInv`: no lost wake-up, `pop` removes what `front` returned; the queue refines the channel, with its liveness |
| `geolocate` | without `_threeDimensions`: pairing of sites and time differences; `GeolocateInv`: choice of captures, tasks free of the clean-up; results are lost only after a failed correlation |
| `geolocate_pairing` | **violation**: with `_threeDimensions` one unusable correlation out of four attributes later time differences to the wrong sites |
| `node_link` | the whole mission is on every live connection, one loss is survived, few captures are dropped, captures are pushed as `Source` says; `LinkInv`: active is confirmed, no freed packet is read, only received captures are pushed, again only as often as a receive failed, recursion and lost clients are bounded by the losses; a connection that holds gets its mission and its captures through |
| `ncp_client` | `ClientInv`: packets are completed as sent, active is confirmed, a blocking client sends whole packets; the first connection is a channel; losses are noticed, connecting ends |
| `packet` | what is complete, built, continued, cloned, received or read from a file, encodes what was put in; readers are current, parameters are found by name, nothing overruns; the text shows everything and fits its buffer |
| `program` | the threads live as `Lifecycle` says, and a closed window ends the program unless one of three named waits never ends; `ProgramInv`: one node for each receiver, unless the section `tdoa` moves the nodes, no result used after its deletion, no node over before the collector |
| `numerics` | the transform is the DFT whatever the object transformed before, interpolation keeps the samples, the time difference is that of the flight times; the search for the axes descends and ends, no axis is negative |
| `json` | a configuration is read as it was meant, what is accepted is JSON, every error is told; printed and read again it is the same; a number is answered exactly or refused |
| `examples` | packets are shown as the node answered, once and in order (with other numbers in `versions`); a program that ends has read what it asked for, but for the later captures of `triggered` and the answer to `set_time`; every program ends that is meant to |

The violation is a disagreement between a comment of the source and the code, recorded
under `findings` with the quoted line.

The invariants `...Inv` are conjunctions of named parts, each stated and commented by
itself; the other properties stand alone. Each property of a passing run has a mutant: a
variant of one definition with a plausible bug (a dropped guard, a swapped order, an
off-by-one), written beside that definition. With the variant in its place TLC finds the
property violated, which shows that the instance is large enough to reach the case the
property is about.

**Refinements.** `SafeQueue` implements `Channel`; `NodeLink` implements `Source`, whose
order of captures is the guard of `NodePush` in `Tdoa`; `Program` implements `Lifecycle`;
the first connection of `NcpClient` implements `Channel`.

**Bounds**

- `tdoa_buffer`: three nodes and a buffer of two cohorts with keys 0, 1, 2, so that a
  third cohort gives the oldest up; times 2 and 3 are the same measurement stamped
  differently. `MaxQueue = 2` is what an interleaving needs: one entry in hand and one
  behind it. One decode per packet (`Copies = 1`); the theorems cover any number where
  they do not say otherwise.
- `tdoa_results`: four nodes of which two suffice for a location scale down six nodes of
  which three do: a cohort can be located although captures are missing, and the missing
  ones form a second cohort large enough for a second result. `BufferLimit = 1` makes
  them late with few captures.
- `safe_queue`: three producers, three items each: two producers contend while the third's
  notification is pending.
- `geolocate`: four captures, one more than is used, and two rounds for what one call
  leaves to the next; two powers give ties and strict orders. `geolocate_pairing`: four used.
- `node_link`: one loss and one refused attempt in any place, so that three clients are made
  and a mission is interrupted by a loss and waits for the next attempt; two packets in flight
  and six captures, the fewest with which as many are dropped as three clients can; the 100
  turns of `ackWait` are three, so that two unrelated packets come before the answer. A loss is
  noticed after at most three turns of `run` (`MaxFails`; the one that notices it is not counted),
  so that one capture enters the queue up to five times. For any number of losses, turns and captures there are the theorems of `NodeLinkProofs`.
- `ncp_client`: two connections (one to be lost, one made again), headers of two pieces and
  bodies of one or two, so that each can be cut inside and between; a send buffer of two
  pieces, less than a packet needs with another before it; one data packet.
- `packet`: buffers of 12 to 18 words in place of 74 and more, with one word of headroom in
  place of 64, so that reallocation, footer and last word meet. That is room for a field
  with two parameters or two fields, one of them with a parameter, which also are the two
  incoming packets. A `recv` delivers four or six words. The text's buffer grows by 32
  characters (256) and formats up to 152 (1024); strings of every length around both and
  arrays around the lengths at which they are shortened.
- `program`: two entries of the configuration (the same receiver twice, two hosts, two ports,
  one without a host or port) and a section that may have each member, a location from two nodes, queues of up to two.
- `numerics`: captures of 5, 9 and 17 samples, of which 4, 8 and 16 are kept, in every
  order, delays up to 6, interpolation by 1, 2 and 4; two slopes of the error, six turns in
  place of 1000, which some searches exhaust.
- `json`: every document of up to four words, the texts of values three containers deep with
  each word replaced or removed, numbers around every limit; `stackLimit_g` is 4 (1000), the
  right margin 12 (74).
- `examples`: all ten programs, answers of up to three packets, two triggered captures in
  place of ten, three packets in place of ten in `ncp_example`.
- Symmetry is used only in runs of invariants (`tdoa_results` over nodes, `geolocate` over
  captures, whose one action property is symmetric too).
- Deadlock is checked in `packet`, `safe_queue`, `numerics` and `examples`. (In `safe_queue`
  a consumer that waits after the last item can still be woken spuriously, so only a deadlock
  over the mutex would show.) The other instances stop when their bounds are used up, when
  the program has ended, or, in `json`, when a document is refused or its value was asked for.

**Fairness.** `Tdoa`: weak fairness of the tdoa thread alone; `process` returns, since
the optimiser is limited to 1000 iterations (`numerics` shows it). `SafeQueue`: weak
fairness of each thread and none of spurious wake-ups, so that only notifications count.
`NodeLink`: weak fairness of the node thread and of the server handling commands and sending
data; strong fairness of `ReceiveErrorFoundOut`, because a failing `recv` returns at once
while time passes, so the keep-alive, due after one second (`ncp_client.c:337`), is
eventually sent on the lost connection. `NcpClient`: weak fairness of client, server and TCP;
strong fairness of what time brings about (the keep-alive and its failure, the end of the
time limit) and of receiving, which the loop of connect comes back to. `Program`: weak
fairness of each thread; that results, captures and answers come is a premise of `ClosingEnds`,
not assumed. `Examples`: weak fairness of the program and of a node that answers. `Numerics`:
weak fairness of the search. There is no fairness of losses, refusals, spurious wake-ups or
of new captures.

**What modelling showed about the code**, beyond the properties. These are the exceptions
that the properties state or leave room for; apart from the packet's, no line of the
repository claims the contrary:

- *Collector and geolocation.* A cohort counts captures, not nodes, so a capture that is
  pushed twice can complete it with a node missing. Captures beyond the strongest are
  forgotten, and so is the result when fewer than three correlations were usable.
- *Node link.* `ackWait` uses a client that `receive_packet` may have set to NULL
  (`node.cpp:269`); it takes two losses or refusals, hence `OneLossSurvived`. Its wait ends
  with any packet that has a parameter (the semicolon in `node.cpp:284`). After a loss every
  turn of `run` decodes the last packet again and pushes it, if it was a capture, until a
  keep-alive is due and fails (`node.cpp:396-430`, `packets.c:1286-1295`, `ncp_client.c:304-309`
  and `337`): as often as the loop turns in a second. `LinkInv` says that a repeat has that cause
  and no other. Up to three captures for each attempt to connect are received but
  never decoded: two by waits for acknowledgements, one into the packet of a client that is not
  looked at any more (`node.cpp:405-407`). Every loss
  leaks a client, which is what keeps stale pointers valid (`node.cpp:208`).
- *NCP client.* A header that arrives in two pieces puts the receiver out of step
  (`packets.c:1291`), a non-blocking send may leave half a packet (`packets.c:1187`), a client
  connected again with half a packet in its buffer may complete a garbled one. A blocking
  client whose stream ends inside a packet stays in `recv`; a failed `tcp_connect` leaks its
  socket; a keep-alive that fails makes a packet that was received be reported as an error.
- *Packet.* The tests of `packets.c:439` and `627` mask states that are numbered consecutively
  (`FIELD_WRITTEN` is contained in `WRITING | FIELD_WRITTEN` and so on), so that a packet that
  was only created is not started anew as the comments at 422-424 and 609-611 say. With
  `AnyState = TRUE` `BuiltAsEncoded` fails; the programs of the repository never do it.
  A parameter asked for as another type is rightly not found, but the warning names the wrong
  field (`packets.c:851-853`, `1704`): `field_index` is by then that of the next one, which after the
  last field lies behind the table.
- *Text of a packet.* It is not JSON (fields are not separated, names are repeated, nothing is
  escaped), an empty array leaves its bracket open, strings that exceed the formatting
  buffer use an exhausted `va_list` (`json.c:315`), a failing `realloc` drops a piece without
  a word. `TextIsWhole` holds for whole texts without such a loss.
- *Program.* `setParams` gives every node its entry and then the section `tdoa` (`tdoa.cpp:370`),
  of which `node::setParams` takes host and port too (`node.cpp:359-360`). `addNode` looks for
  the address of an entry among the addresses the nodes have by then, so that with
  `"tdoa": {"port": 5000}` two entries of host `a` without a port make two nodes of one receiver,
  although "if this node already exists" it should be returned (`tdoa.cpp:378`).
  `OneNodePerReceiver` excepts configurations with a host or a port in that section (`moved`),
  and fails without the exception. A closed window is noticed with the second result after it, since `plotResult`
  reads the state before the events (`graphics.cpp`); a member of the wrong type in the
  configuration ends the program by an exception.
- *Numbers.* The second and third search for an axis keep the vertices of the first, valued in
  another direction, and it is only thanks to them that no axis is negative. After the last of
  1000 turns the vertices are not sorted. A first transform of fewer than eight samples on a new
  object finds its twiddle factors not yet computed (`fft.cpp:10`, `163`); the widened spectrum
  has its halved bin in the wrong place (`node.cpp:383`), which matters only to signals at the
  highest frequency.
- *Json.* A lone minus sign is zero, `,}` is accepted after a member without a name, text behind
  the first value is ignored, of a member given twice the last counts; `asInt64` of a double equal
  to 2^63 passes its range test (`InRange`), which the comments at `jsoncpp.cpp:3616` avoid elsewhere;
  a name is cut at a zero byte when printed.
- *Examples.* `reading_writing_packet` (`versions`) prints numbers as `(int)pdata`
  (`main.c:78`, `80`), the address and not the number at it; `PrintedAsSent` excepts it, and fails
  without the exception. The triggered example asks for ten captures (`TIME_TRIG_NUMBER_CAPTURES`)
  and ends with the last segment of the first, so that nine are never read. `set_time_example` says
  "Receive ACK & Response" (`main.c:50`), but calls only `packet_read`, twice, on the packet of the
  handshake: it prints `SUCCESS` having received nothing. `ReadToTheEnd` says of both exactly
  what they leave (`LeftUnread`). After a loss `receive_packet` looks at the packet of before: it loops for ever if
  that was a link packet and prints it once more otherwise. Each program creates a client where
  it says it frees one.

## 4. What is proved

For every set of nodes, times, producers or captures and every value of the parameters,
from the assumptions named in the modules.

- **TdoaProofs.** `OwnerInv` (types; the head of the queue is the capture in hand; queue
  entries are distinct; what the queue or a cohort owns is neither freed nor leaked; every
  pushed capture has an owner or a fate) is inductive and gives `TypeCorrect`,
  `NeverUsedAfterFree` and `CapturesConserved`. The property alone is not inductive: that
  the head is the one in hand is what makes the stale queue entry harmless.
  `CohortInv` adds that cohorts never exceed the nodes and where in the turn they are
  complete; it gives `BufferBounded`, `CompleteCohortsProcessed` and the action property
  `SlowNodesWaitedFor`. `ResultInv` adds that the captures of results are freed; it gives
  `ResultsAreSound`, and with the cardinality of what `process` keeps,
  `LeaksNeedExtraNodes`. `CollectorConsistent` is their conjunction, the `CollectorInv` of the run.
  With `Copies = 1` and keys no coarser than the measurement interval, `OrderInv` (each
  node's captures reach the cohorts in order of their keys) and `StragglerInv` (a key
  worked on before has been passed by every node, or is overtaken by `BufferLimit` held
  cohorts; so a capture that opens it again is the oldest cohort and the one too many)
  give `StragglersLeaveAtOnce` and, when a location needs more than one capture,
  `AtMostOneResult`.
- **SafeQueueProofs.** The inductive invariant relates mutex, program counters and
  waiters (who is inside holds the mutex; whoever waits on a non-empty queue has a
  producer at its notification) and says that `sent` is `taken` followed by the queue. It
  gives types, `WakeupNeverLost`, `PopRemovesFront` (together `QueueConsistent`) and the
  safety half of the refinement, `QueueIsChannel`, by one step per action.
- **GeolocateProofs.** `GeolocateTypeCorrect` and, under `~ThreeDimensions`,
  `PairedOnSurface`: with three captures used, three usable correlations mean all of them,
  so the counter that only usable ones advance equals the position. The invariant says how
  far the counter may lag and that what was published is paired. `WInv` adds to that invariant what the concurrent correlations
  need. `CohortInv`: the cohort is sorted, and what the sort and the cut left out is weaker
  than all of it (the sorted sequence reaches every member, by the pigeonhole theorem of the
  library). `TaskInv`: a task at work belongs to a future the loop has not waited for yet, its
  samples are untouched until it multiplies, the master's are conjugated and never written.
  `LocationInv`: location `i` has the site and power of entry `i`, and there is one for every
  entry waited for unless a correlation failed. It gives `GeolocateConsistent`, `LostResults`
  and the action property `MultipliesSpectra`, so that every property of the run `geolocate`
  is proved for all captures and powers, the pairing for three captures only: with four it is
  false (`geolocate_pairing`).
- **NodeLinkProofs**, for any number of losses, refusals, captures, packets in flight and turns
  before a loss is noticed.
  `Base` says which call of the node thread may be inside which, and that each client but the
  last was lost or refused. `DataInv` says that captures come in order, each later than all
  received, and that a complete capture in a receive packet was received; `RecursionInv` that
  every level of `startMission` on the stack has a lost connection of its own. `RepeatInv` says
  that a turn of `run` which began with a client connects no other, and ends with a packet never
  pushed before or with a receive that failed. Together they give `LinkInv`. The three properties that are theorems by themselves need more: `DecodeInv`
  (the capture `run` looks at is not older than any pushed) for the refinement of `Source`, which
  limits the order of captures and not their number;
  `CrashInv` (a call that goes on after `connect` returned without a client comes after two
  failures) for `OneLossSurvived`; and `MissionInv`, which says at which label each command
  that was not sent yet is going to be, through every nesting, for `MissionRestarted`.
  `FewCapturesDropped` is proved by an account kept on the call stack. A `connect` that
  has not come to its first wait may still lose two captures, one in each wait of its
  mission; a wait in progress one; a `receive_packet` that connected again one, as its
  caller may look at the packet of the client before (`Stale`). A wait that has its packet
  loses no other (`Spent`). `DropInv`: what is lost, and what the calls on the stack may
  still lose, is at most three for each attempt to connect, and one less on the first.
  That count alone is not inductive, because a wait whose acknowledgement is on the wire
  in front of all captures loses nothing: `Quiet` says when that is so, and `Exempt` gives
  one capture back while such a wait is to come.
- **NcpClientProofs**, for any number of connections, sizes of header and send buffer, and any
  way in which the stream is cut. What is ahead of the client (the half packet in its buffer
  and the stream) is in order and without a gap, and what it completed lies before it
  (`StreamInv`): hence `CompletedAsSent`. The request goes before the response, and a server
  that has sent a third packet has the response (`AnswerInv`): hence `ActiveIsConfirmed`. What
  a blocking client has on its way is a sequence of whole packets (`WholeInv`). All of this
  holds until a client is connected again with half a packet in its buffer (`resumed`), which
  is the exception `ClientInv` states. `FirstInv` adds that, while headers arrive whole, what
  is ahead on the first connection begins with the packet after those completed; it gives the
  refinement of `Channel`.
- **ProgramProofs**, for every set of receivers, configuration and length of the queues. While
  the section moves no node, the nodes found by an entry's address are at most one
  (`WithEntryKeeps`): hence one node for each receiver. Where
  `main` and the tdoa thread can be with respect to each other, and what that says of the node
  threads (`ThreadsInv`), gives `ProgramInv` and, step by step, the refinement of `Lifecycle`.

- **PacketProofs**, for every content, size of a buffer, way of delivery and reader. The model
  speaks of a packet in two ways: the words the builder has written or the receiver has got, and
  `Encode(content)`, what the packet should be. `IInv` relates them in every state of the
  packet. While it is built (`BuildingInv`) the words so far are the encoding of what was put in,
  but for the size of the last field, which is known only at the next one, and room for the
  footer is left; one that is complete (`CompleteInv`) is the encoding; one in reception
  (`ReceivingInv`) is a prefix of what arrives; and the tables of a reader (`ReadingInv`) are
  those the content determines, although `packet_append` finds its place by walking over the
  words. It gives `PacketInv`, `BuiltAsEncoded` and `ReadAsEncoded`, under the hypothesis
  `~AnyState`: a field is added to a packet that was begun or completed, as by every caller in
  the repository (section 3 shows what happens otherwise). `TextIsWholeAlways` needs no
  hypothesis: what the text says, and what the calls of `json_append` that are still to come
  will say, are together the facts of the packet, and the text with its end fits its buffer.
- **ExamplesProofs**, for any number of segments, captures and receives. `FlowInv`: what was
  sent and not printed is the packet about to be printed and what was not received, in that
  order, a link packet not counted. That shows `PrintedAsSent`, but not what is left at
  the end. For that `StatusInv`, `SegmentInv` and `TimeInv` say what is still to come at each call
  of an example that asks for a status, for a measurement or to set the time: the
  acknowledgement and `n` segments after the request, the segments after the one in hand at
  `until_last` (and, of `triggered`, the other captures behind them), so that the loop
  ends with the last one because `seg >= nseg` holds for no earlier one. A response in one packet
  carries neither number; that the loop still ends needs that `triggered`, which does not reset
  `seg` and `nseg`, has not set them before. What the order of calls
  is in a script is proved from its text once (`Shape`, `StatusShape`, `SegmentShape`).

Some of these proofs need an induction: that the encoding of a longer content begins with that
of a shorter, that `FlattenSeq` has the parts it was given, that the walk over a packet ends
where the encoding says. The theorems of the library that take a predicate cannot be used with
the provers at hand. The lemma `NatSetInduction` takes a set of numbers in its place, and rests
on the well-founded order of finite subsets, which is a theorem without a predicate.

**Only model-checked**

- Everything under fairness: liveness is out of this prover's reach, and so is the fair half of
  the channel.
- The transform, the widened spectrum and the time difference (`Signal`), the texts of a value
  and their reading again (`Json`): `RECURSIVE` operators, of which the prover can make nothing
  in any module that reaches them. `NumericsInv` and `ReaderInv` are stated where those are.
- The search for the axes sorts its vertices by `SortSeq`, with an order as parameter.

## 5. What is not modelled

- Floating-point trigonometry: `location.cpp`, the error function of the location, the heat
  map. Whether a fit is good is a free choice in `Geolocate`. The mission's arithmetic is
  straight-line and has no state.
- Drawing (`graphics.cpp`), logging, the tables of names of `ncp_packets`.
- Of the packet: the debug echo (`packets.c:1128`, off by default), `packet_file_write`, the marks
  of parameters that were read, deprecated getters.
- Of JsonCpp: everything main does not call (other readers and writers, kept comments, iterators).
- Of the examples: what the requests ask for in detail, which fields of a packet they print
  and the wording.
- Of the getters of a packet by name and type: the text of their warnings (section 3).
- A peer that does not follow the protocol; failing allocation, but for the text of a packet;
  SIGPIPE, which is assumed to be ignored (as on Windows; `ncp_client.c:82` has the call in a comment).
- `clear` and `size` of the queue, the getters of statistics, test windows and transform variants
  that nothing calls.

## 6. Plan

What is left, in order of its worth:

1. Proofs: the parts of `ReaderInv` that need no text of a value (the parts of a value hang
   together, errors are reported, the depth is the nesting), and the invariants of the search
   for the axes.
2. A cohort's count against the nodes in it, with `Copies = 2`: what can still be said of a
   result when a capture came twice.
3. The search for the location itself with two and three coordinates over abstract values.
