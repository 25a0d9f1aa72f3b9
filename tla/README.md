# PiCN in TLA+

TLA+ models of PiCN (`src/PiCN`), a Python implementation of information-centric
networking (ICN) and named function networking (NFN), with the TLC configurations
that check them and TLAPS proofs about them.

## 1. The system

A PiCN node is a stack of *layers*. Each layer is an operating system process that
takes packets from the queue of the layer below and of the layer above, runs one
handler per packet (`data_from_lower`, `data_from_higher`), and puts packets on the
queues of its neighbours (`Processes/LayerProcess.py`). The tables of a node live in
one more process, a `multiprocessing` manager, and every layer, the management
interface and the timer threads reach them through proxies. The manager runs one
thread per client and takes no lock, so calls of different clients interleave.
Lookups return pickled copies.

| Component | State | Operations | Talks to |
|---|---|---|---|
| ICN layer `BasicICNLayer.py` | none of its own; PIT, CS and FIB by proxy | interest, content and Nack handlers from below and from above, ageing | link side through the encoding layer; NFN layer or application above |
| Pending interest table (PIT) | entries: name, requesters (face id, local flag), retransmits, faces that refused, FIB entries used, outstanding answers | add, find, remove, refresh, count, note a Nack, ageing | ICN layer, timeout prevention (removes) |
| Forwarding table (FIB) | list of (prefix, faces, static), newest first | longest-prefix lookup, add, remove, clear | ICN, routing and autoconfig layers, management |
| Content store (CS) | list of (content, timestamp, static) | find, add, refresh, remove by name, ageing | ICN layer, management |
| Face table, link layer | two dictionaries and a list of ids; a counter | get or create a face id, look one up, evict the oldest | interfaces; management, routing, autoconfig ask for faces |
| Simulation bus | an interface with two queues per node | carry a datagram to the interface of its receiver, or lose it | link layers of simulated nodes |
| Layer stack | the list of layers; the queues between them | insert a layer, start, stop | all layers of a program |
| Encoding layer | none | bytes to packets and back | link, ICN |
| Chunk layer | request table, chunk table | split a content into chunks, ask for metadata and chunks, reassemble | ICN below, repository or fetch above |
| Data offloading chunk layers | the same, and what neighbours have refused or said they have | ask the neighbours along a road first, and the vehicle that has the data last | as the chunk layer |
| Timeout prevention | message table, running computations | repeat requests, ask for and answer keepalives, give up on silence | ICN below, NFN above; removes PIT entries, reads the computation table |
| NFN layer | computation table with a state per computation | forward, fetch parameters, compute, write back | timeout prevention below |
| NFN executors | of the streaming one: a buffer, names asked for, counters | run a function; read parts of its argument from the layer's own queue, write parts out | NFN layer |
| Thunk layer | thunk table, plan table | ask for costs, find the cheapest plan of a computation | between ICN and NFN; the optimizer reads plans |
| Routing layer | routing tree (RIB) | exchange distance vectors, collapse the tree, rebuild the FIB | below the ICN layer |
| Autoconfig | known services with timeouts; held interests | solicit, advertise, register, renew, expire | below the ICN layer; FIB, face table |
| Repository | stored contents, of a push repository in a database | answer interests, accept pushed content | chunk layer below; a push repository has none |
| Management | a listening socket | one request per connection: new face, new rule, new content, prefix and path of a repository, shutdown | face table, FIB, CS; all layers, when it stops them |
| Fetch | the interest asked | send one interest, take the first answer | chunk layer |

What is hard in it, and where it bites, is listed line by line under `hazards` in
`PROJECT.json`. In short:

- *Requests share an entry.* Ids of local requests overlap with face ids, a Nack
  does not say which transmission it answers, and an entry survives the Nack that
  is passed to applications.
- *Answers are counted, not matched.* `number_of_forwards` is decremented by every
  Nack; retransmissions, late answers and rules added meanwhile change who will answer.
- *Lookups are repeated.* The route in use is not stored; it is looked up again
  when a Nack comes in and when an ageing round retransmits.
- *Nobody holds a lock.* The ageing timers, management and other layers run between
  any two table calls of a handler, and inside the face table between any two statements.
- *Silence.* On a PIT timeout network consumers are dropped without an answer.
- *Copies.* Tables in the manager are read as copies; what a handler decides on may be gone
  when it writes (NFN layer, thunk layer, the rounds of the timeout prevention layer).
- *Recursion.* A result completes computations, which complete others, in one handler.
- *Names are programs.* A computation travels under a name that other nodes parse and rewrite.
- *Lengths.* From 253 bytes on a length takes three bytes on the wire, and one decoder reads at a fixed offset.
- *Ids outlive faces.* A packet goes down the stack with a face id that may have been evicted since it came up.
- *Shutdown.* Management stops one process after another, itself last; what a layer was doing is cut short, and a push repository opens its database again.
- *Timers.* Autoconfig and timeout prevention start timers that nothing ties to what they are for.

What makes each component correct: a consumer of the ICN layer is in the PIT exactly
while it waits and an application is always told; an interest never goes back to a
face that waits for it; a Nack is passed on only when nobody can answer any more; every
entry is resolved; face ids and addresses correspond one to one; the collapsed routes
answer like the tree they come from; a request of the chunk layer ends with the whole
content, in one version, or a Nack; a computation ends in the result of the expression that was
asked for, a Nack or a timeout, and signs of life tell the truth; a plan is the cheapest
there is; interests go to the repository that holds a registration; the vehicle is asked
last; a stream is read once and in order; a rule leads where its client said, and what was confirmed as
published survives a restart.

## 2. Modules

| Module | Models |
|---|---|
| `ICNTables` | The three tables as data: `FindFib`, `AddFib`, PIT entries with `AddRequester`, `CountForwards`, ..., CS lists with `AddContent`, `Touched`, `Swept`. |
| `ICNLayer` | The ICN layer in an open network, with management. One action per branch of each handler, each with everything the handler does. With weakly fair ageing rounds, what they bring about in the end. |
| `ICNNeighbours` | The same layer among neighbours that answer only what they were asked, over links that lose packets. |
| `ICNLayer_proofs` | TLAPS proofs about both. |
| `FaceMap` | What a face table promises: fresh ids, one per address, the oldest evicted when full. |
| `FaceTable` | `get_or_create_faceid` with the lookup, the eviction and the add it consists of, one statement per step, for any set of callers. |
| `Encoders` | `NdnTlvEncoder` and `SimpleStringEncoder`, on bytes. |
| `LayerStack` | The stack of layers: how it is built, extended and started, and how a layer takes and puts items. |
| `LinkStack` | A node on a simulation bus: link layer, face table, encoding layer, inserted layers, up to the ICN layer. Extends these three. |
| `FaceTable_proofs` | TLAPS proofs for calls of the table that do not overlap, the refinement of `FaceMap`, and, for `LinkStack`, what the layers above make of the face ids; and that `NdnTlvEncoder` reads what it writes. |
| `RoutingTree` | The routing information base as a tree: `Insert`, `RibAgeing`, and `Collapse` to a table with merged prefixes. |
| `RoutingLayer` | The routing layer of one forwarder: the timer thread that ages the tree, clears and refills the FIB, one manager call per step, among announcements and management. |
| `RoutingLayer_proofs` | TLAPS proofs about the collapsed table, and about the FIB that is rebuilt from it. |
| `NFNExpressions` | Expressions as token sequences, syntax trees, network names, and what the optimizers rewrite them to. |
| `ICNView` | The ICN layer of an NFN node as the layers above see it. |
| `NFNLayer` | The three handlers of the NFN layer and its computation table. Extends `ICNView`. |
| `TimeoutPrevention` | The layer below it, with its timer thread. Extends `NFNLayer`. |
| `NFNNode` | The node: both, with consumers and a network. |
| `FetchSpec` | What a chunk layer promises the layer above. |
| `ChunkTransfer` | The Fetch program and a repository over a network; implements `FetchSpec`. |
| `ChunkTransfer_proofs` | TLAPS proofs of the refinement, and that nothing is awaited that is not asked for. |
| `ThunkLayer` | The thunk layer and the plan table, over `NFNExpressions`. |
| `Autoconfig` | A forwarder, repositories and a client. |
| `Autoconfig_proofs` | TLAPS proofs that a client drops nothing though its threads overlap, and about registrations and the routes they make. |
| `Offloading` | `DataOffloadingChunklayerSimple` between two neighbours and a vehicle. |
| `CaOffloading` | `DataOffloadingChunklayer`, which asks what neighbours have before it asks for chunks, and the forwarder with either layer. Extends `Offloading`. |
| `Offloading_proofs` | Proofs that the vehicle is asked last, and that content is handed up complete. |
| `Streaming` | `NFNPythonExecutorStreaming`, the function that reads and the node that writes. |
| `Streaming_proofs` | TLAPS proofs about what a function reads, and what it leaves to others. |
| `Management` | The management process and its clients, with what the commands change, and the shutdown of a program. |
| `PushRepository` | A push repository and its persistent content store, stopped by management and started again. Extends `Management`. |
| `PushRepository_proofs` | TLAPS proofs about confirmed publications, and about the rules of management. |
| `MC*` | Small instances for TLC. |

Definitions that begin with the comment "Mutant of" are plausible bugs. They are used by
nothing; putting one in the place of the definition it names must make TLC find the
property violated that `mutants` in `PROJECT.json` pairs it with.

### How the ICN layer is modelled

- A name is a sequence of components. The FIB is a sequence, newest entry first, as
  in the code. The faces of a FIB entry and the `(faceid, local_app)` pairs of a PIT
  entry are sets: neither ever holds a duplicate, and their order is not observed but by the comparison of FIB entries (section 5).
- `pit[n]` is the entry of name `n` or `None`: `add_pit_entry` keeps names unique.
  `cs[n]` lists the objects cached under `n`, oldest first, because removal by name
  and refreshing depend on that order.
- A packet is a record of type, name and payload or reason. `sent` holds what the
  last handler put on its queues.
- `waiting` and `apps` are history variables: the consumers that asked and have not
  been answered, and the names the higher layer waits for. An answer is an output
  addressed to the consumer; the end of an entry's life by timeout also ends the wait
  of its consumers (they are not told; section 5).
- Time: an ageing round chooses which entries are past the PIT timeout (`late`) and
  how many objects of each name are past the CS timeout. An entry older than
  `MaxRetransmits` rounds is always late, since rounds are at least an ageing interval apart.
- A handler is one step. Its calls to the tables can in the code interleave with
  those of the ageing thread and of management; this is not modelled (section 5).
- `HasApp` and `InterestToApp` distinguish the programs: in an ICN forwarder nothing
  is above the ICN layer (autoconfig and routing are inserted below it); in an NFN
  node interests go up first, and the packet ids of the higher layer are ids of the
  faces its requests came from, so `AppIds` overlaps with `Faces`.

### How the face table is modelled

Each caller has a label `pc`, the address it asked for and the values it has read.
`self.next_face_id += 1` is a read and a write; the counter is read again for the
argument of `add` and for the result. A `del` of a missing key raises, which is the
label `failed`. `given` records what calls have returned, `evicted` what an eviction
has begun to remove. `LastFaceId` bounds the counter.

### How the lower layers are modelled

- A wire format is a sequence of bytes, a component of a name too. `Encoders` has what the encoders do with
  lengths, offsets, separators and escapes; a failure to decode, an exception in the code, is an unknown packet.
  Interests carry a nonce of zeroes and data a signature of zeroes, since no decoder looks at them; names have no digest.
- Queues have numbers, and `ports` says which queues a layer is connected to. `InsertLayer` relinks
  them as `__insert` does, for any position, so an insertion that connects the wrong ends leaves items in a queue nobody reads.
- `LinkStack` takes the face table of `FaceTable`, statement by statement, with the link layer as the only caller: a
  packet that is on its way down meets a table that has changed since it came up. The node has one interface.
- The bus is one process. What the peers post is on their interfaces from the start; which of the interfaces that are ready is
  taken next is left open. A lost packet ends the process (`Simulation.py:136` returns).
- Layers that are inserted pass on what is not theirs. The ICN layer answers an interest with a Nack or content, or sends
  what it has received to another face; `ICNLayer` says which of these it does.
- `arrived`, `handed` and `wanted` are history variables: what came over the bus, what the ICN layer received, and what it sent.
  Datagrams of the peers carry their meaning as a history.

### How routing is modelled

- `rib` gives each prefix its distance vector, a sequence in the order of the dict (the
  first of several equally near faces is the best one). `insert` makes the nodes on the way
  to a prefix and `ageing` deletes empty ones, children first, so the nodes are the
  prefixes of the registered names and need no variable.
- Time is left out: a round of ageing chooses which routes with a timeout have run out.
  A route without a timeout is a configured one, at distance 1; an announced route is
  farther away, because the content handler adds one to the announced distance.
- `Collapse` is a recursive function on the nodes, like the method, and its result a set:
  the order in which children are visited is left open, and `AddLine` takes lines in any order.
- `clear` removes from the list it iterates over. `ClearFib` is what that leaves: after
  an entry is removed, the next one is skipped.
- `built` and `rules` are history variables: the tree the last rebuild started from, and
  the rules management has confirmed. The properties compare the filled FIB with them.

### How an NFN node is modelled

- A name is data, or an expression as a sequence of tokens with the name it was prepended with;
  `keepalive` marks the request for a sign of life. `Parse`, `Str` and the translations between
  expressions and names are written on tokens, so the quoting that the code does with markers
  stays visible, and characters do not.
- Values are symbolic: data stands for itself and a result is the expression it is the value
  of. `ResultsRight` thus compares every packet with the name it answers.
- The handlers of the NFN layer call one another recursively while the layer below reads the
  computation table. The calls still to be made are the stack `todo`; each is a step, and the
  timeout prevention layer may look at the table between any two of them (`SeenRunning`). The other
  processes do nothing that a handler could see in between, so they move between handlers.
- An entry of the table has its state, what it awaits and has, and the rewrites left to try.
- `message_dict` is the list of names asked for in the order of their timestamps; `late` is a
  timestamp older than the timeout. `WholeRounds` says that handlers do not run during a round.
- `ICNView` is a PIT that aggregates and a store, in which data from the network stays for some time or not at all, and whose first
  content may expire (`Forget`). What the store loses or gains falls between any two steps of a handler. Routes and retransmissions are in `ICNLayer`. `MaxQueue` bounds queues, `Scenes` the requests.

### How the transfer of chunks is modelled

A content is the bag of its chunks, tagged with their version; the code sorts them by number
before it joins them. A bag and not a set, since a chunk that is kept twice makes the content longer. The request table is a
function on the names that wait: the code looks an entry up by its name and keeps one for each.
`Repeat` and `GiveUp` are the timeout prevention layer of the program, by its rounds. The repository may
update its content at any time (`MaxUpdates`); its chunk table keeps what has been split. `MaxLost` and
`MaxRepeats` bound losses and repetitions, and `Repeated` says which repetitions the network may answer again.

### How the thunk layer is modelled

The layer is alone with a network that answers any outstanding name with one of `Costs`, or refuses, in any
order. What a handler reads and then iterates over is the table as it was; `Crash` is an exception. `last` records
what was answered and what it was based on, so that `CheapestPlan` can compare it with the minimum over every
set of calls that can be forwarded as a whole.

### How autoconfiguration is modelled

Time passes in units (`Tick`); a unit passes only when no packet is on its way and no timer is overdue. A registration
counts down from `Timeout`, and a renewal is due after half of it. Each solicitation of the client has a countdown of its
own. The timers and the layer are threads that share the list of held interests without a lock. A timer that is the
last refuses what is held (`Solicitation`) and clears the list in a later step (`ClearHeld`); the layer makes the list of what it has not forwarded
(`ClientHandleForwarders`) and assigns it in a later step (`KeepRest`); all threads move in between, and several timers may be clearing at once.
`waiting` is a history variable, what the application has not been told about; `overtaken` another, the names that the layer
has added between the refusing and the clearing of a timer. The step of a timer and that of an interest are as long as they are because
what could come between is the same in another order: an interest that is added while a timer is refusing is one that was added before, or
after. A list is made from the routes of one packet in one step. `MaxRetry` is above one (the default is three). `Lossy` says which packets can be lost: broadcasts of the client in the run.

### How data offloading is modelled

One data name. What the nodes to each side have, by distance, and what the vehicle has, are fixed by a scene; an interest
carries the number of nodes that may still pass it on. An answer of a node passes the ICN layer of the asking node
only if its interest is pending.

The two layers do the same work in two ways; `layer` says which one a forwarder has. `Offloading` (`DataOffloadingChunklayerSimple`)
asks the neighbours for the data and the vehicle when both have refused. `CaOffloading` (`DataOffloadingChunklayer`, the
one `NFNForwarderData.py` installs) asks everybody for the data at once, and each neighbour in a CA message which chunks it
has; chunks are asked for when both have answered and no metadata is missing, whichever is last. The
neighbours are nodes with the same layer as the node: what they answer is computed from what the scene says they have, and
an answer to a CA message fits a packet. `PassOn` is the step by which a node takes itself for one that only
forwards, because an answer of its own ICN layer has passed (`pass_through`); it happens in one scene.

### How streaming is modelled

`waiting` is the stack of names `get_content` is called for: the whole argument, and inside it a part. The
executor takes the first entry of the queue, keeps what it has asked for, and puts the rest back at the end. The other
node writes its parts while the function reads, and an interest that comes too early waits there.

### How management and the push repository are modelled

A client connects if the backlog of the socket has room, sends its request, and reads the reply or the end of the
connection; it gives up when it is refused. `mgmt` is what each management process does: there is a second one only
when a shutdown starts a data repository again. A request that raises ends the process, but not the socket: connections
are still accepted by the system, and nobody reads them (`Alive = {}`). The clients' scripts are fixed by a scene; a rule is made with
the face its client was told last. Clients whose connection is reset by a restart see a refusal.

`PushRepository` splits a publication at the points between which a process can be terminated: decoding (and a
premature refusal), storing, confirming. The database is what the manager process writes through to the file; `Restart` opens it again, or empties it
(`--flush-database`). Arrivals are numbered, so that `Durable` can say "what was confirmed, or something later".

## 3. Runs

| Run | Question | Result |
|---|---|---|
| `icn_forwarder` | In an open network, with management and ageing, is every consumer in the PIT exactly while it waits; are interests never sent to a consumer; does the counter stay within the faces that have not refused; is only static content cached under a pending name? | holds |
| `neighbours` | With one answer per interest and disjoint routes: is somebody always expected to answer, and is a Nack passed on only when it was the last answer owed? | holds |
| `ageing_resolves` | In an NFN node with ids that overlap with face ids: does the higher layer always have an entry that will answer it; once nobody asks for a name any more, does its entry end, and is the higher layer told? | holds |
| `link_stack` | With either encoder, lengths around 253 bytes, inserted layers and faces that are evicted meanwhile: is what comes over the bus handed up once, in order, with its meaning and on a face of its sender; do answers reach the peer they are for; is nothing left in a queue; does the face table implement `FaceMap`? | holds |
| `fib_rebuild` | With rebuilds among announcements and management: do static entries stay, is every prefix of the tree offered its best face, and are announced distances those of what the lines stand for? | holds |
| `computing` | Are results those of the expression asked for; does nothing in the computation table wait in vain; do signs of life tell the truth; is every consumer answered? | holds |
| `chunk_transfer` | Does the program get whole contents of one version or a refusal; is nothing awaited that is not asked for; does every fetch return? | holds |
| `thunks` | Is the plan the cheapest there is, and is every consumer answered? | holds |
| `autoconfig` | Do interests go to the repository that holds the registration; does a running repository stay registered; is no interest of the client dropped without an answer, and is each forwarded or refused in the end, unless it is added while a timer clears what is held? | holds |
| `offloading` | With either layer: is content handed up complete, is the vehicle asked last, and is a request answered where the sources do not overlap? | holds |
| `streaming` | Does a function get every part once and in order, does it leave what is not its own, and does it return? | holds |
| `managed_node` | With several clients, failures and shutdowns: does a rule lead to the address its client named; is a confirmed publication there after a restart; is every client that has connected served, or management gone? | holds |

A run holds under the constants of its configuration. The next two tables say where the assumptions behind
them are needed: TLC finds each property violated. These have configurations of their own:

| Configuration | Property | What it shows |
|---|---|---|
| `MCFacesShared` of `FaceTable` | `FaceMeansOneAddress` | Two calls that overlap give one id for two addresses. The docstring of `get_or_create_faceid` (`BaseFaceIDTable.py:55`) says that it "adds and entry and automatically selects a faceid or if an entry exits select that entry". |
| `MCRoutingFound` of `MCRoutingLayer` | `RoutesFound` | A tree whose routes use one face collapses to the empty name, which `find_fib_entry` never matches. |

These change little in the configuration of a run or of the previous table (and check invariants under `Spec`, and what must happen in the end under `FairSpec`):

| Run | Change | Property | What it shows |
|---|---|---|---|
| `icn_forwarder` | `AppIds = {2, 3}`, `HasApp` and `InterestToApp` `TRUE`, `Rules <- MCNodeRules`, `InitialFibs <- MCNodeFibs` | `NobodyForgotten` | An NFN node whose higher layer uses ids that overlap with face ids: `add_pit_entry` takes a consumer for a duplicate if its id is that of a local request. |
| `icn_forwarder` | - | `StaticStays` | The sweep of the content store removes by name, and may take static content. |
| `neighbours` | `Names <- MCNames`, `InitialFibs <- MCSharedFibs`, `PitRetransmits = 1`, `MaxRetransmits = 2` | `NeverStuck` | Routes that share a face: the next route has only faces that have refused, nothing is sent and nobody is told. |
| `neighbours` | `MaxOwed = 2`, `InitialFibs <- MCMulticastFibs` | `NackMeansExhausted` | Neighbours that answer a retransmission separately: two Nacks of one face count as two faces. |
| `MCRoutingFound` | `Names <- MCBetween`, `Prefixes <- MCDeepPrefixes`, `Announced <- MCDeep`, `Rules = {}` | `CoveredAlike` | A merged line covers names that a shorter route leads elsewhere. |
| `MCRoutingFound` | - | `Cleared` | `clear` skips the entry after each one it removes. |
| `MCRoutingFound` | - | `RulesStay` | A rule that equals a learned route is not added, and goes with it. |
| `link_stack` | a scene in which a peer posts `Interest(Long)` | `PeersServedRight` | The Nack of an interest of more than 241 bytes: its first length takes three bytes, and `decode_nack` reads the name at byte 13 (`NdnTlvEncoder.py:301`). |
| `link_stack` | ... `Nack(Short, NoReason, Interest(Short))` | `HandedUpRight` | A Nack without a reason is shorter, and cannot be decoded for the same cause; the comment at `NdnTlvEncoder.py:311` says its reason is then `NOT_SET`. |
| `link_stack` | ... in the string encoder, a name with `:` or `%2F`, or the empty name | `HandedUpRight` | A colon ends the name, the three characters come back as a slash, and the empty name as one empty component. |
| `link_stack` | ... in the string encoder, a payload with `%58`, as it stands | `HandedUpRight` | It comes back as a colon. |
| `MCFacesShared` | - | `GivenFaceLeadsBack` | An id is returned that leads nowhere. |
| `MCFacesShared` | three addresses, `MaxEntries = 2`, `LastFaceId = 4` | `WithinLimit` | The table outgrows its limit and stays too large. |
| `computing` | `Scenes <- MCShared` | `RunningIsTrue` | A function that is part of two computations: one entry, counted twice as running. |
| `computing` | `Scenes <- MCForwarded` | `NotRunningIsTrue` | A name with the rewrite this node would make of it: a neighbour is told that a computation in progress is not running. |
| `computing` | `Scenes <- MCSame` | `WaitsForSomething` | A parameter twice in one call: its content is taken once, and the second is awaited for ever. |
| `computing` | `Scenes <- MCSameDeep` | `NeverCrashes` | A parameter in a call and in a call within it: an entry completed on the way is looked up again. |
| `computing` | `Scenes <- MCForgets` | `WaitsForSomething`, `Answered` | Content that a computation is tied to expires between `compute_fwd` and `compute_local` (`BasicNFNLayer.py:164`, `176`): neither is done, the entry stays in the table, and the consumer is not told. |
| `computing` | `WholeRounds = FALSE` | `Answered` | A handler removes a name while a round iterates over the names: the exception leaves the round without a new timer (`BasicTimeoutPreventionLayer.py:189`). |
| `computing` | `Optimizers = {"Edge"}` | `WaitsForSomething` | The edge computing optimizer. |
| `chunk_transfer` | `Repeated <- Everything` | `IsFetch` | Metadata that arrives twice lists its chunks twice. |
| `chunk_transfer` | `Wanted <- MCBoth` | `FetchedIsAsked` | A late Nack of one content answers the fetch of the next. |
| `chunk_transfer` | `Wanted <- MCAgain` | `AwaitedIsAsked` | A content that is fetched again while packets of the first fetch are on their way. |
| `thunks` | `Scenes <- MCTwo` | `NeverFails` | Two plans that share pieces: a refusal takes entries the loop is still to look for. |
| `thunks` | `Scenes <- MCTwo` | `PlansFollowed`, `PlansCanBeRead` | The optimizer asks for plans of calls within a computation; plans are kept under the outer name. |
| `thunks` | `Scenes <- MCRelay` | `NeverFails` | A name that is no computation and is not in the store. |
| `autoconfig` | `LocalPrefixes = {}`, `RoutedPrefixes = {"local"}`, `Global = TRUE`, `Routing = TRUE` | `ServerUp` | A service under a routed prefix: `build_fib` is called with an argument it does not take, and the layer ends. |
| `autoconfig` | `MaxRetry = 3` | `Patient` | An older countdown refuses a newer interest before its solicitations are used up. |
| `autoconfig` | - | `AllTold` | What the layer adds between the refusing and the clearing of a timer is dropped and never told, although a comment promises "a Nack packet upwards for each held interest" (`AutoconfigClientLayer.py:133`). |
| `autoconfig` | - | `NoneTwice` | The layer assigns the list it has made before a timer refused what is on it: it is held again, and forwarded or refused a second time. |
| `autoconfig` | `Lossy <- MCAny` | `StillRegistered` | A renewal is not repeated. |
| `autoconfig` | `MaxStarts <- MCReturns` | `RouteToOwner` | A repository that comes back: its old entry is still in the FIB, behind the newer one. |
| `offloading` | `Scenes <- MCTwice` | `RequestedOnce` | Both neighbours have everything: the simple layer requests chunks twice. |
| `offloading` | `Scenes <- MCThrice` | `NothingMissing` | A request with the simple layer while the neighbours still owe an answer to the one before, which the vehicle has ended: pending interests count as refusals (`nack_L`, `nack_R` of a new `ClEntry`), so the loop over the chunks of the next metadata is left after the first, and this chunk is handed up as the whole. It takes three requests. |
| `offloading` | - | `FetchedAlone` | Without a neighbour to ask, `received_all` never becomes true, and chunked content is never requested. |
| `offloading` | - | `EndsAnswered` | A chunk a neighbour has offered overtakes the metadata, and is taken for the whole. |
| `offloading` | `Scenes <- MCUneven` | `BestOffer` | The recipient is the last to answer, and the lengths of strings are compared, so that "complete" loses to any list of names. |
| `streaming` | `Computations = 2` | `InOrder` | The counters go on where the first function stopped. |
| `streaming` | `Scenes <- MCBeyond` | `WaitsForSomething` | One call after the end waits for a part nobody was asked for. |
| `managed_node` | - | `EveryShutdownStops` | A data repository gives management its start function as shutdown function (`ICNDataRepository.py:118`): it is told to stop and starts every process a second time. |
| `managed_node` | - | `ContentAsGiven` | The client escapes slashes in the data too, the server undoes it in the name alone (`Mgmt.py:135`). |
| `managed_node` | - | `AnsweredOnce` | A publication that cannot be decoded is refused, stored all the same, and confirmed (`PushRepositoryLayer.py:61`). |

Invariants of the models that are not listed with a run (`TypeOK` of every module, `Consistent`, `GivenFaceLeadsBack`,
`WithinLimit` and `NoCallFails` of `FaceTable` with one caller, `NoTwins` and `RegisteredAlike` of routing, `RewritesMeanTheSame` and `NeverCrashes` of the NFN
node, `NeverFails` and `AwaitsTheNetwork` of the thunk layer, `ListedIsThere` of the chunk transfer, `Down` of management, `WaitsForSomething` of streaming, `LastResort` and `CaTypeOK` of offloading) hold in the runs of their modules; add
them to the `.cfg` when a module is changed.

**Bounds.** The ICN runs use one name with two prefixes that cover it, two to five faces, and up to two payloads:
enough for aggregation, a route of two faces, a second route after the first has been
used up, a face that is consumer and upstream at once, and two objects of one name. Five
initial FIBs (none, one route, a long and a short prefix, multicast, a route that shares
a face) stand for the orders in which rules may have been added; management adds one more.
`PitRetransmits` is 1 (3 in `neighbours`, so that an entry lives through several retransmissions).
`ageing_resolves` has one name, with the THUNK marker (it also holds without).
`link_stack` has three peers and two places for faces, so that addresses are evicted and come back; two layers that may be inserted in any order and place; and packets with
components of 220 and 253 bytes and payloads of 253, on both sides of the lengths at which one, two or three fields of a packet grow.
The routing tree has a prefix, names below it and one apart, and two faces: enough for a merge at an inner
node, at the root, and none. In `fib_rebuild` an announced name is below another, and a rule can equal a line.
`computing` has a nested call of two functions, of which data can be reached through one route: it is forwarded, refused,
rewritten, computed here, written back; the inner call is asked for by itself, too. Queues hold one packet when another is added.
`chunk_transfer` has a content whose versions have three and four chunks in two metadata packets, a short
one and one that is missing; one loss, one repetition, one update.
`thunks` has two costs, so that every plan can be the cheapest, answers without a cost that can be read (`MaxCost`), refusals, and a short name that is no computation. `autoconfig` has two repositories with one service name, two
interests, two solicitations, and four units of time per registration, so that a renewal comes at two.
`offloading` has three chunks in two metadata packets, nodes at distance one and two, each with nothing, all or an interrupted upload, and none, one or two neighbours to ask. `streaming` has three
parts, read to the last or to the end mark, two packets of others, and a refusal.
`managed_node` has two clients of one to three requests, a backlog of one, two addresses and as many faces the link layer may add; a
forwarder, a data repository and a push repository; two packets for the latter, and one restart: enough for a publication
confirmed before the shutdown, and one that is interrupted by it.

**Fairness.** The fairness of each temporal property is what the code's scheduling gives. Two runs assume or exempt more:
`computing` has `WholeRounds`, which no lock of the code gives, and `Told` of `autoconfig` leaves out what the layer adds while a timer is clearing.

- `ageing_resolves`: weak fairness of the ageing round. The code re-arms the timer in a `finally`
  clause (`BasicICNLayer.py:223`). No packet need ever arrive. The
  properties suppose that interests for the name stop: each refreshes its entry, and an endless stream keeps it alive legitimately.
- `computing`: every process of the node goes on (weakly fair), and the timeout prevention layer gets its turn between rounds
  (strongly fair, as a round is far shorter than the time between two). Nothing of the network or the consumers. Signs of life
  are finitely many: a node that says "running" for ever may be waited for, as the code intends. Beside fairness, `Answered` rests on
  `WholeRounds = TRUE`: no handler of the layer runs during a round of its timer thread, although there is no lock
  (`BasicTimeoutPreventionLayer.py:152-192`). A round is short and handlers are rare, but without this the property is false (table above).
- `chunk_transfer`: the program takes its results, and names that stay unanswered are given up in the end (the rounds of
  timeout prevention). No packet need arrive.
- `thunks`: the network answers or refuses each name; the layer has no timer of its own, the ICN layer below it answers for it.
- `autoconfig`: only the timers of the client, and its layer, which goes on once it has made a list. They overlap in any way. No packet need arrive.
- `offloading`: packets are delivered and nodes handle them; timeouts are the ICN layer's.
- `managed_node`: a client that has connected sends or leaves, and management goes on. Nothing of the operator who restarts a program.
- `streaming`: the function, the other node and the network go on; refusals count as answers.

Deadlock is not checked in the runs with bounded requests: when the last is answered, the system rests.

## 4. Proofs

All for every value of the constants, within the assumptions of the modules (TLC evaluates them in every run) and
the hypotheses named with each theorem. A hypothesis is a formula about the constants that the configuration of the
run satisfies; the tables of section 3 show what happens without it. Each proof has the same shape: an inductive
invariant that contains the property, a lemma for each action, and one temporal step.

**ICN layer** (`ICNLayer_proofs`, with lemmas about the tables).

- `TypeCorrect`: the type invariant; it is inductive as it stands. The part that could fail is the counter of
  outstanding answers, which is never negative.
- `CounterCorrect`: `forwards <= |Faces \ nacked|`. Inductive on top of the type invariant, with the lemma
  `UnnackedCount`: one more refusal removes at most one face from those that may still answer, and it decrements the counter.
- `CachedCorrect`: whatever is cached under a pending name is static. Content that arrives ends the entry before it is
  cached, and an interest that finds content makes no entry.
- `AppsCorrect`: a waiting application has a local request in the PIT. The lemma `AppRecorded` is the point: adding a
  requester never loses a local one.
- `ConsumersCorrect`, `AnsweredOnceCorrect`, if there are no applications (`AppIds = {}`): whoever waits is in the PIT,
  and whoever has been answered is not. One invariant (`waiting` and the PIT agree pair by pair, except for names that
  management has cached) gives both. With applications the first is false, as the table in section 3 shows.
- `HairpinCorrect`: every route is looked up with the requesters as incoming faces.
- `NeverStuckCorrect`, `NackMeansExhaustedCorrect`, for `ICNNeighbours`: if a neighbour owes one answer at most, none comes after the
  entry is gone, no route leads to a consumer, and no two routes share a face (`Tidy`; the table in section 3 shows what
  happens with shared faces, and with two answers). The route in use is not stored, so the inductive invariant `Expects` is about the
  lookup that is repeated: it finds a route, the counter is the number of its faces that have not refused,
  whoever owes an answer is one of these, and a face that has refused is on no route that is left. The lemma `LookupApart` is why the repeated
  lookup finds the same route again: consumers that join make no difference to it.

**Face table** (`FaceTable_proofs`), for one caller; with several it is false.

- `FacesInTurn`: the bijection, the limit and the meaning of face ids. The inductive invariant `IInv` says label by
  label how far the two dictionaries, the list and the counter may disagree inside a call.
- `FacesImplementMap`: `Spec => IsFaceMap`. Only deleting the face of the oldest id and appending a new id change what
  the abstract map shows.

**Link stack** (in the same module, about `LinkStack`), for one link layer (the only caller of its table), for any number of peers, of inserted layers and
of face ids, and whatever is evicted or lost on the bus. The first three theorems take the encoder as they find it: they suppose that the packets the peers
post for the node (`PostsLegible`), and those the ICN layer may send when it has got these (`AnswersLegible`), keep their meaning
from encoding to decoding. `TlvRoundTrip` says which packets do in `NdnTlvEncoder`, and `LinkStackIsRight` puts the two together; the packets of a scene
with the string encoder are still supposed to be legible (`PostsFit`), as nothing is proved of that encoder. TLC checks `PostsFit` of the scenes
of `MCLinkStack` (`ScenesFit`).

- `HandsUpInOrder`: what the ICN layer has received is, item by item and in order, what the bus gave the node, with the meaning the sender gave it, on a face that
  `get_or_create_faceid` returned for the sender.
- `ServesTheRightPeers`: each datagram a peer has got from the node is one the ICN layer sent to a face of this peer, and no two are the same one.
- `NothingIsLeft`: when no process of the node has anything to do, no queue has anything in it.
- `TlvRoundTrip`: any interest, content or Nack within the lengths of `FitsTlv` says the same after `encode` and `decode`, and so does what the ICN layer may make of it.
  There is no limit to the number of components and what they are, or to the payload below 2^31 bytes. An interest has at most 241 bytes
  (one more, and the Nack that answers it is not read; section 3), and a Nack gives a reason.
- `LinkStackIsRight`: the three invariants above for every scene of packets that fit.
- `LinkLayerHasFaceMap`: `LinkSpec => IsFaceMap`. The link layer never has two calls of the table at once, and calls only for addresses of the bus.

None of the properties speaks of the queues between the layers, so the inductive invariant `StackInv` must. `Connected` says that
neighbours in the list of layers share two queues, that no other layer has these, and that there are no others: insertion
at any place keeps it (`Inserted`), and this is where a wrongly linked queue would show. `WayUp` has a count `u` for each layer of how many items have
come past it, as the lengths of the queues say, and the `k`-th item in a queue stands for number `u + k` of those that came, decoded or not
as the queue is above or below the encoding layer. `WayDown` has the same for what was sent, and for what
has left the node an injection from the datagrams of each peer to what was sent: on the bus some are lost, and the link layer drops those whose face has been evicted, so
that counting is not enough. A step of a layer moves one item past one count, whatever layer it is (`UpPassed`, `DownPassed`). The face of an item
was given to its sender when the item passed the link layer, and stays so (`FacesInTurn` supplies that the address of a face, if it has one, is that of whoever was given it).

The encoder is a function of bytes, and the argument goes by what lies where. `LiesAt` says that some bytes are in the packet at an
offset; what was joined lies apart (`LieApart`); a number, a blob, a name that lies at an offset is what is read there, and reading ends behind it (`NumberRead`, `BlobRead`, `NameRead`).
Names and lists of blobs are recursive, and induction is replaced by a least counterexample: `ReadFromStart` and `JoinsAll` show in this way that
the recursive functions exist, `NameIsRead` and `JoinedLie` that they are what was meant, component by component.

**Chunk layer** (`ChunkTransfer_proofs`), if metadata is answered once (`WholeAnsweredOnce`: between a program and a
repository is a forwarder, and its PIT lets one answer through) and no name is fetched again (`FetchedOnce`: packets of
the first fetch would be taken for those of the second). Chunks may be answered any number of times, as a chunk that is not
awaited is dropped.

- `IsFetchCorrect`: `Spec => IsFetch`, the refinement of `FetchSpec`. An answer for which a whole content is handed up is
  `Deliver`, a Nack that takes an entry is `Refuse`, and everything else is a stutter.
- `AwaitedIsAskedCorrect`: what an entry waits for is asked for.

The property alone is far from inductive. `IInv` adds three things. `Once`: the interest in a whole content, or what it has
become, is in one place (`InOnePlace`: on its way, in one of the two queues of the repository, or answered), and nowhere
once its metadata has come (`Quiet`). `OneVersion`: a content is `Uncut`, and nothing of it is chunked anywhere, or it has been
`Cut` in a version, and all that is in the chunk table, travels or has been collected is of this version, although
the stored version changes. `EntryAfter`: an entry that has had `m` metadata packets waits for some of the chunks these list and
for the next packet, and has each of the others exactly once. The bags are handled by lemmas about bags that hold
everything once (`BagWith`, `BagWithout`), so that no induction is needed: `MetadataLists` says that each metadata packet
lists what the previous ones have not.

**Routing** (`RoutingLayer_proofs`), without hypotheses.

- `RegisteredAlikeCorrect`, `DistanceHonestCorrect`: the table a tree is collapsed to leads every registered prefix to its best face,
  and every line announces the distance of the nearest prefix it stands for. `Honest` says this of the
  table of one node and the prefixes below it; `TableHonest` shows it for a node whose children have it: lines of different children
  never cover the same name, and the node's own line is the shortest. `MergedHonest` adds what merging does.
- `RoutesOfferedCorrect`: when the timer thread has added every line, each prefix that had a route is covered by an entry that leads to its
  best face. The inductive invariant `RInv` says that a line still to add or an entry does so, as announcements, ageing
  of the tree and rules come in between.
- `StaticStayCorrect`, `NoTwinsCorrect`: no step removes a static entry, and no two entries are equal. Both need `Clearing`: what
  removing entries from a list while iterating over it leaves behind.

`Collapse` and `ClearFib` contain recursive functions, so that these are proofs by induction. The induction theorems of the library
have an operator as parameter; the lemma `Induction` states the principle for a set of numbers instead (a set that contains zero and
is closed under successor contains every number) and follows from the existence of least elements (`WFMin`). That a recursive function is what
its definition says is shown with it, too (`Iterated`, `TablesExist`). The
tree may have infinitely many prefixes; that those with a route are of bounded length (`Vectors`) is part of the invariant.

**Autoconfiguration** (`Autoconfig_proofs`).

- `NoneDroppedCorrect`, without hypotheses: however the layer and any number of timers overlap, what the application waits for is held, or was
  added between the refusing and the clearing of a timer. Inductive with `RefusedAll` (while a timer is to clear the list, nobody
  waits but for what was added since it refused, so that clearing drops nothing else) and `RestWaited` (whatever is waited for is on the list the layer
  is about to assign, or was overtaken, so that the assignment drops nothing that timers have not told).
- `StillRegisteredCorrect`, if nothing a repository sends or is sent is lost (`RepliesArrive`; the code does not repeat a
  renewal): a running repository that knows its prefix holds its registration, for any registration time above one. The
  inductive invariant `RegInv` says that one of three things is ahead of the end of the registration: the timer, the
  renewal on its way, or the acknowledgement on its way.
- `RouteToOwnerCorrect`, if also no repository comes back (`StartedOnce`): the newest entry of a registered name leads
  to the holder of the registration. `RouteInv` adds that an entry is its repository's for good (`EntryKept`), so that an
  entry nobody removes cannot hide that of a later owner.

**Data offloading** (`Offloading_proofs`).

- `LastResortCorrect`: a single request of `Offloading` asks the vehicle for nothing before both neighbours have refused.
  `LastResort` says nothing of requests that are over; the inductive invariant adds how a request begins (`Entered`), that
  the vehicle is asked by the refusal of the last neighbour only (`AskedLast`), and that nothing is pending before the
  layer above has asked (`NotYet`).
- `VehicleLastCorrect`: the same for a forwarder with either layer; with CA messages, no chunk is asked of the vehicle
  before both neighbours have answered. The inductive invariant `CaInv` adds that `received_all` means the same (later
  handlers rely on it), and the lemma `SendAdds` says what a handler adds to the PIT.
- `NothingMissingCorrect`: content is handed up complete with either layer, if no scene has more than two requests
  (`AskedTwice`). `Accounted` is the core of the inductive invariant: from the first metadata on, each chunk has been received,
  is requested, or is listed in metadata that is requested or follows on it. In the simple layer this rests on
  metadata being followed (`Followed`: when both neighbours have refused, none of them has anything left to answer that is
  considered), and that on how a second request finds the neighbours (`FirstWaits`). With three requests it does
  not hold (`MCThrice`, section 3), so the hypothesis is as weak as a number of requests can make it.
- `CaNothingMissing`: with CA messages it holds for any number of requests.

**Management and push repository** (`PushRepository_proofs`).

- `DurableCorrect`: what was confirmed is in the database, or something that arrived later under the name.
  `DurableInv` orders what has arrived: the queue is in order of arrival, what is stored or in the handler came before what
  is in the queue, and the handler stores before it confirms. Termination between any two steps and restarts keep it.
- `RulesLeadCorrect`: a confirmed rule that uses the face its client was told leads to the address the client named. `MInv`
  adds what the answer to a client that made a face means while faces are added by others (`FacesMean`).

**Streaming** (`Streaming_proofs`).

- `OthersKeptCorrect`: what is in the queue and is not the function's own stays there, once. No hypothesis; the queue is
  rotated, so the lemmas `Rotated` and `Shifted` follow one position through head, tail and append.
- `InOrderCorrect`, for one function (`OneFunction`: counters and buffer survive it) that does not read a list after its end
  again (`ListsReadOnce`: its names would be listed anew). The inductive invariant has `Genuine` (what is stored, travels or
  is kept under a name is the value of the part) and `Progress` (the part waited for is the one after those returned, in
  either form of argument).

Only model-checked:

- liveness, which is out of the prover's reach (`EntriesResolved`, `AppsTold`, `Answered`, `Told`, `Fetched`, `Returns`, `Served`);
- what `SimpleStringEncoder` makes of a packet;
- what the parsers and the plans compute: functions that recur over two data structures at a time, and with them
  `ResultsRight` and `CheapestPlan`;
- the other properties of `NFNNode`, which are not true of every scene (section 3): a theorem needs a hypothesis on the
  expressions and the routes that rules these out, and an invariant on the stack of calls (section 6).

## 5. What the models leave out

- Digests in names, nonces, signatures (nobody checks them), logging.
- The interleaving of the single proxy calls of ICN handlers with ageing and management (`hazards` of
  kind `atomicity`): an entry that is removed between lookup and update raises and ends the layer. A model needs
  every handler split at each call; the handlers here are atomic.
- Networks of forwarders: retransmissions that keep one another's entries alive in a cycle, routes of a node that is gone.
- On a PIT timeout the consumers of the network are dropped without a Nack. The models
  say so (they leave `waiting` with the entry); no property calls it wrong.
- Late answers from an earlier life of a PIT entry are part of `ICNLayer` (the network is
  open), but excluded in `ICNNeighbours`, where the code has no means to tell them apart.
- Of routing: the exchange between forwarders (solicitations, the parsing of announcements),
  the timeouts themselves, and a `min` over (distance, timeout) pairs that raises when a
  route with and one without a timeout tie. An announced distance is taken to be at least 1,
  as every forwarder's own are, so no tie of that kind arises.
- Of the FIB: `remove_fib_entry`, which the mobility simulation calls, and `add_faceid_to_entry`,
  which only a test calls.
- Of the NFN layer: its own ageing with R2C messages, which no program library starts, and what Python functions compute.
- Of data offloading: answers to CA messages that are larger than a packet, and the losses and timeouts the ICN layer deals with.
- The order of the faces of a FIB entry. They are sets in the models; the code keeps lists and compares them as lists
  (`BaseForwardingInformationBase.py:19`), so that an entry with the same faces in another order would be added beside the first.
- Results of computations in the content store of an NFN node: `ICNView` keeps data only. In `Offloading` a refused source ends its PIT entry, where the ICN layer
  puts it back when an application is told (`BasicICNLayer.py:186`); no property of the run depends on which.
- The queue timeout of the Fetch program, four seconds (`Fetch.py`): a result that comes later finds that the call has ended with an exception. The program of `ChunkTransfer` waits, as with a timeout of 0.
- Of an autoconfig client: a timer is created and started in one step (`AutoconfigClientLayer.py:129-131` assigns it to an attribute first, where
  another thread may take its place).
- UDP sockets and a send that fails; several interfaces of one link layer; the delays of the simulation bus (it is one process and keeps the order).
- The content stores that match prefixes or keep a tree of names: no program library installs them. Demos, simulations, playground and the external libraries are not part of a node.

## 6. What could come next

1. The ICN handlers at the granularity of single proxy calls, with the ageing thread and
   management in between: which interleavings end the layer's process.
2. Several forwarders and links with loss: a chain drains, a cycle of retransmissions; distance vectors
   in a small network.
3. Proofs: of `RunningIsTrue` and
   `NotRunningIsTrue`, whose handlers are stacks of calls; and what `TlvRoundTrip` says, for the string encoder, whose names have to be free of
   colons and of what looks like an escape.
