# A verification of fpp-tools

TLA+ models of the FPP compiler's language server and of the parts of the
compiler it stands on, the TLC configurations that check them on small
instances, and theorems about them checked by the TLA+ proof system. The
sources are those of this repository; paths below are relative to its root.

## 1. The system

`fpp-tools` is a compiler front end for F Prime's modelling language (FPP) and
the tools around it. Almost all of it is sequential: text is lexed, parsed,
its includes resolved, and a sequence of analysis passes runs over the tree. Two
things can go wrong there. The language server, and the compiler context it edits in
place, keep state between two inputs and have to survive every order of them.
And the passes of the analysis are searches over graphs that the user writes (of
definitions, choices, topologies), each of which relies on what the ones before it
have established or rejected.

| Part | State it keeps | Operations | Talks to |
|---|---|---|---|
| **Main loop and tasks** `fpp_lsp_server/src/{global_state,analysis}.rs` | queue of tasks, requests not yet answered, workspace kind, context, cached translation units, index from documents to files, "analysis out of date" flag | take a task, a message, or run the debounced analysis; tasks `ReloadWorkspace`, `LoadLocsFile`, `LoadFullWorkspace`, `Update`, `Reprocess`, `Analysis`, `Response` | every part below |
| **Handlers** `handlers.rs`, `request.rs`, `notification.rs`, `dispatcher.rs` | none of their own | document opened, changed, closed; files changed on disk; reload; shutdown; read-only requests | VFS, task queue, index, cache |
| **Virtual file system** `vfs/` | an entry per document: text from disk, or the editor's | `read`, `update_fs`, `did_open`, `did_change`, `did_close` | disk |
| **Diagnostics emitter** `diagnostics.rs` and `publish_diagnostics` | diagnostics per document, next id, open collection set; what was last published | `emit`, start/finish/cleanup of a set, `clear`, push to the client | client |
| **Compiler context** `fpp_core/src/{context,map}.rs` | maps of files, spans and nodes by recycled handles; open collection set | create, look up, free by set | parser, analysis, handlers |
| **Include resolution** `fpp_parser/src/resolve_spec_include.rs` | none between units | replaces include specifiers by the members of the files | VFS, context |
| **Semantic analysis** `fpp_analysis` (28 000 lines) | one `Analysis` per run | symbols, uses, constants, types, components, and the passes in the next three rows | context (makes nodes, reports) |
| **Use-def cycles** `passes/check_use_def_cycles.rs` | path of definitions, list of uses on it, visited set | visit a definition, follow a use, report a cycle | gate of all later passes |
| **State machines** `passes/state_machine/`, `semantics/state_machine/` | transition graph, types at choices, flattened transitions | initial transitions, graph, reachability, choice cycles, types, flattening | each pass is gated by the errors of those before |
| **Topologies** `passes/check_topology_*.rs`, `semantics/resolve_topology/`, `semantics/topology*` | `topology_map`, the topology under construction, port numbers | imports, ports of topologies, patterns, matched and general numbering, unconnected ports | topologies before it, component instances |
| **Semantic tokens** `lsp/semantic_tokens.rs` | tokens last sent per document | full, delta, range | analysis |
| Parser, lexer, syntax tree, lossless parser, formatter, queries, diagrams, Python bindings, macros, editor extensions | none over time | pure functions, generated code, clients | |

How they interact. The editor sends messages over a channel that one thread
reads. The loop (`main_loop`) uses `select_biased!`: a queued task always goes
before a message, a message before the analysis timer, and the timer is armed
only while the analysis is out of date and starts over with every task and
message. A handler changes the VFS and queues `Update`; `Update` finds the units
a document is part of through the index and queues `Reprocess` for each root;
`Reprocess` frees the old unit's handles in the context and builds it again from
the VFS; the timer's `Analysis` checks all cached units, rebuilds the index and
pushes the whole set of diagnostics.

What is hard here:

- **Stale handles.** The index and the analysis are as old as the last
  `Analysis`, and the context changes before the next. Handles are recycled at
  once, so a stale one can be gone, or stand for another file or node.
- **Order of queued work.** A task queues others behind whatever is queued
  already; a batch of file events can put a reload and an update side by side.
- **Ownership.** Files, nodes and diagnostics are freed by the set that owns
  them. A set that misses one leaks it, a set that holds another's frees it under
  a neighbour, and a set that is opened or recorded out of order loses track.
- **Two sources of text.** Editor buffers and the disk change independently, and
  the watcher tells of the second with delay.
- **Copies at the client.** Diagnostics and semantic tokens are sent as what
  changes in what the client is believed to have.
- **Searches.** A node met again is a cycle or merely shared; an abandoned branch
  leaves marks; recursion without a measure ends only because an earlier pass
  has rejected what would make it run for ever.
- **Greedy choices.** Port numbers are given out one at a time, and must suit
  those still to come, those written by hand, and other matchings.
- **Partial failure.** A file that vanishes between two steps; a handler that
  ends in the middle of a batch; a panic, which ends the process.

What makes each part correct: handles are never shared, lost or freed for
another (context); an open document reads as the editor's text and any other as
the file's (VFS); every diagnostic has an owner, and a push leaves the client
with the store (emitter); no handle of a file or a unit leads nowhere, work ends, requests
are answered, and at rest the client shows what the texts the user sees call for (server); the editor's tokens
paint what the server computed (semantic tokens); cycles are found exactly, and what
recurses behind the check ends (use-def cycles, choices); an accepted machine runs its
actions in the states they belong to, on values of their types, and reacts in
finitely many steps (state machines); no connection is lost on the way through imports
and patterns, and numbers fit, differ where they must and agree where they must
(topologies).

## 2. Modules

| Module | What it is |
|---|---|
| `IdMap` | `fpp_core::map::IdMap` as a value: live handles, counter, free list |
| `CompilerContext` | the file and node maps and collection sets, under the calls the server makes: start, file, node, finish, cleanup of a unit, nodes an analysis makes, load |
| `Vfs` | the VFS as a value; one operator per method |
| `DocumentStore` | abstract: what the VFS promises its readers |
| `VfsService` | the VFS with a disk, readers and an editor; refines `DocumentStore` |
| `SemanticTokens` | extends `VfsService`: tokens of a text, remembered answers, deltas, and the editor's copy |
| `Diagnostics` | emitter, collection sets, owners, and the push |
| `Workspace` | pure: which files the units of a workspace have, in which orders they are made, which diagnostics they give |
| `LspServer` | loop, tasks and handlers composed with `IdMap`, `Vfs` and `Workspace`; editor, disk and watcher around them |
| `UseDefCycles` | the search of `check_use_def_cycles`, one step per visit, use and return |
| `StateMachineNodes`, `StateMachines` | pure: definitions of state machines; the transition graph, types, and flattened transitions |
| `ChoiceCycles` | the search of `check_choice_cycles`, step by step |
| `StateMachinePasses` | the passes over a machine with their gates, and the running machine they are for |
| `PortNumbering` | matched and general numbering of the ports of one topology, one step per pair and connection |
| `Topologies` | resolution of topologies in the order of their imports, ending in `PortNumbering` |
| `AnalysisPasses` | the three of them in the order of `CheckSemantics` |
| `IdMap_proofs`, `CompilerContext_proofs`, `VfsService_proofs`, `Diagnostics_proofs`, `LspServer_proofs`, `LspUnits_proofs`, `AnalysisPasses_proofs`, `Topologies_proofs` | lemmas and theorems |
| `MC*` | instances for TLC |

`LspServer` uses the value modules `IdMap`, `Vfs` and `Workspace`. The components with a
state of their own (`CompilerContext`, `VfsService`, `Diagnostics`) model the same
code in more detail and under fewer assumptions about the caller; most of the theorems are
about them. `AnalysisPasses` composes `UseDefCycles`, `StateMachinePasses` (on
`StateMachines` and `ChoiceCycles`) and `Topologies` (on `PortNumbering`).

Correspondence to the code. In `LspServer` the variables are the fields of
`GlobalState` (`tasks` is the channel `task_tx`/`task_rx`, `incoming` the requests of
`req_queue`, `ctx` and `nodes` the maps of files and nodes of `context`, `analysis` the nodes
that the field of that name holds on to, `dirty` is `analysis_dirty`) and each
handler and task is one step, because one thread runs each of them to its end.
`Requeue` is the tail of the loop iteration that ran a task: what the task queued,
followed by the response it owes. A Rust panic is a step to a `status` that enables
nothing. A text is abstracted to the documents it includes and three facts: it has a
syntax error, it uses a symbol, it defines that symbol; that is enough for a diagnostic
to depend on one file, on the includes, or on all units at once. The nodes of a text are
abstracted to the use and the definition of the symbol, as far as it has them: a reprocessing
can free nodes for good, free and hand out the same handles, or leave a unit with more
(`BuildNodes`). `query` stands for every read-only request about a document. It finds the text
(`position_to_offset`), the files and the units of its document (`nodes_at_offset`), or
panics; then it may follow any node that the last analysis holds on to (`node_to_location`,
`hover_for_symbol`), and panic where it is gone. A node and its span and file are freed
together, so `span.file.upgrade().unwrap()` is covered for nodes of the units; those that an analysis
makes itself, which outlive their file, can be met in the same window. A position is one of a text that the
editor shows: editors ask about documents they have open (`EditorAsks`), and that the
server then has that text is `OpenDocumentsReachTheServer`. The iteration orders
of hash tables are nondeterministic choices (`ExtractOrders`, `SetToSeqs` of the
roots to reprocess, `DepthFirst`). The three knobs
`HurriedIncludeEdits`, `Batches` and `DiskFaults` say which environments are
admitted, so that a run can say what holds in which.

In the passes of the analysis a variable is a field of the analysis or of the pass's own
state, and a step is one level of its recursion, so that what is on the stack, in the visited
set and in the error list can be related at every moment; pure parts are operators. Where
the code walks in the order of the text or of names, `UseDefCycles`, `ChoiceCycles`,
`PortNumbering` and `Topologies` take any order, so that what they show depends on none; the
types of choices and the flattening keep the order of the text, on which their results depend.
An analysis with an error in a topology still goes on: the topology is entered as far as it
got, and those that import it are resolved against that. An importer takes the
connections of what it imports without their general and matched numbers, and
numbers them itself.

`SemanticTokens` takes the handling of a request and the arrival of its answer in one
step. The editor has one request under way per document; what it holds does not change in
between, but for an answer it drops, and this is the choice that `Answers` leaves.

Definitions that begin with `Faulty:` are plausible mistakes in the definition that
follows them. Nothing uses them; they are there to be put in its place, to see that
the properties notice.

## 3. Runs

| Run | Instance and bounds | Shows |
|---|---|---|
| `context` | 2 units; 3 files and 2 nodes live at once, 3 builds | handles (6 properties) |
| `context_stale` | the same | **violation**: a stale lookup finds another node |
| `vfs` | 2 documents, 2 texts, any disk; or 3 token answers over a fixed disk, 5 colourings | VFS and its refinement of `DocumentStore`; the editor's tokens |
| `analysis` | 3 definitions with any uses; some 4700 state machines of 3 states and 3 choices; some 5600 designs of up to 3 topologies, 4 instances and 9 ports; emitter with 2 documents, 2 units, 4 ids | passes (cycles, machines, topologies) and diagnostics (19 properties) |
| `analysis_types` | the same | **violation**: an initial transition that enters a typed choice |
| `server` | root `a`, file `b`, locs file `l`; 4 environment events; 2 messages in transit; disciplined environment | no panic but on nodes of an analysis out of date, index, final view, pushes |
| `server_hostile` | 3 events, all three knobs on, a workspace kind that is also "none" | what holds in any environment |
| `server_progress` | 2 events, all three knobs on, fairness | work ends, reloads are answered |
| `server_batch` | `Batches` | **violation**: `Reprocess` unwraps a unit that a reload replaced |
| `server_hurried` | `HurriedIncludeEdits` | **violation**: an edit is dropped, the client keeps stale diagnostics |
| `server_query` | disciplined environment | **violation**: a read-only request that follows a node freed since the last analysis ends the server |
| `server_reply` | disciplined environment | **violation**: a reload is answered before its analysis |

Why the bounds are enough. In `context`, three builds let a unit be freed and rebuilt
while the other one takes its handles, and three files let a unit have an include.
In `vfs`, two texts tell a buffer from a file and two documents show that an
operation leaves the other alone; three answers let the editor have the first, drop
the second, and get a delta as the third, and the colourings make the common front and
the common end of two answers overlap, nest ranges and coincide.

In `analysis`, one kind of input is varied at a time, because the passes share nothing
but their gates, and the emitter works where all passes were blocked. Three
definitions give every shape of a cycle: through itself, through two, through all, beside a
shared definition, through a member; three states give all nestings of a source and
a target, three choices all shapes of a choice graph in which a search may return to
what it has finished. In the family of typed machines two signals with values
meet at a chain of choices. Two remote instances at a port of size two let the
pairing fill an array, collide with written numbers and run out; a fan puts one port
in two matchings; three topologies import each other directly and through another, name ports
through one or two topologies, and have patterns that find their connection made
already. Four ids cover the diagnostics of a unit, an analysis, and both again.

In `server`, four events suffice to change the includes,
edit a file, change it on disk and reload, in every order and with each message
delayed past the analysis; `a` includes `b` or not, so that units share files, lose
them and get them back, and both may be roots at the same time. Deadlock is not checked in
the `server` runs: events are bounded and the server may stop.

The statements that the violation runs refute are quoted, with the lines of the code they
come from, in `PROJECT.json` under `findings`. `server_reply` and `server_query` have the
environment of the `server` run, whose properties say what holds beside those violations. Its
knobs exclude the environments of the others: with `HurriedIncludeEdits` FALSE, an edit that
changes what is included waits until the server is at rest and is analysed before
the editor goes on; with `Batches` FALSE the watcher names one file at a time; with
`DiskFaults` FALSE files change but neither vanish nor appear.

`RefusedHasNone` compares a refusal with all numberings there are, and says nothing where
a port is in two matchings: there taking the lowest free number for one matching can spoil the
other, and the code does refuse designs that have a numbering (`fan` shows it when
`MatchedOnce` is taken out). `ActionsRunInContext` and `ReactionsEnd` run the accepted
machines of the instances on every signal.

Fairness. `Spec` of `LspServer` assumes weak fairness of the server's steps (the loop
blocks only when it has neither task nor message), of the timer (it is rearmed on
every iteration, so it is only sure to fire once it stays enabled, which is weak
fairness) and of the watcher (the operating system delivers what changed). Nothing
makes the editor act. Weak fairness of the disjunction of all server steps is no
promise that a message overtakes tasks, and none is needed: a message is taken when
the queue is empty. `AnalysisFairness` assumes weak fairness of the passes and of the
reaction of a machine, each of which is one thread that runs to its end; nothing makes
signals come.

## 4. Proofs

TLC checks the instances above; the theorems hold for every value of the constants.
They assume only what the modules assume of their constants: bounds are natural
numbers, markers such as `NoUnit` and `Missing` are not what they mark.

- **Handles** (`CompilerContext_proofs` on `IdMap_proofs`). `NoOverlap` is not inductive:
  whether the key handed out is live depends on the free list. The invariant adds that the
  free list has no duplicates, no live handle and nothing beyond the counter
  (`Separate`) and that nothing below the counter is missing (`Packed`); `IdMap_proofs`
  shows that insertion and extraction preserve both, for each order in which a
  hash table yields what is extracted. On top of it `SetsInv`: the sets hold live handles
  of their own unit, and nodes are located in files of the same set. Two units cannot
  share a handle because what a handle stands for names its unit.
  `OthersUntouched` follows from the same invariant.
- **VFS** (`VfsService_proofs`). The invariant adds that the current disk is
  remembered among the texts a file has had. One lemma (`OneEntry`) reduces each
  operation to what it does to one document. `VfsImplementsStore` maps an open
  document to the abstract buffer and an `Fs` entry to the text last seen; `update_fs`
  of an open document, and changes and closes of documents that are not open, map to no step.
- **Diagnostics** (`Diagnostics_proofs`). Two owners cannot share an id because ids below
  `next_id` are handed out once (`IdsAreIssued`, `OwnersApart`); the record of the last
  analysis may be overwritten because the store was cleaned of it when the set was
  opened (`OpenSet`). `PushIsAuthoritative` needs `ShownIsRemembered`.
- **Server** (`LspServer_proofs`). `OpenDocumentsReachTheServer` says nothing while a
  notification is under way, so it is not inductive. The invariant tells what each message
  in transit will leave the server with (`Says`): the last one about a document says what the
  editor has, and a change is never the first thing said about a closed document, which
  `did_change` would drop (`MessagesTellTheStory`). Three lemmas carry it over every step:
  the server works (`Works`), takes a message (`Arrives`), is sent one (`Sent`). The theorem
  holds in every environment, whatever the three knobs are, and with any number of messages.
  `NothingIsOwedAtTheEnd`: a server that stops has answered every reload request it took.
  The invariant (`Debts`) says that each request that is not answered has its Response in the
  queue, or a task that carries it there, and that while something is owed the queue
  holds nothing but the tasks a reload leads to: an `Update` is only queued by a
  notification, which waits for the queue to be empty, and a `Reprocess` only by an `Update`.
- **Units of the server** (`LspUnits_proofs`). The files of a unit are the paths of includes
  from its root, which are finitely many (`PathsFinite`); `BuildFiles` gives each a handle
  of its own and its parent the handle of the path before it (`BuildFilesFacts`), and
  the units made by one load or one `Reprocess` have disjoint handles (`BuildUnits`). From
  the invariant (`Units`: the map has no duplicates among live and free handles, the units
  partition the live files, each is a tree of includes under its root) follows
  `UnitsStayApart`, and with the types of what is queued and sent (`Typed`) `TypesHold`;
  both hold in every environment.
- **Panics** (`LspUnits_proofs`). `CalmPanicsOnStaleNodes` and `CalmIndexReachesRoots` assume
  `CalmEnvironment`: the three knobs are off and every document is on disk at the start. No task
  panics then, and no request does where it looks up the text, the files and the units of its
  document. What no environment excludes is a request that follows a node of the last analysis
  after a `Reprocess` has freed it and before the debounced analysis (`server_query`); the theorem
  confines it to that window (`NodesKept`: unless the analysis is marked as out of date, the nodes
  it holds on to are there). Outside
  this environment the rest is false as well: `server_batch` shows it for `Batches`, and with
  `HurriedIncludeEdits` set to TRUE in `MCLspServer.cfg` TLC finds a request that follows a file
  handle which a `Reprocess` has freed.
  Neither property is inductive: `files` is the index of the last analysis, and whether a handle
  in it still leads to a root depends on what has been edited since. The invariant (`Calm`) is
  a disjunction of phases. *Stable*: every edit under way leaves the includes as the cached units
  have them (`Shapes`), each unit has the files its root calls for (`AllFit`), and the index
  leads to all units of a document and no others (`Indexed`). *Edited*,
  *Updating*, *Rebuilding*: an edit has changed what one document includes; its report is on
  its way, its units are looked up through the index of before, each is rebuilt in its turn.
  *Reloading*, *Loading*: the units are replaced, and the index is empty until the analysis.
  Beside the phase, the queue has one of three forms (`Queue`), and the server works for the
  config there is or is going to hear of another (`Current`). That the
  index survives the reprocessing of a unit whose shape is kept, while its handles are freed
  and handed out again in any order, rests on `KeysComeBack` of `IdMap_proofs`: as many
  insertions as keys were removed get exactly those keys.
- **What is shown** (`LspUnits_proofs`). `CalmViewIsTrue` and `CalmPushIsAuthoritative` have the
  same assumption and stand on `Calm`. Neither says anything while work is under way, so the
  invariant (`Truth`) says of each piece of what is shown that it is what the texts call for or
  that something is queued that will make it so. A unit is `Fresh` (its files, their texts and
  its errors are those of the server's texts) or `Awaits` a task that builds it again; the roots
  are the ones the workspace calls for, or an `Update` of the locs file or a load is queued; what
  the client shows is the store and the errors of the analysis are those of the texts held
  (`Pushed`), or an analysis is pending; and where the server's copy of a file is not what is
  on disk, the watcher knows (`Seen`). When nothing is queued only the first half of each
  is left (`TruthTold`). That an edit leaves the other units fresh is `SameErrors`: what is
  reported of files depends on the texts of those files alone.
- **Use-def cycles** (`AnalysisPasses_proofs`). `PassedIsGrounded`: if the check passes, every
  nonempty set of definitions has one that feeds on none of the set, that is, recursion over uses ends.
  `StoppedIsCycle`: if it breaks off, there is a set without such a definition. For
  any set of definitions. The invariant (`WalkInvariant`) says that the calls in
  progress are a path of distinct definitions, each a part of the one outside it
  (`Chain`), that a part not still to do is visited or under way (`PartsTaken`), and that what is
  visited only feeds on what is visited (`VisitedClosed`) and is grounded. Neither of the two
  theorems is inductive alone: that a finished definition can be added to the visited ones rests on
  `PartsTaken`, and that a definition met again closes a cycle rests on `Chain`.
  `ErrorsAreExplained`: the list given with the error is one path of uses round to the definition.
  It is not what the stack holds: the walk also goes from a definition to its members, which adds
  nothing to the list. The invariant (`Explained`) says that the uses in the list join
  (`UsesJoin`) and that the last one made before a frame led to the owner of the frame or to the enum
  it is a constant of (`UsesLead`); that the list is not empty when a definition is met again
  holds because members have no members.
- **Choice cycles** (`AnalysisPasses_proofs`). `RejectsExactlyCycles`: the search ends with a cycle
  if and only if some nonempty set of choices has each an arc into the set, for any choices and arcs.
  The invariant (`Search`) is of the same kind, but for a search that drops what it has
  followed when it returns: the calls are a path of arcs (`OnAPath`), an arc no longer to be followed
  leads to what has been returned from or to the next call (`ArcsTaken`), the returned choices are closed and
  well-founded, and no choice is forgotten between the searches (`SearchedSoFar`).
  `ReportsAreCycles`: what is reported is a cycle, each arc once. `path_list` is never
  shortened, so a report walks back through it past the arcs of finished branches; it finds the right ones
  because the arc to each call in progress is the latest in the list to that choice, and lies the
  later the deeper the call is (`Placed`). `RecursionAlwaysEnds` is about the passes in their
  order (`AnalysisSpec`): the passes behind the gate only run when the search is over and has
  found nothing (`SearchInPlace`).
- **State machines** (`AnalysisPasses_proofs`). The theorems are about `AnalysisSpec` started with
  a machine that is a `LegalMachine`: definitions nest in states, transitions and branches lead to nodes,
  signals carry types, and where every use is resolved it names a node of the machine. The syntax tree
  and the resolution of names give that and no more: initial transitions may be missing, doubled or lead
  outside, choices may run in circles, and types may not fit. TLC evaluates it on every machine of the
  run. `TypesAssumption` says that types have a width and that the string of no given size is a
  type.
  `ActionsAlwaysInContext`: an accepted machine exits the innermost state it is in, enters a state
  directly into the one around it, reaches a choice in the states around it, and rests in a leaf. The
  invariant has two parts. `PassesSoFar` keeps what each pass has made sure of. `RunInPlace`
  says that the active states are a chain, and that what is left to run is the rest of the
  way from them to the goal (`ToRun`): the exits up to the states that the two have in common, innermost
  first, then the entries down to the goal. It is needed because `ActionsRunInContext` only
  looks at the next action, and a flattened transition was computed for the leaf or choice it
  starts from, not for the states it meets half way. Lemmas show that every flattened
  transition is such a way (`FlattenedActions`, `FlattenedSignal`), also when the handler is
  inherited from a state around the leaf (`HandlersAreOwn`).
  `ValuesAlwaysSuit`: the value that reaches a choice converts to what its guard and actions want. The
  invariant adds that the graph, the types and the arcs searched are those of the machine (`TypesSoFar`),
  and that the value on the way to a choice converts to the type of that choice (`ValueFits`). That
  it does along every arc needs each arc of the machine to be in the list the types are folded
  over, conversion to be transitive (`ConvertibleChain`), and a common type to be one that
  both sides convert to. As in the property, machines with a choice that is both the initial node
  and entered by arcs are left out: `analysis_types` refutes the statement there.
  Two recursions of the code are behind these theorems, the nesting of states (handlers)
  and the branches of choices (types). `RecursionDefines` shows that a function defined
  by recursion exists where each nonempty set has a member with nothing of the set below it. For
  nesting that is part of `LegalMachine`; for choices it is what `RecursionAlwaysEnds` gives,
  turned round: the search shows that following arcs forwards ends, the types are computed backwards,
  and in a finite set of choices the one gives the other (`EndsBackwards`).
- **Port numbers** (`Topologies_proofs`). `NumberedSolves`: a numbering that is not refused is
  in range, keeps written numbers, and differs and agrees where it must, for any
  finite sets of connections of any instances and any matchings, also overlapping
  ones. The invariant (`Numbering`) adds what holds half way: matchings that are done
  hold (`MatchingsHold`) and stay so because later steps only number what has no number;
  outputs are apart so far; numbers fit. `LowestIsFree` says what the search for a number returns;
  that an output never runs past its array is the pigeonhole argument of `OutputGives`, from
  the count that `check_output_ports` has made.
  `RefusalsAreJustified`: where the connections pair and no port is in two matchings, a
  refused topology could not have been numbered in any way. The invariant (`Given`) says that until
  the matchings are done a number that is not written belongs to a pair that has been handled.
  Every refusal is then a contradiction with the written numbers, but for one: a pair
  that finds no free number (`NeitherRefuses`). There each number of the array is taken at one of
  the two ports, by a pair or a written number, so any other numbering, where these links differ
  from each other and from the pair in hand, would need one number more than there are.
- **Topologies** (`Topologies_proofs`). The theorems are about `TopologiesSpec`, whose
  definitions are any that satisfy `LegalDesign`: finitely many topologies, connections that are
  directed and in range as `Connection::from_ast` makes sure, ports of topologies with the
  direction and size of what they stand for, patterns over component instances, and places
  in the source (`Span::compare`) that tell patterns from connections and from the patterns of
  other topologies. `TopologyAssumption` says that there are finitely many component instances and
  that the port of a kind is a port of its instance, on the side the kind has. TLC evaluates both on
  the designs of the run. `EveryConnectionArrives`: without errors, a topology goes to
  numbering with everything that is written in it or in what it imports, through however many
  others. The invariant (`Building`) says of each topology that has been entered, and of the one
  under construction as far as it is, that what takes part in its imports takes part in it
  (`Sound`), that its ports and connections have been followed down to component instances it has
  (`Resolved`), and that each connection its patterns ask for is there (`Wiring`). Errors in one
  topology leave less to be said of all (`Entry`), which is what the legality of the links and
  the end of following ports down rest on. `PatternsNeverDouble` rests on `Once`: nothing written or taken
  over is at the place of a pattern, so a link there was made for it, when there was none.
  `TopologiesImplementNumbering` shows that each step of a topology is one of `NumberingSpec` or
  leaves the numbers alone, so that the results on port numbers hold of topologies
  (`TopologiesAreNumbered`, `RefusedTopologiesHaveNone`).
- **Semantic tokens** (`VfsService_proofs`). `EditorsPaintTheAnswer`: the tokens an editor has
  after an answer paint what the ranges behind it call for; `EditorsTokensAdvance`: none starts
  before the one before it has ended, so no subtraction of columns wraps (`HeldTokensAdvance`, which
  no run checks). Both are about
  `TokensSpec`, for any ranges that are not empty and of which two that meet nest
  (`ColouringsAssumption`, which TLC evaluates on the ranges of the run): they are the ranges of
  words and of names. The argument has two halves. For one text: the ranges the scan keeps are
  those whose start no earlier range is around (`KeptAreOutermost`), which is the only set
  that fits the scan; sorted they are disjoint (`KeptRanges`), the editor finds each at its start
  (`EncodedStarts`), and around every place inside some range exactly one of them is
  (`ColoursOfOutermost`). For the protocol: the invariant (`TokensInv`) says that an answer's number
  tells its tokens, those the editor has and those the server remembers, so that a delta is
  only applied to the tokens it was computed against, and there it gives the new ones
  (`DeltaGivesTheNew`), however much the common front and end overlap.

Every invariant and action property that a passing run checks is a theorem, and so is the refinement of
`DocumentStore`. Model-checked only are the liveness properties: `AnalysisEnds`, `ReactionsEnd`,
`ComesToRest` and `ReloadsAreAnswered` need fairness, and with it ENABLED, which the prover does not
handle. The refuted statements of the violation runs are TLC's as well.

The library's induction theorems take an operator as a parameter, which the installed
provers cannot instantiate. Where the proofs above need an induction over numbers they
argue by the least counterexample (`LeastNumber`) or by climbing (`Climbs`); where a recursive function
has a closed form they prove it equal to that (`ParentFileFacts`); and where it has none they prove that
it exists (`RecursionDefines`, `StepsDefine`) and argue by the least place where it would be wrong.

## 5. Not modelled

- What the lexer, the parser and most analysis passes compute. Symbols, scopes and uses are
  one question in `Workspace` (is the symbol defined by a cached unit?); constants, values and
  types of data, components, dictionaries and telemetry packets are left out.
- The request handlers' results, apart from semantic tokens; of those, which ranges the
  visitors find, the pieces of a range over several lines (what the line index, a
  library, calls the end of a line decides about them) and the filter of a range request.
- Spans apart from nodes; annotations; byte positions; text of diagnostics.
- Incremental document changes: the editor's text after a change is a new text.
- Progress notifications; requests the server sends.
- A disconnected client (`recv` errors are ignored by the loop) and malformed messages.
- `Vfs::clear` and the emitter's `get` for requests, which change nothing.
- `LoadFullWorkspace` without workspace folders, which discovery does not lead to.
- In state machines: names that do not resolve beyond the fact that they do not, and the
  actions at the entry and exit of states where types are checked. In topologies: template
  arguments, the check against the interfaces that a topology implements, telemetry packet
  groups, and the text of errors.
- Builds with debug assertions, of which `matched_port_numbering.rs:294` is one: the
  models follow the code that runs without them.

The models cover the parts with state, search or ordering; the bulk of the
repository by lines is generated bindings, grammar, syntax trees and their visitors, error
messages and layout, where a model would repeat the code. The share of lines they stand for is
therefore small (about 6 %), and the parts left out are named under `components`.

`PROJECT.json` lists every part of the repository under `components`, and under `hazards`
what is hard to test, with the properties that would notice, or the reason why none does.

## 6. Plan

Done: the context and its maps, the VFS, semantic tokens, the diagnostics, the composed
server, use-def cycles, state machines, topologies, the theorems above. Next, in this order:

1. `IncludeResolution`: the recursion of `ResolveIncludes` step by step with the chain of
   including spans, against `IncludeForest`; the theorem that no path repeats a document.
2. `ComponentIds`: implicit and explicit identifiers of commands, events, channels and
   parameters, and `check_id_ranges` over instances, against "all ids of a deployment differ".
3. `QueryEval`: three-valued evaluation against a reference semantics.
4. `EventTree`: the lossless parser's events, markers and forward parents, against the
   tree they stand for.
5. An abstract server ("the view is that of
   some past texts, and at rest of the present ones") refined by `LspServer`, by TLC.
