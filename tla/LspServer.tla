----------------------------- MODULE LspServer -----------------------------
(***************************************************************************)
(* The language server (src/fpp_lsp_server): one thread that drains a queue  *)
(* of tasks, then takes one message from the editor, and runs the semantic   *)
(* analysis when neither has come for a while.  Around it, the editor (open  *)
(* documents, requests), the disk, and the editor's file watcher.            *)
(*                                                                         *)
(* The handlers keep their names from handlers.rs and the tasks theirs from  *)
(* analysis.rs.  A handler or a task is one step.  A Rust panic ends the      *)
(* process: it is a step that sets status and changes nothing else.          *)
(***************************************************************************)
EXTENDS Naturals, Sequences, FiniteSets, IdMap, Workspace

CONSTANTS
    TextsOf,     \* the texts each document may get: [Uris -> SUBSET Text]
    InitDisk,    \* the files at the start
    Configs,     \* what `.fpp-lsp` may resolve to: of {"none", "locs", "full"}
    ConfigUri,   \* the `.fpp-lsp` file, which is not one of Uris
    MaxInbox,    \* bound on the messages in transit
    MaxEvents,   \* bound on what the editor, its user and the disk do
    HurriedIncludeEdits, \* messages may follow an edit of an include at once
    Batches,     \* one watcher notification may name several files
    DiskFaults   \* files may disappear from the disk and come back

INSTANCE Vfs

ASSUME EnvironmentAssumption ==
    /\ TextsOf \in [Uris -> SUBSET Text]
    /\ InitDisk \in [Uris -> Text \cup {Missing}]
    /\ Configs \subseteq {"none", "locs", "full"}
    /\ ConfigUri \notin Uris
    /\ MaxInbox \in Nat /\ MaxEvents \in Nat
    /\ {HurriedIncludeEdits, Batches, DiskFaults} \subseteq BOOLEAN

VARIABLES
    \* the world
    disk,      \* the files
    config,    \* what the `.fpp-lsp` file resolves to
    docs,      \* the editor's open documents: a text, or Missing
    unseen,    \* files whose change the watcher has yet to report
    events,    \* events so far
    pausing,   \* the last edit changed includes and the editor waits
    inbox,     \* messages in transit to the server
    shown,     \* the diagnostics the editor shows
    \* GlobalState
    status,    \* "running", "stopped", or what panicked: a "task", a "query"
               \* where it finds its document, or a look at a "node"
    tasks,     \* the queue behind task_tx and task_rx
    incoming,  \* req_queue.incoming: the requests not yet answered
    vfs,
    workspace,
    ctx,       \* context.files; a file is [uri, text, parent]
    nodes,     \* context.nodes; a node is [unit, kind]
    cache,     \* root -> the files of its collection set
    files,     \* document -> its files, as of the last analysis
    analysis,  \* the nodes the last analysis holds on to
    dirty,     \* analysis_dirty
    diagnostics, \* the store of [owner, unit, uri, error]
    published  \* published_uris

world  == <<disk, config, docs, unseen, events, pausing>>
loop   == <<status, tasks, incoming>>
units  == <<workspace, ctx, nodes, cache, files, analysis, dirty>>
client == <<published, shown>>
vars   == <<world, inbox, loop, vfs, units, diagnostics, client>>

NoReply == 0

Task(type, arg) == [type |-> type, arg |-> arg, reply |-> NoReply]

Init ==
    /\ disk = InitDisk
    /\ config \in Configs
    /\ docs = [u \in Uris |-> Missing]
    /\ unseen = {}
    /\ events = 0
    /\ pausing = FALSE
    /\ inbox = <<>>
    /\ shown = [u \in Uris |-> {}]
    /\ status = "running"
    /\ tasks = <<Task("ReloadWorkspace", 0)>>
    /\ incoming = {}
    /\ vfs = EmptyVfs
    /\ workspace = "none"
    /\ ctx = EmptyMap
    /\ nodes = EmptyMap
    /\ cache = [h \in {} |-> {}]
    /\ files = [u \in Uris |-> {}]
    /\ analysis = {}
    /\ dirty = FALSE
    /\ diagnostics = {}
    /\ published = {}

-----------------------------------------------------------------------------
\* What the server reads, and what it should read: the editor's text of an open
\* document, the file's otherwise.
VfsTexts == [u \in Uris |-> Contents(vfs, disk, u)]
TrueTexts == [u \in Uris |-> IF docs[u] # Missing THEN docs[u] ELSE disk[u]]

\* parent_file: the root of the unit that the file h belongs to.
parent_file(m, h) ==
    LET root[x \in Live(m)] ==
            IF m.store[x].parent = {} THEN x
            ELSE root[CHOOSE p \in m.store[x].parent : TRUE]
    IN  root[h]

\* new_translation_unit_cache, for one or more roots: order lists the files of
\* the units as they are made, each by its path.
HandleAt(m, order, p) ==
    NthKey(m, CHOOSE i \in 1..Len(order) : order[i] = p)

BuildFiles(m, order, texts) ==
    PushAll(m, [i \in 1..Len(order) |->
        [uri    |-> Last(order[i]),
         text   |-> texts[Last(order[i])],
         parent |-> IF Len(order[i]) = 1 THEN {}
                    ELSE {HandleAt(m, order, Front(order[i]))}]])

RootPath(p) == <<p[1]>>

BuildCache(m, order) ==
    LET paths == ToSet(order)
        root(p) == HandleAt(m, order, RootPath(p))
    IN  [h \in {root(p) : p \in paths} |->
            {HandleAt(m, order, p) : p \in {q \in paths : root(q) = h}}]

\* The members of a sequence at the given positions, in its order.
AtPositions(s, I) ==
    [k \in 1..Cardinality(I) |->
        s[CHOOSE i \in I : Cardinality({j \in I : j <= i}) = k]]

\* The nodes that come with the files: of each text the use of the symbol and
\* its definition, where it has them.
BuildNodes(n, m, order, texts) ==
    LET text(i) == texts[Last(order[(i + 1) \div 2])]
        isUse(i) == i % 2 = 1
        all == [i \in 1..2 * Len(order) |->
                  [unit |-> HandleAt(m, order, RootPath(order[(i + 1) \div 2])),
                   kind |-> IF isUse(i) THEN "use" ELSE "definition"]]
        present == {i \in DOMAIN all : IF isUse(i) THEN text(i).uses ELSE text(i).defines}
    IN  PushAll(n, AtPositions(all, present))

NodesOf(h) == {k \in Live(nodes) : nodes.store[k].unit = h}

BuildDiagnostics(m, order, texts) ==
    UNION {{[owner |-> "unit", unit |-> HandleAt(m, order, RootPath(p)),
             uri |-> e.uri, error |-> e.error] : e \in UnitErrors(p, texts)} :
           p \in ToSet(order)}

ReadBy(forest, texts) ==
    UNION {{Last(p)} \cup texts[Last(p)].inc : p \in forest}

\* Faulty: nobody is answered.
Requeue_WithoutReply(more) == tasks' = Tail(tasks) \o more

\* The rest of the loop iteration that ran the task at the head of the queue:
\* what the task queued, then the response to whoever asked for the task.
Requeue(more) ==
    LET t == Head(tasks)
    IN  tasks' = Tail(tasks) \o more \o
                 (IF t.reply = NoReply THEN <<>> ELSE <<Task("Response", t.reply)>>)

Panic(where) ==
    /\ status' = where
    /\ UNCHANGED <<world, inbox, tasks, incoming, vfs, units, diagnostics, client>>

RunsTask(type) ==
    /\ status = "running"
    /\ tasks # <<>>
    /\ Head(tasks).type = type

\* Task::ReloadWorkspace
ReloadWorkspace ==
    /\ RunsTask("ReloadWorkspace")
    /\ workspace' = config
    /\ Requeue(CASE config = "none" -> <<>>
                 [] config = "locs" -> <<Task("LoadLocsFile", 0)>>
                 [] config = "full" -> <<Task("LoadFullWorkspace", 0)>>)
    /\ UNCHANGED <<world, inbox, status, incoming, vfs, ctx, nodes, cache, files,
                   analysis, dirty, diagnostics, client>>

\* Faulty: the index of the last analysis is kept.
Load_KeepsIndex(kind, roots, m, released, loose, read) ==
    \E order \in DepthFirst(IncludeForest(roots, VfsTexts)) :
        /\ vfs' = ReadAll(vfs, disk, read \cup ReadBy(ToSet(order), VfsTexts))
        /\ ctx' = ExtractIf(BuildFiles(m, order, VfsTexts), ToSet(released), released)
        /\ nodes' = BuildNodes(EmptyMap, m, order, VfsTexts)
        /\ cache' = BuildCache(m, order)
        /\ diagnostics' = loose \cup BuildDiagnostics(m, order, VfsTexts)
        /\ workspace' = kind
        /\ Requeue(<<Task("Analysis", 0)>>)
        /\ analysis' = {}
        /\ UNCHANGED <<world, inbox, status, incoming, files, dirty, client>>

\* Both loads: a new context, filled with the units of the roots starting from
\* the map m; what is released of it afterwards; and what was reported outside
\* any collection set.
Load(kind, roots, m, released, loose, read) ==
    \E order \in DepthFirst(IncludeForest(roots, VfsTexts)) :
        /\ vfs' = ReadAll(vfs, disk, read \cup ReadBy(ToSet(order), VfsTexts))
        /\ ctx' = ExtractIf(BuildFiles(m, order, VfsTexts), ToSet(released), released)
        /\ nodes' = BuildNodes(EmptyMap, m, order, VfsTexts)
        /\ cache' = BuildCache(m, order)
        /\ files' = [u \in Uris |-> {}]
        /\ analysis' = {}
        /\ diagnostics' = loose \cup BuildDiagnostics(m, order, VfsTexts)
        /\ workspace' = kind
        /\ Requeue(<<Task("Analysis", 0)>>)
        /\ UNCHANGED <<world, inbox, status, incoming, dirty, client>>

\* Task::LoadFullWorkspace: the roots are the .fpp files found on disk.
LoadFullWorkspace ==
    /\ RunsTask("LoadFullWorkspace")
    /\ Load("full", Roots("full", VfsTexts, disk), EmptyMap, <<>>, {}, {})

\* Task::LoadLocsFile: the roots are listed in the locs file, which is itself
\* parsed in the new context and released at the end.
LoadLocsFile ==
    /\ RunsTask("LoadLocsFile")
    /\ IF Readable(vfs, disk, LocsUri)
       THEN LET locs == [uri |-> LocsUri, text |-> VfsTexts[LocsUri], parent |-> {}]
            IN  Load("locs", VfsTexts[LocsUri].inc, Push(EmptyMap, locs),
                     <<NewKey(EmptyMap)>>,
                     {[owner |-> "locs", unit |-> 0, uri |-> e.uri, error |-> e.error] :
                         e \in LocsErrors(VfsTexts)},
                     {LocsUri})
       ELSE /\ Requeue(<<>>)
            /\ UNCHANGED <<world, inbox, status, incoming, vfs, units,
                           diagnostics, client>>

\* Task::Response
Response ==
    /\ RunsTask("Response")
    /\ incoming' = incoming \ {Head(tasks).arg}
    /\ Requeue(<<>>)
    /\ UNCHANGED <<world, inbox, status, vfs, units, diagnostics, client>>

\* Faulty: the files themselves are reprocessed, not the roots above them.
Update_WithoutParent ==
    /\ RunsTask("Update")
    /\ LET u == Head(tasks).arg
       IN  IF workspace = "locs" /\ u = LocsUri
           THEN Requeue(<<Task("ReloadWorkspace", 0)>>)
           ELSE \E order \in SetToSeqs(files[u]) :
                   Requeue([i \in 1..Len(order) |-> Task("Reprocess", order[i])])
    /\ UNCHANGED <<world, inbox, status, incoming, vfs, units, diagnostics, client>>

\* Task::Update: the units to reprocess are found through the index that the
\* last analysis left; looking up the parent of a file that has been freed
\* since panics.
Update ==
    /\ RunsTask("Update")
    /\ LET u == Head(tasks).arg
       IN  IF workspace = "locs" /\ u = LocsUri
           THEN /\ Requeue(<<Task("ReloadWorkspace", 0)>>)
                /\ UNCHANGED <<world, inbox, status, incoming, vfs, units,
                               diagnostics, client>>
           ELSE IF files[u] \subseteq Live(ctx)
           THEN /\ \E order \in SetToSeqs({parent_file(ctx, h) : h \in files[u]}) :
                      Requeue([i \in 1..Len(order) |-> Task("Reprocess", order[i])])
                /\ UNCHANGED <<world, inbox, status, incoming, vfs, units,
                               diagnostics, client>>
           ELSE Panic("task")

\* Faulty: the unit is built again beside the old one.
ReprocessUnit_KeepsOld(h) ==
    \E freed \in ExtractOrders(ctx, cache[h]), gone \in ExtractOrders(nodes, NodesOf(h)) :
    \E order \in DepthFirst(IncludeForest({ctx.store[h].uri}, VfsTexts)) :
        LET m   == ExtractIf(ctx, cache[h], freed)
            n   == ExtractIf(nodes, NodesOf(h), gone)
            new == BuildCache(m, order)
        IN  /\ vfs' = ReadAll(vfs, disk, ReadBy(ToSet(order), VfsTexts))
            /\ ctx' = BuildFiles(m, order, VfsTexts)
            /\ nodes' = BuildNodes(n, m, order, VfsTexts)
            /\ cache' = [r \in DOMAIN cache \cup DOMAIN new |->
                           IF r \in DOMAIN new THEN new[r] ELSE cache[r]]
            /\ diagnostics' = diagnostics \cup BuildDiagnostics(m, order, VfsTexts)
            /\ dirty' = TRUE

\* Task::Reprocess: the unit leaves the cache and the context and is built
\* again.  When its file can no longer be read the task returns early: the unit
\* is gone, and with it the context, which had been swapped for an empty one.
ReprocessUnit(h) ==
    \E freed \in ExtractOrders(ctx, cache[h]), gone \in ExtractOrders(nodes, NodesOf(h)) :
        LET uri    == ctx.store[h].uri
            m      == ExtractIf(ctx, cache[h], freed)
            n      == ExtractIf(nodes, NodesOf(h), gone)
            others == [r \in DOMAIN cache \ {h} |-> cache[r]]
            kept   == {d \in diagnostics : ~(d.owner = "unit" /\ d.unit = h)}
        IN  IF Readable(vfs, disk, uri)
            THEN \E order \in DepthFirst(IncludeForest({uri}, VfsTexts)) :
                 LET new == BuildCache(m, order)
                 IN  /\ vfs' = ReadAll(vfs, disk, ReadBy(ToSet(order), VfsTexts))
                     /\ ctx' = BuildFiles(m, order, VfsTexts)
                     /\ nodes' = BuildNodes(n, m, order, VfsTexts)
                     /\ cache' = [r \in DOMAIN others \cup DOMAIN new |->
                                    IF r \in DOMAIN new THEN new[r] ELSE others[r]]
                     /\ diagnostics' = kept \cup BuildDiagnostics(m, order, VfsTexts)
                     /\ dirty' = TRUE
            ELSE /\ ctx' = EmptyMap
                 /\ nodes' = EmptyMap
                 /\ cache' = others
                 /\ diagnostics' = kept
                 /\ UNCHANGED <<vfs, dirty>>

Reprocess ==
    /\ RunsTask("Reprocess")
    /\ LET h == Head(tasks).arg
       IN  IF h \in DOMAIN cache \cap Live(ctx)
           THEN /\ ReprocessUnit(h)
                /\ Requeue(<<>>)
                /\ UNCHANGED <<world, inbox, status, incoming, workspace, files,
                               analysis, client>>
           ELSE Panic("task")

\* Task::Analysis: the analysis diagnostics are redone, the index of files is
\* rebuilt from the cache, and the whole store is pushed to the editor.
CachedFiles == UNION {cache[r] : r \in DOMAIN cache}

ErrorsAt(ds, u) == {d.error : d \in {e \in ds : e.uri = u}}

publish_diagnostics(ds) ==
    LET current == {u \in Uris : ErrorsAt(ds, u) # {}}
    IN  /\ published' = current
        /\ shown' = [u \in Uris |-> IF u \in published \cup current
                                    THEN ErrorsAt(ds, u) ELSE shown[u]]

\* What the analysis takes from the cached units: the definitions, and the uses
\* that one of them resolves.
Linked ==
    LET known == {k \in Live(nodes) : nodes.store[k].unit \in DOMAIN cache}
        definitions == {k \in known : nodes.store[k].kind = "definition"}
    IN  IF definitions = {} THEN {} ELSE known

Analyse ==
    LET found == SemanticErrors({[uri |-> ctx.store[h].uri, text |-> ctx.store[h].text] :
                                    h \in CachedFiles})
    IN  /\ diagnostics' = {d \in diagnostics : d.owner # "analysis"} \cup
                          {[owner |-> "analysis", unit |-> 0,
                            uri |-> e.uri, error |-> e.error] : e \in found}
        /\ files' = [u \in Uris |-> {h \in CachedFiles : ctx.store[h].uri = u}]
        /\ analysis' = Linked
        /\ publish_diagnostics(diagnostics')
        /\ UNCHANGED <<world, inbox, status, incoming, vfs, workspace, ctx, nodes, cache>>

Analysis ==
    /\ RunsTask("Analysis")
    /\ IF CachedFiles \subseteq Live(ctx)
       THEN Analyse /\ Requeue(<<>>) /\ UNCHANGED dirty
       ELSE Panic("task")

\* Faulty: the timer does not wait for the queue of tasks.
AnalysisTimer_Eager ==
    /\ status = "running"
    /\ dirty
    /\ IF CachedFiles \subseteq Live(ctx)
       THEN Analyse /\ dirty' = FALSE /\ UNCHANGED tasks
       ELSE Panic("task")

\* Faulty: the analysis stays marked as out of date.
AnalysisTimer_StaysDirty ==
    /\ status = "running"
    /\ tasks = <<>> /\ inbox = <<>>
    /\ dirty
    /\ IF CachedFiles \subseteq Live(ctx)
       THEN Analyse /\ UNCHANGED <<dirty, tasks>>
       ELSE Panic("task")

\* The debounce timer is armed while the analysis is out of date, and rearmed
\* by every task and message: it fires when there is neither.
AnalysisTimer ==
    /\ status = "running"
    /\ tasks = <<>> /\ inbox = <<>>
    /\ dirty
    /\ IF CachedFiles \subseteq Live(ctx)
       THEN Analyse /\ dirty' = FALSE /\ UNCHANGED tasks
       ELSE Panic("task")

-----------------------------------------------------------------------------
\* A message is taken only when no task is left: select_biased! tries task_rx
\* first.
Receives(type) ==
    /\ status = "running"
    /\ tasks = <<>>
    /\ inbox # <<>>
    /\ Head(inbox).type = type

handle_did_open_text_document ==
    /\ Receives("open")
    /\ LET msg == Head(inbox)
       IN  /\ vfs' = DidOpen(vfs, msg.uri, msg.text)
           /\ tasks' = <<Task("Update", msg.uri)>>
    /\ inbox' = Tail(inbox)
    /\ UNCHANGED <<world, status, incoming, units, diagnostics, client>>

handle_did_change_text_document ==
    /\ Receives("change")
    /\ LET msg == Head(inbox)
       IN  /\ vfs' = DidChange(vfs, msg.uri, msg.text)
           /\ tasks' = <<Task("Update", msg.uri)>>
    /\ inbox' = Tail(inbox)
    /\ UNCHANGED <<world, status, incoming, units, diagnostics, client>>

handle_did_close_text_document ==
    /\ Receives("close")
    /\ LET msg == Head(inbox)
       IN  /\ vfs' = DidClose(vfs, disk, msg.uri)
           /\ tasks' = <<Task("Update", msg.uri)>>
    /\ inbox' = Tail(inbox)
    /\ UNCHANGED <<world, status, incoming, units, diagnostics, client>>

\* The changed files of one notification, in its order.  A file that cannot be
\* read ends the handler (`update_fs(..)?`); the files after it are not looked
\* at.  An open document is skipped.
handle_did_change_watched_file ==
    /\ Receives("watched")
    /\ LET changes == Head(inbox).uris
           fails(i) == changes[i] # ConfigUri /\ UpdateFails(vfs, disk, changes[i])
           handled == {i \in 1..Len(changes) : \A j \in 1..i : ~fails(j)}
           taken   == {changes[i] : i \in handled} \ {ConfigUri}
           told    == {i \in handled : changes[i] = ConfigUri
                                          \/ ~HoldsDocument(vfs, changes[i])}
           queued  == AtPositions(changes, told)
       IN  /\ vfs' = [u \in Uris |-> IF u \in taken THEN UpdateFs(vfs, disk, u)[u]
                                                    ELSE vfs[u]]
           /\ tasks' = [k \in 1..Len(queued) |->
                           IF queued[k] = ConfigUri THEN Task("ReloadWorkspace", 0)
                                                    ELSE Task("Update", queued[k])]
    /\ inbox' = Tail(inbox)
    /\ UNCHANGED <<world, status, incoming, units, diagnostics, client>>

\* A read-only request about a document (hover, definition, references, ...):
\* position_to_offset takes the text from the vfs, nodes_at_offset and
\* scope_at_offset look up the unit of each file that the index gives for the
\* document, and from there the request follows nodes of the last analysis, any
\* of them, to where they are in the context (node_to_location, hover_for_symbol):
\* a node that was freed since panics.
query ==
    /\ Receives("query")
    /\ LET u == Head(inbox).uri
       IN  IF /\ vfs[u] # NoFile
              /\ files[u] \subseteq Live(ctx)
              /\ \A h \in files[u] : parent_file(ctx, h) \in DOMAIN cache
           THEN \/ /\ inbox' = Tail(inbox)
                   /\ UNCHANGED <<world, status, tasks, incoming, vfs, units,
                                  diagnostics, client>>
                \/ /\ ~(analysis \subseteq Live(nodes))
                   /\ Panic("node")
           ELSE Panic("query")

\* The fpp/reloadWorkspace request: registered, and answered by the task.
reload_request ==
    /\ Receives("reload")
    /\ LET id == Head(inbox).id
       IN  /\ incoming' = incoming \cup {id}
           /\ tasks' = <<[Task("ReloadWorkspace", 0) EXCEPT !.reply = id]>>
    /\ inbox' = Tail(inbox)
    /\ UNCHANGED <<world, status, vfs, units, diagnostics, client>>

\* The shutdown request, answered at once, and the exit notification both end
\* the main loop.
shutdown ==
    /\ Receives("shutdown")
    /\ status' = "stopped"
    /\ inbox' = Tail(inbox)
    /\ UNCHANGED <<world, tasks, incoming, vfs, units, diagnostics, client>>

ServerStep ==
    \/ ReloadWorkspace \/ LoadFullWorkspace \/ LoadLocsFile \/ Response
    \/ Update \/ Reprocess \/ Analysis
    \/ handle_did_open_text_document \/ handle_did_change_text_document
    \/ handle_did_close_text_document \/ handle_did_change_watched_file
    \/ query \/ reload_request \/ shutdown

-----------------------------------------------------------------------------
\* The editor, its user, and the disk.

\* Nothing is under way.
Settled ==
    /\ tasks = <<>> /\ inbox = <<>>
    /\ ~dirty
    /\ unseen = {}

Acts ==
    /\ status = "running"
    /\ events < MaxEvents
    /\ pausing => Settled
    /\ events' = events + 1

Sends(msg) ==
    /\ Len(inbox) < MaxInbox
    /\ inbox' = Append(inbox, msg)

\* An edit of a document, or of its file, from old to new: an editor that is
\* not hurried makes it when all is settled if it changes what is included, and
\* waits for the analysis afterwards.
Edits(old, new) ==
    LET changesIncludes == old = Missing \/ new = Missing \/ old.inc # new.inc
    IN  IF HurriedIncludeEdits THEN UNCHANGED pausing
        ELSE /\ changesIncludes => Settled
             /\ pausing' = changesIncludes

server == <<loop, vfs, units, diagnostics, client>>

EditorOpens(u, t) ==
    /\ Acts /\ docs[u] = Missing /\ Edits(disk[u], t)
    /\ docs' = [docs EXCEPT ![u] = t]
    /\ Sends([type |-> "open", uri |-> u, text |-> t])
    /\ UNCHANGED <<disk, config, unseen, server>>

EditorChanges(u, t) ==
    /\ Acts /\ docs[u] \notin {Missing, t} /\ Edits(docs[u], t)
    /\ docs' = [docs EXCEPT ![u] = t]
    /\ Sends([type |-> "change", uri |-> u, text |-> t])
    /\ UNCHANGED <<disk, config, unseen, server>>

EditorCloses(u) ==
    /\ Acts /\ docs[u] # Missing /\ Edits(docs[u], disk[u])
    /\ docs' = [docs EXCEPT ![u] = Missing]
    /\ Sends([type |-> "close", uri |-> u])
    /\ UNCHANGED <<disk, config, unseen, server>>

\* An editor asks about a position in a text that it shows.
EditorAsks(u) ==
    /\ Acts /\ docs[u] # Missing
    /\ Sends([type |-> "query", uri |-> u])
    /\ UNCHANGED <<disk, config, docs, unseen, pausing, server>>

EditorReloads ==
    /\ Acts
    /\ Sends([type |-> "reload", id |-> events'])
    /\ UNCHANGED <<disk, config, docs, unseen, pausing, server>>

EditorShutsDown ==
    /\ Acts
    /\ Sends([type |-> "shutdown"])
    /\ UNCHANGED <<disk, config, docs, unseen, pausing, server>>

\* A file changes on disk; the watcher will report it.  A file that comes into
\* being is reported as created, which the server does not look at.
DiskChanges(u, t) ==
    /\ Acts
    /\ disk[u] # t
    /\ disk[u] = Missing => DiskFaults
    /\ Edits(disk[u], t)
    /\ disk' = [disk EXCEPT ![u] = t]
    /\ unseen' = IF disk[u] = Missing THEN unseen ELSE unseen \cup {u}
    /\ UNCHANGED <<config, docs, inbox, server>>

\* A deletion is reported too, and not looked at either.
DiskDeletes(u) ==
    /\ DiskFaults
    /\ Acts
    /\ disk[u] # Missing
    /\ disk' = [disk EXCEPT ![u] = Missing]
    /\ UNCHANGED <<config, docs, unseen, pausing, inbox, server>>

ConfigChanges(c) ==
    /\ Acts
    /\ config # c
    /\ config' = c
    /\ unseen' = unseen \cup {ConfigUri}
    /\ UNCHANGED <<disk, docs, pausing, inbox, server>>

WatcherReports(S) ==
    /\ status = "running"
    /\ Batches \/ Cardinality(S) = 1
    /\ \E order \in SetToSeqs(S) : Sends([type |-> "watched", uris |-> order])
    /\ unseen' = unseen \ S
    /\ UNCHANGED <<disk, config, docs, events, pausing, server>>

EditorStep ==
    \/ \E u \in Uris :
          \/ \E t \in TextsOf[u] : EditorOpens(u, t) \/ EditorChanges(u, t)
                                     \/ DiskChanges(u, t)
          \/ EditorCloses(u) \/ EditorAsks(u) \/ DiskDeletes(u)
    \/ \E c \in Configs : ConfigChanges(c)
    \/ EditorReloads \/ EditorShutsDown

Watcher == \E S \in (SUBSET unseen) \ {{}} : WatcherReports(S)

Next == ServerStep \/ AnalysisTimer \/ EditorStep \/ Watcher

\* The main loop never rests while it has a task or a message, the timer fires
\* when it is left alone, and the watcher reports what it has seen.  Nothing
\* makes the editor act.
Fairness == WF_vars(ServerStep) /\ WF_vars(AnalysisTimer) /\ WF_vars(Watcher)

Spec == Init /\ [][Next]_vars /\ Fairness

-----------------------------------------------------------------------------
Message ==
    [type : {"open", "change"}, uri : Uris, text : Text]
    \cup [type : {"close", "query"}, uri : Uris]
    \cup [type : {"watched"}, uris : Seq(Uris \cup {ConfigUri})]
    \cup [type : {"reload"}, id : Nat] \cup [type : {"shutdown"}]

TaskData ==
    [type : {"ReloadWorkspace", "LoadLocsFile", "LoadFullWorkspace", "Analysis"},
     arg : {0}, reply : Nat]
    \cup [type : {"Update"}, arg : Uris, reply : Nat]
    \cup [type : {"Reprocess", "Response"}, arg : Nat, reply : Nat]

Errors == {"syntax", "include", "semantic", "locs"}

TypeOK ==
    /\ disk \in Disk /\ docs \in Disk
    /\ config \in Configs
    /\ unseen \subseteq Uris \cup {ConfigUri}
    /\ events \in Nat /\ pausing \in BOOLEAN
    /\ inbox \in Seq(Message)
    /\ status \in {"running", "stopped", "task", "query", "node"}
    /\ tasks \in Seq(TaskData)
    /\ incoming \subseteq Nat
    /\ vfs \in [Uris -> Entry]
    /\ workspace \in {"none", "locs", "full"}
    /\ Live(ctx) \subseteq Nat /\ ctx.current \in Nat /\ ctx.dropped \in Seq(Nat)
    /\ \A h \in Live(ctx) :
          ctx.store[h] \in [uri : Uris, text : Text, parent : SUBSET Live(ctx)]
    /\ MapOf(nodes, [unit : Nat, kind : {"use", "definition"}])
    /\ DOMAIN cache \subseteq Nat /\ cache \in [DOMAIN cache -> SUBSET Nat]
    /\ files \in [Uris -> SUBSET Nat] /\ analysis \subseteq Nat
    /\ dirty \in BOOLEAN
    /\ diagnostics \subseteq [owner : {"unit", "analysis", "locs"}, unit : Nat,
                              uri : Uris, error : Errors]
    /\ published \subseteq Uris
    /\ shown \in [Uris -> SUBSET Errors]

\* No task makes the server panic, and no request does where it looks up its
\* document: `cache.remove(..).unwrap()` finds its unit, the text is there, and
\* every file handle that is followed is still live.  What remains is a request
\* that follows a node of the last analysis, and only while that analysis is
\* known to be out of date, between a Reprocess and the debounced analysis.
PanicsOnlyOnStaleNodes == status \in {"running", "stopped"} \/ (status = "node" /\ dirty)

\* "Read-only requests are wrapped into `catch_unwind` -- they don't modify the
\* state, so it's OK to recover from their failures" (dispatcher.rs:18), and who
\* "may outlive the nodes they reference" is to look them up with `node_try_get`
\* (context.rs:387): no request that panics where it looks up the text, the files
\* or, between a Reprocess and the debounced analysis, a node ends the server.
QueriesNeverEndTheServer == status \notin {"query", "node"}

\* Between an edit and the analysis the index of files is out of date, and the
\* handles in it may meanwhile stand for other files; yet as long as the edits
\* leave the includes alone each of them still leads to the root of a cached
\* unit: this is what the unwraps of the request handlers and of Update stand on.
IndexReachesCachedRoots ==
    (status = "running" /\ (pausing => Settled)) =>
        \A u \in Uris : \A h \in files[u] :
            h \in Live(ctx) /\ parent_file(ctx, h) \in DOMAIN cache

\* The cached units are apart: no file belongs to two of them, so reprocessing
\* one cannot free a file of another.
UnitsApart ==
    \A r, q \in DOMAIN cache :
        /\ r \in cache[r]
        /\ r # q => cache[r] \cap cache[q] = {}

\* Once everything has come to rest the editor shows exactly the diagnostics of
\* the workspace as the user sees it: the open buffers, and the disk for the
\* rest.
Loaded ==
    /\ workspace = config /\ workspace # "none"
    /\ workspace = "locs" => TrueTexts[LocsUri] # Missing

ViewIsTrueAtRest ==
    (status = "running" /\ Settled /\ Loaded) =>
        \A u \in Uris : shown[u] = ErrorsAt(Diagnosis(workspace, TrueTexts, disk), u)

\* "we send the authoritative set ourselves once analysis finishes" (analysis.rs:99):
\* every push is what the texts the server holds at that moment call for,
\* never the mixture of an analysis with units that were reprocessed since.
PushIsAuthoritative ==
    [][(shown' # shown /\ workspace # "none") =>
          \A u \in Uris :
              shown'[u] = ErrorsAt(Diagnosis(workspace, VfsTexts, disk), u)]_vars

\* The server's documents are the editor's as soon as the notifications about
\* them have arrived, whatever the watcher and the reads do meanwhile.
OpenDocumentsReachTheServer ==
    \A u \in Uris :
        (\A i \in 1..Len(inbox) : inbox[i].type \in {"open", "change", "close"}
                                    => inbox[i].uri # u) =>
            IF docs[u] = Missing THEN ~HoldsDocument(vfs, u)
                                 ELSE vfs[u] = Lsp(docs[u])

\* A server that was told to stop owes no answer: a request that has been
\* taken is answered before the next message is looked at.
StopsWithNothingOwed == status = "stopped" => incoming = {}

\* "The previous task might have put some more tasks on the queue.  We don't want
\* to synchronously respond here since it'll finish early" (global_state.rs:239):
\* the answer is the last thing a request leads to.
AnsweredWhenDone ==
    (tasks # <<>> /\ Head(tasks).type = "Response") => Tail(tasks) = <<>>

\* Work ends: left alone, the server comes to rest (or has stopped).
ComesToRest == ~Settled ~> (Settled \/ status # "running")

\* Reload requests are answered, unless the server ends first.
ReloadsAreAnswered == incoming # {} ~> (incoming = {} \/ status # "running")

=============================================================================
