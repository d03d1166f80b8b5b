# PigTree in TLA+

A verification project for PigTree, a disk-usage scanner for Windows: a scan
worker process walks a directory tree and streams what it observes, an engine
process builds a graph from the stream and serves it over a named pipe, and a
command line and a WPF desktop client talk to the engine.  The modules here
model the engine, its worker, how it is launched, its Rust client, the command line on
top of it, the transport of frames, and the session, view model and tree of the desktop
client; everything is translated from the code under `crates/` and
`src/PigTree/` (paths below are relative to the repository).

## 1. Inventory

### 1.1 Components, state and operations

| Component | Source | State it keeps | Operations | Modelled in |
|---|---|---|---|---|
| Graph builder | `crates/pigtree-engine/src/builder.rs` | entry table, dense flag / sparse id index, first-child, last-child and next-sibling vectors, pending streams, gaps, running totals, terminal record | `ingest_record` (directory, file, special, stream, gap, terminal), `finish` | `GraphBuilder`, `EntryTree` |
| Aggregates and graph | `builder.rs` (`compute_aggregates`), `graph.rs` | objects, unique and referenced bytes, child slices | five phases run by `finish`; `get_children_page` | `GraphAggregates` |
| Scan worker | `crates/pigtree-scan-worker/src/lib.rs`, `main.rs` | directory stack, next id, own totals | `scan_directory`, enumeration, pipe writes, exit code | `ScanPipeline` |
| Scan runner | `crates/pigtree-engine/src/runner.rs` | pipe ends, process and job handles | launch, header, read loop, wait, exit-code check | `ScanPipeline` |
| Observation codec | `crates/pigtree-protocol/src/observation.rs` | read buffer | record framing, torn records, end of stream | record boundaries in `ScanPipeline` |
| Engine command loop | `crates/pigtree-engine/src/main.rs` | settled graph, active scan, cancel handle, pending progress | nine commands, delayed commands, the scan loop, settlement | `EngineServer` |
| Rust client session | `crates/pigtree-ipc/src/client.rs` | pipe, next request id, progress sequence | `ping`, `status`, `get_children`, `cancel_request`, `scan_with_progress_outcome`, `shutdown` | `EngineSession` |
| Launch and handshake | `crates/pigtree-ipc/src/{client,server,bootstrap,job,pipe}.rs` | job object, engine process, holder of the pipe, handshake, channel key | `launch`, `spawn_engine`, `connect`, `accept` | `SessionLaunch` |
| Frame transport | `crates/pigtree-protocol/src/frame.rs`, `pipe.rs`, the three loops of `main.rs`, `FrameCodec.cs`, `App.xaml.cs` | bytes under way, write lock, clock of a partial frame | send, cancel a send, peek, read, exit | `FrameTransport` |
| Command line | `crates/pigtree-cli/src/` | cancellation flag and event, exit code, documents printed | arguments, launch, one verb, settlement | `CommandLine` |
| Desktop session | `src/PigTree/{Ipc,ViewModel,Services}` (C#) | state of the view model, the scan's token, what was read of the pipe, last report | scan, cancel, load root, expand, report, tick | `DesktopSession` |
| Desktop tree | `src/PigTree/Projection/` (C#) | items, flat list, selection, pages | new root, expand, collapse, navigate, page cache | `TreeProjection` |
| Desktop windows | `src/PigTree/` (C#, XAML) | none of its own | columns, text, themes, automation peers | not modelled (exit: `FrameTransport`) |

### 1.2 How they interact

The client sends framed commands; the engine reads one at a time.  A `Scan`
starts a *runner thread*, which launches a *worker process* in a kill-on-close
job, and the main thread polls: progress channel, client pipe, runner.  The
worker writes records to an anonymous pipe; the runner drains it into a
`GraphBuilder` and, at the end of the stream, compares the terminal record with
the exit code.  Cancellation is an event inherited by the worker and set by the
engine's main thread, so it races with every step of the other three.

A client starts its own engine: it creates a kill-on-close job and an inherited
bootstrap pipe with a nonce, spawns the engine suspended, assigns it to the job,
resumes it, connects to the named pipe whose name it passed, compares process ids and
exchanges nonces.  The command line does this once per invocation, calls one verb, and
settles the answer into documents on stdout and an exit code, while a console control
handler on another thread may ask for cancellation at any moment.

### 1.3 What is hard

* the id index changes its representation in the middle of a stream, also on
  account of a record that is then refused;
* worker and reader keep separate totals, one wrapping and one saturating, that
  must be equal at the end;
* the worker may be killed between or inside records, and the pipe may be full,
  when the runner decides what the scan was;
* the runner creates its worker suspended, and any call from there to the resume may
  fail, or the engine die, with the worker in no job yet;
* a Cancel crosses the answer of the scan it was meant for;
* a settled graph must not outlive the start of a later scan;
* the client takes the next frame for its answer without comparing ids;
* the desktop client reads one pipe from the scan call, the load of the root and
  every expansion, with nothing to order them, and sends two Cancels;
* launch can fail, and either process can die, between any two of its calls, and another
  process may get hold of the pipe's name or of its only instance;
* the control handler stores a flag and then sets an event, and the two are looked at in
  different places;
* a cancelled task may cut a frame in the middle while the next sender waits for the
  lock, and the engine must tell a slow frame from one that never comes;
* a page arrives after its row was collapsed away, made anew, or replaced with
  the whole tree.

`PROJECT.json` lists these and the rest as hazards, at their lines.

### 1.4 What makes each part correct

* builder: one tree, an exact index and exact child lists whatever arrives; streams
  under the entries they named; a sealed table whose totals are those of its entries; refusals that leave no
  trace (`EntryTree`);
* aggregates: a directory's unique bytes count each object below it once;
* worker and runner: a returned graph is all the worker saw; honest streams are
  accepted; no orphan worker; the call returns;
* command loop: one answer per request, ordered progress, the right scan
  cancelled, no stale page, no hang, exit after the client is gone;
* client: each call gets its own answer, scan verdicts are sound, calls return;
* launch: an engine runs only inside the job of a living launcher; both peers are who
  they should be;
* command line: one terminal document, rising sequence numbers, an exit code that is
  true, and an end;
* transport: whole frames in order, patience with slow ones, none with cut ones;
* desktop session: Completed means that this scan finished and is the tree shown,
  the last progress reaches the screen, the command always ends;
* desktop tree: the flat list is the expanded tree of the current root, rows and
  cached pages belong to the current scan, nothing waits for a page never asked for.

## 2. Modules

### `GraphBuilder`, `EntryTree`

`GraphBuilder` has one variable per field of the struct and one action per
`ingest_*` method.  `validate_and_insert_entry` is `Verdict` (its checks in
order), `LeavesSequence`/`DenseAfter`/`IndexAfter` (the switch, which precedes
the duplicate and parent checks and so happens for refused records as well),
`LinkUnder`/`LinkRoot` and `Insert`.  Indices are 1-based and `NIL` is 0 where the
code has 0-based indices and `u32::MAX`.  `ingest_stream` keeps each stream with the
index found for it (`Filed`); the id its record named, which the code forgets, stands for
the stream's own data, so that a wrong index can be told from a right one.  A client may go on after an error, as the
public method allows; names, timestamps and attributes are left out.

`EntryTree` is what the builder promises: a tree that grows by leaves, refusals
whose reason can be read off the tree and that change nothing, a seal.
`ImplementsEntryTree` states that `GraphBuilder` implements it, with the tree of
ids as the refinement mapping.

### `ScanPipeline`

Extends `GraphBuilder` with the worker (`w_*`), the pipe and the runner thread
(`r_*`).  Worker program counters follow `scan_directory`: header, second
validation, target check, root, then pop / enumerate / gap / facts, terminal,
flush, exit.  The file system is nondeterministic: any enumeration may succeed,
be partial, fail or be empty.  `Crash` may strike at any step, and during a write
may leave a torn record.  `+=` in the worker wraps (`wrapping_add`,
`wrapping_succ`), the builder saturates.  `flush` waits for the reader (`FlushAndExit`), or
does nothing where the system says that the handle cannot be flushed (`FlushIgnored`).

The launch is one action per call that changes what is there: `CreateWorker` (suspended),
`CreateJob`, `AssignWorker` (`confined`), `ResumeWorker`.  `LaunchFails` is the failure of
any of them, or of what precedes them, with the `TerminateProcess` of its error path.
`CloseJob` ends the worker only if it is in the job.  The other early returns all pass
through `Return`, which drops the read end and the job; `EngineDies` drops both at any
moment, and then nobody is left to terminate a worker that was not assigned.

### `EngineServer`

The command loop with both directions of the pipe as logs (a request's id is its
position).  `idle`, `delay`, and the four places of the scan loop (`drain`, `poll`,
`join`, `closing`) are program counters, so the runner thread and the client
interleave between them.  The runner is reduced to what `ScanPipeline` shows of
it: it makes progress callbacks, returns (`ScanSettles`), and reports Cancelled
only when the event was set (`OkIsComplete`).  Commands that only differ in their
payload (Echo, Health, Version) are represented by Ping.

### `EngineSession`

`EngineServer` with the Rust client in the place of the arbitrary one: one call at
a time, plain calls that take the first frame, the scan call with its sequence
check, cancellation and two-second deadline.

`EngineDies` ends the engine at any moment (a kill, a panic), so the error paths of
the calls are taken as well.  A request that finds the engine gone cannot be sent, and
its call returns at once without a look at the frames that wait: `Begin`, and
`ScanCancelFails` for the Cancel of a scan call (`CancelFails` in `CommandLine`).

### `GraphAggregates`

`compute_aggregates` on the sealed table, one program counter per phase.  The table
is grown as the builder grows it, each entry below an older directory.  Entries are
named by their index instead of their id, and `first_child` and `next_sibling` are
defined from the parents: that ids find their entries and that the links hold the
children in arrival order is what `IndexIsExact` and `ListsAreExact` prove.  The
order of a `HashMap` is a nondeterministic choice (`NormalizeFileObject`).  The
traversal keeps its explicit stack, its union-find with path compression and its
signed deltas; the final cast to u64 truncates (`%`), the other sums saturate.  Left
out: the loop over disconnected components, which finds nothing because the table is
one tree (`TableIsOneTree`), and the streams attached to objects, which enter no sum.
`get_children_page` cuts pages out of the shared slice.

### `DesktopSession`

`EngineServer` with the desktop client.  `vm_state` is the view model's state, `d_pc` the
await at which `ExecuteScanAsync` is: before the request is written (`sending`), at the
head of the read loop (`top`), in a read, back on the UI thread (`returned`), and loading
the root and its children.  `ScanVerdict` is what `StartScanAsync` makes of a frame that is
not fresh progress.  A frame goes to whichever pending read takes it, since
`GetChildrenAsync` compares no id; two pending reads may also split a frame, after which
no read finds the beginning of one (`Tear`).  `UserCancels` sends the scan's Cancel, if the
token's callback is registered by then, and the view model's own one, for an operation
the engine does not know.  `Tick` and `Flush` are the coalescer.  `EngineDies` may strike
at any moment.  The graph of a scan that did not finish may have no root, which
leaves the tree on the screen as it was.  `rows` and `overlapped` are history.

### `TreeProjection`

The flat list of rows (`FlattenedTreeProjection.cs`) and its page cache
(`BoundedPageCache.cs`).  Rows are objects in a heap (`items`), because an expansion
keeps its row over an await while the list goes on changing; `visible` is the list,
`loads` the awaited pages, which arrive in any order or fail.  Only the first page of a
directory is ever shown, as in the code.  Navigation is one action per key; the writes
of the list control to `SelectedItem` are not modelled beyond a click.

### `SessionLaunch`

`launch` of the Rust client (`l_pc`), `main` and `accept` of the engine (`p`), and the one
instance of the named pipe (`pipe`: who holds its client end, or who serves a pipe of
that name).  Every call may fail (`LaunchCallFails`, `EngineDown`), the launcher may die
(`LauncherDies`), and another process may bind the name first, connect first, send
something, read the answer or leave (`Other*`).  `CloseJob` is the last handle of the job
object going away, by `drop` or by the end of its owner.  Nonces, key derivation and
security descriptors are taken as working: a handshake is `valid` exactly when it comes
from the launcher, and the key is named by the process whose nonce went into it.  The
desktop's `LaunchAsync` goes through the same steps in C# and is not modelled apart.

### `CommandLine`

`SessionLaunch` and `EngineSession` under one invocation of `pigtree.exe`.  `x_pc` is the
place in `run()`, `x_out` the documents printed, `ctrl` the control handler.  `Look` and
`Peek` are the two halves of a turn of a call's loop, between which the handler's event
and an answer may both arrive.  Arguments that do not parse, a missing engine binary and
a failed launch are choices.  `DropSession` is the end of `run()` or of the process.
`x_warned` is history: the event was set before the request was sent.

### `FrameTransport`

Bytes from the desktop client to the engine.  Each task's frame goes through `BeginSend`,
`AcquireLock`, `WritePiece` and, if its token is cancelled, `CancelSend`; the lock is
released in each case, so after a cut frame the next one follows in the same pipe.  A
byte is a pair of frame and place, so a mixture of two frames can be told from a frame.
`PeekedEmpty`, `PeekedPartial` and `PeekedError` are `peek_frame_readiness`; where the
header is made of two frames the size it announces may be anything.  `partial_start` is
the clock of the loop the engine is in, `age` the true age of the partial frame.
`BeginExit` and `Dispose` are `DisposeResources`.  Assumed: the checksum tells mixtures of
frames from frames, a peek counts all bytes written, and what was written before a pipe
broke can still be read.  The contents of commands are `EngineServer`'s.

### The proof modules

`GraphBuilderProofs`, `GraphAggregatesProofs`, `ScanPipelineProofs`, `EngineServerProofs`,
`CommandLineProofs`, `DesktopSessionProofs`, `FrameTransportProofs` and
`TreeProjectionProofs` hold the theorems of section 5, each beside the module it is named
for.  They build on one another as the modules do: `ScanPipelineProofs` on the theorems of
the builder, `CommandLineProofs` and `DesktopSessionProofs` on those of the engine.  The
first two parts of `CommandLineProofs` are about the modules `CommandLine` is made of,
`EngineSession` and `SessionLaunch`.

## 3. Runs

| Run | Shows | Bounds, and why they are enough |
|---|---|---|
| `graph_builder` | one tree (`OneTree`), exact child lists (`ChildListsExact`), verdicts that follow from the tree alone (`VerdictFromTree`), accepted totals and gap counts that are those of the table (`SealedTotalsExact`), streams under the one entry their record named (`StreamsAttributed`); the builder implements `EntryTree` (`ImplementsEntryTree`) | four ids of which 0 is never legal and 3 after 1 leaves the sequence, three entries: a root, a directory and a child, a gap in the ids, a duplicate, a missing parent and a switch before or after each of them; a u64::MAX of 2 so that sums reach and pass it; one gap; one stream, filed before or after a switch, under an entry whose position is its id or is not |
| `scan_pipeline` | complete graphs (`OkIsComplete`), honest streams accepted (`HonestStreamAccepted`), no worker running outside the job of a living engine, none left by a call that returned (`NoOrphanWorker`), the scan settles unless its engine dies (`ScanSettles`) | u32::MAX and u64::MAX of 3 and up to five entries, so that ids and totals wrap; a pipe of one record, so that every write can block; one gap; each call of the launch may fail, and worker and engine may die at any step |
| `engine_server` | one answer per request (`AnsweredExactlyOnce`), order of progress (`ProgressOrdered`), the right scan cancelled (`CancelledWhenAsked`), current pages (`PagesAreCurrent`), no hang and an exit with the client (`ReturnsOrLeaves`) | three requests of any verbs: two scans and a page, or a scan, a cancel and anything after; two progress callbacks, so that one can be superseded |
| `engine_session` | answers in step (`InOrderAnswers`), sound scan verdicts (`ScanCallSound`), calls return (`CallsReturn`) | three requests, two callbacks |
| `stale_frame_after_cancel` | the first finding below (`UsableAfterCancelledScan`) | scan, cancel, ping |
| `command_line` | containment (`RunsContained`), agreement of the peers (`PeersAgree`), the contract of stdout (`StdoutContract`), true exit codes (`ExitJustified`), an end (`InvocationEnds`) | every verb; no bound cuts an invocation short, since it sends at most three requests; two progress callbacks |
| `command_line_gaps` | the third finding below (`GapsMeanFinished`) | as `command_line` |
| `graph_aggregates` | unique and referenced bytes (`UniqueExact`, `ReferencedExact`), link evidence judged in any order (`LinksJudged`), known sizes are known (`KnowledgeSound`), pages tile the children (`PagesTile`) | three families of tables. Five entries with two objects and anonymous files, allocations unknown, 1 or 2: links of one object in one directory, in siblings, above one another, and two objects whose common ancestors differ. Four entries of every kind with every pair of link observations in every order and counts below, at and above their number. Four entries with sizes unobserved or in conflict. Every page size; u64::MAX of 6 is below the largest trees, so sums saturate |
| `tree_projection` | the list is the tree and the selection on it (`ListIsTree`), rows are of the current scan (`RowsAreCurrent`), spinners are awaited (`LoadingIsAwaited`), the cache keeps its bound (`CacheBounded`) | a root with three children, of which a page shows a directory and a file; two scans, so four pages compete for a cache of two; up to ten rows are ever made, enough to collapse a row that is loading and make it anew |
| `desktop_session` | Completed is true (`CompletedIsTrue`), the last progress is shown (`LastProgressShown`), rows come from their own scan (`RowsAreOwn`), the command ends (`ScanCommandEnds`) | two scans, any cancellations, one progress callback each, or one row expanded at any moment of behaviours without progress and Cancels, on which rows do not depend; the request bound of 12 is never reached |
| `desktop_cancel_unbounded` | the second finding below (`CancelIsBounded`) | one scan and an engine that may fall silent |
| `frame_transport` | whole frames in order (`DeliveredWhole`), an engine that gives up for a cause (`EndsForCause`) and not late (`PatientNotForever`), an exit that completes (`ExitCompletes`) | four frames of which one is too large, the last sent on exit; header of 2 and checksum of 1 byte, so that a header, a payload and a checksum can each be torn; a limit of two ticks |

Deadlock is not checked in any run: a consumed builder, a settled scan and an
engine that has left are proper ends, and every bound on requests or entries
ends a behaviour too.  That nobody waits for ever is stated by the liveness
properties instead.

### Fairness

* `ScanPipeline`: weak fairness of the worker and of the runner thread: both are
  scheduled by the system and file-system calls return.  A crash, the engine's death, a
  cancellation and a flush that does nothing are never owed.  The pipe's end of stream is part of the runner's
  step, so a runner blocked on a full or empty pipe owes nothing.
* `EngineServer`: weak fairness of the main thread and of the runner's return; the
  latter is `ScanSettles` of `ScanPipeline`.  The client owes nothing.
* `EngineSession`: in addition the client polls while a call is out.  Its deadlines
  and interruptions are not owed, so `CallsReturn` does not rest on them.
* `DesktopSession`: weak fairness of the steps of a call (`ClientFairness`: the thread
  pool and the UI thread run what is ready) and of the engine's steps.  Ticks, torn
  frames, deadlines and the user owe nothing.  `DSpecSilentEngine` drops the engine's
  fairness, since a hung engine is what a deadline is for.
* `CommandLine` (`XFairness`): weak fairness of the command line's own thread, of the
  launcher's and the engine's steps and of the runner's return, and strong fairness of the
  five-second limit of `connect`, which alternates with retries.  An interrupted plain call
  gives up once the event is set.  Ctrl-C, the deadlines of a cancelled scan and of
  `cancel_request`, failures and deaths are never owed.
* `FrameTransport`: weak fairness of the engine's polling, of the end of a delay or scan,
  of time, of the 500 ms token of the frame sent on exit and of the disposal after it.
  Writers and other tokens owe nothing.
* `SessionLaunch`, `GraphAggregates`, `TreeProjection`, `GraphBuilder`: none; they have safety properties only.

## 4. Findings

`stale_frame_after_cancel`: the scan call sends its Cancel while the engine is
already past its last poll.  The client then reads the ScanResponse and returns;
the engine, back in its command loop, answers the Cancel with a CancelResponse
(`main.rs`, idle Cancel); and the next call, which compares no request id, takes
it for its own answer.  A test of the repository
(`crates/pigtree-ipc/tests/lifecycle_tests.rs:463`) expects the engine to be
"immediately healthy and usable without stale frames or extra cancel calls" after
a cancelled scan.

`desktop_cancel_unbounded`: `StartScanAsync` looks at the deadline of a cancelled scan
("Enforce bounded 2-second cancellation settlement timeout",
`src/PigTree/Ipc/EngineClientSession.cs:207`) at the head of its loop only and then
waits for a frame without a token, so with an engine that sends nothing more the
cancelled call never returns and the view model stays in Cancelling.

`command_line_gaps`: a scan that failed with a graph has Partial coverage, and
`settle_scan_response` (`crates/pigtree-cli/src/lib.rs:61`) looks at coverage before it
looks at the outcome, so it exits with 4 and never with 1.  ADR-0003 (line 361) says of exit
code 4 that the operation finished.

Other departures met while modelling, which no run states:

* The view model's second Cancel is for an operation the engine does not know.  Read
  after the scan was settled, it is answered with a CancelResponse, which the load
  of the partial tree takes for its page: the cancelled scan ends as Failed.
  `RowsAreOwn` excludes written Cancels for this reason.
* A worker that is cancelled at its first check reports no root.  The view model then
  says "partial results displayed" above the rows of the scan before (`RootArrives`).
* Selecting the selected row again unmarks it, because the setter of `SelectedItem`
  clears `IsSelected` before it compares (`FlattenedTreeProjection.cs:29`).
* The summary of a scan without files says that the allocated bytes are known, but
  `allocated_size_known` of every directory above a special entry is false
  (`ingest_special`, phase 4); `graph_tests.rs:660` looks at the summary only.
* A Ctrl-C that crosses the end of a scan makes the command line exit with 3 above a
  document that says the scan finished: the call is Cancelled whenever its Cancel was sent
  (`client.rs:550`), whatever the ScanResponse says.
* `shutdown` waits for an answer without a deadline and takes any frame for it; it ends
  because the engine's exit breaks the pipe (`InvocationEnds`).
* Error documents carry no sequence number in ndjson output, so a consumer cannot place
  them by number (`StdoutContract` exempts 0).
* The response of the handshake is awaited without a time limit (`client.rs:95`).
* A ScanResponse above the four-megabyte frame limit could not be sent, and a failed send at
  the end of a command ends the engine; `Answer` has this only for a lost client.

## 5. Proofs

### The builder

`GraphBuilderProofs` holds for every set of ids, sizes and identities and every
bound, from `ConstantsAssumption` (ids and sizes are naturals, None is not one) and
`NoneAssumption` (None is not a terminal record).

* `TypeCorrect`: `Spec => []TypeOK`.
* `StructureCorrect`: `Spec => []StructureInv`, the inductive invariant.
* `IndexIsExact`, `TableIsOneTree`, `ListsAreExact`: the index in use finds exactly the
  entry that carries an id (`IndexExact`, which is proved and not model-checked), and two
  properties of `graph_builder`.
* `VerdictsFollowTree`: an entry is refused for a reason that can be read off the
  tree, whichever representation the index is in.
* `StreamsStayAttributed`: every stream is filed under the one entry whose id its record
  named.
* `BuilderImplementsTree`: `Spec => Tree!Spec`.  The initial states map to the empty
  tree; an accepted entry adds a leaf, a stream and a gap are `Attach` and `Note`, which
  leave the tree alone, and refusals and the terminal record have their own actions.

The properties are not inductive one by one.  `IndexExact` speaks of the lookup
and not of how ids are stored, so `IndexInv` says that ids are unique and that the
index in use represents the table: entry k has id k while dense, and afterwards
the map's domain is exactly the ids.  `OneTree` needs it, because a parent is found by
lookup; `ChildListsExact` needs `OneTree`, because appending behind `last_child` is
right only if children arrive after their parent and ids are unique; `StreamInv`
(each stream kept is under the entry that carries the id it named) rests on the lookup
(`FiledRight`) when it is filed and on unique ids when an entry is added later.  `StructureInv` is
their conjunction, relative to `TypeOK`.  The proof has one step per action;
insertion is split into one lemma per conjunct (`InsertKeepsIndex`,
`InsertKeepsTree`, `InsertKeepsLists`, `InsertKeepsStreams`), and a refused record
only has to keep the representation (`SwitchRepresents`).

`SealedTotalsAreExact` is `SealedTotalsExact`: the counters are those of the table at all
times (`TotalsInv`: `CountsExact`, `SumsExact`, `KnownExact`), and a terminal record still
matches them, since nothing moves them once it is in (`SealMatches`).  It does not say that
there is a root: a terminal record of nothing seals an empty table.  The library's
induction theorems take an operator as a parameter, so the lemmas about sums over the table
are proved by induction from a well-founded order instead: every set of naturals has a least
member, hence none is the least at which such a lemma fails.

### The aggregates

`GraphAggregatesProofs`, for every table of entries, every order of normalisation and every
bound, from `FamiliesAssumption` (a link count is one of the four kinds a record can carry,
sizes and u64::MAX are naturals).

* `KnowledgeInvariant`: `ASpec => []KnowledgeInv`.
* `KnownIsKnown` (`KnowledgeSound`).
* `LinksInvariant`: `ASpec => []LinksInv`, on top of it; `LinksAreJudged` (`LinksJudged`).
* `SumsInvariant`: `ASpec => []SumsInv`, on top of both; `ReferencedIsExact` (`ReferencedExact`).
* `TraversalInvariant`: `ASpec => []TraversalInv`, and `UniqueInvariant`: `ASpec => []UniqueInv`,
  on top of it; `UniqueIsExact` (`UniqueExact`).

A directory's claim to be known is one pass over its children, and `KnowledgeSound` speaks of
everything below it.  The two agree if each directory is summed up after all of its
subdirectories, which is a fact about the traversal two phases earlier.  `StackInv` says that
the stack leads away from the root and that each frame's next child is the first one not yet
visited, `VisitedInv` that the visited entries are those finished and those on the stack,
`PostOrderInv` that an entry is finished once, after all of its children; with an empty stack
every entry is finished.  `SummedUp` then carries the claims up in that order.  What is marked
on the files before the traversal is `FilesJudged`: a file counts as known only if its
allocation was observed and its object, once normalised, is not in conflict.

`LinksInv` says of each file with an identity that its object is recorded exactly if its key
was taken, with the status of the evidence of all its entries.  That the loop over the entries
ends with what the strongest of them says is `ResolvedLinkSpeaks`, by induction over the table
(`UpTo`: a set of numbers that contains 0 and each successor up to n); a conflict
between two Known counts makes the answer of the loop irrelevant (`StatusIsEvidence`).

`SumsInv` says of each directory added up that it holds its own bytes and those of its
children, capped; it stands because no child changes after its directory was reached.  That
this is the sum over everything below (`CappedSumUpTree`) goes up the tree from the leaves
(`FromTheLeaves`): what lies below a directory is the directory and, apart from one another,
what lies below each child (`BelowIsTree`, `SumBelow`), and capping some parts of a sum of
naturals does not show once the whole is capped (`CappedParts`).  The sums are
`MapThenSumSet` of the community modules, which takes the elements in an order of its own;
that any element can be taken out first (`AnyFirst`) is proved by induction over the size
of finite sets (`BySize`), and the rest follows from there.

`UniqueExact` is about Tarjan's offline lowest common ancestors.  `PathInv` says that the
stack is the whole way from the root to its top, `UnionInv` that a finished entry leads up the
tree and never past an entry that is still on the stack, and that the roots of the union-find
are the entries not finished; path compression keeps that (`Compresses`).  So the root that
`find_uf` returns for a finished entry is what that entry and the top of the stack have above
them in common (`RootIsCommon`).  `OccurrenceInv` makes one earlier occurrence enough: of the
directories on the stack, the last occurrence of an object is below all that any other
occurrence is below.  Leaving an entry therefore takes its weight off below exactly those
directories that have another finished entry of its object below them (`TakenOff`), and
`DeltaInv` follows: at any point, what was taken off below a directory is what its finished
entries weigh beyond their objects.  Once everything is finished, the bytes a directory counts are
those of its children, its own and its delta (`DistinctUp`), which is what phase 4 adds
up; no directory counts more than the root (`DistinctGrows`), so nothing wraps and
`net_unique >= 0` holds as long as the root's bytes fit a u64 (`UniqueInv`).

### One scan

`ScanPipelineProofs`, for every tree the worker may find, every pipe capacity and every
width of the counters, from the assumptions of `GraphBuilder` and `PipelineAssumption`
(a pipe holds something, ids cover the worker's counter, there is room for a root, and None
is no outcome).

* `WorkerInvariant`: the worker's counters are of what it observed while they last
  (`WorkerTotals`), its outcome is chosen once for a reason that lasts (`OutcomeInv`), and
  `OrphanInv` says for each place of the runner what there may be of a worker: none before
  `CreateWorker`, one that sleeps or was killed up to `ResumeWorker`, in the job from
  `AssignWorker` on, and none that could still run once the call or the engine has ended.
* `NoWorkerIsLeft`: `NoOrphanWorker`, from the last of these.  The property alone is not
  inductive: that a job which closes ends the worker, and that `LaunchFails` has a worker to
  terminate, depends on the call the launch had come to.  The ways a call ends are one lemma
  (`EndOfCall`), the steps of the launch another (`StartOfCall`).
* `ScanDrivesBuilder`: `PSpec => Spec`, so everything proved of the builder holds in a scan.
* `StreamIsComplete`: `CompletenessInv`.  What the builder has and what is in the pipe add up
  to what the worker observed (`TransitInv`, with functions that count the entries and gaps
  of a stream), and a terminal record is the last thing ever written (`TerminalInv`).
* `GraphIsComplete`: `OkIsComplete`; a graph is only promised at the end of a stream that
  was read whole (`ResultInv`).
* `HonestStreamIsAccepted`: `HonestStreamAccepted`.  What was observed, read or not, is in an
  order the builder takes (`InOrder`: ids count up, parents come before their children), what
  a flushing worker, or one that ended well, wrote last is its terminal record, which has
  arrived or is still the last in the pipe (`LastIsTerminal`; a flush that does nothing leaves
  it there: `DeliveryInv`), and so far the builder refused nothing (`AcceptedInv`).

### The engine's command loop

`EngineServerProofs` holds for every number of requests and pulses, from `ServerAssumption`.
Its invariant `ServerInv` has one part for each promise, as every promise is about the log
of frames sent and needs to know how the log fits the place the loop is at:

* `RequestsAreAnsweredOnce` (`AnsweredExactlyOnce`): `AnswerLog` needs that the command being
  delayed or scanned was read and is not answered (`ActiveIsRead`).
* `ProgressIsOrdered` (`ProgressOrdered`): `PulseLog` bounds every pulse sent by the last one
  sent, and `LastPulseSent` ends a scan's pulses at its answer.
* `CancellationIsAskedFor` (`CancelledWhenAsked`): `CancelLog` traces the handle that is set,
  and the outcome the runner then reports, to a Cancel that was read during this scan.
* `PagesAreOfNewestScan` (`PagesAreCurrent`): `PageLog` says that the settled graph is that
  of the newest scan answered.

That both logs only grow (`LogsGrow`) carries each part through the steps that do not touch
it.

### The session

The first part of `CommandLineProofs` composes that invariant with the Rust client.

* `SessionInvariant`: `SessionInv`.  While no call gave up and no Cancel was sent, the engine
  works on the newest request or on none, and what was not read yet answers the call that
  waits (`OneAtATime`); the sequence number a scan call remembers is that of a pulse it read
  (`LastSeqRead`).
* `CallsGetTheirAnswers` (`InOrderAnswers`), `ScanCallsAreSound` (`ScanCallSound`).
* `EngineKeepsPromises`: the four properties of the command loop hold in a session, where
  the engine may also be killed.  A kill is no step of `EngineServer`, so this does not
  follow from an implementation; `SessionInv` contains `ServerInv`, which a kill keeps.

### The launch and the command line

The parts of `CommandLineProofs` about the launch and about what an invocation implements
hold for every set of verbs and every bound and need no assumption on a constant; the
theorems about a whole invocation rest on `ServerAssumption`.

* `LaunchInvariant`: `LSpec => []LInv`, the inductive invariant.
* `EngineIsContained`, `SessionPeersAgree`: `RunsContained` and `PeersAgree` of every launch.
* `CommandLineImplementsLaunch`: `XSpec => LSpec`.  Every step of an invocation is a step of
  `SessionLaunch` or leaves its variables alone.
* `InvocationContainsEngine`, `InvocationPeersAgree`: the same two properties for
  `CommandLine`, from the implementation.
* `InvocationInvariant`: `InvocationInv`, the session's invariant and that of `run()`.
* `OutputKeepsContract` (`StdoutContract`), `ExitCodesAreJustified` (`ExitJustified`).

Neither of the launch's properties is inductive.  `RunsContained` needs to know that no
process exists before `CreateEngine` and that it is suspended until it is assigned
(`ProcessByStep`).  `PeersAgree` needs to know who holds the pipe: that its instance exists
exactly while the engine that bound it runs (`PipeByProcess`), that nobody takes the
launcher's end over (`PipeByStep`), and that a valid request is only under way from the
launcher, before the one answer to it (`HandshakeByPeer`).  `LInv` is their conjunction with
the type invariant.  What the ends of the two processes do to it is in two lemmas
(`EngineEndKeepsInv`, `LaunchFailureKeepsInv`), cited by the four and five actions that can
end that way; the others are one step each.

An exit code is justified by what happened several calls earlier, so `InvocationInv` keeps
which requests were sent and which call may be open at each place of `run()` (`Position`),
that a cancellation was asked for at the keyboard and nowhere else (`Asked`), that an event
set before the request was sent is seen before any frame (`Warned`), and what the answer a
call returned with says about the engine (`Returns`).  On top of it are the graph that a
finished scan leaves (`GraphKept`), what is on stdout (`OutInv`) and the code that was
decided (`ExitInv`).  A step of an invocation is one of the session's, proved there, and
one of `run()`'s, proved here.

### The desktop client

`DesktopSessionProofs` composes `ServerInv` with the C# client, for every number of scans,
expansions and pulses, frames that may be torn at any overlap and an engine that may die,
from `ServerAssumption` and `ReportAssumption` (None is no report).

* `DesktopInvariant`: `DSpec => []DesktopInv`.
* `CompletedIsOfThisScan` (`CompletedIsTrue`), `ScreenShowsLastProgress`
  (`LastProgressShown`), `RowsComeFromTheirScan` (`RowsAreOwn`).
* `DesktopIsServed`: the four properties of the command loop for this client.

What a frame means to a client that compares few ids depends on the order the engine sends
in, so `DesktopEngine` adds to `ServerInv` that outcomes are sent in the order of their
scans and pulses only of the newest (`ScanLog`), from the part of `StepFrames` that says
which scan a new frame is of.  `Story` is what the command remembers of frames it read.
`ScanStory` follows the answer of a finished scan to the state shown; after it the next page
can only be of the same scan (`PageAfterFinish`), which is what rules out the branch of
`RootArrives` that keeps an old tree.  `ProgressStory` says that the report kept is the
newest one read, and shown once the call is over.

`RowsAreOwn` is about reads that compare nothing, so it needs to know who waits for what.
`QuietStory` holds as long as no Cancel was written, no two reads overlapped and the log of
a dead engine was not read to its end.  `Outstanding` are the requests whose answer was not
read; `Balanced` says there are no more of them than calls that wait, one per row and one
for the command, and `AskedFor` what each of them asked for.  A frame that is read always
retires one of them (`FrameFacts`, `AnswerRetires`), and with a single read pending it is
the one this read waits for, or one for the same tree.  A scan that has not begun to read
while a row's read is pending is the exception `Balanced` allows for: the row may take the
scan's answer.  Progress is answered by nobody, hence `PulsesShown`: where rows were
expanded there is none, and a scan that waits alone takes every pulse for a fresh one
(`ProgressIsFresh`).

### Frames

`FrameTransportProofs`, for frames of any number and sizes and any patience, from
`PayloadsAssumption`, `LimitsAssumption` and `NoneAssumption` (None is neither a time nor the
reason of an exit).

* `TransportInvariant`: `FSpec => []FInv`.
* `FramesArriveWhole` (`DeliveredWhole`), `EngineLeavesForCause` (`EndsForCause`).

`DeliveredWhole` says nothing of bytes under way.  `PipeHolds` does: while the engine reads,
the pipe begins with the first byte of the frame after the last one delivered and ends with
the last byte written, and every byte is followed by the next one of its frame or, where a
frame was cut, by the first one of the frame begun next.  Bytes that are no frame then have a
least place at which they stop being the head frame's, and there a frame was cut
(`BrokenIsTorn`).  `Clock` says that the engine's clock never runs ahead of the age of the
partial frame it is about, so a limit that has passed has passed for one frame.

### The tree projection

`TreeProjectionProofs`, for every tree, page size, cache size and number of scans, from
`ProjectionAssumption` (each directory has a sequence of nodes as children; none of the
theorems needs the children to form a tree).

* `TreeInvariant`: `TSpec => []TInv`.
* `CacheStaysBounded` (`CacheBounded`), `ListRowsAreCurrent` (`RowsAreCurrent`),
  `SpinnersAwait` (`LoadingIsAwaited`).
* `ListShowsPages`: two of the four parts of `ListIsTree`, `SelectionIsListed` and
  `ChildrenAreThePage`.

Rows are listed by position and made by index, so the invariant says for each row where its
parent is (`Nested`): at an earlier position, expanded, one level up, with no row between
them that is less deep; that an expanded row has all its children in the list, in order
(`Listed`); and what an expanded row keeps of its page (`PageRows`), wherever it is.  Collapse
compares levels only, and `Nested` is what makes the rows it cuts those of the subtree
(`ParentLeft`).  `Scans` bounds the scan an awaited page was asked for by its row's scan and
the current one: if the row is still listed the two are the same, which is why a late page
cannot mix scans.  `Awaited` needs that a row whose page is awaited is not expanded, or a
second answer would insert its rows twice.

### Only model-checked

* Liveness: fairness and ENABLED are beyond the prover.
* The other two parts of `ListIsTree`: the equation of the list with the rows that the
  recursive `RowsOf` computes (what a recursive definition computes for every input is
  beyond the prover; `Nested`, `Listed` and `PageRows` say it by positions), and that no
  entry is shown twice, which needs the children to form a tree.
* `PagesTile` of `GraphAggregates`, which rests on the sorted sequences of the community
  modules.

## 6. Not modelled

* Win32 enumeration buffers, handles and volume identity: their outcomes are
  nondeterministic choices of the worker.
* Target validation: a nondeterministic verdict where it is used.
* Byte layouts of records and frames, checksums, JSON text, hashing, key derivation,
  security descriptors, names and timestamps: nothing a property here tells apart.
* Real time: a timeout may elapse at any moment; only `FrameTransport` counts ticks, because
  patience is what it is about.
* Frames from the engine to a client: whole, or torn by two overlapping reads
  (`DesktopSession`).  Frame sequence numbers, which no reader compares.
* `LaunchAsync` of the desktop client: the steps of `SessionLaunch` in C#.  An engine that
  could not be launched (`FallbackEngineSession`).
* Windows, columns, texts, themes and accessibility of the desktop client:
  presentation.

## 7. Plan

1. `GraphBuilder`, `EntryTree`, `GraphBuilderProofs` - written.
2. `ScanPipeline` - written.
3. `EngineServer`, `EngineSession` - written.
4. `GraphAggregates` with `get_children_page` - written; the cursor's text form and
   the streams of objects are left.
5. `DesktopSession`, `TreeProjection` - written.
6. `SessionLaunch`, `CommandLine` with their theorems - written.
7. `FrameTransport` - written.
8. Theorems about the evidence and the sums in `GraphAggregates`, the pipeline, the command
   loop, the session, the invocation, the desktop client, the transport and the projection -
   written.
9. Theorems to add: `PagesTile` of `GraphAggregates`; that no entry is listed twice, from an
   assumption that the children form a tree.
