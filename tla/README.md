# A TLA+ model of plotjuggler_core

`plotjuggler_core` is the storage and plugin core of PlotJuggler: a columnar
store for time series (`pj_datastore`), a store for large timestamped objects,
a graph of derived series, and the ABI through which plugins feed and read them
(`pj_base`, `pj_plugins`). The modules here model how rows become committed
chunks, how chunks move between engines, how they are read, how columns grow,
how derived series follow their sources, how several threads share the object
store, how plugins write and read through the data hosts, how builtin objects
are encoded, how dialogs talk to the host, and how plugin libraries are loaded,
replaced and kept alive.

Paths below are relative to the repository; `writer.cpp` and the like are under
`pj_datastore/src/`.

## 1. Inventory

| Component | State | Operations | Works with |
|---|---|---|---|
| Write path (`writer.cpp`, `chunk.cpp`) | one open `TopicChunkBuilder` per topic and writer, pending sealed chunks, cached column layout, a process-wide chunk-id counter | `beginRow`/`set`/`finishRow`, `appendScalar`, `appendColumns`, `flush`, `flushAll` | hands chunks to the engine |
| Topic storage and engine (`topic_storage.cpp`, `engine.cpp`) | per topic a deque of sealed chunks, the stored column layout, descriptors; datasets and time domains | `createTopic`, `commitChunks`, `enforceRetention`, `flushTo` | read by queries and the derived engine |
| Column layout (`writer.cpp`, `topic_storage.cpp`) | stored layout, per-writer copies, array expansion counts | `ensureColumn`, `expandArray`, `resolveField` | builders and chunks carry a layout |
| Query and reader (`query.cpp`, `reader.cpp`) | cursors: chunk index, row index, time range | `rangeQuery`, `latestAt`, series cursors and lookups | reads the deque in place |
| Derived engine (`derived_engine.cpp`) | nodes with watermarks and dirty flags, four indexes | add/remove node, `onSourceCommitted`, `scheduleActive`, `recompute_batch` | reads committed chunks, writes through its own `DataWriter` |
| Object store (`object_store.cpp`) | topics, per topic entries, timestamps, bytes, budget; a shared mutex per store and per series | register, push, read, view, evict, budget, `flushTo`, remove, clear | called by several threads |
| Plugin data hosts, scalars (`plugin_data_host.cpp`, `arrow_import.cpp`) | `WriteCore`: topic, field and type caches, a `DataWriter`; the engine it targets | `ensureTopic`, `ensureField`, records, bound records, Arrow streams, `setTarget`, catalog snapshot, series read | drives writers, reads storage |
| Plugin data hosts, objects (`plugin_data_host.cpp`, SDK views in `pj_base/sdk/plugin_data_api.hpp`) | target store per host, fetch contexts of lazy entries | register, push owned and lazy, retarget, look up, list, read | several threads on two object stores |
| Builtin codecs (`pj_base/src/builtin`) | none | `serialize*`, `deserialize*` of fourteen types | plugins, object payloads |
| Dialog protocol (`pj_plugins/dialog_protocol`) | widget data document, host's view of it | setters, getters, events, dispatch, re-read | plugin and host across the ABI |
| Plugin catalog (`pj_plugins/src`) | loaded plugins by family, libraries and their owners | `scanDirectory`, `reload`, load, evict, create and drop instances | files another process changes |
| Encodings (`encoding.cpp`, `column_buffer.cpp`, `buffer.cpp`) | none (pure) | encode at seal, decode at read | used by `seal()` and chunk reads |
| Type registry, colormap registry | schemas by id; name to callback | register, look up | writers; toolboxes |
| Data-source life cycle (`pj_base/sdk`) | source state | start, pause, resume, stop | calls the data hosts |

The tabular store is single-threaded (`pj_datastore/docs/ARCHITECTURE.md` §6): what is
hard there is the *order of calls*: seals that happen between two appends, commits
long after the seal, several writers on one topic, columns that appear between two
rows, an engine that is switched under a plugin, a commit cycle that schedules only
some nodes. The object store is multi-threaded and its difficulty is its two levels
of locks and the ownership of what the plugins put into it. The plugin catalog works
against a directory that changes at any moment. `PROJECT.json` lists the hazards with
their lines.

What makes each part correct:

* write path and engine: committed chunks of a topic are well formed, carry exact
  statistics and follow each other in time; rows are neither lost nor doubled;
  chunk ids are unique; retention and `flushTo` keep all that;
* column layout: a field id, once given, names the same field for ever, and no value is
  stored under another field's name;
* query: cursors and lookups return exactly the rows their definition says;
* derived engine: every transform sees every sample once and in order, and
  incremental evaluation ends where a batch evaluation would;
* object store: no race, no deadlock, all-or-nothing flush, exact retention;
* hosts: what a plugin was told is accepted is stored, once, under its field, in
  the engine it was sent to, and can be read back through the catalog; what a plugin
  lends to the store is given back exactly once and not while it is used;
* codecs: decode after encode is the identity, also for buffers of newer producers,
  and a damaged batch is not taken for a shorter one;
* dialogs: the host sees what the plugin set, the plugin's handler gets what the
  user did, commands are obeyed once;
* plugin catalog: code stays mapped while it can run and no longer, and the catalog
  says what is on disk.

## 2. Modules

| Module | Models | Uses |
|---|---|---|
| `DataEngine` | write path, topic storage, retention, `flushTo` | |
| `TopicLog` | abstract: each topic is a sorted log that grows at its end, expires at its beginning, or moves as a whole | |
| `DataEngineLog` | the refinement `DataEngine` => `TopicLog` | both |
| `SequenceFacts` | lemmas about sequences and induction the proofs share | |
| `DataEngine_proofs` | theorems: types, the order of committed chunks, rows, chunk ids, retention, the refinement of `TopicLog` | `DataEngineLog`, `SequenceFacts` |
| `ColumnLayout` | layouts of one schemaless topic, in the storage, in writers, builders and chunks | |
| `ColumnLayout_proofs` | theorems: handles, chunks, values and arrays of any number of writers | `ColumnLayout`, `SequenceFacts` |
| `Query` | cursors and lookups over the chunks of one topic | |
| `Query_proofs` | theorems: what cursors deliver, what lookups find | `Query`, `SequenceFacts` |
| `DerivedEngine` | graph, scheduling and evaluation of transforms | |
| `DerivedEngine_proofs` | theorems: the graph and its order, the calls of a transform | `DerivedEngine`, `SequenceFacts` |
| `ObjectStore` | the object store with threads and locks | |
| `ObjectStore_proofs` | theorems: one series, locks, races, consistency, retention, flushes, lookup | `ObjectStore`, `SequenceFacts` |
| `WriteHost` | scalar write hosts, Arrow ingest, retargeting, catalog snapshot, series reader | |
| `ObjectHosts` | object write and read hosts and the SDK views over two object stores | |
| `Wire` | protobuf wire format: varints, fixed words, lengths, tags, skipping | |
| `BuiltinObjects`, `BuiltinWriters`, `BuiltinReaders` | the builtin types, their writers and readers | `Wire` |
| `Codec` | an object on its way through a codec, changed on the way | the four above |
| `WidgetProtocol` | setters, getters, events, dispatch and the JSON between them | |
| `Dialog` | the event loop of a dialog | `WidgetProtocol` |
| `PluginRuntime` | plugin catalog, libraries, instances, the directory | |
| `ObjectHosts_proofs` | theorems: handles, reads, fetch contexts | `ObjectHosts`, `SequenceFacts` |
| `PluginRuntime_proofs` | theorems: libraries, entries, the answer of `reload`, catalog and disk | `PluginRuntime`, `SequenceFacts` |
| `MC...` | small instances | |

Definitions named "Slip" in a comment are wrong versions of the definition that
follows them; they are used by no specification and stand for the mistakes the
properties catch.

### DataEngine

`builder[w][t]` is the open builder, `pending[w][t]` the chunks it was sealed into,
`flushed[w][t]` what the caller got from `flush()`/`flushAll()` and has not committed,
`sealed[e][t]` the committed deque. Each operation of `DataWriter` and `DataEngine`
is one action, except the three that loop: `appendColumns` (over builder-sized
pieces), `commitChunks` (over chunks) and the second phase of `flushTo` (over
topics). For these the call and one iteration are separate actions; what is left of
the loop is in `rest`, `queue` and `plan`, and every other action waits until these
are empty (`Idle`), because the engine is single-threaded. A row is its timestamp
and the number it was accepted under. `MinTime` and `MaxTime` are the sentinels of
an empty builder's statistics. Failing calls change nothing and have no action.
A caller commits what one flush gave it before it flushes the same writer again,
as every caller in the repository does.

`accepted`, `rejected` and `evicted` are history: they number rows and remember
which rows `commitChunks` dropped and retention removed.

### ColumnLayout

A column is a path and a type, its field id its position. `cols[w]` is a writer's
cache, `stored` what `TopicStorage` keeps. A row in progress maps columns to the
field the caller meant, so that a value in the wrong column is visible. Any number of
writers may extend the layout. The writers are *in step* (`InStep`) as long as what each has
cached begins the stored layout; two that add columns of their own end this, and what
depends on it says so.
The topic has no schema (`schema_id` 0); for topics with one, the layout starts
from the type tree and grows the same way.

### Query

The chunks of one topic are any sequence `appendSealedChunk` accepts; `hasColumn` is
FALSE for chunks from before the column was added. The binary searches are modelled
as searches (`lower_bound` halves an interval until it is empty), the properties compare
them with plain filters over all rows.

### DerivedEngine

A value is the sequence of source rows it was computed from, which makes a sample
that is processed twice or joined wrongly visible. `got` is the history of calls
of `calculate()` since the last reset. Transforms are external: a `map` emits a
row for every sample, a `diff` none for its first. One run of a node commits one
chunk per output topic: runs longer than `max_chunk_rows` are not modelled, and
chunk ids of several outputs are drawn in output order (the code's order is that
of a hash map; no consumer compares ids of different topics).

### ObjectStore

A call is: start, take the store mutex, look up, take the series mutex, do the work
and release. Lock steps interleave; the work is one step because what it touches
must be protected by then, which `NoRace` checks: it compares what a thread is
reading or writing, in a call or through a view it owns, with what others are
writing. The address order of `flushTo`'s two locks is a constant. A thread that
owns a view makes no other call before it drops it (`Start`): the code does not ask for
that, but a call that needs the view's mutex exclusively would wait for itself. `Setup` and `SetupKeys` give the
topics the stores have when the threads start.

`RetentionExact` compares a series before and after a step: if entries were added (one
by `push`, those of the source by `flushTo`), what is left must be the longest end of
old and new entries together that is within the budget (`Kept`).

### WriteHost

A world is a `WriteCore` (its caches and its `DataWriter`) and the topics of the
engine it targets; each function of `WriteCore` maps a world to a world and an
outcome, and each call of a vtable is one action. Columns are kept as the builder
keeps them, one array per column beside the timestamps, because row appends and bulk
appends fill them differently and only that shows rows that shift against each
other. A flush hands over what `flushAll` gives and `commitChunks` refuses, as it does in
`DataEngine`, a chunk that begins before the last one ends: `RowsConserved` says which
rows may be lost that way and that no other is (section 5, *Late rows*).
A value is the number of the row it came with, 0 is null. A record is refused
for the reasons the code has (unknown topic, other type, older timestamp), after the
columns it made are made. The catalog snapshot and the series reader are operators
over the same state, which `CatalogSeriesExact` compares with the log of accepted
rows.

Assumed of callers: a stream brings every column its topic has (`Fits`), the bound topic
of a parser exists in both engines, as the comment in `setTarget` demands, and hosts are
called from one thread. `HandlesKept` says whether the plugin uses handles from before
`setTarget`. Nothing in the host prevents that, and the guides advise it; the run has
plugins that resolve theirs again (section 5, *Handles from before `setTarget`*).

### ObjectHosts

Store operations are single steps here, which `ObjectStore` justifies, except the
fetch of a lazy entry, which holds the locks of its series and store: operations that
need them wait. A host call on the stream thread loads the atomic target in one step
and enters the store in another. The read host's lookup asks for the ids and then
for one descriptor after the other; the SDK's list asks twice. A fetch context counts
how often it was destroyed; `SdkView` says whether the caller is the SDK's view, which
deletes its box after a failed push, or a plugin on the raw vtable, which leaves that
to the host. Assumed: `clear` ends the sessions that hold handles of the store, and a
parser's bound topic exists in the store it is retargeted to.

### Wire, BuiltinObjects, BuiltinWriters, BuiltinReaders, Codec

A buffer is a sequence of bytes, a reader the bytes it has left, a failed read keeps
what it consumed. Each `serialize` and `deserialize` of the repository is an operator
with the same fields in the same order; strings are short sequences, doubles are
fixed-point numbers. The widths of the 64- and 32-bit words are parameters, so that
the limits of `int64` timestamps are within reach of an instance; conversions between
signed and unsigned keep the width. `Codec` sends one object of each kind and lets the
buffer be cut, extended by unknown fields, on its own level, inside a nested message or
inside a Timestamp, or concatenated with another. The modules go down to bytes because the
properties are about them: what a cut leaves, where a skipped field ends and how a number
near its limit is written are lost in any coarser view. They use recursive operators and
are for TLC only.

### WidgetProtocol, Dialog

A JSON value keeps its type, because getters ask for it (`is_string`,
`is_number_integer`); `dumped` is what writing and parsing does to it: a string that is
not UTF-8 throws, a NaN becomes null. Every setter writes the keys the code writes,
every getter and event reader checks what the code checks, and the dispatch tries the
handlers in the code's order. `Dialog` is the loop around it: events and ticks,
handlers that change the document, do nothing or throw, re-reads that reach the host or
fail. A reaction and an event carry what the other side should see of them. The host
that obeys an accept request is the application's and external. A text that stands for a
number (the nanoseconds of a range slider, the keys of row colours and tooltips) is kept as
what it stands for: the setters write decimals only, and what the getters do with other
texts is not modelled. The name of a widget goes beside its event, unread, and is left out,
so `EventReachesItsHandler` is about the kind of handler; so are the texts of `accept`,
`save_config` and `load_config`. That a plugin forgets its commands once they were read
(`WithoutCommands`) is what `dialog-plugin-guide.md` line 699 tells plugins to do, and
`CommandsDeliveredOnce` rests on it.

### PluginRuntime

What a shared object contains is an image: the vtables it exports, its manifest, its
ABI version and its dialog bit. Scanning inspects the directory in one step and loads
one plugin per step; the files may change between any two steps. The iteration of the
directory may miss files (`Unread`): `scanPluginDsos` skips a subtree it cannot read, and
returns an empty result, not an error, for a directory it cannot open, whose plugins
`reload` then drops. A library and the mtime of its file are read in one step; the code
reads the mtime after the load, and a file that changes in between was replaced while in
use, of which nothing is claimed (`replaced`). `dlopen` returns the
image already mapped under a path; a library is closed when its last owner, a catalog
entry or an instance, lets go. The mtime 0 stands for the default value that the code
uses for "unknown".

## 3. Runs

| Run | Instance | Shows |
|---|---|---|
| `engine` | 2 engines, 2 writers of one topic, 3 rows, chunks of 2, times 0..2, two windows | all of the write path's properties and the refinement of `TopicLog`, with commits in any order and transfers |
| `object_transfer` | 2 threads, 2 stores, 4 calls | races, deadlock, all-or-nothing |
| `object_retention` | 2 threads, 1 store, 2 topics, views, 4 calls | bookkeeping, retention, lookup, races and progress beside views |
| `derived` | 1 source, 3 nodes with one or two outputs, 4 topics, 2 source rows, 1 recompute | indexes, topological order, transform contract, incremental = batch |
| `query` | up to 3 chunks, 4 rows, 3 times | cursors and lookups against their definition, commits between the steps of a cursor |
| `columns` | 1 or 2 writers, 1 field, 1 array of 2, 3 layout calls, 2 rows | chunks and layout agree, values under their field, arrays complete, handles good although layouts part |
| `codecs` | two or more objects of each of 14 types, 8 timestamps, 4 unknown fields (inside Timestamps no varints), every cut of a batch | round trip, forward compatibility, merge, truncation |
| `dialog` | 58 reactions, 22 events, 2 reactions in a row | what was set is seen, events reach their handler, commands once |
| `write_host` | 3 kinds of host, 2 engines, 3 records, 5 streams, 3 rows, 3 other calls | rows conserved unless too late, caches coherent, topics unique, catalog exact |
| `object_hosts` | 2 stores, 2 write hosts, 1 reader, 2 names, 2 datasets, 6 calls, 2 pushes | ownership of fetch contexts, handles, lookup, list |
| `plugin_runtime` | 3 files in 2 of 3 directories, read as a whole, in part or not, 5 images, 6 changes or calls, 4 loads | libraries owned, catalog and disk |
| `lazy_double_free` | as `object_hosts`, through the SDK views | **violation**: the SDK and the host both destroy the context of a refused lazy push |

`engine` lists its type invariant by itself, as that of the theorem `TypeCorrect`; in
the other modules `TypeOK` is a conjunct of the main invariant (`SeriesConsistent`,
`GraphConsistent`, `CursorYieldsRange`, `ChunksMatchLayout`, `RoundTrip`,
`ViewShowsIntent`, `CacheCoherent`, `HandlesNameTheirTopic`, `LoadedWhileOwned`).

**Bounds.** Three rows with chunks of two give a sealed chunk, an open builder and
a boundary between them; three times give before, equal and after. Two writers,
engines, stores and threads are the smallest number with an interleaving; the lock
order matters for two. Three nodes over four topics give chains, diamonds and
a node that waits for two producers; the output names are interchangeable (a symmetry),
and nodes with two inputs and one output take them in one order (`Joins`). Two layout
changes around a row and one more for an array expansion need three calls, and so do two layouts that part: a common column, and one
more by each writer. A topic that two writers use has fewer inputs (`SharedBound`: one row
finished, one type, arrays of 2); with one writer it has all of them. Two reactions are what it takes for one setter to
disturb another. Two pushes fill a series whose budget is one. Six steps of the plugin
run allow a file to be installed, scanned, used, replaced and reloaded, with another
file beside it. `MaxRows`, `MaxCalls`, `MaxPushed`, `MaxPushes`, `MaxSeries`, `MaxNodes`,
`MaxTopics`, `MaxRecomputes`, `MaxSources`, `MaxReactions`, `MaxSteps` and `MaxLibs` bound
what the code does not; they appear only in guards. `SharedBound` and
`Joins` are constraints of their instances.

**Fairness.** Only the object store has liveness. `FairSpec` assumes weak fairness
of each thread's steps (`Progress`): a thread that can continue its call, or drop
the view it owns, eventually does. This is what an operating system that schedules
every runnable thread gives. Mutex fairness is not assumed: calls are bounded, so
no thread can be overtaken for ever. Deadlock checking is off in runs that stop when
their bound on calls is reached, or when a dialog closes; a lock deadlock shows as a
violation of `AllCallsFinish`.

## 4. The finding

The violation run states what comments say, and TLC finds a behaviour of the code that does
otherwise. Further disagreements of code and documents are in section 5.

`lazy_double_free`: `SourceObjectWriteHostView::pushLazy` and its sibling for parsers
allocate a box, pass it to `push_lazy` with a destroy callback, and delete it when the
call fails ("store never took ownership; drop the box"). The host has by then put it
into a `PluginFetchCtx`, whose destructor has called the destroy callback. Any push the
store refuses, an unknown topic or a timestamp before the newest entry, frees the box
twice. With plugins that call the vtable directly the ownership is right
(`object_hosts`).

## 5. Limits of the code that the instances avoid

The passing runs make assumptions about callers, or leave cases out by name. Each of
them is needed: these are behaviours of the code that show when an instance is changed.

* *Late rows.* `beginRow` compares a timestamp only with the open builder. After a flush an
  older row is accepted, and `commitChunks` drops its chunk at the next flush without an
  error, with all the rows the chunk has. `ARCHITECTURE.md` line 205 says that the order is
  enforced at `beginRow`, and the comment in `setTarget` (`plugin_data_host.cpp` line 1741)
  that the flush is there "so no rows are lost". `RowsConserved` shows in `DataEngine` and
  `WriteHost` that no row is lost in any other way; without its exception it fails.
* *Handles from before `setTarget`.* Both plugin guides advise to resolve field handles once
  (`message-parser-guide.md` line 206, `data-source-guide.md` line 628). `setTarget`, at
  every pause and resume, changes the engine under them; a handle is a topic and a number,
  and in the new engine the number is that of whichever field was made there in its turn. If
  that has the same type, the value is stored under it. With `HandlesKept` and two fields
  `RowsConserved` fails.
* *Layouts that part.* Each writer numbers new columns by its own copy of the layout and
  stores the copy as a whole. A second writer takes the first one's column away and gives
  its id to another field (`REQUIREMENTS.md` line 69: "append-only and stable"; `writer.cpp`
  line 598 counts on several writers of a topic). A reader that takes the column number from
  the stored layout then reads the other field's values from the first writer's chunks:
  without `InStep`, `ChunksMatchLayout` and `ArraysComplete` fail. What holds all the same is
  `HandlesStayGood`: no chunk has a value under another field's *name*. And a writer that
  began a row when the topic had no column, and then finds a column another writer made, sets
  it in a builder that does not have it: without `OneLayout`, `ValuesUnderOwnField` fails.
* *Views beside flushes.* A view owns the series mutex and no store mutex; `flushTo` takes
  both store mutexes and no series mutex, because "no concurrent access can occur"
  (`object_store.cpp` line 314). With both in `Ops`, `NoRace` fails. `removeTopic` and `clear`
  free the series under a view in the same way.
* *Equal timestamps.* Transforms are promised calls "strictly in ascending timestamp order"
  (`derived_engine.hpp` lines 36 and 62, `ARCHITECTURE.md` line 140); topics take rows of equal
  timestamps, and SISO nodes pass on each of them. `SequentialContract` is what the code
  keeps: no sample twice and never back in time, strictly only for joining nodes.
* *Unknown varints in a Timestamp.* The handler of `decodeTimestamp` reads a varint before it
  looks at its number and returns false for one it does not know, so that the loop skips
  once more, although `protobuf_wire.hpp` line 301 has handlers that return false leave the
  field to the loop. With a varint in `UnknownInTime`, `UnknownFieldsSkipped` fails: a
  Timestamp of a newer schema is refused or read wrong.
* *Retention of extreme times.* `t_max - retention_window_ns` is computed without overflow;
  with timestamps near the limits of `int64` the code's subtraction would be undefined.
* *Descending batches.* With one in `Batches`, `TopicsInOrder` fails: `appendTimestamps`
  takes `t_max` from the last timestamp, so a chunk with `t_min > t_max` is committed.
* *Equal topic keys.* With two topics of one key, `TopicsInOrder` fails: `createTopic`
  accepts the second, and `flushTo` validates both sources against the destination as
  it was before the first move.
* *Two writers of a derived source.* `UpToDate` fails: the writer that sealed first may
  commit last, and its chunk's id is then below the node's watermark.
* *One output name twice.* `addMimoTransform` looks for the names it is given in
  `registered_output_names`, not in the list itself. With one name twice in a list,
  `GraphConsistent` fails: two topics are created, and only the last is registered.
* *Recomputing a node others read.* `recompute_batch` rewrites the outputs under new
  chunk ids; a SISO reader takes them as new and sees samples again, back in time.
  `SequentialContract` and `UpToDate` leave out nodes below a recomputed one
  (`replayed`) until they are recomputed themselves.
* *Cursors at their end.* One that is kept becomes valid again after a commit; the
  model drops it first.
* *Sparse streams.* An Arrow stream without a column of its topic trips an assertion or,
  in a release build, seals a chunk with a short column.
* *Synthetic timestamps* restart at 0 in every batch, so a second batch is refused or
  dropped (`plugin_data_api.h` line 393 promises monotonic ones).
* *Fixed arrays in schemas.* The host's flattening of a schema gives them no columns,
  the writer's does; the instance's schema has none.
* *Timestamps below the first full second of int64* do not survive a round trip.
* *Cut single objects.* Decoders other than those of the batches take a field they
  could not read for an unknown one; a frame cut inside its data may be accepted.
* *Dialog updates that are not UTF-8*, and changes of a handler that throws, do not reach
  the host; the properties allow the period until the next re-read (`stale`).
* *Folder pickers.* `setFolderPicker` after `setFilePicker` leaves the old filter in the
  document; no folder dialog reads it, and the instance claims nothing about it.
* *Plugins replaced while mapped.* `dlopen` returns the old image, and the catalog shows
  it under the new mtime; `CatalogMatchesDisk` leaves such files out (`replaced`).
* *Directories that cannot be read.* A scan of one finds nothing and reports no error, and
  `reload` drops its plugins. `CatalogMatchesDisk` speaks of scans that reached every file.
* *Plugins whose file vanished as they were loaded* have no mtime, which means "not
  loaded": every later reload loads them again. `OneEntryPerPath` leaves them out
  (`Undated`).

## 6. Proofs

Every theorem holds for every value of the constants that the modules' named
assumptions admit: any number of engines, writers, threads, stores, topics and paths
and any bounds. Where a theorem needs more, the hypothesis is part of its statement.

| Theorem | States | Hypotheses |
|---|---|---|
| `DataEngine_proofs!TypeCorrect` | `TypeOK` | |
| `DataEngine_proofs!CommittedInOrder` | `TopicsInOrder` | `BatchesSorted`, `KeysUnique` |
| `DataEngine_proofs!IdsNeverReused` | `ChunkIdsUnique` | |
| `DataEngine_proofs!NoRowLostOrDoubled` | `RowsConserved` | |
| `DataEngine_proofs!RetentionRespectsWindow` | `RetentionKeepsWindow` | `BatchesSorted`, `KeysUnique` |
| `DataEngine_proofs!EngineImplementsLog` | `ImplementsTopicLog` | `BatchesSorted`, `KeysUnique` |
| `ObjectStore_proofs!Inductive` | the invariant `IndInv` | |
| `ObjectStore_proofs!StoresConsistent` | `SeriesConsistent` | |
| `ObjectStore_proofs!RaceFree` | `NoRace` | `ViewsApart` |
| `ObjectStore_proofs!RetentionIsExactAlways` | `RetentionExact` | |
| `ObjectStore_proofs!FlushesAllOrNothing` | `FlushAllOrNothing` | |
| `ObjectStore_proofs!LookupsAreConsistent` | `LookupsConsistent` | no `flushTo` |
| `ObjectHosts_proofs!HandlesAlwaysNameTheirTopic` | `HandlesNameTheirTopic` | |
| `ObjectHosts_proofs!ReadsAlwaysMissNothing` | `ReadsMissNothing` | |
| `ObjectHosts_proofs!AlwaysDestroyedExactlyOnce` | `DestroyedExactlyOnce` | not `SdkView` |
| `ColumnLayout_proofs!HandlesAlwaysStayGood` | `HandlesStayGood` | |
| `ColumnLayout_proofs!ChunksAlwaysMatchLayout` | `ChunksMatchLayout` | |
| `ColumnLayout_proofs!ValuesAlwaysUnderOwnField` | `ValuesUnderOwnField` | |
| `ColumnLayout_proofs!ArraysAlwaysComplete` | `ArraysComplete` | |
| `DerivedEngine_proofs!GraphAlwaysConsistent` | `GraphConsistent` | `NamesDistinct` |
| `DerivedEngine_proofs!TransformsAlwaysSequential` | `SequentialContract` | `NamesDistinct` |
| `Query_proofs!CursorAlwaysYieldsRange` | `CursorYieldsRange` | |
| `Query_proofs!LookupsAlwaysExact` | `LookupsExact` | |
| `PluginRuntime_proofs!OwnedLibrariesStayLoaded` | `LoadedWhileOwned` | |
| `PluginRuntime_proofs!PathsLoadedOnce` | `OneEntryPerPath` | |
| `PluginRuntime_proofs!ReloadTellsTheTruth` | `ReloadReportsChange` | |
| `PluginRuntime_proofs!CatalogAlwaysMatchesDisk` | `CatalogMatchesDisk` | |

The hypotheses are those the runs use too, and none can be dropped: section 5 has
the behaviours that unsorted batches and shared keys lead to; a view beside an
operation that destroys or moves a series under the store mutex alone is a race; and
of entries with one timestamp `latestAt` finds the last in the series, which after a
flush need not be the last pushed: the destination's own entry may be younger than the
one that was moved behind it. Under `SdkView` the context of a refused push is destroyed
twice (section 4); a list of output names with one name twice leaves a topic no name leads to
(section 5).

### DataEngine: order

`TopicsInOrder` is not inductive: what is committed tomorrow is in builders and
queues today. `OrderInv` adds that builders are never full (`BuilderRoom`), that a
builder's rows are sorted with exact statistics and what `appendColumns` has left
follows them, that all pending, flushed and queued chunks are well formed
(`WritersOK`), and that what `flushTo` validated still holds for the steps it has
yet to execute (`PlanOK`): their sources and destinations are distinct, so one move
cannot disturb another. That last part is where unique keys are used. The order of
chunks follows because `commitChunks` checks it again for each chunk: nothing
about the order of commits is assumed. `RetentionRespectsWindow` follows from the same
invariant: that `enforceRetention` may stop at the first chunk it keeps, and may judge
a chunk by its last timestamp, is true only of chunks in order with exact statistics.

The proof has one lemma per action for `TypeOK` and one per action and part for
`OrderInv`. Lemmas about sequences (append, concatenation, prefix and suffix keep
well-formedness and order) and about nested function updates carry the rest.

### DataEngine: rows and chunk ids

`RowsConserved` counts, which induction over steps does not like. The proof gives every
chunk id and every row a *token* and says where tokens can be: in a builder, a pending,
flushed, queued or committed list, or in the history of refused and evicted rows (the
`Cells`). `TraceInv` says that no two cells share a token (`Apart`), no cell holds one
twice (`Single`), no token is from the future (`Numbered`: ids below the engine's counter,
rows up to the last accepted), and every accepted row is somewhere (`AllKept`). Each
action then moves tokens from one cell to another or makes a new one, and one lemma
about such moves serves them all. `PlanApart` is needed for `flushTo`: a topic moved onto
itself would lose its rows. No hypothesis is needed: rows are conserved even where they
are out of order.

### DataEngine: the refinement

`EngineImplementsLog` maps an engine's topic to the rows of its committed chunks, one
after the other. `Init` maps to the initial log, and every step maps to one of the
abstract steps or to none: a committed chunk appends rows in time order, retention
drops rows from the front, one step of a transfer moves a whole log, all else is
invisible. `LogInv` adds to `OrderInv` that the two topics of a planned move have the
same key. That flattening a sequence of chunks distributes over append, cut and
concatenation is proved from the fold that defines it (`FlattenIsJoin` in
`SequenceFacts`).

### ColumnLayout

All four theorems are about any number of writers, whose layouts may part, so nothing can be
built on the stored layout. `SharedInv` has no relation between writers: a handle is a column
of its own writer's cache with the handle's path, a builder has its writer's cache as its
layout or was made before there was one, a row in progress is described by the cache
(`OwnLayout`), and every row of a pending or committed chunk has its values under their names
in the chunk's own layout (`Placed`). It is inductive because a cache, once it is loaded,
only grows at its end, and is the only layout `resolveField` looks at; what the storage holds
matters at the first load alone. A handle that was looked up in the stored layout would not
survive the other writer. `HandlesAlwaysStayGood` is `SharedInv` read as a property.

`TopicInv` says where things come from (`Origins`): the layout of a pending chunk begins its
writer's cache, that of a committed one some writer's, an element that was expanded is a
column of some writer, and what the storage holds somebody has. Since caches only grow, no
step can undo any of this, and it says nothing about which of the layouts is stored. If all
caches begin the stored layout (`InStep`), chunks and elements are then in it, which is
`ChunksAlwaysMatchLayout` and `ArraysAlwaysComplete`. For values the second part is needed,
`Whole`: as long as at most one writer has a layout (`OneLayout`), a builder has the cache of
its writer as it is now, and every value is inside its chunk. It could only end by a writer
loading a layout under a builder it made without one, and that layout is another writer's
(`LoadsOwn`). One lemma per kind of step carries the actions: `TopicLayoutStep`, after
`sealBeforeLayoutChange`, and `TopicQuietStep`, when nothing is sealed. That `expandArray` adds
exactly the elements that are missing (`NewElementsFacts`) follows from what a fold with a
test picks.

### DerivedEngine: the graph

`GraphInv` is `TypeOK` and `IndexesAgree` with three facts they rest on: the topics of a node
exist (`TopicsExist`), so that a new node's outputs are nobody's inputs and nobody's outputs;
a node reads only what older nodes write (`Older`), which is why there can be no cycle
although the cycle check of `addSisoTransform` never finds one; and what `scheduleActive` has
yet to visit exists (`TodoOK`). `OrderIsTopological` is not part of it: it follows in every
state by an invariant of Kahn's algorithm, `KahnInv`. After k rounds a node's count is the
number of its producers not yet taken, the queue has exactly the nodes whose count is zero,
each once, and of two nodes in it the producer is in front. That the queue does not run dry
early is the argument of the oldest node: of the nodes not in the queue, the one with the
least id waits for a node that is not taken, which is older, hence in the queue and still
to be taken. An index that forgets a removed node, or counts a producer twice, breaks the
second part.

### DerivedEngine: the calls

`SequentialContract` speaks of what a transform was called with; that the next call comes
after depends on what its input topic will hold, which another node writes from what *it*
was called with. `SeqInv` ties the two together. `TopicsInOrder`: in a topic that was not
written from a recomputed one, rows follow each other in time and no two come from the same
source row. `NodesSeq` says of each undisturbed node that its calls were in order, that they
are among the rows of the chunks up to its watermark (`SeenSiso`) or not after its watermark
(`SeenMimo`), and that its outputs hold rows it was called with (`FromGot`). `PendingNew`: the
rows of a sealed chunk are in no topic yet. `ReplayedClosed`: what is written from a replayed
topic is replayed, so that an undisturbed node has undisturbed inputs; for `recompute_batch`
this needs that `withUpstream` computes exactly the nodes a node depends on
(`UpstreamFacts`).

One lemma, `RunSeq`, covers both kinds of run. For a SISO node a
chunk with an id above the watermark is not one of those its calls came from, hence it is
behind them in the topic; one that is skipped (section 5, two writers) loses samples and
repeats none.
For a joining node timestamps above the watermark are new by themselves, and `unique`
removes repetitions only because the common timestamps are sorted. Nothing is assumed about
the order of commits: `commitChunk` drops what comes too late, and `CommitInOrder` shows that
what it accepts stays in order.

### ObjectStore

The invariant `IndInv` ties mutexes to the stages of the threads. `LockInv`: a thread holds
exactly the mutexes its stage needs (`Exclusive`, `SharedBy`), and who holds one
exclusively holds it alone. `StageInv`: the series pointers a call keeps between the
store mutex and the series mutex are still in the store's list, because the store mutex
is held shared until the call ends. `TopicInv`: a series has one home and a key one
series per store. `ContentInv`: deque, timestamps and byte count of each series agree and
no entry is in two series. None of these is inductive alone: content is safe because of
the locks, the locks say which series because of the pointers, and pointers stay valid
because of the locks. `RaceFree` then is a comparison of lock sets. `LookupsAreConsistent`
adds that entries are in push order (`OrderInv`) and proves what the upper bound of a
timestamp finds in such a series.

Proving `RetentionExact` corrected it: an earlier form was false of a flush into a series
with a budget, which no run combines. The code was right.

### ObjectHosts

`IndInv` has one part per kind of fact. `ShapeInv`: ids and keys are distinct in a store, and
series in all of them. `HandleInv`: the id of a handle was given out by its store and names
a topic of its key or none; so does a parser's bound topic in the store that is its
target, and the handle of a push that has loaded its store and not yet entered it. That
ids are never given out twice is why a handle that outlives its topic reaches none rather
than another; `clear` starts the ids again, and is why it must end the sessions. `EntryInv`:
entries are under their topic, through flushes as well, since a flush pairs topics
by key. `ReadInv` says for each step of a lookup or a listing what the reader still knows of
the topics that were there when it began. `BoxInv` and `FreedInv`: a context is in one entry
of one series or with the push it was passed to, and it was destroyed once if it is in
neither. `FetchInv`: a reader that fetches keeps its series and the entry in place.

`DestroyedExactlyOnce` counts owners, which no step changes alone. The proof keeps the
*set* of contexts of each series (`Boxes`) and shows for each store operation which set it
destroys: the evicted prefix of a push, the whole series of a removal, all of a
clear, and for a flush what the destination evicts once the entries are with it. One
lemma (`FreedStep`) then serves every action: the contexts an action destroys are exactly
those that were held before it and are not after.

### PluginRuntime

`IndInv` has the ownership of libraries (`Owned`: a library is mapped exactly if an entry or
an instance owns it, each entry's library is its own), the uniqueness of paths in
what is still to be loaded (`PlanOK`) and in the catalog (`OneEntry`), that a running scan
has nothing left to load that is loaded (`ScanFresh`), that a running reload does not
come back to what it has loaded (`NewStays`), and that so far its answer is true
(`Reported`: no change recorded and the catalog is the one it started from, or a
change and the set of libraries differs). `ReloadReportsChange` alone is not inductive: a
reload that removed an entry and loaded another in its place could by its own statement
be back where it started; `NewStays` and the freshness of library handles exclude it.

`CatalogMatchesDisk` speaks of an idle catalog and needs a second invariant, `MatchInv`, for
the way there. As long as a path's file was not replaced while in use: what is mapped
under it (`MappedCurrent`), planned (`PlanCurrent`) and entered (`EntryCurrent`) is what the
file has, and the mtime of an entry is none later than the file's. Once a scan that reached every
file has begun and no file changes (`InStep`): what is planned and entered is on disk, an entry is up to date or
will be looked at, and each usable plugin has an entry or will be looked at. That `reload`
may skip a file because its mtime is no newer is right only because mtimes grow
(`FilesDated`) and a path with a file has no entry without an mtime. Proving it for all
images made the property more exact: an image that exports several families counts as the
first of those probed.

### Query

Everything is proved about *positions*, pairs of chunk and row in their order (`Before`).
`Enumerates(s, S)` says that a sequence has the positions of a set, each once and in
order; `EnumeratesPrefix` shows that an enumeration is determined by its set, and that
one of the first positions of a set is a prefix of the one of all. So each filter of the
properties becomes a set, and each operation of the code is shown to hit or to go through
that set. From `ChunksInOrder` (chunks have rows, sorted, and none begins before
the one before it ends) timestamps never decrease with the position (`AtInOrder`), which is
what makes the searches right although neighbouring chunks may share a timestamp.

`LowerBoundExact`: if the indices before the one sought are the first ones, the halving
finds their end. Its invariant (`Narrowed`) has the indices below `first` before the one
sought and those from `first + len` on not, and `len` falls in every round, so that n
rounds are enough. `LatestAtExact` and `FindFirstValidLands` apply it twice, to chunks and
to the rows of one.

`QueryInv` is inductive: a cursor that is valid is at a position it was asked for and has
delivered exactly those before it; one at its end has delivered all (`Progress`).
`CursorYieldsRange` alone says the same of sequences and is inductive only with
`ChunksInOrder`, which no step of a cursor checks. Each operation is shown to land on the
first wanted position that is left, or at the end if there is none
(`FindFirstValidLands`, `AdvanceLands`, `SkipToSampleLands`), and `forEachChunk` to deliver all
that is left (`ForEachEnumerates`). A commit adds positions after all others, so what was
before a valid cursor stays what it was; a cursor at its end would miss the new ones, which
is the limit *Cursors at their end*.

### SequenceFacts

The induction theorems of the library take an operator, which the provers cannot
instantiate. `LeastNatural` and `IntervalInduction` are the same principle for a *set* of
numbers, which they can: a statement about all prefixes of a sequence is proved by
collecting the lengths for which it holds. The module has the flattening of
sequences, and the subsequence that a fold with a test picks (`PickedBy`).

### Only model-checked

* Liveness (`AllCallsFinish`) and deadlock: the prover has no reasoning about fairness and
  `ENABLED`.
* What a recursive operator computes for all inputs: the wire format and codecs, the
  flattening of schemas in `WriteHost`.
* `UpToDate` of `DerivedEngine` (that incremental runs equal one batch run) and the properties
  of `WriteHost` and `Dialog`, for which no proof has been written.

## 7. Not modelled, and the plan

Not modelled: column values and encodings (`encoding.cpp`, `column_buffer.cpp`), per-column
statistics, the type registry, datasets' time domains and display offsets, the colormap
registry, the life cycle of data sources, error texts and diagnostics, the Windows and
macOS variants of library loading. They are pure conversions, plain registries, or code
of plugins.

The order in which they are worth adding:

1. `TypeRegistry` (registration, evolution that only appends) and the metadata side
   of `DataEngine`;
2. `Encoding`: constant, run-length and dictionary encoding and validity bitmaps, decode
   after encode over bounded columns, with the choice `seal()` makes;
3. the data-source life cycle, composed with `WriteHost` and `ObjectHosts` (pause and
   resume as the switch of all hosts of a source);
4. errors in the middle of a run of a derived node.
