# metabib: a TLA+ verification project

metabib turns the public artefacts of a book library (SQL dumps, archives of
books, daily updates) into one JSON Lines dataset and into INPX catalogues. Its
commands are

| command | what it does | where |
|---|---|---|
| `fetch` | downloads SQL dumps and update archives | `fetch/` |
| `rollup` | collects update archives into large numbered archives | `rollup/` |
| `cache` | builds a *manifest* (all records) of each archive and of the database | `library/`, `db/`, `fb2/` |
| `merge` | joins the manifests into a dataset | `cmd/metabib/main.go` |
| `inpx ...`, `inspect`, `trace` | export and look at a dataset | `sliceinpx/`, `flibinpx/`, `mhlinpx/`, `cmd/metabib/` |

This directory holds TLA+ modules for the parts in which order, concurrency,
interruption, restarts and stale files decide correctness, TLC configurations for small
instances, and proofs, checked by TLAPS, of every safety property of those runs. Sources are named
relative to the root of the repository. `PROJECT.json` gives for every definition the lines it models,
for every property a mutation of the code that breaks it, and for every hazard the properties that would show it.

## 1. Inventory

**Worker pool (`library/process.go`).** `ProcessDatabase` and `processArchive`
run the same algorithm over batches. *State:* two channels, an errgroup, two
contexts, a map of early results, a record spool, the manifest file. *Actors:* n
workers, a goroutine that waits for them, the consumer, the caller's context.
*Hard:* order of results, full channels, closing channels, who reports which
error, what a deferred call may close. *Correct if* a published manifest holds
every record once and in order; the pool always ends; a failure is reported as
itself and publishes nothing.

**Manifest writer and planning (`library/manifest.go`).** A spool file and the
manifest; a header with times, sizes and MD5 of the source. *Hard:* the source
changes between plan, build and validation. *Correct if* a manifest that is used
describes the source that is there.

**Rollup (`rollup/rollup.go`).** *State:* the archive directory
(`fb2-000001-000900.zip`, at most one `.merging` per lineage), the file
`rollup-state.json`, a hidden work archive. *Operations:* choose, refuse,
finalize an expired archive, copy entries of updates, publish. *Hard:* several
renames, removals and saves that belong together and may be interrupted;
updates that overlap; decisions made by the range in a file's name. *Correct if*
nothing is lost, nothing is stored twice, an archive is finalized exactly when it
should be, and an interrupted run can be repeated.

**Fetch (`fetch/`).** *State:* a partial file and a sidecar for each download, the
published files. *Operations:* list links, select by high-water mark, download
with ranges and retries, validate, publish. *Hard:* a server that changes the file or
does not honour ranges; stops between two writes; a directory whose highest range is
moved by rollup. *Correct if* only whole files of one version are published, and
every update is brought and archived in the end.

**Database (`db/`).** Import of dumps by a group of clients, provenance of an
import, indexes, a repository of queries, and a managed MariaDB process. *Hard:* a
partial import taken for a whole one; shutdown against exit, timeout and kill; a
server that an earlier run left behind. *Correct if* provenance is recorded only of a
whole import, a run uses its own server, and the server's directory outlives it.

**Merge (`cmd/metabib/`, `jsonl/`).** Validates manifests, declares a dataset,
indexes the database records by id and file name, walks the archive manifests,
writes the dataset beside the old one and renames it. *Hard:* colliding file names;
manifests that are replaced between two readings. *Correct if* what is published is
what the reader of datasets accepts, with every entry of its archives.

**INPX commands (`mhlinpx/`, `flibinpx/`, `sliceinpx/`, `internal/inpxutil/`).** Stream
a dataset into an INPX and two files beside it. *Hard:* which entries are books
(volumes, sidecars, scopes), lines whose place counts, authors of one name,
outputs that are filtered in different places and replaced one by one. *Correct if*
every record that is asked for has its lines, once and in its place, and the outputs tell of
the same books.

**The rest** converts data: FB2 parsing, record types, SQL mapping, inspection,
tracing, configuration.

The components meet in files: fetch fills a directory, rollup reads it and
renames what fetch measures its progress by, cache reads the archives rollup
publishes, merge reads the manifests cache publishes, and the INPX commands read the
dataset. Only inside the pool, the import and the managed server do goroutines
share memory.

## 2. Modules

| module | models | kind |
|---|---|---|
| `OrderedBuild` | what building a manifest promises | abstract specification |
| `OrderedPipeline` | the worker pool | detailed, implements `OrderedBuild` |
| `OrderedPipelineProofs` | theorems about `OrderedPipeline` | TLAPS |
| `Rollup` | a lineage's archives over repeated runs | state machine |
| `Library` | fetch's choice of updates, beside `Rollup` | composition |
| `RollupProofs`, `LibraryProofs` | theorems about `Rollup`, and about `Library` | TLAPS |
| `FileDelivery` | what downloading one file promises | abstract specification |
| `Download` | one download over repeated runs, implements it | state machine |
| `DownloadProofs` | theorems about `Download` | TLAPS |
| `CacheCommand` | a run of `cache`, its flags, the clock | shared part |
| `ArchiveCache`, `DatabaseCache` | planning, building, publishing and validating a manifest | state machines |
| `Cache` | the command over both | composition |
| `CacheProofs` | theorems about `Cache` | TLAPS |
| `ImportPool` | the group that imports the dumps | part of the next |
| `ManagedServer` | the managed MariaDB process and the run around it | state machine |
| `ManagedServerProofs` | theorems about `ManagedServer` | TLAPS |
| `AliasIndex` | the index of file names, and the book of a record | operators |
| `Dataset` | how a dataset is written, and what its reader accepts | operators |
| `Merge` | a run of `merge` | state machine |
| `MergeProofs` | theorems about `Merge` and `AliasIndex` | TLAPS |
| `Subsequences` | loops that keep some elements of a slice | operators |
| `ArchiveListing` | which entries of an archive are books | operators |
| `AuthorNames`, `Compilations`, `InpxInput` | what the INPX commands compute of a record | operators |
| `MhlWriter`, `FlibWriter`, `SliceWriter` | the three writers, a record at a time | operators |
| `InpxExport` | a run of an INPX command | state machine |
| `InpxProofs` | theorems about `InpxExport` and the operators under it | TLAPS |
| `MC...` | values for TLC | |

### OrderedPipeline

The consumer's program counter `pc` follows the function: `submit`
(`submitBatches`), `receive` (the `select` of the main loop), `write` (the loop
over `pending`), `wait` (`waitWorkers` on an error path), `join` (after the last
batch), `publish` (`manifestWriter.Close`), `return` and `cleanup` (the deferred
calls), `returned`. A worker is at its first `select`, loading, at its second
`select`, or gone. One action is one channel operation, or the code between two
of them. Channels are sequences of batch numbers with capacity `2 * workers`; a
batch's contents are left out, except that writing a batch without records
does not look at the context (`Hollow`), as in the code.

Both contexts are derived: `ProcessCtxDone` is the caller's end or `cancel()`,
`WorkerCtxDone` adds the first worker error and the return of `Wait`. Where a Go
`select` has several ready cases, each is an enabled action. Loading and writing
may fail at any time, and the caller may interrupt at any time.

`processArchive` differs in what it closes last (the zip reader) and in loading a
batch from the archive; `source` stands for either reader.

### Rollup

`files` is the archive directory, `state` the lineage's entry of the state file,
`job` the locals of a run: what it saw at its start (`seen`, `last`, `merge`), the
entries still to be read (`queue`, a set: `IsNext` says which is read next, as the code sorts
them), the work archive, the room left, the keys copied. A run listed
its directories once, so an update that arrives later is for the next run. `pc` has a
value for every point between two changes on disk: `finalize` and `forget`
(expired period), `plan`, `copy`, `publish` and `remove` (the two halves of
`finishAs`), `save`. `Stop` may happen at each of them: it stands for an error, for a cancelled
context and for a killed process, all of which leave on disk what was
published, and nothing else that a later run reads. `torn` remembers that a run stopped between
two steps that belong together: there the code is documented to refuse and
leave the directory to its owner.

An entry is an id, a format and a number of bytes; the order of entries, the
filtering by `existingEnd`, the keys of the two lineages (`ByName`) and the
reopening of a last archive below the target are the code's. A file carries the
number of bytes that were written to it (the overhead of the zip format is left out).

Three assumptions say what a lineage is given, by the library's site and by what rolled up
before; the code relies on them and cannot check them. `UpdatesAssumption`: a
name's range covers the numbered entries, and, where keys are ids, an update brings nothing below
an id of an earlier one that was not in one before it, since the library numbers its books
upwards and an update repeats books, but does not add old ones. `LibrariesAssumption`:
the first archives are such as rollup leaves, named by their range, without an overlap, and
holding what the updates have below their ends. `SiteAssumption` (in `Library`): the site lists
updates in the order of their ranges. TLC evaluates all three on every run of these modules.

### Download

`part` is the run's partial file, byte by byte, where a byte is the version of the
file it comes from; `meta` is its sidecar; `st` the run's copy of it. Each run has
`--continue` or not (`Open`). With it, `part` and `meta` are the files of the fixed
names (`Named`), and whatever an earlier run left in them is taken up. Without it they have
random names, no other run finds them, and those of the fixed names stay where they
are, in `aside`, until a run with the flag. The server has one of the behaviours the code distinguishes (`Servers`), and may
replace the file at any time. Each way the response can be read is an action:
400, 416, 206 (for all that is left, or less), 200, and no response or a status
that is retried. A body ends with an error (`Cut`), or, if no length was announced, where the
connection is closed, which may be early (`Close`). `Describe` is apart from the truncation that precedes it,
`RemoveMeta` from `RemovePart`, because a process may die in between. Malformed range
headers lead to `restartDownload` as a changed representation does.

`FileDelivery` is what the rest of the program relies on: versions are offered one after
another, and a sound one that was on offer is delivered, whole. It is not older than the
one before, with one exception: bytes of a version are `held`, and that version may be
delivered later although a newer one was delivered meanwhile. What is held was not older
when its bytes came. Under the mapping of `Delivery`, `served` is the version on offer,
`Delivered` the version the published file is of (`Mixture`, which `FileDelivery` never
delivers, if it is of none), and `Held` the version of the partial file of the fixed name;
`Publish` is its `Deliver`, `Replace` its `Offer`, writing or removing that partial file its
`Hold`, and the requests, the sidecar and the interrupted runs are not seen.

### Library

`Library` adds to `Rollup` the directory fetch looks at. The site lists the
updates one by one (`Publish`). A run of fetch takes the highest range there
(`Highest`, `Mark`: updates, and in the layout `together` also finalized and active
archives), selects what is listed above it (`Wanted`) and brings it, one after the other;
`FetchFile` stands for a run of `Download` that succeeds, the `Deliver` of
`FileDelivery`, and sets `arrived`, which rollup reads. `FetchRefused` is the error of `getArchiveHighWater` beside an
active archive that disagrees. `Run` of rollup and `Fetch` interleave freely.

### Cache

One archive and one directory of dumps stand for all; a behaviour caches one of
the two (`selected`), as the halves of `runCache` share nothing but the run. An
archive is a version, which has a time and a scope; dumps are a function from names to
versions. The header of a manifest is kept as the code writes it, and `records`
is what the records were really read from. `LightMatches` (header), `Matches`
(checksum) and `Newer` (file times) are the code's comparisons, and
`ArchiveReady`, `ArchiveVerified`, `DatabaseReady`, `DatabaseVerified` the verdicts
of the validation that `merge` starts with. `pc` has a value between any two
readings of the source: plan, checksum, open, publish. Replacing a source at any of
them is allowed, and only *marked* (`raced`, `taint`), so that a property can name the
cases in which the code cannot know. The database of a run may outlive it
(`Persistent`); tables are dropped and filled one at a time, and what is left by a failed
import stays, with the provenance of before.

### ManagedServer and ImportPool

A run starts a server (`starting`, then `up`), waits until something answers at its
address, imports, records, reads, and closes: admin tool, signal, kill, each
with its timeout. `Answering` is whoever listens on the socket or port: the
run's own server or one left by a run that was killed. `waited` is the status the
goroutine of `startManagedProcess` sends once. `ImportPool` is the group: tasks
are scheduled while there is room, `Schedule` blocks as `g.Go` does, the first
error ends the context, and `ImportError` chooses among the errors as the code does.

### AliasIndex, Dataset, Merge

A file name is a pair of a stem and an extension, or a bare stem; a stem in
`Titles` is not a number. `AddFiles` is `addDatabaseFile` for all names of a record, which do
not affect each other; `IndexFiles` applies it to the records in
their order; `Match` is the choice of a book for an archive record. `ArchiveRecord` and
`DatabaseRecord` give the record of the dataset with its locator, its observations, and the
observations its claims, identities and checksums refer to; `Accepted` is the
reader (`DatasetValues` with its validators). In `Merge` a step is one reading of one file:
validation, the archives' directories for the header, the database manifest twice, each
archive manifest once. Manifests and archives may be replaced between any two.

### INPX

`ArchiveListing` computes the records of an archive from the names in it (a
name is an abstract value; `File` tells its kind, its pair, its volume). `NamedPairs` and
`NumberedPairs` are the two ways in which an entry is found to continue another, and `Listed` what is
left. The code's loops that keep some elements of a slice in their order (`out = append(out, ...)`) are
`Keep` of `Subsequences`, a recursive function on the length of the slice, so that its
properties can be proved.
`InpxInput` gives the records of a dataset in their order and the series, authors and
annotation of each; the writers map the state of a writer and a record to its next state;
`InpxExport` runs one of them over a dataset, record by record, and then replaces the INPX, the
annotations and the compilations, in that order. It runs twice, with a merge in
between, and may stop at any step. `AuthorNames` spans two commands: the groups of namesakes are
those the cache collected from the database, the suffixes those the export makes of
them. An entry the inventory ignores is never a record, so the guards of two of the writers for it
are not repeated.

## 3. Runs

| run | instance | what it shows |
|---|---|---|
| `pipeline` | 2 workers, 0 to 6 batches, one of them without records | types; a published manifest is whole and in order; no send waits or panics; workers never stop short; the cause of an error is reported; the source outlives the workers; the pool ends; it implements `OrderedBuild` |
| `rollup_size` | fetch and rollup, in one directory or two; 4 overlapping updates, 3 first libraries, target 3, two stops | nothing is dropped by the mark, stored twice, misnamed, removed or opened again; finalized archives are full; every update the site lists is archived in the end |
| `rollup_period` | 3 updates, all three policies, clock to 5 with period 2, two stops | no run refuses what runs before it left, unless torn; deadlines stay; an archive is finalized when it is due, and is if runs go on |
| `download` | 4 versions (two of one length, one with a bad checksum, one with a bad deflate stream), 7 kinds of servers, 2 attempts, 2 failures, 2 stops, runs with and without `--continue` in any order | versions are never combined; a file is validated only when it is whole, if its length was announced; it implements `FileDelivery`, so only sound versions are published, and an older one only if a run with `--continue` held it; a refusal of ranges is remembered; the last version is published in the end |
| `cache` | an archive of 3 versions, whose scope changes and whose second version is the oldest; 4 sets of dumps (two of one date, one inconsistent, one short of a table), one change of the dumps, 2 settings, clock to 1, one stop | what is called fresh or verified describes its source; nothing is replaced unasked or by something worse; repeated runs end with a ready manifest |
| `database` | 2 runs, 3 dumps, 2 workers; an external server or a managed one, in a temporary or a kept directory, by socket or port | the directory outlives the server; a run uses its own server; provenance only of a whole import; every run ends |
| `merge` | 2 archives of 2 versions, 3 database manifests, 2 changes, 2 runs | what is published is accepted by its reader; owners of names win; entries are kept |
| `export` | two archives, one of which has 3 entries in every order (FB2 books and a backup; a book, its sidecar and volumes), a root in two spellings and its volume, or a chain of volumes; or the database alone; 3 tools, 3 contents; 2 runs, 1 stop | every entry that is a book told of once, every record that is asked for listed once; lines of `mhl-inpx` in their place; namesakes told apart; outputs that agree |
| `rollup_formats`, `rollup_target`, `download_corrupt`, `merge_archives_only` | small | the findings below |

*Bounds.* Six batches with a window of four make submission stop at the window, results pile up
behind a slow batch, and batches remain to be submitted after the first is written; a
third worker adds no kind of step, and the proof below covers any number. In
`Rollup` the updates overlap at their ends, contain an empty entry and one
without a number, are unsorted, and finalize two archives within one run; two
stops, shared by fetch and rollup, suffice for a stop in the run that follows a stop. The clock
passes two periods, so a deadline is met by an archive that grew and by a new one.
In `Download` two attempts give a retry, two failures a retry that fails, and two
stops two resumed runs, or a complete partial file that two later runs pass by and take up; four short versions have every relation of lengths the code compares.
In `Cache` one replacement is enough to fall at every step of a build, and the
archive's three versions make a later one older than the one before and bring a scope
back; two changes of the dumps were tried once for the invariants. In `ManagedServer`
the second run meets every server the first can leave. In `Merge` two changes
let a manifest differ at each of two readings of one run. In `InpxExport` three
entries give an entry before, between and after the listed ones, a pair of
volumes with a third entry, and a sidecar on both sides of its book; the second
archive is fixed. Volumes pair up by name, by number, both ways, with two roots, or not at all. Instances
hold no archive with a second sidecar; the theorems of section 4 are about any archive.
`MaxBatches`, `MaxClock`, `MaxStops`, `MaxFaults`, `MaxSwitches`, `MaxChanges` and `MaxRuns`
are the only bounds on counters. The deadlock check is off in `database`, `merge` and
`export` only, whose runs are numbered: after the last there is nothing to do.

*Fairness.* In the pool: weak fairness of each worker, of the closing goroutine
and of the consumer: the Go scheduler runs what can run, and a query, a parse or
a write ends, well or badly. Nothing is assumed about the interrupt. In
`Rollup`, `Library` and `Download`: weak fairness of the run as a whole, which means
that the command is run again and takes its steps. In `Cache`: the steps of a run go
on, the clock ticks, and `cache --rebuild` is run again and again (strong
fairness, as other runs take its place); no other run is promised. In
`ManagedServer`: the program goes on, its timers run, and a process that was
killed is gone; a server need obey neither the admin tool nor a signal, and need never
listen. Stops and failing responses are bounded, since an eventual promise
cannot hold if every run is stopped. No fairness makes updates appear or arrive by
themselves, or a source be replaced. `Merge` and `InpxExport` state safety only:
their runs are straight lines of steps that either go on or stop.

*Liveness and `torn`.* `EventuallyArchived` and `OverdueFinalized` exempt a torn
directory: after a stop between renaming and removing, or between renaming and
saving the state, what is left may be a directory that every later run refuses,
by design, until its owner has cleared it. It is not always: a reopened last
archive and the `.merging` made from it can hold the same books, and the next
run then goes on. `torn` stays set in both cases, so the two liveness properties
promise nothing after such a stop. `RefusesOnlyTorn` says that there is no other way into that state.

*What the properties of `Cache` except.* `FreshDescribes` holds for a manifest
that was not built while its archive was replaced: a manifest judged by times
alone then describes the old archive and looks fresh, and only `--check-md5`
shows it (`VerifiedDescribes`, which has no such exception). For the
database it excepts tables left half done by an interrupted import, tables of an
earlier import that a later one had no dump for, and dumps replaced during their
import; `taint` names which.

## 4. What is proved

Eight modules hold theorems. Each proves an inductive invariant for every value of the constants
that the module's named assumptions allow, and from it every invariant and every action
property that a passing run checks of the same specification; only the runs' liveness properties
have no theorem. Every invariant was checked by TLC on a small instance first (that of `InpxProofs`
with its infinite sets cut down to what the instance has). The bounds (`MaxStops`, `MaxFaults`, `MaxChanges`,
`MaxRuns`, `MaxClock`) are any numbers in the theorems: nothing proved depends on how often a run
is stopped, a source replaced, or a command repeated.

| module | theorems for | inductive invariant | assumes |
|---|---|---|---|
| `OrderedPipelineProofs` | all safety properties of `pipeline`; safety of the refinement of `OrderedBuild` | `IInv` | `WorkersAssumption`, `MaxBatchesAssumption` |
| `DownloadProofs` | `NeverCombined`, `ProcessedWhole`, `RefusalRemembered`; the refinement of `FileDelivery` (`ImplementsDelivery`); no older version if all runs have `--continue` or none has (`NeverOlder`) | `IInv` | the five of `Download` |
| `CacheProofs` | `VerifiedDescribes`, `FreshDescribes`, `OnlyImproved` | `IInv` | those of `ArchiveCache`, `DatabaseCache`, `CacheCommand` |
| `MergeProofs` | `PublishedAccepted`, `EntriesKept`, `OwnersWin` | `IInv`; `IndexSound` | those of `Merge` |
| `ManagedServerProofs` | `DirectoryOutlivesServer`, `OwnServer`, `ImportedOrStopped` | `IInv` | `RunsBound`, `PoolAssumption` |
| `RollupProofs` | `DeadlineStays`, `FinalizedWhenDue`, `RefusesOnlyTorn`, and of `Rollup` alone those of the next row | `Base`, `PeriodKept`, `Tidy`, `Sweep` | those of `Rollup` |
| `InpxProofs` | `BooksListed` (`EntriesTold` and `RecordsListed`), `LinesAligned`, `AuthorsToldApart`, `OutputsAgree` | `IInv` | those of `ArchiveListing`, `AuthorNames`, `InpxInput`, `InpxExport` |
| `LibraryProofs` | `RangesTell`, `KeepsArchived`, `FullArchivesStay`, `FinalizedFull`, `StoredOnce`, `NothingDropped` | the same, `Selecting`, `Bringing` | those of `Rollup`, `SiteAssumption` |

### The worker pool

`OrderedPipelineProofs` proves, for every finite non-empty set of workers, every
number of batches and every set of hollow batches, all the safety properties the
run `pipeline` checks, and the safety part of the refinement (`BuildsInOrder`:
initial states map to initial states, and every step to a step of
`OrderedBuild` or a stutter).

The properties are not inductive: that no send blocks, for example, needs to
know how many batches are in flight. The invariant `IInv` says where they are.

* `Types`: types, and the order of the counters `nextBatch <= nextSubmit <=
  totalBatches` with a distance of at most the window.
* `OnePlace`: every batch between the two counters is in at most one of the
  channel `jobs`, a worker's hands, the channel `results` and `pending`, and
  nothing else is there.
* `NoneLost`: if no worker failed, it is in one of them.
* `Flow`: what the consumer knows at each point of its function, among it that
  what was written is the first `nextBatch` batches in order.
* `Ends`: how workers, the closing goroutine and the deferred calls follow each
  other.
* `Causes`: why a context has ended.

From `OnePlace` a counting lemma (`Room`) bounds the batches in both channels, in
hand and held back by the window, which is at most the capacity of each channel:
hence no send waits. From `NoneLost` and `Ends`, a closed and empty `results`
before the last batch contradicts that no worker failed. From
`Causes`, a context error has its cause outside the pool.

### Download

What must be known is of which version the bytes are: the server may have moved on since they
came, so the served version says nothing. `SidecarSound` says it for the sidecar, which outlives the
run: bytes beside a validator are the first of that version, and a file that is called complete
and has the recorded length is whole. It says so of both pairs, the run's and the one put aside.
Where no length is announced, a body that was closed early cannot be told from a whole one:
there `Got` (as `Received` in `ProcessedWhole`) only says that the bytes are the first of one version, and
that such a file is not published rests on the validation. `RequestSound` says the same of the run's copy before a
request is sent, `BodySound` of the response that is copied: it continues what is there with the
same version, up to its end. `Origins` says which servers send validators. The case the proof turns on
is a whole file without a validator whose sidecar describes it: its bytes are of one version, and
only the comparison of lengths (`AllThere`) shows it. `RefusalKept` strengthens `RefusalRemembered`,
which alone does not survive the steps that remove the sidecar.

The refinement (`VersionsDelivered`) needs the order of the versions besides:
an interrupted run may leave an old partial file, and the code compares nothing with the published
file. `InOrder` says how old it can be: what comes from the server is not older than what is
published, so a run without `--continue`, which begins with nothing, publishes nothing
older (`PublishedIsNext`). A run with it may have found bytes that became older while runs without the flag
published; what it publishes is then what was `held`. If all runs have the flag, what is
published was copied from the one partial file, which from then on holds bytes of that version or of
later ones; `NeverOlder` is this case and that of no run having it.

### Cache

`ArchiveManifestSound` orders three versions: the one the checksum was taken of, the one the records
were read from, the one that is there. A checksum of the current version then forces
the records to be current, which is why a verified manifest needs no exception. For
times it says of which version the recorded one is, and that the records are of it unless
the archive was replaced in between (`raced`). `DatabaseManifestSound` and `TablesSound` say the same of
dumps, provenance and tables, one table at a time, unless `taint` names why not.
`ArchiveRunSound` and `DatabaseRunSound` carry it through the steps of a run. The proof needs that
two versions of an archive, or of a dump, have different times (`ArchiveTimes`, `DumpTimes`): with equal
times the code cannot tell them apart, and `FreshDescribes` is false.

### Merge

`StagedSound` says of the dataset that is being written what its reader requires, for the
archives merged so far: the records of each are together, those of one version of its
manifest, ordered after those of the archives before; each observation is named once and refers
to a source of the header. `PlanSound` says which archives are left. `OutputSound` is the same for the
published dataset with nothing left. Sortedness across archives follows from the header's order, and
index bounds from `fits`. That manifests are read at different times from a changing
directory does not disturb it, because each is read once and whole.

`NamesHaveWinners` is about a loop over the records of the second reading. Its invariant,
`IndexSound`, says of the first n records: every name they have is owned or ambiguous, never both, and an
owner wins over all other holders so far; `Wins` is a strict order (`WinsOrder`), so a new winner
also wins over those that lost before. The induction is over the set of the numbers n for which it
holds (`UpTo`), and the same lemma shows that the recursive function of `IndexFiles` exists.

### ManagedServer

`ProcessSound` says that a run has at most one process, none before it starts one, and that its
temporary directory is there from its creation on; then no step can remove the directory
under a living server. `SocketSound` says that a socket in the directory of a run that has
started its server is not that of an earlier server which was listening, since it was
removed before. `PoolSound` says that what was not imported was not scheduled, or the group has an
error, hence that provenance is only recorded of a whole import.

### Rollup, and fetch beside it

The properties of the archive directory are about names and contents at rest; a run violates
most of the reasons for them in between. `Base` says what a run relies on at each step: a file is named
by the ids of what it holds, and holds a key once (`FilesWhole`); what was chosen is
still there (`ChosenThere`, `OldThere`); the mark is the highest end of the directory without the file
that is being published (`MarkHighest`); the work archive's range covers what it holds
and what it still has to copy of the archive it replaces (`WorkNamed`); every entry of
that archive is copied or queued (`Carried`), and none twice (`CopiedOnce`); the room left and the
bytes written make up the target (`RoomKept`). From it follow `RangesTell`, `KeepsArchived` (the old archive
goes only when the new one holds all of it), `FullArchivesStay` and `FinalizedFull`. Three further invariants
rest on it.

* `PeriodKept`: a run under a period policy works with the stored lineage. It gives `DeadlineStays`
  and `FinalizedWhenDue`.
* `Tidy`: unless a run was torn, the archives do not overlap, the active one is last,
  no key is in two, and the state is that of the active one. It gives `RefusesOnlyTorn`.
* `Sweep`: what has arrived up to the mark is archived. It needs that what is above the mark
  was seen in order (`ReadInOrder`), is in the work archive or queued (`Progress`), and
  that what arrives leaves out no earlier update that is not archived already (`Gapless`). It gives
  `NothingDropped`, for lineages whose keys are ids only: where a book may have several formats
  under one id it is false, which is finding 1.

`LibraryProofs` carries all of it over to `Library`: a step of fetch or of the site is one `Rollup`
allows beside its runs (`LibrarySteps`), and what is left to show is `Gapless`, which `Rollup` assumes of
whoever brings updates and which fetch must earn. `Bringing` is the reason it does: before
anything fetch has still to bring there is nothing but what has arrived, what it will
bring as well, or what the archives hold, since fetch selects above the highest range, and
`Sweep` says that what lies below it is archived. So the marks of the two commands,
each measured on files of the other, together drop nothing.

### The INPX commands

What an INPX command writes depends on sequences the code builds in loops, so the proofs begin with
what those loops give: `Keep` by induction over the length of a sequence (`KeepIs`, `KeepConcat`,
`KeepIncreasing`), and from it the records of a dataset. `OneRoot` says that no entry continues
two others, although the groups by name and by number may overlap, and `ListedIs` that the rest is listed
once and in order; `RecordsAre` that the records of a dataset are those of its archives, sorted by archive and
entry, without repetition. `EntriesAreTold` follows, of every archive, with the exception that section 5
tells of.

`AuthorsDiffer` is an induction over the persons of a group: each is given a suffix that nobody before
has. The candidates run out only before the person's own number, which nobody else can be given
(`ChooseFits`, `SuffixesDiffer`). Then it needs that everyone who is listed was a contributor when the
groups were made (`JudgedContribute`), which is false for the books section 5 names.

The inductive invariant of the run, `IInv`, is about three moments.

* While records are read (`Wrote`): `Covered` says that of the first `read` records, those asked for have
  their lines in one part, in the order of their series, and all other records have none. It survives a
  step because further lines are of another record, or a dummy (`CoveredNext`); that two
  records are never taken for one needs the order of `RecordsAre`. `Noted` says that the annotations
  of each archive are those of its listed records so far, in order, in one part each, and `Booked` that the
  books held for compilations are listed. flib-inpx, which closes an archive's folder when the next one begins,
  relies on the archives coming in order (`FlibInv`).
* For mhl-inpx `MhlInv` adds the places: every closed `.inp` has a line for each entry that is not ignored,
  and the open one for those before `place`, the entry after the last record (`AlignedTo`, `Behind`).
* After the last record, and once the outputs are in place (`Finished`, `Published`, `Replaced`): each output
  is what a writer had at the end of the run it is of. A stop between two replacements
  leaves outputs of different runs, but never one beside the INPX that is newer than it.

`RecordsAreListed`, `LinesAreAligned` and `OutputsAreOfOneRun` then follow for the published files.
The assumptions are types only: sequences are sequences, and names, books and persons that are referred to
exist.

### What is model-checked only

* Liveness (`Terminates`, `EventuallyArchived`, `OverdueFinalized`, `LastPublished`, `EventuallyReady`,
  `EventuallyReturns`, and the liveness part of `ImplementsOrderedBuild`): reasoning
  under fairness is beyond the provers.
* What the findings show: these properties are false.

## 5. Findings

1. **A format of a book is lost** (`rollup_formats`, `rollup/rollup.go:831`). In the
   lineage `usr` a book may have several formats with one id. If the target size is
   reached between two of them, the mark becomes that id, and the second format
   is skipped as already finalized, in this run and in every later one. The
   test `TestRunKeepsUSRFormatsForSameBookID` (`rollup/rollup_test.go:253`) wants all
   formats kept, with a target that is never reached.
2. **A reopened archive outgrows the target** (`rollup_target`,
   `rollup/rollup.go:924`). What a reopened last archive holds is not
   deducted from the room of the work archive; the active archive may reach the
   target and stay active, against `README.md:347`. The next run, which counts the
   active archive, finalizes it with the next new entry.
3. **A damaged gzip file is kept as complete** (`download_corrupt`,
   `fetch/fetch.go:527`). With `--continue`, a file whose deflate stream is damaged
   is neither published nor marked invalid, and every later run validates the same bytes
   again, against the comment at `fetch/download.go:195`.

4. **A dataset of archives alone cannot be read** (`merge_archives_only`,
   `cmd/metabib/dataset_record.go:122`). Its header declares no database, but every record
   has the observation that the database does not have it, whose source the
   reader then misses (`jsonl/stream.go:202`). `README.md:644` names this merge as one
   of three uses.

Disagreements that were met and have no run of their own:

* *One directory for fetch and rollup.* `README.md:212` and `README.md:321` describe
  it. Retained updates count as the highest range, an active archive must not lie
  below it, so fetch refuses (`fetch/fetch.go:332`) from the time updates are
  brought until rollup has caught up, and for good if an update that ends with the
  active archive begins later than it. `EventuallyArchived` exempts `FetchRefused`.
* *Compilations of an earlier run.* When a run detects no compilation, nothing
  replaces the file of an earlier run under the same dump date, which
  `README.md:1603` calls current; `OutputsAgree` compares outputs of one run only.
* *A volume of a volume.* Of `book_.rar`, `book1_.rar` and `book1_2.rar` the second is taken for a volume of
  the first, and the third for one of the second: `addNestedVolumeContinuation` looks whether the
  volume is skipped already, not whether its root is (`library/process.go:1506`). The third is told of in the record
  of `book1_.rar` only, which is dropped, against `README.md:543`, by which the root's
  record carries the `volume_entries`. `EntriesTold` leaves out these entries (`Astray`) and no others.
* *Three holders of a name.* Of two deleted books and an active one the active one
  gets the name unless it comes last, when the name is already ambiguous
  (`cmd/metabib/main.go:1105`, against `README.md:816` read strictly).
* *An older file over a newer one.* A run with `--continue` that stops after the last byte and
  before it publishes leaves `.file.part` with a complete sidecar. A run without the flag into the same directory
  publishes a newer version through a random name and leaves both (`fetch/download.go:90`). The
  next run with the flag finds a complete file, asks the server nothing
  (`fetch/download.go:153`) and publishes the older version over the newer one. `README.md:280` says
  that partial files are removed after successful publication; it does not say whose.
  Without the second disjunct of `Deliver` TLC finds this in 23 states of `MCDownload`, which is why
  `FileDelivery` has `held`. A run after that asks the server again.
* *FB2 or not* is judged by the catalogue's type when namesakes are collected
  (`library/process.go:365`) and by the entry's name in an export; `AuthorsToldApart`
  leaves out books for which the two disagree.

## 6. Not modelled, and the plan

Not modelled, because they compute values and keep no state: FB2 parsing, record
types and fingerprints, SQL mapping, the consistency checks of a merge (which add issues to a
record), genres, languages, templates and comments of an INPX, inspection,
configuration. Back-off delays, log messages, verbosity, compression and zip overhead
are left out of the modules above; nothing there decides by them. Not covered
by an instance, though the code allows it: update names whose order is not that of
their numbers; two archives of one base name in one INPX; a nickname that reads like the number of a namesake; a policy changed between
runs; a database whose manifest is stale in `merge`.

Nothing of the plan is left to prove. `Library` takes of a download what `FileDelivery` promises (`FetchFile`
is one `Deliver`); that is how the models are composed, and not a theorem, as `Library` has no
versions of an update.
