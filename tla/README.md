# A verification project for vmspect

vmspect is a Rust library and command-line tool that inspects virtual disk
images without booting them: it finds images in directories, opens them
natively or through a `qemu-nbd` child process, detects partitions and the guest
operating system, reads registries and package databases, and reports. This
directory holds TLA+ models of its concurrent and stateful core, the TLC
configurations that check them on small instances, and TLAPS proofs of the
properties that matter most. Paths below are relative to the repository root
(`src/engine/mod.rs` is listed in `PROJECT.json` as `src/src/engine/mod.rs`).

## Inventory

| Part | State | Operations | What makes it correct |
|---|---|---|---|
| Operation slot (`operation.rs`) | one process-wide flag | compare-exchange, guard drop | one batch or scan at a time; the flag is free again after every return |
| Batch engine (`engine/mod.rs`, `inspect_batch`) | queue of paths, outcomes, worker threads | reset, spawn, worker loop, join, sort | no image lost or settled twice, results complete and in order, workers joined on every path |
| Progress (`models/options.rs`) | atomics: counters, percentage, stage, cancelled flag | reset, increment, set, snapshot, cancel | what a poller sees is monotone and true of the running batch |
| Cancellation token | one atomic, linked to the progress | cancel from any thread | never lost, no work starts after it |
| Concurrent processor (`engine/mod.rs`, `process_in_parallel`) | queue, results lock, first error | the same pool with other failure rules | partial results kept, errors surface, returns |
| Single inspection (`run_inspection`) | stage, percentage, backend reads | five stages with a check in front of each | no report with holes, cancellation takes effect |
| NBD permits (`vms/nbd.rs`) | counter, mutex, condition variable | acquire with deadline, drop | exact count, limit respected, no lost wake-up |
| NBD session (`NbdReader`) | child process, socket file or port | open with retries, drop | own child, permit returned on every path, always settles |
| NBD stream (`NbdStream`) | byte stream, request id | handshake, read under a deadline | a late reply is never taken for another one |
| Virtual disk (`vms/stream.rs`) | LRU chunk cache, cursor | read, seek, read_at | delivers the bytes of the disk |
| Discovery (`vms/discovery.rs`) | queue of directories, report | the walk and its options | exact report whatever is unreadable |
| Detector (`vms/detector.rs`) | partition list | MBR, EBR chain, GPT, file systems | exactly the declared partitions, bounded, cancellable |
| Backends (`vms/stream.rs`, `vms/vmdk.rs`) | open files, grain directory and tables | read_range over raw, sparse and extents | the bytes of the virtual disk, zeroes where nothing is stored |
| Opening (`vms/stream.rs`, `verify_image_integrity`, `requires_nbd`) | visited parents, depth | verify, identify, preflight, open | bounded chain, truthful errors, agreement of the three judges |
| Windows parser (`parsers/windows.rs`) | extracted hives, result being built | find the system volume, extract, recover, list, fall back | the registry's programs and tools exactly, every loss told, guesses marked as such |
| Linux parser (`parsers/linux.rs`) | stanza being read, result being built | choose the partition, read release files and dpkg | the installed packages exactly, each with its own fields |
| Command line (`bin/vmspect.rs`) | configuration, exit status | arguments, walk, batch, printing | every image of a directory is answered for when the status is 0 |

How they meet: callers on any thread share an engine; `inspect_batch` and
discovery compete for the operation slot; worker threads share the queue, the
outcomes, the progress and the token with the calling thread, and the progress
and the token with pollers and cancellers; each worker runs a single inspection,
which opens a backend (perhaps an NBD session that takes a process-wide permit),
and its detector and parsers read through `DiskReader` and `VirtualDisk`. The
command line walks a directory, hands the images to `inspect_batch` and prints.

What is hard: the interleavings of those threads on lock-free counters, error
paths that must give back a slot, a permit, a thread or a child process,
deadlines that race late answers, and libraries that panic. `PROJECT.json` lists
each of these hazards at its line, with the properties that cover it.

## Modules

| Module | Models | Actions correspond to |
|---|---|---|
| `EngineOps` | pool size and percentage arithmetic | |
| `WorkPool` | abstract: what a worker pool promises | `Begin`, `Start`, `Settle`, `Lose`, `Halt`, `Return...` |
| `BatchEngine` | slot, `inspect_batch`, progress, cancellation | each atomic access or critical section is one action; `ResetForBatch` is one store of `reset_for_batch`; `FetchAdd` and `StorePercentage` are the two halves of `increment_completed_tasks`; the three cancel actions are the stores of `cancel()` |
| `BatchPool` | the batches of one caller as `WorkPool` sees them: the refinement mapping | |
| `BatchPolling` | adds a poller | the two loads of `snapshot` that the properties tell apart |
| `ConcurrentProcessor` | `process_in_parallel` | the same granularity, with the results lock |
| `Detector` | `detect_with_progress`: tables, file systems, operating system | a read, a look at the token, one entry of the GPT or the MBR, one extended boot record |
| `GuestAnalysis` | what the parsers share: request, result, reads, sort and dedup, `get_inspector` | the choice of the analyser |
| `WindowsGuest` | `WindowsInspector` | a mount, a file, a hive, a subkey, a directory entry |
| `LinuxGuest` | `LinuxInspector` | a superblock, a file, a line of the dpkg database |
| `Inspection` | `run_inspection`, composed with `Detector` and the two analysers | a stage, a check or a read |
| `VmdkOpen` | `verify_image_integrity`, `requires_nbd`, `identify_image`, the preflight of a VMDK, the choice of a backend | one access to the file system; `Remove` is the environment |
| `VmdkExtents` | `DiskReader::read_range` over the native backends, as operators | |
| `NbdPermit` | the permits alone | one evaluation of the acquire loop, the wait, the drop |
| `NbdSession` | permits, child, socket, connection loop, teardown | the branches of the loop and of `Drop`; `Child...` actions are the environment |
| `NbdStream` | handshake, then request and reply, over a byte stream | the deadline may pass before every unit |
| `ChunkCache` | `VirtualDisk`, on the disks of `VmdkExtents` | one pass of the loop is a load (hit, miss or error) and a copy |
| `Discovery` | `list_vms_with_options`, `is_secondary_extent` | a directory, an entry |
| `CommandLine` | `main`, `parse_args_from`, `run_file`, `run_directory`, composed with `Discovery` | an argument, a call of the library, the output |
| `MC...` | instances for TLC | |
| `BatchEngineProofs`, `ConcurrentProcessorProofs`, `NbdProofs` (permits and stream), `NbdSessionProofs`, `ChunkCacheProofs`, `VmdkOpenProofs`, `CommandProofs` (command and inspection) | TLAPS proofs; `WorkPool` holds its own theorem | |

Refinements: `BatchEngine` (the mapping is in `BatchPool`) and `ConcurrentProcessor`
implement `WorkPool`; `NbdSession` implements `NbdPermit`. TLC checks the three on
small instances and TLAPS proves them.

Definitions whose comment begins "Mutant of" are not part of any specification.
Each is a plausible bug, and `PROJECT.json` names the property that catches it
when it takes the place of the definition that follows it.

Abstractions. Paths, images and reports are numbers; an outcome is its index and
whether it is a report, an error or a cancellation. A byte is named by its file
and offset, so that wrong data is told apart from right data. A partition table,
an extended boot record, a descriptor and a sparse header are records of the
fields the code branches on; a path is resolved, its directory left out. A hive
is its state (how `nt_hive` takes it) with the values and subkeys the code asks
for, a dpkg database a sequence of keyed lines, a warning what it is about, a
program's name its place in the order of strings. `Access` and `Mount` are one
call of a file-system crate: it may fail, and once the token is set only the
cache of its view can still serve it. Atomics are
interleaved as sequentially consistent accesses; the code uses Relaxed for the
counters and Acquire/Release for the flags. `fetch_add` is exact under any
ordering, and the properties that compare several atomics from one thread
(`PolledProgress`) are therefore shown for hardware that does not reorder those
accesses. The inspection of an image inside a batch is one step that may fail,
be cancelled or panic; `Inspection` has its stages. `CommandLine` takes
`inspect_batch` by what `batch` and `batch_calls` show of it: reports, errors
and, if inspections panicked, images without either.

## Runs

Runs that pass:

| Run | Shows | Bounds |
|---|---|---|
| `batch` | slot exclusive, workers joined, images and counters exact, results in order and complete save for panics, cancel neither lost nor late | 2 callers, 2 operations each, 2 images, pool cap 2, requests 0 and 3, spawn failures, a panicking image, one canceller |
| `batch_calls` | `inspect_batch` implements `WorkPool`, every call returns, and a poller's view of a batch is monotone and reaches 100% only when every image is settled | 1 caller, 2 batches of up to 2 images, 2 workers, panics, spawn failures, one canceller, one poller |
| `processor` | `process_in_parallel`: results preserved, errors surface, left-over work explained, percentage monotone, implements `WorkPool`, returns | 3 items, 2 workers, errors, panics, spawn failures |
| `nbd_permit` | exact permits, admission, no lost wake-up | 4 sessions, limits 0 (counts as 1) and 2 |
| `nbd_session` | own child, children bounded, interruption means cancellation, implements `NbdPermit` on every error path, every session ends | 5 sessions, of which a behaviour opens those of one group (`Together`): three on one socket path (limits 0, which counts as 1, and 1), one of them beside one on TCP, and two on TCP with the default limit of 2 and two ports; the child of one TCP session ignores the kill and its reads a signal may interrupt |
| `nbd_stream` | replies match, the stream stays in step or stays broken | a good and two bad greetings, exports of 0 and 3 bytes, 4 requests of up to 2 bytes, a length field of 3 values for 2^32 |
| `inspection` | partitions exact, programs, tools and packages exact or their loss told, no report with holes, progress monotone from the first announcement on, cancellation takes effect | disks with GPT (valid, invalid, an offset that wraps), MBR with chains of extended boot records (regular, cyclic, too long), a bare volume and an empty disk; a limit of 3 links for 64; an engine that is fresh, or carries the plan of a batch (2), a counter up to one partition beyond it (`MaxCounted`) and the stage and percentage an earlier inspection ended with; seven Windows disks (second of two volumes, hives clean, dirty, broken, panicking, missing; tools in each place; a fallback with a kernel, a licence or neither), two Linux disks (a database that ends inside a stanza, a larger volume without a system), requests with and without programs, system and SYSTEM hive; five dates about leap years and the ends of centuries |
| `chunk_cache` | bytes of the disk, LRU order, termination | 3 reads or seeks of up to 5 bytes, chunks of 2, cache of 2; six views of a raw, a sparse and two multi-extent disks in sectors of one byte |
| `vmdk_open` | truthful preflight, agreement with `requires_nbd`, termination | 53 file systems of up to five files, six kinds of extension, descriptors that are not UTF-8, lengths empty, short and full, a depth limit of 2 for 32, one file removed meanwhile |
| `command` | exact report of the walk, every image answered for when the status is 0, the command ends | 38 command lines: every exclusion with every depth limit, printed both ways, and wrong, missing and reversed arguments; 5 directories of which any may be unreadable, 6 other entries (one empty, one a secondary extent, one a symbolic link, one whose name is not UTF-8), panicking inspections, an output that is closed half way |

The bounds are the smallest in which the interesting case happens and one step
more: two callers for exclusion, two workers for the races on counters, a second
batch for stale counters, a pool cap below the request, a limit below the number
of sessions, more chunks than the cache holds and a view that is not aligned to
them, grains and extents that a read straddles, chains as long as the limit and
one longer, four requests so that a late reply meets two later ones. Deadlock
checking is off where a model ends when its bounded calls are used up; that calls
do not get stuck is what the liveness properties say. `chunk_cache` checks for
deadlock: its fairness is written without `ENABLED` and rests on it.

`batch` and `nbd_permit` do not list the type invariants: they are proved.

`RoutingAgrees` names the cases in which `verify_image_integrity`,
`requires_nbd` and the native opener disagree. The first calls corrupt what is
then opened natively for a `.raw` or `.img` file that is empty or shorter than
it asks for, for plain files and descriptors with a `.dd`, `.bin` or unknown
extension, for descriptors with the extension `.qcow` or `.qed`, and for VMDK
content under the extension of another format; what it calls sound and
`requires_nbd` calls native is refused only for one of the reasons below or
because a component is missing or damaged. A component is missing, too, when the
descriptor embedded in a sparse image names a file that is not there, although
the image needs no other file: a monolithicSparse image that was renamed is
called sound and native by the first two and refused by the third. (The attempt
to prove `RoutingAgrees` without that case failed on it.) `requires_nbd` promises a native open that is then refused for a `.raw` or `.img`
file with the signature of another format, a disproportionate grain directory,
an embedded descriptor that it reads in part or not at all, and a FLAT extent
without a file; it asks for qemu-nbd where the native opener succeeds for
descriptors with several extents, of type `twoGbMaxExtent...` or with one extent
that is neither FLAT nor ZERO, and for `.dd`, `.bin` and unknown extensions.

Runs that end in a violation, each one a statement of the documentation or of a
comment that the code does not keep (`findings` in `PROJECT.json` quotes them):

| Run | The code |
|---|---|
| `batch_panic` | a panic in one inspection silently loses its image and, with one worker, the rest of the batch |
| `nbd_shared_socket` | two sessions with one `unix_socket` path and a limit above one: one removes the other's live socket and the other reads the wrong image |

`NbdSession` has two sets of sessions as constants: `Stubborn`, whose child does
not die when it is killed (`terminate_and_reap` gives up after its grace period),
and `Signalled`, whose socket reads a signal may interrupt. `ChildrenBounded` and
`InterruptedMeansCancelled` say what they say of the other sessions.
`PrepareTcp` binds a port of the host and gives it back before `qemu-nbd` binds
it, so the host may hand it to a second session; the history variable `doubled`
keeps the sessions to which that happened, and `ServedByOwnChild` is about the
others. Two sessions on TCP, the default, are thus checked in every interleaving
on ports of their own. The exactness of the permit counter in
`NbdSession` follows from `ImplementsPermit` and the theorems of
`NbdProofs`.

Smaller differences between text and code met while modelling, without a run of
their own:

- `models/options.rs:277` and `readme.md:246-250`: a snapshot loads its fields
  one by one, so one that straddles the start of a second batch on the same
  engine may pair one batch's total with the other's count, and the polling loop
  of the readme may stop early. Within one batch `PolledProgress` holds.
- `engine/mod.rs:319-320`: `inspect` and `inspect_background` do not take the
  operation slot and share the progress of their engine, and the detector
  increments `completed_tasks` per partition, so a single inspection beside a
  batch on clones of one engine counts partitions as images.
- `engine/mod.rs:460-461`: `run_inspection` does not reset the progress, so a
  second inspection on one engine takes a poller from stage 4 and 100% back to
  stage 1 and 5%. `Init` has these leftovers, and `ProgressMonotone` excepts that
  one step; with the plan of an earlier batch the percentage of a snapshot comes
  from the counters and does not go back even there.
- `nbd.rs:658-662`: the listener that chose an ephemeral port is dropped before
  `qemu-nbd` binds the port. If the host hands it out again in between, one
  session may connect to the other's `qemu-nbd` (`doubled` above).
- `nbd.rs:396`: the length of a request is cut to 32 bits. The engine reads in
  chunks, far below 4 GiB; `Send` truncates, and the properties are for requests
  that fit (`StreamAssumption`).
- `lib.rs:143`: `read_blocks` (`detector.rs:22`) rewraps the error of a read that
  the token refused, so a cancellation during a detector read is reported as
  `Io` instead of `Cancelled`. `ReadBlocks` models it; the inspection still ends
  without a report (`CancelTakesEffect`).
- `detector.rs:302`: the product of an LBA and 512 wraps in a release build and
  panics in a debug build. `Bytes` wraps.
- `error.rs:30`: a signal that interrupts a socket read of the handshake is
  reported as `Cancelled` (`nbd.rs:744`); hence `Signalled` above.
- `discovery.rs:22` and `bin/vmspect.rs:67`: an excluded path is also compared by
  its last component (`discovery.rs:323`) and excludes every directory of that
  name. `IsExcluded` models the comparison as it is.
- `readme.md:21` speaks of a fallback when the registry is corrupt; a volume whose
  SOFTWARE hive cannot be extracted is answered by `degraded_result` without one
  (`windows.rs:87-94`). The fallback replaces the whole of `guest_info`, tools
  that the SYSTEM hive named included (`windows.rs:107-109`).
- `windows.rs:846`: "deduplicate" compares neighbours by name and version in a
  list sorted by name, so a program listed twice around another version of it
  stays twice (`SortedPrograms`).
- `windows.rs:794`: the edition is whichever of `DisplayVersion` and `ReleaseId`
  the key lists first. A SYSTEM hive that is missing, and cells of a hive that
  are damaged, are passed over without a warning.
- `linux.rs:37-47`: the largest ext partition that can be read is analysed,
  whether or not it holds a system, and nothing warns when it does not.
- `bin/vmspect.rs:323,355,362`: with `--json` a path that is not UTF-8 makes the
  `json!` macro panic (status 101) and the output of the whole directory is
  lost. The status is 0 even if every image failed, "Processed n/m"
  (`bin/vmspect.rs:383-389`) leaves out the images whose inspection panicked, and
  `--quiet-discovery` without `--json` hides unreadable directories.
- `bin/vmspect.rs:365,374-389`: `println!` panics when nobody reads the output
  any more (status 101); for a reader some images have been named by then, which
  `CommandTruthful` permits.
- `discovery.rs:319-328`: symbolic links to images and to directories are passed
  over without a warning (`Special`).
- `discovery.rs:372-373`: `has_vms` says it stops at the first image; it calls
  `list_vms`, which walks everything.

## Fairness

Liveness is checked under weak fairness of the threads of a call that was
started: the operating system schedules them, an inspection, a task or a file
system call ends, a condition-variable wait ends within 50 ms, a deadline passes
(`NbdSession`), a reader that is open is dropped. The command line is one thread
whose calls return (`BatchReturns` is why `inspect_batch` does). Nothing is assumed of the users
(starting calls, cancelling), of `qemu-nbd`, or of which waiter `notify_one`
wakes. `NoLostWakeup` uses neither the deadline nor that permits are ever dropped:
the bounded wait is enough.

## Proofs

Every theorem is for all values of the constants under the named assumptions of
the modules: any set of callers, sessions or file systems, any pool, batch,
chunk and cache size, any depth limit. The assumptions give the constants their
types; beyond that they say that there are finitely many sessions
(`NbdPermit`), that the grains and tables of a sparse disk are not empty, which
`unsupported_reason` ensures (`DiskAssumption` of `ChunkCache`), that a path a link
leads to is not a link itself and that an empty file has no signature (`VmdkOpen`),
that the tree is finite and that following parents from any node leads to the
root (`TreeAssumption` of `Discovery`: among any nodes below the root there is one
whose parent is not among them), that the sector divides the width of an offset
(`DetectorAssumption`), that a request fits the length field (`StreamAssumption`), and
that a partition that starts with an ext or NTFS file
system has contents of the shape that the libraries hand over (`LinuxAssumption`,
`WindowsAssumption`: lists of lines, of values and of keys, and a kernel dated
1970 or later).
TLC evaluates them in the runs. One hypothesis is stronger, and is stated in the
theorem that uses it: `AddressesApart` (`OpenReadersOwnTheirServer`), which is about
sessions that share a socket path and says nothing of sessions on TCP.

`NbdProofs`, permits: types (`PermitTypeOK`), `PermitsAccounted` (the counter is the
number of holders) and `PermitsBounded`. The accounting is inductive with the
types: a step adds or removes one holder and changes the counter by one, so the
saturating subtraction never saturates. The bound rests on it: a session takes a
permit only below its own limit, and the count never grows otherwise.

`NbdSessionProofs`: `SessionInv` says which program counters hold a permit, that
the counter is their number, that a child that dies when killed runs only
between its session's spawn and the drop of its permit, and that whoever is bound
to an address was given it. `ChildrenAreBounded` and
`InterruptionsAreCancellations` follow. `OpenReadersOwnTheirServer` has two halves.
On ports it needs no hypothesis: two sessions that use one port at a time were
handed it twice (`PortsApart`). On paths it adds the hypothesis that sessions
which share one have a limit of one and children that die when killed
(`OneAtATime`): the run `nbd_shared_socket` shows that it is needed.
The bound `Together` is any set of groups, that of all sessions included.
`SessionsImplementPermits` is the refinement of `NbdPermit`, one lemma per group
of steps; with `PermitsAccounted` it gives the exact counter of the sessions.

`NbdProofs`, stream: `StreamInv` has two halves. In step, the stream holds exactly
what the call in progress is still owed. Out of step, every handle in it is older
than the next request, and the handle a call waits for is never at the place
where the call looks. The second half is what makes `RepliesMatch` inductive
after a deadline passed in the middle of a reply.

`BatchEngineProofs`, slot: `SlotExclusive` is not inductive; that the slot is
given back only when no worker runs needs `NotSpawnedYet` (workers beyond
`spawned` have no thread, so that joining the spawned ones joins all), and the
type of an outcome needs `HoldsItem`. Images: `BatchInv` says that the popped
images are an initial segment of the batch (`AccountInv`), each in one hand or
with one outcome; what an idle or exited hand means (`HandsInv`); what a starting
batch has (`ResetInv`). From it `ProgressIsExact`, `ImagesAreAccounted` and
`ResultIsComplete`: as many outcomes as settled images means that no two are of
one image, so the sort puts them in strict order (there is exactly one entry of
every rank), and the split keeps order and entries. `CancellationIsKept` and
`NoInspectionAfterCancel` rest on the token, which is never cleared.
`BatchesImplementPool` shows every step of a caller's batch to be a step of
`WorkPool` or a stutter, and `PoolKeepsPromise` (in `WorkPool`) then gives
`BatchesKeepThePromise`. `PolledProgressHolds` adds the poller: `PollInv` relates
the loads of a snapshot to counters that grow while the batch lasts.

`ConcurrentProcessorProofs`: `ProcessorInv` is the same accounting with the
verdict of each task and the results lock. `ResultsArePreserved` uses the rank
argument for the sort; `PercentageNeverFalls` uses that the percentage is stored
under the lock in the order of the counts; `ErrorsSurface`,
`LeftoversAreExplained`, and the refinement of `WorkPool` with what it transfers.

`ChunkCacheProofs`: `CacheInv` says that the history of uses determines the cache
(entry p is the chunk used p-th last), `ReadInv` that what was copied is a prefix
of what was asked for. Both rest on `DriverIsFaithful`: `DiskReader` delivers the
bytes of the disk on every range within it, be it a raw file, a sparse VMDK or the
extents of a descriptor. For the loops of `read_at` and `read_from_extents`, which
are recursive functions, the proof names the function that they must be (the bytes
of the disk from here to the end of the range), shows that it satisfies the
recursion, and that two functions that do agree at the start (`SameAtStart`, by a
least counterexample). The grain loop rests on a pass staying within one grain, the
extent loop on every position lying in exactly one extent (`Covered`); a descriptor
that declares no sectors, extents of length zero, files that end early and a
capacity less than the extent's sectors are cases of the proof.

`VmdkOpenProofs`: `WalkInv` says that the walk stands at the ancestor of its
depth, that the files before it were there with their extents and are different
ones, and that `visited` holds their canonical paths. What `Ancestor`, a recursive
function, is for every depth comes from the existence of a least counterexample
(`Least`), by which induction over the naturals can be done here.
`PreflightIsTruthful` follows; removals make no true answer false because what
the properties say of the beginning is said of the files before any removal.
`RouteInv` keeps what each of the three judges has seen of the image while nothing
is removed, and gives `JudgesDisagreeOnlyThere` by cases over the image's layout.

`CommandProofs`, command: `WalkInv` says that what is queued was not handled and is
above nothing that was, that all of it can be got to, and that an image that can
be got to was found or lies below something queued. `Above`, which the reference
walks up, is defined by well-founded recursion on the tree; `AboveIs` shows from
the tree's assumption alone that it satisfies its equation. `DiscoveryIsExact` is
`WalkInv` with an empty queue. `CommandInv` carries it through the arguments, the
batch and the output to `CommandsAreTruthful`.

`CommandProofs`, inspection. `ReportsAreWhole`: the analysers swallow refused reads,
so the invariant (`WholeInv`) says that a refusal leaves the token set and that the
last stage is announced only with the token clear. `ProgressNeverGoesBack`
(`ProgressInv`): at each place the stage and the percentage lie between two bounds,
and the bounds follow each other in the order of the stages from the first
announcement on, whatever the engine carried before; with the plan of an
earlier batch the percentage follows the partition counter, whose quotient grows.
`CancelledGivesNoReport` is the safety half of `CancelTakesEffect`: the last look at
the token is still to come, or it has been met. `PartitionsAreExact`
(`DetectorInv`): the partitions in front of the current entry are those that the
entries in front of it declare, the record being read is where the chain leads in
as many links, and a chain that comes back or reaches the limit has reached all it
ever reaches; behind the table, the partitions in front of the current one have
their file system and the others none.

`CommandProofs`, list of programs: `sort_by` and `dedup_by` are modelled by what they
keep. `SortIs` says that the sort gives the same entries in the order of their
keys, `DedupIs` that every entry stays or one like it does, and that no neighbours
are alike. `PackagesAreExact` (`LinuxInv`): the list in front of a line of the status
file is that of the stanzas that ended before it (`InstalledUpTo`), and the stanza
being read is what the lines since its first one say (`Begins`); that exactly one
run of lines ends at a blank line, or at the end of the file, closes the step.
`RegistryIsExact` (`RegistryInv`): at each place of the analyser, SOFTWARE was opened
and the information is its own with a warning if it had to be recovered
(`SoftwareOpened`), or it was not, which a warning tells (`Lost`); at a key, the programs are
those of the keys in front of it (`AtKey`); what comes from folders says so. The date
of the fallback rests on `CivilIs`: `civil_from_days` gives, for every day since 1970,
the date whose day number it is. The year of the era comes from bounds on its
quotients, the leap years in front of a year from a least counterexample
(`LeapsAre`), the month from the days in front of each.

Every invariant of the runs is thus a theorem, and so are the action properties
and the three refinements. Model-checked only is liveness (`BatchReturns`,
`CallReturns`, `SessionEnds`, `NoLostWakeup`, `CancelTakesEffect` save for its safety
half, `ReadReturns`, `CommandEnds`, `OpenReturns`): fairness and `ENABLED` are beyond
the prover.

## Not modelled

- The inside of the libraries (`ntfs`, `nt_hive`, `ext4`, `gpt`): they appear as what
  they return, an error or a panic. Decoding of registry cells, of strings and of
  the tokens of a VMDK descriptor.
- Serialization, the report types and the layout of the output; arguments that
  are not UTF-8.
- Platform lookup of `qemu-nbd`, byte counters and timings of the report.
- Memory-ordering effects beyond interleaving.
- A standard error that is closed while warnings are printed (`eprintln!` panics
  as `println!` does).
- A single inspection beside a batch on clones of one engine: the two then count
  partitions and images in one counter (see above), and no property of either
  alone is meant to survive that.
