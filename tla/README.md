# linux-mem in TLA+

linux-mem looks at the physical memory of a Linux machine from user space: which process has which
page frames (`memstats`), what the kernel uses every frame for (`kpageflags-viewer`,
`kpageflags-standalone`), and what the machine looked like at some moment (`proc_snap/snap.py`). All
of it is read from /proc while processes live, die, exec and swap: nothing holds still. This directory
models the parts of the program whose correctness depends on that, checks the models with TLC on
small instances, and proves the main results for all instances with TLAPS.

Paths below are relative to `src/`; `lib.rs`, `groups.rs`, `filters.rs`, `process_tree.rs` and `bin/` are
those of `src/src/`.

## 1. The system

| Component | Source | State | Operations | What is hard | What makes it right |
|---|---|---|---|---|---|
| Parallel scan | `bin/memstats.rs` 624-690, 769-785 | the list of processes, one closure per rayon thread, VmRSS, a mutex around one Boolean, the table of open files | take a process, test the limit, get its information, collect, finalize | threads test a limit none of them holds; processes exit at any step; descriptors run out; panics cross threads | the limit is exceeded by a bounded amount and reported once; every process is settled once; descriptors suffice when they should |
| Scan of one process | `lib.rs` 356-386, 556-688 | the open pagemap, the maps, sets of frames and swap pages | a sequence of /proc reads | between any two reads the process moves pages, unmaps, execs, exits; in the middle of an exec it looks like a kernel process | what did not move is reported; an error means that the process left, or was met in an exec; never two address spaces in one result |
| Reports by group | `groups.rs`, `bin/memstats.rs` 692-767 | a vector of ProcessInfo that travels through every splitter and back | split, evaluate a filter, insert a group, display, collect | filters read /proc again, much later than the scan; groups are told apart by names | every report partitions the same data set; USS is exact |
| Filters | `filters.rs`, `groups.rs` 170-202 | none | parse, eval | positions in bytes and in characters; a read of /proc per leaf; false on error, true under `not` | a list means what was written, or is refused; who stays as it was to the end of an evaluation gets the answer the filter means; the first filter that accepts a process has it |
| Process tree | `process_tree.rs`, `bin/memstats.rs` 432-460 | the edges | enumerate, read each parent, ancestors, descendants | edges are facts of different moments; process numbers are used again | no invented kinship; no steady kinship is lost; the loops end |
| Viewer | `bin/kpageflags-viewer.rs` | launcher, server and client processes, a TCP connection, a channel for one | spawn, scan, send, receive, try_send, draw | every unwrap is an exit somebody else must notice; the channel is full when the window is slow | no message skipped; picture and panels agree; exits propagate |
| Standalone viewer | `bin/kpageflags-standalone.rs` | three threads, three channels for one | collect, receive, feed, paint, fetch | blocking sends one way, try_send the other, a switch in between; a thread that panics ends alone | picture follows data; nobody waits for ever |
| Frames, indices, compound pages | `lib.rs` 53-126, 163-211, `gen_image` of both viewers | the flags read | index, draw, select, count | flags change while they are read; segments end inside a frame | every frame drawn, picture and panel agree, exact counters |
| Snapshot collector | `proc_snap/snap.py` | a dump directory, an archive, attached segments | copy, attach, record, tar, remove; again after a crash | processes and segments come and go; exceptions that end the run, and others that are caught and drop a process; kills | a complete archive is sound but for errors of a copy; nothing collected is lost to anything else |
| Shared memory scan | `lib.rs` 213-321, 601-623, `bin/memstats.rs` 323-421 | the segment attached, its frames, the table of all segments | shmat, read, look up, shmdt, for all segments, twice; find references | segments are removed between listing and scan, pages are swapped, an early return leaves the segment attached | pages agree with rss; references are exact; only departures panic |
| Sequential scan | `bin/memstats.rs` 548-619 | the list, sets of frames and segments, two counters | the scan of one process after the other, a break at the limit, sums | processes exit, descriptors run out, the loop ends in the middle | every process accounted for; every segment counted once |
| Oracle instances | `lib.rs` 388-505, `oracle-tools/` | none | run a child, parse its output | external programs | out of reach: pure I/O |
| Image generators, printing tools, shm tools, tmpfs | other `bin/`, `tmpfs.rs` | none | one pass from files to output | | not modelled: no state, and their index functions are those of FrameFlags |

Interactions. `memstats groups` enumerates processes (ProcessTree), drops the kernel's, scans the rest in
a rayon pool (ScanPool, which calls ProcessInfo once per process), and hands the collected vector to
the reports one after the other (Groups, which evaluates filters; the filter `descendants` uses the
tree). Before that it scans all shared memory segments (SharedMemory), so that each process can be said
to refer to some of them. `memstats single` does the same in one thread and only adds up (ScanSingle). The viewers read the flags of all frames segment by segment and draw them (FrameFlags); the
TCP viewer sends them from a server to a client (Viewer), the standalone one from a thread to another
(Standalone). snap.py stands alone.

## 2. Modules

| Module | Models | Extended by |
|---|---|---|
| `Census` | what a scan promises: abstract specification | instantiated by `ScanPool` |
| `ScanPool` | the rayon pool of `scan_groups`, `finalize` | `MCScanPool`, `ScanPool_proofs` |
| `ProcessInfo` | `get_process_info`, one process | `MCProcessInfo`, `ProcessInfo_proofs` |
| `FilterEval` | eval of a filter, one read of /proc per leaf | `Groups` |
| `Filters` | parse, lists of filters, and how filters are written | `TextGroups` |
| `Groups` | splitters, display's USS, the reports in their order | `TextGroups` |
| `TextGroups` | `Groups` on texts that `Filters` parses | `MCGroups`, `Groups_proofs` |
| `SharedMemory` | `shm2pfns`, the two passes, the table, references | `ScanSingle` |
| `ScanSingle` | `memstats single`, from the segments to the sums | `MCScanSingle`, `ScanSingle_proofs` |
| `ProcessTree` | enumeration, `ProcessTree` | `MCProcessTree`, `ProcessTree_proofs` |
| `Numbering` | how messages and images are numbered | `Viewer`, `Standalone` |
| `Viewer` | `kpageflags-viewer` | `MCViewer`, `Viewer_proofs` |
| `Standalone` | `kpageflags-standalone` | `MCStandalone`, `Viewer_proofs` |
| `FrameFlags` | index functions, picture, panel, counters | `MCFrameFlags`, `FrameFlags_proofs` |
| `Snap` | `snap.py run` | `MCSnap`, `Snap_proofs` |

An MC module only gives values to constants. Definitions that precede another and are commented
"Mutant" are the ways in which the code could plausibly be wrong; nothing of the specification uses
them, and replacing the definition that follows by one of them makes a property of a run fail.

### ScanPool

A worker is one thread of the pool in the closure of `memstats.rs` 639-664. `stage` is the place in it:
the read of VmRSS, the three steps of the critical section on `hit_memory_limit`, and the files that
`get_process_info` opens one after the other. Each open is a step, because the process may leave and the
table of open files may fill between two of them. `outcome` says what became of each process of the
list; from it follow the number of directories held open (a `Process` keeps its directory open until it
is dropped) and what `collect` returns. What a process costs is any number up to `MaxCost`; the
allocator may or may not give memory back after a scan that failed. A panic in a worker ends memstats:
the unwrap of `status()` at 643 when no descriptor is left, and the expect on VmPTE. A live process that is
met in the middle of an exec has an empty command line (`lib.rs` 562) and is dropped like one that vanished.

Whether a worker's own open succeeds depends on files other workers hold for an instant only;
`OpenSucceeds` and `OpenFails` overlap on purpose, and stand for both.

### ProcessInfo

One process and one call. Every file of the call is a step and so is every page of a map, since
procfs' reader fills its buffer piece by piece. The kernel's side changes pages, maps, image and life in
between. A range that can no longer be read reads as an end of file, which loses the map silently
(`filter_map` of 380-383). A zombie's cmdline is empty, its status has no Vm lines, and its pagemap,
maps and environ are empty or errors depending on the kernel: both are possible steps. Which kinds a map
is sorted into follows 372-379 and 596-668: `path` and `anon` are read, shared memory ("vsys") is not
(`optimize_shm`), vsyscall is skipped. `stable` and `source` are history variables: pages nothing
happened to, and the address space each recorded map came from.

A process may exec any number of times, and an exec is two steps. After `Exec` it has a new address
space, which the kernel still fills, and its cmdline reads empty until `FinishExec` has laid out the
arguments: the code then takes a live process for a kernel one (562). So `ErrMeansLeft` tells the two
errors apart: a file that cannot be read belongs to a process that exited, an empty cmdline to one that
exited or has started to exec.

### Groups

A run of the reports on processes that were scanned once. The splitters by uid and by environment
variable compute from the ProcessInfo, in one step. The custom splitter evaluates one filter on one process
per step; outside of an evaluation processes change and exit too (`Become`). `New` and `Asked` are constants: the filters of each text that is accepted, and those it means. `PopInvalid` is the unwrap of a list that does not
parse, which panics only when its report comes. `Insert` is `HashMap::insert`, which drops what was
there. Group names are what `display` compares when it computes USS.

### FilterEval

eval of one filter on one process, which `Groups` extends. `Outcomes` has everything an evaluation may do: what it
returns, and what the process is afterwards, since it may exit before any leaf that reads /proc, or live on as "changed":
with another name, user or environment, after an exec, a setuid or a prctl. Such a process may answer anything from there on
(`Reads`), and `AnswersMeant` and `FirstMatch` speak of those that stay as they were. `Outcomes` is a recursive
function on `Filters`, a set that has the parts of its members, with `Height` as the witness that they are finite
trees. `Until` is Rust's `all` and `any`: a path says what the process was after each child that did not decide.
`descendants` looks up a tree that does not change any more, a constant. `Accepts` is the reference: whom a filter
is meant to accept as long as they stay as they were.

### Filters

Texts. A text is a sequence of tokens; a token stands for one character, and those in `Wide` for one of two bytes, so
that the parser's mixture of byte and character positions is kept. Nothing is declared RECURSIVE, so that the
module can be proved about: `Parse` is a recursive function of the text, and calls itself on the texts within
parentheses; the two loops of the code, over the parts of `and` and `or` and over the filters of a list, are one
function of the position (`Items`). What may fail is a set, empty for an error and for a slice that panics
inside a character. The end of the module is the reference: `Written` is what a filter is written as, `TextOf` a list of
them, and `Writable` says which filters can be written at all.

### TextGroups

The composition. `Groups` takes as constants what `New` makes of each text and what it was `Asked` to mean;
`ParserAssumption` says that the former is what `Filters` parses, and `MeaningAssumption` that a text written as one of
`Lists` means that list, and that any other is to be refused. `TextsUnderstood` is the one condition on a command line: each of its lists is written as
somebody means it, or is refused. It excludes something, since parse accepts texts nobody would write: `not(true(),x)`
is `not(true())` with a warning, any character separates two filters, and `env_kv(K,(a,b))` has the value `(a`.
`MCGroups` spells its texts out, and TLC checks for each that it is what `TextOf` gives for the list that is meant (`WrittenSo`), and that all
texts with a token missing or a wide one are refused (`AllUnderstood`).

### SharedMemory, ScanSingle

`SharedMemory` has the machine (segments, their pages, attachments, processes) and the part of main that looks
at it; `ScanSingle` extends it with the list of processes, `scan_single` and the report, and states
the specification. A scan of a segment is two steps: shmat with the read of all pages, unless the listing
showed pages in swap, and the look-up of their frames with shmdt. Between the two, pages may be swapped out, the segment
removed, or one of the `?` of `lib.rs` 261-277 return, which leaves it attached (`LookUpFails`).
`Listing` is what /proc/sysvipc/shm shows: a segment that was removed and is still attached has
lost its key there, while the maps of its users go on showing it. An exec detaches everything, as an exit does. `Inspect` is a call of
`get_process_info` as far as segments go, and takes its ways to fail from `ProcessInfo`: among them the empty cmdline of a process that is in
an exec, for which the list of processes leaves it out too, and which `VanishedExact` excepts. `FailToList` is the exit of `memstats.rs` 441-444
and the unwrap of 510, when the directory of a process cannot be opened, for instance because no descriptor is left. `calm`, `steady`, `ever` and `failed`
are history variables. VmRSS may exceed the limit before any process (`HitLimit`), since it depends on
what was scanned.

### ProcessTree

memstats opens the directories of all processes first and reads the parent of each later, through the
directory. `handle` keeps what a directory stands for: it does not come back to life when the number is
used again. A directory that is gone is passed over; any other error ends memstats (`FailToOpen`, 441-444). The kernel forks, kills, reparents (to init, or to any ancestor: subreapers) and reaps.
`ancestors` and `descendants` are loops whose iterations are steps; the tree does not change any more.
The order of `descendants`' stack is left open. `lineage` (who descends from whom at the moment when the
last directory was open) and `steady` (who kept its parent since the start) are history variables.

### Viewer, Standalone

The threads and processes of the two programs with their channels at their real capacity of one, and a
connection that holds `TcpRoom` messages. Messages are numbers; they repeat modulo `Cycle` (module
`Numbering`), so that the programs run for ever in a finite graph, and `Cycle` is at least the number of
different messages in the pipeline. No name of one module is a name of the other, so that one proof module extends both. A frame of the window is two or three steps, between which other threads run. The
user toggles autorefresh, opens tabs and closes the window.

In `Viewer` the server may panic in any scan (165-186). The picture of the FirstUpdate is the grey `default_img` (460), number 0; flags are only
drawn from the first Update on, and `PictureMatchesData` says so. The client ends on the unwraps of the first picture (433-438), on the assertions of `gen_image`, and in
the Stats tab, on the assertion of `compute_compound_pages` (673) or with fewer than three segments (674); which layouts and reads make them fail is what `FrameFlags`
says. In `Standalone` worker and painter may panic alone (`Collect`, `FailToPaint`): main reads the channel of a dead worker as an empty one, shows the last
picture, and panics when it feeds a dead painter. `PictureFollows` and `CatchesUp` are about a painter that lives, `Refreshing` about
a worker that does; `WorkerRuns` excepts neither, and `Refreshing` does not except the painter: main must not go on showing one picture for ever because it has died.

### FrameFlags

Memory is a sequence of segments given by the addresses of their first and last bytes, and the module
translates both conventions that the code mixes: `pfn_to_index` counts the frame of the last byte even if
it is RAM only in part, `get_range` of procfs does not. The operators on frames take the list of
segments, `ram`, as the functions of `lib.rs` take `memory_segments`. Sums and counts over a list are recursive functions
of the place in it, since that is what the loops of the code are and what the proofs can follow. The flags are read a frame at a time while the kernel
forms and splits compound pages. The Hilbert curve is taken as a bijection between indices below 4^order
and pixels, so pixels are named by their index; an index that is not below it is given any pixel, or makes
`set_pixel` panic, since the library promises nothing.

### Snap

A run of snap.py copies the kernel's files, attaches every segment (so that it survives), copies the
files of every process, writes metadata, runs tar and removes the directory. Every read of a process may
meet it gone. All the ways a run ends early are kept, the exceptions nothing catches included: the
`os.stat` outside the try (284), the `KeyError` for a segment that is not in the list under the key that maps shows
(546), the `TypeError` of a warning (504), a failing tar, a kill at any step. After that the user may
remove what is left, or not, and runs it again. `seekable` says whether the seek to the
vsyscall map (153) succeeds; when it fails the pagemap is cut and the references of the process are
lost, and the process stays in the archive.

The exceptions that are caught are kept as well, and they are met by live processes too: a full disk, an I/O error, a name
in maps that is not UTF-8 (`Breaks`). At 342 one drops the whole directory of the process, with a warning, and the run goes on to
tar; at 294 the pagemap is cut or missing and the references are lost. `failed` is the history of the processes this happened to. The handler calls
rmtree within `except: pass` (346-349), which passes over rmtree's own errors and over Ctrl-C: what is left of the directory gets into
the archive, and `stuck` is the history of that. `ArchiveSound` and `NothingLost` except these processes
and no others, and hold for the rest of the archive.

Keys are converted as the code does: /proc/sysvipc/shm shows them with a sign, and none (0) of a segment that was removed and is
attached still; maps shows the original key without one. A process that maps a segment listed under another key therefore ends the run at 546. `Half`
stands for 2^31.

## 3. What the runs check

Passing runs:

| Run | Instance | What it shows |
|---|---|---|
| `scan_pool` | 2 workers, 4 processes of which one is memstats, a limit that the first allocation may pass, one descriptor too few or exactly enough | `OvershootBound`, `LimitReported`, `FdsSuffice`, `Terminates`, and that the scan implements `Census` |
| `process_info` | a map of each kind, 2 pages each, 2 frames, 1 swap slot, 2 events (up to two execs) | `StablePagesReported`, `ErrMeansLeft`, `OneImage` |
| `groups` | 3 processes that exit or change, all combinations of 3 infos, up to five reports, six lists of all kinds of filters, and the same lists with a token missing or a wide one | `Partitioned`, `ListsFaithful`, `FirstMatch`, `UssExact`, `ReportsInOrder`, `AnswersMeant`, `AllShown` |
| `single` | memstats, an instance and one more process; segments of 2 and 1 pages, one private; 2 events; 0 to 2 descriptors; 3 filters; with and without `--force-read-shm` | `RssInSync`, `OnlyDeparturesPanic`, `ReferencesExact`, `LeaksUncounted`, `VanishedExact`, `TotalsBounded` |
| `process_tree` | all trees of up to 4 numbers, 4 events | `AncestryReal`, `SteadyReported`, `DescendantsExact`, `Terminates` |
| `viewer` | 3 update numbers, 2 messages in the connection, 2 or 3 segments | `ImageReady`, `PictureMatchesData`, `NoGaps`, `LiveView`, `ExitPropagates` |
| `standalone` | 6 numbers | `PictureFollows`, `CatchesUp`, `Refreshing`, `WorkerRuns` |
| `frames` | 4 layouts of up to 6 frames, compound pages of 2 and 4 frames, 3 events | `EveryFrameDrawn`, `PanelMatchesPicture`, `CountersExact`, `OnlyTornReadsPanic` |
| `snap` | 2 processes, 2 segments (one with a negative key), 2 files, 3 events, 2 runs | `ArchiveSound`, `NothingLost` |

The type invariants of all modules are theorems (section 5).

Why the bounds are enough. Two workers are enough for every race on the limit and its mutex, since
workers only meet through `rss`, `guard` and the descriptors; with four processes one is left when both
have met the limit. The theorems of section 5 cover what more workers, processes, maps or messages would add.
In `process_info` two events are an exec or an exit around anything else, or two execs, and every page of a map but
the last is followed by another. Four numbers and four events are what it takes for a process to
die, be reaped and have its number taken by a descendant of its former child. In `viewer`, the
connection's two places, the socket thread, the channel and the window hold five messages; `NoGaps` and
`PictureMatchesData` only compare neighbours, so three numbers do. In `standalone` the pipeline has six
places. The layouts of `frames` have segments that end inside a frame, in the middle and at the end, one
with more indices than pixels and one with frame 0; three events form and split neighbouring pages and
change a page in the middle of its read. In `groups` the lists overlap, nest and negate, every structural token of two of them is
left out once, and each process may exit or change before any leaf. In `single` two events are a segment that is removed and let go by its
last user, a removal or a swapped page around a call that fails, an exec or an exit; `ScanSingle_proofs` covers
any number of events, segments and processes. In `snap` two runs are a crash and what follows it, and three
events are a process that maps a segment, exits and is reaped, or an error of a copy, one of rmtree and a process that leaves; both processes
may be there from the start, with what they map. `Snap_proofs` covers any number of events and runs.

Deadlock is checked except in `frames` and `orphan_tail`, where the viewer waits for a user who need not
click any more, or has panicked. In the other modules the end of the program is a named stutter
(`Ended`, or the last disjunct of `Next`), so that every other stop is an error. The end of `Viewer` includes
a server that waits for a client that has already given up (nothing but the sleep at 774 orders the
two); `ExitPropagates` says that this is the only way in which the launcher is not told of a client's exit.

Violations. Three runs check what the repository says of itself, and TLC finds it violated:

| Run | Says | Does |
|---|---|---|
| `vmpte` | `lib.rs` 585 expects VmPTE for every process that is not a kernel thread | a process that exits after its cmdline was read is a zombie without VmPTE: memstats panics |
| `groups_same_dataset` | `docs/memstats.md` 91: the reports are "on the same dataset" | a filter given twice in a list drops the group of its first occurrence, and later reports have fewer processes |
| `orphan_tail` | `lib.rs` 197: "no COMPOUND_HEAD, no COMPOUND_TAIL (except if bug)", and an assertion | a compound page formed while its segment is read shows a tail without a head: the viewer panics |

The passing runs say what holds instead: `ErrMeansLeft` for every other error; `Partitioned` and its
companions for lists of distinct filters; `OnlyTornReadsPanic`.

Two more sentences of the repository do not hold, and have no run of their own. `docs/memstats.md` 119 calls the USS of a group "memory only
referenced by processes in this group"; `groups.rs` 81 tells groups apart by the names shown, so two users of one name are two groups, and a frame
both have counts in the USS of both. `UssExact` is therefore about groups whose name no other group has. And `kpageflags-viewer.rs` 595 says that the
text "NOT IN RAM?" of the panel "should be unreachable somehow": the index functions count the last frame of a segment that is RAM only in part,
`get_range` does not, so its pixel can be clicked, and shows that text. `PanelMatchesPicture` says that it only ever appears
on a pixel that was not drawn.

What no property asks. Some hazards of this code are in the models and are not excluded by any property, because the code does
go wrong there and the repository promises nothing else: a client that connects before the server listens (`kpageflags-viewer.rs` 774),
the socket thread that dies over a full channel and leaves a frozen picture (349), main of the
standalone viewer that panics over a slow painter (`kpageflags-standalone.rs` 348), the unwrap of the first pass over
the segments (`memstats.rs` 330), the live process taken for a kernel one in the middle of an exec (`lib.rs` 562), the
exceptions that end snap.py (284), the Stats tab on fewer than three segments (`kpageflags-viewer.rs` 674). One is not in a model: the
key Up on the first colour of the standalone viewer (319) subtracts one from zero, which panics in a debug build and does nothing in a release build. `EveryFrameDrawn` and `PanelMatchesPicture`
hold on machines that are `Drawable`: frame 0, on which the unwraps of the index panic (`lib.rs` 55), and a curve too small
for the frames that are RAM only in part (`kpageflags-viewer.rs` 421) are layouts of the run `frames` and premises of these two. The properties
of these modules say what holds up to, or apart from, such an event.

Remarks that are no findings. What `scan_groups` calls vanished (674) also counts memstats itself and the
processes left out at the limit, which is how `Census` defines `missing`; `scan_single` counts those that
left, or were met in an exec, one by one (`VanishedExact`). The comment at `filters.rs` 133-139 shows filters with a space after the comma and
the names `env` and `descendant`, which parse refuses. `--filter` (466-470) is parsed without the ASCII test
of lists, and only warns of text that follows.

## 4. Fairness

Weak fairness of every rayon thread, of main, of the threads and processes of the viewers: the kernel
schedules runnable threads. In `ScanPool` fairness is per worker, and weak fairness is enough for the mutex:
the other workers take it once per process at most, so it does not change hands for ever.
Nothing is assumed of the environment: processes need not exit, events need not happen, users need
neither toggle anything nor close windows; the kernel may also go on as it likes up to the bound of
events. `Groups` and `ProcessTree` have one thread, hence one condition. `ProcessInfo`, `FrameFlags`,
`Snap` and `ScanSingle` state safety only, and have no fairness.

## 5. What is proved

Each module names what it assumes of its constants, and the theorems hold for every value that satisfies it:
`PoolAssumption`, `InfoAssumption`, `FilterAssumption`, `GroupsAssumption`, `TreeAssumption`, `ViewerAssumption`, `CycleAssumption` (of `Numbering`),
`FrameAssumption`, `SnapAssumption`, `ShmAssumption`, `SingleAssumption`; the theorems about texts also use `TokenAssumption`,
`ArgumentAssumption`, `ParserAssumption`, `WritableAssumption` and `MeaningAssumption`, and the others of `Groups_proofs` do without. They say that workers, processes scanned and maps are finite sets, that counts are natural
numbers, and what the constant functions and records range over; there is no bound on workers, processes, pages, frames, segments, reports, events or runs. `FilterAssumption` says that a filter is a tree: it has
an operator, its parts are filters of less height, and `not` has one part. `FrameAssumption` also says that the segments are
sorted, that no two of them share a frame, and that there are three, without which the server does not start (`memory_segments[2]`). In every module the property
itself is too weak to be inductive; below is what had to be added to it.

* `ScanPool_proofs`
  * `TypeInvariant`. Inductive with `Exclusive`: two workers never hold the same process.
  * `Overshoot`: `OvershootBound`. The inductive form is `Budget`: what is used, plus `MaxCost` for every worker
    that has passed the test and not allocated, is at most the cap plus `MaxCost` per worker. The test lets a
    worker into that set only when the memory used is at most the limit; `Walk` pays for its worker.
  * `DescriptorsSuffice`: `FdsSuffice`, which is inductive on top of the types, from a count of
    directories and pagemaps (`EnoughRoom`).
  * `LimitIsReported`: `LockInv` relates the holder of the mutex, the Boolean, the number of warnings and the
    processes left out, at every stage of the critical section.
  * `ScanImplementsCensus`: every step maps to a step of Census or to a stutter. Needs `NotSelf` (no worker is past the
    test with memstats in hand) and `TakenHeld` (a taken process is in some worker's hands: with all of them
    idle, nothing is pending).
* `Groups_proofs`
  * `DatasetIsKept`, `GroupsPartition`, `UssIsExact`, from one invariant: every process is in the remaining list, taken
    by the current filter, or in a group (`Covered`), in only one of these (`Disjoint`); keys
    still to be inserted are new (`Fresh`), which is where distinct filters are needed.
  * `TypeCorrect`, for lists that name filters twice too.
  * `EvalIsFaithful`: `AnswersMeant`, for filters of any height. `FilterInduction` and `FilterRecursion` turn `Height` into
    induction over the parts of filters, and show that `Outcomes` and `Accepts` exist. `PathAlive` says that whoever is as it was at the
    end of a path through the children of `all` or `any` was so all along it, so that each of them told the truth (`UntilTruthful`);
    `EvalTruthful` is that for whole filters.
  * `FirstFilterTakes`: `FirstMatch`, from `EvalTruthful` and from `ListsFaithful`, which is about parse alone. `Popped` finds the text of a report again from what is left of the
    command line, `Suffix` the filters still to come from the list they end, and `Placed` says of every process
    that stays as it was which filters have rejected it, wherever it is.
  * `ParseOfWritten`, `NewOfWritten`: parse reads back what is written, for filters of any height, any number of parts and arguments
    of any length, whatever text follows. In an ASCII text positions of bytes and characters are the same (`Positions`), and an argument without lone
    parentheses keeps the depth above zero up to the parenthesis that closes it (`Inside`, `OfOperator`), so that the search of `find_match_par` ends where
    the filter does. From there `Items` walks the parts: at the place where one begins the text is that part, a comma and
    the rest, so that it reads this part and goes on behind the comma (`ItemsOfJoined`, backwards from the last part).
    That the parts are read is the induction over heights (`FilterInduction`). The definitions themselves need
    proofs that they mean something: `Items` and `Joined` go backwards along an interval (`Backward`), `Written` by heights, and
    `Parse` by the length of the text, since a text is longer than what its parentheses hold and what follows a position in it (`ParseIs`).
  * `ListsAreFaithful`, `WrittenFiltersTake`: `ListsFaithful` and `FirstMatch` of every run whose command line satisfies `TextsUnderstood`.
    With them no theorem about the reports rests on a property that is only checked.
  * `ReportsComeInOrder`: `ReportsInOrder`, of such runs. main has reversed the custom lists and pops them from the end, so `Popped` finds
    each one again in the command line; `ShownKept` says that what was shown is the beginning of what is to be shown, as far as
    `stage` and the lists popped so far tell, `PoppedValid` that all lists popped before the one at hand could be parsed, and `KeysKept` that the
    groups of a report and the filters still to come have the names of its text, whatever filters share a name.
* `ProcessTree_proofs`
  * `TypeCorrect`, `KinshipIsReal`, `SteadyIsReported`, `DescendantsAreExact`. The argument for `KinshipIsReal`: after the last
    directory was opened, a process that is still the one listed can only be reparented to an
    ancestor it already had, so every edge read later joins a process to a member of its `lineage`
    at that moment (`Lineage`), and lineage is transitive (`AncestorsTransitive`); `Climbing` and `Descending` carry this through
    the loops. Ancestors are defined as a least set, so that their lemmas need no induction.

* `ProcessInfo_proofs`
  * `TypeCorrect`, `StableReported`, `ErrorsAreExits`, `OneImageReported`, for any number of execs. `StableReported` is an inclusion: a page that stays is in every set of
    its kind; that the sets have nothing else is no theorem. Once the pagemap is open, an address space other than its own has
    no page nothing happened to (`PagemapOK`), so that a map is only lost when nothing stable is left to
    report; and a stable page whose kind is read is in the listing still, or was recorded as it is
    (`NothingMissed`), page by page of the map in hand (`BufferOK`). `OneImage` follows from `OneSource`: everything
    recorded came through one pagemap, which stays with the image it was opened for.
* `Viewer_proofs`
  * `TypeCorrect`, `ImageIsReady`, `PictureMatches`, `NothingSkipped`. `Following` walks the messages from the window to the server:
    channel, socket thread, connection and server each hold the successor of what the place before holds. A
    thread that died breaks the chain behind it and leaves what is in the channel correct, so `ChanOK` stands
    alone.
  * `StandaloneTypeCorrect`, `PictureIsFollowing`, for the standalone viewer, the latter as long as the painter has not panicked. The newest image is in the first of four places that is not empty, and only
    `Feed` changes which one it is (`Newest`).
* `FrameFlags_proofs`
  * `TypeCorrect`, `AllFramesAreDrawn`, `PanelMatches`, `CountersAreExact`, `OnlyTornReadsFail`. Two invariants speak of the reader.
    `Compounds`: in the kernel, the flags of every segment are such that a tail is led by a head, and no frame is both.
    `Reading`: while nothing disturbed the third segment, what was read of it is what the kernel has; whatever was disturbed, no frame read is a head
    and a tail. So a count only fails on a read that was disturbed. `Drawn` says that the picture has the
    flags read, pixel by pixel, and `Late` that nothing is clicked or counted before the picture is there and that on a `Drawable` machine only a count panics.
    `CountersExact` is the equality of the loop of `lib.rs` 163-211 with a count by definition (`CountIsExact`), for any list of flags.
  * The lemmas are about the index functions: `Sorted` and `BeforeGrows` make the places of the segments along the curve disjoint
    intervals, `IndexOfFrame` and `FrameOfIndex` say that the two functions are each other's inverses, and `CanvasIs` that
    the smallest curve exists.
* `Snap_proofs`
  * `TypeCorrect`, `ArchiveIsSound`, `NothingIsLost`. Until tar begins the invariant speaks of the directory: every process that
    lives through the run is to come, in hand, or has its pagemap (`SteadyOK`); lists of segments only name
    processes whose pagemap is whole (`ListsOK`); a mapping that lasts is in a list or will be (`KeptOK`). When tar
    begins nobody is to come or in hand, and the same sentences become `ArchiveSound`. `HistoryOK` ties them to the machine:
    a process may only be skipped after it left, when the history does not speak of it any more, or when a copy of it
    failed (`ToSkipInv`), when the property excepts it.
* `ScanSingle_proofs`
  * `TypeCorrect`, `RssIsInSync`, `PanicsAreDepartures`, `ReferencesAreExact`, `LeaksAreUncounted`, `VanishedIsExact`, `TotalsAreBounded`. What the machine
    may do to the invariants is summarised once: `Drift` says how segments, pages, attachments and lives may change, whoever makes the
    step, and `Apart` that other processes neither attach nor detach memstats and only swap pages out of its page table. On top of `World` (types, and what the histories mean), `RssOK` follows
    the pages of a segment from the first pass to the table: once read, they stay in memory while the segment is `calm`, so that
    the second listing counts them all and the page table has them all. `RefsOK` needs that the key in the
    table is the one in the maps of its users, unless the segment was removed (`KeysOK`). `LeakOK` says that an attachment
    of memstats is the segment in hand or one whose scan failed, and that the latter is in no table. `TotalsAreBounded` compares two sums over sets of segments
    (`TotalIsSum`, `SumMonotone`): the report's, made of amounts that were added while the machine moved (`AmountsOK`, `ReportOK`), and the sum of the sizes.

Induction. The library's theorems about induction and recursive functions cannot be instantiated here (they take an
operator), so the proofs that need them start from least elements: a set of naturals that is not empty has a least one
(`Least`), hence a set that has 0 and the successor of each of its members has them all (`Induction`), and a function on the naturals with a given
base and step exists (`Recursion`), which is what a recursive definition needs to mean anything. Sums over finite sets go by a
minimal subset without the property in question (`SubsetInduction`). The property is always a set, never an operator. Filters go by their heights
(`FilterInduction`, `FilterRecursion`), in the same way.

Only model-checked: liveness (that all reports do come, `AllShown`, is one; `ReportsInOrder` is what is safe in it), which rests on fairness; and that a text with a token missing or a wide one
is refused, which TLC computes for the texts of `MCGroups` only. All invariants and action properties of the passing runs
are theorems.

## 6. What is left out

Formatting, colours, zoom, logging, and the sizes of pages. The kernel's files are modelled as what
they give to the code at the moment of the read. `Message::Finish` of the viewer, which nothing sends. snap.py's mode
"test" and its profiling, and the directory of snap.py itself; and a tar that goes on writing after snap.py was killed. In the parser, `trim` and the digits of numbers. In the
shared memory scan, huge pages, and the reuse of the number of an instance between the moment it was found
and the moment memstats opens it again (376). The components marked so in section 1: those that run external programs and parse
their output, and those that are one pass from files to output, without state or
anything concurrent; `bin/diff.rs` is commented out as a whole.

## 7. Plan

Done, in this order: `Census` and `ScanPool` (the core: concurrency and its abstract specification),
`ProcessInfo` (what one scan may believe), `Groups` (what reports do with it), `ProcessTree`,
`Viewer`, `Standalone`, `FrameFlags`, `Snap`, `Filters` composed with `Groups`, `SharedMemory` and
`ScanSingle`; proofs of all of them; `FilterEval`, apart from the parser, with its proof; `Filters` without recursive
operators, with the proof of its round trip, and `TextGroups`, which joins it to the reports.

`ScanSingle` was first meant as a second implementation of `Census`. It is none: the break at the limit leaves processes
that are neither scanned nor counted, and memstats scans itself; `VanishedExact` states what it promises instead.

Next: which texts parse refuses, as a theorem (a text it accepts begins with a filter whose parentheses match). Oracle instances are worth a module when what is read of them is used for more than display.
