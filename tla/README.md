# A verification of workers-wasi

workers-wasi runs a WASI program (`wasi_snapshot_preview1`) in a Cloudflare
Worker. A TypeScript object, `WASI`, gives the guest its imports; most of them
are exported by a second WebAssembly module, `memfs.wasm`, compiled from
`src/memfs.cc`, which keeps a table of file descriptors and a littlefs volume in
memory. Its standard input and outputs are the host's web streams, which adapters
(`src/streams.ts`) bring to the guest. This directory holds TLA+ modules that model
the file system, the memory it shares with the guest, the streams and the run of a
guest between them, the configurations with which TLC checks them, and proofs
checked by TLAPS.

Paths in this text are relative to the repository (`src/memfs.cc` is the file
that `PROJECT.json` calls `src/src/memfs.cc`).

## 1. Inventory

| Component | State | Operations | Interacts with | What is hard | What makes it correct |
|---|---|---|---|---|---|
| Descriptor table (`memfs.cc`, `Context`) | `fds`, `next_fd`, `preopens` | `allocate_fd`, `lookup_fd`, `fd_close`, `fd_renumber`, `fd_fdstat_*`, `fd_prestat_*` | owns the handles that littlefs links into its own list | any order of opens, closes and renumberings; numbers that go around; stdio and preopened numbers | one number per descriptor; littlefs has open exactly what the table owns; preopened directories stay |
| Capability rights (`memfs.cc`) | `rights_base`, `rights_inheriting` of each descriptor | masked by `path_open`, cut by `fd_fdstat_set_rights`, compared by `lookup_fd` | open flags of handles | rights are the only guard before the assertions of `file()`, `dir()` and littlefs | they never grow; they match the handle; no assertion fails |
| Open files (`memfs.cc`) | `lfs_file_t`: position, own copy of the contents, what is pending | `fd_read`, `fd_write`, `fd_pread`, `fd_pwrite`, `fd_seek`, `fd_tell`, `fd_allocate`, `fd_filestat_set_size`, `fd_sync`, `fd_datasync` | the volume | two descriptors of one file; 64-bit arguments in a 32-bit library; `fd_sync` that does nothing | what a call changes is in the volume when it returns |
| Paths and directories (`memfs.cc`) | the volume; `path` of each descriptor | `path_open`, `path_create_directory`, `path_remove_directory`, `path_unlink_file`, `path_rename`, `*_filestat_*` | open handles learn of removed and moved entries; `path` does not | removal, renaming and reuse of names under open descriptors | handles belong to regular files or to none; late writes reach their own file or none |
| Start of the file system (`memfs.cc`, `main`, `initialize_internal`) | sets up all of the above | once, from JSON | `memfs.ts` | - | the initial state |
| littlefs (`deps/`, a submodule, not in the tree) | `lfs_t`, list of open handles | `lfs_file_*`, `lfs_dir_*`, `lfs_stat`, `lfs_remove`, `lfs_rename`, ... | called by `memfs.cc` only | - | external |
| Call frame and guest memory (`util.h`, `util.cc`, `memfs.ts`, wrappers of `memfs.cc`) | 40960 bytes and an offset per call | `alloc`, `ref_array`, `MutableView`, `copy_in`, `copy_out` | guest memory | overflow of the 32-bit offset and of the length of a vector; copy-out on every exit, in reverse order; buffers that overlap | pieces apart and within the frame; the guest cannot see the copies; results are not undone |
| Stdio streams (`streams.ts`) | buffers, pending chunk, counters | `readv`, `writev`, `preRun`, `postRun`, `close` of five adapters | web streams, guest memory | awaits in mid-vector, chunk boundaries, growth, empty buffers | the guest reads the input, and the host gets the output, byte for byte in order |
| WASI object (`index.ts`) | arguments, environment, streams, asyncify state | `start`, routing of `fd_read`/`fd_write` below 3, `args_*`, `environ_*`, `clock_*`, `proc_exit`, `random_get` | all of the above | errors while closing; a guest suspended for ever; disagreement with the table on 0-2; the unit of timestamps | `start` settles; an answer means that the output is flushed; the exit code is kept |
| Assertions (`config.h`) | - | `REQUIRE`, `LFS_ASSERT` | the `trace` import throws | an assertion ends the guest in the middle of a call | assertions that guard against the guest are never reached |
| Interface types, tracing (`snapshot_preview1.ts`, `helpers.ts`, `global.d.ts`) | - | `iovViews`, logging wrappers | `index.ts` | - | - |

The guest has one thread, and no call of `memfs.cc` waits for anything: a call
is atomic, and what is concurrent in this system is several descriptors of one
file, and a guest that may make any call at any time. Asynchrony is only in
`streams.ts` and `index.ts`: there the promises of up to three streams and the
host's sources and sinks interleave, each of which may fail at any time. Nothing
outlives the process: there is no crash recovery.

The hazards of the code, each at its line and with the properties that cover it,
are in `PROJECT.json`.

## 2. Modules

```
DescriptorTable    ByteStream                       abstract specifications
WasiRights         LittleFS                         operators
MemFS              EXTENDS WasiRights, LittleFS     TableSpec instantiates DescriptorTable
  MCDescriptors    EXTENDS MemFS
  MCFiles          EXTENDS MemFS
  MCTree           EXTENDS MemFS
  LittleFS_proofs        EXTENDS LittleFS
  MemFS_proofs           EXTENDS MemFS, LittleFS_proofs
  LittleFS_tree_proofs   EXTENDS LittleFS_proofs
  MemFS_tree_proofs      EXTENDS MemFS_proofs, LittleFS_tree_proofs
CallFrame
  MCCallFrame      EXTENDS CallFrame
  CallFrame_proofs EXTENDS CallFrame
Streams
WasiStart          EXTENDS Streams                  ByteStreams instantiates ByteStream
  MCStreams        EXTENDS WasiStart
  WasiStart_proofs EXTENDS WasiStart
  WasiStart_input_proofs EXTENDS WasiStart_proofs, Induction_proofs
Induction_proofs                                    facts on FlattenSeq, by induction
FileTimes
```

`MemFS`, `CallFrame` and `WasiStart` are not composed. A call of `memfs.cc` works on
copies that are taken before it begins and given back after it ended; that this
cannot be seen by a guest whose buffers do not overlap is what `CallFrame` shows
(`Transparent`), and it is why `MemFS` can do without the guest's memory. The
streams share with the table only the numbers 0-2, which `index.ts` routes
before `memfs.cc` sees them.

In every module, an operator whose name adds a word to the next one's
(`Closed_leaked`, `AsyncCopy_dropped`, ...) is a wrong version of it. Each property
of a passing run has one in `PROJECT.json` under which TLC finds it violated.

### The file system

**LittleFS** is the library as its caller sees it, as pure operators on a volume
(a function from paths to entries) and on a handle (a record): the error of a
call, the volume after it, the handle after it. Its sources are not in the tree:
what it assumes of the calls that `memfs.cc` makes is that a handle works on a copy
of its own, that opening with `LFS_O_TRUNC` is pending until the handle is
synced, that a handle whose entry disappears never writes again, that a rename makes
the entry of the file that is renamed anew and tells its handles only that the old
one is gone (`Relinked`), while handles below a directory that is renamed follow it,
that sizes and positions end at 2^31 - 1, that a directory can be renamed below itself (it is
then unreachable) and that a missing name that ends in "/" cannot be made.

**MemFS** is `memfs.cc`, translated call by call:

| Model | Code |
|---|---|
| `fds`, `next_fd` | `Context::fds`, `Context::next_fd`; `preopens` is the constant `Preopens` |
| `fds[fd].id` | the address of the `FileDescriptor`, which `fd_renumber` keeps |
| `fds[fd].file` | `state.file`; `at` is the entry that its syncs write to, or the root when there is none any more |
| `fds[fd].file.name` | no code: where the file is that was opened, for the properties; renames of the file itself are followed |
| `mlist` | `lfs_t::mlist`, as the set of descriptors that littlefs has open |
| `tree` | the mounted volume, times included (`attr`, littlefs attribute 1) |
| `ret` | the errno of the last call, or the assertion that ended the guest |
| an action `fd_write`, `path_open`, ... | the method of that name, with every call it makes |
| `..._error` operators | its `RETURN_IF_*` and `REQUIRE*` lines, in their order |
| `DescriptorCall` ... `Next` | the exported functions, under any arguments from the sets `...Arg` |

A failed `REQUIRE` (or `LFS_ASSERT`, which is the same) calls the `trace` import,
which throws (`src/memfs.ts`); no code catches it before `start`. In the model
`ret` is then a member of `Halt` and nothing follows, so configurations set
`CHECK_DEADLOCK FALSE`: the system really stops there.

Abstractions, each on the side of allowing more than the code does or outside of
what the properties say:

- A vector of buffers is none or one buffer. Buffers are read or written one
  after the other on one handle, and every error of littlefs in between ends the
  guest, so that the split cannot be observed.
- A right set is the set of the names of its bits; of `fd_flags` only `APPEND`
  is kept. A path is a sequence of names and whether it ends in "/"; the names
  "." and ".." inside a path, which `resolve_path` passes to littlefs, are not
  modelled. `fd_renumber` to a number above `MaxFd` is not modelled.
- Timestamps are members of `Stamp`; the time of "now" is any of them. What the
  arithmetic makes of the clock is the subject of `FileTimes`.
- A use of a freed entry (`fd_renumber` of a descriptor onto itself) ends the
  guest or leaves the number closed.
- `fd_read` and `fd_write` on 0-2 reach `memfs.cc` in the model, as its exports
  allow; `index.ts` routes them to the streams.

**DescriptorTable** is the abstract specification of a table of descriptors:
`Open`, `Close` and `Move` on a function from numbers to objects and the set of
objects that a library has open. `TableSpec` in MemFS is its `Spec` under the
mapping `table <- [fd |-> fds[fd].id]`, `open <- mlist`.

**FileTimes** has the two ways in which `Date.now()` reaches a guest: as a number
of any size in `clock_time_get` (`index.ts`), and through an `int32_t` and a
32-bit product in `set_file_times` (`memfs.cc`). A product that overflows is
undefined; the model lets it wrap or be one of 64 bits. In its unit of a million
nanoseconds it is exact only for readings that do not overflow, and the run needs
no others.

### The memory shared with the guest

**CallFrame** is one call of `memfs.wasm` after another, as copies between two
memories:

| Model | Code |
|---|---|
| `guest` | the guest's memory, behind the imports `copy_in` and `copy_out` (`memfs.ts`) |
| `frame`, `tmp_offset` | `CallFrame::tmp_buffer`, `CallFrame::tmp_offset` (`util.h`) |
| `fd_read`, `path_open`, ... | the exported wrapper of that name at the end of `memfs.cc`: its requests for pieces of the frame, in their order |
| `GoBeyond` | the first use of a vector that has more elements than bytes for them |
| `Enter` | the wrapper's next `MutableView`, `ref_array` or `alloc_uninitialized`, with `CallFrame::alloc` (`util.cc`) and `copy_in` |
| `Method` | the call itself: it leaves any bytes in the views it was given, or none |
| `Leave` | a destructor `~MutableView`: buffers of a vector in any order, then results, the last one first |
| `status` | where the call is, or what ended the guest: `"REQUIRE"` (the frame is full), `"RangeError"` (`copy_in` beyond the guest's memory, or with an address or length that is negative as an `int32_t`), or `"length_error"`; with `"overrun"` the call is not followed further |
| `direct` | no code: the guest's memory as it were if the method had worked there |

Sizes and the offset are numbers modulo `Word`. So is the length in bytes of a vector,
`count * sizeof(T)` in `alloc_uninitialized` (`util.h:63`), while the span over the piece
keeps the count. A vector whose length does not fit in a word therefore gets a piece,
and a copy, for the remainder only. `GoBeyond` is what follows: `with_external_iovs`
reserves as many views as there are elements, more than a `std::vector` of them can
hold, and ends the guest (`"length_error"`); `with_external_ciovs` walks through
the whole span, past its piece and the frame. What it finds there and overwrites is
not defined, and the model stops with the view as long as the span (`"overrun"`).
`ViewsApart` and its theorem except that status, and only that.

### The streams and the run of a guest

**Streams** has the adapters of `streams.ts`; **WasiStart** puts them around a guest,
as `start` of `index.ts` does.

| Model | Code |
|---|---|
| `asyncify` | whether the `streamStdio` option chose the asynchronous adapters |
| `call` | the import the guest is in: what is left of its vector, `read`/`written` so far, and whether it waits for a write |
| `buffer` | `#buffer` of the synchronous readable adapter, `#pending` of the asynchronous one |
| `output`, `capacity` | `#buffer` of a synchronous writable adapter up to `#bytesWritten`, and its length |
| `queue` | chunks given to a writer and not yet accepted by the sink; with `streamStdio` they are views of the guest's memory, and the model keeps them as places, not as values |
| `task` | what the promise of `preRun`, `close` or `postRun` of a stream waits for |
| `phase`, `outcome`, `result` | where `start` is, how its `try` block ended, what its promise was settled with |
| `SyncReadIov`, `AsyncReadIov`, `SyncWriteIov`, `AsyncWriteIov`, `AsyncWritten`, ... | one iteration of the loop over the buffers of a vector, up to an `await` |
| `PreRunRead`, `PreRunEnd`, `PostRunWritten`, `Closed` | the continuations of `preRun`, `postRun` and `close` |
| `Start`, `PreRunSettled`, `GuestEnds`, `CloseSettled`, `PostRunSettled` | the stretches of `start` between its `await`s; `Promise.all` goes on when all are done or one has failed, while the others go on |
| `SourceFail`, `Deliver`, `SinkAccept`, `SinkClose`, `SinkFail` | external: the host's streams |
| `GuestStores`, `GuestCalls`, `GuestEnds` | external: the guest, which may store anywhere, call with any vector, return, trap or exit |
| `received`, `sent`, `told`, `got` | no code: what went through, for the properties |

The guest takes no step while a call of its own is under way: it is suspended by
asyncify or waits for a synchronous import. Chunks of the source have any length.
A sink copies a chunk when it accepts it (`SinkCopies`, assumption `SinksCopy`): the
chunk of the asynchronous adapter is a view of the guest's memory, and without
that assumption TLC finds `OutputIntact` violated, because the guest uses its
buffer again while the sink still has it. That is a demand on the streams that an
embedder passes, which no text of the repository makes.

**ByteStream** is the abstract specification of an output: `Write`, `Arrive`, `Close`
and `Abandon`. `ByteStreams` in WasiStart is its `Spec` under the mapping
`received <- Bytes(received)` and a sink that is being closed counting as open.

## 3. Runs

| Run | Question | Bounds | Distinct states |
|---|---|---|---|
| `descriptors` | Do the table and littlefs agree whatever is opened, closed and moved, and do rights stay within bounds and protect the assertions? | 1 preopened directory, 2 addresses, numbers 0-6 so that the allocation wraps, streams moved onto numbers that it will try, 3 right sets for opening and cutting down | 8,684 |
| `files` | Is the volume up to date after each call, with the copy of one of two handles? | 2 descriptors of one file, either of which may be renumbered onto the other's number, contents of up to 2 bytes, `FileMax` = 2 (a word is 6), offsets -1, 2 and 6: negative, beyond the end, beyond a word | 51,132 |
| `tree` | Does a handle keep to its file, a write reach the volume, a late write its own file, and an entry its times? | names `a`, `b` and one too long, with and without "/", paths two deep, room for one more entry, 1 descriptor besides the preopened one, 2 times | 25,038 |
| `call_frame` | Can the guest see that calls work on copies? | a frame of 6 bytes, a word of 16, a memory of 4; sizes 1, 2 and 14 (nearly a word), pointers 0, 1 and 3, vectors of up to 2 buffers, in and out of order and overlapping the results, and one of 17, whose length does not fit in a word | 351,392 |
| `stdin` | Does the guest read the input, in order and to its end, and does every iteration of a read get on? | 4 different bytes in chunks of any length, vectors of up to 3 buffers with empty ones in every place, both kinds of adapters, a source that may fail | 109,856 |
| `stdout` | Do the sinks get what the guest wrote, and its end, does the guest know, and does every iteration of a write get on? | 2 sinks that may fail, 3 bytes each, vectors of 0 to 3 buffers that overlap, an initial buffer of 1 byte that grows twice, both kinds of adapters | 764,304 |
| `start` | Does everything that is awaited end? (under fairness) | all 3 streams, each may fail; one byte of input, of output and of memory; guests with and without asyncify | 50,232 |
| `sync_noop` | "we currenty flush on all writes so this is a noop" | as `files` | violated |
| `lfs_errors` | `REQUIRE(false)` in `from_lfs_error` | as `tree` | violated |
| `renamed_writes` | "we currenty flush on all writes so this is a noop", of files renamed while open | as `tree` | violated |
| `exit_code` | "setting this option to true will cause `WASI.start` to return the exit code instead" | as `start`, without fairness | violated |
| `now_times` | "Timestamps are captured using `Date.now()`" | a clock that reaches 40, a word of 128 | violated |

Why these bounds are enough to be of interest: what the table can get wrong
involves two descriptors (the one that is moved and the one that is replaced) and
a number that is taken when the allocation reaches it; what files can get wrong
involves two handles of one file and one entry that is exchanged for another. A
frame goes wrong when one piece fills it or brings the offset around while another
is live, and copies go wrong when two ranges overlap. What adapters can get wrong
is one boundary of a chunk in one buffer, before or after an empty one, and one
failure of one stream while another one is still busy. The modules `MC...` give
the constants their values. No guard was added to keep a model finite but `Room`
in Streams (the guest writes `MaxSent` bytes to a sink at most) and `MaxNow` in
FileTimes: the sizes of files are bounded by `FileMax` and `Capacity` as they are by
littlefs, descriptors by the addresses in `Addr` (an open for which none is left is
not made), numbers by `MaxFd`, and paths by the arguments, since the tree holds no
more than `Capacity` entries.

`View` takes out of `ret` which errno it is: no guard and no property looks at
that. Symmetry is over `Addr`, whose members only name objects, and is
used in runs of safety properties only.

**Fairness.** Only `start` has any (`FairSpec`), and only weak fairness, of four
kinds: the event loop runs a job whose promise is settled (`Start`, `Await`, the
iterations of a call, the continuations of `preRun`, `postRun` and `close`); the
source delivers, ends or fails (`PreRunRead \/ PreRunEnd`, and the pull inside
`ReadStep`); a sink accepts or closes, or fails; and an exception of an import ends
the guest, since nothing of the guest can catch it. Nothing makes the guest call, or
end, and nothing makes a stream fail. Without the fairness of the host there is
nothing to show: the README of the repository leaves it to the embedder to read
the outputs. `MemFS` and `CallFrame` need no fairness: calls are synchronous.

The violated properties are disagreements between what a comment, the documentation
or an assertion says and what the code does:

- `SyncIsNoop`: open a file that has contents with `O_TRUNC`; `fd_sync` returns
  success and the volume still has the old contents.
- `LfsErrorsKnown`: create a name longer than littlefs takes, or fill the volume;
  the guest ends in `REQUIRE(false)` rather than getting an errno.
- `RenamedFilesAreFlushed`: open a file, rename it, write through the descriptor; the
  call answers success, and the bytes are stored nowhere, then or later, although the
  file is there under its new name. `WritesAreFlushed` is the part that holds: it
  excepts files that were removed or replaced, whose contents nobody can read any
  more but through the handle, and files that were renamed while they were open.
- `ExitIsReported`: the guest calls `proc_exit`, and a stream fails while `start`
  closes or flushes it; what `start` throws is the failure of the stream.
- `NowIsDateNow`: `set_file_times` multiplies milliseconds by 10000000, not by
  1000000, and does so in 32 bits.

What the models reach and no text of the repository decides, so that no property
says it: without `streamStdio`, a vector that begins with an empty buffer reads 0
bytes although input is left (`ZeroMeansEnd` has that exception); a write of no
buffers to a stream that was not given throws in `DevNull.writev`; buffers larger
than the frame end the guest, also in calls that would answer `ENOSYS`;
a vector whose length in bytes overflows a word is not refused, and for `fd_write`
leaves the frame (`ViewsApart` has that exception); a renumbering onto 0, 1 or 2 ends
the guest in the `REQUIRE` of `fd_renumber`, because `fd_close` frees no such number
(the README of the repository lists it as unfinished);
`fd_allocate` beyond 32 bits may shrink a file, and on a descriptor without
`FD_WRITE` it ends the guest; setting the times of a path that is gone succeeds; a
descriptor may pass on rights that the directory it was opened through does not.

## 4. Proofs

Everything in this section holds for every value of the constants that satisfies
the named assumptions in the modules; TLC evaluates those in every run. Each
proof module begins with its argument; the following is the outline.

**MemFS_proofs** (on `LittleFS_proofs`, the lemmas on the operators of the library)
proves, from `LittleFSAssumption`, `MemFSAssumption` and `FsAssumption`:

| Theorem | Statement |
|---|---|
| `Invariance` | `Spec => []IInv` |
| `TypeCorrectness`, `Ownership`, `PreopensStay`, `AccessorSafety`, `RightsMatchHandles` | `Spec => []P` for `TypeOK`, `OwnershipInv`, `PreopensPinned`, `AccessorsSafe`, `RightsInv` |
| `RightsOnlyShrink` | `Spec => RightsAttenuate` |
| `Refinement` | `Spec => TableSpec` |

`AccessorsSafe` is about the answer of a call and not inductive: a call stays clear
of the assertions because `lookup_fd` finds a descriptor that is no stream, whose
type is right and whose rights are there. For `file()` one needs that every
descriptor that is no stream was opened by `path_open` or preopened (`StreamsInv`:
streams are exactly those with the addresses 0-2) and that the preopened ones are
directories (`PreopensPinned`); for "the handle is open" that littlefs's list has
every address of the table (`OwnershipInv`); for "opened for reading or writing"
that rights and flags match (`RightsInv`), which in turn needs that
`rights_granted` takes `FD_READ` and `FD_WRITE` from directories and that
`fd_fdstat_set_rights` only cuts. `IInv` is the conjunction of these with `TypeOK`,
and `NextIInv` shows that a step keeps it and at the same time is one of four
kinds of step (`TableStep`): `Quiet` (no number changes hands, rights only shrink),
`Closing`, `Moving` or `Opening`. The action property and the refinement follow
from that classification alone. There is one lemma per call (`ReadStep`,
`RenumberStep`, ...), over shared ones for what they have in common.

**MemFS_tree_proofs** (on `LittleFS_tree_proofs`, what the library's operators do to
the shape of a volume) is about the contents of the volume, from the same
assumptions:

| Theorem | Statement |
|---|---|
| `TreeInvariance` | `Spec => []TreeInv` |
| `HandlesStayAttached`, `LittlePending` | `Spec => []P` for `AttachedHandles`, `PendingOnlyTruncation` |
| `Lawfulness` | `Spec => [][Lawful]_vars` |
| `ChangesAreFlushed`, `OwnCopyCommitted`, `TimesStay` | `Spec => P` for `WritesAreFlushed`, `CommitsOwnCopy`, `TimesKept` |

They are one induction. A sync writes where its handle says, and a handle stays
attached to a regular file because a rename puts nothing below a file. For that
`TreeInv` has `Nested`: every strict prefix of an entry is a directory of the tree, which
follows from what littlefs refuses and removes, whatever `memfs.cc` does, and is
therefore a lemma here and no property of its own. Said of all prefixes, and not
of the last one only, it makes an induction over the length of paths superfluous.
Besides keeping `TreeInv`, a step is `Lawful`:
it flushes what it changes, commits nothing but a handle's own copy, and keeps
times. Each call is one of a few kinds of step (it leaves the volume alone, syncs
a handle, frees one, makes, removes or renames an entry, sets times, opens), and
there is a lemma for each kind and one that brings each call to its kind.
`CommitsOwnCopy` was first stated by number (the file changed is that of a
descriptor whose number had it before and after); the proof attempt failed at
`fd_renumber`, which closes the descriptor it replaces and so stores a pending
truncation while its number goes on under another one. The property now names
the descriptor by its address; the `files` run checks it with two handles of one file
and renumberings, the `tree` run with removals and renames.

**CallFrame_proofs** proves from `CallFrameAssumption`:

| Theorem | Statement |
|---|---|
| `Invariance` | `Spec => []IInv` |
| `ThmTypeOK`, `ThmViewsApart`, `ThmTransparent`, `ThmResultsArrive` | `Spec => []P` for `TypeOK`, `ViewsApart`, `Transparent`, `ResultsArrive`; the last two say what a call that returned has left in the guest's memory, nothing of one that ends the guest |

That the pieces of a frame are apart is a matter of the offset: it is compared
after it was increased, modulo a word, so that it could only come back to a small
number through a piece of nearly a word. An input or a result of such a size is
refused by `copy_in`, whose length is then negative, before the next piece is asked
for. The room for a resolved path is not copied from anywhere, but its size is
the size of an input that was, plus the length of a directory's path (`Guarded`).
This is why no piece that `alloc` grants is wrong, although it checks after the addition,
and it needs the assumption that a frame is at most half of a word and that
directories' paths are short of a word by two frames. It is an argument about pieces:
what a wrapper makes of one is a span of the count that the guest gave, and where
the product of count and size was cut down the span is longer. A vector that is
written from is then walked beyond the frame (`"overrun"`), which no theorem excludes,
and of which `IInv` keeps only the types; up to there all of it holds (`Sound`). With `Laid` (pieces behind one another,
up to the offset), `Sound` follows the bytes: views are of the guest's memory
(`Aimed`), hold what is there until the method begins (`Fresh`), and afterwards a
byte of the guest's memory is what the method left in the views, or will be when
the views that are still alive are destroyed (`Copied`, `Arrived`).

**WasiStart_proofs** proves from `StreamsAssumption`, `WasiStartAssumption` and
`SinksCopy`:

| Theorem | Statement |
|---|---|
| `Invariance` | `Spec => []IInv` |
| `ThmOutputIntact`, `ThmWritesCounted`, `ThmAnswerMeansFlushed` | `Spec => []P` for `OutputIntact`, `WritesCounted`, `AnswerMeansFlushed` |
| `ThmByteStreams` | `Spec => ByteStreams` |

The argument is conservation. The bytes that `fd_write` has passed on to a sink
are, in this order, those that it has received, those of the chunk under way
(`Flying`) and those that a synchronous adapter holds back (`Held`). A chunk under
way is a view of the guest's memory only while the guest waits for it (`Queued`), and
memory does not change then; this is where an `await` that is left out breaks the
proof. `Accounted` counts what the call under way has passed on and not told yet.
`Ending` and `Closing` say how far the jobs of the `finally` block are, from which
follows what an answer of `start` means. A step of the model is a step of `ByteStream`
on each output, or none: most are neither's concern, and the rest lengthen `sent`
or move the head of what is missing from it to `received`.

**WasiStart_input_proofs** is about the other direction, and about the calls
themselves, from the same assumptions:

| Theorem | Statement |
|---|---|
| `InputInvariance` | `Spec => [](IInv /\ InputInv)` |
| `ThmTypeOK`, `ThmReadsInOrder` | `Spec => []P` for `TypeOK`, `ReadsInOrder` |
| `ThmZeroMeansEnd`, `ThmSyncWritesSucceed`, `ThmCallsAdvance` | `Spec => P` for the action properties of these names |

Again it is conservation. The bytes that the source has delivered are, in this
order, those that the guest has found in its buffers after calls, those that the
call under way has stored there (`Arrived`) and those pending in the adapter
(`Delivered`). `ReadsInOrder`, which speaks of the time between calls, is not
inductive because a call stores its bytes in memory first, buffer by buffer, and
the guest finds them at the end: the proof follows the places of memory that a
vector names, in order (`Places`). What a call has left to fill are the places
after those it has counted (`Left`); a byte stored goes to the next one, and
overwrites none that was stored before because a vector for reading names no
place twice, as `StreamsAssumption` demands of it. `Left` has an
exception: when the input has run out the synchronous loop has
dropped the rest of a buffer that it filled in part, and then goes on to a buffer
behind it, where it stores nothing only because nothing is pending and nothing
arrives any more (`Collected`: without `streamStdio` the guest starts when the whole
input is there). `ThmZeroMeansEnd` follows: a call that has counted nothing and
ends has all its places left, so that it ends for want of places or of input.
`InputInv` was checked by TLC with the constants of `stdin` before it was proved.

`ThmSyncWritesSucceed` rests on `GrownEnough`: as often as the loop in `writev` of
the synchronous adapter multiplies by 1.5, each time adds at least half a byte, so
that twice the required size is a bound on the number of iterations, and what
is left after cutting the part of a byte off is still enough, for every initial
size but 0.

`ThmCallsAdvance` is what the code contributes to `CallsEnd`. `Ahead` is twice
the number of the buffers left of a call; of a read, twice that of their bytes
and one more while a chunk has to be pulled; of a write, one more while it does
not wait for one. It is a natural number, and every
iteration of `readv` or `writev` after which the call goes on makes it smaller. What
remains for fairness is that an iteration happens. A source may also deliver
chunks of no bytes, over which `readv` goes around once each; the model leaves
those out, as they change nothing else.

**Induction_proofs** has the facts about sequences these proofs need: what
`FlattenSeq` of the community modules is for a sequence with one more at its end or
at its front, its elements, that it repeats none if the sequences it is made of
do not, and that it commutes with a map. The induction theorems of the library
take an operator, which the provers do not instantiate; here induction is stated
with sets (`Induction`, `IntervalInduction`, `SequenceInduction`: a set that has the
first element and with each one the next has all), and proved from a minimal
counterexample in a well-founded order. `RecursionExists` shows in the same way
that a recursive function exists, which TLA+'s `CHOOSE` leaves to prove.

**Only model-checked.** The liveness properties `Settles`, `EachFlushed`, `CallsEnd`
and `GuestStarts`: they need fairness, and with it `ENABLED`, which is out of the
prover's reach. The invariants and action properties of the passing runs are all
theorems. No module here has a `RECURSIVE` operator.

## 5. Not modelled, and what could follow

- littlefs and asyncify themselves: their sources are not in the tree.
  `LittleFS` is external, a suspended guest takes no step.
- The composition of the streams with the table (`fd_read` and `fd_write` after
  `fd_renumber` of a stream): `index.ts` routes 0-2 to the streams whatever the table
  says of these numbers, and the README of the repository lists "fd_renumber
  (stdio)" as unfinished.
- Instantiation of `memfs.wasm` and the JSON of the initial contents; logging
  (`helpers.ts`, the text of traces); `global.d.ts`; tests, drivers and build.
- `args_*` and `environ_*` (a pure computation of two loops over the same
  encoding), `random_get` (a limit of the host's function), and the calls of
  `index.ts` that only answer `ENOSYS` or success.
- In what is modelled: "." and ".." inside of paths, vectors of several buffers in
  MemFS, what a call does with a span that is longer than its piece (`"overrun"`),
  vectors given to the streams that lie outside of the guest's memory (the
  exception of the typed array is one more way in which the guest ends).

What could follow, in this order: the composition of `MemFS` with the routing of `index.ts` once
stdio can be renumbered; several buffers per vector in `MemFS`, so that the error of
one in the middle is visible should `memfs.cc` ever return it.
