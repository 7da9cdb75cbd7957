# Orkestrator in TLA+

Orkestrator keeps a directory on a second machine up to date without scanning
it. BPF hooks in the kernel report what applications do to the directory; a
user-space *capturer* turns the reports into a batch of records; a *recorder*
fetches ("harvests") the batch over a Unix socket and has it replayed on the
*peer*. The promise throughout is **fail closed**: a harvest is either complete
or an error, never quietly incomplete. This directory models the parts of the
code that carry that promise, checks them with TLC and proves some of it with
TLAPS.

Contents: [system](#the-system) · [modules](#modules-and-the-code) ·
[runs](#runs) · [what the code does not keep](#disagreements-found) ·
[proofs](#proofs) · [limits](#what-is-not-modelled) · [plan](#plan)

    tlc -config MCRunFaults.cfg MCRunPoint        # a run
    tlapm RunPointProofs.tla                      # the proofs of a module

## The system

    application threads                         recorder.py, peer.py,
      |  mkdir, rename, write, io_submit        experiment.py, demo/kasus.py
      v                                              |  GET        ^ size + batch
    kernel  --fentry/fexit hooks--> ring buffer --> capturer -- Unix socket
    (VFS)   <-- tracked_dirs, pending maps,         (statediff_vfs.c)
                dio_inflight                             ssh | batch
                (statediff_vfs.bpf.c)                        v
                                                    statediff_apply_vfs.c -> backup

| component | state it keeps | operations |
|---|---|---|
| BPF hooks, `statediff_vfs.bpf.c` | maps `tracked_dirs`, `pending_*` (one entry per thread in a call), `dio_inflight`, `mmap_files`; loss counters; the ring buffer `rb` | a fentry and a fexit hook around each VFS function: the first notes the arguments and decides whether the call concerns a tracked directory, the second maintains the maps and writes the event |
| capturer, `statediff_vfs.c` | tables `dirs` (inode to path) and `files`, the table `dios` of tentative AIO writes, `batch`, `batch_error`, its client | `handle_event` for each event of the ring; accept; on `GET` drain the ring, check for losses, send the batch, clear it; answer with an error and exit when something was lost |
| applier, `statediff_apply_vfs.c` | the backup's tree | apply the records of a batch in order, stop at the first that fails |
| recorder and peer, `recorder.py`, `peer.py` | socket, sizes received, the peer's directory | start, drain (harvest and discard), sync (harvest and apply), stop; seed by rsync, apply over ssh, verify by comparison |
| experiment and demo, `experiment.py`, `workload.py`, `demo/kasus.py` | none of their own | order of populate, seed, drain, change, sync, verify |
| todo-go batcher, `batcher.go` | request channel, current batch, stop and done channels | Submit, collect for a window, flush, Stop and drain |

They interact through shared state (the BPF maps are written by hooks on every
CPU *and* by the capturer, which removes keys of directories it believes gone),
through queues (ring buffer, socket) and through files. What is hard about it:

- **Two views of one tree.** Hooks know inodes, records need paths. The
  capturer follows the tree from events that arrive later than what they
  describe, while `tracked_dirs`, which decides what is seen at all, is updated
  on the spot. Inode numbers come back.
- **Interleaving.** A call is not atomic: its fentry hook, its effect, its
  fexit hook and its event are separate moments; other threads and the
  capturer run in between. Order in the ring follows from which locks
  the kernel still holds when the fexit hook runs; creates hold none.
- **Renames are more than renames.** `renameat2` may be told not to replace, or to
  make two entries change places; the flags travel through event and record to
  the applier, which refuses an exchange, while the capturer's tables take it for a
  plain rename until then.
- **Asynchronous writes.** The payload and the completion of an AIO write are
  reported by different hooks, in either order, keyed by a user address that
  the application may reuse at once.
- **Full buffers and failing reads** have to end in a counter, and a counter in
  an error.
- **Content without a lock.** The hooks that report a write, a truncate or an
  allocation run when the inode's lock is gone, under the name noted when the
  call began; a store through a mapping passes no hook at all, and is found by
  the writeback of its page.
- **A harvest in pieces.** The check for losses, the pieces of the reply, the
  send timeout, and the clearing of the batch are separate; the capturer may be
  killed between any two.
- **A peer prepared in two steps.** Copy the directory, then forget what was
  captured so far: sound only if nobody writes in between.

What makes each part correct: the backup equals the primary whenever a capture
that reported no loss has been delivered (`FailClosed`); a backup that had the earlier
batches refuses one only for an exchange in it or because it has too many records
(`Replayable`; with moves across the boundary also for the `UNLINK` of a directory that
moved out, `ReplayableAcross`); hooks cover every
directory (`DirsTracked`) and the table names every one by its present path
(`TablesAgree`), both until an exchange waits to be refused; the ring is in execution order per directory
(`DirectoryOrder`); the backup of a database is a state its primary was in
(`WriteOrder`), no write is forgotten in the table (`NothingStranded`), no
capture fails for nothing (`NoFalseAlarm`), mapped files are known by their
present path (`PathsCurrent`); harvests hand over each change once,
in order (`InOrderOnce`), a verified run lost nothing but what the seed
procedure exposes (`OnlyWindowLost`), and a run ends (`Terminates`). The service
whose writes are captured answers each of them once, truthfully
(`ServesWrites`), also while it stops (`AcceptedAnswered`, `StopEnds`).

## Modules and the code

Definitions keep the source's names; `PROJECT.json` lists for each the lines it
translates. Definitions commented *mutant* are plausible bugs; no
specification uses them. Each shows that a property can fail.

**Replay** (no state) is `statediff_apply_vfs.c`: a tree is a function from
paths to `Dir` or a sequence of cells, and `apply_*` return the new tree and
whether it worked. It includes what a naive reading skips: missing parents are
made, an unlink or rmdir of nothing succeeds, rename refuses EXCHANGE before and
NOREPLACE after the parents are made, a batch of more than `MaxRecords` records
(`MAX_REPLAY_RECORDS`) is refused before its first (`ApplyBatch`), nothing is rolled
back. A cell stands for any number of bytes. Owner, mode and times are left out.

**TrackedTree** is the capture of `mkdir`, `rmdir`, `create`, `unlink` and
`rename`, end to end. A thread's call goes through `Enter*` (parents locked,
fentry hook), `Vfs*` (the effect; rmdir and rename may find their target
non-empty), `*_ret` (the part of the fexit hook that updates `tracked_dirs`) and
`emit_pending_event`. `create` has only a fexit hook, on `do_filp_open`, after
the lock is gone (`VfsCreate`, `handle_do_filp_open`). `handle_event` has one
disjunct per branch of its source: rename within, out of and into the tree;
directory keys removed from the kernel's map by the capturer
(`remove_dir_subtree`); the walk of the disk as it is *now* (`seed_dir`).
A rename has the flags of `renameat2` (`RenameFlags`): NOREPLACE wants the new name
free, EXCHANGE makes the two subtrees change places (`SwapSubtrees`), whatever
kind they are. An exchange inside the tree is captured as a rename that the applier
refuses (`statediff_apply_vfs.c:256`), which ends the run with an error. Until then
the table is wrong if directories are involved: `move_dir_subtree` rewrites one of the
two, and an rmdir of either then takes both out of `tracked_dirs`. `ToBeRefused` names
this stretch of time; `DirsTracked` and `TablesAgree` claim nothing in it. An exchange
across the boundary is refused by nobody (see "Disagreements found").
`capture_and_send` is a harvest and its replay, here one step; what happens
inside is RunPoint's subject. Kernel facts the hooks rely on (directory locks,
the cross-directory rename mutex, references that keep an inode from
reuse, a dentry that moves with its file) are external definitions.

**DirectIo** is native AIO. `handle_io_submit_one` registers the iocb's address
and the kernel starts or refuses the request; the fexit hook
(`handle_io_submit_one_exit`, `dio_emit_one`, `EmitDone`, `EmitAbort`) reads the
iocb and its buffer *as they are by then*, segment by segment;
`handle_aio_complete_rw` may come before, between or after. In the capturer
`dio_stage_segment`, `dio_submit_done`, `dio_note_completion`, `dio_abort` fill an
entry and `dio_flush_completed` commits in completion order. Reads,
short writes, requests on uncaptured files, segments too long for an event,
failing reads of user memory, a full ring and a full `dio_inflight` are all
there. `write(2)` is one step with its event: the application starts nothing
over bytes of a write it has not seen the end of (`Clear`), so no step of
another thread in between can matter to those bytes. That discipline is the application's; what it
may do with an iocb is a constant (`SharedReap`).

**FileData** is file content, from the system call to the backup. A call is
`Enter` (the fentry hooks, which note the name and the arguments), its effect
(`vfs_write`, `do_truncate`, `vfs_fallocate`; external, under the inode's lock) and
its fexit hook: `handle_vfs_write_ret` sends a chunk per step and
`writev_emit_seg` a segment per step, `handle_vfs_fallocate_ret` chooses the event
(a size read *now*, a zeroed range, or a count for a mode that cannot be replayed),
`emit_pending_event` writes it. Names change by `vfs_unlink` and `vfs_rename`
(plain, NOREPLACE or EXCHANGE), also under an open file. With `--mmap-snapshot` there are `mmap_files`, stores
(`Store`), writeback of a dirty page whenever the kernel likes
(`handle_folio_start_writeback`) and in a harvest (`snapshot_mmap_files`: flush
the remembered path of every mapped file, one file after the other, then drain
again); `snapshot_range`
reads what the path leads to *by then*. One tracked directory is enough, since
paths of directories are TrackedTree's subject. A cell is a page, an event takes
`ChunkLimit` of them. `Orderly` is the discipline of the application, written out
in operators of their own: calls that overlap in time on one file are appends or
writes of different cells; only files with a name are changed or mapped; names change
only when nothing is under way on the file; a file is renamed only while it is not
mapped, and not to a name that a mapped file has or had; an exchange is a rename of both files.

**Batcher** is `batcher.go`: one goroutine per `Submit`, one for `loop`, one that
may call `Stop`. A `select` is a disjunction, so any ready case may be taken;
the window's timer may fire at any time. `first` and `collect` are the two selects
of `loop`, `WriteParameterized` and `flush` the call of the database, `respond` the
answers, `drain` the end. `response` has room for one answer per request. The
database is external: it runs the statements of a batch one by one (the
connection is set to no transaction), any of them may fail, the call may fail
after any of them, or return too few results. It is assumed to run a
statement once and nothing after it has returned.

**WriteService** is what Batcher implements: a queue in front of a log. Accepted
writes leave the queue in their turn, executed or given up, and are answered
after that; success means executed. The refinement maps the queue to the
statements of the batch that have not been tried, followed by the channel.

**RunPoint** is one run as `run_point` and `kasus_3` order it, with the
capturer's loop, its socket and the recorder's side of the protocol. A reply is
sent and received item by item. `consume_ring`, `service_capture_socket`,
`capture_and_send`, `send_batch`, `SendTimesOut` and `Exit` are the capturer;
`Ask`, `RecvSize`, `RecvBody`, `RecvEof` are `_harvest`; `Harvested` is what drain
(discard) and sync (keep, then `push_and_apply`, a record per step) do with a reply;
`seed` copies block by block; `Write` is the run's own workload or, with `Service`, a service
that keeps writing. Here the directory is a set of blocks: names and trees do
not matter to the protocol.

**Handover** is the abstract specification RunPoint implements: a log of
changes, and what was handed over is a prefix of it that only grows. The
refinement mapping is the identity on `log` and `taken`.

**TrackedTreeProofs**, **CaptureProofs** (on top of it), **ReplayProofs** (paths, trees and
the replay of a batch), **RunPointProofs**, **BatcherProofs**, **DirectIoProofs**,
**FileDataProofs** and **FileContentProofs** (on top of it and of ReplayProofs) hold the
proofs; **MC\*** hold trees,
instances, symmetry sets and a constraint for TLC.

Ghost variables, which no action reads to decide anything: `clock` and `at` (when a call
executed; also the bound on calls), `past`, `log`, `taken`, `window`; in FileData `asked` and `delivered`, which
say that the last harvest was served, began when no call was under way, and nothing
was started since.
`populate` compares `log` with `taken` only to stop a run from draining without
end, as `populate_file` drains once per piece it has written.

## Runs

Bounds are constants: `MaxOps`, `MaxWrites` and the `ops` and `cells` of a FileData
instance limit how many operations start and how long a file gets; `Requests`
is the number of Submits; everything else is a size the code has too. All runs turn deadlock checking off:
once the bound is reached, or the capture has failed, the system stops.

| run | instance | shows |
|---|---|---|
| MCTreeSingle | 1 thread, all 5 operations, 4 calls, up to 6 inodes, 2 names, ring 6; plain renames and exchanges; `MaxRecords` 3; starts from the empty directory or one subdirectory | `TypeOK`, `FailClosed`, `Replayable`, `DirsTracked`, `TablesAgree`, with the capturer and harvests at every point in between |
| MCTreeThreads | 2 threads, rmdir, unlink, rename and exchange, 3 calls, `MaxRecords` 2, on two levels of directories with files | `FailClosed`, `Replayable`, `TablesAgree`, `DirectoryOrder` under every interleaving |
| MCTreeBoundary | 1 thread, mkdir, rmdir, unlink, rename (plain and NOREPLACE), 3 calls, a directory with a file outside the tree, one with a file and a subdirectory inside, ring 1, `MaxRecords` 2 | `FailClosed` and `ReplayableAcross` across the boundary and with a ring that fills |
| MCDioSingle | 1 thread, 2 iocbs, a captured and another file, 2 cells, every kind, `write(2)`, faults, ring 3, `dio_inflight` 1 | `TypeOK`, `FailClosed`, `NoFalseAlarm` |
| MCDioThreads | 2 threads, 2 iocbs, 2 cells, segments that do not fit | `FailClosed`, `WriteOrder`, `NothingStranded` |
| MCFileData | three instances in one run. *Limits*: call after call, faults, 2 calls of up to 3 cells, events of 1 cell, 2 chunks, 2 segments, ring 2. *Calls*: 2 threads, 3 calls of any kind with unlink and the three kinds of rename, 2 files, ring 3. *Mappings*: 3 operations among mmap, store, write, truncate, unlink, rename, exchange, with writeback at any time. `MaxRecords` 2 in all | `TypeOK`, `FailClosed`, `Replayable`, `PathsCurrent` |
| MCBatcher | 3 writes, channel of 2, batches of 1 or 2, stop at any time, every failure of the database | `TypeOK`, `ServesWrites`, `AcceptedAnswered`, `StopEnds` |
| MCRunFaults | service and faults on, 2 blocks, 4 writes, ring 2, socket 2 | `TypeOK`, `OnlyWindowLost`, `InOrderOnce`, `Terminates` |

The bounds are small but reach what the properties are about. Four calls make,
fill, move and move again a nested directory, or replace one, or make two directories,
exchange them and remove one; `MaxRecords` lies below the number of records a
run can have waiting, so that batches within and beyond it are harvested (in DirectIo,
whose properties do not turn on it, it lies above); three calls of two
threads let one rename run between the halves of another, with a third that
needs the outcome; deeper trees only repeat the prefix rewriting
that depth two already exercises. Two AIO writes are the least in which one
overtakes another, two cells the least in which a result ends between segments
or inside one. A socket of two items blocks in the middle of a reply of two
changes; a write of three cells is the least that two chunks cannot carry, and one
of two the least that does not fit in one event; three operations map, rename over
and store, or write under a name that the next two change; a batch of one with two
more in the channel blocks the third handler, a batch of two shows answers going
to the wrong request. Four writes fill a ring of two, are split over seed, drain and sync, and
leave something for each. Inodes i2..i5 are symmetric when they are all fresh;
cookies and threads are; `DirectIo` has no liveness property, so symmetry is sound.

**Fairness** is used twice. `RunPoint!FairSpec`: weak fairness of the
capturer's loop (`Daemon`: epoll returns for a ring with events, a waiting
client or a command, and a `send` that can proceed does), of the recorder's
reading (`Harvest`) and of its program (`Run`). Nothing obliges anyone to write,
to time out, to fail or to die: `Terminates` holds because a full socket is being
read, an empty one is being filled, or it is closed and the reader sees
the end; a recorder without a receive timeout needs all three.
`Batcher!FairSpec`: weak fairness of `loop`, of the return of `Stop` and of every
`Submit` that has its answer: the Go scheduler runs a goroutine that can
run, the timer of the window fires, the client library's calls return. That a
`Submit` finds room is not assumed. MCBatcher uses no symmetry, since it checks
liveness.

Assumptions a reader should know: `MCTreeSingle` and the threads runs hand out
each inode number once, `DirsTracked` is checked for one thread, and
`NoFalseAlarm` for one thread. The first two are what the next section
refutes in general. With two threads a held-back AIO entry can meet the next
use of its own iocb address: the capture then ends with an error though nothing
was lost, which is a false alarm but fail closed. MCFileData assumes
`Orderly`. Without it TLC refutes `FailClosed`, in four ways: of
two overlapping writes that run at the same time the older is recorded last,
since fexit hooks run without the lock; a file renamed in the middle of a write
is recorded under its old name after the rename; a write to an unlinked file
that is still open makes the file again on the backup; and a page that was written
back is read late, by name, so a file renamed to the name that a mapped file has or had
lends it its bytes (three files and six operations). A database that locks its
own pages and keeps temporary files out of the captured directory stays within
`Orderly`; an arbitrary program need not.
`AcceptedAnswered` speaks of writes accepted before `Stop`: a `Submit` whose
select picks the channel after `drain` has seen it empty waits for ever. No code
here calls `Stop`.

## Disagreements found

The operator's guide (`src/demo/ebpf/doc/statediff-vfs-bpf-panduan.html:1878`)
says that whenever data is not captured completely one of the counters rises,
and (line 941) that a new directory is registered at once; the usage text of the
capturer says what `--mmap-snapshot` captures. Four runs end in a counterexample
to what the code says of itself:

| run | what happens |
|---|---|
| MCTreeCreateDrop | `handle_do_filp_open` returns without counting when the ring is full: the file is missing on the backup, no error |
| MCTreeReuse | rmdir, then mkdir that gets the same inode number: the capturer, late, removes the *new* directory's key from `tracked_dirs` |
| MCDioMixed | a completed AIO write waits in the table behind an earlier one; a later `write(2)` of the same bytes is recorded first, and the older data is replayed last |
| MCFileMmapRenamed | the table of files is not touched by a rename: pages stored through a mapping afterwards are flushed and read at the old path, where there is nothing, and the harvest succeeds without them |

Four more need no run of their own; each is one constant away from a run above:

- `RENAME_EXCHANGE` of a captured file with one outside is recorded as an `UNLINK` of the old
  path: nothing tells of the file that came in, no counter rises and the harvest
  succeeds (`FailClosed` in MCTreeBoundary with `"exchange"` in `RenameFlags`, after one call);
- a directory made inside one whose mkdir has not reached its fexit hook is not
  registered (`DirsTracked` with two threads and mkdir);
- an iocb that another thread reaps and reuses before the fexit hook reads it has the
  new request's data staged for the old write (`DirectIo!FailClosed` with
  `SharedReap = TRUE`);
- a service that writes between rsync's copy and the drain loses that write:
  `OnlyWindowLost` says that this window is all that is lost.

MCDioMixed has a CONSTRAINT (`Narrow`) that follows only histories without
losses, refusals and short writes: it narrows the search for a counterexample
and supports no claim that something holds.

Two things end a run with an error though nothing was lost, and are no breach of fail
closed: an exchange inside the tree, and a directory that moves out of it, for which
`handle_event` writes an `UNLINK` that cannot be replayed (`UnlinksDir`). Neither is
reported by the capturer; the applier finds it, after the capturer has cleared the batch.

`FailClosed` passes where these cases are excluded by constants: rings that hold
what is written whenever creates are used, no inode reuse, no mkdir with two
threads, no exchange where there is something outside the tree, `SharedReap = FALSE`,
no `write(2)` beside two AIO threads, `Orderly`.

## Proofs

All proofs hold for every value of the constants under the named assumptions of
the modules (`TreeAssumption`, `RunPointAssumption`, `BatcherAssumption`,
`DioAssumption`, `NoOpAssumption`, `FileAssumption`, `DirAssumption`, `LimitAssumption`), which TLC
evaluates in every run. They say what kind of value a constant is: sizes are natural numbers, a
channel and a batch have room for one request, files of FileData are finitely many and
may have at least one cell, a directory is not a content, a thread outside the kernel is
not a call, and an initial tree is a file
system (`IsFileSystem`: a root, entries only in directories, one path to a
directory; hard links to files are allowed). Some theorems have a further hypothesis,
in their statement; why is said below.

- **`TypeCorrect`** (TrackedTreeProofs): `Spec => []TypeOK`. `TypeOK` is
  `KernelTypeOK`, `HookTypeOK` and `CapturerTypeOK`; part of it is not shallow: a
  call past its effect has an inode as its object, which is what makes
  events and table keys well formed. Every action has its lemma, built on lemmas
  about paths and trees (`RebasePath`, `MoveTree`) and about the tables
  (`RemoveTyped`, `MoveTyped`, `SeedTyped`).
- **`EventsOrdered`** (TrackedTreeProofs): `Spec => []DirectoryOrder`. That
  property is not inductive; `OrderInv` adds that two calls never hold
  one lock (`LockedApart`), that stamps lie in the past (`Stamped`), and
  that a call which has executed is later than any event in the ring about a
  directory it still has locked (`AfterRing`). The last carries the proof: when the event
  is written, whatever touches the same directory is already in the ring and
  earlier, because the lock was held from before the effect. A create holds no
  lock by then, which is why the property excepts it.
- **`Tracked`**, **`PathsKnown`**, **`BackupEqual`**, **`BatchesApply`** (CaptureProofs):
  `DirsTracked`, `TablesAgree`, `FailClosed` and `Replayable` of TrackedTree, the
  promise of the capture, for any tree, names, calls, ring size and delay of the
  capturer. All four follow from one invariant, `CaptureInv`. None of the properties is
  inductive, since each speaks of the moment when nothing is on its way, and the capturer
  reads the disk as it is *now* while the events it handles are old. The invariant
  says what is to come (`Ahead`): there is a table of directories and a backup for the present and one for
  after each event still in the ring, or about to be written by the call that has executed;
  each follows from the one before by what the capturer does with the event
  (`Handled`), and the last agrees with the tree (`Agrees`, and is a copy of it). A
  system call appends to the two sequences, a handled event takes off their heads, a harvest
  changes neither. Around it: directories are tracked but for the one
  a mkdir has just made (`Tracks`), what a call looked up under its locks still
  stands (`CallRight`), the tree stays a file system (`Sound`).

  `RENAME_EXCHANGE` is among the calls, and breaks this argument: what `Handled` does
  with its event does not lead to the tree. The invariant then goes over to a weaker one,
  `Doomed`: the table follows the events up to the exchange, whose event is in the ring or
  about to be, so both its paths will resolve and its record will enter the batch;
  from there on `WithExchange(batch)` stays true (`ExchangeStays`) until the backup refuses the
  batch (`ExchangeRefused`), after which the run is over and nothing is claimed. So
  `FailClosed` needs no exception for exchanges, while `DirsTracked` and `TablesAgree`
  have one (`ToBeRefused`), and `Replayable` names the exchange and the length of the batch as
  the only reasons for a refusal.

  Hypotheses: `Alone` is one thread, nothing outside the captured tree, no inode
  number handed out again, room in `tracked_dirs` for every inode there is. Two of these are
  necessary as the code stands: with a second thread a directory made inside one whose mkdir has not returned
  is not registered, and MCTreeReuse shows what reuse does; a directory
  that moves in from outside is walked late, which needs an argument of its own and is
  left to MCTreeBoundary. The last two theorems add, as a conjunct on behaviours, `CreateHeard`: no create
  returns while the ring is full. That is exactly the uncounted loss of
  MCTreeCreateDrop; every other loss is counted, and covered by the theorems.
- **`Invariance`**, **`HandsOverInOrder`** (RunPointProofs): `Spec => InOrderOnce`,
  RunPoint implements Handover. The prefix property says nothing about data on
  the way, so the invariant `Inv` places every write: `TakenFirst` (what was
  taken is the start of the log), `SizeInFlight` and `BodyInFlight` (what arrived
  of a reply is what comes next, and the announced size stays within the log),
  `SizeSending` and `BodySending` (what is unsent is the rest of the batch),
  `Kept` (as long as nothing was lost, batch and ring hold exactly the
  remainder; a batch being sent passed the loss check), `Protocol` (which
  states of the two sides go together while the connection is open). A closed
  connection needs no `Kept`: nothing can be asked of it again. That is why a batch
  kept after a timeout does no harm, and why the timeout has to close the client.
  Sequences are compared position by position (`Segment`), so that every step is
  arithmetic on indices.
- **`TypeCorrect`**, **`VerifiedLostOnlyWindow`** (RunPointProofs):
  `Spec => []OnlyWindowLost`. On top of `Inv`, the peer's content is located in the
  log: it is, outside the window, what the directory was after the first *n*
  writes (`PeerAt`), where *n* is what has been taken, less what is still to be
  applied (`BroughtOver`). That the last *n* is the end of the log is a promise the
  reply makes earlier: from the moment the ring has been drained for it, it covers
  every write that matters (`ReplyCovers`), because nobody writes outside the
  window between that draining and the verification.
- **`Typed`**, **`ServesInOrder`** (BatcherProofs): `Spec => ServesWrites`, Batcher
  implements WriteService. The invariant: a request is in one place of batch and
  channel (`OnePlace`), and while it is there its Submit waits with an empty
  response channel (`Pending`), so that `respond` never finds one full and never
  answers twice; `answers` lines up with the batch (`Places`); a success is in the
  log wherever it is on its way: in the call of the database, in the answers, in
  the response channel (`GoodLogged`, `AnswersLogged`, `ResponseLogged`).
- **`TypesKept`**, **`NoneLeftBehind`** (DirectIoProofs): `Spec => []TypeOK`, and
  `Spec => []NothingStranded` for `~SharedReap`. Completed entries of `dios` own the
  places between the commit and the completion counter, one each, and the one
  whose turn it is is not ready (`Slots`, `Flushed`). For each iocb, as long as
  nothing was lost, payloads and completions go in pairs, counted over what is in
  the ring, in the table and still owed by a hook or by the kernel (`Balanced`); a payload that has begun to
  arrive has its end on the way (`Claimed`), a write in flight is registered
  (`Registered`). With the ring empty and no write under way the counts leave no
  entry with one half. The flush loop is followed without induction: the entries it
  commits are an interval of places, found as the least place that is not ready.
  The hypothesis is needed: with `SharedReap = TRUE` a hook reads the next
  request's iocb, and TLC finds an entry that stays for ever.
- **`WritesInOrder`**, **`QuietIsEqual`**, **`FailsForReason`** (DirectIoProofs):
  `WriteOrder`, `FailClosed` and `NoFalseAlarm` of DirectIo, for any number of iocbs,
  files, cells and operations, any size of event, ring and `dio_inflight`, with faults, for
  `~SharedReap`. The first two also hold for any number of threads, unless there are
  `write(2)`s: then for one thread, since MCDioMixed refutes
  `FailClosed` for two. The third is
  for one thread: with two, a reused iocb can be taken for a duplicate (see "Assumptions").

  An entry of the table says which iocb it belongs to, and not which *write*: that is
  what can go wrong when an iocb is used again. As long as nothing was lost (`Clean`), the
  invariant tells a `Story`: there are a numbering of the writes, a request
  for each number, and a log of every event ever written, of which the ring is the part
  that is not handled yet. `Emitted` is what the hooks guarantee of such a log: one done
  and one complete for each write or still owed (`Once`, `Owed`), the segments of a payload
  in order and with the request's data (`Payload`), an iocb's events write by write (`InOrder`), and, for
  every completion and `write(2)`, what the captured files held before and after it
  (`Effects`). `Handled` is what the capturer has made of its first part: an entry of the
  table holds exactly what the log tells of *one* write (`Told`), a write without an entry
  has been told in full, places in the completion order are places among the effects
  (`Counted`), and the backup, once the batch is applied, holds what the files held after
  as many effects as have been committed (`Filed`). So a commit brings the backup from
  one entry of that history to the next (`WriteOrder`), and once nothing is under way to
  the last of them (`FailClosed`). The loops of the code are recursive functions (`Staged`, `Taken`,
  `Written`, and the commits in `Finish`), which the lemmas take apart one step at a time.
  For `NoFalseAlarm`, `OwnAlone` shows that an event never meets the entry of an older write
  of its iocb: what holds that entry back is a completion without its payload; one
  thread sends payloads in the order it submits, so the write held for is younger than the
  one the event is of; but then it completed after the older write, which it was to precede.
- **`TypesAlways`**, **`PathsKept`** (FileDataProofs): `Spec => []TypeOK`, and
  `PathsCurrent` for an application that is `Orderly` in behaviours where every
  new mapping finds room in the ring (`MappingHeard`). A call's record stays within
  the file sizes it was started with (`Within`), which bounds contents. For paths:
  a name leads to the file whose dentry has it (`NamedRight`), a call on the content of a
  file noted the name it still has (`NotedRight`), and of a mapped file the last event
  in the ring that names it, or without one the table, tells its present name
  (`Known`). Both hypotheses are needed: a rename of a mapped file is
  run MCFileMmapRenamed; an MMAP event that finds the ring full is dropped and not
  counted, after which the capturer knows nothing of the file.
- **`ServedIsEqual`**, **`BatchesReplay`** (FileContentProofs): `FailClosed` and
  `Replayable` of FileData, the promise of the capture for content, under the same two
  hypotheses and no others: any number of threads, files, names and operations, any sizes of
  cells, chunks, segments and ring, with faults. `FailClosed` speaks of the one moment
  when a harvest has been served; the invariant, `ContentInv`, has to say what a batch is
  worth at every other.

  It compares the backup with the directory in a form of its own, a *table* of names, sizes
  and cells (`Tables`, `Shows`), because what a record does to a table is local: `After` says
  it name by name and cell by cell, and `RecordShown` that replaying the record on a copy
  showing a table gives one showing the table after. The batch and then the events in the ring
  lead to a table (`Leads`), and that table *follows* the directory (`Follows`): a name
  that no call is changing is there exactly if it is in the directory, and the content
  under it is that of the file, cell by cell, except for cells that are `Owed`, because a
  call has written them and not yet told, or `Stale`, because a page with them is dirty or on
  its way; a wrong size is put right by a call that is still to report
  (`LenRight`). A file in the middle of a rename is found under its former name
  (`Source`). Calls that end in a loss promise nothing (`Doomed`). An exchange is refused by the
  backup: while it is under way its two files are left out (`Swapping`), and from its
  event on nothing is compared any more (`Refusing`), since that event, in the ring
  or as a record, stays where it is until the batch is refused (`RefusingKept`). For
  `Replayable` that is the point: a batch without an exchange and within the limit is one
  of which every record applies (`Refusable`, `RefusedFor`).

  Three facts carry the steps. What a call has still to report is what the file holds
  (`SizesRight`), since the discipline keeps calls that are under way on one file to different
  cells (`Apart`): an event in the ring is then late but never wrong. A page is
  read when its event is *handled*, with the bytes of that moment, while events of
  older calls may still be behind it in the ring: the lemma `LeadsPatched` moves one cell's
  newer value through the rest of the ring, up to a later event that covers the cell or
  a truncate that cuts it off. And a page that was written back is only ever `Stale` as long
  as no event after it covers its cell. A flush that leaves no dirty page of a file with a
  name (`Clean`) and a ring that is empty leave nothing owed and nothing stale, and the
  table is the directory.

Only model-checked:

- `Terminates`, `AcceptedAnswered`, `StopEnds`: liveness, out of the prover's reach.
- `FailClosed`, `Replayable`, `TablesAgree` of TrackedTree with two threads (MCTreeThreads)
  and `FailClosed` and `ReplayableAcross` across the boundary (MCTreeBoundary): the theorems have
  one thread inside the tree.
- `FailClosed` and `WriteOrder` of DirectIo for several threads that also `write(2)`, which
  no run checks as holding either: `FailClosed` is what MCDioMixed refutes there.

`applied` and `backup` of TrackedTree are outside `TypeOK`: the replay of an ill-formed batch can leave any tree.

The prover's induction theorems take an operator as a parameter and cannot be used.
ReplayProofs has induction for a *set* of numbers instead (`SetInduction`, from
well-foundedness), and with it that a batch is replayed record by record
(`ReplayOneMore`), on which CaptureProofs and FileContentProofs rest.

## What is not modelled

- *Calls that pass no hook* (`copy_file_range`, `splice`, io_uring, `link`,
  `symlink`), buffers that change while a write is under way, and files that
  cannot be opened for a snapshot: listed as hazards.
- *`RENAME_WHITEOUT`*: made by overlayfs, needs `CAP_MKNOD`; the applier refuses it as
  it refuses an exchange. The other two flags are modelled.
- *A file position that cannot be read*: `handle_vfs_write_ret` then falls back on the offset
  at entry. The position is kernel memory of the call itself, and reading it does not fail.
- *A folio of several pages*: at most 2 MiB where an event takes 4, so the size test
  of `snapshot_range` never applies; one page stands for it.
- *todo-go service*: handlers and drivers around the batcher, without state.
- *The client library of the database*, which may retry a call at another node.
- *Capturer start*: seeding before the hooks attach. Runs begin on a directory
  nobody uses yet; the gap is listed as a hazard.
- *Other clients of the socket*: no recorder of the repository reconnects, so
  RunPoint has one client for its life.
- *Pending maps and `tracked_dirs` at their limits*: `TrackedMax` exists but is
  large enough in all runs; failed updates there are counted nowhere in the code.
- *rsync arm, ssh, CSV, plots, the demo's terminal driver, vendored libbpf*: I/O,
  presentation or third-party code without a protocol of their own.

## Plan

Order of importance; each module is followed by its MC module, runs, mutants.

1. Done: Replay, TrackedTree, DirectIo, RunPoint with Handover, FileData, Batcher
   with WriteService; the proofs above.
2. Proofs: CaptureProofs without `Outside = {}`, then for threads that do not mkdir.
3. Extensions: bounded pending maps and `tracked_dirs` in TrackedTree; an MMAP event
   that is lost; a client that reconnects in RunPoint.
