# smfs in TLA+

smfs mounts a Supermemory container as a filesystem.  Every call of the kernel is
answered from a SQLite cache; loops in the background push local edits to the
server and pull remote ones.  This directory holds TLA+ modules for the parts of
smfs whose correctness depends on the order of steps, the TLC runs that check
them on small instances, and TLAPS proofs for every instance.

* [Inventory](#inventory): the system's parts and what makes each correct
* [Modules](#modules): what is modelled, and how state and actions correspond to the code
* [Runs](#runs): what TLC checks, and the bounds
* [Findings](#findings): where the code does not do what its comments say
* [Proofs](#proofs)
* [Not modelled](#not-modelled) and [Plan](#plan)

Paths are relative to `src/`; `core/` stands for `crates/smfs-core/src/`.

## Inventory

| Component | State | Operations | What is hard | What makes it correct |
|---|---|---|---|---|
| Push queue table, `core/cache/db.rs`, `schema.sql` | `push_queue`: a row per filepath with a main write, a parked (`pending_*`) write, `remote_id`, `inflight_started_at`, `updated_at`, `poisoned` | upsert, claim_next, set_remote_id, finalize_success, finalize_failure, clear_remote_id_after_404, poison, retarget_pending_create | each is one statement or transaction, but they interleave between callers; the row that a task ends may not be the row it claimed | one task per filepath; the newest write is never dropped; writes are sent in order; no row sticks |
| Push worker, `core/sync/push.rs` | a semaphore of 8 permits, the local variables of each `process_job` | create, update, delete, rename: read, wait until done, request, bind, wait, finalize | every step is an await; requests fail, their answers get lost, documents vanish, the server drops content that arrives while it processes | an edit is on the server or in the queue; the queue drains; no PATCH into a document in process |
| File write path, `core/cache/file.rs`, `fs.rs` | `fs_dentry`, `fs_inode` with `dirty_since`, `fs_data`, `fs_remote` | create, write, flush, truncate, unlink, rename | the transaction on the cache and the queue operations that follow take the database lock separately | the queue describes the cache; dirty means unpushed; a file knows its document |
| Cache namespace, `core/cache/fs.rs` | inodes, dentries, links, symlinks, a dentry LRU | mkdir, rmdir, link, symlink, rename of directories, getattr, setattr | link counts, directories that move, a cache beside the table | link counts, no orphan, dentry cache agrees with the table |
| Chunked content, `core/cache/file.rs`, `db.rs` | `fs_data(ino, chunk_index)`, `fs_inode.size` | pread, pwrite, truncate, read_all_content | chunk boundaries, holes | equal to a flat array of bytes |
| Pull reconciler, `core/sync/pull.rs`, `fs.rs` | a watermark, `fs_remote` | list since, reconcile_one, rehydrate | checks `dirty_since` and writes under separate locks; skipped documents are behind the watermark | local edits are not overwritten; remote edits arrive |
| Deletion scan, `core/sync/scan.rs` | none | page through remote ids, apply_deletion | compares an old snapshot with the present table | no live file is removed |
| Status poller, `core/sync/push.rs` (Loop E) | `fs_remote.last_status`, ages | list processing, reset, give up | judges documents by an older list | stuck documents are found, healthy ones left alone |
| Hydration queue, `core/cache/hydration.rs` | `queue`, `pending`, `inflight`, `recent` | enqueue, claim_next, complete | look-ups race with the worker; misses are cached for two seconds | a key in one place; pulled once; look-ups succeed in the end |
| API client, `core/api/` | none | requests with retries | POST is retried although it is not idempotent | bounded retries, error classes |
| Virtual profile, `core/cache/profile.rs` | a time-to-live cache | get, warm | concurrent refresh | one request at a time |
| Daemon, mount and unmount, `crates/smfs/src/cmd/`, `core/daemon/` | pid file, socket, startup file, marker, shutdown channel | mount, start, ping, unmount, drain, abort after 5 s | signals, IPC and other commands race with start-up and drain; files outlive a crash | one daemon per tag, which can be reached; commands end and tell the truth |
| Mount adapters, `core/mount/` | NFS cookies, kernel attribute cache | translate requests | directories change during readdir | every entry once |
| In-memory file system and VFS types, `core/vfs/` | `mem.rs`: a tree of nodes and flat byte vectors, against which the cache is tested for "behavioural parity" | all calls; path normalisation | none of its own: it is the reference | the cache behaves as it does |
| Command line, configuration, agent hint | files of the user | | I/O only | |
| bash package (TypeScript and its Python port), `bash/`, `bash-py/` | path index, session cache | read, write, append, copy, move, remove and list of files and trees | state read before an await and used after it; batches that fail in part; other sessions | index and cache agree with the server; a call acts on its path; one document per path, none below another |

The write path is what a user's data depends on and where most of the
interleavings are, so it comes first:

    filesystem call -> cache transaction -> push_queue_upsert / retarget
                                                 |
              push worker: claim_next -> process_job -> finalize_* -> next write
                                                 |
                                        Supermemory documents

The read side meets it in the cache (`reconcile_one`, `apply_deletion`) and in the
queue (`reconcile_one` attaches document ids to queued rows).  Underneath both is the
cache itself, a tree of names and files of chunks; around them are the daemon's
processes and files.  The bash packages use the same server without any of this.

The hazards of all components, each at its line, are in `PROJECT.json`, with the
properties that would catch them or the reason why none does yet.

## Modules

| Module | Contents |
|---|---|
| `PushRow` | one row of `push_queue`, and an operator for each method of `db.rs` that changes it |
| `PushQueue` | the table and the claims of the worker's tasks, with arbitrary callers; the specification of the queue |
| `PushQueueProofs` | theorems about `PushQueue` |
| `PushSync` | file write path, queue, worker and server together; implements `PushQueue` |
| `PushSyncProofs` | `PushSync`: types, the refinement of `PushQueue` and what it inherits; no edit is forgotten, what is removed is gone, and what these rest on |
| `Hydration` | the hydration queue, its worker, the look-ups that feed it and the files they find |
| `HydrationProofs` | theorems about `Hydration` |
| `MemFs` | the tree of the in-memory file system: the specification of the cache's namespace |
| `CacheFs` | the namespace in SQLite with its dentry cache, derived siblings and the pull's changes; implements `MemFs` |
| `CacheFsProofs` | theorems about `CacheFs`, the refinement of `MemFs` among them |
| `FlatFile` | a file of the in-memory file system: the specification of a file's content |
| `ChunkFile` | a file's rows of `fs_data`, reads and pushes of them; implements `FlatFile` |
| `ChunkFileProofs` | `ChunkFile` implements `FlatFile`; what is read and pushed is what is stored |
| `PullSync` | delta pull, single-document pulls, deletion scan and poller, with the push as far as it touches the same columns, against a server with other clients |
| `PullSyncProofs` | theorems about `PullSync` |
| `DaemonLifecycle` | daemons of one tag, their files, `smfs mount` and `smfs unmount` |
| `DaemonLifecycleProofs` | theorems about `DaemonLifecycle` |
| `Volume` | the TypeScript bash package's file system, path index and session cache, against a server with another session |
| `VolumeProofs` | theorems about `Volume`, and the lemmas on paths and folds that they need |
| `MC...` | model values and symmetry for TLC |

Operators whose comment begins with "Slip" are not part of the specifications:
they are versions of the operator below them with a plausible mistake, which show
that a property would notice it.  `PROJECT.json` pairs them with properties.

Three refinements tie the detailed modules to abstract ones: `PushSync` to
`PushQueue` (property `QSpec`, same variables), `CacheFs` to `MemFs` (`BehavesLikeMem`,
`children <- dentry`; a row without a name maps to no node) and `ChunkFile` to
`FlatFile` (`StoresFlat`, `data` is what the rows denote byte by byte).  All three are
model-checked and proved.

### PushRow and PushQueue

A filepath without a row has the value `NoRow`.  A row groups the columns that
travel together into two writes, `main` and `pend`; `inflight` is
`inflight_started_at IS NOT NULL` and `due` is `updated_at <= now`, so that time is
the action `Elapse`.  `attempt`, `last_error` and `last_status` only tune delays and
messages and are left out; so is `op = 'upload_binary'`, which nothing enqueues, and
`push_queue_drop`, which only such rows would reach.  Paths stand for those that
`is_macos_noise_path` does not filter.  Two auxiliary variables make properties
possible: writes of a filepath are numbered (`issued`), and `sent` is the newest
number that a task has taken.

| Action | Code |
|---|---|
| `Upsert`, `Retarget` | `push_queue_upsert`, `push_queue_retarget_pending_create` |
| `Attach` | the UPDATE of `reconcile_one` on queued rows |
| `Claim` | `push_queue_claim_next`, and the spawned task's permit |
| `Stamp` | `push_queue_set_remote_id` |
| `Succeed`, `Fail`, `Clear404`, `Poison` | the four ways `process_job` ends |
| `Elapse` | debounce and backoff run out |
| `Crash` | the process ends with tasks under way: killed, or the abort five seconds into unmount |

`Hazards` names the events an instance contains: `crash`, `poison`, `busydst` (a
rename retargets a create onto a filepath that is being pushed) and `latefail` (a
push fails after a newer write was parked behind it).  Three properties hold only
without one of them; the findings show why.

### PushSync

One variable per table or column (`file`, `text`, `dirty`, `remote`), `call` for the
rest of the user's current call, `task` for the program counter and local variables
of each `process_job`, and `doc` for the server (external).  Content is the number of
the edit that produced it, so "the server has it" means the newest bytes.

* A filesystem call is a transaction on the cache followed by queue operations that
  each take the database lock anew: the first is one action (`WriteFile`, `Unlink`,
  `Rename`), and each of the others one more (`Flush`, `FollowRename`, `TakeOver`,
  `EnqueueRename`, `Enqueue`), in the code's order; the worker runs in between.
  `Flush` is a step before `Enqueue`, because `flush` reads the remote id, releases
  the lock and upserts later.
* A task of the worker is one action per stretch between two awaits.  Three
  stretches take the lock more than once with nothing but memory accesses in
  between, and are one action each: `Bind` (`set_remote_id`,
  `push_queue_set_remote_id`), `Settle` (`set_mirrored_state`, clearing of
  `dirty_since`, `push_queue_finalize_success`) and the 404 branch of `Gone`.
* The server makes a new document for every POST, processes a document after every
  write, and drops content that arrives meanwhile, which is what the comment of
  `wait_until_done` says of it.  `DELETE` and the rename's look-up go by filepath
  where the row has no document id.
* `Faults` chooses what goes wrong: `fail` (an error after the client's own retries),
  `lost` (the server acts, the answer does not arrive), `timeout` (`wait_until_done`
  gives up after 30 seconds) and `stall` (the push under way ends in the window
  between the two locks of a flush, which makes the flush queue a create for a file
  that has just been bound, and so a second document).
* `Calls` chooses what the user does; with `recreate` a file is also made at a name whose
  removal still waits in the queue.
* A rejected write (4xx) poisons its row for good: `claim_next` passes it over, and no upsert
  takes the flag back.  `Held`, and so `NothingForgotten`, does not count such a row as keeping
  an edit; the names it concerns are `Rejected`, see [Findings](#findings).

Left out: truncation and the transcription and error siblings; directories and hard
links are in `CacheFs`.  The user makes one call at a time and opens the file for each
write, so a flush uses the file's present name.

### Hydration

`queue`, `pending`, `inflight` and `recent` are the fields of `Inner`; `recent` holds
the keys whose two seconds have not passed, and `Expire` is their passing.  `task` is
the worker's task per permit.  A look-up is two steps, `Miss` (it finds nothing in
the cache) and `Enqueue`.  A pull is a listing (`Listed`, `ListFailed`), one
`Reconcile` per document, and `Complete`; `run_hydration_worker` ignores how the pull
ended.  Files are only added on the server, so that "the look-up succeeds" is
stable; what `reconcile_one` does with changed or removed documents is in
`PullSync`.

### MemFs and CacheFs

`kind`, `nlink` and `derived` are columns of `fs_inode`, `dentry` is `fs_dentry`, `cache`
the LRU of names beside it.  A call of the mount is one step per stretch under the
database lock; what it does afterwards is left in `rest`: publishing names in the
cache (`Publish`), then the search for the derived sibling and its removal or move
(`NoSibling`, `RemoveSibling`, `MoveSibling`).  Calls that keep the lock throughout
(mkdir, link, rmdir) are one step.  A puller takes the steps of `reconcile_one`:
`EnsureDir` for one component of a path, `Placed`, `Materialize`, `ApplyRename` or
`GiveUp`, `ApplyDeletion`.

| Action | Code |
|---|---|
| `Mkdir`, `Rmdir`, `Symlink`, `Link`, `CreateFile`, `Unlink`, `Rename` | the calls of the same names; `Below`, `MayMove` are the kernel's own check (external) |
| `LookupMiss` | a look-up that finds the name in the table and caches it |
| `EnsureDir`, `Placed`, `Materialize` | `ensure_dirs`, `reconcile_one`, `create_derived_sibling`, `create_raw_stub` |
| `ApplyRename`, `GiveUp`, `ApplyDeletion` | `apply_rename_to`, `apply_deletion` |
| `Publish` | `dentry_cache.pop` and `put` after the lock is gone |

The answers of a call (`RmdirAnswer`, `RenameAnswer`, ...) are operators in both modules, in
the order of each code's tests.  The kernel keeps the directories of a call locked
(`Free`); `race` in `Hazards` takes that lock away between callers and pullers, which
the kernel does not see; `overlink` lets a file with two names be replaced by a
rename or deleted by a pull; and `filedir` lets the server have a document below the filepath
of a file, into which `ensure_dirs` goes on without asking what it is.

### FlatFile and ChunkFile

`size` is `fs_inode.size`, `chunk` the rows.  `Write`, `Truncate` and `Rewrite` are the
transactions of `file.rs` and `rewrite_file_content`; `Read` walks the rows as the
code's loop does, `ReadPanics` says when its slice would be out of range, and
`AllContent` is `read_all_content`, which is what gets pushed.  Both are folds over the set of
rows that takes the highest index off, so that the lowest row is walked first
(`ORDER BY chunk_index`).

### PullSync

`file` has the columns of an inode that the two directions share: path, text, `dirty`
(`dirty_since`), `queued` (a row in the push queue), `doc`, `mirrored` and `status` of
`fs_remote`.  A text is named by the time of its edit; `own` is
auxiliary, the time of the user's last edit, by which `LocalWins` tells a local text from a
pulled one.  `job` is what a pull still has to
reconcile, copied from the page it listed, so that it ages while other tasks run;
`seen` is the watermark.  `DeltaList` asks for one page of `PageSize` documents of the list
as it is by then, and for the next one when the last is reconciled, until a document is behind
the watermark; `DeltaEnd` moves the watermark to the newest that was listed.  A list request
that fails ends the pull and leaves the watermark alone, and is left out.  `reconcile_one` is two steps for a bound document (`Take`: tests
and move; `Mirror`: content and `fs_remote`), and one for the others (`AttachFile`,
`CreateLocal`, `Defer`, `Skip`); the scan and the poller are a step per lock or request.
The push is four steps (`PushSend`, `PushBind`, `PushDone`, `Push404`); its queue, retries
and removals are in `PushSync`.

`Hazards` switches on what is beside the plain use: `scan` and `poller` (loops C and E),
`race` (others run between the two locks of `Take` and `Mirror` or of `apply_deletion`),
`resave` (a file is written while it is being pushed), `twins` (two clients create a
document of one path), `shift` (a document is deleted between two pages of a delta pull).

### DaemonLifecycle

A process goes through `starting`, `spawned` (its IPC server is a task, not awaited), `up`
(pid file), `waiting`, `draining`, `stopping`, `released` (unmounted), `nopid` and `exited`, or
dies.  `ipc` is the server's own progress: it binds the socket at some time after it was
spawned, or fails to (`nobind`), which is only logged.  `mount` says of each process whether it
serves a file system or has left it in the mount table, as a killed process may and as one does
whose umount fails (`busy`).  `socket`, `pidfile` and `startup` name the process that wrote the
file; `pending` says whether the queue has rows, which is all that the drain asks.

| Action | Code |
|---|---|
| `MountForeground`, `ForegroundReady` | `smfs mount --foreground`, which is the daemon itself and does not look for another one (`mount.rs:130`) |
| `MountCheck`, `MountClean`, `MountSpawn`, then `MountPong`, `MountChildDied` or `MountGivesUp` | `smfs mount` |
| `UnmountSend`, `UnmountDone` | `smfs unmount`, with or without `--force` |
| `MountFs`, `SpawnServe`, `WritePid`, `Wait`, `StartFails` | `run` up to its wait |
| `Bind`, `BindFails` | `serve`, beside it |
| `Signal`, `Drain`, `Release`, `CleanUp`, `Exit`, `Kill` | `run` from the wait on |

The run has `kill`, `nobind` and `busy`.  Four more take away an assumption of the plain use:
`foreground` (`mount --foreground` beside a living daemon), `together` (commands overlap),
`window` (commands reach a daemon between binding its socket and waiting, or between removing
its pid file and its socket) and `slow` (a stop takes longer than the 45 seconds that unmount
waits).

### Volume

JavaScript runs a call up to its next request, so a call is a chain of request, `Serve`
or `Fail`, and `Resume`.  `index` is the `PathIndex` (`files`, `byDoc`, synthetic `dirs`), `cache` the
`SessionCache`, `docs` the server (external).  mv and cp of a directory list it and then
run one child call per entry in a slot of their own (`Spawn`).  Calls on related paths
follow one another as a shell's commands do, unless `Hazards` has `overlap`; calls on
unrelated paths overlap freely.  `others` is another session, `partial` a bulk deletion
that leaves documents behind, `lost` a request that is served without an answer.
A stored document may turn out not to be processable (`ProcessingFails`, external); `getDoc`
then caches an error text (`Blurb`) in place of the content, while `statDoc` caches the content
(`TextsOf`).  `SelfReads` allows the blurb for such a document.  append and cp read through
`getDoc` too, so on such a document they write the blurb back to the server in place of its
content.
`foreign` is a history variable: the paths that somebody else changed, about which the
package promises nothing.  `MovedWhole` is about moves to an unrelated path: what moves into
its own directory is still below it.

## Runs

Every run is exhaustive.  These must pass:

| Run | Instance | Checks | Shows |
|---|---|---|---|
| `sync_all` | 2 filepaths, 2 inodes, 3 edits of every kind, failures, time-outs, crashes, poison, late failures | `SyncTypeOK`, `OnePushPerPath`, `NewestKept`, `QSpec`, `StuckOnlyByCrash` | `PushSync` implements `PushQueue`; one task per filepath, whose claim is what the row says; the newest write survives; only the end of the process leaves a row inflight for nobody |
| `sync_kept` | 1 filepath, 3 inodes, 4 edits, `fail`, `lost`, `stall`, `poison` | `NothingForgotten`, `DrainedIsSaved`, `BoundIsAlive`, `NoReplay`, `PatchOnlyDone` | the user's data is on the server or queued; an empty queue means saved; no live document is deleted; writes are sent in order; no PATCH goes into a document in process; names whose write was rejected excepted in `NothingForgotten` |
| `sync_converges` | 1 filepath, 3 inodes, 6 edits, `fail`, no `recreate` | `RemovedIsGone`, `Converges`, `QueueDrains` | every row ends, although pushes fail; every saved file gets to the server and stays there; a removed file leaves no document, also if the name is used again afterwards |
| `hydration_queue` | 2 files, 3 keys, 2 tasks | `OnePlace`, `PulledOnce`, `LookupsSucceed` | queue, sets and tasks agree; no key is pulled twice at once or again within its time-to-live; repeated look-ups of a stored file succeed |
| `cache_tree` | 2 names and their siblings, 4 inodes, a caller, a puller, 2 cached names | `SameAnswers`, `TreeSound`, `BehavesLikeMem`, `SiblingsFollow` | look-ups, listings and calls answer as the in-memory file system does, and act as it does; the tables stay a tree that counts its links; derived files go with their files |
| `chunk_flat` | chunks of 2 bytes, files of up to 6, writes of up to 4 | `WholeRowsReadBack`, `PushesWhatIsStored`, `StoresFlat` | rows and size denote the flat array after every write, truncation and rewrite; files without short rows are read and pushed as they are |
| `pull_core` | 2 paths, 2 files, 2 documents, 2 edits on either side, delta loop, pages of 1 | `PullTypeOK`, `MirroredIsShown`, `WatermarkSound`, `Converges` | what counts as mirrored is shown; the watermark passes nothing that is missing here; both sides end up equal |
| `pull_loops` | 1 path, 2 files, 1 document, 2 edits, delta loop, a single-document pull, scan and poller | `LocalWins`, `GoneIsUnbound` | no loop removes an unpushed edit or puts an older text over it; no file stays bound to a deleted document |
| `daemon_tag` | 2 daemons, 3 commands, kills, sockets that cannot be bound, umounts that fail | `OneOwner`, `WaitingIsReachable`, `NothingLeft`, `UnmountedIsGone`, `MountedIsLive`, `CommandsEnd` | one daemon per tag, after any crash, and it can be reached; a regular end leaves no file, and a mount only where an umount failed; the commands tell the truth and end |
| `volume_shared` | directories `d`, `e` with a file each, which may be files themselves, 3 documents, 3 slots, 2 calls, 1 event, another session, partial deletions | `FindPathAgrees`, `ActsOnItsPath`, `SelfReads`, `TreeShape`, `MovedWhole` | index and cache agree with the server on the session's own paths (or the cache has the blurb of a document that could not be processed); requests hit the document of their path; no document below a document; a tree moves whole or reports an error |

The type invariants that are not listed are conjuncts of a listed invariant
(`CacheTypeOK` of `TreeSound`, `ChunkTypeOK` of `PushesWhatIsStored`, `DaemonTypeOK` of
`NothingLeft`, `VolumeTypeOK` of `FindPathAgrees`) or are proved (`QTypeOK`, `Hydration`'s
`TypeOK`).

**Bounds.**  `MaxEdits` bounds the user's edits, `MaxWrites` the writes enqueued per
filepath.  In `PushSync` an edit makes at most two writes of one filepath, and
`MaxWrites` is twice `MaxEdits`, so that it never stops a call; `Doc` and `Ino` are
as large as the run's calls can use up, or, in `sync_all`, small enough to finish: a
POST or a create is then not possible, which removes behaviours but adds none.  A row
has two slots, so three writes (inflight, parked, replaced) meet every case of the
table, and four edits let a file be written, removed, created anew and written again
during one push.  Two tasks are enough for two claims of one row or of two rows of one
file, and no operation involves a third filepath.  Two files and three keys (one for
each file, one for their directory) let two pulls overlap in their documents; a queue
never holds more than the number of keys.  Four inodes are the root, a directory, a file
and its sibling, or two directories and a file; inode numbers are not reused, so the
bound ends a behaviour after three creations, which is enough for a directory that is
removed, made anew and moved over.  A cache of two names lets entries be evicted.  Files
of three chunks have a first, a middle and a last one.  Two pull edits on top of the state
of an earlier mount (`Init` has one with a synced file) let a local edit meet a remote
change of the same document in every order of push, listing and reconciliation; pages of one
document let everything but a deletion happen between two pages.  Two
daemons and three commands are a mount, its unmount and the next mount, after a crash or
none.  Two calls of a volume are every pair of operations, children of a tree included.

**Symmetry.**  Permits are symmetric in the runs of safety properties, filepaths too in
`sync_all`; in `cache_tree` the two names change places together with their siblings; in
`volume_shared` documents and slots are symmetric.  The runs with liveness properties use
none.

**Deadlock.**  The runs with a bounded number of edits, calls or processes, or with a
shutdown, end in states where nothing is left to do, so deadlock is not checked there: an
undesirable end shows as a violation of `DrainedIsSaved`, `QueueDrains`, `Converges` or
`CommandsEnd`.  `chunk_flat` checks it.

**Fairness.**  `PushSync`: a task runs to its next await, the server finishes what it
processes, a call that has begun ends, and timers fire (weak fairness); the 200 ms
poll claims due rows oldest first (`ORDER BY updated_at`), so a row that is due again
and again is not passed over for ever (strong fairness of `Spawn`); requests for one
filepath are not failed or lost for ever (strong fairness of the answers).  The user is
not assumed to do anything.  `Hydration`: tasks run, time passes, the worker polls
every 500 ms, listings of one key do not fail for ever, and the user looks the key up
again and again, which is what the property is about.  `PullSync`: each loop has a timer
and goes on once it is due, a pushed file's task goes on, and the server processes what
it holds (weak fairness each); users and other clients need do nothing.
`DaemonLifecycle`: processes and commands go on (weak fairness); neither users, nor
signals, nor the push worker have to do anything, so `CommandsEnd` does not rely on a
queue that drains.

## Findings

Two runs with `expect: violation` check a statement that the repository makes and that
the code does not keep; `PROJECT.json` has the quotations.

| Run | Property | What happens |
|---|---|---|
| `sync_mvlost` | `DrainedIsSaved` | a rename is queued over the update of its file; the newest content is never sent |
| `pull_scan` | `ScanSpares` | the deletion scan takes a document that was created after it had listed the server's for a deleted one, and removes the file |

Other statements of the sources hold in the passing runs only because these leave something
out.  To see one fail, change a configuration as said:

| Change | Fails | What happens |
|---|---|---|
| `MCPushSync_converges.cfg`: `Hazards = {"crash"}` | `QueueDrains` | the process ends with a row inflight; nothing resets it, and `claim_next` skips it from then on ("rows persist and will resume next mount", `daemon_runtime.rs:333`) |
| `PushSync`: `\ Rejected` left out of `NothingForgotten` | `NothingForgotten` | a request is rejected and poisons the row of its name; when the user writes the file again, as the error file asks for ("re-copy the source", `core/sync/push.rs:144`), the upsert leaves the row poisoned, and no task ever claims it |
| `MCPushSync_kept.cfg`: `Hazards = {"latefail"}`, `Faults = {"fail"}` | `NoReplay` | the push of a delete fails after a create was parked; the next delete replaces the failed one and leaves the parked create, which is sent last: the removed file is back on the server |
| `MCPushSync_kept.cfg`: `Hazards = {"crash"}` | `NothingForgotten`, `DrainedIsSaved` | the process ends after the cache has a write and before its flush has queued it; nothing looks for dirty files at the next mount, so the edit is never pushed |
| `MCPushSync_kept.cfg`: `Hazards = {"latefail"}` | `NothingForgotten`, `DrainedIsSaved`, `BoundIsAlive` | the failed write goes back to the main slot and the next write replaces it there; the parked, older one is sent last, and a delete among them hits the document of the new file |
| `MCPushSync_kept.cfg`: `Faults = {"fail", "timeout"}` | `NothingForgotten`, `DrainedIsSaved`, `PatchOnlyDone` | `wait_until_done` gives up after 30 seconds, the PATCH goes out all the same, and the server drops it |
| `MCPushSync_converges.cfg`: `INVARIANTS DirtyUntilPushed`, `MaxEdits = 2` | `DirtyUntilPushed` | a write during a push loses its dirty flag when the older push settles; `MCPullSync_loops.cfg` with `"resave"` shows what follows: a pull overwrites the newer edit (`LocalWins`) |
| `MCPushSync_all.cfg`: `"busydst"` added | `OnePushPerPath` | a rename retargets a create onto a filepath that is being pushed; a second task claims it, and the first one deletes its row (`NewestKept`) |
| `MCPushSync_kept.cfg`: 2 filepaths, `Calls = {"write", "rename"}` | `BoundIsAlive` | the delete of an overwritten document, queued by filepath, deletes the renamed document |
| `MCPullSync_loops.cfg`: `"race"` added | `LocalWins` | a write between the test of `dirty_since` and the rewriting of the content, or the deletion, is lost |
| `MCPullSync_core.cfg`: `Hazards = {"poller"}` | `MirroredIsShown`, `WatermarkSound` | the poller notes a document's time as mirrored without its content, so no pull brings it |
| `MCPullSync_core.cfg`: `Hazards = {"shift"}`, 3 documents, `MaxEdits = 3`, `Edits = {"write", "patch", "delete"}` | `WatermarkSound` | a document of the first page is deleted before the second page is asked for by its offset; the list moves up by one, the document at the border is on neither page, and the watermark passes it |
| `MCPullSync_core.cfg`: `Hazards = {"twins"}` | `WatermarkSound` | of two documents with one path only one has a file; the watermark passes the other |
| `MCChunkFile_flat.cfg`: `INVARIANTS ReadsAgree`, `ChunkSize = 3`, `MaxSize = 7` | `ReadsAgree` | a row that ends before its chunk shifts what follows it in a read, or makes the read's slice panic (`file.rs:103`) |
| `MCCacheFs_tree.cfg`: `Hazards = {"race"}` | `SameAnswers`, `TreeSound` | a name is cached after it has moved; a pull makes a file in a directory that was removed |
| `MCCacheFs_tree.cfg`: `Hazards = {"overlink"}` | `TreeSound` | a rename over one of a file's names, or a pulled deletion, drops the row that the other name leads to |
| `MCCacheFs_tree.cfg`: `Hazards = {"filedir"}` | `TreeSound`, `BehavesLikeMem` | `ensure_dirs` takes a file for a directory (`core/cache/fs.rs:129`), makes an entry below it and raises its link count; no call of the in-memory file system does that |
| `MCDaemonLifecycle_tag.cfg`: `"together"` added | `OneOwner`, `WaitingIsReachable` | two mounts pass the check of the pid file before either daemon writes it |
| `MCDaemonLifecycle_tag.cfg`: `"foreground"` added | `OneOwner` | `mount --foreground` becomes a second daemon of the tag before it comes to the check ("Refuse if another daemon already owns this tag", `crates/smfs/src/cmd/mount.rs:151`), with no two commands at the same time |
| `MCDaemonLifecycle_tag.cfg`: `"window"` added | `CommandsEnd`, `UnmountedIsGone`, `WaitingIsReachable` | an unmount is acknowledged by a daemon that does not wait yet, and lost; a daemon that ends removes the next one's socket |
| `MCDaemonLifecycle_tag.cfg`: `"slow"` added | `UnmountedIsGone` | unmount reports success after 45 seconds, whatever the daemon does |
| `MCVolume_shared.cfg`: `"overlap"` or `"lost"` added | `SelfReads`, `ActsOnItsPath`, `TreeShape` | two writes of a path make two documents; a listing that was under way puts a moved path back; an unanswered POST leaves a document that the index does not know |

Two failures that the passing run `daemon_tag` contains are told to nobody.  An umount that fails is
logged (`core/mount/mod.rs:294`), the daemon ends, and `smfs unmount` reports success with the
mount still in the table: `UnmountedIsGone` and `NothingLeft` say that nobody serves it, and
`LeftByFailure` that this and the death of a daemon are the only ways to leave it there.  A
socket that cannot be bound is a warning (`daemon_runtime.rs:279`): the daemon waits, `smfs mount`
gives up and kills it, but one started with `--foreground` cannot be reached by `smfs unmount`;
`WaitingIsReachable` promises the socket only where it was bound.

Three more bounds of passing runs are there because the property does not hold beyond them:

* `PatchOnlyDone` is checked without renames and without `timeout`: two renames of one file
  are two rows, and both tasks may pass their wait before either sends its PATCH.
* `RemovedIsGone` is checked without `recreate`: `unlink` asks for the document id after it
  has deleted it (`core/cache/fs.rs:1590`), so the delete goes by filepath, and a create
  of the same name that replaces it in the queue leaves the old document behind.  That is
  the only way in which a new file of the same name matters: for any number of files the
  property holds as long as nobody makes one at a name whose removal is still queued
  (`RemovedStaysGone`).
* `pull_core` has two edits and no single-document pull.  `Converges` follows `WatermarkSound`,
  since what the watermark has passed is not listed again.  `WatermarkSound` fails with three
  edits when another client moves a file between its POST and the binding (it becomes a second
  file), or the deletion scan runs (it removes what a pull brought after its listing); with four
  when a path is deleted and used again; and with single-document pulls when one of them has a
  page that is older than the delta pull's (it brings a deleted document back, or, with `race`,
  mirrors the old version over the new one).  Without moves, deletions, scan and
  poller it holds for any number of edits (`WatermarkIsSound`).

## Proofs

`tlapm` proves these for all values of the constants, under the assumptions that the
modules state: `None` is not a filepath, inode, document, permit, daemon, command or number, `NoKey`
not a key, `Hazards`, `Faults` and `Calls` are what their modules list, and bounds are natural
numbers.  `CacheFs` further assumes that `Sibling` gives the names it is defined for different
names of derived files, as appending a suffix does, and that every other name is one of these;
`PullSync` that there are files and paths, and finitely many documents, and that the delta loop
is not one of the single-document pulls; `Volume` that paths are sequences of strings other
than the root, that paths and documents are finitely many, and that `None` is no record either.  Where a theorem takes a hazard away it
says so; [Findings](#findings) shows for each of these what fails with it.

### The queue

| Theorem | States | Argument |
|---|---|---|
| `PushQueueProofs!TypeCorrect` | `QSpec => []QTypeOK` | inductive; a lemma per operator of `PushRow` says which rows it returns |
| `PushQueueProofs!OnlyCrashSticks` | `QSpec => StuckOnlyByCrash` | step by step, from the type invariant: an action that leaves `inflight` set keeps the task that holds the row |
| `PushQueueProofs!SameFileSafety` | `"busydst" \notin Hazards => (QSpec => []OnePushPerPath)` | `QTypeOK /\ OnePushPerPath` is inductive: an inflight row is not claimed, and only its holder releases it |
| `PushQueueProofs!NothingNewestDropped` | `"busydst" \notin Hazards => (QSpec => []NewestKept)` | `NewestKept` is not inductive: when a success clears the main slot, nothing in it says that the write cleared had been claimed.  `KeptInv` adds `Numbered`: no write of a row is numbered above `issued`, and the write of a task is at most `sent`; with `OnePushPerPath` the cleared write is the task's |
| `PushQueueProofs!LatestWins` | `"latefail" \notin Hazards => (QSpec => NoReplay)` | `OrderInv`: a row that can be claimed holds nothing older than what was sent, and only a row that is being pushed has a parked write, so that no upsert gets ahead of it; crashes, poison and `busydst` included |

### The write path

`PushSyncProofs` proves that `PushSync` uses the queue as `PushQueue` says, so that
the queue's theorems are `PushSync`'s; its second part has what speaks of texts and documents.

| Theorem | States | Argument |
|---|---|---|
| `PushSyncProofs!SyncTypeCorrect` | `Spec => []SyncTypeOK` | `SyncInv` adds what the rest of a call holds, that a POST has made its document before its answer is read, and that rows and names refer only to inodes that exist |
| `PushSyncProofs!ImplementsQueue` | `Spec => QSpec` | step by step from `SyncInv`; a call's requests are writes of the kind `Upsert` takes, and a task that goes on without touching its row is a stutter |
| `PushSyncProofs!PushedByOne`, `NewestWaits` | `"busydst" \notin Hazards => (Spec => []OnePushPerPath)`, and `[]NewestKept` | the queue's theorems through `ImplementsQueue` |
| `PushSyncProofs!SentInOrder` | `"latefail" \notin Hazards => (Spec => NoReplay)` | the same |
| `PushSyncProofs!ReleasedAtTheEnd` | `Spec => StuckOnlyByCrash` | the same |
| `PushSyncProofs!PatchesAreTaken` | `Spec => PatchOnlyDone`, without `timeout` | `HomeInv`, and `SendDone`: the document that a task is about to PATCH was seen done, and nobody but that task writes to it |
| `PushSyncProofs!BoundStaysAlive` | `Spec => []BoundIsAlive`, without `latefail` | `Parked` (only a row that is being pushed or is poisoned has a parked write) and `Unbound` (while a delete waits or runs in a row, the file that has its filepath now is not the one that was removed, and is bound to no document) |
| `PushSyncProofs!NoEditForgotten` | `Spec => []NothingForgotten`, without `timeout`, `latefail`, `crash` | `SavedInv`, below |
| `PushSyncProofs!EmptyQueueIsSaved` | `Spec => []DrainedIsSaved`, without the same | `SavedInv`, below |
| `PushSyncProofs!RemovedStaysGone` | `Spec => []RemovedIsGone`, with text only, without `recreate`, `lost`, `stall`, `latefail`, `crash` | `KnownInv`, below |

The last five theorems take renames out of the user's calls, and with them
`busydst`, as `sync_kept` does.  `HomeInv` is why that helps: there is a function from inodes
to filepaths, fixed when a file is created, such that every row, claim, call, file name and
binding refers only to inodes and documents of its own filepath.  So a step for one filepath
leaves the documents of the others alone, and `OnePushPerPath` says that no second task works
on this one.  `NothingForgotten` is far from inductive, because it says nothing of a push
under way.  `SavedInv` follows a text from the write to the server: the body a task has read is
the file's newest text, or the newer one is in a call or parked (`FreshBody`); a
document that was written to has its task's body (`Sent`), since the PATCH was not dropped (`SendDone`);
a row that exists and was not rejected holds the file's present inode, in the slot that will be sent last (`SavedRows`, `Parked`);
and when the row goes, the document mirrors the file.

`RemovedIsGone` needs the other direction: not that the newest text is somewhere, but that
no document is there of which nobody knows.  `KnownInv` says, for every row that is not
poisoned, that its filepath has one document at most, and that whoever will write to it or
delete it next knows which: the file's binding (`FileKnows`), the row (`RowKnows`), the task
that holds its claim (`TaskKnows`), and the call on its way to it (`CallKnows`).  While the
answer of a POST is under way only its task knows, and the file and the row know of none.
From this a POST is sent only where there is no document, a PATCH is never answered with a
404, and a delete, by id or by filepath, finds the one there is; `Removing` says that a
filepath without a file has a removal in its call or its row until that has happened.
Without `recreate` no file is made at a name whose row still exists and whose file
is gone.  Each of the conditions is needed; one filepath with four edits (for renames two with
three, and for binary content two binary edits) is enough for TLC to violate the
property without it, `busydst` excepted, which is a matter of renames.

### Hydration

| Theorem | States | Argument |
|---|---|---|
| `HydrationProofs!HydrationTypes` | `Spec => []TypeOK` | inductive |
| `HydrationProofs!KeysInOnePlace` | `Spec => []OnePlace` | inductive with `TypeOK`: `queue` enumerates `pending` without repetition, and `inflight` is what the tasks hold |
| `HydrationProofs!NeverPulledTwice` | `Spec => PulledOnce` | only `Claim` starts a task; its key was pending, hence neither recent nor held |

### The cache's namespace

All four are proved for calls and pulls that do not meet between two locks (`race`), do not
replace or delete one of several names of a file (`overlink`), and for servers that have no
document below the filepath of a file (`filedir`); what fails otherwise is under
[Findings](#findings).

| Theorem | States | Argument |
|---|---|---|
| `CacheFsProofs!TreeIsSound` | `Spec => []TreeSound` | `FsInv`: the tables (`RowsOK`, `NamesOK`, and `CountOK`, which counts the names that lead to a row) and the calls under way (`HeldOK`, `Pending`, `CacheOK`: what a call still has to publish, sweep or place).  `Effect` says that a step adds, links or moves a name, removes a name or a directory, or leaves the tables alone, so that `TableInv` needs these cases only; that there are no cycles is not part of it |
| `CacheFsProofs!AnswersAreTheSame` | `Spec => []SameAnswers` | `CacheOK`: a cached name is the table's, except while the call that moved it still has to publish it, and then the directory is locked; the answers of the calls agree test by test |
| `CacheFsProofs!SiblingFollows` | `Spec => SiblingsFollow` | `Pending`: when a call comes to publish the removal or move of a sibling, the table has none at the old name; only that step, or finding no sibling, ends the call |
| `CacheFsProofs!CacheIsMem` | `Spec => BehavesLikeMem` | from `FsInv` each kind of `Effect` is a call of `MemFs` or leaves its tree alone; a row without names (`lost`) is no node of `MemFs` |

### File content

| Theorem | States | Argument |
|---|---|---|
| `ChunkFileProofs!RowsAreTyped` | `Spec => []ChunkTypeOK` | `ChunkInv`: a row is no longer than a chunk and does not reach behind the end of the file |
| `ChunkFileProofs!ChunksAreFlat` | `Spec => StoresFlat` | from `ChunkInv`, byte by byte: byte `i * ChunkSize + j` of the file is slot `j` of row `i`.  A write touches exactly the chunks that it has bytes of (`TouchedIs`) and replaces exactly those (`WrittenRow`); a truncation keeps what is before the new end and nothing behind it (`TrimmedRow`), without which a file that grows again would show old bytes |
| `ChunkFileProofs!RowsReadBack` | `Spec => []WholeRowsReadBack` | after the rows up to `x`, what has been read is the file from the offset to the end of chunk `x`, or as much as was asked for (`Answer`): a row's bytes follow its gap and the gap what was read (`Places`), and a byte in a chunk without a row is zero (`ByteOf`) |
| `ChunkFileProofs!PushedIsStored` | `Spec => []PushesWhatIsStored` | after the rows up to `x`, the file up to the end of chunk `x` (`Prefix`): whole rows leave no gap, so the row before `x` is `x - 1` |

The walks are inductions over rows, done by hand as those of `VolumeProofs`: `WalkExists` and
`WalkInduction` are about a fold that takes the highest index off, and the induction goes over
the rows up to one (`UpTo`).

### The pull reconciler

| Theorem | States | Argument |
|---|---|---|
| `PullSyncProofs!PullsAreTyped` | `Spec => []PullTypeOK`, all hazards included | `PullInv`: the server's stamps are in the past and each belongs to one document, a page that a pull still holds is a version of its document, and what files, pushes and the poller name was created |
| `PullSyncProofs!MirroredFilesShow` | `"poller" \notin Hazards => (Spec => []MirroredIsShown)` | `Shown`: a file whose `mirrored` is its document's present stamp has that version's text, or was written since and is queued; a page with the same stamp has the same text, by `PullInv` |
| `PullSyncProofs!WaitingEditsWin` | `Spec => LocalWins`, without `race` and `resave`; scan, poller and other clients included | `WaitInv`: a file that waits for its push is dirty since its own last edit, whose time is no version's stamp; at most one file is between two locks, and no edit of it is newer than the page it gets |
| `PullSyncProofs!WatermarkIsSound` | `Spec => []WatermarkSound`, when `Peaceful`: no moves and deletions elsewhere, no `scan`, `poller`, `twins`, and `race` only without single-document pulls; `resave` included | `MarkInv`, below |

`WatermarkSound` speaks of the moments without a delta pull only.  `Passed` says it for the mark
that the pull under way will leave, of every document whose newest version is on none of the
pages that are left.  A page is dropped in one of the ways of `reconcile_one`, and for each
`MarkInv` knows why nothing is lost: a page that is not the newest version is of a document
that was stamped after the mark (`DeltaPages`); a file that is skipped as dirty has a push in
the queue (`Fits`); a file that is skipped as mirrored has just that version, because none
mirrors more than there is; no path is taken by another file, and the only file that can take a
document over is the one that pushed it (`Fits`, `Alone`); a document that is deferred is
still being processed and will be stamped anew.  TLC checked `MarkInv` on two files and
documents with three edits before it was proved.  What `Peaceful` leaves out is what makes
`WatermarkSound` false: see [Findings](#findings) for each.

### The daemon

| Theorem | States | Argument |
|---|---|---|
| `DaemonLifecycleProofs!OrderlyEndsClean` | `Spec => []NothingLeft`, all hazards included | `LeftInv`: what socket, pid file, startup file, marker and mount name has not passed the state in which it removes them, but for a mount whose umount failed |
| `DaemonLifecycleProofs!OnlyOneLives`, `WaitingIsFound` | `Spec => []OneOwner`, `[]WaitingIsReachable`, without `together`, `window` and `foreground` | `TagInv` adds `Turns` (one command is under way, and one that is about to start a daemon has found none) and `Owner` (whoever lives is the child that a command waits for or is named by its own pid file, and by its socket once it is bound) |
| `DaemonLifecycleProofs!MountTellsTheTruth` | `Spec => MountedIsLive`, without the same | only a daemon that serves the socket answers the ping; by `TagInv` it has the mount |
| `DaemonLifecycleProofs!UnmountTellsTheTruth` | `Spec => UnmountedIsGone`, without the same and `slow` | the command ends when the process in the pid file has; by `TagInv` a daemon that drains or stops is named there as long as it serves the mount |
| `DaemonLifecycleProofs!LeftByFailure` | a mount that nobody serves is a dead daemon's, or `busy` | `LeftInv` |

### The bash package

| Theorem | States | Argument |
|---|---|---|
| `VolumeProofs!FindPathTheorem` | `Spec => []FindPathAgrees`, all hazards included | `TInv`: what each kind of call holds while it waits (`WellFormed`, `Family`), that a document that is named anywhere has existed (`Known`), and that `files` and `byDoc` are inverse (`Agrees`), which every insertion and removal keeps |
| `VolumeProofs!OwnTheorem` | `Spec => []OwnInv`, without `overlap` and `lost` | below |
| `VolumeProofs!ActsOnItsPathTheorem` | `Spec => []ActsOnItsPath`, without the same | `AskedOK`, `PastOK`: while a request waits, the index names its document at its path; nobody else is about to change the path, so by `Coh` the document is there |
| `VolumeProofs!SelfReadsTheorem` | `Spec => []SelfReads`, without the same | `Coh`: a path is as index and cache say, the blurb of a broken document allowed, or a call that holds a related path is about to say so |
| `VolumeProofs!TreeShapeTheorem` | `Spec => []TreeShape`, without the same | `AddingOK`, `PastOK`: no file is above or below the target of a waiting POST or rename (`Clear`), so by `Coh` no document either |
| `VolumeProofs!MovedWholeTheorem` | `Spec => MovedWhole`, without the same | `MovedInv`: what a tree has still to move is among its entries or has a child, unless a child has left its error; only the end of the batch ends the call without one (`EndsWhole`) |

`SelfReads` says nothing of a path while a call is under way, so what has to be inductive is
what each call knows.  `OwnInv` has the locks (`Locks`: calls of different commands hold
unrelated paths; `Siblings`, `Batch`: children of a tree have different sources and unrelated
targets, and neither meets an entry that has no child yet), what a call was told and still
relies on (`CallOK`: one clause per kind of request and answer), and index, cache and server
where no answer is under way (`IndexOK`, `CacheOK`, `Coh`, `TreeShape`).  A step is described
by the paths it touches (`Touches`, `Frame`); `Sep` says that no other call relies on these, so
that every `...Own` lemma is about one call only.  `Holds` is weaker than
"the document is at the path": a document may be gone, or on a path that others changed, and a
call must not act on another path even then.

InsertAll and RemoveAll are folds over finite sets.  The induction theorems of the library
cannot be instantiated, so `FoldExists` and `FoldInduction` do the induction by hand, over the
least set of pairs that the fold's equation forces.

### Only model-checked

* Liveness (`QueueDrains`, both `Converges`, `LookupsSucceed`, `GoneIsUnbound`, `CommandsEnd`):
  fairness and `ENABLED` are out of the prover's reach.
* `WatermarkSound` where other clients move and delete documents: it holds only within the
  bounds that the findings name.

## Not modelled

| Part | Why |
|---|---|
| Truncation together with the queue, handles that outlive a rename, names that `is_macos_noise_path` filters | `PushSync` opens a file for each write and takes names to be ordinary |
| `full_pull` and `rehydrate` | the first is a delta pull without a watermark; the second needs the eviction of contents |
| The poller's one-hour tier | each tick renews the age it measures (`core/sync/push.rs:490`) |
| Modes, owners, times, symlink targets, the virtual profile | data that no property is about |
| API client's retry loop | its outcomes are in `PushSync` |
| A list request that fails during a delta pull | the pull ends, the watermark stays, and the next tick starts anew |
| IPC status and sync requests | they read state, or run a pull that `PullSync` has as a task |
| Mount adapters | one-to-one translations, except NFS readdir's cookies |
| bash package: search, `configureMemoryPaths`, the reserved profile, `removeByPrefixViaList`, listings of several pages | requests of the same kinds as those modelled, on other endpoints |
| bash package in Python | a port of the TypeScript one |
| Other commands, configuration, agent hint, recorded workloads | I/O without concurrent state |

## Plan

1. Proofs: that the tree of `CacheFs` has no cycle.
2. `PushSync` with truncation, and a restart that meets `PullSync`'s reconciliation.
3. **NfsReaddir**: cookies over a directory that changes.
4. Larger instances where a property's interesting case needs a third document or command.
