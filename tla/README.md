# TLA+ models of CSE-DFS

This directory holds TLA+ models of the storage engine in `src/`. TLC checks them.
The models cover the block and inode layers, the write-ahead log (WAL) with its checkpoint and crash recovery, the lab2b lock server and clients, and the lab3 client over the replicated state machine's `apply_log`.
Every definition is translated from the C++ source. `PROJECT.json` lists:
- the components;
- the runs, with what each one shows;
- the mutants that show each checked property can fail;
- the source lines behind every definition;
- the findings and hazards.

## The system

| Part | Source | State it keeps | Operations |
|---|---|---|---|
| Block manager | `src/inode_manager.cc` | `using_blocks` bitmap, simulated disk | `alloc_block`, `free_block`, `read_block`, `write_block` |
| Inode manager | `src/inode_manager.cc` | inode table (type, size, `NDIRECT` direct ids + one indirect id), cursor `inumber` | `alloc_inode`, `write_file`, `read_file`, `remove_file`, `get_attr` |
| Persister | `src/lab2b/persister.h` | `logdata.bin`, `checkpoint.bin`, the in-memory `log_entries` | `append_log`, `restore_logdata`, `restore_checkpoint`, `do_checkpoint` |
| Extent server (lab2b) | `src/lab2b/extent_server.cc` | `txid_max`, an inode manager, a persister | `create`, `put`, `get`, `getattr`, `remove`, recovery in the constructor |
| Lock server (lab2b) | `src/lab2b/lock_server.cc` | per-lock condition variable and free flag | `acquire`, `release`, `stat` |
| FS client (lab2b) | `src/lab2b/chfs_client.cc` | none of its own | `create`, `mkdir`, `symlink`, `write`, `setattr`, `unlink`, `lookup`, `readdir`, each locking one inode; BEGIN/COMMIT and the checkpoint trigger are commented out |
| FS client (lab3) | `src/chfs_client.cc` | none | the same operations, without locks, over the replicated extent service |
| RSM command | `src/chfs_state_machine.cc` | the command (`cmd_tp`, `type`, `id`, `buf`) and a shared result (`done`, `id`, `buf`, `attr`) | `serialize`, `deserialize`, marshalling, `apply_log` |
| lab3 skeleton, raft RPC types | `src/lab3/`, `src/raft_protocol.h` | stubs and argument structs | none to model |

How the parts interact:
- The client turns each file-system call into a short sequence of extent calls. For example, `create` is `create` followed by `put` of the parent directory.
- The extent server applies each call to the inode manager, then appends a log record tagged with `txid_max`.
- In lab3, every extent call becomes a command. The consensus module, which is not in this repository, orders the commands, and `apply_log` runs each one on the extent service and wakes the thread that submitted it.
- A restart runs the extent server constructor, which replays `checkpoint.bin` and then the committed part of `logdata.bin`.
- The hard behaviours are:
  - crashes between the steps of a checkpoint or of a transaction;
  - replay of what the files hold;
  - a full disk or inode table;
  - unlocked concurrent calls into the extent server;
  - substring matching in directory text.

## Modules

### InodeManager (`InodeManager.tla`, `MC_InodeManager.tla`)

State:
- `inode`: the inode table;
- `using`: the allocated data blocks;
- `ind`: each block read as an array of block ids;
- `disk`: each block read as data;
- `inumber`: the `alloc_inode` cursor.

Observation variables:
- `putVal`: the tag of the last put to each inode;
- `allocFailed`: whether `alloc_block` has returned 0.

Actions, one per call the extent server makes:
- `AllocInode(t)`;
- `WriteFile(i, size, v)`: the whole of `write_file`, which grows with `alloc_nth_block` (`AllocRange`), shrinks with `free_block`, then writes every block and sets the size;
- `RemoveFile(i)`.

Data is abstracted: block `n` of a put of tag `v` to inode `i` holds `<<i, v, n>>`. A read can therefore tell whose bytes it returned. Freed blocks and freed inode slots are reset, because the code never reads them before rewriting them.

Bounds, in `MC_InodeManager.cfg`:
- 2 inodes;
- `NDIRECT = 1` and `NINDIRECT = 1`, so a file uses the indirect block from its second block on;
- `BLOCK_SIZE = 2` (abstract units), so sizes range over 0..4;
- types `T_DIR = 1` and `T_FILE = 2`, so that re-initialising a live slot changes what `getattr` shows;
- 3 data blocks, so one full extent fills the disk (the leak and full-disk runs have 4);
- 2 put tags, with symmetry.

These bounds are enough to grow into the indirect block, shrink out of it, fill the disk, and reuse freed blocks.

Refinement. `ExtentStore.tla` is the abstract extent service: a map from ids to `(type, size, content)` or `NoExt`, with the root directory present at start. Its actions are `Create(t)`, which uses a free id, `Put(i, size, v)`, which keeps the type, and `Remove(i)`. `InodeManager` instantiates it with the refinement mapping `ExtView`, which is what `get` and `getattr` return for every inum. `PutContent` is the content a put of tag `v` reads back as. `ImplementsExtentStore` is checked as a PROPERTY. It exempts only the step on which `alloc_block` first returns 0, because from then on `im_full` shows that reads are wrong. The property does more than the two invariants: it also catches steps that change an extent they do not name, or that re-create a live id.

The passing run stops expanding a state once `alloc_block` has failed (`CONSTRAINT WhileSpace`). The violation runs explore past that point.

### Persister (`Persister.tla`, `MC_Persister.tla`)

The files `logdata.bin` and `checkpoint.bin` are `logBytes` and `ckptBytes`: sequences of cells, one cell per field.
- `Encode` writes a record the way `append_log` and `do_checkpoint` do: id, type as its enum value, then the fields of its kind.
- A PUT's content is one cell with `content_size` 1, or no cell with `content_size` 0 for `""`.
- The file type of a CREATE is one constant cell, `FTYPE`; the model does not track file types.
- `ReadCmd` is one pass of the `while (!eof)` loop of `restore_logdata` and `restore_checkpoint`. A field read past the end keeps the value that `chfs_command(CMD_INVALID, 0)` gave it. A pass that reads past the end sets eof, and the pass after the last record pushes nothing.
- `Restart` reads both files through these decoders.
- `logFile` and `ckptFile` are history: the records appended to each file, in order.

Memory, all lost by `Crash`:
- `store`: the extents, abstracted to their content;
- `cursor`;
- `txidMax`;
- `entries`: `log_entries`.

The single client thread is `pc` and `script`.

Actions:
- `ClientInit`: the `chfs_client` constructor's `put(1, "")`.
- `StartOp`: picks the extent-call sequence of `create`, `write`/`setattr` or `unlink`. With transactions on, it also runs the `MAX_LOG_SZ` check: `logdata_size()` (`LogdataSize`, the file's length in cells) plus `tx_log_size` (`TxLogSize`, the encoded size of BEGIN, COMMIT and the calls).
- `CkptTruncate` and `CkptWrite`: the two halves of `do_checkpoint`, with a crash possible between them.
- `Begin`.
- `ExecCreate`, `ExecPut` and `ExecRemove`: the extent server calls.
- `Commit`.
- `Crash`.
- `Restart`: the whole extent server constructor, ending in a successful start, `exit(1)` or a segfault.

The loop `if (id != *exe) continue; ...` appears in both `do_checkpoint` and recovery. It is one recursive operator, `Walk`.

`TX_BRACKETS` chooses the client:
- `FALSE` is the program as compiled, which writes no BEGIN/COMMIT.
- `TRUE` runs the commented-out transaction code.

The model assumes that the client and the extent server share a process. The commented code reaches `ec->es`, which suggests this. So a restart reruns the client constructor.

Reading `*exe` past the end of `executable` is undefined behaviour. Its possible outcomes are the constant `PastEnd`. The runs assume heap bytes that match no transaction id (`{NoTx}`). If those bytes match a later record's id, `do_checkpoint` copies an uncommitted record into `checkpoint.bin`. `PastEnd` lets a configuration explore that outcome, but no run does.

Dereferencing an empty `executable` is always a segfault.

History variables, used only by the properties:
- `committed`: the mutations of committed transactions, in order;
- `pending`;
- `faults`;
- `ops` and `crashes`: counters bounded by `CONSTRAINT Bounds`.

Bounds:
- 3 inodes;
- 1 non-empty content;
- `MAX_LOG = 18` cells. The constructor's `put(1, "")` writes 4 cells, and a transaction writes 8 to 13 (`TxLogSize`): a one-PUT transaction takes 8 or 9, a create takes 13. So one transaction fits after the constructor's record, and the next one always triggers a checkpoint;
- 5 client operations;
- 3 crashes.

The shortest failures need 3 transactions, a checkpoint and 2 crashes.

No fairness is assumed for Persister: its properties are safety properties.

### LockServer (`LockServer.tla`, `MC_LockServer.tla`)

`lock_server.cc` keeps two maps under one mutex:
- `manager`: a condition variable per lock id;
- `recorder`: a free flag per lock id.

The model keeps both maps. `recorder` maps a lid to `None` while the map has no key for it. Each handler thread has a `pc` and the `lid` it works on.

A handler runs under the mutex, so everything between two points where it holds the mutex is one action:
- `Acquire(t, l)`: the whole of `acquire` up to its return or its first `pthread_cond_wait`. A new lid is inserted with a FALSE flag and granted at once. `std::map::insert` keeps an existing key, and the model does the same. A known lid is taken if its flag is TRUE; otherwise the thread waits.
- `Wake(t)`: a woken thread re-tests `while (!recorder[lid])`.
- `SpuriousWake(t)`: POSIX lets `pthread_cond_wait` return without a signal.
- `Release(t)`: sets the flag and signals one waiting thread of the lid, if there is one.

Fairness:
- `Wake` and `Release` are weakly fair. A woken thread is runnable, and every path of the lab2b client releases what it acquired.
- `Acquire` is not fair, because no client has to call it.
- Spurious wakeups are not fair either.

Starvation is possible. A signalled waiter can lose the lid to a newcomer that finds the flag TRUE. Under this fairness that can repeat for ever. It is the usual behaviour of a barging pthread lock, and the spec does not promise otherwise, so no run checks it.

Bounds: 3 threads and 2 lids. That is enough for a waiter, a second waiter and a barging newcomer on the same lid, with another lid in use. There are no counters, so the state space is finite.

### ConcurrentClients (`ConcurrentClients.tla`, `MC_ConcurrentClients.tla`)

Two lab2b clients over one extent server. The extent server has no lock of its own.

State:
- `holder`: the owner of each per-inode lock. This abstracts `LockServer`, which `lock_core` shows to be a mutual-exclusion lock.
- `itype`: the inode table.
- `content`: each extent's bytes, as a record:
  - `ents`: what `readdir` parses out of them;
  - `g`: for bytes a write put, the generation of the file the writer meant.
- `gen`: how many times each slot has been allocated.
- `inumber`: the shared cursor of `alloc_inode`.
- `pc` and `loc`: each client's position and locals.

Each operation is split where another RPC can run in between:
- **create/mkdir/symlink:**
  1. `Start`, the FUSE call;
  2. `Acquire` of the parent's lock;
  3. `CreateLookup`, which is `lookup` and `get`;
  4. `AllocProbe`, one iteration of `alloc_inode`'s loop per step;
  5. `AllocClaim`, which is `put_inode(inumber, ...)` and `return inumber`. Both read the shared cursor again.
  6. for symlink only, `SymlinkTarget`, which puts the link text into the inode `create` returned;
  7. `CreateLink`, which puts the parent and releases its lock.

  An existing name ends the operation in `CreateLookup`, which releases the parent's lock (the EXIST return).
- **write, setattr, read, readlink, isfile/isdir/getfile/getdir:**
  1. `Start`;
  2. `Acquire` of the inode's lock;
  3. `WriteBody` or `SetattrBody`, which puts the inode and releases its lock; `ReadBody`, `ReadlinkBody` or `GetattrBody`, which only releases it (each of `read`'s three returns, and the getattr error path, releases first).
- **unlink:**
  1. `Start`;
  2. `Acquire` of the parent's lock;
  3. `UnlinkBody`, which is `get`, `find`, `lookup` and `remove(tmp)`;
  4. `UnlinkPut`, which puts the parent and releases its lock.

  `find(name)` is a substring search, and erasing from its hit to the next `/` removes the named entry only if no name occurs inside another entry's text. Here names are model values, and the model erases exactly the named entry. So the runs stand for names that meet this premise: no name is a substring of another, and none is made of digits. `Lab3Client` runs the same `find`/`erase` byte by byte, and `lab3_unlink_substring` shows what breaks without the premise. Lab2b `unlink` has the same code.

  If the name is gone, `tmp` is uninitialised: it takes a value from the constant `Garbage`, then `erase(npos)` throws and the client dies holding the lock.

A put is one step. `alloc_block` inside `write_file` is an unlocked test-and-set, so two concurrent puts could take the same block. That race is not interleaved here: contents are abstract, and `InodeManager`, which has the blocks, runs one call at a time.

`remove_file` on a free or out-of-range inum is a NULL dereference, which kills the extent server. `write_file` on a free inode does nothing.

Bounds:
- 4 slots, so there are 3 free slots after the root;
- 2 names;
- `MAX_GEN = 2`: a create starts only while every slot has been allocated fewer than `MAX_GEN` times. That is enough to reuse a slot after an unlink. The bound is a guard in `Start` rather than a state constraint, because `LocksReleased` is a liveness property and a constraint would cut behaviours short;
- `Garbage = {Junk}`, an out-of-range value.

`ANY_PARENT = FALSE` keeps every operation in the root directory. Creates are then serialized by the root's lock, and `cc_alloc_race` lifts this restriction.

`CHECK_DEADLOCK FALSE` is honest here: once the extent server has segfaulted, or a client has died holding a lock, the system really stops. (With the create bound spent and every file unlinked, the model also has nothing left to start.)

Fairness (`FairSpec`): `Holding(t)`, the steps a client takes while it holds its lock, is weakly fair for each client. Each of those steps is one RPC to the extent server, which answers while it is up, and the client thread that sent it keeps running. `Start` and `Acquire` are not fair: a client need not issue another call, and the lock server does not promise FIFO hand-off (see LockServer).

`LocksReleased` checks that every lock taken is released again unless a process died. Each path out of create, mkdir, symlink, write, setattr, read, readlink, the getattr calls and unlink must call `lc->release`, the EXIST returns and `read`'s early returns included.

### ChfsStateMachine (`ChfsStateMachine.tla`)

The lab3 replicated extent service, as `apply_log` sees it.

State:
- `ext`: the extent service, each id mapped to `[type, data]` or `NoExt`;
- `log`: the submitted commands not applied yet, oldest first;
- `res`: the result object of each client thread's current command.

The operators and actions:
- `Submit`: a client thread's extent call, which appends a command and gives the thread a fresh result (`make_shared<result>()`).
- `ApplyLog`: the whole of `apply_log` on the oldest command. It has one case per command type (`ApplyCrt`, `ApplyPut`, `ApplyGet`, `ApplyGeta`, `ApplyRmv`), and `Finish` sets `done`.

The extent service below `apply_log` is the `ExtentStore` abstraction, which `im_core` checks `InodeManager` against:
- `create` takes a free id;
- on a full table, `create` returns a live one and changes nothing.

The marshall operators carry every field, so a command is a record.

The raw codec is modelled as operators on byte sequences:
- `RawSize` is `size()`;
- `Serialize` writes the four header fields at their offsets (each field is `sizeof` bytes, kept as `<<value, k>>`), then `strcpy` of the content;
- `Deserialize` reads the header back by casts at the same offsets and the content by `buf.assign` of a C string (`CStr`: the bytes before the first NUL).

`LogSerializable` (in `lab3_core`) applies them to every command in the log. Each command fits in its `size()` bytes. One whose content holds no NUL reads back intact. With a NUL, which setattr's zero-extension puts into the log, the content is cut at the NUL; TLC shows that at once if the premise is dropped. Only the raft persistence outside this repository calls this raw form.

### Lab3Client (`Lab3Client.tla`, `MC_Lab3Client.tla`)

`src/chfs_client.cc` over `ChfsStateMachine`. Each `ec->` call submits a command and blocks until it is applied, so an operation is a chain of steps. Each step waits for `Applied(t)`, takes the result, computes, and submits the next command. Each thread has a `pc` and locals `loc`.

The operations:
- **create/mkdir/symlink**: `StartCreate` (lookup's `get`), `CreateLookup` (EXIST or `create`), `CreateAlloc` (symlink's `put` of the link, or `get` of the parent), `CreateLinked`, `CreateAppend` (`put` of the text with `name:inum/` appended), `CreateReturn`.
- **unlink**: `StartUnlink`, `UnlinkLookup` (`remove` of the inum lookup found), `UnlinkGet`, `UnlinkPut` (`find`/`erase` on the text), `UnlinkReturn`.
- **write**: `StartWrite`, then `WritePut`.
- **setattr**: `StartSetattr`, then `SetattrPut`.
- **isfile/isdir/getfile/getdir**: `StartGetattr`.
- **readlink**: `StartReadlink`, one `get` of the link inode.
- **return**: `OpReturn`.

Directory text is a sequence of characters, and the string functions are modelled by what they do:
- `Filename` is `filename()` and `N2i` is `n2i()`.
- `FindPos`, `Substr` and `Erase` are `std::string`'s `find`, `substr` and `erase`. Positions count from 0, and `npos` is -1, as the code's `int` holds it.
- `ReadDirStep` is one turn of `readdir`'s loop, and `ReadDir` is the whole loop.
- `Lookup` returns the first entry whose name compares equal.
- `EraseEntry` is `unlink`'s `find(name)` followed by the erase through the next `/`.

A file's bytes are `"x"` (written) or `nul` (zero fill by `resize`).

History variables, used only by the properties:
- `dirs`: for each directory, the entries of the creates and unlinks that returned OK, in order;
- `files`: for each file, the bytes that the writes and setattrs which returned leave. They are computed by `SpecWrite` and `SpecResize`, which are written from spec §4.6, not from the code.

Fairness. `ApplyLog` is weakly fair: the applier thread applies every committed command, on the assumption that the consensus module commits what it is given. Each thread's `Continue(t)` is weakly fair: `notify_all` wakes a waiting thread, and a woken thread is runnable.

Bounds, in `MC_Lab3Client.cfg`:
- one client thread;
- ids 0..2, so there are 2 free inodes after the root (`alloc_inode` counts `% INODE_NUM`, so inum 0 can be handed out);
- names `a` and `b`;
- file sizes up to `MAX_FILE = 2`, so a write at offset 1 into an empty file zero-fills a gap, and setattr both truncates and extends;
- every operation in the root directory.

The state space is finite without a constraint, because `lookup` refuses a second create of a name. With two names the table never fills, so `create`'s full-table case is not reached here; `InodeManager` models it.

`MC_Lab3Unlink.cfg` changes the names to `a` and `ba`, with ids 0..3 and `MAX_FILE = 1`.

The runs keep one thread. With `Thr = {t1, t2}`, TLC violates `ListingMatches` in 18 states: both creates read the parent before either puts it back, and one entry is lost. The client takes no lock, and the spec locks only the non-replicated deployment, so this is recorded as a hazard rather than as a run.

## Runs

| Run | Result | What it shows |
|---|---|---|
| `im_core` | pass (~8.5k states) | While the disk has space, block ownership stays disjoint (P1), reads return the last write (P3), and the inode manager refines `ExtentStore`. |
| `im_leak` | violation | Grow a file past NDIRECT blocks, shrink it below, then remove it: the indirect block is leaked. The shrink keeps it referenced; the remove does not free it, because the file's size no longer needs it. |
| `im_full` | violation | On a full disk, the sentinel block 0 is used as a data block and reads return wrong bytes. |
| `wal_core` | pass (~90k states) | `checkpoint.bin` holds only committed mutations, in commit order. Both files decode back to the records written (`FilesDecode`). Each successful restart rebuilds what the files say is durable. |
| `wal_ckpt_crash` | violation | A crash between truncating the log and writing the checkpoint loses committed transactions (P6, spec §9). |
| `wal_compiled_segv` | violation | As compiled, the second start segfaults on the empty `executable`. |
| `lock_core` | pass (432 states) | No lid is ever held by two threads, and a lid with waiters is always eventually held again. |
| `cc_core` | pass (~500k states) | Concurrent creates, symlinks, writes, setattrs, reads, readlinks, getattrs and unlinks in one directory never lose an entry to an interleaving: the parent lock makes the read-modify-write of the directory atomic. This holds for names none of which occurs inside another entry's text; without that premise, `unlink`'s `find` loses entries on its own (`lab3_unlink_substring`). Under fairness, every lock a client takes is released again unless a process died. |
| `cc_stale_write` | violation | `unlink` frees a file while a writer holds the file's lock. The slot is reused, and the write lands in the new file. |
| `cc_alloc_race` | violation | Two creates in different directories run `alloc_inode` at once and return the same inum (P4). |
| `lab3_core` | pass (~45k states) | With one lab3 client thread, whenever the thread is idle every directory's text parses back to exactly the entries of the operations that returned (P5). Every file holds what the spec's write and setattr give. Every logged command fits the buffer `size()` allots it, and NUL-free ones deserialize back intact. Every operation returns once its commands are applied. |
| `lab3_unlink_substring` | violation | With entries `ba` and `a`, `unlink("a")` erases from the `a` inside `ba`. The text is left as `ba:<inum of a>/`, which names the removed inode. |

## Plan

All of the system's state-changing code is now in some module. What remains, in order of importance:
1. The lab3 create race as a run, if a run slot frees up.
2. `Lab3Client` against `ExtentStore` through `ChfsStateMachine`, as a refinement.
3. A torn append as an outcome of `Persister`'s `Crash`, now that the log files are cell sequences, with its violation run.

Two ConcurrentClients and Persister findings are not kept as runs within the 12-run budget; the properties are still in the modules:
- `NoCrash`: a second unlink of one name removes an uninitialised `tmp`.
- `RecoveryAssertHolds`: after an uncommitted transaction, a checkpoint and a crash, `txid_max` lags and startup calls `exit(1)`, with `TX_BRACKETS = TRUE`.

## Not modelled

- Timestamps, `get_attr` and `getattr`: they only read state.
- The 16 MiB `snapshot`/`restore_snapshot`: nothing calls them.
- Torn log records. The log is byte-level (cells), but an append is one step, so a crash falls between appends. A PUT larger than the stream buffer takes several `write` calls, so a process death inside `append_log` can cut its content short. After a restart, `restore_logdata` then reads `content_size` bytes that belong to later records, and misparses everything after them. A torn append as a further outcome of `Crash` would show this; it is not among the faults checked.
- The race between concurrent `alloc_block` calls inside `write_file`, on the block bitmap. `ConcurrentClients` makes a put one step, and `InodeManager` runs one call at a time.
- Sizes above `MAXFILE`.
- The consensus module: it is not in this repository.
- The lab3 skeleton's empty methods.
- lab3 `read`: one `get` like `readlink`, which changes nothing else; `readlink` stands for both.
- The `raft_protocol.h` argument structs: they only marshal fields.
- A restart of the lock server: it persists nothing, and nothing in the code handles clients that hold locks across a restart.
- The lab2b transaction brackets under concurrency: they are commented out, and `Persister` covers them for one client.
