------------------------------ MODULE Persister ------------------------------
(***************************************************************************)
(* The write-ahead log, the checkpoint and the crash recovery of the       *)
(* lab2b extent server (src/lab2b/persister.h, src/lab2b/extent_server.cc) *)
(* driven by one chfs_client thread (src/lab2b/chfs_client.cc).            *)
(*                                                                         *)
(* The inode manager is abstracted to the content of each extent: NoExt    *)
(* for a free inode, Empty for "", or a value of Vals; module InodeManager *)
(* checks the block layer underneath.  A log record keeps the fields that  *)
(* recovery reads (tx id, kind, inum, content); logdata.bin and           *)
(* checkpoint.bin hold their encoding, one cell per field, which restart   *)
(* decodes.  MAX_LOG_SZ is counted in cells.                               *)
(*                                                                         *)
(* TX_BRACKETS selects the client: FALSE is the program as compiled, whose *)
(* BEGIN/COMMIT appends and checkpoint trigger are commented out; TRUE     *)
(* runs that commented-out code.  The client and the extent server share  *)
(* one process (the client code reaches ec->es), so a crash loses both and *)
(* a restart runs the extent_server constructor and then the chfs_client   *)
(* constructor again.                                                      *)
(***************************************************************************)
EXTENDS Naturals, Sequences, SequencesExt, FiniteSets

CONSTANTS
    INODE_NUM,     \* inode table size
    Vals,          \* non-empty contents a client may put (model values)
    Empty,         \* the empty extent ""
    NoExt,         \* a free inode
    NoTx,          \* a value matching no transaction id
    PastEnd,       \* what *exe may read once exe == executable.end()
    MAX_LOG,       \* MAX_LOG_SZ, in cells
    TX_BRACKETS    \* the client brackets each operation in BEGIN ... COMMIT

ASSUME INODE_NUM >= 2 /\ MAX_LOG >= 13 /\ TX_BRACKETS \in BOOLEAN
ASSUME NoTx \notin Nat /\ PastEnd # {}

Inums    == 0..INODE_NUM-1
Contents == {Empty} \cup Vals
Kinds    == {"BEGIN", "COMMIT", "CREATE", "PUT", "REMOVE"}
Record   == [tx: Nat, kind: Kinds, inum: Inums, val: Contents]
Rec(t, k, i, v) == [tx |-> t, kind |-> k, inum |-> i, val |-> v]
IsMutation(r)   == r.kind \in {"CREATE", "PUT", "REMOVE"}
Faults   == {"segv", "abort"}

VARIABLES
    logFile,    \* the records appended to logdata.bin, in order
    logBytes,   \* logdata.bin: their encoding
    ckptFile,   \* the records appended to checkpoint.bin, in order
    ckptBytes,  \* checkpoint.bin: their encoding
    store,      \* the extents held by the inode manager (memory)
    cursor,     \* inode_manager::inumber, the alloc_inode cursor (memory)
    txidMax,    \* extent_server::txid_max (memory)
    entries,    \* persister::log_entries (memory)
    pc,         \* where the client thread is; "down" while the process is dead
    script,     \* extent calls the current client operation still has to make
    committed,  \* history: mutations of committed transactions, in commit order
    pending,    \* history: mutations of the open transaction
    faults,     \* history: how the process has died other than by a crash
    ops,        \* history: client operations started
    crashes     \* history: crashes so far

vars == <<logFile, logBytes, ckptFile, ckptBytes, store, cursor, txidMax, entries, pc, script,
          committed, pending, faults, ops, crashes>>
memory == <<store, cursor, txidMax, entries, script, pending>>

\* inode_manager(): inumber = 0, then alloc_inode(T_DIR) takes inode 1.
Boot == [i \in Inums |-> IF i = 1 THEN Empty ELSE NoExt]

\* Bug variant: the cursor is stepped without the modulo.
AllocInumNoWrap(s, c) ==
    LET free == {k \in 1..INODE_NUM : s[(c + k) % INODE_NUM] = NoExt}
    IN  c + (IF free = {} THEN INODE_NUM ELSE Min(free))

\* alloc_inode: steps the cursor at most INODE_NUM times to a free inode;
\* with none free it comes back to where it started, a live inode.
AllocInum(s, c) ==
    LET free == {k \in 1..INODE_NUM : s[(c + k) % INODE_NUM] = NoExt}
    IN  (c + (IF free = {} THEN INODE_NUM ELSE Min(free))) % INODE_NUM

\* One record replayed on the inode manager: CREATE is put_inode of a fresh
\* inode, PUT is write_file (a no-op on a free inode), REMOVE is remove_file.
ApplyRec(s, r) ==
    CASE r.kind = "CREATE" -> [s EXCEPT ![r.inum] = Empty]
      [] r.kind = "PUT"    -> IF s[r.inum] = NoExt THEN s
                              ELSE [s EXCEPT ![r.inum] = r.val]
      [] r.kind = "REMOVE" -> [s EXCEPT ![r.inum] = NoExt]
      [] OTHER             -> s

RECURSIVE Replay(_, _)
Replay(s, recs) ==
    IF recs = <<>> THEN s ELSE Replay(ApplyRec(s, Head(recs)), Tail(recs))

\* remove_file dereferences the NULL that get_inode returns for a free inode.
RemovesFree(s, recs) ==
    \E j \in DOMAIN recs :
        /\ recs[j].kind = "REMOVE"
        /\ Replay(s, SubSeq(recs, 1, j - 1))[recs[j].inum] = NoExt

\* The ids of the COMMIT records, in log order: the vector `executable`.
Executable(recs) ==
    LET c == SelectSeq(recs, LAMBDA r : r.kind = "COMMIT")
    IN  [j \in DOMAIN c |-> c[j].tx]

\* Bug variant: the id test is missing; every mutation is kept.
RECURSIVE WalkNoFilter(_, _, _)
WalkNoFilter(recs, exes, g) ==
    IF recs = <<>> THEN <<>>
    ELSE IF IsMutation(Head(recs))
         THEN <<Head(recs)>> \o WalkNoFilter(Tail(recs), exes, g)
         ELSE WalkNoFilter(Tail(recs), exes, g)

\* Bug variant: a COMMIT does not advance exe, so only the first committed
\* transaction of the vector is kept.
RECURSIVE WalkStuck(_, _, _)
WalkStuck(recs, exes, g) ==
    IF recs = <<>> THEN <<>>
    ELSE LET r   == Head(recs)
             cur == IF exes = <<>> THEN g ELSE Head(exes)
         IN  IF r.tx # cur \/ ~IsMutation(r) THEN WalkStuck(Tail(recs), exes, g)
             ELSE <<r>> \o WalkStuck(Tail(recs), exes, g)

\* The loop that both do_checkpoint and recovery run over a record vector:
\* a record whose id differs from *exe is skipped, a COMMIT advances exe,
\* a mutation is kept.  Once exe is past the end, *exe reads g.
RECURSIVE Walk(_, _, _)
Walk(recs, exes, g) ==
    IF recs = <<>> THEN <<>>
    ELSE LET r   == Head(recs)
             cur == IF exes = <<>> THEN g ELSE Head(exes)
         IN  IF r.tx # cur THEN Walk(Tail(recs), exes, g)
             ELSE IF r.kind = "COMMIT" THEN Walk(Tail(recs), Tail(exes), g)
             ELSE IF r.kind = "BEGIN" THEN Walk(Tail(recs), exes, g)
             ELSE <<r>> \o Walk(Tail(recs), exes, g)

\* *exe on an empty `executable` dereferences begin() == nullptr.
DerefsEmpty(recs) == recs # <<>> /\ Executable(recs) = <<>>

Begins(recs) == SelectSeq(recs, LAMBDA r : r.kind = "BEGIN")

\* txid_max after the checkpoint replay: the id of the last checkpoint record.
CkptTxid(ck) == IF ck = <<>> THEN 0 ELSE Last(ck).tx

\* First pass: each BEGIN bumps txid_max and must then equal its id.
TxidAssertHolds(t, recs) ==
    LET b == Begins(recs) IN \A j \in DOMAIN b : b[j].tx = t + j

(***************************************************************************)
(* The file format.  Each field is one cell of the file; the bytes of a    *)
(* PUT content are one cell (content_size 1) or none ("", content_size 0). *)
(* cmd_type is written as its enum value; the file type a CREATE carries  *)
(* is not modelled and one cell value, FTYPE, stands for it.               *)
(***************************************************************************)
CmdName == <<"BEGIN", "COMMIT", "CREATE", "PUT", "REMOVE">>
CMD_INVALID == 5
FTYPE == 2
Code(k) == CHOOSE c \in DOMAIN CmdName : CmdName[c] = k
ContentCells(v) == IF v = Empty THEN <<>> ELSE <<v>>

\* append_log (and do_checkpoint, which writes mutations the same way).
Encode(r) ==
    LET head == <<r.tx, Code(r.kind) - 1>> IN
    CASE r.kind \in {"BEGIN", "COMMIT"} -> head
      [] r.kind = "CREATE" -> head \o <<FTYPE, r.inum>>
      [] r.kind = "PUT"    -> head \o <<r.inum, Len(ContentCells(r.val))>>
                                   \o ContentCells(r.val)
      [] r.kind = "REMOVE" -> head \o <<r.inum>>
EncodeAll(recs) == FoldLeft(LAMBDA acc, r : acc \o Encode(r), <<>>, recs)

\* istream::read past the end of the file leaves the field as the
\* chfs_command(CMD_INVALID, 0) constructor set it.
Field(f, k, dflt) == IF k <= Len(f) THEN f[k] ELSE dflt

\* Bug variant: the CREATE case does not read the file_type field.
ReadCmdNoFileType(f, k) ==
    LET id   == Field(f, k, 0)
        ty   == Field(f, k + 1, CMD_INVALID)
        kind == IF ty \in 0..4 THEN CmdName[ty + 1] ELSE "INVALID"
        inum == IF kind \in {"CREATE", "PUT", "REMOVE"} THEN Field(f, k + 2, 0)
                ELSE 0
        size == IF kind = "PUT" THEN Field(f, k + 3, 0) ELSE 0
        val  == IF size = 0 THEN Empty ELSE Field(f, k + 4, Empty)
        next == k + 2 + (CASE kind = "CREATE" -> 1
                           [] kind = "PUT" -> 2 + size
                           [] kind = "REMOVE" -> 1
                           [] OTHER -> 0)
    IN  [rec  |-> IF kind = "INVALID" THEN <<>>
                  ELSE <<Rec(id, kind, inum, val)>>,
         next |-> next]

\* One pass of the while (!eof) loop at cell k: the record it pushes, if
\* any, and where the next pass reads.  The pass after the last record
\* reads nothing, leaves the type CMD_INVALID and pushes nothing.
ReadCmd(f, k) ==
    LET id   == Field(f, k, 0)
        ty   == Field(f, k + 1, CMD_INVALID)
        kind == IF ty \in 0..4 THEN CmdName[ty + 1] ELSE "INVALID"
        inum == CASE kind = "CREATE" -> Field(f, k + 3, 0)
                  [] kind \in {"PUT", "REMOVE"} -> Field(f, k + 2, 0)
                  [] OTHER -> 0
        size == IF kind = "PUT" THEN Field(f, k + 3, 0) ELSE 0
        val  == IF size = 0 THEN Empty ELSE Field(f, k + 4, Empty)
        next == k + 2 + (CASE kind = "CREATE" -> 2
                           [] kind = "PUT" -> 2 + size
                           [] kind = "REMOVE" -> 1
                           [] OTHER -> 0)
    IN  [rec  |-> IF kind = "INVALID" THEN <<>>
                  ELSE <<Rec(id, kind, inum, val)>>,
         next |-> next]

\* The loop tests eof before each pass; eof is set by a pass that read past
\* the end, and an empty file still gets one pass.
RECURSIVE Restore(_, _)
Restore(f, k) ==
    LET c == ReadCmd(f, k)
    IN  c.rec \o (IF c.next > Len(f) + 1 THEN <<>> ELSE Restore(f, c.next))

RestoreLogdata(f) == Restore(f, 1)
\* restore_checkpoint has no BEGIN or COMMIT case; its default reads no
\* more fields and pushes the record, as restore_logdata's cases do.
RestoreCheckpoint(f) == Restore(f, 1)

AppendLog(r) ==
    /\ logFile' = Append(logFile, r)
    /\ logBytes' = logBytes \o Encode(r)
    /\ entries' = Append(entries, r)

Init ==
    /\ logFile = <<>> /\ ckptFile = <<>> /\ logBytes = <<>> /\ ckptBytes = <<>>
    /\ store = Boot /\ cursor = 1 /\ txidMax = 0 /\ entries = <<>>
    /\ pc = "init" /\ script = <<>>
    /\ committed = <<>> /\ pending = <<>> /\ faults = {}
    /\ ops = 0 /\ crashes = 0

(***************************************************************************)
(* The client thread.                                                      *)
(***************************************************************************)

\* chfs_client::chfs_client: ec->put(1, "") resets the root directory.
ClientInit ==
    /\ pc = "init"
    /\ store' = [store EXCEPT ![1] = Empty]
    /\ AppendLog(Rec(txidMax, "PUT", 1, Empty))
    /\ pc' = "idle"
    /\ UNCHANGED <<ckptFile, ckptBytes, cursor, txidMax, script, committed, pending,
                   faults, ops, crashes>>

\* The extent calls of create and mkdir (ec->create, then ec->put of the
\* parent), write and setattr (ec->put of the file; setattr(0) puts "") and
\* unlink (ec->remove, then ec->put of the parent), with the parent's new
\* text or the file's new content abstracted to a value.
Op(k, i, v) == [kind |-> k, inum |-> i, val |-> v]
Scripts(s) ==
    LET files == {i \in Inums \ {1} : s[i] # NoExt} IN
        {<<Op("CREATE", 0, Empty), Op("PUT", 1, v)>> : v \in Vals}
    \cup {<<Op("PUT", i, v)>> : i \in files, v \in Contents}
    \cup {<<Op("REMOVE", i, Empty), Op("PUT", 1, v)>> : i \in files, v \in Vals}

\* persister::logdata_size: the length of logdata.bin.
LogdataSize == Len(logBytes)

\* tx_log_size: what BEGIN, COMMIT and the operation's calls will append.
TxLogSize(sc) ==
    4 + FoldLeft(LAMBDA n, o : n + Len(Encode(Rec(0, o.kind, o.inum, o.val))),
                 0, sc)

\* An operation starts; with TX_BRACKETS it first checks whether its records
\* would take logdata.bin past MAX_LOG_SZ.
StartOp ==
    /\ pc = "idle"
    /\ \E sc \in Scripts(store) :
         /\ script' = sc
         /\ pc' = CASE ~TX_BRACKETS                      -> "ops"
                    [] LogdataSize + TxLogSize(sc) > MAX_LOG -> "trunc"
                    [] OTHER                              -> "begin"
    /\ ops' = ops + 1
    /\ UNCHANGED <<logFile, logBytes, ckptFile, ckptBytes, store, cursor, txidMax, entries,
                   committed, pending, faults, crashes>>

\* do_checkpoint step 01: truncate logdata.bin.
CkptTruncate ==
    /\ pc = "trunc"
    /\ logFile' = <<>> /\ logBytes' = <<>>
    /\ pc' = "ckptw"
    /\ UNCHANGED <<ckptFile, ckptBytes, store, cursor, txidMax, entries, script,
                   committed, pending, faults, ops, crashes>>

\* The process dies; every memory variable is lost.
Die ==
    /\ pc' = "down"
    /\ store' = Boot /\ cursor' = 1 /\ txidMax' = 0 /\ entries' = <<>>
    /\ script' = <<>> /\ pending' = <<>>

\* do_checkpoint steps 02-04: append the mutations the walk keeps to
\* checkpoint.bin and clear log_entries; with no COMMIT among the entries
\* the walk dereferences nullptr.
CkptWrite ==
    /\ pc = "ckptw"
    /\ IF DerefsEmpty(entries)
       THEN /\ Die
            /\ faults' = faults \cup {"segv"}
            /\ UNCHANGED <<ckptFile, ckptBytes>>
       ELSE /\ \E g \in PastEnd :
                 LET w == Walk(entries, Executable(entries), g) IN
                 /\ ckptFile' = ckptFile \o w
                 /\ ckptBytes' = ckptBytes \o EncodeAll(w)
            /\ entries' = <<>>
            /\ pc' = "begin"
            /\ UNCHANGED <<store, cursor, txidMax, script, pending, faults>>
    /\ UNCHANGED <<logFile, logBytes, committed, ops, crashes>>

\* txid_max++ and append BEGIN.
Begin ==
    /\ pc = "begin"
    /\ txidMax' = txidMax + 1
    /\ AppendLog(Rec(txidMax + 1, "BEGIN", 0, Empty))
    /\ pc' = "ops"
    /\ pending' = <<>>
    /\ UNCHANGED <<ckptFile, ckptBytes, store, cursor, script, committed, faults, ops,
                   crashes>>

\* The client's next extent call has run and logged record r.
CallDone(r) ==
    /\ AppendLog(r)
    /\ pending' = IF TX_BRACKETS THEN Append(pending, r) ELSE pending
    /\ script' = Tail(script)
    /\ pc' = IF Tail(script) # <<>> THEN "ops"
             ELSE IF TX_BRACKETS THEN "commit" ELSE "idle"

\* extent_server::create: alloc_inode, then log CREATE.
ExecCreate ==
    /\ pc = "ops" /\ Head(script).kind = "CREATE"
    /\ LET n == AllocInum(store, cursor) IN
         /\ cursor' = n
         /\ store' = [i \in Inums |-> IF i = n /\ store[i] = NoExt THEN Empty
                                     ELSE store[i]]
         /\ CallDone(Rec(txidMax, "CREATE", n, Empty))
    /\ UNCHANGED <<ckptFile, ckptBytes, txidMax, committed, faults, ops, crashes>>

\* extent_server::put: write_file, then log PUT.
ExecPut ==
    /\ pc = "ops" /\ Head(script).kind = "PUT"
    /\ LET c == Head(script) IN
         /\ store' = ApplyRec(store, Rec(txidMax, "PUT", c.inum, c.val))
         /\ CallDone(Rec(txidMax, "PUT", c.inum, c.val))
    /\ UNCHANGED <<ckptFile, ckptBytes, cursor, txidMax, committed, faults, ops, crashes>>

\* extent_server::remove: remove_file, then log REMOVE.
ExecRemove ==
    /\ pc = "ops" /\ Head(script).kind = "REMOVE"
    /\ LET i == Head(script).inum IN
         /\ store' = [store EXCEPT ![i] = NoExt]
         /\ CallDone(Rec(txidMax, "REMOVE", i, Empty))
    /\ UNCHANGED <<ckptFile, ckptBytes, cursor, txidMax, committed, faults, ops, crashes>>

\* Append COMMIT; the transaction's mutations are now committed.
Commit ==
    /\ pc = "commit"
    /\ AppendLog(Rec(txidMax, "COMMIT", 0, Empty))
    /\ committed' = committed \o pending
    /\ pc' = "idle"
    /\ UNCHANGED <<ckptFile, ckptBytes, store, cursor, txidMax, script, pending, faults,
                   ops, crashes>>
(***************************************************************************)
(* Crash and restart.                                                      *)
(***************************************************************************)

\* The process is killed between any two steps; the files survive.
Crash ==
    /\ pc # "down"
    /\ Die
    /\ crashes' = crashes + 1
    /\ UNCHANGED <<logFile, logBytes, ckptFile, ckptBytes, committed, faults, ops>>

\* extent_server::extent_server: restore both files, replay checkpoint.bin,
\* first pass over the log (txid_max, executable, exit(1) on a BEGIN out of
\* sequence), second pass replaying what the walk keeps; then the
\* chfs_client constructor runs (ClientInit).
Restart ==
    /\ pc = "down"
    /\ \E g \in PastEnd :
       LET ck   == RestoreCheckpoint(ckptBytes)
           lg   == RestoreLogdata(logBytes)
           s0   == Replay(Boot, ck)
           t0   == CkptTxid(ck)
           redo == Walk(lg, Executable(lg), g)
       IN  CASE RemovesFree(Boot, ck) \/
                (TxidAssertHolds(t0, lg) /\
                 (DerefsEmpty(lg) \/ RemovesFree(s0, redo)))
                  -> faults' = faults \cup {"segv"} /\ UNCHANGED memory
                                                   /\ UNCHANGED pc
             [] ~TxidAssertHolds(t0, lg)
                  -> faults' = faults \cup {"abort"} /\ UNCHANGED memory
                                                    /\ UNCHANGED pc
             [] OTHER
                  -> /\ store' = Replay(s0, redo)
                     /\ cursor' = 1
                     /\ txidMax' = t0 + Len(Begins(lg))
                     /\ entries' = lg
                     /\ pc' = "init"
                     /\ UNCHANGED <<script, pending, faults>>
    /\ UNCHANGED <<logFile, logBytes, ckptFile, ckptBytes, committed, ops, crashes>>

Next ==
    \/ ClientInit \/ StartOp \/ CkptTruncate \/ CkptWrite \/ Begin
    \/ ExecCreate \/ ExecPut \/ ExecRemove \/ Commit
    \/ Crash \/ Restart

Spec == Init /\ [][Next]_vars

(***************************************************************************)
(* Properties.                                                             *)
(***************************************************************************)

PCs == {"init", "idle", "trunc", "ckptw", "begin", "ops", "commit", "down"}

TypeOK ==
    /\ logFile \in Seq(Record) /\ ckptFile \in Seq(Record)
    /\ logBytes \in Seq(Nat \cup Contents) /\ ckptBytes \in Seq(Nat \cup Contents)
    /\ store \in [Inums -> Contents \cup {NoExt}]
    /\ cursor \in Inums /\ txidMax \in Nat /\ entries \in Seq(Record)
    /\ pc \in PCs /\ script \in Seq([kind: Kinds, inum: Inums, val: Contents])
    /\ committed \in Seq(Record) /\ pending \in Seq(Record)
    /\ faults \subseteq Faults /\ ops \in Nat /\ crashes \in Nat

\* s is a subsequence of t: consuming t left to right matches all of s.
IsSubSeqOf(s, t) ==
    LET step(rest, x) == IF rest # <<>> /\ Head(rest) = x THEN Tail(rest) ELSE rest
    IN  FoldLeft(step, s, t) = <<>>

\* do_checkpoint writes to checkpoint.bin only mutations of committed
\* transactions, in commit order: uncommitted records, the constructor's
\* root reset and records of an abandoned transaction never get there,
\* across any number of crashes, restarts and checkpoints.
CheckpointOnlyCommitted == IsSubSeqOf(ckptFile, committed)

\* What restore_logdata and restore_checkpoint read back from logdata.bin
\* and checkpoint.bin is, record for record, what append_log and
\* do_checkpoint wrote there, after any mix of CREATE, PUT with and without
\* content, REMOVE, BEGIN and COMMIT records, truncations and restarts.
FilesDecode ==
    /\ RestoreLogdata(logBytes) = logFile
    /\ RestoreCheckpoint(ckptBytes) = ckptFile

\* A record of logdata.bin is durable iff a COMMIT of its transaction
\* follows it (spec 4.4, correctness rationale).
DurableInLog(recs) ==
    LET keep(j) == /\ IsMutation(recs[j])
                   /\ \E c \in j+1..Len(recs) :
                          recs[c].kind = "COMMIT" /\ recs[c].tx = recs[j].tx
        idx == SelectSeq([j \in DOMAIN recs |-> j], keep)
    IN  [k \in DOMAIN idx |-> recs[idx[k]]]

\* The restart code (checkpoint replay, then the exe-pointer walk over the
\* log) rebuilds exactly the extents given by replaying checkpoint.bin and
\* then every record of logdata.bin followed by its transaction's COMMIT.
RecoveryFollowsDisk ==
    [][pc = "down" /\ pc' = "init" =>
          store' = Replay(Replay(Boot, ckptFile), DurableInLog(logFile))]_vars

\* P6: a restart yields the state of replaying exactly the committed
\* transactions, whatever crash point preceded it.
RecoveredIsCommitted ==
    [][pc = "down" /\ pc' = "init" => store' = Replay(Boot, committed)]_vars

\* The startup assertion on BEGIN ids (exit(1)) never fires on a log that
\* the program itself wrote (spec 7: it guards against tampering only).
RecoveryAssertHolds == "abort" \notin faults

\* The process never dereferences a null or freed pointer while checkpointing
\* or recovering.
NoSegfault == "segv" \notin faults
=============================================================================
