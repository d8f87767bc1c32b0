------------------------- MODULE ChfsStateMachine -------------------------
(***************************************************************************)
(* The replicated extent service of lab3, src/chfs_state_machine.cc.       *)
(*                                                                         *)
(* Every extent call of a client becomes a chfs_command_raft.  The         *)
(* consensus module (not under src/) appends it to the log in the order    *)
(* it is submitted and, once it is committed, the single applier thread    *)
(* calls apply_log on it, in log order.  apply_log runs the command        *)
(* against the local extent service and hands the outcome to the thread   *)
(* that submitted it through the command's shared `result` (done, id,      *)
(* buf, attr), then notifies result.cv, on which that thread waits.        *)
(*                                                                         *)
(*   ext : the extent service, id -> [type, data] or NoExt                 *)
(*   log : the submitted commands not applied yet, oldest first            *)
(*   res : the result object of each client thread's current command      *)
(*                                                                         *)
(* The extent service is the ExtentStore abstraction (InodeManager is      *)
(* checked against it): create takes a free id, or, with the inode table   *)
(* full, returns a live one and changes nothing (alloc_inode's cursor).    *)
(***************************************************************************)
EXTENDS Naturals, Sequences
LOCAL INSTANCE SequencesExt

CONSTANTS
    Ids,     \* inode numbers of the extent service
    Chars,   \* the bytes an extent's content is made of
    Thr,     \* client threads that submit commands
    NoExt    \* model value: no extent at this id

\* extent_protocol types.
T_DIR == 1
T_FILE == 2
T_SYMLINK == 3
Types == {T_DIR, T_FILE, T_SYMLINK}
Root == 1

VARIABLES ext, log, res

smVars == <<ext, log, res>>

CmdTypes == {"CRT", "PUT", "GET", "GETA", "RMV"}
Command == [tp : CmdTypes, type : Types, id : Ids, buf : Seq(Chars), by : Thr]
Result == [done : BOOLEAN, id : Ids, buf : Seq(Chars), type : {0} \cup Types]
Extent(t, c) == [type |-> t, data |-> c]

Live(i) == ext[i] # NoExt

\* The result object a fresh chfs_command_raft owns (make_shared<result>()).
FreshResult == [done |-> FALSE, id |-> Root, buf |-> <<>>, type |-> 0]

\* The extent service after construction: the root directory, empty
\* (alloc_inode(T_DIR) = 1 and the client's put(1, "")).
SMInit ==
    /\ ext = [i \in Ids |-> IF i = Root THEN Extent(T_DIR, <<>>) ELSE NoExt]
    /\ log = <<>>
    /\ res = [t \in Thr |-> FreshResult]

\* Client thread t hands the command {tp, type, id, buf} to the consensus
\* module; it then waits on the command's fresh result object.
Submit(t, tp, type, id, buf) ==
    /\ log' = Append(log, [tp |-> tp, type |-> type, id |-> id, buf |-> buf, by |-> t])
    /\ res' = [res EXCEPT ![t] = FreshResult]

\* result.done = true and cv.notify_all(), with the fields case c stored.
Finish(c, r) == res' = [res EXCEPT ![c.by] = [r EXCEPT !.done = TRUE]]

\* CMD_CRT: es.create(type, id); result.id = id.  alloc_inode takes a free
\* slot; on a full table it returns the live slot under its cursor.
FreeIds == {i \in Ids : ~Live(i)}
ApplyCrt(c) ==
    /\ c.tp = "CRT"
    /\ \E i \in (IF FreeIds # {} THEN FreeIds ELSE Ids) :
          /\ ext' = IF Live(i) THEN ext ELSE [ext EXCEPT ![i] = Extent(c.type, <<>>)]
          /\ Finish(c, [res[c.by] EXCEPT !.id = i])

\* Bug variant: put stores the data and never sets result.done.
ApplyPutNoDone(c) ==
    /\ c.tp = "PUT"
    /\ Live(c.id)
    /\ ext' = [ext EXCEPT ![c.id].data = c.buf]
    /\ UNCHANGED res

\* CMD_PUT: es.put(id, buf) (write_file needs a live inode).
ApplyPut(c) ==
    /\ c.tp = "PUT"
    /\ Live(c.id)
    /\ ext' = [ext EXCEPT ![c.id].data = c.buf]
    /\ Finish(c, res[c.by])

\* CMD_GET: es.get(id, buf); result.buf = buf ("" for a free inode).
ApplyGet(c) ==
    /\ c.tp = "GET"
    /\ Finish(c, [res[c.by] EXCEPT !.buf = IF Live(c.id) THEN ext[c.id].data ELSE <<>>])
    /\ UNCHANGED ext

\* CMD_GETA: es.getattr(id, attr); result.attr = attr (type 0 when free).
ApplyGeta(c) ==
    /\ c.tp = "GETA"
    /\ Finish(c, [res[c.by] EXCEPT !.type = IF Live(c.id) THEN ext[c.id].type ELSE 0])
    /\ UNCHANGED ext

\* CMD_RMV: es.remove(id) (remove_file of a free inode dereferences NULL;
\* the step is not enabled then).
ApplyRmv(c) ==
    /\ c.tp = "RMV"
    /\ Live(c.id)
    /\ ext' = [ext EXCEPT ![c.id] = NoExt]
    /\ Finish(c, res[c.by])

\* apply_log(cmd) on the oldest committed command, under result.mtx.
ApplyLog ==
    /\ log # <<>>
    /\ log' = Tail(log)
    /\ LET c == Head(log) IN
       \/ ApplyCrt(c)
       \/ ApplyPut(c)
       \/ ApplyGet(c)
       \/ ApplyGeta(c)
       \/ ApplyRmv(c)

-----------------------------------------------------------------------------
(* The raw command codec, chfs_command_raft::size/serialize/deserialize.  *)
(* A header field of width w is w bytes; they are kept as <<value, k>>,   *)
(* byte k of the value, so reading them back through a cast of the same   *)
(* offset yields the same bytes.  The content bytes are Chars.            *)

Nul == "nul"

\* sizeof(command_type), sizeof(uint32_t), sizeof(extentid_t), sizeof(int).
TP_W == 4
TYPE_W == 4
ID_W == 8
LEN_W == 4
HDR == TP_W + TYPE_W + ID_W + LEN_W

FieldBytes(v, w) == [k \in 1..w |-> <<v, k>>]

\* buf.data() read as a C string: the bytes before the first NUL.
CStr(b) ==
    LET n == SelectInSeq(b, LAMBDA x : x = Nul) IN
    IF n = 0 THEN b ELSE SubSeq(b, 1, n - 1)

\* Bug variant: size() without the terminator strcpy writes.
RawSizeNoTerminator(c) == HDR + Len(c.buf)

\* size(): the header, buf.size() bytes and a terminating NUL.
RawSize(c) == HDR + Len(c.buf) + 1

\* serialize: the header fields at their offsets, then strcpy of buf.data()
\* (the bytes up to the first NUL, and that NUL).
Serialize(c) ==
    FieldBytes(c.tp, TP_W) \o FieldBytes(c.type, TYPE_W) \o FieldBytes(c.id, ID_W)
        \o FieldBytes(Len(c.buf), LEN_W) \o CStr(c.buf) \o <<Nul>>

\* deserialize: the header read back by casts at the same offsets (the
\* length field is read and not used) and buf.assign of the C string
\* after the header.
Deserialize(b) ==
    [tp |-> SubSeq(b, 1, TP_W),
     type |-> SubSeq(b, TP_W + 1, TP_W + TYPE_W),
     id |-> SubSeq(b, TP_W + TYPE_W + 1, TP_W + TYPE_W + ID_W),
     buf |-> CStr(SubSeq(b, HDR + 1, Len(b)))]

\* What a command's fields are as bytes.
RawFields(c) ==
    [tp |-> FieldBytes(c.tp, TP_W), type |-> FieldBytes(c.type, TYPE_W),
     id |-> FieldBytes(c.id, ID_W), buf |-> c.buf]

SMTypeOK ==
    /\ ext \in [Ids -> [type : Types, data : Seq(Chars)] \cup {NoExt}]
    /\ log \in Seq(Command)
    /\ res \in [Thr -> Result]

\* Every command waiting in the log can be written to disk by serialize
\* into the size() bytes allocated for it without writing past them, and
\* a command whose buf holds no NUL byte is read back by deserialize with
\* the same fields and content.  (With a NUL byte in buf, strcpy and
\* buf.assign stop at it and the rest of the content is lost.)
LogSerializable ==
    \A k \in 1..Len(log) :
        LET c == log[k] IN
        /\ Len(Serialize(c)) <= RawSize(c)
        /\ (\A j \in 1..Len(c.buf) : c.buf[j] # Nul) =>
               Deserialize(Serialize(c)) = RawFields(c)
=============================================================================
