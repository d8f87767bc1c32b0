--------------------------- MODULE InodeManager ---------------------------
(***************************************************************************)
(* The block manager and inode manager of src/inode_manager.cc.            *)
(*                                                                         *)
(* An extent is an inode plus the data blocks it addresses: NDIRECT direct *)
(* block ids and one indirect block holding NINDIRECT further ids.  The    *)
(* bitmap allocator hands out the first free data block, or the sentinel 0 *)
(* when the disk is full.  The operations the extent server calls are one  *)
(* action each: alloc_inode, write_file and remove_file.  read_file and    *)
(* get_nth_blockid are operators over the state.                           *)
(*                                                                         *)
(* Data is abstracted: a block written as block n of a put of tag v to     *)
(* inode i holds <<i, v, n>>, so a read can tell whose bytes it got.  The  *)
(* pointer view of a block (its use as an indirect block) is kept in a     *)
(* separate variable; a block is used both ways only after two owners      *)
(* share it, which BlocksDisjoint already reports.  What the code leaves   *)
(* behind and never reads again (the bytes of a freed block, the size and  *)
(* block ids of a freed inode slot) is reset when freed, so that equal     *)
(* observable states are one state.                                        *)
(***************************************************************************)
EXTENDS Naturals, FiniteSets, FiniteSetsExt

CONSTANTS
    INODE_NUM,   \* inode table size; inums are 0..INODE_NUM-1
    NDIRECT,     \* number of direct block ids in an inode
    NINDIRECT,   \* BLOCK_SIZE / sizeof(blockid_t): ids in the indirect block
    BLOCK_SIZE,  \* bytes per block (abstract unit)
    DATA_NUM,    \* data blocks are 1..DATA_NUM; 0 is alloc_block's sentinel
    Types,       \* the extent types T_DIR, T_FILE, T_SYMLINK (never 0)
    T_DIR,       \* the root directory's type
    Vals,        \* payload tags a put may write
    NoVal        \* model value: no tag written

ASSUME /\ INODE_NUM \in Nat \ {0, 1} /\ NDIRECT \in Nat \ {0}
       /\ NINDIRECT \in Nat \ {0} /\ BLOCK_SIZE \in Nat \ {0}
       /\ DATA_NUM \in Nat \ {0} /\ T_DIR \in Types /\ 0 \notin Types

Inums      == 0..(INODE_NUM - 1)
BlockIds   == 0..DATA_NUM
DataBlocks == 1..DATA_NUM
\* The largest extent the addressing can hold (spec I2); put sizes range
\* up to it, since a larger write overflows the indirect block buffer.
MAXFILE    == (NDIRECT + NINDIRECT) * BLOCK_SIZE
Sizes      == 0..MAXFILE
Zero       == <<>>                     \* content of a never-written block
Inode      == [type : {0} \cup Types, size : Sizes,
               blocks : [0..NDIRECT -> BlockIds]]

VARIABLES
    inode,       \* the inode table, inum -> struct inode
    using,       \* using_blocks: the set of data blocks marked allocated
    ind,         \* block id -> its content read as an array of block ids
    disk,        \* block id -> its content read as data
    inumber,     \* alloc_inode's rotating cursor
    \* observation variables, not in the code
    putVal,      \* inum -> tag of the last write_file to it
    allocFailed  \* TRUE once alloc_block has returned the sentinel 0

vars == <<inode, using, ind, disk, inumber, putVal, allocFailed>>

Live(i) == inode[i].type # 0            \* get_inode returns non-NULL

\* ceil(size / BLOCK_SIZE), as write_file and remove_file compute it.
BlockCount(size) == IF size = 0 THEN 0 ELSE (size - 1) \div BLOCK_SIZE + 1

\* Bug variant: the direct/indirect test off by one (n <= NDIRECT).
NthBlockOffByOne(ino, ptrs, n) ==
    IF n <= NDIRECT THEN ino.blocks[n] ELSE ptrs[ino.blocks[NDIRECT]][n - NDIRECT]

\* get_nth_blockid: direct slot, or a slot of the indirect block.
NthBlock(ino, ptrs, n) ==
    IF n < NDIRECT THEN ino.blocks[n] ELSE ptrs[ino.blocks[NDIRECT]][n - NDIRECT]

\* alloc_block: first free data block, 0 when none is free.
AllocBlock(u) == IF DataBlocks \ u = {} THEN 0 ELSE Min(DataBlocks \ u)

\* Bug variant: alloc_block returns a free block without setting its bit.
GrabUnmarked(st) ==
    [st EXCEPT !.failed = @ \/ AllocBlock(st.using) = 0]

\* Bug variant: the caller marks whatever id comes back, the sentinel too.
GrabMarkAll(st) ==
    LET b == AllocBlock(st.using) IN
    [st EXCEPT !.using = @ \cup {b}, !.failed = @ \/ b = 0]

\* One call of alloc_block inside a loop whose state is st.
Grab(st) ==
    LET b == AllocBlock(st.using) IN
    [st EXCEPT !.using = IF b = 0 THEN @ ELSE @ \cup {b},
               !.failed = @ \/ b = 0]

\* alloc_nth_block: a direct slot, or (allocating the indirect block first
\* when its id is 0) a slot of the indirect block.
AllocNth(st, n) ==
    IF n < NDIRECT
    THEN [Grab(st) EXCEPT !.ino.blocks[n] = AllocBlock(st.using)]
    ELSE LET s1 == IF st.ino.blocks[NDIRECT] = 0
                   THEN [Grab(st) EXCEPT !.ino.blocks[NDIRECT] = AllocBlock(st.using)]
                   ELSE st
             ib == s1.ino.blocks[NDIRECT]
         IN  [Grab(s1) EXCEPT !.ind[ib][n - NDIRECT] = AllocBlock(s1.using)]

\* The growing loop of write_file: alloc_nth_block(ino, j) for j in lo..hi-1.
RECURSIVE AllocRange(_, _, _)
AllocRange(st, lo, hi) ==
    IF lo >= hi THEN st ELSE AllocRange(AllocNth(st, lo), lo + 1, hi)

\* Forget the content of freed data blocks (free_block only clears a bit;
\* nothing reads a block before it is allocated and written again).
Scrub(f, freed, z) == [b \in DOMAIN f |-> IF b \in freed \cap DataBlocks THEN z ELSE f[b]]
ZeroPtrs == [k \in 0..(NINDIRECT - 1) |-> 0]

FreshInode(t) == [type |-> t, size |-> 0, blocks |-> [j \in 0..NDIRECT |-> 0]]

Init ==
    \* block_manager(): empty disk; inode_manager(): alloc_inode(T_DIR) = 1
    /\ inode = [i \in Inums |-> IF i = 1 THEN FreshInode(T_DIR) ELSE FreshInode(0)]
    /\ using = {}
    /\ ind = [b \in BlockIds |-> ZeroPtrs]
    /\ disk = [b \in BlockIds |-> Zero]
    /\ inumber = 1
    /\ putVal = [i \in Inums |-> NoVal]
    /\ allocFailed = FALSE

\* Bug variant: the slot after the cursor is claimed without the
\* get_inode test for a free slot.
AllocInodeNoProbe(t) ==
    LET n == (inumber + 1) % INODE_NUM
    IN  /\ inumber' = n
        /\ inode' = [inode EXCEPT ![n] = FreshInode(t)]
        /\ putVal' = [putVal EXCEPT ![n] = NoVal]
        /\ UNCHANGED <<using, ind, disk, allocFailed>>

\* alloc_inode(type): probe up to INODE_NUM slots after the cursor; the
\* first free one is initialised.  When none is free the cursor has come
\* full circle and its (live) inum is returned all the same.
AllocInode(t) ==
    LET free == {k \in 1..INODE_NUM : ~Live((inumber + k) % INODE_NUM)}
        n    == (inumber + (IF free = {} THEN INODE_NUM ELSE Min(free))) % INODE_NUM
    IN  /\ inumber' = n
        /\ inode' = IF free = {} THEN inode ELSE [inode EXCEPT ![n] = FreshInode(t)]
        /\ putVal' = IF free = {} THEN putVal ELSE [putVal EXCEPT ![n] = NoVal]
        /\ UNCHANGED <<using, ind, disk, allocFailed>>

\* write_file(inum, buf, size) on a live inode: allocate blocks old..new-1
\* when growing, free blocks new..old-1 when shrinking (the indirect block
\* is left alone), write every block of the new content, store the size.
WriteFile(i, size, v) ==
    LET oldNum == BlockCount(inode[i].size)
        newNum == BlockCount(size)
        st0 == [ino |-> inode[i], using |-> using, ind |-> ind,
                failed |-> allocFailed]
        st  == AllocRange(st0, oldNum, newNum)
        freed == {NthBlock(inode[i], ind, j) : j \in newNum..(oldNum - 1)}
        owner(b) == {n \in 0..(newNum - 1) : NthBlock(st.ino, st.ind, n) = b}
    IN  /\ Live(i)
        /\ inode' = [inode EXCEPT ![i] = [st.ino EXCEPT !.size = size]]
        /\ using' = st.using \ freed
        /\ ind' = Scrub(st.ind, freed, ZeroPtrs)
        /\ disk' = [b \in BlockIds |-> IF owner(b) # {} THEN <<i, v, Max(owner(b))>>
                                       ELSE IF b \in freed THEN Zero ELSE disk[b]]
        /\ allocFailed' = st.failed
        /\ putVal' = [putVal EXCEPT ![i] = v]
        /\ UNCHANGED inumber

\* remove_file(inum): free the data blocks, the indirect block when the
\* current size needs it, then free_inode sets type 0 (the size and block
\* ids it leaves in the slot are never read, and are reset here).
RemoveFile(i) ==
    LET ino == inode[i]
        num == BlockCount(ino.size)
        data == {NthBlock(ino, ind, j) : j \in 0..(num - 1)}
        indir == IF num > NDIRECT THEN {ino.blocks[NDIRECT]} ELSE {}
    IN  /\ Live(i)
        /\ using' = using \ (data \cup indir)
        /\ inode' = [inode EXCEPT ![i] = FreshInode(0)]
        /\ ind' = Scrub(ind, data \cup indir, ZeroPtrs)
        /\ disk' = Scrub(disk, data \cup indir, Zero)
        /\ putVal' = [putVal EXCEPT ![i] = NoVal]
        /\ UNCHANGED <<inumber, allocFailed>>

Next ==
    \/ \E t \in Types : AllocInode(t)
    \/ \E i \in Inums, s \in Sizes, v \in Vals : WriteFile(i, s, v)
    \/ \E i \in Inums : RemoveFile(i)

Spec == Init /\ [][Next]_vars

(***************************************************************************)
(* read_file: the content the extent server returns for get(inum).         *)
(***************************************************************************)
ReadFile(i) ==
    [n \in 0..(BlockCount(inode[i].size) - 1) |-> disk[NthBlock(inode[i], ind, n)]]

\* What a get must return after the last put of tag putVal[i].
Expected(i) == [n \in 0..(BlockCount(inode[i].size) - 1) |-> <<i, putVal[i], n>>]

\* The block references of live inode i: (inum, slot) -> block id, with
\* slot IndSlot for the indirect block (counted whenever it is non-zero).
IndSlot == NDIRECT + NINDIRECT
RefSlots(i) ==
    IF ~Live(i) THEN {} ELSE
    {<<i, n>> : n \in 0..(BlockCount(inode[i].size) - 1)}
        \cup (IF inode[i].blocks[NDIRECT] # 0 THEN {<<i, IndSlot>>} ELSE {})
AllSlots == UNION {RefSlots(i) : i \in Inums}
Ref(s) == IF s[2] = IndSlot THEN inode[s[1]].blocks[NDIRECT]
          ELSE NthBlock(inode[s[1]], ind, s[2])

\* The extent service's view of the inode table: what get and getattr
\* return for each inum.
ExtView ==
    [i \in Inums |-> IF Live(i)
                     THEN [type |-> inode[i].type, size |-> inode[i].size,
                           data |-> ReadFile(i)]
                     ELSE NoVal]

\* What get returns after a put of `size` bytes of payload v to inode i.
PutContent(i, size, v) == [n \in 0..(BlockCount(size) - 1) |-> <<i, v, n>>]

ES == INSTANCE ExtentStore WITH
        Ids <- Inums, NoExt <- NoVal, Empty <- <<>>, Root <- 1, RootType <- T_DIR,
        Content <- PutContent, ext <- ExtView

-----------------------------------------------------------------------------
(* Properties *)

TypeOK ==
    /\ inode \in [Inums -> Inode]
    /\ using \subseteq DataBlocks
    /\ ind \in [BlockIds -> [0..(NINDIRECT - 1) -> BlockIds]]
    /\ inumber \in Inums
    /\ putVal \in [Inums -> Vals \cup {NoVal}]
    /\ allocFailed \in BOOLEAN

\* Spec P1/I3: every block a live inode addresses (its in-range direct and
\* indirect entries and its indirect block) is marked allocated and is
\* addressed by no other slot, as long as alloc_block has never run dry.
\* Broken by a write_file/remove_file that frees a block still addressed.
BlocksDisjoint ==
    ~allocFailed =>
        /\ \A s \in AllSlots : Ref(s) \in using
        /\ \A s, t \in AllSlots : s # t => Ref(s) # Ref(t)

\* Spec P3: get(put(id, b)) = b.  read_file of every live inode returns,
\* block by block, what its last write_file stored.
ReadYourWrites == \A i \in Inums : Live(i) => ReadFile(i) = Expected(i)

\* P3 as long as alloc_block has never returned its sentinel 0.
ReadYourWritesWhileSpace == ~allocFailed => ReadYourWrites

\* The inode manager implements the extent store: every alloc_inode,
\* write_file and remove_file is a create, put or remove of ExtentStore
\* (or changes nothing it shows), and leaves every other extent as it
\* was.  The step on which alloc_block first returns its sentinel 0 is
\* exempt: from then on the disk is corrupt (run im_full).
ImplementsExtentStore == ES!Init /\ [][allocFailed' \/ ES!Next]_ExtView

\* Every block marked allocated is addressed by a live inode: write_file
\* and remove_file give back every block an extent stops using (spec 4.2:
\* "shrinking to 0 must free every block including the indirect").
NoBlockLeak == using \subseteq {Ref(s) : s \in AllSlots}
=============================================================================
