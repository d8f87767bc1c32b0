-------------------------- MODULE ConcurrentClients --------------------------
(***************************************************************************)
(* Several lab2b filesystem clients (src/lab2b/chfs_client.cc) over one    *)
(* extent server (src/lab2b/extent_server.cc) and one lock server.         *)
(*                                                                         *)
(* Each client takes the per-inode lock of the parent (create, mkdir,      *)
(* unlink) or of the inode (write), as the code does.  The lock is the     *)
(* lock server's acquire/release, abstracted to an owner per inum; module  *)
(* LockServer checks that it is a mutual-exclusion lock.  The extent       *)
(* server takes no lock of its own, so the steps of two RPCs interleave.   *)
(*                                                                         *)
(* Data: an extent's bytes are a record.  `ents` is what readdir parses    *)
(* out of them ("name:inum/..." as a set of <<name, inum>>); `g` is, for   *)
(* bytes a write put, the generation of the inode the writer meant         *)
(* (gen[i] counts the allocations of slot i), and 0 otherwise.  Block      *)
(* layout and the log are left to InodeManager and Persister; a put is one *)
(* step, so the unlocked alloc_block inside write_file is not interleaved. *)
(*                                                                         *)
(* Names are model values.  unlink finds its entry with buf.find(name), a  *)
(* substring search; the model erases the entry named, which is what the   *)
(* code does only when no name occurs inside another entry's text (no name *)
(* a substring of another, none made of digits).  The runs are scoped to   *)
(* such names; Lab3Client runs the same find/erase byte by byte and shows  *)
(* what goes wrong without this premise (lab3_unlink_substring).          *)
(***************************************************************************)
EXTENDS Naturals, FiniteSets

CONSTANTS
    Thr,         \* client threads (one per mounted client)
    INODE_NUM,   \* slots of the inode table
    Names,       \* file names
    Junk,        \* model value: an inum outside 0..INODE_NUM-1
    Garbage,     \* what the uninitialised `tmp` of unlink can hold
    ANY_PARENT,  \* FALSE: operations only target the root directory
    MAX_GEN      \* bound: a create starts only while every slot has been
                 \* allocated fewer than MAX_GEN times

Inums == 0 .. INODE_NUM - 1
Root == 1
Types == {"file", "dir", "symlink"}
Entries == Names \X Inums
None == "none"

VARIABLES
    itype,      \* inode type per slot, "free" for type 0
    content,    \* per slot: the extent's bytes, as a Bytes record
    gen,        \* allocations of each slot so far
    inumber,    \* alloc_inode's shared cursor
    holder,     \* lock owner per inum, or None
    pc,         \* per thread
    loc,        \* per thread: the locals of the running operation
    created,    \* history: <<parent, name, inum>> of each create that returned
    faults      \* "segv" (extent server), "abort" (a client)

vars == <<itype, content, gen, inumber, holder, pc, loc, created, faults>>

PCs == {"idle", "lock", "body", "alloc", "claim", "target", "link",
        "unlinkput", "dead"}
Ops == {"create", "write", "setattr", "read", "readlink", "getattr", "unlink"}

Bytes == [ents: SUBSET Entries, g: Nat]
Text(es) == [ents |-> es, g |-> 0]     \* a directory's text
Data(g) == [ents |-> {}, g |-> g]      \* a file's bytes, written for gen g
Empty == Text({})                      \* ""

Locals == [op: Ops, ty: Types, dir: Inums, name: Names, ino: Inums,
           g: Nat, buf: SUBSET Entries, probes: 0 .. INODE_NUM]

TypeOK ==
    /\ itype \in [Inums -> Types \cup {"free"}]
    /\ content \in [Inums -> Bytes]
    /\ gen \in [Inums -> Nat]
    /\ inumber \in Inums
    /\ holder \in [Inums -> Thr \cup {None}]
    /\ pc \in [Thr -> PCs]
    /\ loc \in [Thr -> Locals]
    /\ created \subseteq Inums \X Names \X Inums
    /\ faults \subseteq {"segv", "abort"}

\* readdir's parse of an extent's bytes.
DirEntries(c) == c.ents

\* The directories an operation may name as its parent.
Parents == {d \in Inums : itype[d] = "dir" /\ (ANY_PARENT \/ d = Root)}

\* Files a FUSE path lookup can reach.
Linked == {e[2] : e \in UNION {DirEntries(content[d]) : d \in Parents}}

ServerUp == "segv" \notin faults

\* The locals of an idle thread (no operation running).
NoLocals == [op |-> "create", ty |-> "file", dir |-> Root,
             name |-> CHOOSE n \in Names : TRUE, ino |-> Root,
             g |-> 0, buf |-> {}, probes |-> 0]

\* After chfs_client::chfs_client: root allocated by alloc_inode (inum 1)
\* and put to "".
Init ==
    /\ itype = [i \in Inums |-> IF i = Root THEN "dir" ELSE "free"]
    /\ content = [i \in Inums |-> Empty]
    /\ gen = [i \in Inums |-> IF i = Root THEN 1 ELSE 0]
    /\ inumber = Root
    /\ holder = [i \in Inums |-> None]
    /\ pc = [t \in Thr |-> "idle"]
    /\ loc = [t \in Thr |-> NoLocals]
    /\ created = {}
    /\ faults = {}

\* An operation returns: its lock is released and its locals are gone.
Done(t) ==
    /\ pc' = [pc EXCEPT ![t] = "idle"]
    /\ loc' = [loc EXCEPT ![t] = NoLocals]

Release(i) == [holder EXCEPT ![i] = None]

\* The FUSE call: create/mkdir/symlink(parent, name), write or setattr(ino)
\* on a file a path lookup found (its generation is what the writer
\* means), read(ino) of such a file, readlink(ino) of a symlink,
\* isfile/isdir/getfile/getdir(ino) of any inode a path reaches, and
\* unlink(parent, name) of a name the kernel's lookup found.
Start(t) ==
    /\ pc[t] = "idle"
    /\ \/ /\ \A i \in Inums : gen[i] < MAX_GEN
          /\ \E d \in Parents, n \in Names, ty \in Types :
              loc' = [loc EXCEPT ![t] = [@ EXCEPT !.op = "create", !.ty = ty,
                                                  !.dir = d, !.name = n]]
       \/ \E i \in Linked, op \in {"write", "setattr", "read"} :
              /\ itype[i] = "file"
              /\ loc' = [loc EXCEPT ![t] = [@ EXCEPT !.op = op, !.ino = i,
                                                     !.g = gen[i]]]
       \/ \E i \in Linked :
              /\ itype[i] = "symlink"
              /\ loc' = [loc EXCEPT ![t] = [@ EXCEPT !.op = "readlink", !.ino = i]]
       \/ \E i \in Linked \cup Parents :
              loc' = [loc EXCEPT ![t] = [@ EXCEPT !.op = "getattr", !.ino = i]]
       \/ \E d \in Parents : \E e \in DirEntries(content[d]) :
              loc' = [loc EXCEPT ![t] = [@ EXCEPT !.op = "unlink", !.dir = d,
                                                  !.name = e[1]]]
    /\ pc' = [pc EXCEPT ![t] = "lock"]
    /\ UNCHANGED <<itype, content, gen, inumber, holder, created, faults>>

\* The inum an operation locks: the parent, or the inode it reads or writes.
LockOf(l) == IF l.op \in {"write", "setattr", "read", "readlink", "getattr"}
             THEN l.ino ELSE l.dir

\* Where create goes once ec->create returns: symlink first puts the link
\* text into the new inode.
AfterAlloc(l) == IF l.ty = "symlink" THEN "target" ELSE "link"

\* lc->acquire returns once no other client holds the lock.
Acquire(t) ==
    /\ pc[t] = "lock"
    /\ holder[LockOf(loc[t])] = None
    /\ holder' = [holder EXCEPT ![LockOf(loc[t])] = t]
    /\ pc' = [pc EXCEPT ![t] = "body"]
    /\ UNCHANGED <<itype, content, gen, inumber, loc, created, faults>>

\* get_inode returns NULL for an inum out of range or of type 0.
GetInodeNull(i) == i \notin Inums \/ itype[i] = "free"

\* extent_server::remove -> inode_manager::remove_file(i): frees the slot,
\* or dereferences get_inode's NULL and the extent server dies.
RemoveType(i) == IF GetInodeNull(i) THEN itype ELSE [itype EXCEPT ![i] = "free"]
RemoveContent(i) == IF GetInodeNull(i) THEN content ELSE [content EXCEPT ![i] = Empty]
RemoveFaults(i) == IF GetInodeNull(i) THEN faults \cup {"segv"} ELSE faults

\* extent_server::put(i, buf) -> write_file, which ignores a free inode.
PutContent(i, c) == IF GetInodeNull(i) THEN content ELSE [content EXCEPT ![i] = c]

\* Bug variant: the parent's lock is dropped right after the lookup, before
\* the parent is put back.
CreateLookupUnlocked(t) ==
    /\ pc[t] = "body" /\ loc[t].op = "create" /\ ServerUp
    /\ LET l == loc[t]
           buf == DirEntries(content[l.dir]) IN
       /\ holder' = Release(l.dir)
       /\ \/ /\ \E e \in buf : e[1] = l.name
             /\ Done(t)
          \/ /\ \A e \in buf : e[1] # l.name
             /\ loc' = [loc EXCEPT ![t].buf = buf, ![t].probes = 0]
             /\ pc' = [pc EXCEPT ![t] = "alloc"]
    /\ UNCHANGED <<itype, content, gen, inumber, created, faults>>

\* Bug variant: the EXIST return forgets lc->release(parent).
CreateLookupExistHolds(t) ==
    /\ pc[t] = "body" /\ loc[t].op = "create" /\ ServerUp
    /\ LET l == loc[t]
           buf == DirEntries(content[l.dir]) IN
       \/ /\ \E e \in buf : e[1] = l.name
          /\ Done(t)
       \/ /\ \A e \in buf : e[1] # l.name
          /\ loc' = [loc EXCEPT ![t].buf = buf, ![t].probes = 0]
          /\ pc' = [pc EXCEPT ![t] = "alloc"]
    /\ UNCHANGED <<itype, content, gen, inumber, holder, created, faults>>

\* create/mkdir after the lock: lookup(parent, name) and ec->get(parent).
\* An existing name releases the lock and returns EXIST.  (lookup's get
\* and the following get are one read: the parent is locked.)
CreateLookup(t) ==
    /\ pc[t] = "body" /\ loc[t].op = "create" /\ ServerUp
    /\ LET l == loc[t]
           buf == DirEntries(content[l.dir]) IN
       \/ /\ \E e \in buf : e[1] = l.name
          /\ holder' = Release(l.dir)
          /\ Done(t)
       \/ /\ \A e \in buf : e[1] # l.name
          /\ loc' = [loc EXCEPT ![t].buf = buf, ![t].probes = 0]
          /\ pc' = [pc EXCEPT ![t] = "alloc"]
          /\ UNCHANGED holder
    /\ UNCHANGED <<itype, content, gen, inumber, created, faults>>

\* Bug variant: the cursor wraps at INODE_NUM + 1, one past the table.
AllocProbeOffByOne(t) ==
    /\ pc[t] = "alloc" /\ ServerUp
    /\ LET c == (inumber + 1) % (INODE_NUM + 1)
           k == loc[t].probes + 1 IN
       /\ inumber' = c
       /\ \/ /\ GetInodeNull(c)
             /\ pc' = [pc EXCEPT ![t] = "claim"]
             /\ UNCHANGED loc
          \/ /\ ~GetInodeNull(c) /\ k < INODE_NUM
             /\ loc' = [loc EXCEPT ![t].probes = k]
             /\ UNCHANGED pc
          \/ /\ ~GetInodeNull(c) /\ k = INODE_NUM
             /\ loc' = [loc EXCEPT ![t].ino = c, ![t].g = gen[c]]
             /\ pc' = [pc EXCEPT ![t] = AfterAlloc(loc[t])]
    /\ UNCHANGED <<itype, content, gen, holder, created, faults>>

\* One iteration of alloc_inode's loop: advance the shared cursor and read
\* that slot.  A free slot ends the loop; after INODE_NUM occupied slots
\* the loop ends and the cursor's slot, live, is returned.
AllocProbe(t) ==
    /\ pc[t] = "alloc" /\ ServerUp
    /\ LET c == (inumber + 1) % INODE_NUM
           k == loc[t].probes + 1 IN
       /\ inumber' = c
       /\ \/ /\ GetInodeNull(c)
             /\ pc' = [pc EXCEPT ![t] = "claim"]
             /\ UNCHANGED loc
          \/ /\ ~GetInodeNull(c) /\ k < INODE_NUM
             /\ loc' = [loc EXCEPT ![t].probes = k]
             /\ UNCHANGED pc
          \/ /\ ~GetInodeNull(c) /\ k = INODE_NUM
             /\ loc' = [loc EXCEPT ![t].ino = c, ![t].g = gen[c]]
             /\ pc' = [pc EXCEPT ![t] = AfterAlloc(loc[t])]
    /\ UNCHANGED <<itype, content, gen, holder, created, faults>>

\* put_inode(inumber, fresh inode), break, return inumber: the cursor is
\* read again here, after other RPC threads may have moved it.
AllocClaim(t) ==
    /\ pc[t] = "claim" /\ ServerUp
    /\ LET i == inumber IN
       /\ itype' = [itype EXCEPT ![i] = loc[t].ty]
       /\ content' = [content EXCEPT ![i] = Empty]
       /\ gen' = [gen EXCEPT ![i] = @ + 1]
       /\ loc' = [loc EXCEPT ![t].ino = i, ![t].g = gen[i] + 1]
    /\ pc' = [pc EXCEPT ![t] = AfterAlloc(loc[t])]
    /\ UNCHANGED <<inumber, holder, created, faults>>

\* symlink: ec->put(ino_out, link), to the inode create returned.
SymlinkTarget(t) ==
    /\ pc[t] = "target" /\ ServerUp
    /\ content' = PutContent(loc[t].ino, Data(loc[t].g))
    /\ pc' = [pc EXCEPT ![t] = "link"]
    /\ UNCHANGED <<itype, gen, inumber, holder, loc, created, faults>>

\* put(parent, buf + "name:inum/"), then lc->release(parent).
CreateLink(t) ==
    /\ pc[t] = "link" /\ ServerUp
    /\ LET l == loc[t] IN
       /\ content' = PutContent(l.dir, Text(l.buf \cup {<<l.name, l.ino>>}))
       /\ created' = created \cup {<<l.dir, l.name, l.ino>>}
       /\ holder' = Release(l.dir)
    /\ Done(t)
    /\ UNCHANGED <<itype, gen, inumber, faults>>

\* write/setattr after the lock: get(ino), patch, put(ino), release(ino).
WriteBody(t) ==
    /\ pc[t] = "body" /\ loc[t].op = "write" /\ ServerUp
    /\ content' = PutContent(loc[t].ino, Data(loc[t].g))
    /\ holder' = Release(loc[t].ino)
    /\ Done(t)
    /\ UNCHANGED <<itype, gen, inumber, created, faults>>

\* setattr after the lock: get(ino), resize, put(ino), release(ino).
SetattrBody(t) ==
    /\ pc[t] = "body" /\ loc[t].op = "setattr" /\ ServerUp
    /\ content' = PutContent(loc[t].ino, Data(loc[t].g))
    /\ holder' = Release(loc[t].ino)
    /\ Done(t)
    /\ UNCHANGED <<itype, gen, inumber, created, faults>>

\* read after the lock: get(ino), then one of three returns (offset past
\* the end, a short read, a full read), each releasing ino first.
ReadBody(t) ==
    /\ pc[t] = "body" /\ loc[t].op = "read" /\ ServerUp
    /\ holder' = Release(loc[t].ino)
    /\ Done(t)
    /\ UNCHANGED <<itype, content, gen, inumber, created, faults>>

\* readlink after the lock: get(ino), release(ino).
ReadlinkBody(t) ==
    /\ pc[t] = "body" /\ loc[t].op = "readlink" /\ ServerUp
    /\ holder' = Release(loc[t].ino)
    /\ Done(t)
    /\ UNCHANGED <<itype, content, gen, inumber, created, faults>>

\* getfile (and isfile, isdir, getdir) after the lock: ec->getattr(ino),
\* then release(ino) on the error path and on the normal one.
GetattrBody(t) ==
    /\ pc[t] = "body" /\ loc[t].op = "getattr" /\ ServerUp
    /\ holder' = Release(loc[t].ino)
    /\ Done(t)
    /\ UNCHANGED <<itype, content, gen, inumber, created, faults>>

\* unlink after the lock: get(parent), find(name), lookup, remove(tmp).
\* find(name) is taken to hit the entry of that name (see the header).
\* A name another client already unlinked leaves `tmp` uninitialised:
\* remove(tmp) runs on whatever it holds, then buf.erase(npos, ...)
\* throws std::out_of_range and the client dies holding the parent lock.
UnlinkBody(t) ==
    /\ pc[t] = "body" /\ loc[t].op = "unlink" /\ ServerUp
    /\ LET l == loc[t]
           buf == DirEntries(content[l.dir])
           hit == {e \in buf : e[1] = l.name} IN
       \/ \E e \in hit :
             /\ itype' = RemoveType(e[2])
             /\ content' = RemoveContent(e[2])
             /\ faults' = RemoveFaults(e[2])
             /\ loc' = [loc EXCEPT ![t].buf = buf \ {e}, ![t].ino = e[2]]
             /\ pc' = [pc EXCEPT ![t] = "unlinkput"]
       \/ /\ hit = {}
          /\ \E g \in Garbage :
                /\ itype' = RemoveType(g)
                /\ content' = RemoveContent(g)
                /\ faults' = RemoveFaults(g) \cup {"abort"}
          /\ pc' = [pc EXCEPT ![t] = "dead"]
          /\ UNCHANGED loc
    /\ UNCHANGED <<gen, inumber, holder, created>>

\* put(parent, buf without the entry), then lc->release(parent).
UnlinkPut(t) ==
    /\ pc[t] = "unlinkput" /\ ServerUp
    /\ LET l == loc[t] IN
       /\ content' = PutContent(l.dir, Text(l.buf))
       /\ created' = created \ {<<l.dir, l.name, l.ino>>}
       /\ holder' = Release(l.dir)
    /\ Done(t)
    /\ UNCHANGED <<itype, gen, inumber, faults>>

Next ==
    \E t \in Thr :
        \/ Start(t)
        \/ Acquire(t)
        \/ CreateLookup(t)
        \/ AllocProbe(t)
        \/ AllocClaim(t)
        \/ SymlinkTarget(t)
        \/ CreateLink(t)
        \/ WriteBody(t)
        \/ SetattrBody(t)
        \/ ReadBody(t)
        \/ ReadlinkBody(t)
        \/ GetattrBody(t)
        \/ UnlinkBody(t)
        \/ UnlinkPut(t)

Spec == Init /\ [][Next]_vars

\* The steps a thread takes while it holds its lock: each is one RPC to
\* the extent server, which answers while it is up, and the client thread
\* that sent it keeps running.
Holding(t) ==
    \/ CreateLookup(t)
    \/ AllocProbe(t)
    \/ AllocClaim(t)
    \/ SymlinkTarget(t)
    \/ CreateLink(t)
    \/ WriteBody(t)
    \/ SetattrBody(t)
    \/ ReadBody(t)
    \/ ReadlinkBody(t)
    \/ GetattrBody(t)
    \/ UnlinkBody(t)
    \/ UnlinkPut(t)

Fairness == \A t \in Thr : WF_vars(Holding(t))

FairSpec == Spec /\ Fairness

-----------------------------------------------------------------------------
(* Properties *)

\* No lost directory entry: a name whose create returned stays in its
\* parent (while the parent exists) until an unlink of it returns.  The
\* read-modify-write of the parent's text in create and unlink is safe
\* only because both hold the parent's lock across get and put.  This is
\* a statement about concurrency for names none of which occurs inside
\* another entry's text; with such names unlink's find breaks it alone.
NoLostEntry ==
    \A c \in created :
        itype[c[1]] # "free" => <<c[2], c[3]>> \in DirEntries(content[c[1]])

\* Writes land in their own file: a file slot holds only bytes written to
\* the file allocated there now, not to an earlier file of the same slot.
\* write locks the inode but unlink removes it holding only the parent's
\* lock.
NoForeignWrite ==
    \A i \in Inums : content[i].g # 0 => content[i].g = gen[i]

\* Spec P4: create returns an inum that was not allocated.  alloc_inode
\* reads and writes the shared cursor and inode table with no lock.
CreateReturnsFree ==
    [][\A t \in Thr :
          pc[t] \in {"alloc", "claim"} /\ pc'[t] \in {"target", "link"} =>
              GetInodeNull(loc'[t].ino)]_vars

\* Every lock a client takes is released again, unless a process died:
\* each path out of create, write and unlink (the EXIST return included)
\* must call lc->release on the inum it acquired, or every later
\* operation on that directory or file waits forever in acquire.
LocksReleased ==
    \A i \in Inums : holder[i] # None ~> (holder[i] = None \/ faults # {})

\* Neither the extent server nor a client dies.
NoCrash == faults = {}
====
