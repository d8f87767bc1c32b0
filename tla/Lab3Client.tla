---------------------------- MODULE Lab3Client ----------------------------
(***************************************************************************)
(* The lab3 filesystem client, src/chfs_client.cc, over the replicated     *)
(* extent service of ChfsStateMachine.                                     *)
(*                                                                         *)
(* Every ec-> call submits one command and blocks until apply_log has run  *)
(* it, so an operation is a chain of steps: each step takes the result of  *)
(* the previous command, computes, and submits the next one.  The client   *)
(* takes no lock.                                                          *)
(*                                                                         *)
(* A directory's content is its text, a sequence of characters:           *)
(* "name:inum/" per entry.  filename(), n2i(), readdir's find/substr loop  *)
(* and unlink's find/erase are modelled on that text by what they do, with *)
(* std::string positions counted from 0 and npos as -1 (the code keeps    *)
(* them in int).  A file's content is a sequence of "x" (a byte a write    *)
(* stored) and NUL (a byte resize filled in).                              *)
(*                                                                         *)
(*   pc, loc : where each client thread is and the locals of its operation *)
(*   dirs    : history: for each directory, the <<name, inum>> entries the *)
(*             creates and unlinks that returned OK leave, in order        *)
(*   files   : history: for each file, the bytes the writes and setattrs *)
(*             that returned leave, by the spec's definition of each      *)
(***************************************************************************)
EXTENDS ChfsStateMachine, SequencesExt

CONSTANTS
    Names,        \* file names, each a sequence of Chars
    LinkPath,     \* what a symlink stores (a path, as a sequence of Chars)
    MAX_FILE,     \* largest size a write or setattr gives a file
    ANY_PARENT    \* FALSE: operations only target the root directory

DigitChar == <<"0", "1", "2", "3", "4", "5", "6", "7", "8", "9">>
Digits == {DigitChar[k] : k \in 1..10}
Colon == ":"
Slash == "/"
Npos == -1

ASSUME Ids \subseteq 0..99

VARIABLES pc, loc, dirs, files

hist == <<dirs, files>>
vars == <<ext, log, res, pc, loc, hist>>

PCs == {"idle", "lookup", "crt", "link", "getparent", "putparent",
        "ulookup", "urmv", "uget", "uput", "wget", "sget", "return"}
Ops == {"none", "create", "unlink", "write", "setattr", "getattr", "readlink"}
Locals == [op : Ops, ty : Types, dir : Ids, name : Names, ino : Ids,
           off : 0..MAX_FILE, size : 0..MAX_FILE]
NoLocals == [op |-> "none", ty |-> T_FILE, dir |-> Root, name |-> CHOOSE n \in Names : TRUE,
             ino |-> Root, off |-> 0, size |-> 0]

-----------------------------------------------------------------------------
(* The directory text *)

\* Bug variant: the digit one past the inum's.
FilenameNext(n) == <<DigitChar[((n + 1) % 10) + 1]>>

\* filename(inum): ostringstream << inum, in decimal.
Filename(n) ==
    IF n < 10 THEN <<DigitChar[n + 1]>>
    ELSE <<DigitChar[(n \div 10) + 1], DigitChar[(n % 10) + 1]>>

\* n2i(s): istringstream >> unsigned long long reads the leading digits;
\* with none the extraction fails and stores 0.
DigitVal(ch) == CHOOSE k \in 0..9 : DigitChar[k + 1] = ch
N2i(s) ==
    LET k   == SelectInSeq(s, LAMBDA ch : ch \notin Digits)
        pre == IF k = 0 THEN s ELSE SubSeq(s, 1, k - 1)
        val[j \in 0..Len(pre)] == IF j = 0 THEN 0 ELSE 10 * val[j - 1] + DigitVal(pre[j])
    IN  val[Len(pre)]

\* buf.find(pat, from): the first position >= from where pat starts.
FindPos(buf, pat, from) ==
    LET I == {i \in from .. (Len(buf) - Len(pat)) : SubSeq(buf, i + 1, i + Len(pat)) = pat}
    IN  IF I = {} THEN Npos ELSE Min(I)

\* buf.substr(pos, n); a negative int length converts to a huge size_t.
Substr(buf, pos, n) ==
    SubSeq(buf, pos + 1, IF n < 0 \/ pos + n > Len(buf) THEN Len(buf) ELSE pos + n)

\* buf.erase(pos, n), the same conversion of n.
Erase(buf, pos, n) ==
    SubSeq(buf, 1, pos) \o (IF n < 0 THEN <<>> ELSE SubSeq(buf, pos + n + 1, Len(buf)))

\* One turn of readdir's while loop.  After the last ':' the loop stops;
\* the fold's bound (one turn per character) is never the one that stops
\* it, as every turn consumes a ':' and the '/' after it.
ReadDirStep(buf, st) ==
    IF st.nameEnd = Npos THEN st
    ELSE LET inumStart == st.nameEnd + 1
             inumEnd   == FindPos(buf, <<Slash>>, inumStart)
             entry     == <<Substr(buf, st.nameStart, st.nameEnd - st.nameStart),
                            N2i(Substr(buf, inumStart, inumEnd - inumStart))>>
         IN  [nameStart |-> inumEnd + 1,
              nameEnd   |-> FindPos(buf, <<Colon>>, inumEnd + 1),
              list      |-> Append(st.list, entry)]

\* readdir(dir): the <<name, inum>> list parsed out of the text, after as
\* many turns as the text has characters.  Each turn is taken from the
\* previous one bound as a value (prev), so it is computed once.
ReadDir(buf) ==
    LET turn[j \in 0..Len(buf)] ==
            IF j = 0 THEN [nameStart |-> 0, nameEnd |-> FindPos(buf, <<Colon>>, 0),
                           list |-> <<>>]
            ELSE CHOOSE st \in {ReadDirStep(buf, prev) : prev \in {turn[j - 1]}} : TRUE
    IN  turn[Len(buf)].list

\* lookup(parent, name) on the text get(parent) returned: the first entry
\* whose name compares equal.
Lookup(buf, name) ==
    LET l == ReadDir(buf)
        I == {k \in DOMAIN l : l[k][1] = name}
    IN  IF I = {} THEN [found |-> FALSE, ino |-> Root]
        ELSE [found |-> TRUE, ino |-> l[Min(I)][2]]

\* The entry create, mkdir and symlink append.
Entry(name, ino) == name \o <<Colon>> \o Filename(ino) \o <<Slash>>

\* Bug variant: erase(start, end - start), leaving the entry's '/'.
EraseEntryKeepSlash(buf, name) ==
    LET start == FindPos(buf, name, 0)
    IN  Erase(buf, start, FindPos(buf, <<Slash>>, start) - start)

\* unlink: start = buf.find(name); end = buf.find('/', start);
\* buf.erase(start, end - start + 1).
EraseEntry(buf, name) ==
    LET start == FindPos(buf, name, 0)
        end   == FindPos(buf, <<Slash>>, start)
    IN  Erase(buf, start, end - start + 1)

\* buf.resize(n): truncate, or extend with NUL bytes.
Resize(buf, n) ==
    IF n <= Len(buf) THEN SubSeq(buf, 1, n)
    ELSE buf \o [k \in 1..(n - Len(buf)) |-> Nul]

\* Bug variant: the growth test forgets size, so a write at the end of the
\* file is not grown into.
WrittenNoGrow(buf, off, size) ==
    LET nb == IF off > Len(buf) THEN Resize(buf, off + size) ELSE buf
    IN  [k \in DOMAIN nb |-> IF k - 1 >= off /\ k - 1 < off + size THEN "x" ELSE nb[k]]

\* File bytes after write(ino, size, off): resize to off + size when that
\* is longer (zero fill), then bytes off..off+size-1 are the data.
Written(buf, off, size) ==
    LET nb == IF size + off > Len(buf) THEN Resize(buf, off + size) ELSE buf
    IN  [k \in DOMAIN nb |-> IF k - 1 >= off /\ k - 1 < off + size THEN "x" ELSE nb[k]]

\* The spec's (4.6) write: grow to off + size when that is longer, the gap
\* after the old end zero-filled, and [off, off + size) overwritten.  And
\* its setattr: truncate or zero-extend to n.  These only build the files
\* history that FileContents compares the extents with.
SpecWrite(b, off, size) ==
    [k \in 1..(IF off + size > Len(b) THEN off + size ELSE Len(b)) |->
        IF off < k /\ k <= off + size THEN "x"
        ELSE IF k <= Len(b) THEN b[k] ELSE Nul]
SpecResize(b, n) == [k \in 1..n |-> IF k <= Len(b) THEN b[k] ELSE Nul]

-----------------------------------------------------------------------------
(* The client's operations *)

Init ==
    /\ SMInit
    /\ pc = [t \in Thr |-> "idle"]
    /\ loc = [t \in Thr |-> NoLocals]
    /\ dirs = [i \in Ids |-> <<>>]
    /\ files = [i \in Ids |-> <<>>]

\* The directories an operation may name as its parent.
Parents == {d \in Ids : Live(d) /\ ext[d].type = T_DIR /\ (ANY_PARENT \/ d = Root)}

\* The command thread t submitted has been applied: the wait on result.cv
\* returns.
Applied(t) == res[t].done

Goto(t, p) == pc' = [pc EXCEPT ![t] = p]

\* The operation returns.
Return(t) ==
    /\ pc' = [pc EXCEPT ![t] = "idle"]
    /\ loc' = [loc EXCEPT ![t] = NoLocals]

\* create / mkdir / symlink(parent, name): lookup starts with get(parent).
StartCreate(t, ty, d, name) ==
    /\ pc[t] = "idle"
    /\ d \in Parents
    /\ Submit(t, "GET", T_FILE, d, <<>>)
    /\ Goto(t, "lookup")
    /\ loc' = [loc EXCEPT ![t] = [NoLocals EXCEPT !.op = "create", !.ty = ty,
                                                   !.dir = d, !.name = name]]
    /\ UNCHANGED <<ext, hist>>

\* lookup found the name: EXIST; otherwise ec->create(type).
CreateLookup(t) ==
    /\ pc[t] = "lookup"
    /\ Applied(t)
    /\ \/ /\ Lookup(res[t].buf, loc[t].name).found
          /\ Return(t)
          /\ UNCHANGED <<log, res>>
       \/ /\ ~Lookup(res[t].buf, loc[t].name).found
          /\ Submit(t, "CRT", loc[t].ty, Root, <<>>)
          /\ Goto(t, "crt")
          /\ UNCHANGED loc
    /\ UNCHANGED <<ext, hist>>

\* ino_out = the new inum; symlink puts the link path into it; all then
\* get(parent).
CreateAlloc(t) ==
    /\ pc[t] = "crt"
    /\ Applied(t)
    /\ loc' = [loc EXCEPT ![t].ino = res[t].id]
    /\ \/ /\ loc[t].ty = T_SYMLINK
          /\ Submit(t, "PUT", T_FILE, res[t].id, LinkPath)
          /\ Goto(t, "link")
       \/ /\ loc[t].ty # T_SYMLINK
          /\ Submit(t, "GET", T_FILE, loc[t].dir, <<>>)
          /\ Goto(t, "getparent")
    /\ UNCHANGED <<ext, hist>>

\* symlink: after put(ino_out, link), get(parent).
CreateLinked(t) ==
    /\ pc[t] = "link"
    /\ Applied(t)
    /\ Submit(t, "GET", T_FILE, loc[t].dir, <<>>)
    /\ Goto(t, "getparent")
    /\ UNCHANGED <<ext, loc, hist>>

\* buf.append(name + ":" + filename(ino_out) + "/"); put(parent, buf).
CreateAppend(t) ==
    /\ pc[t] = "getparent"
    /\ Applied(t)
    /\ Submit(t, "PUT", T_FILE, loc[t].dir, res[t].buf \o Entry(loc[t].name, loc[t].ino))
    /\ Goto(t, "putparent")
    /\ UNCHANGED <<ext, loc, hist>>

\* create returns OK.
CreateReturn(t) ==
    /\ pc[t] = "putparent"
    /\ Applied(t)
    /\ dirs' = [dirs EXCEPT ![loc[t].dir] = Append(@, <<loc[t].name, loc[t].ino>>),
                            ![loc[t].ino] = <<>>]
    /\ files' = [files EXCEPT ![loc[t].ino] = <<>>]
    /\ Return(t)
    /\ UNCHANGED <<ext, log, res>>

\* unlink(parent, name), called by FUSE for a name its lookup found:
\* lookup's get(parent).
StartUnlink(t, d, name) ==
    /\ pc[t] = "idle"
    /\ d \in Parents
    /\ \E k \in DOMAIN ReadDir(ext[d].data) : ReadDir(ext[d].data)[k][1] = name
    /\ Submit(t, "GET", T_FILE, d, <<>>)
    /\ Goto(t, "ulookup")
    /\ loc' = [loc EXCEPT ![t] = [NoLocals EXCEPT !.op = "unlink", !.dir = d, !.name = name]]
    /\ UNCHANGED <<ext, hist>>

\* ec->remove(tmp) with the inum lookup found.  (Not found, tmp would be
\* uninitialised; no state of this model reaches that.)
UnlinkLookup(t) ==
    /\ pc[t] = "ulookup"
    /\ Applied(t)
    /\ Lookup(res[t].buf, loc[t].name).found
    /\ Submit(t, "RMV", T_FILE, Lookup(res[t].buf, loc[t].name).ino, <<>>)
    /\ Goto(t, "urmv")
    /\ UNCHANGED <<ext, loc, hist>>

\* get(parent) again, for the erase.
UnlinkGet(t) ==
    /\ pc[t] = "urmv"
    /\ Applied(t)
    /\ Submit(t, "GET", T_FILE, loc[t].dir, <<>>)
    /\ Goto(t, "uget")
    /\ UNCHANGED <<ext, loc, hist>>

\* Erase from buf.find(name) through the next '/'; put(parent, buf).
UnlinkPut(t) ==
    /\ pc[t] = "uget"
    /\ Applied(t)
    /\ Submit(t, "PUT", T_FILE, loc[t].dir, EraseEntry(res[t].buf, loc[t].name))
    /\ Goto(t, "uput")
    /\ UNCHANGED <<ext, loc, hist>>

\* unlink returns OK.
UnlinkReturn(t) ==
    /\ pc[t] = "uput"
    /\ Applied(t)
    /\ dirs' = [dirs EXCEPT ![loc[t].dir] = SelectSeq(@, LAMBDA e : e[1] # loc[t].name)]
    /\ UNCHANGED files
    /\ Return(t)
    /\ UNCHANGED <<ext, log, res>>

\* write(ino, size, off) and setattr(ino, size) on a file: get(ino) first.
StartWrite(t, i, off, size) ==
    /\ pc[t] = "idle"
    /\ Live(i) /\ ext[i].type = T_FILE
    /\ Submit(t, "GET", T_FILE, i, <<>>)
    /\ Goto(t, "wget")
    /\ loc' = [loc EXCEPT ![t] = [NoLocals EXCEPT !.op = "write", !.ino = i,
                                                   !.off = off, !.size = size]]
    /\ UNCHANGED <<ext, hist>>
StartSetattr(t, i, size) ==
    /\ pc[t] = "idle"
    /\ Live(i) /\ ext[i].type = T_FILE
    /\ Submit(t, "GET", T_FILE, i, <<>>)
    /\ Goto(t, "sget")
    /\ loc' = [loc EXCEPT ![t] = [NoLocals EXCEPT !.op = "setattr", !.ino = i, !.size = size]]
    /\ UNCHANGED <<ext, hist>>

\* write: grow if needed, overwrite [off, off + size), put(ino, buf).
WritePut(t) ==
    /\ pc[t] = "wget"
    /\ Applied(t)
    /\ Submit(t, "PUT", T_FILE, loc[t].ino, Written(res[t].buf, loc[t].off, loc[t].size))
    /\ Goto(t, "return")
    /\ UNCHANGED <<ext, loc, hist>>

\* setattr: buf.resize(size); put(ino, buf).
SetattrPut(t) ==
    /\ pc[t] = "sget"
    /\ Applied(t)
    /\ Submit(t, "PUT", T_FILE, loc[t].ino, Resize(res[t].buf, loc[t].size))
    /\ Goto(t, "return")
    /\ UNCHANGED <<ext, loc, hist>>

\* isfile / isdir / getfile / getdir: one getattr.
StartGetattr(t, i) ==
    /\ pc[t] = "idle"
    /\ Live(i)
    /\ Submit(t, "GETA", T_FILE, i, <<>>)
    /\ Goto(t, "return")
    /\ loc' = [loc EXCEPT ![t] = [NoLocals EXCEPT !.op = "getattr", !.ino = i]]
    /\ UNCHANGED <<ext, hist>>

\* readlink: get(ino, data), then OK.
StartReadlink(t, i) ==
    /\ pc[t] = "idle"
    /\ Live(i)
    /\ Submit(t, "GET", T_FILE, i, <<>>)
    /\ Goto(t, "return")
    /\ loc' = [loc EXCEPT ![t] = [NoLocals EXCEPT !.op = "readlink", !.ino = i]]
    /\ UNCHANGED <<ext, hist>>

\* write, setattr, getattr and readlink return once their last command is applied.
OpReturn(t) ==
    /\ pc[t] = "return"
    /\ Applied(t)
    /\ Return(t)
    /\ files' = CASE loc[t].op = "write" ->
                        [files EXCEPT ![loc[t].ino] = SpecWrite(@, loc[t].off, loc[t].size)]
                   [] loc[t].op = "setattr" ->
                        [files EXCEPT ![loc[t].ino] = SpecResize(@, loc[t].size)]
                   [] OTHER -> files
    /\ UNCHANGED <<ext, log, res, dirs>>

\* Every step of thread t after its operation has started.
Continue(t) ==
    \/ CreateLookup(t) \/ CreateAlloc(t) \/ CreateLinked(t) \/ CreateAppend(t)
    \/ CreateReturn(t)
    \/ UnlinkLookup(t) \/ UnlinkGet(t) \/ UnlinkPut(t) \/ UnlinkReturn(t)
    \/ WritePut(t) \/ SetattrPut(t) \/ OpReturn(t)

Start(t) ==
    \/ \E ty \in Types, d \in Ids, n \in Names : StartCreate(t, ty, d, n)
    \/ \E d \in Ids, n \in Names : StartUnlink(t, d, n)
    \/ \E i \in Ids, off \in 0..MAX_FILE, size \in 1..MAX_FILE :
          off + size <= MAX_FILE /\ StartWrite(t, i, off, size)
    \/ \E i \in Ids, size \in 0..MAX_FILE : StartSetattr(t, i, size)
    \/ \E i \in Ids : StartGetattr(t, i)
    \/ \E i \in Ids : StartReadlink(t, i)

Next ==
    \/ ApplyLog /\ UNCHANGED <<pc, loc, hist>>
    \/ \E t \in Thr : Start(t) \/ Continue(t)

\* The applier thread applies every committed command, and a client thread
\* whose command has been applied is woken (notify_all) and runs on.  The
\* consensus module is assumed to commit what it was given.
Fairness == WF_vars(ApplyLog /\ UNCHANGED <<pc, loc, hist>>) /\ \A t \in Thr : WF_vars(Continue(t))

Spec == Init /\ [][Next]_vars /\ Fairness

-----------------------------------------------------------------------------
(* Properties *)

TypeOK ==
    /\ SMTypeOK
    /\ pc \in [Thr -> PCs]
    /\ loc \in [Thr -> Locals]
    /\ dirs \in [Ids -> Seq(Names \X Ids)]
    /\ files \in [Ids -> Seq(Chars)]

\* P5: when no operation is in flight, readdir of every directory lists
\* exactly the entries of the creates and unlinks that returned, in
\* creation order.  It rests on the "name:inum/" text that create appends,
\* readdir's parse of it, and unlink's find/erase cutting out exactly the
\* entry it looked up.
ListingMatches ==
    (\A t \in Thr : pc[t] = "idle") =>
        \A d \in Ids : Live(d) /\ ext[d].type = T_DIR => ReadDir(ext[d].data) = dirs[d]

\* Every operation a client thread starts returns: each command it submits
\* is applied and the applier wakes it.
OpsReturn == \A t \in Thr : pc[t] # "idle" ~> pc[t] = "idle"
\* When no operation is in flight, every file holds the bytes the spec's
\* write and setattr give for the ones that returned since its create:
\* write's get, resize, copy and put, with the gap it zero-fills when off
\* is past the end, and setattr's get, resize and put.
FileContents ==
    (\A t \in Thr : pc[t] = "idle") =>
        \A i \in Ids : Live(i) /\ ext[i].type = T_FILE => ext[i].data = files[i]
====
