---------------------------- MODULE ExtentStore ----------------------------
(***************************************************************************)
(* What the extent service promises its clients (spec 4.2, 6): a map from *)
(* extent id to extent.  create gives a free id an empty extent of the     *)
(* requested type, put replaces an extent's content, remove frees the id.  *)
(* No operation touches another extent.                                    *)
(*                                                                         *)
(* Content is what get returns.  Its representation is a parameter:        *)
(* Content(i, size, v) is what a put of `size` bytes of payload v to id i  *)
(* reads back as.                                                          *)
(***************************************************************************)
CONSTANTS
    Ids,       \* extent ids
    Types,     \* extent types
    Sizes,     \* put sizes
    Vals,      \* payloads
    NoExt,     \* model value: no extent at this id
    Empty,     \* the content of an empty extent
    Root,      \* the root directory's id
    RootType,  \* its type
    Content(_, _, _)

VARIABLE ext

Extent(t, size, c) == [type |-> t, size |-> size, data |-> c]

\* After construction only the root exists, empty (spec I6, P8).
Init == ext = [i \in Ids |-> IF i = Root THEN Extent(RootType, 0, Empty) ELSE NoExt]

\* create(type): some free id now holds an empty extent.
Create(t) ==
    \E i \in Ids :
        /\ ext[i] = NoExt
        /\ ext' = [ext EXCEPT ![i] = Extent(t, 0, Empty)]

\* put(id, buf): the extent's content is buf, its type unchanged.
Put(i, size, v) ==
    /\ ext[i] # NoExt
    /\ ext' = [ext EXCEPT ![i] = Extent(@.type, size, Content(i, size, v))]

\* remove(id).
Remove(i) ==
    /\ ext[i] # NoExt
    /\ ext' = [ext EXCEPT ![i] = NoExt]

Next ==
    \/ \E t \in Types : Create(t)
    \/ \E i \in Ids, s \in Sizes, v \in Vals : Put(i, s, v)
    \/ \E i \in Ids : Remove(i)

Spec == Init /\ [][Next]_ext
=============================================================================
