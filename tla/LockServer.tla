----------------------------- MODULE LockServer -----------------------------
(***************************************************************************)
(* The lab2b lock server, src/lab2b/lock_server.cc.                        *)
(*                                                                         *)
(* One RPC handler thread per client request.  Every handler runs under    *)
(* the server-wide `mutex`, so a handler step between two points where it  *)
(* holds the mutex is one atomic action.  `pthread_cond_wait` gives the    *)
(* mutex up, so a waiting acquire is split at the wait: `Acquire` up to    *)
(* the first wait, `Wake` for each re-check of `recorder[lid]` after a     *)
(* wakeup.                                                                 *)
(*                                                                         *)
(*   manager  : the lids that have a condition variable (`manager` map)    *)
(*   recorder : the free flag of each lid, None while the map has no key  *)
(*   pc, lid  : where each handler thread is, and the lid it works on.     *)
(*             "holding" means acquire has returned and release has not    *)
(*             been called yet: the client is in its critical section.     *)
(***************************************************************************)
EXTENDS Naturals, FiniteSets

CONSTANTS
    Thr,    \* the client threads that call acquire / release
    Lids,   \* lock ids (inode numbers in the lab2b client)
    None    \* model value: no key for this lid in `recorder`

VARIABLES manager, recorder, pc, lid

vars == <<manager, recorder, pc, lid>>

PCs == {"idle", "waiting", "woken", "holding"}

TypeOK ==
    /\ manager \subseteq Lids
    /\ recorder \in [Lids -> BOOLEAN \cup {None}]
    \* the two maps have the same keys
    /\ manager = {l \in Lids : recorder[l] # None}
    /\ pc \in [Thr -> PCs]
    /\ lid \in [Thr -> Lids]

\* lock_server(): both maps start empty.
Init ==
    /\ manager = {}
    /\ recorder = [l \in Lids |-> None]
    /\ pc = [t \in Thr |-> "idle"]
    /\ lid \in [Thr -> Lids]

Holders(l) == {t \in Thr : pc[t] = "holding" /\ lid[t] = l}
Waiters(l) == {t \in Thr : pc[t] = "waiting" /\ lid[t] = l}

\* std::map::insert leaves an existing key alone.
InsertFalse(r, l) == IF r[l] = None THEN [r EXCEPT ![l] = FALSE] ELSE r

\* Bug variant: a new lid gets its condition variable but no flag.
AcquireNoFlag(t, l) ==
    /\ pc[t] = "idle"
    /\ lid' = [lid EXCEPT ![t] = l]
    /\ l \notin manager
    /\ manager' = manager \cup {l}
    /\ pc' = [pc EXCEPT ![t] = "holding"]
    /\ UNCHANGED recorder

\* acquire(clt, lid) up to its return or its first pthread_cond_wait.
\* A lid never seen before gets a condition variable and a FALSE flag and
\* is granted at once; a known lid is taken if its flag is TRUE, otherwise
\* the thread blocks on the lid's condition variable.
Acquire(t, l) ==
    /\ pc[t] = "idle"
    /\ lid' = [lid EXCEPT ![t] = l]
    /\ \/ /\ l \notin manager
          /\ manager' = manager \cup {l}
          /\ recorder' = InsertFalse(recorder, l)
          /\ pc' = [pc EXCEPT ![t] = "holding"]
       \/ /\ l \in manager
          /\ recorder[l] = TRUE
          /\ recorder' = [recorder EXCEPT ![l] = FALSE]
          /\ pc' = [pc EXCEPT ![t] = "holding"]
          /\ UNCHANGED manager
       \/ /\ l \in manager
          /\ recorder[l] # TRUE
          /\ pc' = [pc EXCEPT ![t] = "waiting"]
          /\ UNCHANGED <<manager, recorder>>

\* Bug variant: `if` in place of `while`, the flag is not re-tested.
WakeNoRecheck(t) ==
    /\ pc[t] = "woken"
    /\ recorder' = [recorder EXCEPT ![lid[t]] = FALSE]
    /\ pc' = [pc EXCEPT ![t] = "holding"]
    /\ UNCHANGED <<manager, lid>>

\* A woken thread gets the mutex back and re-tests `while (!recorder[lid])`.
Wake(t) ==
    /\ pc[t] = "woken"
    /\ LET l == lid[t] IN
       \/ /\ recorder[l] = TRUE
          /\ recorder' = [recorder EXCEPT ![l] = FALSE]
          /\ pc' = [pc EXCEPT ![t] = "holding"]
       \/ /\ recorder[l] # TRUE
          /\ pc' = [pc EXCEPT ![t] = "waiting"]
          /\ UNCHANGED recorder
    /\ UNCHANGED <<manager, lid>>

\* pthread_cond_wait may return without a signal (POSIX allows spurious
\* wakeups); the loop re-tests the flag.
SpuriousWake(t) ==
    /\ pc[t] = "waiting"
    /\ pc' = [pc EXCEPT ![t] = "woken"]
    /\ UNCHANGED <<manager, recorder, lid>>

\* Bug variant: the pthread_cond_signal call is left out.
ReleaseNoSignal(t) ==
    /\ pc[t] = "holding"
    /\ recorder' = [recorder EXCEPT ![lid[t]] = TRUE]
    /\ pc' = [pc EXCEPT ![t] = "idle"]
    /\ UNCHANGED <<manager, lid>>

\* release(clt, lid): the flag becomes TRUE (`recorder[lid] = true` creates
\* the key if missing) and one waiter of the lid is signalled.  The client
\* releases on every return path once its extent calls are done.
Release(t) ==
    /\ pc[t] = "holding"
    /\ LET l == lid[t] IN
       /\ recorder' = [recorder EXCEPT ![l] = TRUE]
       /\ \/ /\ Waiters(l) = {}
             /\ pc' = [pc EXCEPT ![t] = "idle"]
          \/ \E w \in Waiters(l) :
                pc' = [pc EXCEPT ![t] = "idle", ![w] = "woken"]
    /\ UNCHANGED <<manager, lid>>

Next ==
    \E t \in Thr :
        \/ \E l \in Lids : Acquire(t, l)
        \/ Wake(t)
        \/ SpuriousWake(t)
        \/ Release(t)

\* The scheduler runs a runnable thread eventually (a woken thread gets the
\* mutex back), and every client path releases what it acquired.  Nothing
\* forces a client to call acquire, and spurious wakeups need not happen.
Fairness == \A t \in Thr : WF_vars(Wake(t)) /\ WF_vars(Release(t))

Spec == Init /\ [][Next]_vars /\ Fairness

-----------------------------------------------------------------------------
(* Properties *)

\* Mutual exclusion: no two client threads are ever inside acquire..release
\* of the same lid at once.  This rests on every path through acquire
\* clearing recorder[lid], and on the wait loop re-testing the flag.
MutualExclusion == \A l \in Lids : Cardinality(Holders(l)) <= 1

\* No lost wakeup: while some thread waits for a lid, the lock is
\* eventually held by someone.  release must set the flag and signal a
\* waiter, and a woken thread must find the flag still set or be followed
\* by someone who took it.
NoLostWakeup ==
    \A l \in Lids : (Waiters(l) # {}) ~> (Holders(l) # {})
=============================================================================
