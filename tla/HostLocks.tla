-------------------------------- MODULE HostLocks --------------------------------
(***************************************************************************)
(* The reader-writer locks of libraries that run natively                  *)
(* (Native/Loader/elf_loader_host.cpp, get_host_rwlock and the five        *)
(* hook_pthread_rwlock_ functions).  A lock of the guest is an address;    *)
(* the table g_rwlock_map gives each a lock of the host, made by the first *)
(* call that names it.  The table is read and changed under                *)
(* g_rwlock_mutex, but the host's lock is waited for after that mutex has  *)
(* been given back, on a pointer another thread may free.                  *)
(* A thread that has a lock does not ask for it again here, though POSIX   *)
(* lets a reader do so.                                                    *)
(***************************************************************************)
CONSTANTS
    LockThreads,   \* the threads inside the libraries
    GuestLocks,    \* the addresses they use as locks
    HostLockIds,   \* what malloc may return for a pthread_rwlock_t
    NoLock, Nobody

ASSUME LocksAssumption ==
    /\ NoLock \notin GuestLocks \cup HostLockIds
    /\ Nobody \notin LockThreads

VARIABLES
    hostLock,   \* g_rwlock_map: guest lock -> host lock
    allocated,  \* the host locks that are not free memory
    readers,    \* host lock -> the threads that read under it
    writer,     \* host lock -> the thread that writes under it
    call,       \* thread -> the call it is in and the pointer it holds
    holds       \* thread, guest lock -> what the guest believes it has

lockVars == <<hostLock, allocated, readers, writer, call, holds>>

NotCalling == [op |-> "none", guest |-> NoLock, host |-> NoLock]

LocksInit ==
    /\ hostLock = [g \in GuestLocks |-> NoLock]
    /\ allocated = {}
    /\ readers = [h \in HostLockIds |-> {}]
    /\ writer = [h \in HostLockIds |-> Nobody]
    /\ call = [t \in LockThreads |-> NotCalling]
    /\ holds = [t \in LockThreads |-> [g \in GuestLocks |-> "no"]]

Idle(t) == call[t] = NotCalling

Enters(t, op, g, h) == call' = [call EXCEPT ![t] = [op |-> op, guest |-> g, host |-> h]]

Leaves(t) == call' = [call EXCEPT ![t] = NotCalling]

--------------------------------------------------------------------------------
\* Mistake: the table is not searched before a lock is made.
FindOrCreateAnew(g, h) ==
    /\ h \in HostLockIds \ allocated
    /\ hostLock' = [hostLock EXCEPT ![g] = h]
    /\ allocated' = allocated \cup {h}
    /\ readers' = [readers EXCEPT ![h] = {}]
    /\ writer' = [writer EXCEPT ![h] = Nobody]

\* get_host_rwlock with create_if_missing, one step under g_rwlock_mutex; h is
\* the lock it returns.
FindOrCreate(g, h) ==
    \/ /\ hostLock[g] = h /\ h # NoLock
       /\ UNCHANGED <<hostLock, allocated, readers, writer>>
    \/ /\ hostLock[g] = NoLock
       /\ h \in HostLockIds \ allocated
       /\ hostLock' = [hostLock EXCEPT ![g] = h]
       /\ allocated' = allocated \cup {h}
       /\ readers' = [readers EXCEPT ![h] = {}]
       /\ writer' = [writer EXCEPT ![h] = Nobody]

\* hook_pthread_rwlock_init: a lock that is in the table already stays as it is.
InitLock(t, g, h) ==
    /\ Idle(t)
    /\ FindOrCreate(g, h)
    /\ UNCHANGED <<call, holds>>

\* rdlock and wrlock: the look-up, and then the wait on what it returned.
AskLock(t, g, op, h) ==
    /\ Idle(t) /\ holds[t][g] = "no"
    /\ FindOrCreate(g, h)
    /\ Enters(t, op, g, h)
    /\ UNCHANGED holds

TakeRead(t) ==
    LET c == call[t] IN
    /\ c.op = "read" /\ writer[c.host] = Nobody
    /\ readers' = [readers EXCEPT ![c.host] = @ \cup {t}]
    /\ holds' = [holds EXCEPT ![t][c.guest] = "read"]
    /\ Leaves(t)
    /\ UNCHANGED <<hostLock, allocated, writer>>

TakeWrite(t) ==
    LET c == call[t] IN
    /\ c.op = "write" /\ writer[c.host] = Nobody /\ readers[c.host] = {}
    /\ writer' = [writer EXCEPT ![c.host] = t]
    /\ holds' = [holds EXCEPT ![t][c.guest] = "write"]
    /\ Leaves(t)
    /\ UNCHANGED <<hostLock, allocated, readers>>

\* The host refuses: a deadlock it detects, or too many readers.
LockRefused(t) ==
    /\ call[t].op \in {"read", "write"}
    /\ Leaves(t)
    /\ UNCHANGED <<hostLock, allocated, readers, writer, holds>>

\* unlock, by a thread that has the lock; for one the table does not know the
\* code returns 0 and changes nothing.
AskUnlock(t, g) ==
    /\ Idle(t) /\ holds[t][g] # "no"
    /\ hostLock[g] # NoLock
    /\ Enters(t, "unlock", g, hostLock[g])
    /\ UNCHANGED <<hostLock, allocated, readers, writer, holds>>

Release(t) ==
    LET c == call[t] IN
    /\ c.op = "unlock"
    /\ readers' = [readers EXCEPT ![c.host] = @ \ {t}]
    /\ writer' = [writer EXCEPT ![c.host] = IF @ = t THEN Nobody ELSE @]
    /\ holds' = [holds EXCEPT ![t][c.guest] = "no"]
    /\ Leaves(t)
    /\ UNCHANGED <<hostLock, allocated>>

\* What POSIX asks of whoever destroys a lock, and the code relies on: nobody
\* holds it, waits for it or is giving it back.
Unused(g) ==
    \A t \in LockThreads : holds[t][g] = "no" /\ (~Idle(t) => call[t].guest # g)

\* Mistake: the lock is freed and stays in the table.
DestroyKeepsEntry(t, g) ==
    /\ Idle(t) /\ Unused(g)
    /\ allocated' = allocated \ {hostLock[g]}
    /\ UNCHANGED <<hostLock, readers, writer, call, holds>>

\* hook_pthread_rwlock_destroy, one step under g_rwlock_mutex.
Destroy(t, g) ==
    /\ Idle(t) /\ Unused(g)
    /\ allocated' = allocated \ {hostLock[g]}
    /\ hostLock' = [hostLock EXCEPT ![g] = NoLock]
    /\ UNCHANGED <<readers, writer, call, holds>>

LocksNext ==
    \E t \in LockThreads :
        \/ \E g \in GuestLocks, h \in HostLockIds :
              InitLock(t, g, h) \/ \E op \in {"read", "write"} : AskLock(t, g, op, h)
        \/ \E g \in GuestLocks : AskUnlock(t, g) \/ Destroy(t, g)
        \/ TakeRead(t) \/ TakeWrite(t) \/ LockRefused(t) \/ Release(t)

LocksSpec == LocksInit /\ [][LocksNext]_lockVars

--------------------------------------------------------------------------------
(***************************************************************************)
(* Properties.                                                             *)
(***************************************************************************)
LocksTypeOK ==
    /\ hostLock \in [GuestLocks -> HostLockIds \cup {NoLock}]
    /\ allocated \subseteq HostLockIds
    /\ readers \in [HostLockIds -> SUBSET LockThreads]
    /\ writer \in [HostLockIds -> LockThreads \cup {Nobody}]
    /\ call \in [LockThreads -> [op : {"none", "read", "write", "unlock"},
                                 guest : GuestLocks \cup {NoLock},
                                 host : HostLockIds \cup {NoLock}]]
    /\ holds \in [LockThreads -> [GuestLocks -> {"no", "read", "write"}]]

\* No thread waits on, takes or releases a host lock that has been freed, or one
\* that meanwhile belongs to another lock of the guest, although the mutex of
\* the table is not held there.
PointerStaysGood ==
    \A t \in LockThreads :
        ~Idle(t) => /\ call[t].host \in allocated
                    /\ hostLock[call[t].guest] = call[t].host

\* Two guest locks never share a host lock, and none of the table is freed memory.
TableSound ==
    \A g \in GuestLocks : hostLock[g] # NoLock =>
        /\ hostLock[g] \in allocated
        /\ \A k \in GuestLocks : hostLock[k] = hostLock[g] => k = g

\* Both: g_rwlock_map and the pointers taken from it are good at every moment.
LocksSound == TableSound /\ PointerStaysGood

\* What a guest thread believes to hold is held in the host's lock of that name.
HoldsAgree ==
    \A t \in LockThreads, g \in GuestLocks :
        /\ holds[t][g] = "write" =>
              hostLock[g] # NoLock /\ writer[hostLock[g]] = t /\ readers[hostLock[g]] = {}
        /\ holds[t][g] = "read" =>
              hostLock[g] # NoLock /\ t \in readers[hostLock[g]] /\ writer[hostLock[g]] = Nobody

\* A guest thread that has a lock for writing is alone: whichever threads first
\* named the lock at the same time, and however often it was destroyed and made.
WriterExcludes ==
    \A t, u \in LockThreads, g \in GuestLocks :
        holds[t][g] = "write" /\ u # t => holds[u][g] = "no"

\* A call is about a lock its thread does not have yet, or gives one back.
CallsFit ==
    \A t \in LockThreads :
        /\ call[t].op = "none" <=> Idle(t)
        /\ ~Idle(t) => call[t].guest \in GuestLocks
        /\ call[t].op \in {"read", "write"} => holds[t][call[t].guest] = "no"
        /\ call[t].op = "unlock" => holds[t][call[t].guest] # "no"

\* The inductive invariant.
LocksInv ==
    /\ LocksTypeOK /\ TableSound /\ PointerStaysGood
    /\ HoldsAgree /\ WriterExcludes /\ CallsFit
================================================================================
