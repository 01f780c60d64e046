------------------------------ MODULE MCHostLoader ------------------------------
(***************************************************************************)
(* Small instances of the two modules of the native loader, explored in    *)
(* one run, each by itself: a behaviour is about linking or about locks.   *)
(*                                                                         *)
(* Linking: pages of four bytes, three forms of the first library and two  *)
(* of the second, with chains of one and of two symbols, a second bucket,  *)
(* a SysV table, code that fills its last page, that starts inside one and *)
(* that shares one with data.  Locks: three threads, two locks, and one    *)
(* host lock more than can be in use.                                      *)
(***************************************************************************)
EXTENDS HostLinker, HostLocks, TLC

CONSTANTS f1, f2, l1, l2, l3, t1, t2, t3, h1, h2, h3

VARIABLE part

mcVars == <<part, hostVars, lockVars>>

Seg(at, size) == [at |-> at, size |-> size]

Names(a, b, c, d) == 0 :> "" @@ 1 :> a @@ 2 :> b @@ 3 :> c @@ 4 :> d

Gnu(symoffset, buckets, ends) ==
    [hash |-> "gnu", symoffset |-> symoffset, buckets |-> buckets, ends |-> ends]

SysV == [hash |-> "sysv", symoffset |-> 1, buckets |-> {}, ends |-> {}]

Elf(table, names, defined, relocs, code, targets) ==
    table @@ [syms |-> 5, names |-> names, defined |-> defined, relocs |-> relocs,
              code |-> code, targets |-> targets]

SscFiles ==
    { Elf(Gnu(3, {3}, {4}), Names("b", "ndk_e", "a", "c"), {3, 4}, {1, 2, 3},
          {Seg(0, 8)}, {8, 11}),
      Elf(Gnu(2, {2, 3}, {2, 4}), Names("b", "a", "e", "c"), {2, 4}, {1, 3},
          {Seg(1, 6), Seg(13, 3)}, {9}),
      Elf(SysV, Names("b", "a", "u", "c"), {2, 4}, {0, 1, 3}, {Seg(2, 4)}, {7}) }

AdiFiles ==
    { Elf(Gnu(3, {3, 4}, {3, 4}), Names("a", "ndk_c", "b", "e"), {3, 4}, {1, 2, 4},
          {Seg(4, 4)}, {2, 12}),
      Elf(SysV, Names("a", "c", "b", "u"), {3}, {1, 2, 4}, {Seg(0, 4)}, {4}) }

\* The names of the NDK's own namespace and what they stand for.
PlainNames ==
    [n \in SymbolNames |-> CASE n = "ndk_c" -> "c" [] n = "ndk_e" -> "e" [] OTHER -> n]

Files == f1 :> SscFiles @@ f2 :> AdiFiles

MCInit ==
    /\ part \in {"linker", "locks"}
    /\ HostInit /\ LocksInit

MCNext ==
    \/ part = "linker" /\ HostNext /\ UNCHANGED <<part, lockVars>>
    \/ part = "locks" /\ LocksNext /\ UNCHANGED <<part, hostVars>>

MCSpec == MCInit /\ [][MCNext]_mcVars

\* Loaders, threads and host locks are interchangeable.
MCSymmetry ==
    Permutations({l1, l2, l3}) \cup Permutations({t1, t2, t3}) \cup Permutations({h1, h2, h3})
================================================================================
