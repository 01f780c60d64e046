-------------------------------- MODULE HostLinker --------------------------------
(***************************************************************************)
(* The loader of libraries that run natively (Native/Loader/               *)
(* elf_loader_host.cpp, class ElfLoader), as load_adi_and_setup of         *)
(* anisette_core_mac.cpp drives it: each library is loaded, relocated by   *)
(* itself and registered; the two are then made siblings and relocated a   *)
(* second time.  When anything fails both are deleted and a later call     *)
(* starts again with new loaders, possibly at the same addresses.          *)
(*                                                                         *)
(* A library file is a record: which hash table it has, its symbols 0 to   *)
(* syms - 1 with their names, which of them it defines, which its          *)
(* relocations name, its code segments and the addresses it relocates.     *)
(***************************************************************************)
EXTENDS Naturals, FiniteSetsExt

CONSTANTS
    Loaders,     \* the addresses new ElfLoader() may return
    Ssc, Adi,    \* the two files
    Content,     \* file -> what may be found at its path
    SymbolNames,
    Plain,       \* symbol -> its name without the NDK's namespace
    PageSize,    \* getpagesize()
    NoLoader, Hook, Null

HostFiles == {Ssc, Adi}

(***************************************************************************)
(* A GNU hash table covers the symbols from symoffset on.  They are laid   *)
(* out bucket after bucket: buckets are the indices the chains start with, *)
(* and each chain goes on to the next index in ends.  (Files with neither  *)
(* table, whose symbols load() counts by a scan, are left out.)            *)
(***************************************************************************)
Covered(e) == e.symoffset .. (e.syms - 1)

WellFormed(e) ==
    /\ e.hash \in {"sysv", "gnu"}
    /\ e.syms \in Nat \ {0} /\ e.symoffset \in Nat \ {0}
    /\ e.names \in [0 .. (e.syms - 1) -> SymbolNames]
    /\ e.defined \subseteq 0 .. (e.syms - 1) /\ e.relocs \subseteq 0 .. (e.syms - 1)
    /\ e.code \subseteq [at : Nat, size : Nat \ {0}] /\ e.targets \subseteq Nat
    /\ e.hash = "gnu" =>
          /\ e.defined \subseteq Covered(e) /\ Covered(e) # {}
          /\ e.buckets \subseteq Covered(e) /\ e.ends \subseteq Covered(e)
          /\ \A i \in Covered(e) : i \in e.buckets <=> (i = e.symoffset \/ i - 1 \in e.ends)
          /\ e.syms - 1 \in e.ends

ASSUME HostLinkerAssumption ==
    /\ Ssc # Adi
    /\ PageSize \in Nat \ {0}
    /\ Plain \in [SymbolNames -> SymbolNames]
    /\ NoLoader \notin Loaders /\ Hook \notin Loaders /\ Null \notin Loaders
    /\ Hook # Null
    /\ \A f \in HostFiles : \A e \in Content[f] : WellFormed(e)

VARIABLES
    stage,     \* how far load_adi_and_setup has come
    loader,    \* Loaders -> an ElfLoader, or Deleted
    ssc, adi,  \* g_ssc and g_adi
    registry,  \* get_loaded_libraries_map(): file -> loader
    answer     \* the loader behind what dlopen or dlsym last returned

hostVars == <<stage, loader, ssc, adi, registry, answer>>

NoElf == [hash |-> "sysv", syms |-> 0, symoffset |-> 0, buckets |-> {}, ends |-> {},
          names |-> <<>>, defined |-> {}, relocs |-> {}, code |-> {}, targets |-> {}]

Deleted == [elf |-> NoElf, count |-> 0, exports |-> {}, siblings |-> {},
            got |-> <<>>, sealed |-> {}]

HostInit ==
    /\ stage = "empty"
    /\ loader = [l \in Loaders |-> Deleted]
    /\ ssc = NoLoader /\ adi = NoLoader
    /\ registry = [f \in HostFiles |-> NoLoader]
    /\ answer = NoLoader

--------------------------------------------------------------------------------
\* Mistake: the first symbol of the last bucket is taken for the last symbol.
SymCountOfBuckets(e) == IF e.hash = "sysv" THEN e.syms ELSE 1 + Max(e.buckets)

\* sym_count: nchain, or one more than the end of the last bucket's chain.
SymCount(e) ==
    IF e.hash = "sysv" THEN e.syms
    ELSE 1 + Min({n \in e.ends : Max(e.buckets) <= n})

\* The chain walk reaches symbol i: no symbol between a bucket's and i ends it.
InChain(e, i) ==
    \E b \in e.buckets : b <= i /\ \A j \in b .. (i - 1) : j \notin e.ends

\* The symbols load() enters into exports.
Exported(e) ==
    {i \in e.defined : IF e.hash = "sysv" THEN i < SymCount(e) ELSE InChain(e, i)}

ExportNames(e) == {e.names[i] : i \in Exported(e)}

\* resolve_symbol for symbol i of loader l with the record r: null past the
\* count; what the file defines; its exports; its siblings'; both once more for
\* the plain name; then a function of the host, for an unknown name the dummy.
ResolveSymbol(l, r, i) ==
    LET n == r.elf.names[i]
        There(name) == {s \in r.siblings : name \in loader[s].exports}
    IN  IF i >= r.count THEN Null
        ELSE IF i \in r.elf.defined \/ n \in r.exports THEN l
        ELSE IF There(n) # {} THEN CHOOSE s \in There(n) : TRUE
        ELSE IF Plain[n] \in r.exports THEN l
        ELSE IF There(Plain[n]) # {} THEN CHOOSE s \in There(Plain[n]) : TRUE
        ELSE Hook

\* Mistake: a whole page is added instead of a page less one byte.
SealedPagesOver(seg) ==
    LET start == seg.at - (seg.at % PageSize)
        sum   == seg.size + (seg.at - start) + PageSize
    IN  {p \in 0 .. (start + sum) : start <= p * PageSize /\ (p + 1) * PageSize <= start + sum}

\* The pages that relocate() makes R+X for an executable segment: the start
\* rounded down, the size with what that added rounded up.
SealedPages(seg) ==
    LET start == seg.at - (seg.at % PageSize)
        sum   == seg.size + (seg.at - start) + (PageSize - 1)
    IN  {p \in 0 .. (start + sum) : start <= p * PageSize /\ (p + 1) * PageSize <= start + sum}

\* ElfLoader::relocate of loader l, whose record is r.
Relocated(l, r) ==
    [r EXCEPT !.got = [i \in r.elf.relocs |-> ResolveSymbol(l, r, i)],
              !.sealed = @ \cup UNION {SealedPages(seg) : seg \in r.elf.code}]

--------------------------------------------------------------------------------
\* ElfLoader::load of a new loader: relocated without siblings, and registered.
Load(l, f, e) ==
    /\ loader[l] = Deleted
    /\ loader' = [loader EXCEPT ![l] =
                    Relocated(l, [Deleted EXCEPT !.elf = e, !.count = SymCount(e),
                                                 !.exports = ExportNames(e)])]
    /\ registry' = [registry EXCEPT ![f] = l]
    /\ UNCHANGED answer

\* A load of the first library that fails leaves nothing behind: no step.
LoadSsc(l, e) ==
    /\ stage = "empty"
    /\ Load(l, Ssc, e)
    /\ stage' = "second" /\ ssc' = l /\ UNCHANGED adi

LoadAdi(l, e) ==
    /\ stage = "second"
    /\ Load(l, Adi, e)
    /\ stage' = "link" /\ adi' = l /\ UNCHANGED ssc

WithSibling(l, k) == Relocated(l, [loader[l] EXCEPT !.siblings = @ \cup {k}])

\* Mistake: siblings, and no second relocation.
LinkSiblingsOnly ==
    /\ stage = "link"
    /\ loader' = [loader EXCEPT ![ssc].siblings = @ \cup {adi}, ![adi].siblings = @ \cup {ssc}]
    /\ stage' = "start"
    /\ UNCHANGED <<ssc, adi, registry, answer>>

\* add_sibling on both and relocate on both, which changes no exports.
Link ==
    /\ stage = "link"
    /\ loader' = [loader EXCEPT ![ssc] = WithSibling(ssc, adi), ![adi] = WithSibling(adi, ssc)]
    /\ stage' = "start"
    /\ UNCHANGED <<ssc, adi, registry, answer>>

\* ADILoadLibraryWithPath returned 0.
StartedUp ==
    /\ stage = "start"
    /\ stage' = "up"
    /\ UNCHANGED <<loader, ssc, adi, registry, answer>>

\* Mistake: the destructor leaves the loader in the table.
DeleteBothRegistered ==
    /\ loader' = [l \in Loaders |-> IF l \in {ssc, adi} THEN Deleted ELSE loader[l]]
    /\ ssc' = NoLoader /\ adi' = NoLoader /\ answer' = NoLoader
    /\ UNCHANGED registry

\* delete g_adi, delete g_ssc: ~ElfLoader removes each from the table.
DeleteBoth ==
    /\ loader' = [l \in Loaders |-> IF l \in {ssc, adi} THEN Deleted ELSE loader[l]]
    /\ registry' = [f \in HostFiles |-> IF registry[f] \in {ssc, adi} THEN NoLoader
                                        ELSE registry[f]]
    /\ ssc' = NoLoader /\ adi' = NoLoader /\ answer' = NoLoader

\* The second library did not load, or the start function was missing or refused.
GiveUp ==
    /\ stage \in {"second", "start"}
    /\ stage' = "empty"
    /\ DeleteBoth

\* hook_dlopen and hook_dlsym, from library code (the start function included):
\* the loader asked for, and for a symbol any loader that exports it.
Dlopen(f) ==
    /\ stage \in {"start", "up"}
    /\ answer' = registry[f]
    /\ UNCHANGED <<stage, loader, ssc, adi, registry>>

Dlsym(handle, n) ==
    /\ stage \in {"start", "up"}
    /\ LET there == {registry[f] : f \in HostFiles} \cap {l \in Loaders : n \in loader[l].exports}
       IN  IF handle \in there THEN answer' = handle
           ELSE IF there # {} THEN answer' \in there ELSE answer' = NoLoader
    /\ UNCHANGED <<stage, loader, ssc, adi, registry>>

HostNext ==
    \/ \E l \in Loaders :
          \/ \E e \in Content[Ssc] : LoadSsc(l, e)
          \/ \E e \in Content[Adi] : LoadAdi(l, e)
    \/ Link \/ StartedUp \/ GiveUp
    \/ \E f \in HostFiles : Dlopen(f)
    \/ \E l \in Loaders, n \in SymbolNames : Dlsym(l, n)

HostSpec == HostInit /\ [][HostNext]_hostVars

--------------------------------------------------------------------------------
(***************************************************************************)
(* Properties.                                                             *)
(***************************************************************************)
Loaded == {l \in Loaders : loader[l] # Deleted}

DefinedNames(e) == {e.names[i] : i \in e.defined}

\* The number of symbols is derived from the hash table and the exports are
\* collected along its chains: no symbol of a library is left out by either.
EverySymbolFound ==
    \A l \in Loaded : LET e == loader[l].elf IN
        /\ loader[l].count = e.syms
        /\ loader[l].exports = DefinedNames(e)

\* The loaders that define a symbol of this name.
Having(n) == {k \in {ssc, adi} : n \in DefinedNames(loader[k].elf)}

\* Relocation i of loader l leads to a library with the symbol, if one has it, and
\* otherwise to one with its plain name, if one has that.
LeadsRight(l, i) ==
    LET n == loader[l].elf.names[i]
        m == loader[l].got[i]
    IN  /\ m # Null
        /\ n \in DefinedNames(loader[l].elf) => m = l
        /\ Having(n) # {} => m \in Having(n)
        /\ Having(n) = {} /\ Having(Plain[n]) # {} => m \in Having(Plain[n])

\* When library code runs, every relocation of the two leads to a library that
\* defines its symbol if one of them does, the own one first, and nowhere to
\* null, although the first pass could not know the sibling.
LinkedRight ==
    stage \in {"start", "up"} =>
        \A l \in {ssc, adi} : \A i \in loader[l].elf.relocs : LeadsRight(l, i)

\* The table of loaded libraries, which dlopen and dlsym hand to library code,
\* never names a loader that a failed setup has deleted.
RegistryLive ==
    /\ \A f \in HostFiles :
          registry[f] # NoLoader =>
              registry[f] \in Loaded /\ registry[f] = (IF f = Ssc THEN ssc ELSE adi)
    /\ answer # NoLoader => answer \in Loaded

\* No page of the host holds code and an address the loader writes to.
KeptApart(e) ==
    \A seg \in e.code, t \in e.targets :
        \A b \in seg.at .. (seg.at + seg.size - 1) : b \div PageSize # t \div PageSize

\* After the first relocation all code is in pages that are R+X and, if the file
\* keeps code and data on different host pages, nothing the second relocation
\* has to write to is: the rounding of a segment reaches no page beyond it.
CodeSealed ==
    \A l \in Loaded : LET r == loader[l] IN
        /\ \A seg \in r.elf.code : \A b \in seg.at .. (seg.at + seg.size - 1) :
              b \div PageSize \in r.sealed
        /\ KeptApart(r.elf) => \A t \in r.elf.targets : t \div PageSize \notin r.sealed
================================================================================
