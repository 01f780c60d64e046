------------------------------ MODULE GuestMemory ------------------------------
(***************************************************************************)
(* The address space of the emulator (Native/Loader/elf_loader_emulator):  *)
(* two bump allocators, one for library images and one for the guest's     *)
(* heap, and the table of import stubs.  Nothing is ever given back: free  *)
(* does nothing, and an allocator that is full aborts the process.         *)
(*                                                                         *)
(* All arithmetic is modulo 2^64 in the code, modulo Word here.  The       *)
(* rounding mask (x + a - 1) & ~(a - 1) is a remainder, a power of two     *)
(* dividing the word.                                                      *)
(***************************************************************************)
EXTENDS Naturals, FiniteSets

CONSTANTS
    Word,                         \* 2^64
    HeapBase, HeapSize, HeapAlign,  \* kHeapAddress, kHeapSize, 64
    LibBase, LibSize, LibAlign,     \* the arguments of library_alloc
    ImportBase, ImportSize, Stub,   \* kImportAddress, kImportSize, 8 bytes
    Slack,                        \* the 16 bytes the hooks ask for on top
    ExceptionSlack,               \* and the 128 for an exception
    Sizes,                        \* the sizes the guest and the host ask for
    Spans,                        \* the spans of the library images
    Names,                        \* the symbols the images import
    DataNames,                    \* those of them that an image may take for data
    DummySize                     \* bytes of the dummy behind a data import

ASSUME WordAssumption ==
    /\ Word \in Nat /\ Slack \in Nat /\ ExceptionSlack \in Nat /\ DummySize \in Nat /\ Stub \in Nat \ {0}
    /\ Sizes \subseteq {n \in Nat : n < Word} /\ Spans \subseteq {n \in Nat : n < Word}
    /\ DataNames \subseteq Names /\ IsFiniteSet(Names)

\* The regions EmulatorVM() maps follow each other and none is at address 0.
ASSUME LayoutAssumption ==
    /\ LibBase \in Nat \ {0} /\ LibSize \in Nat /\ LibAlign \in Nat \ {0}
    /\ HeapBase \in Nat /\ HeapSize \in Nat /\ HeapAlign \in Nat \ {0}
    /\ ImportBase \in Nat /\ ImportSize \in Nat
    /\ LibBase + LibSize <= HeapBase
    /\ HeapBase + HeapSize <= ImportBase
    /\ ImportBase + ImportSize <= Word

VARIABLES
    heapOff,   \* heap.offset
    libOff,    \* library_alloc.offset
    heap,      \* the blocks the heap has handed out
    images,    \* the blocks library images were given
    imported,  \* imported_symbols: name -> address, 0 when it has none
    stubs,     \* import_stubs: <<address, name>>
    next,      \* next_import_address
    copied,    \* the last copy realloc made on the host's side
    wrapped    \* has any size or offset gone past the end of the word?

vars == <<heapOff, libOff, heap, images, imported, stubs, next, copied, wrapped>>

Block == [at : Nat, want : Nat, room : Nat]

NoCopy == [src |-> HeapBase, len |-> 0, room |-> 0]

Init ==
    /\ heapOff = 0 /\ libOff = 0
    /\ heap = {} /\ images = {}
    /\ imported = [n \in Names |-> 0]
    /\ stubs = {}
    /\ next = ImportBase
    /\ copied = NoCopy
    /\ wrapped = FALSE

--------------------------------------------------------------------------------
(***************************************************************************)
(* PageAllocator::alloc.                                                   *)
(***************************************************************************)
Rounded(x, a) == x - (x % a)

\* Mistake: rounded down.
AlignedDown(n, a) == LET r == Rounded(n % Word, a) IN IF r = 0 THEN a ELSE r

Aligned(n, a) ==
    LET r == Rounded((n + (a - 1)) % Word, a) IN IF r = 0 THEN a ELSE r

\* Mistake: the offset is checked before the request is added.
FitsBefore(off, n, a, size) == off <= size

Fits(off, n, a, size) == (off + Aligned(n, a)) % Word <= size

\* Does the rounding, or the addition to the offset, go past the end of the word?
Wraps(off, n, a) == n + (a - 1) >= Word \/ off + Aligned(n, a) >= Word

\* Mistake: the offset advances by the size asked for, not by the rounded one.
HeapGrantUnrounded(want, n, over) ==
    /\ ~wrapped
    /\ Fits(heapOff, n, HeapAlign, HeapSize)
    /\ heap' = heap \cup {[at |-> HeapBase + heapOff, want |-> want,
                           room |-> Aligned(n, HeapAlign)]}
    /\ heapOff' = heapOff + n
    /\ wrapped' = (over \/ Wraps(heapOff, n, HeapAlign))

\* want bytes are what the requester will use, n what the hook asks for, and
\* over says whether computing n wrapped.
HeapGrant(want, n, over) ==
    /\ ~wrapped
    /\ Fits(heapOff, n, HeapAlign, HeapSize)
    /\ heap' = heap \cup {[at |-> HeapBase + heapOff, want |-> want,
                           room |-> Aligned(n, HeapAlign)]}
    /\ heapOff' = (heapOff + Aligned(n, HeapAlign)) % Word
    /\ wrapped' = (over \/ Wraps(heapOff, n, HeapAlign))

\* malloc, write_bytes (not for a length of 0) and write_string.
Malloc(n) ==
    /\ HeapGrant(n, (n + Slack) % Word, n + Slack >= Word)
    /\ UNCHANGED <<libOff, images, imported, stubs, next, copied>>

\* __cxa_allocate_exception.
AllocException(n) ==
    /\ HeapGrant(n, (n + ExceptionSlack) % Word, n + ExceptionSlack >= Word)
    /\ UNCHANGED <<libOff, images, imported, stubs, next, copied>>

\* calloc: the product wraps too.
Calloc(k, n) ==
    /\ (k * n) % Word < Word \div 2
    /\ HeapGrant(k * n, (k * n + Slack) % Word, k * n + Slack >= Word)
    /\ UNCHANGED <<libOff, images, imported, stubs, next, copied>>

\* Mistake: the old block is returned, as if it could always grow.
ReallocInPlace(b, n) ==
    /\ ~wrapped
    /\ copied' = [src |-> b.at, len |-> n, room |-> b.room]
    /\ UNCHANGED <<heapOff, libOff, heap, images, imported, stubs, next, wrapped>>

\* realloc does not know the old block's size: it copies as many bytes as the
\* new one is to have, out of the old block and whatever lies behind it.
Realloc(b, n) ==
    /\ n < Word \div 2
    /\ HeapGrant(n, (n + Slack) % Word, n + Slack >= Word)
    /\ copied' = [src |-> b.at, len |-> n, room |-> Aligned((n + Slack) % Word, HeapAlign)]
    /\ UNCHANGED <<libOff, images, imported, stubs, next>>

\* The cells the C functions allocate for results: heap.alloc, nothing on top.
AllocCell(n) ==
    /\ HeapGrant(n, n, FALSE)
    /\ UNCHANGED <<libOff, images, imported, stubs, next, copied>>

--------------------------------------------------------------------------------
\* load_library_to_vm places an image in whole pages.
MapImage(span) ==
    /\ ~wrapped
    /\ Fits(libOff, span, LibAlign, LibSize)
    /\ images' = images \cup {[at |-> LibBase + libOff, want |-> span,
                               room |-> Aligned(span, LibAlign)]}
    /\ libOff' = (libOff + Aligned(span, LibAlign)) % Word
    /\ wrapped' = Wraps(libOff, span, LibAlign)
    /\ UNCHANGED <<heapOff, heap, imported, stubs, next, copied>>

\* Mistakes: the next stub is not advanced; and the table is not looked up.
RegisterImportStuck(n) ==
    /\ ~wrapped
    /\ imported[n] = 0
    /\ imported' = [imported EXCEPT ![n] = next]
    /\ stubs' = stubs \cup {<<next, n>>}
    /\ UNCHANGED <<heapOff, libOff, heap, images, next, copied, wrapped>>

RegisterImportAnew(n) ==
    /\ ~wrapped
    /\ next < ImportBase + ImportSize
    /\ imported' = [imported EXCEPT ![n] = next]
    /\ stubs' = stubs \cup {<<next, n>>}
    /\ next' = next + Stub
    /\ UNCHANGED <<heapOff, libOff, heap, images, copied, wrapped>>

\* register_import, from a relocation or from dlsym: the address a name has
\* been given before, or the next stub.  There is no check against kImportSize.
RegisterImport(n) ==
    /\ ~wrapped
    /\ imported[n] = 0
    /\ imported' = [imported EXCEPT ![n] = next]
    /\ stubs' = stubs \cup {<<next, n>>}
    /\ next' = next + Stub
    /\ UNCHANGED <<heapOff, libOff, heap, images, copied, wrapped>>

\* vm_resolve_symbol gives an unresolved data symbol a zeroed dummy instead.
ImportData(n) ==
    /\ n \in DataNames
    /\ imported[n] = 0
    /\ HeapGrant(DummySize, DummySize % Word, DummySize >= Word)
    /\ imported' = [imported EXCEPT ![n] = HeapBase + heapOff]
    /\ UNCHANGED <<libOff, images, stubs, next, copied>>

--------------------------------------------------------------------------------
\* abort() in alloc, and a vector no host can build in calloc and realloc.
Abort ==
    /\ \/ \E n \in Sizes, s \in {Slack, ExceptionSlack} :
              ~Fits(heapOff, (n + s) % Word, HeapAlign, HeapSize)
       \/ \E span \in Spans : ~Fits(libOff, span, LibAlign, LibSize)
       \/ \E n \in Sizes : n >= Word \div 2
    /\ heapOff' = 0 /\ libOff' = 0
    /\ heap' = {} /\ images' = {}
    /\ imported' = [n \in Names |-> 0]
    /\ stubs' = {}
    /\ next' = ImportBase
    /\ copied' = NoCopy
    /\ wrapped' = FALSE

\* A behaviour is followed up to the first request that wraps.
Next ==
    \/ \E n \in Sizes : Malloc(n) \/ AllocException(n) \/ AllocCell(n)
    \/ \E k, n \in Sizes : Calloc(k, n)
    \/ \E b \in heap, n \in Sizes : Realloc(b, n)
    \/ \E span \in Spans : MapImage(span)
    \/ \E n \in Names : RegisterImport(n) \/ ImportData(n)
    \/ Abort

Spec == Init /\ [][Next]_vars

--------------------------------------------------------------------------------
(***************************************************************************)
(* Properties.                                                             *)
(***************************************************************************)
\* Every variable has its type.
TypeOK ==
    /\ heapOff \in 0..HeapSize /\ libOff \in 0..LibSize
    /\ heap \subseteq Block /\ images \subseteq Block
    /\ imported \in [Names -> Nat]
    /\ stubs \subseteq Nat \X Names
    /\ next \in Nat
    /\ copied \in [src : Nat, len : Nat, room : Nat]
    /\ wrapped \in BOOLEAN

Apart(S) == \A b, c \in S : b # c => b.at + b.room <= c.at \/ c.at + c.room <= b.at

Within(S, base, end) ==
    \A b \in S : base <= b.at /\ b.want <= b.room /\ b.at + b.room <= end

\* What has been handed out lies between the base of its region and the offset of
\* the next block, and no two blocks of a region share a byte.
HandedOut ==
    ~wrapped =>
        /\ Apart(heap) /\ Within(heap, HeapBase, HeapBase + heapOff)
        /\ Apart(images) /\ Within(images, LibBase, LibBase + libOff)

\* No two blocks, heap or image, share a byte, and each has room for what was
\* asked: unless a size or an offset has wrapped, no guest write into one block
\* reaches another, whatever the order of malloc, calloc, realloc and loading.
NoOverlap == ~wrapped => Apart(heap \cup images) /\ \A b \in heap \cup images : b.want <= b.room

\* realloc's copy reads past the end of the old block, yet never past the end of
\* the heap (uc_mem_read would fail and the contents be lost), and never writes
\* more than the new block holds.
ReallocInHeap ==
    ~wrapped => /\ copied.src + copied.len <= HeapBase + HeapSize
                /\ copied.len <= copied.room

\* The blocks of the heap and the images never reach into the stub region, and
\* as long as the imports fit it (nothing in the code checks that) every stub is
\* inside the range the import hook watches and leads back to one name only.
StubsHooked ==
    ~wrapped =>
        /\ \A b \in heap \cup images : b.at + b.room <= ImportBase
        /\ \A s \in stubs : imported[s[2]] = s[1] /\ \A r \in stubs : r[1] = s[1] => r = s
        /\ Stub * Cardinality(Names) <= ImportSize =>
              \A s \in stubs : ImportBase <= s[1] /\ s[1] + Stub <= ImportBase + ImportSize

\* Relocations are applied once and again on a retried load: a name keeps the
\* address it was given for as long as the VM lives.
BindingsStable ==
    [][(\A n \in Names : imported[n] # 0 => imported'[n] = imported[n])
        \/ (\A n \in Names : imported'[n] = 0)]_vars
================================================================================
