--------------------------- MODULE GuestMemoryProofs ---------------------------
(***************************************************************************)
(* The blocks of the emulator's bump allocators do not overlap, for every  *)
(* word width, region layout and set of request sizes.                     *)
(***************************************************************************)
EXTENDS GuestMemory, FiniteSetTheorems, TLAPS

(***************************************************************************)
(* The inductive invariant: the offsets and blocks have their types, and   *)
(* the two properties whose violation takes a step of the other.           *)
(***************************************************************************)
OffsetsOK ==
    /\ heapOff \in Nat /\ heapOff <= HeapSize
    /\ libOff \in Nat /\ libOff <= LibSize
    /\ heap \subseteq Block /\ images \subseteq Block
    /\ copied \in [src : Nat, len : Nat, room : Nat]
    /\ wrapped \in BOOLEAN

IInv == OffsetsOK /\ HandedOut /\ ReallocInHeap

\* Rounding up yields a natural number, and one that is large enough unless the
\* addition of the mask wraps (the first three lines of PageAllocator::alloc).
LEMMA AlignedRoom ==
    ASSUME NEW n \in Nat, NEW a \in Nat \ {0}
    PROVE  /\ Aligned(n, a) \in Nat
           /\ n + (a - 1) < Word => n <= Aligned(n, a)
<1> DEFINE x == (n + (a - 1)) % Word
<1>0. Word \in Nat \ {0}
  BY WordAssumption, LayoutAssumption
<1>1. x \in Nat
  BY <1>0
<1>2. x % a \in Nat /\ x % a <= a - 1 /\ x % a <= x
  BY <1>1
<1>3. Rounded(x, a) \in Nat /\ Rounded(x, a) >= x - (a - 1)
  BY <1>1, <1>2 DEF Rounded
<1>4. n + (a - 1) < Word => x = n + (a - 1)
  BY <1>0
<1> HIDE DEF x
<1>5. Aligned(n, a) = IF Rounded(x, a) = 0 THEN a ELSE Rounded(x, a)
  BY DEF Aligned, x
<1>6. n + (a - 1) < Word => Rounded(x, a) >= n
  BY <1>3, <1>4, <1>1
<1>7. QED
  BY <1>3, <1>5, <1>6
\* A request the allocator grants without wrapping is given the bytes between
\* the old offset and the new one, and the new one is still inside the region.
LEMMA GrantedRoom ==
    ASSUME NEW off \in Nat, NEW n \in Nat, NEW a \in Nat \ {0}, NEW size \in Nat,
           Fits(off, n, a, size), ~Wraps(off, n, a)
    PROVE  /\ Aligned(n, a) \in Nat /\ n <= Aligned(n, a)
           /\ (off + Aligned(n, a)) % Word = off + Aligned(n, a)
           /\ off + Aligned(n, a) <= size
<1>0. Word \in Nat \ {0}
  BY WordAssumption, LayoutAssumption
<1>1. n + (a - 1) < Word /\ off + Aligned(n, a) < Word
  BY <1>0, AlignedRoom DEF Wraps
<1>2. Aligned(n, a) \in Nat /\ n <= Aligned(n, a)
  BY <1>1, AlignedRoom
<1>3. \A s \in Nat : s < Word => s % Word = s
  BY <1>0
<1>4. off + Aligned(n, a) \in Nat
  BY <1>2
<1>5. (off + Aligned(n, a)) % Word = off + Aligned(n, a)
  BY <1>1, <1>3, <1>4
<1>6. QED
  BY <1>2, <1>5 DEF Fits

\* Whether or not it wraps, the offset stays inside the region.
LEMMA OffsetBound ==
    ASSUME NEW off \in Nat, NEW n \in Nat, NEW a \in Nat \ {0}, NEW size \in Nat,
           Fits(off, n, a, size)
    PROVE  /\ (off + Aligned(n, a)) % Word \in Nat
           /\ (off + Aligned(n, a)) % Word <= size
           /\ Aligned(n, a) \in Nat
<1>0. Word \in Nat \ {0}
  BY WordAssumption, LayoutAssumption
<1>1. Aligned(n, a) \in Nat
  BY AlignedRoom
<1>2. QED
  BY <1>0, <1>1 DEF Fits

\* A block put at the end of those handed out keeps them apart and inside.
LEMMA Appended ==
    ASSUME NEW S \in SUBSET Block, NEW base \in Nat, NEW off \in Nat,
           NEW want \in Nat, NEW room \in Nat,
           Apart(S), Within(S, base, base + off), want <= room
    PROVE  LET T == S \cup {[at |-> base + off, want |-> want, room |-> room]}
           IN  Apart(T) /\ Within(T, base, base + (off + room))
<1> DEFINE new == [at |-> base + off, want |-> want, room |-> room]
           T == S \cup {new}
<1>1. new.at = base + off /\ new.want = want /\ new.room = room
  OBVIOUS
<1> HIDE DEF new
<1>2. ASSUME NEW b \in S
      PROVE  /\ b.at \in Nat /\ b.want \in Nat /\ b.room \in Nat
             /\ base <= b.at /\ b.want <= b.room /\ b.at + b.room <= base + off
  BY <1>2 DEF Block, Within
<1>3. Apart(T)
  <2> SUFFICES ASSUME NEW b \in T, NEW c \in T, b # c
               PROVE  b.at + b.room <= c.at \/ c.at + c.room <= b.at
    BY DEF Apart
  <2>1. CASE b \in S /\ c \in S
    BY <2>1 DEF Apart
  <2>2. CASE b \in S /\ c = new
    BY <2>2, <1>1, <1>2
  <2>3. CASE b = new /\ c \in S
    BY <2>3, <1>1, <1>2
  <2>4. QED
    BY <2>1, <2>2, <2>3
<1>4. Within(T, base, base + (off + room))
  <2> SUFFICES ASSUME NEW b \in T
               PROVE  base <= b.at /\ b.want <= b.room /\ b.at + b.room <= base + (off + room)
    BY DEF Within
  <2>1. CASE b \in S
    BY <2>1, <1>2
  <2>2. CASE b = new
    BY <2>2, <1>1
  <2>3. QED
    BY <2>1, <2>2
<1>5. QED
  BY <1>3, <1>4 DEF new

--------------------------------------------------------------------------------
\* What a grant of the heap does: the invariant's part about the heap, and the
\* address and room of the new block.
LEMMA HeapStep ==
    ASSUME IInv, NEW want \in Nat, NEW n \in Nat, NEW over \in BOOLEAN,
           ~over => want <= n,
           HeapGrant(want, n, over)
    PROVE  /\ heapOff' \in Nat /\ heapOff' <= HeapSize
           /\ heap' \subseteq Block
           /\ wrapped' \in BOOLEAN /\ ~wrapped
           /\ ~wrapped' => /\ Apart(heap') /\ Within(heap', HeapBase, HeapBase + heapOff')
                           /\ ~over
                           /\ n <= Aligned(n, HeapAlign)
                           /\ heapOff + Aligned(n, HeapAlign) <= HeapSize
<1> DEFINE room == Aligned(n, HeapAlign)
<1>0. /\ HeapBase \in Nat /\ HeapSize \in Nat /\ HeapAlign \in Nat \ {0}
      /\ heapOff \in Nat /\ heap \subseteq Block
      /\ ~wrapped /\ Fits(heapOff, n, HeapAlign, HeapSize)
      /\ heap' = heap \cup {[at |-> HeapBase + heapOff, want |-> want, room |-> room]}
      /\ heapOff' = (heapOff + room) % Word
      /\ wrapped' = (over \/ Wraps(heapOff, n, HeapAlign))
  BY LayoutAssumption DEF IInv, OffsetsOK, HeapGrant
<1>1. heapOff' \in Nat /\ heapOff' <= HeapSize /\ room \in Nat
  BY <1>0, OffsetBound
<1>2. heap' \subseteq Block
  BY <1>0, <1>1 DEF Block
<1>3. wrapped' \in BOOLEAN
  BY <1>0
<1>4. ASSUME ~wrapped'
      PROVE  /\ Apart(heap') /\ Within(heap', HeapBase, HeapBase + heapOff')
             /\ ~over /\ n <= room /\ heapOff + room <= HeapSize
  <2>1. ~over /\ ~Wraps(heapOff, n, HeapAlign)
    BY <1>0, <1>4
  <2>2. n <= room /\ heapOff' = heapOff + room /\ heapOff + room <= HeapSize
    BY <2>1, <1>0, GrantedRoom
  <2>3. Apart(heap) /\ Within(heap, HeapBase, HeapBase + heapOff)
    BY <1>0 DEF IInv, HandedOut
  <2>4. want <= room
    BY <2>1, <2>2, <1>1
  <2> HIDE DEF room
  <2>5. Apart(heap') /\ Within(heap', HeapBase, HeapBase + (heapOff + room))
    BY <1>0, <1>1, <2>3, <2>4, Appended
  <2>6. QED
    BY <2>1, <2>2, <2>5
<1>5. QED
  BY <1>0, <1>1, <1>2, <1>3, <1>4
\* Every hook asks for a size from which, unless computing it wrapped, the bytes
\* the requester will use can be taken.
LEMMA SlackRoom ==
    ASSUME NEW p \in Nat, NEW q \in Nat
    PROVE  (p + q) % Word \in Nat /\ (p + q < Word => p <= (p + q) % Word)
<1>1. Word \in Nat \ {0}
  BY WordAssumption, LayoutAssumption
<1>2. \A s \in Nat : s % Word \in Nat /\ (s < Word => s % Word = s)
  BY <1>1
<1>3. QED
  BY <1>1, <1>2

\* A step that grants heap and changes neither the images nor the last copy.
LEMMA HeapOnlyStep ==
    ASSUME IInv, NEW want \in Nat, NEW n \in Nat, NEW over \in BOOLEAN,
           ~over => want <= n,
           HeapGrant(want, n, over), UNCHANGED <<libOff, images, copied>>
    PROVE  IInv'
<1>1. /\ heapOff' \in Nat /\ heapOff' <= HeapSize
      /\ heap' \subseteq Block
      /\ wrapped' \in BOOLEAN /\ ~wrapped
      /\ ~wrapped' => Apart(heap') /\ Within(heap', HeapBase, HeapBase + heapOff')
  BY HeapStep
<1>2. OffsetsOK'
  BY <1>1 DEF IInv, OffsetsOK
<1>3. HandedOut'
  BY <1>1 DEF IInv, HandedOut, Apart, Within
<1>4. ReallocInHeap'
  BY <1>1 DEF IInv, ReallocInHeap
<1>5. QED
  BY <1>2, <1>3, <1>4 DEF IInv

--------------------------------------------------------------------------------
\* A fresh VM.
LEMMA IInvInit == Init => IInv
<1> SUFFICES ASSUME Init PROVE IInv
  OBVIOUS
<1>0. HeapBase \in Nat /\ HeapSize \in Nat /\ LibSize \in Nat
  BY LayoutAssumption
<1>1. OffsetsOK
  <2>1. copied \in [src : Nat, len : Nat, room : Nat]
    BY <1>0 DEF Init, NoCopy
  <2>2. heap \subseteq Block /\ images \subseteq Block
    BY DEF Init
  <2>3. heapOff = 0 /\ libOff = 0 /\ wrapped = FALSE
    BY DEF Init
  <2>4. heapOff <= HeapSize /\ libOff <= LibSize
    BY <1>0, <2>3
  <2>5. QED
    BY <2>1, <2>2, <2>3, <2>4 DEF OffsetsOK
<1>2. HandedOut
  BY DEF Init, HandedOut, Apart, Within
<1>3. ReallocInHeap
  BY LayoutAssumption DEF Init, ReallocInHeap, NoCopy
<1>4. QED
  BY <1>1, <1>2, <1>3 DEF IInv

\* No step lets two blocks overlap: one case per operation.
LEMMA IInvNext == IInv /\ [Next]_vars => IInv'
<1> SUFFICES ASSUME IInv, [Next]_vars PROVE IInv'
  OBVIOUS
<1>0. /\ Word \in Nat \ {0} /\ Slack \in Nat /\ ExceptionSlack \in Nat /\ DummySize \in Nat
      /\ Sizes \subseteq Nat /\ Spans \subseteq Nat
      /\ LibBase \in Nat /\ LibSize \in Nat /\ LibAlign \in Nat \ {0}
      /\ HeapBase \in Nat /\ HeapSize \in Nat /\ HeapAlign \in Nat \ {0}
  BY WordAssumption, LayoutAssumption
<1>1. ASSUME NEW n \in Sizes, Malloc(n) PROVE IInv'
  <2>1. n \in Nat
    BY <1>0
  <2>2. /\ (n + Slack) % Word \in Nat
        /\ (n + Slack >= Word) \in BOOLEAN
        /\ ~(n + Slack >= Word) => n <= (n + Slack) % Word
    BY <1>0, <2>1, SlackRoom
  <2>3. HeapGrant(n, (n + Slack) % Word, n + Slack >= Word)
    BY <1>1 DEF Malloc
  <2>4. UNCHANGED <<libOff, images, copied>>
    BY <1>1 DEF Malloc
  <2>5. QED
    BY <2>1, <2>2, <2>3, <2>4, HeapOnlyStep
<1>e. ASSUME NEW n \in Sizes, AllocException(n) PROVE IInv'
  <2>1. n \in Nat
    BY <1>0
  <2>2. /\ (n + ExceptionSlack) % Word \in Nat
        /\ (n + ExceptionSlack >= Word) \in BOOLEAN
        /\ ~(n + ExceptionSlack >= Word) => n <= (n + ExceptionSlack) % Word
    BY <1>0, <2>1, SlackRoom
  <2>3. HeapGrant(n, (n + ExceptionSlack) % Word, n + ExceptionSlack >= Word)
    BY <1>e DEF AllocException
  <2>4. UNCHANGED <<libOff, images, copied>>
    BY <1>e DEF AllocException
  <2>5. QED
    BY <2>1, <2>2, <2>3, <2>4, HeapOnlyStep
<1>2. ASSUME NEW n \in Sizes, AllocCell(n) PROVE IInv'
  <2>1. n \in Nat /\ n <= n
    BY <1>0
  <2>2. HeapGrant(n, n, FALSE) /\ UNCHANGED <<libOff, images, copied>>
    BY <1>2 DEF AllocCell
  <2>3. QED
    BY <2>1, <2>2, HeapOnlyStep
<1>3. ASSUME NEW k \in Sizes, NEW n \in Sizes, Calloc(k, n) PROVE IInv'
  <2> DEFINE p == k * n
  <2>1. p \in Nat
    BY <1>0
  <2>2. HeapGrant(p, (p + Slack) % Word, p + Slack >= Word)
    BY <1>3 DEF Calloc
  <2>3. UNCHANGED <<libOff, images, copied>>
    BY <1>3 DEF Calloc
  <2> HIDE DEF p
  <2>4. /\ (p + Slack) % Word \in Nat
        /\ (p + Slack >= Word) \in BOOLEAN
        /\ ~(p + Slack >= Word) => p <= (p + Slack) % Word
    BY <1>0, <2>1, SlackRoom
  <2>5. QED
    BY <2>1, <2>2, <2>3, <2>4, HeapOnlyStep
<1>4. ASSUME NEW b \in heap, NEW n \in Sizes, Realloc(b, n) PROVE IInv'
  <2> DEFINE m == (n + Slack) % Word
             over == n + Slack >= Word
  <2>1. n \in Nat
    BY <1>0
  <2>2. m \in Nat /\ over \in BOOLEAN /\ (~over => n <= m)
    BY <1>0, <2>1, SlackRoom
  <2>3. /\ HeapGrant(n, m, over)
        /\ copied' = [src |-> b.at, len |-> n, room |-> Aligned(m, HeapAlign)]
        /\ libOff' = libOff /\ images' = images
    BY <1>4 DEF Realloc
  <2> HIDE DEF m, over
  <2>4. /\ heapOff' \in Nat /\ heapOff' <= HeapSize
        /\ heap' \subseteq Block
        /\ wrapped' \in BOOLEAN /\ ~wrapped
        /\ ~wrapped' => /\ Apart(heap') /\ Within(heap', HeapBase, HeapBase + heapOff')
                        /\ ~over
                        /\ m <= Aligned(m, HeapAlign)
                        /\ heapOff + Aligned(m, HeapAlign) <= HeapSize
    BY <2>1, <2>2, <2>3, HeapStep
  <2>5. Aligned(m, HeapAlign) \in Nat
    BY <1>0, <2>2, AlignedRoom
  <2>6. /\ b.at \in Nat /\ b.room \in Nat /\ heapOff \in Nat
        /\ b.at + b.room <= HeapBase + heapOff
    BY <2>4 DEF IInv, OffsetsOK, HandedOut, Within, Block
  <2>7. OffsetsOK'
    BY <2>1, <2>3, <2>4, <2>5, <2>6 DEF IInv, OffsetsOK
  <2>8. HandedOut'
    BY <2>3, <2>4 DEF IInv, HandedOut, Apart, Within
  <2>9. ASSUME ~wrapped'
        PROVE  b.at + n <= HeapBase + HeapSize /\ n <= Aligned(m, HeapAlign)
    BY <1>0, <2>1, <2>2, <2>4, <2>5, <2>6, <2>9
  <2>10. ReallocInHeap'
    BY <2>3, <2>9 DEF ReallocInHeap
  <2>11. QED
    BY <2>7, <2>8, <2>10 DEF IInv
<1>5. ASSUME NEW span \in Spans, MapImage(span) PROVE IInv'
  <2> DEFINE room == Aligned(span, LibAlign)
  <2>1. /\ span \in Nat /\ libOff \in Nat /\ images \subseteq Block
        /\ ~wrapped /\ Fits(libOff, span, LibAlign, LibSize)
        /\ images' = images \cup {[at |-> LibBase + libOff, want |-> span, room |-> room]}
        /\ libOff' = (libOff + room) % Word
        /\ wrapped' = Wraps(libOff, span, LibAlign)
        /\ heapOff' = heapOff /\ heap' = heap /\ copied' = copied
    BY <1>0, <1>5 DEF IInv, OffsetsOK, MapImage
  <2>2. libOff' \in Nat /\ libOff' <= LibSize /\ room \in Nat
    BY <1>0, <2>1, OffsetBound
  <2>3. images' \subseteq Block
    BY <1>0, <2>1, <2>2 DEF Block
  <2>4. wrapped' \in BOOLEAN
    BY <2>1 DEF Wraps
  <2>5. OffsetsOK'
    BY <2>1, <2>2, <2>3, <2>4 DEF IInv, OffsetsOK
  <2>6. ASSUME ~wrapped'
        PROVE  Apart(images') /\ Within(images', LibBase, LibBase + libOff')
    <3>1. span <= room /\ libOff' = libOff + room
      BY <1>0, <2>1, <2>6, GrantedRoom
    <3>2. Apart(images) /\ Within(images, LibBase, LibBase + libOff)
      BY <2>1 DEF IInv, HandedOut
    <3> HIDE DEF room
    <3>3. Apart(images') /\ Within(images', LibBase, LibBase + (libOff + room))
      BY <1>0, <2>1, <2>2, <3>1, <3>2, Appended
    <3>4. QED
      BY <3>1, <3>3
  <2>7. HandedOut'
    BY <2>1, <2>6 DEF IInv, HandedOut, Apart, Within
  <2>8. ReallocInHeap'
    BY <2>1 DEF IInv, ReallocInHeap
  <2>9. QED
    BY <2>5, <2>7, <2>8 DEF IInv
<1>6. ASSUME NEW n \in Names, RegisterImport(n) PROVE IInv'
  <2>1. UNCHANGED <<heapOff, libOff, heap, images, copied, wrapped>>
    BY <1>6 DEF RegisterImport
  <2>2. QED
    BY <2>1 DEF IInv, OffsetsOK, HandedOut, Apart, Within, ReallocInHeap
<1>7. ASSUME NEW n \in Names, ImportData(n) PROVE IInv'
  <2>1. \A s \in Nat : s % Word \in Nat /\ (s < Word => s % Word = s)
    BY <1>0
  <2>2. /\ DummySize % Word \in Nat /\ (DummySize >= Word) \in BOOLEAN
        /\ ~(DummySize >= Word) => DummySize <= DummySize % Word
    BY <1>0, <2>1
  <2>3. HeapGrant(DummySize, DummySize % Word, DummySize >= Word)
    BY <1>7 DEF ImportData
  <2>4. UNCHANGED <<libOff, images, copied>>
    BY <1>7 DEF ImportData
  <2>5. QED
    BY <1>0, <2>2, <2>3, <2>4, HeapOnlyStep
<1>8. CASE Abort
  <2>1. /\ heapOff' = 0 /\ libOff' = 0 /\ heap' = {} /\ images' = {}
        /\ copied' = NoCopy /\ wrapped' = FALSE
    BY <1>8 DEF Abort
  <2>2. OffsetsOK'
    <3>1. copied' \in [src : Nat, len : Nat, room : Nat]
      BY <1>0, <2>1 DEF NoCopy
    <3>2. heap' \subseteq Block /\ images' \subseteq Block
      BY <2>1
    <3>3. heapOff' <= HeapSize /\ libOff' <= LibSize
      BY <1>0, <2>1
    <3>4. QED
      BY <2>1, <3>1, <3>2, <3>3 DEF OffsetsOK
  <2>3. HandedOut'
    BY <2>1 DEF HandedOut, Apart, Within
  <2>4. ReallocInHeap'
    BY <1>0, <2>1 DEF ReallocInHeap, NoCopy
  <2>5. QED
    BY <2>2, <2>3, <2>4 DEF IInv
<1>9. CASE UNCHANGED vars
  BY <1>9 DEF vars, IInv, OffsetsOK, HandedOut, Apart, Within, ReallocInHeap
<1>10. QED
  BY <1>1, <1>e, <1>2, <1>3, <1>4, <1>5, <1>6, <1>7, <1>8, <1>9 DEF Next

\* Every reachable state satisfies the inductive invariant.
LEMMA IInvHolds == Spec => []IInv
<1>1. QED
  BY IInvInit, IInvNext, PTL DEF Spec

\* Blocks of one region lie apart, and the regions follow each other.
LEMMA RegionsApart == IInv => NoOverlap
<1> SUFFICES ASSUME IInv, ~wrapped
             PROVE  Apart(heap \cup images) /\ \A b \in heap \cup images : b.want <= b.room
  BY DEF NoOverlap
<1>0. /\ LibBase \in Nat /\ LibSize \in Nat /\ HeapBase \in Nat
      /\ LibBase + LibSize <= HeapBase
      /\ libOff \in Nat /\ libOff <= LibSize
      /\ heap \subseteq Block /\ images \subseteq Block
  BY LayoutAssumption DEF IInv, OffsetsOK
<1>1. /\ Apart(heap) /\ Within(heap, HeapBase, HeapBase + heapOff)
      /\ Apart(images) /\ Within(images, LibBase, LibBase + libOff)
  BY DEF IInv, HandedOut
<1>2. ASSUME NEW b \in images, NEW c \in heap
      PROVE  b.at + b.room <= c.at
  <2>1. b.at \in Nat /\ b.room \in Nat /\ c.at \in Nat
    BY <1>0, <1>2 DEF Block
  <2>2. b.at + b.room <= LibBase + libOff /\ HeapBase <= c.at
    BY <1>1, <1>2 DEF Within
  <2>3. QED
    BY <1>0, <2>1, <2>2
<1>3. Apart(heap \cup images)
  BY <1>1, <1>2 DEF Apart
<1>4. QED
  BY <1>1, <1>3 DEF Within

\* What the heap and the library region hand out: inside its region, apart from
\* all that was handed out before, large enough for what was asked.
THEOREM HandedOutHolds == Spec => []HandedOut
<1>1. IInv => HandedOut
  BY DEF IInv
<1>2. QED
  BY <1>1, IInvHolds, PTL

\* No guest write into a block it was given reaches another block or an image,
\* for every layout, word width and sequence of requests that does not wrap.
THEOREM BlocksNeverOverlap == Spec => []NoOverlap
<1>1. QED
  BY RegionsApart, IInvHolds, PTL

\* The copy of realloc, although it does not know the old block's size, stays
\* inside the heap and fits the new block.
THEOREM ReallocNeverLeavesHeap == Spec => []ReallocInHeap
<1>1. IInv => ReallocInHeap
  BY DEF IInv
<1>2. QED
  BY <1>1, IInvHolds, PTL

--------------------------------------------------------------------------------
(***************************************************************************)
(* The import stubs.  Every stub belongs to one name, and the next one     *)
(* lies behind as many as there are names that have one.                   *)
(***************************************************************************)
Stubbed == {n \in Names : \E s \in stubs : s[2] = n}

StubsCounted ==
    /\ imported \in [Names -> Nat]
    /\ stubs \subseteq Nat \X Names
    /\ next = ImportBase + Stub * Cardinality(Stubbed)
    /\ \A s \in stubs : /\ imported[s[2]] = s[1]
                        /\ ImportBase <= s[1] /\ s[1] + Stub <= next
    /\ \A s, r \in stubs : r[1] = s[1] => r = s

LEMMA StubbedIsFinite ==
    IsFiniteSet(Stubbed) /\ Cardinality(Stubbed) \in Nat /\ Cardinality(Names) \in Nat
        /\ Cardinality(Stubbed) <= Cardinality(Names)
<1>1. Stubbed \subseteq Names
  BY DEF Stubbed
<1>2. QED
  BY <1>1, WordAssumption, FS_Subset, FS_CardinalityType

LEMMA StubsCountedInit == Init => StubsCounted
<1> SUFFICES ASSUME Init PROVE StubsCounted
  OBVIOUS
<1>1. Stubbed = {} /\ stubs = {}
  BY DEF Init, Stubbed
<1>2. Cardinality(Stubbed) = 0
  BY <1>1, FS_EmptySet
<1>3. next = ImportBase + Stub * Cardinality(Stubbed)
  BY <1>2, WordAssumption, LayoutAssumption DEF Init
<1>4. imported \in [Names -> Nat]
  BY DEF Init
<1>5. QED
  BY <1>1, <1>3, <1>4 DEF StubsCounted

\* Requests to the allocators leave the table of imports alone.
LEMMA StubsUntouched ==
    ASSUME StubsCounted, UNCHANGED <<imported, stubs, next>>
    PROVE  StubsCounted'
<1>1. Stubbed' = Stubbed
  BY DEF Stubbed
<1>2. QED
  BY <1>1 DEF StubsCounted

\* A new stub lies behind all others and goes to a name that has none.
LEMMA RegisterKeeps ==
    ASSUME StubsCounted, NEW n \in Names, RegisterImport(n)
    PROVE  StubsCounted'
<1> DEFINE c == Cardinality(Stubbed)
<1>1. /\ imported[n] = 0 /\ imported' = [imported EXCEPT ![n] = next]
      /\ stubs' = stubs \cup {<<next, n>>} /\ next' = next + Stub
  BY DEF RegisterImport
<1>2. ImportBase \in Nat \ {0} /\ Stub \in Nat \ {0} /\ c \in Nat
  BY LayoutAssumption, WordAssumption, StubbedIsFinite
<1>3. /\ stubs \subseteq Nat \X Names /\ next = ImportBase + Stub * c
      /\ imported \in [Names -> Nat]
      /\ \A s \in stubs : imported[s[2]] = s[1] /\ ImportBase <= s[1] /\ s[1] + Stub <= next
      /\ \A s, r \in stubs : r[1] = s[1] => r = s
  BY DEF StubsCounted
<1>4. \A s \in stubs : s[1] \in Nat /\ s[2] \in Names /\ s[2] # n /\ s[1] < next
  <2> SUFFICES ASSUME NEW s \in stubs
               PROVE  s[1] \in Nat /\ s[2] \in Names /\ s[2] # n /\ s[1] < next
    OBVIOUS
  <2>1. s[1] \in Nat /\ s[2] \in Names /\ imported[s[2]] = s[1]
    BY <1>3
  <2>2. ImportBase <= s[1] /\ s[1] + Stub <= next
    BY <1>3
  <2>3. Stub * c \in Nat
    BY <1>2
  <2> HIDE DEF c
  <2>4. next \in Nat
    BY <1>2, <1>3, <2>3
  <2>5. QED
    BY <1>1, <1>2, <2>1, <2>2, <2>4
<1>5. Cardinality(Stubbed') = c + 1
  <2>1. Stubbed' = Stubbed \cup {n}
    <3>1. /\ <<next, n>> \in stubs' /\ <<next, n>>[2] = n
          /\ \A s \in stubs' : s \in stubs \/ s[2] = n
          /\ stubs \subseteq stubs'
      BY <1>1
    <3>2. ASSUME NEW m \in Stubbed' PROVE m \in Stubbed \cup {n}
      BY <3>1, <3>2 DEF Stubbed
    <3>3. ASSUME NEW m \in Stubbed \cup {n} PROVE m \in Stubbed'
      BY <3>1, <3>3 DEF Stubbed
    <3>4. QED
      BY <3>2, <3>3
  <2>2. n \notin Stubbed
    BY <1>4 DEF Stubbed
  <2>3. QED
    BY <2>1, <2>2, StubbedIsFinite, FS_AddElement
<1> HIDE DEF c
<1>6. next' = ImportBase + Stub * (c + 1) /\ next \in Nat /\ ImportBase <= next
  <2>1. Stub * (c + 1) = Stub * c + Stub /\ Stub * c \in Nat
    BY <1>2
  <2>2. QED
    BY <1>1, <1>2, <1>3, <2>1
<1>7. imported' \in [Names -> Nat] /\ stubs' \subseteq Nat \X Names
  BY <1>1, <1>3, <1>6
<1>8. \A s \in stubs' : /\ imported'[s[2]] = s[1]
                         /\ ImportBase <= s[1] /\ s[1] + Stub <= next'
  <2> SUFFICES ASSUME NEW s \in stubs'
               PROVE  /\ imported'[s[2]] = s[1]
                      /\ ImportBase <= s[1] /\ s[1] + Stub <= next'
    OBVIOUS
  <2>1. CASE s \in stubs
    BY <1>1, <1>2, <1>3, <1>4, <1>6, <2>1
  <2>2. CASE s = <<next, n>>
    BY <1>1, <1>2, <1>3, <1>6, <2>2
  <2>3. QED
    BY <1>1, <2>1, <2>2
<1>9. \A s, r \in stubs' : r[1] = s[1] => r = s
  BY <1>1, <1>3, <1>4
<1>10. QED
  BY <1>5, <1>6, <1>7, <1>8, <1>9 DEF StubsCounted

\* A dummy goes to a name that has neither.
LEMMA DummyKeeps ==
    ASSUME IInv, StubsCounted, NEW n \in Names, ImportData(n)
    PROVE  StubsCounted'
<1>1. /\ imported[n] = 0 /\ imported' = [imported EXCEPT ![n] = HeapBase + heapOff]
      /\ UNCHANGED <<stubs, next>>
  BY DEF ImportData
<1>2. HeapBase \in Nat /\ heapOff \in Nat /\ ImportBase \in Nat \ {0}
  BY LayoutAssumption DEF IInv, OffsetsOK
<1>3. \A s \in stubs : s[2] \in Names /\ s[2] # n
  BY <1>1, <1>2 DEF StubsCounted
<1>4. Stubbed' = Stubbed
  BY <1>1 DEF Stubbed
<1>5. imported' \in [Names -> Nat]
  BY <1>1, <1>2 DEF StubsCounted
<1>6. \A s \in stubs : imported'[s[2]] = imported[s[2]]
  BY <1>1, <1>3 DEF StubsCounted
<1>7. QED
  BY <1>1, <1>4, <1>5, <1>6 DEF StubsCounted

LEMMA StubsCountedNext == IInv /\ StubsCounted /\ [Next]_vars => StubsCounted'
<1> SUFFICES ASSUME IInv, StubsCounted, [Next]_vars PROVE StubsCounted'
  OBVIOUS
<1>1. CASE UNCHANGED <<imported, stubs, next>>
  BY <1>1, StubsUntouched
<1>2. ASSUME NEW n \in Names, RegisterImport(n) PROVE StubsCounted'
  BY <1>2, RegisterKeeps
<1>3. ASSUME NEW n \in Names, ImportData(n) PROVE StubsCounted'
  BY <1>3, DummyKeeps
<1>4. CASE Abort
  <2>1. stubs' = {} /\ next' = ImportBase /\ imported' = [n \in Names |-> 0]
    BY <1>4 DEF Abort
  <2>2. Stubbed' = {}
    BY <2>1 DEF Stubbed
  <2>3. next' = ImportBase + Stub * Cardinality(Stubbed')
    BY <2>1, <2>2, FS_EmptySet, WordAssumption, LayoutAssumption
  <2>4. QED
    BY <2>1, <2>3 DEF StubsCounted
<1>5. QED
  BY <1>1, <1>2, <1>3, <1>4
     DEF Next, Malloc, AllocException, AllocCell, Calloc, Realloc, MapImage, vars

\* Every stub is one name's, is where that name leads, and lies in the region the
\* import hook watches as long as the imports fit it.
THEOREM StubsAreHooked == Spec => []StubsHooked
<1>1. IInv /\ StubsCounted => StubsHooked
  <2> SUFFICES ASSUME IInv, StubsCounted, ~wrapped PROVE StubsHooked
    BY DEF StubsHooked
  <2>1. ASSUME NEW b \in heap \cup images PROVE b.at + b.room <= ImportBase
    <3>1. /\ b.at \in Nat /\ b.room \in Nat
          /\ b.at + b.room <= HeapBase + heapOff \/ b.at + b.room <= LibBase + libOff
      BY DEF IInv, OffsetsOK, HandedOut, Within, Block
    <3>2. QED
      BY <3>1, LayoutAssumption DEF IInv, OffsetsOK
  <2>2. \A s \in stubs : imported[s[2]] = s[1] /\ \A r \in stubs : r[1] = s[1] => r = s
    BY DEF StubsCounted
  <2>3. ASSUME Stub * Cardinality(Names) <= ImportSize
        PROVE  \A s \in stubs : ImportBase <= s[1] /\ s[1] + Stub <= ImportBase + ImportSize
    <3> DEFINE c == Cardinality(Stubbed)
               m == Cardinality(Names)
    <3>1. c \in Nat /\ m \in Nat /\ c <= m /\ Stub \in Nat
      BY StubbedIsFinite, WordAssumption
    <3>2. \A s \in stubs : s[1] \in Nat /\ ImportBase <= s[1] /\ s[1] + Stub <= next
      BY DEF StubsCounted
    <3>3. next = ImportBase + Stub * c /\ Stub * m <= ImportSize
      BY <2>3 DEF StubsCounted
    <3> HIDE DEF c, m
    <3>4. Stub * c <= Stub * m /\ Stub * c \in Nat /\ Stub * m \in Nat
      BY <3>1
    <3>5. next <= ImportBase + ImportSize /\ next \in Nat
      BY <3>3, <3>4, LayoutAssumption
    <3>6. QED
      BY <3>1, <3>2, <3>5, LayoutAssumption
  <2>4. QED
    BY <2>1, <2>2, <2>3 DEF StubsHooked
<1>2. QED
  BY <1>1, IInvInit, IInvNext, StubsCountedInit, StubsCountedNext, PTL DEF Spec

\* A name keeps its address, until the process that runs the VM ends.
THEOREM BindingsStay == Spec => BindingsStable
<1>1. StubsCounted /\ [Next]_vars =>
         [(\A n \in Names : imported[n] # 0 => imported'[n] = imported[n])
            \/ (\A n \in Names : imported'[n] = 0)]_vars
  <2> SUFFICES ASSUME StubsCounted, Next
               PROVE  \/ \A n \in Names : imported[n] # 0 => imported'[n] = imported[n]
                      \/ \A n \in Names : imported'[n] = 0
    OBVIOUS
  <2>1. CASE imported' = imported
    BY <2>1
  <2>2. ASSUME NEW n \in Names, RegisterImport(n) \/ ImportData(n)
        PROVE  \A k \in Names : imported[k] # 0 => imported'[k] = imported[k]
    BY <2>2 DEF RegisterImport, ImportData, StubsCounted
  <2>3. CASE Abort
    BY <2>3 DEF Abort
  <2>4. QED
    BY <2>1, <2>2, <2>3 DEF Next, Malloc, AllocException, AllocCell, Calloc, Realloc, MapImage
<1>2. QED
  BY <1>1, IInvInit, IInvNext, StubsCountedInit, StubsCountedNext, PTL
     DEF Spec, BindingsStable
================================================================================
