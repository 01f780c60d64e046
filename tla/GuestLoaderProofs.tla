---------------------------- MODULE GuestLoaderProofs ----------------------------
(***************************************************************************)
(* Proofs about the emulator's loader and its file hooks                   *)
(* (elf_loader_emulator.cpp).  The two halves share nothing but the        *)
(* module.                                                                 *)
(***************************************************************************)
EXTENDS GuestLinker, GuestFiles, NatFacts, TLAPS

(***************************************************************************)
(* Linking.  The idea: once every file has been loaded, loading one of     *)
(* them again gives no symbol its first definition and takes none away, so *)
(* what a symbol resolves to is fixed from the first relocation on.        *)
(* LinkInv says so of every bound cell.                                    *)
(***************************************************************************)
AllLoaded == \A f \in LibFiles : \E i \in DOMAIN image : image[i] = f

\* Every relocation of image i has been done.
Complete(i) == \A s \in Imports[image[i]] : cell[i][s] # Unbound

LoadsInOrder ==
    /\ phase = "idle" => pos = 1
    /\ phase = "load" =>
          /\ pos \in DOMAIN LoadOrder
          /\ \A k \in 1 .. (pos - 1) : \E i \in DOMAIN image : image[i] = LoadOrder[k]

RelocatesInOrder ==
    /\ phase = "relocate" =>
          AllLoaded /\ pos \in DOMAIN image /\ \A i \in 1 .. (pos - 1) : Complete(i)
    /\ SetUpCode => AllLoaded /\ \A i \in DOMAIN image : Complete(i)

\* A bound cell leads where resolving its symbol again would lead.
CellsRight ==
    \A i \in DOMAIN image, s \in LinkSymbols : cell[i][s] # Unbound =>
        /\ AllLoaded /\ s \in Imports[image[i]]
        /\ cell[i][s] = Resolution(i, s)
        /\ Undefined(s) => bindings[s] # Unbound

\* The images of a file follow those of the files loaded before it.
InOrder ==
    \A i \in DOMAIN image : \E k \in DOMAIN LoadOrder :
        /\ image[i] = LoadOrder[k]
        /\ \A l \in 1 .. (k - 1) : \E j \in 1 .. (i - 1) : image[j] = LoadOrder[l]

\* While no image is being relocated, each is done or untouched, and if one is
\* done the foremost ones are.
Settled ==
    phase # "relocate" => \A i \in DOMAIN image :
        /\ Complete(i) \/ cell[i] = NothingBound
        /\ cell[i] # NothingBound => \A j \in DOMAIN image : Foremost(j) => Complete(j)

Imported(s) == \E k \in DOMAIN LoadOrder : s \in Imports[LoadOrder[k]]

\* A placeholder is of the kind the first importer asked for, unless the name
\* needs none.
StubsRight ==
    \A s \in LinkSymbols : bindings[s] # Unbound =>
        /\ AllLoaded
        /\ Undefined(s) /\ Imported(s) => bindings[s] = KindOf(FirstImporter(s), s)

GivenRight == \A s \in LinkSymbols : given[s] \in Nat => Foremost(given[s])

LinkInv ==
    /\ LinkTypeOK /\ LoadsInOrder /\ RelocatesInOrder /\ InOrder /\ Settled
    /\ CellsRight /\ StubsRight /\ GivenRight

--------------------------------------------------------------------------------
\* Where the search for a symbol ends: at the foremost image of its file.
LEMMA FirstDefines ==
    ASSUME LinkTypeOK, NEW s \in LinkSymbols, Defining(s) # {}
    PROVE  /\ First(s) \in Defining(s) /\ First(s) \in Nat
           /\ \A j \in Defining(s) : First(s) <= j
           /\ Foremost(First(s))
<1>1. Defining(s) \in SUBSET Nat
  BY DEF Defining, LinkTypeOK
<1>2. \E i \in Defining(s) : \A j \in Defining(s) : i <= j
  BY <1>1, LeastNat
<1>3. First(s) \in Defining(s) /\ \A j \in Defining(s) : First(s) <= j
  BY <1>2 DEF First
<1>4. Foremost(First(s))
  BY <1>3 DEF Foremost, Defining
<1>5. QED
  BY <1>1, <1>3, <1>4

\* A placeholder is no image, and a symbol that is bound keeps it.
LEMMA PlaceholderIs ==
    ASSUME LinkTypeOK, NEW s \in LinkSymbols, NEW kind \in {CodeStub, DataDummy}
    PROVE  /\ Placeholder(s, kind) \in {CodeStub, DataDummy}
           /\ Placeholder(s, kind) \notin Nat /\ Placeholder(s, kind) # Unbound
<1>1. bindings[s] \in {Unbound, CodeStub, DataDummy}
  BY DEF LinkTypeOK
<1>2. QED
  BY <1>1, LinkerAssumption DEF Placeholder

\* vm_resolve_symbol finds an image that defines the symbol, the own one if
\* that does, and otherwise a placeholder.
LEMMA ResolutionIs ==
    ASSUME LinkTypeOK, NEW i \in DOMAIN image, NEW s \in LinkSymbols
    PROVE  /\ Resolution(i, s) # Unbound
           /\ Resolution(i, s) \in Nat \cup {CodeStub, DataDummy}
           /\ Defining(s) # {} => Resolution(i, s) \in Defining(s)
           /\ Defining(s) = {} /\ ~Undefined(s) => Resolution(i, s) \in Defining(Plain[s])
           /\ Resolution(i, s) \in Nat => Resolution(i, s) = i \/ Foremost(Resolution(i, s))
           /\ Undefined(s) => Resolution(i, s) = Placeholder(s, KindOf(image[i], s))
           /\ ~Undefined(s) => Resolution(i, s) \in Nat
<1>1. i \in Nat /\ Plain[s] \in LinkSymbols
  BY LinkerAssumption DEF LinkTypeOK
<1>2. s \in Defines[image[i]] => i \in Defining(s)
  BY DEF Defining
<1>3. /\ Placeholder(s, KindOf(image[i], s)) \in {CodeStub, DataDummy}
      /\ Placeholder(s, KindOf(image[i], s)) \notin Nat
      /\ Placeholder(s, KindOf(image[i], s)) # Unbound
  BY PlaceholderIs DEF KindOf
<1>4. CASE s \in Defines[image[i]]
  <2>1. Resolution(i, s) = i
    BY <1>4 DEF Resolution
  <2>2. QED
    BY <1>1, <1>2, <1>4, <2>1, LinkerAssumption DEF Undefined
<1>5. CASE s \notin Defines[image[i]] /\ Defining(s) # {}
  <2>1. Resolution(i, s) = First(s)
    BY <1>5 DEF Resolution
  <2>2. QED
    BY <1>5, <2>1, FirstDefines, LinkerAssumption DEF Undefined
<1>6. CASE s \notin Defines[image[i]] /\ Defining(s) = {} /\ Defining(Plain[s]) # {}
  <2>1. Resolution(i, s) = First(Plain[s])
    BY <1>6 DEF Resolution
  <2>2. QED
    BY <1>1, <1>6, <2>1, FirstDefines, LinkerAssumption DEF Undefined
<1>7. CASE s \notin Defines[image[i]] /\ Undefined(s)
  <2>1. Resolution(i, s) = Placeholder(s, KindOf(image[i], s))
    BY <1>7 DEF Resolution, Undefined
  <2>2. QED
    BY <1>3, <1>7, <2>1 DEF Undefined
<1>8. QED
  BY <1>4, <1>5, <1>6, <1>7 DEF Undefined

--------------------------------------------------------------------------------
\* Loading a file once more, when every file has been loaded, changes nothing
\* about where a symbol is found.
LEMMA LoadedAgain ==
    ASSUME LinkTypeOK, AllLoaded, NEW f \in LibFiles,
           image' = Append(image, f), bindings' = bindings
    PROVE  /\ AllLoaded'
           /\ \A s \in LinkSymbols : Undefined(s)' <=> Undefined(s)
           /\ \A i \in DOMAIN image, s \in LinkSymbols : Resolution(i, s)' = Resolution(i, s)
<1>1. /\ image \in Seq(LibFiles) /\ Len(image) \in Nat
      /\ DOMAIN image = 1 .. Len(image) /\ DOMAIN image' = 1 .. (Len(image) + 1)
      /\ \A i \in DOMAIN image : image'[i] = image[i]
      /\ image'[Len(image) + 1] = f
  BY DEF LinkTypeOK
<1>2. AllLoaded'
  BY <1>1 DEF AllLoaded
<1>3. PICK o \in DOMAIN image : image[o] = f
  BY DEF AllLoaded
<1>4. ASSUME NEW s \in LinkSymbols
      PROVE  /\ Defining(s)' = {} <=> Defining(s) = {}
             /\ Defining(s) # {} => First(s)' = First(s)
  <2>1. Defining(s) \subseteq Defining(s)'
    BY <1>1 DEF Defining
  <2>2. \A j \in Defining(s)' : j \notin Defining(s) => j = Len(image) + 1 /\ o \in Defining(s)
    BY <1>1, <1>3 DEF Defining
  <2>3. Defining(s)' \in SUBSET Nat
    BY <1>1 DEF Defining
  <2>4. ASSUME Defining(s) # {} PROVE First(s)' = First(s)
    <3>1. First(s) \in Defining(s) /\ \A j \in Defining(s) : First(s) <= j
      BY <2>4, FirstDefines
    <3>2. First(s) \in Defining(s)'
      BY <2>1, <3>1
    <3>3. \A j \in Defining(s)' : First(s) <= j
      BY <1>1, <2>2, <3>1 DEF Defining
    <3>4. (CHOOSE x \in Defining(s)' : \A y \in Defining(s)' : x <= y) = First(s)
      BY <2>3, <3>2, <3>3, ChooseLeast
    <3>5. QED
      BY <3>4 DEF First
  <2>5. QED
    BY <2>1, <2>2, <2>4
<1>5. \A s \in LinkSymbols : Plain[s] \in LinkSymbols
  BY LinkerAssumption
<1>6. \A s \in LinkSymbols : Undefined(s)' <=> Undefined(s)
  BY <1>4, <1>5 DEF Undefined
<1>7. ASSUME NEW i \in DOMAIN image, NEW s \in LinkSymbols
      PROVE  Resolution(i, s)' = Resolution(i, s)
  <2>1. image'[i] = image[i]
    BY <1>1
  <2>2. Placeholder(s, KindOf(image[i], s))' = Placeholder(s, KindOf(image[i], s))
    BY <2>1 DEF Placeholder, KindOf
  <2>3. QED
    BY <1>4, <1>5, <2>1, <2>2 DEF Resolution
<1>8. QED
  BY <1>2, <1>6, <1>7

\* A step that changes no image may bind symbols, but none that is bound.
LEMMA SameImages ==
    ASSUME LinkTypeOK, image' = image,
           \A s \in LinkSymbols : bindings[s] # Unbound => bindings'[s] = bindings[s]
    PROVE  /\ \A s \in LinkSymbols : Undefined(s)' <=> Undefined(s)
           /\ AllLoaded' <=> AllLoaded
           /\ \A i \in DOMAIN image, s \in LinkSymbols :
                 (Undefined(s) => bindings[s] # Unbound) => Resolution(i, s)' = Resolution(i, s)
<1>1. \A s \in LinkSymbols : Defining(s)' = Defining(s) /\ First(s)' = First(s)
  BY DEF Defining, First
<1>2. \A s \in LinkSymbols : Plain[s] \in LinkSymbols
  BY LinkerAssumption
<1>3. \A s \in LinkSymbols : Undefined(s)' <=> Undefined(s)
  BY <1>1, <1>2 DEF Undefined
<1>4. ASSUME NEW i \in DOMAIN image, NEW s \in LinkSymbols,
             Undefined(s) => bindings[s] # Unbound
      PROVE  Resolution(i, s)' = Resolution(i, s)
  <2>1. Undefined(s) => Placeholder(s, KindOf(image[i], s))' = Placeholder(s, KindOf(image[i], s))
    BY <1>4 DEF Placeholder
  <2>2. QED
    BY <1>1, <1>2, <2>1 DEF Resolution, Undefined
<1>5. AllLoaded' <=> AllLoaded
  BY DEF AllLoaded
<1>6. QED
  BY <1>3, <1>4, <1>5

--------------------------------------------------------------------------------
LEMMA LinkInvInit == LinkInit => LinkInv
<1> SUFFICES ASSUME LinkInit PROVE LinkInv
  OBVIOUS
<1>1. LinkTypeOK
  BY LinkerAssumption DEF LinkInit, LinkTypeOK, NothingBound
<1>2. LoadsInOrder /\ RelocatesInOrder
  BY DEF LinkInit, LoadsInOrder, RelocatesInOrder, SetUpCode
<1>3. InOrder /\ Settled
  BY DEF LinkInit, InOrder, Settled
<1>4. CellsRight /\ StubsRight /\ GivenRight
  BY LinkerAssumption DEF LinkInit, CellsRight, StubsRight, GivenRight, NothingBound
<1>5. QED
  BY <1>1, <1>2, <1>3, <1>4 DEF LinkInv

\* A step that changes the phase only.
LEMMA PhaseOnly ==
    ASSUME LinkInv, UNCHANGED <<image, cell, bindings, given>>,
           phase' \in {"idle", "load", "relocate", "construct", "boot", "serve"},
           pos' \in Nat \ {0}, phase = "relocate" => phase' = "relocate",
           LoadsInOrder', RelocatesInOrder'
    PROVE  LinkInv'
<1>1. LinkTypeOK' /\ GivenRight'
  BY DEF LinkInv, LinkTypeOK, GivenRight, Foremost
<1>2. /\ \A s \in LinkSymbols : Undefined(s)' <=> Undefined(s)
      /\ AllLoaded' <=> AllLoaded
      /\ \A i \in DOMAIN image, s \in LinkSymbols :
            (Undefined(s) => bindings[s] # Unbound) => Resolution(i, s)' = Resolution(i, s)
  BY SameImages DEF LinkInv
<1>3. InOrder' /\ Settled'
  BY DEF LinkInv, InOrder, Settled, Complete, Foremost
<1>4. StubsRight'
  BY <1>2 DEF LinkInv, StubsRight, Imported, KindOf, FirstImporter
<1>5. CellsRight'
  BY <1>2 DEF LinkInv, CellsRight
<1>6. QED
  BY <1>1, <1>3, <1>4, <1>5 DEF LinkInv

\* The image added is the next file's; what is bound already, from an earlier
\* setup, stays right because that setup had loaded every file.
LEMMA LoadKeeps == LinkInv /\ LoadImage => LinkInv'
<1> SUFFICES ASSUME LinkInv, LoadImage PROVE LinkInv'
  OBVIOUS
<1> DEFINE f == LoadOrder[pos]
<1>1. /\ phase = "load"
      /\ image' = Append(image, f) /\ cell' = Append(cell, NothingBound)
      /\ bindings' = bindings /\ given' = given
      /\ \/ pos < Len(LoadOrder) /\ pos' = pos + 1 /\ phase' = "load"
         \/ ~(pos < Len(LoadOrder)) /\ pos' = 1 /\ phase' = "relocate"
  BY DEF LoadImage, Advance
<1>2. /\ LoadOrder \in Seq(LibFiles) /\ Len(LoadOrder) \in Nat /\ pos \in 1 .. Len(LoadOrder)
      /\ DOMAIN LoadOrder = 1 .. Len(LoadOrder)
      /\ f \in LibFiles
      /\ \A k \in 1 .. (pos - 1) : \E i \in DOMAIN image : image[i] = LoadOrder[k]
  BY <1>1, LinkerAssumption DEF LinkInv, LoadsInOrder, LibFiles
<1>3. LinkTypeOK
  BY DEF LinkInv
<1> HIDE DEF f
<1>4. /\ image \in Seq(LibFiles) /\ Len(image) \in Nat /\ Len(cell) = Len(image)
      /\ DOMAIN image = 1 .. Len(image) /\ DOMAIN image' = 1 .. (Len(image) + 1)
      /\ DOMAIN cell = 1 .. Len(image)
      /\ \A i \in DOMAIN image : image'[i] = image[i] /\ cell'[i] = cell[i]
      /\ image'[Len(image) + 1] = f /\ cell'[Len(image) + 1] = NothingBound
  BY <1>1, <1>2, <1>3 DEF LinkTypeOK
<1>5. LinkTypeOK'
  <2>1. NothingBound \in [LinkSymbols -> Nat \cup {Unbound, CodeStub, DataDummy}]
    BY DEF NothingBound
  <2>2. /\ image' \in Seq(LibFiles)
        /\ cell' \in Seq([LinkSymbols -> Nat \cup {Unbound, CodeStub, DataDummy}])
        /\ Len(cell') = Len(image')
    BY <1>1, <1>2, <1>3, <2>1 DEF LinkTypeOK
  <2>3. pos' \in Nat \ {0}
    BY <1>1, <1>2
  <2>4. QED
    BY <1>1, <1>3, <2>2, <2>3 DEF LinkTypeOK
<1>6. \A k \in 1 .. pos : \E i \in DOMAIN image' : image'[i] = LoadOrder[k]
  <2> SUFFICES ASSUME NEW k \in 1 .. pos
               PROVE  \E i \in DOMAIN image' : image'[i] = LoadOrder[k]
    OBVIOUS
  <2>1. CASE k = pos
    BY <1>4, <2>1 DEF f
  <2>2. CASE k # pos
    BY <1>2, <1>4, <2>2
  <2>3. QED
    BY <2>1, <2>2
<1>7. LoadsInOrder'
  <2>1. CASE pos < Len(LoadOrder) /\ pos' = pos + 1 /\ phase' = "load"
    <3>1. pos' \in DOMAIN LoadOrder /\ 1 .. (pos' - 1) = 1 .. pos
      BY <1>2, <2>1
    <3>2. QED
      BY <1>6, <2>1, <3>1 DEF LoadsInOrder
  <2>2. CASE phase' = "relocate"
    BY <2>2 DEF LoadsInOrder
  <2>3. QED
    BY <1>1, <2>1, <2>2
<1>8. RelocatesInOrder'
  <2>1. CASE phase' = "load"
    BY <2>1 DEF RelocatesInOrder, SetUpCode
  <2>2. CASE pos' = 1 /\ phase' = "relocate" /\ ~(pos < Len(LoadOrder))
    <3>1. AllLoaded'
      BY <1>2, <1>6, <2>2 DEF AllLoaded, LibFiles
    <3>2. QED
      BY <1>4, <2>2, <3>1 DEF RelocatesInOrder, SetUpCode
  <2>3. QED
    BY <1>1, <2>1, <2>2
<1>9. CellsRight'
  <2> SUFFICES ASSUME NEW i \in DOMAIN image', NEW s \in LinkSymbols, cell'[i][s] # Unbound
               PROVE  /\ AllLoaded' /\ s \in Imports[image'[i]]
                      /\ cell'[i][s] = Resolution(i, s)'
                      /\ Undefined(s)' => bindings'[s] # Unbound
    BY DEF CellsRight
  <2>1. i \in DOMAIN image /\ image'[i] = image[i] /\ cell'[i] = cell[i]
    BY <1>4 DEF NothingBound
  <2>2. /\ AllLoaded /\ s \in Imports[image[i]]
        /\ cell[i][s] = Resolution(i, s)
        /\ Undefined(s) => bindings[s] # Unbound
    BY <2>1 DEF LinkInv, CellsRight
  <2>3. /\ AllLoaded'
        /\ Undefined(s)' <=> Undefined(s)
        /\ Resolution(i, s)' = Resolution(i, s)
    BY <1>1, <1>2, <1>3, <2>1, <2>2, LoadedAgain
  <2>4. QED
    BY <1>1, <2>1, <2>2, <2>3
<1>10. StubsRight'
  <2> SUFFICES ASSUME NEW s \in LinkSymbols, bindings'[s] # Unbound
               PROVE  /\ AllLoaded'
                      /\ Undefined(s)' /\ Imported(s) =>
                            bindings'[s] = KindOf(FirstImporter(s), s)
    BY DEF StubsRight, Imported, KindOf, FirstImporter
  <2>1. /\ AllLoaded
        /\ Undefined(s) /\ Imported(s) => bindings[s] = KindOf(FirstImporter(s), s)
    BY <1>1 DEF LinkInv, StubsRight
  <2>2. QED
    BY <1>1, <1>2, <1>3, <2>1, LoadedAgain
<1>11. GivenRight'
  BY <1>1, <1>4 DEF LinkInv, GivenRight, Foremost
<1>12. InOrder'
  <2> SUFFICES ASSUME NEW i \in DOMAIN image'
               PROVE  \E k \in DOMAIN LoadOrder :
                         /\ image'[i] = LoadOrder[k]
                         /\ \A l \in 1 .. (k - 1) :
                               \E j \in 1 .. (i - 1) : image'[j] = LoadOrder[l]
    BY DEF InOrder
  <2>1. CASE i \in DOMAIN image
    <3>1. PICK k \in DOMAIN LoadOrder :
             /\ image[i] = LoadOrder[k]
             /\ \A l \in 1 .. (k - 1) : \E j \in 1 .. (i - 1) : image[j] = LoadOrder[l]
      BY <2>1 DEF LinkInv, InOrder
    <3>2. 1 .. (i - 1) \subseteq DOMAIN image
      BY <1>4, <2>1
    <3>3. QED
      BY <1>4, <2>1, <3>1, <3>2
  <2>2. CASE i = Len(image) + 1
    <3>1. 1 .. (i - 1) = DOMAIN image /\ image'[i] = LoadOrder[pos]
      BY <1>4, <2>2 DEF f
    <3>2. \A l \in 1 .. (pos - 1) : \E j \in 1 .. (i - 1) : image'[j] = LoadOrder[l]
      BY <1>2, <1>4, <3>1
    <3>3. QED
      BY <1>2, <3>1, <3>2
  <2>3. QED
    BY <1>4, <2>1, <2>2
<1>13. Settled'
  <2> SUFFICES ASSUME NEW i \in DOMAIN image'
               PROVE  /\ Complete(i)' \/ cell'[i] = NothingBound
                      /\ cell'[i] # NothingBound =>
                            \A j \in DOMAIN image' : Foremost(j)' => Complete(j)'
    BY DEF Settled, NothingBound
  <2>1. CASE i = Len(image) + 1
    BY <1>4, <2>1
  <2>2. CASE i \in DOMAIN image
    <3>1. /\ Complete(i) \/ cell[i] = NothingBound
          /\ cell[i] # NothingBound => \A j \in DOMAIN image : Foremost(j) => Complete(j)
      BY <1>1, <2>2 DEF LinkInv, Settled
    <3>2. \A j \in DOMAIN image : Complete(j)' <=> Complete(j)
      BY <1>4 DEF Complete
    <3>3. ASSUME cell[i] # NothingBound, NEW j \in DOMAIN image', Foremost(j)'
          PROVE  Complete(j)'
      <4>1. cell[i] \in [LinkSymbols -> Nat \cup {Unbound, CodeStub, DataDummy}]
        BY <1>3, <1>4, <2>2 DEF LinkTypeOK
      <4>2. \E s \in LinkSymbols : cell[i][s] # Unbound
        BY <3>3, <4>1 DEF NothingBound
      <4>3. PICK o \in DOMAIN image : image[o] = f
        BY <1>2, <2>2, <4>2 DEF LinkInv, CellsRight, AllLoaded
      <4>4. j \in DOMAIN image
        <5>1. \A l \in DOMAIN image' : image'[l] = image'[j] => j <= l
          BY <3>3 DEF Foremost
        <5>2. o \in DOMAIN image' /\ image'[o] = f /\ o < Len(image) + 1
          BY <1>4, <4>3
        <5>3. QED
          BY <1>4, <5>1, <5>2
      <4>5. Foremost(j)
        BY <1>4, <3>3, <4>4 DEF Foremost
      <4>6. QED
        BY <3>1, <3>2, <3>3, <4>4, <4>5
    <3>4. QED
      BY <1>4, <2>2, <3>1, <3>2, <3>3
  <2>3. QED
    BY <1>4, <2>1, <2>2
<1>14. QED
  BY <1>5, <1>7, <1>8, <1>9, <1>10, <1>11, <1>12, <1>13 DEF LinkInv

\* The first file to import a name comes no later than any other that does.
LEMMA FirstImporterIs ==
    ASSUME NEW s, NEW k \in DOMAIN LoadOrder, s \in Imports[LoadOrder[k]]
    PROVE  \E m \in 1 .. k :
              FirstImporter(s) = LoadOrder[m] /\ s \in Imports[LoadOrder[m]]
<1> DEFINE Importing == {l \in DOMAIN LoadOrder : s \in Imports[LoadOrder[l]]}
           P(l) == /\ s \in Imports[LoadOrder[l]]
                   /\ \A j \in 1 .. (l - 1) : s \notin Imports[LoadOrder[j]]
           m == CHOOSE l \in DOMAIN LoadOrder : P(l)
<1>1. DOMAIN LoadOrder = 1 .. Len(LoadOrder) /\ Len(LoadOrder) \in Nat
  BY LinkerAssumption
<1>2. Importing \in SUBSET Nat /\ k \in Importing
  BY <1>1
<1>3. \E l \in Importing : \A j \in Importing : l <= j
  BY <1>2, LeastNat
<1>4. \E l \in DOMAIN LoadOrder : P(l)
  BY <1>1, <1>3
<1>5. m \in DOMAIN LoadOrder /\ P(m)
  BY <1>4
<1>6. FirstImporter(s) = LoadOrder[m]
  BY DEF FirstImporter
<1> HIDE DEF m
<1>7. m <= k
  BY <1>1, <1>5
<1>8. QED
  BY <1>1, <1>5, <1>6, <1>7

\* Relocating an image binds its cells to what they lead to, and the symbols
\* that nothing defines.
LEMMA RelocateBinds ==
    ASSUME LinkInv, RelocateImage
    PROVE  /\ pos \in DOMAIN image /\ image' = image /\ AllLoaded
           /\ \A i \in DOMAIN image, s \in LinkSymbols :
                 cell'[i][s] = IF i = pos /\ s \in Imports[image[pos]]
                               THEN Resolution(pos, s) ELSE cell[i][s]
           /\ \A s \in LinkSymbols :
                 bindings'[s] = IF s \in Imports[image[pos]] /\ Undefined(s)
                                THEN Placeholder(s, KindOf(image[pos], s)) ELSE bindings[s]
           /\ \A s \in LinkSymbols : bindings[s] # Unbound => bindings'[s] = bindings[s]
           /\ LinkTypeOK'
<1>1. /\ phase = "relocate" /\ image' = image /\ given' = given
      /\ cell' = [cell EXCEPT ![pos] = [s \in LinkSymbols |->
                    IF s \in Imports[image[pos]] THEN Resolution(pos, s) ELSE @[s]]]
      /\ bindings' = [s \in LinkSymbols |->
                    IF s \in Imports[image[pos]] /\ Undefined(s)
                    THEN Placeholder(s, KindOf(image[pos], s)) ELSE bindings[s]]
      /\ \/ pos' = pos + 1 /\ phase' = phase
         \/ pos' = 1 /\ phase' = "construct"
  BY DEF RelocateImage, Advance
<1>2. LinkTypeOK /\ pos \in DOMAIN image /\ AllLoaded
  BY <1>1 DEF LinkInv, RelocatesInOrder
<1>3. /\ Len(cell) = Len(image) /\ Len(image) \in Nat /\ DOMAIN cell = DOMAIN image
      /\ DOMAIN image = 1 .. Len(image)
      /\ cell \in Seq([LinkSymbols -> Nat \cup {Unbound, CodeStub, DataDummy}])
  BY <1>2 DEF LinkTypeOK
<1>4. \A i \in DOMAIN image, s \in LinkSymbols :
         cell'[i][s] = IF i = pos /\ s \in Imports[image[pos]]
                       THEN Resolution(pos, s) ELSE cell[i][s]
  BY <1>1, <1>2, <1>3
<1>5. \A s \in LinkSymbols :
         /\ Placeholder(s, KindOf(image[pos], s)) \in {CodeStub, DataDummy}
         /\ bindings[s] # Unbound => Placeholder(s, KindOf(image[pos], s)) = bindings[s]
  BY <1>2, PlaceholderIs DEF KindOf, Placeholder
<1>6. /\ \A s \in LinkSymbols : bindings[s] # Unbound => bindings'[s] = bindings[s]
      /\ bindings' \in [LinkSymbols -> {Unbound, CodeStub, DataDummy}]
  <2>1. bindings' = [s \in LinkSymbols |->
                      IF s \in Imports[image[pos]] /\ Undefined(s)
                      THEN Placeholder(s, KindOf(image[pos], s)) ELSE bindings[s]]
    BY <1>1
  <2>2. bindings \in [LinkSymbols -> {Unbound, CodeStub, DataDummy}]
    BY <1>2 DEF LinkTypeOK
  <2>3. QED
    BY <1>5, <2>1, <2>2
<1>7. LinkTypeOK'
  <2> DEFINE Cells == Nat \cup {Unbound, CodeStub, DataDummy}
             row == [s \in LinkSymbols |->
                       IF s \in Imports[image[pos]] THEN Resolution(pos, s) ELSE cell[pos][s]]
  <2>1. \A s \in LinkSymbols : Resolution(pos, s) \in Cells
    BY <1>2, ResolutionIs
  <2>2. cell[pos] \in [LinkSymbols -> Cells]
    BY <1>2, <1>3
  <2>3. row \in [LinkSymbols -> Cells]
    BY <2>1, <2>2
  <2>4. cell' = [cell EXCEPT ![pos] = row]
    BY <1>1
  <2> HIDE DEF row, Cells
  <2>5. cell' \in Seq([LinkSymbols -> Cells]) /\ Len(cell') = Len(cell)
    BY <1>2, <1>3, <2>3, <2>4 DEF Cells
  <2>6. pos' \in Nat \ {0} /\ phase' \in {"relocate", "construct"}
    BY <1>1, <1>2 DEF LinkTypeOK
  <2>7. QED
    BY <1>1, <1>2, <1>3, <1>6, <2>5, <2>6 DEF LinkTypeOK, Cells
<1>8. QED
  BY <1>1, <1>2, <1>4, <1>6, <1>7

LEMMA RelocateKeeps == LinkInv /\ RelocateImage => LinkInv'
<1> SUFFICES ASSUME LinkInv, RelocateImage PROVE LinkInv'
  OBVIOUS
<1>1. /\ pos \in DOMAIN image /\ image' = image /\ AllLoaded
      /\ \A i \in DOMAIN image, s \in LinkSymbols :
            cell'[i][s] = IF i = pos /\ s \in Imports[image[pos]]
                          THEN Resolution(pos, s) ELSE cell[i][s]
      /\ \A s \in LinkSymbols :
            bindings'[s] = IF s \in Imports[image[pos]] /\ Undefined(s)
                           THEN Placeholder(s, KindOf(image[pos], s)) ELSE bindings[s]
      /\ \A s \in LinkSymbols : bindings[s] # Unbound => bindings'[s] = bindings[s]
      /\ LinkTypeOK'
  BY RelocateBinds
<1>2. /\ phase = "relocate" /\ given' = given
      /\ \/ pos < Len(image) /\ pos' = pos + 1 /\ phase' = phase
         \/ ~(pos < Len(image)) /\ pos' = 1 /\ phase' = "construct"
      /\ \A i \in 1 .. (pos - 1) : Complete(i)
  BY DEF RelocateImage, Advance, LinkInv, RelocatesInOrder
<1>3. LinkTypeOK /\ Len(image) \in Nat /\ DOMAIN image = 1 .. Len(image)
  BY DEF LinkInv, LinkTypeOK
<1>4. \A i \in DOMAIN image : Imports[image[i]] \subseteq LinkSymbols
  BY <1>3, LinkerAssumption DEF LinkTypeOK
<1>5. /\ \A s \in LinkSymbols : Undefined(s)' <=> Undefined(s)
      /\ AllLoaded'
      /\ \A i \in DOMAIN image, s \in LinkSymbols :
            (Undefined(s) => bindings[s] # Unbound) => Resolution(i, s)' = Resolution(i, s)
  BY <1>1, <1>3, SameImages
<1>6. \A i \in 1 .. pos : Complete(i)'
  <2> SUFFICES ASSUME NEW i \in 1 .. pos, NEW s \in Imports[image[i]]
               PROVE  cell'[i][s] # Unbound
    BY <1>1 DEF Complete
  <2>1. i \in DOMAIN image /\ s \in LinkSymbols
    BY <1>1, <1>3, <1>4
  <2>2. CASE i = pos
    BY <1>1, <1>3, <2>1, <2>2, ResolutionIs
  <2>3. CASE i # pos
    BY <1>1, <1>2, <1>3, <2>1, <2>3 DEF Complete
  <2>4. QED
    BY <2>2, <2>3
<1>7. RelocatesInOrder'
  <2>1. CASE pos < Len(image) /\ pos' = pos + 1 /\ phase' = phase
    BY <1>1, <1>2, <1>3, <1>5, <1>6, <2>1 DEF RelocatesInOrder, SetUpCode
  <2>2. CASE ~(pos < Len(image)) /\ pos' = 1 /\ phase' = "construct"
    <3>1. 1 .. pos = DOMAIN image'
      BY <1>1, <1>3, <2>2
    <3>2. QED
      BY <1>5, <1>6, <2>2, <3>1 DEF RelocatesInOrder, SetUpCode
  <2>3. QED
    BY <1>2, <2>1, <2>2
<1>8. LoadsInOrder'
  BY <1>2 DEF LoadsInOrder
<1>9. CellsRight'
  <2> SUFFICES ASSUME NEW i \in DOMAIN image, NEW s \in LinkSymbols, cell'[i][s] # Unbound
               PROVE  /\ AllLoaded' /\ s \in Imports[image'[i]]
                      /\ cell'[i][s] = Resolution(i, s)'
                      /\ Undefined(s)' => bindings'[s] # Unbound
    BY <1>1 DEF CellsRight
  <2>1. CASE i = pos /\ s \in Imports[image[pos]]
    <3>1. cell'[i][s] = Resolution(i, s)
      BY <1>1, <2>1
    <3>2. Undefined(s) => bindings'[s] = Placeholder(s, KindOf(image[pos], s)) /\ bindings'[s] # Unbound
      BY <1>1, <1>3, <2>1, PlaceholderIs DEF KindOf
    <3>3. ASSUME Undefined(s) PROVE Resolution(i, s)' = bindings'[s]
      <4>1. Defining(s)' = {} /\ Defining(Plain[s])' = {}
        BY <1>1, <3>3 DEF Undefined, Defining
      <4>2. s \notin Defines[image'[i]]
        BY <1>1, <3>3 DEF Undefined, Defining
      <4>3. QED
        BY <3>2, <3>3, <4>1, <4>2 DEF Resolution, Placeholder
    <3>4. Undefined(s) => Resolution(i, s) = Placeholder(s, KindOf(image[pos], s))
      BY <1>3, <2>1, ResolutionIs
    <3>5. Resolution(i, s)' = Resolution(i, s)
      BY <1>5, <3>2, <3>3, <3>4
    <3>6. QED
      BY <1>1, <1>5, <2>1, <3>1, <3>2, <3>5
  <2>2. CASE ~(i = pos /\ s \in Imports[image[pos]])
    <3>1. cell'[i][s] = cell[i][s]
      BY <1>1, <2>2
    <3>2. /\ s \in Imports[image[i]] /\ cell[i][s] = Resolution(i, s)
          /\ Undefined(s) => bindings[s] # Unbound
      BY <3>1 DEF LinkInv, CellsRight
    <3>3. Resolution(i, s)' = Resolution(i, s)
      BY <1>5, <3>2
    <3>4. QED
      BY <1>1, <1>5, <3>1, <3>2, <3>3
  <2>3. QED
    BY <2>1, <2>2
<1>10. StubsRight'
  <2> SUFFICES ASSUME NEW s \in LinkSymbols, bindings'[s] # Unbound,
                      Undefined(s), Imported(s)
               PROVE  bindings'[s] = KindOf(FirstImporter(s), s)
    BY <1>5 DEF StubsRight, Imported, KindOf, FirstImporter
  <2>1. CASE bindings[s] # Unbound
    BY <1>1, <2>1 DEF LinkInv, StubsRight
  <2>2. CASE bindings[s] = Unbound
    <3>1. s \in Imports[image[pos]] /\ bindings'[s] = KindOf(image[pos], s)
      BY <1>1, <2>2 DEF Placeholder
    <3>2. PICK k \in DOMAIN LoadOrder :
             /\ image[pos] = LoadOrder[k]
             /\ \A l \in 1 .. (k - 1) : \E j \in 1 .. (pos - 1) : image[j] = LoadOrder[l]
      BY <1>1 DEF LinkInv, InOrder
    <3>3. k \in Nat \ {0}
      BY LinkerAssumption
    <3>4. PICK m \in 1 .. k :
             FirstImporter(s) = LoadOrder[m] /\ s \in Imports[LoadOrder[m]]
      BY <3>1, <3>2, FirstImporterIs
    <3>5. CASE m = k
      BY <3>1, <3>2, <3>4, <3>5
    <3>6. CASE m # k
      <4>1. m \in 1 .. (k - 1)
        BY <3>3, <3>4, <3>6
      <4>2. PICK j \in 1 .. (pos - 1) : image[j] = LoadOrder[m]
        BY <3>2, <4>1
      <4>3. j \in DOMAIN image /\ cell[j][s] # Unbound
        BY <1>1, <1>2, <1>3, <3>4, <4>2 DEF Complete
      <4>4. bindings[s] # Unbound
        BY <4>3 DEF LinkInv, CellsRight
      <4>5. QED
        BY <2>2, <4>4
    <3>7. QED
      BY <3>5, <3>6
  <2>3. QED
    BY <2>1, <2>2
<1>11. GivenRight'
  BY <1>1, <1>2 DEF LinkInv, GivenRight, Foremost
<1>12. InOrder'
  BY <1>1 DEF LinkInv, InOrder
<1>13. Settled'
  <2> SUFFICES ASSUME phase' # "relocate" PROVE \A i \in DOMAIN image' : Complete(i)'
    BY DEF Settled
  <2>1. 1 .. pos = DOMAIN image'
    BY <1>1, <1>2, <1>3
  <2>2. QED
    BY <1>6, <2>1
<1>14. QED
  BY <1>1, <1>7, <1>8, <1>9, <1>10, <1>11, <1>12, <1>13 DEF LinkInv

\* Where guest code reaches the hooks, every file has an image that is relocated.
LEMMA LinkedOnes ==
    ASSUME LinkInv, HooksReached
    PROVE  /\ AllLoaded
           /\ \A f \in LibFiles : \E i \in DOMAIN image : image[i] = f /\ Complete(i)
<1>1. CASE SetUpCode
  <2>1. AllLoaded /\ \A i \in DOMAIN image : Complete(i)
    BY <1>1 DEF LinkInv, RelocatesInOrder
  <2>2. QED
    BY <2>1 DEF AllLoaded
<1>2. CASE CancelCode /\ \E i \in DOMAIN image : cell[i] # NothingBound
  <2>1. PICK b \in DOMAIN image : cell[b] # NothingBound
    BY <1>2
  <2>2. cell[b] \in [LinkSymbols -> Nat \cup {Unbound, CodeStub, DataDummy}]
    BY DEF LinkInv, LinkTypeOK
  <2>3. \E s \in LinkSymbols : cell[b][s] # Unbound
    BY <2>1, <2>2 DEF NothingBound
  <2>4. AllLoaded
    BY <2>3 DEF LinkInv, CellsRight
  <2>5. \A j \in DOMAIN image : Foremost(j) => Complete(j)
    BY <1>2, <2>1 DEF LinkInv, Settled, CancelCode
  <2>6. ASSUME NEW f \in LibFiles
        PROVE  \E i \in DOMAIN image : image[i] = f /\ Complete(i)
    <3> DEFINE Copies == {i \in DOMAIN image : image[i] = f}
    <3>1. Copies \in SUBSET Nat /\ Copies # {}
      BY <2>4 DEF AllLoaded, LinkInv, LinkTypeOK
    <3>2. PICK i \in Copies : \A j \in Copies : i <= j
      BY <3>1, LeastNat
    <3>3. Foremost(i)
      BY <3>2 DEF Foremost
    <3>4. QED
      BY <2>5, <3>2, <3>3
  <2>7. QED
    BY <2>4, <2>6
<1>3. QED
  BY <1>1, <1>2 DEF HooksReached

\* What is found by name is the foremost image.
LEMMA FindKeeps ==
    ASSUME LinkInv, NEW s \in LinkSymbols, Defining(s) # {},
           given' = [given EXCEPT ![s] = First(s)],
           UNCHANGED <<phase, pos, image, cell, bindings>>
    PROVE  LinkInv'
<1>1. LinkTypeOK
  BY DEF LinkInv
<1>2. First(s) \in Nat /\ Foremost(First(s))
  BY <1>1, FirstDefines
<1>3. LinkTypeOK' /\ GivenRight'
  BY <1>1, <1>2 DEF LinkInv, LinkTypeOK, GivenRight, Foremost
<1>4. /\ \A u \in LinkSymbols : Undefined(u)' <=> Undefined(u)
      /\ AllLoaded' <=> AllLoaded
      /\ \A i \in DOMAIN image, u \in LinkSymbols :
            (Undefined(u) => bindings[u] # Unbound) => Resolution(i, u)' = Resolution(i, u)
  BY <1>1, SameImages
<1>5. LoadsInOrder' /\ RelocatesInOrder' /\ InOrder' /\ Settled'
  BY <1>4 DEF LinkInv, LoadsInOrder, RelocatesInOrder, SetUpCode, InOrder, Settled,
              Complete, Foremost
<1>6. CellsRight'
  BY <1>4 DEF LinkInv, CellsRight
<1>7. StubsRight'
  BY <1>4 DEF LinkInv, StubsRight, Imported, KindOf, FirstImporter
<1>8. QED
  BY <1>3, <1>5, <1>6, <1>7 DEF LinkInv

\* A look-up by dlsym may bind a stub, but where the hook can be reached every
\* imported symbol that needs a placeholder has it already.
LEMMA LookUpKeeps ==
    ASSUME LinkInv, NEW s \in LinkSymbols, LookUp(s)
    PROVE  LinkInv'
<1>1. /\ HooksReached /\ UNCHANGED <<phase, pos, image, cell>> /\ LinkTypeOK /\ AllLoaded
  BY LinkedOnes DEF LookUp, LinkInv
<1>2. /\ Placeholder(s, CodeStub) \in {CodeStub, DataDummy}
      /\ Placeholder(s, CodeStub) \notin Nat
      /\ bindings[s] # Unbound => Placeholder(s, CodeStub) = bindings[s]
  BY <1>1, PlaceholderIs DEF Placeholder
<1>3. CASE /\ Defining(s) # {} /\ given' = [given EXCEPT ![s] = First(s)]
           /\ UNCHANGED bindings
  BY <1>1, <1>3, FindKeeps
<1>4. CASE /\ Defining(s) = {}
           /\ given' = [given EXCEPT ![s] = Placeholder(s, CodeStub)]
           /\ bindings' = [bindings EXCEPT ![s] = Placeholder(s, CodeStub)]
  <2>1. \A u \in LinkSymbols : bindings[u] # Unbound => bindings'[u] = bindings[u]
    BY <1>1, <1>2, <1>4 DEF LinkTypeOK
  <2>2. LinkTypeOK' /\ GivenRight'
    BY <1>1, <1>2, <1>4 DEF LinkInv, LinkTypeOK, GivenRight, Foremost
  <2>3. /\ \A u \in LinkSymbols : Undefined(u)' <=> Undefined(u)
        /\ AllLoaded'
        /\ \A i \in DOMAIN image, u \in LinkSymbols :
              (Undefined(u) => bindings[u] # Unbound) => Resolution(i, u)' = Resolution(i, u)
    BY <1>1, <2>1, SameImages
  <2>4. LoadsInOrder' /\ RelocatesInOrder' /\ InOrder' /\ Settled'
    BY <1>1, <2>3 DEF LinkInv, LoadsInOrder, RelocatesInOrder, SetUpCode, InOrder, Settled,
                      Complete, Foremost
  <2>5. CellsRight'
    <3> SUFFICES ASSUME NEW i \in DOMAIN image, NEW u \in LinkSymbols, cell[i][u] # Unbound
                 PROVE  /\ AllLoaded' /\ u \in Imports[image[i]]
                        /\ cell[i][u] = Resolution(i, u)'
                        /\ Undefined(u)' => bindings'[u] # Unbound
      BY <1>1 DEF CellsRight
    <3>1. /\ u \in Imports[image[i]] /\ cell[i][u] = Resolution(i, u)
          /\ Undefined(u) => bindings[u] # Unbound
      BY DEF LinkInv, CellsRight
    <3>2. QED
      BY <2>1, <2>3, <3>1
  <2>6. StubsRight'
    <3> SUFFICES ASSUME NEW u \in LinkSymbols, bindings'[u] # Unbound,
                        Undefined(u), Imported(u)
                 PROVE  bindings'[u] = KindOf(FirstImporter(u), u)
      BY <2>3 DEF StubsRight, Imported, KindOf, FirstImporter
    <3>1. PICK k \in DOMAIN LoadOrder : u \in Imports[LoadOrder[k]]
      BY DEF Imported
    <3>2. PICK i \in DOMAIN image : image[i] = LoadOrder[k] /\ Complete(i)
      BY <1>1, LinkedOnes DEF LibFiles
    <3>3. cell[i][u] # Unbound
      BY <3>1, <3>2 DEF Complete
    <3>4. bindings[u] # Unbound
      BY <3>3 DEF LinkInv, CellsRight
    <3>5. QED
      BY <2>1, <3>4 DEF LinkInv, StubsRight
  <2>7. QED
    BY <2>2, <2>4, <2>5, <2>6 DEF LinkInv
<1>5. QED
  BY <1>3, <1>4 DEF LookUp

LEMMA LinkInvNext == LinkInv /\ [LinkNext]_linkVars => LinkInv'
<1> SUFFICES ASSUME LinkInv, [LinkNext]_linkVars PROVE LinkInv'
  OBVIOUS
<1>1. /\ LinkTypeOK /\ LoadsInOrder /\ RelocatesInOrder
      /\ pos \in Nat \ {0}
      /\ phase \in {"idle", "load", "relocate", "construct", "boot", "serve"}
  BY DEF LinkInv, LinkTypeOK
<1>2. CASE BeginSetup
  <2>1. phase = "idle" /\ phase' = "load" /\ UNCHANGED <<pos, image, cell, bindings, given>>
    BY <1>2 DEF BeginSetup
  <2>2. 1 \in DOMAIN LoadOrder
    BY LinkerAssumption
  <2>3. LoadsInOrder' /\ RelocatesInOrder'
    BY <1>1, <2>1, <2>2 DEF LoadsInOrder, RelocatesInOrder, SetUpCode
  <2>4. QED
    BY <1>1, <2>1, <2>3, PhaseOnly
<1>3. CASE LoadImage
  BY <1>3, LoadKeeps
<1>4. CASE RelocateImage
  BY <1>4, RelocateKeeps
<1>5. CASE Construct
  <2>1. /\ phase = "construct" /\ phase' \in {"construct", "boot"}
        /\ pos' \in Nat \ {0} /\ UNCHANGED <<image, cell, bindings, given>>
    BY <1>1, <1>5 DEF Construct, Advance
  <2>2. LoadsInOrder' /\ RelocatesInOrder'
    BY <1>1, <2>1 DEF LoadsInOrder, RelocatesInOrder, SetUpCode, AllLoaded, Complete
  <2>3. QED
    BY <2>1, <2>2, PhaseOnly
<1>6. CASE Started
  <2>1. phase = "boot" /\ phase' = "serve" /\ UNCHANGED <<pos, image, cell, bindings, given>>
    BY <1>6 DEF Started
  <2>2. LoadsInOrder' /\ RelocatesInOrder'
    BY <1>1, <2>1 DEF LoadsInOrder, RelocatesInOrder, SetUpCode, AllLoaded, Complete
  <2>3. QED
    BY <1>1, <2>1, <2>2, PhaseOnly
<1>7. CASE SetupGivesUp
  <2>1. /\ phase \in {"load", "boot"} /\ phase' = "idle" /\ pos' = 1
        /\ UNCHANGED <<image, cell, bindings, given>>
    BY <1>7 DEF SetupGivesUp
  <2>2. LoadsInOrder' /\ RelocatesInOrder'
    BY <2>1 DEF LoadsInOrder, RelocatesInOrder, SetUpCode
  <2>3. QED
    BY <2>1, <2>2, PhaseOnly
<1>8. CASE RegionFull
  <2>1. /\ phase' = "idle" /\ pos' = 1 /\ image' = <<>> /\ cell' = <<>>
        /\ bindings' = NothingBound /\ given' = NothingBound
    BY <1>8 DEF RegionFull
  <2>2. LinkTypeOK'
    BY <2>1 DEF LinkTypeOK, NothingBound
  <2>3. LoadsInOrder' /\ RelocatesInOrder' /\ InOrder' /\ Settled'
    BY <2>1 DEF LoadsInOrder, RelocatesInOrder, SetUpCode, InOrder, Settled
  <2>4. CellsRight' /\ StubsRight' /\ GivenRight'
    BY <2>1, LinkerAssumption DEF CellsRight, StubsRight, GivenRight, NothingBound
  <2>5. QED
    BY <2>2, <2>3, <2>4 DEF LinkInv
<1>9. ASSUME NEW s \in LinkSymbols, LookUp(s) PROVE LinkInv'
  BY <1>9, LookUpKeeps
<1>10. ASSUME NEW s \in LinkSymbols, FindByName(s) PROVE LinkInv'
  BY <1>10, FindKeeps DEF FindByName
<1>11. CASE UNCHANGED linkVars
  <2>1. UNCHANGED <<phase, pos, image, cell, bindings, given>>
    BY <1>11 DEF linkVars
  <2>2. LoadsInOrder' /\ RelocatesInOrder'
    BY <1>1, <2>1 DEF LoadsInOrder, RelocatesInOrder, SetUpCode, AllLoaded, Complete
  <2>3. QED
    BY <1>1, <2>1, <2>2, PhaseOnly
<1>12. QED
  BY <1>2, <1>3, <1>4, <1>5, <1>6, <1>7, <1>8, <1>9, <1>10, <1>11 DEF LinkNext

THEOREM LinkInvHolds == LinkSpec => []LinkInv
<1>1. QED
  BY LinkInvInit, LinkInvNext, PTL DEF LinkSpec

--------------------------------------------------------------------------------
\* However often the setup is tried again, calls reach one copy of each library.
THEOREM OneCopyIsUsed == LinkSpec => []OneCopyInUse
<1>1. LinkInv => OneCopyInUse
  <2> SUFFICES ASSUME LinkInv PROVE OneCopyInUse
    OBVIOUS
  <2>1. ASSUME NEW i \in DOMAIN image, NEW s \in LinkSymbols,
               Foremost(i), cell[i][s] \in Nat
        PROVE  Foremost(cell[i][s])
    <3>1. cell[i][s] # Unbound
      BY <2>1, LinkerAssumption
    <3>2. cell[i][s] = Resolution(i, s)
      BY <3>1 DEF LinkInv, CellsRight
    <3>3. Resolution(i, s) = i \/ Foremost(Resolution(i, s))
      BY <2>1, <3>2, ResolutionIs DEF LinkInv
    <3>4. QED
      BY <2>1, <3>2, <3>3 DEF Foremost
  <2>2. QED
    BY <2>1 DEF OneCopyInUse, LinkInv, GivenRight
<1>2. QED
  BY <1>1, LinkInvHolds, PTL

LEMMA CompleteIsLinked ==
    ASSUME LinkInv, NEW i \in DOMAIN image, Complete(i)
    PROVE  Linked(i)
<1> SUFFICES ASSUME NEW s \in Imports[image[i]]
             PROVE  /\ cell[i][s] # Unbound
                    /\ Defining(s) # {} => cell[i][s] \in Defining(s)
                    /\ Defining(s) = {} /\ ~Undefined(s) => cell[i][s] \in Defining(Plain[s])
  BY DEF Linked
<1>1. s \in LinkSymbols
  BY LinkerAssumption DEF LinkInv, LinkTypeOK
<1>2. cell[i][s] # Unbound
  BY DEF Complete
<1>3. cell[i][s] = Resolution(i, s)
  BY <1>1, <1>2 DEF LinkInv, CellsRight
<1>4. QED
  BY <1>1, <1>2, <1>3, ResolutionIs DEF LinkInv

\* Guest code that the setup runs finds every image linked.  The function a cancel
\* runs after a failed setup is in an image no relocation of which is done, or in
\* one that is linked and leads to none that is not.
THEOREM LinkingComesFirst == LinkSpec => []LinkedBeforeRun
<1>1. LinkInv => LinkedBeforeRun
  <2> SUFFICES ASSUME LinkInv PROVE LinkedBeforeRun
    OBVIOUS
  <2>1. ASSUME SetUpCode, NEW i \in DOMAIN image PROVE Linked(i)
    <3>1. Complete(i)
      BY <2>1 DEF LinkInv, RelocatesInOrder
    <3>2. QED
      BY <3>1, CompleteIsLinked
  <2>2. ASSUME CancelCode, NEW i \in DOMAIN image, cell[i] # NothingBound
        PROVE  /\ Linked(i)
               /\ \A s \in LinkSymbols : cell[i][s] \in Nat => Linked(cell[i][s])
    <3>1. /\ Complete(i)
          /\ \A j \in DOMAIN image : Foremost(j) => Complete(j)
      BY <2>2 DEF LinkInv, Settled, CancelCode
    <3>2. ASSUME NEW s \in LinkSymbols, cell[i][s] \in Nat PROVE Linked(cell[i][s])
      <4>1. cell[i][s] # Unbound
        BY <3>2, LinkerAssumption
      <4>2. cell[i][s] = Resolution(i, s)
        BY <4>1 DEF LinkInv, CellsRight
      <4>3. cell[i][s] = i \/ Foremost(cell[i][s])
        BY <3>2, <4>2, ResolutionIs DEF LinkInv
      <4>4. cell[i][s] \in DOMAIN image /\ Complete(cell[i][s])
        BY <3>1, <4>3 DEF Foremost
      <4>5. QED
        BY <4>4, CompleteIsLinked
    <3>3. QED
      BY <3>1, <3>2, CompleteIsLinked
  <2>3. QED
    BY <2>1, <2>2 DEF LinkedBeforeRun
<1>2. QED
  BY <1>1, LinkInvHolds, PTL

\* A placeholder is of the kind that the first file to import its name asks for.
THEOREM PlaceholderOfFirst == LinkSpec => []FirstImporterDecides
<1>1. LinkInv => FirstImporterDecides
  <2> SUFFICES ASSUME LinkInv, NEW i \in DOMAIN image, NEW s \in Imports[image[i]],
                      cell[i][s] \in {CodeStub, DataDummy}
               PROVE  cell[i][s] = KindOf(FirstImporter(s), s)
    BY DEF FirstImporterDecides
  <2> image[i] \in LibFiles
    BY DEF LinkInv, LinkTypeOK
  <2>1. s \in LinkSymbols /\ Imported(s)
    BY LinkerAssumption DEF LibFiles, Imported
  <2>2. cell[i][s] # Unbound /\ cell[i][s] \notin Nat
    BY LinkerAssumption
  <2>3. /\ cell[i][s] = Resolution(i, s)
        /\ Undefined(s) => bindings[s] # Unbound
    BY <2>1, <2>2 DEF LinkInv, CellsRight
  <2>4. Undefined(s)
    BY <2>1, <2>2, <2>3, ResolutionIs DEF LinkInv
  <2>5. Resolution(i, s) = bindings[s]
    BY <2>1, <2>3, <2>4, ResolutionIs DEF LinkInv, Placeholder
  <2>6. QED
    BY <2>1, <2>3, <2>4, <2>5 DEF LinkInv, StubsRight
<1>2. QED
  BY <1>1, LinkInvHolds, PTL

\* Relocating again moves no pointer of an image the guest may be using.
THEOREM CellsStayPut == LinkSpec => CellsStable
<1>1. LinkInv /\ [LinkNext]_linkVars =>
         [image' # <<>> => \A i \in DOMAIN image, s \in LinkSymbols :
             cell[i][s] # Unbound => cell'[i][s] = cell[i][s]]_linkVars
  <2> SUFFICES ASSUME LinkInv, LinkNext, image' # <<>>,
                      NEW i \in DOMAIN image, NEW s \in LinkSymbols, cell[i][s] # Unbound
               PROVE  cell'[i][s] = cell[i][s]
    OBVIOUS
  <2>1. CASE LoadImage
    <3>1. cell' = Append(cell, NothingBound)
      BY <2>1 DEF LoadImage
    <3>2. i \in 1 .. Len(cell)
      BY DEF LinkInv, LinkTypeOK
    <3>3. cell \in Seq([LinkSymbols -> Nat \cup {Unbound, CodeStub, DataDummy}])
      BY DEF LinkInv, LinkTypeOK
    <3>4. QED
      BY <3>1, <3>2, <3>3
  <2>2. CASE RelocateImage
    <3>1. cell[i][s] = Resolution(i, s)
      BY DEF LinkInv, CellsRight
    <3>2. QED
      BY <2>2, <3>1, RelocateBinds
  <2>3. CASE cell' = cell
    BY <2>3
  <2>4. QED
    BY <2>1, <2>2, <2>3
       DEF LinkNext, BeginSetup, Construct, Started, SetupGivesUp, RegionFull, LookUp, FindByName
<1>2. QED
  BY <1>1, LinkInvHolds, PTL DEF LinkSpec, CellsStable

--------------------------------------------------------------------------------
(***************************************************************************)
(* Files.  FilesInv is inductive: the hooks are the only ones to give a    *)
(* descriptor to the guest and to take it away, and the application only   *)
(* closes what it opened itself.                                           *)
(***************************************************************************)
LEMMA FilesInvInit == FilesInit => FilesInv
<1> SUFFICES ASSUME FilesInit PROVE FilesInv
  OBVIOUS
<1>1. FilesTypeOK
  <2>1. kernel \in [HostFds -> Paths \cup {NoPath}] /\ appFile = kernel
    BY DEF FilesInit
  <2>2. /\ fdMap \in [GuestFds -> HostFds \cup {NoFd}]
        /\ guestFile \in [GuestFds -> Paths \cup {NoPath}]
    BY DEF FilesInit
  <2>3. nextFd \in Nat /\ nextFd >= FirstFd
    BY FilesAssumption DEF FilesInit
  <2>4. inGuest \in BOOLEAN /\ guestErrno = 0 /\ hostErrno = 0
    BY DEF FilesInit
  <2>5. QED
    BY <2>1, <2>2, <2>3, <2>4 DEF FilesTypeOK
<1>2. DescriptorsMatch /\ NoneOrphaned
  BY DEF FilesInit, DescriptorsMatch, NoneOrphaned
<1>3. ErrnoOfThisCall
  BY DEF FilesInit, NoCall, ErrnoOfThisCall
<1>4. QED
  BY <1>1, <1>2, <1>3 DEF FilesInv

\* A step that leaves every descriptor where it is only has to account for errno.
LEMMA TablesKept ==
    ASSUME FilesInv, UNCHANGED tables,
           guestErrno' \in Errors \cup {0}, hostErrno' \in Errors \cup {0},
           inGuest' \in BOOLEAN, ErrnoOfThisCall'
    PROVE  FilesInv'
<1>1. FilesTypeOK'
  BY DEF FilesInv, FilesTypeOK, tables
<1>2. DescriptorsMatch' /\ NoneOrphaned'
  BY DEF FilesInv, DescriptorsMatch, NoneOrphaned, tables
<1>3. QED
  BY <1>1, <1>2 DEF FilesInv

\* open gives out a number that leads nowhere yet and a descriptor nobody has.
LEMMA OpenKeeps ==
    ASSUME FilesInv, NEW h \in HostFds, NEW p \in Paths, Open(h, p)
    PROVE  FilesInv'
<1> USE FilesAssumption DEF FilesInv, FilesTypeOK
<1>1. /\ inGuest /\ kernel[h] = NoPath /\ nextFd \in GuestFds
      /\ kernel' = [kernel EXCEPT ![h] = p]
      /\ fdMap' = [fdMap EXCEPT ![nextFd] = h]
      /\ guestFile' = [guestFile EXCEPT ![nextFd] = p]
      /\ nextFd' = nextFd + 1
      /\ guestErrno' = 0 /\ lastCall' = [op |-> "open", failed |-> FALSE, why |-> 0]
      /\ UNCHANGED <<appFile, hostErrno, inGuest>>
  BY DEF Open, FreeFds, Succeeds
<1>2. FilesTypeOK'
  BY <1>1 DEF GuestFds
<1>3. fdMap[nextFd] = NoFd /\ p # NoPath /\ h # NoFd /\ appFile[h] = NoPath
  BY <1>1 DEF DescriptorsMatch, GuestFds
<1>4. \A g \in GuestFds : fdMap[g] # h
  BY <1>1, <1>3 DEF DescriptorsMatch
<1>5. DescriptorsMatch'
  <2>1. ASSUME NEW g \in GuestFds, fdMap'[g] # NoFd
        PROVE  /\ g < nextFd'
               /\ guestFile'[g] # NoPath /\ kernel'[fdMap'[g]] = guestFile'[g]
               /\ appFile'[fdMap'[g]] = NoPath
               /\ \A k \in GuestFds : fdMap'[k] = fdMap'[g] => k = g
    <3>1. CASE g = nextFd
      BY <1>1, <1>3, <1>4, <2>1, <3>1 DEF GuestFds
    <3>2. CASE g # nextFd
      <4>1. fdMap'[g] = fdMap[g] /\ fdMap[g] # NoFd /\ guestFile'[g] = guestFile[g]
        BY <1>1, <2>1, <3>2
      <4>2. /\ g < nextFd /\ guestFile[g] # NoPath /\ kernel[fdMap[g]] = guestFile[g]
            /\ appFile[fdMap[g]] = NoPath
            /\ \A k \in GuestFds : fdMap[k] = fdMap[g] => k = g
        BY <4>1 DEF DescriptorsMatch
      <4>3. kernel'[fdMap'[g]] = guestFile'[g]
        BY <1>1, <1>4, <4>1, <4>2
      <4>4. \A k \in GuestFds : fdMap'[k] = fdMap'[g] => k = g
        BY <1>1, <1>4, <4>1, <4>2
      <4>5. QED
        BY <1>1, <4>1, <4>2, <4>3, <4>4 DEF GuestFds
    <3>3. QED
      BY <3>1, <3>2
  <2>2. \A k \in HostFds : appFile'[k] # NoPath => kernel'[k] = appFile'[k]
    BY <1>1, <1>3 DEF DescriptorsMatch
  <2>3. QED
    BY <2>1, <2>2 DEF DescriptorsMatch
<1>6. NoneOrphaned'
  <2> SUFFICES ASSUME NEW k \in HostFds, kernel'[k] # NoPath, appFile'[k] = NoPath
               PROVE  \E g \in GuestFds : fdMap'[g] = k
    BY DEF NoneOrphaned
  <2>1. CASE k = h
    BY <1>1, <2>1
  <2>2. CASE k # h
    <3>1. PICK g \in GuestFds : fdMap[g] = k
      BY <1>1, <2>2 DEF NoneOrphaned
    <3>2. fdMap'[g] = k
      BY <1>1, <1>3, <3>1
    <3>3. QED
      BY <3>2
  <2>3. QED
    BY <2>1, <2>2
<1>7. ErrnoOfThisCall'
  BY <1>1 DEF ErrnoOfThisCall
<1>8. QED
  BY <1>2, <1>5, <1>6, <1>7

\* close takes the number and its descriptor away together.
LEMMA CloseKeeps ==
    ASSUME FilesInv, NEW g \in GuestFds, Close(g)
    PROVE  FilesInv'
<1> USE FilesAssumption DEF FilesInv, FilesTypeOK
<1>1. /\ kernel' = [h \in HostFds |-> IF h = fdMap[g] THEN NoPath ELSE kernel[h]]
      /\ fdMap' = [fdMap EXCEPT ![g] = NoFd]
      /\ lastCall'.op = "close"
      /\ UNCHANGED <<guestErrno, appFile, guestFile, nextFd, hostErrno, inGuest>>
  BY DEF Close, Silent
<1>2. FilesTypeOK'
  BY <1>1
<1>3. DescriptorsMatch'
  <2>1. ASSUME NEW k \in GuestFds, fdMap'[k] # NoFd
        PROVE  /\ k < nextFd' /\ guestFile'[k] # NoPath
               /\ kernel'[fdMap'[k]] = guestFile'[k] /\ appFile'[fdMap'[k]] = NoPath
               /\ \A j \in GuestFds : fdMap'[j] = fdMap'[k] => j = k
    <3>1. k # g /\ fdMap'[k] = fdMap[k]
      BY <1>1, <2>1
    <3>2. fdMap[k] \in HostFds /\ fdMap[g] # fdMap[k]
      BY <2>1, <3>1 DEF DescriptorsMatch
    <3>3. QED
      BY <1>1, <2>1, <3>1, <3>2 DEF DescriptorsMatch
  <2>2. \A h \in HostFds : appFile'[h] # NoPath => kernel'[h] = appFile'[h]
    BY <1>1 DEF DescriptorsMatch
  <2>3. QED
    BY <2>1, <2>2 DEF DescriptorsMatch
<1>4. NoneOrphaned'
  <2> SUFFICES ASSUME NEW h \in HostFds, kernel'[h] # NoPath, appFile'[h] = NoPath
               PROVE  \E k \in GuestFds : fdMap'[k] = h
    BY DEF NoneOrphaned
  <2>1. h # fdMap[g] /\ kernel[h] # NoPath /\ appFile[h] = NoPath
    BY <1>1
  <2>2. PICK k \in GuestFds : fdMap[k] = h
    BY <2>1 DEF NoneOrphaned
  <2>3. fdMap'[k] = h
    BY <1>1, <2>1, <2>2
  <2>4. QED
    BY <2>3
<1>5. ErrnoOfThisCall'
  BY <1>1 DEF ErrnoOfThisCall
<1>6. QED
  BY <1>2, <1>3, <1>4, <1>5

\* What the application opens was free, and what it closes was its own.
LEMMA ApplicationKeeps ==
    ASSUME FilesInv, NEW h \in HostFds,
           (\E p \in Paths : AppOpens(h, p)) \/ AppCloses(h)
    PROVE  FilesInv'
<1> USE FilesAssumption DEF FilesInv, FilesTypeOK
<1>1. PICK p \in Paths \cup {NoPath} :
         /\ kernel' = [kernel EXCEPT ![h] = p] /\ appFile' = [appFile EXCEPT ![h] = p]
         /\ \A g \in GuestFds : fdMap[g] # h
         /\ UNCHANGED <<fdMap, guestFile, nextFd, guestErrno, hostErrno, lastCall, inGuest>>
  <2>1. ASSUME NEW p \in Paths, AppOpens(h, p) PROVE \A g \in GuestFds : fdMap[g] # h
    BY <2>1 DEF AppOpens, FreeFds, DescriptorsMatch
  <2>2. ASSUME AppCloses(h) PROVE \A g \in GuestFds : fdMap[g] # h
    BY <2>2 DEF AppCloses, DescriptorsMatch
  <2>3. QED
    BY <2>1, <2>2 DEF AppOpens, AppCloses
<1>2. FilesTypeOK' /\ ErrnoOfThisCall'
  BY <1>1 DEF ErrnoOfThisCall
<1>3. DescriptorsMatch'
  BY <1>1 DEF DescriptorsMatch
<1>4. NoneOrphaned'
  BY <1>1 DEF NoneOrphaned
<1>5. QED
  BY <1>2, <1>3, <1>4

LEMMA FilesInvNext == FilesInv /\ [FilesNext]_fileVars => FilesInv'
<1> SUFFICES ASSUME FilesInv, [FilesNext]_fileVars PROVE FilesInv'
  OBVIOUS
<1>0. /\ guestErrno \in Errors \cup {0} /\ hostErrno \in Errors \cup {0}
      /\ inGuest \in BOOLEAN /\ ErrnoOfThisCall
  BY DEF FilesInv, FilesTypeOK
<1>1. CASE EnterGuest
  BY <1>0, <1>1, TablesKept DEF EnterGuest, NoCall, ErrnoOfThisCall
<1>2. CASE LeaveGuest
  BY <1>0, <1>2, TablesKept DEF LeaveGuest, ErrnoOfThisCall
<1>3. ASSUME NEW h \in HostFds, NEW p \in Paths, Open(h, p) PROVE FilesInv'
  BY <1>3, OpenKeeps
<1>4. ASSUME NEW h \in HostFds, (\E p \in Paths : AppOpens(h, p)) \/ AppCloses(h)
      PROVE  FilesInv'
  BY <1>4, ApplicationKeeps
<1>5. ASSUME NEW g \in GuestFds, Close(g) PROVE FilesInv'
  BY <1>5, CloseKeeps
<1>6. ASSUME NEW g \in GuestFds, Use(g) PROVE FilesInv'
  <2>1. UNCHANGED <<tables, guestErrno, inGuest>> /\ lastCall'.op = "use"
    BY <1>6 DEF Use, Silent
  <2>2. hostErrno' \in Errors \cup {0}
    BY <1>0, <1>6 DEF Use
  <2>3. QED
    BY <1>0, <2>1, <2>2, TablesKept DEF ErrnoOfThisCall
<1>7. ASSUME NEW e \in Errors, OpenFails(e) PROVE FilesInv'
  BY <1>0, <1>7, TablesKept DEF OpenFails, FailsWith, ErrnoOfThisCall
<1>8. ASSUME NEW e \in Errors \cup {0}, MakeDirectory(e) PROVE FilesInv'
  <2>1. /\ UNCHANGED <<tables, inGuest>> /\ guestErrno' = lastCall'.why
        /\ guestErrno' \in Errors \cup {0} /\ hostErrno' \in Errors \cup {0}
    BY <1>0, <1>8, FilesAssumption DEF MakeDirectory, Succeeds, FailsWith
  <2>2. QED
    BY <1>0, <2>1, TablesKept DEF ErrnoOfThisCall
<1>9. ASSUME NEW e \in Errors \cup {0}, Lstat(e) PROVE FilesInv'
  <2>1. UNCHANGED <<tables, inGuest>>
    BY <1>9 DEF Lstat
  <2>2. CASE e # 0 /\ FailsWith("lstat", e)
    BY <1>0, <2>1, <2>2, TablesKept DEF FailsWith, ErrnoOfThisCall
  <2>3. CASE Succeeds("lstat") /\ UNCHANGED hostErrno
    BY <1>0, <2>1, <2>3, TablesKept DEF Succeeds, ErrnoOfThisCall
  <2>4. CASE /\ guestErrno' = hostErrno /\ UNCHANGED hostErrno
             /\ lastCall' = [op |-> "lstat without buffer", failed |-> FALSE, why |-> 0]
    BY <1>0, <2>1, <2>4, TablesKept DEF ErrnoOfThisCall
  <2>5. QED
    BY <1>9, <2>2, <2>3, <2>4 DEF Lstat
<1>10. ASSUME NEW e \in Errors \cup {0}, Chmod(e) PROVE FilesInv'
  BY <1>0, <1>10, TablesKept DEF Chmod, Silent, ErrnoOfThisCall
<1>11. CASE UNCHANGED fileVars
  BY <1>0, <1>11, TablesKept DEF fileVars, tables, ErrnoOfThisCall
<1>12. QED
  BY <1>1, <1>2, <1>3, <1>4, <1>5, <1>6, <1>7, <1>8, <1>9, <1>10, <1>11 DEF FilesNext

\* The type invariant and the parts that hold it together, at every moment.
THEOREM FilesInvHolds == FilesSpec => []FilesInv
<1>1. QED
  BY FilesInvInit, FilesInvNext, PTL DEF FilesSpec

\* A number of the guest leads to the file it was given out for and to no
\* descriptor of the application, whoever opens and closes in between.
THEOREM DescriptorsAreRight == FilesSpec => []DescriptorsMatch
<1>1. QED
  BY FilesInvHolds, PTL DEF FilesInv

\* No descriptor of the guest is left open without an entry in fd_map.
THEOREM NoDescriptorOrphaned == FilesSpec => []NoneOrphaned
<1>1. QED
  BY FilesInvHolds, PTL DEF FilesInv

\* After open, mkdir and lstat with a buffer errno is that call's.
THEOREM ErrnoIsOfThisCall == FilesSpec => []ErrnoOfThisCall
<1>1. QED
  BY FilesInvHolds, PTL DEF FilesInv
================================================================================
