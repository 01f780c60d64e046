------------------------------- MODULE GuestLinker -------------------------------
(***************************************************************************)
(* Linking inside the emulator (Native/Loader/elf_loader_emulator.cpp,     *)
(* vm_resolve_symbol to get_vm_symbol_address, and hook_dlsym), in the     *)
(* order setup_vm_and_adi drives it: the libraries are loaded, all images  *)
(* relocated, the constructors of all images run, the library started.     *)
(* A setup that fails leaves its images in the VM; the next one loads the  *)
(* files again and relocates and constructs the old images too.            *)
(***************************************************************************)
EXTENDS Naturals, Sequences

CONSTANTS
    LoadOrder,    \* the files setup_vm_and_adi loads, in its order
    LinkSymbols,
    Defines,      \* file -> the symbols it defines
    Imports,      \* file -> the symbols its relocations name
    DataEntries,  \* file -> the imports its own symbol table marks as data
    NamedData,    \* the names that are taken for data whatever the table says
    Plain,        \* symbol -> its name without the NDK's namespace
    Destroy,      \* the function cancel_provision_uc calls
    MaxImages,    \* bound: images the library region holds
    Unbound, CodeStub, DataDummy

LibFiles == {LoadOrder[k] : k \in DOMAIN LoadOrder}

ASSUME LinkerAssumption ==
    /\ LoadOrder \in Seq(LibFiles) /\ LoadOrder # <<>>
    /\ Defines \in [LibFiles -> SUBSET LinkSymbols]
    /\ Imports \in [LibFiles -> SUBSET LinkSymbols]
    /\ DataEntries \in [LibFiles -> SUBSET LinkSymbols]
    /\ NamedData \subseteq LinkSymbols
    /\ Plain \in [LinkSymbols -> LinkSymbols]
    /\ Destroy \in LinkSymbols
    /\ MaxImages \in Nat
    /\ Unbound \notin Nat /\ CodeStub \notin Nat /\ DataDummy \notin Nat
    /\ Unbound # CodeStub /\ Unbound # DataDummy /\ CodeStub # DataDummy

VARIABLES
    phase,     \* what setup_vm_and_adi is doing
    pos,       \* the file or image it has come to
    image,     \* vm->loaded_libraries, as their files
    cell,      \* image, symbol -> the number of the image it leads to, or other
    bindings,  \* vm->imported_symbols: symbol -> its stub or dummy
    given      \* symbol -> what the last look-up by name returned

linkVars == <<phase, pos, image, cell, bindings, given>>

NothingBound == [s \in LinkSymbols |-> Unbound]

LinkInit ==
    /\ phase = "idle" /\ pos = 1
    /\ image = <<>> /\ cell = <<>>
    /\ bindings = NothingBound
    /\ given = NothingBound

--------------------------------------------------------------------------------
Defining(s) == {i \in DOMAIN image : s \in Defines[image[i]]}

\* Mistake: the image loaded last is searched first.
FirstNewest(s) == CHOOSE i \in Defining(s) : \A j \in Defining(s) : j <= i

\* loaded_libraries is searched in the order of loading.
First(s) == CHOOSE i \in Defining(s) : \A j \in Defining(s) : i <= j

\* Mistake: the table is not searched first.
PlaceholderAnew(s, kind) == kind

\* What an undefined symbol is bound to, for good: what it has, or the new stub
\* (register_import) or zeroed dummy of the kind asked for.
Placeholder(s, kind) == IF bindings[s] # Unbound THEN bindings[s] ELSE kind

\* What file f takes the symbol for: its own entry says so, or the name.
KindOf(f, s) == IF s \in DataEntries[f] \cup NamedData THEN DataDummy ELSE CodeStub

\* vm_resolve_symbol for a relocation of image i.
Resolution(i, s) ==
    IF s \in Defines[image[i]] THEN i
    ELSE IF Defining(s) # {} THEN First(s)
    ELSE IF Defining(Plain[s]) # {} THEN First(Plain[s])
    ELSE Placeholder(s, KindOf(image[i], s))

\* Does resolving s in image i come to a placeholder?
Undefined(s) == Defining(s) = {} /\ Defining(Plain[s]) = {}

\* After file k of n, or image k of n, the next one or the next phase.
Advance(n, then) ==
    IF pos < n THEN pos' = pos + 1 /\ UNCHANGED phase ELSE pos' = 1 /\ phase' = then

--------------------------------------------------------------------------------
BeginSetup ==
    /\ phase = "idle"
    /\ phase' = "load"
    /\ UNCHANGED <<pos, image, cell, bindings, given>>

\* Mistake: an image is relocated when it is loaded, whatever else is there.
LoadImageRelocated ==
    /\ phase = "load" /\ Len(image) < MaxImages
    /\ image' = Append(image, LoadOrder[pos])
    /\ cell' = Append(cell, [s \in LinkSymbols |->
                  IF s \notin Imports[LoadOrder[pos]] THEN Unbound
                  ELSE IF s \in Defines[LoadOrder[pos]] THEN Len(image) + 1
                  ELSE IF Defining(s) # {} THEN First(s)
                  ELSE IF Defining(Plain[s]) # {} THEN First(Plain[s])
                  ELSE Placeholder(s, KindOf(LoadOrder[pos], s))])
    /\ Advance(Len(LoadOrder), "construct")
    /\ UNCHANGED <<bindings, given>>

\* load_library_to_vm: the image with its symbols, nothing in it relocated.
LoadImage ==
    /\ phase = "load" /\ Len(image) < MaxImages
    /\ image' = Append(image, LoadOrder[pos])
    /\ cell' = Append(cell, NothingBound)
    /\ Advance(Len(LoadOrder), "relocate")
    /\ UNCHANGED <<bindings, given>>

\* apply_vm_relocations for the image relocate_all_vm_libraries has come to.
RelocateImage ==
    /\ phase = "relocate"
    /\ cell' = [cell EXCEPT ![pos] = [s \in LinkSymbols |->
                  IF s \in Imports[image[pos]] THEN Resolution(pos, s) ELSE @[s]]]
    /\ bindings' = [s \in LinkSymbols |->
                  IF s \in Imports[image[pos]] /\ Undefined(s)
                  THEN Placeholder(s, KindOf(image[pos], s)) ELSE bindings[s]]
    /\ Advance(Len(image), "construct")
    /\ UNCHANGED <<image, given>>

\* run_library_constructors: how the procedures end is not looked at.
Construct ==
    /\ phase = "construct"
    /\ Advance(Len(image), "boot")
    /\ UNCHANGED <<image, cell, bindings, given>>

\* ADILoadLibraryWithPath returned 0.
Started ==
    /\ phase = "boot"
    /\ phase' = "serve"
    /\ UNCHANGED <<pos, image, cell, bindings, given>>

\* A file could not be loaded, a function was missing, or the library refused.
SetupGivesUp ==
    /\ phase \in {"load", "boot"}
    /\ phase' = "idle" /\ pos' = 1
    /\ UNCHANGED <<image, cell, bindings, given>>

\* PageAllocator::alloc ends the process when the library region is full.
RegionFull ==
    /\ phase = "load" /\ Len(image) >= MaxImages
    /\ phase' = "idle" /\ pos' = 1
    /\ image' = <<>> /\ cell' = <<>>
    /\ bindings' = NothingBound
    /\ given' = NothingBound

\* Guest code runs as part of the setup and of the calls after it; and, when a
\* setup has failed, on a call of cancel_provision_uc, which asks for a VM only:
\* the images of the setup that failed may not have been relocated.
SetUpCode == phase \in {"construct", "boot", "serve"}
CancelCode == phase = "idle" /\ Defining(Destroy) # {}

\* Code of an image that is not relocated reaches nothing outside its image.
HooksReached ==
    SetUpCode \/ (CancelCode /\ \E i \in DOMAIN image : cell[i] # NothingBound)

\* get_vm_symbol_address, from the C functions: a name no image defines is not found.
FindByName(s) ==
    /\ phase \in {"boot", "serve"} \/ (CancelCode /\ s = Destroy)
    /\ Defining(s) # {}
    /\ given' = [given EXCEPT ![s] = First(s)]
    /\ UNCHANGED <<phase, pos, image, cell, bindings>>

\* hook_dlsym, from guest code: a stub is made for a name no image defines.
LookUp(s) ==
    /\ HooksReached
    /\ \/ /\ Defining(s) # {}
          /\ given' = [given EXCEPT ![s] = First(s)]
          /\ UNCHANGED bindings
       \/ /\ Defining(s) = {}
          /\ given' = [given EXCEPT ![s] = Placeholder(s, CodeStub)]
          /\ bindings' = [bindings EXCEPT ![s] = Placeholder(s, CodeStub)]
    /\ UNCHANGED <<phase, pos, image, cell>>

LinkNext ==
    \/ BeginSetup \/ LoadImage \/ RelocateImage \/ Construct \/ Started
    \/ SetupGivesUp \/ RegionFull
    \/ \E s \in LinkSymbols : FindByName(s) \/ LookUp(s)

LinkSpec == LinkInit /\ [][LinkNext]_linkVars

--------------------------------------------------------------------------------
(***************************************************************************)
(* Properties.                                                             *)
(***************************************************************************)
LinkTypeOK ==
    /\ phase \in {"idle", "load", "relocate", "construct", "boot", "serve"}
    /\ pos \in Nat \ {0}
    /\ image \in Seq(LibFiles)
    /\ cell \in Seq([LinkSymbols -> Nat \cup {Unbound, CodeStub, DataDummy}])
    /\ Len(cell) = Len(image)
    /\ bindings \in [LinkSymbols -> {Unbound, CodeStub, DataDummy}]
    /\ given \in [LinkSymbols -> Nat \cup {Unbound, CodeStub, DataDummy}]

\* The first image of a file; the later ones are left over from retries.
Foremost(i) == i \in DOMAIN image /\ \A j \in DOMAIN image : image[j] = image[i] => i <= j

\* However often loading was tried again, the code in use is one copy of each
\* library: the first, which is found by name, and which leads nowhere else.
\* (Two copies would each have half of the account's state.)
OneCopyInUse ==
    /\ \A s \in LinkSymbols : given[s] \in Nat => Foremost(given[s])
    /\ \A i \in DOMAIN image, s \in LinkSymbols :
          Foremost(i) /\ cell[i][s] \in Nat => Foremost(cell[i][s])

\* Every relocation of image i is done, and a symbol that some image defines, by
\* its name or without the NDK's namespace, was not left to a stub, though that
\* image came after it.
Linked(i) ==
    \A s \in Imports[image[i]] :
        /\ cell[i][s] # Unbound
        /\ Defining(s) # {} => cell[i][s] \in Defining(s)
        /\ Defining(s) = {} /\ ~Undefined(s) => cell[i][s] \in Defining(Plain[s])

\* Guest code that the setup runs, constructors included, finds every image linked.
\* The function that a cancel runs after a failed setup may be in an image in which
\* no relocation is done; but never in one that is half linked, nor does it get
\* from a linked image into one that is not.
LinkedBeforeRun ==
    /\ SetUpCode => \A i \in DOMAIN image : Linked(i)
    /\ CancelCode => \A i \in DOMAIN image :
          \/ cell[i] = NothingBound
          \/ /\ Linked(i)
             /\ \A s \in LinkSymbols : cell[i][s] \in Nat => Linked(cell[i][s])

FirstImporter(s) ==
    LoadOrder[CHOOSE k \in DOMAIN LoadOrder :
                 /\ s \in Imports[LoadOrder[k]]
                 /\ \A j \in 1 .. (k - 1) : s \notin Imports[LoadOrder[j]]]

\* A relocation that ends at a placeholder has one of the kind that the first file
\* to import the name takes it for: dlsym, which makes stubs only, never comes
\* first.  So if the files agree about a symbol, data never leads to a code stub;
\* if they do not, the later one gets what the earlier one asked for.
FirstImporterDecides ==
    \A i \in DOMAIN image : \A s \in Imports[image[i]] :
        cell[i][s] \in {CodeStub, DataDummy} => cell[i][s] = KindOf(FirstImporter(s), s)

\* Relocating again on a retry moves no pointer the guest may have copied.
CellsStable ==
    [][image' # <<>> => \A i \in DOMAIN image, s \in LinkSymbols :
          cell[i][s] # Unbound => cell'[i][s] = cell[i][s]]_linkVars
================================================================================
