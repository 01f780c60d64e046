------------------------------- MODULE MCEmulator -------------------------------
(***************************************************************************)
(* Small instances of the three modules of the emulator, explored in one   *)
(* run, each by itself: a behaviour is about its memory, its linker or the *)
(* guest's files.                                                          *)
(*                                                                         *)
(* Memory: a word of seven bits, a heap of five lines of four bytes, three *)
(* pages of eight bytes for library images of one or two pages, two import *)
(* stubs of two bytes.  Linker: two libraries that need each other, room   *)
(* for five images, so two retries in full and the half of a third.        *)
(* Files: three host descriptors whose numbers are also numbers of the     *)
(* guest, and three successful opens.                                      *)
(***************************************************************************)
EXTENDS GuestMemory, GuestLinker, GuestFiles

CONSTANTS n1, n3, p1, p2

VARIABLE part

mcVars == <<part, vars, linkVars, fileVars>>

\* Each library defines what the other imports and both define common; the
\* second alone imports the undefined data, both the undefined function, and
\* both an undefined symbol that only the second takes for data.
LinkOrder == <<"ssc", "coreadi">>

LinkDefines ==
    [f \in LibFiles |-> IF f = "ssc" THEN {"a", "common"} ELSE {"b", "common"}]

LinkImports ==
    [f \in LibFiles |-> IF f = "ssc" THEN {"common", "ndk_b", "func", "mixed"}
                        ELSE {"a", "common", "data", "func", "mixed"}]

LinkData == [f \in LibFiles |-> IF f = "ssc" THEN {} ELSE {"mixed"}]

LinkPlain == [s \in LinkSymbols |-> IF s = "ndk_b" THEN "b" ELSE s]

MCInit ==
    /\ part \in {"memory", "linker", "files"}
    /\ Init /\ LinkInit /\ FilesInit

MCNext ==
    \/ part = "memory" /\ Next /\ UNCHANGED <<part, linkVars, fileVars>>
    \/ part = "linker" /\ LinkNext /\ UNCHANGED <<part, vars, fileVars>>
    \/ part = "files" /\ FilesNext /\ UNCHANGED <<part, vars, linkVars>>

MCSpec == MCInit /\ [][MCNext]_mcVars
================================================================================
