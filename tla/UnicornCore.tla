------------------------------ MODULE UnicornCore ------------------------------
(***************************************************************************)
(* Native/anisette_core_uc.cpp: the four C functions that run the Android  *)
(* ADI libraries inside one emulator shared by the whole process.          *)
(*                                                                         *)
(* g_vm_mutex serialises the calls.  Loading the libraries is done by the  *)
(* first call that gets that far and, when any part of it fails, again by  *)
(* the next one, in the same VM.  Two cached values, g_current_prov_path   *)
(* and g_current_android_id, let a call skip telling the ADI library which *)
(* account it works for; they must therefore always agree with what the    *)
(* library itself believes (guest).                                        *)
(***************************************************************************)
EXTENDS AdiProvider, Sequences

CONSTANTS
    Symbols,        \* the functions of the ADI libraries the code calls
    Exports,        \* which of them each library file defines
    PartialSetters, \* may an ADISet... call that fails have taken effect?
    MaxCopies       \* library images that fit the VM's library region

LibNames == {"ssc", "coreadi"}

ASSUME UnicornAssumption ==
    /\ Exports \in [LibNames -> SUBSET Symbols]
    /\ PartialSetters \in BOOLEAN
    /\ MaxCopies \in Nat

VARIABLES
    libs,         \* vm->loaded_libraries; <<>> while g_shared_vm is null
    initialized,  \* g_libraries_initialized
    provPath,     \* g_current_prov_path, as the account whose directory it is
    androidId,    \* g_current_android_id
    guest         \* what the ADI library has been told: its path and id

vmVars == <<libs, initialized, provPath, androidId, guest>>
vars == <<providerVars, vmVars>>

CorePCs == PCs \cup {"ssc", "coreadi", "relocate", "boot", "mkdir", "path", "android"}

\* The calls that hold g_vm_mutex.
Locked == CorePCs \ {"idle", "wait", "done"}

LibCopy == [name : LibNames, relocated : BOOLEAN, ctors : Nat]

GuestState == [path : Accounts \cup {NoAccount}, android : AndroidIds \cup {NoAndroid}]

FreshGuest == [path |-> NoAccount, android |-> NoAndroid]

Init ==
    /\ ProviderInit
    /\ libs = <<>>
    /\ initialized = FALSE
    /\ provPath = NoAccount
    /\ androidId = NoAndroid
    /\ guest = FreshGuest

\* A symbol is looked up in the loaded images in the order of their loading.
Definers(sym) == {i \in DOMAIN libs : sym \in Exports[libs[i].name]}

Resolves(sym) == Definers(sym) # {}

Resolve(sym) == CHOOSE i \in Definers(sym) : \A j \in Definers(sym) : i <= j

--------------------------------------------------------------------------------
(***************************************************************************)
(* setup_vm_and_adi.                                                       *)
(***************************************************************************)
\* Mistake: the libraries are loaded by every call.
SetupAlways(t) ==
    /\ pc[t] = "setup"
    /\ Goto(t, "ssc")
    /\ UNCHANGED <<req, resp, holder, fs, writers, sessions, minted, vmVars>>

Setup(t) ==
    /\ pc[t] = "setup"
    /\ Goto(t, IF initialized THEN "mkdir" ELSE "ssc")
    /\ UNCHANGED <<req, resp, holder, fs, writers, sessions, minted, vmVars>>

\* Each library read, placed after those already there and pushed.
LoadLibrary(t) ==
    /\ pc[t] \in LibNames
    /\ Len(libs) < MaxCopies
    /\ libs' = Append(libs, [name |-> pc[t], relocated |-> FALSE, ctors |-> 0])
    /\ Goto(t, IF pc[t] = "ssc" THEN "coreadi" ELSE "relocate")
    /\ UNCHANGED <<req, resp, holder, fs, writers, sessions, minted,
                   initialized, provPath, androidId, guest>>

\* Mistake: only the two images this attempt has loaded.
RelocateNewOnly(t) ==
    /\ pc[t] = "relocate"
    /\ libs' = [i \in DOMAIN libs |->
                  IF i + 1 < Len(libs) THEN libs[i]
                  ELSE [name |-> libs[i].name, relocated |-> TRUE, ctors |-> libs[i].ctors + 1]]
    /\ Goto(t, "boot")
    /\ UNCHANGED <<req, resp, holder, fs, writers, sessions, minted,
                   initialized, provPath, androidId, guest>>

\* relocate_all_vm_libraries and run_library_constructors go over every image
\* in the VM, those of failed attempts included.
RelocateAndConstruct(t) ==
    /\ pc[t] = "relocate"
    /\ libs' = [i \in DOMAIN libs |->
                  [name |-> libs[i].name, relocated |-> TRUE, ctors |-> libs[i].ctors + 1]]
    /\ Goto(t, "boot")
    /\ UNCHANGED <<req, resp, holder, fs, writers, sessions, minted,
                   initialized, provPath, androidId, guest>>

\* ADILoadLibraryWithPath returned 0.
Boot(t) ==
    /\ pc[t] = "boot"
    /\ Resolves("load")
    /\ initialized' = TRUE
    /\ Goto(t, "mkdir")
    /\ UNCHANGED <<req, resp, holder, fs, writers, sessions, minted,
                   libs, provPath, androidId, guest>>

\* The directory check, a load, the lookup of ADILoadLibraryWithPath or that
\* function itself failed.  What was loaded stays in the VM.
SetupFails(t) ==
    /\ pc[t] \in {"setup", "boot"} \cup LibNames
    /\ Return(t, ErrorResp)
    /\ UNCHANGED <<req, fs, writers, sessions, minted, vmVars>>

MakeUuidDir(t) ==
    /\ pc[t] = "mkdir"
    /\ MakeDirectory(req[t].acct)
    /\ Goto(t, "path")
    /\ UNCHANGED <<req, resp, holder, sessions, minted, vmVars>>

\* Mistake: the path is set once, not once per account.
SetPathOnce(t) ==
    /\ pc[t] = "path"
    /\ provPath' = req[t].acct
    /\ guest' = IF provPath # NoAccount THEN guest ELSE [guest EXCEPT !.path = req[t].acct]
    /\ Goto(t, "android")
    /\ UNCHANGED <<req, resp, holder, fs, writers, sessions, minted,
                   libs, initialized, androidId>>

\* ADISetProvisioningPath, unless the cached path is this account's already.
SetPath(t) ==
    /\ pc[t] = "path"
    /\ provPath # req[t].acct => Resolves("path")
    /\ provPath' = req[t].acct
    /\ guest' = IF provPath = req[t].acct THEN guest
                ELSE [guest EXCEPT !.path = req[t].acct]
    /\ Goto(t, "android")
    /\ UNCHANGED <<req, resp, holder, fs, writers, sessions, minted,
                   libs, initialized, androidId>>

\* Mistake: the cache is assigned before the result is looked at.
SetPathFailsCached(t) ==
    /\ pc[t] = "path"
    /\ provPath # req[t].acct
    /\ provPath' = req[t].acct
    /\ Return(t, ErrorResp)
    /\ UNCHANGED <<req, fs, writers, sessions, minted, libs, initialized, androidId, guest>>

\* The function is missing, or refuses: the cache is left alone.
SetPathFails(t) ==
    /\ pc[t] = "path"
    /\ provPath # req[t].acct
    /\ guest' \in {guest} \cup (IF PartialSetters /\ Resolves("path")
                                THEN {[guest EXCEPT !.path = req[t].acct]} ELSE {})
    /\ Return(t, ErrorResp)
    /\ UNCHANGED <<req, fs, writers, sessions, minted,
                   libs, initialized, provPath, androidId>>

\* Mistakes: an identifier that has been set once is left alone; and the new one
\* is remembered in the wrong global.
SetAndroidOnce(t) ==
    /\ pc[t] = "android"
    /\ LET id == AndroidIdOf[req[t].acct] IN
       IF androidId = NoAndroid
       THEN androidId' = id /\ guest' = [guest EXCEPT !.android = id]
       ELSE UNCHANGED <<androidId, guest>>
    /\ Goto(t, "act")
    /\ UNCHANGED <<req, resp, holder, fs, writers, sessions, minted,
                   libs, initialized, provPath>>

SetAndroidInPath(t) ==
    /\ pc[t] = "android"
    /\ LET id == AndroidIdOf[req[t].acct] IN
       /\ provPath' = id
       /\ guest' = [guest EXCEPT !.android = id]
    /\ Goto(t, "act")
    /\ UNCHANGED <<req, resp, holder, fs, writers, sessions, minted,
                   libs, initialized, androidId>>

SetAndroid(t) ==
    /\ pc[t] = "android"
    /\ LET id == AndroidIdOf[req[t].acct] IN
       /\ androidId # id => Resolves("android")
       /\ androidId' = id
       /\ guest' = IF androidId = id THEN guest ELSE [guest EXCEPT !.android = id]
    /\ Goto(t, "act")
    /\ UNCHANGED <<req, resp, holder, fs, writers, sessions, minted,
                   libs, initialized, provPath>>

\* Mistake: as SetPathFailsCached.
SetAndroidFailsCached(t) ==
    /\ pc[t] = "android"
    /\ androidId # AndroidIdOf[req[t].acct]
    /\ androidId' = AndroidIdOf[req[t].acct]
    /\ Return(t, ErrorResp)
    /\ UNCHANGED <<req, fs, writers, sessions, minted, libs, initialized, provPath, guest>>

SetAndroidFails(t) ==
    /\ pc[t] = "android"
    /\ LET id == AndroidIdOf[req[t].acct] IN
       /\ androidId # id
       /\ guest' \in {guest} \cup (IF PartialSetters /\ Resolves("android")
                                   THEN {[guest EXCEPT !.android = id]} ELSE {})
    /\ Return(t, ErrorResp)
    /\ UNCHANGED <<req, fs, writers, sessions, minted,
                   libs, initialized, provPath, androidId>>

--------------------------------------------------------------------------------
(***************************************************************************)
(* get_anisette_headers_uc.  The file is the caller's; the one-time        *)
(* password comes from whatever account the ADI library is set to.         *)
(***************************************************************************)
WriteBlobOpen(t)  == OpenBlob(t) /\ UNCHANGED vmVars
WriteBlobSkip(t)  == OpenBlobFails(t) /\ UNCHANGED vmVars
WriteBlobClose(t) == FlushBlob(t) /\ UNCHANGED vmVars

AdiOtpRequest(t) ==
    /\ pc[t] = "otp"
    /\ Resolves("otp")
    /\ guest.path \in Accounts
    /\ fs[guest.path].pb \in Blobs
    /\ Return(t, HeadersResp(guest.android, fs[guest.path].pb))
    /\ UNCHANGED <<req, fs, writers, sessions, minted, vmVars>>

AdiOtpRequestFails(t) ==
    /\ pc[t] = "otp"
    /\ Return(t, ErrorResp)
    /\ UNCHANGED <<req, fs, writers, sessions, minted, vmVars>>

(***************************************************************************)
(* start_provision_uc.                                                     *)
(***************************************************************************)
AdiStart(t) ==
    /\ Resolves("start")
    /\ ProvisioningStart(t)
    /\ UNCHANGED vmVars

AdiStartFails(t) ==
    /\ Resolves("start")
    /\ ProvisioningStartFails(t)
    /\ UNCHANGED vmVars

(***************************************************************************)
(* end_provision_uc.  The guest writes adi.pb into the directory it was    *)
(* told about; the bytes are read back from the caller's directory.        *)
(***************************************************************************)
AdiEnd(t) ==
    /\ pc[t] = "act" /\ req[t].op = "end"
    /\ Resolves("end")
    /\ req[t].session \in sessions
    /\ guest.path \in Accounts
    /\ fs[guest.path].dir
    /\ fs' = [fs EXCEPT ![guest.path].pb =
                 [acct |-> guest.path, session |-> req[t].session]]
    /\ sessions' = sessions \ {req[t].session}
    /\ Goto(t, "readback")
    /\ UNCHANGED <<req, resp, holder, writers, minted, vmVars>>

\* A missing start or end symbol, or a nonzero ADIProvisioningEnd: the
\* directory is left as it is.
ActFails(t) ==
    /\ pc[t] = "act"
    /\ \/ req[t].op = "start" /\ ~Resolves("start")
       \/ req[t].op = "end"
    /\ Return(t, ErrorResp)
    /\ UNCHANGED <<req, fs, writers, sessions, minted, vmVars>>

ReadAdiPb(t)      == ReadBack(t) /\ UNCHANGED vmVars
ReadAdiPbFails(t) == ReadBackFails(t) /\ UNCHANGED vmVars

\* cancel_provision_uc never sets the VM up, and reports success anyway.
AdiCancel(t) ==
    /\ Cancel(t)
    /\ sessions' # sessions => Resolves("destroy")
    /\ UNCHANGED vmVars

--------------------------------------------------------------------------------
CallBegins(t) ==
    /\ \E r \in Calls : Invoke(t, r) \/ InvokeNull(t, r)
    /\ UNCHANGED vmVars

CallCollected(t) == Collect(t) /\ UNCHANGED vmVars

TakeMutex(t) == Acquire(t) /\ UNCHANGED vmVars

FilesChange == HostFileStep /\ UNCHANGED vmVars

VmIsLost ==
    /\ libs' = <<>>
    /\ initialized' = FALSE
    /\ provPath' = NoAccount
    /\ androidId' = NoAndroid
    /\ guest' = FreshGuest

\* PageAllocator::alloc aborts the process when the library region is full.
AbortOnExhaustion(t) ==
    /\ pc[t] \in LibNames
    /\ Len(libs) >= MaxCopies
    /\ ProviderCrash
    /\ VmIsLost

Crash == ProviderCrash /\ VmIsLost

CoreStep(t) ==
    \/ TakeMutex(t) \/ Setup(t) \/ LoadLibrary(t) \/ RelocateAndConstruct(t)
    \/ Boot(t) \/ SetupFails(t) \/ MakeUuidDir(t)
    \/ SetPath(t) \/ SetPathFails(t) \/ SetAndroid(t) \/ SetAndroidFails(t)
    \/ WriteBlobOpen(t) \/ WriteBlobSkip(t) \/ WriteBlobClose(t)
    \/ AdiOtpRequest(t) \/ AdiOtpRequestFails(t)
    \/ AdiStart(t) \/ AdiStartFails(t)
    \/ AdiEnd(t) \/ ActFails(t) \/ ReadAdiPb(t) \/ ReadAdiPbFails(t)
    \/ AdiCancel(t) \/ AbortOnExhaustion(t)

Next ==
    \/ \E t \in Threads : CallBegins(t) \/ CallCollected(t) \/ CoreStep(t)
    \/ FilesChange
    \/ Crash

Spec == Init /\ [][Next]_vars

--------------------------------------------------------------------------------
(***************************************************************************)
(* Properties.                                                             *)
(***************************************************************************)
\* Every variable has its type.
TypeOK ==
    /\ pc \in [Threads -> CorePCs]
    /\ req \in [Threads -> Requests \cup {NoReq}]
    /\ resp \in [Threads -> Responses]
    /\ holder \in Threads \cup {NoThread}
    /\ fs \in [Accounts -> DirState]
    /\ writers \subseteq Threads \X Accounts
    /\ sessions \subseteq minted
    /\ minted \subseteq Sessions
    /\ libs \in Seq(LibCopy)
    /\ initialized \in BOOLEAN
    /\ provPath \in Accounts \cup {NoAccount}
    /\ androidId \in AndroidIds \cup {NoAndroid}
    /\ guest \in GuestState

\* The lock_guard of every C function: a call that is past it holds g_vm_mutex
\* and no two calls are past it together, on every one of the error returns.
MutexHeld == \A t \in Threads : pc[t] \in Locked <=> holder = t

\* The cached path and Android id are what the ADI library works with, whatever
\* calls failed on the way (given that a refused setter changes nothing).
CacheCoherent ==
    ~PartialSetters => provPath = guest.path /\ androidId = guest.android

\* From the end of setup_vm_and_adi to the return of the call, the ADI library
\* is set to the caller's own directory and hardware identifier.
SelectedAtUse ==
    ~PartialSetters =>
        \A t \in Threads :
            pc[t] \in {"act", "flush", "otp", "readback"} /\ req[t].op # "cancel" =>
                /\ guest.path = req[t].acct
                /\ guest.android = AndroidIdOf[req[t].acct]

\* A one-time password handed to a caller was computed with the caller's
\* identifier: no call of another account has moved the library in between.
AnsweredForCaller ==
    ~PartialSetters =>
        \A t \in Threads :
            resp[t].kind = "headers" => resp[t].android = AndroidIdOf[req[t].acct]

(***************************************************************************)
(* The inductive invariant of the proofs: a call under way has a request,  *)
(* has not been answered and, unless it cancels, goes through the setup;   *)
(* from the setting of each cached value on, the cache is the caller's.    *)
(***************************************************************************)
CallShape ==
    \A t \in Threads :
        /\ pc[t] # "idle" => req[t] \in Requests
        /\ pc[t] \in Locked \ {"act"} => req[t].op # "cancel"
        /\ pc[t] # "done" => resp[t] = Blank

CacheIsCallers ==
    \A t \in Threads :
        req[t].op # "cancel" =>
            /\ pc[t] \in {"android", "act", "flush", "otp", "readback"} =>
                  provPath = req[t].acct
            /\ pc[t] \in {"act", "flush", "otp", "readback"} =>
                  androidId = AndroidIdOf[req[t].acct]

\* One call at a time is between the setup of setup_vm_and_adi and its return,
\* the cache is the library's view of the world, and it is that caller's.
IndInv ==
    /\ TypeOK /\ CallShape /\ MutexHeld
    /\ CacheCoherent /\ CacheIsCallers /\ AnsweredForCaller

\* The function of the ADI libraries that a call has come to, if it has to one.
Called(t) ==
    CASE pc[t] = "boot" -> {"load"}
      [] pc[t] \in {"path", "android", "otp"} -> {pc[t]}
      [] pc[t] = "act" /\ req[t].op \in {"start", "end"} -> {req[t].op}
      [] pc[t] = "act" /\ req[t].op = "cancel" -> {"destroy"}
      [] OTHER -> {}

Ready(i) == libs[i].relocated /\ libs[i].ctors > 0

\* Whatever earlier attempts to load failed half way, the image a function is
\* found in is relocated and its constructors have run before the function is
\* called.  cancel_provision_uc alone asks for no setup: what is left of a failed
\* one is enough for it, and it may run ADIProvisioningDestroy in an image without
\* relocations; but only in a VM that has never opened a session there would be
\* to destroy, and that no setup has finished.
ImagesReady ==
    \A t \in Threads : \A sym \in Called(t) :
        Resolves(sym) =>
            \/ Ready(Resolve(sym))
            \/ sym = "destroy" /\ ~initialized /\ sessions = {}

\* Once ADILoadLibraryWithPath has succeeded the VM keeps the images it has and
\* runs no constructor again, until the process ends.
LoadedForGood ==
    [][initialized => \/ libs' = libs /\ initialized'
                      \/ libs' = <<>> /\ ~initialized']_vars

(***************************************************************************)
(* The provider's promise, with the VM hidden: setting up the VM is what   *)
(* comes before the mkdir, selecting the account what comes after it.      *)
(***************************************************************************)
AbstractPc ==
    [t \in Threads |->
        CASE pc[t] \in {"ssc", "coreadi", "relocate", "boot", "mkdir"} -> "setup"
          [] pc[t] \in {"path", "android"} -> "act"
          [] OTHER -> pc[t]]

Provider == INSTANCE AdiProvider WITH pc <- AbstractPc

ImplementsProvider == Provider!ProviderSpec

(***************************************************************************)
(* Liveness.  Each thread keeps running; ADI code that is called returns   *)
(* (uc_emu_start is given no time limit), and the caller takes its answer. *)
(***************************************************************************)
Fairness == \A t \in Threads : WF_vars(CoreStep(t)) /\ WF_vars(CallCollected(t))

FairSpec == Spec /\ Fairness

\* Once inside, a call returns: no error path keeps the mutex.
MutexReleased == \A t \in Threads : holder = t ~> holder # t
================================================================================
