------------------------------- MODULE NativeCore -------------------------------
(***************************************************************************)
(* Native/anisette_core_mac.cpp: the same four C functions with the ADI    *)
(* libraries mapped into the process itself (macOS).  There is no mutex:   *)
(* g_ssc and g_adi are plain globals that every call reads and that the    *)
(* first call, or the first after a failed one, sets.  The library is told *)
(* its path and hardware identifier by every call anew.                    *)
(*                                                                         *)
(* The module reuses the file operations of AdiProvider; holder stays      *)
(* NoThread for ever.                                                      *)
(***************************************************************************)
EXTENDS AdiProvider

CONSTANTS
    Serial,      \* do callers wait for each other?  (nothing in the code does)
    MaxLoaders   \* bound: ElfLoader objects created in a process

ASSUME NativeAssumption == Serial \in BOOLEAN /\ MaxLoaders \in Nat

VARIABLES
    gSsc, gAdi,  \* g_ssc and g_adi: a loader, or 0 for nullptr
    loaders,     \* the ElfLoader objects
    news,        \* how many have been created
    mine         \* the pointer load_adi_and_setup gave each call

nativeVars == <<gSsc, gAdi, loaders, news, mine>>
vars == <<providerVars, nativeVars>>

NativePCs == {"idle", "wait", "setup", "newSsc", "loadSsc", "newAdi", "loadAdi",
              "link", "boot", "mkdir", "path", "android", "act", "flush", "otp",
              "readback", "unlink", "rmdir", "done"}

Pointers == 0..MaxLoaders

(***************************************************************************)
(* A loader is raw until load() has read its file, loaded until its        *)
(* imports are bound to its sibling, and dangling once it is freed.  The   *)
(* ADI functions, and the path and identifier they keep, are in            *)
(* libstoreservicescore, which get_adi_symbol asks first.                  *)
(***************************************************************************)
Loader == [st : {"none", "raw", "loaded", "linked", "freed"}, sib : Pointers,
           path : Accounts \cup {NoAccount}, android : AndroidIds \cup {NoAndroid}]

NoLoader == [st |-> "none", sib |-> 0, path |-> NoAccount, android |-> NoAndroid]

NativeInit ==
    /\ gSsc = 0 /\ gAdi = 0
    /\ loaders = [o \in 1..MaxLoaders |-> NoLoader]
    /\ news = 0
    /\ mine = [t \in Threads |-> 0]

Init == ProviderInit /\ NativeInit

\* The mapped libraries go with the process.
NativeLost ==
    /\ gSsc' = 0 /\ gAdi' = 0
    /\ loaders' = [o \in 1..MaxLoaders |-> NoLoader]
    /\ news' = 0
    /\ mine' = [t \in Threads |-> 0]

Is(o, sts) == o # 0 /\ loaders[o].st \in sts

filesAndSessions == <<fs, writers, sessions, minted>>

Fails(t) == Return(t, ErrorResp) /\ UNCHANGED req

\* delete g_adi; delete g_ssc; both set to nullptr.
DeleteBoth ==
    /\ loaders' = [o \in DOMAIN loaders |->
                     IF o \in {gSsc, gAdi} THEN [loaders[o] EXCEPT !.st = "freed"]
                     ELSE loaders[o]]
    /\ gSsc' = 0 /\ gAdi' = 0

--------------------------------------------------------------------------------
(***************************************************************************)
(* load_adi_and_setup.                                                     *)
(***************************************************************************)
Enter(t) ==
    /\ pc[t] = "wait"
    /\ Goto(t, "setup")
    /\ UNCHANGED <<req, resp, holder, filesAndSessions, nativeVars>>

DirectoryMissing(t) ==
    /\ pc[t] = "setup"
    /\ Fails(t)
    /\ UNCHANGED <<filesAndSessions, nativeVars>>

CheckLoaded(t) ==
    /\ pc[t] = "setup"
    /\ Goto(t, IF gAdi = 0 THEN "newSsc" ELSE "mkdir")
    /\ UNCHANGED <<req, resp, holder, filesAndSessions, nativeVars>>

\* The global points to the new object before anything is loaded into it.
NewLoader(t) ==
    /\ pc[t] \in {"newSsc", "newAdi"}
    /\ news < MaxLoaders
    /\ news' = news + 1
    /\ loaders' = [loaders EXCEPT ![news'].st = "raw"]
    /\ IF pc[t] = "newSsc" THEN gSsc' = news' /\ UNCHANGED gAdi
                           ELSE gAdi' = news' /\ UNCHANGED gSsc
    /\ Goto(t, IF pc[t] = "newSsc" THEN "loadSsc" ELSE "loadAdi")
    /\ UNCHANGED <<req, resp, holder, filesAndSessions, mine>>

Loading(t) == IF pc[t] = "loadSsc" THEN gSsc ELSE gAdi

Load(t) ==
    /\ pc[t] \in {"loadSsc", "loadAdi"}
    /\ Is(Loading(t), {"raw", "loaded", "linked"})
    /\ loaders' = [loaders EXCEPT ![Loading(t)].st = "loaded"]
    /\ Goto(t, IF pc[t] = "loadSsc" THEN "newAdi" ELSE "link")
    /\ UNCHANGED <<req, resp, holder, filesAndSessions, gSsc, gAdi, news, mine>>

\* Mistakes: the objects are deleted and the globals keep pointing at them; and
\* the first library outlives the second.
LoadFailsDangling(t) ==
    /\ pc[t] \in {"loadSsc", "loadAdi"}
    /\ Is(Loading(t), {"raw", "loaded", "linked"})
    /\ loaders' = [o \in DOMAIN loaders |->
                     IF o \in {gSsc, gAdi} THEN [loaders[o] EXCEPT !.st = "freed"]
                     ELSE loaders[o]]
    /\ Fails(t)
    /\ UNCHANGED <<filesAndSessions, gSsc, gAdi, news, mine>>

LoadFailsOneOnly(t) ==
    /\ pc[t] \in {"loadSsc", "loadAdi"}
    /\ Is(Loading(t), {"raw", "loaded", "linked"})
    /\ loaders' = [loaders EXCEPT ![Loading(t)].st = "freed"]
    /\ IF pc[t] = "loadSsc" THEN gSsc' = 0 /\ UNCHANGED gAdi ELSE gAdi' = 0 /\ UNCHANGED gSsc
    /\ Fails(t)
    /\ UNCHANGED <<filesAndSessions, news, mine>>

\* A library that does not load takes the ones loaded before it along.
LoadFails(t) ==
    /\ pc[t] \in {"loadSsc", "loadAdi"}
    /\ Is(Loading(t), {"raw", "loaded", "linked"})
    /\ IF pc[t] = "loadSsc"
       THEN /\ loaders' = [loaders EXCEPT ![gSsc].st = "freed"]
            /\ gSsc' = 0
            /\ UNCHANGED gAdi
       ELSE DeleteBoth
    /\ Fails(t)
    /\ UNCHANGED <<filesAndSessions, news, mine>>

Linked(l, other) ==
    [l EXCEPT !.st = IF @ = "loaded" THEN "linked" ELSE @,
              !.sib = IF @ = 0 THEN other ELSE @]

\* Each becomes the other's sibling and both are relocated a second time.
Link(t) ==
    /\ pc[t] = "link"
    /\ gSsc # 0 /\ gAdi # 0
    /\ loaders' = [loaders EXCEPT ![gSsc] = Linked(@, gAdi), ![gAdi] = Linked(@, gSsc)]
    /\ Goto(t, "boot")
    /\ UNCHANGED <<req, resp, holder, filesAndSessions, gSsc, gAdi, news, mine>>

\* ADILoadLibraryWithPath.
Boot(t) ==
    /\ pc[t] = "boot"
    /\ Is(gSsc, {"linked"})
    /\ Goto(t, "mkdir")
    /\ UNCHANGED <<req, resp, holder, filesAndSessions, nativeVars>>

BootFails(t) ==
    /\ pc[t] = "boot"
    /\ gSsc = 0 \/ Is(gSsc, {"raw", "linked"})
    /\ DeleteBoth
    /\ Fails(t)
    /\ UNCHANGED <<filesAndSessions, news, mine>>

MakeUuidDir(t) ==
    /\ pc[t] = "mkdir"
    /\ MakeDirectory(req[t].acct)
    /\ Goto(t, "path")
    /\ UNCHANGED <<req, resp, holder, sessions, minted, nativeVars>>

SetPath(t) ==
    /\ pc[t] = "path"
    /\ Is(gSsc, {"linked"})
    /\ loaders' = [loaders EXCEPT ![gSsc].path = req[t].acct]
    /\ Goto(t, "android")
    /\ UNCHANGED <<req, resp, holder, filesAndSessions, gSsc, gAdi, news, mine>>

\* Mistakes: an identifier that has been set once is left alone; and it is handed
\* to the setter of the path.
SetAndroidOnce(t) ==
    /\ pc[t] = "android"
    /\ Is(gSsc, {"linked"})
    /\ loaders' = [loaders EXCEPT ![gSsc].android =
                     IF @ = NoAndroid THEN AndroidIdOf[req[t].acct] ELSE @]
    /\ mine' = [mine EXCEPT ![t] = gAdi]
    /\ Goto(t, "act")
    /\ UNCHANGED <<req, resp, holder, filesAndSessions, gSsc, gAdi, news>>

SetAndroidAsPath(t) ==
    /\ pc[t] = "android"
    /\ Is(gSsc, {"linked"})
    /\ loaders' = [loaders EXCEPT ![gSsc].path = AndroidIdOf[req[t].acct]]
    /\ mine' = [mine EXCEPT ![t] = gAdi]
    /\ Goto(t, "act")
    /\ UNCHANGED <<req, resp, holder, filesAndSessions, gSsc, gAdi, news>>

\* return g_adi: read once more, at the very end.
SetAndroid(t) ==
    /\ pc[t] = "android"
    /\ Is(gSsc, {"linked"})
    /\ loaders' = [loaders EXCEPT ![gSsc].android = AndroidIdOf[req[t].acct]]
    /\ mine' = [mine EXCEPT ![t] = gAdi]
    /\ IF gAdi = 0 THEN Fails(t)
       ELSE Goto(t, "act") /\ UNCHANGED <<req, resp, holder>>
    /\ UNCHANGED <<filesAndSessions, gSsc, gAdi, news>>

\* The symbol is missing, or the setter refuses.
SetterFails(t) ==
    /\ pc[t] \in {"path", "android"}
    /\ gSsc = 0 \/ Is(gSsc, {"raw", "linked"})
    /\ Fails(t)
    /\ UNCHANGED <<filesAndSessions, nativeVars>>

--------------------------------------------------------------------------------
(***************************************************************************)
(* The four functions.  Their symbols come from the loader the call was    *)
(* given and its first sibling.                                            *)
(***************************************************************************)
Ssc(t) == IF mine[t] = 0 THEN 0 ELSE loaders[mine[t]].sib

Bound(t) == Is(mine[t], {"linked"}) /\ Is(Ssc(t), {"linked"})

PathOf(t) == loaders[Ssc(t)].path

WriteBlobOpen(t)  == OpenBlob(t) /\ UNCHANGED nativeVars
WriteBlobSkip(t)  == OpenBlobFails(t) /\ UNCHANGED nativeVars
WriteBlobClose(t) == FlushBlob(t) /\ UNCHANGED nativeVars

AdiOtpRequest(t) ==
    /\ pc[t] = "otp" /\ Bound(t)
    /\ PathOf(t) \in Accounts
    /\ fs[PathOf(t)].pb \in Blobs
    /\ Return(t, HeadersResp(loaders[Ssc(t)].android, fs[PathOf(t)].pb))
    /\ UNCHANGED <<req, filesAndSessions, nativeVars>>

AdiOtpRequestFails(t) ==
    /\ pc[t] = "otp" /\ Bound(t)
    /\ Fails(t)
    /\ UNCHANGED <<filesAndSessions, nativeVars>>

AdiStart(t) == Bound(t) /\ ProvisioningStart(t) /\ UNCHANGED nativeVars

\* A refused start or end removes the directory when it is empty; a missing
\* symbol leaves it.
AdiRefuses(t) ==
    /\ pc[t] = "act" /\ req[t].op \in {"start", "end"} /\ Bound(t)
    /\ RemoveDirectory(req[t].acct) \/ UNCHANGED <<fs, writers>>
    /\ Fails(t)
    /\ UNCHANGED <<sessions, minted, nativeVars>>

AdiEnd(t) ==
    /\ pc[t] = "act" /\ req[t].op = "end" /\ Bound(t)
    /\ req[t].session \in sessions
    /\ PathOf(t) \in Accounts
    /\ fs[PathOf(t)].dir
    /\ fs' = [fs EXCEPT ![PathOf(t)].pb = [acct |-> PathOf(t), session |-> req[t].session]]
    /\ sessions' = sessions \ {req[t].session}
    /\ Goto(t, "readback")
    /\ UNCHANGED <<req, resp, holder, writers, minted, nativeVars>>

\* The blob is read into the answer, whatever fread brought; the files are removed
\* before returning.
ReadAdiPb(t) ==
    /\ pc[t] = "readback"
    /\ fs[req[t].acct].pb # Absent
    /\ \E c \in Taken(fs[req[t].acct].pb) : resp' = [resp EXCEPT ![t] = PbResp(c)]
    /\ Goto(t, "unlink")
    /\ UNCHANGED <<req, holder, filesAndSessions, nativeVars>>

\* fopen failed: adi.pb, if it is there, stays, and the directory with it.
ReadAdiPbFails(t) ==
    /\ pc[t] = "readback"
    /\ "open" \in IoFaults \/ fs[req[t].acct].pb = Absent
    /\ RemoveDirectory(req[t].acct)
    /\ Fails(t)
    /\ UNCHANGED <<sessions, minted, nativeVars>>

\* Mistake: the directory is removed without the file in it.
UnlinkForgotten(t) ==
    /\ pc[t] = "unlink"
    /\ Goto(t, "rmdir")
    /\ UNCHANGED <<req, resp, holder, filesAndSessions, nativeVars>>

UnlinkAdiPb(t) ==
    /\ pc[t] = "unlink"
    /\ RemovePb(req[t].acct)
    /\ Goto(t, "rmdir")
    /\ UNCHANGED <<req, resp, holder, sessions, minted, nativeVars>>

RemoveUuidDir(t) ==
    /\ pc[t] = "rmdir"
    /\ RemoveDirectory(req[t].acct)
    /\ Goto(t, "done")
    /\ UNCHANGED <<req, resp, holder, sessions, minted, nativeVars>>

\* cancel_provision_c sets the library up like any other call, and answers what
\* ADIProvisioningDestroy answers; a missing symbol leaves the directory.
AdiCancel(t) ==
    /\ pc[t] = "act" /\ req[t].op = "cancel" /\ Bound(t)
    /\ \/ /\ RemoveDirectory(req[t].acct)
          /\ \/ sessions' = sessions \ {req[t].session} /\ Return(t, CancelledResp)
             \/ Return(t, ErrorResp) /\ UNCHANGED sessions
       \/ Return(t, ErrorResp) /\ UNCHANGED <<fs, writers, sessions>>
    /\ UNCHANGED <<req, minted, nativeVars>>

--------------------------------------------------------------------------------
CallBegins(t) ==
    /\ Serial => \A u \in Threads : pc[u] = "idle"
    /\ \E r \in Calls : Invoke(t, r)
    /\ mine' = [mine EXCEPT ![t] = 0]
    /\ UNCHANGED <<gSsc, gAdi, loaders, news>>

CallCollected(t) == Collect(t) /\ UNCHANGED nativeVars

NativeStep(t) ==
    \/ Enter(t) \/ DirectoryMissing(t) \/ CheckLoaded(t) \/ NewLoader(t) \/ Load(t)
    \/ LoadFails(t) \/ Link(t) \/ Boot(t) \/ BootFails(t) \/ MakeUuidDir(t)
    \/ SetPath(t) \/ SetAndroid(t) \/ SetterFails(t)
    \/ WriteBlobOpen(t) \/ WriteBlobSkip(t) \/ WriteBlobClose(t)
    \/ AdiOtpRequest(t) \/ AdiOtpRequestFails(t)
    \/ AdiStart(t) \/ AdiRefuses(t) \/ AdiEnd(t)
    \/ ReadAdiPb(t) \/ ReadAdiPbFails(t) \/ UnlinkAdiPb(t) \/ RemoveUuidDir(t)
    \/ AdiCancel(t)

Crash == ProviderCrash /\ NativeLost

Next ==
    \/ \E t \in Threads : CallBegins(t) \/ CallCollected(t) \/ NativeStep(t)
    \/ Crash

Spec == Init /\ [][Next]_vars

--------------------------------------------------------------------------------
(***************************************************************************)
(* Properties.                                                             *)
(***************************************************************************)
\* Every variable has its type.
TypeOK ==
    /\ pc \in [Threads -> NativePCs]
    /\ req \in [Threads -> Requests \cup {NoReq}]
    /\ resp \in [Threads -> Responses]
    /\ holder = NoThread
    /\ fs \in [Accounts -> DirState]
    /\ writers \subseteq Threads \X Accounts
    /\ sessions \subseteq minted /\ minted \subseteq Sessions
    /\ gSsc \in Pointers /\ gAdi \in Pointers
    /\ loaders \in [1..MaxLoaders -> Loader]
    /\ news \in Pointers
    /\ mine \in [Threads -> Pointers]

InLoading == {"newSsc", "loadSsc", "newAdi", "loadAdi", "link", "boot"}

\* No call is ever about to use a loader that is null, freed, or an image whose
\* imports are not bound yet.  (What would happen then is undefined: no step of
\* that call follows in the model, only the crash of the process.)
NoWildUse ==
    \A t \in Threads :
        /\ pc[t] \in {"loadSsc", "loadAdi"} => Loading(t) # 0
        /\ pc[t] = "link" => gSsc # 0 /\ gAdi # 0
        /\ pc[t] \in {"boot", "path", "android"} => ~Is(gSsc, {"raw", "loaded", "freed"})
        /\ pc[t] \in {"act", "otp"} => Bound(t)

\* Outside the loading of the libraries the globals are both null or both bound
\* to each other, and no other loader is left allocated: each failure path
\* takes back all that was made before it.
GlobalsWhole ==
    (\A t \in Threads : pc[t] \notin InLoading) =>
        /\ \/ gSsc = 0 /\ gAdi = 0
           \/ /\ Is(gSsc, {"linked"}) /\ loaders[gSsc].sib = gAdi
              /\ Is(gAdi, {"linked"}) /\ loaders[gAdi].sib = gSsc
        /\ \A o \in 1..MaxLoaders :
              loaders[o].st \in {"none", "freed"} \/ o \in {gSsc, gAdi}

\* A one-time password is computed with the caller's own hardware identifier
\* and from a blob of the caller's account: the one the caller passed, unless
\* adi.pb could not be opened and an older one was found there.
\* (AnisetteDataProvider is Sendable: calls may come from any number of threads.)
AnsweredForCaller ==
    \A t \in Threads : resp[t].kind = "headers" =>
        /\ resp[t].android = AndroidIdOf[req[t].acct]
        /\ resp[t].blob.acct = req[t].acct
        /\ Reliable({"make", "open"}) => resp[t].blob = req[t].pb

\* An end_provision_c that answers with a blob answers with the one its own
\* session minted, or with the zeros of a read that fell short, and leaves no copy
\* of it on disk, unless unlink failed.  (One that cannot open adi.pb again fails
\* and leaves the blob where it is: this speaks of calls that succeed.)
EndHandsOver ==
    \A t \in Threads : pc[t] = "done" /\ resp[t].kind = "pb" =>
        /\ \/ resp[t].blob = [acct |-> req[t].acct, session |-> req[t].session]
           \/ "read" \in IoFaults /\ resp[t].blob = Empty
        /\ Reliable({"remove"}) => fs[req[t].acct].pb = Absent
================================================================================
