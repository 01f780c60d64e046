---------------------------- MODULE NativeCoreProofs ----------------------------
(***************************************************************************)
(* Proofs about anisette_core_mac.cpp, for every number of threads,        *)
(* accounts, sessions and loaders: the types whatever the callers do, and, *)
(* when the callers wait for each other, that no call uses a loader that   *)
(* is not whole, that each failure takes back what was made before it, and *)
(* that every call answers for its own caller.                             *)
(***************************************************************************)
EXTENDS NativeCore, AdiProviderProofs

(***************************************************************************)
(* Type correctness.  It does not need the callers to be serial.           *)
(***************************************************************************)
RequestsKept == \A t \in Threads : pc[t] # "idle" => req[t] \in Requests

NativeTypes == TypeOK /\ RequestsKept

\* A loader whose fields are set to values of their types is a loader.
LEMMA LoaderTypes ==
    /\ NoLoader \in Loader
    /\ \A l \in Loader : /\ \A s \in {"none", "raw", "loaded", "linked", "freed"} :
                              [l EXCEPT !.st = s] \in Loader
                         /\ \A a \in Accounts : [l EXCEPT !.path = a] \in Loader
                         /\ \A i \in AndroidIds : [l EXCEPT !.android = i] \in Loader
                         /\ \A o \in Pointers : Linked(l, o) \in Loader
<1>1. NoLoader \in Loader
  BY NativeAssumption DEF NoLoader, Loader, Pointers
<1>2. ASSUME NEW l \in Loader PROVE
        /\ \A s \in {"none", "raw", "loaded", "linked", "freed"} : [l EXCEPT !.st = s] \in Loader
        /\ \A a \in Accounts : [l EXCEPT !.path = a] \in Loader
        /\ \A i \in AndroidIds : [l EXCEPT !.android = i] \in Loader
  BY DEF Loader
<1>3. ASSUME NEW l \in Loader, NEW o \in Pointers PROVE Linked(l, o) \in Loader
  BY DEF Loader, Linked
<1> QED BY <1>1, <1>2, <1>3

\* A move inside a call, and a return with an answer, are well typed.
LEMMA NativeGoto ==
    ASSUME TypeOK, NEW t \in Threads, NEW l \in NativePCs, Goto(t, l)
    PROVE  /\ pc' \in [Threads -> NativePCs]
           /\ \A u \in Threads : pc'[u] = IF u = t THEN l ELSE pc[u]
BY DEF TypeOK, Goto

LEMMA NativeReturn ==
    ASSUME TypeOK, NEW t \in Threads, NEW r \in Responses, Return(t, r)
    PROVE  /\ pc' \in [Threads -> NativePCs] /\ resp' \in [Threads -> Responses]
           /\ holder' = NoThread
           /\ \A u \in Threads : pc'[u] = IF u = t THEN "done" ELSE pc[u]
           /\ \A u \in Threads : resp'[u] = IF u = t THEN r ELSE resp[u]
BY DEF TypeOK, Return, Goto, NativePCs

\* A step inside the library belongs to a call that has begun and is not over,
\* and leaves every request as it is.
LEMMA NativeStepIsOwn ==
    ASSUME TypeOK, NEW t \in Threads, NativeStep(t)
    PROVE  /\ pc[t] \notin {"idle", "done"} /\ pc'[t] # "idle"
           /\ req' = req
           /\ \A u \in Threads \ {t} : pc'[u] = pc[u] /\ resp'[u] = resp[u]
BY DEF TypeOK, NativeStep, Goto, Return, Fails, Enter, DirectoryMissing, CheckLoaded, NewLoader,
       Load, LoadFails, Link, Boot, BootFails, MakeUuidDir, SetPath, SetAndroid, SetterFails,
       WriteBlobOpen, OpenBlob, WriteBlobSkip, OpenBlobFails, WriteBlobClose, FlushBlob,
       AdiOtpRequest, AdiOtpRequestFails, AdiStart, ProvisioningStart, AdiRefuses, AdiEnd,
       ReadAdiPb, ReadAdiPbFails, UnlinkAdiPb, RemoveUuidDir, AdiCancel

\* Deleting both loaders leaves loaders.
LEMMA DeleteTypes ==
    ASSUME TypeOK, DeleteBoth
    PROVE  /\ loaders' \in [1..MaxLoaders -> Loader]
           /\ gSsc' \in Pointers /\ gAdi' \in Pointers
<1>1. DOMAIN loaders = 1..MaxLoaders /\ 0 \in Pointers
  BY NativeAssumption DEF TypeOK, Pointers
<1>2. ASSUME NEW o \in 1..MaxLoaders
      PROVE  (IF o \in {gSsc, gAdi} THEN [loaders[o] EXCEPT !.st = "freed"] ELSE loaders[o]) \in Loader
  <2>1. loaders[o] \in Loader
    BY DEF TypeOK
  <2>2. [loaders[o] EXCEPT !.st = "freed"] \in Loader
    BY <2>1, LoaderTypes
  <2> QED BY <2>1, <2>2
<1> QED BY <1>1, <1>2 DEF DeleteBoth

\* The files and the sessions during a step.
LEMMA NativeFiles ==
    ASSUME NativeTypes, NEW t \in Threads, NativeStep(t)
    PROVE  /\ FilesTyped'
           /\ sessions' \subseteq minted' /\ minted' \subseteq Sessions
<1> USE DEF NativeTypes
<1>a. /\ req[t].acct \in Accounts /\ req[t].pb \in Contents
      /\ req[t].op = "end" => req[t].session \in Sessions
  BY NativeStepIsOwn, RequestFields DEF RequestsKept
<1>b. FilesTyped /\ sessions \subseteq minted /\ minted \subseteq Sessions
  BY DEF TypeOK, FilesTyped
<1>1. CASE UNCHANGED filesAndSessions
  BY <1>1, <1>b DEF FilesTyped, filesAndSessions
<1>2. ASSUME \/ RemovePb(req[t].acct) \/ MakeDirectory(req[t].acct)
             \/ RemoveDirectory(req[t].acct) \/ UNCHANGED <<fs, writers>>,
             UNCHANGED minted, sessions' \subseteq sessions
      PROVE  /\ FilesTyped'
             /\ sessions' \subseteq minted' /\ minted' \subseteq Sessions
  BY <1>2, <1>a, <1>b, HostOperationTypes DEF FilesTyped
<1>3. CASE WriteBlobOpen(t)
  BY <1>3, <1>a, <1>b, WriteTypes DEF WriteBlobOpen, OpenBlob
<1>4. CASE WriteBlobSkip(t) \/ AdiOtpRequest(t)
  BY <1>1, <1>4 DEF WriteBlobSkip, OpenBlobFails, AdiOtpRequest, filesAndSessions
<1>5. CASE WriteBlobClose(t)
  <2>1. PICK c \in Arrived(req[t].acct, req[t].pb) : WriteThrough(t, req[t].acct, c)
    BY <1>5 DEF WriteBlobClose, FlushBlob
  <2>2. c \in Contents
    BY <1>a, <1>b, ArrivedTypes
  <2> QED BY <1>5, <1>a, <1>b, <2>1, <2>2, WriteTypes DEF WriteBlobClose, FlushBlob
<1>6. CASE AdiStart(t)
  BY <1>6, <1>b DEF AdiStart, ProvisioningStart, FilesTyped
<1>7. CASE \/ MakeUuidDir(t) \/ AdiRefuses(t) \/ ReadAdiPbFails(t) \/ UnlinkAdiPb(t)
           \/ RemoveUuidDir(t) \/ AdiCancel(t)
  BY <1>2, <1>7 DEF MakeUuidDir, AdiRefuses, ReadAdiPbFails, UnlinkAdiPb, RemoveUuidDir, AdiCancel
<1>8. CASE AdiEnd(t)
  <2>1. [acct |-> PathOf(t), session |-> req[t].session] \in Contents
    BY <1>8, <1>a DEF AdiEnd, Contents, Blobs
  <2> QED BY <1>8, <1>b, <2>1 DEF AdiEnd, FilesTyped, DirState
<1> QED BY <1>1, <1>3, <1>4, <1>5, <1>6, <1>7, <1>8
        DEF NativeStep, Enter, DirectoryMissing, CheckLoaded, NewLoader, Load, LoadFails, Link,
            Boot, BootFails, SetPath, SetAndroid, SetterFails, AdiOtpRequestFails, ReadAdiPb

\* The calls and the loaders during a step.
LEMMA NativeTypeStep ==
    ASSUME NativeTypes, NEW t \in Threads, NativeStep(t)
    PROVE  NativeTypes'
<1> USE DEF NativeTypes
<1>a. /\ req[t] \in Requests /\ req[t].acct \in Accounts
      /\ AndroidIdOf[req[t].acct] \in AndroidIds
  BY NativeStepIsOwn, RequestFields DEF RequestsKept
<1>b. RequestsKept'
  BY NativeStepIsOwn DEF RequestsKept
<1>c. /\ fs' \in [Accounts -> DirState] /\ writers' \subseteq Threads \X Accounts
      /\ sessions' \subseteq minted' /\ minted' \subseteq Sessions
  BY NativeFiles DEF FilesTyped
<1>d. req' = req /\ req \in [Threads -> Requests \cup {NoReq}]
  BY NativeStepIsOwn DEF TypeOK
<1>e. NativePCs = {"idle", "wait", "setup", "newSsc", "loadSsc", "newAdi", "loadAdi",
              "link", "boot", "mkdir", "path", "android", "act", "flush", "otp",
              "readback", "unlink", "rmdir", "done"}
  BY DEF NativePCs
<1> DEFINE CallsTyped == /\ pc' \in [Threads -> NativePCs] /\ resp' \in [Threads -> Responses]
                         /\ holder' = NoThread
           LibsTyped  == /\ gSsc' \in Pointers /\ gAdi' \in Pointers
                         /\ loaders' \in [1..MaxLoaders -> Loader] /\ news' \in Pointers
                         /\ mine' \in [Threads -> Pointers]
<1> SUFFICES CallsTyped /\ LibsTyped
  BY <1>b, <1>c, <1>d DEF TypeOK
<1>f. ASSUME UNCHANGED nativeVars PROVE LibsTyped
  BY <1>f DEF TypeOK, nativeVars
<1>g. ASSUME NEW l \in NativePCs, Goto(t, l), UNCHANGED <<resp, holder>> PROVE CallsTyped
  BY <1>g, NativeGoto DEF TypeOK
<1>h. ASSUME NEW r \in Responses, Return(t, r) PROVE CallsTyped
  BY <1>h, NativeReturn
<1>i. ASSUME Fails(t) PROVE CallsTyped
  BY <1>h, <1>i, ResponseTypes DEF Fails
<1> HIDE DEF CallsTyped, LibsTyped
<1>1. CASE \/ Enter(t) \/ DirectoryMissing(t) \/ CheckLoaded(t) \/ Boot(t) \/ MakeUuidDir(t)
           \/ SetterFails(t) \/ AdiOtpRequestFails(t) \/ AdiRefuses(t) \/ AdiEnd(t)
           \/ UnlinkAdiPb(t) \/ RemoveUuidDir(t) \/ WriteBlobOpen(t) \/ WriteBlobSkip(t)
           \/ WriteBlobClose(t) \/ ReadAdiPbFails(t)
  BY <1>1, <1>e, <1>f, <1>g, <1>i
     DEF Enter, DirectoryMissing, CheckLoaded, Boot, MakeUuidDir, SetterFails,
         AdiOtpRequestFails, AdiRefuses, AdiEnd, UnlinkAdiPb, RemoveUuidDir, WriteBlobOpen,
         OpenBlob, WriteBlobSkip, OpenBlobFails, WriteBlobClose, FlushBlob, ReadAdiPbFails
<1>2. CASE NewLoader(t)
  <2>1. CallsTyped
    BY <1>2, <1>e, <1>g DEF NewLoader
  <2>2. news' \in 1..MaxLoaders
    BY <1>2, NativeAssumption DEF NewLoader, TypeOK, Pointers
  <2>3. loaders' \in [1..MaxLoaders -> Loader]
    <3>1. loaders[news'] \in Loader /\ [loaders[news'] EXCEPT !.st = "raw"] \in Loader
      BY <2>2, LoaderTypes DEF TypeOK
    <3> QED BY <1>2, <2>2, <3>1 DEF NewLoader, TypeOK
  <2>4. LibsTyped
    BY <1>2, <2>2, <2>3, NativeAssumption DEF NewLoader, TypeOK, LibsTyped, Pointers
  <2> QED BY <2>1, <2>4
<1>3. CASE Load(t)
  <2>1. CallsTyped
    BY <1>3, <1>e, <1>g DEF Load
  <2>2. LibsTyped
    BY <1>3, LoaderTypes DEF Load, TypeOK, LibsTyped
  <2> QED BY <2>1, <2>2
<1>4. CASE LoadFails(t)
  <2>1. ASSUME DeleteBoth PROVE LibsTyped
    BY <1>4, <2>1, DeleteTypes DEF LoadFails, TypeOK, LibsTyped
  <2>2. ASSUME loaders' = [loaders EXCEPT ![gSsc].st = "freed"], gSsc' = 0, UNCHANGED gAdi
        PROVE  LibsTyped
    <3>1. loaders' \in [1..MaxLoaders -> Loader]
      BY <2>2, LoaderTypes DEF TypeOK
    <3> QED BY <1>4, <2>2, <3>1, NativeAssumption DEF LoadFails, TypeOK, LibsTyped, Pointers
  <2>3. LibsTyped
    BY <1>4, <2>1, <2>2 DEF LoadFails
  <2> QED BY <1>4, <1>i, <2>3 DEF LoadFails
<1>5. CASE Link(t)
  <2>1. CallsTyped
    BY <1>5, <1>e, <1>g DEF Link
  <2>2. gSsc \in 1..MaxLoaders /\ gAdi \in 1..MaxLoaders
    BY <1>5 DEF Link, TypeOK, Pointers
  <2>3. loaders' \in [1..MaxLoaders -> Loader]
    BY <1>5, <2>2, LoaderTypes DEF Link, TypeOK
  <2> QED BY <1>5, <2>1, <2>3 DEF Link, TypeOK, LibsTyped
<1>6. CASE BootFails(t)
  <2>1. LibsTyped
    BY <1>6, DeleteTypes DEF BootFails, TypeOK, LibsTyped
  <2> QED BY <1>6, <1>i, <2>1 DEF BootFails
<1>7. CASE SetPath(t)
  <2>1. CallsTyped
    BY <1>7, <1>e, <1>g DEF SetPath
  <2>2. LibsTyped
    BY <1>7, <1>a, LoaderTypes DEF SetPath, TypeOK, LibsTyped
  <2> QED BY <2>1, <2>2
<1>8. CASE SetAndroid(t)
  <2>1. CallsTyped
    BY <1>8, <1>e, <1>g, <1>i DEF SetAndroid
  <2>2. LibsTyped
    BY <1>8, <1>a, LoaderTypes DEF SetAndroid, TypeOK, LibsTyped
  <2> QED BY <2>1, <2>2
<1>9. CASE AdiOtpRequest(t)
  <2>1. loaders[Ssc(t)].android \in AndroidIds \cup {NoAndroid}
    <3>1. Ssc(t) \in 1..MaxLoaders
      BY <1>9 DEF AdiOtpRequest, Bound, Is, Ssc, TypeOK, Pointers, Loader
    <3> QED BY <3>1 DEF TypeOK, Loader
  <2>2. HeadersResp(loaders[Ssc(t)].android, fs[PathOf(t)].pb) \in Responses
    BY <1>9, <2>1, ResponseTypes DEF AdiOtpRequest, Contents
  <2> QED BY <1>9, <1>f, <1>h, <2>2 DEF AdiOtpRequest
<1>10. CASE AdiStart(t)
  BY <1>10, <1>f, <1>h, ResponseTypes DEF AdiStart, ProvisioningStart
<1>11. CASE ReadAdiPb(t)
  <2>1. PICK c \in Taken(fs[req[t].acct].pb) : resp' = [resp EXCEPT ![t] = PbResp(c)]
    BY <1>11 DEF ReadAdiPb
  <2>2. PbResp(c) \in Responses
    BY <1>a, TakenTypes, ResponseTypes DEF TypeOK, DirState
  <2>3. CallsTyped
    BY <1>11, <1>e, <2>1, <2>2, NativeGoto DEF ReadAdiPb, TypeOK, CallsTyped
  <2> QED BY <1>11, <1>f, <2>3 DEF ReadAdiPb
<1>12. CASE AdiCancel(t)
  <2>1. Return(t, CancelledResp) \/ Return(t, ErrorResp)
    BY <1>12 DEF AdiCancel
  <2> QED BY <1>12, <1>f, <1>h, <2>1, ResponseTypes DEF AdiCancel
<1> QED BY <1>1, <1>2, <1>3, <1>4, <1>5, <1>6, <1>7, <1>8, <1>9, <1>10, <1>11, <1>12
        DEF NativeStep

\* Before the first call, at the beginning and the end of a call, and when the
\* process dies.
LEMMA NativeTypeNext ==
    /\ Init => NativeTypes
    /\ NativeTypes /\ [Next]_vars => NativeTypes'
<1>a. /\ Blank \in Responses /\ NoLoader \in Loader /\ 0 \in Pointers
      /\ "idle" \in NativePCs /\ "wait" \in NativePCs /\ NoDir \in DirState
  BY ResponseTypes, LoaderTypes, NativeAssumption
     DEF Pointers, NativePCs, NoDir, DirState, Contents
<1>1. ASSUME Init PROVE NativeTypes
  BY <1>1, <1>a DEF Init, ProviderInit, NativeInit, NativeTypes, TypeOK, RequestsKept
<1>2. ASSUME NativeTypes, NEW t \in Threads, CallBegins(t) PROVE NativeTypes'
  <2>1. PICK r \in Calls : Invoke(t, r)
    BY <1>2 DEF CallBegins
  <2> QED BY <1>2, <1>a, <2>1, CallsAssumption
          DEF CallBegins, Invoke, Goto, NativeTypes, TypeOK, RequestsKept
<1>3. ASSUME NativeTypes, NEW t \in Threads, CallCollected(t) PROVE NativeTypes'
  BY <1>3, <1>a DEF CallCollected, Collect, Goto, nativeVars, NativeTypes, TypeOK, RequestsKept
<1>4. ASSUME NativeTypes, Crash PROVE NativeTypes'
  BY <1>4, <1>a DEF Crash, ProviderCrash, NativeLost, NativeTypes, TypeOK, RequestsKept
<1>5. ASSUME NativeTypes, UNCHANGED vars PROVE NativeTypes'
  BY <1>5 DEF vars, providerVars, nativeVars, NativeTypes, TypeOK, RequestsKept
<1> QED BY <1>1, <1>2, <1>3, <1>4, <1>5, NativeTypeStep DEF Next

\* Every variable keeps its type, whatever the callers do at the same time: the
\* pointers point into the loaders, and there is no mutex to hold.
THEOREM NativeTypeCorrect == Spec => []TypeOK
<1>1. NativeTypes => TypeOK
  BY DEF NativeTypes
<1> QED BY <1>1, NativeTypeNext, PTL DEF Spec

(***************************************************************************)
(* Serial callers.  The inductive invariant: what the globals and the      *)
(* loaders are at each point of load_adi_and_setup, and what is already    *)
(* settled about the call under way.                                       *)
(***************************************************************************)
\* The caller of get_anisette_headers passes a blob of its own account, or none.
OwnBlobs == \A r \in Calls : r.pb \in Blobs => r.pb.acct = r.acct

OneCall == \A t, u \in Threads : pc[t] # "idle" /\ pc[u] # "idle" => t = u

\* A loader nothing has been bound to yet.
Fresh(o, st) == o # 0 /\ loaders[o].st = st /\ loaders[o].sib = 0

Siblings ==
    /\ gSsc # 0 /\ loaders[gSsc].st = "linked" /\ loaders[gSsc].sib = gAdi
    /\ gAdi # 0 /\ loaders[gAdi].st = "linked" /\ loaders[gAdi].sib = gSsc

\* What load_adi_and_setup has made so far, by the place it is at.
AfterLoading == {"boot", "mkdir", "path", "android", "act", "flush", "otp"}

Stage(l) ==
    /\ l = "newSsc"  => gSsc = 0 /\ gAdi = 0
    /\ l = "loadSsc" => Fresh(gSsc, "raw") /\ gAdi = 0
    /\ l = "newAdi"  => Fresh(gSsc, "loaded") /\ gAdi = 0
    /\ l = "loadAdi" => Fresh(gSsc, "loaded") /\ Fresh(gAdi, "raw")
    /\ l = "link"    => Fresh(gSsc, "loaded") /\ Fresh(gAdi, "loaded") /\ gSsc # gAdi
    /\ l \in AfterLoading => Siblings
    /\ l \notin InLoading => Siblings \/ (gSsc = 0 /\ gAdi = 0)

LibrariesInv ==
    /\ \A t \in Threads : pc[t] # "idle" => Stage(pc[t])
    /\ (\A t \in Threads : pc[t] = "idle") => Stage("idle")
    /\ \A t \in Threads : pc[t] \in {"act", "flush", "otp"} => mine[t] = gAdi
    /\ gSsc <= news /\ gAdi <= news
    /\ \A o \in 1..MaxLoaders :
          /\ o > news => loaders[o] = NoLoader
          /\ o \notin {gSsc, gAdi} => loaders[o].st \in {"none", "freed"}

SelectedInv ==
    \A t \in Threads :
        /\ pc[t] \in {"android", "act", "flush", "otp"} => loaders[gSsc].path = req[t].acct
        /\ pc[t] \in {"act", "flush", "otp"} =>
              loaders[gSsc].android = AndroidIdOf[req[t].acct]

\* Where the blob of the call under way is.
BlobWhere(t) ==
    LET a == req[t].acct
        own == [acct |-> a, session |-> req[t].session]
    IN  /\ pc[t] \in {"flush", "otp"} => req[t].op = "headers"
        /\ pc[t] \in {"path", "android", "act"} => fs[a].dir \/ "make" \in IoFaults
        /\ pc[t] = "flush" => <<t, a>> \in writers /\ fs[a].pb = Empty
        /\ pc[t] = "otp" => fs[a].pb \in {req[t].pb, Empty} \/ ~Reliable({"make", "open"})
        /\ pc[t] \in {"readback", "unlink", "rmdir"} => req[t].op = "end"
        /\ pc[t] = "readback" => fs[a].pb = own
        /\ pc[t] \in {"unlink", "rmdir"} => \E c \in Taken(own) : resp[t] = PbResp(c)
        /\ pc[t] = "rmdir" => fs[a].pb = Absent \/ ~Reliable({"remove"})
        /\ pc[t] \notin {"unlink", "rmdir", "done"} => resp[t] = Blank

BlobInv ==
    /\ OwnBlobs => \A a \in Accounts : fs[a].pb \in Blobs => fs[a].pb.acct = a
    /\ OwnBlobs => \A t \in Threads : req[t].pb \in Blobs => req[t].pb.acct = req[t].acct
    /\ \A t \in Threads : BlobWhere(t)

\* While one call is under way no other is.
LEMMA OthersIdle ==
    ASSUME OneCall, NEW t \in Threads, pc[t] # "idle"
    PROVE  \A u \in Threads \ {t} : pc[u] = "idle"
BY DEF OneCall

\* Most steps leave the loaders alone and only move on.
LEMMA LoadersUntouched ==
    ASSUME TypeOK, OneCall, LibrariesInv, NEW t \in Threads, pc[t] # "idle", NEW l \in NativePCs,
           \A u \in Threads : pc'[u] = IF u = t THEN l ELSE pc[u],
           UNCHANGED <<gSsc, gAdi, loaders, news, mine>>, l # "idle", Stage(l),
           l \in {"act", "flush", "otp"} => mine[t] = gAdi
    PROVE  LibrariesInv'
<1>1. \A u \in Threads : pc'[u] # "idle" => u = t
  BY OthersIdle
<1>2. Stage(l)'
  BY DEF Stage, Siblings, Fresh
<1> QED BY <1>1, <1>2 DEF LibrariesInv

\* A step of load_adi_and_setup that changes the loaders: what has to be shown.
LEMMA LoadersChanged ==
    ASSUME TypeOK, OneCall, LibrariesInv, NEW t \in Threads, pc[t] # "idle", NEW l \in NativePCs,
           \A u \in Threads : pc'[u] = IF u = t THEN l ELSE pc[u],
           l # "idle", Stage(l)', l \in {"act", "flush", "otp"} => mine'[t] = gAdi',
           gSsc' <= news', gAdi' <= news',
           \A o \in 1..MaxLoaders :
              /\ o > news' => loaders'[o] = NoLoader
              /\ o \notin {gSsc', gAdi'} => loaders'[o].st \in {"none", "freed"}
    PROVE  LibrariesInv'
<1>1. \A u \in Threads : pc'[u] # "idle" => u = t
  BY OthersIdle
<1> QED BY <1>1 DEF LibrariesInv

LEMMA LibrariesStep ==
    ASSUME TypeOK, OneCall, LibrariesInv, NEW t \in Threads, NativeStep(t)
    PROVE  LibrariesInv'
<1>a. pc[t] # "idle" /\ Stage(pc[t]) /\ pc[t] \in NativePCs
  BY NativeStepIsOwn DEF LibrariesInv, TypeOK
<1>b. /\ gSsc \in 0..MaxLoaders /\ gAdi \in 0..MaxLoaders /\ news \in 0..MaxLoaders
      /\ loaders \in [1..MaxLoaders -> Loader] /\ MaxLoaders \in Nat
      /\ gSsc <= news /\ gAdi <= news
      /\ \A o \in 1..MaxLoaders :
            /\ o > news => loaders[o] = NoLoader
            /\ o \notin {gSsc, gAdi} => loaders[o].st \in {"none", "freed"}
      /\ pc[t] \in {"act", "flush", "otp"} => mine[t] = gAdi
  BY NativeAssumption DEF TypeOK, LibrariesInv, Pointers
<1>p. /\ NativePCs = {"idle", "wait", "setup", "newSsc", "loadSsc", "newAdi", "loadAdi",
              "link", "boot", "mkdir", "path", "android", "act", "flush", "otp",
              "readback", "unlink", "rmdir", "done"}
      /\ AfterLoading = {"boot", "mkdir", "path", "android", "act", "flush", "otp"}
      /\ InLoading = {"newSsc", "loadSsc", "newAdi", "loadAdi", "link", "boot"}
  BY DEF NativePCs, AfterLoading, InLoading
<1>c. ASSUME NEW l \in NativePCs, Goto(t, l), UNCHANGED nativeVars, l # "idle", Stage(l),
             l \in {"act", "flush", "otp"} => mine[t] = gAdi
      PROVE  LibrariesInv'
  BY <1>a, <1>c, NativeGoto, LoadersUntouched DEF nativeVars
<1>d. ASSUME NEW l \in NativePCs, Goto(t, l), l # "idle", Stage(l)',
             l \in {"act", "flush", "otp"} => mine'[t] = gAdi',
             gSsc' <= news', gAdi' <= news',
             \A o \in 1..MaxLoaders :
                /\ o > news' => loaders'[o] = NoLoader
                /\ o \notin {gSsc', gAdi'} => loaders'[o].st \in {"none", "freed"}
      PROVE  LibrariesInv'
  BY <1>a, <1>d, NativeGoto, LoadersChanged
<1>e. ASSUME DeleteBoth, Goto(t, "done"), UNCHANGED news, pc[t] \in {"loadAdi", "boot"}
      PROVE  LibrariesInv'
  <2>1. Stage("done")'
    BY <1>e, <1>p DEF DeleteBoth, Stage
  <2>2. \A o \in 1..MaxLoaders :
           /\ o > news' => loaders'[o] = NoLoader
           /\ o \notin {gSsc', gAdi'} => loaders'[o].st \in {"none", "freed"}
    <3>1. TAKE o \in 1..MaxLoaders
    <3>2. loaders'[o] = IF o \in {gSsc, gAdi} THEN [loaders[o] EXCEPT !.st = "freed"]
                                             ELSE loaders[o]
      BY <1>b, <1>e DEF DeleteBoth
    <3>3. loaders[o] \in Loader
      BY <1>b
    <3> QED BY <1>b, <1>e, <3>2, <3>3 DEF Loader
  <2> QED BY <1>b, <1>d, <1>e, <1>p, <2>1, <2>2 DEF DeleteBoth
<1>1. CASE Enter(t)
  BY <1>1, <1>a, <1>c, <1>p DEF Enter, Stage
<1>2. CASE \/ DirectoryMissing(t) \/ SetterFails(t) \/ AdiOtpRequestFails(t) \/ AdiStart(t)
           \/ AdiRefuses(t) \/ AdiCancel(t) \/ AdiOtpRequest(t) \/ ReadAdiPbFails(t)
  <2>1. Goto(t, "done") /\ UNCHANGED nativeVars /\ Stage("done")
    BY <1>2, <1>a, <1>p
       DEF DirectoryMissing, SetterFails, AdiOtpRequestFails, AdiStart, ProvisioningStart,
           AdiRefuses, AdiCancel, AdiOtpRequest, ReadAdiPbFails, Fails, Return, Stage
  <2> QED BY <1>c, <1>p, <2>1
<1>3. CASE CheckLoaded(t)
  BY <1>3, <1>a, <1>c, <1>p DEF CheckLoaded, Stage, Siblings
<1>4. CASE NewLoader(t)
  <2>1. /\ news' = news + 1 /\ news' \in 1..MaxLoaders
        /\ \A o \in 1..MaxLoaders :
              loaders'[o] = IF o = news' THEN [loaders[o] EXCEPT !.st = "raw"] ELSE loaders[o]
        /\ [loaders[news'] EXCEPT !.st = "raw"] = [NoLoader EXCEPT !.st = "raw"]
    BY <1>4, <1>b DEF NewLoader
  <2>2. [NoLoader EXCEPT !.st = "raw"].st = "raw" /\ [NoLoader EXCEPT !.st = "raw"].sib = 0
    BY DEF NoLoader
  <2>3. CASE pc[t] = "newSsc"
    <3>1. Stage("loadSsc")'
      BY <1>4, <1>a, <1>b, <1>p, <2>1, <2>2, <2>3 DEF NewLoader, Stage, Fresh
    <3> QED BY <1>4, <1>a, <1>b, <1>d, <1>p, <2>1, <2>2, <2>3, <3>1 DEF NewLoader, Stage
  <2>4. CASE pc[t] = "newAdi"
    <3>1. Stage("loadAdi")'
      BY <1>4, <1>a, <1>b, <1>p, <2>1, <2>2, <2>4 DEF NewLoader, Stage, Fresh
    <3> QED BY <1>4, <1>a, <1>b, <1>d, <1>p, <2>1, <2>2, <2>4, <3>1 DEF NewLoader, Stage
  <2> QED BY <1>4, <2>3, <2>4 DEF NewLoader
<1>5. CASE Load(t)
  <2> DEFINE x == Loading(t)
  <2>1. /\ x \in 1..MaxLoaders /\ x \in {gSsc, gAdi} /\ loaders[x] \in Loader
        /\ \A o \in 1..MaxLoaders :
              loaders'[o] = IF o = x THEN [loaders[o] EXCEPT !.st = "loaded"] ELSE loaders[o]
    BY <1>5, <1>b DEF Load, Loading, Is
  <2>2. /\ [loaders[x] EXCEPT !.st = "loaded"].st = "loaded"
        /\ [loaders[x] EXCEPT !.st = "loaded"].sib = loaders[x].sib
    BY <2>1 DEF Loader
  <2>3. CASE pc[t] = "loadSsc"
    <3>1. x = gSsc
      BY <2>3 DEF Loading
    <3> HIDE DEF x
    <3>2. Stage("newAdi")'
      BY <1>5, <1>a, <1>p, <2>1, <2>2, <2>3, <3>1 DEF Load, Stage, Fresh
    <3>3. Goto(t, "newAdi") /\ UNCHANGED <<gSsc, gAdi, news>>
      BY <1>5, <2>3 DEF Load
    <3>4. \A o \in 1..MaxLoaders :
             /\ o > news' => loaders'[o] = NoLoader
             /\ o \notin {gSsc', gAdi'} => loaders'[o].st \in {"none", "freed"}
      <4>1. TAKE o \in 1..MaxLoaders
      <4>2. CASE o = x
        BY <1>b, <4>2, <2>1, <3>3
      <4>3. CASE o # x
        <5>1. loaders'[o] = loaders[o]
          BY <4>3, <2>1, <3>3
        <5> QED BY <1>b, <4>3, <5>1, <2>1, <3>3
      <4> QED BY <4>2, <4>3
    <3> QED BY <1>b, <1>d, <1>p, <3>2, <3>3, <3>4
  <2>4. CASE pc[t] = "loadAdi"
    <3>1. x = gAdi
      BY <2>4 DEF Loading
    <3> HIDE DEF x
    <3>2. gSsc # gAdi /\ gSsc \in 1..MaxLoaders
      BY <1>a, <1>b, <2>4 DEF Stage, Fresh
    <3>3. Stage("link")'
      BY <1>5, <1>a, <1>p, <2>1, <2>2, <2>4, <3>1, <3>2 DEF Load, Stage, Fresh
    <3>4. Goto(t, "link") /\ UNCHANGED <<gSsc, gAdi, news>>
      BY <1>5, <2>4 DEF Load
    <3>5. \A o \in 1..MaxLoaders :
             /\ o > news' => loaders'[o] = NoLoader
             /\ o \notin {gSsc', gAdi'} => loaders'[o].st \in {"none", "freed"}
      <4>1. TAKE o \in 1..MaxLoaders
      <4>2. CASE o = x
        BY <1>b, <4>2, <2>1, <3>4
      <4>3. CASE o # x
        <5>1. loaders'[o] = loaders[o]
          BY <4>3, <2>1, <3>4
        <5> QED BY <1>b, <4>3, <5>1, <2>1, <3>4
      <4> QED BY <4>2, <4>3
    <3> QED BY <1>b, <1>d, <1>p, <3>3, <3>4, <3>5
  <2> QED BY <1>5, <2>3, <2>4 DEF Load
<1>6. CASE LoadFails(t)
  <2>1. CASE pc[t] = "loadSsc"
    <3>1. gAdi = 0 /\ gSsc \in 1..MaxLoaders /\ loaders[gSsc] \in Loader
      BY <1>a, <1>b, <2>1 DEF Stage, Fresh
    <3>2. Stage("done")'
      BY <1>6, <1>p, <2>1, <3>1 DEF LoadFails, Stage
    <3>3. \A o \in 1..MaxLoaders :
             loaders'[o] = IF o = gSsc THEN [loaders[o] EXCEPT !.st = "freed"] ELSE loaders[o]
      BY <1>6, <1>b, <2>1, <3>1 DEF LoadFails
    <3>4. loaders'[gSsc].st = "freed"
      BY <3>1, <3>3 DEF Loader
    <3>5. Goto(t, "done") /\ gSsc' = 0 /\ gAdi' = 0 /\ news' = news
      BY <1>6, <2>1, <3>1 DEF LoadFails, Fails, Return
    <3>6. \A o \in 1..MaxLoaders :
             /\ o > news' => loaders'[o] = NoLoader
             /\ o \notin {gSsc', gAdi'} => loaders'[o].st \in {"none", "freed"}
      <4>1. TAKE o \in 1..MaxLoaders
      <4>2. CASE o = gSsc
        BY <1>b, <4>2, <3>1, <3>3, <3>4, <3>5
      <4>3. CASE o # gSsc
        <5>1. loaders'[o] = loaders[o]
          BY <4>3, <3>1, <3>3, <3>4, <3>5
        <5> QED BY <1>b, <4>3, <5>1, <3>1, <3>3, <3>4, <3>5
      <4> QED BY <4>2, <4>3
    <3> QED BY <1>b, <1>d, <1>p, <3>2, <3>5, <3>6
  <2>2. CASE pc[t] = "loadAdi"
    BY <1>6, <1>e, <2>2 DEF LoadFails, Fails, Return
  <2> QED BY <1>6, <2>1, <2>2 DEF LoadFails
<1>7. CASE Link(t)
  <2>1. /\ Fresh(gSsc, "loaded") /\ Fresh(gAdi, "loaded") /\ gSsc # gAdi
        /\ gSsc \in 1..MaxLoaders /\ gAdi \in 1..MaxLoaders
        /\ loaders[gSsc] \in Loader /\ loaders[gAdi] \in Loader
    BY <1>7, <1>a, <1>b DEF Link, Stage, Fresh
  <2>2. \A o \in 1..MaxLoaders :
           loaders'[o] = IF o = gSsc THEN Linked(loaders[o], gAdi)
                         ELSE IF o = gAdi THEN Linked(loaders[o], gSsc) ELSE loaders[o]
    BY <1>7, <1>b, <2>1 DEF Link
  <2>3. \A l \in Loader, o \in 0..MaxLoaders :
           l.st = "loaded" /\ l.sib = 0 => Linked(l, o).st = "linked" /\ Linked(l, o).sib = o
    BY DEF Linked, Loader, Pointers
  <2>4. Siblings'
    BY <1>7, <1>b, <2>1, <2>2, <2>3 DEF Link, Siblings, Fresh
  <2>5. Stage("boot")'
    BY <2>4, <1>p DEF Stage
  <2>6. Goto(t, "boot") /\ UNCHANGED <<gSsc, gAdi, news>>
    BY <1>7 DEF Link
  <2>7. \A o \in 1..MaxLoaders :
           /\ o > news' => loaders'[o] = NoLoader
           /\ o \notin {gSsc', gAdi'} => loaders'[o].st \in {"none", "freed"}
    BY <1>b, <2>1, <2>2, <2>6
  <2> QED BY <1>b, <1>d, <1>p, <2>5, <2>6, <2>7
<1>8. CASE Boot(t)
  BY <1>8, <1>a, <1>c, <1>p DEF Boot, Stage
<1>9. CASE BootFails(t)
  BY <1>9, <1>e DEF BootFails, Fails, Return
<1>10. CASE MakeUuidDir(t)
  BY <1>10, <1>a, <1>c, <1>p DEF MakeUuidDir, Stage
<1>11. CASE SetPath(t) \/ SetAndroid(t)
  <2>1. Siblings /\ gSsc \in 1..MaxLoaders /\ gAdi \in 1..MaxLoaders /\ loaders[gSsc] \in Loader
    BY <1>11, <1>a, <1>b, <1>p DEF SetPath, SetAndroid, Stage, Siblings
  <2>2. /\ \A o \in (1..MaxLoaders) \ {gSsc} : loaders'[o] = loaders[o]
        /\ loaders'[gSsc].st = loaders[gSsc].st /\ loaders'[gSsc].sib = loaders[gSsc].sib
    BY <1>11, <1>b, <2>1 DEF SetPath, SetAndroid, Loader
  <2>3. UNCHANGED <<gSsc, gAdi, news>>
    BY <1>11 DEF SetPath, SetAndroid
  <2>4. Siblings'
    BY <2>1, <2>2, <2>3 DEF Siblings
  <2>5. Stage("android")' /\ Stage("act")'
    BY <1>p, <2>4 DEF Stage
  <2>6. CASE SetPath(t)
    BY <1>b, <1>d, <1>p, <2>1, <2>2, <2>3, <2>5, <2>6 DEF SetPath
  <2>7. CASE SetAndroid(t)
    <3>1. Goto(t, "act") /\ mine'[t] = gAdi'
      BY <2>1, <2>7 DEF SetAndroid, TypeOK
    <3> QED BY <1>b, <1>d, <1>p, <2>1, <2>2, <2>3, <2>5, <3>1
  <2> QED BY <1>11, <2>6, <2>7
<1>12. CASE WriteBlobOpen(t) \/ WriteBlobSkip(t) \/ WriteBlobClose(t)
  <2>1. /\ UNCHANGED nativeVars /\ Stage("flush") /\ Stage("otp") /\ mine[t] = gAdi
        /\ Goto(t, "flush") \/ Goto(t, "otp")
    BY <1>12, <1>a, <1>b, <1>p
       DEF WriteBlobOpen, OpenBlob, WriteBlobSkip, OpenBlobFails, WriteBlobClose, FlushBlob, Stage
  <2> QED BY <1>c, <1>p, <2>1
<1>13. CASE AdiEnd(t) \/ ReadAdiPb(t) \/ UnlinkAdiPb(t) \/ RemoveUuidDir(t)
  <2>1. /\ UNCHANGED nativeVars
        /\ \E l \in {"readback", "unlink", "rmdir", "done"} : Goto(t, l) /\ Stage(l)
    BY <1>13, <1>a, <1>p
       DEF AdiEnd, ReadAdiPb, UnlinkAdiPb, RemoveUuidDir, Fails, Return, Stage
  <2> QED BY <1>c, <1>p, <2>1
<1> QED BY <1>1, <1>2, <1>3, <1>4, <1>5, <1>6, <1>7, <1>8, <1>9, <1>10, <1>11, <1>12, <1>13
        DEF NativeStep

\* Telling the library the caller's directory and identifier.
LEMMA SelectedStep ==
    ASSUME NativeTypes, OneCall, LibrariesInv, SelectedInv, NEW t \in Threads, NativeStep(t)
    PROVE  SelectedInv'
<1> USE DEF NativeTypes
<1>a. /\ pc[t] # "idle" /\ Stage(pc[t]) /\ req' = req
      /\ \A u \in Threads \ {t} : pc'[u] = "idle"
  BY NativeStepIsOwn, OthersIdle DEF LibrariesInv
<1>b. req[t].acct \in Accounts /\ AndroidIdOf[req[t].acct] \in AndroidIds
  BY NativeStepIsOwn, RequestFields DEF RequestsKept
<1>s. SUFFICES
        /\ pc'[t] \in {"android", "act", "flush", "otp"} => loaders'[gSsc'].path = req[t].acct
        /\ pc'[t] \in {"act", "flush", "otp"} =>
              loaders'[gSsc'].android = AndroidIdOf[req[t].acct]
  BY <1>a DEF SelectedInv
<1>1. CASE SetPath(t)
  <2>1. pc'[t] = "android" /\ gSsc' = gSsc
    BY <1>1 DEF SetPath, Goto, TypeOK
  <2>2. gSsc \in 1..MaxLoaders /\ loaders[gSsc] \in Loader
    BY <1>1 DEF SetPath, Is, TypeOK, Pointers
  <2>3. loaders'[gSsc].path = req[t].acct
    BY <1>1, <2>2 DEF SetPath, TypeOK, Loader
  <2> QED BY <2>1, <2>3
<1>2. CASE SetAndroid(t)
  <2>1. gSsc' = gSsc /\ loaders[gSsc].path = req[t].acct
    BY <1>2 DEF SetAndroid, SelectedInv
  <2>2. gSsc \in 1..MaxLoaders /\ loaders[gSsc] \in Loader
    BY <1>2 DEF SetAndroid, Is, TypeOK, Pointers
  <2>3. /\ loaders'[gSsc].android = AndroidIdOf[req[t].acct]
        /\ loaders'[gSsc].path = loaders[gSsc].path
    BY <1>2, <2>2 DEF SetAndroid, TypeOK, Loader
  <2> QED BY <2>1, <2>3
<1>3. CASE WriteBlobOpen(t) \/ WriteBlobSkip(t) \/ WriteBlobClose(t)
  BY <1>3 DEF SelectedInv, nativeVars, WriteBlobOpen, OpenBlob, WriteBlobSkip, OpenBlobFails,
              WriteBlobClose, FlushBlob
<1>4. CASE pc'[t] \notin {"android", "act", "flush", "otp"}
  BY <1>4
<1>5. CASE pc'[t] \in {"android", "act", "flush", "otp"}
  BY <1>1, <1>2, <1>3, <1>5
     DEF TypeOK, NativeStep, Goto, Return, Fails, Enter, DirectoryMissing, CheckLoaded, NewLoader,
         Load, LoadFails, Link, Boot, BootFails, MakeUuidDir, SetterFails,
         AdiOtpRequest, AdiOtpRequestFails, AdiStart, ProvisioningStart, AdiRefuses, AdiEnd,
         ReadAdiPb, ReadAdiPbFails, UnlinkAdiPb, RemoveUuidDir, AdiCancel
<1> QED BY <1>4, <1>5

(***************************************************************************)
(* The blob and the answer.                                                *)
(***************************************************************************)
AnswersInv == (OwnBlobs => AnsweredForCaller) /\ EndHandsOver

\* Where the ADI library works while a call is in it.
LEMMA AtLibrary ==
    ASSUME TypeOK, LibrariesInv, SelectedInv, NEW t \in Threads, pc[t] \in {"act", "otp"}
    PROVE  /\ Bound(t) /\ PathOf(t) = req[t].acct
           /\ loaders[Ssc(t)].android = AndroidIdOf[req[t].acct]
<1>1. Siblings /\ mine[t] = gAdi
  BY DEF LibrariesInv, Stage, AfterLoading
<1>2. Ssc(t) = gSsc
  BY <1>1 DEF Siblings, Ssc
<1> QED BY <1>1, <1>2 DEF Siblings, Bound, Is, PathOf, SelectedInv

LEMMA BlobStep ==
    ASSUME NativeTypes, OneCall, LibrariesInv, SelectedInv, BlobInv, AnswersInv,
           NEW t \in Threads, NativeStep(t)
    PROVE  BlobInv' /\ AnswersInv'
<1> USE DEF NativeTypes
<1> DEFINE a == req[t].acct
           own == [acct |-> a, session |-> req[t].session]
<1>a. /\ pc[t] \notin {"idle", "done"} /\ req' = req
      /\ \A u \in Threads \ {t} : /\ pc[u] = "idle" /\ pc'[u] = "idle"
                                  /\ resp[u] = Blank /\ resp'[u] = Blank
  BY NativeStepIsOwn, OthersIdle DEF BlobInv, BlobWhere
<1>b. /\ a \in Accounts /\ req[t].pb \in Contents /\ req[t].pb # Absent
      /\ req[t].op = "end" => own \in Blobs /\ own.acct = a
      /\ OwnBlobs /\ req[t].pb \in Blobs => req[t].pb.acct = a
  BY NativeStepIsOwn, RequestFields DEF RequestsKept, BlobInv, Blobs
<1>c. /\ fs \in [Accounts -> DirState]
      /\ Absent \notin Blobs /\ Empty \notin Blobs /\ Absent # Empty
      /\ OwnBlobs => \A b \in Accounts : fs[b].pb \in Blobs => fs[b].pb.acct = b
      /\ NoDir.pb = Absent
  BY ContentsAssumption DEF TypeOK, BlobInv, NoDir
<1>w. /\ BlobWhere(t) /\ pc \in [Threads -> NativePCs] /\ resp \in [Threads -> Responses]
      /\ Blank.kind = "none" /\ ErrorResp.kind = "error"
  BY ResponseFields DEF BlobInv, TypeOK
<1> DEFINE Kept  == OwnBlobs => \A b \in Accounts : fs'[b].pb \in Blobs => fs'[b].pb.acct = b
           Fits(r) == /\ r.kind = "headers" =>
                           /\ r.android = AndroidIdOf[a]
                           /\ OwnBlobs => r.blob.acct = a
                           /\ Reliable({"make", "open"}) => r.blob = req[t].pb
                      /\ r.kind = "pb" => /\ r.blob \in Taken(own)
                                          /\ Reliable({"remove"}) => fs'[a].pb = Absent
<1> HIDE DEF a, own
<1>s. ASSUME Kept, BlobWhere(t)', pc'[t] = "done" => Fits(resp'[t])
      PROVE  BlobInv' /\ AnswersInv'
  <2>1. \A u \in Threads : BlobWhere(u)'
    BY <1>a, <1>s DEF BlobWhere
  <2>2. BlobInv'
    BY <1>a, <1>s, <2>1 DEF BlobInv
  <2>3. CASE pc'[t] = "done"
    BY <1>a, <1>s, <1>w, <2>2, <2>3 DEF AnswersInv, AnsweredForCaller, EndHandsOver, Taken, a, own
  <2>4. CASE pc'[t] # "done"
    <3>1. resp'[t].kind # "headers"
      BY <1>s, <1>w, <2>4, ResponseFields DEF BlobWhere
    <3> QED BY <1>a, <1>w, <2>2, <2>4, <3>1 DEF AnswersInv, AnsweredForCaller, EndHandsOver
  <2> QED BY <2>3, <2>4
<1>r. ASSUME NEW r, Goto(t, "done"), resp' = [resp EXCEPT ![t] = r], Kept, Fits(r)
      PROVE  BlobInv' /\ AnswersInv'
  <2>1. pc'[t] = "done" /\ resp'[t] = r
    BY <1>r, <1>w DEF Goto
  <2>2. BlobWhere(t)'
    BY <2>1 DEF BlobWhere
  <2> QED BY <1>r, <1>s, <2>1, <2>2
<1>f. ASSUME Fails(t), Kept PROVE BlobInv' /\ AnswersInv'
  BY <1>f, <1>r, <1>w DEF Fails, Return
<1>k. ASSUME UNCHANGED fs PROVE Kept
  BY <1>c, <1>k
<1>l. ASSUME RemoveDirectory(a) \/ MakeDirectory(a) PROVE Kept
  BY <1>b, <1>c, <1>l DEF RemoveDirectory, MakeDirectory, Ignored, Rmdir, Mkdir, DirState
<1>m. ASSUME NEW l \in NativePCs, Goto(t, l), UNCHANGED resp PROVE pc'[t] = l /\ resp'[t] = resp[t]
  BY <1>m, <1>w DEF Goto
<1> HIDE DEF Kept, Fits
<1>p. NativePCs = {"idle", "wait", "setup", "newSsc", "loadSsc", "newAdi", "loadAdi",
              "link", "boot", "mkdir", "path", "android", "act", "flush", "otp",
              "readback", "unlink", "rmdir", "done"}
  BY DEF NativePCs
<1>1. CASE Enter(t) \/ CheckLoaded(t) \/ NewLoader(t) \/ Load(t) \/ Link(t) \/ Boot(t)
  <2>1. /\ UNCHANGED <<fs, resp>> /\ resp[t] = Blank
        /\ pc'[t] \in {"setup", "newSsc", "mkdir", "loadSsc", "loadAdi", "newAdi", "link", "boot"}
    BY <1>1, <1>w DEF Enter, CheckLoaded, NewLoader, Load, Link, Boot, Goto, filesAndSessions,
                      BlobWhere
  <2>2. BlobWhere(t)'
    BY <2>1 DEF BlobWhere
  <2> QED BY <1>k, <1>s, <2>1, <2>2
<1>2. CASE DirectoryMissing(t) \/ LoadFails(t) \/ BootFails(t) \/ SetterFails(t)
           \/ AdiOtpRequestFails(t)
  BY <1>2, <1>f, <1>k DEF DirectoryMissing, LoadFails, BootFails, SetterFails, AdiOtpRequestFails,
                          filesAndSessions
<1>3. CASE MakeUuidDir(t)
  <2>1. pc'[t] = "path" /\ resp'[t] = Blank
    BY <1>3, <1>m, <1>p, <1>w DEF MakeUuidDir, BlobWhere
  <2>2. fs'[a].dir \/ "make" \in IoFaults
    BY <1>3, <1>b, <1>c DEF MakeUuidDir, MakeDirectory, Ignored, Mkdir, DirState, a
  <2>3. BlobWhere(t)'
    BY <1>a, <2>1, <2>2 DEF BlobWhere, a
  <2> QED BY <1>3, <1>k, <1>l, <1>s, <2>1, <2>3 DEF MakeUuidDir, a
<1>4. CASE SetPath(t) \/ SetAndroid(t)
  <2>1. CASE Fails(t)
    BY <1>4, <1>f, <1>k, <2>1 DEF SetPath, SetAndroid, filesAndSessions
  <2>2. CASE UNCHANGED resp /\ (Goto(t, "android") \/ Goto(t, "act"))
    <3>1. pc'[t] \in {"android", "act"} /\ resp'[t] = Blank /\ UNCHANGED fs
      BY <1>4, <1>m, <1>p, <1>w, <2>2 DEF SetPath, SetAndroid, filesAndSessions, BlobWhere
    <3>2. BlobWhere(t)'
      BY <1>4, <1>a, <1>w, <3>1 DEF BlobWhere, SetPath, SetAndroid
    <3> QED BY <1>k, <1>s, <3>1, <3>2
  <2> QED BY <1>4, <2>1, <2>2 DEF SetPath, SetAndroid
<1>5. CASE WriteBlobOpen(t)
  <2>1. pc'[t] = "flush" /\ resp'[t] = Blank /\ req[t].op = "headers"
    BY <1>5, <1>m, <1>p, <1>w DEF WriteBlobOpen, OpenBlob, BlobWhere
  <2>2. /\ <<t, a>> \in writers' /\ fs' = [fs EXCEPT ![a].pb = Empty]
        /\ fs'[a].pb = Empty
    BY <1>5, <1>b, <1>c DEF WriteBlobOpen, OpenBlob, OpenForWriting, DirState, a
  <2>3. BlobWhere(t)'
    BY <1>a, <2>1, <2>2 DEF BlobWhere, a
  <2>4. Kept
    BY <1>b, <1>c, <2>2 DEF Kept, DirState
  <2> QED BY <1>s, <2>1, <2>3, <2>4
<1>6. CASE WriteBlobSkip(t)
  <2>1. pc'[t] = "otp" /\ resp'[t] = Blank /\ req[t].op = "headers" /\ UNCHANGED fs
    BY <1>6, <1>m, <1>p, <1>w DEF WriteBlobSkip, OpenBlobFails, BlobWhere
  <2>2. ~Reliable({"make", "open"})
    BY <1>6, <1>w DEF WriteBlobSkip, OpenBlobFails, BlobWhere, Reliable
  <2>3. BlobWhere(t)'
    BY <1>a, <2>1, <2>2 DEF BlobWhere
  <2> QED BY <1>k, <1>s, <2>1, <2>3
<1>7. CASE WriteBlobClose(t)
  <2>1. pc'[t] = "otp" /\ resp'[t] = Blank /\ req[t].op = "headers"
    BY <1>7, <1>m, <1>p, <1>w DEF WriteBlobClose, FlushBlob, BlobWhere
  <2>2. PICK c \in {req[t].pb, Empty} : fs' = [fs EXCEPT ![a].pb = c]
    BY <1>7, <1>w DEF WriteBlobClose, FlushBlob, WriteThrough, Arrived, BlobWhere, a
  <2>3. fs'[a].pb = c
    BY <1>b, <1>c, <2>2 DEF DirState
  <2>4. BlobWhere(t)'
    BY <1>a, <2>1, <2>3 DEF BlobWhere, a
  <2>5. Kept
    BY <1>b, <1>c, <2>2 DEF Kept, DirState
  <2> QED BY <1>s, <2>1, <2>4, <2>5
<1>8. CASE AdiOtpRequest(t)
  <2> DEFINE r == HeadersResp(loaders[Ssc(t)].android, fs[PathOf(t)].pb)
  <2>1. /\ PathOf(t) = a /\ loaders[Ssc(t)].android = AndroidIdOf[a]
        /\ fs[a].pb \in Blobs /\ UNCHANGED fs
    BY <1>8, AtLibrary DEF AdiOtpRequest, filesAndSessions, a
  <2>2. /\ r.kind = "headers" /\ r.android = AndroidIdOf[a] /\ r.blob = fs[a].pb
    BY <2>1, ResponseFields
  <2>3. Goto(t, "done") /\ resp' = [resp EXCEPT ![t] = r]
    BY <1>8 DEF AdiOtpRequest, Return
  <2>4. fs[a].pb = req[t].pb \/ ~Reliable({"make", "open"})
    BY <1>8, <1>c, <1>w, <2>1 DEF AdiOtpRequest, BlobWhere, a
  <2> HIDE DEF r
  <2>5. Fits(r)
    BY <1>b, <1>c, <2>1, <2>2, <2>4 DEF Fits
  <2> QED BY <1>k, <1>r, <2>1, <2>3, <2>5
<1>9. CASE AdiStart(t)
  <2>1. PICK n : Goto(t, "done") /\ resp' = [resp EXCEPT ![t] = CpimResp(n)] /\ UNCHANGED fs
    BY <1>9 DEF AdiStart, ProvisioningStart, Return
  <2>2. Fits(CpimResp(n))
    BY ResponseFields DEF Fits
  <2> QED BY <1>k, <1>r, <2>1, <2>2
<1>10. CASE AdiRefuses(t) \/ ReadAdiPbFails(t)
  BY <1>10, <1>f, <1>k, <1>l DEF AdiRefuses, ReadAdiPbFails, a
<1>11. CASE AdiEnd(t)
  <2>1. pc'[t] = "readback" /\ resp'[t] = Blank /\ req[t].op = "end"
    BY <1>11, <1>m, <1>p, <1>w DEF AdiEnd, BlobWhere
  <2>2. fs' = [fs EXCEPT ![a].pb = own]
    BY <1>11, AtLibrary DEF AdiEnd, a, own
  <2>3. fs'[a].pb = own
    BY <1>b, <1>c, <2>2 DEF DirState
  <2>4. BlobWhere(t)'
    BY <1>a, <2>1, <2>3 DEF BlobWhere, a, own
  <2>5. Kept
    BY <1>b, <1>c, <2>1, <2>2 DEF Kept, DirState
  <2> QED BY <1>s, <2>1, <2>4, <2>5
<1>12. CASE ReadAdiPb(t)
  <2>1. req[t].op = "end" /\ fs[a].pb = own
    BY <1>12, <1>w DEF ReadAdiPb, BlobWhere, a, own
  <2>2. PICK c \in Taken(own) : resp' = [resp EXCEPT ![t] = PbResp(c)]
    BY <1>12, <2>1 DEF ReadAdiPb, a
  <2>3. pc'[t] = "unlink" /\ resp'[t] = PbResp(c) /\ UNCHANGED fs
    BY <1>12, <1>w, <2>2 DEF ReadAdiPb, Goto, filesAndSessions
  <2>4. BlobWhere(t)'
    BY <1>a, <2>1, <2>3 DEF BlobWhere, Taken, a, own
  <2> QED BY <1>k, <1>s, <2>3, <2>4
<1>13. CASE UnlinkAdiPb(t)
  <2>1. PICK c \in Taken(own) : resp[t] = PbResp(c)
    BY <1>13, <1>w DEF UnlinkAdiPb, BlobWhere, a, own
  <2>2. pc'[t] = "rmdir" /\ resp'[t] = PbResp(c) /\ req[t].op = "end"
    BY <1>13, <1>m, <1>p, <1>w, <2>1 DEF UnlinkAdiPb, BlobWhere
  <2>3. fs' = [fs EXCEPT ![a].pb = Absent] \/ (UNCHANGED fs /\ ~Reliable({"remove"}))
    BY <1>13 DEF UnlinkAdiPb, RemovePb, Ignored, Reliable, a
  <2>4. fs'[a].pb = Absent \/ ~Reliable({"remove"})
    BY <1>b, <1>c, <2>3 DEF DirState
  <2>5. BlobWhere(t)'
    BY <1>a, <2>2, <2>4 DEF BlobWhere, Taken, Reliable, a, own
  <2>6. Kept
    BY <1>b, <1>c, <2>3 DEF Kept, DirState
  <2> QED BY <1>s, <2>2, <2>5, <2>6
<1>14. CASE RemoveUuidDir(t)
  <2>1. PICK c \in Taken(own) : resp[t] = PbResp(c)
    BY <1>14, <1>w DEF RemoveUuidDir, BlobWhere, a, own
  <2>2. /\ pc'[t] = "done" /\ resp'[t] = PbResp(c) /\ req[t].op = "end"
        /\ fs[a].pb = Absent \/ ~Reliable({"remove"})
    BY <1>14, <1>m, <1>p, <1>w, <2>1 DEF RemoveUuidDir, BlobWhere, a
  <2>3. RemoveDirectory(a)
    BY <1>14 DEF RemoveUuidDir, a
  <2>4. fs'[a].pb = Absent \/ ~Reliable({"remove"})
    BY <1>b, <1>c, <2>2, <2>3 DEF RemoveDirectory, Ignored, Reliable, Rmdir
  <2>5. Fits(resp'[t])
    BY <2>1, <2>2, <2>4, ResponseFields DEF Fits
  <2>6. BlobWhere(t)'
    BY <2>2 DEF BlobWhere
  <2> QED BY <1>l, <1>s, <2>3, <2>5, <2>6
<1>15. CASE AdiCancel(t)
  <2>1. Kept
    BY <1>15, <1>k, <1>l DEF AdiCancel, a
  <2>2. Fits(CancelledResp) /\ Fits(ErrorResp)
    BY ResponseFields DEF Fits
  <2> QED BY <1>15, <1>r, <2>1, <2>2 DEF AdiCancel, Return
<1> QED BY <1>1, <1>2, <1>3, <1>4, <1>5, <1>6, <1>7, <1>8, <1>9, <1>10, <1>11, <1>12, <1>13,
           <1>14, <1>15 DEF NativeStep

(***************************************************************************)
(* The theorems about serial callers.                                      *)
(***************************************************************************)
LibrariesSafe == NativeTypes /\ OneCall /\ LibrariesInv

CallersServed == LibrariesSafe /\ SelectedInv /\ BlobInv /\ AnswersInv

\* A call begins only when no other is under way, and nothing else starts one.
LEMMA OneCallNext ==
    ASSUME Serial, TypeOK, OneCall, [Next]_vars
    PROVE  OneCall'
<1>1. ASSUME NEW t \in Threads, CallBegins(t) PROVE OneCall'
  BY <1>1 DEF CallBegins, Invoke, Goto, TypeOK, OneCall
<1>2. ASSUME NEW t \in Threads, CallCollected(t) PROVE OneCall'
  BY <1>2 DEF CallCollected, Collect, Goto, TypeOK, OneCall
<1>3. ASSUME NEW t \in Threads, NativeStep(t) PROVE OneCall'
  BY <1>3, NativeStepIsOwn DEF OneCall
<1>4. CASE Crash
  BY <1>4 DEF Crash, ProviderCrash, OneCall
<1>5. CASE UNCHANGED vars
  BY <1>5 DEF vars, providerVars, OneCall
<1> QED BY <1>1, <1>2, <1>3, <1>4, <1>5 DEF Next

\* With no library loaded, the globals are whole and all loaders unmade.
LEMMA NothingLoaded ==
    /\ NativeInit => Stage("idle")
    /\ NativeLost => Stage("idle")'
BY DEF NativeInit, NativeLost, Stage, InLoading, AfterLoading

LEMMA LibrariesNext ==
    ASSUME Serial
    PROVE  /\ Init => LibrariesSafe
           /\ LibrariesSafe /\ [Next]_vars => LibrariesSafe'
<1>a. NoLoader.st = "none"
  BY DEF NoLoader
<1>1. ASSUME Init PROVE LibrariesSafe
  BY <1>1, <1>a, NativeTypeNext, NothingLoaded, NativeAssumption
     DEF LibrariesSafe, OneCall, LibrariesInv, Init, ProviderInit, NativeInit
<1>2. ASSUME LibrariesSafe, NEW t \in Threads, CallBegins(t) PROVE LibrariesInv'
  <2>1. /\ \A u \in Threads : pc[u] = "idle" /\ pc'[u] = IF u = t THEN "wait" ELSE "idle"
        /\ UNCHANGED <<gSsc, gAdi, loaders, news>>
    BY <1>2 DEF CallBegins, Invoke, Goto, LibrariesSafe, NativeTypes, TypeOK
  <2>2. Stage("idle")
    BY <1>2, <2>1 DEF LibrariesSafe, LibrariesInv
  <2>3. Stage("wait")'
    BY <2>1, <2>2 DEF Stage, InLoading, AfterLoading, Siblings, Fresh
  <2> QED BY <1>2, <2>1, <2>3 DEF LibrariesSafe, LibrariesInv
<1>3. ASSUME LibrariesSafe, NEW t \in Threads, CallCollected(t) PROVE LibrariesInv'
  <2>1. /\ \A u \in Threads : pc'[u] = IF u = t THEN "idle" ELSE pc[u]
        /\ pc[t] = "done" /\ UNCHANGED nativeVars
    BY <1>3 DEF CallCollected, Collect, Goto, LibrariesSafe, NativeTypes, TypeOK
  <2>2. \A u \in Threads : pc'[u] = "idle"
    BY <1>3, <2>1, OthersIdle DEF LibrariesSafe
  <2>3. Stage("done")
    BY <1>3, <2>1 DEF LibrariesSafe, LibrariesInv
  <2>4. Stage("idle")'
    BY <2>1, <2>3 DEF Stage, InLoading, AfterLoading, Siblings, Fresh, nativeVars
  <2> QED BY <1>3, <2>1, <2>2, <2>4 DEF LibrariesSafe, LibrariesInv, nativeVars
<1>4. ASSUME LibrariesSafe, NEW t \in Threads, NativeStep(t) PROVE LibrariesInv'
  BY <1>4, LibrariesStep DEF LibrariesSafe, NativeTypes
<1>5. ASSUME Crash PROVE LibrariesInv'
  BY <1>5, <1>a, NothingLoaded, NativeAssumption DEF Crash, ProviderCrash, NativeLost, LibrariesInv
<1>6. ASSUME LibrariesSafe, UNCHANGED vars PROVE LibrariesInv'
  BY <1>6 DEF vars, providerVars, nativeVars, LibrariesSafe, LibrariesInv, Stage, Siblings, Fresh
<1>7. ASSUME LibrariesSafe, [Next]_vars PROVE LibrariesInv'
  BY <1>2, <1>3, <1>4, <1>5, <1>6, <1>7 DEF Next
<1> QED BY <1>1, <1>7, NativeTypeNext, OneCallNext DEF LibrariesSafe, NativeTypes

LEMMA ServedNext ==
    ASSUME Serial
    PROVE  /\ Init => CallersServed
           /\ CallersServed /\ [Next]_vars => CallersServed'
<1>a. NoDir.pb = Absent /\ NoDir.dir = FALSE /\ Blank.kind = "none" /\ NoReq.pb = Empty
  BY DEF NoDir, Blank, NoReq
<1>b. Absent \notin Blobs /\ Empty \notin Blobs
  BY ContentsAssumption
<1> DEFINE J == SelectedInv /\ BlobInv /\ AnswersInv
<1>1. ASSUME Init PROVE J
  BY <1>1, <1>a, <1>b
     DEF Init, ProviderInit, SelectedInv, BlobInv, BlobWhere, AnswersInv, AnsweredForCaller,
         EndHandsOver
<1>2. ASSUME CallersServed, NEW t \in Threads, CallBegins(t) PROVE J'
  <2>1. PICK r \in Calls : Invoke(t, r)
    BY <1>2 DEF CallBegins
  <2>2. /\ \A u \in Threads : pc[u] = "idle" /\ pc'[u] = IF u = t THEN "wait" ELSE "idle"
        /\ \A u \in Threads : req'[u] = IF u = t THEN r ELSE req[u]
        /\ UNCHANGED <<resp, fs>>
    BY <1>2, <2>1 DEF CallBegins, Invoke, Goto, CallersServed, LibrariesSafe, NativeTypes, TypeOK
  <2>3. \A u \in Threads : resp[u] = Blank
    BY <1>2, <2>2 DEF CallersServed, BlobInv, BlobWhere
  <2>4. SelectedInv' /\ AnswersInv'
    BY <1>a, <2>2, <2>3 DEF SelectedInv, AnswersInv, AnsweredForCaller, EndHandsOver
  <2>5. BlobInv'
    BY <1>2, <2>2, <2>3 DEF CallersServed, BlobInv, BlobWhere, OwnBlobs
  <2> QED BY <2>4, <2>5
<1>3. ASSUME CallersServed, NEW t \in Threads, CallCollected(t) PROVE J'
  <2>1. /\ \A u \in Threads : pc'[u] = IF u = t THEN "idle" ELSE pc[u]
        /\ \A u \in Threads : req'[u] = IF u = t THEN NoReq ELSE req[u]
        /\ \A u \in Threads : resp'[u] = IF u = t THEN Blank ELSE resp[u]
        /\ pc[t] = "done" /\ UNCHANGED <<nativeVars, fs, writers>>
    BY <1>3 DEF CallCollected, Collect, Goto, CallersServed, LibrariesSafe, NativeTypes, TypeOK
  <2>2. \A u \in Threads : pc'[u] = "idle"
    BY <1>3, <2>1, OthersIdle DEF CallersServed, LibrariesSafe
  <2>3. \A u \in Threads : resp'[u] = Blank
    BY <1>3, <2>1, <2>2 DEF CallersServed, BlobInv, BlobWhere
  <2>4. SelectedInv' /\ AnswersInv'
    BY <1>a, <2>2, <2>3 DEF SelectedInv, AnswersInv, AnsweredForCaller, EndHandsOver
  <2>5. BlobInv'
    BY <1>3, <1>a, <1>b, <2>1, <2>2, <2>3 DEF CallersServed, BlobInv, BlobWhere
  <2> QED BY <2>4, <2>5
<1>4. ASSUME CallersServed, NEW t \in Threads, NativeStep(t) PROVE J'
  BY <1>4, SelectedStep, BlobStep DEF CallersServed, LibrariesSafe
<1>5. ASSUME CallersServed, Crash PROVE J'
  BY <1>5, <1>a, <1>b
     DEF CallersServed, Crash, ProviderCrash, SelectedInv, BlobInv, BlobWhere, AnswersInv,
         AnsweredForCaller, EndHandsOver
<1>6. ASSUME CallersServed, UNCHANGED vars PROVE J'
  BY <1>6
     DEF vars, providerVars, nativeVars, CallersServed, SelectedInv, BlobInv, BlobWhere, AnswersInv,
         AnsweredForCaller, EndHandsOver
<1>7. ASSUME CallersServed, [Next]_vars PROVE J'
  BY <1>2, <1>3, <1>4, <1>5, <1>6, <1>7 DEF Next
<1> QED BY <1>1, <1>7, LibrariesNext DEF CallersServed

\* When callers wait for each other, no call ever touches a loader that is null,
\* freed, or not bound to its sibling.
THEOREM NoLoaderMisused ==
    ASSUME Serial
    PROVE  Spec => []NoWildUse
<1>1. LibrariesSafe => NoWildUse
  BY DEF LibrariesSafe, LibrariesInv, Stage, AfterLoading, Siblings, Fresh, NoWildUse, Loading, Is,
         Bound, Ssc
<1> QED BY <1>1, LibrariesNext, PTL DEF Spec

\* Whatever fails while the libraries are loaded, the globals are both null or
\* both bound to each other when no call is at it, and no loader is left over.
THEOREM FailuresTakenBack ==
    ASSUME Serial
    PROVE  Spec => []GlobalsWhole
<1>1. LibrariesSafe => GlobalsWhole
  <2> SUFFICES ASSUME LibrariesSafe, \A t \in Threads : pc[t] \notin InLoading
               PROVE  /\ Siblings \/ (gSsc = 0 /\ gAdi = 0)
                      /\ \A o \in 1..MaxLoaders :
                            loaders[o].st \in {"none", "freed"} \/ o \in {gSsc, gAdi}
    BY DEF GlobalsWhole, Siblings, Is
  <2>1. CASE \A t \in Threads : pc[t] = "idle"
    BY <2>1 DEF LibrariesSafe, LibrariesInv, Stage, InLoading
  <2>2. CASE \E t \in Threads : pc[t] # "idle"
    BY <2>2 DEF LibrariesSafe, LibrariesInv, Stage
  <2> QED BY <2>1, <2>2
<1> QED BY <1>1, LibrariesNext, PTL DEF Spec

\* A one-time password is computed with the caller's hardware identifier from a
\* blob of its account, its own one when the file system works: when callers
\* wait for each other and pass blobs of their own accounts.
THEOREM NativeAnswersAreCallers ==
    ASSUME Serial, OwnBlobs
    PROVE  Spec => []AnsweredForCaller
<1>1. CallersServed => AnsweredForCaller
  BY DEF CallersServed, AnswersInv
<1> QED BY <1>1, ServedNext, PTL DEF Spec

\* An end_provision_c that answers with a blob hands over the one of its own session,
\* or the zeros of a short read, and leaves no copy of it on disk unless unlink
\* failed; a call that cannot open adi.pb again answers with an error.
THEOREM BlobHandedOver ==
    ASSUME Serial
    PROVE  Spec => []EndHandsOver
<1>1. CallersServed => EndHandsOver
  BY DEF CallersServed, AnswersInv
<1> QED BY <1>1, ServedNext, PTL DEF Spec
================================================================================
