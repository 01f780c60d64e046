--------------------------- MODULE ProvisioningClient ---------------------------
(***************************************************************************)
(* Sources/AnisetteClient.swift: one AnisetteClient whose getAnisetteData  *)
(* runs in any number of tasks at once, on top of the provider it calls.   *)
(*                                                                         *)
(* A call resolves the account's provisioning blob (from disk, from the    *)
(* caller's memory, or by provisioning anew with Apple's servers), has the *)
(* provider compute a one-time password from it, and, in memory mode,      *)
(* deletes the account's files again.  Nothing but the routing-info cache  *)
(* is locked: every step below may interleave with those of other tasks.   *)
(***************************************************************************)
EXTENDS AdiProvider

CONSTANTS
    Storages,   \* the storage modes the callers use: "disk", "memory"
    Customs,    \* routing infos callers pass in their headers, or NoRinfo
    BlankRinfo, \* the empty routing info, if callers pass it
    Overlap,    \* may two calls for one account run at the same time?
    Crashes,    \* may the process die?
    MaxCalls    \* bound: calls of getAnisetteData in a behaviour

ASSUME ClientAssumption ==
    /\ Storages \subseteq {"disk", "memory"}
    /\ Customs \subseteq Rinfos \cup {NoRinfo}
    /\ Overlap \in BOOLEAN /\ Crashes \in BOOLEAN
    /\ MaxCalls \in Nat

VARIABLES
    at,        \* where each task is in getAnisetteData
    job,       \* its parameters
    work,      \* its local variables
    result,    \* what it returns
    cache,     \* routingInfoCache
    begun,     \* calls begun so far
    promised   \* per account, the blob the last .disk call that returned saved, and
               \* the routing info named in the last provisioning that got to its end

clientVars == <<at, job, work, result, cache, begun, promised>>
vars == <<providerVars, clientVars>>

AtPCs == {"idle", "check", "read", "lookup", "spim", "start", "starting", "ptm",
          "end", "ending", "routing", "rdir", "rinfo", "save", "open", "fill", "headers",
          "getting", "stored", "caching", "rmPb", "rmRinfo", "rmTree", "returned"}

NoJob == [acct |-> NoAccount, storage |-> "none", existing |-> Empty, custom |-> NoRinfo]

NoWork == [blob |-> Empty, fresh |-> FALSE, active |-> NoRinfo, session |-> NoSession]

NoResult == [kind |-> "none", blob |-> Absent, rinfo |-> NoRinfo]

NoPromise == [pb |-> Absent, rinfo |-> NoRinfo]

Init ==
    /\ ProviderInit
    /\ at = [t \in Threads |-> "idle"]
    /\ job = [t \in Threads |-> NoJob]
    /\ work = [t \in Threads |-> NoWork]
    /\ result = [t \in Threads |-> NoResult]
    /\ cache = [a \in Accounts |-> NoRinfo]
    /\ begun = 0
    /\ promised = [a \in Accounts |-> NoPromise]

--------------------------------------------------------------------------------
Step(t, l) == at' = [at EXCEPT ![t] = l]

Quiet(a) == \A t \in Threads : job[t].acct # a

\* A throw before the defer is registered: the caller gets the error, no file
\* is removed and no session cancelled.
Throw(t) ==
    /\ Step(t, "returned")
    /\ result' = [result EXCEPT ![t].kind = "failed"]
    /\ UNCHANGED <<job, work, cache, begun, promised>>

(***************************************************************************)
(* getAnisetteData, then resolveProvisioningBlob.  A routing info given by *)
(* the caller goes straight into the cache.                                *)
(***************************************************************************)
Begin(t, a, st, ex, cu) ==
    /\ at[t] = "idle" /\ begun < MaxCalls
    /\ Overlap \/ Quiet(a)
    /\ begun' = begun + 1
    /\ job' = [job EXCEPT ![t] = [acct |-> a, storage |-> st, existing |-> ex, custom |-> cu]]
    /\ cache' = IF cu \in {NoRinfo, BlankRinfo} THEN cache ELSE [cache EXCEPT ![a] = cu]
    /\ Step(t, "check")
    /\ UNCHANGED <<work, result, promised, providerVars>>

\* The blob a memory-mode caller can hold: nothing, or one returned to it.
Existing(a, st) ==
    {Empty} \cup IF st = "disk" THEN {} ELSE [acct : {a}, session : minted]

CheckDisk(t) ==
    /\ at[t] = "check" /\ job[t].storage = "disk"
    /\ Step(t, IF fs[job[t].acct].pb = Absent THEN "lookup" ELSE "read")
    /\ UNCHANGED <<job, work, result, cache, begun, promised, providerVars>>

CheckMemory(t) ==
    /\ at[t] = "check" /\ job[t].storage = "memory"
    /\ IF job[t].existing = Empty
       THEN Step(t, "lookup") /\ UNCHANGED work
       ELSE /\ Step(t, "headers")
            /\ work' = [work EXCEPT ![t].blob = job[t].existing]
    /\ UNCHANGED <<job, result, cache, begun, promised, providerVars>>

\* Whatever the file holds is taken, an empty file too.
ReadDisk(t) ==
    /\ at[t] = "read"
    /\ LET c == fs[job[t].acct].pb IN
       /\ c # Absent
       /\ work' = [work EXCEPT ![t].blob = c]
    /\ Step(t, "headers")
    /\ UNCHANGED <<job, result, cache, begun, promised, providerVars>>

\* The file is gone, or cannot be read.
ReadDiskFails(t) ==
    /\ at[t] = "read"
    /\ fs[job[t].acct].pb = Absent \/ ~Reliable({"open", "read"})
    /\ Throw(t)
    /\ UNCHANGED providerVars

--------------------------------------------------------------------------------
(***************************************************************************)
(* runProvisioningFlow.  Every answer of Apple's servers may name routing  *)
(* information, which is never empty; the last one named is the one that   *)
(* is kept, and if none is, the caller's own, an empty one too.            *)
(***************************************************************************)
HttpStep(t, from, to, fallback) ==
    /\ at[t] = from
    /\ \E r \in (Rinfos \ {BlankRinfo}) \cup {fallback} :
          work' = [work EXCEPT ![t].active = r]
    /\ Step(t, to)
    /\ UNCHANGED <<job, result, cache, begun, promised, providerVars>>

Lookup(t)     == HttpStep(t, "lookup", "spim", job[t].custom)
FetchSpim(t)  == HttpStep(t, "spim", "start", work[t].active)
FetchPtmTk(t) == HttpStep(t, "ptm", "end", work[t].active)

\* No connection, a status other than 200, an answer that does not parse.
HttpFails(t) ==
    /\ at[t] \in {"lookup", "spim", "ptm"}
    /\ Throw(t)
    /\ UNCHANGED providerVars

\* The three calls of the provider, and the taking of their answers.
CallProvider(t, from, to, r) ==
    /\ at[t] = from
    /\ Invoke(t, r)
    /\ Step(t, to)
    /\ UNCHANGED <<job, work, result, cache, begun, promised>>

CallStart(t) ==
    CallProvider(t, "start", "starting",
        [op |-> "start", acct |-> job[t].acct, pb |-> Empty, session |-> NoSession])

CallEnd(t) ==
    /\ at[t] = "end"
    /\ Invoke(t, [op |-> "end", acct |-> job[t].acct, pb |-> Empty,
                  session |-> work[t].session])
    /\ Step(t, "ending")
    /\ promised' = [promised EXCEPT ![job[t].acct].rinfo = work[t].active]
    /\ UNCHANGED <<job, work, result, cache, begun>>

CallHeaders(t) ==
    CallProvider(t, "headers", "getting",
        [op |-> "headers", acct |-> job[t].acct, pb |-> work[t].blob, session |-> NoSession])

\* Mistake: the answer is taken without looking for an error in it.
StartedUnchecked(t) ==
    /\ at[t] = "starting"
    /\ Collect(t)
    /\ work' = [work EXCEPT ![t].session = resp[t].session]
    /\ Step(t, "ptm")
    /\ UNCHANGED <<job, result, cache, begun, promised>>

Started(t) ==
    /\ at[t] = "starting"
    /\ Collect(t)
    /\ IF resp[t].kind = "error" THEN Throw(t)
       ELSE /\ work' = [work EXCEPT ![t].session = resp[t].session]
            /\ Step(t, "ptm")
            /\ UNCHANGED <<job, result, cache, begun, promised>>

Ended(t) ==
    /\ at[t] = "ending"
    /\ Collect(t)
    /\ IF resp[t].kind = "error" THEN Throw(t)
       ELSE /\ work' = [work EXCEPT ![t].blob = resp[t].blob, ![t].fresh = TRUE]
            /\ Step(t, "routing")
            /\ UNCHANGED <<job, result, cache, begun, promised>>

\* Mistake: the file is written and the cache is not.
KeepRoutingUncached(t) ==
    /\ at[t] = "routing"
    /\ Step(t, IF work[t].active = NoRinfo THEN "save" ELSE "rdir")
    /\ UNCHANGED <<job, work, result, cache, begun, promised, providerVars>>

\* The routing info goes into the cache, then into a file of the directory.
KeepRouting(t) ==
    /\ at[t] = "routing"
    /\ IF work[t].active = NoRinfo
       THEN Step(t, "save") /\ UNCHANGED cache
       ELSE Step(t, "rdir") /\ cache' = [cache EXCEPT ![job[t].acct] = work[t].active]
    /\ UNCHANGED <<job, work, result, begun, promised, providerVars>>

MakeRinfoDir(t) ==
    /\ at[t] = "rdir"
    /\ MakeDirectory(job[t].acct)
    /\ Step(t, "rinfo")
    /\ UNCHANGED <<job, work, result, cache, begun, promised,
                   pc, req, resp, holder, sessions, minted>>

\* Mistake: the cache is thought to be enough.
SaveRinfoSkipped(t) ==
    /\ at[t] = "rinfo"
    /\ Step(t, "save")
    /\ UNCHANGED <<job, work, result, cache, begun, promised, providerVars>>

SaveRinfo(t) ==
    /\ at[t] = "rinfo"
    /\ WriteRinfo(job[t].acct, work[t].active)
    /\ Step(t, "save")
    /\ UNCHANGED <<job, work, result, cache, begun, promised,
                   pc, req, resp, holder, sessions, minted>>

--------------------------------------------------------------------------------
(***************************************************************************)
(* Back in resolveProvisioningBlob: in disk mode the new blob is written,  *)
(* not atomically, over the one the provider left there.  Here an error is *)
(* thrown, and what has been written by then stays.                        *)
(***************************************************************************)
SaveDisk(t) ==
    /\ at[t] = "save"
    /\ IF job[t].storage = "disk"
       THEN fs' = [fs EXCEPT ![job[t].acct] = Mkdir(@)] /\ Step(t, "open")
       ELSE Step(t, "headers") /\ UNCHANGED fs
    /\ UNCHANGED <<job, work, result, cache, begun, promised,
                   pc, req, resp, holder, writers, sessions, minted>>

SaveDiskFails(t) ==
    /\ at[t] = "save" /\ job[t].storage = "disk"
    /\ "make" \in IoFaults
    /\ Throw(t)
    /\ UNCHANGED providerVars

OpenDisk(t) ==
    /\ at[t] = "open"
    /\ OpenForWriting(t, job[t].acct)
    /\ Step(t, "fill")
    /\ UNCHANGED <<job, work, result, cache, begun, promised,
                   pc, req, resp, holder, sessions, minted>>

OpenDiskFails(t) ==
    /\ at[t] = "open"
    /\ "open" \in IoFaults \/ ~fs[job[t].acct].dir
    /\ Throw(t)
    /\ UNCHANGED providerVars

FillDisk(t) ==
    /\ at[t] = "fill"
    /\ WriteThrough(t, job[t].acct, work[t].blob)
    /\ Step(t, "headers")
    /\ UNCHANGED <<job, work, result, cache, begun, promised,
                   pc, req, resp, holder, sessions, minted>>

\* The write stops half way, or at once.
FillDiskFails(t) ==
    /\ at[t] = "fill"
    /\ "write" \in IoFaults
    /\ \E c \in {Empty, fs[job[t].acct].pb} : WriteThrough(t, job[t].acct, c)
    /\ Throw(t)
    /\ UNCHANGED <<pc, req, resp, holder, sessions, minted>>

--------------------------------------------------------------------------------
\* Mistakes: a cleanup in both storage modes; and none where a call fails.
CleanupAlways(t) == "rmPb"

CleanupOnSuccess(t) ==
    IF job[t].storage = "memory" /\ resp[t].kind # "error" THEN "rmPb" ELSE "returned"

\* fetchHeaders, after the provider answered.  The defer runs on an error too.
Cleanup(t) == IF job[t].storage = "memory" THEN "rmPb" ELSE "returned"

Got(t) ==
    /\ at[t] = "getting"
    /\ Collect(t)
    /\ IF resp[t].kind = "error"
       THEN /\ result' = [result EXCEPT ![t].kind = "failed"]
            /\ Step(t, Cleanup(t))
       ELSE /\ result' = [result EXCEPT ![t].blob = resp[t].blob]
            /\ Step(t, "stored")
    /\ UNCHANGED <<job, work, cache, begun, promised>>

Deliver(t, r) ==
    /\ result' = [result EXCEPT ![t].kind = "ok", ![t].rinfo = r]
    /\ Step(t, Cleanup(t))
    /\ promised' = IF job[t].storage = "disk" /\ work[t].fresh
                   THEN [promised EXCEPT ![job[t].acct].pb = work[t].blob]
                   ELSE promised

\* getStoredRoutingInfo: the cache, else the file if it can be read and is not
\* empty, else what the headers say.
StoredRouting(t) ==
    /\ at[t] = "stored"
    /\ LET a == job[t].acct IN
       /\ \/ cache[a] # NoRinfo
          \/ fs[a].rinfo \in {NoRinfo, BlankRinfo}
          \/ ~Reliable({"open", "read"})
       /\ Deliver(t, cache[a])
    /\ UNCHANGED <<job, work, cache, begun, providerVars>>

ReadRinfo(t) ==
    /\ at[t] = "stored"
    /\ LET a == job[t].acct IN
       /\ cache[a] = NoRinfo
       /\ fs[a].rinfo \notin {NoRinfo, BlankRinfo}
       /\ work' = [work EXCEPT ![t].active = fs[a].rinfo]
    /\ Step(t, "caching")
    /\ UNCHANGED <<job, result, cache, begun, promised, providerVars>>

\* What was read from the file goes into the cache, whatever it holds by now.
CacheSaved(t) ==
    /\ at[t] = "caching"
    /\ cache' = [cache EXCEPT ![job[t].acct] = work[t].active]
    /\ Deliver(t, work[t].active)
    /\ UNCHANGED <<job, work, begun, providerVars>>

\* cleanup: adi.pb, the routing info and the directory with all it contains.
CleanupStep(t, from, to) ==
    /\ at[t] = from
    /\ Step(t, to)
    /\ UNCHANGED <<job, work, result, cache, begun, promised,
                   pc, req, resp, holder, sessions, minted>>

CleanupPb(t)    == CleanupStep(t, "rmPb", "rmRinfo") /\ RemovePb(job[t].acct)
CleanupRinfo(t) == CleanupStep(t, "rmRinfo", "rmTree") /\ RemoveRinfo(job[t].acct)

\* Mistake: it is provisioning_dir that is removed.
CleanupAllTrees(t) ==
    /\ CleanupStep(t, "rmTree", "returned")
    /\ fs' = [a \in Accounts |-> NoDir]
    /\ writers' = {}

CleanupTree(t)  == CleanupStep(t, "rmTree", "returned") /\ RemoveTree(job[t].acct)

\* The caller has the result.
Finish(t) ==
    /\ at[t] = "returned"
    /\ Step(t, "idle")
    /\ job' = [job EXCEPT ![t] = NoJob]
    /\ work' = [work EXCEPT ![t] = NoWork]
    /\ result' = [result EXCEPT ![t] = NoResult]
    /\ UNCHANGED <<cache, begun, promised, providerVars>>

--------------------------------------------------------------------------------
Crash ==
    /\ Crashes
    /\ ProviderCrash
    /\ at' = [t \in Threads |-> "idle"]
    /\ job' = [t \in Threads |-> NoJob]
    /\ work' = [t \in Threads |-> NoWork]
    /\ result' = [t \in Threads |-> NoResult]
    /\ cache' = [a \in Accounts |-> NoRinfo]
    /\ UNCHANGED <<begun, promised>>

TaskStep(t) ==
    \/ CheckDisk(t) \/ CheckMemory(t) \/ ReadDisk(t) \/ ReadDiskFails(t)
    \/ Lookup(t) \/ FetchSpim(t) \/ FetchPtmTk(t) \/ HttpFails(t)
    \/ CallStart(t) \/ Started(t) \/ CallEnd(t) \/ Ended(t)
    \/ KeepRouting(t) \/ MakeRinfoDir(t) \/ SaveRinfo(t)
    \/ SaveDisk(t) \/ SaveDiskFails(t) \/ OpenDisk(t) \/ OpenDiskFails(t)
    \/ FillDisk(t) \/ FillDiskFails(t)
    \/ CallHeaders(t) \/ Got(t) \/ StoredRouting(t) \/ ReadRinfo(t) \/ CacheSaved(t)
    \/ CleanupPb(t) \/ CleanupRinfo(t) \/ CleanupTree(t) \/ Finish(t)

InProvider(t) == ProviderStep(t) /\ UNCHANGED clientVars

BeginAny(t) ==
    \E a \in Accounts, st \in Storages, cu \in Customs :
        \E ex \in Existing(a, st) : Begin(t, a, st, ex, cu)

\* All the calls of this behaviour have returned.
AllDone ==
    /\ begun = MaxCalls /\ \A t \in Threads : at[t] = "idle"
    /\ UNCHANGED vars

Next ==
    \/ \E t \in Threads : BeginAny(t) \/ TaskStep(t) \/ InProvider(t)
    \/ Crash
    \/ AllDone

Spec == Init /\ [][Next]_vars

--------------------------------------------------------------------------------
(***************************************************************************)
(* Properties.                                                             *)
(***************************************************************************)
\* Every variable has its type.
TypeOK ==
    /\ ProviderTypeOK
    /\ at \in [Threads -> AtPCs]
    /\ job \in [Threads -> {NoJob} \cup
                 [acct : Accounts, storage : Storages,
                  existing : Blobs \cup {Empty}, custom : Customs]]
    /\ work \in [Threads -> [blob : Blobs \cup {Empty}, fresh : BOOLEAN,
                             active : Rinfos \cup {NoRinfo},
                             session : Sessions \cup {NoSession}]]
    /\ result \in [Threads -> [kind : {"none", "failed", "ok"},
                               blob : Contents, rinfo : Rinfos \cup {NoRinfo}]]
    /\ cache \in [Accounts -> Rinfos \cup {NoRinfo}]
    /\ begun \in 0..MaxCalls
    /\ promised \in [Accounts -> [pb : Contents, rinfo : Rinfos \cup {NoRinfo}]]

\* The one-time password was computed from the very blob the call resolved, and
\* returns as newBlob when it is new: not from one that another task wrote into
\* the shared directory after the call had chosen its own.  (When adi.pb cannot be
\* opened for writing, the core goes on with whatever is there.)
PasswordFromOwnBlob ==
    Reliable({"open"}) =>
        \A t \in Threads : result[t].kind = "ok" => result[t].blob = work[t].blob

\* The blob a call returns as new is the one its own session minted, or the zeros
\* of a read that fell short, although it comes back from a file that other
\* provisionings of the account also write.
NewBlobIsOwn ==
    \A t \in Threads :
        work[t].fresh =>
            \/ work[t].blob = [acct |-> job[t].acct, session |-> work[t].session]
            \/ "read" \in IoFaults /\ work[t].blob = Empty

\* A call that has provisioned returns the routing information Apple named last
\* during that provisioning, not an older one nor, if Apple named one, the caller's.
ServerRoutingReturned ==
    \A t \in Threads :
        result[t].kind = "ok" /\ work[t].fresh /\ work[t].active # NoRinfo =>
            result[t].rinfo = work[t].active

\* Memory mode leaves neither adi.pb nor routing information of an account on disk
\* once its calls are over, whichever of them failed and however they overlapped.
\* It may leave the directory, empty: a call that throws between start_provision,
\* which makes it, and the registration of the defer does not remove it.  Claimed
\* as long as the process does not die, files can be opened and removed: a
\* read-back that cannot open the adi.pb that ADIProvisioningEnd wrote throws
\* before the defer too, and then the file stays.
MemoryLeavesNoFile ==
    Storages = {"memory"} /\ ~Crashes /\ Reliable({"open", "remove"}) =>
        \A a \in Accounts : Quiet(a) => fs[a] \in {NoDir, Mkdir(NoDir)}

\* README: "Directory URL where persistent device provisioning state (adi.pb) is
\* saved."  After a .disk call returned newBlob, adi.pb holds a usable blob
\* whenever no call for the account is under way.
DiskStatePersists ==
    \A a \in Accounts :
        promised[a].pb # Absent /\ Quiet(a) => fs[a].pb \in Blobs

\* More than that: what is on disk is the blob that was returned, though every
\* later call rewrites adi.pb.  A crash between truncation and rewriting, or a
\* write that fails, may lose the blob (DiskStatePersists); it never leaves
\* another one.
DiskStateKept ==
    \A a \in Accounts :
        promised[a].pb # Absent /\ Quiet(a) =>
            \/ fs[a].pb = promised[a].pb
            \/ (Crashes \/ "write" \in IoFaults) /\ fs[a].pb = Empty

\* Of every blob on disk, returned to a caller or not, when no call is at work on
\* it: the routing information beside it is what the provisioning that made the
\* blob had been told, and the cache holds that, nothing, or a caller's own.
\* What the code loses, it loses between ADIProvisioningEnd, which writes adi.pb,
\* and the saving of the routing information: a process that dies there, or a
\* read-back that cannot open adi.pb, leaves a blob without any, and for good,
\* since nothing is provisioned again while adi.pb is there.  Once a call has
\* returned the blob, only a write that fails has left it without.
RoutingSurvivesRestart ==
    \A a \in Accounts :
        fs[a].pb # Absent /\ Quiet(a) =>
            /\ \/ fs[a].rinfo = promised[a].rinfo
               \/ /\ fs[a].rinfo = NoRinfo
                  /\ \/ promised[a].pb = Absent /\ (Crashes \/ "open" \in IoFaults)
                     \/ "write" \in IoFaults
            /\ cache[a] \in {NoRinfo, promised[a].rinfo} \cup Customs

(***************************************************************************)
(* What the client relies on and what it may do in return.  The provider   *)
(* was specified with callers that invoke and collect, and with a client   *)
(* that changes the files at any moment, by HostFileStep: handles of its   *)
(* own are none of the provider's business.                                *)
(***************************************************************************)
ProviderHandles == {w \in writers : pc[w[1]] # "idle"}

Provider == INSTANCE AdiProvider WITH writers <- ProviderHandles, Calls <- Requests

\* However its tasks overlap, and whatever fails in them, the client calls the
\* provider and touches the files only as AdiProvider foresees: what holds of a
\* provider among such clients holds of it here.
UsesProvider == Provider!ProviderSpec

(***************************************************************************)
(* Liveness.  Tasks are scheduled, a request to Apple answers or times     *)
(* out, ADI code returns.  The calls are finitely many, so that a mutex    *)
(* that is not fair cannot starve one of them for ever.                    *)
(***************************************************************************)
FairSpec == Spec /\ \A t \in Threads : WF_vars(TaskStep(t)) /\ WF_vars(InProvider(t))

\* Every call of getAnisetteData returns, whatever fails in it.
CallReturns == \A t \in Threads : at[t] # "idle" ~> at[t] = "idle"
================================================================================
