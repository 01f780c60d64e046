------------------------ MODULE ProvisioningClientProofs ------------------------
(***************************************************************************)
(* Proofs about AnisetteClient.swift, for every number of tasks, accounts, *)
(* sessions and calls: the types and the shape of a call, whatever the     *)
(* tasks do at once; and, under the conditions each of them needs, that a  *)
(* call returns its own blob and password, that memory mode leaves no file *)
(* and that disk mode keeps what it promised.                              *)
(***************************************************************************)
EXTENDS ProvisioningClient, AdiProviderProofs

(***************************************************************************)
(* The shape of a call: where the task is in getAnisetteData says where it *)
(* is inside the provider, and the request there is made of its own job.   *)
(***************************************************************************)
Waiting == {"starting", "ending", "getting"}

StartReq(t) == [op |-> "start", acct |-> job[t].acct, pb |-> Empty, session |-> NoSession]
EndReq(t) == [op |-> "end", acct |-> job[t].acct, pb |-> Empty, session |-> work[t].session]
HeadersReq(t) == [op |-> "headers", acct |-> job[t].acct, pb |-> work[t].blob, session |-> NoSession]

Provisioning == {"check", "read", "lookup", "spim", "start", "starting", "ptm", "end", "ending"}

ShapeOf(t) ==
    /\ pc[t] # "idle" <=> at[t] \in Waiting
    /\ at[t] = "idle" <=> job[t] = NoJob
    /\ at[t] = "idle" => work[t] = NoWork /\ result[t] = NoResult
    /\ at[t] = "starting" => req[t] = StartReq(t)
    /\ at[t] = "ending" => req[t] = EndReq(t)
    /\ at[t] = "getting" => req[t] = HeadersReq(t)
    /\ at[t] \in {"ptm", "end", "ending"} => work[t].session \in Sessions
    /\ at[t] \in Provisioning => ~work[t].fresh
    /\ at[t] \in {"open", "fill"} => job[t].storage = "disk"
    /\ at[t] \in {"rmPb", "rmRinfo", "rmTree"} => job[t].storage = "memory"
    /\ at[t] \notin {"rmPb", "rmRinfo", "rmTree", "returned"} => result[t].kind = "none"
    /\ at[t] \in {"routing", "rdir", "rinfo", "save", "open", "fill"} => work[t].fresh

ClientShape == \A t \in Threads : ShapeOf(t)


ClientInv == TypeOK /\ ProviderInv /\ ClientShape

Jobs == [acct : Accounts, storage : Storages, existing : Blobs \cup {Empty}, custom : Customs]

Works == [blob : Blobs \cup {Empty}, fresh : BOOLEAN, active : Rinfos \cup {NoRinfo},
          session : Sessions \cup {NoSession}]

Results == [kind : {"none", "failed", "ok"}, blob : Contents, rinfo : Rinfos \cup {NoRinfo}]

\* The client's own variables.
ClientTyped ==
    /\ at \in [Threads -> AtPCs] /\ job \in [Threads -> {NoJob} \cup Jobs]
    /\ work \in [Threads -> Works] /\ result \in [Threads -> Results]
    /\ cache \in [Accounts -> Rinfos \cup {NoRinfo}]
    /\ begun \in 0..MaxCalls
    /\ promised \in [Accounts -> [pb : Contents, rinfo : Rinfos \cup {NoRinfo}]]

LEMMA TypesApart == TypeOK <=> ProviderTypeOK /\ ClientTyped
BY DEF TypeOK, ClientTyped, Jobs, Works, Results

LEMMA Nulls ==
    /\ NoWork \in Works /\ NoResult \in Results /\ NoJob.acct = NoAccount
    /\ NoJob \notin Jobs
    /\ NoWork.fresh = FALSE /\ NoResult.kind = "none"
    /\ NoPromise \in [pb : Contents, rinfo : Rinfos \cup {NoRinfo}] /\ NoPromise.pb = Absent
<1>1. NoJob.acct = NoAccount
  BY DEF NoJob
<1>2. NoJob \notin Jobs
  BY <1>1, NullAssumption DEF Jobs
<1> QED BY <1>1, <1>2 DEF NoWork, Works, NoResult, Results, NoPromise, Contents

\* What a task that is in a call works with.
LEMMA JobFields ==
    ASSUME ClientInv, NEW t \in Threads, at[t] # "idle"
    PROVE  /\ job[t] \in Jobs /\ job[t].acct \in Accounts /\ job[t].storage \in Storages
           /\ job[t].existing \in Blobs \cup {Empty} /\ job[t].custom \in Rinfos \cup {NoRinfo}
           /\ work[t].blob \in Blobs \cup {Empty} /\ work[t].blob \in Contents \ {Absent}
           /\ work[t].active \in Rinfos \cup {NoRinfo} /\ work[t].fresh \in BOOLEAN
           /\ job[t].storage \in {"disk", "memory"}
<1>1. job[t] \in Jobs
  BY TypesApart DEF ClientInv, ClientTyped, ClientShape, ShapeOf
<1>2. work[t] \in Works
  BY TypesApart DEF ClientInv, ClientTyped
<1> QED BY <1>1, <1>2, ClientAssumption, ContentsAssumption DEF Jobs, Works, Contents

\* What the provider answers to each of the three questions.
LEMMA AnswersTaken ==
    ASSUME ClientInv, NEW t \in Threads, pc[t] = "done"
    PROVE  \/ resp[t].kind = "error"
           \/ at[t] = "starting" /\ resp[t].kind = "cpim" /\ resp[t].session \in Sessions
           \/ at[t] = "ending" /\ resp[t].kind = "pb" /\ resp[t].blob \in Blobs \cup {Empty}
           \/ at[t] = "getting" /\ resp[t].kind = "headers" /\ resp[t].blob \in Blobs
<1>1. /\ at[t] \in Waiting
      /\ at[t] = "starting" => req[t] = StartReq(t)
      /\ at[t] = "ending" => req[t] = EndReq(t)
      /\ at[t] = "getting" => req[t] = HeadersReq(t)
  BY DEF ClientInv, ClientShape, ShapeOf
<1>2. AnswerFits(req[t], resp[t])
  BY DEF ClientInv, ProviderInv, CallsInv, AnswersFit
<1> QED BY <1>1, <1>2 DEF AnswerFits, Waiting, StartReq, EndReq, HeadersReq

\* Where a task is inside the provider tells what it asks.
LEMMA InsideProvider ==
    ASSUME ClientInv, NEW t \in Threads
    PROVE  /\ pc[t] = "readback" => at[t] = "ending"
           /\ pc[t] \in {"flush", "otp"} => at[t] = "getting"
           /\ pc[t] # "idle" => req[t].acct = job[t].acct /\ job[t].acct \in Accounts
           /\ at[t] = "getting" => req[t].pb = work[t].blob
           /\ at[t] = "ending" => req[t].session = work[t].session
<1>1. /\ pc[t] # "idle" => at[t] \in Waiting
      /\ at[t] = "starting" => req[t] = StartReq(t)
      /\ at[t] = "ending" => req[t] = EndReq(t)
      /\ at[t] = "getting" => req[t] = HeadersReq(t)
      /\ pc[t] \in {"flush", "otp"} => req[t].op = "headers"
      /\ pc[t] = "readback" => req[t].op = "end"
  BY DEF ClientInv, ClientShape, ShapeOf, ProviderInv, CallsInv, CallsKept
<1> QED BY <1>1, JobFields DEF Waiting, StartReq, EndReq, HeadersReq

\* A step of a task, or of its call inside the provider, concerns no other task.
LEMMA TaskIsOwn ==
    ASSUME TypeOK, NEW t \in Threads, TaskStep(t)
    PROVE  /\ at[t] # "idle"
           /\ \A u \in Threads \ {t} : /\ at'[u] = at[u] /\ job'[u] = job[u]
                                       /\ work'[u] = work[u] /\ result'[u] = result[u]
                                       /\ pc'[u] = pc[u] /\ req'[u] = req[u] /\ resp'[u] = resp[u]
           /\ UNCHANGED begun
<1> USE DEF providerVars, TypeOK, ProviderTypeOK, Step, Throw
<1>1. CASE CheckDisk(t) \/ CheckMemory(t) \/ ReadDisk(t) \/ ReadDiskFails(t) \/ Lookup(t)
           \/ FetchSpim(t) \/ FetchPtmTk(t) \/ HttpFails(t)
  BY <1>1 DEF CheckDisk, CheckMemory, ReadDisk, ReadDiskFails, Lookup, FetchSpim, FetchPtmTk, HttpStep, HttpFails
<1>2. CASE CallStart(t) \/ CallEnd(t) \/ CallHeaders(t)
  BY <1>2 DEF CallStart, CallEnd, CallHeaders, CallProvider, Invoke, Goto
<1>3. CASE Started(t) \/ Ended(t) \/ Got(t)
  BY <1>3 DEF Started, Ended, Got, Collect, Goto
<1>4. CASE KeepRouting(t) \/ MakeRinfoDir(t) \/ SaveRinfo(t) \/ SaveDisk(t) \/ SaveDiskFails(t)
           \/ OpenDisk(t) \/ OpenDiskFails(t) \/ FillDisk(t) \/ FillDiskFails(t)
  BY <1>4 DEF KeepRouting, MakeRinfoDir, SaveRinfo, SaveDisk, SaveDiskFails, OpenDisk,
              OpenDiskFails, FillDisk, FillDiskFails
<1>5. CASE StoredRouting(t) \/ ReadRinfo(t) \/ CacheSaved(t)
  BY <1>5 DEF StoredRouting, ReadRinfo, CacheSaved, Deliver
<1>6. CASE CleanupPb(t) \/ CleanupRinfo(t) \/ CleanupTree(t) \/ Finish(t)
  BY <1>6 DEF CleanupPb, CleanupRinfo, CleanupTree, CleanupStep, Finish
<1> QED BY <1>1, <1>2, <1>3, <1>4, <1>5, <1>6 DEF TaskStep

\* The client calls the provider and changes the files as the provider expects it.
LEMMA TaskServed ==
    ASSUME ClientInv, NEW t \in Threads, TaskStep(t)
    PROVE  ProviderInv'
<1>a. /\ at[t] # "idle" /\ job[t].acct \in Accounts
      /\ work[t].blob \in Contents \ {Absent} /\ work[t].blob \in Blobs \cup {Empty}
      /\ work[t].active \in Rinfos \cup {NoRinfo}
      /\ at[t] \in {"end", "ending"} => work[t].session \in Sessions
  BY TaskIsOwn, JobFields DEF ClientInv, ClientShape, ShapeOf
<1>b. ProviderInv /\ FilesTyped /\ FilesSane
  BY DEF ClientInv, ProviderInv, CallsInv, ProviderTypeOK, FilesTyped
<1>c. ASSUME UNCHANGED <<pc, req, resp, holder, sessions, minted>>, UNCHANGED <<fs, writers>>
      PROVE  ProviderInv'
  BY <1>b, <1>c, BesideKeeps DEF FilesTyped, FilesSane
<1>d. ASSUME UNCHANGED <<pc, req, resp, holder, sessions, minted>>, NEW r \in Rinfos \cup {NoRinfo},
             LET a == job[t].acct IN
             \/ RemovePb(a) \/ RemoveRinfo(a) \/ RemoveTree(a) \/ MakeDirectory(a)
             \/ WriteRinfo(a, r)
      PROVE  ProviderInv'
  BY <1>a, <1>b, <1>d, BesideKeeps, HostOperationTypes, HostOperationSane
<1>e. ASSUME UNCHANGED <<pc, req, resp, holder, sessions, minted>>, NEW c \in Contents \ {Absent},
             OpenForWriting(t, job[t].acct) \/ WriteThrough(t, job[t].acct, c)
      PROVE  ProviderInv'
  BY <1>a, <1>b, <1>e, BesideKeeps, WriteTypes, HandleSane
<1>1. CASE \/ CheckDisk(t) \/ CheckMemory(t) \/ ReadDisk(t) \/ ReadDiskFails(t) \/ Lookup(t)
           \/ FetchSpim(t) \/ FetchPtmTk(t) \/ HttpFails(t) \/ KeepRouting(t) \/ SaveDiskFails(t)
           \/ OpenDiskFails(t) \/ StoredRouting(t) \/ ReadRinfo(t) \/ CacheSaved(t) \/ Finish(t)
  BY <1>1, <1>c DEF CheckDisk, CheckMemory, ReadDisk, ReadDiskFails, Lookup, FetchSpim, FetchPtmTk,
                    HttpStep, HttpFails, KeepRouting, SaveDiskFails, OpenDiskFails, StoredRouting,
                    ReadRinfo, CacheSaved, Finish, providerVars
<1>2. CASE CallStart(t) \/ CallEnd(t) \/ CallHeaders(t)
  <2>1. /\ StartReq(t) \in Requests /\ HeadersReq(t) \in Requests
        /\ at[t] = "end" => EndReq(t) \in Requests
    BY <1>a DEF StartReq, EndReq, HeadersReq, Requests
  <2>2. \E r \in Requests : Invoke(t, r)
    BY <1>2, <2>1 DEF CallStart, CallEnd, CallHeaders, CallProvider, StartReq, EndReq, HeadersReq
  <2> QED BY <1>b, <2>2, InvokeKeeps
<1>3. CASE Started(t) \/ Ended(t) \/ Got(t)
  BY <1>3, <1>b, CollectKeeps DEF Started, Ended, Got
<1>4. CASE MakeRinfoDir(t)
  BY <1>4, <1>d DEF MakeRinfoDir
<1>5. CASE SaveRinfo(t)
  BY <1>5, <1>a, <1>d DEF SaveRinfo
<1>6. CASE SaveDisk(t)
  <2>1. CASE job[t].storage = "disk"
    <3>1. MakeDirectory(job[t].acct)
      BY <1>6, <2>1 DEF SaveDisk, MakeDirectory
    <3> QED BY <1>6, <1>d, <3>1 DEF SaveDisk
  <2>2. CASE job[t].storage # "disk"
    BY <1>6, <1>c, <2>2 DEF SaveDisk
  <2> QED BY <2>1, <2>2
<1>7. CASE OpenDisk(t)
  <2>1. Empty \in Contents \ {Absent}
    BY ContentsAssumption DEF Contents
  <2> QED BY <1>7, <1>c, <1>e, <2>1 DEF OpenDisk
<1>8. CASE FillDisk(t) \/ FillDiskFails(t)
  <2>1. CASE FillDisk(t)
    BY <1>a, <1>e, <2>1 DEF FillDisk
  <2>2. CASE FillDiskFails(t)
    <3>1. PICK c \in {Empty, fs[job[t].acct].pb} : WriteThrough(t, job[t].acct, c)
      BY <2>2 DEF FillDiskFails
    <3>2. CASE c # Absent
      <4>1. c \in Contents \ {Absent}
        BY <1>a, <1>b, <3>2 DEF FilesTyped, DirState, Contents
      <4> QED BY <1>e, <2>2, <3>1, <4>1 DEF FillDiskFails
    <3>3. CASE c = Absent
      <4>1. <<t, job[t].acct>> \notin writers /\ UNCHANGED fs /\ UNCHANGED writers
        BY <1>a, <1>b, <3>1, <3>3, ContentsAssumption DEF WriteThrough, FilesSane
      <4> QED BY <1>c, <2>2, <4>1 DEF FillDiskFails
    <3> QED BY <3>2, <3>3
  <2> QED BY <1>8, <2>1, <2>2
<1>9. CASE CleanupPb(t) \/ CleanupRinfo(t) \/ CleanupTree(t)
  BY <1>9, <1>d DEF CleanupPb, CleanupRinfo, CleanupTree, CleanupStep
<1> QED BY <1>1, <1>2, <1>3, <1>4, <1>5, <1>6, <1>7, <1>8, <1>9 DEF TaskStep

\* The client's variables keep their types.
LEMMA TaskTyped ==
    ASSUME ClientInv, NEW t \in Threads, TaskStep(t)
    PROVE  ClientTyped'
<1>a. /\ at[t] # "idle" /\ job[t] \in Jobs /\ job[t].acct \in Accounts
      /\ job[t].existing \in Blobs \cup {Empty} /\ job[t].custom \in Rinfos \cup {NoRinfo}
      /\ work[t].blob \in Contents /\ work[t].active \in Rinfos \cup {NoRinfo}
  BY TaskIsOwn, JobFields DEF ClientInv
<1>b. ClientTyped /\ fs \in [Accounts -> DirState]
  BY TypesApart DEF ClientInv, ProviderTypeOK
<1>c. /\ fs[job[t].acct].pb \in Blobs \cup {Absent, Empty}
      /\ fs[job[t].acct].rinfo \in Rinfos \cup {NoRinfo}
      /\ cache[job[t].acct] \in Rinfos \cup {NoRinfo}
  BY <1>a, <1>b DEF ClientTyped, DirState, Contents
<1> USE DEF ClientTyped, Step, AtPCs
<1>e. ASSUME NEW c \in Blobs \cup {Empty}, work' = [work EXCEPT ![t].blob = c]
      PROVE  work' \in [Threads -> Works]
  BY <1>b, <1>e DEF Works
<1>f. ASSUME NEW x \in Rinfos \cup {NoRinfo}, work' = [work EXCEPT ![t].active = x]
      PROVE  work' \in [Threads -> Works]
  BY <1>b, <1>f DEF Works
<1>g. ASSUME NEW n \in Sessions, work' = [work EXCEPT ![t].session = n]
      PROVE  work' \in [Threads -> Works]
  BY <1>b, <1>g DEF Works
<1>h. ASSUME NEW c \in Blobs \cup {Empty}, work' = [work EXCEPT ![t].blob = c, ![t].fresh = TRUE]
      PROVE  work' \in [Threads -> Works]
  <2> DEFINE v == [work EXCEPT ![t].blob = c]
  <2>1. v \in [Threads -> Works]
    BY <1>b DEF Works
  <2>2. work' = [v EXCEPT ![t].fresh = TRUE]
    BY <1>h, <1>b
  <2> HIDE DEF v
  <2> QED BY <2>1, <2>2 DEF Works
<1>i. ASSUME NEW k \in {"none", "failed", "ok"}, result' = [result EXCEPT ![t].kind = k]
      PROVE  result' \in [Threads -> Results]
  BY <1>b, <1>i DEF Results
<1>j. ASSUME NEW c \in Contents, result' = [result EXCEPT ![t].blob = c]
      PROVE  result' \in [Threads -> Results]
  BY <1>b, <1>j DEF Results
<1>k. ASSUME NEW x \in Rinfos \cup {NoRinfo},
             result' = [result EXCEPT ![t].kind = "ok", ![t].rinfo = x]
      PROVE  result' \in [Threads -> Results]
  BY <1>b, <1>k DEF Results
<1>t. ASSUME Throw(t) PROVE ClientTyped'
  BY <1>b, <1>i, <1>t DEF Throw
<1>1. CASE CheckDisk(t)
  BY <1>1, <1>b DEF CheckDisk
<1>2. CASE CheckMemory(t)
  BY <1>2, <1>a, <1>b, <1>e DEF CheckMemory
<1>3. CASE ReadDisk(t) \/ ReadDiskFails(t)
  BY <1>3, <1>b, <1>c, <1>e, <1>t DEF ReadDisk, ReadDiskFails
<1>4. CASE Lookup(t) \/ FetchSpim(t) \/ FetchPtmTk(t)
  BY <1>4, <1>a, <1>b, <1>f DEF Lookup, FetchSpim, FetchPtmTk, HttpStep
<1>5. CASE HttpFails(t)
  BY <1>5, <1>t DEF HttpFails
<1>6. CASE CallStart(t) \/ CallEnd(t) \/ CallHeaders(t)
  BY <1>6, <1>a, <1>b DEF CallStart, CallEnd, CallHeaders, CallProvider
<1>7. CASE Started(t)
  BY <1>7, <1>b, <1>g, <1>t, AnswersTaken DEF Started, Collect
<1>8. CASE Ended(t)
  BY <1>8, <1>b, <1>h, <1>t, AnswersTaken DEF Ended, Collect
<1>9. CASE KeepRouting(t)
  BY <1>9, <1>a, <1>b DEF KeepRouting
<1>10. CASE MakeRinfoDir(t) \/ SaveRinfo(t) \/ SaveDisk(t) \/ OpenDisk(t) \/ FillDisk(t)
  BY <1>10, <1>b DEF MakeRinfoDir, SaveRinfo, SaveDisk, OpenDisk, FillDisk
<1>11. CASE SaveDiskFails(t) \/ OpenDiskFails(t) \/ FillDiskFails(t)
  BY <1>11, <1>t DEF SaveDiskFails, OpenDiskFails, FillDiskFails
<1>12. CASE Got(t)
  BY <1>12, <1>b, <1>i, <1>j, AnswersTaken DEF Got, Collect, Cleanup, Contents
<1>d. ASSUME NEW x \in Rinfos \cup {NoRinfo}, Deliver(t, x)
      PROVE  /\ at' \in [Threads -> AtPCs] /\ result' \in [Threads -> Results]
             /\ promised' \in [Accounts -> [pb : Contents, rinfo : Rinfos \cup {NoRinfo}]]
  BY <1>a, <1>b, <1>d, <1>k DEF Deliver, Cleanup
<1>13. CASE StoredRouting(t)
  BY <1>13, <1>b, <1>c, <1>d DEF StoredRouting
<1>14. CASE ReadRinfo(t) \/ CacheSaved(t)
  BY <1>14, <1>a, <1>b, <1>c, <1>d, <1>f DEF ReadRinfo, CacheSaved
<1>15. CASE CleanupPb(t) \/ CleanupRinfo(t) \/ CleanupTree(t)
  BY <1>15, <1>b DEF CleanupPb, CleanupRinfo, CleanupTree, CleanupStep
<1>16. CASE Finish(t)
  BY <1>16, <1>b, Nulls DEF Finish
<1> QED BY <1>1, <1>2, <1>3, <1>4, <1>5, <1>6, <1>7, <1>8, <1>9, <1>10, <1>11, <1>12, <1>13,
           <1>14, <1>15, <1>16 DEF TaskStep

\* Every step of a task keeps the shape of its call.
LEMMA TaskShape ==
    ASSUME ClientInv, NEW t \in Threads, TaskStep(t)
    PROVE  ClientShape'
<1>a. /\ at[t] # "idle" /\ job[t] # NoJob /\ ShapeOf(t)
      /\ job[t].storage \in {"disk", "memory"}
  BY TaskIsOwn, JobFields, Nulls DEF ClientInv, ClientShape
<1>b. /\ at \in [Threads -> AtPCs] /\ DOMAIN job = Threads /\ work \in [Threads -> Works]
      /\ result \in [Threads -> Results] /\ pc \in [Threads -> PCs] /\ DOMAIN req = Threads
  BY TypesApart DEF ClientInv, ClientTyped, ProviderTypeOK
<1>s. ASSUME ShapeOf(t)' PROVE ClientShape'
  <2>1. ASSUME NEW u \in Threads \ {t} PROVE ShapeOf(u)'
    <3>1. ShapeOf(u)
      BY DEF ClientInv, ClientShape
    <3>2. /\ at'[u] = at[u] /\ job'[u] = job[u] /\ work'[u] = work[u] /\ result'[u] = result[u]
          /\ pc'[u] = pc[u] /\ req'[u] = req[u]
      BY TaskIsOwn DEF ClientInv
    <3> QED BY <3>1, <3>2 DEF ShapeOf, StartReq, EndReq, HeadersReq
  <2> QED BY <1>s, <2>1 DEF ClientShape
<1> SUFFICES ShapeOf(t)'
  BY <1>s
<1> USE DEF Step, Waiting, Provisioning
<1>t. ASSUME Throw(t), UNCHANGED providerVars, at[t] \notin Waiting PROVE ShapeOf(t)'
  BY <1>a, <1>b, <1>t DEF Throw, ShapeOf, providerVars
<1>c. ASSUME Throw(t), Collect(t) PROVE ShapeOf(t)'
  BY <1>a, <1>b, <1>c DEF Throw, Collect, Goto, ShapeOf
<1>1. CASE CheckDisk(t) \/ CheckMemory(t)
  BY <1>1, <1>a, <1>b DEF CheckDisk, CheckMemory, ShapeOf, providerVars, Works
<1>2. CASE ReadDisk(t) \/ ReadDiskFails(t)
  BY <1>2, <1>a, <1>b, <1>t DEF ReadDisk, ReadDiskFails, ShapeOf, providerVars, Works
<1>3. CASE Lookup(t) \/ FetchSpim(t) \/ FetchPtmTk(t)
  <2>1. PICK r : work' = [work EXCEPT ![t].active = r]
    BY <1>3 DEF Lookup, FetchSpim, FetchPtmTk, HttpStep
  <2>2. work'[t].fresh = work[t].fresh /\ work'[t].session = work[t].session
    BY <1>b, <2>1 DEF Works
  <2> QED BY <1>3, <1>a, <1>b, <2>2
          DEF Lookup, FetchSpim, FetchPtmTk, HttpStep, ShapeOf, providerVars
<1>4. CASE HttpFails(t)
  BY <1>4, <1>t DEF HttpFails
<1>5. CASE CallStart(t) \/ CallEnd(t) \/ CallHeaders(t)
  BY <1>5, <1>a, <1>b DEF CallStart, CallEnd, CallHeaders, CallProvider, Invoke, Goto, ShapeOf,
                          StartReq, EndReq, HeadersReq
<1>6. CASE Started(t)
  <2>1. CASE Throw(t)
    BY <1>6, <1>c, <2>1 DEF Started
  <2>2. CASE ~Throw(t)
    <3>1. resp[t].session \in Sessions
      BY <1>6, <2>2, AnswersTaken DEF Started, Collect
    <3> QED BY <1>6, <1>a, <1>b, <2>2, <3>1 DEF Started, Collect, Goto, ShapeOf, Works
  <2> QED BY <2>1, <2>2
<1>7. CASE Ended(t)
  <2>1. CASE Throw(t)
    BY <1>7, <1>c, <2>1 DEF Ended
  <2>2. CASE ~Throw(t)
    BY <1>7, <1>a, <1>b, <2>2 DEF Ended, Collect, Goto, ShapeOf, Works
  <2> QED BY <2>1, <2>2
<1>8. CASE KeepRouting(t) \/ MakeRinfoDir(t) \/ SaveRinfo(t) \/ SaveDisk(t)
  BY <1>8, <1>a, <1>b DEF KeepRouting, MakeRinfoDir, SaveRinfo, SaveDisk, ShapeOf, providerVars
<1>9. CASE SaveDiskFails(t) \/ OpenDiskFails(t) \/ FillDiskFails(t)
  BY <1>9, <1>a, <1>b DEF SaveDiskFails, OpenDiskFails, FillDiskFails, Throw, ShapeOf, providerVars
<1>10. CASE OpenDisk(t) \/ FillDisk(t)
  BY <1>10, <1>a, <1>b DEF OpenDisk, FillDisk, ShapeOf
<1>11. CASE Got(t)
  BY <1>11, <1>a, <1>b DEF Got, Collect, Goto, Cleanup, ShapeOf, Results
<1>12. CASE StoredRouting(t)
  BY <1>12, <1>a, <1>b DEF StoredRouting, Deliver, Cleanup, ShapeOf, providerVars
<1>13. CASE ReadRinfo(t) \/ CacheSaved(t)
  BY <1>13, <1>a, <1>b DEF ReadRinfo, CacheSaved, Deliver, Cleanup, ShapeOf, providerVars, Works
<1>14. CASE CleanupPb(t) \/ CleanupRinfo(t) \/ CleanupTree(t)
  BY <1>14, <1>a, <1>b DEF CleanupPb, CleanupRinfo, CleanupTree, CleanupStep, ShapeOf
<1>15. CASE Finish(t)
  BY <1>15, <1>a, <1>b, Nulls DEF Finish, ShapeOf, providerVars
<1> QED BY <1>1, <1>2, <1>3, <1>4, <1>5, <1>6, <1>7, <1>8, <1>9, <1>10, <1>11, <1>12, <1>13,
           <1>14, <1>15 DEF TaskStep

\* The beginning of a call of getAnisetteData: what it sets.
LEMMA BeginSets ==
    ASSUME ClientInv, NEW t \in Threads, BeginAny(t)
    PROVE  /\ at[t] = "idle" /\ at'[t] = "check" /\ job'[t] \in Jobs
           /\ Overlap \/ Quiet(job'[t].acct)
           /\ begun' = begun + 1 /\ begun < MaxCalls
           /\ \A u \in Threads \ {t} : at'[u] = at[u] /\ job'[u] = job[u]
           /\ at' \in [Threads -> AtPCs] /\ job' \in [Threads -> {NoJob} \cup Jobs]
           /\ \A a \in Accounts : \/ cache'[a] = cache[a]
                                  \/ a = job'[t].acct /\ cache'[a] \in Customs
           /\ cache' \in [Accounts -> Rinfos \cup {NoRinfo}]
           /\ UNCHANGED <<work, result, promised, providerVars>>
<1>0. PICK a \in Accounts, st \in Storages, cu \in Customs :
         \E ex \in Existing(a, st) : Begin(t, a, st, ex, cu)
  BY DEF BeginAny
<1>1. PICK ex \in Existing(a, st) : Begin(t, a, st, ex, cu)
  BY <1>0
<1>2. minted \subseteq Sessions /\ ClientTyped
  BY TypesApart DEF ClientInv, ProviderTypeOK
<1>3. ex \in Blobs \cup {Empty}
  BY <1>2 DEF Existing, Blobs
<1>4. [acct |-> a, storage |-> st, existing |-> ex, custom |-> cu] \in Jobs
  BY <1>3 DEF Jobs
<1> QED BY <1>1, <1>2, <1>4, ClientAssumption DEF Begin, Step, ClientTyped, AtPCs

\* The other steps, and all of them together.
LEMMA ClientNext ==
    /\ Init => ClientInv
    /\ ClientInv /\ [Next]_vars => ClientInv'
<1>a. /\ NoDir.pb = Absent /\ Blank \in Responses /\ {"idle", "check"} \subseteq AtPCs
      /\ NoWork \in Works /\ NoResult \in Results /\ NoRinfo \in Rinfos \cup {NoRinfo}
      /\ NoPromise \in [pb : Contents, rinfo : Rinfos \cup {NoRinfo}]
      /\ 0 \in 0..MaxCalls /\ MaxCalls \in Nat
  BY ResponseTypes, Nulls, ClientAssumption DEF NoDir, AtPCs
<1>1. ASSUME Init PROVE ClientInv
  <2>1. ProviderInv
    BY <1>1, ProviderInvInit DEF Init
  <2>2. ClientTyped
    BY <1>1, <1>a DEF Init, ClientTyped
  <2>3. ClientShape
    BY <1>1, Nulls DEF Init, ProviderInit, ClientShape, ShapeOf, Waiting, Provisioning
  <2> QED BY <2>1, <2>2, <2>3, TypesApart DEF ClientInv, ProviderInv, CallsInv
<1>t. ASSUME ProviderInv', ClientTyped', ClientShape' PROVE ClientInv'
  BY <1>t, TypesApart DEF ClientInv, ProviderInv, CallsInv, TypeOK, ProviderTypeOK, ClientTyped, Jobs, Works, Results
<1>2. ASSUME ClientInv, NEW t \in Threads, TaskStep(t) PROVE ClientInv'
  BY <1>2, <1>t, TaskServed, TaskTyped, TaskShape
<1>3. ASSUME ClientInv, NEW t \in Threads, InProvider(t) PROVE ClientInv'
  <2>1. ProviderInv'
    BY <1>3, ProviderStepKeeps DEF InProvider, ClientInv
  <2>2. ClientTyped'
    BY <1>3, TypesApart DEF InProvider, ClientInv, clientVars, ClientTyped
  <2>3. /\ req' = req /\ pc[t] # "idle" /\ pc'[t] # "idle"
        /\ \A u \in Threads \ {t} : pc'[u] = pc[u]
    BY <1>3, StepIsOwn DEF InProvider, ClientInv, ProviderInv, CallsInv, AtWork
  <2>4. ASSUME NEW u \in Threads PROVE ShapeOf(u)'
    <3>1. ShapeOf(u) /\ (pc'[u] = "idle" <=> pc[u] = "idle") /\ UNCHANGED clientVars
      BY <1>3, <2>3 DEF ClientInv, ClientShape, InProvider
    <3> QED BY <2>3, <3>1 DEF ShapeOf, clientVars, StartReq, EndReq, HeadersReq
  <2> QED BY <1>t, <2>1, <2>2, <2>4 DEF ClientShape
<1>4. ASSUME ClientInv, NEW t \in Threads, BeginAny(t) PROVE ClientInv'
  <2>1. ProviderInv'
    BY <1>4, BeginSets, BesideKeeps DEF providerVars, ClientInv, ProviderInv, CallsInv,
       ProviderTypeOK, FilesTyped, FilesSane
  <2>2. ClientTyped
    BY <1>4, TypesApart DEF ClientInv
  <2>5. ClientTyped'
    BY <1>4, <1>a, <2>2, BeginSets DEF ClientTyped
  <2>6. ASSUME NEW u \in Threads PROVE ShapeOf(u)'
    <3>1. ShapeOf(u)
      BY <1>4 DEF ClientInv, ClientShape
    <3>2. UNCHANGED <<pc, req, work, result>>
      BY <1>4, BeginSets DEF providerVars
    <3>3. CASE u = t
      <4>1. at[t] = "idle" /\ at'[t] = "check" /\ job'[t] # NoJob
        BY <1>4, BeginSets, Nulls
      <4> QED BY <3>1, <3>2, <3>3, <4>1, Nulls
              DEF ShapeOf, Waiting, Provisioning
    <3>4. CASE u # t
      BY <1>4, <3>1, <3>2, <3>4, BeginSets DEF ShapeOf, StartReq, EndReq, HeadersReq
    <3> QED BY <3>3, <3>4
  <2> QED BY <1>t, <2>1, <2>5, <2>6 DEF ClientShape
<1>5. ASSUME ClientInv, Crash PROVE ClientInv'
  <2>1. ProviderInv'
    BY <1>5, CrashKeeps DEF Crash, ClientInv
  <2>2. ClientTyped'
    BY <1>5, <1>a, TypesApart DEF Crash, ClientInv, ClientTyped
  <2>3. ClientShape'
    BY <1>5, Nulls DEF Crash, ProviderCrash, ClientShape, ShapeOf, Waiting, Provisioning
  <2> QED BY <1>t, <2>1, <2>2, <2>3
<1>6. ASSUME ClientInv, UNCHANGED vars PROVE ClientInv'
  <2>1. ProviderInv'
    BY <1>6, BesideKeeps DEF vars, providerVars, ClientInv, ProviderInv, CallsInv,
       ProviderTypeOK, FilesTyped, FilesSane
  <2>2. ClientTyped' /\ ClientShape'
    BY <1>6, TypesApart DEF vars, providerVars, clientVars, ClientInv, ClientTyped, ClientShape,
       ShapeOf, StartReq, EndReq, HeadersReq
  <2> QED BY <1>t, <2>1, <2>2
<1> QED BY <1>1, <1>2, <1>3, <1>4, <1>5, <1>6 DEF Next, AllDone

\* Every variable keeps its type, whatever the tasks do at the same time and
\* whatever fails: in particular an answer of the provider is always one that the
\* code that takes it expects.
THEOREM ClientTypeCorrect == Spec => []TypeOK
<1>1. ClientInv => TypeOK
  BY DEF ClientInv
<1> QED BY <1>1, ClientNext, PTL DEF Spec

(***************************************************************************)
(* What a step of a task leaves alone: the directory, the cached routing   *)
(* information and the promise of every account but its own.               *)
(***************************************************************************)
Untouched(a) ==
    /\ fs'[a] = fs[a] /\ cache'[a] = cache[a] /\ promised'[a] = promised[a]
    /\ \A u \in Threads : <<u, a>> \in writers' <=> <<u, a>> \in writers

LEMMA OperationsFrame ==
    ASSUME fs \in [Accounts -> DirState], NEW t \in Threads, NEW a \in Accounts,
           NEW c, NEW r,
           \/ RemovePb(a) \/ RemoveRinfo(a) \/ RemoveTree(a) \/ MakeDirectory(a)
           \/ WriteRinfo(a, r) \/ OpenForWriting(t, a) \/ WriteThrough(t, a, c)
    PROVE  \A b \in Accounts \ {a} :
              /\ fs'[b] = fs[b]
              /\ \A u \in Threads : <<u, b>> \in writers' <=> <<u, b>> \in writers
<1> USE DEF Unlinked, Ignored
<1>1. CASE RemovePb(a) \/ RemoveRinfo(a) \/ RemoveTree(a)
  BY <1>1 DEF RemovePb, RemoveRinfo, RemoveTree
<1>2. CASE MakeDirectory(a) \/ WriteRinfo(a, r)
  BY <1>2 DEF MakeDirectory, WriteRinfo
<1>3. CASE OpenForWriting(t, a)
  BY <1>3 DEF OpenForWriting
<1>4. CASE WriteThrough(t, a, c)
  BY <1>4 DEF WriteThrough
<1> QED BY <1>1, <1>2, <1>3, <1>4

LEMMA TaskFrame ==
    ASSUME ClientInv, NEW t \in Threads, TaskStep(t)
    PROVE  \A a \in Accounts \ {job[t].acct} : Untouched(a)
<1>a. job[t].acct \in Accounts
  BY TaskIsOwn, JobFields DEF ClientInv
<1>b. /\ fs \in [Accounts -> DirState] /\ cache \in [Accounts -> Rinfos \cup {NoRinfo}]
      /\ DOMAIN promised = Accounts
  BY TypesApart DEF ClientInv, ClientTyped, ProviderTypeOK
<1> USE DEF Untouched, Throw, providerVars
<1>1. CASE \/ CheckDisk(t) \/ CheckMemory(t) \/ ReadDisk(t) \/ ReadDiskFails(t) \/ Lookup(t)
           \/ FetchSpim(t) \/ FetchPtmTk(t) \/ HttpFails(t) \/ SaveDiskFails(t)
           \/ OpenDiskFails(t) \/ ReadRinfo(t) \/ Finish(t)
  BY <1>1 DEF CheckDisk, CheckMemory, ReadDisk, ReadDiskFails, Lookup, FetchSpim, FetchPtmTk,
              HttpStep, HttpFails, SaveDiskFails, OpenDiskFails, ReadRinfo, Finish
<1>2. CASE CallStart(t) \/ CallEnd(t) \/ CallHeaders(t)
  BY <1>2, <1>b DEF CallStart, CallEnd, CallHeaders, CallProvider, Invoke
<1>3. CASE Started(t) \/ Ended(t) \/ Got(t)
  BY <1>3 DEF Started, Ended, Got, Collect
<1>4. CASE KeepRouting(t) \/ MakeRinfoDir(t) \/ SaveRinfo(t) \/ SaveDisk(t)
  BY <1>4, <1>a, <1>b, OperationsFrame DEF KeepRouting, MakeRinfoDir, SaveRinfo, SaveDisk
<1>5. CASE OpenDisk(t) \/ FillDisk(t) \/ FillDiskFails(t)
  BY <1>5, <1>a, <1>b, OperationsFrame DEF OpenDisk, FillDisk, FillDiskFails
<1>6. CASE StoredRouting(t) \/ CacheSaved(t)
  BY <1>6, <1>a, <1>b DEF StoredRouting, CacheSaved, Deliver
<1>7. CASE CleanupPb(t) \/ CleanupRinfo(t) \/ CleanupTree(t)
  BY <1>7, <1>a, <1>b, OperationsFrame DEF CleanupPb, CleanupRinfo, CleanupTree, CleanupStep
<1> QED BY <1>1, <1>2, <1>3, <1>4, <1>5, <1>6, <1>7 DEF TaskStep

\* The same for a step inside the provider, which leaves the client's variables.
LEMMA ProviderFrame ==
    ASSUME ClientInv, NEW t \in Threads, InProvider(t)
    PROVE  /\ job[t].acct \in Accounts /\ pc[t] # "idle" /\ pc'[t] # "idle"
           /\ at[t] \in Waiting
           /\ UNCHANGED clientVars /\ UNCHANGED req
           /\ \A a \in Accounts \ {job[t].acct} : Untouched(a)
           /\ \A u \in Threads \ {t} : pc'[u] = pc[u] /\ resp'[u] = resp[u]
<1>1. /\ req' = req /\ pc[t] # "idle" /\ pc'[t] # "idle"
      /\ \A u \in Threads \ {t} : pc'[u] = pc[u] /\ resp'[u] = resp[u]
  BY StepIsOwn DEF InProvider, ClientInv, ProviderInv, CallsInv, AtWork
<1>2. /\ req[t].acct = job[t].acct /\ job[t].acct \in Accounts /\ at[t] \in Waiting
  BY <1>1, InsideProvider DEF ClientInv, ClientShape, ShapeOf
<1>3. fs \in [Accounts -> DirState]
  BY DEF ClientInv, TypeOK, ProviderTypeOK
<1>4. \A a \in Accounts \ {req[t].acct} :
          /\ fs'[a] = fs[a]
          /\ \A u \in Threads : <<u, a>> \in writers' <=> <<u, a>> \in writers
  <2> USE DEF InProvider
  <2>1. CASE \/ Acquire(t) \/ CallFails(t) \/ OpenBlobFails(t) \/ OtpRequest(t)
             \/ ProvisioningStart(t) \/ ReadBack(t) \/ ReadBackFails(t) \/ Cancel(t)
    BY <2>1 DEF Acquire, CallFails, OpenBlobFails, OtpRequest, ProvisioningStart, ReadBack,
                ReadBackFails, Cancel
  <2>2. CASE MakeDir(t) \/ ProvisioningStartFails(t) \/ ProvisioningEnd(t)
    BY <2>2, <1>2, <1>3 DEF MakeDir, MakeDirectory, ProvisioningStartFails, RemoveDirectory, Ignored,
                            ProvisioningEnd
  <2>3. CASE OpenBlob(t) \/ FlushBlob(t)
    BY <2>3, <1>2, <1>3, OperationsFrame DEF OpenBlob, FlushBlob
  <2> QED BY <2>1, <2>2, <2>3 DEF ProviderStep
<1> QED BY <1>1, <1>2, <1>4 DEF Untouched, InProvider, clientVars

\* One call at a time for an account, where the callers keep to that.
OneTask ==
    \A t, u \in Threads : at[t] # "idle" /\ job[t].acct = job[u].acct => t = u

LEMMA OneTaskKept ==
    ASSUME ~Overlap
    PROVE  /\ Init => OneTask
           /\ ClientInv /\ OneTask /\ [Next]_vars => OneTask'
<1>1. Init => OneTask
  BY DEF Init, OneTask
<1>2. ASSUME ClientInv, OneTask, NEW t \in Threads, TaskStep(t) PROVE OneTask'
  <2>1. /\ at[t] # "idle" /\ job[t].acct # NoAccount
        /\ job' = job \/ (job'[t] = NoJob /\ at'[t] = "idle")
    <3>1. at[t] # "idle" /\ job[t].acct # NoAccount
      BY <1>2, TaskIsOwn, JobFields, NullAssumption DEF ClientInv
    <3>2. job' = job \/ Finish(t)
      BY <1>2 DEF TaskStep, CheckDisk, CheckMemory, ReadDisk, ReadDiskFails, Lookup, FetchSpim,
         FetchPtmTk, HttpStep, HttpFails, CallStart, CallEnd, CallHeaders, CallProvider, Started,
         Ended, Got, KeepRouting, MakeRinfoDir, SaveRinfo, SaveDisk, SaveDiskFails, OpenDisk,
         OpenDiskFails, FillDisk, FillDiskFails, StoredRouting, ReadRinfo, CacheSaved, CleanupPb, CleanupRinfo, CleanupTree, CleanupStep, Throw
    <3> QED BY <1>2, <3>1, <3>2 DEF Finish, Step, ClientInv, TypeOK
  <2>2. \A u \in Threads \ {t} : /\ at'[u] = at[u] /\ job'[u] = job[u]
                                 /\ at[u] # "idle" => job[u].acct # NoAccount
    BY <1>2, TaskIsOwn, JobFields, NullAssumption DEF ClientInv
  <2> QED BY <1>2, <2>1, <2>2, Nulls DEF OneTask
<1>3. ASSUME ClientInv, OneTask, NEW t \in Threads, InProvider(t) PROVE OneTask'
  BY <1>3 DEF InProvider, clientVars, OneTask
<1>4. ASSUME ClientInv, OneTask, NEW t \in Threads, BeginAny(t) PROVE OneTask'
  BY <1>4, BeginSets DEF Quiet, OneTask
<1>5. ASSUME ClientInv, OneTask, Crash \/ UNCHANGED vars PROVE OneTask'
  BY <1>5 DEF Crash, vars, clientVars, OneTask
<1> QED BY <1>1, <1>2, <1>3, <1>4, <1>5 DEF Next, AllDone

\* So no other call can reach what a task works on.
LEMMA OthersApart ==
    ASSUME ClientInv, OneTask, NEW t \in Threads, NEW u \in Threads \ {t},
           at[t] # "idle", at[u] # "idle"
    PROVE  job[u].acct # job[t].acct /\ job[u].acct \in Accounts
BY JobFields DEF OneTask

(***************************************************************************)
(* Routing information, where an account's calls do not overlap.           *)
(***************************************************************************)
\* What was found while provisioning is in the cache until the call returns it.
RoutingOf(t) ==
    work[t].fresh /\ work[t].active # NoRinfo =>
        /\ at[t] \in {"rdir", "rinfo", "save", "open", "fill", "headers", "getting", "stored"} =>
               cache[job[t].acct] = work[t].active
        /\ result[t].kind = "ok" => result[t].rinfo = work[t].active

RoutingInv == \A t \in Threads : RoutingOf(t)

LEMMA OwnStepRoutes ==
    ASSUME ClientInv, NEW t \in Threads, TaskStep(t), RoutingOf(t)
    PROVE  RoutingOf(t)'
<1>a. /\ at[t] # "idle" /\ ShapeOf(t) /\ job[t].acct \in Accounts
      /\ work[t].active \in Rinfos \cup {NoRinfo}
  BY TaskIsOwn, JobFields DEF ClientInv, ClientShape
<1>b. /\ at \in [Threads -> AtPCs] /\ DOMAIN job = Threads /\ work \in [Threads -> Works]
      /\ result \in [Threads -> Results] /\ cache \in [Accounts -> Rinfos \cup {NoRinfo}]
  BY TypesApart DEF ClientInv, ClientTyped
<1> USE DEF Step, ShapeOf, Provisioning
<1>t. ASSUME Throw(t) PROVE RoutingOf(t)'
  BY <1>a, <1>b, <1>t DEF Throw, RoutingOf, Results
<1>1. CASE CheckDisk(t) \/ CheckMemory(t) \/ ReadDisk(t)
  BY <1>1, <1>a, <1>b DEF CheckDisk, CheckMemory, ReadDisk, RoutingOf, Works
<1>2. CASE Lookup(t) \/ FetchSpim(t) \/ FetchPtmTk(t)
  <2>1. PICK r : work' = [work EXCEPT ![t].active = r]
    BY <1>2 DEF Lookup, FetchSpim, FetchPtmTk, HttpStep
  <2>2. work'[t].fresh = work[t].fresh /\ at[t] \in Provisioning
    BY <1>2, <1>b, <2>1 DEF Works, Lookup, FetchSpim, FetchPtmTk, HttpStep
  <2> QED BY <1>a, <2>2 DEF RoutingOf
<1>3. CASE \/ HttpFails(t) \/ ReadDiskFails(t) \/ SaveDiskFails(t) \/ OpenDiskFails(t)
           \/ FillDiskFails(t)
  BY <1>3, <1>t DEF HttpFails, ReadDiskFails, SaveDiskFails, OpenDiskFails, FillDiskFails
<1>4. CASE CallStart(t) \/ CallEnd(t) \/ CallHeaders(t)
  BY <1>4, <1>a, <1>b DEF CallStart, CallEnd, CallHeaders, CallProvider, RoutingOf
<1>5. CASE Started(t) \/ Ended(t)
  BY <1>5, <1>a, <1>b, <1>t DEF Started, Ended, RoutingOf, Works
<1>6. CASE KeepRouting(t) \/ MakeRinfoDir(t) \/ SaveRinfo(t)
  BY <1>6, <1>a, <1>b DEF KeepRouting, MakeRinfoDir, SaveRinfo, RoutingOf
<1>7. CASE SaveDisk(t) \/ OpenDisk(t) \/ FillDisk(t)
  BY <1>7, <1>a, <1>b DEF SaveDisk, OpenDisk, FillDisk, RoutingOf
<1>8. CASE Got(t)
  BY <1>8, <1>a, <1>b DEF Got, Cleanup, RoutingOf, Results
<1>9. CASE StoredRouting(t)
  BY <1>9, <1>a, <1>b DEF StoredRouting, Deliver, Cleanup, RoutingOf, Results
<1>10. CASE ReadRinfo(t) \/ CacheSaved(t)
  BY <1>10, <1>a, <1>b DEF ReadRinfo, CacheSaved, Deliver, Cleanup, RoutingOf, Results, Works
<1>11. CASE CleanupPb(t) \/ CleanupRinfo(t) \/ CleanupTree(t)
  BY <1>11, <1>a, <1>b DEF CleanupPb, CleanupRinfo, CleanupTree, CleanupStep, RoutingOf
<1>12. CASE Finish(t)
  BY <1>12, <1>b, Nulls DEF Finish, RoutingOf
<1> QED BY <1>1, <1>2, <1>3, <1>4, <1>5, <1>6, <1>7, <1>8, <1>9, <1>10, <1>11, <1>12 DEF TaskStep

\* A call that has provisioned returns the routing information Apple named last
\* while it did: the callers keep an account's calls apart (~Overlap), since the
\* cache is shared and a later write to it would be taken for this call's.
THEOREM RoutingReturned == ASSUME ~Overlap PROVE Spec => []ServerRoutingReturned
<1>1. Init => RoutingInv
  BY Nulls DEF Init, RoutingInv, RoutingOf
<1>2. ASSUME ClientInv, OneTask, RoutingInv, NEW t \in Threads, TaskStep(t) PROVE RoutingInv'
  <2>1. ASSUME NEW u \in Threads \ {t} PROVE RoutingOf(u)'
    <3>1. RoutingOf(u) /\ ShapeOf(u) /\ at[t] # "idle"
      BY <1>2, TaskIsOwn DEF RoutingInv, ClientInv, ClientShape
    <3>2. /\ at'[u] = at[u] /\ job'[u] = job[u] /\ work'[u] = work[u] /\ result'[u] = result[u]
      BY <1>2, TaskIsOwn DEF ClientInv
    <3>3. at[u] # "idle" => cache'[job[u].acct] = cache[job[u].acct]
      BY <1>2, <3>1, OthersApart, TaskFrame DEF Untouched
    <3> QED BY <3>1, <3>2, <3>3, Nulls DEF RoutingOf, ShapeOf
  <2> QED BY <1>2, <2>1, OwnStepRoutes DEF RoutingInv
<1>3. ASSUME RoutingInv, NEW t \in Threads, InProvider(t) PROVE RoutingInv'
  BY <1>3 DEF InProvider, clientVars, RoutingInv, RoutingOf
<1>4. ASSUME ClientInv, OneTask, RoutingInv, NEW t \in Threads, BeginAny(t) PROVE RoutingInv'
  <2>1. ASSUME NEW u \in Threads, work[u].fresh, at[u] # "idle" PROVE RoutingOf(u)'
    <3>1. RoutingOf(u) /\ u # t
      BY <1>4, <2>1, BeginSets DEF RoutingInv
    <3>2. job[u].acct # job'[t].acct /\ job[u].acct \in Accounts
      BY <1>4, <2>1, BeginSets, JobFields DEF Quiet
    <3> QED BY <1>4, <3>1, <3>2, BeginSets DEF RoutingOf
  <2>2. ASSUME NEW u \in Threads, ~(work[u].fresh /\ at[u] # "idle") PROVE RoutingOf(u)'
    <3>1. ~work[u].fresh
      BY <1>4, <2>2, Nulls DEF ClientInv, ClientShape, ShapeOf
    <3> QED BY <1>4, <3>1, BeginSets DEF RoutingOf
  <2> QED BY <2>1, <2>2 DEF RoutingInv
<1>5. ASSUME RoutingInv, Crash \/ UNCHANGED vars PROVE RoutingInv'
  BY <1>5, Nulls DEF Crash, vars, clientVars, RoutingInv, RoutingOf
<1>6. ClientInv /\ OneTask /\ RoutingInv /\ [Next]_vars => RoutingInv'
  BY <1>2, <1>3, <1>4, <1>5 DEF Next, AllDone
<1>7. RoutingInv => ServerRoutingReturned
  BY DEF RoutingInv, RoutingOf, ServerRoutingReturned
<1> QED BY <1>1, <1>6, <1>7, ClientNext, OneTaskKept, PTL DEF Spec

(***************************************************************************)
(* A call's own blob.  The tasks share the account's directory, and only   *)
(* the provider's mutex orders them: as long as no other task writes       *)
(* adi.pb itself, which disk mode does without the mutex, the file a call  *)
(* works on inside the provider can be taken from it, never exchanged.     *)
(***************************************************************************)
NoOtherWriters == "disk" \notin Storages \/ (~Overlap /\ OneTask)

PbOf(t) == fs[job[t].acct].pb

HasHandle(t) == <<t, job[t].acct>> \in writers

MintedFor(t) == [acct |-> job[t].acct, session |-> work[t].session]

\* What a step of another task does to the file of a call inside the provider.
LEMMA RivalOperation ==
    ASSUME fs \in [Accounts -> DirState], NEW a \in Accounts, NEW r, NEW u \in Threads,
           \/ RemovePb(a) \/ RemoveRinfo(a) \/ RemoveTree(a) \/ MakeDirectory(a)
           \/ WriteRinfo(a, r)
    PROVE  \/ fs'[a].pb = fs[a].pb /\ (<<u, a>> \in writers' <=> <<u, a>> \in writers)
           \/ fs'[a].pb = Absent /\ <<u, a>> \notin writers'
<1> USE DEF Ignored
<1>1. CASE RemovePb(a)
  BY <1>1 DEF RemovePb, Unlinked, DirState
<1>2. CASE RemoveTree(a)
  BY <1>2 DEF RemoveTree, Unlinked, NoDir
<1>3. CASE RemoveRinfo(a)
  BY <1>3 DEF RemoveRinfo, DirState
<1>4. CASE MakeDirectory(a)
  BY <1>4 DEF MakeDirectory, Mkdir, DirState
<1>5. CASE WriteRinfo(a, r)
  BY <1>5 DEF WriteRinfo, DirState
<1> QED BY <1>1, <1>2, <1>3, <1>4, <1>5

LEMMA RivalStep ==
    ASSUME ClientInv, NoOtherWriters, NEW t \in Threads, NEW u \in Threads \ {t},
           pc[t] \in AtWork, TaskStep(u) \/ InProvider(u)
    PROVE  LET a == job[t].acct IN
           \/ fs'[a].pb = fs[a].pb /\ (<<t, a>> \in writers' <=> <<t, a>> \in writers)
           \/ fs'[a].pb = Absent /\ <<t, a>> \notin writers'
<1> DEFINE a == job[t].acct
<1>1. at[t] # "idle" /\ a \in Accounts
  BY InsideProvider, NullAssumption DEF ClientInv, ClientShape, ShapeOf, AtWork, Waiting
<1>2. CASE InProvider(u)
  <2>1. holder = t /\ pc[u] \notin AtWork /\ holder # NoThread
    BY <1>2, NullAssumption DEF ClientInv, ProviderInv, CallsInv, OneAtWork
  <2> QED BY <1>2, <2>1 DEF InProvider, ProviderStep, AtWork, Acquire, MakeDir, CallFails,
       OpenBlob, OpenBlobFails, FlushBlob, OtpRequest, ProvisioningStart, ProvisioningStartFails,
       ProvisioningEnd, ReadBack, ReadBackFails, Cancel
<1>3. CASE TaskStep(u) /\ job[u].acct # a
  BY <1>1, <1>3, TaskFrame DEF Untouched
<1>4. CASE TaskStep(u) /\ job[u].acct = a
  <2>1. at[u] # "idle" /\ job[u].storage \in Storages
    BY <1>4, TaskIsOwn, JobFields DEF ClientInv
  <2>2. "disk" \notin Storages
    BY <1>1, <1>4, <2>1 DEF NoOtherWriters, OneTask
  <2>3. at[u] \notin {"open", "fill"}
    BY <2>1, <2>2 DEF ClientInv, ClientShape, ShapeOf
  <2>4. \/ UNCHANGED <<fs, writers>>
        \/ RemovePb(a) \/ RemoveRinfo(a) \/ RemoveTree(a) \/ MakeDirectory(a)
        \/ WriteRinfo(a, work[u].active)
    BY <1>4, <2>3 DEF TaskStep, CheckDisk, CheckMemory, ReadDisk, ReadDiskFails, Lookup, FetchSpim,
       FetchPtmTk, HttpStep, HttpFails, CallStart, CallEnd, CallHeaders, CallProvider, Invoke,
       Collect, Started, Ended, Got, KeepRouting, MakeRinfoDir, SaveRinfo, SaveDisk, SaveDiskFails,
       MakeDirectory, OpenDisk, OpenDiskFails, FillDisk, FillDiskFails, StoredRouting, ReadRinfo,
       CacheSaved, CleanupPb, CleanupRinfo, CleanupTree, CleanupStep, Finish, Throw, providerVars
  <2>5. fs \in [Accounts -> DirState]
    BY DEF ClientInv, TypeOK, ProviderTypeOK
  <2> HIDE DEF a
  <2>6. \/ fs'[a].pb = fs[a].pb /\ (<<t, a>> \in writers' <=> <<t, a>> \in writers)
        \/ fs'[a].pb = Absent /\ <<t, a>> \notin writers'
    BY <1>1, <2>4, <2>5, RivalOperation
  <2> QED BY <2>6 DEF a
<1> QED BY <1>2, <1>3, <1>4

\* The blob a call holds is the one its session minted, as far as it could be read;
\* while the provider has it in hand, the file holds that blob, is truncated by the
\* call itself, or is gone.
\* Unless fopen fails, so is the blob that the one-time password is computed from.
MintedOf(t) ==
    /\ pc[t] = "readback" => PbOf(t) \in {Absent, MintedFor(t)}
    /\ pc[t] = "done" /\ resp[t].kind = "pb" => resp[t].blob \in Taken(MintedFor(t))
    /\ work[t].fresh => work[t].blob \in Taken(MintedFor(t))

WrittenOf(t) ==
    /\ pc[t] = "flush" =>
         \/ HasHandle(t) /\ PbOf(t) = Empty
         \/ ~HasHandle(t) /\ PbOf(t) = Absent
    /\ pc[t] = "otp" => PbOf(t) \in {Absent, Empty, work[t].blob}
    /\ pc[t] = "done" /\ resp[t].kind = "headers" => resp[t].blob = work[t].blob
    /\ at[t] \in {"stored", "caching"} \/ result[t].kind = "ok" =>
           result[t].blob = work[t].blob

OwnOf(t) == MintedOf(t) /\ (Reliable({"open"}) => WrittenOf(t))

OwnInv == \A t \in Threads : OwnOf(t)

\* The steps of the call itself outside the provider.
LEMMA OwnTaskStep ==
    ASSUME ClientInv, NEW t \in Threads, TaskStep(t), OwnOf(t)
    PROVE  OwnOf(t)'
<1>a. at[t] # "idle" /\ ShapeOf(t)
  BY TaskIsOwn DEF ClientInv, ClientShape
<1>b. /\ at \in [Threads -> AtPCs] /\ DOMAIN job = Threads /\ work \in [Threads -> Works]
      /\ result \in [Threads -> Results] /\ DOMAIN pc = Threads
  BY TypesApart DEF ClientInv, ClientTyped, ProviderTypeOK
<1> USE DEF Step, ShapeOf, Provisioning, Waiting, OwnOf, MintedOf, WrittenOf, MintedFor
<1>i. at[t] \notin Waiting => pc[t] = "idle"
  BY <1>a
<1>t. ASSUME Throw(t), pc'[t] = "idle", at[t] \in AtPCs \ {"stored", "caching"} PROVE OwnOf(t)'
  BY <1>a, <1>b, <1>t DEF Throw, Results
<1>1. CASE CheckDisk(t) \/ CheckMemory(t)
  BY <1>1, <1>a, <1>b, <1>i DEF CheckDisk, CheckMemory, Works, providerVars
<1>2. CASE ReadDisk(t)
  BY <1>2, <1>a, <1>b, <1>i DEF ReadDisk, Works, providerVars
<1>3. CASE Lookup(t) \/ FetchSpim(t) \/ FetchPtmTk(t)
  <2>1. PICK r : work' = [work EXCEPT ![t].active = r]
    BY <1>3 DEF Lookup, FetchSpim, FetchPtmTk, HttpStep
  <2>2. work'[t].fresh = work[t].fresh
    BY <1>b, <2>1 DEF Works
  <2> QED BY <1>3, <1>a, <1>b, <1>i, <2>2 DEF Lookup, FetchSpim, FetchPtmTk, HttpStep, providerVars
<1>4. CASE HttpFails(t) \/ ReadDiskFails(t) \/ SaveDiskFails(t) \/ OpenDiskFails(t)
           \/ FillDiskFails(t)
  BY <1>4, <1>a, <1>b, <1>i, <1>t
     DEF HttpFails, ReadDiskFails, SaveDiskFails, OpenDiskFails, FillDiskFails, providerVars
<1>5. CASE CallStart(t) \/ CallEnd(t) \/ CallHeaders(t)
  BY <1>5, <1>a, <1>b DEF CallStart, CallEnd, CallHeaders, CallProvider, Invoke, Goto
<1>c. ASSUME Collect(t) PROVE pc'[t] = "idle"
  BY <1>b, <1>c DEF Collect, Goto
<1>6. CASE Started(t)
  BY <1>6, <1>a, <1>b, <1>c, <1>t DEF Started, Works
<1>7. CASE Ended(t)
  <2>1. CASE resp[t].kind = "error"
    BY <1>7, <1>a, <1>b, <1>c, <1>t, <2>1 DEF Ended
  <2>2. CASE resp[t].kind # "error"
    <3>1. resp[t].kind = "pb" /\ pc[t] = "done" /\ pc'[t] = "idle"
      BY <1>7, <1>c, <2>2, AnswersTaken DEF Ended, Collect
    <3> QED BY <1>7, <1>a, <1>b, <2>2, <3>1 DEF Ended, Works
  <2> QED BY <2>1, <2>2
<1>8. CASE KeepRouting(t) \/ MakeRinfoDir(t) \/ SaveRinfo(t)
  BY <1>8, <1>a, <1>b, <1>i DEF KeepRouting, MakeRinfoDir, SaveRinfo, providerVars
<1>9. CASE SaveDisk(t) \/ OpenDisk(t) \/ FillDisk(t)
  BY <1>9, <1>a, <1>b, <1>i DEF SaveDisk, OpenDisk, FillDisk
<1>10. CASE Got(t)
  <2>1. pc[t] = "done" /\ pc'[t] = "idle" /\ (resp[t].kind = "error" \/ resp[t].kind = "headers")
    BY <1>10, <1>c, AnswersTaken DEF Got, Collect
  <2> QED BY <1>10, <1>a, <1>b, <2>1 DEF Got, Cleanup, Results
<1>11. CASE StoredRouting(t)
  <2>1. result'[t].blob = result[t].blob
    BY <1>11, <1>b DEF StoredRouting, Deliver, Results
  <2> QED BY <1>11, <1>a, <1>b, <1>i, <2>1 DEF StoredRouting, Deliver, Cleanup, providerVars
<1>12. CASE ReadRinfo(t)
  BY <1>12, <1>a, <1>b, <1>i DEF ReadRinfo, providerVars, Works
<1>13. CASE CacheSaved(t)
  <2>1. result'[t].blob = result[t].blob
    BY <1>13, <1>b DEF CacheSaved, Deliver, Results
  <2> QED BY <1>13, <1>a, <1>b, <1>i, <2>1 DEF CacheSaved, Deliver, Cleanup, providerVars
<1>14. CASE CleanupPb(t) \/ CleanupRinfo(t) \/ CleanupTree(t)
  BY <1>14, <1>a, <1>b, <1>i DEF CleanupPb, CleanupRinfo, CleanupTree, CleanupStep
<1>15. CASE Finish(t)
  BY <1>15, <1>a, <1>b, <1>i, Nulls DEF Finish, providerVars
<1> QED BY <1>1, <1>2, <1>3, <1>4, <1>5, <1>6, <1>7, <1>8, <1>9, <1>10, <1>11, <1>12, <1>13,
           <1>14, <1>15 DEF TaskStep

\* Its steps inside.
LEMMA OwnProviderStep ==
    ASSUME ClientInv, NEW t \in Threads, InProvider(t), OwnOf(t)
    PROVE  OwnOf(t)'
<1>a. /\ req[t].acct = job[t].acct /\ job[t].acct \in Accounts
      /\ at[t] = "getting" => req[t].pb = work[t].blob
      /\ at[t] = "ending" => req[t].session = work[t].session
      /\ pc[t] = "readback" => at[t] = "ending"
      /\ pc[t] \in {"flush", "otp"} => at[t] = "getting"
      /\ UNCHANGED <<at, job, work, result>>
  BY ProviderFrame, InsideProvider DEF clientVars
<1>b. /\ fs \in [Accounts -> DirState] /\ DOMAIN pc = Threads /\ DOMAIN resp = Threads
      /\ FilesSane /\ ShapeOf(t) /\ ProviderStep(t)
  BY DEF ClientInv, TypeOK, ProviderTypeOK, ProviderInv, ClientShape, InProvider
<1>c. /\ pc[t] \in AtWork => resp[t].kind = "none"
      /\ pc[t] = "wait" => resp[t].kind = "none"
  BY ResponseFields DEF ClientInv, ProviderInv, CallsInv, CallsKept, AtWork
<1> USE DEF OwnOf, MintedOf, WrittenOf, MintedFor, PbOf, HasHandle, Goto
<1>e. ASSUME NEW k, pc' = [pc EXCEPT ![t] = "done"], resp' = [resp EXCEPT ![t] = k],
             k.kind \in {"error", "cpim", "cancelled"}
      PROVE  OwnOf(t)'
  BY <1>a, <1>b, <1>e
<1>1. CASE Acquire(t) \/ MakeDir(t)
  BY <1>1, <1>a, <1>b, <1>c DEF Acquire, MakeDir, AtWork
<1>2. CASE CallFails(t) \/ ReadBackFails(t) \/ ProvisioningStartFails(t) \/ Cancel(t)
  BY <1>2, <1>e, ResponseFields DEF CallFails, ReadBackFails, ProvisioningStartFails, Cancel, Return
<1>3. CASE ProvisioningStart(t)
  BY <1>3, <1>e, ResponseFields DEF ProvisioningStart, Return
<1>4. CASE OpenBlob(t)
  BY <1>4, <1>a, <1>b, <1>c DEF OpenBlob, OpenForWriting, DirState, AtWork
<1>5. CASE OpenBlobFails(t)
  BY <1>5, <1>a, <1>b, <1>c DEF OpenBlobFails, FilesSane, AtWork, Reliable
<1>6. CASE FlushBlob(t)
  <2>1. PICK c \in Arrived(req[t].acct, req[t].pb) : WriteThrough(t, req[t].acct, c)
    BY <1>6 DEF FlushBlob
  <2>2. c \in {work[t].blob, Empty, PbOf(t)} /\ pc[t] = "flush" /\ pc'[t] = "otp"
    BY <1>6, <1>a, <1>b, <2>1 DEF FlushBlob, Arrived
  <2>3. HasHandle(t) => PbOf(t)' = c
    BY <1>a, <1>b, <2>1 DEF WriteThrough, DirState
  <2>4. ~HasHandle(t) => PbOf(t)' = PbOf(t)
    BY <1>a, <2>1 DEF WriteThrough
  <2>5. resp'[t].kind = "none"
    BY <1>6, <1>c DEF FlushBlob, AtWork
  <2>6. MintedOf(t)'
    BY <1>a, <2>2, <2>5
  <2>7. WrittenOf(t) => WrittenOf(t)'
    BY <1>a, <2>2, <2>3, <2>4, <2>5
  <2> QED BY <2>6, <2>7
<1>7. CASE OtpRequest(t)
  <2>1. /\ resp'[t] = HeadersResp(AndroidIdOf[req[t].acct], fs[req[t].acct].pb)
        /\ pc'[t] = "done" /\ fs[req[t].acct].pb \in Blobs /\ pc[t] = "otp"
    BY <1>7, <1>b DEF OtpRequest, Return
  <2> QED BY <1>a, <2>1, ResponseFields, ContentsAssumption
<1>8. CASE ProvisioningEnd(t)
  <2>1. req[t].op = "end" /\ at[t] = "ending"
    BY <1>8, <1>b DEF ProvisioningEnd, ShapeOf, Waiting, StartReq, EndReq, HeadersReq
  <2> QED BY <1>8, <1>a, <1>b, <1>c, <2>1 DEF ProvisioningEnd, DirState, AtWork
<1>9. CASE ReadBack(t)
  <2>1. fs[req[t].acct].pb # Absent /\ pc[t] = "readback"
    BY <1>9 DEF ReadBack
  <2>2. PICK c \in Taken(fs[req[t].acct].pb) : Return(t, PbResp(c))
    BY <1>9 DEF ReadBack
  <2>3. resp'[t] = PbResp(c) /\ pc'[t] = "done"
    BY <1>b, <2>2 DEF Return
  <2> QED BY <1>a, <2>1, <2>3, ResponseFields
<1> QED BY <1>b, <1>1, <1>2, <1>3, <1>4, <1>5, <1>6, <1>7, <1>8, <1>9 DEF ProviderStep

\* The steps of the other tasks.
LEMMA OwnRivalStep ==
    ASSUME ClientInv, NoOtherWriters, NEW t \in Threads, NEW u \in Threads \ {t},
           TaskStep(u) \/ InProvider(u), OwnOf(t)
    PROVE  OwnOf(t)'
<1>1. /\ at'[t] = at[t] /\ job'[t] = job[t] /\ work'[t] = work[t] /\ result'[t] = result[t]
      /\ pc'[t] = pc[t] /\ resp'[t] = resp[t]
  BY TaskIsOwn, ProviderFrame DEF ClientInv, clientVars
<1>2. CASE pc[t] \in AtWork
  BY <1>1, <1>2, RivalStep DEF OwnOf, MintedOf, WrittenOf, MintedFor, PbOf, HasHandle
<1>3. CASE pc[t] \notin AtWork
  BY <1>1, <1>3 DEF AtWork, OwnOf, MintedOf, WrittenOf, MintedFor
<1> QED BY <1>2, <1>3

LEMMA OwnKept ==
    /\ Init => OwnInv
    /\ ClientInv /\ NoOtherWriters /\ OwnInv /\ [Next]_vars => OwnInv'
<1>1. ASSUME Init PROVE OwnInv
  BY <1>1, Nulls DEF Init, ProviderInit, OwnInv, OwnOf, MintedOf, WrittenOf
<1>2. ASSUME ClientInv, NoOtherWriters, OwnInv, NEW u \in Threads, TaskStep(u) \/ InProvider(u)
      PROVE  OwnInv'
  <2>1. OwnOf(u)'
    BY <1>2, OwnTaskStep, OwnProviderStep DEF OwnInv
  <2> QED BY <1>2, <2>1, OwnRivalStep DEF OwnInv
<1>3. ASSUME ClientInv, OwnInv, NEW u \in Threads, BeginAny(u) PROVE OwnInv'
  <2>1. ASSUME NEW t \in Threads \ {u} PROVE OwnOf(t)'
    BY <1>3, BeginSets DEF OwnInv, OwnOf, MintedOf, WrittenOf, MintedFor, PbOf, HasHandle,
       providerVars
  <2>2. OwnOf(u)'
    <3>1. pc[u] = "idle" /\ work[u] = NoWork /\ result[u] = NoResult
      BY <1>3, BeginSets DEF ClientInv, ClientShape, ShapeOf, Waiting
    <3> QED BY <1>3, <3>1, BeginSets, Nulls DEF OwnOf, MintedOf, WrittenOf, providerVars
  <2> QED BY <2>1, <2>2 DEF OwnInv
<1>4. ASSUME Crash PROVE OwnInv'
  BY <1>4, Nulls DEF Crash, ProviderCrash, OwnInv, OwnOf, MintedOf, WrittenOf
<1>5. ASSUME OwnInv, UNCHANGED vars PROVE OwnInv'
  BY <1>5 DEF vars, clientVars, providerVars, OwnInv, OwnOf, MintedOf, WrittenOf, MintedFor, PbOf,
     HasHandle
<1> QED BY <1>1, <1>2, <1>3, <1>4, <1>5 DEF Next, AllDone

\* The blob a call returns as new is the one its own session minted (or the zeros of
\* a read that fell short), in spite of its way through a file that other calls of the
\* account write and remove: where disk mode is not used, or the callers keep an
\* account's calls apart.
THEOREM NewBlobReturned ==
    ASSUME "disk" \notin Storages \/ ~Overlap
    PROVE  Spec => []NewBlobIsOwn
<1> DEFINE Kept == ~Overlap => OneTask
<1>1. Init => Kept
  BY OneTaskKept
<1>2. ClientInv /\ Kept /\ [Next]_vars => Kept'
  BY OneTaskKept
<1>3. Kept => NoOtherWriters
  BY DEF NoOtherWriters
<1>4. OwnInv => NewBlobIsOwn
  BY DEF OwnInv, OwnOf, MintedOf, MintedFor, Taken, NewBlobIsOwn
<1> HIDE DEF Kept
<1> QED BY <1>1, <1>2, <1>3, <1>4, ClientNext, OwnKept, PTL DEF Spec

\* The one-time password is computed from the very blob the call resolved, where
\* disk mode is not used or the callers keep an account's calls apart: unless fopen
\* fails, when the provider goes on with whatever adi.pb holds.
THEOREM PasswordFromOwn ==
    ASSUME "disk" \notin Storages \/ ~Overlap
    PROVE  Spec => []PasswordFromOwnBlob
<1> DEFINE Kept == ~Overlap => OneTask
<1>1. Init => Kept
  BY OneTaskKept
<1>2. ClientInv /\ Kept /\ [Next]_vars => Kept'
  BY OneTaskKept
<1>3. Kept => NoOtherWriters
  BY DEF NoOtherWriters
<1>4. OwnInv => PasswordFromOwnBlob
  BY DEF OwnInv, OwnOf, WrittenOf, PasswordFromOwnBlob
<1> HIDE DEF Kept
<1> QED BY <1>1, <1>2, <1>3, <1>4, ClientNext, OwnKept, PTL DEF Spec

(***************************************************************************)
(* Memory mode: a file is there only as long as some call is under way     *)
(* that will still remove it.                                              *)
(***************************************************************************)
WillRemovePb(t) ==
    \/ at[t] \in {"routing", "rdir", "rinfo", "save", "headers", "getting", "stored", "caching", "rmPb"}
    \/ at[t] = "ending" /\ (pc[t] = "readback" \/ (pc[t] = "done" /\ resp[t].kind = "pb"))

WillRemoveRinfo(t) ==
    at[t] \in {"save", "headers", "getting", "stored", "caching", "rmPb", "rmRinfo"}

MemoryInv ==
    \A a \in Accounts :
        /\ fs[a].pb # Absent => \E t \in Threads : job[t].acct = a /\ WillRemovePb(t)
        /\ fs[a].rinfo # NoRinfo => \E t \in Threads : job[t].acct = a /\ WillRemoveRinfo(t)

\* What a step of t does to the files of its account: it leaves them to itself to
\* remove, removes them, or has nothing to do with them.
TidyPb(t) ==
    \/ WillRemovePb(t)' /\ job'[t] = job[t]
    \/ fs'[job[t].acct].pb = Absent
    \/ ~WillRemovePb(t) /\ fs'[job[t].acct].pb = fs[job[t].acct].pb

TidyRinfo(t) ==
    \/ WillRemoveRinfo(t)' /\ job'[t] = job[t]
    \/ fs'[job[t].acct].rinfo = NoRinfo
    \/ ~WillRemoveRinfo(t) /\ fs'[job[t].acct].rinfo = fs[job[t].acct].rinfo

LEMMA TidyTaskStep ==
    ASSUME ClientInv, Storages = {"memory"}, Reliable({"open", "remove"}),
           NEW t \in Threads, TaskStep(t)
    PROVE  TidyPb(t) /\ TidyRinfo(t)
<1>a. /\ at[t] # "idle" /\ ShapeOf(t) /\ job[t].acct \in Accounts /\ job[t].storage = "memory"
      /\ at[t] \notin {"open", "fill"}
  BY TaskIsOwn, JobFields DEF ClientInv, ClientShape, ShapeOf
<1>b. /\ at \in [Threads -> AtPCs] /\ fs \in [Accounts -> DirState]
  BY TypesApart DEF ClientInv, ClientTyped, ProviderTypeOK
<1> USE DEF Step, TidyPb, TidyRinfo, WillRemovePb, WillRemoveRinfo, Ignored, Reliable
<1>t. ASSUME Throw(t), UNCHANGED fs, ~WillRemovePb(t), ~WillRemoveRinfo(t)
      PROVE  TidyPb(t) /\ TidyRinfo(t)
  BY <1>t
<1>1. CASE CheckDisk(t) \/ CheckMemory(t) \/ ReadDisk(t) \/ ReadDiskFails(t)
  BY <1>1, <1>a, <1>b, <1>t DEF CheckDisk, CheckMemory, ReadDisk, ReadDiskFails, providerVars
<1>2. CASE Lookup(t) \/ FetchSpim(t) \/ FetchPtmTk(t) \/ HttpFails(t)
  BY <1>2, <1>b, <1>t DEF Lookup, FetchSpim, FetchPtmTk, HttpStep, HttpFails, providerVars
<1>3. CASE CallStart(t) \/ CallEnd(t) \/ CallHeaders(t)
  BY <1>3, <1>b DEF CallStart, CallEnd, CallHeaders, CallProvider, Invoke
<1>4. CASE Started(t)
  BY <1>4, <1>b, <1>t DEF Started, Collect
<1>5. CASE Ended(t)
  BY <1>5, <1>b DEF Ended, Collect, Throw
<1>6. CASE KeepRouting(t) \/ MakeRinfoDir(t)
  BY <1>6, <1>a, <1>b DEF KeepRouting, MakeRinfoDir, MakeDirectory, Mkdir, DirState, providerVars
<1>7. CASE SaveRinfo(t) \/ SaveDisk(t)
  BY <1>7, <1>a, <1>b DEF SaveRinfo, SaveDisk
<1>8. CASE \/ OpenDisk(t) \/ FillDisk(t) \/ SaveDiskFails(t) \/ OpenDiskFails(t)
           \/ FillDiskFails(t)
  BY <1>8, <1>a DEF OpenDisk, FillDisk, SaveDiskFails, OpenDiskFails, FillDiskFails
<1>9. CASE Got(t) \/ StoredRouting(t) \/ ReadRinfo(t) \/ CacheSaved(t)
  BY <1>9, <1>a, <1>b DEF Got, StoredRouting, ReadRinfo, CacheSaved, Deliver, Cleanup
<1>10. CASE CleanupPb(t)
  BY <1>10, <1>a, <1>b DEF CleanupPb, CleanupStep, RemovePb, DirState
<1>11. CASE CleanupRinfo(t)
  BY <1>11, <1>a, <1>b DEF CleanupRinfo, CleanupStep, RemoveRinfo, DirState
<1>12. CASE CleanupTree(t)
  BY <1>12, <1>a, <1>b DEF CleanupTree, CleanupStep, RemoveTree, NoDir
<1>13. CASE Finish(t)
  BY <1>13 DEF Finish, providerVars
<1> QED BY <1>1, <1>2, <1>3, <1>4, <1>5, <1>6, <1>7, <1>8, <1>9, <1>10, <1>11, <1>12, <1>13
        DEF TaskStep

LEMMA TidyProviderStep ==
    ASSUME ClientInv, Reliable({"open", "remove"}), NEW t \in Threads, InProvider(t)
    PROVE  TidyPb(t) /\ TidyRinfo(t)
<1>a. /\ req[t].acct = job[t].acct /\ job[t].acct \in Accounts
      /\ pc[t] = "readback" => at[t] = "ending"
      /\ pc[t] \in {"flush", "otp"} => at[t] = "getting"
      /\ UNCHANGED <<at, job>> /\ at[t] \in Waiting
  BY ProviderFrame, InsideProvider DEF clientVars
<1>b. /\ fs \in [Accounts -> DirState] /\ DOMAIN pc = Threads /\ DOMAIN resp = Threads
      /\ ShapeOf(t) /\ ProviderStep(t)
  BY DEF ClientInv, TypeOK, ProviderTypeOK, ClientShape, InProvider
<1> USE DEF TidyPb, TidyRinfo, WillRemovePb, WillRemoveRinfo, Goto, Ignored, Reliable
<1>1. CASE at[t] = "getting"
  BY <1>1, <1>a
<1>2. CASE at[t] # "getting"
  <2>1. at[t] \in {"starting", "ending"} /\ pc[t] \notin {"flush", "otp"}
        /\ req[t].op = (IF at[t] = "starting" THEN "start" ELSE "end")
    BY <1>2, <1>a, <1>b DEF Waiting, ShapeOf, StartReq, EndReq
  <2>2. CASE Acquire(t) \/ CallFails(t) \/ ProvisioningStart(t)
    BY <2>1, <2>2, <1>a, <1>b DEF Acquire, CallFails, ProvisioningStart
  <2>3. CASE MakeDir(t)
    BY <2>1, <2>3, <1>a, <1>b DEF MakeDir, MakeDirectory, Mkdir, DirState
  <2>4. CASE ProvisioningStartFails(t)
    BY <2>1, <2>4, <1>a, <1>b DEF ProvisioningStartFails, RemoveDirectory, Rmdir, NoDir, DirState
  <2>5. CASE ProvisioningEnd(t)
    BY <2>1, <2>5, <1>a, <1>b DEF ProvisioningEnd, DirState
  <2>6. CASE ReadBack(t)
    <3>1. PICK c \in Taken(fs[req[t].acct].pb) : Return(t, PbResp(c))
      BY <2>6 DEF ReadBack
    <3>2. resp'[t].kind = "pb" /\ pc'[t] = "done"
      BY <1>b, <3>1, ResponseFields DEF Return
    <3> QED BY <2>1, <2>6, <3>2, <1>a, <1>b DEF ReadBack
  <2>7. CASE OpenBlob(t) \/ OpenBlobFails(t) \/ FlushBlob(t) \/ OtpRequest(t) \/ Cancel(t)
    BY <2>1, <2>7 DEF OpenBlob, OpenBlobFails, FlushBlob, OtpRequest, Cancel
  <2>8. CASE ReadBackFails(t)
    BY <2>1, <2>8, <1>a, <1>b DEF ReadBackFails
  <2> QED BY <1>b, <2>2, <2>3, <2>4, <2>5, <2>6, <2>7, <2>8 DEF ProviderStep
<1> QED BY <1>1, <1>2

LEMMA TidyKept ==
    ASSUME Storages = {"memory"}, Reliable({"open", "remove"}), ~Crashes
    PROVE  /\ Init => MemoryInv
           /\ ClientInv /\ MemoryInv /\ [Next]_vars => MemoryInv'
<1>1. ASSUME Init PROVE MemoryInv
  BY <1>1 DEF Init, ProviderInit, NoDir, MemoryInv
<1>2. ASSUME ClientInv, MemoryInv, NEW u \in Threads, TaskStep(u) \/ InProvider(u)
      PROVE  MemoryInv'
  <2>1. TidyPb(u) /\ TidyRinfo(u)
    BY <1>2, TidyTaskStep, TidyProviderStep
  <2>2. \A t \in Threads \ {u} : /\ job'[t] = job[t]
                                 /\ WillRemovePb(t)' <=> WillRemovePb(t)
                                 /\ WillRemoveRinfo(t)' <=> WillRemoveRinfo(t)
    BY <1>2, TaskIsOwn, ProviderFrame DEF ClientInv, clientVars, WillRemovePb, WillRemoveRinfo
  <2>3. \A a \in Accounts \ {job[u].acct} : fs'[a] = fs[a]
    BY <1>2, TaskFrame, ProviderFrame DEF Untouched
  <2>4. ASSUME NEW a \in Accounts, fs'[a].pb # Absent
        PROVE  \E t \in Threads : job'[t].acct = a /\ WillRemovePb(t)'
    <3>1. CASE fs'[a].pb = fs[a].pb /\ ~(a = job[u].acct /\ WillRemovePb(u))
      <4>1. PICK t \in Threads : job[t].acct = a /\ WillRemovePb(t)
        BY <1>2, <2>4, <3>1 DEF MemoryInv
      <4> QED BY <2>2, <3>1, <4>1
    <3>2. CASE a = job[u].acct /\ WillRemovePb(u)' /\ job'[u] = job[u]
      BY <3>2
    <3> QED BY <2>1, <2>3, <2>4, <3>1, <3>2 DEF TidyPb
  <2>5. ASSUME NEW a \in Accounts, fs'[a].rinfo # NoRinfo
        PROVE  \E t \in Threads : job'[t].acct = a /\ WillRemoveRinfo(t)'
    <3>1. CASE fs'[a].rinfo = fs[a].rinfo /\ ~(a = job[u].acct /\ WillRemoveRinfo(u))
      <4>1. PICK t \in Threads : job[t].acct = a /\ WillRemoveRinfo(t)
        BY <1>2, <2>5, <3>1 DEF MemoryInv
      <4> QED BY <2>2, <3>1, <4>1
    <3>2. CASE a = job[u].acct /\ WillRemoveRinfo(u)' /\ job'[u] = job[u]
      BY <3>2
    <3> QED BY <2>1, <2>3, <2>5, <3>1, <3>2 DEF TidyRinfo
  <2> QED BY <2>4, <2>5 DEF MemoryInv
<1>3. ASSUME ClientInv, MemoryInv, NEW u \in Threads, BeginAny(u) PROVE MemoryInv'
  <2>1. UNCHANGED <<fs, pc, resp>> /\ ~WillRemovePb(u) /\ ~WillRemoveRinfo(u)
    BY <1>3, BeginSets DEF providerVars, WillRemovePb, WillRemoveRinfo
  <2>2. \A t \in Threads \ {u} : /\ job'[t] = job[t]
                                 /\ WillRemovePb(t)' <=> WillRemovePb(t)
                                 /\ WillRemoveRinfo(t)' <=> WillRemoveRinfo(t)
    BY <1>3, <2>1, BeginSets DEF WillRemovePb, WillRemoveRinfo
  <2>3. ASSUME NEW a \in Accounts, fs'[a].pb # Absent
        PROVE  \E t \in Threads : job'[t].acct = a /\ WillRemovePb(t)'
    <3>1. PICK t \in Threads : job[t].acct = a /\ WillRemovePb(t)
      BY <1>3, <2>1, <2>3 DEF MemoryInv
    <3> QED BY <2>1, <2>2, <3>1
  <2>4. ASSUME NEW a \in Accounts, fs'[a].rinfo # NoRinfo
        PROVE  \E t \in Threads : job'[t].acct = a /\ WillRemoveRinfo(t)'
    <3>1. PICK t \in Threads : job[t].acct = a /\ WillRemoveRinfo(t)
      BY <1>3, <2>1, <2>4 DEF MemoryInv
    <3> QED BY <2>1, <2>2, <3>1
  <2> QED BY <2>3, <2>4 DEF MemoryInv
<1>4. ASSUME MemoryInv, UNCHANGED vars PROVE MemoryInv'
  BY <1>4 DEF vars, clientVars, providerVars, MemoryInv, WillRemovePb, WillRemoveRinfo
<1> QED BY <1>1, <1>2, <1>3, <1>4 DEF Next, AllDone, Crash

\* Memory mode leaves neither adi.pb nor routing information on disk, at most an
\* empty directory, however an account's calls overlap and whichever of them fail:
\* as long as the process does not die before a call has cleaned up, and files can
\* be opened and removed.
THEOREM MemoryTidy == Spec => []MemoryLeavesNoFile
<1>1. CASE Storages = {"memory"} /\ ~Crashes /\ Reliable({"open", "remove"})
  <2>1. ClientInv /\ MemoryInv => MemoryLeavesNoFile
    <3>1. ASSUME NEW d \in DirState, d.pb = Absent, d.rinfo = NoRinfo
          PROVE  d \in {NoDir, Mkdir(NoDir)}
      BY <3>1 DEF DirState, NoDir, Mkdir
    <3> QED BY <3>1 DEF MemoryInv, MemoryLeavesNoFile, Quiet, ClientInv, TypeOK, ProviderTypeOK
  <2>2. Init => MemoryInv
    BY <1>1, TidyKept
  <2>3. ClientInv /\ MemoryInv /\ [Next]_vars => MemoryInv'
    BY <1>1, TidyKept
  <2> QED BY <2>1, <2>2, <2>3, ClientNext, PTL DEF Spec
<1>2. CASE ~(Storages = {"memory"} /\ ~Crashes /\ Reliable({"open", "remove"}))
  <2>1. TypeOK => MemoryLeavesNoFile
    BY <1>2 DEF MemoryLeavesNoFile
  <2> QED BY <2>1, ClientTypeCorrect, PTL
<1> QED BY <1>1, <1>2

(***************************************************************************)
(* Disk mode, where an account's calls do not overlap.  A call owns its    *)
(* account's directory while it runs, so that what it knows of the files   *)
(* stays true between its steps; and a call that finds a blob keeps it.    *)
(***************************************************************************)
BeforeEnd(t) ==
    \/ at[t] \in {"lookup", "spim", "start", "starting", "ptm", "end"}
    \/ at[t] = "ending" /\ pc[t] \in {"wait", "setup", "act"}

\* ADI has written adi.pb, the client has not yet; and its routing info is not saved.
Unwritten == {"routing", "rdir", "rinfo", "save", "open"}
Unsaved == {"ending", "routing", "rdir", "rinfo"}

Truncated(t) == at[t] = "fill" \/ pc[t] = "flush"

RinfoOf(t) == fs[job[t].acct].rinfo

Kept(c, d) == c = d \/ ("write" \in IoFaults /\ c = Empty)

\* What a call knows of adi.pb.
PbKnown(t) ==
    /\ BeforeEnd(t) => PbOf(t) = Absent
    /\ pc[t] = "readback" \/ at[t] \in Unwritten => PbOf(t) # Absent
    /\ at[t] = "ending" /\ pc[t] = "done" =>
           IF resp[t].kind = "error" THEN PbOf(t) = Absent \/ "open" \in IoFaults
           ELSE PbOf(t) # Absent
    /\ at[t] \in {"headers", "getting", "stored", "caching"} /\ ~Truncated(t) =>
           Kept(PbOf(t), work[t].blob)
    /\ Truncated(t) => PbOf(t) = Empty /\ HasHandle(t)

\* And of the routing information beside it.
RinfoKnown(t) ==
    /\ BeforeEnd(t) \/ at[t] \in Unsaved => RinfoOf(t) = NoRinfo
    /\ at[t] \in Unsaved => promised[job[t].acct].rinfo = work[t].active
    /\ at[t] \in {"save", "open", "fill", "headers", "getting", "stored", "caching"} /\ work[t].fresh =>
           \/ RinfoOf(t) = promised[job[t].acct].rinfo
           \/ RinfoOf(t) = NoRinfo /\ "write" \in IoFaults
    /\ at[t] = "caching" => RinfoOf(t) = work[t].active

\* The blob promised, or what a crash or a failed write can leave of it.
Good(c, a) == c = promised[a].pb \/ ((Crashes \/ "write" \in IoFaults) /\ c = Empty)

\* A call for an account with a promise does not provision, and works with a good blob.
Served(t) ==
    promised[job[t].acct].pb # Absent =>
        /\ at[t] \in {"check", "read", "headers", "getting", "stored", "caching", "returned"}
        /\ at[t] # "returned" => ~work[t].fresh
        /\ at[t] \in {"headers", "getting", "stored", "caching"} =>
               Good(work[t].blob, job[t].acct)

DiskOf(t) == PbKnown(t) /\ RinfoKnown(t) /\ Served(t)

\* The directory of an account, whether a call for it is under way or not.
CacheKnown(a) ==
    \/ cache[a] \in {NoRinfo} \cup Customs
    \/ fs[a].pb # Absent /\ cache[a] = promised[a].rinfo

\* The routing information of a blob may be lost, but it is never another's.
RinfoKept(a) ==
    \/ fs[a].pb = Absent
    \/ fs[a].rinfo = promised[a].rinfo
    \/ /\ fs[a].rinfo = NoRinfo
       /\ \/ promised[a].pb = Absent /\ (Crashes \/ "open" \in IoFaults)
          \/ "write" \in IoFaults

AccountKept(a) ==
    /\ fs[a].rinfo # NoRinfo => fs[a].pb # Absent
    /\ CacheKnown(a)
    /\ (\A t \in Threads : job[t].acct = a => at[t] \notin Unsaved) => RinfoKept(a)
    /\ promised[a].pb # Absent /\ (\A t \in Threads : job[t].acct = a => pc[t] # "flush") =>
           Good(fs[a].pb, a)

DiskInv ==
    /\ \A t \in Threads : at[t] # "idle" => DiskOf(t)
    /\ \A a \in Accounts : AccountKept(a)

\* The same of the account of a call under way, said of that call.
OwnAccountKept(t) ==
    LET a == job[t].acct IN
    /\ fs[a].rinfo # NoRinfo => fs[a].pb # Absent
    /\ CacheKnown(a)
    /\ at[t] \notin Unsaved => RinfoKept(a)
    /\ promised[a].pb # Absent /\ pc[t] # "flush" => Good(fs[a].pb, a)

LEMMA OwnAccount ==
    ASSUME ClientInv, OneTask, NEW t \in Threads, at[t] # "idle", AccountKept(job[t].acct)
    PROVE  OwnAccountKept(t)
<1>1. \A u \in Threads : job[u].acct = job[t].acct => u = t
  BY DEF OneTask
<1> QED BY <1>1 DEF AccountKept, OwnAccountKept

\* The steps of the call itself outside the provider, up to its return.
LEMMA DiskTaskStep ==
    ASSUME ClientInv, Storages = {"disk"}, NEW t \in Threads, TaskStep(t), at[t] # "returned",
           DiskOf(t), OwnAccountKept(t)
    PROVE  /\ job' = job /\ at'[t] # "idle"
           /\ DiskOf(t)' /\ OwnAccountKept(t)'
<1> DEFINE a == job[t].acct
           Goal == job' = job /\ at'[t] # "idle" /\ DiskOf(t)' /\ OwnAccountKept(t)'
<1>a. /\ at[t] # "idle" /\ ShapeOf(t) /\ a \in Accounts /\ job[t].storage = "disk"
      /\ at[t] \notin {"rmPb", "rmRinfo", "rmTree"}
      /\ work[t].blob \in Contents \ {Absent} /\ work[t].active \in Rinfos \cup {NoRinfo}
  BY TaskIsOwn, JobFields DEF ClientInv, ClientShape, ShapeOf
<1>b. /\ at \in [Threads -> AtPCs] /\ work \in [Threads -> Works] /\ DOMAIN pc = Threads
      /\ fs \in [Accounts -> DirState] /\ cache \in [Accounts -> Rinfos \cup {NoRinfo}]
      /\ promised \in [Accounts -> [pb : Contents, rinfo : Rinfos \cup {NoRinfo}]] /\ FilesSane
  BY TypesApart DEF ClientInv, ClientTyped, ProviderTypeOK, ProviderInv
<1>i. at[t] \notin Waiting => pc[t] = "idle"
  BY <1>a DEF ShapeOf
<1>w. at[t] \in Waiting => pc[t] # "idle"
  BY <1>a DEF ShapeOf
<1>g. SUFFICES Goal
  OBVIOUS
<1> USE DEF Step, DiskOf, PbKnown, RinfoKnown, Served, OwnAccountKept, BeforeEnd, Truncated, PbOf,
            RinfoOf, HasHandle, Good, Kept, CacheKnown, RinfoKept, Unwritten, Unsaved
\* A call that throws knows nothing more; it may throw only where its files are good.
<1>t. ASSUME Throw(t), UNCHANGED <<fs, writers>>, pc'[t] = "idle", pc[t] # "flush",
             at[t] \notin Unsaved
      PROVE  Goal
  BY <1>a, <1>b, <1>t DEF Throw
<1>1. CASE CheckDisk(t)
  BY <1>1, <1>a, <1>b, <1>i, ContentsAssumption DEF CheckDisk, providerVars, Waiting
<1>2. CASE CheckMemory(t)
  BY <1>2, <1>a DEF CheckMemory
<1>3. CASE ReadDisk(t)
  <2>1. /\ work'[t].blob = fs[a].pb /\ work'[t].fresh = FALSE
    BY <1>3, <1>a, <1>b DEF ReadDisk, Works, ShapeOf, Provisioning
  <2> QED BY <1>3, <1>a, <1>b, <1>i, <2>1 DEF ReadDisk, providerVars, Waiting
<1>4. CASE Lookup(t) \/ FetchSpim(t) \/ FetchPtmTk(t)
  BY <1>4, <1>a, <1>b, <1>i DEF Lookup, FetchSpim, FetchPtmTk, HttpStep, providerVars, Waiting
<1>5. CASE ReadDiskFails(t) \/ HttpFails(t) \/ SaveDiskFails(t) \/ OpenDiskFails(t)
  BY <1>5, <1>a, <1>i, <1>t DEF ReadDiskFails, HttpFails, SaveDiskFails, OpenDiskFails,
     providerVars, Waiting
<1>6. CASE CallStart(t) \/ CallHeaders(t)
  BY <1>6, <1>a, <1>b DEF CallStart, CallHeaders, CallProvider, Invoke, Goto
<1>18. CASE CallEnd(t)
  <2>1. /\ pc'[t] = "wait" /\ at'[t] = "ending" /\ UNCHANGED <<fs, writers, cache, work, job>>
        /\ promised'[a].rinfo = work[t].active /\ promised'[a].pb = promised[a].pb
        /\ at[t] = "end"
    BY <1>18, <1>a, <1>b DEF CallEnd, Invoke, Goto
  <2> QED BY <1>a, <1>b, <1>i, <2>1 DEF Waiting
<1>c. ASSUME Collect(t) PROVE pc'[t] = "idle" /\ pc[t] = "done" /\ UNCHANGED <<fs, writers>>
  BY <1>b, <1>c DEF Collect, Goto
<1>7. CASE Started(t)
  <2>1. CASE Throw(t)
    BY <1>7, <1>c, <1>t, <2>1 DEF Started
  <2>2. CASE ~Throw(t)
    BY <1>7, <1>a, <1>b, <1>c, <2>2 DEF Started
  <2> QED BY <2>1, <2>2
<1>8. CASE Ended(t)
  <2>1. CASE resp[t].kind = "error"
    <3>1. /\ Throw(t) /\ pc'[t] = "idle" /\ UNCHANGED <<fs, writers>>
          /\ fs[a].pb = Absent \/ "open" \in IoFaults
      BY <1>8, <1>c, <2>1 DEF Ended
    <3>2. fs[a].rinfo = NoRinfo /\ promised[a].pb = Absent
      BY <1>8 DEF Ended
    <3> QED BY <1>a, <1>b, <3>1, <3>2 DEF Throw
  <2>2. CASE resp[t].kind # "error"
    <3>1. work'[t].active = work[t].active
      BY <1>8, <1>b, <2>2 DEF Ended, Works
    <3>2. /\ pc'[t] = "idle" /\ UNCHANGED <<fs, writers, job, cache, promised>>
          /\ at'[t] = "routing" /\ at[t] = "ending" /\ fs[a].pb # Absent
      BY <1>8, <1>b, <1>c, <2>2 DEF Ended
    <3> QED BY <3>1, <3>2
  <2> QED BY <2>1, <2>2
<1>9. CASE KeepRouting(t)
  <2>1. CASE work[t].active = NoRinfo
    BY <1>9, <1>a, <1>b, <1>i, <2>1 DEF KeepRouting, providerVars, Waiting
  <2>2. CASE work[t].active # NoRinfo
    BY <1>9, <1>a, <1>b, <1>i, <2>2 DEF KeepRouting, providerVars, Waiting
  <2> QED BY <2>1, <2>2
<1>10. CASE MakeRinfoDir(t)
  <2>1. fs'[a].pb = fs[a].pb /\ fs'[a].rinfo = fs[a].rinfo /\ UNCHANGED writers
    BY <1>10, <1>a, <1>b DEF MakeRinfoDir, MakeDirectory, Ignored, Mkdir, DirState
  <2> QED BY <1>10, <1>a, <1>b, <1>i, <2>1 DEF MakeRinfoDir, Waiting
<1>11. CASE SaveRinfo(t)
  <2>1. fs[a].pb # Absent /\ fs[a].rinfo = NoRinfo /\ pc[t] = "idle"
    BY <1>11, <1>i DEF SaveRinfo, Waiting
  <2>2. fs[a].dir
    BY <1>a, <1>b, <2>1 DEF FilesSane
  <2>3. /\ fs'[a].pb = fs[a].pb /\ UNCHANGED writers
        /\ fs'[a].rinfo = work[t].active \/ (fs'[a].rinfo = NoRinfo /\ "write" \in IoFaults)
    BY <1>11, <1>a, <1>b, <2>1, <2>2 DEF SaveRinfo, WriteRinfo, Ignored, DirState
  <2> QED BY <1>11, <1>a, <1>b, <2>1, <2>3 DEF SaveRinfo
<1>12. CASE SaveDisk(t)
  <2>1. fs'[a].pb = fs[a].pb /\ fs'[a].rinfo = fs[a].rinfo /\ at'[t] = "open" /\ pc[t] = "idle"
    BY <1>12, <1>a, <1>b, <1>i DEF SaveDisk, Mkdir, DirState, Waiting
  <2> QED BY <1>12, <1>a, <1>b, <2>1 DEF SaveDisk
<1>13. CASE OpenDisk(t)
  <2>1. /\ fs'[a].pb = Empty /\ fs'[a].rinfo = fs[a].rinfo /\ <<t, a>> \in writers'
        /\ at'[t] = "fill" /\ pc[t] = "idle"
    BY <1>13, <1>a, <1>b, <1>i DEF OpenDisk, OpenForWriting, DirState, Waiting
  <2> QED BY <1>13, <1>a, <1>b, <2>1, ContentsAssumption DEF OpenDisk
<1>14. CASE FillDisk(t)
  <2>1. /\ fs'[a].pb = work[t].blob /\ fs'[a].rinfo = fs[a].rinfo
        /\ at'[t] = "headers" /\ pc[t] = "idle"
    BY <1>14, <1>a, <1>b, <1>i DEF FillDisk, WriteThrough, DirState, Waiting
  <2> QED BY <1>14, <1>a, <1>b, <2>1, ContentsAssumption DEF FillDisk
<1>19. CASE FillDiskFails(t)
  <2>1. /\ fs'[a].pb = Empty /\ fs'[a].rinfo = fs[a].rinfo
        /\ at'[t] = "returned" /\ pc[t] = "idle"
    BY <1>19, <1>a, <1>b, <1>i DEF FillDiskFails, WriteThrough, Throw, DirState, Waiting
  <2> QED BY <1>19, <1>a, <1>b, <2>1, ContentsAssumption DEF FillDiskFails, Throw
<1>15. CASE Got(t)
  BY <1>15, <1>a, <1>b, <1>c DEF Got, Cleanup
<1>d. ASSUME NEW r, Deliver(t, r), at[t] \in {"stored", "caching"}, pc[t] = "idle",
             UNCHANGED <<job, work, providerVars>>,
             cache'[a] \in {cache[a], fs[a].rinfo}
      PROVE  Goal
  <2>1. /\ at'[t] = "returned" /\ UNCHANGED <<fs, writers, pc>>
        /\ promised'[a].rinfo = promised[a].rinfo
    BY <1>a, <1>b, <1>d DEF Deliver, Cleanup, providerVars
  <2>2. fs[a].pb # Absent /\ Kept(fs[a].pb, work[t].blob)
    BY <1>a, <1>d, ContentsAssumption
  <2>3. CacheKnown(a)'
    BY <1>d, <2>1, <2>2
  <2>4. CASE work[t].fresh
    <3>1. promised'[a].pb = work[t].blob
      BY <1>a, <1>b, <1>d, <2>4 DEF Deliver
    <3> QED BY <1>d, <2>1, <2>2, <2>3, <2>4, <3>1
  <2>5. CASE ~work[t].fresh
    <3>1. promised' = promised
      BY <1>d, <2>5 DEF Deliver
    <3> QED BY <1>d, <2>1, <2>2, <2>3, <3>1
  <2> QED BY <2>4, <2>5, <1>a, <1>b DEF Works
<1>16. CASE StoredRouting(t)
  BY <1>16, <1>d, <1>i DEF StoredRouting, Waiting
<1>17. CASE ReadRinfo(t)
  <2>1. /\ work'[t].active = fs[a].rinfo /\ work'[t].fresh = work[t].fresh
        /\ work'[t].blob = work[t].blob
    BY <1>17, <1>b DEF ReadRinfo, Works
  <2> QED BY <1>17, <1>a, <1>b, <1>i, <2>1 DEF ReadRinfo, providerVars, Waiting
<1>20. CASE CacheSaved(t)
  BY <1>20, <1>a, <1>b, <1>d, <1>i DEF CacheSaved, Waiting
<1>21. CASE CleanupPb(t) \/ CleanupRinfo(t) \/ CleanupTree(t) \/ Finish(t)
  BY <1>21, <1>a DEF CleanupPb, CleanupRinfo, CleanupTree, CleanupStep, Finish
<1> QED BY <1>1, <1>2, <1>3, <1>4, <1>5, <1>6, <1>7, <1>8, <1>9, <1>10, <1>11, <1>12, <1>13,
           <1>14, <1>15, <1>16, <1>17, <1>18, <1>19, <1>20, <1>21 DEF TaskStep

\* Its steps inside the provider.
LEMMA DiskProviderStep ==
    ASSUME ClientInv, NEW t \in Threads, InProvider(t), DiskOf(t), OwnAccountKept(t)
    PROVE  DiskOf(t)' /\ OwnAccountKept(t)'
<1> DEFINE a == job[t].acct
           Goal == DiskOf(t)' /\ OwnAccountKept(t)'
<1>a. /\ req[t].acct = a /\ a \in Accounts
      /\ at[t] = "getting" => req[t].pb = work[t].blob
      /\ at[t] = "ending" => req[t].session = work[t].session
      /\ pc[t] = "readback" => at[t] = "ending"
      /\ pc[t] \in {"flush", "otp"} => at[t] = "getting"
      /\ UNCHANGED <<at, job, work, result, cache, promised>> /\ at[t] \in Waiting
  BY ProviderFrame, InsideProvider DEF clientVars
<1>b. /\ fs \in [Accounts -> DirState] /\ DOMAIN pc = Threads /\ DOMAIN resp = Threads
      /\ FilesSane /\ ProviderStep(t)
      /\ at[t] # "idle" /\ work[t].blob \in Contents \ {Absent}
      /\ pc[t] \in AtWork \cup {"wait"}
  BY <1>a, JobFields, StepIsOwn DEF ClientInv, TypeOK, ProviderTypeOK, ProviderInv, InProvider, Waiting
<1>o. req[t].op = (IF at[t] = "starting" THEN "start" ELSE IF at[t] = "ending" THEN "end" ELSE "headers")
  <2>1. /\ at[t] = "starting" => req[t] = StartReq(t)
        /\ at[t] = "ending" => req[t] = EndReq(t)
        /\ at[t] = "getting" => req[t] = HeadersReq(t)
    BY DEF ClientInv, ClientShape, ShapeOf
  <2>2. StartReq(t).op = "start" /\ EndReq(t).op = "end" /\ HeadersReq(t).op = "headers"
    BY DEF StartReq, EndReq, HeadersReq
  <2> QED BY <1>a, <2>1, <2>2 DEF Waiting
<1> USE DEF DiskOf, PbKnown, RinfoKnown, Served, OwnAccountKept, BeforeEnd, Truncated, PbOf,
            RinfoOf, HasHandle, Good, Kept, CacheKnown, RinfoKept, Unwritten, Unsaved, Goto, Waiting
\* The routing information is none of the provider's business.
<1>f. ASSUME pc'[t] \in AtWork \cup {"done"}, fs'[a].pb = fs[a].pb, fs'[a].rinfo = fs[a].rinfo,
             pc[t] \notin {"flush", "readback"}, pc'[t] \notin {"flush", "readback"},
             UNCHANGED writers,
             at[t] = "ending" /\ pc'[t] = "done" => resp'[t].kind = "error"
      PROVE  Goal
  BY <1>a, <1>b, <1>f DEF AtWork
<1>1. CASE Acquire(t)
  BY <1>1, <1>b, <1>f DEF Acquire, AtWork
<1>2. CASE MakeDir(t)
  <2>1. fs'[a].pb = fs[a].pb /\ fs'[a].rinfo = fs[a].rinfo /\ UNCHANGED writers
    BY <1>2, <1>a, <1>b DEF MakeDir, MakeDirectory, Ignored, Mkdir, DirState
  <2> QED BY <1>2, <1>b, <1>f, <2>1 DEF MakeDir, AtWork
<1>3. CASE CallFails(t)
  BY <1>3, <1>b, <1>f, ResponseFields DEF CallFails, Return, AtWork
<1>4. CASE Cancel(t)
  BY <1>4, <1>o DEF Cancel
<1>5. CASE ProvisioningStart(t)
  BY <1>5, <1>b, <1>f, <1>o DEF ProvisioningStart, Return
<1>6. CASE ProvisioningStartFails(t)
  <2>1. fs'[a].pb = fs[a].pb /\ fs'[a].rinfo = fs[a].rinfo /\ UNCHANGED writers
    BY <1>6, <1>a, <1>b DEF ProvisioningStartFails, RemoveDirectory, Ignored, Rmdir, NoDir
  <2> QED BY <1>6, <1>b, <1>f, <1>o, <2>1 DEF ProvisioningStartFails, Return
<1>7. CASE OpenBlob(t)
  <2>1. /\ fs'[a].pb = Empty /\ fs'[a].rinfo = fs[a].rinfo /\ <<t, a>> \in writers'
        /\ pc'[t] = "flush" /\ at[t] = "getting" /\ pc[t] = "act"
    BY <1>7, <1>a, <1>b, <1>o DEF OpenBlob, OpenForWriting, DirState
  <2>2. fs[a].pb # Absent
    BY <1>b, <2>1, ContentsAssumption
  <2> QED BY <1>7, <1>a, <1>b, <2>1, <2>2, ContentsAssumption
<1>8. CASE OpenBlobFails(t)
  BY <1>8, <1>b, <1>f DEF OpenBlobFails, AtWork
<1>9. CASE FlushBlob(t)
  <2>1. PICK c \in Arrived(a, work[t].blob) : WriteThrough(t, a, c)
    BY <1>9, <1>a DEF FlushBlob
  <2>2. /\ fs'[a].pb = c /\ fs'[a].rinfo = fs[a].rinfo /\ fs[a].pb = Empty
        /\ pc'[t] = "otp" /\ at[t] = "getting"
    BY <1>9, <1>a, <1>b, <2>1 DEF FlushBlob, WriteThrough, DirState
  <2>3. Kept(c, work[t].blob)
    BY <2>1, <2>2 DEF Arrived
  <2> QED BY <1>9, <1>a, <1>b, <2>2, <2>3, ContentsAssumption
<1>10. CASE OtpRequest(t)
  BY <1>10, <1>b, <1>f, <1>a DEF OtpRequest, Return
<1>11. CASE ProvisioningEnd(t)
  <2> DEFINE m == [acct |-> a, session |-> work[t].session]
  <2>1. /\ fs'[a].pb = m /\ fs'[a].rinfo = fs[a].rinfo
        /\ pc'[t] = "readback" /\ pc[t] = "act" /\ at[t] = "ending"
    BY <1>11, <1>a, <1>b, <1>o DEF ProvisioningEnd, DirState
  <2>2. m # Absent
    BY <1>a, <2>1, ContentsAssumption DEF Blobs, ClientInv, ClientShape, ShapeOf
  <2> HIDE DEF m
  <2> QED BY <1>11, <1>a, <1>b, <2>1, <2>2
<1>12. CASE ReadBack(t)
  <2>1. PICK c \in Taken(fs[a].pb) : Return(t, PbResp(c))
    BY <1>12, <1>a DEF ReadBack
  <2>2. /\ pc[t] = "readback" /\ pc'[t] = "done" /\ at[t] = "ending" /\ UNCHANGED <<fs, writers>>
        /\ resp'[t].kind = "pb"
    BY <1>12, <1>a, <1>b, <2>1, ResponseFields DEF ReadBack, Return
  <2> QED BY <1>a, <1>b, <2>2
<1>13. CASE ReadBackFails(t)
  <2>1. /\ pc[t] = "readback" /\ pc'[t] = "done" /\ at[t] = "ending" /\ UNCHANGED <<fs, writers>>
        /\ resp'[t].kind = "error" /\ (fs[a].pb = Absent \/ "open" \in IoFaults)
    BY <1>13, <1>a, <1>b, ResponseFields DEF ReadBackFails, Return
  <2> QED BY <1>a, <1>b, <2>1
<1> QED BY <1>b, <1>1, <1>2, <1>3, <1>4, <1>5, <1>6, <1>7, <1>8, <1>9, <1>10, <1>11, <1>12, <1>13
        DEF ProviderStep

\* A step that concerns t alone, from a state to one in which t is still in its
\* call, is a step of the whole.
LEMMA DiskSpreads ==
    ASSUME ClientInv, OneTask, DiskInv, NEW t \in Threads, at[t] # "idle",
           job' = job, DiskOf(t)', OwnAccountKept(t)',
           \A a \in Accounts \ {job[t].acct} : Untouched(a),
           \A u \in Threads \ {t} : /\ at'[u] = at[u] /\ work'[u] = work[u]
                                    /\ pc'[u] = pc[u] /\ resp'[u] = resp[u]
    PROVE  DiskInv'
<1>1. ASSUME NEW u \in Threads \ {t}, at[u] # "idle" PROVE DiskOf(u)'
  <2>1. DiskOf(u) /\ Untouched(job[u].acct) /\ at'[u] = at[u] /\ work'[u] = work[u]
        /\ pc'[u] = pc[u] /\ resp'[u] = resp[u]
    BY <1>1, OthersApart DEF DiskInv
  <2> QED BY <2>1 DEF Untouched, DiskOf, PbKnown, RinfoKnown, Served, BeforeEnd, Truncated, PbOf,
                      RinfoOf, HasHandle, Good, Kept, Unsaved, Unwritten
<1>2. AccountKept(job[t].acct)'
  BY DEF OwnAccountKept, AccountKept
<1>3. ASSUME NEW a \in Accounts \ {job[t].acct} PROVE AccountKept(a)'
  <2>1. AccountKept(a) /\ Untouched(a)
    BY DEF DiskInv
  <2>2. \A u \in Threads : job[u].acct = a => at'[u] = at[u] /\ work'[u] = work[u] /\ pc'[u] = pc[u]
    OBVIOUS
  <2> QED BY <2>1, <2>2 DEF Untouched, AccountKept, CacheKnown, RinfoKept, Good, Unsaved
<1> QED BY <1>1, <1>2, <1>3 DEF DiskInv

LEMMA DiskKept ==
    ASSUME Storages = {"disk"}, ~Overlap
    PROVE  /\ Init => DiskInv
           /\ ClientInv /\ OneTask /\ DiskInv /\ [Next]_vars => DiskInv'
<1>1. ASSUME Init PROVE DiskInv
  BY <1>1, Nulls DEF Init, ProviderInit, NoDir, DiskInv, AccountKept, CacheKnown, RinfoKept
<1>2. ASSUME ClientInv, OneTask, DiskInv, NEW t \in Threads, TaskStep(t), at[t] # "returned"
      PROVE  DiskInv'
  <2>1. at[t] # "idle" /\ job[t].acct \in Accounts /\ DiskOf(t)
    BY <1>2, TaskIsOwn, JobFields DEF ClientInv, DiskInv
  <2>2. OwnAccountKept(t)
    BY <1>2, <2>1, OwnAccount DEF DiskInv
  <2>3. job' = job /\ DiskOf(t)' /\ OwnAccountKept(t)'
    BY <1>2, <2>1, <2>2, DiskTaskStep
  <2>4. \A u \in Threads \ {t} : /\ at'[u] = at[u] /\ work'[u] = work[u]
                                 /\ pc'[u] = pc[u] /\ resp'[u] = resp[u]
    BY <1>2, TaskIsOwn DEF ClientInv
  <2> QED BY <1>2, <2>1, <2>3, <2>4, TaskFrame, DiskSpreads
<1>3. ASSUME ClientInv, OneTask, DiskInv, NEW t \in Threads, InProvider(t)
      PROVE  DiskInv'
  <2>1. at[t] # "idle" /\ job[t].acct \in Accounts /\ DiskOf(t)
    BY <1>3, ProviderFrame DEF Waiting, DiskInv
  <2>2. OwnAccountKept(t)
    BY <1>3, <2>1, OwnAccount DEF DiskInv
  <2>3. DiskOf(t)' /\ OwnAccountKept(t)'
    BY <1>3, <2>1, <2>2, DiskProviderStep
  <2> QED BY <1>3, <2>1, <2>3, ProviderFrame, DiskSpreads DEF clientVars
\* A call returns to its caller: the account is quiet and stays as it is.
<1>4. ASSUME ClientInv, OneTask, DiskInv, NEW t \in Threads, TaskStep(t), at[t] = "returned"
      PROVE  DiskInv'
  <2>1. Finish(t)
    BY <1>4 DEF TaskStep, CheckDisk, CheckMemory, ReadDisk, Lookup, FetchSpim, FetchPtmTk,
       ReadDiskFails, HttpStep, HttpFails, CallStart, CallEnd, CallHeaders, CallProvider, Started,
       Ended, Got, KeepRouting, MakeRinfoDir, SaveRinfo, SaveDisk, SaveDiskFails, OpenDisk,
       OpenDiskFails, FillDisk, FillDiskFails, StoredRouting, ReadRinfo, CacheSaved,
       CleanupPb, CleanupRinfo, CleanupTree, CleanupStep
  <2>2. /\ UNCHANGED <<fs, pc, resp, writers, cache, promised>> /\ at'[t] = "idle"
        /\ job'[t].acct = NoAccount /\ pc[t] = "idle"
        /\ \A u \in Threads \ {t} : at'[u] = at[u] /\ work'[u] = work[u] /\ job'[u] = job[u]
    BY <1>4, <2>1, Nulls DEF Finish, Step, providerVars, ClientInv, TypeOK, ClientShape, ShapeOf, Waiting
  <2>3. ASSUME NEW u \in Threads, at'[u] # "idle" PROVE DiskOf(u)'
    BY <1>4, <2>2, <2>3 DEF DiskInv, DiskOf, PbKnown, RinfoKnown, Served, BeforeEnd, Truncated,
       PbOf, RinfoOf, HasHandle, Good, Kept, Unsaved, Unwritten
  <2>4. ASSUME NEW a \in Accounts PROVE AccountKept(a)'
    <3>1. AccountKept(a) /\ a # NoAccount
      BY <1>4, NullAssumption DEF DiskInv
    <3>2. ASSUME NEW u \in Threads, job[u].acct = a
          PROVE  u # t => job'[u].acct = a /\ at'[u] = at[u] /\ pc'[u] = pc[u]
      BY <2>2, <3>2
    <3>3. at[t] \notin Unsaved /\ pc[t] # "flush"
      BY <1>4, <2>2 DEF Unsaved
    <3> QED BY <2>2, <3>1, <3>2, <3>3 DEF AccountKept, CacheKnown, RinfoKept, Good
  <2> QED BY <2>3, <2>4 DEF DiskInv
<1>5. ASSUME ClientInv, OneTask, DiskInv, NEW t \in Threads, BeginAny(t) PROVE DiskInv'
  <2>1. /\ UNCHANGED <<fs, pc, resp, writers, work, promised>>
        /\ at[t] = "idle" /\ at'[t] = "check" /\ Quiet(job'[t].acct) /\ job'[t] \in Jobs
        /\ \A u \in Threads \ {t} : at'[u] = at[u] /\ job'[u] = job[u]
        /\ pc[t] = "idle" /\ ~work[t].fresh
    BY <1>5, BeginSets, Nulls DEF providerVars, ClientInv, ClientShape, ShapeOf, Waiting
  <2>2. DiskOf(t)'
    BY <2>1 DEF DiskOf, PbKnown, RinfoKnown, Served, BeforeEnd, Truncated, Unsaved, Unwritten
  <2>3. ASSUME NEW u \in Threads \ {t}, at[u] # "idle" PROVE DiskOf(u)'
    BY <1>5, <2>1, <2>3 DEF DiskInv, DiskOf, PbKnown, RinfoKnown, Served, BeforeEnd, Truncated,
       PbOf, RinfoOf, HasHandle, Good, Kept, Unsaved, Unwritten
  <2>4. ASSUME NEW a \in Accounts PROVE AccountKept(a)'
    <3>1. AccountKept(a)
      BY <1>5 DEF DiskInv
    <3>2. job[t].acct = NoAccount /\ a # NoAccount
      BY <1>5, <2>1, Nulls, NullAssumption DEF ClientInv, ClientShape, ShapeOf
    <3>3. CacheKnown(a)'
      <4>1. cache'[a] = cache[a] \/ cache'[a] \in Customs
        BY <1>5, BeginSets
      <4> QED BY <2>1, <3>1, <4>1 DEF AccountKept, CacheKnown
    <3>4. ASSUME NEW u \in Threads, job[u].acct = a
          PROVE  job'[u].acct = a /\ at'[u] = at[u] /\ pc'[u] = pc[u]
      BY <2>1, <3>2, <3>4
    <3> QED BY <2>1, <3>1, <3>3, <3>4 DEF AccountKept, RinfoKept, Good
  <2> QED BY <2>1, <2>2, <2>3, <2>4 DEF DiskInv
\* The process dies: what was being written is truncated, the promise is known to
\* bear that, and nothing else is lost but the cache.
<1>6. ASSUME ClientInv, OneTask, DiskInv, Crash PROVE DiskInv'
  <2>1. /\ UNCHANGED <<fs, promised>> /\ Crashes
        /\ \A u \in Threads : at'[u] = "idle"
        /\ \A a \in Accounts : cache'[a] = NoRinfo
    BY <1>6 DEF Crash, ProviderCrash
  <2>2. ASSUME NEW a \in Accounts PROVE AccountKept(a)'
    <3>1. AccountKept(a)
      BY <1>6 DEF DiskInv
    <3>2. ASSUME promised[a].pb # Absent PROVE Good(fs[a].pb, a)
      <4>1. CASE \A t \in Threads : job[t].acct = a => pc[t] # "flush"
        BY <3>1, <3>2, <4>1 DEF AccountKept
      <4>2. CASE \E t \in Threads : job[t].acct = a /\ pc[t] = "flush"
        <5>1. PICK t \in Threads : job[t].acct = a /\ pc[t] = "flush"
          BY <4>2
        <5>2. at[t] # "idle"
          BY <1>6, <5>1 DEF ClientInv, ClientShape, ShapeOf, Waiting
        <5>3. fs[a].pb = Empty
          BY <1>6, <5>1, <5>2 DEF DiskInv, DiskOf, PbKnown, Truncated, PbOf
        <5> QED BY <2>1, <5>3 DEF Good
      <4> QED BY <4>1, <4>2
    <3>3. RinfoKept(a)
      <4>1. CASE \A t \in Threads : job[t].acct = a => at[t] \notin Unsaved
        BY <3>1, <4>1 DEF AccountKept
      <4>2. CASE \E t \in Threads : job[t].acct = a /\ at[t] \in Unsaved
        <5>1. PICK t \in Threads : job[t].acct = a /\ at[t] \in Unsaved
          BY <4>2
        <5>2. DiskOf(t)
          BY <1>6, <5>1 DEF DiskInv, Unsaved
        <5>3. fs[a].rinfo = NoRinfo /\ promised[a].pb = Absent
          BY <5>1, <5>2 DEF DiskOf, RinfoKnown, RinfoOf, Served, Unsaved
        <5> QED BY <2>1, <5>3 DEF RinfoKept
      <4> QED BY <4>1, <4>2
    <3> QED BY <2>1, <3>1, <3>2, <3>3 DEF AccountKept, CacheKnown, RinfoKept, Good
  <2> QED BY <2>1, <2>2 DEF DiskInv
<1>7. ASSUME DiskInv, UNCHANGED vars PROVE DiskInv'
  BY <1>7 DEF vars, clientVars, providerVars, DiskInv, DiskOf, PbKnown, RinfoKnown, Served,
     BeforeEnd, Truncated, PbOf, RinfoOf, HasHandle, Good, Kept, Unsaved, Unwritten, AccountKept, CacheKnown,
     RinfoKept
<1> QED BY <1>1, <1>2, <1>3, <1>4, <1>5, <1>6, <1>7 DEF Next, AllDone

\* What a .disk call returned is what is on disk whenever the account is quiet,
\* though every later call truncates and rewrites the file: where disk mode is the
\* only one and an account's calls are kept apart.  A crash or a write that fails
\* may leave the file truncated, never with another blob.
THEOREM DiskKeepsBlob ==
    ASSUME Storages = {"disk"}, ~Overlap
    PROVE  Spec => []DiskStateKept
<1>1. DiskInv /\ ClientInv => DiskStateKept
  <2> SUFFICES ASSUME DiskInv, ClientInv, NEW a \in Accounts, promised[a].pb # Absent, Quiet(a)
               PROVE  \/ fs[a].pb = promised[a].pb
                      \/ (Crashes \/ "write" \in IoFaults) /\ fs[a].pb = Empty
    BY DEF DiskStateKept
  <2> QED BY DEF DiskInv, AccountKept, Quiet, Good
<1>2. NoOtherWriters <=> OneTask
  BY DEF NoOtherWriters
<1> QED BY <1>1, <1>2, ClientNext, OneTaskKept, DiskKept, PTL DEF Spec

\* Under the same conditions the routing information beside any blob on disk is that
\* of its own provisioning, or lost by one of the three mishaps the property names,
\* and the cache holds no other, unless a caller named one.
THEOREM RoutingKept ==
    ASSUME Storages = {"disk"}, ~Overlap
    PROVE  Spec => []RoutingSurvivesRestart
<1>1. DiskInv /\ ClientInv => RoutingSurvivesRestart
  <2> SUFFICES ASSUME DiskInv, ClientInv, NEW a \in Accounts, fs[a].pb # Absent, Quiet(a)
               PROVE  /\ RinfoKept(a)
                      /\ cache[a] \in {NoRinfo, promised[a].rinfo} \cup Customs
    BY DEF RoutingSurvivesRestart, RinfoKept
  <2> QED BY DEF DiskInv, AccountKept, CacheKnown, Quiet
<1>2. NoOtherWriters <=> OneTask
  BY DEF NoOtherWriters
<1> QED BY <1>1, <1>2, ClientNext, OneTaskKept, DiskKept, PTL DEF Spec

(***************************************************************************)
(* The client does to the provider only what the provider foresees.  With  *)
(* UnicornCoreProofs, where the core implements that provider among any    *)
(* such clients, this is what lets the two be looked at one by one.        *)
(***************************************************************************)
OwnContents(a) == [acct : {a}, session : Sessions] \cup {Absent, Empty}

\* A handle is open only while its task writes, and what a task holds, reads and
\* writes are blobs of its own account.
HandlesKnown ==
    \A t \in Threads, a \in Accounts :
        <<t, a>> \in writers => a = job[t].acct /\ (at[t] = "fill" \/ pc[t] = "flush")

HoldsOwn(t) ==
    at[t] # "idle" =>
        /\ work[t].blob \in OwnContents(job[t].acct)
        /\ job[t].existing \in OwnContents(job[t].acct)
        /\ pc[t] = "done" /\ resp[t].kind = "pb" => resp[t].blob \in OwnContents(job[t].acct)
        /\ at[t] \in {"rdir", "rinfo"} => work[t].active # NoRinfo

FilesOwn == \A a \in Accounts : fs[a].pb \in OwnContents(a)

UseInv == HandlesKnown /\ FilesOwn /\ \A t \in Threads : HoldsOwn(t)

\* What a step of the task does to the handles, to its file and to what it holds.
UseStep(t) ==
    LET a == job[t].acct IN
    /\ \A w \in writers' : w \in writers \/ w = <<t, a>>
    /\ <<t, a>> \in writers' => (at'[t] = "fill" \/ pc'[t] = "flush") /\ job'[t] = job[t]
    /\ fs'[a].pb \in OwnContents(a)
    /\ HoldsOwn(t)'

LEMMA UseTaskStep ==
    ASSUME ClientInv, UseInv, NEW t \in Threads, TaskStep(t)
    PROVE  UseStep(t)
<1> DEFINE a == job[t].acct
<1>a. /\ at[t] # "idle" /\ ShapeOf(t) /\ a \in Accounts /\ HoldsOwn(t)
      /\ work[t].active \in Rinfos \cup {NoRinfo} /\ fs[a].pb \in OwnContents(a)
  BY TaskIsOwn, JobFields DEF ClientInv, ClientShape, UseInv, FilesOwn
<1>b. /\ at \in [Threads -> AtPCs] /\ work \in [Threads -> Works] /\ DOMAIN pc = Threads
      /\ DOMAIN job = Threads /\ fs \in [Accounts -> DirState]
      /\ writers \subseteq Threads \X Accounts
  BY TypesApart DEF ClientInv, ClientTyped, ProviderTypeOK
<1>i. at[t] \notin Waiting => pc[t] = "idle"
  BY <1>a DEF ShapeOf
<1>h. <<t, a>> \in writers => at[t] = "fill" \/ pc[t] = "flush"
  BY <1>a DEF UseInv, HandlesKnown
<1>n. Empty \in OwnContents(a) /\ Absent \in OwnContents(a)
  BY DEF OwnContents
<1> USE DEF Step, UseStep, HoldsOwn, Waiting
<1>t. ASSUME Throw(t), UNCHANGED <<fs, writers>>, pc'[t] = "idle", at[t] # "fill", pc[t] # "flush"
      PROVE  UseStep(t)
  BY <1>a, <1>b, <1>h, <1>t DEF Throw
<1>1. CASE CheckDisk(t)
  BY <1>1, <1>a, <1>b, <1>h, <1>i DEF CheckDisk, providerVars
<1>2. CASE CheckMemory(t)
  <2>1. work'[t].blob \in OwnContents(a)
    BY <1>2, <1>a, <1>b DEF CheckMemory, Works
  <2> QED BY <1>2, <1>a, <1>b, <1>h, <1>i, <2>1 DEF CheckMemory, providerVars
<1>3. CASE ReadDisk(t)
  <2>1. work'[t].blob = fs[a].pb
    BY <1>3, <1>a, <1>b DEF ReadDisk, Works
  <2> QED BY <1>3, <1>a, <1>b, <1>h, <1>i, <2>1 DEF ReadDisk, providerVars
<1>4. CASE Lookup(t) \/ FetchSpim(t) \/ FetchPtmTk(t)
  <2>1. PICK r : work' = [work EXCEPT ![t].active = r]
    BY <1>4 DEF Lookup, FetchSpim, FetchPtmTk, HttpStep
  <2>2. work'[t].blob = work[t].blob
    BY <1>b, <2>1 DEF Works
  <2> QED BY <1>4, <1>a, <1>b, <1>h, <1>i, <2>2
          DEF Lookup, FetchSpim, FetchPtmTk, HttpStep, providerVars
<1>5. CASE ReadDiskFails(t) \/ HttpFails(t) \/ SaveDiskFails(t) \/ OpenDiskFails(t)
  BY <1>5, <1>a, <1>i, <1>t DEF ReadDiskFails, HttpFails, SaveDiskFails, OpenDiskFails, providerVars
<1>6. CASE CallStart(t) \/ CallEnd(t) \/ CallHeaders(t)
  BY <1>6, <1>a, <1>b, <1>h DEF CallStart, CallEnd, CallHeaders, CallProvider, Invoke, Goto
<1>c. ASSUME Collect(t) PROVE pc'[t] = "idle" /\ pc[t] = "done" /\ UNCHANGED <<fs, writers>>
  BY <1>b, <1>c DEF Collect, Goto
<1>7. CASE Started(t)
  <2>1. CASE Throw(t)
    BY <1>7, <1>c, <1>t, <2>1 DEF Started
  <2>2. CASE ~Throw(t)
    <3>1. work'[t].blob = work[t].blob
      BY <1>7, <1>b, <2>2 DEF Started, Works
    <3> QED BY <1>7, <1>a, <1>b, <1>c, <1>h, <2>2, <3>1 DEF Started
  <2> QED BY <2>1, <2>2
<1>8. CASE Ended(t)
  <2>1. CASE Throw(t)
    BY <1>8, <1>c, <1>t, <2>1 DEF Ended
  <2>2. CASE ~Throw(t)
    <3>1. resp[t].kind = "pb" /\ pc[t] = "done"
      BY <1>8, <1>c, <2>2, AnswersTaken DEF Ended, Collect
    <3>2. work'[t].blob = resp[t].blob
      BY <1>8, <1>b, <2>2 DEF Ended, Works
    <3> QED BY <1>8, <1>a, <1>b, <1>c, <1>h, <2>2, <3>1, <3>2 DEF Ended
  <2> QED BY <2>1, <2>2
<1>9. CASE KeepRouting(t)
  BY <1>9, <1>a, <1>b, <1>h, <1>i DEF KeepRouting, providerVars
<1>18. CASE MakeRinfoDir(t)
  <2>1. fs'[a].pb = fs[a].pb /\ UNCHANGED writers
    BY <1>18, <1>a, <1>b DEF MakeRinfoDir, MakeDirectory, Ignored, Mkdir, DirState
  <2> QED BY <1>18, <1>a, <1>b, <1>h, <1>i, <2>1 DEF MakeRinfoDir
<1>10. CASE SaveRinfo(t)
  <2>1. fs'[a].pb = fs[a].pb /\ UNCHANGED writers
    BY <1>10, <1>a, <1>b DEF SaveRinfo, WriteRinfo, Ignored, DirState
  <2> QED BY <1>10, <1>a, <1>b, <1>h, <1>i, <2>1 DEF SaveRinfo
<1>11. CASE SaveDisk(t)
  <2>1. fs'[a].pb = fs[a].pb /\ UNCHANGED writers
    BY <1>11, <1>a, <1>b DEF SaveDisk, Mkdir, DirState
  <2> QED BY <1>11, <1>a, <1>b, <1>h, <1>i, <2>1 DEF SaveDisk
<1>12. CASE OpenDisk(t)
  <2>1. fs'[a].pb = Empty /\ writers' = writers \cup {<<t, a>>} /\ at'[t] = "fill"
    BY <1>12, <1>a, <1>b DEF OpenDisk, OpenForWriting, DirState
  <2> QED BY <1>12, <1>a, <1>b, <1>i, <1>n, <2>1 DEF OpenDisk
<1>13. CASE FillDisk(t) \/ FillDiskFails(t)
  <2>1. fs'[a].pb \in {work[t].blob, fs[a].pb, Empty} /\ writers' = writers \ {<<t, a>>}
    BY <1>13, <1>a, <1>b DEF FillDisk, FillDiskFails, WriteThrough, DirState
  <2>2. at'[t] \in {"headers", "returned"} /\ UNCHANGED <<work, job, pc, resp>>
    BY <1>13, <1>b DEF FillDisk, FillDiskFails, Throw
  <2> QED BY <1>13, <1>a, <1>b, <1>i, <1>n, <2>1, <2>2 DEF FillDisk, FillDiskFails
<1>14. CASE Got(t)
  BY <1>14, <1>a, <1>b, <1>c, <1>h DEF Got, Cleanup
<1>15. CASE StoredRouting(t) \/ ReadRinfo(t) \/ CacheSaved(t)
  <2>1. work'[t].blob = work[t].blob /\ at'[t] \in {"caching", "rmPb", "returned"}
        /\ UNCHANGED <<job, fs, writers, pc, resp>>
    BY <1>15, <1>b DEF StoredRouting, ReadRinfo, CacheSaved, Deliver, Cleanup, Works, providerVars
  <2>2. at[t] \in {"stored", "caching"}
    BY <1>15 DEF StoredRouting, ReadRinfo, CacheSaved
  <2> QED BY <1>a, <1>b, <1>h, <1>i, <2>1, <2>2
<1>16. CASE CleanupPb(t) \/ CleanupRinfo(t) \/ CleanupTree(t)
  <2>1. fs'[a].pb \in {Absent, fs[a].pb} /\ writers' \subseteq writers
    BY <1>16, <1>a, <1>b DEF CleanupPb, CleanupRinfo, CleanupTree, RemovePb, RemoveRinfo, RemoveTree,
       Ignored, Unlinked, NoDir, DirState
  <2> QED BY <1>16, <1>a, <1>b, <1>h, <1>i, <1>n, <2>1
          DEF CleanupPb, CleanupRinfo, CleanupTree, CleanupStep
<1>17. CASE Finish(t)
  BY <1>17, <1>a, <1>b, <1>h, <1>i DEF Finish, providerVars
<1> QED BY <1>1, <1>2, <1>3, <1>4, <1>5, <1>6, <1>7, <1>8, <1>9, <1>10, <1>11, <1>12, <1>13,
           <1>14, <1>15, <1>16, <1>17, <1>18 DEF TaskStep

LEMMA UseProviderStep ==
    ASSUME ClientInv, UseInv, NEW t \in Threads, InProvider(t)
    PROVE  UseStep(t)
<1> DEFINE a == job[t].acct
<1>a. /\ req[t].acct = a /\ a \in Accounts /\ at[t] # "idle" /\ HoldsOwn(t)
      /\ at[t] = "getting" => req[t].pb = work[t].blob
      /\ pc[t] = "flush" => at[t] = "getting"
      /\ UNCHANGED <<at, job, work>> /\ at[t] \in Waiting /\ fs[a].pb \in OwnContents(a)
  BY ProviderFrame, InsideProvider DEF clientVars, Waiting, UseInv, FilesOwn
<1>b. /\ fs \in [Accounts -> DirState] /\ DOMAIN pc = Threads /\ DOMAIN resp = Threads
      /\ writers \subseteq Threads \X Accounts /\ ProviderStep(t)
      /\ req[t] \in Requests
  BY ProviderFrame DEF ClientInv, TypeOK, ProviderTypeOK, ProviderInv, CallsInv, CallsKept, InProvider
<1>h. <<t, a>> \in writers => pc[t] = "flush"
  BY <1>a DEF UseInv, HandlesKnown, Waiting
<1>n. Empty \in OwnContents(a) /\ Absent \in OwnContents(a)
  BY DEF OwnContents
<1> USE DEF UseStep, HoldsOwn, Goto, Waiting
<1>f. ASSUME UNCHANGED writers, pc[t] # "flush", fs'[a].pb \in OwnContents(a),
             pc'[t] = "done" /\ resp'[t].kind = "pb" => resp'[t].blob \in OwnContents(a)
      PROVE  UseStep(t)
  BY <1>a, <1>h, <1>f
<1>1. CASE Acquire(t)
  BY <1>1, <1>a, <1>b, <1>f DEF Acquire
<1>2. CASE MakeDir(t)
  <2>1. fs'[a].pb = fs[a].pb /\ UNCHANGED writers
    BY <1>2, <1>a, <1>b DEF MakeDir, MakeDirectory, Ignored, Mkdir, DirState
  <2> QED BY <1>2, <1>a, <1>b, <1>f, <2>1 DEF MakeDir
<1>3. CASE CallFails(t) \/ Cancel(t) \/ ReadBackFails(t)
  BY <1>3, <1>a, <1>b, <1>f, ResponseFields DEF CallFails, Cancel, ReadBackFails, Return
<1>4. CASE ProvisioningStart(t) \/ OtpRequest(t)
  BY <1>4, <1>a, <1>b, <1>f, ResponseFields DEF ProvisioningStart, OtpRequest, Return
<1>5. CASE ProvisioningStartFails(t)
  <2>1. fs'[a].pb = fs[a].pb /\ UNCHANGED writers
    BY <1>5, <1>a, <1>b DEF ProvisioningStartFails, RemoveDirectory, Ignored, Rmdir, NoDir
  <2> QED BY <1>5, <1>a, <1>b, <1>f, <2>1, ResponseFields DEF ProvisioningStartFails, Return
<1>6. CASE OpenBlob(t)
  <2>1. fs'[a].pb = Empty /\ writers' = writers \cup {<<t, a>>} /\ pc'[t] = "flush"
    BY <1>6, <1>a, <1>b DEF OpenBlob, OpenForWriting, DirState
  <2> QED BY <1>6, <1>a, <1>b, <1>n, <2>1
<1>7. CASE OpenBlobFails(t)
  BY <1>7, <1>a, <1>b, <1>f DEF OpenBlobFails
<1>8. CASE FlushBlob(t)
  <2>1. PICK c \in Arrived(a, req[t].pb) : WriteThrough(t, a, c)
    BY <1>8, <1>a DEF FlushBlob
  <2>2. c \in {work[t].blob, fs[a].pb, Empty}
    BY <1>8, <1>a, <2>1 DEF Arrived, FlushBlob
  <2>3. /\ fs'[a].pb \in {c, fs[a].pb} /\ writers' = writers \ {<<t, a>>}
        /\ pc'[t] = "otp"
    BY <1>8, <1>a, <1>b, <2>1 DEF FlushBlob, WriteThrough, DirState
  <2> QED BY <1>8, <1>a, <1>b, <1>n, <2>2, <2>3
<1>9. CASE ProvisioningEnd(t)
  <2>1. fs'[a].pb = [acct |-> a, session |-> req[t].session] /\ req[t].session \in Sessions
    BY <1>9, <1>a, <1>b, RequestFields DEF ProvisioningEnd, DirState
  <2>2. fs'[a].pb \in OwnContents(a)
    BY <2>1 DEF OwnContents
  <2> QED BY <1>9, <1>a, <1>b, <1>f, <2>2 DEF ProvisioningEnd
<1>10. CASE ReadBack(t)
  <2>1. PICK c \in Taken(fs[a].pb) : Return(t, PbResp(c))
    BY <1>10, <1>a DEF ReadBack
  <2>2. resp'[t].blob = c /\ c \in OwnContents(a)
    BY <1>a, <1>b, <1>n, <2>1, ResponseFields DEF Return, Taken
  <2> QED BY <1>10, <1>a, <1>b, <1>f, <2>2 DEF ReadBack
<1> QED BY <1>b, <1>1, <1>2, <1>3, <1>4, <1>5, <1>6, <1>7, <1>8, <1>9, <1>10 DEF ProviderStep

LEMMA UseKept ==
    /\ Init => UseInv
    /\ ClientInv /\ UseInv /\ [Next]_vars => UseInv'
<1>1. ASSUME Init PROVE UseInv
  BY <1>1 DEF Init, ProviderInit, NoDir, UseInv, HandlesKnown, FilesOwn, HoldsOwn, OwnContents
<1>2. ASSUME ClientInv, UseInv, NEW t \in Threads, TaskStep(t) \/ InProvider(t) PROVE UseInv'
  <2>1. UseStep(t) /\ job[t].acct \in Accounts
    BY <1>2, UseTaskStep, UseProviderStep, TaskIsOwn, JobFields, ProviderFrame DEF ClientInv
  <2>2. \A u \in Threads \ {t} : /\ at'[u] = at[u] /\ job'[u] = job[u] /\ work'[u] = work[u]
                                 /\ pc'[u] = pc[u] /\ resp'[u] = resp[u]
    BY <1>2, TaskIsOwn, ProviderFrame DEF ClientInv, clientVars
  <2>3. \A b \in Accounts \ {job[t].acct} : Untouched(b)
    BY <1>2, TaskFrame, ProviderFrame
  <2>4. HandlesKnown'
    <3> SUFFICES ASSUME NEW u \in Threads, NEW b \in Accounts, <<u, b>> \in writers'
                 PROVE  b = job'[u].acct /\ (at'[u] = "fill" \/ pc'[u] = "flush")
      BY DEF HandlesKnown
    <3>1. CASE u # t
      <4>1. <<u, b>> \in writers
        BY <2>1, <3>1 DEF UseStep
      <4> QED BY <1>2, <2>2, <3>1, <4>1 DEF UseInv, HandlesKnown
    <3>2. CASE u = t
      <4>1. b = job[t].acct
        BY <1>2, <2>1, <3>2 DEF UseStep, UseInv, HandlesKnown
      <4> QED BY <2>1, <3>2, <4>1 DEF UseStep
    <3> QED BY <3>1, <3>2
  <2>5. FilesOwn'
    BY <1>2, <2>1, <2>3 DEF UseStep, Untouched, UseInv, FilesOwn, OwnContents
  <2>6. ASSUME NEW u \in Threads PROVE HoldsOwn(u)'
    <3>1. CASE u = t
      BY <2>1, <3>1 DEF UseStep
    <3>2. CASE u # t
      BY <1>2, <2>2, <3>2 DEF UseInv, HoldsOwn, OwnContents
    <3> QED BY <3>1, <3>2
  <2> QED BY <2>4, <2>5, <2>6 DEF UseInv
<1>3. ASSUME ClientInv, UseInv, NEW t \in Threads, BeginAny(t) PROVE UseInv'
  <2>1. /\ UNCHANGED <<fs, pc, resp, writers, work>> /\ at[t] = "idle" /\ at'[t] = "check"
        /\ \A u \in Threads \ {t} : at'[u] = at[u] /\ job'[u] = job[u]
        /\ pc[t] = "idle" /\ work[t].blob = Empty
    <3>1. /\ at[t] = "idle" /\ at'[t] = "check"
          /\ \A u \in Threads \ {t} : at'[u] = at[u] /\ job'[u] = job[u]
          /\ UNCHANGED <<work, providerVars>>
      BY <1>3, BeginSets
    <3>2. ShapeOf(t)
      BY <1>3 DEF ClientInv, ClientShape
    <3>3. pc[t] = "idle" /\ work[t].blob = Empty
      BY <3>1, <3>2 DEF ShapeOf, Waiting, NoWork
    <3> QED BY <3>1, <3>3 DEF providerVars
  <2>2. job'[t].existing \in OwnContents(job'[t].acct)
    <3>1. PICK a \in Accounts, st \in Storages, cu \in Customs :
             \E ex \in Existing(a, st) : Begin(t, a, st, ex, cu)
      BY <1>3 DEF BeginAny
    <3>2. PICK ex \in Existing(a, st) : Begin(t, a, st, ex, cu)
      BY <3>1
    <3>3. job'[t] = [acct |-> a, storage |-> st, existing |-> ex, custom |-> cu]
      BY <1>3, <3>2 DEF Begin, ClientInv, TypeOK
    <3>4. ex \in OwnContents(a)
      BY <1>3 DEF Existing, OwnContents, ClientInv, TypeOK, ProviderTypeOK
    <3> QED BY <3>3, <3>4
  <2>3. HandlesKnown'
    BY <1>3, <2>1 DEF UseInv, HandlesKnown
  <2>4. ASSUME NEW u \in Threads PROVE HoldsOwn(u)'
    BY <1>3, <2>1, <2>2 DEF UseInv, HoldsOwn, OwnContents
  <2> QED BY <1>3, <2>1, <2>3, <2>4 DEF UseInv, FilesOwn, OwnContents
<1>4. ASSUME UseInv, Crash PROVE UseInv'
  BY <1>4 DEF Crash, ProviderCrash, UseInv, HandlesKnown, FilesOwn, HoldsOwn, OwnContents
<1>5. ASSUME UseInv, UNCHANGED vars PROVE UseInv'
  BY <1>5 DEF vars, clientVars, providerVars, UseInv, HandlesKnown, FilesOwn, HoldsOwn, OwnContents
<1> QED BY <1>1, <1>2, <1>3, <1>4, <1>5 DEF Next, AllDone

\* The provider's words mean the same when they are the client's.
LEMMA SameWords ==
    /\ Provider!NoReq = NoReq /\ Provider!Blank = Blank /\ Provider!NoDir = NoDir
    /\ Provider!ErrorResp = ErrorResp /\ Provider!CancelledResp = CancelledResp
    /\ Provider!Blobs = Blobs
    /\ \A d : Provider!Mkdir(d) = Mkdir(d) /\ Provider!Rmdir(d) = Rmdir(d)
    /\ \A s : Provider!CpimResp(s) = CpimResp(s)
    /\ \A c : Provider!PbResp(c) = PbResp(c)
    /\ \A i, c : Provider!HeadersResp(i, c) = HeadersResp(i, c)
    /\ \A t, l : Provider!Goto(t, l) <=> Goto(t, l)
    /\ \A t, r : Provider!Return(t, r) <=> Return(t, r)
    /\ \A a, c : Provider!Arrived(a, c) = Arrived(a, c)
    /\ \A c : Provider!Taken(c) = Taken(c)
BY DEF Provider!NoReq, NoReq, Provider!Blank, Blank, Provider!NoDir, NoDir,
       Provider!ErrorResp, ErrorResp, Provider!CancelledResp, CancelledResp,
       Provider!Blobs, Blobs, Provider!Mkdir, Mkdir, Provider!Rmdir, Rmdir,
       Provider!CpimResp, CpimResp, Provider!PbResp, PbResp,
       Provider!HeadersResp, HeadersResp, Provider!Goto, Goto, Provider!Return, Return,
       Provider!Arrived, Arrived, Provider!Taken, Taken

\* The provider sees nothing of a step that leaves its variables, or of one that
\* only closes a handle of the client.
LEMMA Unseen ==
    ASSUME UNCHANGED <<pc, req, resp, holder, fs, sessions, minted>>,
           \A w : w \in writers' /\ pc[w[1]] # "idle" <=> w \in writers /\ pc[w[1]] # "idle"
    PROVE  UNCHANGED Provider!providerVars
<1>1. ProviderHandles' = ProviderHandles
  BY DEF ProviderHandles
<1> QED BY <1>1 DEF Provider!providerVars

\* What the client does to the files is what the provider expects of the host.
LEMMA FilesForeseen ==
    ASSUME UNCHANGED <<pc, req, resp, holder, sessions, minted>>,
           NEW a \in Accounts,
           \/ RemovePb(a) \/ RemoveRinfo(a) \/ RemoveTree(a) \/ MakeDirectory(a)
           \/ \E r \in Rinfos : WriteRinfo(a, r)
    PROVE  Provider!HostFileStep
<1>0. \A kind : Ignored(kind) => Provider!Ignored(kind) /\ ProviderHandles' = ProviderHandles
  BY DEF Ignored, Provider!Ignored, ProviderHandles
<1>1. CASE RemovePb(a) \/ RemoveTree(a)
  <2>1. CASE Ignored("remove")
    BY <1>0, <2>1 DEF Provider!RemovePb, Provider!HostFileStep
  <2>2. CASE ~Ignored("remove")
    <3>1. ProviderHandles' = Provider!Unlinked(a)
      BY <1>1, <2>2 DEF RemovePb, RemoveTree, Unlinked, ProviderHandles, Provider!Unlinked
    <3> QED BY <1>1, <2>2, <3>1, SameWords DEF RemovePb, RemoveTree, Provider!RemovePb,
         Provider!RemoveTree, Provider!HostFileStep
  <2> QED BY <2>1, <2>2
<1>2. CASE RemoveRinfo(a) \/ MakeDirectory(a) \/ \E r \in Rinfos : WriteRinfo(a, r)
  <2>1. ProviderHandles' = ProviderHandles
    BY <1>2 DEF RemoveRinfo, MakeDirectory, WriteRinfo, Ignored, ProviderHandles
  <2> QED BY <1>0, <1>2, <2>1, SameWords DEF RemoveRinfo, MakeDirectory, WriteRinfo,
       Provider!RemoveRinfo, Provider!MakeDirectory, Provider!WriteRinfo, Provider!HostFileStep
<1> QED BY <1>1, <1>2

\* A task whose call is outside the provider.
LEMMA TaskForeseen ==
    ASSUME ClientInv, UseInv, NEW t \in Threads, TaskStep(t)
    PROVE  Provider!ProviderNext \/ UNCHANGED Provider!providerVars
<1> DEFINE a == job[t].acct
           Goal == Provider!ProviderNext \/ UNCHANGED Provider!providerVars
<1>a. /\ at[t] # "idle" /\ ShapeOf(t) /\ a \in Accounts /\ HoldsOwn(t)
      /\ work[t].active \in Rinfos \cup {NoRinfo} /\ work[t].blob \in Blobs \cup {Empty}
      /\ work[t].blob # Absent
  BY TaskIsOwn, JobFields DEF ClientInv, ClientShape, UseInv, Contents
<1>b. /\ fs \in [Accounts -> DirState] /\ FilesSane /\ DOMAIN pc = Threads
      /\ writers \subseteq Threads \X Accounts
  BY DEF ClientInv, TypeOK, ProviderTypeOK, ProviderInv
<1>i. at[t] \notin Waiting => pc[t] = "idle"
  BY <1>a DEF ShapeOf
\* No handle of this task is open when it calls the provider or leaves it.
<1>h. ASSUME at[t] # "fill", pc[t] # "flush", UNCHANGED writers,
             \A u \in Threads \ {t} : pc'[u] = pc[u]
      PROVE  ProviderHandles' = ProviderHandles
  <2>1. \A w \in writers : w[1] \in Threads \ {t}
    <3> SUFFICES ASSUME NEW w \in writers PROVE w[1] \in Threads \ {t}
      OBVIOUS
    <3>1. w = <<w[1], w[2]>> /\ w[1] \in Threads /\ w[2] \in Accounts
      BY <1>b
    <3> QED BY <1>h, <3>1 DEF UseInv, HandlesKnown
  <2> QED BY <1>h, <2>1 DEF ProviderHandles
<1>u. ASSUME UNCHANGED <<pc, req, resp, holder, fs, writers, sessions, minted>> PROVE Goal
  BY <1>u, Unseen
<1>w. ASSUME UNCHANGED <<pc, req, resp, holder, sessions, minted>>,
             \/ RemovePb(a) \/ RemoveRinfo(a) \/ RemoveTree(a) \/ MakeDirectory(a)
             \/ \E r \in Rinfos : WriteRinfo(a, r)
      PROVE  Goal
  BY <1>a, <1>w, FilesForeseen DEF Provider!ProviderNext
<1>1. CASE \/ CheckDisk(t) \/ CheckMemory(t) \/ ReadDisk(t) \/ ReadDiskFails(t) \/ Lookup(t)
           \/ FetchSpim(t) \/ FetchPtmTk(t) \/ HttpFails(t) \/ KeepRouting(t)
           \/ SaveDiskFails(t) \/ OpenDiskFails(t) \/ StoredRouting(t) \/ ReadRinfo(t)
           \/ CacheSaved(t) \/ Finish(t)
  <2>1. UNCHANGED providerVars
    BY <1>1 DEF CheckDisk, CheckMemory, ReadDisk, ReadDiskFails, Lookup, FetchSpim, FetchPtmTk,
       HttpStep, HttpFails, KeepRouting, SaveDiskFails, OpenDiskFails, StoredRouting, ReadRinfo,
       CacheSaved, Finish
  <2> QED BY <2>1, <1>u DEF providerVars
<1>2. CASE CallStart(t) \/ CallEnd(t) \/ CallHeaders(t)
  <2>1. /\ StartReq(t) \in Requests /\ HeadersReq(t) \in Requests
        /\ at[t] = "end" => EndReq(t) \in Requests
    BY <1>a DEF StartReq, EndReq, HeadersReq, Requests, ShapeOf
  <2>2. PICK r \in Requests : Invoke(t, r)
    BY <1>2, <2>1 DEF CallStart, CallEnd, CallHeaders, CallProvider, StartReq, EndReq, HeadersReq
  <2>3. at[t] # "fill"
    BY <1>2 DEF CallStart, CallEnd, CallHeaders, CallProvider
  <2>4. ProviderHandles' = ProviderHandles
    BY <1>b, <1>h, <2>2, <2>3 DEF Invoke, Goto
  <2>5. Provider!Invoke(t, r)
    BY <2>2, <2>4, SameWords DEF Invoke, Provider!Invoke
  <2> QED BY <2>5 DEF Provider!ProviderNext
<1>3. CASE Started(t) \/ Ended(t) \/ Got(t)
  <2>1. Collect(t) /\ at[t] # "fill"
    BY <1>3 DEF Started, Ended, Got
  <2>2. ProviderHandles' = ProviderHandles
    BY <1>b, <1>h, <2>1 DEF Collect, Goto
  <2>3. Provider!Collect(t)
    BY <2>1, <2>2, SameWords DEF Collect, Provider!Collect
  <2> QED BY <2>3 DEF Provider!ProviderNext
<1>4. CASE MakeRinfoDir(t)
  BY <1>4, <1>w DEF MakeRinfoDir
<1>5. CASE SaveRinfo(t)
  <2>1. work[t].active \in Rinfos
    BY <1>5, <1>a DEF SaveRinfo, HoldsOwn
  <2> QED BY <1>5, <1>w, <2>1 DEF SaveRinfo
<1>6. CASE SaveDisk(t)
  <2>1. CASE job[t].storage = "disk"
    <3>1. MakeDirectory(a)
      BY <1>6, <2>1 DEF SaveDisk, MakeDirectory
    <3> QED BY <1>6, <1>w, <3>1 DEF SaveDisk
  <2>2. CASE job[t].storage # "disk"
    BY <1>6, <1>u, <2>2 DEF SaveDisk
  <2> QED BY <2>1, <2>2
\* A write of the client itself, of the kind HostFileStep allows.
<1>v. ASSUME NEW c \in [acct : {a}, session : Sessions] \cup {Empty},
             fs[a].dir, fs' = [fs EXCEPT ![a].pb = c],
             UNCHANGED <<pc, req, resp, holder, sessions, minted>>,
             ProviderHandles' = ProviderHandles
      PROVE  Goal
  <2>1. Provider!HostFileStep
    BY <1>a, <1>v DEF Provider!HostFileStep
  <2> QED BY <2>1 DEF Provider!ProviderNext
<1>7. CASE OpenDisk(t)
  <2>1. OpenForWriting(t, a) /\ pc' = pc /\ pc[t] = "idle"
    BY <1>7, <1>i DEF OpenDisk, Waiting
  <2>2. ProviderHandles' = ProviderHandles
    BY <2>1 DEF OpenForWriting, ProviderHandles
  <2> QED BY <1>7, <1>v, <2>1, <2>2 DEF OpenDisk, OpenForWriting
<1>8. CASE FillDisk(t) \/ FillDiskFails(t)
  <2>0. /\ pc' = pc /\ pc[t] = "idle" /\ UNCHANGED <<req, resp, holder, sessions, minted>>
        /\ \E c \in {work[t].blob, Empty, fs[a].pb} : WriteThrough(t, a, c)
    BY <1>8, <1>i DEF FillDisk, FillDiskFails, Waiting
  <2>1. PICK c \in {work[t].blob, Empty, fs[a].pb} : WriteThrough(t, a, c)
    BY <2>0
  <2>2. ProviderHandles' = ProviderHandles
    BY <2>0, <2>1 DEF WriteThrough, ProviderHandles
  <2>3. CASE <<t, a>> \in writers
    <3>1. fs[a].dir /\ fs[a].pb # Absent /\ fs' = [fs EXCEPT ![a].pb = c]
      BY <1>a, <1>b, <2>1, <2>3 DEF FilesSane, WriteThrough
    <3>2. c \in [acct : {a}, session : Sessions] \cup {Empty}
      BY <1>a, <2>1, <3>1 DEF HoldsOwn, OwnContents, UseInv, FilesOwn
    <3> QED BY <1>v, <2>0, <2>2, <3>1, <3>2
  <2>4. CASE <<t, a>> \notin writers
    BY <2>0, <2>1, <2>2, <2>4 DEF WriteThrough, Provider!providerVars
  <2> QED BY <2>3, <2>4
<1>9. CASE CleanupPb(t) \/ CleanupRinfo(t) \/ CleanupTree(t)
  <2>1. /\ UNCHANGED <<pc, req, resp, holder, sessions, minted>>
        /\ RemovePb(a) \/ RemoveRinfo(a) \/ RemoveTree(a)
    BY <1>9 DEF CleanupPb, CleanupRinfo, CleanupTree, CleanupStep
  <2> QED BY <1>w, <2>1
<1> QED BY <1>1, <1>2, <1>3, <1>4, <1>5, <1>6, <1>7, <1>8, <1>9 DEF TaskStep

\* A call inside the provider takes the provider's own steps.
LEMMA InsideForeseen ==
    ASSUME ClientInv, UseInv, NEW t \in Threads, InProvider(t)
    PROVE  Provider!ProviderStep(t)
<1>a. /\ pc[t] # "idle" /\ pc'[t] # "idle" /\ ProviderStep(t)
      /\ \A u \in Threads \ {t} : pc'[u] = pc[u]
      /\ writers \subseteq Threads \X Accounts /\ req[t].acct \in Accounts
  BY ProviderFrame, InsideProvider DEF InProvider, ClientInv, TypeOK, ProviderTypeOK
<1>b. \A w \in Threads \X Accounts : pc'[w[1]] # "idle" <=> pc[w[1]] # "idle"
  BY <1>a
<1>u. UNCHANGED writers => ProviderHandles' = ProviderHandles
  BY <1>a, <1>b DEF ProviderHandles
<1> USE SameWords DEF Provider!ProviderStep
<1>1. CASE Acquire(t) \/ CallFails(t)
  BY <1>1, <1>u DEF Acquire, CallFails, Provider!Acquire, Provider!CallFails
<1>10. CASE MakeDir(t)
  <2>1. UNCHANGED writers
    BY <1>10 DEF MakeDir, MakeDirectory, Ignored
  <2> QED BY <1>10, <1>u, <2>1 DEF MakeDir, MakeDirectory, Ignored, Provider!MakeDir,
       Provider!MakeDirectory, Provider!Ignored
<1>2. CASE OpenBlob(t)
  <2>1. OpenForWriting(t, req[t].acct)
    BY <1>2 DEF OpenBlob
  <2>2. ProviderHandles' = ProviderHandles \cup {<<t, req[t].acct>>}
    BY <1>a, <1>b, <2>1 DEF OpenForWriting, ProviderHandles
  <2>3. Provider!OpenForWriting(t, req[t].acct)
    BY <2>1, <2>2 DEF OpenForWriting, Provider!OpenForWriting
  <2> QED BY <1>2, <2>3 DEF OpenBlob, Provider!OpenBlob
<1>3. CASE OpenBlobFails(t)
  BY <1>3, <1>u DEF OpenBlobFails, Provider!OpenBlobFails
<1>4. CASE FlushBlob(t)
  <2>1. PICK c \in Arrived(req[t].acct, req[t].pb) : WriteThrough(t, req[t].acct, c)
    BY <1>4 DEF FlushBlob
  <2>2. /\ ProviderHandles' = ProviderHandles \ {<<t, req[t].acct>>}
        /\ <<t, req[t].acct>> \in ProviderHandles <=> <<t, req[t].acct>> \in writers
    BY <1>a, <1>b, <2>1 DEF WriteThrough, ProviderHandles
  <2>3. Provider!WriteThrough(t, req[t].acct, c)
    BY <2>1, <2>2 DEF WriteThrough, Provider!WriteThrough
  <2> QED BY <1>4, <2>1, <2>3 DEF FlushBlob, Provider!FlushBlob
<1>5. CASE OtpRequest(t)
  BY <1>5, <1>u DEF OtpRequest, Provider!OtpRequest
<1>6. CASE ProvisioningStart(t)
  BY <1>6, <1>u DEF ProvisioningStart, Provider!ProvisioningStart
<1>11. CASE ProvisioningStartFails(t)
  <2>1. UNCHANGED writers
    BY <1>11 DEF ProvisioningStartFails, RemoveDirectory, Ignored
  <2> QED BY <1>11, <1>u, <2>1 DEF ProvisioningStartFails, RemoveDirectory, Ignored,
       Provider!ProvisioningStartFails, Provider!RemoveDirectory, Provider!Ignored
<1>7. CASE ProvisioningEnd(t)
  BY <1>7, <1>u DEF ProvisioningEnd, Provider!ProvisioningEnd
<1>8. CASE ReadBack(t) \/ ReadBackFails(t)
  BY <1>8, <1>u DEF ReadBack, ReadBackFails, Provider!ReadBack, Provider!ReadBackFails
<1>9. CASE Cancel(t)
  BY <1>9, <1>u DEF Cancel, Provider!Cancel
<1> QED BY <1>a, <1>1, <1>2, <1>3, <1>4, <1>5, <1>6, <1>7, <1>8, <1>9, <1>10, <1>11
        DEF ProviderStep

\* AnisetteClient.swift calls the provider, and changes the files under it, only
\* as AdiProvider foresees of its callers: for any number of overlapping tasks in
\* both storage modes, with every failure and crashes at any point.
THEOREM ClientUsesProvider == Spec => UsesProvider
<1>1. Init => Provider!ProviderInit
  <2> SUFFICES ASSUME Init PROVE Provider!ProviderInit
    OBVIOUS
  <2>1. ProviderHandles = {}
    BY DEF Init, ProviderInit, ProviderHandles
  <2> QED BY <2>1, SameWords DEF Init, ProviderInit, Provider!ProviderInit
<1>2. ClientInv /\ UseInv /\ [Next]_vars => [Provider!ProviderNext]_(Provider!providerVars)
  <2> SUFFICES ASSUME ClientInv, UseInv, [Next]_vars
               PROVE  Provider!ProviderNext \/ UNCHANGED Provider!providerVars
    OBVIOUS
  <2>1. ASSUME NEW t \in Threads, BeginAny(t) PROVE UNCHANGED Provider!providerVars
    BY <2>1, BeginSets, Unseen DEF providerVars
  <2>2. ASSUME NEW t \in Threads, InProvider(t) PROVE Provider!ProviderNext
    BY <2>2, InsideForeseen DEF Provider!ProviderNext
  <2>3. CASE Crash
    <3>1. ProviderHandles' = {}
      BY <2>3 DEF Crash, ProviderCrash, ProviderHandles
    <3>2. Provider!ProviderCrash
      BY <2>3, <3>1, SameWords DEF Crash, ProviderCrash, Provider!ProviderCrash
    <3> QED BY <3>2 DEF Provider!ProviderNext
  <2>4. CASE UNCHANGED vars
    BY <2>4, Unseen DEF vars, providerVars
  <2> QED BY <2>1, <2>2, <2>3, <2>4, TaskForeseen DEF Next, AllDone
<1> QED BY <1>1, <1>2, ClientNext, UseKept, PTL DEF Spec, UsesProvider, Provider!ProviderSpec
================================================================================
