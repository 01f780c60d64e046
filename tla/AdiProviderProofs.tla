--------------------------- MODULE AdiProviderProofs ---------------------------
(***************************************************************************)
(* What AdiProvider keeps, for every number of threads, accounts and       *)
(* sessions: one call at a time, an answer that fits the question, and     *)
(* directories without stray handles.  The proofs about its two            *)
(* implementations and about the client start from these lemmas.           *)
(***************************************************************************)
EXTENDS AdiProvider, TLAPS

(***************************************************************************)
(* Facts about the data.                                                   *)
(***************************************************************************)

\* The answers of the C functions are of the type of answers.
LEMMA ResponseTypes ==
    /\ Blank \in Responses
    /\ ErrorResp \in Responses
    /\ CancelledResp \in Responses
    /\ \A s \in Sessions : CpimResp(s) \in Responses
    /\ \A c \in Contents : PbResp(c) \in Responses
    /\ \A i \in AndroidIds \cup {NoAndroid}, c \in Contents : HeadersResp(i, c) \in Responses
BY DEF Blank, ErrorResp, CancelledResp, CpimResp, PbResp, HeadersResp, Responses, Contents

\* An answer carries what it was made from.
LEMMA ResponseFields ==
    /\ Blank.kind = "none" /\ ErrorResp.kind = "error" /\ CancelledResp.kind = "cancelled"
    /\ \A s : CpimResp(s).kind = "cpim" /\ CpimResp(s).session = s
    /\ \A c : PbResp(c).kind = "pb" /\ PbResp(c).blob = c
    /\ \A i, c : /\ HeadersResp(i, c).kind = "headers"
                 /\ HeadersResp(i, c).android = i /\ HeadersResp(i, c).blob = c
BY DEF Blank, ErrorResp, CancelledResp, CpimResp, PbResp, HeadersResp

\* mkdir and rmdir lead from directories to directories.
LEMMA DirTypes ==
    ASSUME NEW d \in DirState
    PROVE  /\ Mkdir(d) \in DirState
           /\ Rmdir(d) \in DirState
           /\ NoDir \in DirState
BY DEF Mkdir, Rmdir, NoDir, DirState, Contents

\* What a request carries.
LEMMA RequestFields ==
    ASSUME NEW r \in Requests
    PROVE  /\ r.op \in {"headers", "start", "end", "cancel"}
           /\ r.acct \in Accounts /\ AndroidIdOf[r.acct] \in AndroidIds
           /\ r.pb \in Blobs \cup {Empty} /\ r.pb \in Contents /\ r.pb # Absent
           /\ r.op = "end" => r.session \in Sessions
BY AndroidAssumption, ContentsAssumption DEF Requests, Contents

FilesTyped == fs \in [Accounts -> DirState] /\ writers \subseteq Threads \X Accounts

\* The file operations keep the types of the directories and of the handles.
LEMMA WriteTypes ==
    ASSUME FilesTyped, NEW t \in Threads, NEW a \in Accounts, NEW c \in Contents,
           OpenForWriting(t, a) \/ WriteThrough(t, a, c)
    PROVE  FilesTyped'
<1> USE DEF FilesTyped
<1>1. CASE OpenForWriting(t, a)
  BY <1>1 DEF OpenForWriting, DirState, Contents
<1>2. CASE WriteThrough(t, a, c)
  BY <1>2 DEF WriteThrough, DirState, Contents
<1> QED BY <1>1, <1>2

\* What may have arrived in adi.pb, or have been taken from it, is contents again,
\* and something if that was.
LEMMA ArrivedTypes ==
    ASSUME FilesTyped, NEW a \in Accounts, NEW c \in Contents, NEW d \in Arrived(a, c)
    PROVE  d \in Contents /\ d \in {c, Empty, fs[a].pb}
BY DEF Arrived, FilesTyped, DirState, Contents

LEMMA TakenTypes ==
    ASSUME NEW c \in Contents, NEW d \in Taken(c)
    PROVE  d \in Contents /\ d \in {c, Empty}
BY DEF Taken, Contents

\* What either language does to the files keeps their types, one operation at a
\* time and all together.
LEMMA HostOperationTypes ==
    ASSUME FilesTyped, NEW a \in Accounts, NEW r \in Rinfos \cup {NoRinfo},
           \/ RemovePb(a) \/ RemoveRinfo(a) \/ RemoveTree(a) \/ MakeDirectory(a)
           \/ RemoveDirectory(a) \/ WriteRinfo(a, r)
    PROVE  FilesTyped'
<1> USE DEF FilesTyped, Ignored
<1>1. Unlinked(a) \subseteq Threads \X Accounts
  BY DEF Unlinked
<1>2. CASE RemovePb(a)
  BY <1>1, <1>2 DEF RemovePb, DirState, Contents
<1>3. CASE RemoveRinfo(a)
  BY <1>3 DEF RemoveRinfo, DirState
<1>4. CASE RemoveTree(a)
  BY <1>1, <1>4, DirTypes DEF RemoveTree
<1>5. CASE MakeDirectory(a)
  BY <1>5, DirTypes DEF MakeDirectory
<1>6. CASE RemoveDirectory(a)
  BY <1>6, DirTypes DEF RemoveDirectory
<1>7. CASE WriteRinfo(a, r)
  BY <1>7 DEF WriteRinfo, DirState
<1> QED BY <1>2, <1>3, <1>4, <1>5, <1>6, <1>7

LEMMA HostFileTypes ==
    ASSUME FilesTyped, HostFileStep
    PROVE  FilesTyped'
<1>1. PICK a \in Accounts :
          \/ RemovePb(a) \/ RemoveRinfo(a) \/ RemoveTree(a) \/ MakeDirectory(a)
          \/ \E r \in Rinfos : WriteRinfo(a, r)
          \/ \E c \in [acct : {a}, session : Sessions] \cup {Empty} :
                /\ fs[a].dir
                /\ fs' = [fs EXCEPT ![a].pb = c]
                /\ UNCHANGED writers
  BY DEF HostFileStep
<1>2. ASSUME NEW c \in [acct : {a}, session : Sessions] \cup {Empty},
             fs' = [fs EXCEPT ![a].pb = c], UNCHANGED writers
      PROVE  FilesTyped'
  <2>1. c \in Contents
    BY DEF Contents, Blobs
  <2> QED BY <1>2, <2>1 DEF FilesTyped, DirState
<1> QED BY <1>1, <1>2, HostOperationTypes

(***************************************************************************)
(* The inductive invariant.  A call under way keeps its request and has no *)
(* answer yet; a call that is past the mutex holds it; what a call that is *)
(* over answers is an error or an answer to its own question; and a handle *)
(* is open only on a file that is there, in a directory that is there.     *)
(***************************************************************************)
AtWork == {"setup", "act", "flush", "otp", "readback"}

CallsKept ==
    \A t \in Threads :
        /\ pc[t] # "idle" => req[t] \in Requests
        /\ pc[t] \in AtWork \ {"act"} => req[t].op # "cancel"
        /\ pc[t] \in {"flush", "otp"} => req[t].op = "headers"
        /\ pc[t] = "readback" => req[t].op = "end"
        /\ pc[t] # "done" => resp[t] = Blank

OneAtWork == \A t \in Threads : pc[t] \in AtWork <=> holder = t

AnswerFits(q, r) ==
    \/ r.kind = "error"
    \/ /\ q.op = "headers" /\ r.kind = "headers"
       /\ r.android = AndroidIdOf[q.acct] /\ r.blob \in Blobs
    \/ q.op = "start" /\ r.kind = "cpim" /\ r.session \in Sessions
    \/ q.op = "end" /\ r.kind = "pb" /\ r.blob \in Blobs \cup {Empty}
    \/ q.op = "cancel" /\ r.kind = "cancelled"

AnswersFit == \A t \in Threads : pc[t] = "done" => AnswerFits(req[t], resp[t])

FilesSane ==
    \A a \in Accounts :
        /\ ~fs[a].dir => fs[a].pb = Absent /\ fs[a].rinfo = NoRinfo
        /\ \A t \in Threads : <<t, a>> \in writers => fs[a].pb # Absent

CallsInv == ProviderTypeOK /\ CallsKept /\ OneAtWork /\ AnswersFit

ProviderInv == CallsInv /\ FilesSane

\* A move inside a call.
LEMMA GotoKeeps ==
    ASSUME CallsInv, NEW t \in Threads, NEW l \in AtWork, Goto(t, l), pc[t] \in AtWork,
           UNCHANGED <<req, resp, holder>>, FilesTyped',
           sessions' \subseteq minted', minted' \subseteq Sessions,
           l # "act" => req[t].op # "cancel",
           l \in {"flush", "otp"} => req[t].op = "headers",
           l = "readback" => req[t].op = "end"
    PROVE  CallsInv'
<1> USE DEF CallsInv
<1>1. \A u \in Threads : pc'[u] = IF u = t THEN l ELSE pc[u]
  BY DEF ProviderTypeOK, Goto
<1>2. ProviderTypeOK'
  BY DEF ProviderTypeOK, FilesTyped, Goto, AtWork, PCs
<1>3. CallsKept' /\ OneAtWork' /\ AnswersFit'
  BY <1>1 DEF CallsKept, OneAtWork, AnswersFit, AtWork
<1> QED BY <1>2, <1>3

\* A return with an answer that fits.
LEMMA ReturnKeeps ==
    ASSUME CallsInv, NEW t \in Threads, NEW r \in Responses, Return(t, r), pc[t] \in AtWork,
           UNCHANGED req, FilesTyped', sessions' \subseteq minted', minted' \subseteq Sessions,
           AnswerFits(req[t], r)
    PROVE  CallsInv'
<1> USE DEF CallsInv
<1>1. /\ \A u \in Threads : pc'[u] = IF u = t THEN "done" ELSE pc[u]
      /\ \A u \in Threads : resp'[u] = IF u = t THEN r ELSE resp[u]
      /\ holder' = NoThread /\ holder = t
  BY DEF ProviderTypeOK, Return, Goto, OneAtWork
<1>2. ProviderTypeOK'
  BY DEF ProviderTypeOK, FilesTyped, Return, Goto, PCs
<1>3. CallsKept'
  BY <1>1 DEF CallsKept, AtWork
<1>4. OneAtWork'
  BY <1>1, NullAssumption DEF OneAtWork, AtWork
<1>5. AnswersFit'
  BY <1>1 DEF AnswersFit
<1> QED BY <1>2, <1>3, <1>4, <1>5

\* A step inside the provider moves one thread only and no request.
LEMMA StepIsOwn ==
    ASSUME ProviderTypeOK, NEW t \in Threads, ProviderStep(t)
    PROVE  /\ req' = req
           /\ DOMAIN pc' = Threads /\ DOMAIN resp' = Threads
           /\ \A u \in Threads \ {t} : pc'[u] = pc[u] /\ resp'[u] = resp[u]
           /\ pc[t] \in AtWork \cup {"wait"} /\ pc'[t] \in AtWork \cup {"done"}
BY DEF ProviderTypeOK, ProviderStep, AtWork, Return, Goto, Acquire, MakeDir, CallFails, OpenBlob,
       OpenBlobFails, FlushBlob, OtpRequest, ProvisioningStart, ProvisioningStartFails,
       ProvisioningEnd, ReadBack, ReadBackFails, Cancel

\* Every step inside the provider keeps the part about the calls.
LEMMA CallsStep ==
    ASSUME CallsInv, NEW t \in Threads, ProviderStep(t)
    PROVE  CallsInv'
<1> USE DEF CallsInv
<1>a. /\ req[t] \in Requests
      /\ req[t].op \in {"headers", "start", "end", "cancel"}
      /\ req[t].acct \in Accounts /\ AndroidIdOf[req[t].acct] \in AndroidIds
      /\ req[t].pb \in Contents
      /\ req[t].op = "end" => req[t].session \in Sessions
  BY StepIsOwn, RequestFields DEF CallsKept, AtWork
<1>b. FilesTyped
  BY DEF ProviderTypeOK, FilesTyped
<1>c. PCs = {"idle", "wait", "setup", "act", "flush", "otp", "readback", "done"}
  BY DEF PCs
<1>1. CASE Acquire(t)
  <2>1. \A u \in Threads : pc'[u] = IF u = t THEN (IF req[t].op = "cancel" THEN "act" ELSE "setup")
                                   ELSE pc[u]
    BY <1>1 DEF ProviderTypeOK, Acquire, Goto
  <2>2. ProviderTypeOK'
    BY <1>1, <1>c DEF ProviderTypeOK, Acquire, Goto
  <2>3. CallsKept' /\ OneAtWork' /\ AnswersFit'
    BY <1>1, <2>1, NullAssumption DEF CallsKept, OneAtWork, AnswersFit, AtWork, Acquire
  <2> QED BY <2>2, <2>3
<1>2. CASE MakeDir(t)
  <2>1. FilesTyped'
    <3>1. MakeDirectory(req[t].acct)
      BY <1>2 DEF MakeDir
    <3> QED BY <3>1, <1>a, <1>b, DirTypes DEF MakeDirectory, Ignored, FilesTyped
  <2> QED BY <1>2, <2>1, GotoKeeps DEF MakeDir, AtWork, ProviderTypeOK
<1>3. CASE CallFails(t)
  BY <1>3, <1>b, ReturnKeeps, ResponseTypes, ResponseFields
     DEF CallFails, AtWork, AnswerFits, FilesTyped, ProviderTypeOK
<1>4. CASE OpenBlob(t)
  <2>1. FilesTyped'
    BY <1>4, <1>a, <1>b, WriteTypes DEF OpenBlob, Contents
  <2> QED BY <1>4, <2>1, GotoKeeps DEF OpenBlob, AtWork, ProviderTypeOK
<1>5. CASE OpenBlobFails(t)
  BY <1>5, <1>b, GotoKeeps DEF OpenBlobFails, AtWork, FilesTyped, ProviderTypeOK
<1>6. CASE FlushBlob(t)
  <2>1. FilesTyped'
    <3>1. PICK c \in Arrived(req[t].acct, req[t].pb) : WriteThrough(t, req[t].acct, c)
      BY <1>6 DEF FlushBlob
    <3>2. c \in Contents
      BY <1>a, <1>b, ArrivedTypes
    <3> QED BY <1>a, <1>b, <3>1, <3>2, WriteTypes
  <2>2. req[t].op = "headers"
    BY <1>6 DEF FlushBlob, CallsKept
  <2> QED BY <1>6, <2>1, <2>2, GotoKeeps DEF FlushBlob, AtWork, ProviderTypeOK
<1>7. CASE OtpRequest(t)
  <2>1. req[t].op = "headers"
    BY <1>7 DEF OtpRequest, CallsKept
  <2>2. /\ fs[req[t].acct].pb \in Blobs
        /\ Return(t, HeadersResp(AndroidIdOf[req[t].acct], fs[req[t].acct].pb))
    BY <1>7 DEF OtpRequest
  <2>3. AnswerFits(req[t], HeadersResp(AndroidIdOf[req[t].acct], fs[req[t].acct].pb))
    BY <2>1, <2>2, ResponseFields DEF AnswerFits
  <2>4. HeadersResp(AndroidIdOf[req[t].acct], fs[req[t].acct].pb) \in Responses
    BY <1>a, <2>2, ResponseTypes DEF Contents
  <2> QED BY <1>7, <1>b, <2>2, <2>3, <2>4, ReturnKeeps
          DEF OtpRequest, AtWork, FilesTyped, ProviderTypeOK
<1>8. CASE ProvisioningStart(t)
  <2>1. PICK s \in Sessions \ minted :
           /\ sessions' = sessions \cup {s} /\ minted' = minted \cup {s}
           /\ Return(t, CpimResp(s))
    BY <1>8 DEF ProvisioningStart
  <2>2. AnswerFits(req[t], CpimResp(s)) /\ CpimResp(s) \in Responses
    BY <1>8, ResponseFields, ResponseTypes DEF AnswerFits, ProvisioningStart
  <2> QED BY <1>8, <1>b, <2>1, <2>2, ReturnKeeps
          DEF ProvisioningStart, AtWork, FilesTyped, ProviderTypeOK
<1>9. CASE ProvisioningStartFails(t)
  <2>1. FilesTyped'
    <3>1. RemoveDirectory(req[t].acct)
      BY <1>9 DEF ProvisioningStartFails
    <3> QED BY <3>1, <1>a, <1>b, DirTypes DEF RemoveDirectory, Ignored, FilesTyped
  <2> QED BY <1>9, <2>1, ReturnKeeps, ResponseTypes, ResponseFields
          DEF ProvisioningStartFails, AtWork, AnswerFits, ProviderTypeOK
<1>10. CASE ProvisioningEnd(t)
  <2>1. FilesTyped'
    BY <1>10, <1>a, <1>b DEF ProvisioningEnd, FilesTyped, DirState, Contents, Blobs
  <2> QED BY <1>10, <2>1, GotoKeeps DEF ProvisioningEnd, AtWork, ProviderTypeOK
<1>11. CASE ReadBack(t)
  <2> DEFINE c == fs[req[t].acct].pb
  <2>1. c \in Contents \ {Absent} /\ req[t].op = "end"
    BY <1>11, <1>a, <1>b DEF FilesTyped, DirState, ReadBack, CallsKept
  <2>2. PICK d \in Taken(c) : Return(t, PbResp(d))
    BY <1>11 DEF ReadBack
  <2>3. d \in Contents /\ d \in Blobs \cup {Empty}
    BY <2>1, TakenTypes DEF Contents
  <2>4. PbResp(d) \in Responses /\ AnswerFits(req[t], PbResp(d))
    BY <2>1, <2>3, ResponseTypes, ResponseFields DEF AnswerFits
  <2> QED BY <1>11, <1>b, <2>2, <2>4, ReturnKeeps
          DEF ReadBack, AtWork, FilesTyped, ProviderTypeOK
<1>12. CASE ReadBackFails(t)
  BY <1>12, <1>b, ReturnKeeps, ResponseTypes, ResponseFields
     DEF ReadBackFails, AtWork, AnswerFits, FilesTyped, ProviderTypeOK
<1>13. CASE Cancel(t)
  BY <1>13, <1>b, ReturnKeeps, ResponseTypes, ResponseFields
     DEF Cancel, AtWork, AnswerFits, FilesTyped, ProviderTypeOK
<1> QED BY <1>1, <1>2, <1>3, <1>4, <1>5, <1>6, <1>7, <1>8, <1>9, <1>10, <1>11, <1>12, <1>13
        DEF ProviderStep

\* An open handle, and a write through it, leave the files as they have to be.
LEMMA HandleSane ==
    ASSUME FilesTyped, FilesSane, NEW t \in Threads, NEW a \in Accounts,
           NEW c \in (Contents \ {Absent}) \cup {fs[a].pb},
           OpenForWriting(t, a) \/ WriteThrough(t, a, c)
    PROVE  FilesSane'
<1> USE DEF FilesTyped
<1>a. Empty # Absent
  BY ContentsAssumption
<1>1. CASE OpenForWriting(t, a)
  BY <1>1, <1>a DEF OpenForWriting, FilesSane, DirState
<1>2. CASE WriteThrough(t, a, c) /\ <<t, a>> \in writers
  <2>1. fs[a].dir /\ fs[a].pb # Absent
    BY <1>2 DEF FilesSane, DirState
  <2> QED BY <1>2, <2>1 DEF WriteThrough, FilesSane, DirState
<1>3. CASE WriteThrough(t, a, c) /\ <<t, a>> \notin writers
  BY <1>3 DEF WriteThrough, FilesSane
<1> QED BY <1>1, <1>2, <1>3

\* The files: a step of the provider leaves no directory half made and no handle
\* on a file that is not there.
LEMMA FilesStep ==
    ASSUME ProviderInv, NEW t \in Threads, ProviderStep(t)
    PROVE  FilesSane'
<1> USE DEF ProviderInv, CallsInv
<1>a. /\ req[t].acct \in Accounts /\ req[t].pb \in Contents \ {Absent}
      /\ fs \in [Accounts -> DirState]
      /\ Empty # Absent /\ \A b \in Blobs : b # Absent
  BY StepIsOwn, RequestFields, ContentsAssumption DEF CallsKept, AtWork, ProviderTypeOK
<1>b. NoDir.dir = FALSE /\ NoDir.pb = Absent /\ NoDir.rinfo = NoRinfo
  BY DEF NoDir
<1>1. CASE UNCHANGED <<fs, writers>>
  BY <1>1 DEF FilesSane
<1>2. CASE MakeDir(t)
  <2>1. MakeDirectory(req[t].acct)
    BY <1>2 DEF MakeDir
  <2> QED BY <1>1, <2>1, <1>a DEF MakeDirectory, Ignored, Mkdir, FilesSane, DirState
<1>3. CASE OpenBlob(t)
  BY <1>3, <1>a, HandleSane DEF OpenBlob, FilesTyped, ProviderTypeOK
<1>4. CASE FlushBlob(t)
  <2>1. PICK c \in Arrived(req[t].acct, req[t].pb) : WriteThrough(t, req[t].acct, c)
    BY <1>4 DEF FlushBlob
  <2>2. FilesTyped
    BY DEF FilesTyped, ProviderTypeOK
  <2>3. c \in (Contents \ {Absent}) \cup {fs[req[t].acct].pb}
    BY <1>a, <2>2, ArrivedTypes DEF Contents
  <2> QED BY <1>a, <2>1, <2>2, <2>3, HandleSane
<1>5. CASE ProvisioningStartFails(t)
  <2>1. RemoveDirectory(req[t].acct)
    BY <1>5 DEF ProvisioningStartFails
  <2> QED BY <1>1, <2>1, <1>a, <1>b DEF RemoveDirectory, Ignored, Rmdir, FilesSane
<1>6. CASE ProvisioningEnd(t)
  <2>1. [acct |-> req[t].acct, session |-> req[t].session] \in Blobs
    BY <1>6, <1>a, RequestFields DEF Blobs, ProvisioningEnd, CallsKept, AtWork
  <2> QED BY <1>6, <1>a, <2>1 DEF ProvisioningEnd, FilesSane, DirState
<1> QED BY <1>1, <1>2, <1>3, <1>4, <1>5, <1>6
        DEF ProviderStep, Acquire, CallFails, OpenBlobFails, OtpRequest, ProvisioningStart,
            ReadBack, ReadBackFails, Cancel

LEMMA ProviderStepKeeps ==
    ASSUME ProviderInv, NEW t \in Threads, ProviderStep(t)
    PROVE  ProviderInv'
BY CallsStep, FilesStep DEF ProviderInv, CallsInv

\* The beginning of a call, its end, and the death of the process.
LEMMA InvokeKeeps ==
    ASSUME ProviderInv, NEW t \in Threads, NEW r \in Requests, Invoke(t, r)
    PROVE  ProviderInv'
<1> USE DEF ProviderInv, CallsInv
<1>1. /\ \A u \in Threads : pc'[u] = IF u = t THEN "wait" ELSE pc[u]
      /\ \A u \in Threads : req'[u] = IF u = t THEN r ELSE req[u]
      /\ UNCHANGED <<resp, holder, fs, writers>> /\ pc[t] = "idle"
  BY DEF ProviderTypeOK, Invoke, Goto
<1>2. ProviderTypeOK'
  BY DEF ProviderTypeOK, Invoke, Goto, PCs
<1>3. CallsKept' /\ OneAtWork' /\ AnswersFit'
  BY <1>1 DEF CallsKept, OneAtWork, AnswersFit, AtWork
<1>4. FilesSane'
  BY <1>1 DEF FilesSane
<1> QED BY <1>2, <1>3, <1>4

LEMMA InvokeNullKeeps ==
    ASSUME ProviderInv, NEW t \in Threads, NEW r \in Requests, InvokeNull(t, r)
    PROVE  ProviderInv'
<1> USE DEF ProviderInv, CallsInv
<1>1. /\ \A u \in Threads : pc'[u] = IF u = t THEN "done" ELSE pc[u]
      /\ \A u \in Threads : req'[u] = IF u = t THEN r ELSE req[u]
      /\ \A u \in Threads : resp'[u] = IF u = t THEN ErrorResp ELSE resp[u]
      /\ UNCHANGED <<holder, fs, writers>> /\ pc[t] = "idle"
  BY DEF ProviderTypeOK, InvokeNull, Goto
<1>2. ProviderTypeOK'
  BY ResponseTypes DEF ProviderTypeOK, InvokeNull, Goto, PCs
<1>3. CallsKept' /\ OneAtWork' /\ AnswersFit'
  BY <1>1, ResponseFields DEF CallsKept, OneAtWork, AnswersFit, AnswerFits, AtWork
<1>4. FilesSane'
  BY <1>1 DEF FilesSane
<1> QED BY <1>2, <1>3, <1>4

LEMMA CollectKeeps ==
    ASSUME ProviderInv, NEW t \in Threads, Collect(t)
    PROVE  ProviderInv'
<1> USE DEF ProviderInv, CallsInv
<1>1. /\ \A u \in Threads : pc'[u] = IF u = t THEN "idle" ELSE pc[u]
      /\ \A u \in Threads : req'[u] = IF u = t THEN NoReq ELSE req[u]
      /\ \A u \in Threads : resp'[u] = IF u = t THEN Blank ELSE resp[u]
      /\ UNCHANGED <<holder, fs, writers>> /\ pc[t] = "done"
  BY DEF ProviderTypeOK, Collect, Goto
<1>2. ProviderTypeOK'
  BY ResponseTypes DEF ProviderTypeOK, Collect, Goto, PCs
<1>3. CallsKept' /\ OneAtWork' /\ AnswersFit'
  BY <1>1 DEF CallsKept, OneAtWork, AnswersFit, AtWork
<1>4. FilesSane'
  BY <1>1 DEF FilesSane
<1> QED BY <1>2, <1>3, <1>4

LEMMA CrashKeeps ==
    ASSUME ProviderInv, ProviderCrash
    PROVE  ProviderInv'
<1>1. ProviderTypeOK'
  BY ResponseTypes DEF ProviderInv, CallsInv, ProviderTypeOK, ProviderCrash, PCs
<1>2. CallsKept' /\ OneAtWork' /\ AnswersFit' /\ FilesSane'
  BY NullAssumption DEF ProviderInv, CallsInv, ProviderCrash, CallsKept, OneAtWork, AnswersFit,
     FilesSane, AtWork
<1> QED BY <1>1, <1>2 DEF ProviderInv, CallsInv

\* A change of the files beside the provider keeps it, when it keeps the files.
LEMMA BesideKeeps ==
    ASSUME ProviderInv, UNCHANGED <<pc, req, resp, holder, sessions, minted>>,
           FilesTyped', FilesSane'
    PROVE  ProviderInv'
BY DEF ProviderInv, CallsInv, ProviderTypeOK, FilesTyped, CallsKept, OneAtWork, AnswersFit

LEMMA HostOperationSane ==
    ASSUME FilesTyped, FilesSane, NEW a \in Accounts, NEW r \in Rinfos \cup {NoRinfo},
           \/ RemovePb(a) \/ RemoveRinfo(a) \/ RemoveTree(a) \/ MakeDirectory(a)
           \/ RemoveDirectory(a) \/ WriteRinfo(a, r)
    PROVE  FilesSane'
<1> USE DEF FilesTyped, FilesSane, Ignored
<1>b. NoDir.dir = FALSE /\ NoDir.pb = Absent /\ NoDir.rinfo = NoRinfo
  BY DEF NoDir
<1>1. CASE RemovePb(a)
  BY <1>1, <1>b DEF RemovePb, Unlinked, DirState
<1>2. CASE RemoveRinfo(a)
  BY <1>2, <1>b DEF RemoveRinfo, DirState
<1>3. CASE RemoveTree(a)
  BY <1>3, <1>b DEF RemoveTree, Unlinked, DirState
<1>4. CASE MakeDirectory(a)
  BY <1>4 DEF MakeDirectory, Mkdir, DirState
<1>5. CASE WriteRinfo(a, r)
  BY <1>5 DEF WriteRinfo, DirState
<1>6. CASE RemoveDirectory(a)
  BY <1>6, <1>b DEF RemoveDirectory, Rmdir
<1> QED BY <1>1, <1>2, <1>3, <1>4, <1>5, <1>6

\* The third kind of host step writes adi.pb itself.
LEMMA HostFileSane ==
    ASSUME FilesTyped, FilesSane, HostFileStep
    PROVE  FilesSane'
<1>1. PICK a \in Accounts :
          \/ RemovePb(a) \/ RemoveRinfo(a) \/ RemoveTree(a) \/ MakeDirectory(a)
          \/ \E r \in Rinfos : WriteRinfo(a, r)
          \/ \E c \in [acct : {a}, session : Sessions] \cup {Empty} :
                /\ fs[a].dir
                /\ fs' = [fs EXCEPT ![a].pb = c]
                /\ UNCHANGED writers
  BY DEF HostFileStep
<1>2. ASSUME NEW c \in [acct : {a}, session : Sessions] \cup {Empty}, fs[a].dir,
             fs' = [fs EXCEPT ![a].pb = c], UNCHANGED writers
      PROVE  FilesSane'
  <2>1. c # Absent
    BY ContentsAssumption DEF Blobs
  <2> QED BY <1>2, <2>1 DEF FilesTyped, FilesSane, DirState
<1> QED BY <1>1, <1>2, HostOperationSane

(***************************************************************************)
(* The theorems.                                                           *)
(***************************************************************************)

LEMMA ProviderInvInit == ProviderInit => ProviderInv
<1> SUFFICES ASSUME ProviderInit PROVE ProviderInv
  OBVIOUS
<1>1. \A a \in Accounts : fs[a].pb = Absent /\ fs[a].rinfo = NoRinfo
  BY DEF ProviderInit, NoDir
<1>2. ProviderTypeOK
  BY ResponseTypes DEF ProviderInit, ProviderTypeOK, PCs, NoDir, DirState, Contents
<1>3. CallsKept /\ OneAtWork /\ AnswersFit /\ FilesSane
  BY <1>1, NullAssumption
     DEF ProviderInit, CallsKept, OneAtWork, AnswersFit, FilesSane, AtWork
<1> QED BY <1>2, <1>3 DEF ProviderInv, CallsInv

LEMMA ProviderInvNext == ProviderInv /\ [ProviderNext]_providerVars => ProviderInv'
<1> SUFFICES ASSUME ProviderInv, [ProviderNext]_providerVars PROVE ProviderInv'
  OBVIOUS
<1>a. FilesTyped /\ FilesSane
  BY DEF ProviderInv, CallsInv, ProviderTypeOK, FilesTyped
<1>1. ASSUME NEW t \in Threads, NEW r \in Calls, Invoke(t, r) \/ InvokeNull(t, r)
      PROVE  ProviderInv'
  BY <1>1, CallsAssumption, InvokeKeeps, InvokeNullKeeps
<1>2. ASSUME NEW t \in Threads, Collect(t) \/ ProviderStep(t) PROVE ProviderInv'
  BY <1>2, CollectKeeps, ProviderStepKeeps
<1>3. CASE HostFileStep
  BY <1>3, <1>a, HostFileTypes, HostFileSane, BesideKeeps DEF HostFileStep
<1>4. CASE ProviderCrash
  BY <1>4, CrashKeeps
<1>5. CASE UNCHANGED providerVars
  BY <1>5, <1>a, BesideKeeps DEF providerVars, FilesTyped, FilesSane
<1> QED BY <1>1, <1>2, <1>3, <1>4, <1>5 DEF ProviderNext

\* What an ADI provider promises: the states keep their types, one call at a time
\* is inside the library and it holds the mutex, a call that is over answers with
\* an error or with what was asked, for the hardware identifier of its own
\* account, and no write handle points at a file that is gone.
THEOREM ProviderPromise == ProviderSpec => []ProviderInv
<1> QED BY ProviderInvInit, ProviderInvNext, PTL DEF ProviderSpec
================================================================================
