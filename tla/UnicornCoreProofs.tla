--------------------------- MODULE UnicornCoreProofs ---------------------------
(***************************************************************************)
(* Proofs, for every number of threads, accounts and sessions, that the    *)
(* calls of anisette_core_uc.cpp exclude each other, that each of them is  *)
(* answered for its own caller, that the ADI images are ready when used    *)
(* and kept, and that the whole keeps the promise of AdiProvider.          *)
(***************************************************************************)
EXTENDS UnicornCore, AdiProviderProofs, NatFacts, SequenceTheorems, TLAPS

(***************************************************************************)
(* Facts about the data.                                                   *)
(***************************************************************************)

\* Relocating an image and running its constructors leaves an image.
LEMMA LibCopyType ==
    ASSUME NEW c \in LibCopy
    PROVE  [name |-> c.name, relocated |-> TRUE, ctors |-> c.ctors + 1] \in LibCopy
BY DEF LibCopy

\* Appending an image and relocating all of them keep a sequence of images.
LEMMA LibsTypes ==
    ASSUME NEW s \in Seq(LibCopy)
    PROVE  /\ \A n \in LibNames :
                Append(s, [name |-> n, relocated |-> FALSE, ctors |-> 0]) \in Seq(LibCopy)
           /\ [i \in DOMAIN s |-> [name |-> s[i].name, relocated |-> TRUE, ctors |-> s[i].ctors + 1]]
                \in Seq(LibCopy)
<1>1. ASSUME NEW n \in LibNames
      PROVE  Append(s, [name |-> n, relocated |-> FALSE, ctors |-> 0]) \in Seq(LibCopy)
  <2>1. [name |-> n, relocated |-> FALSE, ctors |-> 0] \in LibCopy
    BY DEF LibCopy
  <2> QED BY <2>1
<1>2. [i \in DOMAIN s |-> [name |-> s[i].name, relocated |-> TRUE, ctors |-> s[i].ctors + 1]] \in Seq(LibCopy)
  <2>1. DOMAIN s = 1..Len(s) /\ Len(s) \in Nat
    OBVIOUS
  <2>2. \A i \in DOMAIN s : [name |-> s[i].name, relocated |-> TRUE, ctors |-> s[i].ctors + 1] \in LibCopy
    <3>1. TAKE i \in DOMAIN s
    <3>2. s[i] \in LibCopy
      BY <2>1, ElementOfSeq
    <3> QED BY <3>2, LibCopyType
  <2>3. [i \in DOMAIN s |-> [name |-> s[i].name, relocated |-> TRUE, ctors |-> s[i].ctors + 1]]
           \in [1..Len(s) -> LibCopy]
    BY <2>1, <2>2
  <2> DEFINE r == [i \in DOMAIN s |-> [name |-> s[i].name, relocated |-> TRUE, ctors |-> s[i].ctors + 1]]
  <2>4. r \in [1..Len(s) -> LibCopy]
    BY <2>3
  <2>5. \A S : Seq(S) = UNION {[1..n -> S] : n \in Nat}
    OBVIOUS
  <2> HIDE DEF r
  <2>6. r \in Seq(LibCopy)
    BY <2>1, <2>4, <2>5
  <2> QED BY <2>6 DEF r
<1> QED BY <1>1, <1>2

(***************************************************************************)
(* Type correctness: one step per action, grouped by the handler.          *)
(***************************************************************************)
\* Before the first call every variable has its type.
LEMMA TypeInit == Init => TypeOK
<1> SUFFICES ASSUME Init PROVE TypeOK
  OBVIOUS
<1> USE DEF Init, ProviderInit
<1>1. /\ pc \in [Threads -> CorePCs]
      /\ req \in [Threads -> Requests \cup {NoReq}]
      /\ holder \in Threads \cup {NoThread}
  BY DEF CorePCs, PCs
<1>2. resp \in [Threads -> Responses]
  BY ResponseTypes
<1>3. fs \in [Accounts -> DirState]
  BY DEF DirState, NoDir, Contents
<1>4. writers \subseteq Threads \X Accounts /\ sessions \subseteq minted /\ minted \subseteq Sessions
  OBVIOUS
<1>5. libs \in Seq(LibCopy)
  BY EmptySeq
<1>6. /\ initialized \in BOOLEAN
      /\ provPath \in Accounts \cup {NoAccount}
      /\ androidId \in AndroidIds \cup {NoAndroid}
      /\ guest \in GuestState
  BY DEF FreshGuest, GuestState
<1> QED BY <1>1, <1>2, <1>3, <1>4, <1>5, <1>6 DEF TypeOK

\* A move inside a call, or out of it with an answer, is well typed.
LEMMA GotoType ==
    ASSUME TypeOK, NEW t \in Threads, NEW l \in CorePCs, Goto(t, l)
    PROVE  pc' \in [Threads -> CorePCs]
BY DEF TypeOK, Goto

\* So is a return with an answer, which gives the mutex back.
LEMMA ReturnType ==
    ASSUME TypeOK, NEW t \in Threads, NEW r \in Responses, Return(t, r)
    PROVE  /\ pc' \in [Threads -> CorePCs]
           /\ resp' \in [Threads -> Responses]
           /\ holder' \in Threads \cup {NoThread}
BY DEF TypeOK, Return, Goto, CorePCs, PCs

\* A crash of the process leads to a typed state.
LEMMA TypeCrash ==
    ASSUME TypeOK, ProviderCrash, VmIsLost
    PROVE  TypeOK'
<1>1. /\ Blank \in Responses
      /\ "idle" \in CorePCs
      /\ FreshGuest \in GuestState
      /\ <<>> \in Seq(LibCopy)
  BY ResponseTypes, EmptySeq DEF CorePCs, PCs, FreshGuest, GuestState
<1> QED BY <1>1 DEF TypeOK, ProviderCrash, VmIsLost

\* Every step of a call keeps the types.
LEMMA TypeCoreStep ==
    ASSUME TypeOK, CallShape, NEW t \in Threads, CoreStep(t)
    PROVE  TypeOK'
<1> USE DEF vmVars
<1>0. /\ Blank \in Responses /\ ErrorResp \in Responses /\ CancelledResp \in Responses
      /\ CorePCs = PCs \cup {"ssc", "coreadi", "relocate", "boot", "mkdir", "path", "android"}
      /\ PCs = {"idle", "wait", "setup", "act", "flush", "otp", "readback", "done"}
  BY ResponseTypes DEF CorePCs, PCs
<1>a. pc[t] # "idle"
  BY DEF CoreStep, TakeMutex, Acquire, Setup, LoadLibrary, LibNames, RelocateAndConstruct,
         Boot, SetupFails, MakeUuidDir, SetPath, SetPathFails, SetAndroid,
         SetAndroidFails, WriteBlobOpen, OpenBlob, WriteBlobSkip, OpenBlobFails,
         WriteBlobClose, FlushBlob, AdiOtpRequest, AdiOtpRequestFails, AdiStart,
         ProvisioningStart, AdiStartFails, ProvisioningStartFails, AdiEnd, ActFails,
         ReadAdiPb, ReadBack, ReadAdiPbFails, ReadBackFails, AdiCancel, Cancel,
         AbortOnExhaustion
<1>b. /\ req[t] \in Requests
      /\ req[t].acct \in Accounts /\ AndroidIdOf[req[t].acct] \in AndroidIds
      /\ req[t].pb \in Contents
      /\ req[t].op = "end" => req[t].session \in Sessions
  BY <1>a, AndroidAssumption DEF CallShape, Requests, Contents
<1>1. CASE TakeMutex(t)
  BY <1>0, <1>1, GotoType DEF TypeOK, TakeMutex, Acquire
<1>2. CASE Setup(t)
  BY <1>0, <1>2, GotoType DEF TypeOK, Setup
<1>3. CASE LoadLibrary(t)
  <2>1. libs' \in Seq(LibCopy)
    BY <1>3, LibsTypes DEF TypeOK, LoadLibrary
  <2> QED BY <1>0, <1>3, <2>1, GotoType DEF TypeOK, LoadLibrary
<1>4. CASE RelocateAndConstruct(t)
  <2>1. libs' \in Seq(LibCopy)
    BY <1>4, LibsTypes DEF TypeOK, RelocateAndConstruct
  <2> QED BY <1>0, <1>4, <2>1, GotoType DEF TypeOK, RelocateAndConstruct
<1>5. CASE Boot(t)
  BY <1>0, <1>5, GotoType DEF TypeOK, Boot
<1>6. CASE SetupFails(t)
  BY <1>0, <1>6, ReturnType DEF TypeOK, SetupFails
<1>7. CASE MakeUuidDir(t)
  <2>1. fs' \in [Accounts -> DirState]
    BY <1>7, <1>b, DirTypes DEF TypeOK, MakeUuidDir, MakeDirectory, Ignored
  <2> QED BY <1>0, <1>7, <2>1, GotoType DEF TypeOK, MakeUuidDir, MakeDirectory, Ignored
<1>8. CASE SetPath(t)
  BY <1>0, <1>b, <1>8, GotoType DEF TypeOK, SetPath, GuestState
<1>9. CASE SetPathFails(t)
  BY <1>0, <1>b, <1>9, ReturnType DEF TypeOK, SetPathFails, GuestState
<1>10. CASE SetAndroid(t)
  BY <1>0, <1>b, <1>10, GotoType DEF TypeOK, SetAndroid, GuestState
<1>11. CASE SetAndroidFails(t)
  BY <1>0, <1>b, <1>11, ReturnType DEF TypeOK, SetAndroidFails, GuestState
<1>12. CASE WriteBlobOpen(t)
  <2>1. fs' \in [Accounts -> DirState] /\ writers' \subseteq Threads \X Accounts
    BY <1>12, <1>b, WriteTypes DEF TypeOK, FilesTyped, WriteBlobOpen, OpenBlob, Contents
  <2> QED BY <1>0, <1>12, <2>1, GotoType DEF TypeOK, WriteBlobOpen, OpenBlob
<1>13. CASE WriteBlobSkip(t)
  BY <1>0, <1>13, GotoType DEF TypeOK, WriteBlobSkip, OpenBlobFails
<1>14. CASE WriteBlobClose(t)
  <2>1. PICK c \in Arrived(req[t].acct, req[t].pb) : WriteThrough(t, req[t].acct, c)
    BY <1>14 DEF WriteBlobClose, FlushBlob
  <2>2. c \in Contents
    BY <1>b DEF TypeOK, Arrived, DirState, Contents
  <2>3. fs' \in [Accounts -> DirState] /\ writers' \subseteq Threads \X Accounts
    BY <2>1, <2>2, <1>b DEF TypeOK, WriteThrough, DirState
  <2> QED BY <1>0, <1>14, <2>3, GotoType DEF TypeOK, WriteBlobClose, FlushBlob
<1>15. CASE AdiOtpRequest(t)
  <2>1. HeadersResp(guest.android, fs[guest.path].pb) \in Responses
    BY <1>15, ResponseTypes DEF TypeOK, AdiOtpRequest, GuestState, Contents
  <2> QED BY <1>15, <2>1, ReturnType DEF TypeOK, AdiOtpRequest
<1>16. CASE AdiOtpRequestFails(t)
  BY <1>0, <1>16, ReturnType DEF TypeOK, AdiOtpRequestFails
<1>17. CASE AdiStart(t)
  BY <1>17, ResponseTypes, ReturnType DEF TypeOK, AdiStart, ProvisioningStart
<1>18. CASE AdiStartFails(t)
  <2>1. fs' \in [Accounts -> DirState]
    BY <1>18, <1>b, DirTypes DEF TypeOK, AdiStartFails, ProvisioningStartFails,
       RemoveDirectory, Ignored
  <2> QED BY <1>0, <1>18, <2>1, ReturnType DEF TypeOK, AdiStartFails, ProvisioningStartFails,
          RemoveDirectory, Ignored
<1>19. CASE AdiEnd(t)
  <2>1. fs' \in [Accounts -> DirState]
    BY <1>19, <1>b DEF TypeOK, AdiEnd, DirState, Contents, Blobs
  <2> QED BY <1>0, <1>19, <2>1, GotoType DEF TypeOK, AdiEnd
<1>20. CASE ActFails(t)
  BY <1>0, <1>20, ReturnType DEF TypeOK, ActFails
<1>21. CASE ReadAdiPb(t)
  <2>1. PICK c \in Taken(fs[req[t].acct].pb) : Return(t, PbResp(c))
    BY <1>21 DEF ReadAdiPb, ReadBack
  <2>2. PbResp(c) \in Responses
    BY <1>b, ResponseTypes DEF TypeOK, DirState, Taken, Contents
  <2> QED BY <1>21, <2>1, <2>2, ReturnType DEF TypeOK, ReadAdiPb, ReadBack
<1>22. CASE ReadAdiPbFails(t)
  BY <1>0, <1>22, ReturnType DEF TypeOK, ReadAdiPbFails, ReadBackFails
<1>23. CASE AdiCancel(t)
  BY <1>0, <1>23, ReturnType DEF TypeOK, AdiCancel, Cancel
<1>24. CASE AbortOnExhaustion(t)
  BY <1>24, TypeCrash DEF AbortOnExhaustion
<1> QED
  BY <1>1, <1>2, <1>3, <1>4, <1>5, <1>6, <1>7, <1>8, <1>9, <1>10, <1>11, <1>12,
     <1>13, <1>14, <1>15, <1>16, <1>17, <1>18, <1>19, <1>20, <1>21, <1>22, <1>23,
     <1>24 DEF CoreStep

\* Every step, a call's or the environment's, keeps the types.
LEMMA TypeNext ==
    ASSUME TypeOK, CallShape, [Next]_vars
    PROVE  TypeOK'
<1> USE DEF vmVars
<1>1. ASSUME NEW t \in Threads, CallBegins(t) PROVE TypeOK'
  <2>1. PICK r \in Calls : Invoke(t, r) \/ InvokeNull(t, r)
    BY <1>1 DEF CallBegins
  <2>2. r \in Requests /\ ErrorResp \in Responses
    BY CallsAssumption, ResponseTypes
  <2>3. CASE Invoke(t, r)
    BY <1>1, <2>2, <2>3 DEF TypeOK, CallBegins, Invoke, Goto, CorePCs, PCs
  <2>4. CASE InvokeNull(t, r)
    BY <1>1, <2>2, <2>4 DEF TypeOK, CallBegins, InvokeNull, Goto, CorePCs, PCs
  <2> QED BY <2>1, <2>3, <2>4
<1>2. ASSUME NEW t \in Threads, CallCollected(t) PROVE TypeOK'
  BY <1>2, ResponseTypes DEF TypeOK, CallCollected, Collect, Goto, CorePCs, PCs
<1>3. ASSUME NEW t \in Threads, CoreStep(t) PROVE TypeOK'
  BY <1>3, TypeCoreStep
<1>4. CASE FilesChange
  BY <1>4, HostFileTypes DEF TypeOK, FilesTyped, FilesChange, HostFileStep
<1>5. CASE Crash
  BY <1>5, TypeCrash DEF Crash
<1>6. CASE UNCHANGED vars
  BY <1>6 DEF TypeOK, vars, providerVars
<1> QED BY <1>1, <1>2, <1>3, <1>4, <1>5, <1>6 DEF Next

\* A call in progress keeps its request and stays unanswered until it returns.
LEMMA ShapeCoreStep ==
    ASSUME TypeOK, CallShape, NEW t \in Threads, CoreStep(t)
    PROVE  CallShape'
<1> USE DEF vmVars, TypeOK, CallShape, Locked, CorePCs, PCs, Goto, Return
<1>1. CASE TakeMutex(t)
  BY <1>1 DEF TakeMutex, Acquire
<1>2. CASE Setup(t)
  BY <1>2 DEF Setup
<1>3. CASE LoadLibrary(t)
  BY <1>3 DEF LoadLibrary, LibNames
<1>4. CASE RelocateAndConstruct(t)
  BY <1>4 DEF RelocateAndConstruct
<1>5. CASE Boot(t)
  BY <1>5 DEF Boot
<1>6. CASE SetupFails(t)
  BY <1>6 DEF SetupFails, LibNames
<1>7. CASE MakeUuidDir(t)
  BY <1>7 DEF MakeUuidDir
<1>8. CASE SetPath(t)
  BY <1>8 DEF SetPath
<1>9. CASE SetPathFails(t)
  BY <1>9 DEF SetPathFails
<1>10. CASE SetAndroid(t)
  BY <1>10 DEF SetAndroid
<1>11. CASE SetAndroidFails(t)
  BY <1>11 DEF SetAndroidFails
<1>12. CASE WriteBlobOpen(t)
  BY <1>12 DEF WriteBlobOpen, OpenBlob
<1>13. CASE WriteBlobSkip(t)
  BY <1>13 DEF WriteBlobSkip, OpenBlobFails
<1>14. CASE WriteBlobClose(t)
  BY <1>14 DEF WriteBlobClose, FlushBlob
<1>15. CASE AdiOtpRequest(t)
  BY <1>15 DEF AdiOtpRequest
<1>16. CASE AdiOtpRequestFails(t)
  BY <1>16 DEF AdiOtpRequestFails
<1>17. CASE AdiStart(t)
  BY <1>17 DEF AdiStart, ProvisioningStart
<1>18. CASE AdiStartFails(t)
  BY <1>18 DEF AdiStartFails, ProvisioningStartFails
<1>19. CASE AdiEnd(t)
  BY <1>19 DEF AdiEnd
<1>20. CASE ActFails(t)
  BY <1>20 DEF ActFails
<1>21. CASE ReadAdiPb(t)
  BY <1>21 DEF ReadAdiPb, ReadBack
<1>22. CASE ReadAdiPbFails(t)
  BY <1>22 DEF ReadAdiPbFails, ReadBackFails
<1>23. CASE AdiCancel(t)
  BY <1>23 DEF AdiCancel, Cancel
<1>24. CASE AbortOnExhaustion(t)
  BY <1>24 DEF AbortOnExhaustion, ProviderCrash, VmIsLost
<1> QED
  BY <1>1, <1>2, <1>3, <1>4, <1>5, <1>6, <1>7, <1>8, <1>9, <1>10,
     <1>11, <1>12, <1>13, <1>14, <1>15, <1>16, <1>17, <1>18, <1>19, <1>20,
     <1>21, <1>22, <1>23, <1>24 DEF CoreStep

\* The mutex is taken on the way in and given back on every return.
LEMMA MutexCoreStep ==
    ASSUME TypeOK, MutexHeld, NEW t \in Threads, CoreStep(t)
    PROVE  MutexHeld'
<1> USE DEF vmVars, TypeOK, MutexHeld, Locked, CorePCs, PCs, Goto, Return
<1> NoThread \notin Threads
  BY NullAssumption
<1>1. CASE TakeMutex(t)
  BY <1>1 DEF TakeMutex, Acquire
<1>2. CASE Setup(t)
  BY <1>2 DEF Setup
<1>3. CASE LoadLibrary(t)
  BY <1>3 DEF LoadLibrary, LibNames
<1>4. CASE RelocateAndConstruct(t)
  BY <1>4 DEF RelocateAndConstruct
<1>5. CASE Boot(t)
  BY <1>5 DEF Boot
<1>6. CASE SetupFails(t)
  BY <1>6 DEF SetupFails, LibNames
<1>7. CASE MakeUuidDir(t)
  BY <1>7 DEF MakeUuidDir
<1>8. CASE SetPath(t)
  BY <1>8 DEF SetPath
<1>9. CASE SetPathFails(t)
  BY <1>9 DEF SetPathFails
<1>10. CASE SetAndroid(t)
  BY <1>10 DEF SetAndroid
<1>11. CASE SetAndroidFails(t)
  BY <1>11 DEF SetAndroidFails
<1>12. CASE WriteBlobOpen(t)
  BY <1>12 DEF WriteBlobOpen, OpenBlob
<1>13. CASE WriteBlobSkip(t)
  BY <1>13 DEF WriteBlobSkip, OpenBlobFails
<1>14. CASE WriteBlobClose(t)
  BY <1>14 DEF WriteBlobClose, FlushBlob
<1>15. CASE AdiOtpRequest(t)
  BY <1>15 DEF AdiOtpRequest
<1>16. CASE AdiOtpRequestFails(t)
  BY <1>16 DEF AdiOtpRequestFails
<1>17. CASE AdiStart(t)
  BY <1>17 DEF AdiStart, ProvisioningStart
<1>18. CASE AdiStartFails(t)
  BY <1>18 DEF AdiStartFails, ProvisioningStartFails
<1>19. CASE AdiEnd(t)
  BY <1>19 DEF AdiEnd
<1>20. CASE ActFails(t)
  BY <1>20 DEF ActFails
<1>21. CASE ReadAdiPb(t)
  BY <1>21 DEF ReadAdiPb, ReadBack
<1>22. CASE ReadAdiPbFails(t)
  BY <1>22 DEF ReadAdiPbFails, ReadBackFails
<1>23. CASE AdiCancel(t)
  BY <1>23 DEF AdiCancel, Cancel
<1>24. CASE AbortOnExhaustion(t)
  BY <1>24 DEF AbortOnExhaustion, ProviderCrash, VmIsLost
<1> QED
  BY <1>1, <1>2, <1>3, <1>4, <1>5, <1>6, <1>7, <1>8, <1>9, <1>10,
     <1>11, <1>12, <1>13, <1>14, <1>15, <1>16, <1>17, <1>18, <1>19, <1>20,
     <1>21, <1>22, <1>23, <1>24 DEF CoreStep

\* The cache and the library change together, and only for the call that holds
\* the mutex.
LEMMA CacheCoreStep ==
    ASSUME TypeOK, CallShape, MutexHeld, CacheCoherent, CacheIsCallers, NEW t \in Threads, CoreStep(t)
    PROVE  CacheCoherent' /\ CacheIsCallers'
<1> USE DEF vmVars, TypeOK, CallShape, MutexHeld, CacheCoherent, CacheIsCallers, Locked, CorePCs,
         PCs, Goto, Return, Requests, FreshGuest
<1> NoThread \notin Threads
  BY NullAssumption
<1>1. CASE TakeMutex(t)
  BY <1>1 DEF TakeMutex, Acquire
<1>2. CASE Setup(t)
  BY <1>2 DEF Setup
<1>3. CASE LoadLibrary(t)
  BY <1>3 DEF LoadLibrary, LibNames
<1>4. CASE RelocateAndConstruct(t)
  BY <1>4 DEF RelocateAndConstruct
<1>5. CASE Boot(t)
  BY <1>5 DEF Boot
<1>6. CASE SetupFails(t)
  BY <1>6 DEF SetupFails, LibNames
<1>7. CASE MakeUuidDir(t)
  BY <1>7 DEF MakeUuidDir
<1>8. CASE SetPath(t)
  BY <1>8 DEF SetPath
<1>9. CASE SetPathFails(t)
  BY <1>9 DEF SetPathFails
<1>10. CASE SetAndroid(t)
  BY <1>10 DEF SetAndroid
<1>11. CASE SetAndroidFails(t)
  BY <1>11 DEF SetAndroidFails
<1>12. CASE WriteBlobOpen(t)
  BY <1>12 DEF WriteBlobOpen, OpenBlob
<1>13. CASE WriteBlobSkip(t)
  BY <1>13 DEF WriteBlobSkip, OpenBlobFails
<1>14. CASE WriteBlobClose(t)
  BY <1>14 DEF WriteBlobClose, FlushBlob
<1>15. CASE AdiOtpRequest(t)
  BY <1>15 DEF AdiOtpRequest
<1>16. CASE AdiOtpRequestFails(t)
  BY <1>16 DEF AdiOtpRequestFails
<1>17. CASE AdiStart(t)
  BY <1>17 DEF AdiStart, ProvisioningStart
<1>18. CASE AdiStartFails(t)
  BY <1>18 DEF AdiStartFails, ProvisioningStartFails
<1>19. CASE AdiEnd(t)
  BY <1>19 DEF AdiEnd
<1>20. CASE ActFails(t)
  BY <1>20 DEF ActFails
<1>21. CASE ReadAdiPb(t)
  BY <1>21 DEF ReadAdiPb, ReadBack
<1>22. CASE ReadAdiPbFails(t)
  BY <1>22 DEF ReadAdiPbFails, ReadBackFails
<1>23. CASE AdiCancel(t)
  BY <1>23 DEF AdiCancel, Cancel
<1>24. CASE AbortOnExhaustion(t)
  BY <1>24 DEF AbortOnExhaustion, ProviderCrash, VmIsLost
<1> QED
  BY <1>1, <1>2, <1>3, <1>4, <1>5, <1>6, <1>7, <1>8, <1>9, <1>10,
     <1>11, <1>12, <1>13, <1>14, <1>15, <1>16, <1>17, <1>18, <1>19, <1>20,
     <1>21, <1>22, <1>23, <1>24 DEF CoreStep

\* A one-time password is answered with the Android id the library was given for
\* this very call.
LEMMA AnswerCoreStep ==
    ASSUME IndInv, NEW t \in Threads, CoreStep(t)
    PROVE  AnsweredForCaller'
<1> USE DEF vmVars, IndInv, TypeOK, CallShape, MutexHeld, CacheCoherent, CacheIsCallers, AnsweredForCaller,
         Locked, CorePCs, PCs, Goto, Return, Requests, FreshGuest, HeadersResp, CpimResp,
         PbResp, ErrorResp, CancelledResp, Blank
<1>1. CASE TakeMutex(t)
  BY <1>1 DEF TakeMutex, Acquire
<1>2. CASE Setup(t)
  BY <1>2 DEF Setup
<1>3. CASE LoadLibrary(t)
  BY <1>3 DEF LoadLibrary, LibNames
<1>4. CASE RelocateAndConstruct(t)
  BY <1>4 DEF RelocateAndConstruct
<1>5. CASE Boot(t)
  BY <1>5 DEF Boot
<1>6. CASE SetupFails(t)
  BY <1>6 DEF SetupFails, LibNames
<1>7. CASE MakeUuidDir(t)
  BY <1>7 DEF MakeUuidDir
<1>8. CASE SetPath(t)
  BY <1>8 DEF SetPath
<1>9. CASE SetPathFails(t)
  BY <1>9 DEF SetPathFails
<1>10. CASE SetAndroid(t)
  BY <1>10 DEF SetAndroid
<1>11. CASE SetAndroidFails(t)
  BY <1>11 DEF SetAndroidFails
<1>12. CASE WriteBlobOpen(t)
  BY <1>12 DEF WriteBlobOpen, OpenBlob
<1>13. CASE WriteBlobSkip(t)
  BY <1>13 DEF WriteBlobSkip, OpenBlobFails
<1>14. CASE WriteBlobClose(t)
  BY <1>14 DEF WriteBlobClose, FlushBlob
<1>15. CASE AdiOtpRequest(t)
  BY <1>15 DEF AdiOtpRequest
<1>16. CASE AdiOtpRequestFails(t)
  BY <1>16 DEF AdiOtpRequestFails
<1>17. CASE AdiStart(t)
  BY <1>17 DEF AdiStart, ProvisioningStart
<1>18. CASE AdiStartFails(t)
  BY <1>18 DEF AdiStartFails, ProvisioningStartFails
<1>19. CASE AdiEnd(t)
  BY <1>19 DEF AdiEnd
<1>20. CASE ActFails(t)
  BY <1>20 DEF ActFails
<1>21. CASE ReadAdiPb(t)
  BY <1>21 DEF ReadAdiPb, ReadBack
<1>22. CASE ReadAdiPbFails(t)
  BY <1>22 DEF ReadAdiPbFails, ReadBackFails
<1>23. CASE AdiCancel(t)
  BY <1>23 DEF AdiCancel, Cancel
<1>24. CASE AbortOnExhaustion(t)
  BY <1>24 DEF AbortOnExhaustion, ProviderCrash, VmIsLost
<1> QED
  BY <1>1, <1>2, <1>3, <1>4, <1>5, <1>6, <1>7, <1>8, <1>9, <1>10,
     <1>11, <1>12, <1>13, <1>14, <1>15, <1>16, <1>17, <1>18, <1>19, <1>20,
     <1>21, <1>22, <1>23, <1>24 DEF CoreStep

(***************************************************************************)
(* The inductive invariant: initially, and over every step.                *)
(***************************************************************************)
\* Before the first call the cache is empty and so is the library's memory of it.
LEMMA IndInvInit == Init => IndInv
<1> SUFFICES ASSUME Init PROVE IndInv
  OBVIOUS
<1>1. TypeOK
  BY TypeInit
<1>2. CallShape /\ MutexHeld
  BY NullAssumption DEF Init, ProviderInit, CallShape, MutexHeld, Locked, CorePCs, PCs
<1>3. CacheCoherent /\ CacheIsCallers /\ AnsweredForCaller
  BY DEF Init, ProviderInit, CacheCoherent, CacheIsCallers, AnsweredForCaller, FreshGuest, Blank
<1> QED BY <1>1, <1>2, <1>3 DEF IndInv

\* No step of a call, no change of the files and no crash breaks the invariant.
LEMMA IndInvNext == IndInv /\ [Next]_vars => IndInv'
<1> SUFFICES ASSUME IndInv, [Next]_vars PROVE IndInv'
  OBVIOUS
<1>1. TypeOK'
  BY TypeNext DEF IndInv
<1> DEFINE Rest == /\ CallShape /\ MutexHeld
                   /\ CacheCoherent /\ CacheIsCallers /\ AnsweredForCaller
<1>2. Rest'
  <2> USE DEF IndInv, vmVars
  <2>1. ASSUME NEW t \in Threads, CallBegins(t) PROVE Rest'
    <3>1. PICK r \in Requests : Invoke(t, r) \/ InvokeNull(t, r)
      BY <2>1, CallsAssumption DEF CallBegins
    <3>2. CASE Invoke(t, r)
      BY <2>1, <3>1, <3>2 DEF TypeOK, CallShape, MutexHeld, CacheCoherent, CacheIsCallers,
         AnsweredForCaller, CallBegins, Invoke, Goto, Locked, CorePCs, PCs, Blank
    <3>3. CASE InvokeNull(t, r)
      BY <2>1, <3>1, <3>3 DEF TypeOK, CallShape, MutexHeld, CacheCoherent, CacheIsCallers,
         AnsweredForCaller, CallBegins, InvokeNull, Goto, Locked, CorePCs, PCs, ErrorResp, Blank
    <3> QED BY <3>1, <3>2, <3>3
  <2>2. ASSUME NEW t \in Threads, CallCollected(t) PROVE Rest'
    BY <2>2 DEF TypeOK, CallShape, MutexHeld, CacheCoherent, CacheIsCallers,
       AnsweredForCaller, CallCollected, Collect, Goto, Locked, CorePCs, PCs, Blank
  <2>3. ASSUME NEW t \in Threads, CoreStep(t) PROVE Rest'
    BY <2>3, ShapeCoreStep, MutexCoreStep, CacheCoreStep, AnswerCoreStep
  <2>4. CASE FilesChange
    BY <2>4 DEF CallShape, MutexHeld, CacheCoherent, CacheIsCallers, AnsweredForCaller,
       FilesChange, HostFileStep
  <2>5. CASE Crash
    BY <2>5, NullAssumption DEF CallShape, MutexHeld, CacheCoherent, CacheIsCallers,
       AnsweredForCaller, Crash, ProviderCrash, VmIsLost, FreshGuest, Locked, CorePCs, PCs, Blank
  <2>6. CASE UNCHANGED vars
    BY <2>6 DEF CallShape, MutexHeld, CacheCoherent, CacheIsCallers, AnsweredForCaller,
       vars, providerVars
  <2> QED BY <2>1, <2>2, <2>3, <2>4, <2>5, <2>6 DEF Next
<1> QED BY <1>1, <1>2 DEF IndInv

\* The inductive invariant holds throughout.
THEOREM IndInvHolds == Spec => []IndInv
<1>1. Init => IndInv
  BY IndInvInit
<1>2. IndInv /\ [Next]_vars => IndInv'
  BY IndInvNext
<1> QED BY <1>1, <1>2, PTL DEF Spec

(***************************************************************************)
(* What follows from it.                                                   *)
(***************************************************************************)
\* Every variable always has its type.
THEOREM TypeCorrect == Spec => []TypeOK
<1>1. IndInv => TypeOK
  BY DEF IndInv
<1> QED BY <1>1, IndInvHolds, PTL

\* The four C functions exclude each other, and none returns with g_vm_mutex.
THEOREM MutualExclusion == Spec => []MutexHeld
<1>1. IndInv => MutexHeld
  BY DEF IndInv
<1> QED BY <1>1, IndInvHolds, PTL

\* Skipping ADISetProvisioningPath and ADISetAndroidID on a cache hit is sound: the
\* cached values are what the library believes, whichever calls failed before.
THEOREM CacheSound == Spec => []CacheCoherent
<1>1. IndInv => CacheCoherent
  BY DEF IndInv
<1> QED BY <1>1, IndInvHolds, PTL

\* While a call works, the library is set to the caller's directory and id.
THEOREM AccountSelected == Spec => []SelectedAtUse
<1>1. IndInv => SelectedAtUse
  BY DEF IndInv, CacheCoherent, CacheIsCallers, SelectedAtUse
<1> QED BY <1>1, IndInvHolds, PTL

\* No caller is given a one-time password of another account's identifier.
THEOREM AnswersAreCallers == Spec => []AnsweredForCaller
<1>1. IndInv => AnsweredForCaller
  BY DEF IndInv
<1> QED BY <1>1, IndInvHolds, PTL

(***************************************************************************)
(* The images.  While a call loads them nothing runs; from the relocation  *)
(* on, every image of the VM is relocated and constructed, because both    *)
(* loops go over all of them and no call loads more once one succeeded.    *)
(***************************************************************************)
AllReady == \A i \in DOMAIN libs : libs[i].relocated /\ libs[i].ctors > 0

ReadyInv ==
    /\ initialized => AllReady /\ \A t \in Threads : pc[t] \notin LibNames \cup {"relocate"}
    /\ \A t \in Threads : pc[t] = "boot" => AllReady

\* A step that does not enter the loading and leaves the images alone.
LEMMA ReadyElsewhere ==
    ASSUME TypeOK, ReadyInv, NEW t \in Threads, UNCHANGED <<libs, initialized>>,
           NEW l \in CorePCs \ (LibNames \cup {"relocate", "boot"}), Goto(t, l)
    PROVE  ReadyInv'
<1>1. AllReady' <=> AllReady
  BY DEF AllReady
<1>2. \A u \in Threads : pc'[u] = (IF u = t THEN l ELSE pc[u])
  BY DEF TypeOK, Goto
<1>3. QED
  BY <1>1, <1>2 DEF ReadyInv

LEMMA ReadyCoreStep ==
    ASSUME TypeOK, MutexHeld, ReadyInv, NEW t \in Threads, CoreStep(t)
    PROVE  ReadyInv'
<1> USE DEF LibNames
<1>a. CorePCs = {"idle", "wait", "setup", "act", "flush", "otp", "readback", "done",
                 "ssc", "coreadi", "relocate", "boot", "mkdir", "path", "android"}
  BY DEF CorePCs, PCs
<1>b. ASSUME pc[t] \in {"ssc", "coreadi", "relocate", "boot"}
      PROVE  \A u \in Threads \ {t} : pc[u] \notin {"ssc", "coreadi", "relocate", "boot"}
  BY <1>a, <1>b DEF MutexHeld, Locked
<1>1. CASE Setup(t)
  <2>1. UNCHANGED <<libs, initialized>> /\ Goto(t, IF initialized THEN "mkdir" ELSE "ssc")
    BY <1>1 DEF Setup, vmVars
  <2>2. CASE initialized
    BY <1>a, <2>1, <2>2, ReadyElsewhere
  <2>3. CASE ~initialized
    <3>1. \A u \in Threads : pc'[u] = (IF u = t THEN "ssc" ELSE pc[u])
      BY <2>1, <2>3 DEF TypeOK, Goto
    <3>2. QED
      BY <2>1, <2>3, <3>1 DEF ReadyInv, AllReady
  <2>4. QED
    BY <2>2, <2>3
<1>2. CASE LoadLibrary(t)
  <2>1. /\ pc[t] \in LibNames /\ UNCHANGED initialized
        /\ pc'[t] \in {"coreadi", "relocate"} /\ \A u \in Threads \ {t} : pc'[u] = pc[u]
    BY <1>2 DEF LoadLibrary, Goto, TypeOK
  <2>2. ~initialized
    BY <2>1 DEF ReadyInv
  <2>3. \A u \in Threads : pc'[u] # "boot"
    BY <1>b, <2>1
  <2>4. QED
    BY <2>1, <2>2, <2>3 DEF ReadyInv
<1>3. CASE RelocateAndConstruct(t)
  <2>1. /\ pc[t] = "relocate" /\ UNCHANGED initialized
        /\ libs' = [i \in DOMAIN libs |->
                      [name |-> libs[i].name, relocated |-> TRUE, ctors |-> libs[i].ctors + 1]]
    BY <1>3 DEF RelocateAndConstruct
  <2>2. libs \in Seq(LibCopy)
    BY DEF TypeOK
  <2>3. ASSUME NEW i \in DOMAIN libs PROVE libs[i].ctors \in Nat
    <3>1. DOMAIN libs = 1..Len(libs)
      BY <2>2
    <3>2. libs[i] \in LibCopy
      BY <2>2, <3>1, ElementOfSeq
    <3>3. QED
      BY <3>2 DEF LibCopy
  <2>4. AllReady'
    BY <2>1, <2>3 DEF AllReady
  <2>5. ~initialized
    BY <2>1 DEF ReadyInv
  <2>6. QED
    BY <2>1, <2>4, <2>5 DEF ReadyInv
<1>4. CASE Boot(t)
  <2>1. /\ pc[t] = "boot" /\ libs' = libs
        /\ \A u \in Threads : pc'[u] = (IF u = t THEN "mkdir" ELSE pc[u])
    BY <1>4 DEF Boot, Goto, TypeOK
  <2>2. AllReady'
    BY <2>1 DEF ReadyInv, AllReady
  <2>3. QED
    BY <1>b, <2>1, <2>2 DEF ReadyInv
<1>5. CASE AbortOnExhaustion(t)
  BY <1>5 DEF AbortOnExhaustion, ProviderCrash, VmIsLost, ReadyInv
<1>6. ASSUME              \/ TakeMutex(t) \/ SetupFails(t) \/ MakeUuidDir(t)
             \/ SetPath(t) \/ SetPathFails(t) \/ SetAndroid(t)
             \/ SetAndroidFails(t) \/ WriteBlobOpen(t) \/ WriteBlobSkip(t)
             \/ WriteBlobClose(t) \/ AdiOtpRequest(t) \/ AdiOtpRequestFails(t)
             \/ AdiStart(t) \/ AdiStartFails(t) \/ AdiEnd(t)
             \/ ActFails(t) \/ ReadAdiPb(t) \/ ReadAdiPbFails(t)
             \/ AdiCancel(t)
      PROVE  ReadyInv'
  <2>1. UNCHANGED <<libs, initialized>>
    BY <1>6 DEF vmVars, TakeMutex, Acquire, SetupFails, MakeUuidDir, SetPath, SetPathFails,
         SetAndroid, SetAndroidFails, WriteBlobOpen, OpenBlob,
         WriteBlobSkip, OpenBlobFails, WriteBlobClose, FlushBlob,
         AdiOtpRequest, AdiOtpRequestFails, AdiStart, ProvisioningStart,
         AdiStartFails, ProvisioningStartFails, AdiEnd, ActFails,
         ReadAdiPb, ReadBack, ReadAdiPbFails, ReadBackFails, AdiCancel,
         Cancel
  <2>2. \E l \in {"setup", "act", "flush", "otp", "readback", "done", "path", "android"} :
           Goto(t, l)
    BY <1>6 DEF Return, TakeMutex, Acquire, SetupFails, MakeUuidDir, SetPath, SetPathFails,
         SetAndroid, SetAndroidFails, WriteBlobOpen, OpenBlob,
         WriteBlobSkip, OpenBlobFails, WriteBlobClose, FlushBlob,
         AdiOtpRequest, AdiOtpRequestFails, AdiStart, ProvisioningStart,
         AdiStartFails, ProvisioningStartFails, AdiEnd, ActFails,
         ReadAdiPb, ReadBack, ReadAdiPbFails, ReadBackFails, AdiCancel,
         Cancel
  <2>3. QED
    BY <1>a, <2>1, <2>2, ReadyElsewhere
<1>7. QED
  BY <1>1, <1>2, <1>3, <1>4, <1>5, <1>6 DEF CoreStep

LEMMA ReadyNext == IndInv /\ ReadyInv /\ [Next]_vars => ReadyInv'
<1> SUFFICES ASSUME IndInv, ReadyInv, [Next]_vars PROVE ReadyInv'
  OBVIOUS
<1>a. TypeOK /\ MutexHeld
  BY DEF IndInv
<1>b. {"wait", "done", "idle"} \subseteq CorePCs \ (LibNames \cup {"relocate", "boot"})
  BY DEF CorePCs, PCs, LibNames
<1>1. ASSUME NEW t \in Threads, CallBegins(t) PROVE ReadyInv'
  <2>1. /\ UNCHANGED <<libs, initialized>>
        /\ Goto(t, "wait") \/ Goto(t, "done")
    BY <1>1 DEF CallBegins, Invoke, InvokeNull, vmVars
  <2>2. QED
    BY <1>a, <1>b, <2>1, ReadyElsewhere
<1>2. ASSUME NEW t \in Threads, CallCollected(t) PROVE ReadyInv'
  BY <1>a, <1>b, <1>2, ReadyElsewhere DEF CallCollected, Collect, vmVars
<1>3. ASSUME NEW t \in Threads, CoreStep(t) PROVE ReadyInv'
  BY <1>a, <1>3, ReadyCoreStep
<1>4. CASE FilesChange \/ UNCHANGED vars
  BY <1>4 DEF FilesChange, HostFileStep, vars, providerVars, vmVars, ReadyInv, AllReady
<1>5. CASE Crash
  BY <1>5 DEF Crash, ProviderCrash, VmIsLost, ReadyInv
<1>6. QED
  BY <1>1, <1>2, <1>3, <1>4, <1>5 DEF Next

(***************************************************************************)
(* What a call does after the setup it does in an initialized VM, and only *)
(* there are sessions opened; a cancel goes on without a setup.            *)
(***************************************************************************)
UsedInv ==
    /\ \A t \in Threads :
          /\ pc[t] \in {"mkdir", "path", "android", "act", "flush", "otp", "readback"}
          /\ req[t].op # "cancel"
          => initialized
    /\ ~initialized => sessions = {}

\* A step of one call that opens no session.
LEMMA UsedElsewhere ==
    ASSUME TypeOK, UsedInv, NEW t \in Threads, NEW l, Goto(t, l), req' = req,
           initialized' = initialized, sessions' \subseteq sessions,
           \/ l \in {"wait", "ssc", "coreadi", "relocate", "boot", "setup", "done"}
           \/ req[t].op = "cancel"
           \/ initialized
    PROVE  UsedInv'
<1>1. \A u \in Threads : pc'[u] = (IF u = t THEN l ELSE pc[u])
  BY DEF TypeOK, Goto
<1> QED BY <1>1 DEF UsedInv

LEMMA UsedCoreStep ==
    ASSUME IndInv, UsedInv, NEW t \in Threads, CoreStep(t)
    PROVE  UsedInv'
<1>a. TypeOK /\ CallShape
  BY DEF IndInv
<1>b. /\ pc[t] \in {"mkdir", "path", "android", "flush", "otp", "readback"} => initialized
      /\ pc[t] = "act" /\ req[t].op # "cancel" => initialized
  BY <1>a DEF CallShape, Locked, CorePCs, PCs, UsedInv
<1>1. CASE TakeMutex(t) \/ Setup(t) \/ LoadLibrary(t) \/ RelocateAndConstruct(t)
  BY <1>a, <1>1, UsedElsewhere
     DEF TakeMutex, Acquire, Setup, LoadLibrary, RelocateAndConstruct, vmVars
<1>2. CASE Boot(t)
  BY <1>2 DEF Boot, UsedInv
<1>3. CASE \/ SetupFails(t) \/ SetPathFails(t) \/ SetAndroidFails(t)
           \/ AdiOtpRequest(t) \/ AdiOtpRequestFails(t) \/ AdiStartFails(t)
           \/ ActFails(t) \/ ReadAdiPb(t) \/ ReadAdiPbFails(t) \/ AdiCancel(t)
  <2>1. /\ Goto(t, "done") /\ req' = req
        /\ initialized' = initialized /\ sessions' \subseteq sessions
    BY <1>3 DEF SetupFails, SetPathFails, SetAndroidFails, AdiOtpRequest, AdiOtpRequestFails,
       AdiStartFails, ProvisioningStartFails, ActFails, ReadAdiPb, ReadBack, ReadAdiPbFails,
       ReadBackFails, AdiCancel, Cancel, Return, vmVars
  <2> QED BY <1>a, <2>1, UsedElsewhere
<1>4. CASE \/ MakeUuidDir(t) \/ SetPath(t) \/ SetAndroid(t) \/ WriteBlobOpen(t)
           \/ WriteBlobSkip(t) \/ WriteBlobClose(t) \/ AdiEnd(t)
  <2>1. /\ \E l \in {"path", "android", "act", "flush", "otp", "readback"} : Goto(t, l)
        /\ initialized /\ initialized' = initialized
        /\ sessions' \subseteq sessions /\ req' = req
    BY <1>b, <1>4 DEF MakeUuidDir, SetPath, SetAndroid, WriteBlobOpen, OpenBlob, WriteBlobSkip,
       OpenBlobFails, WriteBlobClose, FlushBlob, AdiEnd, vmVars
  <2> QED BY <1>a, <2>1, UsedElsewhere
<1>5. CASE AdiStart(t)
  <2>1. initialized /\ initialized'
    BY <1>b, <1>5 DEF AdiStart, ProvisioningStart, vmVars
  <2> QED BY <2>1 DEF UsedInv
<1>6. CASE AbortOnExhaustion(t)
  BY <1>6 DEF AbortOnExhaustion, ProviderCrash, VmIsLost, UsedInv
<1> QED BY <1>1, <1>2, <1>3, <1>4, <1>5, <1>6 DEF CoreStep

LEMMA UsedNext == IndInv /\ UsedInv /\ [Next]_vars => UsedInv'
<1> SUFFICES ASSUME IndInv, UsedInv, [Next]_vars PROVE UsedInv'
  OBVIOUS
<1>a. TypeOK
  BY DEF IndInv
<1>1. ASSUME NEW t \in Threads, CallBegins(t) \/ CallCollected(t) PROVE UsedInv'
  <2>1. /\ \A u \in Threads \ {t} : pc'[u] = pc[u] /\ req'[u] = req[u]
        /\ pc'[t] \in {"wait", "done", "idle"}
        /\ UNCHANGED <<initialized, sessions>>
    BY <1>a, <1>1 DEF CallBegins, Invoke, InvokeNull, CallCollected, Collect, Goto, TypeOK, vmVars
  <2> QED BY <2>1 DEF UsedInv
<1>2. ASSUME NEW t \in Threads, CoreStep(t) PROVE UsedInv'
  BY <1>2, UsedCoreStep
<1>3. CASE FilesChange \/ UNCHANGED vars
  BY <1>3 DEF FilesChange, HostFileStep, vars, providerVars, vmVars, UsedInv
<1>4. CASE Crash
  BY <1>4 DEF Crash, ProviderCrash, VmIsLost, UsedInv
<1> QED BY <1>1, <1>2, <1>3, <1>4 DEF Next

\* Whatever failed in the attempts before, no ADI function is called in an image
\* that is not relocated or whose constructors have not run, but for a cancel that
\* comes before any setup has succeeded, and then no session is open.
THEOREM ImagesAreReady == Spec => []ImagesReady
<1>1. Init => ReadyInv /\ UsedInv
  BY DEF Init, ProviderInit, ReadyInv, UsedInv
<1>2. IndInv /\ ReadyInv /\ UsedInv => ImagesReady
  <2> SUFFICES ASSUME IndInv, ReadyInv, UsedInv,
                      NEW t \in Threads, NEW sym \in Called(t), Resolves(sym)
               PROVE  \/ Ready(Resolve(sym))
                      \/ sym = "destroy" /\ ~initialized /\ sessions = {}
    BY DEF ImagesReady
  <2>1. Definers(sym) \in SUBSET Nat /\ Definers(sym) # {}
    BY DEF Definers, Resolves, IndInv, TypeOK
  <2>2. \E i \in Definers(sym) : \A j \in Definers(sym) : i <= j
    BY <2>1, LeastNat
  <2>3. Resolve(sym) \in Definers(sym)
    BY <2>2 DEF Resolve
  <2>4. AllReady => Ready(Resolve(sym))
    BY <2>3 DEF AllReady, Definers, Ready
  <2>5. CASE pc[t] = "act" /\ req[t].op = "cancel"
    <3>1. sym = "destroy"
      BY <2>5 DEF Called
    <3> QED BY <2>4, <3>1 DEF ReadyInv, UsedInv
  <2>6. CASE pc[t] = "boot"
    BY <2>4, <2>6 DEF ReadyInv
  <2>7. CASE pc[t] \in {"path", "android", "otp"} \/ (pc[t] = "act" /\ req[t].op # "cancel")
    <3>1. pc[t] # "act" => req[t].op # "cancel"
      BY <2>7 DEF IndInv, CallShape, Locked, CorePCs, PCs
    <3>2. initialized
      BY <2>7, <3>1 DEF UsedInv
    <3> QED BY <2>4, <3>2 DEF ReadyInv
  <2> QED BY <2>5, <2>6, <2>7 DEF Called
<1> QED BY <1>1, <1>2, ReadyNext, UsedNext, IndInvHolds, PTL DEF Spec

(***************************************************************************)
(* The images are loaded once and for good.                                *)
(***************************************************************************)

\* Only the steps of the loading, the relocation and a crash touch the images, and
\* while the libraries are initialized no call is at one of the first two.
LEMMA LoadedCoreStep ==
    ASSUME ReadyInv, initialized, NEW t \in Threads, CoreStep(t)
    PROVE  (libs' = libs /\ initialized') \/ (libs' = <<>> /\ ~initialized')
<1>a. pc[t] \notin LibNames \cup {"relocate"}
  BY DEF ReadyInv
<1>1. CASE AbortOnExhaustion(t)
  BY <1>1 DEF AbortOnExhaustion, VmIsLost
<1>2. CASE Boot(t)
  BY <1>2 DEF Boot
<1>3. CASE ~AbortOnExhaustion(t) /\ ~Boot(t)
  <2>1. UNCHANGED <<libs, initialized>>
    BY <1>a, <1>3 DEF CoreStep, vmVars, TakeMutex, Setup, LoadLibrary, LibNames,
         RelocateAndConstruct, SetupFails, MakeUuidDir, SetPath, SetPathFails,
         SetAndroid, SetAndroidFails, WriteBlobOpen, WriteBlobSkip, WriteBlobClose,
         AdiOtpRequest, AdiOtpRequestFails, AdiStart, AdiStartFails, AdiEnd, ActFails,
         ReadAdiPb, ReadAdiPbFails, AdiCancel
  <2> QED BY <2>1
<1> QED BY <1>1, <1>2, <1>3

\* No constructor of the ADI libraries runs a second time once they are in use:
\* the VM keeps its images until the process ends.
THEOREM ImagesKept == Spec => LoadedForGood
<1>1. Init => ReadyInv
  BY DEF Init, ProviderInit, ReadyInv
<1>2. ReadyInv /\ [Next]_vars =>
        [initialized => (libs' = libs /\ initialized') \/ (libs' = <<>> /\ ~initialized')]_vars
  <2> SUFFICES ASSUME ReadyInv, Next, initialized
               PROVE  (libs' = libs /\ initialized') \/ (libs' = <<>> /\ ~initialized')
    OBVIOUS
  <2>1. CASE \E t \in Threads : CallBegins(t) \/ CallCollected(t)
    BY <2>1 DEF CallBegins, CallCollected, vmVars
  <2>2. CASE \E t \in Threads : CoreStep(t)
    BY <2>2, LoadedCoreStep
  <2>3. CASE FilesChange
    BY <2>3 DEF FilesChange, vmVars
  <2>4. CASE Crash
    BY <2>4 DEF Crash, VmIsLost
  <2> QED BY <2>1, <2>2, <2>3, <2>4 DEF Next
<1> QED BY <1>1, <1>2, ReadyNext, IndInvHolds, PTL DEF Spec, LoadedForGood

(***************************************************************************)
(* The refinement.  A step of the loading is a stutter of the provider; a  *)
(* call that has the account selected works on its own directory, and so   *)
(* each remaining step is the provider's step of the same name.            *)
(***************************************************************************)
Abstract(l) ==
    CASE l \in {"ssc", "coreadi", "relocate", "boot", "mkdir"} -> "setup"
      [] l \in {"path", "android"} -> "act"
      [] OTHER -> l

\* The provider reads the same data: its directories and answers are the core's.
LEMMA SameData ==
    /\ Provider!NoReq = NoReq /\ Provider!Blank = Blank /\ Provider!NoDir = NoDir
    /\ Provider!ErrorResp = ErrorResp /\ Provider!CancelledResp = CancelledResp
    /\ Provider!Blobs = Blobs
    /\ \A d : Provider!Mkdir(d) = Mkdir(d) /\ Provider!Rmdir(d) = Rmdir(d)
    /\ \A s : Provider!CpimResp(s) = CpimResp(s)
    /\ \A c : Provider!PbResp(c) = PbResp(c)
    /\ \A i, c : Provider!HeadersResp(i, c) = HeadersResp(i, c)
BY DEF Provider!NoReq, NoReq, Provider!Blank, Blank, Provider!NoDir, NoDir,
       Provider!ErrorResp, ErrorResp, Provider!CancelledResp, CancelledResp,
       Provider!Blobs, Blobs, Provider!Mkdir, Mkdir, Provider!Rmdir, Rmdir,
       Provider!CpimResp, CpimResp, Provider!PbResp, PbResp,
       Provider!HeadersResp, HeadersResp

\* The provider's file operations are the core's.
LEMMA SameFiles ==
    ASSUME NEW a
    PROVE  /\ Provider!MakeDirectory(a) <=> MakeDirectory(a)
           /\ Provider!RemoveDirectory(a) <=> RemoveDirectory(a)
           /\ Provider!RemovePb(a) <=> RemovePb(a)
           /\ Provider!RemoveRinfo(a) <=> RemoveRinfo(a)
           /\ Provider!RemoveTree(a) <=> RemoveTree(a)
           /\ \A r : Provider!WriteRinfo(a, r) <=> WriteRinfo(a, r)
BY SameData DEF Provider!MakeDirectory, MakeDirectory, Provider!RemoveDirectory,
       RemoveDirectory, Provider!RemovePb, RemovePb, Provider!RemoveRinfo, RemoveRinfo,
       Provider!RemoveTree, RemoveTree, Provider!WriteRinfo, WriteRinfo,
       Provider!Ignored, Ignored, Provider!Unlinked, Unlinked

\* Where a call is, seen from the provider.
LEMMA AbstractPcOf ==
    /\ \A t \in Threads : AbstractPc[t] = Abstract(pc[t])
    /\ DOMAIN AbstractPc = Threads
BY DEF AbstractPc, Abstract

\* A move of a call is the provider's move between the abstract places.
LEMMA AbstractGoto ==
    ASSUME TypeOK, NEW t \in Threads, NEW l, Goto(t, l)
    PROVE  Provider!Goto(t, Abstract(l))
<1>1. \A u \in Threads : pc'[u] = IF u = t THEN l ELSE pc[u]
  BY DEF TypeOK, Goto
<1>2. AbstractPc' = [u \in Threads |-> IF u = t THEN Abstract(l) ELSE AbstractPc[u]]
  BY <1>1 DEF AbstractPc, Abstract
<1> QED BY <1>2 DEF Provider!Goto, AbstractPc

\* A return of a call is the provider's return of it.
LEMMA AbstractReturn ==
    ASSUME TypeOK, NEW t \in Threads, NEW r, Return(t, r)
    PROVE  Provider!Return(t, r)
<1>1. Provider!Goto(t, "done")
  BY AbstractGoto DEF Return, Abstract
<1> QED BY <1>1 DEF Return, Provider!Return

\* A step that moves between places the provider does not tell apart and touches
\* nothing else of the provider's is no step of it.
LEMMA Stutter ==
    ASSUME TypeOK, NEW t \in Threads, NEW l, Goto(t, l), Abstract(l) = Abstract(pc[t]),
           UNCHANGED <<req, resp, holder, fs, writers, sessions, minted>>
    PROVE  UNCHANGED Provider!providerVars
<1>1. \A u \in Threads : Abstract(pc'[u]) = Abstract(pc[u])
  BY DEF TypeOK, Goto
<1>2. AbstractPc' = AbstractPc
  BY <1>1 DEF AbstractPc, Abstract
<1> QED BY <1>2 DEF Provider!providerVars

\* The death of the process is the provider's.
LEMMA CrashRefines ==
    ASSUME ProviderCrash
    PROVE  Provider!ProviderCrash
<1>1. AbstractPc' = [t \in Threads |-> "idle"]
  BY DEF ProviderCrash, AbstractPc
<1> QED BY <1>1, SameData DEF ProviderCrash, Provider!ProviderCrash

\* Each step of a call is the provider's step of that call, or none.
LEMMA CoreStepRefines ==
    ASSUME ~PartialSetters, IndInv, NEW t \in Threads, CoreStep(t)
    PROVE  Provider!ProviderStep(t) \/ Provider!ProviderCrash \/ UNCHANGED Provider!providerVars
<1> DEFINE Silent == UNCHANGED Provider!providerVars
<1> USE SameData
<1>a. TypeOK /\ CallShape
  BY DEF IndInv
<1>b. AbstractPc[t] = Abstract(pc[t])
  BY AbstractPcOf
<1>c. pc[t] \in {"otp", "act"} /\ req[t].op # "cancel" =>
         guest.path = req[t].acct /\ guest.android = AndroidIdOf[req[t].acct]
  BY DEF IndInv, CacheCoherent, CacheIsCallers
<1>d. pc[t] \in {"path", "android", "otp"} => req[t].op # "cancel"
  BY DEF IndInv, CallShape, Locked, CorePCs, PCs
<1>1. CASE TakeMutex(t)
  <2>1. Abstract(IF req[t].op = "cancel" THEN "act" ELSE "setup") =
           (IF req[t].op = "cancel" THEN "act" ELSE "setup")
    BY DEF Abstract
  <2>2. Provider!Acquire(t)
    BY <1>a, <1>b, <1>1, <2>1, AbstractGoto
       DEF TakeMutex, Acquire, Provider!Acquire, Abstract
  <2> QED BY <2>2 DEF Provider!ProviderStep
<1>2. CASE Setup(t)
  BY <1>a, <1>2, Stutter DEF Setup, Abstract
<1>3. CASE LoadLibrary(t)
  BY <1>a, <1>3, Stutter DEF LoadLibrary, LibNames, Abstract
<1>4. CASE RelocateAndConstruct(t)
  BY <1>a, <1>4, Stutter DEF RelocateAndConstruct, Abstract
<1>5. CASE Boot(t)
  BY <1>a, <1>5, Stutter DEF Boot, Abstract
<1>6. CASE SetupFails(t)
  <2>1. Provider!CallFails(t)
    BY <1>a, <1>b, <1>6, AbstractReturn DEF SetupFails, LibNames, Abstract, Provider!CallFails
  <2> QED BY <2>1 DEF Provider!ProviderStep
<1>7. CASE MakeUuidDir(t)
  <2>1. Provider!MakeDir(t)
    BY <1>a, <1>b, <1>7, SameFiles, AbstractGoto DEF MakeUuidDir, Abstract, Provider!MakeDir
  <2> QED BY <2>1 DEF Provider!ProviderStep
<1>8. CASE SetPath(t)
  BY <1>a, <1>8, Stutter DEF SetPath, Abstract
<1>9. CASE SetPathFails(t)
  <2>1. Provider!CallFails(t)
    BY <1>a, <1>b, <1>d, <1>9, AbstractReturn DEF SetPathFails, Abstract, Provider!CallFails
  <2> QED BY <2>1 DEF Provider!ProviderStep
<1>10. CASE SetAndroid(t)
  BY <1>a, <1>10, Stutter DEF SetAndroid, Abstract
<1>11. CASE SetAndroidFails(t)
  <2>1. Provider!CallFails(t)
    BY <1>a, <1>b, <1>d, <1>11, AbstractReturn DEF SetAndroidFails, Abstract, Provider!CallFails
  <2> QED BY <2>1 DEF Provider!ProviderStep
<1>12. CASE WriteBlobOpen(t)
  <2>1. Provider!OpenBlob(t)
    BY <1>a, <1>b, <1>12, AbstractGoto DEF WriteBlobOpen, OpenBlob, OpenForWriting, Abstract,
       Provider!OpenBlob, Provider!OpenForWriting
  <2> QED BY <2>1 DEF Provider!ProviderStep
<1>13. CASE WriteBlobSkip(t)
  <2>1. Provider!OpenBlobFails(t)
    BY <1>a, <1>b, <1>13, AbstractGoto DEF WriteBlobSkip, OpenBlobFails, Abstract,
       Provider!OpenBlobFails
  <2> QED BY <2>1 DEF Provider!ProviderStep
<1>14. CASE WriteBlobClose(t)
  <2>1. Provider!FlushBlob(t)
    BY <1>a, <1>b, <1>14, AbstractGoto DEF WriteBlobClose, FlushBlob, WriteThrough, Arrived,
       Abstract, Provider!FlushBlob, Provider!WriteThrough, Provider!Arrived
  <2> QED BY <2>1 DEF Provider!ProviderStep
<1>15. CASE AdiOtpRequest(t)
  <2>1. Provider!OtpRequest(t)
    BY <1>a, <1>b, <1>c, <1>d, <1>15, AbstractReturn DEF AdiOtpRequest, Abstract,
       Provider!OtpRequest
  <2> QED BY <2>1 DEF Provider!ProviderStep
<1>16. CASE AdiOtpRequestFails(t)
  <2>1. Provider!CallFails(t)
    BY <1>a, <1>b, <1>16, AbstractReturn DEF AdiOtpRequestFails, Abstract, Provider!CallFails
  <2> QED BY <2>1 DEF Provider!ProviderStep
<1>17. CASE AdiStart(t)
  <2>1. Provider!ProvisioningStart(t)
    BY <1>a, <1>b, <1>17, AbstractReturn DEF AdiStart, ProvisioningStart, Abstract,
       Provider!ProvisioningStart
  <2> QED BY <2>1 DEF Provider!ProviderStep
<1>18. CASE AdiStartFails(t)
  <2>1. Provider!ProvisioningStartFails(t)
    BY <1>a, <1>b, <1>18, SameFiles, AbstractReturn DEF AdiStartFails, ProvisioningStartFails,
       Abstract, Provider!ProvisioningStartFails
  <2> QED BY <2>1 DEF Provider!ProviderStep
<1>19. CASE AdiEnd(t)
  <2>1. Provider!ProvisioningEnd(t)
    BY <1>a, <1>b, <1>c, <1>19, AbstractGoto DEF AdiEnd, Abstract, Provider!ProvisioningEnd
  <2> QED BY <2>1 DEF Provider!ProviderStep
<1>20. CASE ActFails(t)
  <2>1. Provider!CallFails(t)
    BY <1>a, <1>b, <1>20, AbstractReturn DEF ActFails, Abstract, Provider!CallFails
  <2> QED BY <2>1 DEF Provider!ProviderStep
<1>21. CASE ReadAdiPb(t)
  <2>1. Provider!ReadBack(t)
    BY <1>a, <1>b, <1>21, AbstractReturn DEF ReadAdiPb, ReadBack, Taken, Abstract,
       Provider!ReadBack, Provider!Taken
  <2> QED BY <2>1 DEF Provider!ProviderStep
<1>22. CASE ReadAdiPbFails(t)
  <2>1. Provider!ReadBackFails(t)
    BY <1>a, <1>b, <1>22, AbstractReturn DEF ReadAdiPbFails, ReadBackFails, Abstract,
       Provider!ReadBackFails
  <2> QED BY <2>1 DEF Provider!ProviderStep
<1>23. CASE AdiCancel(t)
  <2>1. Provider!Cancel(t)
    BY <1>a, <1>b, <1>23, AbstractReturn DEF AdiCancel, Cancel, Abstract, Provider!Cancel
  <2> QED BY <2>1 DEF Provider!ProviderStep
<1>24. CASE AbortOnExhaustion(t)
  BY <1>24, CrashRefines DEF AbortOnExhaustion
<1> QED
  BY <1>1, <1>2, <1>3, <1>4, <1>5, <1>6, <1>7, <1>8, <1>9, <1>10,
     <1>11, <1>12, <1>13, <1>14, <1>15, <1>16, <1>17, <1>18, <1>19, <1>20,
     <1>21, <1>22, <1>23, <1>24 DEF CoreStep

\* Every step of the system is a step of the provider or none of it.
LEMMA NextRefines ==
    ASSUME ~PartialSetters
    PROVE  IndInv /\ [Next]_vars => [Provider!ProviderNext]_(Provider!providerVars)
<1> SUFFICES ASSUME IndInv, [Next]_vars
             PROVE  Provider!ProviderNext \/ UNCHANGED Provider!providerVars
  OBVIOUS
<1> USE SameData
<1>a. TypeOK
  BY DEF IndInv
<1>1. ASSUME NEW t \in Threads, CallBegins(t) PROVE Provider!ProviderNext
  <2>1. PICK r \in Calls : Invoke(t, r) \/ InvokeNull(t, r)
    BY <1>1 DEF CallBegins
  <2>2. AbstractPc[t] = Abstract(pc[t])
    BY AbstractPcOf
  <2>3. Invoke(t, r) => Provider!Invoke(t, r)
    BY <1>a, <2>2, AbstractGoto DEF Invoke, Provider!Invoke, Abstract
  <2>4. InvokeNull(t, r) => Provider!InvokeNull(t, r)
    BY <1>a, <2>2, AbstractGoto DEF InvokeNull, Provider!InvokeNull, Abstract
  <2> QED BY <2>1, <2>3, <2>4 DEF Provider!ProviderNext
<1>2. ASSUME NEW t \in Threads, CallCollected(t) PROVE Provider!ProviderNext
  <2>1. AbstractPc[t] = Abstract(pc[t])
    BY AbstractPcOf
  <2>2. Provider!Collect(t)
    BY <1>a, <1>2, <2>1, AbstractGoto DEF CallCollected, Collect, Provider!Collect, Abstract
  <2> QED BY <2>2 DEF Provider!ProviderNext
<1>3. ASSUME NEW t \in Threads, CoreStep(t)
      PROVE  Provider!ProviderNext \/ UNCHANGED Provider!providerVars
  BY <1>3, CoreStepRefines DEF Provider!ProviderNext
<1>4. CASE FilesChange
  <2>1. AbstractPc' = AbstractPc
    BY <1>4 DEF FilesChange, HostFileStep, AbstractPc
  <2>2. Provider!HostFileStep
    BY <1>4, <2>1, SameFiles DEF FilesChange, HostFileStep, Provider!HostFileStep
  <2> QED BY <2>2 DEF Provider!ProviderNext
<1>5. CASE Crash
  BY <1>5, CrashRefines DEF Crash, Provider!ProviderNext
<1>6. CASE UNCHANGED vars
  <2>1. AbstractPc' = AbstractPc
    BY <1>6 DEF vars, providerVars, AbstractPc
  <2> QED BY <1>6, <2>1 DEF vars, providerVars, Provider!providerVars
<1> QED BY <1>1, <1>2, <1>3, <1>4, <1>5, <1>6 DEF Next

\* anisette_core_uc.cpp keeps the promise of AdiProvider: hiding the VM, the
\* loading and the cached selection, each of its behaviours is the provider's,
\* provided that a refused ADISet... call has changed nothing in the library.
THEOREM Refinement ==
    ASSUME ~PartialSetters
    PROVE  Spec => ImplementsProvider
<1>1. Init => Provider!ProviderInit
  <2> SUFFICES ASSUME Init PROVE Provider!ProviderInit
    OBVIOUS
  <2>1. AbstractPc = [t \in Threads |-> "idle"]
    BY DEF Init, ProviderInit, AbstractPc
  <2> QED BY <2>1, SameData DEF Init, ProviderInit, Provider!ProviderInit
<1>2. IndInv /\ [Next]_vars => [Provider!ProviderNext]_(Provider!providerVars)
  BY NextRefines
<1> QED BY <1>1, <1>2, IndInvHolds, PTL DEF Spec, ImplementsProvider, Provider!ProviderSpec
================================================================================
