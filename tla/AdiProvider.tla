------------------------------ MODULE AdiProvider ------------------------------
(***************************************************************************)
(* What an ADI provider promises to the Swift client: calls are served one *)
(* at a time, each call touches the directory of its own account only, and *)
(* what it answers is computed with the caller's own hardware identifier   *)
(* and from the caller's own adi.pb.  UnicornCore implements this module;  *)
(* ProvisioningClient is built on it.                                      *)
(*                                                                         *)
(* The files are NOT protected by the provider's mutex: the Swift client   *)
(* reads, writes and removes them at any moment (HostFileStep).            *)
(***************************************************************************)
EXTENDS AdiTypes

CONSTANTS
    Calls,     \* the requests the callers make
    IoFaults   \* which file operations may fail although the path is fine

ASSUME CallsAssumption == Calls \subseteq Requests

\* A directory made; a file opened, read or written in part or not at all; a file
\* or directory removed.
ASSUME FaultAssumption == IoFaults \subseteq {"make", "open", "read", "write", "remove"}

Reliable(kinds) == IoFaults \cap kinds = {}

VARIABLES
    pc,        \* where each thread is inside its call
    req,       \* the call it makes
    resp,      \* what the call answered
    holder,    \* the thread that holds the provider's mutex
    fs,        \* the directory of every account
    writers,   \* <<thread, account>>: open write handles on a linked adi.pb
    sessions,  \* provisioning sessions open inside the ADI library
    minted     \* session numbers the ADI library has handed out

providerVars == <<pc, req, resp, holder, fs, writers, sessions, minted>>

PCs == {"idle", "wait", "setup", "act", "flush", "otp", "readback", "done"}

ProviderTypeOK ==
    /\ pc \in [Threads -> PCs]
    /\ req \in [Threads -> Requests \cup {NoReq}]
    /\ resp \in [Threads -> Responses]
    /\ holder \in Threads \cup {NoThread}
    /\ fs \in [Accounts -> DirState]
    /\ writers \subseteq Threads \X Accounts
    /\ sessions \subseteq minted
    /\ minted \subseteq Sessions

ProviderInit ==
    /\ pc = [t \in Threads |-> "idle"]
    /\ req = [t \in Threads |-> NoReq]
    /\ resp = [t \in Threads |-> Blank]
    /\ holder = NoThread
    /\ fs = [a \in Accounts |-> NoDir]
    /\ writers = {}
    /\ sessions = {}
    /\ minted = {}

--------------------------------------------------------------------------------
\* Moving within a call, and leaving it with an answer: the lock_guard is
\* destroyed on every return.
Goto(t, l) == pc' = [pc EXCEPT ![t] = l]

\* Mistake: an error path that unlocks by hand and forgets to.
ReturnLocked(t, r) ==
    /\ Goto(t, "done")
    /\ resp' = [resp EXCEPT ![t] = r]
    /\ UNCHANGED holder

Return(t, r) ==
    /\ Goto(t, "done")
    /\ resp' = [resp EXCEPT ![t] = r]
    /\ holder' = NoThread

(***************************************************************************)
(* The file operations both languages are built on.  Opening adi.pb for    *)
(* writing truncates it, a moment before its new bytes arrive; a write     *)
(* through a handle whose file was unlinked in between is lost.            *)
(***************************************************************************)
OpenForWriting(t, a) ==
    /\ fs[a].dir
    /\ fs' = [fs EXCEPT ![a].pb = Empty]
    /\ writers' = writers \cup {<<t, a>>}

WriteThrough(t, a, c) ==
    /\ fs' = IF <<t, a>> \in writers THEN [fs EXCEPT ![a].pb = c] ELSE fs
    /\ writers' = writers \ {<<t, a>>}

\* What adi.pb may hold when c has been written to it and nobody looked whether
\* all of it arrived.
Arrived(a, c) == {c} \cup IF "write" \in IoFaults THEN {Empty, fs[a].pb} ELSE {}

\* What a reader that does not look at the result of fread may make of it.
Taken(c) == {c} \cup IF "read" \in IoFaults THEN {Empty} ELSE {}

Unlinked(a) == {w \in writers : w[2] # a}

\* An operation of a kind whose error nobody looks at.
Ignored(kind) == kind \in IoFaults /\ UNCHANGED <<fs, writers>>

MakeDirectory(a) ==
    \/ fs' = [fs EXCEPT ![a] = Mkdir(@)] /\ UNCHANGED writers
    \/ Ignored("make")

RemoveDirectory(a) ==
    \/ fs' = [fs EXCEPT ![a] = Rmdir(@)] /\ UNCHANGED writers
    \/ Ignored("remove")

RemovePb(a) ==
    \/ fs' = [fs EXCEPT ![a].pb = Absent] /\ writers' = Unlinked(a)
    \/ Ignored("remove")

RemoveRinfo(a) ==
    \/ fs' = [fs EXCEPT ![a].rinfo = NoRinfo] /\ UNCHANGED writers
    \/ Ignored("remove")

RemoveTree(a) ==
    \/ fs' = [fs EXCEPT ![a] = NoDir] /\ writers' = Unlinked(a)
    \/ Ignored("remove")

\* Written to a temporary file and renamed.
WriteRinfo(a, r) ==
    \/ fs' = [fs EXCEPT ![a].rinfo = IF fs[a].dir THEN r ELSE @] /\ UNCHANGED writers
    \/ Ignored("write")

--------------------------------------------------------------------------------
\* A thread calls one of the four C functions with non-null arguments.
Invoke(t, r) ==
    /\ pc[t] = "idle"
    /\ Goto(t, "wait")
    /\ req' = [req EXCEPT ![t] = r]
    /\ UNCHANGED <<resp, holder, fs, writers, sessions, minted>>

\* A null argument is refused before the mutex is taken.
InvokeNull(t, r) ==
    /\ pc[t] = "idle"
    /\ Goto(t, "done")
    /\ req' = [req EXCEPT ![t] = r]
    /\ resp' = [resp EXCEPT ![t] = ErrorResp]
    /\ UNCHANGED <<holder, fs, writers, sessions, minted>>

\* The caller takes the answer and is free for its next call.
Collect(t) ==
    /\ pc[t] = "done"
    /\ Goto(t, "idle")
    /\ req' = [req EXCEPT ![t] = NoReq]
    /\ resp' = [resp EXCEPT ![t] = Blank]
    /\ UNCHANGED <<holder, fs, writers, sessions, minted>>

\* Mistake: no lock_guard.
AcquireUnguarded(t) ==
    /\ pc[t] = "wait"
    /\ holder' = t
    /\ Goto(t, IF req[t].op = "cancel" THEN "act" ELSE "setup")
    /\ UNCHANGED <<req, resp, fs, writers, sessions, minted>>

Acquire(t) ==
    /\ pc[t] = "wait"
    /\ holder = NoThread
    /\ holder' = t
    /\ Goto(t, IF req[t].op = "cancel" THEN "act" ELSE "setup")
    /\ UNCHANGED <<req, resp, fs, writers, sessions, minted>>

\* The result of mkdir is not looked at.
MakeDir(t) ==
    /\ pc[t] = "setup"
    /\ MakeDirectory(req[t].acct)
    /\ Goto(t, "act")
    /\ UNCHANGED <<req, resp, holder, sessions, minted>>

\* Loading the libraries, finding a symbol or selecting the account failed.
CallFails(t) ==
    /\ \/ pc[t] = "setup"
       \/ pc[t] = "act" /\ req[t].op # "cancel"
       \/ pc[t] = "otp"
    /\ Return(t, ErrorResp)
    /\ UNCHANGED <<req, fs, writers, sessions, minted>>

--------------------------------------------------------------------------------
\* Mistake: an adi.pb that exists is taken for the caller's.
OpenBlobIfAbsent(t) ==
    /\ pc[t] = "act" /\ req[t].op = "headers"
    /\ IF fs[req[t].acct].pb = Absent
       THEN OpenForWriting(t, req[t].acct) /\ Goto(t, "flush")
       ELSE Goto(t, "otp") /\ UNCHANGED <<fs, writers>>
    /\ UNCHANGED <<req, resp, holder, sessions, minted>>

\* get_anisette_headers: open adi.pb for writing, write it, ask for an OTP.
OpenBlob(t) ==
    /\ pc[t] = "act" /\ req[t].op = "headers"
    /\ OpenForWriting(t, req[t].acct)
    /\ Goto(t, "flush")
    /\ UNCHANGED <<req, resp, holder, sessions, minted>>

\* fopen failed: nothing is written and the call goes on with what is there.
OpenBlobFails(t) ==
    /\ pc[t] = "act" /\ req[t].op = "headers"
    /\ "open" \in IoFaults \/ ~fs[req[t].acct].dir
    /\ Goto(t, "otp")
    /\ UNCHANGED <<req, resp, holder, fs, writers, sessions, minted>>

\* The bytes reach the file, or an unlinked one when it was removed meanwhile;
\* how many did is not looked at.
FlushBlob(t) ==
    /\ pc[t] = "flush"
    /\ \E c \in Arrived(req[t].acct, req[t].pb) : WriteThrough(t, req[t].acct, c)
    /\ Goto(t, "otp")
    /\ UNCHANGED <<req, resp, holder, sessions, minted>>

\* ADIOTPRequest succeeds only on a provisioned directory.
OtpRequest(t) ==
    /\ pc[t] = "otp"
    /\ LET a == req[t].acct IN
       /\ fs[a].pb \in Blobs
       /\ Return(t, HeadersResp(AndroidIdOf[a], fs[a].pb))
    /\ UNCHANGED <<req, fs, writers, sessions, minted>>

\* start_provision: ADIProvisioningStart opens a session.
ProvisioningStart(t) ==
    /\ pc[t] = "act" /\ req[t].op = "start"
    /\ \E s \in Sessions \ minted :
          /\ sessions' = sessions \cup {s}
          /\ minted' = minted \cup {s}
          /\ Return(t, CpimResp(s))
    /\ UNCHANGED <<req, fs, writers>>

\* A failed start removes the directory it made, when that is empty.
ProvisioningStartFails(t) ==
    /\ pc[t] = "act" /\ req[t].op = "start"
    /\ RemoveDirectory(req[t].acct)
    /\ Return(t, ErrorResp)
    /\ UNCHANGED <<req, sessions, minted>>

\* end_provision: ADIProvisioningEnd closes the session and writes adi.pb.
ProvisioningEnd(t) ==
    /\ pc[t] = "act" /\ req[t].op = "end"
    /\ LET a == req[t].acct
           s == req[t].session
       IN  /\ s \in sessions
           /\ fs[a].dir
           /\ fs' = [fs EXCEPT ![a].pb = [acct |-> a, session |-> s]]
           /\ sessions' = sessions \ {s}
    /\ Goto(t, "readback")
    /\ UNCHANGED <<req, resp, holder, writers, minted>>

\* The file ADI wrote is opened again and its bytes, as many as fread brought,
\* are the answer.
ReadBack(t) ==
    /\ pc[t] = "readback"
    /\ fs[req[t].acct].pb # Absent
    /\ \E c \in Taken(fs[req[t].acct].pb) : Return(t, PbResp(c))
    /\ UNCHANGED <<req, fs, writers, sessions, minted>>

\* fopen failed.
ReadBackFails(t) ==
    /\ pc[t] = "readback"
    /\ "open" \in IoFaults \/ fs[req[t].acct].pb = Absent
    /\ Return(t, ErrorResp)
    /\ UNCHANGED <<req, fs, writers, sessions, minted>>

\* cancel_provision: the result of ADIProvisioningDestroy is ignored.
Cancel(t) ==
    /\ pc[t] = "act" /\ req[t].op = "cancel"
    /\ sessions' \in {sessions, sessions \ {req[t].session}}
    /\ Return(t, CancelledResp)
    /\ UNCHANGED <<req, fs, writers, minted>>

ProviderStep(t) ==
    \/ Acquire(t) \/ MakeDir(t) \/ CallFails(t)
    \/ OpenBlob(t) \/ OpenBlobFails(t) \/ FlushBlob(t) \/ OtpRequest(t)
    \/ ProvisioningStart(t) \/ ProvisioningStartFails(t)
    \/ ProvisioningEnd(t) \/ ReadBack(t) \/ ReadBackFails(t)
    \/ Cancel(t)

(***************************************************************************)
(* The Swift client at work on the files while the provider serves calls,  *)
(* with no lock in common.                                                 *)
(***************************************************************************)
HostFileStep ==
    /\ \E a \in Accounts :
          \/ RemovePb(a) \/ RemoveRinfo(a) \/ RemoveTree(a) \/ MakeDirectory(a)
          \/ \E r \in Rinfos : WriteRinfo(a, r)
          \/ \E c \in [acct : {a}, session : Sessions] \cup {Empty} :
                /\ fs[a].dir
                /\ fs' = [fs EXCEPT ![a].pb = c]
                /\ UNCHANGED writers
    /\ UNCHANGED <<pc, req, resp, holder, sessions, minted>>

\* The process dies; only the files outlive it.
ProviderCrash ==
    /\ pc' = [t \in Threads |-> "idle"]
    /\ req' = [t \in Threads |-> NoReq]
    /\ resp' = [t \in Threads |-> Blank]
    /\ holder' = NoThread
    /\ writers' = {}
    /\ sessions' = {}
    /\ UNCHANGED <<fs, minted>>

ProviderNext ==
    \/ \E t \in Threads :
          \/ \E r \in Calls : Invoke(t, r) \/ InvokeNull(t, r)
          \/ Collect(t)
          \/ ProviderStep(t)
    \/ HostFileStep
    \/ ProviderCrash

ProviderSpec == ProviderInit /\ [][ProviderNext]_providerVars

================================================================================
