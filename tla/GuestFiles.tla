------------------------------- MODULE GuestFiles -------------------------------
(***************************************************************************)
(* The file hooks of the emulator (Native/Loader/elf_loader_emulator.cpp,  *)
(* hook_open to hook_errno_location).  The guest's descriptors are numbers *)
(* of its own, counted up from 10 and never used again; fd_map leads from  *)
(* them to descriptors of the host process, which the rest of the          *)
(* application opens and closes at the same time.  A guest that stops,     *)
(* for whatever reason, leaves its descriptors open.                       *)
(***************************************************************************)
EXTENDS Naturals

CONSTANTS
    HostFds,      \* the descriptors the process may have open
    Paths,        \* the files they may lead to
    Errors,       \* what errno can say
    EMFILE, EEXIST,
    FirstFd,      \* next_guest_fd of a new VM
    MaxOpens,     \* bound: how often the guest's open succeeds
    NoFd, NoPath

GuestFds == FirstFd .. (FirstFd + MaxOpens - 1)

ASSUME FilesAssumption ==
    /\ FirstFd \in Nat /\ MaxOpens \in Nat
    /\ EMFILE \in Errors /\ EEXIST \in Errors
    /\ 0 \notin Errors /\ NoFd \notin HostFds /\ NoPath \notin Paths

VARIABLES
    kernel,     \* host descriptor -> the file it is open on, or NoPath
    appFile,    \* host descriptor -> the file the application opened it on
    fdMap,      \* vm->fd_map
    guestFile,  \* guest number -> the file it was given out for, even if closed
    nextFd,     \* vm->next_guest_fd
    guestErrno, \* the word at vm->errno_addr
    hostErrno,  \* errno of the thread that runs the emulator
    lastCall,   \* the last hook: what it was, whether it failed and why
    inGuest     \* is guest code running?

fileVars == <<kernel, appFile, fdMap, guestFile, nextFd,
              guestErrno, hostErrno, lastCall, inGuest>>

tables == <<kernel, appFile, fdMap, guestFile, nextFd>>

NoCall == [op |-> "none", failed |-> FALSE, why |-> 0]

FilesInit ==
    /\ kernel = [h \in HostFds |-> NoPath]
    /\ appFile = kernel
    /\ fdMap = [g \in GuestFds |-> NoFd]
    /\ guestFile = [g \in GuestFds |-> NoPath]
    /\ nextFd = FirstFd
    /\ guestErrno = 0
    /\ hostErrno = 0
    /\ lastCall = NoCall
    /\ inGuest = FALSE

FreeFds == {h \in HostFds : kernel[h] = NoPath}

\* A hook of the guest that told errno_addr how it went.
Succeeds(op) ==
    /\ guestErrno' = 0
    /\ lastCall' = [op |-> op, failed |-> FALSE, why |-> 0]

FailsWith(op, e) ==
    /\ hostErrno' = e
    /\ guestErrno' = e
    /\ lastCall' = [op |-> op, failed |-> TRUE, why |-> e]

\* A hook that leaves errno_addr alone.
Silent(op, failed) ==
    /\ lastCall' = [op |-> op, failed |-> failed, why |-> 0]
    /\ UNCHANGED guestErrno

--------------------------------------------------------------------------------
\* run_vm_procedure: nothing about descriptors on the way in, nor on the way
\* out, be it a return, a fault or an instruction limit.
EnterGuest ==
    /\ ~inGuest
    /\ inGuest' = TRUE
    /\ lastCall' = NoCall
    /\ UNCHANGED <<tables, guestErrno, hostErrno>>

LeaveGuest ==
    /\ inGuest
    /\ inGuest' = FALSE
    /\ UNCHANGED <<tables, guestErrno, hostErrno, lastCall>>

\* hook_open: the host gives any free descriptor, the guest the next number.
Open(h, p) ==
    /\ inGuest /\ h \in FreeFds /\ nextFd \in GuestFds
    /\ kernel' = [kernel EXCEPT ![h] = p]
    /\ fdMap' = [fdMap EXCEPT ![nextFd] = h]
    /\ guestFile' = [guestFile EXCEPT ![nextFd] = p]
    /\ nextFd' = nextFd + 1
    /\ Succeeds("open")
    /\ UNCHANGED <<appFile, hostErrno, inGuest>>

OpenFails(e) ==
    /\ inGuest
    /\ e = EMFILE => FreeFds = {}
    /\ FailsWith("open", e)
    /\ UNCHANGED <<tables, inGuest>>

\* Mistakes: the entry is erased and the host's descriptor forgotten; and a
\* number that is not in the map is taken for a descriptor of the host.
CloseForgets(g) ==
    /\ inGuest
    /\ fdMap' = [fdMap EXCEPT ![g] = NoFd]
    /\ Silent("close", fdMap[g] = NoFd)
    /\ UNCHANGED <<kernel, appFile, guestFile, nextFd, hostErrno, inGuest>>

CloseByNumber(g) ==
    /\ inGuest
    /\ LET h == IF fdMap[g] # NoFd THEN fdMap[g] ELSE g IN
       kernel' = [k \in HostFds |-> IF k = h THEN NoPath ELSE kernel[k]]
    /\ fdMap' = [fdMap EXCEPT ![g] = NoFd]
    /\ Silent("close", FALSE)
    /\ UNCHANGED <<appFile, guestFile, nextFd, hostErrno, inGuest>>

\* hook_close: -1 for a number that is not in the map, and errno_addr as it was.
Close(g) ==
    /\ inGuest
    /\ kernel' = [h \in HostFds |-> IF h = fdMap[g] THEN NoPath ELSE kernel[h]]
    /\ fdMap' = [fdMap EXCEPT ![g] = NoFd]
    /\ Silent("close", fdMap[g] = NoFd)
    /\ UNCHANGED <<appFile, guestFile, nextFd, hostErrno, inGuest>>

\* hook_read, hook_write, hook_ftruncate and hook_fstat: the host's call if the
\* number is in the map; why that failed stays with the host.
Use(g) ==
    /\ inGuest
    /\ \/ fdMap[g] # NoFd /\ Silent("use", FALSE) /\ UNCHANGED hostErrno
       \/ Silent("use", TRUE)
          /\ hostErrno' \in {hostErrno} \cup (IF fdMap[g] # NoFd THEN Errors ELSE {})
    /\ UNCHANGED <<tables, inGuest>>

--------------------------------------------------------------------------------
\* Mistake: a directory that exists is a success that keeps the old errno.
MkdirKeepsErrno(e) ==
    /\ inGuest
    /\ \/ e = EEXIST /\ hostErrno' = e /\ Silent("mkdir", FALSE)
       \/ e \notin {0, EEXIST} /\ FailsWith("mkdir", e)
       \/ e = 0 /\ Succeeds("mkdir") /\ UNCHANGED hostErrno
    /\ UNCHANGED <<tables, inGuest>>

\* hook_mkdir, e being what mkdir(2) says, or 0: that something of the name
\* exists is no error for the guest.
MakeDirectory(e) ==
    /\ inGuest
    /\ \/ e = EEXIST /\ hostErrno' = e /\ Succeeds("mkdir")
       \/ e \notin {0, EEXIST} /\ FailsWith("mkdir", e)
       \/ e = 0 /\ Succeeds("mkdir") /\ UNCHANGED hostErrno
    /\ UNCHANGED <<tables, inGuest>>

\* hook_lstat: without a buffer errno_addr gets whatever errno was, although
\* the call returns 0.
Lstat(e) ==
    /\ inGuest
    /\ \/ e # 0 /\ FailsWith("lstat", e)
       \/ e = 0 /\ Succeeds("lstat") /\ UNCHANGED hostErrno
       \/ /\ e = 0
          /\ guestErrno' = hostErrno
          /\ lastCall' = [op |-> "lstat without buffer", failed |-> FALSE, why |-> 0]
          /\ UNCHANGED hostErrno
    /\ UNCHANGED <<tables, inGuest>>

\* hook_chmod and hook_umask pass the host's result on and errno not.
Chmod(e) ==
    /\ inGuest
    /\ Silent("chmod", e # 0)
    /\ hostErrno' = IF e = 0 THEN hostErrno ELSE e
    /\ UNCHANGED <<tables, inGuest>>

--------------------------------------------------------------------------------
\* Other threads of the process use descriptors at any time.
AppOpens(h, p) ==
    /\ h \in FreeFds
    /\ kernel' = [kernel EXCEPT ![h] = p]
    /\ appFile' = [appFile EXCEPT ![h] = p]
    /\ UNCHANGED <<fdMap, guestFile, nextFd, guestErrno, hostErrno, lastCall, inGuest>>

AppCloses(h) ==
    /\ appFile[h] # NoPath
    /\ kernel' = [kernel EXCEPT ![h] = NoPath]
    /\ appFile' = [appFile EXCEPT ![h] = NoPath]
    /\ UNCHANGED <<fdMap, guestFile, nextFd, guestErrno, hostErrno, lastCall, inGuest>>

FilesNext ==
    \/ EnterGuest \/ LeaveGuest
    \/ \E h \in HostFds, p \in Paths : Open(h, p) \/ AppOpens(h, p)
    \/ \E g \in GuestFds : Close(g) \/ Use(g)
    \/ \E e \in Errors : OpenFails(e)
    \/ \E e \in Errors \cup {0} : MakeDirectory(e) \/ Lstat(e) \/ Chmod(e)
    \/ \E h \in HostFds : AppCloses(h)

FilesSpec == FilesInit /\ [][FilesNext]_fileVars

--------------------------------------------------------------------------------
(***************************************************************************)
(* Properties.                                                             *)
(***************************************************************************)
FilesTypeOK ==
    /\ kernel \in [HostFds -> Paths \cup {NoPath}]
    /\ appFile \in [HostFds -> Paths \cup {NoPath}]
    /\ fdMap \in [GuestFds -> HostFds \cup {NoFd}]
    /\ guestFile \in [GuestFds -> Paths \cup {NoPath}]
    /\ nextFd \in Nat /\ nextFd >= FirstFd
    /\ guestErrno \in Errors \cup {0} /\ hostErrno \in Errors \cup {0}
    /\ inGuest \in BOOLEAN

\* Whatever the guest and the application open and close in between: a number of
\* the guest leads to the file it was given out for, one number to one
\* descriptor, no number that has not been given out leads anywhere, and the
\* application's descriptors are its own and still open.
DescriptorsMatch ==
    /\ \A g \in GuestFds : fdMap[g] # NoFd =>
          /\ g < nextFd
          /\ guestFile[g] # NoPath /\ kernel[fdMap[g]] = guestFile[g]
          /\ appFile[fdMap[g]] = NoPath
          /\ \A k \in GuestFds : fdMap[k] = fdMap[g] => k = g
    /\ \A h \in HostFds : appFile[h] # NoPath => kernel[h] = appFile[h]

\* fd_map is all that knows the guest's descriptors: each one that is open in the
\* process and not the application's can still be closed through it.
NoneOrphaned ==
    \A h \in HostFds :
        kernel[h] # NoPath => appFile[h] # NoPath \/ \E g \in GuestFds : fdMap[g] = h

\* The guest reads errno after a call: after open, mkdir and lstat (with a buffer)
\* it holds the reason of this failure, or 0, never that of an earlier one.
ErrnoOfThisCall ==
    lastCall.op \in {"open", "mkdir", "lstat"} => guestErrno = lastCall.why

\* The inductive invariant.
FilesInv == FilesTypeOK /\ DescriptorsMatch /\ NoneOrphaned /\ ErrnoOfThisCall
================================================================================
