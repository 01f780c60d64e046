-------------------------------- MODULE AdiTypes --------------------------------
(***************************************************************************)
(* The data the C interface (Native/include/anisette_core.h), its Unicorn  *)
(* and native implementations and the Swift client share.                  *)
(*                                                                         *)
(* An ACCOUNT stands for one pair (provisioning_dir, identifier): both     *)
(* languages derive the directory provisioning_dir/<uuid> from it, and     *)
(* different accounts have different directories.  The Android id is the   *)
(* first eight bytes of the identifier only, so accounts may share one.    *)
(***************************************************************************)
EXTENDS Naturals, FiniteSets

CONSTANTS
    Threads,      \* threads, or Swift tasks, that call the library
    Accounts,     \* (provisioning_dir, identifier) pairs
    AndroidIds,   \* 8-byte hardware identifiers handed to the ADI library
    AndroidIdOf,  \* the hardware identifier of an account
    Sessions,     \* provisioning session numbers the ADI library can hand out
    Rinfos,       \* routing-info strings
    NoThread, NoAccount, NoAndroid, NoSession, NoRinfo, Absent, Empty

ASSUME AndroidAssumption == AndroidIdOf \in [Accounts -> AndroidIds]

ASSUME NullAssumption ==
    /\ NoThread \notin Threads
    /\ NoAccount \notin Accounts
    /\ NoAndroid \notin AndroidIds
    /\ NoSession \notin Sessions

\* A provisioning blob (the contents of adi.pb): the account it was minted
\* for, and the provisioning session that minted it.
Blobs == [acct : Accounts, session : Sessions]

(***************************************************************************)
(* The directory provisioning_dir/<uuid> of an account: whether it exists, *)
(* the contents of adi.pb in it (Absent, a blob, or Empty when it has been *)
(* truncated and not written, or not all of it: bytes that are no blob the *)
(* ADI library accepts) and of the file that keeps the routing information.*)
(***************************************************************************)
Contents == Blobs \cup {Absent, Empty}

ASSUME ContentsAssumption ==
    /\ Absent \notin Blobs /\ Empty \notin Blobs /\ Absent # Empty
    /\ NoRinfo \notin Rinfos

DirState == [dir : BOOLEAN, pb : Contents, rinfo : Rinfos \cup {NoRinfo}]

NoDir == [dir |-> FALSE, pb |-> Absent, rinfo |-> NoRinfo]

\* mkdir: a directory that is there already stays as it is.
Mkdir(d) == [d EXCEPT !.dir = TRUE]

\* rmdir: removes the directory only when nothing is in it.
Rmdir(d) == IF d.pb = Absent /\ d.rinfo = NoRinfo THEN NoDir ELSE d

\* A request to the C interface, and what it answers.
Requests ==
    [op : {"headers"}, acct : Accounts, pb : Blobs \cup {Empty}, session : {NoSession}]
    \cup [op : {"start"}, acct : Accounts, pb : {Empty}, session : {NoSession}]
    \cup [op : {"end", "cancel"}, acct : Accounts, pb : {Empty}, session : Sessions]

NoReq == [op |-> "none", acct |-> NoAccount, pb |-> Empty,
          session |-> NoSession]

(***************************************************************************)
(* Answers.  "headers" carries the hardware identifier and the blob the    *)
(* one-time password was computed from, "cpim" the session that was        *)
(* opened, "pb" the bytes read back from adi.pb.                           *)
(***************************************************************************)
Responses ==
    [kind : {"none", "error", "cancelled", "headers", "cpim", "pb"},
     android : AndroidIds \cup {NoAndroid},
     blob : Contents,
     session : Sessions \cup {NoSession}]

Blank == [kind |-> "none", android |-> NoAndroid, blob |-> Absent,
          session |-> NoSession]

ErrorResp       == [Blank EXCEPT !.kind = "error"]
CancelledResp   == [Blank EXCEPT !.kind = "cancelled"]
CpimResp(s)     == [Blank EXCEPT !.kind = "cpim", !.session = s]
PbResp(c)       == [Blank EXCEPT !.kind = "pb", !.blob = c]
HeadersResp(i, c) == [Blank EXCEPT !.kind = "headers", !.android = i, !.blob = c]
================================================================================
