----------------------------- MODULE MCUnicornCore -----------------------------
(***************************************************************************)
(* Small instances of UnicornCore.                                         *)
(***************************************************************************)
EXTENDS UnicornCore, TLC

CONSTANTS a1, a2, i1, i2

TwoIds == [a \in {a1, a2} |-> IF a = a1 THEN i1 ELSE i2]

OneId == [a \in {a1} |-> i1]

ThreadSymmetry == Permutations(Threads)

Headers(a) == [op |-> "headers", acct |-> a, pb |-> [acct |-> a, session |-> 1],
               session |-> NoSession]
Start(a)   == [op |-> "start", acct |-> a, pb |-> Empty, session |-> NoSession]
End(a)     == [op |-> "end", acct |-> a, pb |-> Empty, session |-> 1]
CancelOf(a) == [End(a) EXCEPT !.op = "cancel"]

\* Two accounts used in turn: the first is provisioned, both ask for headers, and
\* a cancel may come at any time, before the libraries are loaded too.
TwoAccountCalls == {Headers(a1), Headers(a2), Start(a1), End(a1), CancelOf(a1)}

\* One account: headers, a start that finds no symbol, a cancel.
OneAccountCalls == {Headers(a1), Start(a1), CancelOf(a1)}

AllSymbols == {"load", "path", "android", "otp", "start", "end", "destroy"}

\* Both library files complete: every function is found in the first one but
\* the two that are asked of libCoreADI.
FullExports == [l \in LibNames |->
                  IF l = "ssc" THEN AllSymbols \ {"load", "otp"} ELSE {"load", "otp"}]

\* A build of the libraries without ADIProvisioningStart.
PoorExports == [l \in LibNames |-> FullExports[l] \ {"start"}]
================================================================================
