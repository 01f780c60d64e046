------------------------------ MODULE MCNativeCore ------------------------------
(***************************************************************************)
(* Small instances of NativeCore.                                          *)
(***************************************************************************)
EXTENDS NativeCore, TLC

CONSTANTS a1, a2, i1, i2

TwoIds == [a \in {a1, a2} |-> IF a = a1 THEN i1 ELSE i2]

ThreadSymmetry == Permutations(Threads)

Headers(a) == [op |-> "headers", acct |-> a, pb |-> [acct |-> a, session |-> 1],
               session |-> NoSession]
Start(a)   == [op |-> "start", acct |-> a, pb |-> Empty, session |-> NoSession]
End(a)     == [op |-> "end", acct |-> a, pb |-> Empty, session |-> 1]
CancelOf(a) == [End(a) EXCEPT !.op = "cancel"]

AllCalls == {Headers(a1), Headers(a2), Start(a1), End(a1), CancelOf(a1)}

HeadersCalls == {Headers(a1), Headers(a2)}
================================================================================
