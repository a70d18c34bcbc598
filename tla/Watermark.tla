----------------------------- MODULE Watermark ------------------------------
(***************************************************************************)
(* What freshness promises (PROTOCOL.md section 7), for a device that has  *)
(* no disk and never stops: openers are answered in strictly increasing    *)
(* order of their timestamps.  A crash shows only when it follows a write  *)
(* that failed, and then, like a new pairing, it starts the order afresh.  *)
(***************************************************************************)
EXTENDS Naturals

VARIABLES
  high,  \* the latest timestamp answered since the order last started
  weak   \* the last write failed and none has succeeded since

vars == <<high, weak>>

Init == high = 0 /\ weak = FALSE

Answer == high' > high /\ UNCHANGED weak

WriteEnds == weak' \in BOOLEAN /\ UNCHANGED high

CrashWhileWeak == weak /\ weak' = FALSE /\ high' = 0

PairAgain == high' = 0 /\ UNCHANGED weak

Next == Answer \/ WriteEnds \/ CrashWhileWeak \/ PairAgain

Spec == Init /\ [][Next]_vars
=============================================================================
