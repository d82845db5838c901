------------------------------- MODULE Windows -------------------------------
(***************************************************************************)
(* The sliding windows of the gateway: a deque of timestamps from which    *)
(* whatever is older than a cutoff is dropped at the front before a new    *)
(* one is appended at the end (rate_limit.py:180-189, ip_blocker.py:49-52, *)
(* core/apikeys.py:56-58, risk_scoring.py:67-70).                          *)
(***************************************************************************)
EXTENDS Integers, Sequences, FiniteSets

\* What "while window and window[0] < cutoff: popleft()" takes away.
Stale(q, cut) == {i \in 1 .. Len(q) : \A j \in 1 .. i : q[j] < cut}

\* ... and what it leaves.
Fresh(q, cut) == SubSeq(q, Cardinality(Stale(q, cut)) + 1, Len(q))

=============================================================================
