------------------------------ MODULE MCHealthDb ------------------------------
(***************************************************************************)
(* Instances of HealthDb for TLC.                                           *)
(***************************************************************************)
EXTENDS HealthDb, TLC

CONSTANTS p1, p2, t1, t2, default, other, near, far

TwoThreads == {t1, t2}

\* Two threads of one process and two files it may be pointed at.
OneProcess == {p1}
BothInOne  == (t1 :> p1) @@ (t2 :> p1)
TwoFiles   == {default, other}
TwoIps     == {near, far}
Timestamps == {"timestamp"}
ThreadsOrIps == Permutations(TwoThreads) \cup Permutations(TwoIps)

\* Two processes of one thread each that share a file.
TwoProcesses == {p1, p2}
OneInEach    == (t1 :> p1) @@ (t2 :> p2)
OneFile      == {default}
OneIp        == {near}
ProbeKinds   == {"health", "timeout", "icmp_error"}
SwapProcesses == {(t1 :> t2) @@ (t2 :> t1) @@ (p1 :> p2) @@ (p2 :> p1)}

OneId  == {1}
TwoIds == 1 .. 2
=============================================================================
