---------------------------- MODULE MCTransferJobs ----------------------------
(* Instances of TransferJobs for TLC.                                         *)
EXTENDS TransferJobs, TLC

CONSTANTS j1, j2, s1, s2, f1, f2

\* One job.
JustOne == j1 :> s1
JustOneFile == j1 :> f1
\* Two files for one server.
SameServer == j1 :> s1 @@ j2 :> s1
OwnFile    == j1 :> f1 @@ j2 :> f2
\* One file for two servers.
OwnServer  == j1 :> s1 @@ j2 :> s2
SameFile   == j1 :> f1 @@ j2 :> f1

\* Bound: the signal comes before the second run, which then does not begin.
EarlySignal == phase' \in {"unsubscribed", "closed"} => started' <= 1

WorkerSymmetry == Permutations(Workers)
===============================================================================
