--------------------------- MODULE MCTorrxferServer ---------------------------
(* Instances of TorrxferServer for TLC.                                       *)
EXTENDS TorrxferServer, TLC

CONSTANTS a1, a2, c1, c2, p1, p2, x, y, z

\* One job and its retry.
RetryClientOf == a1 :> c1 @@ a2 :> c1
\* One job, one attempt.
OneClientOf == a1 :> c1
\* Two jobs, one attempt each.
TwoClientOf == a1 :> c1 @@ a2 :> c2

OneClientPath == c1 :> p1
SamePath      == c1 :> p1 @@ c2 :> p1
TwoPaths      == c1 :> p1 @@ c2 :> p2

\* Contents of the source files.
OneBlock      == p1 :> {<<x>>}
OneVersion    == p1 :> {<<x, y>>}
ShortVersions == p1 :> {<<x>>, <<z>>}
OwnVersions   == p1 :> {<<x, y>>} @@ p2 :> {<<z>>}
Epoch         == {<<z>>}

\* RecordOf calls a record torn exactly if its text is not read back, here on a few
\* records.  A path or a prefix with the delimiter in it, which is never read back
\* either, is none of the model's.
Records == INSTANCE FileRecords WITH
    Strings <- {"path", "prefix"}, Trim <- [s \in {"path", "prefix"} |-> s],
    Times <- 0..2, Epoch <- 0, Unwritable <- {}, NoText <- 3, Error <- None, Panic <- Hole

ASSUME TornIsUnreadable ==
    \A path \in {<<"path">>, <<"path", "path">>}, prefix \in {<<"prefix">>, <<"prefix", "path">>},
       created, modified \in 0..2 :
        LET file == [fullPath |-> path, mediaPrefix |-> prefix, size |-> 2, currentSize |-> 1,
                     creationTime |-> created, modifiedTime |-> modified]
        IN  Records!ReadServer(Records!ServerText(file)) = None
              <=> created = 0 \/ Len(path \o prefix) > 2

\* Bound: the process ends once, by a kill or by a signal, and a signal finds
\* one of the attempts not started, which then never starts.
OneEnd ==
    /\ crashes' + stops' <= 1
    /\ stops' = 1 => \E a \in Attempts : client'[a] = "idle"

\* Bound: the process is killed or a source is removed, but not both.
OneLoss == crashes' = 0 \/ removed' = {}

\* Sound where all attempts have the same client ID.
AttemptSymmetry == Permutations({a1, a2})

\* Sound where each of two clients has one attempt and both have one path.
PairSymmetry ==
    {f \in Permutations({a1, a2, c1, c2}) :
        {f[a1], f[a2]} = {a1, a2} /\ (f[a1] = a1 <=> f[c1] = c1)}
==============================================================================
