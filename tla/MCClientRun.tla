---------------------------- MODULE MCClientRun ----------------------------
(* Instances of ClientRun for TLC.  Directories are as a configuration     *)
(* writes them, with what filepath.Clean makes of each.                    *)
EXTENDS ClientRun

MCNames == {"", "..", "m", "m*", "tv", "tv2", "2", "x", "y"}
MCSpecial == {"", ".."}
MCConcat == {<<"tv", "2", "tv2">>, <<"", "x", "x">>}
MCGlob == {<<n, n>> : n \in MCNames} \cup {<<"m*", "m">>}

Dir(raw, path) == [raw |-> raw, path |-> path]
Plainly(path) == Dir(path, path)

\* A directory whose name begins with the root's, a sub-directory, and a root that is
\* watched itself, so that a file has two watchers.
MCDirectories ==
    << [root |-> Plainly(<<"m", "tv">>), dir |-> Plainly(<<"m", "tv2">>)],
       [root |-> Plainly(<<"m">>), dir |-> Plainly(<<"m", "tv2">>)],
       [root |-> Plainly(<<"m">>), dir |-> Plainly(<<"m">>)] >>
MCServers == <<"a", "b", "c">>
MCFiles == {<<"m", "tv2", "y", "x">>}

\* The README's example: a directory that ends in a slash.
ExampleDirectories ==
    << [root |-> Plainly(<<"m">>), dir |-> Dir(<<"m", "tv", "">>, <<"m", "tv">>)] >>

\* Two roots, each with a file of the same name below it.
TwoRoots ==
    << [root |-> Plainly(<<"m", "tv">>), dir |-> Plainly(<<"m", "tv">>)],
       [root |-> Plainly(<<"m", "tv2">>), dir |-> Plainly(<<"m", "tv2">>)] >>
TwoFiles == {<<"m", "tv", "x">>, <<"m", "tv2", "x">>}

\* A root with a pattern, and a directory that ends in .. and so leaves its root.
OddDirectories ==
    << [root |-> Plainly(<<"m*">>), dir |-> Plainly(<<"m", "tv2">>)],
       [root |-> Plainly(<<"m", "tv2">>), dir |-> Dir(<<"m", "tv2", "..">>, <<"m">>)] >>

\* Bound: a watcher sticks when it is its turn to be closed.  Until then one that is stuck
\* and one that runs may take the same steps here.
LateSticks == \A d \in Dirs : watcher[d] = "running" /\ watcher'[d] = "stuck" =>
                closer = "watchers" /\ closing = d
=============================================================================
