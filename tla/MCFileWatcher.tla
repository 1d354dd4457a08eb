---------------------------- MODULE MCFileWatcher ----------------------------
(* FileWatcher for TLC: paths and listeners are interchangeable.               *)
EXTENDS FileWatcher, TLC

WatcherSymmetry == Permutations(Paths) \cup Permutations(Listeners)
==============================================================================
