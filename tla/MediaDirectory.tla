--------------------------- MODULE MediaDirectory ---------------------------
(***************************************************************************)
(* What the server promises of its media directory, whatever sessions,     *)
(* writers, retries and crashes there are inside it: every step of the     *)
(* server leaves it alone, creates an empty file, puts one block of one of *)
(* the path's sources somewhere into the file of that path, or removes a   *)
(* file.  No file is ever cut, and nothing in it is changed but the block  *)
(* that is written.  TorrxferServer implements this specification.         *)
(***************************************************************************)
EXTENDS Naturals, Sequences

CONSTANTS
    Paths,      \* server paths
    None,       \* no file
    Hole,       \* a block that a write behind the end skipped
    Payload     \* [Paths -> the blocks that the sources of a path are made of]

VARIABLE files  \* [Paths -> content or None]

Init == files = [p \in Paths |-> None]

\* os.OpenFile with O_CREATE.
Create(p) ==
    /\ files[p] = None
    /\ files' = [files EXCEPT ![p] = << >>]

\* The content f after a write of b as its block number i.
Put(f, i, b) ==
    [k \in 1..(IF i <= Len(f) THEN Len(f) ELSE i) |->
        IF k = i THEN b ELSE IF k <= Len(f) THEN f[k] ELSE Hole]

\* io.Copy to the file, after a seek.
Write(p) ==
    /\ files[p] # None
    /\ files'[p] # None
    /\ \E i \in 1..Len(files'[p]), b \in Payload[p] :
          files' = [files EXCEPT ![p] = Put(@, i, b)]

\* os.Remove.
Remove(p) ==
    /\ files[p] # None
    /\ files' = [files EXCEPT ![p] = None]

Next == \E p \in Paths : Create(p) \/ Write(p) \/ Remove(p)

Spec == Init /\ [][Next]_files
=============================================================================
