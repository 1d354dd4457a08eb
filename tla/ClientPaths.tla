----------------------------- MODULE ClientPaths -----------------------------
(***************************************************************************)
(* Paths on the client and what the server makes of them: IsSubdir and     *)
(* CleanPath (path.go), the media prefix of a file (clientfile.go), and    *)
(* the path below the server's media directory (server.go).                *)
(*                                                                         *)
(* An absolute path is the sequence of its names, << >> being the root     *)
(* directory.  What strings can do and sequences of names cannot is in two *)
(* constants: a name may begin with another name, and a name that is read  *)
(* as a pattern may match others.  Paths have no links below them.         *)
(***************************************************************************)
EXTENDS Naturals, Sequences, SequencesExt

CONSTANTS
    Names,
    Special,    \* what is no name of a file: the empty one, . and ..
    Concat,     \* <<p, s, n>>: the name n is p followed by s
    Glob        \* <<p, n>>: the pattern p matches the name n

ASSUME NameConstants ==
    /\ Special \subseteq Names
    /\ Concat \subseteq Names \X Names \X Names
    /\ Glob \subseteq Names \X Names

Path == Seq(Names \ Special)

Parent(path) == Front(path)

\* A directory as the configuration writes it, and the path that filepath.Clean
\* makes of that.
Written == {w \in [raw : Seq(Names), path : Path] :
               Range(w.raw) \cap Special = {} => w.path = w.raw}

FaultyIsSubdir(root, sub) ==
    /\ Len(root.path) <= Len(sub.path)
    /\ \A i \in 1..Len(root.path) :
          \/ root.path[i] = sub.path[i]
          \/ i = Len(root.path) /\ \E s \in Names : <<root.path[i], s, sub.path[i]>> \in Concat

\* The same path, or the pattern root/* matches sub as it is written: * stands for
\* one name, and the root's own names are read as patterns.  Below the root
\* directory the pattern is //*, which matches no path that begins with one /.
IsSubdir(root, sub) ==
    \/ root.path = sub.path
    \/ /\ root.path # << >>
       /\ Len(sub.raw) = Len(root.path) + 1
       /\ \A i \in 1..Len(root.path) : <<root.path[i], sub.raw[i]>> \in Glob

\* strings.HasPrefix: all names of root but the last, and dir goes on with a name
\* that begins with the last.
HasPrefix(dir, root) ==
    \/ root = << >>
    \/ /\ Len(root) <= Len(dir)
       /\ Front(root) = SubSeq(dir, 1, Len(root) - 1)
       /\ \/ Last(root) = dir[Len(root)]
          \/ \E s \in Names : <<Last(root), s, dir[Len(root)]>> \in Concat

\* strings.TrimPrefix, where it applies.
TrimPrefix(dir, root) ==
    LET rest == SubSeq(dir, Len(root) + 1, Len(dir)) IN
    IF root = << >> \/ Last(root) = dir[Len(root)] THEN rest
    ELSE <<CHOOSE s \in Names : <<Last(root), s, dir[Len(root)]>> \in Concat>> \o rest

\* generateMediaPrefix for a file, with the empty prefix that NewClientFile takes
\* after an error: the root is not there, or the file is elsewhere.
MediaPrefix(file, root, exists) ==
    IF exists /\ HasPrefix(Parent(file), root)
    THEN TrimPrefix(Parent(file), root) ELSE << >>

\* getFullServerFilePath, below the server's media directory.
ServerPath(file, root, exists) ==
    MediaPrefix(file, root, exists) \o <<Last(file)>>
=============================================================================
