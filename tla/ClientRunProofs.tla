--------------------------- MODULE ClientRunProofs ---------------------------
(***************************************************************************)
(* Theorems of ClientPaths and ClientRun: any names, servers and           *)
(* directories, any files, any capacity of the queue.                      *)
(***************************************************************************)
EXTENDS ClientRun, SequenceTheorems, TLAPS

-----------------------------------------------------------------------------
(* Where files get: whichever names begin with or match which others.      *)

\* What a proper prefix of a path is, name by name.
LEMMA PrefixNames ==
    ASSUME NEW S, NEW s \in Seq(S), NEW t \in Seq(S)
    PROVE  /\ IsPrefix(s, t) <=> Len(s) <= Len(t) /\ \A i \in 1..Len(s) : s[i] = t[i]
           /\ IsStrictPrefix(s, t) => Len(s) < Len(t)
<1> DEFINE n == Len(s)
<1>1. n \in Nat /\ Len(t) \in Nat /\ SubSeq(s, 1, n) = s
  BY LenProperties, SubSeqFull
<1>2. ASSUME n <= Len(t) PROVE SubSeq(t, 1, n) = s <=> \A i \in 1..n : s[i] = t[i]
  <2>1. /\ SubSeq(t, 1, n) \in Seq(S)
        /\ Len(SubSeq(t, 1, n)) = n
        /\ \A i \in 1..n : SubSeq(t, 1, n)[i] = t[i]
    <3>1. \A i \in 1..n : t[i] \in S
      BY <1>1, <1>2, ElementOfSeq
    <3> QED BY <1>1, <3>1, SubSeqProperties
  <2>2. ASSUME \A i \in 1..n : s[i] = t[i] PROVE SubSeq(t, 1, n) = s
    BY <2>1, <2>2, <1>1, SeqEqual
  <2> QED BY <2>1, <2>2
<1>3. IsPrefix(s, t) <=> n <= Len(t) /\ \A i \in 1..n : s[i] = t[i]
  BY <1>1, <1>2 DEF IsPrefix
<1>4. ASSUME IsStrictPrefix(s, t) PROVE n < Len(t)
  <2>1. n <= Len(t) /\ SubSeq(t, 1, n) = s /\ s # t
    BY <1>1, <1>4 DEF IsStrictPrefix, IsPrefix
  <2>2. n # Len(t)
    BY <2>1, SubSeqFull
  <2> QED BY <1>1, <2>1, <2>2
<1> QED BY <1>3, <1>4

LEMMA PrefixTransitive ==
    ASSUME NEW S, NEW s \in Seq(S), NEW t \in Seq(S), NEW u \in Seq(S),
           IsPrefix(s, t), IsStrictPrefix(t, u)
    PROVE  IsStrictPrefix(s, u)
<1>1. /\ Len(s) \in Nat /\ Len(t) \in Nat /\ Len(u) \in Nat
      /\ Len(s) <= Len(t) /\ Len(t) < Len(u)
      /\ \A i \in 1..Len(s) : s[i] = t[i]
      /\ \A i \in 1..Len(t) : t[i] = u[i]
  BY PrefixNames, LenProperties DEF IsStrictPrefix
<1>2. IsPrefix(s, u)
  BY <1>1, PrefixNames
<1>3. s # u
  BY <1>1
<1> QED BY <1>2, <1>3 DEF IsStrictPrefix

\* A part of a sequence, and parts that agree.
LEMMA PartNames ==
    ASSUME NEW S, NEW s \in Seq(S), NEW a \in Nat \ {0}, NEW b \in Nat, b <= Len(s)
    PROVE  /\ SubSeq(s, a, b) \in Seq(S)
           /\ Len(SubSeq(s, a, b)) = IF a <= b THEN b - a + 1 ELSE 0
           /\ a <= b + 1 => Len(SubSeq(s, a, b)) = b - a + 1
           /\ \A i \in 1..b-a+1 : SubSeq(s, a, b)[i] = s[a + i - 1]
<1>1. \A i \in a..b : s[i] \in S
  BY ElementOfSeq, LenProperties
<1> QED BY <1>1, SubSeqProperties

LEMMA SamePart ==
    ASSUME NEW S, NEW s \in Seq(S), NEW t \in Seq(S), NEW a \in Nat \ {0}, NEW b \in Nat,
           b <= Len(s), b <= Len(t), \A i \in a..b : s[i] = t[i]
    PROVE  SubSeq(s, a, b) = SubSeq(t, a, b)
<1>1. \A i \in 1..b-a+1 : a + i - 1 \in a..b
  OBVIOUS
<1>2. /\ SubSeq(s, a, b) \in Seq(S) /\ SubSeq(t, a, b) \in Seq(S)
      /\ Len(SubSeq(s, a, b)) = Len(SubSeq(t, a, b))
      /\ Len(SubSeq(s, a, b)) = IF a <= b THEN b - a + 1 ELSE 0
      /\ \A i \in 1..b-a+1 : SubSeq(s, a, b)[i] = s[a + i - 1]
      /\ \A i \in 1..b-a+1 : SubSeq(t, a, b)[i] = t[a + i - 1]
  BY PartNames
<1>3. \A i \in 1..Len(SubSeq(s, a, b)) : SubSeq(s, a, b)[i] = SubSeq(t, a, b)[i]
  BY <1>1, <1>2
<1> QED BY <1>2, <1>3, SeqEqual

\* The prefix that a file gets, and its own name, are what follows the root.
THEOREM PlaceBelowRoot ==
    ASSUME NEW root \in Path, NEW path \in Path, IsStrictPrefix(root, path)
    PROVE  root \o ServerPath(path, root, TRUE) = path
<1> DEFINE k == Len(root)
           m == Len(path)
           dir == Parent(path)
           S == Names \ Special
<1>1. /\ k \in Nat /\ m \in Nat /\ k < m
      /\ root \in Seq(S) /\ path \in Seq(S)
      /\ \A i \in 1..k : root[i] = path[i]
  BY PrefixNames, LenProperties DEF Path, IsStrictPrefix
<1>2. \A i \in 1..m : path[i] \in S
  BY <1>1, ElementOfSeq
<1>3. dir \in Seq(S) /\ Len(dir) = m - 1 /\ \A i \in 1..m-1 : dir[i] = path[i]
  <2>1. 1 \in Nat \ {0} /\ m - 1 \in Nat /\ m - 1 <= Len(path) /\ 1 <= (m-1) + 1
    BY <1>1
  <2>2. /\ SubSeq(path, 1, m-1) \in Seq(S)
        /\ Len(SubSeq(path, 1, m-1)) = (m-1) - 1 + 1
        /\ \A i \in 1..(m-1)-1+1 : SubSeq(path, 1, m-1)[i] = path[1 + i - 1]
    <3> HIDE DEF m, S
    <3> QED BY <1>1, <2>1, PartNames
  <2>3. dir = SubSeq(path, 1, m-1)
    BY DEF Parent, Front
  <2>4. \A i \in 1..m-1 : i \in 1..(m-1)-1+1 /\ 1 + i - 1 = i
    BY <2>1
  <2>5. (m-1) - 1 + 1 = m - 1
    BY <2>1
  <2> HIDE DEF S, dir
  <2> QED BY <2>2, <2>3, <2>4, <2>5
<1>4. HasPrefix(dir, root)
  <2>1. CASE root = << >>
    BY <2>1 DEF HasPrefix
  <2>2. CASE root # << >>
    <3>1. k >= 1
      BY <1>1, <2>2, EmptySeq
    <3>2. Last(root) = dir[k] /\ k <= Len(dir)
      BY <1>1, <1>3, <3>1 DEF Last
    <3>3. Front(root) = SubSeq(dir, 1, k - 1)
      <4>1. /\ \A i \in 1..k-1 : root[i] = dir[i]
            /\ 1 \in Nat \ {0} /\ k - 1 \in Nat /\ k - 1 <= Len(root) /\ k - 1 <= Len(dir)
        BY <1>1, <1>3, <3>1
      <4> QED BY <1>1, <1>3, <4>1, SamePart DEF Front
    <3> QED BY <3>2, <3>3 DEF HasPrefix
  <2> QED BY <2>1, <2>2
<1>5. TrimPrefix(dir, root) = SubSeq(dir, k + 1, Len(dir))
  <2>1. CASE root = << >>
    BY <2>1 DEF TrimPrefix
  <2>2. CASE root # << >>
    <3>1. k >= 1
      BY <1>1, <2>2, EmptySeq
    <3>2. Last(root) = dir[k]
      BY <1>1, <1>3, <3>1 DEF Last
    <3> QED BY <3>2 DEF TrimPrefix
  <2> QED BY <2>1, <2>2
<1>6. ServerPath(path, root, TRUE) = SubSeq(dir, k + 1, m - 1) \o <<path[m]>>
  BY <1>3, <1>4, <1>5 DEF ServerPath, MediaPrefix, Last
<1>7. SubSeq(dir, k + 1, m - 1) = SubSeq(path, k + 1, m - 1)
  <2>1. /\ \A i \in k+1..m-1 : path[i] = dir[i]
        /\ k + 1 \in Nat \ {0} /\ m - 1 \in Nat /\ m - 1 <= Len(path) /\ m - 1 <= Len(dir)
    BY <1>1, <1>3
  <2> QED BY <1>1, <1>3, <2>1, SamePart
<1>8. SubSeq(path, k + 1, m - 1) \o <<path[m]>> = SubSeq(path, k + 1, m)
  <2>1. k + 1 \in 1..Len(path) /\ m \in k+1..Len(path)
    BY <1>1
  <2> QED BY <1>1, <2>1, SubSeqRecursiveSecond
<1>9. root = SubSeq(path, 1, k)
  <2>1. IsPrefix(root, path)
    BY DEF IsStrictPrefix
  <2> QED BY <1>1, <2>1, SubSeqFull DEF IsPrefix
<1>10. SubSeq(path, 1, k) \o SubSeq(path, k + 1, m) = path
  <2>1. 1 \in 1..Len(path)+1 /\ k \in 1-1..Len(path) /\ m \in k..Len(path)
    BY <1>1
  <2>2. SubSeq(path, 1, k) \o SubSeq(path, k + 1, m) = SubSeq(path, 1, m)
    BY <1>1, <2>1, ConcatAdjacentSubSeq
  <2> QED BY <1>1, <2>2, SubSeqFull
<1> QED BY <1>6, <1>7, <1>8, <1>9, <1>10

\* A directory that IsSubdir accepts is at its root or below it, if the root's names
\* match only themselves and the directory's own names are names of files.
THEOREM AcceptedIsBelow ==
    ASSUME NEW root \in Written, NEW sub \in Written, IsSubdir(root, sub),
           \A p \in Range(root.path), n \in Names : <<p, n>> \in Glob <=> n = p,
           Range(sub.raw) \cap Special = {}
    PROVE  IsPrefix(root.path, sub.path)
<1>1. /\ root.path \in Seq(Names) /\ sub.path \in Seq(Names) /\ sub.raw \in Seq(Names)
      /\ sub.path = sub.raw
  <2>1. root.path \in Seq(Names \ Special) /\ sub.path \in Seq(Names \ Special)
        /\ sub.raw \in Seq(Names) /\ sub.path = sub.raw
    BY DEF Written, Path
  <2> QED BY <2>1, SeqMonotonic
<1>2. CASE root.path = sub.path
  BY <1>1, <1>2, PrefixNames, LenProperties
<1>3. CASE /\ Len(sub.raw) = Len(root.path) + 1
           /\ \A i \in 1..Len(root.path) : <<root.path[i], sub.raw[i]>> \in Glob
  <2>1. \A i \in 1..Len(root.path) : root.path[i] \in Range(root.path)
    BY <1>1, RangeEquality
  <2>2. \A i \in 1..Len(root.path) : sub.raw[i] \in Names
    BY <1>1, <1>3, ElementOfSeq, LenProperties
  <2>3. \A i \in 1..Len(root.path) : sub.raw[i] = root.path[i]
    BY <1>3, <2>1, <2>2
  <2>4. \A i \in 1..Len(root.path) : root.path[i] = sub.path[i]
    BY <1>1, <2>3
  <2> QED BY <1>1, <1>3, <2>4, PrefixNames, LenProperties
<1> QED BY <1>2, <1>3 DEF IsSubdir

\* Below a root that is watched, files that are two have two places on the server.
THEOREM PlacesBelowRoot ==
    ASSUME NEW root \in Path, NEW f \in Path, NEW g \in Path,
           IsStrictPrefix(root, f), IsStrictPrefix(root, g),
           ServerPath(f, root, TRUE) = ServerPath(g, root, TRUE)
    PROVE  f = g
BY PlaceBelowRoot

-----------------------------------------------------------------------------
(* The run.                                                                *)

USE ConfigConstants

\* A forwarder that makes jobs makes them of a file.
FileKnown == \A d \in Dirs : forwarder[d] = "send" => file[d] \in Files

TypeInv == TypeOK /\ FileKnown

\* Sequences as channels: what is put in and taken out.
LEMMA Channel ==
    ASSUME NEW S, NEW q \in Seq(S)
    PROVE  /\ \A e \in S : /\ Append(q, e) \in Seq(S) /\ Len(Append(q, e)) = Len(q) + 1
                           /\ Range(Append(q, e)) = Range(q) \cup {e}
           /\ q # << >> => /\ Head(q) \in S
                           /\ Tail(q) \in Seq(S)
                           /\ Len(Tail(q)) = Len(q) - 1
                           /\ Range(q) = Range(Tail(q)) \cup {Head(q)}
<1>1. ASSUME NEW e \in S
      PROVE  /\ Append(q, e) \in Seq(S) /\ Len(Append(q, e)) = Len(q) + 1
             /\ Range(Append(q, e)) = Range(q) \cup {e}
  <2>1. Append(q, e) \in Seq(S) /\ Append(q, e) = q \o <<e>> /\ Len(Append(q, e)) = Len(q) + 1
    BY AppendProperties, AppendIsConcat
  <2>2. <<e>> \in Seq(S) /\ Range(<<e>>) = {e}
    BY DEF Range
  <2>3. Range(q \o <<e>>) = Range(q) \cup Range(<<e>>)
    <3> DEFINE t == <<e>>
    <3>1. t \in Seq(S)
      BY <2>2
    <3> HIDE DEF t
    <3>2. Range(q \o t) = Range(q) \cup Range(t)
      BY <3>1, RangeConcatenation
    <3> QED BY <3>2 DEF t
  <2> QED BY <2>1, <2>2, <2>3
<1>2. ASSUME q # << >>
      PROVE  /\ Head(q) \in S /\ Tail(q) \in Seq(S) /\ Len(Tail(q)) = Len(q) - 1
             /\ Range(q) = Range(Tail(q)) \cup {Head(q)}
  <2>1. Head(q) \in S /\ Tail(q) \in Seq(S) /\ Len(Tail(q)) = Len(q) - 1
    BY <1>2, HeadTailProperties
  <2>2. q = <<Head(q)>> \o Tail(q)
    BY <1>2
  <2>3. <<Head(q)>> \in Seq(S) /\ Range(<<Head(q)>>) = {Head(q)}
    BY <2>1 DEF Range
  <2>4. Range(<<Head(q)>> \o Tail(q)) = Range(<<Head(q)>>) \cup Range(Tail(q))
    <3> DEFINE h == <<Head(q)>>
               t == Tail(q)
    <3>1. h \in Seq(S) /\ t \in Seq(S)
      BY <2>1, <2>3
    <3> HIDE DEF h, t
    <3>2. Range(h \o t) = Range(h) \cup Range(t)
      BY <3>1, RangeConcatenation
    <3> QED BY <3>2 DEF h, t
  <2>5. Range(q) = {Head(q)} \cup Range(Tail(q))
    BY <2>2, <2>3, <2>4
  <2> QED BY <2>1, <2>5
<1> QED BY <1>1, <1>2

LEMMA TypeInit == Init => TypeInv
<1> SUFFICES ASSUME Init PROVE TypeInv
  OBVIOUS
<1>1. << >> \in Seq(Job) /\ << >> \in Seq(Subscribers) /\ << >> \in Seq(Range(Servers))
  OBVIOUS
<1>2. Len(queued) = 0 /\ 0 <= QueueCap
  BY DEF Init
<1>3. closing \in Nat \ {0} /\ found \in Seq(Subscribers) /\ at \in Nat
  BY <1>1 DEF Init
<1>4. /\ channels \in Seq(Subscribers) /\ queued \in Seq(Job)
      /\ connections \in Seq(Range(Servers))
      /\ snapshot \in [Subscribers -> Seq(Subscribers)]
  BY <1>1 DEF Init
<1>5. TypeOK
  BY <1>2, <1>3, <1>4 DEF Init, TypeOK
<1>6. FileKnown
  BY DEF Init, FileKnown
<1> QED BY <1>5, <1>6 DEF TypeInv

LEMMA TypeStep == TypeInv /\ [Next]_vars => TypeInv'
<1> SUFFICES ASSUME TypeInv, [Next]_vars PROVE TypeInv'
  OBVIOUS
<1> USE DEF TypeInv, TypeOK, FileKnown, mainVars, watchVars, subVars, closerVars, MainGoes,
        WatchGoes, WatcherMoves, CloserGoes
<1>1. CASE Connect
  <2>1. Servers[at] \in Range(Servers)
    BY <1>1 DEF Connect, Named, Range
  <2>2. connections' \in Seq(Range(Servers))
    BY <1>1, <2>1, Channel DEF Connect
  <2> QED BY <1>1, <2>2 DEF Connect
<1>2. CASE ReadConfig \/ ReadConfigFails \/ ConnectFails \/ Connected \/ RefuseDirectory
           \/ Watched \/ SetConfig \/ SetQueue \/ MainEnds
  <2>1. CASE ReadConfig \/ Watched
    BY <2>1 DEF ReadConfig, Watched
  <2>2. CASE ReadConfigFails \/ MainEnds
    BY <2>2 DEF ReadConfigFails, MainEnds
  <2>3. CASE ConnectFails \/ Connected \/ RefuseDirectory
    <3>1. at' \in Nat
      BY <2>3 DEF ConnectFails, Connected, RefuseDirectory
    <3>2. main' \in {"connect", "watch"}
      BY <2>3 DEF ConnectFails, Connected, RefuseDirectory
    <3>3. /\ UNCHANGED <<queued, jobs, seen, file, made, channels, snapshot, ended, phase>>
          /\ UNCHANGED <<connections, config, queue, watcher, forwarder, subscriber,
                         closerVars>>
      BY <2>3 DEF ConnectFails, Connected, RefuseDirectory
    <3> QED BY <3>1, <3>2, <3>3
  <2>4. CASE SetConfig \/ SetQueue
    BY <2>4 DEF SetConfig, SetQueue
  <2> QED BY <1>2, <2>1, <2>2, <2>3, <2>4
<1>3. CASE NewFileWatcher \/ AddWatcher
  <2>1. CASE NewFileWatcher
    BY <2>1 DEF NewFileWatcher
  <2>2. CASE AddWatcher
    <3>1. /\ forwarder' = [forwarder EXCEPT ![at] = "start"] /\ at' = at + 1 /\ main' = "watch"
          /\ UNCHANGED <<queued, jobs, seen, file, made, channels, snapshot, ended, phase,
                         connections, config, queue, watcher, subscriber, closerVars>>
      BY <2>2 DEF AddWatcher
    <3>2. forwarder' \in [Dirs -> {"none", "start", "ready", "send", "stuck", "deaf", "done"}]
      BY <3>1
    <3>3. \A d \in Dirs : forwarder'[d] = "send" => forwarder[d] = "send"
      BY <3>1
    <3>4. FileKnown'
      BY <3>1, <3>3
    <3> QED BY <3>1, <3>2, <3>4
  <2> QED BY <1>3, <2>1, <2>2
<1>4. CASE Return
  BY <1>4 DEF Return
<1>5. ASSUME NEW s \in Subscribers, RegisterReads(s) PROVE TypeInv'
  BY <1>5 DEF RegisterReads
<1>6. ASSUME NEW s \in Subscribers, RegisterWrites(s) PROVE TypeInv'
  <2>1. channels' \in Seq(Subscribers)
    BY <1>6, Channel DEF RegisterWrites
  <2>2. /\ subscriber' \in [Subscribers -> {"none", "read", "write", "done"}]
        /\ UNCHANGED <<mainVars, queued, jobs, watchVars, snapshot, closerVars, ended, phase>>
    BY <1>6 DEF RegisterWrites
  <2> QED BY <2>1, <2>2
<1>7. ASSUME NEW d \in Dirs, WatcherStep(d) \/ Sticks(d) \/ AddFails(d) PROVE TypeInv'
  <2>1. ASSUME NEW to \in {"scan", "running", "stuck", "ended"},
               watcher' = [watcher EXCEPT ![d] = to],
               UNCHANGED <<mainVars, queued, jobs, subVars, closerVars, ended, seen, forwarder,
                           file, made, phase>>
        PROVE  TypeInv'
    BY <2>1
  <2>2. PICK to \in {"scan", "running", "stuck", "ended"} :
            /\ watcher' = [watcher EXCEPT ![d] = to]
            /\ UNCHANGED <<mainVars, queued, jobs, subVars, closerVars, ended, seen, forwarder,
                           file, made, phase>>
    BY <1>7 DEF WatcherStep, Sticks, AddFails
  <2> QED BY <2>1, <2>2
<1>8. ASSUME NEW d \in Dirs, Listen(d) \/ SendBlocks(d) \/ SendPanics(d) \/ ForwarderEnds(d)
      PROVE  TypeInv'
  <2>1. CASE Listen(d)
    BY <2>1 DEF Listen
  <2>2. CASE SendBlocks(d)
    BY <2>2 DEF SendBlocks
  <2>3. CASE SendPanics(d)
    BY <2>3 DEF SendPanics
  <2>4. CASE ForwarderEnds(d)
    BY <2>4 DEF ForwarderEnds
  <2> QED BY <1>8, <2>1, <2>2, <2>3, <2>4
<1>9. ASSUME NEW d \in Dirs, NEW f \in Files, HandOver(d, f) PROVE TypeInv'
  BY <1>9 DEF HandOver
<1>10. ASSUME NEW d \in Dirs, Send(d) PROVE TypeInv'
  <2> DEFINE job == [dir |-> d, file |-> file[d], server |-> connections[made[d] + 1]]
  <2>1. file[d] \in Files /\ made[d] + 1 \in 1..Len(connections)
    BY <1>10 DEF Send
  <2>2. job \in Job
    BY <2>1, ElementOfSeq DEF Job
  <2>3. queued' = Append(queued, job) /\ Len(queued) < QueueCap
    BY <1>10 DEF Send
  <2> HIDE DEF job
  <2>4. queued' \in Seq(Job) /\ Len(queued') <= QueueCap
    BY <2>2, <2>3, Channel
  <2> QED BY <1>10, <2>4 DEF Send
<1>11. ASSUME NEW d \in Dirs, Sent(d) PROVE TypeInv'
  BY <1>11 DEF Sent
<1>12. CASE Dispatch
  <2>1. Head(queued) \in Job /\ queued' \in Seq(Job) /\ Len(queued') <= QueueCap
    BY <1>12, Channel DEF Dispatch
  <2> QED BY <1>12, <2>1 DEF Dispatch
<1>13. CASE Complete
  BY <1>13 DEF Complete
<1>14. CASE CloserStep \/ Signal
  <2>1. CASE CloseChannel
    <3>1. closing \in 1..Len(found) /\ found \in Seq(Subscribers)
      BY <2>1, LenProperties DEF CloseChannel
    <3>2. found[closing] \in Subscribers
      BY <3>1, ElementOfSeq
    <3> QED BY <2>1, <3>2 DEF CloseChannel
  <2>2. CASE CloseWatcher
    BY <2>2 DEF CloseWatcher
  <2>3. CASE WatchersClosed \/ ChannelsClosed
    BY <2>3 DEF WatchersClosed, ChannelsClosed
  <2>4. CASE Arm \/ Signal \/ ClosePanics \/ CloseQueue
    BY <2>4 DEF Arm, Signal, ClosePanics, CloseQueue
  <2> QED BY <1>14, <2>1, <2>2, <2>3, <2>4 DEF CloserStep
<1>15. CASE UNCHANGED vars
  BY <1>15 DEF vars
<1> QED
  BY <1>1, <1>2, <1>3, <1>4, <1>5, <1>6, <1>7, <1>8, <1>9, <1>10, <1>11, <1>12, <1>13,
     <1>14, <1>15 DEF Next, MainStep, ForwarderStep

LEMMA TypeInvariant == Spec => []TypeInv
BY TypeInit, TypeStep, PTL DEF Spec

\* The client's variables keep their types, and the queue its capacity.
THEOREM TypeCorrect == Spec => []TypeOK
<1>1. TypeInv => TypeOK
  BY DEF TypeInv
<1> QED BY <1>1, TypeInvariant, PTL

-----------------------------------------------------------------------------
\* The order of the start: the configuration before the queue, the queue before any
\* job, and all of it before the goroutine that a signal wakes, which closes the queue
\* last.
StartOrder ==
    /\ main \in {"queue", "spawn", "range"} => config
    /\ queue # "nil" => main \in {"spawn", "range"}
    /\ jobs # {} \/ queued # << >> => queue # "nil"
    /\ closer # "none" => main = "range"
    /\ queue = "closed" => closer = "done"
    /\ NoPanicBeforeSignal

\* A directory that is watched was accepted, and after the servers were connected; its
\* watcher hands over files below it, and a job is for such a file.
Watching ==
    /\ \A d \in Dirs : watcher[d] # "none" => Accepted(d) /\ main \notin {"read", "connect"}
    /\ \A d \in Dirs : seen[d] # {} => watcher[d] # "none"
    /\ \A d \in Dirs : \A f \in seen[d] : IsStrictPrefix(Directories[d].dir.path, f)
    /\ \A d \in Dirs : IF forwarder[d] \in {"send", "stuck"} THEN file[d] \in seen[d]
                                                          ELSE file[d] = << >>
    /\ \A j \in Made : j.file \in seen[j.dir]

\* Every server that has an address is connected before any file is seen; and each file
\* has its jobs, up to the connection that its forwarder has come to.
Has(d, f, k) == [dir |-> d, file |-> f, server |-> connections[k]] \in Made

Served ==
    /\ main = "read" => at = 1
    /\ \A i \in Named : main \notin {"read", "connect"} \/ i < at =>
           \E k \in 1..Len(connections) : connections[k] = Servers[i]
    /\ \A d \in Dirs : made[d] <= Len(connections)
    /\ \A d \in Dirs : \A k \in 1..made[d] : file[d] # << >> => Has(d, file[d], k)
    /\ \A d \in Dirs : \A f \in seen[d] \ {file[d]} : \A k \in 1..Len(connections) : Has(d, f, k)

IInv == TypeInv /\ StartOrder /\ Watching /\ Served

LEMMA InvInit == Init => StartOrder /\ Watching /\ Served
<1> SUFFICES ASSUME Init PROVE StartOrder /\ Watching /\ Served
  OBVIOUS
<1>1. Made = {}
  BY DEF Init, Made, Range
<1>2. StartOrder
  BY DEF Init, StartOrder, NoPanicBeforeSignal
<1>3. Watching
  BY <1>1 DEF Init, Watching
<1>4. Served
  BY DEF Init, Served, Named
<1> QED BY <1>2, <1>3, <1>4

LEMMA OrderStep == TypeInv /\ StartOrder /\ [Next]_vars => StartOrder'
<1> SUFFICES ASSUME TypeInv, StartOrder, [Next]_vars PROVE StartOrder'
  OBVIOUS
<1> USE DEF StartOrder, NoPanicBeforeSignal, mainVars, watchVars, subVars, closerVars, MainGoes,
        WatchGoes, WatcherMoves, CloserGoes
<1>1. CASE Next
  <2>1. phase = "running"
    BY <1>1 DEF Next
  <2>2. CASE MainStep
    BY <2>1, <2>2 DEF MainStep, Connect, ReadConfig, ReadConfigFails, ConnectFails, Connected,
          RefuseDirectory, Watched, SetConfig, SetQueue, MainEnds, NewFileWatcher, AddWatcher,
          Return
  <2>3. ASSUME NEW s \in Subscribers, RegisterReads(s) \/ RegisterWrites(s) PROVE StartOrder'
    BY <2>3 DEF RegisterReads, RegisterWrites
  <2>4. ASSUME NEW d \in Dirs, WatcherStep(d) \/ Sticks(d) \/ AddFails(d) PROVE StartOrder'
    BY <2>4 DEF WatcherStep, Sticks, AddFails
  <2>5. ASSUME NEW d \in Dirs, ForwarderStep(d) PROVE StartOrder'
    BY <2>1, <2>5 DEF ForwarderStep, Listen, Send, SendBlocks, SendPanics, Sent, ForwarderEnds
  <2>6. ASSUME NEW d \in Dirs, NEW f \in Files, HandOver(d, f) PROVE StartOrder'
    BY <2>6 DEF HandOver
  <2>7. CASE Dispatch
    BY <2>7 DEF Dispatch
  <2>8. CASE Complete
    BY <2>1, <2>8 DEF Complete
  <2>9. CASE CloserStep \/ Signal
    BY <2>1, <2>9 DEF CloserStep, Arm, Signal, CloseWatcher, WatchersClosed,
                      ClosePanics, CloseChannel, ChannelsClosed,
                      CloseQueue
  <2> QED
    BY <1>1, <2>2, <2>3, <2>4, <2>5, <2>6, <2>7, <2>8, <2>9 DEF Next
<1>2. CASE UNCHANGED vars
  BY <1>2 DEF vars
<1> QED BY <1>1, <1>2

\* Only a send adds a job.
LEMMA MadeStep ==
    ASSUME TypeInv, [Next]_vars
    PROVE  \/ UNCHANGED <<Made, connections>>
           \/ UNCHANGED Made /\ Connect
           \/ \E d \in Dirs :
                 /\ Send(d)
                 /\ Made' = Made \cup {[dir |-> d, file |-> file[d],
                                        server |-> connections[made[d] + 1]]}
                 /\ [dir |-> d, file |-> file[d], server |-> connections[made[d] + 1]] \in Job
<1> USE DEF mainVars, watchVars, subVars, closerVars, MainGoes, WatchGoes, WatcherMoves, CloserGoes
<1>1. CASE UNCHANGED <<queued, jobs, connections>>
  BY <1>1 DEF Made
<1>2. CASE Connect
  BY <1>2 DEF Connect, Made
<1>3. CASE MainStep /\ ~Connect
  BY <1>1, <1>3 DEF MainStep, ReadConfig, ReadConfigFails, ConnectFails, Connected,
        RefuseDirectory, Watched, SetConfig, SetQueue, MainEnds, NewFileWatcher, AddWatcher,
        Return
<1>4. ASSUME NEW s \in Subscribers, RegisterReads(s) \/ RegisterWrites(s)
      PROVE  UNCHANGED <<queued, jobs, connections>>
  BY <1>4 DEF RegisterReads, RegisterWrites
<1>5. ASSUME NEW d \in Dirs, WatcherStep(d) \/ Sticks(d) \/ AddFails(d)
      PROVE  UNCHANGED <<queued, jobs, connections>>
  BY <1>5 DEF WatcherStep, Sticks, AddFails
<1>6. ASSUME NEW d \in Dirs, Listen(d) \/ SendBlocks(d) \/ SendPanics(d) \/ Sent(d)
                            \/ ForwarderEnds(d)
      PROVE  UNCHANGED <<queued, jobs, connections>>
  BY <1>6 DEF Listen, SendBlocks, SendPanics, Sent, ForwarderEnds
<1>7. ASSUME NEW d \in Dirs, NEW f \in Files, HandOver(d, f)
      PROVE  UNCHANGED <<queued, jobs, connections>>
  BY <1>7 DEF HandOver
<1>8. ASSUME NEW d \in Dirs, Send(d)
      PROVE  LET job == [dir |-> d, file |-> file[d], server |-> connections[made[d] + 1]] IN
             job \in Job /\ Made' = Made \cup {job}
  <2> DEFINE job == [dir |-> d, file |-> file[d], server |-> connections[made[d] + 1]]
  <2>1. file[d] \in Files /\ made[d] + 1 \in 1..Len(connections)
    BY <1>8 DEF Send, TypeInv, TypeOK, FileKnown
  <2>2. job \in Job /\ queued \in Seq(Job)
    BY <2>1, ElementOfSeq DEF Job, TypeInv, TypeOK
  <2>3. queued' = Append(queued, job) /\ jobs' = jobs
    BY <1>8 DEF Send
  <2> HIDE DEF job
  <2>4. Range(queued') = Range(queued) \cup {job}
    BY <2>2, <2>3, Channel
  <2>5. job \in Job /\ Made' = Made \cup {job}
    BY <2>2, <2>3, <2>4 DEF Made
  <2> QED BY <2>5 DEF job
<1>9. CASE Dispatch
  <2>1. queued \in Seq(Job) /\ queued # << >>
    BY <1>9 DEF Dispatch, TypeInv, TypeOK
  <2>2. Range(queued) = Range(Tail(queued)) \cup {Head(queued)}
    BY <2>1, Channel
  <2>3. queued' = Tail(queued) /\ jobs' = jobs \cup {Head(queued)} /\ UNCHANGED connections
    BY <1>9 DEF Dispatch
  <2> QED BY <2>2, <2>3 DEF Made
<1>10. CASE Complete \/ CloserStep \/ Signal
  <2>1. UNCHANGED <<queued, jobs, connections>>
    BY <1>10 DEF Complete, CloserStep, Arm, Signal, CloseWatcher, WatchersClosed,
                 ClosePanics, CloseChannel, ChannelsClosed,
                 CloseQueue
  <2> QED BY <1>1, <2>1
<1>11. CASE UNCHANGED vars
  BY <1>1, <1>11 DEF vars
<1> QED
  BY <1>1, <1>2, <1>3, <1>4, <1>5, <1>6, <1>7, <1>8, <1>9, <1>10, <1>11 DEF Next, ForwarderStep

\* Files that were handed over stay so.
LEMMA SeenGrows ==
    ASSUME TypeInv, [Next]_vars, NEW d \in Dirs
    PROVE  seen[d] \subseteq seen'[d]
<1> USE DEF mainVars, watchVars, subVars, closerVars, MainGoes, WatchGoes, WatcherMoves, CloserGoes
<1>1. ASSUME NEW e \in Dirs, NEW f \in Files, HandOver(e, f) PROVE seen[d] \subseteq seen'[d]
  BY <1>1 DEF HandOver, TypeInv, TypeOK
<1>2. ASSUME NEW e \in Dirs, WatcherStep(e) \/ Sticks(e) \/ AddFails(e) \/ ForwarderStep(e)
      PROVE  UNCHANGED seen
  BY <1>2 DEF WatcherStep, Sticks, AddFails, ForwarderStep, Listen, Send, SendBlocks, SendPanics, Sent,
              ForwarderEnds
<1>3. CASE MainStep
  BY <1>3 DEF MainStep, Connect, ReadConfig, ReadConfigFails, ConnectFails, Connected,
        RefuseDirectory, Watched, SetConfig, SetQueue, MainEnds, NewFileWatcher, AddWatcher,
        Return
<1>4. ASSUME NEW s \in Subscribers, RegisterReads(s) \/ RegisterWrites(s) PROVE UNCHANGED seen
  BY <1>4 DEF RegisterReads, RegisterWrites
<1>5. CASE Dispatch \/ Complete \/ CloserStep \/ Signal
  BY <1>5 DEF Dispatch, Complete, CloserStep, Arm, Signal, CloseWatcher, WatchersClosed,
              ClosePanics,
              CloseChannel, ChannelsClosed, CloseQueue
<1>6. CASE UNCHANGED vars
  BY <1>6 DEF vars
<1> QED BY <1>1, <1>2, <1>3, <1>4, <1>5, <1>6 DEF Next

LEMMA WatchingStep == TypeInv /\ Watching /\ [Next]_vars => Watching'
<1> SUFFICES ASSUME TypeInv, Watching, [Next]_vars PROVE Watching'
  OBVIOUS
<1> DEFINE Rest == /\ \A d \in Dirs : watcher[d] # "none" => Accepted(d) /\ main \notin {"read", "connect"}
                   /\ \A d \in Dirs : seen[d] # {} => watcher[d] # "none"
                   /\ \A d \in Dirs : \A f \in seen[d] : IsStrictPrefix(Directories[d].dir.path, f)
                   /\ \A d \in Dirs : IF forwarder[d] \in {"send", "stuck"} THEN file[d] \in seen[d]
                                                                         ELSE file[d] = << >>
<1>1. \A j \in Made' : j.file \in seen'[j.dir]
  <2>1. \A j \in Made : j \in Job
    BY RangeOfSeq DEF Made, TypeInv, TypeOK
  <2>2. \A j \in Made : j.file \in seen'[j.dir]
    BY <2>1, SeenGrows DEF Watching, Job
  <2>3. ASSUME NEW d \in Dirs, Send(d) PROVE file[d] \in seen'[d]
    BY <2>3, SeenGrows DEF Send, Watching
  <2>4. CASE UNCHANGED Made
    BY <2>2, <2>4
  <2>5. ASSUME NEW d \in Dirs, Send(d),
               Made' = Made \cup {[dir |-> d, file |-> file[d],
                                  server |-> connections[made[d] + 1]]}
        PROVE  \A j \in Made' : j.file \in seen'[j.dir]
    BY <2>2, <2>3, <2>5
  <2> QED BY <2>4, <2>5, MadeStep
<1>2. Rest'
  <2> USE DEF Watching, TypeInv, TypeOK, mainVars, watchVars, subVars, closerVars, MainGoes,
          WatchGoes, WatcherMoves, CloserGoes, Accepted
  <2>1. CASE ReadConfig \/ ReadConfigFails \/ Connect \/ ConnectFails \/ Connected
    BY <2>1 DEF ReadConfig, ReadConfigFails, Connect, ConnectFails, Connected
  <2>2. CASE RefuseDirectory \/ Watched \/ SetConfig \/ SetQueue \/ Return \/ MainEnds
    BY <2>2 DEF RefuseDirectory, Watched, SetConfig, SetQueue, Return, MainEnds
  <2>3. CASE NewFileWatcher
    BY <2>3 DEF NewFileWatcher
  <2>4. CASE AddWatcher
    <3>1. /\ \A d \in Dirs : forwarder[d] \notin {"send", "stuck"} /\ forwarder'[d] \notin {"send", "stuck"}
          /\ main' = "watch" /\ UNCHANGED <<watcher, seen, file>>
      BY <2>4 DEF AddWatcher
    <3> QED BY <3>1
  <2>5. ASSUME NEW s \in Subscribers, RegisterReads(s) \/ RegisterWrites(s) PROVE Rest'
    BY <2>5 DEF RegisterReads, RegisterWrites
  <2>6. ASSUME NEW d \in Dirs, WatcherStep(d) \/ Sticks(d) \/ AddFails(d) PROVE Rest'
    <3>1. /\ UNCHANGED <<main, seen, forwarder, file>> /\ watcher[d] # "none"
          /\ \E to \in {"scan", "running", "stuck", "ended"} : watcher' = [watcher EXCEPT ![d] = to]
      BY <2>6 DEF WatcherStep, Sticks, AddFails
    <3> QED BY <3>1
  <2>7. ASSUME NEW d \in Dirs, Listen(d) \/ SendBlocks(d) \/ SendPanics(d) PROVE Rest'
    <3>1. CASE Listen(d)
      BY <3>1 DEF Listen
    <3>2. CASE SendBlocks(d)
      BY <3>2 DEF SendBlocks
    <3>3. CASE SendPanics(d)
      BY <3>3 DEF SendPanics
    <3> QED BY <2>7, <3>1, <3>2, <3>3
  <2>8. ASSUME NEW d \in Dirs, Send(d) \/ Sent(d) \/ ForwarderEnds(d) PROVE Rest'
    <3>1. CASE Send(d)
      BY <3>1 DEF Send
    <3>2. CASE Sent(d)
      BY <3>2 DEF Sent
    <3>3. CASE ForwarderEnds(d)
      BY <3>3 DEF ForwarderEnds
    <3> QED BY <2>8, <3>1, <3>2, <3>3
  <2>9. ASSUME NEW d \in Dirs, NEW f \in Files, HandOver(d, f) PROVE Rest'
    BY <2>9 DEF HandOver
  <2>10. CASE Dispatch \/ Complete
    BY <2>10 DEF Dispatch, Complete
  <2>11. CASE CloserStep \/ Signal
    <3>1. UNCHANGED <<main, seen, forwarder, file>>
      BY <2>11 DEF CloserStep, Signal, Arm, CloseWatcher, WatchersClosed,
                   ClosePanics, CloseChannel, ChannelsClosed, CloseQueue
    <3>2. \A d \in Dirs : watcher'[d] = "none" <=> watcher[d] = "none"
      BY <2>11 DEF CloserStep, Signal, Arm, CloseWatcher, WatchersClosed,
                   ClosePanics, CloseChannel, ChannelsClosed, CloseQueue
    <3> QED BY <3>1, <3>2
  <2>12. CASE UNCHANGED vars
    BY <2>12 DEF vars
  <2> QED
    BY <2>1, <2>2, <2>3, <2>4, <2>5, <2>6, <2>7, <2>8, <2>9, <2>10, <2>11, <2>12
    DEF Next, MainStep, ForwarderStep
<1> QED BY <1>1, <1>2 DEF Watching

LEMMA ServedStep == TypeInv /\ Watching /\ Served /\ [Next]_vars => Served'
<1> SUFFICES ASSUME TypeInv, Watching, Served, [Next]_vars PROVE Served'
  OBVIOUS
<1>1. ASSUME UNCHANGED <<main, at, connections, made, file, seen, Made>> PROVE Served'
  BY <1>1 DEF Served, Has, Named
<1> USE DEF mainVars, watchVars, subVars, closerVars, MainGoes, WatchGoes, WatcherMoves, CloserGoes
\* While servers are being connected no file was seen.
<1>2. ASSUME main \in {"read", "connect"}
      PROVE  \A d \in Dirs : seen[d] = {} /\ file[d] = << >>
  <2>1. \A d \in Dirs : watcher[d] = "none" /\ seen[d] = {}
    BY <1>2 DEF Watching
  <2> QED BY <2>1 DEF Watching
<1>3. CASE Connect
  <2>1. /\ Servers[at] \in Range(Servers) /\ connections' = Append(connections, Servers[at])
        /\ at' = at + 1 /\ main = "connect" /\ main' = "connect" /\ at \in 1..Len(Servers)
        /\ UNCHANGED <<made, file, seen>>
    BY <1>3 DEF Connect, Named, Range
  <2>2. /\ Len(connections') = Len(connections) + 1 /\ Len(connections) \in Nat
        /\ \A k \in 1..Len(connections) : connections'[k] = connections[k]
        /\ connections'[Len(connections) + 1] = Servers[at]
    BY <2>1, AppendProperties, LenProperties DEF TypeInv, TypeOK
  <2>3. \A i \in Named : i < at' =>
           \E k \in 1..Len(connections') : connections'[k] = Servers[i]
    <3> SUFFICES ASSUME NEW i \in Named, i < at'
                 PROVE  \E k \in 1..Len(connections') : connections'[k] = Servers[i]
      OBVIOUS
    <3>1. CASE i = at
      BY <3>1, <2>2
    <3>2. CASE i < at
      <4>1. PICK k \in 1..Len(connections) : connections[k] = Servers[i]
        BY <3>2 DEF Served
      <4> QED BY <4>1, <2>2
    <3>3. i \in Nat /\ at \in Nat
      BY DEF Named, TypeInv, TypeOK
    <3> QED BY <2>1, <3>1, <3>2, <3>3
  <2>4. \A d \in Dirs : made[d] <= Len(connections')
    BY <2>2 DEF Served, TypeInv, TypeOK
  <2>5. \A d \in Dirs : seen'[d] = {} /\ file'[d] = << >>
    BY <1>2, <2>1
  <2> QED BY <2>1, <2>3, <2>4, <2>5 DEF Served, Named
<1>4. CASE ReadConfig \/ ConnectFails \/ Connected
  <2>1. UNCHANGED <<connections, made, file, seen>> /\ main' \in {"connect", "watch"}
        /\ UNCHANGED Made
    BY <1>4 DEF ReadConfig, ConnectFails, Connected, Made
  <2>2. \A i \in Named : main' \notin {"read", "connect"} \/ i < at' =>
           main \notin {"read", "connect"} \/ i < at
    BY <1>4 DEF ReadConfig, ConnectFails, Connected, Named, TypeInv, TypeOK
  <2> QED BY <2>1, <2>2 DEF Served, Has, Named
<1>5. CASE ReadConfigFails \/ MainEnds
  BY <1>1, <1>5 DEF ReadConfigFails, MainEnds, Made
<1>6. CASE RefuseDirectory \/ NewFileWatcher \/ AddWatcher \/ Watched \/ SetConfig
           \/ SetQueue \/ Return
  <2>1. /\ main \notin {"read", "connect"} /\ main' \notin {"read", "connect"}
        /\ UNCHANGED <<connections, made, file, seen, queued, jobs>>
    BY <1>6 DEF RefuseDirectory, NewFileWatcher, AddWatcher, Watched, SetConfig, SetQueue,
                Return
  <2>2. UNCHANGED Made
    BY <2>1 DEF Made
  <2> QED BY <2>1, <2>2 DEF Served, Has, Named
<1>7. ASSUME NEW s \in Subscribers, RegisterReads(s) \/ RegisterWrites(s) PROVE Served'
  BY <1>1, <1>7 DEF RegisterReads, RegisterWrites, Made
<1>8. ASSUME NEW d \in Dirs, WatcherStep(d) \/ Sticks(d) \/ AddFails(d) PROVE Served'
  BY <1>1, <1>8 DEF WatcherStep, Sticks, AddFails, Made
<1>9. ASSUME NEW d \in Dirs, Listen(d) \/ SendBlocks(d) \/ SendPanics(d) \/ ForwarderEnds(d)
      PROVE  Served'
  BY <1>1, <1>9 DEF Listen, SendBlocks, SendPanics, ForwarderEnds, Made
<1>10. ASSUME NEW e \in Dirs, NEW f \in Files, HandOver(e, f) PROVE Served'
  <2>1. /\ UNCHANGED <<main, at, connections, queued, jobs>>
        /\ seen' = [seen EXCEPT ![e] = @ \cup {f}] /\ file' = [file EXCEPT ![e] = f]
        /\ made' = [made EXCEPT ![e] = 0] /\ forwarder[e] = "ready"
    BY <1>10 DEF HandOver
  <2>2. UNCHANGED Made /\ file[e] = << >>
    BY <2>1 DEF Made, Watching
  <2>3. << >> \notin seen[e] /\ Len(connections) \in Nat
    BY LenProperties DEF TypeInv, TypeOK
  <2>4. \A d \in Dirs : made'[d] <= Len(connections)
    BY <2>1, <2>3 DEF Served, TypeInv, TypeOK
  <2>5. ASSUME NEW d \in Dirs
        PROVE  /\ seen'[d] \ {file'[d]} \subseteq seen[d] \ {file[d]}
               /\ d # e => made'[d] = made[d] /\ file'[d] = file[d]
               /\ d = e => made'[d] = 0
    BY <2>1, <2>2, <2>3 DEF TypeInv, TypeOK
  <2>6. \A d \in Dirs : \A k \in 1..made'[d] : file'[d] # << >> => Has(d, file'[d], k)
    BY <2>5 DEF Served
  <2> QED BY <2>1, <2>2, <2>4, <2>5, <2>6 DEF Served, Has, Named
<1>11. ASSUME NEW e \in Dirs, Send(e) PROVE Served'
  <2> DEFINE job == [dir |-> e, file |-> file[e], server |-> connections[made[e] + 1]]
  <2>1. /\ UNCHANGED <<main, at, connections, file, seen>> /\ made[e] < Len(connections)
        /\ made' = [made EXCEPT ![e] = @ + 1]
    BY <1>11 DEF Send
  <2>2. job \in Made' /\ Made \subseteq Made'
    <3>1. queued \in Seq(Job) /\ queued' = Append(queued, job) /\ jobs' = jobs
      BY <1>11 DEF Send, TypeInv, TypeOK
    <3>2. job \in Job
      BY <1>11, <2>1, ElementOfSeq DEF Send, Job, TypeInv, TypeOK, FileKnown
    <3> HIDE DEF job
    <3>3. Range(queued') = Range(queued) \cup {job}
      BY <3>1, <3>2, Channel
    <3> QED BY <3>1, <3>3 DEF Made
  <2>3. Len(connections) \in Nat /\ made[e] \in Nat
    BY LenProperties DEF TypeInv, TypeOK
  <2>4. \A d \in Dirs : made'[d] <= Len(connections)
    BY <2>1, <2>3 DEF Served, TypeInv, TypeOK
  <2>5. ASSUME NEW d \in Dirs, NEW k \in 1..made'[d], file[d] # << >>
        PROVE  [dir |-> d, file |-> file[d], server |-> connections[k]] \in Made'
    <3>1. CASE d = e /\ k = made[e] + 1
      BY <2>2, <3>1
    <3>2. CASE k \in 1..made[d]
      BY <2>2, <2>5, <3>2 DEF Served, Has
    <3>3. k \in 1..made[d] \/ (d = e /\ k = made[e] + 1)
      BY <2>1, <2>3, <2>5 DEF TypeInv, TypeOK
    <3> QED BY <3>1, <3>2, <3>3
  <2>6. \A d \in Dirs : \A f \in seen[d] \ {file[d]} : \A k \in 1..Len(connections) :
           [dir |-> d, file |-> f, server |-> connections[k]] \in Made'
    BY <2>2 DEF Served, Has
  <2> QED BY <2>1, <2>4, <2>5, <2>6 DEF Served, Has, Named
<1>12. ASSUME NEW e \in Dirs, Sent(e) PROVE Served'
  <2>1. /\ UNCHANGED <<main, at, connections, seen, made, queued, jobs>>
        /\ made[e] = Len(connections) /\ file' = [file EXCEPT ![e] = << >>]
    BY <1>12 DEF Sent
  <2>2. UNCHANGED Made
    BY <2>1 DEF Made
  <2>3. \A d \in Dirs : file'[d] # << >> => file'[d] = file[d]
    BY <2>1 DEF TypeInv, TypeOK
  <2>4. ASSUME NEW d \in Dirs, NEW f \in seen[d] \ {file'[d]}, NEW k \in 1..Len(connections)
        PROVE  Has(d, f, k)
    <3>1. CASE f # file[d]
      BY <3>1 DEF Served
    <3>2. CASE f = file[d]
      <4>1. d = e
        BY <2>1, <3>2 DEF TypeInv, TypeOK
      <4>2. f # << >>
        BY DEF TypeInv, TypeOK
      <4> QED BY <2>1, <3>2, <4>1, <4>2 DEF Served
    <3> QED BY <3>1, <3>2
  <2> QED BY <2>1, <2>2, <2>3, <2>4 DEF Served, Has, Named
<1>13. CASE Dispatch
  <2>1. UNCHANGED <<main, at, connections, made, file, seen>>
    BY <1>13 DEF Dispatch
  <2>2. Range(queued) = Range(Tail(queued)) \cup {Head(queued)}
    BY <1>13, Channel DEF Dispatch, TypeInv, TypeOK
  <2>3. UNCHANGED Made
    BY <1>13, <2>2 DEF Made, Dispatch
  <2> QED BY <1>1, <2>1, <2>3
<1>14. CASE Complete
  BY <1>1, <1>14 DEF Complete, Made
<1>15. CASE CloserStep \/ Signal
  BY <1>1, <1>15 DEF CloserStep, Signal, Arm, CloseWatcher, WatchersClosed,
                     ClosePanics, CloseChannel, ChannelsClosed,
                     CloseQueue, Made
<1>16. CASE UNCHANGED vars
  BY <1>1, <1>16 DEF vars, Made
<1> QED
  BY <1>3, <1>4, <1>5, <1>6, <1>7, <1>8, <1>9, <1>10, <1>11, <1>12, <1>13, <1>14, <1>15,
     <1>16 DEF Next, MainStep, ForwarderStep

LEMMA Invariant == Spec => []IInv
<1>1. Init => IInv
  BY TypeInit, InvInit DEF IInv
<1>2. IInv /\ [Next]_vars => IInv'
  BY TypeStep, OrderStep, WatchingStep, ServedStep DEF IInv
<1> QED BY <1>1, <1>2, PTL DEF Spec

\* Every server with an address gets every file, whichever others are refused.
THEOREM AllServed == Spec => []AllServersServed
<1>1. IInv => AllServersServed
  <2> SUFFICES ASSUME IInv, NEW d \in Dirs, NEW f \in seen[d] \ {file[d]}, NEW i \in Named
               PROVE  [dir |-> d, file |-> f, server |-> Servers[i]] \in Made
    BY DEF AllServersServed
  <2>1. main \notin {"read", "connect"}
    BY DEF IInv, Watching
  <2>2. PICK k \in 1..Len(connections) : connections[k] = Servers[i]
    BY <2>1 DEF IInv, Served
  <2> QED BY <2>2 DEF IInv, Served, Has
<1> QED BY <1>1, Invariant, PTL

\* Until a signal comes, no panic comes from the order in which Run sets its fields.
THEOREM StartIsOrdered == Spec => []NoPanicBeforeSignal
<1>1. IInv => NoPanicBeforeSignal
  BY DEF IInv, StartOrder
<1> QED BY <1>1, Invariant, PTL

\* Below a plain directory the server's tree is the client's.
THEOREM TreeIsKept == Spec => []TreeKept
<1>1. IInv => TreeKept
  <2> SUFFICES ASSUME IInv, NEW j \in Made, j.dir \in Plain
               PROVE  Directories[j.dir].root.path \o Place(j) = j.file
    BY DEF TreeKept
  <2> DEFINE root == Directories[j.dir].root
             dir == Directories[j.dir].dir
  <2>1. /\ j.dir \in Dirs /\ j.file \in Files /\ j.file \in Path
        /\ root \in Written /\ dir \in Written
    <3>1. j \in Job
      BY RangeOfSeq DEF IInv, TypeInv, TypeOK, Made
    <3>2. Directories[j.dir] \in [dir : Written, root : Written]
      BY <3>1, ElementOfSeq DEF Job, Dirs
    <3> QED BY <3>1, <3>2 DEF Job
  <2>2. IsStrictPrefix(dir.path, j.file) /\ IsSubdir(root, dir)
    BY <2>1 DEF IInv, Watching, Accepted
  <2>3. IsPrefix(root.path, dir.path)
    BY <2>1, <2>2, AcceptedIsBelow DEF Plain
  <2>4. root.path \in Path /\ dir.path \in Path
    BY <2>1 DEF Written
  <2> HIDE DEF root, dir
  <2>5. IsStrictPrefix(root.path, j.file)
    BY <2>1, <2>2, <2>3, <2>4, PrefixTransitive DEF Path
  <2>6. Exists(root.path) = TRUE
    BY <2>1, <2>5 DEF Exists
  <2>7. root.path \o ServerPath(j.file, root.path, Exists(root.path)) = j.file
    BY <2>1, <2>4, <2>5, <2>6, PlaceBelowRoot
  <2> QED BY <2>7 DEF Place, root
<1> QED BY <1>1, Invariant, PTL
=============================================================================
