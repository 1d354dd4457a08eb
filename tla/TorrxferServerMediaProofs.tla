------------------------ MODULE TorrxferServerMediaProofs ------------------------
(***************************************************************************)
(* What gets into the files of the server: PathIsolation, and that         *)
(* TorrxferServer implements MediaDirectory, for any number of attempts,   *)
(* clients, paths, versions and crashes and with every fault.              *)
(***************************************************************************)
EXTENDS TorrxferServerProofs

\* Whatever refers to a session or a file of another path: nothing does.
OwnPath ==
    /\ \A c \in Clients : activeFiles[c] # None => ClientOf[activeFiles[c]] = c
    /\ \A p \in Paths : dir[p] # None => Path(dir[p]) = p
    /\ \A a \in Attempts :
          /\ target[a] # None => Path(target[a]) = Path(a)
          /\ inode[a] # None => Path(inode[a]) = Path(a)

\* Before a session's writer has opened its file, the inode that it may create
\* is new.
NewFile ==
    \A a \in Attempts :
        /\ query[a] = "activate" => writer[a] = "none"
        /\ query[a] \in {"info", "hash"} /\ found[a] => writer[a] = "none"
        /\ writer[a] \in {"none", "start"} =>
              /\ data[a] = << >>
              /\ \A p \in Paths : dir[p] # a
              /\ \A b \in Attempts : inode[b] # a

\* The blocks of the streams for path p, the attempts' contents being bodies.
StreamedFor(p, bodies) ==
    {b \in Blocks : \E h \in Attempts :
        /\ Path(h) = p
        /\ bodies[h] # None
        /\ \E j \in 1..Len(bodies[h]) : b = bodies[h][j]}

\* An attempt's content is set once, and is one of its path; blocks that wait
\* to be written, and those in files, are from streams for the same path.
OwnBlocks ==
    \A a \in Attempts :
        /\ client[a] \in {"idle", "query"} => body[a] = None
        /\ body[a] # None => body[a] \in LocalVersions[Path(a)]
        /\ buf[a] # None => buf[a] \in StreamedFor(Path(a), body)
        /\ \A k \in 1..Len(data[a]) :
              data[a][k] = Hole \/ data[a][k] \in StreamedFor(Path(a), body)

MediaInv == OwnPath /\ NewFile /\ OwnBlocks

LEMMA NoneIsNoContent == None \notin Seq(Blocks)
<1>1. Seq(Blocks) \subseteq Seq(Blocks \cup {Hole})
  OBVIOUS
<1> QED
  BY <1>1, ServerConstants

LEMMA AttemptIsNotNone == \A a \in Attempts : a # None
BY ServerConstants

LEMMA BlockIsNotNone == \A b \in Blocks : b # None
BY ServerConstants

LEMMA MediaStep ==
    TypeInv /\ PhaseInv /\ MediaInv /\ [Next]_vars => MediaInv'
<1> SUFFICES ASSUME TypeInv /\ PhaseInv /\ MediaInv, [Next]_vars PROVE MediaInv'
  OBVIOUS
<1> USE DEF TypeInv, TypeOK, MediaInv, OwnPath, NewFile, OwnBlocks, clientVars, queryVars,
        sessionVars, writerVars, handlerVars, diskVars, processVars, ClientMoves, Requeue,
        QueryMoves, StoreTakes, StoreFails, StoreMayFail, HandlerMoves, WriterMoves
<1>1. ASSUME NEW a \in Attempts, Start(a)
      PROVE  MediaInv'
  BY <1>1 DEF Start, PhaseInv, BeforeActivation
<1>2. ASSUME NEW a \in Attempts, QueryFailed(a)
      PROVE  MediaInv'
  BY <1>2 DEF QueryFailed
<1>3. ASSUME NEW a \in Attempts, Skip(a)
      PROVE  MediaInv'
  BY <1>3 DEF Skip, Completed
<1>4. ASSUME NEW a \in Attempts, OpenStream(a)
      PROVE  MediaInv'
  <2>1. PICK v \in Source(Path(a)) \ {None, << >>} : body' = [body EXCEPT ![a] = v]
    BY <1>4 DEF OpenStream
  <2>2. v \in LocalVersions[Path(a)]
    BY <2>1 DEF Source
  <2>3. /\ client[a] = "query" /\ client' = [client EXCEPT ![a] = "sending"]
        /\ UNCHANGED <<activeFiles, dir, target, inode, query, found, writer, data, buf>>
    BY <1>4 DEF OpenStream
  <2>4. OwnPath' /\ NewFile'
    BY <2>3
  <2>5. ASSUME NEW p \in Paths
        PROVE  StreamedFor(p, body) \subseteq StreamedFor(p, body')
    <3>1. \A h \in Attempts : body[h] # None => body'[h] = body[h]
      BY <2>1, <2>3
    <3> HIDE DEF TypeInv, MediaInv
    <3> QED
      BY <3>1 DEF StreamedFor
  <2>6. OwnBlocks'
    BY ZenonT(60), <2>1, <2>2, <2>3, <2>5, PathType
  <2> QED
    BY <2>4, <2>6
<1>5. ASSUME NEW a \in Attempts, OpenStreamFails(a)
      PROVE  MediaInv'
  BY <1>5 DEF OpenStreamFails
<1>6. ASSUME NEW a \in Attempts, Send(a)
      PROVE  MediaInv'
  BY <1>6 DEF Send
<1>7. ASSUME NEW a \in Attempts, SendFails(a)
      PROVE  MediaInv'
  BY <1>7 DEF SendFails
<1>8. ASSUME NEW a \in Attempts, CloseSend(a)
      PROVE  MediaInv'
  BY <1>8 DEF CloseSend, Completed
<1>9. ASSUME NEW a \in Attempts, Break(a)
      PROVE  MediaInv'
  BY <1>9 DEF Break
<1>10. ASSUME NEW a \in Attempts, QueryHas(a)
      PROVE  MediaInv'
  <2>1. PICK to \in {"get", "stat"} :
            /\ QueryMoves(a, "has", to)
            /\ found' = [found EXCEPT ![a] = (to = "get")]
            /\ UNCHANGED <<reply, activeFiles, writer, dir>>
    BY <1>10, HasMoves
  <2> QED
    BY <2>1
<1>11. ASSUME NEW a \in Attempts, QueryStat(a)
      PROVE  MediaInv'
  BY <1>11 DEF QueryStat
<1>12. ASSUME NEW a \in Attempts, QueryRemove(a)
      PROVE  MediaInv'
  BY <1>12, AttemptIsNotNone DEF QueryRemove, PhaseInv, BeforeActivation
<1>13. ASSUME NEW a \in Attempts, QueryRemoveFails(a)
      PROVE  MediaInv'
  BY <1>13 DEF QueryRemoveFails
<1>14. ASSUME NEW a \in Attempts, QueryPut(a)
      PROVE  MediaInv'
  BY <1>14 DEF QueryPut, RecordOf, PhaseInv, BeforeActivation
<1>15. ASSUME NEW a \in Attempts, QueryActivate(a)
      PROVE  MediaInv'
  BY <1>15 DEF QueryActivate
<1>16. ASSUME NEW a \in Attempts, QueryGet(a)
      PROVE  MediaInv'
  BY <1>16 DEF QueryGet, PhaseInv, BeforeActivation
<1>17. ASSUME NEW a \in Attempts, QueryDrop(a)
      PROVE  MediaInv'
  BY <1>17 DEF QueryDrop, StreamInv
<1>18. ASSUME NEW a \in Attempts, QueryInfoNone(a)
      PROVE  MediaInv'
  BY <1>18 DEF QueryInfoNone, QueryReplies, AfterReply
<1>19. ASSUME NEW a \in Attempts, QueryInfo(a)
      PROVE  MediaInv'
  BY <1>19 DEF QueryInfo
<1>20. ASSUME NEW a \in Attempts, QueryHash(a)
      PROVE  MediaInv'
  BY <1>20 DEF QueryHash, QueryReplies, AfterReply
<1>21. ASSUME NEW a \in Attempts, QueryHashFatal(a)
      PROVE  MediaInv'
  BY <1>21 DEF QueryHashFatal, ProcessDies
<1>22. ASSUME NEW a \in Attempts, HandlerStart(a)
      PROVE  MediaInv'
  BY <1>22 DEF HandlerStart
<1>23. ASSUME NEW a \in Attempts, HandlerRecv(a)
      PROVE  MediaInv'
  <2>1. OwnPath'
    <3> DEFINE s == activeFiles[ClientOf[a]]
    <3>1. s \in Attempts /\ target' = [target EXCEPT ![a] = s]
      <4>1. s # None /\ target' = [target EXCEPT ![a] = s]
        BY <1>23 DEF HandlerRecv, ActiveFile
      <4>2. s \in Attempts \cup {None}
        BY PathType
      <4> QED
        BY <4>1, <4>2
    <3>2. Path(s) = Path(a)
      BY <3>1, PathType, AttemptIsNotNone DEF Path
    <3>3. UNCHANGED <<activeFiles, dir, inode>>
      BY <1>23 DEF HandlerRecv
    <3> QED
      BY SMTT(60), <3>1, <3>2, <3>3
  <2>2. \A b \in Attempts : writer'[b] # writer[b] => writer[b] = "waiting"
    BY SMTT(60), <1>23 DEF HandlerRecv
  <2>3. \A b \in Attempts : writer'[b] # writer[b] => writer'[b] = "woken"
    BY <1>23 DEF HandlerRecv
  <2>4. NewFile'
    BY SMTT(60), <1>23, <2>2, <2>3 DEF HandlerRecv
  <2>5. OwnBlocks'
    BY SMTT(60), <1>23 DEF HandlerRecv
  <2> QED
    BY SMTT(60), <2>1, <2>4, <2>5
<1>24. ASSUME NEW a \in Attempts, HandlerNoSession(a)
      PROVE  MediaInv'
  BY <1>24 DEF HandlerNoSession, HandlerReturns
<1>25. ASSUME NEW a \in Attempts, HandlerEOF(a)
      PROVE  MediaInv'
  BY <1>25 DEF HandlerEOF, HandlerReturns
<1>26. ASSUME NEW a \in Attempts, HandlerBroken(a)
      PROVE  MediaInv'
  BY <1>26 DEF HandlerBroken, HandlerReturns
<1>27. ASSUME NEW a \in Attempts, HandlerDrop(a)
      PROVE  MediaInv'
  BY <1>27 DEF HandlerDrop
<1>28. ASSUME NEW a \in Attempts, HandlerSelectError(a)
      PROVE  MediaInv'
  BY <1>28 DEF HandlerSelectError, HandlerReturns
<1>29. ASSUME NEW a \in Attempts, HandlerSelectDone(a)
      PROVE  MediaInv'
  BY <1>29 DEF HandlerSelectDone, HandlerReturns
<1>30. ASSUME NEW a \in Attempts, HandlerSelectDefault(a)
      PROVE  MediaInv'
  BY <1>30 DEF HandlerSelectDefault
<1>31. ASSUME NEW a \in Attempts, WriterOpen(a)
      PROVE  MediaInv'
  <2>1. OpenedInode(a) \in Attempts /\ Path(OpenedInode(a)) = Path(a)
    BY PathType DEF OpenedInode
  <2>2. OwnPath'
    BY SMTT(60), <1>31, <2>1, PathType DEF WriterOpen
  <2>3. ASSUME NEW b \in Attempts, writer'[b] \in {"none", "start"}
        PROVE  OpenedInode(a) # b /\ b # a
    BY SMTT(60), <1>31, <2>3, PathType DEF WriterOpen, OpenedInode
  <2>4. NewFile'
    <3>1. ASSUME NEW b \in Attempts, writer'[b] \in {"none", "start"}
          PROVE  /\ writer[b] \in {"none", "start"}
                 /\ data'[b] = << >>
                 /\ \A p \in Paths : dir'[p] # b
                 /\ \A c \in Attempts : inode'[c] # b
      BY <1>31, <3>1, <2>3, PathType DEF WriterOpen
    <3>2. ASSUME NEW b \in Attempts
          PROVE  /\ query'[b] = "activate" => writer'[b] = "none"
                 /\ query'[b] \in {"info", "hash"} /\ found'[b] => writer'[b] = "none"
      BY <1>31 DEF WriterOpen
    <3> QED
      BY <3>1, <3>2
  <2>5. OwnBlocks'
    BY <1>31 DEF WriterOpen
  <2> QED
    BY <2>2, <2>4, <2>5
<1>32. ASSUME NEW a \in Attempts, WriterOpenFails(a)
      PROVE  MediaInv'
  BY <1>32 DEF WriterOpenFails, WriterFails
<1>33. ASSUME NEW a \in Attempts, WriterWait(a)
      PROVE  MediaInv'
  BY <1>33 DEF WriterWait
<1>34. ASSUME NEW a \in Attempts, WriterSeek(a)
      PROVE  MediaInv'
  BY <1>34 DEF WriterSeek
<1>35. ASSUME NEW a \in Attempts, NEW h \in Attempts, WriterRead(a, h)
      PROVE  MediaInv'
  <2>1. Path(h) = Path(a)
    BY <1>35, AttemptIsNotNone DEF WriterRead
  <2>2. body[h][recvd[h]] \in StreamedFor(Path(a), body)
    <3>1. /\ body[h] \in Versions
          /\ recvd[h] > 0 /\ recvd[h] <= sent[h] /\ sent[h] <= Len(body[h])
      BY <1>35 DEF WriterRead, StreamInv
    <3>2. /\ recvd[h] \in Nat /\ sent[h] \in Nat
          /\ Len(body[h]) \in Nat /\ \A j \in 1..Len(body[h]) : body[h][j] \in Blocks
      BY <3>1, VersionType
    <3>3. recvd[h] \in 1..Len(body[h])
      BY <3>1, <3>2
    <3>4. body[h] # None
      BY <3>1, VersionsAreSequences, NoneIsNoContent
    <3> HIDE DEF TypeInv, MediaInv
    <3> QED
      BY <2>1, <3>2, <3>3, <3>4 DEF StreamedFor
  <2>3. OwnPath' /\ NewFile'
    BY SMTT(60), <1>35 DEF WriterRead
  <2>4. OwnBlocks'
    BY SMTT(60), <1>35, <2>2 DEF WriterRead
  <2> QED
    BY <2>3, <2>4
<1>36. ASSUME NEW a \in Attempts, WriterWrite(a)
      PROVE  MediaInv'
  <2>1. /\ inode[a] \in Attempts /\ buf[a] \in Blocks
        /\ Path(inode[a]) = Path(a) /\ writer[a] = "write"
        /\ buf[a] \in StreamedFor(Path(a), body)
    <3>1. writer[a] = "write"
      BY <1>36 DEF WriterWrite
    <3>2. inode[a] \in Attempts /\ buf[a] \in Blocks
      BY <3>1 DEF StreamInv
    <3> QED
      BY <3>1, <3>2, AttemptIsNotNone, BlockIsNotNone
  <2>2. OwnPath'
    BY <1>36 DEF WriterWrite
  <2>3. NewFile'
    BY SMTT(60), <1>36, <2>1 DEF WriterWrite
  <2>4. ASSUME NEW k \in 1..Len(WriteAt(data[inode[a]], pos[a], buf[a]))
        PROVE  \/ WriteAt(data[inode[a]], pos[a], buf[a])[k] = Hole
               \/ WriteAt(data[inode[a]], pos[a], buf[a])[k] \in StreamedFor(Path(a), body)
    <3>1. data[inode[a]] \in Content /\ pos[a] \in Nat
      BY <2>1
    <3>2. \A j \in 1..Len(data[inode[a]]) :
             \/ data[inode[a]][j] = Hole
             \/ data[inode[a]][j] \in StreamedFor(Path(a), body)
      BY <2>1
    <3> HIDE DEF TypeInv, MediaInv
    <3> QED
      BY <2>1, <2>4, <3>1, <3>2 DEF WriteAt, Content
  <2>5. /\ data' = [data EXCEPT ![inode[a]] = WriteAt(@, pos[a], buf[a])]
        /\ buf' = [buf EXCEPT ![a] = None]
        /\ UNCHANGED <<client, body>>
    BY <1>36 DEF WriterWrite
  <2>6. OwnBlocks'
    BY SMTT(60), <2>1, <2>4, <2>5
  <2> QED
    BY <2>2, <2>3, <2>6
<1>37. ASSUME NEW a \in Attempts, WriterWriteFails(a)
      PROVE  MediaInv'
  BY <1>37 DEF WriterWriteFails, WriterFails
<1>38. ASSUME NEW a \in Attempts, WriterEOF(a)
      PROVE  MediaInv'
  BY <1>38 DEF WriterEOF
<1>39. ASSUME NEW a \in Attempts, WriterPut(a)
      PROVE  MediaInv'
  BY SMTT(60), <1>39 DEF WriterPut, RecordOf
<1>40. ASSUME NEW a \in Attempts, WriterReturn(a)
      PROVE  MediaInv'
  <2>1. CASE WriterMoves(a, "signalled", "exited")
    BY SMTT(60), <1>40, <2>1 DEF WriterReturn
  <2>2. CASE WriterMoves(a, "failed", "aborted")
    BY <1>40, <2>2 DEF WriterReturn
  <2> QED
    BY <1>40, <2>1, <2>2 DEF WriterReturn
<1>41. ASSUME Stop
      PROVE  MediaInv'
  BY <1>41 DEF Stop
<1>42. ASSUME CloseStore
      PROVE  MediaInv'
  BY <1>42 DEF CloseStore
<1>43. ASSUME Exit
      PROVE  MediaInv'
  BY <1>43 DEF Exit, ProcessDies
<1>44. ASSUME Crash
      PROVE  MediaInv'
  BY <1>44 DEF Crash, ProcessDies
<1>45. ASSUME UNCHANGED vars
      PROVE  MediaInv'
  BY <1>45 DEF vars
<1>46. ASSUME NEW a \in Attempts, OpenFails(a) \/ RemoveSource(a)
      PROVE  MediaInv'
  <2>1. CASE OpenFails(a)
    BY <2>1 DEF OpenFails
  <2>2. CASE RemoveSource(a)
    BY <2>2 DEF RemoveSource
  <2> QED
    BY <1>46, <2>1, <2>2
<1> QED
  BY <1>46, <1>1, <1>2, <1>3, <1>4, <1>5, <1>6, <1>7, <1>8, <1>9, <1>10, <1>11, <1>12, <1>13, <1>14, <1>15, <1>16, <1>17, <1>18, <1>19, <1>20, <1>21, <1>22, <1>23, <1>24, <1>25, <1>26, <1>27, <1>28, <1>29, <1>30, <1>31, <1>32, <1>33, <1>34, <1>35, <1>36, <1>37, <1>38, <1>39, <1>40, <1>41, <1>42, <1>43, <1>44, <1>45
     DEF Next, ClientStep, QueryStep, HandlerStep, WriterStep

-----------------------------------------------------------------------------
(* The theorems.                                                           *)

LEMMA MediaInit == Init => TypeInv /\ PhaseInv /\ MediaInv
<1> SUFFICES ASSUME Init PROVE TypeInv /\ PhaseInv /\ MediaInv
  OBVIOUS
<1>1. PhaseInv
  BY DEF Init, PhaseInv
<1>2. OwnPath /\ NewFile /\ OwnBlocks
  BY AttemptIsNotNone DEF Init, OwnPath, NewFile, OwnBlocks
<1> QED
  BY TypeInit, <1>1, <1>2 DEF MediaInv

\* No stream of another path's client gets a block into a file, at its path or
\* removed from it (server.go:205-218, 260-267).
THEOREM Isolation == Spec => []PathIsolation
<1> DEFINE Inv == TypeInv /\ PhaseInv /\ MediaInv
<1>1. Inv /\ [Next]_vars => Inv'
  BY TypeStep, PhaseStep, MediaStep DEF TypeInv
<1>2. Inv => PathIsolation
  <2> SUFFICES ASSUME Inv, NEW i \in Attempts, NEW k \in 1..Len(data[i]),
                      data[i][k] # Hole
               PROVE  \E b \in Attempts : /\ Path(b) = Path(i)
                                         /\ body[b] # None
                                         /\ \E j \in 1..Len(body[b]) :
                                               data[i][k] = body[b][j]
    BY DEF PathIsolation
  <2>1. data[i][k] \in StreamedFor(Path(i), body)
    BY DEF MediaInv, OwnBlocks
  <2> QED
    BY <2>1 DEF StreamedFor
<1> QED
  BY <1>1, <1>2, MediaInit, PTL DEF Spec

\* The three steps that change a file are those of MediaDirectory, for the path
\* of the session whose thread takes them.
LEMMA RemoveImplements ==
    ASSUME TypeInv, NEW a \in Attempts, QueryRemove(a)
    PROVE  [Media!Next]_Files
<1>1. Path(a) \in Paths
  BY PathType
<1>2. /\ dir' = [dir EXCEPT ![Path(a)] = None]
      /\ UNCHANGED data
      /\ dir \in [Paths -> Attempts \cup {None}]
  BY DEF QueryRemove, QueryMoves, TypeInv, TypeOK
<1>3. CASE dir[Path(a)] = None \/ data[dir[Path(a)]] = None
  <2>1. Files' = Files
    BY <1>1, <1>2, <1>3 DEF Files
  <2> QED
    BY <2>1
<1>4. CASE dir[Path(a)] # None /\ data[dir[Path(a)]] # None
  <2>1. Files[Path(a)] # None
    BY <1>1, <1>4 DEF Files
  <2>2. Files' = [Files EXCEPT ![Path(a)] = None]
    BY <1>1, <1>2 DEF Files
  <2>3. Media!Remove(Path(a))
    BY <2>1, <2>2 DEF Media!Remove
  <2> QED
    BY <1>1, <2>3 DEF Media!Next
<1> QED
  BY <1>3, <1>4

LEMMA OpenImplements ==
    ASSUME TypeInv, MediaInv, NEW a \in Attempts, WriterOpen(a)
    PROVE  [Media!Next]_Files
<1>1. Path(a) \in Paths /\ a # None
  BY PathType, AttemptIsNotNone
<1>2. /\ dir' = [dir EXCEPT ![Path(a)] = OpenedInode(a)]
      /\ UNCHANGED data
      /\ writer[a] = "start"
      /\ dir \in [Paths -> Attempts \cup {None}]
  BY DEF WriterOpen, WriterMoves, TypeInv, TypeOK
<1>3. CASE dir[Path(a)] # None
  <2>1. dir' = dir
    BY <1>1, <1>2, <1>3 DEF OpenedInode
  <2> QED
    BY <1>2, <2>1 DEF Files
<1>4. CASE dir[Path(a)] = None
  <2>1. data[a] = << >>
    BY <1>2 DEF MediaInv, NewFile
  <2>2. Files[Path(a)] = None
    BY <1>1, <1>4 DEF Files
  <2>3. Files' = [Files EXCEPT ![Path(a)] = << >>]
    BY <1>1, <1>2, <1>4, <2>1 DEF Files, OpenedInode
  <2>4. Media!Create(Path(a))
    BY <2>2, <2>3 DEF Media!Create
  <2> QED
    BY <1>1, <2>4 DEF Media!Next
<1> QED
  BY <1>3, <1>4

LEMMA WriteImplements ==
    ASSUME TypeInv, MediaInv, NEW a \in Attempts, WriterWrite(a)
    PROVE  [Media!Next]_Files
<1> DEFINE p == Path(a)
           new == WriteAt(data[inode[a]], pos[a], buf[a])
<1>1. p \in Paths /\ a # None
  BY PathType, AttemptIsNotNone
<1>2. /\ data' = [data EXCEPT ![inode[a]] = new]
      /\ UNCHANGED dir
      /\ writer[a] = "write"
  BY DEF WriterWrite, WriterMoves
<1>3. /\ dir \in [Paths -> Attempts \cup {None}]
      /\ data \in [Attempts -> Content]
      /\ pos[a] \in Nat
  BY DEF TypeInv, TypeOK
<1>4. inode[a] \in Attempts /\ buf[a] \in Blocks
  BY <1>2 DEF TypeInv, StreamInv
<1>5. /\ Path(inode[a]) = p
      /\ \A q \in Paths : dir[q] # None => Path(dir[q]) = q
      /\ buf[a] \in StreamedFor(p, body)
      /\ \A h \in Attempts : body[h] # None => body[h] \in LocalVersions[Path(h)]
  BY <1>4, AttemptIsNotNone, BlockIsNotNone DEF MediaInv, OwnPath, OwnBlocks
<1>6. \A q \in Paths \ {p} : dir[q] # inode[a]
  BY <1>4, <1>5, AttemptIsNotNone
<1>7. CASE dir[p] # inode[a]
  <2>1. Files' = Files
    BY <1>2, <1>3, <1>6, <1>7 DEF Files
  <2> QED
    BY <2>1
<1>8. CASE dir[p] = inode[a]
  <2>1. Files[p] = data[inode[a]] /\ Files[p] # None
    <3>1. data[inode[a]] \in Content
      BY <1>3, <1>4
    <3>2. None \notin Content
      BY ServerConstants DEF Content
    <3> QED
      BY <1>1, <1>4, <1>8, <3>1, <3>2, AttemptIsNotNone DEF Files
  <2>2. Files' = [Files EXCEPT ![p] = new]
    BY <1>1, <1>2, <1>3, <1>4, <1>6, <1>8, AttemptIsNotNone DEF Files
  <2>3. /\ new = Media!Put(Files[p], pos[a] + 1, buf[a])
        /\ new \in Content
        /\ pos[a] + 1 \in 1..Len(new)
    <3>1. data[inode[a]] \in Content
      BY <1>3, <1>4
    <3>2. new \in Content
      BY <1>3, <1>4, <3>1, WriteAtType
    <3>3. \A d \in Content : WriteAt(d, pos[a], buf[a]) = Media!Put(d, pos[a] + 1, buf[a])
      BY <1>3 DEF WriteAt, Media!Put, Content
    <3>4. pos[a] + 1 \in 1..Len(new)
      BY <1>3, <1>4, <3>1 DEF WriteAt, Content
    <3> QED
      BY <2>1, <3>1, <3>2, <3>3, <3>4
  <2>4. buf[a] \in Payload[p]
    BY <1>1, <1>5 DEF StreamedFor, Payload
  <2>5. Files'[p] = new /\ Files'[p] # None
    <3>1. None \notin Content
      BY ServerConstants DEF Content
    <3>2. Files'[p] = new
      BY <1>1, <2>2 DEF Files
    <3> QED
      BY <2>3, <3>1, <3>2
  <2>6. Media!Write(p)
    <3> HIDE DEF p, new
    <3> QED
      BY <2>1, <2>2, <2>3, <2>4, <2>5 DEF Media!Write
  <2> QED
    BY <1>1, <2>6 DEF Media!Next
<1> QED
  BY <1>7, <1>8

\* Every other step leaves the directory and the contents alone.
LEMMA OthersImplement ==
    ASSUME [Next]_vars,
           \A a \in Attempts : ~QueryRemove(a) /\ ~WriterOpen(a) /\ ~WriterWrite(a)
    PROVE  [Media!Next]_Files
<1> USE DEF diskVars, ClientMoves, QueryMoves, HandlerMoves, WriterMoves
<1>1. ASSUME NEW a \in Attempts, ClientStep(a)
      PROVE  UNCHANGED <<dir, data>>
  BY <1>1 DEF ClientStep, Start, QueryFailed, Skip, OpenStream, OpenFails, OpenStreamFails,
              Send, SendFails, CloseSend, RemoveSource, Break
<1>2. ASSUME NEW a \in Attempts, QueryStep(a)
      PROVE  UNCHANGED <<dir, data>>
  BY <1>2 DEF QueryStep, QueryHas, QueryStat, QueryRemoveFails, QueryPut, QueryActivate,
              QueryGet, QueryDrop, QueryInfoNone, QueryInfo, QueryHash, QueryReplies,
              QueryHashFatal, ProcessDies
<1>3. ASSUME NEW a \in Attempts, HandlerStep(a)
      PROVE  UNCHANGED <<dir, data>>
  BY <1>3 DEF HandlerStep, HandlerStart, HandlerRecv, HandlerNoSession, HandlerEOF,
              HandlerBroken, HandlerDrop, HandlerSelectError, HandlerSelectDone,
              HandlerSelectDefault, HandlerReturns
<1>4. ASSUME NEW a \in Attempts, WriterStep(a)
      PROVE  UNCHANGED <<dir, data>>
  BY <1>4 DEF WriterStep, WriterOpenFails, WriterFails, WriterWait, WriterSeek, WriterRead,
              WriterWriteFails, WriterEOF, WriterPut, WriterReturn
<1>5. ASSUME Stop \/ CloseStore \/ Exit \/ Crash
      PROVE  UNCHANGED <<dir, data>>
  BY <1>5 DEF Stop, CloseStore, Exit, Crash, ProcessDies
<1>6. UNCHANGED <<dir, data>>
  BY <1>1, <1>2, <1>3, <1>4, <1>5 DEF Next, vars
<1> QED
  BY <1>6 DEF Files

\* The server implements MediaDirectory: with any number of clients, sessions
\* and retries of one path, after crashes and with failing disks, no file is
\* cut, no write goes to another path's file, and nothing but one block of a
\* source changes at a time (server.go:105-112, 278-312).
THEOREM Implementation == Spec => ImplementsMediaDirectory
<1> DEFINE Inv == TypeInv /\ PhaseInv /\ MediaInv
<1>1. Inv /\ [Next]_vars => Inv'
  BY TypeStep, PhaseStep, MediaStep DEF TypeInv
<1>2. Init => Media!Init
  BY DEF Init, Files, Media!Init
<1>3. Inv /\ [Next]_vars => [Media!Next]_Files
  BY RemoveImplements, OpenImplements, WriteImplements, OthersImplement
<1> QED
  BY <1>1, <1>2, <1>3, MediaInit, PTL DEF Spec, ImplementsMediaDirectory, Media!Spec

=============================================================================
