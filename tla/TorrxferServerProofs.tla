------------------------- MODULE TorrxferServerProofs -------------------------
(***************************************************************************)
(* Theorems about TorrxferServer, for any number of attempts, clients,     *)
(* paths, versions and crashes, with or without network and disk faults.   *)
(***************************************************************************)
EXTENDS TorrxferServer, TLAPS

-----------------------------------------------------------------------------
(* Type correctness.                                                       *)

\* What types rest on: the states in which a variable has its value.
StreamInv ==
    \A a \in Attempts :
        /\ client[a] \in {"idle", "query"} => handler[a] = "none"
        /\ client[a] \in {"sending", "closed"} => handler[a] # "none"
        /\ handler[a] = "none" => sent[a] = 0 /\ recvd[a] = 0
        /\ handler[a] # "none" => /\ body[a] \in Versions
                                  /\ recvd[a] <= sent[a]
                                  /\ sent[a] <= Len(body[a])
        /\ handler[a] = "write" => recvd[a] > 0 /\ target[a] \in Attempts
        /\ writer[a] \in {"opened", "waiting", "woken", "copy", "write",
                         "finish"} => inode[a] \in Attempts
        /\ writer[a] = "write" => buf[a] \in Blocks

TypeInv == TypeOK /\ StreamInv

LEMMA VersionsAreSequences == Versions \subseteq Seq(Blocks)
BY ServerConstants DEF Versions

LEMMA WriteAtType ==
    ASSUME NEW d \in Content, NEW p \in Nat, NEW b \in Blocks
    PROVE  WriteAt(d, p, b) \in Content
BY DEF WriteAt, Content

LEMMA PathType ==
    \A a \in Attempts : ClientOf[a] \in Clients /\ Path(a) \in Paths
BY ServerConstants DEF Path

LEMMA SourceType ==
    ASSUME NEW a \in Attempts, NEW v \in Source(Path(a))
    PROVE  v \in Hashes /\ (v # None => v \in Versions)
BY PathType DEF Source, Hashes, Versions

LEMMA VersionType ==
    ASSUME NEW v \in Versions
    PROVE  v \in Content /\ Len(v) \in Nat /\ \A i \in 1..Len(v) : v[i] \in Blocks
<1>1. v \in Seq(Blocks)
  BY VersionsAreSequences
<1> QED
  BY <1>1 DEF Content

\* What the answer of a Has does, whichever way it comes about.
LEMMA HasMoves ==
    ASSUME NEW a \in Attempts, QueryHas(a)
    PROVE  \E to \in {"get", "stat"} :
               /\ QueryMoves(a, "has", to)
               /\ found' = [found EXCEPT ![a] = (to = "get")]
               /\ to = "get" => fileDb[key[a]] # "absent"
               /\ UNCHANGED <<reply, unrecorded, activeFiles, currentSize, writer, fileDb, dir>>
<1>1. CASE QueryMoves(a, "has", "get")
  BY <1>1 DEF QueryHas, QueryMoves
<1>2. CASE QueryMoves(a, "has", "stat")
  BY <1>2 DEF QueryHas, QueryMoves
<1> QED
  BY <1>1, <1>2 DEF QueryHas

LEMMA TypeInit == Init => TypeInv
<1> SUFFICES ASSUME Init PROVE TypeInv
  OBVIOUS
<1>1. TypeOK
  <2>1. << >> \in Content
    BY DEF Content
  <2>2. /\ deleting \in [Attempts -> BOOLEAN]
        /\ removed \subseteq Paths
        /\ fileDb \in [Hashes -> {"absent", "good", "torn"}]
        /\ key \in [Attempts -> Hashes]
    BY DEF Init, Hashes
  <2>3. reply \in [Attempts -> [hash : Content \cup {None}, sizeOnDisk : Nat]]
    BY DEF Init
  <2> QED
    BY <2>1, <2>2, <2>3, ServerConstants
    DEF Init, TypeOK, ClientStates, QueryStates, HandlerStates, WriterStates
<1>2. StreamInv
  BY DEF Init, StreamInv
<1> QED
  BY <1>1, <1>2 DEF TypeInv

LEMMA TypeStep == TypeInv /\ [Next]_vars => TypeInv'
<1> SUFFICES ASSUME TypeInv, [Next]_vars PROVE TypeInv'
  OBVIOUS
<1> USE DEF TypeInv, TypeOK, clientVars, queryVars, sessionVars, writerVars,
        handlerVars, diskVars, processVars
<1>1. ASSUME NEW a \in Attempts, Start(a)
      PROVE  TypeInv'
  <2>1. TypeOK'
    <3>1. retries[ClientOf[a]] > 0 => retries[ClientOf[a]] - 1 \in Nat
      BY PathType
    <3>2. PICK v \in Source(Path(a)) : key' = [key EXCEPT ![a] = v]
      BY <1>1 DEF Start, ClientMoves
    <3>3. v \in Hashes
      BY SourceType
    <3> QED
      BY <1>1, <3>1, <3>2, <3>3, PathType DEF Start, ClientMoves, ClientStates, QueryStates
  <2>2. StreamInv'
    BY <1>1, SourceType, PathType DEF Start, ClientMoves, StreamInv
  <2> QED
    BY <2>1, <2>2
<1>2. ASSUME NEW a \in Attempts, QueryFailed(a)
      PROVE  TypeInv'
  <2>1. TypeOK'
    BY <1>2, PathType DEF QueryFailed, ClientMoves, Requeue, ClientStates
  <2>2. StreamInv'
    BY <1>2 DEF QueryFailed, ClientMoves, Requeue, StreamInv
  <2> QED
    BY <2>1, <2>2
<1>3. ASSUME NEW a \in Attempts, Skip(a)
      PROVE  TypeInv'
  <2>1. TypeOK'
    BY <1>3, ServerConstants DEF Skip, Completed, ClientMoves, ClientStates
  <2>2. StreamInv'
    BY <1>3 DEF Skip, Completed, ClientMoves, StreamInv
  <2> QED
    BY <2>1, <2>2
<1>4. ASSUME NEW a \in Attempts, OpenStream(a)
      PROVE  TypeInv'
  <2>1. TypeOK'
    BY SMTT(60), <1>4, SourceType, PathType DEF OpenStream, ClientMoves, ClientStates, HandlerStates
  <2>2. StreamInv'
    BY <1>4, SourceType, PathType DEF OpenStream, ClientMoves, StreamInv
  <2> QED
    BY <2>1, <2>2
<1>5. ASSUME NEW a \in Attempts, OpenStreamFails(a)
      PROVE  TypeInv'
  <2>1. TypeOK'
    BY <1>5, PathType DEF OpenStreamFails, ClientMoves, Requeue, ClientStates
  <2>2. StreamInv'
    BY <1>5 DEF OpenStreamFails, ClientMoves, Requeue, StreamInv
  <2> QED
    BY <2>1, <2>2
<1>6. ASSUME NEW a \in Attempts, Send(a)
      PROVE  TypeInv'
  <2>1. TypeOK'
    BY <1>6, VersionType DEF Send, ClientMoves
  <2>2. StreamInv'
    BY <1>6, VersionType DEF Send, ClientMoves, StreamInv
  <2> QED
    BY <2>1, <2>2
<1>7. ASSUME NEW a \in Attempts, SendFails(a)
      PROVE  TypeInv'
  <2>1. TypeOK'
    <3>1. \A n \in 1..2 : retries[ClientOf[a]] + n \in Nat
      BY PathType
    <3> QED
      BY <1>7, <3>1, PathType DEF SendFails, ClientMoves, Requeue, ClientStates
  <2>2. StreamInv'
    BY <1>7 DEF SendFails, ClientMoves, Requeue, StreamInv
  <2> QED
    BY <2>1, <2>2
<1>8. ASSUME NEW a \in Attempts, CloseSend(a)
      PROVE  TypeInv'
  <2>1. TypeOK'
    BY <1>8, ServerConstants DEF CloseSend, Completed, ClientMoves, ClientStates
  <2>2. StreamInv'
    BY <1>8 DEF CloseSend, Completed, ClientMoves, StreamInv
  <2> QED
    BY <2>1, <2>2
<1>9. ASSUME NEW a \in Attempts, Break(a)
      PROVE  TypeInv'
  <2>1. TypeOK'
    BY <1>9 DEF Break
  <2>2. StreamInv'
    BY <1>9 DEF Break, StreamInv
  <2> QED
    BY <2>1, <2>2
<1>10. ASSUME NEW a \in Attempts, QueryHas(a)
      PROVE  TypeInv'
  <2>1. TypeOK'
    BY <1>10 DEF QueryHas, QueryMoves, StoreMayFail, QueryStates
  <2>2. StreamInv'
    BY <1>10 DEF QueryHas, QueryMoves, StoreMayFail, StreamInv
  <2> QED
    BY <2>1, <2>2
<1>11. ASSUME NEW a \in Attempts, QueryStat(a)
      PROVE  TypeInv'
  <2>1. TypeOK'
    BY <1>11 DEF QueryStat, QueryMoves, QueryStates
  <2>2. StreamInv'
    BY <1>11 DEF QueryStat, QueryMoves, StreamInv
  <2> QED
    BY <2>1, <2>2
<1>12. ASSUME NEW a \in Attempts, QueryRemove(a)
      PROVE  TypeInv'
  <2>1. TypeOK'
    BY <1>12 DEF QueryRemove, QueryMoves, QueryStates
  <2>2. StreamInv'
    BY <1>12 DEF QueryRemove, QueryMoves, StreamInv
  <2> QED
    BY <2>1, <2>2
<1>13. ASSUME NEW a \in Attempts, QueryRemoveFails(a)
      PROVE  TypeInv'
  <2>1. TypeOK'
    BY <1>13 DEF QueryRemoveFails, QueryMoves, QueryStates
  <2>2. StreamInv'
    BY <1>13 DEF QueryRemoveFails, QueryMoves, StreamInv
  <2> QED
    BY <2>1, <2>2
<1>14. ASSUME NEW a \in Attempts, QueryPut(a)
      PROVE  TypeInv'
  <2>1. TypeOK'
    BY <1>14 DEF QueryPut, QueryMoves, StoreTakes, StoreFails, StoreMayFail, RecordOf, QueryStates
  <2>2. StreamInv'
    BY <1>14 DEF QueryPut, QueryMoves, StoreTakes, StoreFails, StoreMayFail, RecordOf, StreamInv
  <2> QED
    BY <2>1, <2>2
<1>15. ASSUME NEW a \in Attempts, QueryActivate(a)
      PROVE  TypeInv'
  <2>1. TypeOK'
    BY <1>15 DEF QueryActivate, QueryMoves, QueryStates, WriterStates
  <2>2. StreamInv'
    BY <1>15 DEF QueryActivate, QueryMoves, StreamInv
  <2> QED
    BY <2>1, <2>2
<1>16. ASSUME NEW a \in Attempts, QueryGet(a)
      PROVE  TypeInv'
  <2>1. TypeOK'
    <3>1. dir[Path(a)] # None => Len(data[dir[Path(a)]]) \in Nat
      BY PathType DEF Content
    <3>2. currentSize' \in [Attempts -> Nat]
      BY <1>16, <3>1 DEF QueryGet
    <3>3. query' \in [Attempts -> QueryStates]
      <4>1. PICK to \in QueryStates : QueryMoves(a, "get", to)
        BY <1>16 DEF QueryGet, QueryStates
      <4> QED
        BY <4>1 DEF QueryMoves
    <3> QED
      BY <1>16, <3>2, <3>3 DEF QueryGet, QueryMoves, StoreMayFail
  <2>2. StreamInv'
    BY <1>16, PathType DEF QueryGet, QueryMoves, StoreMayFail, StreamInv
  <2> QED
    BY <2>1, <2>2
<1>17. ASSUME NEW a \in Attempts, QueryDrop(a)
      PROVE  TypeInv'
  <2>1. TypeOK'
    BY <1>17 DEF QueryDrop, QueryMoves, StoreTakes, StoreFails, StoreMayFail, QueryStates
  <2>2. StreamInv'
    BY <1>17 DEF QueryDrop, QueryMoves, StoreTakes, StoreFails, StoreMayFail, StreamInv
  <2> QED
    BY <2>1, <2>2
<1>18. ASSUME NEW a \in Attempts, QueryInfo(a)
      PROVE  TypeInv'
  <2>1. TypeOK'
    BY <1>18 DEF QueryInfo, QueryMoves, QueryStates
  <2>2. StreamInv'
    BY <1>18 DEF QueryInfo, QueryMoves, StreamInv
  <2> QED
    BY <2>1, <2>2
<1>19. ASSUME NEW a \in Attempts, QueryInfoNone(a) \/ QueryHash(a)
      PROVE  TypeInv'
  <2>1. PICK from \in {"info", "hash"}, hash \in Content \cup {None} :
           QueryReplies(a, from, hash)
    BY <1>19, PathType DEF QueryInfoNone, QueryHash
  <2>2. AfterReply(a, hash) \in QueryStates
    BY DEF AfterReply, QueryStates
  <2>3. TypeOK'
    <3>1. [hash |-> hash, sizeOnDisk |-> 0]
             \in [hash : Content \cup {None}, sizeOnDisk : Nat]
      OBVIOUS
    <3>2. reply' \in [Attempts -> [hash : Content \cup {None}, sizeOnDisk : Nat]]
      BY <2>1, <3>1 DEF QueryReplies
    <3>3. query' \in [Attempts -> QueryStates]
      BY <2>1, <2>2 DEF QueryReplies, QueryMoves
    <3> QED
      BY <2>1, <3>2, <3>3 DEF QueryReplies, QueryMoves
  <2>4. StreamInv'
    BY <2>1 DEF QueryReplies, QueryMoves, StreamInv
  <2> QED
    BY <2>3, <2>4
<1>20. ASSUME NEW a \in Attempts, QueryHashFatal(a)
      PROVE  TypeInv'
  <2>1. TypeOK'
    BY <1>20 DEF QueryHashFatal, ProcessDies, InFlight, QueryStates, HandlerStates, WriterStates
  <2>2. StreamInv'
    BY <1>20 DEF QueryHashFatal, ProcessDies, InFlight, StreamInv
  <2> QED
    BY <2>1, <2>2
<1>21. ASSUME NEW a \in Attempts, HandlerStart(a)
      PROVE  TypeInv'
  <2>1. TypeOK'
    BY <1>21, PathType DEF HandlerStart, HandlerMoves, ActiveFile, HandlerStates
  <2>2. StreamInv'
    BY <1>21 DEF HandlerStart, HandlerMoves, ActiveFile, StreamInv
  <2> QED
    BY <2>1, <2>2
<1>22. ASSUME NEW a \in Attempts, HandlerRecv(a)
      PROVE  TypeInv'
  <2>1. TypeOK'
    <3>1. ActiveFile(ClientOf[a]) \in Attempts
      BY <1>22, PathType DEF HandlerRecv, HandlerMoves, ActiveFile
    <3>2. BlockOffset(a) \in Nat
      BY DEF BlockOffset
    <3>3. /\ handler' \in [Attempts -> HandlerStates]
          /\ recvd' \in [Attempts -> Nat]
          /\ target' \in [Attempts -> Attempts \cup {None}]
          /\ once' \in [Attempts -> BOOLEAN]
      BY <1>22, <3>1 DEF HandlerRecv, HandlerMoves, HandlerStates
    <3>4. currentSize' \in [Attempts -> Nat]
      BY <1>22, <3>1, <3>2 DEF HandlerRecv, HandlerMoves
    <3>5. writer' \in [Attempts -> WriterStates]
      BY <1>22, <3>1 DEF HandlerRecv, HandlerMoves, WriterStates
    <3> QED
      BY <1>22, <3>3, <3>4, <3>5 DEF HandlerRecv, HandlerMoves
  <2>2. StreamInv'
    <3>1. ActiveFile(ClientOf[a]) \in Attempts
      BY <1>22, PathType DEF HandlerRecv, HandlerMoves, ActiveFile
    <3>2. \A b \in Attempts : /\ writer'[b] # writer[b] => /\ writer[b] = "waiting"
                                                         /\ writer'[b] = "woken"
                              /\ b # a => /\ handler'[b] = handler[b]
                                         /\ recvd'[b] = recvd[b]
                                         /\ target'[b] = target[b]
      BY <1>22 DEF HandlerRecv, HandlerMoves
    <3>3. /\ handler[a] = "recv" /\ handler'[a] = "write"
          /\ recvd'[a] = recvd[a] + 1 /\ recvd[a] < sent[a]
          /\ target'[a] \in Attempts
      BY <1>22, <3>1 DEF HandlerRecv, HandlerMoves
    <3>4. UNCHANGED <<client, key, body, sent, query, inode, buf>>
      BY <1>22 DEF HandlerRecv, HandlerMoves
    <3>5. /\ recvd[a] \in Nat /\ sent[a] \in Nat
          /\ body[a] \in Versions => Len(body[a]) \in Nat
      BY VersionType
    <3>6. /\ recvd[a] + 1 > 0 /\ recvd[a] + 1 <= sent[a]
      BY <3>3, <3>5
    <3>7. \A b \in Attempts :
             /\ handler'[b] = "none" <=> handler[b] = "none"
             /\ handler'[b] = "none" => recvd'[b] = recvd[b]
             /\ handler'[b] # "none" /\ recvd[b] <= sent[b] => recvd'[b] <= sent[b]
             /\ handler'[b] = "write" /\ b # a => handler[b] = "write"
      BY <3>2, <3>3, <3>6
    <3>8. \A b \in Attempts :
             /\ handler'[b] = "write" /\ (handler[b] = "write"
                    => recvd[b] > 0 /\ target[b] \in Attempts)
                => recvd'[b] > 0 /\ target'[b] \in Attempts
      BY <3>2, <3>3, <3>6
    <3> HIDE DEF TypeInv, TypeOK
    <3>9. StreamInv
      BY DEF TypeInv
    <3> QED
      BY <3>2, <3>4, <3>7, <3>8, <3>9 DEF StreamInv
  <2> QED
    BY <2>1, <2>2
<1>23. ASSUME NEW a \in Attempts, HandlerNoSession(a)
      PROVE  TypeInv'
  <2>1. TypeOK'
    BY <1>23 DEF HandlerNoSession, HandlerReturns, HandlerMoves, ClosedAfter, ActiveFile, HandlerStates
  <2>2. StreamInv'
    BY <1>23 DEF HandlerNoSession, HandlerReturns, HandlerMoves, ClosedAfter, ActiveFile, StreamInv
  <2> QED
    BY <2>1, <2>2
<1>24. ASSUME NEW a \in Attempts, HandlerEOF(a)
      PROVE  TypeInv'
  <2>1. TypeOK'
    BY <1>24 DEF HandlerEOF, HandlerReturns, HandlerMoves, ClosedAfter, HandlerStates
  <2>2. StreamInv'
    BY <1>24 DEF HandlerEOF, HandlerReturns, HandlerMoves, ClosedAfter, StreamInv
  <2> QED
    BY <2>1, <2>2
<1>25. ASSUME NEW a \in Attempts, HandlerBroken(a)
      PROVE  TypeInv'
  <2>1. TypeOK'
    BY <1>25 DEF HandlerBroken, HandlerReturns, HandlerMoves, ClosedAfter, HandlerStates
  <2>2. StreamInv'
    BY <1>25 DEF HandlerBroken, HandlerReturns, HandlerMoves, ClosedAfter, StreamInv
  <2> QED
    BY <2>1, <2>2
<1>26. ASSUME NEW a \in Attempts, HandlerDrop(a)
      PROVE  TypeInv'
  <2>1. TypeOK'
    BY <1>26 DEF HandlerDrop, HandlerMoves, HandlerStates
  <2>2. StreamInv'
    BY <1>26 DEF HandlerDrop, HandlerMoves, StreamInv
  <2> QED
    BY <2>1, <2>2
<1>27. ASSUME NEW a \in Attempts, HandlerSelectError(a)
      PROVE  TypeInv'
  <2>1. TypeOK'
    BY <1>27 DEF HandlerSelectError, HandlerReturns, HandlerMoves, ClosedAfter, HandlerStates
  <2>2. StreamInv'
    BY <1>27 DEF HandlerSelectError, HandlerReturns, HandlerMoves, ClosedAfter, StreamInv
  <2> QED
    BY <2>1, <2>2
<1>28. ASSUME NEW a \in Attempts, HandlerSelectDone(a)
      PROVE  TypeInv'
  <2>1. TypeOK'
    BY <1>28 DEF HandlerSelectDone, HandlerReturns, HandlerMoves, ClosedAfter, HandlerStates
  <2>2. StreamInv'
    BY <1>28 DEF HandlerSelectDone, HandlerReturns, HandlerMoves, ClosedAfter, StreamInv
  <2> QED
    BY <2>1, <2>2
<1>29. ASSUME NEW a \in Attempts, HandlerSelectDefault(a)
      PROVE  TypeInv'
  <2>1. TypeOK'
    BY <1>29 DEF HandlerSelectDefault, HandlerMoves, HandlerStates
  <2>2. StreamInv'
    BY <1>29 DEF HandlerSelectDefault, HandlerMoves, StreamInv
  <2> QED
    BY <2>1, <2>2
<1>30. ASSUME NEW a \in Attempts, WriterOpen(a)
      PROVE  TypeInv'
  <2>1. TypeOK'
    BY <1>30, PathType DEF WriterOpen, WriterMoves, OpenedInode, WriterStates
  <2>2. StreamInv'
    BY <1>30, PathType DEF WriterOpen, WriterMoves, OpenedInode, StreamInv
  <2> QED
    BY <2>1, <2>2
<1>31. ASSUME NEW a \in Attempts, WriterOpenFails(a)
      PROVE  TypeInv'
  <2>1. TypeOK'
    BY <1>31 DEF WriterOpenFails, WriterFails, WriterMoves, WriterStates
  <2>2. StreamInv'
    BY <1>31 DEF WriterOpenFails, WriterFails, WriterMoves, StreamInv
  <2> QED
    BY <2>1, <2>2
<1>32. ASSUME NEW a \in Attempts, WriterWait(a)
      PROVE  TypeInv'
  <2>1. TypeOK'
    BY <1>32 DEF WriterWait, WriterMoves, WriterStates
  <2>2. StreamInv'
    BY <1>32 DEF WriterWait, WriterMoves, StreamInv
  <2> QED
    BY <2>1, <2>2
<1>33. ASSUME NEW a \in Attempts, WriterSeek(a)
      PROVE  TypeInv'
  <2>1. TypeOK'
    BY <1>33 DEF WriterSeek, WriterMoves, WriterStates
  <2>2. StreamInv'
    BY <1>33 DEF WriterSeek, WriterMoves, StreamInv
  <2> QED
    BY <2>1, <2>2
<1>34. ASSUME NEW a \in Attempts, NEW h \in Attempts, WriterRead(a, h)
      PROVE  TypeInv'
  <2>1. TypeOK'
    <3>1. body[h][recvd[h]] \in Blocks
      <4>1. /\ body[h] \in Versions
            /\ recvd[h] > 0 /\ recvd[h] <= sent[h] /\ sent[h] <= Len(body[h])
        BY <1>34 DEF WriterRead, WriterMoves, StreamInv
      <4>2. Len(body[h]) \in Nat /\ \A i \in 1..Len(body[h]) : body[h][i] \in Blocks
        BY <4>1, VersionType
      <4>3. recvd[h] \in Nat /\ sent[h] \in Nat
        OBVIOUS
      <4> HIDE DEF TypeInv
      <4> QED
        BY <4>1, <4>2, <4>3
    <3> QED
      BY <1>34, <3>1 DEF WriterRead, WriterMoves, HandlerStates, WriterStates
  <2>2. StreamInv'
    <3>1. body[h][recvd[h]] \in Blocks
      <4>1. /\ body[h] \in Versions
            /\ recvd[h] > 0 /\ recvd[h] <= sent[h] /\ sent[h] <= Len(body[h])
        BY <1>34 DEF WriterRead, WriterMoves, StreamInv
      <4>2. Len(body[h]) \in Nat /\ \A i \in 1..Len(body[h]) : body[h][i] \in Blocks
        BY <4>1, VersionType
      <4>3. recvd[h] \in Nat /\ sent[h] \in Nat
        OBVIOUS
      <4> HIDE DEF TypeInv
      <4> QED
        BY <4>1, <4>2, <4>3
    <3> QED
      BY ZenonT(60), <1>34, <3>1 DEF WriterRead, WriterMoves, StreamInv
  <2> QED
    BY <2>1, <2>2
<1>35. ASSUME NEW a \in Attempts, WriterWrite(a)
      PROVE  TypeInv'
  <2>1. TypeOK'
    <3>1. inode[a] \in Attempts /\ buf[a] \in Blocks
      BY <1>35 DEF WriterWrite, WriterMoves, StreamInv
    <3>2. WriteAt(data[inode[a]], pos[a], buf[a]) \in Content
      BY <3>1, WriteAtType
    <3> QED
      BY <1>35, <3>1, <3>2 DEF WriterWrite, WriterMoves, WriterStates
  <2>2. StreamInv'
    BY <1>35, WriteAtType DEF WriterWrite, WriterMoves, StreamInv
  <2> QED
    BY <2>1, <2>2
<1>36. ASSUME NEW a \in Attempts, WriterWriteFails(a)
      PROVE  TypeInv'
  <2>1. TypeOK'
    BY <1>36 DEF WriterWriteFails, WriterFails, WriterMoves, WriterStates
  <2>2. StreamInv'
    BY <1>36 DEF WriterWriteFails, WriterFails, WriterMoves, StreamInv
  <2> QED
    BY <2>1, <2>2
<1>37. ASSUME NEW a \in Attempts, WriterEOF(a)
      PROVE  TypeInv'
  <2>1. TypeOK'
    BY <1>37 DEF WriterEOF, WriterMoves, WriterStates
  <2>2. StreamInv'
    BY <1>37 DEF WriterEOF, WriterMoves, StreamInv
  <2> QED
    BY <2>1, <2>2
<1>38. ASSUME NEW a \in Attempts, WriterPut(a)
      PROVE  TypeInv'
  <2>1. TypeOK'
    BY <1>38 DEF WriterPut, WriterMoves, StoreTakes, StoreFails, StoreMayFail, RecordOf, WriterStates
  <2>2. StreamInv'
    BY <1>38 DEF WriterPut, WriterMoves, StoreTakes, StoreFails, StoreMayFail, RecordOf, StreamInv
  <2> QED
    BY <2>1, <2>2
<1>39. ASSUME NEW a \in Attempts, WriterReturn(a)
      PROVE  TypeInv'
  <2>1. TypeOK'
    BY <1>39 DEF WriterReturn, WriterMoves, WriterStates
  <2>2. StreamInv'
    BY <1>39 DEF WriterReturn, WriterMoves, StreamInv
  <2> QED
    BY <2>1, <2>2
<1>40. ASSUME Stop
      PROVE  TypeInv'
  <2>1. TypeOK'
    BY <1>40 DEF Stop, InFlight
  <2>2. StreamInv'
    BY <1>40 DEF Stop, InFlight, StreamInv
  <2> QED
    BY <2>1, <2>2
<1>41. ASSUME Exit
      PROVE  TypeInv'
  <2>1. TypeOK'
    BY <1>41 DEF Exit, ProcessDies, InFlight, QueryStates, HandlerStates, WriterStates
  <2>2. StreamInv'
    BY <1>41 DEF Exit, ProcessDies, InFlight, StreamInv
  <2> QED
    BY <2>1, <2>2
<1>42. ASSUME Crash
      PROVE  TypeInv'
  <2>1. TypeOK'
    <3>1. crashes' \in Nat
      BY <1>42 DEF Crash
    <3>2. /\ query' \in [Attempts -> QueryStates]
          /\ writer' \in [Attempts -> WriterStates]
          /\ handler' \in [Attempts -> HandlerStates]
          /\ activeFiles' \in [Clients -> Attempts \cup {None}]
          /\ broken' \in [Attempts -> BOOLEAN]
      BY <1>42 DEF Crash, ProcessDies, InFlight, QueryStates, WriterStates,
                  HandlerStates
    <3> QED
      BY <1>42, <3>1, <3>2 DEF Crash, ProcessDies
  <2>2. StreamInv'
    BY <1>42 DEF Crash, ProcessDies, InFlight, StreamInv
  <2> QED
    BY <2>1, <2>2
<1>43. ASSUME CloseStore
      PROVE  TypeInv'
  BY <1>43 DEF CloseStore, StreamInv
<1>44. ASSUME UNCHANGED vars
      PROVE  TypeInv'
  BY <1>44 DEF vars, StreamInv
<1>45. ASSUME NEW a \in Attempts, OpenFails(a) \/ RemoveSource(a)
      PROVE  TypeInv'
  <2>1. TypeOK'
    <3>1. CASE OpenFails(a)
      BY <3>1 DEF OpenFails, ClientMoves, ClientStates
    <3>2. CASE RemoveSource(a)
      <4>1. deleting' \in [Attempts -> BOOLEAN] /\ removed' \subseteq Paths
        BY <3>2, PathType DEF RemoveSource
      <4> QED
        BY <3>2, <4>1 DEF RemoveSource
    <3> QED
      BY <1>45, <3>1, <3>2
  <2>2. StreamInv'
    BY <1>45 DEF OpenFails, RemoveSource, ClientMoves, StreamInv
  <2> QED
    BY <2>1, <2>2
<1> QED
  BY <1>45, <1>1, <1>2, <1>3, <1>4, <1>5, <1>6, <1>7, <1>8, <1>9, <1>10, <1>11, <1>12, <1>13, <1>14, <1>15, <1>16, <1>17, <1>18, <1>19, <1>20, <1>21, <1>22, <1>23, <1>24, <1>25, <1>26, <1>27, <1>28, <1>29, <1>30, <1>31, <1>32, <1>33, <1>34, <1>35, <1>36, <1>37, <1>38, <1>39, <1>40, <1>41, <1>42, <1>43, <1>44
     DEF Next, ClientStep, QueryStep, HandlerStep, WriterStep

\* Every variable keeps its type, and a block is read from a stream only where
\* the stream has one (worker.go:84 to server.go:312).
THEOREM TypeCorrect == Spec => []TypeOK
<1>1. TypeInv /\ [Next]_vars => TypeInv'
  BY TypeStep
<1>2. TypeInv => TypeOK
  BY DEF TypeInv
<1> QED
  BY <1>1, <1>2, TypeInit, PTL DEF Spec

-----------------------------------------------------------------------------
(* A writer starts once, when the query activates its session.             *)

BeforeActivation == {"idle", "has", "stat", "remove", "put", "get", "drop"}

PhaseInv ==
    \A a \in Attempts :
        /\ client[a] = "idle" => query[a] = "idle"
        /\ query[a] \in BeforeActivation => writer[a] = "none"

LEMMA PhaseStep ==
    TypeOK /\ PhaseInv /\ [Next]_vars => PhaseInv'
<1> SUFFICES ASSUME TypeOK /\ PhaseInv, [Next]_vars PROVE PhaseInv'
  OBVIOUS
<1> USE DEF TypeOK, PhaseInv, BeforeActivation, clientVars, queryVars, sessionVars, writerVars,
        handlerVars, diskVars, processVars, ClientMoves, Requeue, QueryMoves, StoreTakes, StoreFails, StoreMayFail,
        HandlerMoves, WriterMoves
<1>1. ASSUME NEW a \in Attempts, Start(a)
      PROVE  PhaseInv'
  BY <1>1 DEF Start
<1>2. ASSUME NEW a \in Attempts, QueryFailed(a)
      PROVE  PhaseInv'
  BY <1>2 DEF QueryFailed
<1>3. ASSUME NEW a \in Attempts, Skip(a)
      PROVE  PhaseInv'
  BY <1>3 DEF Skip, Completed
<1>4. ASSUME NEW a \in Attempts, OpenStream(a)
      PROVE  PhaseInv'
  BY <1>4 DEF OpenStream
<1>5. ASSUME NEW a \in Attempts, OpenStreamFails(a)
      PROVE  PhaseInv'
  BY <1>5 DEF OpenStreamFails
<1>6. ASSUME NEW a \in Attempts, Send(a)
      PROVE  PhaseInv'
  BY <1>6 DEF Send
<1>7. ASSUME NEW a \in Attempts, SendFails(a)
      PROVE  PhaseInv'
  BY <1>7 DEF SendFails
<1>8. ASSUME NEW a \in Attempts, CloseSend(a)
      PROVE  PhaseInv'
  BY <1>8 DEF CloseSend, Completed
<1>9. ASSUME NEW a \in Attempts, Break(a)
      PROVE  PhaseInv'
  BY <1>9 DEF Break
<1>10. ASSUME NEW a \in Attempts, QueryHas(a)
      PROVE  PhaseInv'
  BY <1>10 DEF QueryHas
<1>11. ASSUME NEW a \in Attempts, QueryStat(a)
      PROVE  PhaseInv'
  BY <1>11 DEF QueryStat
<1>12. ASSUME NEW a \in Attempts, QueryRemove(a)
      PROVE  PhaseInv'
  BY <1>12 DEF QueryRemove
<1>13. ASSUME NEW a \in Attempts, QueryRemoveFails(a)
      PROVE  PhaseInv'
  BY <1>13 DEF QueryRemoveFails
<1>14. ASSUME NEW a \in Attempts, QueryPut(a)
      PROVE  PhaseInv'
  BY <1>14 DEF QueryPut, RecordOf
<1>15. ASSUME NEW a \in Attempts, QueryActivate(a)
      PROVE  PhaseInv'
  BY <1>15 DEF QueryActivate
<1>16. ASSUME NEW a \in Attempts, QueryGet(a)
      PROVE  PhaseInv'
  BY <1>16 DEF QueryGet
<1>17. ASSUME NEW a \in Attempts, QueryDrop(a)
      PROVE  PhaseInv'
  BY <1>17 DEF QueryDrop
<1>18. ASSUME NEW a \in Attempts, QueryInfoNone(a)
      PROVE  PhaseInv'
  BY <1>18 DEF QueryInfoNone, QueryReplies, AfterReply
<1>19. ASSUME NEW a \in Attempts, QueryInfo(a)
      PROVE  PhaseInv'
  BY <1>19 DEF QueryInfo
<1>20. ASSUME NEW a \in Attempts, QueryHash(a)
      PROVE  PhaseInv'
  BY <1>20 DEF QueryHash, QueryReplies, AfterReply
<1>21. ASSUME NEW a \in Attempts, QueryHashFatal(a)
      PROVE  PhaseInv'
  BY <1>21 DEF QueryHashFatal, ProcessDies
<1>22. ASSUME NEW a \in Attempts, HandlerStart(a)
      PROVE  PhaseInv'
  BY <1>22 DEF HandlerStart
<1>23. ASSUME NEW a \in Attempts, HandlerRecv(a)
      PROVE  PhaseInv'
  BY <1>23 DEF HandlerRecv, ActiveFile
<1>24. ASSUME NEW a \in Attempts, HandlerNoSession(a)
      PROVE  PhaseInv'
  BY <1>24 DEF HandlerNoSession, HandlerReturns
<1>25. ASSUME NEW a \in Attempts, HandlerEOF(a)
      PROVE  PhaseInv'
  BY <1>25 DEF HandlerEOF, HandlerReturns
<1>26. ASSUME NEW a \in Attempts, HandlerBroken(a)
      PROVE  PhaseInv'
  BY <1>26 DEF HandlerBroken, HandlerReturns
<1>27. ASSUME NEW a \in Attempts, HandlerDrop(a)
      PROVE  PhaseInv'
  BY <1>27 DEF HandlerDrop
<1>28. ASSUME NEW a \in Attempts, HandlerSelectError(a)
      PROVE  PhaseInv'
  BY <1>28 DEF HandlerSelectError, HandlerReturns
<1>29. ASSUME NEW a \in Attempts, HandlerSelectDone(a)
      PROVE  PhaseInv'
  BY <1>29 DEF HandlerSelectDone, HandlerReturns
<1>30. ASSUME NEW a \in Attempts, HandlerSelectDefault(a)
      PROVE  PhaseInv'
  BY <1>30 DEF HandlerSelectDefault
<1>31. ASSUME NEW a \in Attempts, WriterOpen(a)
      PROVE  PhaseInv'
  BY <1>31 DEF WriterOpen, OpenedInode
<1>32. ASSUME NEW a \in Attempts, WriterOpenFails(a)
      PROVE  PhaseInv'
  BY <1>32 DEF WriterOpenFails, WriterFails
<1>33. ASSUME NEW a \in Attempts, WriterWait(a)
      PROVE  PhaseInv'
  BY <1>33 DEF WriterWait
<1>34. ASSUME NEW a \in Attempts, WriterSeek(a)
      PROVE  PhaseInv'
  BY <1>34 DEF WriterSeek
<1>35. ASSUME NEW a \in Attempts, NEW h \in Attempts, WriterRead(a, h)
      PROVE  PhaseInv'
  BY <1>35 DEF WriterRead
<1>36. ASSUME NEW a \in Attempts, WriterWrite(a)
      PROVE  PhaseInv'
  BY <1>36 DEF WriterWrite
<1>37. ASSUME NEW a \in Attempts, WriterWriteFails(a)
      PROVE  PhaseInv'
  BY <1>37 DEF WriterWriteFails, WriterFails
<1>38. ASSUME NEW a \in Attempts, WriterEOF(a)
      PROVE  PhaseInv'
  BY <1>38 DEF WriterEOF
<1>39. ASSUME NEW a \in Attempts, WriterPut(a)
      PROVE  PhaseInv'
  BY <1>39 DEF WriterPut, RecordOf
<1>40. ASSUME NEW a \in Attempts, WriterReturn(a)
      PROVE  PhaseInv'
  BY <1>40 DEF WriterReturn
<1>41. ASSUME Stop
      PROVE  PhaseInv'
  BY <1>41 DEF Stop
<1>42. ASSUME CloseStore
      PROVE  PhaseInv'
  BY <1>42 DEF CloseStore
<1>43. ASSUME Exit
      PROVE  PhaseInv'
  BY <1>43 DEF Exit, ProcessDies
<1>44. ASSUME Crash
      PROVE  PhaseInv'
  BY <1>44 DEF Crash, ProcessDies
<1>45. ASSUME UNCHANGED vars
      PROVE  PhaseInv'
  BY <1>45 DEF vars
<1>46. ASSUME NEW a \in Attempts, OpenFails(a) \/ RemoveSource(a)
      PROVE  PhaseInv'
  BY <1>46 DEF OpenFails, RemoveSource
<1> QED
  BY <1>46, <1>1, <1>2, <1>3, <1>4, <1>5, <1>6, <1>7, <1>8, <1>9, <1>10, <1>11, <1>12, <1>13, <1>14, <1>15, <1>16, <1>17, <1>18, <1>19, <1>20, <1>21, <1>22, <1>23, <1>24, <1>25, <1>26, <1>27, <1>28, <1>29, <1>30, <1>31, <1>32, <1>33, <1>34, <1>35, <1>36, <1>37, <1>38, <1>39, <1>40, <1>41, <1>42, <1>43, <1>44, <1>45
     DEF Next, ClientStep, QueryStep, HandlerStep, WriterStep

-----------------------------------------------------------------------------
(* The offset of the first block is set before the writer uses it.         *)

LEMMA OffsetStep ==
    TypeOK /\ PhaseInv /\ OffsetSetBeforeCopy /\ [Next]_vars => OffsetSetBeforeCopy'
<1> SUFFICES ASSUME TypeOK /\ PhaseInv /\ OffsetSetBeforeCopy, [Next]_vars PROVE OffsetSetBeforeCopy'
  OBVIOUS
<1> USE DEF TypeOK, OffsetSetBeforeCopy, clientVars, queryVars, sessionVars, writerVars,
        handlerVars, diskVars, processVars, ClientMoves, Requeue, QueryMoves, StoreTakes, StoreFails, StoreMayFail,
        HandlerMoves, WriterMoves
<1>1. ASSUME NEW a \in Attempts, Start(a)
      PROVE  OffsetSetBeforeCopy'
  BY <1>1 DEF Start
<1>2. ASSUME NEW a \in Attempts, QueryFailed(a)
      PROVE  OffsetSetBeforeCopy'
  BY <1>2 DEF QueryFailed
<1>3. ASSUME NEW a \in Attempts, Skip(a)
      PROVE  OffsetSetBeforeCopy'
  BY <1>3 DEF Skip, Completed
<1>4. ASSUME NEW a \in Attempts, OpenStream(a)
      PROVE  OffsetSetBeforeCopy'
  BY <1>4 DEF OpenStream
<1>5. ASSUME NEW a \in Attempts, OpenStreamFails(a)
      PROVE  OffsetSetBeforeCopy'
  BY <1>5 DEF OpenStreamFails
<1>6. ASSUME NEW a \in Attempts, Send(a)
      PROVE  OffsetSetBeforeCopy'
  BY <1>6 DEF Send
<1>7. ASSUME NEW a \in Attempts, SendFails(a)
      PROVE  OffsetSetBeforeCopy'
  BY <1>7 DEF SendFails
<1>8. ASSUME NEW a \in Attempts, CloseSend(a)
      PROVE  OffsetSetBeforeCopy'
  BY <1>8 DEF CloseSend, Completed
<1>9. ASSUME NEW a \in Attempts, Break(a)
      PROVE  OffsetSetBeforeCopy'
  BY <1>9 DEF Break
<1>10. ASSUME NEW a \in Attempts, QueryHas(a)
      PROVE  OffsetSetBeforeCopy'
  BY <1>10 DEF QueryHas
<1>11. ASSUME NEW a \in Attempts, QueryStat(a)
      PROVE  OffsetSetBeforeCopy'
  BY <1>11 DEF QueryStat
<1>12. ASSUME NEW a \in Attempts, QueryRemove(a)
      PROVE  OffsetSetBeforeCopy'
  BY <1>12 DEF QueryRemove
<1>13. ASSUME NEW a \in Attempts, QueryRemoveFails(a)
      PROVE  OffsetSetBeforeCopy'
  BY <1>13 DEF QueryRemoveFails
<1>14. ASSUME NEW a \in Attempts, QueryPut(a)
      PROVE  OffsetSetBeforeCopy'
  BY <1>14 DEF QueryPut, RecordOf
<1>15. ASSUME NEW a \in Attempts, QueryActivate(a)
      PROVE  OffsetSetBeforeCopy'
  BY <1>15 DEF QueryActivate
<1>16. ASSUME NEW a \in Attempts, QueryGet(a)
      PROVE  OffsetSetBeforeCopy'
  BY <1>16 DEF QueryGet, PhaseInv, BeforeActivation
<1>17. ASSUME NEW a \in Attempts, QueryDrop(a)
      PROVE  OffsetSetBeforeCopy'
  BY <1>17 DEF QueryDrop
<1>18. ASSUME NEW a \in Attempts, QueryInfoNone(a)
      PROVE  OffsetSetBeforeCopy'
  BY <1>18 DEF QueryInfoNone, QueryReplies, AfterReply
<1>19. ASSUME NEW a \in Attempts, QueryInfo(a)
      PROVE  OffsetSetBeforeCopy'
  BY <1>19 DEF QueryInfo
<1>20. ASSUME NEW a \in Attempts, QueryHash(a)
      PROVE  OffsetSetBeforeCopy'
  BY <1>20 DEF QueryHash, QueryReplies, AfterReply
<1>21. ASSUME NEW a \in Attempts, QueryHashFatal(a)
      PROVE  OffsetSetBeforeCopy'
  BY <1>21 DEF QueryHashFatal, ProcessDies
<1>22. ASSUME NEW a \in Attempts, HandlerStart(a)
      PROVE  OffsetSetBeforeCopy'
  BY <1>22 DEF HandlerStart
<1>23. ASSUME NEW a \in Attempts, HandlerRecv(a)
      PROVE  OffsetSetBeforeCopy'
  BY <1>23 DEF HandlerRecv, ActiveFile
<1>24. ASSUME NEW a \in Attempts, HandlerNoSession(a)
      PROVE  OffsetSetBeforeCopy'
  BY <1>24 DEF HandlerNoSession, HandlerReturns
<1>25. ASSUME NEW a \in Attempts, HandlerEOF(a)
      PROVE  OffsetSetBeforeCopy'
  BY <1>25 DEF HandlerEOF, HandlerReturns
<1>26. ASSUME NEW a \in Attempts, HandlerBroken(a)
      PROVE  OffsetSetBeforeCopy'
  BY <1>26 DEF HandlerBroken, HandlerReturns
<1>27. ASSUME NEW a \in Attempts, HandlerDrop(a)
      PROVE  OffsetSetBeforeCopy'
  BY <1>27 DEF HandlerDrop
<1>28. ASSUME NEW a \in Attempts, HandlerSelectError(a)
      PROVE  OffsetSetBeforeCopy'
  BY <1>28 DEF HandlerSelectError, HandlerReturns
<1>29. ASSUME NEW a \in Attempts, HandlerSelectDone(a)
      PROVE  OffsetSetBeforeCopy'
  BY <1>29 DEF HandlerSelectDone, HandlerReturns
<1>30. ASSUME NEW a \in Attempts, HandlerSelectDefault(a)
      PROVE  OffsetSetBeforeCopy'
  BY <1>30 DEF HandlerSelectDefault
<1>31. ASSUME NEW a \in Attempts, WriterOpen(a)
      PROVE  OffsetSetBeforeCopy'
  BY <1>31 DEF WriterOpen, OpenedInode
<1>32. ASSUME NEW a \in Attempts, WriterOpenFails(a)
      PROVE  OffsetSetBeforeCopy'
  BY <1>32 DEF WriterOpenFails, WriterFails
<1>33. ASSUME NEW a \in Attempts, WriterWait(a)
      PROVE  OffsetSetBeforeCopy'
  BY <1>33 DEF WriterWait
<1>34. ASSUME NEW a \in Attempts, WriterSeek(a)
      PROVE  OffsetSetBeforeCopy'
  BY <1>34 DEF WriterSeek
<1>35. ASSUME NEW a \in Attempts, NEW h \in Attempts, WriterRead(a, h)
      PROVE  OffsetSetBeforeCopy'
  BY <1>35 DEF WriterRead
<1>36. ASSUME NEW a \in Attempts, WriterWrite(a)
      PROVE  OffsetSetBeforeCopy'
  BY <1>36 DEF WriterWrite
<1>37. ASSUME NEW a \in Attempts, WriterWriteFails(a)
      PROVE  OffsetSetBeforeCopy'
  BY <1>37 DEF WriterWriteFails, WriterFails
<1>38. ASSUME NEW a \in Attempts, WriterEOF(a)
      PROVE  OffsetSetBeforeCopy'
  BY <1>38 DEF WriterEOF
<1>39. ASSUME NEW a \in Attempts, WriterPut(a)
      PROVE  OffsetSetBeforeCopy'
  BY <1>39 DEF WriterPut, RecordOf
<1>40. ASSUME NEW a \in Attempts, WriterReturn(a)
      PROVE  OffsetSetBeforeCopy'
  BY <1>40 DEF WriterReturn
<1>41. ASSUME Stop
      PROVE  OffsetSetBeforeCopy'
  BY <1>41 DEF Stop
<1>42. ASSUME CloseStore
      PROVE  OffsetSetBeforeCopy'
  BY <1>42 DEF CloseStore
<1>43. ASSUME Exit
      PROVE  OffsetSetBeforeCopy'
  BY <1>43 DEF Exit, ProcessDies
<1>44. ASSUME Crash
      PROVE  OffsetSetBeforeCopy'
  BY <1>44 DEF Crash, ProcessDies
<1>45. ASSUME UNCHANGED vars
      PROVE  OffsetSetBeforeCopy'
  BY <1>45 DEF vars
<1>46. ASSUME NEW a \in Attempts, OpenFails(a) \/ RemoveSource(a)
      PROVE  OffsetSetBeforeCopy'
  BY <1>46 DEF OpenFails, RemoveSource
<1> QED
  BY <1>46, <1>1, <1>2, <1>3, <1>4, <1>5, <1>6, <1>7, <1>8, <1>9, <1>10, <1>11, <1>12, <1>13, <1>14, <1>15, <1>16, <1>17, <1>18, <1>19, <1>20, <1>21, <1>22, <1>23, <1>24, <1>25, <1>26, <1>27, <1>28, <1>29, <1>30, <1>31, <1>32, <1>33, <1>34, <1>35, <1>36, <1>37, <1>38, <1>39, <1>40, <1>41, <1>42, <1>43, <1>44, <1>45
     DEF Next, ClientStep, QueryStep, HandlerStep, WriterStep

\* A writer that got past its wait has the offset of its session's first block
\* below every position it writes at (server.go:212-215 against 295-312).
THEOREM OffsetCorrect == Spec => []OffsetSetBeforeCopy
<1> DEFINE Inv == TypeInv /\ PhaseInv /\ OffsetSetBeforeCopy
<1>1. Init => Inv
  BY ZenonT(60), TypeInit DEF Init, PhaseInv, OffsetSetBeforeCopy
<1>2. Inv /\ [Next]_vars => Inv'
  BY TypeStep, PhaseStep, OffsetStep DEF TypeInv
<1> QED
  BY <1>1, <1>2, PTL DEF Spec

-----------------------------------------------------------------------------
(* A file at a path has a record.                                          *)

Recorded(a) == key[a] \in Undated \/ fileDb[key[a]] # "absent"

\* The record is there from the moment a query found or put it, and nothing
\* deletes it: QueryDrop deletes records that cannot be read or were gone
\* already, and only hashes of undated sources have those.  Whoever passed Put
\* without a record had it refused.
RecordInv ==
    /\ \A v \in Hashes : fileDb[v] = "torn" => v \in Undated
    /\ \A a \in Attempts :
          /\ query[a] = "drop" => key[a] \in Undated
          /\ query[a] = "get" => Recorded(a)
          /\ query[a] \in {"activate", "info", "hash"} => a \in unrecorded \/ Recorded(a)
          /\ writer[a] # "none" => a \in unrecorded \/ Recorded(a)
    /\ \A p \in Paths : dir[p] # None => writer[dir[p]] # "none"

LEMMA RecordStep ==
    TypeInv /\ PhaseInv /\ RecordInv /\ [Next]_vars => RecordInv'
<1> SUFFICES ASSUME TypeInv /\ PhaseInv /\ RecordInv, [Next]_vars PROVE RecordInv'
  OBVIOUS
<1> USE DEF TypeInv, TypeOK, RecordInv, Recorded, clientVars, queryVars, sessionVars, writerVars,
        handlerVars, diskVars, processVars, ClientMoves, Requeue, QueryMoves, StoreTakes, StoreFails, StoreMayFail,
        HandlerMoves, WriterMoves
<1>1. ASSUME NEW a \in Attempts, Start(a)
      PROVE  RecordInv'
  BY <1>1 DEF Start, PhaseInv, BeforeActivation
<1>2. ASSUME NEW a \in Attempts, QueryFailed(a)
      PROVE  RecordInv'
  BY <1>2 DEF QueryFailed
<1>3. ASSUME NEW a \in Attempts, Skip(a)
      PROVE  RecordInv'
  BY <1>3 DEF Skip, Completed
<1>4. ASSUME NEW a \in Attempts, OpenStream(a)
      PROVE  RecordInv'
  BY <1>4 DEF OpenStream
<1>5. ASSUME NEW a \in Attempts, OpenStreamFails(a)
      PROVE  RecordInv'
  BY <1>5 DEF OpenStreamFails
<1>6. ASSUME NEW a \in Attempts, Send(a)
      PROVE  RecordInv'
  BY <1>6 DEF Send
<1>7. ASSUME NEW a \in Attempts, SendFails(a)
      PROVE  RecordInv'
  BY <1>7 DEF SendFails
<1>8. ASSUME NEW a \in Attempts, CloseSend(a)
      PROVE  RecordInv'
  BY <1>8 DEF CloseSend, Completed
<1>9. ASSUME NEW a \in Attempts, Break(a)
      PROVE  RecordInv'
  BY <1>9 DEF Break
<1>10. ASSUME NEW a \in Attempts, QueryHas(a)
      PROVE  RecordInv'
  BY <1>10 DEF QueryHas, StreamInv
<1>11. ASSUME NEW a \in Attempts, QueryStat(a)
      PROVE  RecordInv'
  BY <1>11 DEF QueryStat
<1>12. ASSUME NEW a \in Attempts, QueryRemove(a)
      PROVE  RecordInv'
  BY <1>12 DEF QueryRemove
<1>13. ASSUME NEW a \in Attempts, QueryRemoveFails(a)
      PROVE  RecordInv'
  BY <1>13 DEF QueryRemoveFails
<1>14. ASSUME NEW a \in Attempts, QueryPut(a)
      PROVE  RecordInv'
  BY <1>14 DEF QueryPut, RecordOf, StreamInv
<1>15. ASSUME NEW a \in Attempts, QueryActivate(a)
      PROVE  RecordInv'
  BY <1>15 DEF QueryActivate
<1>16. ASSUME NEW a \in Attempts, QueryGet(a)
      PROVE  RecordInv'
  BY <1>16 DEF QueryGet, StreamInv
<1>17. ASSUME NEW a \in Attempts, QueryDrop(a)
      PROVE  RecordInv'
  BY <1>17 DEF QueryDrop, StreamInv
<1>18. ASSUME NEW a \in Attempts, QueryInfoNone(a)
      PROVE  RecordInv'
  BY <1>18 DEF QueryInfoNone, QueryReplies, AfterReply
<1>19. ASSUME NEW a \in Attempts, QueryInfo(a)
      PROVE  RecordInv'
  BY <1>19 DEF QueryInfo
<1>20. ASSUME NEW a \in Attempts, QueryHash(a)
      PROVE  RecordInv'
  BY <1>20 DEF QueryHash, QueryReplies, AfterReply
<1>21. ASSUME NEW a \in Attempts, QueryHashFatal(a)
      PROVE  RecordInv'
  BY <1>21 DEF QueryHashFatal, ProcessDies
<1>22. ASSUME NEW a \in Attempts, HandlerStart(a)
      PROVE  RecordInv'
  BY <1>22 DEF HandlerStart
<1>23. ASSUME NEW a \in Attempts, HandlerRecv(a)
      PROVE  RecordInv'
  BY <1>23 DEF HandlerRecv, ActiveFile
<1>24. ASSUME NEW a \in Attempts, HandlerNoSession(a)
      PROVE  RecordInv'
  BY <1>24 DEF HandlerNoSession, HandlerReturns
<1>25. ASSUME NEW a \in Attempts, HandlerEOF(a)
      PROVE  RecordInv'
  BY <1>25 DEF HandlerEOF, HandlerReturns
<1>26. ASSUME NEW a \in Attempts, HandlerBroken(a)
      PROVE  RecordInv'
  BY <1>26 DEF HandlerBroken, HandlerReturns
<1>27. ASSUME NEW a \in Attempts, HandlerDrop(a)
      PROVE  RecordInv'
  BY <1>27 DEF HandlerDrop
<1>28. ASSUME NEW a \in Attempts, HandlerSelectError(a)
      PROVE  RecordInv'
  BY <1>28 DEF HandlerSelectError, HandlerReturns
<1>29. ASSUME NEW a \in Attempts, HandlerSelectDone(a)
      PROVE  RecordInv'
  BY <1>29 DEF HandlerSelectDone, HandlerReturns
<1>30. ASSUME NEW a \in Attempts, HandlerSelectDefault(a)
      PROVE  RecordInv'
  BY <1>30 DEF HandlerSelectDefault
<1>31. ASSUME NEW a \in Attempts, WriterOpen(a)
      PROVE  RecordInv'
  BY <1>31, PathType DEF WriterOpen, OpenedInode
<1>32. ASSUME NEW a \in Attempts, WriterOpenFails(a)
      PROVE  RecordInv'
  BY <1>32 DEF WriterOpenFails, WriterFails
<1>33. ASSUME NEW a \in Attempts, WriterWait(a)
      PROVE  RecordInv'
  BY <1>33 DEF WriterWait
<1>34. ASSUME NEW a \in Attempts, WriterSeek(a)
      PROVE  RecordInv'
  BY <1>34 DEF WriterSeek
<1>35. ASSUME NEW a \in Attempts, NEW h \in Attempts, WriterRead(a, h)
      PROVE  RecordInv'
  BY <1>35 DEF WriterRead
<1>36. ASSUME NEW a \in Attempts, WriterWrite(a)
      PROVE  RecordInv'
  BY <1>36 DEF WriterWrite
<1>37. ASSUME NEW a \in Attempts, WriterWriteFails(a)
      PROVE  RecordInv'
  BY <1>37 DEF WriterWriteFails, WriterFails
<1>38. ASSUME NEW a \in Attempts, WriterEOF(a)
      PROVE  RecordInv'
  BY <1>38 DEF WriterEOF
<1>39. ASSUME NEW a \in Attempts, WriterPut(a)
      PROVE  RecordInv'
  BY <1>39 DEF WriterPut, RecordOf, StreamInv
<1>40. ASSUME NEW a \in Attempts, WriterReturn(a)
      PROVE  RecordInv'
  BY <1>40 DEF WriterReturn
<1>41. ASSUME Stop
      PROVE  RecordInv'
  BY <1>41 DEF Stop
<1>42. ASSUME CloseStore
      PROVE  RecordInv'
  BY <1>42 DEF CloseStore
<1>43. ASSUME Exit
      PROVE  RecordInv'
  BY <1>43 DEF Exit, ProcessDies
<1>44. ASSUME Crash
      PROVE  RecordInv'
  BY <1>44 DEF Crash, ProcessDies
<1>45. ASSUME UNCHANGED vars
      PROVE  RecordInv'
  BY <1>45 DEF vars
<1>46. ASSUME NEW a \in Attempts, OpenFails(a) \/ RemoveSource(a)
      PROVE  RecordInv'
  BY <1>46 DEF OpenFails, RemoveSource
<1> QED
  BY <1>46, <1>1, <1>2, <1>3, <1>4, <1>5, <1>6, <1>7, <1>8, <1>9, <1>10, <1>11, <1>12, <1>13, <1>14, <1>15, <1>16, <1>17, <1>18, <1>19, <1>20, <1>21, <1>22, <1>23, <1>24, <1>25, <1>26, <1>27, <1>28, <1>29, <1>30, <1>31, <1>32, <1>33, <1>34, <1>35, <1>36, <1>37, <1>38, <1>39, <1>40, <1>41, <1>42, <1>43, <1>44, <1>45
     DEF Next, ClientStep, QueryStep, HandlerStep, WriterStep

\* Whatever crashes, signals, retries, racing calls and failing disks there are, a
\* file visible at its path is known to the store under the hash it was created
\* for, unless the very Put of its creator failed or its source has modification
\* time 0 (server.go:102-112, 139-140).
THEOREM RecordCorrect == Spec => []RecordBeforeFile
<1> DEFINE Inv == TypeInv /\ PhaseInv /\ RecordInv
<1>1. Init => Inv
  <2> SUFFICES ASSUME Init PROVE Inv
    OBVIOUS
  <2>1. \A v \in Hashes : fileDb[v] = "torn" => v \in Undated
    <3>1. PICK torn \in SUBSET TornRecords :
             fileDb = [v \in Hashes |-> IF v \in torn THEN "torn" ELSE "absent"]
      BY DEF Init
    <3> QED
      BY <3>1, ServerConstants DEF Undated
  <2>2. PhaseInv
    BY DEF Init, PhaseInv
  <2>3. /\ phase = "serving"
        /\ \A a \in Attempts : query[a] = "idle" /\ writer[a] = "none"
        /\ \A p \in Paths : dir[p] = None
    BY DEF Init
  <2> QED
    BY TypeInit, <2>1, <2>2, <2>3 DEF RecordInv
<1>2. Inv /\ [Next]_vars => Inv'
  BY TypeStep, PhaseStep, RecordStep DEF TypeInv
<1>3. Inv => RecordBeforeFile
  BY DEF TypeInv, TypeOK, RecordInv, RecordBeforeFile, Recorded
<1> QED
  BY <1>1, <1>2, <1>3, PTL DEF Spec

=============================================================================
