---------------------- MODULE TorrxferServerStreamProofs ----------------------
(***************************************************************************)
(* That a query leaves a session for its stream, and what a lone attempt's *)
(* stream leaves in its file, for any number of attempts, clients, paths,  *)
(* versions and crashes and with every fault.                              *)
(***************************************************************************)
EXTENDS TorrxferServerMediaProofs

-----------------------------------------------------------------------------
(* A query primes the server.                                              *)

\* What the query leaves for its stream, as long as the process lives: an unknown hash
\* is answered after the session is there, and a known one is either whole on disk or
\* answered before.
Lives == crashes = 0 /\ stops = 0 /\ ~fatal

PrimedInv ==
    /\ phase # "serving" => stops > 0
    /\ \A a \in Attempts :
          /\ query[a] = "get" => found[a]
          /\ handler[a] # "none" => query[a] = "done"
          /\ Lives /\ query[a] \in {"info", "hash"} /\ ~found[a]
                => activeFiles[ClientOf[a]] # None
          /\ Lives /\ query[a] = "done" /\ reply[a].hash # key[a]
                => activeFiles[ClientOf[a]] # None

LEMMA PrimedStep ==
    TypeInv /\ PhaseInv /\ PrimedInv /\ [Next]_vars => PrimedInv'
<1> SUFFICES ASSUME TypeInv /\ PhaseInv /\ PrimedInv, [Next]_vars PROVE PrimedInv'
  OBVIOUS
<1> USE DEF TypeOK, PrimedInv, Lives, TypeInv, StreamInv, PhaseInv, BeforeActivation,
        clientVars, queryVars, sessionVars, writerVars,
        handlerVars, diskVars, processVars, ClientMoves, Requeue, QueryMoves, StoreTakes, StoreFails, StoreMayFail,
        HandlerMoves, WriterMoves
<1>1. ASSUME NEW a \in Attempts, Start(a)
      PROVE  PrimedInv'
  BY <1>1 DEF Start
<1>2. ASSUME NEW a \in Attempts, QueryFailed(a)
      PROVE  PrimedInv'
  BY <1>2 DEF QueryFailed
<1>3. ASSUME NEW a \in Attempts, Skip(a)
      PROVE  PrimedInv'
  BY <1>3 DEF Skip, Completed
<1>4. ASSUME NEW a \in Attempts, OpenStream(a)
      PROVE  PrimedInv'
  BY <1>4 DEF OpenStream
<1>5. ASSUME NEW a \in Attempts, OpenStreamFails(a)
      PROVE  PrimedInv'
  BY <1>5 DEF OpenStreamFails
<1>6. ASSUME NEW a \in Attempts, Send(a)
      PROVE  PrimedInv'
  BY <1>6 DEF Send
<1>7. ASSUME NEW a \in Attempts, SendFails(a)
      PROVE  PrimedInv'
  BY <1>7 DEF SendFails
<1>8. ASSUME NEW a \in Attempts, CloseSend(a)
      PROVE  PrimedInv'
  BY <1>8 DEF CloseSend, Completed
<1>9. ASSUME NEW a \in Attempts, Break(a)
      PROVE  PrimedInv'
  BY <1>9 DEF Break
<1>10. ASSUME NEW a \in Attempts, QueryHas(a)
      PROVE  PrimedInv'
  <2>1. PICK to \in {"get", "stat"} :
            /\ QueryMoves(a, "has", to)
            /\ found' = [found EXCEPT ![a] = (to = "get")]
            /\ UNCHANGED <<reply, activeFiles, writer, dir>>
    BY <1>10, HasMoves
  <2> QED
    BY <2>1
<1>11. ASSUME NEW a \in Attempts, QueryStat(a)
      PROVE  PrimedInv'
  BY SMTT(60), <1>11 DEF QueryStat
<1>12. ASSUME NEW a \in Attempts, QueryRemove(a)
      PROVE  PrimedInv'
  BY <1>12 DEF QueryRemove
<1>13. ASSUME NEW a \in Attempts, QueryRemoveFails(a)
      PROVE  PrimedInv'
  BY <1>13 DEF QueryRemoveFails
<1>14. ASSUME NEW a \in Attempts, QueryPut(a)
      PROVE  PrimedInv'
  BY <1>14 DEF QueryPut, RecordOf
<1>15. ASSUME NEW a \in Attempts, QueryActivate(a)
      PROVE  PrimedInv'
  <2>1. ClientOf[a] \in Clients /\ a # None
    BY PathType, AttemptIsNotNone
  <2>2. /\ query[a] = "activate" /\ activeFiles' = [activeFiles EXCEPT ![ClientOf[a]] = a]
        /\ query' = [query EXCEPT ![a] = IF found[a] THEN "done" ELSE "info"]
        /\ UNCHANGED <<phase, stops, crashes, fatal, found, handler, reply, key>>
    BY <1>15 DEF QueryActivate
  <2>3. \A b \in Attempts : activeFiles[ClientOf[b]] # None => activeFiles'[ClientOf[b]] # None
    BY <2>1, <2>2, PathType
  <2>4. activeFiles'[ClientOf[a]] # None
    BY <2>1, <2>2
  <2> QED
    BY <2>2, <2>3, <2>4
<1>16. ASSUME NEW a \in Attempts, QueryGet(a)
      PROVE  PrimedInv'
  BY SMTT(60), <1>16 DEF QueryGet
<1>17. ASSUME NEW a \in Attempts, QueryDrop(a)
      PROVE  PrimedInv'
  BY <1>17 DEF QueryDrop
<1>18. ASSUME NEW a \in Attempts, QueryInfoNone(a)
      PROVE  PrimedInv'
  BY <1>18 DEF QueryInfoNone, QueryReplies, AfterReply
<1>19. ASSUME NEW a \in Attempts, QueryInfo(a)
      PROVE  PrimedInv'
  BY <1>19 DEF QueryInfo
<1>20. ASSUME NEW a \in Attempts, QueryHash(a)
      PROVE  PrimedInv'
  BY <1>20, SMTT(20) DEF QueryHash, QueryReplies, AfterReply
<1>21. ASSUME NEW a \in Attempts, QueryHashFatal(a)
      PROVE  PrimedInv'
  <2>1. ~Lives' /\ (phase' # "serving" => stops' > 0)
    BY <1>21 DEF QueryHashFatal, ProcessDies
  <2>2. \A b \in Attempts : /\ query'[b] # "get"
                            /\ handler'[b] # "none" => query'[b] = "done"
    BY <1>21 DEF QueryHashFatal, ProcessDies, InFlight
  <2> QED
    BY <2>1, <2>2
<1>22. ASSUME NEW a \in Attempts, HandlerStart(a)
      PROVE  PrimedInv'
  BY <1>22 DEF HandlerStart
<1>23. ASSUME NEW a \in Attempts, HandlerRecv(a)
      PROVE  PrimedInv'
  BY <1>23 DEF HandlerRecv, ActiveFile
<1>24. ASSUME NEW a \in Attempts, HandlerNoSession(a)
      PROVE  PrimedInv'
  BY <1>24 DEF HandlerNoSession, HandlerReturns
<1>25. ASSUME NEW a \in Attempts, HandlerEOF(a)
      PROVE  PrimedInv'
  BY <1>25 DEF HandlerEOF, HandlerReturns
<1>26. ASSUME NEW a \in Attempts, HandlerBroken(a)
      PROVE  PrimedInv'
  BY <1>26 DEF HandlerBroken, HandlerReturns
<1>27. ASSUME NEW a \in Attempts, HandlerDrop(a)
      PROVE  PrimedInv'
  BY <1>27 DEF HandlerDrop
<1>28. ASSUME NEW a \in Attempts, HandlerSelectError(a)
      PROVE  PrimedInv'
  BY <1>28 DEF HandlerSelectError, HandlerReturns
<1>29. ASSUME NEW a \in Attempts, HandlerSelectDone(a)
      PROVE  PrimedInv'
  BY <1>29 DEF HandlerSelectDone, HandlerReturns
<1>30. ASSUME NEW a \in Attempts, HandlerSelectDefault(a)
      PROVE  PrimedInv'
  BY <1>30 DEF HandlerSelectDefault
<1>31. ASSUME NEW a \in Attempts, WriterOpen(a)
      PROVE  PrimedInv'
  BY <1>31 DEF WriterOpen, OpenedInode
<1>32. ASSUME NEW a \in Attempts, WriterOpenFails(a)
      PROVE  PrimedInv'
  BY <1>32 DEF WriterOpenFails, WriterFails
<1>33. ASSUME NEW a \in Attempts, WriterWait(a)
      PROVE  PrimedInv'
  BY <1>33 DEF WriterWait
<1>34. ASSUME NEW a \in Attempts, WriterSeek(a)
      PROVE  PrimedInv'
  BY <1>34 DEF WriterSeek
<1>35. ASSUME NEW a \in Attempts, NEW h \in Attempts, WriterRead(a, h)
      PROVE  PrimedInv'
  BY <1>35 DEF WriterRead
<1>36. ASSUME NEW a \in Attempts, WriterWrite(a)
      PROVE  PrimedInv'
  BY <1>36 DEF WriterWrite
<1>37. ASSUME NEW a \in Attempts, WriterWriteFails(a)
      PROVE  PrimedInv'
  BY <1>37 DEF WriterWriteFails, WriterFails
<1>38. ASSUME NEW a \in Attempts, WriterEOF(a)
      PROVE  PrimedInv'
  BY <1>38 DEF WriterEOF
<1>39. ASSUME NEW a \in Attempts, WriterPut(a)
      PROVE  PrimedInv'
  BY <1>39 DEF WriterPut, RecordOf
<1>40. ASSUME NEW a \in Attempts, WriterReturn(a)
      PROVE  PrimedInv'
  BY <1>40 DEF WriterReturn
<1>41. ASSUME Stop
      PROVE  PrimedInv'
  BY <1>41 DEF Stop
<1>42. ASSUME CloseStore
      PROVE  PrimedInv'
  BY <1>42 DEF CloseStore
<1>43. ASSUME Exit
      PROVE  PrimedInv'
  <2>1. ~Lives' /\ (phase' # "serving" => stops' > 0)
    BY <1>43 DEF Exit, ProcessDies
  <2>2. \A b \in Attempts : /\ query'[b] # "get"
                            /\ handler'[b] # "none" => query'[b] = "done"
    BY <1>43 DEF Exit, ProcessDies, InFlight
  <2> QED
    BY <2>1, <2>2
<1>44. ASSUME Crash
      PROVE  PrimedInv'
  <2>1. ~Lives' /\ (phase' # "serving" => stops' > 0)
    BY <1>44 DEF Crash, ProcessDies
  <2>2. \A b \in Attempts : /\ query'[b] # "get"
                            /\ handler'[b] # "none" => query'[b] = "done"
    BY <1>44 DEF Crash, ProcessDies, InFlight
  <2> QED
    BY <2>1, <2>2
<1>45. ASSUME UNCHANGED vars
      PROVE  PrimedInv'
  BY <1>45 DEF vars
<1>46. ASSUME NEW a \in Attempts, OpenFails(a) \/ RemoveSource(a)
      PROVE  PrimedInv'
  BY <1>46 DEF OpenFails, RemoveSource
<1> QED
  BY <1>46, <1>1, <1>2, <1>3, <1>4, <1>5, <1>6, <1>7, <1>8, <1>9, <1>10, <1>11, <1>12, <1>13,
     <1>14, <1>15, <1>16, <1>17, <1>18, <1>19, <1>20, <1>21, <1>22, <1>23, <1>24, <1>25, <1>26,
     <1>27, <1>28, <1>29, <1>30, <1>31, <1>32, <1>33, <1>34, <1>35, <1>36, <1>37, <1>38, <1>39,
     <1>40, <1>41, <1>42, <1>43, <1>44, <1>45
     DEF Next, ClientStep, QueryStep, HandlerStep, WriterStep


\* A stream finds a session, unless the process ended since its query
\* (proto/server.proto:6-7, server.go:192-202).
THEOREM QueryPrimes == Spec => []QueryPrimesSession
<1> DEFINE Inv == TypeInv /\ PhaseInv /\ PrimedInv
<1>1. Init => Inv
  BY ZenonT(60), TypeInit DEF Init, PhaseInv, PrimedInv
<1>2. Inv /\ [Next]_vars => Inv'
  BY TypeStep, PhaseStep, PrimedStep DEF TypeInv
<1>3. Inv => QueryPrimesSession
  BY DEF PrimedInv, Lives, QueryPrimesSession, ActiveFile
<1> QED
  BY <1>1, <1>2, <1>3, PTL DEF Spec

-----------------------------------------------------------------------------
(* Sessions.                                                               *)

\* What a session, its writer and its streams have behind them.
SessionInv ==
    /\ \A c \in Clients : activeFiles[c] # None =>
          client[activeFiles[c]] # "idle" /\ writer[activeFiles[c]] # "none"
    /\ \A a \in Attempts :
          /\ target[a] # None =>
                ClientOf[target[a]] = ClientOf[a] /\ client[target[a]] # "idle"
          /\ registered[a] # None =>
                ClientOf[registered[a]] = ClientOf[a] /\ client[registered[a]] # "idle"
          /\ once[a] => writer[a] # "none"
          /\ closed[a] => writer[a] # "none"
          /\ reply[a].sizeOnDisk = 0
          /\ client[a] = "closed" => sent[a] = Len(body[a])
          /\ handler[a] # "none" => body[a] # << >>
          /\ handler[a] = "select" => recvd[a] > 0
          /\ writer[a] \in {"finish", "signalled", "exited"} => closed[a]
          /\ writer[a] \in {"none", "start"} => inode[a] = None

\* What changes when a handler returns, and when the process ends.
LEMMA ReturnKept ==
    ASSUME TypeInv, SessionInv, NEW a \in Attempts, NEW from \in {"recv", "select"},
           NEW to \in {"ok", "err"}, HandlerReturns(a, from, to)
    PROVE  SessionInv'
<1>1. /\ handler' = [handler EXCEPT ![a] = to]
      /\ closed' = ClosedAfter(ClientOf[a])
      /\ handler[a] = from
      /\ UNCHANGED <<client, body, sent, reply, activeFiles, once, writer, recvd, registered,
                   target, inode>>
  BY DEF HandlerReturns, HandlerMoves, clientVars, queryVars
<1>2. \A b \in Attempts : closed'[b] => closed[b] \/ b = activeFiles[ClientOf[a]]
  BY <1>1 DEF ClosedAfter, ActiveFile
<1>3. ClientOf[a] \in Clients /\ \A b \in Attempts : b # None
  BY PathType, AttemptIsNotNone
<1>4. \A b \in Attempts : closed'[b] => writer[b] # "none"
  BY <1>2, <1>3 DEF SessionInv
<1>5. \A b \in Attempts : closed[b] => closed'[b]
  BY <1>1 DEF ClosedAfter
<1>6. \A b \in Attempts : /\ handler'[b] # "none" => handler[b] # "none" \/ b = a
                          /\ handler'[b] = "select" => handler[b] = "select"
  BY <1>1 DEF TypeInv, TypeOK
<1>7. handler[a] # "none"
  BY <1>1
<1> QED
  BY <1>1, <1>4, <1>5, <1>6, <1>7 DEF SessionInv

LEMMA DeathKept ==
    ASSUME TypeInv, SessionInv, ProcessDies
    PROVE  SessionInv'
<1>1. /\ activeFiles' = [c \in Clients |-> None]
      /\ writer' = [a \in Attempts |->
                       IF writer[a] \in {"none", "exited", "aborted"} THEN writer[a] ELSE "dead"]
      /\ handler' = [a \in Attempts |-> IF InFlight(a) THEN "dead" ELSE handler[a]]
      /\ UNCHANGED <<client, body, sent, reply, once, closed, recvd, registered, target,
                   inode>>
  BY DEF ProcessDies
<1>2. \A a \in Attempts : /\ handler'[a] # "none" => handler[a] # "none"
                          /\ handler'[a] # "select"
  BY <1>1 DEF InFlight
<1> QED
  BY <1>1, <1>2 DEF SessionInv

LEMMA SessionStep ==
    TypeInv /\ PhaseInv /\ MediaInv /\ SessionInv /\ [Next]_vars => SessionInv'
<1> SUFFICES ASSUME TypeInv /\ PhaseInv /\ MediaInv /\ SessionInv, [Next]_vars PROVE SessionInv'
  OBVIOUS
<1> USE DEF TypeOK, SessionInv, TypeInv, StreamInv, PhaseInv, BeforeActivation, MediaInv,
        OwnPath, NewFile, clientVars, queryVars, sessionVars, writerVars,
        handlerVars, diskVars, processVars, ClientMoves, Requeue, QueryMoves, StoreTakes, StoreFails, StoreMayFail,
        HandlerMoves, WriterMoves
<1>1. ASSUME NEW a \in Attempts, Start(a)
      PROVE  SessionInv'
  BY <1>1 DEF Start
<1>2. ASSUME NEW a \in Attempts, QueryFailed(a)
      PROVE  SessionInv'
  BY <1>2, SMTT(20) DEF QueryFailed
<1>3. ASSUME NEW a \in Attempts, Skip(a)
      PROVE  SessionInv'
  BY <1>3 DEF Skip, Completed
<1>4. ASSUME NEW a \in Attempts, OpenStream(a)
      PROVE  SessionInv'
  BY <1>4 DEF OpenStream
<1>5. ASSUME NEW a \in Attempts, OpenStreamFails(a)
      PROVE  SessionInv'
  BY <1>5 DEF OpenStreamFails
<1>6. ASSUME NEW a \in Attempts, Send(a)
      PROVE  SessionInv'
  BY <1>6 DEF Send
<1>7. ASSUME NEW a \in Attempts, SendFails(a)
      PROVE  SessionInv'
  BY <1>7 DEF SendFails
<1>8. ASSUME NEW a \in Attempts, CloseSend(a)
      PROVE  SessionInv'
  BY <1>8 DEF CloseSend, Completed
<1>9. ASSUME NEW a \in Attempts, Break(a)
      PROVE  SessionInv'
  BY <1>9 DEF Break
<1>10. ASSUME NEW a \in Attempts, QueryHas(a)
      PROVE  SessionInv'
  BY SMTT(60), <1>10 DEF QueryHas
<1>11. ASSUME NEW a \in Attempts, QueryStat(a)
      PROVE  SessionInv'
  BY SMTT(60), <1>11 DEF QueryStat
<1>12. ASSUME NEW a \in Attempts, QueryRemove(a)
      PROVE  SessionInv'
  BY <1>12 DEF QueryRemove
<1>13. ASSUME NEW a \in Attempts, QueryRemoveFails(a)
      PROVE  SessionInv'
  BY <1>13 DEF QueryRemoveFails
<1>14. ASSUME NEW a \in Attempts, QueryPut(a)
      PROVE  SessionInv'
  BY <1>14 DEF QueryPut, RecordOf
<1>15. ASSUME NEW a \in Attempts, QueryActivate(a)
      PROVE  SessionInv'
  BY <1>15 DEF QueryActivate
<1>16. ASSUME NEW a \in Attempts, QueryGet(a)
      PROVE  SessionInv'
  BY SMTT(60), <1>16 DEF QueryGet
<1>17. ASSUME NEW a \in Attempts, QueryDrop(a)
      PROVE  SessionInv'
  BY <1>17 DEF QueryDrop
<1>18. ASSUME NEW a \in Attempts, QueryInfoNone(a)
      PROVE  SessionInv'
  BY <1>18 DEF QueryInfoNone, QueryReplies, AfterReply
<1>19. ASSUME NEW a \in Attempts, QueryInfo(a)
      PROVE  SessionInv'
  BY <1>19 DEF QueryInfo
<1>20. ASSUME NEW a \in Attempts, QueryHash(a)
      PROVE  SessionInv'
  BY <1>20, SMTT(20) DEF QueryHash, QueryReplies, AfterReply
<1>21. ASSUME NEW a \in Attempts, QueryHashFatal(a)
      PROVE  SessionInv'
  BY <1>21, DeathKept DEF QueryHashFatal
<1>22. ASSUME NEW a \in Attempts, HandlerStart(a)
      PROVE  SessionInv'
  <2>1. registered'[a] # None =>
           ClientOf[registered'[a]] = ClientOf[a] /\ client[registered'[a]] # "idle"
    BY <1>22, PathType, AttemptIsNotNone DEF HandlerStart, ActiveFile
  <2> QED
    BY <1>22, <2>1, SMTT(20) DEF HandlerStart
<1>23. ASSUME NEW a \in Attempts, HandlerRecv(a)
      PROVE  SessionInv'
  <2> DEFINE s == activeFiles[ClientOf[a]]
  <2>1. /\ s \in Attempts /\ s # None /\ ClientOf[s] = ClientOf[a]
        /\ client[s] # "idle" /\ writer[s] # "none"
    BY <1>23, PathType, AttemptIsNotNone DEF HandlerRecv, ActiveFile
  <2>2. /\ target' = [target EXCEPT ![a] = s] /\ once' = [once EXCEPT ![s] = TRUE]
        /\ handler' = [handler EXCEPT ![a] = "write"]
        /\ recvd' = [recvd EXCEPT ![a] = @ + 1]
        /\ UNCHANGED <<client, activeFiles, registered, closed, reply, sent, body, inode>>
    BY <1>23 DEF HandlerRecv, ActiveFile
  <2>3. \A b \in Attempts : writer'[b] = writer[b] \/ (writer[b] = "waiting" /\ writer'[b] = "woken")
    BY <1>23, <2>1 DEF HandlerRecv, ActiveFile
  <2>4. \A b \in Attempts : once'[b] => once[b] \/ b = s
    BY <2>1, <2>2
  <2>5. \A b \in Attempts : recvd'[b] >= recvd[b] /\ recvd[b] \in Nat
    BY <2>2
  <2>6. handler[a] # "none"
    BY <1>23 DEF HandlerRecv
  <2> SUFFICES ASSUME NEW b \in Attempts
               PROVE  /\ target'[b] # None =>
                            ClientOf[target'[b]] = ClientOf[b] /\ client[target'[b]] # "idle"
                      /\ once'[b] => writer'[b] # "none"
                      /\ closed[b] => writer'[b] # "none"
                      /\ handler'[b] # "none" => body[b] # << >>
                      /\ handler'[b] = "select" => recvd'[b] > 0
                      /\ writer'[b] \in {"finish", "signalled", "exited"} => closed[b]
                      /\ writer'[b] \in {"none", "start"} => inode[b] = None
    BY <2>1, <2>2, <2>3, SMTT(20)
  <2>0. /\ target[b] # None => ClientOf[target[b]] = ClientOf[b] /\ client[target[b]] # "idle"
        /\ once[b] => writer[b] # "none"
        /\ closed[b] => writer[b] # "none"
        /\ handler[b] # "none" => body[b] # << >>
        /\ handler[b] = "select" => recvd[b] > 0
        /\ writer[b] \in {"finish", "signalled", "exited"} => closed[b]
        /\ writer[b] \in {"none", "start"} => inode[b] = None
        /\ recvd[b] \in Nat /\ recvd'[b] \in Nat
    BY <2>2, SMTT(20)
  <2>7. target'[b] = target[b] \/ (b = a /\ target'[b] = s)
    BY <2>2
  <2>8. handler'[b] = handler[b] \/ (b = a /\ handler'[b] = "write")
    BY <2>2
  <2> HIDE DEF s, TypeInv, TypeOK, StreamInv, PhaseInv, MediaInv, OwnPath, NewFile, SessionInv
  <2>9. target'[b] # None => ClientOf[target'[b]] = ClientOf[b] /\ client[target'[b]] # "idle"
    BY <2>0, <2>1, <2>7
  <2>10. once'[b] \/ closed[b] => writer'[b] # "none"
    BY <2>0, <2>1, <2>3, <2>4
  <2>11. handler'[b] # "none" => body[b] # << >>
    BY <2>0, <2>6, <2>8
  <2>12. handler'[b] = "select" => recvd'[b] > 0
    BY <2>0, <2>5, <2>8
  <2>13. /\ writer'[b] \in {"finish", "signalled", "exited"} => closed[b]
         /\ writer'[b] \in {"none", "start"} => inode[b] = None
    BY <2>0, <2>3
  <2> QED
    BY <2>9, <2>10, <2>11, <2>12, <2>13
<1>24. ASSUME NEW a \in Attempts, HandlerNoSession(a)
      PROVE  SessionInv'
  BY <1>24, ReturnKept DEF HandlerNoSession
<1>25. ASSUME NEW a \in Attempts, HandlerEOF(a)
      PROVE  SessionInv'
  BY <1>25, ReturnKept DEF HandlerEOF
<1>26. ASSUME NEW a \in Attempts, HandlerBroken(a)
      PROVE  SessionInv'
  BY <1>26, ReturnKept DEF HandlerBroken
<1>27. ASSUME NEW a \in Attempts, HandlerDrop(a)
      PROVE  SessionInv'
  BY <1>27, SMTT(20) DEF HandlerDrop
<1>28. ASSUME NEW a \in Attempts, HandlerSelectError(a)
      PROVE  SessionInv'
  BY <1>28, ReturnKept DEF HandlerSelectError
<1>29. ASSUME NEW a \in Attempts, HandlerSelectDone(a)
      PROVE  SessionInv'
  BY <1>29, ReturnKept DEF HandlerSelectDone
<1>30. ASSUME NEW a \in Attempts, HandlerSelectDefault(a)
      PROVE  SessionInv'
  BY <1>30 DEF HandlerSelectDefault
<1>31. ASSUME NEW a \in Attempts, WriterOpen(a)
      PROVE  SessionInv'
  BY <1>31 DEF WriterOpen, OpenedInode
<1>32. ASSUME NEW a \in Attempts, WriterOpenFails(a)
      PROVE  SessionInv'
  BY <1>32 DEF WriterOpenFails, WriterFails
<1>33. ASSUME NEW a \in Attempts, WriterWait(a)
      PROVE  SessionInv'
  BY <1>33 DEF WriterWait
<1>34. ASSUME NEW a \in Attempts, WriterSeek(a)
      PROVE  SessionInv'
  BY <1>34 DEF WriterSeek
<1>35. ASSUME NEW a \in Attempts, NEW h \in Attempts, WriterRead(a, h)
      PROVE  SessionInv'
  <2>1. /\ handler' = [handler EXCEPT ![h] = "select"] /\ recvd[h] > 0 /\ handler[h] # "none"
        /\ writer' = [writer EXCEPT ![a] = "write"] /\ writer[a] = "copy"
    BY <1>35 DEF WriterRead
  <2>2. UNCHANGED <<client, body, sent, reply, activeFiles, once, closed, recvd, registered,
                    target, inode>>
    BY <1>35 DEF WriterRead
  <2>3. \A b \in Attempts : /\ writer'[b] = writer[b] \/ (writer[b] = "copy" /\ writer'[b] = "write")
                            /\ handler'[b] = handler[b] \/ (b = h /\ handler'[b] = "select")
    BY <2>1
  <2>4. ASSUME NEW b \in Attempts
        PROVE  /\ handler[b] # "none" => body[b] # << >>
               /\ handler[b] = "select" => recvd[b] > 0
               /\ writer[b] \in {"finish", "signalled", "exited"} => closed[b]
               /\ once[b] \/ closed[b] => writer[b] # "none"
               /\ writer[b] \in {"none", "start"} => inode[b] = None
    OBVIOUS
  <2>5. \A c \in Clients : activeFiles[c] # None => /\ client[activeFiles[c]] # "idle"
                                                  /\ writer[activeFiles[c]] # "none"
                                                  /\ activeFiles[c] \in Attempts
    OBVIOUS
  <2>6. \A b \in Attempts :
           /\ target[b] # None => ClientOf[target[b]] = ClientOf[b] /\ client[target[b]] # "idle"
           /\ registered[b] # None => ClientOf[registered[b]] = ClientOf[b] /\ client[registered[b]] # "idle"
           /\ reply[b].sizeOnDisk = 0
           /\ client[b] = "closed" => sent[b] = Len(body[b])
    OBVIOUS
  <2> HIDE DEF TypeInv, TypeOK, StreamInv, PhaseInv, MediaInv, OwnPath, NewFile
  <2>7. \A b \in Attempts : /\ handler'[b] # "none" => body[b] # << >>
                            /\ handler'[b] = "select" => recvd[b] > 0
    BY <2>1, <2>3, <2>4
  <2>8. \A b \in Attempts : /\ writer'[b] \in {"finish", "signalled", "exited"} => closed[b]
                            /\ once[b] \/ closed[b] => writer'[b] # "none"
                            /\ writer'[b] \in {"none", "start"} => inode[b] = None
    BY <2>3, <2>4
  <2>9. \A c \in Clients : activeFiles[c] # None => /\ client[activeFiles[c]] # "idle"
                                                  /\ writer'[activeFiles[c]] # "none"
    BY <2>3, <2>5
  <2> QED
    BY <2>2, <2>6, <2>7, <2>8, <2>9
<1>36. ASSUME NEW a \in Attempts, WriterWrite(a)
      PROVE  SessionInv'
  BY <1>36 DEF WriterWrite
<1>37. ASSUME NEW a \in Attempts, WriterWriteFails(a)
      PROVE  SessionInv'
  BY <1>37, SMTT(20) DEF WriterWriteFails, WriterFails
<1>38. ASSUME NEW a \in Attempts, WriterEOF(a)
      PROVE  SessionInv'
  BY <1>38 DEF WriterEOF
<1>39. ASSUME NEW a \in Attempts, WriterPut(a)
      PROVE  SessionInv'
  BY <1>39, SMTT(20) DEF WriterPut, RecordOf
<1>40. ASSUME NEW a \in Attempts, WriterReturn(a)
      PROVE  SessionInv'
  <2>1. CASE WriterMoves(a, "signalled", "exited")
    BY <1>40, <2>1 DEF WriterReturn
  <2>2. CASE WriterMoves(a, "failed", "aborted")
    BY <1>40, <2>2 DEF WriterReturn
  <2> QED
    BY <1>40, <2>1, <2>2 DEF WriterReturn
<1>41. ASSUME Stop
      PROVE  SessionInv'
  <2>1. \A b \in Attempts : closed'[b] /\ ~closed[b] => writer[b] # "none"
    BY <1>41, AttemptIsNotNone DEF Stop
  <2>2. \A b \in Attempts : closed[b] => closed'[b]
    BY <1>41 DEF Stop
  <2>3. UNCHANGED <<client, body, sent, reply, activeFiles, once, writer, handler, recvd,
                    registered, target, inode>>
    BY <1>41 DEF Stop
  <2> QED
    BY <2>1, <2>2, <2>3
<1>42. ASSUME CloseStore
      PROVE  SessionInv'
  BY <1>42 DEF CloseStore
<1>43. ASSUME Exit
      PROVE  SessionInv'
  BY <1>43, DeathKept DEF Exit
<1>44. ASSUME Crash
      PROVE  SessionInv'
  BY <1>44, DeathKept DEF Crash
<1>45. ASSUME UNCHANGED vars
      PROVE  SessionInv'
  BY <1>45 DEF vars
<1>46. ASSUME NEW a \in Attempts, OpenFails(a) \/ RemoveSource(a)
      PROVE  SessionInv'
  <2>1. CASE OpenFails(a)
    BY <2>1 DEF OpenFails
  <2>2. CASE RemoveSource(a)
    BY <2>2 DEF RemoveSource
  <2> QED
    BY <1>46, <2>1, <2>2
<1> QED
  BY <1>46, <1>1, <1>2, <1>3, <1>4, <1>5, <1>6, <1>7, <1>8, <1>9, <1>10, <1>11, <1>12, <1>13,
     <1>14, <1>15, <1>16, <1>17, <1>18, <1>19, <1>20, <1>21, <1>22, <1>23, <1>24, <1>25, <1>26,
     <1>27, <1>28, <1>29, <1>30, <1>31, <1>32, <1>33, <1>34, <1>35, <1>36, <1>37, <1>38, <1>39,
     <1>40, <1>41, <1>42, <1>43, <1>44, <1>45
     DEF Next, ClientStep, QueryStep, HandlerStep, WriterStep

-----------------------------------------------------------------------------
(* A lone attempt.                                                          *)

\* No attempt but a has used a's client ID, or the file that a may create.
Alone(a) ==
    \A b \in Attempts \ {a} :
        inode[b] # a /\ (ClientOf[b] = ClientOf[a] => client[b] = "idle")

AtWork(a)  == handler[a] \in {"recv", "write", "select"}
InTime(a)  == writer[a] \in {"start", "opened", "waiting", "woken"}

\* The blocks that a's writer has got, and those that its handler has passed on.
Written(a) == pos[a] + (IF writer[a] = "write" THEN 1 ELSE 0)
Passed(a)  == recvd[a] - (IF handler[a] = "write" THEN 1 ELSE 0)

\* The first block of a stream is the first of its session, the session is in place
\* as long as they are at work, and its pipe is closed under neither.
LoneSession(a) ==
    /\ handler[a] \in {"none", "new"} => recvd[a] = 0
    /\ once[a] <=> recvd[a] > 0
    /\ AtWork(a) /\ recvd[a] > 0 => activeFiles[ClientOf[a]] = a
    /\ writer[a] \notin {"none", "failed", "exited", "aborted", "dead"}
          => activeFiles[ClientOf[a]] = a
    /\ closed[a] /\ activeFiles[ClientOf[a]] = a =>
          /\ handler[a] \in {"none", "new"} => phase # "serving"
          /\ AtWork(a) => broken[a]
    /\ writer[a] = "woken" => currentSize[a] = 0

\* The blocks on their way: those that the handler received, and those that went
\* through the pipe.
LonePipe(a) ==
    /\ InTime(a) /\ recvd[a] > 0 /\ ~closed[a] => handler[a] = "write" /\ recvd[a] = 1
    /\ writer[a] \in {"copy", "write"} =>
          /\ Written(a) <= recvd[a]
          /\ ~closed[a] => Written(a) = Passed(a)
    /\ writer[a] = "write" => buf[a] = body[a][pos[a] + 1]

\* Those in the file.
LoneFile(a) ==
    /\ inode[a] # a \/ InTime(a) \/ writer[a] = "none" => data[a] = << >>
    /\ inode[a] = a /\ writer[a] \in {"copy", "write"} => Len(data[a]) = pos[a]
    /\ Len(data[a]) <= recvd[a]
    /\ \A i \in 1..Len(data[a]) : data[a][i] = body[a][i]

\* A stream that was answered in full has all its blocks through the pipe.
LoneAnswer(a) ==
    handler[a] = "ok" /\ ~broken[a] =>
        /\ ~InTime(a) /\ writer[a] # "none"
        /\ writer[a] \in {"copy", "write"} => Written(a) = Len(body[a])
        /\ inode[a] = a /\ writer[a] \in {"finish", "signalled", "exited"}
              => Len(data[a]) = Len(body[a])

Lone(a) == LoneSession(a) /\ LonePipe(a) /\ LoneFile(a) /\ LoneAnswer(a)

LoneInv == \A a \in Attempts : Alone(a) => Lone(a)

Before == TypeInv /\ PhaseInv /\ OffsetSetBeforeCopy /\ MediaInv /\ PrimedInv /\ SessionInv

\* Who is alone now was so before: attempts do not get idle again, and a session's
\* file stays the same.
LEMMA AloneBefore ==
    ASSUME Before, [Next]_vars, NEW a \in Attempts, Alone(a)'
    PROVE  Alone(a)
<1> USE DEF Before, TypeInv, TypeOK, SessionInv, clientVars, queryVars, sessionVars,
        writerVars, handlerVars, diskVars, processVars
<1> DEFINE Kept(b) == (client'[b] = "idle" => client[b] = "idle")
                      /\ (inode[b] # None => inode'[b] = inode[b])
<1>1. ASSUME NEW x \in Attempts, ClientStep(x) PROVE \A b \in Attempts : Kept(b)
  <2>1. UNCHANGED inode
    BY <1>1 DEF ClientStep, Start, QueryFailed, Skip, OpenStream, OpenFails, OpenStreamFails,
                Send, SendFails, CloseSend, RemoveSource, Break, ClientMoves
  <2>2. client' = client \/ \E to \in ClientStates \ {"idle"} : client' = [client EXCEPT ![x] = to]
    BY <1>1 DEF ClientStep, Start, QueryFailed, Skip, OpenStream, OpenFails, OpenStreamFails,
                Send, SendFails, CloseSend, RemoveSource, Break, ClientMoves, ClientStates
  <2> QED
    BY <2>1, <2>2, SMTT(20)
<1>2. ASSUME NEW x \in Attempts, QueryStep(x) PROVE UNCHANGED <<client, inode>>
  BY <1>2 DEF QueryStep, QueryHas, QueryStat, QueryRemove, QueryRemoveFails, QueryPut,
              QueryActivate, QueryGet, QueryDrop, QueryInfoNone, QueryInfo, QueryHash,
              QueryReplies, QueryHashFatal, QueryMoves, ProcessDies
<1>3. ASSUME NEW x \in Attempts, HandlerStep(x) PROVE UNCHANGED <<client, inode>>
  BY <1>3 DEF HandlerStep, HandlerStart, HandlerRecv, HandlerNoSession, HandlerEOF,
              HandlerBroken, HandlerDrop, HandlerSelectError, HandlerSelectDone,
              HandlerSelectDefault, HandlerReturns, HandlerMoves
<1>4. ASSUME NEW x \in Attempts, WriterStep(x) PROVE \A b \in Attempts : Kept(b)
  <2>1. CASE WriterOpen(x)
    BY <2>1 DEF WriterOpen, WriterMoves
  <2>2. CASE ~WriterOpen(x)
    BY <1>4, <2>2 DEF WriterStep, WriterOpenFails, WriterWait, WriterSeek, WriterRead,
              WriterWrite, WriterWriteFails, WriterEOF, WriterPut, WriterReturn, WriterFails,
              WriterMoves
  <2> QED
    BY <2>1, <2>2
<1>5. ASSUME Stop \/ CloseStore \/ Exit \/ Crash PROVE UNCHANGED <<client, inode>>
  BY <1>5 DEF Stop, CloseStore, Exit, Crash, ProcessDies
<1>6. ASSUME UNCHANGED vars PROVE UNCHANGED <<client, inode>>
  BY <1>6 DEF vars
<1>7. ASSUME UNCHANGED <<client, inode>> PROVE \A b \in Attempts : Kept(b)
  BY <1>7
<1>8. \A b \in Attempts : Kept(b)
  <2> HIDE DEF Kept, Before
  <2> QED
    BY <1>1, <1>2, <1>3, <1>4, <1>5, <1>6, <1>7 DEF Next
<1>9. ASSUME NEW b \in Attempts \ {a}
      PROVE  inode[b] # a /\ (ClientOf[b] = ClientOf[a] => client[b] = "idle")
  <2>1. inode'[b] # a /\ (ClientOf[b] = ClientOf[a] => client'[b] = "idle")
    BY DEF Alone
  <2>2. a # None
    BY AttemptIsNotNone
  <2> HIDE DEF Before
  <2> QED
    BY <1>8, <2>1, <2>2
<1> QED
  BY <1>9 DEF Alone

\* What is of an attempt.
Mine(a) == <<body[a], broken[a], activeFiles[ClientOf[a]], once[a], currentSize[a], closed[a],
             writer[a], inode[a], pos[a], buf[a], handler[a], recvd[a], data[a]>>

LEMMA SameIsLone ==
    ASSUME NEW a \in Attempts, Lone(a), Mine(a)' = Mine(a), phase' = phase
    PROVE  Lone(a)'
BY DEF Lone, LoneSession, LonePipe, LoneFile, LoneAnswer, AtWork, Written, Passed, InTime, Mine

\* A lone attempt has the session of its client ID if there is one, and nothing else
\* refers to that session.
LEMMA OwnSession ==
    ASSUME Before, NEW a \in Attempts, Alone(a)
    PROVE  /\ activeFiles[ClientOf[a]] \in {None, a}
           /\ target[a] \in {None, a} /\ registered[a] \in {None, a}
           /\ \A h \in Attempts \ {a} : handler[h] = "write" => target[h] # a
<1>1. ClientOf[a] \in Clients /\ a # None
  BY PathType, AttemptIsNotNone
<1>2. activeFiles[ClientOf[a]] \in {None, a}
  <2>1. ASSUME NEW x \in Attempts, activeFiles[ClientOf[a]] = x, x # a PROVE FALSE
    <3>1. ClientOf[x] = ClientOf[a] /\ x # None
      BY <1>1, <2>1, AttemptIsNotNone DEF Before, MediaInv, OwnPath
    <3>2. client[x] # "idle"
      BY <1>1, <2>1, <3>1 DEF Before, SessionInv
    <3> QED
      BY <2>1, <3>1, <3>2 DEF Alone
  <2>2. activeFiles[ClientOf[a]] \in Attempts \cup {None}
    BY <1>1 DEF Before, TypeInv, TypeOK
  <2> QED
    BY <2>1, <2>2
<1>3. target[a] \in {None, a} /\ registered[a] \in {None, a}
  BY <1>1 DEF Before, TypeInv, TypeOK, SessionInv, Alone
<1>4. ASSUME NEW h \in Attempts \ {a}, handler[h] = "write", target[h] = a PROVE FALSE
  <2>1. client[h] # "idle"
    BY <1>4 DEF Before, TypeInv, StreamInv
  <2> QED
    BY <1>1, <1>4, <2>1 DEF Before, SessionInv, Alone
<1> QED
  BY <1>2, <1>3, <1>4

\* No other thread touches what is of a lone attempt.
LEMMA OthersKeep ==
    ASSUME Before, NEW a \in Attempts, Alone(a), NEW b \in Attempts \ {a},
           ClientStep(b) \/ (QueryStep(b) /\ ~QueryHashFatal(b)) \/ HandlerStep(b) \/ WriterStep(b)
    PROVE  Mine(a)' = Mine(a) /\ phase' = phase
<1> USE DEF clientVars, queryVars, sessionVars, writerVars, handlerVars, diskVars, processVars
<1>1. /\ ClientOf[a] \in Clients /\ ClientOf[b] \in Clients /\ a # None /\ b # None
      /\ inode[b] # a /\ b # a /\ b \in Attempts
      /\ client[b] # "idle" => ClientOf[b] # ClientOf[a]
  BY PathType, AttemptIsNotNone DEF Alone
<1>2. /\ body \in [Attempts -> Versions \cup {None}] /\ broken \in [Attempts -> BOOLEAN]
      /\ activeFiles \in [Clients -> Attempts \cup {None}] /\ closed \in [Attempts -> BOOLEAN]
      /\ once \in [Attempts -> BOOLEAN] /\ currentSize \in [Attempts -> Nat]
      /\ writer \in [Attempts -> WriterStates] /\ inode \in [Attempts -> Attempts \cup {None}]
      /\ pos \in [Attempts -> Nat] /\ buf \in [Attempts -> Blocks \cup {None}]
      /\ handler \in [Attempts -> HandlerStates] /\ recvd \in [Attempts -> Nat]
      /\ data \in [Attempts -> Content]
      /\ \A c \in Clients : activeFiles[c] # None => ClientOf[activeFiles[c]] = c
  BY DEF Before, TypeInv, TypeOK, MediaInv, OwnPath
<1>3. CASE ClientStep(b)
  <2>1. CASE Start(b)
    BY <1>1, <1>2, <2>1 DEF Start, ClientMoves, Mine
  <2>2. CASE QueryFailed(b)
    BY <1>1, <1>2, <2>2 DEF QueryFailed, ClientMoves, Mine
  <2>3. CASE Skip(b)
    BY <1>1, <1>2, <2>3 DEF Skip, ClientMoves, Completed, Mine
  <2>4. CASE OpenStream(b)
    BY <1>1, <1>2, <2>4 DEF OpenStream, ClientMoves, Mine
  <2>5. CASE OpenFails(b)
    BY <1>1, <1>2, <2>5 DEF OpenFails, ClientMoves, Mine
  <2>6. CASE OpenStreamFails(b)
    BY <1>1, <1>2, <2>6 DEF OpenStreamFails, ClientMoves, Mine
  <2>7. CASE Send(b)
    BY <1>1, <1>2, <2>7 DEF Send, ClientMoves, Mine
  <2>8. CASE SendFails(b)
    BY <1>1, <1>2, <2>8 DEF SendFails, ClientMoves, Mine
  <2>9. CASE CloseSend(b)
    BY <1>1, <1>2, <2>9 DEF CloseSend, ClientMoves, Completed, Mine
  <2>10. CASE RemoveSource(b)
    BY <1>1, <1>2, <2>10 DEF RemoveSource, ClientMoves, Mine
  <2>11. CASE Break(b)
    BY <1>1, <1>2, <2>11 DEF Break, ClientMoves, Mine
  <2> QED
    BY <1>3, <2>1, <2>2, <2>3, <2>4, <2>5, <2>6, <2>7, <2>8, <2>9, <2>10, <2>11 DEF ClientStep
<1>4. CASE QueryStep(b) /\ ~QueryHashFatal(b)
  <2>1. CASE QueryHas(b)
    BY <1>1, <1>2, <2>1 DEF QueryHas, QueryMoves, Mine
  <2>2. CASE QueryStat(b)
    BY <1>1, <1>2, <2>2 DEF QueryStat, QueryMoves, Mine
  <2>3. CASE QueryRemove(b)
    BY <1>1, <1>2, <2>3 DEF QueryRemove, QueryMoves, Mine
  <2>4. CASE QueryRemoveFails(b)
    BY <1>1, <1>2, <2>4 DEF QueryRemoveFails, QueryMoves, Mine
  <2>5. CASE QueryPut(b)
    BY <1>1, <1>2, <2>5 DEF QueryPut, QueryMoves, Mine
  <2>6. CASE QueryGet(b)
    BY <1>1, <1>2, <2>6 DEF QueryGet, QueryMoves, Mine
  <2>7. CASE QueryDrop(b)
    BY <1>1, <1>2, <2>7 DEF QueryDrop, QueryMoves, Mine
  <2>8. CASE QueryInfoNone(b)
    BY <1>1, <1>2, <2>8 DEF QueryInfoNone, QueryMoves, QueryReplies, Mine
  <2>9. CASE QueryInfo(b)
    BY <1>1, <1>2, <2>9 DEF QueryInfo, QueryMoves, Mine
  <2>10. CASE QueryHash(b)
    BY <1>1, <1>2, <2>10 DEF QueryHash, QueryMoves, QueryReplies, Mine
  <2>11. CASE QueryActivate(b)
    <3>1. client[b] # "idle"
      BY <2>11 DEF QueryActivate, QueryMoves, Before, PhaseInv
    <3>2. /\ activeFiles' = [activeFiles EXCEPT ![ClientOf[b]] = b]
          /\ writer' = [writer EXCEPT ![b] = "start"]
          /\ UNCHANGED <<body, broken, once, currentSize, closed, inode, pos, buf, handler,
                         recvd,
                       data, phase>>
      BY <2>11 DEF QueryActivate, QueryMoves
    <3>3. activeFiles'[ClientOf[a]] = activeFiles[ClientOf[a]] /\ writer'[a] = writer[a]
      BY <1>1, <1>2, <3>1, <3>2
    <3> QED
      BY <3>2, <3>3 DEF Mine
  <2> QED
    BY <1>4, <2>1, <2>2, <2>3, <2>4, <2>5, <2>6, <2>7, <2>8, <2>9, <2>10, <2>11 DEF QueryStep
<1>5. CASE HandlerStep(b)
  <2>1. handler[b] # "none"
    BY <1>5 DEF HandlerStep, HandlerStart, HandlerRecv, HandlerNoSession, HandlerEOF,
              HandlerBroken, HandlerDrop, HandlerSelectError, HandlerSelectDone,
              HandlerSelectDefault, HandlerReturns, HandlerMoves
  <2>2. ClientOf[b] # ClientOf[a]
    BY <1>1, <2>1 DEF Before, TypeInv, StreamInv
  <2>3. activeFiles[ClientOf[b]] # a
    BY <1>1, <1>2, <2>2
  <2>4. CASE HandlerRecv(b)
    <3> DEFINE s == activeFiles[ClientOf[b]]
    <3>1. /\ s # None
          /\ handler' = [handler EXCEPT ![b] = "write"]
          /\ recvd' = [recvd EXCEPT ![b] = @ + 1]
          /\ once' = [once EXCEPT ![s] = TRUE]
          /\ \E n : currentSize' = [currentSize EXCEPT ![s] = n]
          /\ \E w : writer' = [writer EXCEPT ![s] = w]
          /\ UNCHANGED <<body, broken, activeFiles, closed, inode, pos, buf, data, phase>>
      BY <2>4 DEF HandlerRecv, HandlerMoves, ActiveFile
    <3>2. s # a
      BY <2>3
    <3> HIDE DEF s
    <3>3. /\ handler'[a] = handler[a] /\ recvd'[a] = recvd[a] /\ once'[a] = once[a]
          /\ currentSize'[a] = currentSize[a] /\ writer'[a] = writer[a]
      BY <1>1, <1>2, <3>1, <3>2
    <3> QED
      BY <3>1, <3>3 DEF Mine
  <2>5. ASSUME NEW from, NEW to, HandlerReturns(b, from, to)
        PROVE  Mine(a)' = Mine(a) /\ phase' = phase
    <3>1. closed'[a] = closed[a]
      BY <1>2, <2>3, <2>5 DEF HandlerReturns, ClosedAfter, ActiveFile
    <3>2. handler'[a] = handler[a]
      BY <1>1, <1>2, <2>5 DEF HandlerReturns, HandlerMoves
    <3> QED
      BY <2>5, <3>1, <3>2 DEF HandlerReturns, HandlerMoves, Mine
  <2>6. CASE HandlerStart(b)
    BY <1>1, <1>2, <2>6 DEF HandlerStart, HandlerMoves, Mine
  <2>7. CASE HandlerDrop(b)
    BY <1>1, <1>2, <2>7 DEF HandlerDrop, HandlerMoves, Mine
  <2>8. CASE HandlerSelectDefault(b)
    BY <1>1, <1>2, <2>8 DEF HandlerSelectDefault, HandlerMoves, Mine
  <2> QED
    BY <1>5, <2>4, <2>5, <2>6, <2>7, <2>8 DEF HandlerStep, HandlerNoSession, HandlerEOF,
              HandlerBroken, HandlerSelectError, HandlerSelectDone
<1>6. CASE WriterStep(b)
  <2>1. CASE WriterOpen(b)
    BY <1>1, <1>2, <2>1 DEF WriterOpen, WriterMoves, Mine
  <2>2. CASE WriterOpenFails(b)
    BY <1>1, <1>2, <2>2 DEF WriterOpenFails, WriterMoves, WriterFails, Mine
  <2>3. CASE WriterWait(b)
    BY <1>1, <1>2, <2>3 DEF WriterWait, WriterMoves, Mine
  <2>4. CASE WriterSeek(b)
    BY <1>1, <1>2, <2>4 DEF WriterSeek, WriterMoves, Mine
  <2>5. CASE WriterWrite(b)
    BY <1>1, <1>2, <2>5 DEF WriterWrite, WriterMoves, Mine
  <2>6. CASE WriterWriteFails(b)
    BY <1>1, <1>2, <2>6 DEF WriterWriteFails, WriterMoves, WriterFails, Mine
  <2>7. CASE WriterEOF(b)
    BY <1>1, <1>2, <2>7 DEF WriterEOF, WriterMoves, Mine
  <2>8. CASE WriterPut(b)
    BY <1>1, <1>2, <2>8 DEF WriterPut, WriterMoves, Mine
  <2>9. CASE WriterReturn(b)
    BY <1>1, <1>2, <2>9 DEF WriterReturn, WriterMoves, Mine
  <2>10. ASSUME NEW h \in Attempts, WriterRead(b, h)
        PROVE  Mine(a)' = Mine(a) /\ phase' = phase
    <3>1. target[h] = b /\ handler[h] = "write"
      BY <2>10 DEF WriterRead
    <3>2. ClientOf[b] = ClientOf[h] /\ client[b] # "idle"
      BY <1>1, <3>1 DEF Before, SessionInv
    <3>3. h # a
      BY <1>1, <3>2
    <3> QED
      BY <1>1, <1>2, <2>10, <3>3 DEF WriterRead, WriterMoves, Mine
  <2> QED
    BY <1>6, <2>1, <2>2, <2>3, <2>4, <2>5, <2>6, <2>7, <2>8, <2>9, <2>10 DEF WriterStep
<1> QED
  BY <1>3, <1>4, <1>5, <1>6

\* What an attempt's own thread may do to what is its own.
LEMMA OwnKeep ==
    ASSUME Before, NEW a \in Attempts, Alone(a), Lone(a),
           ClientStep(a) \/ (QueryStep(a) /\ ~QueryHashFatal(a)) \/ HandlerStep(a) \/ WriterStep(a)
    PROVE  Lone(a)'
<1> USE DEF clientVars, queryVars, sessionVars, writerVars, handlerVars, diskVars, processVars
<1>1. /\ body \in [Attempts -> Versions \cup {None}] /\ broken \in [Attempts -> BOOLEAN]
      /\ activeFiles \in [Clients -> Attempts \cup {None}] /\ closed \in [Attempts -> BOOLEAN]
      /\ once \in [Attempts -> BOOLEAN] /\ currentSize \in [Attempts -> Nat]
      /\ writer \in [Attempts -> WriterStates] /\ inode \in [Attempts -> Attempts \cup {None}]
      /\ pos \in [Attempts -> Nat] /\ buf \in [Attempts -> Blocks \cup {None}]
      /\ handler \in [Attempts -> HandlerStates] /\ recvd \in [Attempts -> Nat]
      /\ data \in [Attempts -> Content]
      /\ ClientOf[a] \in Clients /\ a # None
  BY PathType, AttemptIsNotNone DEF Before, TypeInv, TypeOK
<1>2. /\ activeFiles[ClientOf[a]] \in {None, a}
      /\ target[a] \in {None, a} /\ registered[a] \in {None, a}
      /\ \A h \in Attempts \ {a} : handler[h] = "write" => target[h] # a
  BY OwnSession
<1>3. /\ handler[a] = "none" => recvd[a] = 0
      /\ handler[a] = "write" => recvd[a] > 0 /\ target[a] = a
      /\ handler[a] = "select" => recvd[a] > 0
      /\ handler[a] # "none" => query[a] = "done" /\ body[a] # << >>
                                /\ recvd[a] <= sent[a] /\ sent[a] <= Len(body[a])
      /\ writer[a] \in {"opened", "waiting", "woken", "copy", "write", "finish"}
            => inode[a] \in Attempts
      /\ query[a] \in BeforeActivation \cup {"activate"} => writer[a] = "none"
      /\ writer[a] \in {"woken", "copy", "write", "finish", "signalled", "exited"} => once[a]
      /\ once[a] \/ closed[a] => writer[a] # "none"
      /\ reply[a].sizeOnDisk = 0
      /\ client[a] = "closed" => sent[a] = Len(body[a])
      /\ client[a] \in {"idle", "query"} => handler[a] = "none"
      /\ writer[a] \in {"finish", "signalled", "exited"} => closed[a]
      /\ writer[a] \in {"none", "start"} => data[a] = << >>
  <2>1. /\ handler[a] = "none" => recvd[a] = 0
        /\ handler[a] = "write" => recvd[a] > 0 /\ target[a] \in Attempts
        /\ handler[a] # "none" => recvd[a] <= sent[a] /\ sent[a] <= Len(body[a])
        /\ writer[a] \in {"opened", "waiting", "woken", "copy", "write", "finish"}
              => inode[a] \in Attempts
        /\ client[a] \in {"idle", "query"} => handler[a] = "none"
    BY DEF Before, TypeInv, StreamInv
  <2>2. handler[a] = "write" => target[a] = a
    BY <1>2, <2>1, AttemptIsNotNone
  <2>3. /\ query[a] \in BeforeActivation => writer[a] = "none"
        /\ query[a] = "activate" => writer[a] = "none"
        /\ writer[a] \in {"none", "start"} => data[a] = << >>
    BY DEF Before, PhaseInv, MediaInv, NewFile
  <2>4. /\ handler[a] # "none" => query[a] = "done"
        /\ writer[a] \in {"woken", "copy", "write", "finish", "signalled", "exited"} => once[a]
    BY DEF Before, PrimedInv, OffsetSetBeforeCopy
  <2>5. /\ handler[a] # "none" => body[a] # << >>
        /\ handler[a] = "select" => recvd[a] > 0
        /\ once[a] \/ closed[a] => writer[a] # "none"
        /\ reply[a].sizeOnDisk = 0
        /\ client[a] = "closed" => sent[a] = Len(body[a])
        /\ writer[a] \in {"finish", "signalled", "exited"} => closed[a]
    BY DEF Before, SessionInv
  <2> QED
    BY <2>1, <2>2, <2>3, <2>4, <2>5
<1>4. Len(body[a]) \in Nat /\ Len(data[a]) \in Nat
  <2>1. data[a] \in Content
    BY <1>1
  <2>2. Len(data[a]) \in Nat
    BY <2>1 DEF Content
  <2> QED OBVIOUS
<1>5. /\ LoneSession(a) /\ LonePipe(a) /\ LoneFile(a) /\ LoneAnswer(a)
  BY DEF Lone
<1> HIDE DEF Before
<1>6. CASE Start(a)
  <2>1. Mine(a)' = Mine(a) /\ phase' = phase
    BY <1>6 DEF Start, ClientMoves, Mine
  <2> QED
    BY <2>1, SameIsLone
<1>7. CASE QueryFailed(a)
  <2>1. Mine(a)' = Mine(a) /\ phase' = phase
    BY <1>7 DEF QueryFailed, ClientMoves, Mine
  <2> QED
    BY <2>1, SameIsLone
<1>8. CASE Skip(a)
  <2>1. Mine(a)' = Mine(a) /\ phase' = phase
    BY <1>8 DEF Skip, Completed, ClientMoves, Mine
  <2> QED
    BY <2>1, SameIsLone
<1>9. CASE OpenFails(a)
  <2>1. Mine(a)' = Mine(a) /\ phase' = phase
    BY <1>9 DEF OpenFails, ClientMoves, Mine
  <2> QED
    BY <2>1, SameIsLone
<1>10. CASE OpenStreamFails(a)
  <2>1. Mine(a)' = Mine(a) /\ phase' = phase
    BY <1>10 DEF OpenStreamFails, ClientMoves, Mine
  <2> QED
    BY <2>1, SameIsLone
<1>11. CASE Send(a)
  <2>1. Mine(a)' = Mine(a) /\ phase' = phase
    BY <1>11 DEF Send, ClientMoves, Mine
  <2> QED
    BY <2>1, SameIsLone
<1>12. CASE SendFails(a)
  <2>1. Mine(a)' = Mine(a) /\ phase' = phase
    BY <1>12 DEF SendFails, ClientMoves, Mine
  <2> QED
    BY <2>1, SameIsLone
<1>13. CASE CloseSend(a)
  <2>1. Mine(a)' = Mine(a) /\ phase' = phase
    BY <1>13 DEF CloseSend, Completed, ClientMoves, Mine
  <2> QED
    BY <2>1, SameIsLone
<1>14. CASE RemoveSource(a)
  <2>1. Mine(a)' = Mine(a) /\ phase' = phase
    BY <1>14 DEF RemoveSource, ClientMoves, Mine
  <2> QED
    BY <2>1, SameIsLone
<1>15. CASE QueryHas(a)
  <2>1. Mine(a)' = Mine(a) /\ phase' = phase
    BY <1>15 DEF QueryHas, QueryMoves, Mine
  <2> QED
    BY <2>1, SameIsLone
<1>16. CASE QueryStat(a)
  <2>1. Mine(a)' = Mine(a) /\ phase' = phase
    BY <1>16 DEF QueryStat, QueryMoves, Mine
  <2> QED
    BY <2>1, SameIsLone
<1>17. CASE QueryRemove(a)
  <2>1. Mine(a)' = Mine(a) /\ phase' = phase
    BY <1>17 DEF QueryRemove, QueryMoves, Mine
  <2> QED
    BY <2>1, SameIsLone
<1>18. CASE QueryRemoveFails(a)
  <2>1. Mine(a)' = Mine(a) /\ phase' = phase
    BY <1>18 DEF QueryRemoveFails, QueryMoves, Mine
  <2> QED
    BY <2>1, SameIsLone
<1>19. CASE QueryPut(a)
  <2>1. Mine(a)' = Mine(a) /\ phase' = phase
    BY <1>19 DEF QueryPut, QueryMoves, Mine
  <2> QED
    BY <2>1, SameIsLone
<1>20. CASE QueryDrop(a)
  <2>1. Mine(a)' = Mine(a) /\ phase' = phase
    BY <1>20 DEF QueryDrop, QueryMoves, Mine
  <2> QED
    BY <2>1, SameIsLone
<1>21. CASE QueryInfoNone(a)
  <2>1. Mine(a)' = Mine(a) /\ phase' = phase
    BY <1>21 DEF QueryInfoNone, QueryReplies, QueryMoves, Mine
  <2> QED
    BY <2>1, SameIsLone
<1>22. CASE QueryInfo(a)
  <2>1. Mine(a)' = Mine(a) /\ phase' = phase
    BY <1>22 DEF QueryInfo, QueryMoves, Mine
  <2> QED
    BY <2>1, SameIsLone
<1>23. CASE QueryHash(a)
  <2>1. Mine(a)' = Mine(a) /\ phase' = phase
    BY <1>23 DEF QueryHash, QueryReplies, QueryMoves, Mine
  <2> QED
    BY <2>1, SameIsLone
<1>24. CASE OpenStream(a)
  <2>1. /\ client[a] = "query" /\ handler[a] = "none" /\ handler'[a] = "new" /\ recvd[a] = 0
        /\ UNCHANGED <<broken, activeFiles, once, currentSize, closed, writer, inode, pos,
                       buf, recvd, data, phase>>
    BY <1>1, <1>2, <1>3, <1>24 DEF OpenStream, ClientMoves
  <2> QED
    BY <1>1, <1>2, <1>3, <1>4, <1>5, <2>1 DEF Lone, LoneSession, LonePipe, LoneFile, LoneAnswer,
       AtWork, Written, Passed, InTime
<1>25. CASE Break(a)
  <2>1. /\ broken'[a] = TRUE
        /\ UNCHANGED <<body, activeFiles, once, currentSize, closed, writer, inode, pos, buf,
                       handler, recvd, data, phase>>
    BY <1>1, <1>2, <1>3, <1>25 DEF Break, ClientMoves
  <2> QED
    BY <1>1, <1>2, <1>3, <1>4, <1>5, <2>1 DEF Lone, LoneSession, LonePipe, LoneFile, LoneAnswer,
       AtWork, Written, Passed, InTime
<1>26. CASE QueryGet(a)
  <2>1. /\ query[a] = "get" /\ writer[a] = "none"
        /\ UNCHANGED <<body, broken, activeFiles, once, closed, writer, inode, pos, buf,
                       handler, recvd, data, phase>>
    BY <1>1, <1>2, <1>3, <1>26 DEF QueryGet, QueryMoves, BeforeActivation
  <2> QED
    BY <1>1, <1>2, <1>3, <1>4, <1>5, <2>1 DEF Lone, LoneSession, LonePipe, LoneFile, LoneAnswer,
       AtWork, Written, Passed, InTime
<1>27. CASE QueryActivate(a)
  <2>1. /\ query[a] = "activate" /\ writer[a] = "none" /\ handler[a] = "none"
        /\ writer'[a] = "start"
        /\ activeFiles'[ClientOf[a]] = a
        /\ UNCHANGED <<body, broken, once, currentSize, closed, inode, pos, buf, handler,
                       recvd, data, phase>>
    BY <1>1, <1>2, <1>3, <1>27 DEF QueryActivate, QueryMoves
  <2> QED
    BY <1>1, <1>2, <1>3, <1>4, <1>5, <2>1 DEF Lone, LoneSession, LonePipe, LoneFile, LoneAnswer,
       AtWork, Written, Passed, InTime
<1>28. CASE HandlerStart(a)
  <2>1. /\ handler[a] = "new" /\ handler'[a] = "recv" /\ phase = "serving"
        /\ UNCHANGED <<body, broken, activeFiles, once, currentSize, closed, writer, inode,
                       pos, buf, recvd, data, phase>>
    BY <1>1, <1>2, <1>3, <1>28 DEF HandlerStart, HandlerMoves
  <2> QED
    BY <1>1, <1>2, <1>3, <1>4, <1>5, <2>1 DEF Lone, LoneSession, LonePipe, LoneFile, LoneAnswer,
       AtWork, Written, Passed, InTime
<1>29. CASE HandlerRecv(a)
  <2>1. /\ activeFiles[ClientOf[a]] = a
        /\ handler[a] = "recv" /\ handler'[a] = "write"
        /\ recvd'[a] = recvd[a] + 1 /\ once'[a] = TRUE
        /\ currentSize'[a] = IF once[a] THEN currentSize[a] ELSE recvd[a]
        /\ writer'[a] = IF ~once[a] /\ writer[a] = "waiting" THEN "woken" ELSE writer[a]
        /\ UNCHANGED <<body, broken, activeFiles, closed, inode, pos, buf, data, phase>>
    BY <1>1, <1>2, <1>3, <1>29 DEF HandlerRecv, HandlerMoves, ActiveFile, BlockOffset
  <2> QED
    BY <1>1, <1>2, <1>3, <1>4, <1>5, <2>1 DEF Lone, LoneSession, LonePipe, LoneFile, LoneAnswer,
       AtWork, Written, Passed, InTime
<1>30. CASE HandlerDrop(a)
  <2>1. /\ handler[a] = "write" /\ handler'[a] = "select" /\ closed[a]
        /\ UNCHANGED <<body, broken, activeFiles, once, currentSize, closed, writer, inode,
                       pos, buf, recvd, data, phase>>
    BY <1>1, <1>2, <1>3, <1>30 DEF HandlerDrop, HandlerMoves
  <2> QED
    BY <1>1, <1>2, <1>3, <1>4, <1>5, <2>1 DEF Lone, LoneSession, LonePipe, LoneFile, LoneAnswer,
       AtWork, Written, Passed, InTime
<1>31. CASE HandlerSelectDefault(a)
  <2>1. /\ handler[a] = "select" /\ handler'[a] = "recv"
        /\ UNCHANGED <<body, broken, activeFiles, once, currentSize, closed, writer, inode,
                       pos, buf, recvd, data, phase>>
    BY <1>1, <1>2, <1>3, <1>31 DEF HandlerSelectDefault, HandlerMoves
  <2> QED
    BY <1>1, <1>2, <1>3, <1>4, <1>5, <2>1 DEF Lone, LoneSession, LonePipe, LoneFile, LoneAnswer,
       AtWork, Written, Passed, InTime
<1>32. CASE HandlerNoSession(a)
  <2>1. /\ handler[a] = "recv" /\ handler'[a] = "err"
        /\ closed'[a] = (closed[a] \/ a = activeFiles[ClientOf[a]])
        /\ activeFiles[ClientOf[a]] = None
        /\ UNCHANGED <<body, broken, activeFiles, once, currentSize, writer, inode, pos, buf,
                       recvd, data, phase>>
    BY <1>1, <1>2, <1>3, <1>32 DEF HandlerNoSession, HandlerReturns, HandlerMoves,
       ClosedAfter, ActiveFile
  <2> QED
    BY <1>1, <1>2, <1>3, <1>4, <1>5, <2>1 DEF Lone, LoneSession, LonePipe, LoneFile, LoneAnswer,
       AtWork, Written, Passed, InTime
<1>33. CASE HandlerEOF(a)
  <2>1. /\ handler[a] = "recv" /\ handler'[a] = "ok"
        /\ closed'[a] = (closed[a] \/ a = activeFiles[ClientOf[a]])
        /\ recvd[a] = Len(body[a]) /\ recvd[a] > 0
        /\ UNCHANGED <<body, broken, activeFiles, once, currentSize, writer, inode, pos, buf,
                       recvd, data, phase>>
    BY <1>1, <1>2, <1>3, <1>33 DEF HandlerEOF, HandlerReturns, HandlerMoves, ClosedAfter,
       ActiveFile
  <2> QED
    BY <1>1, <1>2, <1>3, <1>4, <1>5, <2>1 DEF Lone, LoneSession, LonePipe, LoneFile, LoneAnswer,
       AtWork, Written, Passed, InTime
<1>34. CASE HandlerBroken(a)
  <2>1. /\ handler[a] = "recv" /\ handler'[a] = "err"
        /\ closed'[a] = (closed[a] \/ a = activeFiles[ClientOf[a]])
        /\ broken[a]
        /\ UNCHANGED <<body, broken, activeFiles, once, currentSize, writer, inode, pos, buf,
                       recvd, data, phase>>
    BY <1>1, <1>2, <1>3, <1>34 DEF HandlerBroken, HandlerReturns, HandlerMoves, ClosedAfter,
       ActiveFile
  <2> QED
    BY <1>1, <1>2, <1>3, <1>4, <1>5, <2>1 DEF Lone, LoneSession, LonePipe, LoneFile, LoneAnswer,
       AtWork, Written, Passed, InTime
<1>35. CASE HandlerSelectError(a)
  <2>1. /\ handler[a] = "select" /\ handler'[a] = "err"
        /\ closed'[a] = (closed[a] \/ a = activeFiles[ClientOf[a]])
        /\ UNCHANGED <<body, broken, activeFiles, once, currentSize, writer, inode, pos, buf,
                       recvd, data, phase>>
    BY <1>1, <1>2, <1>3, <1>35 DEF HandlerSelectError, HandlerReturns, HandlerMoves,
       ClosedAfter, ActiveFile
  <2> QED
    BY <1>1, <1>2, <1>3, <1>4, <1>5, <2>1 DEF Lone, LoneSession, LonePipe, LoneFile, LoneAnswer,
       AtWork, Written, Passed, InTime
<1>36. CASE HandlerSelectDone(a)
  <2>1. /\ handler[a] = "select" /\ handler'[a] = "ok"
        /\ closed'[a] = (closed[a] \/ a = activeFiles[ClientOf[a]])
        /\ writer[a] \in {"signalled", "exited", "aborted"}
        /\ writer[a] \in {"signalled", "exited"} => closed[a]
        /\ UNCHANGED <<body, broken, activeFiles, once, currentSize, writer, inode, pos, buf,
                       recvd, data, phase>>
    BY <1>1, <1>2, <1>3, <1>36 DEF HandlerSelectDone, DoneReady, HandlerReturns, HandlerMoves,
       ClosedAfter, ActiveFile
  <2> QED
    BY <1>1, <1>2, <1>3, <1>4, <1>5, <2>1 DEF Lone, LoneSession, LonePipe, LoneFile, LoneAnswer,
       AtWork, Written, Passed, InTime
<1>37. CASE WriterOpen(a)
  <2>1. /\ writer[a] = "start" /\ writer'[a] = "opened"
        /\ UNCHANGED <<body, broken, activeFiles, once, currentSize, closed, pos, buf,
                       handler, recvd, data, phase>>
    BY <1>1, <1>2, <1>3, <1>37 DEF WriterOpen, WriterMoves
  <2> QED
    BY <1>1, <1>2, <1>3, <1>4, <1>5, <2>1 DEF Lone, LoneSession, LonePipe, LoneFile, LoneAnswer,
       AtWork, Written, Passed, InTime
<1>38. CASE WriterOpenFails(a)
  <2>1. /\ writer[a] = "start" /\ writer'[a] = "failed"
        /\ UNCHANGED <<body, broken, activeFiles, once, currentSize, closed, inode, pos, buf,
                       handler, recvd, data, phase>>
    BY <1>1, <1>2, <1>3, <1>38 DEF WriterOpenFails, WriterFails, WriterMoves
  <2> QED
    BY <1>1, <1>2, <1>3, <1>4, <1>5, <2>1 DEF Lone, LoneSession, LonePipe, LoneFile, LoneAnswer,
       AtWork, Written, Passed, InTime
<1>39. CASE WriterWait(a)
  <2>1. /\ writer[a] = "opened" /\ writer'[a] = "waiting"
        /\ UNCHANGED <<body, broken, activeFiles, once, currentSize, closed, inode, pos, buf,
                       handler, recvd, data, phase>>
    BY <1>1, <1>2, <1>3, <1>39 DEF WriterWait, WriterMoves
  <2> QED
    BY <1>1, <1>2, <1>3, <1>4, <1>5, <2>1 DEF Lone, LoneSession, LonePipe, LoneFile, LoneAnswer,
       AtWork, Written, Passed, InTime
<1>40. CASE WriterSeek(a)
  <2>1. /\ writer[a] = "woken" /\ writer'[a] = "copy"
        /\ pos'[a] = currentSize[a] /\ once[a]
        /\ UNCHANGED <<body, broken, activeFiles, once, currentSize, closed, inode, buf,
                       handler, recvd, data, phase>>
    BY <1>1, <1>2, <1>3, <1>40 DEF WriterSeek, WriterMoves
  <2> QED
    BY <1>1, <1>2, <1>3, <1>4, <1>5, <2>1 DEF Lone, LoneSession, LonePipe, LoneFile, LoneAnswer,
       AtWork, Written, Passed, InTime
<1>41. CASE WriterWriteFails(a)
  <2>1. /\ writer[a] = "write" /\ writer'[a] = "failed"
        /\ UNCHANGED <<body, broken, activeFiles, once, currentSize, closed, inode, pos, buf,
                       handler, recvd, data, phase>>
    BY <1>1, <1>2, <1>3, <1>41 DEF WriterWriteFails, WriterFails, WriterMoves
  <2> QED
    BY <1>1, <1>2, <1>3, <1>4, <1>5, <2>1 DEF Lone, LoneSession, LonePipe, LoneFile, LoneAnswer,
       AtWork, Written, Passed, InTime
<1>42. CASE WriterEOF(a)
  <2>1. /\ writer[a] = "copy" /\ writer'[a] = "finish" /\ closed[a]
        /\ UNCHANGED <<body, broken, activeFiles, once, currentSize, closed, inode, pos, buf,
                       handler, recvd, data, phase>>
    BY <1>1, <1>2, <1>3, <1>42 DEF WriterEOF, WriterMoves
  <2> QED
    BY <1>1, <1>2, <1>3, <1>4, <1>5, <2>1 DEF Lone, LoneSession, LonePipe, LoneFile, LoneAnswer,
       AtWork, Written, Passed, InTime
<1>43. CASE WriterPut(a)
  <2>1. /\ writer[a] = "finish" /\ writer'[a] = "signalled"
        /\ UNCHANGED <<body, broken, activeFiles, once, closed, inode, pos, buf, handler,
                       recvd, data, phase>>
    BY <1>1, <1>2, <1>3, <1>43 DEF WriterPut, WriterMoves
  <2> QED
    BY <1>1, <1>2, <1>3, <1>4, <1>5, <2>1 DEF Lone, LoneSession, LonePipe, LoneFile, LoneAnswer,
       AtWork, Written, Passed, InTime
<1>44. CASE WriterReturn(a)
  <2>1. /\ \/ writer[a] = "signalled" /\ writer'[a] = "exited"
           \/ writer[a] = "failed" /\ writer'[a] = "aborted"
        /\ UNCHANGED <<body, broken, activeFiles, once, currentSize, closed, inode, pos, buf,
                       handler, recvd, data, phase>>
    <3>1. ASSUME NEW from, NEW to, WriterMoves(a, from, to)
          PROVE  writer[a] = from /\ writer'[a] = to
                 /\ UNCHANGED <<body, broken, activeFiles, once, closed, recvd, phase>>
      BY <1>1, <3>1 DEF WriterMoves
    <3>2. UNCHANGED <<currentSize, inode, pos, buf, handler, data>>
      BY <1>44 DEF WriterReturn
    <3>3. CASE WriterMoves(a, "signalled", "exited")
      <4>1. writer[a] = "signalled" /\ writer'[a] = "exited"
        BY <3>1, <3>3
      <4>2. UNCHANGED <<body, broken, activeFiles, once, closed, recvd, phase>>
        BY <3>1, <3>3
      <4> QED
        BY <3>2, <4>1, <4>2
    <3>4. CASE WriterMoves(a, "failed", "aborted")
      <4>1. writer[a] = "failed" /\ writer'[a] = "aborted"
        BY <3>1, <3>4
      <4>2. UNCHANGED <<body, broken, activeFiles, once, closed, recvd, phase>>
        BY <3>1, <3>4
      <4> QED
        BY <3>2, <4>1, <4>2
    <3> QED
      BY <1>44, <3>3, <3>4 DEF WriterReturn
  <2> QED
    BY <1>1, <1>2, <1>3, <1>4, <1>5, <2>1 DEF Lone, LoneSession, LonePipe, LoneFile, LoneAnswer,
       AtWork, Written, Passed, InTime
<1>45. CASE \E h \in Attempts : WriterRead(a, h)
  <2>1. PICK h \in Attempts : WriterRead(a, h)
    BY <1>45
  <2>2. h = a
    BY <1>2, <2>1 DEF WriterRead
  <2>3. /\ ~closed[a] /\ writer[a] = "copy" /\ writer'[a] = "write"
        /\ handler[a] = "write" /\ handler'[a] = "select"
        /\ buf'[a] = body[a][recvd[a]]
        /\ UNCHANGED <<body, broken, activeFiles, once, currentSize, closed, inode, pos,
                       recvd, data,
                     phase>>
    BY <1>1, <2>1, <2>2 DEF WriterRead, WriterMoves
  <2> QED
    BY <1>1, <1>2, <1>3, <1>4, <1>5, <2>3 DEF Lone, LoneSession, LonePipe, LoneFile, LoneAnswer,
       AtWork, Written, Passed, InTime
<1>46. CASE WriterWrite(a)
  <2>1. /\ writer[a] = "write" /\ writer'[a] = "copy"
        /\ pos'[a] = pos[a] + 1
        /\ data' = [data EXCEPT ![inode[a]] = WriteAt(@, pos[a], buf[a])]
        /\ inode[a] \in Attempts
        /\ UNCHANGED <<body, broken, activeFiles, once, currentSize, closed, inode, handler,
                       recvd,
                     phase>>
    <3>1. WriterMoves(a, "write", "copy") /\ pos' = [pos EXCEPT ![a] = @ + 1]
          /\ data' = [data EXCEPT ![inode[a]] = WriteAt(@, pos[a], buf[a])]
          /\ UNCHANGED <<currentSize, inode, handler>>
      BY <1>46 DEF WriterWrite
    <3>2. writer[a] = "write" /\ writer'[a] = "copy"
          /\ UNCHANGED <<body, broken, activeFiles, once, closed, recvd, phase>>
      BY <1>1, <3>1 DEF WriterMoves
    <3>3. inode[a] \in Attempts
      BY <1>3, <3>2
    <3>4. pos'[a] = pos[a] + 1
      BY <1>1, <3>1
    <3> QED
      BY <3>1, <3>2, <3>3, <3>4
  <2>2. LoneSession(a)' /\ LonePipe(a)' /\ (inode[a] # a => data'[a] = data[a])
    BY <1>1, <1>3, <1>5, <2>1 DEF LoneSession, LonePipe, AtWork, Written, Passed, InTime
  <2>3. CASE inode[a] # a
    BY <1>1, <1>3, <1>4, <1>5, <2>1, <2>2, <2>3 DEF Lone, LoneFile, LoneAnswer, Written, InTime
  <2>4. CASE inode[a] = a
    <3>1. /\ Len(data[a]) = pos[a] /\ pos[a] < recvd[a]
          /\ buf[a] = body[a][pos[a] + 1]
      BY <1>1, <1>5, <2>1, <2>4 DEF LoneFile, LonePipe, Written
    <3>2. data'[a] = [i \in 1..(pos[a] + 1) |-> IF i = pos[a] + 1 THEN buf[a] ELSE data[a][i]]
      <4>1. data'[a] = WriteAt(data[a], pos[a], buf[a])
        <5>1. data' = [data EXCEPT ![a] = WriteAt(data[a], pos[a], buf[a])]
          BY <2>1, <2>4
        <5>2. data \in [Attempts -> Content]
          BY <1>1
        <5> QED
          BY <5>1, <5>2
      <4> QED
        BY <1>1, <3>1, <4>1 DEF WriteAt
    <3>3. Len(data'[a]) = pos[a] + 1
      BY <1>1, <3>2
    <3>4. \A i \in 1..(pos[a] + 1) : data'[a][i] = body[a][i]
      BY <1>1, <1>5, <3>1, <3>2 DEF LoneFile
    <3>5. LoneFile(a)'
      <4>1. /\ inode'[a] = a /\ writer'[a] = "copy" /\ pos'[a] = pos[a] + 1
            /\ recvd'[a] = recvd[a] /\ body'[a] = body[a] /\ pos[a] + 1 <= recvd[a]
        BY <1>1, <2>1, <2>4, <3>1
      <4> QED
        BY <3>3, <3>4, <4>1 DEF LoneFile, InTime
    <3>6. LoneAnswer(a)'
      BY <1>1, <1>5, <2>1, <2>4 DEF LoneAnswer, InTime, Written
    <3> QED
      BY <2>2, <3>5, <3>6 DEF Lone
  <2> QED
    BY <2>3, <2>4
<1> QED
  BY <1>6, <1>7, <1>8, <1>24, <1>9, <1>10, <1>11, <1>12, <1>13, <1>14, <1>25, <1>15, <1>16,
     <1>17, <1>18, <1>19, <1>27, <1>26, <1>20, <1>21, <1>22, <1>23, <1>28, <1>29, <1>32, <1>33,
     <1>34, <1>30, <1>35, <1>36, <1>31, <1>37, <1>38, <1>39, <1>40, <1>46, <1>41, <1>42, <1>43,
     <1>44, <1>45
     DEF ClientStep, QueryStep, HandlerStep, WriterStep

\* The end of the process, which is that of sessions, writers and handlers.
LEMMA ProcessKeeps ==
    ASSUME Before, NEW a \in Attempts, Alone(a), Lone(a),
           Stop \/ CloseStore \/ Exit \/ Crash \/ QueryHashFatal(a) \/ ProcessDies
    PROVE  Lone(a)'
<1> USE DEF clientVars, queryVars, sessionVars, writerVars, handlerVars, diskVars, processVars
<1>1. /\ broken \in [Attempts -> BOOLEAN] /\ activeFiles \in [Clients -> Attempts \cup {None}]
      /\ closed \in [Attempts -> BOOLEAN] /\ writer \in [Attempts -> WriterStates]
      /\ handler \in [Attempts -> HandlerStates]
      /\ phase \in {"serving", "stopping", "storeclosed"}
      /\ ClientOf[a] \in Clients /\ a # None
      /\ \A c \in Clients : activeFiles[c] = a => c = ClientOf[a]
  BY PathType, AttemptIsNotNone DEF Before, TypeInv, TypeOK, MediaInv, OwnPath
<1>2. activeFiles[ClientOf[a]] \in {None, a}
  BY OwnSession
<1>3. LoneSession(a) /\ LonePipe(a) /\ LoneFile(a) /\ LoneAnswer(a)
  BY DEF Lone
<1> HIDE DEF Before
<1>4. CASE Stop
  <2>1. /\ phase' = "stopping"
        /\ broken'[a] = (broken[a] \/ InFlight(a))
        /\ closed'[a] = (closed[a] \/ activeFiles[ClientOf[a]] = a)
        /\ UNCHANGED <<body, activeFiles, once, currentSize, writer, inode, pos, buf, handler,
                       recvd, data>>
    BY <1>1, <1>4 DEF Stop
  <2> QED
    BY <1>1, <1>2, <1>3, <2>1 DEF Lone, LoneSession, LonePipe, LoneFile, LoneAnswer,
       AtWork, Written, Passed, InTime, InFlight
<1>5. CASE CloseStore
  <2>1. /\ phase = "stopping" /\ phase' = "storeclosed"
        /\ UNCHANGED <<body, broken, closed, activeFiles, once, currentSize, writer, inode,
                       pos, buf, handler, recvd, data>>
    BY <1>5 DEF CloseStore
  <2> QED
    BY <1>3, <2>1 DEF Lone, LoneSession, LonePipe, LoneFile, LoneAnswer,
       AtWork, Written, Passed, InTime
<1>6. CASE ProcessDies
  <2>1. /\ activeFiles'[ClientOf[a]] = None
        /\ writer'[a] = IF writer[a] \in {"none", "exited", "aborted"} THEN writer[a] ELSE "dead"
        /\ handler'[a] = IF InFlight(a) THEN "dead" ELSE handler[a]
        /\ broken'[a] = (broken[a] \/ InFlight(a))
        /\ UNCHANGED <<body, closed, once, currentSize, inode, pos, buf, recvd, data>>
    BY <1>1, <1>6 DEF ProcessDies
  <2> QED
    BY <1>1, <1>2, <1>3, <2>1 DEF Lone, LoneSession, LonePipe, LoneFile, LoneAnswer,
       AtWork, Written, Passed, InTime, InFlight
<1> QED
  BY <1>4, <1>5, <1>6 DEF Exit, Crash, QueryHashFatal

LEMMA LoneStep ==
    Before /\ LoneInv /\ [Next]_vars => LoneInv'
<1> SUFFICES ASSUME Before, LoneInv, [Next]_vars, NEW a \in Attempts, Alone(a)'
             PROVE  Lone(a)'
  BY DEF LoneInv
<1>1. Alone(a) /\ Lone(a)
  BY AloneBefore DEF LoneInv
<1>2. ASSUME NEW b \in Attempts, ClientStep(b) \/ QueryStep(b) \/ HandlerStep(b) \/ WriterStep(b)
      PROVE  Lone(a)'
  <2>1. CASE QueryHashFatal(b)
    <3>1. ProcessDies
      BY <2>1 DEF QueryHashFatal
    <3> QED
      BY <1>1, <3>1, ProcessKeeps
  <2>2. CASE ~QueryHashFatal(b) /\ b = a
    BY <1>1, <1>2, <2>2, OwnKeep
  <2>3. CASE ~QueryHashFatal(b) /\ b # a
    <3>1. Mine(a)' = Mine(a) /\ phase' = phase
      BY <1>1, <1>2, <2>3, OthersKeep
    <3> QED
      BY <1>1, <3>1, SameIsLone
  <2> QED
    BY <2>1, <2>2, <2>3
<1>3. CASE Stop \/ CloseStore \/ Exit \/ Crash
  BY <1>1, <1>3, ProcessKeeps
<1>4. CASE UNCHANGED vars
  <2>1. Mine(a)' = Mine(a) /\ phase' = phase
    BY <1>4 DEF vars, clientVars, sessionVars, writerVars, handlerVars, diskVars, processVars,
       Mine
  <2> QED
    BY <1>1, <2>1, SameIsLone
<1> QED
  BY <1>2, <1>3, <1>4 DEF Next

LEMMA LoneInit == Init => Before /\ LoneInv
<1> SUFFICES ASSUME Init PROVE Before /\ LoneInv
  OBVIOUS
<1>1. TypeInv /\ PhaseInv /\ MediaInv
  BY MediaInit
<1>2. OffsetSetBeforeCopy /\ PrimedInv
  BY ZenonT(60) DEF Init, OffsetSetBeforeCopy, PrimedInv
<1>3. SessionInv
  BY DEF Init, SessionInv
<1>4. ASSUME NEW a \in Attempts PROVE Lone(a)
  <2>1. /\ handler[a] = "none" /\ recvd[a] = 0 /\ ~once[a] /\ writer[a] = "none"
        /\ ~closed[a] /\ data[a] = << >> /\ Len(data[a]) = 0
    BY <1>4 DEF Init
  <2> QED
    BY <2>1 DEF Lone, LoneSession, LonePipe, LoneFile, LoneAnswer, AtWork, InTime
<1> QED
  BY <1>1, <1>2, <1>3, <1>4 DEF Before, LoneInv

LEMMA LoneCorrect == Spec => [](Before /\ LoneInv)
<1>1. Before /\ LoneInv /\ [Next]_vars => (Before /\ LoneInv)'
  BY TypeStep, PhaseStep, OffsetStep, MediaStep, PrimedStep, SessionStep, LoneStep
     DEF Before, TypeInv
<1> QED
  BY <1>1, LoneInit, PTL DEF Spec

\* A file that nobody else wrote to is a prefix of what its client streams, after every
\* step of every other client and after every end of the process
\* (server.go:205-218 and 300-312).
THEOREM PrefixCorrect == Spec => []SolePrefix
<1>1. Before /\ LoneInv => SolePrefix
  <2> SUFFICES ASSUME Before, LoneInv, NEW a \in Attempts, Sole(a)
               PROVE  /\ data[a] # << >> => Len(data[a]) <= Len(body[a])
                      /\ \A i \in 1..Len(data[a]) : data[a][i] = body[a][i]
    BY DEF SolePrefix
  <2>1. Lone(a)
    BY DEF LoneInv, Sole, Alone
  <2>2. Len(data[a]) <= recvd[a] /\ \A i \in 1..Len(data[a]) : data[a][i] = body[a][i]
    BY <2>1 DEF Lone, LoneFile
  <2>3. ASSUME data[a] # << >> PROVE Len(data[a]) <= Len(body[a])
    <3>1. data[a] \in Content
      BY DEF Before, TypeInv, TypeOK
    <3>2. Len(data[a]) \in Nat /\ Len(data[a]) > 0
      BY <2>3, <3>1 DEF Content
    <3>3. recvd[a] \in Nat /\ sent[a] \in Nat
      BY DEF Before, TypeInv, TypeOK
    <3>4. handler[a] # "none"
      BY <2>2, <3>2, <3>3 DEF Before, TypeInv, StreamInv
    <3>5. recvd[a] <= sent[a] /\ sent[a] <= Len(body[a]) /\ Len(body[a]) \in Nat
      <4>1. body[a] \in Versions /\ recvd[a] <= sent[a] /\ sent[a] <= Len(body[a])
        BY <3>4 DEF Before, TypeInv, StreamInv
      <4> QED
        BY <4>1, VersionType
    <3> QED
      BY <2>2, <3>2, <3>3, <3>5
  <2> QED
    BY <2>2, <2>3
<1> QED
  BY <1>1, LoneCorrect, PTL

\* And it is whole once its stream got its answer and its writer has ended
\* (torrxferclientconnection.go:72-101, server.go:312-327).
THEOREM StoredCorrect == Spec => []SoleTransferStored
<1>1. Before /\ LoneInv => SoleTransferStored
  <2> SUFFICES ASSUME Before, LoneInv, NEW a \in Attempts, Sole(a), handler[a] = "ok",
                      ~broken[a], writer[a] = "exited"
               PROVE  data[a] = body[a]
    BY DEF SoleTransferStored
  <2>1. Lone(a)
    BY DEF LoneInv, Sole, Alone
  <2>2. /\ Len(data[a]) = Len(body[a])
        /\ \A i \in 1..Len(data[a]) : data[a][i] = body[a][i]
    BY <2>1 DEF Lone, LoneFile, LoneAnswer, Sole
  <2>3. data[a] \in Content /\ body[a] \in Versions
    BY DEF Before, TypeInv, TypeOK, StreamInv
  <2>4. data[a] \in Seq(Blocks \cup {Hole}) /\ body[a] \in Seq(Blocks \cup {Hole})
    BY <2>3, VersionType DEF Content
  <2> QED
    BY <2>2, <2>4
<1> QED
  BY <1>1, LoneCorrect, PTL
=============================================================================
