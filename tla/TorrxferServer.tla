--------------------------- MODULE TorrxferServer ---------------------------
(***************************************************************************)
(* The server of torrxfer: QueryFile and TransferFile calls, the session   *)
(* each client ID has in activeFiles, the writer goroutine of every        *)
(* session, the key-value store of known hashes, the files below the media *)
(* directory, and the death and restart of the process.                    *)
(*                                                                         *)
(* An attempt is one run of the client's doFileTransferJob.  The File      *)
(* object, the writer goroutine and the inode that an attempt may create   *)
(* on the server carry the attempt's name: each is created at most once.   *)
(* A content stands for its own hash (SHA collisions are left out), and a  *)
(* content is a sequence of blocks: what one stream message carries.       *)
(***************************************************************************)
EXTENDS Naturals, Sequences

CONSTANTS
    Attempts,       \* runs of doFileTransferJob against this server
    Clients,        \* job UUIDs: the "clientdata" metadata of the calls
    ClientOf,       \* [Attempts -> Clients]; a retry keeps its job's UUID
    Paths,          \* server paths: media root, media prefix and file name
    PathOf,         \* [Clients -> Paths]
    Blocks,         \* payloads of one TransferFileRequest
    Hole,           \* a block of a file that was skipped over by a seek
    None,           \* no file, no session, no content (the empty hash)
    LocalVersions,  \* [Paths -> SUBSET Seq(Blocks)]: contents the source has
    EpochVersions,  \* those whose source file has modification time 0
    TornRecords,    \* hashes of such, whose records the store may have from before
    MaxCrashes,     \* bound: kills of the server process
    MaxStops,       \* bound: signals it gets
    DeleteOnComplete,   \* of the client's configuration
    NetworkFaults,  \* may connections break?
    LocalFaults,    \* may reading the source file fail?
    DiskFaults      \* may operations on the media directory and the store fail?

ASSUME ServerConstants ==
    /\ ClientOf \in [Attempts -> Clients]
    /\ PathOf \in [Clients -> Paths]
    /\ LocalVersions \in [Paths -> SUBSET Seq(Blocks)]
    /\ TornRecords \subseteq EpochVersions \cup {None}
    /\ Hole \notin Blocks
    /\ None \notin Attempts \cup Blocks \cup {Hole}
    /\ None \notin Seq(Blocks \cup {Hole})
    /\ MaxCrashes \in Nat
    /\ MaxStops \in Nat
    /\ DeleteOnComplete \in BOOLEAN
    /\ NetworkFaults \in BOOLEAN
    /\ LocalFaults \in BOOLEAN
    /\ DiskFaults \in BOOLEAN

VARIABLES
    \* the client side of an attempt (worker.go and the RPC client)
    client,         \* where doFileTransferJob and its sender are
    key,            \* the hash sent with QueryFile
    body,           \* the content that is streamed
    sent,           \* number of blocks of body sent
    broken,         \* has the connection of the stream broken?
    retries,        \* [Clients -> Nat]: queued jobs
    deleting,       \* is a Completed notification to be handled by os.Remove?
    removed,        \* paths whose source file was removed
    \* the QueryFile call
    query,          \* where QueryFunction is
    found,          \* did Has answer yes?
    reply,          \* the RPC file that is returned
    unrecorded,     \* attempts whose Put failed, which nobody looks at (a history)
    \* sessions: the File objects in memory
    activeFiles,    \* [Clients -> Attempts or None]
    once,           \* has the first block set the offset?
    currentSize,    \* the File's currentSize
    closed,         \* is the write end of the session's pipe closed?
    \* the writer goroutine of a session
    writer,         \* where startFileWriteThread is
    inode,          \* the file it opened
    pos,            \* its position in that file
    buf,            \* the block read from the pipe, not written yet
    \* the handler of the TransferFile stream
    handler,        \* where RPCTorrxferServer.TransferFile is
    recvd,          \* number of blocks received
    registered,     \* the session whose notification channels it watches
    target,         \* the session it is writing a block to
    \* what survives the process
    fileDb,         \* [hashes -> {"absent", "good", "torn"}]
    dir,            \* [Paths -> inode or None]
    data,           \* [inode -> content]
    \* the process
    phase,          \* serving, or how far it is in stopping
    fatal,          \* has log.Fatal ended the process?
    crashes,        \* number of kills so far
    stops           \* number of signals so far

clientVars  == <<client, key, body, sent, broken, retries, deleting, removed>>
queryVars   == <<query, found, reply, unrecorded>>
sessionVars == <<activeFiles, once, currentSize, closed>>
writerVars  == <<writer, inode, pos, buf>>
handlerVars == <<handler, recvd, registered, target>>
diskVars    == <<fileDb, dir, data>>
processVars == <<phase, fatal, crashes, stops>>
vars == <<clientVars, queryVars, sessionVars, writerVars, handlerVars,
          diskVars, processVars>>

Path(a)  == PathOf[ClientOf[a]]
Versions == UNION {LocalVersions[p] : p \in Paths}
Hashes   == Versions \cup {None}
Content  == Seq(Blocks \cup {Hole})

\* The states of each thread of control.
ClientStates  == {"idle", "query", "sending", "closed", "complete", "failed"}
QueryStates   == {"idle", "has", "stat", "remove", "put", "activate", "get",
                  "drop", "info", "hash", "done", "error"}
HandlerStates == {"none", "new", "recv", "write", "select", "ok", "err", "dead"}
WriterStates  == {"none", "start", "opened", "waiting", "woken", "copy", "write",
                  "finish", "signalled", "exited", "failed", "aborted", "dead"}

TypeOK ==
    /\ client \in [Attempts -> ClientStates]
    /\ key \in [Attempts -> Hashes]
    /\ body \in [Attempts -> Versions \cup {None}]
    /\ sent \in [Attempts -> Nat]
    /\ broken \in [Attempts -> BOOLEAN]
    /\ retries \in [Clients -> Nat]
    /\ deleting \in [Attempts -> BOOLEAN]
    /\ removed \subseteq Paths
    /\ query \in [Attempts -> QueryStates]
    /\ found \in [Attempts -> BOOLEAN]
    /\ reply \in [Attempts -> [hash : Content \cup {None}, sizeOnDisk : Nat]]
    /\ unrecorded \subseteq Attempts
    /\ activeFiles \in [Clients -> Attempts \cup {None}]
    /\ once \in [Attempts -> BOOLEAN]
    /\ currentSize \in [Attempts -> Nat]
    /\ closed \in [Attempts -> BOOLEAN]
    /\ writer \in [Attempts -> WriterStates]
    /\ inode \in [Attempts -> Attempts \cup {None}]
    /\ pos \in [Attempts -> Nat]
    /\ buf \in [Attempts -> Blocks \cup {None}]
    /\ handler \in [Attempts -> HandlerStates]
    /\ recvd \in [Attempts -> Nat]
    /\ registered \in [Attempts -> Attempts \cup {None}]
    /\ target \in [Attempts -> Attempts \cup {None}]
    /\ fileDb \in [Hashes -> {"absent", "good", "torn"}]
    /\ dir \in [Paths -> Attempts \cup {None}]
    /\ data \in [Attempts -> Content]
    /\ phase \in {"serving", "stopping", "storeclosed"}
    /\ fatal \in BOOLEAN
    /\ crashes \in Nat
    /\ stops \in Nat

\* The store may be that of an earlier process, with records that it cannot read
\* back.  The media directory is empty.
Init ==
    /\ client = [a \in Attempts |-> "idle"]
    /\ key = [a \in Attempts |-> None]
    /\ body = [a \in Attempts |-> None]
    /\ sent = [a \in Attempts |-> 0]
    /\ broken = [a \in Attempts |-> FALSE]
    /\ retries = [c \in Clients |-> 1]
    /\ deleting = [a \in Attempts |-> FALSE]
    /\ removed = {}
    /\ query = [a \in Attempts |-> "idle"]
    /\ found = [a \in Attempts |-> FALSE]
    /\ reply = [a \in Attempts |-> [hash |-> None, sizeOnDisk |-> 0]]
    /\ unrecorded = {}
    /\ activeFiles = [c \in Clients |-> None]
    /\ once = [a \in Attempts |-> FALSE]
    /\ currentSize = [a \in Attempts |-> 0]
    /\ closed = [a \in Attempts |-> FALSE]
    /\ writer = [a \in Attempts |-> "none"]
    /\ inode = [a \in Attempts |-> None]
    /\ pos = [a \in Attempts |-> 0]
    /\ buf = [a \in Attempts |-> None]
    /\ handler = [a \in Attempts |-> "none"]
    /\ recvd = [a \in Attempts |-> 0]
    /\ registered = [a \in Attempts |-> None]
    /\ target = [a \in Attempts |-> None]
    /\ \E torn \in SUBSET TornRecords :
          fileDb = [v \in Hashes |-> IF v \in torn THEN "torn" ELSE "absent"]
    /\ dir = [p \in Paths |-> None]
    /\ data = [a \in Attempts |-> << >>]
    /\ phase = "serving"
    /\ fatal = FALSE
    /\ crashes = 0
    /\ stops = 0

-----------------------------------------------------------------------------
(* Helpers                                                                 *)

\* A definition whose name begins with "Faulty" is the one below it with a
\* plausible mistake.  Nothing uses these; they are there to be put in the
\* place of the original, which has to make a property fail.

FaultyWriteAt(d, p, b) ==
    [i \in 1..(IF p < Len(d) THEN Len(d) ELSE p + 2) |->
        IF i = p + 2 THEN b ELSE IF i <= Len(d) THEN d[i] ELSE Hole]

\* A write of block b at block position p; there is no truncation.
WriteAt(d, p, b) ==
    [i \in 1..(IF p < Len(d) THEN Len(d) ELSE p + 1) |->
        IF i = p + 1 THEN b ELSE IF i <= Len(d) THEN d[i] ELSE Hole]

\* Hashes whose sources have time 0: so does a source that is not there.
Undated == EpochVersions \cup {None}

\* What MarshalText stores.  The creation time of a session of the found
\* branch is the source's time, and time 0 is stored as an empty token, which
\* UnmarshalText refuses.
RecordOf(a) == IF found[a] /\ key[a] \in Undated THEN "torn" ELSE "good"

\* The store: an operation takes effect, or it fails and nothing changes, as it
\* always does once the store is closed.
StoreTakes(k, record) ==
    /\ phase # "storeclosed"
    /\ fileDb' = [fileDb EXCEPT ![k] = record]
StoreMayFail == phase = "storeclosed" \/ DiskFaults
StoreFails == StoreMayFail /\ UNCHANGED fileDb

FaultyOpenedInode(a) == a

\* The inode opened with O_CREATE: the one at the path, or a new one.
OpenedInode(a) == IF dir[Path(a)] = None THEN a ELSE dir[Path(a)]

FaultyBlockOffset(a) == reply[a].sizeOnDisk + recvd[a] - 1

FaultyBlockOffsetNext(a) == reply[a].sizeOnDisk + recvd[a] + 1

\* Offset of the block that a handler has just received.
BlockOffset(a) == reply[a].sizeOnDisk + recvd[a]

\* Channels of the session that have a value or are closed: see the deferred
\* close calls of startFileWriteThread, done first, then error.
DoneReady(s) == s # None /\ writer[s] \in {"signalled", "exited", "aborted"}
ErrorReady(s) == s # None /\ writer[s] \in {"exited", "failed", "aborted"}

FaultyActiveFile(c) ==
    LET active == {d \in Clients : activeFiles[d] # None} IN
    IF active = {} THEN None ELSE activeFiles[CHOOSE d \in active : TRUE]

\* isFileActive: the session that the client ID has now.
ActiveFile(c) == activeFiles[c]

FaultyClosedAfter(c) == closed

\* Close: the pipe of that session.
ClosedAfter(c) == [s \in Attempts |-> closed[s] \/ s = ActiveFile(c)]

-----------------------------------------------------------------------------
(* Frames: the thread of a goes from one state to another; what is listed  *)
(* stays for all steps of that thread.                                     *)

ClientMoves(a, from, to) ==
    /\ client[a] = from
    /\ client' = [client EXCEPT ![a] = to]
    /\ UNCHANGED <<sessionVars, writerVars, diskVars, processVars, found, reply,
                   unrecorded, recvd, registered, target, broken, removed>>

QueryMoves(a, from, to) ==
    /\ query[a] = from
    /\ query' = [query EXCEPT ![a] = to]
    /\ UNCHANGED <<clientVars, handlerVars, processVars, once, closed, inode, pos,
                   buf, data>>

HandlerMoves(a, from, to) ==
    /\ handler[a] = from
    /\ handler' = [handler EXCEPT ![a] = to]
    /\ UNCHANGED <<clientVars, queryVars, diskVars, processVars, activeFiles,
                   inode, pos, buf>>

WriterMoves(a, from, to) ==
    /\ writer[a] = from
    /\ writer' = [writer EXCEPT ![a] = to]
    /\ UNCHANGED <<clientVars, queryVars, processVars, activeFiles, once, closed,
                   recvd, registered, target>>

-----------------------------------------------------------------------------
(* The client: doFileTransferJob and the goroutine that sends the stream.  *)

\* What reading the source gives at some time: one of its contents, or None if
\* it is not there or cannot be read.
Source(p) ==
    IF p \in removed THEN {None}
    ELSE LocalVersions[p] \cup (IF LocalFaults THEN {None} ELSE {})

Requeue(a, n) == retries' = [retries EXCEPT ![ClientOf[a]] = @ + n]

\* A worker takes a queued job and calls QueryFile with the present hash of
\* the source file, the empty hash if it is gone.  A call to a server that is
\* stopping is refused and the job queued again, which is no step of this model.
Start(a) ==
    /\ phase = "serving"
    /\ retries[ClientOf[a]] > 0
    /\ ClientMoves(a, "idle", "query")
    /\ retries' = [retries EXCEPT ![ClientOf[a]] = @ - 1]
    /\ \E v \in Source(Path(a)) : key' = [key EXCEPT ![a] = v]
    /\ query' = [query EXCEPT ![a] = "has"]
    /\ UNCHANGED <<body, sent, handler, deleting>>

\* The call returns an error, or the connection is lost while the handler
\* goes on; the job is queued again.
QueryFailed(a) ==
    /\ query[a] = "error" \/ NetworkFaults
    /\ ClientMoves(a, "query", "failed")
    /\ Requeue(a, 1)
    /\ UNCHANGED <<key, body, sent, query, handler, deleting>>

\* The test of worker.go for a file that is already there, h being the local
\* hash: same hash (two empty hashes are the same), or same size, where no
\* server sets sizeOnDisk.
UpToDate(a, h) == h = reply[a].hash \/ h = << >>

\* The notification of a completed transfer: its handler may delete the source.
Completed(a) == deleting' = [deleting EXCEPT ![a] = DeleteOnComplete]

Skip(a) ==
    /\ query[a] = "done"
    /\ \E h \in Source(Path(a)) : UpToDate(a, h)
    /\ ClientMoves(a, "query", "complete")
    /\ Completed(a)
    /\ UNCHANGED <<key, body, sent, retries, query, handler>>

\* The file is opened and the stream; the file is read as it is now, which need
\* not be the version that was hashed for the query or for the test.
OpenStream(a) ==
    /\ query[a] = "done"
    /\ \E h \in Source(Path(a)) : ~UpToDate(a, h)
    /\ \E v \in Source(Path(a)) \ {None, << >>} : body' = [body EXCEPT ![a] = v]
    /\ ClientMoves(a, "query", "sending")
    /\ handler' = [handler EXCEPT ![a] = "new"]
    /\ UNCHANGED <<key, sent, retries, query, deleting>>

\* The file cannot be opened: the job ends, and nobody is notified.
OpenFails(a) ==
    /\ query[a] = "done"
    /\ \E h \in Source(Path(a)) : ~UpToDate(a, h)
    /\ None \in Source(Path(a))
    /\ ClientMoves(a, "query", "failed")
    /\ UNCHANGED <<key, body, sent, retries, query, handler, deleting>>

\* The stream cannot be opened: an error notification, so the job is queued.
OpenStreamFails(a) ==
    /\ NetworkFaults
    /\ query[a] = "done"
    /\ \E h \in Source(Path(a)) : ~UpToDate(a, h)
    /\ Source(Path(a)) # {None}
    /\ ClientMoves(a, "query", "failed")
    /\ Requeue(a, 1)
    /\ UNCHANGED <<key, body, sent, query, handler, deleting>>

\* stream.Send of the next block.
Send(a) ==
    /\ ClientMoves(a, "sending", "sending")
    /\ sent[a] < Len(body[a])
    /\ sent' = [sent EXCEPT ![a] = @ + 1]
    /\ UNCHANGED <<key, body, retries, query, handler, deleting>>

\* stream.Send returns an error: one notification from the sender, and a second
\* one from the worker when its io.Copy meets the pipe that the sender closed.
\* Each queues the job again.
SendFails(a) ==
    /\ ClientMoves(a, "sending", "failed")
    /\ sent[a] < Len(body[a])
    /\ broken[a] \/ handler[a] \in {"ok", "err", "dead"}
    /\ \E n \in 1..2 : Requeue(a, n)
    /\ UNCHANGED <<key, body, sent, query, handler, deleting>>

\* End of the local file: the Closed notification, on which the transfer counts
\* as completed, then CloseAndRecv, whose result is not looked at.
CloseSend(a) ==
    /\ ClientMoves(a, "sending", "closed")
    /\ sent[a] = Len(body[a])
    /\ Completed(a)
    /\ UNCHANGED <<key, body, sent, retries, query, handler>>

\* The handler of the notification removes what is at the source's path now.
RemoveSource(a) ==
    /\ deleting[a]
    /\ deleting' = [deleting EXCEPT ![a] = FALSE]
    /\ removed' = removed \cup {Path(a)}
    /\ UNCHANGED <<client, key, body, sent, broken, retries, queryVars,
                   sessionVars, writerVars, handlerVars, diskVars, processVars>>

\* The connection of a stream breaks.
Break(a) ==
    /\ NetworkFaults
    /\ client[a] \in {"sending", "closed"}
    /\ ~broken[a]
    /\ broken' = [broken EXCEPT ![a] = TRUE]
    /\ UNCHANGED <<client, key, body, sent, retries, deleting, removed, queryVars,
                   sessionVars, writerVars, handlerVars, diskVars, processVars>>

-----------------------------------------------------------------------------
(* The process: signals, kills, log.Fatal, and the restart that follows.   *)

\* The stream is on its way to its handler, or the handler is at work.
InFlight(a) == handler[a] \in {"new", "recv", "write", "select"}

\* Calls in progress fail, goroutines and sessions are gone, files and records
\* stay: the store loses nothing when only the process dies.
ProcessDies ==
    /\ activeFiles' = [c \in Clients |-> None]
    /\ query' = [a \in Attempts |->
                    IF query[a] \in {"idle", "done", "error"}
                    THEN query[a] ELSE "error"]
    /\ writer' = [a \in Attempts |->
                    IF writer[a] \in {"none", "exited", "aborted"}
                    THEN writer[a] ELSE "dead"]
    /\ handler' = [a \in Attempts |-> IF InFlight(a) THEN "dead" ELSE handler[a]]
    /\ broken' = [a \in Attempts |-> broken[a] \/ InFlight(a)]
    /\ phase' = "serving"
    /\ UNCHANGED <<client, key, body, sent, retries, deleting, removed, found,
                   reply, unrecorded, once, currentSize, closed, inode, pos, buf,
                   recvd, registered, target, diskVars>>

\* RunServer after a signal: grpcServer.Stop cancels every call and does not
\* wait for its goroutine, then every active session is closed.
Stop ==
    /\ phase = "serving"
    /\ stops < MaxStops
    /\ stops' = stops + 1
    /\ phase' = "stopping"
    /\ broken' = [a \in Attempts |-> broken[a] \/ InFlight(a)]
    /\ closed' = [s \in Attempts |->
                    closed[s] \/ \E c \in Clients : s = activeFiles[c]]
    /\ UNCHANGED <<client, key, body, sent, retries, deleting, removed, queryVars,
                   activeFiles, once, currentSize, writerVars, handlerVars,
                   diskVars, fatal, crashes>>

\* Then the store is closed, under the goroutines that still run.
CloseStore ==
    /\ phase = "stopping"
    /\ phase' = "storeclosed"
    /\ UNCHANGED <<clientVars, queryVars, sessionVars, writerVars, handlerVars,
                   diskVars, fatal, crashes, stops>>

\* RunServer returns and the process ends, whatever its goroutines were doing.
Exit ==
    /\ phase = "storeclosed"
    /\ ProcessDies
    /\ UNCHANGED <<fatal, crashes, stops>>

Crash ==
    /\ crashes < MaxCrashes
    /\ crashes' = crashes + 1
    /\ ProcessDies
    /\ UNCHANGED <<fatal, stops>>

-----------------------------------------------------------------------------
(* QueryFunction.  Every store call, file operation and use of activeFiles *)
(* is a step: other calls run in between.                                  *)

\* A Has that fails answers no.
QueryHas(a) ==
    /\ \/ /\ phase # "storeclosed" /\ fileDb[key[a]] # "absent"
          /\ QueryMoves(a, "has", "get")
          /\ found' = [found EXCEPT ![a] = TRUE]
       \/ /\ StoreMayFail \/ fileDb[key[a]] = "absent"
          /\ QueryMoves(a, "has", "stat")
          /\ found' = [found EXCEPT ![a] = FALSE]
    /\ UNCHANGED <<reply, unrecorded, activeFiles, currentSize, writer,
                   fileDb, dir>>

FaultyQueryStat(a) ==
    /\ QueryMoves(a, "stat", IF dir[Path(a)] = None THEN "activate" ELSE "remove")
    /\ UNCHANGED <<found, reply, unrecorded, activeFiles, currentSize, writer,
                   fileDb, dir>>

\* Unknown hash: is there a file at the path?  A stat that fails says no.
QueryStat(a) ==
    /\ \/ dir[Path(a)] # None /\ QueryMoves(a, "stat", "remove")
       \/ (dir[Path(a)] = None \/ DiskFaults) /\ QueryMoves(a, "stat", "put")
    /\ UNCHANGED <<found, reply, unrecorded, activeFiles, currentSize, writer,
                   fileDb, dir>>

\* Remove it.  Another call may have removed it first, which is an error.
QueryRemove(a) ==
    /\ QueryMoves(a, "remove", IF dir[Path(a)] = None THEN "error" ELSE "put")
    /\ dir' = [dir EXCEPT ![Path(a)] = None]
    /\ UNCHANGED <<found, reply, unrecorded, activeFiles, currentSize, writer,
                   fileDb>>

QueryRemoveFails(a) ==
    /\ DiskFaults
    /\ QueryMoves(a, "remove", "error")
    /\ UNCHANGED <<found, reply, unrecorded, activeFiles, currentSize, writer,
                   fileDb, dir>>

\* The hash is recorded before any byte of the file is there.  A Put that fails
\* changes nothing else: its error is dropped, and the session follows.
QueryPut(a) ==
    /\ QueryMoves(a, "put", "activate")
    /\ \/ StoreTakes(key[a], RecordOf(a)) /\ UNCHANGED unrecorded
       \/ StoreFails /\ unrecorded' = unrecorded \cup {a}
    /\ UNCHANGED <<found, reply, activeFiles, currentSize, writer, dir>>

\* setActiveFile: a new session replaces the one of the client ID, and its
\* writer starts.  In the branch of an unknown hash the reply is made after
\* this, in the other branch it is made already.
QueryActivate(a) ==
    /\ QueryMoves(a, "activate", IF found[a] THEN "done" ELSE "info")
    /\ activeFiles' = [activeFiles EXCEPT ![ClientOf[a]] = a]
    /\ writer' = [writer EXCEPT ![a] = "start"]
    /\ UNCHANGED <<found, reply, unrecorded, currentSize, fileDb, dir>>

\* Known hash: read the record, and the size of the file for the session.  A
\* record that cannot be decoded is to be deleted, and one that is gone by now
\* reads as an empty text, which cannot be decoded either.  A file whose stat
\* fails has size 0.
QueryGet(a) ==
    /\ \/ /\ StoreMayFail
          /\ QueryMoves(a, "get", "error")
       \/ /\ phase # "storeclosed"
          /\ QueryMoves(a, "get", IF fileDb[key[a]] = "good" THEN "info"
                                  ELSE "drop")
    /\ \/ /\ query'[a] = "info" /\ dir[Path(a)] # None
          /\ currentSize' = [currentSize EXCEPT ![a] = Len(data[dir[Path(a)]])]
       \/ /\ query'[a] # "info" \/ dir[Path(a)] = None \/ DiskFaults
          /\ UNCHANGED currentSize
    /\ UNCHANGED <<found, reply, unrecorded, activeFiles, writer, fileDb, dir>>

QueryDrop(a) ==
    /\ QueryMoves(a, "drop", "error")
    /\ StoreTakes(key[a], "absent") \/ StoreFails
    /\ UNCHANGED <<found, reply, unrecorded, activeFiles, currentSize, writer,
                   dir>>

FaultyAfterReply(a, hash) == "done"

\* GenerateRPCFile, with a path without a file as the empty hash; sizeOnDisk is
\* a field that nothing sets.  A session is activated for a known hash only if
\* the file has another content.
AfterReply(a, hash) ==
    IF found[a] /\ hash # key[a] THEN "activate" ELSE "done"

QueryReplies(a, from, hash) ==
    /\ QueryMoves(a, from, AfterReply(a, hash))
    /\ reply' = [reply EXCEPT ![a] = [hash |-> hash, sizeOnDisk |-> 0]]
    /\ UNCHANGED <<found, unrecorded, activeFiles, currentSize, writer, fileDb,
                   dir>>

\* Is there a file to hash?  Again a stat that fails says no.
QueryInfoNone(a) ==
    /\ dir[Path(a)] = None \/ DiskFaults
    /\ QueryReplies(a, "info", None)

QueryInfo(a) ==
    /\ dir[Path(a)] # None
    /\ QueryMoves(a, "info", "hash")
    /\ UNCHANGED <<found, reply, unrecorded, activeFiles, currentSize, writer,
                   fileDb, dir>>

QueryHash(a) ==
    /\ dir[Path(a)] # None
    /\ QueryReplies(a, "hash", data[dir[Path(a)]])

\* It is gone or unreadable by now: NewFile calls log.Fatal.
QueryHashFatal(a) ==
    /\ query[a] = "hash"
    /\ dir[Path(a)] = None \/ DiskFaults
    /\ fatal' = TRUE
    /\ ProcessDies
    /\ UNCHANGED <<crashes, stops>>

QueryStep(a) ==
    \/ QueryHas(a) \/ QueryStat(a) \/ QueryRemove(a) \/ QueryRemoveFails(a)
    \/ QueryPut(a) \/ QueryActivate(a) \/ QueryGet(a) \/ QueryDrop(a)
    \/ QueryInfoNone(a) \/ QueryInfo(a) \/ QueryHash(a) \/ QueryHashFatal(a)

-----------------------------------------------------------------------------
(* The handler of a TransferFile stream.                                   *)

\* The stream arrives: the notification channels of the session that the
\* client ID has at this time are taken.
HandlerStart(a) ==
    /\ phase = "serving"
    /\ HandlerMoves(a, "new", "recv")
    /\ registered' = [registered EXCEPT ![a] = ActiveFile(ClientOf[a])]
    /\ UNCHANGED <<once, currentSize, closed, writer, recvd, target>>

\* Recv of a block and TransferFunction up to the pipe: the session that the
\* client ID has now gets the block.  The first block of a session sets its
\* offset and signals the writer, which a writer that does not wait misses.
HandlerRecv(a) ==
    LET s == ActiveFile(ClientOf[a]) IN
    /\ recvd[a] < sent[a]
    /\ s # None
    /\ HandlerMoves(a, "recv", "write")
    /\ recvd' = [recvd EXCEPT ![a] = @ + 1]
    /\ target' = [target EXCEPT ![a] = s]
    /\ once' = [once EXCEPT ![s] = TRUE]
    /\ currentSize' = [currentSize EXCEPT ![s] =
                          IF once[s] THEN @ ELSE BlockOffset(a)]
    /\ writer' = [writer EXCEPT ![s] =
                     IF ~once[s] /\ @ = "waiting" THEN "woken" ELSE @]
    /\ UNCHANGED <<closed, registered>>

\* Every return of the handler closes the session its client ID has by then.
HandlerReturns(a, from, result) ==
    /\ HandlerMoves(a, from, result)
    /\ closed' = ClosedAfter(ClientOf[a])
    /\ UNCHANGED <<once, currentSize, writer, recvd, registered, target>>

HandlerNoSession(a) ==
    /\ recvd[a] < sent[a]
    /\ ActiveFile(ClientOf[a]) = None
    /\ HandlerReturns(a, "recv", "err")

FaultyHandlerEOF(a) ==
    /\ client[a] = "closed"
    /\ HandlerReturns(a, "recv", "ok")

\* The end of the stream.
HandlerEOF(a) ==
    /\ client[a] = "closed"
    /\ recvd[a] = sent[a]
    /\ HandlerReturns(a, "recv", "ok")

HandlerBroken(a) ==
    /\ broken[a]
    /\ HandlerReturns(a, "recv", "err")

\* writeChannel.Write on a closed pipe returns an error, which is not looked at.
HandlerDrop(a) ==
    /\ HandlerMoves(a, "write", "select")
    /\ closed[target[a]]
    /\ UNCHANGED <<once, currentSize, closed, writer, recvd, registered, target>>

\* The select after a block, which picks any channel that is ready.
HandlerSelectError(a) ==
    /\ ErrorReady(registered[a])
    /\ HandlerReturns(a, "select", "err")

HandlerSelectDone(a) ==
    /\ DoneReady(registered[a])
    /\ HandlerReturns(a, "select", "ok")

HandlerSelectDefault(a) ==
    /\ ~ErrorReady(registered[a]) /\ ~DoneReady(registered[a])
    /\ HandlerMoves(a, "select", "recv")
    /\ UNCHANGED <<once, currentSize, closed, writer, recvd, registered, target>>

HandlerStep(a) ==
    \/ HandlerStart(a) \/ HandlerRecv(a) \/ HandlerNoSession(a)
    \/ HandlerEOF(a) \/ HandlerBroken(a) \/ HandlerDrop(a)
    \/ HandlerSelectError(a) \/ HandlerSelectDone(a) \/ HandlerSelectDefault(a)

-----------------------------------------------------------------------------
(* startFileWriteThread of session a.                                      *)

WriterOpen(a) ==
    /\ WriterMoves(a, "start", "opened")
    /\ inode' = [inode EXCEPT ![a] = OpenedInode(a)]
    /\ dir' = [dir EXCEPT ![Path(a)] = OpenedInode(a)]
    /\ UNCHANGED <<currentSize, pos, buf, handler, fileDb, data>>

WriterFails(a, from) ==
    /\ DiskFaults
    /\ WriterMoves(a, from, "failed")
    /\ UNCHANGED <<currentSize, inode, pos, buf, handler, diskVars>>

WriterOpenFails(a) == WriterFails(a, "start")

FaultyWriterWait(a) ==
    /\ WriterMoves(a, "opened", "woken")
    /\ UNCHANGED <<currentSize, inode, pos, buf, handler, diskVars>>

\* The lock of a File is a new one in every File, so it excludes nobody: the
\* writer locks it and waits on the condition variable, with no predicate.
WriterWait(a) ==
    /\ WriterMoves(a, "opened", "waiting")
    /\ UNCHANGED <<currentSize, inode, pos, buf, handler, diskVars>>

WriterSeek(a) ==
    /\ WriterMoves(a, "woken", "copy")
    /\ pos' = [pos EXCEPT ![a] = currentSize[a]]
    /\ UNCHANGED <<currentSize, inode, buf, handler, diskVars>>

\* io.Copy reads a block that some handler is writing to the pipe.
WriterRead(a, h) ==
    /\ ~closed[a]
    /\ handler[h] = "write" /\ target[h] = a
    /\ WriterMoves(a, "copy", "write")
    /\ buf' = [buf EXCEPT ![a] = body[h][recvd[h]]]
    /\ handler' = [handler EXCEPT ![h] = "select"]
    /\ UNCHANGED <<currentSize, inode, pos, diskVars>>

WriterWrite(a) ==
    /\ WriterMoves(a, "write", "copy")
    /\ data' = [data EXCEPT ![inode[a]] = WriteAt(@, pos[a], buf[a])]
    /\ pos' = [pos EXCEPT ![a] = @ + 1]
    /\ buf' = [buf EXCEPT ![a] = None]
    /\ UNCHANGED <<currentSize, inode, handler, fileDb, dir>>

WriterWriteFails(a) == WriterFails(a, "write")

WriterEOF(a) ==
    /\ closed[a]
    /\ WriterMoves(a, "copy", "finish")
    /\ UNCHANGED <<currentSize, inode, pos, buf, handler, diskVars>>

\* currentSize grows by what io.Copy copied, the record is stored again, and
\* the done channel gets its value.
WriterPut(a) ==
    /\ WriterMoves(a, "finish", "signalled")
    /\ currentSize' = [currentSize EXCEPT ![a] = pos[a]]
    /\ StoreTakes(key[a], RecordOf(a)) \/ StoreFails
    /\ UNCHANGED <<inode, pos, buf, handler, dir, data>>

\* The deferred calls: file closed, done channel closed, error channel closed.  The
\* unlock of mux is left out, as its lock is in WriterOpen: the lock is the zero value
\* of fslock.Lock, one for each session and without a file, so that it keeps nobody out
\* (OneWriterPerFile) and its unlock lets nobody in.
WriterReturn(a) ==
    /\ \/ WriterMoves(a, "signalled", "exited")
       \/ WriterMoves(a, "failed", "aborted")
    /\ UNCHANGED <<currentSize, inode, pos, buf, handler, diskVars>>

WriterStep(a) ==
    \/ WriterOpen(a) \/ WriterOpenFails(a) \/ WriterWait(a) \/ WriterSeek(a)
    \/ \E h \in Attempts : WriterRead(a, h)
    \/ WriterWrite(a) \/ WriterWriteFails(a) \/ WriterEOF(a) \/ WriterPut(a)
    \/ WriterReturn(a)

-----------------------------------------------------------------------------
ClientStep(a) ==
    \/ Start(a) \/ QueryFailed(a) \/ Skip(a) \/ OpenStream(a)
    \/ OpenFails(a) \/ OpenStreamFails(a) \/ Send(a) \/ SendFails(a)
    \/ CloseSend(a) \/ RemoveSource(a) \/ Break(a)

Next ==
    \/ \E a \in Attempts :
          ClientStep(a) \/ QueryStep(a) \/ HandlerStep(a) \/ WriterStep(a)
    \/ Stop \/ CloseStore \/ Exit \/ Crash

Spec == Init /\ [][Next]_vars

\* Goroutines that can run do run, and a sender goes on to the end of its
\* stream.  Nothing is assumed of new jobs, of breaking connections, of
\* signals, or of the choice that opens a stream.
Fairness ==
    \A a \in Attempts :
        /\ WF_vars(Send(a) \/ SendFails(a) \/ CloseSend(a))
        /\ WF_vars(QueryStep(a))
        /\ WF_vars(HandlerStep(a))
        /\ WF_vars(WriterStep(a))

FairSpec == Spec /\ Fairness

-----------------------------------------------------------------------------
(* Properties that hold                                                    *)

\* A writer that got past its wait was woken by a first block, whose offset is
\* the lowest position it writes at: it never seeks with the size that was on
\* the File object before (server.go:212-215 against 295-312).
OffsetSetBeforeCopy ==
    \A a \in Attempts :
        /\ writer[a] \in {"woken", "copy", "write", "finish", "signalled",
                         "exited"} => once[a]
        /\ writer[a] \in {"copy", "write"} => currentSize[a] <= pos[a]

\* A file that is visible at its path is known to the store under the hash its
\* creator was queried with, whatever crashes and other calls come in between:
\* a later query of that content resumes and does not remove the file
\* (server.go:102-112 and 139-140).  The one way to a file without a record is a
\* Put that failed for the file's creator (PutAddsRecord); excepted are records of
\* sources with modification time 0 or none at all, which cannot be read back and
\* are deleted.
RecordBeforeFile ==
    \A p \in Paths :
        dir[p] # None /\ key[dir[p]] \notin Undated
            => dir[p] \in unrecorded \/ fileDb[key[dir[p]]] # "absent"

\* No attempt but a has used a's client ID, or the file that a created.
Sole(a) ==
    /\ inode[a] = a
    /\ \A b \in Attempts \ {a} :
          inode[b] # a /\ (ClientOf[b] = ClientOf[a] => client[b] = "idle")

\* At every moment, after a crash too, the file of a lone attempt is a prefix of
\* what its client streams: no hole, no block twice, none out of order
\* (server.go:205-218 and 300-312).
SolePrefix ==
    \A a \in Attempts : Sole(a) =>
        /\ data[a] # << >> => Len(data[a]) <= Len(body[a])
        /\ \A i \in 1..Len(data[a]) : data[a][i] = body[a][i]

\* A lone attempt whose stream got its empty answer and whose writer is done is
\* on disk as a whole: neither the handler nor the closing of the pipe
\* overtakes a block (torrxferclientconnection.go:72-101, server.go:312-327).
SoleTransferStored ==
    \A a \in Attempts :
        Sole(a) /\ handler[a] = "ok" /\ ~broken[a] /\ writer[a] = "exited"
            => data[a] = body[a]

\* What is in a file was streamed for its path: streams of other clients never
\* get into it, whichever sessions they replace (server.go:205-218, 260-267).
PathIsolation ==
    \A i \in Attempts : \A k \in 1..Len(data[i]) :
        \/ data[i][k] = Hole
        \/ \E b \in Attempts : /\ Path(b) = Path(i)
                                /\ body[b] # None
                                /\ \E j \in 1..Len(body[b]) :
                                      data[i][k] = body[b][j]

\* A query primes the server (proto/server.proto:6-7): as long as the process
\* lives, the stream of the content that was queried, and is not there as a
\* whole, finds a session.
QueryPrimesSession ==
    \A a \in Attempts :
        handler[a] = "recv" /\ body[a] = key[a] /\ reply[a].hash # key[a]
            /\ crashes = 0 /\ stops = 0 /\ ~fatal
            => ActiveFile(ClientOf[a]) # None

\* Once woken, the writer of a client that has one attempt comes to its end: it
\* reads every block and the handler's return closes its pipe, whether the
\* stream ends, breaks or is refused (server.go:312-327).
WokenWriterEnds ==
    \A a \in Attempts :
        writer[a] = "woken" ~> writer[a] \in {"exited", "aborted", "dead"}

\* The content at each path, and the blocks that the sources of a path have.
Files == [p \in Paths |-> IF dir[p] = None THEN None ELSE data[dir[p]]]
Payload == [p \in Paths |->
               UNION {{v[i] : i \in 1..Len(v)} : v \in LocalVersions[p]}]

Media == INSTANCE MediaDirectory WITH files <- Files, Payload <- Payload

\* The server implements MediaDirectory.  Whichever sessions of a client replace
\* each other, and however late their writers are, a path gets blocks of its own
\* sources only, one at a time, its file is never cut, and a file that comes
\* after a removed one begins empty (server.go:105-112, 278-312).
ImplementsMediaDirectory == Media!Spec

-----------------------------------------------------------------------------
(* What comments of the repository say, and the code does not keep to      *)

\* "Wait for Transfer func to get called first and set offset"
\* (server.go:295): once that has happened, the wait ends.
FirstBlockEndsWait ==
    \A a \in Attempts :
        once[a] ~> writer[a] \notin {"start", "opened", "waiting"}

\* "Lock file on filesystem for writing" (server.go:291): one writer at a time
\* holds a file between its lock and its return.
OneWriterPerFile ==
    \A a, b \in Attempts :
        /\ a # b
        /\ {writer[a], writer[b]} \subseteq {"waiting", "woken", "copy", "write"}
        => inode[a] # inode[b]

\* "If a file is partially transmitted, the FileSummary will include the amount
\* of data already recorded" (proto/server.proto:15).
PartialSizeReported ==
    [][\A a \in Attempts :
          reply'[a] # reply[a] /\ dir[Path(a)] # None
              => reply'[a].sizeOnDisk = Len(data[dir[Path(a)]])]_vars

\* "Writes the file bytes at the specified offset to the currently active file
\* for the clientID" (server.go:204): a block leaves the handler only to the
\* writer, unless the server is stopping or the stream broke.
BlockGoesToWriter ==
    [][\A h \in Attempts :
          /\ handler[h] = "write" /\ handler'[h] = "select"
          /\ phase = "serving" /\ ~broken[h]
          => \E w \in Attempts : writer[w] = "copy" /\ writer'[w] = "write"]_vars

\* "This function can be called on files that don't exist"
\* (pkg/net/file.go:22): the server does not end because of one.
QueryNeverFatal == ~fatal

\* "Brand new file [...] If a file with the name exists, remove it"
\* (server.go:101 and 105): a file is removed only for a hash that is new.
RemovesOnlyForNewHash ==
    [][\A a \in Attempts :
          query[a] = "remove" /\ dir[Path(a)] # None /\ dir'[Path(a)] = None
              => fileDb[key[a]] = "absent"]_vars

\* "Add file to file DB" (server.go:113): after the Put the record is there.
PutAddsRecord ==
    [][\A a \in Attempts :
          query[a] = "put" /\ query'[a] = "activate"
              => fileDb'[key[a]] = "good"]_vars

\* Nothing is under way any more for the file at path p.
Settled(p) ==
    \A a \in Attempts : Path(a) = p =>
        /\ client[a] \notin {"query", "sending"}
        /\ ~InFlight(a)
        /\ writer[a] \in {"none", "exited", "aborted", "dead"}

\* "If `DeleteFileOnComplete` is set, once the file is transferred it will be
\* deleted" (README.md:186): a source that was deleted is whole on the server.
DeletedIsTransferred ==
    \A p \in removed : Settled(p) =>
        dir[p] # None /\ data[dir[p]] \in LocalVersions[p]

\* "copy/move torrent downloads" (README.md:21): the server does not delete a
\* whole copy whose source was removed.
OnlyCopyKept ==
    [][\A p \in Paths :
          p \in removed /\ dir[p] # None /\ data[dir[p]] \in LocalVersions[p]
              => dir'[p] # None]_vars
=============================================================================
