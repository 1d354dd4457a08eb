---------------------------- MODULE TransferJobs ----------------------------
(***************************************************************************)
(* The client's transfer jobs: transferToServers and the notifier of every *)
(* job (client.go), the dispatcher and its workers (clientqueue.go,        *)
(* worker.go), the goroutine that sends a stream                           *)
(* (torrxferserverconnection.go), the goroutine that sums up its           *)
(* notifications, the lock and the progress of a server connection, the    *)
(* subscribers, and the shutdown.                                          *)
(*                                                                         *)
(* A job is a file for a server.  A retry is the same job; every time a    *)
(* worker takes a job is a run, and the runs are numbered.  The server is  *)
(* outside: a query has any answer, a stream may break at any block.       *)
(***************************************************************************)
EXTENDS Naturals, Sequences, FiniteSets

CONSTANTS
    Jobs,           \* what transferToServers makes: a file for a server
    Servers,
    ServerOf,       \* [Jobs -> Servers]
    Files,
    FileOf,         \* [Jobs -> Files]
    None,           \* no job
    Blocks,         \* number of blocks of a file
    Workers,        \* of the pool: 5
    QueueCap,       \* capacity of jobQueue: 100
    SubscriberCap,  \* capacity of a subscriber's channel: 500
    Subscribers,    \* number of registered subscribers
    Lockers,        \* those that read the connection at progress: main.go, ui.go
    MaxRuns,        \* bound: number of runs
    DeleteOnComplete,
    NetworkFaults,  \* may calls and streams fail?
    LocalFaults,    \* may opening and reading a source file fail?
    MayClose        \* may the client get a signal?

Runs == 1..MaxRuns

ASSUME JobConstants ==
    /\ ServerOf \in [Jobs -> Servers]
    /\ FileOf \in [Jobs -> Files]
    /\ None \notin Jobs
    /\ Blocks \in Nat
    /\ QueueCap \in Nat \ {0}
    /\ SubscriberCap \in Nat \ {0}
    /\ Subscribers \in Nat
    /\ Lockers \subseteq 1..Subscribers
    /\ MaxRuns \in Nat
    /\ DeleteOnComplete \in BOOLEAN
    /\ NetworkFaults \in BOOLEAN
    /\ LocalFaults \in BOOLEAN
    /\ MayClose \in BOOLEAN

VARIABLES
    \* the queue, the dispatcher and the pool
    pending,    \* jobs that transferToServers has not made yet
    jobQueue,   \* Seq of jobs
    fetching,   \* [Jobs -> number of goroutines that wait for a worker]
    pool,       \* Seq of workers: whose job queues are in workerPool
    handed,     \* [Workers -> job that a goroutine is sending it, or None]
    \* workers
    worker,     \* where the worker is
    run,        \* the run it is doing or did last, 0 at first
    \* runs
    started,    \* number of runs so far
    jobOf,      \* [Runs -> job or None]
    copied,     \* blocks that io.Copy wrote to the pipe
    sent,       \* blocks that stream.Send took
    ended,      \* is the write end of the pipe closed?
    sender,     \* where the goroutine of TransferFile is
    summary,    \* where the goroutine that ranges over its channel is
    outcome,    \* set of "error" and "completed": what was notified of the run
    \* jobs
    notifier,   \* where the goroutine of transferToServers is
    carrying,   \* the notification it has
    next,       \* index of the subscriber it sends to
    status,     \* fileTransferStatus of the job's server and file, in blocks
    removed,    \* files that were removed on completion
    \* subscribers
    inbox,      \* [1..Subscribers -> Seq of notifications]
    reading,    \* the job whose connection it is about to read, or None
    \* the process
    phase       \* open, unsubscribed, closed; exited, panicked or fatal

queueVars  == <<pending, jobQueue, fetching, pool, handed>>
workerVars == <<worker, run>>
runVars    == <<started, jobOf, copied, sent, ended, sender, summary, outcome>>
jobVars    == <<notifier, carrying, next, status, removed>>
inboxVars  == <<inbox, reading>>
vars == <<queueVars, workerVars, runVars, jobVars, inboxVars, phase>>

Types == {"error", "completed", "updated", "fatal"}

TypeOK ==
    /\ pending \subseteq Jobs
    /\ jobQueue \in Seq(Jobs) /\ Len(jobQueue) <= QueueCap
    /\ fetching \in [Jobs -> Nat]
    /\ pool \in Seq(Workers)
    /\ handed \in [Workers -> Jobs \cup {None}]
    /\ worker \in [Workers -> {"ready", "waiting", "query", "queryError", "same",
                               "sameLocked", "open", "seekFatal", "stream",
                               "status", "copy", "copyError", "exited"}]
    /\ run \in [Workers -> 0..MaxRuns]
    /\ started \in 0..MaxRuns
    /\ jobOf \in [Runs -> Jobs \cup {None}]
    /\ copied \in [Runs -> 0..Blocks]
    /\ sent \in [Runs -> 0..Blocks]
    /\ ended \in [Runs -> BOOLEAN]
    /\ sender \in [Runs -> {"none", "open", "read", "send", "bytes", "eof",
                            "openError", "sendError", "recv", "done", "left"}]
    /\ summary \in [Runs -> {"none", "range", "lock", "updated", "error",
                             "completed", "done"}]
    /\ outcome \in [Runs -> SUBSET {"error", "completed"}]
    /\ notifier \in [Jobs -> {"none", "range", "requeue", "remove", "push"}]
    /\ carrying \in [Jobs -> Types \cup {"none"}]
    /\ next \in [Jobs -> Nat]
    /\ status \in [Jobs -> Nat]
    /\ removed \subseteq Files
    /\ inbox \in [1..Subscribers -> Seq([type : Types, job : Jobs])]
    /\ \A i \in 1..Subscribers : Len(inbox[i]) <= SubscriberCap
    /\ reading \in [1..Subscribers -> Jobs \cup {None}]
    /\ phase \in {"open", "unsubscribed", "closed", "exited", "panicked", "fatal"}

Init ==
    /\ pending = Jobs
    /\ jobQueue = << >>
    /\ fetching = [j \in Jobs |-> 0]
    /\ pool = << >>
    /\ handed = [w \in Workers |-> None]
    /\ worker = [w \in Workers |-> "ready"]
    /\ run = [w \in Workers |-> 0]
    /\ started = 0
    /\ jobOf = [r \in Runs |-> None]
    /\ copied = [r \in Runs |-> 0]
    /\ sent = [r \in Runs |-> 0]
    /\ ended = [r \in Runs |-> FALSE]
    /\ sender = [r \in Runs |-> "none"]
    /\ summary = [r \in Runs |-> "none"]
    /\ outcome = [r \in Runs |-> {}]
    /\ notifier = [j \in Jobs |-> "none"]
    /\ carrying = [j \in Jobs |-> "none"]
    /\ next = [j \in Jobs |-> 0]
    /\ status = [j \in Jobs |-> 0]
    /\ removed = {}
    /\ inbox = [i \in 1..Subscribers |-> << >>]
    /\ reading = [i \in 1..Subscribers |-> None]
    /\ phase = "open"

-----------------------------------------------------------------------------
(* Helpers.  A definition whose name begins with "Faulty" is the one below  *)
(* it with a plausible mistake; nothing uses it.                            *)

Job(w) == jobOf[run[w]]

\* Goroutines that hold the lock of a server's connection while they wait for
\* the notifier.
LockingWorkers(s) ==
    {w \in Workers : worker[w] = "sameLocked" /\ ServerOf[Job(w)] = s}

LockingRuns(s) ==
    {r \in Runs : summary[r] = "updated" /\ ServerOf[jobOf[r]] = s}

Unlocked(s) == LockingWorkers(s) = {} /\ LockingRuns(s) = {}

\* sendConnectionNotification: the notifier of job j takes the notification.
Notifies(j, type) ==
    /\ notifier[j] = "range"
    /\ carrying' = [carrying EXCEPT ![j] = type]
    /\ notifier' = [notifier EXCEPT ![j] =
                       IF type = "error" THEN "requeue"
                       ELSE IF type = "completed" /\ DeleteOnComplete THEN "remove"
                       ELSE "push"]
    /\ next' = [next EXCEPT ![j] = 1]

-----------------------------------------------------------------------------
(* transferToServers, the dispatcher and the pool.                         *)

\* A job is made and queued, and its notifier started.
Submit(j) ==
    /\ j \in pending
    /\ phase \in {"open", "unsubscribed"}
    /\ Len(jobQueue) < QueueCap
    /\ pending' = pending \ {j}
    /\ jobQueue' = Append(jobQueue, j)
    /\ notifier' = [notifier EXCEPT ![j] = "range"]
    /\ UNCHANGED <<fetching, pool, handed, workerVars, runVars, carrying, next,
                   status, removed, inboxVars, phase>>

\* The dispatcher starts a goroutine for every job.
Dispatch ==
    /\ jobQueue # << >>
    /\ jobQueue' = Tail(jobQueue)
    /\ fetching' = [fetching EXCEPT ![Head(jobQueue)] = @ + 1]
    /\ UNCHANGED <<pending, pool, handed, workerVars, runVars, jobVars, inboxVars,
                   phase>>

FaultyFetch(j) ==
    /\ fetching[j] > 0
    /\ pool # << >>
    /\ fetching' = [fetching EXCEPT ![j] = @ - 1]
    /\ handed' = [handed EXCEPT ![Head(pool)] = j]
    /\ UNCHANGED <<pending, jobQueue, pool, workerVars, runVars, jobVars, inboxVars,
                   phase>>

\* The goroutine takes the job queue of a worker.
Fetch(j) ==
    /\ fetching[j] > 0
    /\ pool # << >>
    /\ fetching' = [fetching EXCEPT ![j] = @ - 1]
    /\ handed' = [handed EXCEPT ![Head(pool)] = j]
    /\ pool' = Tail(pool)
    /\ UNCHANGED <<pending, jobQueue, workerVars, runVars, jobVars, inboxVars,
                   phase>>

\* jobQueue is closed and empty: the dispatcher closes the job queue of every
\* worker in the pool, also if goroutines still wait for one.
CloseWorker ==
    /\ phase = "closed"
    /\ jobQueue = << >>
    /\ pool # << >>
    /\ worker' = [worker EXCEPT ![Head(pool)] = "exited"]
    /\ pool' = Tail(pool)
    /\ UNCHANGED <<pending, jobQueue, fetching, handed, run, runVars, jobVars,
                   inboxVars, phase>>

-----------------------------------------------------------------------------
(* The worker: start and doFileTransferJob.                                *)

WorkerMoves(w, from, to) ==
    /\ worker[w] = from
    /\ worker' = [worker EXCEPT ![w] = to]
    /\ UNCHANGED <<pending, jobQueue, fetching, removed, inboxVars, phase>>

FaultyReady(w) ==
    /\ WorkerMoves(w, "ready", "waiting")
    /\ pool' = IF run[w] = 0 THEN Append(pool, w) ELSE pool
    /\ UNCHANGED <<handed, run, runVars, notifier, carrying, next, status>>

\* Its job queue goes to the pool, which has room for all workers.
Ready(w) ==
    /\ WorkerMoves(w, "ready", "waiting")
    /\ pool' = Append(pool, w)
    /\ UNCHANGED <<handed, run, runVars, notifier, carrying, next, status>>

\* It receives a job, and a run begins.
Take(w) ==
    /\ handed[w] # None
    /\ started < MaxRuns
    /\ WorkerMoves(w, "waiting", "query")
    /\ started' = started + 1
    /\ run' = [run EXCEPT ![w] = started']
    /\ jobOf' = [jobOf EXCEPT ![started'] = handed[w]]
    /\ handed' = [handed EXCEPT ![w] = None]
    /\ UNCHANGED <<pool, copied, sent, ended, sender, summary, outcome, notifier,
                   carrying, next, status>>

\* A step of the worker that touches nothing else.
Goes(w, from, to) ==
    /\ WorkerMoves(w, from, to)
    /\ UNCHANGED <<pool, handed, run, runVars, notifier, carrying, next, status>>

\* QueryFile, and what its answer leads to.
QueryFails(w)    == NetworkFaults /\ Goes(w, "query", "queryError")
QuerySame(w)     == Goes(w, "query", "same")
QueryDiffers(w)  == Goes(w, "query", "open")

\* The file is there already: the status is set under the lock, which is held
\* until the notifier has taken the notification.
LockSame(w) ==
    /\ WorkerMoves(w, "same", "sameLocked")
    /\ Unlocked(ServerOf[Job(w)])
    /\ status' = [status EXCEPT ![Job(w)] = Blocks]
    /\ UNCHANGED <<pool, handed, run, runVars, notifier, carrying, next>>

\* The source file is opened.  If it cannot be, the job ends without a word.
OpenFails(w) ==
    /\ Goes(w, "open", "ready")
    /\ LocalFaults \/ FileOf[Job(w)] \in removed

Open(w) ==
    /\ Goes(w, "open", "stream")
    /\ FileOf[Job(w)] \notin removed

\* Seek fails, which is notified, and the job goes on.
SeekFails(w) ==
    /\ LocalFaults
    /\ Goes(w, "open", "seekFatal")
    /\ FileOf[Job(w)] \notin removed

\* TransferFile starts the sender and returns at once, never with an error.
Stream(w) ==
    /\ WorkerMoves(w, "stream", "status")
    /\ sender' = [sender EXCEPT ![run[w]] = "open"]
    /\ UNCHANGED <<pool, handed, run, started, jobOf, copied, sent, ended, summary,
                   outcome, notifier, carrying, next, status>>

\* The status is set to the offset, 0, and the goroutine that sums up starts.
SetStatus(w) ==
    /\ WorkerMoves(w, "status", "copy")
    /\ Unlocked(ServerOf[Job(w)])
    /\ status' = [status EXCEPT ![Job(w)] = 0]
    /\ summary' = [summary EXCEPT ![run[w]] = "range"]
    /\ UNCHANGED <<pool, handed, run, started, jobOf, copied, sent, ended, sender,
                   outcome, notifier, carrying, next>>

\* io.Copy: a block goes through the pipe when the sender reads.
Copy(w) ==
    LET r == run[w] IN
    /\ WorkerMoves(w, "copy", "copy")
    /\ copied[r] < Blocks
    /\ sender[r] = "read"
    /\ copied' = [copied EXCEPT ![r] = @ + 1]
    /\ sender' = [sender EXCEPT ![r] = "send"]
    /\ UNCHANGED <<pool, handed, run, started, jobOf, sent, ended, summary, outcome,
                   notifier, carrying, next, status>>

\* The file cannot be read on, or the sender has closed its end of the pipe.
CopyFails(w) ==
    /\ Goes(w, "copy", "copyError")
    /\ \/ LocalFaults
       \/ copied[run[w]] < Blocks /\ sender[run[w]] \in {"recv", "done"}

\* The end of the file; the write end of the pipe is closed.
CopyEnds(w) ==
    /\ WorkerMoves(w, "copy", "ready")
    /\ copied[run[w]] = Blocks
    /\ ended' = [ended EXCEPT ![run[w]] = TRUE]
    /\ UNCHANGED <<pool, handed, run, started, jobOf, copied, sent, sender, summary,
                   outcome, notifier, carrying, next, status>>

\* The notifications of the worker, and where it goes on.
WorkerNotifies(w, from, type, to) ==
    /\ WorkerMoves(w, from, to)
    /\ Notifies(Job(w), type)
    /\ outcome' = [outcome EXCEPT ![run[w]] = @ \cup ({type} \cap {"error", "completed"})]
    /\ ended' = [ended EXCEPT ![run[w]] = @ \/ from = "copyError"]
    /\ UNCHANGED <<pool, handed, run, started, jobOf, copied, sent, sender, summary,
                   status>>

QueryError(w) == WorkerNotifies(w, "queryError", "error", "ready")
FaultySame(w) == WorkerNotifies(w, "sameLocked", "completed", "open")
Same(w)       == WorkerNotifies(w, "sameLocked", "completed", "ready")
SeekFatal(w)  == WorkerNotifies(w, "seekFatal", "fatal", "stream")
CopyError(w)  == WorkerNotifies(w, "copyError", "error", "ready")

WorkerStep(w) ==
    \/ Ready(w) \/ Take(w) \/ QueryFails(w) \/ QuerySame(w) \/ QueryDiffers(w)
    \/ LockSame(w) \/ OpenFails(w) \/ Open(w) \/ SeekFails(w) \/ Stream(w)
    \/ SetStatus(w) \/ Copy(w) \/ CopyFails(w) \/ CopyEnds(w)
    \/ QueryError(w) \/ Same(w) \/ SeekFatal(w) \/ CopyError(w)

-----------------------------------------------------------------------------
(* The goroutine of TransferFile for run r.                                *)

SenderMoves(r, from, to) ==
    /\ sender[r] = from
    /\ sender' = [sender EXCEPT ![r] = to]
    /\ UNCHANGED <<queueVars, workerVars, started, jobOf, copied, ended, summary,
                   outcome, jobVars, inboxVars, phase>>

OpenStream(r) == SenderMoves(r, "open", "read") /\ sent' = sent

OpenStreamFails(r) ==
    /\ NetworkFaults
    /\ SenderMoves(r, "open", "openError")
    /\ sent' = sent

Send(r) ==
    /\ SenderMoves(r, "send", "bytes")
    /\ sent' = [sent EXCEPT ![r] = @ + 1]

FaultySendFails(r) ==
    /\ NetworkFaults
    /\ SenderMoves(r, "send", "read")
    /\ sent' = sent

SendFails(r) ==
    /\ NetworkFaults
    /\ SenderMoves(r, "send", "sendError")
    /\ sent' = sent

\* The pipe is closed and empty.
ReadEnds(r) ==
    /\ ended[r]
    /\ SenderMoves(r, "read", "eof")
    /\ sent' = sent

\* CloseAndRecv returns, whatever it returns, and the channel is closed.
Received(r) == SenderMoves(r, "recv", "done") /\ sent' = sent

SenderStep(r) ==
    \/ OpenStream(r) \/ OpenStreamFails(r) \/ Send(r) \/ SendFails(r)
    \/ ReadEnds(r) \/ Received(r)

-----------------------------------------------------------------------------
(* The goroutine of doFileTransferJob that ranges over the sender's channel. *)

SummaryMoves(r, from, to) ==
    /\ summary[r] = from
    /\ summary' = [summary EXCEPT ![r] = to]
    /\ UNCHANGED <<queueVars, workerVars, started, jobOf, copied, sent, ended,
                   removed, inboxVars, phase>>

\* The sender hands over a notification and goes on.  After an error in opening
\* the stream it returns, and closes neither its channel nor its end of the
\* pipe; at its other ends it closes the pipe first of all.
TakesFrom(r, from, to, taken) ==
    /\ sender[r] = from
    /\ sender' = [sender EXCEPT ![r] = to]
    /\ SummaryMoves(r, "range", taken)
    /\ UNCHANGED <<outcome, notifier, carrying, next, status>>

TakeOpenError(r) == TakesFrom(r, "openError", "left", "error")
FaultyTakeSendErrorAgain(r) == TakesFrom(r, "sendError", "sendError", "error")
FaultyTakeSendError(r) == TakesFrom(r, "sendError", "recv", "range")
TakeSendError(r) == TakesFrom(r, "sendError", "recv", "error")
TakeBytes(r)     == TakesFrom(r, "bytes", "read", "lock")
TakeClosed(r)    == TakesFrom(r, "eof", "recv", "completed")

\* A block counts under the lock, which is held until the notifier has taken
\* the notification.
CountBlock(r) ==
    /\ SummaryMoves(r, "lock", "updated")
    /\ Unlocked(ServerOf[jobOf[r]])
    /\ status' = [status EXCEPT ![jobOf[r]] = @ + 1]
    /\ UNCHANGED <<sender, outcome, notifier, carrying, next>>

SummaryNotifies(r, from, type) ==
    /\ SummaryMoves(r, from, "range")
    /\ Notifies(jobOf[r], type)
    /\ outcome' = [outcome EXCEPT ![r] = @ \cup ({type} \cap {"error", "completed"})]
    /\ UNCHANGED <<sender, status>>

Updated(r)       == SummaryNotifies(r, "updated", "updated")
TransferError(r) == SummaryNotifies(r, "error", "error")
Completed(r)     == SummaryNotifies(r, "completed", "completed")

SummaryEnds(r) ==
    /\ sender[r] = "done"
    /\ SummaryMoves(r, "range", "done")
    /\ UNCHANGED <<sender, outcome, notifier, carrying, next, status>>

SummaryStep(r) ==
    \/ TakeOpenError(r) \/ TakeSendError(r) \/ TakeBytes(r) \/ TakeClosed(r)
    \/ CountBlock(r) \/ Updated(r) \/ TransferError(r) \/ Completed(r)
    \/ SummaryEnds(r)

-----------------------------------------------------------------------------
(* The notifier of job j.                                                  *)

NotifierMoves(j, from, to) ==
    /\ notifier[j] = from
    /\ notifier' = [notifier EXCEPT ![j] = to]
    /\ UNCHANGED <<pending, fetching, pool, handed, workerVars, runVars, status,
                   reading, carrying>>

\* After an error the job is queued again.
Requeue(j) ==
    /\ phase # "closed"
    /\ Len(jobQueue) < QueueCap
    /\ NotifierMoves(j, "requeue", "range")
    /\ jobQueue' = Append(jobQueue, j)
    /\ UNCHANGED <<next, removed, inbox, phase>>

\* After completion the source file is removed, if so configured.
Remove(j) ==
    /\ NotifierMoves(j, "remove", "push")
    /\ removed' = removed \cup {FileOf[j]}
    /\ UNCHANGED <<jobQueue, next, inbox, phase>>

FaultyPush(j) ==
    /\ phase = "open"
    /\ next[j] <= Subscribers
    /\ NotifierMoves(j, "push", "push")
    /\ inbox' = [inbox EXCEPT ![next[j]] =
                    Append(@, [type |-> carrying[j], job |-> j])]
    /\ next' = [next EXCEPT ![j] = @ + 1]
    /\ UNCHANGED <<jobQueue, removed, phase>>

\* Every subscriber in turn gets the notification.
Push(j) ==
    /\ phase = "open"
    /\ next[j] <= Subscribers
    /\ NotifierMoves(j, "push", "push")
    /\ Len(inbox[next[j]]) < SubscriberCap
    /\ inbox' = [inbox EXCEPT ![next[j]] =
                    Append(@, [type |-> carrying[j], job |-> j])]
    /\ next' = [next EXCEPT ![j] = @ + 1]
    /\ UNCHANGED <<jobQueue, removed, phase>>

Pushed(j) ==
    /\ next[j] > Subscribers
    /\ NotifierMoves(j, "push", "range")
    /\ UNCHANGED <<jobQueue, next, removed, inbox, phase>>

\* A send on a channel that the shutdown has closed ends the process.
SendPanics(j) ==
    /\ \/ phase = "closed" /\ NotifierMoves(j, "requeue", "requeue")
       \/ /\ phase \in {"unsubscribed", "closed"}
          /\ next[j] <= Subscribers
          /\ NotifierMoves(j, "push", "push")
    /\ phase' = "panicked"
    /\ UNCHANGED <<jobQueue, next, removed, inbox>>

SubmitPanics(j) ==
    /\ phase = "closed"
    /\ j \in pending
    /\ phase' = "panicked"
    /\ UNCHANGED <<queueVars, workerVars, runVars, jobVars, inboxVars>>

NotifierStep(j) ==
    Requeue(j) \/ Remove(j) \/ Push(j) \/ Pushed(j) \/ SendPanics(j)

-----------------------------------------------------------------------------
(* Subscribers and the shutdown.                                           *)

\* A subscriber takes a notification; main.go and ui.go then read the progress
\* of the connection.
Receive(i) ==
    /\ reading[i] = None
    /\ inbox[i] # << >>
    /\ inbox' = [inbox EXCEPT ![i] = Tail(@)]
    /\ reading' = [reading EXCEPT ![i] =
                      IF i \in Lockers /\ Head(inbox[i]).type = "updated"
                      THEN Head(inbox[i]).job ELSE None]
    /\ UNCHANGED <<queueVars, workerVars, runVars, jobVars, phase>>

\* It does so under the read lock.
ReadStatus(i) ==
    /\ reading[i] # None
    /\ Unlocked(ServerOf[reading[i]])
    /\ reading' = [reading EXCEPT ![i] = None]
    /\ UNCHANGED <<queueVars, workerVars, runVars, jobVars, inbox, phase>>

\* The signal: the subscribers' channels are closed, then jobQueue.  The code closes
\* one channel after the other; here none takes a notification once the first is closed.
CloseSubscribers ==
    /\ MayClose
    /\ phase = "open"
    /\ phase' = "unsubscribed"
    /\ UNCHANGED <<queueVars, workerVars, runVars, jobVars, inboxVars>>

CloseQueue ==
    /\ phase = "unsubscribed"
    /\ phase' = "closed"
    /\ UNCHANGED <<queueVars, workerVars, runVars, jobVars, inboxVars>>

\* The subscriber of main.go has drained its channel, and main returns.
Exit(i) ==
    /\ i \in Lockers
    /\ phase \in {"unsubscribed", "closed"}
    /\ inbox[i] = << >> /\ reading[i] = None
    /\ phase' = "exited"
    /\ UNCHANGED <<queueVars, workerVars, runVars, jobVars, inboxVars>>

\* The source is there but cannot be hashed: log.Fatal in NewFile.
HashFatal(w) ==
    /\ LocalFaults
    /\ worker[w] = "query"
    /\ phase' = "fatal"
    /\ UNCHANGED <<queueVars, workerVars, runVars, jobVars, inboxVars>>

SubscriberStep(i) == Receive(i) \/ ReadStatus(i)

Alive == phase \notin {"exited", "panicked", "fatal"}

Next ==
    /\ Alive
    /\ \/ \E j \in Jobs :
             Submit(j) \/ Fetch(j) \/ NotifierStep(j) \/ SubmitPanics(j)
       \/ Dispatch \/ CloseWorker
       \/ \E w \in Workers : WorkerStep(w) \/ HashFatal(w)
       \/ \E r \in 1..started : SenderStep(r) \/ SummaryStep(r)
       \/ \E i \in 1..Subscribers : SubscriberStep(i) \/ Exit(i)
       \/ CloseSubscribers \/ CloseQueue

Spec == Init /\ [][Next]_vars

\* Goroutines that can run do run, the calls of the server return, and the
\* subscribers drain their channels.  Nothing is assumed of new jobs and of the
\* signal.
Fairness ==
    /\ WF_vars(Alive /\ Dispatch)
    /\ \A j \in Jobs : /\ WF_vars(Alive /\ Fetch(j))
                       /\ WF_vars(Alive /\ NotifierStep(j))
    /\ \A w \in Workers : WF_vars(Alive /\ WorkerStep(w))
    /\ \A r \in Runs : /\ WF_vars(Alive /\ r <= started /\ SenderStep(r))
                       /\ WF_vars(Alive /\ r <= started /\ SummaryStep(r))
    /\ \A i \in 1..Subscribers : WF_vars(Alive /\ SubscriberStep(i))

FairSpec == Spec /\ Fairness

-----------------------------------------------------------------------------
(* Properties that hold                                                    *)

\* Is the job queue of worker w in the pool?
InPool(w) == \E i \in 1..Len(pool) : pool[i] = w

\* A worker waits for a job exactly if its job queue is in the pool or a goroutine
\* is about to send it a job, and never both, nor twice in the pool: no goroutine
\* sends to a worker that is busy, or to a job queue that the dispatcher has
\* closed under it (clientqueue.go:35-43, worker.go:171-181).
OneToken ==
    /\ \A i, k \in 1..Len(pool) : pool[i] = pool[k] => i = k
    /\ \A w \in Workers :
          /\ worker[w] = "waiting" <=> InPool(w) \/ handed[w] # None
          /\ InPool(w) => handed[w] = None

\* Where a run is still to end in a notification.
Undecided(r) ==
    \/ \E w \in Workers : /\ run[w] = r
                          /\ worker[w] \in {"query", "queryError", "same",
                                  "sameLocked", "open", "seekFatal", "stream",
                                  "status"}
    \/ sender[r] \in {"open", "read", "send", "bytes", "eof", "openError",
                      "sendError"}
    \/ summary[r] \in {"error", "completed"}

\* A job is queued, or on its way to a worker, or in a run that has not ended, or
\* about to be queued again, or completed.
Tracked(j) ==
    \/ \E i \in 1..Len(jobQueue) : jobQueue[i] = j
    \/ fetching[j] > 0
    \/ \E w \in Workers : handed[w] = j
    \/ notifier[j] = "requeue"
    \/ \E r \in Runs : jobOf[r] = j /\ ("completed" \in outcome[r] \/ Undecided(r))

\* A job that was made is not lost, however calls, streams and reads fail and the
\* client is stopped: the only step that drops one is the failing open of its file
\* (client.go:192-201, clientqueue.go:32-39, worker.go:74-79).
JobNotLost ==
    [][\A j \in Jobs :
          j \notin pending /\ Tracked(j) =>
              \/ Tracked(j)'
              \/ \E w \in Workers : /\ worker[w] = "open" /\ worker'[w] = "ready"
                                    /\ Job(w) = j]_vars

\* What will be a run of job j: its places in the queue, the goroutines that have
\* it, and the retry that its notifier is about to queue.
Waiting(j) ==
    Cardinality({i \in 1..Len(jobQueue) : jobQueue[i] = j})
    + fetching[j]
    + Cardinality({w \in Workers : handed[w] = j})
    + (IF notifier[j] = "requeue" THEN 1 ELSE 0)

\* A failure may be notified by the sender and by the worker, and each queues the
\* job again, but a run adds no more than these two, so that the queue of a job
\* grows by at most one with every run (client.go:196-201, worker.go:121-151).
RetriesBounded ==
    \A j \in Jobs :
        Waiting(j) <= 1 + Cardinality({r \in Runs : jobOf[r] = j})

\* Is a worker at run r?
Attended(r) ==
    \E w \in Workers : run[w] = r /\ worker[w] \notin {"ready", "waiting", "exited"}

\* The runs of job j that are to be decided, and those that have a worker.
Deciding(j) == Cardinality({r \in Runs : jobOf[r] = j /\ Undecided(r)})
Working(j) == Cardinality({r \in Runs : jobOf[r] = j /\ Attended(r)})

Queue == INSTANCE JobQueue WITH
    made <- Jobs \ pending,
    waiting <- [j \in Jobs |-> Waiting(j)],
    deciding <- [j \in Jobs |-> Deciding(j)],
    working <- [j \in Jobs |-> Working(j)],
    completed <- {j \in Jobs :
                     \E r \in Runs : jobOf[r] = j /\ "completed" \in outcome[r]}

\* The client implements JobQueue.  However its goroutines pass a job on, a run is
\* decided once, a turn comes from a failure and a failure from a run, whichever of
\* worker and sender sees it, and a source is removed after a completed run of a job
\* of it (client.go:192-206, clientqueue.go:31-44, worker.go:36-162,
\* torrxferserverconnection.go:117-186).
ImplementsJobQueue == Queue!Spec

\* A run that was notified as completed has sent all that was read of its file, or
\* found it on the server; and if that was not the whole file, then the failure to
\* read was notified as well, which queues the job again: no error of Send ends in a
\* completion (connection.go:21, torrxferserverconnection.go:139-186,
\* worker.go:142-151).  An error that only CloseAndRecv returns comes after it and is
\* dropped, which is TorrxferServer's DeletedIsTransferred.
CompletedIsWhole ==
    \A r \in Runs :
        "completed" \in outcome[r] =>
            \/ sender[r] = "none" /\ "error" \notin outcome[r]
            \/ /\ sender[r] # "none"
               /\ sent[r] = copied[r]
               /\ copied[r] = Blocks \/ "error" \in outcome[r]

\* With a server that answers and files that can be read, and subscribers whose
\* channels do not fill up, a queued job is completed in the end.
JobCompletes ==
    \A j \in Jobs :
        (\E i \in 1..Len(jobQueue) : jobQueue[i] = j)
            ~> (\E r \in Runs : jobOf[r] = j /\ "completed" \in outcome[r])


-----------------------------------------------------------------------------
(* What comments of the repository say, and the code does not keep to      *)

\* "RegisterForConnectionNotifications is a client method that notifies the
\* caller on changes to all active connections" (client.go:158): a notification
\* on its way to the subscribers gets there.
NotificationsArrive ==
    \A j \in Jobs : notifier[j] = "push" ~> notifier[j] = "range"

\* "There may be one blocking call but it should be fairly trivial"
\* (worker.go:107): a worker that copies comes to the end of it.
CopyReturns == \A w \in Workers : worker[w] = "copy" ~> worker[w] # "copy"

\* "Retry transfer on error" (client.go:196): no error loses a job.
ErrorIsRetried == phase = "open" => \A j \in Jobs \ pending : Tracked(j)

\* "File transfer completed" (connection.go:21): the whole of it.
CompletedIsTransferred ==
    \A r \in Runs : "completed" \in outcome[r] =>
        sender[r] = "none" \/ sent[r] = Blocks

\* "the current number of bytes transferred for this file in this session"
\* (connection.go:110) is at most the size of the file.
StatusWithinFile == \A j \in Jobs : status[j] <= Blocks

\* "transfers its contents to the connected server(s)", and "once the file is
\* transferred it will be deleted" (README.md:181 and 186): a file is removed
\* after its jobs for all servers are completed.
RemovedIsEverywhere ==
    \A j \in Jobs : FileOf[j] \in removed =>
        \E r \in Runs : jobOf[r] = j /\ "completed" \in outcome[r]
=============================================================================
