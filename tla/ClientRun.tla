------------------------------ MODULE ClientRun ------------------------------
(***************************************************************************)
(* The client from its start to its end: main and Run, which connect to    *)
(* the servers, watch the directories and make the job queue; the          *)
(* goroutine of every watched directory that makes the jobs; the two       *)
(* subscribers that register at once; and the goroutine that a signal      *)
(* wakes, which closes everything.                                         *)
(*                                                                         *)
(* The watchers' own goroutines are in FileWatcher: here a watcher hands   *)
(* over any file below its directory, and what a handler still sends after *)
(* the end of its watcher is left to that module.  What becomes of a job   *)
(* is in TransferJobs: here the dispatcher takes it, and it may be         *)
(* completed.                                                              *)
(***************************************************************************)
EXTENDS ClientPaths, FiniteSets

CONSTANTS
    Servers,        \* Seq of servers, as the configuration has them
    Unnamed,        \* those without an address
    Unreachable,    \* those that never answer
    Directories,    \* Seq of [dir, root : Written]
    Files,          \* paths of the files on the client, links followed
    QueueCap,       \* capacity of jobQueue: 100
    QuietStart      \* do watchers hand over files only when main has returned?

Dirs == 1..Len(Directories)
Subscribers == {"main", "logger"}

ASSUME ConfigConstants ==
    /\ Servers \in Seq(Range(Servers))
    /\ Directories \in Seq([dir : Written, root : Written])
    /\ Files \subseteq Path \ {<< >>}
    /\ QueueCap \in Nat \ {0}
    /\ QuietStart \in BOOLEAN

VARIABLES
    main,           \* where Run and main are
    at,             \* the server or the directory they are at
    connections,    \* Seq of servers
    config,         \* is clientConfig set?
    queue,          \* jobQueue: nil, open or closed
    queued,         \* Seq of the jobs in it
    jobs,           \* the jobs that the dispatcher took
    watcher,        \* [Dirs -> where the watcher is]
    seen,           \* [Dirs -> files that it handed over]
    forwarder,      \* [Dirs -> where the goroutine of WatchDirectory is]
    file,           \* [Dirs -> the file it makes jobs of, or << >>]
    made,           \* [Dirs -> number of connections it made one for]
    channels,       \* notificationChannels: Seq of subscribers
    subscriber,     \* [Subscribers -> where its registration is]
    snapshot,       \* [Subscribers -> the channels that append has read]
    closer,         \* where the goroutine that waits for a signal is
    closing,        \* the watcher or the channel that it closes next
    found,          \* the channels that its range over them has found
    ended,          \* subscribers whose channel is closed
    phase           \* running, panicked or exited

mainVars  == <<main, at, connections, config, queue>>
watchVars == <<watcher, seen, forwarder, file, made>>
subVars   == <<channels, subscriber, snapshot>>
closerVars == <<closer, closing, found>>
vars == <<mainVars, queued, jobs, watchVars, subVars, closerVars, ended, phase>>

Named == {i \in 1..Len(Servers) : Servers[i] \notin Unnamed}
Job == [dir : Dirs, file : Files, server : Range(Servers)]

TypeOK ==
    /\ main \in {"read", "connect", "watch", "lock", "config", "queue", "spawn",
                 "range"}
    /\ at \in Nat
    /\ connections \in Seq(Range(Servers))
    /\ config \in BOOLEAN
    /\ queue \in {"nil", "open", "closed"}
    /\ queued \in Seq(Job) /\ Len(queued) <= QueueCap
    /\ jobs \subseteq Job
    /\ watcher \in [Dirs -> {"none", "new", "scan", "running", "stuck", "closed",
                            "ended"}]
    /\ seen \in [Dirs -> SUBSET Files]
    /\ forwarder \in [Dirs -> {"none", "start", "ready", "send", "stuck", "deaf", "done"}]
    /\ file \in [Dirs -> Files \cup {<< >>}]
    /\ made \in [Dirs -> Nat]
    /\ channels \in Seq(Subscribers)
    /\ subscriber \in [Subscribers -> {"none", "read", "write", "done"}]
    /\ snapshot \in [Subscribers -> Seq(Subscribers)]
    /\ closer \in {"none", "start", "armed", "watchers", "channels", "queue", "done"}
    /\ closing \in Nat \ {0}
    /\ found \in Seq(Subscribers)
    /\ ended \subseteq Subscribers
    /\ phase \in {"running", "panicked", "exited"}

Init ==
    /\ main = "read"
    /\ at = 1
    /\ connections = << >>
    /\ config = FALSE
    /\ queue = "nil"
    /\ queued = << >>
    /\ jobs = {}
    /\ watcher = [d \in Dirs |-> "none"]
    /\ seen = [d \in Dirs |-> {}]
    /\ forwarder = [d \in Dirs |-> "none"]
    /\ file = [d \in Dirs |-> << >>]
    /\ made = [d \in Dirs |-> 0]
    /\ channels = << >>
    /\ subscriber = [s \in Subscribers |-> "none"]
    /\ snapshot = [s \in Subscribers |-> << >>]
    /\ closer = "none"
    /\ closing = 1
    /\ found = << >>
    /\ ended = {}
    /\ phase = "running"

-----------------------------------------------------------------------------
(* Run and main.  A definition whose name begins with "Faulty" is the one   *)
(* below it with a plausible mistake; nothing uses it.                      *)

MainGoes(from, to) ==
    /\ main = from
    /\ main' = to
    /\ UNCHANGED <<queued, jobs, seen, file, made, channels, snapshot, ended, phase>>

\* The configuration is read, or cannot be, and the process ends.
ReadConfig ==
    /\ MainGoes("read", "connect")
    /\ UNCHANGED <<at, connections, config, queue, watcher, forwarder, subscriber,
                   closerVars>>

ReadConfigFails ==
    /\ main = "read"
    /\ phase' = "exited"
    /\ UNCHANGED <<mainVars, queued, jobs, watchVars, subVars, closerVars, ended>>

\* ConnectServer, which waits for the server to be there.
Connect ==
    /\ at \in Named
    /\ Servers[at] \notin Unreachable
    /\ MainGoes("connect", "connect")
    /\ connections' = Append(connections, Servers[at])
    /\ at' = at + 1
    /\ UNCHANGED <<config, queue, watcher, forwarder, subscriber, closerVars>>

FaultyConnectFails ==
    /\ at \in 1..Len(Servers) \ Named
    /\ MainGoes("connect", "watch")
    /\ at' = 1
    /\ UNCHANGED <<connections, config, queue, watcher, forwarder, subscriber, closerVars>>

\* No address: an error, and the next server.
ConnectFails ==
    /\ at \in 1..Len(Servers) \ Named
    /\ MainGoes("connect", "connect")
    /\ at' = at + 1
    /\ UNCHANGED <<connections, config, queue, watcher, forwarder, subscriber, closerVars>>

Connected ==
    /\ at > Len(Servers)
    /\ MainGoes("connect", "watch")
    /\ at' = 1
    /\ UNCHANGED <<connections, config, queue, watcher, forwarder, subscriber, closerVars>>

Accepted(d) == IsSubdir(Directories[d].root, Directories[d].dir)

\* WatchDirectory: NewFileWatcher refuses the directory, or starts the watcher.
RefuseDirectory ==
    /\ at \in Dirs
    /\ ~Accepted(at)
    /\ MainGoes("watch", "watch")
    /\ at' = at + 1
    /\ UNCHANGED <<connections, config, queue, watcher, forwarder, subscriber, closerVars>>

NewFileWatcher ==
    /\ at \in Dirs
    /\ Accepted(at)
    /\ MainGoes("watch", "lock")
    /\ watcher' = [watcher EXCEPT ![at] = "new"]
    /\ UNCHANGED <<at, connections, config, queue, forwarder, subscriber, closerVars>>

\* The lock is taken once no transferToServers holds it for reading.
AddWatcher ==
    /\ \A d \in Dirs : forwarder[d] \notin {"send", "stuck"}
    /\ MainGoes("lock", "watch")
    /\ forwarder' = [forwarder EXCEPT ![at] = "start"]
    /\ at' = at + 1
    /\ UNCHANGED <<connections, config, queue, watcher, subscriber, closerVars>>

Watched ==
    /\ at > Len(Directories)
    /\ MainGoes("watch", "config")
    /\ UNCHANGED <<at, connections, config, queue, watcher, forwarder, subscriber,
                   closerVars>>

FaultySetConfig ==
    /\ MainGoes("config", "queue")
    /\ UNCHANGED <<at, connections, config, queue, watcher, forwarder, subscriber,
                   closerVars>>

SetConfig ==
    /\ MainGoes("config", "queue")
    /\ config' = TRUE
    /\ UNCHANGED <<at, connections, queue, watcher, forwarder, subscriber, closerVars>>

\* The queue is made, and the dispatcher started.
SetQueue ==
    /\ MainGoes("queue", "spawn")
    /\ queue' = "open"
    /\ UNCHANGED <<at, connections, config, watcher, forwarder, subscriber, closerVars>>

\* The two goroutines start, Run returns, and main registers and ranges.
Return ==
    /\ MainGoes("spawn", "range")
    /\ subscriber' = [s \in Subscribers |-> "read"]
    /\ closer' = "start"
    /\ UNCHANGED <<at, connections, config, queue, watcher, forwarder, closing, found>>

\* The channel that main ranges over is closed, and the process ends.
MainEnds ==
    /\ subscriber["main"] = "done"
    /\ "main" \in ended
    /\ phase' = "exited"
    /\ UNCHANGED <<mainVars, queued, jobs, watchVars, subVars, closerVars, ended>>

MainStep ==
    \/ ReadConfig \/ ReadConfigFails \/ Connect \/ ConnectFails \/ Connected
    \/ RefuseDirectory \/ NewFileWatcher \/ AddWatcher \/ Watched \/ SetConfig
    \/ SetQueue \/ Return \/ MainEnds

-----------------------------------------------------------------------------
(* RegisterForConnectionNotifications, without a lock: append reads the     *)
(* slice and writes it.                                                     *)

RegisterReads(s) ==
    /\ subscriber[s] = "read"
    /\ subscriber' = [subscriber EXCEPT ![s] = "write"]
    /\ snapshot' = [snapshot EXCEPT ![s] = channels]
    /\ UNCHANGED <<mainVars, queued, jobs, watchVars, channels, closerVars, ended, phase>>

RegisterWrites(s) ==
    /\ subscriber[s] = "write"
    /\ subscriber' = [subscriber EXCEPT ![s] = "done"]
    /\ channels' = Append(snapshot[s], s)
    /\ UNCHANGED <<mainVars, queued, jobs, watchVars, snapshot, closerVars, ended, phase>>

-----------------------------------------------------------------------------
(* The watcher of directory d, and the goroutine that takes its files.      *)

WatchGoes == UNCHANGED <<mainVars, jobs, subVars, closerVars, ended>>

WatcherMoves(d, from, to) ==
    /\ watcher[d] = from
    /\ watcher' = [watcher EXCEPT ![d] = to]
    /\ WatchGoes
    /\ UNCHANGED <<queued, seen, forwarder, file, made, phase>>

\* watcherThread sets w, adds the directory and scans, and runs the watcher until it
\* is closed.  The end closes the channels of those who listen.
WatcherStep(d) ==
    \/ WatcherMoves(d, "new", "scan") \/ WatcherMoves(d, "scan", "running")
    \/ WatcherMoves(d, "closed", "ended")

\* The polling loop waits for ever to hand an event to a dispatcher that waits for a
\* handler, or has ended.
Sticks(d) == WatcherMoves(d, "running", "stuck")

\* The directory cannot be added.
AddFails(d) == seen[d] = {} /\ WatcherMoves(d, "scan", "ended")

\* A channel that is made after that is never closed.
Listen(d) ==
    /\ forwarder[d] = "start"
    /\ forwarder' = [forwarder EXCEPT ![d] = IF watcher[d] = "ended" THEN "deaf" ELSE "ready"]
    /\ WatchGoes
    /\ UNCHANGED <<queued, watcher, seen, file, made, phase>>

\* A file below the directory is handed over, after its quiet period of 10 s; a
\* goroutine that makes its jobs needs the read lock, which waits for main.
HandOver(d, f) ==
    /\ watcher[d] \in {"scan", "running", "stuck", "closed"}
    /\ QuietStart => main = "range"
    /\ IsStrictPrefix(Directories[d].dir.path, f)
    /\ f \notin seen[d]
    /\ forwarder[d] = "ready"
    /\ main # "lock"
    /\ seen' = [seen EXCEPT ![d] = @ \cup {f}]
    /\ forwarder' = [forwarder EXCEPT ![d] = "send"]
    /\ file' = [file EXCEPT ![d] = f]
    /\ made' = [made EXCEPT ![d] = 0]
    /\ WatchGoes
    /\ UNCHANGED <<queued, watcher, phase>>

FaultySend(d) ==
    /\ forwarder[d] = "send"
    /\ made[d] < Len(connections)
    /\ queue = "open"
    /\ queued' = Append(queued, [dir |-> d, file |-> file[d],
                                 server |-> connections[made[d] + 1]])
    /\ made' = [made EXCEPT ![d] = @ + 1]
    /\ WatchGoes
    /\ UNCHANGED <<watcher, seen, forwarder, file, phase>>

\* transferToServers: a job for the next connection.
Send(d) ==
    /\ forwarder[d] = "send"
    /\ made[d] < Len(connections)
    /\ queue = "open"
    /\ Len(queued) < QueueCap
    /\ queued' = Append(queued, [dir |-> d, file |-> file[d],
                                 server |-> connections[made[d] + 1]])
    /\ made' = [made EXCEPT ![d] = @ + 1]
    /\ WatchGoes
    /\ UNCHANGED <<watcher, seen, forwarder, file, phase>>

\* A channel that is nil blocks for ever, with the read lock held.
SendBlocks(d) ==
    /\ forwarder[d] = "send"
    /\ made[d] < Len(connections)
    /\ queue = "nil"
    /\ forwarder' = [forwarder EXCEPT ![d] = "stuck"]
    /\ WatchGoes
    /\ UNCHANGED <<queued, watcher, seen, file, made, phase>>

\* The signal has closed the queue.
SendPanics(d) ==
    /\ forwarder[d] = "send"
    /\ made[d] < Len(connections)
    /\ queue = "closed"
    /\ phase' = "panicked"
    /\ UNCHANGED <<mainVars, queued, jobs, watchVars, subVars, closerVars, ended>>

Sent(d) ==
    /\ forwarder[d] = "send"
    /\ made[d] = Len(connections)
    /\ forwarder' = [forwarder EXCEPT ![d] = "ready"]
    /\ file' = [file EXCEPT ![d] = << >>]
    /\ WatchGoes
    /\ UNCHANGED <<queued, watcher, seen, made, phase>>

\* The watcher has closed its channel.
ForwarderEnds(d) ==
    /\ watcher[d] = "ended"
    /\ forwarder[d] = "ready"
    /\ forwarder' = [forwarder EXCEPT ![d] = "done"]
    /\ WatchGoes
    /\ UNCHANGED <<queued, watcher, seen, file, made, phase>>

ForwarderStep(d) ==
    \/ Listen(d) \/ Send(d) \/ SendBlocks(d) \/ SendPanics(d) \/ Sent(d)
    \/ ForwarderEnds(d)

FaultyDispatch ==
    /\ queued # << >>
    /\ jobs = {}
    /\ queued' = Tail(queued)
    /\ jobs' = jobs \cup {Head(queued)}
    /\ UNCHANGED <<mainVars, watchVars, subVars, closerVars, ended, phase>>

\* The dispatcher's loop; it does not wait for the job.
Dispatch ==
    /\ queued # << >>
    /\ queued' = Tail(queued)
    /\ jobs' = jobs \cup {Head(queued)}
    /\ UNCHANGED <<mainVars, watchVars, subVars, closerVars, ended, phase>>

\* A job is completed, and its notifier reads the configuration, which panics if
\* there is none yet.
Complete ==
    /\ jobs # {}
    /\ phase' = IF config THEN phase ELSE "panicked"
    /\ UNCHANGED <<mainVars, queued, jobs, watchVars, subVars, closerVars, ended>>

-----------------------------------------------------------------------------
(* The signal.                                                              *)

CloserGoes(from, to) ==
    /\ closer = from
    /\ closer' = to
    /\ UNCHANGED <<main, at, connections, config, queued, jobs, seen, forwarder, file,
                   made, subVars>>

\* configureSignals; a signal before it just ends the process and is left out.
Arm ==
    /\ CloserGoes("start", "armed")
    /\ UNCHANGED <<queue, watcher, closing, found, ended, phase>>

Signal ==
    /\ CloserGoes("armed", "watchers")
    /\ UNCHANGED <<queue, watcher, closing, found, ended, phase>>

\* Close of the next watcher, if its directory was accepted.  It returns at once if
\* the polling loop does not run, before or after; else it waits until the loop takes
\* its signal, which one that is stuck never does.
CloseWatcher ==
    /\ CloserGoes("watchers", "watchers")
    /\ closing \in Dirs
    /\ watcher[closing] \notin {"new", "stuck"}
    /\ watcher' = [watcher EXCEPT ![closing] = IF @ = "running" THEN "closed" ELSE @]
    /\ closing' = closing + 1
    /\ UNCHANGED <<queue, found, ended, phase>>

\* A watcher whose goroutine has not come so far as to set w.
ClosePanics ==
    /\ CloserGoes("watchers", "done")
    /\ closing \in Dirs
    /\ watcher[closing] = "new"
    /\ phase' = "panicked"
    /\ UNCHANGED <<queue, watcher, closing, found, ended>>

\* All watchers are closed; the range over the channels begins.
WatchersClosed ==
    /\ CloserGoes("watchers", "channels")
    /\ closing \notin Dirs
    /\ closing' = 1
    /\ found' = channels
    /\ UNCHANGED <<queue, watcher, ended, phase>>

CloseChannel ==
    /\ CloserGoes("channels", "channels")
    /\ closing <= Len(found)
    /\ ended' = ended \cup {found[closing]}
    /\ closing' = closing + 1
    /\ UNCHANGED <<queue, watcher, found, phase>>

FaultyChannelsClosed ==
    /\ CloserGoes("channels", "queue")
    /\ closing >= Len(found)
    /\ UNCHANGED <<queue, watcher, closing, found, ended, phase>>

ChannelsClosed ==
    /\ CloserGoes("channels", "queue")
    /\ closing > Len(found)
    /\ UNCHANGED <<queue, watcher, closing, found, ended, phase>>

CloseQueue ==
    /\ CloserGoes("queue", "done")
    /\ queue' = "closed"
    /\ UNCHANGED <<watcher, closing, found, ended, phase>>

CloserStep ==
    \/ Arm \/ CloseWatcher \/ ClosePanics \/ WatchersClosed \/ CloseChannel
    \/ ChannelsClosed \/ CloseQueue

-----------------------------------------------------------------------------
Next ==
    /\ phase = "running"
    /\ \/ MainStep
       \/ \E s \in Subscribers : RegisterReads(s) \/ RegisterWrites(s)
       \/ \E d \in Dirs : WatcherStep(d) \/ Sticks(d) \/ AddFails(d) \/ ForwarderStep(d)
       \/ \E d \in Dirs, f \in Files : HandOver(d, f)
       \/ Dispatch \/ Complete
       \/ CloserStep \/ Signal

Spec == Init /\ [][Next]_vars

\* Goroutines that can run do run: main, those that make jobs, the dispatcher, and the
\* one that a signal wakes.  Nothing is assumed of files, watchers and the signal; that
\* Close returns is assumed only of a watcher that is not stuck.
Running == phase = "running"
Fairness ==
    /\ WF_vars(Running /\ MainStep)
    /\ \A d \in {e \in Dirs : Accepted(e)} : WF_vars(Running /\ ForwarderStep(d))
    /\ WF_vars(Running /\ Dispatch)
    /\ WF_vars(Running /\ CloserStep)

FairSpec == Spec /\ Fairness

-----------------------------------------------------------------------------
(* Properties.                                                              *)

Made == jobs \cup Range(queued)

\* A server that is refused, for want of an address, does not stand in the way of
\* the others: of every file that is handed over there is a job for each of them.
AllServersServed ==
    \A d \in Dirs : \A f \in seen[d] \ {file[d]} : \A i \in Named :
        [dir |-> d, file |-> f, server |-> Servers[i]] \in Made

Exists(path) == \E f \in Files : IsStrictPrefix(path, f)

\* The directories whose root has no names that are patterns, and whose own last name
\* is one.
Plain == {d \in Dirs :
    /\ \A p \in Range(Directories[d].root.path), n \in Names : <<p, n>> \in Glob <=> n = p
    /\ Range(Directories[d].dir.raw) \cap Special = {}}

\* Where the server puts the file of a job.
Place(j) ==
    LET root == Directories[j.dir].root.path IN ServerPath(j.file, root, Exists(root))

\* The server puts a file where it is below the media root (clientfile.go:30-36),
\* whatever other names begin with the same letters.
TreeKept ==
    \A j \in Made : j.dir \in Plain =>
        Directories[j.dir].root.path \o Place(j) = j.file

\* Start-up sets what the jobs read before there are any: until a signal comes, no
\* panic comes from the order in which Run sets its fields (client.go:73-100).  Other
\* panics, such as a watcher's (FileWatcher), are not in this module.
NoPanicBeforeSignal ==
    phase = "panicked" => closer \notin {"none", "start", "armed"}

\* Unless a signal comes, a file that is handed over once the queue is there gets all
\* its jobs, also when the queue is full at times.
HandedOverIsSent ==
    \A d \in Dirs :
        (forwarder[d] = "send" /\ queue # "nil") ~>
            \/ forwarder[d] = "ready"
            \/ closer \notin {"none", "start", "armed"} \/ phase # "running"

\* What can keep a signal from ending the process in order: Close waits for a watcher
\* that is stuck; Close, or a send on the queue that is closed, panics; the channel that
\* main ranges over is not among those that are closed.
CloseWaits == closer = "watchers" /\ closing \in Dirs /\ watcher[closing] = "stuck"
SignalPanics ==
    /\ phase = "panicked"
    /\ (closing \in Dirs /\ watcher[closing] = "new") \/ queue = "closed"
MainUnheard == closer \in {"channels", "queue", "done"} /\ "main" \notin Range(found)

\* A signal ends the process in order, by main's return, and nothing but these three
\* prevents it: not a watcher that scans or was never started, not the order in which
\* the subscribers have registered, not a full queue (client.go:89-100,
\* filewatcher.go:77-79, main.go:71-119).
SignalEnds ==
    closer = "watchers" ~>
        phase = "exited" \/ CloseWaits \/ SignalPanics \/ MainUnheard

\* What README.md:171-173 and path.go:9 say: a directory below its root is watched.
SubdirectoriesWatched ==
    main = "range" => \A d \in Dirs :
        IsPrefix(Directories[d].root.path, Directories[d].dir.path) => watcher[d] # "none"

\* "All pending transfers are flushed and channels are all closed" (filewatcher.go:76):
\* a signal does not end in a panic.
SignalNeverPanics == phase # "panicked"

\* A subscriber is notified (client.go:158): its channel is kept.
RegistrationKept ==
    \A s \in Subscribers : subscriber[s] = "done" => s \in Range(channels)

\* The tree below the media root is kept for every directory (clientfile.go:33-36).
TreeAlwaysKept ==
    \A j \in Made : Directories[j.dir].root.path \o Place(j) = j.file

\* Two files have two places on the server.
PlacesDistinct ==
    \A j, k \in Made : j.file # k.file => Place(j) # Place(k)

\* The start comes to its end.
Starts == <>(main = "range" \/ phase # "running")
=============================================================================
