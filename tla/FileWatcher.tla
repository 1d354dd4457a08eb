----------------------------- MODULE FileWatcher -----------------------------
(***************************************************************************)
(* pkg/client/filewatcher.go: the goroutine that takes the events of the   *)
(* polling watcher, the handler goroutine that every active path has, its   *)
(* timer, and the channels on which listeners are told of quiet files.      *)
(*                                                                         *)
(* A path has one handler at a time, so handler, update channel and timer   *)
(* carry the path's name.  A file is its version: how often it was written. *)
(* The channel of a handler that is gone stays what it was until the next   *)
(* handler makes a new one.                                                 *)
(***************************************************************************)
EXTENDS Naturals, Sequences

CONSTANTS
    Paths,          \* files in the watched directory
    Listeners,      \* callers of RegisterForFileNotifications
    None,           \* no path
    MaxVersion,     \* bound: writes to one file
    WriteDuration,  \* of the timer, in ticks
    UpdateCap,      \* capacity of an update channel: 5
    OutgoingCap,    \* capacity of a listener's channel: 10
    FilesVanish,    \* may a file be gone when its event is handled?
    MayClose        \* may Close be called?

ASSUME WatcherConstants ==
    /\ None \notin Paths
    /\ MaxVersion \in Nat
    /\ WriteDuration \in Nat \ {0}
    /\ UpdateCap \in Nat \ {0}
    /\ OutgoingCap \in Nat \ {0}
    /\ FilesVanish \in BOOLEAN
    /\ MayClose \in BOOLEAN

VARIABLES
    \* the directory and the polling watcher (an external package)
    written,        \* [Paths -> version on disk]
    seen,           \* [Paths -> version that the last poll found]
    unscanned,      \* files of the first scan that are still to be handled
    \* the goroutine that runs handleFileEvent
    dispatcher,     \* where it is
    event,          \* the path it handles
    eventFile,      \* the version that it found
    \* activeFilesMap and the update channels
    active,         \* paths with an entry in the map
    updates,        \* [Paths -> Seq of versions]
    updatesClosed,  \* [Paths -> BOOLEAN]
    \* fileEventHandlerThread
    handler,        \* where the handler of a path is
    file,           \* the last version it received, 0 if none
    timer,          \* its timer
    countdown,      \* ticks until the timer expires
    quiet,          \* ticks since it received its last update (at most WriteDuration)
    notifying,      \* index of the listener it sends to
    \* outgoing channels
    registered,     \* listeners in the order of their registration
    outgoing,       \* [Listeners -> Seq of notifications]
    notified,       \* [Listeners -> [Paths -> last version received]]
    \* the watcher as a whole
    phase,          \* "scan", "open", "closing" after Close, "closed": listeners' too
    panicked        \* a send on a closed channel, or the runtime, ended the process

dirVars        == <<written, seen, unscanned>>
dispatcherVars == <<dispatcher, event, eventFile>>
channelVars    == <<active, updates, updatesClosed>>
handlerVars    == <<handler, file, timer, countdown, quiet, notifying>>
listenerVars   == <<registered, outgoing, notified>>
phaseVars      == <<phase, panicked>>
vars == <<dirVars, dispatcherVars, channelVars, handlerVars, listenerVars,
          phaseVars>>

Versions     == 0..MaxVersion
Notification == [path : Paths, version : Versions]

TypeOK ==
    /\ written \in [Paths -> Versions]
    /\ seen \in [Paths -> Versions]
    /\ unscanned \subseteq Paths
    /\ dispatcher \in {"idle", "lookup", "insert", "channel", "send", "nil", "gone"}
    /\ event \in Paths \cup {None}
    /\ eventFile \in Versions
    /\ active \subseteq Paths
    /\ updates \in [Paths -> Seq(Versions)]
    /\ \A p \in Paths : Len(updates[p]) <= UpdateCap
    /\ updatesClosed \in [Paths -> BOOLEAN]
    /\ handler \in [Paths -> {"none", "select", "stuck", "lock", "notify",
                              "close", "delete"}]
    /\ file \in [Paths -> Versions]
    /\ timer \in [Paths -> {"initial", "afterfunc", "sending", "off"}]
    /\ countdown \in [Paths -> 0..WriteDuration]
    /\ quiet \in [Paths -> 0..WriteDuration]
    /\ notifying \in [Paths -> Nat]
    /\ registered \in Seq(Listeners)
    /\ outgoing \in [Listeners -> Seq(Notification)]
    /\ \A l \in Listeners : Len(outgoing[l]) <= OutgoingCap
    /\ notified \in [Listeners -> [Paths -> Versions]]
    /\ phase \in {"scan", "open", "closing", "closed"}
    /\ panicked \in BOOLEAN

\* The files in the directory are known to the polling watcher and still to be
\* scanned.
Init ==
    /\ written \in [Paths -> {0, 1} \cap Versions]
    /\ seen = written
    /\ unscanned = {p \in Paths : written[p] > 0}
    /\ dispatcher = "idle" /\ event = None /\ eventFile = 0
    /\ active = {}
    /\ updates = [p \in Paths |-> << >>]
    /\ updatesClosed = [p \in Paths |-> FALSE]
    /\ handler = [p \in Paths |-> "none"]
    /\ file = [p \in Paths |-> 0]
    /\ timer = [p \in Paths |-> "off"]
    /\ countdown = [p \in Paths |-> 0]
    /\ quiet = [p \in Paths |-> 0]
    /\ notifying = [p \in Paths |-> 0]
    /\ registered = << >>
    /\ outgoing = [l \in Listeners |-> << >>]
    /\ notified = [l \in Listeners |-> [p \in Paths |-> 0]]
    /\ phase = "scan"
    /\ panicked = FALSE

-----------------------------------------------------------------------------
(* The RWMutex.  Only notifyFileAvailable holds it over a step; a goroutine *)
(* that waits for the write lock keeps new readers out.                     *)

Reading       == \E p \in Paths : handler[p] = "notify"
WriterWaiting == dispatcher = "insert" \/ \E p \in Paths : handler[p] = "delete"
CanRLock      == ~(Reading /\ WriterWaiting)
CanLock       == ~Reading

-----------------------------------------------------------------------------
(* The directory, the polling watcher and time.                            *)

Write(p) ==
    /\ written[p] < MaxVersion
    /\ written' = [written EXCEPT ![p] = @ + 1]
    /\ UNCHANGED <<seen, unscanned, dispatcherVars, channelVars, handlerVars,
                   listenerVars, phaseVars>>

\* handleFileEvent starts with the file as it is now.
Handles(p) ==
    /\ dispatcher = "idle"
    /\ dispatcher' = "lookup"
    /\ event' = p
    /\ eventFile' = written[p]
    /\ UNCHANGED <<written, channelVars, handlerVars, listenerVars, phaseVars>>

\* The file cannot be opened, it may be gone: it is skipped.
Skips ==
    /\ FilesVanish
    /\ dispatcher = "idle"
    /\ UNCHANGED <<written, dispatcherVars, channelVars, handlerVars,
                   listenerVars, phaseVars>>

Scanned(p) ==
    /\ phase = "scan"
    /\ p \in unscanned
    /\ unscanned' = unscanned \ {p}
    /\ seen' = seen

\* A poll found version v of the file.
Polled(p, v) ==
    /\ phase = "open"
    /\ seen' = [seen EXCEPT ![p] = v]
    /\ unscanned' = unscanned

Found(p) == Scanned(p) \/ \E v \in (seen[p] + 1)..written[p] : Polled(p, v)

Event(p)        == Found(p) /\ Handles(p)
EventSkipped(p) == Found(p) /\ Skips

\* The scan is over and the polling watcher starts.
Start ==
    /\ phase = "scan"
    /\ unscanned = {}
    /\ dispatcher = "idle"
    /\ phase' = "open"
    /\ UNCHANGED <<dirVars, dispatcherVars, channelVars, handlerVars,
                   listenerVars, panicked>>

Tick ==
    /\ countdown' = [p \in Paths |-> IF countdown[p] > 0 THEN countdown[p] - 1 ELSE 0]
    /\ quiet' = [p \in Paths |->
                    IF handler[p] = "select" /\ quiet[p] < WriteDuration
                    THEN quiet[p] + 1 ELSE quiet[p]]
    /\ UNCHANGED <<dirVars, dispatcherVars, channelVars, handler, file, timer,
                   notifying, listenerVars, phaseVars>>

-----------------------------------------------------------------------------
(* handleFileEvent.                                                        *)

DispatcherMoves(from, to) ==
    /\ dispatcher = from
    /\ dispatcher' = to
    /\ UNCHANGED <<dirVars, event, eventFile, listenerVars, phase>>

\* The map is read without its lock.
Lookup ==
    /\ DispatcherMoves("lookup", IF event \in active THEN "channel" ELSE "insert")
    /\ UNCHANGED <<channelVars, handlerVars, panicked>>

\* A handler deletes its entry meanwhile: the runtime may notice a concurrent map read
\* and map write, and end the process.
LookupAborts ==
    /\ DispatcherMoves("lookup", "lookup")
    /\ CanLock /\ \E p \in Paths : handler[p] = "delete"
    /\ panicked' = TRUE
    /\ UNCHANGED <<channelVars, handlerVars>>

\* First time: a new channel and a new handler, whose timer starts.
Insert ==
    /\ CanLock
    /\ DispatcherMoves("insert", "channel")
    /\ active' = active \cup {event}
    /\ updates' = [updates EXCEPT ![event] = << >>]
    /\ updatesClosed' = [updatesClosed EXCEPT ![event] = FALSE]
    /\ handler' = [handler EXCEPT ![event] = "select"]
    /\ file' = [file EXCEPT ![event] = 0]
    /\ timer' = [timer EXCEPT ![event] = "initial"]
    /\ countdown' = [countdown EXCEPT ![event] = WriteDuration]
    /\ quiet' = [quiet EXCEPT ![event] = 0]
    /\ UNCHANGED <<notifying, panicked>>

\* The map is read again, with its lock: by now the entry may be gone, and a
\* send on a nil channel blocks for ever.
TakeChannel ==
    /\ CanRLock
    /\ DispatcherMoves("channel", IF event \in active THEN "send" ELSE "nil")
    /\ UNCHANGED <<channelVars, handlerVars, panicked>>

FaultySendUpdate ==
    /\ DispatcherMoves("send", "idle")
    /\ ~updatesClosed[event]
    /\ updates' = [updates EXCEPT ![event] =
                      IF Len(@) < UpdateCap THEN << eventFile >> \o @ ELSE @]
    /\ UNCHANGED <<active, updatesClosed, handlerVars, panicked>>

SendUpdate ==
    /\ DispatcherMoves("send", "idle")
    /\ ~updatesClosed[event]
    /\ Len(updates[event]) < UpdateCap
    /\ updates' = [updates EXCEPT ![event] = Append(@, eventFile)]
    /\ UNCHANGED <<active, updatesClosed, handlerVars, panicked>>

SendPanics ==
    /\ DispatcherMoves("send", "gone")
    /\ updatesClosed[event]
    /\ panicked' = TRUE
    /\ UNCHANGED <<channelVars, handlerVars>>

DispatcherStep ==
    Lookup \/ LookupAborts \/ Insert \/ TakeChannel \/ SendUpdate \/ SendPanics

-----------------------------------------------------------------------------
(* fileEventHandlerThread of path p.                                       *)

HandlerMoves(p, from, to) ==
    /\ handler[p] = from
    /\ handler' = [handler EXCEPT ![p] = to]
    /\ UNCHANGED <<dirVars, dispatcherVars, registered, notified, phase>>

\* The timer has expired and its function sends on waitChannel.  Nobody sees
\* the expiry of the first timer, which has no function.
TimerFires(p) ==
    /\ timer[p] = "afterfunc"
    /\ countdown[p] = 0
    /\ timer' = [timer EXCEPT ![p] = "sending"]
    /\ UNCHANGED <<dirVars, dispatcherVars, channelVars, handler, file, countdown,
                   quiet, notifying, listenerVars, phaseVars>>

FaultyStarted(p) == IF timer[p] = "initial" THEN WriteDuration ELSE countdown[p]

\* What a new timer starts with.
Started(p) == WriteDuration

\* An update: the timer is stopped and a new one started.
ReceiveUpdate(p) ==
    /\ timer[p] # "sending"
    /\ updates[p] # << >>
    /\ HandlerMoves(p, "select", "select")
    /\ file' = [file EXCEPT ![p] = Head(updates[p])]
    /\ updates' = [updates EXCEPT ![p] = Tail(@)]
    /\ timer' = [timer EXCEPT ![p] = "afterfunc"]
    /\ countdown' = [countdown EXCEPT ![p] = Started(p)]
    /\ quiet' = [quiet EXCEPT ![p] = 0]
    /\ UNCHANGED <<active, updatesClosed, notifying, outgoing, panicked>>

\* Stop fails after the timer has fired, and the channel of a timer that has a
\* function is nil: the receive blocks for ever.
ReceiveUpdateStuck(p) ==
    /\ timer[p] = "sending"
    /\ updates[p] # << >>
    /\ HandlerMoves(p, "select", "stuck")
    /\ file' = [file EXCEPT ![p] = Head(updates[p])]
    /\ updates' = [updates EXCEPT ![p] = Tail(@)]
    /\ UNCHANGED <<active, updatesClosed, timer, countdown, quiet, notifying,
                   outgoing, panicked>>

\* The wait is over; the select may take this with an update in the channel.
WaitOver(p) ==
    /\ timer[p] = "sending"
    /\ HandlerMoves(p, "select", "lock")
    /\ timer' = [timer EXCEPT ![p] = "off"]
    /\ UNCHANGED <<channelVars, file, countdown, quiet, notifying, outgoing,
                   panicked>>

\* notifyFileAvailable: every listener in turn, under the read lock.
NotifyLock(p) ==
    /\ CanRLock
    /\ HandlerMoves(p, "lock", "notify")
    /\ notifying' = [notifying EXCEPT ![p] = 1]
    /\ UNCHANGED <<channelVars, file, timer, countdown, quiet, outgoing, panicked>>

FaultyNotifyUnbounded(p) ==
    /\ HandlerMoves(p, "notify", "notify")
    /\ phase # "closed"
    /\ notifying[p] <= Len(registered)
    /\ LET l == registered[notifying[p]] IN
          outgoing' = [outgoing EXCEPT ![l] =
                         Append(@, [path |-> p, version |-> file[p]])]
    /\ notifying' = [notifying EXCEPT ![p] = @ + 1]
    /\ UNCHANGED <<channelVars, file, timer, countdown, quiet, panicked>>

FaultyNotify(p) ==
    /\ HandlerMoves(p, "notify", "notify")
    /\ phase # "closed"
    /\ notifying[p] <= Len(registered)
    /\ LET l == registered[notifying[p]] IN
          /\ Len(outgoing[l]) < OutgoingCap
          /\ outgoing' = [outgoing EXCEPT ![l] =
                            << [path |-> p, version |-> file[p]] >> \o @]
    /\ notifying' = [notifying EXCEPT ![p] = @ + 1]
    /\ UNCHANGED <<channelVars, file, timer, countdown, quiet, panicked>>

Notify(p) ==
    /\ HandlerMoves(p, "notify", "notify")
    /\ phase # "closed"
    /\ notifying[p] <= Len(registered)
    /\ LET l == registered[notifying[p]] IN
          /\ Len(outgoing[l]) < OutgoingCap
          /\ outgoing' = [outgoing EXCEPT ![l] =
                            Append(@, [path |-> p, version |-> file[p]])]
    /\ notifying' = [notifying EXCEPT ![p] = @ + 1]
    /\ UNCHANGED <<channelVars, file, timer, countdown, quiet, panicked>>

NotifyPanics(p) ==
    /\ HandlerMoves(p, "notify", "notify")
    /\ phase = "closed"
    /\ notifying[p] <= Len(registered)
    /\ panicked' = TRUE
    /\ UNCHANGED <<channelVars, file, timer, countdown, quiet, notifying, outgoing>>

Notified(p) ==
    /\ HandlerMoves(p, "notify", "close")
    /\ notifying[p] > Len(registered)
    /\ UNCHANGED <<channelVars, file, timer, countdown, quiet, notifying, outgoing,
                   panicked>>

CloseUpdates(p) ==
    /\ HandlerMoves(p, "close", "delete")
    /\ updatesClosed' = [updatesClosed EXCEPT ![p] = TRUE]
    /\ UNCHANGED <<active, updates, file, timer, countdown, quiet, notifying,
                   outgoing, panicked>>

FaultyDeleteEntry(p) ==
    /\ HandlerMoves(p, "delete", "none")
    /\ UNCHANGED <<active, updates, updatesClosed, file, timer, countdown, quiet,
                   notifying, outgoing, panicked>>

DeleteEntry(p) ==
    /\ CanLock
    /\ HandlerMoves(p, "delete", "none")
    /\ active' = active \ {p}
    /\ UNCHANGED <<updates, updatesClosed, file, timer, countdown, quiet, notifying,
                   outgoing, panicked>>

HandlerStep(p) ==
    \/ TimerFires(p) \/ ReceiveUpdate(p) \/ ReceiveUpdateStuck(p) \/ WaitOver(p)
    \/ NotifyLock(p) \/ Notify(p) \/ NotifyPanics(p) \/ Notified(p)
    \/ CloseUpdates(p) \/ DeleteEntry(p)

-----------------------------------------------------------------------------
(* Listeners and Close.                                                    *)

Register(l) ==
    /\ CanLock
    /\ \A i \in 1..Len(registered) : registered[i] # l
    /\ registered' = Append(registered, l)
    /\ UNCHANGED <<dirVars, dispatcherVars, channelVars, handlerVars, outgoing,
                   notified, phaseVars>>

Receive(l) ==
    /\ outgoing[l] # << >>
    /\ LET n == Head(outgoing[l]) IN
          notified' = [notified EXCEPT ![l][n.path] = n.version]
    /\ outgoing' = [outgoing EXCEPT ![l] = Tail(@)]
    /\ UNCHANGED <<dirVars, dispatcherVars, channelVars, handlerVars, registered,
                   phaseVars>>

\* A Close during the scan does nothing: the polling watcher does not run yet.
Close ==
    /\ MayClose
    /\ phase = "open"
    /\ phase' = "closing"
    /\ UNCHANGED <<dirVars, dispatcherVars, channelVars, handlerVars,
                   listenerVars, panicked>>

\* watcherThread returns and the listeners' channels are closed.
CloseOutgoing ==
    /\ phase = "closing"
    /\ CanRLock
    /\ phase' = "closed"
    /\ UNCHANGED <<dirVars, dispatcherVars, channelVars, handlerVars,
                   listenerVars, panicked>>

Next ==
    /\ ~panicked
    /\ \/ \E p \in Paths :
             Write(p) \/ Event(p) \/ EventSkipped(p) \/ HandlerStep(p)
       \/ \E l \in Listeners : Register(l) \/ Receive(l)
       \/ Start \/ DispatcherStep \/ Tick \/ Close \/ CloseOutgoing

Spec == Init /\ [][Next]_vars

\* Goroutines that can run do run, time passes, the watcher polls, listeners
\* register and drain their channels.  Nothing is assumed of writes and Close.
Running(A) == ~panicked /\ A

Fairness ==
    /\ WF_vars(Running(Start))
    /\ WF_vars(Running(DispatcherStep))
    /\ WF_vars(Running(Tick))
    /\ WF_vars(Running(CloseOutgoing))
    /\ \A p \in Paths : /\ WF_vars(Running(Event(p) \/ EventSkipped(p)))
                        /\ WF_vars(Running(HandlerStep(p)))
    /\ \A l \in Listeners : WF_vars(Running(Register(l))) /\ WF_vars(Running(Receive(l)))

FairSpec == Spec /\ Fairness

-----------------------------------------------------------------------------
(* Properties.                                                             *)

\* A path has a handler exactly while it has an entry in activeFilesMap, and the
\* dispatcher makes a handler only for a path without one, although it looks
\* into the map without the lock (filewatcher.go:157) and the handler takes its
\* entry out of the map long after the notification (line 205).
OneHandler ==
    /\ \A p \in Paths : p \in active <=> handler[p] # "none"
    /\ dispatcher = "insert" => event \notin active

\* A file is notified only when no update of it was received for WriteDuration:
\* each update stops the timer and starts another (filewatcher.go:192-197).
QuietPeriod ==
    \A p \in Paths :
        handler[p] \in {"lock", "notify"} => quiet[p] = WriteDuration

\* What the handler holds, what waits in its channel and what the dispatcher is
\* about to send are in the order of the writes, so that the handler ends with
\* the newest of the updates it took (filewatcher.go:175, 188-191).
Pending(p) ==
    (IF handler[p] = "none" THEN << >> ELSE << file[p] >> \o updates[p])
    \o (IF event = p /\ dispatcher \in {"lookup", "insert", "channel", "send"}
        THEN << eventFile >> ELSE << >>)

UpdatesInOrder ==
    \A p \in Paths :
        \A i, j \in 1..Len(Pending(p)) : i < j => Pending(p)[i] <= Pending(p)[j]

\* A listener never receives an older version of a file after a newer one, although
\* each version may come from a handler of its own, through a channel that was made
\* anew: a handler's entry stays in the map until it has told every listener, what
\* still waits in its channel is lost with it, and the dispatcher handles one event
\* at a time (filewatcher.go:114-130, 157-175, 198-206, 212-218).
NotifiedInOrder ==
    [][\A l \in Listeners, p \in Paths : notified[l][p] <= notified'[l][p]]_vars

IsRegistered(l) == \E i \in 1..Len(registered) : registered[i] = l

\* A file that the scan or a poll is to find is in the end received by every
\* listener that is registered by then, however full the channels are, unless the
\* process ends.
WrittenIsNotified ==
    \A p \in Paths, l \in Listeners :
        (IsRegistered(l) /\ (p \in unscanned \/ seen[p] < written[p]))
            ~> (notified[l][p] > 0 \/ panicked)

\* An event for a path that is already watched never ends the process: it is
\* sent to a handler or, says the comment at filewatcher.go:137, ignored.
EventNeverPanics == dispatcher # "gone"

\* After Close pending notifications are flushed before the channels of the
\* listeners are closed (filewatcher.go:76).
FlushedByClose ==
    phase = "closed" =>
        \A p \in Paths : handler[p] = "notify" => notifying[p] > Len(registered)
=============================================================================
