-------------------------- MODULE FileWatcherProofs --------------------------
(***************************************************************************)
(* Theorems of FileWatcher for every number of files, listeners and writes, *)
(* every WriteDuration and every channel capacity.                          *)
(***************************************************************************)
EXTENDS FileWatcher, TLAPS

USE WatcherConstants

\* The dispatcher handles the event of a file, and a notification starts with
\* the first listener.
EventKnown ==
    dispatcher \in {"lookup", "insert", "channel", "send"} => event \in Paths

NotifyingKnown ==
    \A p \in Paths : handler[p] = "notify" => notifying[p] \in Nat \ {0}

TypeInv == TypeOK /\ EventKnown /\ NotifyingKnown

\* The state before Init's choice of files is fixed up to that choice.
LEMMA TypeInit == Init => TypeInv
<1>1. ASSUME Init PROVE TypeOK
  <2>1. written \in [Paths -> Versions] /\ seen \in [Paths -> Versions]
    BY <1>1 DEF Init, Versions
  <2>2. /\ updates \in [Paths -> Seq(Versions)]
        /\ \A p \in Paths : Len(updates[p]) <= UpdateCap
    BY <1>1 DEF Init
  <2>3. /\ outgoing \in [Listeners -> Seq(Notification)]
        /\ \A l \in Listeners : Len(outgoing[l]) <= OutgoingCap
        /\ registered \in Seq(Listeners)
    BY <1>1 DEF Init
  <2>4. notified \in [Listeners -> [Paths -> Versions]]
    BY <1>1 DEF Init, Versions
  <2>5. /\ file \in [Paths -> Versions]
        /\ countdown \in [Paths -> 0..WriteDuration]
        /\ quiet \in [Paths -> 0..WriteDuration]
        /\ notifying \in [Paths -> Nat]
        /\ eventFile \in Versions
    BY <1>1 DEF Init, Versions
  <2>6. /\ updatesClosed \in [Paths -> BOOLEAN]
        /\ panicked \in BOOLEAN
        /\ unscanned \subseteq Paths
        /\ active \subseteq Paths
    BY <1>1 DEF Init
  <2> QED BY <1>1, <2>1, <2>2, <2>3, <2>4, <2>5, <2>6 DEF Init, TypeOK
<1> QED BY <1>1 DEF Init, TypeInv, EventKnown, NotifyingKnown

\* Every action keeps the types.
LEMMA TypeStep == TypeInv /\ [Next]_vars => TypeInv'
<1> SUFFICES ASSUME TypeInv, [Next]_vars PROVE TypeInv'
  OBVIOUS
<1> USE DEF TypeInv, TypeOK, EventKnown, NotifyingKnown
<1>1. ASSUME NEW p \in Paths, Write(p) PROVE TypeInv'
  <2>1. written' \in [Paths -> Versions]
    <3>1. written[p] \in 0..MaxVersion /\ written[p] < MaxVersion
      BY <1>1 DEF Write, Versions
    <3>2. \A v \in 0..MaxVersion : v < MaxVersion => v + 1 \in Versions
      BY DEF Versions
    <3> QED BY <1>1, <3>1, <3>2 DEF Write
  <2> QED
  BY <1>1, <2>1 DEF Write, dispatcherVars, channelVars, handlerVars, listenerVars,
              phaseVars
<1>2. ASSUME NEW p \in Paths, Found(p)
      PROVE  /\ seen' \in [Paths -> Versions]
             /\ unscanned' \subseteq Paths
  <2>1. CASE Scanned(p)
    BY <2>1 DEF Scanned
  <2>2. ASSUME NEW v \in (seen[p] + 1)..written[p], Polled(p, v)
        PROVE  seen' \in [Paths -> Versions] /\ unscanned' \subseteq Paths
    <3>1. written[p] \in 0..MaxVersion /\ seen[p] \in 0..MaxVersion
      BY DEF Versions
    <3>2. v \in Versions
      BY <3>1 DEF Versions
    <3> QED BY <2>2, <3>2 DEF Polled
  <2> QED BY <1>2, <2>1, <2>2 DEF Found
<1>3. ASSUME NEW p \in Paths, Event(p) PROVE TypeInv'
  BY <1>2, <1>3 DEF Event, Handles, channelVars, handlerVars, listenerVars, phaseVars
<1>4. ASSUME NEW p \in Paths, EventSkipped(p) PROVE TypeInv'
  BY <1>2, <1>4 DEF EventSkipped, Skips, dispatcherVars, channelVars, handlerVars,
                    listenerVars, phaseVars
<1>5. ASSUME NEW p \in Paths, HandlerStep(p) PROVE TypeInv'
  <2> USE DEF HandlerMoves, dirVars, dispatcherVars
  <2>1. CASE TimerFires(p)
    BY <2>1 DEF TimerFires, channelVars, listenerVars, phaseVars
  <2>2. CASE ReceiveUpdate(p)
    <3>1. /\ Head(updates[p]) \in Versions
          /\ Tail(updates[p]) \in Seq(Versions)
          /\ Len(Tail(updates[p])) <= UpdateCap
      BY <2>2 DEF ReceiveUpdate
    <3>2. /\ updates' \in [Paths -> Seq(Versions)]
          /\ \A q \in Paths : Len(updates'[q]) <= UpdateCap
      BY <2>2, <3>1 DEF ReceiveUpdate
    <3>3. /\ file' \in [Paths -> Versions]
          /\ handler' = [handler EXCEPT ![p] = "select"]
          /\ timer' = [timer EXCEPT ![p] = "afterfunc"]
      BY SMTT(60), <2>2, <3>1 DEF ReceiveUpdate
    <3>4. /\ countdown' \in [Paths -> 0..WriteDuration]
          /\ quiet' \in [Paths -> 0..WriteDuration]
      BY <2>2, WatcherConstants DEF ReceiveUpdate, Started
    <3> QED BY SMTT(60), <2>2, <3>2, <3>3, <3>4 DEF ReceiveUpdate
  <2>3. CASE ReceiveUpdateStuck(p)
    <3>1. /\ Head(updates[p]) \in Versions
          /\ Tail(updates[p]) \in Seq(Versions)
          /\ Len(Tail(updates[p])) <= UpdateCap
      BY <2>3 DEF ReceiveUpdateStuck
    <3> QED BY <2>3, <3>1 DEF ReceiveUpdateStuck
  <2>4. CASE WaitOver(p)
    BY <2>4 DEF WaitOver, channelVars
  <2>5. CASE NotifyLock(p)
    BY SMTT(60), <2>5 DEF NotifyLock, channelVars
  <2>6. CASE Notify(p)
    <3> DEFINE l == registered[notifying[p]]
               n == [path |-> p, version |-> file[p]]
    <3>1. l \in Listeners /\ notifying[p] \in Nat \ {0}
      BY <2>6 DEF Notify
    <3>2. n \in Notification
      BY DEF Notification
    <3>3. outgoing' \in [Listeners -> Seq(Notification)]
      BY <2>6, <3>1, <3>2 DEF Notify
    <3>4. \A k \in Listeners : Len(outgoing'[k]) <= OutgoingCap
      BY <2>6, <3>1, <3>2 DEF Notify
    <3>5. /\ notifying' \in [Paths -> Nat]
          /\ handler' = [handler EXCEPT ![p] = "notify"]
          /\ \A q \in Paths \ {p} : notifying'[q] = notifying[q]
          /\ notifying'[p] \in Nat \ {0}
      BY SMTT(60), <2>6, <3>1 DEF Notify
    <3>6. UNCHANGED <<channelVars, file, timer, countdown, quiet, panicked, dirVars,
                      dispatcherVars, registered, notified, phase>>
      BY <2>6 DEF Notify
    <3> HIDE DEF l, n
    <3>7. NotifyingKnown'
      BY <3>5
    <3> QED BY <3>3, <3>4, <3>5, <3>6, <3>7 DEF channelVars
  <2>7. CASE NotifyPanics(p)
    BY <2>7 DEF NotifyPanics, channelVars
  <2>8. CASE Notified(p)
    BY <2>8 DEF Notified, channelVars
  <2>9. CASE CloseUpdates(p)
    BY <2>9 DEF CloseUpdates
  <2>10. CASE DeleteEntry(p)
    BY <2>10 DEF DeleteEntry
  <2> QED BY <1>5, <2>1, <2>2, <2>3, <2>4, <2>5, <2>6, <2>7, <2>8, <2>9, <2>10
          DEF HandlerStep
<1>6. ASSUME DispatcherStep PROVE TypeInv'
  <2> USE DEF DispatcherMoves, dirVars, listenerVars, handlerVars, channelVars
  <2>1. CASE Lookup
    BY <2>1 DEF Lookup
  <2>2. CASE Insert
    BY SMTT(60), <2>2 DEF Insert, Versions
  <2>3. CASE TakeChannel
    BY <2>3 DEF TakeChannel
  <2>4. CASE SendUpdate
    <3>1. /\ updates' \in [Paths -> Seq(Versions)]
          /\ \A p \in Paths : Len(updates'[p]) <= UpdateCap
      BY <2>4 DEF SendUpdate
    <3> QED BY <2>4, <3>1 DEF SendUpdate
  <2>5. CASE SendPanics \/ LookupAborts
    BY <2>5 DEF SendPanics, LookupAborts
  <2> QED BY <1>6, <2>1, <2>2, <2>3, <2>4, <2>5 DEF DispatcherStep
<1>7. ASSUME NEW l \in Listeners, Register(l) PROVE TypeInv'
  BY <1>7 DEF Register, dirVars, dispatcherVars, channelVars, handlerVars, phaseVars
<1>8. ASSUME NEW l \in Listeners, Receive(l) PROVE TypeInv'
  <2>1. /\ Head(outgoing[l]) \in Notification
        /\ Tail(outgoing[l]) \in Seq(Notification)
        /\ Len(Tail(outgoing[l])) <= OutgoingCap
    BY <1>8 DEF Receive
  <2>2. outgoing' \in [Listeners -> Seq(Notification)]
    BY <1>8, <2>1 DEF Receive
  <2>3. \A k \in Listeners : Len(outgoing'[k]) <= OutgoingCap
    BY <1>8, <2>1 DEF Receive
  <2>4. notified' \in [Listeners -> [Paths -> Versions]]
    BY <1>8, <2>1 DEF Receive, Notification
  <2> QED BY <1>8, <2>2, <2>3, <2>4
          DEF Receive, dirVars, dispatcherVars, channelVars, handlerVars, phaseVars
<1>9. ASSUME Start \/ Close \/ CloseOutgoing PROVE TypeInv'
  BY <1>9 DEF Start, Close, CloseOutgoing, dirVars, dispatcherVars, channelVars,
              handlerVars, listenerVars
<1>10. ASSUME Tick PROVE TypeInv'
  <2>1. countdown' \in [Paths -> 0..WriteDuration]
    BY <1>10 DEF Tick
  <2>2. quiet' \in [Paths -> 0..WriteDuration]
    BY <1>10 DEF Tick
  <2> QED BY <1>10, <2>1, <2>2
          DEF Tick, dirVars, dispatcherVars, channelVars, listenerVars, phaseVars
<1>11. CASE UNCHANGED vars
  BY <1>11 DEF vars, dirVars, dispatcherVars, channelVars, handlerVars,
               listenerVars, phaseVars
<1> QED
  BY <1>1, <1>3, <1>4, <1>5, <1>6, <1>7, <1>8, <1>9, <1>10, <1>11 DEF Next

\* Every state of the watcher has the declared types: channels never hold more
\* than their capacity, a notification goes to a registered listener.
THEOREM TypeCorrect == Spec => []TypeOK
<1>1. TypeInv => TypeOK
  BY DEF TypeInv
<1> QED BY TypeInit, TypeStep, <1>1, PTL DEF Spec

-----------------------------------------------------------------------------

\* OneHandler is inductive: only the dispatcher inserts, only the handler itself
\* deletes, and between Lookup and Insert no entry can appear.
LEMMA HandlerStepKeeps == TypeInv /\ OneHandler /\ [Next]_vars => OneHandler'
<1> SUFFICES ASSUME TypeInv, OneHandler, [Next]_vars PROVE OneHandler'
  OBVIOUS
<1> USE DEF TypeInv, TypeOK, EventKnown, OneHandler
<1>1. ASSUME NEW p \in Paths, HandlerStep(p) PROVE OneHandler'
  <2>1. CASE DeleteEntry(p)
    BY <2>1 DEF DeleteEntry, HandlerMoves, dispatcherVars
  <2>2. CASE ~DeleteEntry(p)
    BY SMTT(60), <1>1, <2>2
       DEF HandlerStep, TimerFires, ReceiveUpdate, ReceiveUpdateStuck, WaitOver,
           NotifyLock, Notify, NotifyPanics, Notified, CloseUpdates, HandlerMoves,
           dispatcherVars, channelVars
  <2> QED BY <2>1, <2>2
<1>2. ASSUME DispatcherStep PROVE OneHandler'
  BY <1>2 DEF DispatcherStep, Lookup, LookupAborts, Insert, TakeChannel, SendUpdate, SendPanics,
              DispatcherMoves, handlerVars, channelVars
<1>3. ASSUME NEW p \in Paths, Write(p) \/ Event(p) \/ EventSkipped(p)
      PROVE  OneHandler'
  BY <1>3 DEF Write, Event, EventSkipped, Handles, Skips, dispatcherVars,
              channelVars, handlerVars
<1>4. ASSUME NEW l \in Listeners, Register(l) \/ Receive(l) PROVE OneHandler'
  BY <1>4 DEF Register, Receive, dispatcherVars, channelVars, handlerVars
<1>5. ASSUME Start \/ Tick \/ Close \/ CloseOutgoing PROVE OneHandler'
  BY <1>5 DEF Start, Tick, Close, CloseOutgoing, dispatcherVars, channelVars,
              handlerVars
<1>6. CASE UNCHANGED vars
  BY <1>6 DEF vars, dispatcherVars, channelVars, handlerVars
<1> QED BY <1>1, <1>2, <1>3, <1>4, <1>5, <1>6 DEF Next

\* A path has one handler while it has an entry in activeFilesMap and none
\* otherwise, although Lookup reads the map without its lock.
THEOREM HandlerUnique == Spec => []OneHandler
<1>1. Init => OneHandler
  BY DEF Init, OneHandler
<1>2. TypeInv /\ OneHandler /\ [Next]_vars => TypeInv' /\ OneHandler'
  BY TypeStep, HandlerStepKeeps
<1> QED BY TypeInit, <1>1, <1>2, PTL DEF Spec

-----------------------------------------------------------------------------

\* What makes QuietPeriod inductive: while the handler waits, the ticks since the
\* last update and those left to the timer add up to WriteDuration at least.
Waited(p) ==
    /\ handler[p] = "select" /\ timer[p] = "afterfunc" =>
          quiet[p] + countdown[p] >= WriteDuration
    /\ handler[p] = "select" /\ timer[p] \in {"sending", "off"} =>
          quiet[p] = WriteDuration
    /\ handler[p] \in {"lock", "notify", "close", "delete"} => quiet[p] = WriteDuration

QuietInv == \A p \in Paths : Waited(p)

\* No action lets a handler notify before its time.
LEMMA QuietStep == TypeInv /\ QuietInv /\ [Next]_vars => QuietInv'
<1> SUFFICES ASSUME TypeInv, QuietInv, [Next]_vars PROVE QuietInv'
  OBVIOUS
<1> USE DEF TypeInv, TypeOK, QuietInv, Waited
<1>1. ASSUME NEW p \in Paths, HandlerStep(p) PROVE QuietInv'
  <2> USE DEF HandlerMoves
  <2>1. CASE TimerFires(p)
    BY <2>1 DEF TimerFires
  <2>2. CASE ReceiveUpdate(p)
    BY <2>2 DEF ReceiveUpdate, Started
  <2>3. CASE ReceiveUpdateStuck(p) \/ WaitOver(p)
    BY SMTT(60), <2>3 DEF ReceiveUpdateStuck, WaitOver
  <2>4. CASE NotifyLock(p) \/ Notify(p) \/ NotifyPanics(p) \/ Notified(p)
    BY <2>4 DEF NotifyLock, Notify, NotifyPanics, Notified
  <2>5. CASE CloseUpdates(p) \/ DeleteEntry(p)
    BY <2>5 DEF CloseUpdates, DeleteEntry
  <2> QED BY <1>1, <2>1, <2>2, <2>3, <2>4, <2>5 DEF HandlerStep
<1>2. ASSUME DispatcherStep PROVE QuietInv'
  <2>1. CASE Insert
    BY <2>1 DEF Insert
  <2>2. CASE Lookup \/ LookupAborts \/ TakeChannel \/ SendUpdate \/ SendPanics
    BY <2>2 DEF Lookup, LookupAborts, TakeChannel, SendUpdate, SendPanics, handlerVars
  <2> QED BY <1>2, <2>1, <2>2 DEF DispatcherStep
<1>3. ASSUME Tick PROVE QuietInv'
  <2> SUFFICES ASSUME NEW p \in Paths PROVE Waited(p)'
    OBVIOUS
  <2>1. /\ countdown'[p] = IF countdown[p] > 0 THEN countdown[p] - 1 ELSE 0
        /\ quiet'[p] = IF handler[p] = "select" /\ quiet[p] < WriteDuration
                       THEN quiet[p] + 1 ELSE quiet[p]
        /\ handler'[p] = handler[p] /\ timer'[p] = timer[p]
    BY <1>3 DEF Tick
  <2>2. countdown[p] \in 0..WriteDuration /\ quiet[p] \in 0..WriteDuration /\ Waited(p)
    OBVIOUS
  <2> QED BY <2>1, <2>2
<1>4. ASSUME NEW p \in Paths, Write(p) \/ Event(p) \/ EventSkipped(p)
      PROVE  QuietInv'
  BY <1>4 DEF Write, Event, EventSkipped, Handles, Skips, handlerVars
<1>5. ASSUME NEW l \in Listeners, Register(l) \/ Receive(l) PROVE QuietInv'
  BY <1>5 DEF Register, Receive, handlerVars
<1>6. CASE Start \/ Close \/ CloseOutgoing \/ UNCHANGED vars
  BY <1>6 DEF Start, Close, CloseOutgoing, handlerVars, vars
<1> QED BY <1>1, <1>2, <1>3, <1>4, <1>5, <1>6 DEF Next

\* A file is notified only after WriteDuration without an update, however the
\* select of the handler, the timer and the dispatcher interleave.
THEOREM QuietCorrect == Spec => []QuietPeriod
<1>1. Init => QuietInv
  BY DEF Init, QuietInv, Waited
<1>2. QuietInv => QuietPeriod
  BY DEF QuietInv, Waited, QuietPeriod
<1>3. TypeInv /\ QuietInv /\ [Next]_vars => TypeInv' /\ QuietInv'
  BY TypeStep, QuietStep
<1> QED BY TypeInit, <1>1, <1>2, <1>3, PTL DEF Spec

-----------------------------------------------------------------------------

\* What makes UpdatesInOrder inductive: no version is newer than the file's, which is
\* what the dispatcher finds next.
Handling == dispatcher \in {"lookup", "insert", "channel", "send"}

Ordered(p) ==
    handler[p] # "none" =>
        /\ file[p] <= written[p]
        /\ \A i \in 1..Len(updates[p]) :
              file[p] <= updates[p][i] /\ updates[p][i] <= written[p]
        /\ \A i, j \in 1..Len(updates[p]) : i < j => updates[p][i] <= updates[p][j]
        /\ Handling /\ event = p =>
              /\ file[p] <= eventFile
              /\ \A i \in 1..Len(updates[p]) : updates[p][i] <= eventFile

OrderInv ==
    /\ \A p \in Paths : Ordered(p)
    /\ Handling => eventFile <= written[event]

\* A step that leaves the versions alone.
LEMMA OrderKept ==
    ASSUME OrderInv, UNCHANGED <<file, updates, event, eventFile, written>>,
           \A p \in Paths : handler'[p] # "none" => handler[p] # "none",
           Handling' => Handling
    PROVE  OrderInv'
BY DEF OrderInv, Ordered

LEMMA OrderStep == TypeInv /\ OrderInv /\ [Next]_vars => OrderInv'
<1> SUFFICES ASSUME TypeInv, OrderInv, [Next]_vars PROVE OrderInv'
  OBVIOUS
<1> USE DEF dirVars, dispatcherVars, channelVars, handlerVars, listenerVars, phaseVars
<1>t. /\ written \in [Paths -> Nat] /\ file \in [Paths -> Nat] /\ eventFile \in Nat
      /\ updates \in [Paths -> Seq(Nat)] /\ DOMAIN handler = Paths
      /\ Handling => event \in Paths
  <2>1. Versions \subseteq Nat
    BY DEF Versions
  <2>2. \A q \in Paths : updates[q] \in Seq(Nat)
    BY DEF TypeInv, TypeOK, Versions
  <2>3. DOMAIN updates = Paths /\ updates = [q \in Paths |-> updates[q]]
    BY DEF TypeInv, TypeOK
  <2>4. updates \in [Paths -> Seq(Nat)]
    BY <2>2, <2>3, Zenon
  <2> QED BY <2>1, <2>4 DEF TypeInv, TypeOK, EventKnown, Handling
<1>1. ASSUME NEW p \in Paths, Write(p) PROVE OrderInv'
  <2>1. /\ written' = [written EXCEPT ![p] = @ + 1]
        /\ UNCHANGED <<dispatcher, event, eventFile, handler, file, updates>>
    BY <1>1 DEF Write
  <2>2. \A q \in Paths : written'[q] \in Nat /\ written[q] <= written'[q]
    BY <1>t, <2>1
  <2>3. \A q \in Paths : Ordered(q)'
    <3> TAKE q \in Paths
    <3>1. Ordered(q) /\ written[q] <= written'[q] /\ written[q] \in Nat /\ written'[q] \in Nat
          /\ updates[q] \in Seq(Nat) /\ file[q] \in Nat
      BY <1>t, <2>2 DEF OrderInv
    <3> QED BY <2>1, <3>1 DEF Ordered, Handling
  <2>4. Handling' => eventFile' <= written'[event']
    BY <1>t, <2>1, <2>2 DEF OrderInv, Handling
  <2> QED BY <2>3, <2>4 DEF OrderInv
<1>2. ASSUME NEW p \in Paths, Event(p) PROVE OrderInv'
  <2>1. /\ dispatcher = "idle" /\ dispatcher' = "lookup"
        /\ event' = p /\ eventFile' = written[p]
        /\ UNCHANGED <<written, handler, file, updates>>
    BY <1>2 DEF Event, Handles
  <2>2. \A q \in Paths : Ordered(q)'
    BY <2>1 DEF OrderInv, Ordered
  <2>3. eventFile' <= written'[event']
    BY <1>t, <2>1
  <2> QED BY <2>2, <2>3 DEF OrderInv
<1>3. ASSUME Insert PROVE OrderInv'
  <2>1. /\ Handling /\ UNCHANGED <<event, eventFile, written>>
        /\ updates' = [updates EXCEPT ![event] = << >>]
        /\ handler' = [handler EXCEPT ![event] = "select"]
        /\ file' = [file EXCEPT ![event] = 0]
    BY <1>3 DEF Insert, DispatcherMoves, Handling
  <2>2. ASSUME NEW q \in Paths, q # event PROVE Ordered(q)'
    BY <1>t, <2>1, <2>2 DEF OrderInv, Ordered
  <2>3. Ordered(event)'
    <3>1. updates'[event] = << >> /\ file'[event] = 0
      BY <1>t, <2>1
    <3> QED BY <1>t, <2>1, <3>1 DEF Ordered
  <2>4. eventFile' <= written'[event']
    BY <2>1 DEF OrderInv
  <2> QED BY <2>1, <2>2, <2>3, <2>4 DEF OrderInv
<1>4. ASSUME SendUpdate PROVE OrderInv'
  <2>1. /\ Handling /\ ~Handling' /\ UNCHANGED <<event, eventFile, written, handler, file>>
        /\ updates' = [updates EXCEPT ![event] = Append(@, eventFile)]
    BY <1>4 DEF SendUpdate, DispatcherMoves, Handling
  <2>2. ASSUME NEW q \in Paths, q # event PROVE Ordered(q)'
    BY <1>t, <2>1, <2>2 DEF OrderInv, Ordered
  <2>3. Ordered(event)'
    <3> DEFINE s == updates[event]
               u == updates'[event]
    <3>1. s \in Seq(Nat) /\ u = Append(s, eventFile) /\ Ordered(event)
      BY <1>t, <2>1 DEF OrderInv
    <3>2. /\ Len(s) \in Nat /\ Len(u) = Len(s) + 1
          /\ \A i \in 1..Len(s) : u[i] = s[i] /\ s[i] \in Nat
          /\ u[Len(s) + 1] = eventFile
      BY <1>t, <3>1
    <3>3. \A i \in 1..Len(u) : i = Len(s) + 1 \/ i \in 1..Len(s)
      BY <3>2
    <3> HIDE DEF s, u
    <3>4. ASSUME handler[event] # "none"
          PROVE  /\ file[event] <= written[event]
                 /\ \A i \in 1..Len(u) : file[event] <= u[i] /\ u[i] <= written[event]
                 /\ \A i, j \in 1..Len(u) : i < j => u[i] <= u[j]
      <4>1. /\ file[event] <= written[event]
            /\ \A i \in 1..Len(s) : file[event] <= s[i] /\ s[i] <= written[event]
            /\ \A i, j \in 1..Len(s) : i < j => s[i] <= s[j]
            /\ file[event] <= eventFile /\ eventFile <= written[event]
            /\ \A i \in 1..Len(s) : s[i] <= eventFile
        BY <2>1, <3>1, <3>4 DEF Ordered, OrderInv, s
      <4>2. \A i \in 1..Len(u) : file[event] <= u[i] /\ u[i] <= written[event]
        BY <3>2, <3>3, <4>1
      <4>3. \A i, j \in 1..Len(u) : i < j => u[i] <= u[j]
        BY <3>2, <3>3, <4>1
      <4> QED BY <4>1, <4>2, <4>3
    <3> QED BY <2>1, <3>4 DEF Ordered, u
  <2> QED BY <2>1, <2>2, <2>3 DEF OrderInv
<1>5. ASSUME NEW p \in Paths, ReceiveUpdate(p) \/ ReceiveUpdateStuck(p) PROVE OrderInv'
  <2>1. /\ UNCHANGED <<dispatcher, event, eventFile, written>>
        /\ updates[p] # << >> /\ handler[p] # "none"
        /\ updates' = [updates EXCEPT ![p] = Tail(@)]
        /\ file' = [file EXCEPT ![p] = Head(updates[p])]
        /\ \A q \in Paths : handler'[q] # "none" => handler[q] # "none"
    BY <1>5, <1>t DEF ReceiveUpdate, ReceiveUpdateStuck, HandlerMoves
  <2>2. ASSUME NEW q \in Paths, q # p PROVE Ordered(q)'
    BY <1>t, <2>1, <2>2 DEF OrderInv, Ordered, Handling
  <2>3. Ordered(p)'
    <3> DEFINE s == updates[p]
               u == updates'[p]
    <3>1. s \in Seq(Nat) /\ s # << >> /\ u = Tail(s) /\ file'[p] = Head(s) /\ Ordered(p)
      BY <1>t, <2>1 DEF OrderInv
    <3>2. /\ Len(s) \in Nat \ {0} /\ Len(u) = Len(s) - 1
          /\ \A i \in 1..Len(u) : u[i] = s[i + 1] /\ i + 1 \in 1..Len(s) /\ 1 < i + 1
          /\ file'[p] = s[1] /\ 1 \in 1..Len(s)
      BY <3>1
    <3> HIDE DEF s, u
    <3>3. /\ \A i \in 1..Len(s) : s[i] <= written[p]
          /\ \A i, j \in 1..Len(s) : i < j => s[i] <= s[j]
          /\ Handling /\ event = p => \A i \in 1..Len(s) : s[i] <= eventFile
      BY <2>1, <3>1 DEF Ordered, s
    <3>4. /\ file'[p] <= written[p]
          /\ \A i \in 1..Len(u) : file'[p] <= u[i] /\ u[i] <= written[p]
          /\ \A i, j \in 1..Len(u) : i < j => u[i] <= u[j]
      <4>1. \A i, j \in 1..Len(u) : i < j => i + 1 < j + 1
        OBVIOUS
      <4> QED BY <3>2, <3>3, <4>1
    <3>5. Handling /\ event = p => file'[p] <= eventFile /\ \A i \in 1..Len(u) : u[i] <= eventFile
      BY <3>2, <3>3
    <3> QED BY <2>1, <3>4, <3>5 DEF Ordered, u, Handling
  <2>4. Handling' => eventFile' <= written'[event']
    BY <2>1 DEF OrderInv, Handling
  <2> QED BY <2>2, <2>3, <2>4 DEF OrderInv
<1>6. ASSUME NEW p \in Paths, HandlerStep(p), ~ReceiveUpdate(p), ~ReceiveUpdateStuck(p)
      PROVE  OrderInv'
  <2>1. /\ UNCHANGED <<file, updates, dispatcher, event, eventFile, written>>
        /\ \A q \in Paths : handler'[q] # "none" => handler[q] # "none"
    BY <1>6, <1>t DEF HandlerStep, TimerFires, WaitOver, NotifyLock, Notify, NotifyPanics,
        Notified, CloseUpdates, DeleteEntry, HandlerMoves
  <2> QED BY <2>1, OrderKept DEF Handling
<1>7. ASSUME Lookup \/ LookupAborts \/ TakeChannel \/ SendPanics PROVE OrderInv'
  <2>1. UNCHANGED <<file, updates, handler, event, eventFile, written>> /\ (Handling' => Handling)
    BY <1>7 DEF Lookup, LookupAborts, TakeChannel, SendPanics, DispatcherMoves, Handling
  <2> QED BY <2>1, OrderKept
<1>8. ASSUME \/ \E p \in Paths : EventSkipped(p)
             \/ \E l \in Listeners : Register(l) \/ Receive(l)
             \/ Start \/ Tick \/ Close \/ CloseOutgoing \/ UNCHANGED vars
      PROVE  OrderInv'
  <2>1. UNCHANGED <<file, updates, handler, dispatcher, event, eventFile, written>>
    BY <1>8 DEF EventSkipped, Skips, Register, Receive, Start, Tick, Close, CloseOutgoing, vars
  <2> QED BY <2>1, OrderKept DEF Handling
<1> QED BY <1>1, <1>2, <1>3, <1>4, <1>5, <1>6, <1>7, <1>8 DEF Next, DispatcherStep, HandlerStep

\* A version, versions in order after it, and another one after these.
LEMMA Line ==
    ASSUME NEW a \in Nat, NEW s \in Seq(Nat), NEW e \in Seq(Nat), Len(e) <= 1,
           \A i \in 1..Len(s) : a <= s[i],
           \A i, j \in 1..Len(s) : i < j => s[i] <= s[j],
           Len(e) = 1 => a <= e[1] /\ \A i \in 1..Len(s) : s[i] <= e[1]
    PROVE  LET t == (<< a >> \o s) \o e
           IN  \A i, j \in 1..Len(t) : i < j => t[i] <= t[j]
<1> DEFINE h == << a >> \o s
           t == h \o e
<1>1. /\ h \in Seq(Nat) /\ Len(h) = Len(s) + 1 /\ Len(s) \in Nat /\ Len(e) \in {0, 1}
      /\ \A i \in 1..Len(h) : h[i] = IF i = 1 THEN a ELSE s[i - 1]
  OBVIOUS
<1> HIDE DEF h
<1>2. /\ Len(t) = Len(h) + Len(e)
      /\ \A i \in 1..Len(t) : t[i] = IF i <= Len(h) THEN h[i] ELSE e[i - Len(h)]
  BY <1>1
<1> HIDE DEF t
<1>3. \A i, j \in 1..Len(h) : i < j => h[i] <= h[j]
  <2> SUFFICES ASSUME NEW i \in 1..Len(h), NEW j \in 1..Len(h), i < j PROVE h[i] <= h[j]
    OBVIOUS
  <2>1. j - 1 \in 1..Len(s) /\ h[j] = s[j - 1]
    BY <1>1
  <2>2. CASE i = 1
    BY <1>1, <2>1, <2>2
  <2>3. CASE i # 1
    <3>1. i - 1 \in 1..Len(s) /\ h[i] = s[i - 1] /\ i - 1 < j - 1
      BY <1>1, <2>3
    <3> QED BY <2>1, <3>1
  <2> QED BY <2>2, <2>3
<1>4. Len(e) = 1 => \A i \in 1..Len(h) : h[i] <= e[1]
  <2> SUFFICES ASSUME Len(e) = 1, NEW i \in 1..Len(h) PROVE h[i] <= e[1]
    OBVIOUS
  <2>1. i # 1 => i - 1 \in 1..Len(s)
    BY <1>1
  <2> QED BY <1>1, <2>1
<1>5. SUFFICES ASSUME NEW i \in 1..Len(t), NEW j \in 1..Len(t), i < j PROVE t[i] <= t[j]
  BY DEF t, h
<1>0. /\ Len(h) \in Nat /\ Len(e) \in {0, 1} /\ Len(t) = Len(h) + Len(e)
      /\ i \in Nat /\ j \in Nat /\ 1 <= i /\ i < j /\ j <= Len(h) + Len(e)
  BY <1>1, <1>2, <1>5
<1>6. CASE j <= Len(h)
  <2>1. i \in 1..Len(h) /\ j \in 1..Len(h)
    BY <1>0, <1>6
  <2>2. t[i] = h[i] /\ t[j] = h[j]
    BY <1>0, <1>2, <1>6, <2>1
  <2> QED BY <1>3, <1>5, <2>1, <2>2
<1>7. CASE j > Len(h)
  <2>1. Len(h) + 1 <= j /\ j <= Len(h) + Len(e)
    BY <1>0, <1>7
  <2>2. Len(e) # 0
    BY <1>0, <2>1
  <2>3. Len(e) = 1
    BY <1>0, <2>2
  <2>4. j = Len(h) + 1
    <3>1. Len(h) + Len(e) = Len(h) + 1
      BY <2>3, Zenon
    <3>2. j <= Len(h) + 1
      BY <2>1, <3>1, Zenon
    <3>3. \A x, y \in Nat : y + 1 <= x /\ x <= y + 1 => x = y + 1
      OBVIOUS
    <3> QED BY <1>0, <2>1, <3>2, <3>3, Zenon
  <2>5. j \in 1..Len(t) /\ ~(j <= Len(h)) /\ j - Len(h) = 1
    BY <1>0, <2>4
  <2>6. t[j] = e[1]
    BY <1>2, <2>5
  <2>7. i <= Len(h)
    BY <1>0, <2>4
  <2>8. i \in 1..Len(h) /\ i \in 1..Len(t)
    BY <1>0, <2>7
  <2>9. t[i] = h[i]
    BY <1>2, <2>7, <2>8
  <2> QED BY <1>4, <2>3, <2>6, <2>8, <2>9
<1>8. j <= Len(h) \/ j > Len(h)
  BY <1>0
<1> QED BY <1>6, <1>7, <1>8

\* What a handler holds, what waits for it and what the dispatcher is about to send it
\* are in the order of the writes (filewatcher.go:175, 188-191).
THEOREM OrderCorrect == Spec => []UpdatesInOrder
<1>1. Init => OrderInv
  BY DEF Init, OrderInv, Ordered, Handling
<1>2. TypeInv /\ OrderInv => UpdatesInOrder
  <2> SUFFICES ASSUME TypeInv, OrderInv, NEW p \in Paths
               PROVE  \A i, j \in 1..Len(Pending(p)) : i < j => Pending(p)[i] <= Pending(p)[j]
    BY DEF UpdatesInOrder
  <2> DEFINE e == IF event = p /\ Handling THEN << eventFile >> ELSE << >>
  <2>1. /\ file[p] \in Nat /\ updates[p] \in Seq(Nat) /\ eventFile \in Nat /\ Ordered(p)
        /\ e \in Seq(Nat) /\ Len(e) <= 1 /\ (Len(e) = 1 => e[1] = eventFile /\ event = p /\ Handling)
    BY DEF TypeInv, TypeOK, Versions, OrderInv
  <2>2. CASE handler[p] = "none"
    <3>1. Pending(p) = e
      BY <2>1, <2>2 DEF Pending, Handling
    <3> QED BY <2>1, <3>1
  <2>3. CASE handler[p] # "none"
    <3>1. Pending(p) = (<< file[p] >> \o updates[p]) \o e
      BY <2>3 DEF Pending, Handling
    <3> HIDE DEF e
    <3> QED BY <2>1, <2>3, <3>1, Line DEF Ordered
  <2> QED BY <2>2, <2>3
<1>3. Spec => [](TypeInv /\ OrderInv)
  BY <1>1, TypeInit, TypeStep, OrderStep, PTL DEF Spec
<1> QED BY <1>2, <1>3, PTL

-----------------------------------------------------------------------------

\* Version v of a file is no newer than what may still be notified of it: what its
\* handler holds once it has received anything, what waits in its channel, what the
\* dispatcher is about to send, and what is written.
NoNewer(p, v) ==
    /\ v <= written[p]
    /\ handler[p] # "none" =>
          /\ \A i \in 1..Len(updates[p]) : v <= updates[p][i]
          /\ handler[p] # "select" \/ timer[p] # "initial" => v <= file[p]
    /\ Handling /\ event = p => v <= eventFile

\* What a listener was told, and what waits for it, in this sense.
ToldIsOld ==
    \A l \in Listeners :
        /\ \A p \in Paths : NoNewer(p, notified[l][p])
        /\ \A i \in 1..Len(outgoing[l]) : NoNewer(outgoing[l][i].path, outgoing[l][i].version)

\* The notifications that wait for a listener are in order, path by path.
FeedInOrder ==
    \A l \in Listeners : \A i \in 1..Len(outgoing[l]) :
        /\ notified[l][outgoing[l][i].path] <= outgoing[l][i].version
        /\ \A j \in 1..Len(outgoing[l]) :
              i < j /\ outgoing[l][i].path = outgoing[l][j].path =>
                  outgoing[l][i].version <= outgoing[l][j].version

FeedInv == ToldIsOld /\ FeedInOrder

\* A version that is no newer than what may be notified stays so in every step.
LEMMA NoNewerKept ==
    ASSUME TypeInv, OrderInv, [Next]_vars, NEW p \in Paths, NEW v \in Nat, NoNewer(p, v)
    PROVE  NoNewer(p, v)'
<1> USE DEF dirVars, dispatcherVars, channelVars, handlerVars, listenerVars, phaseVars
<1>t. /\ written \in [Paths -> Nat] /\ file \in [Paths -> Nat] /\ eventFile \in Nat
      /\ \A q \in Paths : updates[q] \in Seq(Nat)
      /\ DOMAIN updates = Paths /\ DOMAIN handler = Paths /\ DOMAIN timer = Paths
      /\ Handling => event \in Paths
  <2>1. Versions \subseteq Nat
    BY DEF Versions
  <2>2. \A q \in Paths : updates[q] \in Seq(Nat)
    <3>1. \A q \in Paths : updates[q] \in Seq(Versions)
      BY DEF TypeInv, TypeOK
    <3>2. \A u \in Seq(Versions) : u \in Seq(Nat)
      BY DEF Versions
    <3> QED BY <3>1, <3>2
  <2>3. /\ written \in [Paths -> Nat] /\ file \in [Paths -> Nat] /\ eventFile \in Nat
    BY <2>1 DEF TypeInv, TypeOK
  <2>4. DOMAIN updates = Paths /\ DOMAIN handler = Paths /\ DOMAIN timer = Paths
    BY DEF TypeInv, TypeOK
  <2>5. Handling => event \in Paths
    BY DEF TypeInv, EventKnown, Handling
  <2> QED BY <2>2, <2>3, <2>4, <2>5
\* What leaves versions and handler where they are, or ends the handler.
<1>k. ASSUME UNCHANGED <<written, file, updates, event, eventFile>>,
             Handling' => Handling,
             handler'[p] # "none" =>
                 /\ handler[p] # "none"
                 /\ handler'[p] # "select" \/ timer'[p] # "initial" =>
                       handler[p] # "select" \/ timer[p] # "initial"
      PROVE  NoNewer(p, v)'
  BY <1>k DEF NoNewer
<1>1. ASSUME NEW q \in Paths, Write(q) PROVE NoNewer(p, v)'
  <2>1. /\ written[p] <= written'[p]
        /\ UNCHANGED <<dispatcher, event, eventFile, handler, timer, file, updates>>
    BY <1>1, <1>t DEF Write
  <2>2. written'[p] \in Nat /\ written[p] \in Nat
    BY <1>1, <1>t DEF Write
  <2> QED BY <2>1, <2>2 DEF NoNewer, Handling
<1>2. ASSUME NEW q \in Paths, Event(q) PROVE NoNewer(p, v)'
  <2>1. event' = q /\ eventFile' = written[q]
        /\ UNCHANGED <<written, handler, timer, file, updates>>
    BY <1>2 DEF Event, Handles
  <2> QED BY <2>1 DEF NoNewer
<1>3. ASSUME Insert PROVE NoNewer(p, v)'
  <2>1. /\ Handling /\ UNCHANGED <<event, eventFile, written>>
        /\ updates' = [updates EXCEPT ![event] = << >>]
        /\ handler' = [handler EXCEPT ![event] = "select"]
        /\ timer' = [timer EXCEPT ![event] = "initial"]
        /\ file' = [file EXCEPT ![event] = 0]
    BY <1>3 DEF Insert, DispatcherMoves, Handling
  <2>2. CASE p = event
    <3>1. updates'[p] = << >> /\ handler'[p] = "select" /\ timer'[p] = "initial"
      BY <1>t, <2>1, <2>2
    <3> QED BY <2>1, <3>1 DEF NoNewer
  <2>3. CASE p # event
    <3>1. /\ updates'[p] = updates[p] /\ handler'[p] = handler[p]
          /\ timer'[p] = timer[p] /\ file'[p] = file[p]
      BY <1>t, <2>1, <2>3
    <3> QED BY <2>1, <2>3, <3>1 DEF NoNewer
  <2> QED BY <2>2, <2>3
<1>4. ASSUME SendUpdate PROVE NoNewer(p, v)'
  <2>1. /\ Handling /\ ~Handling' /\ UNCHANGED <<event, written, handler, timer, file>>
        /\ updates' = [updates EXCEPT ![event] = Append(@, eventFile)]
    BY <1>4 DEF SendUpdate, DispatcherMoves, Handling
  <2>2. CASE p = event
    <3> DEFINE s == updates[p]
               u == updates'[p]
    <3>1. s \in Seq(Nat) /\ u = Append(s, eventFile)
      BY <1>t, <2>1, <2>2
    <3>2. \A i \in 1..Len(u) : u[i] = eventFile \/ (i \in 1..Len(s) /\ u[i] = s[i])
      BY <1>t, <3>1
    <3> QED BY <2>1, <2>2, <3>2 DEF NoNewer
  <2>3. CASE p # event
    BY <1>t, <2>1, <2>3 DEF NoNewer
  <2> QED BY <2>2, <2>3
<1>5. ASSUME NEW q \in Paths, ReceiveUpdate(q) \/ ReceiveUpdateStuck(q) PROVE NoNewer(p, v)'
  <2>1. /\ UNCHANGED <<dispatcher, event, eventFile, written>>
        /\ updates[q] # << >> /\ handler[q] = "select"
        /\ updates' = [updates EXCEPT ![q] = Tail(@)]
        /\ file' = [file EXCEPT ![q] = Head(updates[q])]
        /\ \A r \in Paths : r # q => handler'[r] = handler[r] /\ timer'[r] = timer[r]
    BY <1>5, <1>t DEF ReceiveUpdate, ReceiveUpdateStuck, HandlerMoves
  <2>2. CASE p = q
    <3> DEFINE s == updates[p]
               u == updates'[p]
    <3>1. s \in Seq(Nat) /\ s # << >> /\ u = Tail(s) /\ file'[p] = Head(s)
      BY <1>t, <2>1, <2>2
    <3>2. /\ \A i \in 1..Len(u) : i + 1 \in 1..Len(s) /\ u[i] = s[i + 1]
          /\ 1 \in 1..Len(s) /\ file'[p] = s[1]
      BY <3>1
    <3>3. \A i \in 1..Len(s) : v <= s[i]
      BY <2>1, <2>2 DEF NoNewer
    <3> HIDE DEF s
    <3>4. v <= file'[p] /\ \A i \in 1..Len(u) : v <= u[i]
      BY <3>2, <3>3
    <3> QED BY <2>1, <3>4 DEF NoNewer, Handling
  <2>3. CASE p # q
    <3>1. /\ updates'[p] = updates[p] /\ handler'[p] = handler[p]
          /\ timer'[p] = timer[p] /\ file'[p] = file[p]
      BY <1>t, <2>1, <2>3
    <3> QED BY <2>1, <3>1 DEF NoNewer, Handling
  <2> QED BY <2>2, <2>3
<1>6. ASSUME NEW q \in Paths, HandlerStep(q), ~ReceiveUpdate(q), ~ReceiveUpdateStuck(q)
      PROVE  NoNewer(p, v)'
  <2>1. /\ UNCHANGED <<file, updates, dispatcher, event, eventFile, written>>
        /\ \/ /\ UNCHANGED handler /\ timer[q] = "afterfunc"
              /\ timer' = [timer EXCEPT ![q] = "sending"]
           \/ /\ handler[q] = "select" /\ timer[q] = "sending"
              /\ timer' = [timer EXCEPT ![q] = "off"]
              /\ handler'[q] # "none"
              /\ \A r \in Paths : r # q => handler'[r] = handler[r]
           \/ /\ UNCHANGED timer /\ handler[q] \notin {"none", "select"}
              /\ \A r \in Paths : r # q => handler'[r] = handler[r]
    BY <1>6, <1>t DEF HandlerStep, TimerFires, WaitOver, NotifyLock, Notify, NotifyPanics,
        Notified, CloseUpdates, DeleteEntry, HandlerMoves
  <2>2. handler'[p] # "none" =>
           /\ handler[p] # "none"
           /\ handler'[p] # "select" \/ timer'[p] # "initial" =>
                 handler[p] # "select" \/ timer[p] # "initial"
    BY <1>t, <2>1
  <2> QED BY <1>k, <2>1, <2>2 DEF Handling
<1>7. ASSUME \/ Lookup \/ LookupAborts \/ TakeChannel \/ SendPanics
             \/ \E q \in Paths : EventSkipped(q)
             \/ \E l \in Listeners : Register(l) \/ Receive(l)
             \/ Start \/ Tick \/ Close \/ CloseOutgoing \/ UNCHANGED vars
      PROVE  NoNewer(p, v)'
  <2>1. UNCHANGED <<file, updates, handler, timer, event, eventFile, written>>
        /\ (Handling' => Handling)
    BY <1>7 DEF Lookup, LookupAborts, TakeChannel, SendPanics, DispatcherMoves, EventSkipped, Skips,
        Register, Receive, Start, Tick, Close, CloseOutgoing, vars, Handling
  <2> QED BY <1>k, <2>1
<1> QED BY <1>1, <1>2, <1>3, <1>4, <1>5, <1>6, <1>7 DEF Next, DispatcherStep

\* What listeners have.
LEMMA ListenerTypes ==
    ASSUME TypeInv, NEW l \in Listeners
    PROVE  /\ outgoing[l] \in Seq(Notification) /\ Len(outgoing[l]) \in Nat
           /\ \A p \in Paths : notified[l][p] \in Nat
           /\ \A i \in 1..Len(outgoing[l]) :
                 /\ outgoing[l][i] \in Notification
                 /\ outgoing[l][i].path \in Paths /\ outgoing[l][i].version \in Nat
<1>1. outgoing[l] \in Seq(Notification) /\ \A p \in Paths : notified[l][p] \in Nat
  BY DEF TypeInv, TypeOK, Versions
<1>2. \A n \in Notification : n.path \in Paths /\ n.version \in Nat
  BY DEF Notification, Versions
<1>3. Len(outgoing[l]) \in Nat /\ \A i \in 1..Len(outgoing[l]) : outgoing[l][i] \in Notification
  BY <1>1
<1> QED BY <1>1, <1>2, <1>3

\* And what they have after a step.
LEMMA ListenerTypesNext ==
    ASSUME TypeInv', NEW l \in Listeners
    PROVE  /\ \A p \in Paths : notified'[l][p] \in Nat
           /\ \A i \in 1..Len(outgoing'[l]) :
                 outgoing'[l][i].path \in Paths /\ outgoing'[l][i].version \in Nat
<1>1. outgoing'[l] \in Seq(Notification) /\ \A p \in Paths : notified'[l][p] \in Nat
  BY DEF TypeInv, TypeOK, Versions
<1>2. \A n \in Notification : n.path \in Paths /\ n.version \in Nat
  BY DEF Notification, Versions
<1> QED BY <1>1, <1>2

\* Version v of file p is what listener l was told last, or waits for it.
Told(l, p, v) ==
    \/ v = notified[l][p]
    \/ \E i \in 1..Len(outgoing[l]) : outgoing[l][i].path = p /\ outgoing[l][i].version = v

\* What listeners were told was no newer before, or is the file that is notified.
LEMMA ToldIsOldStep ==
    ASSUME TypeInv, TypeInv', OrderInv, ToldIsOld, [Next]_vars,
           \A l \in Listeners, p \in Paths, v \in Nat :
               Told(l, p, v)' => Told(l, p, v) \/ (handler[p] = "notify" /\ v = file[p])
    PROVE  ToldIsOld'
<1>1. ASSUME NEW l \in Listeners, NEW p \in Paths, NEW v \in Nat, Told(l, p, v)'
      PROVE  NoNewer(p, v)'
  <2>1. CASE Told(l, p, v)
    <3>1. NoNewer(p, v)
      BY <2>1 DEF Told, ToldIsOld
    <3> QED BY <3>1, NoNewerKept
  <2>2. CASE handler[p] = "notify" /\ v = file[p]
    <3>1. NoNewer(p, v)
      BY <2>2 DEF OrderInv, Ordered, NoNewer
    <3> QED BY <3>1, NoNewerKept
  <2> QED BY <1>1, <2>1, <2>2
<1> SUFFICES ASSUME NEW l \in Listeners
             PROVE  /\ \A p \in Paths : NoNewer(p, notified[l][p])'
                    /\ \A i \in 1..Len(outgoing'[l]) :
                          NoNewer(outgoing[l][i].path, outgoing[l][i].version)'
  BY DEF ToldIsOld
<1>2. /\ \A p \in Paths : notified'[l][p] \in Nat
      /\ \A i \in 1..Len(outgoing'[l]) :
            outgoing'[l][i].path \in Paths /\ outgoing'[l][i].version \in Nat
  BY ListenerTypesNext
<1>3. ASSUME NEW p \in Paths PROVE NoNewer(p, notified[l][p])'
  <2>1. PICK v \in Nat : v = notified'[l][p]
    BY <1>2
  <2>2. NoNewer(p, v)'
    BY <1>1, <2>1 DEF Told
  <2> QED BY <2>1, <2>2 DEF NoNewer
<1>4. ASSUME NEW i \in 1..Len(outgoing'[l])
      PROVE  NoNewer(outgoing[l][i].path, outgoing[l][i].version)'
  <2>1. PICK p \in Paths, v \in Nat : p = outgoing'[l][i].path /\ v = outgoing'[l][i].version
    BY <1>2, <1>4
  <2>2. NoNewer(p, v)'
    BY <1>1, <1>4, <2>1 DEF Told
  <2> QED BY <2>1, <2>2 DEF NoNewer
<1> QED BY <1>3, <1>4

\* Every step keeps the feeds in order, and tells nobody of an older version.
LEMMA FeedStep ==
    ASSUME TypeInv, TypeInv', OrderInv, FeedInv, [Next]_vars
    PROVE  /\ FeedInv'
           /\ \A l \in Listeners, p \in Paths : notified[l][p] <= notified'[l][p]
<1> DEFINE Goal == /\ FeedInv'
                   /\ \A l \in Listeners, p \in Paths : notified[l][p] <= notified'[l][p]
<1>t. \A l \in Listeners, p \in Paths : notified[l][p] \in Nat
  BY ListenerTypes
<1>1. ASSUME UNCHANGED <<outgoing, notified>> PROVE Goal
  <2>1. ToldIsOld'
    BY <1>1, ToldIsOldStep DEF Told, FeedInv
  <2>2. FeedInOrder'
    BY <1>1 DEF FeedInv, FeedInOrder
  <2> QED BY <1>1, <1>t, <2>1, <2>2 DEF FeedInv
<1>2. ASSUME NEW p \in Paths, Notify(p) PROVE Goal
  <2> DEFINE l == registered[notifying[p]]
             n == [path |-> p, version |-> file[p]]
             s == outgoing[l]
             u == outgoing'[l]
  <2>1. l \in Listeners
    BY <1>2 DEF Notify, HandlerMoves, TypeInv, TypeOK, NotifyingKnown
  <2>2. /\ handler[p] = "notify" /\ UNCHANGED notified
        /\ outgoing' = [outgoing EXCEPT ![l] = Append(@, n)]
    BY <1>2 DEF Notify, HandlerMoves
  <2> HIDE DEF l
  <2>3. /\ u = Append(s, n) /\ \A k \in Listeners : k # l => outgoing'[k] = outgoing[k]
        /\ s \in Seq(Notification) /\ n.path = p /\ n.version = file[p]
    BY <2>1, <2>2, ListenerTypes DEF TypeInv, TypeOK
  <2>4. /\ Len(s) \in Nat /\ Len(u) = Len(s) + 1 /\ u[Len(u)] = n
        /\ \A i \in 1..Len(u) : i = Len(u) \/ (i \in 1..Len(s) /\ u[i] = s[i])
    BY <2>3
  <2>5. ToldIsOld'
    <3>1. ASSUME NEW k \in Listeners, NEW q \in Paths, NEW v \in Nat, Told(k, q, v)'
          PROVE  Told(k, q, v) \/ (handler[q] = "notify" /\ v = file[q])
      BY <2>2, <2>3, <2>4, <3>1 DEF Told
    <3> QED BY <3>1, ToldIsOldStep DEF FeedInv
  <2>6. FeedInOrder'
    <3>1. \A i \in 1..Len(s) : s[i].path = p => s[i].version <= file[p]
      BY <2>1, <2>2 DEF FeedInv, ToldIsOld, NoNewer
    <3>2. notified[l][p] <= file[p]
      BY <2>1, <2>2 DEF FeedInv, ToldIsOld, NoNewer
    <3>3. ASSUME NEW i \in 1..Len(u)
          PROVE  /\ notified[l][u[i].path] <= u[i].version
                 /\ \A j \in 1..Len(u) : i < j /\ u[i].path = u[j].path =>
                                            u[i].version <= u[j].version
      <4>1. /\ notified[l][u[i].path] <= u[i].version
        BY <2>1, <2>3, <2>4, <3>2 DEF FeedInv, FeedInOrder
      <4>2. ASSUME NEW j \in 1..Len(u), i < j, u[i].path = u[j].path
            PROVE  u[i].version <= u[j].version
        <5>1. i \in 1..Len(s) /\ u[i] = s[i]
          BY <2>4, <4>2
        <5>2. CASE j = Len(u)
          BY <2>3, <2>4, <3>1, <4>2, <5>1, <5>2
        <5>3. CASE j \in 1..Len(s) /\ u[j] = s[j]
          BY <2>1, <4>2, <5>1, <5>3 DEF FeedInv, FeedInOrder
        <5> QED BY <2>4, <5>2, <5>3
      <4> QED BY <4>1, <4>2
    <3> QED BY <2>2, <2>3, <3>3 DEF FeedInv, FeedInOrder
  <2> QED BY <1>t, <2>2, <2>5, <2>6 DEF FeedInv
<1>3. ASSUME NEW l \in Listeners, Receive(l) PROVE Goal
  <2> DEFINE s == outgoing[l]
             u == outgoing'[l]
             n == s[1]
  <2>1. /\ s # << >> /\ s \in Seq(Notification) /\ Head(s) = n /\ n \in Notification
        /\ n.path \in Paths /\ n.version \in Nat /\ 1 \in 1..Len(s)
    <3>1. s # << >> /\ s \in Seq(Notification)
      BY <1>3, ListenerTypes DEF Receive
    <3>2. Head(s) = s[1] /\ 1 \in 1..Len(s)
      BY <3>1
    <3> QED BY <3>1, <3>2, ListenerTypes
  <2>2. /\ \A k \in Listeners : k # l => outgoing'[k] = outgoing[k] /\ notified'[k] = notified[k]
        /\ u = Tail(s)
        /\ \A q \in Paths : notified'[l][q] = IF q = n.path THEN n.version ELSE notified[l][q]
    BY <1>3, <2>1 DEF Receive, TypeInv, TypeOK
  <2>3. \A i \in 1..Len(u) : i + 1 \in 1..Len(s) /\ u[i] = s[i + 1] /\ 1 < i + 1
    BY <2>1, <2>2
  <2>o. /\ notified[l][n.path] <= n.version
        /\ \A i \in 1..Len(s) : /\ s[i].path \in Paths /\ s[i].version \in Nat
                                /\ notified[l][s[i].path] <= s[i].version
        /\ \A i, j \in 1..Len(s) : i < j /\ s[i].path = s[j].path => s[i].version <= s[j].version
    BY <2>1, ListenerTypes DEF FeedInv, FeedInOrder
  <2> HIDE DEF s, u
  <2>4. ToldIsOld'
    <3>1. ASSUME NEW k \in Listeners, NEW q \in Paths, NEW v \in Nat, Told(k, q, v)'
          PROVE  Told(k, q, v)
      <4>1. CASE k # l
        BY <2>2, <3>1, <4>1 DEF Told
      <4>2. CASE k = l
        <5>1. Told(l, q, v) <=> (v = notified[l][q] \/ \E i \in 1..Len(s) : s[i].path = q /\ s[i].version = v)
          BY DEF Told, s
        <5>2. v = notified'[l][q] \/ \E i \in 1..Len(u) : u[i].path = q /\ u[i].version = v
          BY <3>1, <4>2 DEF Told, u
        <5> QED BY <2>1, <2>2, <2>3, <4>2, <5>1, <5>2
      <4> QED BY <4>1, <4>2
    <3> QED BY <3>1, ToldIsOldStep DEF FeedInv
  <2>5. FeedInOrder'
    <3>1. ASSUME NEW i \in 1..Len(u)
          PROVE  /\ notified'[l][u[i].path] <= u[i].version
                 /\ \A j \in 1..Len(u) : i < j /\ u[i].path = u[j].path =>
                                            u[i].version <= u[j].version
      <4>1. i + 1 \in 1..Len(s) /\ u[i] = s[i + 1] /\ 1 < i + 1
        BY <2>3
      <4>2. notified'[l][u[i].path] <= u[i].version
        BY <2>1, <2>2, <2>o, <4>1
      <4>3. ASSUME NEW j \in 1..Len(u), i < j, u[i].path = u[j].path
            PROVE  u[i].version <= u[j].version
        <5>1. j + 1 \in 1..Len(s) /\ u[j] = s[j + 1] /\ i + 1 < j + 1
          BY <2>3, <4>3
        <5> QED BY <2>o, <4>1, <4>3, <5>1
      <4> QED BY <4>2, <4>3
    <3>2. ASSUME NEW k \in Listeners, k # l, NEW i \in 1..Len(outgoing'[k])
          PROVE  /\ notified'[k][outgoing'[k][i].path] <= outgoing'[k][i].version
                 /\ \A j \in 1..Len(outgoing'[k]) :
                       i < j /\ outgoing'[k][i].path = outgoing'[k][j].path =>
                           outgoing'[k][i].version <= outgoing'[k][j].version
      BY <2>2, <3>2 DEF FeedInv, FeedInOrder
    <3> QED BY <3>1, <3>2 DEF FeedInOrder, u
  <2>6. \A k \in Listeners, q \in Paths : notified[k][q] <= notified'[k][q]
    BY <1>t, <2>2, <2>o
  <2> QED BY <2>4, <2>5, <2>6 DEF FeedInv
<1>4. ASSUME ~\E p \in Paths : Notify(p), ~\E l \in Listeners : Receive(l)
      PROVE  UNCHANGED <<outgoing, notified>>
  <2> USE DEF listenerVars
  <2>1. ASSUME NEW p \in Paths, HandlerStep(p) PROVE UNCHANGED <<outgoing, notified>>
    BY <1>4, <2>1 DEF HandlerStep, TimerFires, ReceiveUpdate, ReceiveUpdateStuck, WaitOver,
        NotifyLock, NotifyPanics, Notified, CloseUpdates, DeleteEntry, HandlerMoves
  <2>2. ASSUME DispatcherStep PROVE UNCHANGED <<outgoing, notified>>
    BY <2>2 DEF DispatcherStep, Lookup, LookupAborts, Insert, TakeChannel, SendUpdate, SendPanics,
        DispatcherMoves
  <2>3. ASSUME NEW p \in Paths, Write(p) \/ Event(p) \/ EventSkipped(p)
        PROVE  UNCHANGED <<outgoing, notified>>
    BY <2>3 DEF Write, Event, EventSkipped, Handles, Skips
  <2>4. ASSUME \/ \E l \in Listeners : Register(l)
               \/ Start \/ Tick \/ Close \/ CloseOutgoing \/ UNCHANGED vars
        PROVE  UNCHANGED <<outgoing, notified>>
    BY <2>4 DEF Register, Start, Tick, Close, CloseOutgoing, vars
  <2> QED BY <1>4, <2>1, <2>2, <2>3, <2>4 DEF Next
<1> QED BY <1>1, <1>2, <1>3, <1>4

\* A listener never receives an older version of a file after a newer one, through
\* however many handlers and channels they come (filewatcher.go:157-218).
THEOREM FeedCorrect == Spec => NotifiedInOrder
<1>1. Init => FeedInv
  <2> SUFFICES ASSUME Init PROVE FeedInv
    OBVIOUS
  <2>1. \A l \in Listeners : Len(outgoing[l]) = 0 /\ \A p \in Paths : notified[l][p] = 0
    BY DEF Init
  <2>2. ASSUME NEW p \in Paths PROVE handler[p] = "none" /\ 0 <= written[p]
    <3>1. handler[p] = "none"
      BY DEF Init
    <3>2. written \in [Paths -> Versions]
      BY TypeInit DEF TypeInv, TypeOK
    <3>3. written[p] \in Nat
      BY <3>2 DEF Versions
    <3> QED BY <3>1, <3>3
  <2>3. ~Handling
    BY DEF Init, Handling
  <2> QED BY <2>1, <2>2, <2>3 DEF FeedInv, ToldIsOld, FeedInOrder, NoNewer
<1>2. Init => OrderInv
  BY DEF Init, OrderInv, Ordered, Handling
<1>3. TypeInv /\ OrderInv /\ FeedInv /\ [Next]_vars => TypeInv' /\ OrderInv' /\ FeedInv'
  BY TypeStep, OrderStep, FeedStep
<1>4. TypeInv /\ OrderInv /\ FeedInv /\ [Next]_vars =>
          [\A l \in Listeners, p \in Paths : notified[l][p] <= notified'[l][p]]_vars
  BY TypeStep, FeedStep
<1> QED BY TypeInit, <1>1, <1>2, <1>3, <1>4, PTL DEF Spec, NotifiedInOrder
==============================================================================
