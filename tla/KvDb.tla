-------------------------------- MODULE KvDb --------------------------------
(***************************************************************************)
(* internal/db: the key-value store that server and client share one of    *)
(* per process.  Every operation works on pogreb and then, deferred, sends  *)
(* one item to calledChannel; a goroutine receives these to compact the     *)
(* store at every Threshold-th.  That goroutine locks channelMux for each   *)
(* item and nobody unlocks it.                                              *)
(*                                                                         *)
(* pogreb itself is outside: its calls are atomic.  Hash failures of a key  *)
(* return before pogreb is called and count like any other call.           *)
(***************************************************************************)
EXTENDS Naturals

CONSTANTS
    Callers,    \* goroutines that use the store
    Keys,
    Values,
    None,       \* no value for a key
    Capacity,   \* of calledChannel: 1000
    Threshold   \* calls per compaction: 1000

ASSUME KvDbConstants ==
    /\ Capacity \in Nat \ {0}
    /\ Threshold \in Nat \ {0}
    /\ None \notin Values

VARIABLES
    store,          \* [Keys -> Values or None]
    open,           \* FALSE after Close
    caller,         \* [Callers -> {"idle", "calling"}]
    queue,          \* number of items in calledChannel
    loop,           \* the goroutine of initDb: "recv" or "lock"
    locked,         \* channelMux
    calledCounter,
    returned,       \* number of operations that have returned
    compactions     \* number of Compact calls

loopVars == <<loop, locked, calledCounter, compactions>>
vars == <<store, open, caller, queue, loopVars, returned>>

TypeOK ==
    /\ store \in [Keys -> Values \cup {None}]
    /\ open \in BOOLEAN
    /\ caller \in [Callers -> {"idle", "calling"}]
    /\ queue \in 0..Capacity
    /\ loop \in {"recv", "lock"}
    /\ locked \in BOOLEAN
    /\ calledCounter \in Nat
    /\ returned \in Nat
    /\ compactions \in Nat

Init ==
    /\ store = [k \in Keys |-> None]
    /\ open = TRUE
    /\ caller = [c \in Callers |-> "idle"]
    /\ queue = 0
    /\ loop = "recv"
    /\ locked = FALSE
    /\ calledCounter = 0
    /\ returned = 0
    /\ compactions = 0

-----------------------------------------------------------------------------
\* The part of an operation before its deferred called().
Operation(c) ==
    /\ caller[c] = "idle"
    /\ caller' = [caller EXCEPT ![c] = "calling"]
    /\ UNCHANGED <<queue, loopVars, returned>>

\* On a closed store a write fails, which the caller may look at.
Put(c, k, v) ==
    /\ Operation(c)
    /\ store' = IF open THEN [store EXCEPT ![k] = v] ELSE store
    /\ UNCHANGED open

Delete(c, k) ==
    /\ Operation(c)
    /\ store' = IF open THEN [store EXCEPT ![k] = None] ELSE store
    /\ UNCHANGED open

\* Get and Has: they differ in what they answer.
Read(c) ==
    /\ Operation(c)
    /\ UNCHANGED <<store, open>>

Close(c) ==
    /\ Operation(c)
    /\ open' = FALSE
    /\ UNCHANGED store

FaultyCalled(c) ==
    /\ caller[c] = "calling"
    /\ queue' = queue + 1
    /\ caller' = [caller EXCEPT ![c] = "idle"]
    /\ returned' = returned + 1
    /\ UNCHANGED <<store, open, loopVars>>

FaultyCalledDrops(c) ==
    /\ caller[c] = "calling"
    /\ queue' = IF queue < Capacity THEN queue + 1 ELSE queue
    /\ caller' = [caller EXCEPT ![c] = "idle"]
    /\ returned' = returned + 1
    /\ UNCHANGED <<store, open, loopVars>>

FaultyCalledEarly(c) ==
    /\ caller[c] = "calling"
    /\ queue + 1 < Capacity
    /\ queue' = queue + 1
    /\ caller' = [caller EXCEPT ![c] = "idle"]
    /\ returned' = returned + 1
    /\ UNCHANGED <<store, open, loopVars>>

\* called(): the send blocks while the channel is full; then the call returns.
Called(c) ==
    /\ caller[c] = "calling"
    /\ queue < Capacity
    /\ queue' = queue + 1
    /\ caller' = [caller EXCEPT ![c] = "idle"]
    /\ returned' = returned + 1
    /\ UNCHANGED <<store, open, loopVars>>

\* for range calledChannel
Receive ==
    /\ loop = "recv"
    /\ queue > 0
    /\ queue' = queue - 1
    /\ loop' = "lock"
    /\ UNCHANGED <<store, open, caller, locked, calledCounter, returned,
                   compactions>>

FaultyCount ==
    /\ loop = "lock"
    /\ LET reached == calledCounter + 1 = Threshold IN
          /\ calledCounter' = IF reached THEN 0 ELSE calledCounter + 1
          /\ compactions' = IF reached THEN compactions + 1 ELSE compactions
    /\ loop' = "recv"
    /\ UNCHANGED <<store, open, caller, queue, locked, returned>>

\* The body: lock, count, compact at the threshold; no unlock.
Count ==
    /\ loop = "lock"
    /\ ~locked
    /\ locked' = TRUE
    /\ LET reached == calledCounter + 1 = Threshold IN
          /\ calledCounter' = IF reached THEN 0 ELSE calledCounter + 1
          /\ compactions' = IF reached THEN compactions + 1 ELSE compactions
    /\ loop' = "recv"
    /\ UNCHANGED <<store, open, caller, queue, returned>>

Next ==
    \/ \E c \in Callers :
          \/ \E k \in Keys : Delete(c, k) \/ \E v \in Values : Put(c, k, v)
          \/ Read(c) \/ Close(c) \/ Called(c)
    \/ Receive \/ Count

Spec == Init /\ [][Next]_vars

\* The goroutine and the deferred sends go on when they can.
FairSpec ==
    /\ Spec
    /\ WF_vars(Receive \/ Count)
    /\ \A c \in Callers : WF_vars(Called(c))

-----------------------------------------------------------------------------
\* However many callers there are, and whatever they call, no more than
\* Capacity + 2 operations return in the life of the process: the goroutine
\* takes two items, the channel holds Capacity (db.go:67-84).
CallsSaturate == returned <= Capacity + 2

\* So the store is not compacted unless every single call is to compact it
\* (db.go:73-76).
NeverCompacts == Threshold > 1 => compactions = 0

\* Up to that bound the store does not block: while fewer operations than
\* that have returned, one that is pending leads to another return.
ReturnsUntilSaturated ==
    \A n \in 0..(Capacity + 1) :
        returned = n /\ (\E c \in Callers : caller[c] = "calling")
            ~> returned > n

\* TestPut and TestGet (db_test.go:38 and 59) wait for the results of Put and
\* Get: an operation returns.
CallReturns == \A c \in Callers : caller[c] = "calling" ~> caller[c] = "idle"
=============================================================================
