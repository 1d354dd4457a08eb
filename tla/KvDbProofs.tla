----------------------------- MODULE KvDbProofs -----------------------------
(* Theorems about KvDb, for any number of callers and any capacity.          *)
EXTENDS KvDb, TLAPS

\* Every operation that returned put one item into the channel; the goroutine
\* has counted one item at most, since counting a second one needs the lock.
Accounting ==
    returned = queue + (IF loop = "lock" THEN 1 ELSE 0)
                     + (IF locked THEN 1 ELSE 0)

CountedOnce ==
    /\ ~locked => calledCounter = 0 /\ compactions = 0
    /\ locked /\ Threshold > 1 => compactions = 0

Inv == TypeOK /\ Accounting /\ CountedOnce

LEMMA InitInv == Init => Inv
<1> SUFFICES ASSUME Init PROVE Inv
  OBVIOUS
<1>1. store \in [Keys -> Values \cup {None}] /\ caller \in [Callers -> {"idle", "calling"}]
  BY DEF Init
<1>2. open \in BOOLEAN /\ locked \in BOOLEAN /\ loop \in {"recv", "lock"}
  BY DEF Init
<1>3. queue \in 0..Capacity /\ calledCounter \in Nat /\ returned \in Nat /\ compactions \in Nat
  BY KvDbConstants DEF Init
<1>4. Accounting /\ CountedOnce
  BY DEF Init, Accounting, CountedOnce
<1> QED
  BY <1>1, <1>2, <1>3, <1>4 DEF Inv, TypeOK

LEMMA NextInv == Inv /\ [Next]_vars => Inv'
<1> SUFFICES ASSUME Inv, [Next]_vars PROVE Inv'
  OBVIOUS
<1> USE KvDbConstants DEF Inv, TypeOK, Accounting, CountedOnce, loopVars
<1>1. ASSUME NEW c \in Callers, NEW k \in Keys, Delete(c, k)
      PROVE  Inv'
  BY <1>1 DEF Delete, Operation
<1>2. ASSUME NEW c \in Callers, NEW k \in Keys, NEW v \in Values, Put(c, k, v)
      PROVE  Inv'
  BY <1>2 DEF Put, Operation
<1>3. ASSUME NEW c \in Callers, Read(c) \/ Close(c)
      PROVE  Inv'
  <2>1. caller' \in [Callers -> {"idle", "calling"}]
    BY <1>3 DEF Read, Close, Operation
  <2>2. open' \in BOOLEAN
    BY <1>3 DEF Read, Close
  <2>3. UNCHANGED <<store, queue, loop, locked, calledCounter, returned, compactions>>
    BY <1>3 DEF Read, Close, Operation
  <2> QED
    BY <2>1, <2>2, <2>3
<1>4. ASSUME NEW c \in Callers, Called(c)
      PROVE  Inv'
  BY <1>4 DEF Called
<1>5. CASE Receive
  BY <1>5 DEF Receive
<1>6. CASE Count
  BY <1>6 DEF Count
<1>7. CASE UNCHANGED vars
  BY <1>7 DEF vars
<1> QED
  BY <1>1, <1>2, <1>3, <1>4, <1>5, <1>6, <1>7 DEF Next

\* The channel never holds more than its capacity.
THEOREM TypeCorrect == Spec => []TypeOK
<1>1. Inv => TypeOK
  BY DEF Inv
<1> QED
  BY InitInv, NextInv, <1>1, PTL DEF Spec

\* No more than Capacity + 2 operations ever return (db.go:67-84).
THEOREM Saturation == Spec => []CallsSaturate
<1>1. Inv => CallsSaturate
  BY KvDbConstants DEF Inv, TypeOK, Accounting, CallsSaturate
<1> QED
  BY InitInv, NextInv, <1>1, PTL DEF Spec

\* With a threshold above 1 the store is never compacted (db.go:73-76).
THEOREM NoCompaction == Spec => []NeverCompacts
<1>1. Inv => NeverCompacts
  BY DEF Inv, CountedOnce, NeverCompacts
<1> QED
  BY InitInv, NextInv, <1>1, PTL DEF Spec
=============================================================================
