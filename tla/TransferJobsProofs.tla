-------------------------- MODULE TransferJobsProofs --------------------------
(***************************************************************************)
(* Theorems of TransferJobs for every number of jobs, servers, workers and *)
(* runs, every file size and every capacity of the channels.                *)
(***************************************************************************)
EXTENDS TransferJobs, FiniteSetTheorems, TLAPS

USE JobConstants

\* The states of a worker that has a run.
Busy == {"query", "queryError", "same", "sameLocked", "open", "seekFatal",
         "stream", "status", "copy", "copyError"}

\* A busy worker has one of the runs so far, and each of these has its job.
RunKnown ==
    /\ \A w \in Workers : worker[w] \in Busy => run[w] \in 1..started
    /\ \A r \in 1..started : jobOf[r] \in Jobs

\* What is sent came through the pipe.
SentKnown ==
    \A r \in Runs : /\ sent[r] <= copied[r]
                    /\ sender[r] = "send" => sent[r] < copied[r]

\* A notifier that pushes has a notification and the index of a subscriber.
PushKnown ==
    \A j \in Jobs : notifier[j] \in {"remove", "push"} =>
        next[j] \in Nat \ {0} /\ carrying[j] \in Types

TypeInv == TypeOK /\ RunKnown /\ SentKnown /\ PushKnown

LEMMA TypeInit == Init => TypeInv
<1> SUFFICES ASSUME Init PROVE TypeInv
  OBVIOUS
<1>1. TypeOK
  BY DEF Init, TypeOK, Runs
<1>2. RunKnown /\ SentKnown /\ PushKnown
  BY DEF Init, RunKnown, SentKnown, PushKnown, Busy, Runs
<1> QED BY <1>1, <1>2 DEF TypeInv

\* Sequences as channels: what is put in and taken out.
LEMMA Channel ==
    ASSUME NEW S, NEW q \in Seq(S)
    PROVE  /\ \A e \in S : Append(q, e) \in Seq(S) /\ Len(Append(q, e)) = Len(q) + 1
           /\ q # << >> => /\ Head(q) \in S
                           /\ Tail(q) \in Seq(S)
                           /\ Len(Tail(q)) = Len(q) - 1
                           /\ Len(q) \in Nat \ {0}
OBVIOUS

\* A busy worker has a run and a job.
LEMMA BusyType ==
    ASSUME TypeInv, NEW w \in Workers, worker[w] \in Busy
    PROVE  run[w] \in 1..started /\ run[w] \in Runs /\ Job(w) \in Jobs
BY DEF TypeInv, TypeOK, RunKnown, Runs, Job

\* What the notifier takes.
LEMMA NotifiesType ==
    ASSUME TypeInv, NEW j \in Jobs, NEW type \in Types, Notifies(j, type)
    PROVE  /\ notifier' \in [Jobs -> {"none", "range", "requeue", "remove", "push"}]
           /\ carrying' \in [Jobs -> Types \cup {"none"}]
           /\ next' \in [Jobs -> Nat]
           /\ PushKnown'
BY DEF TypeInv, TypeOK, PushKnown, Notifies

\* Every action keeps the types.
LEMMA TypeStep == TypeInv /\ [Next]_vars => TypeInv'
<1> SUFFICES ASSUME TypeInv, [Next]_vars PROVE TypeInv'
  OBVIOUS
<1> USE DEF TypeInv, TypeOK, RunKnown, SentKnown, PushKnown, Busy, queueVars,
        workerVars, runVars, jobVars, inboxVars, WorkerMoves, Goes, SenderMoves,
        SummaryMoves, TakesFrom, NotifierMoves, Job, Types
<1>1. ASSUME NEW j \in Jobs, Submit(j) PROVE TypeInv'
  <2>1. jobQueue' \in Seq(Jobs) /\ Len(jobQueue') <= QueueCap
    BY <1>1, Channel DEF Submit
  <2> QED
    BY <1>1, <2>1 DEF Submit
<1>2. ASSUME NEW j \in Jobs, Fetch(j) PROVE TypeInv'
  <2>1. pool' \in Seq(Workers) /\ Head(pool) \in Workers
    BY <1>2, Channel DEF Fetch
  <2>2. fetching' \in [Jobs -> Nat]
    BY <1>2 DEF Fetch
  <2> QED
    BY <1>2, <2>1, <2>2 DEF Fetch
<1>3. ASSUME NEW j \in Jobs, Requeue(j) PROVE TypeInv'
  <2>1. jobQueue' \in Seq(Jobs) /\ Len(jobQueue') <= QueueCap
    BY <1>3, Channel DEF Requeue
  <2> QED
    BY SMTT(60), <1>3, <2>1 DEF Requeue
<1>4. ASSUME NEW j \in Jobs, Remove(j) PROVE TypeInv'
  BY <1>4 DEF Remove
<1>5. ASSUME NEW j \in Jobs, Push(j) PROVE TypeInv'
  <2> DEFINE n == [type |-> carrying[j], job |-> j]
             i == next[j]
  <2>1. i \in 1..Subscribers /\ n \in [type : Types, job : Jobs]
    BY <1>5 DEF Push
  <2>2. /\ Append(inbox[i], n) \in Seq([type : Types, job : Jobs])
        /\ Len(Append(inbox[i], n)) <= SubscriberCap
    <3>1. inbox[i] \in Seq([type : Types, job : Jobs])
      BY <2>1
    <3>2. Len(inbox[i]) < SubscriberCap
      BY <1>5 DEF Push
    <3> HIDE DEF n, i
    <3> QED
      BY <2>1, <3>1, <3>2, Channel
  <2>3. inbox' = [inbox EXCEPT ![i] = Append(inbox[i], n)]
    BY <1>5 DEF Push
  <2>4. next' \in [Jobs -> Nat] /\ PushKnown'
    BY SMTT(60), <1>5, <2>1 DEF Push
  <2>5. UNCHANGED <<jobQueue, removed, phase, pending, fetching, pool, handed,
                    workerVars, runVars, status, reading, carrying>>
    BY <1>5 DEF Push
  <2>6. notifier' \in [Jobs -> {"none", "range", "requeue", "remove", "push"}]
    BY <1>5 DEF Push
  <2> HIDE DEF n, i
  <2>7. /\ inbox' \in [1..Subscribers -> Seq([type : Types, job : Jobs])]
        /\ \A k \in 1..Subscribers : Len(inbox'[k]) <= SubscriberCap
    <3> DEFINE N == [type : Types, job : Jobs]
               t == Append(inbox[i], n)
    <3>1. /\ inbox \in [1..Subscribers -> Seq(N)] /\ t \in Seq(N)
          /\ \A k \in 1..Subscribers : Len(inbox[k]) <= SubscriberCap
          /\ Len(t) <= SubscriberCap
          /\ inbox' = [inbox EXCEPT ![i] = t]
      BY <2>2, <2>3
    <3> SUFFICES /\ inbox' \in [1..Subscribers -> Seq(N)]
                 /\ \A k \in 1..Subscribers : Len(inbox'[k]) <= SubscriberCap
      OBVIOUS
    <3> HIDE DEF N, t
    <3> QED BY SMTT(60), <2>1, <3>1
  <2> QED
    BY <2>4, <2>5, <2>6, <2>7
<1>6. ASSUME NEW j \in Jobs, Pushed(j) PROVE TypeInv'
  BY SMTT(60), <1>6 DEF Pushed
<1>7. ASSUME NEW j \in Jobs, SendPanics(j) PROVE TypeInv'
  <2>1. /\ notifier' = notifier
        /\ UNCHANGED <<queueVars, workerVars, runVars, carrying, next, status,
                       removed, inboxVars>>
        /\ phase' = "panicked"
    BY <1>7 DEF SendPanics
  <2> QED
    BY <2>1
<1>8. ASSUME NEW j \in Jobs, SubmitPanics(j) PROVE TypeInv'
  BY <1>8 DEF SubmitPanics
<1>9. ASSUME NEW w \in Workers, Ready(w) PROVE TypeInv'
  <2>1. pool' \in Seq(Workers)
    BY <1>9, Channel DEF Ready
  <2> QED
    BY ZenonT(60), <1>9, <2>1 DEF Ready
<1>10. ASSUME NEW w \in Workers, Take(w) PROVE TypeInv'
  <2>1. /\ started' = started + 1
        /\ started' \in Runs /\ started' \in 0..MaxRuns
        /\ handed[w] \in Jobs
    BY <1>10 DEF Take, Runs
  <2>2. run' \in [Workers -> 0..MaxRuns] /\ jobOf' \in [Runs -> Jobs \cup {None}]
    BY <1>10, <2>1 DEF Take
  <2>3. RunKnown'
    <3>1. \A v \in Workers : worker'[v] \in Busy => run'[v] \in 1..started'
      BY <1>10, <2>1 DEF Take
    <3>2. \A r \in 1..started' : jobOf'[r] \in Jobs
      BY SMTT(60), <1>10, <2>1 DEF Take, Runs
    <3> QED BY <3>1, <3>2
  <2>4. UNCHANGED <<pool, copied, sent, ended, sender, summary, outcome, notifier,
                    carrying, next, status, pending, jobQueue, fetching, removed,
                    inbox, reading, phase>>
    BY <1>10 DEF Take
  <2>5. /\ worker' = [worker EXCEPT ![w] = "query"]
        /\ handed' = [handed EXCEPT ![w] = None]
    BY <1>10 DEF Take
  <2> QED
    BY <2>1, <2>2, <2>3, <2>4, <2>5
<1>11. ASSUME NEW w \in Workers, QueryFails(w) PROVE TypeInv'
  BY ZenonT(60), <1>11 DEF QueryFails
<1>12. ASSUME NEW w \in Workers, QuerySame(w) PROVE TypeInv'
  BY ZenonT(60), <1>12 DEF QuerySame
<1>13. ASSUME NEW w \in Workers, QueryDiffers(w) PROVE TypeInv'
  BY ZenonT(60), <1>13 DEF QueryDiffers
<1>14. ASSUME NEW w \in Workers, LockSame(w) PROVE TypeInv'
  BY ZenonT(60), <1>14 DEF LockSame
<1>15. ASSUME NEW w \in Workers, OpenFails(w) PROVE TypeInv'
  BY ZenonT(60), <1>15 DEF OpenFails
<1>16. ASSUME NEW w \in Workers, Open(w) PROVE TypeInv'
  BY ZenonT(60), <1>16 DEF Open
<1>17. ASSUME NEW w \in Workers, SeekFails(w) PROVE TypeInv'
  BY ZenonT(60), <1>17 DEF SeekFails
<1>18. ASSUME NEW w \in Workers, Stream(w) PROVE TypeInv'
  BY ZenonT(60), <1>18 DEF Stream
<1>19. ASSUME NEW w \in Workers, SetStatus(w) PROVE TypeInv'
  BY ZenonT(60), <1>19 DEF SetStatus
<1>20. ASSUME NEW w \in Workers, Copy(w) PROVE TypeInv'
  <2>1. run[w] \in Runs
    BY <1>20, BusyType DEF Copy
  <2>2. copied' \in [Runs -> 0..Blocks] /\ SentKnown'
    BY SMTT(60), <1>20, <2>1 DEF Copy
  <2>3. /\ worker[w] = "copy"
        /\ worker' = [worker EXCEPT ![w] = "copy"]
        /\ sender' = [sender EXCEPT ![run[w]] = "send"]
        /\ UNCHANGED <<pending, jobQueue, fetching, removed, inboxVars, phase, pool,
                       handed, run, started, jobOf, sent, ended, summary, outcome,
                       notifier, carrying, next, status>>
    BY <1>20 DEF Copy
  <2> QED
    BY ZenonT(60), <2>1, <2>2, <2>3
<1>21. ASSUME NEW w \in Workers, CopyFails(w) PROVE TypeInv'
  <2>1. Goes(w, "copy", "copyError")
    BY <1>21 DEF CopyFails
  <2> QED
    BY ZenonT(60), <2>1
<1>22. ASSUME NEW w \in Workers, CopyEnds(w) PROVE TypeInv'
  BY ZenonT(60), <1>22 DEF CopyEnds
<1>23. ASSUME NEW w \in Workers, QueryError(w) PROVE TypeInv'
  <2>1. Job(w) \in Jobs /\ run[w] \in Runs /\ "error" \in Types
    BY <1>23, BusyType DEF QueryError, WorkerNotifies
  <2>2. /\ notifier' \in [Jobs -> {"none", "range", "requeue", "remove", "push"}]
        /\ carrying' \in [Jobs -> Types \cup {"none"}]
        /\ next' \in [Jobs -> Nat]
        /\ PushKnown'
    <3>1. Notifies(Job(w), "error")
      BY <1>23 DEF QueryError, WorkerNotifies
    <3> QED BY <2>1, <3>1, NotifiesType
  <2>3. outcome' \in [Runs -> SUBSET {"error", "completed"}]
    BY <1>23, <2>1 DEF QueryError, WorkerNotifies
  <2>4. ended' \in [Runs -> BOOLEAN]
    BY <1>23, <2>1, Zenon DEF QueryError, WorkerNotifies
  <2>5. /\ worker[w] \in Busy
        /\ worker' = [worker EXCEPT ![w] = "ready"]
        /\ UNCHANGED <<pending, jobQueue, fetching, removed, inboxVars, phase, pool,
                       handed, run, started, jobOf, copied, sent, sender, summary,
                       status>>
    BY <1>23 DEF QueryError, WorkerNotifies
  <2>6. /\ worker' \in [Workers -> {"ready", "waiting", "query", "queryError",
                             "same", "sameLocked", "open", "seekFatal", "stream",
                             "status", "copy", "copyError", "exited"}]
        /\ RunKnown'
    BY <2>5
  <2>7. SentKnown'
    BY <2>5
  <2> QED
    BY <2>2, <2>3, <2>4, <2>5, <2>6, <2>7
<1>24. ASSUME NEW w \in Workers, Same(w) PROVE TypeInv'
  <2>1. Job(w) \in Jobs /\ run[w] \in Runs /\ "completed" \in Types
    BY <1>24, BusyType DEF Same, WorkerNotifies
  <2>2. /\ notifier' \in [Jobs -> {"none", "range", "requeue", "remove", "push"}]
        /\ carrying' \in [Jobs -> Types \cup {"none"}]
        /\ next' \in [Jobs -> Nat]
        /\ PushKnown'
    <3>1. Notifies(Job(w), "completed")
      BY <1>24 DEF Same, WorkerNotifies
    <3> QED BY <2>1, <3>1, NotifiesType
  <2>3. outcome' \in [Runs -> SUBSET {"error", "completed"}]
    BY <1>24, <2>1 DEF Same, WorkerNotifies
  <2>4. ended' \in [Runs -> BOOLEAN]
    BY <1>24, <2>1, Zenon DEF Same, WorkerNotifies
  <2>5. /\ worker[w] \in Busy
        /\ worker' = [worker EXCEPT ![w] = "ready"]
        /\ UNCHANGED <<pending, jobQueue, fetching, removed, inboxVars, phase, pool,
                       handed, run, started, jobOf, copied, sent, sender, summary,
                       status>>
    BY <1>24 DEF Same, WorkerNotifies
  <2>6. /\ worker' \in [Workers -> {"ready", "waiting", "query", "queryError",
                             "same", "sameLocked", "open", "seekFatal", "stream",
                             "status", "copy", "copyError", "exited"}]
        /\ RunKnown'
    BY <2>5
  <2>7. SentKnown'
    BY <2>5
  <2> QED
    BY <2>2, <2>3, <2>4, <2>5, <2>6, <2>7
<1>25. ASSUME NEW w \in Workers, SeekFatal(w) PROVE TypeInv'
  <2>1. Job(w) \in Jobs /\ run[w] \in Runs /\ "fatal" \in Types
    BY <1>25, BusyType DEF SeekFatal, WorkerNotifies
  <2>2. /\ notifier' \in [Jobs -> {"none", "range", "requeue", "remove", "push"}]
        /\ carrying' \in [Jobs -> Types \cup {"none"}]
        /\ next' \in [Jobs -> Nat]
        /\ PushKnown'
    <3>1. Notifies(Job(w), "fatal")
      BY <1>25 DEF SeekFatal, WorkerNotifies
    <3> QED BY <2>1, <3>1, NotifiesType
  <2>3. outcome' \in [Runs -> SUBSET {"error", "completed"}]
    BY <1>25, <2>1 DEF SeekFatal, WorkerNotifies
  <2>4. ended' \in [Runs -> BOOLEAN]
    BY <1>25, <2>1, Zenon DEF SeekFatal, WorkerNotifies
  <2>5. /\ worker[w] \in Busy
        /\ worker' = [worker EXCEPT ![w] = "stream"]
        /\ UNCHANGED <<pending, jobQueue, fetching, removed, inboxVars, phase, pool,
                       handed, run, started, jobOf, copied, sent, sender, summary,
                       status>>
    BY <1>25 DEF SeekFatal, WorkerNotifies
  <2>6. /\ worker' \in [Workers -> {"ready", "waiting", "query", "queryError",
                             "same", "sameLocked", "open", "seekFatal", "stream",
                             "status", "copy", "copyError", "exited"}]
        /\ RunKnown'
    BY <2>5
  <2>7. SentKnown'
    BY <2>5
  <2> QED
    BY <2>2, <2>3, <2>4, <2>5, <2>6, <2>7
<1>26. ASSUME NEW w \in Workers, CopyError(w) PROVE TypeInv'
  <2>1. Job(w) \in Jobs /\ run[w] \in Runs /\ "error" \in Types
    BY <1>26, BusyType DEF CopyError, WorkerNotifies
  <2>2. /\ notifier' \in [Jobs -> {"none", "range", "requeue", "remove", "push"}]
        /\ carrying' \in [Jobs -> Types \cup {"none"}]
        /\ next' \in [Jobs -> Nat]
        /\ PushKnown'
    <3>1. Notifies(Job(w), "error")
      BY <1>26 DEF CopyError, WorkerNotifies
    <3> QED BY <2>1, <3>1, NotifiesType
  <2>3. outcome' \in [Runs -> SUBSET {"error", "completed"}]
    BY <1>26, <2>1 DEF CopyError, WorkerNotifies
  <2>4. ended' \in [Runs -> BOOLEAN]
    BY <1>26, <2>1, Zenon DEF CopyError, WorkerNotifies
  <2>5. /\ worker[w] \in Busy
        /\ worker' = [worker EXCEPT ![w] = "ready"]
        /\ UNCHANGED <<pending, jobQueue, fetching, removed, inboxVars, phase, pool,
                       handed, run, started, jobOf, copied, sent, sender, summary,
                       status>>
    BY <1>26 DEF CopyError, WorkerNotifies
  <2>6. /\ worker' \in [Workers -> {"ready", "waiting", "query", "queryError",
                             "same", "sameLocked", "open", "seekFatal", "stream",
                             "status", "copy", "copyError", "exited"}]
        /\ RunKnown'
    BY <2>5
  <2>7. SentKnown'
    BY <2>5
  <2> QED
    BY <2>2, <2>3, <2>4, <2>5, <2>6, <2>7
<1>27. ASSUME NEW w \in Workers, HashFatal(w) PROVE TypeInv'
  BY <1>27 DEF HashFatal
<1>28. ASSUME NEW r \in 1..started, OpenStream(r) PROVE TypeInv'
  BY ZenonT(60), <1>28 DEF OpenStream, Runs
<1>29. ASSUME NEW r \in 1..started, OpenStreamFails(r) PROVE TypeInv'
  BY ZenonT(60), <1>29 DEF OpenStreamFails, Runs
<1>30. ASSUME NEW r \in 1..started, Send(r) PROVE TypeInv'
  <2>1. sent[r] + 1 \in 0..Blocks /\ r \in Runs
    BY SMTT(60), <1>30 DEF Send, Runs
  <2>2. sent' \in [Runs -> 0..Blocks] /\ SentKnown'
    BY SMTT(60), <1>30, <2>1 DEF Send
  <2> QED
    BY <1>30, <2>1, <2>2 DEF Send
<1>31. ASSUME NEW r \in 1..started, SendFails(r) PROVE TypeInv'
  BY ZenonT(60), <1>31 DEF SendFails, Runs
<1>32. ASSUME NEW r \in 1..started, ReadEnds(r) PROVE TypeInv'
  BY ZenonT(60), <1>32 DEF ReadEnds, Runs
<1>33. ASSUME NEW r \in 1..started, Received(r) PROVE TypeInv'
  BY ZenonT(60), <1>33 DEF Received, Runs
<1>34. ASSUME NEW r \in 1..started, TakeOpenError(r) PROVE TypeInv'
  BY ZenonT(60), <1>34 DEF TakeOpenError, Runs
<1>35. ASSUME NEW r \in 1..started, TakeSendError(r) PROVE TypeInv'
  BY ZenonT(60), <1>35 DEF TakeSendError, Runs
<1>36. ASSUME NEW r \in 1..started, TakeBytes(r) PROVE TypeInv'
  BY ZenonT(60), <1>36 DEF TakeBytes, Runs
<1>37. ASSUME NEW r \in 1..started, TakeClosed(r) PROVE TypeInv'
  BY ZenonT(60), <1>37 DEF TakeClosed, Runs
<1>38. ASSUME NEW r \in 1..started, CountBlock(r) PROVE TypeInv'
  <2>1. status' \in [Jobs -> Nat]
    BY <1>38 DEF CountBlock
  <2>2. r \in Runs
    BY DEF Runs
  <2> QED
    BY <1>38, <2>1, <2>2 DEF CountBlock
<1>39. ASSUME NEW r \in 1..started, Updated(r) PROVE TypeInv'
  <2>1. jobOf[r] \in Jobs /\ r \in Runs /\ "updated" \in Types
    BY DEF Runs
  <2>2. /\ notifier' \in [Jobs -> {"none", "range", "requeue", "remove", "push"}]
        /\ carrying' \in [Jobs -> Types \cup {"none"}]
        /\ next' \in [Jobs -> Nat]
        /\ PushKnown'
    <3>1. Notifies(jobOf[r], "updated")
      BY <1>39 DEF Updated, SummaryNotifies
    <3> QED BY <2>1, <3>1, NotifiesType
  <2>3. outcome' \in [Runs -> SUBSET {"error", "completed"}]
    BY <1>39, <2>1 DEF Updated, SummaryNotifies
  <2>4. /\ summary' = [summary EXCEPT ![r] = "range"]
        /\ UNCHANGED <<queueVars, workerVars, started, jobOf, copied, sent, ended,
                       removed, inboxVars, phase, sender, status>>
    BY <1>39 DEF Updated, SummaryNotifies
  <2> QED
    BY <2>1, <2>2, <2>3, <2>4
<1>40. ASSUME NEW r \in 1..started, TransferError(r) PROVE TypeInv'
  <2>1. jobOf[r] \in Jobs /\ r \in Runs /\ "error" \in Types
    BY DEF Runs
  <2>2. /\ notifier' \in [Jobs -> {"none", "range", "requeue", "remove", "push"}]
        /\ carrying' \in [Jobs -> Types \cup {"none"}]
        /\ next' \in [Jobs -> Nat]
        /\ PushKnown'
    <3>1. Notifies(jobOf[r], "error")
      BY <1>40 DEF TransferError, SummaryNotifies
    <3> QED BY <2>1, <3>1, NotifiesType
  <2>3. outcome' \in [Runs -> SUBSET {"error", "completed"}]
    BY <1>40, <2>1 DEF TransferError, SummaryNotifies
  <2>4. /\ summary' = [summary EXCEPT ![r] = "range"]
        /\ UNCHANGED <<queueVars, workerVars, started, jobOf, copied, sent, ended,
                       removed, inboxVars, phase, sender, status>>
    BY <1>40 DEF TransferError, SummaryNotifies
  <2> QED
    BY <2>1, <2>2, <2>3, <2>4
<1>41. ASSUME NEW r \in 1..started, Completed(r) PROVE TypeInv'
  <2>1. jobOf[r] \in Jobs /\ r \in Runs /\ "completed" \in Types
    BY DEF Runs
  <2>2. /\ notifier' \in [Jobs -> {"none", "range", "requeue", "remove", "push"}]
        /\ carrying' \in [Jobs -> Types \cup {"none"}]
        /\ next' \in [Jobs -> Nat]
        /\ PushKnown'
    <3>1. Notifies(jobOf[r], "completed")
      BY <1>41 DEF Completed, SummaryNotifies
    <3> QED BY <2>1, <3>1, NotifiesType
  <2>3. outcome' \in [Runs -> SUBSET {"error", "completed"}]
    BY <1>41, <2>1 DEF Completed, SummaryNotifies
  <2>4. /\ summary' = [summary EXCEPT ![r] = "range"]
        /\ UNCHANGED <<queueVars, workerVars, started, jobOf, copied, sent, ended,
                       removed, inboxVars, phase, sender, status>>
    BY <1>41 DEF Completed, SummaryNotifies
  <2> QED
    BY <2>1, <2>2, <2>3, <2>4
<1>42. ASSUME NEW r \in 1..started, SummaryEnds(r) PROVE TypeInv'
  BY <1>42 DEF SummaryEnds, Runs
<1>43. ASSUME NEW i \in 1..Subscribers, Receive(i) PROVE TypeInv'
  <2>1. /\ Head(inbox[i]) \in [type : Types, job : Jobs]
        /\ Tail(inbox[i]) \in Seq([type : Types, job : Jobs])
        /\ Len(Tail(inbox[i])) <= SubscriberCap
    <3>1. inbox[i] \in Seq([type : Types, job : Jobs]) /\ inbox[i] # << >>
      BY <1>43 DEF Receive
    <3>2. Len(inbox[i]) <= SubscriberCap
      OBVIOUS
    <3> DEFINE N == [type : Types, job : Jobs]
               q == inbox[i]
    <3>3. q \in Seq(N) /\ q # << >> /\ Len(q) <= SubscriberCap
      BY <3>1, <3>2
    <3> SUFFICES Head(q) \in N /\ Tail(q) \in Seq(N) /\ Len(Tail(q)) <= SubscriberCap
      OBVIOUS
    <3> HIDE DEF N, q
    <3>4. /\ Head(q) \in N /\ Tail(q) \in Seq(N)
          /\ Len(Tail(q)) = Len(q) - 1 /\ Len(q) \in Nat
      BY <3>3, Channel
    <3> QED BY <3>3, <3>4
  <2>2. /\ inbox' \in [1..Subscribers -> Seq([type : Types, job : Jobs])]
        /\ \A k \in 1..Subscribers : Len(inbox'[k]) <= SubscriberCap
    <3> DEFINE N == [type : Types, job : Jobs]
               t == Tail(inbox[i])
    <3>1. /\ inbox \in [1..Subscribers -> Seq(N)] /\ t \in Seq(N)
          /\ \A k \in 1..Subscribers : Len(inbox[k]) <= SubscriberCap
          /\ Len(t) <= SubscriberCap
          /\ inbox' = [inbox EXCEPT ![i] = t]
      BY <1>43, <2>1 DEF Receive
    <3> SUFFICES /\ inbox' \in [1..Subscribers -> Seq(N)]
                 /\ \A k \in 1..Subscribers : Len(inbox'[k]) <= SubscriberCap
      OBVIOUS
    <3> HIDE DEF N, t
    <3> QED BY <3>1
  <2>3. reading' \in [1..Subscribers -> Jobs \cup {None}]
    BY <1>43, <2>1 DEF Receive
  <2>4. UNCHANGED <<queueVars, workerVars, runVars, jobVars, phase>>
    BY <1>43 DEF Receive
  <2> QED
    BY <2>2, <2>3, <2>4
<1>44. ASSUME NEW i \in 1..Subscribers, ReadStatus(i) PROVE TypeInv'
  BY <1>44 DEF ReadStatus
<1>45. ASSUME NEW i \in 1..Subscribers, Exit(i) PROVE TypeInv'
  BY <1>45 DEF Exit
<1>46. ASSUME Dispatch PROVE TypeInv'
  <2>1. /\ jobQueue' \in Seq(Jobs) /\ Len(jobQueue') <= QueueCap
        /\ Head(jobQueue) \in Jobs
    BY <1>46, Channel DEF Dispatch
  <2>2. fetching' \in [Jobs -> Nat]
    <3> DEFINE h == Head(jobQueue)
    <3>1. h \in Jobs /\ fetching' = [fetching EXCEPT ![h] = fetching[h] + 1]
      BY <1>46, <2>1 DEF Dispatch
    <3> HIDE DEF h
    <3> QED BY <3>1
  <2> QED
    BY <1>46, <2>1, <2>2 DEF Dispatch
<1>47. ASSUME CloseWorker PROVE TypeInv'
  <2>1. pool' \in Seq(Workers) /\ Head(pool) \in Workers
    BY <1>47, Channel DEF CloseWorker
  <2> DEFINE h == Head(pool)
  <2>2. /\ worker' = [worker EXCEPT ![h] = "exited"]
        /\ UNCHANGED <<pending, jobQueue, fetching, handed, run, runVars, jobVars,
                       inboxVars, phase>>
    BY <1>47 DEF CloseWorker
  <2>3. h \in Workers
    BY <2>1
  <2> HIDE DEF h
  <2>4. /\ worker' \in [Workers -> {"ready", "waiting", "query", "queryError",
                             "same", "sameLocked", "open", "seekFatal", "stream",
                             "status", "copy", "copyError", "exited"}]
        /\ RunKnown'
    BY <2>2, <2>3
  <2> QED
    BY <2>1, <2>2, <2>4
<1>48. ASSUME CloseSubscribers PROVE TypeInv'
  BY <1>48 DEF CloseSubscribers
<1>49. ASSUME CloseQueue PROVE TypeInv'
  BY <1>49 DEF CloseQueue
<1>50. ASSUME UNCHANGED vars PROVE TypeInv'
  BY <1>50 DEF vars
<1> QED
  BY <1>1, <1>2, <1>3, <1>4, <1>5, <1>6, <1>7, <1>8, <1>9, <1>10, <1>11, <1>12, <1>13, <1>14, <1>15, <1>16, <1>17, <1>18, <1>19, <1>20, <1>21, <1>22, <1>23, <1>24, <1>25, <1>26, <1>27, <1>28, <1>29, <1>30, <1>31, <1>32, <1>33, <1>34, <1>35, <1>36, <1>37, <1>38, <1>39, <1>40, <1>41, <1>42, <1>43, <1>44, <1>45, <1>46, <1>47, <1>48, <1>49, <1>50 DEF Next, WorkerStep, SenderStep, SummaryStep, NotifierStep, SubscriberStep

\* The state of the queue, the pool, the workers, the runs, the notifiers and the
\* subscribers is of the declared types: no channel holds more than its capacity,
\* and no run sends more blocks than its file has.
THEOREM TypeCorrect == Spec => []TypeOK
<1>1. Spec => []TypeInv
  BY TypeInit, TypeStep, PTL DEF Spec
<1> QED
  BY <1>1, PTL DEF TypeInv

-----------------------------------------------------------------------------
(* A worker waits for one job at a time.                                   *)

\* A step that leaves the pool, what is handed over, and the waiting workers.
LEMMA TokenKept ==
    ASSUME OneToken, pool' = pool, handed' = handed,
           \A w \in Workers : worker'[w] = "waiting" <=> worker[w] = "waiting"
    PROVE  OneToken'
BY DEF OneToken, InPool

LEMMA TokenStep == TypeInv /\ OneToken /\ [Next]_vars => OneToken'
<1> SUFFICES ASSUME TypeInv, OneToken, [Next]_vars PROVE OneToken'
  OBVIOUS
<1> USE DEF queueVars, workerVars, runVars, jobVars, inboxVars
<1>t. /\ pool \in Seq(Workers)
      /\ handed \in [Workers -> Jobs \cup {None}]
      /\ DOMAIN worker = Workers
  BY DEF TypeInv, TypeOK
<1>1. ASSUME NEW w \in Workers, Ready(w) PROVE OneToken'
  <2>1. /\ pool' = Append(pool, w) /\ handed' = handed
        /\ worker[w] = "ready" /\ worker' = [worker EXCEPT ![w] = "waiting"]
    BY <1>1 DEF Ready, WorkerMoves
  <2>2. /\ Len(pool) \in Nat /\ Len(pool') = Len(pool) + 1
        /\ \A i \in 1..Len(pool) : pool'[i] = pool[i]
        /\ pool'[Len(pool) + 1] = w
    BY <1>t, <2>1
  <2>3. ~InPool(w) /\ handed[w] = None
    BY <2>1 DEF OneToken
  <2>4. \A v \in Workers : InPool(v)' <=> InPool(v) \/ v = w
    BY <2>2 DEF InPool
  <2>5. \A i, k \in 1..Len(pool') : pool'[i] = pool'[k] => i = k
    BY <2>2, <2>3 DEF OneToken, InPool
  <2> QED
    BY <1>t, <2>1, <2>3, <2>4, <2>5 DEF OneToken
<1>2. ASSUME NEW w \in Workers, Take(w) PROVE OneToken'
  <2>1. /\ pool' = pool /\ handed[w] # None
        /\ handed' = [handed EXCEPT ![w] = None]
        /\ worker' = [worker EXCEPT ![w] = "query"]
    BY <1>2 DEF Take, WorkerMoves
  <2>2. \A v \in Workers : InPool(v)' <=> InPool(v)
    BY <2>1 DEF InPool
  <2> QED
    BY <1>t, <2>1, <2>2 DEF OneToken
<1>3. ASSUME pool # << >>, pool' = Tail(pool)
      PROVE  /\ Head(pool) \in Workers /\ InPool(Head(pool))
             /\ \A i, k \in 1..Len(pool') : pool'[i] = pool'[k] => i = k
             /\ \A v \in Workers : InPool(v)' <=> InPool(v) /\ v # Head(pool)
  <2>1. /\ Len(pool) \in Nat \ {0} /\ Head(pool) = pool[1]
        /\ Len(pool') = Len(pool) - 1
        /\ \A i \in 1..Len(pool') : pool'[i] = pool[i + 1]
        /\ \A i \in 1..Len(pool) : pool[i] \in Workers
    BY <1>t, <1>3
  <2>2. \A i, k \in 1..Len(pool) : pool[i] = pool[k] => i = k
    BY DEF OneToken
  <2>3. \A i \in 1..Len(pool) : i = 1 \/ (i - 1 \in 1..Len(pool') /\ pool'[i - 1] = pool[i])
    BY <2>1
  <2>4. \A i \in 1..Len(pool') : i + 1 \in 1..Len(pool) /\ i + 1 # 1
    BY <2>1
  <2>5. \A v \in Workers : InPool(v)' => InPool(v) /\ v # Head(pool)
    BY <2>1, <2>2, <2>4 DEF InPool
  <2>6. \A v \in Workers : InPool(v) /\ v # Head(pool) => InPool(v)'
    BY <2>1, <2>3 DEF InPool
  <2>7. \A i, k \in 1..Len(pool') : pool'[i] = pool'[k] => i = k
    BY <2>1, <2>2, <2>4
  <2>8. Head(pool) \in Workers /\ InPool(Head(pool))
    BY <2>1 DEF InPool
  <2> QED
    BY <2>5, <2>6, <2>7, <2>8
<1>4. ASSUME NEW j \in Jobs, Fetch(j) PROVE OneToken'
  <2> DEFINE h == Head(pool)
  <2>1. /\ pool # << >> /\ pool' = Tail(pool) /\ worker' = worker
        /\ handed' = [handed EXCEPT ![h] = j]
    BY <1>4 DEF Fetch
  <2>2. /\ h \in Workers /\ InPool(h)
        /\ \A i, k \in 1..Len(pool') : pool'[i] = pool'[k] => i = k
        /\ \A v \in Workers : InPool(v)' <=> InPool(v) /\ v # h
    BY <1>3, <2>1
  <2>3. j # None
    BY JobConstants
  <2> HIDE DEF h
  <2> QED
    BY <1>t, <2>1, <2>2, <2>3 DEF OneToken
<1>5. ASSUME CloseWorker PROVE OneToken'
  <2> DEFINE h == Head(pool)
  <2>1. /\ pool # << >> /\ pool' = Tail(pool) /\ handed' = handed
        /\ worker' = [worker EXCEPT ![h] = "exited"]
    BY <1>5 DEF CloseWorker
  <2>2. /\ h \in Workers /\ InPool(h)
        /\ \A i, k \in 1..Len(pool') : pool'[i] = pool'[k] => i = k
        /\ \A v \in Workers : InPool(v)' <=> InPool(v) /\ v # h
    BY <1>3, <2>1
  <2> HIDE DEF h
  <2> QED
    BY <1>t, <2>1, <2>2 DEF OneToken
<1>6. ASSUME NEW w \in Workers, WorkerStep(w), ~Ready(w), ~Take(w) PROVE OneToken'
  <2>1. PICK from, to \in {"query", "queryError", "same", "sameLocked", "open",
                           "seekFatal", "stream", "status", "copy", "copyError",
                           "ready"} :
           /\ WorkerMoves(w, from, to)
           /\ pool' = pool /\ handed' = handed
    BY <1>6 DEF WorkerStep, Goes, QueryFails, QuerySame, QueryDiffers, LockSame,
        OpenFails, Open, SeekFails, Stream, SetStatus, Copy, CopyFails, CopyEnds,
        WorkerNotifies, QueryError, Same, SeekFatal, CopyError
  <2>2. worker[w] # "waiting" /\ worker' = [worker EXCEPT ![w] = to] /\ to # "waiting"
    BY <2>1 DEF WorkerMoves
  <2> QED
    BY <1>t, <2>1, <2>2, TokenKept
<1>7. ASSUME NEW r \in 1..started, SenderStep(r) \/ SummaryStep(r) PROVE OneToken'
  <2>1. pool' = pool /\ handed' = handed /\ worker' = worker
    BY <1>7 DEF SenderStep, SummaryStep, OpenStream, OpenStreamFails, Send,
        SendFails, ReadEnds, Received, SenderMoves, SummaryMoves, TakesFrom,
        TakeOpenError, TakeSendError, TakeBytes, TakeClosed, CountBlock,
        SummaryNotifies, Updated, TransferError, Completed, SummaryEnds
  <2> QED
    BY <2>1, TokenKept
<1>8. ASSUME NEW j \in Jobs, Submit(j) \/ NotifierStep(j) \/ SubmitPanics(j)
      PROVE  OneToken'
  <2>1. pool' = pool /\ handed' = handed /\ worker' = worker
    BY <1>8 DEF Submit, NotifierStep, NotifierMoves, Requeue, Remove, Push, Pushed,
        SendPanics, SubmitPanics
  <2> QED
    BY <2>1, TokenKept
<1>9. ASSUME \/ Dispatch \/ CloseSubscribers \/ CloseQueue \/ UNCHANGED vars
             \/ \E w \in Workers : HashFatal(w)
             \/ \E i \in 1..Subscribers : SubscriberStep(i) \/ Exit(i)
      PROVE  OneToken'
  <2>1. pool' = pool /\ handed' = handed /\ worker' = worker
    BY <1>9 DEF Dispatch, CloseSubscribers, CloseQueue, vars, HashFatal,
        SubscriberStep, Receive, ReadStatus, Exit
  <2> QED
    BY <2>1, TokenKept
<1> QED
  BY <1>1, <1>2, <1>4, <1>5, <1>6, <1>7, <1>8, <1>9 DEF Next

\* However jobs are queued, handed over, retried and cut off by the shutdown, a
\* worker waits exactly if its job queue is in the pool or a goroutine sends to
\* it, and never both (clientqueue.go:31-44, worker.go:169-184).
THEOREM TokenCorrect == Spec => []OneToken
<1>1. Init => OneToken
  BY DEF Init, OneToken, InPool
<1>2. Spec => [](TypeInv /\ OneToken)
  BY <1>1, TypeInit, TypeStep, TokenStep, PTL DEF Spec
<1> QED
  BY <1>2, PTL

-----------------------------------------------------------------------------
(* What a run comes to.                                                     *)

\* The states of a worker before its run has a sender.
Early == {"query", "queryError", "same", "sameLocked", "open", "seekFatal", "stream"}

\* Workers do not share a run.
OwnRun ==
    \A w, v \in Workers :
        worker[w] \in Busy /\ worker[v] \in Busy /\ run[w] = run[v] => w = v

\* How far the run of a worker is.
RunBegins ==
    \A w \in Workers :
        /\ worker[w] \in Early => sender[run[w]] = "none" /\ outcome[run[w]] = {}
        /\ worker[w] = "status" => /\ sender[run[w]] \in {"open", "read", "openError"}
                                   /\ summary[run[w]] = "none"
                                   /\ ~ended[run[w]]
        /\ worker[w] \in {"copy", "copyError"} => sender[run[w]] # "none"

\* Where sender, summary and pipe of a run are.
RunState(r) ==
    /\ sender[r] = "none" => /\ summary[r] = "none" /\ ~ended[r]
                             /\ copied[r] = 0 /\ sent[r] = 0
                             /\ outcome[r] \in {{}, {"error"}, {"completed"}}
    /\ sender[r] \in {"open", "read", "bytes", "eof", "openError", "left"} =>
           sent[r] = copied[r]
    /\ sender[r] = "send" => sent[r] + 1 = copied[r]
    /\ sender[r] = "eof" => ended[r]
    /\ ended[r] => copied[r] = Blocks \/ "error" \in outcome[r]
    /\ sender[r] # "none" /\ ("completed" \in outcome[r] \/ summary[r] = "completed") =>
           sender[r] \in {"recv", "done"} /\ sent[r] = copied[r] /\ ended[r]

\* Runs to come.
Fresh == \A r \in Runs : r > started => jobOf[r] = None /\ sender[r] = "none" /\ outcome[r] = {}

RunInv == OwnRun /\ RunBegins /\ Fresh /\ \A r \in Runs : RunState(r)

runState == <<copied, sent, ended, sender, summary, outcome>>

\* A step of a worker that leaves its run alone.
LEMMA WorkerMoved ==
    ASSUME TypeInv, RunInv, NEW w \in Workers, NEW to,
           worker' = [worker EXCEPT ![w] = to],
           UNCHANGED <<run, started, jobOf, runState>>,
           to \in Busy => worker[w] \in Busy,
           to \in Early => worker[w] \in Early,
           to # "status",
           to \in {"copy", "copyError"} => worker[w] \in {"copy", "copyError"}
    PROVE  RunInv'
<1> USE DEF runState
<1>t. DOMAIN worker = Workers
  BY DEF TypeInv, TypeOK
<1>1. \A v \in Workers : /\ worker'[v] \in Busy => worker[v] \in Busy
                         /\ worker'[v] \in Early => worker[v] \in Early
                         /\ worker'[v] = "status" => worker[v] = "status"
                         /\ worker'[v] \in {"copy", "copyError"} =>
                                worker[v] \in {"copy", "copyError"}
  BY <1>t
<1>2. OwnRun'
  BY <1>1 DEF RunInv, OwnRun
<1>3. RunBegins'
  BY <1>1 DEF RunInv, RunBegins
<1>4. Fresh' /\ \A r \in Runs : RunState(r)'
  BY DEF RunInv, Fresh, RunState
<1> QED BY <1>2, <1>3, <1>4 DEF RunInv

\* Nothing of the runs and their workers changes.
LEMMA RunsKept ==
    ASSUME RunInv, UNCHANGED <<worker, run, started, jobOf, runState>>
    PROVE  RunInv'
BY DEF RunInv, OwnRun, RunBegins, Fresh, RunState, runState

\* The other runs are left alone.
OthersKept(r) ==
    \A q \in Runs \ {r} : /\ copied'[q] = copied[q] /\ sent'[q] = sent[q]
                          /\ ended'[q] = ended[q] /\ sender'[q] = sender[q]
                          /\ summary'[q] = summary[q] /\ outcome'[q] = outcome[q]

\* A step of the goroutines of a run that has its sender.
LEMMA RunMoved ==
    ASSUME TypeInv, RunInv, NEW r \in 1..started,
           UNCHANGED <<worker, run, started, jobOf>>,
           OthersKept(r), RunState(r)', sender[r] # "none", sender'[r] # "none",
           sender[r] \in {"open", "read", "openError"} /\ ~ended[r] /\ summary[r] = "none"
              => /\ sender'[r] \in {"open", "read", "openError"}
                 /\ summary'[r] = "none"
                 /\ ~ended'[r]
    PROVE  RunInv'
<1>t. started \in 0..MaxRuns /\ MaxRuns \in Nat /\ r \in Runs
  BY DEF TypeInv, TypeOK, Runs
<1>1. \A w \in Workers : worker[w] \in Busy => run[w] \in Runs
  BY BusyType
<1>2. OwnRun'
  BY DEF RunInv, OwnRun
<1>3. RunBegins'
  <2> SUFFICES ASSUME NEW w \in Workers, worker[w] \in Busy
               PROVE  /\ worker[w] \in Early => sender'[run[w]] = "none" /\ outcome'[run[w]] = {}
                      /\ worker[w] = "status" =>
                            /\ sender'[run[w]] \in {"open", "read", "openError"}
                            /\ summary'[run[w]] = "none"
                            /\ ~ended'[run[w]]
                      /\ worker[w] \in {"copy", "copyError"} => sender'[run[w]] # "none"
    BY DEF RunBegins, Busy, Early
  <2>1. CASE run[w] = r
    BY <2>1 DEF RunInv, RunBegins
  <2>2. CASE run[w] # r
    BY <1>1, <2>2 DEF RunInv, RunBegins, OthersKept
  <2> QED BY <2>1, <2>2
<1>4. Fresh'
  <2>1. \A q \in Runs : q > started => q # r
    BY <1>t
  <2> QED BY <2>1 DEF RunInv, Fresh, OthersKept
<1>5. \A q \in Runs : RunState(q)'
  <2> TAKE q \in Runs
  <2>1. CASE q = r
    BY <2>1
  <2>2. CASE q # r
    BY <2>2 DEF RunInv, RunState, OthersKept
  <2> QED BY <2>1, <2>2
<1> QED BY <1>2, <1>3, <1>4, <1>5 DEF RunInv

\* A step of a worker in its run.
LEMMA WorkerActed ==
    ASSUME TypeInv, RunInv, NEW w \in Workers, NEW to, worker[w] \in Busy,
           worker' = [worker EXCEPT ![w] = to],
           UNCHANGED <<run, started, jobOf>>,
           OthersKept(run[w]), RunState(run[w])',
           to \notin Early,
           to = "status" => /\ sender'[run[w]] \in {"open", "read", "openError"}
                            /\ summary'[run[w]] = "none"
                            /\ ~ended'[run[w]],
           to \in {"copy", "copyError"} => sender'[run[w]] # "none"
    PROVE  RunInv'
<1>t. /\ started \in 0..MaxRuns /\ MaxRuns \in Nat /\ DOMAIN worker = Workers
      /\ run[w] \in 1..started /\ run[w] \in Runs
  BY BusyType DEF TypeInv, TypeOK
<1>1. \A v \in Workers : worker[v] \in Busy => run[v] \in Runs
  BY BusyType
<1>2. \A v \in Workers : v # w => /\ worker'[v] = worker[v]
                                  /\ worker[v] \in Busy => run[v] # run[w]
  BY <1>t DEF RunInv, OwnRun
<1>3. worker'[w] = to
  BY <1>t
<1>4. OwnRun'
  BY <1>2, <1>3 DEF RunInv, OwnRun
<1>5. RunBegins'
  <2> SUFFICES ASSUME NEW v \in Workers, worker'[v] \in Busy
               PROVE  /\ worker'[v] \in Early => sender'[run[v]] = "none" /\ outcome'[run[v]] = {}
                      /\ worker'[v] = "status" =>
                            /\ sender'[run[v]] \in {"open", "read", "openError"}
                            /\ summary'[run[v]] = "none"
                            /\ ~ended'[run[v]]
                      /\ worker'[v] \in {"copy", "copyError"} => sender'[run[v]] # "none"
    BY DEF RunBegins, Busy, Early
  <2>1. CASE v = w
    BY <1>3, <2>1
  <2>2. CASE v # w
    BY <1>1, <1>2, <2>2 DEF RunInv, RunBegins, OthersKept
  <2> QED BY <2>1, <2>2
<1>6. Fresh'
  <2>1. \A q \in Runs : q > started => q # run[w]
    BY <1>t
  <2> QED BY <2>1 DEF RunInv, Fresh, OthersKept
<1>7. \A q \in Runs : RunState(q)'
  <2> TAKE q \in Runs
  <2>1. CASE q = run[w]
    BY <2>1
  <2>2. CASE q # run[w]
    BY <2>2 DEF RunInv, RunState, OthersKept
  <2> QED BY <2>1, <2>2
<1> QED BY <1>4, <1>5, <1>6, <1>7 DEF RunInv

LEMMA RunStep == TypeInv /\ RunInv /\ [Next]_vars => RunInv'
<1> SUFFICES ASSUME TypeInv, RunInv, [Next]_vars PROVE RunInv'
  OBVIOUS
<1> USE DEF queueVars, workerVars, runVars, jobVars, inboxVars, runState
<1>t. /\ started \in 0..MaxRuns /\ MaxRuns \in Nat /\ Blocks \in Nat
      /\ DOMAIN worker = Workers /\ DOMAIN run = Workers /\ DOMAIN jobOf = Runs
      /\ DOMAIN sender = Runs /\ DOMAIN summary = Runs /\ DOMAIN outcome = Runs
      /\ DOMAIN ended = Runs /\ DOMAIN copied = Runs /\ DOMAIN sent = Runs
      /\ \A r \in Runs : copied[r] \in 0..Blocks /\ sent[r] \in 0..Blocks
  BY DEF TypeInv, TypeOK
<1>b. \A w \in Workers : worker[w] \in Busy => run[w] \in 1..started /\ run[w] \in Runs
  BY BusyType
<1>c. \A r \in 1..started : r \in Runs
  BY <1>t DEF Runs
<1>1. ASSUME NEW w \in Workers, Take(w) PROVE RunInv'
  <2>1. /\ started' = started + 1 /\ started' \in Runs
        /\ worker[w] = "waiting" /\ worker' = [worker EXCEPT ![w] = "query"]
        /\ run' = [run EXCEPT ![w] = started']
        /\ jobOf' = [jobOf EXCEPT ![started'] = handed[w]]
        /\ UNCHANGED runState
    BY <1>1, <1>t DEF Take, WorkerMoves, Runs
  <2>2. \A v \in Workers : v # w =>
           /\ worker'[v] = worker[v] /\ run'[v] = run[v]
           /\ worker[v] \in Busy => run[v] # started'
    BY <1>t, <1>b, <2>1
  <2>3. worker'[w] = "query" /\ run'[w] = started'
    BY <1>t, <2>1
  <2>4. sender[started'] = "none" /\ outcome[started'] = {}
    BY <1>t, <2>1 DEF RunInv, Fresh
  <2>5. OwnRun'
    BY <2>2, <2>3 DEF RunInv, OwnRun
  <2>6. RunBegins'
    BY <2>1, <2>2, <2>3, <2>4 DEF RunInv, RunBegins
  <2>7. Fresh'
    <3>1. \A r \in Runs : r > started' => r > started /\ r # started'
      BY <1>t, <2>1 DEF Runs
    <3> QED BY <1>t, <2>1, <3>1 DEF RunInv, Fresh
  <2>8. \A r \in Runs : RunState(r)'
    BY <2>1 DEF RunInv, RunState
  <2> QED BY <2>5, <2>6, <2>7, <2>8 DEF RunInv
<1>2. ASSUME NEW w \in Workers,
             \/ Ready(w) \/ QueryFails(w) \/ QuerySame(w) \/ QueryDiffers(w) \/ LockSame(w)
             \/ OpenFails(w) \/ Open(w) \/ SeekFails(w) \/ CopyFails(w)
      PROVE  RunInv'
  <2>1. PICK to \in {"waiting", "queryError", "same", "open", "sameLocked", "ready",
                     "stream", "seekFatal", "copyError"} :
           /\ worker' = [worker EXCEPT ![w] = to]
           /\ UNCHANGED <<run, started, jobOf, runState>>
           /\ to \in Busy => worker[w] \in Busy
           /\ to \in Early => worker[w] \in Early
           /\ to \in {"copy", "copyError"} => worker[w] \in {"copy", "copyError"}
    BY <1>2 DEF Ready, QueryFails, QuerySame, QueryDiffers, LockSame, OpenFails, Open,
        SeekFails, CopyFails, Goes, WorkerMoves, Busy, Early
  <2> QED BY <2>1, WorkerMoved
<1>3. ASSUME NEW w \in Workers, SeekFatal(w) PROVE RunInv'
  <2>1. /\ worker[w] = "seekFatal" /\ worker' = [worker EXCEPT ![w] = "stream"]
        /\ UNCHANGED <<run, started, jobOf, copied, sent, sender, summary>>
        /\ outcome' = [outcome EXCEPT ![run[w]] =
                          @ \cup ({"fatal"} \cap {"error", "completed"})]
        /\ ended' = [ended EXCEPT ![run[w]] = @ \/ "seekFatal" = "copyError"]
    BY <1>3 DEF SeekFatal, WorkerNotifies, WorkerMoves
  <2>2. /\ ended \in [Runs -> BOOLEAN]
        /\ outcome \in [Runs -> SUBSET {"error", "completed"}]
    BY DEF TypeInv, TypeOK
  <2>3. ended' = ended /\ outcome' = outcome
    BY <1>b, <2>1, <2>2 DEF Busy
  <2> QED BY <2>1, <2>3, WorkerMoved DEF Busy, Early
<1>4. ASSUME NEW w \in Workers, worker[w] \in Busy
      PROVE  run[w] \in Runs /\ RunState(run[w])
  BY <1>4, <1>b DEF RunInv
<1>o. ended \in [Runs -> BOOLEAN] /\ outcome \in [Runs -> SUBSET {"error", "completed"}]
  BY DEF TypeInv, TypeOK
<1>5. ASSUME NEW w \in Workers, Stream(w) PROVE RunInv'
  <2> DEFINE r == run[w]
  <2>1. /\ worker[w] = "stream" /\ worker' = [worker EXCEPT ![w] = "status"]
        /\ sender' = [sender EXCEPT ![r] = "open"]
        /\ UNCHANGED <<run, started, jobOf, copied, sent, ended, summary, outcome>>
    BY <1>5 DEF Stream, WorkerMoves
  <2>2. r \in Runs /\ RunState(r) /\ sender[r] = "none" /\ outcome[r] = {}
    BY <1>4, <2>1 DEF Busy, Early, RunInv, RunBegins
  <2>3. sender'[r] = "open" /\ OthersKept(r)
    BY <1>t, <2>1, <2>2 DEF OthersKept
  <2>4. RunState(r)' /\ summary[r] = "none" /\ ~ended[r]
    BY <2>1, <2>2, <2>3 DEF RunState
  <2> QED BY <2>1, <2>3, <2>4, WorkerActed DEF Busy, Early
<1>6. ASSUME NEW w \in Workers, SetStatus(w) PROVE RunInv'
  <2> DEFINE r == run[w]
  <2>1. /\ worker[w] = "status" /\ worker' = [worker EXCEPT ![w] = "copy"]
        /\ summary' = [summary EXCEPT ![r] = "range"]
        /\ UNCHANGED <<run, started, jobOf, copied, sent, ended, sender, outcome>>
    BY <1>6 DEF SetStatus, WorkerMoves
  <2>2. r \in Runs /\ RunState(r) /\ sender[r] \in {"open", "read", "openError"}
    BY <1>4, <2>1 DEF Busy, RunInv, RunBegins
  <2>3. summary'[r] = "range" /\ OthersKept(r)
    BY <1>t, <2>1, <2>2 DEF OthersKept
  <2>4. RunState(r)'
    BY <2>1, <2>2, <2>3 DEF RunState
  <2> QED BY <2>1, <2>2, <2>3, <2>4, WorkerActed DEF Busy, Early
<1>7. ASSUME NEW w \in Workers, Copy(w) PROVE RunInv'
  <2> DEFINE r == run[w]
  <2>1. /\ worker[w] = "copy" /\ worker' = [worker EXCEPT ![w] = "copy"]
        /\ copied[r] < Blocks /\ sender[r] = "read"
        /\ copied' = [copied EXCEPT ![r] = @ + 1]
        /\ sender' = [sender EXCEPT ![r] = "send"]
        /\ UNCHANGED <<run, started, jobOf, sent, ended, summary, outcome>>
    BY <1>7 DEF Copy, WorkerMoves
  <2>2. r \in Runs /\ RunState(r)
    BY <1>4, <2>1 DEF Busy
  <2>3. sender'[r] = "send" /\ copied'[r] = copied[r] + 1 /\ OthersKept(r)
    BY <1>t, <2>1, <2>2 DEF OthersKept
  <2>4. /\ sent[r] = copied[r] /\ "completed" \notin outcome[r] /\ summary[r] # "completed"
        /\ ended[r] => "error" \in outcome[r]
    BY <1>t, <2>1, <2>2 DEF RunState
  <2>5. RunState(r)'
    BY <1>t, <2>1, <2>2, <2>3, <2>4 DEF RunState
  <2> QED BY <2>1, <2>3, <2>5, WorkerActed DEF Busy, Early
<1>8. ASSUME NEW w \in Workers, CopyEnds(w) PROVE RunInv'
  <2> DEFINE r == run[w]
  <2>1. /\ worker[w] = "copy" /\ worker' = [worker EXCEPT ![w] = "ready"]
        /\ copied[r] = Blocks /\ ended' = [ended EXCEPT ![r] = TRUE]
        /\ UNCHANGED <<run, started, jobOf, copied, sent, sender, summary, outcome>>
    BY <1>8 DEF CopyEnds, WorkerMoves
  <2>2. r \in Runs /\ RunState(r) /\ sender[r] # "none"
    BY <1>4, <2>1 DEF Busy, RunInv, RunBegins
  <2>3. ended'[r] /\ OthersKept(r)
    BY <1>t, <2>1, <2>2 DEF OthersKept
  <2>4. RunState(r)'
    BY <2>1, <2>2, <2>3 DEF RunState
  <2>5. /\ worker[w] \in Busy /\ worker' = [worker EXCEPT ![w] = "ready"]
        /\ UNCHANGED <<run, started, jobOf>>
        /\ "ready" \notin Early /\ "ready" # "status" /\ "ready" \notin {"copy", "copyError"}
    BY <2>1 DEF Busy, Early
  <2>6. OthersKept(run[w]) /\ RunState(run[w])'
    BY <2>3, <2>4
  <2> QED BY ONLY TypeInv, RunInv, w \in Workers, <2>5, <2>6, WorkerActed
<1>9. ASSUME NEW w \in Workers, QueryError(w) \/ Same(w) PROVE RunInv'
  <2> DEFINE r == run[w]
  <2>1. PICK type \in {"error", "completed"}, from \in {"queryError", "sameLocked"} :
           /\ worker[w] = from /\ worker' = [worker EXCEPT ![w] = "ready"]
           /\ outcome' = [outcome EXCEPT ![r] = @ \cup ({type} \cap {"error", "completed"})]
           /\ ended' = [ended EXCEPT ![r] = @ \/ from = "copyError"]
           /\ UNCHANGED <<run, started, jobOf, copied, sent, sender, summary>>
    BY <1>9 DEF QueryError, Same, WorkerNotifies, WorkerMoves
  <2>2. r \in Runs /\ RunState(r) /\ sender[r] = "none" /\ outcome[r] = {}
    BY <1>4, <2>1 DEF Busy, Early, RunInv, RunBegins
  <2>3. outcome'[r] = {type} /\ ended'[r] = ended[r] /\ OthersKept(r)
    BY <1>o, <2>1, <2>2 DEF OthersKept
  <2>4. RunState(r)'
    BY <2>1, <2>2, <2>3 DEF RunState
  <2>5. /\ worker[w] \in Busy /\ worker' = [worker EXCEPT ![w] = "ready"]
        /\ UNCHANGED <<run, started, jobOf>>
        /\ "ready" \notin Early /\ "ready" # "status" /\ "ready" \notin {"copy", "copyError"}
    BY <2>1 DEF Busy, Early
  <2>6. OthersKept(run[w]) /\ RunState(run[w])'
    BY <2>3, <2>4
  <2> QED BY ONLY TypeInv, RunInv, w \in Workers, <2>5, <2>6, WorkerActed
<1>10. ASSUME NEW w \in Workers, CopyError(w) PROVE RunInv'
  <2> DEFINE r == run[w]
  <2>1. /\ worker[w] = "copyError" /\ worker' = [worker EXCEPT ![w] = "ready"]
        /\ outcome' = [outcome EXCEPT ![r] = @ \cup ({"error"} \cap {"error", "completed"})]
        /\ ended' = [ended EXCEPT ![r] = @ \/ "copyError" = "copyError"]
        /\ UNCHANGED <<run, started, jobOf, copied, sent, sender, summary>>
    BY <1>10 DEF CopyError, WorkerNotifies, WorkerMoves
  <2>2. r \in Runs /\ RunState(r) /\ sender[r] # "none"
    BY <1>4, <2>1 DEF Busy, RunInv, RunBegins
  <2>3. outcome'[r] = outcome[r] \cup {"error"} /\ ended'[r] /\ OthersKept(r)
    BY <1>o, <2>1, <2>2 DEF OthersKept
  <2>4. RunState(r)'
    BY <2>1, <2>2, <2>3 DEF RunState
  <2>5. /\ worker[w] \in Busy /\ worker' = [worker EXCEPT ![w] = "ready"]
        /\ UNCHANGED <<run, started, jobOf>>
        /\ "ready" \notin Early /\ "ready" # "status" /\ "ready" \notin {"copy", "copyError"}
    BY <2>1 DEF Busy, Early
  <2>6. OthersKept(run[w]) /\ RunState(run[w])'
    BY <2>3, <2>4
  <2> QED BY ONLY TypeInv, RunInv, w \in Workers, <2>5, <2>6, WorkerActed
<1>11. ASSUME NEW r \in 1..started, SenderStep(r) PROVE RunInv'
  <2>1. r \in Runs /\ RunState(r) /\ sent[r] \in Nat /\ copied[r] \in Nat
    BY <1>c, <1>11, <1>t DEF RunInv
  <2>2. PICK to \in {"read", "openError", "bytes", "sendError", "eof", "done"} :
           /\ sender' = [sender EXCEPT ![r] = to]
           /\ sent' = sent \/ sent' = [sent EXCEPT ![r] = @ + 1]
           /\ UNCHANGED <<worker, run, started, jobOf, copied, ended, summary, outcome>>
           /\ \/ sender[r] = "open" /\ to \in {"read", "openError"} /\ sent' = sent
              \/ sender[r] = "send" /\ to = "bytes" /\ sent' = [sent EXCEPT ![r] = @ + 1]
              \/ sender[r] = "send" /\ to = "sendError" /\ sent' = sent
              \/ sender[r] = "read" /\ to = "eof" /\ ended[r] /\ sent' = sent
              \/ sender[r] = "recv" /\ to = "done" /\ sent' = sent
    BY <1>11 DEF SenderStep, OpenStream, OpenStreamFails, Send, SendFails, ReadEnds,
        Received, SenderMoves
  <2>3. sender'[r] = to /\ OthersKept(r) /\ sent'[r] \in {sent[r], sent[r] + 1}
    BY <1>t, <2>1, <2>2 DEF OthersKept
  <2>4. to = "bytes" => sent'[r] = sent[r] + 1 /\ sender[r] = "send"
    BY <1>t, <2>1, <2>2
  <2>5. to # "bytes" => sent'[r] = sent[r]
    BY <1>t, <2>1, <2>2
  <2>6. RunState(r)'
    <3>1. CASE to = "bytes"
      BY <2>1, <2>2, <2>3, <2>4, <3>1 DEF RunState
    <3>2. CASE to # "bytes"
      BY <2>1, <2>2, <2>3, <2>5, <3>2 DEF RunState
    <3> QED BY <3>1, <3>2
  <2>7. /\ UNCHANGED <<worker, run, started, jobOf>>
        /\ sender[r] # "none" /\ sender'[r] # "none"
        /\ sender[r] \in {"open", "read", "openError"} /\ ~ended[r] /\ summary[r] = "none"
           => /\ sender'[r] \in {"open", "read", "openError"}
              /\ summary'[r] = "none"
              /\ ~ended'[r]
    BY <2>2, <2>3
  <2> QED BY ONLY TypeInv, RunInv, r \in 1..started, <2>3, <2>6, <2>7, RunMoved
<1>12. ASSUME NEW r \in 1..started, SummaryStep(r) PROVE RunInv'
  <2>1. r \in Runs /\ RunState(r) /\ sent[r] \in Nat /\ copied[r] \in Nat
    BY <1>c, <1>12, <1>t DEF RunInv
  <2>2. /\ UNCHANGED <<worker, run, started, jobOf, copied, sent, ended>>
        /\ \/ /\ sender[r] = "openError" /\ sender' = [sender EXCEPT ![r] = "left"]
              /\ summary' = [summary EXCEPT ![r] = "error"] /\ outcome' = outcome
           \/ /\ sender[r] = "sendError" /\ sender' = [sender EXCEPT ![r] = "recv"]
              /\ summary' = [summary EXCEPT ![r] = "error"] /\ outcome' = outcome
           \/ /\ sender[r] = "bytes" /\ sender' = [sender EXCEPT ![r] = "read"]
              /\ summary' = [summary EXCEPT ![r] = "lock"] /\ outcome' = outcome
           \/ /\ sender[r] = "eof" /\ sender' = [sender EXCEPT ![r] = "recv"]
              /\ summary' = [summary EXCEPT ![r] = "completed"] /\ outcome' = outcome
           \/ /\ sender' = sender /\ outcome' = outcome
              /\ \/ summary' = [summary EXCEPT ![r] = "updated"]
                 \/ summary' = [summary EXCEPT ![r] = "done"]
           \/ /\ sender' = sender /\ summary' = [summary EXCEPT ![r] = "range"]
              /\ \/ outcome' = [outcome EXCEPT ![r] = @ \cup ({"updated"} \cap {"error", "completed"})]
                 \/ outcome' = [outcome EXCEPT ![r] = @ \cup ({"error"} \cap {"error", "completed"})]
                 \/ /\ outcome' = [outcome EXCEPT ![r] = @ \cup ({"completed"} \cap {"error", "completed"})]
                    /\ summary[r] = "completed"
        /\ summary[r] # "none"
    BY <1>12 DEF SummaryStep, SummaryMoves, TakesFrom, TakeOpenError, TakeSendError,
        TakeBytes, TakeClosed, CountBlock, SummaryNotifies, Updated, TransferError,
        Completed, SummaryEnds
  <2>3. OthersKept(r) /\ sender[r] # "none" /\ sender'[r] # "none"
    BY <1>t, <2>1, <2>2 DEF OthersKept, RunState
  <2>4. RunState(r)'
    <3>1. CASE sender' # sender
      BY <1>t, <2>1, <2>2, <2>3, <3>1 DEF RunState
    <3>2. CASE sender' = sender /\ outcome' = outcome
      <4>1. summary'[r] # "completed" \/ sender[r] = "eof"
        BY <1>t, <2>1, <2>2
      <4> QED BY <1>t, <2>1, <2>2, <2>3, <3>2, <4>1 DEF RunState
    <3>3. CASE sender' = sender /\ outcome' # outcome
      <4>1. summary'[r] = "range" /\ sender'[r] = sender[r]
        BY <1>t, <2>1, <2>2, <3>3
      <4>2. \/ outcome'[r] = outcome[r]
            \/ outcome'[r] = outcome[r] \cup {"error"}
            \/ outcome'[r] = outcome[r] \cup {"completed"} /\ summary[r] = "completed"
        <5>1. {"updated"} \cap {"error", "completed"} = {}
          OBVIOUS
        <5> QED BY <1>t, <2>1, <2>2, <3>3, <5>1
      <4> QED BY <2>1, <2>2, <2>3, <4>1, <4>2 DEF RunState
    <3> QED BY <3>1, <3>2, <3>3
  <2>5. UNCHANGED <<worker, run, started, jobOf>> /\ summary[r] # "none"
    BY <2>2
  <2> QED BY ONLY TypeInv, RunInv, r \in 1..started, <2>3, <2>4, <2>5, RunMoved
<1>13. ASSUME CloseWorker PROVE RunInv'
  <2>1. /\ Head(pool) \in Workers
        /\ worker' = [worker EXCEPT ![Head(pool)] = "exited"]
        /\ UNCHANGED <<run, started, jobOf, runState>>
    <3>1. pool \in Seq(Workers) /\ pool # << >>
      BY <1>13 DEF TypeInv, TypeOK, CloseWorker
    <3> QED BY <1>13, <3>1, Channel DEF CloseWorker
  <2> QED BY <2>1, WorkerMoved DEF Busy, Early
<1>14. ASSUME \/ \E j \in Jobs : Submit(j) \/ Fetch(j) \/ NotifierStep(j) \/ SubmitPanics(j)
              \/ Dispatch \/ CloseSubscribers \/ CloseQueue \/ UNCHANGED vars
              \/ \E w \in Workers : HashFatal(w)
              \/ \E i \in 1..Subscribers : SubscriberStep(i) \/ Exit(i)
       PROVE  RunInv'
  <2>1. UNCHANGED <<worker, run, started, jobOf, runState>>
    BY <1>14 DEF Submit, Fetch, NotifierStep, NotifierMoves, Requeue, Remove, Push, Pushed,
        SendPanics, SubmitPanics, Dispatch, CloseSubscribers, CloseQueue, vars, HashFatal,
        SubscriberStep, Receive, ReadStatus, Exit
  <2> QED BY <2>1, RunsKept
<1> QED
  BY <1>1, <1>2, <1>3, <1>5, <1>6, <1>7, <1>8, <1>9, <1>10, <1>11, <1>12, <1>13, <1>14
  DEF Next, WorkerStep

LEMMA RunInit == Init => RunInv
BY DEF Init, RunInv, OwnRun, RunBegins, Fresh, RunState, Busy, Early

\* A run that was notified as completed has sent all that was read, and what was read
\* is the whole file unless the failure was notified too, however runs of the job
\* overlap and streams and reads fail (worker.go:121-151, torrxferserverconnection.go:139-186).
THEOREM WholeCorrect == Spec => []CompletedIsWhole
<1>1. TypeInv /\ RunInv => CompletedIsWhole
  BY DEF RunInv, RunState, CompletedIsWhole
<1>2. Spec => [](TypeInv /\ RunInv)
  BY TypeInit, TypeStep, RunInit, RunStep, PTL DEF Spec
<1> QED BY <1>1, <1>2, PTL
-----------------------------------------------------------------------------
(* No job is lost but at the open of its file.                              *)

\* The states in Undecided.
Unsettled == {"query", "queryError", "same", "sameLocked", "open", "seekFatal",
              "stream", "status"}
Sending == {"open", "read", "send", "bytes", "eof", "openError", "sendError"}

Queued(j) ==
    \/ \E i \in 1..Len(jobQueue) : jobQueue[i] = j
    \/ fetching[j] > 0
    \/ \E w \in Workers : handed[w] = j
    \/ notifier[j] = "requeue"

InRun(j) ==
    \E r \in Runs : jobOf[r] = j /\ ("completed" \in outcome[r] \/ Undecided(r))

Dropped(j) == \E w \in Workers : worker[w] = "open" /\ worker'[w] = "ready" /\ Job(w) = j

\* A step in the runs, which leaves the queue alone.
LEMMA QueuedKept ==
    ASSUME NEW j, Queued(j), UNCHANGED <<jobQueue, fetching, handed>>,
           notifier[j] = "requeue" => notifier'[j] = "requeue"
    PROVE  Queued(j)'
BY DEF Queued

\* A step that leaves the runs alone.
LEMMA InRunKept ==
    ASSUME NEW j, InRun(j), UNCHANGED <<worker, run, jobOf, sender, summary, outcome>>
    PROVE  InRun(j)'
BY DEF InRun, Undecided

\* A step of a worker by which the run of j stays unsettled, is its sender's, or is
\* completed.
LEMMA InRunActed ==
    ASSUME TypeInv, NEW j \in Jobs, InRun(j), NEW w \in Workers, NEW to,
           worker' = [worker EXCEPT ![w] = to],
           UNCHANGED <<run, jobOf>>,
           \A r \in Runs : /\ "completed" \in outcome[r] => "completed" \in outcome'[r]
                           /\ sender[r] \in Sending => sender'[r] \in Sending
                           /\ summary[r] \in {"error", "completed"} => summary'[r] = summary[r],
           Job(w) = j =>
              \/ worker[w] \in Unsettled => to \in Unsettled
              \/ sender'[run[w]] \in Sending
              \/ "completed" \in outcome'[run[w]]
    PROVE  InRun(j)'
<1>t. DOMAIN worker = Workers
  BY DEF TypeInv, TypeOK
<1>1. PICK r \in Runs : jobOf[r] = j /\ ("completed" \in outcome[r] \/ Undecided(r))
  BY DEF InRun
<1>2. CASE "completed" \in outcome[r]
  BY <1>1, <1>2 DEF InRun
<1>3. CASE sender[r] \in Sending \/ summary[r] \in {"error", "completed"}
  <2>1. sender'[r] \in Sending \/ summary'[r] \in {"error", "completed"}
    BY <1>3
  <2>2. Undecided(r)'
    BY <2>1 DEF Undecided, Sending
  <2> QED BY <1>1, <2>2 DEF InRun
<1>4. ASSUME NEW v \in Workers, run[v] = r, worker[v] \in Unsettled PROVE InRun(j)'
  <2>1. CASE v # w
    <3>1. worker'[v] = worker[v] /\ run'[v] = r
      BY <1>t, <1>4, <2>1
    <3>2. Undecided(r)'
      BY <1>4, <3>1 DEF Undecided, Unsettled
    <3> QED BY <1>1, <3>2 DEF InRun
  <2>2. CASE v = w
    <3>1. worker'[w] = to /\ run'[w] = r /\ Job(w) = j
      BY <1>t, <1>1, <1>4, <2>2 DEF Job
    <3>2. to \in Unsettled \/ sender'[r] \in Sending \/ "completed" \in outcome'[r]
      BY <1>4, <2>2, <3>1
    <3>3. Undecided(r)' \/ "completed" \in outcome'[r]
      BY <3>1, <3>2 DEF Undecided, Unsettled, Sending
    <3> QED BY <1>1, <3>3 DEF InRun
  <2> QED BY <2>1, <2>2
<1> QED BY <1>1, <1>2, <1>3, <1>4 DEF Undecided, Unsettled, Sending

\* A step of the goroutines of a run by which it stays undecided or is completed.
LEMMA InRunMoved ==
    ASSUME NEW j, InRun(j), NEW r \in Runs,
           UNCHANGED <<worker, run, jobOf>>, OthersKept(r),
           jobOf[r] = j => \/ sender'[r] \in Sending
                           \/ summary'[r] \in {"error", "completed"}
                           \/ "completed" \in outcome'[r]
                           \/ /\ sender[r] \notin Sending
                              /\ summary[r] \notin {"error", "completed"}
                              /\ "completed" \notin outcome[r]
    PROVE  InRun(j)'
<1>1. PICK q \in Runs : jobOf[q] = j /\ ("completed" \in outcome[q] \/ Undecided(q))
  BY DEF InRun
<1>2. CASE q # r
  <2>1. "completed" \in outcome'[q] \/ Undecided(q)'
    BY <1>1, <1>2 DEF OthersKept, Undecided
  <2> QED BY <1>1, <2>1 DEF InRun
<1>3. CASE q = r
  <2>1. \/ "completed" \in outcome'[r]
        \/ Undecided(r)'
    BY <1>1, <1>3 DEF Undecided, Sending
  <2> QED BY <1>1, <1>3, <2>1 DEF InRun
<1> QED BY <1>2, <1>3

LEMMA LostStep ==
    ASSUME TypeInv, RunInv, OneToken, [Next]_vars, NEW j \in Jobs, j \notin pending, Tracked(j)
    PROVE  Tracked(j)' \/ Dropped(j)
<1> USE DEF queueVars, workerVars, runVars, jobVars, inboxVars
<1> DEFINE Goal == Tracked(j)' \/ Dropped(j)
<1>t. /\ started \in 0..MaxRuns /\ MaxRuns \in Nat
      /\ jobQueue \in Seq(Jobs) /\ fetching \in [Jobs -> Nat]
      /\ handed \in [Workers -> Jobs \cup {None}] /\ pool \in Seq(Workers)
      /\ DOMAIN worker = Workers /\ DOMAIN run = Workers /\ DOMAIN jobOf = Runs
      /\ DOMAIN sender = Runs /\ DOMAIN summary = Runs
      /\ DOMAIN notifier = Jobs /\ j # None
      /\ outcome \in [Runs -> SUBSET {"error", "completed"}]
  BY DEF TypeInv, TypeOK
<1>b. \A w \in Workers : worker[w] \in Busy => run[w] \in Runs /\ Job(w) \in Jobs
  BY BusyType
<1>c. \A r \in 1..started : r \in Runs /\ jobOf[r] \in Jobs
  BY <1>t DEF TypeInv, RunKnown, Runs
<1>d. Queued(j) \/ InRun(j)
  BY DEF Tracked, Queued, InRun
<1>e. Queued(j)' \/ InRun(j)' => Goal
  BY DEF Tracked, Queued, InRun
<1> HIDE DEF Goal
<1>n. ASSUME NEW k \in Jobs, NEW type, Notifies(k, type)
      PROVE  /\ notifier[j] = "requeue" => notifier'[j] = "requeue"
             /\ type = "error" => notifier'[k] = "requeue"
  BY <1>t, <1>n DEF Notifies
<1>1. ASSUME NEW k \in Jobs, Submit(k) PROVE Goal
  <2>1. /\ jobQueue' = Append(jobQueue, k) /\ notifier' = [notifier EXCEPT ![k] = "range"]
        /\ UNCHANGED <<fetching, handed, worker, run, jobOf, sender, summary, outcome>>
        /\ k # j
    BY <1>1 DEF Submit
  <2>2. \A i \in 1..Len(jobQueue) : i \in 1..Len(jobQueue') /\ jobQueue'[i] = jobQueue[i]
    BY <1>t, <2>1
  <2>3. Queued(j) => Queued(j)'
    BY <1>t, <2>1, <2>2 DEF Queued
  <2> QED BY <1>d, <1>e, <2>1, <2>3, InRunKept
<1>2. ASSUME Dispatch PROVE Goal
  <2>1. /\ jobQueue # << >> /\ jobQueue' = Tail(jobQueue)
        /\ fetching' = [fetching EXCEPT ![Head(jobQueue)] = @ + 1]
        /\ UNCHANGED <<handed, notifier, worker, run, jobOf, sender, summary, outcome>>
    BY <1>2 DEF Dispatch
  <2>2. /\ \A i \in 1..Len(jobQueue) : i = 1 \/
               (i - 1 \in 1..Len(jobQueue') /\ jobQueue'[i - 1] = jobQueue[i])
        /\ Head(jobQueue) = jobQueue[1] /\ Head(jobQueue) \in Jobs
    BY <1>t, <2>1
  <2>3. /\ fetching'[Head(jobQueue)] > 0
        /\ fetching[j] > 0 => fetching'[j] > 0
    BY <1>t, <2>1, <2>2
  <2>4. ASSUME NEW i \in 1..Len(jobQueue), jobQueue[i] = j PROVE Queued(j)'
    <3>1. CASE i = 1
      BY <2>2, <2>3, <2>4, <3>1 DEF Queued
    <3>2. CASE i # 1
      <4>1. i - 1 \in 1..Len(jobQueue') /\ jobQueue'[i - 1] = j
        BY <2>2, <2>4, <3>2
      <4> QED BY <4>1 DEF Queued
    <3> QED BY <3>1, <3>2
  <2>5. Queued(j) => Queued(j)'
    BY <2>1, <2>3, <2>4 DEF Queued
  <2> QED BY <1>d, <1>e, <2>1, <2>5, InRunKept
<1>3. ASSUME NEW k \in Jobs, Fetch(k) PROVE Goal
  <2> DEFINE h == Head(pool)
  <2>1. /\ fetching' = [fetching EXCEPT ![k] = @ - 1] /\ handed' = [handed EXCEPT ![h] = k]
        /\ UNCHANGED <<jobQueue, notifier, worker, run, jobOf, sender, summary, outcome>>
        /\ pool # << >>
    BY <1>3 DEF Fetch
  <2>2. h \in Workers /\ handed[h] = None
    <3>1. Len(pool) \in Nat \ {0} /\ h = pool[1] /\ h \in Workers
      BY <1>t, <2>1
    <3>2. InPool(h)
      BY <3>1 DEF InPool
    <3> QED BY <3>1, <3>2 DEF OneToken
  <2>3. /\ handed'[h] = k
        /\ \A w \in Workers : handed[w] = j => handed'[w] = j
        /\ k # j => fetching'[j] = fetching[j]
    BY <1>t, <2>1, <2>2
  <2>4. Queued(j) => Queued(j)'
    BY <2>1, <2>2, <2>3 DEF Queued
  <2> QED BY <1>d, <1>e, <2>1, <2>4, InRunKept
<1>4. ASSUME NEW k \in Jobs, NotifierStep(k) PROVE Goal
  <2>1. UNCHANGED <<fetching, handed, worker, run, jobOf, sender, summary, outcome>>
    BY <1>4 DEF NotifierStep, Requeue, Remove, Push, Pushed, SendPanics, NotifierMoves
  <2>2. CASE Requeue(k)
    <3>1. /\ jobQueue' = Append(jobQueue, k) /\ notifier' = [notifier EXCEPT ![k] = "range"]
      BY <2>2 DEF Requeue, NotifierMoves
    <3>2. /\ \A i \in 1..Len(jobQueue) : i \in 1..Len(jobQueue') /\ jobQueue'[i] = jobQueue[i]
          /\ Len(jobQueue') \in 1..Len(jobQueue') /\ jobQueue'[Len(jobQueue')] = k
      BY <1>t, <3>1
    <3>3. k # j => notifier'[j] = notifier[j]
      BY <1>t, <3>1
    <3>4. Queued(j) => Queued(j)'
      BY <2>1, <3>2, <3>3 DEF Queued
    <3> QED BY <1>d, <1>e, <2>1, <3>4, InRunKept
  <2>3. CASE ~Requeue(k)
    <3>1. jobQueue' = jobQueue /\ (notifier[j] = "requeue" => notifier'[j] = "requeue")
      BY <1>4, <1>t, <2>3 DEF NotifierStep, Remove, Push, Pushed, SendPanics, NotifierMoves
    <3> QED BY <1>d, <1>e, <2>1, <3>1, InRunKept, QueuedKept
  <2> QED BY <2>2, <2>3
<1>5. ASSUME NEW w \in Workers, Take(w) PROVE Goal
  <2>0. started + 1 \in Runs /\ started' = started + 1
    BY <1>5, <1>t DEF Take, Runs
  <2>1. PICK n \in Runs :
        /\ n = started + 1
        /\ worker[w] = "waiting" /\ worker' = [worker EXCEPT ![w] = "query"]
        /\ run' = [run EXCEPT ![w] = n]
        /\ jobOf' = [jobOf EXCEPT ![n] = handed[w]]
        /\ handed' = [handed EXCEPT ![w] = None]
        /\ UNCHANGED <<jobQueue, fetching, notifier, sender, summary, outcome>>
    BY <1>5, <2>0 DEF Take, WorkerMoves
  <2>2. ASSUME Queued(j), handed[w] # j PROVE Queued(j)'
    BY <1>t, <2>1, <2>2 DEF Queued
  <2>3. ASSUME handed[w] = j PROVE InRun(j)'
    <3>1. jobOf'[n] = j /\ worker'[w] = "query" /\ run'[w] = n
      BY <1>t, <2>1, <2>3
    <3>2. Undecided(n)'
      BY <3>1 DEF Undecided
    <3> QED BY <2>1, <3>1, <3>2 DEF InRun
  <2>4. ASSUME InRun(j) PROVE InRun(j)'
    <3>1. PICK r \in Runs : jobOf[r] = j /\ ("completed" \in outcome[r] \/ Undecided(r))
      BY <2>4 DEF InRun
    <3>2. r # n
      BY <1>t, <2>1, <3>1 DEF RunInv, Fresh
    <3>3. jobOf'[r] = j
      BY <1>t, <2>1, <3>1, <3>2
    <3>4. \A v \in Workers : v # w => worker'[v] = worker[v] /\ run'[v] = run[v]
      BY <1>t, <2>1
    <3>5. "completed" \in outcome'[r] \/ Undecided(r)'
      BY <2>1, <3>1, <3>4 DEF Undecided
    <3> QED BY <3>3, <3>5 DEF InRun
  <2> QED BY <1>d, <1>e, <2>2, <2>3, <2>4
<1>6. ASSUME NEW w \in Workers, NEW to, worker' = [worker EXCEPT ![w] = to],
             UNCHANGED <<jobQueue, fetching, handed, run, jobOf>>,
             notifier[j] = "requeue" => notifier'[j] = "requeue",
             \A r \in Runs : /\ "completed" \in outcome[r] => "completed" \in outcome'[r]
                             /\ sender[r] \in Sending => sender'[r] \in Sending
                             /\ summary[r] \in {"error", "completed"} => summary'[r] = summary[r],
             Job(w) = j => \/ worker[w] \in Unsettled => to \in Unsettled
                           \/ sender'[run[w]] \in Sending
                           \/ "completed" \in outcome'[run[w]]
      PROVE  Goal
  BY <1>6, <1>d, <1>e, QueuedKept, InRunActed
<1>7. ASSUME NEW w \in Workers,
             \/ Ready(w) \/ QueryFails(w) \/ QuerySame(w) \/ QueryDiffers(w) \/ LockSame(w)
             \/ Open(w) \/ SeekFails(w) \/ CopyFails(w) \/ CopyEnds(w)
      PROVE  Goal
  <2>1. PICK to \in {"waiting", "queryError", "same", "open", "sameLocked", "ready",
                     "stream", "seekFatal", "copyError"} :
           /\ worker' = [worker EXCEPT ![w] = to]
           /\ UNCHANGED <<jobQueue, fetching, handed, run, jobOf, notifier, outcome, sender, summary>>
           /\ worker[w] \in Unsettled => to \in Unsettled
    BY <1>7 DEF Ready, QueryFails, QuerySame, QueryDiffers, LockSame, Open, SeekFails,
        CopyFails, CopyEnds, Goes, WorkerMoves, Unsettled
  <2> QED BY <1>6, <2>1
<1>8. ASSUME NEW w \in Workers, OpenFails(w) PROVE Goal
  <2>1. /\ worker[w] = "open" /\ worker' = [worker EXCEPT ![w] = "ready"]
        /\ UNCHANGED <<jobQueue, fetching, handed, run, jobOf, notifier, outcome, sender, summary>>
    BY <1>8 DEF OpenFails, Goes, WorkerMoves
  <2>2. CASE Job(w) = j
    <3>1. worker'[w] = "ready"
      BY <1>t, <2>1
    <3> QED BY <2>1, <2>2, <3>1 DEF Dropped, Goal
  <2>3. CASE Job(w) # j
    BY <1>6, <2>1, <2>3
  <2> QED BY <2>2, <2>3
<1>9. ASSUME NEW w \in Workers, Stream(w) \/ Copy(w) PROVE Goal
  <2>1. PICK to \in {"status", "copy"}, at \in Sending :
           /\ worker' = [worker EXCEPT ![w] = to]
           /\ sender' = [sender EXCEPT ![run[w]] = at]
           /\ UNCHANGED <<jobQueue, fetching, handed, run, jobOf, notifier, outcome, summary>>
           /\ worker[w] \in Unsettled => to \in Unsettled
    BY <1>9 DEF Stream, Copy, WorkerMoves, Unsettled, Sending
  <2>2. \A r \in Runs : sender[r] \in Sending => sender'[r] \in Sending
    BY <1>t, <2>1
  <2> QED BY <1>6, <2>1, <2>2
<1>10. ASSUME NEW w \in Workers, SetStatus(w) PROVE Goal
  <2>1. /\ worker[w] = "status" /\ worker' = [worker EXCEPT ![w] = "copy"]
        /\ summary' = [summary EXCEPT ![run[w]] = "range"]
        /\ UNCHANGED <<jobQueue, fetching, handed, run, jobOf, notifier, outcome, sender>>
    BY <1>10 DEF SetStatus, WorkerMoves
  <2>2. summary[run[w]] = "none" /\ sender[run[w]] \in Sending
    BY <2>1 DEF RunInv, RunBegins, Sending
  <2>3. \A r \in Runs : summary[r] \in {"error", "completed"} => summary'[r] = summary[r]
    BY <1>t, <2>1, <2>2
  <2> QED BY <1>6, <2>1, <2>2, <2>3
<1>11. ASSUME NEW w \in Workers,
              \/ QueryError(w) \/ Same(w) \/ SeekFatal(w) \/ CopyError(w)
       PROVE  Goal
  <2>1. PICK type \in {"error", "completed", "fatal"},
             from \in {"queryError", "sameLocked", "seekFatal", "copyError"},
             to \in {"ready", "stream"} :
           /\ worker[w] = from /\ worker' = [worker EXCEPT ![w] = to]
           /\ Notifies(Job(w), type)
           /\ outcome' = [outcome EXCEPT ![run[w]] = @ \cup ({type} \cap {"error", "completed"})]
           /\ UNCHANGED <<jobQueue, fetching, handed, run, jobOf, sender, summary>>
           /\ to = "stream" \/ type \in {"error", "completed"}
    BY <1>11 DEF QueryError, Same, SeekFatal, CopyError, WorkerNotifies, WorkerMoves
  <2>2. run[w] \in Runs /\ Job(w) \in Jobs
    BY <1>b, <2>1 DEF Busy
  <2>3. \A r \in Runs : "completed" \in outcome[r] => "completed" \in outcome'[r]
    BY <1>t, <2>1, <2>2
  <2>4. /\ notifier[j] = "requeue" => notifier'[j] = "requeue"
        /\ type = "error" => notifier'[Job(w)] = "requeue"
    BY <1>n, <2>1, <2>2
  <2>5. CASE Job(w) = j /\ type = "error"
    BY <1>e, <2>4, <2>5 DEF Queued
  <2>6. CASE Job(w) # j \/ type # "error"
    <3>1. type = "completed" => "completed" \in outcome'[run[w]]
      BY <1>t, <2>1, <2>2
    <3> QED BY <1>6, <2>1, <2>3, <2>4, <2>6, <3>1 DEF Unsettled
  <2> QED BY <2>5, <2>6
<1>12. ASSUME NEW r \in 1..started, SenderStep(r) PROVE Goal
  <2>1. PICK to \in Sending \cup {"done"} :
           /\ sender' = [sender EXCEPT ![r] = to]
           /\ UNCHANGED <<jobQueue, fetching, handed, notifier, worker, run, jobOf, summary, outcome>>
           /\ sender[r] \in Sending => to \in Sending
    BY <1>12 DEF SenderStep, OpenStream, OpenStreamFails, Send, SendFails, ReadEnds,
        Received, SenderMoves, Sending
  <2>2. sender'[r] = to /\ \A q \in Runs \ {r} : sender'[q] = sender[q]
    BY <1>c, <1>t, <2>1
  <2>3. ASSUME InRun(j) PROVE InRun(j)'
    <3>1. PICK q \in Runs : jobOf[q] = j /\ ("completed" \in outcome[q] \/ Undecided(q))
      BY <2>3 DEF InRun
    <3>2. sender[q] \in Sending => sender'[q] \in Sending
      BY <2>1, <2>2
    <3>3. "completed" \in outcome'[q] \/ Undecided(q)'
      BY <2>1, <3>1, <3>2 DEF Undecided, Sending
    <3> QED BY <2>1, <3>1, <3>3 DEF InRun
  <2> QED BY <1>d, <1>e, <2>1, <2>3, QueuedKept
<1>13. ASSUME NEW r \in 1..started, SummaryStep(r) PROVE Goal
  <2>0. r \in Runs /\ jobOf[r] \in Jobs
    BY <1>c
  <2>1. UNCHANGED <<jobQueue, fetching, handed, worker, run, jobOf, copied, sent, ended>>
    BY <1>13 DEF SummaryStep, SummaryMoves, TakesFrom, TakeOpenError, TakeSendError,
        TakeBytes, TakeClosed, CountBlock, SummaryNotifies, Updated, TransferError,
        Completed, SummaryEnds
  <2>2. CASE TakeOpenError(r) \/ TakeSendError(r) \/ TakeBytes(r) \/ TakeClosed(r)
    <3>1. PICK to \in {"left", "recv", "read"}, taken \in {"error", "lock", "completed"} :
             /\ sender' = [sender EXCEPT ![r] = to]
             /\ summary' = [summary EXCEPT ![r] = taken]
             /\ UNCHANGED <<outcome, notifier>>
             /\ to = "read" \/ taken \in {"error", "completed"}
      BY <2>2 DEF TakeOpenError, TakeSendError, TakeBytes, TakeClosed, TakesFrom, SummaryMoves
    <3>2. OthersKept(r) /\ (sender'[r] \in Sending \/ summary'[r] \in {"error", "completed"})
      BY <1>t, <2>0, <2>1, <3>1 DEF OthersKept, Sending
    <3> QED BY <1>d, <1>e, <2>0, <2>1, <3>1, <3>2, InRunMoved, QueuedKept
  <2>3. CASE CountBlock(r) \/ SummaryEnds(r)
    <3>1. PICK to \in {"updated", "done"} :
             /\ summary[r] \in {"lock", "range"} /\ summary' = [summary EXCEPT ![r] = to]
             /\ UNCHANGED <<sender, outcome, notifier>>
      BY <2>3 DEF CountBlock, SummaryEnds, SummaryMoves
    <3>2. OthersKept(r) /\ sender'[r] = sender[r] /\ outcome'[r] = outcome[r]
      BY <1>t, <2>0, <2>1, <3>1 DEF OthersKept
    <3> QED BY <1>d, <1>e, <2>0, <2>1, <3>1, <3>2, InRunMoved, QueuedKept
  <2>4. CASE Updated(r) \/ TransferError(r) \/ Completed(r)
    <3>1. PICK type \in {"updated", "error", "completed"} :
             /\ summary[r] = type /\ summary' = [summary EXCEPT ![r] = "range"]
             /\ outcome' = [outcome EXCEPT ![r] = @ \cup ({type} \cap {"error", "completed"})]
             /\ Notifies(jobOf[r], type) /\ sender' = sender
      BY <2>4 DEF Updated, TransferError, Completed, SummaryNotifies, SummaryMoves
    <3>2. /\ notifier[j] = "requeue" => notifier'[j] = "requeue"
          /\ type = "error" => notifier'[jobOf[r]] = "requeue"
      BY <1>n, <2>0, <3>1
    <3>3. /\ OthersKept(r) /\ sender'[r] = sender[r]
          /\ "completed" \in outcome[r] \/ type = "completed" => "completed" \in outcome'[r]
      BY <1>t, <2>0, <2>1, <3>1 DEF OthersKept
    <3>4. CASE jobOf[r] = j /\ type = "error"
      BY <1>e, <3>2, <3>4 DEF Queued
    <3>5. CASE jobOf[r] # j \/ type # "error"
      <4>1. jobOf[r] = j => \/ sender'[r] \in Sending
                            \/ summary'[r] \in {"error", "completed"}
                            \/ "completed" \in outcome'[r]
                            \/ /\ sender[r] \notin Sending
                               /\ summary[r] \notin {"error", "completed"}
                               /\ "completed" \notin outcome[r]
        BY <3>1, <3>3, <3>5
      <4>2. InRun(j) => InRun(j)'
        BY <2>0, <2>1, <3>3, <4>1, InRunMoved
      <4> QED BY <1>d, <1>e, <2>1, <3>2, <4>2, QueuedKept
    <3> QED BY <3>4, <3>5
  <2> QED BY <1>13, <2>2, <2>3, <2>4 DEF SummaryStep
<1>14. ASSUME CloseWorker PROVE Goal
  <2> DEFINE h == Head(pool)
  <2>1. /\ pool # << >> /\ worker' = [worker EXCEPT ![h] = "exited"]
        /\ UNCHANGED <<jobQueue, fetching, handed, run, jobOf, notifier, outcome, sender, summary>>
    BY <1>14 DEF CloseWorker
  <2>2. h \in Workers /\ worker[h] = "waiting"
    <3>1. Len(pool) \in Nat \ {0} /\ h = pool[1] /\ h \in Workers
      BY <1>t, <2>1
    <3>2. InPool(h)
      BY <3>1 DEF InPool
    <3> QED BY <3>1, <3>2 DEF OneToken
  <2> QED BY <1>6, <2>1, <2>2 DEF Unsettled
<1>15. ASSUME \/ \E k \in Jobs : SubmitPanics(k)
              \/ CloseSubscribers \/ CloseQueue \/ UNCHANGED vars
              \/ \E w \in Workers : HashFatal(w)
              \/ \E i \in 1..Subscribers : SubscriberStep(i) \/ Exit(i)
       PROVE  Goal
  <2>1. UNCHANGED <<jobQueue, fetching, handed, notifier, worker, run, jobOf, sender,
                    summary, outcome>>
    BY <1>15 DEF SubmitPanics, CloseSubscribers, CloseQueue, vars, HashFatal,
        SubscriberStep, Receive, ReadStatus, Exit
  <2> QED BY <1>d, <1>e, <2>1, QueuedKept, InRunKept
<1>16. Goal
  BY <1>1, <1>2, <1>3, <1>4, <1>5, <1>7, <1>8, <1>9, <1>10, <1>11, <1>12, <1>13, <1>14,
     <1>15 DEF Next, WorkerStep
<1> QED BY <1>16 DEF Goal

\* A job that was made stays in the queue, on its way to a worker, in a run that is not
\* over, about to be queued again, or completed, through every failure of a call, a
\* stream or a read and through the shutdown; only the open that fails drops it
\* (client.go:192-201, clientqueue.go:32-39, worker.go:74-79).
THEOREM NotLost == Spec => JobNotLost
<1> DEFINE Kept == \A j \in Jobs :
                      j \notin pending /\ Tracked(j) =>
                          \/ Tracked(j)'
                          \/ \E w \in Workers : /\ worker[w] = "open" /\ worker'[w] = "ready"
                                                /\ Job(w) = j
<1>1. TypeInv /\ RunInv /\ OneToken /\ [Next]_vars => [Kept]_vars
  BY LostStep DEF Dropped
<1>2. Init => OneToken
  BY DEF Init, OneToken, InPool
<1>3. Spec => [](TypeInv /\ RunInv /\ OneToken)
  BY <1>2, TypeInit, TypeStep, RunInit, RunStep, TokenStep, PTL DEF Spec
<1> QED BY <1>1, <1>3, PTL DEF Spec, JobNotLost

-----------------------------------------------------------------------------
(* What a job has coming to it: turns, runs to be decided, workers.         *)

\* Where j is in a queue, and the workers that are handed it.
Places(q, j) == {i \in 1..Len(q) : q[i] = j}
HandedTo(j) == {w \in Workers : handed[w] = j}
Again(j) == IF notifier[j] = "requeue" THEN 1 ELSE 0

\* A queue that gets an element has one place more of it, and so has one with a head.
LEMMA PlacesCount ==
    ASSUME NEW S, NEW q \in Seq(S), NEW j
    PROVE  /\ Cardinality(Places(q, j)) \in Nat
           /\ \A k \in S : Cardinality(Places(Append(q, k), j)) =
                           Cardinality(Places(q, j)) + (IF k = j THEN 1 ELSE 0)
           /\ q # << >> => Cardinality(Places(q, j)) =
                           Cardinality(Places(Tail(q), j)) + (IF Head(q) = j THEN 1 ELSE 0)
<1>1. ASSUME NEW p \in Seq(S) PROVE IsFiniteSet(Places(p, j)) /\ Cardinality(Places(p, j)) \in Nat
  <2>1. Len(p) \in Nat /\ IsFiniteSet(1..Len(p))
    BY FS_Interval
  <2>2. Places(p, j) \in SUBSET (1..Len(p))
    BY DEF Places
  <2> QED BY <2>1, <2>2, FS_Subset, FS_CardinalityType
<1>2. ASSUME NEW k \in S
      PROVE  Cardinality(Places(Append(q, k), j)) =
             Cardinality(Places(q, j)) + (IF k = j THEN 1 ELSE 0)
  <2> DEFINE a == Append(q, k)
             n == Len(q) + 1
  <2>1. /\ Len(q) \in Nat /\ Len(a) = n /\ a[n] = k
        /\ \A i \in 1..Len(q) : a[i] = q[i]
    OBVIOUS
  <2>2. Places(a, j) = IF k = j THEN Places(q, j) \cup {n} ELSE Places(q, j)
    <3> HIDE DEF a
    <3>1. \A i : i \in 1..n <=> i \in 1..Len(q) \/ i = n
      BY <2>1
    <3>2. n \notin 1..Len(q)
      BY <2>1
    <3> HIDE DEF n
    <3> QED BY <2>1, <3>1, <3>2 DEF Places
  <2>3. n \notin Places(q, j)
    BY <2>1 DEF Places
  <2> HIDE DEF a, n
  <2>4. IsFiniteSet(Places(q, j)) /\ Cardinality(Places(q, j)) \in Nat
    BY <1>1
  <2>5. Cardinality(Places(q, j) \cup {n}) = Cardinality(Places(q, j)) + 1
    BY <2>3, <2>4, FS_AddElement
  <2>6. Cardinality(Places(a, j)) = Cardinality(Places(q, j)) + (IF k = j THEN 1 ELSE 0)
    BY <2>2, <2>4, <2>5
  <2> QED BY <2>6 DEF a
<1>3. ASSUME q # << >>
      PROVE  Cardinality(Places(q, j)) =
             Cardinality(Places(Tail(q), j)) + (IF Head(q) = j THEN 1 ELSE 0)
  <2> DEFINE t == Tail(q)
             rest == Places(q, j) \ {1}
             shift == [i \in Places(t, j) |-> i + 1]
  <2>1. /\ Len(q) \in Nat \ {0} /\ t \in Seq(S) /\ Len(t) = Len(q) - 1
        /\ Head(q) = q[1]
        /\ \A i \in 1..Len(t) : t[i] = q[i + 1]
    BY <1>3
  <2> HIDE DEF t
  <2>2. \A i \in Places(t, j) : i \in Nat /\ i + 1 \in rest
    BY <2>1 DEF Places
  <2>3. \A i \in rest : i - 1 \in Places(t, j) /\ i = (i - 1) + 1
    BY <2>1 DEF Places
  <2>4. shift \in Bijection(Places(t, j), rest)
    <3>1. shift \in [Places(t, j) -> rest]
      BY <2>2
    <3>2. \A a, b \in Places(t, j) : shift[a] = shift[b] => a = b
      BY <2>2
    <3>3. \A c \in rest : \E a \in Places(t, j) : shift[a] = c
      BY <2>3
    <3> HIDE DEF shift, rest
    <3> QED BY <3>1, <3>2, <3>3 DEF Bijection, Injection, Surjection, IsInjective
  <2>5. IsFiniteSet(Places(t, j)) /\ Cardinality(Places(t, j)) \in Nat
    BY <1>1, <2>1
  <2>6. Cardinality(rest) = Cardinality(Places(t, j))
    <3>1. ExistsBijection(Places(t, j), rest)
      BY <2>4 DEF ExistsBijection
    <3> HIDE DEF rest
    <3> QED BY <2>5, <3>1, FS_Bijection
  <2>7. IsFiniteSet(Places(q, j)) /\ Cardinality(Places(q, j)) \in Nat
    BY <1>1
  <2>8. Cardinality(rest) =
        IF 1 \in Places(q, j) THEN Cardinality(Places(q, j)) - 1 ELSE Cardinality(Places(q, j))
    BY <2>7, FS_RemoveElement
  <2>9. 1 \in Places(q, j) <=> Head(q) = j
    BY <2>1 DEF Places
  <2> HIDE DEF rest
  <2>10. Cardinality(Places(q, j)) =
         Cardinality(Places(t, j)) + (IF Head(q) = j THEN 1 ELSE 0)
    BY <2>5, <2>6, <2>7, <2>8, <2>9
  <2> QED BY <2>10 DEF t
<1> QED BY <1>1, <1>2, <1>3

-----------------------------------------------------------------------------
(* Runs that are to be decided, and runs with a worker.                     *)

DoingRuns == {r \in Runs : \E w \in Workers : run[w] = r /\ worker[w] \in Unsettled}
StreamingRuns == {r \in Runs : sender[r] \in Sending \/ summary[r] \in {"error", "completed"}}

OpenRuns == {r \in Runs : Undecided(r)}
AttendedRuns == {r \in Runs : Attended(r)}

RunsOf(f, S, j) == {r \in S : f[r] = j}

LEMMA OpenIs ==
    /\ OpenRuns = DoingRuns \cup StreamingRuns
    /\ OpenRuns' = DoingRuns' \cup StreamingRuns'
BY DEF OpenRuns, Undecided, DoingRuns, StreamingRuns, Unsettled, Sending

\* The runs of a job in a set of runs are counted; one run more or less, one more or less.
LEMMA RunsCount ==
    ASSUME NEW S \in SUBSET Runs, NEW f, NEW j
    PROVE  /\ Cardinality(RunsOf(f, S, j)) \in Nat
           /\ \A r \in Runs \ S : Cardinality(RunsOf(f, S \cup {r}, j)) =
                  Cardinality(RunsOf(f, S, j)) + (IF f[r] = j THEN 1 ELSE 0)
           /\ \A r \in S : /\ Cardinality(RunsOf(f, S \ {r}, j)) =
                                Cardinality(RunsOf(f, S, j)) - (IF f[r] = j THEN 1 ELSE 0)
                           /\ f[r] = j => Cardinality(RunsOf(f, S, j)) > 0
<1>0. IsFiniteSet(Runs)
  BY FS_Interval DEF Runs
<1>1. ASSUME NEW T \in SUBSET Runs
      PROVE  IsFiniteSet(RunsOf(f, T, j)) /\ Cardinality(RunsOf(f, T, j)) \in Nat
  <2>1. RunsOf(f, T, j) \in SUBSET Runs
    BY DEF RunsOf
  <2> QED BY <1>0, <2>1, FS_Subset, FS_CardinalityType
<1>2. ASSUME NEW T \in SUBSET Runs, NEW r \in Runs \ T
      PROVE  Cardinality(RunsOf(f, T \cup {r}, j)) =
             Cardinality(RunsOf(f, T, j)) + (IF f[r] = j THEN 1 ELSE 0)
  <2>1. RunsOf(f, T \cup {r}, j) = IF f[r] = j THEN RunsOf(f, T, j) \cup {r} ELSE RunsOf(f, T, j)
    BY DEF RunsOf
  <2>2. r \notin RunsOf(f, T, j)
    BY DEF RunsOf
  <2>3. Cardinality(RunsOf(f, T, j) \cup {r}) = Cardinality(RunsOf(f, T, j)) + 1
    BY <1>1, <2>2, FS_AddElement
  <2> QED BY <1>1, <2>1, <2>3
<1>3. ASSUME NEW r \in S
      PROVE  /\ Cardinality(RunsOf(f, S \ {r}, j)) =
                Cardinality(RunsOf(f, S, j)) - (IF f[r] = j THEN 1 ELSE 0)
             /\ f[r] = j => Cardinality(RunsOf(f, S, j)) > 0
  <2>1. S \ {r} \in SUBSET Runs /\ r \in Runs \ (S \ {r}) /\ (S \ {r}) \cup {r} = S
    OBVIOUS
  <2>2. Cardinality(RunsOf(f, S, j)) =
        Cardinality(RunsOf(f, S \ {r}, j)) + (IF f[r] = j THEN 1 ELSE 0)
    BY <1>2, <2>1
  <2> QED BY <1>1, <2>1, <2>2
<1> QED BY <1>1, <1>2, <1>3

\* How many turns and runs a job has.
LEMMA Counted ==
    ASSUME TypeInv, NEW j \in Jobs
    PROVE  /\ Deciding(j) = Cardinality(RunsOf(jobOf, OpenRuns, j)) /\ Deciding(j) \in Nat
           /\ Working(j) = Cardinality(RunsOf(jobOf, AttendedRuns, j)) /\ Working(j) \in Nat
<1>1. /\ OpenRuns \in SUBSET Runs /\ AttendedRuns \in SUBSET Runs
      /\ Deciding(j) = Cardinality(RunsOf(jobOf, OpenRuns, j))
      /\ Working(j) = Cardinality(RunsOf(jobOf, AttendedRuns, j))
  <2>1. {r \in Runs : jobOf[r] = j /\ Undecided(r)} = RunsOf(jobOf, OpenRuns, j)
    BY DEF RunsOf, OpenRuns
  <2>2. {r \in Runs : jobOf[r] = j /\ Attended(r)} = RunsOf(jobOf, AttendedRuns, j)
    BY DEF RunsOf, AttendedRuns
  <2>3. OpenRuns \in SUBSET Runs /\ AttendedRuns \in SUBSET Runs
    BY DEF OpenRuns, AttendedRuns
  <2> QED BY <2>1, <2>2, <2>3 DEF Deciding, Working
<1>2. /\ Cardinality(RunsOf(jobOf, OpenRuns, j)) \in Nat
      /\ Cardinality(RunsOf(jobOf, AttendedRuns, j)) \in Nat
  BY <1>1, RunsCount
<1> QED BY <1>1, <1>2

-----------------------------------------------------------------------------
(* The turns that a job waits for.                                          *)

\* Goroutines that send to a worker are as many as were started.
HandedFinite == \A j \in Jobs : IsFiniteSet(HandedTo(j))

\* An error of the stream is notified after the sender has left its loop.
AtErrors == \A r \in Runs : summary[r] = "error" => sender[r] \in {"left", "recv", "done"}

\* A notifier runs for a job that was made; it removes a file when told to, after a
\* completed run.
NotifierKnown ==
    \A j \in Jobs :
        /\ j \in pending => notifier[j] = "none"
        /\ notifier[j] = "remove" =>
              DeleteOnComplete /\ \E r \in Runs : jobOf[r] = j /\ "completed" \in outcome[r]

CountInv == HandedFinite /\ AtErrors /\ NotifierKnown

LEMMA WaitingIs ==
    ASSUME TypeInv, HandedFinite, NEW j \in Jobs
    PROVE  /\ Waiting(j) = Cardinality(Places(jobQueue, j)) + fetching[j]
                            + Cardinality(HandedTo(j)) + Again(j)
           /\ Cardinality(Places(jobQueue, j)) \in Nat /\ fetching[j] \in Nat
           /\ Cardinality(HandedTo(j)) \in Nat /\ Again(j) \in Nat /\ Waiting(j) \in Nat
<1>1. Cardinality(Places(jobQueue, j)) \in Nat
  BY PlacesCount DEF TypeInv, TypeOK
<1>2. Cardinality(HandedTo(j)) \in Nat
  BY FS_CardinalityType DEF HandedFinite
<1>3. fetching[j] \in Nat /\ Again(j) \in Nat
  BY DEF TypeInv, TypeOK, Again
<1>4. Waiting(j) = Cardinality(Places(jobQueue, j)) + fetching[j]
                   + Cardinality(HandedTo(j)) + Again(j)
  BY DEF Waiting, Places, HandedTo, Again
<1> HIDE DEF Places, HandedTo, Again
<1> QED BY <1>1, <1>2, <1>3, <1>4

\* A step that leaves the queue, the goroutines and the retries alone.
LEMMA WaitingKept ==
    ASSUME UNCHANGED <<jobQueue, fetching, handed>>,
           \A j \in Jobs : notifier'[j] = "requeue" <=> notifier[j] = "requeue"
    PROVE  \A j \in Jobs : Waiting(j)' = Waiting(j)
BY DEF Waiting

\* A notification: an error is worth a turn.
LEMMA WaitingNotified ==
    ASSUME TypeInv, HandedFinite, UNCHANGED <<jobQueue, fetching, handed>>,
           NEW k \in Jobs, NEW type, Notifies(k, type)
    PROVE  \A j \in Jobs :
              Waiting(j)' = Waiting(j) + (IF j = k /\ type = "error" THEN 1 ELSE 0)
<1> TAKE j \in Jobs
<1>1. Again(j)' = Again(j) + (IF j = k /\ type = "error" THEN 1 ELSE 0)
  BY DEF TypeInv, TypeOK, Notifies, Again
<1>2. Waiting(j)' = Cardinality(Places(jobQueue, j)) + fetching[j]
                    + Cardinality(HandedTo(j)) + Again(j)'
  BY DEF Waiting, Places, HandedTo, Again
<1> QED BY <1>1, <1>2, WaitingIs

\* A job that is made has one turn to come.
LEMMA WaitingSubmit ==
    ASSUME TypeInv, CountInv, NEW k \in Jobs, Submit(k)
    PROVE  \A j \in Jobs : Waiting(j)' = Waiting(j) + (IF j = k THEN 1 ELSE 0)
<1> TAKE j \in Jobs
<1>1. /\ jobQueue' = Append(jobQueue, k) /\ notifier' = [notifier EXCEPT ![k] = "range"]
      /\ UNCHANGED <<fetching, handed>> /\ k \in pending
  BY DEF Submit
<1>2. Again(j)' = Again(j)
  BY <1>1 DEF CountInv, NotifierKnown, TypeInv, TypeOK, Again
<1>3. Cardinality(Places(jobQueue', j)) =
      Cardinality(Places(jobQueue, j)) + (IF k = j THEN 1 ELSE 0)
  BY <1>1, PlacesCount DEF TypeInv, TypeOK
<1>4. Waiting(j)' = Cardinality(Places(jobQueue', j)) + fetching[j]
                    + Cardinality(HandedTo(j)) + Again(j)'
  BY <1>1 DEF Waiting, Places, HandedTo, Again
<1> QED BY <1>2, <1>3, <1>4, WaitingIs DEF CountInv

\* The dispatcher, the goroutines and the notifiers pass a turn on.
LEMMA WaitingDispatch ==
    ASSUME TypeInv, CountInv, Dispatch
    PROVE  \A j \in Jobs : Waiting(j)' = Waiting(j)
<1> TAKE j \in Jobs
<1>1. /\ jobQueue # << >> /\ jobQueue' = Tail(jobQueue)
      /\ fetching' = [fetching EXCEPT ![Head(jobQueue)] = @ + 1]
      /\ UNCHANGED <<handed, notifier>>
  BY DEF Dispatch, jobVars
<1>t. jobQueue \in Seq(Jobs) /\ Head(jobQueue) \in Jobs /\ fetching \in [Jobs -> Nat]
  BY <1>1, Channel DEF TypeInv, TypeOK
<1>2. fetching'[j] = fetching[j] + (IF Head(jobQueue) = j THEN 1 ELSE 0)
  BY <1>1, <1>t
<1>3. Cardinality(Places(jobQueue, j)) =
      Cardinality(Places(jobQueue', j)) + (IF Head(jobQueue) = j THEN 1 ELSE 0)
  BY <1>1, <1>t, PlacesCount
<1>4. Cardinality(Places(jobQueue', j)) \in Nat
  BY <1>1, <1>t, PlacesCount, Channel
<1>5. Waiting(j)' = Cardinality(Places(jobQueue', j)) + fetching'[j]
                    + Cardinality(HandedTo(j)) + Again(j)
  BY <1>1 DEF Waiting, Places, HandedTo, Again
<1> QED BY <1>2, <1>3, <1>4, <1>5, WaitingIs DEF CountInv

LEMMA WaitingFetch ==
    ASSUME TypeInv, CountInv, OneToken, NEW k \in Jobs, Fetch(k)
    PROVE  /\ \A j \in Jobs : Waiting(j)' = Waiting(j)
           /\ HandedFinite'
<1> DEFINE h == Head(pool)
<1>1. /\ fetching[k] > 0 /\ fetching' = [fetching EXCEPT ![k] = @ - 1]
      /\ handed' = [handed EXCEPT ![h] = k] /\ pool # << >>
      /\ UNCHANGED <<jobQueue, notifier>>
  BY DEF Fetch, jobVars
<1>2. h \in Workers /\ handed[h] = None
  <2>1. Len(pool) \in Nat \ {0} /\ h = pool[1] /\ h \in Workers
    BY <1>1 DEF TypeInv, TypeOK
  <2>2. InPool(h)
    BY <2>1 DEF InPool
  <2> QED BY <2>1, <2>2 DEF OneToken
<1> HIDE DEF h
<1>3. ASSUME NEW j \in Jobs
      PROVE  HandedTo(j)' = (IF j = k THEN HandedTo(j) \cup {h} ELSE HandedTo(j)) /\ h \notin HandedTo(j)
  BY <1>1, <1>2 DEF TypeInv, TypeOK, HandedTo
<1>4. ASSUME NEW j \in Jobs
      PROVE  /\ IsFiniteSet(HandedTo(j)')
             /\ Cardinality(HandedTo(j)') = Cardinality(HandedTo(j)) + (IF j = k THEN 1 ELSE 0)
  <2>1. IsFiniteSet(HandedTo(j)) /\ Cardinality(HandedTo(j)) \in Nat
    BY FS_CardinalityType DEF CountInv, HandedFinite
  <2>2. /\ IsFiniteSet(HandedTo(j) \cup {h})
        /\ Cardinality(HandedTo(j) \cup {h}) = Cardinality(HandedTo(j)) + 1
    BY <1>3, <2>1, FS_AddElement
  <2> QED BY <1>3, <2>1, <2>2
<1>5. ASSUME NEW j \in Jobs PROVE Waiting(j)' = Waiting(j)
  <2>1. fetching'[j] = fetching[j] - (IF j = k THEN 1 ELSE 0)
    BY <1>1 DEF TypeInv, TypeOK
  <2>2. Waiting(j)' = Cardinality(Places(jobQueue, j)) + fetching'[j]
                      + Cardinality(HandedTo(j)') + Again(j)
    BY <1>1 DEF Waiting, Places, HandedTo, Again
  <2> QED BY <1>4, <2>1, <2>2, WaitingIs DEF CountInv
<1> QED BY <1>4, <1>5 DEF HandedFinite

LEMMA WaitingRequeue ==
    ASSUME TypeInv, CountInv, NEW k \in Jobs, Requeue(k)
    PROVE  \A j \in Jobs : Waiting(j)' = Waiting(j)
<1> TAKE j \in Jobs
<1>1. /\ jobQueue' = Append(jobQueue, k) /\ notifier[k] = "requeue"
      /\ notifier' = [notifier EXCEPT ![k] = "range"]
      /\ UNCHANGED <<fetching, handed>>
  BY DEF Requeue, NotifierMoves
<1>2. Again(j)' = Again(j) - (IF k = j THEN 1 ELSE 0)
  BY <1>1 DEF TypeInv, TypeOK, Again
<1>3. Cardinality(Places(jobQueue', j)) =
      Cardinality(Places(jobQueue, j)) + (IF k = j THEN 1 ELSE 0)
  BY <1>1, PlacesCount DEF TypeInv, TypeOK
<1>4. Waiting(j)' = Cardinality(Places(jobQueue', j)) + fetching[j]
                    + Cardinality(HandedTo(j)) + Again(j)'
  BY <1>1 DEF Waiting, Places, HandedTo, Again
<1> QED BY <1>2, <1>3, <1>4, WaitingIs DEF CountInv

\* A worker takes a job: a turn less.
LEMMA WaitingTake ==
    ASSUME TypeInv, CountInv, NEW w \in Workers, Take(w)
    PROVE  /\ \A j \in Jobs : Waiting(j)' = Waiting(j) - (IF j = handed[w] THEN 1 ELSE 0)
           /\ Waiting(handed[w]) > 0
           /\ HandedFinite'
<1>1. /\ handed' = [handed EXCEPT ![w] = None] /\ handed[w] \in Jobs
      /\ UNCHANGED <<jobQueue, fetching, notifier>>
  BY DEF Take, WorkerMoves, TypeInv, TypeOK
<1>2. ASSUME NEW j \in Jobs
      PROVE  HandedTo(j)' = HandedTo(j) \ {w} /\ (w \in HandedTo(j) <=> j = handed[w])
  BY <1>1 DEF TypeInv, TypeOK, HandedTo
<1>3. ASSUME NEW j \in Jobs
      PROVE  /\ IsFiniteSet(HandedTo(j)')
             /\ Cardinality(HandedTo(j)') = Cardinality(HandedTo(j)) - (IF j = handed[w] THEN 1 ELSE 0)
             /\ Cardinality(HandedTo(j)') \in Nat
  <2>1. IsFiniteSet(HandedTo(j)) /\ Cardinality(HandedTo(j)) \in Nat
    BY FS_CardinalityType DEF CountInv, HandedFinite
  <2>2. /\ IsFiniteSet(HandedTo(j) \ {w})
        /\ Cardinality(HandedTo(j) \ {w}) =
              IF w \in HandedTo(j) THEN Cardinality(HandedTo(j)) - 1 ELSE Cardinality(HandedTo(j))
    BY <2>1, FS_RemoveElement
  <2>3. HandedTo(j)' = HandedTo(j) \ {w} /\ (w \in HandedTo(j) <=> j = handed[w])
    BY <1>2
  <2>4. Cardinality(HandedTo(j) \ {w}) \in Nat
    BY <2>2, FS_CardinalityType
  <2> HIDE DEF HandedTo
  <2> QED BY ONLY <2>1, <2>2, <2>3, <2>4
<1>4. ASSUME NEW j \in Jobs
      PROVE  /\ Waiting(j)' = Waiting(j) - (IF j = handed[w] THEN 1 ELSE 0)
             /\ Waiting(j)' >= 0
  <2>1. Waiting(j)' = Cardinality(Places(jobQueue, j)) + fetching[j]
                      + Cardinality(HandedTo(j)') + Again(j)
    BY <1>1 DEF Waiting, Places, HandedTo, Again
  <2> QED BY <1>3, <2>1, WaitingIs DEF CountInv
<1>5. Waiting(handed[w]) > 0
  BY <1>1, <1>4, WaitingIs DEF CountInv
<1> QED BY <1>3, <1>4, <1>5 DEF HandedFinite

-----------------------------------------------------------------------------
(* The steps of JobQueue.                                                   *)

CompletedJobs == {j \in Jobs : \E r \in Runs : jobOf[r] = j /\ "completed" \in outcome[r]}

\* A counter of the jobs in which only that of k changes.
LEMMA Counters ==
    ASSUME NEW f \in [Jobs -> Nat], NEW g \in [Jobs -> Nat], NEW k \in Jobs,
           NEW n \in {-1, 0, 1},
           \A j \in Jobs : g[j] = f[j] + (IF j = k THEN n ELSE 0)
    PROVE  /\ n = 1 => g = [f EXCEPT ![k] = @ + 1]
           /\ n = -1 => g = [f EXCEPT ![k] = @ - 1] /\ f[k] > 0
           /\ n = 0 => g = f
OBVIOUS

\* The jobs' counters, as JobQueue sees them.
WaitingOf == [j \in Jobs |-> Waiting(j)]
DecidingOf == [j \in Jobs |-> Deciding(j)]
WorkingOf == [j \in Jobs |-> Working(j)]

LEMMA CounterTypes ==
    TypeInv /\ HandedFinite =>
        /\ WaitingOf \in [Jobs -> Nat] /\ DecidingOf \in [Jobs -> Nat]
        /\ WorkingOf \in [Jobs -> Nat]
BY WaitingIs, Counted DEF WaitingOf, DecidingOf, WorkingOf

LEMMA CounterTypesNext ==
    (TypeInv /\ HandedFinite)' =>
        (/\ WaitingOf \in [Jobs -> Nat] /\ DecidingOf \in [Jobs -> Nat]
         /\ WorkingOf \in [Jobs -> Nat])'
BY CounterTypes, PTL

\* The runs that are to be decided: as before, or one less.
LEMMA DecidingMoves ==
    ASSUME TypeInv, jobOf' = jobOf, NEW j \in Jobs
    PROVE  /\ OpenRuns' = OpenRuns => Deciding(j)' = Deciding(j)
           /\ \A r \in OpenRuns : OpenRuns' = OpenRuns \ {r} =>
                 Deciding(j)' = Deciding(j) + (IF j = jobOf[r] THEN -1 ELSE 0)
<1>1. OpenRuns \in SUBSET Runs
  BY DEF OpenRuns
<1>2. Deciding(j)' = Cardinality(RunsOf(jobOf, OpenRuns', j))
  <2>1. {q \in Runs : jobOf'[q] = j /\ Undecided(q)'} = RunsOf(jobOf, OpenRuns', j)
    BY DEF RunsOf, OpenRuns
  <2> QED BY <2>1 DEF Deciding
<1> QED BY <1>1, <1>2, RunsCount, Counted

LEMMA WorkingMoves ==
    ASSUME TypeInv, jobOf' = jobOf, NEW j \in Jobs
    PROVE  /\ AttendedRuns' = AttendedRuns => Working(j)' = Working(j)
           /\ \A r \in AttendedRuns : AttendedRuns' = AttendedRuns \ {r} =>
                 Working(j)' = Working(j) + (IF j = jobOf[r] THEN -1 ELSE 0)
<1>1. AttendedRuns \in SUBSET Runs
  BY DEF AttendedRuns
<1>2. Working(j)' = Cardinality(RunsOf(jobOf, AttendedRuns', j))
  <2>1. {q \in Runs : jobOf'[q] = j /\ Attended(q)'} = RunsOf(jobOf, AttendedRuns', j)
    BY DEF RunsOf, AttendedRuns
  <2> QED BY <2>1 DEF Working
<1> QED BY <1>1, <1>2, RunsCount, Counted

\* What a run's notification completes.
LEMMA CompletedIs ==
    ASSUME TypeInv, jobOf' = jobOf, NEW r \in Runs, jobOf[r] \in Jobs, NEW type,
           outcome' = [outcome EXCEPT ![r] = @ \cup ({type} \cap {"error", "completed"})]
    PROVE  CompletedJobs' = IF type = "completed" THEN CompletedJobs \cup {jobOf[r]}
                            ELSE CompletedJobs
<1>1. \A q \in Runs : "completed" \in outcome'[q] <=>
                        "completed" \in outcome[q] \/ (q = r /\ type = "completed")
  BY DEF TypeInv, TypeOK
<1> QED BY <1>1 DEF CompletedJobs

LEMMA QueueIs ==
    /\ Queue!vars = <<Jobs \ pending, WaitingOf, DecidingOf, WorkingOf, CompletedJobs, removed>>
    /\ Queue!vars' = <<Jobs \ pending', WaitingOf', DecidingOf', WorkingOf', CompletedJobs', removed'>>
BY DEF Queue!vars, WaitingOf, DecidingOf, WorkingOf, CompletedJobs

\* A step that changes no counter.
LEMMA Stutters ==
    ASSUME UNCHANGED <<pending, removed, CompletedJobs>>,
           \A j \in Jobs : /\ Waiting(j)' = Waiting(j)
                           /\ Deciding(j)' = Deciding(j)
                           /\ Working(j)' = Working(j)
    PROVE  UNCHANGED Queue!vars
BY QueueIs DEF WaitingOf, DecidingOf, WorkingOf

\* A step that changes those of job k.
Changes(k, w, d, a) ==
    \A j \in Jobs : /\ Waiting(j)' = Waiting(j) + (IF j = k THEN w ELSE 0)
                    /\ Deciding(j)' = Deciding(j) + (IF j = k THEN d ELSE 0)
                    /\ Working(j)' = Working(j) + (IF j = k THEN a ELSE 0)

LEMMA Changed ==
    ASSUME TypeInv, TypeInv', HandedFinite, HandedFinite', NEW k \in Jobs,
           NEW w \in {-1, 0, 1}, NEW d \in {-1, 0, 1}, NEW a \in {-1, 0, 1},
           Changes(k, w, d, a)
    PROVE  /\ w = 1 => WaitingOf' = [WaitingOf EXCEPT ![k] = @ + 1]
           /\ w = -1 => WaitingOf' = [WaitingOf EXCEPT ![k] = @ - 1] /\ WaitingOf[k] > 0
           /\ w = 0 => WaitingOf' = WaitingOf
           /\ d = 1 => DecidingOf' = [DecidingOf EXCEPT ![k] = @ + 1]
           /\ d = -1 => DecidingOf' = [DecidingOf EXCEPT ![k] = @ - 1] /\ DecidingOf[k] > 0
           /\ d = 0 => DecidingOf' = DecidingOf
           /\ a = 1 => WorkingOf' = [WorkingOf EXCEPT ![k] = @ + 1]
           /\ a = -1 => WorkingOf' = [WorkingOf EXCEPT ![k] = @ - 1] /\ WorkingOf[k] > 0
           /\ a = 0 => WorkingOf' = WorkingOf
<1>1. /\ WaitingOf \in [Jobs -> Nat] /\ DecidingOf \in [Jobs -> Nat] /\ WorkingOf \in [Jobs -> Nat]
  BY CounterTypes
<1>3. \A j \in Jobs : /\ WaitingOf'[j] = WaitingOf[j] + (IF j = k THEN w ELSE 0)
                      /\ DecidingOf'[j] = DecidingOf[j] + (IF j = k THEN d ELSE 0)
                      /\ WorkingOf'[j] = WorkingOf[j] + (IF j = k THEN a ELSE 0)
  BY DEF Changes, WaitingOf, DecidingOf, WorkingOf
<1>4. /\ WaitingOf' \in [Jobs -> Nat] /\ DecidingOf' \in [Jobs -> Nat]
      /\ WorkingOf' \in [Jobs -> Nat]
  BY CounterTypesNext
<1>5. /\ w = 1 => WaitingOf' = [WaitingOf EXCEPT ![k] = @ + 1]
      /\ w = -1 => WaitingOf' = [WaitingOf EXCEPT ![k] = @ - 1] /\ WaitingOf[k] > 0
      /\ w = 0 => WaitingOf' = WaitingOf
  BY ONLY <1>1, <1>3, <1>4, k \in Jobs, w \in {-1, 0, 1}, Counters
<1>6. /\ d = 1 => DecidingOf' = [DecidingOf EXCEPT ![k] = @ + 1]
      /\ d = -1 => DecidingOf' = [DecidingOf EXCEPT ![k] = @ - 1] /\ DecidingOf[k] > 0
      /\ d = 0 => DecidingOf' = DecidingOf
  BY ONLY <1>1, <1>3, <1>4, k \in Jobs, d \in {-1, 0, 1}, Counters
<1>7. /\ a = 1 => WorkingOf' = [WorkingOf EXCEPT ![k] = @ + 1]
      /\ a = -1 => WorkingOf' = [WorkingOf EXCEPT ![k] = @ - 1] /\ WorkingOf[k] > 0
      /\ a = 0 => WorkingOf' = WorkingOf
  BY ONLY <1>1, <1>3, <1>4, k \in Jobs, a \in {-1, 0, 1}, Counters
<1> QED BY <1>5, <1>6, <1>7

-----------------------------------------------------------------------------
\* Sends, errors of streams and removals are where CountInv says, after every step.
LEMMA CountStep ==
    ASSUME TypeInv, RunInv, OneToken, CountInv, [Next]_vars
    PROVE  CountInv'
<1> USE DEF queueVars, workerVars, runVars, jobVars, inboxVars
<1>t. /\ started \in 0..MaxRuns /\ MaxRuns \in Nat
      /\ DOMAIN sender = Runs /\ DOMAIN summary = Runs /\ DOMAIN jobOf = Runs
      /\ DOMAIN notifier = Jobs
      /\ outcome \in [Runs -> SUBSET {"error", "completed"}]
  BY DEF TypeInv, TypeOK
<1>b. \A w \in Workers : worker[w] \in Busy => run[w] \in Runs /\ Job(w) \in Jobs
  BY BusyType
<1>c. \A r \in 1..started : r \in Runs /\ jobOf[r] \in Jobs
  BY <1>t DEF TypeInv, RunKnown, Runs
<1>d. CountInv' <=> HandedFinite' /\ AtErrors' /\ NotifierKnown'
  BY DEF CountInv
\* What leaves the notifiers and outcomes alone, and has no error in its hands.
<1>e. ASSUME handed' = handed PROVE HandedFinite'
  BY <1>e DEF CountInv, HandedFinite, HandedTo
<1>f. ASSUME UNCHANGED <<sender, summary>> PROVE AtErrors'
  BY <1>f DEF CountInv, AtErrors
<1>n. ASSUME UNCHANGED <<pending, notifier>>,
             \A r \in Runs : "completed" \in outcome[r] =>
                 "completed" \in outcome'[r] /\ jobOf'[r] = jobOf[r]
      PROVE  NotifierKnown'
  BY <1>n DEF CountInv, NotifierKnown
\* A notification of run r.
<1>m. ASSUME NEW r \in Runs, NEW type, jobOf[r] \in Jobs, Notifies(jobOf[r], type),
             outcome' = [outcome EXCEPT ![r] = @ \cup ({type} \cap {"error", "completed"})],
             UNCHANGED <<pending, jobOf>>
      PROVE  NotifierKnown'
  <2>1. /\ \A q \in Runs : "completed" \in outcome[q] => "completed" \in outcome'[q]
        /\ type = "completed" => "completed" \in outcome'[r]
    BY <1>m, <1>t
  <2>2. /\ notifier[jobOf[r]] = "range"
        /\ notifier'[jobOf[r]] = "remove" => type = "completed" /\ DeleteOnComplete
        /\ \A j \in Jobs \ {jobOf[r]} : notifier'[j] = notifier[j]
    BY <1>m, <1>t DEF Notifies
  <2> SUFFICES ASSUME NEW j \in Jobs
               PROVE  /\ j \in pending => notifier'[j] = "none"
                      /\ notifier'[j] = "remove" =>
                            DeleteOnComplete /\ \E q \in Runs : jobOf[q] = j /\ "completed" \in outcome'[q]
    BY <1>m DEF NotifierKnown
  <2>3. CASE j = jobOf[r]
    BY <2>1, <2>2, <2>3 DEF CountInv, NotifierKnown
  <2>4. CASE j # jobOf[r]
    BY <2>1, <2>2, <2>4 DEF CountInv, NotifierKnown
  <2> QED BY <2>3, <2>4
<1>1. ASSUME NEW k \in Jobs, Submit(k) PROVE CountInv'
  <2>1. /\ pending' = pending \ {k} /\ notifier' = [notifier EXCEPT ![k] = "range"]
        /\ UNCHANGED <<handed, sender, summary, jobOf, outcome>>
    BY <1>1 DEF Submit
  <2>2. NotifierKnown'
    BY <1>t, <2>1 DEF CountInv, NotifierKnown
  <2> QED BY <1>d, <1>e, <1>f, <2>1, <2>2
<1>2. ASSUME NEW k \in Jobs, Fetch(k) PROVE CountInv'
  <2>1. UNCHANGED <<sender, summary, jobOf, outcome, pending, notifier>>
    BY <1>2 DEF Fetch
  <2> QED BY <1>2, <1>d, <1>f, <1>n, <2>1, WaitingFetch
<1>3. ASSUME NEW w \in Workers, Take(w) PROVE CountInv'
  <2>1. /\ started + 1 \in Runs /\ jobOf' = [jobOf EXCEPT ![started + 1] = handed[w]]
        /\ UNCHANGED <<sender, summary, outcome, pending, notifier>>
    BY <1>3, <1>t DEF Take, WorkerMoves, Runs
  <2>2. outcome[started + 1] = {}
    BY <1>t, <2>1 DEF RunInv, Fresh
  <2>3. \A r \in Runs : "completed" \in outcome[r] => jobOf'[r] = jobOf[r]
    BY <1>t, <2>1, <2>2
  <2> QED BY <1>3, <1>d, <1>f, <1>n, <2>1, <2>3, WaitingTake
<1>4. ASSUME NEW k \in Jobs, NotifierStep(k) PROVE CountInv'
  <2>1. UNCHANGED <<handed, sender, summary, jobOf, outcome, pending>>
    BY <1>4 DEF NotifierStep, Requeue, Remove, Push, Pushed, SendPanics, NotifierMoves
  <2>2. PICK to \in {"range", "push", "requeue"} :
           notifier[k] # "none" /\ notifier' = [notifier EXCEPT ![k] = to]
    BY <1>4 DEF NotifierStep, Requeue, Remove, Push, Pushed, SendPanics, NotifierMoves
  <2>3. NotifierKnown'
    BY <1>t, <2>1, <2>2 DEF CountInv, NotifierKnown
  <2> QED BY <1>d, <1>e, <1>f, <2>1, <2>3
<1>5. ASSUME NEW w \in Workers,
             \/ Ready(w) \/ QueryFails(w) \/ QuerySame(w) \/ QueryDiffers(w) \/ LockSame(w)
             \/ OpenFails(w) \/ Open(w) \/ SeekFails(w) \/ CopyFails(w) \/ CopyEnds(w)
             \/ HashFatal(w)
      PROVE  CountInv'
  <2>1. UNCHANGED <<handed, sender, summary, jobOf, outcome, pending, notifier>>
    BY <1>5 DEF Ready, QueryFails, QuerySame, QueryDiffers, LockSame, OpenFails, Open,
        SeekFails, CopyFails, CopyEnds, Goes, WorkerMoves, HashFatal
  <2> QED BY <1>d, <1>e, <1>f, <1>n, <2>1
<1>6. ASSUME NEW w \in Workers, Stream(w) \/ Copy(w) \/ SetStatus(w) PROVE CountInv'
  <2>1. /\ UNCHANGED <<handed, jobOf, outcome, pending, notifier>>
        /\ run[w] \in Runs
    BY <1>6, <1>b DEF Stream, Copy, SetStatus, WorkerMoves, Busy
  <2>2. CASE Stream(w)
    <3>1. /\ worker[w] = "stream" /\ sender' = [sender EXCEPT ![run[w]] = "open"]
          /\ summary' = summary
      BY <2>2 DEF Stream, WorkerMoves
    <3>2. summary[run[w]] = "none"
      BY <2>1, <3>1 DEF RunInv, RunBegins, RunState, Early
    <3>3. AtErrors'
      BY <1>t, <2>1, <3>1, <3>2 DEF CountInv, AtErrors
    <3> QED BY <1>d, <1>e, <1>n, <2>1, <3>3
  <2>3. CASE Copy(w)
    <3>1. /\ sender[run[w]] = "read" /\ sender' = [sender EXCEPT ![run[w]] = "send"]
          /\ summary' = summary
      BY <2>3 DEF Copy
    <3>2. AtErrors'
      BY <1>t, <2>1, <3>1 DEF CountInv, AtErrors
    <3> QED BY <1>d, <1>e, <1>n, <2>1, <3>2
  <2>4. CASE SetStatus(w)
    <3>1. /\ summary' = [summary EXCEPT ![run[w]] = "range"] /\ sender' = sender
      BY <2>4 DEF SetStatus
    <3>2. AtErrors'
      BY <1>t, <2>1, <3>1 DEF CountInv, AtErrors
    <3> QED BY <1>d, <1>e, <1>n, <2>1, <3>2
  <2> QED BY <1>6, <2>2, <2>3, <2>4
<1>7. ASSUME NEW w \in Workers, QueryError(w) \/ Same(w) \/ SeekFatal(w) \/ CopyError(w)
      PROVE  CountInv'
  <2>1. PICK type :
           /\ Notifies(Job(w), type) /\ worker[w] \in Busy
           /\ outcome' = [outcome EXCEPT ![run[w]] = @ \cup ({type} \cap {"error", "completed"})]
           /\ UNCHANGED <<handed, jobOf, sender, summary, pending>>
    BY <1>7 DEF QueryError, Same, SeekFatal, CopyError, WorkerNotifies, WorkerMoves, Busy
  <2>2. NotifierKnown'
    BY <1>b, <1>m, <2>1 DEF Job
  <2> QED BY <1>d, <1>e, <1>f, <2>1, <2>2
<1>8. ASSUME NEW r \in 1..started, SenderStep(r) PROVE CountInv'
  <2>1. PICK to :
           /\ sender' = [sender EXCEPT ![r] = to]
           /\ sender[r] \in {"left", "recv", "done"} => to \in {"left", "recv", "done"}
           /\ UNCHANGED <<handed, jobOf, outcome, pending, notifier, summary>>
    BY <1>8 DEF SenderStep, OpenStream, OpenStreamFails, Send, SendFails, ReadEnds,
        Received, SenderMoves
  <2>2. AtErrors'
    BY <1>c, <1>t, <2>1 DEF CountInv, AtErrors
  <2> QED BY <1>d, <1>e, <1>n, <2>1, <2>2
<1>9. ASSUME NEW r \in 1..started, SummaryStep(r) PROVE CountInv'
  <2>1. UNCHANGED <<handed, jobOf, pending>>
    BY <1>9 DEF SummaryStep, SummaryMoves, TakesFrom, TakeOpenError, TakeSendError,
        TakeBytes, TakeClosed, CountBlock, SummaryNotifies, Updated, TransferError,
        Completed, SummaryEnds
  <2>2. CASE \/ TakeOpenError(r) \/ TakeSendError(r) \/ TakeBytes(r) \/ TakeClosed(r)
             \/ CountBlock(r) \/ SummaryEnds(r)
    <3>1. PICK to, taken :
             /\ sender' = [sender EXCEPT ![r] = to]
             /\ summary' = [summary EXCEPT ![r] = taken]
             /\ taken = "error" => to \in {"left", "recv", "done"}
             /\ UNCHANGED <<outcome, notifier>>
      <4>1. CASE TakeOpenError(r) \/ TakeSendError(r) \/ TakeBytes(r) \/ TakeClosed(r)
        BY <4>1 DEF TakeOpenError, TakeSendError, TakeBytes, TakeClosed, TakesFrom, SummaryMoves
      <4>2. CASE CountBlock(r) \/ SummaryEnds(r)
        <5>1. sender = [sender EXCEPT ![r] = sender[r]]
          BY <1>c DEF TypeInv, TypeOK
        <5> QED BY <4>2, <5>1 DEF CountBlock, SummaryEnds, SummaryMoves
      <4> QED BY <2>2, <4>1, <4>2
    <3>2. AtErrors'
      BY <1>c, <1>t, <3>1 DEF CountInv, AtErrors
    <3> QED BY <1>d, <1>e, <1>n, <2>1, <3>1, <3>2
  <2>3. CASE Updated(r) \/ TransferError(r) \/ Completed(r)
    <3>1. PICK type \in {"updated", "error", "completed"} :
             /\ summary' = [summary EXCEPT ![r] = "range"]
             /\ outcome' = [outcome EXCEPT ![r] = @ \cup ({type} \cap {"error", "completed"})]
             /\ Notifies(jobOf[r], type) /\ sender' = sender
      BY <2>3 DEF Updated, TransferError, Completed, SummaryNotifies, SummaryMoves
    <3>2. AtErrors'
      BY <1>c, <1>t, <3>1 DEF CountInv, AtErrors
    <3>3. NotifierKnown'
      BY <1>c, <1>m, <2>1, <3>1
    <3> QED BY <1>d, <1>e, <2>1, <3>2, <3>3
  <2> QED BY <1>9, <2>2, <2>3 DEF SummaryStep
<1>10. ASSUME \/ Dispatch \/ CloseWorker \/ \E k \in Jobs : SubmitPanics(k)
              \/ CloseSubscribers \/ CloseQueue \/ UNCHANGED vars
              \/ \E i \in 1..Subscribers : SubscriberStep(i) \/ Exit(i)
       PROVE  CountInv'
  <2>1. UNCHANGED <<handed, sender, summary, jobOf, outcome, pending, notifier>>
    BY <1>10 DEF Dispatch, CloseWorker, SubmitPanics, CloseSubscribers, CloseQueue, vars,
        SubscriberStep, Receive, ReadStatus, Exit
  <2> QED BY <1>d, <1>e, <1>f, <1>n, <2>1
<1> QED BY <1>1, <1>2, <1>3, <1>4, <1>5, <1>6, <1>7, <1>8, <1>9, <1>10 DEF Next, WorkerStep

-----------------------------------------------------------------------------
(* The actions of JobQueue, from the changes of the counters.               *)

LEMMA IsMake ==
    ASSUME TypeInv, TypeInv', HandedFinite, HandedFinite', NEW k \in pending,
           Changes(k, 1, 0, 0), pending' = pending \ {k}, UNCHANGED <<CompletedJobs, removed>>
    PROVE  Queue!Make(k)
<1>1. k \in Jobs /\ Jobs \ pending' = (Jobs \ pending) \cup {k}
  BY DEF TypeInv, TypeOK
<1>2. WaitingOf' = [WaitingOf EXCEPT ![k] = @ + 1] /\ DecidingOf' = DecidingOf /\ WorkingOf' = WorkingOf
  BY <1>1, Changed
<1> QED BY <1>1, <1>2 DEF Queue!Make, WaitingOf, DecidingOf, WorkingOf, CompletedJobs

LEMMA IsBegin ==
    ASSUME TypeInv, TypeInv', HandedFinite, HandedFinite', NEW k \in Jobs,
           Changes(k, -1, 1, 1), UNCHANGED <<pending, CompletedJobs, removed>>
    PROVE  Queue!Begin(k)
<1>1. /\ WaitingOf' = [WaitingOf EXCEPT ![k] = @ - 1] /\ WaitingOf[k] > 0
      /\ DecidingOf' = [DecidingOf EXCEPT ![k] = @ + 1]
      /\ WorkingOf' = [WorkingOf EXCEPT ![k] = @ + 1]
  BY Changed
<1> QED BY <1>1 DEF Queue!Begin, WaitingOf, DecidingOf, WorkingOf, CompletedJobs

\* The worker leaves with the decision, or has left or goes on.
LEMMA IsDecided ==
    ASSUME TypeInv, TypeInv', HandedFinite, HandedFinite', NEW k \in Jobs,
           NEW w \in {0, 1}, NEW a \in {-1, 0}, Changes(k, w, -1, a),
           UNCHANGED <<pending, removed>>
    PROVE  \/ w = 1 /\ CompletedJobs' = CompletedJobs
           \/ w = 0 /\ CompletedJobs' = CompletedJobs \cup {k}
           \/ w = 0 /\ a = -1 /\ CompletedJobs' = CompletedJobs
           => Queue!Decide(k)
<1>1. /\ DecidingOf' = [DecidingOf EXCEPT ![k] = @ - 1] /\ DecidingOf[k] > 0
      /\ a = -1 => WorkingOf' = [WorkingOf EXCEPT ![k] = @ - 1] /\ WorkingOf[k] > 0
      /\ a = 0 => WorkingOf' = WorkingOf
      /\ w = 1 => WaitingOf' = [WaitingOf EXCEPT ![k] = @ + 1]
      /\ w = 0 => WaitingOf' = WaitingOf
  BY Changed
<1>2. (a = -1 => Queue!Leaves(k)) /\ (a = 0 => WorkingOf' = WorkingOf)
  BY <1>1 DEF Queue!Leaves, WorkingOf
<1> QED BY <1>1, <1>2 DEF Queue!Decide, Queue!Failed, Queue!Completed, Queue!Dropped,
    WaitingOf, DecidingOf, WorkingOf, CompletedJobs

LEMMA IsLeave ==
    ASSUME TypeInv, TypeInv', HandedFinite, HandedFinite', NEW k \in Jobs,
           NEW w \in {0, 1}, Changes(k, w, 0, -1),
           UNCHANGED <<pending, CompletedJobs, removed>>
    PROVE  Queue!Leave(k)
<1>1. /\ WorkingOf' = [WorkingOf EXCEPT ![k] = @ - 1] /\ WorkingOf[k] > 0
      /\ DecidingOf' = DecidingOf
      /\ w = 1 => WaitingOf' = [WaitingOf EXCEPT ![k] = @ + 1]
      /\ w = 0 => WaitingOf' = WaitingOf
  BY Changed
<1>2. Queue!Leaves(k)
  BY <1>1 DEF Queue!Leaves, WorkingOf
<1> QED BY <1>1, <1>2 DEF Queue!Leave, WaitingOf, DecidingOf, CompletedJobs

-----------------------------------------------------------------------------
\* The runs of job j so far.
RunCount(j) == Cardinality({r \in Runs : jobOf[r] = j})

\* A worker takes a job: the run is new, to be decided, and has a worker.
LEMMA TakeBegins ==
    ASSUME TypeInv, RunInv, CountInv, NEW w \in Workers, Take(w)
    PROVE  /\ handed[w] \in Jobs
           /\ Changes(handed[w], -1, 1, 1)
           /\ \A j \in Jobs : RunCount(j)' = RunCount(j) + (IF j = handed[w] THEN 1 ELSE 0)
           /\ UNCHANGED <<pending, CompletedJobs, removed>>
<1> DEFINE k == handed[w]
<1>0. /\ started + 1 \in Runs /\ started + 1 \notin 1..started /\ k \in Jobs
      /\ worker[w] = "waiting" /\ worker' = [worker EXCEPT ![w] = "query"]
      /\ run' = [run EXCEPT ![w] = started + 1]
      /\ jobOf' = [jobOf EXCEPT ![started + 1] = k]
      /\ UNCHANGED <<pending, removed, sender, summary, outcome>>
  BY DEF Take, WorkerMoves, TypeInv, TypeOK, Runs
<1>1. PICK n \in Runs :
      /\ n = started + 1 /\ n \notin 1..started /\ k \in Jobs
      /\ worker[w] = "waiting" /\ worker' = [worker EXCEPT ![w] = "query"]
      /\ run' = [run EXCEPT ![w] = n]
      /\ jobOf' = [jobOf EXCEPT ![n] = k]
      /\ UNCHANGED <<pending, removed, sender, summary, outcome>>
  BY <1>0
<1>2. jobOf[n] = None /\ sender[n] = "none" /\ summary[n] = "none" /\ outcome[n] = {}
  BY <1>1 DEF RunInv, Fresh, RunState, TypeInv, TypeOK, Runs
<1>3. /\ jobOf'[n] = k /\ k # None
      /\ \A q \in Runs \ {n} : jobOf'[q] = jobOf[q]
  BY <1>1 DEF TypeInv, TypeOK
<1>4. \A v \in Workers : worker[v] \in Busy => run[v] \in Runs /\ run[v] \in 1..started
  BY BusyType
<1>5. /\ worker'[w] = "query" /\ run'[w] = n
      /\ \A v \in Workers \ {w} : worker'[v] = worker[v] /\ run'[v] = run[v]
      /\ \A v \in Workers : worker[v] \in Busy \cup {"ready", "waiting", "exited"}
  BY <1>1 DEF TypeInv, TypeOK, Busy
<1> HIDE DEF k
<1>6. /\ Unsettled \subseteq Busy /\ "query" \in Unsettled
      /\ \A s \in Busy : s \notin {"ready", "waiting", "exited"}
  BY DEF Busy, Unsettled
<1>7. /\ DoingRuns' = DoingRuns \cup {n} /\ DoingRuns \in SUBSET Runs
      /\ n \in Runs \ DoingRuns
  BY <1>1, <1>4, <1>5, <1>6 DEF DoingRuns
<1>8. StreamingRuns' = StreamingRuns /\ StreamingRuns \in SUBSET Runs /\ n \notin StreamingRuns
  BY <1>1, <1>2 DEF StreamingRuns, Sending
<1>9. OpenRuns' = OpenRuns \cup {n} /\ OpenRuns \in SUBSET Runs /\ n \in Runs \ OpenRuns
  BY <1>7, <1>8, OpenIs
<1>10. AttendedRuns' = AttendedRuns \cup {n} /\ AttendedRuns \in SUBSET Runs
       /\ n \in Runs \ AttendedRuns
  BY <1>1, <1>4, <1>5, <1>6 DEF AttendedRuns, Attended
<1>11. ASSUME NEW j \in Jobs, NEW S \in SUBSET Runs, n \notin S
       PROVE  Cardinality(RunsOf(jobOf', S \cup {n}, j)) =
              Cardinality(RunsOf(jobOf, S, j)) + (IF j = k THEN 1 ELSE 0)
  <2>1. RunsOf(jobOf', S, j) = RunsOf(jobOf, S, j)
    BY <1>3, <1>11 DEF RunsOf
  <2>2. Cardinality(RunsOf(jobOf', S \cup {n}, j)) =
        Cardinality(RunsOf(jobOf', S, j)) + (IF jobOf'[n] = j THEN 1 ELSE 0)
    <3>1. n \in Runs \ S
      BY <1>1, <1>11
    <3> QED BY ONLY S \in SUBSET Runs, <3>1, RunsCount
  <2> QED BY <1>3, <2>1, <2>2
<1>12. ASSUME NEW j \in Jobs
       PROVE  /\ Deciding(j)' = Deciding(j) + (IF j = k THEN 1 ELSE 0)
              /\ Working(j)' = Working(j) + (IF j = k THEN 1 ELSE 0)
  <2>1. Deciding(j)' = Cardinality(RunsOf(jobOf', OpenRuns', j))
    <3>1. {r \in Runs : jobOf'[r] = j /\ Undecided(r)'} = RunsOf(jobOf', OpenRuns', j)
      BY DEF RunsOf, OpenRuns
    <3> QED BY <3>1 DEF Deciding
  <2>2. Working(j)' = Cardinality(RunsOf(jobOf', AttendedRuns', j))
    <3>1. {r \in Runs : jobOf'[r] = j /\ Attended(r)'} = RunsOf(jobOf', AttendedRuns', j)
      BY DEF RunsOf, AttendedRuns
    <3> QED BY <3>1 DEF Working
  <2>3. /\ Deciding(j) = Cardinality(RunsOf(jobOf, OpenRuns, j))
        /\ Working(j) = Cardinality(RunsOf(jobOf, AttendedRuns, j))
    BY Counted
  <2> QED BY <1>9, <1>10, <1>11, <2>1, <2>2, <2>3
<1>13. ASSUME NEW j \in Jobs PROVE RunCount(j)' = RunCount(j) + (IF j = k THEN 1 ELSE 0)
  <2> DEFINE S == Runs \ {n}
  <2>1. S \in SUBSET Runs /\ n \notin S /\ S \cup {n} = Runs
    BY <1>1
  <2>2. {r \in Runs : jobOf[r] = j} = RunsOf(jobOf, S, j)
    BY <1>2, <1>3 DEF RunsOf, JobConstants
  <2>3. {r \in Runs : jobOf'[r] = j} = RunsOf(jobOf', S \cup {n}, j)
    BY <2>1 DEF RunsOf
  <2> HIDE DEF S
  <2> QED BY <1>11, <2>1, <2>2, <2>3 DEF RunCount
<1>14. CompletedJobs' = CompletedJobs
  BY <1>1, <1>2, <1>3 DEF CompletedJobs
<1>15. \A j \in Jobs : Waiting(j)' = Waiting(j) + (IF j = k THEN -1 ELSE 0)
  BY WaitingTake, WaitingIs DEF CountInv, k
<1> QED BY <1>1, <1>12, <1>13, <1>14, <1>15 DEF Changes, k

-----------------------------------------------------------------------------
(* Every step of the client is one of JobQueue.                             *)

\* A step of worker w, and a step that leaves the other runs' senders and summaries alone.
Moved(w, to) == worker' = [worker EXCEPT ![w] = to] /\ run' = run
OthersFlow(r) == \A q \in Runs \ {r} : sender'[q] = sender[q] /\ summary'[q] = summary[q]

\* The worker of run r makes a step; only that run's sender and summary may too.
\* Is run r to be decided by its stream, before and after a step?
Streams(r) == sender[r] \in Sending \/ summary[r] \in {"error", "completed"}
StreamsOn(r) == sender'[r] \in Sending \/ summary'[r] \in {"error", "completed"}

\* The worker of run r makes a step; only that run's sender and summary may too.
LEMMA RunActs ==
    ASSUME TypeInv, RunInv, NEW w \in Workers, NEW to \in Busy \cup {"ready"},
           worker[w] \in Busy, Moved(w, to), NEW r \in Runs, r = run[w], OthersFlow(r)
    PROVE  /\ OpenRuns' = IF to \in Unsettled \/ StreamsOn(r) THEN OpenRuns \cup {r}
                          ELSE OpenRuns \ {r}
           /\ r \in OpenRuns <=> worker[w] \in Unsettled \/ Streams(r)
           /\ r \in AttendedRuns
           /\ AttendedRuns' = IF to = "ready" THEN AttendedRuns \ {r} ELSE AttendedRuns
<1>1. /\ worker'[w] = to /\ \A v \in Workers \ {w} : worker'[v] = worker[v]
      /\ \A v \in Workers \ {w} : run[v] = r => worker[v] \notin Busy
      /\ \A v \in Workers : worker[v] \in Busy \cup {"ready", "waiting", "exited"}
      /\ run' = run
  BY DEF TypeInv, TypeOK, RunInv, OwnRun, Busy, Moved
<1>2. /\ Unsettled \subseteq Busy
      /\ \A s \in Busy : s \notin {"ready", "waiting", "exited"}
  BY DEF Busy, Unsettled
<1>3. /\ r \in DoingRuns <=> worker[w] \in Unsettled
      /\ DoingRuns' = IF to \in Unsettled THEN DoingRuns \cup {r} ELSE DoingRuns \ {r}
  BY <1>1, <1>2 DEF DoingRuns
<1>4. /\ r \in AttendedRuns
      /\ AttendedRuns' = IF to = "ready" THEN AttendedRuns \ {r} ELSE AttendedRuns
  BY <1>1, <1>2 DEF AttendedRuns, Attended
<1>5. /\ r \in StreamingRuns <=> Streams(r)
      /\ StreamingRuns' = IF StreamsOn(r) THEN StreamingRuns \cup {r} ELSE StreamingRuns \ {r}
  BY DEF StreamingRuns, Streams, StreamsOn, OthersFlow
<1> QED BY <1>3, <1>4, <1>5, OpenIs

\* Only the sender and the summary of run r make a step.
LEMMA RunStreams ==
    ASSUME UNCHANGED <<worker, run>>, NEW r \in Runs, OthersFlow(r)
    PROVE  /\ AttendedRuns' = AttendedRuns
           /\ OpenRuns' = IF r \in DoingRuns \/ StreamsOn(r) THEN OpenRuns \cup {r}
                          ELSE OpenRuns \ {r}
           /\ r \in OpenRuns <=> r \in DoingRuns \/ Streams(r)
<1>1. AttendedRuns' = AttendedRuns /\ DoingRuns' = DoingRuns
  BY DEF AttendedRuns, Attended, DoingRuns
<1>2. /\ r \in StreamingRuns <=> Streams(r)
      /\ StreamingRuns' = IF StreamsOn(r) THEN StreamingRuns \cup {r} ELSE StreamingRuns \ {r}
  BY DEF StreamingRuns, Streams, StreamsOn, OthersFlow
<1> QED BY <1>1, <1>2, OpenIs

\* What a job has coming to it grows with nothing but its making and its runs.
Fewer ==
    \A j \in Jobs : Waiting(j)' + Deciding(j)' + Working(j)' <= Waiting(j) + Deciding(j) + Working(j)

\* What a step that JobQueue does not see leaves alone, the counters apart.
Quiet == UNCHANGED <<pending, jobOf, removed, CompletedJobs>>

LEMMA StaysFewer ==
    ASSUME TypeInv, CountInv, NEW k \in Jobs, NEW w \in {-1, 0, 1}, NEW d \in {-1, 0, 1},
           NEW a \in {-1, 0, 1}, w + d + a <= 0, Changes(k, w, d, a)
    PROVE  Fewer
BY WaitingIs, Counted DEF Changes, Fewer, CountInv

\* Every step is one of JobQueue, or changes nothing there.
LEMMA QueueStep ==
    ASSUME TypeInv, TypeInv', RunInv, OneToken, CountInv, CountInv', [Next]_vars
    PROVE  \/ \E k \in pending : Changes(k, 1, 0, 0) /\ pending' = pending \ {k} /\ Queue!Make(k)
                               /\ jobOf' = jobOf
           \/ \E w \in Workers : Take(w) /\ Queue!Begin(handed[w])
           \/ /\ Fewer
              /\ UNCHANGED <<pending, jobOf>>
              /\ \/ UNCHANGED Queue!vars
                 \/ \E k \in Jobs : Queue!Decide(k) \/ Queue!Leave(k) \/ Queue!Remove(k)
<1> USE DEF queueVars, workerVars, runVars, jobVars, inboxVars
<1> DEFINE Other == /\ Fewer
                    /\ UNCHANGED <<pending, jobOf>>
                    /\ \/ UNCHANGED Queue!vars
                       \/ \E k \in Jobs : Queue!Decide(k) \/ Queue!Leave(k) \/ Queue!Remove(k)
           Goal == \/ \E k \in pending : Changes(k, 1, 0, 0) /\ pending' = pending \ {k} /\ Queue!Make(k)
                                        /\ jobOf' = jobOf
                   \/ \E w \in Workers : Take(w) /\ Queue!Begin(handed[w])
                   \/ Other
<1>t. /\ started \in 0..MaxRuns /\ MaxRuns \in Nat
      /\ DOMAIN worker = Workers /\ DOMAIN jobOf = Runs
      /\ DOMAIN sender = Runs /\ DOMAIN summary = Runs /\ DOMAIN notifier = Jobs
      /\ HandedFinite /\ HandedFinite'
  BY DEF TypeInv, TypeOK, CountInv
<1>b. \A w \in Workers : worker[w] \in Busy => run[w] \in Runs /\ Job(w) \in Jobs /\ Job(w) = jobOf[run[w]]
  BY BusyType DEF Job
<1>c. \A r \in 1..started : r \in Runs /\ jobOf[r] \in Jobs
  BY <1>t DEF TypeInv, RunKnown, Runs
<1>n. \A j \in Jobs : Waiting(j) \in Nat /\ Deciding(j) \in Nat /\ Working(j) \in Nat
  BY <1>t, WaitingIs, Counted
\* The counters of all jobs are kept.
<1>k. ASSUME Quiet, \A j \in Jobs : Waiting(j)' = Waiting(j),
             UNCHANGED <<OpenRuns, AttendedRuns>>
      PROVE  Other
  <2>1. \A j \in Jobs : Deciding(j)' = Deciding(j) /\ Working(j)' = Working(j)
    BY <1>k, DecidingMoves, WorkingMoves DEF Quiet
  <2>2. Fewer
    BY <1>k, <1>n, <2>1 DEF Fewer
  <2>3. UNCHANGED Queue!vars
    BY <1>k, <2>1, Stutters DEF Quiet
  <2> QED BY <1>k, <2>2, <2>3 DEF Quiet
<1>o. ASSUME UNCHANGED outcome, UNCHANGED jobOf PROVE UNCHANGED CompletedJobs
  BY <1>o DEF CompletedJobs
<1>s. ASSUME UNCHANGED <<worker, run, sender, summary>>
      PROVE  UNCHANGED <<OpenRuns, AttendedRuns>>
  BY <1>s DEF OpenRuns, Undecided, AttendedRuns, Attended
<1> HIDE DEF Goal
<1>g. Other => Goal
  BY DEF Goal
<1> HIDE DEF Other
<1>1. ASSUME NEW k \in Jobs, Submit(k) PROVE Goal
  <2>1. /\ k \in pending /\ pending' = pending \ {k}
        /\ UNCHANGED <<removed, worker, run, sender, summary, jobOf, outcome>>
    BY <1>1 DEF Submit
  <2>2. \A j \in Jobs : Deciding(j)' = Deciding(j) /\ Working(j)' = Working(j)
    BY <1>s, <2>1, DecidingMoves, WorkingMoves
  <2>3. Changes(k, 1, 0, 0)
    BY <1>1, <1>n, <2>2, WaitingSubmit DEF Changes
  <2>4. Queue!Make(k)
    BY <1>o, <1>t, <2>1, <2>3, IsMake
  <2> QED BY <2>1, <2>3, <2>4 DEF Goal
<1>2. ASSUME NEW w \in Workers, Take(w) PROVE Goal
  <2>1. Queue!Begin(handed[w])
    BY <1>2, <1>t, TakeBegins, IsBegin
  <2> QED BY <1>2, <2>1 DEF Goal
<1>3. ASSUME \/ Dispatch \/ \E k \in Jobs : Fetch(k) \/ Requeue(k)
      PROVE  Other
  <2>1. /\ UNCHANGED <<pending, removed, jobOf, outcome, worker, run, sender, summary>>
        /\ \A j \in Jobs : Waiting(j)' = Waiting(j)
    BY <1>3, WaitingDispatch, WaitingFetch, WaitingRequeue DEF Dispatch, Fetch, Requeue, NotifierMoves
  <2> QED BY <1>k, <1>o, <1>s, <2>1 DEF Quiet
<1>4. ASSUME NEW k \in Jobs, Remove(k) PROVE Other
  <2>1. /\ notifier[k] = "remove" /\ notifier' = [notifier EXCEPT ![k] = "push"]
        /\ removed' = removed \cup {FileOf[k]}
        /\ UNCHANGED <<pending, jobOf, outcome, worker, run, sender, summary, jobQueue, fetching, handed>>
    BY <1>4 DEF Remove, NotifierMoves
  <2>2. \A j \in Jobs : Waiting(j)' = Waiting(j)
    <3>1. \A j \in Jobs : notifier'[j] = "requeue" <=> notifier[j] = "requeue"
      BY <1>t, <2>1
    <3> QED BY <2>1, <3>1, WaitingKept
  <2>3. \A j \in Jobs : Deciding(j)' = Deciding(j) /\ Working(j)' = Working(j)
    BY <1>s, <2>1, DecidingMoves, WorkingMoves
  <2>4. DeleteOnComplete /\ k \in CompletedJobs
    BY <2>1 DEF CountInv, NotifierKnown, CompletedJobs
  <2>5. Queue!Remove(k)
    BY <1>o, <2>1, <2>2, <2>3, <2>4 DEF Queue!Remove, CompletedJobs
  <2>6. Fewer
    BY <1>n, <2>2, <2>3 DEF Fewer
  <2> QED BY <2>1, <2>5, <2>6 DEF Other
<1>5. ASSUME \/ \E k \in Jobs : Push(k) \/ Pushed(k) \/ SendPanics(k) \/ SubmitPanics(k)
             \/ CloseSubscribers \/ CloseQueue \/ UNCHANGED vars
             \/ \E w \in Workers : HashFatal(w)
             \/ \E i \in 1..Subscribers : SubscriberStep(i) \/ Exit(i)
      PROVE  Other
  <2>1. UNCHANGED <<pending, removed, jobOf, outcome, worker, run, sender, summary, jobQueue, fetching, handed>>
    BY <1>5 DEF Push, Pushed, SendPanics, NotifierMoves, SubmitPanics, CloseSubscribers,
        CloseQueue, vars, HashFatal, SubscriberStep, Receive, ReadStatus, Exit
  <2>2. \A j \in Jobs : notifier'[j] = "requeue" <=> notifier[j] = "requeue"
    <3>1. \/ notifier' = notifier
          \/ \E k \in Jobs : \/ notifier[k] = "push" /\ notifier' = [notifier EXCEPT ![k] = "push"]
                             \/ notifier[k] = "push" /\ notifier' = [notifier EXCEPT ![k] = "range"]
                             \/ notifier[k] = "requeue" /\ notifier' = [notifier EXCEPT ![k] = "requeue"]
      BY <1>5 DEF Push, Pushed, SendPanics, NotifierMoves, SubmitPanics, CloseSubscribers,
        CloseQueue, vars, HashFatal, SubscriberStep, Receive, ReadStatus, Exit
    <3> QED BY <1>t, <3>1
  <2>3. \A j \in Jobs : Waiting(j)' = Waiting(j)
    BY <2>1, <2>2, WaitingKept
  <2> QED BY <1>k, <1>o, <1>s, <2>1, <2>3 DEF Quiet
\* A worker without a run.
<1>6. ASSUME NEW w \in Workers, NEW to \in {"ready", "waiting", "exited"}, worker[w] \notin Busy,
             worker' = [worker EXCEPT ![w] = to],
             UNCHANGED <<pending, removed, jobOf, outcome, run, sender, summary, jobQueue,
                         fetching, handed, notifier>>
      PROVE  Other
  <2>1. /\ worker'[w] = to /\ \A v \in Workers \ {w} : worker'[v] = worker[v]
        /\ \A v \in Workers : worker[v] \in Busy \cup {"ready", "waiting", "exited"}
        /\ run' = run
    BY <1>6 DEF TypeInv, TypeOK, Busy
  <2>2. /\ Unsettled \subseteq Busy
        /\ \A s \in Busy : s \notin {"ready", "waiting", "exited"}
    BY DEF Busy, Unsettled
  <2>3. DoingRuns' = DoingRuns /\ AttendedRuns' = AttendedRuns
    BY <1>6, <2>1, <2>2 DEF DoingRuns, AttendedRuns, Attended
  <2>5. StreamingRuns' = StreamingRuns
    BY <1>6 DEF StreamingRuns
  <2>6. OpenRuns' = OpenRuns
    BY <2>3, <2>5, OpenIs
  <2>4. \A j \in Jobs : Waiting(j)' = Waiting(j)
    BY <1>6, WaitingKept
  <2> QED BY <1>6, <1>k, <1>o, <2>3, <2>4, <2>6 DEF Quiet
<1>7. ASSUME NEW w \in Workers, Ready(w) PROVE Other
  BY <1>6, <1>7 DEF Ready, WorkerMoves, Busy
<1>8. ASSUME CloseWorker PROVE Other
  <2> DEFINE h == Head(pool)
  <2>1. /\ pool # << >> /\ worker' = [worker EXCEPT ![h] = "exited"]
        /\ UNCHANGED <<pending, removed, jobOf, outcome, run, sender, summary, jobQueue,
                       fetching, handed, notifier>>
    BY <1>8 DEF CloseWorker
  <2>2. h \in Workers /\ worker[h] = "waiting"
    <3>1. Len(pool) \in Nat \ {0} /\ h = pool[1] /\ h \in Workers
      BY <2>1 DEF TypeInv, TypeOK
    <3>2. InPool(h)
      BY <3>1 DEF InPool
    <3> QED BY <3>1, <3>2 DEF OneToken
  <2> HIDE DEF h
  <2> QED BY <1>6, <2>1, <2>2 DEF Busy
\* A worker goes on in its run, r, which stays as decided as it was.
<1>9. ASSUME NEW w \in Workers, NEW to \in Busy, worker[w] \in Busy,
             Moved(w, to), NEW r \in Runs, r = run[w], OthersFlow(r),
             to \in Unsettled \/ StreamsOn(r) <=> worker[w] \in Unsettled \/ Streams(r),
             Quiet, \A j \in Jobs : Waiting(j)' = Waiting(j)
      PROVE  Other
  <2>1. to # "ready" /\ to \in Busy \cup {"ready"}
    BY <1>9 DEF Busy
  <2>2. UNCHANGED <<OpenRuns, AttendedRuns>>
    <3>1. /\ OpenRuns' = IF to \in Unsettled \/ StreamsOn(r) THEN OpenRuns \cup {r}
                         ELSE OpenRuns \ {r}
          /\ r \in OpenRuns <=> worker[w] \in Unsettled \/ Streams(r)
          /\ AttendedRuns' = AttendedRuns
      BY <1>9, <2>1, RunActs
    <3>2. /\ r \in OpenRuns => OpenRuns \cup {r} = OpenRuns
          /\ r \notin OpenRuns => OpenRuns \ {r} = OpenRuns
      OBVIOUS
    <3> QED BY <1>9, <3>1, <3>2
  <2> QED BY <1>9, <1>k, <2>2
<1>10. ASSUME NEW w \in Workers,
              \/ QueryFails(w) \/ QuerySame(w) \/ QueryDiffers(w) \/ LockSame(w) \/ Open(w)
              \/ SeekFails(w) \/ CopyFails(w)
       PROVE  Other
  <2>1. PICK to \in Busy :
           /\ worker[w] \in Busy
           /\ worker' = [worker EXCEPT ![w] = to]
           /\ UNCHANGED <<pending, removed, jobOf, outcome, run, sender, summary, jobQueue,
                          fetching, handed, notifier>>
           /\ worker[w] \in Unsettled <=> to \in Unsettled
    BY <1>10 DEF QueryFails, QuerySame, QueryDiffers, LockSame, Open, SeekFails, CopyFails,
        Goes, WorkerMoves, Unsettled, Busy
  <2>2. PICK r \in Runs : r = run[w]
    BY <1>b, <2>1
  <2>3. StreamsOn(r) <=> Streams(r)
    BY <2>1 DEF Streams, StreamsOn
  <2>4. Quiet /\ \A j \in Jobs : Waiting(j)' = Waiting(j)
    BY <1>o, <2>1, WaitingKept DEF Quiet
  <2>5. OthersFlow(r)
    BY <2>1 DEF OthersFlow
  <2> QED BY <1>9, <2>1, <2>2, <2>3, <2>4, <2>5 DEF Moved
<1>11. ASSUME NEW w \in Workers, SeekFatal(w) PROVE Other
  <2>1. /\ worker[w] = "seekFatal" /\ worker' = [worker EXCEPT ![w] = "stream"]
        /\ Notifies(Job(w), "fatal")
        /\ outcome' = [outcome EXCEPT ![run[w]] = @ \cup ({"fatal"} \cap {"error", "completed"})]
        /\ UNCHANGED <<pending, removed, jobOf, run, sender, summary, jobQueue, fetching, handed>>
    BY <1>11 DEF SeekFatal, WorkerNotifies, WorkerMoves
  <2>2. worker[w] \in Busy /\ {"seekFatal", "stream"} \subseteq Busy \cap Unsettled
    BY <2>1 DEF Busy, Unsettled
  <2>3. PICK r \in Runs : r = run[w]
    BY <1>b, <2>2
  <2>4. StreamsOn(r) <=> Streams(r)
    BY <2>1 DEF Streams, StreamsOn
  <2>5. CompletedJobs' = CompletedJobs
    BY <1>b, <2>1, <2>2, <2>3, CompletedIs
  <2>6. \A j \in Jobs : Waiting(j)' = Waiting(j)
    BY <1>b, <1>n, <1>t, <2>1, <2>2, WaitingNotified
  <2>7. Moved(w, "stream") /\ OthersFlow(r)
    BY <2>1 DEF Moved, OthersFlow
  <2> QED BY <1>9, <2>1, <2>2, <2>3, <2>4, <2>5, <2>6, <2>7 DEF Quiet
<1>12. ASSUME NEW w \in Workers, Stream(w) \/ Copy(w) \/ SetStatus(w) PROVE Other
  <2>1. /\ worker[w] \in Busy
        /\ UNCHANGED <<pending, removed, jobOf, outcome, run, jobQueue, fetching, handed, notifier>>
    BY <1>12 DEF Stream, Copy, SetStatus, WorkerMoves, Busy
  <2>2. PICK r \in Runs : r = run[w]
    BY <1>b, <2>1
  <2>3. Quiet /\ \A j \in Jobs : Waiting(j)' = Waiting(j)
    BY <1>o, <2>1, WaitingKept DEF Quiet
  <2>4. PICK to \in Busy :
           /\ worker' = [worker EXCEPT ![w] = to]
           /\ OthersFlow(r)
           /\ to \in Unsettled \/ StreamsOn(r)
           /\ worker[w] \in Unsettled \/ Streams(r)
    <3>1. CASE Stream(w)
      <4>1. /\ worker[w] = "stream" /\ worker' = [worker EXCEPT ![w] = "status"]
            /\ sender' = [sender EXCEPT ![r] = "open"] /\ summary' = summary
        BY <2>2, <3>1 DEF Stream, WorkerMoves
      <4>2. /\ OthersFlow(r)
            /\ "status" \in Busy /\ {"stream", "status"} \subseteq Unsettled
        BY <1>t, <4>1 DEF OthersFlow, Busy, Unsettled
      <4> QED BY <4>1, <4>2
    <3>2. CASE Copy(w)
      <4>1. /\ worker' = [worker EXCEPT ![w] = "copy"] /\ sender[r] = "read"
            /\ sender' = [sender EXCEPT ![r] = "send"] /\ summary' = summary
        BY <2>2, <3>2 DEF Copy, WorkerMoves
      <4>2. /\ OthersFlow(r)
            /\ "copy" \in Busy /\ sender'[r] = "send"
        BY <1>t, <4>1 DEF OthersFlow, Busy
      <4>3. Streams(r) /\ StreamsOn(r)
        BY <4>1, <4>2 DEF Streams, StreamsOn, Sending
      <4> QED BY <4>1, <4>2, <4>3
    <3>3. CASE SetStatus(w)
      <4>1. /\ worker[w] = "status" /\ worker' = [worker EXCEPT ![w] = "copy"]
            /\ summary' = [summary EXCEPT ![r] = "range"] /\ sender' = sender
        BY <2>2, <3>3 DEF SetStatus, WorkerMoves
      <4>2. /\ OthersFlow(r)
            /\ "copy" \in Busy
        BY <1>t, <4>1 DEF OthersFlow, Busy
      <4>3. sender[r] \in {"open", "read", "openError"}
        BY <2>2, <4>1 DEF RunInv, RunBegins
      <4>4. Streams(r) /\ StreamsOn(r)
        BY <4>1, <4>3 DEF Streams, StreamsOn, Sending
      <4> QED BY <4>1, <4>2, <4>4
    <3> QED BY <1>12, <3>1, <3>2, <3>3
  <2> QED BY <1>9, <2>1, <2>2, <2>3, <2>4 DEF Moved
\* A worker leaves run r; x is what it adds to the turns.
<1>13. ASSUME NEW w \in Workers, worker[w] \in Busy, Moved(w, "ready"),
              NEW r \in Runs, r = run[w], NEW k \in Jobs, jobOf[r] = k,
              UNCHANGED <<jobOf, sender, summary>>, NEW x \in {0, 1},
              \A j \in Jobs : Waiting(j)' = Waiting(j) + (IF j = k THEN x ELSE 0)
       PROVE  /\ worker[w] \in Unsettled /\ ~Streams(r) => Changes(k, x, -1, -1)
              /\ worker[w] \notin Unsettled => Changes(k, x, 0, -1)
  <2>1. OthersFlow(r) /\ (StreamsOn(r) <=> Streams(r)) /\ "ready" \notin Unsettled
    BY <1>13 DEF OthersFlow, Streams, StreamsOn, Unsettled
  <2>2. /\ OpenRuns' = IF StreamsOn(r) THEN OpenRuns \cup {r} ELSE OpenRuns \ {r}
        /\ r \in OpenRuns <=> worker[w] \in Unsettled \/ Streams(r)
        /\ r \in AttendedRuns /\ AttendedRuns' = AttendedRuns \ {r}
    BY <1>13, <2>1, RunActs
  <2>3. /\ r \in OpenRuns => OpenRuns \cup {r} = OpenRuns
        /\ r \notin OpenRuns => OpenRuns \ {r} = OpenRuns
    OBVIOUS
  <2>4. ASSUME NEW j \in Jobs
        PROVE  /\ worker[w] \in Unsettled /\ ~Streams(r) =>
                      Deciding(j)' = Deciding(j) + (IF j = k THEN -1 ELSE 0)
               /\ worker[w] \notin Unsettled => Deciding(j)' = Deciding(j) + 0
               /\ Working(j)' = Working(j) + (IF j = k THEN -1 ELSE 0)
    <3>1. worker[w] \notin Unsettled => OpenRuns' = OpenRuns
      BY <2>1, <2>2, <2>3
    <3>2. worker[w] \in Unsettled /\ ~Streams(r) => r \in OpenRuns /\ OpenRuns' = OpenRuns \ {r}
      BY <2>1, <2>2
    <3>3. Deciding(j) \in Nat
      BY <1>n
    <3> QED BY <1>13, <2>2, <3>1, <3>2, <3>3, DecidingMoves, WorkingMoves
  <2> QED BY <1>13, <2>4 DEF Changes
<1>14. ASSUME NEW w \in Workers, OpenFails(w) PROVE Other
  <2>1. /\ worker[w] = "open" /\ worker' = [worker EXCEPT ![w] = "ready"]
        /\ UNCHANGED <<pending, removed, jobOf, outcome, run, sender, summary, jobQueue,
                       fetching, handed, notifier>>
    BY <1>14 DEF OpenFails, Goes, WorkerMoves
  <2>2. worker[w] \in Busy /\ worker[w] \in Unsettled /\ worker[w] \in Early
    BY <2>1 DEF Busy, Unsettled, Early
  <2>3. PICK r \in Runs, k \in Jobs : r = run[w] /\ jobOf[r] = k
    BY <1>b, <2>2
  <2>4. ~Streams(r)
    BY <2>2, <2>3 DEF RunInv, RunBegins, RunState, Streams, Sending
  <2>5. \A j \in Jobs : Waiting(j)' = Waiting(j) + (IF j = k THEN 0 ELSE 0)
    BY <1>n, <2>1, WaitingKept
  <2>6. Changes(k, 0, -1, -1)
    BY <1>13, <2>1, <2>2, <2>3, <2>4, <2>5 DEF Moved
  <2>7. Queue!Decide(k)
    BY <1>o, <1>t, <2>1, <2>6, IsDecided
  <2>8. Fewer
    BY <2>6, StaysFewer
  <2> QED BY <2>1, <2>7, <2>8 DEF Other
<1>15. ASSUME NEW w \in Workers, CopyEnds(w) PROVE Other
  <2>1. /\ worker[w] = "copy" /\ worker' = [worker EXCEPT ![w] = "ready"]
        /\ UNCHANGED <<pending, removed, jobOf, outcome, run, sender, summary, jobQueue,
                       fetching, handed, notifier>>
    BY <1>15 DEF CopyEnds, WorkerMoves
  <2>2. worker[w] \in Busy /\ worker[w] \notin Unsettled
    BY <2>1 DEF Busy, Unsettled
  <2>3. PICK r \in Runs, k \in Jobs : r = run[w] /\ jobOf[r] = k
    BY <1>b, <2>2
  <2>5. \A j \in Jobs : Waiting(j)' = Waiting(j) + (IF j = k THEN 0 ELSE 0)
    BY <1>n, <2>1, WaitingKept
  <2>6. Changes(k, 0, 0, -1)
    BY <1>13, <2>1, <2>2, <2>3, <2>5 DEF Moved
  <2>7. Queue!Leave(k)
    BY <1>o, <1>t, <2>1, <2>6, IsLeave
  <2>8. Fewer
    BY <2>6, StaysFewer
  <2> QED BY <2>1, <2>7, <2>8 DEF Other
\* The notifications by which a worker leaves.
<1>16. ASSUME NEW w \in Workers, QueryError(w) \/ Same(w) \/ CopyError(w) PROVE Other
  <2>1. PICK type \in {"error", "completed"} :
           /\ worker' = [worker EXCEPT ![w] = "ready"]
           /\ Notifies(Job(w), type)
           /\ outcome' = [outcome EXCEPT ![run[w]] = @ \cup ({type} \cap {"error", "completed"})]
           /\ UNCHANGED <<pending, removed, jobOf, run, sender, summary, jobQueue, fetching, handed>>
           /\ \/ worker[w] \in {"queryError", "sameLocked"}
              \/ worker[w] = "copyError" /\ type = "error"
    BY <1>16 DEF QueryError, Same, CopyError, WorkerNotifies, WorkerMoves
  <2>2. worker[w] \in Busy
    BY <2>1 DEF Busy
  <2>3. PICK r \in Runs, k \in Jobs : r = run[w] /\ jobOf[r] = k /\ Job(w) = k
    BY <1>b, <2>2
  <2>4. PICK x \in {0, 1} : x = IF type = "error" THEN 1 ELSE 0
    OBVIOUS
  <2>5. \A j \in Jobs : Waiting(j)' = Waiting(j) + (IF j = k THEN x ELSE 0)
    <3>1. \A j \in Jobs : Waiting(j)' = Waiting(j) + (IF j = k /\ type = "error" THEN 1 ELSE 0)
      BY <1>t, <2>1, <2>3, WaitingNotified
    <3> QED BY <2>4, <3>1
  <2>6. CompletedJobs' = IF type = "completed" THEN CompletedJobs \cup {k} ELSE CompletedJobs
    BY <2>1, <2>3, CompletedIs
  <2>7. CASE worker[w] \in {"queryError", "sameLocked"}
    <3>1. worker[w] \in Unsettled /\ worker[w] \in Early
      BY <2>7 DEF Unsettled, Early
    <3>2. ~Streams(r)
      BY <2>3, <3>1 DEF RunInv, RunBegins, RunState, Streams, Sending
    <3>3. Changes(k, x, -1, -1)
      BY <1>13, <2>1, <2>2, <2>3, <2>5, <3>1, <3>2 DEF Moved
    <3>4. Queue!Decide(k)
      BY <1>t, <2>1, <2>4, <2>6, <3>3, IsDecided
    <3>5. Fewer
      BY <3>3, StaysFewer
    <3> QED BY <2>1, <3>4, <3>5 DEF Other
  <2>8. CASE worker[w] = "copyError" /\ type = "error"
    <3>1. worker[w] \notin Unsettled
      BY <2>8 DEF Unsettled
    <3>2. Changes(k, x, 0, -1)
      BY <1>13, <2>1, <2>2, <2>3, <2>5, <3>1 DEF Moved
    <3>3. Queue!Leave(k)
      BY <1>t, <2>1, <2>6, <2>8, <3>2, IsLeave
    <3>4. Fewer
      BY <3>2, StaysFewer
    <3> QED BY <2>1, <3>3, <3>4 DEF Other
  <2> QED BY <2>1, <2>7, <2>8
\* A step of the goroutines of run r by which it stays as decided as it was.
<1>17. ASSUME NEW r \in Runs, OthersFlow(r), StreamsOn(r) <=> Streams(r), Quiet,
              UNCHANGED <<worker, run, jobQueue, fetching, handed>>,
              \A j \in Jobs : Waiting(j)' = Waiting(j)
       PROVE  Other
  <2>1. /\ AttendedRuns' = AttendedRuns
        /\ OpenRuns' = IF r \in DoingRuns \/ StreamsOn(r) THEN OpenRuns \cup {r}
                       ELSE OpenRuns \ {r}
        /\ r \in OpenRuns <=> r \in DoingRuns \/ Streams(r)
    BY <1>17, RunStreams
  <2>2. /\ r \in OpenRuns => OpenRuns \cup {r} = OpenRuns
        /\ r \notin OpenRuns => OpenRuns \ {r} = OpenRuns
    OBVIOUS
  <2>3. UNCHANGED <<OpenRuns, AttendedRuns>>
    BY <1>17, <2>1, <2>2
  <2> QED BY <1>17, <1>k, <2>3
<1>18. ASSUME NEW r \in 1..started, SenderStep(r) PROVE Other
  <2>1. PICK to :
           /\ sender' = [sender EXCEPT ![r] = to]
           /\ sender[r] \in Sending <=> to \in Sending
           /\ UNCHANGED <<pending, removed, jobOf, outcome, worker, run, summary, jobQueue,
                          fetching, handed, notifier>>
    BY <1>18 DEF SenderStep, OpenStream, OpenStreamFails, Send, SendFails, ReadEnds,
        Received, SenderMoves, Sending
  <2>2. OthersFlow(r) /\ (StreamsOn(r) <=> Streams(r))
    BY <1>c, <1>t, <2>1 DEF OthersFlow, Streams, StreamsOn
  <2>3. Quiet /\ \A j \in Jobs : Waiting(j)' = Waiting(j)
    BY <1>o, <2>1, WaitingKept DEF Quiet
  <2> QED BY <1>17, <1>c, <2>1, <2>2, <2>3
<1>19. ASSUME NEW r \in 1..started,
              \/ TakeOpenError(r) \/ TakeSendError(r) \/ TakeBytes(r) \/ TakeClosed(r)
              \/ CountBlock(r) \/ SummaryEnds(r)
       PROVE  Other
  <2>1. UNCHANGED <<pending, removed, jobOf, outcome, worker, run, jobQueue, fetching,
                    handed, notifier>>
    BY <1>19 DEF TakeOpenError, TakeSendError, TakeBytes, TakeClosed, TakesFrom,
        CountBlock, SummaryEnds, SummaryMoves
  <2>2. OthersFlow(r) /\ (StreamsOn(r) <=> Streams(r))
    <3>1. CASE TakeOpenError(r) \/ TakeSendError(r) \/ TakeBytes(r) \/ TakeClosed(r)
      <4>1. PICK to \in {"left", "recv", "read"}, taken \in {"error", "lock", "completed"} :
               /\ sender[r] \in Sending /\ sender' = [sender EXCEPT ![r] = to]
               /\ summary' = [summary EXCEPT ![r] = taken]
               /\ to \in Sending \/ taken \in {"error", "completed"}
        BY <3>1 DEF TakeOpenError, TakeSendError, TakeBytes, TakeClosed, TakesFrom,
            SummaryMoves, Sending
      <4> QED BY <1>c, <1>t, <4>1 DEF OthersFlow, Streams, StreamsOn
    <3>2. CASE CountBlock(r) \/ SummaryEnds(r)
      <4>1. PICK to \in {"updated", "done"} :
               /\ summary[r] \in {"lock", "range"} /\ summary' = [summary EXCEPT ![r] = to]
               /\ sender' = sender
        BY <3>2 DEF CountBlock, SummaryEnds, SummaryMoves
      <4> QED BY <1>c, <1>t, <4>1 DEF OthersFlow, Streams, StreamsOn
    <3> QED BY <1>19, <3>1, <3>2
  <2>3. Quiet /\ \A j \in Jobs : Waiting(j)' = Waiting(j)
    BY <1>o, <2>1, WaitingKept DEF Quiet
  <2> QED BY <1>17, <1>c, <2>1, <2>2, <2>3
<1>20. ASSUME NEW r \in 1..started, Updated(r) PROVE Other
  <2>1. /\ summary[r] = "updated" /\ summary' = [summary EXCEPT ![r] = "range"]
        /\ outcome' = [outcome EXCEPT ![r] = @ \cup ({"updated"} \cap {"error", "completed"})]
        /\ Notifies(jobOf[r], "updated")
        /\ UNCHANGED <<pending, removed, jobOf, sender, worker, run, jobQueue, fetching, handed>>
    BY <1>20 DEF Updated, SummaryNotifies, SummaryMoves
  <2>2. OthersFlow(r) /\ (StreamsOn(r) <=> Streams(r))
    BY <1>c, <1>t, <2>1 DEF OthersFlow, Streams, StreamsOn
  <2>3. \A j \in Jobs : Waiting(j)' = Waiting(j)
    BY <1>c, <1>n, <1>t, <2>1, WaitingNotified
  <2>4. Quiet
    BY <1>c, <2>1, CompletedIs DEF Quiet
  <2> QED BY <1>17, <1>c, <2>1, <2>2, <2>3, <2>4
<1>21. ASSUME NEW r \in 1..started, TransferError(r) \/ Completed(r) PROVE Other
  <2>0. PICK k \in Jobs : jobOf[r] = k /\ r \in Runs
    BY <1>c
  <2>1. PICK type \in {"error", "completed"} :
           /\ summary[r] = type /\ summary' = [summary EXCEPT ![r] = "range"]
           /\ outcome' = [outcome EXCEPT ![r] = @ \cup ({type} \cap {"error", "completed"})]
           /\ Notifies(k, type)
           /\ UNCHANGED <<pending, removed, jobOf, sender, worker, run, jobQueue, fetching, handed>>
    BY <1>21, <2>0 DEF TransferError, Completed, SummaryNotifies, SummaryMoves
  <2>2. sender[r] \in {"left", "recv", "done"}
    BY <2>0, <2>1 DEF CountInv, AtErrors, RunInv, RunState
  <2>3. OthersFlow(r) /\ Streams(r) /\ ~StreamsOn(r)
    BY <1>t, <2>0, <2>1, <2>2 DEF OthersFlow, Streams, StreamsOn, Sending
  <2>4. r \notin DoingRuns
    BY <2>2 DEF DoingRuns, Unsettled, RunInv, RunBegins, Early
  <2>5. /\ AttendedRuns' = AttendedRuns
        /\ OpenRuns' = OpenRuns \ {r} /\ r \in OpenRuns
    BY <2>0, <2>1, <2>3, <2>4, RunStreams
  <2>6. PICK x \in {0, 1} : x = IF type = "error" THEN 1 ELSE 0
    OBVIOUS
  <2>7. \A j \in Jobs : Waiting(j)' = Waiting(j) + (IF j = k THEN x ELSE 0)
    <3>1. \A j \in Jobs : Waiting(j)' = Waiting(j) + (IF j = k /\ type = "error" THEN 1 ELSE 0)
      BY <1>t, <2>1, WaitingNotified
    <3> QED BY <2>6, <3>1
  <2>8. CompletedJobs' = IF type = "completed" THEN CompletedJobs \cup {k} ELSE CompletedJobs
    BY <2>0, <2>1, CompletedIs
  <2>9. Changes(k, x, -1, 0)
    <3>1. \A j \in Jobs : /\ Deciding(j)' = Deciding(j) + (IF j = k THEN -1 ELSE 0)
                          /\ Working(j)' = Working(j)
      BY <2>0, <2>1, <2>5, DecidingMoves, WorkingMoves
    <3> QED BY <1>n, <2>7, <3>1 DEF Changes
  <2>10. Queue!Decide(k)
    BY <1>t, <2>1, <2>6, <2>8, <2>9, IsDecided
  <2>11. Fewer
    BY <2>9, StaysFewer
  <2> QED BY <2>1, <2>10, <2>11 DEF Other
<1>22. Goal
  BY <1>g, <1>1, <1>2, <1>3, <1>4, <1>5, <1>7, <1>8, <1>10, <1>11, <1>12, <1>14, <1>15,
     <1>16, <1>18, <1>19, <1>20, <1>21 DEF Next, WorkerStep, NotifierStep, SummaryStep
<1> QED BY <1>22 DEF Goal, Other

-----------------------------------------------------------------------------
\* What a job has coming to it, against its runs so far.
TurnsBounded ==
    \A j \in Jobs :
        Waiting(j) + Deciding(j) + Working(j) <= (IF j \in pending THEN 0 ELSE 1) + RunCount(j)

LEMMA RunCountIs ==
    ASSUME NEW j PROVE RunCount(j) \in Nat
<1>1. Runs \in SUBSET Runs /\ {r \in Runs : jobOf[r] = j} = RunsOf(jobOf, Runs, j)
  BY DEF RunsOf
<1>2. Cardinality(RunsOf(jobOf, Runs, j)) \in Nat
  BY <1>1, RunsCount
<1> QED BY <1>1, <1>2 DEF RunCount

LEMMA BoundStep ==
    ASSUME TypeInv, TypeInv', RunInv, OneToken, CountInv, CountInv', [Next]_vars, TurnsBounded
    PROVE  TurnsBounded'
<1>n. \A j \in Jobs : /\ Waiting(j) \in Nat /\ Deciding(j) \in Nat /\ Working(j) \in Nat
                      /\ RunCount(j) \in Nat
  BY WaitingIs, Counted, RunCountIs DEF CountInv
<1>1. ASSUME NEW k \in pending, Changes(k, 1, 0, 0), pending' = pending \ {k}, jobOf' = jobOf
      PROVE  TurnsBounded'
  <2>1. \A j \in Jobs : RunCount(j)' = RunCount(j)
    BY <1>1 DEF RunCount
  <2> QED BY <1>1, <1>n, <2>1 DEF TurnsBounded, Changes
<1>2. ASSUME NEW w \in Workers, Take(w) PROVE TurnsBounded'
  <2>1. /\ handed[w] \in Jobs /\ pending' = pending
        /\ Changes(handed[w], -1, 1, 1)
        /\ \A j \in Jobs : RunCount(j)' = RunCount(j) + (IF j = handed[w] THEN 1 ELSE 0)
    BY <1>2, TakeBegins
  <2> QED BY <1>n, <2>1 DEF TurnsBounded, Changes
<1>3. ASSUME Fewer, UNCHANGED <<pending, jobOf>> PROVE TurnsBounded'
  <2>1. \A j \in Jobs : RunCount(j)' = RunCount(j)
    BY <1>3 DEF RunCount
  <2>2. ASSUME NEW j \in Jobs
        PROVE  Waiting(j)' + Deciding(j)' + Working(j)' <= (IF j \in pending' THEN 0 ELSE 1) + RunCount(j)'
    <3>1. CountInv' => HandedFinite'
      BY DEF CountInv
    <3>2. Waiting(j)' + Deciding(j)' + Working(j)' <= Waiting(j) + Deciding(j) + Working(j)
      BY <1>3 DEF Fewer
    <3>3. Waiting(j)' \in Nat /\ Deciding(j)' \in Nat /\ Working(j)' \in Nat
      <4>1. /\ WaitingOf' \in [Jobs -> Nat] /\ DecidingOf' \in [Jobs -> Nat]
            /\ WorkingOf' \in [Jobs -> Nat]
        BY <3>1, CounterTypesNext
      <4> QED BY <4>1 DEF WaitingOf, DecidingOf, WorkingOf
    <3> QED BY <1>3, <1>n, <2>1, <3>2, <3>3 DEF TurnsBounded
  <2> QED BY <2>2 DEF TurnsBounded
<1> QED BY <1>1, <1>2, <1>3, QueueStep

\* Before the first step.
LEMMA CountInit ==
    ASSUME Init
    PROVE  CountInv /\ TurnsBounded /\ Queue!Init
<1>1. CountInv
  <2>1. \A j \in Jobs : HandedTo(j) = {}
    BY DEF Init, HandedTo
  <2> QED BY <2>1, FS_EmptySet DEF Init, CountInv, HandedFinite, AtErrors, NotifierKnown
<1>2. ASSUME NEW j \in Jobs PROVE Waiting(j) = 0 /\ Deciding(j) = 0 /\ Working(j) = 0
  <2>1. /\ {i \in 1..Len(jobQueue) : jobQueue[i] = j} = {}
        /\ {w \in Workers : handed[w] = j} = {}
        /\ {r \in Runs : jobOf[r] = j /\ Undecided(r)} = {}
        /\ {r \in Runs : jobOf[r] = j /\ Attended(r)} = {}
    BY DEF Init
  <2>2. fetching[j] = 0 /\ notifier[j] = "none"
    BY DEF Init
  <2>3. Cardinality({}) = 0
    BY FS_EmptySet
  <2>4. Waiting(j) = 0
    <3>1. Cardinality({i \in 1..Len(jobQueue) : jobQueue[i] = j}) = 0
      BY <2>1, <2>3
    <3>2. Cardinality({w \in Workers : handed[w] = j}) = 0
      BY <2>1, <2>3
    <3>3. (IF notifier[j] = "requeue" THEN 1 ELSE 0) = 0
      BY <2>2
    <3> QED BY ONLY <2>2, <3>1, <3>2, <3>3 DEF Waiting
  <2>5. Deciding(j) = 0 /\ Working(j) = 0
    BY <2>1, <2>3 DEF Deciding, Working
  <2> QED BY <2>4, <2>5
<1>3. TurnsBounded
  BY <1>2, RunCountIs DEF TurnsBounded
<1>4. CompletedJobs = {} /\ Jobs \ pending = {} /\ removed = {}
  BY DEF Init, CompletedJobs
<1>5. Queue!Init
  BY <1>2, <1>4 DEF Queue!Init, CompletedJobs
<1> QED BY <1>1, <1>3, <1>5

CountedInv == TypeInv /\ RunInv /\ OneToken /\ CountInv /\ TurnsBounded

LEMMA CountedAlways == Spec => []CountedInv
<1>1. Init => CountedInv
  <2>1. Init => OneToken
    BY DEF Init, OneToken, InPool
  <2> QED BY <2>1, TypeInit, RunInit, CountInit DEF CountedInv
<1>2. CountedInv /\ [Next]_vars => CountedInv'
  BY TypeStep, RunStep, TokenStep, CountStep, BoundStep DEF CountedInv
<1> QED BY <1>1, <1>2, PTL DEF Spec

\* However many of its runs fail, twice each, and overlap, the queue of a job grows by at
\* most one with every run (client.go:196-201, worker.go:121-151).
THEOREM RetriesCorrect == Spec => []RetriesBounded
<1>1. CountedInv => RetriesBounded
  <2> SUFFICES ASSUME CountedInv, NEW j \in Jobs
               PROVE  Waiting(j) <= 1 + Cardinality({r \in Runs : jobOf[r] = j})
    BY DEF RetriesBounded
  <2>1. Waiting(j) \in Nat /\ Deciding(j) \in Nat /\ Working(j) \in Nat /\ RunCount(j) \in Nat
    BY WaitingIs, Counted, RunCountIs DEF CountedInv, CountInv
  <2>2. Waiting(j) + Deciding(j) + Working(j) <= (IF j \in pending THEN 0 ELSE 1) + RunCount(j)
    BY DEF CountedInv, TurnsBounded
  <2>3. Waiting(j) <= 1 + RunCount(j)
    BY <2>1, <2>2
  <2> QED BY <2>3 DEF RunCount
<1> QED BY <1>1, CountedAlways, PTL

\* The client implements JobQueue: for any number of jobs, workers and runs, every step
\* of its goroutines makes a job, begins a run, decides it, leaves it, removes a file
\* that it may remove, or does nothing that JobQueue sees (client.go:192-206,
\* clientqueue.go:31-44, worker.go:36-162, torrxferserverconnection.go:117-186).
THEOREM JobsImplementQueue == Spec => ImplementsJobQueue
<1>1. CountedInv /\ CountedInv' /\ [Next]_vars => [Queue!Next]_(Queue!vars)
  <2> SUFFICES ASSUME CountedInv, CountedInv', [Next]_vars
               PROVE  [Queue!Next]_(Queue!vars)
    OBVIOUS
  <2>1. pending \subseteq Jobs
    BY DEF CountedInv, TypeInv, TypeOK
  <2>2. \A w \in Workers : Take(w) => handed[w] \in Jobs
    BY TakeBegins DEF CountedInv
  <2>3. \/ \E k \in Jobs : \/ Queue!Make(k) \/ Queue!Begin(k) \/ Queue!Decide(k) \/ Queue!Leave(k)
                          \/ Queue!Remove(k)
        \/ UNCHANGED Queue!vars
    BY <2>1, <2>2, QueueStep DEF CountedInv
  <2> QED BY <2>3 DEF Queue!Next
<1>2. Init => Queue!Init
  BY CountInit
<1> QED BY <1>1, <1>2, CountedAlways, PTL DEF Spec, ImplementsJobQueue, Queue!Spec
===============================================================================
