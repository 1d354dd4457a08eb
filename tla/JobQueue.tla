------------------------------ MODULE JobQueue ------------------------------
(***************************************************************************)
(* What the client promises of its transfer jobs, whatever workers,        *)
(* senders, notifiers, locks and retries there are inside it.  A job is    *)
(* made once and waits for a turn.  A turn becomes a run.  Every run is    *)
(* decided once, as failed or completed, unless its file cannot be opened; *)
(* and its worker may add one failure of its own.  Every failure is worth  *)
(* another turn, and nothing else is.  A file is removed only when a job   *)
(* of it was completed.  TransferJobs implements this specification.       *)
(***************************************************************************)
EXTENDS Naturals

CONSTANTS
    Jobs,
    Files,
    FileOf,             \* [Jobs -> Files]
    DeleteOnComplete

VARIABLES
    made,       \* jobs that there are
    waiting,    \* [Jobs -> number of turns it waits for]
    deciding,   \* [Jobs -> number of its runs that are not decided]
    working,    \* [Jobs -> number of its runs that have a worker]
    completed,  \* jobs of which a run was decided as completed
    removed     \* files

vars == <<made, waiting, deciding, working, completed, removed>>

Init ==
    /\ made = {}
    /\ waiting = [j \in Jobs |-> 0]
    /\ deciding = [j \in Jobs |-> 0]
    /\ working = [j \in Jobs |-> 0]
    /\ completed = {}
    /\ removed = {}

Make(j) ==
    /\ j \notin made
    /\ made' = made \cup {j}
    /\ waiting' = [waiting EXCEPT ![j] = @ + 1]
    /\ UNCHANGED <<deciding, working, completed, removed>>

Begin(j) ==
    /\ waiting[j] > 0
    /\ waiting' = [waiting EXCEPT ![j] = @ - 1]
    /\ deciding' = [deciding EXCEPT ![j] = @ + 1]
    /\ working' = [working EXCEPT ![j] = @ + 1]
    /\ UNCHANGED <<made, completed, removed>>

\* The worker leaves the run, alone or with what else a step does.
Leaves(j) ==
    /\ working[j] > 0
    /\ working' = [working EXCEPT ![j] = @ - 1]

\* A run is decided, by its stream or by its worker, which then leaves it: it has
\* failed, or is completed, or its file cannot be opened and it is over without a
\* word.
Failed(j) ==
    /\ Leaves(j) \/ UNCHANGED working
    /\ waiting' = [waiting EXCEPT ![j] = @ + 1]
    /\ UNCHANGED completed

Completed(j) ==
    /\ Leaves(j) \/ UNCHANGED working
    /\ completed' = completed \cup {j}
    /\ UNCHANGED waiting

Dropped(j) ==
    /\ Leaves(j)
    /\ UNCHANGED <<waiting, completed>>

Decide(j) ==
    /\ deciding[j] > 0
    /\ deciding' = [deciding EXCEPT ![j] = @ - 1]
    /\ Failed(j) \/ Completed(j) \/ Dropped(j)
    /\ UNCHANGED <<made, removed>>

\* The worker leaves a run that its stream decides or has decided, and may have
\* failed too.
Leave(j) ==
    /\ Leaves(j)
    /\ waiting' = [waiting EXCEPT ![j] = @ + 1] \/ UNCHANGED waiting
    /\ UNCHANGED <<made, deciding, completed, removed>>

Remove(j) ==
    /\ DeleteOnComplete
    /\ j \in completed
    /\ removed' = removed \cup {FileOf[j]}
    /\ UNCHANGED <<made, waiting, deciding, working, completed>>

Next ==
    \E j \in Jobs :
        \/ Make(j) \/ Begin(j) \/ Decide(j) \/ Leave(j) \/ Remove(j)

Spec == Init /\ [][Next]_vars
=============================================================================
