----------------------------- MODULE ClientJobs ------------------------------
(***************************************************************************)
(* The page's side of a direct run (app/static/js/job-control.js): a batch *)
(* that runs one operation per input through runOpWithCancel, while Stop   *)
(* (abortMainJob, hard) and Instant RIFE (abortMainJob, soft) cancel the   *)
(* job in flight, against the single-flight endpoint of app/main.py.  The  *)
(* page is one thread: a step runs from one await to the next.  Requests   *)
(* and answers travel independently of each other.  The loop stands for    *)
(* the drain of the Instant RIFE queue, too, and the server's own queue    *)
(* (JobQueue) is taken to be empty.                                        *)
(***************************************************************************)
EXTENDS Naturals, FiniteSets

CONSTANTS
    Batch,      \* the batch has the inputs 1..Batch
    Cancels,    \* calls of abortMainJob
    MaxDrops,   \* bound: connections that break
    Polls       \* how often a broken run asks for its job (60 in the code)

ASSUME BatchAssumption == Batch \in Nat
ASSUME BoundAssumption == MaxDrops \in Nat /\ Polls \in Nat

Jobs == 1..Batch
NoJob == 0

VARIABLES
    run,       \* activeJob: the job whose token and controller it holds
    stopping,  \* activeJob.stopping
    step,      \* where runOpWithCancel is
    next,      \* next input of the batch
    told,      \* what runOpWithCancel said of each job
    polled,    \* polls made for a broken run
    cancel,    \* each call of abortMainJob
    aborted,   \* jobs whose AbortController was told to abort
    broken,    \* jobs whose connection broke
    server,    \* each job at the server
    ghosts     \* jobs that were over when request_cancel relabelled them

page == <<run, stopping, step, next, told, polled>>
vars == <<page, cancel, aborted, broken, server, ghosts>>

Unsent == [state |-> "unsent", target |-> NoJob, soft |-> FALSE]
Over == {"done", "error", "cancelled"}
Holding(j) == server[j] \in {"running", "cancelling"}
Held == \E k \in Jobs : Holding(k)

Init ==
    /\ run = NoJob /\ stopping = FALSE /\ step = "idle" /\ next = 1 /\ polled = 0
    /\ told = [j \in Jobs |-> "nothing"]
    /\ cancel = [c \in Cancels |-> Unsent]
    /\ aborted = {} /\ broken = {} /\ ghosts = {}
    /\ server = [j \in Jobs |-> "none"]

-----------------------------------------------------------------------------
(* runOpWithCancel, called by the loop of the batch *)

(* activeJob is never stopping here: the finally clause has replaced it.   *)
(* The loop goes on whatever became of the job before.                     *)
Start ==
    /\ step = "idle" /\ next <= Batch
    /\ run' = next /\ stopping' = FALSE /\ step' = "posted" /\ next' = next + 1
    /\ polled' = 0
    /\ server' = [server EXCEPT ![next] = "sent"]
    /\ UNCHANGED <<told, cancel, aborted, broken, ghosts>>

Returns(outcome) ==
    /\ told' = [told EXCEPT ![run] = outcome]
    /\ step' = "closing"
    /\ UNCHANGED <<run, stopping, next, polled>>

(* Mutant: whatever is answered counts as a success. *)
AnsweredAlwaysOk ==
    /\ step = "posted" /\ run \notin aborted
    /\ server[run] \in Over \cup {"refused"}
    /\ Returns("ok")
    /\ UNCHANGED <<cancel, aborted, broken, server, ghosts>>

(* The answer to the POST.  A handler that raised answers 500, which the   *)
(* page takes for a broken connection.                                     *)
Answered ==
    /\ step = "posted" /\ run \notin aborted
    /\ \/ server[run] = "done" /\ Returns("ok")
       \/ server[run] = "cancelled" /\ Returns("cancelled")
       \/ server[run] \in {"error", "refused"} /\ Returns("failed")
       \/ server[run] = "error" /\ stopping /\ Returns("cancelled")
       \/ /\ server[run] = "error" /\ ~stopping
          /\ step' = "polling" /\ UNCHANGED <<run, stopping, next, told, polled>>
    /\ UNCHANGED <<cancel, aborted, broken, server, ghosts>>

(* fetch throws an AbortError. *)
AbortSeen ==
    /\ step = "posted" /\ run \in aborted
    /\ Returns("cancelled")
    /\ UNCHANGED <<cancel, aborted, broken, server, ghosts>>

(* The connection breaks; the request may not have reached the server. *)
Breaks ==
    /\ step = "posted" /\ run \notin aborted
    /\ Cardinality(broken) < MaxDrops
    /\ broken' = broken \cup {run}
    /\ IF stopping THEN Returns("cancelled")
       ELSE step' = "polling" /\ UNCHANGED <<run, stopping, next, told, polled>>
    /\ \/ UNCHANGED server
       \/ server[run] = "sent" /\ server' = [server EXCEPT ![run] = "lost"]
    /\ UNCHANGED <<cancel, aborted, ghosts>>

(* Mutant: a broken run asks for its job until it is over. *)
PollForever ==
    /\ step = "polling"
    /\ \/ server[run] = "done" /\ run \notin ghosts /\ Returns("ok")
       \/ server[run] = "error" /\ run \notin ghosts /\ Returns("failed")
    /\ UNCHANGED <<cancel, aborted, broken, server, ghosts>>

(* GET /api/job: "done" and "error" end the wait, anything else is asked   *)
(* again, "cancelled" included.                                            *)
Poll ==
    /\ step = "polling"
    /\ \/ server[run] = "done" /\ run \notin ghosts /\ Returns("ok")
       \/ server[run] = "error" /\ run \notin ghosts /\ Returns("failed")
       \/ /\ server[run] \notin {"done", "error"} \/ run \in ghosts
          /\ IF polled < Polls
             THEN polled' = polled + 1 /\ UNCHANGED <<run, stopping, step, next, told>>
             ELSE Returns("failed")
    /\ UNCHANGED <<cancel, aborted, broken, server, ghosts>>

(* The finally clause gives activeJob back after one more GET /api/job. *)
Close ==
    /\ step = "closing"
    /\ run' = NoJob /\ stopping' = FALSE /\ step' = "idle"
    /\ UNCHANGED <<next, told, polled, cancel, aborted, broken, server, ghosts>>

-----------------------------------------------------------------------------
(* abortMainJob *)

(* The Stop button is disabled while the job is stopping; Instant RIFE has *)
(* no button.                                                              *)
Cancel(c, soft) ==
    /\ cancel[c].state = "unsent"
    /\ run # NoJob
    /\ soft \/ ~stopping
    /\ stopping' = TRUE
    /\ cancel' = [cancel EXCEPT ![c] = [state |-> "sent", target |-> run, soft |-> soft]]
    /\ UNCHANGED <<run, step, next, told, polled, aborted, broken, server, ghosts>>

(* request_cancel at the server: a job that is not registered yet is not   *)
(* cancelled, one that is over is relabelled.  The request may be lost.    *)
CancelArrives(c) ==
    LET k == cancel[c].target
    IN /\ cancel[c].state = "sent"
       /\ cancel' = [cancel EXCEPT ![c].state = "arrived"]
       /\ \/ UNCHANGED <<server, ghosts>>
          \/ /\ server[k] = "running"
             /\ server' = [server EXCEPT ![k] = "cancelling"]
             /\ UNCHANGED ghosts
          \/ /\ server[k] \in Over
             /\ ghosts' = ghosts \cup {k}
             /\ UNCHANGED server
       /\ UNCHANGED <<page, aborted, broken>>

(* Mutant: the fetch is dropped for a soft cancel, too. *)
CancelAnsweredHard(c) ==
    /\ cancel[c].state = "arrived"
    /\ cancel' = [cancel EXCEPT ![c].state = "answered"]
    /\ aborted' = IF run = NoJob THEN aborted ELSE aborted \cup {run}
    /\ UNCHANGED <<page, broken, server, ghosts>>

(* After the await a hard cancel aborts the controller that activeJob      *)
(* holds by now.                                                           *)
CancelAnswered(c) ==
    /\ cancel[c].state = "arrived"
    /\ cancel' = [cancel EXCEPT ![c].state = "answered"]
    /\ aborted' = IF cancel[c].soft \/ run = NoJob THEN aborted ELSE aborted \cup {run}
    /\ UNCHANGED <<page, broken, server, ghosts>>

-----------------------------------------------------------------------------
(* The endpoint.  It runs to its end whether or not the page still waits.  *)

Serves(j, from, to) == server[j] \in from /\ server' = [server EXCEPT ![j] = to]

(* Mutant: no single-flight gate. *)
ArrivesUngated(j) ==
    /\ Serves(j, {"sent"}, "running")
    /\ UNCHANGED <<page, cancel, aborted, broken, ghosts>>

Arrives(j) ==
    /\ Serves(j, {"sent"}, IF Held THEN "refused" ELSE "running")
    /\ UNCHANGED <<page, cancel, aborted, broken, ghosts>>

(* A handler told to stop may end in any way, as it may not look again. *)
Ends(j) ==
    /\ \/ \E to \in {"done", "error"} : Serves(j, {"running", "cancelling"}, to)
       \/ Serves(j, {"cancelling"}, "cancelled")
    /\ UNCHANGED <<page, cancel, aborted, broken, ghosts>>

Page == Answered \/ AbortSeen \/ Poll \/ Close

Next ==
    \/ Start \/ Page \/ Breaks
    \/ \E c \in Cancels : \/ \E soft \in BOOLEAN : Cancel(c, soft)
                          \/ CancelArrives(c) \/ CancelAnswered(c)
    \/ \E j \in Jobs : Arrives(j) \/ Ends(j)

(* The page's callbacks run, requests arrive and handlers come to an end.  *)
(* Nobody has to press Stop and no connection has to break.                *)
Spec ==
    /\ Init /\ [][Next]_vars
    /\ WF_vars(Start) /\ WF_vars(Page)
    /\ \A j \in Jobs : WF_vars(Arrives(j)) /\ WF_vars(Ends(j))

-----------------------------------------------------------------------------
(* Correctness *)

TypeOK ==
    /\ run \in 0..Batch /\ stopping \in BOOLEAN
    /\ step \in {"idle", "posted", "polling", "closing"}
    /\ run = NoJob <=> step = "idle"
    /\ next \in 1..(Batch + 1) /\ run < next
    /\ told \in [Jobs -> {"nothing", "ok", "cancelled", "failed"}]
    /\ polled \in 0..Polls
    /\ cancel \in [Cancels -> [state : {"unsent", "sent", "arrived", "answered"},
                               target : 0..Batch, soft : BOOLEAN]]
    /\ aborted \subseteq Jobs /\ broken \subseteq Jobs /\ ghosts \subseteq Jobs
    /\ server \in [Jobs -> {"none", "sent", "lost", "running", "cancelling", "refused"} \cup Over]

Hards == {c \in Cancels : cancel[c].state # "unsent" /\ ~cancel[c].soft}

(* A run that is reported as a success, at once or after the connection    *)
(* broke, was completed by the server.                                     *)
OkIsDone == \A j \in Jobs : told[j] = "ok" => server[j] = "done"

(* What the soft cancel is for (job-control.js:346-351): as long as nobody *)
(* presses Stop and no connection breaks, the next job is posted only when *)
(* the server is through with the one before, so none is refused.          *)
SoftIsNeverRefused ==
    Hards = {} /\ broken = {} => \A j \in Jobs : server[j] # "refused"

(* Whatever the page gave up on, the server runs one job at a time         *)
(* (main.py:223).                                                          *)
OneServerJob ==
    \A j, k \in Jobs : Holding(j) /\ Holding(k) => j = k

(* The job that the server runs, and the jobs that it is through with. *)
SlotHolder == IF Held THEN CHOOSE j \in Jobs : Holding(j) ELSE NoJob
Served == {j \in Jobs : server[j] \in Over \cup {"refused"}}

Endpoint == INSTANCE SerialExecutor
    WITH Queued <- {}, Callers <- Jobs, Nobody <- NoJob,
         line <- <<>>, active <- SlotHolder, over <- Served

(* The server that the page meets keeps to what JobQueue implements, too:  *)
(* a slot that a request takes or finds taken, and gives back once,        *)
(* however the page, its cancels and its connections come and go           *)
(* (main.py:223).                                                          *)
ServerIsSerialExecutor == Endpoint!Spec

(* Every run comes to an end for the page, also one whose connection broke *)
(* or that was stopped, and the batch with it.                             *)
BatchEnds == <>[](next > Batch /\ run = NoJob)
=============================================================================
