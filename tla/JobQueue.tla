------------------------------ MODULE JobQueue ------------------------------
(***************************************************************************)
(* The FIFO job queue and the single execution slot it shares with direct  *)
(* POST /ops/* requests: app/job_queue.py, app/op_runner.py and the        *)
(* endpoint of app/main.py, on top of JobControl.                          *)
(*                                                                         *)
(* Everything runs on one asyncio event loop, so a step is the code        *)
(* between two points where a coroutine really suspends: the worker's      *)
(* _wake.wait(), `await spec.handler(params)` and the history hook         *)
(* `await media.record_operation(...)`.  The bodies guarded by `async with *)
(* _lock` contain no await and never find the lock taken, so they suspend  *)
(* nowhere.  In particular the worker goes from the end of one job to the  *)
(* first await of the next handler in a single step.                       *)
(***************************************************************************)
EXTENDS Integers, Sequences, FiniteSets, JobControl

CONSTANTS
    Items,        \* ids of queue items; enqueue draws a fresh uuid for each
    Directs,      \* tokens of direct requests, one per request
    BadBody,      \* items whose body params_model(**body) rejects
    HISTORY_CAP   \* finished items kept for the Jobs tab (50 in the code)

ASSUME TokensAssumption == /\ Tokens = Items \cup Directs
                           /\ Items \cap Directs = {}
                           /\ NoToken \notin Tokens
ASSUME BodyAssumption == BadBody \subseteq Items
ASSUME CapAssumption == HISTORY_CAP \in Nat \ {0}

VARIABLES
    pending,      \* _pending: the deque of waiting items
    running,      \* _running: the item the worker holds, or NoToken
    directBusy,   \* _direct_busy
    gate,         \* _direct_gate.locked()
    wake,         \* _wake.is_set()
    history,      \* _history: finished items, newest first
    status,       \* QueueItem.status, "none" before the item exists
    worker,       \* where the worker task is suspended
    outcome,      \* result held by the worker while it records it
    direct,       \* where each direct request is
    ctl           \* the globals of JobControl

vars == <<pending, running, directBusy, gate, wake, history, status,
          worker, outcome, direct, ctl>>

Settled == {"done", "failed", "cancelled"}
Statuses == {"none", "pending", "running"} \cup Settled
WorkerStates == {"waiting", "handler", "recording"}
DirectStates == {"idle", "handler", "recording", "answered", "refused"}
NoOutcome == "none"

(* The progress status finish() is given for a handler outcome. *)
FinalProgress(r) == IF r = "failed" THEN "error" ELSE r

(* Mutant: the endpoint forgets to look at _running. *)
BusyWithoutRunning == directBusy \/ gate

(* is_busy(), which is also the test try_begin_direct makes. *)
Busy == running # NoToken \/ directBusy \/ gate

Elements(q) == {q[n] : n \in 1..Len(q)}

(* del _pending[n] *)
Without(q, n) == SubSeq(q, 1, n - 1) \o SubSeq(q, n + 1, Len(q))

(* _push_history once per item of q, oldest first. *)
Pushed(h, q) ==
    LET all == [n \in 1..Len(q) |-> q[Len(q) + 1 - n]] \o h
    IN  SubSeq(all, 1, IF Len(all) < HISTORY_CAP THEN Len(all) ELSE HISTORY_CAP)

(* What an awaited handler can come back with.  It reports a cancellation  *)
(* only after a check on the bound token's event.                          *)
Results == {"done", "failed"} \cup (IF IsCancelled(ctl) THEN {"cancelled"} ELSE {})

-----------------------------------------------------------------------------
(* HTTP operations on the queue *)

(* POST /api/queue.  The body is not validated here. *)
Enqueue(i) ==
    /\ status[i] = "none"
    /\ pending' = Append(pending, i)
    /\ status' = [status EXCEPT ![i] = "pending"]
    /\ wake' = TRUE
    /\ UNCHANGED <<running, directBusy, gate, history, worker, outcome, direct, ctl>>

(* DELETE /api/queue/{id} *)
RemovePending(n) ==
    /\ n \in 1..Len(pending)
    /\ pending' = Without(pending, n)
    /\ UNCHANGED <<running, directBusy, gate, wake, history, status, worker,
                   outcome, direct, ctl>>

(* POST /api/queue/clear *)
ClearPending ==
    /\ pending # <<>>
    /\ pending' = <<>>
    /\ UNCHANGED <<running, directBusy, gate, wake, history, status, worker,
                   outcome, direct, ctl>>

(* POST /api/queue/{id}/cancel of a waiting item *)
CancelPending(n) ==
    /\ n \in 1..Len(pending)
    /\ pending' = Without(pending, n)
    /\ status' = [status EXCEPT ![pending[n]] = "cancelled"]
    /\ history' = Pushed(history, <<pending[n]>>)
    /\ UNCHANGED <<running, directBusy, gate, wake, worker, outcome, direct, ctl>>

(* The same request for the item the worker holds. *)
CancelRunning ==
    /\ running # NoToken
    /\ ctl' = CancelRequested(ctl, running)
    /\ UNCHANGED <<pending, running, directBusy, gate, wake, history, status,
                   worker, outcome, direct>>

(* POST /api/cancel with a token the client has used *)
CancelToken(t) ==
    /\ ctl.progress[t] # "none"
    /\ ctl' = CancelRequested(ctl, t)
    /\ UNCHANGED <<pending, running, directBusy, gate, wake, history, status,
                   worker, outcome, direct>>

-----------------------------------------------------------------------------
(* The worker task *)

(* The inner loop of the worker from its head to its next suspension, with *)
(* h, s, c and w the history, the statuses, the registry and the wake flag *)
(* on entry.  The first k items fail because their body is rejected, which *)
(* suspends nowhere; what follows is Settles or Starts.                    *)
AfterRejecting(s, k) ==
    [i \in Items |-> IF i \in {pending[n] : n \in 1..k} THEN "failed" ELSE s[i]]

(* Nothing to start: the worker falls back to _wake.wait().  While the flag *)
(* is set that returns at once, the worker clears it, finds nothing again,  *)
(* and only then suspends.                                                  *)
Settles(s, c, k) ==
    /\ k = Len(pending) \/ directBusy
    /\ pending' = SubSeq(pending, k + 1, Len(pending))
    /\ status' = AfterRejecting(s, k)
    /\ running' = NoToken
    /\ worker' = "waiting"
    /\ wake' = FALSE
    /\ ctl' = c

(* The next item is popped, registered and its handler called. *)
Starts(s, c, w, k) ==
    /\ k < Len(pending)
    /\ ~directBusy
    /\ pending[k + 1] \notin BadBody
    /\ pending' = SubSeq(pending, k + 2, Len(pending))
    /\ status' = [AfterRejecting(s, k) EXCEPT ![pending[k + 1]] = "running"]
    /\ running' = pending[k + 1]
    /\ worker' = "handler"
    /\ wake' = (w \/ k > 0)
    /\ ctl' = Registered(c, pending[k + 1])

Drain(h, s, c, w) ==
    /\ \E k \in 0..Len(pending) :
         /\ \A n \in 1..k : pending[n] \in BadBody
         /\ directBusy => k = 0
         /\ Settles(s, c, k) \/ Starts(s, c, w, k)
         /\ history' = Pushed(h, SubSeq(pending, 1, k))
    /\ outcome' = NoOutcome
    /\ UNCHANGED <<directBusy, gate, direct>>

WorkerResumes ==
    /\ worker = "waiting"
    /\ wake
    /\ Drain(history, status, ctl, FALSE)

(* The handler of the queued item returned, or raised a cancellation. *)
QueuedReturns(r) ==
    /\ worker = "handler"
    /\ r \in Results
    /\ ctl' = Closed(ctl, running, FinalProgress(r))
    /\ outcome' = r
    /\ worker' = "recording"
    /\ UNCHANGED <<pending, running, directBusy, gate, wake, history, status, direct>>

(* It raised anything else: no history hook, the item fails at once. *)
QueuedRaises ==
    /\ worker = "handler"
    /\ Drain(Pushed(history, <<running>>),
             [status EXCEPT ![running] = "failed"],
             Closed(ctl, running, "error"), TRUE)

(* Mutant: the worker takes one item per wake-up. *)
QueuedRecordedOneShot ==
    /\ worker = "recording"
    /\ history' = Pushed(history, <<running>>)
    /\ status' = [status EXCEPT ![running] = outcome]
    /\ running' = NoToken
    /\ worker' = "waiting"
    /\ wake' = TRUE
    /\ outcome' = NoOutcome
    /\ UNCHANGED <<pending, directBusy, gate, direct, ctl>>

(* record_operation came back: _run_one ends and the loop goes on. *)
QueuedRecorded ==
    /\ worker = "recording"
    /\ Drain(Pushed(history, <<running>>),
             [status EXCEPT ![running] = outcome], ctl, TRUE)

-----------------------------------------------------------------------------
(* Direct requests: POST /ops/{id} *)

DirectRefused(d) ==
    /\ direct[d] = "idle"
    /\ Busy
    /\ direct' = [direct EXCEPT ![d] = "refused"]
    /\ UNCHANGED <<pending, running, directBusy, gate, wake, history, status,
                   worker, outcome, ctl>>

DirectBegins(d) ==
    /\ direct[d] = "idle"
    /\ ~Busy
    /\ directBusy' = TRUE
    /\ gate' = TRUE
    /\ ctl' = Registered(ctl, d)
    /\ direct' = [direct EXCEPT ![d] = "handler"]
    /\ UNCHANGED <<pending, running, wake, history, status, worker, outcome>>

DirectReturns(d, r) ==
    /\ direct[d] = "handler"
    /\ r \in Results
    /\ ctl' = Closed(ctl, d, FinalProgress(r))
    /\ direct' = [direct EXCEPT ![d] = "recording"]
    /\ UNCHANGED <<pending, running, directBusy, gate, wake, history, status,
                   worker, outcome>>

(* Mutant: end_direct does not wake the worker. *)
EndDirectSilently(d) ==
    /\ directBusy' = FALSE
    /\ gate' = FALSE
    /\ direct' = [direct EXCEPT ![d] = "answered"]
    /\ UNCHANGED <<pending, running, wake, history, status, worker, outcome>>

(* end_direct, then the response. *)
EndDirect(d) ==
    /\ directBusy' = FALSE
    /\ gate' = FALSE
    /\ wake' = TRUE
    /\ direct' = [direct EXCEPT ![d] = "answered"]
    /\ UNCHANGED <<pending, running, history, status, worker, outcome>>

DirectRaises(d) ==
    /\ direct[d] = "handler"
    /\ ctl' = Closed(ctl, d, "error")
    /\ EndDirect(d)

DirectRecorded(d) ==
    /\ direct[d] = "recording"
    /\ EndDirect(d)
    /\ UNCHANGED ctl

-----------------------------------------------------------------------------
Init ==
    /\ pending = <<>>
    /\ running = NoToken
    /\ directBusy = FALSE
    /\ gate = FALSE
    /\ wake = FALSE
    /\ history = <<>>
    /\ status = [i \in Items |-> "none"]
    /\ worker = "waiting"
    /\ outcome = NoOutcome
    /\ direct = [d \in Directs |-> "idle"]
    /\ ctl = EmptyControl

QueueRequest ==
    \/ \E i \in Items : Enqueue(i)
    \/ \E n \in 1..Len(pending) : RemovePending(n) \/ CancelPending(n)
    \/ ClearPending
    \/ CancelRunning
    \/ \E t \in Tokens : CancelToken(t)

WorkerStep ==
    \/ WorkerResumes
    \/ \E r \in Settled : QueuedReturns(r)
    \/ QueuedRaises
    \/ QueuedRecorded

DirectStep(d) ==
    \/ \E r \in Settled : DirectReturns(d, r)
    \/ DirectRaises(d)
    \/ DirectRecorded(d)

Next ==
    \/ QueueRequest
    \/ WorkerStep
    \/ \E d \in Directs : DirectRefused(d) \/ DirectBegins(d) \/ DirectStep(d)

Spec == Init /\ [][Next]_vars

(* The event loop resumes a coroutine that can go on, and a handler ends.  *)
(* Nothing obliges a client to send a request.                             *)
FairSpec ==
    /\ Spec
    /\ WF_vars(WorkerStep)
    /\ \A d \in Directs : WF_vars(DirectStep(d))
-----------------------------------------------------------------------------
(* Correctness *)

TypeOK ==
    /\ pending \in Seq(Items)
    /\ running \in Items \cup {NoToken}
    /\ directBusy \in BOOLEAN
    /\ gate \in BOOLEAN
    /\ wake \in BOOLEAN
    /\ history \in Seq(Items)
    /\ Len(history) <= HISTORY_CAP
    /\ status \in [Items -> Statuses]
    /\ worker \in WorkerStates
    /\ outcome \in Settled \cup {NoOutcome}
    /\ direct \in [Directs -> DirectStates]
    /\ ctl \in Controls

Active(d) == direct[d] \in {"handler", "recording"}

(* At most one operation is between its first step and its last, counting  *)
(* the history hook: the worker and the direct requests exclude each other *)
(* though the worker never takes the gate and tests only _direct_busy      *)
(* (job_queue.py:235), and the endpoint only looks at flags (line 58).     *)
SingleFlight ==
    /\ \A d, e \in Directs : Active(d) /\ Active(e) => d = e
    /\ worker # "waiting" => \A d \in Directs : ~Active(d)

(* The flags the two sides test agree with where their coroutines are, so  *)
(* no exit path leaves the slot taken by nobody.                           *)
FlagsAgree ==
    /\ running # NoToken <=> worker # "waiting"
    /\ directBusy <=> \E d \in Directs : Active(d)
    /\ gate = directBusy
    /\ ~(running # NoToken /\ directBusy)

(* A token is registered exactly while its handler runs, and it is then    *)
(* the one bound to the loop's thread: a cancellation is seen by the       *)
(* operation it was sent to and by no later one.                           *)
CancelReachesItsJob ==
    LET inHandler == {d \in Directs : direct[d] = "handler"}
                        \cup (IF worker = "handler" THEN {running} ELSE {})
    IN  /\ InFlight(ctl) = inHandler
        /\ \A t \in inHandler : ctl.bound = t
        /\ inHandler = {} => ctl.bound = NoToken

(* A worker asleep beside a waiting item and an idle engine has been told. *)
NoLostWakeup ==
    worker = "waiting" /\ pending # <<>> /\ ~directBusy => wake

(* Waiting and held items are still owed an outcome. *)
Owed(i) == i \in Elements(pending) \/ running = i

(* An item that was added is eventually started and finished, or removed,  *)
(* although each direct request may delay it.                              *)
EveryItemLeaves == \A i \in Items : Owed(i) ~> ~Owed(i)

-----------------------------------------------------------------------------
(* The queue and the endpoint implement one serial executor. *)

SlotHolder ==
    IF running # NoToken THEN running
    ELSE IF directBusy THEN CHOOSE d \in Directs : Active(d)
    ELSE NoToken

Gone == {i \in Items : status[i] # "none" /\ ~Owed(i)}
        \cup {d \in Directs : direct[d] \in {"answered", "refused"}}

Executor == INSTANCE SerialExecutor
    WITH Queued <- Items, Callers <- Directs, Nobody <- NoToken,
         line <- pending, active <- SlotHolder, over <- Gone

(* First come first served, one at a time, no gap between queued items,    *)
(* callers refused only while the slot is taken, nobody served twice.      *)
ImplementsSerialExecutor == Executor!Spec
=============================================================================
