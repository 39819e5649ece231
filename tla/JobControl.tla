----------------------------- MODULE JobControl -----------------------------
(***************************************************************************)
(* The registry of running operations (app/job_control.py): which tokens   *)
(* are registered and whether their cancel event is set (_jobs), the       *)
(* status shown to the UI for every token ever run (_progress), and the    *)
(* token bound to the event-loop thread (_tls).  Every function below runs *)
(* on the event loop without awaiting, so each is one value transformer on *)
(* the record that holds the three globals.  report_progress changes no    *)
(* status of a token that has a snapshot, and is not an operator here; the *)
(* directory watchers stopped by finish, unregister and request_cancel are *)
(* modelled in DirWatch.                                                   *)
(***************************************************************************)
CONSTANTS
    Tokens,     \* job tokens: queue item ids and tokens of direct requests
    NoToken     \* _tls.token is None

(* A token is absent from _jobs, or present with its event clear or set. *)
JobStates == {"absent", "live", "cancelRequested"}

(* snap["status"], with "none" where _progress has no entry. *)
ProgressStates == {"none", "running", "cancelling", "done", "cancelled", "error"}

Controls == [jobs     : [Tokens -> JobStates],
             progress : [Tokens -> ProgressStates],
             bound    : Tokens \cup {NoToken}]

EmptyControl == [jobs     |-> [t \in Tokens |-> "absent"],
                 progress |-> [t \in Tokens |-> "none"],
                 bound    |-> NoToken]

(* register, then bind, then the first report: run_registered_op's prologue. *)
Registered(c, t) == [jobs     |-> [c.jobs EXCEPT ![t] = "live"],
                     progress |-> [c.progress EXCEPT ![t] = "running"],
                     bound    |-> t]

(* Mutant: unregister forgets the thread-local binding. *)
ClosedStillBound(c, t, final) ==
    [jobs     |-> [c.jobs EXCEPT ![t] = "absent"],
     progress |-> [c.progress EXCEPT ![t] = final],
     bound    |-> c.bound]

(* finish with a final status, then unregister, which keeps that status. *)
Closed(c, t, final) == [jobs     |-> [c.jobs EXCEPT ![t] = "absent"],
                        progress |-> [c.progress EXCEPT ![t] = final],
                        bound    |-> IF c.bound = t THEN NoToken ELSE c.bound]

(* request_cancel: the snapshot is relabelled whether or not the token is  *)
(* still registered; the event is set only when it is.                     *)
CancelRequested(c, t) ==
    [jobs     |-> [c.jobs EXCEPT ![t] = IF @ = "absent" THEN @ ELSE "cancelRequested"],
     progress |-> [c.progress EXCEPT ![t] = IF @ = "none" THEN @ ELSE "cancelling"],
     bound    |-> c.bound]

(* is_cancelled() as a running handler evaluates it, through the binding. *)
IsCancelled(c) == c.bound # NoToken /\ c.jobs[c.bound] = "cancelRequested"

(* The tokens that are registered: the operations under way. *)
InFlight(c) == {t \in Tokens : c.jobs[t] # "absent"}
=============================================================================
