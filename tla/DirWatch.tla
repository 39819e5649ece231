------------------------------ MODULE DirWatch ------------------------------
(***************************************************************************)
(* Directory watchers (app/job_control.py:287-369): real threads that      *)
(* count the frames an opaque subprocess writes and report them under the  *)
(* token of the job.  One job runs several stages one after the other, as  *)
(* video_pipeline.dump and the directory filters do, each between          *)
(* start_dir_watch and stop_dir_watch with the same token.  A thread's     *)
(* step ends where it releases _lock or sleeps; the job's steps run on the *)
(* event loop, between two awaits.                                         *)
(***************************************************************************)
EXTENDS Naturals, FiniteSets, JobControl

CONSTANTS
    Job,       \* the token of the job
    Stages     \* its watched stages 1..Stages, in order

ASSUME JobAssumption == Tokens = {Job} /\ NoToken # Job
ASSUME StagesAssumption == Stages \in Nat \ {0}

Stage == 1..Stages
NoStage == 0

VARIABLES
    ctl,       \* registry of JobControl, for this one token
    op,        \* the job: "unregistered", "between" stages, "watched", "over"
    stage,     \* number of the last stage started
    entry,     \* _watches[Job]: the stage whose record is there, or NoStage
    watcher,   \* each stage's watcher thread
    full,      \* stages whose directory holds all the frames expected
    late       \* reports each watcher made after the job was over; counted to 2

watchVars == <<ctl, op, stage, entry, watcher, full, late>>

WatcherStates == {"none", "look", "scan", "report", "sleep", "exited"}
Final == {"done", "cancelled", "error"}

WatchInit ==
    /\ ctl = EmptyControl
    /\ op = "unregistered"
    /\ stage = NoStage
    /\ entry = NoStage
    /\ watcher = [w \in Stage |-> "none"]
    /\ full = {}
    /\ late = [w \in Stage |-> 0]

-----------------------------------------------------------------------------
(* The job *)

Begin ==
    /\ op = "unregistered"
    /\ ctl' = Registered(ctl, Job)
    /\ op' = "between"
    /\ UNCHANGED <<stage, entry, watcher, full, late>>

(* start_dir_watch just before the subprocess is created *)
StartWatch ==
    /\ op = "between"
    /\ stage < Stages
    /\ ~IsCancelled(ctl)
    /\ stage' = stage + 1
    /\ entry' = stage + 1
    /\ watcher' = [watcher EXCEPT ![stage + 1] = "look"]
    /\ op' = "watched"
    /\ UNCHANGED <<ctl, full, late>>

(* The subprocess is over: stop_dir_watch in the finally clause. *)
StopWatch ==
    /\ op = "watched"
    /\ entry' = NoStage
    /\ op' = "between"
    /\ UNCHANGED <<ctl, stage, watcher, full, late>>

(* Mutant: finish without stop_dir_watch. *)
FinishUnstopped(final) ==
    /\ op = "between" \/ (op = "watched" /\ final = "error")
    /\ final = "cancelled" => IsCancelled(ctl)
    /\ ctl' = Closed(ctl, Job, final)
    /\ op' = "over"
    /\ UNCHANGED <<stage, entry, watcher, full, late>>

(* finish and unregister at the end of the handler.  They stop the watch   *)
(* too: a subprocess that cannot be created raises after start_dir_watch   *)
(* and before the try whose finally clause would stop it.                  *)
Finish(final) ==
    /\ op = "between" \/ (op = "watched" /\ final = "error")
    /\ final = "cancelled" => IsCancelled(ctl)
    /\ ctl' = Closed(ctl, Job, final)
    /\ entry' = NoStage
    /\ op' = "over"
    /\ UNCHANGED <<stage, watcher, full, late>>

(* request_cancel for a token that has a snapshot *)
Cancel ==
    /\ ctl.progress[Job] # "none"
    /\ ctl' = CancelRequested(ctl, Job)
    /\ entry' = NoStage
    /\ UNCHANGED <<op, stage, watcher, full, late>>

(* External: the subprocess has written the last frame expected. *)
Fills(w) ==
    /\ op = "watched" /\ stage = w
    /\ full' = full \cup {w}
    /\ UNCHANGED <<ctl, op, stage, entry, watcher, late>>

-----------------------------------------------------------------------------
(* A watcher thread *)

WatcherGoes(w, from, to) == watcher[w] = from /\ watcher' = [watcher EXCEPT ![w] = to]

(* The record is looked up by token: whoever's it is, it keeps w alive. *)
Look(w) ==
    /\ IF entry = NoStage THEN WatcherGoes(w, "look", "exited") ELSE WatcherGoes(w, "look", "scan")
    /\ UNCHANGED <<ctl, op, stage, entry, full, late>>

(* is_cancelled(token), then the scan, which takes no lock *)
CountFrames(w) ==
    /\ IF ctl.jobs[Job] = "cancelRequested"
       THEN WatcherGoes(w, "scan", "exited")
       ELSE WatcherGoes(w, "scan", "report")
    /\ UNCHANGED <<ctl, op, stage, entry, full, late>>

(* report_progress never touches a status that is already set; the thread  *)
(* ends once the directory is complete.                                    *)
Report(w) ==
    /\ WatcherGoes(w, "report", IF w \in full THEN "exited" ELSE "sleep")
    /\ late' = [late EXCEPT ![w] = IF op = "over" /\ @ < 2 THEN @ + 1 ELSE @]
    /\ UNCHANGED <<ctl, op, stage, entry, full>>

Wake(w) ==
    /\ WatcherGoes(w, "sleep", "look")
    /\ UNCHANGED <<ctl, op, stage, entry, full, late>>

Watcher(w) == Look(w) \/ CountFrames(w) \/ Report(w) \/ Wake(w)

WatchNext ==
    \/ Begin \/ StartWatch \/ StopWatch \/ Cancel
    \/ \E final \in Final : Finish(final)
    \/ \E w \in Stage : Fills(w) \/ Watcher(w)

(* Threads are scheduled by the operating system; nothing else is assumed. *)
WatchSpec == WatchInit /\ [][WatchNext]_watchVars /\ \A w \in Stage : WF_watchVars(Watcher(w))

-----------------------------------------------------------------------------
(* Correctness *)

WatchTypeOK ==
    /\ ctl \in Controls
    /\ op \in {"unregistered", "between", "watched", "over"}
    /\ stage \in 0..Stages
    /\ entry \in Stage \cup {NoStage}
    /\ watcher \in [Stage -> WatcherStates]
    /\ full \subseteq Stage
    /\ late \in [Stage -> Nat]

(* The record in _watches is always the running stage's: it never survives *)
(* the subprocess it was made for, so no thread is kept alive by a stage   *)
(* that is over.                                                           *)
EntryIsCurrent == entry # NoStage => op = "watched" /\ entry = stage

(* A watcher caught between its check and its report writes over the       *)
(* snapshot of a finished job, but once only.                              *)
AtMostOneLateReport == \A w \in Stage : late[w] <= 1

(* When the job is over every watcher thread ends: none polls a directory  *)
(* for the rest of the process's life.                                     *)
NoThreadOutlivesJob ==
    op = "over" ~> \A w \in Stage : watcher[w] \in {"none", "exited"}
=============================================================================
