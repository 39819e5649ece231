---------------------------- MODULE EngineStage -----------------------------
(***************************************************************************)
(* Directory engines: the stages that hand a folder of frames to an        *)
(* external GPU program and wait for it (app/filters/rife.py,              *)
(* app/filters/upscale.py).  The coroutine polls the process every half    *)
(* second so that a Stop request is seen, and reads its output only after  *)
(* it has exited.  Jobs hold the execution slot of JobQueue one at a time; *)
(* the engine process is external and runs beside the event loop.          *)
(***************************************************************************)
EXTENDS Naturals, FiniteSets

CONSTANTS
    Rife,      \* jobs whose stage is run_rife_directory
    Upscale,   \* jobs whose stage is run_upscale_directory
    Output,    \* amount of output each engine writes before it exits
    PipeCap    \* what the pipe and the unread StreamReader can hold

Jobs == Rife \cup Upscale

ASSUME KindAssumption == Rife \cap Upscale = {}
ASSUME OutputAssumption == Output \in [Jobs -> Nat] /\ PipeCap \in Nat

VARIABLES
    pc,        \* where the coroutine of each job is
    proc,      \* the engine process of each job
    unread,    \* output it has written, all of it unread until it exits
    asked,     \* jobs a Stop request was sent for while they ran
    lock       \* _rife_lock.locked()

engineVars == <<pc, proc, unread, asked, lock>>

Ended == {"done", "failed", "cancelled"}
StageInFlight(j) == pc[j] \notin {"idle"} \cup Ended
Running(j) == proc[j] \in {"running", "dying"}

EngineInit ==
    /\ pc = [j \in Jobs |-> "idle"]
    /\ proc = [j \in Jobs |-> "none"]
    /\ unread = [j \in Jobs |-> 0]
    /\ asked = {}
    /\ lock = FALSE

Moves(j, from, to) == pc[j] = from /\ pc' = [pc EXCEPT ![j] = to]

(* async with _get_rife_lock(), and its exit on every path *)
Locks(j) == j \in Rife /\ ~lock /\ lock' = TRUE
Unlocks(j) == IF j \in Rife THEN lock' = FALSE ELSE UNCHANGED lock

-----------------------------------------------------------------------------
(* The coroutine *)

(* The slot is free, and so is the RIFE lock; check_cancelled passes and   *)
(* the stage goes on to create_subprocess_exec, which it awaits.           *)
Enter(j) ==
    /\ \A k \in Jobs : ~StageInFlight(k)
    /\ Moves(j, "idle", "spawning")
    /\ IF j \in Rife THEN Locks(j) ELSE UNCHANGED lock
    /\ UNCHANGED <<proc, unread, asked>>

Spawned(j) ==
    /\ Moves(j, "spawning", "polling")
    /\ proc' = [proc EXCEPT ![j] = "running"]
    /\ UNCHANGED <<unread, asked, lock>>

SpawnFails(j) ==
    /\ Moves(j, "spawning", "failed")
    /\ Unlocks(j)
    /\ UNCHANGED <<proc, unread, asked>>

(* Mutant: the process is waited for without being killed. *)
RifeCancelledUnkilled(j) ==
    /\ j \in Rife
    /\ j \in asked
    /\ proc[j] = "running"
    /\ Moves(j, "polling", "killing")
    /\ UNCHANGED <<proc, unread, asked, lock>>

(* Mutant: JobCancelled is not in the except clause of rife.py. *)
RifeCancelledUncaught(j) ==
    /\ j \in Rife
    /\ j \in asked
    /\ proc[j] = "running"
    /\ Moves(j, "polling", "cancelled")
    /\ lock' = FALSE
    /\ UNCHANGED <<proc, unread, asked>>

(* check_cancelled raises JobCancelled in the polling loop.  rife.py:143   *)
(* catches it and kills the process.                                       *)
RifeCancelled(j) ==
    /\ j \in Rife
    /\ j \in asked
    /\ proc[j] = "running"
    /\ Moves(j, "polling", "killing")
    /\ proc' = [proc EXCEPT ![j] = "dying"]
    /\ UNCHANGED <<unread, asked, lock>>

(* upscale.py:163 catches only asyncio.CancelledError. *)
UpscaleCancelled(j) ==
    /\ j \in Upscale
    /\ j \in asked
    /\ proc[j] = "running"
    /\ Moves(j, "polling", "cancelled")
    /\ UNCHANGED <<proc, unread, asked, lock>>

(* Mutant: the cleanup takes the lock that the coroutine holds already. *)
ReapedRelocking(j) ==
    /\ proc[j] = "exited"
    /\ ~lock
    /\ Moves(j, "killing", "cancelled")
    /\ UNCHANGED <<proc, unread, asked, lock>>

(* await proc.wait() after the kill *)
Reaped(j) ==
    /\ proc[j] = "exited"
    /\ Moves(j, "killing", "cancelled")
    /\ Unlocks(j)
    /\ UNCHANGED <<proc, unread, asked>>

(* The process is seen to have exited; a Stop that came since the last     *)
(* poll is not looked at.  A bad exit code or an empty folder is a failure. *)
Collected(j) ==
    /\ proc[j] = "exited"
    /\ \E to \in {"done", "failed"} : Moves(j, "polling", to)
    /\ Unlocks(j)
    /\ UNCHANGED <<proc, unread, asked>>

(* request_cancel while the job is registered *)
Stop(j) ==
    /\ StageInFlight(j)
    /\ asked' = asked \cup {j}
    /\ UNCHANGED <<pc, proc, unread, lock>>

-----------------------------------------------------------------------------
(* External: the engine process.  It blocks when the pipe is full.         *)

EngineWrites(j) ==
    /\ proc[j] = "running"
    /\ unread[j] < Output[j]
    /\ unread[j] < PipeCap
    /\ unread' = [unread EXCEPT ![j] = @ + 1]
    /\ UNCHANGED <<pc, proc, asked, lock>>

EngineExits(j) ==
    /\ \/ proc[j] = "running" /\ unread[j] = Output[j]
       \/ proc[j] = "dying"
    /\ proc' = [proc EXCEPT ![j] = "exited"]
    /\ UNCHANGED <<pc, unread, asked, lock>>

-----------------------------------------------------------------------------
Coroutine(j) ==
    \/ Spawned(j) \/ SpawnFails(j) \/ RifeCancelled(j) \/ UpscaleCancelled(j)
    \/ Reaped(j) \/ Collected(j)

EngineNext ==
    \E j \in Jobs : \/ Enter(j) \/ Coroutine(j) \/ Stop(j)
                    \/ EngineWrites(j) \/ EngineExits(j)

(* The coroutine wakes from its half-second sleep; the engine makes        *)
(* progress unless it is blocked on its pipe.  No job has to be started    *)
(* and no Stop has to be sent.                                             *)
EngineSpec ==
    /\ EngineInit /\ [][EngineNext]_engineVars
    /\ \A j \in Jobs : /\ WF_engineVars(Coroutine(j))
                       /\ WF_engineVars(EngineWrites(j))
                       /\ WF_engineVars(EngineExits(j))

-----------------------------------------------------------------------------
(* Correctness *)

EngineTypeOK ==
    /\ pc \in [Jobs -> {"idle", "spawning", "polling", "killing"} \cup Ended]
    /\ proc \in [Jobs -> {"none", "running", "dying", "exited"}]
    /\ unread \in [Jobs -> 0..PipeCap]
    /\ asked \subseteq Jobs
    /\ lock \in BOOLEAN
    /\ \A j \in Jobs : pc[j] \in {"idle", "spawning"} => proc[j] = "none"

(* "never run two Instant/join densifies at once" (rife.py:17): two RIFE   *)
(* engines never run together, whatever was stopped and restarted.         *)
OneRifeEngine == \A j, k \in Rife : Running(j) /\ Running(k) => j = k

(* A RIFE job that is over has no engine left and does not hold the lock.  *)
RifeLeavesNothing ==
    /\ \A j \in Rife : pc[j] \in Ended => ~Running(j)
    /\ lock <=> \E j \in Rife : StageInFlight(j)

(* A job told to stop comes to an end, even if its engine is stuck writing *)
(* to a full pipe.                                                         *)
StopEndsJob == \A j \in Jobs : j \in asked /\ StageInFlight(j) ~> ~StageInFlight(j)

(* An engine whose output fits the pipe always gets its job to an end.     *)
FittingJobEnds == \A j \in Jobs : Output[j] <= PipeCap /\ StageInFlight(j) ~> ~StageInFlight(j)
=============================================================================
