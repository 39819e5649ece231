------------------------- MODULE ServerThreadsProofs -------------------------
(***************************************************************************)
(* Theorems about the three components that work beside the event loop:    *)
(* the folder watcher, for any files, API calls and restarts; the          *)
(* directory watchers of a job, for any number of stages; and the external *)
(* engines of the directory stages, for any jobs and any pipe.             *)
(***************************************************************************)
EXTENDS FolderWatcher, DirWatch, EngineStage, TLAPS

-----------------------------------------------------------------------------
(* The folder watcher                                                      *)

(* Where a file is while it is worked on, and what attempts says of it *)

Working == thread \in {"prepare", "encode", "move", "settle"}
Started(f) == thread \in {"encode", "move", "settle"} /\ current.file = f

(* A candidate has not been processed; the current file is neither. *)
Apart ==
    /\ candidates \cap processed = {}
    /\ Working => current.file \in Files \ (candidates \cup processed)

(* A file not processed yet has been given to ffmpeg by the attempts that  *)
(* an exception ended, and by one more if it is the current one.           *)
Counted ==
    \A f \in Files : f \notin processed
                     => attempts[f] = escaped[f] + (IF Started(f) THEN 1 ELSE 0)

(* The original is moved after its transcode has been published. *)
Published == thread = "move" => <<current.file, current.version>> \in outputs

(* ffmpeg works on a version that was written; the file can only get newer *)
(* ones.                                                                   *)
Newer ==
    /\ \A f \in Files : source[f] <= written[f]
    /\ thread \in {"encode", "move"}
       => /\ current.version <= written[current.file]
          /\ source[current.file] = Absent \/ current.version <= source[current.file]

IInv == TypeOK /\ Apart /\ Counted /\ OneAttempt /\ Published /\ Newer

USE DirAssumption, FileAssumption, BoundAssumption

LEMMA InitIInv == Init => IInv
<1> SUFFICES ASSUME Init PROVE IInv
  OBVIOUS
<1> USE DEF Init, Versions, Absent
<1>1. [f \in Files |-> 0] \in [Files -> Versions] /\ NoWork \in Work
  BY DEF NoWork, Work
<1>2. TypeOK
  BY <1>1 DEF TypeOK, ThreadStates
<1>3. Apart /\ Counted /\ OneAttempt /\ Published /\ Newer
  BY DEF Apart, Counted, OneAttempt, Published, Newer, Working, Started
<1> QED BY <1>2, <1>3 DEF IInv

-----------------------------------------------------------------------------
(* Steps of the API and of the rest of the world leave the bookkeeping of  *)
(* the thread alone.                                                       *)

LEMMA ApiIInv ==
    ASSUME IInv,
           \/ \E d \in Dirs : SwitchOn(d)
           \/ \E d \in Dirs \cup {NoDir} : SwitchOff(d)
           \/ SwitchOnRefused \/ Api \/ \E f \in Files : Drop(f)
    PROVE  IInv'
<1> USE DEF IInv, TypeOK, Versions, ThreadStates, apiVars, diskVars, runVars, workVars
<1>1. TypeOK'
  <2>1. ASSUME NEW d \in Dirs, SwitchOn(d) PROVE TypeOK'
    BY <2>1 DEF SwitchOn, Call
  <2>2. ASSUME NEW d \in Dirs \cup {NoDir}, SwitchOff(d) PROVE TypeOK'
    BY <2>2 DEF SwitchOff, Call
  <2>3. CASE SwitchOnRefused
    BY <2>3 DEF SwitchOnRefused, Call
  <2>4. CASE StopSet
    BY <2>4 DEF StopSet
  <2>5. CASE EnsureClear
    BY <2>5 DEF EnsureClear
  <2>6. CASE EnsureStart
    BY <2>6 DEF EnsureStart, Alive
  <2>7. ASSUME NEW f \in Files, Drop(f) PROVE TypeOK'
    BY <2>7 DEF Drop, Absent
  <2> QED BY <2>1, <2>2, <2>3, <2>4, <2>5, <2>6, <2>7 DEF Api
<1>2. /\ UNCHANGED <<candidates, current, processed, attempts, escaped, outputs>>
      /\ thread' = thread \/ (thread \in {"none", "dead"} /\ thread' = "check")
  BY DEF SwitchOn, SwitchOff, SwitchOnRefused, Api, StopSet, EnsureClear, EnsureStart, Drop, Alive
<1>3. Newer'
  <2>1. ASSUME NEW f \in Files, Drop(f) PROVE Newer'
    BY <1>2, <2>1 DEF Drop, Newer, Apart, Working, Work, Absent
  <2>2. CASE UNCHANGED <<source, written>>
    BY <1>2, <2>2 DEF Newer
  <2> QED BY <2>1, <2>2 DEF SwitchOn, SwitchOff, SwitchOnRefused, Api, StopSet, EnsureClear, EnsureStart
<1> QED BY <1>1, <1>2, <1>3 DEF Apart, Counted, OneAttempt, Published, Working, Started

-----------------------------------------------------------------------------
(* Steps of the thread *)

LEMMA LoopIInv == ASSUME IInv, Loop PROVE IInv'
<1> USE DEF IInv, TypeOK, Versions, Absent, ThreadStates, Work, NoWork, Goes, apiVars, diskVars, runVars, workVars
<1>1. TypeOK'
  <2>1. CASE CheckStop
    BY <2>1 DEF CheckStop
  <2>2. CASE Snapshot
    BY <2>2 DEF Snapshot
  <2>3. CASE Scan
    BY <2>3 DEF Scan
  <2>4. CASE ScanEnds
    BY <2>4 DEF ScanEnds
  <2>5. ASSUME NEW f \in Files, Pick(f) PROVE TypeOK'
    BY <2>5 DEF Pick
  <2>6. CASE PrepareRaises
    BY <2>6 DEF PrepareRaises
  <2>7. CASE Encode
    BY <2>7 DEF Encode, Apart, Working
  <2>8. CASE EncodeFails
    BY <2>8 DEF EncodeFails
  <2>9. CASE Publish
    BY <2>9 DEF Publish, Apart, Working
  <2>10. CASE MoveOriginal
    BY <2>10 DEF MoveOriginal
  <2>11. CASE Settle
    BY <2>11 DEF Settle, Apart, Working
  <2>12. CASE WaitOver
    BY <2>12 DEF WaitOver
  <2>13. CASE Leave
    BY <2>13 DEF Leave
  <2>14. CASE Die
    BY <2>14 DEF Die
  <2>15. CASE EncodeRaises
    BY <2>15 DEF EncodeRaises, Apart, Working
  <2> QED BY <2>1, <2>2, <2>3, <2>4, <2>5, <2>6, <2>7, <2>8, <2>9, <2>10, <2>11, <2>12, <2>13, <2>14, <2>15
      DEF Loop
<1>2. Apart'
  <2> USE DEF Apart, Working
  <2>1. CASE CheckStop
    BY <2>1 DEF CheckStop
  <2>2. CASE Snapshot
    BY <2>2 DEF Snapshot
  <2>3. CASE Scan
    BY <2>3 DEF Scan
  <2>4. CASE ScanEnds
    BY <2>4 DEF ScanEnds
  <2>5. ASSUME NEW f \in Files, Pick(f) PROVE Apart'
    BY <2>5 DEF Pick
  <2>6. CASE PrepareRaises
    BY <2>6 DEF PrepareRaises
  <2>7. CASE Encode
    BY <2>7 DEF Encode
  <2>8. CASE EncodeFails
    BY <2>8 DEF EncodeFails
  <2>9. CASE Publish
    BY <2>9 DEF Publish
  <2>10. CASE MoveOriginal
    BY <2>10 DEF MoveOriginal
  <2>11. CASE Settle
    BY <2>11 DEF Settle
  <2>12. CASE WaitOver
    BY <2>12 DEF WaitOver
  <2>13. CASE Leave
    BY <2>13 DEF Leave
  <2>14. CASE Die
    BY <2>14 DEF Die
  <2>15. CASE EncodeRaises
    BY <2>15 DEF EncodeRaises
  <2> QED BY <2>1, <2>2, <2>3, <2>4, <2>5, <2>6, <2>7, <2>8, <2>9, <2>10, <2>11, <2>12, <2>13, <2>14, <2>15
      DEF Loop
<1>3. Counted'
  <2> USE DEF Apart, Counted, Working, Started
  <2>1. CASE CheckStop
    BY <2>1 DEF CheckStop
  <2>2. CASE Snapshot
    BY <2>2 DEF Snapshot
  <2>3. CASE Scan
    BY <2>3 DEF Scan
  <2>4. CASE ScanEnds
    BY <2>4 DEF ScanEnds
  <2>5. ASSUME NEW f \in Files, Pick(f) PROVE Counted'
    BY <2>5 DEF Pick
  <2>6. CASE PrepareRaises
    BY <2>6 DEF PrepareRaises
  <2>7. CASE Encode
    BY <2>7 DEF Encode
  <2>8. CASE EncodeFails
    BY <2>8 DEF EncodeFails
  <2>9. CASE Publish
    BY <2>9 DEF Publish
  <2>10. CASE MoveOriginal
    BY <2>10 DEF MoveOriginal
  <2>11. CASE Settle
    BY <2>11 DEF Settle
  <2>12. CASE WaitOver
    BY <2>12 DEF WaitOver
  <2>13. CASE Leave
    BY <2>13 DEF Leave
  <2>14. CASE Die
    BY <2>14 DEF Die
  <2>15. CASE EncodeRaises
    BY <2>15 DEF EncodeRaises
  <2> QED BY <2>1, <2>2, <2>3, <2>4, <2>5, <2>6, <2>7, <2>8, <2>9, <2>10, <2>11, <2>12, <2>13, <2>14, <2>15
      DEF Loop
<1>4. OneAttempt'
  <2> USE DEF Apart, Counted, OneAttempt, Working, Started
  <2>1. CASE CheckStop
    BY <2>1 DEF CheckStop
  <2>2. CASE Snapshot
    BY <2>2 DEF Snapshot
  <2>3. CASE Scan
    BY <2>3 DEF Scan
  <2>4. CASE ScanEnds
    BY <2>4 DEF ScanEnds
  <2>5. ASSUME NEW f \in Files, Pick(f) PROVE OneAttempt'
    BY <2>5 DEF Pick
  <2>6. CASE PrepareRaises
    BY <2>6 DEF PrepareRaises
  <2>7. CASE Encode
    BY <2>7 DEF Encode
  <2>8. CASE EncodeFails
    BY <2>8 DEF EncodeFails
  <2>9. CASE Publish
    BY <2>9 DEF Publish
  <2>10. CASE MoveOriginal
    BY <2>10 DEF MoveOriginal
  <2>11. CASE Settle
    BY <2>11 DEF Settle
  <2>12. CASE WaitOver
    BY <2>12 DEF WaitOver
  <2>13. CASE Leave
    BY <2>13 DEF Leave
  <2>14. CASE Die
    BY <2>14 DEF Die
  <2>15. CASE EncodeRaises
    BY <2>15 DEF EncodeRaises
  <2> QED BY <2>1, <2>2, <2>3, <2>4, <2>5, <2>6, <2>7, <2>8, <2>9, <2>10, <2>11, <2>12, <2>13, <2>14, <2>15
      DEF Loop
<1>5. Published'
  BY DEF Published, Loop, CheckStop, Snapshot, Scan, ScanEnds, Pick, PrepareRaises, Encode,
         EncodeFails, Publish, EncodeRaises, MoveOriginal, Settle, WaitOver, Leave, Die
<1>6. Newer'
  <2> USE DEF Newer, Apart, Working
  <2>1. CASE CheckStop
    BY <2>1 DEF CheckStop
  <2>2. CASE Snapshot
    BY <2>2 DEF Snapshot
  <2>3. CASE Scan
    BY <2>3 DEF Scan
  <2>4. CASE ScanEnds
    BY <2>4 DEF ScanEnds
  <2>5. ASSUME NEW f \in Files, Pick(f) PROVE Newer'
    BY <2>5 DEF Pick
  <2>6. CASE PrepareRaises
    BY <2>6 DEF PrepareRaises
  <2>7. CASE Encode
    BY <2>7 DEF Encode
  <2>8. CASE EncodeFails
    BY <2>8 DEF EncodeFails
  <2>9. CASE Publish
    BY <2>9 DEF Publish
  <2>10. CASE MoveOriginal
    BY <2>10 DEF MoveOriginal
  <2>11. CASE Settle
    BY <2>11 DEF Settle
  <2>12. CASE WaitOver
    BY <2>12 DEF WaitOver
  <2>13. CASE Leave
    BY <2>13 DEF Leave
  <2>14. CASE Die
    BY <2>14 DEF Die
  <2>15. CASE EncodeRaises
    BY <2>15 DEF EncodeRaises
  <2> QED BY <2>1, <2>2, <2>3, <2>4, <2>5, <2>6, <2>7, <2>8, <2>9, <2>10, <2>11, <2>12, <2>13, <2>14, <2>15
      DEF Loop
<1> QED BY <1>1, <1>2, <1>3, <1>4, <1>5, <1>6

LEMMA NextIInv == IInv /\ [Next]_vars => IInv'
<1> SUFFICES ASSUME IInv, [Next]_vars PROVE IInv'
  OBVIOUS
<1>1. CASE Restart
  <2> USE <1>1 DEF IInv, TypeOK, Versions, Absent, Restart
  <2>1. [f \in Files |-> 0] \in [Files -> Versions] /\ NoWork \in Work
    BY DEF NoWork, Work
  <2>2. TypeOK'
    BY <2>1 DEF ThreadStates, diskVars
  <2>3. Apart' /\ Counted' /\ OneAttempt' /\ Published' /\ Newer'
    BY DEF diskVars, Apart, Counted, OneAttempt, Published, Newer, Working, Started
  <2> QED BY <2>2, <2>3
<1>2. CASE UNCHANGED vars
  BY <1>2 DEF IInv, TypeOK, Versions, ThreadStates, vars, apiVars, diskVars, runVars, workVars,
              Apart, Counted, OneAttempt, Published, Newer, Working, Started
<1> QED BY <1>1, <1>2, ApiIInv, LoopIInv DEF Next

LEMMA Invariance == Spec => []IInv
<1> QED BY InitIInv, NextIInv, PTL DEF Spec

(* Every variable of the watcher keeps to its type, and a watcher that is  *)
(* on always has directories that were validated.                          *)
THEOREM TypeCorrect == Spec => []TypeOK
<1>1. IInv => TypeOK
  BY DEF IInv
<1> QED BY <1>1, Invariance, PTL

(* In one life of the process a file is given to ffmpeg once, and once     *)
(* more for each attempt that an exception ended after ffmpeg had run,     *)
(* however often the watcher is switched off and on and whatever happens   *)
(* in the directory meanwhile.                                             *)
THEOREM NeverTwice == Spec => []OneAttempt
<1>1. IInv => OneAttempt
  BY DEF IInv
<1> QED BY <1>1, Invariance, PTL

(* A version leaves its directory only when a transcode of that version    *)
(* has been published, or, if somebody wrote over the file while ffmpeg    *)
(* read it, of the version ffmpeg was given; whenever the process dies,    *)
(* the watcher is switched off or an attempt ends in an exception.         *)
THEOREM OriginalsSafe == Spec => OriginalNeverLost
<1> DEFINE Leaves(f) == source[f] # Absent /\ source'[f] = Absent
           Transcoded(f) == \/ <<f, source[f]>> \in outputs
                            \/ /\ current.file = f /\ current.version < source[f]
                               /\ <<f, current.version>> \in outputs
           Kept == \A f \in Files : Leaves(f) => Transcoded(f)
<1>1. IInv /\ [Next]_vars => [Kept]_vars
  <2> SUFFICES ASSUME IInv, Next, NEW f \in Files, Leaves(f)
               PROVE  Transcoded(f)
    OBVIOUS
  <2>1. CASE MoveOriginal
    <3>1. f = current.file /\ thread = "move"
      BY <2>1 DEF MoveOriginal, Goes, IInv, TypeOK
    <3>2. <<f, current.version>> \in outputs
      BY <3>1 DEF IInv, Published
    <3>3. source[f] \in Nat /\ current.version \in Nat /\ current.version <= source[f]
      BY <3>1 DEF IInv, TypeOK, Versions, Work, Newer
    <3> QED BY <3>1, <3>2, <3>3
  <2>2. CASE \E g \in Files : Drop(g)
    BY <2>2 DEF Drop, IInv, TypeOK, Versions, Absent
  <2>3. CASE UNCHANGED source
    BY <2>3
  <2>4. MoveOriginal \/ (\E g \in Files : Drop(g)) \/ UNCHANGED source
    BY DEF Next, SwitchOn, SwitchOff, SwitchOnRefused, Api, StopSet, EnsureClear, EnsureStart,
           Loop, CheckStop, Snapshot, Scan, ScanEnds, Pick, PrepareRaises, Encode, EncodeFails,
           Publish, EncodeRaises, Settle, WaitOver, Leave, Die, Restart, diskVars
  <2> QED BY <2>1, <2>2, <2>3, <2>4
<1>2. Kept = (\A f \in Files :
         source[f] # Absent /\ source'[f] = Absent
         => \/ <<f, source[f]>> \in outputs
            \/ /\ current.file = f /\ current.version < source[f]
               /\ <<f, current.version>> \in outputs)
  OBVIOUS
<1> QED BY <1>1, <1>2, Invariance, PTL DEF Spec, OriginalNeverLost

-----------------------------------------------------------------------------
(* The directory watchers of a job                                         *)

USE JobAssumption, StagesAssumption

(* A job that is not over has no outcome yet and no late report. *)
OpenJob ==
    op # "over" => /\ ctl.progress[Job] \notin Final
                   /\ \A w \in Stage : late[w] = 0

(* A watcher that has made its late report has its check still before it,  *)
(* and the check will fail.                                                *)
LateOnce ==
    \A w \in Stage : late[w] = 0 \/ (late[w] = 1 /\ watcher[w] \in {"sleep", "look", "exited"})

WatchIInv == WatchTypeOK /\ EntryIsCurrent /\ OpenJob /\ LateOnce

LEMMA WatchInitIInv == WatchInit => WatchIInv
<1> SUFFICES ASSUME WatchInit PROVE WatchIInv
  OBVIOUS
<1>1. ctl \in Controls /\ ctl.progress[Job] = "none"
  BY DEF WatchInit, EmptyControl, Controls, JobStates, ProgressStates
<1>2. WatchTypeOK
  BY <1>1 DEF WatchInit, WatchTypeOK, Stage, NoStage, WatcherStates
<1>3. EntryIsCurrent /\ OpenJob /\ LateOnce
  BY <1>1 DEF WatchInit, EntryIsCurrent, OpenJob, LateOnce, Final
<1> QED BY <1>2, <1>3 DEF WatchIInv

(* The transformers of the registry keep its type; what they do to the     *)
(* snapshot of the job.                                                    *)
LEMMA RegistrySteps ==
    ASSUME NEW c \in Controls
    PROVE  /\ Registered(c, Job) \in Controls /\ CancelRequested(c, Job) \in Controls
           /\ \A final \in Final : Closed(c, Job, final) \in Controls
           /\ Registered(c, Job).progress[Job] \notin Final
           /\ CancelRequested(c, Job).progress[Job] \in {c.progress[Job], "cancelling"}
  BY DEF Controls, JobStates, ProgressStates, Registered, CancelRequested, Closed, Final

LEMMA JobIInv ==
    ASSUME WatchIInv,
           \/ Begin \/ StartWatch \/ StopWatch \/ Cancel
           \/ \E final \in Final : Finish(final)
           \/ \E w \in Stage : Fills(w)
    PROVE  WatchIInv'
<1> USE RegistrySteps
        DEF WatchIInv, WatchTypeOK, EntryIsCurrent, OpenJob, LateOnce, Stage, NoStage, WatcherStates
<1>1. CASE Begin
  BY <1>1 DEF Begin
<1>2. CASE StartWatch
  BY <1>2 DEF StartWatch
<1>3. CASE StopWatch
  BY <1>3 DEF StopWatch
<1>4. CASE Cancel
  BY <1>4 DEF Cancel, Final
<1>5. ASSUME NEW final \in Final, Finish(final) PROVE WatchIInv'
  BY <1>5 DEF Finish
<1>6. ASSUME NEW w \in Stage, Fills(w) PROVE WatchIInv'
  BY <1>6 DEF Fills
<1> QED BY <1>1, <1>2, <1>3, <1>4, <1>5, <1>6

LEMMA WatcherIInv ==
    ASSUME WatchIInv, NEW w \in Stage, Watcher(w)
    PROVE  WatchIInv' /\ ctl' = ctl
<1> USE DEF WatchIInv, WatchTypeOK, EntryIsCurrent, OpenJob, LateOnce, Stage, NoStage, WatcherStates, WatcherGoes
<1>1. CASE Look(w)
  BY <1>1 DEF Look
<1>2. CASE CountFrames(w)
  BY <1>2 DEF CountFrames
<1>3. CASE Report(w)
  BY <1>3 DEF Report
<1>4. CASE Wake(w)
  BY <1>4 DEF Wake
<1> QED BY <1>1, <1>2, <1>3, <1>4 DEF Watcher

LEMMA WatchInvariance == WatchSpec => []WatchIInv
<1>1. WatchIInv /\ [WatchNext]_watchVars => WatchIInv'
  <2>1. WatchIInv /\ UNCHANGED watchVars => WatchIInv'
    BY DEF watchVars, WatchIInv, WatchTypeOK, EntryIsCurrent, OpenJob, LateOnce
  <2> QED BY <2>1, JobIInv, WatcherIInv DEF WatchNext
<1> QED BY <1>1, WatchInitIInv, PTL DEF WatchSpec

(* The registry, the records and the threads keep to their types. *)
THEOREM WatchTypeCorrect == WatchSpec => []WatchTypeOK
<1>1. WatchIInv => WatchTypeOK
  BY DEF WatchIInv
<1> QED BY <1>1, WatchInvariance, PTL

(* The record in _watches never outlives the subprocess it was made for,   *)
(* whatever cancel requests and failures come in between.                  *)
THEOREM RecordsNeverStale == WatchSpec => []EntryIsCurrent
<1>1. WatchIInv => EntryIsCurrent
  BY DEF WatchIInv
<1> QED BY <1>1, WatchInvariance, PTL

(* No watcher writes more than once over the snapshot of a finished job.   *)
THEOREM OneLateReport == WatchSpec => []AtMostOneLateReport
<1>1. WatchIInv => AtMostOneLateReport
  BY DEF WatchIInv, LateOnce, AtMostOneLateReport
<1> QED BY <1>1, WatchInvariance, PTL

-----------------------------------------------------------------------------
(* The engines of the directory stages                                     *)

USE KindAssumption, OutputAssumption

(* One job in flight; RIFE holds its lock exactly as long as it is. *)
OneInFlight == \A j, k \in Jobs : StageInFlight(j) /\ StageInFlight(k) => j = k

EngineIInv == EngineTypeOK /\ OneInFlight /\ RifeLeavesNothing

LEMMA EngineInitIInv == EngineInit => EngineIInv
<1> SUFFICES ASSUME EngineInit PROVE EngineIInv
  OBVIOUS
<1>1. EngineTypeOK
  <2>1. /\ pc \in [Jobs -> {"idle"}] /\ proc \in [Jobs -> {"none"}]
        /\ unread \in [Jobs -> {0}]
    BY DEF EngineInit
  <2>2. 0 \in 0..PipeCap
    OBVIOUS
  <2> QED BY <2>1, <2>2 DEF EngineInit, EngineTypeOK
<1>2. OneInFlight /\ RifeLeavesNothing
  BY DEF EngineInit, OneInFlight, RifeLeavesNothing, Jobs, StageInFlight, Running, Ended
<1> QED BY <1>1, <1>2 DEF EngineIInv

(* Each action of a job, and what it disturbs. *)
LEMMA EngineNextIInv ==
    ASSUME EngineIInv, EngineNext
    PROVE  EngineIInv'
<1> USE DEF EngineIInv, EngineTypeOK, OneInFlight, RifeLeavesNothing, Jobs, StageInFlight, Running, Ended,
            Moves, Locks, Unlocks
<1> PICK j \in Jobs : \/ Enter(j) \/ Coroutine(j) \/ Stop(j)
                      \/ EngineWrites(j) \/ EngineExits(j)
  BY DEF EngineNext
<1>1. CASE Enter(j)
  BY <1>1 DEF Enter
<1>2. CASE Spawned(j)
  BY <1>2 DEF Spawned
<1>3. CASE SpawnFails(j)
  BY <1>3 DEF SpawnFails
<1>4. CASE RifeCancelled(j)
  BY <1>4 DEF RifeCancelled
<1>5. CASE UpscaleCancelled(j)
  BY <1>5 DEF UpscaleCancelled
<1>6. CASE Reaped(j)
  BY <1>6 DEF Reaped
<1>7. CASE Collected(j)
  <2>1. PICK to \in {"done", "failed"} : pc[j] = "polling" /\ pc' = [pc EXCEPT ![j] = to]
    BY <1>7 DEF Collected
  <2>2. UNCHANGED <<proc, unread, asked>> /\ proc[j] = "exited"
    BY <1>7 DEF Collected
  <2>3. IF j \in Rife THEN lock' = FALSE ELSE UNCHANGED lock
    BY <1>7 DEF Collected
  <2>4. EngineTypeOK'
    BY <2>1, <2>2, <2>3
  <2>5. \A k \in Jobs : ~StageInFlight(k)'
    BY <2>1
  <2> QED BY <2>1, <2>2, <2>3, <2>4, <2>5
<1>8. CASE Stop(j)
  BY <1>8 DEF Stop
<1>9. CASE EngineWrites(j)
  BY <1>9 DEF EngineWrites
<1>10. CASE EngineExits(j)
  BY <1>10 DEF EngineExits
<1> QED BY <1>1, <1>2, <1>3, <1>4, <1>5, <1>6, <1>7, <1>8, <1>9, <1>10 DEF Coroutine

LEMMA EngineInvariance == EngineSpec => []EngineIInv
<1>1. EngineIInv /\ [EngineNext]_engineVars => EngineIInv'
  <2>1. EngineIInv /\ UNCHANGED engineVars => EngineIInv'
    BY DEF engineVars, EngineIInv, EngineTypeOK, OneInFlight, RifeLeavesNothing, StageInFlight, Running
  <2> QED BY <2>1, EngineNextIInv
<1> QED BY <1>1, EngineInitIInv, PTL DEF EngineSpec

(* The coroutines, the engines and the pipes keep to their types; no       *)
(* engine writes more than its pipe holds.                                 *)
THEOREM EngineTypeCorrect == EngineSpec => []EngineTypeOK
<1>1. EngineIInv => EngineTypeOK
  BY DEF EngineIInv
<1> QED BY <1>1, EngineInvariance, PTL

(* A RIFE job that is over, stopped, failed or done, has left no engine    *)
(* behind, and the lock is held exactly while one is in flight.            *)
THEOREM NothingLeft == EngineSpec => []RifeLeavesNothing
<1>1. EngineIInv => RifeLeavesNothing
  BY DEF EngineIInv
<1> QED BY <1>1, EngineInvariance, PTL

(* Two RIFE engines never run together, however jobs are stopped and       *)
(* started after one another.                                              *)
THEOREM EnginesAlone == EngineSpec => []OneRifeEngine
<1>1. EngineIInv => OneRifeEngine
  BY DEF EngineIInv, EngineTypeOK, OneInFlight, RifeLeavesNothing, OneRifeEngine, StageInFlight, Running,
         Jobs, Ended
<1> QED BY <1>1, EngineInvariance, PTL
=============================================================================
