--------------------------- MODULE FolderWatcher ----------------------------
(***************************************************************************)
(* The folder watcher (app/watcher.py): a daemon thread that polls an      *)
(* input directory, transcodes every file whose size has settled and moves *)
(* the original to a "dun" directory, while POST /api/watcher switches it  *)
(* on and off and changes its directories.  The API handler runs on the    *)
(* event loop, so calls of apply_config do not overlap; a step of the      *)
(* thread ends where it releases _lock, calls ffmpeg or touches the disk.  *)
(* A version stands for a file's content and size.                         *)
(***************************************************************************)
EXTENDS Naturals, FiniteSets

CONSTANTS
    Files,        \* paths of video files
    Dirs,         \* directories that pass _validate_dirs_unlocked
    NoDir,        \* a configuration that does not
    Home,         \* the input directory each file lies in
    NoFile,
    MaxVersions,  \* bound: how often each file is written
    MaxCalls,     \* bound: calls of apply_config
    MaxRaises,    \* bound: attempts that end in an exception
    MaxRestarts   \* bound: restarts of the process

ASSUME DirAssumption == NoDir \notin Dirs /\ Home \in [Files -> Dirs]
ASSUME FileAssumption == NoFile \notin Files
ASSUME BoundAssumption ==
    MaxVersions \in Nat /\ MaxCalls \in Nat /\ MaxRaises \in Nat /\ MaxRestarts \in Nat

Absent == 0
Versions == 0..MaxVersions

VARIABLES
    enabled, dir,     \* _state.enabled, _state.in_dir
    processing,       \* _state.processing
    saved,            \* in_dir in data/watcher.json
    stop,             \* the event _stop
    api,              \* what apply_config has still to do outside _lock
    thread,           \* where the thread of _loop is
    scanned,          \* the snapshot of in_dir it works with
    candidates,       \* files of this scan still to be processed
    current,          \* the file and version ffmpeg works on
    ok,               \* what _process_one returns
    seen, ripe,       \* _seen_sizes: version last seen; those seen STABLE_S ago
    processed,        \* _processed_names
    source, dun,      \* version of each file in its directory and in dun/
    written,          \* versions written so far
    outputs,          \* <<file, version>> pairs published
    attempts,         \* ffmpeg runs per file since the process started
    escaped,          \* history: those of them that an exception ended
    calls, raises, restarts

apiVars == <<enabled, dir, saved, stop, api, calls>>
diskVars == <<source, dun, written, outputs>>
runVars == <<attempts, escaped>>
workVars == <<scanned, candidates, current, ok, seen, ripe, processed, runVars>>
vars == <<apiVars, processing, thread, workVars, diskVars, raises, restarts>>

NoWork == [file |-> NoFile, version |-> Absent]
Work == [file : Files \cup {NoFile}, version : Versions]
Alive == thread \notin {"none", "dead"}

Init ==
    /\ enabled = FALSE /\ dir = NoDir /\ processing = NoFile /\ saved = NoDir
    /\ stop = FALSE /\ api = "idle" /\ thread = "none"
    /\ scanned = NoDir /\ candidates = {} /\ current = NoWork /\ ok = FALSE
    /\ seen = [f \in Files |-> Absent] /\ ripe = {} /\ processed = {}
    /\ source = [f \in Files |-> Absent] /\ dun = [f \in Files |-> Absent]
    /\ written = [f \in Files |-> 0] /\ outputs = {}
    /\ attempts = [f \in Files |-> 0] /\ escaped = [f \in Files |-> 0]
    /\ calls = 0 /\ raises = 0 /\ restarts = 0

-----------------------------------------------------------------------------
(* POST /api/watcher *)

Call == api = "idle" /\ calls < MaxCalls /\ calls' = calls + 1

SwitchOn(d) ==
    /\ Call
    /\ d \in Dirs
    /\ enabled' = TRUE /\ dir' = d /\ saved' = d
    /\ api' = "ensureClear"
    /\ UNCHANGED <<processing, stop, thread, workVars, diskVars, raises, restarts>>

(* Directories that do not validate: early return, nothing is saved and    *)
(* _stop is not set.                                                       *)
SwitchOnRefused ==
    /\ Call
    /\ enabled' = FALSE /\ dir' = NoDir
    /\ UNCHANGED <<processing, saved, stop, api, thread, workVars, diskVars, raises, restarts>>

(* Also a change of directory while it is off. *)
SwitchOff(d) ==
    /\ Call
    /\ d \in Dirs \cup {NoDir}
    /\ enabled' = FALSE /\ dir' = d /\ saved' = d /\ processing' = NoFile
    /\ api' = "stop"
    /\ UNCHANGED <<stop, thread, workVars, diskVars, raises, restarts>>

StopSet ==
    /\ api = "stop"
    /\ stop' = TRUE /\ api' = "idle"
    /\ UNCHANGED <<enabled, dir, saved, calls, processing, thread, workVars, diskVars, raises, restarts>>

(* _ensure_thread: _stop.clear(), then is_alive() *)
EnsureClear ==
    /\ api = "ensureClear"
    /\ stop' = FALSE /\ api' = "ensureStart"
    /\ UNCHANGED <<enabled, dir, saved, calls, processing, thread, workVars, diskVars, raises, restarts>>

EnsureStart ==
    /\ api = "ensureStart"
    /\ api' = "idle"
    /\ thread' = IF Alive THEN thread ELSE "check"
    /\ UNCHANGED <<enabled, dir, saved, stop, calls, processing, workVars, diskVars, raises, restarts>>

Api == StopSet \/ EnsureClear \/ EnsureStart

-----------------------------------------------------------------------------
(* The thread: _loop *)

Goes(from, to) == thread = from /\ thread' = to

CheckStop ==
    /\ Goes("check", IF stop THEN "leaving" ELSE "snapshot")
    /\ UNCHANGED <<apiVars, processing, workVars, diskVars, raises, restarts>>

(* Mutant: only _stop ends the thread. *)
SnapshotAlways ==
    /\ Goes("snapshot", "scan")
    /\ scanned' = dir
    /\ UNCHANGED <<apiVars, processing, candidates, current, ok, seen, ripe, processed,
                   runVars, diskVars, raises, restarts>>

Snapshot ==
    /\ Goes("snapshot", IF enabled THEN "scan" ELSE "leaving")
    /\ scanned' = IF enabled THEN dir ELSE scanned
    /\ UNCHANGED <<apiVars, processing, candidates, current, ok, seen, ripe, processed,
                   runVars, diskVars, raises, restarts>>

(* The sizes of this scan; a file whose size changed starts anew, one      *)
(* unchanged for STABLE_S is a candidate unless it was processed before.   *)
(* Files not yet ripe may be old enough all the same: a scan takes time.   *)
Scan ==
    LET here == {f \in Files : Home[f] = scanned /\ source[f] # Absent}
        changed == {f \in here : seen[f] # source[f]}
        settled == here \ changed
    IN /\ Goes("scan", "pick")
       /\ seen' = [f \in Files |-> IF f \in here THEN source[f] ELSE seen[f]]
       /\ ripe' = ripe \ changed
       /\ \E old \in SUBSET settled :
            /\ settled \cap ripe \subseteq old
            /\ candidates' = old \ processed
       /\ UNCHANGED <<apiVars, processing, scanned, current, ok, processed, runVars,
                      diskVars, raises, restarts>>

(* The scan is over, or the watcher was switched off between two files. *)
ScanEnds ==
    /\ candidates = {} \/ ~enabled
    /\ Goes("pick", "wait")
    /\ candidates' = {}
    /\ UNCHANGED <<apiVars, processing, scanned, current, ok, seen, ripe, processed,
                   runVars, diskVars, raises, restarts>>

Pick(f) ==
    /\ enabled /\ f \in candidates
    /\ Goes("pick", "prepare")
    /\ candidates' = candidates \ {f}
    /\ processing' = f
    /\ current' = [file |-> f, version |-> Absent]
    /\ UNCHANGED <<apiVars, scanned, ok, seen, ripe, processed, runVars, diskVars, raises, restarts>>

(* The output directory cannot be made: _loop catches the exception, and   *)
(* processing keeps the name.                                              *)
PrepareRaises ==
    /\ raises < MaxRaises /\ raises' = raises + 1
    /\ Goes("prepare", "wait")
    /\ candidates' = {} /\ current' = NoWork
    /\ UNCHANGED <<apiVars, processing, scanned, ok, seen, ripe, processed, runVars,
                   diskVars, restarts>>

Encode ==
    /\ Goes("prepare", "encode")
    /\ current' = [current EXCEPT !.version = source[current.file]]
    /\ attempts' = [attempts EXCEPT ![current.file] = @ + 1]
    /\ UNCHANGED <<apiVars, processing, scanned, candidates, ok, seen, ripe, processed,
                   escaped, diskVars, raises, restarts>>

(* Mutant: the original is moved away whatever ffmpeg returned. *)
EncodeFailsMoved ==
    /\ Goes("encode", "move")
    /\ ok' = FALSE
    /\ UNCHANGED <<apiVars, processing, scanned, candidates, current, seen, ripe, processed,
                   runVars, diskVars, raises, restarts>>

(* ffmpeg fails or times out; it always does when the file has gone. *)
EncodeFails ==
    /\ Goes("encode", "settle")
    /\ ok' = FALSE
    /\ UNCHANGED <<apiVars, processing, scanned, candidates, current, seen, ripe, processed,
                   runVars, diskVars, raises, restarts>>

(* ffmpeg succeeds and work.replace(dest) publishes the result. *)
Publish ==
    /\ current.version # Absent
    /\ Goes("encode", "move")
    /\ outputs' = outputs \cup {<<current.file, current.version>>}
    /\ ok' = TRUE
    /\ UNCHANGED <<apiVars, processing, scanned, candidates, current, seen, ripe, processed,
                   runVars, source, dun, written, raises, restarts>>

(* ffmpeg has run, and then the partial file cannot be deleted, or neither *)
(* replace nor shutil.move publishes it (the latter may fail when the copy *)
(* is made).  _loop catches the exception: the file is not in              *)
(* _processed_names, processing keeps the name, and the rest of the scan   *)
(* is dropped.                                                             *)
EncodeRaises ==
    LET f == current.file
    IN /\ raises < MaxRaises /\ raises' = raises + 1
       /\ Goes("encode", "wait")
       /\ escaped' = [escaped EXCEPT ![f] = @ + 1]
       /\ \/ UNCHANGED outputs
          \/ current.version # Absent /\ outputs' = outputs \cup {<<f, current.version>>}
       /\ candidates' = {} /\ current' = NoWork
       /\ UNCHANGED <<apiVars, processing, scanned, ok, seen, ripe, processed, attempts,
                      source, dun, written, restarts>>

(* Whatever lies under the name now is moved over what dun/ holds.  A move *)
(* that fails leaves the original.                                         *)
MoveOriginal ==
    LET f == current.file
    IN /\ Goes("move", "settle")
       /\ \/ UNCHANGED <<source, dun>>
          \/ /\ source[f] # Absent
             /\ source' = [source EXCEPT ![f] = Absent]
             /\ dun' = [dun EXCEPT ![f] = source[f]]
       /\ UNCHANGED <<apiVars, processing, workVars, written, outputs, raises, restarts>>

(* Mutant: a file that failed is not put into _processed_names. *)
SettleRetried ==
    LET f == current.file
    IN /\ Goes("settle", "pick")
       /\ processing' = NoFile
       /\ processed' = IF ok THEN processed \cup {f} ELSE processed
       /\ current' = NoWork
       /\ UNCHANGED <<apiVars, scanned, candidates, ok, seen, ripe, runVars, diskVars, raises, restarts>>

Settle ==
    LET f == current.file
    IN /\ Goes("settle", "pick")
       /\ processing' = NoFile
       /\ processed' = processed \cup {f}
       /\ IF ok THEN /\ seen' = [seen EXCEPT ![f] = Absent]
                     /\ ripe' = ripe \ {f}
                ELSE UNCHANGED <<seen, ripe>>
       /\ current' = NoWork
       /\ UNCHANGED <<apiVars, scanned, candidates, ok, runVars, diskVars, raises, restarts>>

(* Mutant: the poll interval is shorter than STABLE_S. *)
WaitTooShort ==
    /\ Goes("wait", "check")
    /\ UNCHANGED <<apiVars, processing, workVars, diskVars, raises, restarts>>

(* _stop.wait(POLL_S): POLL_S > STABLE_S, so a full wait ripens every size *)
(* seen; one cut short by _stop may not.                                   *)
WaitOver ==
    /\ Goes("wait", "check")
    /\ \/ ripe' = {f \in Files : seen[f] # Absent}
       \/ stop /\ UNCHANGED ripe
    /\ UNCHANGED <<apiVars, processing, scanned, candidates, current, ok, seen, processed,
                   runVars, diskVars, raises, restarts>>

Leave ==
    /\ Goes("leaving", "ending")
    /\ processing' = NoFile
    /\ UNCHANGED <<apiVars, workVars, diskVars, raises, restarts>>

(* The function has returned: from here on is_alive() is false. *)
Die ==
    /\ Goes("ending", "dead")
    /\ UNCHANGED <<apiVars, processing, workVars, diskVars, raises, restarts>>

Loop ==
    \/ CheckStop \/ Snapshot \/ Scan \/ ScanEnds \/ \E f \in Files : Pick(f)
    \/ PrepareRaises \/ Encode \/ EncodeFails \/ Publish \/ EncodeRaises \/ MoveOriginal
    \/ Settle \/ WaitOver \/ Leave \/ Die

-----------------------------------------------------------------------------
(* External: somebody drops a file or writes over it. *)
Drop(f) ==
    /\ written[f] < MaxVersions
    /\ written' = [written EXCEPT ![f] = @ + 1]
    /\ source' = [source EXCEPT ![f] = written[f] + 1]
    /\ UNCHANGED <<apiVars, processing, thread, workVars, dun, outputs, raises, restarts>>

(* The process dies and starts again: _load_config, always switched off. *)
Restart ==
    /\ restarts < MaxRestarts /\ restarts' = restarts + 1
    /\ enabled' = FALSE /\ dir' = saved /\ processing' = NoFile
    /\ stop' = FALSE /\ api' = "idle" /\ thread' = "none"
    /\ scanned' = NoDir /\ candidates' = {} /\ current' = NoWork /\ ok' = FALSE
    /\ seen' = [f \in Files |-> Absent] /\ ripe' = {} /\ processed' = {}
    /\ attempts' = [f \in Files |-> 0] /\ escaped' = [f \in Files |-> 0]
    /\ UNCHANGED <<saved, calls, diskVars, raises>>

Next ==
    \/ \E d \in Dirs : SwitchOn(d)
    \/ \E d \in Dirs \cup {NoDir} : SwitchOff(d)
    \/ SwitchOnRefused
    \/ Api \/ Loop
    \/ \E f \in Files : Drop(f)
    \/ Restart

(* The handler finishes and the thread is scheduled.  Nobody has to call   *)
(* the API or to drop a file.                                              *)
Spec == Init /\ [][Next]_vars /\ WF_vars(Api) /\ WF_vars(Loop)

-----------------------------------------------------------------------------
(* Correctness *)

ThreadStates ==
    {"none", "check", "snapshot", "scan", "pick", "prepare", "encode", "move", "settle",
     "wait", "leaving", "ending", "dead"}

TypeOK ==
    /\ enabled \in BOOLEAN /\ stop \in BOOLEAN /\ ok \in BOOLEAN
    /\ enabled => dir \in Dirs
    /\ dir \in Dirs \cup {NoDir} /\ saved \in Dirs \cup {NoDir} /\ scanned \in Dirs \cup {NoDir}
    /\ processing \in Files \cup {NoFile}
    /\ api \in {"idle", "stop", "ensureClear", "ensureStart"}
    /\ thread \in ThreadStates
    /\ candidates \subseteq Files /\ processed \subseteq Files /\ ripe \subseteq Files
    /\ current \in Work
    /\ seen \in [Files -> Versions] /\ source \in [Files -> Versions]
    /\ dun \in [Files -> Versions] /\ written \in [Files -> Versions]
    /\ outputs \subseteq Files \X Versions
    /\ attempts \in [Files -> Nat] /\ escaped \in [Files -> Nat]

(* "don't immediately retry forever" (watcher.py:260): in one life of the  *)
(* process a file is given to ffmpeg once, whether it fails or not and     *)
(* however often the watcher is switched off and on in between; once more  *)
(* for each attempt that ended in an exception after ffmpeg had run.       *)
OneAttempt == \A f \in Files : attempts[f] <= 1 + escaped[f]

(* What leaves the input directory has a transcode in the output           *)
(* directory, also when the process dies in between: a transcode of that   *)
(* version, or of the one before somebody wrote over the file while ffmpeg *)
(* read it, which is then the transcode just made.                         *)
OriginalNeverLost ==
    [][\A f \in Files :
         source[f] # Absent /\ source'[f] = Absent
         => \/ <<f, source[f]>> \in outputs
            \/ /\ current.file = f /\ current.version < source[f]
               /\ <<f, current.version>> \in outputs]_vars

(* Switching it off, or a configuration that is refused, ends the thread   *)
(* once the transcode under way is over.                                   *)
OffEndsThread == ~enabled ~> ~Alive \/ enabled

(* A file that lies in the polled directory gets its attempt as long as    *)
(* the watcher stays on with that directory and its thread alive.          *)
FileGetsAttempt ==
    \A f \in Files :
        enabled /\ dir = Home[f] /\ thread \notin {"none", "leaving", "ending", "dead"}
        /\ source[f] # Absent
        ~> f \in processed \/ ~enabled \/ dir # Home[f] \/ source[f] = Absent
           \/ thread \in {"none", "leaving", "ending", "dead"}
=============================================================================
