----------------------------- MODULE ProjectDesk -----------------------------
(***************************************************************************)
(* The desk of the page, its session autosave and its named projects       *)
(* (app/static/js/pool/persistence.js) over the server's session file and  *)
(* project files (routes/pool.py, media/projects.py): restore at start-up, *)
(* autosave after edits, New, Open, Save, Save As, a reload and a crash,   *)
(* each with the awaits during which the user and the other commands go on.*)
(* The content of a desk is the number of the edit that made it and whether*)
(* its sequence has clips.                                                 *)
(***************************************************************************)
EXTENDS Naturals, Sequences, SequencesExt

CONSTANTS
    Files,      \* paths of named projects
    Old,        \* the project that exists at the start
    NoFile,
    MaxActs,    \* bound: actions of the user, and crashes
    MaxPuts     \* bound: autosaves under way at once

ASSUME FileAssumption == Old \in Files /\ NoFile \notin Files
ASSUME BoundAssumption == MaxActs \in Nat /\ MaxPuts \in Nat

VARIABLES
    desk,       \* content on the page
    proj,       \* state.project: path and dirty
    ready,      \* _poolPersistReady
    timer,      \* _poolSaveTimer is armed
    puts,       \* autosaves under way, in the order they were sent
    session, file, last,  \* pool_state.json, project files, last_project_path.txt
    boot,       \* where restorePoolState is
    open,       \* where projectOpen is, and the file it reads
    save,       \* where projectSave is: path, what the check said, the body posted
    acts,
    raced,      \* a command was interfered with, autosaves overtook, or a crash
    lost        \* an autosave was refused

page == <<desk, proj, ready, timer>>
server == <<session, file, last>>
vars == <<page, puts, server, boot, open, save, acts, raced, lost>>

Contents == [v : 0..(MaxActs + 1), full : BOOLEAN]
Pristine == [v |-> 0, full |-> FALSE]
Payloads == [content : Contents, path : Files \cup {NoFile}, dirty : BOOLEAN]
Projects == [path : Files \cup {NoFile}, dirty : BOOLEAN]
Nothing == [content |-> Pristine, path |-> NoFile, dirty |-> FALSE]
OldProject == [content |-> [v |-> MaxActs + 1, full |-> TRUE], path |-> Old, dirty |-> FALSE]

IdleOpen == [at |-> "idle", path |-> NoFile]
IdleSave == [at |-> "idle", path |-> NoFile, said |-> "none", body |-> Nothing]
Untitled == [path |-> NoFile, dirty |-> FALSE]

Opens == {IdleOpen} \cup [at : {"load", "attach"}, path : Files]
Saves == {IdleSave} \cup [at : {"check", "post", "written"}, path : Files,
                          said : {"none", "confirmed", "empty", "unchecked"}, body : Payloads]

Init ==
    /\ desk = Pristine /\ proj = Untitled /\ ready = FALSE /\ timer = FALSE
    /\ puts = <<>>
    /\ file = [f \in Files |-> IF f = Old THEN {OldProject} ELSE {}]
    /\ session \in {Nothing, OldProject}
    /\ last \in IF session = OldProject THEN {Old} ELSE {NoFile, Old}
    /\ boot = "session" /\ open = IdleOpen /\ save = IdleSave
    /\ acts = 0
    /\ raced = FALSE /\ lost = FALSE

-----------------------------------------------------------------------------
(* buildPoolStatePayload with buildDeskSnapshot.                           *)
Payload == [content |-> desk, path |-> proj.path, dirty |-> proj.path # NoFile /\ proj.dirty]

Busy == boot # "done" \/ open.at \in {"load", "attach"} \/ save.at # "idle"

(* Mutant: an autosave is skipped while a project is being saved.          *)
SaveSkipped == puts' = IF ready /\ save.at = "idle" THEN Append(puts, Payload) ELSE puts

(* savePoolStateNow.                                                       *)
SavePoolStateNow == puts' = IF ready THEN Append(puts, Payload) ELSE puts

CanPut == Len(puts) < MaxPuts

Acted == acts < MaxActs /\ acts' = acts + 1

(* Every change of the desk: scheduleSavePoolState and markProjectDirty.   *)
Edit ==
    \E full \in BOOLEAN :
        /\ Acted
        /\ desk' = [v |-> acts + 1, full |-> full]
        /\ IF ready THEN timer' = TRUE /\ proj' = [proj EXCEPT !.dirty = TRUE]
                    ELSE UNCHANGED <<timer, proj>>
        /\ raced' = (raced \/ boot # "done" \/ open.at = "attach"
                         \/ save.at \in {"post", "written"})
        /\ UNCHANGED <<ready, puts, server, boot, open, save, lost>>

AutosaveFires ==
    /\ timer /\ CanPut
    /\ timer' = FALSE
    /\ SavePoolStateNow
    /\ UNCHANGED <<desk, proj, ready, server, boot, open, save, acts, raced, lost>>

(* The server writes an autosave it received, or the request fails; the    *)
(* connections of two autosaves are not ordered.                           *)
PutLands ==
    \E n \in 1..Len(puts), ok \in BOOLEAN :
        /\ puts' = RemoveAt(puts, n)
        /\ session' = IF ok THEN puts[n] ELSE session
        /\ lost' = (lost \/ ~ok)
        /\ raced' = (raced \/ n > 1)
        /\ UNCHANGED <<page, file, last, boot, open, save, acts>>

-----------------------------------------------------------------------------
(* applyPoolData: as a project it belongs to the file it came from, as the *)
(* session to the project the session names.                               *)
ApplyAsProject(p, f) == desk' = p.content /\ proj' = [path |-> f, dirty |-> FALSE]

(* Mutant: the restored session is taken to be saved.                      *)
ApplyAsSaved(p) == desk' = p.content /\ proj' = [path |-> p.path, dirty |-> FALSE]

ApplyAsSession(p) == desk' = p.content /\ proj' = [path |-> p.path, dirty |-> p.dirty]

(* GET /api/project/load: the server makes the project its session.        *)
Served(f, p) == session' = p /\ last' = f /\ UNCHANGED file

(* restorePoolState.                                                       *)
BootSession ==
    /\ boot = "session"
    /\ \/ /\ ApplyAsSession(session)
          /\ boot' = "attach" /\ UNCHANGED ready
       \/ /\ boot' = "last" /\ UNCHANGED <<desk, proj, ready>>      \* not ok
       \/ /\ boot' = "done" /\ ready' = TRUE /\ UNCHANGED <<desk, proj>>  \* error
    /\ raced' = (raced \/ puts # <<>>)
    /\ UNCHANGED <<timer, puts, server, open, save, acts, lost>>

BootLast ==
    /\ boot = "last"
    /\ \/ \E p \in IF last = NoFile THEN {} ELSE file[last] :
             /\ ApplyAsProject(p, last)
             /\ Served(last, p)
             /\ boot' = "attachLast" /\ UNCHANGED ready
       \/ /\ boot' = "done" /\ ready' = TRUE /\ UNCHANGED <<desk, proj, server>>
    /\ UNCHANGED <<timer, puts, open, save, acts, raced, lost>>

(* attachCachedRifeVariants has its answer; the path and the mark of the   *)
(* session are put back.                                                   *)
BootAttached ==
    /\ boot \in {"attach", "attachLast"} /\ CanPut
    /\ boot' = "done" /\ ready' = TRUE
    /\ puts' = IF boot = "attachLast" THEN Append(puts, Payload) ELSE puts
    /\ UNCHANGED <<desk, proj, timer, server, open, save, acts, raced, lost>>

-----------------------------------------------------------------------------
New ==
    /\ Acted /\ CanPut
    /\ desk' = Pristine
    /\ proj' = Untitled
    /\ puts' = IF ready THEN Append(puts, Nothing) ELSE puts
    /\ desk # Pristine \/ proj # Untitled
    /\ raced' = (raced \/ Busy)
    /\ UNCHANGED <<ready, timer, server, boot, open, save, lost>>

OpenBegins ==
    \E f \in {x \in Files : file[x] # {}} :      \* the picker's answer
        /\ open.at = "idle" /\ Acted
        /\ open' = [at |-> "load", path |-> f]
        /\ raced' = (raced \/ Busy)
        /\ UNCHANGED <<page, puts, server, boot, save, lost>>

OpenLoaded ==
    /\ open.at = "load"
    /\ \/ \E p \in file[open.path] :
             /\ Served(open.path, p)
             /\ ApplyAsProject(p, open.path)
             /\ open' = [open EXCEPT !.at = "attach"]
       \/ /\ open' = IdleOpen
          /\ UNCHANGED <<desk, proj, server>>
    /\ UNCHANGED <<ready, timer, puts, boot, save, acts, raced, lost>>

OpenAttached ==
    /\ open.at = "attach" /\ CanPut
    /\ open' = IdleOpen
    /\ ready' = TRUE
    /\ puts' = Append(puts, Payload)
    /\ UNCHANGED <<desk, proj, timer, server, boot, save, acts, raced, lost>>

-----------------------------------------------------------------------------
(* projectSave, and Save As: the path is that of the project or the answer *)
(* of the picker.                                                          *)
SaveBegins ==
    \E f \in Files :
        /\ save.at = "idle" /\ Acted
        /\ save' = IF desk.full THEN [IdleSave EXCEPT !.at = "post", !.path = f, !.body = Payload]
                    ELSE [IdleSave EXCEPT !.at = "check", !.path = f]
        /\ raced' = (raced \/ Busy)
        /\ UNCHANGED <<page, puts, server, boot, open, lost>>

(* Mutant: the check compares with the desk instead of the file.           *)
CheckSays(p) == IF desk.full /\ p.content.full THEN {"confirmed", "refused"} ELSE {"empty"}

(* What the user is asked when the file has clips and the desk has none.   *)
FileSays(p) == IF p.content.full THEN {"confirmed", "refused"} ELSE {"empty"}

(* confirmEmptySequenceOverwrite reads the file by loading the project.    *)
(* The body is built when the check is over, in the same task.             *)
SaveChecked ==
    /\ save.at = "check"
    /\ \/ \E p \in file[save.path] : \E said \in FileSays(p) :
             /\ Served(save.path, p)
             /\ save' = IF said = "refused" THEN IdleSave
                        ELSE [save EXCEPT !.at = "post", !.said = said, !.body = Payload]
       \/ /\ save' = [save EXCEPT !.at = "post", !.body = Payload,   \* no file, or no answer
                                  !.said = IF file[save.path] = {} THEN "empty" ELSE "unchecked"]
          /\ UNCHANGED server
    /\ UNCHANGED <<page, puts, boot, open, acts, raced, lost>>

SaveLands ==
    /\ save.at = "post"
    /\ \/ /\ file' = [file EXCEPT ![save.path] = {save.body}]
          /\ last' = save.path
          /\ save' = [save EXCEPT !.at = "written"]
       \/ /\ save' = IdleSave
          /\ UNCHANGED <<file, last>>
    /\ UNCHANGED <<page, puts, session, boot, open, acts, raced, lost>>

SaveAnswered ==
    /\ save.at = "written"
    /\ save' = IdleSave
    /\ proj' = [path |-> save.path, dirty |-> FALSE]
    /\ UNCHANGED <<desk, ready, timer, puts, server, boot, open, acts, raced, lost>>

-----------------------------------------------------------------------------
(* The page is left: beforeunload sends a last autosave, a crash does not. *)
Restarted ==
    /\ Acted
    /\ desk' = Pristine /\ proj' = Untitled /\ ready' = FALSE /\ timer' = FALSE
    /\ boot' = "session" /\ open' = IdleOpen
    /\ save' = IdleSave
    /\ UNCHANGED <<server, lost>>

Reload ==
    /\ CanPut
    /\ SavePoolStateNow
    /\ raced' = (raced \/ Busy)
    /\ Restarted

Crash ==
    /\ puts' = <<>>
    /\ raced' = TRUE
    /\ Restarted

Next ==
    \/ Edit \/ AutosaveFires \/ PutLands
    \/ BootSession \/ BootLast \/ BootAttached
    \/ New \/ OpenBegins \/ OpenLoaded \/ OpenAttached
    \/ SaveBegins \/ SaveChecked \/ SaveLands \/ SaveAnswered
    \/ Reload \/ Crash

(* Timers fire, requests end, the server writes what it received.          *)
Fairness ==
    /\ WF_vars(AutosaveFires) /\ WF_vars(PutLands)
    /\ WF_vars(BootSession) /\ WF_vars(BootLast) /\ WF_vars(BootAttached)

Spec == Init /\ [][Next]_vars /\ Fairness

-----------------------------------------------------------------------------
TypeOK ==
    /\ desk \in Contents /\ proj \in Projects
    /\ {ready, timer, raced, lost} \subseteq BOOLEAN
    /\ puts \in Seq(Payloads) /\ Len(puts) <= MaxPuts
    /\ session \in Payloads
    /\ file \in [Files -> SUBSET Payloads] /\ \A f \in Files : \A p, q \in file[f] : p = q
    /\ last \in Files \cup {NoFile}
    /\ boot \in {"session", "attach", "last", "attachLast", "done"}
    /\ open \in Opens /\ save \in Saves
    /\ acts \in 0..MaxActs

(* A project that is not marked is the project on disk, over any sequence  *)
(* of edits, autosaves, New, Open, Save and reloads, one after the other.  *)
(* `raced' and `lost' cut out the rest: an edit before the restore has     *)
(* ended, or while Open is attaching or Save has posted (persistence.js    *)
(* marks the desk of now, line 686); a command or a reload while another   *)
(* one is under way; a restore with autosaves still under way; autosaves   *)
(* that land out of order or are refused; and any crash.                   *)
CleanIsSaved ==
    ready /\ ~raced /\ ~lost /\ ~Busy /\ proj.path # NoFile /\ ~proj.dirty
        => \A p \in file[proj.path] : p.content = desk

(* "Empty sequence must not silently clobber a rich on-disk project": a    *)
(* file with clips gets a body without clips only if the user agreed, or   *)
(* the file could not be read.                                             *)
NoSilentEmptyOverwrite ==
    [][\A f \in Files : \A p \in file[f], q \in file'[f] :
          p.content.full /\ ~q.content.full => save.said \in {"confirmed", "unchecked"}]_vars

(* An edit made after the restore reaches the session, unless an autosave  *)
(* was refused or the edit has left the desk.                              *)
EditsReachSession ==
    \A n \in 1..MaxActs :
        (ready /\ timer /\ desk.v = n) ~> (session.content.v = n \/ desk.v # n \/ lost)

(* "Prefer session autosave (latest desk edits)": a Save that the user     *)
(* cancels when asked about the empty sequence leaves the session alone.   *)
CancelledSaveKeepsSession ==
    [][ready /\ save.at = "check" /\ save'.at = "idle" => session' = session]_vars
==============================================================================
