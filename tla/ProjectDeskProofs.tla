-------------------------- MODULE ProjectDeskProofs --------------------------
(***************************************************************************)
(* Proofs about ProjectDesk: its state is well typed, a project that is    *)
(* not marked as changed is the one on disk, and a project with clips is   *)
(* not overwritten by an empty one unasked.                                *)
(***************************************************************************)
EXTENDS ProjectDesk, TLAPS

USE FileAssumption, BoundAssumption

-----------------------------------------------------------------------------
(* The autosave that arrives, taken out of those under way. *)

LEMMA RemoveAtType ==
    ASSUME NEW S, NEW s \in Seq(S), NEW n \in 1..Len(s)
    PROVE  RemoveAt(s, n) \in Seq(S) /\ Len(RemoveAt(s, n)) = Len(s) - 1
<1> DEFINE a == SubSeq(s, 1, n - 1)
           b == SubSeq(s, n + 1, Len(s))
<1>1. a \in Seq(S) /\ Len(a) = n - 1
  OBVIOUS
<1>2. b \in Seq(S) /\ Len(b) = Len(s) - n
  OBVIOUS
<1>3. RemoveAt(s, n) = a \o b
  BY DEF RemoveAt
<1> HIDE DEF a, b
<1> QED BY <1>1, <1>2, <1>3

LEMMA OneOrMore ==
    ASSUME NEW S, NEW s \in Seq(S), NEW n \in 1..Len(s)
    PROVE  Len(s) = 1 \/ Len(s) > 1
<1>1. Len(s) \in Nat
  OBVIOUS
<1>2. n \in Nat /\ 1 <= n /\ n <= Len(s)
  BY <1>1
<1>3. Len(s) >= 1
  BY <1>1, <1>2
<1> QED BY <1>1, <1>3

LEMMA FirstArrives ==
    ASSUME NEW S, NEW s \in Seq(S), Len(s) > 1
    PROVE  RemoveAt(s, 1)[Len(RemoveAt(s, 1))] = s[Len(s)]
<1> DEFINE a == SubSeq(s, 1, 0)
           b == SubSeq(s, 2, Len(s))
<1>1. a \in Seq(S) /\ Len(a) = 0
  OBVIOUS
<1>2. b \in Seq(S) /\ Len(b) = Len(s) - 1 /\ b[Len(s) - 1] = s[Len(s)]
  OBVIOUS
<1>3. RemoveAt(s, 1) = a \o b
  BY DEF RemoveAt
<1> HIDE DEF a, b
<1> QED BY <1>1, <1>2, <1>3

LEMMA Values ==
    /\ Pristine \in Contents /\ Nothing \in Payloads /\ Untitled \in Projects
    /\ IdleOpen \in Opens /\ IdleSave \in Saves /\ OldProject \in Payloads
<1>1. Pristine \in Contents /\ [v |-> MaxActs + 1, full |-> TRUE] \in Contents
  BY DEF Pristine, Contents
<1>2. Nothing \in Payloads /\ OldProject \in Payloads
  BY <1>1 DEF Nothing, OldProject, Payloads
<1>3. Untitled \in Projects /\ IdleOpen \in Opens
  BY DEF Untitled, Projects, IdleOpen, Opens
<1>4. IdleSave \in Saves
  BY <1>2 DEF IdleSave, Saves
<1> QED BY <1>1, <1>2, <1>3, <1>4

LEMMA PayloadType == TypeOK => Payload \in Payloads
BY DEF TypeOK, Payload, Payloads, Projects

LEMMA PayloadParts ==
    \A p \in Payloads : /\ p.content \in Contents /\ p.path \in Files \cup {NoFile}
                        /\ p.dirty \in BOOLEAN /\ [path |-> p.path, dirty |-> p.dirty] \in Projects
BY DEF Payloads, Projects

LEMMA InitType == Init => TypeOK
<1> SUFFICES ASSUME Init PROVE TypeOK
  OBVIOUS
<1>1. file \in [Files -> SUBSET Payloads] /\ \A f \in Files : \A p, q \in file[f] : p = q
  BY Values DEF Init
<1>2. puts \in Seq(Payloads) /\ Len(puts) <= MaxPuts /\ acts \in 0..MaxActs
  BY DEF Init
<1>3. last \in Files \cup {NoFile}
  BY DEF Init
<1>4. desk \in Contents /\ proj \in Projects /\ open \in Opens /\ save \in Saves /\ session \in Payloads
  BY Values DEF Init
<1>5. {ready, timer, raced, lost} \subseteq BOOLEAN /\ boot \in {"session"}
  BY DEF Init
<1> QED BY <1>1, <1>2, <1>3, <1>4, <1>5 DEF TypeOK

LEMMA StepType == TypeOK /\ [Next]_vars => TypeOK'
<1> SUFFICES ASSUME TypeOK, [Next]_vars PROVE TypeOK'
  OBVIOUS
<1> USE Values, PayloadType DEF TypeOK, page, server
<1>0. /\ open.at # "idle" => open.path \in Files
      /\ save.at # "idle" => save.path \in Files /\ save.body \in Payloads
      /\ open.path \in Files \cup {NoFile} /\ save.path \in Files \cup {NoFile}
  BY DEF Opens, Saves, IdleOpen, IdleSave
<1>1. CASE Edit
  <2>1. desk' \in Contents /\ acts' \in 0..MaxActs
    BY <1>1 DEF Edit, Acted, Contents
  <2>2. proj' \in Projects
    BY <1>1 DEF Edit, Projects
  <2> QED BY <1>1, <2>1, <2>2 DEF Edit
<1>2. CASE AutosaveFires
  <2>1. puts' \in Seq(Payloads) /\ Len(puts') <= MaxPuts
    BY <1>2 DEF AutosaveFires, SavePoolStateNow, CanPut
  <2> QED BY <1>2, <2>1 DEF AutosaveFires
<1>3. CASE PutLands
  <2>1. PICK n \in 1..Len(puts), ok \in BOOLEAN :
           /\ puts' = RemoveAt(puts, n)
           /\ session' = IF ok THEN puts[n] ELSE session
           /\ lost' = (lost \/ ~ok)
           /\ raced' = (raced \/ n > 1)
           /\ UNCHANGED <<page, file, last, boot, open, save, acts>>
    BY <1>3 DEF PutLands
  <2>2. puts' \in Seq(Payloads) /\ Len(puts') <= MaxPuts
    BY <2>1, RemoveAtType
  <2>3. session' \in Payloads
    BY <2>1
  <2> QED BY <2>1, <2>2, <2>3
<1>4. CASE BootSession
  <2>1. desk' \in Contents /\ proj' \in Projects
    BY <1>4, PayloadParts DEF BootSession, ApplyAsSession
  <2> QED BY <1>4, <2>1 DEF BootSession
<1>5. CASE BootLast
  <2>1. /\ desk' \in Contents /\ proj' \in Projects /\ session' \in Payloads
        /\ last' \in Files \cup {NoFile} /\ UNCHANGED file
    <3>1. CASE UNCHANGED <<desk, proj, server>>
      BY <3>1
    <3>2. ASSUME NEW p \in IF last = NoFile THEN {} ELSE file[last],
                 ApplyAsProject(p, last), Served(last, p)
          PROVE  <2>1!:
      <4>1. last \in Files /\ p \in Payloads
        BY <3>2
      <4> QED BY <3>2, <4>1, PayloadParts DEF ApplyAsProject, Served, Projects
    <3> QED BY <1>5, <3>1, <3>2 DEF BootLast
  <2> QED BY <1>5, <2>1 DEF BootLast
<1>6. CASE BootAttached
  <2>1. puts' \in Seq(Payloads) /\ Len(puts') <= MaxPuts
    BY <1>6 DEF BootAttached, CanPut
  <2> QED BY <1>6, <2>1 DEF BootAttached
<1>7. CASE New
  <2>1. puts' \in Seq(Payloads) /\ Len(puts') <= MaxPuts
    BY <1>7 DEF New, CanPut
  <2> QED BY <1>7, <2>1 DEF New, Acted
<1>8. CASE OpenBegins
  <2>1. open' \in Opens
    BY <1>8 DEF OpenBegins, Opens
  <2> QED BY <1>8, <2>1 DEF OpenBegins, Acted
<1>9. CASE OpenLoaded
  <2>1. open' \in Opens
    BY <1>9 DEF OpenLoaded, Opens, IdleOpen
  <2>2. /\ desk' \in Contents /\ proj' \in Projects /\ session' \in Payloads
        /\ last' \in Files \cup {NoFile} /\ UNCHANGED file
    <3>1. CASE UNCHANGED <<desk, proj, server>>
      BY <3>1
    <3>2. ASSUME NEW p \in file[open.path], ApplyAsProject(p, open.path), Served(open.path, p)
          PROVE  <2>2!:
      <4>1. open.path \in Files /\ p \in Payloads
        BY <1>0, <1>9, <3>2 DEF OpenLoaded
      <4> QED BY <3>2, <4>1, PayloadParts DEF ApplyAsProject, Served, Projects
    <3> QED BY <1>9, <3>1, <3>2 DEF OpenLoaded
  <2> QED BY <1>9, <2>1, <2>2 DEF OpenLoaded
<1>10. CASE OpenAttached
  <2>1. puts' \in Seq(Payloads) /\ Len(puts') <= MaxPuts
    BY <1>10 DEF OpenAttached, CanPut
  <2> QED BY <1>10, <2>1 DEF OpenAttached
<1>11. CASE SaveBegins
  <2>1. save' \in Saves
    <3>1. PICK f \in Files : save' = IF desk.full
                                    THEN [IdleSave EXCEPT !.at = "post", !.path = f, !.body = Payload]
                                    ELSE [IdleSave EXCEPT !.at = "check", !.path = f]
      BY <1>11 DEF SaveBegins
    <3> QED BY <3>1 DEF Saves, IdleSave
  <2> QED BY <1>11, <2>1 DEF SaveBegins, Acted
<1>12. CASE SaveChecked
  <2>a. save.at = "check"
    BY <1>12 DEF SaveChecked
  <2>0. save.path \in Files /\ save \in Saves \ {IdleSave}
    BY <1>0, <2>a DEF IdleSave
  <2>1. /\ save' \in Saves /\ session' \in Payloads /\ last' \in Files \cup {NoFile}
        /\ UNCHANGED file
    <3>1. ASSUME NEW p \in file[save.path], NEW said \in FileSays(p), Served(save.path, p),
                 save' = IF said = "refused" THEN IdleSave
                         ELSE [save EXCEPT !.at = "post", !.said = said, !.body = Payload]
          PROVE  <2>1!:
      <4>1. said \in {"confirmed", "refused", "empty"}
        BY <3>1 DEF FileSays
      <4>2. save' \in Saves
        BY <2>0, <3>1, <4>1 DEF Saves
      <4> QED BY <2>0, <3>1, <4>2 DEF Served
    <3>2. ASSUME UNCHANGED server,
                 save' = [save EXCEPT !.at = "post", !.body = Payload,
                                      !.said = IF file[save.path] = {} THEN "empty" ELSE "unchecked"]
          PROVE  <2>1!:
      <4>1. save' \in Saves
        BY <2>0, <3>2 DEF Saves
      <4> QED BY <3>2, <4>1
    <3> QED BY <1>12, <3>1, <3>2 DEF SaveChecked
  <2> QED BY <1>12, <2>1 DEF SaveChecked
<1>13. CASE SaveLands
  <2>1. save' \in Saves
    <3>1. save' = IdleSave \/ (save' = [save EXCEPT !.at = "written"] /\ save.at = "post")
      BY <1>13 DEF SaveLands
    <3>2. save.at = "post" => save \in Saves \ {IdleSave}
      BY DEF IdleSave
    <3> QED BY <3>1, <3>2 DEF Saves
  <2>2. save.body \in Payloads /\ save.path \in Files
    BY <1>0, <1>13 DEF SaveLands
  <2>3. /\ file' \in [Files -> SUBSET Payloads] /\ \A f \in Files : \A p, q \in file'[f] : p = q
        /\ last' \in Files \cup {NoFile}
    BY <1>13, <2>2 DEF SaveLands
  <2> QED BY <1>13, <2>1, <2>3 DEF SaveLands
<1>14. CASE SaveAnswered
  <2>1. proj' \in Projects
    BY <1>0, <1>14 DEF SaveAnswered, Projects
  <2> QED BY <1>14, <2>1 DEF SaveAnswered
<1>15. CASE Reload
  <2>1. puts' \in Seq(Payloads) /\ Len(puts') <= MaxPuts
    BY <1>15 DEF Reload, SavePoolStateNow, CanPut
  <2>2. /\ desk' = Pristine /\ proj' = Untitled /\ boot' = "session"
        /\ open' = IdleOpen /\ save' = IdleSave /\ acts' \in 0..MaxActs
        /\ ready' = FALSE /\ timer' = FALSE /\ raced' = (raced \/ Busy) /\ lost' = lost
        /\ UNCHANGED <<session, file, last>>
    BY <1>15 DEF Reload, Restarted, Acted
  <2>3. {ready', timer', raced', lost'} \subseteq BOOLEAN
    BY <2>2
  <2> QED BY <2>1, <2>2, <2>3
<1>16. CASE Crash
  <2>1. puts' \in Seq(Payloads) /\ Len(puts') <= MaxPuts
    BY <1>16 DEF Crash
  <2>2. /\ desk' = Pristine /\ proj' = Untitled /\ boot' = "session"
        /\ open' = IdleOpen /\ save' = IdleSave /\ acts' \in 0..MaxActs
        /\ ready' = FALSE /\ timer' = FALSE /\ raced' = TRUE /\ lost' = lost
        /\ UNCHANGED <<session, file, last>>
    BY <1>16 DEF Crash, Restarted, Acted
  <2>3. {ready', timer', raced', lost'} \subseteq BOOLEAN
    BY <2>2
  <2> QED BY <2>1, <2>2, <2>3
<1>17. CASE UNCHANGED vars
  <2>1. /\ UNCHANGED <<desk, proj, ready, timer, puts, session, file, last>>
        /\ UNCHANGED <<boot, open, save, acts, raced, lost>>
    BY <1>17 DEF vars
  <2>2. {ready', timer', raced', lost'} \subseteq BOOLEAN
    BY <2>1
  <2> QED BY <2>1, <2>2
<1> QED BY <1>1, <1>2, <1>3, <1>4, <1>5, <1>6, <1>7, <1>8, <1>9, <1>10, <1>11, <1>12,
           <1>13, <1>14, <1>15, <1>16, <1>17 DEF Next

(* Every piece of the desk, the session and the files has its type.        *)
THEOREM TypeCorrect == Spec => []TypeOK
<1> QED BY InitType, StepType, PTL DEF Spec

-----------------------------------------------------------------------------
(* A payload that claims to be saved is what its project file holds. *)
Saved(p) == p.path # NoFile /\ ~p.dirty => \A q \in file[p.path] : q.content = p.content

(* What the session file will hold when the autosaves under way are in. *)
Latest == IF puts = <<>> THEN session ELSE puts[Len(puts)]

(* The desk agrees with its file except between the write of a Save and    *)
(* its answer; then the file holds the desk, and the answer will say so.   *)
(* During the restore it is the session that must not claim too much.      *)
Agreed ==
    /\ save.at # "written" => Saved(Payload)
    /\ boot = "session" => Saved(Latest)
    /\ save.at \in {"post", "written"} => save.body.content = desk
    /\ save.at = "written" => file[save.path] = {save.body}

(* One command at a time, and none before the restore has ended. *)
OneCommand ==
    /\ ready <=> boot = "done"
    /\ boot # "done" => open.at = "idle" /\ save.at = "idle"
    /\ open.at = "idle" \/ save.at = "idle"

IInv == TypeOK /\ (~raced /\ ~lost => Agreed /\ OneCommand)

LEMMA InitIInv == Init => IInv
<1> SUFFICES ASSUME Init PROVE IInv
  OBVIOUS
<1>1. TypeOK
  BY InitType
<1>2. Saved(Payload)
  BY DEF Init, Saved, Payload, Untitled
<1>3. Saved(Latest)
  <2>1. Latest = session /\ session \in {Nothing, OldProject}
    BY DEF Init, Latest
  <2>2. Saved(Nothing)
    BY DEF Saved, Nothing
  <2>3. OldProject.path = Old /\ file[Old] = {OldProject}
    BY DEF Init, OldProject
  <2>4. Saved(OldProject)
    BY <2>3 DEF Saved
  <2> QED BY <2>1, <2>2, <2>4
<1>4. Agreed /\ OneCommand
  BY <1>2, <1>3 DEF Init, Agreed, OneCommand, IdleOpen, IdleSave
<1> QED BY <1>1, <1>4 DEF IInv

(* Interference and a refused autosave are remembered. *)
LEMMA MarksStay == TypeOK /\ [Next]_vars => (raced => raced') /\ (lost => lost')
<1> SUFFICES ASSUME TypeOK, [Next]_vars PROVE (raced => raced') /\ (lost => lost')
  OBVIOUS
<1> {raced, lost} \subseteq BOOLEAN
  BY DEF TypeOK
<1> USE DEF Restarted
<1>1. CASE Edit
  BY <1>1 DEF Edit
<1>2. CASE AutosaveFires
  BY <1>2 DEF AutosaveFires
<1>3. CASE PutLands
  BY <1>3 DEF PutLands
<1>4. CASE BootSession
  BY <1>4 DEF BootSession
<1>5. CASE BootLast
  BY <1>5 DEF BootLast
<1>6. CASE BootAttached
  BY <1>6 DEF BootAttached
<1>7. CASE New
  BY <1>7 DEF New
<1>8. CASE OpenBegins
  BY <1>8 DEF OpenBegins
<1>9. CASE OpenLoaded
  BY <1>9 DEF OpenLoaded
<1>10. CASE OpenAttached
  BY <1>10 DEF OpenAttached
<1>11. CASE SaveBegins
  BY <1>11 DEF SaveBegins
<1>12. CASE SaveChecked
  BY <1>12 DEF SaveChecked
<1>13. CASE SaveLands
  BY <1>13 DEF SaveLands
<1>14. CASE SaveAnswered
  BY <1>14 DEF SaveAnswered
<1>15. CASE Reload
  BY <1>15 DEF Reload
<1>16. CASE Crash
  BY <1>16 DEF Crash
<1>17. CASE UNCHANGED vars
  BY <1>17 DEF vars
<1> QED BY <1>1, <1>2, <1>3, <1>4, <1>5, <1>6, <1>7, <1>8, <1>9, <1>10, <1>11, <1>12,
           <1>13, <1>14, <1>15, <1>16, <1>17 DEF Next

LEMMA StepIInv == IInv /\ [Next]_vars => IInv'
<1> SUFFICES ASSUME IInv, [Next]_vars, ~raced', ~lost' PROVE Agreed' /\ OneCommand'
  BY StepType DEF IInv
<1>0. TypeOK /\ TypeOK'
  BY StepType DEF IInv
<1>a. ~raced /\ ~lost
  BY <1>0, MarksStay
<1>b. Agreed /\ OneCommand
  BY <1>a DEF IInv
<1>c. /\ open.at # "idle" => open.at \in {"load", "attach"} /\ open.path \in Files
      /\ save.at # "idle" => save.at \in {"check", "post", "written"} /\ save.path \in Files
  BY <1>0 DEF TypeOK, Opens, Saves, IdleOpen, IdleSave
<1> USE <1>a, <1>b DEF page, server, Agreed, OneCommand
<1>1. CASE Edit
  <2>1. boot = "done" /\ save.at \notin {"post", "written"} /\ proj'.dirty = TRUE
    <3>1. proj = [path |-> proj.path, dirty |-> proj.dirty]
      BY <1>0 DEF TypeOK, Projects
    <3>2. boot = "done" /\ save.at \notin {"post", "written"} /\ proj' = [proj EXCEPT !.dirty = TRUE]
      BY <1>1 DEF Edit
    <3> QED BY <3>1, <3>2
  <2>2. Saved(Payload)'
    BY <2>1 DEF Saved, Payload
  <2> QED BY <1>1, <2>1, <2>2 DEF Edit
<1>2. CASE AutosaveFires
  <2>1. UNCHANGED <<desk, proj, ready, file, boot, open, save>>
    BY <1>2 DEF AutosaveFires
  <2>2. boot = "session" => UNCHANGED <<puts, session>>
    BY <1>2 DEF AutosaveFires, SavePoolStateNow
  <2> QED BY <2>1, <2>2 DEF Saved, Payload, Latest
<1>3. CASE PutLands
  <2>1. PICK n \in 1..Len(puts), ok \in BOOLEAN :
           /\ puts' = RemoveAt(puts, n)
           /\ session' = IF ok THEN puts[n] ELSE session
           /\ lost' = (lost \/ ~ok)
           /\ raced' = (raced \/ n > 1)
           /\ UNCHANGED <<page, file, last, boot, open, save, acts>>
    BY <1>3 DEF PutLands
  <2>2. n = 1 /\ session' = puts[1] /\ puts' = RemoveAt(puts, 1)
    <3>1. ~(n > 1)
      BY <2>1
    <3>2. ok
      BY <2>1
    <3> QED BY <2>1, <3>1, <3>2
  <2>3. puts \in Seq(Payloads) /\ (Len(puts) = 1 \/ Len(puts) > 1)
    <3>1. puts \in Seq(Payloads)
      BY <1>0 DEF TypeOK
    <3> QED BY <2>1, <3>1, OneOrMore
  <2>4. puts' \in Seq(Payloads) /\ Len(puts') = Len(puts) - 1
    BY <2>2, <2>3, RemoveAtType
  <2>5. Latest' = Latest
    <3>1. CASE Len(puts) = 1
      <4>1. puts # <<>> /\ puts' = <<>>
        BY <2>3, <2>4, <3>1
      <4>2. Latest' = session' /\ Latest = puts[1]
        BY <3>1, <4>1 DEF Latest
      <4> QED BY <2>2, <4>2
    <3>2. CASE Len(puts) > 1
      <4>1. puts # <<>> /\ puts' # <<>>
        BY <2>3, <2>4, <3>2
      <4>2. puts'[Len(puts')] = puts[Len(puts)]
        BY <2>2, <2>3, <3>2, FirstArrives
      <4> QED BY <4>1, <4>2 DEF Latest
    <3> QED BY <2>3, <3>1, <3>2
  <2> QED BY <2>1, <2>5 DEF Saved, Payload
<1>4. CASE BootSession
  <2>1. puts = <<>> /\ Saved(session) /\ save.at = "idle" /\ open.at = "idle"
    BY <1>4 DEF BootSession, Latest
  <2>2. UNCHANGED <<file, open, save>> /\ (boot' = "done" <=> ready') /\ boot' # "session"
    BY <1>4 DEF BootSession
  <2>3. Saved(Payload)'
    <3>1. CASE UNCHANGED <<desk, proj>>
      BY <2>1, <2>2, <3>1 DEF Saved, Payload
    <3>2. CASE ApplyAsSession(session)
      BY <2>1, <2>2, <3>2 DEF Saved, Payload, ApplyAsSession
    <3> QED BY <1>4, <3>1, <3>2 DEF BootSession
  <2> QED BY <2>1, <2>2, <2>3
<1>5. CASE BootLast
  <2>1. UNCHANGED <<file, open, save>> /\ (boot' = "done" <=> ready') /\ boot' # "session"
        /\ save.at = "idle" /\ open.at = "idle"
    BY <1>5 DEF BootLast, Served
  <2>2. Saved(Payload)'
    <3>1. CASE UNCHANGED <<desk, proj>>
      BY <2>1, <3>1 DEF Saved, Payload
    <3>2. ASSUME NEW p \in IF last = NoFile THEN {} ELSE file[last], ApplyAsProject(p, last)
          PROVE  Saved(Payload)'
      <4>1. last \in Files /\ \A q \in file[last] : q = p
        BY <1>0, <3>2 DEF TypeOK
      <4> QED BY <2>1, <3>2, <4>1 DEF Saved, Payload, ApplyAsProject
    <3> QED BY <1>5, <3>1, <3>2 DEF BootLast
  <2> QED BY <2>1, <2>2
<1>6. CASE BootAttached
  BY <1>6 DEF BootAttached, Saved, Payload
<1>7. CASE New
  <2>1. boot = "done" /\ save.at = "idle" /\ open.at \notin {"load", "attach"}
    BY <1>7 DEF New, Busy
  <2> QED BY <1>7, <2>1 DEF New, Saved, Payload, Untitled
<1>8. CASE OpenBegins
  <2>1. boot = "done" /\ save.at = "idle"
    BY <1>8 DEF OpenBegins, Busy
  <2> QED BY <1>8, <2>1 DEF OpenBegins, Saved, Payload
<1>9. CASE OpenLoaded
  <2>1. boot = "done" /\ save.at = "idle" /\ UNCHANGED <<file, boot, save, ready>>
    BY <1>9 DEF OpenLoaded, Served
  <2>2. Saved(Payload)'
    <3>1. CASE UNCHANGED <<desk, proj>>
      BY <2>1, <3>1 DEF Saved, Payload
    <3>2. ASSUME NEW p \in file[open.path], ApplyAsProject(p, open.path)
          PROVE  Saved(Payload)'
      <4>1. \A q \in file[open.path] : q = p
        BY <1>0, <1>c, <1>9, <3>2 DEF TypeOK, OpenLoaded
      <4> QED BY <2>1, <3>2, <4>1 DEF Saved, Payload, ApplyAsProject
    <3> QED BY <1>9, <3>1, <3>2 DEF OpenLoaded
  <2> QED BY <2>1, <2>2
<1>10. CASE OpenAttached
  <2>1. boot = "done" /\ save.at = "idle" /\ UNCHANGED <<desk, proj, file, boot, save>>
        /\ ready' = TRUE /\ open' = IdleOpen
    BY <1>10 DEF OpenAttached
  <2> QED BY <2>1 DEF Saved, Payload
<1>11. CASE SaveBegins
  <2>1. boot = "done" /\ open.at = "idle" /\ save.at = "idle"
    BY <1>c, <1>11 DEF SaveBegins, Busy
  <2>2. UNCHANGED <<desk, proj, ready, file, boot, open>>
    BY <1>11 DEF SaveBegins
  <2>3. /\ save'.at \in {"post", "check"}
        /\ save'.at = "post" => save'.body.content = desk
    BY <1>11 DEF SaveBegins, IdleSave, Payload
  <2> QED BY <2>1, <2>2, <2>3 DEF Saved, Payload
<1>12. CASE SaveChecked
  <2>1. save.at = "check" /\ boot = "done" /\ open.at = "idle"
    BY <1>12 DEF SaveChecked
  <2>2. UNCHANGED <<desk, proj, ready, file, boot, open>>
    BY <1>12 DEF SaveChecked, Served
  <2>3. /\ save'.at \in {"idle", "post"}
        /\ save'.at = "post" => save'.body.content = desk
    <3>1. save \in Saves \ {IdleSave}
      BY <1>0, <2>1 DEF TypeOK, IdleSave
    <3>2. ASSUME NEW said, save' = IF said = "refused" THEN IdleSave
                                  ELSE [save EXCEPT !.at = "post", !.said = said, !.body = Payload]
          PROVE  <2>3!:
      BY <3>1, <3>2 DEF Saves, IdleSave, Payload
    <3>3. ASSUME save' = [save EXCEPT !.at = "post", !.body = Payload,
                                 !.said = IF file[save.path] = {} THEN "empty" ELSE "unchecked"]
          PROVE  <2>3!:
      BY <3>1, <3>3 DEF Saves, Payload
    <3> QED BY <1>12, <3>2, <3>3 DEF SaveChecked
  <2> QED BY <2>1, <2>2, <2>3 DEF Saved, Payload
<1>13. CASE SaveLands
  <2>1. save.at = "post" /\ boot = "done" /\ open.at = "idle" /\ save.path \in Files
        /\ save \in Saves \ {IdleSave}
    BY <1>0, <1>c, <1>13 DEF SaveLands, TypeOK, IdleSave
  <2>2. UNCHANGED <<desk, proj, ready, boot, open>>
    BY <1>13 DEF SaveLands
  <2>3. CASE file' = [file EXCEPT ![save.path] = {save.body}] /\ save' = [save EXCEPT !.at = "written"]
    <3>1. save'.at = "written" /\ save'.body = save.body /\ save'.path = save.path
      BY <2>1, <2>3 DEF Saves
    <3>2. file'[save.path] = {save.body}
      BY <1>0, <2>1, <2>3 DEF TypeOK
    <3> QED BY <2>1, <2>2, <3>1, <3>2
  <2>4. CASE save' = IdleSave /\ UNCHANGED file
    BY <2>1, <2>2, <2>4 DEF Saved, Payload, IdleSave
  <2> QED BY <1>13, <2>3, <2>4 DEF SaveLands
<1>14. CASE SaveAnswered
  <2>1. save.at = "written" /\ boot = "done" /\ UNCHANGED <<desk, file, ready, boot, open>>
        /\ save' = IdleSave /\ proj' = [path |-> save.path, dirty |-> FALSE]
    BY <1>14 DEF SaveAnswered
  <2>2. Saved(Payload)'
    BY <2>1 DEF Saved, Payload
  <2> QED BY <2>1, <2>2 DEF IdleSave
<1>15. CASE Reload
  <2>1. boot = "done" /\ save.at = "idle"
    BY <1>15 DEF Reload, Busy
  <2>2. puts' = Append(puts, Payload) /\ UNCHANGED file
    BY <1>15, <2>1 DEF Reload, SavePoolStateNow, Restarted
  <2>3. puts \in Seq(Payloads) /\ Payload \in Payloads
    BY <1>0, PayloadType DEF TypeOK
  <2>4. Latest' = Payload
    BY <2>2, <2>3 DEF Latest
  <2>5. Saved(Latest)'
    BY <2>1, <2>2, <2>4 DEF Saved
  <2>6. /\ proj' = Untitled /\ ready' = FALSE /\ boot' = "session"
        /\ open' = IdleOpen /\ save' = IdleSave
    BY <1>15 DEF Reload, Restarted
  <2> QED BY <2>5, <2>6 DEF Saved, Payload, Untitled, IdleOpen, IdleSave
<1>16. CASE Crash
  BY <1>16 DEF Crash
<1>17. CASE UNCHANGED vars
  BY <1>17 DEF vars, Saved, Payload, Latest
<1> QED BY <1>1, <1>2, <1>3, <1>4, <1>5, <1>6, <1>7, <1>8, <1>9, <1>10, <1>11, <1>12,
           <1>13, <1>14, <1>15, <1>16, <1>17 DEF Next

LEMMA Invariance == Spec => []IInv
<1> QED BY InitIInv, StepIInv, PTL DEF Spec

(* A project that is not marked as changed is the project on disk          *)
(* (persistence.js: markProjectDirty, projectSave, restorePoolState), in a *)
(* history without crashes, in which commands, restores and reloads do not *)
(* overlap, nobody edits during a restore or a Save, no restore begins     *)
(* with autosaves under way, and autosaves land in order and are not       *)
(* refused.                                                                *)
THEOREM CleanDesksAreSaved == Spec => []CleanIsSaved
<1>1. IInv => CleanIsSaved
  BY DEF IInv, Agreed, OneCommand, Saved, Payload, CleanIsSaved, Busy
<1> QED BY <1>1, Invariance, PTL

-----------------------------------------------------------------------------
(* The body of a Save was compared with the file it is about to replace. *)
Compared ==
    save.at = "post" =>
        \/ save.body.content.full
        \/ save.said \in {"confirmed", "unchecked"}
        \/ \A p \in file[save.path] : ~p.content.full

LEMMA InitCompared == Init => Compared
BY DEF Init, Compared, IdleSave

LEMMA StepCompared == TypeOK /\ Compared /\ [Next]_vars => Compared'
<1> SUFFICES ASSUME TypeOK, Compared, [Next]_vars PROVE Compared'
  OBVIOUS
<1>1. CASE UNCHANGED <<file, save>>
  BY <1>1 DEF Compared
<1>2. CASE SaveBegins
  BY <1>2 DEF SaveBegins, Compared, IdleSave, Payload, page, server
<1>3. CASE SaveChecked
  <2>1. save \in Saves \ {IdleSave} /\ UNCHANGED file
    <3>1. save.at = "check" /\ UNCHANGED file
      BY <1>3 DEF SaveChecked, Served, server
    <3> QED BY <3>1 DEF TypeOK, IdleSave
  <2>2. ASSUME NEW p \in file[save.path], NEW said \in FileSays(p),
               save' = IF said = "refused" THEN IdleSave
                       ELSE [save EXCEPT !.at = "post", !.said = said, !.body = Payload]
        PROVE  Compared'
    <3>1. save.path \in Files /\ \A q \in file[save.path] : q = p
      BY <2>1, <2>2 DEF Saves, TypeOK
    <3>2. said \in {"confirmed", "refused"} \/ ~p.content.full
      BY <2>2 DEF FileSays
    <3> QED BY <2>1, <2>2, <3>1, <3>2 DEF Compared, Saves, IdleSave
  <2>3. ASSUME save' = [save EXCEPT !.at = "post", !.body = Payload,
                               !.said = IF file[save.path] = {} THEN "empty" ELSE "unchecked"]
        PROVE  Compared'
    BY <2>1, <2>3 DEF Compared, Saves
  <2> QED BY <1>3, <2>2, <2>3 DEF SaveChecked
<1>4. CASE SaveLands
  <2>1. save' = IdleSave \/ (save' = [save EXCEPT !.at = "written"] /\ save.at = "post")
    BY <1>4 DEF SaveLands
  <2>2. save.at = "post" => save \in Saves \ {IdleSave}
    BY DEF TypeOK, IdleSave
  <2> QED BY <2>1, <2>2 DEF Compared, Saves, IdleSave
<1>5. CASE SaveAnswered \/ Reload \/ Crash
  BY <1>5 DEF SaveAnswered, Reload, Crash, Restarted, Compared, IdleSave
<1> QED BY <1>1, <1>2, <1>3, <1>4, <1>5 DEF Next, vars, server, Served, Edit, AutosaveFires,
     PutLands, BootSession, BootLast, BootAttached, New, OpenBegins, OpenLoaded, OpenAttached

(* A project file with clips is not replaced by one without unless the     *)
(* user agreed or the file could not be read (persistence.js:             *)
(* confirmEmptySequenceOverwrite).                                         *)
THEOREM ClipsNotErasedUnasked == Spec => NoSilentEmptyOverwrite
<1> DEFINE Asked == \A f \in Files : \A p \in file[f], q \in file'[f] :
                        p.content.full /\ ~q.content.full => save.said \in {"confirmed", "unchecked"}
<1>1. TypeOK /\ Compared /\ [Next]_vars => [Asked]_vars
  <2> SUFFICES ASSUME TypeOK, Compared, [Next]_vars PROVE Asked
    OBVIOUS
  <2>1. CASE UNCHANGED file
    BY <2>1 DEF TypeOK
  <2>2. CASE SaveLands /\ file' = [file EXCEPT ![save.path] = {save.body}]
    BY <2>2 DEF SaveLands, Compared, TypeOK
  <2> QED BY <2>1, <2>2 DEF Next, vars, page, server, Served, Edit, AutosaveFires, PutLands,
       BootSession, BootLast, BootAttached, New, OpenBegins, OpenLoaded, OpenAttached,
       SaveBegins, SaveChecked, SaveLands, SaveAnswered, Reload, Crash, Restarted
<1> QED BY <1>1, InitType, StepType, InitCompared, StepCompared, PTL DEF Spec, NoSilentEmptyOverwrite
==============================================================================
