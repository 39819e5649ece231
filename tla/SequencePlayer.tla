--------------------------- MODULE SequencePlayer ---------------------------
(***************************************************************************)
(* The sequence strip of the page and its player (js/pool/sequence.js,     *)
(* js/pool/items.js, js/ui/list-keys.js): an ordered list of clips that    *)
(* the user fills from the library, reorders by drag, buttons and arrow    *)
(* keys, and plays one clip after the other in a <video> element.  The     *)
(* strip, the library selection and the player are separate pieces of      *)
(* state that every handler has to keep together:                          *)
(*                                                                         *)
(*   - selectedPath (library) and selectedSeqId (strip) name the selection *)
(*     twice; Time edits, Move and Remove act on FindSelected of both;     *)
(*   - playback.index names the playing clip by position, not by identity; *)
(*   - the player learns what happens from media-element events and from   *)
(*     the play() promise, which is settled by a task queued earlier: the  *)
(*     rejection of a clip that was replaced arrives after its successor   *)
(*     was started (playback.tasks, in queue order).                       *)
(*                                                                         *)
(* Left to other modules: densifying a clip (InstantRife), the library     *)
(* itself with hover and multiple selection, saving the session.  Indices  *)
(* count from 0 as in the code.                                            *)
(***************************************************************************)
EXTENDS Integers, Sequences, SequencesExt, FiniteSets

CONSTANTS
  Paths,       \* the video files
  NoPath,      \* null
  MaxClips,    \* bound: clips ever added to the strip
  MaxTasks     \* bound: media tasks that may wait when the user acts

ASSUME PlayerAssumption == NoPath \notin Paths /\ {MaxClips, MaxTasks} \subseteq Nat

VARIABLES
  sequence,       \* state.pool.sequence: [id, path]
  nextSeqId,      \* the next clip id
  selectedPath,   \* state.pool.selectedPath
  selectedSeqId,  \* state.pool.selectedSeqId; 0 is null
  playback        \* state.pool.playback, with the media tasks that wait

vars == <<sequence, nextSeqId, selectedPath, selectedSeqId, playback>>

Entry == [id : 1..MaxClips, path : Paths]

\* The <video> element of the player.  "waiting": the promise of the play()
\* that loaded it is not settled.  "shown": it is in the media viewer.
Video ==
  [path : Paths \union {NoPath}, paused : BOOLEAN, ended : BOOLEAN,
   waiting : BOOLEAN, failed : BOOLEAN, shown : BOOLEAN]

NoVideo ==
  [path |-> NoPath, paused |-> TRUE, ended |-> FALSE, waiting |-> FALSE,
   failed |-> FALSE, shown |-> FALSE]

\* state.pool.playback; "play" is a play event that waits, "reject" the settled
\* promise of a play() that came to nothing.
Player ==
  [index : Nat, playing : BOOLEAN, loop : BOOLEAN, video : Video,
   tasks : Seq({"play", "reject"})]

Init ==
  /\ sequence = <<>>
  /\ nextSeqId = 1
  /\ selectedPath = NoPath
  /\ selectedSeqId = 0
  /\ playback = [index |-> 0, playing |-> FALSE, loop |-> FALSE,
                 video |-> NoVideo, tasks |-> <<>>]

------------------------------------------------------------------------------
(* Selection *)

FirstWith(seq, p) == SelectInSeq(seq, LAMBDA e : e.path = p)

PlaceOf(seq, i) == SelectInSeq(seq, LAMBDA e : e.id = i)

\* findSelectedSeqIndex: by id, else the playing clip if it has the selected
\* path, else the first clip of that path; -1 for none.
FindSelected(seq, seqId, path, index) ==
  IF seqId # 0 /\ PlaceOf(seq, seqId) > 0 THEN PlaceOf(seq, seqId) - 1
  ELSE IF path = NoPath THEN -1
  ELSE IF index < Len(seq) /\ seq[index + 1].path = path THEN index
  ELSE FirstWith(seq, path) - 1

Here == FindSelected(sequence, selectedSeqId, selectedPath, playback.index)

\* Mutant: selectPoolItem keeps the clip that was selected, whatever its path.
SeqIdKept(seq, seqId, p) ==
  IF seqId # 0 /\ PlaceOf(seq, seqId) > 0 THEN seqId
  ELSE IF FirstWith(seq, p) > 0 THEN seq[FirstWith(seq, p)].id
  ELSE 0

\* selectPoolItem: the clip that was selected stays if it has the path, else
\* the first clip of that path, if any.
SeqIdFor(seq, seqId, p) ==
  IF seqId # 0 /\ PlaceOf(seq, seqId) > 0 /\ seq[PlaceOf(seq, seqId)].path = p
    THEN seqId
  ELSE IF FirstWith(seq, p) > 0 THEN seq[FirstWith(seq, p)].id
  ELSE 0

\* showPreview replaces what the media viewer shows, when nothing plays; a
\* media element that leaves the document is paused.
Previewed(pb) ==
  IF pb.playing THEN pb
  ELSE [pb EXCEPT !.video.shown = FALSE, !.video.paused = TRUE,
                  !.video.waiting = FALSE,
                  !.tasks = IF pb.video.waiting THEN Append(@, "reject") ELSE @]

\* The whole of selectPoolItem(p) over the strip seq, with seqId selected.
Select(seq, seqId, p, pb) ==
  /\ selectedPath' = p
  /\ selectedSeqId' = SeqIdFor(seq, seqId, p)
  /\ playback' = Previewed(pb)

------------------------------------------------------------------------------
(* The player *)

\* _detachPlaybackVideo: the handlers are dropped, so a play event that waits
\* is lost; pause() settles the promise of a clip that had not started.
Rejections(tasks) ==
  [n \in 1..Cardinality({i \in DOMAIN tasks : tasks[i] = "reject"}) |-> "reject"]

Detached(pb) ==
  [pb EXCEPT
     !.video = NoVideo,
     !.tasks = Rejections(@) \o (IF pb.video.waiting THEN <<"reject">> ELSE <<>>)]

\* seqLoadClip: clip i (clamped) is loaded into a new element.  With autoplay
\* the browser either starts it (a play event is queued) or refuses.
Loaded(pb, seq, i, autoplay, allowed) ==
  LET at == IF i < Len(seq) THEN i ELSE Len(seq) - 1
      starts == autoplay /\ allowed
      base == Detached([pb EXCEPT !.index = at])
  IN [base EXCEPT
        !.playing = autoplay \/ @,
        !.video = [NoVideo EXCEPT !.path = seq[at + 1].path, !.shown = TRUE,
                                  !.paused = ~starts, !.waiting = starts],
        !.tasks = @ \o (IF starts THEN <<"play">>
                        ELSE IF autoplay THEN <<"reject">> ELSE <<>>)]

\* The selection follows the clip that is loaded.
SelectLoaded(seq, pb) ==
  /\ selectedPath' = pb.video.path
  /\ selectedSeqId' = SeqIdFor(seq, selectedSeqId, pb.video.path)

Stopped(pb) == [Detached(pb) EXCEPT !.playing = FALSE, !.index = 0]

HasVideo == playback.video # NoVideo

\* seqPlay resumes the element it has if that is paused, in the viewer or
\* not, and loads the clip at the index otherwise.
Resumable == HasVideo /\ ~playback.video.ended /\ playback.video.paused

Play ==
  /\ sequence # <<>>
  /\ IF Resumable
     THEN /\ playback' =
               IF playback.video.failed THEN [playback EXCEPT !.playing = TRUE]
               ELSE [playback EXCEPT !.playing = TRUE, !.video.paused = FALSE,
                                     !.tasks = Append(@, "play")]
          /\ UNCHANGED <<selectedPath, selectedSeqId>>
     ELSE \E allowed \in BOOLEAN :
            /\ playback' = Loaded(playback, sequence, playback.index, TRUE, allowed)
            /\ SelectLoaded(sequence, playback')
  /\ UNCHANGED <<sequence, nextSeqId>>

Pause ==
  /\ HasVideo /\ ~playback.video.paused
  /\ playback' = [playback EXCEPT
       !.playing = FALSE, !.video.paused = TRUE, !.video.waiting = FALSE,
       !.tasks = IF playback.video.waiting THEN Append(@, "reject") ELSE @]
  /\ UNCHANGED <<sequence, nextSeqId, selectedPath, selectedSeqId>>

Stop ==
  /\ playback' = Stopped(playback)
  /\ UNCHANGED <<sequence, nextSeqId, selectedPath, selectedSeqId>>

\* seqPrev and seqNext keep the state the player had: playing or not.
Skip(delta) ==
  /\ sequence # <<>>
  /\ \E allowed \in BOOLEAN :
       playback' =
         Loaded(playback, sequence,
                IF playback.index + delta < 0 THEN 0 ELSE playback.index + delta,
                playback.playing, allowed)
  /\ SelectLoaded(sequence, playback')
  /\ UNCHANGED <<sequence, nextSeqId>>

ToggleLoop ==
  /\ playback' = [playback EXCEPT !.loop = ~@]
  /\ UNCHANGED <<sequence, nextSeqId, selectedPath, selectedSeqId>>

\* The controls of the element itself.
NativePlay ==
  /\ playback.video.shown /\ playback.video.paused /\ ~playback.video.failed
  /\ playback' = [playback EXCEPT !.video.paused = FALSE, !.video.ended = FALSE,
                                  !.tasks = Append(@, "play")]
  /\ UNCHANGED <<sequence, nextSeqId, selectedPath, selectedSeqId>>

NativePause ==
  /\ playback.video.shown /\ ~playback.video.paused
  /\ playback' = [playback EXCEPT
       !.video.paused = TRUE, !.video.waiting = FALSE,
       !.tasks = IF playback.video.waiting THEN Append(@, "reject") ELSE @]
  /\ UNCHANGED <<sequence, nextSeqId, selectedPath, selectedSeqId>>

\* Mutant: onplay only refreshes the buttons.
PlayUnnoticed(task) == FALSE

\* A queued task runs: onplay marks the player as playing, the catch of a
\* settled play() marks it as not playing, whichever clip it belonged to.
AfterTask(task) == task = "play"

MediaTask ==
  /\ playback.tasks # <<>>
  /\ playback' = [playback EXCEPT !.playing = AfterTask(Head(playback.tasks)),
                                  !.tasks = Tail(@)]
  /\ UNCHANGED <<sequence, nextSeqId, selectedPath, selectedSeqId>>

MediaStarts ==
  /\ HasVideo /\ playback.video.waiting
  /\ playback' = [playback EXCEPT !.video.waiting = FALSE]
  /\ UNCHANGED <<sequence, nextSeqId, selectedPath, selectedSeqId>>

\* onended: the next clip, the first one again under loop, or the end.
AfterEnd(pb, seq, allowed) ==
  IF ~pb.playing THEN pb
  ELSE IF pb.index + 1 < Len(seq) THEN Loaded(pb, seq, pb.index + 1, TRUE, allowed)
  ELSE IF pb.loop /\ seq # <<>> THEN Loaded(pb, seq, 0, TRUE, allowed)
  ELSE [pb EXCEPT !.playing = FALSE]

MediaEnds ==
  /\ HasVideo /\ ~playback.video.paused /\ ~playback.video.waiting
  /\ ~playback.video.failed /\ playback.tasks = <<>>
  /\ \E allowed \in BOOLEAN :
       playback' = AfterEnd([playback EXCEPT !.video.ended = TRUE,
                                             !.video.paused = TRUE],
                            sequence, allowed)
  /\ IF playback'.video.path # NoPath /\ ~playback'.video.ended
       THEN SelectLoaded(sequence, playback')
       ELSE UNCHANGED <<selectedPath, selectedSeqId>>
  /\ UNCHANGED <<sequence, nextSeqId>>

\* Mutant: onerror does not end the show at the last clip.
ErrorAtLastIgnored(pb, seq, allowed) ==
  IF pb.playing /\ pb.index + 1 < Len(seq)
    THEN Loaded(pb, seq, pb.index + 1, TRUE, allowed) ELSE pb

\* onerror: the next clip when playing, and the end after the last; then the
\* promise of the failed clip is settled.
AfterError(pb, seq, allowed) ==
  IF ~pb.playing THEN pb
  ELSE IF pb.index + 1 < Len(seq) THEN Loaded(pb, seq, pb.index + 1, TRUE, allowed)
  ELSE [pb EXCEPT !.playing = FALSE]

Settled(pb, waited) == IF waited THEN [pb EXCEPT !.playing = FALSE] ELSE pb

MediaFails ==
  /\ HasVideo /\ ~playback.video.failed /\ ~playback.video.ended
  /\ playback.tasks = <<>>
  /\ \E allowed \in BOOLEAN :
       playback' = Settled(AfterError([playback EXCEPT !.video.failed = TRUE,
                                                       !.video.waiting = FALSE],
                                      sequence, allowed),
                           playback.video.waiting)
  /\ IF ~playback'.video.failed
       THEN SelectLoaded(sequence, playback')
       ELSE UNCHANGED <<selectedPath, selectedSeqId>>
  /\ UNCHANGED <<sequence, nextSeqId>>

------------------------------------------------------------------------------
(* The strip *)

\* addPathToSequence: from a card, a menu or a drop at a place of the strip.
AddClip(p, at) ==
  /\ nextSeqId <= MaxClips
  /\ sequence' = InsertAt(sequence, at + 1, [id |-> nextSeqId, path |-> p])
  /\ nextSeqId' = nextSeqId + 1
  /\ Select(sequence', selectedSeqId, p, playback)

\* removeSequenceAt: the index is clamped and otherwise left where it is.
ClampedIndex(index, seq) ==
  IF index < Len(seq) THEN index ELSE IF seq = <<>> THEN 0 ELSE Len(seq) - 1

RemoveClip(k) ==
  /\ sequence' = RemoveAt(sequence, k + 1)
  /\ playback' = [playback EXCEPT !.index = ClampedIndex(@, sequence')]
  /\ UNCHANGED <<nextSeqId, selectedPath, selectedSeqId>>

ClearSequence ==
  /\ sequence # <<>>
  /\ sequence' = <<>>
  /\ selectedSeqId' = 0
  /\ playback' = Stopped(playback)
  /\ UNCHANGED <<nextSeqId, selectedPath>>

\* Mutant: A reorder swaps the two clips.
Swapped(seq, from, to) ==
  [seq EXCEPT ![from + 1] = seq[to + 1], ![to + 1] = seq[from + 1]]

Moved(seq, from, to) == InsertAt(RemoveAt(seq, from + 1), to + 1, seq[from + 1])

\* A token dropped before place insertAt of the strip as it was.
DroppedAt(from, insertAt) == IF insertAt > from THEN insertAt - 1 ELSE insertAt

DropToken(from, insertAt) ==
  /\ sequence' = Moved(sequence, from, DroppedAt(from, insertAt))
  /\ Select(sequence', selectedSeqId, sequence[from + 1].path, playback)
  /\ UNCHANGED <<nextSeqId>>

ClickToken(k) ==
  /\ Select(sequence, sequence[k + 1].id, sequence[k + 1].path,
            [playback EXCEPT !.index = k])
  /\ UNCHANGED <<sequence, nextSeqId>>

\* moveSelectedInSequence: selectedSeqId is not written, it names the clip.
MoveSelected(action) ==
  LET to == CASE action = "start" -> 0
              [] action = "end" -> Len(sequence) - 1
              [] action = "left" -> IF Here = 0 THEN 0 ELSE Here - 1
              [] action = "right" -> IF Here + 1 < Len(sequence) THEN Here + 1 ELSE Here
  IN /\ Here >= 0 /\ Len(sequence) >= 2 /\ to # Here
     /\ sequence' = Moved(sequence, Here, to)
     /\ selectedPath' = sequence[Here + 1].path
     /\ playback' = [playback EXCEPT !.index = to]
     /\ UNCHANGED <<nextSeqId, selectedSeqId>>

\* Arrow keys: with nothing selected the first clip is taken.
KeyFrom == IF Here < 0 THEN 0 ELSE Here

KeyMove(delta) ==
  LET to == KeyFrom + delta
  IN /\ to \in 0..(Len(sequence) - 1)
     /\ sequence' = Moved(sequence, KeyFrom, to)
     /\ selectedSeqId' = sequence[KeyFrom + 1].id
     /\ selectedPath' = sequence[KeyFrom + 1].path
     /\ playback' = [playback EXCEPT !.index = to]
     /\ UNCHANGED <<nextSeqId>>

KeySelect(delta) ==
  LET to == KeyFrom + delta
  IN /\ to \in 0..(Len(sequence) - 1)
     /\ Select(sequence, sequence[to + 1].id, sequence[to + 1].path, playback)
     /\ UNCHANGED <<sequence, nextSeqId>>

------------------------------------------------------------------------------
(* The library *)

\* A click on a card, or the import of one on the library tab.
ClickCard(p) ==
  /\ Select(sequence, selectedSeqId, p, playback)
  /\ UNCHANGED <<sequence, nextSeqId>>

\* removePoolItem: the strip keeps its clips and its selection.
RemoveFromLibrary(p) ==
  /\ selectedPath' = IF selectedPath = p THEN NoPath ELSE selectedPath
  /\ UNCHANGED <<sequence, nextSeqId, selectedSeqId, playback>>

ClearLibrary ==
  /\ selectedPath' = NoPath
  /\ playback' = Stopped(playback)
  /\ UNCHANGED <<sequence, nextSeqId, selectedSeqId>>

------------------------------------------------------------------------------

Positions == 0..(Len(sequence) - 1)

StripStep ==
  \/ \E p \in Paths, at \in 0..Len(sequence) : AddClip(p, at)
  \/ \E k \in Positions : RemoveClip(k)
  \/ ClearSequence
  \/ \E from \in Positions, at \in 0..Len(sequence) : DropToken(from, at)
  \/ \E k \in Positions : ClickToken(k)
  \/ \E a \in {"start", "left", "right", "end"} : MoveSelected(a)
  \/ \E d \in {-1, 1} : KeyMove(d)
  \/ \E d \in {-1, 1} : KeySelect(d)

LibraryStep ==
  \/ \E p \in Paths : ClickCard(p)
  \/ \E p \in Paths : RemoveFromLibrary(p)
  \/ ClearLibrary

TransportStep ==
  \/ Play
  \/ Pause
  \/ Stop
  \/ \E d \in {-1, 1} : Skip(d)
  \/ ToggleLoop
  \/ NativePlay
  \/ NativePause

MediaStep == MediaTask \/ MediaStarts \/ MediaEnds \/ MediaFails

UserStep ==
  /\ Len(playback.tasks) < MaxTasks
  /\ StripStep \/ LibraryStep \/ TransportStep

Next == UserStep \/ MediaStep

\* Media elements settle their promises, start, and reach their end.
Spec == Init /\ [][Next]_vars /\ WF_vars(MediaTask) /\ WF_vars(MediaStarts)
             /\ WF_vars(MediaEnds)

------------------------------------------------------------------------------
(* Properties *)

\* Every piece of state has its type.
TypeOK ==
  /\ sequence \in Seq(Entry)
  /\ nextSeqId \in 1..(MaxClips + 1)
  /\ selectedPath \in Paths \union {NoPath}
  /\ selectedSeqId \in 0..MaxClips
  /\ playback \in Player

\* The clip that a Time edit, Move or Remove acts on has the path that the
\* library shows as selected, whatever was added, removed, reordered or played
\* since ("library and sequence stay in sync by path").
EditsHitSelection ==
  (Here >= 0 /\ selectedPath # NoPath) => sequence[Here + 1].path = selectedPath

\* Once the queued media tasks have run, a clip that is running counts as
\* playing, so its end brings the next clip: the late rejection of a replaced
\* clip cannot leave the player off.
RunningIsPlaying ==
  (HasVideo /\ ~playback.video.paused /\ ~playback.video.failed
     /\ playback.tasks = <<>>) => playback.playing

\* Clip a has a place before one of clip b in the strip.
Before(seq, a, b) ==
  \E m, n \in DOMAIN seq : m < n /\ seq[m].id = a /\ seq[n].id = b

\* No step loses, doubles or reorders clips but the one that it is about, unless
\* it clears the strip: the others all stay, once, and in their order.
OthersKeepOrder ==
  [][ \/ sequence' = <<>>
      \/ \E i \in 0..MaxClips : \A a \in (1..MaxClips) \ {i} :
           /\ (\E m \in DOMAIN sequence : sequence[m].id = a)
                <=> (\E m \in DOMAIN sequence' : sequence'[m].id = a)
           /\ \A b \in (1..MaxClips) \ {i} :
                Before(sequence, a, b) <=> Before(sequence', a, b) ]_vars

\* A show that is left alone, is not set to loop and is not paused in the
\* viewer comes to its end, whatever clips fail on the way.
ShowEnds ==
  (<>[][MediaStep]_vars)
    => []<>(~playback.playing \/ playback.loop \/ playback.video.paused)
==============================================================================
