----------------------------- MODULE InstantRife -----------------------------
(***************************************************************************)
(* Instant RIFE (app/static/js/pool/sequence.js): every clip of the stitch *)
(* sequence that is too sparse after its time stretch is encoded at a      *)
(* higher density, one clip at a time, while the user edits times, adds    *)
(* and removes clips, picks files, and presses Stop.  A density is the     *)
(* exponent of the multiplier: 0 is the original, k is the file with 2^k   *)
(* times its frames.  The page is one thread: a step runs from one await   *)
(* to the next; Settled says that no script is running.                    *)
(***************************************************************************)
EXTENDS Naturals, Sequences, FiniteSets, FiniteSetsExt

CONSTANTS
    Clips,      \* ids of sequence entries, in the order of the sequence
    Restored,   \* the clips of the session that was restored
    Source,     \* Source[c]: the source file of a clip
    MaxM,       \* largest density (7 in the code: x128)
    MaxTasks,   \* bound: scans, and passes of Instant, under way at a time
    MaxEdits    \* bound: actions of the user

ASSUME ClipsAssumption ==
    Clips \subseteq Nat \ {0} /\ IsFiniteSet(Clips) /\ Restored \subseteq Clips
ASSUME BoundAssumption == MaxM \in Nat \ {0} /\ MaxTasks \in Nat /\ MaxEdits \in Nat

Sources == {Source[c] : c \in Clips}
Slots == 1..MaxTasks
Densities == 0..MaxM
Statuses == {"none", "pending", "running", "done", "failed"}
Kinds == {"unset", "rifed", "needsRife", "noRifeNeeded"}
NoClip == [clip |-> 0, m |-> 0]
Unknown == {0}      \* no answer of the registry is cached

VARIABLES
    clip,      \* need: density the stretch asks for; have: _rifeMultiplier; var: variantPath
    present,   \* clips in the sequence
    registry,  \* densities registered for each source at the server
    cache,     \* _variantsCache
    fetch,     \* _variantsInflight: what the server may have answered by now
    queue,     \* _instantRifeQueue
    drain,     \* where _drainInstantRifeQueue is, with its clip and density
    stop,      \* _instantRifeStop
    restart,   \* _instantRifeRestart
    locked,    \* clientBusyLabel is set
    instant, useRife, hydrated,  \* the two switches and _hydrationComplete
    timer,     \* _kickRifeTimer is armed
    typing,    \* _durRifeTimer is armed
    scan,      \* where each run of _kickInstantRifeScan is
    attach,    \* where each run of ensureSequenceMetaAndInstantScan is
    late,      \* history: clips queued or superseded since Stop was pressed
    edits

page == <<clip, queue, drain, stop, restart, locked, late>>
caches == <<registry, cache, fetch>>
user == <<present, instant, edits>>
timers == <<timer, typing>>
vars == <<page, caches, user, useRife, hydrated, timers, scan, attach>>

NewClip == [need |-> 0, have |-> 0, var |-> 0, status |-> "none", kind |-> "unset"]
NoScan == [at |-> "idle", i |-> 0, clip |-> 0, data |-> {}, changed |-> FALSE]
NoAttach == [at |-> "idle", want |-> {}, seen |-> {}, next |-> 0, hits |-> 0]
Idle == [at |-> "idle", clip |-> 0, m |-> 0]

(* A session of sparse clips was restored, and Instant is on; of earlier   *)
(* sessions the server may have the densest files.                         *)
Init ==
    /\ present = Restored
    /\ clip = [c \in Clips |-> [NewClip EXCEPT !.need = IF c \in present THEN 1 ELSE 0]]
    /\ registry \in [Sources -> {{}, {MaxM}}]
    /\ cache = [s \in Sources |-> Unknown] /\ fetch = [s \in Sources |-> {}]
    /\ queue = <<>> /\ drain = Idle /\ stop = FALSE /\ restart = NoClip /\ locked = FALSE
    /\ instant = TRUE /\ useRife = TRUE /\ hydrated = TRUE
    /\ timer = FALSE /\ typing = FALSE
    /\ scan = [k \in Slots |-> NoScan] /\ attach = [k \in Slots |-> NoAttach]
    /\ late = {} /\ edits = 0

-----------------------------------------------------------------------------
(* What a clip needs *)

Usable(c) == c.var # 0 /\ c.have # 0
Covered(c) == Usable(c) /\ c.have >= c.need

(* refreshRifeNeed: the answer is kept in the clip. *)
Kind(c) ==
    IF Covered(c) THEN "rifed" ELSE IF c.need # 0 THEN "needsRife" ELSE "noRifeNeeded"
KnownKind(c) == IF c.kind = "unset" THEN Kind(c) ELSE c.kind

RifeNeeded(c) == useRife /\ c.need # 0 /\ ~Covered(c)

Best(data) == IF data = {} THEN 0 ELSE Max(data)

(* Mutant: the densest registered file is taken, however dense the clip is. *)
HydrateAny(c, data) ==
    IF data = {} THEN c
    ELSE [c EXCEPT !.have = Best(data), !.var = Best(data), !.status = "done"]

(* _hydrateEntryFromVariants, with the answer of the registry *)
Hydrate(c, data) ==
    LET known == IF c.var = 0 THEN c.have
                 ELSE IF c.var \in data THEN c.var
                 ELSE Max({c.have, 1})
        takes == Best(data) # 0 /\ (c.var = 0 \/ Best(data) >= known)
        d == [c EXCEPT !.have = IF takes THEN Best(data) ELSE known,
                       !.var = IF takes THEN Best(data) ELSE @]
    IN  IF Covered(d) THEN [d EXCEPT !.status = "done"] ELSE d

-----------------------------------------------------------------------------
(* The queue.  The operators map the state of the page to the next one. *)

Now == [clip |-> clip, queue |-> queue, drain |-> drain, stop |-> stop,
        restart |-> restart, locked |-> locked, hits |-> 0]

QueuedFor(s, e) == {i \in DOMAIN s.queue : s.queue[i].clip = e}
QueuedClips(s) == {s.queue[i].clip : i \in DOMAIN s.queue}

Late(s) ==
    IF ~s.stop THEN IF s.drain.at = "idle" THEN late ELSE {}
    ELSE IF ~stop THEN {}
    ELSE late \cup ((QueuedClips(s) \cup {s.restart.clip}) \cap Clips)

Becomes(t) ==
    \E s \in {t} :
        /\ clip' = s.clip /\ queue' = s.queue /\ drain' = s.drain
        /\ stop' = s.stop /\ restart' = s.restart /\ locked' = s.locked
        /\ late' = Late(s)

(* Mutant: the drain waits for the hydration gate. *)
DrainingGated(s) ==
    IF s.drain.at # "idle" \/ ~hydrated THEN s
    ELSE [s EXCEPT !.drain = [Idle EXCEPT !.at = "loop"], !.stop = FALSE, !.locked = TRUE]

(* The synchronous start of the drain. *)
Draining(s) ==
    IF s.drain.at # "idle" THEN s
    ELSE [s EXCEPT !.drain = [Idle EXCEPT !.at = "loop"], !.stop = FALSE, !.locked = TRUE]

(* _maybeSupersedeRunningRife: the running encode is cancelled softly. *)
Superseded(s, e) ==
    LET m == s.clip[e].need
    IN  IF s.drain.at # "encoding" \/ s.drain.clip # e THEN s
        ELSE IF m <= s.drain.m \/ (s.restart.clip = e /\ s.restart.m >= m)
        THEN [s EXCEPT !.hits = @ + 1]
        ELSE [s EXCEPT !.restart = [clip |-> e, m |-> m], !.locked = TRUE, !.hits = @ + 1]

(* _queueInstantRife *)
Queued(s, e) ==
    LET c == s.clip[e]
    IN  IF c.var # 0 /\ c.have >= c.need THEN [s EXCEPT !.clip[e].status = "done"]
        ELSE IF c.status = "failed" THEN s
        ELSE IF c.status = "running" THEN Superseded(s, e)
        ELSE IF QueuedFor(s, e) = {}
        THEN Draining([s EXCEPT !.clip[e].status = "pending", !.hits = @ + 1,
                                !.queue = Append(@, [clip |-> e, m |-> c.need])])
        ELSE LET i == Min(QueuedFor(s, e))
             IN  IF c.need > s.queue[i].m
                 THEN [s EXCEPT !.queue[i].m = c.need, !.hits = @ + 1] ELSE s

(* Pending clips among those given are shown as idle again. *)
Unqueued(s, es, statuses) ==
    [c \in Clips |-> IF c \in es /\ s.clip[c].status \in statuses
                     THEN [s.clip[c] EXCEPT !.status = "none"] ELSE s.clip[c]]

(* Mutant: the clips keep their status. *)
EndedAsTheyAre(s) == [s EXCEPT !.drain = Idle, !.locked = FALSE, !.stop = FALSE]

(* The outer finally clause of the drain. *)
Ended(s) ==
    [s EXCEPT !.drain = Idle, !.locked = FALSE, !.stop = FALSE,
              !.clip = IF s.stop THEN Unqueued(s, present, {"pending", "running"}) ELSE @]

Encoding(s, e, m) ==
    [s EXCEPT !.clip[e].status = "running",
              !.drain = [at |-> "encoding", clip |-> e, m |-> m]]

(* Mutant: the clip that is encoded again is not shown as waiting. *)
RequeuedAsIs(s, e, m) ==
    [s EXCEPT !.drain = [Idle EXCEPT !.at = "loop"], !.restart = NoClip,
              !.queue = <<[clip |-> e, m |-> m]>> \o @]

Looping(s) == [s EXCEPT !.drain = [Idle EXCEPT !.at = "loop"]]
Requeued(s, e, m) ==
    Looping([s EXCEPT !.clip[e].status = "pending", !.restart = NoClip,
                      !.queue = <<[clip |-> e, m |-> m]>> \o @])

(* One turn of the loop, up to its await. *)
TakeJob ==
    /\ drain.at = "loop"
    /\ LET e == Head(queue).clip
           s == [Now EXCEPT !.queue = Tail(@), !.locked = TRUE]
       IN  Becomes(IF queue = <<>> \/ stop THEN Ended(Now)
                   ELSE IF e \notin present THEN [Now EXCEPT !.queue = Tail(@)]
                   ELSE IF ~RifeNeeded(clip[e])
                   THEN [s EXCEPT !.clip[e].status = IF clip[e].var # 0 THEN "done" ELSE "none"]
                   ELSE IF clip[e].var = 0 THEN Encoding(s, e, clip[e].need)
                   ELSE [s EXCEPT !.drain = [at |-> "recovering", clip |-> e, m |-> clip[e].need]])
    /\ UNCHANGED <<caches, user, useRife, hydrated, timers, scan, attach>>

Settled ==
    /\ drain.at # "loop"
    /\ \A k \in Slots : scan[k].at \notin {"step", "answered"} /\ attach[k].at # "step"

(* _recoverMissingVariant is answered: the file of the clip is there; it   *)
(* is not, and the server found d, the same file elsewhere or another one  *)
(* of the source; or nothing was found.  Nobody looks at stop here.        *)
RecoverAnswered(outcome, d) ==
    LET e == drain.clip
        m == drain.m
        c == IF outcome # "found" THEN clip[e]
             ELSE [clip[e] EXCEPT !.var = d, !.have = IF @ = 0 THEN m ELSE @]
        s == [Now EXCEPT !.clip[e] = c]
    IN  /\ Settled /\ drain.at = "recovering"
        /\ d \in {clip[e].var} \cup registry[Source[e]]
        /\ Becomes(IF outcome # "missing" /\ c.have >= m
                   THEN Looping([s EXCEPT !.clip[e].status = "done"])
                   ELSE Encoding(s, e, m))
        /\ UNCHANGED <<caches, user, useRife, hydrated, timers, scan, attach>>

(* The promotion of a successful encode and the choice of the next pass *)
Promoted(e, m) ==
    LET c == IF clip[e].var = 0 \/ m >= clip[e].have
             THEN [clip[e] EXCEPT !.var = m, !.have = m] ELSE clip[e]
        want == Max({IF RifeNeeded(c) THEN c.need ELSE 0,
                     IF restart.clip = e THEN restart.m ELSE 0})
        s == [Now EXCEPT !.clip[e] = c, !.restart = NoClip]
    IN  IF want > c.have THEN Requeued(s, e, want)
        ELSE Looping([s EXCEPT !.clip[e].status = "done"])

(* What the server may have for the source when an encode is over: it made *)
(* the file or not, and after a promotion the sparser files may be gone.   *)
FilesLeft(outcome, promotes, e, m) ==
    LET had == registry[Source[e]]
        stale == {d \in had : d < Max({m, clip[e].have}) /\ d # clip'[e].var}
    IN  IF promotes THEN {had \cup {m}, (had \cup {m}) \ stale}
        ELSE IF outcome = "ok" THEN {had \cup {m}}
        ELSE IF outcome \in {"cancelled", "error"} THEN {had, had \cup {m}} ELSE {had}

(* runOpWithCancel is over: it answers ok, failed or cancelled, or it      *)
(* throws, as the page or the server was busy or for some other reason.    *)
EncodeEnds(outcome) ==
    LET e == drain.clip
        m == drain.m
        src == Source[e]
        cancelled == outcome = "cancelled" \/ (stop /\ outcome \in {"ok", "failed"})
        promotes == outcome = "ok" /\ ~cancelled
    IN  /\ Settled /\ drain.at = "encoding"
        /\ CASE (cancelled \/ outcome \in {"busy", "error"}) /\ restart.clip = e ->
                  Becomes(Requeued(Now, e, restart.m))
             [] cancelled /\ restart.clip # e ->
                  Becomes(Ended([Now EXCEPT !.queue = <<>>, !.clip =
                      Unqueued([Now EXCEPT !.clip[e].status = "none"], QueuedClips(Now) \cap present, {"pending"})]))
             [] promotes -> Becomes(Promoted(e, m))
             [] (outcome = "busy" \/ (outcome = "error" /\ stop)) /\ restart.clip # e ->
                  Becomes(Ended([Now EXCEPT !.clip[e].status = "none", !.queue = <<>>]))
             [] OTHER -> Becomes(Looping([Now EXCEPT !.clip[e].status = "failed"]))
        /\ \E data \in FilesLeft(outcome, promotes, e, m) : registry' = [registry EXCEPT ![src] = data]
        /\ cache' = IF promotes THEN [cache EXCEPT ![src] = Unknown] ELSE cache
        /\ fetch' = [s \in Sources |-> IF fetch[s] = {} THEN {} ELSE fetch[s] \cup {registry'[s]}]
        /\ attach' = [k \in Slots |-> IF attach[k].at # "asking" THEN attach[k]
                                      ELSE [attach[k] EXCEPT !.seen = @ \cup {registry'}]]
        /\ UNCHANGED <<user, useRife, hydrated, timers, scan>>

-----------------------------------------------------------------------------
(* The scan of the sequence (_kickInstantRifeScan), 120 ms after a render  *)
(* that saw an idle clip in need, whether or not one is under way.         *)

TimerFires ==
    /\ Settled /\ timer
    /\ timer' = FALSE
    /\ IF ~instant \/ ~useRife THEN UNCHANGED scan
       ELSE \E k \in Slots : /\ scan[k] = NoScan /\ \A j \in 1..(k - 1) : scan[j] # NoScan
                             /\ scan' = [scan EXCEPT ![k].at = "step"]
    /\ UNCHANGED <<page, caches, user, useRife, hydrated, typing, attach>>

(* The answers that a cache of 15 seconds may give *)
Peeked(s) == {{}} \cup ({cache[s]} \ {Unknown})

(* The rest of the visit of a clip, its variants being known *)
ScanVisits(k, data) ==
    LET e == scan[k].clip
        c == Hydrate(clip[e], data)
        s == [Now EXCEPT !.clip[e] = c]
        t == IF RifeNeeded(c) THEN Queued(s, e) ELSE s
    IN  /\ Becomes(t)
        /\ scan' = [scan EXCEPT ![k] = [NoScan EXCEPT !.at = "step", !.i = scan[k].i,
                                                      !.changed = scan[k].changed \/ t.hits > 0]]

(* The index of a clip in the sequence *)
Place(e) == Cardinality({c \in present : c <= e})

(* One turn of the scan, which walks the array by index: a cached answer   *)
(* is used, or it is too old and the registry is asked.                    *)
ScanStep(k) ==
    LET i == scan[k].i + 1
        trusted(e) == Usable(clip[e]) /\ ~RifeNeeded(clip[e])
    IN  /\ scan[k].at = "step" /\ drain.at # "loop"
        /\ \/ /\ i > Cardinality(present)
              /\ Becomes(IF scan[k].changed THEN Draining(Now) ELSE Now)
              /\ scan' = [scan EXCEPT ![k] = NoScan]
              /\ UNCHANGED fetch
           \/ \E e \in present :
                 /\ Place(e) = i /\ trusted(e)
                 /\ Becomes([Now EXCEPT !.clip[e].status = "done"])
                 /\ scan' = [scan EXCEPT ![k].i = i]
                 /\ UNCHANGED fetch
           \/ \E e \in present :
                 /\ Place(e) = i /\ ~trusted(e) /\ cache[Source[e]] # Unknown
                 /\ scan' = [scan EXCEPT ![k] = [@ EXCEPT !.at = "answered", !.i = i, !.clip = e,
                                                          !.data = cache[Source[e]]]]
                 /\ UNCHANGED <<page, fetch>>
           \/ \E e \in present :
                 /\ Place(e) = i /\ ~trusted(e)
                 /\ scan' = [scan EXCEPT ![k] = [@ EXCEPT !.at = "waiting", !.i = i, !.clip = e]]
                 /\ fetch' = [fetch EXCEPT ![Source[e]] = IF @ = {} THEN {registry[Source[e]]} ELSE @]
                 /\ UNCHANGED page
        /\ UNCHANGED <<registry, cache, user, useRife, hydrated, timers, attach>>

(* The scan goes on with the answer that it waited for. *)
ScanResumes(k) ==
    /\ scan[k].at = "answered" /\ drain.at # "loop"
    /\ ScanVisits(k, scan[k].data)
    /\ UNCHANGED <<caches, user, useRife, hydrated, timers, attach>>

Told(s, data) ==
    scan' = [k \in Slots |-> IF scan[k].at = "waiting" /\ Source[scan[k].clip] = s
                             THEN [scan[k] EXCEPT !.at = "answered", !.data = data] ELSE scan[k]]

(* _fetchVariants: one request per source is under way, whoever asks, and  *)
(* the server looks at some time between the question and the answer.      *)
FetchAnswered(s) ==
    /\ Settled /\ fetch[s] # {}
    /\ fetch' = [fetch EXCEPT ![s] = {}]
    /\ \/ \E data \in fetch[s] : cache' = [cache EXCEPT ![s] = data] /\ Told(s, data)
       \/ \E data \in Peeked(s) : UNCHANGED cache /\ Told(s, data)
    /\ UNCHANGED <<page, registry, user, useRife, hydrated, timers, attach>>

-----------------------------------------------------------------------------
(* Turning Instant on, and changes of the target: the clips without an     *)
(* answer ask the registry, then every clip in need is queued              *)
(* (ensureSequenceMetaAndInstantScan).                                     *)

Answered(c) == c.kind \in {"rifed", "noRifeNeeded"} \/ Usable(c)

(* attachCachedRifeVariants before its await *)
Recognised(c) ==
    IF ~Answered(c) THEN c
    ELSE LET k == IF c.kind = "unset" THEN "rifed" ELSE c.kind
         IN  [c EXCEPT !.kind = k, !.status = IF k = "rifed" THEN "done" ELSE @]

(* and after it *)
Attached(c, data) ==
    IF Usable(c) \/ Best(data) = 0 THEN c
    ELSE LET d == [c EXCEPT !.var = Best(data), !.have = Best(data), !.status = "done"]
         IN  [d EXCEPT !.kind = Kind(d)]

(* One clip of the loop that queues *)
Ensured(s, e) ==
    LET c == s.clip[e]
        k == IF KnownKind(c) = "needsRife" /\ ~RifeNeeded(c) THEN Kind(c) ELSE KnownKind(c)
        t == [s EXCEPT !.clip[e].kind = k,
                       !.clip[e].status = IF KnownKind(c) = "rifed" THEN "done" ELSE @]
    IN  IF k = "needsRife" /\ RifeNeeded(c) THEN Queued(t, e) ELSE t

(* One turn of the loop; drains that it starts run up to their await.  A   *)
(* pass that queued nothing gives the page back, though a drain may hold   *)
(* it.                                                                     *)
EnsureStep(k) ==
    LET rest == {c \in present : c > attach[k].next}
        e == Min(rest)
    IN  /\ attach[k].at = "step" /\ drain.at # "loop"
        /\ IF rest = {}
           THEN /\ Becomes(IF attach[k].hits > 0 THEN Draining(Now) ELSE [Now EXCEPT !.locked = FALSE])
                /\ attach' = [attach EXCEPT ![k] = NoAttach] /\ hydrated' = TRUE
           ELSE /\ Becomes(Ensured(Now, e))
                /\ attach' = [attach EXCEPT ![k].next = e, ![k].hits = @ + Ensured(Now, e).hits]
                /\ UNCHANGED hydrated
        /\ UNCHANGED <<caches, user, useRife, timers, scan>>

(* A pass begins, whether or not others wait for the registry.             *)
EnsureBegins(s) ==
    LET asked == {Source[e] : e \in {c \in present : ~Answered(s.clip[c])}}
    IN  /\ useRife' = TRUE /\ hydrated' = (present = {})
        /\ IF present = {} THEN UNCHANGED attach
           ELSE \E k \in Slots :
                   /\ attach[k] = NoAttach /\ \A j \in 1..(k - 1) : attach[j] # NoAttach
                   /\ attach' = [attach EXCEPT ![k] = [NoAttach EXCEPT
                          !.at = IF asked = {} THEN "step" ELSE "asking", !.want = asked,
                          !.seen = IF asked = {} THEN {} ELSE {registry}]]
        /\ Becomes([s EXCEPT !.clip =
               [e \in Clips |-> IF e \in present THEN Recognised(s.clip[e]) ELSE s.clip[e]]])

(* The batch is answered, in full or not at all, and the clips without a   *)
(* file take the densest that is known.                                    *)
AttachAnswered(k, told) ==
    /\ Settled /\ attach[k].at = "asking" /\ told \in {attach[k].want, {}}
    /\ attach' = [attach EXCEPT ![k] = [NoAttach EXCEPT !.at = "step"]]
    /\ \E answer \in attach[k].seen, peek \in [Sources -> SUBSET (1..MaxM)] :
          LET data == [s \in Sources |-> IF s \in told THEN answer[s] ELSE peek[s]]
          IN  /\ \A s \in Sources : peek[s] \in Peeked(s)
              /\ cache' = [s \in Sources |-> IF s \in told THEN answer[s] ELSE cache[s]]
              /\ Becomes([Now EXCEPT !.clip = [e \in Clips |->
                     IF e \in present THEN Attached(clip[e], data[Source[e]]) ELSE clip[e]]])
    /\ UNCHANGED <<registry, fetch, user, useRife, hydrated, timers, scan>>

-----------------------------------------------------------------------------
(* The user *)

Edits == Settled /\ edits < MaxEdits /\ edits' = edits + 1

(* The end of renderSequenceBox: the idle clips are looked at up to the    *)
(* first in need, each answer is kept, and one in need arms the timer.     *)
Drawing == hydrated /\ instant /\ useRife
IdleClips(s, es) ==
    {e \in es : s.clip[e].status \notin {"pending", "running", "failed"} /\ QueuedFor(s, e) = {}}
IdleNeed(s, es) == {e \in IdleClips(s, es) : KnownKind(s.clip[e]) = "needsRife"}
Rendered(s, es) ==
    [s EXCEPT !.clip = [e \in Clips |->
        IF Drawing /\ e \in IdleClips(s, es) /\ \A h \in IdleNeed(s, es) : e <= h
        THEN [s.clip[e] EXCEPT !.kind = KnownKind(s.clip[e])] ELSE s.clip[e]]]
Kicked(s, es) == timer' = (timer \/ (Drawing /\ IdleNeed(s, es) # {}))

(* _maybeAutoRifeEntry *)
AutoQueued(s, e) ==
    LET c == s.clip[e]
    IN  IF ~instant \/ ~useRife THEN s
        ELSE IF Usable(c) THEN [s EXCEPT !.clip[e].status = "done"]
        ELSE IF RifeNeeded(c) THEN Queued(s, e)
        ELSE [s EXCEPT !.clip[e].status =
                  IF @ \in {"running", "pending", "failed"} THEN @ ELSE "none"]

(* A clip starts with the file that is selected for its source, but not    *)
(* with its multiplier.                                                    *)
AddClip(e, need, d) ==
    /\ Edits /\ e \notin present /\ clip[e] = NewClip
    /\ d \in {0} \cup registry[Source[e]]
    /\ present' = present \cup {e}
    /\ LET s == [Now EXCEPT !.clip[e] = [NewClip EXCEPT !.need = need, !.var = d]]
       IN  Becomes(AutoQueued(Rendered(s, present'), e)) /\ Kicked(s, present')
    /\ UNCHANGED <<caches, instant, useRife, hydrated, typing, scan, attach>>

RemoveClip(e) ==
    /\ Edits /\ e \in present
    /\ present' = present \ {e}
    /\ Becomes(Rendered(Now, present')) /\ Kicked(Now, present')
    /\ UNCHANGED <<caches, instant, useRife, hydrated, typing, scan, attach>>

(* onSeqClipDurationChange, on a change and on every blur of the field *)
CommitTime(e, need) ==
    /\ Edits /\ e \in present
    /\ LET kept == clip[e].status = "done" /\ clip[e].var # 0
           s == [Now EXCEPT !.clip[e].need = need,
                            !.clip[e].status = IF kept THEN @ ELSE "none"]
       IN  Becomes(AutoQueued(s, e))
    /\ UNCHANGED <<caches, present, instant, useRife, hydrated, timers, scan, attach>>

(* The time is typed; 250 ms after the last key the sequence is rendered   *)
(* and a pass begins.                                                      *)
TypeTime(e, need) ==
    /\ Edits /\ e \in present /\ need # clip[e].need
    /\ typing' = TRUE
    /\ Becomes([Now EXCEPT !.clip[e].need = need])
    /\ UNCHANGED <<caches, present, instant, useRife, hydrated, timer, scan, attach>>

Redone(s) ==
    /\ Kicked(s, present)
    /\ IF instant /\ useRife THEN EnsureBegins(Rendered(s, present))
       ELSE Becomes(Rendered(s, present)) /\ UNCHANGED <<useRife, hydrated, attach>>

TypingRests ==
    /\ Settled /\ typing
    /\ typing' = FALSE
    /\ Redone(Now)
    /\ UNCHANGED <<caches, user, scan>>

(* The button that clears the time; a new target works alike on all clips. *)
ClearTime(e) ==
    /\ Edits /\ e \in present /\ clip[e].need # 0
    /\ Redone([Now EXCEPT !.clip[e].need = 0])
    /\ UNCHANGED <<caches, present, instant, typing, scan>>

Toggle ==
    /\ Edits
    /\ instant' = ~instant
    /\ IF instant THEN UNCHANGED <<page, useRife, hydrated, attach>>
       ELSE EnsureBegins([Now EXCEPT !.clip = Unqueued(Now, present, {"failed"})])
    /\ UNCHANGED <<caches, present, timers, scan>>

ToggleRife ==
    /\ Edits
    /\ useRife' = ~useRife
    /\ UNCHANGED <<page, caches, present, instant, hydrated, timers, scan, attach>>

(* The menu of a clip: the original, its own file, or a registered one.    *)
PickVariant(e, d) ==
    /\ Edits /\ e \in present /\ d \in {0, clip[e].var} \cup registry[Source[e]]
    /\ LET c == clip[e]
           m == IF d = c.var /\ c.have # 0 THEN c.have
                ELSE IF d \in registry[Source[e]] THEN d ELSE 1
       IN  Becomes([Now EXCEPT !.clip[e] =
               IF d # 0 THEN [c EXCEPT !.var = d, !.have = m, !.status = "done"]
               ELSE [c EXCEPT !.var = 0, !.status = IF c.have >= c.need THEN "done" ELSE @]])
    /\ UNCHANGED <<caches, present, instant, useRife, hydrated, timers, scan, attach>>

(* Stop, while the page is held or an encode is in flight: the hook of     *)
(* _bindInstantRifeStopHook, then abortMainJob, which gives the page back  *)
(* when no encode is in flight.                                            *)
UserStop ==
    /\ Edits /\ (locked \/ drain.at = "encoding")
    /\ LET s == [Now EXCEPT !.restart = NoClip, !.locked = @ /\ drain.at = "encoding"]
           t == [s EXCEPT !.stop = TRUE, !.queue = <<>>,
                          !.clip = Unqueued(s, QueuedClips(s) \cap present, {"pending"})]
       IN  IF queue = <<>>
           THEN Becomes(IF drain.at = "idle" THEN s ELSE t) /\ UNCHANGED timer
           ELSE Becomes(Rendered(t, present)) /\ Kicked(t, present)
    /\ UNCHANGED <<caches, present, instant, useRife, hydrated, typing, scan, attach>>

-----------------------------------------------------------------------------
Outcomes == {"ok", "failed", "cancelled", "busy", "error"}
Runs ==
    \/ TakeJob
    \/ \E o \in {"exists", "found", "missing"}, d \in Densities : RecoverAnswered(o, d)
    \/ \E o \in Outcomes : EncodeEnds(o)
Answers ==
    \/ TimerFires \/ TypingRests
    \/ \E k \in Slots : \/ ScanStep(k) \/ ScanResumes(k) \/ EnsureStep(k)
                        \/ \E told \in SUBSET Sources : AttachAnswered(k, told)
    \/ \E s \in Sources : FetchAnswered(s)
User ==
    \/ \E e \in Clips : \/ RemoveClip(e) \/ ClearTime(e)
                        \/ \E d \in Densities : \/ \E n \in Densities : AddClip(e, n, d)
                                                \/ CommitTime(e, d) \/ TypeTime(e, d)
                                                \/ PickVariant(e, d)
    \/ Toggle \/ ToggleRife \/ UserStop

Next == Runs \/ Answers \/ User

(* Scripts run on, timers fire, requests are answered and encodes come to  *)
(* an end: as long as any of these can happen, something does.             *)
Spec == Init /\ [][Next]_vars /\ WF_vars(Runs \/ Answers)

-----------------------------------------------------------------------------
(* Correctness *)

TypeOK ==
    /\ clip \in [Clips -> [need : Densities, have : Densities, var : Densities,
                           status : Statuses, kind : Kinds]]
    /\ present \subseteq Clips
    /\ registry \in [Sources -> SUBSET (1..MaxM)]
    /\ queue \in Seq([clip : Clips, m : Densities])
    /\ drain \in [at : {"idle", "loop", "recovering", "encoding"}, clip : Clips \cup {0}, m : Densities]
    /\ drain.at \in {"recovering", "encoding"} <=> drain.clip # 0
    /\ restart \in {NoClip} \cup [clip : Clips, m : Densities]
    /\ stop \in BOOLEAN /\ locked \in BOOLEAN /\ late \subseteq Clips

(* A clip is shown as encoding (RUN) only while its encode is in flight,   *)
(* however that encode ended: answered, refused, cancelled, superseded,    *)
(* thrown, its clip removed or edited meanwhile (sequence.js:902-1066).    *)
RunIsEncoding ==
    \A e \in Clips : clip[e].status = "running" => drain.at = "encoding" /\ drain.clip = e

(* "keep the highest frame density we ever produce" (sequence.js:263): a   *)
(* clip that stitches a densified file whose density the page knows moves  *)
(* to a sparser one only when the user picks it or when its file was       *)
(* missing and another was found, although answers of the registry are old *)
(* when they are used and encodes of several densities follow each other.  *)
(* The page does not know the density of a file that a clip was added with *)
(* (sequence.js:1440) until an answer of the registry has it, nor that of  *)
(* a file found for a missing one: such a file may give way to a sparser.  *)
NeverThinner ==
    [][\A e \in Clips :
          clip[e].var # 0 /\ clip[e].have = clip[e].var /\ clip'[e].var < clip[e].var
              => \E d \in Densities : PickVariant(e, d) \/ RecoverAnswered("found", d)]_vars

(* As long as nobody presses Stop, the queue is drained in the end: no job *)
(* is left behind by a drain that failed, was refused or was over just     *)
(* when the job was pushed.                                                *)
QueueEnds == <>stop \/ (queue # <<>> ~> queue = <<>>)

(* Stop ends the batch, whatever is queued while the last encode comes to  *)
(* its end: the drain leaves, no clip has the status of one that waits or  *)
(* is encoded, and no job from before the Stop is left.  A job may be left *)
(* of a clip that was queued or superseded after the Stop (the drain puts  *)
(* the superseded one back at sequence.js:930 and leaves at 855): such a   *)
(* clip shows Q (300) and waits until another one starts a drain.          *)
StopEndsBatch ==
    stop ~> /\ drain.at = "idle" /\ QueuedClips(Now) \subseteq late
            /\ \A e \in present : clip[e].status \notin {"pending", "running"}
=============================================================================
