----------------------------- MODULE MediaRepair -----------------------------
(***************************************************************************)
(* The page's index of the media files (app/static/js/media-index.js) and  *)
(* the bounded queues that fill its gaps (app/static/js/repair-queue.js):  *)
(* hashes, metadata and thumbnails are fetched for the files of the pools, *)
(* first in one idle scan, then whenever the user asks, while cards are    *)
(* painted from the index and files come and go.  One of the two frames of *)
(* a thumbnail pair is modelled; the other one has the same life.          *)
(***************************************************************************)
EXTENDS Naturals, Sequences, SequencesExt, FiniteSets, FiniteSetsExt

CONSTANTS
    Paths,      \* canonical paths
    Sizes,      \* thumbnail sizes: L, M, H
    DefaultSize,\* H unless the settings say otherwise
    Cap,        \* Cap[k]: MAX_HASH, MAX_PROBE, MAX_ENSURE
    MaxAsks     \* bound: actions of the user

Kinds == {"hash", "probe", "thumb"}
Slots == {"hash", "probe"} \cup Sizes
Statuses == {"known", "missing", "queued", "repairing", "failed"}

ASSUME CapAssumption == Cap \in [Kinds -> Nat \ {0}]
ASSUME PathsAssumption == IsFiniteSet(Paths)
ASSUME AskAssumption == MaxAsks \in Nat
ASSUME SizeAssumption == DefaultSize \in Sizes /\ Sizes \cap {"hash", "probe"} = {}

(* An item of a pool: what it remembers of its file; thumb is "absent"     *)
(* when the server said that there is no thumbnail yet (thumbs false).     *)
Items == [hash : BOOLEAN, meta : BOOLEAN, err : BOOLEAN,
          thumb : {"unset", "absent", "shown"}, tfail : BOOLEAN]
NewItem == [hash |-> FALSE, meta |-> FALSE, err |-> FALSE,
            thumb |-> "unset", tfail |-> FALSE]

VARIABLES
    rec,    \* globalMediaIndex.byPath: status of each slot, hash and meta held
    pool,   \* paths that have an item in a pool
    item,   \* the items
    queue,  \* hashQueue, probeQueue, thumbQueue
    flight, \* requests under way: path, slot, and whether its item is still there
    size,   \* settings.thumbnailSize
    hydrated, window, started, timer,   \* the gate of the idle scan
    asks    \* actions of the user so far

work == <<rec, item, queue, flight>>
gate == <<hydrated, window, started, timer>>
repairVars == <<work, pool, size, gate, asks>>

EmptyRecord == [st |-> [s \in Slots |-> "missing"], hash |-> FALSE, meta |-> FALSE]

RepairInit ==
    /\ rec = [p \in Paths |-> EmptyRecord]
    /\ pool = {}
    /\ item = [p \in Paths |-> NewItem]
    /\ queue = [k \in Kinds |-> <<>>]
    /\ flight = [k \in Kinds |-> <<>>]
    /\ size = DefaultSize
    /\ hydrated = FALSE /\ window = FALSE /\ started = FALSE /\ timer = FALSE
    /\ asks = 0

-----------------------------------------------------------------------------
(* The state the helpers below rewrite, one after the other.               *)
Now == [rec |-> rec, item |-> item, queue |-> queue, flight |-> flight]
Becomes(t) ==
    \E s \in {t} : /\ rec' = s.rec /\ item' = s.item
                   /\ queue' = s.queue /\ flight' = s.flight

Slot(k) == IF k = "thumb" THEN size ELSE k
Status(t, k, p) == t.rec[p].st[Slot(k)]
Mark(t, p, slot, st) == [t EXCEPT !.rec[p].st[slot] = st]

(* One turn of a drain loop: a free slot takes the head of its queue.      *)
Take(t, k, pl) ==
    IF t.queue[k] = <<>> \/ Len(t.flight[k]) = Cap[k] THEN t
    ELSE LET p == Head(t.queue[k])
         IN  [Mark(t, p, Slot(k), "repairing") EXCEPT
                 !.queue[k] = Tail(@),
                 !.flight[k] = Append(@, [path |-> p, slot |-> Slot(k), live |-> p \in pl])]

(* Mutant: a request under way does not refuse another one.                *)
RefusedIfQueued(t, k, p) ==
    \/ p \in ToSet(t.queue[k])
    \/ k = "hash" /\ Status(t, k, p) = "known" /\ t.rec[p].hash
    \/ k = "probe" /\ Status(t, k, p) = "known" /\ t.rec[p].meta
    \/ k = "thumb" /\ (Status(t, k, p) \in {"known", "failed"} \/ t.item[p].tfail)

Refused(t, k, p) ==
    \/ p \in ToSet(t.queue[k])
    \/ Status(t, k, p) = "repairing"
    \/ k = "hash" /\ Status(t, k, p) = "known" /\ t.rec[p].hash
    \/ k = "probe" /\ Status(t, k, p) = "known" /\ t.rec[p].meta
    \/ k = "thumb" /\ (Status(t, k, p) \in {"known", "failed"} \/ t.item[p].tfail)

(* If it is wanted and not refused, a repair of the slot of p is queued.   *)
Enqueued(t, want, k, p, pl) ==
    LET u == [Mark(t, p, Slot(k), "queued") EXCEPT !.queue[k] = Append(@, p)]
    IN  IF want /\ ~Refused(t, k, p) THEN Take(u, k, pl) ELSE t

(* A user's repair: failures are forgotten first when it is forced.        *)
Forgiven(t, p, pl) ==
    [t EXCEPT !.rec[p].st = [s \in Slots |-> IF s \in {"hash", "probe", size} /\ @[s] = "failed"
                                             THEN "missing" ELSE @[s]],
              !.item[p].err = @ /\ p \notin pl]

RepairItem(t, p, force, pl) ==
    LET f == IF force THEN Forgiven(t, p, pl) ELSE t
        h == Enqueued(f, ~f.rec[p].hash, "hash", p, pl)
        m == Enqueued(h, Status(h, "probe", p) # "known", "probe", p, pl)
    IN  Enqueued(m, Status(m, "thumb", p) # "known", "thumb", p, pl)

(* Mutant: everything that is not known is wanted.                         *)
WantUnknown(t, ks, p, pl) ==
    LET Wanted(u, k) == k \in ks /\ Status(u, k, p) # "known"
        h == Enqueued(t, Wanted(t, "hash"), "hash", p, pl)
        m == Enqueued(h, Wanted(h, "probe"), "probe", p, pl)
    IN  Enqueued(m, Wanted(m, "thumb"), "thumb", p, pl)

WantMissing(t, ks, p, pl) ==
    LET Wanted(u, k) == k \in ks /\ Status(u, k, p) = "missing"
        h == Enqueued(t, Wanted(t, "hash"), "hash", p, pl)
        m == Enqueued(h, Wanted(h, "probe"), "probe", p, pl)
    IN  Enqueued(m, Wanted(m, "thumb"), "thumb", p, pl)

(* Every item of the pool in turn: the idle scan, or the toolbar's repair. *)
RepairEach(t, scan, pl) ==
    FoldSet(LAMBDA p, u : IF scan THEN WantMissing(u, Kinds, p, pl)
                          ELSE RepairItem(u, p, FALSE, pl), t, pl)

(* index.put: the record learns what the item of its path says.            *)
HashPut(i, r) ==
    IF i.hash \/ r.hash THEN "known"
    ELSE IF r.st["hash"] = "known" THEN "missing" ELSE r.st["hash"]
MetaPut(i, r) ==
    IF i.meta THEN "known"
    ELSE IF i.err /\ r.st["probe"] # "known" THEN "failed" ELSE r.st["probe"]
ThumbPut(i, st) ==
    IF i.tfail THEN "failed"
    ELSE IF i.thumb = "shown" \/ (i.hash /\ i.thumb = "unset") THEN "known" ELSE st
Put(i, r) ==
    [st |-> [s \in Slots |-> IF s = "hash" THEN HashPut(i, r)
                             ELSE IF s = "probe" THEN MetaPut(i, r)
                             ELSE ThumbPut(i, r.st[s])],
     hash |-> r.hash \/ i.hash, meta |-> r.meta \/ i.meta]

PutAll(t, ps) ==
    [t EXCEPT !.rec = [p \in Paths |-> IF p \in ps THEN Put(t.item[p], @[p]) ELSE @[p]]]

-----------------------------------------------------------------------------
(* Answers.  What comes back is written to the record, and to the item that*)
(* was found when the request left.                                        *)
HashKnown(t, p) == [Mark(t, p, "hash", "known") EXCEPT !.rec[p].hash = TRUE]
MetaKnown(t, p) == [Mark(t, p, "probe", "known") EXCEPT !.rec[p].meta = TRUE]
OnItem(t, f, i) == IF f.live THEN [t EXCEPT !.item[f.path] = i] ELSE t

HashAnswer(t, f, ok, pl) ==
    LET i == t.item[f.path]
    IN  IF ok
        THEN WantMissing(OnItem(HashKnown(t, f.path), f, [i EXCEPT !.hash = TRUE]),
                         {"probe", "thumb"}, f.path, pl)
        ELSE OnItem(Mark(t, f.path, "hash", "failed"), f, [i EXCEPT !.err = TRUE])

(* Mutant: a failed probe tells the item and not the index.                *)
ProbeAnswerQuiet(t, f, ok, hashed) ==
    LET i == t.item[f.path]
    IN  IF ok THEN OnItem(MetaKnown(t, f.path), f, [i EXCEPT !.meta = TRUE, !.err = FALSE])
        ELSE OnItem(t, f, [i EXCEPT !.err = TRUE])

ProbeAnswer(t, f, ok, hashed) ==
    LET i == t.item[f.path]
        known == MetaKnown(t, f.path)
    IN  IF ok
        THEN OnItem(IF hashed THEN HashKnown(known, f.path) ELSE known, f,
                    [i EXCEPT !.meta = TRUE, !.hash = @ \/ hashed, !.err = FALSE])
        ELSE OnItem(Mark(t, f.path, "probe", "failed"), f, [i EXCEPT !.err = TRUE])

(* A refused thumbnail is remembered by the item, a lost request is not.   *)
ThumbAnswer(t, f, ok, lost) ==
    LET i == t.item[f.path]
    IN  IF ok THEN OnItem(Mark(t, f.path, f.slot, "known"), f, [i EXCEPT !.thumb = "shown"])
        ELSE IF lost THEN Mark(t, f.path, f.slot, "failed")
        ELSE OnItem(Mark(t, f.path, f.slot, "failed"), f, [i EXCEPT !.tfail = TRUE])

(* Mutant: the slot is freed and the queue is not looked at.               *)
ReleasedOnly(t, k, n, pl) == [t EXCEPT !.flight[k] = RemoveAt(@, n)]

(* The finally of a drain: the slot is free and the loop runs again.       *)
Released(t, k, n, pl) ==
    Take([t EXCEPT !.flight[k] = RemoveAt(@, n)], k, pl)

Answer(k) ==
    \E n \in 1..Len(flight[k]), ok, other \in BOOLEAN :
        LET f == flight[k][n]
        IN  /\ Becomes(Released(CASE k = "hash" -> HashAnswer(Now, f, ok, pool)
                                  [] k = "probe" -> ProbeAnswer(Now, f, ok, other)
                                  [] k = "thumb" -> ThumbAnswer(Now, f, ok, other), k, n, pool))
            /\ UNCHANGED <<pool, size, gate, asks>>

-----------------------------------------------------------------------------
(* The gate.                                                               *)
CanStartIdle(h, w) == h /\ w /\ ~started
ScheduleIdleStart(h, w) == timer' = (timer \/ CanStartIdle(h, w))

(* What a restored project may say of a file, completed by the server:     *)
(* nothing, everything, everything but a thumbnail, or that its probe and  *)
(* its thumbnail failed.                                                   *)
SavedItems ==
    LET Restored == [NewItem EXCEPT !.thumb = "absent"]
    IN  {Restored, [Restored EXCEPT !.hash = TRUE, !.meta = TRUE, !.thumb = "shown"],
         [Restored EXCEPT !.hash = TRUE, !.meta = TRUE],
         [Restored EXCEPT !.err = TRUE, !.tfail = TRUE]}

(* The items of ps are gone: what is under way no longer finds them.       *)
Orphaned(ps) ==
    [k \in Kinds |-> [n \in DOMAIN flight[k] |->
        [flight[k][n] EXCEPT !.live = @ /\ flight[k][n].path \notin ps]]]

(* A project is put on the desk: its items replace the ones there.         *)
Restore ==
    \E ps \in SUBSET Paths : \E saved \in [ps -> SavedItems] :
        LET t == [Now EXCEPT
                    !.item = [p \in Paths |-> IF p \in ps THEN saved[p] ELSE NewItem],
                    !.flight = Orphaned(Paths)]
        IN  /\ ~hydrated \/ asks < MaxAsks
            /\ asks' = IF hydrated THEN asks + 1 ELSE asks
            /\ Becomes(PutAll(t, ps))
            /\ pool' = ps
            /\ hydrated' = TRUE
            /\ ScheduleIdleStart(TRUE, window)
            /\ UNCHANGED <<size, window, started>>

(* renderPoolGrid: the cards in view are painted, between beginRender and  *)
(* endRender; the latter opens the gate.                                   *)
Render ==
    \E ps \in SUBSET pool \ {{}} :
        /\ Becomes(PutAll(Now, ps))
        /\ window' = TRUE
        /\ ScheduleIdleStart(hydrated, TRUE)
        /\ UNCHANGED <<pool, size, hydrated, started, asks>>

IdleStart ==
    /\ timer
    /\ timer' = FALSE
    /\ IF CanStartIdle(hydrated, window)
       THEN started' = TRUE /\ Becomes(RepairEach(Now, TRUE, pool))
       ELSE UNCHANGED <<started, work>>
    /\ UNCHANGED <<pool, size, hydrated, window, asks>>

-----------------------------------------------------------------------------
(* The user.                                                               *)
Asked == asks < MaxAsks /\ asks' = asks + 1

(* addPathsToPool; a folder scan then adds what the server knew of it: the *)
(* hash, and whether there is a thumbnail.                                 *)
FoundItems ==
    {NewItem, [NewItem EXCEPT !.hash = TRUE, !.thumb = "absent"],
     [NewItem EXCEPT !.hash = TRUE, !.thumb = "shown"]}

Import(p) ==
    \E found \in FoundItems :
        LET pl == pool \cup {p}
            t == RepairItem(PutAll([Now EXCEPT !.item[p] = NewItem], {p}), p, TRUE, pl)
        IN  /\ p \notin pool
            /\ Asked
            /\ pool' = pl
            /\ Becomes([t EXCEPT !.item[p] = found])
            /\ UNCHANGED <<size, gate>>

RemoveItem(p) ==
    /\ p \in pool
    /\ Asked
    /\ pool' = pool \ {p}
    /\ Becomes([Now EXCEPT !.item[p] = NewItem, !.flight = Orphaned({p})])
    /\ UNCHANGED <<rec, size, gate>>

(* Repair Metadata of the toolbar: every item, failures are asked again.   *)
RepairAll ==
    /\ Asked
    /\ Becomes(RepairEach(Now, FALSE, pool))
    /\ UNCHANGED <<pool, size, gate>>

(* The retry button of a card that has no metadata to show.                *)
Retry(p) ==
    /\ p \in pool /\ ~item[p].meta
    /\ item[p].err \/ rec[p].st["probe"] \notin {"queued", "repairing"}
    /\ Asked
    /\ Becomes(RepairItem(Now, p, TRUE, pool))
    /\ UNCHANGED <<pool, size, gate>>

SetSize(s) ==
    /\ s # size
    /\ Asked
    /\ size' = s
    /\ UNCHANGED <<work, pool, gate>>

RepairNext ==
    \/ \E k \in Kinds : Answer(k)
    \/ Restore \/ Render \/ IdleStart
    \/ \E p \in Paths : Import(p) \/ RemoveItem(p) \/ Retry(p)
    \/ RepairAll
    \/ \E s \in Sizes : SetSize(s)

(* A request ends, in an answer or an error, and a timer fires.            *)
Fairness == WF_repairVars(IdleStart) /\ \A k \in Kinds : WF_repairVars(Answer(k))

RepairSpec == RepairInit /\ [][RepairNext]_repairVars /\ Fairness

-----------------------------------------------------------------------------
RepairTypeOK ==
    /\ rec \in [Paths -> [st : [Slots -> Statuses], hash : BOOLEAN, meta : BOOLEAN]]
    /\ pool \subseteq Paths
    /\ item \in [Paths -> Items]
    /\ queue \in [Kinds -> Seq(Paths)]
    /\ flight \in [Kinds -> Seq([path : Paths, slot : Slots, live : BOOLEAN])]
    /\ size \in Sizes
    /\ {hydrated, window, started, timer} \subseteq BOOLEAN
    /\ asks \in 0..MaxAsks

InFlight(k) == {flight[k][n].path : n \in DOMAIN flight[k]}

(* A card that says queued or repairing tells the truth: the hash is in    *)
(* the queue, or its request is under way.  A record left in one of these  *)
(* states by a lost step would refuse every later repair of that file.     *)
BusyIsHeld ==
    \A p \in Paths :
        /\ rec[p].st["hash"] = "queued" => p \in ToSet(queue["hash"])
        /\ rec[p].st["hash"] = "repairing" => p \in InFlight("hash")
        /\ rec[p].st["probe"] = "queued" => p \in ToSet(queue["probe"])
        /\ rec[p].st["probe"] = "repairing" => p \in InFlight("probe")

(* The queues are work conserving and bounded: at most Cap requests of a   *)
(* kind are under way, and none waits while a slot is free.                *)
NoIdleSlot ==
    \A k \in Kinds : /\ Len(flight[k]) <= Cap[k]
                     /\ queue[k] # <<>> => Len(flight[k]) = Cap[k]

(* A file is hashed by at most one request at a time, whatever the user    *)
(* clicks and however often the cards are painted.                         *)
OneHashRequest ==
    \A p \in Paths : Cardinality({n \in DOMAIN flight["hash"] : flight["hash"][n].path = p}) <= 1

(* What failed is not tried again by the page on its own: only an action   *)
(* of the user puts a failed hash or probe back into a queue.              *)
FailedWaitsForUser ==
    [][\A p \in Paths, s \in {"hash", "probe"} :
          rec[p].st[s] = "failed" /\ rec'[p].st[s] \in {"queued", "repairing"} /\
          p \notin ToSet(queue[s])
             => asks' # asks]_repairVars

(* Every repair that was asked for comes to its end.                       *)
RepairsEnd == <>[](\A k \in Kinds : queue[k] = <<>> /\ flight[k] = <<>>)
==============================================================================
