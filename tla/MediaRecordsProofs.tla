------------------------- MODULE MediaRecordsProofs -------------------------
(***************************************************************************)
(* Proofs about MediaRecords: its state is well typed, what is shown is on *)
(* disk or flagged, a history is never erased, and the lock is enough for  *)
(* those who take it.                                                      *)
(***************************************************************************)
EXTENDS MediaRecords, TLAPS, FiniteSetTheorems

USE TaskAssumption, BoundAssumption

-----------------------------------------------------------------------------
(* A slot that no record and no dict refers to: there is one more slot     *)
(* than can be referred to.                                                *)

Used(s, i) == i = s.rec.ref \/ \E t \in Tasks : i = copy[t].ref

LEMMA FreshExists == ASSUME NEW s PROVE Fresh(s) \in Slots /\ ~Used(s, Fresh(s))
<1>1. SUFFICES \E i \in Slots : ~Used(s, i)
  BY DEF Fresh, Used
<1>2. SUFFICES ASSUME \A i \in Slots : Used(s, i) PROVE FALSE
  OBVIOUS
<1> DEFINE T == Tasks \cup {Nobody}
           n == Cardinality(Tasks)
           f == [i \in Slots |-> IF i = s.rec.ref THEN Nobody
                                 ELSE CHOOSE t \in Tasks : i = copy[t].ref]
<1>3. n \in Nat
  BY FS_CardinalityType
<1>4. IsFiniteSet(T) /\ Cardinality(T) = n + 1
  BY FS_AddElement
<1>5. IsFiniteSet(Slots) /\ Cardinality(Slots) = n + 2
  <2>1. Slots = 1..(n + 2)
    BY DEF Slots
  <2> HIDE DEF n
  <2>2. 1 \in Int /\ n + 2 \in Int /\ ~(1 > n + 2) /\ (n + 2) - 1 + 1 = n + 2
    BY <1>3
  <2>3. IsFiniteSet(1..(n + 2)) /\ Cardinality(1..(n + 2)) = (n + 2) - 1 + 1
    BY <2>2, FS_Interval
  <2> QED BY <2>1, <2>2, <2>3
<1>6. \A i \in Slots : i # s.rec.ref => f[i] \in Tasks /\ i = copy[f[i]].ref
  BY <1>2 DEF Used
<1>7. f \in [Slots -> T]
  BY <1>6
<1>8. PICK x, y \in Slots : x # y /\ f[x] = f[y]
  <2> HIDE DEF f, T, n
  <2> QED BY <1>3, <1>4, <1>5, <1>7, FS_PigeonHole
<1>9. x # s.rec.ref \/ y # s.rec.ref
  BY <1>8
<1>10. f[x] # Nobody /\ f[y] # Nobody
  BY <1>6, <1>8, <1>9
<1> QED BY <1>6, <1>8, <1>10

-----------------------------------------------------------------------------
(* What the operators on a saved state do. *)

Histories == Seq(1..MaxEvents)
Stores == [heap : [Slots -> SUBSET Variants], rec : Dicts, disk : Files,
           flagged : BOOLEAN, unsaved : BOOLEAN, unread : Nat, faults : Nat]
Consistent(s) ==
    s.rec.ref # 0 /\ ~s.flagged /\ ~s.unsaved =>
        s.disk.written /\ s.disk.variants = s.heap[s.rec.ref] /\ s.disk.meta = s.rec.meta
Remembers(s, old) ==
    /\ s.unread >= old.unread
    /\ old.disk.history # <<>> /\ s.unread = old.unread => s.disk.history # <<>>

LEMMA StoreType == TypeOK => Store \in Stores
BY DEF TypeOK, Store, Stores

LEMMA MergedType ==
    ASSUME NEW a \in Histories, NEW b \in Histories
    PROVE  Merged(a, b) \in Histories /\ (a # <<>> => Merged(a, b) # <<>>)
BY DEF Merged

LEMMA RemembersAll ==
    ASSUME NEW a \in Stores, NEW b \in Stores, NEW c \in Stores, Remembers(b, a), Remembers(c, b)
    PROVE  Remembers(c, a)
BY DEF Remembers, Stores

LEMMA PersistedFacts ==
    ASSUME NEW s \in Stores, s.rec.ref \in Slots, NEW h \in Histories, NEW outcome \in Outcomes
    PROVE  LET p == Persisted(s, h, outcome)
           IN  /\ p \in Stores /\ p.heap = s.heap /\ p.rec = s.rec
               /\ Consistent(p) /\ Remembers(p, s)
<1> DEFINE old == Read(s, outcome)
           d == [written |-> TRUE, history |-> Merged(old, h),
                 variants |-> s.heap[s.rec.ref], meta |-> s.rec.meta]
           n == IF outcome = "unread" THEN 1 ELSE 0
           p == Persisted(s, h, outcome)
<1>1. /\ s.disk.history \in Histories /\ s.heap[s.rec.ref] \in SUBSET Variants
      /\ s.rec.meta \in BOOLEAN /\ <<>> \in Histories /\ s.unread \in Nat /\ s.faults \in Nat
  BY DEF Stores, Dicts, Files, Histories
<1>2. old \in Histories /\ (outcome # "unread" => old = s.disk.history)
  BY <1>1 DEF Read
<1>3. d \in Files /\ (outcome # "unread" /\ s.disk.history # <<>> => d.history # <<>>)
  <2> HIDE DEF old
  <2> QED BY <1>1, <1>2, MergedType DEF Files, Histories
<1>4. CASE outcome \in {"written", "unread"}
  <2>1. p = Written(s, h, outcome)
    BY <1>4 DEF Persisted
  <2>2. p = [heap |-> s.heap, rec |-> s.rec, disk |-> d, flagged |-> FALSE, unsaved |-> FALSE,
             unread |-> s.unread + n, faults |-> s.faults + n]
    <3>1. p = [s EXCEPT !.disk = d, !.flagged = FALSE, !.unsaved = FALSE,
                        !.unread = IF outcome = "unread" THEN @ + 1 ELSE @,
                        !.faults = IF outcome = "unread" THEN @ + 1 ELSE @]
      BY <2>1 DEF Written
    <3>2. p = [s EXCEPT !.disk = d, !.flagged = FALSE, !.unsaved = FALSE,
                        !.unread = s.unread + n, !.faults = s.faults + n]
      <4>1. CASE outcome = "unread"
        BY <3>1, <4>1
      <4>2. CASE outcome # "unread"
        <5>1. s.unread + n = s.unread /\ s.faults + n = s.faults
          BY <1>1, <4>2
        <5> HIDE DEF d, p
        <5> QED BY <3>1, <4>2, <5>1
      <4> QED BY <4>1, <4>2
    <3> HIDE DEF d, p, n
    <3> QED BY <3>2 DEF Stores
  <2> HIDE DEF p, old
  <2>3. /\ p.disk.written = TRUE /\ p.disk.variants = p.heap[p.rec.ref] /\ p.disk.meta = p.rec.meta
        /\ p.disk.history = d.history
    BY <2>2
  <2> QED BY <1>1, <1>3, <1>4, <2>2, <2>3 DEF Stores, Consistent, Remembers, p
<1>5. CASE outcome = "failed"
  <2>1. p = [heap |-> s.heap, rec |-> s.rec, disk |-> s.disk, flagged |-> TRUE, unsaved |-> s.unsaved,
             unread |-> s.unread, faults |-> s.faults + 1]
    BY <1>5 DEF Persisted, Stores
  <2> HIDE DEF p
  <2> QED BY <1>1, <2>1 DEF Stores, Consistent, Remembers, p
<1>6. CASE outcome = "raised"
  <2>1. p = [heap |-> s.heap, rec |-> s.rec, disk |-> s.disk, flagged |-> s.flagged, unsaved |-> TRUE,
             unread |-> s.unread, faults |-> s.faults + 1]
    BY <1>6 DEF Persisted, Stores
  <2> HIDE DEF p
  <2> QED BY <1>1, <2>1 DEF Stores, Consistent, Remembers, p
<1> QED BY <1>4, <1>5, <1>6 DEF Outcomes

LEMMA UpsertedFacts ==
    ASSUME NEW s \in Stores, NEW dict \in Dicts, dict.ref \in Slots, NEW h \in Histories
    PROVE  LET u == Upserted(s, dict, h)
           IN  /\ u \in Stores /\ u.disk = s.disk /\ u.unread = s.unread
               /\ u.rec.ref = Fresh(s) /\ u.rec.ref \in Slots
               /\ u.heap = [s.heap EXCEPT ![Fresh(s)] = s.heap[dict.ref]]
<1> DEFINE u == Upserted(s, dict, h)
           new == Fresh(s)
           k == IF h # <<>> THEN Len(h) ELSE dict.count
           r == [ref |-> new, meta |-> dict.meta, count |-> IF k = 0 THEN s.rec.count ELSE k]
           g == [s.heap EXCEPT ![new] = s.heap[dict.ref]]
<1>1. new \in Slots
  BY FreshExists
<1>2. k \in Nat /\ s.rec.count \in Nat /\ dict.meta \in BOOLEAN
  BY DEF Dicts, Stores, Histories
<1>3. r \in Dicts
  BY <1>1, <1>2 DEF Dicts
<1>4. g \in [Slots -> SUBSET Variants]
  BY <1>1 DEF Stores
<1>5. u = [s EXCEPT !.heap = g, !.rec = r]
  BY DEF Upserted, Stores
<1> HIDE DEF r, g, k, new
<1>6. u = [heap |-> g, rec |-> r, disk |-> s.disk, flagged |-> s.flagged,
            unsaved |-> s.unsaved, unread |-> s.unread, faults |-> s.faults]
  BY <1>5 DEF Stores
<1> HIDE DEF u
<1>7. r.ref = new
  BY DEF r
<1> QED BY <1>1, <1>3, <1>4, <1>6, <1>7 DEF Stores, u, g, new

(* What a save makes of a store. *)
SavedFrom(s, dict, v) ==
    /\ v \in Stores /\ v.rec.ref \in Slots /\ v.rec.ref = Fresh(s)
    /\ v.heap = [s.heap EXCEPT ![Fresh(s)] = s.heap[dict.ref]]
    /\ Consistent(v) /\ Remembers(v, s)

LEMMA SavedFacts ==
    ASSUME NEW s \in Stores, NEW dict \in Dicts, dict.ref \in Slots, NEW h \in Histories,
           NEW outcome \in Outcomes
    PROVE  SavedFrom(s, dict, Saved(s, dict, h, outcome))
BY UpsertedFacts, PersistedFacts DEF Saved, SavedFrom, Remembers

LEMMA NotedFacts ==
    ASSUME NEW s \in Stores, s.rec.ref \in Slots, NEW event \in 1..MaxEvents, NEW outcome \in Outcomes
    PROVE  LET v == Noted(s, event, outcome)
           IN  /\ v \in Stores /\ v.rec.ref = s.rec.ref /\ v.heap = s.heap
               /\ Consistent(v) /\ Remembers(v, s)
<1> DEFINE h == Append(Read(s, outcome), event)
           r == [s.rec EXCEPT !.count = Len(h)]
           q == [s EXCEPT !.rec = r]
<1>1. h \in Histories /\ Len(h) \in Nat
  <2>1. Read(s, outcome) \in Histories
    <3>1. s.disk.history \in Histories /\ <<>> \in Histories
      BY DEF Stores, Files, Histories
    <3> QED BY <3>1 DEF Read
  <2> QED BY <2>1 DEF Histories
<1>2. r \in Dicts /\ r.ref = s.rec.ref
  BY <1>1 DEF Stores, Dicts
<1>3. q \in Stores /\ q.rec = r /\ q.heap = s.heap /\ q.disk = s.disk
      /\ q.unread = s.unread
  BY <1>2 DEF Stores
<1>4. Noted(s, event, outcome) = Persisted(q, h, outcome)
  BY DEF Noted, Stores
<1> HIDE DEF h, r, q
<1> QED BY <1>1, <1>2, <1>3, <1>4, PersistedFacts DEF Remembers

LEMMA LoadedFacts ==
    ASSUME NEW s \in Stores
    PROVE  LET d == Loaded(s)
           IN  /\ d \in Dicts /\ d.ref \in Slots
               /\ d.ref = IF s.rec.ref # 0 THEN s.rec.ref ELSE Fresh(s)
<1>1. Fresh(s) \in Slots
  BY FreshExists
<1>2. s.rec \in Dicts /\ (s.rec.ref # 0 => s.rec.ref \in Slots)
  BY DEF Stores, Dicts
<1>3. [NoRecord EXCEPT !.ref = Fresh(s)] \in Dicts /\ [NoRecord EXCEPT !.ref = Fresh(s)].ref = Fresh(s)
  BY <1>1 DEF NoRecord, Dicts
<1> QED BY <1>1, <1>2, <1>3 DEF Loaded

(* The state after a handler is the store it leaves, less what nobody      *)
(* refers to any more.                                                     *)
LEMMA BecomesFacts ==
    ASSUME NEW s \in Stores, Becomes(s)
    PROVE  /\ heap' \in [Slots -> SUBSET Variants] /\ resident' \in Dicts /\ disk' \in Files
           /\ flagged' \in BOOLEAN /\ faults' \in Nat /\ faults' <= MaxFaults
           /\ resident' = s.rec /\ disk' = s.disk /\ flagged' = s.flagged
           /\ unsaved' = s.unsaved /\ unread' = s.unread /\ unsaved' \in BOOLEAN /\ unread' \in Nat
           /\ \A i \in Slots : i = s.rec.ref \/ (\E t \in Tasks : i = copy'[t].ref) => heap'[i] = s.heap[i]
           /\ \A i \in Slots : heap'[i] = s.heap[i] \/ heap'[i] = {}
BY DEF Becomes, Stores

-----------------------------------------------------------------------------
(* Each step, as far as the store goes: it leaves the store alone, ends in *)
(* a store that is consistent and remembers its history, or restarts.      *)

LEMMA InitIInv == Init => TypeOK /\ ShownIsOnDisk
<1> SUFFICES ASSUME Init PROVE TypeOK /\ ShownIsOnDisk
  OBVIOUS
<1>1. NoRecord \in Dicts /\ NoRecord.ref = 0 /\ EmptyDisk \in Files
  BY DEF NoRecord, Dicts, EmptyDisk, Files
<1>2. TypeOK
  <2>1. MaxEvents \in Nat /\ MaxFaults \in Nat
    OBVIOUS
  <2>2. \A t \in Opens : t # Nobody /\ t \in Tasks
    BY DEF Tasks
  <2>3. /\ heap \in [Slots -> SUBSET Variants] /\ copy \in [Tasks -> Dicts]
        /\ pc \in [Tasks -> {"idle", "working", "done"}]
        /\ \A t \in Tasks : pc[t] = "idle" /\ copy[t].ref = 0
    BY <1>1 DEF Init
  <2>4. lock = Nobody /\ events = 0 /\ faults = 0 /\ flagged = FALSE /\ resident = NoRecord
        /\ disk = EmptyDisk /\ unsaved = FALSE /\ unread = 0
    BY DEF Init
  <2>5. lock \in Opens \cup {Nobody} /\ \A t \in Opens : pc[t] = "working" <=> lock = t
    BY <2>2, <2>3, <2>4
  <2>6. events \in 0..MaxEvents /\ faults \in 0..MaxFaults
    BY <2>1, <2>4
  <2>7. flagged \in BOOLEAN /\ unsaved \in BOOLEAN /\ unread \in Nat /\ resident \in Dicts /\ disk \in Files
    BY <1>1, <2>4
  <2>8. \A t \in Tasks : pc[t] = "working" <=> copy[t].ref # 0
    BY <2>3
  <2> QED BY <2>3, <2>5, <2>6, <2>7, <2>8 DEF TypeOK
<1> QED BY <1>1, <1>2 DEF Init, ShownIsOnDisk, Exists

LEMMA HandlerShown ==
    ASSUME NEW s \in Stores, Becomes(s), Consistent(s)
    PROVE  ShownIsOnDisk'
<1>1. s.rec.ref # 0 => s.rec.ref \in Slots
  BY DEF Stores, Dicts
<1> QED BY <1>1, BecomesFacts DEF Consistent, ShownIsOnDisk, Exists

(* A store that a handler may leave. *)
Left(s) == s \in Stores /\ Consistent(s) /\ Becomes(s) /\ Remembers(s, Store)

LEMMA OpenLeaves ==
    ASSUME TypeOK, ShownIsOnDisk, NEW t \in Tasks, OpenEnd(t)
    PROVE  /\ \E s : Left(s) /\ \/ s = Store
                                \/ Exists /\ s.heap = heap /\ s.rec.ref = resident.ref
                                \/ /\ s.heap = [heap EXCEPT ![s.rec.ref] = heap[copy[t].ref]]
                                   /\ ~Used(Store, s.rec.ref) /\ s.rec.ref \in Slots
           /\ events' \in 0..MaxEvents
<1>1. PICK probed, cached, dirty \in BOOLEAN, noting, saving \in Outcomes :
         LET dict == [copy[t] EXCEPT !.meta = @ \/ probed]
             noted == ~cached /\ Exists /\ events < MaxEvents
             s == IF noted THEN Noted(Store, events + 1, noting) ELSE Store
             saves == (dirty \/ ~cached) /\ ~(noted /\ noting = "raised")
         IN /\ events' = IF noted THEN events + 1 ELSE events
            /\ ~copy[t].meta \/ ~Exists => dirty
            /\ ~cached /\ Exists => noted
            /\ Becomes(IF saves THEN Saved(s, dict, <<>>, saving) ELSE s)
  BY DEF OpenEnd
<1> DEFINE dict == [copy[t] EXCEPT !.meta = @ \/ probed]
           noted == ~cached /\ Exists /\ events < MaxEvents
           s == IF noted THEN Noted(Store, events + 1, noting) ELSE Store
           saves == (dirty \/ ~cached) /\ ~(noted /\ noting = "raised")
           v == Saved(s, dict, <<>>, saving)
<1>2. /\ Store \in Stores /\ Store.heap = heap /\ Store.rec = resident /\ Store.disk = disk
      /\ Consistent(Store)
  BY StoreType DEF Store, Consistent, ShownIsOnDisk, Exists
<1>3. dict \in Dicts /\ dict.ref = copy[t].ref /\ dict.ref \in Slots
  <2>1. copy[t] \in Dicts /\ copy[t].ref # 0
    BY DEF OpenEnd, TypeOK
  <2> QED BY <2>1 DEF Dicts
<1>4. events' \in 0..MaxEvents /\ (noted => events + 1 \in 1..MaxEvents)
  BY <1>1 DEF TypeOK
<1>5. /\ s \in Stores /\ s.heap = heap /\ s.rec.ref = resident.ref /\ Consistent(s)
      /\ Remembers(s, Store)
  <2>1. CASE noted
    <3>1. Store.rec.ref \in Slots
      BY <1>2, <2>1 DEF Exists, Stores, Dicts
    <3> QED BY <1>2, <1>4, <2>1, <3>1, NotedFacts
  <2>2. CASE ~noted
    BY <1>2, <2>2 DEF Remembers, Stores
  <2> QED BY <2>1, <2>2
<1>6. <<>> \in Histories
  BY DEF Histories
<1>7. /\ v \in Stores /\ Consistent(v) /\ v.rec.ref = Fresh(s) /\ v.rec.ref \in Slots
      /\ v.heap = [heap EXCEPT ![v.rec.ref] = heap[copy[t].ref]]
      /\ Remembers(v, Store)
  <2>1. saving \in Outcomes
    OBVIOUS
  <2> HIDE DEF s, dict
  <2>2. SavedFrom(s, dict, v)
    BY <1>3, <1>5, <1>6, <2>1, SavedFacts DEF v
  <2> HIDE DEF v
  <2>3. Remembers(v, Store)
    BY <1>2, <1>5, <2>2, RemembersAll DEF SavedFrom
  <2> QED BY <1>3, <1>5, <2>2, <2>3 DEF SavedFrom
<1>8. ~Used(Store, v.rec.ref)
  BY <1>2, <1>5, <1>7, FreshExists DEF Used
<1>9. CASE saves
  <2>1. Becomes(v)
    BY <1>1, <1>9
  <2> HIDE DEF s, v, saves
  <2>2. Left(v)
    BY <1>7, <2>1 DEF Left
  <2> QED BY <1>4, <1>7, <1>8, <2>2
<1>10. CASE ~saves
  <2>1. Becomes(s)
    BY <1>1, <1>10
  <2>2. s = Store \/ Exists
    OBVIOUS
  <2> HIDE DEF s, v, saves
  <2>3. Left(s)
    BY <1>5, <2>1 DEF Left
  <2> QED BY <1>4, <1>5, <2>2, <2>3
<1> QED BY <1>9, <1>10

LEMMA ThumbLeaves ==
    ASSUME TypeOK, NEW t \in Tasks, ThumbEnd(t)
    PROVE  \E s : Left(s) /\ s.rec.ref \in Slots
<1>1. PICK outcome \in Outcomes : Becomes(Saved(Store, copy[t], <<>>, outcome))
  BY DEF ThumbEnd
<1>2. copy[t] \in Dicts /\ copy[t].ref \in Slots /\ Store \in Stores /\ <<>> \in Histories
  <2>1. copy[t] \in Dicts /\ copy[t].ref # 0
    BY DEF ThumbEnd, TypeOK
  <2> QED BY <2>1, StoreType DEF Dicts, Histories
<1> DEFINE s == Saved(Store, copy[t], <<>>, outcome)
<1>3. SavedFrom(Store, copy[t], s)
  BY <1>2, SavedFacts
<1> HIDE DEF s
<1>4. Left(s) /\ s.rec.ref \in Slots
  BY <1>1, <1>3 DEF Left, SavedFrom, s
<1> QED BY <1>4

LEMMA RegisterLeaves ==
    ASSUME TypeOK, NEW v \in Variants, Register(v)
    PROVE  \E s : Left(s) /\ s.rec.ref \in Slots
                  /\ (Exists => heap[resident.ref] \subseteq s.heap[s.rec.ref])
<1> DEFINE dict == Loaded(Store)
           g == [heap EXCEPT ![dict.ref] = @ \cup {v}]
           q == [Store EXCEPT !.heap[dict.ref] = @ \cup {v}]
<1>1. PICK outcome \in Outcomes : Becomes(Saved(q, dict, <<>>, outcome))
  BY DEF Register
<1>2. Store \in Stores /\ Store.heap = heap /\ Store.rec = resident /\ Store.disk = disk
  BY StoreType DEF Store
<1>3. dict \in Dicts /\ dict.ref \in Slots /\ (Exists => dict.ref = resident.ref)
  BY <1>2, LoadedFacts DEF Exists
<1>4. g \in [Slots -> SUBSET Variants] /\ heap \in [Slots -> SUBSET Variants]
  BY <1>2, <1>3 DEF Stores
<1>5. q = [heap |-> g, rec |-> resident, disk |-> disk, flagged |-> flagged,
            unsaved |-> unsaved, unread |-> unread, faults |-> faults]
  BY DEF Store
<1>6. q \in Stores /\ q.heap = g /\ q.disk = Store.disk /\ q.unread = Store.unread
  BY <1>2, <1>4, <1>5 DEF Stores, Store
<1>7. <<>> \in Histories
  BY DEF Histories
<1> DEFINE s == Saved(q, dict, <<>>, outcome)
<1>8. /\ s \in Stores /\ s.rec.ref \in Slots /\ Consistent(s) /\ Remembers(s, Store)
      /\ s.heap = [g EXCEPT ![s.rec.ref] = g[dict.ref]]
  <2> HIDE DEF q, g, dict
  <2>1. SavedFrom(q, dict, s)
    BY <1>3, <1>6, <1>7, SavedFacts
  <2> HIDE DEF s
  <2> QED BY <1>6, <2>1 DEF SavedFrom, Remembers
<1>9. s.heap[s.rec.ref] = heap[dict.ref] \cup {v}
  <2>1. g[dict.ref] = heap[dict.ref] \cup {v}
    BY <1>3, <1>4
  <2> HIDE DEF s, g, dict
  <2> QED BY <1>4, <1>8, <2>1
<1>10. Becomes(s)
  BY <1>1
<1> HIDE DEF s
<1> QED BY <1>3, <1>8, <1>9, <1>10 DEF Left

LEMMA TrackLeaves ==
    ASSUME TypeOK, NEW output \in BOOLEAN, Track(output)
    PROVE  /\ \E s : Left(s) /\ s.rec.ref \in Slots /\ ~Used(Store, s.rec.ref)
                  /\ (Exists => s.heap = [heap EXCEPT ![s.rec.ref] = heap[resident.ref]])
           /\ events' \in 0..MaxEvents
<1>1. PICK outcome \in Outcomes : Becomes(Saved(Store, Loaded(Store), <<events + 1>>, outcome))
  BY DEF Track
<1>2. Store \in Stores /\ Store.heap = heap /\ Store.rec = resident /\ Store.disk = disk
  BY StoreType DEF Store
<1>3. Loaded(Store) \in Dicts /\ Loaded(Store).ref \in Slots
      /\ (Exists => Loaded(Store).ref = resident.ref)
  BY <1>2, LoadedFacts DEF Exists
<1>4. events + 1 \in 1..MaxEvents /\ events' = events + 1
  BY DEF TypeOK, Track
<1>5. <<events + 1>> \in Histories
  BY <1>4 DEF Histories
<1> DEFINE s == Saved(Store, Loaded(Store), <<events + 1>>, outcome)
<1>6. /\ s \in Stores /\ s.rec.ref \in Slots /\ s.rec.ref = Fresh(Store)
      /\ Consistent(s) /\ Remembers(s, Store)
      /\ s.heap = [heap EXCEPT ![s.rec.ref] = heap[Loaded(Store).ref]]
  <2>1. SavedFrom(Store, Loaded(Store), s)
    BY <1>2, <1>3, <1>5, SavedFacts
  <2> HIDE DEF s
  <2> QED BY <1>2, <2>1 DEF SavedFrom
<1>7. ~Used(Store, s.rec.ref)
  BY <1>6, FreshExists
<1>8. Becomes(s)
  BY <1>1
<1> HIDE DEF s
<1>9. Left(s)
  BY <1>6, <1>8 DEF Left
<1>10. Exists => s.heap = [heap EXCEPT ![s.rec.ref] = heap[resident.ref]]
  BY <1>3, <1>6
<1>11. events' \in 0..MaxEvents
  BY <1>4
<1> QED BY <1>6, <1>7, <1>9, <1>10, <1>11

(* A restart finds the file of the last life or of the flush. *)
LEMMA LifeLeaves ==
    ASSUME TypeOK, flagged => Exists, Crash \/ Shutdown
    PROVE  /\ NewLife /\ Hydrated(disk') /\ disk' \in Files /\ faults' \in 0..MaxFaults
           /\ unread' \in Nat
           /\ disk.history # <<>> /\ unread' = unread => disk'.history # <<>>
<1>1. CASE Crash
  BY <1>1 DEF Crash, TypeOK, Hydrated
<1>2. CASE Shutdown
  <2>1. PICK outcome \in Outcomes :
           LET s == IF flagged THEN Persisted(Store, <<>>, outcome) ELSE Store
           IN /\ s.faults <= MaxFaults
              /\ disk' = s.disk /\ unread' = s.unread /\ faults' = s.faults
              /\ Hydrated(s.disk)
    BY <1>2 DEF Shutdown
  <2> DEFINE s == IF flagged THEN Persisted(Store, <<>>, outcome) ELSE Store
  <2>2. s \in Stores /\ Remembers(s, Store)
    <3>1. Store \in Stores /\ Store.rec = resident /\ <<>> \in Histories
      BY StoreType DEF Store, Histories
    <3>2. flagged => Store.rec.ref \in Slots
      BY <3>1 DEF Stores, Dicts, Exists
    <3>3. Remembers(Store, Store)
      BY <3>1 DEF Remembers, Stores
    <3> QED BY <3>1, <3>2, <3>3, PersistedFacts
  <2>3. /\ disk' = s.disk /\ unread' = s.unread /\ faults' = s.faults /\ s.faults <= MaxFaults
        /\ Hydrated(s.disk)
    BY <2>1
  <2>4. NewLife
    BY <1>2 DEF Shutdown
  <2>5. Store.disk = disk /\ Store.unread = unread
    BY DEF Store
  <2> HIDE DEF s
  <2>6. s.faults \in Nat /\ s.unread \in Nat /\ s.disk \in Files
    BY <2>2 DEF Stores
  <2>7. disk.history # <<>> /\ s.unread = unread => s.disk.history # <<>>
    BY <2>2, <2>5 DEF Remembers
  <2> QED BY <2>3, <2>4, <2>6, <2>7
<1> QED BY <1>1, <1>2

-----------------------------------------------------------------------------
(* The action of HistoryNotErased. *)
HistoryKept == disk.history # <<>> /\ unread' = unread => disk'.history # <<>>

(* The invariant: only a record that exists is flagged. *)
IInv == TypeOK /\ ShownIsOnDisk /\ (flagged => Exists)

(* After a handler: its record exists, unless it saved nothing. *)
LEMMA LeftShown ==
    ASSUME NEW s, Left(s), s = Store \/ s.rec.ref \in Slots, flagged => Exists
    PROVE  /\ ShownIsOnDisk' /\ (flagged' => Exists') /\ HistoryKept
           /\ heap' \in [Slots -> SUBSET Variants] /\ resident' \in Dicts /\ disk' \in Files
           /\ flagged' \in BOOLEAN /\ faults' \in 0..MaxFaults
           /\ unsaved' \in BOOLEAN /\ unread' \in Nat
<1>1. s \in Stores /\ Becomes(s) /\ Consistent(s)
  BY DEF Left
<1>2. ShownIsOnDisk'
  BY <1>1, HandlerShown
<1>3. /\ heap' \in [Slots -> SUBSET Variants] /\ resident' \in Dicts /\ disk' \in Files
      /\ flagged' \in BOOLEAN /\ faults' \in 0..MaxFaults
      /\ resident' = s.rec /\ disk' = s.disk /\ flagged' = s.flagged
      /\ unread' = s.unread /\ unsaved' \in BOOLEAN /\ unread' \in Nat
  BY <1>1, BecomesFacts
<1>4. flagged' => Exists'
  <2>1. CASE s = Store
    <3>1. s.flagged = flagged /\ s.rec = resident
      BY <2>1 DEF Store
    <3> QED BY <1>3, <3>1 DEF Exists
  <2>2. CASE s.rec.ref \in Slots
    <3>1. s.rec.ref # 0
      BY <2>2 DEF Slots
    <3> QED BY <1>3, <3>1 DEF Exists
  <2> QED BY <2>1, <2>2
<1>5. HistoryKept
  <2>1. Store.disk = disk /\ Store.unread = unread
    BY DEF Store
  <2> QED BY <1>3, <2>1 DEF Left, HistoryKept, Remembers
<1> QED BY <1>2, <1>3, <1>4, <1>5

LEMMA StepIInv == IInv /\ [Next]_vars => IInv' /\ HistoryKept
<1> SUFFICES ASSUME IInv, [Next]_vars PROVE IInv' /\ HistoryKept
  OBVIOUS
<1>0. TypeOK /\ ShownIsOnDisk /\ (flagged => Exists)
  BY DEF IInv
<1>1. ASSUME NEW t \in Tasks, OpenBegin(t) PROVE IInv' /\ HistoryKept
  <2>1. Loaded(Store) \in Dicts /\ Loaded(Store).ref # 0
    BY <1>0, StoreType, LoadedFacts DEF Slots
  <2>2. t \in Opens /\ UNCHANGED <<heap, resident, disk, flagged, unsaved, unread, events, faults>>
        /\ lock = Nobody /\ lock' = t /\ pc' = [pc EXCEPT ![t] = "working"]
        /\ copy' = [copy EXCEPT ![t] = Loaded(Store)]
    BY <1>1 DEF OpenBegin, store, bounds
  <2>3. \A u \in Opens : u # Nobody /\ u \in Tasks
    BY DEF Tasks
  <2>4. TypeOK'
    BY <1>0, <2>1, <2>2, <2>3 DEF TypeOK
  <2>5. ShownIsOnDisk' /\ (flagged' => Exists') /\ HistoryKept
    BY <1>0, <2>2 DEF ShownIsOnDisk, Exists, HistoryKept
  <2> QED BY <2>4, <2>5 DEF IInv
<1>2. ASSUME NEW t \in Tasks, OpenEnd(t) PROVE IInv' /\ HistoryKept
  <2>1. /\ t \in Opens /\ lock' = Nobody /\ pc' = [pc EXCEPT ![t] = "done"]
        /\ copy' = [copy EXCEPT ![t] = NoRecord] /\ pc[t] = "working"
    BY <1>2 DEF OpenEnd
  <2>2. \A u \in Opens : u # Nobody /\ u \in Tasks
    BY DEF Tasks
  <2>3. NoRecord \in Dicts /\ NoRecord.ref = 0
    BY DEF NoRecord, Dicts
  <2>4. PICK s : Left(s) /\ (s = Store \/ s.rec.ref \in Slots)
    BY <1>0, <1>2, OpenLeaves DEF Exists, TypeOK, Dicts
  <2>5. events' \in 0..MaxEvents
    BY <1>0, <1>2, OpenLeaves
  <2>6. TypeOK'
    BY <1>0, <2>1, <2>2, <2>3, <2>4, <2>5, LeftShown DEF TypeOK
  <2> QED BY <1>0, <2>4, <2>6, LeftShown DEF IInv
<1>3. ASSUME NEW t \in Tasks, ThumbBegin(t) PROVE IInv' /\ HistoryKept
  <2>1. UNCHANGED <<heap, resident, disk, flagged, unsaved, unread, events, faults, lock>>
        /\ pc' = [pc EXCEPT ![t] = "working"] /\ copy' = [copy EXCEPT ![t] = resident]
        /\ t \in Thumbs /\ resident.ref # 0
    BY <1>3 DEF ThumbBegin, store, bounds, Exists
  <2>2. \A u \in Opens : u # t /\ u \in Tasks
    BY <2>1 DEF Tasks
  <2>3. TypeOK'
    BY <1>0, <2>1, <2>2 DEF TypeOK
  <2>4. ShownIsOnDisk' /\ (flagged' => Exists') /\ HistoryKept
    BY <1>0, <2>1 DEF ShownIsOnDisk, Exists, HistoryKept
  <2> QED BY <2>3, <2>4 DEF IInv
<1>4. ASSUME NEW t \in Tasks, ThumbEnd(t) PROVE IInv' /\ HistoryKept
  <2>1. /\ UNCHANGED <<lock, events>> /\ pc' = [pc EXCEPT ![t] = "done"]
        /\ copy' = [copy EXCEPT ![t] = NoRecord] /\ t \in Thumbs
    BY <1>4 DEF ThumbEnd
  <2>2. \A u \in Opens : u # t /\ u \in Tasks
    BY <2>1 DEF Tasks
  <2>3. NoRecord \in Dicts /\ NoRecord.ref = 0
    BY DEF NoRecord, Dicts
  <2>4. PICK s : Left(s) /\ s.rec.ref \in Slots
    BY <1>0, <1>4, ThumbLeaves
  <2>5. TypeOK'
    BY <1>0, <2>1, <2>2, <2>3, <2>4, LeftShown DEF TypeOK
  <2> QED BY <1>0, <2>4, <2>5, LeftShown DEF IInv
<1>5. ASSUME NEW v \in Variants, Register(v) PROVE IInv' /\ HistoryKept
  <2>1. UNCHANGED <<lock, pc, copy, events>>
    BY <1>5 DEF Register
  <2>2. PICK s : Left(s) /\ s.rec.ref \in Slots
    BY <1>0, <1>5, RegisterLeaves
  <2>3. TypeOK'
    BY <1>0, <2>1, <2>2, LeftShown DEF TypeOK
  <2> QED BY <1>0, <2>2, <2>3, LeftShown DEF IInv
<1>6. ASSUME NEW output \in BOOLEAN, Track(output) PROVE IInv' /\ HistoryKept
  <2>1. UNCHANGED <<lock, pc, copy>>
    BY <1>6 DEF Track
  <2>2. PICK s : Left(s) /\ s.rec.ref \in Slots
    BY <1>0, <1>6, TrackLeaves
  <2>3. events' \in 0..MaxEvents
    BY <1>0, <1>6, TrackLeaves
  <2>4. TypeOK'
    BY <1>0, <2>1, <2>2, <2>3, LeftShown DEF TypeOK
  <2> QED BY <1>0, <2>2, <2>4, LeftShown DEF IInv
<1>7. CASE Crash \/ Shutdown
  <2>1. /\ NewLife /\ Hydrated(disk') /\ disk' \in Files /\ faults' \in 0..MaxFaults
        /\ HistoryKept /\ unread' \in Nat
    BY <1>0, <1>7, LifeLeaves DEF HistoryKept
  <2>2. heap' \in [Slots -> SUBSET Variants] /\ resident' \in Dicts
    <3>1. disk'.variants \in SUBSET Variants /\ disk'.meta \in BOOLEAN /\ Len(disk'.history) \in Nat
      BY <2>1 DEF Files
    <3>2. 1 \in Slots
      BY FS_CardinalityType DEF Slots
    <3>3. NoRecord \in Dicts
      BY DEF NoRecord, Dicts
    <3> QED BY <2>1, <3>1, <3>2, <3>3 DEF Hydrated, Dicts
  <2>3. resident'.ref = 0 \/ (disk'.written /\ disk'.variants = heap'[resident'.ref]
                                /\ disk'.meta = resident'.meta)
    <3>1. 1 \in Slots
      BY FS_CardinalityType DEF Slots
    <3> QED BY <2>1, <3>1 DEF Hydrated, NoRecord
  <2>4. /\ flagged' = FALSE /\ unsaved' = FALSE /\ lock' = Nobody /\ events' = events
        /\ pc' = [t \in Tasks |-> IF pc[t] = "working" THEN "done" ELSE pc[t]]
        /\ copy' = [t \in Tasks |-> NoRecord] /\ NoRecord \in Dicts /\ NoRecord.ref = 0
    BY <2>1 DEF NewLife, NoRecord, Dicts
  <2>5. \A u \in Opens : u # Nobody /\ u \in Tasks
    BY DEF Tasks
  <2>6. TypeOK'
    BY <1>0, <2>1, <2>2, <2>4, <2>5 DEF TypeOK
  <2> QED BY <2>1, <2>3, <2>4, <2>6 DEF IInv, ShownIsOnDisk, Exists
<1>8. CASE UNCHANGED vars
  <2>1. UNCHANGED <<heap, resident, disk, flagged, unsaved, unread, lock, pc, copy, events, faults>>
    BY <1>8 DEF vars, store, bounds
  <2>2. TypeOK'
    BY <1>0, <2>1 DEF TypeOK
  <2> QED BY <1>0, <2>1, <2>2 DEF IInv, ShownIsOnDisk, Exists, HistoryKept
<1> QED BY <1>1, <1>2, <1>3, <1>4, <1>5, <1>6, <1>7, <1>8 DEF Next

LEMMA Invariance == Spec => []IInv
<1>1. Init => IInv
  BY InitIInv DEF Init, IInv
<1> QED BY <1>1, StepIInv, PTL DEF Spec

(* Every record, dict and slot has its type, the lock is held by the       *)
(* open_media call that is working.                                        *)
THEOREM TypeCorrect == Spec => []TypeOK
<1>1. IInv => TypeOK
  BY DEF IInv
<1> QED BY <1>1, Invariance, PTL

(* What is shown is on disk, or its record is flagged, or the mkdir of a   *)
(* save has raised and no save has been written since, for any number of   *)
(* handlers, faults and lives (catalog.py: _persist_record, upsert_record; *)
(* cache.py: save_record).                                                 *)
THEOREM ShownIsPersisted == Spec => []ShownIsOnDisk
<1>1. IInv => ShownIsOnDisk
  BY DEF IInv
<1> QED BY <1>1, Invariance, PTL

(* A history on disk never becomes empty by a save that could read it      *)
(* (catalog.py: _persist_record, _read_disk_record).                       *)
THEOREM HistoriesStay == Spec => HistoryNotErased
<1>1. IInv /\ [Next]_vars => [disk.history # <<>> /\ unread' = unread => disk'.history # <<>>]_vars
  BY StepIInv DEF HistoryKept
<1> QED BY <1>1, Invariance, PTL DEF Spec, HistoryNotErased
-----------------------------------------------------------------------------
(* Until the first thumbnail is asked for, the dict of an open_media that  *)
(* is working lacks nothing of the record, as nobody else could add to it. *)

Quiet == \A t \in Thumbs : pc[t] = "idle"
Held ==
    /\ lives \in Nat
    /\ Quiet /\ Exists =>
          \A t \in Opens : pc[t] = "working" => heap[resident.ref] \subseteq heap[copy[t].ref]

(* The action of LockKeepsVariants. *)
VariantsStay ==
    Unmixed /\ lives' = lives /\ Exists => heap[resident.ref] \subseteq heap'[resident'.ref]

LEMMA HeapStays ==
    ASSUME NEW s \in Stores, Becomes(s)
    PROVE  /\ s.rec.ref \in Slots => heap'[resident'.ref] = s.heap[s.rec.ref]
           /\ \A t \in Tasks : copy'[t].ref \in Slots =>
                heap'[copy'[t].ref] = s.heap[copy'[t].ref]
BY DEF Becomes

LEMMA StepHeld == IInv /\ Held /\ [Next]_vars => Held' /\ VariantsStay
<1> SUFFICES ASSUME IInv, Held, [Next]_vars PROVE Held' /\ VariantsStay
  OBVIOUS
<1>0. /\ TypeOK /\ lives \in Nat
      /\ \A t \in Opens : t \in Tasks /\ t \notin Thumbs /\ t # Nobody
      /\ \A t \in Opens : pc[t] = "working" <=> lock = t
      /\ \A t \in Tasks : pc[t] = "working" <=> copy[t].ref # 0
  BY DEF IInv, Held, TypeOK, Tasks
<1>1. ASSUME NEW t \in Tasks, OpenBegin(t) PROVE Held' /\ VariantsStay
  <2>1. /\ UNCHANGED <<heap, resident, lives>> /\ t \in Opens /\ lock = Nobody
        /\ pc' = [pc EXCEPT ![t] = "working"] /\ copy' = [copy EXCEPT ![t] = Loaded(Store)]
    BY <1>1 DEF OpenBegin, store, bounds
  <2>2. Exists => Loaded(Store).ref = resident.ref
    BY DEF Loaded, Store, Exists
  <2>3. \A u \in Opens : pc'[u] = "working" => u = t
    BY <1>0, <2>1 DEF TypeOK
  <2>4. copy'[t] = Loaded(Store)
    BY <1>0, <2>1 DEF TypeOK
  <2>5. Held'
    BY <1>0, <2>1, <2>2, <2>3, <2>4 DEF Held, Exists
  <2> QED BY <2>1, <2>5 DEF VariantsStay
<1>2. ASSUME NEW t \in Tasks, OpenEnd(t) PROVE Held' /\ VariantsStay
  <2>1. /\ UNCHANGED lives /\ t \in Opens /\ pc[t] = "working"
        /\ pc' = [pc EXCEPT ![t] = "done"] /\ copy' = [copy EXCEPT ![t] = NoRecord]
    BY <1>2 DEF OpenEnd
  <2>2. \A u \in Opens : pc'[u] # "working"
    BY <1>0, <2>1 DEF TypeOK
  <2>3. Unmixed => Quiet
    BY <1>0, <2>1 DEF TypeOK, Unmixed, Quiet, Tasks
  <2>4. ShownIsOnDisk
    BY DEF IInv
  <2>5. PICK s : /\ Left(s)
                 /\ \/ s = Store
                    \/ Exists /\ s.heap = heap /\ s.rec.ref = resident.ref
                    \/ /\ s.heap = [heap EXCEPT ![s.rec.ref] = heap[copy[t].ref]]
                       /\ ~Used(Store, s.rec.ref) /\ s.rec.ref \in Slots
    BY <1>0, <1>2, <2>4, OpenLeaves
  <2>6. s \in Stores /\ Becomes(s)
    BY <2>5 DEF Left
  <2>7. ASSUME Unmixed, Exists PROVE heap[resident.ref] \subseteq heap'[resident'.ref]
    <3>1. CASE s = Store \/ (s.heap = heap /\ s.rec.ref = resident.ref)
      <4>1. s.heap = heap /\ s.rec.ref = resident.ref /\ s.rec.ref \in Slots
        BY <1>0, <2>7, <3>1 DEF Store, Exists, TypeOK, Dicts
      <4> QED BY <2>6, <4>1, HeapStays
    <3>2. CASE /\ s.heap = [heap EXCEPT ![s.rec.ref] = heap[copy[t].ref]]
               /\ s.rec.ref \in Slots
      <4>1. s.heap[s.rec.ref] = heap[copy[t].ref]
        BY <1>0, <3>2 DEF TypeOK
      <4>2. heap[resident.ref] \subseteq heap[copy[t].ref]
        BY <2>1, <2>3, <2>7 DEF Held
      <4> QED BY <2>6, <3>2, <4>1, <4>2, HeapStays
    <3> QED BY <2>5, <3>1, <3>2
  <2> QED BY <1>0, <2>1, <2>2, <2>7 DEF Held, VariantsStay
<1>3. ASSUME NEW t \in Tasks, ThumbBegin(t) \/ ThumbEnd(t) PROVE Held' /\ VariantsStay
  <2>1. t \in Thumbs /\ pc'[t] # "idle" /\ UNCHANGED lives
    BY <1>0, <1>3 DEF ThumbBegin, ThumbEnd, TypeOK, bounds
  <2> QED BY <1>0, <2>1 DEF Held, Quiet, VariantsStay, Unmixed
<1>4. ASSUME NEW v \in Variants, Register(v) PROVE Held' /\ VariantsStay
  <2>1. UNCHANGED <<lock, pc, copy, lives>> /\ lock = Nobody
    BY <1>4 DEF Register
  <2>2. PICK s : /\ Left(s) /\ s.rec.ref \in Slots
                 /\ Exists => heap[resident.ref] \subseteq s.heap[s.rec.ref]
    BY <1>0, <1>4, RegisterLeaves
  <2>3. heap'[resident'.ref] = s.heap[s.rec.ref]
    BY <2>2, HeapStays DEF Left
  <2>4. \A u \in Opens : pc'[u] # "working"
    BY <1>0, <2>1
  <2> QED BY <1>0, <2>1, <2>2, <2>3, <2>4 DEF Held, VariantsStay
<1>5. ASSUME NEW output \in BOOLEAN, Track(output) PROVE Held' /\ VariantsStay
  <2>1. UNCHANGED <<lock, pc, copy, lives>> /\ (~Exists => lock = Nobody)
    BY <1>5 DEF Track
  <2>2. PICK s : /\ Left(s) /\ s.rec.ref \in Slots /\ ~Used(Store, s.rec.ref)
                 /\ Exists => s.heap = [heap EXCEPT ![s.rec.ref] = heap[resident.ref]]
    BY <1>0, <1>5, TrackLeaves
  <2>3. s \in Stores /\ Becomes(s)
    BY <2>2 DEF Left
  <2>4. Exists => heap'[resident'.ref] = heap[resident.ref]
    <3>1. Exists => s.heap[s.rec.ref] = heap[resident.ref]
      BY <1>0, <2>2 DEF TypeOK
    <3> QED BY <2>2, <2>3, <3>1, HeapStays
  <2>5. ASSUME Exists, NEW u \in Opens, pc[u] = "working"
        PROVE  heap'[copy'[u].ref] = heap[copy[u].ref]
    <3>1. u \in Tasks /\ copy[u].ref \in Slots /\ copy'[u] = copy[u]
      BY <1>0, <2>1, <2>5 DEF TypeOK, Dicts
    <3>2. copy[u].ref # s.rec.ref
      BY <2>2, <3>1 DEF Used
    <3>3. s.heap[copy[u].ref] = heap[copy[u].ref]
      BY <1>0, <2>2, <2>5, <3>1, <3>2 DEF TypeOK
    <3> QED BY <2>3, <3>1, <3>3, HeapStays
  <2>6. \A u \in Opens : ~Exists => pc[u] # "working"
    BY <1>0, <2>1
  <2>7. ASSUME Quiet', NEW u \in Opens, pc'[u] = "working"
        PROVE  heap'[resident'.ref] \subseteq heap'[copy'[u].ref]
    <3>1. Quiet /\ pc[u] = "working"
      BY <2>1, <2>7 DEF Quiet
    <3>2. Exists
      BY <2>6, <3>1
    <3>3. heap[resident.ref] \subseteq heap[copy[u].ref]
      BY <3>1, <3>2 DEF Held
    <3> QED BY <2>4, <2>5, <3>1, <3>2, <3>3
  <2> QED BY <1>0, <2>1, <2>4, <2>7 DEF Held, VariantsStay
<1>6. CASE Crash \/ Shutdown
  <2>1. NewLife
    BY <1>6 DEF Crash, Shutdown
  <2>2. /\ lives' = lives + 1
        /\ pc' = [t \in Tasks |-> IF pc[t] = "working" THEN "done" ELSE pc[t]]
    BY <2>1 DEF NewLife
  <2>3. \A u \in Opens : pc'[u] # "working"
    BY <1>0, <2>2
  <2> QED BY <1>0, <2>2, <2>3 DEF Held, VariantsStay
<1>7. CASE UNCHANGED vars
  <2>1. UNCHANGED <<heap, resident, pc, copy, lives>>
    BY <1>7 DEF vars, store, bounds
  <2> QED BY <1>0, <2>1 DEF Held, Quiet, Exists, VariantsStay
<1> QED BY <1>1, <1>2, <1>3, <1>4, <1>5, <1>6, <1>7 DEF Next

(* Until the first call of get_thumb_file, every registered variant stays  *)
(* in the record (open.py: open_media; variants.py: register_variant), for *)
(* any number of handlers that take the lock.                              *)
THEOREM LockIsEnough == Spec => LockKeepsVariants
<1>1. Init => Held
  BY DEF Init, Held, Tasks
<1>2. IInv /\ Held /\ [Next]_vars
        => [Unmixed /\ lives' = lives /\ Exists
              => heap[resident.ref] \subseteq heap'[resident'.ref]]_vars
  BY StepHeld DEF VariantsStay
<1> QED BY <1>1, <1>2, StepHeld, Invariance, PTL DEF Spec, LockKeepsVariants
-----------------------------------------------------------------------------
(* A new life finds what was shown, if it was flushed or on disk already. *)

VariantsFlushed ==
    /\ lives' # lives /\ faults' = faults /\ Exists
    /\ (flagged /\ Shutdown) \/ (~flagged /\ ~unsaved)
    => resident'.ref # 0 /\ heap'[resident'.ref] = heap[resident.ref]

LEMMA StepFlushed == IInv /\ [Next]_vars => VariantsFlushed
<1> SUFFICES ASSUME IInv, [Next]_vars, lives' # lives, faults' = faults, Exists,
                    (flagged /\ Shutdown) \/ (~flagged /\ ~unsaved)
             PROVE  resident'.ref # 0 /\ heap'[resident'.ref] = heap[resident.ref]
  BY DEF VariantsFlushed
<1>0. TypeOK /\ ShownIsOnDisk /\ Exists /\ resident.ref \in Slots /\ 1 \in Slots
  BY FS_CardinalityType DEF IInv, Exists, TypeOK, Dicts, Slots
<1>1. Crash \/ Shutdown
  BY DEF Next, OpenBegin, OpenEnd, ThumbBegin, ThumbEnd, Register, Track, bounds, vars
<1>2. SUFFICES ASSUME NEW d, Hydrated(d), d.written, d.variants = heap[resident.ref]
               PROVE  resident'.ref # 0 /\ heap'[resident'.ref] = heap[resident.ref]
  <2>1. CASE ~flagged
    <3>1. disk.written /\ disk.variants = heap[resident.ref]
      BY <1>0, <2>1 DEF ShownIsOnDisk
    <3>2. Hydrated(disk)
      BY <1>1, <2>1 DEF Crash, Shutdown, Store
    <3> QED BY <1>2, <3>1, <3>2
  <2>2. CASE flagged
    <3>1. PICK outcome \in Outcomes :
             LET s == IF flagged THEN Persisted(Store, <<>>, outcome) ELSE Store
             IN /\ s.faults <= MaxFaults
                /\ disk' = s.disk /\ unread' = s.unread /\ faults' = s.faults
                /\ Hydrated(s.disk)
      BY <2>2 DEF Shutdown
    <3>2. outcome = "written"
      <4>1. outcome # "written" => Persisted(Store, <<>>, outcome).faults = faults + 1
        BY DEF Persisted, Written, Store, Outcomes
      <4> QED BY <1>0, <2>2, <3>1, <4>1 DEF TypeOK
    <3>3. LET d == Persisted(Store, <<>>, outcome).disk
          IN d.written /\ d.variants = heap[resident.ref]
      BY <3>2 DEF Persisted, Written, Store
    <3> QED BY <1>2, <2>2, <3>1, <3>3
  <2> QED BY <2>1, <2>2
<1> QED BY <1>0, <1>2 DEF Hydrated

(* A proper shutdown whose flush works loses no variant of a record whose *)
(* last save failed, and a crash loses none of a record whose saves were   *)
(* all written (catalog.py: shutdown, _flush_persist_failed, hydration),   *)
(* for any number of faults.  Nothing is said of one whose save raised.    *)
THEOREM FlushIsEnough == Spec => FlushKeepsVariants
<1>1. IInv /\ [Next]_vars
        => [/\ lives' # lives /\ faults' = faults /\ Exists
            /\ (flagged /\ Shutdown) \/ (~flagged /\ ~unsaved)
            => resident'.ref # 0 /\ heap'[resident'.ref] = heap[resident.ref]]_vars
  BY StepFlushed DEF VariantsFlushed
<1> QED BY <1>1, Invariance, PTL DEF Spec, FlushKeepsVariants
=============================================================================
