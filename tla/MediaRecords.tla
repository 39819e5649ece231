---------------------------- MODULE MediaRecords ----------------------------
(***************************************************************************)
(* One media record, with the catalog ready (app/media/cache.py, open.py,  *)
(* thumbnails.py over app/media/catalog.py).  Handlers take the record as  *)
(* a dict, await ffmpeg or ffprobe, and save the dict they hold; some of   *)
(* them hold the asyncio lock of the content hash meanwhile and some do    *)
(* not.  The dict is a copy except for its variants, which are the object  *)
(* of the resident record itself.  Every step is what runs on the event    *)
(* loop between two awaits.  Records of different hashes share nothing     *)
(* this module speaks of, so one is enough.                                *)
(***************************************************************************)
EXTENDS Naturals, FiniteSets, Sequences, SequencesExt

CONSTANTS
    Opens,      \* calls of open_media
    Thumbs,     \* calls of get_thumb_file that extract a frame
    Variants,   \* derived clips; fewer than RECENT_CAP, so none is dropped
    Nobody,
    MaxEvents,  \* bound: history events; below the cap of 200
    MaxTracks,  \* bound: how many of them record_operation appends
    MaxFaults,  \* bound: saves in which the disk fails
    MaxLives    \* bound: lives of the process

Tasks == Opens \cup Thumbs

ASSUME TaskAssumption ==
    Opens \cap Thumbs = {} /\ Nobody \notin Tasks /\ IsFiniteSet(Tasks)
ASSUME BoundAssumption == {MaxEvents, MaxTracks, MaxFaults, MaxLives} \subseteq Nat

VARIABLES
    heap,      \* the variants objects, by slot; {} in a slot nobody refers to
    resident,  \* hash_to_record[hash]; ref is its variants object, 0 if absent
    disk,      \* record.json
    flagged,   \* hash in _persist_failed_hashes
    unsaved,   \* history: a save raised, and none since has been written
    unread,    \* history: saves that could not read record.json
    lock,      \* who holds _lock_for_hash(hash)
    pc, copy,  \* each task and the dict it holds
    events,    \* events appended so far
    tracks, faults, lives

store == <<heap, resident, disk, flagged, unsaved, unread>>
bounds == <<events, tracks, faults, lives>>
vars == <<store, lock, pc, copy, bounds>>

Slots == 1..(Cardinality(Tasks) + 2)
NoRecord == [ref |-> 0, meta |-> FALSE, count |-> 0]
Exists == resident.ref # 0
EmptyDisk == [written |-> FALSE, history |-> <<>>, variants |-> {}, meta |-> FALSE]

Init ==
    /\ heap = [i \in Slots |-> {}] /\ resident = NoRecord /\ disk = EmptyDisk /\ flagged = FALSE
    /\ unsaved = FALSE /\ unread = 0
    /\ lock = Nobody
    /\ pc = [t \in Tasks |-> "idle"]
    /\ copy = [t \in Tasks |-> NoRecord]
    /\ events = 0 /\ tracks = 0 /\ faults = 0 /\ lives = 1

-----------------------------------------------------------------------------
(* Saving: the store as a record, so that a handler can save twice. *)

Store == [heap |-> heap, rec |-> resident, disk |-> disk, flagged |-> flagged,
          unsaved |-> unsaved, unread |-> unread, faults |-> faults]

(* A save: record.json is written; or written over one that could not be   *)
(* read (_read_disk_record answers None); or the write fails; or mkdir     *)
(* does, outside the try, and the handler ends with its OSError.           *)
Outcomes == {"written", "unread", "failed", "raised"}

(* A slot for a new object: no record and no dict in use refers to it. *)
Fresh(s) ==
    CHOOSE i \in Slots : i # s.rec.ref /\ \A t \in Tasks : i # copy[t].ref

(* The history that _read_disk_record finds. *)
Read(s, outcome) == IF outcome = "unread" THEN <<>> ELSE s.disk.history

(* Mutant: an empty history in the dict replaces the one on disk. *)
MergedEmpty(old, incoming) == incoming

(* save_record drops an empty history, _persist_record skips one: what is  *)
(* on disk stays.  One that is not empty replaces it.                      *)
Merged(old, incoming) == IF incoming = <<>> THEN old ELSE incoming

Written(s, incoming, outcome) ==
    [s EXCEPT !.disk = [written |-> TRUE, history |-> Merged(Read(s, outcome), incoming),
                        variants |-> s.heap[s.rec.ref], meta |-> s.rec.meta],
              !.flagged = FALSE, !.unsaved = FALSE,
              !.unread = IF outcome = "unread" THEN @ + 1 ELSE @,
              !.faults = IF outcome = "unread" THEN @ + 1 ELSE @]

(* Mutant: a write that fails is not noted. *)
PersistedUnflagged(s, incoming, outcome) ==
    CASE outcome = "failed" -> [s EXCEPT !.faults = @ + 1]
      [] outcome = "raised" -> [s EXCEPT !.unsaved = TRUE, !.faults = @ + 1]
      [] OTHER -> Written(s, incoming, outcome)

(* _persist_record: the resident record over record.json, by an atomic     *)
(* replace or not at all.                                                  *)
Persisted(s, incoming, outcome) ==
    CASE outcome = "failed" -> [s EXCEPT !.flagged = TRUE, !.faults = @ + 1]
      [] outcome = "raised" -> [s EXCEPT !.unsaved = TRUE, !.faults = @ + 1]
      [] OTHER -> Written(s, incoming, outcome)

(* upsert_record: a new resident record with a variants object of its own, *)
(* copied from the dict.  history_count is the length of a history in the  *)
(* dict, else the dict's own count, else the previous record's.            *)
Upserted(s, dict, incoming) ==
    LET count == IF incoming # <<>> THEN Len(incoming) ELSE dict.count
        new == Fresh(s)
    IN [s EXCEPT !.heap[new] = s.heap[dict.ref],
                 !.rec = [ref |-> new, meta |-> dict.meta,
                          count |-> IF count = 0 THEN s.rec.count ELSE count]]

Saved(s, dict, incoming, outcome) == Persisted(Upserted(s, dict, incoming), incoming, outcome)

(* catalog.append_history, which reads the history from disk first *)
Noted(s, event, outcome) ==
    LET history == Append(Read(s, outcome), event)
    IN Persisted([s EXCEPT !.rec.count = Len(history)], history, outcome)

(* serving_dict, or _empty_record with a variants object of its own *)
Loaded(s) == IF s.rec.ref # 0 THEN s.rec ELSE [NoRecord EXCEPT !.ref = Fresh(s)]

Becomes(s) ==
    /\ s.faults <= MaxFaults
    /\ heap' = [i \in Slots |->
                  IF i = s.rec.ref \/ \E t \in Tasks : i = copy'[t].ref THEN s.heap[i] ELSE {}]
    /\ resident' = s.rec /\ disk' = s.disk /\ flagged' = s.flagged
    /\ unsaved' = s.unsaved /\ unread' = s.unread /\ faults' = s.faults

-----------------------------------------------------------------------------
(* open_media: under the lock, with awaits between load and save *)

OpenBegin(t) ==
    /\ t \in Opens /\ pc[t] = "idle"
    /\ lock = Nobody /\ lock' = t
    /\ pc' = [pc EXCEPT ![t] = "working"]
    /\ copy' = [copy EXCEPT ![t] = Loaded(Store)]
    /\ UNCHANGED <<store, bounds>>

(* The probe may fail.  A path hashed for the first time notes an "opened" *)
(* event, if the record is resident by then; the dict is saved if it has   *)
(* changed or the path is new, unless noting the event has raised.         *)
OpenEnd(t) ==
    /\ t \in Opens /\ pc[t] = "working"
    /\ lock' = Nobody
    /\ pc' = [pc EXCEPT ![t] = "done"]
    /\ copy' = [copy EXCEPT ![t] = NoRecord]
    /\ \E probed, cached, dirty \in BOOLEAN, noting, saving \in Outcomes :
         LET dict == [copy[t] EXCEPT !.meta = @ \/ probed]
             noted == ~cached /\ Exists /\ events < MaxEvents
             s == IF noted THEN Noted(Store, events + 1, noting) ELSE Store
             saves == (dirty \/ ~cached) /\ ~(noted /\ noting = "raised")
         IN /\ events' = IF noted THEN events + 1 ELSE events
            /\ ~copy[t].meta \/ ~Exists => dirty
            /\ ~cached /\ Exists => noted
            /\ Becomes(IF saves THEN Saved(s, dict, <<>>, saving) ELSE s)
    /\ UNCHANGED <<tracks, lives>>

(* get_thumb_file: the same without the lock, for a record that exists *)
ThumbBegin(t) ==
    /\ t \in Thumbs /\ pc[t] = "idle"
    /\ Exists
    /\ pc' = [pc EXCEPT ![t] = "working"]
    /\ copy' = [copy EXCEPT ![t] = resident]
    /\ UNCHANGED <<store, lock, bounds>>

ThumbEnd(t) ==
    /\ t \in Thumbs /\ pc[t] = "working"
    /\ pc' = [pc EXCEPT ![t] = "done"]
    /\ copy' = [copy EXCEPT ![t] = NoRecord]
    /\ \E outcome \in Outcomes : Becomes(Saved(Store, copy[t], <<>>, outcome))
    /\ UNCHANGED <<lock, events, tracks, lives>>

-----------------------------------------------------------------------------
(* Handlers without an await between load and save *)

(* Mutant: register_variant does not wait for the lock. *)
RegisterUnlocked(v) ==
    LET dict == Loaded(Store)
    IN /\ UNCHANGED <<lock, pc, copy, events, tracks, lives>>
       /\ \E outcome \in Outcomes :
            Becomes(Saved([Store EXCEPT !.heap[dict.ref] = @ \cup {v}], dict, <<>>, outcome))

(* register_variant: the entry goes into the variants object it was handed. *)
Register(v) ==
    LET dict == Loaded(Store)
    IN /\ lock = Nobody
       /\ UNCHANGED <<lock, pc, copy, events, tracks, lives>>
       /\ \E outcome \in Outcomes :
            Becomes(Saved([Store EXCEPT !.heap[dict.ref] = @ \cup {v}], dict, <<>>, outcome))

(* cache.append_history for the input of an operation, and the "generated" *)
(* event for its output, which may be new and waits for the lock.  The     *)
(* dict has no history, so the event is all there is to save.              *)
Track(output) ==
    /\ events < MaxEvents /\ tracks < MaxTracks
    /\ IF output THEN lock = Nobody ELSE Exists
    /\ events' = events + 1 /\ tracks' = tracks + 1
    /\ UNCHANGED <<lock, pc, copy, lives>>
    /\ \E outcome \in Outcomes : Becomes(Saved(Store, Loaded(Store), <<events + 1>>, outcome))

-----------------------------------------------------------------------------
(* The process *)

Hydrated(d) ==
    /\ heap' = [i \in Slots |-> IF i = 1 THEN d.variants ELSE {}]
    /\ resident' = IF d.written THEN [ref |-> 1, meta |-> d.meta, count |-> Len(d.history)]
                                ELSE NoRecord

NewLife ==
    /\ lives < MaxLives /\ lives' = lives + 1
    /\ flagged' = FALSE /\ unsaved' = FALSE /\ lock' = Nobody
    /\ pc' = [t \in Tasks |-> IF pc[t] = "working" THEN "done" ELSE pc[t]]
    /\ copy' = [t \in Tasks |-> NoRecord]
    /\ UNCHANGED <<events, tracks>>

Crash == NewLife /\ Hydrated(disk) /\ UNCHANGED <<disk, unread, faults>>

(* Mutant: shutdown without _flush_persist_failed. *)
ShutdownUnflushed == NewLife /\ Hydrated(disk) /\ UNCHANGED <<disk, unread, faults>>

(* shutdown: the flush has the resident record only, not the dict whose    *)
(* write failed.                                                           *)
Shutdown ==
    /\ NewLife
    /\ \E outcome \in Outcomes :
         LET s == IF flagged THEN Persisted(Store, <<>>, outcome) ELSE Store
         IN /\ s.faults <= MaxFaults
            /\ disk' = s.disk /\ unread' = s.unread /\ faults' = s.faults
            /\ Hydrated(s.disk)

Next ==
    \/ \E t \in Tasks : OpenBegin(t) \/ OpenEnd(t) \/ ThumbBegin(t) \/ ThumbEnd(t)
    \/ \E v \in Variants : Register(v)
    \/ \E output \in BOOLEAN : Track(output)
    \/ Crash \/ Shutdown

Spec == Init /\ [][Next]_vars

-----------------------------------------------------------------------------
(* Correctness *)

Dicts == [ref : Slots \cup {0}, meta : BOOLEAN, count : Nat]
Files == [written : BOOLEAN, history : Seq(1..MaxEvents), variants : SUBSET Variants, meta : BOOLEAN]

TypeOK ==
    /\ heap \in [Slots -> SUBSET Variants]
    /\ resident \in Dicts /\ copy \in [Tasks -> Dicts] /\ disk \in Files
    /\ flagged \in BOOLEAN /\ unsaved \in BOOLEAN /\ unread \in Nat
    /\ lock \in Opens \cup {Nobody}
    /\ pc \in [Tasks -> {"idle", "working", "done"}]
    /\ \A t \in Tasks : pc[t] = "working" <=> copy[t].ref # 0
    /\ \A t \in Opens : pc[t] = "working" <=> lock = t
    /\ events \in 0..MaxEvents /\ faults \in 0..MaxFaults

(* What the server shows is what a restart would find, unless the record   *)
(* is flagged as not persisted (docs/server-memory-catalog-spec.md:432     *)
(* asks that no failed write be silent), or a save has raised: its mkdir   *)
(* (catalog.py:1138) stands outside the try that flags.                    *)
ShownIsOnDisk ==
    Exists /\ ~flagged /\ ~unsaved =>
        disk.written /\ disk.variants = heap[resident.ref] /\ disk.meta = resident.meta

(* The history on disk never becomes empty again, though almost every      *)
(* dict that is saved carries an empty one; except by a save that could    *)
(* not read it (catalog.py:1133 takes that for a record without history).  *)
HistoryNotErased ==
    [][disk.history # <<>> /\ unread' = unread => disk'.history # <<>>]_vars

(* A process whose last save failed and which is stopped properly, with    *)
(* the flush working, or whose saves were all written, shows the same      *)
(* variants after the restart.  A save that raised is not flushed.         *)
FlushKeepsVariants ==
    [][/\ lives' # lives /\ faults' = faults /\ Exists
       /\ (flagged /\ Shutdown) \/ (~flagged /\ ~unsaved)
       => resident'.ref # 0 /\ heap'[resident'.ref] = heap[resident.ref]]_vars

(* The lock is enough for those who take it: until the first call of      *)
(* get_thumb_file, a registered variant stays in the record, whatever      *)
(* awaits between load and save.                                           *)
Unmixed == \A t \in Thumbs : pc'[t] = "idle"

LockKeepsVariants ==
    [][Unmixed /\ lives' = lives /\ Exists => heap[resident.ref] \subseteq heap'[resident'.ref]]_vars
=============================================================================
