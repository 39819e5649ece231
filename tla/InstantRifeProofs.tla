-------------------------- MODULE InstantRifeProofs -------------------------
(***************************************************************************)
(* Theorems about InstantRife for any set of clips, any files and any      *)
(* density: RUN is shown for the encode in flight only, and a file whose   *)
(* density the page knows gives way to a sparser one only when the user    *)
(* picks it or when it was missing and another was found.  The queue's     *)
(* operators map one state of the page to another; Keeps says what all of  *)
(* them leave true, and the lemma of an action composes those of its       *)
(* operators.                                                              *)
(***************************************************************************)
EXTENDS InstantRife, TLAPS, SequenceTheorems, WellFoundedInduction

USE ClipsAssumption, BoundAssumption

LEMMA MinExists ==
    ASSUME NEW T \in SUBSET Nat, T # {}
    PROVE  \E x \in T : \A y \in T : x <= y
<1> DEFINE R == OpToRel(<, Nat)
<1>1. IsWellFoundedOn(R, Nat)
  BY NatLessThanWellFounded
<1> HIDE DEF R
<1>2. PICK x \in T : \A y \in T : ~(<<y, x>> \in R)
  BY <1>1, WFMin, Zenon
<1>3. \A y \in T : <<y, x>> \in R <=> y < x
  BY DEF R, OpToRel
<1>4. \A y \in T : ~(y < x)
  BY <1>2, <1>3, Zenon
<1> QED BY <1>4

LEMMA Minimum ==
    ASSUME NEW T \in SUBSET Nat, T # {}
    PROVE  Min(T) \in T
<1>1. \E x \in T : \A y \in T : x <= y
  BY MinExists
<1> QED BY <1>1 DEF Min

LEMMA Maximum ==
    ASSUME NEW T \in SUBSET Densities, T # {}
    PROVE  Max(T) \in T /\ \A y \in T : y <= Max(T)
<1> DEFINE U == {MaxM - y : y \in T}
<1>1. U \in SUBSET Nat /\ U # {}
  <2>1. \A y \in T : MaxM - y \in Nat
    BY DEF Densities
  <2> QED BY <2>1
<1>2. PICK z \in U : \A y \in U : z <= y
  BY <1>1, MinExists
<1>3. PICK x \in T : z = MaxM - x
  OBVIOUS
<1>4. \A y \in T : x >= y
  <2> SUFFICES ASSUME NEW y \in T PROVE x >= y
    OBVIOUS
  <2>1. MaxM - x <= MaxM - y
    BY <1>2, <1>3
  <2> QED BY <2>1 DEF Densities
<1>5. \E v \in T : \A y \in T : v >= y
  BY <1>4
<1>6. Max(T) \in T /\ \A y \in T : Max(T) >= y
  BY <1>5 DEF Max
<1> QED BY <1>6 DEF Densities

-----------------------------------------------------------------------------
(* The state of the page that the operators rewrite                        *)

Jobs == [clip : Clips, m : Densities]

ClipRec == [need : Densities, have : Densities, var : Densities,
            status : Statuses, kind : Kinds]

PageState ==
    [clip : [Clips -> ClipRec], queue : Seq(Jobs),
     drain : [at : {"idle", "loop", "recovering", "encoding"}, clip : Clips \cup {0}, m : Densities],
     stop : BOOLEAN, restart : {NoClip} \cup Jobs, locked : BOOLEAN, hits : Nat]

(* A densified file is in use and the page knows its density.              *)
Exact(c) == c.var # 0 /\ c.have = c.var

(* What is known of a file stays known, or a denser one takes its place.   *)
Denser(c, d) == Exact(c) => Exact(d) /\ d.var >= c.var

NoRunning(t) == \A e \in Clips : t.clip[e].status # "running"

Page(t) ==
    /\ t \in PageState
    /\ t.drain.at \in {"recovering", "encoding"} <=> t.drain.clip # 0
    /\ t.drain.at \in {"recovering", "encoding"} => t.drain.m # 0
    /\ \A e \in Clips : t.clip[e].status = "running" => t.drain.at = "encoding" /\ t.drain.clip = e

(* No clip gets a sparser file between t and u.                            *)
Thick(t, u) == \A e \in Clips : Denser(t.clip[e], u.clip[e])

(* What an operator does to the state of the page. *)
Keeps(t, u) == Page(u) /\ Thick(t, u) /\ (NoRunning(t) => NoRunning(u))

LEMMA Zeros == 0 \in Densities /\ 0 \notin Clips /\ Idle.at = "idle" /\ Idle.clip = 0 /\ Idle.m = 0
BY DEF Densities, Idle

LEMMA PageIs ==
    ASSUME NEW t, Page(t)
    PROVE  /\ t.clip \in [Clips -> ClipRec] /\ t.queue \in Seq(Jobs)
           /\ t.drain \in [at : {"idle", "loop", "recovering", "encoding"}, clip : Clips \cup {0}, m : Densities]
           /\ t.stop \in BOOLEAN /\ t.restart \in {NoClip} \cup Jobs /\ t.locked \in BOOLEAN
           /\ t.hits \in Nat
           /\ \A e \in Clips : /\ t.clip[e] \in ClipRec
                               /\ t.clip[e].need \in Densities /\ t.clip[e].have \in Densities
                               /\ t.clip[e].var \in Densities /\ t.clip[e].status \in Statuses
BY DEF Page, PageState, ClipRec

LEMMA DenserSelf == ASSUME NEW c, c \in ClipRec PROVE Denser(c, c)
BY DEF Denser, ClipRec, Densities

LEMMA DenserAs ==
    ASSUME NEW c, c \in ClipRec, NEW d, d.var = c.var, d.have = c.have
    PROVE  Denser(c, d)
BY DEF Denser, Exact, ClipRec, Densities

LEMMA DenserTrans ==
    ASSUME NEW c, NEW d, NEW f, c \in ClipRec, d \in ClipRec, f \in ClipRec,
           Denser(c, d), Denser(d, f)
    PROVE  Denser(c, f)
BY DEF Denser, ClipRec, Densities

LEMMA KeepsSelf == \A t : Page(t) => Keeps(t, t)
<1> SUFFICES ASSUME NEW t, Page(t) PROVE Thick(t, t)
  BY DEF Keeps
<1> QED BY PageIs, DenserSelf DEF Thick

LEMMA ThickTrans ==
    ASSUME NEW t, NEW u, NEW v, Page(t), Page(u), Page(v), Thick(t, u), Thick(u, v)
    PROVE  Thick(t, v)
<1>1. ASSUME NEW e \in Clips PROVE Denser(t.clip[e], v.clip[e])
  <2>1. t.clip[e] \in ClipRec /\ u.clip[e] \in ClipRec /\ v.clip[e] \in ClipRec
    BY PageIs
  <2> QED BY <2>1, DenserTrans DEF Thick
<1> QED BY <1>1 DEF Thick

LEMMA KeepsTrans ==
    ASSUME NEW t, NEW u, NEW v, Page(t), Keeps(t, u), Keeps(u, v)
    PROVE  Keeps(t, v)
BY ThickTrans DEF Keeps

(* Writing one clip, the queue or a switch                                 *)
LEMMA WriteClip ==
    ASSUME NEW t, Page(t), NEW e \in Clips, NEW c, c \in ClipRec,
           c.status = "running" => t.clip[e].status = "running"
    PROVE  LET u == [t EXCEPT !.clip[e] = c]
           IN  /\ Page(u) /\ u.drain = t.drain /\ u.clip[e] = c /\ u.queue = t.queue
               /\ u.clip = [t.clip EXCEPT ![e] = c] /\ u.restart = t.restart
               /\ \A d \in Clips \ {e} : u.clip[d] = t.clip[d]
               /\ NoRunning(t) => NoRunning(u)
<1> DEFINE u == [t EXCEPT !.clip[e] = c]
<1>1. u \in PageState
  BY DEF Page, PageState
<1>2. /\ u.clip = [t.clip EXCEPT ![e] = c] /\ u.drain = t.drain /\ u.restart = t.restart
      /\ u.queue = t.queue
  BY DEF Page, PageState
<1>3. t.clip \in [Clips -> ClipRec]
  BY PageIs
<1>4. \A d \in Clips : u.clip[d] = IF d = e THEN c ELSE t.clip[d]
  BY <1>2, <1>3
<1> HIDE DEF u
<1>5. Page(u)
  BY <1>1, <1>2, <1>4 DEF Page
<1>6. NoRunning(t) => NoRunning(u)
  BY <1>4 DEF NoRunning
<1> QED BY <1>2, <1>4, <1>5, <1>6 DEF u

LEMMA SetClip ==
    ASSUME NEW t, Page(t), NEW e \in Clips, NEW c, c \in ClipRec,
           c.status = "running" => t.clip[e].status = "running",
           Denser(t.clip[e], c)
    PROVE  LET u == [t EXCEPT !.clip[e] = c]
           IN  Keeps(t, u) /\ u.drain = t.drain /\ u.clip[e] = c /\ u.queue = t.queue
               /\ u.clip = [t.clip EXCEPT ![e] = c] /\ u.restart = t.restart
<1> DEFINE u == [t EXCEPT !.clip[e] = c]
<1>1. /\ Page(u) /\ u.drain = t.drain /\ u.clip[e] = c /\ u.queue = t.queue
      /\ u.clip = [t.clip EXCEPT ![e] = c] /\ u.restart = t.restart
      /\ \A d \in Clips \ {e} : u.clip[d] = t.clip[d]
      /\ NoRunning(t) => NoRunning(u)
  BY WriteClip
<1> HIDE DEF u
<1>2. Thick(t, u)
  BY <1>1, PageIs, DenserSelf DEF Thick
<1> QED BY <1>1, <1>2 DEF Keeps, u

LEMMA SetStatus ==
    ASSUME NEW t, Page(t), NEW e \in Clips, NEW st \in Statuses \ {"running"}
    PROVE  LET u == [t EXCEPT !.clip[e].status = st]
           IN  /\ Keeps(t, u) /\ u.drain = t.drain /\ u.restart = t.restart /\ u.queue = t.queue
               /\ (\A d \in Clips \ {e} : t.clip[d].status # "running") => NoRunning(u)
               /\ u.clip[e] = [t.clip[e] EXCEPT !.status = st]
<1> DEFINE c == [t.clip[e] EXCEPT !.status = st]
           u == [t EXCEPT !.clip[e].status = st]
<1>1. t.clip[e] \in ClipRec
  BY PageIs
<1>2. c \in ClipRec /\ c.status = st /\ Denser(t.clip[e], c)
  <2>1. c \in ClipRec /\ c.status = st /\ c.var = t.clip[e].var /\ c.have = t.clip[e].have
    BY <1>1 DEF ClipRec
  <2> QED BY <1>1, <2>1, DenserAs
<1>3. u = [t EXCEPT !.clip[e] = c]
  BY DEF Page, PageState
<1> HIDE DEF c, u
<1>4. /\ Keeps(t, u) /\ u.drain = t.drain /\ u.clip[e] = c /\ u.clip = [t.clip EXCEPT ![e] = c]
      /\ u.restart = t.restart /\ u.queue = t.queue
  <2>1. c.status # "running"
    BY <1>2
  <2> QED BY <1>2, <1>3, <2>1, SetClip
<1>5. t.clip \in [Clips -> ClipRec]
  BY PageIs
<1>6. (\A d \in Clips \ {e} : t.clip[d].status # "running") => NoRunning(u)
  BY <1>2, <1>4, <1>5 DEF NoRunning
<1> QED BY <1>4, <1>6 DEF c, u


(* A step that brings no clip into RUN and none a sparser file             *)
DrainOk(d) ==
    /\ d.at \in {"recovering", "encoding"} <=> d.clip # 0
    /\ d.at \in {"recovering", "encoding"} => d.m # 0

LEMMA Changed ==
    ASSUME NEW t, Page(t), NEW u \in PageState,
           \A e \in Clips : /\ u.clip[e].status = "running" => t.clip[e].status = "running"
                            /\ Denser(t.clip[e], u.clip[e]),
           u.drain = t.drain \/ (NoRunning(t) /\ DrainOk(u.drain))
    PROVE  Keeps(t, u)
<1>1. Page(u)
  BY DEF Page, DrainOk, NoRunning
<1> QED BY <1>1 DEF Keeps, Thick, NoRunning

LEMMA SameClips ==
    ASSUME NEW t, Page(t), NEW u \in PageState, u.clip = t.clip,
           u.drain = t.drain \/ (NoRunning(t) /\ DrainOk(u.drain))
    PROVE  Keeps(t, u)
<1>1. \A e \in Clips : Denser(t.clip[e], u.clip[e])
  BY PageIs, DenserSelf
<1> QED BY <1>1, Changed

-----------------------------------------------------------------------------
(* The operators of the queue                                              *)

LEMMA IdleOk == /\ [Idle EXCEPT !.at = "loop"] = [at |-> "loop", clip |-> 0, m |-> 0]
                /\ Idle = [at |-> "idle", clip |-> 0, m |-> 0]
                /\ DrainOk(Idle) /\ DrainOk([Idle EXCEPT !.at = "loop"])
                /\ {Idle, [Idle EXCEPT !.at = "loop"]} \subseteq
                     [at : {"idle", "loop", "recovering", "encoding"}, clip : Clips \cup {0}, m : Densities]
BY DEF Idle, DrainOk, Densities

LEMMA NotRunning == ASSUME NEW t, Page(t), t.drain.at # "encoding" PROVE NoRunning(t)
BY DEF Page, NoRunning

LEMMA DrainingIs == ASSUME NEW t, Page(t) PROVE Keeps(t, Draining(t))
<1>1. CASE t.drain.at # "idle"
  BY <1>1, KeepsSelf DEF Draining
<1>2. CASE t.drain.at = "idle"
  <2> DEFINE d == [Idle EXCEPT !.at = "loop"]
             u == [t EXCEPT !.drain = d, !.stop = FALSE, !.locked = TRUE]
  <2>1. d \in [at : {"idle", "loop", "recovering", "encoding"}, clip : Clips \cup {0}, m : Densities]
        /\ DrainOk(d)
    BY IdleOk
  <2>2. Draining(t) = u
    BY <1>2 DEF Draining
  <2> HIDE DEF d
  <2>3. u \in PageState /\ u.clip = t.clip /\ u.drain = d
    BY <2>1 DEF Page, PageState
  <2>4. NoRunning(t)
    BY <1>2, NotRunning
  <2> HIDE DEF u
  <2> QED BY <2>1, <2>2, <2>3, <2>4, SameClips
<1> QED BY <1>1, <1>2

LEMMA SupersededIs == ASSUME NEW t, Page(t), NEW e \in Clips PROVE Keeps(t, Superseded(t, e))
<1> DEFINE m == t.clip[e].need
           r == [clip |-> e, m |-> m]
           u == [t EXCEPT !.hits = @ + 1]
           v == [t EXCEPT !.restart = r, !.locked = TRUE, !.hits = @ + 1]
<1>1. Superseded(t, e) \in {t, u, v}
  BY DEF Superseded
<1>2. r \in Jobs /\ t.hits + 1 \in Nat
  BY PageIs DEF Jobs
<1> HIDE DEF r
<1>3. /\ u \in PageState /\ u.clip = t.clip /\ u.drain = t.drain
      /\ v \in PageState /\ v.clip = t.clip /\ v.drain = t.drain
  BY <1>2 DEF Page, PageState
<1> HIDE DEF u, v
<1>4. Keeps(t, u) /\ Keeps(t, v) /\ Keeps(t, t)
  BY <1>3, SameClips, KeepsSelf
<1> QED BY <1>1, <1>4

LEMMA QueuedForIs ==
    ASSUME NEW t, Page(t), NEW e
    PROVE  QueuedFor(t, e) \in SUBSET Nat /\ \A i \in QueuedFor(t, e) : i \in 1..Len(t.queue)
BY PageIs, LenProperties DEF QueuedFor

LEMMA QueuedIs == ASSUME NEW t, Page(t), NEW e \in Clips PROVE Keeps(t, Queued(t, e))
<1> DEFINE c == t.clip[e]
<1>0. c \in ClipRec /\ c.need \in Densities /\ [clip |-> e, m |-> c.need] \in Jobs
      /\ t.queue \in Seq(Jobs) /\ t.hits + 1 \in Nat
  <2>1. c \in ClipRec /\ c.need \in Densities /\ t.queue \in Seq(Jobs) /\ t.hits \in Nat
    BY PageIs
  <2> QED BY <2>1 DEF Jobs
<1>1. CASE c.var # 0 /\ c.have >= c.need
  BY <1>1, SetStatus DEF Queued, Statuses
<1>2. CASE ~(c.var # 0 /\ c.have >= c.need) /\ c.status = "failed"
  BY <1>2, KeepsSelf DEF Queued
<1>3. CASE ~(c.var # 0 /\ c.have >= c.need) /\ c.status = "running"
  BY <1>3, SupersededIs DEF Queued
<1>4. CASE ~(c.var # 0 /\ c.have >= c.need) /\ c.status \notin {"failed", "running"} /\ QueuedFor(t, e) = {}
  <2> DEFINE q == Append(t.queue, [clip |-> e, m |-> c.need])
             s == [t EXCEPT !.clip[e].status = "pending"]
             u == [t EXCEPT !.clip[e].status = "pending", !.hits = @ + 1, !.queue = q]
  <2>1. q \in Seq(Jobs)
    BY <1>0
  <2>2. Queued(t, e) = Draining(u)
    BY <1>4 DEF Queued
  <2>3. Keeps(t, s) /\ Page(s)
    BY SetStatus DEF Keeps, Statuses
  <2>4. s.hits = t.hits /\ u = [s EXCEPT !.hits = t.hits + 1, !.queue = q]
    BY DEF Page, PageState
  <2> HIDE DEF q, s, u
  <2>5. u \in PageState /\ u.clip = s.clip /\ u.drain = s.drain
    BY <1>0, <2>1, <2>3, <2>4 DEF Page, PageState
  <2>6. Keeps(s, u) /\ Page(u)
    BY <2>3, <2>5, SameClips DEF Keeps
  <2>7. Keeps(u, Draining(u))
    BY <2>6, DrainingIs
  <2>8. Keeps(t, u)
    BY <2>3, <2>6, KeepsTrans
  <2> QED BY <2>2, <2>7, <2>8, KeepsTrans
<1>5. CASE ~(c.var # 0 /\ c.have >= c.need) /\ c.status \notin {"failed", "running"} /\ QueuedFor(t, e) # {}
  <2> DEFINE i == Min(QueuedFor(t, e))
             u == [t EXCEPT !.queue[i].m = c.need, !.hits = @ + 1]
  <2>1. Queued(t, e) \in {t, u}
    BY <1>5 DEF Queued
  <2>2. i \in 1..Len(t.queue)
    BY <1>5, QueuedForIs, Minimum
  <2>3. DOMAIN t.queue = 1..Len(t.queue) /\ t.queue[i] \in Jobs
    BY <1>0, <2>2, LenProperties, ElementOfSeq
  <2> DEFINE j == [t.queue[i] EXCEPT !.m = c.need]
             q == [t.queue EXCEPT ![i] = j]
  <2> HIDE DEF i
  <2>4. j \in Jobs
    BY <1>0, <2>3 DEF Jobs
  <2>5. u = [t EXCEPT !.queue = q, !.hits = t.hits + 1]
    BY DEF Page, PageState
  <2> HIDE DEF j
  <2>6. q \in Seq(Jobs)
    BY <1>0, <2>2, <2>4, ExceptSeq
  <2> HIDE DEF q, u
  <2>7. u \in PageState /\ u.clip = t.clip /\ u.drain = t.drain
    BY <1>0, <2>5, <2>6 DEF Page, PageState
  <2>8. Keeps(t, u)
    BY <2>7, SameClips
  <2> QED BY <2>1, <2>8, KeepsSelf
<1> QED BY <1>1, <1>2, <1>3, <1>4, <1>5

LEMMA UnqueuedIs ==
    ASSUME NEW t, Page(t), NEW es, NEW st
    PROVE  /\ Unqueued(t, es, st) \in [Clips -> ClipRec]
           /\ \A e \in Clips :
                LET c == Unqueued(t, es, st)[e]
                IN  /\ c.status = "running" => t.clip[e].status = "running"
                    /\ Denser(t.clip[e], c)
<1> DEFINE f(e) == IF e \in es /\ t.clip[e].status \in st
                   THEN [t.clip[e] EXCEPT !.status = "none"] ELSE t.clip[e]
<1>1. Unqueued(t, es, st) = [e \in Clips |-> f(e)]
  BY DEF Unqueued
<1>2. ASSUME NEW e \in Clips
      PROVE  /\ f(e) \in ClipRec
             /\ f(e).status = "running" => t.clip[e].status = "running"
             /\ Denser(t.clip[e], f(e))
  <2>1. t.clip[e] \in ClipRec
    BY PageIs
  <2> DEFINE d == [t.clip[e] EXCEPT !.status = "none"]
  <2>2. d \in ClipRec /\ d.status = "none" /\ d.var = t.clip[e].var /\ d.have = t.clip[e].have
    BY <2>1 DEF ClipRec, Statuses
  <2>3. Denser(t.clip[e], d) /\ Denser(t.clip[e], t.clip[e])
    BY <2>1, <2>2, DenserAs, DenserSelf
  <2>4. f(e) \in {d, t.clip[e]}
    OBVIOUS
  <2> HIDE DEF d, f
  <2> QED BY <2>1, <2>2, <2>3, <2>4
<1> HIDE DEF f
<1> QED BY <1>1, <1>2

LEMMA EndedIs == ASSUME NEW t, Page(t), NoRunning(t) PROVE Keeps(t, Ended(t))
<1> DEFINE k == IF t.stop THEN Unqueued(t, present, {"pending", "running"}) ELSE t.clip
           u == [t EXCEPT !.drain = Idle, !.locked = FALSE, !.stop = FALSE, !.clip = k]
<1>1. /\ k \in [Clips -> ClipRec]
      /\ \A e \in Clips : /\ k[e].status = "running" => t.clip[e].status = "running"
                          /\ Denser(t.clip[e], k[e])
  <2>1. CASE t.stop
    BY <2>1, UnqueuedIs
  <2>2. CASE ~t.stop
    BY <2>2, PageIs, DenserSelf
  <2> QED BY <2>1, <2>2
<1>2. Ended(t) = u
  BY DEF Ended
<1> HIDE DEF k
<1>3. u \in PageState /\ u.clip = k /\ u.drain = Idle
  BY <1>1, IdleOk DEF Page, PageState
<1> HIDE DEF u
<1> QED BY <1>1, <1>2, <1>3, IdleOk, Changed

LEMMA LoopingIs == ASSUME NEW t, Page(t), NoRunning(t) PROVE Keeps(t, Looping(t))
<1> DEFINE d == [Idle EXCEPT !.at = "loop"]
           u == [t EXCEPT !.drain = d]
<1>1. Looping(t) = u
  BY DEF Looping
<1>2. DrainOk(d) /\ d \in [at : {"idle", "loop", "recovering", "encoding"}, clip : Clips \cup {0}, m : Densities]
  BY IdleOk
<1> HIDE DEF d
<1>3. u \in PageState /\ u.clip = t.clip /\ u.drain = d
  BY <1>2 DEF Page, PageState
<1> HIDE DEF u
<1> QED BY <1>1, <1>2, <1>3, SameClips

LEMMA EncodingIs ==
    ASSUME NEW t, Page(t), NoRunning(t), NEW e \in Clips, NEW m \in Densities, m # 0
    PROVE  Page(Encoding(t, e, m)) /\ Thick(t, Encoding(t, e, m))
<1> DEFINE c == [t.clip[e] EXCEPT !.status = "running"]
           d == [at |-> "encoding", clip |-> e, m |-> m]
           u == [t EXCEPT !.clip[e] = c, !.drain = d]
<1>1. t.clip[e] \in ClipRec
  BY PageIs
<1>2. c \in ClipRec /\ Denser(t.clip[e], c)
  <2>1. c \in ClipRec /\ c.var = t.clip[e].var /\ c.have = t.clip[e].have
    BY <1>1 DEF ClipRec, Statuses
  <2> QED BY <1>1, <2>1, DenserAs
<1>3. d \in [at : {"idle", "loop", "recovering", "encoding"}, clip : Clips \cup {0}, m : Densities]
      /\ DrainOk(d)
  BY Zeros DEF DrainOk
<1>4. Encoding(t, e, m) = u
  BY DEF Encoding, Page, PageState
<1>5. d.at = "encoding" /\ d.clip = e
  OBVIOUS
<1> HIDE DEF c, d
<1>6. u \in PageState /\ u.clip = [t.clip EXCEPT ![e] = c] /\ u.drain = d
  BY <1>2, <1>3 DEF Page, PageState
<1> HIDE DEF u
<1>7. \A x \in Clips : u.clip[x] = IF x = e THEN c ELSE t.clip[x]
  BY <1>6, PageIs
<1>8. Page(u)
  BY <1>2, <1>3, <1>5, <1>6, <1>7 DEF Page, DrainOk, NoRunning
<1>9. Thick(t, u)
  BY <1>2, <1>7, PageIs, DenserSelf DEF Thick
<1> QED BY <1>4, <1>8, <1>9

LEMMA RequeuedIs ==
    ASSUME NEW t, Page(t), NEW e \in Clips, NEW m \in Densities,
           \A x \in Clips \ {e} : t.clip[x].status # "running"
    PROVE  Keeps(t, Requeued(t, e, m))
<1> DEFINE q == <<[clip |-> e, m |-> m]>> \o t.queue
           s == [t EXCEPT !.clip[e].status = "pending"]
           u == [t EXCEPT !.clip[e].status = "pending", !.restart = NoClip, !.queue = q]
<1>1. q \in Seq(Jobs)
  <2>1. <<[clip |-> e, m |-> m]>> \in Seq(Jobs)
    BY DEF Jobs
  <2> QED BY <2>1, PageIs, ConcatProperties
<1>2. Keeps(t, s) /\ Page(s) /\ NoRunning(s)
  BY SetStatus DEF Keeps, Statuses
<1>3. u = [s EXCEPT !.restart = NoClip, !.queue = q]
  BY DEF Page, PageState
<1>4. Requeued(t, e, m) = Looping(u)
  BY DEF Requeued
<1> HIDE DEF q, s, u
<1>5. u \in PageState /\ u.clip = s.clip /\ u.drain = s.drain
  BY <1>1, <1>2, <1>3 DEF Page, PageState
<1>6. Keeps(s, u) /\ Page(u) /\ NoRunning(u)
  BY <1>2, <1>5, SameClips DEF Keeps
<1>7. Keeps(t, u) /\ Keeps(u, Looping(u))
  BY <1>2, <1>6, KeepsTrans, LoopingIs
<1> QED BY <1>4, <1>7, KeepsTrans
-----------------------------------------------------------------------------
(* What a clip learns                                                      *)

DensitySets == SUBSET (1..MaxM)

(* A clip that learns something keeps its status or is done, and gets no   *)
(* sparser file.                                                           *)
Learns(c, d) == d \in ClipRec /\ d.status \in {c.status, "done"} /\ Denser(c, d)

LEMMA ClipIs ==
    ASSUME NEW c, c \in ClipRec
    PROVE  /\ c.need \in Densities /\ c.have \in Densities /\ c.var \in Densities
           /\ c.status \in Statuses /\ c.kind \in Kinds
           /\ c.have \in Nat /\ c.var \in Nat
BY DEF ClipRec, Densities

LEMMA WithKind ==
    ASSUME NEW c, c \in ClipRec, NEW k \in Kinds
    PROVE  LET d == [c EXCEPT !.kind = k]
           IN  d \in ClipRec /\ d.var = c.var /\ d.have = c.have /\ d.status = c.status
BY DEF ClipRec

LEMMA WithStatus ==
    ASSUME NEW c, c \in ClipRec, NEW s \in Statuses
    PROVE  LET d == [c EXCEPT !.status = s]
           IN  d \in ClipRec /\ d.var = c.var /\ d.have = c.have /\ d.status = s
BY DEF ClipRec

LEMMA BestIs ==
    ASSUME NEW data \in DensitySets
    PROVE  Best(data) \in Densities /\ \A d \in data : d <= Best(data)
<1>1. data \subseteq Densities
  BY DEF DensitySets, Densities
<1>2. CASE data = {}
  BY <1>2 DEF Best, Densities
<1>3. CASE data # {}
  BY <1>1, <1>3, Maximum DEF Best
<1> QED BY <1>2, <1>3

LEMMA HydrateIs ==
    ASSUME NEW c, c \in ClipRec, NEW data \in DensitySets
    PROVE  Learns(c, Hydrate(c, data))
<1> DEFINE known == IF c.var = 0 THEN c.have ELSE IF c.var \in data THEN c.var
                    ELSE Max({c.have, 1})
           takes == Best(data) # 0 /\ (c.var = 0 \/ Best(data) >= known)
           h == IF takes THEN Best(data) ELSE known
           v == IF takes THEN Best(data) ELSE c.var
           d == [c EXCEPT !.have = h, !.var = v]
<1>1. c.have \in Densities /\ c.var \in Densities /\ Best(data) \in Densities
  BY ClipIs, BestIs
<1>2. known \in Densities /\ (Exact(c) => known = c.var)
  <2>1. {c.have, 1} \in SUBSET Densities
    BY <1>1 DEF Densities
  <2>2. Max({c.have, 1}) \in {c.have, 1} /\ c.have <= Max({c.have, 1})
    BY <2>1, Maximum
  <2>3. Max({c.have, 1}) \in Densities
    BY <2>1, <2>2
  <2>4. known \in Densities
    BY <1>1, <2>3
  <2>5. Exact(c) => Max({c.have, 1}) = c.var
    BY <1>1, <2>2 DEF Exact, Densities
  <2>6. Exact(c) => known = c.var
    BY <2>5 DEF Exact
  <2> QED BY <2>4, <2>6
<1>4. Hydrate(c, data) = IF Covered(d) THEN [d EXCEPT !.status = "done"] ELSE d
  BY DEF Hydrate
<1> HIDE DEF known
<1>3. h \in Densities /\ v \in Densities /\ (Exact(c) => v # 0 /\ h = v /\ v >= c.var)
  BY <1>1, <1>2 DEF Exact, Densities
<1> HIDE DEF h, v
<1>5. d \in ClipRec /\ d.have = h /\ d.var = v /\ d.status = c.status
  BY <1>3 DEF ClipRec
<1> HIDE DEF d
<1>6. Denser(c, d)
  BY <1>3, <1>5 DEF Denser, Exact
<1>7. "done" \in Statuses
  BY DEF Statuses
<1>8. LET g == [d EXCEPT !.status = "done"]
      IN  g \in ClipRec /\ g.have = h /\ g.var = v /\ g.status = "done"
  BY <1>5, <1>7, WithStatus
<1>9. Denser(c, [d EXCEPT !.status = "done"])
  BY <1>3, <1>8 DEF Denser, Exact
<1> QED BY <1>4, <1>5, <1>6, <1>8, <1>9 DEF Learns

LEMMA LearnsAs ==
    ASSUME NEW c, c \in ClipRec, NEW d \in ClipRec, d.var = c.var, d.have = c.have,
           d.status \in {c.status, "done"}
    PROVE  Learns(c, d)
BY DenserAs DEF Learns

LEMMA RecognisedIs ==
    ASSUME NEW c, c \in ClipRec
    PROVE  Learns(c, Recognised(c))
<1> DEFINE k == IF c.kind = "unset" THEN "rifed" ELSE c.kind
           d == [c EXCEPT !.kind = k]
           s == IF k = "rifed" THEN "done" ELSE c.status
           g == [d EXCEPT !.status = s]
<1>1. k \in Kinds /\ s \in Statuses /\ s \in {c.status, "done"}
  BY ClipIs DEF Kinds, Statuses
<1>2. Answered(c) => Recognised(c) = g
  BY DEF Recognised, ClipRec
<1>3. d \in ClipRec /\ d.var = c.var /\ d.have = c.have
  BY <1>1, WithKind
<1> HIDE DEF d, s, k
<1>4. g \in ClipRec /\ g.var = c.var /\ g.have = c.have /\ g.status \in {c.status, "done"}
  BY <1>1, <1>3, WithStatus
<1> HIDE DEF g
<1>5. Learns(c, g) /\ Learns(c, c)
  BY <1>4, LearnsAs
<1> QED BY <1>2, <1>5 DEF Recognised

LEMMA AttachedIs ==
    ASSUME NEW c, c \in ClipRec, NEW data \in DensitySets
    PROVE  Learns(c, Attached(c, data))
<1> DEFINE b == Best(data)
           d == [c EXCEPT !.var = b, !.have = b, !.status = "done"]
<1>1. CASE Usable(c) \/ b = 0
  BY <1>1, LearnsAs DEF Attached
<1>2. CASE ~(Usable(c) \/ b = 0)
  <2>1. b \in Densities
    BY BestIs
  <2>2. Attached(c, data) = [d EXCEPT !.kind = Kind(d)]
    BY <1>2 DEF Attached
  <2> HIDE DEF b
  <2>3. d \in ClipRec /\ d.status = "done"
    BY <2>1 DEF ClipRec, Statuses
  <2>4. Kind(d) \in Kinds
    BY DEF Kind, Kinds
  <2> HIDE DEF d
  <2>5. LET g == [d EXCEPT !.kind = Kind(d)] IN g \in ClipRec /\ g.status = "done"
    BY <2>3, <2>4, WithKind
  <2>6. ~Exact(c)
    BY <1>2 DEF Exact, Usable
  <2> QED BY <2>2, <2>5, <2>6 DEF Learns, Denser
<1> QED BY <1>1, <1>2

-----------------------------------------------------------------------------
(* The visit of a clip by the scan and by the loop that queues             *)

LEMMA LearnClip ==
    ASSUME NEW t, Page(t), NEW e \in Clips, NEW c, Learns(t.clip[e], c)
    PROVE  Keeps(t, [t EXCEPT !.clip[e] = c])
<1>1. c \in ClipRec /\ (c.status = "running" => t.clip[e].status = "running")
      /\ Denser(t.clip[e], c)
  BY DEF Learns
<1> QED BY <1>1, SetClip

LEMMA LearnClips ==
    ASSUME NEW t, Page(t), NEW k, k \in [Clips -> ClipRec],
           \A e \in Clips : k[e] = t.clip[e] \/ Learns(t.clip[e], k[e])
    PROVE  Keeps(t, [t EXCEPT !.clip = k])
<1> DEFINE u == [t EXCEPT !.clip = k]
<1>1. u \in PageState /\ u.clip = k /\ u.drain = t.drain
  BY DEF Page, PageState
<1>2. \A e \in Clips : /\ k[e].status = "running" => t.clip[e].status = "running"
                       /\ Denser(t.clip[e], k[e])
  BY PageIs, DenserSelf DEF Learns
<1> HIDE DEF u
<1> QED BY <1>1, <1>2, Changed DEF u

(* The rest of the visit, up to the state that it leaves. *)
VisitTo(t, e, data) ==
    LET c == Hydrate(t.clip[e], data)
        s == [t EXCEPT !.clip[e] = c]
    IN  IF RifeNeeded(c) THEN Queued(s, e) ELSE s

LEMMA VisitedIs ==
    ASSUME NEW t, Page(t), NEW e \in Clips, NEW data \in DensitySets
    PROVE  Keeps(t, VisitTo(t, e, data))
<1> DEFINE c == Hydrate(t.clip[e], data)
           s == [t EXCEPT !.clip[e] = c]
<1>1. t.clip[e] \in ClipRec
  BY PageIs
<1>2. Learns(t.clip[e], c)
  BY <1>1, HydrateIs
<1> HIDE DEF c
<1>3. Keeps(t, s) /\ Page(s)
  BY <1>2, LearnClip DEF Keeps
<1> HIDE DEF s
<1>4. Keeps(s, Queued(s, e))
  BY <1>3, QueuedIs
<1>5. VisitTo(t, e, data) = IF RifeNeeded(c) THEN Queued(s, e) ELSE s
  BY DEF VisitTo, c, s
<1> QED BY <1>3, <1>4, <1>5, KeepsTrans

LEMMA EnsuredIs ==
    ASSUME NEW t, Page(t), NEW e \in Clips
    PROVE  Keeps(t, Ensured(t, e))
<1> DEFINE c == t.clip[e]
           k == IF KnownKind(c) = "needsRife" /\ ~RifeNeeded(c) THEN Kind(c) ELSE KnownKind(c)
           st == IF KnownKind(c) = "rifed" THEN "done" ELSE c.status
           d == [c EXCEPT !.kind = k]
           g == [d EXCEPT !.status = st]
           u == [t EXCEPT !.clip[e] = g]
<1>1. c \in ClipRec
  BY PageIs
<1>2. k \in Kinds /\ st \in Statuses /\ st \in {c.status, "done"}
  <2>1. c.kind \in Kinds /\ c.status \in Statuses
    BY <1>1, ClipIs
  <2>2. Kind(c) \in Kinds
    BY DEF Kind, Kinds
  <2>3. KnownKind(c) \in Kinds
    BY <2>1, <2>2 DEF KnownKind
  <2> QED BY <2>1, <2>2, <2>3 DEF Statuses
<1>3. Ensured(t, e) = IF k = "needsRife" /\ RifeNeeded(c) THEN Queued(u, e) ELSE u
  <2> DEFINE w == [t EXCEPT !.clip[e].kind = k,
                            !.clip[e].status = IF KnownKind(c) = "rifed" THEN "done" ELSE @]
  <2>1. Ensured(t, e) = IF k = "needsRife" /\ RifeNeeded(c) THEN Queued(w, e) ELSE w
    BY DEF Ensured
  <2>2. u = w
    BY DEF Page, PageState, ClipRec
  <2> HIDE DEF u, w
  <2> QED BY <2>1, <2>2
<1> HIDE DEF k, st
<1>4. d \in ClipRec /\ d.var = c.var /\ d.have = c.have
  BY <1>1, <1>2, WithKind
<1> HIDE DEF d
<1>5. g \in ClipRec /\ g.var = c.var /\ g.have = c.have /\ g.status \in {c.status, "done"}
  BY <1>2, <1>4, WithStatus
<1> HIDE DEF g
<1>8. Learns(c, g)
  BY <1>1, <1>5, LearnsAs
<1>6. Keeps(t, u) /\ Page(u)
  BY <1>8, LearnClip DEF Keeps
<1> HIDE DEF u
<1>7. Keeps(u, Queued(u, e))
  BY <1>6, QueuedIs
<1> QED BY <1>3, <1>6, <1>7, KeepsTrans

LEMMA AutoQueuedIs ==
    ASSUME NEW t, Page(t), NEW e \in Clips
    PROVE  Keeps(t, AutoQueued(t, e))
<1> DEFINE st == IF t.clip[e].status \in {"running", "pending", "failed"} THEN t.clip[e].status ELSE "none"
           u == [t EXCEPT !.clip[e].status = st]
           v == [t EXCEPT !.clip[e].status = "done"]
<1>1. AutoQueued(t, e) \in {t, v, Queued(t, e), u}
  BY DEF AutoQueued, Page, PageState
<1>2. Keeps(t, t) /\ Keeps(t, Queued(t, e)) /\ Keeps(t, v)
  BY KeepsSelf, QueuedIs, SetStatus DEF Statuses
<1>3. Keeps(t, u)
  <2>1. CASE t.clip[e].status = "running"
    <3>1. u = t
      BY <2>1 DEF Page, PageState, ClipRec
    <3> QED BY <3>1, KeepsSelf
  <2>2. CASE t.clip[e].status # "running"
    <3>1. st \in Statuses \ {"running"}
      BY <2>2, PageIs DEF Statuses
    <3> HIDE DEF st
    <3> QED BY <3>1, SetStatus
  <2> QED BY <2>1, <2>2
<1> QED BY <1>1, <1>2, <1>3

LEMMA RenderedIs ==
    ASSUME NEW t, Page(t), NEW es
    PROVE  Keeps(t, Rendered(t, es))
<1> DEFINE g(e) == [t.clip[e] EXCEPT !.kind = KnownKind(t.clip[e])]
           looked(e) == Drawing /\ e \in IdleClips(t, es) /\ \A h \in IdleNeed(t, es) : e <= h
           k == [e \in Clips |-> IF looked(e) THEN g(e) ELSE t.clip[e]]
<1>1. Rendered(t, es) = [t EXCEPT !.clip = k]
  BY DEF Rendered
<1>2. ASSUME NEW e \in Clips PROVE Learns(t.clip[e], g(e))
  <2>1. t.clip[e] \in ClipRec
    BY PageIs
  <2>2. KnownKind(t.clip[e]) \in Kinds
    <3>1. Kind(t.clip[e]) \in Kinds
      BY DEF Kind, Kinds
    <3> QED BY <2>1, <3>1, ClipIs DEF KnownKind
  <2>3. /\ g(e) \in ClipRec /\ g(e).var = t.clip[e].var /\ g(e).have = t.clip[e].have
        /\ g(e).status = t.clip[e].status
    BY <2>1, <2>2, WithKind
  <2> HIDE DEF g
  <2> QED BY <2>1, <2>3, LearnsAs
<1> HIDE DEF g, looked
<1>3. \A e \in Clips : k[e] = t.clip[e] \/ Learns(t.clip[e], k[e])
  BY <1>2
<1>4. k \in [Clips -> ClipRec]
  BY <1>2, PageIs DEF Learns
<1> HIDE DEF k
<1> QED BY <1>1, <1>3, <1>4, LearnClips

-----------------------------------------------------------------------------
(* The inductive invariant                                                 *)

(* The runs of the scan and the passes of Instant *)
Scans == [at : {"idle", "step", "waiting", "answered"}, i : Nat, clip : Clips \cup {0},
          data : DensitySets, changed : BOOLEAN]
Passes == [at : {"idle", "step", "asking"}, want : SUBSET Sources,
           seen : SUBSET [Sources -> DensitySets], next : Clips \cup {0}, hits : Nat]

(* What the registry said, on its way and kept, and who waits for it.      *)
Registry ==
    /\ present \subseteq Clips
    /\ registry \in [Sources -> DensitySets]
    /\ cache \in [Sources -> {Unknown} \cup DensitySets]
    /\ fetch \in [Sources -> SUBSET DensitySets]
    /\ scan \in [Slots -> Scans]
    /\ \A k \in Slots : scan[k].at \in {"waiting", "answered"} => scan[k].clip \in Clips
    /\ attach \in [Slots -> Passes]

IInv == Page(Now) /\ Registry

(* No clip gets a sparser file in this step, if the page knows its density.*)
Dense == \A e \in Clips : Denser(clip[e], clip'[e])

LEMMA NowIs == /\ Now.clip = clip /\ Now.queue = queue /\ Now.drain = drain /\ Now.stop = stop
               /\ Now.restart = restart /\ Now.locked = locked /\ Now.hits = 0
BY DEF Now

LEMMA BecomePage ==
    ASSUME NEW t, Page(t), Becomes(t)
    PROVE  Page(Now)'
<1>1. /\ clip' = t.clip /\ queue' = t.queue /\ drain' = t.drain
      /\ stop' = t.stop /\ restart' = t.restart /\ locked' = t.locked
  BY DEF Becomes
<1>2. Now' \in PageState
  BY <1>1, PageIs DEF Now, PageState
<1> QED BY <1>1, <1>2 DEF Page, Now

LEMMA Become ==
    ASSUME NEW t, Page(t), Thick(Now, t), Becomes(t)
    PROVE  Page(Now)' /\ Dense
<1>1. clip' = t.clip
  BY DEF Becomes
<1> QED BY <1>1, BecomePage DEF Dense, Thick, Now

LEMMA BecomeKept ==
    ASSUME NEW t, Keeps(Now, t), Becomes(t)
    PROVE  Page(Now)' /\ Dense
BY Become DEF Keeps

LEMMA PageUnchanged ==
    ASSUME Page(Now), UNCHANGED <<clip, queue, drain, stop, restart, locked>>
    PROVE  Page(Now)' /\ Dense
<1>1. Now' = Now
  BY DEF Now
<1>2. Dense
  BY PageIs, NowIs, DenserSelf DEF Dense
<1> QED BY <1>1, <1>2 DEF Page

LEMMA RegistryUnchanged ==
    ASSUME Registry, UNCHANGED <<present, registry, cache, fetch, scan, attach>>
    PROVE  Registry'
BY DEF Registry

LEMMA InitIInv == Init => IInv
<1> SUFFICES ASSUME Init PROVE IInv
  OBVIOUS
<1>1. NewClip \in ClipRec /\ [NewClip EXCEPT !.need = 1] \in ClipRec /\ [NewClip EXCEPT !.need = 0] \in ClipRec
  BY DEF NewClip, ClipRec, Densities, Statuses, Kinds
<1>2. \A e \in Clips : clip[e] \in {[NewClip EXCEPT !.need = 1], [NewClip EXCEPT !.need = 0]}
  BY DEF Init
<1>3. \A c \in {[NewClip EXCEPT !.need = 1], [NewClip EXCEPT !.need = 0]} : c.status # "running"
  BY <1>1 DEF NewClip
<1>4. clip \in [Clips -> ClipRec]
  BY <1>1 DEF Init
<1>5. Now \in PageState
  <2>1. queue \in Seq(Jobs)
    BY EmptySeq DEF Init
  <2>3. stop \in BOOLEAN /\ locked \in BOOLEAN /\ restart \in {NoClip} \cup Jobs
    BY DEF Init
  <2>2. drain \in [at : {"idle", "loop", "recovering", "encoding"}, clip : Clips \cup {0}, m : Densities]
    BY IdleOk DEF Init
  <2> QED BY <1>4, <2>1, <2>2, <2>3 DEF Now, PageState
<1>6. Page(Now)
  BY <1>2, <1>3, <1>5, IdleOk DEF Page, Now, Init, DrainOk
<1>7. Registry
  <2>1. NoScan \in Scans /\ NoAttach \in Passes /\ NoScan.at = "idle"
    BY DEF NoScan, NoAttach, Scans, Passes, DensitySets
  <2>2. {{}, {MaxM}} \subseteq DensitySets
    BY DEF DensitySets
  <2>3. registry \in [Sources -> DensitySets]
    BY <2>2 DEF Init
  <2>4. /\ scan \in [Slots -> Scans] /\ attach \in [Slots -> Passes]
        /\ \A k \in Slots : scan[k].at = "idle"
    BY <2>1 DEF Init
  <2>5. present \subseteq Clips /\ fetch \in [Sources -> SUBSET DensitySets]
        /\ cache \in [Sources -> {Unknown} \cup DensitySets]
    BY DEF Init
  <2> QED BY <2>3, <2>4, <2>5 DEF Registry
<1> QED BY <1>6, <1>7 DEF IInv

-----------------------------------------------------------------------------
(* The drain                                                               *)

LEMMA TakeJobStep ==
    ASSUME IInv, TakeJob
    PROVE  IInv' /\ Dense
<1> SUFFICES Page(Now)' /\ Dense
  BY RegistryUnchanged DEF IInv, TakeJob, caches, user
<1> DEFINE e == Head(queue).clip
           f == [Now EXCEPT !.queue = Tail(@)]
           s == [Now EXCEPT !.queue = Tail(@), !.locked = TRUE]
           st == IF clip[e].var # 0 THEN "done" ELSE "none"
           r == [at |-> "recovering", clip |-> e, m |-> clip[e].need]
           t == IF queue = <<>> \/ stop THEN Ended(Now)
                ELSE IF e \notin present THEN f
                ELSE IF ~RifeNeeded(clip[e]) THEN [s EXCEPT !.clip[e].status = st]
                ELSE IF clip[e].var = 0 THEN Encoding(s, e, clip[e].need)
                ELSE [s EXCEPT !.drain = r]
<1>1. Becomes(t) /\ drain.at = "loop"
  BY DEF TakeJob
<1> HIDE DEF t
<1>2. Page(Now) /\ NoRunning(Now)
  BY <1>1, NotRunning, NowIs DEF IInv
<1>3. CASE queue = <<>> \/ stop
  <2>1. t = Ended(Now)
    BY <1>3 DEF t
  <2> QED BY <1>1, <1>2, <2>1, EndedIs, BecomeKept
<1>4. CASE ~(queue = <<>> \/ stop)
  <2>1. Tail(queue) \in Seq(Jobs) /\ Head(queue) \in Jobs
    BY <1>2, <1>4, PageIs, NowIs, HeadTailProperties
  <2>2. e \in Clips
    BY <2>1 DEF Jobs
  <2> HIDE DEF e
  <2>3. /\ f \in PageState /\ f.clip = clip /\ f.drain = drain
        /\ s \in PageState /\ s.clip = clip /\ s.drain = drain
    BY <1>2, <2>1 DEF Page, PageState, Now
  <2> HIDE DEF f, s
  <2>4. Keeps(Now, f) /\ Keeps(Now, s)
    BY <1>2, <2>3, NowIs, SameClips
  <2>5. Page(s) /\ NoRunning(s)
    BY <1>2, <2>4 DEF Keeps
  <2>6. CASE e \notin present
    <3>1. t = f
      BY <1>4, <2>6 DEF t, f
    <3> QED BY <1>1, <2>4, <3>1, BecomeKept
  <2>7. CASE e \in present /\ ~RifeNeeded(clip[e])
    <3>1. st \in Statuses \ {"running"}
      BY DEF Statuses
    <3> HIDE DEF st
    <3>2. Keeps(s, [s EXCEPT !.clip[e].status = st])
      BY <2>2, <2>5, <3>1, SetStatus
    <3>3. Keeps(Now, [s EXCEPT !.clip[e].status = st])
      BY <1>2, <2>4, <3>2, KeepsTrans
    <3>4. t = [s EXCEPT !.clip[e].status = st]
      BY <1>4, <2>7 DEF t, s, e, st
    <3> QED BY <1>1, <3>3, <3>4, BecomeKept
  <2>8. CASE e \in present /\ RifeNeeded(clip[e])
    <3>1. clip[e].need \in Densities /\ clip[e].need # 0
      BY <1>2, <2>2, <2>8, PageIs, NowIs DEF RifeNeeded
    <3>2. CASE clip[e].var = 0
      <4>1. Page(Encoding(s, e, clip[e].need)) /\ Thick(s, Encoding(s, e, clip[e].need))
        BY <2>2, <2>5, <3>1, EncodingIs
      <4>2. Thick(Now, Encoding(s, e, clip[e].need))
        BY <2>3, <4>1, NowIs DEF Thick
      <4>3. t = Encoding(s, e, clip[e].need)
        BY <1>4, <2>8, <3>2 DEF t, s, e
      <4> QED BY <1>1, <4>1, <4>2, <4>3, Become
    <3>3. CASE clip[e].var # 0
      <4>1. /\ r \in [at : {"idle", "loop", "recovering", "encoding"}, clip : Clips \cup {0}, m : Densities]
            /\ DrainOk(r)
        BY <2>2, <3>1, Zeros DEF DrainOk
      <4> HIDE DEF r
      <4> DEFINE u == [s EXCEPT !.drain = r]
      <4>2. u \in PageState /\ u.clip = s.clip /\ u.drain = r
        BY <2>5, <4>1 DEF Page, PageState
      <4> HIDE DEF u
      <4>3. Keeps(s, u)
        BY <2>5, <4>1, <4>2, SameClips
      <4>4. Keeps(Now, u)
        BY <1>2, <2>4, <4>3, KeepsTrans
      <4>5. t = u
        BY <1>4, <2>8, <3>3 DEF t, s, e, u, r
      <4> QED BY <1>1, <4>4, <4>5, BecomeKept
    <3> QED BY <3>2, <3>3
  <2> QED BY <2>6, <2>7, <2>8
<1> QED BY <1>3, <1>4

LEMMA RecoverStep ==
    ASSUME IInv, NEW o \in {"exists", "found", "missing"}, NEW x \in Densities,
           RecoverAnswered(o, x)
    PROVE  IInv' /\ (o # "found" => Dense)
<1> DEFINE e == drain.clip
           m == drain.m
           h == IF clip[e].have = 0 THEN m ELSE clip[e].have
           f == [clip[e] EXCEPT !.var = x, !.have = h]
           c == IF o # "found" THEN clip[e] ELSE f
           s == [Now EXCEPT !.clip[e] = c]
           d == [s EXCEPT !.clip[e].status = "done"]
<1>1. Becomes(IF o # "missing" /\ c.have >= m THEN Looping(d) ELSE Encoding(s, e, m))
      /\ drain.at = "recovering"
  BY DEF RecoverAnswered
<1>2. Page(Now) /\ NoRunning(Now)
  BY <1>1, NotRunning, NowIs DEF IInv
<1>3. e \in Clips /\ m \in Densities /\ m # 0
  BY <1>1, <1>2, PageIs, NowIs DEF Page
<1>4. clip[e] \in ClipRec
  BY <1>2, <1>3, PageIs, NowIs
<1>5. h \in Densities
  BY <1>3, <1>4, ClipIs
<1> HIDE DEF h
<1>6. f \in ClipRec /\ f.status = clip[e].status
  BY <1>4, <1>5 DEF ClipRec
<1> HIDE DEF f
<1>7. c \in ClipRec /\ c.status = clip[e].status /\ (o # "found" => Denser(clip[e], c))
  BY <1>4, <1>6, DenserSelf
<1> HIDE DEF c
<1>8. Page(s) /\ NoRunning(s) /\ (o # "found" => Thick(Now, s))
  <2>1. Page(s) /\ NoRunning(s)
    BY <1>2, <1>3, <1>7, WriteClip, NowIs
  <2>2. ASSUME o # "found" PROVE Thick(Now, s)
    <3>1. Keeps(Now, s)
      BY <1>2, <1>3, <1>7, <2>2, SetClip, NowIs
    <3> QED BY <3>1 DEF Keeps
  <2> QED BY <2>1, <2>2
<1> HIDE DEF s
<1>9. Keeps(s, d) /\ Page(d) /\ NoRunning(d)
  BY <1>3, <1>8, SetStatus DEF Keeps, Statuses
<1> HIDE DEF d
<1>10. Page(Looping(d)) /\ Thick(s, Looping(d))
  <2>1. Keeps(s, Looping(d))
    BY <1>8, <1>9, LoopingIs, KeepsTrans
  <2> QED BY <2>1 DEF Keeps
<1>11. Page(Encoding(s, e, m)) /\ Thick(s, Encoding(s, e, m))
  BY <1>3, <1>8, EncodingIs
<1> DEFINE t == IF o # "missing" /\ c.have >= m THEN Looping(d) ELSE Encoding(s, e, m)
<1>12. Page(t) /\ Thick(s, t) /\ Becomes(t)
  BY <1>1, <1>10, <1>11
<1> HIDE DEF t
<1>13. Page(Now)'
  BY <1>12, BecomePage
<1>14. o # "found" => Dense
  BY <1>2, <1>8, <1>12, ThickTrans, Become
<1>15. Registry'
  BY RegistryUnchanged DEF IInv, RecoverAnswered, caches, user
<1> QED BY <1>13, <1>14, <1>15 DEF IInv

LEMMA PromotedIs ==
    ASSUME Page(Now), drain.at = "encoding"
    PROVE  Keeps(Now, Promoted(drain.clip, drain.m))
<1> DEFINE e == drain.clip
           m == drain.m
           c == IF clip[e].var = 0 \/ m >= clip[e].have
                THEN [clip[e] EXCEPT !.var = m, !.have = m] ELSE clip[e]
           want == Max({IF RifeNeeded(c) THEN c.need ELSE 0,
                        IF restart.clip = e THEN restart.m ELSE 0})
           s1 == [Now EXCEPT !.clip[e] = c]
           s == [Now EXCEPT !.clip[e] = c, !.restart = NoClip]
           d == [s EXCEPT !.clip[e].status = "done"]
<1>1. e \in Clips /\ m \in Densities
  BY PageIs, NowIs DEF Page
<1>2. clip[e] \in ClipRec /\ restart \in {NoClip} \cup Jobs
  BY <1>1, PageIs, NowIs
<1>3. clip[e].have \in Densities /\ clip[e].var \in Densities
  BY <1>2, ClipIs
<1>4. c \in ClipRec /\ c.status = clip[e].status /\ Denser(clip[e], c)
  <2>1. CASE clip[e].var = 0 \/ m >= clip[e].have
    <3>1. c \in ClipRec /\ c.status = clip[e].status /\ c.var = m /\ c.have = m
      BY <1>1, <1>2, <2>1 DEF ClipRec
    <3>2. Exact(clip[e]) => m # 0 /\ m >= clip[e].var
      BY <1>1, <1>3, <2>1 DEF Exact, Densities
    <3> QED BY <3>1, <3>2 DEF Denser, Exact
  <2>2. CASE ~(clip[e].var = 0 \/ m >= clip[e].have)
    BY <1>2, <2>2, DenserSelf
  <2> QED BY <2>1, <2>2
<1>5. want \in Densities
  <2> DEFINE a == IF RifeNeeded(c) THEN c.need ELSE 0
             b == IF restart.clip = e THEN restart.m ELSE 0
  <2>1. a \in Densities
    BY <1>4, ClipIs, Zeros
  <2>2. b \in Densities
    BY <1>2, Zeros DEF NoClip, Jobs
  <2> HIDE DEF a, b
  <2>3. {a, b} \in SUBSET Densities /\ {a, b} # {}
    BY <2>1, <2>2
  <2>4. Max({a, b}) \in Densities
    BY <2>3, Maximum
  <2> QED BY <2>4 DEF a, b
<1>6. Promoted(e, m) = IF want > c.have THEN Requeued(s, e, want) ELSE Looping(d)
  BY DEF Promoted
<1> HIDE DEF want, c
<1>7. /\ Keeps(Now, s1) /\ s1.drain = drain
  BY <1>1, <1>4, SetClip, NowIs
<1>8. s = [s1 EXCEPT !.restart = NoClip]
  BY DEF Page, PageState
<1>9. Page(s1) /\ s1.clip = [clip EXCEPT ![e] = c]
  BY <1>1, <1>4, <1>7, SetClip, NowIs DEF Keeps
<1> HIDE DEF s1, s
<1>10. s \in PageState /\ s.clip = s1.clip /\ s.drain = s1.drain
  BY <1>8, <1>9 DEF Page, PageState
<1>11. Keeps(s1, s) /\ Page(s)
  BY <1>9, <1>10, SameClips DEF Keeps
<1>12. \A x \in Clips \ {e} : s.clip[x].status # "running"
  BY <1>7, <1>10, <1>11 DEF Page
<1>13. Keeps(s, Requeued(s, e, want))
  BY <1>1, <1>5, <1>11, <1>12, RequeuedIs
<1>14. Keeps(s, d) /\ Page(d) /\ NoRunning(d)
  BY <1>1, <1>11, <1>12, SetStatus DEF Keeps, Statuses
<1> HIDE DEF d
<1>15. Keeps(s, Looping(d))
  BY <1>11, <1>14, LoopingIs, KeepsTrans
<1>16. Keeps(Now, s)
  BY <1>7, <1>11, KeepsTrans
<1> QED BY <1>6, <1>13, <1>15, <1>16, KeepsTrans

LEMMA EncodeEndsStep ==
    ASSUME IInv, NEW o \in Outcomes, EncodeEnds(o)
    PROVE  IInv' /\ Dense
<1> DEFINE e == drain.clip
           m == drain.m
           s1 == [Now EXCEPT !.clip[e].status = "none"]
           k == Unqueued(s1, QueuedClips(Now) \cap present, {"pending"})
           u == [Now EXCEPT !.queue = <<>>, !.clip = k]
           v == [Now EXCEPT !.clip[e].status = "none", !.queue = <<>>]
           w == [Now EXCEPT !.clip[e].status = "failed"]
<1>1. drain.at = "encoding"
  BY DEF EncodeEnds
<1>2. Page(Now)
  BY DEF IInv
<1>3. e \in Clips /\ m \in Densities /\ m # 0 /\ m \in 1..MaxM
  BY <1>1, <1>2, PageIs, NowIs DEF Page, Densities
<1>4. \/ Becomes(Requeued(Now, e, restart.m)) /\ restart.clip = e
      \/ Becomes(Ended(u))
      \/ Becomes(Promoted(e, m))
      \/ Becomes(Ended(v))
      \/ Becomes(Looping(w))
  BY DEF EncodeEnds
<1>5. \A x \in Clips \ {e} : Now.clip[x].status # "running"
  BY <1>2, NowIs DEF Page
<1>6. Keeps(Now, Requeued(Now, e, restart.m)) \/ restart.clip # e
  <2>1. ASSUME restart.clip = e PROVE restart.m \in Densities
    BY <1>2, <1>3, <2>1, PageIs, NowIs DEF NoClip, Jobs
  <2> QED BY <1>2, <1>3, <1>5, <2>1, RequeuedIs
<1>7. Keeps(Now, Promoted(e, m))
  BY <1>1, <1>2, PromotedIs
<1>8. Keeps(Now, w) /\ NoRunning(w)
  BY <1>2, <1>3, <1>5, SetStatus DEF Statuses
<1> HIDE DEF w
<1>9. Keeps(Now, Looping(w))
  BY <1>2, <1>8, LoopingIs, KeepsTrans DEF Keeps
<1>10. Keeps(Now, s1) /\ NoRunning(s1) /\ Page(s1) /\ s1.drain = drain
  BY <1>2, <1>3, <1>5, SetStatus, NowIs DEF Statuses, Keeps
<1>11. v = [s1 EXCEPT !.queue = <<>>]
  BY <1>2 DEF Page, PageState
<1> HIDE DEF s1
<1>12. /\ k \in [Clips -> ClipRec]
       /\ \A x \in Clips : /\ k[x].status = "running" => s1.clip[x].status = "running"
                           /\ Denser(s1.clip[x], k[x])
  BY <1>10, UnqueuedIs
<1> HIDE DEF k
<1>13. <<>> \in Seq(Jobs)
  BY EmptySeq
<1>14. u \in PageState /\ u.clip = k /\ u.drain = drain
  BY <1>2, <1>12, <1>13, NowIs DEF Page, PageState
<1> HIDE DEF u
<1>15. Keeps(s1, u) /\ Page(u) /\ NoRunning(u)
  BY <1>10, <1>12, <1>14, Changed DEF Keeps
<1>16. Keeps(Now, Ended(u))
  <2>1. Keeps(Now, u)
    BY <1>2, <1>10, <1>15, KeepsTrans
  <2> QED BY <1>2, <1>15, <2>1, EndedIs, KeepsTrans
<1> HIDE DEF v
<1>17. v \in PageState /\ v.clip = s1.clip /\ v.drain = s1.drain
  BY <1>10, <1>11, <1>13 DEF Page, PageState
<1>18. Keeps(s1, v) /\ Page(v) /\ NoRunning(v)
  BY <1>10, <1>17, SameClips DEF Keeps
<1>19. Keeps(Now, Ended(v))
  <2>1. Keeps(Now, v)
    BY <1>2, <1>10, <1>18, KeepsTrans
  <2> QED BY <1>2, <1>18, <2>1, EndedIs, KeepsTrans
<1>20. Page(Now)' /\ Dense
  BY <1>4, <1>6, <1>7, <1>9, <1>16, <1>19, BecomeKept
<1>21. Registry'
  <2>1. Source[e] \in Sources
    BY <1>3 DEF Sources
  <2>2. registry[Source[e]] \in DensitySets
    BY <2>1 DEF IInv, Registry
  <2>3. PICK x \in DensitySets : registry' = [registry EXCEPT ![Source[e]] = x]
    <3> DEFINE p == o = "ok" /\ ~(o = "cancelled" \/ (stop /\ o \in {"ok", "failed"}))
    <3>1. PICK x \in FilesLeft(o, p, e, m) : registry' = [registry EXCEPT ![Source[e]] = x]
      BY DEF EncodeEnds
    <3> HIDE DEF p
    <3>2. x \in DensitySets
      BY <1>3, <2>2 DEF FilesLeft, DensitySets
    <3> QED BY <3>1, <3>2
  <2>4. registry' \in [Sources -> DensitySets]
    BY <2>1, <2>3 DEF IInv, Registry
  <2>5. cache' \in [Sources -> {Unknown} \cup DensitySets]
    BY <2>1 DEF EncodeEnds, IInv, Registry
  <2>6. UNCHANGED <<present, scan>>
    BY DEF EncodeEnds, user
  <2>7. fetch' \in [Sources -> SUBSET DensitySets]
    <3>1. fetch' = [y \in Sources |-> IF fetch[y] = {} THEN {} ELSE fetch[y] \cup {registry'[y]}]
      BY DEF EncodeEnds
    <3> QED BY <2>4, <3>1 DEF IInv, Registry
  <2>8. attach' \in [Slots -> Passes]
    <3>1. attach' = [n \in Slots |-> IF attach[n].at # "asking" THEN attach[n]
                                    ELSE [attach[n] EXCEPT !.seen = attach[n].seen \cup {registry'}]]
      BY DEF EncodeEnds
    <3>2. ASSUME NEW n \in Slots
          PROVE  [attach[n] EXCEPT !.seen = attach[n].seen \cup {registry'}] \in Passes
      BY <2>4 DEF IInv, Registry, Passes
    <3> QED BY <3>1, <3>2 DEF IInv, Registry
  <2>9. \A n \in Slots : scan'[n].at \in {"waiting", "answered"} => scan'[n].clip \in Clips
    BY <2>6 DEF IInv, Registry
  <2> QED BY <2>4, <2>5, <2>6, <2>7, <2>8, <2>9 DEF IInv, Registry
<1> QED BY <1>20, <1>21 DEF IInv

-----------------------------------------------------------------------------
(* The scan                                                                *)

LEMMA NextClip ==
    ASSUME Registry, NEW n
    PROVE  LET rest == {c \in present : c > n} IN rest # {} => Min(rest) \in Clips
<1> DEFINE rest == {c \in present : c > n}
<1>1. rest \in SUBSET Nat /\ rest \subseteq Clips
  BY DEF Registry
<1> HIDE DEF rest
<1>2. rest # {} => Min(rest) \in rest
  BY <1>1, Minimum
<1> QED BY <1>1, <1>2 DEF rest

(* One run of the scan moves on.                                           *)
LEMMA ScanMoves ==
    ASSUME Registry, NEW k \in Slots, NEW x \in Scans,
           x.at \in {"waiting", "answered"} => x.clip \in Clips,
           scan' = [scan EXCEPT ![k] = x]
    PROVE  /\ scan' \in [Slots -> Scans]
           /\ \A n \in Slots : scan'[n].at \in {"waiting", "answered"} => scan'[n].clip \in Clips
BY DEF Registry

LEMMA ScanResumesStep ==
    ASSUME IInv, NEW k \in Slots, ScanResumes(k)
    PROVE  IInv' /\ Dense
<1> DEFINE e == scan[k].clip
           data == scan[k].data
           t == VisitTo(Now, e, data)
           ch == scan[k].changed \/ t.hits > 0
           x == [NoScan EXCEPT !.at = "step", !.i = scan[k].i, !.changed = ch]
<1>1. Page(Now) /\ Registry /\ scan[k].at = "answered"
  BY DEF IInv, ScanResumes
<1>2. scan[k] \in Scans /\ e \in Clips /\ data \in DensitySets /\ scan[k].i \in Nat
  BY <1>1 DEF Registry, Scans
<1>3. Becomes(t) /\ scan' = [scan EXCEPT ![k] = x]
  BY NowIs DEF ScanResumes, ScanVisits, VisitTo
<1>4. Keeps(Now, t)
  BY <1>1, <1>2, VisitedIs
<1>5. Page(Now)' /\ Dense
  BY <1>3, <1>4, BecomeKept
<1>6. ch \in BOOLEAN
  BY <1>2 DEF Scans
<1> HIDE DEF ch
<1>7. x \in Scans /\ x.at = "step"
  BY <1>2, <1>6, Zeros DEF NoScan, Scans, DensitySets
<1> HIDE DEF x
<1>8. /\ scan' \in [Slots -> Scans]
      /\ \A n \in Slots : scan'[n].at \in {"waiting", "answered"} => scan'[n].clip \in Clips
  BY <1>1, <1>3, <1>7, ScanMoves
<1>9. Registry'
  BY <1>1, <1>8 DEF ScanResumes, Registry, caches, user
<1> QED BY <1>5, <1>9 DEF IInv

LEMMA ScanStepStep ==
    ASSUME IInv, NEW k \in Slots, ScanStep(k)
    PROVE  IInv' /\ Dense
<1> DEFINE i == scan[k].i + 1
           u == IF scan[k].changed THEN Draining(Now) ELSE Now
           d(e) == [Now EXCEPT !.clip[e].status = "done"]
           x1 == [scan[k] EXCEPT !.i = i]
           x2(e) == [scan[k] EXCEPT !.at = "answered", !.i = i, !.clip = e, !.data = cache[Source[e]]]
           x3(e) == [scan[k] EXCEPT !.at = "waiting", !.i = i, !.clip = e]
<1>1. Page(Now) /\ Registry /\ scan[k] \in Scans /\ scan[k].at = "step"
  BY DEF IInv, ScanStep, Registry
<1>2. i \in Nat
  BY <1>1 DEF Scans
<1>3. UNCHANGED <<present, registry, cache, attach>>
  BY DEF ScanStep, user
<1>4. \/ Becomes(u) /\ scan' = [scan EXCEPT ![k] = NoScan] /\ UNCHANGED fetch
      \/ \E e \in present : Becomes(d(e)) /\ scan' = [scan EXCEPT ![k] = x1] /\ UNCHANGED fetch
      \/ \E e \in present : /\ cache[Source[e]] # Unknown /\ scan' = [scan EXCEPT ![k] = x2(e)]
                             /\ UNCHANGED <<page, fetch>>
      \/ \E e \in present : /\ scan' = [scan EXCEPT ![k] = x3(e)] /\ UNCHANGED page
                             /\ fetch' = [fetch EXCEPT ![Source[e]] =
                                             IF @ = {} THEN {registry[Source[e]]} ELSE @]
  <2>1. scan \in [Slots -> Scans]
    BY <1>1 DEF Registry
  <2>2. [scan EXCEPT ![k].i = i] = [scan EXCEPT ![k] = x1]
    BY <2>1 DEF Scans
  <2> QED BY <2>2 DEF ScanStep
<1> HIDE DEF i
<1>5. CASE Becomes(u) /\ scan' = [scan EXCEPT ![k] = NoScan] /\ UNCHANGED fetch
  <2>1. Keeps(Now, u)
    BY <1>1, DrainingIs, KeepsSelf
  <2> HIDE DEF u
  <2>2. Page(Now)' /\ Dense
    BY <1>5, <2>1, BecomeKept
  <2>3. NoScan \in Scans /\ NoScan.at = "idle"
    BY DEF NoScan, Scans, DensitySets
  <2>4. /\ scan' \in [Slots -> Scans]
        /\ \A n \in Slots : scan'[n].at \in {"waiting", "answered"} => scan'[n].clip \in Clips
    BY <1>1, <1>5, <2>3, ScanMoves
  <2>5. Registry'
    BY <1>1, <1>3, <1>5, <2>4 DEF Registry
  <2> QED BY <2>2, <2>5 DEF IInv
<1>6. CASE \E e \in present : Becomes(d(e)) /\ scan' = [scan EXCEPT ![k] = x1] /\ UNCHANGED fetch
  <2>1. PICK e \in present : Becomes(d(e)) /\ scan' = [scan EXCEPT ![k] = x1] /\ UNCHANGED fetch
    BY <1>6
  <2>2. Keeps(Now, d(e))
    BY <1>1, SetStatus DEF Registry, Statuses
  <2> HIDE DEF d
  <2>3. Page(Now)' /\ Dense
    BY <2>1, <2>2, BecomeKept
  <2>4. x1 \in Scans /\ x1.at = "step"
    BY <1>1, <1>2 DEF Scans
  <2> HIDE DEF x1
  <2>5. /\ scan' \in [Slots -> Scans]
        /\ \A n \in Slots : scan'[n].at \in {"waiting", "answered"} => scan'[n].clip \in Clips
    BY <1>1, <2>1, <2>4, ScanMoves
  <2>6. Registry'
    BY <1>1, <1>3, <2>1, <2>5 DEF Registry
  <2> QED BY <2>3, <2>6 DEF IInv
<1>7. CASE \E e \in present : /\ cache[Source[e]] # Unknown /\ scan' = [scan EXCEPT ![k] = x2(e)]
                              /\ UNCHANGED <<page, fetch>>
  <2>1. PICK e \in present : /\ cache[Source[e]] # Unknown /\ scan' = [scan EXCEPT ![k] = x2(e)]
                             /\ UNCHANGED <<page, fetch>>
    BY <1>7
  <2>2. Page(Now)' /\ Dense
    BY <1>1, <2>1, PageUnchanged DEF page
  <2>3. cache[Source[e]] \in DensitySets /\ e \in Clips
    BY <1>1, <2>1 DEF Registry, Sources
  <2>4. x2(e) \in Scans /\ x2(e).clip = e
    BY <1>1, <1>2, <2>3 DEF Scans
  <2> HIDE DEF x2
  <2>5. /\ scan' \in [Slots -> Scans]
        /\ \A n \in Slots : scan'[n].at \in {"waiting", "answered"} => scan'[n].clip \in Clips
    BY <1>1, <2>1, <2>3, <2>4, ScanMoves
  <2>6. Registry'
    BY <1>1, <1>3, <2>1, <2>5 DEF Registry
  <2> QED BY <2>2, <2>6 DEF IInv
<1>8. CASE \E e \in present : /\ scan' = [scan EXCEPT ![k] = x3(e)] /\ UNCHANGED page
                              /\ fetch' = [fetch EXCEPT ![Source[e]] =
                                              IF @ = {} THEN {registry[Source[e]]} ELSE @]
  <2>1. PICK e \in present : /\ scan' = [scan EXCEPT ![k] = x3(e)] /\ UNCHANGED page
                             /\ fetch' = [fetch EXCEPT ![Source[e]] =
                                             IF @ = {} THEN {registry[Source[e]]} ELSE @]
    BY <1>8
  <2>2. Page(Now)' /\ Dense
    BY <1>1, <2>1, PageUnchanged DEF page
  <2>3. e \in Clips
    BY <1>1 DEF Registry
  <2>4. x3(e) \in Scans /\ x3(e).clip = e
    BY <1>1, <1>2, <2>3 DEF Scans
  <2> HIDE DEF x3
  <2>5. /\ scan' \in [Slots -> Scans]
        /\ \A n \in Slots : scan'[n].at \in {"waiting", "answered"} => scan'[n].clip \in Clips
    BY <1>1, <2>1, <2>3, <2>4, ScanMoves
  <2>6. fetch' \in [Sources -> SUBSET DensitySets]
    <3>1. Source[e] \in Sources
      BY <2>3 DEF Sources
    <3> QED BY <1>1, <2>1, <3>1 DEF Registry
  <2>7. Registry'
    BY <1>1, <1>3, <2>5, <2>6 DEF Registry
  <2> QED BY <2>2, <2>7 DEF IInv
<1> QED BY <1>4, <1>5, <1>6, <1>7, <1>8

LEMMA PeekedIs == ASSUME Registry, NEW s \in Sources PROVE Peeked(s) \subseteq DensitySets
BY DEF Registry, Peeked, DensitySets

LEMMA FetchAnsweredStep ==
    ASSUME IInv, NEW s \in Sources, FetchAnswered(s)
    PROVE  IInv' /\ Dense
<1>0. Registry
  BY DEF IInv
<1>1. Page(Now)' /\ Dense
  BY PageUnchanged DEF FetchAnswered, IInv, page
<1>2. fetch[s] \subseteq DensitySets
  BY <1>0 DEF Registry
<1>3. PICK data \in DensitySets : Told(s, data) /\ cache' \in {cache, [cache EXCEPT ![s] = data]}
  BY <1>0, <1>2, PeekedIs DEF FetchAnswered
<1>4. cache' \in [Sources -> {Unknown} \cup DensitySets]
  BY <1>0, <1>3 DEF Registry
<1>5. fetch' \in [Sources -> SUBSET DensitySets]
  BY <1>0 DEF FetchAnswered, Registry
<1>6. \A k \in Slots : /\ scan'[k] \in Scans
                       /\ scan'[k].at \in {"waiting", "answered"} => scan'[k].clip \in Clips
  <2> TAKE k \in Slots
  <2> DEFINE x == [scan[k] EXCEPT !.at = "answered", !.data = data]
  <2>1. scan[k] \in Scans /\ (scan[k].at \in {"waiting", "answered"} => scan[k].clip \in Clips)
    BY <1>0 DEF Registry
  <2>2. x \in Scans /\ x.clip = scan[k].clip
    BY <2>1 DEF Scans
  <2>3. scan'[k] = IF scan[k].at = "waiting" /\ Source[scan[k].clip] = s THEN x ELSE scan[k]
    BY <1>3 DEF Told
  <2> HIDE DEF x
  <2> QED BY <2>1, <2>2, <2>3
<1>7. scan' \in [Slots -> Scans]
  <2>1. DOMAIN scan' = Slots /\ scan' = [k \in Slots |-> scan'[k]]
    BY <1>3 DEF Told
  <2> QED BY <1>6, <2>1
<1>8. UNCHANGED <<present, registry, attach>>
  BY DEF FetchAnswered, user
<1>9. Registry'
  BY <1>0, <1>4, <1>5, <1>6, <1>7, <1>8 DEF Registry
<1> QED BY <1>1, <1>9 DEF IInv

LEMMA TimerStep ==
    ASSUME IInv, TimerFires
    PROVE  IInv' /\ Dense
<1>0. Registry
  BY DEF IInv
<1>1. Page(Now)' /\ Dense
  BY PageUnchanged DEF TimerFires, IInv, page
<1>2. /\ scan' \in [Slots -> Scans]
      /\ \A n \in Slots : scan'[n].at \in {"waiting", "answered"} => scan'[n].clip \in Clips
  <2>1. CASE UNCHANGED scan
    BY <1>0, <2>1 DEF Registry
  <2>2. CASE \E k \in Slots : scan' = [scan EXCEPT ![k].at = "step"]
    <3>1. PICK k \in Slots : scan' = [scan EXCEPT ![k].at = "step"]
      BY <2>2
    <3> DEFINE x == [scan[k] EXCEPT !.at = "step"]
    <3>2. scan' = [scan EXCEPT ![k] = x]
      BY <3>1
    <3>3. x \in Scans /\ x.at = "step"
      BY <1>0 DEF Registry, Scans
    <3> HIDE DEF x
    <3> QED BY <1>0, <3>2, <3>3, ScanMoves
  <2> QED BY <2>1, <2>2 DEF TimerFires
<1>3. Registry'
  BY <1>0, <1>2 DEF TimerFires, Registry, user, caches
<1> QED BY <1>1, <1>3 DEF IInv

-----------------------------------------------------------------------------
(* Instant is turned on                                                    *)

(* One pass moves on.                                                      *)
LEMMA PassMoves ==
    ASSUME Registry, NEW k \in Slots, NEW x \in Passes, attach' = [attach EXCEPT ![k] = x]
    PROVE  attach' \in [Slots -> Passes]
BY DEF Registry

LEMMA NoAttachIs == NoAttach \in Passes
BY DEF NoAttach, Passes

LEMMA EnsureStepStep ==
    ASSUME IInv, NEW k \in Slots, EnsureStep(k)
    PROVE  IInv' /\ Dense
<1> DEFINE rest == {c \in present : c > attach[k].next}
           e == Min(rest)
           u == IF attach[k].hits > 0 THEN Draining(Now) ELSE [Now EXCEPT !.locked = FALSE]
           h == Ensured(Now, e).hits
           x == [attach[k] EXCEPT !.next = e, !.hits = attach[k].hits + h]
<1>1. \/ rest = {} /\ Becomes(u) /\ attach' = [attach EXCEPT ![k] = NoAttach]
      \/ /\ rest # {} /\ Becomes(Ensured(Now, e))
         /\ attach' = [attach EXCEPT ![k].next = e, ![k].hits = @ + h]
  BY DEF EnsureStep
<1>2. rest # {} => e \in Clips
  BY NextClip DEF IInv
<1> HIDE DEF rest, e
<1>3. UNCHANGED <<present, registry, cache, fetch, scan>>
  BY DEF EnsureStep, user, caches
<1>4. Page(Now) /\ Registry
  BY DEF IInv
<1>7. [attach EXCEPT ![k].next = e, ![k].hits = @ + h] = [attach EXCEPT ![k] = x]
  <2>1. attach[k] \in Passes /\ attach \in [Slots -> Passes]
    BY <1>4 DEF Registry
  <2> HIDE DEF h
  <2> QED BY <2>1 DEF Passes
<1>5. CASE rest = {} /\ Becomes(u) /\ attach' = [attach EXCEPT ![k] = NoAttach]
  <2>1. Keeps(Now, u)
    <3> DEFINE v == [Now EXCEPT !.locked = FALSE]
    <3>1. v \in PageState /\ v.clip = Now.clip /\ v.drain = Now.drain
      BY <1>4 DEF Page, PageState
    <3> HIDE DEF v
    <3>2. Keeps(Now, v)
      BY <1>4, <3>1, SameClips
    <3> QED BY <1>4, <3>2, DrainingIs DEF v
  <2> HIDE DEF u
  <2>2. Page(Now)' /\ Dense
    BY <1>5, <2>1, BecomeKept
  <2>3. attach' \in [Slots -> Passes]
    BY <1>4, <1>5, NoAttachIs, PassMoves
  <2>4. Registry'
    BY <1>3, <1>4, <2>3 DEF Registry
  <2> QED BY <2>2, <2>4 DEF IInv
<1>6. CASE /\ rest # {} /\ Becomes(Ensured(Now, e))
           /\ attach' = [attach EXCEPT ![k] = x]
  <2>1. Keeps(Now, Ensured(Now, e)) /\ Page(Ensured(Now, e))
    BY <1>2, <1>4, <1>6, EnsuredIs DEF Keeps
  <2>2. Page(Now)' /\ Dense
    BY <1>6, <2>1, BecomeKept
  <2>3. h \in Nat
    BY <2>1, PageIs
  <2> HIDE DEF h
  <2>4. attach' \in [Slots -> Passes]
    <3>1. attach[k] \in Passes
      BY <1>4 DEF Registry
    <3>2. attach[k].hits + h \in Nat /\ e \in Clips \cup {0}
      BY <1>2, <1>6, <2>3, <3>1 DEF Passes
    <3>3. x \in Passes
      BY <3>1, <3>2 DEF Passes
    <3> HIDE DEF x
    <3> QED BY <1>4, <1>6, <3>3, PassMoves
  <2>5. Registry'
    BY <1>3, <1>4, <2>4 DEF Registry
  <2> QED BY <2>2, <2>5 DEF IInv
<1> QED BY <1>1, <1>5, <1>6, <1>7

LEMMA EnsureBeginsStep ==
    ASSUME IInv, NEW t, Keeps(Now, t), EnsureBegins(t),
           UNCHANGED <<present, registry, cache, fetch, scan>>
    PROVE  IInv' /\ Dense
<1> DEFINE k == [e \in Clips |-> IF e \in present THEN Recognised(t.clip[e]) ELSE t.clip[e]]
           u == [t EXCEPT !.clip = k]
<1>1. Page(Now) /\ Page(t) /\ Becomes(u)
  BY DEF IInv, Keeps, EnsureBegins
<1>2. \A e \in Clips : k[e] = t.clip[e] \/ Learns(t.clip[e], k[e])
  BY <1>1, RecognisedIs, PageIs
<1>3. k \in [Clips -> ClipRec]
  <2>1. \A e \in Clips : t.clip[e] \in ClipRec /\ Recognised(t.clip[e]) \in ClipRec
    BY <1>1, RecognisedIs, PageIs DEF Learns
  <2> QED BY <2>1
<1> HIDE DEF k
<1>4. Keeps(t, u)
  BY <1>1, <1>2, <1>3, LearnClips
<1> HIDE DEF u
<1>5. Page(Now)' /\ Dense
  BY <1>1, <1>4, KeepsTrans, BecomeKept
<1>6. attach' \in [Slots -> Passes]
  <2>1. Registry
    BY DEF IInv
  <2>2. CASE UNCHANGED attach
    BY <2>1, <2>2 DEF Registry
  <2>3. CASE ~(UNCHANGED attach)
    <3> DEFINE asked == {Source[e] : e \in {c \in present : ~Answered(t.clip[c])}}
               x == [NoAttach EXCEPT !.at = IF asked = {} THEN "step" ELSE "asking", !.want = asked,
                                     !.seen = IF asked = {} THEN {} ELSE {registry}]
    <3>1. PICK n \in Slots : attach' = [attach EXCEPT ![n] = x]
      BY <2>3 DEF EnsureBegins
    <3>2. asked \subseteq Sources
      BY <2>1 DEF Registry, Sources
    <3>3. {registry} \subseteq [Sources -> DensitySets]
      BY <2>1 DEF Registry
    <3> HIDE DEF asked
    <3>4. x \in Passes
      BY <3>2, <3>3 DEF NoAttach, Passes
    <3> HIDE DEF x
    <3> QED BY <2>1, <3>1, <3>4, PassMoves
  <2> QED BY <2>2, <2>3
<1>7. Registry'
  BY <1>6 DEF IInv, Registry
<1> QED BY <1>5, <1>7 DEF IInv

LEMMA AttachAnsweredStep ==
    ASSUME IInv, NEW n \in Slots, NEW told \in SUBSET Sources, AttachAnswered(n, told)
    PROVE  IInv' /\ Dense
<1>0. Registry /\ attach[n] \in Passes
  BY DEF IInv, Registry
<1>1. PICK answer \in attach[n].seen, peek \in [Sources -> SUBSET (1..MaxM)] :
         LET data == [s \in Sources |-> IF s \in told THEN answer[s] ELSE peek[s]]
         IN  /\ \A s \in Sources : peek[s] \in Peeked(s)
             /\ cache' = [s \in Sources |-> IF s \in told THEN answer[s] ELSE cache[s]]
             /\ Becomes([Now EXCEPT !.clip = [e \in Clips |->
                    IF e \in present THEN Attached(clip[e], data[Source[e]]) ELSE clip[e]]])
  BY DEF AttachAnswered
<1>2. answer \in [Sources -> DensitySets] /\ peek \in [Sources -> DensitySets]
  BY <1>0 DEF Passes, DensitySets
<1> DEFINE data == [s \in Sources |-> IF s \in told THEN answer[s] ELSE peek[s]]
           k == [e \in Clips |-> IF e \in present THEN Attached(clip[e], data[Source[e]])
                                 ELSE clip[e]]
           u == [Now EXCEPT !.clip = k]
<1>3. Page(Now) /\ Becomes(u) /\ data \in [Sources -> DensitySets]
  BY <1>1, <1>2 DEF IInv
<1> HIDE DEF data
<1>4. \A e \in Clips : data[Source[e]] \in DensitySets /\ clip[e] \in ClipRec
  BY <1>3, PageIs, NowIs DEF Sources
<1>5. \A e \in Clips : Learns(clip[e], Attached(clip[e], data[Source[e]]))
  BY <1>4, AttachedIs
<1>6. \A e \in Clips : k[e] = Now.clip[e] \/ Learns(Now.clip[e], k[e])
  BY <1>5, NowIs
<1>7. k \in [Clips -> ClipRec]
  BY <1>4, <1>5 DEF Learns
<1> HIDE DEF k
<1>8. Keeps(Now, u)
  BY <1>3, <1>6, <1>7, LearnClips
<1> HIDE DEF u
<1>9. Page(Now)' /\ Dense
  BY <1>3, <1>8, BecomeKept
<1>10. attach' \in [Slots -> Passes]
  <2>1. [NoAttach EXCEPT !.at = "step"] \in Passes
    BY DEF NoAttach, Passes
  <2> QED BY <1>0, <2>1, PassMoves DEF AttachAnswered
<1>11. cache' \in [Sources -> {Unknown} \cup DensitySets]
  BY <1>0, <1>1, <1>2 DEF Registry
<1>12. Registry'
  BY <1>0, <1>10, <1>11 DEF Registry, AttachAnswered, user
<1> QED BY <1>9, <1>12 DEF IInv

-----------------------------------------------------------------------------
(* The user                                                                *)

LEMMA AddClipStep ==
    ASSUME IInv, NEW e \in Clips, NEW need \in Densities, NEW d \in Densities, AddClip(e, need, d)
    PROVE  IInv' /\ Dense
<1> DEFINE c == [NewClip EXCEPT !.need = need, !.var = d]
           s == [Now EXCEPT !.clip[e] = c]
           r == Rendered(s, present')
<1>1. Page(Now) /\ clip[e] = NewClip /\ Becomes(AutoQueued(r, e))
  BY DEF IInv, AddClip
<1>2. c \in ClipRec /\ c.status = "none" /\ NewClip.var = 0
  BY Zeros DEF NewClip, ClipRec, Statuses, Kinds
<1> HIDE DEF c
<1>3. Denser(clip[e], c)
  BY <1>1, <1>2 DEF Denser, Exact
<1>4. Keeps(Now, s) /\ Page(s)
  BY <1>1, <1>2, <1>3, SetClip, NowIs DEF Keeps
<1> HIDE DEF s
<1>5. Keeps(s, r) /\ Page(r)
  BY <1>4, RenderedIs DEF Keeps
<1> HIDE DEF r
<1>6. Keeps(Now, r) /\ Keeps(r, AutoQueued(r, e))
  BY <1>1, <1>4, <1>5, AutoQueuedIs, KeepsTrans
<1>7. Page(Now)' /\ Dense
  BY <1>1, <1>6, KeepsTrans, BecomeKept
<1>8. Registry'
  BY DEF IInv, Registry, AddClip, caches
<1> QED BY <1>7, <1>8 DEF IInv

LEMMA RemoveClipStep ==
    ASSUME IInv, NEW e \in Clips, RemoveClip(e)
    PROVE  IInv' /\ Dense
<1>1. Page(Now)' /\ Dense
  <2>1. Becomes(Rendered(Now, present'))
    BY DEF RemoveClip
  <2> QED BY <2>1, RenderedIs, BecomeKept DEF IInv
<1>2. Registry'
  BY DEF RemoveClip, IInv, Registry, caches
<1> QED BY <1>1, <1>2 DEF IInv

(* The need of a clip changes.                                             *)
LEMMA SetNeed ==
    ASSUME NEW t, Page(t), NEW e \in Clips, NEW need \in Densities
    PROVE  Keeps(t, [t EXCEPT !.clip[e].need = need])
<1> DEFINE c == [t.clip[e] EXCEPT !.need = need]
           u == [t EXCEPT !.clip[e].need = need]
<1>1. t.clip[e] \in ClipRec
  BY PageIs
<1>2. c \in ClipRec /\ c.status = t.clip[e].status /\ Denser(t.clip[e], c)
  <2>1. /\ c \in ClipRec /\ c.status = t.clip[e].status
        /\ c.var = t.clip[e].var /\ c.have = t.clip[e].have
    BY <1>1 DEF ClipRec
  <2> QED BY <1>1, <2>1, DenserAs
<1>3. u = [t EXCEPT !.clip[e] = c]
  BY DEF Page, PageState
<1> HIDE DEF c, u
<1> QED BY <1>2, <1>3, SetClip DEF u

LEMMA CommitTimeStep ==
    ASSUME IInv, NEW e \in Clips, NEW need \in Densities, CommitTime(e, need)
    PROVE  IInv' /\ Dense
<1> DEFINE kept == clip[e].status = "done" /\ clip[e].var # 0
           st == IF kept THEN clip[e].status ELSE "none"
           r == [Now EXCEPT !.clip[e].need = need]
           s == [r EXCEPT !.clip[e].status = st]
           t == [Now EXCEPT !.clip[e].need = need,
                            !.clip[e].status = IF kept THEN @ ELSE "none"]
<1>1. Page(Now) /\ Becomes(AutoQueued(t, e))
  BY DEF IInv, CommitTime
<1>2. st \in Statuses \ {"running"}
  BY DEF Statuses
<1>3. t = s
  BY <1>1 DEF Page, PageState, ClipRec, Now
<1> HIDE DEF st, t, r
<1>4. Keeps(Now, r) /\ Page(r)
  BY <1>1, SetNeed DEF Keeps, r
<1>5. Keeps(r, s) /\ Page(s)
  BY <1>2, <1>4, SetStatus DEF Keeps
<1> HIDE DEF s
<1>6. Keeps(Now, s) /\ Keeps(s, AutoQueued(s, e))
  BY <1>1, <1>4, <1>5, AutoQueuedIs, KeepsTrans
<1>7. Keeps(Now, AutoQueued(s, e))
  BY <1>1, <1>6, KeepsTrans
<1>8. Page(Now)' /\ Dense
  BY <1>1, <1>3, <1>7, BecomeKept
<1>9. Registry'
  BY RegistryUnchanged DEF IInv, CommitTime, caches
<1> QED BY <1>8, <1>9 DEF IInv

LEMMA TypeTimeStep ==
    ASSUME IInv, NEW e \in Clips, NEW need \in Densities, TypeTime(e, need)
    PROVE  IInv' /\ Dense
<1>1. Page(Now)' /\ Dense
  <2>1. Becomes([Now EXCEPT !.clip[e].need = need])
    BY DEF TypeTime
  <2> QED BY <2>1, SetNeed, BecomeKept DEF IInv
<1>2. Registry'
  BY RegistryUnchanged DEF IInv, TypeTime, caches
<1> QED BY <1>1, <1>2 DEF IInv

LEMMA RedoneStep ==
    ASSUME IInv, NEW s, Keeps(Now, s), Redone(s),
           UNCHANGED <<present, registry, cache, fetch, scan>>
    PROVE  IInv' /\ Dense
<1> DEFINE r == Rendered(s, present)
<1>1. Keeps(Now, r)
  BY RenderedIs, KeepsTrans DEF IInv, Keeps
<1>2. EnsureBegins(r) \/ (Becomes(r) /\ UNCHANGED attach)
  BY DEF Redone
<1> HIDE DEF r
<1>3. CASE EnsureBegins(r)
  BY <1>1, <1>3, EnsureBeginsStep
<1>4. CASE Becomes(r) /\ UNCHANGED attach
  <2>1. Page(Now)' /\ Dense
    BY <1>1, <1>4, BecomeKept
  <2>2. Registry'
    BY <1>4, RegistryUnchanged DEF IInv
  <2> QED BY <2>1, <2>2 DEF IInv
<1> QED BY <1>2, <1>3, <1>4

LEMMA TypingRestsStep ==
    ASSUME IInv, TypingRests
    PROVE  IInv' /\ Dense
<1>1. UNCHANGED <<present, registry, cache, fetch, scan>> /\ Redone(Now)
  BY DEF TypingRests, caches, user
<1> QED BY <1>1, KeepsSelf, RedoneStep DEF IInv

LEMMA ClearTimeStep ==
    ASSUME IInv, NEW e \in Clips, ClearTime(e)
    PROVE  IInv' /\ Dense
<1> DEFINE s == [Now EXCEPT !.clip[e].need = 0]
<1>1. UNCHANGED <<present, registry, cache, fetch, scan>> /\ Redone(s)
  BY DEF ClearTime, caches
<1>2. Keeps(Now, s)
  BY SetNeed, Zeros DEF IInv
<1> HIDE DEF s
<1> QED BY <1>1, <1>2, RedoneStep

LEMMA ToggleStep ==
    ASSUME IInv, Toggle
    PROVE  IInv' /\ Dense
<1> DEFINE k == Unqueued(Now, present, {"failed"})
           u == [Now EXCEPT !.clip = k]
<1>1. UNCHANGED <<present, registry, cache, fetch, scan>>
  BY DEF Toggle, caches
<1>2. UNCHANGED <<page, attach>> \/ EnsureBegins(u)
  BY DEF Toggle
<1>3. Page(Now)
  BY DEF IInv
<1>4. CASE UNCHANGED <<page, attach>>
  <2>1. Page(Now)' /\ Dense
    BY <1>3, <1>4, PageUnchanged DEF page
  <2>2. Registry'
    BY <1>1, <1>4, RegistryUnchanged DEF IInv
  <2> QED BY <2>1, <2>2 DEF IInv
<1>5. CASE EnsureBegins(u)
  <2>1. /\ k \in [Clips -> ClipRec]
        /\ \A e \in Clips : /\ k[e].status = "running" => Now.clip[e].status = "running"
                            /\ Denser(Now.clip[e], k[e])
    BY <1>3, UnqueuedIs
  <2> HIDE DEF k
  <2>2. u \in PageState /\ u.clip = k /\ u.drain = Now.drain
    BY <1>3, <2>1 DEF Page, PageState
  <2> HIDE DEF u
  <2>3. Keeps(Now, u)
    BY <1>3, <2>1, <2>2, Changed
  <2> QED BY <1>1, <1>5, <2>3, EnsureBeginsStep
<1> QED BY <1>2, <1>4, <1>5

LEMMA ToggleRifeStep ==
    ASSUME IInv, ToggleRife
    PROVE  IInv' /\ Dense
<1>1. Page(Now)' /\ Dense
  BY PageUnchanged DEF ToggleRife, IInv, page
<1>2. Registry'
  BY RegistryUnchanged DEF ToggleRife, IInv, caches
<1> QED BY <1>1, <1>2 DEF IInv

LEMMA PickVariantStep ==
    ASSUME IInv, NEW e \in Clips, NEW d \in Densities, PickVariant(e, d)
    PROVE  IInv'
<1> DEFINE m == IF d = clip[e].var /\ clip[e].have # 0 THEN clip[e].have
                ELSE IF d \in registry[Source[e]] THEN d ELSE 1
           st == IF clip[e].have >= clip[e].need THEN "done" ELSE clip[e].status
           c == IF d # 0 THEN [clip[e] EXCEPT !.var = d, !.have = m, !.status = "done"]
                ELSE [clip[e] EXCEPT !.var = 0, !.status = st]
           s == [Now EXCEPT !.clip[e] = c]
<1>1. Page(Now) /\ clip[e] \in ClipRec
  BY PageIs, NowIs DEF IInv
<1>2. m \in Densities /\ st \in {clip[e].status, "done"} /\ clip[e].status \in Statuses
  <2>1. 1 \in Densities
    BY DEF Densities
  <2> QED BY <1>1, <2>1, ClipIs
<1>3. Becomes(s)
  BY DEF PickVariant
<1> HIDE DEF m, st
<1>4. c \in ClipRec /\ c.status \in {clip[e].status, "done"}
  <2>1. "done" \in Statuses /\ st \in Statuses
    BY <1>2 DEF Statuses
  <2>2. LET b == [clip[e] EXCEPT !.var = d, !.have = m, !.status = "done"]
        IN  b \in ClipRec /\ b.status = "done"
    BY <1>1, <1>2, <2>1 DEF ClipRec
  <2>3. LET b == [clip[e] EXCEPT !.var = 0, !.status = st]
        IN  b \in ClipRec /\ b.status = st
    BY <1>1, <2>1, Zeros DEF ClipRec
  <2> QED BY <1>2, <2>2, <2>3
<1> HIDE DEF c
<1>5. Page(s)
  BY <1>1, <1>4, WriteClip, NowIs
<1> HIDE DEF s
<1>6. Page(Now)'
  BY <1>3, <1>5, BecomePage
<1>7. Registry'
  BY RegistryUnchanged DEF PickVariant, IInv, caches
<1> QED BY <1>6, <1>7 DEF IInv

LEMMA UserStopStep ==
    ASSUME IInv, UserStop
    PROVE  IInv' /\ Dense
<1> DEFINE l == Now.locked /\ drain.at = "encoding"
           s == [Now EXCEPT !.restart = NoClip, !.locked = l]
           k == Unqueued(s, QueuedClips(s) \cap present, {"pending"})
           u == [s EXCEPT !.stop = TRUE, !.queue = <<>>, !.clip = k]
<1>1. Page(Now)
  BY DEF IInv
<1>2. Becomes(s) \/ Becomes(u) \/ Becomes(Rendered(u, present))
  BY DEF UserStop
<1>3. s \in PageState /\ s.clip = Now.clip /\ s.drain = Now.drain
  <2>1. l \in BOOLEAN
    BY <1>1, PageIs
  <2> HIDE DEF l
  <2> QED BY <1>1, <2>1 DEF Page, PageState
<1> HIDE DEF s, l
<1>4. Keeps(Now, s) /\ Page(s)
  BY <1>1, <1>3, SameClips DEF Keeps
<1>5. /\ k \in [Clips -> ClipRec]
      /\ \A e \in Clips : /\ k[e].status = "running" => s.clip[e].status = "running"
                          /\ Denser(s.clip[e], k[e])
  BY <1>4, UnqueuedIs
<1> HIDE DEF k
<1>6. <<>> \in Seq(Jobs)
  BY EmptySeq
<1>7. u \in PageState /\ u.clip = k /\ u.drain = s.drain
  BY <1>4, <1>5, <1>6 DEF Page, PageState
<1> HIDE DEF u
<1>8. Keeps(s, u)
  BY <1>4, <1>5, <1>7, Changed
<1>9. Keeps(Now, u) /\ Keeps(Now, Rendered(u, present))
  <2>1. Page(u) /\ Keeps(u, Rendered(u, present))
    BY <1>8, RenderedIs DEF Keeps
  <2> QED BY <1>1, <1>4, <1>8, <2>1, KeepsTrans
<1>10. Page(Now)' /\ Dense
  BY <1>2, <1>4, <1>9, BecomeKept
<1>11. Registry'
  BY RegistryUnchanged DEF UserStop, IInv, caches
<1> QED BY <1>10, <1>11 DEF IInv

-----------------------------------------------------------------------------
(* The specification                                                       *)

LEMMA StepIInv ==
    ASSUME IInv, [Next]_vars
    PROVE  /\ IInv'
           /\ \/ Dense
              \/ \E d \in Densities : RecoverAnswered("found", d) \/ \E e \in Clips : PickVariant(e, d)
<1>1. CASE UNCHANGED vars
  <2>1. Page(Now)' /\ Dense
    BY <1>1, PageUnchanged DEF IInv, vars, page
  <2>2. Registry'
    BY <1>1, RegistryUnchanged DEF IInv, vars, caches, user
  <2> QED BY <2>1, <2>2 DEF IInv
<1>2. CASE Runs
  BY <1>2, TakeJobStep, RecoverStep, EncodeEndsStep DEF Runs
<1>3. CASE Answers
  BY <1>3, TimerStep, TypingRestsStep, ScanStepStep, ScanResumesStep, EnsureStepStep,
     AttachAnsweredStep, FetchAnsweredStep DEF Answers
<1>4. CASE User
  BY <1>4, AddClipStep, RemoveClipStep, CommitTimeStep, TypeTimeStep, ClearTimeStep, ToggleStep,
     ToggleRifeStep, PickVariantStep, UserStopStep DEF User
<1> QED BY <1>1, <1>2, <1>3, <1>4 DEF Next

LEMMA Invariance == Spec => []IInv
<1>1. IInv /\ [Next]_vars => IInv'
  BY StepIInv
<1> QED BY InitIInv, <1>1, PTL DEF Spec

LEMMA LateBecomes == \A t : late \subseteq Clips /\ Becomes(t) => late' \subseteq Clips
BY DEF Becomes, Late

LEMMA StepLate ==
    ASSUME late \subseteq Clips, [Next]_vars
    PROVE  late' \subseteq Clips
<1>1. CASE \E t : Becomes(t)
  BY <1>1, LateBecomes
<1>2. CASE UNCHANGED page
  BY <1>2 DEF page
<1>3. CASE UNCHANGED vars
  BY <1>3 DEF vars, page
<1>4. CASE Runs
  <2>1. \E t : Becomes(t)
    BY <1>4 DEF Runs, TakeJob, RecoverAnswered, EncodeEnds
  <2> QED BY <1>1, <2>1
<1>5. CASE Answers
  <2>1. UNCHANGED page \/ \E t : Becomes(t)
    BY <1>5 DEF Answers, TimerFires, TypingRests, ScanStep, ScanResumes, ScanVisits, EnsureStep,
       AttachAnswered, FetchAnswered, Redone, EnsureBegins
  <2> QED BY <1>1, <1>2, <2>1
<1>6. CASE User
  <2>1. ASSUME NEW e, NEW n, NEW d, AddClip(e, n, d) PROVE \E t : Becomes(t)
    BY <2>1 DEF AddClip
  <2>2. ASSUME NEW e, RemoveClip(e) PROVE \E t : Becomes(t)
    BY <2>2 DEF RemoveClip
  <2>3. ASSUME NEW e, NEW n, CommitTime(e, n) \/ TypeTime(e, n) \/ PickVariant(e, n)
        PROVE  \E t : Becomes(t)
    BY <2>3 DEF CommitTime, TypeTime, PickVariant
  <2>4. ASSUME NEW e, ClearTime(e) PROVE \E t : Becomes(t)
    BY <2>4 DEF ClearTime, Redone, EnsureBegins
  <2>5. Toggle \/ ToggleRife \/ UserStop => UNCHANGED page \/ \E t : Becomes(t)
    BY DEF Toggle, ToggleRife, UserStop, EnsureBegins
  <2> QED BY <1>1, <1>2, <1>6, <2>1, <2>2, <2>3, <2>4, <2>5 DEF User
<1> QED BY <1>3, <1>4, <1>5, <1>6 DEF Next

LEMMA LateIs == Spec => [](late \subseteq Clips)
<1>1. Init => late \subseteq Clips
  BY DEF Init
<1>2. late \subseteq Clips /\ [Next]_vars => (late \subseteq Clips)'
  BY StepLate
<1> QED BY <1>1, <1>2, PTL DEF Spec

-----------------------------------------------------------------------------
(* The results *)

LEMMA IInvImplies == IInv /\ late \subseteq Clips => TypeOK /\ RunIsEncoding
<1> SUFFICES ASSUME IInv, late \subseteq Clips PROVE TypeOK /\ RunIsEncoding
  OBVIOUS
<1>1. Page(Now) /\ Registry
  BY DEF IInv
<1>2. RunIsEncoding
  BY <1>1, NowIs DEF Page, RunIsEncoding
<1>3. clip \in [Clips -> [need : Densities, have : Densities, var : Densities,
                         status : Statuses, kind : Kinds]]
  BY <1>1, PageIs, NowIs DEF ClipRec
<1>4. /\ queue \in Seq([clip : Clips, m : Densities])
      /\ drain \in [at : {"idle", "loop", "recovering", "encoding"}, clip : Clips \cup {0}, m : Densities]
      /\ restart \in {NoClip} \cup [clip : Clips, m : Densities]
      /\ stop \in BOOLEAN /\ locked \in BOOLEAN
  BY <1>1, PageIs, NowIs DEF Jobs
<1>5. drain.at \in {"recovering", "encoding"} <=> drain.clip # 0
  BY <1>1, NowIs DEF Page
<1>6. present \subseteq Clips /\ registry \in [Sources -> SUBSET (1..MaxM)]
  BY <1>1 DEF Registry, DensitySets
<1> QED BY <1>2, <1>3, <1>4, <1>5, <1>6 DEF TypeOK

(* The clips, the queue, the registry and the drain keep to their types. *)
THEOREM TypeCorrect == Spec => []TypeOK
BY Invariance, LateIs, IInvImplies, PTL

(* A clip is shown as encoding only while its encode is in flight. *)
THEOREM RunMeansEncoding == Spec => []RunIsEncoding
BY Invariance, LateIs, IInvImplies, PTL

(* A clip that stitches a densified file whose density the page knows      *)
(* moves to a sparser one only when the user picks it, or when its file    *)
(* was missing and another one of the source was found.                    *)
THEOREM FilesGetDenser == Spec => NeverThinner
<1>1. ASSUME IInv, [Next]_vars
      PROVE  [\A e \in Clips :
                 clip[e].var # 0 /\ clip[e].have = clip[e].var /\ clip'[e].var < clip[e].var
                     => \E d \in Densities : PickVariant(e, d) \/ RecoverAnswered("found", d)]_vars
  <2>1. Page(Now) /\ Page(Now)' /\ clip \in [Clips -> ClipRec]
    BY <1>1, StepIInv, PageIs, NowIs DEF IInv
  <2>2. \A e \in Clips : clip[e].var \in Nat /\ clip'[e].var \in Nat
    BY <2>1, PageIs DEF Page, PageState, ClipRec, Now, Densities
  <2>3. CASE Dense
    <3>1. \A e \in Clips : clip[e].var # 0 /\ clip[e].have = clip[e].var => clip'[e].var >= clip[e].var
      BY <2>3 DEF Dense, Denser, Exact
    <3>2. \A e \in Clips : clip'[e].var >= clip[e].var => ~(clip'[e].var < clip[e].var)
      BY <2>2
    <3> QED BY <3>1, <3>2
  <2>4. CASE \E d \in Densities : RecoverAnswered("found", d)
    BY <2>4
  <2>5. CASE \E d \in Densities, e \in Clips : PickVariant(e, d)
    <3>1. PICK d \in Densities, x \in Clips : PickVariant(x, d)
      BY <2>5
    <3>2. \E c : clip' = [clip EXCEPT ![x] = c]
      BY <3>1 DEF PickVariant, Becomes, Now
    <3>3. \A e \in Clips \ {x} : clip'[e] = clip[e]
      BY <2>1, <3>2
    <3> QED BY <2>2, <3>1, <3>3
  <2> QED BY <1>1, <2>3, <2>4, <2>5, StepIInv
<1> QED BY <1>1, Invariance, PTL DEF Spec, NeverThinner
=============================================================================
