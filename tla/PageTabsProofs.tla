---------------------------- MODULE PageTabsProofs ----------------------------
(***************************************************************************)
(* Proofs about PageTabs and FrameRange: every way of moving In and Out    *)
(* keeps them in order and within the probed clip, for clips of two frames *)
(* and more (1 and 2 for one of a single frame), and whatever the page     *)
(* mounts, sends, asks for or restores, its sliders are moved in no other  *)
(* way.  Then the shape of the page: what a form shows is what the user    *)
(* has moved in it and no form mounted again in its place has reset,       *)
(* through every capture and return, and what was sent to a tab is where   *)
(* its collector finds it.                                                 *)
(***************************************************************************)
EXTENDS PageTabs, TLAPS, SequenceTheorems, FiniteSetTheorems

USE FramesAssumption

(* A range whose sliders span its clip, or one that a probe is about to set. *)
Ranges(l) == [total : Nat \ {0}, s : Nat, e : Nat, max : Nat \ {0}, from : Nat, to : Nat,
              desk : BOOLEAN, last : {l}, ok : BOOLEAN, drag : {<<>>} \cup (Nat \X Nat)]
Ranged(r) == r \in Ranges(r.last)
Spanned(r) == Ranged(r) /\ r.max = MaxFrames(r)

LEMMA Slides ==
    ASSUME NEW r, Ranged(r), NEW v \in Int
    PROVE  Slid(r, v) \in Nat /\ 1 <= Slid(r, v) /\ Slid(r, v) <= r.max
BY DEF Ranged, Ranges, Slid, AtLeast, AtMost

LEMMA Limits ==
    ASSUME NEW r, Ranged(r)
    PROVE  MaxFrames(r) \in Nat /\ MaxFrames(r) >= 2 /\ MaxFrames(r) >= r.total
BY DEF Ranged, Ranges, MaxFrames

(* sync() alone puts any two positive values right, in whatever order they *)
(* are and however long the clip was before: in order and frames of the    *)
(* clip, or 1 and 2 where it has a single frame, and what runs send is     *)
(* what the sliders show again (timeline.js: sync).                        *)
THEOREM SyncMends ==
    ASSUME NEW r, Ranged(r), r.s >= 1, r.e >= 1
    PROVE  /\ Ranged(Synced(r)) /\ Spanned(Synced(r)) /\ InClip(Synced(r))
           /\ ~Synced(r).desk /\ GlobalRange(Synced(r)) = <<Synced(r).s, Synced(r).e>>
<1> DEFINE m == MaxFrames(r)
           s == AtMost(r.s, m)
           e == AtMost(r.e, m)
           low == StartBelow(s, e)
           high == EndAbove(low, e, m)
<1>1. m \in Nat /\ m >= 2
  BY Limits
<1>2. s \in Nat /\ 1 <= s /\ s <= m /\ e \in Nat /\ 1 <= e /\ e <= m
  BY <1>1 DEF Ranged, Ranges, AtMost
<1>3. low \in Nat /\ 1 <= low /\ low <= m /\ (low < e \/ (low = 1 /\ e = 1))
  BY <1>1, <1>2 DEF StartBelow, AtLeast
<1>4. high \in Nat /\ low < high /\ high <= m
  BY <1>1, <1>2, <1>3 DEF EndAbove, AtMost
<1>5. Synced(r) = [r EXCEPT !.max = m, !.s = low, !.e = high, !.from = low, !.to = high, !.desk = FALSE]
  BY DEF Synced
<1> HIDE DEF m, s, e, low, high
<1>a. Ranged(r)
  OBVIOUS
<1>b. Synced(r) = [total |-> r.total, s |-> low, e |-> high, max |-> m, from |-> low, to |-> high,
                   desk |-> FALSE, last |-> r.last, ok |-> r.ok, drag |-> r.drag]
  BY <1>5 DEF Ranged, Ranges
<1>6. Ranged(Synced(r)) /\ Synced(r).max = m /\ Synced(r).s = low /\ Synced(r).e = high
      /\ Synced(r).total = r.total /\ Synced(r).from = low /\ Synced(r).to = high
      /\ Synced(r).desk = FALSE
  BY <1>1, <1>3, <1>4, <1>b DEF Ranged, Ranges
<1>7. MaxFrames(Synced(r)) = m
  BY <1>6 DEF MaxFrames, m
<1>8. r.total = 1 => m = 2
  BY DEF m, MaxFrames
<1>9. r.total # 1 => m = r.total
  BY DEF m, MaxFrames, Ranged, Ranges
<1>10. r.total # 1 => low >= 1 /\ low < high /\ high <= r.total
  BY <1>3, <1>4, <1>9
<1>11. r.total = 1 => low = 1 /\ high = 2
  BY <1>3, <1>4, <1>8
<1>12. InClip(Synced(r))
  BY <1>6, <1>10, <1>11 DEF InClip
<1> QED BY <1>6, <1>7, <1>12 DEF Spanned, GlobalRange

(* What the user and the answers of probes may do to the range. *)
ByUser(r, q) ==
    \/ \E which \in {"start", "end"}, v \in Int : q = ThumbTo(r, which, v) \/ q = Committed(r, which, v)
    \/ \E d \in Int : q = StepStart(r, d) \/ q = StepEnd(r, d) \/ q = NudgeEnd(r, d)
    \/ q = Grabbed(r) \/ q = Dropped(r)
    \/ r.drag # <<>> /\ \E d \in Int : q = Dragged(r, d)
ByProbe(r, q) ==
    q = Forgotten(r) \/ (\E v : q = Asked(r, v)) \/ \E v \in Videos : q = Probed(r, v)
ByDesk(r, q) == \E a, b \in Nat : q = Restored(r, a, b)

Good(r) == Spanned(r) /\ InClip(r) /\ (~r.desk => GlobalRange(r) = <<r.s, r.e>>)

LEMMA Starts ==
    ASSUME NEW r, Good(r), NEW v \in Int
    PROVE  Good(Synced([r EXCEPT !.s = Slid(r, v)]))
<1>1. Ranged(r) /\ r.s >= 1 /\ r.e >= 1
  BY DEF Good, Spanned, InClip, Ranged, Ranges
<1>2. Slid(r, v) \in Nat /\ Slid(r, v) >= 1
  BY <1>1, Slides
<1>3. /\ Ranged([r EXCEPT !.s = Slid(r, v)])
      /\ [r EXCEPT !.s = Slid(r, v)].s >= 1 /\ [r EXCEPT !.s = Slid(r, v)].e >= 1
  BY <1>1, <1>2 DEF Ranged, Ranges
<1> QED BY <1>3, SyncMends DEF Good

LEMMA Ends ==
    ASSUME NEW r, Good(r), NEW v \in Int
    PROVE  Good(Synced([r EXCEPT !.e = Slid(r, v)]))
<1>1. Ranged(r) /\ r.s >= 1 /\ r.e >= 1
  BY DEF Good, Spanned, InClip, Ranged, Ranges
<1>2. Slid(r, v) \in Nat /\ Slid(r, v) >= 1
  BY <1>1, Slides
<1>3. /\ Ranged([r EXCEPT !.e = Slid(r, v)])
      /\ [r EXCEPT !.e = Slid(r, v)].s >= 1 /\ [r EXCEPT !.e = Slid(r, v)].e >= 1
  BY <1>1, <1>2 DEF Ranged, Ranges
<1> QED BY <1>3, SyncMends DEF Good

LEMMA Both ==
    ASSUME NEW r, Good(r), NEW v \in Int, NEW w \in Int
    PROVE  Good(Synced([r EXCEPT !.s = Slid(r, v), !.e = Slid(r, w)]))
<1>1. Ranged(r)
  BY DEF Good, Spanned
<1>2. Slid(r, v) \in Nat /\ Slid(r, v) >= 1 /\ Slid(r, w) \in Nat /\ Slid(r, w) >= 1
  BY <1>1, Slides
<1> DEFINE q == [r EXCEPT !.s = Slid(r, v), !.e = Slid(r, w)]
<1>3. q \in Ranges(r.last) /\ q.s = Slid(r, v) /\ q.e = Slid(r, w)
  BY <1>1, <1>2 DEF Ranged, Ranges
<1>a. q.last = r.last
  BY <1>3 DEF Ranges
<1> HIDE DEF q
<1>4. Ranged(q) /\ q.s >= 1 /\ q.e >= 1
  BY <1>2, <1>3, <1>a DEF Ranged, Ranges
<1> QED BY <1>4, SyncMends DEF Good, q

(* Thumbs, boxes, step buttons, keys and drags, with any amounts, even a   *)
(* drag that began before the clip was probed anew, leave In and Out       *)
(* frames of the clip in order, or 1 and 2 where it has a single frame,    *)
(* and what runs send equal to them (timeline.js: sync, stepStart,         *)
(* stepEnd, commitNumInput, setupTimelineRangeDrag; app.js:                *)
(* nudgeGlobalFrames).                                                     *)
THEOREM UserStaysInClip == ASSUME NEW r, Good(r), NEW q, ByUser(r, q) PROVE Good(q)
<1>0. Ranged(r) /\ MaxFrames(r) \in Nat /\ r.s \in Nat /\ r.e \in Nat /\ r.total \in Nat
  BY Limits DEF Good, Spanned, Ranged, Ranges
<1>1. ASSUME NEW which \in {"start", "end"}, NEW v \in Int, q = ThumbTo(r, which, v) PROVE Good(q)
  BY <1>1, Starts, Ends DEF ThumbTo
<1>2. ASSUME NEW which \in {"start", "end"}, NEW v \in Int, q = Committed(r, which, v) PROVE Good(q)
  <2>1. AtMost(AtLeast(v, 1), r.e - 1) \in Int /\ AtLeast(AtMost(v, MaxFrames(r)), r.s + 1) \in Int
    BY <1>0 DEF AtMost, AtLeast
  <2> QED BY <1>2, <2>1, Starts, Ends DEF Committed
<1>3. ASSUME NEW d \in Int, q = StepStart(r, d) PROVE Good(q)
  <2>1. AtMost(AtLeast(r.s + d, 1), r.e - 1) \in Int
    BY <1>0 DEF AtMost, AtLeast
  <2> QED BY <1>3, <2>1, Starts DEF StepStart
<1>4. ASSUME NEW d \in Int, q = StepEnd(r, d) \/ q = NudgeEnd(r, d) PROVE Good(q)
  <2>1. /\ AtLeast(AtMost(r.e + d, MaxFrames(r)), r.s + 1) \in Int
        /\ AtLeast(AtMost(r.e + d, r.total), r.s + 1) \in Int
    BY <1>0 DEF AtMost, AtLeast
  <2> QED BY <1>4, <2>1, Ends DEF StepEnd, NudgeEnd
<1>5. CASE q = Grabbed(r) \/ q = Dropped(r)
  <2>1. /\ Ranged(q) /\ q.s = r.s /\ q.e = r.e /\ q.total = r.total /\ q.max = r.max
        /\ q.from = r.from /\ q.to = r.to /\ q.desk = r.desk
    BY <1>0, <1>5 DEF Grabbed, Dropped, Ranged, Ranges
  <2> QED BY <2>1 DEF Good, Spanned, InClip, MaxFrames, GlobalRange
<1>6. ASSUME r.drag # <<>>, NEW d \in Int, q = Dragged(r, d) PROVE Good(q)
  <2> DEFINE span == r.drag[2] - r.drag[1]
             ns == IF r.drag[1] + d < 1 THEN 1 ELSE r.drag[1] + d
  <2>1. r.drag \in Nat \X Nat
    BY <1>0, <1>6 DEF Ranged, Ranges
  <2>2. span \in Int /\ ns \in Int /\ MaxFrames(r) \in Int
    BY <1>0, <2>1
  <2>3. \/ q = Synced([r EXCEPT !.s = Slid(r, MaxFrames(r) - span), !.e = Slid(r, MaxFrames(r))])
        \/ q = Synced([r EXCEPT !.s = Slid(r, ns), !.e = Slid(r, ns + span)])
    BY <1>6 DEF Dragged
  <2>4. MaxFrames(r) - span \in Int /\ ns + span \in Int
    BY <2>2
  <2> HIDE DEF span, ns
  <2>5. CASE q = Synced([r EXCEPT !.s = Slid(r, MaxFrames(r) - span), !.e = Slid(r, MaxFrames(r))])
    BY <2>2, <2>4, <2>5, Both
  <2>6. CASE q = Synced([r EXCEPT !.s = Slid(r, ns), !.e = Slid(r, ns + span)])
    BY <2>2, <2>4, <2>6, Both
  <2> QED BY <2>3, <2>5, <2>6
<1> QED BY <1>1, <1>2, <1>3, <1>4, <1>5, <1>6 DEF ByUser

(* The answer of a probe, whatever the range was before, leaves In and Out *)
(* frames of the clip in order, or 1 and 2 where it has a single frame     *)
(* (timeline.js: probeGlobalVideo).                                        *)
THEOREM ProbesStayInClip == ASSUME NEW r, Good(r), NEW q, ByProbe(r, q) PROVE Good(q)
<1>0. Ranged(r)
  BY DEF Good, Spanned
<1>1. CASE q = Forgotten(r) \/ \E v : q = Asked(r, v)
  <2>a. \E x : \E b \in BOOLEAN : q = [r EXCEPT !.last = x, !.ok = b]
    BY <1>1 DEF Forgotten, Asked
  <2> PICK x : \E b \in BOOLEAN : q = [r EXCEPT !.last = x, !.ok = b]
    BY <2>a
  <2> PICK b \in BOOLEAN : q = [r EXCEPT !.last = x, !.ok = b]
    OBVIOUS
  <2>1. /\ Ranged(q) /\ q.s = r.s /\ q.e = r.e /\ q.total = r.total /\ q.max = r.max
        /\ q.from = r.from /\ q.to = r.to /\ q.desk = r.desk
    BY <1>0 DEF Ranged, Ranges
  <2> QED BY <2>1 DEF Good, Spanned, InClip, MaxFrames, GlobalRange
<1>2. ASSUME NEW v \in Videos, q = Probed(r, v) PROVE Good(q)
  <2>1. Frames[v] \in Nat \ {0}
    OBVIOUS
  <2> DEFINE f == Frames[v]
             x == [r EXCEPT !.total = f, !.ok = TRUE]
             p == [r EXCEPT !.total = f, !.ok = TRUE, !.max = f, !.s = 1, !.e = f]
  <2>4. x \in Ranges(r.last)
    BY <1>0, <2>1 DEF Ranged, Ranges
  <2>a. x.last = r.last
    BY <2>4 DEF Ranges
  <2>5. Ranged(x)
    <3> HIDE DEF x
    <3> QED BY <2>4, <2>a DEF Ranged, Ranges
  <2>6. p = [x EXCEPT !.max = f, !.s = 1, !.e = f]
    OBVIOUS
  <2>3. q = Synced(p)
    BY <1>2 DEF Probed
  <2>7. f >= 1
    BY <2>1
  <2> HIDE DEF f, p, x
  <2>2. Ranged(p) /\ p.s >= 1 /\ p.e >= 1
    <3>1. f \in Nat \ {0}
      BY <2>1 DEF f
    <3>2. p = [total |-> x.total, s |-> 1, e |-> f, max |-> f, from |-> x.from, to |-> x.to,
             desk |-> x.desk, last |-> x.last, ok |-> x.ok, drag |-> x.drag]
      BY <2>5, <2>6 DEF Ranged, Ranges
    <3> QED BY <2>5, <2>7, <3>1, <3>2 DEF Ranged, Ranges
  <2> QED BY <2>2, <2>3, SyncMends DEF Good
<1> QED BY <1>1, <1>2 DEF ByProbe

(* A desk that is restored changes what runs send and no slider            *)
(* (persistence.js: applyDeskSnapshot).                                    *)
LEMMA DesksStayInClip == ASSUME NEW r, Good(r), NEW q, ByDesk(r, q) PROVE Good(q)
<1> PICK a \in Nat, b \in Nat : q = Restored(r, a, b)
  BY DEF ByDesk
<1>1. Ranged(r)
  BY DEF Good, Spanned
<1>2. /\ Ranged(q) /\ q.s = r.s /\ q.e = r.e /\ q.total = r.total /\ q.max = r.max
      /\ q.desk = TRUE
  BY <1>1 DEF Restored, Ranged, Ranges
<1> QED BY <1>2 DEF Good, Spanned, InClip, MaxFrames

(* Before any probe In and Out are the first and the last of the frames    *)
(* that the page assumes (timeline.js: initTimeline).                      *)
THEOREM StartsInClip == Good(InitialRange)
<1> DEFINE p == [total |-> InitialFrames, s |-> 1, e |-> InitialFrames, max |-> InitialFrames,
                 from |-> 1, to |-> InitialFrames, desk |-> FALSE, last |-> NoPath, ok |-> FALSE, drag |-> <<>>]
<1>1. Ranged(p) /\ p.s >= 1 /\ p.e >= 1
  BY DEF Ranged, Ranges
<1>2. InitialRange = Synced(p)
  BY DEF InitialRange
<1> HIDE DEF p
<1> QED BY <1>1, <1>2, SyncMends DEF Good

(* The range that a cut is asked for lies in the clip, even in one of a    *)
(* single frame, for which the sliders show two, and whatever numbers a    *)
(* restored desk had (cut.js).                                             *)
THEOREM CutsInClip ==
    ASSUME NEW r, Good(r)
    PROVE  LET w == WorkingRange(r) IN 1 <= w[1] /\ w[1] <= w[2] /\ w[2] <= r.total
<1> DEFINE s == AtMost(AtLeast(r.from, 1), r.total)
           e == AtMost(AtLeast(r.to, s), r.total)
<1>1. r.total \in Nat \ {0} /\ r.from \in Nat /\ r.to \in Nat
  BY DEF Good, Spanned, Ranged, Ranges
<1>2. s \in Nat /\ 1 <= s /\ s <= r.total
  BY <1>1 DEF AtMost, AtLeast
<1>3. s <= e /\ e <= r.total
  BY <1>1, <1>2 DEF AtMost, AtLeast
<1>4. WorkingRange(r)[1] = s /\ WorkingRange(r)[2] = e
  BY DEF WorkingRange
<1> QED BY <1>2, <1>3, <1>4

-----------------------------------------------------------------------------
(* A page whose range is good and whose probes are of clips.  Forms,       *)
(* lists and bars need no type: nothing of them reaches the range but the  *)
(* clip that is probed.                                                    *)

Sound(p) ==
    /\ "range" \in DOMAIN p /\ Good(p.range)
    /\ "pend" \in DOMAIN p /\ \A r \in p.pend : r.kind = "probe" => r.path \in Videos

(* Mounting. *)
LEMMA MountSound == ASSUME NEW p, NEW t, NEW q, Sound(p) PROVE Sound(Mount(p, t, q))
BY DEF Sound, Mount

LEMMA SelectingSound == ASSUME NEW p, NEW t, Sound(p) PROVE Sound(Selecting(p, t))
BY DEF Sound, Selecting

LEMMA AwaitSound ==
    ASSUME NEW p, Sound(p), NEW kind, NEW q, kind = "probe" => q \in Videos
    PROVE  Sound(Await(p, kind, q))
<1>1. Await(p, kind, q).pend = p.pend \cup {[kind |-> kind, of |-> p.tab, path |-> q]}
  BY DEF Await, Sound
<1>2. "range" \in DOMAIN Await(p, kind, q) /\ "pend" \in DOMAIN Await(p, kind, q)
      /\ Await(p, kind, q).range = p.range
  BY DEF Await, Sound
<1> HIDE DEF Await
<1> QED BY <1>1, <1>2 DEF Sound

LEMMA RangedSound ==
    ASSUME NEW p, Sound(p), NEW r, ByUser(p.range, r) \/ ByProbe(p.range, r) \/ ByDesk(p.range, r)
    PROVE  Sound([p EXCEPT !.range = r])
<1>1. Good(r)
  BY UserStaysInClip, ProbesStayInClip, DesksStayInClip DEF Sound
<1> QED BY <1>1 DEF Sound

LEMMA ListFormsSound ==
    ASSUME NEW p, Sound(p)
    PROVE  /\ Sound(FaceMorphForm(p)) /\ Sound(WithoutBgForm(p))
           /\ Sound(StyleTransferForm(p)) /\ Sound(ImageSortForm(p))
<1>1. Sound(FaceMorphForm(p)) /\ Sound(WithoutBgForm(p)) /\ Sound(StyleTransferForm(p))
  BY MountSound, SelectingSound DEF FaceMorphForm, WithoutBgForm, StyleTransferForm
<1>2. \A x : Sound([Selecting(p, "imagesort") EXCEPT !.sel["imagesort"] = x])
  BY SelectingSound DEF Sound
<1>3. Sound(ImageSortForm(p))
  BY <1>2, MountSound DEF ImageSortForm
<1> QED BY <1>1, <1>3

LEMMA PendingSound ==
    ASSUME NEW p, Sound(p)
    PROVE  Sound(ApplyPendingToImg2Img(p)) /\ Sound(ApplyPendingToTxt2Img(p))
BY DEF Sound, ApplyPendingToImg2Img, ApplyPendingToTxt2Img

LEMMA RenderSound ==
    ASSUME NEW p, Sound(p)
    PROVE  Sound(RenderCut(p)) /\ Sound(RenderZoompan(p))
<1>1. Sound(CutForm(p))
  BY MountSound DEF CutForm
<1>2. \A v : ByProbe(p.range, Asked(p.range, v))
  BY DEF ByProbe
<1>3. \A v : Sound([p EXCEPT !.range = Asked(p.range, v)])
  BY <1>2, RangedSound
<1>4. \A v, q : Sound(Await([p EXCEPT !.range = Asked(p.range, v)], "cut", q))
  BY <1>3, AwaitSound
<1>5. Sound(RenderCut(p))
  BY <1>1, <1>4 DEF RenderCut
<1>6. Sound(RenderZoompan(p))
  BY AwaitSound DEF RenderZoompan
<1> QED BY <1>5, <1>6

LEMMA FormSound == ASSUME NEW p, NEW t, Sound(p) PROVE Sound(FormOf(p, t))
<1>1. \A q, u : Sound(Mount(p, q, u))
  BY MountSound
<1>2. Sound(ApplyPendingToImg2Img(Img2ImgForm(p))) /\ Sound(ApplyPendingToTxt2Img(Txt2ImgForm(p)))
  BY <1>1, PendingSound DEF Img2ImgForm, Txt2ImgForm
<1> QED BY <1>1, <1>2, ListFormsSound, RenderSound
        DEF FormOf, MoshForm, DeepDreamForm, FastSAMForm, RifeForm, QrArtForm, AgentForm,
            UpscaleForm, RifeRecohereForm, SpeedChangeForm, TransmuteForm, MultiForm, QuickForm,
            WatcherForm, AdvancedForm, ConvertForm, ImageEditForm, JobsForm, NotesForm,
            SettingsForm

(* Going to a tab. *)
LEMMA SyncSound == ASSUME NEW p, Sound(p) PROVE Sound(SyncFromGlobal(p))
<1>1. ASSUME NEW v \in Videos PROVE Sound(Await([p EXCEPT !.range = Asked(@, v)], "probe", v))
  <2>1. ByProbe(p.range, Asked(p.range, v))
    BY DEF ByProbe
  <2>2. Sound([p EXCEPT !.range = Asked(@, v)])
    BY <2>1, RangedSound
  <2> QED BY <2>2, AwaitSound
<1> QED BY <1>1 DEF SyncFromGlobal

LEMMA SwitchSound == ASSUME NEW p, NEW t, Sound(p) PROVE Sound(SwitchTab(p, t))
<1>1. ASSUME NEW q, Sound(q), NEW u PROVE Sound(RenderTabForm(q, u))
  <2>1. Sound([q EXCEPT !.panel = Blank])
    BY <1>1 DEF Sound
  <2>2. Sound(FormOf([q EXCEPT !.panel = Blank], u))
    BY <2>1, FormSound
  <2>3. ASSUME NEW x, Sound(x) PROVE Sound(ApplySaved(x, u))
    BY <2>3 DEF ApplySaved, Sound
  <2> QED BY <2>2, <2>3 DEF RenderTabForm
<1>2. Sound(Left(p, t))
  BY DEF Left, Captured, Sound
<1> QED BY <1>1, <1>2, SyncSound DEF SwitchTab

LEMMA GlobalSound == ASSUME NEW p, NEW gi, Sound(p) PROVE Sound(UpdateGlobalInputs(p, gi))
<1>1. ASSUME NEW q, Sound(q), NEW b
      PROVE  Sound([q EXCEPT !.gi = gi, !.range = IF b THEN Forgotten(@) ELSE @])
  <2>1. Good(Forgotten(q.range))
    BY <1>1, ProbesStayInClip DEF Sound, ByProbe
  <2> QED BY <1>1, <2>1 DEF Sound
<1>2. Sound(Await(p, "cutTimer", NoPath)) /\ Sound(Await(p, "zoompanTimer", NoPath))
  BY AwaitSound
<1> QED BY <1>1, <1>2, SyncSound DEF UpdateGlobalInputs

(* Sending. *)
LEMMA ListedSound ==
    ASSUME NEW p, NEW t, NEW q, Sound(p)
    PROVE  Sound(Listed(p, t, q)) /\ Sound(FieldSet(p, t, q)) /\ Sound(Shown(p, t, q))
<1>1. ASSUME NEW x, Sound(x) PROVE Sound(FieldSet(x, t, q))
  BY <1>1 DEF FieldSet, Sound
<1>2. Sound(Shown(p, t, q))
  BY <1>1, SwitchSound DEF Shown
<1> QED BY <1>1, <1>2 DEF Listed, Sound

LEMMA SendSound ==
    ASSUME NEW p, NEW t, NEW q, Sound(p)
    PROVE  /\ Sound(SendPoolPathTo(p, t, q)) /\ Sound(SendImagePathTo(p, t, q))
           /\ Sound(SendStyleRef(p, q))
<1>1. Sound([p EXCEPT !.list[t] = Append(@, q)]) /\ Sound([p EXCEPT !.style = q])
      /\ \A x : Sound([p EXCEPT !.kept = x])
  BY DEF Sound
<1>2. ASSUME NEW gi PROVE Sound([UpdateGlobalInputs(p, gi) EXCEPT !.range = Forgotten(@)])
  <2>1. Sound(UpdateGlobalInputs(p, gi))
    BY GlobalSound
  <2>2. ByProbe(UpdateGlobalInputs(p, gi).range, Forgotten(UpdateGlobalInputs(p, gi).range))
    BY DEF ByProbe
  <2> QED BY <2>1, <2>2, RangedSound
<1>3. Sound(SendPoolPathTo(p, t, q))
  BY <1>1, <1>2, ListedSound, SwitchSound, FormSound DEF SendPoolPathTo
<1>4. \A gi : Sound(UpdateGlobalInputs(Shown(p, t, q), gi))
  BY ListedSound, GlobalSound
<1>5. Sound(SendImagePathTo(p, t, q))
  BY <1>1, <1>4, ListedSound, SwitchSound DEF SendImagePathTo
<1>6. Sound(SendStyleRef(p, q))
  BY <1>1, SwitchSound DEF SendStyleRef
<1> QED BY <1>3, <1>5, <1>6

(* Lists, and what answers do to them. *)
LEMMA EditSound ==
    ASSUME NEW p, NEW t, NEW s, NEW i, Sound(p)
    PROVE  Sound(Selected(p, t, s, i)) /\ Sound(Redrawn(p, t)) /\ Sound(RemoveListed(p, t, i))
<1>1. \A x, y : Sound(Selected(p, t, x, y))
  BY DEF Sound, Selected
<1> QED BY <1>1, FormSound DEF Redrawn, RemoveListed

LEMMA AnsweredSound ==
    ASSUME NEW p, Sound(p), NEW r \in p.pend
    PROVE  Sound([p EXCEPT !.pend = @ \ {r}])
BY DEF Sound

LEMMA CapturedSound == ASSUME NEW p, Sound(p) PROVE Sound(Captured(p))
BY DEF Sound, Captured

(* A desk: its first clip is a clip, so the probe of it is of one. *)
LEMMA DeskSound ==
    ASSUME NEW p, Sound(p), NEW d \in Desks, NEW t
    PROVE  Sound(ApplyPoolData(p, d, t))
<1> DEFINE q == ApplyDeskSnapshot(p, d, t)
           v == First(d.video)
<1>1. d.video \in Seq(Videos) /\ d.range[1] \in Nat /\ d.range[2] \in Nat
  BY DeskAssumption
<1>2. v # NoPath => v \in Videos
  BY <1>1 DEF First
<1>3. ByDesk(p.range, Restored(p.range, d.range[1], d.range[2]))
  BY <1>1 DEF ByDesk
<1>4. Good(Restored(p.range, d.range[1], d.range[2]))
  BY <1>3, DesksStayInClip DEF Sound
<1>5. Sound(q)
  <2>1. /\ "range" \in DOMAIN q /\ "pend" \in DOMAIN q /\ q.pend = p.pend
        /\ q.range = Restored(p.range, d.range[1], d.range[2])
    BY DEF ApplyDeskSnapshot, Sound
  <2> QED BY <2>1, <1>4 DEF Sound
<1>6. Sound([q EXCEPT !.range = Asked(q.range, v)])
  <2>1. ByProbe(q.range, Asked(q.range, v))
    BY DEF ByProbe
  <2> HIDE DEF q
  <2> QED BY <1>5, <2>1, RangedSound
<1>7. v \in Videos => Sound(Await([q EXCEPT !.range = Asked(q.range, v)], "probe", v))
  <2> HIDE DEF q, v
  <2> QED BY <1>6, AwaitSound
<1>8. \/ ApplyPoolData(p, d, t) = q
      \/ v # NoPath /\ ApplyPoolData(p, d, t) = Await([q EXCEPT !.range = Asked(q.range, v)], "probe", v)
  BY DEF ApplyPoolData
<1> HIDE DEF q, v
<1> QED BY <1>2, <1>5, <1>7, <1>8

LEMMA InitSound == Init => Sound(page)
<1> SUFFICES ASSUME NEW d \in Desks, NEW t \in visits, page = SwitchTab(Session(d, t), t)
             PROVE  Sound(page)
  BY DEF Init
<1>1. \A x : Sound([NewPage EXCEPT !.kept = x])
  BY StartsInClip DEF Sound, NewPage
<1>2. Sound(Session(d, t))
  BY <1>1, DeskSound DEF Session
<1> QED BY <1>2, SwitchSound

LEMMA UserSound ==
    Sound(page) /\
    (\/ \E t \in visits : Switch(t) \/ ToggleWarm(t) \/ ClearList(t) \/ PickAsk(t) \/ Handoff(t)
     \/ \E q \in Paths : TypePath(q) \/ TypeOther(q)
     \/ \E o : Toggle(o)
     \/ QuickCopy \/ AgentSend \/ ClearHistory \/ Run \/ RankAsk \/ RankFails
     \/ \E bar, lines : SetGlobal(bar, lines))
    => Sound(page')
<1> SUFFICES ASSUME Sound(page) PROVE
      /\ \A t \in visits : Switch(t) \/ ToggleWarm(t) \/ ClearList(t) \/ PickAsk(t) \/ Handoff(t)
                           => Sound(page')
      /\ \A q \in Paths : TypePath(q) \/ TypeOther(q) => Sound(page')
      /\ \A o : Toggle(o) => Sound(page')
      /\ QuickCopy \/ AgentSend \/ ClearHistory \/ Run \/ RankAsk \/ RankFails => Sound(page')
      /\ \A bar, lines : SetGlobal(bar, lines) => Sound(page')
  OBVIOUS
<1>1. ASSUME NEW t \in visits, Switch(t) PROVE Sound(page')
  BY <1>1, SwitchSound DEF Switch, Acts
<1>2. ASSUME NEW t \in visits, ToggleWarm(t) PROVE Sound(page')
  BY <1>2 DEF ToggleWarm, Acts, Sound
<1>3. ASSUME NEW t \in visits, ClearList(t) PROVE Sound(page')
  <2>1. \A i : Sound(Redrawn(Selected(page, t, <<>>, i), t))
    BY EditSound
  <2> QED BY <1>3, <2>1 DEF ClearList, Edit, Acts
<1>4. ASSUME NEW t \in visits, PickAsk(t) PROVE Sound(page')
  <2>1. page' = [page EXCEPT !.pend = @ \cup {[kind |-> "pick", of |-> t, path |-> NoPath]}]
    BY <1>4 DEF PickAsk, Acts
  <2> QED BY <2>1 DEF Sound
<1>5. ASSUME NEW t \in visits, Handoff(t) PROVE Sound(page')
  <2>1. Sound([page EXCEPT !.handoff = t])
    BY DEF Sound
  <2> QED BY <1>5, <2>1, SwitchSound DEF Handoff, Acts
<1>6. ASSUME NEW q \in Paths, TypePath(q) \/ TypeOther(q) PROVE Sound(page')
  BY <1>6 DEF TypePath, TypeOther, Acts, Sound
<1>7. ASSUME NEW o, Toggle(o) PROVE Sound(page')
  <2> DEFINE t == page.panel.of
             own == [page EXCEPT !.panel.opts = Flip(@, o),
                                 !.kept = IF o \in Controls(t).page THEN Flip(@, <<t, o>>) ELSE @]
  <2>1. Sound(own)
    BY DEF Sound
  <2>2. page' = own \/ page' = RenderCut(own) \/ page' = RenderZoompan(own)
    BY <1>7 DEF Toggle, Acts
  <2> HIDE DEF own
  <2> QED BY <2>1, <2>2, RenderSound
<1>8. CASE QuickCopy
  <2>1. \A x : Sound([page EXCEPT !.kept = x])
    BY DEF Sound
  <2> QED BY <1>8, <2>1, MountSound DEF QuickCopy, Acts, QuickForm
<1>9. CASE AgentSend
  <2>1. Sound(AgentForm(page))
    BY MountSound DEF AgentForm
  <2>2. page' = [AgentForm(page) EXCEPT
                   !.pend = @ \cup {[kind |-> "agent", of |-> "agent", path |-> NoPath]}]
    BY <1>9 DEF AgentSend, Acts
  <2> QED BY <2>1, <2>2 DEF Sound
<1>10. CASE ClearHistory
  <2>1. Sound(AgentForm(page))
    BY MountSound DEF AgentForm
  <2> QED BY <1>10, <2>1 DEF ClearHistory, Acts, Sound
<1>11. CASE Run
  BY <1>11 DEF Run, Acts, Sound
<1>12. CASE RankAsk \/ RankFails
  BY <1>12 DEF RankAsk, RankFails, Acts
<1>13. ASSUME NEW bar, NEW lines, SetGlobal(bar, lines) PROVE Sound(page')
  BY <1>13, GlobalSound DEF SetGlobal, Acts
<1> QED BY <1>1, <1>2, <1>3, <1>4, <1>5, <1>6, <1>7, <1>8, <1>9, <1>10, <1>11, <1>12, <1>13

LEMMA PoolSound ==
    Sound(page) /\
    (\E t, q : SendVideo(t, q) \/ SendImage(t, q) \/ SendStyle(q)) => Sound(page')
BY SendSound DEF SendVideo, SendImage, SendStyle, Acts

LEMMA RowSound ==
    ASSUME Sound(page), NEW t, NEW i, NEW d,
           RemoveRow(t, i) \/ SelectRow(t, i) \/ SwapRow(t, i, d) \/ KeyMove(t, d) \/ ToEnd(d)
    PROVE  Sound(page')
<1>1. \A u, s, j : Sound(Redrawn(Selected(page, u, s, j), u))
  BY EditSound
<1>2. \A j : Sound(Redrawn(RemoveListed(page, t, j), t))
  BY EditSound
<1>3. CASE RemoveRow(t, i)
  BY <1>2, <1>3 DEF RemoveRow, Edit, Acts
<1>4. CASE SelectRow(t, i)
  BY <1>4 DEF SelectRow, Acts, Sound
<1>5. CASE SwapRow(t, i, d)
  BY <1>1, <1>5 DEF SwapRow, Edit, Acts
<1>6. CASE KeyMove(t, d)
  BY <1>1, <1>6 DEF KeyMove, Edit, Acts
<1>7. CASE ToEnd(d)
  BY <1>1, <1>7 DEF ToEnd, Edit, Acts
<1> QED BY <1>3, <1>4, <1>5, <1>6, <1>7

LEMMA AnswerSound ==
    ASSUME Sound(page), NEW r \in page.pend, NEW q, NEW found \in BOOLEAN,
           \/ AgentAnswer(r) \/ TimerFires(r) \/ PickAnswer(r, q) \/ ProjectOpened(r)
           \/ CutAnswer(r, found) \/ ZoompanAnswer(r, found) \/ ProbeAnswer(r, found)
    PROVE  Sound(page')
<1>1. ASSUME NEW p, Sound(p), NEW t, Comes(r, p, t) PROVE Sound(page')
  BY <1>1, AnsweredSound DEF Comes, Sound
<1>2. CASE AgentAnswer(r)
  <2>1. Sound(AgentForm(page))
    BY MountSound DEF AgentForm
  <2>2. Sound([AgentForm(page) EXCEPT !.reply = TRUE])
    BY <2>1 DEF Sound
  <2> QED BY <1>1, <1>2, <2>2 DEF AgentAnswer
<1>3. CASE TimerFires(r)
  BY <1>1, <1>3, RenderSound DEF TimerFires
<1>4. CASE PickAnswer(r, q)
  <2>1. Sound(Picked(r.of, q))
    <3>1. Sound(Listed(page, r.of, q))
      BY ListedSound
    <3>2. \A x : Sound([Listed(page, r.of, q) EXCEPT !.sel[r.of] = x])
      BY <3>1 DEF Sound
    <3> QED BY <3>1, <3>2, FormSound DEF Picked
  <2> QED BY <1>1, <1>4, <2>1 DEF PickAnswer
<1>5. ASSUME NEW v, found => v \in Videos
      PROVE  Sound([page EXCEPT !.range = IF found THEN Probed(@, v) ELSE @])
  <2>1. found => Good(Probed(page.range, v))
    BY <1>5, ProbesStayInClip DEF Sound, ByProbe
  <2> QED BY <2>1 DEF Sound
<1>6. CASE CutAnswer(r, found)
  <2>1. Sound(CutForm([page EXCEPT !.range = IF found THEN Probed(@, r.path) ELSE @]))
    BY <1>5, <1>6, MountSound DEF CutAnswer, CutForm
  <2> QED BY <1>1, <1>6, <2>1 DEF CutAnswer
<1>7. CASE ZoompanAnswer(r, found)
  <2>1. \A x : Sound(ZoompanForm([page EXCEPT !.boxes = x]))
    <3>1. \A x : Sound([page EXCEPT !.boxes = x])
      BY DEF Sound
    <3> QED BY <3>1, MountSound DEF ZoompanForm
  <2> QED BY <1>1, <1>7, <2>1 DEF ZoompanAnswer
<1>8. CASE ProbeAnswer(r, found)
  <2>1. r.path \in Videos
    BY <1>8 DEF ProbeAnswer, Sound
  <2> QED BY <1>1, <1>5, <1>8, <2>1 DEF ProbeAnswer
<1>9. CASE ProjectOpened(r)
  <2>1. Sound(FormOf(Captured(page), page.tab)) /\ Sound(SwitchTab(page, "pool"))
    BY CapturedSound, FormSound, SwitchSound
  <2> QED BY <1>1, <1>9, <2>1 DEF ProjectOpened
<1> QED BY <1>2, <1>3, <1>4, <1>6, <1>7, <1>8, <1>9

LEMMA OpenSound ==
    ASSUME Sound(page), NEW d \in Desks, NEW t, OpenProject(d, t)
    PROVE  Sound(page')
<1> DEFINE p == ApplyPoolData(page, d, t)
<1>1. Sound(p)
  BY DeskSound
<1>2. page' = [p EXCEPT !.pend = @ \cup {[kind |-> "open", of |-> t, path |-> NoPath]}]
  BY DEF OpenProject, Acts
<1> HIDE DEF p
<1> QED BY <1>1, <1>2 DEF Sound

LEMMA RankSound ==
    ASSUME Sound(page), NEW order, RankAnswer(order)
    PROVE  Sound(page')
<1>1. \A i : Sound(ImageSortForm(Selected(page, "imagesort", order, i)))
  BY EditSound, ListFormsSound
<1> QED BY <1>1 DEF RankAnswer, Ranked

LEMMA SlideSound ==
    ASSUME Sound(page)
    PROVE  /\ \A which \in {"start", "end"} :
                /\ \A v \in Int : SlideThumb(which, v) \/ SlideTyped(which, v) => Sound(page')
                /\ \A d \in {-1, 1} : SlideStep(which, d) \/ SlideKey(which, d) => Sound(page')
           /\ SlideGrab \/ SlideDrop => Sound(page')
           /\ \A d \in {-1, 1} : SlideDrag(d) => Sound(page')
<1>1. ASSUME NEW r, ByUser(page.range, r), Slide(r) PROVE Sound(page')
  BY <1>1, RangedSound DEF Slide, Acts
<1>2. ASSUME NEW which \in {"start", "end"}, NEW v \in Int,
             SlideThumb(which, v) \/ SlideTyped(which, v)
      PROVE  Sound(page')
  BY <1>1, <1>2 DEF SlideThumb, SlideTyped, ByUser
<1>3. ASSUME NEW which \in {"start", "end"}, NEW d \in {-1, 1},
             SlideStep(which, d) \/ SlideKey(which, d)
      PROVE  Sound(page')
  <2>1. d \in Int
    OBVIOUS
  <2>2. /\ ByUser(page.range, StepStart(page.range, d)) /\ ByUser(page.range, StepEnd(page.range, d))
        /\ ByUser(page.range, NudgeEnd(page.range, d))
    BY <2>1 DEF ByUser
  <2> QED BY <1>1, <1>3, <2>2 DEF SlideStep, SlideKey
<1>4. CASE SlideGrab \/ SlideDrop
  <2>1. ByUser(page.range, Grabbed(page.range)) /\ ByUser(page.range, Dropped(page.range))
    BY DEF ByUser
  <2> QED BY <1>1, <1>4, <2>1 DEF SlideGrab, SlideDrop
<1>5. ASSUME NEW d \in {-1, 1}, SlideDrag(d) PROVE Sound(page')
  <2>1. d \in Int /\ page.range.drag # <<>> /\ Slide(Dragged(page.range, d))
    BY <1>5 DEF SlideDrag
  <2>2. ByUser(page.range, Dragged(page.range, d))
    BY <2>1 DEF ByUser
  <2> QED BY <1>1, <2>1, <2>2
<1> QED BY <1>2, <1>3, <1>4, <1>5

LEMMA StepSound == Sound(page) /\ [Next]_vars => Sound(page')
<1> SUFFICES ASSUME Sound(page), [Next]_vars PROVE Sound(page')
  OBVIOUS
<1>1. {0, 1, page.range.total} \subseteq Int
  BY DEF Sound, Good, Spanned, Ranged, Ranges
<1>2. CASE UNCHANGED vars
  BY <1>2 DEF vars
<1> QED BY <1>1, <1>2, UserSound, PoolSound, RowSound, AnswerSound, RankSound, SlideSound, OpenSound DEF Next

(* Whatever the user, the answers and restored desks do, on any tabs, the  *)
(* sliders stay ordered frames of the probed clip, or 1 and 2 where it has *)
(* a single frame; runs send what they show unless a desk was restored and *)
(* neither a slider nor a probe has moved since; and the range of a cut    *)
(* lies in the clip (timeline.js, app.js, cut.js, persistence.js).         *)
THEOREM RangeNeverLeaves == Spec => []RangeInClip
<1> DEFINE Inv == Sound(page)
<1>1. Init => Inv
  BY InitSound
<1>2. Inv /\ [Next]_vars => Inv'
  BY StepSound DEF Sound
<1>3. Inv => RangeInClip
  BY CutsInClip DEF Sound, Good, RangeInClip
<1> HIDE DEF Inv
<1> QED BY <1>1, <1>2, <1>3, PTL DEF Spec

-----------------------------------------------------------------------------
(* The shape of the page                                                   *)

Fields == {"tab", "panel", "saved", "gi", "kept", "list", "sel", "style", "boxes", "handoff",
           "reply", "range", "pend"}

Offered(t) == Controls(t).dom \cup Controls(t).page \cup Controls(t).bare

Form(f) == DOMAIN f = {"of", "path", "other", "opts"} /\ f.opts \subseteq Offered(f.of)

(* Image Sort's selection is in its list, or on the first row of none. *)
Chosen(s, i) == i \in 1..AtLeast(Len(s), 1)

Whole(p) ==
    /\ DOMAIN p = Fields
    /\ Form(p.panel) /\ \A t \in DOMAIN p.saved : Form(p.saved[t])
    /\ \A k \in p.kept : k = <<k[1], k[2]>> /\ k[2] \in Controls(k[1]).page
    /\ DOMAIN p.gi = {"video", "image", "pathIn"}
    /\ p.list \in [ListTabs -> Seq(Paths)]
    /\ p.sel \in [ListTabs -> Nat \ {0}]
    /\ Chosen(p.list["imagesort"], p.sel["imagesort"])

Apart(c) ==
    c.dom \cap c.page = {} /\ c.dom \cap c.bare = {} /\ c.page \cap c.bare = {}

LEMMA FormsApart ==
    /\ Apart(Plain) /\ Apart([Plain EXCEPT !.dom = {}])
    /\ Apart(MoshControls) /\ Apart(TransmuteControls) /\ Apart(MultiControls)
    /\ Apart(DeepDreamControls) /\ Apart(FastSAMControls) /\ Apart(UpscaleControls)
    /\ Apart(RifeRecohereControls) /\ Apart(Img2ImgControls) /\ Apart(Txt2ImgControls)
    /\ Apart(QrArtControls) /\ Apart(WithoutBgControls) /\ Apart(StyleTransferControls)
    /\ Apart(ImageSortControls) /\ Apart(AgentControls) /\ Apart(ImageEditControls)
    /\ Apart(CutControls) /\ Apart(ZoompanControls) /\ Apart(QuickControls)
    /\ Apart(WatcherControls) /\ Apart(NotesControls) /\ Apart(SettingsControls)
BY DEF Apart, Plain, MoshControls, TransmuteControls, MultiControls, DeepDreamControls, FastSAMControls, UpscaleControls, RifeRecohereControls, Img2ImgControls, Txt2ImgControls, QrArtControls, WithoutBgControls, StyleTransferControls, ImageSortControls, AgentControls, ImageEditControls, CutControls, ZoompanControls, QuickControls, WatcherControls, NotesControls, SettingsControls

LEMMA ControlsAre ==
    ASSUME NEW t
    PROVE  /\ Apart(Controls(t))
           /\ t = "settings" => Offered(t) = Controls(t).page
           /\ t \in {"img2img", "txt2img"} => Controls(t).page = {} /\ "prompt" \in Controls(t).dom
           /\ t \in {"deepdream", "fastsam", "styletransfer"} => "warm" \in Controls(t).page
           /\ t = "cut" => "ref" \in Controls(t).page
           /\ t = "zoompan" => "compare" \in Controls(t).page
<1>1. Apart(Controls(t))
  BY FormsApart, Zenon DEF Controls
<1>2. Controls("settings") = SettingsControls /\ Controls("img2img") = Img2ImgControls
      /\ Controls("txt2img") = Txt2ImgControls /\ Controls("deepdream") = DeepDreamControls
      /\ Controls("fastsam") = FastSAMControls /\ Controls("styletransfer") = StyleTransferControls
      /\ Controls("cut") = CutControls /\ Controls("zoompan") = ZoompanControls
  BY DEF Controls
<1>3. t = "settings" => Offered(t) = Controls(t).page
  BY <1>2 DEF Offered, SettingsControls
<1>4. t \in {"img2img", "txt2img"} => Controls(t).page = {} /\ "prompt" \in Controls(t).dom
  BY <1>2 DEF Img2ImgControls, Txt2ImgControls
<1>5. t \in {"deepdream", "fastsam", "styletransfer"} => "warm" \in Controls(t).page
  BY <1>2 DEF DeepDreamControls, FastSAMControls, StyleTransferControls
<1>6. t \in {"cut", "zoompan"} => {IF t = "cut" THEN "ref" ELSE "compare"} \subseteq Controls(t).page
  BY <1>2 DEF CutControls, ZoompanControls
<1> QED BY <1>1, <1>3, <1>4, <1>5, <1>6

(* What a mount leaves as it is. *)
Framed(p, q) ==
    /\ Whole(q)
    /\ q.tab = p.tab /\ q.saved = p.saved /\ q.kept = p.kept /\ q.list = p.list

(* The form of t is in the panel, as the page state has it. *)
Shows(p, t, q) ==
    /\ Framed(p, q) /\ q.handoff = p.handoff
    /\ q.panel.of = t /\ q.panel.opts = Kept(p, t)

LEMMA MountIs ==
    ASSUME NEW p, Whole(p), NEW t, NEW q
    PROVE  Shows(p, t, Mount(p, t, q))
<1>1. Kept(p, t) \subseteq Controls(t).page
  BY DEF Kept, Whole
<1> QED BY <1>1 DEF Mount, Whole, Form, Offered, Fields, Shows, Framed

LEMMA ListFormIs ==
    ASSUME NEW p, Whole(p), NEW t \in {"facemorph", "withoutbg", "styletransfer", "imagesort"}
    PROVE  Shows(p, t, FormOf(p, t))
<1>1. t \in ListTabs
  BY DEF ListTabs
<1>2. ASSUME NEW s \in Nat \ {0}, t = "imagesort" => Chosen(p.list[t], s)
      PROVE  Framed(p, [p EXCEPT !.sel[t] = s]) /\ [p EXCEPT !.sel[t] = s].handoff = p.handoff
  BY <1>1, <1>2 DEF Whole, Fields, Framed, Form
<1>3. ASSUME NEW s \in Nat \ {0}, t = "imagesort" => Chosen(p.list[t], s), NEW q
      PROVE  Shows(p, t, Mount([p EXCEPT !.sel[t] = s], t, q))
  <2>1. ASSUME NEW r, Framed(p, r), r.handoff = p.handoff PROVE Shows(p, t, Mount(r, t, q))
    <3>1. Shows(r, t, Mount(r, t, q))
      BY <2>1, MountIs DEF Framed
    <3>2. Kept(r, t) = Kept(p, t)
      BY <2>1 DEF Kept, Framed
    <3> QED BY <2>1, <3>1, <3>2 DEF Shows, Framed
  <2> QED BY <1>2, <1>3, <2>1
<1> DEFINE k == Clamped(p.list[t], p.sel[t])
<1>4. p.list[t] \in Seq(Paths) /\ Len(p.list[t]) \in Nat /\ p.sel[t] \in Nat \ {0}
  BY <1>1, LenProperties DEF Whole
<1>5. k \in Nat \ {0} /\ (p.list[t] # <<>> => Chosen(p.list[t], k))
  BY <1>4 DEF Clamped, Chosen, AtLeast
<1>6. Selecting(p, t) = [p EXCEPT !.sel[t] = k]
  BY DEF Selecting
<1> HIDE DEF k
<1>7. CASE t = "imagesort"
  <2> DEFINE j == IF p.list[t] = <<>> THEN 1 ELSE k
  <2>1. [Selecting(p, t) EXCEPT !.sel[t] = IF p.list[t] = <<>> THEN 1 ELSE @] = [p EXCEPT !.sel[t] = j]
    BY <1>1, <1>6 DEF Whole, Fields
  <2>2. j \in Nat \ {0} /\ Chosen(p.list[t], j)
    BY <1>4, <1>5 DEF Chosen, AtLeast
  <2>3. FormOf(p, t) = Mount([p EXCEPT !.sel[t] = j], t, NoPath)
    BY <1>7, <2>1 DEF FormOf, ImageSortForm
  <2> HIDE DEF j
  <2> QED BY <1>3, <2>2, <2>3
<1>8. CASE t # "imagesort"
  <2>1. \E q : FormOf(p, t) = Mount([p EXCEPT !.sel[t] = k], t, q)
    BY <1>8, <1>6 DEF FormOf, FaceMorphForm, WithoutBgForm, StyleTransferForm
  <2> QED BY <1>3, <1>8, <1>5, <2>1
<1> QED BY <1>7, <1>8

LEMMA PromptIs ==
    ASSUME NEW p, Whole(p), NEW t \in {"img2img", "txt2img"}
    PROVE  LET q == FormOf(p, t)
           IN  /\ Framed(p, q) /\ q.panel.of = t
               /\ p.handoff # t => Shows(p, t, q)
               /\ p.handoff = t => q.handoff = "none" /\ q.panel.opts = Kept(p, t) \cup {"prompt"}
<1> DEFINE m == Mount(p, t, NoPath)
<1>1. Shows(p, t, m) /\ DOMAIN m = Fields
  <2>1. Shows(p, t, m)
    BY MountIs
  <2> HIDE DEF m
  <2> QED BY <2>1 DEF Shows, Framed, Whole
<1>2. ASSUME NEW x, NEW q,
             q = [m EXCEPT !.panel.opts = @ \cup {"prompt"}, !.handoff = "none", !.panel.path = x]
      PROVE  /\ Framed(p, q) /\ q.panel.of = t /\ q.handoff = "none"
             /\ q.panel.opts = Kept(p, t) \cup {"prompt"}
  <2>1. "prompt" \in Offered(t)
    BY ControlsAre DEF Offered
  <2> HIDE DEF m
  <2> QED BY <1>1, <1>2, <2>1 DEF Shows, Framed, Whole, Form, Fields
<1>3. LET q == [m EXCEPT !.panel.opts = @ \cup {"prompt"}, !.handoff = "none"]
      IN  /\ Framed(p, q) /\ q.panel.of = t /\ q.handoff = "none"
          /\ q.panel.opts = Kept(p, t) \cup {"prompt"}
  <2>1. "prompt" \in Offered(t)
    BY ControlsAre DEF Offered
  <2> HIDE DEF m
  <2> QED BY <1>1, <2>1 DEF Shows, Framed, Whole, Form, Fields
<1>4. CASE t = "img2img"
  <2>1. FormOf(p, t) = ApplyPendingToImg2Img(m)
    BY <1>4 DEF FormOf, Img2ImgForm
  <2>2. CASE p.handoff = t
    <3> DEFINE x == IF m.list["agent"] = <<>> THEN m.panel.path ELSE m.list["agent"][1]
    <3>1. ApplyPendingToImg2Img(m) =
            [m EXCEPT !.panel.opts = @ \cup {"prompt"}, !.handoff = "none", !.panel.path = x]
      BY <1>1, <1>4, <2>2 DEF ApplyPendingToImg2Img, Shows
    <3>2. /\ Framed(p, FormOf(p, t)) /\ FormOf(p, t).panel.of = t /\ FormOf(p, t).handoff = "none"
          /\ FormOf(p, t).panel.opts = Kept(p, t) \cup {"prompt"}
      <4>1. FormOf(p, t) =
              [m EXCEPT !.panel.opts = @ \cup {"prompt"}, !.handoff = "none", !.panel.path = x]
        BY <2>1, <3>1
      <4> HIDE DEF m, x
      <4> QED BY <1>2, <4>1
    <3> QED BY <2>2, <3>2
  <2>3. CASE p.handoff # t
    BY <1>1, <1>4, <2>1, <2>3 DEF ApplyPendingToImg2Img, Shows
  <2> QED BY <2>2, <2>3
<1>5. CASE t = "txt2img"
  <2>1. FormOf(p, t) = ApplyPendingToTxt2Img(m)
    BY <1>5 DEF FormOf, Txt2ImgForm
  <2> HIDE DEF m
  <2> QED BY <1>1, <1>3, <1>5, <2>1 DEF ApplyPendingToTxt2Img, Shows
<1> QED BY <1>4, <1>5

LEMMA PlainFormIs ==
    ASSUME NEW p, Whole(p),
           NEW t, t \notin Awaited \cup {"facemorph", "withoutbg", "styletransfer", "imagesort", "img2img", "txt2img"}
    PROVE  Shows(p, t, FormOf(p, t))
<1>1. \A u, q : Shows(p, u, Mount(p, u, q))
  BY MountIs
<1> QED BY <1>1, Zenon
        DEF FormOf, MoshForm, DeepDreamForm, FastSAMForm, RifeForm, QrArtForm, AgentForm,
            UpscaleForm, RifeRecohereForm, SpeedChangeForm, TransmuteForm, MultiForm, QuickForm,
            WatcherForm, AdvancedForm, ConvertForm, ImageEditForm, JobsForm, NotesForm,
            SettingsForm, Awaited

LEMMA AwaitIs ==
    ASSUME NEW p, Whole(p), NEW kind, NEW q
    PROVE  /\ Framed(p, Await(p, kind, q)) /\ Await(p, kind, q).panel = p.panel
           /\ Await(p, kind, q).handoff = p.handoff
BY DEF Await, Whole, Fields, Framed

(* Cut and Zoompan mount at once or wait for an answer. *)
LEMMA AwaitedFormIs ==
    ASSUME NEW p, Whole(p), NEW t \in Awaited
    PROVE  LET q == FormOf(p, t)
           IN  Framed(p, q) /\ q.handoff = p.handoff /\ q.panel.of \in {p.panel.of, t}
<1>1. CASE t = "cut"
  <2>1. FormOf(p, t) = RenderCut(p)
    BY <1>1 DEF FormOf
  <2>2. Shows(p, t, CutForm(p))
    BY <1>1, MountIs DEF CutForm
  <2>3. ASSUME NEW q PROVE LET w == Await([p EXCEPT !.range = Asked(@, q)], "cut", q)
                          IN  Framed(p, w) /\ w.panel = p.panel /\ w.handoff = p.handoff
    BY DEF Await, Whole, Fields, Framed
  <2> QED BY <2>1, <2>2, <2>3 DEF RenderCut, Shows
<1>2. CASE t = "zoompan"
  <2>1. FormOf(p, t) = RenderZoompan(p)
    <3>1. FormOf(p, "zoompan") = RenderZoompan(p)
      BY Zenon DEF FormOf
    <3> QED BY <1>2, <3>1
  <2> QED BY <1>2, <2>1, AwaitIs DEF RenderZoompan
<1> QED BY <1>1, <1>2 DEF Awaited

LEMMA FormIs ==
    ASSUME NEW p, Whole(p), NEW t
    PROVE  LET q == FormOf(p, t)
           IN  /\ Framed(p, q)
               /\ q.panel.of \in {p.panel.of, t}
               /\ t \notin Awaited => q.panel.of = t
               /\ t \notin Awaited /\ p.handoff # t => Shows(p, t, q)
               /\ p.handoff \in {"none", t} \cap {"none", "img2img", "txt2img"} => q.handoff = "none"
<1>1. CASE t \in Awaited
  BY <1>1, AwaitedFormIs DEF Awaited
<1>2. CASE t \in {"img2img", "txt2img"}
  BY <1>2, PromptIs DEF Awaited, Shows
<1>3. CASE t \notin Awaited \cup {"img2img", "txt2img"}
  BY <1>3, ListFormIs, PlainFormIs DEF Shows
<1> QED BY <1>1, <1>2, <1>3

-----------------------------------------------------------------------------
(* Going to a tab                                                          *)

(* Nothing that a form shows or that its return needs has changed. *)
Untouched(p, q) == Framed(p, q) /\ q.panel = p.panel /\ q.handoff = p.handoff

LEMMA SyncIs == ASSUME NEW p, Whole(p) PROVE Untouched(p, SyncFromGlobal(p))
<1>1. ASSUME NEW v PROVE Untouched(p, Await([p EXCEPT !.range = Asked(@, v)], "probe", v))
  BY DEF Await, Whole, Fields, Framed, Untouched
<1>2. Untouched(p, p)
  BY DEF Untouched, Framed
<1> QED BY <1>1, <1>2 DEF SyncFromGlobal

Bars3 == {"video", "image", "pathIn"}

LEMMA GlobalIs ==
    ASSUME NEW p, Whole(p), NEW gi, DOMAIN gi = Bars3
    PROVE  Untouched(p, UpdateGlobalInputs(p, gi))
<1>1. ASSUME NEW h, Untouched(p, h), NEW x
      PROVE  Untouched(p, [h EXCEPT !.gi = gi, !.range = x])
  BY <1>1 DEF Untouched, Framed, Whole, Fields, Bars3
<1>2. Untouched(p, p)
  BY DEF Untouched, Framed
<1>3. \A kind : Untouched(p, Await(p, kind, NoPath))
  BY AwaitIs DEF Untouched
<1>4. ASSUME NEW h, Untouched(p, h) PROVE Untouched(p, SyncFromGlobal(h))
  BY <1>4, SyncIs DEF Untouched, Framed
<1> DEFINE heard == IF p.tab = "cut" /\ gi.video # p.gi.video THEN Await(p, "cutTimer", NoPath)
                    ELSE IF p.tab = "zoompan" /\ gi.image # p.gi.image THEN Await(p, "zoompanTimer", NoPath)
                    ELSE p
<1>5. Untouched(p, heard)
  BY <1>2, <1>3
<1>6. UpdateGlobalInputs(p, gi) =
        SyncFromGlobal([heard EXCEPT !.gi = gi,
                                     !.range = IF First(gi.video) # First(p.gi.video) THEN Forgotten(@) ELSE @])
  BY DEF UpdateGlobalInputs
<1> HIDE DEF heard
<1>7. \A b : Untouched(p, [heard EXCEPT !.gi = gi, !.range = IF b THEN Forgotten(@) ELSE @])
  BY <1>1, <1>5
<1> QED BY <1>4, <1>6, <1>7

(* The capture files the panel under the shown tab. *)
LEMMA CapturedIs ==
    ASSUME NEW p, Whole(p)
    PROVE  LET c == Captured(p)
           IN  /\ Whole(c)
               /\ c.tab = p.tab /\ c.panel = p.panel /\ c.kept = p.kept /\ c.list = p.list
               /\ c.handoff = p.handoff
               /\ p.tab = "settings" => c.saved = p.saved
               /\ p.tab # "settings" => /\ DOMAIN c.saved = DOMAIN p.saved \cup {p.tab}
                                        /\ c.saved[p.tab].of = p.panel.of
                                        /\ c.saved[p.tab].opts = p.panel.opts \ Controls(p.panel.of).bare
               /\ \A t \in DOMAIN p.saved \ {p.tab} : c.saved[t] = p.saved[t]
<1> DEFINE f == [p.panel EXCEPT !.opts = @ \ Controls(p.panel.of).bare]
           s == [t \in DOMAIN p.saved \cup {p.tab} |-> IF t = p.tab THEN f ELSE p.saved[t]]
<1>1. CASE p.tab = "settings"
  BY <1>1 DEF Captured
<1>2. CASE p.tab # "settings"
  <2>1. DOMAIN f = DOMAIN p.panel /\ f.of = p.panel.of /\ f.opts = p.panel.opts \ Controls(p.panel.of).bare
    BY DEF Whole, Form
  <2>2. Form(f)
    BY <2>1 DEF Whole, Form
  <2>3. Captured(p) = [p EXCEPT !.saved = s]
    BY <1>2 DEF Captured
  <2> HIDE DEF f
  <2>4. /\ DOMAIN s = DOMAIN p.saved \cup {p.tab} /\ s[p.tab] = f
        /\ \A t \in DOMAIN p.saved \ {p.tab} : s[t] = p.saved[t]
    OBVIOUS
  <2> HIDE DEF s
  <2>5. \A t \in DOMAIN s : Form(s[t])
    BY <2>2, <2>4 DEF Whole
  <2> QED BY <1>2, <2>1, <2>3, <2>4, <2>5 DEF Whole, Fields
<1> QED BY <1>1, <1>2

(* A captured form that comes back when its tab is mounted. *)
Returns(p, t) == t # "settings" /\ t \in DOMAIN p.saved /\ p.saved[t].of = t

LEMMA ApplyIs ==
    ASSUME NEW p, Whole(p), NEW t, t # "none", p.panel.of \in {"none", t}
    PROVE  LET q == ApplySaved(p, t)
           IN  /\ Whole(q)
               /\ q.tab = p.tab /\ q.saved = p.saved /\ q.list = p.list /\ q.handoff = p.handoff
               /\ q.panel.of = p.panel.of
               /\ \A u : u # t => Kept(q, u) = Kept(p, u)
               /\ p.panel.of = t /\ Returns(p, t) =>
                    /\ q.panel.opts = p.saved[t].opts
                    /\ Kept(q, t) = p.saved[t].opts \cap Controls(t).page
               /\ ~Returns(p, t) => q = p
<1>1. CASE Returns(p, t) /\ p.panel.of = t
  <2> DEFINE f == p.saved[t]
             own == {<<t, o>> : o \in f.opts \cap Controls(t).page}
             k == {x \in p.kept : x[1] # t} \cup own
             q == [p EXCEPT !.panel = f, !.kept = k,
                            !.style = IF t = "styletransfer" THEN f.path ELSE @]
  <2>1. ApplySaved(p, t) = q
    BY <1>1 DEF ApplySaved, Returns
  <2>2. \A x \in own : x = <<t, x[2]>> /\ x[1] = t /\ x[2] \in f.opts \cap Controls(t).page
    OBVIOUS
  <2>3. \A x \in k : x = <<x[1], x[2]>> /\ x[2] \in Controls(x[1]).page
    BY <2>2 DEF Whole
  <2>4. \A o \in f.opts \cap Controls(t).page : <<t, o>> \in k /\ <<t, o>>[1] = t /\ <<t, o>>[2] = o
    OBVIOUS
  <2>5. \A x \in k : x[1] = t => x[2] \in f.opts \cap Controls(t).page
    BY <2>2
  <2>6. \A x : x[1] # t => (x \in k <=> x \in p.kept)
    BY <2>2
  <2>7. Form(f)
    BY <1>1 DEF Returns, Whole
  <2> HIDE DEF k, f
  <2>8. /\ q.tab = p.tab /\ q.saved = p.saved /\ q.list = p.list /\ q.handoff = p.handoff
        /\ q.panel = f /\ q.kept = k /\ DOMAIN q = Fields /\ q.gi = p.gi /\ q.sel = p.sel
    BY DEF Whole, Fields
  <2>9. Whole(q)
    BY <2>3, <2>7, <2>8 DEF Whole
  <2>10. Kept(q, t) = f.opts \cap Controls(t).page
    <3>1. Kept(q, t) = {x[2] : x \in {y \in k : y[1] = t}}
      BY <2>8 DEF Kept
    <3>2. \A o \in f.opts \cap Controls(t).page : <<t, o>> \in {y \in k : y[1] = t} /\ <<t, o>>[2] = o
      BY <2>4
    <3>3. f.opts \cap Controls(t).page \subseteq Kept(q, t)
      BY <3>1, <3>2
    <3>4. Kept(q, t) \subseteq f.opts \cap Controls(t).page
      BY <2>5, <3>1
    <3> QED BY <3>3, <3>4
  <2>11. ASSUME NEW u, u # t PROVE Kept(q, u) = Kept(p, u)
    BY <2>6, <2>8, <2>11 DEF Kept
  <2>12. q.panel.of = t
    BY <1>1, <2>8 DEF Returns, f
  <2> HIDE DEF q
  <2> QED BY <1>1, <2>1, <2>8, <2>9, <2>10, <2>11, <2>12 DEF f
<1>2. CASE ~(Returns(p, t) /\ p.panel.of = t)
  <2>1. ApplySaved(p, t) = p
    BY <1>2 DEF ApplySaved, Returns
  <2> QED BY <1>2, <2>1
<1> QED BY <1>1, <1>2

(* The agent's answer waits for the tab that is about to be shown. *)
Handed(p, t) == p.handoff = "none" \/ (t \in {"img2img", "txt2img"} /\ p.handoff = t)

LEMMA RenderIs ==
    ASSUME NEW p, Whole(p), NEW t, t # "none", Handed(p, t)
    PROVE  LET q == RenderTabForm(p, t)
           IN  /\ Whole(q)
               /\ q.tab = p.tab /\ q.saved = p.saved /\ q.list = p.list /\ q.handoff = "none"
               /\ q.panel.of \in {"none", t} /\ (t \notin Awaited => q.panel.of = t)
               /\ \A u : u # t => Kept(q, u) = Kept(p, u)
               /\ t \notin Awaited /\ p.handoff # t =>
                    IF Returns(p, t) THEN /\ q.panel.opts = p.saved[t].opts
                                         /\ Kept(q, t) = p.saved[t].opts \cap Controls(t).page
                    ELSE q.panel.opts = Kept(p, t) /\ Kept(q, t) = Kept(p, t)
<1> DEFINE b == [p EXCEPT !.panel = Blank]
           m == FormOf(b, t)
<1>1. /\ Whole(b) /\ b.tab = p.tab /\ b.saved = p.saved /\ b.kept = p.kept /\ b.list = p.list
      /\ b.handoff = p.handoff /\ b.panel.of = "none"
  BY DEF Whole, Fields, Form, Blank
<1>2. \A u : Kept(b, u) = Kept(p, u)
  BY <1>1 DEF Kept
<1>3. RenderTabForm(p, t) = ApplySaved(m, t)
  BY DEF RenderTabForm
<1> HIDE DEF b
<1>4. /\ Framed(b, m) /\ m.panel.of \in {"none", t} /\ (t \notin Awaited => m.panel.of = t)
      /\ (t \notin Awaited /\ p.handoff # t => m.panel.opts = Kept(p, t))
      /\ m.handoff = "none"
  <2>1. /\ Framed(b, m) /\ m.panel.of \in {b.panel.of, t} /\ (t \notin Awaited => m.panel.of = t)
        /\ (t \notin Awaited /\ b.handoff # t => Shows(b, t, m))
        /\ (b.handoff \in {"none", t} \cap {"none", "img2img", "txt2img"} => m.handoff = "none")
    BY <1>1, FormIs
  <2> HIDE DEF m
  <2>2. t \notin Awaited /\ p.handoff # t => m.panel.opts = Kept(p, t)
    BY <1>1, <1>2, <2>1 DEF Shows
  <2>3. m.handoff = "none"
    BY <1>1, <2>1 DEF Handed
  <2> QED BY <1>1, <2>1, <2>2, <2>3
<1> HIDE DEF m
<1>5. /\ Whole(m) /\ m.tab = p.tab /\ m.saved = p.saved /\ m.kept = p.kept /\ m.list = p.list
  BY <1>1, <1>4 DEF Framed
<1>6. \A u : Kept(m, u) = Kept(p, u)
  BY <1>5 DEF Kept
<1>7. Returns(m, t) <=> Returns(p, t)
  BY <1>5 DEF Returns
<1> QED BY <1>3, <1>4, <1>5, <1>6, <1>7, ApplyIs

LEMMA LeftIs ==
    ASSUME NEW p, Whole(p), NEW t
    PROVE  LET l == Left(p, t)
           IN  /\ Whole(l) /\ l.tab = t /\ l.panel = p.panel /\ l.kept = p.kept
               /\ l.list = p.list /\ l.handoff = p.handoff
               /\ l.saved = Captured(p).saved
<1> DEFINE c == Captured(p)
<1>1. /\ Whole(c) /\ c.panel = p.panel /\ c.kept = p.kept /\ c.list = p.list /\ c.handoff = p.handoff
  BY CapturedIs
<1>2. Left(p, t) = [c EXCEPT !.tab = t]
  BY DEF Left
<1> HIDE DEF c
<1>3. LET l == [c EXCEPT !.tab = t]
      IN  /\ Whole(l) /\ l.tab = t /\ l.panel = c.panel /\ l.kept = c.kept
          /\ l.list = c.list /\ l.handoff = c.handoff /\ l.saved = c.saved
  BY <1>1 DEF Whole, Fields
<1> QED BY <1>1, <1>2, <1>3 DEF c

(* The switch either stays on a library tab or mounts the form again. *)
Stays(p, t) == t = p.tab /\ t \in Library /\ p.panel.of = t

LEMMA SwitchIs ==
    ASSUME NEW p, Whole(p), NEW t, t # "none", Handed(p, t)
    PROVE  LET q == SwitchTab(p, t)
           IN  /\ Whole(q) /\ q.tab = t /\ q.list = p.list /\ q.handoff = "none"
               /\ q.panel.of \in {"none", t} /\ (t \notin Awaited => q.panel.of = t)
               /\ Stays(p, t) => q = p
               /\ ~Stays(p, t) =>
                    LET l == Left(p, t)
                    IN  /\ q.saved = l.saved
                        /\ \A u : u # t => Kept(q, u) = Kept(p, u)
                        /\ t \notin Awaited /\ p.handoff # t =>
                             IF Returns(l, t) THEN /\ q.panel.opts = l.saved[t].opts
                                                  /\ Kept(q, t) = l.saved[t].opts \cap Controls(t).page
                             ELSE q.panel.opts = Kept(p, t) /\ Kept(q, t) = Kept(p, t)
<1>1. CASE Stays(p, t)
  <2>1. SwitchTab(p, t) = p
    BY <1>1 DEF SwitchTab, Stays
  <2>2. p.handoff = "none"
    BY <1>1 DEF Stays, Handed, Library
  <2> QED BY <1>1, <2>1, <2>2 DEF Stays
<1>2. CASE ~Stays(p, t)
  <2> DEFINE l == Left(p, t)
             m == RenderTabForm(l, t)
             q == SyncFromGlobal(m)
  <2>1. SwitchTab(p, t) = q
    BY <1>2 DEF SwitchTab, Stays
  <2>2. /\ Whole(l) /\ l.tab = t /\ l.kept = p.kept /\ l.list = p.list /\ l.handoff = p.handoff
    BY LeftIs
  <2>3. Handed(l, t) /\ \A u : Kept(l, u) = Kept(p, u)
    BY <2>2 DEF Handed, Kept
  <2> HIDE DEF l
  <2>4. /\ Whole(m)
        /\ m.tab = l.tab /\ m.saved = l.saved /\ m.list = l.list /\ m.handoff = "none"
        /\ m.panel.of \in {"none", t} /\ (t \notin Awaited => m.panel.of = t)
        /\ \A u : u # t => Kept(m, u) = Kept(l, u)
        /\ t \notin Awaited /\ l.handoff # t =>
             IF Returns(l, t) THEN /\ m.panel.opts = l.saved[t].opts
                                  /\ Kept(m, t) = l.saved[t].opts \cap Controls(t).page
             ELSE m.panel.opts = Kept(l, t) /\ Kept(m, t) = Kept(l, t)
    BY <2>2, <2>3, RenderIs
  <2> HIDE DEF m
  <2>5. /\ Whole(q) /\ q.tab = m.tab /\ q.saved = m.saved /\ q.kept = m.kept /\ q.list = m.list
        /\ q.panel = m.panel /\ q.handoff = m.handoff
    BY <2>4, SyncIs DEF Untouched, Framed
  <2>6. \A u : Kept(q, u) = Kept(m, u)
    BY <2>5 DEF Kept
  <2> HIDE DEF q
  <2> QED BY <1>2, <2>1, <2>2, <2>3, <2>4, <2>5, <2>6 DEF l
<1> QED BY <1>1, <1>2

(* The agent's answer is in the prompt, unless a saved form comes back. *)
LEMMA HandedIs ==
    ASSUME NEW p, Whole(p), NEW t \in {"img2img", "txt2img"}, p.handoff = t
    PROVE  LET l == Left(p, t)
           IN  SwitchTab(p, t).panel.opts =
                 IF Returns(l, t) THEN l.saved[t].opts ELSE Kept(p, t) \cup {"prompt"}
<1> DEFINE l == Left(p, t)
           b == [l EXCEPT !.panel = Blank]
           m == FormOf(b, t)
           q == ApplySaved(m, t)
<1>1. Whole(l) /\ l.kept = p.kept /\ l.handoff = t
  BY LeftIs
<1>2. SwitchTab(p, t) = SyncFromGlobal(q)
  BY DEF SwitchTab, Library, RenderTabForm
<1> HIDE DEF l
<1>3. /\ Whole(b) /\ b.saved = l.saved /\ b.kept = p.kept /\ b.handoff = t /\ b.panel.of = "none"
  BY <1>1 DEF Whole, Fields, Form, Blank
<1> HIDE DEF b
<1>4. Framed(b, m) /\ m.panel.of = t /\ m.panel.opts = Kept(b, t) \cup {"prompt"}
  BY <1>3, PromptIs
<1>5. Kept(b, t) = Kept(p, t)
  BY <1>3 DEF Kept
<1> HIDE DEF m
<1>6. Whole(m) /\ m.saved = l.saved /\ t # "none"
  BY <1>3, <1>4 DEF Framed
<1>7. Returns(m, t) <=> Returns(l, t)
  BY <1>6 DEF Returns
<1>8. /\ Whole(q)
      /\ Returns(m, t) => q.panel.opts = m.saved[t].opts
      /\ ~Returns(m, t) => q = m
  BY <1>4, <1>6, ApplyIs
<1> HIDE DEF q
<1>9. SyncFromGlobal(q).panel = q.panel
  BY <1>8, SyncIs DEF Untouched
<1> QED BY <1>2, <1>4, <1>5, <1>6, <1>7, <1>8, <1>9 DEF l

(* What the form of t shows, or would show when it is mounted again. *)
Has(p, t) ==
    IF p.panel.of = t THEN p.panel.opts ELSE IF Returns(p, t) THEN p.saved[t].opts ELSE Kept(p, t)

(* The user has moved the controls m of tab t, and the page knows: its page
   state too, unless a saved form is about to come back and set it. *)
Remembered(p, t, m) ==
    /\ m \subseteq Offered(t)
    /\ p.panel.of = t \/ ~Returns(p, t) => Kept(p, t) = m \cap Controls(t).page
    /\ Has(p, t) \ Controls(t).bare = m \ Controls(t).bare

LEMMA SwitchRemembers ==
    ASSUME NEW p, Whole(p), NEW t, t # "none", Handed(p, t),
           NEW u, u \notin Awaited \cup {"none"}, p.handoff # u,
           p.tab = u <=> p.panel.of = u,
           NEW m, Remembered(p, u, m)
    PROVE  Remembered(SwitchTab(p, t), u, m)
<1> DEFINE l == Left(p, t)
           q == SwitchTab(p, t)
           c == Controls(u)
<1>1. CASE Stays(p, t)
  BY <1>1, SwitchIs
<1>2. CASE ~Stays(p, t)
  <2>1. /\ q.saved = l.saved /\ q.panel.of \in {"none", t} /\ (t \notin Awaited => q.panel.of = t)
        /\ (u # t => Kept(q, u) = Kept(p, u))
        /\ u = t =>
             IF Returns(l, u) THEN /\ q.panel.opts = l.saved[u].opts
                                  /\ Kept(q, u) = l.saved[u].opts \cap c.page
             ELSE q.panel.opts = Kept(p, u) /\ Kept(q, u) = Kept(p, u)
    BY <1>2, SwitchIs
  <2>2. /\ p.tab = u /\ u # "settings" => /\ u \in DOMAIN l.saved /\ l.saved[u].of = u
                                         /\ l.saved[u].opts = p.panel.opts \ c.bare
        /\ p.tab = u /\ u = "settings" => ~Returns(l, u)
        /\ p.tab # u => /\ Returns(l, u) <=> Returns(p, u)
                        /\ Returns(p, u) => l.saved[u] = p.saved[u]
    BY LeftIs, CapturedIs DEF Returns
  <2>3. Returns(q, u) <=> Returns(l, u)
    BY <2>1 DEF Returns
  <2>4. c.page \cap c.bare = {} /\ (u = "settings" => Offered(u) = c.page)
    BY ControlsAre DEF Apart
  <2> SUFFICES Remembered(q, u, m)
    OBVIOUS
  <2> HIDE DEF l, q, c
  <2>5. /\ m \subseteq Offered(u) /\ Has(p, u) \ c.bare = m \ c.bare
        /\ p.panel.of = u \/ ~Returns(p, u) => Kept(p, u) = m \cap c.page
    BY DEF Remembered, c
  <2>6. CASE p.tab = u /\ u # "settings"
    <3>1. Returns(l, u) /\ l.saved[u].opts = p.panel.opts \ c.bare /\ Has(p, u) = p.panel.opts
      BY <2>2, <2>6 DEF Returns, Has
    <3>2. Has(q, u) = p.panel.opts \ c.bare
      BY <2>1, <2>3, <3>1 DEF Has
    <3>3. u = t => Kept(q, u) = m \cap c.page
      BY <2>1, <2>4, <2>5, <3>1
    <3>4. q.panel.of = u => u = t
      BY <2>1
    <3> QED BY <2>3, <2>5, <3>1, <3>2, <3>3, <3>4 DEF Remembered, c
  <2>7. CASE p.tab = u /\ u = "settings"
    <3>1. Has(q, u) = Kept(p, u) /\ Kept(q, u) = Kept(p, u)
      BY <2>1, <2>2, <2>3, <2>7 DEF Has
    <3>2. m \cap c.page = m
      BY <2>4, <2>5, <2>7
    <3> QED BY <2>5, <2>7, <3>1, <3>2 DEF Remembered, c
  <2>8. CASE p.tab # u /\ Returns(p, u)
    <3>1. Returns(l, u) /\ l.saved[u] = p.saved[u] /\ Has(p, u) = p.saved[u].opts
      BY <2>2, <2>8 DEF Has
    <3>2. Has(q, u) = p.saved[u].opts
      BY <2>1, <2>3, <3>1 DEF Has
    <3>3. u = t => Kept(q, u) = m \cap c.page
      BY <2>1, <2>4, <2>5, <3>1
    <3>4. q.panel.of = u => u = t
      BY <2>1
    <3> QED BY <2>3, <2>5, <3>1, <3>2, <3>3, <3>4 DEF Remembered, c
  <2>9. CASE p.tab # u /\ ~Returns(p, u)
    <3>1. Has(q, u) = Kept(p, u) /\ Kept(q, u) = Kept(p, u) /\ Has(p, u) = Kept(p, u)
      BY <2>1, <2>2, <2>3, <2>9 DEF Has
    <3> QED BY <2>5, <2>9, <3>1 DEF Remembered, c
  <2> QED BY <2>6, <2>7, <2>8, <2>9
<1> QED BY <1>1, <1>2

-----------------------------------------------------------------------------
(* What a change of the page keeps                                         *)

(* The controls of t that pairs of tab and control name. *)
Moved(ty, t) == {k[2] : k \in {x \in ty : x[1] = t}}

(* d are the tabs that an answer may have disturbed, ty what has been moved:
   the shown tab has its form in the panel, and every other tab's form
   remembers what was moved in it. *)
Placed(p, d) ==
    /\ Whole(p) /\ p.handoff = "none"
    /\ p.tab \notin Awaited \cup d => p.panel.of = p.tab
    /\ p.panel.of \in {"none", p.tab} \cup Awaited \cup d

Knows(p, ty, d) == \A t \in visits \ (Awaited \cup d) : Remembered(p, t, Moved(ty, t))

Fine(p, ty, d) == Placed(p, d) /\ Knows(p, ty, d) /\ "none" \notin visits

Same(p, q) ==
    /\ Whole(q)
    /\ q.tab = p.tab /\ q.saved = p.saved /\ q.kept = p.kept /\ q.handoff = p.handoff
    /\ q.panel.of = p.panel.of /\ q.panel.opts = p.panel.opts

LEMMA FineSame ==
    ASSUME NEW p, NEW ty, NEW d, Fine(p, ty, d), NEW q, Same(p, q)
    PROVE  Fine(q, ty, d)
<1>1. Placed(q, d)
  BY DEF Fine, Placed, Same
<1>2. \A t : /\ Kept(q, t) = Kept(p, t) /\ Has(q, t) = Has(p, t)
             /\ Returns(q, t) <=> Returns(p, t)
  BY DEF Same, Kept, Has, Returns
<1>3. q.panel.of = p.panel.of
  BY DEF Same
<1> QED BY <1>1, <1>2, <1>3 DEF Fine, Knows, Remembered

LEMMA FineMore ==
    ASSUME NEW p, NEW ty, NEW d, Fine(p, ty, d), NEW e, d \subseteq e
    PROVE  Fine(p, ty, e)
BY DEF Fine, Placed, Knows

LEMMA FineSwitch ==
    ASSUME NEW p, NEW ty, NEW d, Fine(p, ty, d), NEW t, t # "none"
    PROVE  LET q == SwitchTab(p, t)
           IN  /\ Fine(q, ty, d) /\ q.tab = t /\ q.list = p.list
               /\ t \notin Awaited => q.panel.of = t
<1> DEFINE q == SwitchTab(p, t)
<1>1. Whole(p) /\ Handed(p, t) /\ p.handoff = "none"
  BY DEF Fine, Placed, Handed
<1>2. /\ Whole(q) /\ q.tab = t /\ q.list = p.list /\ q.handoff = "none"
      /\ q.panel.of \in {"none", t} /\ (t \notin Awaited => q.panel.of = t)
  BY <1>1, SwitchIs
<1>3. ASSUME NEW u \in visits \ (Awaited \cup d)
      PROVE  Remembered(q, u, Moved(ty, u))
  <2>1. u # "none" /\ (p.tab = u <=> p.panel.of = u)
    BY DEF Fine, Placed
  <2>2. Remembered(p, u, Moved(ty, u))
    BY DEF Fine, Knows
  <2> QED BY <1>1, <2>1, <2>2, SwitchRemembers
<1> HIDE DEF q
<1> QED BY <1>2, <1>3 DEF q, Fine, Placed, Knows

(* A form mounted again in its place forgets what only the panel held. *)
LEMMA RemountRemembers ==
    ASSUME NEW p, Whole(p), p.handoff = "none", NEW t, NEW u, u \notin Awaited,
           NEW m, Remembered(p, u, m), u = t <=> p.panel.of = u
    PROVE  Remembered(FormOf(p, t), u, IF u = t THEN m \ Controls(t).dom ELSE m)
<1> DEFINE q == FormOf(p, t)
           c == Controls(u)
<1>1. /\ q.saved = p.saved /\ q.kept = p.kept /\ q.panel.of \in {p.panel.of, t}
      /\ u = t => q.panel.of = t /\ q.panel.opts = Kept(p, t)
  <2>1. u = t => t \notin Awaited
    OBVIOUS
  <2>2. t = "none" \/ p.handoff # t
    OBVIOUS
  <2>3. t = "none" => Shows(p, t, q)
    BY PlainFormIs DEF Awaited
  <2> QED BY <2>1, <2>2, <2>3, FormIs DEF Shows, Framed
<1>2. Kept(q, u) = Kept(p, u) /\ (Returns(q, u) <=> Returns(p, u))
  BY <1>1 DEF Kept, Returns
<1>3. /\ m \subseteq Offered(u) /\ Has(p, u) \ c.bare = m \ c.bare
      /\ p.panel.of = u \/ ~Returns(p, u) => Kept(p, u) = m \cap c.page
  BY DEF Remembered
<1>4. Apart(c) /\ Offered(u) = c.dom \cup c.page \cup c.bare
  BY ControlsAre DEF Offered
<1> SUFFICES Remembered(q, u, IF u = t THEN m \ c.dom ELSE m)
  OBVIOUS
<1> HIDE DEF q, c
<1>5. CASE u = t
  <2>1. Has(q, u) = m \cap c.page
    BY <1>1, <1>3, <1>5 DEF Has
  <2>2. (m \cap c.page) \ c.bare = (m \ c.dom) \ c.bare /\ (m \ c.dom) \cap c.page = m \cap c.page
    BY <1>3, <1>4 DEF Apart
  <2> QED BY <1>2, <1>3, <1>5, <2>1, <2>2 DEF Remembered, c
<1>6. CASE u # t
  <2>1. Has(q, u) = Has(p, u) /\ p.panel.of # u /\ q.panel.of # u
    BY <1>1, <1>2, <1>6 DEF Has
  <2> QED BY <1>2, <1>3, <1>6, <2>1 DEF Remembered, c
<1> QED BY <1>5, <1>6

(* ty2 is what is left of ty when t's form is mounted again. *)
Less(ty, ty2, t) ==
    /\ \A u : u # t => Moved(ty2, u) = Moved(ty, u)
    /\ t \notin Awaited => Moved(ty2, t) = Moved(ty, t) \ Controls(t).dom

LEMMA FineForm ==
    ASSUME NEW p, NEW ty, NEW d, Fine(p, ty, d), NEW t,
           NEW e, d \subseteq e, p.panel.of = t \/ p.tab = t \/ {p.tab, t} \subseteq e,
           NEW ty2, Less(ty, ty2, t)
    PROVE  LET q == FormOf(p, t)
           IN  Fine(q, ty2, e) /\ q.tab = p.tab /\ q.list = p.list
<1> DEFINE q == FormOf(p, t)
<1>1. /\ Whole(p) /\ p.handoff = "none"
      /\ p.tab \notin Awaited \cup d => p.panel.of = p.tab
      /\ p.panel.of \in {"none", p.tab} \cup Awaited \cup d
  BY DEF Fine, Placed
<1>2. /\ Whole(q) /\ q.tab = p.tab /\ q.list = p.list /\ q.handoff = "none"
      /\ q.panel.of \in {p.panel.of, t} /\ (t \notin Awaited => q.panel.of = t)
  BY <1>1, FormIs DEF Framed
<1>3. Placed(q, e)
  <2> HIDE DEF q
  <2> QED BY <1>1, <1>2 DEF Placed
<1>4. ASSUME NEW u \in visits \ (Awaited \cup e)
      PROVE  Remembered(q, u, Moved(ty2, u))
  <2>1. u # "none" /\ (u = t <=> p.panel.of = u)
    BY <1>1 DEF Fine
  <2>2. Remembered(p, u, Moved(ty, u))
    BY DEF Fine, Knows
  <2>3. Moved(ty2, u) = IF u = t THEN Moved(ty, u) \ Controls(t).dom ELSE Moved(ty, u)
    BY DEF Less
  <2> QED BY <1>1, <2>1, <2>2, <2>3, RemountRemembers
<1> HIDE DEF q
<1> QED BY <1>2, <1>3, <1>4 DEF q, Fine, Knows

LEMMA LessPanel == ASSUME NEW t PROVE Less(Held, Held \ PanelOnly(t), t)
<1> DEFINE ty == Held \ PanelOnly(t)
<1>1. \A k : k \in ty <=> k \in Held /\ ~(k[1] = t /\ k[2] \in Controls(t).dom)
  BY DEF PanelOnly, TypedIn, Held
<1> HIDE DEF ty
<1>2. ASSUME NEW u, u # t PROVE Moved(ty, u) = Moved(Held, u)
  BY <1>1, <1>2 DEF Moved
<1>3. Moved(ty, t) = Moved(Held, t) \ Controls(t).dom
  BY <1>1 DEF Moved
<1> QED BY <1>2, <1>3 DEF Less, ty

(* One pair of t comes or goes. *)
LEMMA ChangeMoves ==
    ASSUME NEW ty, \A k \in ty : k = <<k[1], k[2]>>, NEW t, NEW o,
           NEW f, \A k : k # <<t, o>> => (k \in f <=> k \in ty)
    PROVE  /\ \A k \in f : k = <<k[1], k[2]>>
           /\ \A u : u # t => Moved(f, u) = Moved(ty, u)
           /\ \A x : x # o => (x \in Moved(f, t) <=> x \in Moved(ty, t))
           /\ o \in Moved(f, t) <=> <<t, o>> \in f
           /\ o \in Moved(ty, t) <=> <<t, o>> \in ty
<1>1. <<t, o>>[1] = t /\ <<t, o>>[2] = o
  OBVIOUS
<1>2. \A k \in f : k \in ty \/ k = <<t, o>>
  OBVIOUS
<1>3. \A k \in f : k = <<k[1], k[2]>>
  BY <1>1, <1>2
<1>4. ASSUME NEW u, u # t PROVE Moved(f, u) = Moved(ty, u)
  BY <1>1, <1>4 DEF Moved
<1>5. ASSUME NEW ev, \A k \in ev : k = <<k[1], k[2]>>, NEW x
      PROVE  x \in Moved(ev, t) <=> <<t, x>> \in ev
  BY <1>5 DEF Moved
<1>6. \A x : (x \in Moved(f, t) <=> <<t, x>> \in f) /\ (x \in Moved(ty, t) <=> <<t, x>> \in ty)
  BY <1>3, <1>5
<1>7. \A x : x # o => (x \in Moved(f, t) <=> x \in Moved(ty, t))
  BY <1>6
<1> QED BY <1>3, <1>4, <1>6, <1>7

LEMMA FlipMoves ==
    ASSUME NEW ty, \A k \in ty : k = <<k[1], k[2]>>, NEW t, NEW o
    PROVE  LET f == Flip(ty, <<t, o>>)
           IN  /\ \A u : u # t => Moved(f, u) = Moved(ty, u)
               /\ Moved(f, t) = Flip(Moved(ty, t), o)
<1> DEFINE f == Flip(ty, <<t, o>>)
<1>1. /\ \A k : k # <<t, o>> => (k \in f <=> k \in ty)
      /\ <<t, o>> \in f <=> <<t, o>> \notin ty
  BY DEF Flip
<1> HIDE DEF f
<1>2. /\ \A u : u # t => Moved(f, u) = Moved(ty, u)
      /\ \A x : x # o => (x \in Moved(f, t) <=> x \in Moved(ty, t))
      /\ o \in Moved(f, t) <=> o \notin Moved(ty, t)
  BY <1>1, ChangeMoves
<1>3. Moved(f, t) = Flip(Moved(ty, t), o)
  BY <1>2 DEF Flip
<1> QED BY <1>2, <1>3 DEF f

-----------------------------------------------------------------------------
(* The invariant and its steps                                             *)

Arrived(p, t, q) ==
    IF t \in ListTabs THEN q \in Range(p.list[t])
    ELSE t \in {"cut", "speedchange"} \/ (p.panel.of = t /\ p.panel.path = q)

(* What was sent is where the form it was sent to finds it. *)
Targets == VideoTargets \cup (ImageTargets \ Awaited)
Waits ==
    \/ sent = NotSent
    \/ /\ sent.to \in Targets /\ page.tab = sent.to
       /\ sent.path \in Paths /\ Arrived(page, sent.to, sent.path)

Pairs(ty) == \A k \in ty : k = <<k[1], k[2]>>

(* A ranking asked for a list of paths. *)
Asking(r) == DOMAIN r = {"asked", "same"} /\ r.asked \in Seq(Paths)

TabsInv ==
    /\ Fine(page, Held, disturbed)
    /\ page.tab \in visits
    /\ Pairs(Held)
    /\ Waits
    /\ Asking(rank)

LEMMA StepIs ==
    ASSUME TabsInv, visits' = visits, Fine(page', Held', disturbed'), page'.tab \in visits,
           Pairs(Held'), Waits', Asking(rank')
    PROVE  TabsInv'
BY DEF TabsInv, Fine, Knows

LEMMA StillIs ==
    ASSUME TabsInv, Same(page, page'), UNCHANGED <<visits, Held, disturbed>>,
           Asking(rank'),
           sent' = NotSent \/ (sent' = sent /\ page'.list = page.list /\ page'.panel = page.panel)
    PROVE  TabsInv'
<1>1. Fine(page', Held', disturbed') /\ Pairs(Held')
  BY FineSame DEF TabsInv
<1>2. Waits' /\ page'.tab \in visits
  BY DEF TabsInv, Waits, Arrived, Same
<1> QED BY <1>1, <1>2, StepIs

LEMMA FieldsSame ==
    ASSUME NEW p, Whole(p)
    PROVE  /\ Same(p, p)
           /\ \A x : Same(p, [p EXCEPT !.pend = x]) /\ Same(p, [p EXCEPT !.range = x])
                     /\ Same(p, [p EXCEPT !.style = x]) /\ Same(p, [p EXCEPT !.reply = x])
                     /\ Same(p, [p EXCEPT !.boxes = x])
           /\ \A x, y : Same(p, [p EXCEPT !.panel.path = x, !.style = y])
           /\ \A x : Same(p, [p EXCEPT !.panel.path = x])
           /\ \A x : Same(p, [p EXCEPT !.panel.other = x])
           /\ \A t, x : x \in Nat \ {0} /\ (t = "imagesort" => Chosen(p.list[t], x)) =>
                Same(p, [p EXCEPT !.sel[t] = x])
<1> USE DEF Same, Whole, Fields, Form
<1>1. Same(p, p)
  OBVIOUS
<1>2. \A x : Same(p, [p EXCEPT !.pend = x]) /\ Same(p, [p EXCEPT !.range = x])
             /\ Same(p, [p EXCEPT !.style = x]) /\ Same(p, [p EXCEPT !.reply = x])
             /\ Same(p, [p EXCEPT !.boxes = x])
  OBVIOUS
<1>3. \A x, y : Same(p, [p EXCEPT !.panel.path = x, !.style = y])
  OBVIOUS
<1>4. \A x : Same(p, [p EXCEPT !.panel.path = x])
  OBVIOUS
<1>5. \A x : Same(p, [p EXCEPT !.panel.other = x])
  OBVIOUS
<1>6. \A t, x : x \in Nat \ {0} /\ (t = "imagesort" => Chosen(p.list[t], x)) =>
        Same(p, [p EXCEPT !.sel[t] = x])
  <2>1. ASSUME NEW t, NEW x \in Nat \ {0}, t = "imagesort" => Chosen(p.list[t], x)
        PROVE  Same(p, [p EXCEPT !.sel[t] = x])
    <3> DEFINE z == [p.sel EXCEPT ![t] = x]
    <3>1. z \in [ListTabs -> Nat \ {0}]
      OBVIOUS
    <3>2. Chosen(p.list["imagesort"], z["imagesort"])
      <4>1. "imagesort" \in ListTabs
        BY DEF ListTabs
      <4>2. z["imagesort"] = IF t = "imagesort" THEN x ELSE p.sel["imagesort"]
        BY <4>1
      <4> QED BY <2>1, <4>2
    <3>3. [p EXCEPT !.sel[t] = x] = [p EXCEPT !.sel = z]
      OBVIOUS
    <3> HIDE DEF z
    <3> QED BY <3>1, <3>2, <3>3
  <2> QED BY <2>1
<1> QED BY <1>1, <1>2, <1>3, <1>4, <1>5, <1>6

LEMMA Inside == ASSUME TabsInv PROVE Whole(page) /\ page.handoff = "none" /\ page.tab \in visits /\ "none" \notin visits
BY DEF TabsInv, Fine, Placed

LEMMA TypedSteps ==
    ASSUME TabsInv, NEW q, TypePath(q) \/ TypeOther(q)
    PROVE  TabsInv'
<1>1. Same(page, page')
  <2>1. TypePath(q) => \E y : page' = [page EXCEPT !.panel.path = q, !.style = y]
    BY DEF TypePath, Acts
  <2>2. TypeOther(q) => page' = [page EXCEPT !.panel.other = q]
    BY DEF TypeOther, Acts
  <2>3. \A y : Same(page, [page EXCEPT !.panel.path = q, !.style = y])
    BY Inside, FieldsSame
  <2>4. Same(page, [page EXCEPT !.panel.other = q])
    BY Inside, FieldsSame
  <2> QED BY <2>1, <2>2, <2>3, <2>4
<1>2. UNCHANGED <<visits, Held, disturbed>> /\ sent' = NotSent /\ rank' = rank
  BY DEF TypePath, TypeOther, Held
<1> QED BY <1>1, <1>2, StillIs DEF TabsInv

LEMMA GlobalSteps ==
    ASSUME TabsInv, NEW bar, NEW lines, SetGlobal(bar, lines)
    PROVE  TabsInv'
<1>1. DOMAIN [page.gi EXCEPT ![bar] = lines] = Bars3
  BY Inside DEF Whole, Bars3
<1>2. Untouched(page, UpdateGlobalInputs(page, [page.gi EXCEPT ![bar] = lines]))
  BY <1>1, Inside, GlobalIs
<1>3. Same(page, page')
  BY <1>2 DEF SetGlobal, Acts, Untouched, Framed, Same
<1>4. UNCHANGED <<visits, Held, disturbed>> /\ sent' = NotSent /\ rank' = rank
  BY DEF SetGlobal, Held
<1> QED BY <1>3, <1>4, StillIs DEF TabsInv

LEMMA SlideSteps == ASSUME TabsInv, NEW range, Slide(range) PROVE TabsInv'
<1>1. page' = [page EXCEPT !.range = range]
  BY DEF Slide, Acts
<1>2. Same(page, page')
  BY <1>1, Inside, FieldsSame
<1>3. page'.list = page.list /\ page'.panel = page.panel
  BY <1>1, Inside DEF Whole, Fields
<1>4. UNCHANGED <<visits, rank, sent, Held, disturbed>>
  BY DEF Slide, Held
<1> QED BY <1>2, <1>3, <1>4, StillIs DEF TabsInv

LEMMA RunSteps == ASSUME TabsInv, Run PROVE TabsInv'
<1>1. Same(page, page')
  BY Inside, FieldsSame DEF Run, Acts
<1>2. UNCHANGED <<visits, Held, disturbed>> /\ sent' = NotSent /\ rank' = rank
  BY DEF Run, Held
<1> QED BY <1>1, <1>2, StillIs DEF TabsInv

LEMMA AskSteps ==
    ASSUME TabsInv, (\E t, i : SelectRow(t, i)) \/ (\E t : PickAsk(t)) \/ RankAsk \/ RankFails
    PROVE  TabsInv'
<1>1. Same(page, page')
  <2>1. (\E t, i : SelectRow(t, i)) =>
          \E t, i : /\ i \in Nat \ {0} /\ (t = "imagesort" => Chosen(page.list[t], i))
                    /\ page' = [page EXCEPT !.sel[t] = i]
    <3>1. ASSUME NEW t, NEW i, SelectRow(t, i)
          PROVE  i \in Nat \ {0} /\ Chosen(page.list[t], i) /\ page' = [page EXCEPT !.sel[t] = i]
      <4>1. page.list[t] \in Seq(Paths) /\ i \in DOMAIN page.list[t] /\ page' = [page EXCEPT !.sel[t] = i]
        BY <3>1, Inside DEF SelectRow, Whole, Acts
      <4>2. i \in 1..Len(page.list[t]) /\ Len(page.list[t]) \in Nat
        BY <4>1, LenProperties
      <4> QED BY <4>1, <4>2 DEF Chosen, AtLeast
    <3> QED BY <3>1
  <2>2. (\E t : PickAsk(t)) => \E x : page' = [page EXCEPT !.pend = x]
    BY DEF PickAsk, Acts
  <2>3. RankAsk \/ RankFails => page' = page
    BY DEF RankAsk, RankFails, Acts
  <2>4. \A t, i : i \in Nat \ {0} /\ (t = "imagesort" => Chosen(page.list[t], i)) =>
          Same(page, [page EXCEPT !.sel[t] = i])
    BY Inside, FieldsSame
  <2>5. \A x : Same(page, [page EXCEPT !.pend = x])
    BY Inside, FieldsSame
  <2>6. Same(page, page)
    BY Inside, FieldsSame
  <2>7. (\E t, i : SelectRow(t, i)) => Same(page, page')
    <3>1. ASSUME NEW t, NEW i, i \in Nat \ {0} /\ (t = "imagesort" => Chosen(page.list[t], i)),
                 page' = [page EXCEPT !.sel[t] = i]
          PROVE  Same(page, page')
      <4>1. Same(page, [page EXCEPT !.sel[t] = i])
        BY <2>4, <3>1
      <4> QED BY <3>1, <4>1
    <3> QED BY <2>1, <3>1
  <2>8. (\E t : PickAsk(t)) => Same(page, page')
    BY <2>2, <2>5
  <2>9. RankAsk \/ RankFails => Same(page, page')
    BY <2>3, <2>6
  <2> QED BY <2>7, <2>8, <2>9
<1>2. page'.list = page.list /\ page'.panel = page.panel
  BY Inside DEF SelectRow, PickAsk, RankAsk, RankFails, Acts, Whole, Fields
<1>3. UNCHANGED <<visits, sent, Held, disturbed>>
  BY DEF SelectRow, PickAsk, RankAsk, RankFails, Held
<1>4. Asking(rank')
  <2>1. page.list["imagesort"] \in Seq(Paths)
    BY Inside DEF Whole, ListTabs
  <2>2. rank' = rank \/ rank' = Idle \/ rank' = [asked |-> page.list["imagesort"], same |-> TRUE]
    BY DEF SelectRow, PickAsk, RankAsk, RankFails
  <2>3. <<>> \in Seq(Paths)
    OBVIOUS
  <2>4. Asking(rank)
    BY DEF TabsInv
  <2>5. rank' = Idle => Asking(rank')
    BY <2>3 DEF Idle, Asking
  <2>6. rank' = [asked |-> page.list["imagesort"], same |-> TRUE] => Asking(rank')
    BY <2>1 DEF Asking
  <2> QED BY <2>1, <2>2, <2>3, <2>4, <2>5, <2>6
<1> QED BY <1>1, <1>2, <1>3, <1>4, StillIs

LEMMA SwitchSteps == ASSUME TabsInv, NEW t, Switch(t) PROVE TabsInv'
<1>1. Fine(SwitchTab(page, t), Held, disturbed) /\ SwitchTab(page, t).tab = t
  BY Inside, FineSwitch DEF TabsInv, Switch
<1>2. page' = SwitchTab(page, t) /\ t \in visits /\ sent' = NotSent
      /\ UNCHANGED <<visits, rank, Held, disturbed>>
  BY DEF Switch, Acts, Held
<1> QED BY <1>1, <1>2, StepIs DEF TabsInv, Waits

LEMMA StyleSteps == ASSUME TabsInv, NEW q, SendStyle(q) PROVE TabsInv'
<1> DEFINE p == [page EXCEPT !.style = q]
<1>1. Fine(p, Held, disturbed)
  BY Inside, FieldsSame, FineSame DEF TabsInv
<1>2. page' = SwitchTab(p, "styletransfer") /\ "styletransfer" \in visits /\ sent' = NotSent
      /\ UNCHANGED <<visits, rank, Held, disturbed>>
  BY DEF SendStyle, Acts, SendStyleRef, Held
<1> HIDE DEF p
<1>3. Fine(page', Held, disturbed) /\ page'.tab = "styletransfer"
  BY <1>1, <1>2, FineSwitch
<1> QED BY <1>2, <1>3, StepIs DEF TabsInv, Waits

-----------------------------------------------------------------------------
(* Sending                                                                 *)

LEMMA AppendedIs ==
    ASSUME NEW p, Whole(p), NEW t \in ListTabs, NEW q \in Paths
    PROVE  LET a == [p EXCEPT !.list[t] = Append(@, q)]
           IN  Same(p, a) /\ q \in Range(a.list[t])
<1>1. p.list[t] \in Seq(Paths) /\ DOMAIN p.list = ListTabs /\ "list" \in DOMAIN p
  BY DEF Whole, Fields
<1> DEFINE s == Append(p.list[t], q)
<1>2. s \in Seq(Paths) /\ q \in Range(s) /\ Len(p.list[t]) \in Nat /\ Len(s) = Len(p.list[t]) + 1
  <2>1. /\ s \in Seq(Paths) /\ Len(s) \in DOMAIN s /\ s[Len(s)] = q
        /\ Len(p.list[t]) \in Nat /\ Len(s) = Len(p.list[t]) + 1
    BY <1>1
  <2> HIDE DEF s
  <2> QED BY <2>1 DEF Range
<1>3. [p EXCEPT !.list[t] = Append(@, q)] = [p EXCEPT !.list[t] = s]
  OBVIOUS
<1> HIDE DEF s
<1>4. [p EXCEPT !.list[t] = s].list[t] = s
  BY <1>1
<1>5. t = "imagesort" => Chosen(s, p.sel[t])
  BY <1>2 DEF Whole, Chosen, AtLeast
<1>6. Same(p, [p EXCEPT !.list[t] = s])
  BY <1>2, <1>5 DEF Same, Whole, Fields, Form
<1> QED BY <1>2, <1>3, <1>4, <1>6

LEMMA ListedIs ==
    ASSUME NEW p, Whole(p), NEW t \in ListTabs, NEW q \in Paths
    PROVE  Same(p, Listed(p, t, q)) /\ q \in Range(Listed(p, t, q).list[t])
<1>1. Same(p, p)
  BY FieldsSame
<1>2. CASE q \in Range(p.list[t])
  BY <1>1, <1>2 DEF Listed
<1>3. CASE q \notin Range(p.list[t])
  BY <1>3, AppendedIs DEF Listed
<1> QED BY <1>2, <1>3

LEMMA ShownIs ==
    ASSUME NEW p, NEW ty, NEW d, Fine(p, ty, d), NEW t, t \notin Awaited \cup {"none"}, NEW q
    PROVE  LET s == Shown(p, t, q)
           IN  /\ Fine(s, ty, d) /\ s.tab = t
               /\ t # "speedchange" => s.panel.of = t /\ s.panel.path = q
<1> DEFINE w == SwitchTab(p, t)
<1>1. Fine(w, ty, d) /\ w.tab = t /\ w.panel.of = t
  BY FineSwitch
<1>2. Shown(p, t, q) = IF t = "speedchange" THEN w ELSE FieldSet(w, t, q)
  BY DEF Shown
<1> HIDE DEF w
<1>3. Whole(w)
  BY <1>1 DEF Fine, Placed
<1>4. FieldSet(w, t, q) = [w EXCEPT !.panel.path = q]
  BY <1>1 DEF FieldSet
<1>5. Same(w, [w EXCEPT !.panel.path = q])
  BY <1>3, FieldsSame
<1>6. [w EXCEPT !.panel.path = q].panel.path = q
  BY <1>3 DEF Whole, Form, Fields
<1>7. Fine([w EXCEPT !.panel.path = q], ty, d)
  BY <1>1, <1>5, FineSame
<1> QED BY <1>1, <1>2, <1>4, <1>5, <1>6, <1>7 DEF Same

(* A list that has the path, then the switch. *)
LEMMA SentToList ==
    ASSUME NEW p, NEW ty, NEW d, Fine(p, ty, d), NEW t \in ListTabs, NEW q,
           NEW r, Same(p, r), q \in Range(r.list[t])
    PROVE  LET w == SwitchTab(r, t)
           IN  Fine(w, ty, d) /\ w.tab = t /\ w.panel.of = t /\ q \in Range(w.list[t])
<1>1. Fine(r, ty, d) /\ t # "none" /\ t \notin Awaited
  BY FineSame DEF ListTabs, Awaited
<1> QED BY <1>1, FineSwitch

LEMMA VideoSteps == ASSUME TabsInv, NEW t, NEW q \in Videos, SendVideo(t, q) PROVE TabsInv'
<1>1. /\ t \in VideoTargets \cap visits /\ page' = SendPoolPathTo(page, t, q)
      /\ sent' = [to |-> t, path |-> q]
      /\ Held' = IF t \in {"styletransfer", "facemorph", "withoutbg"} THEN Held \ PanelOnly(t) ELSE Held
      /\ UNCHANGED <<visits, rank, disturbed>>
  BY DEF SendVideo, Acts, Remounted, Held
<1>2. /\ Fine(page, Held, disturbed) /\ Whole(page) /\ q \in Paths /\ t # "none"
      /\ Pairs(Held) /\ Asking(rank)
  BY <1>1, Inside DEF TabsInv, Paths
<1>3. SUFFICES Fine(page', Held', disturbed) /\ page'.tab = t /\ Arrived(page', t, q)
  <2>1. Pairs(Held')
    BY <1>1, <1>2 DEF Pairs
  <2>2. Waits'
    BY <1>1, <1>2, <1>3 DEF Waits, Targets
  <2> QED BY <1>1, <1>2, <1>3, <2>1, <2>2, StepIs
<1>4. CASE t = "multi"
  <2> DEFINE r == [page EXCEPT !.list[t] = Append(@, q)]
  <2>1. page' = SwitchTab(r, t) /\ Held' = Held /\ t \in ListTabs
    BY <1>1, <1>4 DEF SendPoolPathTo, ListTabs
  <2>2. Same(page, r) /\ q \in Range(r.list[t])
    BY <1>2, <2>1, AppendedIs
  <2> HIDE DEF r
  <2> QED BY <1>2, <2>1, <2>2, SentToList DEF Arrived
<1>5. CASE t = "cut"
  <2> DEFINE g == UpdateGlobalInputs(page, [page.gi EXCEPT !.video = <<q>>])
             r == [g EXCEPT !.range = Forgotten(@)]
  <2>1. page' = SwitchTab(r, t) /\ Held' = Held
    BY <1>1, <1>5 DEF SendPoolPathTo
  <2>2. DOMAIN [page.gi EXCEPT !.video = <<q>>] = Bars3
    BY <1>2 DEF Whole, Bars3
  <2>3. Same(page, g) /\ Whole(g)
    BY <1>2, <2>2, GlobalIs DEF Untouched, Framed, Same
  <2> HIDE DEF g
  <2>4. Same(g, r)
    BY <2>3, FieldsSame
  <2> HIDE DEF r
  <2>5. Fine(r, Held, disturbed)
    BY <1>2, <2>3, <2>4, FineSame
  <2>6. Fine(page', Held, disturbed) /\ page'.tab = t
    BY <1>2, <2>1, <2>5, FineSwitch
  <2> QED BY <1>5, <2>1, <2>6 DEF Arrived, ListTabs
<1>6. CASE t \in {"styletransfer", "facemorph", "withoutbg"}
  <2> DEFINE w == SwitchTab(Listed(page, t, q), t)
  <2>1. page' = FormOf(w, t) /\ Held' = Held \ PanelOnly(t) /\ t \in ListTabs
    BY <1>1, <1>6 DEF SendPoolPathTo, ListTabs
  <2>2. Fine(w, Held, disturbed) /\ w.tab = t /\ w.panel.of = t /\ q \in Range(w.list[t])
    BY <1>2, <2>1, ListedIs, SentToList
  <2> HIDE DEF w
  <2>3. Fine(page', Held', disturbed) /\ page'.tab = t /\ page'.list = w.list
    BY <2>1, <2>2, LessPanel, FineForm
  <2> QED BY <2>1, <2>2, <2>3 DEF Arrived
<1>7. CASE t = "agent"
  <2> DEFINE r == Listed(page, t, q)
  <2>1. page' = SwitchTab(r, t) /\ Held' = Held /\ t \in ListTabs
    BY <1>1, <1>7 DEF SendPoolPathTo, ListTabs
  <2>2. Same(page, r) /\ q \in Range(r.list[t])
    BY <1>2, <2>1, ListedIs
  <2> HIDE DEF r
  <2> QED BY <1>2, <2>1, <2>2, SentToList DEF Arrived
<1>8. CASE t \notin {"multi", "cut", "styletransfer", "facemorph", "withoutbg", "agent"}
  <2>1. page' = Shown(page, t, q) /\ Held' = Held
    BY <1>1, <1>8 DEF SendPoolPathTo
  <2>2. t \notin Awaited \cup {"none"} /\ t \notin ListTabs
    BY <1>1, <1>2, <1>8 DEF VideoTargets, Awaited, ListTabs
  <2> QED BY <1>2, <2>1, <2>2, ShownIs DEF Arrived
<1> QED BY <1>4, <1>5, <1>6, <1>7, <1>8

LEMMA KeptSwitch ==
    ASSUME NEW p, NEW ty, NEW d, Fine(p, ty, d), NEW t \in Awaited, NEW o \in Controls(t).page
    PROVE  LET w == SwitchTab([p EXCEPT !.kept = @ \cup {<<t, o>>}], t)
           IN  Fine(w, ty, d) /\ w.tab = t
<1> DEFINE r == [p EXCEPT !.kept = @ \cup {<<t, o>>}]
<1>1. Whole(p)
  BY DEF Fine, Placed
<1>2. /\ r.tab = p.tab /\ r.panel = p.panel /\ r.saved = p.saved /\ r.handoff = p.handoff
      /\ r.kept = p.kept \cup {<<t, o>>} /\ r.gi = p.gi /\ r.list = p.list /\ r.sel = p.sel
      /\ DOMAIN r = Fields
  BY <1>1 DEF Whole, Fields
<1> HIDE DEF r
<1>3. Whole(r)
  BY <1>1, <1>2 DEF Whole
<1>4. Placed(r, d)
  BY <1>2, <1>3 DEF Fine, Placed
<1>5. \A u : u # t => Kept(r, u) = Kept(p, u) /\ Has(r, u) = Has(p, u)
  <2>1. \A k : k[1] # t => (k \in r.kept <=> k \in p.kept)
    BY <1>2
  <2>2. \A u : u # t => Kept(r, u) = Kept(p, u)
    BY <2>1 DEF Kept
  <2> QED BY <1>2, <2>2 DEF Has, Returns
<1>6. Fine(r, ty, d)
  BY <1>2, <1>4, <1>5 DEF Fine, Knows, Remembered, Returns
<1>7. t # "none"
  BY DEF Awaited
<1> QED BY <1>6, <1>7, FineSwitch DEF r

LEMMA StillSteps == ASSUME TabsInv, NEW t, NEW q \in Images, SendImage(t, q) PROVE TabsInv'
<1>1. /\ t \in ImageTargets \cap visits /\ page' = SendImagePathTo(page, t, q)
      /\ sent' = IF t \in {"cut", "zoompan"} THEN NotSent ELSE [to |-> t, path |-> q]
      /\ UNCHANGED <<visits, rank, Held, disturbed>>
  BY DEF SendImage, Acts, Held
<1>2. /\ Fine(page, Held, disturbed) /\ Whole(page) /\ q \in Paths /\ t # "none"
      /\ Pairs(Held) /\ Asking(rank)
  BY <1>1, Inside DEF TabsInv, Paths
<1>3. SUFFICES /\ Fine(page', Held, disturbed) /\ page'.tab = t
               /\ t \notin Awaited => Arrived(page', t, q)
  <2>1. Waits'
    BY <1>1, <1>2, <1>3 DEF Waits, Targets, Awaited
  <2> QED BY <1>1, <1>2, <1>3, <2>1, StepIs
<1>4. CASE t \in {"facemorph", "withoutbg", "styletransfer", "agent", "imagesort"}
  <2> DEFINE r == Listed(page, t, q)
  <2>1. page' = SwitchTab(r, t) /\ t \in ListTabs
    BY <1>1, <1>4 DEF SendImagePathTo, ListTabs
  <2>2. Same(page, r) /\ q \in Range(r.list[t])
    BY <1>2, <2>1, ListedIs
  <2> HIDE DEF r
  <2>3. Fine(page', Held, disturbed) /\ page'.tab = t /\ q \in Range(page'.list[t])
    <3> DEFINE w == SwitchTab(r, t)
    <3>1. t \in ListTabs /\ page' = w
      BY <2>1
    <3>2. Fine(page, Held, disturbed)
      BY <1>2
    <3>3. Fine(w, Held, disturbed) /\ w.tab = t /\ w.panel.of = t /\ q \in Range(w.list[t])
      BY <2>2, <3>1, <3>2, SentToList
    <3> HIDE DEF w
    <3> QED BY <3>1, <3>3
  <2>4. Arrived(page', t, q)
    BY <2>1, <2>3 DEF Arrived
  <2> QED BY <2>3, <2>4
<1>5. CASE t \in Awaited
  <2>1. \E o \in Controls(t).page : page' = SwitchTab([page EXCEPT !.kept = @ \cup {<<t, o>>}], t)
    BY <1>1, <1>5, ControlsAre DEF SendImagePathTo, Awaited
  <2> QED BY <1>2, <1>5, <2>1, KeptSwitch
<1>6. CASE t \notin Awaited \cup {"facemorph", "withoutbg", "styletransfer", "agent", "imagesort"}
  <2> DEFINE w == Shown(page, t, q)
             gi == [w.gi EXCEPT !.image = <<q>>]
  <2>1. page' = IF t = "deepdream" THEN UpdateGlobalInputs(w, gi) ELSE w
    BY <1>1, <1>6 DEF SendImagePathTo, Awaited
  <2>2. t # "speedchange" /\ t \notin ListTabs
    BY <1>1, <1>6 DEF ImageTargets, ListTabs
  <2>3. Fine(w, Held, disturbed) /\ w.tab = t /\ w.panel.of = t /\ w.panel.path = q
    BY <1>2, <1>6, <2>2, ShownIs
  <2> HIDE DEF w
  <2>4. Whole(w) /\ DOMAIN gi = Bars3
    BY <2>3 DEF Fine, Placed, Whole, Bars3
  <2> HIDE DEF gi
  <2>5. Untouched(w, UpdateGlobalInputs(w, gi))
    BY <2>4, GlobalIs
  <2>6. Same(w, page') /\ page'.panel = w.panel
    BY <2>1, <2>4, <2>5, FieldsSame DEF Untouched, Framed, Same
  <2>7. Fine(page', Held, disturbed)
    BY <2>3, <2>6, FineSame
  <2> QED BY <2>2, <2>3, <2>6, <2>7 DEF Same, Arrived
<1> QED BY <1>4, <1>5, <1>6

-----------------------------------------------------------------------------
(* Lists                                                                   *)

LEMMA PartsOf ==
    ASSUME NEW S, NEW s \in Seq(S), NEW i \in Int, NEW j \in Int, 1 <= i, j <= Len(s)
    PROVE  SubSeq(s, i, j) \in Seq(S)
<1>1. \A k \in i..j : s[k] \in S
  BY ElementOfSeq, LenProperties
<1> QED BY <1>1, SubSeqProperties, LenProperties

LEMMA RemovedIs ==
    ASSUME NEW S, NEW s \in Seq(S), NEW i \in DOMAIN s
    PROVE  RemoveAt(s, i) \in Seq(S) /\ Len(RemoveAt(s, i)) = Len(s) - 1
<1>1. Len(s) \in Nat /\ i \in 1..Len(s)
  BY LenProperties
<1> DEFINE a == SubSeq(s, 1, i - 1)
           b == SubSeq(s, i + 1, Len(s))
<1>2. a \in Seq(S) /\ b \in Seq(S)
  BY <1>1, PartsOf
<1>3. Len(a) = i - 1
  <2>1. \A k \in 1..(i - 1) : s[k] \in S
    BY <1>1, ElementOfSeq
  <2> QED BY <1>1, <2>1, SubSeqProperties
<1>4. Len(b) = Len(s) - i
  <2>1. \A k \in (i + 1)..Len(s) : s[k] \in S
    BY <1>1, ElementOfSeq
  <2> QED BY <1>1, <2>1, SubSeqProperties
<1>5. RemoveAt(s, i) = a \o b
  BY DEF RemoveAt
<1> HIDE DEF a, b
<1>6. a \o b \in Seq(S) /\ Len(a \o b) = Len(a) + Len(b)
  BY <1>2, ConcatProperties
<1> QED BY <1>1, <1>3, <1>4, <1>5, <1>6

LEMMA MovedToIs ==
    ASSUME NEW S, NEW s \in Seq(S), NEW i \in DOMAIN s, NEW j \in DOMAIN s
    PROVE  MovedTo(s, i, j) \in Seq(S) /\ Len(MovedTo(s, i, j)) = Len(s)
<1> DEFINE r == RemoveAt(s, i)
           a == SubSeq(r, 1, j - 1)
           b == SubSeq(r, j, Len(r))
<1>1. Len(s) \in Nat /\ i \in 1..Len(s) /\ j \in 1..Len(s) /\ s[i] \in S
  BY LenProperties, ElementOfSeq
<1>2. r \in Seq(S) /\ Len(r) = Len(s) - 1
  BY RemovedIs
<1>3. MovedTo(s, i, j) = a \o <<s[i]>> \o b
  BY DEF MovedTo, InsertAt
<1> HIDE DEF r
<1>4. a \in Seq(S) /\ Len(a) = j - 1 /\ b \in Seq(S) /\ Len(b) = Len(s) - j
  BY <1>1, <1>2, PartsOf
<1>5. <<s[i]>> \in Seq(S) /\ Len(<<s[i]>>) = 1
  BY <1>1
<1> DEFINE h == a \o <<s[i]>>
<1> HIDE DEF a, b
<1>6. h \in Seq(S) /\ Len(h) = j
  BY <1>1, <1>4, <1>5, ConcatProperties
<1> HIDE DEF h
<1>7. h \o b \in Seq(S) /\ Len(h \o b) = Len(h) + Len(b)
  <2>1. h \in Seq(S) /\ b \in Seq(S)
    BY <1>4, <1>6
  <2> QED BY <2>1, ConcatProperties
<1> QED BY <1>1, <1>3, <1>4, <1>6, <1>7 DEF h

LEMMA SelectedSame ==
    ASSUME NEW p, Whole(p), NEW t \in ListTabs, NEW s \in Seq(Paths), NEW i \in Nat \ {0},
           t = "imagesort" => Chosen(s, i)
    PROVE  Same(p, Selected(p, t, s, i))
BY DEF Selected, Same, Whole, Fields, Form

LEMMA EditIs ==
    ASSUME TabsInv, NEW t \in ListTabs, NEW p, Same(page, p), Edit(t, p), Asking(rank')
    PROVE  TabsInv'
<1>1. /\ page.panel.of = t /\ page' = Redrawn(p, t) /\ sent' = NotSent
      /\ Held' = IF t = "multi" THEN Held ELSE Held \ PanelOnly(t)
      /\ UNCHANGED <<visits, disturbed>>
  BY DEF Edit, Acts, Held
<1>2. Fine(p, Held, disturbed) /\ p.panel.of = t /\ p.tab = page.tab
  BY <1>1, FineSame DEF TabsInv, Same
<1>3. Fine(page', Held', disturbed) /\ page'.tab = page.tab
  <2>1. CASE t = "multi"
    BY <1>1, <1>2, <2>1 DEF Redrawn
  <2>2. CASE t # "multi"
    BY <1>1, <1>2, <2>2, LessPanel, FineForm DEF Redrawn
  <2> QED BY <2>1, <2>2
<1>4. Pairs(Held') /\ Waits'
  BY <1>1 DEF TabsInv, Pairs, Waits
<1> QED BY <1>1, <1>3, <1>4, StepIs DEF TabsInv

LEMMA ListIs ==
    ASSUME TabsInv, NEW t \in ListTabs
    PROVE  /\ page.list[t] \in Seq(Paths) /\ Len(page.list[t]) \in Nat /\ page.sel[t] \in Nat \ {0}
           /\ t = "imagesort" => Chosen(page.list[t], page.sel[t])
           /\ Asking(rank) /\ Whole(page)
<1>1. page.list[t] \in Seq(Paths) /\ page.sel[t] \in Nat \ {0} /\ Whole(page)
      /\ (t = "imagesort" => Chosen(page.list[t], page.sel[t]))
  BY Inside DEF Whole
<1>2. Asking(rank)
  BY DEF TabsInv
<1> QED BY <1>1, <1>2, LenProperties

LEMMA RowSteps ==
    ASSUME TabsInv, NEW t \in ListTabs, NEW i, NEW d \in {-1, 1},
           RemoveRow(t, i) \/ SwapRow(t, i, d)
    PROVE  TabsInv'
<1> DEFINE s == page.list[t]
           sel == page.sel[t]
<1>1. s \in Seq(Paths) /\ Asking(rank) /\ Whole(page) /\ sel \in Nat \ {0} /\ Len(s) \in Nat
  BY ListIs
<1>2. CASE RemoveRow(t, i)
  <2> DEFINE r == RemoveAt(s, i)
             k == IF sel > Len(r) THEN AtLeast(Len(r), 1) ELSE sel
  <2>1. i \in DOMAIN s /\ Edit(t, RemoveListed(page, t, i)) /\ rank' = rank
    BY <1>2 DEF RemoveRow
  <2>2. RemoveListed(page, t, i) = Selected(page, t, r, k)
    BY DEF RemoveListed
  <2>3. r \in Seq(Paths) /\ Len(r) \in Nat
    BY <1>1, <2>1, RemovedIs, LenProperties
  <2> HIDE DEF s, sel, r
  <2>4. k \in Nat \ {0} /\ Chosen(r, k)
    BY <1>1, <2>3 DEF AtLeast, Chosen
  <2> HIDE DEF k
  <2>5. Same(page, RemoveListed(page, t, i))
    BY <1>1, <2>2, <2>3, <2>4, SelectedSame
  <2> QED BY <1>1, <2>1, <2>5, EditIs
<1>3. CASE SwapRow(t, i, d)
  <2> DEFINE k == IF t = "multi" THEN sel ELSE i + d
             w == MovedTo(s, i, i + d)
  <2>1. /\ i \in DOMAIN s /\ i + d \in DOMAIN s /\ rank' = rank
        /\ Edit(t, Selected(page, t, w, k))
    BY <1>3 DEF SwapRow
  <2>2. w \in Seq(Paths) /\ Len(w) = Len(s)
    BY <1>1, <2>1, MovedToIs
  <2> HIDE DEF s, w
  <2>3. k \in Nat \ {0} /\ (t = "imagesort" => Chosen(w, k))
    BY <1>1, <2>1, <2>2 DEF Chosen, AtLeast
  <2> HIDE DEF k
  <2>4. Same(page, Selected(page, t, w, k))
    BY <1>1, <2>2, <2>3, SelectedSame
  <2> QED BY <1>1, <2>1, <2>4, EditIs
<1> QED BY <1>2, <1>3

LEMMA KeySteps == ASSUME TabsInv, NEW t \in ListTabs, NEW d \in {-1, 1}, KeyMove(t, d) PROVE TabsInv'
<1> DEFINE s == page.list[t]
           i == Clamped(s, page.sel[t])
           w == MovedTo(s, i, i + d)
<1>1. /\ i + d \in DOMAIN s /\ rank' = rank /\ s # <<>>
      /\ Edit(t, Selected(page, t, w, i + d))
  BY DEF KeyMove
<1>2. /\ s \in Seq(Paths) /\ Asking(rank) /\ Whole(page) /\ Len(s) \in Nat
      /\ page.sel[t] \in Nat \ {0}
  BY ListIs
<1>3. i \in DOMAIN s /\ i + d \in 1..Len(s)
  <2> HIDE DEF s
  <2> QED BY <1>1, <1>2 DEF Clamped
<1>4. w \in Seq(Paths) /\ Len(w) = Len(s)
  BY <1>1, <1>2, <1>3, MovedToIs
<1> HIDE DEF s, i, w
<1>5. i + d \in Nat \ {0} /\ Chosen(w, i + d)
  BY <1>2, <1>3, <1>4 DEF Chosen, AtLeast
<1>6. Same(page, Selected(page, t, w, i + d))
  BY <1>2, <1>4, <1>5, SelectedSame
<1> QED BY <1>1, <1>2, <1>6, EditIs

LEMMA EndSteps == ASSUME TabsInv, NEW first, ToEnd(first) PROVE TabsInv'
<1> DEFINE t == "imagesort"
           s == page.list[t]
           i == page.sel[t]
           to == IF first THEN 1 ELSE Len(s)
           w == MovedTo(s, i, to)
<1>1. s # <<>> /\ rank' = rank /\ Edit(t, Selected(page, t, w, to)) /\ t \in ListTabs
  BY DEF ToEnd, ListTabs
<1>2. /\ s \in Seq(Paths) /\ Asking(rank) /\ Whole(page) /\ Len(s) \in Nat
      /\ Chosen(s, i)
  BY <1>1, ListIs
<1> HIDE DEF s, i, t
<1>3. i \in DOMAIN s /\ to \in 1..Len(s)
  BY <1>1, <1>2 DEF Chosen, AtLeast
<1>4. w \in Seq(Paths) /\ Len(w) = Len(s)
  BY <1>2, <1>3, MovedToIs
<1> HIDE DEF to, w
<1>5. to \in Nat \ {0} /\ Chosen(w, to)
  BY <1>2, <1>3, <1>4 DEF Chosen, AtLeast
<1>6. Same(page, Selected(page, t, w, to))
  BY <1>1, <1>2, <1>4, <1>5, SelectedSame
<1> QED BY <1>1, <1>2, <1>6, EditIs

LEMMA ClearSteps == ASSUME TabsInv, NEW t, ClearList(t) PROVE TabsInv'
<1> DEFINE k == IF t = "imagesort" THEN 1 ELSE page.sel[t]
<1>1. t \in ListTabs /\ Edit(t, Selected(page, t, <<>>, k)) /\ (rank' = rank \/ rank' = Outdated(rank))
  BY DEF ClearList
<1>2. Asking(rank) /\ Whole(page) /\ page.sel[t] \in Nat \ {0}
  BY <1>1, ListIs
<1>3. k \in Nat \ {0} /\ <<>> \in Seq(Paths) /\ (t = "imagesort" => Chosen(<<>>, k))
  BY <1>2 DEF Chosen, AtLeast
<1> HIDE DEF k
<1>4. Same(page, Selected(page, t, <<>>, k))
  BY <1>1, <1>2, <1>3, SelectedSame
<1>5. Asking(rank')
  BY <1>1, <1>2 DEF Asking, Outdated
<1> QED BY <1>1, <1>2, <1>4, <1>5, EditIs

-----------------------------------------------------------------------------
(* Answers                                                                 *)

(* Cut or Zoompan is mounted, or asked for, and nothing else. *)
LEMMA FineAwaited ==
    ASSUME NEW p, NEW ty, NEW d, Fine(p, ty, d), NEW t \in Awaited,
           NEW e, d \subseteq e, p.panel.of = t \/ p.tab = t \/ {p.tab, t} \subseteq e,
           NEW q, Framed(p, q), q.handoff = p.handoff, q.panel.of \in {p.panel.of, t}
    PROVE  Fine(q, ty, e)
<1>1. Placed(q, e)
  BY DEF Fine, Placed, Framed
<1>2. ASSUME NEW u \in visits \ (Awaited \cup e)
      PROVE  Remembered(q, u, Moved(ty, u))
  <2>1. u # t /\ p.panel.of # u
    BY DEF Fine, Placed
  <2>2. /\ Kept(q, u) = Kept(p, u) /\ Has(q, u) = Has(p, u)
        /\ (Returns(q, u) <=> Returns(p, u)) /\ q.panel.of # u
    BY <2>1 DEF Framed, Kept, Has, Returns
  <2>3. Remembered(p, u, Moved(ty, u))
    BY DEF Fine, Knows
  <2> QED BY <2>2, <2>3 DEF Remembered
<1> QED BY <1>1, <1>2 DEF Fine, Knows

LEMMA OverIs ==
    ASSUME NEW t
    PROVE  disturbed \subseteq Over(t) /\ (page.tab = t \/ {page.tab, t} \subseteq Over(t))
BY DEF Over

LEMMA ComesIs ==
    ASSUME TabsInv, NEW r, NEW p, NEW t, Comes(r, p, t), Fine(p, Held', Over(t)), p.tab \in visits,
           Pairs(Held'), Asking(rank')
    PROVE  TabsInv'
<1>1. page' = [p EXCEPT !.pend = @ \ {r}] /\ disturbed' = Over(t) /\ sent' = NotSent /\ visits' = visits
  BY DEF Comes
<1>2. Whole(p)
  BY DEF Fine, Placed
<1>3. Same(p, page')
  <2>1. \A x : Same(p, [p EXCEPT !.pend = x])
    BY <1>2, FieldsSame
  <2> QED BY <1>1, <2>1
<1>4. Fine(page', Held', disturbed') /\ page'.tab \in visits
  BY <1>1, <1>3, FineSame, Inside DEF Same
<1> QED BY <1>1, <1>4, StepIs DEF Waits

LEMMA AwaitedAnswers ==
    ASSUME TabsInv, NEW r, NEW found, CutAnswer(r, found) \/ ZoompanAnswer(r, found)
    PROVE  TabsInv'
<1>1. Fine(page, Held, disturbed) /\ Pairs(Held) /\ Asking(rank) /\ Whole(page)
  BY Inside DEF TabsInv
<1>2. ASSUME NEW t \in Awaited, NEW p, Same(page, p), Comes(r, Mount(p, t, NoPath), t),
             UNCHANGED <<rank, Held>>
      PROVE  TabsInv'
  <2>1. Fine(p, Held, disturbed) /\ Whole(p) /\ p.tab = page.tab
    BY <1>1, <1>2, FineSame DEF Same
  <2> DEFINE q == Mount(p, t, NoPath)
  <2>2. Framed(p, q) /\ q.handoff = p.handoff /\ q.panel.of = t
    BY <2>1, MountIs DEF Shows
  <2> HIDE DEF q
  <2>3. Fine(q, Held, Over(t))
    BY <2>1, <2>2, OverIs, FineAwaited
  <2>4. q.tab = page.tab
    BY <2>1, <2>2 DEF Framed
  <2> QED BY <1>1, <1>2, <2>3, <2>4, Inside, ComesIs DEF q
<1>3. CASE CutAnswer(r, found)
  <2>1. PICK x : Comes(r, Mount([page EXCEPT !.range = x], "cut", NoPath), "cut")
    BY <1>3 DEF CutAnswer, CutForm
  <2>2. Same(page, [page EXCEPT !.range = x])
    BY <1>1, FieldsSame
  <2>3. UNCHANGED <<rank, Held>>
    BY <1>3 DEF CutAnswer, Held
  <2> QED BY <1>2, <2>1, <2>2, <2>3 DEF Awaited
<1>4. CASE ZoompanAnswer(r, found)
  <2>1. PICK x : Comes(r, Mount([page EXCEPT !.boxes = x], "zoompan", NoPath), "zoompan")
    BY <1>4 DEF ZoompanAnswer, ZoompanForm
  <2>2. Same(page, [page EXCEPT !.boxes = x])
    BY <1>1, FieldsSame
  <2>3. UNCHANGED <<rank, Held>>
    BY <1>4 DEF ZoompanAnswer, Held
  <2> QED BY <1>2, <2>1, <2>2, <2>3 DEF Awaited
<1> QED BY <1>3, <1>4

LEMMA TimerAnswers == ASSUME TabsInv, NEW r, TimerFires(r) PROVE TabsInv'
<1>1. Fine(page, Held, disturbed) /\ Pairs(Held) /\ Asking(rank) /\ Whole(page)
  BY Inside DEF TabsInv
<1>2. PICK t \in Awaited : Comes(r, FormOf(page, t), t)
  <2>1. FormOf(page, "cut") = RenderCut(page) /\ FormOf(page, "zoompan") = RenderZoompan(page)
    BY Zenon DEF FormOf
  <2> QED BY <2>1 DEF TimerFires, Awaited
<1> DEFINE q == FormOf(page, t)
<1>3. Framed(page, q) /\ q.handoff = page.handoff /\ q.panel.of \in {page.panel.of, t}
  BY <1>1, AwaitedFormIs
<1> HIDE DEF q
<1>4. Fine(q, Held, Over(t))
  BY <1>1, <1>3, OverIs, FineAwaited
<1>5. q.tab = page.tab /\ UNCHANGED <<rank, Held>>
  BY <1>3 DEF Framed, TimerFires, Held
<1> QED BY <1>1, <1>2, <1>4, <1>5, Inside, ComesIs DEF q

LEMMA ProbeAnswers == ASSUME TabsInv, NEW r, NEW found, ProbeAnswer(r, found) PROVE TabsInv'
<1>1. Fine(page, Held, disturbed) /\ Pairs(Held) /\ Asking(rank) /\ Whole(page)
  BY Inside DEF TabsInv
<1>2. PICK x : Comes(r, [page EXCEPT !.range = x], page.tab)
  BY DEF ProbeAnswer
<1>3. Same(page, [page EXCEPT !.range = x])
  BY <1>1, FieldsSame
<1>4. Fine([page EXCEPT !.range = x], Held, Over(page.tab))
  BY <1>1, <1>3, FineSame DEF Over
<1>5. UNCHANGED <<rank, Held>> /\ [page EXCEPT !.range = x].tab = page.tab
  BY <1>3 DEF ProbeAnswer, Same, Held
<1> QED BY <1>1, <1>2, <1>4, <1>5, Inside, ComesIs

LEMMA PickedIs ==
    ASSUME NEW t, NEW q \in Paths, Whole(page)
    PROVE  \E w : Same(page, w) /\ Picked(t, q) = FormOf(w, t)
<1> DEFINE l == Listed(page, t, q)
           w == IF t = "imagesort" /\ l # page THEN [l EXCEPT !.sel[t] = Len(l.list[t])] ELSE l
<1>1. Picked(t, q) = FormOf(w, t)
  BY DEF Picked
<1>2. Same(page, l)
  <2>1. CASE t \in ListTabs
    BY <2>1, ListedIs
  <2>2. CASE t \notin ListTabs
    <3>1. DOMAIN page = Fields /\ DOMAIN page.list = ListTabs
      BY DEF Whole
    <3>2. [page EXCEPT !.list[t] = Append(@, q)] = [page EXCEPT !.list = [page.list EXCEPT ![t] = Append(@, q)]]
      OBVIOUS
    <3>3. [page.list EXCEPT ![t] = Append(@, q)] = page.list
      BY <2>2 DEF Whole
    <3>4. Same(page, [page EXCEPT !.list = page.list])
      BY DEF Same, Whole, Fields, Form
    <3>5. l = page \/ l = [page EXCEPT !.list = page.list]
      BY <3>2, <3>3 DEF Listed
    <3> HIDE DEF l
    <3> QED BY <3>4, <3>5, FieldsSame
  <2> QED BY <2>1, <2>2
<1>3. CASE t = "imagesort" /\ l # page
  <2> DEFINE s == l.list[t]
  <2>1. t \in ListTabs /\ Whole(l) /\ q \in Range(s)
    BY <1>2, <1>3, ListedIs DEF ListTabs, Same
  <2> HIDE DEF l
  <2>2. s \in Seq(Paths) /\ Len(s) \in Nat /\ DOMAIN s = 1..Len(s)
    BY <2>1, LenProperties DEF Whole
  <2> HIDE DEF s
  <2>3. Len(s) # 0
    BY <2>1, <2>2 DEF Range
  <2>4. Len(s) \in Nat \ {0} /\ Chosen(s, Len(s))
    BY <2>2, <2>3 DEF Chosen, AtLeast
  <2>5. Same(l, [l EXCEPT !.sel[t] = Len(s)])
    BY <2>1, <2>4, FieldsSame DEF s
  <2>6. Same(page, w)
    BY <1>2, <1>3, <2>5 DEF Same, s
  <2> QED BY <1>1, <2>6
<1>4. CASE ~(t = "imagesort" /\ l # page)
  BY <1>1, <1>2, <1>4
<1> QED BY <1>3, <1>4

LEMMA AgentIs == ASSUME NEW p PROVE AgentForm(p) = FormOf(p, "agent")
BY Zenon DEF FormOf

LEMMA SortIs == ASSUME NEW p PROVE ImageSortForm(p) = FormOf(p, "imagesort")
BY Zenon DEF FormOf

LEMMA Unpaneled == ASSUME NEW t, Pairs(Held) PROVE Pairs(Held \ PanelOnly(t)) /\ Pairs(Held \ TypedIn(t))
BY DEF Pairs

LEMMA PickAnswers == ASSUME TabsInv, NEW r, NEW q \in Paths, PickAnswer(r, q) PROVE TabsInv'
<1> DEFINE t == r.of
<1>1. Fine(page, Held, disturbed) /\ Pairs(Held) /\ Asking(rank) /\ Whole(page)
  BY Inside DEF TabsInv
<1>2. Comes(r, Picked(t, q), t) /\ Held' = Held \ PanelOnly(t) /\ rank' = rank
  BY DEF PickAnswer, Held
<1> HIDE DEF t
<1>3. PICK w : Same(page, w) /\ Picked(t, q) = FormOf(w, t)
  BY <1>1, PickedIs
<1>4. Fine(w, Held, disturbed) /\ w.tab = page.tab
  BY <1>1, <1>3, FineSame DEF Same
<1>5. Fine(FormOf(w, t), Held', Over(t)) /\ FormOf(w, t).tab = page.tab
  BY <1>2, <1>4, LessPanel, OverIs, FineForm
<1> QED BY <1>1, <1>2, <1>3, <1>5, Unpaneled, Inside, ComesIs

LEMMA AgentAnswers == ASSUME TabsInv, NEW r, AgentAnswer(r) PROVE TabsInv'
<1> DEFINE f == FormOf(page, "agent")
<1>1. Fine(page, Held, disturbed) /\ Pairs(Held) /\ Asking(rank) /\ Whole(page)
  BY Inside DEF TabsInv
<1>2. Comes(r, [f EXCEPT !.reply = TRUE], "agent") /\ Held' = Held \ PanelOnly("agent") /\ rank' = rank
  BY AgentIs DEF AgentAnswer, Held
<1>a. Less(Held, Held', "agent")
  BY <1>2, LessPanel
<1>b. disturbed \subseteq Over("agent") /\ (page.tab = "agent" \/ {page.tab, "agent"} \subseteq Over("agent"))
  BY OverIs
<1>3. Fine(f, Held', Over("agent")) /\ f.tab = page.tab
  BY <1>1, <1>a, <1>b, FineForm
<1> HIDE DEF f
<1>4. Same(f, [f EXCEPT !.reply = TRUE])
  BY <1>3, FieldsSame DEF Fine, Placed
<1>5. Fine([f EXCEPT !.reply = TRUE], Held', Over("agent")) /\ [f EXCEPT !.reply = TRUE].tab = page.tab
  BY <1>3, <1>4, FineSame DEF Same
<1> QED BY <1>1, <1>2, <1>5, Unpaneled, Inside, ComesIs

LEMMA AgentSteps == ASSUME TabsInv, AgentSend \/ ClearHistory PROVE TabsInv'
<1> DEFINE f == FormOf(page, "agent")
<1>1. Fine(page, Held, disturbed) /\ Pairs(Held) /\ Asking(rank) /\ Whole(page) /\ page.tab \in visits
  BY Inside DEF TabsInv
<1>2. /\ page.panel.of = "agent" /\ Held' = Held \ PanelOnly("agent") /\ sent' = NotSent
      /\ UNCHANGED <<visits, rank, disturbed>>
  BY DEF AgentSend, ClearHistory, Held
<1>3. Fine(f, Held', disturbed) /\ f.tab = page.tab
  BY <1>1, <1>2, LessPanel, FineForm
<1>4. (\E x : page' = [f EXCEPT !.pend = x]) \/ page' = [f EXCEPT !.reply = FALSE]
  <2>1. AgentForm(page) = f
    BY AgentIs
  <2> HIDE DEF f
  <2> QED BY <2>1 DEF AgentSend, ClearHistory, Acts
<1> HIDE DEF f
<1>5. Same(f, page')
  <2>1. Whole(f)
    BY <1>3 DEF Fine, Placed
  <2>2. \A x : Same(f, [f EXCEPT !.pend = x]) /\ Same(f, [f EXCEPT !.reply = x])
    BY <2>1, FieldsSame
  <2> QED BY <1>4, <2>2
<1>6. Fine(page', Held', disturbed') /\ page'.tab \in visits
  BY <1>1, <1>2, <1>3, <1>5, FineSame DEF Same
<1> QED BY <1>1, <1>2, <1>6, Unpaneled, StepIs DEF Waits

LEMMA QuickSteps == ASSUME TabsInv, QuickCopy PROVE TabsInv'
<1> DEFINE t == "quick"
           r == [page EXCEPT !.kept = {k \in @ : k[1] # t}]
           q == Mount(r, t, NoPath)
<1>1. Fine(page, Held, disturbed) /\ Pairs(Held) /\ Asking(rank) /\ Whole(page) /\ page.tab \in visits
  BY Inside DEF TabsInv
<1>2. /\ page.panel.of = t /\ page' = q /\ Held' = Held \ TypedIn(t) /\ sent' = NotSent
      /\ UNCHANGED <<visits, rank, disturbed>>
  BY DEF QuickCopy, QuickForm, Acts, Held
<1>3. /\ Whole(r) /\ r.tab = page.tab /\ r.saved = page.saved /\ r.handoff = page.handoff
      /\ r.kept = {k \in page.kept : k[1] # t}
  BY <1>1 DEF Whole, Fields
<1> HIDE DEF r
<1>4. Shows(r, t, q)
  BY <1>3, MountIs
<1> HIDE DEF q
<1>5. Kept(q, t) = {} /\ \A u : u # t => Kept(q, u) = Kept(page, u)
  BY <1>3, <1>4 DEF Kept, Shows, Framed
<1>6. q.panel.of = t /\ q.panel.opts = {} /\ q.tab = page.tab /\ q.saved = page.saved
      /\ q.handoff = page.handoff /\ Whole(q)
  BY <1>3, <1>4 DEF Shows, Framed, Kept
<1>7. Moved(Held', t) = {} /\ \A u : u # t => Moved(Held', u) = Moved(Held, u)
  BY <1>2 DEF Moved, TypedIn, Held
<1>8. Placed(q, disturbed)
  BY <1>1, <1>2, <1>6 DEF Fine, Placed
<1>9. ASSUME NEW u \in visits \ (Awaited \cup disturbed)
      PROVE  Remembered(q, u, Moved(Held', u))
  <2>1. Remembered(page, u, Moved(Held, u))
    BY <1>1 DEF Fine, Knows
  <2>2. CASE u = t
    BY <1>5, <1>6, <1>7, <2>2 DEF Remembered, Has
  <2>3. CASE u # t
    <3>1. /\ Has(q, u) = Has(page, u) /\ (Returns(q, u) <=> Returns(page, u))
          /\ page.panel.of # u /\ q.panel.of # u
      BY <1>2, <1>5, <1>6, <2>3 DEF Has, Returns
    <3> QED BY <1>5, <1>7, <2>1, <2>3, <3>1 DEF Remembered
  <2> QED BY <2>2, <2>3
<1>10. Fine(page', Held', disturbed') /\ page'.tab \in visits
  BY <1>1, <1>2, <1>6, <1>8, <1>9 DEF Fine, Knows
<1> QED BY <1>1, <1>2, <1>10, Unpaneled, StepIs DEF Waits

(* A control of the mounted form is moved. *)
LEMMA ToggleOwn ==
    ASSUME TabsInv, NEW t, t = page.panel.of, t # "none", NEW o \in Offered(t)
    PROVE  LET own == [page EXCEPT !.panel.opts = Flip(@, o),
                                   !.kept = IF o \in Controls(t).page THEN Flip(@, <<t, o>>) ELSE @]
           IN  /\ Fine(own, IF o \in page.panel.opts THEN Held \ {<<t, o>>} ELSE Held \cup {<<t, o>>}, disturbed)
               /\ own.tab = page.tab
               /\ own.panel.of = t
<1> DEFINE c == Controls(t)
           k == IF o \in c.page THEN Flip(page.kept, <<t, o>>) ELSE page.kept
           opts == Flip(page.panel.opts, o)
           ty == IF o \in page.panel.opts THEN Held \ {<<t, o>>} ELSE Held \cup {<<t, o>>}
           own == [page EXCEPT !.panel.opts = Flip(@, o),
                               !.kept = IF o \in Controls(t).page THEN Flip(@, <<t, o>>) ELSE @]
<1>1. Fine(page, Held, disturbed) /\ Pairs(Held) /\ Whole(page)
  BY Inside DEF TabsInv
<1>2. /\ own.tab = page.tab /\ own.saved = page.saved /\ own.handoff = page.handoff
      /\ own.kept = k /\ own.panel.of = t /\ own.panel.opts = opts
      /\ DOMAIN own.panel = DOMAIN page.panel
      /\ DOMAIN own = Fields /\ own.gi = page.gi /\ own.list = page.list /\ own.sel = page.sel
  BY <1>1 DEF Whole, Form, Fields
<1>3. Apart(c) /\ Offered(t) = c.dom \cup c.page \cup c.bare
  BY ControlsAre DEF Offered
<1>4. \A x : Kept(page, x) = Moved(page.kept, x) /\ Kept(own, x) = Moved(k, x)
  BY <1>2 DEF Kept, Moved
<1> HIDE DEF own
<1> DEFINE g == Flip(page.kept, <<t, o>>)
<1>5. Moved(g, t) = Flip(Moved(page.kept, t), o) /\ \A u : u # t => Moved(g, u) = Moved(page.kept, u)
  <2>1. \A x \in page.kept : x = <<x[1], x[2]>>
    BY <1>1 DEF Whole
  <2> QED BY <2>1, FlipMoves
<1>6. /\ \A u : u # t => Moved(ty, u) = Moved(Held, u)
      /\ Moved(ty, t) = IF o \in page.panel.opts THEN Moved(Held, t) \ {o} ELSE Moved(Held, t) \cup {o}
  <2>1. /\ \A x \in Held : x = <<x[1], x[2]>>
        /\ \A x : x # <<t, o>> => (x \in ty <=> x \in Held)
        /\ <<t, o>> \in ty <=> o \notin page.panel.opts
    BY <1>1 DEF Pairs
  <2> HIDE DEF ty
  <2>2. /\ \A u : u # t => Moved(ty, u) = Moved(Held, u)
        /\ \A x : x # o => (x \in Moved(ty, t) <=> x \in Moved(Held, t))
        /\ o \in Moved(ty, t) <=> o \notin page.panel.opts
    BY <2>1, ChangeMoves
  <2> QED BY <2>2
<1>7. k = IF o \in c.page THEN g ELSE page.kept
  OBVIOUS
<1> HIDE DEF g
<1>8. \A u : u # t => Kept(own, u) = Kept(page, u) /\ Moved(ty, u) = Moved(Held, u)
  BY <1>4, <1>5, <1>6, <1>7
<1>9. Moved(ty, t) = IF o \in page.panel.opts THEN Moved(Held, t) \ {o} ELSE Moved(Held, t) \cup {o}
  BY <1>6
<1>10. Kept(own, t) = IF o \in c.page THEN Flip(Kept(page, t), o) ELSE Kept(page, t)
  BY <1>4, <1>5, <1>7
<1>11. opts \subseteq Offered(t)
  BY <1>1 DEF Flip, Whole, Form
<1>12. \A x \in k : x = <<x[1], x[2]>> /\ x[2] \in Controls(x[1]).page
  BY <1>1 DEF Flip, Whole
<1> HIDE DEF k, opts, ty
<1>13. Whole(own)
  BY <1>1, <1>2, <1>11, <1>12 DEF Whole, Form
<1>14. Placed(own, disturbed)
  BY <1>1, <1>2, <1>13 DEF Fine, Placed
<1>15. ASSUME NEW u \in visits \ (Awaited \cup disturbed)
       PROVE  Remembered(own, u, Moved(ty, u))
  <2>1. Remembered(page, u, Moved(Held, u))
    BY <1>1 DEF Fine, Knows
  <2>2. CASE u = t
    <3> DEFINE m == Moved(Held, t)
               x == page.panel.opts
    <3>1. m \subseteq Offered(t) /\ Kept(page, t) = m \cap c.page /\ x \ c.bare = m \ c.bare
      BY <2>1, <2>2 DEF Remembered, Has
    <3>2. Has(own, u) = Flip(x, o)
      BY <1>2, <2>2 DEF Has, opts
    <3> HIDE DEF m, x, c
    <3> DEFINE n == IF o \in x THEN m \ {o} ELSE m \cup {o}
    <3>3. n \subseteq Offered(t)
      BY <3>1
    <3>4. Flip(x, o) \ c.bare = n \ c.bare
      BY <3>1 DEF Flip
    <3>5. Kept(own, t) = n \cap c.page
      BY <1>3, <1>10, <3>1 DEF Flip, Apart
    <3>6. Moved(ty, t) = n
      BY <1>9 DEF m, x
    <3> HIDE DEF n
    <3> QED BY <2>2, <3>2, <3>3, <3>4, <3>5, <3>6 DEF Remembered, c
  <2>3. CASE u # t
    <3>1. /\ Has(own, u) = Has(page, u) /\ Kept(own, u) = Kept(page, u)
          /\ (Returns(own, u) <=> Returns(page, u)) /\ own.panel.of = page.panel.of
      BY <1>2, <1>8, <2>3 DEF Has, Returns
    <3> QED BY <1>8, <2>1, <2>3, <3>1 DEF Remembered
  <2> QED BY <2>2, <2>3
<1> QED BY <1>1, <1>2, <1>14, <1>15 DEF Fine, Knows, own, ty

LEMMA ToggleSteps == ASSUME TabsInv, NEW o, Toggle(o) PROVE TabsInv'
<1> DEFINE t == page.panel.of
           own == [page EXCEPT !.panel.opts = Flip(@, o),
                               !.kept = IF o \in Controls(t).page THEN Flip(@, <<t, o>>) ELSE @]
           ty == IF o \in page.panel.opts THEN Held \ {<<t, o>>} ELSE Held \cup {<<t, o>>}
<1>1. Pairs(Held) /\ Asking(rank) /\ page.tab \in visits
  BY Inside DEF TabsInv
<1>2. /\ t # "none" /\ o \in Offered(t) /\ Held' = ty /\ sent' = NotSent
      /\ UNCHANGED <<visits, rank, disturbed>>
      /\ \/ page' = own
         \/ t = "cut" /\ page' = RenderCut(own)
         \/ t = "zoompan" /\ page' = RenderZoompan(own)
  BY DEF Toggle, Acts, Offered, Held
<1>3. Fine(own, ty, disturbed) /\ own.tab = page.tab /\ own.panel.of = t
  BY <1>2, ToggleOwn
<1> HIDE DEF own
<1>4. Pairs(ty)
  BY <1>1 DEF Pairs
<1> HIDE DEF t, ty
<1>5. Fine(page', ty, disturbed) /\ page'.tab = page.tab
  <2>1. CASE page' = own
    BY <1>3, <2>1
  <2>2. CASE t \in Awaited /\ page' = FormOf(own, t)
    <3> DEFINE q == FormOf(own, t)
    <3>1. Framed(own, q) /\ q.handoff = own.handoff /\ q.panel.of \in {own.panel.of, t}
      BY <1>3, <2>2, AwaitedFormIs DEF Fine, Placed
    <3> HIDE DEF q
    <3>2. Fine(q, ty, disturbed) /\ q.tab = own.tab
      BY <1>3, <2>2, <3>1, FineAwaited DEF Framed
    <3> QED BY <1>3, <2>2, <3>2 DEF q
  <2>3. FormOf(own, "cut") = RenderCut(own) /\ FormOf(own, "zoompan") = RenderZoompan(own)
    BY Zenon DEF FormOf
  <2> QED BY <1>2, <2>1, <2>2, <2>3 DEF Awaited
<1> QED BY <1>1, <1>2, <1>4, <1>5, StepIs DEF Waits

LEMMA WarmSteps == ASSUME TabsInv, NEW t, ToggleWarm(t) PROVE TabsInv'
<1> DEFINE k == Flip(page.kept, <<t, "warm">>)
<1>1. Fine(page, Held, disturbed) /\ Pairs(Held) /\ Asking(rank) /\ Whole(page) /\ page.tab \in visits
  BY Inside DEF TabsInv
<1>2. /\ page' = [page EXCEPT !.kept = k] /\ t \in {"deepdream", "fastsam", "styletransfer"}
      /\ disturbed' = disturbed \cup {t} /\ sent' = NotSent /\ UNCHANGED <<visits, rank, Held>>
  BY DEF ToggleWarm, Acts, Held
<1>3. \A x \in k : x = <<x[1], x[2]>> /\ x[2] \in Controls(x[1]).page
  <2>1. "warm" \in Controls(t).page
    BY <1>2, ControlsAre
  <2>2. \A x \in page.kept : x = <<x[1], x[2]>> /\ x[2] \in Controls(x[1]).page
    BY <1>1 DEF Whole
  <2> QED BY <2>1, <2>2 DEF Flip
<1>4. \A u : u # t => Moved(k, u) = Moved(page.kept, u)
  <2>1. \A x \in page.kept : x = <<x[1], x[2]>>
    BY <1>1 DEF Whole
  <2> QED BY <2>1, FlipMoves
<1> HIDE DEF k
<1>5. /\ page'.tab = page.tab /\ page'.saved = page.saved /\ page'.handoff = page.handoff
      /\ page'.kept = k /\ page'.panel = page.panel
      /\ DOMAIN page' = Fields /\ page'.gi = page.gi /\ page'.list = page.list /\ page'.sel = page.sel
  BY <1>1, <1>2 DEF Whole, Fields
<1>6. Whole(page')
  BY <1>1, <1>3, <1>5 DEF Whole
<1>7. Placed(page', disturbed')
  BY <1>1, <1>2, <1>5, <1>6 DEF Fine, Placed
<1>8. \A u : u # t => /\ Kept(page', u) = Kept(page, u) /\ Has(page', u) = Has(page, u)
                      /\ (Returns(page', u) <=> Returns(page, u))
  <2>1. \A u : Kept(page', u) = Moved(k, u) /\ Kept(page, u) = Moved(page.kept, u)
    BY <1>5 DEF Kept, Moved
  <2>2. \A u : u # t => Kept(page', u) = Kept(page, u)
    BY <1>4, <2>1
  <2> QED BY <1>5, <2>2 DEF Has, Returns
<1>9. Fine(page', Held', disturbed')
  BY <1>1, <1>2, <1>5, <1>7, <1>8 DEF Fine, Knows, Remembered
<1> QED BY <1>1, <1>2, <1>5, <1>9, StepIs DEF Waits

(* The agent's answer is the prompt of the tab that it goes to. *)
LEMMA HandoffSteps == ASSUME TabsInv, NEW t, Handoff(t) PROVE TabsInv'
<1> DEFINE r == [page EXCEPT !.handoff = t]
           q == SwitchTab(r, t)
           k == <<t, "prompt">>
<1>1. Fine(page, Held, disturbed) /\ Pairs(Held) /\ Asking(rank) /\ Whole(page) /\ page.tab \in visits
  BY Inside DEF TabsInv
<1>2. /\ t \in visits /\ t \in {"img2img", "txt2img"} /\ page' = q /\ sent' = NotSent
      /\ page.panel.of = "agent"
      /\ UNCHANGED <<visits, rank, disturbed>>
  BY DEF Handoff, Acts
<1>a. Held' = IF ComesBack(t) /\ k \notin Held THEN Held ELSE Held \cup {k}
  BY DEF Handoff, Held
<1>3. /\ Whole(r) /\ r.tab = page.tab /\ r.saved = page.saved /\ r.handoff = t
      /\ r.kept = page.kept /\ r.panel = page.panel
  BY <1>1 DEF Whole, Fields
<1> HIDE DEF r
<1>4. Handed(r, t) /\ t # "none" /\ t \notin Awaited
  BY <1>2, <1>3 DEF Handed, Awaited
<1>5. Whole(q) /\ q.tab = t /\ q.handoff = "none" /\ q.panel.of = t
  BY <1>3, <1>4, SwitchIs
<1> HIDE DEF k
<1>b. /\ \A x \in Held : x = <<x[1], x[2]>>
      /\ \A x : x # k => (x \in Held' <=> x \in Held)
  BY <1>1, <1>a DEF Pairs
<1>c. /\ \A x \in Held' : x = <<x[1], x[2]>>
      /\ \A u : u # t => Moved(Held', u) = Moved(Held, u)
      /\ \A x : x # "prompt" => (x \in Moved(Held', t) <=> x \in Moved(Held, t))
      /\ "prompt" \in Moved(Held', t) <=> k \in Held'
      /\ "prompt" \in Moved(Held, t) <=> k \in Held
  <2> DEFINE f == Held'
             g == Held
  <2>1. /\ \A x \in g : x = <<x[1], x[2]>>
        /\ \A x : x # <<t, "prompt">> => (x \in f <=> x \in g)
    BY <1>b DEF k
  <2> HIDE DEF f, g
  <2>2. /\ \A x \in f : x = <<x[1], x[2]>>
        /\ \A u : u # t => Moved(f, u) = Moved(g, u)
        /\ \A x : x # "prompt" => (x \in Moved(f, t) <=> x \in Moved(g, t))
        /\ "prompt" \in Moved(f, t) <=> <<t, "prompt">> \in f
        /\ "prompt" \in Moved(g, t) <=> <<t, "prompt">> \in g
    BY <2>1, ChangeMoves
  <2> QED BY <2>2 DEF f, g, k
<1>6. /\ Pairs(Held') /\ \A u : u # t => Moved(Held', u) = Moved(Held, u)
      /\ \A x : x # "prompt" => (x \in Moved(Held', t) <=> x \in Moved(Held, t))
      /\ "prompt" \in Moved(Held', t) <=> k \in Held'
      /\ "prompt" \in Moved(Held, t) <=> k \in Held
  BY <1>c DEF Pairs
<1>7. ASSUME NEW u \in visits \ (Awaited \cup disturbed), u # t
      PROVE  Remembered(q, u, Moved(Held', u))
  <2>1. u # "none" /\ (r.tab = u <=> r.panel.of = u)
    BY <1>1, <1>3 DEF Fine, Placed
  <2>2. Remembered(page, u, Moved(Held, u))
    BY <1>1 DEF Fine, Knows
  <2>3. Remembered(r, u, Moved(Held', u))
    BY <1>3, <1>6, <1>7, <2>2 DEF Remembered, Has, Returns, Kept
  <2> QED BY <1>3, <1>4, <1>7, <2>1, <2>3, SwitchRemembers
<1>8. ASSUME t \notin disturbed PROVE Remembered(q, t, Moved(Held', t))
  <2> DEFINE l == Left(r, t)
             m == Moved(Held, t)
  <2>1. Controls(t).page = {} /\ "prompt" \in Offered(t)
    BY <1>2, ControlsAre DEF Offered
  <2>2. Kept(q, t) = {} /\ Kept(r, t) = {} /\ Kept(page, t) = {}
    <3>1. ASSUME NEW p, Whole(p) PROVE Kept(p, t) = {}
      BY <2>1, <3>1 DEF Kept, Whole
    <3> QED BY <1>1, <1>3, <1>5, <3>1
  <2>3. q.panel.opts = IF Returns(l, t) THEN l.saved[t].opts ELSE Kept(r, t) \cup {"prompt"}
    BY <1>2, <1>3, HandedIs
  <2>4. page.tab # t
    BY <1>1, <1>2, <1>4, <1>8 DEF Fine, Placed
  <2>5. /\ Returns(l, t) <=> ComesBack(t)
        /\ ComesBack(t) => l.saved[t] = page.saved[t]
    BY <1>2, <1>3, <2>4, LeftIs, CapturedIs DEF Returns, ComesBack
  <2>6. m \subseteq Offered(t) /\ Has(page, t) \ Controls(t).bare = m \ Controls(t).bare
    BY <1>1, <1>2, <1>4, <1>8 DEF Fine, Knows, Remembered
  <2>7. Controls(t).bare = {}
    BY <1>2 DEF Controls, Img2ImgControls, Txt2ImgControls
  <2>8. Returns(page, t) <=> ComesBack(t)
    BY <1>2 DEF Returns, ComesBack
  <2>9. Has(page, t) = IF ComesBack(t) THEN page.saved[t].opts ELSE {}
    BY <1>2, <2>2, <2>8 DEF Has
  <2> HIDE DEF q, l, m
  <2>10. m = IF ComesBack(t) THEN page.saved[t].opts ELSE {}
    BY <2>6, <2>7, <2>9
  <2>11. q.panel.opts = Moved(Held', t)
    <3>1. CASE ComesBack(t)
      <4>1. Moved(Held', t) = m
        BY <1>6, <1>a, <3>1 DEF m
      <4> QED BY <2>3, <2>5, <2>10, <3>1, <4>1
    <3>2. CASE ~ComesBack(t)
      <4>1. Moved(Held', t) = m \cup {"prompt"}
        BY <1>6, <1>a, <3>2 DEF m
      <4> QED BY <2>2, <2>3, <2>5, <2>10, <3>2, <4>1
    <3> QED BY <3>1, <3>2
  <2>12. q.panel.opts \subseteq Offered(t)
    BY <1>5 DEF Whole, Form
  <2> QED BY <1>5, <2>1, <2>2, <2>11, <2>12 DEF Remembered, Has
<1>9. Placed(q, disturbed)
  BY <1>5 DEF Placed
<1> HIDE DEF q
<1>10. Fine(page', Held', disturbed')
  BY <1>1, <1>2, <1>7, <1>8, <1>9 DEF Fine, Knows
<1> QED BY <1>1, <1>2, <1>5, <1>6, <1>10, StepIs DEF Waits

LEMMA OrdersAre ==
    ASSUME NEW S, NEW s \in Seq(S), NEW order \in SetToSeqs(Range(s))
    PROVE  order \in Seq(S)
<1> DEFINE R == Range(s)
<1>1. DOMAIN s = 1..Len(s) /\ Len(s) \in Nat /\ IsFiniteSet(1..Len(s))
  BY LenProperties, FS_Interval
<1>2. s \in Surjection(1..Len(s), R)
  BY <1>1 DEF Surjection, Range
<1>3. IsFiniteSet(R) /\ R \subseteq S
  <2>1. IsFiniteSet(R)
    BY <1>1, <1>2, FS_Surjection
  <2> QED BY <1>1, <2>1, ElementOfSeq DEF Range
<1> HIDE DEF R
<1>4. Cardinality(R) \in Nat
  BY <1>3, FS_CardinalityType
<1>5. order \in [1..Cardinality(R) -> R]
  BY DEF SetToSeqs, R
<1> QED BY <1>3, <1>4, <1>5, SeqDef

LEMMA RankSteps ==
    ASSUME TabsInv, NEW order \in SetToSeqs(Range(rank.asked)), RankAnswer(order)
    PROVE  TabsInv'
<1> DEFINE t == "imagesort"
           q == Lookup(IF rank.same THEN page.list[t] ELSE rank.asked, page.sel[t])
           i == IF q \in Range(order) THEN CHOOSE j \in DOMAIN order : order[j] = q ELSE 1
           w == Selected(page, t, order, i)
<1>1. Fine(page, Held, disturbed) /\ Pairs(Held) /\ Asking(rank) /\ Whole(page) /\ page.tab \in visits
  BY Inside DEF TabsInv
<1>2. /\ page' = FormOf(w, t) /\ rank' = Idle /\ Held' = Held \ PanelOnly(t)
      /\ disturbed' = Over(t) /\ sent' = NotSent /\ visits' = visits
  BY SortIs DEF RankAnswer, Ranked, Held
<1>3. order \in Seq(Paths) /\ Len(order) \in Nat /\ DOMAIN order = 1..Len(order)
  BY <1>1, OrdersAre, LenProperties DEF Asking
<1> HIDE DEF q
<1>4. i \in Nat \ {0} /\ Chosen(order, i)
  <2>1. CASE q \in Range(order)
    <3>1. \E j \in DOMAIN order : order[j] = q
      BY <2>1 DEF Range
    <3>2. i \in DOMAIN order
      BY <2>1, <3>1
    <3> HIDE DEF i
    <3> QED BY <1>3, <3>2 DEF Chosen, AtLeast
  <2>2. CASE q \notin Range(order)
    BY <1>3, <2>2 DEF Chosen, AtLeast
  <2> QED BY <2>1, <2>2
<1> HIDE DEF i
<1>5. Same(page, w)
  BY <1>1, <1>3, <1>4, SelectedSame DEF ListTabs
<1> HIDE DEF w
<1>6. Fine(w, Held, disturbed) /\ w.tab = page.tab
  BY <1>1, <1>5, FineSame DEF Same
<1>7. Fine(page', Held', disturbed') /\ page'.tab = page.tab
  BY <1>2, <1>6, LessPanel, OverIs, FineForm
<1>8. Asking(rank') /\ Pairs(Held')
  <2>1. Idle.asked \in Seq(Paths) /\ DOMAIN Idle = {"asked", "same"}
    BY DEF Idle
  <2> QED BY <1>1, <1>2, <2>1, Unpaneled DEF Asking
<1> QED BY <1>1, <1>2, <1>7, <1>8, StepIs DEF Waits

-----------------------------------------------------------------------------
(* Desks                                                                   *)

LEMMA WarmIsPage == \A t : "warm" \notin Controls(t).dom
BY Zenon DEF Controls, Plain, MoshControls, TransmuteControls, MultiControls, DeepDreamControls, FastSAMControls, UpscaleControls, RifeRecohereControls, Img2ImgControls, Txt2ImgControls, QrArtControls, WithoutBgControls, StyleTransferControls, ImageSortControls, AgentControls, ImageEditControls, CutControls, ZoompanControls, QuickControls, WatcherControls, NotesControls, SettingsControls

(* A desk fills the page with forms, bars and page state of its own. *)
LEMMA DeskIs ==
    ASSUME NEW p, Whole(p), NEW d \in Desks, NEW t
    PROVE  LET q == ApplyPoolData(p, d, t)
           IN  /\ Whole(q) /\ q.tab = t /\ q.panel = p.panel /\ q.handoff = p.handoff
               /\ q.saved = [u \in {k[1] : k \in MovedOn(d)} \ {"settings"} |-> DeskForm(d, u)]
               /\ q.kept = {k \in p.kept : ~Carried(k)} \cup {k \in MovedOn(d) : Carried(k)}
<1> DEFINE q == ApplyDeskSnapshot(p, d, t)
           v == First(d.video)
           w == Await([q EXCEPT !.range = Asked(q.range, v)], "probe", v)
           f == [u \in {k[1] : k \in MovedOn(d)} \ {"settings"} |-> DeskForm(d, u)]
           kept == {k \in p.kept : ~Carried(k)} \cup {k \in MovedOn(d) : Carried(k)}
           gi == [video |-> d.video, image |-> <<>>, pathIn |-> <<>>]
           list == [u \in ListTabs |-> IF u \in OnDesk THEN <<>> ELSE p.list[u]]
           sel == [u \in ListTabs |-> IF u \in OnDesk THEN 1 ELSE p.sel[u]]
<1>1. \A k \in d.moved : k = <<k[1], k[2]>> /\ k[2] \in Controls(k[1]).dom \cup Controls(k[1]).page
  BY DeskAssumption
<1>2. \A u \in DOMAIN f : Form(f[u])
  <2>1. ASSUME NEW u PROVE Form(DeskForm(d, u))
    <3>1. DOMAIN DeskForm(d, u) = {"of", "path", "other", "opts"} /\ DeskForm(d, u).of = u
          /\ DeskForm(d, u).opts = {k[2] : k \in {x \in d.moved : x[1] = u}}
      BY DEF DeskForm, Blank
    <3>2. DeskForm(d, u).opts \subseteq Offered(u)
      BY <1>1, <3>1 DEF Offered
    <3> QED BY <3>1, <3>2 DEF Form
  <2> QED BY <2>1
<1>3. \A k \in kept : k = <<k[1], k[2]>> /\ k[2] \in Controls(k[1]).page
  BY <1>1 DEF Whole, MovedOn, Carried
<1>4. /\ list \in [ListTabs -> Seq(Paths)] /\ sel \in [ListTabs -> Nat \ {0}]
      /\ list["imagesort"] = <<>> /\ sel["imagesort"] = 1
  <2>1. "imagesort" \in ListTabs \cap OnDesk /\ <<>> \in Seq(Paths)
    BY DEF ListTabs, OnDesk
  <2> QED BY <2>1 DEF Whole
<1>5. DOMAIN gi = Bars3
  BY DEF Bars3
<1>6. /\ DOMAIN q = Fields /\ q.tab = t /\ q.panel = p.panel /\ q.handoff = p.handoff
      /\ q.saved = f /\ q.kept = kept /\ q.gi = gi /\ q.list = list /\ q.sel = sel
  BY DEF ApplyDeskSnapshot, Whole, Fields
<1>7. Chosen(<<>>, 1)
  BY DEF Chosen, AtLeast
<1> HIDE DEF f, kept, gi, list, sel, q, v
<1>8. Whole(q)
  BY <1>2, <1>3, <1>4, <1>5, <1>6, <1>7 DEF Whole, Bars3
<1>9. /\ Whole(w) /\ w.tab = q.tab /\ w.panel = q.panel /\ w.handoff = q.handoff
      /\ w.saved = q.saved /\ w.kept = q.kept
  <2> DEFINE a == [q EXCEPT !.range = Asked(q.range, v)]
  <2>1. Same(q, a) /\ a.panel = q.panel
    BY <1>8, FieldsSame DEF Whole, Fields
  <2> HIDE DEF a
  <2>2. Framed(a, Await(a, "probe", v)) /\ Await(a, "probe", v).panel = a.panel
        /\ Await(a, "probe", v).handoff = a.handoff
    BY <2>1, AwaitIs DEF Same
  <2> QED BY <2>1, <2>2 DEF Same, Framed, a
<1>10. ApplyPoolData(p, d, t) \in {q, w}
  BY DEF ApplyPoolData, q, v
<1> HIDE DEF w
<1> QED BY <1>6, <1>8, <1>9, <1>10 DEF f, kept

LEMMA FineCaptured ==
    ASSUME NEW p, NEW ty, NEW d, Fine(p, ty, d)
    PROVE  Fine(Captured(p), ty, d) /\ Captured(p).tab = p.tab /\ Captured(p).panel = p.panel
<1> DEFINE c == Captured(p)
<1>1. Whole(p) /\ p.handoff = "none"
  BY DEF Fine, Placed
<1>2. /\ Whole(c) /\ c.tab = p.tab /\ c.panel = p.panel /\ c.kept = p.kept
      /\ c.handoff = p.handoff /\ \A u \in DOMAIN p.saved \ {p.tab} : c.saved[u] = p.saved[u]
      /\ DOMAIN c.saved \ {p.tab} = DOMAIN p.saved \ {p.tab}
  BY <1>1, CapturedIs
<1> HIDE DEF c
<1>3. Placed(c, d)
  BY <1>2 DEF Fine, Placed
<1>4. ASSUME NEW u \in visits \ (Awaited \cup d) PROVE Remembered(c, u, Moved(ty, u))
  <2>1. Remembered(p, u, Moved(ty, u)) /\ (u = p.tab => p.panel.of = u)
    BY DEF Fine, Knows, Placed
  <2>2. Kept(c, u) = Kept(p, u)
    BY <1>2 DEF Kept
  <2>3. CASE u = p.tab
    BY <1>2, <2>1, <2>2, <2>3 DEF Remembered, Has
  <2>4. CASE u # p.tab
    <3>1. (Returns(c, u) <=> Returns(p, u)) /\ (Returns(p, u) => c.saved[u] = p.saved[u])
      BY <1>2, <2>4 DEF Returns
    <3> QED BY <1>2, <2>1, <2>2, <3>1 DEF Remembered, Has
  <2> QED BY <2>3, <2>4
<1> QED BY <1>2, <1>3, <1>4 DEF Fine, Knows, c

(* Nothing of what a project replaces is promised any more. *)
LEMMA OpenSteps == ASSUME TabsInv, NEW d \in Desks, NEW t, OpenProject(d, t) PROVE TabsInv'
<1> DEFINE p == ApplyPoolData(page, d, t)
<1>1. Fine(page, Held, disturbed) /\ Pairs(Held) /\ Asking(rank) /\ Whole(page) /\ page.tab \in visits
  BY Inside DEF TabsInv
<1>2. /\ t \in visits /\ rank' = Outdated(rank) /\ disturbed' = disturbed \cup visits
      /\ sent' = NotSent /\ UNCHANGED <<visits, Held>>
      /\ \E x : page' = [p EXCEPT !.pend = x]
  BY DEF OpenProject, Acts, Held
<1>3. Whole(p) /\ p.tab = t /\ p.panel = page.panel /\ p.handoff = page.handoff
  <2>1. LET q == ApplyPoolData(page, d, t)
        IN  /\ Whole(q) /\ q.tab = t /\ q.panel = page.panel /\ q.handoff = page.handoff
            /\ q.saved = [u \in {k[1] : k \in MovedOn(d)} \ {"settings"} |-> DeskForm(d, u)]
            /\ q.kept = {k \in page.kept : ~Carried(k)} \cup {k \in MovedOn(d) : Carried(k)}
    BY <1>1, DeskIs
  <2> QED BY <2>1
<1> HIDE DEF p
<1>4. Same(p, page')
  <2>1. \A x : Same(p, [p EXCEPT !.pend = x])
    BY <1>3, FieldsSame
  <2>2. PICK x : page' = [p EXCEPT !.pend = x]
    BY <1>2
  <2> QED BY <2>1, <2>2
<1>5. Placed(page', disturbed')
  BY <1>1, <1>2, <1>3, <1>4 DEF Fine, Placed, Same
<1>6. Fine(page', Held', disturbed')
  BY <1>1, <1>2, <1>5 DEF Fine, Knows
<1>7. Asking(rank') /\ page'.tab \in visits
  BY <1>1, <1>2, <1>3, <1>4 DEF Asking, Outdated, Same
<1> QED BY <1>1, <1>2, <1>6, <1>7, StepIs DEF Waits

LEMMA OpenedAnswers == ASSUME TabsInv, NEW r, ProjectOpened(r) PROVE TabsInv'
<1> DEFINE u == page.tab
           c == Captured(page)
<1>1. Fine(page, Held, disturbed) /\ Pairs(Held) /\ Asking(rank) /\ Whole(page) /\ page.tab \in visits
  BY Inside DEF TabsInv
<1>2. rank' = rank /\ Over(u) = disturbed /\ "pool" \in visits /\ "pool" # "none"
  BY <1>1 DEF ProjectOpened, Over
<1>3. CASE u \in {"pool", "images"}
  <2>1. Comes(r, FormOf(c, u), u) /\ Held' = Held \ PanelOnly(u)
    BY <1>3 DEF ProjectOpened, Held
  <2>2. Fine(c, Held, disturbed) /\ c.tab = u
    BY <1>1, FineCaptured
  <2> HIDE DEF c
  <2>3. Less(Held, Held', u)
    BY <2>1, LessPanel
  <2>4. Fine(FormOf(c, u), Held', disturbed) /\ FormOf(c, u).tab = u
    BY <2>2, <2>3, FineForm
  <2>5. Pairs(Held')
    BY <1>1, <2>1 DEF Pairs
  <2> QED BY <1>1, <1>2, <2>1, <2>4, <2>5, ComesIs
<1>4. CASE u \notin {"pool", "images"}
  <2>1. Comes(r, SwitchTab(page, "pool"), u) /\ Held' = Held
    BY <1>4 DEF ProjectOpened, Held
  <2>2. Fine(SwitchTab(page, "pool"), Held, disturbed) /\ SwitchTab(page, "pool").tab = "pool"
    BY <1>1, <1>2, FineSwitch
  <2> QED BY <1>1, <1>2, <2>1, <2>2, ComesIs
<1> QED BY <1>3, <1>4

-----------------------------------------------------------------------------
(* Every step                                                              *)

(* A page load: forms of the session come back when their tabs are shown. *)
LEMMA InitTabs == Init => TabsInv
<1> SUFFICES ASSUME Init PROVE TabsInv
  OBVIOUS
<1> PICK d \in Desks, t \in visits :
       /\ page = SwitchTab(Session(d, t), t)
       /\ typed = MovedOn(d)
       /\ lost = {k \in MovedOn(d) : k[1] = t /\ k \notin Session(d, t).kept}
  BY DEF Init
<1>1. "none" \notin visits /\ disturbed = {} /\ rank = Idle /\ sent = NotSent
  BY JourneyAssumption DEF Init
<1> DEFINE own == {k \in MovedOn(d) : OwnStore(k)}
           b == [NewPage EXCEPT !.kept = own]
           p == Session(d, t)
           l == Left(p, t)
<1>2. \A k \in d.moved : k = <<k[1], k[2]>> /\ k[2] \in Controls(k[1]).dom \cup Controls(k[1]).page
  BY DeskAssumption
<1>3. \A k \in own : k = <<k[1], k[2]>> /\ k[2] \in Controls(k[1]).page
  <2>1. Controls("notes").dom = {} /\ Controls("settings").dom = {}
    BY DEF Controls, NotesControls, SettingsControls
  <2>2. ASSUME NEW k \in own PROVE k[2] \notin Controls(k[1]).dom
    <3>1. k[1] \in {"notes", "settings"} \/ k[2] = "warm"
      BY DEF OwnStore
    <3> QED BY <2>1, <3>1, WarmIsPage
  <2> QED BY <1>2, <2>2 DEF MovedOn
<1>4. Whole(b) /\ b.panel = Blank /\ b.handoff = "none" /\ b.kept = own
  <2>1. "imagesort" \in ListTabs /\ <<>> \in Seq(Paths)
    BY DEF ListTabs
  <2>2. Chosen(<<>>, 1)
    BY DEF Chosen, AtLeast
  <2>3. /\ DOMAIN b = Fields /\ b.panel = Blank /\ DOMAIN b.saved = {} /\ b.kept = own
        /\ b.gi = [video |-> <<>>, image |-> <<>>, pathIn |-> <<>>]
        /\ b.list = [u \in ListTabs |-> <<>>] /\ b.sel = [u \in ListTabs |-> 1] /\ b.handoff = "none"
    BY DEF NewPage, Fields
  <2> HIDE DEF b, own
  <2> QED BY <1>3, <2>1, <2>2, <2>3 DEF Whole, Form, Blank
<1> HIDE DEF b
<1>5. /\ Whole(p) /\ p.tab = t /\ p.panel = Blank /\ p.handoff = "none"
      /\ p.saved = [u \in {k[1] : k \in MovedOn(d)} \ {"settings"} |-> DeskForm(d, u)]
      /\ p.kept = {k \in own : ~Carried(k)} \cup {k \in MovedOn(d) : Carried(k)}
  <2> DEFINE z == ApplyPoolData(b, d, t)
  <2>1. /\ Whole(z) /\ z.tab = t /\ z.panel = b.panel /\ z.handoff = b.handoff
        /\ z.saved = [u \in {k[1] : k \in MovedOn(d)} \ {"settings"} |-> DeskForm(d, u)]
        /\ z.kept = {k \in b.kept : ~Carried(k)} \cup {k \in MovedOn(d) : Carried(k)}
    <3>1. LET q == ApplyPoolData(b, d, t)
          IN  /\ Whole(q) /\ q.tab = t /\ q.panel = b.panel /\ q.handoff = b.handoff
              /\ q.saved = [u \in {k[1] : k \in MovedOn(d)} \ {"settings"} |-> DeskForm(d, u)]
              /\ q.kept = {k \in b.kept : ~Carried(k)} \cup {k \in MovedOn(d) : Carried(k)}
      BY <1>4, DeskIs
    <3> QED BY <3>1
  <2>2. p = z
    BY DEF Session, b
  <2> HIDE DEF z, p, own
  <2> QED BY <1>4, <2>1, <2>2
<1> HIDE DEF p
<1>6. t # "none" /\ Handed(p, t) /\ ~Stays(p, t) /\ page = SwitchTab(p, t) /\ p.handoff # t
  BY <1>1, <1>5 DEF Handed, Stays, Blank, p
<1>7. /\ ~Returns(l, t)
      /\ \A u : u # t => (Returns(l, u) <=> u \in DOMAIN p.saved) /\ (Returns(l, u) => l.saved[u] = p.saved[u])
  <2>1. /\ t = "settings" => l.saved = p.saved
        /\ t # "settings" => DOMAIN l.saved = DOMAIN p.saved \cup {t} /\ l.saved[t].of = "none"
        /\ \A u \in DOMAIN p.saved \ {t} : l.saved[u] = p.saved[u]
    BY <1>5, LeftIs, CapturedIs DEF Blank
  <2>2. \A u \in DOMAIN p.saved : u # "settings" /\ p.saved[u].of = u
    <3>1. \A u : DeskForm(d, u).of = u
      BY DEF DeskForm, Blank
    <3> QED BY <1>5, <3>1
  <2> HIDE DEF l
  <2> QED BY <1>6, <2>1, <2>2 DEF Returns
<1>8. /\ Whole(page) /\ page.tab = t /\ page.handoff = "none"
      /\ page.panel.of \in {"none", t} /\ (t \notin Awaited => page.panel.of = t)
      /\ page.saved = l.saved /\ \A u : u # t => Kept(page, u) = Kept(p, u)
      /\ t \notin Awaited => page.panel.opts = Kept(p, t) /\ Kept(page, t) = Kept(p, t)
  BY <1>5, <1>6, <1>7, SwitchIs
<1> HIDE DEF l
<1>9. \A u : u # t => /\ Returns(page, u) <=> u \in DOMAIN p.saved
                      /\ Returns(page, u) => page.saved[u] = p.saved[u]
  BY <1>7, <1>8 DEF Returns
<1>10. /\ Pairs(Held) /\ p.kept \subseteq MovedOn(d)
       /\ \A k : k[1] # t => (k \in Held <=> k \in MovedOn(d))
       /\ \A k : k[1] = t => (k \in Held <=> k \in p.kept)
  BY <1>2, <1>5 DEF Held, MovedOn, Pairs, p
<1>11. \A u : u # t => Moved(Held, u) = Moved(MovedOn(d), u)
  BY <1>10 DEF Moved
<1>12. Moved(Held, t) = Kept(p, t)
  BY <1>10 DEF Moved, Kept
<1>13. ASSUME NEW u \in visits
       PROVE  Moved(MovedOn(d), u) \subseteq Offered(u) /\ Moved(MovedOn(d), u) = DeskForm(d, u).opts
  <2>1. DeskForm(d, u).opts = {k[2] : k \in {x \in d.moved : x[1] = u}}
    BY DEF DeskForm, Blank
  <2>2. {x \in MovedOn(d) : x[1] = u} = {x \in d.moved : x[1] = u}
    BY DEF MovedOn
  <2>3. Moved(MovedOn(d), u) = {k[2] : k \in {x \in d.moved : x[1] = u}}
    BY <2>2 DEF Moved
  <2>4. \A k \in {x \in d.moved : x[1] = u} : k[2] \in Offered(u)
    BY <1>2 DEF Offered
  <2> QED BY <2>1, <2>3, <2>4
<1>14. Placed(page, disturbed)
  BY <1>8 DEF Placed
<1>15. ASSUME NEW u \in visits \ Awaited PROVE Remembered(page, u, Moved(Held, u))
  <2>1. CASE u = t
    <3>1. Kept(p, t) \subseteq Controls(t).page
      BY <1>5 DEF Kept, Whole
    <3> QED BY <1>8, <1>12, <2>1, <3>1 DEF Remembered, Has, Offered
  <2>2. CASE u # t /\ u \in DOMAIN p.saved
    <3>1. Has(page, u) = DeskForm(d, u).opts /\ page.panel.of # u /\ Returns(page, u)
      BY <1>1, <1>5, <1>8, <1>9, <2>2 DEF Has
    <3> QED BY <1>11, <1>13, <2>2, <3>1 DEF Remembered
  <2>3. CASE u # t /\ u \notin DOMAIN p.saved
    <3> DEFINE m == Moved(MovedOn(d), u)
    <3>1. Has(page, u) = Kept(p, u) /\ Kept(page, u) = Kept(p, u)
      BY <1>1, <1>8, <1>9, <2>3 DEF Has
    <3>2. Kept(p, u) \subseteq Controls(u).page /\ Kept(p, u) \subseteq m
      BY <1>5, <1>10 DEF Kept, Whole, Moved
    <3>3. m \subseteq Kept(p, u)
      <4>1. CASE u = "settings"
        <5>1. \A k \in MovedOn(d) : k[1] = u => k \in p.kept
          BY <1>5, <4>1 DEF OwnStore, Carried, OnDesk
        <5> QED BY <5>1 DEF Moved, Kept
      <4>2. CASE u # "settings"
        <5>1. \A k \in MovedOn(d) : k[1] # u
          BY <1>5, <2>3, <4>2
        <5> QED BY <5>1 DEF Moved
      <4> QED BY <4>1, <4>2
    <3> HIDE DEF m
    <3>4. Kept(p, u) = m /\ m \subseteq Controls(u).page
      BY <3>2, <3>3
    <3> QED BY <1>11, <2>3, <3>1, <3>4 DEF Remembered, Offered, m
  <2> QED BY <2>1, <2>2, <2>3
<1>16. Fine(page, Held, disturbed)
  BY <1>1, <1>14, <1>15 DEF Fine, Knows
<1>17. Asking(rank)
  BY <1>1 DEF Asking, Idle
<1> QED BY <1>1, <1>8, <1>10, <1>16, <1>17 DEF TabsInv, Waits

LEMMA NextTabs == TabsInv /\ [Next]_vars => TabsInv'
<1> SUFFICES ASSUME TabsInv, [Next]_vars PROVE TabsInv'
  OBVIOUS
<1>1. ASSUME NEW t \in visits, Switch(t) \/ ToggleWarm(t) \/ ClearList(t) \/ PickAsk(t) \/ Handoff(t)
      PROVE  TabsInv'
  BY <1>1, SwitchSteps, WarmSteps, ClearSteps, AskSteps, HandoffSteps
<1>2. ASSUME NEW q \in Paths, TypePath(q) \/ TypeOther(q) PROVE TabsInv'
  BY <1>2, TypedSteps
<1>3. ASSUME NEW o, Toggle(o) PROVE TabsInv'
  BY <1>3, ToggleSteps
<1>4. CASE QuickCopy \/ AgentSend \/ ClearHistory \/ Run \/ RankAsk \/ RankFails
  BY <1>4, QuickSteps, AgentSteps, RunSteps, AskSteps
<1>5. ASSUME NEW bar, NEW lines, SetGlobal(bar, lines) PROVE TabsInv'
  BY <1>5, GlobalSteps
<1>6. ASSUME NEW t, NEW q \in Videos, SendVideo(t, q) PROVE TabsInv'
  BY <1>6, VideoSteps
<1>7. ASSUME NEW t, NEW q \in Images, SendImage(t, q) PROVE TabsInv'
  BY <1>7, StillSteps
<1>8. ASSUME NEW q, SendStyle(q) PROVE TabsInv'
  BY <1>8, StyleSteps
<1>9. ASSUME NEW t \in ListTabs, NEW i, RemoveRow(t, i) \/ SelectRow(t, i) \/ \E d \in {-1, 1} : SwapRow(t, i, d)
      PROVE  TabsInv'
  <2>1. CASE SelectRow(t, i)
    BY <2>1, AskSteps
  <2>2. CASE RemoveRow(t, i)
    BY <2>2, RowSteps
  <2> QED BY <1>9, <2>1, <2>2, RowSteps
<1>10. ASSUME NEW t \in ListTabs, NEW d \in {-1, 1}, KeyMove(t, d) PROVE TabsInv'
  BY <1>10, KeySteps
<1>11. ASSUME NEW first, ToEnd(first) PROVE TabsInv'
  BY <1>11, EndSteps
<1>12. ASSUME NEW r, AgentAnswer(r) \/ TimerFires(r) \/ ProjectOpened(r) PROVE TabsInv'
  BY <1>12, AgentAnswers, TimerAnswers, OpenedAnswers
<1>13. ASSUME NEW r, NEW q \in Images, PickAnswer(r, q) PROVE TabsInv'
  BY <1>13, PickAnswers DEF Paths
<1>14. ASSUME NEW r, NEW found, CutAnswer(r, found) \/ ZoompanAnswer(r, found) \/ ProbeAnswer(r, found)
       PROVE  TabsInv'
  BY <1>14, AwaitedAnswers, ProbeAnswers
<1>15. ASSUME NEW order \in SetToSeqs(Range(rank.asked)), RankAnswer(order) PROVE TabsInv'
  BY <1>15, RankSteps
<1>16. ASSUME NEW range, Slide(range) PROVE TabsInv'
  BY <1>16, SlideSteps
<1>17. CASE \E which \in {"start", "end"} :
              \/ \E v \in {0, 1, page.range.total} : SlideThumb(which, v) \/ SlideTyped(which, v)
              \/ \E d \in {-1, 1} : SlideStep(which, d) \/ SlideKey(which, d)
  BY <1>16, <1>17 DEF SlideThumb, SlideTyped, SlideStep, SlideKey
<1>18. CASE SlideGrab \/ SlideDrop \/ \E d \in {-1, 1} : SlideDrag(d)
  BY <1>16, <1>18 DEF SlideGrab, SlideDrop, SlideDrag
<1>19. CASE UNCHANGED vars
  <2>1. Same(page, page')
    BY <1>19, Inside, FieldsSame DEF vars
  <2> QED BY <1>19, <2>1, StillIs DEF vars, TabsInv, Held
<1>21. ASSUME NEW d \in Desks, NEW t, OpenProject(d, t) PROVE TabsInv'
  BY <1>21, OpenSteps
<1>20. CASE Next
  BY <1>1, <1>2, <1>3, <1>4, <1>5, <1>6, <1>7, <1>8, <1>9, <1>10, <1>11, <1>12, <1>13, <1>14,
     <1>15, <1>17, <1>18, <1>20, <1>21 DEF Next
<1> QED BY <1>19, <1>20

LEMMA TabsAlways == Spec => []TabsInv
BY InitTabs, NextTabs, PTL DEF Spec

-----------------------------------------------------------------------------
(* The properties of the runs                                              *)

(* A form that is shown shows what the user has set in it, after any       *)
(* switches, mounts, captures and returns of forms and after a page load,  *)
(* but for what is set aside: controls that live in the panel alone, once  *)
(* an edit of the form's list, a picker, the ranking, the agent or the     *)
(* video pool's send has mounted it again in its place; those of the tab   *)
(* that a page load shows first; the agent's prompt where the saved form   *)
(* comes over it; and tabs that an answer of another tab, a switch of      *)
(* Settings or a project has disturbed, and Cut and Zoompan.  So a switch, *)
(* captureCurrentFormState and applySavedFormState alone lose nothing, and *)
(* every other loss is one of these.                                       *)
THEOREM TypingIsKept == Spec => []TypingKept
<1>1. TabsInv => TypingKept
  <2> SUFFICES ASSUME TabsInv, page.tab \notin Awaited \cup disturbed, page.panel.of = page.tab
               PROVE  page.panel.opts \ Controls(page.tab).bare
                        = {k[2] : k \in {x \in Held : x[1] = page.tab}} \ Controls(page.tab).bare
    BY DEF TypingKept
  <2>1. Remembered(page, page.tab, Moved(Held, page.tab))
    BY DEF TabsInv, Fine, Knows
  <2> QED BY <2>1 DEF Remembered, Has, Moved
<1> QED BY <1>1, TabsAlways, PTL

(* The answer of the ranking puts the selection on the image that was      *)
(* selected, where the list still is the one that was ranked.              *)
THEOREM RankingKeepsSelection == Spec => RankKeepsSelection
<1> DEFINE t == "imagesort"
           Follows(order) ==
              RankAnswer(order) /\ rank.same /\ Len(page.list[t]) > 0 =>
                 LET q == Lookup(page.list[t], page.sel[t])
                 IN  q \in Range(order) => Lookup(page'.list[t], page'.sel[t]) = q
<1>1. ASSUME TabsInv, NEW order \in SetToSeqs(Range(rank.asked)) PROVE Follows(order)
  <2> DEFINE q == Lookup(page.list[t], page.sel[t])
             i == CHOOSE j \in DOMAIN order : order[j] = q
             w == Selected(page, t, order, i)
  <2> SUFFICES ASSUME RankAnswer(order), rank.same, q \in Range(order)
               PROVE  Lookup(page'.list[t], page'.sel[t]) = q
    OBVIOUS
  <2>1. page' = ImageSortForm(w)
    BY DEF RankAnswer, Ranked
  <2>2. order \in Seq(Paths) /\ Whole(page)
    BY <1>1, Inside, OrdersAre DEF TabsInv, Asking
  <2>3. Len(order) \in Nat /\ DOMAIN order = 1..Len(order)
    BY <2>2, LenProperties
  <2> HIDE DEF q
  <2>4. i \in DOMAIN order /\ order[i] = q
    BY DEF Range
  <2> HIDE DEF i
  <2>5. order # <<>> /\ Clamped(order, i) = i
    BY <2>3, <2>4 DEF Clamped
  <2>6. w.list[t] = order /\ w.sel[t] = i /\ DOMAIN w = Fields /\ DOMAIN w.sel = ListTabs /\ t \in ListTabs
    BY <2>2 DEF Selected, Whole, Fields, ListTabs
  <2> HIDE DEF w
  <2>7. page'.list = w.list /\ page'.sel[t] = i
    BY <2>1, <2>5, <2>6 DEF ImageSortForm, Mount, Selecting, Fields
  <2> QED BY <2>4, <2>6, <2>7 DEF Lookup
<1>2. TabsInv => [\A order \in SetToSeqs(Range(rank.asked)) : Follows(order)]_vars
  BY <1>1
<1> QED BY <1>2, TabsAlways, PTL DEF RankKeepsSelection

-----------------------------------------------------------------------------
(* What was sent runs                                                      *)

Unseen(seen, q) == IF q \in Range(seen) THEN seen ELSE Append(seen, q)
Distinct(s) == FoldLeft(LAMBDA seen, q : IF q \in Range(seen) THEN seen ELSE Append(seen, q), <<>>, s)

(* Leaving out what was seen before leaves a line alone. *)
LEMMA NoLine == Distinct(<<>>) = <<>>
<1> DEFINE F(it, s) == IF s = {} THEN <<>>
                       ELSE LET x == Max(s) IN Unseen(it[s \ {x}], <<>>[x])
           G == [s \in SUBSET {} |-> <<>>]
           I == CHOOSE it : it = [s \in SUBSET {} |-> F(it, s)]
<1>1. Distinct(<<>>) = I[{}]
  BY DEF Distinct, FoldLeft, MapThenFoldSet, Unseen
<1>2. G = [s \in SUBSET {} |-> F(G, s)]
  OBVIOUS
<1>3. I = [s \in SUBSET {} |-> F(I, s)]
  BY <1>2
<1> HIDE DEF I
<1> QED BY <1>1, <1>3

LEMMA OneLine == ASSUME NEW q PROVE Distinct(<<q>>) = <<q>>
<1> DEFINE F(it, s) == IF s = {} THEN <<>>
                       ELSE LET x == Max(s) IN Unseen(it[s \ {x}], <<q>>[x])
           G == [s \in SUBSET {1} |-> IF s = {} THEN <<>> ELSE <<q>>]
           I == CHOOSE it : it = [s \in SUBSET {1} |-> F(it, s)]
<1>1. Max({1}) = 1
  BY DEF Max
<1>2. Unseen(<<>>, q) = <<q>>
  BY DEF Unseen, Range
<1>3. {1} \ {1} = {} /\ {1} \in SUBSET {1} /\ {} \in SUBSET {1} /\ <<q>>[1] = q
  OBVIOUS
<1>4. G = [s \in SUBSET {1} |-> F(G, s)]
  <2>1. F(G, {1}) = Unseen(G[{}], <<q>>[1])
    BY <1>1, <1>3
  <2>2. F(G, {1}) = <<q>> /\ F(G, {}) = <<>>
    BY <1>2, <1>3, <2>1
  <2>3. \A s \in SUBSET {1} : s = {} \/ s = {1}
    OBVIOUS
  <2>4. \A s \in SUBSET {1} : F(G, s) = IF s = {} THEN <<>> ELSE <<q>>
    BY <2>2, <2>3
  <2> QED BY <2>4
<1>5. I = [s \in SUBSET {1} |-> F(I, s)]
  BY <1>4
<1>6. Distinct(<<q>>) = I[{1}]
  BY DEF Distinct, FoldLeft, MapThenFoldSet, Unseen
<1> HIDE DEF I
<1>7. I[{}] = <<>>
  BY <1>3, <1>5
<1>8. I[{1}] = F(I, {1})
  BY <1>3, <1>5
<1>9. F(I, {1}) = Unseen(I[{}], <<q>>[1])
  BY <1>1, <1>3
<1> QED BY <1>2, <1>3, <1>6, <1>7, <1>8, <1>9

(* The bars that a form reads are empty or hold q alone. *)
Clear(t, gi, q) == Bars(t, gi) \in {<<>>, <<q>>}

LEMMA LocalIs ==
    ASSUME NEW t, NEW gi, NEW q, Clear(t, gi, q)
    PROVE  BestInput(t, gi, q) = q /\ BestInput(t, gi, NoPath) \in {q, NoPath}
<1>1. \A x : AllInputPaths(t, gi, x) = Distinct(IF Bars(t, gi) # <<>> THEN Bars(t, gi) ELSE Line(x))
  BY DEF AllInputPaths, Distinct
<1>2. First(<<>>) = NoPath /\ First(<<q>>) = q /\ <<q>> # <<>>
  BY DEF First
<1>3. \A x : Line(x) = IF x = NoPath THEN <<>> ELSE <<x>>
  BY DEF Line
<1>4. Distinct(<<q>>) = <<q>> /\ Distinct(<<>>) = <<>>
  BY OneLine, NoLine
<1>5. CASE Bars(t, gi) = <<q>>
  <2>1. \A x : AllInputPaths(t, gi, x) = <<q>>
    BY <1>1, <1>2, <1>4, <1>5
  <2> QED BY <1>2, <2>1 DEF BestInput
<1>6. CASE Bars(t, gi) = <<>>
  <2>1. AllInputPaths(t, gi, NoPath) = <<>> /\ AllInputPaths(t, gi, q) = IF q = NoPath THEN <<>> ELSE <<q>>
    BY <1>1, <1>3, <1>4, <1>6
  <2> QED BY <1>2, <2>1 DEF BestInput
<1> QED BY <1>5, <1>6 DEF Clear

LEMMA OwnInput ==
    ASSUME NEW p, NEW t, NEW q, q # NoPath, p.panel.of = t, p.panel.path = q, Clear(t, p.gi, q)
    PROVE  /\ Field(p, t) = q /\ Best(p, t) = q
           /\ \A op : q \in Range(OneInput(p, t, op).inputs)
<1>1. Field(p, t) = q /\ Best(p, t) = q
  BY LocalIs DEF Field, Best
<1>2. \A op : OneInput(p, t, op).inputs = <<q>>
  BY <1>1 DEF OneInput, Body
<1>3. q \in Range(<<q>>)
  BY DEF Range
<1> QED BY <1>1, <1>2, <1>3

(* Runs(p, q): the run that the page asks for is refused, or has q. *)
Runs(b, q) == b.op \in {"refused", "thrown"} \/ q \in Range(b.inputs)

LEMMA FieldRuns ==
    ASSUME NEW p, NEW q, q # NoPath, p.panel.of = p.tab, p.panel.path = q, Clear(p.tab, p.gi, q),
           p.tab \in Targets \ (NoRun \cup ListTabs \cup {"cut", "speedchange"})
    PROVE  Runs(BodyOf(p), q)
<1> DEFINE t == p.tab
<1>1. Field(p, t) = q /\ Best(p, t) = q /\ \A op : q \in Range(OneInput(p, t, op).inputs)
  BY OwnInput
<1>2. q \in Range(<<q>>)
  BY DEF Range
<1>3. \A b, x : q \in Range(b.inputs) /\ DOMAIN b = {"op", "inputs", "aux", "opts", "range"} =>
         Runs([b EXCEPT !.opts = x], q) /\ Runs([b EXCEPT !.range = x], q) /\ Runs(b, q)
  BY DEF Runs
<1>4. \A op : DOMAIN OneInput(p, t, op) = {"op", "inputs", "aux", "opts", "range"}
  BY DEF OneInput, Refused, Body
<1>5. t \in {"mosh", "deepdream", "transmute", "advanced", "rife", "upscale", "fastsam", "convert", "img2img"}
  BY DEF Targets, VideoTargets, ImageTargets, Awaited, ListTabs, NoRun, Library
<1>6. CASE t = "mosh"
  <2>1. BodyOf(p) = MoshBody(p)
    BY <1>6 DEF BodyOf
  <2>2. MoshBody(p) = [OneInput(p, t, "datamosh") EXCEPT !.opts = @ \cup Kept(p, "mosh")]
    BY <1>6 DEF MoshBody
  <2> QED BY <1>1, <1>3, <1>4, <2>1, <2>2
<1>7. CASE t = "transmute"
  <2>1. BodyOf(p) = TransmuteBody(p)
    BY <1>7 DEF BodyOf
  <2>2. TransmuteBody(p) = [OneInput(p, t, "transmute") EXCEPT !.opts = @ \cup Kept(p, "transmute")]
    BY <1>7 DEF TransmuteBody
  <2> QED BY <1>1, <1>3, <1>4, <2>1, <2>2
<1>8. CASE t = "advanced"
  <2>1. BodyOf(p) = AdvancedBody(p)
    BY <1>8 DEF BodyOf
  <2>2. AdvancedBody(p) = [OneInput(p, t, "raw") EXCEPT !.range = <<>>]
    BY <1>8 DEF AdvancedBody
  <2> QED BY <1>1, <1>3, <1>4, <2>1, <2>2
<1>9. CASE t \in {"rife", "deepdream", "convert"}
  <2>1. \E op : BodyOf(p) = OneInput(p, t, op)
    BY <1>9 DEF BodyOf, RifeBody, DeepDreamBody, ConvertBody
  <2> QED BY <1>1, <1>3, <1>4, <2>1
<1>10. CASE t = "upscale"
  <2>1. BodyOf(p) = UpscaleBody(p)
    BY <1>10 DEF BodyOf
  <2> QED BY <2>1 DEF UpscaleBody, Refused, Thrown, Body, Runs
<1>11. CASE t = "fastsam"
  <2>1. BodyOf(p) = FastSAMBody(p)
    BY <1>11 DEF BodyOf
  <2>2. FastSAMBody(p).inputs = <<q>>
    BY <1>1, <1>11 DEF FastSAMBody, Body, Line
  <2> QED BY <1>2, <2>1, <2>2 DEF Runs
<1>12. CASE t = "img2img"
  <2>1. BodyOf(p) = Img2ImgBody(p)
    BY <1>12 DEF BodyOf
  <2>2. Img2ImgBody(p) = Refused \/ Img2ImgBody(p).inputs = <<q>>
    BY <1>1, <1>12 DEF Img2ImgBody, Body
  <2>3. Refused.op = "refused"
    BY DEF Refused, Body
  <2> QED BY <1>2, <2>1, <2>2, <2>3 DEF Runs
<1> QED BY <1>5, <1>6, <1>7, <1>8, <1>9, <1>10, <1>11, <1>12

LEMMA ListRuns ==
    ASSUME NEW p, Whole(p), NEW q, q \in Range(p.list[p.tab]), Clear(p.tab, p.gi, q),
           p.tab \in ListTabs \ NoRun
    PROVE  Runs(BodyOf(p), q)
<1> DEFINE t == p.tab
           s == p.list[t]
<1>1. s # <<>> /\ Refused.op = "refused"
  BY DEF Range, Refused, Body
<1>2. CASE t = "facemorph"
  <2>1. BodyOf(p) = FaceMorphBody(p) /\ TabAccepts(t) = "image"
    BY <1>2 DEF BodyOf, TabAccepts
  <2>2. p.gi.image \in {<<>>, <<q>>}
    BY <2>1 DEF Bars, Clear
  <2>3. FaceMorphBody(p) = Refused \/ FaceMorphBody(p).inputs = s
    <3>1. Len(p.gi.image) < 2
      <4>1. Len(<<>>) = 0 /\ Len(<<q>>) = 1
        OBVIOUS
      <4>2. CASE p.gi.image = <<>>
        BY <4>1, <4>2
      <4>3. CASE p.gi.image = <<q>>
        BY <4>1, <4>3
      <4> QED BY <2>2, <4>2, <4>3
    <3>2. p.list["facemorph"] = s
      BY <1>2
    <3> QED BY <3>1, <3>2 DEF FaceMorphBody, Body
  <2> QED BY <1>1, <2>1, <2>3 DEF Runs
<1>3. CASE t = "withoutbg"
  <2>1. BodyOf(p) = WithoutBgBody(p)
    BY <1>3 DEF BodyOf
  <2>2. WithoutBgBody(p) = Refused \/ WithoutBgBody(p).inputs = s
    BY <1>1, <1>3 DEF WithoutBgBody, Body
  <2> QED BY <1>1, <2>1, <2>2 DEF Runs
<1>4. CASE t = "styletransfer"
  <2>1. BodyOf(p) = StyleTransferBody(p)
    BY <1>4 DEF BodyOf
  <2>2. StyleTransferBody(p) = Refused \/ StyleTransferBody(p).inputs = s
    BY <1>1, <1>4 DEF StyleTransferBody, Body
  <2> QED BY <1>1, <2>1, <2>2 DEF Runs
<1>5. CASE t = "imagesort"
  <2>1. BodyOf(p) = ImageSortBody(p)
    BY <1>5 DEF BodyOf
  <2>2. ImageSortBody(p) = Refused \/ ImageSortBody(p).inputs = s
    BY <1>5 DEF ImageSortBody, Body
  <2> QED BY <1>1, <2>1, <2>2 DEF Runs
<1>6. CASE t = "multi"
  <2>1. BodyOf(p) = MultiBody(p)
    BY <1>6 DEF BodyOf
  <2>2. MultiBody(p) = Refused \/ MultiBody(p).inputs = s
    BY <1>6 DEF MultiBody, Body
  <2> QED BY <1>1, <2>1, <2>2 DEF Runs
<1> QED BY <1>2, <1>3, <1>4, <1>5, <1>6 DEF ListTabs, NoRun

(* A clip or still that a pool has sent to a tab is an input of the run    *)
(* that its form then asks for (sendPoolPathTo, the switch, the            *)
(* collectors), but for these: a global bar that the tab reads holds       *)
(* anything else than that path alone; the form refuses to run; its        *)
(* collector throws, as Upscale's always does; the tab is Speed Change,    *)
(* or one that runs nothing.                                               *)
THEOREM SentRuns == Spec => []SentClipRuns
<1>1. TabsInv => SentClipRuns
  <2> SUFFICES ASSUME TabsInv, sent # NotSent, sent.to \notin NoRun \cup {"speedchange"},
                      Clear(sent.to, page.gi, sent.path)
               PROVE  Runs(BodyOf(page), sent.path)
    BY DEF SentClipRuns, Runs, Clear
  <2> DEFINE t == sent.to
             q == sent.path
  <2>1. t \in Targets /\ page.tab = t /\ q \in Paths /\ Arrived(page, t, q)
    BY DEF TabsInv, Waits
  <2>2. q # NoPath
    BY <2>1, FramesAssumption, ImageAssumption DEF Paths
  <2>3. CASE t \in ListTabs
    BY <2>1, <2>3, Inside, ListRuns DEF Arrived
  <2>4. CASE t = "cut"
    <3>1. ResolveCutVideo(page) \in {q, NoPath}
      BY <2>1, <2>4, LocalIs DEF ResolveCutVideo
    <3>2. BodyOf(page) = CutBody(page)
      BY <2>1, <2>4 DEF BodyOf
    <3>3. CutBody(page).op = "refused" \/ CutBody(page).inputs = <<q>>
      BY <3>1 DEF CutBody, Refused, Body
    <3> QED BY <3>2, <3>3 DEF Runs, Range
  <2>5. CASE t \notin ListTabs \cup {"cut"}
    BY <2>1, <2>2, <2>5, FieldRuns DEF Arrived
  <2> QED BY <2>3, <2>4, <2>5
<1> QED BY <1>1, TabsAlways, PTL
=============================================================================
