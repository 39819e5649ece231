----------------------------- MODULE FrameRange -----------------------------
(***************************************************************************)
(* The global In/Out range of the page (app/static/js/timeline.js): two    *)
(* sliders over the frames of the probed clip, their step buttons, number  *)
(* boxes, the drag of the bar between them, and the probe that resets them. *)
(* Every operator takes the range and returns it changed.  `s' and `e' are  *)
(* the sliders, `max' their max attribute, to which the browser clamps      *)
(* them; `from' and `to' are window.globalInputs.frameStart and frameEnd,   *)
(* which runs send: sync() copies the sliders there, and a desk that is     *)
(* restored writes them alone (`desk').                                     *)
(***************************************************************************)
EXTENDS Naturals, Integers

CONSTANTS
    Videos,         \* paths of clips
    Frames,         \* their frame counts
    InitialFrames,  \* window.globalInputs.totalFrames before any probe
    NoPath

ASSUME FramesAssumption ==
    /\ Frames \in [Videos -> Nat \ {0}]
    /\ InitialFrames \in Nat \ {0, 1}
    /\ NoPath \notin Videos

AtLeast(a, b) == IF a < b THEN b ELSE a
AtMost(a, b) == IF a > b THEN b ELSE a
Slid(r, v) == AtLeast(AtMost(v, r.max), 1)      \* what an <input type=range> makes of a value

MaxFrames(r) == IF r.total > 1 THEN r.total ELSE 2

\* sync(): the sliders span the clip, the start stays below the end.
StartBelow(s, e) == IF s >= e THEN AtLeast(e - 1, 1) ELSE s

\* An end that the start may catch up with.
EndAnywhere(s, e, m) == e

EndAbove(s, e, m) == IF e <= s THEN AtMost(s + 1, m) ELSE e

Synced(r) ==
    LET m == MaxFrames(r)
        s == AtMost(r.s, m)
        e == AtMost(r.e, m)
        low == StartBelow(s, e)
        high == EndAbove(low, e, m)
    IN  [r EXCEPT !.max = m, !.s = low, !.e = high, !.from = low, !.to = high, !.desk = FALSE]

InitialRange ==
    Synced([total |-> InitialFrames, s |-> 1, e |-> InitialFrames, max |-> InitialFrames,
            from |-> 1, to |-> InitialFrames, desk |-> FALSE, last |-> NoPath, ok |-> FALSE, drag |-> <<>>])

\* applyDeskSnapshot: the numbers of the desk, whatever the sliders show.
Restored(r, from, to) == [r EXCEPT !.from = from, !.to = to, !.desk = TRUE]

\* The user drags one thumb to frame v.
ThumbTo(r, which, v) ==
    Synced(IF which = "start" THEN [r EXCEPT !.s = Slid(r, v)] ELSE [r EXCEPT !.e = Slid(r, v)])

\* The step buttons and their hold repeat; Ctrl+arrow does the same.
StepStart(r, d) ==
    LET next == AtMost(AtLeast(r.s + d, 1), r.e - 1)
    IN  IF next = r.s THEN r ELSE Synced([r EXCEPT !.s = Slid(r, next)])

StepEnd(r, d) ==
    LET next == AtLeast(AtMost(r.e + d, MaxFrames(r)), r.s + 1)
    IN  IF next = r.e THEN r ELSE Synced([r EXCEPT !.e = Slid(r, next)])

\* nudgeGlobalFrames uses the frame count itself as the limit.
NudgeEnd(r, d) ==
    LET next == AtLeast(AtMost(r.e + d, r.total), r.s + 1)
    IN  IF next = r.e THEN r ELSE Synced([r EXCEPT !.e = Slid(r, next)])

\* A number typed in one of the two boxes.
Committed(r, which, raw) ==
    Synced(IF which = "start"
           THEN [r EXCEPT !.s = Slid(r, AtMost(AtLeast(raw, 1), r.e - 1))]
           ELSE [r EXCEPT !.e = Slid(r, AtLeast(AtMost(raw, MaxFrames(r)), r.s + 1))])

\* The bar between the thumbs keeps its length of when the drag began.
Grabbed(r) == [r EXCEPT !.drag = <<r.s, r.e>>]

Dragged(r, delta) ==
    LET m == MaxFrames(r)
        span == r.drag[2] - r.drag[1]
        ns == IF r.drag[1] + delta < 1 THEN 1 ELSE r.drag[1] + delta
        ne == ns + span
    IN  Synced(IF ne > m
               THEN [r EXCEPT !.s = Slid(r, m - span), !.e = Slid(r, m)]
               ELSE [r EXCEPT !.s = Slid(r, ns), !.e = Slid(r, ne)])

Dropped(r) == [r EXCEPT !.drag = <<>>]

\* probeGlobalVideo: what it does before its request, and with the answer.
Skipped(r, v, force) == ~force /\ v = r.last /\ r.ok
Asked(r, v) == [r EXCEPT !.last = v, !.ok = FALSE]

Probed(r, v) ==
    LET f == Frames[v]
    IN  Synced([r EXCEPT !.total = f, !.ok = TRUE, !.max = f, !.s = 1, !.e = f])

\* updateGlobalInputs and a send to Cut forget the last probe.
Forgotten(r) == [r EXCEPT !.last = NoPath, !.ok = FALSE]

\* globalFrameRange (utils.js) and Cut's own clamp of it.
GlobalRange(r) == <<r.from, r.to>>

WorkingRange(r) ==
    LET s == AtMost(AtLeast(r.from, 1), r.total)
    IN  <<s, AtMost(AtLeast(r.to, s), r.total)>>

\* In and Out are frames of the clip, in order.  The page shows one of a single
\* frame as 1 to 2, a frame that it does not have.
InClip(r) ==
    IF r.total = 1 THEN r.s = 1 /\ r.e = 2 ELSE 1 <= r.s /\ r.s < r.e /\ r.e <= r.total
=============================================================================
