------------------------------ MODULE PageTabs ------------------------------
(***************************************************************************)
(* The tabs of the page (app/static/app.js: switchTab, renderTabForm,      *)
(* updateGlobalInputs): one panel that every tab mounts its form in, the   *)
(* capture of a form before it goes and its return (pool/persistence.js),  *)
(* the global input bars, the clips and stills that the pools send to a    *)
(* tab, the answers of probes, pickers, the ranking and the agent, which    *)
(* mount or change forms when they come, the collection of a run, and the   *)
(* desk that a page load or a project brings back.                          *)
(***************************************************************************)
EXTENDS TabForms

CONSTANTS
    Journeys,   \* sets of tabs: a behaviour visits the tabs of one of them
    Bar,        \* what the user puts in a bar: sequences of paths
    Desks,      \* what sessions and projects hold: see DeskAssumption
    Sliding,    \* bound: the tabs on which the frame sliders are moved
    MaxActs,    \* bound: actions of the user
    MaxPend     \* bound: answers under way at once

ASSUME BoundAssumption == MaxActs \in Nat /\ MaxPend \in Nat
ASSUME JourneyAssumption == \A j \in Journeys : "none" \notin j

VARIABLES
    page,       \* the page: see Pages
    visits,     \* the tabs of this behaviour
    rank,       \* the ranking asked for: list, and whether the list was replaced since
    sent,       \* the clip or still sent to a tab, until something else happens
    typed,      \* what the user has set in each form: pairs of tab and control
    lost,       \* those that a form mounted again has since reset
    disturbed,  \* tabs whose values something else than their form has changed
    acts

vars == <<page, visits, rank, sent, typed, lost, disturbed, acts>>

Library == {"pool", "images", "sequence"}
Awaited == {"cut", "zoompan"}
NoRun == Library \cup {"quick", "watcher", "notes", "settings", "agent", "jobs", "imgcompare", "stablefluids"}
Idle == [asked |-> <<>>, same |-> TRUE]
NotSent == [to |-> "none", path |-> NoPath]

Controls(t) ==
    CASE t = "mosh" -> MoshControls
      [] t = "transmute" -> TransmuteControls
      [] t = "multi" -> MultiControls
      [] t = "deepdream" -> DeepDreamControls
      [] t = "fastsam" -> FastSAMControls
      [] t = "upscale" -> UpscaleControls
      [] t = "riferecohere" -> RifeRecohereControls
      [] t = "img2img" -> Img2ImgControls
      [] t = "txt2img" -> Txt2ImgControls
      [] t = "qr_art" -> QrArtControls
      [] t = "withoutbg" -> WithoutBgControls
      [] t = "styletransfer" -> StyleTransferControls
      [] t = "imagesort" -> ImageSortControls
      [] t = "agent" -> AgentControls
      [] t = "imageedit" -> ImageEditControls
      [] t = "cut" -> CutControls
      [] t = "zoompan" -> ZoompanControls
      [] t = "quick" -> QuickControls
      [] t = "watcher" -> WatcherControls
      [] t = "notes" -> NotesControls
      [] t = "settings" -> SettingsControls
      [] t = "jobs" -> [Plain EXCEPT !.dom = {}]
      [] OTHER -> Plain

ASSUME DeskAssumption ==
    \A d \in Desks :
        /\ \A k \in d.moved : k = <<k[1], k[2]>> /\ k[2] \in Controls(k[1]).dom \cup Controls(k[1]).page
        /\ d.video \in Seq(Videos)
        /\ d.range \in Nat \X Nat /\ 1 <= d.range[1] /\ d.range[1] < d.range[2]

----------------------------------------------------------------------------
\* Mounting a tab.

Await(p, kind, q) == [p EXCEPT !.pend = @ \cup {[kind |-> kind, of |-> p.tab, path |-> q]}]

\* renderCutForm mounts at once only when there is no clip to probe first.
RenderCut(p) ==
    IF ResolveCutVideo(p) = NoPath THEN CutForm(p)
    ELSE Await([p EXCEPT !.range = Asked(@, ResolveCutVideo(p))], "cut", ResolveCutVideo(p))

RenderZoompan(p) == Await(p, "zoompan", ResolveZoompanImage(p))

FormOf(p, t) ==
    CASE t = "mosh" -> MoshForm(p)
      [] t = "deepdream" -> DeepDreamForm(p)
      [] t = "facemorph" -> FaceMorphForm(p)
      [] t = "withoutbg" -> WithoutBgForm(p)
      [] t = "fastsam" -> FastSAMForm(p)
      [] t = "styletransfer" -> StyleTransferForm(p)
      [] t = "rife" -> RifeForm(p)
      [] t = "img2img" -> ApplyPendingToImg2Img(Img2ImgForm(p))
      [] t = "txt2img" -> ApplyPendingToTxt2Img(Txt2ImgForm(p))
      [] t = "qr_art" -> QrArtForm(p)
      [] t = "agent" -> AgentForm(p)
      [] t = "upscale" -> UpscaleForm(p)
      [] t = "riferecohere" -> RifeRecohereForm(p)
      [] t = "speedchange" -> SpeedChangeForm(p)
      [] t = "transmute" -> TransmuteForm(p)
      [] t = "multi" -> MultiForm(p)
      [] t = "quick" -> QuickForm(p)
      [] t = "watcher" -> WatcherForm(p)
      [] t = "advanced" -> AdvancedForm(p)
      [] t = "convert" -> ConvertForm(p)
      [] t = "cut" -> RenderCut(p)
      [] t = "zoompan" -> RenderZoompan(p)
      [] t = "imagesort" -> ImageSortForm(p)
      [] t = "imageedit" -> ImageEditForm(p)
      [] t = "jobs" -> JobsForm(p)
      [] t = "notes" -> NotesForm(p)
      [] t = "settings" -> SettingsForm(p)
      [] OTHER -> Mount(p, t, NoPath)

\* applySavedFormState sets the controls of the mounted form by their ids and
\* tells their listeners, which write the page state.
ApplySaved(p, t) ==
    IF t = "settings" \/ t \notin DOMAIN p.saved THEN p
    ELSE LET f == p.saved[t]
         IN  IF f.of # p.panel.of \/ f.of = "none" THEN p
             ELSE [p EXCEPT !.panel = f,
                            !.kept = {k \in @ : k[1] # f.of} \cup
                                     {<<f.of, o>> : o \in f.opts \cap Controls(f.of).page},
                            !.style = IF f.of = "styletransfer" THEN f.path ELSE @]

RenderTabForm(p, t) == ApplySaved(FormOf([p EXCEPT !.panel = Blank], t), t)

\* captureCurrentFormState, which first files the mounted form under a tab.
Captured(p) ==
    IF p.tab = "settings" THEN p
    ELSE LET f == [p.panel EXCEPT !.opts = @ \ Controls(p.panel.of).bare]
         IN  [p EXCEPT !.saved = [t \in DOMAIN p.saved \cup {p.tab} |-> IF t = p.tab THEN f ELSE p.saved[t]]]

\* A range tab whose first clip is not the one last probed asks for it.
SyncFromGlobal(p) ==
    LET q == IF p.gi.video # <<>> THEN First(p.gi.video) ELSE First(p.gi.image)
    IN  IF p.tab \in FrameRangeTabs /\ q \in Videos /\ q # p.range.last
        THEN Await([p EXCEPT !.range = Asked(@, q)], "probe", q)
        ELSE p

Left(p, t) == [Captured(p) EXCEPT !.tab = t]

\* A switch that captures the old form once the new tab is the active one.
SwitchTabLate(p, t) == SyncFromGlobal(RenderTabForm(Captured([p EXCEPT !.tab = t]), t))

SwitchTab(p, t) ==
    IF t = p.tab /\ t \in Library /\ p.panel.of = t THEN p
    ELSE SyncFromGlobal(RenderTabForm(Left(p, t), t))

\* updateGlobalInputs, and the listeners that Cut and Zoompan put on the bars.
UpdateGlobalInputs(p, gi) ==
    LET heard == IF p.tab = "cut" /\ gi.video # p.gi.video THEN Await(p, "cutTimer", NoPath)
                 ELSE IF p.tab = "zoompan" /\ gi.image # p.gi.image THEN Await(p, "zoompanTimer", NoPath)
                 ELSE p
    IN  SyncFromGlobal([heard EXCEPT !.gi = gi,
                                     !.range = IF First(gi.video) # First(p.gi.video) THEN Forgotten(@) ELSE @])

----------------------------------------------------------------------------
NewPage ==
    [tab |-> "mosh", panel |-> Blank, saved |-> <<>>,
     gi |-> [video |-> <<>>, image |-> <<>>, pathIn |-> <<>>],
     kept |-> {}, list |-> [t \in ListTabs |-> <<>>], sel |-> [t \in ListTabs |-> 1],
     style |-> NoPath, boxes |-> NoPath, handoff |-> "none", reply |-> FALSE,
     range |-> InitialRange, pend |-> {}]

\* applyDeskSnapshot takes the tab, the forms, the bars, the numbers of the
\* range and the page state of some tabs from a desk; the desks here hold no
\* lists.  applyPoolData then probes the first clip of the bar.
OnDesk == {"facemorph", "withoutbg", "styletransfer", "quick", "imagesort", "cut", "zoompan", "imgcompare",
           "imageedit", "watcher"}
Carried(k) == k[1] \in OnDesk /\ k[2] \in Controls(k[1]).page \ {"warm"}

\* Notes and Settings have stores of their own.
OwnStore(k) == k[1] \in {"notes", "settings"} \/ k[2] = "warm"

MovedOn(d) == {k \in d.moved : k[1] \in visits}
DeskForm(d, t) == [Blank EXCEPT !.of = t, !.opts = {k[2] : k \in {x \in d.moved : x[1] = t}}]

ApplyDeskSnapshot(p, d, t) ==
    [p EXCEPT !.tab = t,
              !.saved = [u \in {k[1] : k \in MovedOn(d)} \ {"settings"} |-> DeskForm(d, u)],
              !.gi = [video |-> d.video, image |-> <<>>, pathIn |-> <<>>],
              !.kept = {k \in p.kept : ~Carried(k)} \cup {k \in MovedOn(d) : Carried(k)},
              !.list = [u \in ListTabs |-> IF u \in OnDesk THEN <<>> ELSE p.list[u]],
              !.sel = [u \in ListTabs |-> IF u \in OnDesk THEN 1 ELSE p.sel[u]],
              !.style = NoPath, !.boxes = NoPath,
              !.range = Restored(p.range, d.range[1], d.range[2])]

ApplyPoolData(p, d, t) ==
    LET q == ApplyDeskSnapshot(p, d, t)
        v == First(d.video)
    IN  IF v = NoPath \/ Skipped(q.range, v, FALSE) THEN q
        ELSE Await([q EXCEPT !.range = Asked(q.range, v)], "probe", v)

\* init: the session comes back and the tab that it was left on is mounted,
\* whose form of the session the switch replaces by the empty panel.
Session(d, t) == ApplyPoolData([NewPage EXCEPT !.kept = {k \in MovedOn(d) : OwnStore(k)}], d, t)

Init ==
    /\ visits \in Journeys
    /\ \E d \in Desks, t \in visits :
          /\ page = SwitchTab(Session(d, t), t)
          /\ typed = MovedOn(d)
          /\ lost = {k \in MovedOn(d) : k[1] = t /\ k \notin Session(d, t).kept}
    /\ rank = Idle /\ sent = NotSent
    /\ disturbed = {}
    /\ acts = 0

\* What should still be shown of what the user has set.
Held == typed \ lost

TypedIn(t) == {k \in typed : k[1] = t}
Flip(s, x) == IF x \in s THEN s \ {x} ELSE s \cup {x}
\* A form mounted again in its own place keeps what is page state.
PanelOnly(t) == {k \in TypedIn(t) : k[2] \in Controls(t).dom}

Acts(p) ==
    /\ acts < MaxActs
    /\ Cardinality(p.pend) <= MaxPend
    /\ acts' = acts + 1
    /\ page' = p

----------------------------------------------------------------------------
\* The user goes to a tab.
Switch(t) ==
    /\ t \in visits
    /\ Acts(SwitchTab(page, t))
    /\ sent' = NotSent
    /\ UNCHANGED <<visits, rank, typed, lost, disturbed>>

\* The user types a path into the form that is mounted.
HasPath == {"mosh", "transmute", "advanced", "rife", "speedchange", "convert", "deepdream", "fastsam",
            "upscale", "riferecohere", "img2img", "qr_art", "styletransfer"}
TypePath(q) ==
    /\ page.panel.of \in HasPath
    /\ Acts([page EXCEPT !.panel.path = q,
                         !.style = IF page.panel.of = "styletransfer" THEN q ELSE @])
    /\ sent' = NotSent
    /\ UNCHANGED <<visits, rank, typed, lost, disturbed>>

TypeOther(q) ==
    /\ page.panel.of \in {"riferecohere", "qr_art"}
    /\ Acts([page EXCEPT !.panel.other = q])
    /\ sent' = NotSent
    /\ UNCHANGED <<visits, rank, typed, lost, disturbed>>

\* The user moves another control.  Zoompan's aspect and Cut's compare mode
\* mount their form again; a warm switch of Settings belongs to another tab.
Toggle(o) ==
    LET t == page.panel.of
        c == Controls(t)
        own == [page EXCEPT !.panel.opts = Flip(@, o),
                            !.kept = IF o \in c.page THEN Flip(@, <<t, o>>) ELSE @]
    IN  /\ t # "none"
        /\ o \in c.dom \cup c.page \cup c.bare
        /\ Acts(CASE t = "cut" /\ o = "compare" -> RenderCut(own)
                  [] t = "zoompan" /\ o = "aspect" -> RenderZoompan(own)
                  [] OTHER -> own)
        /\ typed' = IF o \in page.panel.opts THEN typed \ {<<t, o>>} ELSE typed \cup {<<t, o>>}
        /\ lost' = lost \ {<<t, o>>}
        /\ sent' = NotSent
        /\ UNCHANGED <<visits, rank, disturbed>>

\* A switch of Settings that another tab shows too.
ToggleWarm(t) ==
    /\ page.panel.of = "settings" /\ t \in visits \cap {"deepdream", "fastsam", "styletransfer"}
    /\ Acts([page EXCEPT !.kept = Flip(@, <<t, "warm">>)])
    /\ disturbed' = disturbed \cup {t}
    /\ sent' = NotSent
    /\ UNCHANGED <<visits, rank, typed, lost>>

\* Quick's button takes the sequence's settings and mounts the form again.
QuickCopy ==
    /\ page.panel.of = "quick"
    /\ Acts(QuickForm([page EXCEPT !.kept = {k \in @ : k[1] # "quick"}]))
    /\ typed' = typed \ TypedIn("quick")
    /\ sent' = NotSent
    /\ UNCHANGED <<visits, rank, lost, disturbed>>

SetGlobal(bar, lines) ==
    /\ page.gi[bar] # lines
    /\ Acts(UpdateGlobalInputs(page, [page.gi EXCEPT ![bar] = lines]))
    /\ sent' = NotSent
    /\ UNCHANGED <<visits, rank, typed, lost, disturbed>>

----------------------------------------------------------------------------
\* A pool sends a clip or a still.

FieldSet(p, t, q) == IF p.panel.of = t THEN [p EXCEPT !.panel.path = q] ELSE p
Listed(p, t, q) == IF q \in Range(p.list[t]) THEN p ELSE [p EXCEPT !.list[t] = Append(@, q)]

\* The field filled before its form is mounted.
ShownAfter(p, t, q) == SwitchTab(FieldSet(p, t, q), t)

\* Every target but Speed Change, whose field has another name, is shown and
\* then gets the path.
Shown(p, t, q) == IF t = "speedchange" THEN SwitchTab(p, t) ELSE FieldSet(SwitchTab(p, t), t, q)

SendPoolPathTo(p, t, q) ==
    CASE t = "multi" -> SwitchTab([p EXCEPT !.list[t] = Append(@, q)], t)
      [] t = "cut" -> SwitchTab([UpdateGlobalInputs(p, [p.gi EXCEPT !.video = <<q>>])
                                 EXCEPT !.range = Forgotten(@)], t)
      [] t \in {"styletransfer", "facemorph", "withoutbg"} -> FormOf(SwitchTab(Listed(p, t, q), t), t)
      [] t = "agent" -> SwitchTab(Listed(p, t, q), t)
      [] OTHER -> Shown(p, t, q)

VideoTargets == {"mosh", "deepdream", "transmute", "advanced", "rife", "speedchange", "upscale", "fastsam",
                 "convert", "img2img", "multi", "cut", "styletransfer", "facemorph", "withoutbg", "agent"}

SendImagePathTo(p, t, q) ==
    CASE t \in {"facemorph", "withoutbg", "styletransfer", "agent", "imagesort"} -> SwitchTab(Listed(p, t, q), t)
      [] t = "deepdream" -> UpdateGlobalInputs(Shown(p, t, q), [Shown(p, t, q).gi EXCEPT !.image = <<q>>])
      [] t = "cut" -> SwitchTab([p EXCEPT !.kept = @ \cup {<<"cut", "ref">>}], t)
      [] t = "zoompan" -> SwitchTab([p EXCEPT !.kept = @ \cup {<<"zoompan", "compare">>}], t)
      [] OTHER -> Shown(p, t, q)

ImageTargets == {"facemorph", "withoutbg", "styletransfer", "agent", "imagesort", "deepdream", "upscale",
                 "fastsam", "convert", "img2img", "cut", "zoompan"}

\* Sent to the style field of Style Transfer: page state, then the mount.
SendStyleRef(p, q) == SwitchTab([p EXCEPT !.style = q], "styletransfer")

\* The lists' forms are mounted a second time by the video pool.
Remounted(t) == IF t \in {"styletransfer", "facemorph", "withoutbg"} THEN lost \cup PanelOnly(t) ELSE lost

SendVideo(t, q) ==
    /\ t \in VideoTargets \cap visits
    /\ Acts(SendPoolPathTo(page, t, q))
    /\ sent' = [to |-> t, path |-> q]
    /\ lost' = Remounted(t)
    /\ UNCHANGED <<visits, rank, typed, disturbed>>

SendImage(t, q) ==
    /\ t \in ImageTargets \cap visits
    /\ Acts(SendImagePathTo(page, t, q))
    /\ sent' = IF t \in {"cut", "zoompan"} THEN NotSent ELSE [to |-> t, path |-> q]
    /\ UNCHANGED <<visits, rank, typed, lost, disturbed>>

SendStyle(q) ==
    /\ "styletransfer" \in visits
    /\ Acts(SendStyleRef(page, q))
    /\ sent' = NotSent
    /\ UNCHANGED <<visits, rank, typed, lost, disturbed>>

----------------------------------------------------------------------------
\* Lists.  An edit mounts the form of its tab again, whatever is shown, and
\* what only the panel held is gone; Multi redraws its list alone.

MovedTo(s, from, to) == InsertAt(RemoveAt(s, from), to, s[from])
Selected(p, t, s, i) == [p EXCEPT !.list[t] = s, !.sel[t] = i]
Redrawn(p, t) == IF t = "multi" THEN p ELSE FormOf(p, t)

RemoveListed(p, t, i) ==
    LET s == RemoveAt(p.list[t], i)
    IN  Selected(p, t, s, IF p.sel[t] > Len(s) THEN AtLeast(Len(s), 1) ELSE p.sel[t])

Edit(t, p) ==
    /\ page.panel.of = t
    /\ Acts(Redrawn(p, t))
    /\ lost' = IF t = "multi" THEN lost ELSE lost \cup PanelOnly(t)
    /\ sent' = NotSent
    /\ UNCHANGED <<visits, typed, disturbed>>

\* The buttons of the rows; Image Sort's act on its selection.
RemoveRow(t, i) ==
    /\ i \in DOMAIN page.list[t]
    /\ t = "imagesort" => i = page.sel[t]
    /\ Edit(t, RemoveListed(page, t, i))
    /\ UNCHANGED rank

SwapRow(t, i, d) ==
    /\ t \in {"facemorph", "imagesort", "multi"}
    /\ i \in DOMAIN page.list[t] /\ i + d \in DOMAIN page.list[t]
    /\ t = "imagesort" => i = page.sel[t]
    /\ Edit(t, Selected(page, t, MovedTo(page.list[t], i, i + d), IF t = "multi" THEN page.sel[t] ELSE i + d))
    /\ UNCHANGED rank

ToEnd(first) ==
    LET s == page.list["imagesort"]
        i == page.sel["imagesort"]
        to == IF first THEN 1 ELSE Len(s)
    IN  /\ s # <<>> /\ i # to
        /\ Edit("imagesort", Selected(page, "imagesort", MovedTo(s, i, to), to))
        /\ UNCHANGED rank

\* Ctrl+arrow on the selected row, arrow and click on a row.
KeyMove(t, d) ==
    LET s == page.list[t]
        i == Clamped(s, page.sel[t])
    IN  /\ t \in {"facemorph", "withoutbg", "styletransfer", "imagesort"} /\ t = page.tab
        /\ s # <<>> /\ i + d \in DOMAIN s
        /\ Edit(t, Selected(page, t, MovedTo(s, i, i + d), i + d))
        /\ UNCHANGED rank

SelectRow(t, i) ==
    /\ t \in ListTabs \ {"multi", "agent"} /\ page.panel.of = t
    /\ i \in DOMAIN page.list[t] /\ i # page.sel[t]
    /\ Acts([page EXCEPT !.sel[t] = i])
    /\ UNCHANGED <<visits, rank, sent, typed, lost, disturbed>>

\* Clear replaces the list: a ranking asked before still holds the old one.
Outdated(r) == IF r = Idle THEN r ELSE [r EXCEPT !.same = FALSE]

ClearList(t) ==
    /\ t \in ListTabs \ {"multi"} /\ page.list[t] # <<>>
    /\ Edit(t, Selected(page, t, <<>>, IF t = "imagesort" THEN 1 ELSE page.sel[t]))
    /\ rank' = IF t = "imagesort" THEN Outdated(rank) ELSE rank

\* A form that comes over another tab takes the place of that tab's.
Over(t) == IF page.tab # t THEN disturbed \cup {page.tab, t} ELSE disturbed

\* The answer to r comes and leaves the page p, in which t was mounted.
Comes(r, p, t) ==
    /\ r \in page.pend
    /\ page' = [p EXCEPT !.pend = @ \ {r}]
    /\ disturbed' = Over(t)
    /\ sent' = NotSent
    /\ UNCHANGED <<visits, acts>>

\* A picker asks the server; its answer adds a path and mounts the form.
PickAsk(t) ==
    /\ t \in ListTabs \ {"multi"} /\ page.panel.of = t
    /\ Acts([page EXCEPT !.pend = @ \cup {[kind |-> "pick", of |-> t, path |-> NoPath]}])
    /\ UNCHANGED <<visits, rank, sent, typed, lost, disturbed>>

Picked(t, q) ==
    LET p == Listed(page, t, q)
    IN  FormOf(IF t = "imagesort" /\ p # page THEN [p EXCEPT !.sel[t] = Len(p.list[t])] ELSE p, t)

PickAnswer(r, q) ==
    /\ r.kind = "pick"
    /\ Comes(r, Picked(r.of, q), r.of)
    /\ lost' = lost \cup PanelOnly(r.of)
    /\ UNCHANGED <<rank, typed>>

\* Image Sort's ranking is asked for the list of then.  Its answer replaces
\* whatever the list is now; the selection follows its image, which is looked
\* up in the list of then, the list of now unless Clear has replaced it.
RankAsk ==
    /\ page.panel.of = "imagesort" /\ Len(page.list["imagesort"]) >= 2
    /\ rank = Idle
    /\ Acts(page)
    /\ rank' = [asked |-> page.list["imagesort"], same |-> TRUE]
    /\ UNCHANGED <<visits, sent, typed, lost, disturbed>>

Lookup(s, i) == IF i \in DOMAIN s THEN s[i] ELSE NoPath

\* A ranking that keeps the place of the selection instead of its image.
RankedInPlace(p, order) == ImageSortForm([p EXCEPT !.list["imagesort"] = order])

Ranked(p, order) ==
    LET held == IF rank.same THEN p.list["imagesort"] ELSE rank.asked
        q == Lookup(held, p.sel["imagesort"])
    IN  ImageSortForm(Selected(p, "imagesort", order,
                               IF q \in Range(order) THEN CHOOSE i \in DOMAIN order : order[i] = q ELSE 1))

RankAnswer(order) ==
    /\ rank # Idle
    /\ page' = Ranked(page, order)
    /\ rank' = Idle
    /\ lost' = lost \cup PanelOnly("imagesort")
    /\ disturbed' = Over("imagesort")
    /\ sent' = NotSent
    /\ UNCHANGED <<visits, typed, acts>>

\* A ranking that fails only says so.
RankFails == rank # Idle /\ rank' = Idle /\ UNCHANGED <<page, visits, sent, typed, lost, disturbed, acts>>

----------------------------------------------------------------------------
\* The agent: a message goes out with the list, its answer mounts the form.

AgentSend ==
    LET skilled == "skill" \in Kept(page, "agent")
    IN  /\ page.panel.of = "agent"
        /\ page.list["agent"] # <<>> \/ (~skilled /\ "message" \in page.panel.opts)
        /\ Acts([AgentForm(page) EXCEPT !.pend = @ \cup {[kind |-> "agent", of |-> "agent", path |-> NoPath]}])
        /\ lost' = lost \cup PanelOnly("agent")
        /\ sent' = NotSent
        /\ UNCHANGED <<visits, rank, typed, disturbed>>

AgentAnswer(r) ==
    /\ r.kind = "agent"
    /\ Comes(r, [AgentForm(page) EXCEPT !.reply = TRUE], "agent")
    /\ lost' = lost \cup PanelOnly("agent")
    /\ UNCHANGED <<rank, typed>>

\* Clear history takes the answers away.
ClearHistory ==
    /\ page.panel.of = "agent" /\ page.reply
    /\ Acts([AgentForm(page) EXCEPT !.reply = FALSE])
    /\ lost' = lost \cup PanelOnly("agent")
    /\ sent' = NotSent
    /\ UNCHANGED <<visits, rank, typed, disturbed>>

\* Its last answer goes to a prompt field, where a saved form that comes back
\* takes its place again.
ComesBack(t) == t \in DOMAIN page.saved /\ page.saved[t].of = t

Handoff(t) ==
    LET k == <<t, "prompt">>
    IN  /\ t \in visits \cap {"img2img", "txt2img"}
        /\ page.panel.of = "agent" /\ page.reply
        /\ Acts(SwitchTab([page EXCEPT !.handoff = t], t))
        /\ typed' = typed \cup {k}
        /\ lost' = IF ComesBack(t) /\ k \notin Held THEN lost \cup {k} ELSE lost \ {k}
        /\ sent' = NotSent
        /\ UNCHANGED <<visits, rank, disturbed>>

----------------------------------------------------------------------------
\* Answers that mount Cut and Zoompan, timers that ask for them again, and
\* the answers of probes: none asks whether its tab is still shown.

CutAnswer(r, found) ==
    /\ r.kind = "cut" /\ (found => r.path \in Videos)
    /\ Comes(r, CutForm([page EXCEPT !.range = IF found THEN Probed(@, r.path) ELSE @]), "cut")
    /\ UNCHANGED <<rank, typed, lost>>

ZoompanAnswer(r, found) ==
    /\ r.kind = "zoompan"
    /\ Comes(r, ZoompanForm([page EXCEPT !.boxes = IF found \/ r.path = NoPath THEN r.path ELSE @]), "zoompan")
    /\ UNCHANGED <<rank, typed, lost>>

TimerFires(r) ==
    /\ r.kind \in {"cutTimer", "zoompanTimer"}
    /\ IF r.kind = "zoompanTimer" THEN Comes(r, RenderZoompan(page), "zoompan")
       ELSE Comes(r, RenderCut(page), "cut")
    /\ UNCHANGED <<rank, typed, lost>>

ProbeAnswer(r, found) ==
    /\ r.kind = "probe"
    /\ Comes(r, [page EXCEPT !.range = IF found THEN Probed(@, r.path) ELSE @], page.tab)
    /\ UNCHANGED <<rank, typed, lost>>

----------------------------------------------------------------------------
\* A project is opened: its desk takes the place of the page's while the old
\* panel is still mounted, and once the session has been saved the library is
\* shown.  Nothing is left of what the user has set, right or not.
OpenProject(d, t) ==
    LET p == ApplyPoolData(page, d, t)
    IN  /\ {"pool", t} \subseteq visits
        /\ Acts([p EXCEPT !.pend = @ \cup {[kind |-> "open", of |-> t, path |-> NoPath]}])
        /\ rank' = Outdated(rank)
        /\ disturbed' = disturbed \cup visits
        /\ sent' = NotSent
        /\ UNCHANGED <<visits, typed, lost>>

ProjectOpened(r) ==
    LET mounted == page.tab \in {"pool", "images"}
    IN  /\ r.kind = "open" /\ "pool" \in visits
        /\ Comes(r, IF mounted THEN FormOf(Captured(page), page.tab) ELSE SwitchTab(page, "pool"), page.tab)
        /\ lost' = IF mounted THEN lost \cup PanelOnly(page.tab) ELSE lost
        /\ UNCHANGED <<rank, typed>>

----------------------------------------------------------------------------
\* The frame sliders, shown on the tabs that run on a range.
Slide(range) ==
    /\ page.tab \in FrameRangeTabs \cap Sliding
    /\ Acts([page EXCEPT !.range = range])
    /\ UNCHANGED <<visits, rank, sent, typed, lost, disturbed>>

SlideThumb(which, v) == Slide(ThumbTo(page.range, which, v))
SlideStep(which, d) == Slide(IF which = "start" THEN StepStart(page.range, d) ELSE StepEnd(page.range, d))
SlideKey(which, d) == Slide(IF which = "start" THEN StepStart(page.range, d) ELSE NudgeEnd(page.range, d))
SlideTyped(which, v) == Slide(Committed(page.range, which, v))
SlideGrab == page.range.drag = <<>> /\ Slide(Grabbed(page.range))
SlideDrag(d) == page.range.drag # <<>> /\ Slide(Dragged(page.range, d))
SlideDrop == page.range.drag # <<>> /\ Slide(Dropped(page.range))

----------------------------------------------------------------------------
\* Run: the body that the shown tab's collector makes of the page.

BodyOf(p) ==
    CASE p.tab = "mosh" -> MoshBody(p)
      [] p.tab = "transmute" -> TransmuteBody(p)
      [] p.tab = "multi" -> MultiBody(p)
      [] p.tab = "deepdream" -> DeepDreamBody(p)
      [] p.tab = "facemorph" -> FaceMorphBody(p)
      [] p.tab = "withoutbg" -> WithoutBgBody(p)
      [] p.tab = "fastsam" -> FastSAMBody(p)
      [] p.tab = "styletransfer" -> StyleTransferBody(p)
      [] p.tab = "rife" -> RifeBody(p)
      [] p.tab = "img2img" -> Img2ImgBody(p)
      [] p.tab = "txt2img" -> Txt2ImgBody(p)
      [] p.tab = "qr_art" -> QrBody(p)
      [] p.tab = "upscale" -> UpscaleBody(p)
      [] p.tab = "riferecohere" -> RifeRecohereBody(p)
      [] p.tab = "speedchange" -> SpeedChangeBody(p)
      [] p.tab = "convert" -> ConvertBody(p)
      [] p.tab = "zoompan" -> ZoompanBody(p)
      [] p.tab = "imagesort" -> ImageSortBody(p)
      [] p.tab = "cut" -> CutBody(p)
      [] p.tab = "imageedit" -> ImageEditBody(p)
      [] p.tab = "advanced" -> AdvancedBody(p)
      [] OTHER -> Refused

\* The collector of Style Transfer writes its style field to the page.
Run ==
    /\ page.tab \notin NoRun
    /\ Acts(IF page.tab = "styletransfer" /\ Field(page, "styletransfer") # NoPath
            THEN [page EXCEPT !.style = Field(page, "styletransfer")] ELSE page)
    /\ sent' = NotSent
    /\ UNCHANGED <<visits, rank, typed, lost, disturbed>>

Next ==
    \/ \E t \in visits : Switch(t) \/ ToggleWarm(t) \/ ClearList(t) \/ PickAsk(t) \/ Handoff(t)
    \/ \E q \in Paths : TypePath(q) \/ TypeOther(q)
    \/ \E o \in Controls(page.panel.of).dom \cup Controls(page.panel.of).page \cup Controls(page.panel.of).bare :
          Toggle(o)
    \/ QuickCopy \/ AgentSend \/ ClearHistory \/ Run \/ RankAsk \/ RankFails
    \/ \E bar \in DOMAIN Bar : \E lines \in Bar[bar] : SetGlobal(bar, lines)
    \/ \E t \in visits, q \in Videos : SendVideo(t, q)
    \/ \E t \in visits, q \in Images : SendImage(t, q)
    \/ \E q \in Images : SendStyle(q)
    \/ \E d \in Desks, t \in visits : OpenProject(d, t)
    \/ \E t \in visits \cap ListTabs : \E i \in DOMAIN page.list[t] :
          RemoveRow(t, i) \/ SelectRow(t, i) \/ \E d \in {-1, 1} : SwapRow(t, i, d)
    \/ \E t \in visits \cap ListTabs, d \in {-1, 1} : KeyMove(t, d)
    \/ \E first \in BOOLEAN : ToEnd(first)
    \/ \E r \in page.pend :
          \/ AgentAnswer(r) \/ TimerFires(r) \/ ProjectOpened(r)
          \/ \E q \in Images : PickAnswer(r, q)
          \/ \E found \in BOOLEAN : CutAnswer(r, found) \/ ZoompanAnswer(r, found) \/ ProbeAnswer(r, found)
    \/ \E order \in SetToSeqs(Range(rank.asked)) : RankAnswer(order)
    \/ \E which \in {"start", "end"} :
          \/ \E v \in {0, 1, page.range.total} : SlideThumb(which, v) \/ SlideTyped(which, v)
          \/ \E d \in {-1, 1} : SlideStep(which, d) \/ SlideKey(which, d)
    \/ SlideGrab \/ SlideDrop \/ \E d \in {-1, 1} : SlideDrag(d)

Spec == Init /\ [][Next]_vars

----------------------------------------------------------------------------
\* Properties.

\* What the user has set in a form is what it shows whenever its tab is shown,
\* however often tabs are switched and forms captured, mounted and given back,
\* after a page load too.  Set aside, as `lost', are the controls that live in
\* the panel alone, once an edit of the form's list, a picker, the ranking, the
\* agent or the video pool's send has mounted the form again in its place; the
\* controls of the tab that a page load shows first; and the agent's prompt
\* where the saved form comes over it.  Tabs over which an answer has mounted
\* another tab's form, whose value Settings has changed, or that a project has
\* replaced are `disturbed'; Cut and Zoompan mount when their answers come.
TypingKept ==
    LET t == page.tab
        c == Controls(t)
    IN  page.panel.of = t /\ t \notin Awaited \cup disturbed =>
            page.panel.opts \ c.bare = {k[2] : k \in {x \in Held : x[1] = t}} \ c.bare

\* A clip or still sent to a tab is an input of the run that its form then
\* asks for.  Not so where a global bar that the tab reads holds anything else
\* than that path alone, where the form refuses to run or its collector throws
\* (Upscale's always does), and not for Speed Change, whose field is missed.
SentClipRuns ==
    sent # NotSent /\ sent.to \notin NoRun \cup {"speedchange"} =>
        LET b == BodyOf(page)
        IN  \/ b.op \in {"refused", "thrown"}
            \/ sent.path \in Range(b.inputs)
            \/ Bars(sent.to, page.gi) \notin {<<>>, <<sent.path>>}

\* Whatever mixture of sliders, boxes, keys, drags and answers of probes moved
\* them, In and Out are frames of the clip last probed, in order, or 1 and 2
\* where that clip has a single frame (it has no frame 2).  They are also what
\* runs send, from the first move or probe after a desk was restored: its own
\* numbers until then may be of another clip.  The range that a cut is asked
\* for lies in the clip always.
RangeInClip ==
    /\ InClip(page.range)
    /\ ~page.range.desk => GlobalRange(page.range) = <<page.range.s, page.range.e>>
    /\ LET w == WorkingRange(page.range) IN 1 <= w[1] /\ w[1] <= w[2] /\ w[2] <= page.range.total

\* The answer of the ranking selects the image that was selected before it,
\* where the list still is the one asked for and the image is in it.
RankKeepsSelection ==
    [][\A order \in SetToSeqs(Range(rank.asked)) :
          RankAnswer(order) /\ rank.same /\ Len(page.list["imagesort"]) > 0 =>
              LET q == Lookup(page.list["imagesort"], page.sel["imagesort"])
              IN  q \in Range(order) => Lookup(page'.list["imagesort"], page'.sel["imagesort"]) = q]_vars
=============================================================================
