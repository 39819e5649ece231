------------------------------ MODULE TabForms ------------------------------
(***************************************************************************)
(* The forms of the tabs (app/static/js/tabs/*.js): what each shows when it *)
(* is mounted in the panel, which of its controls write the page state and  *)
(* so survive a new mount, and the body its collector makes for Run.        *)
(* A form is the tab that mounted it, the value of its input field, of its  *)
(* second path field, and the set of its other controls that the user has   *)
(* moved.  `p' is the page: see PageTabs.                                   *)
(***************************************************************************)
EXTENDS FrameRange, Sequences, SequencesExt, FiniteSets, TLC

CONSTANT Images     \* paths of stills

ASSUME ImageAssumption == Videos \cap Images = {} /\ NoPath \notin Images

Paths == Videos \cup Images
Forms == [of : STRING, path : Paths \cup {NoPath}, other : Paths \cup {NoPath}, opts : SUBSET STRING]
Blank == [of |-> "none", path |-> NoPath, other |-> NoPath, opts |-> {}]
First(s) == IF s = <<>> THEN NoPath ELSE s[1]
Line(q) == IF q = NoPath THEN <<>> ELSE <<q>>

----------------------------------------------------------------------------
\* Inputs: the global bars first, as far as the tab accepts them.

TabAccepts(t) ==
    CASE t \in {"mosh", "transmute", "multi", "rife", "speedchange", "advanced", "quick", "cut"} -> "video"
      [] t \in {"facemorph", "withoutbg", "riferecohere", "imagesort", "imageedit", "imgcompare", "zoompan"} -> "image"
      [] t \in {"txt2img", "qr_art", "agent", "notes", "settings", "stablefluids"} -> "none"
      [] OTHER -> "any"

FrameRangeTabs ==
    {"mosh", "deepdream", "rife", "img2img", "speedchange", "convert", "transmute", "styletransfer",
     "withoutbg", "fastsam", "facemorph", "multi", "advanced", "cut", "imagesort"}

Bars(t, gi) ==
    IF TabAccepts(t) \in {"video", "any"} /\ gi.video # <<>> THEN gi.video
    ELSE IF TabAccepts(t) \in {"image", "any"} /\ gi.image # <<>> THEN gi.image
    ELSE gi.pathIn

AllInputPaths(t, gi, local) ==
    FoldLeft(LAMBDA seen, q : IF q \in Range(seen) THEN seen ELSE Append(seen, q), <<>>,
             IF Bars(t, gi) # <<>> THEN Bars(t, gi) ELSE Line(local))

BestInput(t, gi, local) == First(AllInputPaths(t, gi, local))

----------------------------------------------------------------------------
\* Mounting.

Kept(p, t) == {o[2] : o \in {k \in p.kept : k[1] = t}}
Mount(p, t, q) == [p EXCEPT !.panel = [of |-> t, path |-> q, other |-> NoPath, opts |-> Kept(p, t)]]
Field(p, t) == IF p.panel.of = t THEN p.panel.path ELSE NoPath
Other(p, t) == IF p.panel.of = t THEN p.panel.other ELSE NoPath
Opts(p, t) == IF p.panel.of = t THEN p.panel.opts ELSE {}
Best(p, t) == BestInput(t, p.gi, Field(p, t))

\* Controls of a form: `dom' live in the panel only, `page' also write the page
\* state, `bare' are neither, as no control of the panel carries their id.
Plain == [dom |-> {"tuned"}, page |-> {}, bare |-> {}]

\* What a run posts: the operation, its inputs in order, a second path and
\* whether the global range goes with it.
Body(op, inputs, aux, opts, range) ==
    [op |-> op, inputs |-> inputs, aux |-> aux, opts |-> opts, range |-> range]
Refused == Body("refused", <<>>, NoPath, {}, <<>>)
Thrown == Body("thrown", <<>>, NoPath, {}, <<>>)
OneInput(p, t, op) ==
    IF Best(p, t) = NoPath THEN Refused
    ELSE Body(op, <<Best(p, t)>>, NoPath, Opts(p, t), GlobalRange(p.range))

----------------------------------------------------------------------------
\* Datamosh: the mode is page state, its parameters are in the panel; the
\* collector reads them without asking whether the form is there.
MoshControls == [dom |-> {"tuned"}, page |-> {"classic"}, bare |-> {}]
MoshForm(p) == Mount(p, "mosh", NoPath)
MoshBody(p) ==
    IF Best(p, "mosh") # NoPath /\ p.panel.of # "mosh" /\ "classic" \notin Kept(p, "mosh") THEN Thrown
    ELSE [OneInput(p, "mosh", "datamosh") EXCEPT !.opts = @ \cup Kept(p, "mosh")]

\* Transmute, multi and advanced.
TransmuteControls == [dom |-> {"tuned"}, page |-> {"ramp"}, bare |-> {}]
TransmuteForm(p) == Mount(p, "transmute", NoPath)
TransmuteBody(p) ==
    IF Best(p, "transmute") # NoPath /\ p.panel.of # "transmute" /\ "ramp" \notin Kept(p, "transmute") THEN Thrown
    ELSE [OneInput(p, "transmute", "transmute") EXCEPT !.opts = @ \cup Kept(p, "transmute")]

MultiControls == [dom |-> {"tuned"}, page |-> {"grid"}, bare |-> {}]
MultiForm(p) == Mount(p, "multi", NoPath)
MultiBody(p) ==
    LET n == Len(p.list["multi"])
        grid == "grid" \in Kept(p, "multi")
    IN  IF n < 2 \/ (grid /\ n # 4) THEN Refused
        ELSE Body("multi", p.list["multi"], NoPath, Opts(p, "multi") \cup Kept(p, "multi"), <<>>)

AdvancedForm(p) == Mount(p, "advanced", NoPath)
AdvancedBody(p) == [OneInput(p, "advanced", "raw") EXCEPT !.range = <<>>]

\* RIFE, Speed Change, Convert, DeepDream: one input, the bars before the field.
RifeForm(p) == Mount(p, "rife", NoPath)
RifeBody(p) == OneInput(p, "rife", "rife")

SpeedChangeForm(p) == Mount(p, "speedchange", NoPath)
SpeedChangeBody(p) == OneInput(p, "speedchange", "speedchange")

ConvertForm(p) == Mount(p, "convert", BestInput("convert", p.gi, NoPath))
ConvertBody(p) == OneInput(p, "convert", "convert")

DeepDreamControls == [dom |-> {"tuned"}, page |-> {"warm"}, bare |-> {}]
DeepDreamForm(p) == Mount(p, "deepdream", NoPath)
DeepDreamBody(p) == OneInput(p, "deepdream", "deepdream")

\* FastSAM and Upscale take their field before the bars.  FastSAM posts even
\* without an input; Upscale names a variable that does not exist.
FastSAMControls == [dom |-> {"tuned"}, page |-> {"warm"}, bare |-> {}]
FastSAMForm(p) == Mount(p, "fastsam", BestInput("fastsam", p.gi, NoPath))
FastSAMBody(p) ==
    LET q == IF Field(p, "fastsam") # NoPath THEN Field(p, "fastsam") ELSE BestInput("fastsam", p.gi, NoPath)
    IN  Body("fastsam", Line(q), NoPath, Opts(p, "fastsam"), GlobalRange(p.range))

UpscaleControls == [dom |-> {"tuned"}, page |-> {}, bare |-> {"scale"}]
UpscaleForm(p) == Mount(p, "upscale", NoPath)
UpscaleBody(p) ==
    IF Field(p, "upscale") = NoPath /\ Best(p, "upscale") = NoPath THEN Refused ELSE Thrown

\* RIFE Recoherence: two stills of its own; its prompt is never empty unless
\* the user empties it.
RifeRecohereControls == [dom |-> {"tuned", "noPrompt"}, page |-> {}, bare |-> {}]
RifeRecohereForm(p) == Mount(p, "riferecohere", NoPath)
RifeRecohereBody(p) ==
    LET a == Field(p, "riferecohere")
        b == Other(p, "riferecohere")
    IN  IF a = NoPath \/ b = NoPath \/ "noPrompt" \in Opts(p, "riferecohere") \/ p.panel.of # "riferecohere"
        THEN Refused
        ELSE Body("rife_recohere", <<a, b>>, NoPath, Opts(p, "riferecohere"), <<>>)

\* Img2Img and Txt2Img: the agent's answer may come with the mount.
Img2ImgControls == [dom |-> {"prompt"}, page |-> {}, bare |-> {}]
Img2ImgForm(p) == Mount(p, "img2img", NoPath)
ApplyPendingToImg2Img(p) ==
    IF p.handoff # "img2img" THEN p
    ELSE [p EXCEPT !.panel.opts = @ \cup {"prompt"}, !.handoff = "none",
                   !.panel.path = IF p.list["agent"] = <<>> THEN @ ELSE p.list["agent"][1]]
Img2ImgBody(p) ==
    LET local == Field(p, "img2img")
        bars == Best(p, "img2img")
    IN  IF (local = NoPath /\ bars = NoPath) \/ "prompt" \notin Opts(p, "img2img") THEN Refused
        ELSE Body("img2img", <<IF local # NoPath THEN local ELSE bars>>, NoPath, Opts(p, "img2img"),
                  GlobalRange(p.range))

Txt2ImgControls == [dom |-> {"prompt", "tuned"}, page |-> {}, bare |-> {}]
Txt2ImgForm(p) == Mount(p, "txt2img", NoPath)
ApplyPendingToTxt2Img(p) ==
    IF p.handoff # "txt2img" THEN p
    ELSE [p EXCEPT !.panel.opts = @ \cup {"prompt"}, !.handoff = "none"]
Txt2ImgBody(p) ==
    IF "prompt" \notin Opts(p, "txt2img") THEN Refused
    ELSE Body("txt2img", <<>>, NoPath, Opts(p, "txt2img"), <<>>)

\* QR art: a QR code needs a text and a prompt; an illusion needs two stills,
\* each from its own field or from the lines of the image bar.
QrArtControls == [dom |-> {"text"}, page |-> {}, bare |-> {"illusion"}]
QrArtForm(p) == Mount(p, "qr_art", NoPath)
QrLine(p, own, i) == IF own # NoPath THEN own ELSE IF Len(p.gi.image) >= i THEN p.gi.image[i] ELSE NoPath
QrBody(p) ==
    LET pattern == QrLine(p, Field(p, "qr_art"), 1)
        look == QrLine(p, Other(p, "qr_art"), 2)
    IN  IF "illusion" \in Opts(p, "qr_art")
        THEN IF pattern = NoPath \/ look = NoPath THEN Refused
             ELSE Body("qr_art", <<pattern>>, look, Opts(p, "qr_art"), <<>>)
        ELSE IF "text" \notin Opts(p, "qr_art") THEN Refused
             ELSE Body("qr_art", <<>>, NoPath, Opts(p, "qr_art"), <<>>)

----------------------------------------------------------------------------
\* Forms over a list that is page state: mounting brings the selection back
\* into the list.
ListTabs == {"facemorph", "withoutbg", "styletransfer", "imagesort", "multi", "agent"}
Clamped(s, i) == IF s # <<>> /\ i > Len(s) THEN Len(s) ELSE i
Selecting(p, t) == [p EXCEPT !.sel[t] = Clamped(p.list[t], @)]

FaceMorphForm(p) == Mount(Selecting(p, "facemorph"), "facemorph", NoPath)
FaceMorphBody(p) ==
    LET own == p.list["facemorph"]
        q == IF Len(own) >= 2 THEN own ELSE p.gi.image
    IN  IF Len(q) < 2 THEN Refused
        ELSE Body("facemorph", q, NoPath, Opts(p, "facemorph"), <<>>)

WithoutBgControls == [dom |-> {"saveNone"}, page |-> {}, bare |-> {}]
WithoutBgForm(p) == Mount(Selecting(p, "withoutbg"), "withoutbg", NoPath)
WithoutBgBody(p) ==
    LET q == IF p.list["withoutbg"] # <<>> THEN p.list["withoutbg"] ELSE p.gi.image
    IN  IF q = <<>> \/ "saveNone" \in Opts(p, "withoutbg") \/ p.panel.of # "withoutbg" THEN Refused
        ELSE Body("withoutbg", q, NoPath, Opts(p, "withoutbg"), GlobalRange(p.range))

StyleTransferControls == [dom |-> {"evolve"}, page |-> {"warm"}, bare |-> {}]
StyleTransferForm(p) == Mount(Selecting(p, "styletransfer"), "styletransfer", p.style)
StyleTransferBody(p) ==
    LET own == p.list["styletransfer"]
        q == IF own # <<>> THEN own
             ELSE IF p.gi.image # <<>> THEN p.gi.image
             ELSE IF p.gi.video # <<>> THEN <<p.gi.video[1]>> ELSE <<>>
        style == IF Field(p, "styletransfer") # NoPath THEN Field(p, "styletransfer") ELSE p.style
        clips == {i \in DOMAIN q : q[i] \in Videos}
    IN  IF \/ q = <<>> \/ style = NoPath
           \/ clips # {} /\ (clips # DOMAIN q \/ Cardinality(clips) > 1)
           \/ "evolve" \in Opts(p, "styletransfer") /\ (clips # {} \/ Len(q) # 1)
        THEN Refused
        ELSE Body("styletransfer", q, style, Opts(p, "styletransfer"), GlobalRange(p.range))

ImageSortControls == [dom |-> {"tuned"}, page |-> {"mode"}, bare |-> {}]
ImageSortForm(p) ==
    Mount([Selecting(p, "imagesort") EXCEPT !.sel["imagesort"] = IF p.list["imagesort"] = <<>> THEN 1 ELSE @],
          "imagesort", NoPath)
ImageSortBody(p) ==
    IF Len(p.list["imagesort"]) < 2 THEN Refused
    ELSE Body("imagesort", p.list["imagesort"], NoPath, Opts(p, "imagesort"), <<>>)

AgentControls == [dom |-> {"message"}, page |-> {"skill"}, bare |-> {}]
AgentForm(p) == Mount(p, "agent", NoPath)

----------------------------------------------------------------------------
\* Image Edit keeps engine, format and stack; Cut and Zoompan work on the bars.
ImageEditControls == [dom |-> {"tuned"}, page |-> {"engine", "stack"}, bare |-> {}]
ImageEditForm(p) == Mount(p, "imageedit", NoPath)
ImageEditBody(p) ==
    IF AllInputPaths("imageedit", p.gi, NoPath) = <<>> \/ p.panel.of # "imageedit" THEN Thrown
    ELSE Body("imageedit", AllInputPaths("imageedit", p.gi, NoPath), NoPath,
              Opts(p, "imageedit") \cup Kept(p, "imageedit"), <<>>)

CutControls == [dom |-> {"tuned"}, page |-> {"compare", "ref"}, bare |-> {}]
CutForm(p) == Mount(p, "cut", NoPath)
ResolveCutVideo(p) == IF p.tab = "cut" THEN BestInput("cut", p.gi, NoPath) ELSE BestInput(p.tab, p.gi, NoPath)
CutBody(p) ==
    IF ResolveCutVideo(p) = NoPath THEN Refused
    ELSE Body("cut", <<ResolveCutVideo(p)>>, NoPath, Opts(p, "cut"), WorkingRange(p.range))

ZoompanControls == [dom |-> {}, page |-> {"aspect", "compare"}, bare |-> {}]
ZoompanForm(p) == Mount(p, "zoompan", NoPath)
ResolveZoompanImage(p) == IF First(p.gi.image) \in Images THEN First(p.gi.image) ELSE NoPath
ZoompanBody(p) ==
    IF ResolveZoompanImage(p) = NoPath \/ p.boxes = NoPath THEN Refused
    ELSE Body("zoompan", <<ResolveZoompanImage(p)>>, p.boxes, Kept(p, "zoompan"), <<>>)

\* Tabs without a run: what they show is page state.
QuickControls == [dom |-> {}, page |-> {"custom", "fit"}, bare |-> {}]
QuickForm(p) == Mount(p, "quick", NoPath)
WatcherControls == [dom |-> {}, page |-> {"dirs", "mode"}, bare |-> {}]
WatcherForm(p) == Mount(p, "watcher", NoPath)
JobsForm(p) == Mount(p, "jobs", NoPath)
NotesControls == [dom |-> {}, page |-> {"text"}, bare |-> {}]
NotesForm(p) == Mount(p, "notes", NoPath)
SettingsControls == [dom |-> {}, page |-> {"switch"}, bare |-> {}]
SettingsForm(p) == Mount(p, "settings", NoPath)
=============================================================================
