----------------------------- MODULE MCPageTabs -----------------------------
EXTENDS PageTabs

CONSTANTS clip1, clip2, still1, still2, nothing

MCFrames == (clip1 :> 3) @@ (clip2 :> 1)
MCBar == [video |-> {<<>>, <<clip1>>, <<clip2>>}, image |-> {<<>>, <<still1>>, <<still1, still2>>}, pathIn |-> {<<>>, <<clip1>>}]

\* Every tab is in one of these, with a tab whose answers or sends meet it.
MCJourneys ==
    {{"jobs", "mosh"}, {"cut", "zoompan"}, {"imagesort", "facemorph"}, {"agent", "img2img"},
     {"agent", "txt2img"}, {"deepdream", "settings"}, {"fastsam", "settings"},
     {"styletransfer", "settings"}, {"withoutbg", "multi"}, {"rife", "transmute"},
     {"speedchange", "advanced"}, {"convert", "upscale"}, {"riferecohere", "qr_art"},
     {"imageedit", "notes"}, {"quick", "watcher"}, {"cut", "pool"}}

\* A desk on which everything was moved, whose range is that of a longer clip.
MCDesks ==
    {[moved |-> UNION {{<<t, o>> : o \in Controls(t).dom \cup Controls(t).page} : t \in UNION MCJourneys},
      video |-> <<clip1>>, range |-> <<2, 9>>]}
=============================================================================
