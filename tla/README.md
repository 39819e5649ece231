# Formal models of the ffTransmute web UI

This directory holds TLA+ models of the server and page code under
`src/mtapi-project/app`, the TLC configurations that check them on small
instances, and TLAPS proofs of what holds for every instance. Line numbers refer
to the sources at the modelled commit. `PROJECT.json` lists components, runs,
findings, hazards, theorems, and for every definition the lines it stands for.

To check a run: `tlc -config JobQueue.cfg MCJobQueue`; to check proofs:
`tlapm JobQueueProofs.tla`.

## 1. The system

A FastAPI server drives ffmpeg, RIFE, Real-ESRGAN and Python filters; a page
without a framework is its only client. The server has one asyncio event loop,
a few daemon threads, and JSON files for state. All the trouble lies in what
happens between two awaits, between the loop and a thread, between the page and
the server, and, in the page, between the single panel that all tabs share and
the answers that come back after the user has gone to another tab.

| component | state | operations | talks to | hard behaviour | what makes it correct |
|---|---|---|---|---|---|
| Job queue and slot (`job_queue.py`, `op_runner.py`, `main.py`, `routes/meta.py`) | `_pending`, `_running`, `_direct_busy`, `_direct_gate`, `_wake`, `_history` | enqueue, remove, clear, cancel, worker loop, direct POST | registry, media history hook | worker and direct requests claim one slot; wake-ups; cancels that come late | one operation at a time, FIFO, nothing lost or run twice, the slot comes back |
| Job registry (`job_control.py`) | `_jobs`, `_progress`, `_tls`, `_watches` | register, bind, finish, cancel, report, directory watchers | every operation; watcher threads | reports from threads after the end; a cancel for a token that is over | a cancel reaches its job only, outcomes stay, threads end |
| Directory engines (`filters/rife.py`, `filters/upscale.py`) | engine process, its pipes, `_rife_lock` | spawn, poll, kill, collect | registry, GPU program | cancel between polls, full pipes, restarts | no two RIFE engines, none left over, stopped jobs end |
| Folder watcher (`watcher.py`) | configuration, thread, sizes seen, names processed, files | `apply_config`, poll, transcode, move, restart | file system, ffmpeg | switched on while the thread ends; crash between publish and move; failing files | no file twice, no original lost, files get their attempt |
| Media records (`media/*.py`) | records in memory, `record.json`, hash locks | open, thumbnail, register variant, history, flush, hydrate | disk, ffmpeg, queue's history hook | dict loaded before an await and saved after it; failing writes | nothing unrelated is lost, memory and disk agree or are flagged |
| Page's jobs (`static/js/job-control.js`) | `activeJob`, AbortController, fetches under way | run, batch, Stop, soft cancel, poll after a break | server over HTTP | answers that find another job active; broken fetches | success was success, Stop hits its job, the batch ends |
| Instant RIFE (`static/js/pool/sequence.js`) | queue of densify jobs, drain, restart and stop flags, cache of the variant registry, per-clip need, density, status | scan, push, drain, supersede, recover, Stop, edit | page's jobs, `/api/media/variants` | clips removed or re-timed while they are encoded; registry answers that are old when used; a second pass asked for during the first | RUN means encoding, no clip gets sparser by itself, the queue is drained |
| Strip and player (`pool/sequence.js`, `pool/items.js`, `ui/list-keys.js`) | `sequence`, two names of the selection, `playback` | add, remove, move, drop, select, play, pause, skip, loop | `<video>` element and its events | rejections of replaced clips that come late; the playing clip is named by position | edits hit what is selected, what runs counts as playing, a show ends |
| Repair queue and media index (`repair-queue.js`, `media-index.js`) | a status per file and slot, three queues with limits, items of the pools | restore, idle start, paint, import, remove, retry, repair all, size change | probe, hash and thumbnail endpoints | three paths to the same request; items that go while their request is under way | busy means busy, one request per hash, failures wait for the user |
| Pool and projects (`pool/persistence.js`, `routes/pool.py`, `media/projects.py`) | desk, current project and its dirty mark, autosave timer, session file, project files | edit, autosave, New, Open, Save, Save As, restore, reload, crash | server over HTTP | commands that overlap; autosaves out of order; a Save that asks a question on the way | a clean project is the one on disk, clips are not overwritten unasked, edits reach the session |
| Tabs and forms (`app.js`, `js/tabs/*.js`, `js/timeline.js`, the sends in `pool/items.js` and `pool/image-pool.js`) | shown tab, the one panel, saved forms, global bars, lists, In/Out range | switch, type, send from a pool, list edits, pickers, ranking, agent, probes, sliders, Run | nearly all of the above | a form mounted over a form; answers for a tab that is no longer shown; a probe that resets a range | what was typed stays, a clip sent is a clip used, the range stays in the clip |
| Lazy loader, catalog start-up and warmer, thumbnails, staged jobs, output paths | | | | see the plan | not modelled; reasons in `PROJECT.json` |
| Filters, ML engines, datamosh, image sort, agents, other routes, grid and styles, command-line tools | | | | sequential, numerical or presentation | not modelled; reasons in `PROJECT.json` |

How they interact: every button that starts work ends in the page's run
(`ClientJobs`), which posts to the single-flight endpoint (`JobQueue`), whose
handler registers a token (`JobControl`), may start a watched engine (`DirWatch`,
`EngineStage`) and ends with a history event (`MediaRecords`). Instant RIFE and
the tabs' Run are two users of the page's run. The pools feed the strip, the
tabs and the repair queue, and are what `ProjectDesk` saves.

## 2. Modules

| module | models | actions |
|---|---|---|
| `JobControl` | the registry as value transformers on one record | `Registered`, `Closed`, `CancelRequested`, ... |
| `JobQueue` (EXTENDS `JobControl`) | queue, worker, direct endpoint, `run_registered_op` | one action per HTTP handler and per stretch of the worker or of a request between two suspensions |
| `SerialExecutor` | abstract: a slot and a line | what `JobQueue` implements and `ClientJobs` meets |
| `DirWatch` (EXTENDS `JobControl`) | watcher threads of one job with several stages | `StartWatch`, `StopWatch`, `Finish`; thread: `Look`, `CountFrames`, `Report`, `Wake` |
| `EngineStage` | the coroutine around an engine, and the engine | `Enter`, `Spawned`, `RifeCancelled`, `UpscaleCancelled`, `Reaped`, `Collected`, `EngineWrites`, ... |
| `FolderWatcher` | API, polling thread, files, restarts | `SwitchOn/Off/Refused`, `Snapshot`, `Scan`, `Pick`, `Encode`, `EncodeRaises`, `Publish`, `MoveOriginal`, `Settle`, ... |
| `MediaRecords` | one record: memory, disk, dicts held by handlers | `OpenBegin/End`, `ThumbBegin/End`, `Register`, `Track`, `Crash`, `Shutdown` |
| `ClientJobs` | the page's runs against the endpoint | `Start`, `Answered`, `Breaks`, `Poll`, `Close`, `Cancel`, `CancelAnswered`, `Arrives`, `Ends` |
| `InstantRife` | the densify queue of the strip | drain: `TakeJob`, `RecoverAnswered`, `EncodeEnds`; registry: `FetchAnswered`, `AttachAnswered`; scans and passes: `TimerFires`, `ScanStep`, `ScanResumes`, `TypingRests`, `EnsureStep`; user: `AddClip`, `RemoveClip`, `CommitTime`, `TypeTime`, `ClearTime`, `PickVariant`, `Toggle`, `ToggleRife`, `UserStop` |
| `SequencePlayer` | strip, selection, player and media element | `AddClip`, `RemoveClip`, `DropToken`, `MoveSelected`, `KeyMove`, `Play`, `Pause`, `Skip`, ...; element: `MediaTask`, `MediaStarts`, `MediaEnds`, `MediaFails` |
| `MediaRepair` | index, three bounded queues, items | `Restore`, `IdleStart`, `Render`, `Answer`, `Import`, `RemoveItem`, `RepairAll`, `Retry`, `SetSize` |
| `ProjectDesk` | desk, autosaves, commands with their awaits, server files | `Edit`, `AutosaveFires`, `PutLands`, `BootSession/Last/Attached`, `New`, `OpenBegins/Loaded/Attached`, `SaveBegins/Checked/Lands/Answered`, `Reload`, `Crash` |
| `FrameRange` | the In/Out sliders as operators on a range | `Synced`, `ThumbTo`, `StepStart`, `Committed`, `Dragged`, `Probed`, `Restored`, `WorkingRange`, ... |
| `TabForms` (EXTENDS `FrameRange`) | what each form shows when mounted, which controls write the page state, the body each collector makes | `MoshForm`, `MoshBody`, ... |
| `PageTabs` (EXTENDS `TabForms`) | panel, capture and return, bars, sends, lists, answers, page load and projects | `Switch`, `TypePath`, `Toggle`, `SetGlobal`, `SendVideo/Image/Style`, `RemoveRow`, `SwapRow`, `PickAnswer`, `RankAnswer`, `AgentAnswer`, `CutAnswer`, `ProbeAnswer`, `TimerFires`, `Slide...`, `OpenProject`, `ProjectOpened`, `Run`, ... |
| `MC...` | small instances for TLC | |
| `JobQueueProofs`, `MediaRecordsProofs`, `ProjectDeskProofs`, `PageTabsProofs`, `SequencePlayerProofs`, `InstantRifeProofs` | theorems about the module of that name | |
| `ServerThreadsProofs` | theorems about `FolderWatcher`, `DirWatch` and `EngineStage`: the server's threads and processes | |
| `PageJobsProofs` | theorems about `ClientJobs` and `MediaRepair`: what the page asks the server to do | |

The last two extend several modules at once, so `DirWatch`, `EngineStage` and
`MediaRepair` put `Watch`, `Engine` and `Repair` before their `Init`, `Next`,
`Spec` and `TypeOK`.

How code becomes actions:

* **Event loop.** A step is what runs from one real suspension to the next. The
  `async with _lock` sections of `job_queue.py` never find the lock taken and
  contain no await, so they are not interleaved; the worker goes from the end of
  one item to the handler of the next in one step, rejecting invalid bodies on
  its way (`Drain`). The history hook after `unregister` is a suspension: the
  slot is held while nothing is registered. `_run_one`'s branch for an unknown
  operation cannot be reached (`enqueue` refuses one, the registry is static).
* **The page.** Script runs to its next `await`, timer or event, so an action is
  a handler up to there and everything it calls on the way: a re-render, the
  capture of the old form, a scan that is kicked. What has to be applied one
  after the other within such a step is written as operators that take the
  page (or the queues) and return it changed.
* **Media elements.** `play()` and events come through a queue of tasks
  (`playback.tasks`), in order, as the element's own specification has it; this
  is external and marked so.
* **Threads.** A step ends where the thread releases its lock, sleeps, calls a
  program or touches the disk.
* **Data.** A file's content and size is a version number, a history event its
  serial number, an engine's output an amount, a density the exponent of its
  multiplier, the contents of a desk the number of the edit that made it, the
  controls of a form the set of those that were moved. Names, counters, rates,
  ETAs and logs are left out.
* **Aliasing.** `serving_dict` hands out the resident record's own variants
  object, so `MediaRecords` has a heap of variants objects; everything else in
  the dict is a copy.
* **Nondeterminism.** ffmpeg, ffprobe, engines, disks and networks succeed or
  fail at will. External actions (`Drop`, `Fills`, `EngineWrites`,
  `EngineExits`) are marked so in the map.
* `Mutant:` definitions are plausible bugs kept beside the definitions they
  replace; each shows that a property would notice.

## 3. Runs

| run | instance | states | what it shows |
|---|---|---|---|
| `queue` | 3 items (one invalid), 2 direct requests, history of 2 | 317 000 | single flight, cancels reach their own operation, every item leaves, refinement of `SerialExecutor` |
| `dir_watch` | 1 job, 3 stages | 16 000 | one late report at most, threads end |
| `engine_stage` | 2 RIFE jobs, 1 upscale job, pipe of 2, one engine that writes 3 | 3 900 | exclusion of RIFE engines, stopped and fitting jobs end |
| `folder_watcher` | 2 files of 2 versions, 2 directories, 2 API calls, 1 raise, 1 restart | 961 000 | no second attempt but after an exception, no lost original, off ends the thread, files get their attempt |
| `media_records` | 2 opens, 1 thumbnail, 2 variants, 2 events, 2 faults, 2 lives | 841 000 | disk agrees or is flagged or a save raised, a history that can be read is not erased, what the lock and the flush guarantee |
| `client_jobs` | batch of 3, 2 cancellations, 1 broken connection, 1 poll | 1 900 000 | success is real, soft cancels wait, the server is a `SerialExecutor`, the batch ends |
| `instant_rife` | 2 clips of one source, one of them restored, densities 0 to 2, 2 user actions, 2 scans and 2 passes at a time | 607 000 | RUN means encoding, no known density is given up, the queue is drained, Stop ends the batch |
| `sequence_player` | 2 files, 3 clips, 2 waiting media tasks | 194 000 | edits hit the selection, what runs counts as playing, no clip lost or doubled, a show ends |
| `media_repair` | 2 files, 2 sizes, limits 2, 1, 1, 1 user action | 247 000 | a busy record is in a queue or in flight, one hash request per file, failures wait for the user, repairs end |
| `project_desk` | 2 project files, 3 user actions, 2 autosaves under way | 178 000 | clean is saved in an orderly history, clips are not overwritten unasked, edits reach the session |
| `page_tabs` | 16 journeys of two tabs, after a load of a desk, 4 actions, 2 answers under way, clips of 3 frames and 1 | 1 544 000 | typed values stay but for the losses named, a clip sent runs, In and Out stay in the clip, a ranking keeps the selected image |

One run expects a violation, of a statement of a comment that the code does not
meet:

| run | property | counterexample in words |
|---|---|---|
| `project_desk_cancel` | `CancelledSaveKeepsSession` | Save of an empty sequence over a file with clips: to count the clips the page loads the project, and the server makes it the session; the user cancels, and the session is no longer the desk |

Each property of a run is broken by one mutant of the code (`PROJECT.json`,
`mutants`): a dropped guard, a reset left out, a check of the wrong piece of state.

### Bounds, and why they are enough

* `queue`: three items are what it takes for one to run, one to be rejected on
  the way and one to stay in line; two direct requests for one to hold the slot
  and one to be refused; a history of two for it to overflow. An id is used
  once, as a uuid is. What the bounds leave open for safety is closed by
  the proofs, which have none.
* `dir_watch`: three stages let a thread of the first see the record of the
  second while the third starts. `engine_stage`: two RIFE jobs are a restart; an
  output of three against a pipe of two blocks, one of two fits.
* `folder_watcher`: two files let one be left over when the watcher is switched
  off between them; two versions let a file change under the transcoder; two
  calls switch it on and off. One attempt ends in an exception, before ffmpeg or
  after it (`MaxRaises`): a file whose every attempt does so is encoded for ever,
  and the properties are of the others. Longer sequences of calls are covered by
  the theorems.
* `media_records`: `Slots` has one slot per handler and two more, so a fresh one
  always exists (proved). Two faults are a save that fails or raises and one that
  would make up for it; a second life is what a restart finds. The caps of 200
  events and `RECENT_CAP` variants are above what is reached.
* `client_jobs`: job 2 is one that an answer meant for job 1 can hit and job 3
  one that the server refuses because of it. The code polls 60 times; one is
  enough to be asked again and to give up. The server's queue is taken to be
  empty, as nothing else is posted.
* `instant_rife`: two clips of the same file are one that is encoded and one
  that the same registry answer also concerns; three densities are the
  original, a file that is too sparse, and one that covers it. One clip was
  restored, the other is added, with or without a file of the registry. Two edits
  are one that supersedes an encode and one after it, a Stop included. Two scans
  and two passes (`MaxTasks`) overlap; a third would find nothing new to wait for. The code's limit is x128.
* `sequence_player`: three clips give a first, a middle and a last; two files let
  two clips share a path. Two waiting tasks are the rejection of one clip and the
  start of its successor. The bound holds back the user only, never the element.
* `media_repair`: two files against limits of one let one wait; the limit of two
  for hashes lets two be answered in either order. Two sizes let the size change
  under a request. A user action can be each of retry, import, removal, repair
  all or size change, on top of the first restore, the idle scan, paints and
  answers, which are not counted.
* `project_desk`: three actions are an edit, a command and what interferes with
  it. Two autosaves can arrive in the wrong order. A property that speaks of
  commands that did not overlap says so with `raced`, and one that speaks of
  autosaves that were not refused with `lost`; both are history variables.
* `page_tabs`: a behaviour visits the two tabs of a journey; between them the
  sixteen journeys visit every tab that has a form, and each pairs tabs whose sends or
  answers meet. Four actions are to set a control, leave, do something and come
  back. A clip of one frame is the edge of the range arithmetic, whose
  theorems have no bound. The sliders are moved on one tab only (`Sliding`),
  as they belong to the page and not to a tab. The desk that a page load or a
  project brings back is one on which every control of the journey was moved, so
  that there is something to lose, with a range beyond either clip; it holds no
  lists, style images or boxes.

### Fairness

* `JobQueue`: the event loop resumes a coroutine that can go on, and a handler
  comes to an end (every operation ends with its subprocess). No client has to
  send anything. The worker is not promised the slot against direct requests:
  `EveryItemLeaves` holds because there are finitely many of them.
* `DirWatch`, `FolderWatcher`: threads are scheduled; the API handler finishes;
  ffmpeg returns (it runs under a timeout). Nobody has to drop a file or call.
* `EngineStage`: the coroutine wakes from its sleep, the engine writes and exits
  unless its pipe blocks it. No Stop has to be sent.
* `ClientJobs`: the page's callbacks run, requests arrive, handlers end. A
  cancel request may be lost, a connection may break, neither has to.
* `InstantRife`: scripts go on after an await, encodes end, requests are answered
  and timers fire, all under one weak fairness (`Runs \/ Answers`): as long as one
  of them can happen, something does. Both liveness properties hold under no more
  than that; how things end is open.
* `SequencePlayer`: a media element settles its promises, starts, and reaches
  the end of a clip that plays; it need not fail.
* `MediaRepair`: the idle timer fires, requests end in an answer or an error.
* `ProjectDesk`: the autosave timer fires, requests sent are handled, the three
  stages of the restore get an answer. Commands of the user need not end.
* `MediaRecords` and `PageTabs` state no liveness.

`CHECK_DEADLOCK FALSE` is set everywhere: the instances have finitely much to do
and the real programs wait for more.

## 4. Proofs

All theorems are checked by TLAPS from the named assumptions on constants
(`TokensAssumption`, `BodyAssumption`, `ClipsAssumption`, `FramesAssumption` and
so on, each declared where its constants are), which TLC evaluates in the runs.

* **`JobQueueProofs`.** `TypeCorrect`, `OneAtATime`, `FlagsNeverStale`,
  `WakeupsNotLost`, `CancelNeverStrays`, `QueueIsSerialExecutor`. `SingleFlight`
  is not inductive: the endpoint looks at flags, not at coroutines. It becomes so
  together with `FlagsAgree`, which says that the flags tell where the coroutines
  are; the worker's test of `_direct_busy` alone is then enough, as `_running` is
  only `None` when it waits. `CancelReachesItsJob` follows on top of both: one
  handler runs, so one token is bound. The worker's inner loop is one lemma about
  `Drain`, cited by the three actions that enter it. The refinement of
  `SerialExecutor` needs one invariant more, `LineInv`: an item stands in the
  line once, not while it holds the slot, and never without the status that says
  so. Under it a drain maps to one abstract step, which drops the rejected and
  gives the slot to the first of the rest (`DrainLine`, `ServedLine`).
* **`ServerThreadsProofs`.** Of the folder watcher `TypeCorrect`, `NeverTwice`,
  `OriginalsSafe`: a file not in `_processed_names` has been tried only if it is
  the current one, or as often as an exception has ended its attempt (`Counted`), neither a candidate nor the current file has been
  processed (`Apart`), and the thread moves an original only after its
  publication (`Published`). Of the directory watchers `WatchTypeCorrect`,
  `RecordsNeverStale`, `OneLateReport`: after `Finish` there is no
  record, so a thread that is past its check can report once and finds nothing at
  the next. Of the engines `EngineTypeCorrect`, `NothingLeft`, `EnginesAlone`: one
  job is in flight, the lock is held exactly then, and a job that is over has
  reaped its engine; two engines would be two jobs in flight.
* **`PageJobsProofs`.** Of the page's runs `TypeCorrect`, `OneJobAtServer`, `SuccessIsReal`,
  `SoftCancelsWait`, `PageMeetsSerialExecutor`. While nobody pressed Stop and no connection broke, the
  server holds no job but the one whose answer the page awaits (`Awaited`), so
  the next POST finds the slot free. `SuccessIsReal` needs that the page says
  nothing of a job before it posts it (`ToldIsPosted`). `PageMeetsSerialExecutor`
  joins the two sides: the server in `ClientJobs`, which its handlers reduce to a
  status per request, implements the same `SerialExecutor` as `JobQueue` does, with nobody in
  line: the stand-in takes, refuses and gives back the slot only where the real one
  may (that it leaves no outcome of a handler out is a matter of reading `Ends`). It needs `OneJobAtServer` and that a request not yet posted
  is not at the server (`ServerWaits`).
  Of the repair queue `RepairTypeCorrect`, `BusyMeansHeld`, `HashedOnce`,
  `SlotsAreUsed`, `FailureWaits`. `OneHashRequest` alone is not inductive: a file
  whose request is under way could stand in the queue as well. `RepairInv` says of
  every kind that its queue and its requests fit its limit (`Bounded`), of hash
  and probe that "queued" and "repairing" are true (`Truthful`), and of the hash
  that a file waits once or is under way once, and that what is under way has a
  status that refuses another request (`Single`). These are stated of a value of
  the page, not of the variables, so that each operator the handlers are put
  together from (`Mark`, `Take`, `Enqueued`, `WantMissing`, `RepairItem`, `Put`, the
  answers) has one lemma: fit in, fit out. The walk over the pool is a fold; that
  it is defined, and fit at the end, for a pool of any size is an induction over
  the cardinality of what it has visited (`Induct`, from the library's
  well-founded minimum). `FailureWaits` has its own chain: what has failed and
  waits nowhere stays so unless a repair is forced (`Calm`).
* **`SequencePlayerProofs`.** `TypeCorrect`, `ClipsDistinct`, `EditsHit`,
  `RunningPlays`, `OrderIsKept`. The selection has two names, an id and a path:
  `EditsHitSelection` needs that ids are given out once (`IdsUsed`) and that the
  clip with the selected id has the selected path (`Named`), which the handlers
  that change one name keep by deriving the other. `RunningIsPlaying` speaks of an
  empty queue of tasks; the invariant (`Starts`) says what holds before it is
  empty: an element that runs counts as playing, or the task that will say so is
  the last one. `OthersKeepOrder` is proved by maps between the places before and
  after an edit that ascend on all clips but one (`Embeds`): one for each of
  removal, insertion and move, in both directions.
* **`InstantRifeProofs`.** `TypeCorrect`, `RunMeansEncoding`, `FilesGetDenser`.
  `RunIsEncoding` holds because one drain writes "running" and takes it back on every
  way out; inductive with it is the shape of the drain's state (`Page`). A file in
  use whose density the page knows (`Exact`) is what `NeverThinner` speaks of: one
  that a clip was added with, or that was found for a missing one, becomes so with
  an answer of the registry or an encode. Each operator that rewrites the
  page has a lemma that it keeps `Page`, gives no clip a sparser file and brings
  none into RUN (`Keeps`), and `Keeps` composes, so a handler is proved along the
  chain of its calls. What the registry answers is only typed (`Registry`): the
  theorems hold for any answers, however old, and any number of scans and passes.
* **`MediaRecordsProofs`.** `TypeCorrect`, `ShownIsPersisted`, `HistoriesStay`,
  `LockIsEnough`, `FlushIsEnough`: all of the run's properties, for any number of
  handlers. That a slot of the heap is always free is a pigeonhole argument over
  the handlers that hold a dict. A step that persists leaves memory and disk
  equal by itself, so `ShownIsOnDisk` only has to follow the steps that do not,
  and those raise the flag, or, where mkdir raises, are remembered as `unsaved`. `LockKeepsVariants` rests on `Held`: a handler that
  has taken the lock is the only one between its load and its save.
* **`ProjectDeskProofs`.** `TypeCorrect`, `CleanDesksAreSaved`,
  `ClipsNotErasedUnasked`. In a history without the cases that `raced` and `lost`
  name (crashes, commands, restores and reloads that overlap, edits during a restore
  or a Save, restores with autosaves under way, autosaves out of order or refused),
  one command is under way at most (`OneCommand`) and a clean desk agrees with
  its file, except between the write of a Save and its answer, when the file
  holds the desk and the answer will say so (`Agreed`). For the overwrite, a Save
  about to be posted has compared its body with the file it replaces, or the
  user has agreed (`Compared`).
* **`PageTabsProofs`.** `StartsInClip`, `SyncMends`, `UserStaysInClip`,
  `ProbesStayInClip`, `CutsInClip`, and from them `RangeNeverLeaves`, the
  invariant `RangeInClip` of the page. The arithmetic is one lemma per operator of
  `FrameRange`; `sync` makes a good range of any positive one, so every path
  that ends in it is safe. On top, the page's other actions leave the range
  alone or forget its clip, and the probes under way are of clips (`Sound`). The
  limit that `sync` works with is 2 for a clip of one frame, so there Out is a
  frame that the clip does not have; the statements say so, and only the range of
  a cut is in the clip always. A desk brings back numbers that no slider checks:
  of those nothing is claimed until `sync` runs.
  `TypingIsKept`, `RankingKeepsSelection` and `SentRuns` rest on a second
  invariant, `TabsInv`. `TypingKept` speaks of the tab that is shown; what makes it
  inductive is the same of every tab of the journey, wherever its values are just
  then (`Knows`): in the panel, or, of a tab that is away, in the capture that
  `applySavedFormState` will write back and in the page state that its form reads
  first. It needs in turn that the panel holds the form of the shown tab unless an
  answer has come over it (`Placed`); that captures and page state hold only
  controls their form offers (`Whole`), or a return would set others; that only the
  tab about to be shown takes the agent's answer; and, of Image Sort, that its
  selection is a row of its list (`Chosen`). Of a send it says that the clip is in
  the panel or the list of the tab it was sent to until something else happens
  (`Waits`), and of a ranking that it was asked of a list (`Asking`). As in
  `PageJobsProofs` all of this is stated of a value of the page: one lemma for each
  of mount, capture, return, switch and bars (`FormIs`, `CapturedIs`, `ApplyIs`,
  `SwitchIs`, `GlobalIs`), and one for each action and answer on top. That an action of the user
  changes one control of one tab, in the panel or the page state, and nothing of the others is
  `FlipMoves`; that a form mounted again in its place loses what the panel alone held,
  `RemountRemembers`; what a handler records as `lost` and what the page forgets are
  compared exactly, in both directions (`Less`, `LessPanel`), so a loss that is not
  recorded, or one recorded that did not happen, fails the proof. A page load and a
  project build the page anew from a desk (`DeskIs`, `InitTabs`, `OpenSteps`). `SentRuns` ends in the collectors: one case for each
  (`FieldRuns`, `ListRuns`). The collectors drop doubled lines with a fold, which is only needed for
  no line and for one (`NoLine`, `OneLine`): the bars that the tab reads are empty
  or hold the path that was sent and nothing else, as the property excludes the
  rest. `DeskAssumption`, that desks hold controls their forms have and an ordered
  range, and `JourneyAssumption`, that "none" is no tab, are the only
  assumptions on what a behaviour starts from.

Only model-checked: every liveness property (TLAPS has no support for fairness
and ENABLED); every safety property of a passing run is a theorem. The induction theorems of the library take an operator as a parameter and
no prover here instantiates them; where an induction is needed (the fold of
`MediaRepair`), the set of the numbers for which a concrete statement holds is shown
to be `Nat`. No module that is proved about declares a RECURSIVE operator.

## 5. What is not covered

Not modelled, with the reasons in `PROJECT.json`: the lazy loader (it gathers
the questions of `InstantRife` to the registry), start-up, index and warmer of the catalog, hashing and
thumbnails proper, staged jobs over a workspace, output paths, filters, engines'
numerics, datamosh, image sort, agents, the stateless routes, the drawing of the
grid, and scripts.

Left out within the modelled parts: a cancel before an engine is spawned (it just
ends the job); the numbers in a progress snapshot; the parameters of an operation
beyond their having been set; several content hashes (records share nothing a
property speaks of); paths, the index and thumbnails' slots in `MediaRecords`;
enqueueing from the page; stitching; the second frame of a thumbnail pair; the
boxes of Zoompan; missing files in a restored session; in `InstantRife` the badges'
own look-ups of the registry (`_updateSeqVariantBadges`), redraws that change
nothing it speaks of, a change of the target rate (which works on all clips as
`ClearTime` does on one) and `clearSequence`; in `PageTabs` the lists, style images
and boxes that a desk brings back. A project is opened in two steps there, the
desk applied and the library mounted; all tabs count as disturbed from then on,
as nothing the user typed before is to be shown.

Code that nothing reaches, and so is not modelled: `setEnabled` of the repair
queue, `validateItemSignature`, `recoverItemByHash`, `loadPoolItemMeta`,
`loadImageItemMeta` with `activateImageCard`, the activator and ensure queue of
the lazy loader, `setupTimelineSlider`.

Disagreements seen in the code while modelling, in the models as the code has
them, which no run of this project singles out:

* Server. An operation ends and its cancel arrives: its snapshot says
  "cancelling" for ever and the Jobs tab lists it as live. A stopped upscale job
  leaves its engine running: `JobCancelled` passes the `except
  asyncio.CancelledError`. The watcher can be enabled with no thread polling,
  when it is switched on while the old thread is ending. A thumbnail extracted
  while a variant is registered drops the variant. The second history event of a
  clip replaces the first. An invalid body is queued
  (`docs/job-queue-spec.md:338`), a failed file that changes is not retried
  (`watcher.py:260`), a failed write of a history event is not retried at
  shutdown (`docs/server-memory-catalog-spec.md:426`), a watcher thread that was
  stopped is revived by the next stage's record under the same token
  (`job_control.py:316`). An exception after ffmpeg has run (`watcher.py:377`, 385,
  388) leaves the file to be encoded again by the next poll, and an original that
  is written over during its encode goes to `dun/` untranscoded (397). The mkdir
  of a record stands outside the try that flags it (`media/catalog.py:1138`, 1167):
  what memory shows is then neither on disk nor retried, where the spec wants no
  failed write to be silent (`docs/server-memory-catalog-spec.md:432`). A
  `record.json` that cannot be read is written over without its history (1133).
* Page, jobs and sequence. A Stop pressed while a job closes aborts the fetch of
  the next. A Stop during Instant RIFE's recovery check still lets the encode
  start. A desk edited during a Save is marked clean. Edits made before the
  restore has ended are not sent. A thumbnail that failed is never forgotten,
  and one queued when the size changes stays "queued" at the old size
  (`repair-queue.js:170`, 317). A clip is added with the file selected for its
  source but not its multiplier (`sequence.js:1440`), so an encode at a lower
  density may replace a denser file (967). A file found for a missing one keeps
  the multiplier of the one that is gone (538-582). A clip superseded after Stop
  leaves its job in the queue (930, 855): its badge shows Q (300) and queueing it
  again is refused (755) until another clip starts a drain.
* Page, tabs. Answers of Cut and Zoompan mount their form over whatever tab is
  shown. The path sent to Speed change goes to a field it does not have. A style
  reference is undone by the restored field. Upscale's collector throws on
  an undeclared `output`. The QR illusion radio has no id and is not captured. The
  ranking's answer replaces a list that was edited since. A form mounted again in
  its place by an edit of its list, a picker, the ranking or a send loses the
  controls that only the panel holds; a page load captures the empty panel over
  the saved form of the tab it shows (`app.js:662`, 865); the agent's prompt is
  undone by a saved form that comes back. Of a clip of one frame Out is 2
  (`timeline.js:79`), which RIFE and others are sent. The numbers of a restored
  desk are sent until a slider or a probe moves, whatever clip is chosen then.

`PROJECT.json` lists the hazards that no property covers, with the reason.

## 6. Plan

Done, in this order: the queue and its registry (the behaviour everything
depends on), the directory watchers, the engines, the folder watcher, the
records, the page's jobs; then Instant RIFE, the player, the repair queue, the
projects, the tabs with their forms; the proofs of every safety property of the
server's models, of the page's jobs, projects, range, player, Instant RIFE,
repair queue and tabs. Next:

1. `LazyLoader`: de-duplicated pending queues, waiters resolved or dropped;
   between the questions of `InstantRife` to the registry and their answers.
2. `Catalog`: process lock, hydration phases, `index.json` against records
   across crashes, the RAM cache and its warmer thread.
3. `OutputPaths`: names free when asked for, taken when used. `StagedJob`: dump,
   filter, encode and mux over a workspace with cleanup.
