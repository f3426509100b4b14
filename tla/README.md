# A TLA+ model of tiffin

tiffin is a macOS app (SwiftUI, SwiftData) that records the audio of a running
process, together with the microphone, and transcribes the recordings with
whisper.cpp, which is part of the repository. This directory models the parts of
it that keep state across calls, callbacks, threads, tasks and crashes, checks
them with TLC on small instances and proves what matters most with TLAPS for
every instance.

    tlc -workers 2 -config AudioCapture.cfg MCAudioCapture.tla
    tlapm AudioCaptureProofs.tla

`PROJECT.json` lists the runs, the theorems, the source lines that each
definition stands for, the hazards and the findings.

## The system

| Component | Source | State | Operations | Modelled in |
|---|---|---|---|---|
| `AudioRecorder`, `ProcessTap`, `MicrophoneTap` | `audiosdk/AudioRecorder.swift`, `audiosdk/Recording/` | the two taps; per tap `isRecording`, `currentFile` and the Core Audio objects (process tap, aggregate device, IO proc) or the engine | `init`, `startRecording`, `stopRecording`, `deinit`, the IO callback | `AudioCapture`, against `CaptureService` |
| `OrphanedResourceCleaner` | `audiosdk/Management/` | none; it walks the system's device list | runs in every `AudioRecorder.init` | `AudioCapture` |
| `AudioRecordingManager` | `tiffin/AudioRecordingManager.swift` | `isRecording`, `recordingStartTime`, `currentDuration`, its timer, a completion | start, stop, the duration task, the lookup of the last file | `RecordingSession` |
| `SettingsManager` | `tiffin/SettingsManager.swift` | the directory of the recordings | change | `RecordingSession` |
| Rows of `AudioRecording` | `tiffin/Item.swift` | URLs, transcript, date | insert, update, save | `RecordingSession`, `TranscriptionBatch` |
| `ContentView`, recording part | `tiffin/ContentView.swift` | `isTranscribing`, countdown and its timer | stop and its task, countdown, batch, file by file | `TranscriptionBatch` |
| `TranscribeEngine` | `transcribe/transcribe.swift` | per call: a continuation, `hasResumed`, a timer | the three services | `TranscribeEngine` |
| `ContentView`, picker and whitelist | `tiffin/ContentView.swift` | selected process, whitelist | refresh, select, edit | no |
| `AIManager`, `ChatView` | `tiffin/` | messages, `isProcessing`, `currentResponse`, the model | send, stream, clear, load; the text search | `Chat`; the search is one step |
| `WhisperCore` wrapper | `WhisperCore/WhisperCore.m` | a whisper context, GPU flag | create, transcribe | through its callers only |
| whisper.cpp, decoding | `WhisperCore/src/whisper.cpp` | per state: decoders, KV cache, past tokens, segments, seek | `whisper_full_with_state`, the KV cache | `WhisperFull`, `KVCache` |
| ggml, backend scheduler | `WhisperCore/ggml/src/ggml-backend.cpp` | assignments, copies, splits, last graph | split, allocate, compute, reset | `BackendSched` |
| ggml, graph allocator | `WhisperCore/ggml/src/ggml-alloc.c` | free blocks, counters and places of tensors | reserve, allocate a graph | `GraphAllocator` over `DynTallocr` |
| ggml, CPU thread pool | `WhisperCore/ggml/src/ggml-cpu/ggml-cpu.c` | atomics, mutex and condition of the pool; barrier; chunk counter | compute a graph, pause, resume, free | `ThreadPool`, against `ParallelGraph` |
| Discovery, errors, metrics, helpers | `audiosdk/Discovery`, `Core`, `Utils` | none | queries of the system | a step that may fail |
| `TestSDK` | `TestSDK/main.swift` | none | a straight script | no |
| the rest of ggml and whisper.cpp | `WhisperCore/ggml`, `WhisperCore/src` | | kernels, drivers, formats, encoder | no |

How they interact. A window of the `WindowGroup` holds a `ContentView` with a
manager, which holds an `AudioRecorder`; every window has its own, and all share
Core Audio, the directory and the store. Start goes down the chain of calls on
the main thread; Core Audio then calls back on a queue of the tap. Stop goes
down the same chain, comes back with a completion that inserts a row, and leaves
a task behind which starts a five-second timer, which starts the batch. The
batch awaits `TranscribeEngine` for each file and so gives up the main actor
between files; other windows, further stops and the settings run in between.

Below it, a transcription creates a whisper context, calls `whisper_full` and
frees the context. `whisper_full_with_state` cuts the audio into chunks and
decodes each with several decoders that share the KV cache. Every decode builds
a graph of tensors, which the scheduler cuts into splits for the backends and
hands to the graph allocator for places in memory; a split for the CPU is
computed by the threads of the pool.

What is hard in it:

* a start makes six Core Audio requests and any of them may fail;
* a stop races the IO callback, and the last reference to a tap may be the
  callback's;
* aggregates survive the program, and the cleaner cannot tell whose they are;
* the URLs of a recording are found by looking around after it has ended;
* batches of several windows, or of one, work on one directory at a time;
* a crash may come between the txt, the json and the row of a file;
* a timeout races the answer it was to replace;
* questions to the chat are admitted by a flag that is set one turn later;
* the threads of a pool poll atomics that the caller stores one after the other,
  and sleep on a condition that must not miss a store;
* tensors share memory as their lifetimes allow, and operations overwrite their
  sources; results are copied between backends that have not finished;
* beam search lets decoders take over the text of one another, in cycles too,
  while they share the cells of one cache;
* timestamps come from a model that promises nothing, and decide how far the
  audio window moves.

What makes each component correct: a session that ends leaves nothing behind in
Core Audio and its handlers run once; a row names its own file, or none, and
exists only for a recording that was stopped; the transcript that a row names
exists; no artifact is overwritten and a batch leaves no file undone without
reason; every stop should be followed by a batch, which the code keeps only while
a window's countdowns and batches do not overlap (see the findings); a call of
the engine ends, once; a chat reads as a dialogue and its button does not stay
disabled; a graph is computed node by node, each part once, on sources that
nothing has overwritten, wherever its
nodes run; a decoder attends to its own text; segments come in order, and the
audio is worked through to its end.

## Modules

`CaptureService` is the abstract specification of audiosdk: which recorder holds
which session, and which handlers are owed and have run. It knows nothing of
Core Audio.

`AudioCapture` is the code. A *session* is one call of `startRecording` and
names the tap objects and hardware that call makes. `call` is the program
counter of the main thread, with one Core Audio request per step: all callers in
the repository call on the main thread, so there is one call at a time.
`StartRecording` and `StopRecording` enter a call; `StopFlag` to `RunMicHandler`
are `stopBothRecordings`; `Lookup("resolve", ...)` to `Commit` are the start,
each with its failure (`Throw`); `UndoFlag` and `UndoHardware` are the catch
block. `CallbackBegin` and `CallbackEnd` are the IO callback, split where it has
read `currentFile`. `Deinit` runs where the last reference goes, which is either
the release of the recorder or the end of a callback. `Crash` ends the program
at any point; which taps and aggregates survive it is left open. It implements
`CaptureService` (`Service`, `ImplementsService`).

`RecordingSession` is the app's side of it: managers, files, rows. A *recording*
is one click on Start. It uses `AudioCapture` by its result: a start captures
both files, or it fails and may leave files behind; a stop ends both. The completion
that makes the row is state of its own (`completion`): every start stores one,
before it is known whether it succeeds (`StoreCompletion`), and a stop calls the
one that is there (`InsertRow`). `InsertRow` looks for the newest file, or finds
none because the directory cannot be listed; `unlisted` is the history of that.
A window that closes lets its manager go, or leaves it recording, as its
completion may hold on to the view.

`TranscriptionBatch` EXTENDS `RecordingSession` and composes with it: the clicks
are the session's actions with the guards of the view (`ClickStart`,
`ClickStop`), and what follows a stop is added. The tasks of stops wait in the
order of the stops (`stopTasks`), as the main actor's queue has them. `turn` names the batch in the
middle of a turn of the main actor, so that only a crash can come between its
steps; `Whisper` runs outside any turn. Timers and batches bear the name of the
recording whose stop created them. What a batch has to do is a set, from which
it takes the newest file first, as the code sorts. `owner[f] = None` means that
the window is gone, while the closures it left behind live on, or that the batch has
ended and nothing will ask for it. `Clocks` are the
windows whose duration is followed.

`TranscribeEngine` has one program counter per call (`stage`) for the code
before and after each await, and two more for an Apple call, since its timer's
handler and its recognition callback run on different queues: the test of
`hasResumed`, the assignment, the resume and the cancel of the timer are steps
of their own. `Resume` is the checked continuation: the second resume stops the
program.

`Chat` is the chat window: a question is sent by the view (`SendMessage`), passes
the guard of the manager off the main actor (`CheckProcessing`), and enters the
main actor for each change of what is shown (`Begin`, `Token`, `ShowError`,
`FinalizeResponse`, `AnswerWithoutModel`); the other steps are between those
turns, where other questions may come in. `crowded` and `cleared` are history:
which questions were in work together, and which were when the chat was
cleared. A question that passes the guard of the view and fails that of the
manager is "dropped", without a word to the user.

`ParallelGraph` is what `ggml_graph_compute` promises: nodes one after the other,
each chunk of a node once, and a call that returns. `ThreadPool` is the code,
with one action per access to a shared atomic or section under the mutex. The
caller computes a list of graphs (`GraphCompute`, `KickThreads`, `KickGraph`,
`KickWake`), may pause or resume between them, and frees the pool (`FreeStop`,
`FreeWake`, `Join`). A secondary thread goes from `Top` through the polling
(`PollGraph`, `PollActive`) and the sleep (`Lock`, woken by a broadcast or for no
reason) to `BeginGraph`; from there all threads do the same: an operation's share
(`ForwardShare`), or a matrix product with its conversion, barrier and chunks
(`ForwardConvert`, `FirstFreeChunk`, `Chunk`, `FetchChunk`), and the barrier after
each node (`BarrierEnter` to `BarrierSpin`). It implements `ParallelGraph`.
`NeverGrows` says of the lists of graphs that none asks for more threads than
the one before.

`DynTallocr` is the allocator of ranges in a buffer that does not exist yet
(`Alloc`, `FreeTensor`, `Reset`). `GraphAllocator` is `ggml_gallocr` on top of it:
it walks over a graph (`AllocLeaf`, `CountChildren`, `AllocNode`, `UpdateParent`,
`NextNode`), stores the places (`Reserve`), takes those of the last graph over or
not (`NeedsRealloc`, `AllocGraph`), and the graph is computed on a memory that
remembers which tensor wrote each unit (`ComputeNode`). It uses `DynTallocr` by
its rules (`ImplementsTallocr`), so that what is proved of it holds there. A
range that fits nowhere aborts the program. The guards `WellFormed` and
`SameShape` are what the callers guarantee: sources come before their node, a
view lies within a tensor with memory of its own (`ggml.c:1589`), outputs are
results of operations, never views (`whisper.cpp:2047`, `4660`), leafs are
sources of nodes, and a scheduler computes graphs of one shape
(`whisper.cpp:3490` to `3548`). With an external encoder, which the app does not
have, an input of the convolution graph is no node's source
(`whisper.cpp:2036`); `ggml_gallocr_needs_realloc` would not compare its size.

`BackendSched` is `ggml_backend_sched`: the five passes that assign nodes to
backends and cut the graph are the operators `Pass1` to `Pass5`, run by
`SplitGraph`; `AllocSplits` gives the graph with its copies places, of which the
model keeps how long they are needed instead of where they are, so that two
tensors may share memory whenever the allocator could let them; `CopyInput`,
`ComputeSplit` and `ComputeNode` compute the splits, where a backend may be
asynchronous: its queue holds what it has still to do. Every node notes whether
it has read what a computation in order would have read. `SchedPlatforms` says
that a backend supports its own buffer type, that the last one is the CPU and
returns when it is done, and that an asynchronous backend has memory that no
other one uses; `WellFormed` that sources come before their node and that what is
read twice from a cache is not written to in between. A tensor in a buffer that
no backend can use for its operation aborts the program (`Stuck`,
`ggml-backend.cpp:745`). Sizes are left out of `NeedsRealloc`; which nodes and
which sources had a place of their own is compared, as in the code.

`KVCache` has the operators on the cells of the cache, and `WhisperFull` the
decoding: `Call`, `DetectLanguage`, `BeginChunk`, `BeginTemperature` (with the
cache and its prompt), then `SampleGreedy` or `SampleBeam` and `NextToken` in
turns, `Rank` and `Output`. Its actions are sections of the loop between two
calls of the decoder. Sampling may yield any token that `whisper_process_logits`
leaves possible (`Tokens`, the rules for timestamps), since what the model says
is open. `result` has the segments by the token at which each ends, with 0 for
the last one of the chunks before. A cell remembers the tokens that it was computed from, so that a
property can say what a decoder attends to.

Some operators are marked *Fault*. Nothing uses them: each is the form that an
operation would have with a plausible mistake, kept next to the operation. With
it in the place of the operation TLC finds the property violated that
`PROJECT.json` names under "mutants", which shows that the property can fail.

## Runs

| Run | Question | Bounds |
|---|---|---|
| `capture` | What is left behind by calls that stop, replace, fail or are cut off? Does the recorder implement the service; is a dropped tap released? | 2 recorders, 2 starts |
| `session` | Which recordings get a row, and which file does it name? | 2 windows, 3 recordings, 2 directories, any of which may be unreadable at a stop |
| `batch` | What do two windows, and a directory that changes, do to the artifacts? | 2 windows, 2 recordings, 2 directories, delay 1 |
| `transcribing_ends` | Does the transcribing state end; does a countdown end in a batch; does the clock stop? | 1 window with its clock, 2 recordings, delay 2, one lookup may fail |
| `transcribe` | What ends a call of the engine, in every order? | 2 calls, 2 files |
| `chat` | What do questions in work together leave of the dialogue? | 3 questions, answers of 1 token |
| `thread_pool` | Are graphs computed as promised, in every interleaving; does every call return, and can the pool be freed? | 3 threads, two lists of 3 graphs, aborts, pauses |
| `graph_allocator` | Does a node read what was written for it? | any graph of 1 leaf and 3 nodes, and a decoder block; each at one size, at twice the size and at the first again |
| `backend_sched` | Does it also when the graph is cut for several backends? | any graph of 3 nodes over 2 inputs, a cache and 2 weights; 3 machines; computed twice with other operations supported; 2 inputs per split |
| `whisper` | What do decoders attend to; what segments and what window result? | any number of calls; 2 decoders, up to 3 tokens per chunk, chunks of 3 units, recordings of 4 |

and two violations: `cleaner_spares`, `stop_loses_batch` (below).

Why the bounds are enough. Two recorders give one that is disturbed by the
creation or the release of another; of two starts one may replace the other, in
one recorder or two. Two windows and two recordings give two batches over one
file, and a stop whose countdown overlaps the batch of the one before. The delay
is 5 in the code; with 2, in `transcribing_ends`, there is already a tick that
does not end the countdown. Three recordings let a window go through a
failed start, a recording and another one while the other window records. How
often a directory may be unreadable at a stop is bounded by `Unlisted`: at any
stop in `session`, at one in `transcribing_ends`, at none in `batch`, where a
row without a file is a row that no batch finds. `batch` asks what a batch does
and needs but a delay; its `VIEW` leaves out what no guard of it and no property
of it reads (the histories `disturbed` and `unlisted`, the clock). The clocks of two windows have nothing in common, so they are followed in the
run with one window. Of three
questions to the chat the third may begin when the answer of one of the two
others has reset the flag, and while the other is still in work; with one token
a prediction can already fail before and after a part of its answer has come.
In `RecordingSession` the duration is 0 or not 0, the only difference that the
code makes. The calls of the engine touch each other only through files, so two
suffice. The batch runs use the process wav alone, since two wavs per recording,
two recordings and two directories are beyond an exhaustive run, and a batch
treats every wav alike; the proofs hold for both kinds.

Three threads are the caller and two that may be in different places, one of
which a graph may leave out. The lists of graphs have products with more chunks
than threads and with fewer, and graphs for three threads, two and one; the
number never grows, as in whisper, which uses one number throughout. Four
tensors are enough for a source that is used twice, a view of it, an operation
in place and an output between; the decoder block adds tensors of several sizes
that do not fit where others were. The third size is smaller than the second and
takes its places over. Three nodes are enough for backends to meet twice, and
the second graph keeps or changes what the first one was given. A chunk of three
units leaves room for a segment, a pair of timestamps and audio that is left
over; with two decoders beam search can exchange their texts, the shortest
cycle; a context of 14 makes the longest prompt and the longest text meet.
`BackendSched`'s splits may have two inputs, since its operations have two
sources, as the limit of ten in the code is the number of sources there; with a
mask as a second input a split runs full. The machines are those that differ for
the scheduler: all memory shared (Metal on a Mac), a GPU with memory of its own,
and one next to two backends that share the CPU's memory, so that a graph can be
cut in another way on the same buffer types.

Symmetry is used over windows, recordings, directories, recorders and sessions
in the runs of safety properties, never where liveness is checked. Deadlock is
checked in `capture`, `session`, `batch` and `transcribing_ends`. It is not where the
system stops by design: in `TranscribeEngine` and `Chat` when all calls have
ended, or all questions have been asked and cleared; in `ThreadPool` when the
pool has been freed (that it does not stop before is `FreeEnds` and the fairness
of `ImplementsParallelGraph`); in `GraphAllocator` and `BackendSched` after the
last graph; in `WhisperFull` when a call has freed the state.

### Fairness

`AudioCapture`: the main thread goes on with the call it is in, and a callback
that has begun returns. It is not assumed that the user answers the microphone
prompt, for which the code waits without a timeout: `MicPermission` has no
fairness. `TranscriptionBatch`: tasks queued on the main actor get their turn,
timers fire, whisper returns, since it works through a file of finite length. No
click is ever assumed. `TranscribeEngine`: code that is ready runs, and the
timer fires. `Chat`: a task goes on, and a prediction comes to its end or fails;
that the model is ever loaded is not assumed. `ThreadPool`: the operating system
runs every thread that can run (`Seek`, `GraphComputeThread`), and a call that has
begun goes on; whether the caller computes another graph, pauses, or frees the
pool is its choice. A sleeping thread need not wake without a broadcast. The user, the network and the recognizer may stay silent for ever.

### Properties

* `EndedSessionReleasesHardware`, `FailedStartCapturesNothing`,
  `StartedAndStoppedTogether`: the part of audiosdk's cleanup promise that
  the code keeps, through every failure, replacement, release and late callback.
* `HandledExactlyOnce`, `ImplementsService`: the post-processing handlers.
* `AtMostOneLateWrite`, `DroppedTapReleased`: the callback against the stop.
* `UndisturbedRowNamesItsFile`: when the lookup of the newest file in the
  current directory can be trusted. If the directory changed, or another
  window began to record, the row may name another recording's file; if the
  directory cannot be listed it names none.
* `RowsAreOfStoppedRecordings`: a property of steps. The rows that a step adds
  are exactly those of the recordings it stops: the completion that a stop calls
  is the one its own start has stored, though failed starts, windows that close
  and crashes come between, and no stop goes without.
* `DurationZeroWhenIdle`: a task that comes late.
* `TranscriptPathExists`, `ArtifactsWrittenOnce`, `BatchLeavesNothingUndone`:
  the artifacts and the row under overlapping batches, failures and crashes.
* `TranscribingEnds`, `LoneCountdownEndsInBatch`: liveness. The end of a batch
  invalidates the timer that its window has stored by then, so a stop can lose
  its batch (`StopIsFollowedByBatch`, below). What the code keeps is that a timer
  which is once without another timer and without a batch in progress of its
  window ends in its own batch, whatever comes after it.
* `AnswersAloneResumeOnce`, `TimerReleased`, `RecognitionEnds`: the promise of
  the engine, except where the timeout and an answer meet.
* `WorkersOutsideBetweenGraphs`: while the caller stores the next graph no thread
  is in the last. `WdataFilledBeforeUse`: a product reads its converted matrix
  only when all of it has been converted. `FreeEnds`: no thread misses the stop.
  `ImplementsParallelGraph`: all together, the promise to the caller.
* `ReadsIntact`, `OutputsKept`, `ImplementsTallocr`: no memory is given away while
  someone will read it.
* `ReadsAsInOrder`, `RunsWhereItCan`: copies are made after what they copy and
  before they are overwritten, and places fit the backends that use them.
  `PlacesServe`: a graph that takes places over from an earlier one, cut in another
  way, has them for as long as it needs them.
* `AttendsToOwnPast`: the prompt and its own tokens, each once, whatever decoders
  failed or exchanged their texts; and the next tokens fit the cache.
  `SegmentsInOrder`, `ChunkAdvances`: what comes of any timestamps a model may
  answer.
* `AnswersFollowTheirQuestions`, `LoneAnswerIsWhole`, `ProcessingEnds`: the
  dialogue. Answers in work together share `currentResponse` and mix; what
  survives is the order, and that the flag is reset on every way out.

### Findings

Two runs state what the repository says of itself and find it violated:

| Run | What is said | What the code does |
|---|---|---|
| `cleaner_spares` | the cleaner removes what previous runs left | it destroys the aggregate of another window's recording |
| `stop_loses_batch` | transcription starts five seconds after a stop | the end of a batch invalidates the timer of a later stop, and no batch follows |

In `stop_loses_batch` a recording is started between a stop and its task, when
the view still shows Start because the task has not set `isTranscribing` yet.
Its own stop may come at any time while the first batch is at work: its task
stores a timer, and the batch ends, resets the window and invalidates that timer
(`ContentView.swift:546`). TLC's shortest trace has the second stop before the
first task as well; it can be moved behind the first tick without changing
anything. The recording is transcribed only by the batch of a later stop. A
batch that began after the stop, whosever it is, would satisfy the property; one
that had begun before does not, as it has listed the directory.

The models show more that no property states.

* A start that fails after the process tap was created leaks it
  (`ProcessTap.swift:111`), though `audiosdk/README.md:14` says that resources
  are cleaned up; process taps that survive a crash are never removed either.
* The URL of the microphone's file is read after the recorder has let go of it:
  no row ever names one (`AudioRecordingManager.swift:127`).
* The timeout of an Apple call and an answer may both resume its continuation,
  which stops the program (`transcribe.swift:248`).
* The upload removes the recording itself: `transcribe.swift:351` says "Clean up
  converted file", but `convertAudioForAPI` (436) returns the URL it was given, so
  line 352 removes the original, before the answer is parsed.
* A second window, or a start between a stop and its task, makes a batch
  transcribe a wav that is still being recorded, and the partial transcript is
  never replaced; a wav without speech gets no json and is transcribed again by
  every batch; a `try!` on the size of a file that another call has just removed
  stops the program.
* `ggml_gallocr_needs_realloc` compares numbers, sizes and which sources have a
  place of their own, not which tensors they are: a graph of another shape could
  take over places that overlap. Whisper builds graphs of one shape for each of
  its schedulers, but a shape is cut differently when backends support other
  operations for another batch. Then the comparison of the sources matters: the
  mutant `NodesChanged`, which leaves it out, lets a node read what another has
  overwritten, on a GPU next to BLAS and the CPU.
* When a graph needs more threads than the one before, a thread that polls may
  read the old number of the graph (`ggml-cpu.c:2844`) with the new number of
  threads (2846), as the kickoff stores them in the other order (2951, 2955), and
  compute a graph twice, although the comment of line 3066 says that no worker
  accesses the parameters then. Not in whisper: it sets no thread pool, so that
  every graph gets a pool of its own with as many threads as it asks for (3063).
* A split of a graph that has room for one more input can be given a node with
  two, which an assertion answers by stopping the program
  (`ggml-backend.cpp:1213`; a FIXME says so).
* Without timestamps `tid` is compared although no token has a time
  (`whisper.cpp:7575`); after a return of -7 the state is freed and the context
  still points to it (`whisper.cpp:7108`).

## Proofs

`AudioCaptureProofs` proves, for any sets of recorders and sessions, from the
one assumption `SessionNone` (nil is not a session):

* `TypeCorrect`. `TypeOK` alone is not inductive: a step of a start uses
  `call.new` and the objects that earlier steps made. `Typed` adds that.
* `Inductive`. `IInv` has seven parts: what the call in progress knows of its
  recorder (`CallInv`), who holds which session (`OwnerInv`), which engines run
  (`MicInv`), which taps record and hold a file (`TapInv`), who accounts for each
  object in Core Audio (`HardwareInv`), which callbacks may still write
  (`LateInv`) and how far the handlers are (`HandlerInv`). The heart of it is
  `TapInv`: a tap records exactly while its session captures and is not being
  stopped, while its start is past the device start, or while the last callback
  of a dropped tap runs; `HardwareInv` hangs on it. `IInvKept` has one step per
  action.
* `EndedReleases`, `FailedStartsAreSilent`, `OneLateWrite`, `HandlersExact`,
  `TogetherAlways`: the five invariants of the run `capture`, from `IInv`.
* `ImplementsServiceSafety`: the recorder implements `CaptureService` without its
  fairness. `StepImplements` maps `StopMic` to `End`, the handlers to `Tell` and
  `TellMic`, `Commit` to `Begin`, the release of a recorder to `Discard`, a crash
  to `Lose`, and every other step to a stutter. `Begin` needs `OwnerInv` and
  `HandlerInv`: the session is new to the service.

`TranscriptionBatchProofs` proves `EngineTypeCorrect`, `AnswersAlone` and
`TimersReleased` of the engine, which a batch awaits, for any calls and files,
with no assumption. The invariant
says that a call is resumed exactly if it has an outcome (`OutcomeInv`), that
only a call with a timer can be resumed twice (`TimerInv`), and that until the
timer's handler runs the callbacks have the call to themselves (`AnswerInv`).
What happens when both run is not a promise of the code: it may resume twice.

It proves of `RecordingSession`, for any windows,
recordings, directories and kinds of wavs, `ClockStops`, `UndisturbedRows`,
`RowsOfStopped` and the types, from the assumptions that nil and "norow" are no
recordings and differ, and that there is a process wav. `SessionInv` adds what a
stop relies on: no two windows record the same, and what is recorded has its
files and the completion of its own start (`RecordingInv`), a row belongs to a
recording that has begun and is over (`RowInv`), the clock has a start exactly while its window records (`ClockInv`), and the file of
an undisturbed recording is the newest of all, in the current directory
(`NewestInv`), which is what `UndisturbedRowNamesItsFile` needs at the moment of
the stop. `RowsOfStopped` is a property of steps: `RowsOfEachStep` shows that a
stop adds the one row of its recording, since the completion is that of the
recording and there was no row before (`StopFacts`), and that no other step adds
a row or counts as a stop.

Of the composition it proves `TranscriptsExist`, `ArtifactsOnce` and
`NothingUndone`, crashes included, on top of `SessionInv`, which every step of
the composition keeps (`SessionKept`: it is a step of the session or leaves it
alone). `OnceInv` says that a stop has a task, then a timer, then a batch, each
once, for which the queue of tasks has to name no stop twice (`TaskAdded`,
`TaskTaken`); `Stage` where a batch is with its file, so that `saveJson` and `updateRow`
come after the txt; `Account` that what a batch found is still to do, excused or
complete, from which `BatchLeavesNothingUndone` follows at its end
(`DoneComplete`).

`ChatProofs` proves the order of answers and that lone answers are whole, for any
number of questions and tokens. `Told` says what of a question is in the chat,
`Alone` that a question that never shared the chat is the only one in work and
that the response shown is its own.

`DynTallocrProofs` proves of the tensor allocator, for any sizes and arena, that
live ranges and free blocks overlap nothing, lose nothing, are merged, and fit a
buffer of `max_size`.

`GraphAllocatorProofs` proves all four properties of the run `graph_allocator`,
for graphs of any shape and size, any number of them, and any arena.
`AllocatorConstants` asks only that the graphs a caller may begin with are
well-formed. It takes the lemmas about the tensor allocator by INSTANCE, with
`Live`, the ranges of the tensors that own their memory, as what is live.

* `UsesTallocr`: a range is given back by the one tensor that owns it. `LifeInv`
  says that no two tensors own the same range, which `Reuse` keeps since the
  source lets go of what the node takes.
* `NodesReadIntact`, `OutputsStay`. `Keeps(o, m)` says that `o` is an output, or
  that a node after `m` reads `o`, itself or through a view. `LifeInv` says that
  such a tensor still owns its range while the graph is measured, `PlaceInv` that
  every tensor is apart from those that were kept when it got its place. What
  makes this inductive is `CountInv`: `n_children` is the number of reads that are
  still to come, `n_views` the number of views that have not been read for the
  last time. So the node that brings both to zero, or takes over a source with one
  child and no view, is the last reader (`LastReader`, `LastViewer`, `DonorDone`).
* `StoredInv` carries this over to later graphs: the places stored serve a graph
  of this shape with the sizes stored. `EnoughRoom` shows that the comparison in
  `ggml_gallocr_needs_realloc` makes them serve the next graph too; the size of a
  leaf is compared only where a node reads it, which is why `LeafsUsed` is needed.
  `RunInv` says that the places serve the graph in work, and `MemoryInv` that in
  memory what is kept is intact.
* `TypeCorrect`: no counter goes below zero, again from `CountInv`, and every
  tensor is within the buffer, views included.

`ThreadPoolProofs` proves of the thread pool, for any number of threads and any
lists of graphs with `NeverGrows`, the hypothesis of all its theorems (without it
a graph may be computed twice, as the findings above say):

* `PoolInvariant`. `WorkerInv` says where a secondary thread may be: not in a
  graph, in the current one, or in the last one but released from its last
  barrier. The heart of it is `InStep`: `NextBarrier`, the barrier that a thread
  will pass next, is the same for all threads of a graph. So a counter that all
  graphs and all barriers share, without a generation of its own, suffices:
  `BarrierInv` says that it counts exactly the threads that have arrived, that
  one thread at most is about to reset it, and then all have arrived.
* `TypeCorrect`, `WorkersStayOutside`, `WdataFilled`. The last needs `DataInv`:
  what of a node is converted and computed follows from where the threads are
  and from the counter of chunks, and a node behind a barrier is complete.
* `ComputesAsPromised`: the safety part of the refinement of `ParallelGraph`. A
  chunk step maps to `Compute`, the return of the call to `Return`, and the rest
  to a stutter. That a chunk is not computed twice, and that a call returns
  success only when all is computed, is `DataInv` again.

`WhisperFullProofs` proves the four properties of the run `whisper`, for any
model, audio, number of decoders, temperatures and contexts. `WhisperConstants`
asks of the text context that it be even and at least ten: the code cuts the
prompt at its half and the text at its half minus four.

* `Advances`: every chunk moves the window forward, by a chunk at most. `FullInv`
  says that a decoder's result names tokens it has sampled, and that decoders at
  work have sampled as many as there were steps (`LengthInv`), that its
  `seekDelta` is between 1 and a chunk, and that in a chunk there is audio left
  (`AudioInv`). The main loop ends: steps and temperatures of a chunk are
  bounded, and `Advances` bounds the chunks.
* `SegmentsOrdered`. `TokenInv` says that the timestamps a decoder has sampled
  ascend and are not after its `seekDelta`; `ResultInv` that what is in `result`
  ends before the window.
* `TypeCorrect`. The bounds of the cache: `SizeInv` that it is sized for as many
  decoders as a call uses, `CellInv` what a cell in use may hold, and `FillInv`
  that while decoders work the cells in use are among the first `Fill`, the
  prompt and one per decoder and step. So the slot that `find_slot` takes is
  within the cache, without a search that runs around it. `StepInv` is the case
  without timestamps, whose text is a token longer. `HasRoom` is for
  `DetectLanguage`, which puts its one token in before it clears the cache.
* `OwnPast`. `AttendInv` says which cells a decoder's sequence has: for each
  position one, with the tokens of the decoder up to there as its past (`Holds`).
  `HoldsBegin`, `HoldsDraws`, `HoldsNext` are the three ways to change it: the
  prompt that is copied to all, the exchange of texts, which goes through a
  second range of sequences and so is right in cycles too, and the next batch.

`BackendSchedProofs` proves of the scheduler, for any machines, any programs of
well-formed graphs and any limit of inputs (`SchedConstants`, `SchedPlatforms`,
`SchedPrograms`):

* The passes are folds over the graph. `FoldDefined` gives a fold as the last
  member of a sequence of states, and a lemma for each pass makes its steps
  explicit (`ExpandSteps` to `OrderSteps`); what holds of the first state and is
  kept by every step holds of the result.
* `TypeCorrect`, `OperationsRunWhereTheyCan`. `Steady` says what each phase of a
  graph rests on: that ids are backends that support what they are given
  (`IsCut`), that inputs, copies and nodes come in the graph's copy in the order
  that places need (`Laid`), and that stored places have the buffer types of the
  order they were made for (`Reserving`). `Queues` says where the computation is:
  a queue holds, in their order, nodes of splits of its backend that have been
  issued, from some node on (`Queued`, `Rest`); one of a backend that is not
  asynchronous only those of the last split (`InTurn`); and none from before a
  split whose inputs have been copied (`AfterCopies`).
* `NodesReadInOrder`: `ReadsAsInOrder`, whenever `PlacesServe` holds throughout.
  `InOrder` says that what will still be read (`Wanted`) is right (`Kept`), that a
  cache holds its last write among the nodes that were run (`Caches`), and that
  the result is there at the end. Each kind of step keeps it (`BeginsKeeps`,
  `CopyKeeps`, `SplitKeeps`, `NodeKeeps`, `FailureKeeps`). The argument has two
  halves. What is written overlaps nothing that is wanted (`NodeClash`,
  `CopyClash`): lifetimes keep tensors of one order apart, and backends that share
  memory do not compute at the same time (`Apart`). And what is read is what was
  wanted (`NodeReads`, `CopyHolds`, `ResultHolds`).
* The hypothesis of `NodesReadInOrder` is about the allocator alone: nothing says
  of two arbitrary graphs that the places of one serve the other, as the code
  does not compare how they are connected. `RepeatedGraphsServe` proves it for a
  scheduler that is given one graph over and over (`OneGraph`), as an encoder's
  is: the graph is laid out alike each time (`LaidOutAlike`, `Repeating`). For the
  same operations with other support the run checks it on its machines.

A lemma that needs induction over the naturals takes the least counterexample
with `WFMin`, since an induction theorem with an operator as its parameter cannot
be used.

Model-checked only: all liveness (`DroppedTapReleased`, the fairness of
`ImplementsService` and of `ImplementsParallelGraph`, `TranscribingEnds`,
`LoneCountdownEndsInBatch`, `RecognitionEnds`, `ProcessingEnds`, `FreeEnds`), which is
beyond TLAPS; and `PlacesServe` for graphs that change between computations.
A run for the liveness of `WhisperFull` is left out: its sampling has too many
outcomes for the tableau of TLC.

## Assumptions and omissions

* One call of an `AudioRecorder` at a time, on the main thread; handlers do not
  call back into it. This holds for the app and for `TestSDK`.
* `ContentView` is isolated to the main actor as a `View`; an action of
  `RecordingSession` is one turn.
* Destroying an existing Core Audio object succeeds; its status is ignored by
  the code.
* The microphone's callback only writes to its file and is left out.
* A duration task and a countdown tick are modelled, but a firing of the
  countdown timer and the task it enqueues are one step (`Tick`). A batch keeps
  its turn through `await MainActor.run`, which it is on already.
* A creation date that cannot be read counts as the distant past in the code;
  that the dates of files in a directory that can be listed are read is assumed.
* `TapStopFlag` clears `isRecording` and `currentFile` in one step: a callback
  that comes between the two stores of `ProcessTap.swift:119` is one that came
  before both.
* File names are new. They carry local time in seconds, so two starts within a
  second, or in an hour that summer time repeats, would collide.
* Text, segments, sizes, titles, logging and layout are left out.
* Stale reads of the unsynchronized `hasResumed` are tests made earlier, which
  the interleaving covers.
* The atomics of the thread pool are sequentially consistent in the model; the
  code uses relaxed ones where the barrier or the mutex orders them, and for the
  polling loop, whose two loads (`ggml-cpu.c:2833`, `2844`) have no fence between
  them: a reordering of these is not in the model. Priorities,
  affinity and the OpenMP build are left out.
* The graph allocator has one buffer of one type, and its allocation succeeds.
  Inputs that are allocated before the walk (`ggml-alloc.c:592`), nodes without
  an operation, tensors that the caller has allocated and the assertion on the
  number of free blocks (`279`) are left out;
  the scheduler's model has several buffer types instead, without offsets.
* Whisper's schedulers have one copy of the inputs and no callback; their graphs
  write in place only into caches, and read a view of a cache before the next
  write to it. A caller that finds no memory gives up. Copies that a backend
  does asynchronously itself (`cpy_tensor_async`, `ggml-backend.cpp:1391`) are
  left out.
* Probabilities, entropies and scores are open: any token that is not suppressed
  may be sampled, any decoder may rank first. The threads that sample for
  several decoders write to decoders of their own and are one step.
* Beam search deals out candidates by their scores, which are open, and starts
  again from the best when they run out. The model allows any deal in which two
  decoders differ if any two did before: exactly what the code may do with two
  decoders, as in the run, and more than it may do with three.
* `whisper_full` may return before its loop on bad parameters (-4, -5), and
  `no_context` is on, as the app has it: both are left out.
* One call at a time on a whisper state: the app makes a context for each file
  (`transcribe.swift:390`).

## Not modelled

* The process picker and the whitelist of `ContentView`, discovery, errors,
  metrics, `TestSDK`: state of one view changed by a click at a time, or no state.
* `AIManager`'s search: pure text, which changes nothing but the prompt.
* `WhisperCore.m`: a straight call into whisper.cpp.
* `whisper_full_parallel`, voice activity detection, grammars, token times: the
  app asks for none of them.
* The encoder, model files, the operations of ggml, quantization, the drivers of
  Metal, CUDA, Vulkan and the other backends: numeric kernels and formats, nearly
  all of the lines in the repository. TLC could not tell a right kernel from a
  wrong one, so the share of the repository's lines that definitions stand for
  stays small however much of the control is modelled.

## Order of the work

`AudioCapture` with its proofs, `RecordingSession`, `TranscriptionBatch`,
`TranscribeEngine`, `Chat`; then the engine below:
`ThreadPool`, `GraphAllocator` over `DynTallocr`, `WhisperFull` over `KVCache`,
`BackendSched`; then the proofs of the session, the batch, the chat, the tensor
allocator, the thread pool, the decoding, the graph allocator and the scheduler.
What would come next: which differences between two graphs leave `PlacesServe`
true; and a model of the Metal backend's command buffers, whose completion the
scheduler waits for.
