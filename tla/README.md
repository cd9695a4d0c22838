# Verification of the streaming duplex speech server

TLA+ models, model-checking runs and machine-checked proofs for the code that
turns a user's speech into streamed speech: the duplex engine and WebSocket
server of `vllm-omni/vllm_omni/entrypoints`, its stage workers, the scheduler of
the talker, the browser client in `sample/`, and the offline `Omni` that runs the
same stages without streaming.

## The system

A browser sends microphone audio over a WebSocket. `lgws/server.py` hands it to
`DuplexOmni` (`lgws/duplex_engine.py`), which starts a *turn* at the end of an
utterance. A turn runs through three stages, each a process of its own:

    stage 0 thinker (text)  ->  stage 1 talker (audio codes)  ->  stage 2 code2wav (audio)

The orchestrator is one asyncio event loop. Per turn it runs `router_task`,
`worker_0to1`, `worker_1to2` and `worker_2toServer`; per stage a harvester takes
results off the stage's output queue and routes them by request id through
`request_states`. A user who speaks during an answer causes a *barge-in*: the
turn is aborted, its tasks cancelled, its queues drained.

### Inventory

| part | state | operations | hard behaviours |
|---|---|---|---|
| turn audio (`duplex_engine.py` 597-860) | code buffer, cursor, counters of sent and received chunks, expected total | take answer, send chunk, stop token, cut audio, finish, cancel | overlap arithmetic, late answers, repeated stop token, lost send |
| thinker feed (294-595) | rows sent, `chunk_seq`, padding embeddings, tasks | prefill, row, catch-up, end of speech, padding, cleanup | ids shared by tasks, results that group tokens, cancellation |
| stage worker (`omni_stage.py` 1043-1383) | input queue with feeder thread, task table, abort list, batch | generate, abort, shutdown, drain, dispatch, done callback | two consumers of a queue, stale loop variable, sticky task type |
| sessions (`duplex_engine.py` 106-211, 862-906) | queues, tasks, routes, turn ids | audio in, end of utterance, barge-in, cleanup | cancelled tasks that still run, routes shared by sessions |
| endpoint (`server.py` 191-399) | last turn seen, sender and its counters | poll, send, barge-in, disconnect | stale sender, cleanup that is not awaited |
| client (`sample/app.js`) | `isUserSpeaking`, `isAITurn`, `isAIProcessing`, playback queue | speech, messages, playback end, close | three callbacks on shared flags |
| talker's scheduler (`core/sched/omni_ar_scheduler.py`, with the talker's state in `gpu_model_runner.py` and `qwen3_omni.py`) | lockers of block, count, token and history; waiting queue; block pool; hidden state | add, schedule, execute, update, flush, abort | a block used after it was freed, tokens relayed to requests that already wait |
| offline call (`omni.py`, synchronous `_stage_worker`, shared-memory connector) | queues of the stages, one output slot per stage, segments, count of completed requests | start, batch, emit, collect, forward, close | batches told apart by order, failures that are only logged, segments nobody reads |

`PROJECT.json` lists every part, modelled or not, and every hazard with its line.

## Modules

* **TurnAudio** - one turn between talker and client. Codes are positions in
  the answer; a chunk is a span of them, and the audio delivered is the span it
  stands for. The requests to stage 2 are an append-only log with cursors.
* **ThinkerToTalker** - one turn between thinker and talker. `ready` is the
  event loop's FIFO queue; a task runs from one await to the next in a step.
* **StageWorker** - one stage process and the orchestrator's end of its input
  queue. A put goes to a feeder buffer and from there to the pipe. Generation
  tasks and their callbacks run only while the main loop sleeps.
* **TalkerScheduler** - the engine core of stage 1. A turn is a chain of
  sub-requests that vLLM takes for unrelated requests; what links them is kept in
  the scheduler's lockers, the waiting queue and the talker. A token is named by
  the sub-request that sampled it, so a wrong token, block or position is seen. The
  queue is the set of the requests that wait, each with when it arrived.
* **DuplexSession** - sessions, turns, routes, barge-in, the sender. The inside
  of a turn is reduced to one answer of stage 0, one of stage 1 and `Chunks` of
  stage 2; TurnAudio and ThinkerToTalker show what that reduction leaves out.
* **SampleClient** - the browser client against a server reduced to what
  DuplexSession shows: `end_of_response` right before the last chunk, silence
  after a barge-in.
* **OmniPipeline** - one call of the offline `generate`: the orchestrator's
  loop, the worker processes with their batches, and the shared-memory segments
  that carry large payloads. An output carries the prompt it was computed from,
  so that a mix-up is seen. A batch may fail before or between its results, a
  payload may be missing, which ends the worker (`MissingPayload`), an input
  processor may fail, the caller may abandon the generator, a worker that does
  not stop is terminated.
* **AudioStream** - what a turn promises, without chunks, overlap or counters:
  pieces of audio that follow each other, made of what was spoken, the last one
  ending the turn. TurnAudio implements it; the mapping is at the end of
  TurnAudio (`Stream`).
* **Subsequence** - what a loop leaves of a queue it takes entries out of, for
  the drain of StageWorker. It is defined by ranks rather than by recursion, so
  that the drain can be proved about.
* **MC...** - the modules TLC runs; the `.cfg` files give constants.
* **...Proofs** - the theorems, with the inductive invariants and the lemmas
  about queues and single steps they rest on. For OmniPipeline the invariant and
  the steps that yield nothing are in **OmniPipelineLemmas**.

`PROJECT.json` maps each definition to the lines it models. Logging, metrics,
timing, tensors and text are left out. A send that the sender makes of an
`end_of_response` and the chunk after it is one step.

## Runs

| run | module, size | shows |
|---|---|---|
| turn_audio | TurnAudio, 570 thousand states | audio is gapless and complete, the FINAL chunk unique, the chunker does not die of a first stop token; the turn implements AudioStream; a turn whose number of chunks is known is torn down |
| thinker_feed | ThinkerToTalker, 6 thousand | the talker is fed in order, from rows that exist, with the whole answer; no route survives cleanup; the talker gets its end of speech |
| stage_worker | StageWorker, 984 thousand | with one session an abort costs no live turn an output or a request, drains keep a turn's requests in order, and a request that is started is answered |
| talker_scheduler | TalkerScheduler, 68 thousand | turns spoken one after the other: each sub-request runs on its turn's context, token, hidden state and history; after a stop token the lockers stay; sub-requests are answered |
| duplex_session | DuplexSession, 1.2 million | nothing of an interrupted turn is sent; live turns keep their routes, finished ones leave none, whatever the timing |
| duplex_session_live | DuplexSession, 231 thousand | under `Prompt`, `end_of_response` comes once, with the last chunk, and every turn gets it unless interrupted or left |
| omni_pipeline | OmniPipeline, 157 thousand | outputs are neither mixed up nor reordered; a call that ends by itself has returned everything once and left no segment; a call ends, or polls for ever because a request was given up |
| sample_client | SampleClient, 5 thousand | one speaker at a time, only the current turn is played, the AI's turn ends |

Four runs show where the code and what the repository says of it disagree:

* **stage_abort_two_sessions** - an abort of one session makes the worker
  discard a finished output of another (`omni_stage.py:1342`).
* **talker_two_sessions** - the cache block a turn goes on using after it was
  freed is given to a turn of another session (`omni_ar_scheduler.py:325`).
* **duplex_two_sessions** - a stop token removes the talker routes of all
  sessions (`duplex_engine.py:654`).
* **sample_client_drop** - the last chunk of an uninterrupted answer is dropped
  "after barge-in" (`app.js:354`).

A fifth disagreement has no run of its own. The docstring of `generate` promises
"one for each input prompt", with the output "from the final stage"
(`omni.py:409-411`). The code returns two for every prompt that is not for text
only: stage 0 yields its text, because it is a final output of the configured
pipeline, and the last stage its audio. `AllReturnedOnce` and the theorem
**ReturnedOnce** are about what the code returns: each final output of each
prompt, once.

`GenerateEnds` says how a call can go on, and the second way is not what a caller
expects: it is closed, or it polls for ever with a request that was given up. Two
things give requests up. An error result is only logged and its request never
counted (`omni.py:578`). A payload the connector does not find raises a
`RuntimeError` before the `try` of the batch loop (`omni_stage.py:753`), so the
worker process ends without a word, and neither its batch nor what is queued
behind it is answered. The property says that nothing else keeps a call from
ending.

Several properties except what the code does not promise. `NoSegmentLeft`
is about calls that end by themselves: an abandoned call leaves segments behind.
`OneFinalChunk` and `ChunkerSurvives` are about one stop token: a second one
does make a second FINAL chunk, or a negative padding that ends `worker_1to2`
(`duplex_engine.py:664`); `TurnCompletes` holds all the same.
`RequestsServed` excepts a dead engine core: a later sub-request of a turn whose
prefill never ran ends it (`qwen3_omni.py:728`). `HistoryIntact` excepts two
tokens 0 in a row, which the scheduler takes for none (`omni_ar_scheduler.py:138`).

### Bounds

Chunks of four codes that overlap by two, and seven requests, give TurnAudio a
first, a middle and a FINAL chunk, before and after late stop tokens; the
theorems cover the other sizes. Seven tokens and three
paddings give ThinkerToTalker a prefill, single rows, several catch-up rows and
every grouping of tokens. Two turns are the least in which one disturbs the
next; two sessions the least in which sessions do. Three sub-requests give the
talker a prefill, a successor and one that already waits; two blocks are the
fewest of which a freed one can go to another turn. Four prompts in batches of
two through three stages give OmniPipeline full and partial batches, a prompt
that ends early, inline and shared-memory payloads, and a late stage. One error
per run of StageWorker (`MaxErrors`) can strike before, between or after a
request's outputs and beside those of another request. Each bound is a constant
with `Max` in its name, or is named in the module.

Assumptions that are constants, so that runs can vary them: `Overlap` (a client
starts a turn before the last is over; in TalkerScheduler, turns of several
sessions are spoken at once), `WarmedUp` (the warm-up reached the
stage), `Prompt` (the event loop is faster than a stage's round trip; needed for
`EndOfResponseOnce` and `TurnAnswered`, which fail without it because a late
poll resets the sender's counters), `SlowNetwork` (leftovers outlast an
utterance). `Distinct` in DuplexSession says that no session starts two turns in
one second, since a turn id is the session and the second.

### Fairness

Weak fairness of the tasks of an event loop (it resumes what is ready), of
feeder threads and of stages that work; strong fairness of the generation tasks
in StageWorker, which are enabled only while the main loop sleeps and which the
FIFO loop does not pass over for ever (they are taken together: each makes
finitely many steps). The engine core of TalkerScheduler is weakly fair, since it
steps while it has requests; so are the polling loop and each worker process of
OmniPipeline. Users, barge-ins, errors and
disconnections are never fair.

## Proofs

TurnAudioProofs proves, for every chunk size, overlap and bound that satisfy the
assumptions of TurnAudio: **TypeCorrect**, **Gapless**, **Complete**,
**Survives** and **OneFinal**. None of the invariants is inductive alone:
gapless delivery needs to know how the log of requests was cut, which needs the
cursor. The inductive invariant `IInv` adds to the types: `CursorInv`
(`stg1_sent_idx` stays within the codes buffered, an overlap behind them),
`StopInv` (what the first stop token leaves behind), `QueueInv` (received,
answered and sent chunks in this order), `LogInv` (each request starts one step
after the one before, and exactly the expected one is FINAL) and `DeliveryInv` (what
was delivered is what the answered part of the log stands for). One lemma per
group of conjuncts goes through the actions, and `Invariance` combines them.

It also proves **Refinement**: every behaviour of TurnAudio is one of
AudioStream. Beyond `IInv` that needs `OrderInv` and `SupplyInv`, which relate the
requests to the codes that exist when they are made, so that a piece of audio is
never heard before it was spoken. Each action is shown to be a step of the
abstract stream or a stutter: `HearStep` covers the delivery of a chunk,
`StreamStep` all actions. **ChunkFormula** (`ExpectedByFormula`) follows from the
same invariant: until the stop token the cursor is the number of chunks sent
times the step from one chunk to the next, and by `OrderInv` the answer that comes
after a chunk brings a code beyond that chunk's overlap, so the rest at the stop
token makes exactly one chunk more.

SampleClientProofs proves **FloorExclusive** (`OneSpeaker`, on any network) and
**CurrentPlayed** (`OnlyCurrentPlayed`, when `SlowNetwork` is false), for every
length and number of turns. The inductive invariant `CInv` lists what can be on
the way to the server (`UpInv`), places the server in the client's turn or one
behind with nothing left to send (`ServerInv`), ties what is on the way back to
the server's turn (`DownInv`), and says that the AI gives the floor up without a
barge-in only when everything has been sent (`FloorInv`). The types of the client's
state are conjuncts of `CInv`, so no run checks them. With a slow network the
second theorem has no counterpart: a leftover that arrives after the end of the
next utterance is played into it.

ThinkerToTalkerProofs proves, for every length of the answer, every number of
paddings, every grouping of tokens into results and every moment of a barge-in:
**FedInOrder**, **NoEmptySlice**, **AllSpoken**, **NoLateRoute** and
**FeedTypes**. The ids are made by the worker and used by tasks it spawns, so
the heart of `IInv` is the shape of the event loop's queue (`TaskInv`): a send
task is there only with the worker that spawned it behind it, the padding task
only after the end of speech. `SpeechInv` then ties the worker's four ways of
knowing its position (`chunk_seq`, `last_idx`, the loop's row, what was fed) to
each other, and `ResultsInv` says that results grow and only the last is
finished.

OmniPipelineProofs proves, for any number of prompts, stages, faults and any
batch size: **OutputsAreOwn**, **OutputsInOrder**, **ReturnedOnce**,
**SegmentsUnlinked** and **PipelineTypes**. The argument is about the whole
pipeline at once. A request in it has a place: the input queue, batch or output
queue of a stage, or the yield. `ChainInv` says that of two requests the one
further on is the earlier prompt, so nothing is ever overtaken, and that what a
stage has yielded is before all it will yield. `QueueInv` says that every
message carries its own request's data, which makes the shared `engine_outputs`
slot harmless: between `set_engine_outputs` and its use no other output comes
in. `CountInv` counts the requests that are done, so that a call which ends by
itself has all of them, and with `ChainInv` none of them is left anywhere.
`SegInv` says that a segment exists only while a message that will be read
names it; at the end there are no such messages. Errors have no part in the
order: a batch that fails between two results sends errors for requests that were
already answered, so `ChainInv` speaks of results only (`HasResult`).

StageWorkerProofs proves **StageTypes** for every number of sessions, turns and
requests, and three theorems with a hypothesis: **AbortDiscardsOwn** and
**NextTurnServed** when the worker serves one session, **RequestsInOrder** when
moreover its turns do not overlap. The hypotheses are not for convenience: with
two sessions the first is false (run stage_abort_two_sessions), and where turns
overlap a drain puts what it retains behind what the feeder buffer still holds.
The invariant is about
everything on its way to the worker, feeder buffer and pipe together (`Q`).
`AbortInv` says that while an ABORT waits, all requests before it, all that the
worker has started and the turn it saw last were aborted: so what the sticky
task type and the abort list take for aborted was. `OrderInv` says that what
waits, and what was started, is in the order of submission; that a drain keeps
it rests on the lemmas about `Keep`. `QueueInv` (a request waits once, and not
after it was started) is what both need.

DuplexSessionProofs proves, for any number of sessions, turns, chunks and stage
errors: **Typed**, **NoLeak** (`NoRouteLeak`), **Silence**
(`SilentAfterBargeIn`), and, for one session whose turns do not overlap,
**Routed** (`PendingRouted`); with two sessions that one is false (run
duplex_two_sessions). The inductive invariant `GInv` needs no assumption: a route
bears the id of the turn it leads to and exists only from the begin of its task to
the end of its `finally` (`RouteInv`); every output is in the queues of its own
turn, and none of an interrupted turn is in a result queue (`ItemInv`); a turn has
one request underway until its chunks are made, and then only requests for chunks
it has not counted (`PhaseInv`). `SerialInv`, where turns do not overlap, adds
that only the last turn of a session can be new or run, and that it runs only
when no earlier one is still being cancelled.

The same module proves **EndOnce** (`EndOfResponseOnce`) under `Prompt` and
without overlap, for any number of sessions: the assumptions of the run that
checks it. The sender counts chunks in variables that a poll resets, so the
theorem is about two counts that must agree, the engine's and the sender's.
`AnswerInv` says of the last turn of a session that the chunks sent, those in its
queues and those still to come add up, in order and with only the last one marked
(`StreamOf`), and that once the turn's id was polled the sender's counter is the
number of chunks sent (`SenderOf`). `Prompt` is used in one place: nothing comes
from a stage for a turn whose id the endpoint has not polled.

TalkerSchedulerProofs proves **SchedulerTyped** (`TypeOK`) for any number of
turns, sub-requests, blocks and requests per step; **Frozen** (`FrozenAfterStop`)
for one request per step (`MaxRunning = 1`, the `max_batch_size` the talker is
configured with), even when turns overlap; and, for one request per step and turns
one after the other, **Context** (`ContextIntact`), **Relaying** (`RelayIntact`) and
**Penalised** (`HistoryIntact`). With two sessions the third is false (run
talker_two_sessions). `GInv` needs no assumption: sub-requests of a turn wait and
run in their order, and the counts of a turn are never beyond the first that is
left. Freezing needs `OneInv`: what runs was sent the history its turn still has,
so `check_stop` sees a stop token that is in it. The other three rest on
`SerialInv`, whose heart is `SpokenOf`, a description of the turn being spoken by
one number, how many of its sub-requests the lockers know: it fixes the lockers
(`LockersOf`), the talker's position, hidden state, history cache and the whole
content of the turn's block (`TalkerOf`), which sub-requests wait and what has
been relayed to them (`WaitsOf`), and the request under way with its payload
(`RunsOf`). The block is freed after every step and keeps its content because
nothing of another turn is admitted once the turn has begun to be spoken
(`OrderInv`, the last conjuncts of `WaitsOf` and `RunsOf`).

Each inductive invariant was checked with TLC on the runs' instances before it was
proved. Induction over the positions of a sequence, where `Keep` needs it, is done
with a least counterexample (lemma `Least`), since the induction theorems of the
library take an operator that the provers cannot instantiate; so is the greatest
position of a set (lemma `MaxIn`).

Only model-checked: all liveness (fairness is out of the prover's reach). Every
invariant and every action property of a passing run is also proved, except that
the theorems with a hypothesis state it where the run fixes a constant.

## Not modelled

* The vendored `src/vllm`, nearly all of the repository's lines, is the upstream
  engine. What this code relies on in it (the block pool, the waiting queue,
  one output per step) is in TalkerScheduler. The share of the repository's
  lines that the models cover is small for this reason, below one per cent.
* Models, runners, output and input processing: numerical code, of which only
  the state that passes between sub-requests is modelled.
* `AsyncOmni.generate` with pause and resume, the HTTP API and the diffusion
  engine are not part of the speech server's pipeline.
* Device locks: the code goes on without the lock after a timeout, by design.
* In DuplexSession: `ai_mode`, which selects a prompt and a voice, and the text
  sent beside the audio. Turns with the same id (one session, one second) are
  excepted by `Distinct`. `stop_session` is called without being awaited
  (`server.py:291`), so a disconnection cleans nothing up; the model has exactly
  that.
* A turn of the talker that outgrows `max_model_len`: the length check sees one
  sub-request at a time, and a block is taken to hold a whole turn.
* A drain with two sessions (`omni_stage.py:406`) can reorder the requests of
  the session it is not for; `StartedInOrder` is checked with one.
* A second call of the offline `generate`, whose stages the first has closed.
