---------------------------- MODULE OmniPipeline ----------------------------
(***************************************************************************)
(* Offline generation: the collecting loop of Omni._run_generation         *)
(* (vllm_omni/entrypoints/omni.py) and the synchronous stage workers with  *)
(* their batches (_stage_worker in entrypoints/omni_stage.py), one process *)
(* each, joined by unbounded queues; payloads above the threshold travel   *)
(* in shared-memory segments that the receiver unlinks                     *)
(* (connectors/shm_connector.py, entrypoints/stage_utils.py).              *)
(*                                                                         *)
(* Data is reduced to the request whose prompt it was computed from.       *)
(***************************************************************************)
EXTENDS Integers, Sequences, FiniteSets

CONSTANTS
  N,          \* prompts of the call
  NumStages,
  MaxBatch,   \* max_batch_size of every stage
  TextOnly,   \* requests whose modalities end with the text of stage 0
  Large,      \* requests whose payloads exceed shm_threshold_bytes
  Late,       \* stages that were not ready when the orchestrator gave up
              \* waiting for them
  MaxFaults   \* bound: failing batches, input processors, sends and
              \* payloads that do not arrive

ASSUME PipelineAssumption ==
  /\ {N, NumStages, MaxBatch} \subseteq Nat \ {0} /\ MaxFaults \in Nat
  /\ TextOnly \subseteq 1..N /\ Large \subseteq 1..N
  /\ Late \subseteq 0..(NumStages - 1)

Requests == 1..N

Stages == 0..(NumStages - 1)

LastStage == NumStages - 1

VARIABLES
  pc,         \* the orchestrator: poll, yield, closing, joining, closed
  pos,        \* the stage its for loop is at
  cur,        \* the request whose output was yielded last
  completed,  \* completed_requests
  outputs,    \* per stage: engine_outputs of the OmniStage object
  inQ, outQ,  \* per stage: its queues
  worker,     \* per stage: its process, [pc, batch, sent]
  segs,       \* shared-memory segments in existence
  yielded,    \* what generate has returned so far
  faults,     \* history: faults so far
  stuck,      \* history: requests given up, which nobody will complete
  cut         \* history: the call raised, or its caller stopped reading

orchestrator == <<pc, pos, cur, completed, outputs, yielded, cut>>
vars == <<orchestrator, inQ, outQ, worker, segs, faults, stuck>>

(* get_final_stage_id_for_e2e and final_output of the stage configs. *)
FinalStage(r) == IF r \in TextOnly THEN 0 ELSE LastStage

FinalOutput(s) == s \in {0, LastStage}

(* Messages.  The segment of a payload is named by the queue it is for. *)
Shutdown == [req |-> 0, data |-> 0, seg |-> <<>>]

Plain(r, d) == [req |-> r, data |-> d, seg |-> <<>>]

(* put of the connector and maybe_dump_to_shm. *)
Packed(kind, s, r, d) ==
  [req |-> r, data |-> d, seg |-> IF r \in Large THEN <<kind, s, r>> ELSE <<>>]

SegsOf(m) == IF m.seg = <<>> THEN {} ELSE {m.seg}

Reply(kind, m) == [kind |-> kind, msg |-> m]

Init ==
  /\ pc = "poll" /\ pos = 0 /\ cur = 0 /\ completed = 0
  /\ outputs = [s \in Stages |-> 0]
  /\ inQ = [s \in Stages |-> IF s = 0 THEN [r \in Requests |-> Plain(r, r)]
                             ELSE <<>>]
  /\ outQ = [s \in Stages |-> <<>>]
  /\ worker = [s \in Stages |-> [pc |-> IF s \in Late THEN "init" ELSE "idle",
                                 batch |-> <<>>, sent |-> 0]]
  /\ segs = {} /\ yielded = <<>>
  /\ faults = 0 /\ stuck = {} /\ cut = FALSE

-----------------------------------------------------------------------------
(* The stage workers. *)

(* A slow stage reports stage_ready when the orchestrator collects         *)
(* already.                                                                *)
StageReady(s) ==
  /\ worker[s].pc = "init"
  /\ worker' = [worker EXCEPT ![s].pc = "idle"]
  /\ outQ' = [outQ EXCEPT ![s] = Append(@, Reply("ready", Shutdown))]
  /\ UNCHANGED <<orchestrator, inQ, segs, faults, stuck>>

(* The first task of a batch, or the end of the worker. *)
GetTask(s) ==
  /\ worker[s].pc = "idle" /\ inQ[s] # <<>>
  /\ inQ' = [inQ EXCEPT ![s] = Tail(@)]
  /\ worker' = [worker EXCEPT ![s] =
       IF Head(inQ[s]) = Shutdown
       THEN [pc |-> "gone", batch |-> <<>>, sent |-> 0]
       ELSE [pc |-> "batching", batch |-> <<Head(inQ[s])>>, sent |-> 0]]
  /\ UNCHANGED <<orchestrator, outQ, segs, faults, stuck>>

(* Mutant: only one payload of a batch is unlinked. *)
UnlinkedFirst(msgs) ==
  segs \ UNION {SegsOf(msgs[i]) : i \in DOMAIN msgs \cap {1}}

(* shm_read_bytes of every message: read and unlink. *)
Unlinked(msgs) == segs \ UNION {SegsOf(msgs[i]) : i \in DOMAIN msgs}

(* The payloads of the batch are all there: it goes to the engine. *)
Received(s) ==
  /\ worker' = [worker EXCEPT ![s].pc = "running"]
  /\ segs' = Unlinked(worker[s].batch)
  /\ UNCHANGED <<faults, stuck>>

(* get of the connector yields None for a task of the batch, when those    *)
(* before it, and possibly its own segment, are unlinked: the RuntimeError *)
(* is not in the worker's try, so the process ends and nobody is told.     *)
(* Stage 0 has its prompts in the tasks themselves.                        *)
MissingPayload(s) ==
  LET b == worker[s].batch
  IN  /\ s > 0 /\ faults < MaxFaults
      /\ faults' = faults + 1
      /\ \E j \in 0..Len(b) : segs' = Unlinked(SubSeq(b, 1, j))
      /\ worker' = [worker EXCEPT ![s].pc = "gone"]
      /\ stuck' = stuck \cup {b[i].req : i \in DOMAIN b}

(* The loop over the tasks of a batch that is complete. *)
Receive(s) == Received(s) \/ MissingPayload(s)

(* Mutant: the batch is a stack. *)
JoinedFirst(batch, m) == <<m>> \o batch

Joined(batch, m) == Append(batch, m)

(* Mutant: the bound is checked before the task is counted. *)
RoomLate(batch) == Len(batch) <= MaxBatch

Room(batch) == Len(batch) < MaxBatch

(* One more task joins the batch; a shutdown is put back and closes it. *)
ExtraTask(s) ==
  /\ worker[s].pc = "batching" /\ Room(worker[s].batch)
  /\ inQ[s] # <<>>
  /\ IF Head(inQ[s]) = Shutdown
     THEN /\ inQ' = [inQ EXCEPT ![s] = Append(Tail(@), Shutdown)]
          /\ Receive(s)
     ELSE /\ inQ' = [inQ EXCEPT ![s] = Tail(@)]
          /\ worker' = [worker EXCEPT ![s].batch = Joined(@, Head(inQ[s]))]
          /\ UNCHANGED <<segs, faults, stuck>>
  /\ UNCHANGED <<orchestrator, outQ>>

(* The batch is full or batch_timeout is over.  What lies in the queue may *)
(* still be invisible to in_q.empty().                                     *)
RunBatch(s) ==
  /\ worker[s].pc = "batching"
  /\ Receive(s)
  /\ UNCHANGED <<orchestrator, inQ, outQ>>

(* The engine numbers its requests anew, so no output is found by its      *)
(* request_id: the fallback deals the outputs, which come in the order of  *)
(* the inputs, out to the batch's requests in turn.                        *)
OutputFor(batch, i) == batch[((i - 1) % Len(batch)) + 1].data

(* The result of one request of the batch goes to the orchestrator. *)
Emit(s) ==
  LET w == worker[s]
      i == w.sent + 1
      m == Packed("out", s, w.batch[i].req, OutputFor(w.batch, i))
  IN  /\ w.pc = "running"
      /\ outQ' = [outQ EXCEPT ![s] = Append(@, Reply("ok", m))]
      /\ segs' = segs \cup SegsOf(m)
      /\ worker' = [worker EXCEPT ![s] =
           IF i = Len(w.batch) THEN [pc |-> "idle", batch |-> <<>>, sent |-> 0]
           ELSE [w EXCEPT !.sent = i]]
      /\ UNCHANGED <<orchestrator, inQ, faults, stuck>>

(* The engine raises, or what is done between two results: every request   *)
(* of the batch gets an error result, also one whose result is out.        *)
FailBatch(s) ==
  LET w == worker[s]
  IN  /\ w.pc = "running" /\ faults < MaxFaults
      /\ faults' = faults + 1
      /\ stuck' = stuck \cup {w.batch[i].req : i \in w.sent + 1..Len(w.batch)}
      /\ outQ' = [outQ EXCEPT ![s] =
           @ \o [i \in DOMAIN w.batch |-> Reply("error", Plain(w.batch[i].req, 0))]]
      /\ worker' = [worker EXCEPT ![s] =
                      [pc |-> "idle", batch |-> <<>>, sent |-> 0]]
      /\ UNCHANGED <<orchestrator, inQ, segs>>

-----------------------------------------------------------------------------
(* The orchestrator. *)

(* The for loop goes to the next stage; only after the last one does the   *)
(* while loop look at completed_requests.                                  *)
NextStage(done) ==
  /\ pos' = (pos + 1) % NumStages
  /\ pc' = IF pos = LastStage /\ done = N THEN "closing" ELSE "poll"

(* Mutant: every stage takes its inputs from stage 0. *)
InputSourceFirst(s) == 0

(* engine_input_source of all stage configs. *)
InputSource(s) == s - 1

(* Mutant: the stage itself is compared, not the next one. *)
FinishedLate(r, s) == s > FinalStage(r)

(* Mutant: the last stage is left out. *)
FinishedEarly(r, s) == s + 1 >= FinalStage(r)

Finished(r, s) == s + 1 > FinalStage(r)

(* The end of an iteration for a result of request r: it is complete, or   *)
(* the next stage gets its inputs.  An exception of the input processor is *)
(* logged and the request forgotten; a failing send ends the call.         *)
ForwardOrFinish(r, outs, held) ==
  LET next == pos + 1
      m == Packed("in", next, r, outs[InputSource(next)])
  IN  \/ /\ Finished(r, pos)
         /\ completed' = completed + 1
         /\ NextStage(completed')
         /\ segs' = held
         /\ UNCHANGED <<inQ, faults, stuck, cut>>
      \/ /\ ~Finished(r, pos)
         /\ inQ' = [inQ EXCEPT ![next] = Append(@, m)]
         /\ segs' = held \cup SegsOf(m)
         /\ NextStage(completed)
         /\ UNCHANGED <<completed, faults, stuck, cut>>
      \/ /\ ~Finished(r, pos) /\ faults < MaxFaults
         /\ faults' = faults + 1
         /\ stuck' = stuck \cup {r}
         /\ segs' = held
         /\ NextStage(completed)
         /\ UNCHANGED <<completed, inQ, cut>>
      \/ /\ ~Finished(r, pos) /\ faults < MaxFaults
         /\ faults' = faults + 1
         /\ pc' = "closing" /\ cut' = TRUE
         /\ segs' = held
         /\ UNCHANGED <<completed, inQ, stuck, pos>>

(* try_collect finds nothing. *)
PollNothing ==
  /\ pc = "poll" /\ outQ[pos] = <<>>
  /\ NextStage(completed)
  /\ UNCHANGED <<cur, completed, outputs, yielded, cut, inQ, outQ, worker, segs,
                 faults, stuck>>

(* Takes the next reply of the stage the loop is at. *)
Collect(kinds) ==
  /\ pc = "poll" /\ outQ[pos] # <<>> /\ Head(outQ[pos]).kind \in kinds
  /\ outQ' = [outQ EXCEPT ![pos] = Tail(@)]

(* An error result is logged, a late stage_ready passed over. *)
PassOver ==
  /\ Collect({"error", "ready"})
  /\ NextStage(completed)
  /\ UNCHANGED <<cur, completed, outputs, yielded, cut, inQ, worker, segs, faults,
                 stuck>>

(* The result of a stage without output of its own is forwarded. *)
CollectInner ==
  LET m == Head(outQ[pos]).msg
  IN  /\ Collect({"ok"}) /\ ~FinalOutput(pos)
      /\ outputs' = [outputs EXCEPT ![pos] = m.data]
      /\ ForwardOrFinish(m.req, outputs', Unlinked(<<m>>))
      /\ UNCHANGED <<cur, yielded, worker>>

(* A final output is yielded before anything is forwarded. *)
CollectFinal ==
  LET m == Head(outQ[pos]).msg
  IN  /\ Collect({"ok"}) /\ FinalOutput(pos)
      /\ outputs' = [outputs EXCEPT ![pos] = m.data]
      /\ segs' = Unlinked(<<m>>)
      /\ yielded' = Append(yielded, [req |-> m.req, stage |-> pos, data |-> m.data])
      /\ cur' = m.req
      /\ pc' = "yield"
      /\ UNCHANGED <<pos, completed, cut, inQ, worker, faults, stuck>>

(* The caller asks for the next output. *)
Resume ==
  /\ pc = "yield"
  /\ ForwardOrFinish(cur, outputs, segs)
  /\ UNCHANGED <<cur, outputs, yielded, outQ, worker>>

(* The caller closes the generator: its finally closes the stages. *)
Abandon ==
  /\ pc = "yield"
  /\ pc' = "closing" /\ cut' = TRUE
  /\ UNCHANGED <<pos, cur, completed, outputs, yielded, inQ, outQ, worker, segs,
                 faults, stuck>>

(* close: two shutdown tasks for every stage, from close itself and from   *)
(* stop_stage_worker.                                                      *)
SendShutdown ==
  /\ pc = "closing"
  /\ pc' = "joining"
  /\ inQ' = [s \in Stages |-> inQ[s] \o <<Shutdown, Shutdown>>]
  /\ UNCHANGED <<pos, cur, completed, outputs, yielded, cut, outQ, worker, segs,
                 faults, stuck>>

(* stop_stage_worker, stage after stage: a worker that does not end within *)
(* the join's timeout is terminated where it is.                           *)
Terminate(s) ==
  /\ pc = "joining"
  /\ worker[s].pc # "gone" /\ \A q \in 0..(s - 1) : worker[q].pc = "gone"
  /\ worker' = [worker EXCEPT ![s].pc = "gone"]
  /\ UNCHANGED <<orchestrator, inQ, outQ, segs, faults, stuck>>

Return ==
  /\ pc = "joining" /\ \A s \in Stages : worker[s].pc = "gone"
  /\ pc' = "closed"
  /\ UNCHANGED <<pos, cur, completed, outputs, yielded, cut, inQ, outQ, worker,
                 segs, faults, stuck>>

Worker(s) ==
  StageReady(s) \/ GetTask(s) \/ ExtraTask(s) \/ RunBatch(s) \/ Emit(s) \/ FailBatch(s)

Orchestrator ==
  \/ PollNothing
  \/ PassOver
  \/ CollectInner
  \/ CollectFinal
  \/ Resume
  \/ Abandon
  \/ SendShutdown
  \/ \E s \in Stages : Terminate(s)
  \/ Return

Next == Orchestrator \/ \E s \in Stages : Worker(s)

Spec == Init /\ [][Next]_vars

(* The loop polls for ever, and every worker process goes on running. *)
FairSpec ==
  Spec /\ WF_vars(Orchestrator) /\ \A s \in Stages : WF_vars(Worker(s))

-----------------------------------------------------------------------------
Segments == {"in", "out"} \X Stages \X Requests

Messages == [req : 0..N, data : 0..N, seg : Segments \cup {<<>>}]

(* The type invariant; a batch is never larger than max_batch_size. *)
TypeOK ==
  /\ pc \in {"poll", "yield", "closing", "joining", "closed"}
  /\ pos \in Stages /\ cur \in 0..N /\ completed \in 0..N
  /\ outputs \in [Stages -> 0..N]
  /\ inQ \in [Stages -> Seq(Messages)]
  /\ outQ \in [Stages -> Seq([kind : {"ok", "error", "ready"}, msg : Messages])]
  /\ worker \in [Stages -> [pc : {"init", "idle", "batching", "running", "gone"},
                            batch : Seq(Messages), sent : 0..MaxBatch]]
  /\ \A s \in Stages : Len(worker[s].batch) <= MaxBatch
  /\ segs \subseteq Segments
  /\ yielded \in Seq([req : Requests, stage : Stages, data : Requests])
  /\ faults \in 0..MaxFaults /\ stuck \subseteq Requests /\ cut \in BOOLEAN

(* Every output is computed from the prompt of the request it is returned  *)
(* for: engine_outputs is one slot per stage that all requests share, and  *)
(* a batch's outputs are told apart only by their order.                   *)
OwnOutputs == \A i \in DOMAIN yielded : yielded[i].data = yielded[i].req

(* The outputs of a stage come in the order of the prompts, however the    *)
(* requests fall into batches and whichever of them fail.                  *)
PromptOrder ==
  \A i, j \in DOMAIN yielded :
    i < j /\ yielded[i].stage = yielded[j].stage => yielded[i].req < yielded[j].req

(* A call that ends by itself has returned every output of every request,  *)
(* each once: one for a prompt that wants text only, and two, the text of  *)
(* stage 0 and the audio of the last stage, for any other.  The docstring  *)
(* of generate ("one for each input prompt", omni.py:409) says less than   *)
(* that: the list is longer than the prompts unless all are text only.     *)
AllReturnedOnce ==
  pc \in {"joining", "closed"} /\ ~cut =>
    LET due == {y \in Requests \X Stages :
                  FinalOutput(y[2]) /\ y[2] <= FinalStage(y[1])}
    IN  /\ {<<yielded[i].req, yielded[i].stage>> : i \in DOMAIN yielded} = due
        /\ Len(yielded) = Cardinality(due)

(* A call that ends by itself leaves no shared-memory segment behind,      *)
(* although SharedMemoryConnector.cleanup does nothing and the workers may *)
(* be terminated.                                                          *)
NoSegmentLeft == pc = "closed" /\ ~cut => segs = {}

(* generate ends, or it polls for ever because a request was given up:     *)
(* results with an error and exceptions of an input processor are logged   *)
(* only, a worker that dies of a missing payload is not missed, and the    *)
(* loop waits for completed_requests.  There is no other way not to end.   *)
GenerateEnds == <>(pc = "closed") \/ <>[](pc = "poll" /\ stuck # {})
=============================================================================
