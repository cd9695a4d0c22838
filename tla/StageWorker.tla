---------------------------- MODULE StageWorker ----------------------------
(***************************************************************************)
(* The worker process of one stage, _stage_worker_async of                 *)
(* vllm_omni/entrypoints/omni_stage.py, and the orchestrator's end of its  *)
(* input queue (OmniStage.submit, selective_drain).                        *)
(*                                                                         *)
(* A request id is {session}_{turn}_stage_k_{seq}; an ABORT names a        *)
(* session.  put on a multiprocessing queue only fills the buffer of a     *)
(* feeder thread, which writes to the pipe later.  In the worker the main  *)
(* loop and one generation task per request share an asyncio event loop:   *)
(* the tasks and their done callbacks only run while the loop sleeps.      *)
(***************************************************************************)
EXTENDS Integers, Sequences, FiniteSets, Functions, Subsequence

CONSTANTS
  Sessions,   \* session ids
  MaxTurn,    \* bound: turns of a session
  MaxReq,     \* bound: requests of a turn
  MaxTotal,   \* bound: requests of all turns
  MaxOut,     \* bound: outputs of a request
  MaxAborts,  \* bound: aborts of a session
  MaxErrors,  \* bound: generation tasks that raise
  Overlap,    \* a session may start a turn before its last one is over
  WarmedUp    \* the warm-up turn at start-up reached this stage

ASSUME StageAssumption ==
  /\ Sessions # {} /\ IsFiniteSet(Sessions)
  /\ {MaxTurn, MaxReq, MaxTotal, MaxOut} \subseteq Nat \ {0}
  /\ {MaxAborts, MaxErrors} \subseteq Nat
  /\ {Overlap, WarmedUp} \subseteq BOOLEAN

Turns == Sessions \X (1..MaxTurn)

Rids == [s : Sessions, t : 1..MaxTurn, k : 1..MaxReq]

NoRid == [s |-> "none", t |-> 0, k |-> 0]

WarmUp == <<"warmup", 0>>

NoTurn == <<"none", 0>>

TurnOf(r) == <<r.s, r.t>>

Generate(r) == [type |-> "generate", rid |-> r]

Abort(s) == [type |-> "abort", rid |-> [s |-> s, t |-> 0, k |-> 0]]

Shutdown == [type |-> "shutdown", rid |-> NoRid]

VARIABLES
  turn,       \* per session: the latest turn
  sent,       \* per turn: requests submitted
  aborts,     \* per session: aborts submitted
  late,       \* sessions whose aborted turn may submit one more request
  feeder,     \* messages the feeder thread has not written yet
  pipe,       \* messages the worker can get
  closing,    \* the orchestrator has asked for shutdown
  pc,         \* main loop: top, empty and sleep (its two awaits), exit
  active,     \* keys of active_generation_tasks
  st,         \* per request: its generation task
  produced,   \* per request: outputs generated
  callbacks,  \* done callbacks waiting for the event loop
  aborted,    \* aborted_sessions
  lastTurn,   \* last_processed_session
  taskType,   \* task_type
  loopRid,    \* the loop variable rid
  outQ,       \* generation_out_q
  batch,      \* batch_request_outputs
  answered,   \* requests with an output in out_q
  failed,     \* requests with an error in out_q
  dropped,    \* history: turns aborted by the orchestrator
  discarded,  \* history: requests one of whose outputs was discarded
  skipped,    \* history: requests dropped for an aborted session
  started     \* history: requests in the order they were started

client == <<turn, sent, aborts, late, closing, dropped>>
tasks == <<st, produced, callbacks, outQ>>
loop == <<aborted, lastTurn, taskType, loopRid, batch, discarded, skipped,
          started>>
results == <<answered, failed>>
vars == <<client, feeder, pipe, pc, active, tasks, loop, results>>

Init ==
  /\ turn = [s \in Sessions |-> 1] /\ sent = [x \in Turns |-> 0]
  /\ aborts = [s \in Sessions |-> 0] /\ late = {}
  /\ closing = FALSE /\ dropped = {}
  /\ feeder = <<>> /\ pipe = <<>>
  /\ pc = "top" /\ active = {}
  /\ st = [r \in Rids |-> "none"] /\ produced = [r \in Rids |-> 0]
  /\ callbacks = 0 /\ outQ = <<>>
  /\ aborted = {} /\ lastTurn = (IF WarmedUp THEN WarmUp ELSE NoTurn)
  /\ taskType = "generate"
  /\ loopRid = NoRid /\ batch = <<>>
  /\ discarded = {} /\ skipped = {} /\ started = <<>>
  /\ answered = {} /\ failed = {}

-----------------------------------------------------------------------------
(* The turns of a session that the orchestrator still works on. *)
Current(s, t) == t = turn[s] \/ (Overlap /\ t < turn[s])

(* The orchestrator submits the next request of a turn.  After an abort at *)
(* most one more comes, from a send task the cancellation did not reach.   *)
Submit(s, t) ==
  /\ ~closing
  /\ Current(s, t)
  /\ sent[<<s, t>>] < MaxReq
  /\ FoldFunction(+, 0, sent) < MaxTotal
  /\ \/ <<s, t>> \notin dropped /\ late' = late
     \/ t = turn[s] /\ s \in late /\ late' = late \ {s}
  /\ sent' = [sent EXCEPT ![<<s, t>>] = @ + 1]
  /\ feeder' = Append(feeder, Generate([s |-> s, t |-> t, k |-> sent'[<<s, t>>]]))
  /\ UNCHANGED <<turn, aborts, closing, dropped, pipe, pc, active, tasks,
                 loop, results>>

(* The session starts another turn. *)
NewTurn(s) ==
  /\ turn[s] < MaxTurn
  /\ sent[<<s, turn[s]>>] > 0
  /\ turn' = [turn EXCEPT ![s] = @ + 1]
  /\ late' = late \ {s}
  /\ UNCHANGED <<sent, aborts, closing, dropped, feeder, pipe, pc, active,
                 tasks, loop, results>>

(* Barge-in: AsyncOmni.abort submits an ABORT; every turn of the session   *)
(* is given up.                                                            *)
SubmitAbort(s) ==
  /\ ~closing
  /\ aborts[s] < MaxAborts
  /\ aborts' = [aborts EXCEPT ![s] = @ + 1]
  /\ dropped' = dropped \cup {<<s, t>> : t \in 1..turn[s]}
  /\ late' = late \cup {s}
  /\ feeder' = Append(feeder, Abort(s))
  /\ UNCHANGED <<turn, sent, closing, pipe, pc, active, tasks, loop, results>>

SubmitShutdown ==
  /\ ~closing
  /\ closing' = TRUE
  /\ feeder' = Append(feeder, Shutdown)
  /\ UNCHANGED <<turn, sent, aborts, late, dropped, pipe, pc, active, tasks,
                 loop, results>>

FeederStep ==
  /\ feeder # <<>>
  /\ pipe' = Append(pipe, Head(feeder))
  /\ feeder' = Tail(feeder)
  /\ UNCHANGED <<client, pc, active, tasks, loop, results>>

(* Mutant: compares the wrong way round. *)
DrainEarlier(m, r) ==
  m.type = "generate" /\ TurnOf(m.rid) = TurnOf(r) /\ m.rid.k < r.k

(* What a stop token in the answer to r makes superfluous. *)
DrainTarget(m, r) ==
  m.type = "generate" /\ TurnOf(m.rid) = TurnOf(r) /\ m.rid.k > r.k

(* selective_drain(targets), after the stop token in the answer to r:      *)
(* everything in the pipe is taken out, the later requests of r's turn are *)
(* thrown away and the rest is put back, behind what the feeder holds.     *)
SelectiveDrain(r) ==
  LET kept == {i \in 1..Len(pipe) : ~DrainTarget(pipe[i], r)}
  IN  /\ r \in answered
      /\ Current(r.s, r.t) /\ TurnOf(r) \notin dropped
      /\ sent[TurnOf(r)] > r.k   \* else target_ids is empty
      /\ pipe # <<>>
      /\ feeder' = feeder \o Keep(pipe, kept)
      /\ pipe' = <<>>
      /\ UNCHANGED <<client, pc, active, tasks, loop, results>>

-----------------------------------------------------------------------------
(* The outputs so far become the batch; the loop then sleeps. *)
Collect(rid) ==
  /\ batch' = outQ
  /\ outQ' = <<>>
  /\ loopRid' = IF outQ = <<>> THEN rid ELSE outQ[Len(outQ)]
  /\ pc' = "sleep"

(* Mutant: the abort list survives the start of another turn. *)
AbortListKept(r) == aborted

(* The abort list is emptied by the first request of another turn, except  *)
(* by the very first request of all.                                       *)
AbortList(r) ==
  IF lastTurn \notin {NoTurn, TurnOf(r)} THEN {} ELSE aborted

TakeGenerate ==
  LET r == Head(pipe).rid
  IN  /\ pc = "top" /\ pipe # <<>> /\ Head(pipe).type = "generate"
      /\ pipe' = Tail(pipe)
      /\ taskType' = "generate"
      /\ lastTurn' = TurnOf(r)
      /\ aborted' = AbortList(r)
      /\ \/ /\ r.s \in aborted'
            /\ loopRid' = r
            /\ skipped' = skipped \cup {r}
            /\ UNCHANGED <<pc, active, st, outQ, batch, started>>
         \/ /\ r.s \notin aborted'
            /\ active' = active \cup {r}
            /\ st' = [st EXCEPT ![r] = "run"]
            /\ started' = Append(started, r)
            /\ Collect(r)
            /\ UNCHANGED skipped
      /\ UNCHANGED <<client, feeder, produced, callbacks, discarded, results>>

(* The tasks of the session that are still in active_generation_tasks are  *)
(* cancelled.                                                              *)
TakeAbort ==
  LET s == Head(pipe).rid.s
  IN  /\ pc = "top" /\ pipe # <<>> /\ Head(pipe).type = "abort"
      /\ pipe' = Tail(pipe)
      /\ taskType' = "abort"
      /\ aborted' = aborted \cup {s}
      /\ st' = [r \in Rids |-> IF r \in active /\ r.s = s THEN "cancelled"
                               ELSE st[r]]
      /\ active' = {r \in active : r.s # s}
      /\ Collect(NoRid)
      /\ UNCHANGED <<client, feeder, produced, callbacks, lastTurn, discarded,
                     skipped, started, results>>

TakeShutdown ==
  /\ pc = "top" /\ pipe # <<>> /\ Head(pipe).type = "shutdown"
  /\ pipe' = Tail(pipe)
  /\ pc' = "exit"
  /\ UNCHANGED <<client, feeder, active, tasks, loop, results>>

TakeNothing ==
  /\ pc = "top" /\ pipe = <<>>
  /\ pc' = "empty"
  /\ UNCHANGED <<client, feeder, pipe, active, tasks, loop, results>>

CollectAfterEmpty ==
  /\ pc = "empty"
  /\ Collect(loopRid)
  /\ UNCHANGED <<client, feeder, pipe, active, st, produced, callbacks,
                 aborted, lastTurn, taskType, discarded, skipped, started,
                 results>>

(* Mutant: the outputs of a request that is done are all discarded. *)
DiscardFinished(r) == r \notin active

Discard(r) == r \notin active /\ taskType # "generate"

(* The batch goes to out_q, except what is taken for aborted. *)
Dispatch ==
  LET rs == {batch[i] : i \in 1..Len(batch)}
  IN  /\ pc = "sleep"
      /\ answered' = answered \cup {r \in rs : ~Discard(r)}
      /\ discarded' = discarded \cup {r \in rs : Discard(r)}
      /\ batch' = <<>>
      /\ pc' = "top"
      /\ UNCHANGED <<client, feeder, pipe, active, tasks, aborted, lastTurn,
                     taskType, loopRid, skipped, started, failed>>

-----------------------------------------------------------------------------
(* A generation task puts an output on generation_out_q. *)
GenOutput(r) ==
  /\ pc \in {"empty", "sleep"}
  /\ st[r] = "run" /\ produced[r] < MaxOut
  /\ produced' = [produced EXCEPT ![r] = @ + 1]
  /\ outQ' = Append(outQ, r)
  /\ UNCHANGED <<client, feeder, pipe, pc, active, st, callbacks, loop, results>>

(* The output of a talker request holds the stop token: the scheduler of   *)
(* its engine finishes the later requests of the turn that it has been     *)
(* given, and the tasks that wait for them get no output any more.         *)
GenStop(r) ==
  /\ pc \in {"empty", "sleep"}
  /\ st[r] = "run" /\ produced[r] < MaxOut
  /\ produced' = [produced EXCEPT ![r] = @ + 1]
  /\ outQ' = Append(outQ, r)
  /\ \E held \in r.k + 1..MaxReq :
       st' = [q \in Rids |->
                IF /\ TurnOf(q) = TurnOf(r) /\ q.k \in r.k + 1..held
                   /\ st[q] = "run" /\ produced[q] = 0
                THEN "flushed" ELSE st[q]]
  /\ UNCHANGED <<client, feeder, pipe, pc, active, callbacks, loop, results>>

(* Mutant: the finally clause forgets the entry. *)
EntryKept(r) == active

EntryPopped(r) == active \ {r}

(* It ends: its own entry goes, and its done callback is scheduled. *)
GenEnd(r, ends) ==
  /\ pc \in {"empty", "sleep"}
  /\ st[r] = ends
  /\ st' = [st EXCEPT ![r] = "done"]
  /\ active' = EntryPopped(r)
  /\ callbacks' = callbacks + 1
  /\ UNCHANGED <<client, feeder, pipe, pc, produced, outQ, loop, answered>>

GenFinish(r) ==
  /\ GenEnd(r, "run")
  /\ produced[r] > 0
  /\ UNCHANGED failed

(* There is no payload in the connector, or the engine raises, at once or  *)
(* after some outputs.                                                     *)
GenError(r) ==
  /\ GenEnd(r, "run")
  /\ Cardinality(failed) < MaxErrors
  /\ failed' = failed \cup {r}

GenCancelled(r) ==
  /\ GenEnd(r, "cancelled")
  /\ UNCHANGED failed

(* The callback pops the entry of the request that the loop variable names *)
(* when it runs.                                                           *)
DoneCallback ==
  /\ pc \in {"empty", "sleep"}
  /\ callbacks > 0
  /\ callbacks' = callbacks - 1
  /\ active' = active \ {loopRid}
  /\ UNCHANGED <<client, feeder, pipe, pc, st, produced, outQ, loop, results>>

MainLoop ==
  \/ TakeGenerate
  \/ TakeAbort
  \/ TakeShutdown
  \/ TakeNothing
  \/ CollectAfterEmpty
  \/ Dispatch

GenTask(r) ==
  \/ GenOutput(r)
  \/ GenStop(r)
  \/ GenFinish(r)
  \/ GenError(r)
  \/ GenCancelled(r)

GenTasks == \E r \in Rids : GenTask(r)

Next ==
  \/ \E s \in Sessions, t \in 1..MaxTurn : Submit(s, t)
  \/ \E s \in Sessions : NewTurn(s) \/ SubmitAbort(s)
  \/ SubmitShutdown
  \/ FeederStep
  \/ \E r \in Rids : SelectiveDrain(r)
  \/ MainLoop
  \/ GenTasks
  \/ DoneCallback

Spec == Init /\ [][Next]_vars

(* The feeder thread and the worker process keep running; the event loop   *)
(* resumes tasks in the order they become ready, so tasks that are ready   *)
(* in sleep after sleep of the main loop are not passed over for ever, and *)
(* as each makes finitely many steps none of them is; the engine answers   *)
(* every request it has not flushed.                                       *)
FairSpec ==
  /\ Spec
  /\ WF_vars(FeederStep)
  /\ WF_vars(MainLoop)
  /\ SF_vars(GenTasks)

-----------------------------------------------------------------------------
Messages ==
  [type : {"generate"}, rid : Rids] \cup {Abort(s) : s \in Sessions}
    \cup {Shutdown}

(* The type invariant. *)
TypeOK ==
  /\ turn \in [Sessions -> 1..MaxTurn] /\ sent \in [Turns -> 0..MaxReq]
  /\ aborts \in [Sessions -> 0..MaxAborts] /\ late \subseteq Sessions
  /\ closing \in BOOLEAN
  /\ feeder \in Seq(Messages) /\ pipe \in Seq(Messages)
  /\ pc \in {"top", "empty", "sleep", "exit"}
  /\ active \subseteq {r \in Rids : st[r] \in {"run", "flushed"}}
  /\ st \in [Rids -> {"none", "run", "flushed", "cancelled", "done"}]
  /\ produced \in [Rids -> 0..MaxOut] /\ callbacks \in 0..Cardinality(Rids)
  /\ aborted \subseteq Sessions /\ lastTurn \in Turns \cup {WarmUp, NoTurn}
  /\ taskType \in {"generate", "abort"} /\ loopRid \in Rids \cup {NoRid}
  /\ outQ \in Seq(Rids) /\ batch \in Seq(Rids) /\ started \in Seq(Rids)
  /\ UNION {answered, failed, discarded, skipped} \subseteq Rids
  /\ dropped \subseteq Turns

(* An abort concerns nobody else: only outputs of turns that were aborted  *)
(* are discarded.                                                          *)
OnlyAbortedDiscarded == \A r \in discarded : TurnOf(r) \in dropped

(* A turn that was not aborted loses no request to the abort list, however *)
(* short before it its session was aborted, once the stage has seen any    *)
(* turn at all.                                                            *)
NewTurnNotSkipped ==
  WarmedUp => \A r \in skipped : TurnOf(r) \in dropped

(* The stage starts the requests of a turn in the order they were sent,    *)
(* although the orchestrator takes messages out of the queue and puts them *)
(* back.                                                                   *)
StartedInOrder ==
  \A i, j \in 1..Len(started) :
    i < j /\ TurnOf(started[i]) = TurnOf(started[j]) =>
      started[i].k < started[j].k

(* Every request that the stage starts is answered, unless it is flushed   *)
(* by an earlier stop token, its turn aborted or the stage shut down: as   *)
(* requests are finitely many, the stage comes back for ever to states in  *)
(* which none is left.                                                     *)
RequestsAnswered ==
  []<>(\A r \in Rids :
         st[r] \in {"run", "done"} =>
           r \in answered \cup failed \/ TurnOf(r) \in dropped \/ closing)
=============================================================================
