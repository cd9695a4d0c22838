-------------------------- MODULE TalkerScheduler --------------------------
(***************************************************************************)
(* The engine core of stage 1: OmniARScheduler                             *)
(* (vllm_omni/core/sched/omni_ar_scheduler.py) over vLLM's scheduler and   *)
(* block pool, and the parts of the model runner and of the talker that    *)
(* carry state from one sub-request of a turn to the next.                 *)
(*                                                                         *)
(* The talker speaks a turn as a chain of sub-requests {turn}_stage_1_k,   *)
(* each of which vLLM takes for a request of its own: it gets a cache      *)
(* block, runs for one step and is freed.  What makes a chain of them is   *)
(* kept outside vLLM: the scheduler's lockers (block, number of computed   *)
(* tokens, last token, all tokens of the turn), the payload relayed to a   *)
(* sub-request that already waits, and the talker's last hidden state,     *)
(* position and history cache.                                             *)
(*                                                                         *)
(* One block holds a whole turn (block_size exceeds max_model_len).  A     *)
(* token is named by the sub-request that sampled it.                      *)
(***************************************************************************)
EXTENDS Integers, Sequences, FiniteSetsExt

CONSTANTS
  MaxTurn,     \* bound: turns
  MaxSub,      \* bound: sub-requests of a turn
  NumBlocks,   \* cache blocks of the pool
  MaxRunning,  \* max_num_running_reqs, set from max_batch_size
  PrefillLen,  \* prompt tokens of sub-request 0; the others have one
  Overlap      \* turns of several sessions are spoken at the same time

ASSUME SchedulerAssumption ==
  /\ {MaxTurn, MaxSub, NumBlocks, MaxRunning} \subseteq Nat \ {0}
  /\ PrefillLen \in Nat /\ PrefillLen > 1
  /\ Overlap \in BOOLEAN

Turns == 1..MaxTurn

Subs == 0..MaxSub - 1

Blocks == 1..NumBlocks

Positions == 0..PrefillLen + MaxSub

Tokens == {"zero", "code", "stop"}   \* token 0, any other code, 2150

None == -1

Last(seq) == seq[Len(seq)]

VARIABLES
  turn,        \* the latest turn
  sent,        \* per turn: sub-requests added
  dropped,     \* turns whose session was aborted
  open,        \* sub-requests the stage worker still waits for
  arrived,     \* sub-requests added so far, of all turns
  waiting,     \* the scheduler's waiting queue: what arrived when, with the
               \* relayed payload
  batch,       \* the requests of the step under way, as sent to the runner
  pc,          \* engine core: idle, execute, update, dead
  free,        \* the pool's free-block queue
  kv,          \* per block and position: the sub-request that wrote there
  blockLocker, \* stage_block_locker
  count,       \* stage_history_count
  tokenLocker, \* stage_token_locker
  history,     \* stage_output_history
  sampled,     \* history: the token each sub-request sampled
  lastHidden,  \* stg1_last_hidden: the sub-request it comes from
  nextPos,     \* last column of stg1_current_pos
  cache        \* latest_history_cache

client == <<turn, sent, dropped>>
lockers == <<blockLocker, count, tokenLocker, history>>
talker == <<kv, sampled, lastHidden, nextPos, cache>>
vars == <<client, open, arrived, waiting, batch, pc, free, lockers, talker>>

Init ==
  /\ turn = 1 /\ sent = [t \in Turns |-> 0] /\ dropped = {} /\ open = {}
  /\ arrived = 0 /\ waiting = {} /\ batch = <<>> /\ pc = "idle"
  /\ free = [i \in Blocks |-> i]
  /\ kv = [b \in Blocks |-> [p \in Positions |-> <<0, None>>]]
  /\ blockLocker = [t \in Turns |-> 0] /\ count = [t \in Turns |-> 0]
  /\ tokenLocker = [t \in Turns |-> None] /\ history = [t \in Turns |-> <<>>]
  /\ sampled = [t \in Turns |-> [k \in Subs |-> "none"]]
  /\ lastHidden = [t \in Turns |-> <<0, None>>] /\ nextPos = [t \in Turns |-> 0]
  /\ cache = [t \in Turns |-> {}]

PromptLen(k) == IF k = 0 THEN PrefillLen ELSE 1

(* The turn has sampled its stop token. *)
Stopped(t) == \E k \in Subs : sampled[t][k] = "stop"

-----------------------------------------------------------------------------
(* The stage worker hands over the next sub-request of a turn. *)
AddRequest(t) ==
  /\ pc = "idle"
  /\ t = turn \/ (Overlap /\ t < turn)
  /\ sent[t] < MaxSub
  /\ arrived' = arrived + 1
  /\ waiting' = waiting \cup {[at |-> arrived', t |-> t, k |-> sent[t],
                               token |-> None, audio |-> <<>>]}
  /\ open' = open \cup {<<t, sent[t]>>}
  /\ sent' = [sent EXCEPT ![t] = @ + 1]
  /\ UNCHANGED <<turn, dropped, batch, pc, free, lockers, talker>>

(* The next turn begins: of the same session, once this one has been       *)
(* spoken or aborted, or of another session.                               *)
NewTurn ==
  /\ turn < MaxTurn
  /\ sent[turn] > 0
  /\ Overlap \/ turn \in dropped \/ Stopped(turn)
  /\ turn' = turn + 1
  /\ UNCHANGED <<sent, dropped, open, arrived, waiting, batch, pc, free, lockers,
                 talker>>

(* The session is aborted: its generation tasks are being cancelled. *)
DropTurn(t) ==
  /\ sent[t] > 0 /\ t \notin dropped
  /\ dropped' = dropped \cup {t}
  /\ UNCHANGED <<turn, sent, open, arrived, waiting, batch, pc, free, lockers,
                 talker>>

(* clear_session_history *)
ClearLockers(t) ==
  /\ blockLocker' = [blockLocker EXCEPT ![t] = 0]
  /\ count' = [count EXCEPT ![t] = 0]
  /\ tokenLocker' = [tokenLocker EXCEPT ![t] = None]
  /\ history' = [history EXCEPT ![t] = <<>>]

(* A cancelled task aborts its own sub-request, whether it still waits or  *)
(* was flushed: finish_requests clears the lockers of the turn.            *)
AbortRequest(t, k) ==
  /\ pc = "idle"
  /\ t \in dropped /\ <<t, k>> \in open
  /\ open' = open \ {<<t, k>>}
  /\ waiting' = {w \in waiting : <<w.t, w.k>> # <<t, k>>}
  /\ ClearLockers(t)
  /\ UNCHANGED <<client, arrived, batch, pc, free, talker>>

-----------------------------------------------------------------------------
(* Mutant: max_num_seqs is not set from max_batch_size. *)
RoomAll == Len(free)

(* How many requests vLLM can admit: each takes one block.  None is        *)
(* running, since every sub-request ends in the step it starts.            *)
Room == Min({MaxRunning, Len(free)})

(* The first requests of the waiting queue, in the order of arrival, as    *)
(* many as there is room for.                                              *)
Admitted(first) ==
  /\ \A i, j \in DOMAIN first : i < j => first[i].at < first[j].at
  /\ \A w \in waiting \ Range(first) :
       Len(first) = Room /\ \A i \in DOMAIN first : first[i].at < w.at

(* Mutant: injects the locker's block unseen. *)
InjectUnseen(w, own) ==
  [t |-> w.t, k |-> w.k, own |-> own,
   block |-> blockLocker[w.t], computed |-> count[w.t],
   outputs |-> history[w.t], token |-> w.token, audio |-> w.audio]

(* A request as schedule() sends it to the runner: block and count from    *)
(* the lockers if the turn has any, else its own block from the start; the *)
(* token and the history from the lockers unless the token is 0, which is  *)
(* taken for none.                                                         *)
Inject(w, own) ==
  LET chained == blockLocker[w.t] # 0
      relayed == tokenLocker[w.t] # None
                   /\ sampled[w.t][tokenLocker[w.t]] # "zero"
  IN  [t |-> w.t, k |-> w.k, own |-> own,
       block |-> IF chained THEN blockLocker[w.t] ELSE own,
       computed |-> IF chained THEN count[w.t] ELSE 0,
       outputs |-> history[w.t],
       token |-> IF relayed THEN tokenLocker[w.t] ELSE w.token,
       audio |-> IF relayed THEN history[w.t] ELSE w.audio]

Schedule ==
  /\ pc = "idle"
  /\ \E n \in 1..Room : \E first \in [1..n -> waiting] :
       /\ Admitted(first)
       /\ batch' = [i \in 1..n |-> Inject(first[i], free[i])]
       /\ waiting' = waiting \ Range(first)
       /\ free' = SubSeq(free, n + 1, Len(free))
  /\ pc' = "execute"
  /\ UNCHANGED <<client, open, arrived, lockers, talker>>

-----------------------------------------------------------------------------
(* talker_preprocess looks up the prompt layout that the prefill of the    *)
(* turn left behind.                                                       *)
PrefillRan(e) == e.k = 0 \/ nextPos[e.t] > 0

(* The token the talker is fed: without a payload the prompt's 0 stays. *)
InputToken(e) == IF e.token = None THEN "zero" ELSE sampled[e.t][e.token]

(* Mutant: only the relayed history counts. *)
SamplerHistoryUncached(e) ==
  LET fed == IF e.token # None THEN {e.token}
             ELSE {j \in {e.k - 1} : sampled[e.t][j] = "zero"}
  IN  IF e.k = 0 THEN {} ELSE fed \cup Range(e.audio)

(* The tokens of the turn whose repetition the sampler penalises: what the *)
(* cache holds, or else the relayed history, and the token fed.            *)
SamplerHistory(e) ==
  LET fed == IF e.token # None THEN {e.token}
             ELSE {j \in {e.k - 1} : sampled[e.t][j] = "zero"}
  IN  IF e.k = 0 THEN cache[e.t]
      ELSE fed \cup IF cache[e.t] # {} THEN cache[e.t] ELSE Range(e.audio)

(* The requests of a turn in the batch. *)
Of(t) == {i \in DOMAIN batch : batch[i].t = t}

(* Attention writes the keys of a request into its block, at the positions *)
(* after the ones it counts as computed.                                   *)
WriteCache ==
  LET writes(b, p) ==
        {i \in DOMAIN batch :
           /\ batch[i].block = b
           /\ p - batch[i].computed \in 0..PromptLen(batch[i].k) - 1}
  IN  kv' = [b \in Blocks |-> [p \in Positions |->
              IF writes(b, p) = {} THEN kv[b][p]
              ELSE LET e == batch[Max(writes(b, p))] IN <<e.t, e.k>>]]

(* What _model_forward keeps of a turn: the last row of the whole batch as *)
(* its hidden state, and one more position.                                *)
KeepHidden ==
  /\ lastHidden' = [t \in Turns |->
       IF Of(t) = {} THEN lastHidden[t] ELSE <<Last(batch).t, Last(batch).k>>]
  /\ nextPos' = [t \in Turns |->
       IF Of(t) = {} THEN nextPos[t]
       ELSE IF nextPos[t] = 0 THEN PrefillLen ELSE nextPos[t] + 1]

(* The history cache is dropped after sampling; talker_postprocess refills *)
(* it from the payloads of the batch.                                      *)
RefillCache ==
  cache' = [t \in Turns |->
              IF Of(t) = {} THEN {} ELSE Range(batch[Max(Of(t))].audio)]

(* execute_model and sample_tokens. *)
Execute ==
  LET at(t, k) == {i \in Of(t) : batch[i].k = k}
  IN  /\ pc = "execute"
      /\ \A i \in DOMAIN batch : PrefillRan(batch[i])
      /\ \E tokens \in [DOMAIN batch -> Tokens] :
           sampled' = [t \in Turns |-> [k \in Subs |->
             IF at(t, k) = {} THEN sampled[t][k] ELSE tokens[Max(at(t, k))]]]
      /\ WriteCache
      /\ KeepHidden
      /\ RefillCache
      /\ pc' = "update"
      /\ UNCHANGED <<client, open, arrived, waiting, batch, free, lockers>>

(* The KeyError of talker_preprocess ends the engine core. *)
Crash ==
  /\ pc = "execute"
  /\ \E i \in DOMAIN batch : ~PrefillRan(batch[i])
  /\ pc' = "dead"
  /\ UNCHANGED <<client, open, arrived, waiting, batch, free, lockers, talker>>

-----------------------------------------------------------------------------
(* Mutant: stop_token_ids is not configured. *)
CheckStopNever(e) == FALSE

(* check_stop looks at the end of output_token_ids, which schedule() has   *)
(* replaced by the history of the turn if there is any.                    *)
CheckStop(e) ==
  "stop" = IF e.outputs = <<>> THEN sampled[e.t][e.k]
           ELSE sampled[e.t][Last(e.outputs)]

(* Mutant: the block of a freed request does not return to the pool. *)
FreeRequestLeak(e) ==
  /\ free' = free
  /\ open' = open \ {<<e.t, e.k>>}
  /\ batch' = Tail(batch)
  /\ pc' = IF Len(batch) = 1 THEN "idle" ELSE "update"

(* The request is answered and freed, its own block put at the end of the  *)
(* free queue.                                                             *)
FreeRequest(e) ==
  /\ free' = Append(free, e.own)
  /\ open' = open \ {<<e.t, e.k>>}
  /\ batch' = Tail(batch)
  /\ pc' = IF Len(batch) = 1 THEN "idle" ELSE "update"

(* vLLM itself found the request stopped: the lockers stay as they are. *)
UpdateStopped ==
  LET e == Head(batch)
  IN  /\ pc = "update"
      /\ CheckStop(e)
      /\ FreeRequest(e)
      /\ UNCHANGED <<client, arrived, waiting, lockers, talker>>

(* Mutant: the count of the sub-request replaces that of the turn. *)
CountOwn(e) == PromptLen(e.k)

CountTotal(e) == count[e.t] + PromptLen(e.k)

(* After a stop token the later sub-requests of the turn are finished      *)
(* without an answer; else the next one, if it waits already, is given the *)
(* token and the history.                                                  *)
Relay(e) ==
  LET stop == sampled[e.t][e.k] = "stop"
      kept(w) == ~(stop /\ w.t = e.t /\ w.k > e.k)
      relayed(w) == IF w.t = e.t /\ w.k = e.k + 1
                    THEN [w EXCEPT !.token = e.k, !.audio = history'[e.t]]
                    ELSE w
  IN  waiting' = {relayed(w) : w \in {v \in waiting : kept(v)}}

(* The forced end of a sub-request that vLLM would let run on: the lockers *)
(* are brought up to date for the next one.                                *)
UpdateForced ==
  LET e == Head(batch)
  IN  /\ pc = "update"
      /\ ~CheckStop(e)
      /\ blockLocker' = [blockLocker EXCEPT ![e.t] = e.block]
      /\ count' = [count EXCEPT ![e.t] = CountTotal(e)]
      /\ tokenLocker' = [tokenLocker EXCEPT ![e.t] = e.k]
      /\ history' = [history EXCEPT ![e.t] = Append(@, e.k)]
      /\ Relay(e)
      /\ FreeRequest(e)
      /\ UNCHANGED <<client, arrived, talker>>

Step == Schedule \/ Execute \/ Crash \/ UpdateStopped \/ UpdateForced

Next ==
  \/ \E t \in Turns : AddRequest(t) \/ DropTurn(t)
  \/ NewTurn
  \/ \E t \in Turns, k \in Subs : AbortRequest(t, k)
  \/ Step

Spec == Init /\ [][Next]_vars

(* The engine core runs as long as it has requests. *)
FairSpec == Spec /\ WF_vars(Step)

-----------------------------------------------------------------------------
(* The type invariant. *)
TypeOK ==
  /\ turn \in Turns /\ sent \in [Turns -> 0..MaxSub]
  /\ dropped \subseteq Turns /\ open \subseteq Turns \X Subs
  /\ arrived \in Nat
  /\ waiting \subseteq [at : 1..arrived, t : Turns, k : Subs,
                       token : Subs \cup {None}, audio : Seq(Subs)]
  /\ batch \in Seq([t : Turns, k : Subs, own : Blocks, block : Blocks,
                    computed : Positions, outputs : Seq(Subs),
                    token : Subs \cup {None}, audio : Seq(Subs)])
  /\ pc \in {"idle", "execute", "update", "dead"}
  /\ free \in Seq(Blocks)
  /\ kv \in [Blocks -> [Positions -> (Turns \X Subs) \cup {<<0, None>>}]]
  /\ blockLocker \in [Turns -> Blocks \cup {0}]
  /\ count \in [Turns -> Positions]
  /\ tokenLocker \in [Turns -> Subs \cup {None}]
  /\ history \in [Turns -> Seq(Subs)]
  /\ sampled \in [Turns -> [Subs -> Tokens \cup {"none"}]]
  /\ lastHidden \in [Turns -> (Turns \X Subs) \cup {<<0, None>>}]
  /\ nextPos \in [Turns -> Positions]
  /\ cache \in [Turns -> SUBSET Subs]

(* The requests about to be executed of turns that are still being spoken. *)
Spoken ==
  {e \in Range(batch) :
     pc = "execute" /\ e.t \notin dropped /\ ~Stopped(e.t)}

(* A sub-request runs on the context of its turn: the cache block that     *)
(* schedule() injects, freed long ago as far as vLLM knows, still holds    *)
(* all earlier sub-requests of the turn in order and nothing else, the     *)
(* injected count is their number, and the position the talker kept for    *)
(* itself agrees with it.                                                  *)
ContextIntact ==
  \A e \in Spoken :
    LET len == IF e.k = 0 THEN 0 ELSE PrefillLen + e.k - 1
    IN  /\ e.computed = len /\ nextPos[e.t] = len
        /\ \A p \in 0..len - 1 :
             kv[e.block][p] =
               <<e.t, IF p < PrefillLen THEN 0 ELSE p - PrefillLen + 1>>

(* Whether a sub-request reaches the scheduler before or after its         *)
(* predecessor is done, the talker is fed the token the predecessor        *)
(* sampled, also when it is token 0, and the hidden state it left.         *)
RelayIntact ==
  \A e \in Spoken :
    e.k > 0 => /\ InputToken(e) = sampled[e.t][e.k - 1]
               /\ lastHidden[e.t] = <<e.t, e.k - 1>>

(* The sampler's repetition penalty sees every token of the turn, unless   *)
(* the last two were both token 0.                                         *)
HistoryIntact ==
  \A e \in Spoken :
    \/ SamplerHistory(e) = 0..e.k - 1
    \/ e.k > 1 /\ sampled[e.t][e.k - 1] = "zero" /\ sampled[e.t][e.k - 2] = "zero"

(* Once the stop token is in the history of a turn the turn's lockers no   *)
(* longer change, whatever sub-requests of it still arrive and run; they   *)
(* can only be cleared by an abort.                                        *)
FrozenAfterStop ==
  [][\A t \in Turns :
       history[t] # <<>> /\ sampled[t][Last(history[t])] = "stop" =>
         \/ history'[t] = <<>> /\ blockLocker'[t] = 0
         \/ /\ history'[t] = history[t] /\ count'[t] = count[t]
            /\ blockLocker'[t] = blockLocker[t]]_vars

(* Every sub-request added is answered, or its turn is stopped or aborted, *)
(* or the engine core has died.                                            *)
RequestsServed ==
  \A t \in Turns, k \in Subs :
    <<t, k>> \in open ~>
      <<t, k>> \notin open \/ t \in dropped \/ Stopped(t) \/ pc = "dead"
=============================================================================
