-------------------------- MODULE ThinkerToTalker --------------------------
(***************************************************************************)
(* worker_0to1 of one duplex turn: how the thinker's (stage 0) growing     *)
(* text becomes the sub-requests that feed the talker (stage 1),           *)
(* vllm_omni/entrypoints/lgws/duplex_engine.py.                            *)
(*                                                                         *)
(* A result of stage 0 is cumulative: after len generated tokens it holds  *)
(* the embeddings of the prompt and of rows 0 .. len-2 of the answer (the  *)
(* last token has not been run through the model yet).  The first result   *)
(* with two tokens is sent as the prefill, every later one sends one row,  *)
(* and the finished one sends all rows that are left, an end-of-speech     *)
(* marker and BURST paddings.                                              *)
(*                                                                         *)
(* The worker, the send tasks it spawns and the padding task are asyncio   *)
(* tasks: `ready' is the event loop's FIFO queue of tasks to resume, and a *)
(* task runs from one await to the next in one step.                       *)
(***************************************************************************)
EXTENDS Integers, Sequences

CONSTANTS
  MaxGen,   \* max_tokens of the thinker
  BURST     \* paddings sent after the end of speech

ASSUME GenAssumption == MaxGen \in Nat \ {0} /\ BURST \in Nat \ {0}

VARIABLES
  gen,        \* tokens the thinker has generated
  ended,      \* the thinker has finished
  q0,         \* results in stage_queues[0], the lengths and finished flags
  shown,      \* tokens in the last result put there
  ready,      \* the event loop's queue of resumable tasks
  wpc,        \* worker_0to1: idle (in get), loop (in sleep), done, dead
  row,        \* the catch-up loop's next row
  len,        \* tokens of the finished result the loop works on
  lastIdx,    \* stg0_sent_idx
  prefilled,  \* is_stg1_prefilled
  havePad,    \* pad_thinker_sequence_embeds is set
  chunkSeq,   \* chunk_seq
  padLeft,    \* paddings the padding task has left
  feed,       \* log of the sub-requests sent to stage 1
  routes,     \* those of them registered in request_states
  told,       \* tokens of the text handed to the client
  phase       \* running, closing (tasks cancelled), closed (cleaned up)

thinker == <<gen, ended>>
vars == <<gen, ended, q0, shown, ready, wpc, row, len, lastIdx, prefilled,
          havePad, chunkSeq, padLeft, feed, routes, told, phase>>

Task(t, id, r, n) == [task |-> t, id |-> id, row |-> r, have |-> n]

Worker == Task("worker", 0, 0, 0)

Pad == Task("pad", 0, 0, 0)

(* A sub-request: its id suffix, what it carries, and how many rows the    *)
(* embeddings had it was cut from.                                         *)
Sub(id, kind, r, n) == [id |-> id, kind |-> kind, row |-> r, have |-> n - 1]

Init ==
  /\ gen = 0 /\ ended = FALSE
  /\ q0 = <<>> /\ shown = 0
  /\ ready = <<>> /\ wpc = "idle" /\ row = 0 /\ len = 0
  /\ lastIdx = 0 /\ prefilled = FALSE /\ havePad = FALSE
  /\ chunkSeq = 0 /\ padLeft = 0
  /\ feed = <<>> /\ routes = {} /\ told = 0 /\ phase = "running"

-----------------------------------------------------------------------------
(* Stage 0 generates a token; it ends with its stop token or max_tokens. *)
ThinkerStep ==
  /\ ~ended
  /\ gen' = gen + 1
  /\ ended' \in (IF gen' = MaxGen THEN {TRUE} ELSE BOOLEAN)
  /\ UNCHANGED <<q0, shown, ready, wpc, row, len, lastIdx, prefilled, havePad,
                 chunkSeq, padLeft, feed, routes, told, phase>>

(* queue.put and task.cancel resume a worker that waits in get. *)
Wake ==
  ready' = IF wpc = "idle" /\ \A i \in 1..Len(ready) : ready[i] # Worker
           THEN Append(ready, Worker) ELSE ready

(* The harvester and router_task hand over what stage 0 has; tokens not    *)
(* collected in time come together in one result.                          *)
Deliver ==
  /\ phase = "running"
  /\ shown < gen
  /\ q0' = Append(q0, [len |-> gen, fin |-> ended])
  /\ shown' = gen
  /\ Wake
  /\ UNCHANGED <<thinker, wpc, row, len, lastIdx, prefilled, havePad,
                 chunkSeq, padLeft, feed, routes, told, phase>>

-----------------------------------------------------------------------------
(* The sub-requests are registered and submitted in this order. *)
Send(subs) ==
  /\ feed' = feed \o subs
  /\ routes' = routes \cup {subs[i].id : i \in DOMAIN subs}

(* Mutant: the range of the catch-up loop ends one row early. *)
RowLeftEarly(r, n) == r < n - 2

RowLeft(r, n) == r < n - 1

(* Mutant: the loop goes on without giving the spawned task its turn. *)
SpawnNoYield(rest, seq, r, n) ==
  ready' = <<Worker>> \o rest \o <<Task("send", seq, r, n)>>

(* create_task(process_and_send(...)) and sleep(0). *)
Spawn(rest, seq, r, n) ==
  ready' = rest \o <<Task("send", seq, r, n), Worker>>

(* The body of the finished branch from one row on, up to the next await:  *)
(* either one more row is spawned with an id made from chunk_seq as it is  *)
(* now, or the end-of-speech marker goes out, made by overwriting the      *)
(* padding embeddings, and the padding task starts.  Without padding       *)
(* embeddings the worker dies of a TypeError.                              *)
CatchUp(subs, seq, r, n, pad, rest) ==
  \/ /\ RowLeft(r, n)
     /\ Send(subs)
     /\ Spawn(rest, seq, r, n)
     /\ wpc' = "loop" /\ row' = r + 1 /\ len' = n
     /\ chunkSeq' = seq
     /\ UNCHANGED <<padLeft, told>>
  \/ /\ ~RowLeft(r, n) /\ pad
     /\ Send(Append(subs, Sub(seq, "eos", 0, n)))
     /\ ready' = Append(rest, Pad)
     /\ wpc' = "idle" /\ padLeft' = BURST
     /\ chunkSeq' = seq + 1
     /\ told' = n
     /\ UNCHANGED <<row, len>>
  \/ /\ ~RowLeft(r, n) /\ ~pad
     /\ Send(subs)
     /\ ready' = rest
     /\ wpc' = "dead"
     /\ chunkSeq' = seq
     /\ UNCHANGED <<row, len, padLeft, told>>

(* Mutant: the first token is enough for the prefill. *)
ShouldTossEarly(n) == n - lastIdx >= 1

ShouldToss(n) == n - lastIdx >= IF prefilled THEN 1 ELSE 2

(* The worker takes the next result.  get does not yield while the queue   *)
(* has more, so the worker stays at the head of the event loop.            *)
TakeResult ==
  /\ ready # <<>> /\ Head(ready) = Worker
  /\ phase = "running" /\ wpc = "idle"
  /\ q0 # <<>>
  /\ q0' = Tail(q0)

Continue == ready' = IF Len(q0) > 1 THEN ready ELSE Tail(ready)

(* Too little text for the talker: it only goes to the client. *)
SkipResult ==
  /\ TakeResult
  /\ ~ShouldToss(Head(q0).len)
  /\ Continue
  /\ told' = Head(q0).len
  /\ UNCHANGED <<thinker, shown, wpc, row, len, lastIdx, prefilled, havePad,
                 chunkSeq, padLeft, feed, routes, phase>>

(* Mutant: the padding embeddings are never taken. *)
PadNeverCaptured == havePad

(* The first row sent after the prefill also serves as padding embeddings. *)
PadCaptured == havePad \/ prefilled

(* The first result with enough text: the prefill.  Later ones: one row,   *)
(* which by RowAvailable lies before _stage_1_target_cnt, as the code      *)
(* checks.                                                                 *)
TossResult ==
  LET r   == Head(q0)
      nxt == IF prefilled THEN lastIdx + 1 ELSE 0
      sub == Sub(chunkSeq, IF prefilled THEN "row" ELSE "prefill", nxt, r.len)
  IN  /\ TakeResult
      /\ ShouldToss(r.len)
      /\ prefilled' = TRUE
      /\ lastIdx' = nxt
      /\ havePad' = PadCaptured
      /\ IF r.fin
         THEN CatchUp(<<sub>>, chunkSeq + 1, nxt + 1, r.len, havePad',
                      Tail(ready))
         ELSE /\ Send(<<sub>>)
              /\ chunkSeq' = chunkSeq + 1
              /\ Continue
              /\ told' = r.len
              /\ UNCHANGED <<wpc, row, len, padLeft>>
      /\ UNCHANGED <<thinker, shown, phase>>

(* The worker comes back from sleep(0) in the catch-up loop. *)
ResumeLoop ==
  /\ ready # <<>> /\ Head(ready) = Worker
  /\ phase = "running" /\ wpc = "loop"
  /\ CatchUp(<<>>, chunkSeq, row, len, havePad, Tail(ready))
  /\ UNCHANGED <<thinker, q0, shown, lastIdx, prefilled, havePad, phase>>

(* process_and_send is in no list of tasks: nothing cancels it. *)
ProcessAndSend ==
  /\ ready # <<>> /\ Head(ready).task = "send"
  /\ LET t == Head(ready) IN Send(<<Sub(t.id, "row", t.row, t.have)>>)
  /\ chunkSeq' = chunkSeq + 1
  /\ ready' = Tail(ready)
  /\ UNCHANGED <<thinker, q0, shown, wpc, row, len, lastIdx, prefilled,
                 havePad, padLeft, told, phase>>

(* Mutant: the range of the burst ends one late. *)
MorePadsLate == padLeft > 0

MorePads == padLeft > 1

PaddingBurst ==
  /\ ready # <<>> /\ Head(ready) = Pad
  /\ phase = "running"
  /\ Send(<<Sub(chunkSeq, "pad", 0, 1)>>)
  /\ chunkSeq' = chunkSeq + 1
  /\ padLeft' = padLeft - 1
  /\ ready' = Tail(ready) \o (IF MorePads THEN <<Pad>> ELSE <<>>)
  /\ UNCHANGED <<thinker, q0, shown, wpc, row, len, lastIdx, prefilled,
                 havePad, told, phase>>

-----------------------------------------------------------------------------
(* The turn is over, or barge-in cancels it: the finally of                *)
(* generate_realtime_final cancels its tasks and waits for them.           *)
Stop ==
  /\ phase = "running"
  /\ phase' = "closing"
  /\ Wake
  /\ UNCHANGED <<thinker, q0, shown, wpc, row, len, lastIdx, prefilled,
                 havePad, chunkSeq, padLeft, feed, routes, told>>

(* CancelledError reaches the worker or the padding task where it sleeps. *)
Cancelled ==
  /\ phase = "closing"
  /\ ready # <<>> /\ Head(ready) \in {Worker, Pad}
  /\ ready' = Tail(ready)
  /\ IF Head(ready) = Worker
     THEN wpc' = "done" /\ padLeft' = padLeft
     ELSE padLeft' = 0 /\ wpc' = wpc
  /\ UNCHANGED <<thinker, q0, shown, row, len, lastIdx, prefilled, havePad,
                 chunkSeq, feed, routes, told, phase>>

(* Mutant: the routes are dropped without waiting for the tasks. *)
TasksDoneNow == TRUE

TasksDone == wpc \in {"done", "dead"} /\ padLeft = 0

(* gather has returned: the turn's routes are dropped. *)
Close ==
  /\ phase = "closing"
  /\ TasksDone
  /\ phase' = "closed"
  /\ routes' = {}
  /\ UNCHANGED <<thinker, q0, shown, ready, wpc, row, len, lastIdx, prefilled,
                 havePad, chunkSeq, padLeft, feed, told>>

EventLoop ==
  \/ SkipResult
  \/ TossResult
  \/ ResumeLoop
  \/ ProcessAndSend
  \/ PaddingBurst
  \/ Cancelled

Next ==
  \/ ThinkerStep
  \/ Deliver
  \/ EventLoop
  \/ Stop
  \/ Close

Spec == Init /\ [][Next]_vars

(* Stage 0 goes on generating up to max_tokens, the harvester polls it     *)
(* every millisecond, and the event loop resumes every ready task.         *)
FairSpec ==
  Spec /\ WF_vars(ThinkerStep) /\ WF_vars(Deliver) /\ WF_vars(EventLoop)

-----------------------------------------------------------------------------
Tasks == [task : {"worker", "pad", "send"}, id : Nat, row : Nat, have : Nat]

Subs == [id : Nat, kind : {"prefill", "row", "eos", "pad"}, row : Nat,
         have : Nat]

(* The type invariant. *)
TypeOK ==
  /\ gen \in 0..MaxGen /\ ended \in BOOLEAN
  /\ q0 \in Seq([len : 1..MaxGen, fin : BOOLEAN]) /\ shown \in 0..gen
  /\ ready \in Seq(Tasks)
  /\ wpc \in {"idle", "loop", "done", "dead"}
  /\ row \in Nat /\ len \in 0..MaxGen
  /\ lastIdx \in Nat /\ prefilled \in BOOLEAN /\ havePad \in BOOLEAN
  /\ chunkSeq \in Nat /\ padLeft \in 0..BURST
  /\ feed \in Seq(Subs) /\ routes \subseteq Nat
  /\ told \in 0..shown /\ phase \in {"running", "closing", "closed"}

(* Stage 1 is fed in order and nothing twice: sub-request k has the id     *)
(* suffix k, the first is the prefill, then come the rows from row 1 on    *)
(* one after the other, then one end-of-speech marker, then only padding.  *)
(* The ids of catch-up rows are made by the worker and used by the tasks   *)
(* it spawns, so this rests on the order of the event loop.                *)
FeedInOrder ==
  \A i \in 1..Len(feed) :
    /\ feed[i].id = i - 1
    /\ (feed[i].kind = "prefill") <=> (i = 1)
    /\ feed[i].kind = "row" =>
         feed[i].row = i - 1 /\ feed[i-1].kind \in {"prefill", "row"}
    /\ feed[i].kind = "eos" => feed[i-1].kind = "row"
    /\ feed[i].kind = "pad" => feed[i-1].kind \in {"eos", "pad"}

(* No sub-request is cut from beyond the end of the embeddings: the        *)
(* prefill has row 0, and row r is only sent from a result that has it.  A *)
(* slice beyond the end is empty and raises nothing, so a prompt without   *)
(* embeddings would go to the talker as if it were a row.                  *)
RowAvailable ==
  \A i \in 1..Len(feed) :
    feed[i].kind \in {"prefill", "row"} => feed[i].row < feed[i].have

(* When the end-of-speech marker is sent, the rows sent before it are all  *)
(* the rows of the thinker's whole answer, however its tokens were grouped *)
(* into results.                                                           *)
WholeAnswerSpoken ==
  \A i \in 1..Len(feed) :
    feed[i].kind = "eos" => ended /\ feed[i-1].row = gen - 2

(* Once the turn is cleaned up no route of it is in request_states, and    *)
(* none comes back: a send task that the cancellation does not reach has   *)
(* run before the cleanup.                                                 *)
NoRouteAfterClose == phase = "closed" => routes = {}

(* A turn whose talker was prefilled before its text ended gets its end of *)
(* speech, unless it is stopped before.                                    *)
SpeechEnds ==
  prefilled /\ wpc = "idle" ~>
    phase # "running" \/ \E i \in 1..Len(feed) : feed[i].kind = "eos"
=============================================================================
