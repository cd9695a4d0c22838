--------------------------- MODULE DuplexSession ---------------------------
(***************************************************************************)
(* Sessions and turns: DuplexOmni (lgws/duplex_engine.py) and the          *)
(* WebSocket endpoint with its sender (lgws/server.py).                    *)
(*                                                                         *)
(* The inside of a turn is reduced to what the sessions share: one answer  *)
(* of stage 0 (text), one of stage 1 (codes and the stop token), Chunks of *)
(* stage 2 (audio), each a request routed back through request_states.     *)
(* All code here runs on one event loop; an action is what one task does   *)
(* between two awaits.                                                     *)
(***************************************************************************)
EXTENDS Integers, Sequences, FiniteSets

CONSTANTS
  Sessions,
  Chunks,     \* audio chunks of a turn
  MaxTurns,   \* bound: turns of a session
  MaxClock,   \* bound: the wall clock, in seconds
  MaxErrors,  \* bound: error results of stages
  Overlap,    \* a client may end an utterance while a turn runs
  Prompt      \* the event loop is faster than the stages: see CaughtUp

ASSUME SessionAssumption ==
  /\ {Chunks, MaxTurns} \subseteq Nat \ {0}
  /\ {MaxClock, MaxErrors} \subseteq Nat
  /\ {Overlap, Prompt} \subseteq BOOLEAN

Turns == Sessions \X (1..MaxTurns)

(* Turn ids and request ids: a turn id is the session and the second in    *)
(* which the turn was created.                                             *)
NoTid == [s |-> "none", at |-> -1]

Rid(id, stage, i) == [id |-> id, stage |-> stage, i |-> i]

VARIABLES
  clock,
  open,         \* sessions whose WebSocket is connected
  tables,       \* sessions with queues and a worker in DuplexOmni
  heard,        \* sessions whose audio_buffer holds audio
  created,      \* per session: turns created
  tid,          \* per turn: its turn_id
  task,         \* per turn: its generate_turn_response task
  owned,        \* per session: active_generation_tasks
  routes,       \* request_states: pairs of a request id and the turn it is for
  work,         \* requests the stages have not answered
  inbox,        \* per turn: results in its queues
  recv,         \* per turn: stg2_recv_count
  fin,          \* per turn: final_output_q
  resultQ,      \* per session: result_queues
  lastTid,      \* per session: last_turn_id of send_loop
  sender,       \* per session: counters of the queue_generator that runs
  down,         \* per session: messages sent to the client
  interrupted,  \* history: turns created before a barge-in of their session
  broken        \* history: turns that lost a worker to an error result

engine == <<tables, heard, created, tid, owned>>
turnState == <<task, routes, work, inbox, recv, fin, broken>>
endpoint == <<open, lastTid, sender, down>>
vars == <<clock, engine, turnState, endpoint, resultQ, interrupted>>

NoSender == [on |-> FALSE, recv |-> 0, expected |-> -1]

Init ==
  /\ clock = 0
  /\ open = Sessions /\ tables = Sessions /\ heard = {}
  /\ created = [s \in Sessions |-> 0] /\ tid = [t \in Turns |-> NoTid]
  /\ task = [t \in Turns |-> "none"] /\ owned = [s \in Sessions |-> {}]
  /\ routes = {} /\ work = {}
  /\ inbox = [t \in Turns |-> <<>>] /\ recv = [t \in Turns |-> 0]
  /\ fin = [t \in Turns |-> <<>>]
  /\ resultQ = [s \in Sessions |-> <<>>]
  /\ lastTid = [s \in Sessions |-> NoTid]
  /\ sender = [s \in Sessions |-> NoSender]
  /\ down = [s \in Sessions |-> <<>>]
  /\ interrupted = {} /\ broken = {}

Tick ==
  /\ clock < MaxClock
  /\ clock' = clock + 1
  /\ UNCHANGED <<engine, turnState, endpoint, resultQ, interrupted>>

-----------------------------------------------------------------------------
(* put_incremental_input and _audio_worker. *)
PutAudio(s) ==
  /\ s \in open \ heard
  /\ heard' = heard \cup {s}
  /\ UNCHANGED <<clock, tables, created, tid, owned, turnState, endpoint,
                 resultQ, interrupted>>

EndOf(t) == [turn |-> t, kind |-> "end_of_response"]

Answered(t) == \E i \in 1..Len(down[t[1]]) : down[t[1]][i] = EndOf(t)

(* The sample client sends a barge-in when the user speaks during a turn;  *)
(* another utterance follows a turn that was given up so, or was answered  *)
(* (the turn's task ends a few loop iterations after its last output).     *)
Settled(t) == t \in interrupted \/ (Answered(t) /\ task[t] = "done")

(* With the end of the utterance _audio_worker creates the turn's task.    *)
(* Without audio it only waits for the next utterance.                     *)
EndOfUtterance(s) ==
  LET t == <<s, created[s] + 1>>
  IN  /\ s \in open \cap heard
      /\ created[s] < MaxTurns
      /\ Overlap \/ \A n \in 1..created[s] : Settled(<<s, n>>)
      /\ heard' = heard \ {s}
      /\ created' = [created EXCEPT ![s] = @ + 1]
      /\ tid' = [tid EXCEPT ![t] = [s |-> s, at |-> clock]]
      /\ task' = [task EXCEPT ![t] = "new"]
      /\ owned' = [owned EXCEPT ![s] = @ \cup {t}]
      /\ UNCHANGED <<clock, tables, routes, work, inbox, recv, fin, broken,
                     endpoint, resultQ, interrupted>>

-----------------------------------------------------------------------------
(* Registers the requests in request_states and submits them. *)
Request(t, rids) ==
  /\ routes' = {p \in routes : p.rid \notin rids} \cup {[rid |-> r, to |-> t] : r \in rids}
  /\ work' = work \cup rids

(* generate_realtime_final starts: stage 0 gets the prompt.  The loop runs *)
(* ready tasks first in, first out: a turn cancelled by a barge-in has     *)
(* entered its finally clause before the task of a later utterance, which  *)
(* _audio_worker creates, begins.                                          *)
BeginTurn(t) ==
  /\ task[t] = "new"
  /\ \A u \in Turns : u[1] = t[1] => task[u] # "cancelled"
  /\ task' = [task EXCEPT ![t] = "run"]
  /\ Request(t, {Rid(tid[t], 0, 0)})
  /\ UNCHANGED <<clock, engine, inbox, recv, fin, broken, endpoint, resultQ,
                 interrupted>>

(* Stage 2 answers in the order it was asked. *)
Oldest(r) == \A q \in work : q.id = r.id /\ q.stage = r.stage => r.i <= q.i

(* The timing that the endpoint relies on.  send_loop polls every ten      *)
(* milliseconds and a finally clause takes a few iterations of the loop,   *)
(* an answer of a stage a round trip to another process: when a result of  *)
(* a running turn comes, send_loop has seen that turn and the turns of its *)
(* session that were over are cleaned up.                                  *)
CaughtUp(r) ==
  r.id.s \in open /\ (\E t \in Turns : tid[t] = r.id /\ task[t] = "run") =>
    /\ lastTid[r.id.s] = r.id
    /\ \A u \in Turns : u[1] = r.id.s /\ tid[u] # r.id =>
         task[u] \notin {"cancelled", "ending"}

(* stage_harvester hands a result to the turn its request id is routed to, *)
(* or drops it.                                                            *)
Harvest(r) ==
  /\ r \in work /\ Oldest(r)
  /\ Prompt => CaughtUp(r)
  /\ work' = work \ {r}
  /\ inbox' = [t \in Turns |-> IF [rid |-> r, to |-> t] \in routes
                               THEN Append(inbox[t], r) ELSE inbox[t]]
  /\ UNCHANGED <<clock, engine, task, routes, recv, fin, broken, endpoint,
                 resultQ, interrupted>>

(* An error result carries no outputs: the exception ends the worker that  *)
(* takes it, and nobody notices.                                           *)
StageError(r) ==
  /\ Cardinality(broken) < MaxErrors
  /\ r \in work
  /\ work' = work \ {r}
  /\ broken' = broken \cup {t \in Turns : [rid |-> r, to |-> t] \in routes}
  /\ UNCHANGED <<clock, engine, task, routes, inbox, recv, fin, endpoint,
                 resultQ, interrupted>>

(* An ABORT makes a stage drop requests of the session. *)
StageDrop(r) ==
  /\ r \in work
  /\ \E t \in interrupted : tid[t] = r.id
  /\ work' = work \ {r}
  /\ UNCHANGED <<clock, engine, task, routes, inbox, recv, fin, broken,
                 endpoint, resultQ, interrupted>>

Item(t, kind, expected, last) ==
  [turn |-> t, kind |-> kind, expected |-> expected, last |-> last]

(* worker_0to1: the text goes to the client, stage 1 gets its input. *)
Worker0to1(t) ==
  /\ inbox[t] # <<>> /\ Head(inbox[t]).stage = 0
  /\ fin' = [fin EXCEPT ![t] = Append(@, Item(t, "text", -1, FALSE))]
  /\ Request(t, {Rid(tid[t], 1, 0)})
  /\ UNCHANGED recv

(* worker_1to2 at the stop token: every stage-1 route is dropped, whoever  *)
(* it belongs to, and stage 2 gets the chunks.                             *)
Worker1to2(t) ==
  LET rids == {Rid(tid[t], 2, i) : i \in 1..Chunks}
  IN  /\ inbox[t] # <<>> /\ Head(inbox[t]).stage = 1
      /\ routes' = {p \in routes : p.rid.stage # 1 /\ p.rid \notin rids}
                     \cup {[rid |-> r, to |-> t] : r \in rids}
      /\ work' = work \cup rids
      /\ UNCHANGED <<fin, recv>>

(* worker_2toServer: the number of chunks may not be known before the last *)
(* chunk.                                                                  *)
Worker2toServer(t) ==
  /\ inbox[t] # <<>> /\ Head(inbox[t]).stage = 2
  /\ recv' = [recv EXCEPT ![t] = @ + 1]
  /\ \E e \in IF recv'[t] = Chunks THEN {Chunks} ELSE {-1, Chunks} :
       fin' = [fin EXCEPT ![t] = Append(@, Item(t, "audio", e, recv'[t] = Chunks))]
  /\ UNCHANGED <<routes, work>>

(* The workers run until the finally clause of the turn cancels them. *)
TurnWorker(t) ==
  /\ task[t] \in {"run", "cancelled"} /\ t \notin broken
  /\ Worker0to1(t) \/ Worker1to2(t) \/ Worker2toServer(t)
  /\ inbox' = [inbox EXCEPT ![t] = Tail(@)]
  /\ UNCHANGED <<clock, engine, task, broken, endpoint, resultQ, interrupted>>

(* generate_turn_response moves an output to the session's result queue. *)
YieldOutput(t) ==
  /\ task[t] = "run" /\ fin[t] # <<>>
  /\ fin' = [fin EXCEPT ![t] = Tail(@)]
  /\ task' = [task EXCEPT ![t] = IF Head(fin[t]).last THEN "ending" ELSE @]
  /\ resultQ' = IF t[1] \in tables
                THEN [resultQ EXCEPT ![t[1]] = Append(@, Head(fin[t]))]
                ELSE resultQ
  /\ UNCHANGED <<clock, engine, routes, work, inbox, recv, broken, endpoint,
                 interrupted>>

(* The CancelledError of a barge-in arrives: the finally clause cancels    *)
(* the workers.                                                            *)
EnterFinally(t) ==
  /\ task[t] = "cancelled"
  /\ task' = [task EXCEPT ![t] = "ending"]
  /\ UNCHANGED <<clock, engine, routes, work, inbox, recv, fin, broken,
                 endpoint, resultQ, interrupted>>

(* Mutant: the routes stay. *)
RoutesKept(id) == routes

(* Mutant: all routes of the session go. *)
RoutesOfSession(id) == {p \in routes : p.rid.id.s # id.s}

RoutesWithout(id) == {p \in routes : p.rid.id # id}

(* Mutant: the finished task stays in active_generation_tasks. *)
OwnedStays(t) == owned

(* The done callback of the turn's task. *)
OwnedWithout(t) == [owned EXCEPT ![t[1]] = @ \ {t}]

(* The finally clause: the turn's workers are gone, its routes go. *)
Finalize(t) ==
  /\ task[t] = "ending"
  /\ task' = [task EXCEPT ![t] = "done"]
  /\ routes' = RoutesWithout(tid[t])
  /\ inbox' = [inbox EXCEPT ![t] = <<>>]
  /\ fin' = [fin EXCEPT ![t] = <<>>]
  /\ owned' = OwnedWithout(t)
  /\ UNCHANGED <<clock, tables, heard, created, tid, work, recv, broken,
                 endpoint, resultQ, interrupted>>

-----------------------------------------------------------------------------
(* Mutant: the result queue is not drained. *)
DrainedNot(s) == resultQ

Drained(s) == [resultQ EXCEPT ![s] = <<>>]

(* cleanup_for_barge_in and the cancellation of the sender: one run        *)
(* without a suspension.  A task that has not begun never will; one that   *)
(* is in its finally clause is cut short there.                            *)
BargeIn(s) ==
  LET cancel(t) == IF t \notin owned[s] THEN task[t]
                   ELSE CASE task[t] = "run" -> "cancelled"
                          [] task[t] \in {"new", "ending"} -> "done"
                          [] OTHER -> task[t]
  IN  /\ s \in open
      /\ interrupted' = interrupted \cup {<<s, n>> : n \in 1..created[s]}
      /\ task' = [t \in Turns |-> cancel(t)]
      /\ owned' = [owned EXCEPT ![s] = {}]
      /\ routes' = {p \in routes : p.rid.id.s # s}
      /\ resultQ' = Drained(s)
      /\ sender' = [sender EXCEPT ![s] = NoSender]
      /\ UNCHANGED <<clock, tables, heard, created, tid, work, inbox, recv,
                     fin, broken, open, lastTid, down>>

(* send_loop finds a turn of the session other than the last one: the      *)
(* sender that runs is cancelled and a new one starts.                     *)
Poll(s) ==
  /\ s \in open
  /\ \E p \in routes :
       /\ p.rid.id.s = s /\ p.rid.id # lastTid[s]
       /\ lastTid' = [lastTid EXCEPT ![s] = p.rid.id]
  /\ sender' = [sender EXCEPT ![s] = [NoSender EXCEPT !.on = TRUE]]
  /\ UNCHANGED <<clock, engine, turnState, open, down, resultQ, interrupted>>

(* Mutant: one chunk too early. *)
ResponseEndsEarly(snd) == snd.expected # -1 /\ snd.recv + 1 = snd.expected

(* Mutant: the count is compared before the chunk is counted. *)
ResponseEndsLate(snd) == snd.expected # -1 /\ snd.recv = snd.expected + 1

(* queue_generator compares its counters after every item of any kind. *)
ResponseEnds(snd) == snd.expected # -1 /\ snd.recv = snd.expected

(* The sender takes an item: the end_of_response goes out before it. *)
SendItem(s) ==
  LET it  == Head(resultQ[s])
      snd == IF it.kind = "audio"
             THEN [on |-> TRUE, recv |-> sender[s].recv + 1, expected |-> it.expected]
             ELSE sender[s]
      end == IF ResponseEnds(snd)
             THEN <<EndOf(it.turn)>> ELSE <<>>
  IN  /\ s \in open /\ sender[s].on
      /\ resultQ[s] # <<>>
      /\ resultQ' = [resultQ EXCEPT ![s] = Tail(@)]
      /\ sender' = [sender EXCEPT ![s] = snd]
      /\ down' = [down EXCEPT ![s] = @ \o end
                    \o <<[turn |-> it.turn, kind |-> it.kind]>>]
      /\ UNCHANGED <<clock, engine, turnState, open, lastTid, interrupted>>

(* The client disconnects.  The endpoint calls stop_session but does not   *)
(* await it, so that nothing of it happens.                                *)
Disconnect(s) ==
  /\ s \in open
  /\ open' = open \ {s}
  /\ sender' = [sender EXCEPT ![s] = NoSender]
  /\ UNCHANGED <<clock, engine, turnState, lastTid, down, resultQ, interrupted>>

Next ==
  \/ Tick
  \/ \E s \in Sessions :
       \/ PutAudio(s)
       \/ EndOfUtterance(s)
       \/ BargeIn(s)
       \/ Poll(s)
       \/ SendItem(s)
       \/ Disconnect(s)
  \/ \E t \in Turns :
       \/ BeginTurn(t)
       \/ TurnWorker(t)
       \/ YieldOutput(t)
       \/ EnterFinally(t)
       \/ Finalize(t)
  \/ \E r \in work : Harvest(r) \/ StageError(r) \/ StageDrop(r)

Spec == Init /\ [][Next]_vars

(* The event loop runs every task that is ready, send_loop polls every ten *)
(* milliseconds, and the stages answer.  Users need not do anything.       *)
FairSpec ==
  /\ Spec
  /\ WF_vars(\E r \in work : Harvest(r))
  /\ \A s \in Sessions : WF_vars(Poll(s)) /\ WF_vars(SendItem(s))
  /\ \A t \in Turns :
       /\ WF_vars(BeginTurn(t))
       /\ WF_vars(TurnWorker(t))
       /\ WF_vars(YieldOutput(t))
       /\ WF_vars(EnterFinally(t))
       /\ WF_vars(Finalize(t))

-----------------------------------------------------------------------------
Tids == [s : Sessions, at : 0..MaxClock]

Requests == [id : Tids, stage : 0..2, i : 0..Chunks]

Items == [turn : Turns, kind : {"text", "audio"}, expected : {-1, Chunks},
          last : BOOLEAN]

(* The type invariant; active_generation_tasks holds the turns whose task  *)
(* is not done.                                                            *)
TypeOK ==
  /\ clock \in 0..MaxClock
  /\ open \subseteq Sessions /\ tables \subseteq Sessions /\ heard \subseteq Sessions
  /\ created \in [Sessions -> 0..MaxTurns]
  /\ tid \in [Turns -> Tids \cup {NoTid}]
  /\ task \in [Turns -> {"none", "new", "run", "cancelled", "ending", "done"}]
  /\ \A s \in Sessions : \A t \in owned[s] : t[1] = s /\ task[t] # "done"
  /\ routes \subseteq [rid : Requests, to : Turns] /\ work \subseteq Requests
  /\ inbox \in [Turns -> Seq(Requests)] /\ recv \in [Turns -> 0..Chunks]
  /\ fin \in [Turns -> Seq(Items)] /\ resultQ \in [Sessions -> Seq(Items)]
  /\ lastTid \in [Sessions -> Tids \cup {NoTid}]
  /\ sender \in [Sessions -> [on : BOOLEAN, recv : Nat, expected : {-1, Chunks}]]
  /\ \A s \in Sessions : \A i \in 1..Len(down[s]) : down[s][i].turn[1] = s
  /\ interrupted \subseteq Turns /\ broken \subseteq Turns

(* No two turns have the same id: no session starts two in one second. *)
Distinct == \A t, u \in Turns : t # u /\ tid[t] # NoTid => tid[t] # tid[u]

(* Barge-in silences the server: nothing of an interrupted turn is sent to *)
(* the client any more, whatever of it is still in a queue or in a task.   *)
SilentAfterBargeIn ==
  [][\A s \in Sessions : \A i \in Len(down[s]) + 1 .. Len(down'[s]) :
       down'[s][i].turn \notin interrupted]_vars

(* What a stage still works on for a turn is routed back to it: no cleanup *)
(* of another turn takes a live turn's routes away.                        *)
PendingRouted ==
  Distinct =>
    \A r \in work : \A t \in Turns :
      tid[t] = r.id /\ task[t] = "run" => [rid |-> r, to |-> t] \in routes

(* A turn that is over leaves nothing in request_states. *)
NoRouteLeak == \A p \in routes : task[p.to] # "done"

CountOf(s, t, kind, n) ==
  Cardinality({i \in 1..n : down[s][i] = [turn |-> t, kind |-> kind]})

(* The client is told the end of a response once, with the last chunk.     *)
EndOfResponseOnce ==
  Distinct =>
    \A s \in Sessions : \A i \in 1..Len(down[s]) :
      LET m == down[s][i]
      IN  m.kind = "end_of_response" =>
            /\ CountOf(s, m.turn, "end_of_response", i) = 1
            /\ CountOf(s, m.turn, "audio", i) = Chunks - 1

(* Every turn that starts is answered up to its end_of_response, unless    *)
(* the client interrupts it or leaves, a stage fails, or ids collide.      *)
TurnAnswered ==
  \A t \in Turns :
    task[t] = "new" ~>
      \/ t \in interrupted \cup broken
      \/ t[1] \notin open
      \/ ~Distinct
      \/ Answered(t)
=============================================================================
