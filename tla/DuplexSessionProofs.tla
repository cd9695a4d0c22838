------------------------ MODULE DuplexSessionProofs ------------------------
(***************************************************************************)
(* The proofs about DuplexSession, for any number of sessions and turns,   *)
(* any number of chunks, any clock and any number of stage errors. First   *)
(* the facts that need no assumption (GInv): types, the ids a request is   *)
(* registered under, and the phase a turn's requests are in. Then those    *)
(* that hold where a client lets one turn be answered or interrupts it     *)
(* before the next (SerialInv, ~Overlap). Last the end of a response.      *)
(***************************************************************************)
EXTENDS DuplexSession, FiniteSetTheorems, TLAPS

(* One conversation at a time, as the demo runs. *)
OneSession == \A a, b \in Sessions : a = b

(* What a client receives. *)
Messages == [turn : Turns, kind : {"text", "audio", "end_of_response"}]

(* A turn is created with its id, is in active_generation_tasks until its  *)
(* task is done or a barge-in takes it out, and no barge-in has come while *)
(* it is new or runs.                                                      *)
TaskInv ==
  /\ owned \in [Sessions -> SUBSET Turns]
  /\ down \in [Sessions -> Seq(Messages)]
  /\ \A t \in Turns :
       /\ task[t] = "none" <=> t[2] > created[t[1]]
       /\ task[t] = "none" => tid[t] = NoTid /\ t \notin interrupted
       /\ task[t] # "none" => tid[t] \in Tids /\ tid[t].s = t[1]
       /\ task[t] \in {"new", "run"} => t \in owned[t[1]] /\ t \notin interrupted

(* request_states has the ids of the turn a request goes to, from the      *)
(* begin of its task to the end of its finally clause.                     *)
RouteInv ==
  \A p \in routes :
    p.rid.id = tid[p.to] /\ task[p.to] \in {"run", "cancelled", "ending"}

(* An output is in the queues of its own turn and session, and none of an  *)
(* interrupted turn waits in a result queue: cleanup_for_barge_in empties  *)
(* it, and the cancelled task puts nothing more in.                        *)
ItemInv ==
  /\ \A t \in Turns : \A i \in 1..Len(fin[t]) : fin[t][i].turn = t
  /\ \A s \in Sessions : \A i \in 1..Len(resultQ[s]) :
       resultQ[s][i].turn[1] = s /\ resultQ[s][i].turn \notin interrupted

(* The requests at the stages that will come back to turn t. *)
Pend(t) == {r \in work : [rid |-> r, to |-> t] \in routes}

(* A turn has one request at the thinker or the talker, with nothing else  *)
(* underway, or a row of chunks at the code2wav stage, which come in order.*)
PhaseOf(t) ==
  /\ \A i \in 1..Len(inbox[t]) :
       IF inbox[t][i].stage < 2
       THEN Len(inbox[t]) = 1 /\ recv[t] = 0 /\ Pend(t) = {}
       ELSE recv[t] + i <= inbox[t][i].i
  /\ \A r \in Pend(t) :
       IF r.stage < 2 THEN inbox[t] = <<>> /\ recv[t] = 0 /\ Pend(t) = {r}
       ELSE recv[t] + Len(inbox[t]) < r.i
  /\ task[t] \in {"none", "new"} => inbox[t] = <<>> /\ recv[t] = 0

PhaseInv == \A t \in Turns : PhaseOf(t)

(* What the stages work on was sent by a task that has begun. *)
WorkInv ==
  \A r \in work : \E t \in Turns : tid[t] = r.id /\ task[t] \notin {"none", "new"}

GInv == TypeOK /\ TaskInv /\ RouteInv /\ ItemInv /\ PhaseInv /\ WorkInv

-----------------------------------------------------------------------------
(* Turns are pairs of a session and a number. *)
LEMMA TurnPair ==
  /\ \A t \in Turns : t[1] \in Sessions /\ t[2] \in 1..MaxTurns /\ t = <<t[1], t[2]>>
  /\ \A s \in Sessions : \A n \in 1..MaxTurns : <<s, n>> \in Turns
BY DEF Turns

LEMMA Constants ==
  /\ Chunks \in Nat /\ Chunks > 0 /\ MaxTurns \in Nat /\ MaxTurns > 0
  /\ MaxClock \in Nat /\ MaxErrors \in Nat
  /\ Overlap \in BOOLEAN /\ Prompt \in BOOLEAN
BY SessionAssumption

LEMMA NoTidNotTid == NoTid \notin Tids
BY SessionAssumption DEF NoTid, Tids

LEMMA InitGInv == Init => GInv
<1> SUFFICES ASSUME Init PROVE GInv
  BY Zenon
<1> USE Constants, TurnPair DEF Init
<1>1. TypeOK
  BY DEF TypeOK, NoSender
<1>2. TaskInv
  BY DEF TaskInv
<1>3. RouteInv /\ ItemInv /\ WorkInv
  BY DEF RouteInv, ItemInv, WorkInv
<1>4. PhaseInv
  BY DEF PhaseInv, PhaseOf, Pend
<1> QED
  BY Zenon, <1>1, <1>2, <1>3, <1>4 DEF GInv

(* A barge-in, turn by turn. *)
LEMMA BargeInTask ==
  ASSUME TypeOK, NEW s \in Sessions, BargeIn(s)
  PROVE  /\ DOMAIN task' = Turns
         /\ \A t \in Turns :
           /\ t \notin owned[s] => task'[t] = task[t]
           /\ t \in owned[s] /\ task[t] = "run" => task'[t] = "cancelled"
           /\ t \in owned[s] /\ task[t] \in {"new", "ending"} => task'[t] = "done"
           /\ t \in owned[s] /\ task[t] \in {"none", "cancelled", "done"} => task'[t] = task[t]
BY Zenon DEF BargeIn, TypeOK

(* What the sender puts on the wire is of the turn of the item it takes.   *)
LEMMA SentTo ==
  ASSUME TypeOK, TaskInv, ItemInv, NEW s \in Sessions, SendItem(s)
  PROVE  /\ resultQ[s][1] \in Items /\ resultQ[s][1].turn[1] = s
         /\ resultQ[s][1].turn \notin interrupted
         /\ down' \in [Sessions -> Seq(Messages)]
         /\ \A a \in Sessions : a # s => down'[a] = down[a]
         /\ Len(down'[s]) >= Len(down[s])
         /\ \A i \in 1..Len(down[s]) : down'[s][i] = down[s][i]
         /\ \A i \in Len(down[s])+1 .. Len(down'[s]) :
              down'[s][i].turn = resultQ[s][1].turn
<1> DEFINE it == resultQ[s][1]
           m == [turn |-> it.turn, kind |-> it.kind]
<1>1. resultQ[s] \in Seq(Items) /\ resultQ[s] # <<>>
  BY Zenon DEF SendItem, TypeOK
<1>2. it \in Items /\ Head(resultQ[s]) = it /\ 1 \in 1..Len(resultQ[s])
  BY <1>1
<1>3. it.turn[1] = s /\ it.turn \notin interrupted
  BY Zenon, <1>2 DEF ItemInv
<1>4. m \in Messages /\ EndOf(it.turn) \in Messages
  BY Zenon, <1>2 DEF Items, EndOf, Messages
<1>5. PICK end \in {<<EndOf(it.turn)>>, <<>>} :
        down' = [down EXCEPT ![s] = @ \o end \o <<m>>]
  BY Zenon, <1>2 DEF SendItem
<1>6. end \in Seq(Messages) /\ down[s] \in Seq(Messages) /\ <<m>> \in Seq(Messages)
  <2>1. <<EndOf(it.turn)>> \in Seq(Messages) /\ <<>> \in Seq(Messages)
    BY <1>4
  <2>2. <<m>> \in Seq(Messages)
    BY <1>4
  <2> HIDE DEF m, it
  <2> QED
    BY Zenon, <1>5, <2>1, <2>2 DEF TaskInv
<1>7. down'[s] = down[s] \o end \o <<m>>
  BY Zenon, <1>5 DEF TaskInv
<1>8. \A i \in 1..Len(end) : end[i].turn = it.turn
  BY DEF EndOf
<1>9. m.turn = it.turn
  BY Zenon
<1> HIDE DEF m, it
<1>10. /\ down'[s] \in Seq(Messages)
       /\ Len(down'[s]) >= Len(down[s])
       /\ \A i \in 1..Len(down[s]) : down'[s][i] = down[s][i]
       /\ \A i \in Len(down[s])+1 .. Len(down'[s]) : down'[s][i].turn = it.turn
  BY <1>6, <1>7, <1>8, <1>9
<1>11. down' \in [Sessions -> Seq(Messages)]
  BY Zenon, <1>5, <1>10 DEF TaskInv
<1>12. \A a \in Sessions : a # s => down'[a] = down[a]
  BY Zenon, <1>5 DEF TaskInv
<1> QED
  BY Zenon, <1>2, <1>3, <1>10, <1>11, <1>12 DEF it

(* Every operation keeps the types. *)
LEMMA TypeStep ==
  ASSUME GInv, [Next]_vars
  PROVE  TypeOK'
<1> USE Constants, TurnPair DEF GInv
<1> TypeOK /\ TaskInv
  BY Zenon
<1>1. CASE Tick
  <2>1. clock' \in 0..MaxClock
    BY <1>1 DEF Tick, TypeOK
  <2> QED
    BY Zenon, <1>1, <2>1 DEF Tick, TypeOK, engine, turnState, endpoint
<1>2. ASSUME NEW s \in Sessions, PutAudio(s) PROVE TypeOK'
  BY SMT, SMTT(20), <1>2 DEF PutAudio, TypeOK, turnState, endpoint
<1>3. ASSUME NEW s \in Sessions, EndOfUtterance(s) PROVE TypeOK'
  <2> DEFINE t == <<s, created[s] + 1>>
  <2>1. created[s] \in 0..MaxTurns /\ created[s] < MaxTurns
    BY Zenon, <1>3 DEF EndOfUtterance, TypeOK
  <2>2. t \in Turns /\ t[1] = s
    BY <2>1
  <2>3. created' \in [Sessions -> 0..MaxTurns]
    BY <1>3, <2>1 DEF EndOfUtterance, TypeOK
  <2>4. [s |-> s, at |-> clock] \in Tids
    BY Zenon DEF TypeOK, Tids
  <2>5. tid' = [tid EXCEPT ![t] = [s |-> s, at |-> clock]]
    BY Zenon, <1>3 DEF EndOfUtterance
  <2>6. tid' \in [Turns -> Tids \cup {NoTid}]
    BY Zenon, <2>4, <2>5 DEF TypeOK
  <2>7. task' = [task EXCEPT ![t] = "new"] /\ owned' = [owned EXCEPT ![s] = @ \cup {t}]
    BY Zenon, <1>3 DEF EndOfUtterance
  <2>8. task' \in [Turns -> {"none", "new", "run", "cancelled", "ending", "done"}]
    BY Zenon, <2>7 DEF TypeOK
  <2>9. \A a \in Sessions : \A u \in owned'[a] : u[1] = a /\ task'[u] # "done"
    BY SMT, SMTT(20), <2>2, <2>7 DEF TypeOK, TaskInv
  <2> QED
    BY Zenon, <1>3, <2>3, <2>6, <2>8, <2>9 DEF EndOfUtterance, TypeOK, endpoint
<1>4. ASSUME NEW s \in Sessions, BargeIn(s) PROVE TypeOK'
  <2>1. task' \in [Turns -> {"none", "new", "run", "cancelled", "ending", "done"}]
    BY Zenon, <1>4, BargeInTask DEF BargeIn, TypeOK
  <2>2. \A a \in Sessions : \A u \in owned'[a] : u[1] = a /\ task'[u] # "done"
    <3> SUFFICES ASSUME NEW a \in Sessions, NEW u \in owned'[a]
                 PROVE  u[1] = a /\ task'[u] # "done"
      BY Zenon
    <3>1. a # s /\ u \in owned[a] /\ u \in Turns
      BY Zenon, <1>4 DEF BargeIn, TaskInv
    <3>2. u[1] = a /\ u \notin owned[s] /\ task[u] # "done"
      BY SMT, SMTT(20), <3>1 DEF TypeOK
    <3> QED
      BY Zenon, <1>4, <3>1, <3>2, BargeInTask
  <2>3. interrupted' \subseteq Turns
    BY <1>4 DEF BargeIn, TypeOK
  <2>4. resultQ' \in [Sessions -> Seq(Items)]
    BY <1>4 DEF BargeIn, TypeOK, Drained
  <2>5. sender' \in [Sessions -> [on : BOOLEAN, recv : Nat, expected : {-1, Chunks}]]
    BY Zenon, <1>4 DEF BargeIn, TypeOK, NoSender
  <2>6. routes' \subseteq routes
    BY Zenon, <1>4 DEF BargeIn
  <2> QED
    BY Zenon, <1>4, <2>1, <2>2, <2>3, <2>4, <2>5, <2>6 DEF BargeIn, TypeOK
<1>5. ASSUME NEW s \in Sessions, Poll(s) PROVE TypeOK'
  BY Zenon, <1>5 DEF Poll, TypeOK, NoSender, engine, turnState, Requests
<1>6. ASSUME NEW s \in Sessions, SendItem(s) PROVE TypeOK'
  <2> DEFINE it == Head(resultQ[s])
  <2>1. resultQ[s] \in Seq(Items) /\ resultQ[s] # <<>>
    BY Zenon, <1>6 DEF SendItem, TypeOK
  <2>2. it \in Items /\ it = resultQ[s][1] /\ 1 \in 1..Len(resultQ[s])
    BY <2>1
  <2>3. it.turn \in Turns /\ it.turn[1] = s /\ it.expected \in {-1, Chunks}
    BY <2>2 DEF Items, ItemInv
  <2>4. Tail(resultQ[s]) \in Seq(Items)
    BY <2>1
  <2>5. resultQ' \in [Sessions -> Seq(Items)]
    BY Zenon, <1>6, <2>4 DEF SendItem, TypeOK
  <2>6. sender' \in [Sessions -> [on : BOOLEAN, recv : Nat, expected : {-1, Chunks}]]
    BY <1>6, <2>3 DEF SendItem, TypeOK
  <2>7. \A a \in Sessions : \A i \in 1..Len(down'[a]) : down'[a][i].turn[1] = a
    <3> SUFFICES ASSUME NEW a \in Sessions, NEW i \in 1..Len(down'[a])
                 PROVE  down'[a][i].turn[1] = a
      BY Zenon
    <3>0. \A j \in 1..Len(down[a]) : down[a][j].turn[1] = a
      BY Zenon DEF TypeOK
    <3>1. CASE a # s
      <4>1. down'[a] = down[a]
        BY <1>6, <3>1, SentTo
      <4> QED
        BY Zenon, <3>0, <4>1
    <3>2. CASE a = s
      <4>1. down[s] \in Seq(Messages) /\ down'[s] \in Seq(Messages)
        BY Zenon, <1>6, SentTo DEF TaskInv
      <4>2. i \in 1..Len(down[s]) \/ i \in Len(down[s])+1 .. Len(down'[s])
        BY <3>2, <4>1
      <4> QED
        <5>1. CASE i \in 1..Len(down[s])
          <6>1. down'[s][i] = down[s][i]
            BY Zenon, <1>6, <5>1, SentTo
          <6> QED
            BY Zenon, <3>0, <3>2, <5>1, <6>1
        <5>2. CASE i \in Len(down[s])+1 .. Len(down'[s])
          <6>1. down'[s][i].turn = resultQ[s][1].turn /\ resultQ[s][1].turn[1] = s
            BY Zenon, <1>6, <5>2, SentTo
          <6> QED
            BY Zenon, <3>2, <6>1
        <5> QED
          BY Zenon, <4>2, <5>1, <5>2
    <3> QED
      BY Zenon, <3>1, <3>2
  <2> QED
    BY Zenon, <1>6, <2>5, <2>6, <2>7 DEF SendItem, TypeOK, engine, turnState
<1>7. ASSUME NEW s \in Sessions, Disconnect(s) PROVE TypeOK'
  BY Zenon, <1>7 DEF Disconnect, TypeOK, NoSender, engine, turnState
<1>8. ASSUME NEW t \in Turns, BeginTurn(t) PROVE TypeOK'
  <2>1. Rid(tid[t], 0, 0) \in Requests
    BY <1>8 DEF BeginTurn, TaskInv, Rid, Requests
  <2>2. routes' \subseteq [rid : Requests, to : Turns] /\ work' \subseteq Requests
    BY <1>8, <2>1 DEF BeginTurn, Request, TypeOK
  <2> QED
    BY SMT, SMTT(20), <1>8, <2>2 DEF BeginTurn, TypeOK, engine, endpoint
<1>9. ASSUME NEW t \in Turns, TurnWorker(t) PROVE TypeOK'
  <2>1. inbox[t] \in Seq(Requests) /\ inbox[t] # <<>>
    BY Zenon, <1>9 DEF TurnWorker, Worker0to1, Worker1to2, Worker2toServer, TypeOK
  <2>2. /\ Head(inbox[t]) \in Requests /\ Tail(inbox[t]) \in Seq(Requests)
        /\ Head(inbox[t]) = inbox[t][1] /\ 1 \in 1..Len(inbox[t])
    BY <2>1
  <2>3. inbox' \in [Turns -> Seq(Requests)]
    BY Zenon, <1>9, <2>2 DEF TurnWorker, TypeOK
  <2>4. tid[t] \in Tids
    BY Zenon, <1>9 DEF TurnWorker, TaskInv
  <2>5. CASE Worker0to1(t)
    <3>1. Item(t, "text", -1, FALSE) \in Items
      BY Zenon DEF Item, Items
    <3>2. Append(fin[t], Item(t, "text", -1, FALSE)) \in Seq(Items)
      <4> DEFINE it == Item(t, "text", -1, FALSE)
      <4>1. it \in Items
        BY Zenon, <3>1
      <4> HIDE DEF it
      <4>2. Append(fin[t], it) \in Seq(Items)
        BY <4>1 DEF TypeOK
      <4> QED
        BY Zenon, <4>2 DEF it
    <3>3. fin' \in [Turns -> Seq(Items)]
      BY Zenon, <2>5, <3>2 DEF Worker0to1, TypeOK
    <3>4. Rid(tid[t], 1, 0) \in Requests
      BY <2>4 DEF Rid, Requests
    <3>5. routes' \subseteq [rid : Requests, to : Turns] /\ work' \subseteq Requests
      BY <2>5, <3>4 DEF Worker0to1, Request, TypeOK
    <3> QED
      BY Zenon, <1>9, <2>3, <2>5, <3>3, <3>5 DEF TurnWorker, Worker0to1, TypeOK,
         engine, endpoint
  <2>6. CASE Worker1to2(t)
    <3> DEFINE rids == {Rid(tid[t], 2, i) : i \in 1..Chunks}
    <3>1. rids \subseteq Requests
      BY <2>4 DEF Rid, Requests
    <3>2. /\ routes' = {p \in routes : p.rid.stage # 1 /\ p.rid \notin rids}
                         \cup {[rid |-> r, to |-> t] : r \in rids}
          /\ work' = work \cup rids
      BY Zenon, <2>6 DEF Worker1to2
    <3> HIDE DEF rids
    <3>3. routes' \subseteq [rid : Requests, to : Turns] /\ work' \subseteq Requests
      BY <3>1, <3>2 DEF TypeOK
    <3> QED
      BY Zenon, <1>9, <2>3, <2>6, <3>3 DEF TurnWorker, Worker1to2, TypeOK, engine,
         endpoint
  <2>7. CASE Worker2toServer(t)
    <3>1. recv[t] + 1 <= Chunks
      <4>1. inbox[t][1].stage = 2 /\ inbox[t][1].i \in 0..Chunks
        BY Zenon, <2>2, <2>7 DEF Worker2toServer, Requests
      <4>2. recv[t] + 1 <= inbox[t][1].i
        BY <2>2, <4>1 DEF PhaseInv, PhaseOf
      <4> QED
        BY SMT, SMTT(20), <4>1, <4>2 DEF TypeOK
    <3>2. recv' \in [Turns -> 0..Chunks] /\ recv'[t] = recv[t] + 1
      <4>1. recv' = [recv EXCEPT ![t] = @ + 1]
        BY Zenon, <2>7 DEF Worker2toServer
      <4>2. recv \in [Turns -> 0..Chunks]
        BY Zenon DEF TypeOK
      <4> QED
        BY SMT, SMTT(20), <4>1, <4>2, <3>1
    <3>3. PICK e \in {-1, Chunks} :
            fin' = [fin EXCEPT ![t] = Append(@, Item(t, "audio", e, recv'[t] = Chunks))]
      BY Zenon, <2>7 DEF Worker2toServer
    <3>4. Item(t, "audio", e, recv'[t] = Chunks) \in Items
      BY Zenon DEF Item, Items
    <3>5. fin' \in [Turns -> Seq(Items)]
      BY <3>3, <3>4 DEF TypeOK
    <3> QED
      BY Zenon, <1>9, <2>3, <2>7, <3>2, <3>5 DEF TurnWorker, Worker2toServer, TypeOK,
         engine, endpoint
  <2> QED
    BY Zenon, <1>9, <2>5, <2>6, <2>7 DEF TurnWorker
<1>10. ASSUME NEW t \in Turns, YieldOutput(t) PROVE TypeOK'
  <2>1. fin[t] \in Seq(Items) /\ fin[t] # <<>>
    BY <1>10 DEF YieldOutput, TypeOK
  <2>2. Head(fin[t]) \in Items /\ Tail(fin[t]) \in Seq(Items)
    BY <2>1
  <2>3. fin' \in [Turns -> Seq(Items)]
    BY Zenon, <1>10, <2>2 DEF YieldOutput, TypeOK
  <2>4. Append(resultQ[t[1]], Head(fin[t])) \in Seq(Items)
    BY <2>2 DEF TypeOK
  <2>5. resultQ' \in [Sessions -> Seq(Items)]
    BY <1>10, <2>4 DEF YieldOutput, TypeOK
  <2>6. task' \in [Turns -> {"none", "new", "run", "cancelled", "ending", "done"}]
    BY <1>10 DEF YieldOutput, TypeOK
  <2>7. \A u \in Turns : task'[u] = "done" => task[u] = "done"
    BY <1>10 DEF YieldOutput, TypeOK
  <2>8. \A a \in Sessions : \A u \in owned'[a] : u[1] = a /\ task'[u] # "done"
    BY <1>10, <2>7 DEF YieldOutput, TypeOK, TaskInv, engine
  <2> QED
    BY Zenon, <1>10, <2>3, <2>5, <2>6, <2>8 DEF YieldOutput, TypeOK, engine, endpoint
<1>11. ASSUME NEW t \in Turns, EnterFinally(t) PROVE TypeOK'
  <2>1. \A u \in Turns : task'[u] = "done" => task[u] = "done"
    BY <1>11 DEF EnterFinally, TypeOK
  <2>2. \A a \in Sessions : \A u \in owned'[a] : u[1] = a /\ task'[u] # "done"
    BY <1>11, <2>1 DEF EnterFinally, TypeOK, TaskInv, engine
  <2> QED
    BY Zenon, <1>11, <2>2 DEF EnterFinally, TypeOK, engine, endpoint
<1>12. ASSUME NEW t \in Turns, Finalize(t) PROVE TypeOK'
  <2>1. \A u \in Turns : u # t => task'[u] = task[u]
    BY Zenon, <1>12 DEF Finalize, TypeOK
  <2>2. \A a \in Sessions : owned'[a] \subseteq owned[a] /\ (a = t[1] => t \notin owned'[a])
    BY Zenon, <1>12 DEF Finalize, OwnedWithout, TaskInv
  <2>3. \A a \in Sessions : \A u \in owned'[a] : u[1] = a /\ task'[u] # "done"
    <3> SUFFICES ASSUME NEW a \in Sessions, NEW u \in owned'[a]
                 PROVE  u[1] = a /\ task'[u] # "done"
      BY Zenon
    <3>1. u \in owned[a] /\ u \in Turns
      BY Zenon, <2>2 DEF TaskInv
    <3>2. u[1] = a /\ task[u] # "done"
      BY Zenon, <3>1 DEF TypeOK
    <3> QED
      BY Zenon, <2>1, <2>2, <3>1, <3>2
  <2>4. routes' \subseteq routes
    BY Zenon, <1>12 DEF Finalize, RoutesWithout
  <2>5. /\ task' \in [Turns -> {"none", "new", "run", "cancelled", "ending", "done"}]
        /\ inbox' \in [Turns -> Seq(Requests)] /\ fin' \in [Turns -> Seq(Items)]
    BY <1>12 DEF Finalize, TypeOK
  <2> QED
    BY Zenon, <1>12, <2>3, <2>4, <2>5 DEF Finalize, TypeOK, endpoint
<1>13. ASSUME NEW r \in work, Harvest(r) PROVE TypeOK'
  <2>1. \A u \in Turns : Append(inbox[u], r) \in Seq(Requests)
    BY DEF TypeOK
  <2>2. inbox' \in [Turns -> Seq(Requests)]
    BY Zenon, <1>13, <2>1 DEF Harvest, TypeOK
  <2> QED
    BY Zenon, <1>13, <2>2 DEF Harvest, TypeOK, engine, endpoint
<1>14. ASSUME NEW r \in work, StageError(r) PROVE TypeOK'
  BY Zenon, <1>14 DEF StageError, TypeOK, engine, endpoint
<1>15. ASSUME NEW r \in work, StageDrop(r) PROVE TypeOK'
  BY Zenon, <1>15 DEF StageDrop, TypeOK, engine, endpoint
<1>16. CASE UNCHANGED vars
  BY Zenon, <1>16 DEF vars, TypeOK, engine, turnState, endpoint
<1> QED
  BY Zenon, <1>1, <1>2, <1>3, <1>4, <1>5, <1>6, <1>7, <1>8, <1>9, <1>10, <1>11,
     <1>12, <1>13, <1>14, <1>15, <1>16 DEF Next

(* Every operation keeps what TaskInv says of tasks and ids. *)
LEMMA TaskStep ==
  ASSUME GInv, [Next]_vars
  PROVE  TaskInv'
<1> USE Constants, TurnPair DEF GInv
<1> TypeOK /\ TaskInv
  BY Zenon
<1>1. CASE Tick
  BY Zenon, <1>1 DEF Tick, TaskInv, engine, turnState, endpoint
<1>2. ASSUME NEW s \in Sessions, PutAudio(s) PROVE TaskInv'
  BY Zenon, <1>2 DEF PutAudio, TaskInv, turnState, endpoint
<1>3. ASSUME NEW s \in Sessions, EndOfUtterance(s) PROVE TaskInv'
  <2> DEFINE t == <<s, created[s] + 1>>
  <2>1. created[s] \in 0..MaxTurns /\ created[s] < MaxTurns
    BY Zenon, <1>3 DEF EndOfUtterance, TypeOK
  <2>2. t \in Turns /\ t[1] = s /\ t[2] = created[s] + 1
    BY <2>1
  <2>3. [s |-> s, at |-> clock] \in Tids
    BY Zenon DEF TypeOK, Tids
  <2>4. /\ tid' = [tid EXCEPT ![t] = [s |-> s, at |-> clock]]
        /\ task' = [task EXCEPT ![t] = "new"]
        /\ owned' = [owned EXCEPT ![s] = @ \cup {t}]
        /\ created' = [created EXCEPT ![s] = @ + 1]
        /\ interrupted' = interrupted /\ down' = down
    BY <1>3 DEF EndOfUtterance, endpoint
  <2>5. owned' \in [Sessions -> SUBSET Turns]
    BY <2>2, <2>4 DEF TaskInv
  <2>6. task[t] = "none"
    BY <2>1, <2>2 DEF TaskInv
  <2>7. ASSUME NEW u \in Turns
        PROVE  /\ task'[u] = "none" <=> u[2] > created'[u[1]]
               /\ task'[u] = "none" => tid'[u] = NoTid /\ u \notin interrupted
               /\ task'[u] # "none" => tid'[u] \in Tids /\ tid'[u].s = u[1]
               /\ task'[u] \in {"new", "run"} => u \in owned'[u[1]] /\ u \notin interrupted
    <3>1. CASE u = t
      BY <2>1, <2>2, <2>3, <2>4, <2>6, <3>1 DEF TaskInv, TypeOK
    <3>2. CASE u # t
      <4>1. task'[u] = task[u] /\ tid'[u] = tid[u]
        BY <2>4, <3>2 DEF TypeOK
      <4>2. u[1] = s => u[2] # created[s] + 1
        BY <3>2
      <4>3. u[2] > created[u[1]] <=> u[2] > created'[u[1]]
        BY <2>1, <2>4, <4>2 DEF TypeOK
      <4>4. owned[u[1]] \subseteq owned'[u[1]]
        BY Zenon, <2>4 DEF TaskInv
      <4> QED
        BY Zenon, <4>1, <4>3, <4>4 DEF TaskInv
    <3> QED
      BY Zenon, <3>1, <3>2
  <2> HIDE DEF t
  <2> QED
    BY Zenon, <2>4, <2>5, <2>7 DEF TaskInv
<1>4. ASSUME NEW s \in Sessions, BargeIn(s) PROVE TaskInv'
  <2>1. owned' = [owned EXCEPT ![s] = {}] /\ tid' = tid /\ created' = created /\ down' = down
    BY <1>4 DEF BargeIn
  <2>2. \A u \in Turns : u \in interrupted' <=> u \in interrupted \/ (u[1] = s /\ u[2] <= created[s])
    BY SMT, SMTT(20), <1>4 DEF BargeIn, TypeOK
  <2>3. ASSUME NEW u \in Turns
        PROVE  /\ task'[u] = "none" <=> task[u] = "none"
               /\ task'[u] \in {"new", "run"} => task[u] = task'[u] /\ u[1] # s
    <3>1. task[u] \in {"new", "run"} /\ u[1] = s => u \in owned[s]
      BY Zenon DEF TaskInv
    <3>2. task[u] \in {"none", "new", "run", "cancelled", "ending", "done"}
      BY Zenon DEF TypeOK
    <3>3. u \in owned[s] => u[1] = s
      BY Zenon DEF TypeOK
    <3> QED
      BY Zenon, <1>4, <3>1, <3>2, <3>3, BargeInTask
  <2>4. owned' \in [Sessions -> SUBSET Turns]
    BY Zenon, <2>1 DEF TaskInv
  <2>5. \A a \in Sessions : a # s => owned'[a] = owned[a]
    BY <2>1 DEF TaskInv
  <2>6. \A u \in Turns : task[u] = "none" => u[1] # s \/ u[2] > created[s]
    BY Zenon DEF TaskInv
  <2> QED
    BY SMT, SMTT(20), <2>1, <2>2, <2>3, <2>4, <2>5, <2>6 DEF TaskInv, TypeOK
<1>5. ASSUME NEW s \in Sessions, Poll(s) PROVE TaskInv'
  BY Zenon, <1>5 DEF Poll, TaskInv, engine, turnState
<1>6. ASSUME NEW s \in Sessions, SendItem(s) PROVE TaskInv'
  <2>1. down' \in [Sessions -> Seq(Messages)]
    BY Zenon, <1>6, SentTo
  <2> QED
    BY Zenon, <1>6, <2>1 DEF SendItem, TaskInv, engine, turnState
<1>7. ASSUME NEW s \in Sessions, Disconnect(s) PROVE TaskInv'
  BY Zenon, <1>7 DEF Disconnect, TaskInv, engine, turnState
<1>8. ASSUME NEW t \in Turns, BeginTurn(t) PROVE TaskInv'
  BY <1>8 DEF BeginTurn, TypeOK, TaskInv, engine, endpoint
<1>9. ASSUME NEW t \in Turns, TurnWorker(t) PROVE TaskInv'
  BY Zenon, <1>9 DEF TurnWorker, TaskInv, engine, endpoint
<1>10. ASSUME NEW t \in Turns, YieldOutput(t) PROVE TaskInv'
  BY Zenon, <1>10 DEF YieldOutput, TypeOK, TaskInv, engine, endpoint
<1>11. ASSUME NEW t \in Turns, EnterFinally(t) PROVE TaskInv'
  BY <1>11 DEF EnterFinally, TypeOK, TaskInv, engine, endpoint
<1>12. ASSUME NEW t \in Turns, Finalize(t) PROVE TaskInv'
  BY ZenonT(40), <1>12 DEF Finalize, TypeOK, TaskInv, OwnedWithout, endpoint
<1>13. ASSUME NEW r \in work, Harvest(r) PROVE TaskInv'
  BY Zenon, <1>13 DEF Harvest, TaskInv, engine, endpoint
<1>14. ASSUME NEW r \in work, StageError(r) PROVE TaskInv'
  BY Zenon, <1>14 DEF StageError, TaskInv, engine, endpoint
<1>15. ASSUME NEW r \in work, StageDrop(r) PROVE TaskInv'
  BY <1>15 DEF StageDrop, TaskInv, engine, endpoint
<1>16. CASE UNCHANGED vars
  BY Zenon, <1>16 DEF vars, TaskInv, engine, turnState, endpoint
<1> QED
  BY Zenon, <1>1, <1>2, <1>3, <1>4, <1>5, <1>6, <1>7, <1>8, <1>9, <1>10, <1>11,
     <1>12, <1>13, <1>14, <1>15, <1>16 DEF Next

(* A worker registers requests of its own turn only. *)
LEMMA WorkerRequests ==
  ASSUME NEW t \in Turns, TurnWorker(t)
  PROVE  /\ \A p \in routes' : p \in routes \/ (p.to = t /\ p.rid.id = tid[t])
         /\ \A r \in work' : r \in work \/ r.id = tid[t]
<1>1. CASE Worker0to1(t)
  BY <1>1 DEF Worker0to1, Request, Rid
<1>2. CASE Worker1to2(t)
  <2> DEFINE rids == {Rid(tid[t], 2, i) : i \in 1..Chunks}
  <2>1. \A r \in rids : r.id = tid[t]
    BY DEF Rid
  <2>2. /\ routes' = {p \in routes : p.rid.stage # 1 /\ p.rid \notin rids}
                       \cup {[rid |-> r, to |-> t] : r \in rids}
        /\ work' = work \cup rids
    BY Zenon, <1>2 DEF Worker1to2
  <2> HIDE DEF rids
  <2> QED
    BY <2>1, <2>2
<1>3. CASE Worker2toServer(t)
  BY Zenon, <1>3 DEF Worker2toServer
<1> QED
  BY Zenon, <1>1, <1>2, <1>3 DEF TurnWorker

(* A request leaves request_states no later than its task does. *)
LEMMA RouteStep ==
  ASSUME GInv, [Next]_vars
  PROVE  RouteInv'
<1> USE Constants, TurnPair DEF GInv
<1> TypeOK /\ TaskInv /\ RouteInv
  BY Zenon
<1>0. \A p \in routes : p.rid \in Requests /\ p.to \in Turns
  BY DEF TypeOK
<1>1. CASE UNCHANGED <<routes, tid, task>>
  BY Zenon, <1>1 DEF RouteInv
<1>2. ASSUME NEW s \in Sessions, EndOfUtterance(s) PROVE RouteInv'
  <2> DEFINE t == <<s, created[s] + 1>>
  <2>1. created[s] \in 0..MaxTurns /\ created[s] < MaxTurns
    BY Zenon, <1>2 DEF EndOfUtterance, TypeOK
  <2>2. t \in Turns /\ task[t] = "none"
    BY <2>1 DEF TaskInv
  <2>3. tid' = [tid EXCEPT ![t] = [s |-> s, at |-> clock]] /\ task' = [task EXCEPT ![t] = "new"]
        /\ routes' = routes
    BY Zenon, <1>2 DEF EndOfUtterance
  <2> HIDE DEF t
  <2>4. \A p \in routes : p.to # t
    BY Zenon, <2>2 DEF RouteInv
  <2> QED
    BY <1>0, <2>3, <2>4 DEF RouteInv, TypeOK
<1>3. ASSUME NEW s \in Sessions, BargeIn(s) PROVE RouteInv'
  <2>1. ASSUME NEW p \in routes' PROVE p \in routes /\ p.to[1] # s
    <3>1. p \in routes /\ p.rid.id.s # s
      BY Zenon, <1>3, <2>1 DEF BargeIn
    <3>2. p.rid.id = tid[p.to] /\ task[p.to] # "none"
      BY Zenon, <3>1 DEF RouteInv
    <3> QED
      BY <1>0, <3>1, <3>2 DEF TaskInv
  <2>2. \A u \in Turns : u[1] # s => task'[u] = task[u]
    BY Zenon, <1>3, BargeInTask DEF TypeOK
  <2>3. tid' = tid
    BY Zenon, <1>3 DEF BargeIn
  <2> QED
    BY Zenon, <1>0, <2>1, <2>2, <2>3 DEF RouteInv
<1>4. ASSUME NEW t \in Turns, BeginTurn(t) PROVE RouteInv'
  <2>1. \A p \in routes' : p \in routes \/ p = [rid |-> Rid(tid[t], 0, 0), to |-> t]
    BY Zenon, <1>4 DEF BeginTurn, Request
  <2>2. task' = [task EXCEPT ![t] = "run"] /\ tid' = tid
    BY Zenon, <1>4 DEF BeginTurn, engine
  <2>3. [rid |-> Rid(tid[t], 0, 0), to |-> t].rid.id = tid[t]
    BY Zenon DEF Rid
  <2> QED
    BY <1>0, <2>1, <2>2, <2>3 DEF RouteInv, TypeOK
<1>5. ASSUME NEW t \in Turns, TurnWorker(t) PROVE RouteInv'
  <2>1. task' = task /\ tid' = tid /\ task[t] \in {"run", "cancelled"}
    BY Zenon, <1>5 DEF TurnWorker, engine
  <2>2. \A p \in routes' : p \in routes \/ (p.to = t /\ p.rid.id = tid[t])
    BY Zenon, <1>5, WorkerRequests
  <2> QED
    BY Zenon, <2>1, <2>2 DEF RouteInv
<1>6. ASSUME NEW t \in Turns, YieldOutput(t) PROVE RouteInv'
  <2>1. \A u \in Turns : task[u] \in {"run", "cancelled", "ending"} => task'[u] \in {"run", "cancelled", "ending"}
    BY <1>6 DEF YieldOutput, TypeOK
  <2> QED
    BY Zenon, <1>0, <1>6, <2>1 DEF YieldOutput, RouteInv, engine
<1>7. ASSUME NEW t \in Turns, EnterFinally(t) PROVE RouteInv'
  <2>1. \A u \in Turns : task[u] \in {"run", "cancelled", "ending"} => task'[u] \in {"run", "cancelled", "ending"}
    BY Zenon, <1>7 DEF EnterFinally, TypeOK
  <2> QED
    BY Zenon, <1>0, <1>7, <2>1 DEF EnterFinally, RouteInv, engine
<1>8. ASSUME NEW t \in Turns, Finalize(t) PROVE RouteInv'
  <2>1. \A p \in routes' : p \in routes /\ p.rid.id # tid[t]
    BY Zenon, <1>8 DEF Finalize, RoutesWithout
  <2>2. tid' = tid /\ \A u \in Turns : u # t => task'[u] = task[u]
    BY Zenon, <1>8 DEF Finalize, TypeOK
  <2> QED
    BY Zenon, <1>0, <2>1, <2>2 DEF RouteInv
<1> QED
  BY Zenon, <1>1, <1>2, <1>3, <1>4, <1>5, <1>6, <1>7, <1>8
     DEF Next, Tick, PutAudio, Poll, SendItem, Disconnect, Harvest, StageError,
         StageDrop, vars, engine, turnState

(* Outputs stay with their turn, and a barge-in leaves none behind. *)
LEMMA ItemStep ==
  ASSUME GInv, [Next]_vars
  PROVE  ItemInv'
<1> USE Constants, TurnPair DEF GInv
<1> TypeOK /\ TaskInv /\ ItemInv
  BY Zenon
<1>1. CASE UNCHANGED <<fin, resultQ, interrupted>>
  BY Zenon, <1>1 DEF ItemInv
<1>2. ASSUME NEW s \in Sessions, BargeIn(s) PROVE ItemInv'
  <2>1. resultQ' = [resultQ EXCEPT ![s] = <<>>] /\ fin' = fin
    BY Zenon, <1>2 DEF BargeIn, Drained
  <2>2. \A t \in interrupted' : t \in interrupted \/ t[1] = s
    BY <1>2 DEF BargeIn
  <2> QED
    BY <2>1, <2>2 DEF ItemInv, TypeOK
<1>3. ASSUME NEW s \in Sessions, SendItem(s) PROVE ItemInv'
  <2>1. resultQ[s] \in Seq(Items) /\ resultQ[s] # <<>>
    BY Zenon, <1>3 DEF SendItem, TypeOK
  <2>2. /\ Tail(resultQ[s]) \in Seq(Items)
        /\ Len(Tail(resultQ[s])) = Len(resultQ[s]) - 1
        /\ \A i \in 1..Len(Tail(resultQ[s])) : Tail(resultQ[s])[i] = resultQ[s][i+1]
    BY <2>1
  <2>3. resultQ' = [resultQ EXCEPT ![s] = Tail(@)] /\ fin' = fin /\ interrupted' = interrupted
    BY Zenon, <1>3 DEF SendItem, turnState
  <2>4. \A i \in 1..Len(resultQ'[s]) :
          resultQ'[s][i].turn[1] = s /\ resultQ'[s][i].turn \notin interrupted
    BY <2>1, <2>2, <2>3 DEF ItemInv, TypeOK
  <2> QED
    BY SMT, SMTT(20), <2>3, <2>4 DEF ItemInv, TypeOK
<1>4. ASSUME NEW t \in Turns, TurnWorker(t) PROVE ItemInv'
  <2>1. resultQ' = resultQ /\ interrupted' = interrupted
    BY Zenon, <1>4 DEF TurnWorker
  <2>2. fin' = fin \/ \E x \in Items : x.turn = t /\ fin' = [fin EXCEPT ![t] = Append(@, x)]
    <3>1. CASE Worker0to1(t)
      <4>1. Item(t, "text", -1, FALSE) \in Items /\ Item(t, "text", -1, FALSE).turn = t
        BY Zenon DEF Item, Items
      <4> QED
        BY Zenon, <3>1, <4>1 DEF Worker0to1
    <3>2. CASE Worker1to2(t)
      BY Zenon, <3>2 DEF Worker1to2
    <3>3. CASE Worker2toServer(t)
      <4>1. PICK e \in {-1, Chunks} :
              fin' = [fin EXCEPT ![t] = Append(@, Item(t, "audio", e, recv'[t] = Chunks))]
        BY Zenon, <3>3 DEF Worker2toServer
      <4>2. /\ Item(t, "audio", e, recv'[t] = Chunks) \in Items
            /\ Item(t, "audio", e, recv'[t] = Chunks).turn = t
        BY Zenon DEF Item, Items
      <4> QED
        BY Zenon, <4>1, <4>2
    <3> QED
      BY Zenon, <1>4, <3>1, <3>2, <3>3 DEF TurnWorker
  <2>3. ASSUME NEW x \in Items, x.turn = t, fin' = [fin EXCEPT ![t] = Append(@, x)]
        PROVE  \A u \in Turns : \A i \in 1..Len(fin'[u]) : fin'[u][i].turn = u
    <3>1. fin[t] \in Seq(Items) /\ fin'[t] = Append(fin[t], x)
      BY Zenon, <2>3 DEF TypeOK
    <3>2. \A i \in 1..Len(fin'[t]) : fin'[t][i] = x \/ (i \in 1..Len(fin[t]) /\ fin'[t][i] = fin[t][i])
      BY <3>1
    <3>3. \A u \in Turns : u # t => fin'[u] = fin[u]
      BY <2>3 DEF TypeOK
    <3> QED
      BY <2>3, <3>2, <3>3 DEF ItemInv
  <2> QED
    BY Zenon, <2>1, <2>2, <2>3 DEF ItemInv
<1>5. ASSUME NEW t \in Turns, YieldOutput(t) PROVE ItemInv'
  <2>1. fin[t] \in Seq(Items) /\ fin[t] # <<>> /\ resultQ[t[1]] \in Seq(Items)
    BY Zenon, <1>5 DEF YieldOutput, TypeOK
  <2>2. /\ Len(Tail(fin[t])) = Len(fin[t]) - 1
        /\ \A i \in 1..Len(Tail(fin[t])) : Tail(fin[t])[i] = fin[t][i+1]
        /\ Head(fin[t]) = fin[t][1] /\ 1 \in 1..Len(fin[t])
    BY <2>1
  <2>3. fin' = [fin EXCEPT ![t] = Tail(@)] /\ interrupted' = interrupted
    BY Zenon, <1>5 DEF YieldOutput
  <2>4. Head(fin[t]).turn = t /\ t \notin interrupted
    BY <1>5, <2>2 DEF ItemInv, YieldOutput, TaskInv
  <2>5. \A u \in Turns : \A i \in 1..Len(fin'[u]) : fin'[u][i].turn = u
    <3>1. fin'[t] = Tail(fin[t]) /\ \A u \in Turns : u # t => fin'[u] = fin[u]
      BY <2>3 DEF TypeOK
    <3>2. \A i \in 1..Len(fin'[t]) : i+1 \in 1..Len(fin[t]) /\ fin'[t][i] = fin[t][i+1]
      BY SMT, SMTT(20), <2>1, <2>2, <3>1
    <3> QED
      <4> SUFFICES ASSUME NEW u \in Turns, NEW i \in 1..Len(fin'[u])
                   PROVE  fin'[u][i].turn = u
        BY Zenon
      <4>1. CASE u = t
        <5>1. i+1 \in 1..Len(fin[t]) /\ fin'[t][i] = fin[t][i+1]
          BY Zenon, <3>2, <4>1
        <5>2. fin[t][i+1].turn = t
          BY Zenon, <5>1 DEF ItemInv
        <5> QED
          BY Zenon, <4>1, <5>1, <5>2
      <4>2. CASE u # t
        BY <3>1, <4>2 DEF ItemInv
      <4> QED
        BY Zenon, <4>1, <4>2
  <2>6. resultQ' = resultQ \/ resultQ' = [resultQ EXCEPT ![t[1]] = Append(@, Head(fin[t]))]
    BY Zenon, <1>5 DEF YieldOutput
  <2> DEFINE x == Head(fin[t])
  <2>7. x.turn = t
    BY Zenon, <2>4
  <2> HIDE DEF x
  <2>8. CASE resultQ' = [resultQ EXCEPT ![t[1]] = Append(@, x)]
    <3>1. \A a \in Sessions : a # t[1] => resultQ'[a] = resultQ[a]
      BY Zenon, <2>8 DEF TypeOK
    <3>2. resultQ'[t[1]] = Append(resultQ[t[1]], x)
      BY Zenon, <2>8 DEF TypeOK
    <3>3. \A i \in 1..Len(resultQ'[t[1]]) :
            resultQ'[t[1]][i] = x \/ (i \in 1..Len(resultQ[t[1]]) /\ resultQ'[t[1]][i] = resultQ[t[1]][i])
      BY <2>1, <3>2
    <3> QED
      <4>1. \A i \in 1..Len(resultQ'[t[1]]) :
              resultQ'[t[1]][i].turn[1] = t[1] /\ resultQ'[t[1]][i].turn \notin interrupted
        <5> SUFFICES ASSUME NEW i \in 1..Len(resultQ'[t[1]])
                     PROVE  /\ resultQ'[t[1]][i].turn[1] = t[1]
                            /\ resultQ'[t[1]][i].turn \notin interrupted
          BY Zenon
        <5>1. CASE resultQ'[t[1]][i] = x
          BY Zenon, <2>4, <2>7, <5>1
        <5>2. CASE i \in 1..Len(resultQ[t[1]]) /\ resultQ'[t[1]][i] = resultQ[t[1]][i]
          BY Zenon, <5>2 DEF ItemInv
        <5> QED
          BY Zenon, <3>3, <5>1, <5>2
      <4>2. \A a \in Sessions : \A i \in 1..Len(resultQ'[a]) :
              resultQ'[a][i].turn[1] = a /\ resultQ'[a][i].turn \notin interrupted
        BY <3>1, <4>1 DEF ItemInv
      <4> QED
        BY Zenon, <2>3, <2>5, <4>2 DEF ItemInv
  <2> QED
    <3>1. CASE resultQ' = resultQ
      BY Zenon, <2>3, <2>5, <3>1 DEF ItemInv
    <3> QED
      BY Zenon, <2>6, <2>8, <3>1 DEF x
<1>6. ASSUME NEW t \in Turns, Finalize(t) PROVE ItemInv'
  <2>1. fin' = [fin EXCEPT ![t] = <<>>] /\ resultQ' = resultQ /\ interrupted' = interrupted
    BY Zenon, <1>6 DEF Finalize
  <2> QED
    <3>1. fin'[t] = <<>> /\ \A u \in Turns : u # t => fin'[u] = fin[u]
      BY <2>1 DEF TypeOK
    <3>2. \A u \in Turns : \A i \in 1..Len(fin'[u]) : fin'[u][i].turn = u
      BY <3>1 DEF ItemInv
    <3> QED
      BY <2>1, <3>2 DEF ItemInv
<1> QED
  BY Zenon, <1>1, <1>2, <1>3, <1>4, <1>5, <1>6
     DEF Next, Tick, PutAudio, EndOfUtterance, Poll, Disconnect, BeginTurn, EnterFinally,
         Harvest, StageError, StageDrop, vars, engine, turnState

(* A task sends requests under its own id only. *)
LEMMA WorkStep ==
  ASSUME GInv, [Next]_vars
  PROVE  WorkInv'
<1> USE Constants, TurnPair DEF GInv
<1> TypeOK /\ TaskInv /\ WorkInv
  BY Zenon
<1>1. ASSUME work' \subseteq work,
             \A t \in Turns : task[t] \notin {"none", "new"} =>
               task'[t] \notin {"none", "new"} /\ tid'[t] = tid[t]
      PROVE  WorkInv'
  BY Zenon, <1>1 DEF WorkInv
<1>2. ASSUME NEW t \in Turns, task'[t] \notin {"none", "new"}, tid'[t] = tid[t],
             \A r \in work' : r \in work \/ r.id = tid[t],
             \A u \in Turns : task[u] \notin {"none", "new"} =>
               task'[u] \notin {"none", "new"} /\ tid'[u] = tid[u]
      PROVE  WorkInv'
  BY Zenon, <1>2 DEF WorkInv
<1>3. ASSUME NEW s \in Sessions, EndOfUtterance(s) PROVE WorkInv'
  <2> DEFINE t == <<s, created[s] + 1>>
  <2>1. created[s] \in 0..MaxTurns /\ created[s] < MaxTurns
    BY Zenon, <1>3 DEF EndOfUtterance, TypeOK
  <2>2. t \in Turns /\ task[t] = "none"
    BY <2>1 DEF TaskInv
  <2>3. tid' = [tid EXCEPT ![t] = [s |-> s, at |-> clock]] /\ task' = [task EXCEPT ![t] = "new"]
        /\ work' = work
    BY Zenon, <1>3 DEF EndOfUtterance
  <2> HIDE DEF t
  <2> QED
    BY <1>1, <2>2, <2>3 DEF TypeOK
<1>4. ASSUME NEW s \in Sessions, BargeIn(s) PROVE WorkInv'
  <2>1. \A u \in Turns : task[u] \notin {"none", "new"} => task'[u] \notin {"none", "new"}
    <3> SUFFICES ASSUME NEW u \in Turns, task[u] \notin {"none", "new"}
                 PROVE  task'[u] \notin {"none", "new"}
      BY Zenon
    <3>1. task[u] \in {"run", "cancelled", "ending", "done"}
      BY DEF TypeOK
    <3> QED
      BY Zenon, <1>4, <3>1, BargeInTask
  <2> QED
    BY Zenon, <1>1, <1>4, <2>1 DEF BargeIn
<1>5. ASSUME NEW t \in Turns, BeginTurn(t) PROVE WorkInv'
  <2>1. \A r \in work' : r \in work \/ r.id = tid[t]
    BY <1>5 DEF BeginTurn, Request, Rid
  <2>2. tid' = tid /\ task' = [task EXCEPT ![t] = "run"]
    BY Zenon, <1>5 DEF BeginTurn, engine
  <2> QED
    BY Zenon, <1>2, <2>1, <2>2 DEF TypeOK
<1>6. ASSUME NEW t \in Turns, TurnWorker(t) PROVE WorkInv'
  <2>1. \A r \in work' : r \in work \/ r.id = tid[t]
    BY Zenon, <1>6, WorkerRequests
  <2>2. tid' = tid /\ task' = task /\ task[t] \notin {"none", "new"}
    BY Zenon, <1>6 DEF TurnWorker, engine
  <2> QED
    BY Zenon, <1>2, <2>1, <2>2
<1>7. ASSUME NEW t \in Turns, YieldOutput(t) \/ EnterFinally(t) \/ Finalize(t) PROVE WorkInv'
  <2>1. work' = work /\ tid' = tid
    BY <1>7 DEF YieldOutput, EnterFinally, Finalize, engine
  <2>2. \A u \in Turns : task[u] \notin {"none", "new"} => task'[u] \notin {"none", "new"}
    <3>1. \A u \in Turns : u # t => task'[u] = task[u]
      BY ZenonT(40), <1>7 DEF YieldOutput, EnterFinally, Finalize, TypeOK
    <3>2. task'[t] \in {"run", "ending", "done"}
      BY <1>7 DEF YieldOutput, EnterFinally, Finalize, TypeOK
    <3> QED
      BY Zenon, <3>1, <3>2
  <2> QED
    BY Zenon, <1>1, <2>1, <2>2
<1>8. ASSUME work' \subseteq work, tid' = tid, task' = task PROVE WorkInv'
  BY Zenon, <1>1, <1>8
<1> QED
  BY Zenon, <1>3, <1>4, <1>5, <1>6, <1>7, <1>8
     DEF Next, Tick, PutAudio, Poll, SendItem, Disconnect, Harvest, StageError,
         StageDrop, vars, engine, turnState

(* Phases of turns whose queues and requests a step does not add to. *)
LEMMA PhaseKept ==
  ASSUME NEW t \in Turns, PhaseOf(t),
         inbox'[t] = inbox[t], recv'[t] = recv[t], Pend(t)' \subseteq Pend(t),
         task'[t] \in {"none", "new"} => task[t] \in {"none", "new"}
  PROVE  PhaseOf(t)'
<1> DEFINE P == Pend(t)
           Q == Pend(t)'
<1>1. Q \subseteq P
  BY Zenon
<1>2. \A i \in 1..Len(inbox[t]) :
       IF inbox[t][i].stage < 2
       THEN Len(inbox[t]) = 1 /\ recv[t] = 0 /\ P = {}
       ELSE recv[t] + i <= inbox[t][i].i
  BY Zenon DEF PhaseOf
<1>3. \A r \in P :
       IF r.stage < 2 THEN inbox[t] = <<>> /\ recv[t] = 0 /\ P = {r}
       ELSE recv[t] + Len(inbox[t]) < r.i
  BY Zenon DEF PhaseOf
<1>4. task[t] \in {"none", "new"} => inbox[t] = <<>> /\ recv[t] = 0
  BY Zenon DEF PhaseOf
<1> HIDE DEF P, Q
<1>5. \A i \in 1..Len(inbox[t]) :
       IF inbox[t][i].stage < 2
       THEN Len(inbox[t]) = 1 /\ recv[t] = 0 /\ Q = {}
       ELSE recv[t] + i <= inbox[t][i].i
  BY Zenon, <1>1, <1>2
<1>6. \A r \in Q :
       IF r.stage < 2 THEN inbox[t] = <<>> /\ recv[t] = 0 /\ Q = {r}
       ELSE recv[t] + Len(inbox[t]) < r.i
  BY Zenon, <1>1, <1>3
<1> QED
  BY Zenon, <1>4, <1>5, <1>6 DEF PhaseOf, Q

(* Requests of turn t take nothing from what waits for another turn. *)
LEMMA PendOther ==
  ASSUME NEW t \in Turns, NEW u \in Turns, u # t, NEW rids,
         work' = work \cup rids,
         \A p \in routes' : (p \in routes /\ p.rid \notin rids) \/ p.to = t
  PROVE  Pend(u)' \subseteq Pend(u)
<1> SUFFICES ASSUME NEW r \in work', [rid |-> r, to |-> u] \in routes'
             PROVE  r \in work /\ [rid |-> r, to |-> u] \in routes
  BY Zenon DEF Pend
<1>1. [rid |-> r, to |-> u].rid = r /\ [rid |-> r, to |-> u].to = u
  BY Zenon
<1> QED
  BY Zenon, <1>1

(* What a worker adds to the requests of its own turn. *)
LEMMA PendMine ==
  ASSUME NEW t \in Turns, NEW rids,
         work' = work \cup rids, Pend(t) = {},
         \A p \in routes' : p \in routes \/ (p.to = t /\ p.rid \in rids)
  PROVE  Pend(t)' \subseteq rids
<1> SUFFICES ASSUME NEW r \in work', [rid |-> r, to |-> t] \in routes'
             PROVE  r \in rids
  BY Zenon DEF Pend
<1>1. [rid |-> r, to |-> t].rid = r
  BY Zenon
<1> QED
  BY Zenon, <1>1 DEF Pend

LEMMA PendFewer ==
  ASSUME NEW t \in Turns, work' \subseteq work, routes' \subseteq routes
  PROVE  Pend(t)' \subseteq Pend(t)
BY DEF Pend

(* What comes back to a turn carries its id, and the task is at work. *)
LEMMA PendTyped ==
  ASSUME TypeOK, RouteInv, NEW t \in Turns, NEW r \in Pend(t)
  PROVE  /\ r \in Requests /\ r \in work /\ [rid |-> r, to |-> t] \in routes
         /\ r.id = tid[t] /\ task[t] \in {"run", "cancelled", "ending"}
<1>1. r \in work /\ [rid |-> r, to |-> t] \in routes
  BY Zenon DEF Pend
<1>2. [rid |-> r, to |-> t].rid = r /\ [rid |-> r, to |-> t].to = t
  BY Zenon
<1> QED
  BY Zenon, <1>1, <1>2 DEF RouteInv, TypeOK

(* A worker takes its turn from one phase to the next. *)
LEMMA PhaseWorker ==
  ASSUME GInv, NEW t \in Turns, TurnWorker(t)
  PROVE  PhaseInv'
<1> USE Constants, TurnPair DEF GInv
<1> TypeOK /\ TaskInv /\ RouteInv /\ PhaseOf(t)
  BY Zenon DEF PhaseInv
<1>1. inbox[t] \in Seq(Requests) /\ inbox[t] # <<>> /\ recv[t] \in Nat
  <2>1. inbox[t] # <<>>
    BY Zenon DEF TurnWorker, Worker0to1, Worker1to2, Worker2toServer
  <2>2. inbox[t] \in Seq(Requests) /\ recv[t] \in 0..Chunks
    BY Zenon DEF TypeOK
  <2> QED
    BY <2>1, <2>2
<1> DEFINE q == inbox[t]
<1>2. /\ Head(q) = q[1] /\ 1 \in 1..Len(q) /\ Len(q) \in Nat /\ q[1] \in Requests
      /\ Len(Tail(q)) = Len(q) - 1
      /\ \A i \in 1..Len(Tail(q)) : Tail(q)[i] = q[i+1] /\ i+1 \in 1..Len(q)
      /\ \A i \in 1..Len(q) : q[i] \in Requests
      /\ Len(q) = 1 => Tail(q) = <<>>
  BY SMT, SMTT(20), <1>1
<1>3. inbox' = [inbox EXCEPT ![t] = Tail(@)] /\ task' = task /\ task[t] \in {"run", "cancelled"}
  BY Zenon DEF TurnWorker
<1>4. inbox'[t] = Tail(q) /\ \A u \in Turns : u # t => inbox'[u] = inbox[u]
  BY <1>3 DEF TypeOK
<1>5. CASE Worker0to1(t)
  <2> DEFINE r == Rid(tid[t], 1, 0)
  <2>1. /\ routes' = {p \in routes : p.rid \notin {r}} \cup {[rid |-> x, to |-> t] : x \in {r}}
        /\ work' = work \cup {r} /\ recv' = recv /\ q[1].stage = 0
    BY Zenon, <1>2, <1>5 DEF Worker0to1, Request
  <2>2. r.stage = 1
    BY Zenon DEF Rid
  <2> HIDE DEF r
  <2>3. Len(q) = 1 /\ recv[t] = 0 /\ Pend(t) = {}
    BY <1>2, <2>1 DEF PhaseOf
  <2>4. Pend(t)' \subseteq {r}
    <3>1. \A p \in routes' : p \in routes \/ (p.to = t /\ p.rid \in {r})
      BY <2>1
    <3>2. work' = work \cup {r}
      BY Zenon, <2>1
    <3> QED
      BY Zenon, <2>3, <3>1, <3>2, PendMine
  <2>5. \A u \in Turns : u # t => Pend(u)' \subseteq Pend(u)
    <3>1. \A p \in routes' : (p \in routes /\ p.rid \notin {r}) \/ p.to = t
      BY <2>1
    <3>2. work' = work \cup {r}
      BY Zenon, <2>1
    <3> QED
      BY Zenon, <3>1, <3>2, PendOther
  <2>6. inbox'[t] = <<>>
    BY Zenon, <1>2, <1>4, <2>3
  <2>7. PhaseOf(t)'
    BY <1>3, <2>1, <2>2, <2>3, <2>4, <2>6 DEF PhaseOf
  <2> QED
    BY Zenon, <1>3, <1>4, <2>1, <2>5, <2>7, PhaseKept DEF PhaseInv
<1>6. CASE Worker1to2(t)
  <2> DEFINE rids == {Rid(tid[t], 2, i) : i \in 1..Chunks}
  <2>1. /\ routes' = {p \in routes : p.rid.stage # 1 /\ p.rid \notin rids} \cup {[rid |-> x, to |-> t] : x \in rids}
        /\ work' = work \cup rids /\ recv' = recv /\ q[1].stage = 1
    BY Zenon, <1>2, <1>6 DEF Worker1to2
  <2>2. \A r \in rids : r.stage = 2 /\ r.i \in 1..Chunks
    BY DEF Rid
  <2> HIDE DEF rids
  <2>3. Len(q) = 1 /\ recv[t] = 0 /\ Pend(t) = {}
    BY <1>2, <2>1 DEF PhaseOf
  <2>4. Pend(t)' \subseteq rids
    BY <2>1, <2>3, PendMine
  <2>5. \A u \in Turns : u # t => Pend(u)' \subseteq Pend(u)
    BY <2>1, PendOther
  <2>6. inbox'[t] = <<>>
    BY Zenon, <1>2, <1>4, <2>3
  <2>7. PhaseOf(t)'
    BY <1>3, <2>1, <2>2, <2>3, <2>4, <2>6 DEF PhaseOf
  <2> QED
    BY Zenon, <1>3, <1>4, <2>1, <2>5, <2>7, PhaseKept DEF PhaseInv
<1>7. CASE Worker2toServer(t)
  <2>1. routes' = routes /\ work' = work /\ recv' = [recv EXCEPT ![t] = @ + 1] /\ q[1].stage = 2
    BY Zenon, <1>2, <1>7 DEF Worker2toServer
  <2>2. \A u \in Turns : Pend(u)' = Pend(u)
    BY Zenon, <2>1 DEF Pend
  <2>3. recv'[t] = recv[t] + 1 /\ \A u \in Turns : u # t => recv'[u] = recv[u]
    BY <2>1 DEF TypeOK
  <2>4. \A i \in 1..Len(q) : q[i].stage >= 2
    BY SMT, SMTT(20), <1>2, <2>1 DEF PhaseOf, Requests
  <2>5. \A i \in 1..Len(q) : recv[t] + i <= q[i].i
    BY <1>2, <2>4 DEF PhaseOf, Requests
  <2>6. \A r \in Pend(t) : r \in Requests /\ r.stage >= 2 /\ recv[t] + Len(q) < r.i
    <3> SUFFICES ASSUME NEW r \in Pend(t) PROVE r \in Requests /\ r.stage >= 2 /\ recv[t] + Len(q) < r.i
      BY Zenon
    <3>1. r \in Requests
      BY Zenon, PendTyped
    <3>2. ~(r.stage < 2)
      BY Zenon, <1>1 DEF PhaseOf
    <3> QED
      BY <3>1, <3>2 DEF PhaseOf, Requests
  <2>7. \A i \in 1..Len(inbox'[t]) : inbox'[t][i].stage >= 2 /\ recv'[t] + i <= inbox'[t][i].i
    <3> SUFFICES ASSUME NEW i \in 1..Len(Tail(q))
                 PROVE  Tail(q)[i].stage >= 2 /\ recv[t] + 1 + i <= Tail(q)[i].i
      BY Zenon, <1>4, <2>3
    <3>1. Tail(q)[i] = q[i+1] /\ i+1 \in 1..Len(q) /\ q[i+1] \in Requests /\ i \in Nat
      BY <1>2
    <3>2. recv[t] + (i+1) <= q[i+1].i /\ q[i+1].stage >= 2
      BY Zenon, <2>4, <2>5, <3>1
    <3>3. q[i+1].i \in Nat /\ q[i+1].stage \in Nat
      BY SMT, SMTT(20), <3>1 DEF Requests
    <3> DEFINE x == q[i+1]
               c == recv[t]
    <3>4. x.i \in Nat /\ x.stage \in Nat /\ c \in Nat /\ c + (i+1) <= x.i /\ x.stage >= 2 /\ i \in Nat
      BY Zenon, <1>1, <3>1, <3>2, <3>3
    <3>5. Tail(q)[i] = x
      BY Zenon, <3>1
    <3> HIDE DEF x, c
    <3>6. x.stage >= 2 /\ c + 1 + i <= x.i
      BY <3>4
    <3> QED
      BY Zenon, <3>5, <3>6 DEF c
  <2>8. \A r \in Pend(t)' : r.stage >= 2 /\ recv'[t] + Len(inbox'[t]) < r.i
    <3>1. recv'[t] + Len(inbox'[t]) = recv[t] + Len(q)
      <4> DEFINE c == recv[t]
                 n == Len(q)
      <4>1. c \in Nat /\ n \in Nat /\ recv'[t] = c + 1 /\ Len(inbox'[t]) = n - 1
        BY <1>1, <1>2, <1>4, <2>3
      <4> HIDE DEF c, n
      <4>2. recv'[t] + Len(inbox'[t]) = c + n
        BY <4>1
      <4> QED
        BY Zenon, <4>2 DEF c, n
    <3> QED
      BY Zenon, <2>2, <2>6, <3>1
  <2>9. \A i \in 1..Len(inbox'[t]) : inbox'[t][i] \in Requests
    BY <1>2, <1>4
  <2>10. PhaseOf(t)'
    <3>1. \A i \in 1..Len(inbox'[t]) : ~(inbox'[t][i].stage < 2)
      BY <2>7, <2>9 DEF Requests
    <3>2. \A r \in Pend(t)' : ~(r.stage < 2)
      BY <2>2, <2>6 DEF Requests
    <3> QED
      BY Zenon, <1>3, <2>7, <2>8, <3>1, <3>2 DEF PhaseOf
  <2>11. ASSUME NEW u \in Turns, u # t PROVE PhaseOf(u)'
    <3>1. PhaseOf(u)
      BY Zenon DEF PhaseInv
    <3> QED
      BY Zenon, <1>3, <1>4, <2>2, <2>3, <2>11, <3>1, PhaseKept
  <2> QED
    BY Zenon, <2>10, <2>11 DEF PhaseInv
<1> QED
  BY Zenon, <1>5, <1>6, <1>7 DEF TurnWorker

(* A harvested result goes to the inbox in order. *)
LEMMA PhaseHarvest ==
  ASSUME GInv, NEW r \in work, Harvest(r)
  PROVE  PhaseInv'
<1> USE Constants, TurnPair DEF GInv
<1> TypeOK /\ TaskInv /\ RouteInv
  BY Zenon
<1> SUFFICES ASSUME NEW t \in Turns PROVE PhaseOf(t)'
  BY Zenon DEF PhaseInv
<1>0. PhaseOf(t)
  BY Zenon DEF PhaseInv
<1>1. /\ work' = work \ {r} /\ routes' = routes /\ recv' = recv /\ task' = task
      /\ inbox'[t] = IF [rid |-> r, to |-> t] \in routes THEN Append(inbox[t], r) ELSE inbox[t]
  BY Zenon DEF Harvest
<1>2. Pend(t)' = Pend(t) \ {r}
  BY Zenon, <1>1 DEF Pend
<1>3. CASE r \notin Pend(t)
  <2>1. inbox'[t] = inbox[t]
    BY Zenon, <1>1, <1>3 DEF Pend
  <2> QED
    BY Zenon, <1>0, <1>1, <1>2, <2>1, PhaseKept
<1>4. CASE r \in Pend(t)
  <2> DEFINE q == inbox[t]
  <2>1. /\ r \in Requests /\ r.id = tid[t] /\ task[t] \in {"run", "cancelled", "ending"}
        /\ [rid |-> r, to |-> t] \in routes
    BY Zenon, <1>4, PendTyped
  <2>2. q \in Seq(Requests) /\ recv[t] \in Nat /\ inbox'[t] = Append(q, r)
    BY <1>1, <2>1 DEF TypeOK
  <2>3. /\ Len(Append(q, r)) = Len(q) + 1 /\ Len(q) \in Nat
        /\ \A i \in 1..Len(q) : Append(q, r)[i] = q[i] /\ q[i] \in Requests
        /\ Append(q, r)[Len(q) + 1] = r
    BY <2>1, <2>2
  <2>4. CASE r.stage < 2
    <3>1. q = <<>> /\ recv[t] = 0 /\ Pend(t) = {r}
      BY <1>0, <1>4, <2>4 DEF PhaseOf
    <3>2. Pend(t)' = {} /\ Len(inbox'[t]) = 1 /\ recv'[t] = 0
      <4>1. Pend(t)' = {}
        BY Zenon, <1>2, <3>1
      <4>2. Len(inbox'[t]) = 1
        BY <2>2, <2>3, <3>1
      <4> QED
        BY Zenon, <1>1, <3>1, <4>1, <4>2
    <3>3. \A i \in 1..Len(inbox'[t]) : inbox'[t][i].stage < 2
      BY <2>2, <2>3, <2>4, <3>1, <3>2
    <3> QED
      BY Zenon, <1>1, <2>1, <3>2, <3>3 DEF PhaseOf
  <2>5. CASE ~(r.stage < 2)
    <3>1. recv[t] + Len(q) < r.i
      BY <1>0, <1>4, <2>5 DEF PhaseOf
    <3>2. \A x \in Pend(t) : ~(x.stage < 2)
      BY <1>0, <1>4, <2>5 DEF PhaseOf
    <3>3. \A i \in 1..Len(q) : ~(q[i].stage < 2) /\ recv[t] + i <= q[i].i
      BY Zenon, <1>0, <1>4 DEF PhaseOf
    <3>4. \A i \in 1..Len(inbox'[t]) :
            ~(inbox'[t][i].stage < 2) /\ recv'[t] + i <= inbox'[t][i].i
      <4> SUFFICES ASSUME NEW i \in 1..Len(q)+1
                   PROVE  ~(Append(q, r)[i].stage < 2) /\ recv[t] + i <= Append(q, r)[i].i
        BY Zenon, <1>1, <2>2, <2>3
      <4>1. CASE i \in 1..Len(q)
        BY Zenon, <2>3, <3>3, <4>1
      <4>2. CASE i = Len(q) + 1
        BY SMT, SMTT(20), <2>1, <2>2, <2>3, <2>5, <3>1, <4>2 DEF Requests
      <4> QED
        BY <2>3, <4>1, <4>2
    <3>5. \A x \in Pend(t)' : ~(x.stage < 2) /\ recv'[t] + Len(inbox'[t]) < x.i
      <4> SUFFICES ASSUME NEW x \in Pend(t), x # r
                   PROVE  recv[t] + (Len(q) + 1) < x.i
        BY Zenon, <1>1, <1>2, <2>2, <2>3, <3>2
      <4>1. x \in Requests /\ x.id = tid[t] /\ x \in work
        BY Zenon, PendTyped
      <4>2. x.stage = 2 /\ r.stage = 2
        BY <2>1, <2>5, <3>2, <4>1 DEF Requests
      <4>3. r.i <= x.i
        BY Zenon, <2>1, <4>1, <4>2 DEF Harvest, Oldest
      <4>4. r.i # x.i
        BY <2>1, <4>1, <4>2 DEF Requests
      <4>5. r.i \in Nat /\ x.i \in Nat
        BY <2>1, <4>1 DEF Requests
      <4> QED
        <5> HIDE DEF q
        <5>1. r.i < x.i
          BY <4>3, <4>4, <4>5
        <5> QED
          BY <2>2, <2>3, <3>1, <4>5, <5>1
    <3> QED
      BY Zenon, <1>1, <2>1, <3>4, <3>5 DEF PhaseOf
  <2> QED
    BY Zenon, <2>4, <2>5
<1> QED
  BY <1>3, <1>4

(* Every operation keeps the phases. *)
LEMMA PhaseStep ==
  ASSUME GInv, [Next]_vars
  PROVE  PhaseInv'
<1> USE Constants, TurnPair DEF GInv
<1> TypeOK /\ TaskInv /\ RouteInv /\ PhaseInv
  BY Zenon
<1>1. ASSUME routes' \subseteq routes, work' \subseteq work, inbox' = inbox, recv' = recv,
             \A t \in Turns : task'[t] \in {"none", "new"} => task[t] \in {"none", "new"}
      PROVE  PhaseInv'
  <2> SUFFICES ASSUME NEW t \in Turns PROVE PhaseOf(t)'
    BY Zenon DEF PhaseInv
  <2>1. PhaseOf(t) /\ Pend(t)' \subseteq Pend(t)
    BY Zenon, <1>1, PendFewer DEF PhaseInv
  <2> QED
    BY Zenon, <1>1, <2>1, PhaseKept
<1>2. ASSUME NEW s \in Sessions, EndOfUtterance(s) PROVE PhaseInv'
  <2> DEFINE t == <<s, created[s] + 1>>
  <2>1. created[s] \in 0..MaxTurns /\ created[s] < MaxTurns
    BY Zenon, <1>2 DEF EndOfUtterance, TypeOK
  <2>2. t \in Turns /\ task[t] = "none"
    BY <2>1 DEF TaskInv
  <2>3. /\ task' = [task EXCEPT ![t] = "new"]
        /\ work' = work /\ routes' = routes /\ inbox' = inbox /\ recv' = recv
    BY Zenon, <1>2 DEF EndOfUtterance
  <2> HIDE DEF t
  <2> QED
    BY Zenon, <1>1, <2>2, <2>3 DEF TypeOK
<1>3. ASSUME NEW s \in Sessions, BargeIn(s) PROVE PhaseInv'
  <2>1. \A u \in Turns : task'[u] \in {"none", "new"} => task[u] \in {"none", "new"}
    <3> SUFFICES ASSUME NEW u \in Turns, task[u] \notin {"none", "new"}
                 PROVE  task'[u] \notin {"none", "new"}
      BY Zenon
    <3>1. task[u] \in {"run", "cancelled", "ending", "done"}
      BY DEF TypeOK
    <3> QED
      BY Zenon, <1>3, <3>1, BargeInTask
  <2>2. routes' \subseteq routes /\ work' = work /\ inbox' = inbox /\ recv' = recv
    BY Zenon, <1>3 DEF BargeIn
  <2> QED
    BY Zenon, <1>1, <2>1, <2>2
<1>4. ASSUME NEW t \in Turns, BeginTurn(t) PROVE PhaseInv'
  <2> DEFINE r == Rid(tid[t], 0, 0)
  <2>1. /\ routes' = {p \in routes : p.rid \notin {r}} \cup {[rid |-> x, to |-> t] : x \in {r}}
        /\ work' = work \cup {r} /\ recv' = recv /\ inbox' = inbox
        /\ task' = [task EXCEPT ![t] = "run"] /\ task[t] = "new"
    BY Zenon, <1>4 DEF BeginTurn, Request
  <2>2. r.stage = 0
    BY Zenon DEF Rid
  <2> HIDE DEF r
  <2>3. Pend(t) = {}
    BY Zenon, <2>1, PendTyped
  <2>4. Pend(t)' \subseteq {r}
    <3>1. \A p \in routes' : p \in routes \/ (p.to = t /\ p.rid \in {r})
      BY <2>1
    <3>2. work' = work \cup {r}
      BY Zenon, <2>1
    <3> QED
      BY Zenon, <2>3, <3>1, <3>2, PendMine
  <2>5. \A u \in Turns : u # t => Pend(u)' \subseteq Pend(u)
    <3>1. \A p \in routes' : (p \in routes /\ p.rid \notin {r}) \/ p.to = t
      BY <2>1
    <3>2. work' = work \cup {r}
      BY Zenon, <2>1
    <3> QED
      BY Zenon, <3>1, <3>2, PendOther
  <2>6. inbox[t] = <<>> /\ recv[t] = 0 /\ task'[t] = "run"
    BY <2>1 DEF PhaseInv, PhaseOf, TypeOK
  <2>7. PhaseOf(t)'
    BY <2>1, <2>2, <2>4, <2>6 DEF PhaseOf
  <2>8. ASSUME NEW u \in Turns, u # t PROVE PhaseOf(u)'
    <3>1. PhaseOf(u) /\ task'[u] = task[u]
      BY Zenon, <2>1, <2>8 DEF PhaseInv, TypeOK
    <3> QED
      BY Zenon, <2>1, <2>5, <2>8, <3>1, PhaseKept
  <2> QED
    BY Zenon, <2>7, <2>8 DEF PhaseInv
<1>5. ASSUME NEW t \in Turns, YieldOutput(t) \/ EnterFinally(t) PROVE PhaseInv'
  <2>1. \A u \in Turns : task'[u] \in {"none", "new"} => task[u] \in {"none", "new"}
    BY Zenon, <1>5 DEF YieldOutput, EnterFinally, TypeOK
  <2>2. routes' = routes /\ work' = work /\ inbox' = inbox /\ recv' = recv
    BY Zenon, <1>5 DEF YieldOutput, EnterFinally
  <2> QED
    BY Zenon, <1>1, <2>1, <2>2
<1>6. ASSUME NEW t \in Turns, Finalize(t) PROVE PhaseInv'
  <2>1. /\ routes' = {p \in routes : p.rid.id # tid[t]} /\ work' = work /\ recv' = recv
        /\ inbox' = [inbox EXCEPT ![t] = <<>>] /\ task' = [task EXCEPT ![t] = "done"]
    BY Zenon, <1>6 DEF Finalize, RoutesWithout
  <2>2. \A u \in Turns : Pend(u)' \subseteq Pend(u)
    BY Zenon, <2>1, PendFewer
  <2>3. Pend(t)' = {}
    <3> SUFFICES ASSUME NEW r \in Pend(t)' PROVE FALSE
      BY Zenon
    <3>1. r.id = tid[t]
      BY Zenon, <2>2, PendTyped
    <3>2. [rid |-> r, to |-> t] \in routes' /\ [rid |-> r, to |-> t].rid = r
      BY Zenon DEF Pend
    <3> QED
      BY <2>1, <3>1, <3>2
  <2>4. inbox'[t] = <<>> /\ task'[t] = "done"
    BY <2>1 DEF TypeOK
  <2>5. PhaseOf(t)'
    BY <2>3, <2>4 DEF PhaseOf
  <2>6. ASSUME NEW u \in Turns, u # t PROVE PhaseOf(u)'
    <3>1. PhaseOf(u) /\ task'[u] = task[u] /\ inbox'[u] = inbox[u]
      BY <2>1, <2>6 DEF PhaseInv, TypeOK
    <3> QED
      BY Zenon, <2>1, <2>2, <3>1, PhaseKept
  <2> QED
    BY Zenon, <2>5, <2>6 DEF PhaseInv
<1>7. ASSUME routes' = routes, work' \subseteq work, inbox' = inbox, recv' = recv, task' = task
      PROVE  PhaseInv'
  BY Zenon, <1>1, <1>7
<1> QED
  BY Zenon, <1>2, <1>3, <1>4, <1>5, <1>6, <1>7, PhaseWorker, PhaseHarvest
     DEF Next, Tick, PutAudio, Poll, SendItem, Disconnect, StageError,
         StageDrop, vars, engine, turnState

(* The inductive invariant of the unconditional results. *)
THEOREM GInvariance == Spec => []GInv
<1>1. ASSUME GInv, [Next]_vars PROVE GInv'
  BY Zenon, <1>1, TypeStep, TaskStep, RouteStep, ItemStep, PhaseStep, WorkStep DEF GInv
<1> QED
  BY InitGInv, <1>1, PTL DEF Spec

(* Every variable stays in its type: in particular stg2_recv_count never   *)
(* passes the number of chunks, although results of a turn keep coming     *)
(* while its task is being cancelled.                                      *)
THEOREM Typed == Spec => []TypeOK
BY GInvariance, PTL DEF GInv

(* No request_states entry outlives its turn: when the finally clause of   *)
(* generate_realtime_final has run, whatever interrupted it, the engine    *)
(* routes nothing to the finished task. Two turns may even have the same   *)
(* id.                                                                     *)
THEOREM NoLeak == Spec => []NoRouteLeak
<1>1. GInv => NoRouteLeak
  BY Zenon DEF GInv, RouteInv, NoRouteLeak
<1> QED
  BY GInvariance, <1>1, PTL

(* After a barge-in the client hears nothing more of the turn it           *)
(* interrupted: the tasks that cleanup_for_barge_in cancels put no output  *)
(* in the result queue that it has emptied.                                *)
THEOREM Silence == Spec => SilentAfterBargeIn
<1> DEFINE A == \A s \in Sessions : \A i \in Len(down[s]) + 1 .. Len(down'[s]) :
                  down'[s][i].turn \notin interrupted
<1>1. ASSUME GInv, Next PROVE A
  <2>1. CASE down' = down
    <3>1. \A s \in Sessions : Len(down[s]) \in Nat
      BY <1>1 DEF GInv, TaskInv
    <3> QED
      BY <2>1, <3>1
  <2>2. ASSUME NEW a \in Sessions, SendItem(a) PROVE A
    <3> SUFFICES ASSUME NEW s \in Sessions, NEW i \in Len(down[s]) + 1 .. Len(down'[s])
                 PROVE  down'[s][i].turn \notin interrupted
      BY Zenon
    <3>1. CASE s = a
      <4>1. down'[a][i].turn = resultQ[a][1].turn /\ resultQ[a][1].turn \notin interrupted
        BY Zenon, <1>1, <2>2, <3>1, SentTo DEF GInv
      <4> QED
        BY Zenon, <3>1, <4>1
    <3>2. CASE s # a
      <4>1. down'[s] = down[s] /\ Len(down[s]) \in Nat
        BY <1>1, <2>2, <3>2, SentTo DEF GInv, TaskInv
      <4> QED
        BY <4>1
    <3> QED
      BY Zenon, <3>1, <3>2
  <2> HIDE DEF A
  <2> QED
    BY Zenon, <1>1, <2>1, <2>2
       DEF Next, Tick, PutAudio, EndOfUtterance, BargeIn, Poll, Disconnect, BeginTurn,
           TurnWorker, YieldOutput, EnterFinally, Finalize, Harvest, StageError, StageDrop,
           endpoint
<1>2. GInv /\ [Next]_vars => [A]_vars
  BY Zenon, <1>1
<1> QED
  BY GInvariance, <1>2, PTL DEF Spec, SilentAfterBargeIn

-----------------------------------------------------------------------------
(* A session that starts no turn before it has let go of the last one has  *)
(* one task that is new or runs, and while it runs no task that was        *)
(* cancelled still has its finally clause to enter.                        *)
SoloInv ==
  \A t, u \in Turns : t # u /\ t[1] = u[1] =>
    /\ task[t] \in {"new", "run"} => task[u] \notin {"new", "run"}
    /\ task[t] = "run" => task[u] # "cancelled"

(* The task that is new or runs is that of the last turn created. *)
LatestInv == \A t \in Turns : task[t] \in {"new", "run"} => t[2] = created[t[1]]

SerialInv == GInv /\ SoloInv /\ LatestInv

(* Where turns do not overlap, none is new or runs when the next is made. *)
LEMMA SettledIdle ==
  ASSUME GInv, ~Overlap, NEW s \in Sessions, EndOfUtterance(s), NEW u \in Turns, u[1] = s
  PROVE  task[u] \notin {"new", "run"}
<1> USE Constants, TurnPair DEF GInv
<1>1. CASE u[2] > created[s]
  BY Zenon, <1>1 DEF TaskInv
<1>2. CASE ~(u[2] > created[s])
  <2>1. u = <<s, u[2]>> /\ u[2] \in 1..created[s]
    BY <1>2 DEF TypeOK
  <2>2. Settled(<<s, u[2]>>)
    BY Zenon, <2>1 DEF EndOfUtterance
  <2>3. Settled(u)
    BY Zenon, <2>1, <2>2
  <2> QED
    BY Zenon, <2>3 DEF Settled, TaskInv
<1> QED
  BY Zenon, <1>1, <1>2

(* Every operation keeps the turns of a session apart. *)
LEMMA SerialStep ==
  ASSUME SerialInv, ~Overlap, [Next]_vars
  PROVE  SoloInv' /\ LatestInv'
<1> USE Constants, TurnPair DEF SerialInv
<1> GInv /\ TypeOK /\ TaskInv /\ SoloInv /\ LatestInv
  BY Zenon DEF GInv
<1>1. ASSUME created' = created,
             \A t \in Turns :
               /\ task'[t] \in {"new", "run"} => task[t] = task'[t]
               /\ task'[t] = "cancelled" => task[t] = task'[t]
      PROVE  SoloInv' /\ LatestInv'
  BY <1>1 DEF SoloInv, LatestInv
<1>2. ASSUME NEW s \in Sessions, EndOfUtterance(s) PROVE SoloInv' /\ LatestInv'
  <2> DEFINE t == <<s, created[s] + 1>>
  <2>1. created[s] \in 0..MaxTurns /\ created[s] < MaxTurns
    BY Zenon, <1>2 DEF EndOfUtterance, TypeOK
  <2>2. t \in Turns /\ t[1] = s /\ t[2] = created[s] + 1
    BY <2>1
  <2>3. task' = [task EXCEPT ![t] = "new"] /\ created' = [created EXCEPT ![s] = @ + 1]
    BY Zenon, <1>2 DEF EndOfUtterance
  <2> HIDE DEF t
  <2>4. task'[t] = "new" /\ \A u \in Turns : u # t => task'[u] = task[u]
    BY <2>2, <2>3 DEF TypeOK
  <2>5. \A u \in Turns : u[1] = s => task[u] \notin {"new", "run"}
    BY Zenon, <1>2, SettledIdle
  <2>6. created'[s] = created[s] + 1 /\ \A a \in Sessions : a # s => created'[a] = created[a]
    BY <2>3 DEF TypeOK
  <2>7. SoloInv'
    BY <2>2, <2>4, <2>5 DEF SoloInv
  <2>8. LatestInv'
    BY <2>2, <2>4, <2>5, <2>6 DEF LatestInv
  <2> QED
    BY Zenon, <2>7, <2>8
<1>3. ASSUME NEW s \in Sessions, BargeIn(s) PROVE SoloInv' /\ LatestInv'
  <2>1. created' = created
    BY Zenon, <1>3 DEF BargeIn
  <2>2. ASSUME NEW u \in Turns
        PROVE  /\ task'[u] \in {"new", "run"} => task[u] = task'[u] /\ u[1] # s
               /\ u[1] # s => task'[u] = task[u]
    <3>1. task[u] \in {"new", "run"} /\ u[1] = s => u \in owned[s]
      BY Zenon DEF TaskInv
    <3>2. task[u] \in {"none", "new", "run", "cancelled", "ending", "done"}
      BY Zenon DEF TypeOK
    <3>3. u \in owned[s] => u[1] = s
      BY Zenon DEF TypeOK
    <3> QED
      BY Zenon, <1>3, <3>1, <3>2, <3>3, BargeInTask
  <2>3. SoloInv'
    BY <2>2 DEF SoloInv
  <2>4. LatestInv'
    BY Zenon, <2>1, <2>2 DEF LatestInv
  <2> QED
    BY Zenon, <2>3, <2>4
<1>4. ASSUME NEW t \in Turns, BeginTurn(t) PROVE SoloInv' /\ LatestInv'
  <2>1. task[t] = "new" /\ \A u \in Turns : u[1] = t[1] => task[u] # "cancelled"
    BY Zenon, <1>4 DEF BeginTurn
  <2>2. created' = created /\ task'[t] = "run" /\ \A u \in Turns : u # t => task'[u] = task[u]
    BY <1>4 DEF BeginTurn, engine, TypeOK
  <2>3. SoloInv'
    BY <2>1, <2>2 DEF SoloInv
  <2>4. LatestInv'
    BY Zenon, <2>1, <2>2 DEF LatestInv
  <2> QED
    BY Zenon, <2>3, <2>4
<1>5. ASSUME NEW t \in Turns, YieldOutput(t) \/ EnterFinally(t) \/ Finalize(t)
      PROVE SoloInv' /\ LatestInv'
  <2>1. created' = created
    BY Zenon, <1>5 DEF YieldOutput, EnterFinally, Finalize, engine
  <2>2. \A u \in Turns : u # t => task'[u] = task[u]
    BY ZenonT(40), <1>5 DEF YieldOutput, EnterFinally, Finalize, TypeOK
  <2>3. task'[t] = task[t] \/ task'[t] \in {"ending", "done"}
    BY <1>5 DEF YieldOutput, EnterFinally, Finalize, TypeOK
  <2> QED
    BY Zenon, <1>1, <2>1, <2>2, <2>3
<1>6. ASSUME created' = created, task' = task PROVE SoloInv' /\ LatestInv'
  BY Zenon, <1>1, <1>6
<1> QED
  BY Zenon, <1>2, <1>3, <1>4, <1>5, <1>6
     DEF Next, Tick, PutAudio, Poll, SendItem, Disconnect, TurnWorker, Harvest, StageError,
         StageDrop, vars, engine, turnState

LEMMA InitSerial == Init => SoloInv /\ LatestInv
BY Zenon DEF Init, SoloInv, LatestInv

(* Ids that are distinct after a step were so before: ids stay. *)
LEMMA DistinctBefore ==
  ASSUME GInv, [Next]_vars, Distinct'
  PROVE  Distinct
<1> USE Constants, TurnPair
<1> TypeOK /\ TaskInv
  BY Zenon DEF GInv
<1>1. CASE tid' = tid
  BY Zenon, <1>1 DEF Distinct
<1>2. ASSUME NEW s \in Sessions, EndOfUtterance(s) PROVE Distinct
  <2> DEFINE t == <<s, created[s] + 1>>
  <2>1. created[s] \in 0..MaxTurns /\ created[s] < MaxTurns
    BY Zenon, <1>2 DEF EndOfUtterance, TypeOK
  <2>2. t \in Turns /\ tid[t] = NoTid
    BY <2>1 DEF TaskInv
  <2>3. tid' = [tid EXCEPT ![t] = [s |-> s, at |-> clock]]
    BY Zenon, <1>2 DEF EndOfUtterance
  <2> HIDE DEF t
  <2>4. \A u \in Turns : u # t => tid'[u] = tid[u]
    BY Zenon, <2>3 DEF TypeOK
  <2> QED
    BY Zenon, <2>2, <2>4 DEF Distinct
<1> QED
  BY Zenon, <1>1, <1>2
     DEF Next, Tick, PutAudio, BargeIn, Poll, SendItem, Disconnect, BeginTurn, TurnWorker,
         YieldOutput, EnterFinally, Finalize, Harvest, StageError, StageDrop, vars, engine

(* With one session and no overlap every request of a running turn is in   *)
(* request_states until it comes back: only the finally clause of its own  *)
(* turn takes it out.                                                      *)
LEMMA RoutedStep ==
  ASSUME OneSession, ~Overlap, SerialInv, PendingRouted, [Next]_vars
  PROVE  PendingRouted'
<1> USE Constants, TurnPair DEF SerialInv
<1> GInv /\ TypeOK /\ TaskInv /\ RouteInv /\ PhaseInv /\ WorkInv /\ SoloInv
  BY Zenon DEF GInv
<1> SUFFICES ASSUME Distinct', NEW r \in work', NEW t \in Turns,
                    tid'[t] = r.id, task'[t] = "run"
             PROVE  [rid |-> r, to |-> t] \in routes'
  BY Zenon DEF PendingRouted
<1>1. Distinct
  BY Zenon, DistinctBefore
<1>2. ASSUME r \in work, tid[t] = r.id, task[t] = "run" PROVE [rid |-> r, to |-> t] \in routes
  BY Zenon, <1>1, <1>2 DEF PendingRouted
<1>3. \A u \in Turns : u # t /\ task[t] = "run" => task[u] \notin {"new", "run", "cancelled"}
  BY DEF SoloInv, OneSession
<1>4. CASE tid' = tid /\ task' = task /\ routes' = routes /\ work' \subseteq work
  BY Zenon, <1>2, <1>4
<1>5. ASSUME NEW s \in Sessions, EndOfUtterance(s) PROVE [rid |-> r, to |-> t] \in routes'
  <2> DEFINE u == <<s, created[s] + 1>>
  <2>1. /\ tid' = [tid EXCEPT ![u] = [s |-> s, at |-> clock]]
        /\ task' = [task EXCEPT ![u] = "new"] /\ routes' = routes /\ work' = work
    BY Zenon, <1>5 DEF EndOfUtterance
  <2> HIDE DEF u
  <2>2. u # t
    BY <2>1 DEF TypeOK
  <2>3. task[t] = "run" /\ tid[t] = r.id
    BY Zenon, <2>1, <2>2 DEF TypeOK
  <2> QED
    BY Zenon, <1>2, <2>1, <2>3
<1>6. ASSUME NEW s \in Sessions, BargeIn(s) PROVE FALSE
  <2>1. t[1] = s
    BY Zenon DEF OneSession
  <2>2. task[t] = "run" => t \in owned[s]
    BY Zenon, <2>1 DEF TaskInv
  <2>3. task[t] \in {"none", "new", "run", "cancelled", "ending", "done"}
    BY Zenon DEF TypeOK
  <2> QED
    BY Zenon, <1>6, <2>2, <2>3, BargeInTask
<1>7. ASSUME NEW u \in Turns, BeginTurn(u) PROVE [rid |-> r, to |-> t] \in routes'
  <2>1. task[u] = "new" /\ tid' = tid /\ task' = [task EXCEPT ![u] = "run"]
    BY Zenon, <1>7 DEF BeginTurn, engine
  <2>2. u = t
    BY Zenon, <1>3, <2>1 DEF TypeOK
  <2>3. r \notin work
    <3> SUFFICES ASSUME r \in work PROVE FALSE
      BY Zenon
    <3>1. PICK v \in Turns : tid[v] = r.id /\ task[v] \notin {"none", "new"}
      BY Zenon DEF WorkInv
    <3>2. v # t /\ tid[v] = tid[t] /\ tid[v] \in Tids
      BY Zenon, <2>1, <2>2, <3>1 DEF TaskInv
    <3> QED
      BY Zenon, <1>1, <3>2, NoTidNotTid DEF Distinct
  <2>4. r = Rid(tid[t], 0, 0)
    BY Zenon, <1>7, <2>2, <2>3 DEF BeginTurn, Request
  <2> QED
    BY Zenon, <1>7, <2>2, <2>4 DEF BeginTurn, Request
<1>8. ASSUME NEW u \in Turns, TurnWorker(u) PROVE [rid |-> r, to |-> t] \in routes'
  <2>1. task[u] \in {"run", "cancelled"} /\ tid' = tid /\ task' = task
    BY Zenon, <1>8 DEF TurnWorker, engine
  <2>2. u = t
    BY Zenon, <1>3, <2>1
  <2>3. r \in work => r \in Pend(t)
    BY Zenon, <1>2, <2>1 DEF Pend
  <2>4. CASE inbox[t] # <<>> /\ Head(inbox[t]).stage < 2
    <3>1. inbox[t] \in Seq(Requests)
      BY Zenon DEF TypeOK
    <3>2. 1 \in 1..Len(inbox[t]) /\ Head(inbox[t]) = inbox[t][1]
      BY <2>4, <3>1
    <3>3. Pend(t) = {}
      BY Zenon, <2>4, <3>2 DEF PhaseInv, PhaseOf
    <3>4. r \notin work
      BY Zenon, <2>3, <3>3
    <3>5. CASE Worker0to1(t)
      BY Zenon, <3>4, <3>5 DEF Worker0to1, Request
    <3>6. CASE Worker1to2(t)
      <4> DEFINE rids == {Rid(tid[t], 2, i) : i \in 1..Chunks}
      <4>1. /\ routes' = {p \in routes : p.rid.stage # 1 /\ p.rid \notin rids} \cup {[rid |-> x, to |-> t] : x \in rids}
            /\ work' = work \cup rids
        BY Zenon, <3>6 DEF Worker1to2
      <4> HIDE DEF rids
      <4> QED
        BY Zenon, <3>4, <4>1
    <3>7. CASE Worker2toServer(t)
      BY <2>4, <3>7 DEF Worker2toServer
    <3> QED
      BY Zenon, <1>8, <2>2, <3>5, <3>6, <3>7 DEF TurnWorker
  <2>5. CASE Worker2toServer(t)
    BY Zenon, <1>2, <2>1, <2>5 DEF Worker2toServer
  <2> QED
    <3>1. Worker0to1(t) \/ Worker1to2(t) => inbox[t] # <<>> /\ Head(inbox[t]).stage \in {0, 1}
      BY Zenon DEF Worker0to1, Worker1to2
    <3>2. \A n \in {0, 1} : n < 2
      OBVIOUS
    <3> QED
      BY Zenon, <1>8, <2>2, <2>4, <2>5, <3>1, <3>2 DEF TurnWorker
<1>9. ASSUME NEW u \in Turns, YieldOutput(u) \/ EnterFinally(u) PROVE [rid |-> r, to |-> t] \in routes'
  <2>1. task[t] = "run"
    BY Zenon, <1>9 DEF YieldOutput, EnterFinally, TypeOK
  <2>2. routes' = routes /\ work' = work /\ tid' = tid
    BY Zenon, <1>9 DEF YieldOutput, EnterFinally, engine
  <2> QED
    BY Zenon, <1>2, <2>1, <2>2
<1>10. ASSUME NEW u \in Turns, Finalize(u) PROVE [rid |-> r, to |-> t] \in routes'
  <2>1. u # t /\ task[t] = "run" /\ tid' = tid /\ work' = work
    BY Zenon, <1>10 DEF Finalize, TypeOK
  <2>2. tid[t] # tid[u]
    BY Zenon, <1>1, <2>1, NoTidNotTid DEF Distinct, TaskInv
  <2>3. [rid |-> r, to |-> t] \in routes /\ [rid |-> r, to |-> t].rid = r
    BY Zenon, <1>2, <2>1
  <2> QED
    BY Zenon, <1>10, <2>1, <2>2, <2>3 DEF Finalize, RoutesWithout
<1> QED
  BY ZenonT(40), <1>4, <1>5, <1>6, <1>7, <1>8, <1>9, <1>10
     DEF Next, Tick, PutAudio, Poll, SendItem, Disconnect, Harvest, StageError,
         StageDrop, vars, engine, turnState

(* The inductive invariant where turns do not overlap. *)
THEOREM SerialInvariance ==
  ASSUME ~Overlap
  PROVE  Spec => []SerialInv
<1>1. Init => SerialInv
  BY Zenon, InitGInv, InitSerial DEF SerialInv
<1>2. SerialInv /\ [Next]_vars => SerialInv'
  <2>1. ASSUME GInv, [Next]_vars PROVE GInv'
    BY Zenon, <2>1, TypeStep, TaskStep, RouteStep, ItemStep, PhaseStep, WorkStep DEF GInv
  <2> QED
    BY Zenon, <2>1, SerialStep DEF SerialInv
<1> QED
  BY <1>1, <1>2, PTL DEF Spec

(* With one conversation, whose turns do not overlap and whose task ids    *)
(* differ, the engine can route every request it works on for a running    *)
(* turn: stage_harvester finds it in request_states.                       *)
THEOREM Routed ==
  ASSUME OneSession, ~Overlap
  PROVE  Spec => []PendingRouted
<1>1. Init => PendingRouted
  BY Zenon DEF Init, PendingRouted
<1>2. SerialInv /\ PendingRouted /\ [Next]_vars => PendingRouted'
  BY Zenon, RoutedStep
<1>3. Spec => []SerialInv
  BY Zenon, SerialInvariance
<1> QED
  BY <1>1, <1>2, <1>3, PTL DEF Spec

-----------------------------------------------------------------------------
(* The end of a response: the proof that a client is told once per turn,   *)
(* with its last chunk, that the response is over.  It needs the turns of  *)
(* a session apart (SerialInv) and the event loop to keep up with the      *)
(* stages (Prompt), so that the sender that counts the chunks is that of   *)
(* their turn.                                                             *)

(* The audio chunks and the ends of response sent to the client of turn t. *)
Sent(t) == CountOf(t[1], t, "audio", Len(down[t[1]]))
Ends(t) == CountOf(t[1], t, "end_of_response", Len(down[t[1]]))

(* What the workers of turn t put out and the sender has not taken, when t *)
(* is the last turn of its session.                                        *)
Unsent(t) == resultQ[t[1]] \o fin[t]

(* The text of a turn is its first output. *)
Texts(q) == IF q # <<>> /\ q[1].kind = "text" THEN 1 ELSE 0

(* A stream of outputs q after a chunks were sent, n in all: the text      *)
(* comes first, and the chunk that completes the turn says so.             *)
StreamOK(q, a, n) ==
  /\ n = a + Len(q) - Texts(q)
  /\ \A j \in 1..Len(q) :
       /\ q[j].kind = "text" => j = 1 /\ a = 0 /\ ~q[j].last
       /\ q[j].kind = "audio" =>
            /\ q[j].last <=> a + j - Texts(q) = Chunks
            /\ q[j].last => q[j].expected = Chunks

(* Nothing of the turn has come from a stage, but what was sent already. *)
Fresh(t) == inbox[t] = <<>> /\ Unsent(t) = <<>> /\ recv[t] = 0

(* The outputs of the last turn: sent, on their way and still to come. The *)
(* task ends with the last chunk, and what comes from the thinker finds    *)
(* nothing underway.                                                       *)
StreamOf(t) ==
  /\ StreamOK(Unsent(t), Sent(t), recv[t])
  /\ task[t] \in {"ending", "done"} => recv[t] = Chunks /\ fin[t] = <<>>
  /\ \A r \in Pend(t) : r.stage = 0 => Unsent(t) = <<>>
  /\ \A i \in 1..Len(inbox[t]) : inbox[t][i].stage = 0 => Unsent(t) = <<>>

(* Once the endpoint has polled the id of the turn its sender counts the   *)
(* chunks of that turn; and before anything of the turn comes from a stage *)
(* the endpoint has polled it, and the tasks of earlier turns are done.    *)
SenderOf(t) ==
  task[t] # "new" =>
    /\ lastTid[t[1]] = tid[t] => sender[t[1]].on /\ sender[t[1]].recv = Sent(t)
    /\ ~Fresh(t) =>
         /\ lastTid[t[1]] = tid[t]
         /\ \A u \in Turns : u[1] = t[1] /\ u # t =>
              task[u] \notin {"run", "cancelled", "ending"}

(* The turn whose answer the client of an open session waits for. *)
Live(t) == t[2] = created[t[1]] /\ t \notin interrupted /\ t[1] \in open

(* A polled id is that of a task that has begun. *)
LastInv ==
  \A s \in Sessions : lastTid[s] # NoTid =>
    \E t \in Turns : tid[t] = lastTid[s] /\ task[t] \notin {"none", "new"}

(* Result queues hold outputs of the last turn only, and a client has its  *)
(* end of response when, and only when, it is sent the last chunk.         *)
QueueInv ==
  /\ tables = Sessions
  /\ \A s \in Sessions : \A i \in 1..Len(resultQ[s]) : resultQ[s][i].turn = <<s, created[s]>>
  /\ \A t \in Turns :
       /\ task[t] \in {"none", "new"} => fin[t] = <<>> /\ Sent(t) = 0
       /\ task[t] = "new" => resultQ[t[1]] = <<>>
       /\ task[t] = "cancelled" => t \in interrupted
       /\ Ends(t) = IF Sent(t) = Chunks THEN 1 ELSE 0

AnswerInv ==
  /\ LastInv
  /\ QueueInv
  /\ \A t \in Turns : Live(t) => StreamOf(t) /\ SenderOf(t)

-----------------------------------------------------------------------------
(* Counting in a sequence. *)
Count(q, m, n) == Cardinality({i \in 1..n : q[i] = m})

(* Counts are naturals. *)
LEMMA CountNat ==
  ASSUME NEW q, NEW m, NEW n \in Nat
  PROVE  Count(q, m, n) \in Nat /\ IsFiniteSet({i \in 1..n : q[i] = m})
<1>1. IsFiniteSet(1..n)
  BY FS_Interval
<1>2. IsFiniteSet({i \in 1..n : q[i] = m})
  BY Zenon, <1>1, FS_Subset
<1> QED
  BY Zenon, <1>2, FS_CardinalityType DEF Count

(* One more place counts one more or none. *)
LEMMA CountNext ==
  ASSUME NEW q, NEW m, NEW n \in Nat
  PROVE  Count(q, m, n + 1) = Count(q, m, n) + (IF q[n + 1] = m THEN 1 ELSE 0)
<1> DEFINE A == {i \in 1..n : q[i] = m}
           B == {i \in 1..n+1 : q[i] = m}
<1>1. IsFiniteSet(A) /\ Cardinality(A) \in Nat
  BY Zenon, CountNat DEF Count
<1>2. CASE q[n + 1] = m
  <2>1. B = A \cup {n + 1} /\ n + 1 \notin A
    BY <1>2
  <2>2. Cardinality(A \cup {n + 1}) = Cardinality(A) + 1
    BY Zenon, <1>1, <2>1, FS_AddElement
  <2> QED
    BY Zenon, <1>2, <2>1, <2>2 DEF Count
<1>3. CASE q[n + 1] # m
  <2>1. B = A
    BY <1>3
  <2> QED
    BY <1>1, <1>3, <2>1 DEF Count
<1> QED
  BY Zenon, <1>2, <1>3

(* A count looks at the places counted only. *)
LEMMA CountSame ==
  ASSUME NEW p, NEW q, NEW m, NEW n \in Nat, \A i \in 1..n : p[i] = q[i]
  PROVE  Count(p, m, n) = Count(q, m, n)
<1>1. {i \in 1..n : p[i] = m} = {i \in 1..n : q[i] = m}
  BY Zenon
<1> QED
  BY Zenon, <1>1 DEF Count

(* No place, no count. *)
LEMMA CountZero ==
  ASSUME NEW q, NEW m
  PROVE  Count(q, m, 0) = 0
<1>1. {i \in 1..0 : q[i] = m} = {}
  OBVIOUS
<1> QED
  BY Zenon, <1>1, FS_EmptySet DEF Count

LEMMA CountSome ==
  ASSUME NEW q, NEW m, NEW n \in Nat, NEW i \in 1..n, q[i] = m
  PROVE  Count(q, m, n) # 0
<1> DEFINE A == {k \in 1..n : q[k] = m}
<1>1. IsFiniteSet(A) /\ i \in A
  BY Zenon, CountNat
<1>2. Cardinality(A) = 0 <=> A = {}
  BY Zenon, <1>1, FS_EmptySet
<1> QED
  BY Zenon, <1>1, <1>2 DEF Count

(* p is q with m put behind it, with the counts that result. *)
Snoc(p, q, m) ==
  /\ p \in Seq(Messages) /\ Len(p) = Len(q) + 1 /\ p[Len(q) + 1] = m /\ Len(q) \in Nat
  /\ \A i \in 1..Len(q) : p[i] = q[i]
  /\ \A x : Count(p, x, Len(p)) = Count(q, x, Len(q)) + (IF m = x THEN 1 ELSE 0)
  /\ \A x : \A i \in 0..Len(q) : Count(p, x, i) = Count(q, x, i)

(* Counting after a message is sent. *)
LEMMA MessageSnoc ==
  ASSUME NEW q \in Seq(Messages), NEW m \in Messages
  PROVE  Snoc(q \o <<m>>, q, m)
<1> DEFINE p == q \o <<m>>
<1>1. /\ p \in Seq(Messages) /\ Len(p) = Len(q) + 1 /\ p[Len(q) + 1] = m /\ Len(q) \in Nat
      /\ \A i \in 1..Len(q) : p[i] = q[i]
  OBVIOUS
<1> HIDE DEF p
<1>2. ASSUME NEW x, NEW i \in 0..Len(q) PROVE Count(p, x, i) = Count(q, x, i)
  <2>1. i \in Nat /\ \A j \in 1..i : j \in 1..Len(q)
    BY <1>1
  <2>2. \A j \in 1..i : p[j] = q[j]
    BY Zenon, <1>1, <2>1
  <2> QED
    BY Zenon, <2>1, <2>2, CountSame
<1>3. ASSUME NEW x PROVE Count(p, x, Len(p)) = Count(q, x, Len(q)) + (IF m = x THEN 1 ELSE 0)
  <2>1. Count(p, x, Len(q) + 1) = Count(p, x, Len(q)) + (IF p[Len(q) + 1] = x THEN 1 ELSE 0)
    <3> DEFINE n == Len(q)
    <3>1. n \in Nat
      BY Zenon, <1>1
    <3> HIDE DEF n
    <3>2. Count(p, x, n + 1) = Count(p, x, n) + (IF p[n + 1] = x THEN 1 ELSE 0)
      BY Zenon, <3>1, CountNext
    <3> QED
      BY Zenon, <3>2 DEF n
  <2>2. Count(p, x, Len(q)) = Count(q, x, Len(q))
    BY <1>1, <1>2
  <2> QED
    BY Zenon, <1>1, <2>1, <2>2
<1> QED
  BY Zenon, <1>1, <1>2, <1>3 DEF Snoc, p

(* The counts of a turn, before and after a step. *)
LEMMA SentCount ==
  ASSUME NEW t
  PROVE  /\ Sent(t) = Count(down[t[1]], [turn |-> t, kind |-> "audio"], Len(down[t[1]]))
         /\ Ends(t) = Count(down[t[1]], EndOf(t), Len(down[t[1]]))
         /\ Sent(t)' = Count(down'[t[1]], [turn |-> t, kind |-> "audio"], Len(down'[t[1]]))
         /\ Ends(t)' = Count(down'[t[1]], EndOf(t), Len(down'[t[1]]))
BY Zenon DEF Sent, Ends, CountOf, Count, EndOf

LEMMA SentNat ==
  ASSUME TaskInv, NEW t \in Turns
  PROVE  Sent(t) \in Nat /\ Ends(t) \in Nat
<1>1. t[1] \in Sessions
  BY Zenon, TurnPair
<1>2. Len(down[t[1]]) \in Nat
  BY <1>1 DEF TaskInv
<1> QED
  BY Zenon, <1>2, SentCount, CountNat

LEMMA SentSame ==
  ASSUME NEW t, down'[t[1]] = down[t[1]]
  PROVE  Sent(t)' = Sent(t) /\ Ends(t)' = Ends(t)
BY Zenon, SentCount

-----------------------------------------------------------------------------
(* The stream of a turn's outputs. *)
LEMMA StreamText ==
  ASSUME NEW x \in Items, x.kind = "text", ~x.last
  PROVE  StreamOK(<<x>>, 0, 0)
BY DEF StreamOK, Texts

LEMMA StreamEmpty == StreamOK(<<>>, 0, 0)
BY DEF StreamOK, Texts

(* A chunk joins the stream; the one that completes the turn says so. *)
LEMMA StreamAudio ==
  ASSUME NEW q \in Seq(Items), NEW a \in Nat, NEW n \in Nat, StreamOK(q, a, n),
         NEW x \in Items, x.kind = "audio", x.last <=> n + 1 = Chunks,
         x.last => x.expected = Chunks
  PROVE  StreamOK(Append(q, x), a, n + 1)
<1> DEFINE p == Append(q, x)
<1>1. /\ Len(p) = Len(q) + 1 /\ Len(q) \in Nat /\ p # <<>>
      /\ \A j \in 1..Len(q) : p[j] = q[j]
      /\ p[Len(q) + 1] = x
  OBVIOUS
<1>2. Texts(p) = Texts(q) /\ Texts(q) \in {0, 1}
  <2>1. CASE q = <<>>
    <3>1. Len(q) = 0 /\ p[1] = x
      BY <1>1, <2>1
    <3> QED
      BY <1>1, <2>1, <3>1 DEF Texts
  <2>2. CASE q # <<>>
    <3>1. 1 \in 1..Len(q)
      BY <2>2
    <3>2. p[1] = q[1]
      BY Zenon, <1>1, <3>1
    <3> QED
      BY Zenon, <1>1, <2>2, <3>2 DEF Texts
  <2> QED
    BY Zenon, <2>1, <2>2
<1> HIDE DEF p
<1>3. n = a + Len(q) - Texts(q)
  BY Zenon DEF StreamOK
<1>4. n + 1 = a + Len(p) - Texts(p)
  BY <1>1, <1>2, <1>3
<1>5. ASSUME NEW j \in 1..Len(p)
      PROVE  /\ p[j].kind = "text" => j = 1 /\ a = 0 /\ ~p[j].last
             /\ p[j].kind = "audio" =>
                  /\ p[j].last <=> a + j - Texts(p) = Chunks
                  /\ p[j].last => p[j].expected = Chunks
  <2>1. CASE j \in 1..Len(q)
    BY <1>1, <1>2, <2>1 DEF StreamOK
  <2>2. CASE j = Len(q) + 1
    <3>1. a + j - Texts(p) = n + 1
      BY <1>1, <1>2, <1>3, <2>2
    <3> QED
      BY Zenon, <1>1, <2>2, <3>1
  <2> QED
    BY <1>1, <2>1, <2>2
<1> QED
  BY Zenon, <1>4, <1>5 DEF StreamOK, p

(* An output leaves the stream; the text leaves before any chunk. *)
LEMMA StreamSend ==
  ASSUME NEW q \in Seq(Items), q # <<>>, NEW a \in Nat, NEW n \in 0..Chunks, StreamOK(q, a, n),
         NEW b, b = a + (IF q[1].kind = "audio" THEN 1 ELSE 0)
  PROVE  /\ StreamOK(Tail(q), b, n) /\ q[1].kind \in {"text", "audio"}
         /\ q[1].kind = "text" => a = 0
         /\ q[1].kind = "audio" => a < Chunks /\ (a + 1 = Chunks => q[1].expected = Chunks)
<1> USE Constants
<1> DEFINE p == Tail(q)
<1>1. /\ Len(p) = Len(q) - 1 /\ Len(q) \in Nat /\ 1 \in 1..Len(q) /\ q[1] \in Items
      /\ \A j \in 1..Len(p) : p[j] = q[j+1] /\ j+1 \in 1..Len(q)
      /\ p # <<>> <=> Len(p) > 0
  <2>1. p \in Seq(Items) /\ Len(p) = Len(q) - 1 /\ Len(q) \in Nat /\ 1 \in 1..Len(q) /\ q[1] \in Items
    OBVIOUS
  <2>2. \A j \in 1..Len(p) : p[j] = q[j+1] /\ j+1 \in 1..Len(q)
    OBVIOUS
  <2> HIDE DEF p
  <2>3. p # <<>> <=> Len(p) > 0
    BY <2>1
  <2> QED
    BY Zenon, <2>1, <2>2, <2>3
<1>2. q[1].kind \in {"text", "audio"}
  BY Zenon, <1>1 DEF Items
<1>3. Texts(q) = IF q[1].kind = "text" THEN 1 ELSE 0
  BY Zenon DEF Texts
<1>4. Texts(p) = 0
  <2>1. CASE p # <<>>
    <3>1. 1 \in 1..Len(p) /\ p[1] = q[2] /\ 2 \in 1..Len(q)
      BY <1>1, <2>1
    <3>2. q[2].kind # "text"
      BY <3>1 DEF StreamOK
    <3> QED
      BY Zenon, <3>1, <3>2 DEF Texts
  <2> HIDE DEF p
  <2>2. CASE p = <<>>
    BY Zenon, <2>2 DEF Texts
  <2> QED
    BY Zenon, <2>1, <2>2
<1>5. n = a + Len(q) - Texts(q)
  BY Zenon DEF StreamOK
<1>6. q[1].kind = "text" => a = 0
  BY Zenon, <1>1 DEF StreamOK
<1>7. b \in Nat /\ b = a + 1 - Texts(q) /\ Texts(q) \in {0, 1}
  BY <1>2, <1>3
<1>8. n = b + Len(p) - Texts(p)
  BY <1>1, <1>4, <1>5, <1>7
<1>9. ASSUME NEW j \in 1..Len(p)
      PROVE  /\ p[j].kind = "text" => j = 1 /\ b = 0 /\ ~p[j].last
             /\ p[j].kind = "audio" =>
                  /\ p[j].last <=> b + j - Texts(p) = Chunks
                  /\ p[j].last => p[j].expected = Chunks
  <2>1. p[j] = q[j+1] /\ j+1 \in 1..Len(q) /\ j \in Nat /\ j > 0
    BY <1>1
  <2>2. p[j].kind # "text"
    BY <2>1 DEF StreamOK
  <2>3. b + j - Texts(p) = a + (j+1) - Texts(q)
    <3> HIDE DEF p
    <3> DEFINE x == Texts(q)
    <3>1. b = a + 1 - x /\ x \in {0, 1} /\ b \in Nat /\ Texts(p) = 0
      BY Zenon, <1>4, <1>7
    <3> HIDE DEF x
    <3>2. b + j - Texts(p) = a + (j+1) - x
      BY <2>1, <3>1
    <3> QED
      BY Zenon, <3>2 DEF x
  <2>4. p[j].kind = "audio" =>
                  /\ p[j].last <=> a + (j+1) - Texts(q) = Chunks
                  /\ p[j].last => p[j].expected = Chunks
    BY <2>1 DEF StreamOK
  <2> QED
    BY Zenon, <2>2, <2>3, <2>4
<1>10. StreamOK(p, b, n)
  <2> HIDE DEF p
  <2> QED
    BY Zenon, <1>8, <1>9 DEF StreamOK
<1>11. q[1].kind = "audio" => a < Chunks /\ (a + 1 = Chunks => q[1].expected = Chunks)
  <2> SUFFICES ASSUME q[1].kind = "audio" PROVE a < Chunks /\ (a + 1 = Chunks => q[1].expected = Chunks)
    BY Zenon
  <2>1. Texts(q) = 0
    BY Zenon, <1>3
  <2>2. a < Chunks
    BY <1>1, <1>5, <2>1
  <2>3. q[1].last <=> a + 1 - Texts(q) = Chunks
    BY Zenon, <1>1 DEF StreamOK
  <2>4. q[1].last => q[1].expected = Chunks
    BY Zenon, <1>1 DEF StreamOK
  <2> QED
    BY <2>1, <2>2, <2>3, <2>4
<1> QED
  BY Zenon, <1>2, <1>6, <1>10, <1>11

(* Nothing underway: all that has come is sent. *)
LEMMA StreamEmptySent ==
  ASSUME NEW a \in Nat, NEW n \in Nat, StreamOK(<<>>, a, n)
  PROVE  n = a
BY DEF StreamOK, Texts

(* Once all chunks are sent nothing is left. *)
LEMMA StreamDone ==
  ASSUME NEW q \in Seq(Items), NEW n \in 0..Chunks, StreamOK(q, Chunks, n)
  PROVE  q = <<>>
<1> SUFFICES ASSUME q # <<>> PROVE FALSE
  BY Zenon
<1>1. Chunks \in Nat /\ Chunks > 0
  BY Zenon, Constants
<1>2. q[1].kind = "audio" => Chunks < Chunks
  BY Zenon, <1>1, StreamSend
<1>3. q[1].kind \in {"text", "audio"} /\ (q[1].kind = "text" => Chunks = 0)
  BY Zenon, <1>1, StreamSend
<1> QED
  BY <1>1, <1>2, <1>3

(* The last chunk is the last output. *)
LEMMA StreamLast ==
  ASSUME NEW q \in Seq(Items), NEW a \in Nat, NEW n \in 0..Chunks, StreamOK(q, a, n),
         NEW j \in 1..Len(q), q[j].last
  PROVE  n = Chunks /\ j = Len(q)
<1>1. Chunks \in Nat /\ q[j] \in Items /\ Len(q) \in Nat /\ j \in Nat
  BY Constants
<1>2. q[j].kind = "audio"
  BY Zenon, <1>1 DEF StreamOK, Items
<1>3. a + j - Texts(q) = Chunks
  BY Zenon, <1>2 DEF StreamOK
<1>4. n = a + Len(q) - Texts(q) /\ Texts(q) \in {0, 1}
  BY Zenon DEF StreamOK, Texts
<1> QED
  BY <1>1, <1>3, <1>4

(* Outputs on their way from final_output_q to the result queue. *)
LEMMA ConcatEmpty ==
  ASSUME NEW S, NEW p \in Seq(S), NEW q \in Seq(S), p \o q = <<>>
  PROVE  p = <<>> /\ q = <<>>
<1>1. Len(p) + Len(q) = 0
  <2>1. Len(p \o q) = Len(p) + Len(q)
    OBVIOUS
  <2>2. Len(p \o q) = 0
    OBVIOUS
  <2> QED
    BY Zenon, <2>1, <2>2
<1>2. Len(p) \in Nat /\ Len(q) \in Nat
  OBVIOUS
<1>3. Len(p) = 0 /\ Len(q) = 0
  BY <1>1, <1>2
<1> QED
  BY <1>3

LEMMA ConcatAppend ==
  ASSUME NEW S, NEW p \in Seq(S), NEW q \in Seq(S), NEW x \in S
  PROVE  p \o Append(q, x) = Append(p \o q, x)
OBVIOUS

LEMMA ConcatMove ==
  ASSUME NEW S, NEW p \in Seq(S), NEW q \in Seq(S), q # <<>>
  PROVE  Append(p, Head(q)) \o Tail(q) = p \o q
OBVIOUS

LEMMA ConcatTail ==
  ASSUME NEW S, NEW p \in Seq(S), NEW q \in Seq(S), p # <<>>
  PROVE  Tail(p) \o q = Tail(p \o q) /\ (p \o q)[1] = p[1] /\ p \o q # <<>>
OBVIOUS

-----------------------------------------------------------------------------
LEMMA Facts ==
  ASSUME SerialInv
  PROVE  GInv /\ TypeOK /\ TaskInv /\ RouteInv /\ ItemInv /\ PhaseInv /\ WorkInv /\ SoloInv /\ LatestInv
BY DEF SerialInv, GInv

(* A task that has begun stays begun, under its id. *)
LEMMA TaskMono ==
  ASSUME GInv, [Next]_vars, NEW t \in Turns, task[t] \notin {"none", "new"}
  PROVE  task'[t] \notin {"none", "new"} /\ tid'[t] = tid[t]
<1> USE Constants, TurnPair
<1> TypeOK /\ TaskInv
  BY Zenon DEF GInv
<1>1. ASSUME NEW s \in Sessions, EndOfUtterance(s)
      PROVE  task'[t] \notin {"none", "new"} /\ tid'[t] = tid[t]
  <2> DEFINE u == <<s, created[s] + 1>>
  <2>1. created[s] \in 0..MaxTurns /\ created[s] < MaxTurns
    BY <1>1 DEF EndOfUtterance, TypeOK
  <2>2. u \in Turns /\ task[u] = "none"
    BY <2>1 DEF TaskInv
  <2>3. tid' = [tid EXCEPT ![u] = [s |-> s, at |-> clock]] /\ task' = [task EXCEPT ![u] = "new"]
    BY Zenon, <1>1 DEF EndOfUtterance
  <2> HIDE DEF u
  <2> QED
    BY Zenon, <2>2, <2>3 DEF TypeOK
<1>2. ASSUME NEW s \in Sessions, BargeIn(s)
      PROVE  task'[t] \notin {"none", "new"} /\ tid'[t] = tid[t]
  <2>1. task[t] \in {"run", "cancelled", "ending", "done"}
    BY DEF TypeOK
  <2>2. tid' = tid
    BY Zenon, <1>2 DEF BargeIn
  <2> QED
    BY Zenon, <1>2, <2>1, <2>2, BargeInTask
<1>3. ASSUME NEW u \in Turns, BeginTurn(u) \/ YieldOutput(u) \/ EnterFinally(u) \/ Finalize(u)
      PROVE  task'[t] \notin {"none", "new"} /\ tid'[t] = tid[t]
  <2>1. tid' = tid
    BY Zenon, <1>3 DEF BeginTurn, YieldOutput, EnterFinally, Finalize, engine
  <2>2. \A v \in Turns : v # u => task'[v] = task[v]
    <3>1. \E x : task' = [task EXCEPT ![u] = x]
      BY Zenon, <1>3 DEF BeginTurn, YieldOutput, EnterFinally, Finalize
    <3> QED
      BY <3>1 DEF TypeOK
  <2>3. task'[u] \in {"run", "ending", "done"}
    BY ZenonT(40), <1>3 DEF BeginTurn, YieldOutput, EnterFinally, Finalize, TypeOK
  <2> QED
    BY Zenon, <2>1, <2>2, <2>3
<1>4. CASE tid' = tid /\ task' = task
  BY Zenon, <1>4
<1> QED
  BY ZenonT(40), <1>1, <1>2, <1>3, <1>4
     DEF Next, Tick, PutAudio, Poll, SendItem, Disconnect, TurnWorker, Harvest, StageError,
         StageDrop, vars, engine, turnState

LEMMA LastStep ==
  ASSUME GInv, LastInv, [Next]_vars
  PROVE  LastInv'
<1> SUFFICES ASSUME NEW s \in Sessions, lastTid'[s] # NoTid
             PROVE  \E t \in Turns : tid'[t] = lastTid'[s] /\ task'[t] \notin {"none", "new"}
  BY Zenon DEF LastInv
<1>1. CASE lastTid'[s] = lastTid[s]
  <2>1. PICK t \in Turns : tid[t] = lastTid[s] /\ task[t] \notin {"none", "new"}
    BY Zenon, <1>1 DEF LastInv
  <2> QED
    BY Zenon, <1>1, <2>1, TaskMono
<1>2. ASSUME NEW a \in Sessions, Poll(a), lastTid'[s] # lastTid[s]
      PROVE  \E t \in Turns : tid'[t] = lastTid'[s] /\ task'[t] \notin {"none", "new"}
  <2>1. PICK p \in routes : lastTid' = [lastTid EXCEPT ![a] = p.rid.id]
    BY Zenon, <1>2 DEF Poll
  <2>2. lastTid'[s] = p.rid.id
    BY Zenon, <1>2, <2>1 DEF GInv, TypeOK
  <2>3. p.to \in Turns /\ tid[p.to] = p.rid.id /\ task[p.to] \notin {"none", "new"}
    BY Zenon DEF GInv, TypeOK, RouteInv
  <2>4. tid' = tid /\ task' = task
    BY <1>2 DEF Poll, engine, turnState
  <2> QED
    BY Zenon, <2>2, <2>3, <2>4
<1>3. lastTid' = lastTid \/ \E a \in Sessions : Poll(a)
  BY Zenon DEF Next, Tick, PutAudio, EndOfUtterance, BargeIn, SendItem, Disconnect,
     BeginTurn,
         TurnWorker, YieldOutput, EnterFinally, Finalize, Harvest, StageError, StageDrop,
         vars, endpoint
<1> QED
  BY Zenon, <1>1, <1>2, <1>3

(* A step that leaves alone the queues of turn t, its counters, its task   *)
(* and its sender, and begins or cancels no other turn of the session.     *)
Untouched(t) ==
  /\ resultQ'[t[1]] = resultQ[t[1]] /\ fin'[t] = fin[t] /\ down'[t[1]] = down[t[1]]
  /\ recv'[t] = recv[t] /\ inbox'[t] = inbox[t] /\ Pend(t)' \subseteq Pend(t)
  /\ lastTid'[t[1]] = lastTid[t[1]] /\ sender'[t[1]] = sender[t[1]]
  /\ tid'[t] = tid[t] /\ task'[t] = task[t]
  /\ \A u \in Turns :
       u[1] = t[1] /\ u # t /\ task'[u] \in {"run", "cancelled", "ending"} =>
         task[u] \in {"run", "cancelled", "ending"}

(* An untouched turn keeps its answer. *)
LEMMA TurnKept ==
  ASSUME NEW t \in Turns, StreamOf(t), SenderOf(t), Untouched(t)
  PROVE  StreamOf(t)' /\ SenderOf(t)'
<1>1. Unsent(t)' = Unsent(t) /\ Sent(t)' = Sent(t)
  BY Zenon, SentSame DEF Unsent, Untouched
<1>2. Fresh(t)' <=> Fresh(t)
  BY Zenon, <1>1 DEF Fresh, Untouched
<1>3. StreamOf(t)'
  <2>1. StreamOK(Unsent(t), Sent(t), recv[t])
    BY Zenon DEF StreamOf
  <2>2. StreamOK(Unsent(t), Sent(t), recv[t])'
    BY <1>1, <2>1 DEF StreamOK, Texts, Untouched
  <2> QED
    BY Zenon, <1>1, <2>2 DEF StreamOf, Untouched
<1>4. SenderOf(t)'
  BY Zenon, <1>1, <1>2 DEF SenderOf, Untouched
<1> QED
  BY Zenon, <1>3, <1>4

(* Queues and counts that do not change keep QueueInv. *)
LEMMA QueueKept ==
  ASSUME QueueInv, UNCHANGED <<tables, created, resultQ, down, interrupted>>,
         \A t \in Turns :
           /\ task'[t] \in {"none", "new", "cancelled"} => task'[t] = task[t]
           /\ task'[t] \in {"none", "new"} => fin'[t] = fin[t]
  PROVE  QueueInv'
<1>1. \A t \in Turns : Sent(t)' = Sent(t) /\ Ends(t)' = Ends(t)
  BY Zenon, SentSame
<1> QED
  BY Zenon, <1>1 DEF QueueInv

(* For the last turn of an open session only the turn's own steps count. *)
LEMMA AnswerFrame ==
  ASSUME SerialInv, AnswerInv, [Next]_vars, QueueInv',
         \A t \in Turns : Live(t)' =>
           (StreamOf(t)' /\ SenderOf(t)') \/ (Live(t) /\ Untouched(t))
  PROVE  AnswerInv'
<1>1. LastInv'
  BY Zenon, LastStep, Facts DEF AnswerInv
<1>2. ASSUME NEW t \in Turns, Live(t)' PROVE StreamOf(t)' /\ SenderOf(t)'
  <2>1. CASE Live(t) /\ Untouched(t)
    <3>1. StreamOf(t) /\ SenderOf(t)
      BY Zenon, <2>1 DEF AnswerInv
    <3> QED
      BY Zenon, <2>1, <3>1, TurnKept
  <2> QED
    BY Zenon, <1>2, <2>1
<1> QED
  BY Zenon, <1>1, <1>2 DEF AnswerInv

(* Nothing of the session is underway when its next turn is created. *)
LEMMA NothingLeft ==
  ASSUME ~Overlap, SerialInv, AnswerInv, NEW s \in Sessions, EndOfUtterance(s)
  PROVE  resultQ[s] = <<>>
<1> USE Constants, TurnPair, Facts
<1> DEFINE t == <<s, created[s]>>
<1> SUFFICES ASSUME resultQ[s] # <<>> PROVE FALSE
  BY Zenon
<1>1. resultQ[s] \in Seq(Items) /\ created[s] \in 0..MaxTurns
  BY DEF TypeOK
<1>2. 1 \in 1..Len(resultQ[s]) /\ resultQ[s][1] \in Items
  BY <1>1
<1>3. resultQ[s][1].turn = t /\ t \in Turns
  BY Zenon, <1>2 DEF AnswerInv, QueueInv, Items
<1>4. t \notin interrupted
  BY <1>2, <1>3 DEF ItemInv
<1>5. t[1] = s /\ t[2] = created[s] /\ created[s] \in 1..created[s]
  BY <1>1, <1>3
<1>6. s \in open /\ Settled(t)
  BY Zenon, <1>5 DEF EndOfUtterance
<1> HIDE DEF t
<1>7. Answered(t)
  BY Zenon, <1>4, <1>6 DEF Settled
<1>8. Ends(t) # 0
  <2>1. PICK i \in 1..Len(down[s]) : down[s][i] = EndOf(t)
    BY Zenon, <1>5, <1>7 DEF Answered
  <2>2. Len(down[s]) \in Nat
    BY DEF TaskInv
  <2> QED
    <3>1. Count(down[s], EndOf(t), Len(down[s])) # 0
      BY Zenon, <2>1, <2>2, CountSome
    <3> QED
      BY Zenon, <1>5, <3>1, SentCount
<1>9. Sent(t) = Chunks
  BY Zenon, <1>3, <1>8 DEF AnswerInv, QueueInv
<1>10. StreamOK(Unsent(t), Sent(t), recv[t])
  BY Zenon, <1>3, <1>4, <1>5, <1>6 DEF AnswerInv, Live, StreamOf
<1>11. fin[t] \in Seq(Items) /\ recv[t] \in 0..Chunks
  BY Zenon, <1>3 DEF TypeOK
<1>12. Unsent(t) \in Seq(Items) /\ Len(Unsent(t)) = Len(resultQ[s]) + Len(fin[t])
  BY <1>1, <1>5, <1>11 DEF Unsent
<1>13. Unsent(t) = <<>>
  BY Zenon, <1>9, <1>10, <1>11, <1>12, StreamDone
<1> QED
  <2>1. Len(Unsent(t)) = 0
    BY <1>13
  <2>2. Len(resultQ[s]) \in Nat /\ Len(resultQ[s]) > 0 /\ Len(fin[t]) \in Nat
    BY <1>1, <1>2, <1>11
  <2> DEFINE a == Len(resultQ[s])
             b == Len(fin[t])
  <2>3. a \in Nat /\ a > 0 /\ b \in Nat /\ 0 = a + b
    BY Zenon, <1>12, <2>1, <2>2
  <2> HIDE DEF a, b
  <2> QED
    BY <2>3

(* A new turn starts with nothing underway and nothing sent. *)
LEMMA AnswerEndOfUtterance ==
  ASSUME ~Overlap, SerialInv, AnswerInv, NEW s \in Sessions, EndOfUtterance(s), [Next]_vars
  PROVE  AnswerInv'
<1> USE Constants, TurnPair, Facts
<1>1. created[s] \in 0..MaxTurns /\ created[s] < MaxTurns
  BY Zenon DEF EndOfUtterance, TypeOK
<1>0. PICK t \in Turns : t = <<s, created[s] + 1>>
  <2>1. created[s] + 1 \in 1..MaxTurns
    BY <1>1
  <2>2. <<s, created[s] + 1>> \in Turns
    BY Zenon, <2>1
  <2> QED
    BY Zenon, <2>2
<1>2. t[1] = s /\ t[2] = created[s] + 1 /\ task[t] = "none"
  BY <1>0, <1>1 DEF TaskInv
<1>3. /\ created' = [created EXCEPT ![s] = @ + 1]
      /\ tid' = [tid EXCEPT ![t] = [s |-> s, at |-> clock]]
      /\ task' = [task EXCEPT ![t] = "new"]
      /\ UNCHANGED <<tables, routes, work, inbox, recv, fin, open, lastTid, sender, down,
                     resultQ, interrupted>>
  BY <1>0 DEF EndOfUtterance, endpoint
<1>4. task'[t] = "new" /\ \A u \in Turns : u # t => task'[u] = task[u] /\ tid'[u] = tid[u]
  BY <1>2, <1>3 DEF TypeOK
<1>5. created'[s] = t[2] /\ \A a \in Sessions : a # s => created'[a] = created[a]
  BY <1>2, <1>3 DEF TypeOK
<1>6. resultQ[s] = <<>>
  BY Zenon, NothingLeft
<1>7. \A u \in Turns : Sent(u)' = Sent(u) /\ Ends(u)' = Ends(u) /\ Pend(u)' = Pend(u)
  BY Zenon, <1>3, SentSame DEF Pend
<1>8. QueueInv'
  <2>1. QueueInv
    BY Zenon DEF AnswerInv
  <2>2. \A a \in Sessions : \A i \in 1..Len(resultQ[a]) : resultQ[a][i].turn = <<a, created'[a]>>
    <3> SUFFICES ASSUME NEW a \in Sessions, NEW i \in 1..Len(resultQ[a])
                 PROVE  resultQ[a][i].turn = <<a, created'[a]>>
      BY Zenon
    <3>1. a # s
      BY <1>6
    <3> QED
      BY <1>5, <2>1, <3>1 DEF QueueInv
  <2>3. ASSUME NEW u \in Turns
        PROVE  /\ task'[u] \in {"none", "new"} => fin[u] = <<>> /\ Sent(u) = 0
               /\ task'[u] = "new" => resultQ[u[1]] = <<>>
               /\ task'[u] = "cancelled" => u \in interrupted
               /\ Ends(u) = IF Sent(u) = Chunks THEN 1 ELSE 0
    <3>1. CASE u = t
      BY Zenon, <1>2, <1>4, <1>6, <2>1, <3>1 DEF QueueInv
    <3>2. CASE u # t
      BY Zenon, <1>4, <2>1, <3>2 DEF QueueInv
    <3> QED
      BY Zenon, <3>1, <3>2
  <2>4. tables' = Sessions
    BY Zenon, <1>3, <2>1 DEF QueueInv
  <2> QED
    BY SMT, SMTT(20), <1>3, <1>7, <2>2, <2>3, <2>4 DEF QueueInv
<1>9. StreamOf(t)' /\ SenderOf(t)'
  <2>1. fin[t] = <<>> /\ Sent(t) = 0
    BY Zenon, <1>2 DEF AnswerInv, QueueInv
  <2>2. inbox[t] = <<>> /\ recv[t] = 0 /\ Pend(t) = {}
    <3>1. inbox[t] = <<>> /\ recv[t] = 0
      BY Zenon, <1>2 DEF PhaseInv, PhaseOf
    <3>2. Pend(t) = {}
      BY Zenon, <1>2, PendTyped
    <3> QED
      BY Zenon, <3>1, <3>2
  <2>3. Unsent(t)' = <<>>
    BY <1>2, <1>3, <1>6, <2>1 DEF Unsent
  <2>4. StreamOK(Unsent(t), Sent(t), recv[t])'
    BY <1>3, <1>7, <2>1, <2>2, <2>3 DEF StreamOK, Texts
  <2>5. StreamOf(t)'
    BY Zenon, <1>3, <1>4, <1>7, <2>2, <2>3, <2>4 DEF StreamOf
  <2>6. SenderOf(t)'
    BY Zenon, <1>4 DEF SenderOf
  <2> QED
    BY Zenon, <2>5, <2>6
<1>10. ASSUME NEW u \in Turns, u # t, Live(u)'
       PROVE  Live(u) /\ Untouched(u)
  <2>1. u[1] # s
    <3> SUFFICES ASSUME u[1] = s PROVE FALSE
      BY Zenon
    <3>1. u[2] = t[2]
      BY Zenon, <1>5, <1>10 DEF Live
    <3> QED
      BY Zenon, <1>2, <1>10, <3>1
  <2> QED
    BY Zenon, <1>3, <1>4, <1>5, <1>7, <1>10, <2>1 DEF Live, Untouched
<1> QED
  BY Zenon, <1>8, <1>9, <1>10, AnswerFrame

(* A barge-in ends the wait for the turns it interrupts. *)
LEMMA AnswerBargeIn ==
  ASSUME SerialInv, AnswerInv, NEW s \in Sessions, BargeIn(s), [Next]_vars
  PROVE  AnswerInv'
<1> USE Constants, TurnPair, Facts
<1>1. /\ resultQ' = [resultQ EXCEPT ![s] = <<>>]
      /\ sender' = [sender EXCEPT ![s] = NoSender]
      /\ routes' \subseteq routes
      /\ UNCHANGED <<tables, created, tid, work, inbox, recv, fin, open, lastTid, down>>
  BY Zenon DEF BargeIn, Drained
<1>2. resultQ'[s] = <<>> /\ \A a \in Sessions : a # s => resultQ'[a] = resultQ[a] /\ sender'[a] = sender[a]
  BY <1>1 DEF TypeOK
<1>3. \A u \in Turns : u \in interrupted' <=> u \in interrupted \/ (u[1] = s /\ u[2] <= created[s])
  BY SMT, SMTT(20) DEF BargeIn, TypeOK
<1>4. ASSUME NEW u \in Turns
      PROVE  /\ task'[u] \in {"none", "new"} => task[u] = task'[u]
             /\ task'[u] = "cancelled" => task[u] = "cancelled" \/ u \in interrupted'
             /\ u[1] # s => task'[u] = task[u]
  <2>1. task[u] \in {"none", "new", "run", "cancelled", "ending", "done"}
    BY Zenon DEF TypeOK
  <2>2. u \in owned[s] => u[1] = s
    BY Zenon DEF TypeOK
  <2>3. task[u] = "run" /\ u[1] = s => u \in interrupted'
    <3>1. task[u] = "run" /\ u[1] = s => ~(u[2] > created[s])
      BY Zenon DEF TaskInv
    <3> QED
      BY <1>3, <3>1 DEF TypeOK
  <2> QED
    BY Zenon, <2>1, <2>2, <2>3, BargeInTask
<1>5. \A u \in Turns : Sent(u)' = Sent(u) /\ Ends(u)' = Ends(u) /\ Pend(u)' \subseteq Pend(u)
  BY Zenon, <1>1, SentSame DEF Pend
<1>6. QueueInv'
  <2>1. QueueInv
    BY Zenon DEF AnswerInv
  <2>2. \A a \in Sessions : \A i \in 1..Len(resultQ'[a]) : resultQ'[a][i].turn = <<a, created[a]>>
    BY <1>2, <2>1 DEF QueueInv
  <2>3. \A u \in Turns :
               /\ task'[u] \in {"none", "new"} => fin[u] = <<>> /\ Sent(u) = 0
               /\ task'[u] = "new" => resultQ'[u[1]] = <<>>
               /\ task'[u] = "cancelled" => u \in interrupted'
               /\ Ends(u) = IF Sent(u) = Chunks THEN 1 ELSE 0
    BY Zenon, <1>2, <1>3, <1>4, <2>1 DEF QueueInv
  <2>4. tables' = Sessions
    BY <1>1, <2>1 DEF QueueInv
  <2> QED
    BY <1>1, <1>5, <2>2, <2>3, <2>4 DEF QueueInv
<1>7. \A u \in Turns : Live(u)' => u[1] # s /\ Live(u)
  <2> SUFFICES ASSUME NEW u \in Turns, Live(u)' PROVE u[1] # s /\ Live(u)
    BY Zenon
  <2>1. u[2] = created[u[1]] /\ u \notin interrupted' /\ u[1] \in open
    BY Zenon, <1>1 DEF Live
  <2>2. u[1] # s
    BY <1>3, <2>1 DEF TypeOK
  <2> QED
    BY Zenon, <1>3, <2>1, <2>2 DEF Live
<1>8. \A u \in Turns : Live(u)' => Untouched(u)
  BY Zenon, <1>1, <1>2, <1>4, <1>5, <1>7 DEF Untouched
<1> QED
  BY Zenon, <1>6, <1>7, <1>8, AnswerFrame

(* The sender is replaced only before anything of the turn has come. *)
LEMMA AnswerPoll ==
  ASSUME SerialInv, AnswerInv, NEW s \in Sessions, Poll(s), [Next]_vars
  PROVE  AnswerInv'
<1> USE Constants, TurnPair, Facts
<1>1. PICK p \in routes : p.rid.id.s = s /\ p.rid.id # lastTid[s] /\ lastTid' = [lastTid EXCEPT ![s] = p.rid.id]
  BY Zenon DEF Poll
<1>2. /\ sender' = [sender EXCEPT ![s] = [NoSender EXCEPT !.on = TRUE]]
      /\ UNCHANGED <<tables, created, tid, task, routes, work, inbox, recv, fin, open, down,
                     resultQ, interrupted>>
  BY Zenon DEF Poll, engine, turnState
<1>3. sender'[s].on /\ sender'[s].recv = 0
  BY <1>2 DEF NoSender, TypeOK
<1>4. \A a \in Sessions : a # s => sender'[a] = sender[a] /\ lastTid'[a] = lastTid[a]
  BY <1>1, <1>2 DEF TypeOK
<1>5. QueueInv'
  BY Zenon, <1>2, QueueKept DEF AnswerInv
<1>6. \A u \in Turns : Sent(u)' = Sent(u) /\ Pend(u)' = Pend(u) /\ Unsent(u)' = Unsent(u)
  BY Zenon, <1>2, SentSame DEF Pend, Unsent
<1>7. ASSUME NEW t \in Turns, Live(t)', t[1] # s PROVE Live(t) /\ Untouched(t)
  BY Zenon, <1>2, <1>4, <1>6, <1>7 DEF Live, Untouched
<1>8. ASSUME NEW t \in Turns, Live(t)', t[1] = s PROVE StreamOf(t)' /\ SenderOf(t)'
  <2>1. Live(t)
    BY <1>2, <1>8 DEF Live
  <2>2. StreamOf(t) /\ SenderOf(t)
    BY Zenon, <2>1 DEF AnswerInv
  <2>3. StreamOf(t)'
    <3>1. StreamOK(Unsent(t), Sent(t), recv[t])
      BY Zenon, <2>2 DEF StreamOf
    <3>2. StreamOK(Unsent(t), Sent(t), recv[t])'
      BY <1>2, <1>6, <3>1 DEF StreamOK, Texts
    <3> QED
      BY Zenon, <1>2, <1>6, <2>2, <3>2 DEF StreamOf
  <2>4. CASE task[t] = "new"
    BY Zenon, <1>2, <2>3, <2>4 DEF SenderOf
  <2>5. CASE Fresh(t)
    <3>1. StreamOK(<<>>, Sent(t), 0)
      BY Zenon, <2>2, <2>5 DEF StreamOf, Fresh
    <3>2. Sent(t) = 0
      BY Zenon, <3>1, StreamEmptySent, SentNat
    <3>3. Fresh(t)'
      BY Zenon, <1>2, <1>6, <2>5 DEF Fresh
    <3> QED
      BY Zenon, <1>3, <1>6, <1>8, <2>3, <3>2, <3>3 DEF SenderOf
  <2>6. CASE task[t] # "new" /\ ~Fresh(t)
    <3>1. /\ lastTid[s] = tid[t]
          /\ \A u \in Turns : u[1] = s /\ u # t => task[u] \notin {"run", "cancelled", "ending"}
      BY Zenon, <1>8, <2>2, <2>6 DEF SenderOf
    <3>2. p.to \in Turns /\ tid[p.to] = p.rid.id /\ task[p.to] \in {"run", "cancelled", "ending"}
      BY Zenon DEF RouteInv, TypeOK
    <3>3. p.to[1] = s
      BY Zenon, <1>1, <3>2 DEF TaskInv
    <3> QED
      BY Zenon, <1>1, <3>1, <3>2, <3>3
  <2> QED
    BY Zenon, <2>4, <2>5, <2>6
<1> QED
  BY Zenon, <1>5, <1>7, <1>8, AnswerFrame

(* A client that is gone waits for nothing. *)
LEMMA AnswerDisconnect ==
  ASSUME SerialInv, AnswerInv, NEW s \in Sessions, Disconnect(s), [Next]_vars
  PROVE  AnswerInv'
<1> USE TurnPair, Facts
<1>1. /\ sender' = [sender EXCEPT ![s] = NoSender] /\ open' = open \ {s}
      /\ UNCHANGED <<tables, created, tid, task, routes, work, inbox, recv, fin, down,
                     resultQ, interrupted, lastTid>>
  BY Zenon DEF Disconnect, engine, turnState
<1>2. QueueInv'
  BY Zenon, <1>1, QueueKept DEF AnswerInv
<1>3. \A a \in Sessions : a # s => sender'[a] = sender[a]
  BY Zenon, <1>1 DEF TypeOK
<1>4. ASSUME NEW t \in Turns, Live(t)' PROVE Live(t) /\ Untouched(t)
  <2>1. t[1] # s /\ Live(t)
    BY Zenon, <1>1, <1>4 DEF Live
  <2>2. Pend(t)' = Pend(t)
    BY Zenon, <1>1 DEF Pend
  <2> QED
    BY Zenon, <1>1, <1>3, <2>1, <2>2 DEF Untouched
<1> QED
  BY Zenon, <1>2, <1>4, AnswerFrame

(* A task that begins sends its first request, with no other at work. *)
LEMMA AnswerBegin ==
  ASSUME SerialInv, AnswerInv, Distinct, NEW t \in Turns, BeginTurn(t), [Next]_vars
  PROVE  AnswerInv'
<1> USE Constants, TurnPair, Facts
<1> DEFINE r == Rid(tid[t], 0, 0)
<1>1. /\ task[t] = "new" /\ task' = [task EXCEPT ![t] = "run"]
      /\ routes' = {p \in routes : p.rid \notin {r}} \cup {[rid |-> x, to |-> t] : x \in {r}}
      /\ work' = work \cup {r}
      /\ UNCHANGED <<tables, created, tid, inbox, recv, fin, open, lastTid, sender, down,
                     resultQ, interrupted>>
  BY Zenon DEF BeginTurn, Request, engine, endpoint
<1> HIDE DEF r
<1>2. task'[t] = "run" /\ \A u \in Turns : u # t => task'[u] = task[u]
  BY <1>1 DEF TypeOK
<1>3. QueueInv'
  BY Zenon, <1>1, <1>2, QueueKept DEF AnswerInv
<1>4. ASSUME NEW u \in Turns, u # t, Live(u)' PROVE Live(u) /\ Untouched(u)
  <2>1. \A p \in routes' : (p \in routes /\ p.rid \notin {r}) \/ p.to = t
    BY <1>1
  <2>2. work' = work \cup {r}
    BY Zenon, <1>1
  <2>3. Pend(u)' \subseteq Pend(u)
    BY Zenon, <1>4, <2>1, <2>2, PendOther
  <2>4. t[2] = created[t[1]]
    BY Zenon, <1>1 DEF LatestInv
  <2>5. Live(u) /\ u[2] = created[u[1]]
    BY Zenon, <1>1, <1>4 DEF Live
  <2>6. u[1] # t[1]
    BY Zenon, <1>4, <2>4, <2>5
  <2> QED
    BY Zenon, <1>1, <1>2, <1>4, <2>3, <2>5, <2>6 DEF Untouched
<1>5. ASSUME Live(t)' PROVE StreamOf(t)' /\ SenderOf(t)'
  <2>1. Live(t)
    BY Zenon, <1>1, <1>5 DEF Live
  <2>2. fin[t] = <<>> /\ resultQ[t[1]] = <<>>
    BY Zenon, <1>1 DEF AnswerInv, QueueInv
  <2>3. Unsent(t) = <<>> /\ Unsent(t)' = <<>> /\ Sent(t)' = Sent(t)
    BY <1>1, <2>2, SentSame DEF Unsent
  <2>4. inbox[t] = <<>> /\ recv[t] = 0
    BY Zenon, <1>1 DEF PhaseInv, PhaseOf
  <2>5. StreamOK(Unsent(t), Sent(t), recv[t])
    BY Zenon, <2>1 DEF AnswerInv, StreamOf
  <2>6. StreamOK(Unsent(t), Sent(t), recv[t])'
    BY <1>1, <2>3, <2>5 DEF StreamOK, Texts
  <2>7. StreamOf(t)'
    BY Zenon, <1>1, <1>2, <2>3, <2>4, <2>6 DEF StreamOf
  <2>8. lastTid[t[1]] # tid[t]
    <3> SUFFICES ASSUME lastTid[t[1]] = tid[t] PROVE FALSE
      BY Zenon
    <3>1. tid[t] \in Tids
      BY Zenon, <1>1 DEF TaskInv
    <3>2. PICK v \in Turns : tid[v] = tid[t] /\ task[v] \notin {"none", "new"}
      BY <3>1, NoTidNotTid DEF AnswerInv, LastInv
    <3>3. v # t /\ tid[t] # NoTid
      BY Zenon, <1>1, <3>1, <3>2, NoTidNotTid
    <3> QED
      BY Zenon, <3>2, <3>3 DEF Distinct
  <2>9. Fresh(t)'
    BY Zenon, <1>1, <2>3, <2>4 DEF Fresh
  <2>10. SenderOf(t)'
    BY Zenon, <1>1, <2>8, <2>9 DEF SenderOf
  <2> QED
    BY Zenon, <2>7, <2>10
<1> QED
  BY Zenon, <1>3, <1>4, <1>5, AnswerFrame

(* Cancelled tasks are those of interrupted turns. *)
LEMMA AnswerEnterFinally ==
  ASSUME SerialInv, AnswerInv, NEW t \in Turns, EnterFinally(t), [Next]_vars
  PROVE  AnswerInv'
<1> USE TurnPair, Facts
<1>1. /\ task[t] = "cancelled" /\ task' = [task EXCEPT ![t] = "ending"]
      /\ UNCHANGED <<tables, created, tid, routes, work, inbox, recv, fin, open, lastTid,
                     sender, down, resultQ, interrupted>>
  BY Zenon DEF EnterFinally, engine, endpoint
<1>2. task'[t] = "ending" /\ \A u \in Turns : u # t => task'[u] = task[u]
  BY <1>1 DEF TypeOK
<1>3. QueueInv'
  BY Zenon, <1>1, <1>2, QueueKept DEF AnswerInv
<1>4. ASSUME NEW u \in Turns, Live(u)' PROVE Live(u) /\ Untouched(u)
  <2>1. Live(u) /\ Pend(u)' = Pend(u)
    BY Zenon, <1>1, <1>4 DEF Live, Pend
  <2>2. u # t
    BY Zenon, <1>1, <2>1 DEF AnswerInv, QueueInv, Live
  <2> QED
    BY Zenon, <1>1, <1>2, <2>1, <2>2 DEF Untouched
<1> QED
  BY Zenon, <1>3, <1>4, AnswerFrame

(* The finally clause drops what is left of a turn that is over. *)
LEMMA AnswerFinalize ==
  ASSUME SerialInv, AnswerInv, NEW t \in Turns, Finalize(t), [Next]_vars
  PROVE  AnswerInv'
<1> USE Constants, TurnPair, Facts
<1>1. /\ task[t] = "ending" /\ task' = [task EXCEPT ![t] = "done"] /\ routes' \subseteq routes
      /\ inbox' = [inbox EXCEPT ![t] = <<>>] /\ fin' = [fin EXCEPT ![t] = <<>>]
      /\ UNCHANGED <<tables, created, tid, work, recv, open, lastTid, sender, down, resultQ,
                     interrupted>>
  BY Zenon DEF Finalize, RoutesWithout, endpoint
<1>2. /\ task'[t] = "done" /\ inbox'[t] = <<>> /\ fin'[t] = <<>>
      /\ \A u \in Turns : u # t => task'[u] = task[u] /\ inbox'[u] = inbox[u] /\ fin'[u] = fin[u]
  BY <1>1 DEF TypeOK
<1>3. QueueInv'
  <2>1. \A u \in Turns :
           /\ task'[u] \in {"none", "new", "cancelled"} => task'[u] = task[u]
           /\ task'[u] \in {"none", "new"} => fin'[u] = fin[u]
    BY Zenon, <1>2
  <2> QED
    BY Zenon, <1>1, <2>1, QueueKept DEF AnswerInv
<1>4. \A u \in Turns : Pend(u)' \subseteq Pend(u) /\ Sent(u)' = Sent(u)
  BY Zenon, <1>1, SentSame, PendFewer
<1>5. ASSUME NEW u \in Turns, u # t, Live(u)' PROVE Live(u) /\ Untouched(u)
  BY Zenon, <1>1, <1>2, <1>4, <1>5 DEF Live, Untouched
<1>6. ASSUME Live(t)' PROVE StreamOf(t)' /\ SenderOf(t)'
  <2>1. Live(t)
    BY Zenon, <1>1, <1>6 DEF Live
  <2>2. StreamOf(t) /\ SenderOf(t)
    BY Zenon, <2>1 DEF AnswerInv
  <2>3. recv[t] = Chunks /\ fin[t] = <<>>
    BY Zenon, <1>1, <2>2 DEF StreamOf
  <2>4. Unsent(t)' = Unsent(t)
    BY Zenon, <1>1, <1>2, <2>3 DEF Unsent
  <2>5. StreamOK(Unsent(t), Sent(t), recv[t])
    BY Zenon, <2>2 DEF StreamOf
  <2>6. StreamOK(Unsent(t), Sent(t), recv[t])'
    BY <1>1, <1>4, <2>4, <2>5 DEF StreamOK, Texts
  <2>7. \A r \in Pend(t)' : r.stage = 0 => Unsent(t) = <<>>
    BY Zenon, <1>4, <2>2 DEF StreamOf
  <2>8. StreamOf(t)'
    BY <1>1, <1>2, <2>3, <2>4, <2>6, <2>7 DEF StreamOf
  <2>9. ~Fresh(t) /\ ~Fresh(t)'
    BY <1>1, <2>3 DEF Fresh
  <2>10. SenderOf(t)'
    BY Zenon, <1>1, <1>2, <1>4, <2>2, <2>9 DEF SenderOf
  <2> QED
    BY Zenon, <2>8, <2>10
<1> QED
  BY Zenon, <1>3, <1>5, <1>6, AnswerFrame

(* A result that comes finds the sender of its turn at work: the timing    *)
(* the endpoint relies on.                                                 *)
LEMMA AnswerHarvest ==
  ASSUME Prompt, SerialInv, AnswerInv, Distinct, NEW r \in work, Harvest(r), [Next]_vars
  PROVE  AnswerInv'
<1> USE Constants, TurnPair, Facts
<1>1. /\ work' = work \ {r}
      /\ \A t \in Turns : inbox'[t] = IF [rid |-> r, to |-> t] \in routes
                                      THEN Append(inbox[t], r) ELSE inbox[t]
      /\ UNCHANGED <<tables, created, tid, task, routes, recv, fin, open, lastTid, sender,
                     down, resultQ, interrupted>>
  BY Zenon DEF Harvest, engine, endpoint
<1>2. QueueInv'
  BY Zenon, <1>1, QueueKept DEF AnswerInv
<1>3. \A u \in Turns : Pend(u)' \subseteq Pend(u) /\ Sent(u)' = Sent(u) /\ Unsent(u)' = Unsent(u)
  BY Zenon, <1>1, SentSame DEF Pend, Unsent
<1>4. ASSUME NEW t \in Turns, Live(t)', r \notin Pend(t) PROVE Live(t) /\ Untouched(t)
  <2>1. inbox'[t] = inbox[t]
    BY Zenon, <1>1, <1>4 DEF Pend
  <2> QED
    BY Zenon, <1>1, <1>3, <1>4, <2>1 DEF Live, Untouched
<1>5. ASSUME NEW t \in Turns, Live(t)', r \in Pend(t) PROVE StreamOf(t)' /\ SenderOf(t)'
  <2>1. Live(t)
    BY Zenon, <1>1, <1>5 DEF Live
  <2>2. StreamOf(t) /\ SenderOf(t)
    BY Zenon, <2>1 DEF AnswerInv
  <2>3. /\ r \in Requests /\ [rid |-> r, to |-> t] \in routes
        /\ r.id = tid[t] /\ task[t] \in {"run", "cancelled", "ending"}
    BY Zenon, <1>5, PendTyped
  <2>4. inbox[t] \in Seq(Requests) /\ inbox'[t] = Append(inbox[t], r) /\ recv[t] \in 0..Chunks
    BY Zenon, <1>1, <2>3 DEF TypeOK
  <2>5. task[t] = "run"
    <3>1. task[t] # "cancelled"
      BY Zenon, <2>1 DEF AnswerInv, QueueInv, Live
    <3>2. recv[t] # Chunks
      <4>1. r.stage < 2 => recv[t] = 0
        BY Zenon, <1>5 DEF PhaseInv, PhaseOf
      <4>2. ~(r.stage < 2) => recv[t] + Len(inbox[t]) < r.i
        BY Zenon, <1>5 DEF PhaseInv, PhaseOf
      <4>3. r.i \in 0..Chunks /\ Len(inbox[t]) \in Nat
        BY <2>3, <2>4 DEF Requests
      <4> QED
        BY <2>4, <4>1, <4>2, <4>3
    <3> QED
      BY Zenon, <2>2, <2>3, <3>1, <3>2 DEF StreamOf
  <2>6. tid[t].s = t[1] /\ tid[t] \in Tids
    BY Zenon, <2>5 DEF TaskInv
  <2>7. CaughtUp(r)
    BY Zenon DEF Harvest
  <2>8. /\ lastTid[t[1]] = tid[t]
        /\ \A u \in Turns : u[1] = t[1] /\ tid[u] # tid[t] => task[u] \notin {"cancelled", "ending"}
    BY Zenon, <2>1, <2>3, <2>5, <2>6, <2>7 DEF CaughtUp, Live
  <2>9. ASSUME NEW u \in Turns, u[1] = t[1], u # t PROVE task[u] \notin {"run", "cancelled", "ending"}
    <3>1. tid[u] # tid[t]
      BY Zenon, <2>6, <2>9, NoTidNotTid DEF Distinct
    <3>2. task[u] # "run"
      BY Zenon, <2>5, <2>9 DEF SoloInv
    <3> QED
      BY Zenon, <2>8, <2>9, <3>1, <3>2
  <2>10. SenderOf(t)'
    BY Zenon, <1>1, <1>3, <2>2, <2>5, <2>8, <2>9 DEF SenderOf
  <2>11. StreamOK(Unsent(t), Sent(t), recv[t])'
    <3>1. StreamOK(Unsent(t), Sent(t), recv[t])
      BY Zenon, <2>2 DEF StreamOf
    <3> QED
      BY SMT, SMTT(20), <1>1, <1>3, <3>1 DEF StreamOK, Texts
  <2>12. \A i \in 1..Len(inbox'[t]) : inbox'[t][i].stage = 0 => Unsent(t) = <<>>
    <3>1. \A i \in 1..Len(inbox'[t]) :
            inbox'[t][i] = r \/ (i \in 1..Len(inbox[t]) /\ inbox'[t][i] = inbox[t][i])
      BY <2>3, <2>4
    <3>2. r.stage = 0 => Unsent(t) = <<>>
      BY Zenon, <1>5, <2>2 DEF StreamOf
    <3> QED
      BY Zenon, <2>2, <3>1, <3>2 DEF StreamOf
  <2>13. \A x \in Pend(t)' : x.stage = 0 => Unsent(t) = <<>>
    BY Zenon, <1>3, <2>2 DEF StreamOf
  <2>14. StreamOf(t)'
    BY Zenon, <1>1, <1>3, <2>5, <2>11, <2>12, <2>13 DEF StreamOf
  <2> QED
    BY Zenon, <2>10, <2>14
<1> QED
  BY Zenon, <1>2, <1>4, <1>5, AnswerFrame

(* The workers of a turn append to its outputs. *)
LEMMA AnswerWorker ==
  ASSUME SerialInv, AnswerInv, NEW t \in Turns, TurnWorker(t), [Next]_vars
  PROVE  AnswerInv'
<1> USE Constants, TurnPair, Facts
<1>1. /\ task[t] \in {"run", "cancelled"} /\ inbox' = [inbox EXCEPT ![t] = Tail(@)]
      /\ UNCHANGED <<tables, created, tid, task, open, lastTid, sender, down, resultQ, interrupted>>
      /\ Worker0to1(t) \/ Worker1to2(t) \/ Worker2toServer(t)
  BY Zenon DEF TurnWorker, engine, endpoint
<1>2. /\ \A u \in Turns : u # t => inbox'[u] = inbox[u] /\ fin'[u] = fin[u] /\ recv'[u] = recv[u]
      /\ inbox'[t] = Tail(inbox[t])
  <2>1. CASE Worker0to1(t)
    BY <1>1, <2>1 DEF Worker0to1, TypeOK
  <2>2. CASE Worker1to2(t)
    BY Zenon, <1>1, <2>2 DEF Worker1to2, TypeOK
  <2>3. CASE Worker2toServer(t)
    BY <1>1, <2>3 DEF Worker2toServer, TypeOK
  <2> QED
    BY Zenon, <1>1, <2>1, <2>2, <2>3
<1>3. QueueInv'
  <2>1. \A u \in Turns : task'[u] \in {"none", "new"} => fin'[u] = fin[u]
    BY Zenon, <1>1, <1>2
  <2> QED
    BY Zenon, <1>1, <2>1, QueueKept DEF AnswerInv
<1>4. \A u \in Turns : Sent(u)' = Sent(u)
  BY Zenon, <1>1, SentSame
<1>5. ASSUME NEW u \in Turns, u # t PROVE Pend(u)' \subseteq Pend(u)
  <2>1. CASE Worker0to1(t)
    <3> DEFINE rids == {Rid(tid[t], 1, 0)}
    <3>1. /\ \A p \in routes' : (p \in routes /\ p.rid \notin rids) \/ p.to = t
          /\ work' = work \cup rids
      BY <2>1 DEF Worker0to1, Request
    <3> HIDE DEF rids
    <3> QED
      BY Zenon, <1>5, <3>1, PendOther
  <2>2. CASE Worker1to2(t)
    <3> DEFINE rids == {Rid(tid[t], 2, i) : i \in 1..Chunks}
    <3>1. /\ routes' = {p \in routes : p.rid.stage # 1 /\ p.rid \notin rids} \cup {[rid |-> x, to |-> t] : x \in rids}
          /\ work' = work \cup rids
      BY Zenon, <2>2 DEF Worker1to2
    <3> HIDE DEF rids
    <3>2. \A p \in routes' : (p \in routes /\ p.rid \notin rids) \/ p.to = t
      BY <3>1
    <3> QED
      BY Zenon, <1>5, <3>1, <3>2, PendOther
  <2>3. CASE Worker2toServer(t)
    BY Zenon, <2>3 DEF Worker2toServer, Pend
  <2> QED
    BY Zenon, <1>1, <2>1, <2>2, <2>3
<1>6. ASSUME NEW u \in Turns, u # t, Live(u)' PROVE Live(u) /\ Untouched(u)
  BY Zenon, <1>1, <1>2, <1>5, <1>6 DEF Live, Untouched
<1>7. ASSUME Live(t)' PROVE StreamOf(t)' /\ SenderOf(t)'
  <2>1. Live(t)
    BY Zenon, <1>1, <1>7 DEF Live
  <2>2. StreamOf(t) /\ SenderOf(t)
    BY Zenon, <2>1 DEF AnswerInv
  <2>3. task[t] = "run"
    BY Zenon, <1>1, <2>1 DEF AnswerInv, QueueInv, Live
  <2>4. inbox[t] # <<>> /\ inbox[t] \in Seq(Requests)
    BY Zenon, <1>1 DEF Worker0to1, Worker1to2, Worker2toServer, TypeOK
  <2>5. SenderOf(t)'
    <3>1. ~Fresh(t)
      BY Zenon, <2>4 DEF Fresh
    <3> QED
      BY Zenon, <1>1, <1>4, <2>2, <2>3, <3>1 DEF SenderOf
  <2>6. PhaseOf(t)'
    BY Zenon, PhaseStep DEF PhaseInv
  <2>7. /\ Head(inbox[t]) = inbox[t][1] /\ 1 \in 1..Len(inbox[t])
        /\ Len(inbox[t]) = 1 => inbox'[t] = <<>>
    BY <1>2, <2>4
  <2>8. StreamOK(Unsent(t), Sent(t), recv[t])
    BY Zenon, <2>2 DEF StreamOf
  <2>9. resultQ[t[1]] \in Seq(Items) /\ fin[t] \in Seq(Items) /\ Unsent(t) \in Seq(Items)
    BY DEF Unsent, TypeOK
  <2>10. CASE Worker0to1(t)
    <3> DEFINE x == Item(t, "text", -1, FALSE)
    <3>1. x \in Items /\ x.kind = "text" /\ ~x.last
      BY Zenon DEF Item, Items
    <3>2. fin' = [fin EXCEPT ![t] = Append(@, x)] /\ recv' = recv
      BY Zenon, <2>10 DEF Worker0to1
    <3>3. inbox[t][1].stage = 0 /\ inbox[t][1].stage < 2
      BY <2>7, <2>10 DEF Worker0to1
    <3> HIDE DEF x
    <3>4. Len(inbox[t]) = 1 /\ recv[t] = 0 /\ Pend(t) = {}
      BY Zenon, <2>7, <3>3 DEF PhaseInv, PhaseOf
    <3>5. Unsent(t) = <<>>
      BY Zenon, <2>2, <2>7, <3>3 DEF StreamOf
    <3>6. Sent(t) = 0
      BY <2>8, <3>4, <3>5, StreamEmptySent, SentNat
    <3>7. resultQ[t[1]] = <<>> /\ fin[t] = <<>>
      BY Zenon, <2>9, <3>5, ConcatEmpty DEF Unsent
    <3>8. Unsent(t)' = <<x>>
      BY <1>1, <3>1, <3>2, <3>7 DEF Unsent, TypeOK
    <3>9. StreamOK(<<x>>, 0, 0)
      BY Zenon, <3>1, StreamText
    <3>10. StreamOK(Unsent(t), Sent(t), recv[t])'
      BY Zenon, <1>4, <3>2, <3>4, <3>6, <3>8, <3>9 DEF StreamOK, Texts
    <3>11. \A r \in Pend(t)' : r.stage = 1
      <4> DEFINE q == Rid(tid[t], 1, 0)
      <4>1. /\ \A p \in routes' : p \in routes \/ (p.to = t /\ p.rid \in {q})
            /\ work' = work \cup {q}
        BY <2>10 DEF Worker0to1, Request
      <4>2. q.stage = 1
        BY Zenon DEF Rid
      <4> HIDE DEF q
      <4>3. Pend(t)' \subseteq {q}
        BY Zenon, <3>4, <4>1, PendMine
      <4> QED
        BY Zenon, <4>2, <4>3
    <3> QED
      BY <1>1, <2>3, <2>5, <2>7, <3>4, <3>10, <3>11 DEF StreamOf
  <2>11. CASE Worker1to2(t)
    <3>1. inbox[t][1].stage = 1 /\ inbox[t][1].stage < 2
      BY <2>7, <2>11 DEF Worker1to2
    <3>2. Len(inbox[t]) = 1 /\ recv[t] = 0 /\ Pend(t) = {}
      BY Zenon, <2>7, <3>1 DEF PhaseInv, PhaseOf
    <3>3. fin' = fin /\ recv' = recv
      BY Zenon, <2>11 DEF Worker1to2
    <3>4. Unsent(t)' = Unsent(t)
      BY Zenon, <1>1, <3>3 DEF Unsent
    <3>5. StreamOK(Unsent(t), Sent(t), recv[t])'
      BY <1>4, <2>8, <3>3, <3>4 DEF StreamOK, Texts
    <3>6. \A r \in Pend(t)' : r.stage = 2
      <4> DEFINE rids == {Rid(tid[t], 2, i) : i \in 1..Chunks}
      <4>1. /\ routes' = {p \in routes : p.rid.stage # 1 /\ p.rid \notin rids} \cup {[rid |-> x, to |-> t] : x \in rids}
            /\ work' = work \cup rids
        BY Zenon, <2>11 DEF Worker1to2
      <4>2. \A r \in rids : r.stage = 2
        BY DEF Rid
      <4> HIDE DEF rids
      <4>3. \A p \in routes' : p \in routes \/ (p.to = t /\ p.rid \in rids)
        BY <4>1
      <4>4. Pend(t)' \subseteq rids
        BY Zenon, <3>2, <4>1, <4>3, PendMine
      <4> QED
        BY Zenon, <4>2, <4>4
    <3> QED
      BY SMT, SMTT(20), <1>1, <2>3, <2>5, <2>7, <3>2, <3>5, <3>6 DEF StreamOf
  <2>12. CASE Worker2toServer(t)
    <3>1. recv' = [recv EXCEPT ![t] = @ + 1]
      BY Zenon, <2>12 DEF Worker2toServer
    <3>2. recv'[t] = recv[t] + 1 /\ recv[t] \in Nat
      BY <3>1 DEF TypeOK
    <3>3. PICK e \in {-1, Chunks} :
            /\ fin' = [fin EXCEPT ![t] = Append(@, Item(t, "audio", e, recv'[t] = Chunks))]
            /\ recv'[t] = Chunks => e = Chunks
      BY Zenon, <2>12 DEF Worker2toServer
    <3>4. PICK b \in BOOLEAN : b = (recv[t] + 1 = Chunks)
      BY Zenon
    <3> DEFINE x == Item(t, "audio", e, b)
    <3>5. x \in Items /\ x.kind = "audio" /\ x.last = b /\ x.expected = e
      BY Zenon DEF Item, Items
    <3>6. fin'[t] = Append(fin[t], x)
      <4>1. fin' = [fin EXCEPT ![t] = Append(@, x)]
        BY Zenon, <3>2, <3>3, <3>4
      <4> HIDE DEF x
      <4>2. DOMAIN fin = Turns
        BY Zenon DEF TypeOK
      <4> QED
        BY Zenon, <4>1, <4>2
    <3> HIDE DEF x
    <3>7. Unsent(t)' = Append(Unsent(t), x) /\ StreamOK(Append(Unsent(t), x), Sent(t), recv[t] + 1)
      <4>1. Sent(t) \in Nat
        BY SentNat
      <4>2. (x.last <=> recv[t] + 1 = Chunks) /\ (x.last => x.expected = Chunks)
        BY Zenon, <3>2, <3>3, <3>4, <3>5
      <4>3. Unsent(t)' = Append(Unsent(t), x)
        <5>1. x \in Items
          BY Zenon, <3>5
        <5> DEFINE q == resultQ[t[1]]
                   f == fin[t]
        <5>2. q \in Seq(Items) /\ f \in Seq(Items)
          BY Zenon, <2>9
        <5> HIDE DEF q, f
        <5>3. q \o Append(f, x) = Append(q \o f, x)
          BY SMT, SMTT(20), <5>1, <5>2, ConcatAppend
        <5> QED
          BY Zenon, <1>1, <3>6, <5>3 DEF Unsent, q, f
      <4> QED
        BY <2>8, <2>9, <3>2, <3>5, <4>1, <4>2, <4>3, StreamAudio
    <3>8. StreamOK(Unsent(t), Sent(t), recv[t])'
      BY ZenonT(40), <1>4, <3>2, <3>7 DEF StreamOK, Texts
    <3>9. recv'[t] # 0
      BY <3>2
    <3>10. \A r \in Pend(t)' : r.stage # 0
      BY <2>6, <3>9 DEF PhaseOf
    <3>11. \A i \in 1..Len(inbox'[t]) : inbox'[t][i].stage # 0
      BY <2>6, <3>9 DEF PhaseOf
    <3> QED
      BY Zenon, <1>1, <2>3, <2>5, <3>8, <3>10, <3>11 DEF StreamOf
  <2> QED
    BY Zenon, <1>1, <2>10, <2>11, <2>12
<1> QED
  BY Zenon, <1>3, <1>6, <1>7, AnswerFrame

(* An output moves from final_output_q to the result queue; the task ends  *)
(* with the last one.                                                      *)
LEMMA AnswerYield ==
  ASSUME SerialInv, AnswerInv, NEW t \in Turns, YieldOutput(t), [Next]_vars
  PROVE  AnswerInv'
<1> USE Constants, TurnPair, Facts
<1>1. tables = Sessions /\ t[1] \in Sessions
  BY Zenon DEF AnswerInv, QueueInv
<1>2. /\ task[t] = "run" /\ fin[t] # <<>> /\ fin' = [fin EXCEPT ![t] = Tail(@)]
      /\ task' = [task EXCEPT ![t] = IF Head(fin[t]).last THEN "ending" ELSE @]
      /\ resultQ' = [resultQ EXCEPT ![t[1]] = Append(@, Head(fin[t]))]
      /\ UNCHANGED <<tables, created, tid, routes, work, inbox, recv, open, lastTid, sender,
                     down, interrupted>>
  BY Zenon, <1>1 DEF YieldOutput, engine, endpoint
<1>3. fin[t] \in Seq(Items) /\ resultQ[t[1]] \in Seq(Items) /\ recv[t] \in 0..Chunks
  BY Zenon, <1>1 DEF TypeOK
<1> DEFINE x == Head(fin[t])
<1>4. x \in Items /\ x = fin[t][1] /\ 1 \in 1..Len(fin[t])
  BY <1>2, <1>3
<1>5. x.turn = t /\ t = <<t[1], created[t[1]]>>
  BY <1>2, <1>4 DEF ItemInv, LatestInv
<1>6. /\ resultQ'[t[1]] = Append(resultQ[t[1]], x) /\ fin'[t] = Tail(fin[t])
      /\ \A u \in Turns : u # t => fin'[u] = fin[u]
      /\ \A a \in Sessions : a # t[1] => resultQ'[a] = resultQ[a]
  BY SMT, SMTT(20), <1>1, <1>2 DEF TypeOK
<1>7. /\ task'[t] = (IF x.last THEN "ending" ELSE "run")
      /\ \A u \in Turns : u # t => task'[u] = task[u]
  BY Zenon, <1>2 DEF TypeOK
<1> HIDE DEF x
<1>8. \A u \in Turns : Sent(u)' = Sent(u) /\ Ends(u)' = Ends(u) /\ Pend(u)' = Pend(u)
  BY Zenon, <1>2, SentSame DEF Pend
<1>9. QueueInv'
  <2>1. QueueInv
    BY Zenon DEF AnswerInv
  <2>2. \A a \in Sessions : \A i \in 1..Len(resultQ'[a]) : resultQ'[a][i].turn = <<a, created[a]>>
    <3>1. \A i \in 1..Len(resultQ'[t[1]]) :
            resultQ'[t[1]][i] = x \/ (i \in 1..Len(resultQ[t[1]]) /\ resultQ'[t[1]][i] = resultQ[t[1]][i])
      BY <1>3, <1>4, <1>6
    <3>2. ASSUME NEW i \in 1..Len(resultQ'[t[1]])
          PROVE  resultQ'[t[1]][i].turn = <<t[1], created[t[1]]>>
      <4>1. CASE resultQ'[t[1]][i] = x
        BY Zenon, <1>5, <4>1
      <4>2. CASE i \in 1..Len(resultQ[t[1]]) /\ resultQ'[t[1]][i] = resultQ[t[1]][i]
        BY Zenon, <1>1, <2>1, <4>2 DEF QueueInv
      <4> QED
        BY Zenon, <3>1, <4>1, <4>2
    <3> QED
      BY Zenon, <1>6, <2>1, <3>2 DEF QueueInv
  <2>3. ASSUME NEW u \in Turns
        PROVE  /\ task'[u] \in {"none", "new"} => fin'[u] = <<>> /\ Sent(u) = 0
               /\ task'[u] = "new" => resultQ'[u[1]] = <<>>
               /\ task'[u] = "cancelled" => u \in interrupted
               /\ Ends(u) = IF Sent(u) = Chunks THEN 1 ELSE 0
    <3>1. CASE u = t
      BY Zenon, <1>7, <2>1, <3>1 DEF QueueInv
    <3>2. CASE u # t
      <4>1. task[u] = "new" => u[1] # t[1]
        BY Zenon, <1>2, <3>2 DEF SoloInv
      <4> QED
        BY Zenon, <1>6, <1>7, <2>1, <3>2, <4>1 DEF QueueInv
    <3> QED
      BY Zenon, <3>1, <3>2
  <2> QED
    BY SMT, SMTT(20), <1>1, <1>2, <1>8, <2>2, <2>3 DEF QueueInv
<1>10. ASSUME NEW u \in Turns, u # t, Live(u)' PROVE Live(u) /\ Untouched(u)
  <2>1. Live(u) /\ u[2] = created[u[1]]
    BY Zenon, <1>2, <1>10 DEF Live
  <2>2. u[1] # t[1]
    BY <1>5, <1>10, <2>1
  <2> QED
    BY Zenon, <1>2, <1>6, <1>7, <1>8, <1>10, <2>1, <2>2 DEF Untouched
<1>11. ASSUME Live(t)' PROVE StreamOf(t)' /\ SenderOf(t)'
  <2>1. Live(t)
    BY Zenon, <1>2, <1>11 DEF Live
  <2>2. StreamOf(t) /\ SenderOf(t)
    BY Zenon, <2>1 DEF AnswerInv
  <2>3. Unsent(t)' = Unsent(t)
    <3>1. Append(resultQ[t[1]], Head(fin[t])) \o Tail(fin[t]) = resultQ[t[1]] \o fin[t]
      BY Zenon, <1>2, <1>3, ConcatMove
    <3> QED
      BY Zenon, <1>6, <3>1 DEF Unsent, x
  <2>4. StreamOK(Unsent(t), Sent(t), recv[t])
    BY Zenon, <2>2 DEF StreamOf
  <2>5. StreamOK(Unsent(t), Sent(t), recv[t])'
    BY <1>2, <1>8, <2>3, <2>4 DEF StreamOK, Texts
  <2>6. task'[t] \in {"ending", "done"} => recv[t] = Chunks /\ fin'[t] = <<>>
    <3> SUFFICES ASSUME x.last PROVE recv[t] = Chunks /\ fin'[t] = <<>>
      BY Zenon, <1>7
    <3> DEFINE q == resultQ[t[1]]
               f == fin[t]
               j == Len(q) + 1
    <3>1. q \in Seq(Items) /\ f \in Seq(Items) /\ f # <<>> /\ x = f[1]
      BY Zenon, <1>2, <1>3, <1>4
    <3>2. Unsent(t) = q \o f
      BY Zenon DEF Unsent
    <3> HIDE DEF q, f
    <3>3. /\ q \o f \in Seq(Items) /\ Len(q \o f) = Len(q) + Len(f)
          /\ (q \o f)[j] = f[1] /\ j \in 1..Len(q \o f) /\ Len(q) \in Nat /\ Len(f) \in Nat
      BY <3>1
    <3>4. recv[t] = Chunks /\ j = Len(q \o f)
      <4>1. (q \o f)[j].last
        BY Zenon, <3>1, <3>3
      <4>2. Sent(t) \in Nat
        BY Zenon, SentNat
      <4> HIDE DEF j
      <4> QED
        BY Zenon, <1>3, <2>4, <3>2, <3>3, <4>1, <4>2, StreamLast
    <3>5. Len(f) = 1
      <4> DEFINE a == Len(q)
                 b == Len(f)
      <4>1. a \in Nat /\ b \in Nat /\ a + 1 = a + b
        BY Zenon, <3>3, <3>4
      <4> HIDE DEF a, b
      <4>2. b = 1
        BY <4>1
      <4> QED
        BY Zenon, <4>2 DEF b
    <3>6. Tail(f) = <<>>
      BY <3>1, <3>5
    <3> QED
      BY Zenon, <1>6, <3>4, <3>6 DEF f
  <2>7. StreamOf(t)'
    BY Zenon, <1>2, <1>8, <2>2, <2>3, <2>5, <2>6 DEF StreamOf
  <2>8. Fresh(t)' <=> Fresh(t)
    BY Zenon, <1>2, <2>3 DEF Fresh
  <2>9. SenderOf(t)'
    BY Zenon, <1>2, <1>7, <1>8, <2>2, <2>8 DEF SenderOf
  <2> QED
    BY Zenon, <2>7, <2>9
<1> QED
  BY Zenon, <1>9, <1>10, <1>11, AnswerFrame

(* What the sender does with an item: it is of the last turn, and the end  *)
(* of the response goes out with the last chunk.                           *)
LEMMA SendEffect ==
  ASSUME SerialInv, AnswerInv, NEW s \in Sessions, SendItem(s)
  PROVE  \E t \in Turns : \E k \in {"text", "audio"} :
           /\ t = <<s, created[s]>> /\ Live(t) /\ task[t] # "new" /\ ~Fresh(t)
           /\ StreamOK(Tail(Unsent(t)), Sent(t) + (IF k = "audio" THEN 1 ELSE 0), recv[t])
           /\ resultQ'[s] \o fin[t] = Tail(Unsent(t))
           /\ sender'[s].on /\ sender'[s].recv = Sent(t) + (IF k = "audio" THEN 1 ELSE 0)
           /\ k = "audio" => Sent(t) < Chunks
           /\ down'[s] = IF k = "audio" /\ Sent(t) + 1 = Chunks
                         THEN down[s] \o <<EndOf(t)>> \o <<[turn |-> t, kind |-> k]>>
                         ELSE down[s] \o <<[turn |-> t, kind |-> k]>>
<1> USE Constants, TurnPair, Facts
<1>1. resultQ[s] \in Seq(Items) /\ resultQ[s] # <<>> /\ s \in open /\ sender[s].on
  BY Zenon DEF SendItem, TypeOK
<1> DEFINE it == resultQ[s][1]
           snd == IF it.kind = "audio"
                  THEN [on |-> TRUE, recv |-> sender[s].recv + 1, expected |-> it.expected]
                  ELSE sender[s]
<1>2. it \in Items /\ it = Head(resultQ[s]) /\ 1 \in 1..Len(resultQ[s])
  BY <1>1
<1>3. it.turn \in Turns /\ it.kind \in {"text", "audio"} /\ it.expected \in {-1, Chunks}
  BY Zenon, <1>2 DEF Items
<1>4. PICK t \in Turns : t = it.turn
  BY Zenon, <1>3
<1>5. PICK k \in {"text", "audio"} : k = it.kind
  BY Zenon, <1>3
<1>6. t = <<s, created[s]>> /\ t \notin interrupted
  BY Zenon, <1>2, <1>4 DEF AnswerInv, QueueInv, ItemInv
<1>7. Live(t) /\ t[1] = s
  BY Zenon, <1>1, <1>6 DEF Live
<1>8. task[t] # "new"
  BY Zenon, <1>1, <1>7 DEF AnswerInv, QueueInv
<1>9. fin[t] \in Seq(Items) /\ Unsent(t) = resultQ[s] \o fin[t] /\ recv[t] \in 0..Chunks
  BY Zenon, <1>7 DEF Unsent, TypeOK
<1>10. /\ Unsent(t) \in Seq(Items) /\ Unsent(t) # <<>> /\ Unsent(t)[1] = it
       /\ Tail(resultQ[s]) \o fin[t] = Tail(Unsent(t))
  <2> DEFINE q == resultQ[s]
             f == fin[t]
  <2>1. q \in Seq(Items) /\ f \in Seq(Items) /\ q # <<>> /\ q[1] = it
    BY Zenon, <1>1, <1>9
  <2>2. Unsent(t) = q \o f
    BY Zenon, <1>9
  <2> HIDE DEF q, f, it
  <2>3. Tail(q) \o f = Tail(q \o f) /\ (q \o f)[1] = q[1] /\ q \o f # <<>>
    BY Zenon, <2>1, ConcatTail
  <2>4. q \o f \in Seq(Items)
    BY <2>1
  <2> QED
    BY Zenon, <2>1, <2>2, <2>3, <2>4 DEF q, f
<1>11. ~Fresh(t)
  BY Zenon, <1>10 DEF Fresh
<1>12. /\ StreamOK(Unsent(t), Sent(t), recv[t])
       /\ sender[s].recv = Sent(t) /\ Sent(t) \in Nat
  BY Zenon, <1>7, <1>8, <1>11, SentNat DEF AnswerInv, StreamOf, SenderOf
<1>13. /\ StreamOK(Tail(Unsent(t)), Sent(t) + (IF k = "audio" THEN 1 ELSE 0), recv[t])
       /\ k = "text" => Sent(t) = 0
       /\ k = "audio" => Sent(t) < Chunks /\ (Sent(t) + 1 = Chunks => it.expected = Chunks)
  BY Zenon, <1>5, <1>9, <1>10, <1>12, StreamSend
<1>14. resultQ' = [resultQ EXCEPT ![s] = Tail(@)] /\ sender' = [sender EXCEPT ![s] = snd]
  BY Zenon, <1>2 DEF SendItem
<1>15. resultQ'[s] = Tail(resultQ[s]) /\ sender'[s] = snd
  BY <1>14 DEF TypeOK
<1>16. sender[s] \in [on : BOOLEAN, recv : Nat, expected : {-1, Chunks}]
  BY Zenon DEF TypeOK
<1>17. snd.on /\ snd.recv = Sent(t) + (IF k = "audio" THEN 1 ELSE 0)
  BY <1>1, <1>5, <1>12, <1>16
<1>18. ResponseEnds(snd) <=> k = "audio" /\ Sent(t) + 1 = Chunks
  <2>1. CASE k = "audio"
    <3>1. snd.recv = Sent(t) + 1 /\ snd.expected = it.expected
      BY Zenon, <1>5, <1>12, <2>1
    <3> HIDE DEF snd, it
    <3> QED
      BY <1>3, <1>12, <1>13, <2>1, <3>1 DEF ResponseEnds
  <2>2. CASE k = "text"
    <3>1. snd.recv = 0 /\ snd.expected \in {-1, Chunks}
      BY Zenon, <1>5, <1>12, <1>13, <1>16, <2>2
    <3> HIDE DEF snd, it
    <3> QED
      BY <2>2, <3>1 DEF ResponseEnds
  <2> QED
    BY Zenon, <2>1, <2>2
<1>19. down'[s] = down[s] \o (IF ResponseEnds(snd) THEN <<EndOf(t)>> ELSE <<>>)
                    \o <<[turn |-> t, kind |-> k]>>
  <2>1. down' = [down EXCEPT ![s] = @ \o (IF ResponseEnds(snd) THEN <<EndOf(it.turn)>> ELSE <<>>)
                    \o <<[turn |-> it.turn, kind |-> it.kind]>>]
    BY Zenon, <1>2 DEF SendItem
  <2> HIDE DEF snd, it
  <2> QED
    BY Zenon, <1>4, <1>5, <2>1 DEF TaskInv
<1> HIDE DEF snd, it
<1>20. down[s] \o <<>> = down[s]
  <2>1. down[s] \in Seq(Messages)
    BY Zenon DEF TaskInv
  <2> QED
    BY <2>1
<1>21. down'[s] = IF k = "audio" /\ Sent(t) + 1 = Chunks
                 THEN down[s] \o <<EndOf(t)>> \o <<[turn |-> t, kind |-> k]>>
                 ELSE down[s] \o <<[turn |-> t, kind |-> k]>>
  BY Zenon, <1>18, <1>19, <1>20
<1> QED
  BY Zenon, <1>6, <1>7, <1>8, <1>10, <1>11, <1>13, <1>15, <1>17, <1>21

-----------------------------------------------------------------------------
(* A chunk of turn t, as the client receives it. *)
AudioOf(t) == [turn |-> t, kind |-> "audio"]

(* No turn is told twice that its response is over, and it is told so when *)
(* only its last chunk is to come.                                         *)
OnceOK(q) ==
  \A i \in 1..Len(q) :
    q[i].kind = "end_of_response" =>
      Count(q, EndOf(q[i].turn), i) = 1 /\ Count(q, AudioOf(q[i].turn), i) = Chunks - 1

(* Messages of different kinds or turns differ. *)
LEMMA MessageKinds ==
  \A t \in Turns :
    /\ EndOf(t) \in Messages /\ EndOf(t).kind = "end_of_response" /\ EndOf(t).turn = t
    /\ AudioOf(t).kind = "audio" /\ AudioOf(t).turn = t
BY Zenon DEF EndOf, AudioOf, Messages

(* A message that is no end of response, or the first of its turn in its   *)
(* place, keeps OnceOK.                                                    *)
LEMMA OnceSnoc ==
  ASSUME NEW q \in Seq(Messages), NEW m \in Messages, OnceOK(q),
         m.kind = "end_of_response" =>
           /\ m = EndOf(m.turn) /\ Count(q, EndOf(m.turn), Len(q)) = 0
           /\ Count(q, AudioOf(m.turn), Len(q)) = Chunks - 1
  PROVE  OnceOK(q \o <<m>>)
<1> DEFINE p == q \o <<m>>
<1>1. /\ p \in Seq(Messages) /\ Len(p) = Len(q) + 1 /\ p[Len(q) + 1] = m /\ Len(q) \in Nat
      /\ \A i \in 1..Len(q) : p[i] = q[i]
      /\ \A x : Count(p, x, Len(p)) = Count(q, x, Len(q)) + (IF m = x THEN 1 ELSE 0)
      /\ \A x : \A i \in 0..Len(q) : Count(p, x, i) = Count(q, x, i)
  BY Zenon, MessageSnoc DEF Snoc
<1> HIDE DEF p
<1>2. SUFFICES ASSUME NEW i \in 1..Len(p), p[i].kind = "end_of_response"
               PROVE  /\ Count(p, EndOf(p[i].turn), i) = 1
                      /\ Count(p, AudioOf(p[i].turn), i) = Chunks - 1
  BY Zenon DEF OnceOK, p
<1>3. CASE i = Len(p)
  <2>1. p[i] = m /\ m.turn \in Turns
    BY Zenon, <1>1, <1>3 DEF Messages
  <2>2. m # AudioOf(m.turn) /\ m = EndOf(m.turn)
    <3>1. PICK t \in Turns : t = m.turn
      BY Zenon, <2>1
    <3>2. EndOf(t) # AudioOf(t)
      BY Zenon, MessageKinds
    <3> QED
      BY Zenon, <1>2, <2>1, <3>1, <3>2
  <2>3. Count(p, EndOf(m.turn), Len(p)) = 0 + 1
    BY Zenon, <1>1, <1>2, <2>1, <2>2
  <2>4. Count(p, AudioOf(m.turn), Len(p)) = Chunks - 1
    <3>1. Count(p, AudioOf(m.turn), Len(p)) = (Chunks - 1) + 0
      BY Zenon, <1>1, <1>2, <2>1, <2>2
    <3> QED
      BY <3>1, Constants
  <2> QED
    BY <1>3, <2>1, <2>3, <2>4
<1>4. CASE i # Len(p)
  <2>1. i \in 1..Len(q) /\ i \in 0..Len(q)
    BY <1>1, <1>4
  <2>2. p[i] = q[i]
    BY Zenon, <1>1, <2>1
  <2>3. Count(q, EndOf(q[i].turn), i) = 1 /\ Count(q, AudioOf(q[i].turn), i) = Chunks - 1
    BY Zenon, <1>2, <2>1, <2>2 DEF OnceOK
  <2> QED
    BY Zenon, <1>1, <2>1, <2>2, <2>3
<1> QED
  BY Zenon, <1>3, <1>4

(* What a client gets when an item of kind k of turn t is sent after n of  *)
(* its chunks, and what that does to the counts.                           *)
LastChunk(k, n) == k = "audio" /\ n + 1 = Chunks

Delivered(q, t, k, n) ==
  IF LastChunk(k, n) THEN q \o <<EndOf(t)>> \o <<[turn |-> t, kind |-> k]>>
                     ELSE q \o <<[turn |-> t, kind |-> k]>>

Counted(p, q, t, k, n) ==
  /\ \A u \in Turns :
       /\ Count(p, AudioOf(u), Len(p)) =
            Count(q, AudioOf(u), Len(q)) + (IF u = t /\ k = "audio" THEN 1 ELSE 0)
       /\ Count(p, EndOf(u), Len(p)) =
            Count(q, EndOf(u), Len(q)) + (IF u = t /\ LastChunk(k, n) THEN 1 ELSE 0)
  /\ OnceOK(q) /\ (LastChunk(k, n) => /\ Count(q, EndOf(t), Len(q)) = 0
                                      /\ Count(q, AudioOf(t), Len(q)) = Chunks - 1) => OnceOK(p)

(* The counts after an item is sent. *)
LEMMA SentAfter ==
  ASSUME NEW q \in Seq(Messages), NEW t \in Turns, NEW k \in {"text", "audio"}, NEW n
  PROVE  Counted(Delivered(q, t, k, n), q, t, k, n)
<1> DEFINE p == Delivered(q, t, k, n)
<1>e. PICK e \in BOOLEAN : e <=> LastChunk(k, n)
  BY Zenon
<1>p. p = IF e THEN q \o <<EndOf(t)>> \o <<[turn |-> t, kind |-> k]>>
               ELSE q \o <<[turn |-> t, kind |-> k]>>
  BY Zenon, <1>e DEF Delivered
<1> HIDE DEF p
<1> DEFINE m == [turn |-> t, kind |-> k]
           r == IF e THEN q \o <<EndOf(t)>> ELSE q
<1>1. /\ m \in Messages /\ EndOf(t) \in Messages /\ m.kind # "end_of_response"
      /\ EndOf(t).kind = "end_of_response" /\ EndOf(t).turn = t
      /\ \A u \in Turns : /\ m # EndOf(u) /\ EndOf(t) # AudioOf(u)
                          /\ m = AudioOf(u) <=> u = t /\ k = "audio"
                          /\ EndOf(t) = EndOf(u) <=> u = t
  <2>1. m \in Messages /\ m.kind = k /\ m.turn = t
    BY Zenon DEF Messages
  <2>2. k = "audio" => m = AudioOf(t)
    BY Zenon DEF AudioOf
  <2> HIDE DEF m
  <2> QED
    BY <2>1, <2>2, MessageKinds
<1>2. p = r \o <<m>>
  BY Zenon, <1>p
<1> HIDE DEF m
<1>3. /\ r \in Seq(Messages)
      /\ \A x : Count(r, x, Len(r)) = Count(q, x, Len(q)) + (IF e /\ EndOf(t) = x THEN 1 ELSE 0)
  <2>1. CASE e
    <3>1. r = q \o <<EndOf(t)>>
      BY Zenon, <2>1
    <3> HIDE DEF r
    <3>2. r \in Seq(Messages)
      BY <1>1, <3>1
    <3>3. \A x : Count(r, x, Len(r)) = Count(q, x, Len(q)) + (IF EndOf(t) = x THEN 1 ELSE 0)
      BY <1>1, <3>1, MessageSnoc DEF Snoc
    <3> QED
      BY Zenon, <2>1, <3>2, <3>3
  <2>2. CASE ~e
    <3>1. r = q
      BY Zenon, <2>2
    <3>2. Len(q) \in Nat
      OBVIOUS
    <3>3. \A x : Count(q, x, Len(q)) \in Nat
      BY Zenon, <3>2, CountNat
    <3> QED
      BY <2>2, <3>1, <3>3
  <2> QED
    BY Zenon, <2>1, <2>2
<1>4. OnceOK(q) /\ (e => /\ Count(q, EndOf(t), Len(q)) = 0
                         /\ Count(q, AudioOf(t), Len(q)) = Chunks - 1) => OnceOK(r)
  <2>1. CASE e
    BY Zenon, <1>1, <2>1, OnceSnoc
  <2>2. CASE ~e
    BY Zenon, <2>2
  <2> QED
    BY Zenon, <2>1, <2>2
<1> HIDE DEF r
<1>5. \A x : Count(p, x, Len(p)) = Count(r, x, Len(r)) + (IF m = x THEN 1 ELSE 0)
  <2>1. Snoc(r \o <<m>>, r, m)
    BY Zenon, <1>1, <1>3, MessageSnoc
  <2> QED
    BY Zenon, <1>2, <2>1 DEF Snoc
<1>6. OnceOK(r) => OnceOK(p)
  BY Zenon, <1>1, <1>2, <1>3, OnceSnoc
<1>7. Len(q) \in Nat
  OBVIOUS
<1>8. \A x : Count(q, x, Len(q)) \in Nat
  BY Zenon, <1>7, CountNat
<1>9. ASSUME NEW u \in Turns
      PROVE  /\ Count(p, AudioOf(u), Len(p)) =
                  Count(q, AudioOf(u), Len(q)) + (IF u = t /\ k = "audio" THEN 1 ELSE 0)
             /\ Count(p, EndOf(u), Len(p)) =
                  Count(q, EndOf(u), Len(q)) + (IF u = t /\ e THEN 1 ELSE 0)
  <2>1. /\ Count(p, AudioOf(u), Len(p)) = Count(r, AudioOf(u), Len(r)) + (IF m = AudioOf(u) THEN 1 ELSE 0)
        /\ Count(p, EndOf(u), Len(p)) = Count(r, EndOf(u), Len(r)) + (IF m = EndOf(u) THEN 1 ELSE 0)
        /\ Count(r, AudioOf(u), Len(r)) = Count(q, AudioOf(u), Len(q)) + (IF e /\ EndOf(t) = AudioOf(u) THEN 1 ELSE 0)
        /\ Count(r, EndOf(u), Len(r)) = Count(q, EndOf(u), Len(q)) + (IF e /\ EndOf(t) = EndOf(u) THEN 1 ELSE 0)
        /\ Count(q, AudioOf(u), Len(q)) \in Nat /\ Count(q, EndOf(u), Len(q)) \in Nat
    BY Zenon, <1>3, <1>5, <1>8
  <2> QED
    BY <1>1, <2>1
<1> QED
  BY Zenon, <1>e, <1>4, <1>6, <1>9 DEF Counted, p

(* The step of the sender, on the counts of its client's messages. *)
SentEffect(s, t, k) ==
  /\ \A u \in Turns : u[1] = s =>
       /\ Sent(u)' = Sent(u) + (IF u = t /\ k = "audio" THEN 1 ELSE 0)
       /\ Ends(u)' = Ends(u) + (IF u = t /\ LastChunk(k, Sent(t)) THEN 1 ELSE 0)
  /\ OnceOK(down[s]) => OnceOK(down'[s])

(* An end of response goes out with Chunks - 1 chunks sent, and first. *)
LEMMA SendCounts ==
  ASSUME SerialInv, AnswerInv, NEW s \in Sessions, NEW t \in Turns, NEW k \in {"text", "audio"},
         t[1] = s, down'[s] = Delivered(down[s], t, k, Sent(t))
  PROVE  SentEffect(s, t, k)
<1> USE Constants, TurnPair, Facts
<1>1. PICK q : q = down[s]
  BY Zenon
<1>2. PICK p : p = down'[s]
  BY Zenon
<1>3. PICK n : n = Sent(t)
  BY Zenon
<1>4. q \in Seq(Messages) /\ p = Delivered(q, t, k, n)
  BY Zenon, <1>1, <1>2, <1>3 DEF TaskInv
<1>5. Counted(p, q, t, k, n)
  BY Zenon, <1>4, SentAfter
<1>6. \A u \in Turns : u[1] = s =>
        /\ Sent(u) = Count(q, AudioOf(u), Len(q)) /\ Sent(u)' = Count(p, AudioOf(u), Len(p))
        /\ Ends(u) = Count(q, EndOf(u), Len(q)) /\ Ends(u)' = Count(p, EndOf(u), Len(p))
  BY Zenon, <1>1, <1>2, SentCount DEF AudioOf
<1>7. Sent(t) \in Nat /\ Ends(t) = (IF Sent(t) = Chunks THEN 1 ELSE 0)
  BY Zenon, SentNat DEF AnswerInv, QueueInv
<1>8. LastChunk(k, n) => Count(q, AudioOf(t), Len(q)) = Chunks - 1 /\ Count(q, EndOf(t), Len(q)) = 0
  <2>1. LastChunk(k, n) => Sent(t) = Chunks - 1 /\ Ends(t) = 0
    BY <1>3, <1>7 DEF LastChunk
  <2> QED
    BY Zenon, <1>6, <2>1
<1>9. OnceOK(q) => OnceOK(p)
  BY Zenon, <1>5, <1>8 DEF Counted
<1>10. ASSUME NEW u \in Turns, u[1] = s
       PROVE  /\ Sent(u)' = Sent(u) + (IF u = t /\ k = "audio" THEN 1 ELSE 0)
              /\ Ends(u)' = Ends(u) + (IF u = t /\ LastChunk(k, Sent(t)) THEN 1 ELSE 0)
  BY Zenon, <1>3, <1>5, <1>6, <1>10 DEF Counted
<1> QED
  BY Zenon, <1>1, <1>2, <1>9, <1>10 DEF SentEffect

(* The sender takes the first output of the last turn. *)
LEMMA AnswerSend ==
  ASSUME SerialInv, AnswerInv, NEW s \in Sessions, SendItem(s), [Next]_vars
  PROVE  /\ AnswerInv'
         /\ \A a \in Sessions : OnceOK(down[a]) => OnceOK(down'[a])
<1> USE Constants, TurnPair, Facts
<1>1. PICK t \in Turns : \E k \in {"text", "audio"} :
        /\ t = <<s, created[s]>> /\ Live(t) /\ task[t] # "new" /\ ~Fresh(t)
        /\ StreamOK(Tail(Unsent(t)), Sent(t) + (IF k = "audio" THEN 1 ELSE 0), recv[t])
        /\ resultQ'[s] \o fin[t] = Tail(Unsent(t))
        /\ sender'[s].on /\ sender'[s].recv = Sent(t) + (IF k = "audio" THEN 1 ELSE 0)
        /\ k = "audio" => Sent(t) < Chunks
        /\ down'[s] = Delivered(down[s], t, k, Sent(t))
  BY Zenon, SendEffect DEF Delivered, LastChunk
<1>2. PICK k \in {"text", "audio"} :
        /\ t = <<s, created[s]>> /\ Live(t) /\ task[t] # "new" /\ ~Fresh(t)
        /\ StreamOK(Tail(Unsent(t)), Sent(t) + (IF k = "audio" THEN 1 ELSE 0), recv[t])
        /\ resultQ'[s] \o fin[t] = Tail(Unsent(t))
        /\ sender'[s].on /\ sender'[s].recv = Sent(t) + (IF k = "audio" THEN 1 ELSE 0)
        /\ k = "audio" => Sent(t) < Chunks
        /\ down'[s] = Delivered(down[s], t, k, Sent(t))
  BY Zenon, <1>1
<1>3. /\ \A u \in Turns : u[1] = s =>
           /\ Sent(u)' = Sent(u) + (IF u = t /\ k = "audio" THEN 1 ELSE 0)
           /\ Ends(u)' = Ends(u) + (IF u = t /\ LastChunk(k, Sent(t)) THEN 1 ELSE 0)
      /\ OnceOK(down[s]) => OnceOK(down'[s])
  <2>1. t[1] = s
    BY Zenon, <1>2
  <2>2. SentEffect(s, t, k)
    BY Zenon, <1>2, <2>1, SendCounts
  <2> QED
    BY Zenon, <2>2 DEF SentEffect
<1>4. /\ resultQ[s] # <<>> /\ s \in open /\ resultQ' = [resultQ EXCEPT ![s] = Tail(@)]
      /\ UNCHANGED <<tables, created, tid, task, routes, work, inbox, recv, fin, open, lastTid,
                     interrupted>>
  BY Zenon DEF SendItem, engine, turnState
<1>5. \A a \in Sessions : a # s =>
        resultQ'[a] = resultQ[a] /\ sender'[a] = sender[a] /\ down'[a] = down[a]
  BY DEF SendItem, TypeOK, TaskInv
<1>6. t[1] = s /\ task[t] \notin {"none", "new"} /\ t[2] = created[s]
  <2>1. t[1] = s /\ t[2] = created[s]
    BY Zenon, <1>2
  <2>2. created[s] \in Nat /\ ~(t[2] > created[t[1]])
    BY <2>1 DEF TypeOK
  <2>3. task[t] # "none"
    BY Zenon, <2>2 DEF TaskInv
  <2> QED
    BY Zenon, <1>2, <2>1, <2>3
<1>7. \A u \in Turns : Sent(u) \in Nat /\ Ends(u) \in Nat
  BY Zenon, SentNat
<1>8. \A u \in Turns : u # t => Sent(u)' = Sent(u) /\ Ends(u)' = Ends(u)
  <2> SUFFICES ASSUME NEW u \in Turns, u # t PROVE Sent(u)' = Sent(u) /\ Ends(u)' = Ends(u)
    BY Zenon
  <2>1. CASE u[1] = s
    BY <1>3, <1>7, <2>1
  <2>2. CASE u[1] # s
    BY Zenon, <1>5, <2>2, SentSame
  <2> QED
    BY Zenon, <2>1, <2>2
<1>9. /\ Sent(t)' = Sent(t) + (IF k = "audio" THEN 1 ELSE 0)
      /\ Ends(t)' = Ends(t) + (IF k = "audio" /\ Sent(t) + 1 = Chunks THEN 1 ELSE 0)
  BY Zenon, <1>3, <1>6 DEF LastChunk
<1>10. QueueInv'
  <2>1. QueueInv
    BY Zenon DEF AnswerInv
  <2>2. \A i \in 1..Len(resultQ'[s]) : resultQ'[s][i].turn = <<s, created[s]>>
    <3>1. resultQ[s] \in Seq(Items) /\ resultQ'[s] = Tail(resultQ[s])
      BY Zenon, <1>4 DEF TypeOK
    <3> DEFINE q == resultQ[s]
               p == resultQ'[s]
    <3>2. q \in Seq(Items) /\ q # <<>> /\ p = Tail(q)
      BY Zenon, <1>4, <3>1
    <3>3. \A i \in 1..Len(q) : q[i].turn = <<s, created[s]>>
      BY Zenon, <2>1 DEF QueueInv
    <3> HIDE DEF p, q
    <3>4. ASSUME NEW i \in 1..Len(p) PROVE i + 1 \in 1..Len(q) /\ p[i] = q[i + 1]
      BY <3>2
    <3>5. \A i \in 1..Len(p) : p[i].turn = <<s, created[s]>>
      BY ZenonT(40), <3>3, <3>4
    <3> QED
      BY Zenon, <3>5 DEF p
  <2>3. ASSUME NEW u \in Turns
        PROVE  /\ task[u] \in {"none", "new"} => fin[u] = <<>> /\ Sent(u)' = 0
               /\ task[u] = "new" => resultQ'[u[1]] = <<>>
               /\ task[u] = "cancelled" => u \in interrupted
               /\ Ends(u)' = IF Sent(u)' = Chunks THEN 1 ELSE 0
    <3>1. task[u] = "new" => u[1] # s
      BY Zenon, <1>4, <2>1 DEF QueueInv
    <3>2. Ends(u)' = IF Sent(u)' = Chunks THEN 1 ELSE 0
      <4>1. CASE u = t
        BY <1>2, <1>7, <1>9, <2>1, <4>1 DEF QueueInv
      <4>2. CASE u # t
        BY Zenon, <1>8, <2>1, <4>2 DEF QueueInv
      <4> QED
        BY Zenon, <4>1, <4>2
    <3> QED
      BY Zenon, <1>5, <1>6, <1>8, <2>1, <3>1, <3>2 DEF QueueInv
  <2> QED
    BY SMT, SMTT(20), <1>4, <1>5, <2>1, <2>2, <2>3 DEF QueueInv
<1>11. ASSUME NEW u \in Turns, u # t, Live(u)' PROVE Live(u) /\ Untouched(u)
  <2>1. Live(u) /\ u[2] = created[u[1]]
    BY Zenon, <1>4, <1>11 DEF Live
  <2>2. u[1] # s
    BY <1>6, <1>11, <2>1
  <2> QED
    BY Zenon, <1>4, <1>5, <2>1, <2>2 DEF Untouched, Pend
<1>12. StreamOf(t)' /\ SenderOf(t)'
  <2>1. StreamOf(t) /\ SenderOf(t)
    BY Zenon, <1>2 DEF AnswerInv
  <2>2. Unsent(t)' = Tail(Unsent(t))
    BY Zenon, <1>2, <1>4, <1>6 DEF Unsent
  <2>3. StreamOK(Unsent(t), Sent(t), recv[t])'
    <3>1. PICK q : q = Tail(Unsent(t))
      BY Zenon
    <3>2. PICK a : a = Sent(t) + (IF k = "audio" THEN 1 ELSE 0)
      BY Zenon
    <3>3. PICK n : n = recv[t]
      BY Zenon
    <3>4. StreamOK(q, a, n)
      BY Zenon, <1>2, <3>1, <3>2, <3>3
    <3>5. Unsent(t)' = q /\ Sent(t)' = a /\ recv'[t] = n
      BY Zenon, <1>4, <1>9, <2>2, <3>1, <3>2, <3>3
    <3> QED
      BY Zenon, <3>4, <3>5 DEF StreamOK, Texts
  <2>4. Unsent(t) # <<>>
    <3>1. resultQ[s] \in Seq(Items) /\ fin[t] \in Seq(Items)
      BY Zenon DEF TypeOK
    <3> QED
      BY <1>4, <1>6, <3>1, ConcatTail DEF Unsent
  <2>5. Pend(t)' = Pend(t)
    BY Zenon, <1>4 DEF Pend
  <2>6. StreamOf(t)'
    BY Zenon, <1>4, <2>1, <2>3, <2>4, <2>5 DEF StreamOf
  <2>7. SenderOf(t)'
    <3>1. /\ lastTid[s] = tid[t]
          /\ \A u \in Turns : u[1] = s /\ u # t => task[u] \notin {"run", "cancelled", "ending"}
      BY Zenon, <1>2, <1>6, <2>1 DEF SenderOf
    <3>2. sender'[s].on /\ sender'[s].recv = Sent(t)'
      BY Zenon, <1>2, <1>9
    <3> QED
      BY Zenon, <1>4, <1>6, <3>1, <3>2 DEF SenderOf
  <2> QED
    BY Zenon, <2>6, <2>7
<1>13. AnswerInv'
  BY Zenon, <1>10, <1>11, <1>12, AnswerFrame
<1> QED
  BY Zenon, <1>3, <1>5, <1>13

(* The steps that change no part of the answer. *)
LEMMA AnswerIdle ==
  ASSUME SerialInv, AnswerInv, [Next]_vars,
         UNCHANGED <<tables, created, tid, task, routes, inbox, recv, fin, open, lastTid, sender,
                     down, resultQ, interrupted>>,
         work' \subseteq work
  PROVE  AnswerInv'
<1>1. QueueInv'
  BY Zenon, QueueKept DEF AnswerInv
<1>2. ASSUME NEW t \in Turns, Live(t)' PROVE Live(t) /\ Untouched(t)
  <2>1. Pend(t)' \subseteq Pend(t)
    BY Zenon, PendFewer
  <2> QED
    BY Zenon, <1>2, <2>1 DEF Live, Untouched
<1> QED
  BY Zenon, <1>1, <1>2, AnswerFrame

(* Every operation keeps the answer in order. *)
LEMMA AnswerStep ==
  ASSUME Prompt, ~Overlap, SerialInv, AnswerInv, Distinct, [Next]_vars
  PROVE  AnswerInv'
<1>1. CASE Tick
  BY Zenon, <1>1, AnswerIdle DEF Tick, engine, turnState, endpoint
<1>2. ASSUME NEW s \in Sessions, PutAudio(s) PROVE AnswerInv'
  BY Zenon, <1>2, AnswerIdle DEF PutAudio, turnState, endpoint
<1>3. ASSUME NEW r \in work, StageError(r) \/ StageDrop(r) PROVE AnswerInv'
  BY Zenon, <1>3, AnswerIdle DEF StageError, StageDrop, engine, endpoint
<1>4. CASE UNCHANGED vars
  BY Zenon, <1>4, AnswerIdle DEF vars, engine, turnState, endpoint
<1> QED
  BY ZenonT(40), <1>1, <1>2, <1>3, <1>4, AnswerEndOfUtterance, AnswerBargeIn,
     AnswerPoll, AnswerSend,
     AnswerDisconnect, AnswerBegin, AnswerWorker, AnswerYield, AnswerEnterFinally,
     AnswerFinalize, AnswerHarvest DEF Next

(* Only the sender writes to the client. *)
LEMMA OnceStep ==
  ASSUME SerialInv, AnswerInv, [Next]_vars, NEW s \in Sessions, OnceOK(down[s])
  PROVE  OnceOK(down'[s])
<1>1. ASSUME NEW a \in Sessions, SendItem(a) PROVE OnceOK(down'[s])
  BY Zenon, <1>1, AnswerSend
<1>2. CASE UNCHANGED down
  BY Zenon, <1>2
<1> QED
  BY Zenon, <1>1, <1>2 DEF Next, vars, endpoint, Tick, PutAudio, EndOfUtterance,
     BargeIn, Poll,
     Disconnect, BeginTurn, TurnWorker, YieldOutput, EnterFinally, Finalize, Harvest, StageError,
     StageDrop

(* No turn, no answer. *)
LEMMA InitAnswer ==
  ASSUME Init
  PROVE  AnswerInv /\ \A s \in Sessions : OnceOK(down[s])
<1> USE Constants, TurnPair
<1>1. \A s \in Sessions : down[s] = <<>> /\ resultQ[s] = <<>> /\ lastTid[s] = NoTid /\ created[s] = 0
  BY Zenon DEF Init
<1>2. \A t \in Turns : Sent(t) = 0 /\ Ends(t) = 0
  <2> SUFFICES ASSUME NEW t \in Turns PROVE Sent(t) = 0 /\ Ends(t) = 0
    BY Zenon
  <2>1. Len(down[t[1]]) = 0
    BY <1>1
  <2>2. Sent(t) = 0
    <3>1. Sent(t) = Count(down[t[1]], [turn |-> t, kind |-> "audio"], 0)
      BY Zenon, <2>1, SentCount
    <3> QED
      BY Zenon, <3>1, CountZero
  <2>3. Ends(t) = 0
    <3>1. Ends(t) = Count(down[t[1]], EndOf(t), 0)
      BY Zenon, <2>1, SentCount
    <3> QED
      BY Zenon, <3>1, CountZero
  <2> QED
    BY Zenon, <2>2, <2>3
<1>3. LastInv /\ \A s \in Sessions : OnceOK(down[s])
  BY <1>1 DEF LastInv, OnceOK
<1>4. QueueInv
  BY <1>1, <1>2 DEF Init, QueueInv
<1>5. \A t \in Turns : ~Live(t)
  BY <1>1 DEF Live
<1> QED
  BY Zenon, <1>3, <1>4, <1>5 DEF AnswerInv

(* Where turns of a session do not overlap, their ids differ and the event *)
(* loop keeps up with the stages, the client is told at most once per turn *)
(* that the response is over, and when only its last chunk is to come:     *)
(* queue_generator compares stage_2_recv_count with total_expected,        *)
(* whatever barge-ins, errors and disconnections happen and whatever other *)
(* sessions do.                                                            *)
THEOREM EndOnce ==
  ASSUME Prompt, ~Overlap
  PROVE  Spec => []EndOfResponseOnce
<1> DEFINE Inv == Distinct => AnswerInv /\ \A s \in Sessions : OnceOK(down[s])
<1>1. Init => Inv
  BY Zenon, InitAnswer
<1>2. SerialInv /\ Inv /\ [Next]_vars => Inv'
  <2> SUFFICES ASSUME SerialInv, Inv, [Next]_vars, Distinct'
               PROVE  AnswerInv' /\ \A s \in Sessions : OnceOK(down[s])'
    BY Zenon
  <2>1. Distinct
    BY Zenon, DistinctBefore, Facts
  <2>2. AnswerInv /\ \A s \in Sessions : OnceOK(down[s])
    BY Zenon, <2>1
  <2>3. AnswerInv'
    BY Zenon, <2>1, <2>2, AnswerStep
  <2>4. \A s \in Sessions : OnceOK(down'[s])
    BY Zenon, <2>2, OnceStep
  <2>5. \A s \in Sessions : OnceOK(down'[s]) => OnceOK(down[s])'
    BY Zenon DEF OnceOK, Count, EndOf, AudioOf
  <2> QED
    BY Zenon, <2>3, <2>4, <2>5
<1>3. Inv => EndOfResponseOnce
  BY Zenon DEF EndOfResponseOnce, OnceOK, CountOf, Count, EndOf, AudioOf
<1>4. Spec => []SerialInv
  BY Zenon, SerialInvariance
<1> HIDE DEF Inv
<1> QED
  BY <1>1, <1>2, <1>3, <1>4, PTL DEF Spec
=============================================================================
