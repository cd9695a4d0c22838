----------------------- MODULE TalkerSchedulerProofs -----------------------
(***************************************************************************)
(* Proofs about TalkerScheduler, for any number of turns, sub-requests and *)
(* blocks and any length of the prefill.  The types need no assumption;    *)
(* that a stop token freezes the lockers needs a batch of one request; and *)
(* that a sub-request runs on the context, the token and the history of    *)
(* its turn needs moreover that turns are spoken one after the other.      *)
(***************************************************************************)
EXTENDS TalkerScheduler, WellFoundedInduction, TLAPS

(* The tokens of a turn before sub-request k. *)
Low(k) == IF k = 0 THEN 0 ELSE PrefillLen + k - 1

(* Sub-requests of a turn wait in their order. *)
QueueInv ==
  /\ \A w \in waiting : w.k < sent[w.t]
  /\ \A v, w \in waiting : v.at = w.at => v = w
  /\ \A v, w \in waiting : v.t = w.t /\ v.at < w.at => v.k < w.k

(* What runs is before what waits. *)
BatchInv ==
  /\ \A i \in DOMAIN batch : batch[i].k < sent[batch[i].t]
  /\ \A i, j \in DOMAIN batch :
       i < j /\ batch[i].t = batch[j].t => batch[i].k < batch[j].k
  /\ \A i \in DOMAIN batch : \A w \in waiting :
       w.t = batch[i].t => batch[i].k < w.k

(* The count and the position of a turn are not beyond what was added of   *)
(* it, nor beyond what is still to run.                                    *)
CountInv ==
  /\ \A t \in Turns : count[t] <= Low(sent[t]) /\ nextPos[t] <= Low(sent[t])
  /\ \A w \in waiting : count[w.t] <= Low(w.k) /\ nextPos[w.t] <= Low(w.k)
  /\ \A i \in DOMAIN batch :
       /\ count[batch[i].t] <= Low(batch[i].k)
       /\ pc = "execute" => nextPos[batch[i].t] <= Low(batch[i].k)

GInv == TypeOK /\ QueueInv /\ BatchInv /\ CountInv

(* One request runs at a time, on the history its turn has. *)
OneInv ==
  /\ pc = "idle" => batch = <<>>
  /\ pc # "idle" => Len(batch) = 1 /\ batch[1].outputs = history[batch[1].t]

-----------------------------------------------------------------------------
(* No token of a sub-request that has not run. *)
SampleInv ==
  /\ \A t \in Turns, k \in Subs : sent[t] <= k => sampled[t][k] = "none"
  /\ \A w \in waiting, k \in Subs : w.k <= k => sampled[w.t][k] = "none"
  /\ \A i \in DOMAIN batch, k \in Subs :
       pc = "execute" /\ batch[i].k <= k => sampled[batch[i].t][k] = "none"

Live(t) == t \notin dropped /\ ~Stopped(t)

(* A turn that has not begun has left nothing anywhere. *)
FreshInv ==
  \A t \in Turns : turn < t =>
    /\ sent[t] = 0 /\ t \notin dropped
    /\ blockLocker[t] = 0 /\ count[t] = 0 /\ tokenLocker[t] = None
    /\ history[t] = <<>> /\ nextPos[t] = 0 /\ cache[t] = {}

(* Turns come one after the other: those before the current one are over,  *)
(* and what is left of them is before what is of the current one.          *)
OrderInv ==
  /\ \A t \in Turns : t < turn => ~Live(t)
  /\ \A w \in waiting : w.t <= turn
  /\ \A i \in DOMAIN batch : batch[i].t <= turn
  /\ \A v, w \in waiting : v.t < w.t => v.at < w.at
  /\ \A i \in DOMAIN batch : \A w \in waiting : batch[i].t <= w.t

(* Turn t has a request in the batch. *)
Runs(t) == pc # "idle" /\ batch[1].t = t

(* How many sub-requests of the turn have run, and how many the scheduler  *)
(* has brought the lockers up to date for.                                 *)
Known(t) == Len(history[t])

Ran(t) == IF Runs(t) /\ pc = "update" THEN Known(t) + 1 ELSE Known(t)

Claimed(t) == IF Runs(t) THEN Known(t) + 1 ELSE Known(t)

Home(t) == IF Runs(t) THEN batch[1].block ELSE blockLocker[t]

(* The lockers of a turn that has been spoken up to sub-request n. *)
LockersOf(t, n) ==
  /\ history[t] = [i \in 1..n |-> i - 1]
  /\ count[t] = Low(n) /\ tokenLocker[t] = n - 1
  /\ blockLocker[t] = 0 <=> n = 0

(* The talker after n sub-requests of the turn; b is the turn's block.     *)
TalkerOf(t, n, b) ==
  /\ nextPos[t] = Low(n)
  /\ n > 0 => lastHidden[t] = <<t, n - 1>>
  /\ \/ cache[t] = 0..n - 2
     \/ cache[t] = {} /\ n > 1 /\ sampled[t][n - 2] = "zero"
  /\ \A p \in 0..Low(n) - 1 :
       kv[b][p] = <<t, IF p < PrefillLen THEN 0 ELSE p - PrefillLen + 1>>

(* The payload of the sub-request that comes after n others. *)
PayloadOf(t, n, token, audio) ==
  /\ token = n - 1 \/ (token = None /\ n > 0 /\ sampled[t][n - 1] = "zero")
  /\ audio = history[t] \/ (audio = <<>> /\ n > 0 /\ sampled[t][n - 1] = "zero")

(* The sub-requests of the turn that wait: all that were added and have    *)
(* not been taken, the first with what was relayed to it.                  *)
WaitsOf(t, n, next) ==
  /\ {w.k : w \in {v \in waiting : v.t = t}} = next..sent[t] - 1
  /\ \A w \in waiting : w.t = t =>
       \/ w.token = None /\ w.audio = <<>>
       \/ w.k = n /\ w.token = n - 1 /\ w.audio = history[t]
  /\ n > 0 => \A w \in waiting : w.t = t

RunsOf(t, n) ==
  /\ Runs(t) => /\ batch[1].k = n /\ batch[1].computed = Low(n)
                /\ n > 0 => batch[1].block = blockLocker[t]
                /\ PayloadOf(t, n, batch[1].token, batch[1].audio)
  /\ n > 0 /\ pc # "idle" => Runs(t)

(* The turn being spoken. *)
SpokenOf(t) ==
  /\ LockersOf(t, Known(t))
  /\ TalkerOf(t, Ran(t), Home(t))
  /\ WaitsOf(t, Known(t), Claimed(t))
  /\ RunsOf(t, Known(t))

SpokenInv == \A t \in Turns : t = turn /\ Live(t) => SpokenOf(t)

SerialInv == GInv /\ OneInv /\ SampleInv /\ FreshInv /\ OrderInv /\ SpokenInv

-----------------------------------------------------------------------------
(* What is assumed of the constants. *)
LEMMA Constants ==
  /\ MaxTurn \in Nat \ {0} /\ MaxSub \in Nat \ {0} /\ NumBlocks \in Nat \ {0}
  /\ MaxRunning \in Nat \ {0} /\ PrefillLen \in Nat /\ PrefillLen > 1
  /\ Overlap \in BOOLEAN
  BY Zenon, SchedulerAssumption

LEMMA SetsOfNumbers ==
  /\ \A t \in Turns : t \in Nat /\ t >= 1 /\ t <= MaxTurn
  /\ \A k \in Subs : k \in Nat /\ k < MaxSub
  /\ \A k \in Nat : k < MaxSub => k \in Subs
  /\ \A k \in Subs : k # None
  /\ 0 \notin Blocks
  /\ 0 \in Subs
  BY Constants DEF Turns, Subs, Blocks, None

(* The tokens before a sub-request, and those before the next one. *)
LEMMA LowStep ==
  /\ Low(0) = 0
  /\ \A k \in Nat : /\ Low(k) \in Nat
                    /\ Low(k + 1) = Low(k) + PromptLen(k)
                    /\ k <= MaxSub => Low(k) \in Positions
  /\ \A j, k \in Nat : j <= k => Low(j) <= Low(k)
  BY Constants DEF Low, PromptLen, Positions

(* A position after k sub-requests, one step later. *)
LEMMA LowNext ==
  ASSUME NEW k \in Nat, NEW n \in Nat, n <= Low(k)
  PROVE  (IF n = 0 THEN PrefillLen ELSE n + 1) <= Low(k + 1)
  BY Constants DEF Low

(* The history of a turn that has been spoken in order, grown by one. *)
LEMMA Numbers ==
  /\ [i \in 1..0 |-> i - 1] = <<>>
  /\ \A n \in Nat : LET h == [i \in 1..n |-> i - 1]
                     IN  /\ Append(h, n) = [i \in 1..n + 1 |-> i - 1]
                         /\ Len(Append(h, n)) = n + 1
  BY SMTT(20)

LEMMA OneElement ==
  ASSUME NEW S, NEW q \in Seq(S), Len(q) = 1
  PROVE  DOMAIN q = {1} /\ q[1] \in S /\ Head(q) = q[1]
<1>1. DOMAIN q = 1..1 /\ 1..1 = {1}
  OBVIOUS
<1>2. q[1] \in S /\ Head(q) = q[1]
  OBVIOUS
<1> QED BY Zenon, <1>1, <1>2

NatLess == {p \in Nat \X Nat : p[1] < p[2]}

(* The library's theorem takes the order as a parameter; this is the same  *)
(* for the relation.                                                       *)
LEMMA NatLessWellFounded == IsWellFoundedOn(NatLess, Nat)
  BY NatLessThanWellFounded, Zenon DEF NatLess, OpToRel

(* The greatest of some positions is one of them. *)
LEMMA MaxIn ==
  ASSUME NEW n \in Nat, NEW S, S \subseteq 1..n, S # {}
  PROVE  Max(S) \in S
<1> DEFINE T == {n - i : i \in S}
<1>1. \A i \in S : i \in Nat /\ i <= n /\ n - i \in Nat
  OBVIOUS
<1>2. T \subseteq Nat
  BY Zenon, <1>1
<1>3. T # {}
  BY Zenon
<1>4. PICK x \in T : \A y \in T : <<y, x>> \notin NatLess
  <2> HIDE DEF T
  <2> QED BY Zenon, <1>2, <1>3, NatLessWellFounded, WFMin
<1>5. PICK i \in S : x = n - i
  BY Zenon, <1>4
<1>6. ASSUME NEW j \in S  PROVE i >= j
  <2>1. n - j \in T
    BY Zenon
  <2>2. <<n - j, n - i>> \notin NatLess
    BY Zenon, <1>4, <1>5, <2>1
  <2>3. ~(n - j < n - i)
    BY Zenon, <1>1, <2>2 DEF NatLess
  <2> QED BY <1>1, <2>3
<1> QED BY Zenon, <1>6 DEF Max

(* A request that waits, and one that was sent to the runner. *)
Entry(n) == [at : 1..n, t : Turns, k : Subs, token : Subs \cup {None},
             audio : Seq(Subs)]

Sending == [t : Turns, k : Subs, own : Blocks, block : Blocks,
            computed : Positions, outputs : Seq(Subs),
            token : Subs \cup {None}, audio : Seq(Subs)]

LEMMA EntryFacts ==
  ASSUME NEW n \in Nat, NEW w \in Entry(n)
  PROVE  /\ w.at \in Nat /\ w.at <= n /\ w.t \in Turns /\ w.k \in Subs
         /\ w.k \in Nat /\ w.k < MaxSub
         /\ w.token \in Subs \cup {None} /\ w.audio \in Seq(Subs)
         /\ w \in Entry(n + 1)
  BY SetsOfNumbers DEF Entry

LEMMA SendingFacts ==
  ASSUME NEW e \in Sending
  PROVE  /\ e.t \in Turns /\ e.k \in Subs /\ e.k \in Nat /\ e.k < MaxSub
         /\ e.own \in Blocks /\ e.block \in Blocks /\ e.computed \in Positions
         /\ e.outputs \in Seq(Subs) /\ e.token \in Subs \cup {None}
         /\ e.audio \in Seq(Subs)
  BY Zenon, SetsOfNumbers DEF Sending

(* The entries of the queue and of the batch. *)
LEMMA Typed ==
  ASSUME TypeOK
  PROVE  /\ arrived \in Nat /\ waiting \subseteq Entry(arrived)
         /\ batch \in Seq(Sending)
         /\ Len(batch) \in Nat /\ DOMAIN batch = 1..Len(batch)
         /\ \A i \in DOMAIN batch : batch[i] \in Sending
         /\ turn \in Turns
         /\ \A t \in Turns : /\ sent[t] \in Nat /\ sent[t] <= MaxSub
                             /\ count[t] \in Nat /\ nextPos[t] \in Nat
<1>1. arrived \in Nat /\ waiting \subseteq Entry(arrived) /\ batch \in Seq(Sending)
  BY Zenon DEF TypeOK, Entry, Sending
<1>2. \A i \in DOMAIN batch : batch[i] \in Sending
  BY <1>1
<1>3. \A t \in Turns : /\ sent[t] \in Nat /\ sent[t] <= MaxSub
                       /\ count[t] \in Nat /\ nextPos[t] \in Nat
  BY Constants DEF TypeOK, Positions
<1> QED BY <1>1, <1>2, <1>3 DEF TypeOK

-----------------------------------------------------------------------------
(* The steps of the client keep the types and the order of the queue. *)
LEMMA AddKeeps ==
  ASSUME GInv, NEW t \in Turns, AddRequest(t)
  PROVE  GInv'
<1> DEFINE x == [at |-> arrived + 1, t |-> t, k |-> sent[t], token |-> None,
                 audio |-> <<>>]
<1>1. /\ sent[t] < MaxSub /\ arrived' = arrived + 1
      /\ waiting' = waiting \cup {x}
      /\ open' = open \cup {<<t, sent[t]>>}
      /\ sent' = [sent EXCEPT ![t] = @ + 1]
      /\ turn' = turn /\ dropped' = dropped /\ batch' = batch /\ pc' = pc
      /\ pc = "idle" /\ free' = free
      /\ UNCHANGED lockers /\ UNCHANGED talker
  BY Zenon DEF AddRequest
<1>2. /\ arrived \in Nat /\ waiting \subseteq Entry(arrived)
      /\ \A u \in Turns : sent[u] \in Nat /\ sent[u] <= MaxSub
      /\ \A i \in DOMAIN batch : batch[i] \in Sending
  BY Zenon, Typed DEF GInv
<1>3. sent[t] \in Subs /\ x \in Entry(arrived + 1)
  BY <1>1, <1>2, SetsOfNumbers DEF Entry
<1>4. /\ x.at = arrived + 1 /\ x.t = t /\ x.k = sent[t]
  BY Zenon
<1> HIDE DEF x
<1>5. sent' \in [Turns -> 0..MaxSub]
  BY <1>1, <1>2, Constants DEF GInv, TypeOK
<1>6. /\ sent'[t] = sent[t] + 1 /\ \A u \in Turns : u # t => sent'[u] = sent[u]
      /\ \A u \in Turns : sent[u] <= sent'[u] /\ sent'[u] \in Nat
  BY <1>1, <1>2 DEF GInv, TypeOK
<1>7. \A w \in waiting : w.at \in Nat /\ w.at <= arrived /\ w.t \in Turns
                         /\ w.k \in Nat /\ w \in Entry(arrived + 1)
  BY Zenon, <1>2, EntryFacts
<1>8. \A w \in waiting : w.k < sent[w.t]
  BY Zenon DEF GInv, QueueInv
<1>9. TypeOK'
  <2>1. arrived' \in Nat /\ waiting' \subseteq Entry(arrived')
    BY <1>1, <1>2, <1>3, <1>7
  <2>2. open' \subseteq Turns \X Subs
    BY <1>1, <1>3 DEF GInv, TypeOK
  <2> QED BY Zenon, <1>1, <1>5, <2>1, <2>2 DEF GInv, TypeOK, Entry, lockers, talker
<1>10. QueueInv'
  <2>1. \A w \in waiting' : w.k < sent'[w.t]
    BY <1>1, <1>2, <1>4, <1>6, <1>7, <1>8
  <2>2. \A v, w \in waiting' : v.at = w.at => v = w
    BY <1>1, <1>2, <1>4, <1>7 DEF GInv, QueueInv
  <2>3. \A v, w \in waiting' : v.t = w.t /\ v.at < w.at => v.k < w.k
    BY <1>1, <1>2, <1>4, <1>7, <1>8 DEF GInv, QueueInv
  <2> QED BY Zenon, <2>1, <2>2, <2>3 DEF QueueInv
<1>11. BatchInv'
  <2>1. \A i \in DOMAIN batch : batch[i].t \in Turns /\ batch[i].k \in Nat
    BY Zenon, <1>2, SendingFacts
  <2>2. \A i \in DOMAIN batch : batch[i].k < sent[batch[i].t]
    BY Zenon DEF GInv, BatchInv
  <2>3. \A i \in DOMAIN batch : batch[i].k < sent'[batch[i].t]
    BY <1>2, <1>6, <2>1, <2>2
  <2>4. \A i \in DOMAIN batch : \A w \in waiting' :
          w.t = batch[i].t => batch[i].k < w.k
    BY Zenon, <1>1, <1>4, <2>2 DEF GInv, BatchInv
  <2> QED BY Zenon, <1>1, <2>3, <2>4 DEF GInv, BatchInv
<1>12. CountInv'
  <2>1. count' = count /\ nextPos' = nextPos
    BY Zenon, <1>1 DEF lockers, talker
  <2>2. \A u \in Turns : Low(sent[u]) <= Low(sent'[u]) /\ Low(sent[u]) \in Nat
                         /\ Low(sent'[u]) \in Nat
                         /\ count[u] \in Nat /\ nextPos[u] \in Nat
    BY Zenon, <1>2, <1>6, LowStep, Typed DEF GInv
  <2>3. \A u \in Turns : count[u] <= Low(sent[u]) /\ nextPos[u] <= Low(sent[u])
    BY Zenon DEF GInv, CountInv
  <2>4. \A u \in Turns : count[u] <= Low(sent'[u]) /\ nextPos[u] <= Low(sent'[u])
    BY <2>2, <2>3
  <2>5. \A w \in waiting' : count[w.t] <= Low(w.k) /\ nextPos[w.t] <= Low(w.k)
    BY Zenon, <1>1, <1>4, <2>3 DEF GInv, CountInv
  <2> QED BY Zenon, <1>1, <2>1, <2>4, <2>5 DEF GInv, CountInv
<1> QED BY Zenon, <1>9, <1>10, <1>11, <1>12 DEF GInv

(* A new turn, or an aborted one, changes nothing in the engine. *)
LEMMA TurnKeeps ==
  ASSUME GInv, NewTurn \/ \E t \in Turns : DropTurn(t)
  PROVE  GInv'
<1>1. /\ sent' = sent /\ open' = open /\ arrived' = arrived /\ waiting' = waiting
      /\ batch' = batch /\ pc' = pc /\ free' = free
      /\ UNCHANGED lockers /\ UNCHANGED talker
  BY Zenon DEF NewTurn, DropTurn
<1>2. turn' \in Turns /\ dropped' \subseteq Turns
  <2>1. CASE NewTurn
    <3>1. turn' = turn + 1 /\ turn < MaxTurn /\ dropped' = dropped
      BY Zenon, <2>1 DEF NewTurn
    <3>2. turn \in Turns /\ dropped \subseteq Turns
      BY Zenon DEF GInv, TypeOK
    <3> QED BY <3>1, <3>2, Constants DEF Turns
  <2>2. CASE \E t \in Turns : DropTurn(t)
    BY Zenon, <2>2 DEF DropTurn, GInv, TypeOK
  <2> QED BY Zenon, <2>1, <2>2
<1>3. TypeOK'
  BY Zenon, <1>1, <1>2 DEF GInv, TypeOK, lockers, talker
<1>4. QueueInv' /\ BatchInv' /\ CountInv'
  BY Zenon, <1>1 DEF GInv, QueueInv, BatchInv, CountInv, lockers, talker
<1> QED BY Zenon, <1>3, <1>4 DEF GInv

(* An abort takes a request out of the queue and clears the lockers. *)
LEMMA AbortKeeps ==
  ASSUME GInv, NEW t \in Turns, NEW k \in Subs, AbortRequest(t, k)
  PROVE  GInv'
<1>1. /\ open' \subseteq open /\ waiting' \subseteq waiting
      /\ arrived' = arrived /\ batch' = batch /\ pc' = pc /\ free' = free
      /\ turn' = turn /\ sent' = sent /\ dropped' = dropped
      /\ UNCHANGED talker
      /\ blockLocker' = [blockLocker EXCEPT ![t] = 0]
      /\ count' = [count EXCEPT ![t] = 0]
      /\ tokenLocker' = [tokenLocker EXCEPT ![t] = None]
      /\ history' = [history EXCEPT ![t] = <<>>]
  BY Zenon DEF AbortRequest, ClearLockers, client
<1>2. \A u \in Turns : count'[u] = 0 \/ count'[u] = count[u]
  BY Zenon, <1>1 DEF GInv, TypeOK
<1>3. TypeOK'
  <2>1. count' \in [Turns -> Positions]
    BY <1>1, Constants DEF GInv, TypeOK, Positions
  <2>2. /\ blockLocker' \in [Turns -> Blocks \cup {0}]
        /\ tokenLocker' \in [Turns -> Subs \cup {None}]
        /\ history' \in [Turns -> Seq(Subs)]
    BY <1>1 DEF GInv, TypeOK
  <2> QED BY Zenon, <1>1, <2>1, <2>2 DEF GInv, TypeOK, talker
<1>4. QueueInv' /\ BatchInv'
  BY Zenon, <1>1 DEF GInv, QueueInv, BatchInv
<1>5. CountInv'
  <2>1. /\ \A u \in Turns : Low(sent[u]) \in Nat
        /\ \A w \in waiting : w.t \in Turns /\ Low(w.k) \in Nat
        /\ \A i \in DOMAIN batch : batch[i].t \in Turns /\ Low(batch[i].k) \in Nat
    BY Zenon, Typed, LowStep, EntryFacts, SendingFacts DEF GInv
  <2>2. \A u \in Turns : \A n \in Nat : count[u] <= n => count'[u] <= n
    <3> SUFFICES ASSUME NEW u \in Turns, NEW n \in Nat, count[u] <= n
                 PROVE  count'[u] <= n
      BY Zenon
    <3>1. CASE count'[u] = 0
      BY <3>1
    <3>2. CASE count'[u] = count[u]
      BY Zenon, <3>2
    <3> QED BY Zenon, <1>2, <3>1, <3>2
  <2>3. nextPos' = nextPos
    BY Zenon, <1>1 DEF talker
  <2> QED BY Zenon, <1>1, <2>1, <2>2, <2>3 DEF GInv, CountInv
<1> QED BY Zenon, <1>3, <1>4, <1>5 DEF GInv

-----------------------------------------------------------------------------
(* Scheduling. There is room for no more requests than there are blocks. *)
LEMMA RoomFits ==
  ASSUME TypeOK
  PROVE  Room \in Nat /\ Room <= MaxRunning /\ Room <= Len(free)
<1>1. MaxRunning \in Nat /\ Len(free) \in Nat
  BY Constants DEF TypeOK
<1>2. \E x \in {MaxRunning, Len(free)} : \A y \in {MaxRunning, Len(free)} : x <= y
  BY <1>1
<1>3. /\ Room \in {MaxRunning, Len(free)}
      /\ \A y \in {MaxRunning, Len(free)} : Room <= y
  BY Zenon, <1>2 DEF Room, Min
<1> QED BY Zenon, <1>1, <1>3

(* What schedule() makes of a waiting request. *)
LEMMA InjectFields ==
  ASSUME NEW w, NEW own
  PROVE  /\ Inject(w, own).t = w.t /\ Inject(w, own).k = w.k
         /\ Inject(w, own).own = own /\ Inject(w, own).outputs = history[w.t]
         /\ Inject(w, own).block
              = IF blockLocker[w.t] # 0 THEN blockLocker[w.t] ELSE own
         /\ Inject(w, own).computed
              = IF blockLocker[w.t] # 0 THEN count[w.t] ELSE 0
         /\ Inject(w, own).token
              = IF tokenLocker[w.t] # None /\ sampled[w.t][tokenLocker[w.t]] # "zero"
                THEN tokenLocker[w.t] ELSE w.token
         /\ Inject(w, own).audio
              = IF tokenLocker[w.t] # None /\ sampled[w.t][tokenLocker[w.t]] # "zero"
                THEN history[w.t] ELSE w.audio
  BY Zenon DEF Inject

LEMMA InjectTyped ==
  ASSUME TypeOK, NEW n \in Nat, NEW w \in Entry(n), NEW own \in Blocks
  PROVE  Inject(w, own) \in Sending
<1>1. w.t \in Turns /\ w.k \in Subs /\ w.token \in Subs \cup {None}
      /\ w.audio \in Seq(Subs)
  BY Zenon, EntryFacts
<1>2. /\ blockLocker[w.t] \in Blocks \cup {0} /\ count[w.t] \in Positions
      /\ history[w.t] \in Seq(Subs) /\ tokenLocker[w.t] \in Subs \cup {None}
  BY Zenon, <1>1 DEF TypeOK
<1>3. 0 \in Positions
  BY Constants DEF Positions
<1> QED BY Zenon, <1>1, <1>2, <1>3 DEF Inject, Sending

LEMMA ScheduleKeeps ==
  ASSUME GInv, Schedule
  PROVE  GInv'
<1>1. PICK n \in 1..Room : \E f \in [1..n -> waiting] :
        /\ Admitted(f)
        /\ batch' = [i \in 1..n |-> Inject(f[i], free[i])]
        /\ waiting' = waiting \ Range(f)
        /\ free' = SubSeq(free, n + 1, Len(free))
  BY Zenon DEF Schedule
<1>2. PICK f \in [1..n -> waiting] :
        /\ Admitted(f)
        /\ batch' = [i \in 1..n |-> Inject(f[i], free[i])]
        /\ waiting' = waiting \ Range(f)
        /\ free' = SubSeq(free, n + 1, Len(free))
  BY Zenon, <1>1
<1>3. /\ pc' = "execute" /\ arrived' = arrived /\ open' = open
      /\ turn' = turn /\ sent' = sent /\ dropped' = dropped
      /\ UNCHANGED lockers /\ UNCHANGED talker
  BY Zenon DEF Schedule, client
<1>4. /\ arrived \in Nat /\ waiting \subseteq Entry(arrived) /\ TypeOK
      /\ n \in Nat /\ n <= Len(free) /\ Len(free) \in Nat /\ free \in Seq(Blocks)
  <2>1. TypeOK /\ arrived \in Nat /\ waiting \subseteq Entry(arrived)
    BY Zenon, Typed DEF GInv
  <2>2. free \in Seq(Blocks) /\ Len(free) \in Nat
    BY <2>1 DEF TypeOK
  <2>3. Room \in Nat /\ Room <= Len(free)
    BY Zenon, <2>1, RoomFits
  <2> QED BY <2>1, <2>2, <2>3
<1>5. \A i \in 1..n : /\ f[i] \in waiting /\ f[i] \in Entry(arrived)
                      /\ f[i].at \in Nat /\ f[i].t \in Turns
                      /\ f[i].k \in Nat /\ free[i] \in Blocks
  <2>1. \A i \in 1..n : f[i] \in waiting /\ f[i] \in Entry(arrived)
    BY Zenon, <1>4
  <2>2. \A i \in 1..n : free[i] \in Blocks
    BY <1>4
  <2> QED BY Zenon, <1>4, <2>1, <2>2, EntryFacts
<1>6. /\ batch' \in Seq(Sending) /\ DOMAIN batch' = 1..n
      /\ \A i \in 1..n : batch'[i].t = f[i].t /\ batch'[i].k = f[i].k
  <2>1. \A i \in 1..n : Inject(f[i], free[i]) \in Sending
    BY Zenon, <1>4, <1>5, InjectTyped
  <2>2. batch' \in [1..n -> Sending]
    BY Zenon, <1>2, <2>1
  <2>3. \A i \in 1..n : batch'[i] = Inject(f[i], free[i])
    BY Zenon, <1>2
  <2> QED BY <1>4, <2>2, <2>3, InjectFields
<1>7. /\ \A i, j \in 1..n : i < j => f[i].at < f[j].at
      /\ \A w \in waiting' : w \in waiting /\ \A i \in 1..n : f[i].at < w.at
  BY Zenon, <1>2 DEF Admitted
<1>8. TypeOK'
  <2>1. free' \in Seq(Blocks)
    BY <1>2, <1>4
  <2>2. waiting' \subseteq Entry(arrived')
    BY Zenon, <1>3, <1>4, <1>7
  <2> QED BY Zenon, <1>3, <1>6, <2>1, <2>2
          DEF GInv, TypeOK, Entry, Sending, lockers, talker
<1>9. QueueInv'
  BY Zenon, <1>3, <1>7 DEF GInv, QueueInv
<1>10. BatchInv'
  <2>1. \A i \in 1..n : batch'[i].k < sent[batch'[i].t]
    BY Zenon, <1>5, <1>6 DEF GInv, QueueInv
  <2>2. \A i, j \in 1..n : i < j /\ f[i].t = f[j].t => f[i].k < f[j].k
    BY Zenon, <1>5, <1>7 DEF GInv, QueueInv
  <2>3. \A i \in 1..n : \A w \in waiting' : w.t = f[i].t => f[i].k < w.k
    BY Zenon, <1>5, <1>7 DEF GInv, QueueInv
  <2> QED BY Zenon, <1>3, <1>6, <2>1, <2>2, <2>3 DEF BatchInv
<1>11. CountInv'
  <2>1. count' = count /\ nextPos' = nextPos
    BY Zenon, <1>3 DEF lockers, talker
  <2>2. \A i \in 1..n : /\ count[batch'[i].t] <= Low(batch'[i].k)
                        /\ nextPos[batch'[i].t] <= Low(batch'[i].k)
    BY Zenon, <1>5, <1>6 DEF GInv, CountInv
  <2> QED BY Zenon, <1>3, <1>6, <1>7, <2>1, <2>2 DEF GInv, CountInv
<1> QED BY Zenon, <1>8, <1>9, <1>10, <1>11 DEF GInv

-----------------------------------------------------------------------------
(* The step of the runner and the talker. A batch is not empty. *)
LEMMA ExecuteKeeps ==
  ASSUME GInv, Execute, batch # <<>>
  PROVE  GInv'
<1> DEFINE n == Len(batch)
<1>1. /\ pc = "execute" /\ pc' = "update" /\ arrived' = arrived /\ open' = open
      /\ turn' = turn /\ sent' = sent /\ dropped' = dropped /\ waiting' = waiting
      /\ batch' = batch /\ free' = free /\ UNCHANGED lockers
  BY Zenon DEF Execute, client
<1>2. /\ WriteCache /\ KeepHidden /\ RefillCache
  BY Zenon DEF Execute
<1>3. /\ TypeOK /\ arrived \in Nat /\ waiting \subseteq Entry(arrived)
      /\ batch \in Seq(Sending) /\ n \in Nat /\ DOMAIN batch = 1..n
      /\ \A i \in 1..n : batch[i] \in Sending
      /\ \A t \in Turns : /\ sent[t] \in Nat /\ sent[t] <= MaxSub
                          /\ count[t] \in Nat /\ nextPos[t] \in Nat
  BY Zenon, Typed DEF GInv
<1>4. \A i \in 1..n : /\ batch[i].t \in Turns /\ batch[i].k \in Subs
                      /\ batch[i].k \in Nat /\ batch[i].audio \in Seq(Subs)
  BY Zenon, <1>3, SendingFacts
<1>5. \A S : S \subseteq 1..n /\ S # {} => Max(S) \in S
  BY Zenon, <1>3, MaxIn
<1>6. n \in 1..n
  BY <1>3
<1> HIDE DEF n
<1>7. sampled' \in [Turns -> [Subs -> Tokens \cup {"none"}]]
  <2> DEFINE at(t, k) == {i \in Of(t) : batch[i].k = k}
  <2>1. PICK tokens \in [1..n -> Tokens] :
          sampled' = [t \in Turns |-> [k \in Subs |->
             IF at(t, k) = {} THEN sampled[t][k] ELSE tokens[Max(at(t, k))]]]
    BY Zenon, <1>3 DEF Execute
  <2>2. \A t, k : at(t, k) \subseteq 1..n
    BY Zenon, <1>3 DEF Of
  <2> HIDE DEF at
  <2>3. \A t, k : at(t, k) # {} => tokens[Max(at(t, k))] \in Tokens
    BY Zenon, <1>5, <2>2
  <2>4. \A t \in Turns, k \in Subs : sampled[t][k] \in Tokens \cup {"none"}
    BY Zenon, <1>3 DEF TypeOK
  <2> QED BY Zenon, <2>1, <2>3, <2>4
<1>8. kv' \in [Blocks -> [Positions -> (Turns \X Subs) \cup {<<0, None>>}]]
  <2> DEFINE writes(b, p) ==
               {i \in 1..n :
                  /\ batch[i].block = b
                  /\ p - batch[i].computed \in 0..PromptLen(batch[i].k) - 1}
             e(b, p) == batch[Max(writes(b, p))]
  <2>1. kv' = [b \in Blocks |-> [p \in Positions |->
                 IF writes(b, p) = {} THEN kv[b][p] ELSE <<e(b, p).t, e(b, p).k>>]]
    BY Zenon, <1>2, <1>3 DEF WriteCache
  <2>2. \A b, p : writes(b, p) \subseteq 1..n
    BY Zenon
  <2>3. \A b, p : writes(b, p) # {} => Max(writes(b, p)) \in 1..n
    <3> HIDE DEF writes
    <3> QED BY Zenon, <1>5, <2>2
  <2>4. \A b, p : writes(b, p) # {} => e(b, p).t \in Turns /\ e(b, p).k \in Subs
    BY Zenon, <1>4, <2>3
  <2>5. \A b \in Blocks, p \in Positions :
          kv[b][p] \in (Turns \X Subs) \cup {<<0, None>>}
    BY <1>3 DEF TypeOK
  <2> HIDE DEF writes, e
  <2> QED BY Zenon, <2>1, <2>4, <2>5
<1>9. /\ lastHidden' \in [Turns -> (Turns \X Subs) \cup {<<0, None>>}]
      /\ cache' \in [Turns -> SUBSET Subs]
  <2>1. Last(batch).t \in Turns /\ Last(batch).k \in Subs
    BY Zenon, <1>4, <1>6 DEF Last, n
  <2>2. lastHidden' = [t \in Turns |->
          IF Of(t) = {} THEN lastHidden[t] ELSE <<Last(batch).t, Last(batch).k>>]
    BY Zenon, <1>2 DEF KeepHidden
  <2>3. \A t : Of(t) \subseteq 1..n
    BY Zenon, <1>3 DEF Of
  <2>4. \A t : Of(t) # {} => Range(batch[Max(Of(t))].audio) \subseteq Subs
    <3>1. \A t : Of(t) # {} => batch[Max(Of(t))].audio \in Seq(Subs)
      BY Zenon, <1>4, <1>5, <2>3
    <3>2. \A q \in Seq(Subs) : Range(q) \subseteq Subs
      BY DEF Range
    <3> QED BY Zenon, <3>1, <3>2
  <2>5. cache' = [t \in Turns |->
              IF Of(t) = {} THEN {} ELSE Range(batch[Max(Of(t))].audio)]
    BY Zenon, <1>2 DEF RefillCache
  <2>6. \A t \in Turns : lastHidden[t] \in (Turns \X Subs) \cup {<<0, None>>}
    BY Zenon, <1>3 DEF TypeOK
  <2>7. cache' \in [Turns -> SUBSET Subs]
    BY Zenon, <2>4, <2>5
  <2> QED BY Zenon, <2>1, <2>2, <2>6, <2>7
<1>10. \A t \in Turns :
         nextPos'[t] = IF Of(t) = {} THEN nextPos[t]
                       ELSE IF nextPos[t] = 0 THEN PrefillLen ELSE nextPos[t] + 1
  BY Zenon, <1>2 DEF KeepHidden
<1>11. \A t \in Turns, k \in Nat :
         nextPos[t] <= Low(k) /\ (Of(t) # {} => \E i \in Of(t) : batch[i].k < k)
           => nextPos'[t] <= Low(k)
  <2> SUFFICES ASSUME NEW t \in Turns, NEW k \in Nat, nextPos[t] <= Low(k),
                      Of(t) # {} => \E i \in Of(t) : batch[i].k < k
               PROVE  nextPos'[t] <= Low(k)
    BY Zenon
  <2>1. CASE Of(t) = {}
    BY Zenon, <1>10, <2>1
  <2>2. CASE Of(t) # {}
    <3>1. PICK i \in Of(t) : batch[i].k < k
      BY Zenon, <2>2
    <3>2. i \in 1..n /\ batch[i].t = t /\ batch[i].k \in Nat
      BY Zenon, <1>3, <1>4, <3>1 DEF Of
    <3>3. nextPos[t] <= Low(batch[i].k)
      BY Zenon, <1>1, <1>3, <3>2 DEF GInv, CountInv
    <3>4. nextPos'[t] <= Low(batch[i].k + 1)
      BY Zenon, <1>3, <1>10, <2>2, <3>2, <3>3, LowNext
    <3>5. nextPos'[t] \in Nat
      BY <1>3, <1>10, Constants
    <3>6. batch[i].k + 1 \in Nat /\ batch[i].k + 1 <= k
      BY <3>1, <3>2
    <3>7. Low(batch[i].k + 1) <= Low(k) /\ Low(k) \in Nat
          /\ Low(batch[i].k + 1) \in Nat
      BY Zenon, <3>6, LowStep
    <3> QED BY <3>4, <3>5, <3>7
  <2> QED BY Zenon, <2>1, <2>2
<1>12. count' = count
  BY Zenon, <1>1 DEF lockers
<1>13. \A t \in Turns : nextPos'[t] <= Low(sent[t]) /\ nextPos'[t] \in Nat
  <2> SUFFICES ASSUME NEW t \in Turns
               PROVE  nextPos'[t] <= Low(sent[t]) /\ nextPos'[t] \in Nat
    BY Zenon
  <2>1. Of(t) # {} => \E i \in Of(t) : batch[i].k < sent[t]
    BY Zenon, <1>3 DEF GInv, BatchInv, Of
  <2>2. nextPos[t] <= Low(sent[t])
    BY Zenon DEF GInv, CountInv
  <2>3. nextPos'[t] \in Nat
    BY <1>3, <1>10, Constants
  <2> QED BY Zenon, <1>3, <1>11, <2>1, <2>2, <2>3
<1>14. \A w \in waiting : nextPos'[w.t] <= Low(w.k)
  <2> SUFFICES ASSUME NEW w \in waiting  PROVE nextPos'[w.t] <= Low(w.k)
    BY Zenon
  <2>1. w.t \in Turns /\ w.k \in Nat
    BY Zenon, <1>3, EntryFacts
  <2>2. nextPos[w.t] <= Low(w.k)
    BY Zenon DEF GInv, CountInv
  <2>3. Of(w.t) # {} => \E i \in Of(w.t) : batch[i].k < w.k
    BY Zenon DEF GInv, BatchInv, Of
  <2> QED BY Zenon, <1>11, <2>1, <2>2, <2>3
<1>15. TypeOK'
  <2>1. nextPos' \in [Turns -> Positions]
    <3>1. \A t \in Turns : Low(sent[t]) \in Positions
      BY Zenon, <1>3, LowStep
    <3>2. \A t \in Turns : nextPos'[t] \in Positions
      BY <1>13, <3>1, Constants DEF Positions
    <3>3. nextPos' = [t \in Turns |-> nextPos'[t]]
      BY Zenon, <1>2 DEF KeepHidden
    <3> QED BY Zenon, <3>2, <3>3
  <2> QED BY Zenon, <1>1, <1>3, <1>7, <1>8, <1>9, <2>1 DEF TypeOK, lockers
<1>16. QueueInv' /\ BatchInv'
  BY Zenon, <1>1 DEF GInv, QueueInv, BatchInv
<1>17. CountInv'
  BY Zenon, <1>1, <1>12, <1>13, <1>14 DEF GInv, CountInv
<1> QED BY Zenon, <1>15, <1>16, <1>17 DEF GInv

(* The engine core dies. *)
LEMMA CrashKeeps ==
  ASSUME GInv, Crash
  PROVE  GInv'
  BY Zenon DEF Crash, GInv, TypeOK, QueueInv, BatchInv, CountInv, client, lockers, talker

-----------------------------------------------------------------------------
(* What is left of a batch when its first request is freed. *)
LEMMA FreeFields ==
  ASSUME TypeOK, batch # <<>>, FreeRequest(Head(batch))
  PROVE  /\ Head(batch) = batch[1] /\ 1 \in DOMAIN batch /\ batch[1] \in Sending
         /\ batch' \in Seq(Sending)
         /\ DOMAIN batch' = 1..Len(batch) - 1
         /\ \A i \in DOMAIN batch' :
              i \in Nat /\ i + 1 \in DOMAIN batch /\ batch'[i] = batch[i + 1]
         /\ free' \in Seq(Blocks) /\ open' \subseteq Turns \X Subs
         /\ pc' \in {"idle", "update"}
         /\ pc' = "idle" <=> Len(batch) = 1
<1>1. batch \in Seq(Sending) /\ Len(batch) \in Nat /\ DOMAIN batch = 1..Len(batch)
  BY Zenon, Typed
<1>2. Len(batch) >= 1 /\ Head(batch) = batch[1] /\ batch[1] \in Sending
  BY <1>1
<1>3. /\ batch' = Tail(batch) /\ free' = Append(free, Head(batch).own)
      /\ open' \subseteq open
      /\ pc' = IF Len(batch) = 1 THEN "idle" ELSE "update"
  BY Zenon DEF FreeRequest
<1>4. /\ Tail(batch) \in Seq(Sending) /\ Len(Tail(batch)) = Len(batch) - 1
      /\ \A i \in 1..Len(batch) - 1 : Tail(batch)[i] = batch[i + 1]
  BY <1>1, <1>2
<1>5. free' \in Seq(Blocks)
  BY <1>2, <1>3, SendingFacts DEF TypeOK
<1>6. DOMAIN batch' = 1..Len(batch) - 1
  BY <1>1, <1>2, <1>3, <1>4
<1>7. \A i \in DOMAIN batch' :
        i \in Nat /\ i + 1 \in DOMAIN batch /\ batch'[i] = batch[i + 1]
  BY <1>1, <1>2, <1>3, <1>4, <1>6
<1>8. open' \subseteq Turns \X Subs
  BY Zenon, <1>3 DEF TypeOK
<1>9. pc' \in {"idle", "update"} /\ (pc' = "idle" <=> Len(batch) = 1)
  BY Zenon, <1>3
<1>10. 1 \in DOMAIN batch
  BY <1>1, <1>2
<1> QED BY Zenon, <1>2, <1>3, <1>4, <1>5, <1>6, <1>7, <1>8, <1>9, <1>10

(* vLLM ends the request by itself. *)
LEMMA StoppedKeeps ==
  ASSUME GInv, UpdateStopped, batch # <<>>
  PROVE  GInv'
<1>1. /\ FreeRequest(Head(batch)) /\ turn' = turn /\ sent' = sent
      /\ dropped' = dropped /\ arrived' = arrived /\ waiting' = waiting
      /\ UNCHANGED lockers /\ UNCHANGED talker
  BY Zenon DEF UpdateStopped, client
<1>2. /\ batch' \in Seq(Sending) /\ free' \in Seq(Blocks)
      /\ open' \subseteq Turns \X Subs /\ pc' \in {"idle", "update"}
      /\ \A i \in DOMAIN batch' :
           i \in Nat /\ i + 1 \in DOMAIN batch /\ batch'[i] = batch[i + 1]
  BY Zenon, <1>1, FreeFields DEF GInv
<1>3. TypeOK'
  BY Zenon, <1>1, <1>2 DEF GInv, TypeOK, Sending, lockers, talker
<1>4. QueueInv'
  BY Zenon, <1>1 DEF GInv, QueueInv
<1>5. BatchInv'
  <2>1. \A i, j \in DOMAIN batch' : i < j => i + 1 < j + 1
    BY <1>2
  <2>2. \A i, j \in DOMAIN batch' :
          i < j /\ batch'[i].t = batch'[j].t => batch'[i].k < batch'[j].k
    BY Zenon, <1>2, <2>1 DEF GInv, BatchInv
  <2> QED BY Zenon, <1>1, <1>2, <2>2 DEF GInv, BatchInv
<1>6. CountInv'
  BY Zenon, <1>1, <1>2 DEF GInv, CountInv, lockers, talker
<1> QED BY Zenon, <1>3, <1>4, <1>5, <1>6 DEF GInv

(* A request the end of another leaves in the queue. *)
Relayed(e, h, w) ==
  IF w.t = e.t /\ w.k = e.k + 1 THEN [w EXCEPT !.token = e.k, !.audio = h] ELSE w

LEMMA RelayedFields ==
  ASSUME NEW e \in Sending, NEW h \in Seq(Subs), NEW n \in Nat, NEW w \in Entry(n)
  PROVE  /\ Relayed(e, h, w) \in Entry(n)
         /\ Relayed(e, h, w).at = w.at /\ Relayed(e, h, w).t = w.t
         /\ Relayed(e, h, w).k = w.k
         /\ IF w.t = e.t /\ w.k = e.k + 1
            THEN Relayed(e, h, w).token = e.k /\ Relayed(e, h, w).audio = h
            ELSE Relayed(e, h, w).token = w.token /\ Relayed(e, h, w).audio = w.audio
<1>1. e.k \in Subs
  BY Zenon, SendingFacts
<1> QED BY Zenon, <1>1 DEF Relayed, Entry

LEMMA RelayShape ==
  ASSUME NEW e, Relay(e)
  PROVE  waiting' = {Relayed(e, history'[e.t], w) :
                       w \in {v \in waiting : ~(sampled[e.t][e.k] = "stop"
                                                  /\ v.t = e.t /\ v.k > e.k)}}
  BY Zenon DEF Relay, Relayed

(* The scheduler ends the request itself and brings the lockers up to      *)
(* date.                                                                   *)
LEMMA ForcedKeeps ==
  ASSUME GInv, UpdateForced, batch # <<>>
  PROVE  GInv'
<1> DEFINE e == batch[1]
           h == history'[e.t]
<1>1. /\ FreeRequest(Head(batch)) /\ turn' = turn /\ sent' = sent
      /\ dropped' = dropped /\ arrived' = arrived /\ UNCHANGED talker
  BY Zenon DEF UpdateForced, client
<1>2. /\ Head(batch) = e /\ 1 \in DOMAIN batch /\ e \in Sending
      /\ batch' \in Seq(Sending) /\ free' \in Seq(Blocks)
      /\ open' \subseteq Turns \X Subs /\ pc' \in {"idle", "update"}
      /\ \A i \in DOMAIN batch' :
           i \in Nat /\ i + 1 \in DOMAIN batch /\ batch'[i] = batch[i + 1]
  BY Zenon, <1>1, FreeFields DEF GInv
<1> HIDE DEF e
<1>3. /\ blockLocker' = [blockLocker EXCEPT ![e.t] = e.block]
      /\ count' = [count EXCEPT ![e.t] = count[e.t] + PromptLen(e.k)]
      /\ tokenLocker' = [tokenLocker EXCEPT ![e.t] = e.k]
      /\ history' = [history EXCEPT ![e.t] = Append(@, e.k)]
      /\ Relay(e)
  BY Zenon, <1>2 DEF UpdateForced, CountTotal
<1>4. /\ e.t \in Turns /\ e.k \in Subs /\ e.k \in Nat /\ e.block \in Blocks
  BY Zenon, <1>2, SendingFacts
<1>5. /\ arrived \in Nat /\ waiting \subseteq Entry(arrived)
      /\ \A i \in DOMAIN batch : batch[i] \in Sending
      /\ \A t \in Turns : sent[t] \in Nat /\ sent[t] <= MaxSub /\ count[t] \in Nat
  BY Zenon, Typed DEF GInv
<1>6. /\ history' \in [Turns -> Seq(Subs)] /\ h \in Seq(Subs)
      /\ blockLocker' \in [Turns -> Blocks \cup {0}]
      /\ tokenLocker' \in [Turns -> Subs \cup {None}]
  <2>1. history \in [Turns -> Seq(Subs)]
    BY Zenon DEF GInv, TypeOK
  <2>2. history' \in [Turns -> Seq(Subs)]
    BY <1>3, <1>4, <2>1
  <2> QED BY Zenon, <1>3, <1>4, <2>2 DEF GInv, TypeOK
<1>7. \A x \in waiting' : \E w \in waiting : x = Relayed(e, h, w)
  BY <1>3, RelayShape
<1> HIDE DEF h
<1>8. \A w \in waiting : /\ Relayed(e, h, w) \in Entry(arrived)
                         /\ Relayed(e, h, w).at = w.at
                         /\ Relayed(e, h, w).t = w.t /\ Relayed(e, h, w).k = w.k
                         /\ w.t \in Turns /\ w.k \in Nat
  BY Zenon, <1>2, <1>5, <1>6, RelayedFields, EntryFacts
<1>9. \A x \in waiting' : \E w \in waiting :
        x \in Entry(arrived) /\ x.at = w.at /\ x.t = w.t /\ x.k = w.k
  BY Zenon, <1>7, <1>8
<1>10. /\ \A t \in Turns : t # e.t => count'[t] = count[t]
       /\ count'[e.t] = count[e.t] + PromptLen(e.k)
  BY Zenon, <1>3, <1>4 DEF GInv, TypeOK
<1>11. count'[e.t] \in Nat /\ \A k \in Nat : e.k < k => count'[e.t] <= Low(k)
  <2>1. count[e.t] <= Low(e.k) /\ count[e.t] \in Nat
    BY Zenon, <1>2, <1>4, <1>5 DEF GInv, CountInv, e
  <2>2. /\ Low(e.k + 1) = Low(e.k) + PromptLen(e.k) /\ PromptLen(e.k) \in Nat
        /\ Low(e.k) \in Nat
    BY Zenon, <1>4, LowStep, Constants DEF PromptLen
  <2>3. count'[e.t] \in Nat /\ count'[e.t] <= Low(e.k + 1)
    BY <1>10, <2>1, <2>2
  <2>4. ASSUME NEW k \in Nat, e.k < k  PROVE count'[e.t] <= Low(k)
    <3>1. e.k + 1 \in Nat /\ e.k + 1 <= k
      BY <1>4, <2>4
    <3>2. Low(e.k + 1) <= Low(k) /\ Low(e.k + 1) \in Nat /\ Low(k) \in Nat
      BY Zenon, <3>1, LowStep
    <3> QED BY <2>3, <3>2
  <2> QED BY Zenon, <2>3, <2>4
<1>12. e.k < sent[e.t]
  BY Zenon, <1>2 DEF GInv, BatchInv, e
<1>13. \A t \in Turns : count'[t] <= Low(sent[t])
  BY Zenon, <1>4, <1>5, <1>10, <1>11, <1>12 DEF GInv, CountInv
<1>14. TypeOK'
  <2>1. count' \in [Turns -> Positions]
    <3>1. \A t \in Turns : Low(sent[t]) \in Positions
      BY Zenon, <1>5, LowStep
    <3>2. \A t \in Turns : count'[t] \in Nat
      BY Zenon, <1>5, <1>10, <1>11
    <3>3. \A t \in Turns : count'[t] \in Positions
      BY <1>13, <3>1, <3>2, Constants DEF Positions
    <3>4. count' = [t \in Turns |-> count'[t]]
      BY Zenon, <1>3 DEF GInv, TypeOK
    <3> QED BY Zenon, <3>3, <3>4
  <2>2. waiting' \subseteq Entry(arrived')
    BY Zenon, <1>1, <1>9
  <2> QED BY Zenon, <1>1, <1>2, <1>6, <2>1, <2>2 DEF GInv, TypeOK, Entry, Sending, talker
<1>15. QueueInv'
  <2>1. \A w \in waiting' : w.k < sent[w.t]
    BY Zenon, <1>9 DEF GInv, QueueInv
  <2>2. ASSUME NEW x \in waiting', NEW y \in waiting'
        PROVE  /\ x.at = y.at => x = y
               /\ x.t = y.t /\ x.at < y.at => x.k < y.k
    <3>1. PICK v \in waiting : x = Relayed(e, h, v)
      BY Zenon, <1>7
    <3>2. PICK w \in waiting : y = Relayed(e, h, w)
      BY Zenon, <1>7
    <3>3. x.at = v.at /\ x.t = v.t /\ x.k = v.k
      BY Zenon, <1>8, <3>1
    <3>4. y.at = w.at /\ y.t = w.t /\ y.k = w.k
      BY Zenon, <1>8, <3>2
    <3>5. /\ v.at = w.at => v = w
          /\ v.t = w.t /\ v.at < w.at => v.k < w.k
      BY Zenon DEF GInv, QueueInv
    <3> QED BY Zenon, <3>1, <3>2, <3>3, <3>4, <3>5
  <2> QED BY Zenon, <1>1, <2>1, <2>2 DEF QueueInv
<1>16. BatchInv'
  <2>1. \A i, j \in DOMAIN batch' : i < j => i + 1 < j + 1
    BY <1>2
  <2>2. \A i, j \in DOMAIN batch' :
          i < j /\ batch'[i].t = batch'[j].t => batch'[i].k < batch'[j].k
    BY Zenon, <1>2, <2>1 DEF GInv, BatchInv
  <2>3. \A i \in DOMAIN batch' : \A w \in waiting' :
          w.t = batch'[i].t => batch'[i].k < w.k
    <3> SUFFICES ASSUME NEW i \in DOMAIN batch', NEW x \in waiting',
                        x.t = batch'[i].t
                 PROVE  batch'[i].k < x.k
      BY Zenon
    <3>1. PICK w \in waiting : x.t = w.t /\ x.k = w.k
      BY Zenon, <1>9
    <3>2. i + 1 \in DOMAIN batch /\ batch'[i] = batch[i + 1]
      BY Zenon, <1>2
    <3> QED BY Zenon, <3>1, <3>2 DEF GInv, BatchInv
  <2>4. \A i \in DOMAIN batch' : batch'[i].k < sent[batch'[i].t]
    BY Zenon, <1>2 DEF GInv, BatchInv
  <2> QED BY Zenon, <1>1, <2>2, <2>3, <2>4 DEF BatchInv
<1>17. CountInv'
  <2>1. nextPos' = nextPos
    BY Zenon, <1>1 DEF talker
  <2>2. \A w \in waiting' : count'[w.t] <= Low(w.k) /\ nextPos[w.t] <= Low(w.k)
    <3> SUFFICES ASSUME NEW x \in waiting'
                 PROVE  count'[x.t] <= Low(x.k) /\ nextPos[x.t] <= Low(x.k)
      BY Zenon
    <3>1. PICK w \in waiting : x.t = w.t /\ x.k = w.k
      BY Zenon, <1>9
    <3>2. count[w.t] <= Low(w.k) /\ nextPos[w.t] <= Low(w.k)
      BY Zenon DEF GInv, CountInv
    <3>3. w.t \in Turns /\ w.k \in Nat
      BY Zenon, <1>8
    <3>4. w.t = e.t => e.k < w.k
      BY Zenon, <1>2 DEF GInv, BatchInv, e
    <3> QED BY Zenon, <1>10, <1>11, <3>1, <3>2, <3>3, <3>4
  <2>3. \A i \in DOMAIN batch' : count'[batch'[i].t] <= Low(batch'[i].k)
    <3> SUFFICES ASSUME NEW i \in DOMAIN batch'
                 PROVE  count'[batch'[i].t] <= Low(batch'[i].k)
      BY Zenon
    <3> DEFINE d == batch[i + 1]
    <3>1. batch'[i] = d /\ i + 1 \in DOMAIN batch /\ 1 < i + 1
      <4>1. DOMAIN batch' = 1..Len(batch')
        BY <1>2
      <4> QED BY <1>2, <4>1
    <3>2. d \in Sending /\ d.t \in Turns /\ d.k \in Nat
      BY Zenon, <1>5, <3>1, SendingFacts
    <3>3. count[d.t] <= Low(d.k)
      BY Zenon, <3>1 DEF GInv, CountInv
    <3>4. d.t = e.t => e.k < d.k
      BY Zenon, <1>2, <3>1 DEF GInv, BatchInv, e
    <3> HIDE DEF d
    <3> QED BY Zenon, <1>10, <1>11, <3>1, <3>2, <3>3, <3>4
  <2>4. \A t \in Turns : nextPos[t] <= Low(sent[t])
    BY Zenon DEF GInv, CountInv
  <2>5. pc' # "execute"
    BY Zenon, <1>2
  <2> QED BY Zenon, <1>1, <1>13, <2>1, <2>2, <2>3, <2>4, <2>5 DEF CountInv
<1> QED BY Zenon, <1>14, <1>15, <1>16, <1>17 DEF GInv

-----------------------------------------------------------------------------
(* A step has a request until all of its requests are freed. *)
Busy == pc # "idle" => batch # <<>>

LEMMA BusyKeeps ==
  ASSUME TypeOK, Busy, [Next]_vars
  PROVE  Busy'
<1>1. CASE Schedule
  <2>1. PICK n \in 1..Room : \E f \in [1..n -> waiting] :
          batch' = [i \in 1..n |-> Inject(f[i], free[i])]
    BY Zenon, <1>1 DEF Schedule
  <2>2. 1 \in DOMAIN batch'
    BY <2>1, <1>1, RoomFits
  <2> QED BY <2>2 DEF Busy
<1>2. CASE UpdateStopped \/ UpdateForced
  <2>1. batch # <<>> /\ FreeRequest(Head(batch))
    BY Zenon, <1>2 DEF UpdateStopped, UpdateForced, Busy
  <2>2. DOMAIN batch' = 1..Len(batch) - 1 /\ (pc' = "idle" <=> Len(batch) = 1)
    BY Zenon, <2>1, FreeFields
  <2>3. Len(batch) \in Nat /\ Len(batch) # 0
    BY <2>1, Typed
  <2>4. Len(batch) # 1 => 1 \in DOMAIN batch'
    <3>1. \A n \in Nat : n # 0 /\ n # 1 => 1 \in 1..n - 1
      OBVIOUS
    <3> QED BY Zenon, <2>2, <2>3, <3>1
  <2> QED BY <2>2, <2>4 DEF Busy
<1>3. CASE \/ \E t \in Turns : AddRequest(t) \/ DropTurn(t)
           \/ NewTurn \/ (\E t \in Turns, k \in Subs : AbortRequest(t, k))
           \/ UNCHANGED vars
  BY Zenon, <1>3 DEF Busy, AddRequest, DropTurn, NewTurn, AbortRequest, vars
<1>4. CASE Execute \/ Crash
  BY Zenon, <1>4 DEF Busy, Execute, Crash
<1> QED BY Zenon, <1>1, <1>2, <1>3, <1>4 DEF Next, Step

LEMMA InitGeneral == Init => GInv /\ Busy
<1> SUFFICES ASSUME Init  PROVE GInv /\ Busy
  BY Zenon
<1>1. /\ 1 \in Turns /\ 0 \in Positions /\ 0 \in 0..MaxSub
  BY Constants DEF Turns, Positions
<1>2. free \in Seq(Blocks)
  BY Constants DEF Init, Blocks
<1>3. TypeOK
  BY <1>1, <1>2 DEF Init, TypeOK
<1>4. \A t \in Turns : count[t] = 0 /\ nextPos[t] = 0 /\ sent[t] = 0
  BY Zenon DEF Init
<1>5. CountInv
  BY <1>4, LowStep DEF Init, CountInv
<1> QED BY <1>3, <1>5 DEF Init, GInv, QueueInv, BatchInv, Busy

LEMMA StepGeneral ==
  ASSUME GInv, Busy, [Next]_vars
  PROVE  GInv'
<1>1. CASE Step
  <2>1. pc \in {"execute", "update"} => batch # <<>>
    BY Zenon DEF Busy
  <2>2. CASE Schedule
    BY Zenon, <2>2, ScheduleKeeps
  <2>3. CASE Execute
    BY Zenon, <2>1, <2>3, ExecuteKeeps DEF Execute
  <2>4. CASE Crash
    BY Zenon, <2>4, CrashKeeps
  <2>5. CASE UpdateStopped
    BY Zenon, <2>1, <2>5, StoppedKeeps DEF UpdateStopped
  <2>6. CASE UpdateForced
    BY Zenon, <2>1, <2>6, ForcedKeeps DEF UpdateForced
  <2> QED BY Zenon, <1>1, <2>2, <2>3, <2>4, <2>5, <2>6 DEF Step
<1>2. CASE \E t \in Turns : AddRequest(t)
  BY Zenon, <1>2, AddKeeps
<1>3. CASE NewTurn \/ \E t \in Turns : DropTurn(t)
  BY Zenon, <1>3, TurnKeeps
<1>4. CASE \E t \in Turns, k \in Subs : AbortRequest(t, k)
  BY Zenon, <1>4, AbortKeeps
<1>5. CASE UNCHANGED vars
  BY Zenon, <1>5 DEF vars, client, lockers, talker, GInv, TypeOK, QueueInv, BatchInv,
              CountInv
<1> QED BY Zenon, <1>1, <1>2, <1>3, <1>4, <1>5 DEF Next

(* The type invariant, in which the counts and the positions of every turn *)
(* stay within the prompt and one token per sub-request, however many      *)
(* requests a step takes and however turns overlap.                        *)
THEOREM SchedulerTyped == Spec => []TypeOK
<1>1. Init => GInv /\ Busy
  BY Zenon, InitGeneral
<1>2. GInv /\ Busy /\ [Next]_vars => GInv' /\ Busy'
  BY Zenon, StepGeneral, BusyKeeps DEF GInv
<1>3. GInv => TypeOK
  BY Zenon DEF GInv
<1> QED BY <1>1, <1>2, <1>3, PTL DEF Spec

-----------------------------------------------------------------------------
(* One request at a time. *)
LEMMA OneSchedule ==
  ASSUME TypeOK, MaxRunning = 1, Schedule
  PROVE  \E w \in waiting :
           /\ \A v \in waiting \ {w} : w.at < v.at
           /\ batch' = <<Inject(w, free[1])>>
           /\ waiting' = waiting \ {w}
           /\ free[1] \in Blocks
<1>1. PICK n \in 1..Room : \E f \in [1..n -> waiting] :
        /\ Admitted(f)
        /\ batch' = [i \in 1..n |-> Inject(f[i], free[i])]
        /\ waiting' = waiting \ Range(f)
  BY Zenon DEF Schedule
<1>2. PICK f \in [1..n -> waiting] :
        /\ Admitted(f)
        /\ batch' = [i \in 1..n |-> Inject(f[i], free[i])]
        /\ waiting' = waiting \ Range(f)
  BY Zenon, <1>1
<1>3. n = 1 /\ Len(free) \in Nat /\ 1 <= Len(free)
  <2>1. Room \in Nat /\ Room <= 1 /\ Room <= Len(free)
    BY Zenon, RoomFits
  <2>2. Len(free) \in Nat
    BY DEF TypeOK
  <2> QED BY <1>1, <2>1, <2>2
<1>4. f[1] \in waiting /\ Range(f) = {f[1]} /\ DOMAIN f = {1}
  BY <1>2, <1>3 DEF Range
<1>5. batch' = <<Inject(f[1], free[1])>>
  BY <1>2, <1>3
<1>6. \A v \in waiting \ {f[1]} : f[1].at < v.at
  BY Zenon, <1>2, <1>4 DEF Admitted
<1>7. free[1] \in Blocks
  BY <1>3 DEF TypeOK
<1> QED BY Zenon, <1>2, <1>4, <1>5, <1>6, <1>7

LEMMA OneKeeps ==
  ASSUME TypeOK, OneInv, MaxRunning = 1, [Next]_vars
  PROVE  OneInv'
<1>1. CASE Schedule
  <2>1. PICK w \in waiting : batch' = <<Inject(w, free[1])>>
    BY Zenon, <1>1, OneSchedule
  <2>2. Inject(w, free[1]).outputs = history[w.t] /\ Inject(w, free[1]).t = w.t
    BY Zenon, InjectFields
  <2>3. Len(batch') = 1 /\ batch'[1] = Inject(w, free[1])
    BY Zenon, <2>1
  <2>4. pc' = "execute" /\ history' = history
    BY Zenon, <1>1 DEF Schedule, lockers
  <2> QED BY Zenon, <2>2, <2>3, <2>4 DEF OneInv
<1>2. CASE UpdateStopped \/ UpdateForced
  <2>1. FreeRequest(Head(batch)) /\ Len(batch) = 1
    BY Zenon, <1>2 DEF UpdateStopped, UpdateForced, OneInv
  <2>2. batch' = Tail(batch) /\ pc' = "idle"
    BY Zenon, <2>1 DEF FreeRequest
  <2>3. batch \in Seq(Sending)
    BY Zenon, Typed
  <2>4. batch' = <<>>
    BY <2>1, <2>2, <2>3
  <2> QED BY Zenon, <2>2, <2>4 DEF OneInv
<1>3. CASE \/ \E t \in Turns : AddRequest(t) \/ DropTurn(t)
           \/ NewTurn \/ UNCHANGED vars
  BY Zenon, <1>3 DEF OneInv, AddRequest, DropTurn, NewTurn, vars, lockers
<1>4. CASE \E t \in Turns, k \in Subs : AbortRequest(t, k)
  BY Zenon, <1>4 DEF OneInv, AbortRequest
<1>5. CASE Execute \/ Crash
  BY Zenon, <1>5 DEF OneInv, Execute, Crash, lockers
<1> QED BY Zenon, <1>1, <1>2, <1>3, <1>4, <1>5 DEF Next, Step

(* A turn whose last known token is the stop token. *)
Ended(t) == history[t] # <<>> /\ sampled[t][Last(history[t])] = "stop"

LEMMA FrozenStep ==
  ASSUME TypeOK, OneInv, [Next]_vars, NEW t \in Turns, Ended(t)
  PROVE  \/ history'[t] = <<>> /\ blockLocker'[t] = 0
         \/ /\ history'[t] = history[t] /\ count'[t] = count[t]
            /\ blockLocker'[t] = blockLocker[t]
<1>1. CASE UpdateForced
  <2> DEFINE e == Head(batch)
  <2>1. /\ pc = "update" /\ ~CheckStop(e)
        /\ blockLocker' = [blockLocker EXCEPT ![e.t] = e.block]
        /\ count' = [count EXCEPT ![e.t] = CountTotal(e)]
        /\ history' = [history EXCEPT ![e.t] = Append(@, e.k)]
    BY Zenon, <1>1 DEF UpdateForced
  <2>2. e = batch[1] /\ e.outputs = history[e.t]
    <3>1. batch \in Seq(Sending) /\ Len(batch) = 1
      BY Zenon, <2>1, Typed DEF OneInv
    <3>2. e = batch[1]
      BY <3>1
    <3> QED BY Zenon, <2>1, <3>2 DEF OneInv
  <2> HIDE DEF e
  <2>3. e.t # t
    BY Zenon, <2>1, <2>2 DEF CheckStop, Ended
  <2> QED BY Zenon, <2>1, <2>3 DEF TypeOK
<1>2. CASE \E u \in Turns, k \in Subs : AbortRequest(u, k)
  <2>1. PICK u \in Turns, k \in Subs : AbortRequest(u, k)
    BY Zenon, <1>2
  <2>2. /\ blockLocker' = [blockLocker EXCEPT ![u] = 0]
        /\ count' = [count EXCEPT ![u] = 0]
        /\ history' = [history EXCEPT ![u] = <<>>]
    BY Zenon, <2>1 DEF AbortRequest, ClearLockers
  <2>3. CASE t = u
    BY Zenon, <2>2, <2>3 DEF TypeOK
  <2>4. CASE t # u
    BY Zenon, <2>2, <2>4 DEF TypeOK
  <2> QED BY Zenon, <2>3, <2>4
<1>3. CASE \/ \E u \in Turns : AddRequest(u) \/ DropTurn(u)
           \/ NewTurn \/ Schedule \/ Execute \/ Crash \/ UpdateStopped
           \/ UNCHANGED vars
  <2>1. UNCHANGED lockers
    BY Zenon, <1>3 DEF AddRequest, DropTurn, NewTurn, Schedule, Execute, Crash,
                UpdateStopped, vars
  <2> QED BY Zenon, <2>1 DEF lockers
<1> QED BY Zenon, <1>1, <1>2, <1>3 DEF Next, Step

(* With one request per step, whether turns overlap or not, the lockers of *)
(* a turn no longer change once its stop token is in its history: the      *)
(* request that could change them was sent the history that ends with the  *)
(* stop token, and check_stop ends it before the lockers are touched.      *)
THEOREM Frozen ==
  ASSUME MaxRunning = 1
  PROVE  Spec => FrozenAfterStop
<1>1. Init => GInv /\ Busy /\ OneInv
  BY Zenon, InitGeneral DEF Init, OneInv
<1>2. GInv /\ Busy /\ OneInv /\ [Next]_vars => GInv' /\ Busy' /\ OneInv'
  BY Zenon, StepGeneral, BusyKeeps, OneKeeps DEF GInv
<1>3. GInv /\ OneInv /\ [Next]_vars =>
        [\A t \in Turns :
           history[t] # <<>> /\ sampled[t][Last(history[t])] = "stop" =>
             \/ history'[t] = <<>> /\ blockLocker'[t] = 0
             \/ /\ history'[t] = history[t] /\ count'[t] = count[t]
                /\ blockLocker'[t] = blockLocker[t]]_vars
  BY Zenon, FrozenStep DEF GInv, Ended
<1> QED BY <1>1, <1>2, <1>3, PTL DEF Spec, FrozenAfterStop

-----------------------------------------------------------------------------
(* Turns one after the other. What the steps of one request do. *)
LEMMA OneFacts ==
  ASSUME TypeOK, OneInv, pc # "idle"
  PROVE  /\ Len(batch) = 1 /\ DOMAIN batch = {1} /\ batch[1] \in Sending
         /\ Head(batch) = batch[1] /\ Last(batch) = batch[1]
         /\ batch[1].outputs = history[batch[1].t]
         /\ batch[1].t \in Turns /\ batch[1].k \in Subs /\ batch[1].k \in Nat
         /\ batch[1].block \in Blocks
<1>1. Len(batch) = 1 /\ batch[1].outputs = history[batch[1].t]
  BY Zenon DEF OneInv
<1>2. batch \in Seq(Sending)
  BY Zenon, Typed
<1>3. /\ DOMAIN batch = {1} /\ batch[1] \in Sending /\ Head(batch) = batch[1]
      /\ Last(batch) = batch[1]
  <2>1. DOMAIN batch = {1} /\ batch[1] \in Sending /\ Head(batch) = batch[1]
    BY Zenon, <1>1, <1>2, OneElement
  <2>2. Last(batch) = batch[1]
    BY Zenon, <1>1 DEF Last
  <2> QED BY Zenon, <2>1, <2>2
<1> QED BY Zenon, <1>1, <1>3, SendingFacts

LEMMA OneExecute ==
  ASSUME TypeOK, OneInv, Execute
  PROVE  /\ \A t \in Turns, k \in Subs :
              <<t, k>> # <<batch[1].t, batch[1].k>> => sampled'[t][k] = sampled[t][k]
         /\ \A b \in Blocks, p \in Positions :
              kv'[b][p] = IF batch[1].block = b
                               /\ p - batch[1].computed \in 0..PromptLen(batch[1].k) - 1
                          THEN <<batch[1].t, batch[1].k>> ELSE kv[b][p]
         /\ \A t \in Turns :
              IF batch[1].t = t
              THEN /\ lastHidden'[t] = <<t, batch[1].k>>
                   /\ nextPos'[t] = IF nextPos[t] = 0 THEN PrefillLen
                                    ELSE nextPos[t] + 1
                   /\ cache'[t] = Range(batch[1].audio)
              ELSE /\ lastHidden'[t] = lastHidden[t] /\ nextPos'[t] = nextPos[t]
                   /\ cache'[t] = {}
<1> DEFINE e == batch[1]
<1>1. /\ DOMAIN batch = {1} /\ Last(batch) = e
      /\ e.t \in Turns /\ e.k \in Subs
  BY Zenon, OneFacts DEF Execute
<1>2. \A S : S \subseteq {1} /\ S # {} => Max(S) = 1
  <2>1. \A S : S \subseteq 1..1 /\ S # {} => Max(S) \in S
    BY Zenon, MaxIn
  <2>2. 1..1 = {1}
    OBVIOUS
  <2> QED BY Zenon, <2>1, <2>2
<1>3. \A t : Of(t) = IF e.t = t THEN {1} ELSE {}
  BY Zenon, <1>1 DEF Of
<1>4. \A t \in Turns, k \in Subs :
        <<t, k>> # <<e.t, e.k>> => sampled'[t][k] = sampled[t][k]
  <2> DEFINE at(t, k) == {i \in Of(t) : batch[i].k = k}
  <2>1. PICK tokens \in [DOMAIN batch -> Tokens] :
          sampled' = [t \in Turns |-> [k \in Subs |->
             IF at(t, k) = {} THEN sampled[t][k] ELSE tokens[Max(at(t, k))]]]
    BY Zenon DEF Execute
  <2>2. \A t, k : <<t, k>> # <<e.t, e.k>> => at(t, k) = {}
    BY Zenon, <1>3
  <2> HIDE DEF at
  <2> QED BY Zenon, <2>1, <2>2
<1>5. \A b \in Blocks, p \in Positions :
        kv'[b][p] = IF e.block = b /\ p - e.computed \in 0..PromptLen(e.k) - 1
                    THEN <<e.t, e.k>> ELSE kv[b][p]
  <2> DEFINE writes(b, p) ==
               {i \in DOMAIN batch :
                  /\ batch[i].block = b
                  /\ p - batch[i].computed \in 0..PromptLen(batch[i].k) - 1}
  <2>1. kv' = [b \in Blocks |-> [p \in Positions |->
                 IF writes(b, p) = {} THEN kv[b][p]
                 ELSE <<batch[Max(writes(b, p))].t, batch[Max(writes(b, p))].k>>]]
    BY Zenon DEF Execute, WriteCache
  <2>2. \A b, p : writes(b, p) \subseteq {1}
    BY Zenon, <1>1
  <2>3. \A b, p : writes(b, p) # {} <=>
          e.block = b /\ p - e.computed \in 0..PromptLen(e.k) - 1
    BY Zenon, <1>1
  <2> HIDE DEF writes
  <2>4. \A b, p : writes(b, p) # {} => Max(writes(b, p)) = 1
    BY Zenon, <1>2, <2>2
  <2>5. ASSUME NEW b \in Blocks, NEW p \in Positions
        PROVE  kv'[b][p] = IF writes(b, p) = {} THEN kv[b][p]
                           ELSE <<batch[Max(writes(b, p))].t,
                                  batch[Max(writes(b, p))].k>>
    BY Zenon, <2>1
  <2>6. ASSUME NEW b \in Blocks, NEW p \in Positions
        PROVE  kv'[b][p] = IF writes(b, p) # {} THEN <<e.t, e.k>> ELSE kv[b][p]
    <3>1. CASE writes(b, p) = {}
      BY Zenon, <2>5, <3>1
    <3>2. CASE writes(b, p) # {}
      <4>1. Max(writes(b, p)) = 1
        BY Zenon, <2>4, <3>2
      <4> QED BY Zenon, <2>5, <3>2, <4>1
    <3> QED BY Zenon, <3>1, <3>2
  <2> SUFFICES ASSUME NEW b \in Blocks, NEW p \in Positions
               PROVE  kv'[b][p] =
                        IF e.block = b /\ p - e.computed \in 0..PromptLen(e.k) - 1
                        THEN <<e.t, e.k>> ELSE kv[b][p]
    BY Zenon
  <2>7. CASE writes(b, p) = {}
    BY Zenon, <2>3, <2>6, <2>7
  <2>8. CASE writes(b, p) # {}
    BY Zenon, <2>3, <2>6, <2>8
  <2> QED BY Zenon, <2>7, <2>8
<1>6. KeepHidden /\ RefillCache
  BY Zenon DEF Execute
<1>7. \A t \in Turns : e.t = t => Max(Of(t)) = 1
  BY Zenon, <1>2, <1>3
<1>8. \A t \in Turns : cache'[t] = IF Of(t) = {} THEN {}
                                   ELSE Range(batch[Max(Of(t))].audio)
  BY Zenon, <1>6 DEF RefillCache
<1>9. \A t \in Turns : cache'[t] = IF e.t = t THEN Range(e.audio) ELSE {}
  BY Zenon, <1>3, <1>7, <1>8
<1>10. \A t \in Turns :
         /\ lastHidden'[t] = IF Of(t) = {} THEN lastHidden[t] ELSE <<e.t, e.k>>
         /\ nextPos'[t] = IF Of(t) = {} THEN nextPos[t]
                          ELSE IF nextPos[t] = 0 THEN PrefillLen ELSE nextPos[t] + 1
  BY Zenon, <1>1, <1>6 DEF KeepHidden
<1> QED BY Zenon, <1>3, <1>4, <1>5, <1>9, <1>10

LEMMA OneForced ==
  ASSUME TypeOK, OneInv, UpdateForced
  PROVE  LET e == batch[1]
             h == history'[e.t]
         IN  /\ pc = "update" /\ pc' = "idle" /\ batch' = <<>> /\ ~CheckStop(e)
             /\ blockLocker' = [blockLocker EXCEPT ![e.t] = e.block]
             /\ count' = [count EXCEPT ![e.t] = CountTotal(e)]
             /\ tokenLocker' = [tokenLocker EXCEPT ![e.t] = e.k]
             /\ history' = [history EXCEPT ![e.t] = Append(@, e.k)]
             /\ h = Append(history[e.t], e.k) /\ h \in Seq(Subs)
             /\ \A x \in waiting' : \E w \in waiting :
                  x = Relayed(e, h, w) /\ x.at = w.at /\ x.t = w.t /\ x.k = w.k
             /\ \A w \in waiting : w.t # e.t => w \in waiting'
             /\ sampled[e.t][e.k] # "stop" =>
                  \A w \in waiting : Relayed(e, h, w) \in waiting'
<1> DEFINE e == batch[1]
           h == history'[e.t]
<1>1. pc = "update"
  BY Zenon DEF UpdateForced
<1>2. /\ Len(batch) = 1 /\ Head(batch) = e /\ e \in Sending /\ e.t \in Turns
      /\ e.k \in Subs
  BY Zenon, <1>1, OneFacts
<1>3. /\ ~CheckStop(e) /\ FreeRequest(e) /\ Relay(e)
      /\ blockLocker' = [blockLocker EXCEPT ![e.t] = e.block]
      /\ count' = [count EXCEPT ![e.t] = CountTotal(e)]
      /\ tokenLocker' = [tokenLocker EXCEPT ![e.t] = e.k]
      /\ history' = [history EXCEPT ![e.t] = Append(@, e.k)]
  BY Zenon, <1>2 DEF UpdateForced
<1>4. h = Append(history[e.t], e.k) /\ h \in Seq(Subs)
  BY <1>2, <1>3 DEF TypeOK
<1>5. pc' = "idle" /\ batch' = <<>>
  <2>1. batch \in Seq(Sending)
    BY Zenon, Typed
  <2>2. pc' = "idle" /\ batch' = Tail(batch)
    BY Zenon, <1>2, <1>3 DEF FreeRequest
  <2> QED BY <1>2, <2>1, <2>2
<1>6. waiting' = {Relayed(e, h, w) :
                    w \in {v \in waiting : ~(sampled[e.t][e.k] = "stop"
                                               /\ v.t = e.t /\ v.k > e.k)}}
  BY Zenon, <1>3, RelayShape
<1>7. arrived \in Nat /\ waiting \subseteq Entry(arrived)
  BY Zenon, Typed
<1> HIDE DEF e, h
<1>8. \A w \in waiting : /\ Relayed(e, h, w).at = w.at
                         /\ Relayed(e, h, w).t = w.t /\ Relayed(e, h, w).k = w.k
  <2> SUFFICES ASSUME NEW w \in waiting
               PROVE  /\ Relayed(e, h, w).at = w.at
                      /\ Relayed(e, h, w).t = w.t /\ Relayed(e, h, w).k = w.k
    BY Zenon
  <2>1. w \in Entry(arrived) /\ arrived \in Nat /\ e \in Sending /\ h \in Seq(Subs)
    BY Zenon, <1>2, <1>4, <1>7
  <2> QED BY Zenon, <2>1, RelayedFields
<1>9. \A x \in waiting' : \E w \in waiting :
        x = Relayed(e, h, w) /\ x.at = w.at /\ x.t = w.t /\ x.k = w.k
  BY Zenon, <1>6, <1>8
<1>10. ASSUME NEW w \in waiting, w.t # e.t  PROVE w \in waiting'
  <2>1. Relayed(e, h, w) = w
    BY Zenon, <1>10 DEF Relayed
  <2>2. Relayed(e, h, w) \in waiting'
    BY Zenon, <1>6, <1>10
  <2> QED BY Zenon, <2>1, <2>2
<1>11. sampled[e.t][e.k] # "stop" =>
         \A w \in waiting : Relayed(e, h, w) \in waiting'
  BY Zenon, <1>6
<1> QED BY Zenon, <1>1, <1>3, <1>4, <1>5, <1>9, <1>10, <1>11 DEF e, h

(* What was sampled stays sampled. *)
LEMMA SampleKeeps ==
  ASSUME GInv, OneInv, SampleInv, MaxRunning = 1, [Next]_vars
  PROVE  SampleInv' /\ \A t \in Turns : Live(t)' => Live(t)
<1>1. /\ TypeOK /\ arrived \in Nat /\ waiting \subseteq Entry(arrived)
      /\ \A t \in Turns : sent[t] \in Nat
      /\ \A w \in waiting : w.t \in Turns /\ w.k \in Nat
      /\ \A k \in Subs : k \in Nat
  BY Zenon, Typed, EntryFacts, SetsOfNumbers DEF GInv
<1>2. CASE \E t \in Turns : AddRequest(t)
  <2>1. PICK t \in Turns : AddRequest(t)
    BY Zenon, <1>2
  <2> DEFINE x == [at |-> arrived + 1, t |-> t, k |-> sent[t], token |-> None,
                   audio |-> <<>>]
  <2>2. /\ waiting' = waiting \cup {x} /\ sent' = [sent EXCEPT ![t] = @ + 1]
        /\ sampled' = sampled /\ batch' = batch /\ pc' = pc /\ dropped' = dropped
    BY Zenon, <2>1 DEF AddRequest, talker
  <2>3. x.t = t /\ x.k = sent[t]
    BY Zenon
  <2> HIDE DEF x
  <2>4. \A u \in Turns, k \in Subs : sent'[u] <= k => sent[u] <= k
    BY <1>1, <2>2 DEF TypeOK
  <2>5. \A w \in waiting', k \in Subs : w.k <= k => sampled[w.t][k] = "none"
    BY <2>2, <2>3 DEF SampleInv
  <2>6. SampleInv'
    BY Zenon, <2>2, <2>4, <2>5 DEF SampleInv
  <2>7. \A u \in Turns : Live(u)' => Live(u)
    BY Zenon, <2>2 DEF Live, Stopped
  <2> QED BY Zenon, <2>6, <2>7
<1>3. CASE \/ \E t \in Turns : DropTurn(t)
           \/ NewTurn \/ (\E t \in Turns, k \in Subs : AbortRequest(t, k))
           \/ UNCHANGED vars \/ Crash \/ UpdateStopped
  <2>1. /\ sent' = sent /\ sampled' = sampled /\ dropped \subseteq dropped'
        /\ waiting' \subseteq waiting
    BY Zenon, <1>3 DEF DropTurn, NewTurn, AbortRequest, Crash, UpdateStopped, vars, client,
                talker
  <2>2. (batch' = batch /\ pc' = pc) \/ pc' # "execute"
    BY Zenon, <1>3 DEF DropTurn, NewTurn, AbortRequest, Crash, UpdateStopped, FreeRequest,
                vars
  <2>3. SampleInv'
    BY Zenon, <2>1, <2>2 DEF SampleInv
  <2>4. \A u \in Turns : Live(u)' => Live(u)
    BY Zenon, <2>1 DEF Live, Stopped
  <2> QED BY Zenon, <2>3, <2>4
<1>4. CASE Schedule
  <2>1. PICK w \in waiting : /\ batch' = <<Inject(w, free[1])>>
                             /\ waiting' = waiting \ {w}
    BY Zenon, <1>1, <1>4, OneSchedule
  <2>2. DOMAIN batch' = {1} /\ batch'[1].t = w.t /\ batch'[1].k = w.k
    BY <2>1, InjectFields
  <2>3. sent' = sent /\ sampled' = sampled /\ dropped' = dropped
    BY Zenon, <1>4 DEF Schedule, client, talker
  <2>4. SampleInv'
    BY <2>1, <2>2, <2>3 DEF SampleInv
  <2>5. \A u \in Turns : Live(u)' => Live(u)
    BY Zenon, <2>3 DEF Live, Stopped
  <2> QED BY Zenon, <2>4, <2>5
<1>5. CASE Execute
  <2> DEFINE e == batch[1]
  <2>1. \A t \in Turns, k \in Subs :
          <<t, k>> # <<e.t, e.k>> => sampled'[t][k] = sampled[t][k]
    BY Zenon, <1>1, <1>5, OneExecute
  <2>2. /\ pc = "execute" /\ pc' = "update" /\ sent' = sent /\ waiting' = waiting
        /\ dropped' = dropped
    BY Zenon, <1>5 DEF Execute, client
  <2>3. DOMAIN batch = {1} /\ e.t \in Turns /\ e.k \in Nat /\ e.k \in Subs
    BY Zenon, <1>1, <2>2, OneFacts
  <2>4. e.k < sent[e.t] /\ \A w \in waiting : w.t = e.t => e.k < w.k
    BY Zenon, <2>3 DEF GInv, BatchInv
  <2>5. sampled[e.t][e.k] = "none"
    BY <2>2, <2>3 DEF SampleInv
  <2> HIDE DEF e
  <2>6. \A t \in Turns, k \in Subs : sent[t] <= k => sampled'[t][k] = "none"
    BY <1>1, <2>1, <2>3, <2>4 DEF SampleInv
  <2>7. \A w \in waiting, k \in Subs : w.k <= k => sampled'[w.t][k] = "none"
    BY <1>1, <2>1, <2>3, <2>4 DEF SampleInv
  <2>8. SampleInv'
    BY Zenon, <2>2, <2>6, <2>7 DEF SampleInv
  <2>9. \A u \in Turns : Live(u)' => Live(u)
    BY Zenon, <2>1, <2>2, <2>3, <2>5 DEF Live, Stopped
  <2> QED BY Zenon, <2>8, <2>9
<1>6. CASE UpdateForced
  <2>1. sent' = sent /\ sampled' = sampled /\ dropped' = dropped
    BY Zenon, <1>6 DEF UpdateForced, client, talker
  <2>3. pc' # "execute"
    BY Zenon, <1>1, <1>6, OneForced
  <2>5. \A x \in waiting' : \E w \in waiting : x.t = w.t /\ x.k = w.k
    BY Zenon, <1>1, <1>6, OneForced
  <2>6. SampleInv'
    BY <2>1, <2>3, <2>5 DEF SampleInv
  <2>7. \A u \in Turns : Live(u)' => Live(u)
    BY Zenon, <2>1 DEF Live, Stopped
  <2> QED BY Zenon, <2>6, <2>7
<1> QED BY Zenon, <1>2, <1>3, <1>4, <1>5, <1>6 DEF Next, Step

(* Nothing of a turn before it begins. *)
LEMMA FreshKeeps ==
  ASSUME GInv, OneInv, FreshInv, OrderInv, ~Overlap, [Next]_vars
  PROVE  FreshInv'
<1>1. TypeOK /\ turn \in Nat /\ \A t \in Turns : t \in Nat
  BY Zenon, Typed, SetsOfNumbers DEF GInv
<1>2. CASE \E t \in Turns : AddRequest(t)
  <2>1. PICK t \in Turns : AddRequest(t)
    BY Zenon, <1>2
  <2>2. /\ t = turn /\ sent' = [sent EXCEPT ![t] = @ + 1] /\ turn' = turn
        /\ dropped' = dropped /\ UNCHANGED lockers /\ UNCHANGED talker
    BY Zenon, <2>1 DEF AddRequest
  <2>3. \A u \in Turns : turn < u => sent'[u] = sent[u]
    BY <1>1, <2>2 DEF TypeOK
  <2> QED BY Zenon, <2>2, <2>3 DEF FreshInv, lockers, talker
<1>3. CASE NewTurn
  <2>1. /\ turn' = turn + 1 /\ sent' = sent /\ dropped' = dropped
        /\ UNCHANGED lockers /\ UNCHANGED talker
    BY Zenon, <1>3 DEF NewTurn
  <2>2. \A t \in Turns : turn' < t => turn < t
    BY <1>1, <2>1
  <2> QED BY Zenon, <2>1, <2>2 DEF FreshInv, lockers, talker
<1>4. CASE \E t \in Turns : DropTurn(t)
  <2>1. PICK t \in Turns : DropTurn(t)
    BY Zenon, <1>4
  <2>2. /\ sent[t] > 0 /\ dropped' = dropped \cup {t} /\ turn' = turn /\ sent' = sent
        /\ UNCHANGED lockers /\ UNCHANGED talker
    BY Zenon, <2>1 DEF DropTurn
  <2>3. ~(turn < t)
    BY <2>2 DEF FreshInv
  <2> QED BY Zenon, <2>2, <2>3 DEF FreshInv, lockers, talker
<1>5. CASE \E t \in Turns, k \in Subs : AbortRequest(t, k)
  <2>1. PICK t \in Turns, k \in Subs : AbortRequest(t, k)
    BY Zenon, <1>5
  <2>2. /\ blockLocker' = [blockLocker EXCEPT ![t] = 0]
        /\ count' = [count EXCEPT ![t] = 0]
        /\ tokenLocker' = [tokenLocker EXCEPT ![t] = None]
        /\ history' = [history EXCEPT ![t] = <<>>]
        /\ turn' = turn /\ sent' = sent /\ dropped' = dropped /\ UNCHANGED talker
    BY Zenon, <2>1 DEF AbortRequest, ClearLockers, client
  <2>3. \A u \in Turns : turn < u =>
          /\ blockLocker'[u] = 0 /\ count'[u] = 0 /\ tokenLocker'[u] = None
          /\ history'[u] = <<>>
    BY Zenon, <1>1, <2>2 DEF FreshInv, TypeOK
  <2> QED BY Zenon, <2>2, <2>3 DEF FreshInv, talker
<1>6. CASE Schedule \/ Crash \/ UpdateStopped \/ UNCHANGED vars
  <2>1. UNCHANGED client /\ UNCHANGED lockers /\ UNCHANGED talker
    BY Zenon, <1>6 DEF Schedule, Crash, UpdateStopped, vars
  <2> QED BY Zenon, <2>1 DEF FreshInv, client, lockers, talker
<1>7. CASE Execute
  <2>1. pc = "execute" /\ UNCHANGED client /\ UNCHANGED lockers
    BY Zenon, <1>7 DEF Execute
  <2>2. DOMAIN batch = {1} /\ batch[1].t \in Turns
    BY Zenon, <1>1, <2>1, OneFacts
  <2>3. batch[1].t <= turn
    BY Zenon, <2>2 DEF OrderInv
  <2>4. \A t \in Turns : turn < t => batch[1].t # t
    BY <1>1, <2>2, <2>3
  <2>5. \A t \in Turns : turn < t => nextPos'[t] = nextPos[t] /\ cache'[t] = {}
    BY Zenon, <1>1, <1>7, <2>4, OneExecute
  <2> QED BY Zenon, <2>1, <2>5 DEF FreshInv, client, lockers
<1>8. CASE UpdateForced
  <2> DEFINE e == batch[1]
  <2>1. /\ pc = "update"
        /\ blockLocker' = [blockLocker EXCEPT ![e.t] = e.block]
        /\ count' = [count EXCEPT ![e.t] = CountTotal(e)]
        /\ tokenLocker' = [tokenLocker EXCEPT ![e.t] = e.k]
        /\ history' = [history EXCEPT ![e.t] = Append(@, e.k)]
    BY Zenon, <1>1, <1>8, OneForced
  <2>2. DOMAIN batch = {1} /\ e.t \in Turns
    BY Zenon, <1>1, <2>1, OneFacts
  <2>3. e.t <= turn
    BY Zenon, <2>2 DEF OrderInv
  <2>4. UNCHANGED client /\ UNCHANGED talker
    BY Zenon, <1>8 DEF UpdateForced
  <2> HIDE DEF e
  <2>5. \A t \in Turns : turn < t => e.t # t
    BY <1>1, <2>2, <2>3
  <2>6. \A t \in Turns : turn < t =>
          /\ blockLocker'[t] = blockLocker[t] /\ count'[t] = count[t]
          /\ tokenLocker'[t] = tokenLocker[t] /\ history'[t] = history[t]
    BY Zenon, <1>1, <2>1, <2>5 DEF TypeOK
  <2> QED BY Zenon, <2>4, <2>6 DEF FreshInv, client, talker
<1> QED BY Zenon, <1>2, <1>3, <1>4, <1>5, <1>6, <1>7, <1>8 DEF Next, Step

(* Turns come one after the other. *)
LEMMA OrderKeeps ==
  ASSUME GInv, OneInv, OrderInv, ~Overlap, MaxRunning = 1, [Next]_vars,
         \A t \in Turns : Live(t)' => Live(t)
  PROVE  OrderInv'
<1>1. /\ TypeOK /\ turn \in Nat /\ turn \in Turns /\ arrived \in Nat
      /\ waiting \subseteq Entry(arrived)
      /\ \A t \in Turns : t \in Nat
      /\ \A w \in waiting : w.t \in Turns /\ w.t \in Nat /\ w.at \in Nat
                            /\ w.at <= arrived
  <2>1. TypeOK /\ turn \in Turns /\ arrived \in Nat /\ waiting \subseteq Entry(arrived)
    BY Zenon, Typed DEF GInv
  <2> QED BY Zenon, <2>1, EntryFacts, SetsOfNumbers
<1>2. CASE \E t \in Turns : AddRequest(t)
  <2>1. PICK t \in Turns : AddRequest(t)
    BY Zenon, <1>2
  <2> DEFINE x == [at |-> arrived + 1, t |-> t, k |-> sent[t], token |-> None,
                   audio |-> <<>>]
  <2>2. /\ t = turn /\ waiting' = waiting \cup {x} /\ turn' = turn /\ batch' = batch
    BY Zenon, <2>1 DEF AddRequest
  <2>3. x.t = turn /\ x.at = arrived + 1
    BY Zenon, <2>2
  <2>4. batch = <<>>
    BY Zenon, <2>1 DEF AddRequest, OneInv
  <2> HIDE DEF x
  <2>5. \A u \in Turns : u < turn => ~Live(u)'
    BY Zenon DEF OrderInv
  <2>6. \A w \in waiting' : w.t <= turn
    BY <1>1, <2>2, <2>3 DEF OrderInv
  <2>7. \A v, w \in waiting' : v.t < w.t => v.at < w.at
    BY <1>1, <2>2, <2>3 DEF OrderInv
  <2> QED BY <2>2, <2>4, <2>5, <2>6, <2>7 DEF OrderInv
<1>3. CASE NewTurn
  <2>1. /\ turn' = turn + 1 /\ waiting' = waiting /\ batch' = batch
        /\ turn \in dropped \/ Stopped(turn)
        /\ dropped' = dropped /\ UNCHANGED talker
    BY Zenon, <1>3 DEF NewTurn
  <2>2. ~Live(turn)
    BY Zenon, <2>1 DEF Live
  <2>3. \A t \in Turns : t < turn' => ~Live(t)
    <3> SUFFICES ASSUME NEW t \in Turns, t < turn'  PROVE ~Live(t)
      BY Zenon
    <3>1. t < turn \/ t = turn
      <4>1. t \in Nat /\ turn \in Nat
        BY Zenon, <1>1, SetsOfNumbers
      <4>2. t < turn + 1
        BY Zenon, <2>1
      <4> QED BY SMT, SMTT(20), <4>1, <4>2
    <3> QED BY Zenon, <2>2, <3>1 DEF OrderInv
  <2>4. \A w \in waiting : w.t <= turn'
    BY <1>1, <2>1 DEF OrderInv
  <2>5. \A i \in DOMAIN batch : batch[i].t <= turn'
    <3>1. \A i \in DOMAIN batch : batch[i].t \in Nat /\ batch[i].t <= turn
      BY Zenon, <1>1, Typed, SendingFacts DEF OrderInv
    <3> QED BY <1>1, <2>1, <3>1
  <2> QED BY Zenon, <2>1, <2>3, <2>4, <2>5 DEF OrderInv
<1>4. CASE \/ \E t \in Turns : DropTurn(t)
           \/ (\E t \in Turns, k \in Subs : AbortRequest(t, k))
           \/ Execute \/ Crash \/ UNCHANGED vars
  <2>1. turn' = turn /\ waiting' \subseteq waiting /\ batch' = batch
    BY Zenon, <1>4 DEF DropTurn, AbortRequest, Execute, Crash, vars, client
  <2> QED BY Zenon, <2>1 DEF OrderInv
<1>5. CASE Schedule
  <2>1. PICK w \in waiting : /\ \A v \in waiting \ {w} : w.at < v.at
                             /\ batch' = <<Inject(w, free[1])>>
                             /\ waiting' = waiting \ {w}
    BY Zenon, <1>1, <1>5, OneSchedule
  <2>2. DOMAIN batch' = {1} /\ batch'[1].t = w.t
    BY <2>1, InjectFields
  <2>3. turn' = turn
    BY Zenon, <1>5 DEF Schedule, client
  <2>4. \A v \in waiting' : w.t <= v.t
    <3> SUFFICES ASSUME NEW v \in waiting', v.t < w.t  PROVE FALSE
      BY <1>1, <2>1
    <3>1. v \in waiting /\ w.at < v.at
      BY Zenon, <2>1
    <3>2. v.at < w.at
      BY Zenon, <3>1 DEF OrderInv
    <3> QED BY <1>1, <3>1, <3>2
  <2> QED BY Zenon, <2>1, <2>2, <2>3, <2>4 DEF OrderInv
<1>6. CASE UpdateStopped \/ UpdateForced
  <2>1. turn' = turn
    BY Zenon, <1>6 DEF UpdateStopped, UpdateForced, client
  <2>2. \A x \in waiting' : \E w \in waiting : x.t = w.t /\ x.at = w.at
    <3>1. CASE UpdateStopped
      BY Zenon, <3>1 DEF UpdateStopped
    <3>2. CASE UpdateForced
      BY Zenon, <1>1, <3>2, OneForced
    <3> QED BY Zenon, <1>6, <3>1, <3>2
  <2>3. batch' = <<>>
    <3>1. OneInv' /\ pc' = "idle"
      BY Zenon, <1>1, <1>6, OneKeeps DEF UpdateStopped, UpdateForced, FreeRequest, OneInv
    <3> QED BY Zenon, <3>1 DEF OneInv
  <2>4. \A w \in waiting' : w.t <= turn
    BY Zenon, <2>2 DEF OrderInv
  <2>5. \A v, w \in waiting' : v.t < w.t => v.at < w.at
    BY Zenon, <2>2 DEF OrderInv
  <2> QED BY <2>1, <2>3, <2>4, <2>5 DEF OrderInv
<1> QED BY Zenon, <1>2, <1>3, <1>4, <1>5, <1>6 DEF Next, Step

-----------------------------------------------------------------------------
(* The turn being spoken. What is known of it, with its number of          *)
(* sub-requests spoken so far.                                             *)
LEMMA SpokenFacts ==
  ASSUME GInv, NEW t \in Turns, SpokenOf(t)
  PROVE  \E n \in Nat :
           /\ Known(t) = n /\ n <= sent[t] /\ sent[t] \in Nat /\ sent[t] <= MaxSub
           /\ LockersOf(t, n) /\ TalkerOf(t, Ran(t), Home(t))
           /\ WaitsOf(t, n, Claimed(t)) /\ RunsOf(t, n)
<1>1. PICK n : n = Known(t)
  BY Zenon
<1>2. n \in Nat
  BY <1>1 DEF Known, GInv, TypeOK
<1>3. /\ LockersOf(t, n) /\ TalkerOf(t, Ran(t), Home(t))
      /\ WaitsOf(t, n, Claimed(t)) /\ RunsOf(t, n)
  BY Zenon, <1>1 DEF SpokenOf
<1>4. sent[t] \in Nat /\ sent[t] <= MaxSub
  BY Zenon, Typed DEF GInv
<1>5. Low(n) <= Low(sent[t])
  BY Zenon, <1>3 DEF LockersOf, GInv, CountInv
<1>6. n <= sent[t]
  BY <1>2, <1>4, <1>5, Constants DEF Low
<1> QED BY Zenon, <1>1, <1>2, <1>3, <1>4, <1>6

(* A step of something else. *)
LEMMA AsideKeeps ==
  ASSUME GInv, NEW t \in Turns, SpokenOf(t), ~Runs(t), ~Runs(t)',
         history'[t] = history[t], count'[t] = count[t],
         tokenLocker'[t] = tokenLocker[t], blockLocker'[t] = blockLocker[t],
         nextPos'[t] = nextPos[t], lastHidden'[t] = lastHidden[t],
         cache'[t] = cache[t], sampled'[t] = sampled[t], sent'[t] = sent[t],
         {w \in waiting' : w.t = t} = {w \in waiting : w.t = t},
         Known(t) > 0 => kv' = kv /\ pc' = "idle" /\ waiting' \subseteq waiting
  PROVE  SpokenOf(t)'
<1>1. PICK n \in Nat : /\ Known(t) = n /\ LockersOf(t, n)
                       /\ TalkerOf(t, Ran(t), Home(t))
                       /\ WaitsOf(t, n, Claimed(t)) /\ RunsOf(t, n)
  BY Zenon, SpokenFacts
<1>2. Known(t)' = n
  BY Zenon, <1>1 DEF Known
<1>3. /\ Ran(t) = n /\ Ran(t)' = n /\ Claimed(t) = n /\ Claimed(t)' = n
      /\ Home(t) = blockLocker[t] /\ Home(t)' = blockLocker[t]
  BY Zenon, <1>1, <1>2 DEF Ran, Claimed, Home
<1>4. LockersOf(t, Known(t))'
  BY Zenon, <1>1, <1>2 DEF LockersOf
<1>5. TalkerOf(t, Ran(t), Home(t))'
  <2>1. TalkerOf(t, n, blockLocker[t])
    BY Zenon, <1>1, <1>3
  <2>2. n = 0 => 0..Low(n) - 1 = {}
    BY LowStep
  <2>3. \A p \in 0..Low(n) - 1 : kv'[blockLocker[t]][p] = kv[blockLocker[t]][p]
    <3>1. CASE n = 0
      BY Zenon, <2>2, <3>1
    <3>2. CASE n # 0
      BY <1>1, <3>2
    <3> QED BY Zenon, <3>1, <3>2
  <2> QED BY Zenon, <1>3, <2>1, <2>3 DEF TalkerOf
<1>6. WaitsOf(t, Known(t), Claimed(t))'
  <2>1. {w.k : w \in {v \in waiting' : v.t = t}} = n..sent'[t] - 1
    BY Zenon, <1>1, <1>3 DEF WaitsOf
  <2>2. \A w \in waiting' : w.t = t => w \in waiting
    BY Zenon
  <2>3. \A w \in waiting' : w.t = t =>
          \/ w.token = None /\ w.audio = <<>>
          \/ w.k = n /\ w.token = n - 1 /\ w.audio = history'[t]
    BY Zenon, <1>1, <2>2 DEF WaitsOf
  <2>4. n > 0 => \A w \in waiting' : w.t = t
    BY Zenon, <1>1 DEF WaitsOf
  <2> QED BY Zenon, <1>2, <1>3, <2>1, <2>3, <2>4 DEF WaitsOf
<1>7. RunsOf(t, Known(t))'
  BY Zenon, <1>1, <1>2 DEF RunsOf
<1> QED BY Zenon, <1>4, <1>5, <1>6, <1>7 DEF SpokenOf

(* A new sub-request of the turn. *)
LEMMA SpokenAdd ==
  ASSUME GInv, NEW t \in Turns, SpokenOf(t), AddRequest(t)
  PROVE  SpokenOf(t)'
<1>1. PICK n \in Nat :
        /\ Known(t) = n /\ n <= sent[t] /\ sent[t] \in Nat
        /\ LockersOf(t, n) /\ TalkerOf(t, Ran(t), Home(t))
        /\ WaitsOf(t, n, Claimed(t)) /\ RunsOf(t, n)
  BY Zenon, SpokenFacts
<1> DEFINE x == [at |-> arrived + 1, t |-> t, k |-> sent[t], token |-> None,
                 audio |-> <<>>]
<1>2. /\ pc = "idle" /\ pc' = "idle" /\ waiting' = waiting \cup {x}
      /\ sent'[t] = sent[t] + 1 /\ UNCHANGED lockers /\ UNCHANGED talker
  BY Zenon DEF AddRequest, GInv, TypeOK
<1>3. x.t = t /\ x.k = sent[t] /\ x.token = None /\ x.audio = <<>>
  BY Zenon
<1> HIDE DEF x
<1>4. Known(t)' = n
  BY Zenon, <1>1, <1>2 DEF Known, lockers
<1>5. /\ Ran(t) = n /\ Ran(t)' = n /\ Claimed(t) = n /\ Claimed(t)' = n
      /\ Home(t) = blockLocker[t] /\ Home(t)' = blockLocker[t] /\ ~Runs(t)'
  BY Zenon, <1>1, <1>2, <1>4 DEF Ran, Claimed, Home, Runs, lockers
<1>6. LockersOf(t, Known(t))'
  BY Zenon, <1>1, <1>2, <1>4 DEF LockersOf, lockers
<1>7. TalkerOf(t, Ran(t), Home(t))'
  BY Zenon, <1>1, <1>2, <1>5 DEF TalkerOf, talker
<1>8. WaitsOf(t, Known(t), Claimed(t))'
  <2>1. {w.k : w \in {v \in waiting' : v.t = t}}
          = {w.k : w \in {v \in waiting : v.t = t}} \cup {sent[t]}
    BY Zenon, <1>2, <1>3
  <2>2. {w.k : w \in {v \in waiting : v.t = t}} = n..sent[t] - 1
    BY Zenon, <1>1, <1>5 DEF WaitsOf
  <2>3. n..sent'[t] - 1 = n..sent[t] - 1 \cup {sent[t]}
    BY <1>1, <1>2
  <2>4. \A w \in waiting' : w.t = t =>
          \/ w.token = None /\ w.audio = <<>>
          \/ w.k = n /\ w.token = n - 1 /\ w.audio = history'[t]
    BY Zenon, <1>1, <1>2, <1>3 DEF WaitsOf, lockers
  <2>5. n > 0 => \A w \in waiting' : w.t = t
    BY Zenon, <1>1, <1>2, <1>3 DEF WaitsOf
  <2> QED BY Zenon, <1>4, <1>5, <2>1, <2>2, <2>3, <2>4, <2>5 DEF WaitsOf
<1>9. RunsOf(t, Known(t))'
  BY Zenon, <1>2, <1>5 DEF RunsOf
<1> QED BY Zenon, <1>6, <1>7, <1>8, <1>9 DEF SpokenOf

(* A turn begins. *)
LEMMA SpokenNew ==
  ASSUME GInv, OneInv, FreshInv, OrderInv, NEW t \in Turns, NewTurn, t = turn'
  PROVE  SpokenOf(t)'
<1>1. /\ t = turn + 1 /\ turn \in Nat /\ sent' = sent /\ waiting' = waiting
      /\ batch' = batch /\ pc' = pc /\ UNCHANGED lockers /\ UNCHANGED talker
  BY Zenon, Typed, SetsOfNumbers DEF NewTurn, GInv
<1>2. turn < t
  BY <1>1
<1>3. /\ sent[t] = 0 /\ blockLocker[t] = 0 /\ count[t] = 0 /\ tokenLocker[t] = None
      /\ history[t] = <<>> /\ nextPos[t] = 0 /\ cache[t] = {}
  BY Zenon, <1>2 DEF FreshInv
<1>4. ~Runs(t)'
  <2> SUFFICES ASSUME Runs(t)  PROVE FALSE
    BY Zenon, <1>1 DEF Runs
  <2>1. pc # "idle" /\ batch[1].t = t
    BY Zenon DEF Runs
  <2>2. DOMAIN batch = {1}
    BY Zenon, <2>1, OneFacts DEF GInv
  <2>3. t <= turn
    BY Zenon, <2>1, <2>2 DEF OrderInv
  <2> QED BY <1>1, <2>3
<1>5. Known(t)' = 0
  BY Zenon, <1>1, <1>3 DEF Known, lockers
<1>6. Ran(t)' = 0 /\ Claimed(t)' = 0
  BY Zenon, <1>4, <1>5 DEF Ran, Claimed
<1>7. LockersOf(t, Known(t))'
  <2>1. <<>> = [i \in 1..0 |-> i - 1]
    OBVIOUS
  <2>2. /\ history'[t] = [i \in 1..0 |-> i - 1] /\ count'[t] = Low(0)
        /\ tokenLocker'[t] = 0 - 1 /\ blockLocker'[t] = 0
    BY <1>1, <1>3, <2>1 DEF lockers, None, Low
  <2> QED BY Zenon, <1>5, <2>2 DEF LockersOf
<1>8. TalkerOf(t, Ran(t), Home(t))'
  <2>1. 0..0 - 2 = {} /\ 0..Low(0) - 1 = {}
    BY LowStep
  <2>2. nextPos'[t] = Low(0) /\ cache'[t] = 0..0 - 2
    BY Zenon, <1>1, <1>3, <2>1 DEF talker, Low
  <2> QED BY <1>6, <2>1, <2>2 DEF TalkerOf
<1>9. WaitsOf(t, Known(t), Claimed(t))'
  <2>1. \A w \in waiting : w.t # t
    <3>1. \A w \in waiting : w.t \in Nat /\ w.t <= turn
      BY Zenon, Typed, EntryFacts, SetsOfNumbers DEF GInv, OrderInv
    <3> QED BY <1>1, <3>1
  <2>2. 0..0 - 1 = {}
    OBVIOUS
  <2>3. {w.k : w \in {v \in waiting : v.t = t}} = {}
    BY Zenon, <2>1
  <2> QED BY <1>1, <1>3, <1>5, <1>6, <2>1, <2>2, <2>3 DEF WaitsOf
<1>10. RunsOf(t, Known(t))'
  BY <1>4, <1>5 DEF RunsOf
<1> QED BY Zenon, <1>7, <1>8, <1>9, <1>10 DEF SpokenOf

(* The scheduler takes a request of the turn: the first that is left. *)
LEMMA SpokenSchedule ==
  ASSUME GInv, OneInv, MaxRunning = 1, NEW t \in Turns, SpokenOf(t), Schedule
  PROVE  SpokenOf(t)'
<1>1. PICK n \in Nat :
        /\ Known(t) = n /\ n <= sent[t] /\ sent[t] \in Nat
        /\ LockersOf(t, n) /\ TalkerOf(t, Ran(t), Home(t))
        /\ WaitsOf(t, n, Claimed(t)) /\ RunsOf(t, n)
  BY Zenon, SpokenFacts
<1>2. PICK w \in waiting : /\ \A v \in waiting \ {w} : w.at < v.at
                           /\ batch' = <<Inject(w, free[1])>>
                           /\ waiting' = waiting \ {w}
  BY Zenon, OneSchedule DEF GInv
<1> DEFINE e == Inject(w, free[1])
<1>3. batch'[1] = e /\ e.t = w.t /\ e.k = w.k
  BY Zenon, <1>2, InjectFields
<1>4. /\ pc = "idle" /\ pc' = "execute" /\ sent' = sent
      /\ UNCHANGED lockers /\ UNCHANGED talker
  BY Zenon DEF Schedule, client
<1>5. ~Runs(t) /\ (Runs(t)' <=> w.t = t)
  BY Zenon, <1>3, <1>4 DEF Runs
<1>6. CASE w.t # t
  <2>1. ~(n > 0)
    BY Zenon, <1>1, <1>6 DEF WaitsOf
  <2>2. {v \in waiting' : v.t = t} = {v \in waiting : v.t = t}
    BY <1>2, <1>6
  <2> QED BY Zenon, <1>1, <1>4, <1>5, <1>6, <2>1, <2>2, AsideKeeps DEF lockers, talker
<1>7. CASE w.t = t
  <2>1. Known(t)' = n
    BY Zenon, <1>1, <1>4 DEF Known, lockers
  <2>2. /\ Ran(t) = n /\ Ran(t)' = n /\ Claimed(t) = n /\ Claimed(t)' = n + 1
        /\ Home(t) = blockLocker[t] /\ Home(t)' = e.block
    BY Zenon, <1>1, <1>3, <1>4, <1>5, <1>7, <2>1 DEF Ran, Claimed, Home
  <2>3. {v.k : v \in {u \in waiting : u.t = t}} = n..sent[t] - 1
    BY Zenon, <1>1, <2>2 DEF WaitsOf
  <2>4. \A v \in waiting : v.k \in Nat
    BY Zenon, Typed, EntryFacts DEF GInv
  <2>5. \A v \in waiting \ {w} : v.t = t => w.k < v.k
    BY Zenon, <1>2, <1>7 DEF GInv, QueueInv
  <2>6. w.k = n
    <3>1. w.k \in n..sent[t] - 1
      BY Zenon, <1>7, <2>3
    <3>2. n \in n..sent[t] - 1
      BY <1>1, <2>4, <3>1
    <3>3. PICK v \in waiting : v.t = t /\ v.k = n
      BY Zenon, <2>3, <3>2
    <3> QED BY <1>1, <2>4, <2>5, <3>1, <3>3
  <2>7. LockersOf(t, Known(t))'
    BY Zenon, <1>1, <1>4, <2>1 DEF LockersOf, lockers
  <2>8. /\ e.block = IF blockLocker[t] # 0 THEN blockLocker[t] ELSE free[1]
        /\ e.computed = IF blockLocker[t] # 0 THEN count[t] ELSE 0
        /\ e.token = IF tokenLocker[t] # None
                          /\ sampled[t][tokenLocker[t]] # "zero"
                     THEN tokenLocker[t] ELSE w.token
        /\ e.audio = IF tokenLocker[t] # None
                          /\ sampled[t][tokenLocker[t]] # "zero"
                     THEN history[t] ELSE w.audio
    BY <1>7, InjectFields
  <2> HIDE DEF e
  <2>9. /\ count[t] = Low(n) /\ tokenLocker[t] = n - 1 /\ Low(0) = 0
        /\ blockLocker[t] = 0 <=> n = 0
        /\ history[t] = [i \in 1..n |-> i - 1]
    BY Zenon, <1>1, LowStep DEF LockersOf
  <2>10. e.computed = Low(n) /\ (n > 0 => e.block = blockLocker[t])
    BY <1>1, <2>8, <2>9
  <2>11. TalkerOf(t, Ran(t), Home(t))'
    <3>1. TalkerOf(t, n, blockLocker[t])
      BY Zenon, <1>1, <2>2
    <3>2. n = 0 => 0..Low(n) - 1 = {}
      BY <2>9
    <3>3. \A p \in 0..Low(n) - 1 : kv[e.block][p] = kv[blockLocker[t]][p]
      <4>1. CASE n = 0
        BY Zenon, <3>2, <4>1
      <4>2. CASE n # 0
        BY <1>1, <2>10, <4>2
      <4> QED BY Zenon, <4>1, <4>2
    <3> QED BY Zenon, <1>4, <2>2, <3>1, <3>3 DEF TalkerOf, talker
  <2>12. WaitsOf(t, Known(t), Claimed(t))'
    <3>1. {v.k : v \in {u \in waiting' : u.t = t}}
            = {v.k : v \in {u \in waiting : u.t = t}} \ {n}
      <4>1. \A v \in waiting : v.t = t /\ v.k = n => v = w
        BY <1>1, <2>4, <2>5, <2>6
      <4> QED BY Zenon, <1>2, <2>6, <4>1
    <3>2. (n..sent[t] - 1) \ {n} = n + 1..sent[t] - 1
      BY <1>1
    <3>3. \A v \in waiting' : v.t = t =>
            \/ v.token = None /\ v.audio = <<>>
            \/ v.k = n /\ v.token = n - 1 /\ v.audio = history'[t]
      BY Zenon, <1>1, <1>2, <1>4 DEF WaitsOf, lockers
    <3>4. n > 0 => \A v \in waiting' : v.t = t
      BY Zenon, <1>1, <1>2 DEF WaitsOf
    <3> QED BY Zenon, <1>4, <2>1, <2>2, <2>3, <3>1, <3>2, <3>3, <3>4 DEF WaitsOf
  <2>13. PayloadOf(t, n, e.token, e.audio)
    <3>1. \/ w.token = None /\ w.audio = <<>>
          \/ w.token = n - 1 /\ w.audio = history[t]
      BY Zenon, <1>1, <1>7 DEF WaitsOf
    <3>2. CASE n = 0
      <4>1. tokenLocker[t] = None /\ n - 1 = None
        BY <2>9, <3>2 DEF None
      <4>2. history[t] = <<>>
        BY <2>9, <3>2
      <4> QED BY Zenon, <2>8, <3>1, <4>1, <4>2 DEF PayloadOf
    <3>3. CASE n # 0
      <4>1. tokenLocker[t] # None /\ n > 0
        BY <1>1, <2>9, <3>3 DEF None
      <4>2. CASE sampled[t][n - 1] = "zero"
        BY Zenon, <2>8, <2>9, <3>1, <4>1, <4>2 DEF PayloadOf
      <4>3. CASE sampled[t][n - 1] # "zero"
        BY Zenon, <2>8, <2>9, <4>1, <4>3 DEF PayloadOf
      <4> QED BY Zenon, <4>2, <4>3
    <3> QED BY Zenon, <3>2, <3>3
  <2>14. RunsOf(t, Known(t))'
    BY Zenon, <1>3, <1>4, <1>5, <1>7, <2>1, <2>6, <2>10, <2>13
       DEF RunsOf, PayloadOf, lockers, talker
  <2> QED BY Zenon, <2>7, <2>11, <2>12, <2>14 DEF SpokenOf
<1> QED BY Zenon, <1>6, <1>7

(* The keys a sub-request writes complete the context of the next one. *)
LEMMA Written ==
  ASSUME NEW t \in Turns, NEW n \in Subs, NEW e \in Sending, NEW old, NEW new,
         e.t = t, e.k = n, e.computed = Low(n),
         \A p \in Positions :
           new[p] = IF p - e.computed \in 0..PromptLen(e.k) - 1
                    THEN <<e.t, e.k>> ELSE old[p],
         \A p \in 0..Low(n) - 1 :
           old[p] = <<t, IF p < PrefillLen THEN 0 ELSE p - PrefillLen + 1>>
  PROVE  \A p \in 0..Low(n + 1) - 1 :
           new[p] = <<t, IF p < PrefillLen THEN 0 ELSE p - PrefillLen + 1>>
<1>1. n \in Nat /\ n + 1 <= MaxSub
  BY SetsOfNumbers, Constants
<1>2. /\ Low(n + 1) = Low(n) + PromptLen(n) /\ Low(n) \in Nat
      /\ Low(n + 1) \in Nat /\ Low(n + 1) \in Positions
  BY <1>1, LowStep
<1> SUFFICES ASSUME NEW p \in 0..Low(n + 1) - 1
             PROVE  new[p] = <<t, IF p < PrefillLen THEN 0 ELSE p - PrefillLen + 1>>
  BY Zenon
<1>3. p \in Nat /\ p < Low(n + 1)
  BY <1>2
<1>4. p \in Positions
  BY <1>2, <1>3, Constants DEF Positions
<1>5. CASE p < Low(n)
  <2>1. p \in 0..Low(n) - 1 /\ ~(p - Low(n) \in 0..PromptLen(n) - 1)
    BY <1>2, <1>3, <1>5
  <2>2. new[p] = old[p]
    BY Zenon, <1>4, <2>1
  <2> QED BY Zenon, <2>1, <2>2
<1>6. CASE ~(p < Low(n))
  <2>1. PromptLen(n) \in Nat
    BY Zenon, Constants DEF PromptLen
  <2>2. p - Low(n) \in 0..PromptLen(n) - 1
    BY <1>2, <1>3, <1>6, <2>1
  <2>3. new[p] = <<t, n>>
    BY Zenon, <1>4, <2>2
  <2>4. n = IF p < PrefillLen THEN 0 ELSE p - PrefillLen + 1
    BY <1>1, <1>2, <1>3, <1>6, Constants DEF Low, PromptLen
  <2> QED BY Zenon, <2>3, <2>4
<1> QED BY Zenon, <1>5, <1>6

(* The tokens of the turn, as the history lists them. *)
LEMMA HistorySet ==
  ASSUME NEW n \in Nat, NEW h, h = [i \in 1..n |-> i - 1]
  PROVE  Range(h) = 0..n - 1
<1>1. DOMAIN h = 1..n /\ \A i \in 1..n : h[i] = i - 1
  BY Zenon
<1>2. Range(h) = {h[i] : i \in 1..n}
  BY Zenon, <1>1 DEF Range
<1>3. \A j \in 0..n - 1 : j + 1 \in 1..n /\ j = (j + 1) - 1
  OBVIOUS
<1>4. \A i \in 1..n : i - 1 \in 0..n - 1
  OBVIOUS
<1>5. \A j \in 0..n - 1 : j \in {h[i] : i \in 1..n}
  <2> SUFFICES ASSUME NEW j \in 0..n - 1  PROVE j \in {h[i] : i \in 1..n}
    BY Zenon
  <2>1. h[j + 1] = j /\ j + 1 \in 1..n
    BY Zenon, <1>1, <1>3
  <2> QED BY Zenon, <2>1
<1>6. \A i \in 1..n : h[i] \in 0..n - 1
  BY Zenon, <1>1, <1>4
<1> QED BY Zenon, <1>2, <1>5, <1>6

(* The talker runs. *)
LEMMA SpokenExecute ==
  ASSUME GInv, OneInv, SampleInv, NEW t \in Turns, SpokenOf(t), Execute
  PROVE  SpokenOf(t)'
<1> DEFINE e == batch[1]
<1>1. PICK n \in Nat :
        /\ Known(t) = n /\ n <= sent[t] /\ sent[t] \in Nat /\ sent[t] <= MaxSub
        /\ LockersOf(t, n) /\ TalkerOf(t, Ran(t), Home(t))
        /\ WaitsOf(t, n, Claimed(t)) /\ RunsOf(t, n)
  BY Zenon, SpokenFacts
<1>2. /\ pc = "execute" /\ pc' = "update" /\ sent' = sent /\ waiting' = waiting
      /\ batch' = batch /\ UNCHANGED lockers
  BY Zenon DEF Execute, client
<1>3. /\ TypeOK /\ DOMAIN batch = {1} /\ e \in Sending /\ e.t \in Turns
      /\ e.k \in Subs /\ e.block \in Blocks
  BY Zenon, <1>2, OneFacts DEF GInv
<1>4. /\ \A u \in Turns, k \in Subs :
           <<u, k>> # <<e.t, e.k>> => sampled'[u][k] = sampled[u][k]
      /\ \A b \in Blocks, p \in Positions :
           kv'[b][p] = IF e.block = b /\ p - e.computed \in 0..PromptLen(e.k) - 1
                       THEN <<e.t, e.k>> ELSE kv[b][p]
      /\ IF e.t = t
         THEN /\ lastHidden'[t] = <<t, e.k>>
              /\ nextPos'[t] = IF nextPos[t] = 0 THEN PrefillLen ELSE nextPos[t] + 1
              /\ cache'[t] = Range(e.audio)
         ELSE /\ lastHidden'[t] = lastHidden[t] /\ nextPos'[t] = nextPos[t]
              /\ cache'[t] = {}
  BY Zenon, <1>3, OneExecute
<1>5. Runs(t) <=> e.t = t
  BY Zenon, <1>2 DEF Runs
<1>6. Runs(t)' <=> e.t = t
  BY Zenon, <1>2 DEF Runs
<1> HIDE DEF e
<1>7. CASE e.t # t
  <2>1. n = 0
    BY <1>1, <1>2, <1>5, <1>7 DEF RunsOf
  <2>2. Ran(t) = 0
    BY Zenon, <1>1, <1>5, <1>7, <2>1 DEF Ran
  <2>3. cache[t] = {}
    <3>1. 0..0 - 2 = {} /\ ~(0 > 1)
      OBVIOUS
    <3> QED BY Zenon, <1>1, <2>2, <3>1 DEF TalkerOf
  <2>4. sampled'[t] = sampled[t]
    <3>1. GInv'
      <4>1. 1 \in DOMAIN batch
        BY Zenon, <1>3
      <4>2. batch # <<>>
        BY <4>1
      <4> QED BY Zenon, <4>2, ExecuteKeeps
    <3>2. sampled'[t] \in [Subs -> Tokens \cup {"none"}]
      BY Zenon, <3>1 DEF GInv, TypeOK
    <3>3. sampled[t] \in [Subs -> Tokens \cup {"none"}]
      BY Zenon, <1>3 DEF TypeOK
    <3>4. \A k \in Subs : sampled'[t][k] = sampled[t][k]
      BY Zenon, <1>4, <1>7
    <3> QED BY <3>2, <3>3, <3>4
  <2>5. ~(Known(t) > 0)
    BY <1>1, <2>1
  <2> QED BY Zenon, <1>2, <1>4, <1>5, <1>6, <1>7, <2>3, <2>4, <2>5, AsideKeeps DEF lockers
<1>8. CASE e.t = t
  <2>1. /\ e.k = n /\ e.computed = Low(n) /\ PayloadOf(t, n, e.token, e.audio)
    BY Zenon, <1>1, <1>5, <1>8 DEF RunsOf, e
  <2>2. Known(t)' = n
    BY Zenon, <1>1, <1>2 DEF Known, lockers
  <2>3. /\ Ran(t) = n /\ Ran(t)' = n + 1 /\ Claimed(t) = n + 1 /\ Claimed(t)' = n + 1
        /\ Home(t) = e.block /\ Home(t)' = e.block
    BY Zenon, <1>1, <1>2, <1>5, <1>6, <1>8, <2>2 DEF Ran, Claimed, Home, e
  <2>4. LockersOf(t, Known(t))'
    BY Zenon, <1>1, <1>2, <2>2 DEF LockersOf, lockers
  <2>5. \A k \in Subs : k # n => sampled'[t][k] = sampled[t][k]
    BY Zenon, <1>4, <1>8, <2>1
  <2>6. n > 0 => n - 1 \in Subs /\ sampled'[t][n - 1] = sampled[t][n - 1]
    <3> SUFFICES ASSUME n > 0
                 PROVE  n - 1 \in Subs /\ sampled'[t][n - 1] = sampled[t][n - 1]
      BY Zenon
    <3>1. n - 1 \in Subs /\ n - 1 # n
      BY <1>1, SetsOfNumbers, Constants DEF Subs
    <3> QED BY Zenon, <2>5, <3>1
  <2>7. TalkerOf(t, n, e.block)
    BY Zenon, <1>1, <2>3
  <2>8. nextPos'[t] = Low(n + 1)
    <3>1. nextPos[t] = Low(n)
      BY Zenon, <2>7 DEF TalkerOf
    <3> QED BY <1>1, <1>4, <1>8, <3>1, Constants DEF Low
  <2>9. lastHidden'[t] = <<t, (n + 1) - 1>>
    BY <1>1, <1>4, <1>8, <2>1
  <2>10. \/ cache'[t] = 0..(n + 1) - 2
         \/ cache'[t] = {} /\ n + 1 > 1 /\ sampled'[t][(n + 1) - 2] = "zero"
    <3>1. cache'[t] = Range(e.audio)
      BY Zenon, <1>4, <1>8
    <3>2. (n + 1) - 2 = n - 1
      BY <1>1
    <3>3. CASE e.audio = history[t]
      <4>1. Range(history[t]) = 0..n - 1
        BY Zenon, <1>1, HistorySet DEF LockersOf
      <4> QED BY Zenon, <3>1, <3>2, <3>3, <4>1
    <3>4. CASE e.audio = <<>> /\ n > 0 /\ sampled[t][n - 1] = "zero"
      <4>1. Range(<<>>) = {}
        BY DEF Range
      <4>2. sampled'[t][n - 1] = "zero" /\ n + 1 > 1
        BY <1>1, <2>6, <3>4
      <4> QED BY Zenon, <3>1, <3>2, <3>4, <4>1, <4>2
    <3> QED BY Zenon, <2>1, <3>3, <3>4 DEF PayloadOf
  <2>11. \A p \in 0..Low(n + 1) - 1 :
           kv'[e.block][p] = <<t, IF p < PrefillLen THEN 0 ELSE p - PrefillLen + 1>>
    <3>1. \A p \in 0..Low(n) - 1 :
            kv[e.block][p] = <<t, IF p < PrefillLen THEN 0 ELSE p - PrefillLen + 1>>
      BY Zenon, <2>7 DEF TalkerOf
    <3>2. \A p \in Positions :
            kv'[e.block][p] = IF p - e.computed \in 0..PromptLen(e.k) - 1
                              THEN <<e.t, e.k>> ELSE kv[e.block][p]
      BY Zenon, <1>3, <1>4
    <3>3. n \in Subs
      BY Zenon, <1>3, <2>1
    <3>4. PICK old : old = kv[e.block]
      BY Zenon
    <3>5. PICK new : new = kv'[e.block]
      BY Zenon
    <3>6. \A p \in 0..Low(n) - 1 :
            old[p] = <<t, IF p < PrefillLen THEN 0 ELSE p - PrefillLen + 1>>
      BY Zenon, <3>1, <3>4
    <3>7. \A p \in Positions :
            new[p] = IF p - e.computed \in 0..PromptLen(e.k) - 1
                     THEN <<e.t, e.k>> ELSE old[p]
      BY Zenon, <3>2, <3>4, <3>5
    <3>8. \A p \in 0..Low(n + 1) - 1 :
            new[p] = <<t, IF p < PrefillLen THEN 0 ELSE p - PrefillLen + 1>>
      BY <1>3, <1>8, <2>1, <3>3, <3>6, <3>7, Written
    <3> QED BY Zenon, <3>5, <3>8
  <2>12. TalkerOf(t, Ran(t), Home(t))'
    BY Zenon, <2>3, <2>8, <2>9, <2>10, <2>11 DEF TalkerOf
  <2>13. WaitsOf(t, Known(t), Claimed(t))'
    BY Zenon, <1>1, <1>2, <2>2, <2>3 DEF WaitsOf, lockers
  <2>14. RunsOf(t, Known(t))'
    <3>1. /\ e.token = n - 1
             \/ (e.token = None /\ n > 0 /\ sampled'[t][n - 1] = "zero")
          /\ e.audio = history[t]
             \/ (e.audio = <<>> /\ n > 0 /\ sampled'[t][n - 1] = "zero")
      BY Zenon, <2>1, <2>6 DEF PayloadOf
    <3>2. n > 0 => e.block = blockLocker[t]
      BY Zenon, <1>1, <1>5, <1>8 DEF RunsOf, e
    <3>3. batch'[1] = e /\ history' = history /\ blockLocker' = blockLocker
      BY Zenon, <1>2 DEF lockers, e
    <3> QED BY Zenon, <1>6, <1>8, <2>1, <2>2, <3>1, <3>2, <3>3 DEF RunsOf, PayloadOf
  <2> QED BY Zenon, <2>4, <2>12, <2>13, <2>14 DEF SpokenOf
<1> QED BY Zenon, <1>7, <1>8

(* vLLM does not end a request of the turn by itself as long as the turn   *)
(* has not sampled its stop token.                                         *)
LEMMA SpokenStopped ==
  ASSUME GInv, OneInv, NEW t \in Turns, Live(t), SpokenOf(t), UpdateStopped
  PROVE  SpokenOf(t)'
<1> DEFINE e == batch[1]
<1>1. PICK n \in Nat : Known(t) = n /\ LockersOf(t, n) /\ RunsOf(t, n) /\ n <= sent[t]
                       /\ sent[t] \in Nat /\ sent[t] <= MaxSub
  BY Zenon, SpokenFacts
<1>2. /\ pc = "update" /\ sent' = sent /\ waiting' = waiting
      /\ CheckStop(Head(batch)) /\ FreeRequest(Head(batch))
      /\ UNCHANGED lockers /\ UNCHANGED talker
  BY Zenon DEF UpdateStopped, client
<1>3. /\ TypeOK /\ Len(batch) = 1 /\ Head(batch) = e /\ e.t \in Turns /\ e.k \in Subs
      /\ e.outputs = history[e.t]
  BY Zenon, <1>2, OneFacts DEF GInv
<1>4. pc' = "idle"
  BY Zenon, <1>2, <1>3 DEF FreeRequest
<1>5. e.t # t
  <2> SUFFICES ASSUME e.t = t  PROVE FALSE
    BY Zenon
  <2>1. \A k \in Subs : sampled[t][k] # "stop"
    BY Zenon DEF Live, Stopped
  <2>2. CASE history[t] = <<>>
    BY Zenon, <1>2, <1>3, <2>1, <2>2 DEF CheckStop
  <2>3. CASE history[t] # <<>>
    <3>1. Last(history[t]) \in Subs
      BY <1>3, <2>3 DEF TypeOK, Last
    <3> QED BY Zenon, <1>2, <1>3, <2>1, <2>3, <3>1 DEF CheckStop
  <2> QED BY Zenon, <2>2, <2>3
<1>6. ~Runs(t) /\ ~Runs(t)'
  BY Zenon, <1>4, <1>5 DEF Runs
<1> QED BY Zenon, <1>2, <1>4, <1>6, AsideKeeps DEF lockers, talker

(* The scheduler ends a request of the turn, which is the next to be       *)
(* spoken, and hands its token on.                                         *)
LEMMA SpokenForced ==
  ASSUME GInv, OneInv, OrderInv, NEW t \in Turns, t = turn, Live(t), SpokenOf(t),
         UpdateForced
  PROVE  SpokenOf(t)'
<1> DEFINE e == batch[1]
           h == history'[e.t]
<1>1. PICK n \in Nat :
        /\ Known(t) = n /\ n <= sent[t] /\ sent[t] \in Nat /\ sent[t] <= MaxSub
        /\ LockersOf(t, n) /\ TalkerOf(t, Ran(t), Home(t))
        /\ WaitsOf(t, n, Claimed(t)) /\ RunsOf(t, n)
  BY Zenon, SpokenFacts
<1>2. /\ pc = "update" /\ pc' = "idle"
      /\ blockLocker' = [blockLocker EXCEPT ![e.t] = e.block]
      /\ count' = [count EXCEPT ![e.t] = CountTotal(e)]
      /\ tokenLocker' = [tokenLocker EXCEPT ![e.t] = e.k]
      /\ history' = [history EXCEPT ![e.t] = Append(@, e.k)]
      /\ h = Append(history[e.t], e.k) /\ h \in Seq(Subs)
      /\ \A x \in waiting' : \E w \in waiting :
           x = Relayed(e, h, w) /\ x.at = w.at /\ x.t = w.t /\ x.k = w.k
      /\ \A w \in waiting : w.t # e.t => w \in waiting'
      /\ sampled[e.t][e.k] # "stop" =>
           \A w \in waiting : Relayed(e, h, w) \in waiting'
  BY Zenon, OneForced DEF GInv
<1>3. /\ TypeOK /\ DOMAIN batch = {1} /\ e \in Sending /\ e.t \in Turns
      /\ e.k \in Subs /\ e.k \in Nat /\ e.block \in Blocks
  BY Zenon, <1>2, OneFacts DEF GInv
<1>4. sent' = sent /\ UNCHANGED talker
  BY Zenon DEF UpdateForced, client
<1>5. (Runs(t) <=> e.t = t) /\ ~Runs(t)'
  BY Zenon, <1>2 DEF Runs
<1>6. CASE e.t # t
  <2> HIDE DEF e, h
  <2>1. n = 0
    <3>1. ~(n > 0)
      BY Zenon, <1>1, <1>2, <1>5, <1>6 DEF RunsOf
    <3>2. n \in Nat
      BY Zenon, <1>1
    <3> QED BY SMT, SMTT(20), <3>1, <3>2
  <2>2. /\ history'[t] = history[t] /\ count'[t] = count[t]
        /\ tokenLocker'[t] = tokenLocker[t] /\ blockLocker'[t] = blockLocker[t]
    BY Zenon, <1>2, <1>3, <1>6 DEF TypeOK
  <2>3. \A w \in waiting : w.t # e.t => Relayed(e, h, w) = w
    BY Zenon DEF Relayed
  <2>4. \A w : w \in waiting' /\ w.t = t <=> w \in waiting /\ w.t = t
    <3>1. ASSUME NEW x \in waiting', x.t = t  PROVE x \in waiting
      <4>1. PICK w \in waiting : x = Relayed(e, h, w) /\ x.t = w.t
        BY Zenon, <1>2
      <4>2. w.t # e.t
        BY Zenon, <1>6, <3>1, <4>1
      <4> QED BY Zenon, <2>3, <4>1, <4>2
    <3>2. ASSUME NEW w \in waiting, w.t = t  PROVE w \in waiting'
      <4>1. w.t # e.t
        BY Zenon, <1>6, <3>2
      <4> QED BY Zenon, <1>2, <4>1
    <3> QED BY Zenon, <3>1, <3>2
  <2>5. {w \in waiting' : w.t = t} = {w \in waiting : w.t = t}
    BY Zenon, <2>4
  <2>6. ~(Known(t) > 0)
    BY <1>1, <2>1
  <2> QED BY Zenon, <1>4, <1>5, <1>6, <2>2, <2>5, <2>6, AsideKeeps DEF talker
<1>7. CASE e.t = t
  <2>1. e.k = n
    BY Zenon, <1>1, <1>5, <1>7 DEF RunsOf
  <2>2. /\ Ran(t) = n + 1 /\ Claimed(t) = n + 1 /\ Home(t) = e.block
    BY Zenon, <1>1, <1>2, <1>5, <1>7 DEF Ran, Claimed, Home
  <2> HIDE DEF e
  <2>3. /\ history'[t] = Append(history[t], n) /\ count'[t] = count[t] + PromptLen(n)
        /\ tokenLocker'[t] = n /\ blockLocker'[t] = e.block /\ h = history'[t]
    BY Zenon, <1>2, <1>3, <1>7, <2>1 DEF TypeOK, CountTotal
  <2>4. /\ history[t] = [i \in 1..n |-> i - 1] /\ count[t] = Low(n)
    BY Zenon, <1>1 DEF LockersOf
  <2>5. history'[t] = [i \in 1..n + 1 |-> i - 1] /\ Len(history'[t]) = n + 1
    BY Zenon, <1>1, <2>3, <2>4, Numbers
  <2>6. /\ Known(t)' = n + 1 /\ Ran(t)' = n + 1 /\ Claimed(t)' = n + 1
        /\ Home(t)' = e.block
    BY Zenon, <1>5, <2>3, <2>5 DEF Known, Ran, Claimed, Home
  <2>7. LockersOf(t, Known(t))'
    <3>1. count'[t] = Low(n + 1)
      BY Zenon, <1>1, <2>3, <2>4, LowStep
    <3>2. tokenLocker'[t] = (n + 1) - 1 /\ blockLocker'[t] # 0 /\ n + 1 # 0
      BY <1>1, <1>3, <2>3, SetsOfNumbers
    <3> QED BY Zenon, <2>5, <2>6, <3>1, <3>2 DEF LockersOf
  <2>8. TalkerOf(t, Ran(t), Home(t))'
    <3>1. TalkerOf(t, n + 1, e.block)
      BY Zenon, <1>1, <2>2
    <3> QED BY Zenon, <1>4, <2>6, <3>1 DEF TalkerOf, talker
  <2>9. arrived \in Nat /\ waiting \subseteq Entry(arrived)
    BY Zenon, Typed DEF GInv
  <2> HIDE DEF h
  <2>10. \A w \in waiting :
           /\ Relayed(e, h, w).t = w.t /\ Relayed(e, h, w).k = w.k
           /\ IF w.t = e.t /\ w.k = e.k + 1
              THEN Relayed(e, h, w).token = e.k /\ Relayed(e, h, w).audio = h
              ELSE /\ Relayed(e, h, w).token = w.token
                   /\ Relayed(e, h, w).audio = w.audio
    <3> SUFFICES ASSUME NEW w \in waiting
                 PROVE  /\ Relayed(e, h, w).t = w.t /\ Relayed(e, h, w).k = w.k
                        /\ IF w.t = e.t /\ w.k = e.k + 1
                           THEN /\ Relayed(e, h, w).token = e.k
                                /\ Relayed(e, h, w).audio = h
                           ELSE /\ Relayed(e, h, w).token = w.token
                                /\ Relayed(e, h, w).audio = w.audio
      BY Zenon
    <3>1. w \in Entry(arrived) /\ arrived \in Nat /\ e \in Sending /\ h \in Seq(Subs)
      BY Zenon, <1>2, <1>3, <2>9
    <3> QED BY Zenon, <3>1, RelayedFields
  <2>11. \A w \in waiting : Relayed(e, h, w) \in waiting'
    BY Zenon, <1>2, <1>3, <1>7 DEF Live, Stopped
  <2>12. {w.k : w \in {v \in waiting : v.t = t}} = n + 1..sent[t] - 1
    BY Zenon, <1>1, <2>2 DEF WaitsOf
  <2>13. WaitsOf(t, Known(t), Claimed(t))'
    <3>1. {w.k : w \in {v \in waiting' : v.t = t}}
            = {w.k : w \in {v \in waiting : v.t = t}}
      <4>1. \A x \in waiting' : \E w \in waiting : x.t = w.t /\ x.k = w.k
        BY Zenon, <1>2
      <4>2. \A w \in waiting : \E x \in waiting' : x.t = w.t /\ x.k = w.k
        BY Zenon, <2>10, <2>11
      <4> DEFINE L == {w.k : w \in {v \in waiting' : v.t = t}}
                 R == {w.k : w \in {v \in waiting : v.t = t}}
      <4>3. ASSUME NEW k \in L  PROVE k \in R
        <5>1. PICK x \in waiting' : x.t = t /\ k = x.k
          BY Zenon
        <5>2. PICK w \in waiting : x.t = w.t /\ x.k = w.k
          BY Zenon, <4>1
        <5> QED BY Zenon, <5>1, <5>2
      <4>4. ASSUME NEW k \in R  PROVE k \in L
        <5>1. PICK w \in waiting : w.t = t /\ k = w.k
          BY Zenon
        <5>2. PICK x \in waiting' : x.t = w.t /\ x.k = w.k
          BY Zenon, <4>2
        <5> QED BY Zenon, <5>1, <5>2
      <4> QED BY Zenon, <4>3, <4>4
    <3>2. ASSUME NEW x \in waiting', x.t = t
          PROVE  \/ x.token = None /\ x.audio = <<>>
                 \/ x.k = n + 1 /\ x.token = (n + 1) - 1 /\ x.audio = history'[t]
      <4>1. PICK w \in waiting : x = Relayed(e, h, w) /\ x.t = w.t /\ x.k = w.k
        BY Zenon, <1>2
      <4>2. w.k \in n + 1..sent[t] - 1
        BY Zenon, <2>12, <3>2, <4>1
      <4>3. w.k # n
        BY <1>1, <4>2
      <4>4. w.token = None /\ w.audio = <<>>
        BY Zenon, <1>1, <3>2, <4>1, <4>3 DEF WaitsOf
      <4>5. CASE w.k = n + 1
        <5>1. w.t = e.t /\ w.k = e.k + 1
          BY Zenon, <1>7, <2>1, <3>2, <4>1, <4>5
        <5>2. x.token = e.k /\ x.audio = h
          BY Zenon, <2>10, <4>1, <5>1
        <5>3. (n + 1) - 1 = n
          BY <1>1
        <5> QED BY Zenon, <2>1, <2>3, <4>1, <4>5, <5>2, <5>3
      <4>6. CASE w.k # n + 1
        BY Zenon, <2>1, <2>10, <4>1, <4>4, <4>6
      <4> QED BY Zenon, <4>5, <4>6
    <3>3. ASSUME NEW x \in waiting'  PROVE x.t = t
      <4>1. PICK w \in waiting : x.t = w.t
        BY Zenon, <1>2
      <4>2. batch[1].t <= w.t /\ w.t <= turn
        BY Zenon, <1>3 DEF OrderInv
      <4>3. w.t \in Nat /\ t \in Nat
        BY Zenon, <2>9, EntryFacts, SetsOfNumbers
      <4> QED BY <1>7, <4>1, <4>2, <4>3 DEF e
    <3> QED BY Zenon, <1>4, <2>6, <2>12, <3>1, <3>2, <3>3 DEF WaitsOf
  <2>14. RunsOf(t, Known(t))'
    BY Zenon, <1>2, <1>5 DEF RunsOf
  <2> QED BY Zenon, <2>7, <2>8, <2>13, <2>14 DEF SpokenOf
<1> QED BY Zenon, <1>6, <1>7

(* The turn being spoken stays what it should be. *)
LEMMA SpokenKeeps ==
  ASSUME GInv, OneInv, SampleInv, FreshInv, OrderInv, SpokenInv,
         ~Overlap, MaxRunning = 1, [Next]_vars,
         \A t \in Turns : Live(t)' => Live(t)
  PROVE  SpokenInv'
<1> SUFFICES ASSUME NEW t \in Turns, t = turn', Live(t)'
             PROVE  SpokenOf(t)'
  BY Zenon DEF SpokenInv
<1>1. Live(t)
  BY Zenon
<1>2. CASE NewTurn
  BY Zenon, <1>2, SpokenNew
<1>3. ASSUME ~NewTurn  PROVE t = turn /\ SpokenOf(t)
  <2>1. turn' = turn
    BY Zenon, <1>3 DEF Next, Step, AddRequest, DropTurn, AbortRequest, Schedule, Execute,
              Crash, UpdateStopped, UpdateForced, client, vars
  <2> QED BY Zenon, <1>1, <2>1 DEF SpokenInv
<1>4. CASE \E u \in Turns : AddRequest(u)
  <2>1. PICK u \in Turns : AddRequest(u)
    BY Zenon, <1>4
  <2>2. turn' = turn /\ u = turn
    BY Zenon, <2>1 DEF AddRequest
  <2>3. SpokenOf(t)
    BY Zenon, <1>1, <2>2 DEF SpokenInv
  <2> QED BY Zenon, <2>1, <2>2, <2>3, SpokenAdd
<1>5. CASE ~NewTurn /\ ((\E u \in Turns : DropTurn(u)) \/ UNCHANGED vars \/ Crash)
  <2>1. /\ sent' = sent /\ waiting' = waiting /\ batch' = batch
        /\ UNCHANGED lockers /\ UNCHANGED talker
    BY Zenon, <1>5 DEF DropTurn, vars, client, Crash
  <2>2. pc' = pc \/ (pc = "execute" /\ pc' = "dead")
    BY Zenon, <1>5 DEF DropTurn, vars, Crash
  <2>3. /\ Known(t)' = Known(t) /\ Runs(t)' = Runs(t) /\ Ran(t)' = Ran(t)
        /\ Claimed(t)' = Claimed(t) /\ Home(t)' = Home(t)
    BY Zenon, <2>1, <2>2 DEF Known, Runs, Ran, Claimed, Home, lockers
  <2>4. SpokenOf(t)
    BY Zenon, <1>3, <1>5
  <2>5. LockersOf(t, Known(t))'
    BY Zenon, <2>1, <2>3, <2>4 DEF SpokenOf, LockersOf, lockers
  <2>6. TalkerOf(t, Ran(t), Home(t))'
    BY Zenon, <2>1, <2>3, <2>4 DEF SpokenOf, TalkerOf, talker
  <2>7. WaitsOf(t, Known(t), Claimed(t))'
    BY Zenon, <2>1, <2>3, <2>4 DEF SpokenOf, WaitsOf, lockers
  <2>8. RunsOf(t, Known(t))'
    BY Zenon, <2>1, <2>2, <2>3, <2>4 DEF SpokenOf, RunsOf, PayloadOf, lockers, talker
  <2> QED BY Zenon, <2>5, <2>6, <2>7, <2>8 DEF SpokenOf
<1>6. CASE \E u \in Turns, k \in Subs : AbortRequest(u, k)
  <2>1. PICK u \in Turns, k \in Subs : AbortRequest(u, k)
    BY Zenon, <1>6
  <2>2. /\ u \in dropped /\ pc = "idle" /\ pc' = "idle" /\ turn' = turn /\ sent' = sent
        /\ waiting' = {w \in waiting : <<w.t, w.k>> # <<u, k>>}
        /\ blockLocker' = [blockLocker EXCEPT ![u] = 0]
        /\ count' = [count EXCEPT ![u] = 0]
        /\ tokenLocker' = [tokenLocker EXCEPT ![u] = None]
        /\ history' = [history EXCEPT ![u] = <<>>]
        /\ UNCHANGED talker
    BY Zenon, <2>1 DEF AbortRequest, ClearLockers, client
  <2>3. u # t /\ SpokenOf(t)
    BY Zenon, <1>1, <2>2 DEF Live, SpokenInv
  <2>4. /\ history'[t] = history[t] /\ count'[t] = count[t]
        /\ tokenLocker'[t] = tokenLocker[t] /\ blockLocker'[t] = blockLocker[t]
    BY Zenon, <2>2, <2>3 DEF GInv, TypeOK
  <2>5. {w \in waiting' : w.t = t} = {w \in waiting : w.t = t}
    BY Zenon, <2>2, <2>3
  <2>6. waiting' \subseteq waiting
    BY Zenon, <2>2
  <2>7. ~Runs(t) /\ ~Runs(t)'
    BY Zenon, <2>2 DEF Runs
  <2> QED BY Zenon, <2>2, <2>3, <2>4, <2>5, <2>6, <2>7, AsideKeeps DEF talker
<1>7. CASE ~NewTurn /\ Schedule
  BY Zenon, <1>3, <1>7, SpokenSchedule
<1>8. CASE ~NewTurn /\ Execute
  BY Zenon, <1>3, <1>8, SpokenExecute
<1>9. CASE ~NewTurn /\ UpdateStopped
  BY Zenon, <1>1, <1>3, <1>9, SpokenStopped
<1>10. CASE ~NewTurn /\ UpdateForced
  BY Zenon, <1>1, <1>3, <1>10, SpokenForced
<1> QED BY Zenon, <1>2, <1>4, <1>5, <1>6, <1>7, <1>8, <1>9, <1>10 DEF Next, Step

-----------------------------------------------------------------------------
LEMMA InitSerial == Init => SerialInv
<1> SUFFICES ASSUME Init  PROVE SerialInv
  BY Zenon
<1>1. GInv /\ OneInv
  BY Zenon, InitGeneral DEF Init, OneInv
<1>2. SampleInv /\ FreshInv
  BY Zenon DEF Init, SampleInv, FreshInv
<1>3. OrderInv
  <2>1. \A t \in Turns : ~(t < 1)
    BY SetsOfNumbers
  <2> QED BY <2>1 DEF Init, OrderInv
<1>4. ASSUME NEW t \in Turns  PROVE SpokenOf(t)
  <2>1. /\ sent[t] = 0 /\ blockLocker[t] = 0 /\ count[t] = 0 /\ tokenLocker[t] = None
        /\ history[t] = <<>> /\ nextPos[t] = 0 /\ cache[t] = {} /\ waiting = {}
        /\ pc = "idle"
    BY Zenon DEF Init
  <2>2. ~Runs(t) /\ Known(t) = 0
    BY Zenon, <2>1 DEF Runs, Known
  <2>3. Ran(t) = 0 /\ Claimed(t) = 0
    BY Zenon, <2>2 DEF Ran, Claimed
  <2>4. LockersOf(t, 0)
    <3>1. 0 - 1 = None /\ Low(0) = 0
      BY LowStep DEF None
    <3> QED BY Zenon, <2>1, <3>1, Numbers DEF LockersOf
  <2>5. 0..0 - 2 = {} /\ 0..Low(0) - 1 = {} /\ 0..0 - 1 = {} /\ Low(0) = 0
    BY LowStep
  <2>6. TalkerOf(t, 0, Home(t))
    BY <2>1, <2>5 DEF TalkerOf
  <2>7. WaitsOf(t, 0, 0)
    BY Zenon, <2>1, <2>5 DEF WaitsOf
  <2>8. RunsOf(t, 0)
    BY <2>2 DEF RunsOf
  <2> QED BY Zenon, <2>2, <2>3, <2>4, <2>6, <2>7, <2>8 DEF SpokenOf
<1> QED BY Zenon, <1>1, <1>2, <1>3, <1>4 DEF SerialInv, SpokenInv

LEMMA StepSerial ==
  ASSUME SerialInv, ~Overlap, MaxRunning = 1, [Next]_vars
  PROVE  SerialInv'
<1>1. GInv /\ OneInv /\ SampleInv /\ FreshInv /\ OrderInv /\ SpokenInv
  BY Zenon DEF SerialInv
<1>2. TypeOK /\ Busy
  <2>1. pc # "idle" => Len(batch) = 1
    BY Zenon, <1>1 DEF OneInv
  <2> QED BY <1>1, <2>1 DEF GInv, Busy
<1>3. GInv'
  BY Zenon, <1>1, <1>2, StepGeneral
<1>4. OneInv'
  BY Zenon, <1>1, <1>2, OneKeeps
<1>5. SampleInv' /\ \A t \in Turns : Live(t)' => Live(t)
  BY Zenon, <1>1, SampleKeeps
<1>6. FreshInv'
  BY Zenon, <1>1, FreshKeeps
<1>7. OrderInv'
  BY Zenon, <1>1, <1>5, OrderKeeps
<1>8. SpokenInv'
  BY Zenon, <1>1, <1>5, SpokenKeeps
<1> QED BY Zenon, <1>3, <1>4, <1>5, <1>6, <1>7, <1>8 DEF SerialInv

(* The request about to be executed, if its turn is still being spoken. *)
LEMMA SpokenRuns ==
  ASSUME SerialInv, NEW e \in Spoken
  PROVE  /\ e \in Sending /\ e.t \in Turns /\ e.k \in Nat /\ e.computed = Low(e.k)
         /\ LockersOf(e.t, e.k) /\ TalkerOf(e.t, e.k, e.block)
         /\ PayloadOf(e.t, e.k, e.token, e.audio)
<1>1. GInv /\ OneInv /\ OrderInv /\ SpokenInv
  BY Zenon DEF SerialInv
<1>2. pc = "execute" /\ e \in Range(batch) /\ Live(e.t)
  BY Zenon DEF Spoken, Live
<1>3. DOMAIN batch = {1} /\ batch[1] \in Sending
  BY Zenon, <1>1, <1>2, OneFacts DEF GInv
<1>4. e = batch[1]
  BY Zenon, <1>2, <1>3 DEF Range
<1>5. e.t \in Turns /\ e.k \in Nat
  BY Zenon, <1>3, <1>4, SendingFacts
<1>6. e.t = turn
  <2>1. e.t <= turn /\ ~(e.t < turn)
    BY Zenon, <1>1, <1>2, <1>3, <1>4, <1>5 DEF OrderInv
  <2>2. e.t \in Nat /\ turn \in Nat
    BY Zenon, <1>1, <1>5, Typed, SetsOfNumbers DEF GInv
  <2> QED BY <2>1, <2>2
<1>7. SpokenOf(e.t)
  BY Zenon, <1>1, <1>2, <1>5, <1>6 DEF SpokenInv
<1>8. PICK n \in Nat : /\ Known(e.t) = n /\ LockersOf(e.t, n)
                       /\ TalkerOf(e.t, Ran(e.t), Home(e.t)) /\ RunsOf(e.t, n)
  BY Zenon, <1>1, <1>5, <1>7, SpokenFacts
<1>9. Runs(e.t) /\ Ran(e.t) = n /\ Home(e.t) = e.block
  BY Zenon, <1>2, <1>4, <1>8 DEF Runs, Ran, Home
<1>10. n = e.k /\ e.computed = Low(n) /\ PayloadOf(e.t, n, e.token, e.audio)
  BY Zenon, <1>4, <1>8, <1>9 DEF RunsOf
<1> QED BY Zenon, <1>3, <1>4, <1>5, <1>8, <1>9, <1>10

LEMMA ContextOf == SerialInv => ContextIntact
<1> SUFFICES ASSUME SerialInv, NEW e \in Spoken
             PROVE  /\ e.computed = Low(e.k) /\ nextPos[e.t] = Low(e.k)
                    /\ \A p \in 0..Low(e.k) - 1 :
                         kv[e.block][p] =
                           <<e.t, IF p < PrefillLen THEN 0 ELSE p - PrefillLen + 1>>
  BY Zenon DEF ContextIntact, Low
<1> QED BY Zenon, SpokenRuns DEF TalkerOf

LEMMA RelayOf == SerialInv => RelayIntact
<1> SUFFICES ASSUME SerialInv, NEW e \in Spoken, e.k > 0
             PROVE  /\ InputToken(e) = sampled[e.t][e.k - 1]
                    /\ lastHidden[e.t] = <<e.t, e.k - 1>>
  BY Zenon DEF RelayIntact
<1>1. /\ e.k \in Nat /\ TalkerOf(e.t, e.k, e.block)
      /\ PayloadOf(e.t, e.k, e.token, e.audio)
  BY Zenon, SpokenRuns
<1>2. lastHidden[e.t] = <<e.t, e.k - 1>>
  BY Zenon, <1>1 DEF TalkerOf
<1>3. e.k - 1 # None
  BY <1>1 DEF None
<1>4. CASE e.token = e.k - 1
  BY Zenon, <1>2, <1>3, <1>4 DEF InputToken
<1>5. CASE e.token = None /\ sampled[e.t][e.k - 1] = "zero"
  BY Zenon, <1>2, <1>5 DEF InputToken
<1> QED BY Zenon, <1>1, <1>2, <1>4, <1>5 DEF PayloadOf

LEMMA HistoryOf == SerialInv => HistoryIntact
<1> SUFFICES ASSUME SerialInv, NEW e \in Spoken,
                    ~(/\ e.k > 1 /\ sampled[e.t][e.k - 1] = "zero"
                      /\ sampled[e.t][e.k - 2] = "zero")
             PROVE  SamplerHistory(e) = 0..e.k - 1
  BY Zenon DEF HistoryIntact
<1>1. /\ e.k \in Nat /\ LockersOf(e.t, e.k) /\ TalkerOf(e.t, e.k, e.block)
      /\ PayloadOf(e.t, e.k, e.token, e.audio)
  BY Zenon, SpokenRuns
<1>2. CASE e.k = 0
  <2>1. 0..0 - 2 = {} /\ 0..0 - 1 = {} /\ ~(0 > 1)
    OBVIOUS
  <2>2. cache[e.t] = {}
    BY Zenon, <1>1, <1>2, <2>1 DEF TalkerOf
  <2> QED BY Zenon, <1>2, <2>1, <2>2 DEF SamplerHistory
<1>3. CASE e.k # 0
  <2> DEFINE fed == IF e.token # None THEN {e.token}
                    ELSE {j \in {e.k - 1} : sampled[e.t][j] = "zero"}
  <2>1. fed = {e.k - 1}
    <3>1. CASE e.token = e.k - 1
      <4>1. e.k - 1 # None
        BY <1>1, <1>3 DEF None
      <4> QED BY Zenon, <3>1, <4>1
    <3>2. CASE e.token = None /\ sampled[e.t][e.k - 1] = "zero"
      BY Zenon, <3>2
    <3> QED BY Zenon, <1>1, <3>1, <3>2 DEF PayloadOf
  <2>2. SamplerHistory(e) = fed \cup IF cache[e.t] # {} THEN cache[e.t]
                                     ELSE Range(e.audio)
    BY Zenon, <1>3 DEF SamplerHistory
  <2> HIDE DEF fed
  <2>3. Range(history[e.t]) = 0..e.k - 1
    BY Zenon, <1>1, HistorySet DEF LockersOf
  <2>4. {e.k - 1} \cup 0..e.k - 2 = 0..e.k - 1
    BY <1>1, <1>3
  <2>5. {e.k - 1} \cup 0..e.k - 1 = 0..e.k - 1
    BY <1>1, <1>3
  <2>6. Range(<<>>) = {}
    BY DEF Range
  <2>7. CASE cache[e.t] # {}
    <3>1. cache[e.t] = 0..e.k - 2
      BY Zenon, <1>1, <2>7 DEF TalkerOf
    <3> QED BY Zenon, <2>1, <2>2, <2>4, <2>7, <3>1
  <2>8. CASE cache[e.t] = {} /\ e.audio = history[e.t]
    BY Zenon, <2>1, <2>2, <2>3, <2>5, <2>8
  <2>9. CASE cache[e.t] = {} /\ e.audio = <<>> /\ sampled[e.t][e.k - 1] = "zero"
    <3>1. ~(e.k > 1 /\ sampled[e.t][e.k - 2] = "zero")
      BY Zenon, <2>9
    <3>2. cache[e.t] = 0..e.k - 2
      BY Zenon, <1>1, <3>1 DEF TalkerOf
    <3>3. {e.k - 1} \cup {} = 0..e.k - 1
      BY Zenon, <2>4, <2>9, <3>2
    <3> QED BY Zenon, <2>1, <2>2, <2>6, <2>9, <3>3
  <2> QED BY Zenon, <1>1, <2>7, <2>8, <2>9 DEF PayloadOf
<1> QED BY Zenon, <1>2, <1>3

(* With turns spoken one after the other and one request per step, a       *)
(* sub-request that schedule() sends to the runner finds all earlier ones  *)
(* of its turn in the block the locker injects, though vLLM freed that     *)
(* block each time; its count and the talker's position are their number.  *)
THEOREM Context ==
  ASSUME ~Overlap, MaxRunning = 1
  PROVE  Spec => []ContextIntact
<1>1. Init => SerialInv
  BY Zenon, InitSerial
<1>2. SerialInv /\ [Next]_vars => SerialInv'
  BY Zenon, StepSerial
<1>3. SerialInv => ContextIntact
  BY Zenon, ContextOf
<1> QED BY <1>1, <1>2, <1>3, PTL DEF Spec

(* Under the same conditions the talker is fed the token and the hidden    *)
(* state of the predecessor, whether the sub-request came before or after  *)
(* the predecessor was done.                                               *)
THEOREM Relaying ==
  ASSUME ~Overlap, MaxRunning = 1
  PROVE  Spec => []RelayIntact
<1>1. Init => SerialInv
  BY Zenon, InitSerial
<1>2. SerialInv /\ [Next]_vars => SerialInv'
  BY Zenon, StepSerial
<1>3. SerialInv => RelayIntact
  BY Zenon, RelayOf
<1> QED BY <1>1, <1>2, <1>3, PTL DEF Spec

(* And the sampler penalises exactly the tokens of the turn, unless the    *)
(* last two were both token 0.                                             *)
THEOREM Penalised ==
  ASSUME ~Overlap, MaxRunning = 1
  PROVE  Spec => []HistoryIntact
<1>1. Init => SerialInv
  BY Zenon, InitSerial
<1>2. SerialInv /\ [Next]_vars => SerialInv'
  BY Zenon, StepSerial
<1>3. SerialInv => HistoryIntact
  BY Zenon, HistoryOf
<1> QED BY <1>1, <1>2, <1>3, PTL DEF Spec
=============================================================================
