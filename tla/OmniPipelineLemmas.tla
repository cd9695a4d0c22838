------------------------ MODULE OmniPipelineLemmas ------------------------
(***************************************************************************)
(* The first half of the proofs about OmniPipeline: the inductive          *)
(* invariant, and that it is kept by the steps of the stage workers and by *)
(* those of the orchestrator that yield nothing.                           *)
(*                                                                         *)
(* The argument is one chain: from the last stage's output queue back to   *)
(* the first stage's input queue the requests are in the order of the      *)
(* prompts, so that no request overtakes another.  A request that has its  *)
(* final output is before all of the chain, hence nowhere in it.           *)
(***************************************************************************)
EXTENDS OmniPipeline, TLAPS

ReplyKinds == {"ok", "error", "ready"}

Replies == [kind : ReplyKinds, msg : Messages]

WorkerStates == {"init", "idle", "batching", "running", "gone"}

Workers == [pc : WorkerStates, batch : Seq(Messages), sent : 0..MaxBatch]

(* A request is among the messages, the results (replies that are neither  *)
(* an error nor stage_ready) or the tasks of a batch without result yet.   *)
HasReq(q, r) == \E i \in 1..Len(q) : q[i].req = r

HasResult(q, r) == \E i \in 1..Len(q) : q[i].kind = "ok" /\ q[i].msg.req = r

HasTask(w, r) == \E i \in 1..Len(w.batch) : i > w.sent /\ w.batch[i].req = r

(* A place in the pipeline: stage, station and request.  The stations of a *)
(* stage are its input queue (0), its batch (1), its output queue (2) and  *)
(* the yield (3).                                                          *)
Places == Stages \X (0..3) \X Requests

Where ==
  {a \in Places :
     \/ a[2] = 0 /\ HasReq(inQ[a[1]], a[3])
     \/ a[2] = 1 /\ HasTask(worker[a[1]], a[3])
     \/ a[2] = 2 /\ HasResult(outQ[a[1]], a[3])
     \/ a[2] = 3 /\ pc = "yield" /\ pos = a[1] /\ cur = a[3]}

(* The place a is further on in the pipeline than b.                       *)
Ahead(a, b) == a[1] > b[1] \/ (a[1] = b[1] /\ a[2] > b[2])

(* No request overtakes another.                                           *)
Chain(W) == \A a, b \in W : Ahead(a, b) => a[3] < b[3]

(* What was yielded at a stage is before all that the stage will yield.    *)
YieldedFirst(Y, W) ==
  \A i \in 1..Len(Y) : \A a \in W :
    a[1] < Y[i].stage \/ (a[1] = Y[i].stage /\ a[2] < 3) => Y[i].req < a[3]

HasYielded(Y, r, s) == \E i \in 1..Len(Y) : Y[i].req = r /\ Y[i].stage = s

(* No request is beyond its final stage, and beyond stage 0 only with its  *)
(* text returned.                                                          *)
OnRoute(Y, s, r) == s <= FinalStage(r) /\ (s > 0 => HasYielded(Y, r, 0))

(* Requests in the order of the prompts; 0 is the number of a shutdown,    *)
(* which is behind all requests.  Errors come in no order: a batch that    *)
(* fails between two results has errors for requests before them.          *)
Sorted(q) ==
  \A i, j \in 1..Len(q) :
    i < j /\ q[j].req # 0 => q[i].req # 0 /\ q[i].req < q[j].req

SortedReplies(q) ==
  \A i, j \in 1..Len(q) :
    i < j /\ q[i].kind = "ok" /\ q[j].kind = "ok" => q[i].msg.req < q[j].msg.req

(* An input of stage s carries the data of its own request, in a segment   *)
(* of its own if it is large.                                              *)
InMsg(s, m) ==
  /\ m.req \in Requests /\ m.data = m.req
  /\ s > 0 /\ m.req \in Large => m.seg = <<"in", s, m.req>>
  /\ s = 0 \/ m.req \notin Large => m.seg = <<>>

OutMsg(s, p) ==
  \/ p.kind = "ready" /\ p.msg = Shutdown
  \/ p.kind = "error" /\ p.msg.req \in Requests
  \/ /\ p.kind = "ok" /\ p.msg.req \in Requests /\ p.msg.data = p.msg.req
     /\ p.msg.req \in Large => p.msg.seg = <<"out", s, p.msg.req>>
     /\ p.msg.req \notin Large => p.msg.seg = <<>>

(* Shutdown tasks are sent only when the orchestrator has stopped sending  *)
(* anything else.                                                          *)
InQOK(s, q, c) ==
  /\ \A i \in 1..Len(q) :
       InMsg(s, q[i]) \/ (q[i] = Shutdown /\ c \in {"joining", "closed"})
  /\ Sorted(q)

OutQOK(s, q) == (\A i \in 1..Len(q) : OutMsg(s, q[i])) /\ SortedReplies(q)

BatchOK(s, w) ==
  /\ \A i \in 1..Len(w.batch) : InMsg(s, w.batch[i])
  /\ Sorted(w.batch)
  /\ w.pc \in {"init", "idle"} => w.batch = <<>>
  /\ w.pc \in {"init", "idle", "batching"} => w.sent = 0
  /\ w.pc = "batching" => Len(w.batch) > 0
  /\ w.pc = "running" => w.sent < Len(w.batch)

QueueInv ==
  \A s \in Stages :
    InQOK(s, inQ[s], pc) /\ OutQOK(s, outQ[s]) /\ BatchOK(s, worker[s])

ChainInv ==
  /\ Chain(Where) /\ YieldedFirst(yielded, Where)
  /\ \A a \in Where : OnRoute(yielded, a[1], a[3])

YieldInv ==
  /\ \A i \in 1..Len(yielded) :
       /\ yielded[i].data = yielded[i].req /\ FinalOutput(yielded[i].stage)
       /\ OnRoute(yielded, yielded[i].stage, yielded[i].req)
  /\ PromptOrder
  /\ pc = "yield" => /\ outputs[pos] = cur /\ HasYielded(yielded, cur, pos)
                     /\ cur \in Requests /\ FinalOutput(pos)

(* The requests that completed_requests counts.                            *)
Done ==
  {r \in Requests : HasYielded(yielded, r, FinalStage(r)) /\ ~(pc = "yield" /\ cur = r)}

CountInv ==
  /\ completed <= Cardinality(Done)
  /\ ~cut => completed = Cardinality(Done)
  /\ pc \in {"closing", "joining", "closed"} /\ ~cut => completed = N

(* A segment exists only while its message waits to be read.               *)
Unread(s, r) ==
  HasReq(inQ[s], r) \/ (HasTask(worker[s], r) /\ worker[s].pc # "running")

SegInv ==
  \A g \in segs :
    /\ g[3] \in Large
    /\ g[1] = "in" => g[2] > 0 /\ Unread(g[2], g[3])
    /\ g[1] = "out" => HasResult(outQ[g[2]], g[3])

(* The inductive invariant.                                                *)
IInv == TypeOK /\ QueueInv /\ ChainInv /\ YieldInv /\ CountInv /\ SegInv

-----------------------------------------------------------------------------
(* What PipelineAssumption says of the ranges.                             *)
LEMMA Constants ==
  /\ N \in Nat /\ N > 0 /\ NumStages \in Nat /\ NumStages > 0
  /\ MaxBatch \in Nat /\ MaxBatch > 0 /\ MaxFaults \in Nat
  /\ TextOnly \subseteq Requests /\ Large \subseteq Requests
  /\ LastStage \in Stages /\ 0 \in Stages /\ LastStage \in Nat
  /\ \A s \in Stages : s \in Nat /\ s <= LastStage
  /\ \A r \in Requests : r \in Nat /\ r > 0 /\ r # 0
BY PipelineAssumption DEF Requests, Stages, LastStage

(* The elements of a queue have its type.                                  *)
LEMMA Elements ==
  ASSUME NEW S, NEW q \in Seq(S)
  PROVE  Len(q) \in Nat /\ \A i \in 1..Len(q) : q[i] \in S
OBVIOUS

(* The empty queue, of any type.                                           *)
LEMMA NoElements ==
  /\ Len(<<>>) = 0 /\ 1..Len(<<>>) = {}
  /\ \A S : <<>> \in Seq(S)
OBVIOUS

(* What taking the first element off a queue leaves.                       *)
LEMMA TakeFirst ==
  ASSUME NEW S, NEW q \in Seq(S), q # <<>>
  PROVE  /\ Head(q) \in S /\ Head(q) = q[1] /\ 1 \in 1..Len(q)
         /\ Tail(q) \in Seq(S) /\ Len(Tail(q)) = Len(q) - 1
         /\ \A i \in 1..Len(Tail(q)) :
              i + 1 \in 1..Len(q) /\ 1 < i + 1 /\ Tail(q)[i] = q[i + 1]
         /\ \A i \in 1..Len(q) :
              i = 1 \/ (i - 1 \in 1..Len(Tail(q)) /\ Tail(q)[i - 1] = q[i])
<1>1. /\ Head(q) \in S /\ Head(q) = q[1] /\ 1 \in 1..Len(q)
      /\ Tail(q) \in Seq(S) /\ Len(Tail(q)) = Len(q) - 1
      /\ \A i \in 1..Len(Tail(q)) :
           i + 1 \in 1..Len(q) /\ 1 < i + 1 /\ Tail(q)[i] = q[i + 1]
  OBVIOUS
<1>2. ASSUME NEW i \in 1..Len(q), i # 1
      PROVE  i - 1 \in 1..Len(Tail(q)) /\ Tail(q)[i - 1] = q[i]
  <2>1. Len(q) \in Nat
    BY Zenon, Elements
  <2>2. i - 1 \in 1..Len(Tail(q)) /\ (i - 1) + 1 = i
    BY <2>1, <1>1, <1>2
  <2> QED
    BY Zenon, <2>2, <1>1
<1> QED
  BY Zenon, <1>1, <1>2

(* Appending one element to a sequence.                                    *)
LEMMA Appended ==
  ASSUME NEW S, NEW q \in Seq(S), NEW x \in S
  PROVE  /\ Append(q, x) \in Seq(S) /\ Len(Append(q, x)) = Len(q) + 1
         /\ \A i \in 1..Len(q) : Append(q, x)[i] = q[i] /\ i \in 1..Len(Append(q, x))
         /\ Append(q, x)[Len(q) + 1] = x /\ Len(q) + 1 \in 1..Len(Append(q, x))
         /\ \A i \in 1..Len(Append(q, x)) : i \in 1..Len(q) \/ i = Len(q) + 1
<1>1. /\ Append(q, x) \in Seq(S) /\ Len(Append(q, x)) = Len(q) + 1
      /\ \A i \in 1..Len(q) : Append(q, x)[i] = q[i]
      /\ Append(q, x)[Len(q) + 1] = x
  OBVIOUS
<1>2. Len(q) \in Nat
  OBVIOUS
<1> QED
  BY <1>1, <1>2

(* An exchange of one stage's entry.                                       *)
LEMMA Updated ==
  ASSUME NEW S, NEW f \in [Stages -> S], NEW s \in Stages, NEW v \in S,
         NEW g, g = [f EXCEPT ![s] = v]
  PROVE  g \in [Stages -> S] /\ g[s] = v /\ \A t \in Stages : t # s => g[t] = f[t]
BY Zenon

(* The numbers of messages are numbers.                                    *)
LEMMA MessageTypes ==
  /\ \A m \in Messages : m.req \in Nat /\ m.data \in Nat
  /\ Shutdown \in Messages /\ Shutdown.req = 0
<1>1. Shutdown \in Messages /\ Shutdown.req = 0
  BY Constants DEF Shutdown, Messages
<1>2. \A m \in Messages : m.req \in Nat /\ m.data \in Nat
  BY Constants DEF Messages
<1> QED
  BY Zenon, <1>1, <1>2

-----------------------------------------------------------------------------
(* A task is taken from the head of an input queue: it is before all that  *)
(* stay, and nothing is behind a shutdown but shutdowns.                   *)
LEMMA QueueTail ==
  ASSUME NEW s \in Stages, NEW c, NEW q \in Seq(Messages), InQOK(s, q, c), q # <<>>
  PROVE  /\ Head(q) \in Messages /\ Tail(q) \in Seq(Messages)
         /\ InQOK(s, Tail(q), c)
         /\ InMsg(s, Head(q)) \/ (Head(q) = Shutdown /\ c \in {"joining", "closed"})
         /\ HasReq(q, Head(q).req)
         /\ \A r \in Requests : HasReq(Tail(q), r) => HasReq(q, r) /\ Head(q).req < r
         /\ \A r \in Requests : HasReq(q, r) => HasReq(Tail(q), r) \/ r = Head(q).req
         /\ Head(q) = Shutdown => \A r \in Requests : ~HasReq(q, r)
<1>0. \A i \in 1..Len(q) :
        i = 1 \/ (i - 1 \in 1..Len(Tail(q)) /\ Tail(q)[i - 1] = q[i])
  BY Zenon, TakeFirst
<1>1. /\ Head(q) \in Messages /\ Head(q) = q[1] /\ 1 \in 1..Len(q)
      /\ Tail(q) \in Seq(Messages) /\ Len(Tail(q)) = Len(q) - 1
      /\ \A i \in 1..Len(Tail(q)) :
           i + 1 \in 1..Len(q) /\ 1 < i + 1 /\ Tail(q)[i] = q[i + 1]
  BY Zenon, TakeFirst
<1>2. /\ \A i \in 1..Len(q) :
           InMsg(s, q[i]) \/ (q[i] = Shutdown /\ c \in {"joining", "closed"})
      /\ Sorted(q)
  BY Zenon DEF InQOK
<1>3. Sorted(Tail(q))
  <2> SUFFICES ASSUME NEW i \in 1..Len(Tail(q)), NEW j \in 1..Len(Tail(q)),
                      i < j, Tail(q)[j].req # 0
               PROVE  Tail(q)[i].req # 0 /\ Tail(q)[i].req < Tail(q)[j].req
    BY Zenon DEF Sorted
  <2>1. /\ i + 1 \in 1..Len(q) /\ j + 1 \in 1..Len(q) /\ i + 1 < j + 1
        /\ Tail(q)[i] = q[i + 1] /\ Tail(q)[j] = q[j + 1]
    BY <1>1
  <2> QED
    BY Zenon, <2>1, <1>2 DEF Sorted
<1>4. InQOK(s, Tail(q), c)
  BY Zenon, <1>1, <1>2, <1>3 DEF InQOK
<1>5. HasReq(q, Head(q).req)
  BY Zenon, <1>1 DEF HasReq
<1>6. ASSUME NEW r \in Requests, HasReq(Tail(q), r)
      PROVE  HasReq(q, r) /\ Head(q).req < r /\ Head(q).req # 0
  <2>1. PICK i \in 1..Len(Tail(q)) : Tail(q)[i].req = r
    BY Zenon, <1>6 DEF HasReq
  <2>2. i + 1 \in 1..Len(q) /\ 1 < i + 1 /\ q[i + 1].req = r
    BY Zenon, <2>1, <1>1
  <2>3. r # 0
    BY Zenon, Constants
  <2> QED
    BY Zenon, <2>2, <2>3, <1>1, <1>2 DEF HasReq, Sorted
<1>7. ASSUME Head(q) = Shutdown, NEW r \in Requests, HasReq(q, r)
      PROVE  FALSE
  <2>1. PICK i \in 1..Len(q) : q[i].req = r
    BY Zenon, <1>7 DEF HasReq
  <2>2. r # 0 /\ Head(q).req = 0
    BY Zenon, <1>7, Constants, MessageTypes
  <2>3. i # 1
    BY Zenon, <2>1, <2>2, <1>1
  <2>4. 1 < i
    BY <2>3
  <2> QED
    BY Zenon, <2>1, <2>2, <2>4, <1>1, <1>2 DEF Sorted
<1>8. \A r \in Requests : HasReq(q, r) => HasReq(Tail(q), r) \/ r = Head(q).req
  BY Zenon, <1>0, <1>1 DEF HasReq
<1> QED
  BY Zenon, <1>1, <1>2, <1>4, <1>5, <1>6, <1>7, <1>8

(* A task joins the end of an input queue or a batch.                      *)
LEMMA QueueAppend ==
  ASSUME NEW s \in Stages, NEW c, NEW q \in Seq(Messages), InQOK(s, q, c),
         NEW m \in Messages, InMsg(s, m),
         \A i \in 1..Len(q) : q[i].req # 0 /\ q[i].req < m.req
  PROVE  /\ Append(q, m) \in Seq(Messages) /\ InQOK(s, Append(q, m), c)
         /\ \A r \in Requests : HasReq(Append(q, m), r) <=> HasReq(q, r) \/ r = m.req
<1> DEFINE p == Append(q, m)
<1>1. /\ p \in Seq(Messages) /\ Len(p) = Len(q) + 1
      /\ \A i \in 1..Len(q) : p[i] = q[i] /\ i \in 1..Len(p)
      /\ p[Len(q) + 1] = m /\ Len(q) + 1 \in 1..Len(p)
      /\ \A i \in 1..Len(p) : i \in 1..Len(q) \/ i = Len(q) + 1
  BY Zenon, Appended
<1> HIDE DEF p
<1>2. Sorted(q) /\ Len(q) \in Nat
  BY Zenon, Elements DEF InQOK
<1>3. Sorted(p)
  <2> SUFFICES ASSUME NEW i \in 1..Len(p), NEW j \in 1..Len(p), i < j, p[j].req # 0
               PROVE  p[i].req # 0 /\ p[i].req < p[j].req
    BY Zenon DEF Sorted
  <2>1. i \in 1..Len(q) /\ p[i] = q[i]
    BY <1>1, <1>2
  <2>2. CASE j \in 1..Len(q)
    BY Zenon, <2>1, <2>2, <1>1, <1>2 DEF Sorted
  <2>3. CASE j = Len(q) + 1
    BY Zenon, <2>1, <2>3, <1>1
  <2> QED
    BY Zenon, <2>2, <2>3, <1>1
<1>4. InQOK(s, p, c)
  BY Zenon, <1>1, <1>3 DEF InQOK
<1>5. \A r \in Requests : HasReq(p, r) <=> HasReq(q, r) \/ r = m.req
  BY Zenon, <1>1 DEF HasReq
<1> QED
  BY Zenon, <1>1, <1>4, <1>5 DEF p

(* A shutdown task goes behind everything.                                 *)
LEMMA QueueShutdown ==
  ASSUME NEW s \in Stages, NEW c, NEW q \in Seq(Messages), InQOK(s, q, c),
         NEW d \in {"joining", "closed"}
  PROVE  /\ Append(q, Shutdown) \in Seq(Messages) /\ InQOK(s, Append(q, Shutdown), d)
         /\ \A r \in Requests : HasReq(Append(q, Shutdown), r) <=> HasReq(q, r)
<1> DEFINE p == Append(q, Shutdown)
<1>0. Shutdown \in Messages /\ Shutdown.req = 0
  BY Zenon, MessageTypes
<1>1. /\ p \in Seq(Messages) /\ Len(p) = Len(q) + 1
      /\ \A i \in 1..Len(q) : p[i] = q[i] /\ i \in 1..Len(p)
      /\ p[Len(q) + 1] = Shutdown /\ Len(q) + 1 \in 1..Len(p)
      /\ \A i \in 1..Len(p) : i \in 1..Len(q) \/ i = Len(q) + 1
  BY Zenon, <1>0, Appended
<1> HIDE DEF p
<1>2. Sorted(q) /\ Len(q) \in Nat
  BY Zenon, Elements DEF InQOK
<1>3. Sorted(p)
  <2> SUFFICES ASSUME NEW i \in 1..Len(p), NEW j \in 1..Len(p), i < j, p[j].req # 0
               PROVE  p[i].req # 0 /\ p[i].req < p[j].req
    BY Zenon DEF Sorted
  <2>1. i \in 1..Len(q) /\ p[i] = q[i]
    BY <1>1, <1>2
  <2>2. j \in 1..Len(q)
    BY Zenon, <1>0, <1>1
  <2> QED
    BY Zenon, <2>1, <2>2, <1>1, <1>2 DEF Sorted
<1>4. InQOK(s, p, d)
  <2>1. \A i \in 1..Len(q) : InMsg(s, q[i]) \/ q[i] = Shutdown
    BY Zenon DEF InQOK
  <2> QED
    BY Zenon, <2>1, <1>1, <1>3 DEF InQOK
<1>5. \A r \in Requests : HasReq(p, r) <=> HasReq(q, r)
  <2>1. \A r \in Requests : r # 0
    BY Zenon, Constants
  <2> QED
    BY Zenon, <2>1, <1>0, <1>1 DEF HasReq
<1> QED
  BY Zenon, <1>1, <1>4, <1>5 DEF p

(* The orchestrator takes the first reply of a stage.                      *)
LEMMA RepliesTail ==
  ASSUME NEW s \in Stages, NEW q \in Seq(Replies), OutQOK(s, q), q # <<>>
  PROVE  /\ Head(q) \in Replies /\ Tail(q) \in Seq(Replies)
         /\ OutQOK(s, Tail(q)) /\ OutMsg(s, Head(q))
         /\ \A r \in Requests : HasResult(Tail(q), r) => HasResult(q, r)
         /\ Head(q).kind = "ok" =>
              /\ HasResult(q, Head(q).msg.req)
              /\ \A r \in Requests : HasResult(Tail(q), r) => Head(q).msg.req < r
         /\ \A r \in Requests : HasResult(q, r) =>
              HasResult(Tail(q), r) \/ (Head(q).kind = "ok" /\ r = Head(q).msg.req)
<1>0. \A i \in 1..Len(q) :
        i = 1 \/ (i - 1 \in 1..Len(Tail(q)) /\ Tail(q)[i - 1] = q[i])
  BY Zenon, TakeFirst
<1>1. /\ Head(q) \in Replies /\ Head(q) = q[1] /\ 1 \in 1..Len(q)
      /\ Tail(q) \in Seq(Replies) /\ Len(Tail(q)) = Len(q) - 1
      /\ \A i \in 1..Len(Tail(q)) :
           i + 1 \in 1..Len(q) /\ 1 < i + 1 /\ Tail(q)[i] = q[i + 1]
  BY Zenon, TakeFirst
<1>2. (\A i \in 1..Len(q) : OutMsg(s, q[i])) /\ SortedReplies(q)
  BY Zenon DEF OutQOK
<1>3. SortedReplies(Tail(q))
  <2> SUFFICES ASSUME NEW i \in 1..Len(Tail(q)), NEW j \in 1..Len(Tail(q)),
                      i < j, Tail(q)[i].kind = "ok", Tail(q)[j].kind = "ok"
               PROVE  Tail(q)[i].msg.req < Tail(q)[j].msg.req
    BY Zenon DEF SortedReplies
  <2>1. /\ i + 1 \in 1..Len(q) /\ j + 1 \in 1..Len(q) /\ i + 1 < j + 1
        /\ Tail(q)[i] = q[i + 1] /\ Tail(q)[j] = q[j + 1]
    BY <1>1
  <2> QED
    BY Zenon, <2>1, <1>2 DEF SortedReplies
<1>4. OutQOK(s, Tail(q))
  BY Zenon, <1>1, <1>2, <1>3 DEF OutQOK
<1>5. Head(q).kind = "ok" => HasResult(q, Head(q).msg.req)
  BY Zenon, <1>1 DEF HasResult
<1>6. ASSUME NEW r \in Requests, HasResult(Tail(q), r)
      PROVE  HasResult(q, r) /\ (Head(q).kind = "ok" => Head(q).msg.req < r)
  <2>1. PICK i \in 1..Len(Tail(q)) : Tail(q)[i].kind = "ok" /\ Tail(q)[i].msg.req = r
    BY Zenon, <1>6 DEF HasResult
  <2>2. i + 1 \in 1..Len(q) /\ 1 < i + 1 /\ q[i + 1].kind = "ok" /\ q[i + 1].msg.req = r
    BY Zenon, <2>1, <1>1
  <2> QED
    BY Zenon, <2>2, <1>1, <1>2 DEF HasResult, SortedReplies
<1>7. \A r \in Requests : HasResult(q, r) =>
        HasResult(Tail(q), r) \/ (Head(q).kind = "ok" /\ r = Head(q).msg.req)
  BY <1>0, <1>1 DEF HasResult
<1> QED
  BY Zenon, <1>1, <1>2, <1>4, <1>5, <1>6, <1>7

(* A worker adds a reply.                                                  *)
LEMMA RepliesAppend ==
  ASSUME NEW s \in Stages, NEW q \in Seq(Replies), OutQOK(s, q),
         NEW m \in Replies, OutMsg(s, m),
         m.kind = "ok" => \A r \in Requests : HasResult(q, r) => r < m.msg.req
  PROVE  /\ Append(q, m) \in Seq(Replies) /\ OutQOK(s, Append(q, m))
         /\ \A r \in Requests : HasResult(Append(q, m), r) <=>
              HasResult(q, r) \/ (m.kind = "ok" /\ r = m.msg.req)
<1> DEFINE p == Append(q, m)
<1>1. /\ p \in Seq(Replies) /\ Len(p) = Len(q) + 1
      /\ \A i \in 1..Len(q) : p[i] = q[i] /\ i \in 1..Len(p)
      /\ p[Len(q) + 1] = m /\ Len(q) + 1 \in 1..Len(p)
      /\ \A i \in 1..Len(p) : i \in 1..Len(q) \/ i = Len(q) + 1
  BY Zenon, Appended
<1> HIDE DEF p
<1>2. SortedReplies(q) /\ Len(q) \in Nat /\ \A i \in 1..Len(q) : OutMsg(s, q[i])
  BY Zenon, Elements DEF OutQOK
<1>3. \A i \in 1..Len(q) : q[i].kind = "ok" => q[i].msg.req \in Requests
  BY <1>2 DEF OutMsg
<1>4. SortedReplies(p)
  <2> SUFFICES ASSUME NEW i \in 1..Len(p), NEW j \in 1..Len(p), i < j,
                      p[i].kind = "ok", p[j].kind = "ok"
               PROVE  p[i].msg.req < p[j].msg.req
    BY Zenon DEF SortedReplies
  <2>1. i \in 1..Len(q) /\ p[i] = q[i]
    BY <1>1, <1>2
  <2>2. CASE j \in 1..Len(q)
    BY Zenon, <2>1, <2>2, <1>1, <1>2 DEF SortedReplies
  <2>3. CASE j = Len(q) + 1
    <3>1. HasResult(q, p[i].msg.req) /\ p[i].msg.req \in Requests
      BY Zenon, <2>1, <1>3 DEF HasResult
    <3> QED
      BY Zenon, <3>1, <2>3, <1>1
  <2> QED
    BY Zenon, <2>2, <2>3, <1>1
<1>5. OutQOK(s, p)
  BY Zenon, <1>1, <1>2, <1>4 DEF OutQOK
<1>6. \A r \in Requests :
        HasResult(p, r) <=> HasResult(q, r) \/ (m.kind = "ok" /\ r = m.msg.req)
  BY Zenon, <1>1 DEF HasResult
<1> QED
  BY Zenon, <1>1, <1>5, <1>6 DEF p

-----------------------------------------------------------------------------
(* The requests M go on from station k of stage s to station l of stage t, *)
(* with nothing between the two and nothing of M's like before M.          *)
Moves(W, V, s, k, t, l, M) ==
  /\ s < t \/ (s = t /\ k < l)
  /\ \A m \in M : <<s, k, m>> \in W
  /\ \A a \in V : a \in W \/ (a[1] = t /\ a[2] = l /\ a[3] \in M)
  /\ \A a \in V : a[1] = s /\ a[2] = k => \A m \in M : m < a[3]
  /\ \A a \in W : ~((a[1] > s \/ (a[1] = s /\ a[2] > k))
                    /\ (a[1] < t \/ (a[1] = t /\ a[2] < l)))

(* The three parts of a place.                                             *)
LEMMA PlaceTypes ==
  ASSUME NEW a \in Places
  PROVE  /\ a[1] \in Nat /\ a[1] \in Stages /\ a[2] \in Nat /\ a[3] \in Nat
         /\ a[2] \in 0..3 /\ a[3] \in Requests /\ a = <<a[1], a[2], a[3]>>
<1>1. a[1] \in Stages /\ a[2] \in 0..3 /\ a[3] \in Requests /\ a = <<a[1], a[2], a[3]>>
  BY DEF Places
<1> QED
  BY <1>1, Constants

(* Requests that go on together do not overtake anything.                  *)
LEMMA MovedChain ==
  ASSUME NEW W \in SUBSET Places, NEW V \in SUBSET Places,
         NEW s \in Stages, NEW t \in Stages, NEW k \in 0..3, NEW l \in 0..3,
         NEW M \in SUBSET Requests, Moves(W, V, s, k, t, l, M), Chain(W)
  PROVE  Chain(V)
<1> SUFFICES ASSUME NEW a \in V, NEW b \in V, Ahead(a, b)
             PROVE  a[3] < b[3]
  BY Zenon DEF Chain
<1>1. /\ a[1] \in Nat /\ a[2] \in Nat /\ a[3] \in Nat
      /\ b[1] \in Nat /\ b[2] \in Nat /\ b[3] \in Nat
  BY Zenon, PlaceTypes
<1>2. s \in Nat /\ t \in Nat /\ k \in Nat /\ l \in Nat
  BY Constants
<1>3. /\ s < t \/ (s = t /\ k < l)
      /\ \A m \in M : <<s, k, m>> \in W
      /\ a \in W \/ (a[1] = t /\ a[2] = l /\ a[3] \in M)
      /\ b \in W \/ (b[1] = t /\ b[2] = l /\ b[3] \in M)
      /\ b[1] = s /\ b[2] = k => \A m \in M : m < b[3]
      /\ b \in W => ~((b[1] > s \/ (b[1] = s /\ b[2] > k))
                       /\ (b[1] < t \/ (b[1] = t /\ b[2] < l)))
  BY Zenon DEF Moves
<1>4. CASE a \in W /\ b \in W
  BY Zenon, <1>4 DEF Chain
<1>5. CASE a \in W /\ (b[1] = t /\ b[2] = l /\ b[3] \in M)
  <2> DEFINE e == <<s, k, b[3]>>
  <2>1. e \in W /\ e[1] = s /\ e[2] = k /\ e[3] = b[3]
    BY Zenon, <1>3, <1>5
  <2>2. Ahead(a, e)
    <3>1. a[1] > t \/ (a[1] = t /\ a[2] > l)
      BY Zenon, <1>5 DEF Ahead
    <3>2. a[1] > s \/ (a[1] = s /\ a[2] > k)
      BY <3>1, <1>1, <1>2, <1>3
    <3> QED
      BY Zenon, <3>2, <2>1 DEF Ahead
  <2> HIDE DEF e
  <2> QED
    BY Zenon, <2>1, <2>2, <1>5 DEF Chain
<1>6. CASE (a[1] = t /\ a[2] = l /\ a[3] \in M) /\ b \in W
  <2> DEFINE e == <<s, k, a[3]>>
  <2>1. e \in W /\ e[1] = s /\ e[2] = k /\ e[3] = a[3]
    BY Zenon, <1>3, <1>6
  <2> HIDE DEF e
  <2>2. b[1] < t \/ (b[1] = t /\ b[2] < l)
    BY Zenon, <1>1, <1>2, <1>6 DEF Ahead
  <2>3. CASE b[1] = s /\ b[2] = k
    BY Zenon, <2>3, <1>3, <1>6
  <2>4. CASE ~(b[1] = s /\ b[2] = k)
    <3>1. s > b[1] \/ (s = b[1] /\ k > b[2])
      BY <2>2, <2>4, <1>1, <1>2, <1>3, <1>6
    <3>2. Ahead(e, b)
      BY Zenon, <3>1, <2>1 DEF Ahead
    <3> QED
      BY Zenon, <3>2, <2>1, <1>6 DEF Chain
  <2> QED
    BY Zenon, <2>3, <2>4
<1>7. CASE (a[1] = t /\ a[2] = l) /\ (b[1] = t /\ b[2] = l)
  BY <1>1, <1>2, <1>7 DEF Ahead
<1> QED
  BY Zenon, <1>3, <1>4, <1>5, <1>6, <1>7

(* And what was yielded stays before them.                                 *)
LEMMA MovedYielded ==
  ASSUME NEW W \in SUBSET Places, NEW V \in SUBSET Places,
         NEW s \in Stages, NEW t \in Stages, NEW k \in 0..3, NEW l \in 0..3,
         NEW M \in SUBSET Requests, Moves(W, V, s, k, t, l, M),
         NEW Y \in Seq([req : Requests, stage : Stages, data : Requests]),
         YieldedFirst(Y, W)
  PROVE  YieldedFirst(Y, V)
<1> SUFFICES ASSUME NEW i \in 1..Len(Y), NEW a \in V,
                    a[1] < Y[i].stage \/ (a[1] = Y[i].stage /\ a[2] < 3)
             PROVE  Y[i].req < a[3]
  BY Zenon DEF YieldedFirst
<1>1. CASE a \in W
  BY Zenon, <1>1 DEF YieldedFirst
<1>2. CASE a[1] = t /\ a[2] = l /\ a[3] \in M
  <2> DEFINE e == <<s, k, a[3]>>
  <2>1. e \in W /\ e[1] = s /\ e[2] = k /\ e[3] = a[3]
    BY Zenon, <1>2 DEF Moves
  <2>2. s < t \/ (s = t /\ k < l)
    BY Zenon DEF Moves
  <2>3. s \in Nat /\ t \in Nat /\ k \in Nat /\ l \in Nat /\ l <= 3
    <3>1. s \in Nat /\ t \in Nat
      BY Zenon, Constants
    <3>2. k \in Nat /\ l \in Nat /\ l <= 3
      OBVIOUS
    <3> QED
      BY Zenon, <3>1, <3>2
  <2>4. Y[i].stage \in Nat
    <3>1. Y[i] \in [req : Requests, stage : Stages, data : Requests]
      BY Zenon, Elements
    <3> QED
      BY Zenon, <3>1, Constants
  <2>5. s < Y[i].stage \/ (s = Y[i].stage /\ k < 3)
    BY <2>2, <2>3, <2>4, <1>2
  <2> HIDE DEF e
  <2> QED
    BY Zenon, <2>1, <2>5 DEF YieldedFirst
<1> QED
  BY Zenon, <1>1, <1>2 DEF Moves

(* The invariant about the chain, after a step that moves requests on.     *)
LEMMA MovedOn ==
  ASSUME TypeOK, ChainInv, NEW s \in Stages, NEW t \in Stages, NEW k \in 0..3,
         NEW l \in 0..3, NEW M \in SUBSET Requests,
         Moves(Where, Where', s, k, t, l, M), yielded' = yielded,
         \A m \in M : OnRoute(yielded, t, m)
  PROVE  ChainInv'
<1>1. Where \in SUBSET Places /\ Where' \in SUBSET Places
  BY Zenon DEF Where
<1>2. yielded \in Seq([req : Requests, stage : Stages, data : Requests])
  BY Zenon DEF TypeOK
<1>3. Chain(Where') /\ YieldedFirst(yielded', Where')
  BY Zenon, <1>1, <1>2, MovedChain, MovedYielded DEF ChainInv
<1>4. ASSUME NEW a \in Where'
      PROVE  OnRoute(yielded', a[1], a[3])
  BY Zenon, <1>4 DEF Moves, ChainInv
<1> QED
  BY Zenon, <1>3, <1>4 DEF ChainInv, Chain, YieldedFirst

(* The same after a step that moves none.                                  *)
LEMMA StayedOn ==
  ASSUME ChainInv, Where' \subseteq Where, yielded' = yielded
  PROVE  ChainInv'
BY Zenon DEF ChainInv, Chain, YieldedFirst

(* Membership in Where, station by station, before and after a step.       *)
LEMMA WhereIs ==
  \A s \in Stages, r \in Requests :
    /\ <<s, 0, r>> \in Where <=> HasReq(inQ[s], r)
    /\ <<s, 1, r>> \in Where <=> HasTask(worker[s], r)
    /\ <<s, 2, r>> \in Where <=> HasResult(outQ[s], r)
    /\ <<s, 3, r>> \in Where <=> pc = "yield" /\ pos = s /\ cur = r
<1> SUFFICES ASSUME NEW s \in Stages, NEW r \in Requests
             PROVE  /\ <<s, 0, r>> \in Where <=> HasReq(inQ[s], r)
                    /\ <<s, 1, r>> \in Where <=> HasTask(worker[s], r)
                    /\ <<s, 2, r>> \in Where <=> HasResult(outQ[s], r)
                    /\ <<s, 3, r>> \in Where <=> pc = "yield" /\ pos = s /\ cur = r
  BY Zenon
<1>1. \A k \in 0..3 : <<s, k, r>> \in Places
  BY Zenon DEF Places
<1>2. 0 \in 0..3 /\ 1 \in 0..3 /\ 2 \in 0..3 /\ 3 \in 0..3
  OBVIOUS
<1>3. ASSUME NEW k \in 0..3
      PROVE  <<s, k, r>> \in Where <=>
               \/ k = 0 /\ HasReq(inQ[s], r)
               \/ k = 1 /\ HasTask(worker[s], r)
               \/ k = 2 /\ HasResult(outQ[s], r)
               \/ k = 3 /\ pc = "yield" /\ pos = s /\ cur = r
  BY Zenon, <1>1 DEF Where
<1> QED
  BY <1>2, <1>3

(* The places after a step, one station at a time.                         *)
LEMMA WhereWillBe ==
  \A s \in Stages, r \in Requests :
    /\ <<s, 0, r>> \in Where' <=> HasReq(inQ'[s], r)
    /\ <<s, 1, r>> \in Where' <=> HasTask(worker'[s], r)
    /\ <<s, 2, r>> \in Where' <=> HasResult(outQ'[s], r)
    /\ <<s, 3, r>> \in Where' <=> pc' = "yield" /\ pos' = s /\ cur' = r
<1> SUFFICES ASSUME NEW s \in Stages, NEW r \in Requests
             PROVE  /\ <<s, 0, r>> \in Where' <=> HasReq(inQ'[s], r)
                    /\ <<s, 1, r>> \in Where' <=> HasTask(worker'[s], r)
                    /\ <<s, 2, r>> \in Where' <=> HasResult(outQ'[s], r)
                    /\ <<s, 3, r>> \in Where' <=> pc' = "yield" /\ pos' = s /\ cur' = r
  BY Zenon
<1>1. \A k \in 0..3 : <<s, k, r>> \in Places
  BY Zenon DEF Places
<1>2. 0 \in 0..3 /\ 1 \in 0..3 /\ 2 \in 0..3 /\ 3 \in 0..3
  OBVIOUS
<1>3. ASSUME NEW k \in 0..3
      PROVE  <<s, k, r>> \in Where' <=>
               \/ k = 0 /\ HasReq(inQ'[s], r)
               \/ k = 1 /\ HasTask(worker'[s], r)
               \/ k = 2 /\ HasResult(outQ'[s], r)
               \/ k = 3 /\ pc' = "yield" /\ pos' = s /\ cur' = r
  BY Zenon, <1>1 DEF Where
<1> QED
  BY <1>2, <1>3

(* A step that adds at most the requests M at station l of stage t.        *)
Adds(t, l, M) ==
  \A s \in Stages, r \in Requests :
    /\ HasReq(inQ'[s], r) => HasReq(inQ[s], r) \/ (s = t /\ l = 0 /\ r \in M)
    /\ HasTask(worker'[s], r) => HasTask(worker[s], r) \/ (s = t /\ l = 1 /\ r \in M)
    /\ HasResult(outQ'[s], r) => HasResult(outQ[s], r) \/ (s = t /\ l = 2 /\ r \in M)
    /\ pc' = "yield" /\ pos' = s /\ cur' = r =>
         (pc = "yield" /\ pos = s /\ cur = r) \/ (s = t /\ l = 3 /\ r \in M)

(* A step that adds the requests M at one station adds no other place.     *)
LEMMA StepPlaces ==
  ASSUME NEW t \in Stages, NEW l \in 0..3, NEW M \in SUBSET Requests, Adds(t, l, M)
  PROVE  \A a \in Where' : a \in Where \/ (a[1] = t /\ a[2] = l /\ a[3] \in M)
<1> SUFFICES ASSUME NEW a \in Where'
             PROVE  a \in Where \/ (a[1] = t /\ a[2] = l /\ a[3] \in M)
  BY Zenon
<1>1. /\ a \in Places
      /\ \/ a[2] = 0 /\ HasReq(inQ'[a[1]], a[3])
         \/ a[2] = 1 /\ HasTask(worker'[a[1]], a[3])
         \/ a[2] = 2 /\ HasResult(outQ'[a[1]], a[3])
         \/ a[2] = 3 /\ pc' = "yield" /\ pos' = a[1] /\ cur' = a[3]
  BY Zenon DEF Where
<1>2. a[1] \in Stages /\ a[3] \in Requests
  BY Zenon, <1>1, PlaceTypes
<1>3. \/ /\ \/ a[2] = 0 /\ HasReq(inQ[a[1]], a[3])
            \/ a[2] = 1 /\ HasTask(worker[a[1]], a[3])
            \/ a[2] = 2 /\ HasResult(outQ[a[1]], a[3])
            \/ a[2] = 3 /\ pc = "yield" /\ pos = a[1] /\ cur = a[3]
      \/ a[1] = t /\ a[2] = l /\ a[3] \in M
  BY <1>1, <1>2 DEF Adds
<1> QED
  BY Zenon, <1>1, <1>3 DEF Where

-----------------------------------------------------------------------------
(* The states of a worker.                                                 *)
LEMMA WorkerEmpty ==
  ASSUME NEW s \in Stages, NEW x \in {"idle", "gone"}, NEW w,
         w = [pc |-> x, batch |-> <<>>, sent |-> 0]
  PROVE  /\ w \in Workers /\ w.pc = x /\ BatchOK(s, w)
         /\ Len(w.batch) <= MaxBatch /\ \A r \in Requests : ~HasTask(w, r)
<1>1. w.pc = x /\ w.batch = <<>> /\ w.sent = 0
  BY Zenon
<1>2. w \in Workers
  BY NoElements, Constants DEF Workers, WorkerStates
<1>3. Len(w.batch) = 0 /\ 1..Len(w.batch) = {}
  BY Zenon, <1>1, NoElements
<1>4. BatchOK(s, w)
  BY Zenon, <1>1, <1>3 DEF BatchOK, Sorted
<1> QED
  BY <1>1, <1>2, <1>3, <1>4, Constants DEF HasTask

(* The first task of a batch: process_stage_tasks after in_q.get().        *)
LEMMA WorkerBatch ==
  ASSUME NEW s \in Stages, NEW m \in Messages, InMsg(s, m), NEW w,
         w = [pc |-> "batching", batch |-> <<m>>, sent |-> 0]
  PROVE  /\ w \in Workers /\ w.pc = "batching" /\ BatchOK(s, w)
         /\ Len(w.batch) <= MaxBatch /\ \A r \in Requests : HasTask(w, r) <=> r = m.req
<1>1. w.pc = "batching" /\ w.batch = <<m>> /\ w.sent = 0
  BY Zenon
<1>2. <<m>> \in Seq(Messages) /\ Len(<<m>>) = 1 /\ <<m>>[1] = m
  OBVIOUS
<1>3. w \in Workers
  BY <1>2, Constants DEF Workers, WorkerStates
<1>4. Len(w.batch) = 1 /\ w.batch[1] = m /\ 1..Len(w.batch) = {1}
  BY <1>1, <1>2
<1>5. BatchOK(s, w)
  <2>1. Sorted(w.batch)
    BY <1>4 DEF Sorted
  <2> QED
    BY <2>1, <1>1, <1>4 DEF BatchOK
<1>6. \A r \in Requests : HasTask(w, r) <=> r = m.req
  BY <1>1, <1>4 DEF HasTask
<1> QED
  BY <1>1, <1>3, <1>4, <1>5, <1>6, Constants

(* The fields of a worker.                                                 *)
LEMMA WorkerTypes ==
  ASSUME NEW w \in Workers
  PROVE  /\ w.pc \in WorkerStates /\ w.batch \in Seq(Messages)
         /\ w.sent \in 0..MaxBatch /\ w.sent \in Nat
         /\ w = [pc |-> w.pc, batch |-> w.batch, sent |-> w.sent]
<1>1. /\ w.pc \in WorkerStates /\ w.batch \in Seq(Messages) /\ w.sent \in 0..MaxBatch
      /\ w = [pc |-> w.pc, batch |-> w.batch, sent |-> w.sent]
  BY Zenon DEF Workers
<1> QED
  BY <1>1, Constants

(* A worker that only changes its state keeps its tasks.                   *)
LEMMA WorkerPc ==
  ASSUME NEW w \in Workers, NEW x \in WorkerStates, NEW v, v = [w EXCEPT !.pc = x]
  PROVE  /\ v \in Workers /\ v.pc = x /\ v.batch = w.batch /\ v.sent = w.sent
         /\ \A r \in Requests : HasTask(v, r) <=> HasTask(w, r)
<1>1. v \in Workers /\ v.pc = x /\ v.batch = w.batch /\ v.sent = w.sent
  BY Zenon DEF Workers
<1> QED
  BY Zenon, <1>1 DEF HasTask

(* A task joins the batch; it is behind all others.                        *)
MayJoin(s, w, m) ==
  /\ BatchOK(s, w) /\ w.pc = "batching" /\ Len(w.batch) < MaxBatch /\ InMsg(s, m)
  /\ \A r \in Requests : HasTask(w, r) => r < m.req

(* What a task that joins the batch makes of it.                           *)
LEMMA WorkerJoin ==
  ASSUME NEW s \in Stages, NEW w \in Workers, NEW m \in Messages, MayJoin(s, w, m),
         NEW v \in Workers, v.pc = w.pc, v.batch = Append(w.batch, m), v.sent = w.sent
  PROVE  /\ v \in Workers /\ v.pc = "batching" /\ BatchOK(s, v)
         /\ Len(v.batch) <= MaxBatch
         /\ \A r \in Requests : HasTask(v, r) <=> HasTask(w, r) \/ r = m.req
<1>1. /\ w.batch \in Seq(Messages) /\ w.sent = 0
      /\ \A i \in 1..Len(w.batch) : InMsg(s, w.batch[i])
      /\ Sorted(w.batch) /\ Len(w.batch) \in Nat
  BY Zenon, WorkerTypes, Elements DEF BatchOK, MayJoin
<1>2. InQOK(s, w.batch, "poll")
  BY Zenon, <1>1 DEF InQOK
<1>3. \A i \in 1..Len(w.batch) : w.batch[i].req # 0 /\ w.batch[i].req < m.req
  <2>1. \A i \in 1..Len(w.batch) : w.batch[i].req \in Requests /\ i > w.sent
    BY <1>1 DEF InMsg
  <2> QED
    BY Zenon, <2>1, Constants DEF HasTask, MayJoin
<1>4. /\ Append(w.batch, m) \in Seq(Messages) /\ InQOK(s, Append(w.batch, m), "poll")
      /\ \A r \in Requests : HasReq(Append(w.batch, m), r) <=> HasReq(w.batch, r) \/ r = m.req
      /\ Len(Append(w.batch, m)) = Len(w.batch) + 1
  BY <1>1, <1>2, <1>3, QueueAppend, Appended DEF MayJoin
<1>5. v \in Workers /\ v.pc = "batching" /\ v.batch = Append(w.batch, m) /\ v.sent = 0
  BY Zenon, <1>1 DEF MayJoin
<1>6. BatchOK(s, v)
  <2>1. Sorted(v.batch) /\ \A i \in 1..Len(v.batch) : InMsg(s, v.batch[i])
    BY Zenon, <1>4, <1>5 DEF InQOK
  <2> QED
    BY <2>1, <1>1, <1>4, <1>5 DEF BatchOK
<1>7. Len(v.batch) <= MaxBatch
  BY <1>1, <1>4, <1>5, Constants DEF MayJoin
<1>8. \A r \in Requests : (HasTask(v, r) <=> HasReq(v.batch, r))
                          /\ (HasTask(w, r) <=> HasReq(w.batch, r))
  BY <1>1, <1>5 DEF HasTask, HasReq
<1> QED
  BY Zenon, <1>4, <1>5, <1>6, <1>7, <1>8

-----------------------------------------------------------------------------
(* The parts of the type invariant, with the names used here.              *)
LEMMA Types ==
  ASSUME TypeOK
  PROVE  /\ inQ \in [Stages -> Seq(Messages)] /\ outQ \in [Stages -> Seq(Replies)]
         /\ worker \in [Stages -> Workers]
         /\ \A s \in Stages : /\ inQ[s] \in Seq(Messages) /\ outQ[s] \in Seq(Replies)
                              /\ worker[s] \in Workers /\ Len(worker[s].batch) <= MaxBatch
         /\ pos \in Stages /\ segs \subseteq Segments
<1>1. /\ inQ \in [Stages -> Seq(Messages)] /\ outQ \in [Stages -> Seq(Replies)]
      /\ worker \in [Stages -> Workers]
      /\ pos \in Stages /\ segs \subseteq Segments
  BY Zenon DEF TypeOK, Replies, ReplyKinds, Workers, WorkerStates
<1>2. \A s \in Stages : Len(worker[s].batch) <= MaxBatch
  BY Zenon DEF TypeOK
<1> QED
  BY Zenon, <1>1, <1>2

(* A step of the worker of stage s: what it must show about its own queues *)
(* and its own state.  All else is as before.                              *)
LEMMA WorkerStep ==
  ASSUME IInv, NEW s \in Stages, NEW q \in Seq(Messages), NEW p \in Seq(Replies),
         NEW w \in Workers,
         inQ' = [inQ EXCEPT ![s] = q], outQ' = [outQ EXCEPT ![s] = p],
         worker' = [worker EXCEPT ![s] = w],
         InQOK(s, q, pc), OutQOK(s, p), BatchOK(s, w), Len(w.batch) <= MaxBatch,
         segs' \subseteq Segments, faults' \in 0..MaxFaults, stuck' \subseteq Requests,
         UNCHANGED orchestrator
  PROVE  /\ TypeOK' /\ QueueInv' /\ YieldInv' /\ CountInv'
         /\ inQ'[s] = q /\ outQ'[s] = p /\ worker'[s] = w
         /\ \A t \in Stages : t # s => /\ inQ'[t] = inQ[t] /\ outQ'[t] = outQ[t]
                                       /\ worker'[t] = worker[t]
<1>1. TypeOK /\ QueueInv /\ YieldInv /\ CountInv
  BY Zenon DEF IInv
<1>2. /\ inQ \in [Stages -> Seq(Messages)] /\ outQ \in [Stages -> Seq(Replies)]
      /\ worker \in [Stages -> Workers]
      /\ \A t \in Stages : Len(worker[t].batch) <= MaxBatch
  BY Zenon, <1>1, Types
<1>3. /\ inQ' \in [Stages -> Seq(Messages)] /\ inQ'[s] = q
      /\ \A t \in Stages : t # s => inQ'[t] = inQ[t]
  BY Zenon, <1>2, Updated
<1>4. /\ outQ' \in [Stages -> Seq(Replies)] /\ outQ'[s] = p
      /\ \A t \in Stages : t # s => outQ'[t] = outQ[t]
  BY Zenon, <1>2, Updated
<1>5. /\ worker' \in [Stages -> Workers] /\ worker'[s] = w
      /\ \A t \in Stages : t # s => worker'[t] = worker[t]
  BY <1>2, Updated
<1>6. /\ pc' = pc /\ pos' = pos /\ cur' = cur /\ completed' = completed
      /\ outputs' = outputs /\ yielded' = yielded /\ cut' = cut
  BY Zenon DEF orchestrator
<1>7. TypeOK'
  <2>1. \A t \in Stages : Len(worker'[t].batch) <= MaxBatch
    BY Zenon, <1>2, <1>5
  <2> QED
    BY Zenon, <2>1, <1>1, <1>3, <1>4, <1>5, <1>6 DEF TypeOK, Replies, ReplyKinds, Workers, WorkerStates
<1>8. QueueInv'
  <2> SUFFICES ASSUME NEW t \in Stages
               PROVE  InQOK(t, inQ'[t], pc') /\ OutQOK(t, outQ'[t]) /\ BatchOK(t, worker'[t])
    BY Zenon DEF QueueInv
  <2> QED
    BY Zenon, <1>1, <1>3, <1>4, <1>5, <1>6 DEF QueueInv
<1>9. YieldInv'
  BY Zenon, <1>1, <1>6 DEF YieldInv, PromptOrder, HasYielded, OnRoute
<1>10. CountInv'
  BY Zenon, <1>1, <1>6 DEF CountInv, Done, HasYielded
<1> QED
  BY Zenon, <1>3, <1>4, <1>5, <1>7, <1>8, <1>9, <1>10

(* A step of a worker in which no request moves.                           *)
LEMMA QuietPlaces ==
  ASSUME UNCHANGED <<pc, pos, cur>>,
         \A s \in Stages, r \in Requests :
           /\ HasReq(inQ'[s], r) => HasReq(inQ[s], r)
           /\ HasTask(worker'[s], r) => HasTask(worker[s], r)
           /\ HasResult(outQ'[s], r) => HasResult(outQ[s], r)
  PROVE  Where' \subseteq Where
<1>1. 0 \in Stages
  BY Zenon, Constants
<1>2. Adds(0, 0, {})
  BY Zenon DEF Adds
<1>3. \A a \in Where' : a \in Where \/ (a[1] = 0 /\ a[2] = 0 /\ a[3] \in {})
  BY <1>1, <1>2, StepPlaces
<1> QED
  BY Zenon, <1>3

(* The invariant about the segments, kind by kind, before and after a step. *)
LEMMA SegsAre ==
  ASSUME SegInv
  PROVE  \A s \in Stages, r \in Requests :
           /\ <<"in", s, r>> \in segs => r \in Large /\ s > 0 /\ Unread(s, r)
           /\ <<"out", s, r>> \in segs => r \in Large /\ HasResult(outQ[s], r)
BY Zenon DEF SegInv

(* The segments after a step, one direction at a time.                     *)
LEMMA SegsWillBe ==
  ASSUME segs' \subseteq Segments,
         \A s \in Stages, r \in Requests :
           /\ <<"in", s, r>> \in segs' => r \in Large /\ s > 0 /\ Unread(s, r)'
           /\ <<"out", s, r>> \in segs' => r \in Large /\ HasResult(outQ'[s], r)
  PROVE  SegInv'
<1> SUFFICES ASSUME NEW g \in segs'
             PROVE  /\ g[3] \in Large
                    /\ g[1] = "in" => g[2] > 0 /\ Unread(g[2], g[3])'
                    /\ g[1] = "out" => HasResult(outQ'[g[2]], g[3])
  BY Zenon DEF SegInv, Unread
<1>1. /\ g[1] \in {"in", "out"} /\ g[2] \in Stages /\ g[3] \in Requests
      /\ g = <<g[1], g[2], g[3]>>
  BY DEF Segments
<1>2. CASE g[1] = "in"
  <2>1. <<"in", g[2], g[3]>> \in segs'
    BY Zenon, <1>1, <1>2
  <2> QED
    BY Zenon, <2>1, <1>1, <1>2 DEF Unread
<1>3. CASE g[1] = "out"
  <2>1. <<"out", g[2], g[3]>> \in segs'
    BY Zenon, <1>1, <1>3
  <2> QED
    BY Zenon, <2>1, <1>1, <1>3
<1> QED
  BY Zenon, <1>1, <1>2, <1>3

(* The segments of a batch are gone when it runs.                          *)
LEMMA BatchUnlinked ==
  ASSUME NEW s \in Stages, NEW w \in Workers, BatchOK(s, w), s > 0,
         NEW r \in Requests, r \in Large, HasTask(w, r)
  PROVE  <<"in", s, r>> \notin Unlinked(w.batch)
<1>1. PICK i \in 1..Len(w.batch) : w.batch[i].req = r
  BY Zenon DEF HasTask
<1>2. w.batch[i].seg = <<"in", s, r>>
  BY Zenon, <1>1 DEF BatchOK, InMsg
<1>3. SegsOf(w.batch[i]) = {<<"in", s, r>>}
  <2>1. <<"in", s, r>> # <<>>
    BY Zenon
  <2> QED
    BY Zenon, <2>1, <1>2 DEF SegsOf
<1>4. i \in DOMAIN w.batch
  BY <1>1, WorkerTypes
<1> QED
  BY Zenon, <1>3, <1>4 DEF Unlinked

(* stage_ready, which a worker posts when its engine is up.                *)
LEMMA StageReadyKeeps ==
  ASSUME IInv, NEW s \in Stages, StageReady(s)
  PROVE  IInv'
<1> DEFINE w == [worker[s] EXCEPT !.pc = "idle"]
           e == Reply("ready", Shutdown)
           p == Append(outQ[s], e)
<1>1. /\ TypeOK /\ QueueInv /\ ChainInv /\ SegInv
      /\ InQOK(s, inQ[s], pc) /\ OutQOK(s, outQ[s]) /\ BatchOK(s, worker[s])
  BY Zenon DEF IInv, QueueInv
<1>2. /\ worker[s].pc = "init" /\ worker' = [worker EXCEPT ![s] = w]
      /\ outQ' = [outQ EXCEPT ![s] = p]
      /\ inQ' = inQ /\ segs' = segs /\ faults' = faults
      /\ UNCHANGED <<orchestrator, stuck>>
  BY Zenon DEF StageReady
<1>3. /\ inQ \in [Stages -> Seq(Messages)] /\ inQ[s] \in Seq(Messages)
      /\ outQ[s] \in Seq(Replies) /\ worker[s] \in Workers
      /\ Len(worker[s].batch) <= MaxBatch /\ segs \subseteq Segments
  BY Zenon, <1>1, Types
<1>4. inQ' = [inQ EXCEPT ![s] = inQ[s]]
  BY Zenon, <1>2, <1>3
<1>5. /\ w \in Workers /\ w.pc = "idle" /\ w.batch = worker[s].batch
      /\ w.sent = worker[s].sent
      /\ \A r \in Requests : HasTask(w, r) <=> HasTask(worker[s], r)
  BY <1>3, WorkerPc DEF WorkerStates
<1>6. BatchOK(s, w)
  BY Zenon, <1>1, <1>2, <1>5 DEF BatchOK
<1>7. e \in Replies /\ e.kind # "ok" /\ OutMsg(s, e)
  BY Zenon, MessageTypes DEF Reply, Replies, ReplyKinds, OutMsg
<1> HIDE DEF e
<1>8. /\ p \in Seq(Replies) /\ OutQOK(s, p)
      /\ \A r \in Requests : HasResult(p, r) <=> HasResult(outQ[s], r)
  BY Zenon, <1>1, <1>3, <1>7, RepliesAppend
<1>9. faults' \in 0..MaxFaults /\ stuck' \subseteq Requests
  BY Zenon, <1>1, <1>2 DEF TypeOK
<1> HIDE DEF w, p
<1>10. /\ TypeOK' /\ QueueInv' /\ YieldInv' /\ CountInv'
       /\ inQ'[s] = inQ[s] /\ outQ'[s] = p /\ worker'[s] = w
       /\ \A t \in Stages : t # s => /\ inQ'[t] = inQ[t] /\ outQ'[t] = outQ[t]
                                     /\ worker'[t] = worker[t]
  BY Zenon, <1>1, <1>2, <1>3, <1>4, <1>5, <1>6, <1>8, <1>9, WorkerStep
<1>11. \A t \in Stages, r \in Requests :
         /\ HasReq(inQ'[t], r) <=> HasReq(inQ[t], r)
         /\ HasTask(worker'[t], r) <=> HasTask(worker[t], r)
         /\ HasResult(outQ'[t], r) <=> HasResult(outQ[t], r)
  BY Zenon, <1>5, <1>8, <1>10
<1>12. ChainInv'
  <2>1. UNCHANGED <<pc, pos, cur>> /\ yielded' = yielded
    BY Zenon, <1>2 DEF orchestrator
  <2> QED
    BY Zenon, <2>1, <1>1, <1>11, QuietPlaces, StayedOn
<1>13. SegInv'
  <2>1. \A t \in Stages : worker'[t].pc = "running" => worker[t].pc = "running"
    BY Zenon, <1>5, <1>10
  <2>2. \A t \in Stages, r \in Requests : Unread(t, r) => Unread(t, r)'
    BY Zenon, <2>1, <1>11 DEF Unread
  <2> QED
    BY Zenon, <2>2, <1>1, <1>2, <1>3, <1>11, SegsAre, SegsWillBe
<1> QED
  BY Zenon, <1>10, <1>12, <1>13 DEF IInv

(* The batch is received and runs.  The queue may have changed but for its *)
(* requests.                                                               *)
LEMMA ReceivedKeeps ==
  ASSUME IInv, NEW s \in Stages, worker[s].pc = "batching", Received(s),
         NEW q \in Seq(Messages), InQOK(s, q, pc), inQ' = [inQ EXCEPT ![s] = q],
         \A r \in Requests : HasReq(q, r) <=> HasReq(inQ[s], r),
         UNCHANGED <<orchestrator, outQ>>
  PROVE  IInv'
<1> DEFINE w == [worker[s] EXCEPT !.pc = "running"]
<1>1. /\ TypeOK /\ QueueInv /\ ChainInv /\ SegInv
      /\ OutQOK(s, outQ[s]) /\ BatchOK(s, worker[s])
  BY Zenon DEF IInv, QueueInv
<1>2. /\ worker' = [worker EXCEPT ![s] = w] /\ segs' = Unlinked(worker[s].batch)
      /\ outQ' = outQ /\ faults' = faults /\ UNCHANGED <<orchestrator, stuck>>
  BY Zenon DEF Received
<1>3. /\ outQ \in [Stages -> Seq(Replies)]
      /\ outQ[s] \in Seq(Replies) /\ worker[s] \in Workers
      /\ Len(worker[s].batch) <= MaxBatch /\ segs \subseteq Segments
  BY Zenon, <1>1, Types
<1>4. outQ' = [outQ EXCEPT ![s] = outQ[s]]
  BY Zenon, <1>2, <1>3
<1>5. /\ w \in Workers /\ w.pc = "running" /\ w.batch = worker[s].batch
      /\ w.sent = worker[s].sent
      /\ \A r \in Requests : HasTask(w, r) <=> HasTask(worker[s], r)
  BY <1>3, WorkerPc DEF WorkerStates
<1>6. BatchOK(s, w)
  BY Zenon, <1>1, <1>5 DEF BatchOK
<1>7. faults' \in 0..MaxFaults /\ stuck' \subseteq Requests
  BY Zenon, <1>1, <1>2 DEF TypeOK
<1>8. segs' \subseteq segs
  BY Zenon, <1>2 DEF Unlinked
<1> HIDE DEF w
<1>9. /\ TypeOK' /\ QueueInv' /\ YieldInv' /\ CountInv'
      /\ inQ'[s] = q /\ outQ'[s] = outQ[s] /\ worker'[s] = w
      /\ \A t \in Stages : t # s => /\ inQ'[t] = inQ[t] /\ outQ'[t] = outQ[t]
                                    /\ worker'[t] = worker[t]
  BY Zenon, <1>1, <1>2, <1>3, <1>4, <1>5, <1>6, <1>7, <1>8, WorkerStep
<1>10. \A t \in Stages, r \in Requests :
         /\ HasReq(inQ'[t], r) <=> HasReq(inQ[t], r)
         /\ HasTask(worker'[t], r) <=> HasTask(worker[t], r)
         /\ HasResult(outQ'[t], r) <=> HasResult(outQ[t], r)
  BY <1>5, <1>9
<1>11. ChainInv'
  <2>1. UNCHANGED <<pc, pos, cur>> /\ yielded' = yielded
    BY Zenon, <1>2 DEF orchestrator
  <2> QED
    BY Zenon, <2>1, <1>1, <1>10, QuietPlaces, StayedOn
<1>12. ASSUME NEW t \in Stages, NEW r \in Requests, <<"in", t, r>> \in segs'
       PROVE  r \in Large /\ t > 0 /\ Unread(t, r)'
  <2>1. r \in Large /\ t > 0 /\ Unread(t, r)
    BY Zenon, <1>12, <1>1, <1>8, SegsAre
  <2>2. CASE t # s
    BY Zenon, <2>1, <2>2, <1>9 DEF Unread
  <2>3. CASE t = s
    <3>1. ~HasTask(worker[s], r)
      BY Zenon, <2>1, <2>3, <1>1, <1>2, <1>3, <1>12, BatchUnlinked
    <3> QED
      BY Zenon, <3>1, <2>1, <2>3, <1>10 DEF Unread
  <2> QED
    BY Zenon, <2>2, <2>3
<1>13. \A t \in Stages, r \in Requests :
         <<"out", t, r>> \in segs' => r \in Large /\ HasResult(outQ'[t], r)
  BY Zenon, <1>1, <1>2, <1>8, SegsAre
<1>14. SegInv'
  BY Zenon, <1>3, <1>8, <1>12, <1>13, SegsWillBe
<1> QED
  BY Zenon, <1>9, <1>11, <1>14 DEF IInv

(* A payload is missing: the worker is gone and keeps its batch, whose     *)
(* segments may be left.                                                   *)
LEMMA MissingPayloadKeeps ==
  ASSUME IInv, NEW s \in Stages, worker[s].pc = "batching", MissingPayload(s),
         NEW q \in Seq(Messages), InQOK(s, q, pc), inQ' = [inQ EXCEPT ![s] = q],
         \A r \in Requests : HasReq(q, r) <=> HasReq(inQ[s], r),
         UNCHANGED <<orchestrator, outQ>>
  PROVE  IInv'
<1> DEFINE w == [worker[s] EXCEPT !.pc = "gone"]
<1>1. /\ TypeOK /\ QueueInv /\ ChainInv /\ SegInv
      /\ OutQOK(s, outQ[s]) /\ BatchOK(s, worker[s])
  BY Zenon DEF IInv, QueueInv
<1>2. /\ worker' = [worker EXCEPT ![s] = w] /\ segs' \subseteq segs
      /\ faults < MaxFaults /\ faults' = faults + 1
      /\ stuck' = stuck \cup {worker[s].batch[i].req : i \in DOMAIN worker[s].batch}
      /\ outQ' = outQ /\ UNCHANGED orchestrator
  BY Zenon DEF MissingPayload, Unlinked
<1>3. /\ outQ \in [Stages -> Seq(Replies)]
      /\ outQ[s] \in Seq(Replies) /\ worker[s] \in Workers
      /\ Len(worker[s].batch) <= MaxBatch /\ segs \subseteq Segments
  BY Zenon, <1>1, Types
<1>4. outQ' = [outQ EXCEPT ![s] = outQ[s]]
  BY Zenon, <1>2, <1>3
<1>5. /\ w \in Workers /\ w.pc = "gone" /\ w.batch = worker[s].batch
      /\ w.sent = worker[s].sent
      /\ \A r \in Requests : HasTask(w, r) <=> HasTask(worker[s], r)
  BY <1>3, WorkerPc DEF WorkerStates
<1>6. BatchOK(s, w)
  BY Zenon, <1>1, <1>5 DEF BatchOK
<1>7. faults' \in 0..MaxFaults
  <2>1. faults \in 0..MaxFaults /\ faults < MaxFaults /\ faults' = faults + 1
    BY Zenon, <1>1, <1>2 DEF TypeOK
  <2> QED
    BY <2>1, Constants
<1>8. stuck' \subseteq Requests
  <2>1. \A i \in DOMAIN worker[s].batch : worker[s].batch[i].req \in Requests
    <3>1. DOMAIN worker[s].batch = 1..Len(worker[s].batch)
      BY <1>3, WorkerTypes
    <3> QED
      BY Zenon, <3>1, <1>1 DEF BatchOK, InMsg
  <2> QED
    BY Zenon, <2>1, <1>1, <1>2 DEF TypeOK
<1> HIDE DEF w
<1>9. /\ TypeOK' /\ QueueInv' /\ YieldInv' /\ CountInv'
      /\ inQ'[s] = q /\ outQ'[s] = outQ[s] /\ worker'[s] = w
      /\ \A t \in Stages : t # s => /\ inQ'[t] = inQ[t] /\ outQ'[t] = outQ[t]
                                    /\ worker'[t] = worker[t]
  BY Zenon, <1>1, <1>2, <1>3, <1>4, <1>5, <1>6, <1>7, <1>8, WorkerStep
<1>10. \A t \in Stages, r \in Requests :
         /\ HasReq(inQ'[t], r) <=> HasReq(inQ[t], r)
         /\ HasTask(worker'[t], r) <=> HasTask(worker[t], r)
         /\ HasResult(outQ'[t], r) <=> HasResult(outQ[t], r)
  BY <1>5, <1>9
<1>11. ChainInv'
  <2>1. UNCHANGED <<pc, pos, cur>> /\ yielded' = yielded
    BY Zenon, <1>2 DEF orchestrator
  <2> QED
    BY Zenon, <2>1, <1>1, <1>10, QuietPlaces, StayedOn
<1>12. SegInv'
  <2>1. \A t \in Stages : worker'[t].pc = "running" => worker[t].pc = "running"
    BY Zenon, <1>5, <1>9
  <2>2. \A t \in Stages, r \in Requests : Unread(t, r) => Unread(t, r)'
    BY Zenon, <2>1, <1>10 DEF Unread
  <2> QED
    BY Zenon, <2>2, <1>1, <1>2, <1>3, <1>10, SegsAre, SegsWillBe
<1> QED
  BY Zenon, <1>9, <1>11, <1>12 DEF IInv

(* Either way.                                                             *)
LEMMA ReceiveKeeps ==
  ASSUME IInv, NEW s \in Stages, worker[s].pc = "batching", Receive(s),
         NEW q \in Seq(Messages), InQOK(s, q, pc), inQ' = [inQ EXCEPT ![s] = q],
         \A r \in Requests : HasReq(q, r) <=> HasReq(inQ[s], r),
         UNCHANGED <<orchestrator, outQ>>
  PROVE  IInv'
BY Zenon, ReceivedKeeps, MissingPayloadKeeps DEF Receive

(* The worker reads the inputs of its batch and unlinks their segments.    *)
LEMMA RunBatchKeeps ==
  ASSUME IInv, NEW s \in Stages, RunBatch(s)
  PROVE  IInv'
<1>1. TypeOK /\ InQOK(s, inQ[s], pc)
  BY Zenon DEF IInv, QueueInv
<1>2. inQ \in [Stages -> Seq(Messages)] /\ inQ[s] \in Seq(Messages)
  BY Zenon, <1>1, Types
<1>3. /\ worker[s].pc = "batching" /\ Receive(s) /\ inQ' = inQ
      /\ UNCHANGED <<orchestrator, outQ>>
  BY Zenon DEF RunBatch
<1>4. inQ' = [inQ EXCEPT ![s] = inQ[s]]
  BY Zenon, <1>2, <1>3
<1> QED
  BY Zenon, <1>1, <1>2, <1>3, <1>4, ReceiveKeeps

(* Requests go on to the next station of their stage.                      *)
LEMMA NextStation ==
  ASSUME TypeOK, ChainInv, NEW s \in Stages, NEW k \in 0..2, NEW M \in SUBSET Requests,
         \A m \in M : <<s, k, m>> \in Where,
         \A a \in Where' : a \in Where \/ (a[1] = s /\ a[2] = k + 1 /\ a[3] \in M),
         \A r \in Requests : <<s, k, r>> \in Where' => \A m \in M : m < r,
         yielded' = yielded
  PROVE  ChainInv'
<1>1. k \in 0..3 /\ k + 1 \in 0..3 /\ k < k + 1
  OBVIOUS
<1>2. \A a \in Where' : a[1] = s /\ a[2] = k => \A m \in M : m < a[3]
  <2> SUFFICES ASSUME NEW a \in Where', a[1] = s, a[2] = k
               PROVE  \A m \in M : m < a[3]
    BY Zenon
  <2>1. a \in Places
    BY Zenon DEF Where
  <2>2. a[3] \in Requests /\ a = <<s, k, a[3]>>
    BY Zenon, <2>1, PlaceTypes
  <2>3. <<s, k, a[3]>> \in Where'
    BY Zenon, <2>2
  <2> QED
    BY Zenon, <2>2, <2>3
<1>3. \A a \in Where : ~((a[1] > s \/ (a[1] = s /\ a[2] > k))
                         /\ (a[1] < s \/ (a[1] = s /\ a[2] < k + 1)))
  <2> SUFFICES ASSUME NEW a \in Where
               PROVE  ~((a[1] > s \/ (a[1] = s /\ a[2] > k))
                         /\ (a[1] < s \/ (a[1] = s /\ a[2] < k + 1)))
    BY Zenon
  <2>1. a \in Places
    BY Zenon DEF Where
  <2>2. a[1] \in Nat /\ a[2] \in Nat /\ s \in Nat /\ k \in Nat
    BY <2>1, PlaceTypes, Constants
  <2> QED
    BY <2>2
<1>4. Moves(Where, Where', s, k, s, k + 1, M)
  BY Zenon, <1>1, <1>2, <1>3 DEF Moves
<1>5. \A m \in M : OnRoute(yielded, s, m)
  <2> SUFFICES ASSUME NEW m \in M
               PROVE  OnRoute(yielded, s, m)
    BY Zenon
  <2> DEFINE a == <<s, k, m>>
  <2>1. a \in Where /\ a[1] = s /\ a[3] = m
    BY Zenon
  <2> HIDE DEF a
  <2> QED
    BY Zenon, <2>1 DEF ChainInv
<1> QED
  BY Zenon, <1>1, <1>4, <1>5, MovedOn

(* What is further on in the pipeline is an earlier request.               *)
LEMMA Earlier ==
  ASSUME ChainInv, NEW s \in Stages, NEW t \in Stages, NEW k \in 0..3, NEW l \in 0..3,
         NEW x \in Requests, NEW y \in Requests,
         <<s, k, x>> \in Where, <<t, l, y>> \in Where, s > t \/ (s = t /\ k > l)
  PROVE  x < y
<1> DEFINE a == <<s, k, x>>
           b == <<t, l, y>>
<1>1. /\ a \in Where /\ a[1] = s /\ a[2] = k /\ a[3] = x
      /\ b \in Where /\ b[1] = t /\ b[2] = l /\ b[3] = y
  BY Zenon
<1> HIDE DEF a, b
<1>2. Ahead(a, b)
  BY Zenon, <1>1 DEF Ahead
<1> QED
  BY Zenon, <1>1, <1>2 DEF ChainInv, Chain

(* A worker without a batch has no tasks.                                  *)
LEMMA IdleWorker ==
  ASSUME NEW s \in Stages, NEW w, BatchOK(s, w), w.pc \in {"init", "idle"}
  PROVE  \A r \in Requests : ~HasTask(w, r)
<1>1. w.batch = <<>>
  BY Zenon DEF BatchOK
<1>2. 1..Len(w.batch) = {}
  BY Zenon, <1>1, NoElements
<1> QED
  BY Zenon, <1>2 DEF HasTask

(* The worker takes the first task of its queue into its batch.            *)
LEMMA TakeTaskKeeps ==
  ASSUME IInv, NEW s \in Stages, inQ[s] # <<>>, InMsg(s, Head(inQ[s])),
         inQ' = [inQ EXCEPT ![s] = Tail(inQ[s])],
         NEW w \in Workers, worker' = [worker EXCEPT ![s] = w],
         BatchOK(s, w), w.pc = "batching", Len(w.batch) <= MaxBatch,
         \A r \in Requests :
           HasTask(w, r) <=> HasTask(worker[s], r) \/ r = Head(inQ[s]).req,
         UNCHANGED <<orchestrator, outQ, segs, faults, stuck>>
  PROVE  IInv'
<1> DEFINE q == Tail(inQ[s])
           x == Head(inQ[s]).req
<1>1. /\ TypeOK /\ QueueInv /\ ChainInv /\ SegInv
      /\ InQOK(s, inQ[s], pc) /\ OutQOK(s, outQ[s])
  BY Zenon DEF IInv, QueueInv
<1>2. /\ outQ \in [Stages -> Seq(Replies)] /\ outQ[s] \in Seq(Replies)
      /\ inQ[s] \in Seq(Messages) /\ segs \subseteq Segments
  BY Zenon, <1>1, Types
<1>3. outQ' = [outQ EXCEPT ![s] = outQ[s]]
  BY Zenon, <1>2
<1>4. /\ q \in Seq(Messages) /\ InQOK(s, q, pc) /\ HasReq(inQ[s], x)
      /\ \A r \in Requests : HasReq(q, r) => HasReq(inQ[s], r) /\ x < r
      /\ \A r \in Requests : HasReq(inQ[s], r) => HasReq(q, r) \/ r = x
  BY Zenon, <1>1, <1>2, QueueTail
<1>5. x \in Requests
  BY Zenon DEF InMsg
<1>6. faults' \in 0..MaxFaults /\ segs' \subseteq Segments /\ stuck' \subseteq Requests
  BY Zenon, <1>1, <1>2 DEF TypeOK
<1> HIDE DEF q, x
<1>7. /\ TypeOK' /\ QueueInv' /\ YieldInv' /\ CountInv'
      /\ inQ'[s] = q /\ outQ'[s] = outQ[s] /\ worker'[s] = w
      /\ \A t \in Stages : t # s => /\ inQ'[t] = inQ[t] /\ outQ'[t] = outQ[t]
                                    /\ worker'[t] = worker[t]
  <2>1. inQ' = [inQ EXCEPT ![s] = q]
    BY Zenon DEF q
  <2>2. UNCHANGED orchestrator
    BY Zenon
  <2> QED
    BY Zenon, <2>1, <2>2, <1>1, <1>2, <1>3, <1>4, <1>6, WorkerStep
<1>8. \A r \in Requests : HasTask(w, r) <=> HasTask(worker[s], r) \/ r = x
  BY Zenon DEF x
<1>9. pc' = pc /\ pos' = pos /\ cur' = cur /\ yielded' = yielded
  BY Zenon DEF orchestrator
<1>10. ChainInv'
  <2>1. \A a \in Where' : a \in Where \/ (a[1] = s /\ a[2] = 1 /\ a[3] \in {x})
    <3>1. Adds(s, 1, {x})
      <4>1. \A t \in Stages, r \in Requests : HasReq(inQ'[t], r) => HasReq(inQ[t], r)
        BY Zenon, <1>4, <1>7
      <4>2. \A t \in Stages, r \in Requests :
              HasTask(worker'[t], r) => HasTask(worker[t], r) \/ (t = s /\ r \in {x})
        <5>1. /\ worker'[s] = w
              /\ \A t \in Stages : t # s => worker'[t] = worker[t]
          BY Zenon, <1>7
        <5> QED
          BY <5>1, <1>8
      <4> QED
        BY Zenon, <4>1, <4>2, <1>9 DEF Adds
    <3>2. {x} \in SUBSET Requests /\ 1 \in 0..3
      BY <1>5
    <3> QED
      BY Zenon, <3>1, <3>2, StepPlaces
  <2>2. \A m \in {x} : <<s, 0, m>> \in Where
    BY Zenon, <1>4, <1>5, WhereIs
  <2>3. \A r \in Requests : <<s, 0, r>> \in Where' => \A m \in {x} : m < r
    <3>1. \A r \in Requests : <<s, 0, r>> \in Where' => HasReq(inQ'[s], r)
      BY ZenonT(40), WhereWillBe
    <3> QED
      BY ZenonT(40), <3>1, <1>4, <1>7
  <2>4. 0 \in 0..2 /\ 1 = 0 + 1 /\ {x} \in SUBSET Requests
    BY <1>5
  <2> QED
    BY ZenonT(40), <2>1, <2>2, <2>3, <2>4, <1>1, <1>9, NextStation
<1>11. SegInv'
  <2>1. ASSUME NEW t \in Stages, NEW r \in Requests, Unread(t, r)
        PROVE  Unread(t, r)'
    <3>1. CASE t # s
      BY Zenon, <2>1, <3>1, <1>7 DEF Unread
    <3>2. CASE t = s
      BY ZenonT(40), <2>1, <3>2, <1>4, <1>7, <1>8 DEF Unread
    <3> QED
      BY Zenon, <3>1, <3>2
  <2>2. segs' = segs /\ outQ' = outQ
    BY Zenon
  <2> QED
    BY Zenon, <2>1, <2>2, <1>1, <1>6, SegsAre, SegsWillBe
<1> QED
  BY Zenon, <1>7, <1>10, <1>11 DEF IInv

(* The worker takes a first task, or the shutdown.                         *)
LEMMA GetTaskKeeps ==
  ASSUME IInv, NEW s \in Stages, GetTask(s)
  PROVE  IInv'
<1>1. /\ TypeOK /\ QueueInv /\ ChainInv /\ SegInv
      /\ InQOK(s, inQ[s], pc) /\ OutQOK(s, outQ[s]) /\ BatchOK(s, worker[s])
  BY Zenon DEF IInv, QueueInv
<1>2. /\ outQ \in [Stages -> Seq(Replies)] /\ outQ[s] \in Seq(Replies)
      /\ inQ[s] \in Seq(Messages) /\ segs \subseteq Segments
  BY Zenon, <1>1, Types
<1>3. /\ worker[s].pc = "idle" /\ inQ[s] # <<>>
      /\ inQ' = [inQ EXCEPT ![s] = Tail(inQ[s])]
      /\ UNCHANGED <<orchestrator, outQ, segs, faults, stuck>>
  BY Zenon DEF GetTask
<1>4. \A r \in Requests : ~HasTask(worker[s], r)
  BY Zenon, <1>1, <1>3, IdleWorker
<1>5. /\ Head(inQ[s]) \in Messages /\ Tail(inQ[s]) \in Seq(Messages)
      /\ InQOK(s, Tail(inQ[s]), pc)
      /\ InMsg(s, Head(inQ[s])) \/ Head(inQ[s]) = Shutdown
      /\ \A r \in Requests : HasReq(Tail(inQ[s]), r) => HasReq(inQ[s], r)
      /\ Head(inQ[s]) = Shutdown => \A r \in Requests : ~HasReq(inQ[s], r)
  BY Zenon, <1>1, <1>2, <1>3, QueueTail
<1>6. CASE Head(inQ[s]) # Shutdown
  <2> DEFINE w == [pc |-> "batching", batch |-> <<Head(inQ[s])>>, sent |-> 0]
  <2>1. worker' = [worker EXCEPT ![s] = w]
    BY <1>6 DEF GetTask
  <2>2. InMsg(s, Head(inQ[s]))
    BY Zenon, <1>5, <1>6
  <2>3. /\ w \in Workers /\ w.pc = "batching" /\ BatchOK(s, w)
        /\ Len(w.batch) <= MaxBatch /\ \A r \in Requests : HasTask(w, r) <=> r = Head(inQ[s]).req
    BY Zenon, <2>2, <1>5, WorkerBatch
  <2> HIDE DEF w
  <2>4. \A r \in Requests : HasTask(w, r) <=> HasTask(worker[s], r) \/ r = Head(inQ[s]).req
    BY Zenon, <2>3, <1>4
  <2> QED
    BY Zenon, <2>1, <2>2, <2>3, <2>4, <1>3, TakeTaskKeeps
<1>7. CASE Head(inQ[s]) = Shutdown
  <2> DEFINE w == [pc |-> "gone", batch |-> <<>>, sent |-> 0]
             q == Tail(inQ[s])
  <2>1. worker' = [worker EXCEPT ![s] = w]
    BY <1>7 DEF GetTask
  <2>2. /\ w \in Workers /\ w.pc = "gone" /\ BatchOK(s, w)
        /\ Len(w.batch) <= MaxBatch /\ \A r \in Requests : ~HasTask(w, r)
    BY Zenon, WorkerEmpty
  <2> HIDE DEF w
  <2>3. outQ' = [outQ EXCEPT ![s] = outQ[s]]
    BY Zenon, <1>2, <1>3
  <2>4. /\ faults' \in 0..MaxFaults /\ segs' = segs /\ segs' \subseteq Segments
        /\ stuck' \subseteq Requests /\ UNCHANGED orchestrator
    BY Zenon, <1>1, <1>2, <1>3 DEF TypeOK
  <2>5. inQ' = [inQ EXCEPT ![s] = q] /\ q \in Seq(Messages) /\ InQOK(s, q, pc)
    BY Zenon, <1>3, <1>5
  <2>6. \A r \in Requests : HasReq(q, r) => HasReq(inQ[s], r)
    BY Zenon, <1>5
  <2> HIDE DEF q
  <2>7. /\ TypeOK' /\ QueueInv' /\ YieldInv' /\ CountInv'
        /\ inQ'[s] = q /\ outQ'[s] = outQ[s] /\ worker'[s] = w
        /\ \A t \in Stages : t # s => /\ inQ'[t] = inQ[t] /\ outQ'[t] = outQ[t]
                                      /\ worker'[t] = worker[t]
    BY ZenonT(40), <2>1, <2>2, <2>3, <2>4, <2>5, <1>1, <1>2, WorkerStep
  <2>8. \A t \in Stages, r \in Requests :
          /\ HasReq(inQ'[t], r) => HasReq(inQ[t], r)
          /\ HasTask(worker'[t], r) => HasTask(worker[t], r)
          /\ HasResult(outQ'[t], r) <=> HasResult(outQ[t], r)
    BY Zenon, <2>2, <2>6, <2>7
  <2>9. ChainInv'
    <3>1. UNCHANGED <<pc, pos, cur>> /\ yielded' = yielded
      BY Zenon, <2>4 DEF orchestrator
    <3> QED
      BY Zenon, <3>1, <2>8, <1>1, QuietPlaces, StayedOn
  <2>10. SegInv'
    <3>1. ASSUME NEW t \in Stages, NEW r \in Requests, Unread(t, r)
          PROVE  Unread(t, r)'
      <4>1. t # s
        BY Zenon, <3>1, <1>4, <1>5, <1>7 DEF Unread
      <4> QED
        BY Zenon, <4>1, <3>1, <2>7 DEF Unread
    <3> QED
      BY Zenon, <3>1, <2>4, <1>1, <1>3, SegsAre, SegsWillBe
  <2> QED
    BY Zenon, <2>7, <2>9, <2>10 DEF IInv
<1> QED
  BY Zenon, <1>6, <1>7

(* The worker takes one task more for its batch, or puts a shutdown back.  *)
LEMMA ExtraTaskKeeps ==
  ASSUME IInv, NEW s \in Stages, ExtraTask(s)
  PROVE  IInv'
<1>1. /\ TypeOK /\ QueueInv /\ ChainInv
      /\ InQOK(s, inQ[s], pc) /\ BatchOK(s, worker[s])
  BY Zenon DEF IInv, QueueInv
<1>2. inQ[s] \in Seq(Messages) /\ worker[s] \in Workers
  BY Zenon, <1>1, Types
<1>3. /\ worker[s].pc = "batching" /\ Len(worker[s].batch) < MaxBatch /\ inQ[s] # <<>>
      /\ UNCHANGED <<orchestrator, outQ>>
  BY Zenon DEF ExtraTask, Room
<1>4. /\ Head(inQ[s]) \in Messages /\ Tail(inQ[s]) \in Seq(Messages)
      /\ InQOK(s, Tail(inQ[s]), pc) /\ HasReq(inQ[s], Head(inQ[s]).req)
      /\ InMsg(s, Head(inQ[s])) \/ (Head(inQ[s]) = Shutdown /\ pc \in {"joining", "closed"})
      /\ \A r \in Requests : HasReq(Tail(inQ[s]), r) => HasReq(inQ[s], r)
      /\ Head(inQ[s]) = Shutdown => \A r \in Requests : ~HasReq(inQ[s], r)
  BY Zenon, <1>1, <1>2, <1>3, QueueTail
<1>5. ~InMsg(s, Shutdown)
  BY Zenon, MessageTypes, Constants DEF InMsg
<1>6. CASE Head(inQ[s]) # Shutdown
  <2> DEFINE w == [worker[s] EXCEPT !.batch = Append(worker[s].batch, Head(inQ[s]))]
  <2>1. /\ worker' = [worker EXCEPT ![s] = w] /\ inQ' = [inQ EXCEPT ![s] = Tail(inQ[s])]
        /\ UNCHANGED <<segs, faults, stuck>>
    BY Zenon, <1>6 DEF ExtraTask, Joined
  <2>2. InMsg(s, Head(inQ[s]))
    BY Zenon, <1>4, <1>6
  <2>3. \A r \in Requests : HasTask(worker[s], r) => r < Head(inQ[s]).req
    <3>1. Head(inQ[s]).req \in Requests
      BY Zenon, <2>2 DEF InMsg
    <3> SUFFICES ASSUME NEW r \in Requests, HasTask(worker[s], r)
                 PROVE  r < Head(inQ[s]).req
      BY Zenon
    <3>2. <<s, 1, r>> \in Where /\ <<s, 0, Head(inQ[s]).req>> \in Where
      BY Zenon, <3>1, <1>4, WhereIs
    <3> QED
      BY <3>1, <3>2, <1>1, Earlier
  <2>4. /\ w \in Workers /\ w.pc = "batching" /\ BatchOK(s, w) /\ Len(w.batch) <= MaxBatch
        /\ \A r \in Requests : HasTask(w, r) <=> HasTask(worker[s], r) \/ r = Head(inQ[s]).req
    <3>1. MayJoin(s, worker[s], Head(inQ[s]))
      BY Zenon, <2>2, <2>3, <1>1, <1>3 DEF MayJoin
    <3>2. Append(worker[s].batch, Head(inQ[s])) \in Seq(Messages)
      BY <1>2, <1>4, WorkerTypes, Appended
    <3>3. /\ w \in Workers /\ w.pc = worker[s].pc /\ w.sent = worker[s].sent
          /\ w.batch = Append(worker[s].batch, Head(inQ[s]))
      BY Zenon, <3>2, <1>2 DEF Workers
    <3> HIDE DEF w
    <3> QED
      BY ZenonT(40), <3>1, <3>3, <1>2, <1>3, <1>4, WorkerJoin
  <2> HIDE DEF w
  <2> QED
    BY Zenon, <2>1, <2>2, <2>4, <1>3, TakeTaskKeeps
<1>7. CASE Head(inQ[s]) = Shutdown
  <2> DEFINE q == Append(Tail(inQ[s]), Shutdown)
  <2>1. inQ' = [inQ EXCEPT ![s] = q] /\ Receive(s)
    BY Zenon, <1>7 DEF ExtraTask
  <2>2. pc \in {"joining", "closed"}
    BY Zenon, <1>4, <1>5, <1>7
  <2>3. /\ q \in Seq(Messages) /\ InQOK(s, q, pc)
        /\ \A r \in Requests : HasReq(q, r) <=> HasReq(Tail(inQ[s]), r)
    BY ZenonT(40), <2>2, <1>4, QueueShutdown
  <2> HIDE DEF q
  <2>4. \A r \in Requests : HasReq(q, r) <=> HasReq(inQ[s], r)
    BY Zenon, <2>3, <1>4, <1>7
  <2> QED
    BY Zenon, <2>1, <2>3, <2>4, <1>3, ReceiveKeeps
<1> QED
  BY Zenon, <1>6, <1>7

(* Remainders of what is small enough.                                     *)
LEMMA ModSmall ==
  ASSUME NEW a \in Nat, NEW b \in Nat, a < b
  PROVE  a % b = a
OBVIOUS

(* The worker goes from a batch to w and its queue to p: the requests M    *)
(* are answered, and they are before all that are left.                    *)
Answers(s, w, p, M) ==
  /\ \A m \in M : HasTask(worker[s], m)
  /\ \A r \in Requests : HasTask(w, r) => HasTask(worker[s], r) /\ \A m \in M : m < r
  /\ \A r \in Requests : HasResult(p, r) <=> HasResult(outQ[s], r) \/ r \in M

(* The output queue is the station after the batch.                        *)
LEMMA BatchToOutput == 1 \in 0..2 /\ 2 = 1 + 1
OBVIOUS

(* The worker posts replies to tasks of its batch, in their order.         *)
Posts(s, w, p) ==
  /\ worker[s].pc = "running" /\ worker' = [worker EXCEPT ![s] = w]
  /\ BatchOK(s, w) /\ Len(w.batch) <= MaxBatch
  /\ OutQOK(s, p) /\ outQ' = [outQ EXCEPT ![s] = p]
  /\ segs' \subseteq segs \cup {<<"out", s, r>> : r \in {x \in Large : HasResult(p, x)}}
  /\ faults' \in 0..MaxFaults /\ stuck' \subseteq Requests
  /\ inQ' = inQ /\ UNCHANGED orchestrator

LEMMA AnswersKeep ==
  ASSUME IInv, NEW s \in Stages, NEW p \in Seq(Replies), NEW w \in Workers,
         NEW M \in SUBSET Requests, Answers(s, w, p, M), Posts(s, w, p)
  PROVE  IInv'
<1>1. /\ TypeOK /\ QueueInv /\ ChainInv /\ SegInv /\ InQOK(s, inQ[s], pc)
  BY Zenon DEF IInv, QueueInv
<1>2. /\ inQ \in [Stages -> Seq(Messages)] /\ inQ[s] \in Seq(Messages)
      /\ segs \subseteq Segments
  BY <1>1, Types
<1>3. inQ' = [inQ EXCEPT ![s] = inQ[s]]
  BY Zenon, <1>2 DEF Posts
<1>4. segs' \subseteq Segments
  <2>1. {<<"out", s, r>> : r \in {x \in Large : HasResult(p, x)}} \subseteq Segments
    BY Constants DEF Segments
  <2> QED
    BY Zenon, <2>1, <1>2 DEF Posts
<1>5. /\ TypeOK' /\ QueueInv' /\ YieldInv' /\ CountInv'
      /\ inQ'[s] = inQ[s] /\ outQ'[s] = p /\ worker'[s] = w
      /\ \A t \in Stages : t # s => /\ inQ'[t] = inQ[t] /\ outQ'[t] = outQ[t]
                                    /\ worker'[t] = worker[t]
  BY ZenonT(40), <1>1, <1>2, <1>3, <1>4, WorkerStep DEF Posts
<1>6. pc' = pc /\ pos' = pos /\ cur' = cur /\ yielded' = yielded
  BY Zenon DEF orchestrator, Posts
<1>7. ChainInv'
  <2>1. \A a \in Where' : a \in Where \/ (a[1] = s /\ a[2] = 2 /\ a[3] \in M)
    <3>1. \A t \in Stages, r \in Requests : HasTask(worker'[t], r) => HasTask(worker[t], r)
      BY Zenon, <1>5 DEF Answers
    <3>2. \A t \in Stages, r \in Requests :
            HasResult(outQ'[t], r) => HasResult(outQ[t], r) \/ (t = s /\ r \in M)
      BY Zenon, <1>5 DEF Answers
    <3>3. Adds(s, 2, M)
      BY Zenon, <3>1, <3>2, <1>6 DEF Adds, Posts
    <3> QED
      BY <3>3, StepPlaces
  <2>2. \A m \in M : <<s, 1, m>> \in Where
    BY ZenonT(40), WhereIs DEF Answers
  <2>3. \A r \in Requests : <<s, 1, r>> \in Where' => \A m \in M : m < r
    <3>1. \A r \in Requests : <<s, 1, r>> \in Where' => HasTask(worker'[s], r)
      BY Zenon, WhereWillBe
    <3> QED
      BY Zenon, <3>1, <1>5 DEF Answers
  <2> QED
    BY Zenon, <2>1, <2>2, <2>3, <1>1, <1>6, BatchToOutput, NextStation
<1>8. ASSUME NEW t \in Stages, NEW r \in Requests, <<"in", t, r>> \in segs'
      PROVE  r \in Large /\ t > 0 /\ Unread(t, r)'
  <2>1. <<"in", t, r>> \in segs
    BY Zenon, <1>8 DEF Posts
  <2>2. r \in Large /\ t > 0 /\ Unread(t, r)
    BY ZenonT(40), <2>1, <1>1, SegsAre
  <2>3. CASE t = s
    BY Zenon, <2>2, <2>3, <1>5 DEF Unread, Posts
  <2>4. CASE t # s
    BY ZenonT(40), <2>2, <2>4, <1>5 DEF Unread
  <2> QED
    BY Zenon, <2>2, <2>3, <2>4
<1>9. ASSUME NEW t \in Stages, NEW r \in Requests, <<"out", t, r>> \in segs'
      PROVE  r \in Large /\ HasResult(outQ'[t], r)
  <2>1. <<"out", t, r>> \in segs \/ (t = s /\ r \in Large /\ HasResult(p, r))
    BY Zenon, <1>9 DEF Posts
  <2>2. r \in Large /\ (HasResult(outQ[t], r) \/ (t = s /\ HasResult(p, r)))
    BY Zenon, <2>1, <1>1, SegsAre
  <2> QED
    BY <2>2, <1>5 DEF Answers
<1>10. SegInv'
  BY Zenon, <1>4, <1>8, <1>9, SegsWillBe
<1> QED
  BY Zenon, <1>5, <1>7, <1>10 DEF IInv

(* One more result of the batch is sent.                                   *)
LEMMA WorkerSent ==
  ASSUME NEW s \in Stages, NEW w \in Workers, BatchOK(s, w), Len(w.batch) <= MaxBatch,
         w.pc = "running", NEW i, i = w.sent + 1
  PROVE  /\ i \in 1..Len(w.batch) /\ w.batch[i] \in Messages /\ InMsg(s, w.batch[i])
         /\ OutputFor(w.batch, i) = w.batch[i].req /\ HasTask(w, w.batch[i].req)
         /\ \A r \in Requests : HasTask(w, r) => r = w.batch[i].req \/ w.batch[i].req < r
         /\ i # Len(w.batch) =>
              LET v == [w EXCEPT !.sent = i]
              IN  /\ v \in Workers /\ BatchOK(s, v) /\ Len(v.batch) <= MaxBatch
                  /\ \A r \in Requests :
                       HasTask(v, r) => HasTask(w, r) /\ w.batch[i].req < r
<1>1. /\ w.batch \in Seq(Messages) /\ w.sent \in Nat /\ Len(w.batch) \in Nat
      /\ \A j \in 1..Len(w.batch) : w.batch[j] \in Messages /\ InMsg(s, w.batch[j])
      /\ Sorted(w.batch) /\ w.sent < Len(w.batch)
  BY Zenon, WorkerTypes, Elements DEF BatchOK
<1>2. i \in 1..Len(w.batch) /\ i > w.sent /\ i - 1 = w.sent
  BY <1>1
<1>3. OutputFor(w.batch, i) = w.batch[i].req
  <2>1. (i - 1) % Len(w.batch) = i - 1
    BY Zenon, <1>1, <1>2, ModSmall
  <2>2. OutputFor(w.batch, i) = w.batch[i].data
    BY Zenon, <2>1, <1>1, <1>2 DEF OutputFor
  <2> QED
    BY Zenon, <2>2, <1>1, <1>2 DEF InMsg
<1>4. HasTask(w, w.batch[i].req)
  BY Zenon, <1>2 DEF HasTask
<1>5. \A j \in 1..Len(w.batch) : j > i => w.batch[i].req < w.batch[j].req
  <2>1. \A j \in 1..Len(w.batch) : w.batch[j].req # 0
    BY Zenon, <1>1, Constants DEF InMsg
  <2> QED
    BY Zenon, <2>1, <1>1, <1>2 DEF Sorted
<1>6. \A r \in Requests : HasTask(w, r) => r = w.batch[i].req \/ w.batch[i].req < r
  <2> SUFFICES ASSUME NEW r \in Requests, HasTask(w, r)
               PROVE  r = w.batch[i].req \/ w.batch[i].req < r
    BY Zenon
  <2>1. PICK j \in 1..Len(w.batch) : j > w.sent /\ w.batch[j].req = r
    BY Zenon DEF HasTask
  <2>2. j = i \/ j > i
    BY <2>1, <1>1, <1>2
  <2> QED
    BY Zenon, <2>1, <2>2, <1>5
<1>7. ASSUME i # Len(w.batch), NEW v, v = [w EXCEPT !.sent = i]
      PROVE  /\ v \in Workers /\ BatchOK(s, v) /\ Len(v.batch) <= MaxBatch
             /\ \A r \in Requests : HasTask(v, r) => HasTask(w, r) /\ w.batch[i].req < r
  <2>1. i \in 0..MaxBatch
    BY <1>1, <1>2, Constants
  <2>2. v \in Workers /\ v.pc = w.pc /\ v.batch = w.batch /\ v.sent = i
    BY Zenon, <2>1, <1>7 DEF Workers
  <2>3. BatchOK(s, v)
    <3>1. i < Len(v.batch)
      BY <2>2, <1>1, <1>2, <1>7
    <3> QED
      BY Zenon, <3>1, <2>2 DEF BatchOK
  <2>4. \A r \in Requests : HasTask(v, r) => HasTask(w, r) /\ w.batch[i].req < r
    <3>1. \A j \in 1..Len(w.batch) : j > i => j > w.sent
      BY <1>1, <1>2
    <3> QED
      BY Zenon, <3>1, <2>2, <1>5 DEF HasTask
  <2> QED
    BY Zenon, <2>2, <2>3, <2>4
<1> QED
  BY <1>1, <1>2, <1>3, <1>4, <1>6, <1>7

(* A message with the data of its own request, and its segment.            *)
LEMMA PackedMessage ==
  ASSUME NEW kind \in {"in", "out"}, NEW s \in Stages, NEW r \in Requests,
         NEW m, m = Packed(kind, s, r, r)
  PROVE  /\ m \in Messages /\ m.req = r /\ m.data = r
         /\ r \in Large => m.seg = <<kind, s, r>> /\ SegsOf(m) = {<<kind, s, r>>}
         /\ r \notin Large => m.seg = <<>> /\ SegsOf(m) = {}
<1>1. m.req = r /\ m.data = r /\ m.seg = IF r \in Large THEN <<kind, s, r>> ELSE <<>>
  BY Zenon DEF Packed
<1>2. <<kind, s, r>> # <<>>
  BY Zenon
<1>3. m.seg \in Segments \cup {<<>>}
  BY <1>1 DEF Segments
<1>4. m \in Messages
  <2>1. r \in 0..N
    BY DEF Requests
  <2> QED
    BY Zenon, <2>1, <1>1, <1>3 DEF Messages, Packed
<1>5. /\ r \in Large => m.seg = <<kind, s, r>> /\ SegsOf(m) = {<<kind, s, r>>}
      /\ r \notin Large => m.seg = <<>> /\ SegsOf(m) = {}
  BY Zenon, <1>1, <1>2 DEF SegsOf
<1> QED
  BY Zenon, <1>1, <1>4, <1>5

(* The worker posts the output of its next task.                           *)
LEMMA EmitKeeps ==
  ASSUME IInv, NEW s \in Stages, Emit(s)
  PROVE  IInv'
<1> DEFINE i == worker[s].sent + 1
           x == worker[s].batch[i].req
           m == Packed("out", s, x, x)
           e == Reply("ok", m)
           p == Append(outQ[s], e)
           done == [pc |-> "idle", batch |-> <<>>, sent |-> 0]
           w == IF i = Len(worker[s].batch) THEN done ELSE [worker[s] EXCEPT !.sent = i]
<1>1. /\ TypeOK /\ QueueInv /\ ChainInv /\ OutQOK(s, outQ[s]) /\ BatchOK(s, worker[s])
  BY Zenon DEF IInv, QueueInv
<1>2. /\ outQ[s] \in Seq(Replies) /\ worker[s] \in Workers
      /\ Len(worker[s].batch) <= MaxBatch
  BY Zenon, <1>1, Types
<1>3. worker[s].pc = "running"
  BY Zenon DEF Emit
<1>4. /\ InMsg(s, worker[s].batch[i]) /\ OutputFor(worker[s].batch, i) = x
      /\ HasTask(worker[s], x)
      /\ \A r \in Requests : HasTask(worker[s], r) => r = x \/ x < r
      /\ i # Len(worker[s].batch) =>
           LET v == [worker[s] EXCEPT !.sent = i]
           IN  /\ v \in Workers /\ BatchOK(s, v) /\ Len(v.batch) <= MaxBatch
               /\ \A r \in Requests : HasTask(v, r) => HasTask(worker[s], r) /\ x < r
  BY <1>1, <1>2, <1>3, WorkerSent
<1>5. /\ outQ' = [outQ EXCEPT ![s] = p] /\ segs' = segs \cup SegsOf(m)
      /\ worker' = [worker EXCEPT ![s] = w] /\ inQ' = inQ /\ faults' = faults
      /\ UNCHANGED <<orchestrator, stuck>>
  BY ZenonT(40), <1>4 DEF Emit
<1>6. x \in Requests
  BY Zenon, <1>4 DEF InMsg
<1>7. /\ w \in Workers /\ BatchOK(s, w) /\ Len(w.batch) <= MaxBatch
      /\ \A r \in Requests : HasTask(w, r) => HasTask(worker[s], r) /\ x < r
  <2>1. CASE i = Len(worker[s].batch)
    <3>1. /\ done \in Workers /\ BatchOK(s, done) /\ Len(done.batch) <= MaxBatch
          /\ \A r \in Requests : ~HasTask(done, r)
      BY Zenon, WorkerEmpty
    <3>2. w = done
      BY Zenon, <2>1
    <3> QED
      BY Zenon, <3>1, <3>2
  <2>2. CASE i # Len(worker[s].batch)
    <3>1. w = [worker[s] EXCEPT !.sent = i]
      BY Zenon, <2>2
    <3> QED
      BY Zenon, <3>1, <2>2, <1>4
  <2> QED
    BY Zenon, <2>1, <2>2
<1> HIDE DEF x, w
<1>8. /\ m \in Messages /\ m.req = x /\ m.data = x
      /\ x \in Large => m.seg = <<"out", s, x>> /\ SegsOf(m) = {<<"out", s, x>>}
      /\ x \notin Large => m.seg = <<>> /\ SegsOf(m) = {}
  BY Zenon, <1>6, PackedMessage
<1> HIDE DEF m
<1>9. e \in Replies /\ e.msg = m /\ e.kind = "ok" /\ OutMsg(s, e)
  BY Zenon, <1>6, <1>8 DEF Reply, Replies, ReplyKinds, OutMsg
<1> HIDE DEF e
<1>10. \A r \in Requests : HasResult(outQ[s], r) => r < x
  <2> SUFFICES ASSUME NEW r \in Requests, HasResult(outQ[s], r)
               PROVE  r < x
    BY Zenon
  <2>1. <<s, 2, r>> \in Where /\ <<s, 1, x>> \in Where
    BY Zenon, <1>4, <1>6, WhereIs DEF x
  <2> QED
    BY <2>1, <1>1, <1>6, Earlier
<1>11. /\ p \in Seq(Replies) /\ OutQOK(s, p)
       /\ \A r \in Requests : HasResult(p, r) <=> HasResult(outQ[s], r) \/ r = x
       /\ HasResult(p, x)
  <2>1. e.msg.req = x /\ e.kind = "ok"
    BY Zenon, <1>8, <1>9
  <2>2. e.kind = "ok" => \A r \in Requests : HasResult(outQ[s], r) => r < e.msg.req
    BY Zenon, <2>1, <1>10
  <2>3. /\ p \in Seq(Replies) /\ OutQOK(s, p)
        /\ \A r \in Requests : HasResult(p, r) <=>
             HasResult(outQ[s], r) \/ (e.kind = "ok" /\ r = e.msg.req)
    BY Zenon, <2>2, <1>1, <1>2, <1>9, RepliesAppend
  <2> HIDE DEF p
  <2> QED
    BY Zenon, <2>1, <2>3, <1>6
<1> HIDE DEF p
<1>12. Answers(s, w, p, {x})
  <2>1. HasTask(worker[s], x)
    BY Zenon, <1>4 DEF x
  <2> QED
    BY Zenon, <2>1, <1>7, <1>11 DEF Answers
<1>13. segs' \subseteq segs \cup {<<"out", s, r>> : r \in {y \in Large : HasResult(p, y)}}
  BY Zenon, <1>5, <1>8, <1>11
<1>14. faults' \in 0..MaxFaults /\ stuck' \subseteq Requests /\ {x} \in SUBSET Requests
  BY Zenon, <1>1, <1>5, <1>6 DEF TypeOK
<1> QED
  <2>1. Posts(s, w, p)
    BY Zenon, <1>3, <1>5, <1>7, <1>11, <1>12, <1>13, <1>14 DEF Posts
  <2> QED
    BY Zenon, <2>1, <1>3, <1>5, <1>7, <1>11, <1>12, <1>13, <1>14, AnswersKeep

(* Errors for all requests of a batch at once: no result among them.       *)
LEMMA RepliesJoined ==
  ASSUME NEW s \in Stages, NEW q \in Seq(Replies), OutQOK(s, q), NEW e \in Seq(Replies),
         \A i \in 1..Len(e) : e[i].kind = "error" /\ OutMsg(s, e[i])
  PROVE  /\ q \o e \in Seq(Replies) /\ OutQOK(s, q \o e)
         /\ \A r \in Requests : HasResult(q \o e, r) <=> HasResult(q, r)
<1> DEFINE p == q \o e
<1>1. /\ p \in Seq(Replies) /\ Len(p) = Len(q) + Len(e)
      /\ Len(q) \in Nat /\ Len(e) \in Nat
      /\ \A i \in 1..Len(p) : p[i] = IF i <= Len(q) THEN q[i] ELSE e[i - Len(q)]
  BY Elements
<1> HIDE DEF p
<1>2. /\ \A i \in 1..Len(q) : i \in 1..Len(p) /\ p[i] = q[i]
      /\ \A i \in 1..Len(e) : i + Len(q) \in 1..Len(p) /\ p[i + Len(q)] = e[i]
      /\ \A i \in 1..Len(p) :
           (i \in 1..Len(q) /\ p[i] = q[i])
           \/ (i > Len(q) /\ i - Len(q) \in 1..Len(e) /\ p[i] = e[i - Len(q)])
  <2>1. \A i \in 1..Len(q) : i \in 1..Len(p) /\ p[i] = q[i]
    BY <1>1
  <2>2. ASSUME NEW i \in 1..Len(e)
        PROVE  i + Len(q) \in 1..Len(p) /\ p[i + Len(q)] = e[i]
    <3>1. i + Len(q) \in 1..Len(p) /\ ~(i + Len(q) <= Len(q)) /\ (i + Len(q)) - Len(q) = i
      BY <1>1
    <3> QED
      BY Zenon, <3>1, <1>1
  <2>3. ASSUME NEW i \in 1..Len(p), i \notin 1..Len(q)
        PROVE  i > Len(q) /\ i - Len(q) \in 1..Len(e) /\ p[i] = e[i - Len(q)]
    BY <2>3, <1>1
  <2> QED
    BY Zenon, <2>1, <2>2, <2>3
<1>3. (\A i \in 1..Len(q) : OutMsg(s, q[i])) /\ SortedReplies(q)
  BY Zenon DEF OutQOK
<1>4. \A i \in 1..Len(p) : OutMsg(s, p[i])
  BY Zenon, <1>2, <1>3
<1>5. \A i \in 1..Len(p) : p[i].kind = "ok" => i \in 1..Len(q) /\ p[i] = q[i]
  BY Zenon, <1>2
<1>6. SortedReplies(p)
  BY Zenon, <1>3, <1>5 DEF SortedReplies
<1>7. \A r \in Requests : HasResult(p, r) <=> HasResult(q, r)
  <2>1. \A r \in Requests : HasResult(p, r) => HasResult(q, r)
    BY Zenon, <1>5 DEF HasResult
  <2>2. \A r \in Requests : HasResult(q, r) => HasResult(p, r)
    BY Zenon, <1>2 DEF HasResult
  <2> QED
    BY Zenon, <2>1, <2>2
<1> QED
  BY Zenon, <1>1, <1>4, <1>6, <1>7 DEF OutQOK, p

(* generate() raised, or what follows it: every task of the batch gets an  *)
(* error, and those without result are given up.                           *)
LEMMA FailBatchKeeps ==
  ASSUME IInv, NEW s \in Stages, FailBatch(s)
  PROVE  IInv'
<1> DEFINE b == worker[s].batch
           e == [i \in DOMAIN b |-> Reply("error", Plain(b[i].req, 0))]
           p == outQ[s] \o e
           w == [pc |-> "idle", batch |-> <<>>, sent |-> 0]
<1>1. /\ TypeOK /\ QueueInv /\ ChainInv /\ OutQOK(s, outQ[s]) /\ BatchOK(s, worker[s])
  BY Zenon DEF IInv, QueueInv
<1>2. outQ[s] \in Seq(Replies) /\ worker[s] \in Workers
  BY Zenon, <1>1, Types
<1>3. /\ worker[s].pc = "running" /\ faults < MaxFaults /\ faults' = faults + 1
      /\ stuck' = stuck \cup {b[i].req : i \in worker[s].sent + 1..Len(b)}
      /\ outQ' = [outQ EXCEPT ![s] = p] /\ worker' = [worker EXCEPT ![s] = w]
      /\ inQ' = inQ /\ segs' = segs /\ UNCHANGED orchestrator
  BY Zenon DEF FailBatch
<1>4. /\ w \in Workers /\ BatchOK(s, w) /\ Len(w.batch) <= MaxBatch
      /\ \A r \in Requests : ~HasTask(w, r)
  BY Zenon, WorkerEmpty
<1>5. /\ b \in Seq(Messages) /\ Len(b) \in Nat /\ DOMAIN b = 1..Len(b)
      /\ \A i \in 1..Len(b) : b[i].req \in Requests
  <2>1. b \in Seq(Messages) /\ Len(b) \in Nat /\ DOMAIN b = 1..Len(b)
    BY <1>2, WorkerTypes
  <2> QED
    BY Zenon, <2>1, <1>1 DEF BatchOK, InMsg
<1>6. stuck' \subseteq Requests
  <2>1. worker[s].sent + 1..Len(b) \subseteq 1..Len(b)
    BY <1>2, <1>5, WorkerTypes
  <2> QED
    BY Zenon, <2>1, <1>1, <1>3, <1>5 DEF TypeOK
<1> HIDE DEF b, w
<1>7. /\ \A i \in 1..Len(b) : e[i] = Reply("error", Plain(b[i].req, 0))
      /\ \A i \in 1..Len(b) : Plain(b[i].req, 0) \in Messages
  <2>1. \A r \in Requests : Plain(r, 0) \in Messages
    BY Constants DEF Plain, Messages, Requests
  <2> QED
    BY Zenon, <2>1, <1>5
<1>8. \A i \in 1..Len(b) : e[i] \in Replies /\ e[i].kind = "error" /\ e[i].msg.req = b[i].req
  BY <1>7 DEF Reply, Replies, ReplyKinds, Plain
<1>9. e \in Seq(Replies) /\ Len(e) = Len(b)
  <2>1. DOMAIN e = 1..Len(b) /\ e = [i \in 1..Len(b) |-> e[i]]
    BY Zenon, <1>5
  <2> HIDE DEF e
  <2>2. e \in [1..Len(b) -> Replies]
    BY Zenon, <2>1, <1>8
  <2> QED
    BY <2>1, <2>2, <1>5
<1> HIDE DEF e
<1>10. \A i \in 1..Len(e) : e[i].kind = "error" /\ OutMsg(s, e[i])
  BY Zenon, <1>5, <1>8, <1>9 DEF OutMsg
<1>11. /\ p \in Seq(Replies) /\ OutQOK(s, p)
       /\ \A r \in Requests : HasResult(p, r) <=> HasResult(outQ[s], r)
  BY Zenon, <1>1, <1>2, <1>9, <1>10, RepliesJoined
<1> HIDE DEF p
<1>12. Answers(s, w, p, {})
  BY Zenon, <1>4, <1>11 DEF Answers
<1>13. faults' \in 0..MaxFaults /\ {} \in SUBSET Requests
  BY <1>1, <1>3, Constants DEF TypeOK
<1>14. segs' \subseteq segs \cup {<<"out", s, r>> : r \in {x \in Large : HasResult(p, x)}}
  BY Zenon, <1>3
<1> QED
  <2>1. Posts(s, w, p)
    BY Zenon, <1>3, <1>4, <1>6, <1>11, <1>13, <1>14 DEF Posts
  <2> QED
    BY Zenon, <2>1, <1>4, <1>11, <1>12, <1>13, AnswersKeep

-----------------------------------------------------------------------------
(* The orchestrator.  What one of its steps leaves of the queues, workers  *)
(* and segments when no request moves.                                     *)
InKept ==
  /\ inQ' \in [Stages -> Seq(Messages)]
  /\ \A s \in Stages : /\ InQOK(s, inQ'[s], pc')
                       /\ \A r \in Requests : HasReq(inQ'[s], r) <=> HasReq(inQ[s], r)

OutKept ==
  /\ outQ' \in [Stages -> Seq(Replies)]
  /\ \A s \in Stages : /\ OutQOK(s, outQ'[s])
                       /\ \A r \in Requests : HasResult(outQ'[s], r) => HasResult(outQ[s], r)

WorkersKept ==
  /\ worker' \in [Stages -> Workers]
  /\ \A s \in Stages :
       /\ BatchOK(s, worker'[s]) /\ Len(worker'[s].batch) <= MaxBatch
       /\ \A r \in Requests : HasTask(worker'[s], r) <=> HasTask(worker[s], r)
       /\ worker'[s].pc = "running" => worker[s].pc = "running"

SegsKept(G) ==
  /\ G \subseteq segs
  /\ \A s \in Stages, r \in Requests : <<"out", s, r>> \in G => HasResult(outQ'[s], r)

(* The queues are fit for every state of the orchestrator but the last two. *)
LEMMA NoShutdownYet ==
  ASSUME NEW s \in Stages, NEW c, NEW d, NEW q, InQOK(s, q, c),
         c \notin {"joining", "closed"} \/ d \in {"joining", "closed"}
  PROVE  InQOK(s, q, d)
BY Zenon DEF InQOK

(* The orchestrator changes no worker.                                     *)
LEMMA SameWorkers ==
  ASSUME IInv, worker' = worker
  PROVE  WorkersKept
<1>1. TypeOK /\ QueueInv
  BY Zenon DEF IInv
<1>2. /\ worker \in [Stages -> Workers]
      /\ \A s \in Stages : Len(worker[s].batch) <= MaxBatch
  BY Zenon, <1>1, Types
<1> QED
  BY Zenon, <1>1, <1>2 DEF WorkersKept, QueueInv

(* A step that puts nothing on an input queue.                             *)
LEMMA SameInputs ==
  ASSUME IInv, inQ' = inQ, pc \notin {"joining", "closed"} \/ pc' \in {"joining", "closed"}
  PROVE  InKept
<1>1. inQ \in [Stages -> Seq(Messages)] /\ \A s \in Stages : InQOK(s, inQ[s], pc)
  BY Zenon, Types DEF IInv, QueueInv
<1> QED
  BY Zenon, <1>1, NoShutdownYet DEF InKept

(* A step that takes nothing off an output queue.                          *)
LEMMA SameOutputs ==
  ASSUME IInv, outQ' = outQ
  PROVE  OutKept /\ SegsKept(segs)
<1>1. outQ \in [Stages -> Seq(Replies)] /\ SegInv /\ \A s \in Stages : OutQOK(s, outQ[s])
  BY Zenon, Types DEF IInv, QueueInv
<1> QED
  BY Zenon, <1>1, SegsAre DEF OutKept, SegsKept

(* A step of the orchestrator that moves no request and yields nothing.    *)
LEMMA QuietKeeps ==
  ASSUME IInv, InKept, OutKept, WorkersKept, SegsKept(segs'), CountInv',
         pc' \in {"poll", "closing", "joining", "closed"}, pos' \in Stages,
         outputs' \in [Stages -> 0..N], faults' \in 0..MaxFaults,
         stuck' \subseteq Requests, cut' \in BOOLEAN, UNCHANGED <<completed, yielded, cur>>
  PROVE  IInv'
<1>1. TypeOK /\ ChainInv /\ YieldInv /\ SegInv /\ segs \subseteq Segments
  BY Zenon, Types DEF IInv
<1>2. worker' \in [Stages -> Workers] /\ \A s \in Stages : Len(worker'[s].batch) <= MaxBatch
  BY Zenon DEF WorkersKept
<1>3. TypeOK'
  <2>1. segs' \subseteq Segments
    BY Zenon, <1>1 DEF SegsKept
  <2>2. inQ' \in [Stages -> Seq(Messages)] /\ outQ' \in [Stages -> Seq(Replies)]
    BY Zenon DEF InKept, OutKept
  <2> QED
    BY Zenon, <2>1, <2>2, <1>1, <1>2 DEF TypeOK, Replies, ReplyKinds, Workers, WorkerStates
<1>4. QueueInv'
  BY Zenon DEF QueueInv, InKept, OutKept, WorkersKept
<1>5. ChainInv'
  <2>1. Adds(0, 0, {})
    BY Zenon DEF Adds, InKept, OutKept, WorkersKept
  <2>2. \A a \in Where' : a \in Where \/ (a[1] = 0 /\ a[2] = 0 /\ a[3] \in {})
    BY <2>1, Constants, StepPlaces
  <2>3. Where' \subseteq Where
    BY Zenon, <2>2
  <2> QED
    BY Zenon, <2>3, <1>1, StayedOn
<1>6. YieldInv'
  BY Zenon, <1>1 DEF YieldInv, PromptOrder, HasYielded, OnRoute
<1>7. SegInv'
  <2>1. \A s \in Stages, r \in Requests : Unread(s, r) => Unread(s, r)'
    BY Zenon DEF Unread, InKept, WorkersKept
  <2>2. segs' \subseteq segs /\ segs' \subseteq Segments
    BY Zenon, <1>1 DEF SegsKept
  <2>3. \A s \in Stages, r \in Requests :
          /\ <<"in", s, r>> \in segs' => r \in Large /\ s > 0 /\ Unread(s, r)'
          /\ <<"out", s, r>> \in segs' => r \in Large
    BY Zenon, <2>1, <2>2, <1>1, SegsAre
  <2>4. \A s \in Stages, r \in Requests : <<"out", s, r>> \in segs' => HasResult(outQ'[s], r)
    BY Zenon DEF SegsKept
  <2> QED
    BY Zenon, <2>2, <2>3, <2>4, SegsWillBe
<1> QED
  BY Zenon, <1>3, <1>4, <1>5, <1>6, <1>7 DEF IInv

(* The for loop stays within the stages.                                   *)
LEMMA LoopGoesOn ==
  ASSUME pos \in Stages, NEW done, NextStage(done)
  PROVE  pos' \in Stages /\ pc' \in {"poll", "closing"} /\ (pc' = "closing" => done = N)
<1>1. NumStages \in Nat /\ NumStages > 0 /\ pos \in Nat
  BY Zenon, Constants
<1>2. (pos + 1) % NumStages \in 0..(NumStages - 1)
  BY <1>1
<1> QED
  BY Zenon, <1>2 DEF NextStage, Stages

(* A step that completes no request.                                       *)
LEMMA SameCount ==
  ASSUME CountInv, Done' = Done, completed' = completed, cut => cut',
         pc' \in {"closing", "joining", "closed"} /\ ~cut' =>
           completed = N \/ pc \in {"closing", "joining", "closed"}
  PROVE  CountInv'
BY Zenon DEF CountInv

(* try_collect() found nothing at this stage.                              *)
LEMMA PollNothingKeeps ==
  ASSUME IInv, PollNothing
  PROVE  IInv'
<1>1. TypeOK /\ CountInv
  BY Zenon DEF IInv
<1>2. /\ pc = "poll" /\ NextStage(completed)
      /\ UNCHANGED <<cur, completed, outputs, yielded, cut, inQ, outQ, worker, segs,
                     faults, stuck>>
  BY Zenon DEF PollNothing
<1>3. pos' \in Stages /\ pc' \in {"poll", "closing"} /\ (pc' = "closing" => completed = N)
  BY Zenon, <1>1, <1>2, LoopGoesOn DEF TypeOK
<1>4. CountInv'
  <2>1. Done' = Done
    BY Zenon, <1>2, <1>3 DEF Done, HasYielded
  <2> QED
    BY Zenon, <2>1, <1>1, <1>2, <1>3, SameCount
<1>5. InKept /\ OutKept /\ WorkersKept /\ SegsKept(segs')
  BY Zenon, <1>2, <1>3, SameInputs, SameOutputs, SameWorkers
<1>6. /\ outputs' \in [Stages -> 0..N] /\ faults' \in 0..MaxFaults
      /\ stuck' \subseteq Requests /\ cut' \in BOOLEAN
  BY Zenon, <1>1, <1>2 DEF TypeOK
<1> QED
  BY Zenon, <1>2, <1>3, <1>4, <1>5, <1>6, QuietKeeps

(* close() is done.                                                        *)
LEMMA ReturnKeeps ==
  ASSUME IInv, Return
  PROVE  IInv'
<1>1. TypeOK /\ CountInv
  BY Zenon DEF IInv
<1>2. /\ pc = "joining" /\ pc' = "closed"
      /\ UNCHANGED <<pos, cur, completed, outputs, yielded, cut, inQ, outQ, worker,
                     segs, faults, stuck>>
  BY Zenon DEF Return
<1>3. CountInv'
  <2>1. Done' = Done
    BY Zenon, <1>2 DEF Done, HasYielded
  <2> QED
    BY Zenon, <2>1, <1>1, <1>2, SameCount
<1>4. InKept /\ OutKept /\ WorkersKept /\ SegsKept(segs')
  BY Zenon, <1>2, SameInputs, SameOutputs, SameWorkers
<1>5. /\ outputs' \in [Stages -> 0..N] /\ faults' \in 0..MaxFaults
      /\ stuck' \subseteq Requests /\ cut' \in BOOLEAN /\ pos' \in Stages
  BY Zenon, <1>1, <1>2 DEF TypeOK
<1> QED
  BY Zenon, <1>2, <1>3, <1>4, <1>5, QuietKeeps

(* Two shutdown tasks for every stage.                                     *)
LEMMA SendShutdownKeeps ==
  ASSUME IInv, SendShutdown
  PROVE  IInv'
<1>1. TypeOK /\ CountInv /\ QueueInv
  BY Zenon DEF IInv
<1>2. /\ pc = "closing" /\ pc' = "joining"
      /\ inQ' = [s \in Stages |-> inQ[s] \o <<Shutdown, Shutdown>>]
      /\ UNCHANGED <<pos, cur, completed, outputs, yielded, cut, outQ, worker, segs,
                     faults, stuck>>
  BY Zenon DEF SendShutdown
<1>3. CountInv'
  <2>1. Done' = Done
    BY Zenon, <1>2 DEF Done, HasYielded
  <2> QED
    BY Zenon, <2>1, <1>1, <1>2, SameCount
<1>4. InKept
  <2>1. ASSUME NEW s \in Stages
        PROVE  /\ inQ'[s] \in Seq(Messages) /\ InQOK(s, inQ'[s], pc')
               /\ \A r \in Requests : HasReq(inQ'[s], r) <=> HasReq(inQ[s], r)
    <3> DEFINE p == Append(inQ[s], Shutdown)
    <3>1. inQ[s] \in Seq(Messages) /\ InQOK(s, inQ[s], pc) /\ Shutdown \in Messages
      BY <1>1, Types, MessageTypes DEF QueueInv
    <3>2. /\ p \in Seq(Messages) /\ InQOK(s, p, "joining")
          /\ \A r \in Requests : HasReq(p, r) <=> HasReq(inQ[s], r)
      BY Zenon, <3>1, QueueShutdown
    <3>3. inQ'[s] = Append(p, Shutdown)
      BY <3>1, <1>2
    <3> HIDE DEF p
    <3>4. /\ Append(p, Shutdown) \in Seq(Messages) /\ InQOK(s, Append(p, Shutdown), "joining")
          /\ \A r \in Requests : HasReq(Append(p, Shutdown), r) <=> HasReq(p, r)
      BY Zenon, <3>2, QueueShutdown
    <3> QED
      BY Zenon, <3>2, <3>3, <3>4, <1>2
  <2>2. inQ' \in [Stages -> Seq(Messages)]
    <3> DEFINE f(s) == inQ[s] \o <<Shutdown, Shutdown>>
    <3>1. inQ' = [s \in Stages |-> f(s)]
      BY Zenon, <1>2
    <3>2. \A s \in Stages : f(s) \in Seq(Messages)
      BY Zenon, <3>1, <2>1
    <3> HIDE DEF f
    <3> QED
      BY Zenon, <3>1, <3>2
  <2> QED
    BY Zenon, <2>1, <2>2 DEF InKept
<1>5. OutKept /\ WorkersKept /\ SegsKept(segs')
  BY Zenon, <1>2, SameOutputs, SameWorkers
<1>6. /\ outputs' \in [Stages -> 0..N] /\ faults' \in 0..MaxFaults
      /\ stuck' \subseteq Requests /\ cut' \in BOOLEAN /\ pos' \in Stages
  BY Zenon, <1>1, <1>2 DEF TypeOK
<1> QED
  BY Zenon, <1>2, <1>3, <1>4, <1>5, <1>6, QuietKeeps

(* A terminated worker keeps its batch for ever.                           *)
LEMMA TerminateKeeps ==
  ASSUME IInv, NEW s \in Stages, Terminate(s)
  PROVE  IInv'
<1> DEFINE w == [worker[s] EXCEPT !.pc = "gone"]
<1>1. TypeOK /\ CountInv /\ QueueInv
  BY Zenon DEF IInv
<1>2. /\ pc = "joining" /\ worker' = [worker EXCEPT ![s] = w]
      /\ UNCHANGED <<pc, pos, cur, completed, outputs, yielded, cut>>
      /\ UNCHANGED <<inQ, outQ, segs, faults, stuck>>
  BY Zenon DEF Terminate, orchestrator
<1>3. CountInv'
  <2>1. Done' = Done
    BY Zenon, <1>2 DEF Done, HasYielded
  <2> QED
    BY Zenon, <2>1, <1>1, <1>2, SameCount
<1>4. /\ worker \in [Stages -> Workers] /\ worker[s] \in Workers
      /\ \A t \in Stages : Len(worker[t].batch) <= MaxBatch
  BY Zenon, <1>1, Types
<1>5. /\ w \in Workers /\ w.pc = "gone" /\ w.batch = worker[s].batch
      /\ w.sent = worker[s].sent
      /\ \A r \in Requests : HasTask(w, r) <=> HasTask(worker[s], r)
  BY <1>4, WorkerPc DEF WorkerStates
<1>6. BatchOK(s, w)
  BY Zenon, <1>1, <1>5 DEF BatchOK, QueueInv
<1> HIDE DEF w
<1>7. /\ worker' \in [Stages -> Workers] /\ worker'[s] = w
      /\ \A t \in Stages : t # s => worker'[t] = worker[t]
  BY Zenon, <1>2, <1>4, <1>5, Updated
<1>8. WorkersKept
  <2>1. \A t \in Stages : BatchOK(t, worker'[t])
    BY Zenon, <1>1, <1>6, <1>7 DEF QueueInv
  <2>2. \A t \in Stages : worker'[t].pc = "running" => worker[t].pc = "running"
    BY Zenon, <1>5, <1>7
  <2>3. \A t \in Stages : worker'[t].batch = worker[t].batch
    BY Zenon, <1>5, <1>7
  <2>4. \A t \in Stages : \A r \in Requests : HasTask(worker'[t], r) <=> HasTask(worker[t], r)
    BY Zenon, <1>5, <1>7
  <2> QED
    BY Zenon, <2>1, <2>2, <2>3, <2>4, <1>4, <1>7 DEF WorkersKept
<1>9. InKept /\ OutKept /\ SegsKept(segs')
  BY Zenon, <1>2, SameInputs, SameOutputs
<1>10. /\ outputs' \in [Stages -> 0..N] /\ faults' \in 0..MaxFaults
       /\ stuck' \subseteq Requests /\ cut' \in BOOLEAN /\ pos' \in Stages
  BY Zenon, <1>1, <1>2 DEF TypeOK
<1> QED
  BY Zenon, <1>2, <1>3, <1>8, <1>9, <1>10, QuietKeeps

(* The orchestrator takes a reply off the queue of the stage it is at.     *)
LEMMA Collected ==
  ASSUME IInv, NEW kinds, Collect(kinds)
  PROVE  /\ pc = "poll" /\ Head(outQ[pos]) \in Replies /\ OutMsg(pos, Head(outQ[pos]))
         /\ Head(outQ[pos]).kind \in kinds
         /\ OutKept /\ worker \in [Stages -> Workers]
         /\ Head(outQ[pos]).kind = "ok" =>
              /\ HasResult(outQ[pos], Head(outQ[pos]).msg.req)
              /\ \A r \in Requests : HasResult(outQ'[pos], r) => Head(outQ[pos]).msg.req < r
         /\ \A s \in Stages, r \in Requests : HasResult(outQ[s], r) =>
              \/ HasResult(outQ'[s], r)
              \/ s = pos /\ Head(outQ[pos]).kind = "ok" /\ r = Head(outQ[pos]).msg.req
<1>1. /\ TypeOK /\ pos \in Stages /\ outQ \in [Stages -> Seq(Replies)]
      /\ worker \in [Stages -> Workers] /\ outQ[pos] \in Seq(Replies)
      /\ \A s \in Stages : OutQOK(s, outQ[s])
  BY Zenon, Types DEF IInv, QueueInv
<1>2. /\ pc = "poll" /\ outQ[pos] # <<>> /\ Head(outQ[pos]).kind \in kinds
      /\ outQ' = [outQ EXCEPT ![pos] = Tail(outQ[pos])]
  BY Zenon DEF Collect
<1>3. /\ Head(outQ[pos]) \in Replies /\ Tail(outQ[pos]) \in Seq(Replies)
      /\ OutQOK(pos, Tail(outQ[pos])) /\ OutMsg(pos, Head(outQ[pos]))
      /\ \A r \in Requests : HasResult(Tail(outQ[pos]), r) => HasResult(outQ[pos], r)
      /\ Head(outQ[pos]).kind = "ok" =>
           /\ HasResult(outQ[pos], Head(outQ[pos]).msg.req)
           /\ \A r \in Requests : HasResult(Tail(outQ[pos]), r) => Head(outQ[pos]).msg.req < r
      /\ \A r \in Requests : HasResult(outQ[pos], r) =>
           \/ HasResult(Tail(outQ[pos]), r)
           \/ Head(outQ[pos]).kind = "ok" /\ r = Head(outQ[pos]).msg.req
  BY Zenon, <1>1, <1>2, RepliesTail
<1>4. /\ outQ' \in [Stages -> Seq(Replies)] /\ outQ'[pos] = Tail(outQ[pos])
      /\ \A t \in Stages : t # pos => outQ'[t] = outQ[t]
  BY Zenon, <1>1, <1>2, <1>3, Updated
<1>5. OutKept
  BY Zenon, <1>1, <1>3, <1>4 DEF OutKept
<1> QED
  BY Zenon, <1>1, <1>2, <1>3, <1>4, <1>5

(* An error or a late stage_ready: logged, and the next stage is polled.   *)
LEMMA PassOverKeeps ==
  ASSUME IInv, PassOver
  PROVE  IInv'
<1> DEFINE h == Head(outQ[pos])
<1>1. TypeOK /\ CountInv /\ SegInv
  BY Zenon DEF IInv
<1>2. /\ Collect({"error", "ready"}) /\ NextStage(completed)
      /\ UNCHANGED <<cur, completed, outputs, yielded, cut, inQ, worker, segs, faults,
                     stuck>>
  BY Zenon DEF PassOver
<1>3. /\ pc = "poll" /\ OutMsg(pos, h) /\ h.kind \in {"error", "ready"} /\ OutKept
      /\ \A s \in Stages, r \in Requests : HasResult(outQ[s], r) =>
           HasResult(outQ'[s], r) \/ (s = pos /\ h.kind = "ok" /\ r = h.msg.req)
  BY Zenon, <1>2, Collected
<1> HIDE DEF h
<1>4. pos' \in Stages /\ pc' \in {"poll", "closing"} /\ (pc' = "closing" => completed = N)
  BY Zenon, <1>1, <1>2, LoopGoesOn DEF TypeOK
<1>5. CountInv'
  <2>1. Done' = Done
    BY Zenon, <1>2, <1>3, <1>4 DEF Done, HasYielded
  <2> QED
    BY Zenon, <2>1, <1>1, <1>2, <1>3, <1>4, SameCount
<1>6. SegsKept(segs')
  <2>1. \A s \in Stages, r \in Requests : <<"out", s, r>> \in segs => HasResult(outQ[s], r)
    BY Zenon, <1>1, SegsAre
  <2> QED
    BY Zenon, <2>1, <1>2, <1>3 DEF SegsKept
<1>7. InKept /\ WorkersKept
  BY Zenon, <1>2, <1>3, <1>4, SameInputs, SameWorkers
<1>8. /\ outputs' \in [Stages -> 0..N] /\ faults' \in 0..MaxFaults
      /\ stuck' \subseteq Requests /\ cut' \in BOOLEAN
  BY Zenon, <1>1, <1>2 DEF TypeOK
<1> QED
  BY Zenon, <1>2, <1>3, <1>4, <1>5, <1>6, <1>7, <1>8, QuietKeeps

(* The final stage of a request is a stage with output of its own.         *)
LEMMA FinalStages ==
  ASSUME NEW r \in Requests
  PROVE  FinalStage(r) \in Stages /\ FinalStage(r) \in Nat /\ FinalOutput(FinalStage(r))
<1>1. FinalStage(r) \in {0, LastStage}
  BY Zenon DEF FinalStage
<1> QED
  BY Zenon, <1>1, Constants DEF FinalOutput

(* try_send_via_connector's message to stage t: the task of its request,   *)
(* whose only segment, when there is one, is that request's input at t.    *)
LEMMA PackedInput ==
  ASSUME NEW t \in Stages, t > 0, NEW r \in Requests, NEW m, m = Packed("in", t, r, r)
  PROVE  /\ m \in Messages /\ m.req = r /\ InMsg(t, m) /\ SegsOf(m) \subseteq Segments
         /\ \A s \in Stages, x \in Requests :
              /\ <<"in", s, x>> \in SegsOf(m) => r \in Large /\ s = t /\ x = r
              /\ <<"out", s, x>> \notin SegsOf(m)
<1> DEFINE in == <<"in", t, r>>
<1>1. /\ m \in Messages /\ m.req = r /\ m.data = r
      /\ r \in Large => m.seg = in /\ SegsOf(m) = {in}
      /\ r \notin Large => m.seg = <<>> /\ SegsOf(m) = {}
  BY PackedMessage
<1>2. InMsg(t, m)
  BY <1>1 DEF InMsg
<1>3. \A s \in Stages, x \in Requests :
        (<<"in", s, x>> = in => s = t /\ x = r) /\ <<"out", s, x>> # in
  BY Zenon
<1>4. SegsOf(m) \subseteq Segments
  BY Zenon, <1>1 DEF SegsOf, Messages
<1> HIDE DEF in
<1> QED
  BY Zenon, <1>1, <1>2, <1>3, <1>4

(* A request goes from the output queue (2) or the yield (3) of the stage  *)
(* the loop is at to the input queue of the next.                          *)
Forwards(k, r, m, G) ==
  /\ <<pos, k, r>> \in Where /\ pos < FinalStage(r) /\ HasYielded(yielded, r, 0)
  /\ pc = (IF k = 2 THEN "poll" ELSE "yield") /\ pc' \in {"poll", "closing"}
  /\ OutKept /\ (k = 2 => \A x \in Requests : HasResult(outQ'[pos], x) => r < x)
  /\ m = Packed("in", pos + 1, r, r)
  /\ inQ' = [inQ EXCEPT ![pos + 1] = Append(inQ[pos + 1], m)]
  /\ SegsKept(G) /\ segs' = G \cup SegsOf(m)
  /\ worker' = worker /\ pos' \in Stages /\ outputs' \in [Stages -> 0..N] /\ CountInv'
  /\ UNCHANGED <<cur, yielded, completed, faults, stuck, cut>>

LEMMA ForwardedKeeps ==
  ASSUME IInv, NEW k \in {2, 3}, NEW r \in Requests, NEW m, NEW G,
         Forwards(k, r, m, G)
  PROVE  IInv'
<1> DEFINE t == pos + 1
           q == Append(inQ[t], m)
<1>1. /\ TypeOK /\ QueueInv /\ ChainInv /\ YieldInv /\ SegInv /\ WorkersKept
  BY Zenon, SameWorkers DEF IInv, Forwards
<1>2. /\ inQ \in [Stages -> Seq(Messages)] /\ worker \in [Stages -> Workers]
      /\ \A s \in Stages : inQ[s] \in Seq(Messages)
      /\ pos \in Stages /\ pos \in Nat /\ segs \subseteq Segments
  BY Zenon, <1>1, Types, Constants
<1>3. t \in Stages /\ t \in Nat /\ t > 0 /\ t > pos /\ t <= FinalStage(r)
  <2>1. FinalStage(r) \in Nat /\ FinalStage(r) <= NumStages - 1
    BY FinalStages DEF Stages
  <2>2. NumStages \in Nat
    BY Zenon, Constants
  <2>3. t \in Nat /\ t > 0 /\ t > pos /\ t <= FinalStage(r) /\ t <= NumStages - 1
    BY <2>1, <2>2, <1>2 DEF Forwards
  <2> QED
    BY <2>2, <2>3 DEF Stages
<1>4. pc \notin {"joining", "closed"} /\ pc # "closing"
  BY Zenon DEF Forwards
<1>5. /\ m \in Messages /\ m.req = r /\ InMsg(t, m) /\ SegsOf(m) \subseteq Segments
      /\ \A s \in Stages, x \in Requests :
           /\ <<"in", s, x>> \in SegsOf(m) => r \in Large /\ s = t /\ x = r
           /\ <<"out", s, x>> \notin SegsOf(m)
  <2>1. m = Packed("in", t, r, r)
    BY Zenon DEF Forwards
  <2> QED
    BY <2>1, <1>3, PackedInput
<1>6. inQ[t] \in Seq(Messages) /\ InQOK(t, inQ[t], pc)
  BY Zenon, <1>1, <1>2, <1>3 DEF QueueInv
<1>7. \A i \in 1..Len(inQ[t]) : inQ[t][i].req # 0 /\ inQ[t][i].req < m.req
  <2> SUFFICES ASSUME NEW i \in 1..Len(inQ[t])
               PROVE  inQ[t][i].req # 0 /\ inQ[t][i].req < r
    BY Zenon, <1>5
  <2> DEFINE x == inQ[t][i].req
  <2>2. x \in Requests
    BY Zenon, <1>4, <1>6 DEF InQOK, InMsg
  <2>3. HasReq(inQ[t], x)
    BY Zenon DEF HasReq
  <2> HIDE DEF x
  <2>4. <<t, 0, x>> \in Where
    BY Zenon, <2>2, <2>3, <1>3, WhereIs
  <2>5. 0 \in 0..3 /\ k \in 0..3
    OBVIOUS
  <2>6. x < r
    BY <2>2, <2>4, <2>5, <1>1, <1>2, <1>3, Earlier, Zenon DEF Forwards
  <2> QED
    BY Zenon, <2>2, <2>6, Constants DEF x
<1>8. /\ q \in Seq(Messages) /\ InQOK(t, q, pc)
      /\ \A x \in Requests : HasReq(q, x) <=> HasReq(inQ[t], x) \/ x = r
  <2>1. m \in Messages /\ InMsg(t, m) /\ m.req = r
    BY Zenon, <1>5
  <2>2. t \in Stages
    BY Zenon, <1>3
  <2>3. /\ q \in Seq(Messages) /\ InQOK(t, q, pc)
        /\ \A x \in Requests : HasReq(q, x) <=> HasReq(inQ[t], x) \/ x = m.req
    BY <2>1, <2>2, <1>6, <1>7, QueueAppend
  <2> HIDE DEF q
  <2> QED
    BY Zenon, <2>1, <2>3
<1>9. inQ' = [inQ EXCEPT ![t] = q]
  BY Zenon DEF Forwards
<1> HIDE DEF t, q
<1>10. /\ inQ' \in [Stages -> Seq(Messages)] /\ inQ'[t] = q
       /\ \A s \in Stages : s # t => inQ'[s] = inQ[s]
  BY Zenon, <1>2, <1>3, <1>8, <1>9
<1>11. segs' \subseteq Segments
  BY Zenon, <1>2, <1>5 DEF SegsKept, Forwards
<1>12. TypeOK'
  <2>1. outQ' \in [Stages -> Seq(Replies)]
    BY Zenon DEF OutKept, Forwards
  <2> QED
    BY Zenon, <2>1, <1>1, <1>10, <1>11 DEF TypeOK, Replies, ReplyKinds, Workers, WorkerStates, Forwards
<1>13. QueueInv'
  <2>1. ASSUME NEW s \in Stages
        PROVE  InQOK(s, inQ'[s], pc')
    <3>1. InQOK(s, inQ'[s], pc)
      BY Zenon, <1>1, <1>8, <1>10 DEF QueueInv
    <3> QED
      BY Zenon, <3>1, <1>4, NoShutdownYet
  <2>2. \A s \in Stages : OutQOK(s, outQ'[s])
    BY Zenon DEF OutKept, Forwards
  <2>3. \A s \in Stages : BatchOK(s, worker'[s])
    BY Zenon, <1>1 DEF QueueInv, Forwards
  <2> QED
    BY Zenon, <2>1, <2>2, <2>3 DEF QueueInv
<1>14. YieldInv'
  BY Zenon, <1>1 DEF YieldInv, PromptOrder, HasYielded, OnRoute, Forwards
<1>15. \A a \in Where' : a \in Where \/ (a[1] = t /\ a[2] = 0 /\ a[3] \in {r})
  <2>1. \A s \in Stages, x \in Requests :
          HasReq(inQ'[s], x) => HasReq(inQ[s], x) \/ (s = t /\ x \in {r})
    BY Zenon, <1>8, <1>10
  <2>2. \A s \in Stages, x \in Requests : HasResult(outQ'[s], x) => HasResult(outQ[s], x)
    BY Zenon DEF OutKept, Forwards
  <2>3. Adds(t, 0, {r})
    BY <2>1, <2>2 DEF Adds, Forwards
  <2> QED
    BY <2>3, <1>3, StepPlaces
<1>16. ChainInv'
  <2>1. \A a \in Where' : a[1] = pos /\ a[2] = k => \A x \in {r} : x < a[3]
    <3> SUFFICES ASSUME NEW a \in Where', a[1] = pos, a[2] = k
                 PROVE  r < a[3]
      BY Zenon
    <3>1. a[3] \in Requests /\ a = <<pos, k, a[3]>>
      <4>1. a \in Places
        BY Zenon DEF Where
      <4> QED
        BY Zenon, <4>1, PlaceTypes
    <3>2. <<pos, k, a[3]>> \in Where'
      BY Zenon, <3>1
    <3>3. CASE k = 2
      <4>1. <<pos, 2, a[3]>> \in Where'
        BY Zenon, <3>2, <3>3
      <4>2. HasResult(outQ'[pos], a[3])
        BY Zenon, <4>1, <3>1, <1>2, WhereWillBe
      <4> QED
        BY <4>2, <3>1, <3>3 DEF Forwards
    <3>4. CASE k = 3
      <4>1. <<pos, 3, a[3]>> \in Where'
        BY Zenon, <3>2, <3>4
      <4>2. pc' = "yield"
        BY Zenon, <4>1, <3>1, <1>2, WhereWillBe
      <4> QED
        BY Zenon, <4>2 DEF Forwards
    <3> QED
      BY Zenon, <3>3, <3>4
  <2>2. \A a \in Where : ~((a[1] > pos \/ (a[1] = pos /\ a[2] > k))
                           /\ (a[1] < t \/ (a[1] = t /\ a[2] < 0)))
    <3> SUFFICES ASSUME NEW a \in Where, a[1] > pos \/ (a[1] = pos /\ a[2] > k),
                        a[1] < t \/ (a[1] = t /\ a[2] < 0)
                 PROVE  FALSE
      BY Zenon
    <3>1. a[1] \in Nat /\ a[2] \in 0..3 /\ a[3] \in Requests /\ a = <<a[1], a[2], a[3]>>
      <4>1. a \in Places
        BY Zenon DEF Where
      <4> QED
        BY Zenon, <4>1, PlaceTypes
    <3>2. a[1] = pos /\ a[2] > k
      BY <3>1, <1>2, <1>3 DEF t
    <3>3. k = 2 /\ a[2] = 3
      BY <3>1, <3>2
    <3>4. <<pos, 3, a[3]>> \in Where
      BY Zenon, <3>1, <3>2, <3>3
    <3>5. pc = "yield"
      BY Zenon, <3>1, <3>4, <1>2, WhereIs
    <3> QED
      BY Zenon, <3>3, <3>5 DEF Forwards
  <2>3. Moves(Where, Where', pos, k, t, 0, {r})
    BY Zenon, <2>1, <2>2, <1>3, <1>15 DEF Moves, Forwards
  <2>4. \A x \in {r} : OnRoute(yielded, t, x)
    BY Zenon, <1>3 DEF OnRoute, Forwards
  <2>5. k \in 0..3 /\ 0 \in 0..3 /\ {r} \in SUBSET Requests
    OBVIOUS
  <2> QED
    BY Zenon, <2>3, <2>4, <2>5, <1>1, <1>2, <1>3, MovedOn DEF Forwards
<1>17. ASSUME NEW s \in Stages, NEW x \in Requests, <<"in", s, x>> \in segs'
       PROVE  x \in Large /\ s > 0 /\ Unread(s, x)'
  <2>1. CASE <<"in", s, x>> \in segs
    <3>1. x \in Large /\ s > 0 /\ Unread(s, x)
      BY Zenon, <2>1, <1>1, SegsAre
    <3> QED
      BY Zenon, <3>1, <1>8, <1>10 DEF Unread, Forwards
  <2>2. CASE <<"in", s, x>> \in SegsOf(m)
    <3>1. r \in Large /\ s = t /\ x = r
      BY Zenon, <2>2, <1>5
    <3> QED
      BY Zenon, <3>1, <1>3, <1>8, <1>10 DEF Unread
  <2> QED
    BY <2>1, <2>2, <1>17 DEF SegsKept, Forwards
<1>18. ASSUME NEW s \in Stages, NEW x \in Requests, <<"out", s, x>> \in segs'
       PROVE  x \in Large /\ HasResult(outQ'[s], x)
  <2>1. <<"out", s, x>> \notin SegsOf(m)
    BY Zenon, <1>5
  <2>2. <<"out", s, x>> \in G /\ <<"out", s, x>> \in segs
    BY Zenon, <2>1, <1>18 DEF SegsKept, Forwards
  <2> QED
    BY Zenon, <2>2, <1>1, SegsAre DEF SegsKept, Forwards
<1>19. SegInv'
  BY Zenon, <1>11, <1>17, <1>18, SegsWillBe
<1> QED
  BY Zenon, <1>12, <1>13, <1>14, <1>16, <1>19 DEF IInv, Forwards
=============================================================================
