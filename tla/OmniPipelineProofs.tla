------------------------ MODULE OmniPipelineProofs ------------------------
(***************************************************************************)
(* Proofs about OmniPipeline, for every number of prompts, stages, batch   *)
(* size and fault: every output belongs to its prompt, the outputs of a    *)
(* stage come in the order of the prompts, and a call that ends by itself  *)
(* has returned every output once and left no shared-memory segment.       *)
(***************************************************************************)
EXTENDS OmniPipelineLemmas, FiniteSetTheorems

(* Requests are counted once.                                              *)
LEMMA RequestsFinite ==
  /\ IsFiniteSet(Requests) /\ Cardinality(Requests) = N
  /\ \A D \in SUBSET Requests :
       /\ IsFiniteSet(D) /\ Cardinality(D) \in Nat /\ Cardinality(D) <= N
       /\ Cardinality(D) = N => D = Requests
<1>1. IsFiniteSet(Requests) /\ Cardinality(Requests) = N
  BY Constants, FS_Interval DEF Requests
<1>2. ASSUME NEW D \in SUBSET Requests
      PROVE  /\ IsFiniteSet(D) /\ Cardinality(D) \in Nat /\ Cardinality(D) <= N
             /\ Cardinality(D) = N => D = Requests
  BY Zenon, <1>1, FS_Subset, FS_CardinalityType
<1> QED
  BY Zenon, <1>1, <1>2

(* The caller stops: the request at the yield may count as done, but the   *)
(* call is cut.                                                            *)
LEMMA AbandonKeeps ==
  ASSUME IInv, Abandon
  PROVE  IInv'
<1>1. TypeOK /\ CountInv
  BY Zenon DEF IInv
<1>2. /\ pc = "yield" /\ pc' = "closing" /\ cut' = TRUE
      /\ UNCHANGED <<pos, cur, completed, outputs, yielded, inQ, outQ, worker, segs,
                     faults, stuck>>
  BY Zenon DEF Abandon
<1>3. CountInv'
  <2>1. Done \subseteq Done' /\ Done \in SUBSET Requests /\ Done' \in SUBSET Requests
    BY Zenon, <1>2 DEF Done, HasYielded
  <2>2. Cardinality(Done) <= Cardinality(Done')
    BY Zenon, <2>1, RequestsFinite, FS_Subset
  <2>3. Cardinality(Done) \in Nat /\ Cardinality(Done') \in Nat /\ completed \in Nat
    <3>1. completed \in Nat
      BY <1>1, Constants DEF TypeOK
    <3> QED
      BY Zenon, <3>1, <2>1, RequestsFinite
  <2>4. completed' <= Cardinality(Done')
    BY <2>2, <2>3, <1>1, <1>2 DEF CountInv
  <2> QED
    BY Zenon, <2>4, <1>2 DEF CountInv
<1>4. InKept /\ OutKept /\ WorkersKept /\ SegsKept(segs')
  BY Zenon, <1>2, SameInputs, SameOutputs, SameWorkers
<1>5. /\ outputs' \in [Stages -> 0..N] /\ faults' \in 0..MaxFaults
      /\ stuck' \subseteq Requests /\ cut' \in BOOLEAN /\ pos' \in Stages
  BY Zenon, <1>1, <1>2 DEF TypeOK
<1> QED
  BY Zenon, <1>2, <1>3, <1>4, <1>5, QuietKeeps

(* A request on its way has not had its final output.                      *)
LEMMA NotYetFinal ==
  ASSUME IInv, NEW s \in Stages, NEW k \in 0..3, NEW r \in Requests,
         <<s, k, r>> \in Where, s < FinalStage(r) \/ (s = FinalStage(r) /\ k < 3)
  PROVE  ~HasYielded(yielded, r, FinalStage(r))
<1> DEFINE a == <<s, k, r>>
<1>1. a \in Where /\ a[1] = s /\ a[2] = k /\ a[3] = r
  BY Zenon
<1> HIDE DEF a
<1>2. YieldedFirst(yielded, Where)
  BY Zenon DEF IInv, ChainInv
<1>3. SUFFICES ASSUME HasYielded(yielded, r, FinalStage(r))
               PROVE  FALSE
  BY Zenon
<1>4. PICK i \in 1..Len(yielded) : yielded[i].req = r /\ yielded[i].stage = FinalStage(r)
  BY Zenon, <1>3 DEF HasYielded
<1>5. r < r
  BY Zenon, <1>1, <1>2, <1>4 DEF YieldedFirst
<1> QED
  BY <1>5, Constants

(* And is before it.                                                       *)
LEMMA RouteAt ==
  ASSUME IInv, NEW s \in Stages, NEW k \in 0..3, NEW r \in Requests, <<s, k, r>> \in Where
  PROVE  s <= FinalStage(r) /\ (s > 0 => HasYielded(yielded, r, 0))
<1> DEFINE a == <<s, k, r>>
<1>1. a \in Where /\ a[1] = s /\ a[3] = r
  BY Zenon
<1> HIDE DEF a
<1> QED
  BY Zenon, <1>1 DEF IInv, ChainInv, OnRoute

(* The end of the iteration for a request that is not at its final stage.  *)
LEMMA NotFinishedKeeps ==
  ASSUME IInv, NEW k \in {2, 3}, NEW r \in Requests, <<pos, k, r>> \in Where,
         pc = (IF k = 2 THEN "poll" ELSE "yield"),
         ~Finished(r, pos), HasYielded(yielded, r, 0), OutKept,
         k = 2 => \A x \in Requests : HasResult(outQ'[pos], x) => r < x,
         NEW outs, outs[pos] = r, NEW G, SegsKept(G), ForwardOrFinish(r, outs, G),
         worker' = worker, outputs' \in [Stages -> 0..N], UNCHANGED <<cur, yielded>>
  PROVE  IInv'
<1> DEFINE m == Packed("in", pos + 1, r, outs[InputSource(pos + 1)])
<1>1. TypeOK /\ CountInv /\ WorkersKept /\ pos \in Stages /\ pos \in Nat
  BY Zenon, SameWorkers, Types, Constants DEF IInv
<1>2. pos < FinalStage(r)
  BY <1>1, FinalStages DEF Finished
<1>3. m = Packed("in", pos + 1, r, r)
  <2>1. InputSource(pos + 1) = pos
    BY <1>1 DEF InputSource
  <2> QED
    BY Zenon, <2>1
<1>4. ~HasYielded(yielded, r, FinalStage(r))
  BY <1>1, <1>2, NotYetFinal
<1>5. pc' # "yield" => Done' = Done
  <2>1. k = 3 => cur = r
    BY Zenon, <1>1, WhereIs
  <2>2. pc # "yield" \/ cur = r
    BY Zenon, <2>1
  <2> QED
    BY Zenon, <2>2, <1>4 DEF Done, HasYielded
<1>6. /\ faults \in 0..MaxFaults /\ faults \in Nat /\ MaxFaults \in Nat
      /\ stuck \subseteq Requests /\ cut \in BOOLEAN
  BY <1>1, Constants DEF TypeOK
<1>7. \/ /\ inQ' = [inQ EXCEPT ![pos + 1] = Append(inQ[pos + 1], m)]
         /\ segs' = G \cup SegsOf(m) /\ NextStage(completed)
         /\ UNCHANGED <<completed, faults, stuck, cut>>
      \/ /\ faults < MaxFaults /\ faults' = faults + 1 /\ stuck' = stuck \cup {r}
         /\ segs' = G /\ NextStage(completed) /\ UNCHANGED <<completed, inQ, cut>>
      \/ /\ faults < MaxFaults /\ faults' = faults + 1 /\ pc' = "closing" /\ cut' = TRUE
         /\ segs' = G /\ UNCHANGED <<completed, inQ, stuck, pos>>
  BY Zenon DEF ForwardOrFinish
<1> HIDE DEF m
<1>8. CASE /\ inQ' = [inQ EXCEPT ![pos + 1] = Append(inQ[pos + 1], m)]
           /\ segs' = G \cup SegsOf(m) /\ NextStage(completed)
           /\ UNCHANGED <<completed, faults, stuck, cut>>
  <2>1. pos' \in Stages /\ pc' \in {"poll", "closing"} /\ (pc' = "closing" => completed = N)
    BY Zenon, <1>1, <1>8, LoopGoesOn
  <2>2. CountInv'
    BY <2>1, <1>1, <1>5, <1>8, SameCount
  <2>3. Forwards(k, r, m, G)
    BY <2>1, <2>2, <1>2, <1>3, <1>8 DEF Forwards, m
  <2> QED
    BY Zenon, <2>3, ForwardedKeeps
<1>9. CASE /\ faults < MaxFaults /\ faults' = faults + 1 /\ stuck' = stuck \cup {r}
           /\ segs' = G /\ NextStage(completed) /\ UNCHANGED <<completed, inQ, cut>>
  <2>1. pos' \in Stages /\ pc' \in {"poll", "closing"} /\ (pc' = "closing" => completed = N)
    BY Zenon, <1>1, <1>9, LoopGoesOn
  <2>2. CountInv'
    BY <2>1, <1>1, <1>5, <1>9, SameCount
  <2>3. InKept /\ SegsKept(segs')
    BY <1>9, SameInputs
  <2>4. faults' \in 0..MaxFaults /\ stuck' \subseteq Requests /\ cut' \in BOOLEAN
    BY <1>6, <1>9
  <2> QED
    BY Zenon, <2>1, <2>2, <2>3, <2>4, <1>1, <1>9, QuietKeeps
<1>10. CASE /\ faults < MaxFaults /\ faults' = faults + 1 /\ pc' = "closing" /\ cut' = TRUE
            /\ segs' = G /\ UNCHANGED <<completed, inQ, stuck, pos>>
  <2>1. CountInv'
    BY <1>1, <1>5, <1>10, SameCount
  <2>2. InKept /\ SegsKept(segs')
    BY <1>10, SameInputs
  <2>3. faults' \in 0..MaxFaults /\ stuck' \subseteq Requests /\ cut' \in BOOLEAN
    BY <1>6, <1>10
  <2>4. pos' \in Stages
    BY Zenon, <1>1, <1>10
  <2> QED
    BY <2>1, <2>2, <2>3, <2>4, <1>1, <1>10, QuietKeeps
<1> QED
  BY Zenon, <1>7, <1>8, <1>9, <1>10

(* The payload of one result is read and unlinked.                         *)
LEMMA ResultUnlinked ==
  ASSUME IInv, Collect({"ok"})
  PROVE  LET h == Head(outQ[pos])
         IN  /\ Unlinked(<<h.msg>>) \subseteq segs
             /\ SegsKept(Unlinked(<<h.msg>>))
             /\ h.msg.req \in Requests /\ h.msg.data = h.msg.req
             /\ <<pos, 2, h.msg.req>> \in Where /\ pos \in Stages
             /\ \A x \in Requests : HasResult(outQ'[pos], x) => h.msg.req < x
<1> DEFINE h == Head(outQ[pos])
           x == h.msg.req
           G == Unlinked(<<h.msg>>)
<1>1. /\ OutMsg(pos, h) /\ h.kind = "ok" /\ h \in Replies
      /\ HasResult(outQ[pos], x)
      /\ \A r \in Requests : HasResult(outQ'[pos], r) => x < r
      /\ \A s \in Stages, r \in Requests : HasResult(outQ[s], r) =>
           HasResult(outQ'[s], r) \/ (s = pos /\ h.kind = "ok" /\ r = x)
  BY Collected
<1>2. pos \in Stages /\ SegInv
  BY Types DEF IInv
<1>3. /\ x \in Requests /\ h.msg.data = x
      /\ x \in Large => h.msg.seg = <<"out", pos, x>>
  BY Zenon, <1>1 DEF OutMsg
<1>4. G \subseteq segs /\ SegsOf(h.msg) \cap G = {}
  <2> HIDE DEF h
  <2>1. <<h.msg>>[1] = h.msg /\ 1 \in DOMAIN <<h.msg>>
    OBVIOUS
  <2> QED
    BY <2>1 DEF Unlinked
<1> HIDE DEF h, G, x
<1>5. <<pos, 2, x>> \in Where
  BY Zenon, <1>1, <1>2, <1>3, WhereIs
<1>6. SegsKept(G)
  <2> SUFFICES ASSUME NEW s \in Stages, NEW r \in Requests, <<"out", s, r>> \in G
               PROVE  HasResult(outQ'[s], r)
    BY <1>4 DEF SegsKept
  <2>1. r \in Large /\ HasResult(outQ[s], r)
    BY Zenon, <1>2, <1>4, SegsAre
  <2>2. ~(s = pos /\ r = x)
    <3> SUFFICES ASSUME s = pos, r = x
                 PROVE  FALSE
      BY Zenon
    <3>1. h.msg.seg = <<"out", s, r>>
      BY Zenon, <2>1, <1>3
    <3>2. <<"out", s, r>> # <<>>
      BY Zenon
    <3>3. <<"out", s, r>> \in SegsOf(h.msg)
      BY Zenon, <3>1, <3>2 DEF SegsOf
    <3> QED
      BY Zenon, <3>3, <1>4
  <2> QED
    BY Zenon, <2>1, <2>2, <1>1
<1> QED
  BY Zenon, <1>1, <1>2, <1>3, <1>4, <1>5, <1>6 DEF h, x, G

(* engine_outputs of the stage the loop is at.                             *)
LEMMA OutputSlot ==
  ASSUME IInv, NEW x \in Requests, outputs' = [outputs EXCEPT ![pos] = x]
  PROVE  outputs' \in [Stages -> 0..N] /\ outputs'[pos] = x
<1>1. outputs \in [Stages -> 0..N] /\ pos \in Stages
  BY Zenon DEF IInv, TypeOK
<1>2. x \in 0..N
  BY DEF Requests
<1> QED
  BY Zenon, <1>1, <1>2

(* The output of a stage that is not a final output goes on.               *)
LEMMA CollectInnerKeeps ==
  ASSUME IInv, CollectInner
  PROVE  IInv'
<1> DEFINE m == Head(outQ[pos]).msg
           x == m.req
           G == Unlinked(<<m>>)
<1>1. /\ Collect({"ok"}) /\ ~FinalOutput(pos) /\ outputs' = [outputs EXCEPT ![pos] = m.data]
      /\ ForwardOrFinish(x, outputs', G)
      /\ UNCHANGED <<cur, yielded, worker>>
  BY DEF CollectInner
<1>2. /\ SegsKept(G) /\ x \in Requests /\ m.data = x
      /\ <<pos, 2, x>> \in Where /\ pos \in Stages
      /\ \A r \in Requests : HasResult(outQ'[pos], r) => x < r
  BY <1>1, ResultUnlinked
<1>3. pc = "poll" /\ OutKept
  BY <1>1, Collected
<1> HIDE DEF m, x, G
<1>4. outputs' \in [Stages -> 0..N] /\ outputs'[pos] = x
  BY Zenon, <1>1, <1>2, OutputSlot
<1>5. pos <= FinalStage(x) /\ (pos > 0 => HasYielded(yielded, x, 0))
  BY <1>2, RouteAt
<1>6. pos # FinalStage(x) /\ pos # 0
  BY Zenon, <1>1, <1>2, FinalStages DEF FinalOutput
<1>7. /\ HasYielded(yielded, x, 0) /\ ~Finished(x, pos)
  <2>1. pos \in Nat /\ FinalStage(x) \in Nat
    BY Zenon, <1>2, FinalStages, Constants
  <2> QED
    BY <2>1, <1>5, <1>6 DEF Finished
<1> QED
  BY Zenon, <1>1, <1>2, <1>3, <1>4, <1>7, NotFinishedKeeps

(* The caller asks on after the final output of the request: it counts.    *)
LEMMA FinishKeeps ==
  ASSUME IInv, pc = "yield", Finished(cur, pos),
         completed' = completed + 1, NextStage(completed'), segs' = segs,
         UNCHANGED <<inQ, faults, stuck, cut>>,
         UNCHANGED <<cur, outputs, yielded, outQ, worker>>
  PROVE  IInv'
<1>1. /\ TypeOK /\ QueueInv /\ ChainInv /\ YieldInv /\ CountInv /\ SegInv
  BY Zenon DEF IInv
<1>2. pos \in Stages /\ pos \in Nat /\ completed \in Nat /\ N \in Nat
  BY <1>1, Types, Constants DEF TypeOK
<1>3. cur \in Requests /\ HasYielded(yielded, cur, pos)
  BY Zenon, <1>1 DEF YieldInv
<1>4. <<pos, 3, cur>> \in Where
  BY Zenon, <1>2, <1>3, WhereIs
<1>5. pos = FinalStage(cur)
  <2>1. pos <= FinalStage(cur) /\ FinalStage(cur) \in Nat
    BY <1>2, <1>3, <1>4, RouteAt, FinalStages
  <2> QED
    BY <2>1, <1>2 DEF Finished
<1>6. /\ pos' \in Stages /\ pc' \in {"poll", "closing"}
      /\ pc' = "closing" => completed + 1 = N
  BY <1>2, LoopGoesOn
<1>7. Done' = Done \cup {cur} /\ cur \notin Done
  <2>1. Done' = {r \in Requests : HasYielded(yielded, r, FinalStage(r))}
    BY Zenon, <1>6 DEF Done, HasYielded
  <2>2. Done = {r \in Requests : HasYielded(yielded, r, FinalStage(r)) /\ cur # r}
    BY Zenon DEF Done
  <2>3. HasYielded(yielded, cur, FinalStage(cur))
    BY Zenon, <1>3, <1>5
  <2> QED
    BY Zenon, <2>1, <2>2, <2>3, <1>3
<1>8. /\ Cardinality(Done') = Cardinality(Done) + 1 /\ Cardinality(Done) \in Nat
      /\ Cardinality(Done') <= N
  <2>1. Done \in SUBSET Requests /\ Done' \in SUBSET Requests
    BY Zenon DEF Done
  <2>2. IsFiniteSet(Done) /\ Cardinality(Done) \in Nat /\ Cardinality(Done') <= N
    BY Zenon, <2>1, RequestsFinite
  <2>3. Cardinality(Done \cup {cur}) = Cardinality(Done) + 1
    BY Zenon, <2>2, <1>7, FS_AddElement
  <2> QED
    BY Zenon, <2>2, <2>3, <1>7
<1>9. CountInv'
  <2>1. completed' <= Cardinality(Done') /\ (~cut => completed' = Cardinality(Done'))
    BY <1>1, <1>2, <1>8 DEF CountInv
  <2> QED
    BY <2>1, <1>6 DEF CountInv
<1>10. completed' \in 0..N
  BY <1>1, <1>2, <1>8 DEF CountInv
<1>11. TypeOK'
  BY Zenon, <1>1, <1>6, <1>10 DEF TypeOK
<1>12. QueueInv'
  <2>1. \A s \in Stages : InQOK(s, inQ[s], pc')
    BY <1>1, NoShutdownYet DEF QueueInv
  <2> QED
    BY Zenon, <2>1, <1>1 DEF QueueInv
<1>13. ChainInv'
  <2>1. Adds(0, 0, {})
    BY <1>6 DEF Adds
  <2>2. \A a \in Where' : a \in Where \/ (a[1] = 0 /\ a[2] = 0 /\ a[3] \in {})
    BY <2>1, Constants, StepPlaces
  <2>3. Where' \subseteq Where
    BY Zenon, <2>2
  <2> QED
    BY Zenon, <2>3, <1>1, StayedOn
<1>14. YieldInv'
  BY Zenon, <1>1, <1>6 DEF YieldInv, PromptOrder, HasYielded, OnRoute
<1>15. SegInv'
  BY Zenon, <1>1 DEF SegInv, Unread
<1> QED
  BY Zenon, <1>9, <1>11, <1>12, <1>13, <1>14, <1>15 DEF IInv

(* The caller took the yielded output: it goes on, or the request is done. *)
LEMMA ResumeKeeps ==
  ASSUME IInv, Resume
  PROVE  IInv'
<1>1. /\ pc = "yield" /\ ForwardOrFinish(cur, outputs, segs)
      /\ UNCHANGED <<cur, outputs, yielded, outQ, worker>>
  BY Zenon DEF Resume
<1>2. TypeOK /\ YieldInv /\ pos \in Stages /\ pos \in Nat
  BY Zenon, Types, Constants DEF IInv
<1>3. /\ cur \in Requests /\ HasYielded(yielded, cur, pos) /\ outputs[pos] = cur
      /\ outputs \in [Stages -> 0..N]
  BY Zenon, <1>1, <1>2 DEF YieldInv, TypeOK
<1>4. <<pos, 3, cur>> \in Where
  BY Zenon, <1>1, <1>2, <1>3, WhereIs
<1>5. CASE Finished(cur, pos)
  <2>1. /\ completed' = completed + 1 /\ NextStage(completed') /\ segs' = segs
        /\ UNCHANGED <<inQ, faults, stuck, cut>>
    BY Zenon, <1>1, <1>5 DEF ForwardOrFinish
  <2> QED
    BY Zenon, <2>1, <1>1, <1>5, FinishKeeps
<1>6. CASE ~Finished(cur, pos)
  <2>1. HasYielded(yielded, cur, 0)
    <3>1. pos > 0 => HasYielded(yielded, cur, 0)
      BY <1>2, <1>3, <1>4, RouteAt
    <3> QED
      BY <3>1, <1>2, <1>3
  <2>2. OutKept /\ SegsKept(segs)
    BY Zenon, <1>1, SameOutputs
  <2> QED
    BY <2>1, <2>2, <1>1, <1>3, <1>4, <1>6, NotFinishedKeeps
<1> QED
  BY Zenon, <1>5, <1>6

YieldedSet == [req : Requests, stage : Stages, data : Requests]

(* One more output is yielded.                                             *)
LEMMA YieldAppend ==
  ASSUME NEW Y \in Seq(YieldedSet), NEW y \in YieldedSet
  PROVE  LET Z == Append(Y, y) IN
         /\ Z \in Seq(YieldedSet)
         /\ \A i \in 1..Len(Z) :
              (i \in 1..Len(Y) /\ Z[i] = Y[i]) \/ (i = Len(Y) + 1 /\ Z[i] = y)
         /\ \A r, s : HasYielded(Z, r, s) <=> HasYielded(Y, r, s) \/ (r = y.req /\ s = y.stage)
         /\ Len(Y) \in Nat /\ DOMAIN Z = 1..Len(Z)
<1> DEFINE Z == Append(Y, y)
<1>1. /\ Z \in Seq(YieldedSet) /\ Len(Z) = Len(Y) + 1
      /\ \A i \in 1..Len(Y) : Z[i] = Y[i] /\ i \in 1..Len(Z)
      /\ Z[Len(Y) + 1] = y /\ Len(Y) + 1 \in 1..Len(Z)
      /\ \A i \in 1..Len(Z) : i \in 1..Len(Y) \/ i = Len(Y) + 1
  BY Appended
<1> HIDE DEF Z
<1>2. Len(Y) \in Nat /\ DOMAIN Z = 1..Len(Z)
  BY <1>1, Elements
<1>3. \A r, s : HasYielded(Z, r, s) <=> HasYielded(Y, r, s) \/ (r = y.req /\ s = y.stage)
  BY Zenon, <1>1 DEF HasYielded
<1> QED
  BY Zenon, <1>1, <1>2, <1>3 DEF Z

(* A final output is yielded.                                              *)
LEMMA CollectFinalKeeps ==
  ASSUME IInv, CollectFinal
  PROVE  IInv'
<1> DEFINE m == Head(outQ[pos]).msg
           x == m.req
           G == Unlinked(<<m>>)
           y == [req |-> x, stage |-> pos, data |-> m.data]
<1>1. /\ Collect({"ok"}) /\ FinalOutput(pos) /\ outputs' = [outputs EXCEPT ![pos] = m.data]
      /\ segs' = G /\ yielded' = Append(yielded, y) /\ cur' = x /\ pc' = "yield"
      /\ UNCHANGED <<pos, completed, cut, inQ, worker, faults, stuck>>
  BY DEF CollectFinal
<1>2. /\ SegsKept(G) /\ x \in Requests /\ m.data = x
      /\ <<pos, 2, x>> \in Where /\ pos \in Stages
      /\ \A r \in Requests : HasResult(outQ'[pos], r) => x < r
  BY <1>1, ResultUnlinked
<1>3. pc = "poll" /\ OutKept
  BY <1>1, Collected
<1> HIDE DEF m, x, G
<1>4. /\ TypeOK /\ QueueInv /\ ChainInv /\ YieldInv /\ CountInv /\ SegInv /\ WorkersKept
  BY <1>1, SameWorkers DEF IInv
<1>5. outputs' \in [Stages -> 0..N] /\ outputs'[pos] = x
  BY Zenon, <1>1, <1>2, OutputSlot
<1>6. /\ y \in YieldedSet /\ y.req = x /\ y.stage = pos /\ y.data = x
      /\ yielded \in Seq(YieldedSet)
  BY Zenon, <1>2, <1>4 DEF YieldedSet, TypeOK
<1> HIDE DEF y
<1>7. /\ yielded' \in Seq(YieldedSet)
      /\ \A i \in 1..Len(yielded') :
           \/ i \in 1..Len(yielded) /\ yielded'[i] = yielded[i]
           \/ i = Len(yielded) + 1 /\ yielded'[i] = y
      /\ \A r, s : HasYielded(yielded', r, s) <=>
                     HasYielded(yielded, r, s) \/ (r = x /\ s = pos)
      /\ Len(yielded) \in Nat /\ DOMAIN yielded' = 1..Len(yielded')
  <2>1. yielded' = Append(yielded, y)
    BY <1>1
  <2> DEFINE Z == Append(yielded, y)
  <2>2. /\ Z \in Seq(YieldedSet)
        /\ \A i \in 1..Len(Z) :
             (i \in 1..Len(yielded) /\ Z[i] = yielded[i]) \/ (i = Len(yielded) + 1 /\ Z[i] = y)
        /\ \A r, s : HasYielded(Z, r, s) <=>
                       HasYielded(yielded, r, s) \/ (r = y.req /\ s = y.stage)
        /\ Len(yielded) \in Nat /\ DOMAIN Z = 1..Len(Z)
    BY <1>6, YieldAppend
  <2> HIDE DEF Z
  <2>3. yielded' = Z
    BY <2>1 DEF Z
  <2> QED
    BY Zenon, <2>2, <2>3, <1>6
<1>8. InKept
  BY Zenon, <1>1, <1>3, SameInputs
<1>9. segs \subseteq Segments /\ segs' \subseteq Segments
  BY <1>1, <1>2, <1>4, Types DEF SegsKept
<1>10. TypeOK'
  <2>1. inQ' \in [Stages -> Seq(Messages)] /\ outQ' \in [Stages -> Seq(Replies)]
    BY Zenon, <1>3, <1>8 DEF InKept, OutKept
  <2>2. cur' \in 0..N
    BY <1>1, <1>2 DEF Requests
  <2> QED
    BY Zenon, <2>1, <2>2, <1>1, <1>2, <1>4, <1>5, <1>7, <1>9
    DEF TypeOK, Replies, ReplyKinds, Workers, WorkerStates, YieldedSet
<1>11. QueueInv'
  BY Zenon, <1>3, <1>4, <1>8 DEF QueueInv, InKept, OutKept, WorkersKept
<1>12. \A a \in Where' : a \in Where \/ (a[1] = pos /\ a[2] = 3 /\ a[3] \in {x})
  <2>1. \A s \in Stages, r \in Requests : HasResult(outQ'[s], r) => HasResult(outQ[s], r)
    BY Zenon, <1>3 DEF OutKept
  <2>2. Adds(pos, 3, {x})
    BY <2>1, <1>1, <1>2 DEF Adds
  <2> QED
    BY <2>2, <1>2, StepPlaces
<1>13. \A r \in Requests : <<pos, 2, r>> \in Where' => x < r
  <2>1. \A r \in Requests : <<pos, 2, r>> \in Where' => HasResult(outQ'[pos], r)
    BY Zenon, <1>2, WhereWillBe
  <2> QED
    BY Zenon, <2>1, <1>2
<1>14. \A a \in Where' : a \in Places /\ (a[1] = pos /\ a[2] = 2 => x < a[3])
  <2> SUFFICES ASSUME NEW a \in Where'
               PROVE  a \in Places /\ (a[1] = pos /\ a[2] = 2 => x < a[3])
    BY Zenon
  <2>1. a \in Places
    BY DEF Where
  <2>2. a[3] \in Requests /\ a = <<a[1], a[2], a[3]>>
    BY <2>1, PlaceTypes
  <2>3. ASSUME a[1] = pos, a[2] = 2
        PROVE  x < a[3]
    <3>1. <<pos, 2, a[3]>> \in Where'
      BY <2>2, <2>3
    <3> QED
      BY Zenon, <3>1, <2>2, <1>13
  <2> QED
    BY Zenon, <2>1, <2>3
<1>15. Moves(Where, Where', pos, 2, pos, 3, {x})
  <2>1. \A a \in Where : ~((a[1] > pos \/ (a[1] = pos /\ a[2] > 2))
                           /\ (a[1] < pos \/ (a[1] = pos /\ a[2] < 3)))
    <3> SUFFICES ASSUME NEW a \in Where
                 PROVE  ~((a[1] > pos \/ (a[1] = pos /\ a[2] > 2))
                           /\ (a[1] < pos \/ (a[1] = pos /\ a[2] < 3)))
      OBVIOUS
    <3>1. a \in Places
      BY DEF Where
    <3>2. a[1] \in Nat /\ a[2] \in Nat /\ pos \in Nat
      BY Zenon, <3>1, <1>2, PlaceTypes, Constants
    <3> QED
      BY <3>2
  <2> QED
    BY <2>1, <1>2, <1>12, <1>14 DEF Moves
<1>16. Chain(Where') /\ YieldedFirst(yielded, Where')
  <2>1. Where \in SUBSET Places /\ Where' \in SUBSET Places
    BY Zenon DEF Where
  <2>2. {x} \in SUBSET Requests /\ 2 \in 0..3 /\ 3 \in 0..3
    BY <1>2
  <2>3. Chain(Where) /\ YieldedFirst(yielded, Where)
    BY Zenon, <1>4 DEF ChainInv
  <2>4. Chain(Where')
    BY <2>1, <2>2, <2>3, <1>2, <1>15, MovedChain
  <2>5. YieldedFirst(yielded, Where')
    BY Zenon, <2>1, <2>2, <2>3, <1>2, <1>6, <1>15, MovedYielded DEF YieldedSet
  <2> QED
    BY <2>4, <2>5
<1>17. YieldedFirst(yielded', Where')
  <2> SUFFICES ASSUME NEW i \in 1..Len(yielded'), NEW a \in Where',
                      \/ a[1] < yielded'[i].stage
                      \/ a[1] = yielded'[i].stage /\ a[2] < 3
               PROVE  yielded'[i].req < a[3]
    BY Zenon DEF YieldedFirst
  <2>1. CASE i \in 1..Len(yielded) /\ yielded'[i] = yielded[i]
    BY Zenon, <2>1, <1>16 DEF YieldedFirst
  <2>2. CASE yielded'[i] = y
    <3>1. a[1] < pos \/ (a[1] = pos /\ a[2] < 3)
      BY Zenon, <2>2, <1>6
    <3>2. /\ a[1] \in Stages /\ a[1] \in Nat /\ a[2] \in 0..3 /\ a[3] \in Requests
          /\ a = <<a[1], a[2], a[3]>> /\ pos \in Nat
      BY Zenon, <1>2, <1>14, PlaceTypes, Constants
    <3>3. a \in Where
      BY <3>1, <3>2, <1>12
    <3>4. CASE a[1] = pos /\ a[2] = 2
      BY Zenon, <3>4, <2>2, <1>6, <1>14
    <3>5. CASE ~(a[1] = pos /\ a[2] = 2)
      <4>1. pos > a[1] \/ (pos = a[1] /\ 2 > a[2])
        BY <3>1, <3>2, <3>5
      <4>2. <<a[1], a[2], a[3]>> \in Where
        BY Zenon, <3>2, <3>3
      <4>3. x < a[3]
        BY <4>1, <4>2, <3>2, <1>2, <1>4, Earlier
      <4> QED
        BY Zenon, <4>3, <2>2, <1>6
    <3> QED
      BY Zenon, <3>4, <3>5
  <2> QED
    BY Zenon, <2>1, <2>2, <1>7
<1>18. pos <= FinalStage(x) /\ (pos > 0 => HasYielded(yielded, x, 0))
  BY <1>2, RouteAt
<1>19. \A s, r : OnRoute(yielded, s, r) => OnRoute(yielded', s, r)
  BY Zenon, <1>7 DEF OnRoute
<1>20. OnRoute(yielded', pos, x)
  BY Zenon, <1>7, <1>18 DEF OnRoute
<1>21. ChainInv'
  <2>1. ASSUME NEW a \in Where'
        PROVE  OnRoute(yielded', a[1], a[3])
    <3>1. CASE a \in Where
      BY Zenon, <3>1, <1>4, <1>19 DEF ChainInv
    <3>2. CASE a[1] = pos /\ a[3] = x
      BY Zenon, <3>2, <1>20
    <3> QED
      BY Zenon, <3>1, <3>2, <1>12
  <2> QED
    BY Zenon, <2>1, <1>16, <1>17 DEF ChainInv
<1>22. YieldInv'
  <2>1. ASSUME NEW i \in 1..Len(yielded')
        PROVE  /\ yielded'[i].data = yielded'[i].req /\ FinalOutput(yielded'[i].stage)
               /\ OnRoute(yielded', yielded'[i].stage, yielded'[i].req)
    <3>1. CASE i \in 1..Len(yielded) /\ yielded'[i] = yielded[i]
      BY Zenon, <3>1, <1>4, <1>19 DEF YieldInv
    <3>2. CASE yielded'[i] = y
      BY Zenon, <3>2, <1>1, <1>6, <1>20
    <3> QED
      BY Zenon, <3>1, <3>2, <1>7
  <2>2. PromptOrder'
    <3> SUFFICES ASSUME NEW i \in 1..Len(yielded'), NEW j \in 1..Len(yielded'), i < j,
                        yielded'[i].stage = yielded'[j].stage
                 PROVE  yielded'[i].req < yielded'[j].req
      BY Zenon, <1>7 DEF PromptOrder
    <3>1. i \in 1..Len(yielded) /\ yielded'[i] = yielded[i]
      BY <1>7
    <3>2. CASE j \in 1..Len(yielded) /\ yielded'[j] = yielded[j]
      <4>1. DOMAIN yielded = 1..Len(yielded)
        BY <1>6
      <4> QED
        BY Zenon, <4>1, <3>1, <3>2, <1>4 DEF YieldInv, PromptOrder
    <3>3. CASE yielded'[j] = y
      <4> DEFINE a == <<pos, 2, x>>
      <4>1. a \in Where /\ a[1] = pos /\ a[2] = 2 /\ a[3] = x
        BY Zenon, <1>2
      <4> HIDE DEF a
      <4>2. yielded[i].stage = pos
        BY Zenon, <3>1, <3>3, <1>6
      <4>3. yielded[i].req < x
        BY <4>1, <4>2, <3>1, <1>4 DEF ChainInv, YieldedFirst
      <4> QED
        BY Zenon, <4>3, <3>1, <3>3, <1>6
    <3> QED
      BY Zenon, <3>2, <3>3, <1>7
  <2>3. /\ outputs'[pos'] = cur' /\ HasYielded(yielded', cur', pos')
        /\ cur' \in Requests /\ FinalOutput(pos')
    BY Zenon, <1>1, <1>2, <1>5, <1>7
  <2> QED
    BY Zenon, <2>1, <2>2, <2>3 DEF YieldInv
<1>23. CountInv'
  <2>1. ~HasYielded(yielded, x, FinalStage(x))
    <3>1. pos < FinalStage(x) \/ pos = FinalStage(x)
      <4>1. pos \in Nat /\ FinalStage(x) \in Nat
        BY Zenon, <1>2, FinalStages, Constants
      <4> QED
        BY <4>1, <1>18
    <3> QED
      BY <3>1, <1>2, NotYetFinal
  <2>2. Done' = {r \in Requests : HasYielded(yielded', r, FinalStage(r)) /\ x # r}
    BY Zenon, <1>1 DEF Done, HasYielded
  <2>3. Done = {r \in Requests : HasYielded(yielded, r, FinalStage(r))}
    BY Zenon, <1>3 DEF Done
  <2>4. Done' = Done
    BY Zenon, <2>1, <2>2, <2>3, <1>7
  <2> QED
    BY Zenon, <2>4, <1>1, <1>4, SameCount
<1>24. SegInv'
  <2>1. \A s \in Stages, r \in Requests : Unread(s, r) => Unread(s, r)'
    BY Zenon, <1>1 DEF Unread
  <2>2. segs' \subseteq segs
    BY Zenon, <1>1, <1>2 DEF SegsKept
  <2>3. \A s \in Stages, r \in Requests :
          /\ <<"in", s, r>> \in segs' => r \in Large /\ s > 0 /\ Unread(s, r)'
          /\ <<"out", s, r>> \in segs' => r \in Large
    BY Zenon, <2>1, <2>2, <1>4, SegsAre
  <2>4. \A s \in Stages, r \in Requests : <<"out", s, r>> \in segs' => HasResult(outQ'[s], r)
    BY Zenon, <1>1, <1>2 DEF SegsKept
  <2> QED
    BY Zenon, <2>3, <2>4, <1>9, SegsWillBe
<1> QED
  BY Zenon, <1>10, <1>11, <1>21, <1>22, <1>23, <1>24 DEF IInv

-----------------------------------------------------------------------------
(* The invariant holds before the first poll.                              *)
LEMMA InitHolds ==
  ASSUME Init
  PROVE  IInv
<1> DEFINE q == [r \in Requests |-> Plain(r, r)]
<1>1. /\ pc = "poll" /\ pos = 0 /\ cur = 0 /\ completed = 0
      /\ outputs = [s \in Stages |-> 0]
      /\ outQ = [s \in Stages |-> <<>>] /\ segs = {} /\ yielded = <<>>
      /\ faults = 0 /\ stuck = {} /\ cut = FALSE
  BY Zenon DEF Init
<1>2. \A s \in Stages : inQ[s] = IF s = 0 THEN q ELSE <<>>
  BY Zenon DEF Init
<1>3. \A s \in Stages :
        /\ worker[s].pc \in {"init", "idle"} /\ worker[s].batch = <<>> /\ worker[s].sent = 0
        /\ worker[s] = [pc |-> worker[s].pc, batch |-> <<>>, sent |-> 0]
  BY Zenon DEF Init
<1>4. /\ q \in Seq(Messages) /\ Len(q) = N
      /\ \A i \in 1..N : q[i] = Plain(i, i)
  <2>1. Requests = 1..N /\ N \in Nat
    BY Zenon, Constants DEF Requests
  <2>2. \A r \in Requests : Plain(r, r) \in Messages
    BY DEF Plain, Messages, Requests
  <2> QED
    BY <2>1, <2>2
<1> HIDE DEF q
<1>5. /\ \A i \in 1..Len(q) : q[i].req = i /\ InMsg(0, q[i])
      /\ Sorted(q)
  <2>1. \A i \in 1..Len(q) : q[i].req = i /\ q[i].data = i /\ q[i].seg = <<>>
    BY <1>4 DEF Plain
  <2>2. \A i \in 1..Len(q) : InMsg(0, q[i])
    BY <2>1, <1>4 DEF InMsg, Requests
  <2>3. Sorted(q)
    BY <2>1, <1>4 DEF Sorted
  <2> QED
    BY Zenon, <2>1, <2>2, <2>3
<1>6. \A s \in Stages :
        /\ InQOK(s, inQ[s], pc) /\ inQ[s] \in Seq(Messages)
        /\ s # 0 => \A r : ~HasReq(inQ[s], r)
  BY Zenon, <1>2, <1>4, <1>5, NoElements DEF InQOK, Sorted, HasReq
<1>7. \A s \in Stages :
        /\ OutQOK(s, outQ[s]) /\ outQ[s] \in Seq(Replies)
        /\ \A r : ~HasResult(outQ[s], r)
  BY Zenon, <1>1, NoElements DEF OutQOK, SortedReplies, HasResult
<1>8. \A s \in Stages :
        /\ BatchOK(s, worker[s]) /\ Len(worker[s].batch) <= MaxBatch
        /\ \A r : ~HasTask(worker[s], r)
  <2>1. \A s \in Stages : Len(worker[s].batch) = 0 /\ 1..Len(worker[s].batch) = {}
    BY Zenon, <1>3, NoElements
  <2>2. \A s \in Stages : BatchOK(s, worker[s])
    BY Zenon, <2>1, <1>3 DEF BatchOK, Sorted
  <2>3. \A s \in Stages : \A r : ~HasTask(worker[s], r)
    BY Zenon, <2>1 DEF HasTask
  <2>4. 0 <= MaxBatch
    BY Constants
  <2> QED
    BY Zenon, <2>1, <2>2, <2>3, <2>4
<1>9. QueueInv
  BY Zenon, <1>6, <1>7, <1>8 DEF QueueInv
<1>10. TypeOK
  <2>1. inQ \in [Stages -> Seq(Messages)]
    <3>1. inQ = [s \in Stages |-> IF s = 0 THEN q ELSE <<>>]
      BY Zenon DEF Init, q
    <3> QED
      BY Zenon, <3>1, <1>4, NoElements
  <2>2. outQ \in [Stages -> Seq(Replies)]
    BY Zenon, <1>1, NoElements
  <2>3. worker \in [Stages -> Workers]
    <3>1. \A s \in Stages : worker[s] \in Workers
      <4> SUFFICES ASSUME NEW s \in Stages
                   PROVE  worker[s] \in Workers
        BY Zenon
      <4>1. <<>> \in Seq(Messages)
        BY Zenon, NoElements
      <4>2. 0 \in 0..MaxBatch
        BY Constants
      <4>3. worker[s].pc \in WorkerStates
        BY Zenon, <1>3 DEF WorkerStates
      <4>4. worker[s] = [pc |-> worker[s].pc, batch |-> <<>>, sent |-> 0]
        BY Zenon, <1>3
      <4> DEFINE x == worker[s].pc
      <4> HIDE DEF x
      <4>5. [pc |-> x, batch |-> <<>>, sent |-> 0] \in Workers
        BY Zenon, <4>1, <4>2, <4>3 DEF Workers, x
      <4> QED
        BY Zenon, <4>4, <4>5 DEF x
    <3>2. worker = [s \in Stages |-> worker[s]]
      BY Zenon DEF Init
    <3> QED
      BY Zenon, <3>1, <3>2
  <2>4. /\ pos \in Stages /\ cur \in 0..N /\ completed \in 0..N
        /\ outputs \in [Stages -> 0..N] /\ faults \in 0..MaxFaults
    BY <1>1, Constants
  <2>5. yielded \in Seq([req : Requests, stage : Stages, data : Requests])
    BY Zenon, <1>1, NoElements
  <2>6. /\ pc \in {"poll", "yield", "closing", "joining", "closed"}
        /\ segs \subseteq Segments /\ stuck \subseteq Requests /\ cut \in BOOLEAN
    BY Zenon, <1>1
  <2> QED
    BY Zenon, <2>1, <2>2, <2>3, <2>4, <2>5, <2>6, <1>8
    DEF TypeOK, Replies, ReplyKinds, Workers, WorkerStates
<1>11. \A a \in Where : a \in Places /\ a[1] = 0 /\ a[2] = 0
  <2> SUFFICES ASSUME NEW a \in Where
               PROVE  a \in Places /\ a[1] = 0 /\ a[2] = 0
    BY Zenon
  <2>1. /\ a \in Places
        /\ \/ a[2] = 0 /\ HasReq(inQ[a[1]], a[3])
           \/ a[2] = 1 /\ HasTask(worker[a[1]], a[3])
           \/ a[2] = 2 /\ HasResult(outQ[a[1]], a[3])
           \/ a[2] = 3 /\ pc = "yield"
    BY Zenon DEF Where
  <2>2. a[1] \in Stages
    BY Zenon, <2>1, PlaceTypes
  <2> QED
    BY Zenon, <2>1, <2>2, <1>1, <1>6, <1>7, <1>8
<1>12. ChainInv
  <2>1. Chain(Where)
    BY <1>11 DEF Chain, Ahead
  <2>2. YieldedFirst(yielded, Where)
    BY Zenon, <1>1, NoElements DEF YieldedFirst
  <2>3. ASSUME NEW a \in Where
        PROVE  OnRoute(yielded, a[1], a[3])
    <3>1. a[1] = 0 /\ a[3] \in Requests
      BY Zenon, <1>11, PlaceTypes
    <3> QED
      BY <3>1, FinalStages DEF OnRoute
  <2> QED
    BY Zenon, <2>1, <2>2, <2>3 DEF ChainInv
<1>13. YieldInv
  <2>1. DOMAIN yielded = {} /\ 1..Len(yielded) = {}
    BY <1>1, NoElements
  <2> QED
    BY Zenon, <2>1, <1>1 DEF YieldInv, PromptOrder
<1>14. CountInv
  <2>1. Done = {}
    BY Zenon, <1>1, NoElements DEF Done, HasYielded
  <2>2. Cardinality(Done) = 0
    BY Zenon, <2>1, FS_EmptySet
  <2> QED
    BY <2>2, <1>1 DEF CountInv
<1>15. SegInv
  BY Zenon, <1>1 DEF SegInv
<1> QED
  BY Zenon, <1>9, <1>10, <1>12, <1>13, <1>14, <1>15 DEF IInv

(* Every step keeps the invariant.                                         *)
LEMMA NextKeeps ==
  ASSUME IInv, [Next]_vars
  PROVE  IInv'
<1>1. CASE Orchestrator
  BY Zenon, <1>1, PollNothingKeeps, PassOverKeeps, CollectInnerKeeps, CollectFinalKeeps,
     ResumeKeeps, AbandonKeeps, SendShutdownKeeps, TerminateKeeps, ReturnKeeps
  DEF Orchestrator
<1>2. ASSUME NEW s \in Stages, Worker(s)
      PROVE  IInv'
  BY Zenon, <1>2, StageReadyKeeps, GetTaskKeeps, ExtraTaskKeeps, RunBatchKeeps, EmitKeeps,
     FailBatchKeeps DEF Worker
<1>3. CASE UNCHANGED vars
  <2>1. UNCHANGED <<pc, pos, cur, completed, outputs, yielded, cut, inQ, outQ, worker, segs,
                    faults, stuck>>
    BY Zenon, <1>3 DEF vars, orchestrator
  <2>2. TypeOK' /\ QueueInv'
    BY Zenon, <2>1 DEF IInv, TypeOK, QueueInv
  <2>3. Where' = Where
    BY Zenon, <2>1 DEF Where
  <2>4. ChainInv'
    BY Zenon, <2>1, <2>3, StayedOn DEF IInv
  <2>5. YieldInv'
    BY Zenon, <2>1 DEF IInv, YieldInv, PromptOrder
  <2>6. CountInv'
    BY Zenon, <2>1 DEF IInv, CountInv, Done
  <2>7. SegInv'
    BY Zenon, <2>1 DEF IInv, SegInv, Unread
  <2> QED
    BY Zenon, <2>2, <2>4, <2>5, <2>6, <2>7 DEF IInv
<1> QED
  BY Zenon, <1>1, <1>2, <1>3 DEF Next

-----------------------------------------------------------------------------
(* The inductive invariant holds in every reachable state.                 *)
THEOREM PipelineInvariance == Spec => []IInv
<1>1. Init => IInv
  BY Zenon, InitHolds
<1>2. IInv /\ [Next]_vars => IInv'
  BY Zenon, NextKeeps
<1> QED
  BY <1>1, <1>2, PTL DEF Spec

(* Type correctness: a batch is never larger than max_batch_size, and      *)
(* completed_requests never exceeds the number of prompts.                 *)
THEOREM PipelineTypes == Spec => []TypeOK
<1>1. IInv => TypeOK
  BY Zenon DEF IInv
<1> QED
  BY <1>1, PipelineInvariance, PTL

(* What generate returns for a request is computed from its own prompt,    *)
(* for any batching, any number of stages and any faults, although the     *)
(* requests share one engine_outputs slot per stage.                       *)
THEOREM OutputsAreOwn == Spec => []OwnOutputs
<1>1. IInv => OwnOutputs
  <2> SUFFICES ASSUME IInv
               PROVE  OwnOutputs
    BY Zenon
  <2>1. YieldInv /\ DOMAIN yielded = 1..Len(yielded)
    BY DEF IInv, TypeOK
  <2> QED
    BY Zenon, <2>1 DEF YieldInv, OwnOutputs
<1> QED
  BY <1>1, PipelineInvariance, PTL

(* The outputs of each stage come in the order of the prompts.             *)
THEOREM OutputsInOrder == Spec => []PromptOrder
<1>1. IInv => PromptOrder
  BY Zenon DEF IInv, YieldInv
<1> QED
  BY <1>1, PipelineInvariance, PTL

(* In a call that has ended by itself every request has had its final      *)
(* output.                                                                 *)
LEMMA AllDone ==
  ASSUME IInv, pc \in {"joining", "closed"}, ~cut
  PROVE  \A r \in Requests : HasYielded(yielded, r, FinalStage(r))
<1>1. completed = N /\ completed = Cardinality(Done)
  BY Zenon DEF IInv, CountInv
<1>2. Done \in SUBSET Requests
  BY Zenon DEF Done
<1>3. Done = Requests
  BY Zenon, <1>1, <1>2, RequestsFinite
<1> QED
  BY Zenon, <1>3 DEF Done

(* A call that ends by itself has returned the text of stage 0 and the     *)
(* output of the last stage of every request that has them, each once.     *)
THEOREM ReturnedOnce == Spec => []AllReturnedOnce
<1>1. IInv => AllReturnedOnce
  <2> SUFFICES ASSUME IInv, pc \in {"joining", "closed"}, ~cut
               PROVE  LET due == {y \in Requests \X Stages :
                                    FinalOutput(y[2]) /\ y[2] <= FinalStage(y[1])}
                      IN  /\ {<<yielded[i].req, yielded[i].stage>> : i \in DOMAIN yielded} = due
                          /\ Len(yielded) = Cardinality(due)
    BY Zenon DEF AllReturnedOnce
  <2> DEFINE due == {y \in Requests \X Stages : FinalOutput(y[2]) /\ y[2] <= FinalStage(y[1])}
             D == 1..Len(yielded)
             at(i) == <<yielded[i].req, yielded[i].stage>>
             f == [i \in D |-> at(i)]
  <2>1. /\ YieldInv /\ DOMAIN yielded = D /\ Len(yielded) \in Nat
        /\ \A i \in D : yielded[i].req \in Requests /\ yielded[i].stage \in Stages
    <3>1. yielded \in Seq([req : Requests, stage : Stages, data : Requests])
      BY Zenon DEF IInv, TypeOK
    <3>2. \A i \in D : yielded[i] \in [req : Requests, stage : Stages, data : Requests]
      BY Zenon, <3>1, Elements
    <3>3. YieldInv /\ DOMAIN yielded = D /\ Len(yielded) \in Nat
      BY <3>1 DEF IInv
    <3> QED
      BY Zenon, <3>2, <3>3
  <2>2. \A i \in D : at(i) \in due
    BY Zenon, <2>1 DEF YieldInv, OnRoute
  <2>3. \A y \in due : \E i \in D : at(i) = y
    <3> SUFFICES ASSUME NEW y \in due
                 PROVE  \E i \in D : at(i) = y
      BY Zenon
    <3>1. /\ y[1] \in Requests /\ y[2] \in Stages /\ y = <<y[1], y[2]>>
          /\ FinalOutput(y[2]) /\ y[2] <= FinalStage(y[1])
      OBVIOUS
    <3>2. HasYielded(yielded, y[1], FinalStage(y[1]))
      BY Zenon, <3>1, AllDone
    <3>3. HasYielded(yielded, y[1], y[2])
      <4>1. CASE y[2] = FinalStage(y[1])
        BY Zenon, <4>1, <3>2
      <4>2. CASE y[2] # FinalStage(y[1])
        <5>1. y[2] = 0 /\ FinalStage(y[1]) > 0
          BY <4>2, <3>1, FinalStages, Constants DEF FinalOutput, FinalStage
        <5>2. PICK i \in D : yielded[i].req = y[1] /\ yielded[i].stage = FinalStage(y[1])
          BY Zenon, <3>2 DEF HasYielded
        <5>3. OnRoute(yielded, FinalStage(y[1]), y[1])
          BY Zenon, <5>2, <2>1 DEF YieldInv
        <5> QED
          BY Zenon, <5>1, <5>3 DEF OnRoute
      <4> QED
        BY Zenon, <4>1, <4>2
    <3>4. PICK i \in D : yielded[i].req = y[1] /\ yielded[i].stage = y[2]
      BY Zenon, <3>3 DEF HasYielded
    <3> QED
      BY Zenon, <3>1, <3>4
  <2>4. \A i, j \in D : at(i) = at(j) => i = j
    <3> SUFFICES ASSUME NEW i \in D, NEW j \in D, at(i) = at(j), i < j
                 PROVE  FALSE
      OBVIOUS
    <3>1. yielded[i].req = yielded[j].req /\ yielded[i].stage = yielded[j].stage
      BY Zenon
    <3>2. yielded[i].req < yielded[j].req /\ yielded[i].req \in Nat
      BY Zenon, <3>1, <2>1, Constants DEF YieldInv, PromptOrder
    <3> QED
      BY <3>1, <3>2
  <2>5. {at(i) : i \in DOMAIN yielded} = due
    BY Zenon, <2>1, <2>2, <2>3
  <2> HIDE DEF due, at
  <2>6. f \in [D -> due] /\ f \in Surjection(D, due) /\ f \in Injection(D, due)
    BY Zenon, <2>2, <2>3, <2>4 DEF Surjection, Injection, IsInjective
  <2>7. IsFiniteSet(D) /\ Cardinality(D) = Len(yielded)
    BY <2>1, FS_Interval
  <2>8. Cardinality(due) = Cardinality(D)
    BY <2>6, <2>7, FS_Surjection
  <2> QED
    BY Zenon, <2>5, <2>7, <2>8 DEF due, at
<1> QED
  BY <1>1, PipelineInvariance, PTL

(* A call that ends by itself has unlinked every shared-memory segment.    *)
THEOREM SegmentsUnlinked == Spec => []NoSegmentLeft
<1>1. IInv => NoSegmentLeft
  <2> SUFFICES ASSUME IInv, pc = "closed", ~cut, NEW g \in segs
               PROVE  FALSE
    BY Zenon DEF NoSegmentLeft
  <2>1. /\ g[1] \in {"in", "out"} /\ g[2] \in Stages /\ g[3] \in Requests
    BY Zenon, Types DEF IInv, Segments
  <2>2. HasYielded(yielded, g[3], FinalStage(g[3]))
    BY Zenon, <2>1, AllDone
  <2>3. ASSUME NEW k \in 0..2
        PROVE  <<g[2], k, g[3]>> \notin Where
    <3> SUFFICES ASSUME <<g[2], k, g[3]>> \in Where
                 PROVE  FALSE
      BY Zenon
    <3>1. g[2] \in Nat /\ FinalStage(g[3]) \in Nat /\ k \in 0..3 /\ k < 3
      <4>1. g[2] \in Nat
        BY Zenon, <2>1, Constants
      <4>2. FinalStage(g[3]) \in Nat
        BY Zenon, <2>1, FinalStages
      <4> QED
        BY <4>1, <4>2
    <3>2. g[2] <= FinalStage(g[3])
      BY Zenon, <3>1, <2>1, RouteAt
    <3>3. g[2] < FinalStage(g[3]) \/ (g[2] = FinalStage(g[3]) /\ k < 3)
      BY <3>1, <3>2
    <3> QED
      BY Zenon, <3>1, <3>3, <2>1, <2>2, NotYetFinal
  <2>4. CASE g[1] = "in"
    <3>1. Unread(g[2], g[3])
      BY Zenon, <2>4 DEF IInv, SegInv
    <3>2. <<g[2], 0, g[3]>> \in Where \/ <<g[2], 1, g[3]>> \in Where
      BY Zenon, <3>1, <2>1, WhereIs DEF Unread
    <3> QED
      BY <3>2, <2>3
  <2>5. CASE g[1] = "out"
    <3>1. HasResult(outQ[g[2]], g[3])
      BY Zenon, <2>5 DEF IInv, SegInv
    <3>2. <<g[2], 2, g[3]>> \in Where
      BY Zenon, <3>1, <2>1, WhereIs
    <3> QED
      BY <3>2, <2>3
  <2> QED
    BY Zenon, <2>1, <2>4, <2>5
<1> QED
  BY <1>1, PipelineInvariance, PTL
=============================================================================
