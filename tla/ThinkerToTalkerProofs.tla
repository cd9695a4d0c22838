----------------------- MODULE ThinkerToTalkerProofs -----------------------
(***************************************************************************)
(* Proofs about ThinkerToTalker, for every length of the answer and every  *)
(* number of paddings: the talker is fed each row once, in order and never *)
(* from beyond the embeddings, it gets the whole answer before the end of  *)
(* speech, and no route comes back after the turn is cleaned up.           *)
(***************************************************************************)
EXTENDS ThinkerToTalker, SequenceTheorems, TLAPS

(* What may be in the event loop's queue.                                  *)
JustWorker == <<Worker>>

JustPad == <<Pad>>

PadThenWorker == <<Pad, Worker>>

SendWorker(id, r, n) == <<Task("send", id, r, n), Worker>>

(* A send task carries the id suffix that chunk_seq will have when it runs *)
(* and the row before the loop's next one.                                 *)
SendThenWorker == SendWorker(chunkSeq, row - 1, len)

(* No end-of-speech marker is in f.                                        *)
Speaking(f) == \A i \in 1..Len(f) : f[i].kind \in {"prefill", "row"}

(* What FeedInOrder, RowAvailable and WholeAnswerSpoken say, of any f.     *)
WellFed(f) ==
  \A i \in 1..Len(f) :
    /\ f[i].id = i - 1
    /\ (f[i].kind = "prefill") <=> (i = 1)
    /\ f[i].kind = "row" =>
         f[i].row = i - 1 /\ f[i-1].kind \in {"prefill", "row"}
    /\ f[i].kind = "eos" => f[i-1].kind = "row"
    /\ f[i].kind = "pad" => f[i-1].kind \in {"eos", "pad"}
    /\ f[i].kind \in {"prefill", "row"} => f[i].row < f[i].have
    /\ f[i].kind = "eos" => ended /\ f[i-1].row = gen - 2

(* s may be sent next, after f.                                            *)
Follows(f, s) ==
  /\ s.id = Len(f)
  /\ \/ s.kind = "prefill" /\ Len(f) = 0 /\ s.row < s.have
     \/ /\ s.kind = "row" /\ Len(f) > 0 /\ Speaking(f)
        /\ s.row = Len(f) /\ s.row < s.have
     \/ /\ s.kind = "eos" /\ Len(f) > 1 /\ Speaking(f)
        /\ ended /\ Len(f) = gen - 1
     \/ s.kind = "pad" /\ Len(f) > 1 /\ f[Len(f)].kind \in {"eos", "pad"}

(* The worker has taken the last result that stage 0 will ever put.        *)
Exhausted == ended /\ shown = gen /\ q0 = <<>>

(* Results come with growing lengths; only the last one can be finished,   *)
(* and that one has the whole answer.                                      *)
ResultsInv ==
  /\ gen = MaxGen => ended
  /\ \A i \in 1..Len(q0) :
       /\ told < q0[i].len /\ q0[i].len <= shown
       /\ q0[i].fin => i = Len(q0) /\ ended /\ q0[i].len = gen
  /\ \A i, j \in 1..Len(q0) : i < j => q0[i].len < q0[j].len

(* A send task is in the queue only together with the worker that spawned  *)
(* it, which is behind it; the padding task only after the end of speech.  *)
TaskInv ==
  /\ wpc = "idle" => ready \in {<<>>, JustWorker, JustPad, PadThenWorker}
  /\ wpc = "loop" => ready \in {JustWorker, SendThenWorker}
  /\ wpc \in {"done", "dead"} => ready = <<>>
  /\ wpc = "done" => phase # "running"
  /\ phase = "closed" => wpc \in {"done", "dead"} /\ routes = {}
  /\ phase = "running" => ready # PadThenWorker
  /\ padLeft > 0 <=> ready \in {JustPad, PadThenWorker}
  /\ ready \in {JustPad, PadThenWorker} => ~Speaking(feed)

(* The position in the answer, as each of the worker's variables sees it.  *)
SpeechInv ==
  /\ chunkSeq = Len(feed)
  /\ prefilled <=> Len(feed) > 0
  /\ havePad => prefilled
  /\ ~prefilled => lastIdx = 0
  /\ ~Speaking(feed) => Exhausted
  /\ wpc \in {"loop", "dead"} => Exhausted
  /\ ~Speaking(feed) => /\ wpc # "loop" /\ Len(feed) > 1
                        /\ feed[Len(feed)].kind \in {"eos", "pad"}
  /\ wpc = "idle" /\ prefilled /\ Speaking(feed) =>
       lastIdx = Len(feed) - 1 /\ lastIdx + 2 <= told
  /\ wpc = "loop" =>
       /\ len = gen /\ row \in 2..len - 1
       /\ ready = JustWorker => row = chunkSeq
       /\ ready # JustWorker => row = chunkSeq + 1

(* The inductive invariant.                                                *)
IInv == TypeOK /\ ResultsInv /\ TaskInv /\ SpeechInv /\ WellFed(feed)

-----------------------------------------------------------------------------
(* Worker, padding task and send tasks can be told apart.                  *)
LEMMA TaskKinds ==
  ASSUME NEW id \in Nat, NEW r \in Nat, NEW n \in Nat
  PROVE  /\ Worker \in Tasks /\ Pad \in Tasks /\ Task("send", id, r, n) \in Tasks
         /\ Worker # Pad /\ Worker # Task("send", id, r, n)
         /\ Pad # Task("send", id, r, n)
         /\ Worker.task = "worker" /\ Pad.task = "pad"
         /\ Task("send", id, r, n).task = "send"
BY Zenon DEF Worker, Pad, Task, Tasks

(* What Tail, Append and \o make of the shapes of the event loop's queue:  *)
(* create_task, sleep(0) and the end of a task.                            *)
LEMMA Shapes ==
  ASSUME NEW id \in Nat, NEW r \in Nat, NEW n \in Nat
  PROVE  /\ JustWorker # <<>> /\ Head(JustWorker) = Worker /\ Tail(JustWorker) = <<>>
         /\ JustPad # <<>> /\ Head(JustPad) = Pad /\ Tail(JustPad) = <<>>
         /\ PadThenWorker # <<>> /\ Head(PadThenWorker) = Pad
         /\ Tail(PadThenWorker) = JustWorker
         /\ SendWorker(id, r, n) # <<>>
         /\ Head(SendWorker(id, r, n)) = Task("send", id, r, n)
         /\ Tail(SendWorker(id, r, n)) = JustWorker
         /\ Append(<<>>, Worker) = JustWorker /\ Append(<<>>, Pad) = JustPad
         /\ Append(JustPad, Worker) = PadThenWorker
         /\ <<>> \o <<Task("send", id, r, n), Worker>> = SendWorker(id, r, n)
         /\ <<>> \o <<Pad>> = JustPad /\ <<>> \o <<>> = <<>>
<1>1. /\ Worker \in Tasks /\ Pad \in Tasks /\ Task("send", id, r, n) \in Tasks
  BY Zenon, TaskKinds
<1>2. /\ JustWorker \in Seq(Tasks) /\ Len(JustWorker) = 1 /\ JustWorker[1] = Worker
      /\ JustPad \in Seq(Tasks) /\ Len(JustPad) = 1 /\ JustPad[1] = Pad
      /\ PadThenWorker \in Seq(Tasks) /\ Len(PadThenWorker) = 2
      /\ PadThenWorker[1] = Pad /\ PadThenWorker[2] = Worker
      /\ SendWorker(id, r, n) \in Seq(Tasks) /\ Len(SendWorker(id, r, n)) = 2
  BY <1>1 DEF JustWorker, JustPad, PadThenWorker, SendWorker
<1>3. /\ JustWorker # <<>> /\ JustPad # <<>> /\ PadThenWorker # <<>>
      /\ SendWorker(id, r, n) # <<>>
  <2>1. /\ Len(<<>>) = 0 /\ Len(JustWorker) = 1 /\ Len(JustPad) = 1
        /\ Len(PadThenWorker) = 2 /\ Len(SendWorker(id, r, n)) = 2
    BY Zenon, <1>2
  <2>2. 1 # 0 /\ 2 # 0
    OBVIOUS
  <2> QED
    BY <2>1, <2>2, Zenon
<1>4. /\ Head(JustWorker) = Worker /\ Tail(JustWorker) = <<>>
      /\ Head(JustPad) = Pad /\ Tail(JustPad) = <<>>
      /\ Head(PadThenWorker) = Pad /\ Tail(PadThenWorker) = JustWorker
      /\ Head(SendWorker(id, r, n)) = Task("send", id, r, n)
      /\ Tail(SendWorker(id, r, n)) = JustWorker
  BY <1>1 DEF JustWorker, JustPad, PadThenWorker, SendWorker
<1>5. Append(<<>>, Worker) = JustWorker /\ Append(<<>>, Pad) = JustPad
  <2>1. <<>> \in Seq(Tasks) /\ Len(<<>>) = 0
    OBVIOUS
  <2>2. ASSUME NEW x \in Tasks
        PROVE  /\ Append(<<>>, x) \in Seq(Tasks) /\ Len(Append(<<>>, x)) = 1
               /\ Append(<<>>, x)[1] = x
    BY <2>1, AppendProperties, SMT
  <2>3. Append(<<>>, Worker) = JustWorker
    BY <2>2, <1>1, <1>2, SeqEqual
  <2>4. Append(<<>>, Pad) = JustPad
    BY <2>2, <1>1, <1>2, SeqEqual
  <2> QED
    BY Zenon, <2>3, <2>4
<1>6. Append(JustPad, Worker) = PadThenWorker
  <2>0. JustPad \in Seq(Tasks) /\ Worker \in Tasks
    BY Zenon, <1>1, <1>2
  <2>1. /\ Append(JustPad, Worker) \in Seq(Tasks)
        /\ Len(Append(JustPad, Worker)) = Len(JustPad) + 1
        /\ \A i \in 1..Len(JustPad) : Append(JustPad, Worker)[i] = JustPad[i]
        /\ Append(JustPad, Worker)[Len(JustPad) + 1] = Worker
    BY <2>0, AppendProperties
  <2>2. Len(JustPad) + 1 = 2 /\ 1 \in 1..Len(JustPad)
    BY <1>2
  <2>3. /\ Len(Append(JustPad, Worker)) = 2 /\ Append(JustPad, Worker)[1] = Pad
        /\ Append(JustPad, Worker)[2] = Worker
    BY Zenon, <2>1, <2>2, <1>2
  <2> QED
    BY <2>1, <2>3, <1>2, SeqEqual
<1>7. \A s \in Seq(Tasks) : <<>> \o s = s
  BY Zenon, ConcatEmptySeq
<1>8. <<>> \in Seq(Tasks)
  OBVIOUS
<1>9. /\ <<>> \o <<Task("send", id, r, n), Worker>> = SendWorker(id, r, n)
      /\ <<>> \o <<Pad>> = JustPad /\ <<>> \o <<>> = <<>>
  BY Zenon, <1>2, <1>7, <1>8 DEF SendWorker, JustPad
<1> QED
  BY Zenon, <1>3, <1>4, <1>5, <1>6, <1>9

(* The shapes are different.                                               *)
LEMMA Distinct ==
  ASSUME NEW id \in Nat, NEW r \in Nat, NEW n \in Nat
  PROVE  /\ JustWorker # <<>> /\ JustPad # <<>> /\ PadThenWorker # <<>>
         /\ SendWorker(id, r, n) # <<>>
         /\ JustWorker # JustPad /\ JustWorker # PadThenWorker
         /\ JustPad # PadThenWorker /\ SendWorker(id, r, n) # JustWorker
         /\ SendWorker(id, r, n) # JustPad /\ SendWorker(id, r, n) # PadThenWorker
<1>1. /\ Worker # Pad /\ Worker # Task("send", id, r, n) /\ Pad # Task("send", id, r, n)
  BY Zenon, TaskKinds
<1>2. /\ JustWorker # <<>> /\ JustPad # <<>> /\ PadThenWorker # <<>>
      /\ SendWorker(id, r, n) # <<>>
      /\ Head(JustWorker) = Worker /\ Head(JustPad) = Pad
      /\ Head(PadThenWorker) = Pad
      /\ Head(SendWorker(id, r, n)) = Task("send", id, r, n)
      /\ Tail(JustPad) = <<>> /\ Tail(PadThenWorker) = JustWorker
  BY Zenon, Shapes
<1> QED
  BY Zenon, <1>1, <1>2

(* Appending one element to a sequence.                                    *)
LEMMA Appended ==
  ASSUME NEW S, NEW q \in Seq(S), NEW x \in S
  PROVE  /\ q \o <<x>> = Append(q, x)
         /\ Append(q, x) \in Seq(S) /\ Len(Append(q, x)) = Len(q) + 1
         /\ \A i \in 1..Len(q) : Append(q, x)[i] = q[i]
         /\ Append(q, x)[Len(q) + 1] = x
         /\ Append(q, x) # <<>>
<1>1. /\ Append(q, x) \in Seq(S) /\ Len(Append(q, x)) = Len(q) + 1
      /\ \A i \in 1..Len(q) : Append(q, x)[i] = q[i]
      /\ Append(q, x)[Len(q) + 1] = x
  BY AppendProperties
<1>2. <<x>> \in Seq(S) /\ Len(<<x>>) = 1 /\ <<x>>[1] = x
  OBVIOUS
<1>3. /\ q \o <<x>> \in Seq(S) /\ Len(q \o <<x>>) = Len(q) + 1
      /\ \A i \in 1..Len(q \o <<x>>) :
           (q \o <<x>>)[i] = IF i <= Len(q) THEN q[i] ELSE <<x>>[i - Len(q)]
  BY <1>2, ConcatProperties
<1>4. Len(q) \in Nat
  BY Zenon, LenProperties
<1>5. \A i \in 1..Len(q) + 1 : (q \o <<x>>)[i] = Append(q, x)[i]
  <2> SUFFICES ASSUME NEW i \in 1..Len(q) + 1
               PROVE  (q \o <<x>>)[i] = Append(q, x)[i]
    BY Zenon
  <2>1. CASE i \in 1..Len(q)
    BY <2>1, <1>1, <1>3, <1>4
  <2>2. CASE i = Len(q) + 1
    <3>1. i - Len(q) = 1 /\ ~(i <= Len(q)) /\ i \in 1..Len(q \o <<x>>)
      BY <2>2, <1>3, <1>4
    <3> QED
      BY Zenon, <3>1, <2>2, <1>1, <1>2, <1>3
  <2> QED
    BY <2>1, <2>2, <1>4
<1>6. q \o <<x>> = Append(q, x)
  BY Zenon, <1>1, <1>3, <1>5, SeqEqual
<1>7. Append(q, x) # <<>>
  <2>1. Len(<<>>) = 0 /\ Len(Append(q, x)) # 0
    BY <1>1, <1>4
  <2> QED
    BY Zenon, <2>1
<1> QED
  BY Zenon, <1>1, <1>6, <1>7

(* What taking the first element off a queue leaves.                       *)
LEMMA TakeFirst ==
  ASSUME NEW S, NEW q \in Seq(S), q # <<>>
  PROVE  /\ Head(q) \in S /\ Head(q) = q[1] /\ 1 \in 1..Len(q)
         /\ Tail(q) \in Seq(S) /\ Len(Tail(q)) = Len(q) - 1
         /\ \A i \in 1..Len(Tail(q)) : i + 1 \in 1..Len(q) /\ Tail(q)[i] = q[i + 1]
OBVIOUS

(* The elements of a queue have its type.                                  *)
LEMMA Elements ==
  ASSUME NEW S, NEW q \in Seq(S)
  PROVE  \A i \in 1..Len(q) : q[i] \in S
OBVIOUS

(* A sub-request that may be sent next keeps the order of the feed.        *)
LEMMA OneMore ==
  ASSUME NEW f \in Seq(Subs), WellFed(f), NEW s \in Subs, Follows(f, s),
         gen \in Nat
  PROVE  /\ Append(f, s) \in Seq(Subs) /\ Len(Append(f, s)) = Len(f) + 1
         /\ Append(f, s)[Len(f) + 1] = s
         /\ WellFed(Append(f, s))
         /\ Speaking(Append(f, s)) <=> Speaking(f) /\ s.kind \in {"prefill", "row"}
<1> DEFINE g == Append(f, s)
<1>1. /\ g \in Seq(Subs) /\ Len(g) = Len(f) + 1
      /\ \A i \in 1..Len(f) : g[i] = f[i]
      /\ g[Len(f) + 1] = s
  BY Appended
<1>2. Len(f) \in Nat
  BY Zenon, LenProperties
<1> HIDE DEF g
<1>3. \A i \in 1..Len(g) : i \in 1..Len(f) \/ i = Len(f) + 1
  BY <1>1, <1>2
<1>4. \A i \in 1..Len(f) : i \in 1..Len(g)
  BY <1>1, <1>2
<1>5. Len(f) + 1 \in 1..Len(g)
  BY <1>1, <1>2
<1>6. Speaking(g) <=> Speaking(f) /\ s.kind \in {"prefill", "row"}
  BY Zenon, <1>1, <1>3, <1>4, <1>5 DEF Speaking
<1>7. WellFed(g)
  <2> SUFFICES ASSUME NEW i \in 1..Len(g)
               PROVE  /\ g[i].id = i - 1
                      /\ (g[i].kind = "prefill") <=> (i = 1)
                      /\ g[i].kind = "row" =>
                           g[i].row = i - 1 /\ g[i-1].kind \in {"prefill", "row"}
                      /\ g[i].kind = "eos" => g[i-1].kind = "row"
                      /\ g[i].kind = "pad" => g[i-1].kind \in {"eos", "pad"}
                      /\ g[i].kind \in {"prefill", "row"} => g[i].row < g[i].have
                      /\ g[i].kind = "eos" => ended /\ g[i-1].row = gen - 2
    BY Zenon DEF WellFed
  <2>1. CASE i \in 1..Len(f)
    <3>1. g[i] = f[i]
      BY Zenon, <2>1, <1>1
    <3>2. CASE i = 1
      BY <3>1, <3>2, <2>1 DEF WellFed
    <3>3. CASE i # 1
      <4>1. i - 1 \in 1..Len(f)
        BY <3>3, <2>1, <1>2
      <4>2. g[i-1] = f[i-1]
        BY Zenon, <4>1, <1>1
      <4> QED
        BY <4>2, <3>1, <2>1 DEF WellFed
    <3> QED
      BY Zenon, <3>2, <3>3
  <2>2. CASE i = Len(f) + 1
    <3>1. g[i] = s /\ i - 1 = Len(f)
      BY <2>2, <1>1, <1>2
    <3>2. CASE s.kind = "prefill"
      BY <3>1, <3>2, <2>2 DEF Follows
    <3>3. CASE s.kind # "prefill"
      <4>1. Len(f) > 0
        BY <3>3 DEF Follows
      <4>2. Len(f) \in 1..Len(f)
        BY <4>1, <1>2
      <4>3. g[i-1] = f[Len(f)]
        BY Zenon, <4>2, <3>1, <1>1
      <4>4. i # 1 /\ s.id = i - 1
        BY <4>1, <3>1, <2>2, <1>2 DEF Follows
      <4>5. CASE s.kind = "row"
        <5>1. s.row = i - 1 /\ s.row < s.have /\ Speaking(f)
          BY Zenon, <4>5, <3>1 DEF Follows
        <5>2. g[i-1].kind \in {"prefill", "row"}
          BY Zenon, <5>1, <4>2, <4>3 DEF Speaking
        <5> QED
          BY Zenon, <5>1, <5>2, <4>4, <4>5, <3>1
      <4>6. CASE s.kind = "eos"
        <5>1. ended /\ Len(f) = gen - 1 /\ Speaking(f) /\ Len(f) > 1
          BY Zenon, <4>6 DEF Follows
        <5>2. f[Len(f)].kind = "row"
          BY <5>1, <4>2 DEF Speaking, WellFed
        <5>3. f[Len(f)].row = gen - 2
          BY <5>1, <5>2, <4>2, <1>2 DEF WellFed
        <5> QED
          BY Zenon, <5>1, <5>2, <5>3, <4>3, <4>4, <4>6, <3>1
      <4>7. CASE s.kind = "pad"
        BY Zenon, <4>7, <4>3, <4>4, <3>1 DEF Follows
      <4> QED
        BY Zenon, <4>5, <4>6, <4>7, <3>3 DEF Follows
    <3> QED
      BY Zenon, <3>2, <3>3
  <2> QED
    BY Zenon, <2>1, <2>2, <1>3
<1> QED
  BY Zenon, <1>1, <1>6, <1>7 DEF g

-----------------------------------------------------------------------------
(* Stage 0 generates only while it has not ended, and then no end of       *)
(* speech has been sent and the worker is not catching up.                 *)
LEMMA ThinkerStepKeeps == IInv /\ ThinkerStep => IInv'
<1> SUFFICES ASSUME IInv, ThinkerStep
             PROVE  IInv'
  BY Zenon
<1>1. /\ ~ended /\ gen' = gen + 1
      /\ ended' \in IF gen' = MaxGen THEN {TRUE} ELSE BOOLEAN
      /\ UNCHANGED <<q0, shown, ready, wpc, row, len, lastIdx, prefilled, havePad,
                     chunkSeq, padLeft, feed, routes, told, phase>>
  BY Zenon DEF ThinkerStep
<1>2. TypeOK /\ ResultsInv /\ TaskInv /\ SpeechInv /\ WellFed(feed)
  BY Zenon DEF IInv
<1>3. gen \in Nat /\ gen < MaxGen /\ MaxGen \in Nat
  BY <1>1, <1>2, GenAssumption DEF TypeOK, ResultsInv
<1>4. /\ gen' \in 0..MaxGen /\ shown' \in 0..gen'
      /\ ended' \in BOOLEAN /\ (gen' = MaxGen => ended')
  <2>1. gen' \in 0..MaxGen
    BY <1>1, <1>3
  <2>2. shown' \in 0..gen'
    BY <1>1, <1>2, <1>3 DEF TypeOK
  <2>3. ended' \in BOOLEAN /\ (gen' = MaxGen => ended')
    BY Zenon, <1>1
  <2> QED
    BY Zenon, <2>1, <2>2, <2>3
<1>5. TypeOK'
  BY Zenon, <1>1, <1>2, <1>4 DEF TypeOK
<1>6. ResultsInv'
  BY Zenon, <1>1, <1>2, <1>4 DEF ResultsInv
<1>7. Speaking(feed) /\ wpc \notin {"loop", "dead"}
  BY Zenon, <1>1, <1>2 DEF SpeechInv, Exhausted
<1>8. TaskInv'
  BY Zenon, <1>1, <1>2 DEF TaskInv, SendThenWorker, Speaking
<1>9. SpeechInv'
  BY Zenon, <1>1, <1>2, <1>7 DEF SpeechInv, Speaking
<1>10. WellFed(feed)'
  BY Zenon, <1>1, <1>2, <1>7 DEF WellFed, Speaking
<1> QED
  BY Zenon, <1>5, <1>6, <1>8, <1>9, <1>10 DEF IInv

(* What Wake does to the queue while the worker waits in get.              *)
LEMMA WakeShape ==
  ASSUME Wake
  PROVE  /\ wpc # "idle" => ready' = ready
         /\ ready = <<>> /\ wpc = "idle" => ready' = JustWorker
         /\ ready = JustPad /\ wpc = "idle" => ready' = PadThenWorker
         /\ ready \in {JustWorker, PadThenWorker} => ready' = ready
<1>1. Worker # Pad
  BY Zenon, TaskKinds
<1>2. /\ Append(<<>>, Worker) = JustWorker /\ Append(JustPad, Worker) = PadThenWorker
  BY Zenon, Shapes
<1>3. wpc # "idle" => ready' = ready
  BY Zenon DEF Wake
<1>4. CASE ready = <<>>
  <2>1. 1..Len(<<>>) = {}
    OBVIOUS
  <2>2. \A i \in 1..Len(ready) : ready[i] # Worker
    BY Zenon, <2>1, <1>4
  <2>3. wpc = "idle" => ready' = Append(<<>>, Worker)
    BY Zenon, <2>2, <1>4 DEF Wake
  <2>4. ready # JustPad /\ ready \notin {JustWorker, PadThenWorker}
    BY Zenon, <1>4, Shapes
  <2> QED
    BY Zenon, <2>3, <2>4, <1>2, <1>3
<1>5. CASE ready = JustPad
  <2>1. Len(ready) = 1 /\ ready[1] = Pad
    BY Zenon, <1>5 DEF JustPad
  <2>2. \A i \in 1..Len(ready) : ready[i] # Worker
    BY <2>1, <1>1
  <2>3. wpc = "idle" => ready' = Append(JustPad, Worker)
    BY Zenon, <2>2, <1>5 DEF Wake
  <2>4. Tail(JustPad) = <<>> /\ Tail(PadThenWorker) = JustWorker /\ JustWorker # <<>>
        /\ Head(JustPad) = Pad /\ Head(JustWorker) = Worker /\ JustPad # <<>>
    BY Zenon, Shapes
  <2>5. ready # <<>> /\ ready \notin {JustWorker, PadThenWorker}
    BY Zenon, <2>4, <1>5, <1>1
  <2> QED
    BY Zenon, <2>3, <2>5, <1>2, <1>3
<1>6. CASE ready = JustWorker
  <2>1. Len(ready) = 1 /\ ready[1] = Worker
    BY Zenon, <1>6 DEF JustWorker
  <2>2. 1 \in 1..Len(ready)
    BY <2>1
  <2>3. ready' = ready
    BY Zenon, <2>1, <2>2 DEF Wake
  <2>4. ready # <<>> /\ ready # JustPad
    BY Zenon, <1>6, <1>1, Shapes
  <2> QED
    BY Zenon, <2>3, <2>4
<1>7. CASE ready = PadThenWorker
  <2>1. Len(ready) = 2 /\ ready[2] = Worker
    BY Zenon, <1>7 DEF PadThenWorker
  <2>2. 2 \in 1..Len(ready)
    BY <2>1
  <2>3. ready' = ready
    BY Zenon, <2>1, <2>2 DEF Wake
  <2>4. Tail(JustPad) = <<>> /\ Tail(PadThenWorker) = JustWorker /\ JustWorker # <<>>
        /\ PadThenWorker # <<>>
    BY Zenon, Shapes
  <2>5. ready # <<>> /\ ready # JustPad
    BY Zenon, <2>4, <1>7
  <2> QED
    BY Zenon, <2>3, <2>5
<1> QED
  BY Zenon, <1>3, <1>4, <1>5, <1>6, <1>7

(* A result put into stage_queues[0] is longer than all before it, and a   *)
(* finished one is the last.                                               *)
LEMMA DeliverKeeps == IInv /\ Deliver => IInv'
<1> SUFFICES ASSUME IInv, Deliver
             PROVE  IInv'
  BY Zenon
<1> DEFINE res == [len |-> gen, fin |-> ended]
<1>1. /\ phase = "running" /\ shown < gen /\ q0' = Append(q0, res)
      /\ shown' = gen /\ Wake
      /\ gen' = gen /\ ended' = ended
      /\ UNCHANGED <<wpc, row, len, lastIdx, prefilled, havePad,
                     chunkSeq, padLeft, feed, routes, told, phase>>
  BY Zenon DEF Deliver, thinker
<1>2. TypeOK /\ ResultsInv /\ TaskInv /\ SpeechInv /\ WellFed(feed)
  BY Zenon DEF IInv
<1>3. /\ gen \in 1..MaxGen /\ gen \in Nat /\ shown \in Nat /\ ended \in BOOLEAN
      /\ MaxGen \in Nat
  BY <1>1, <1>2, GenAssumption DEF TypeOK
<1>4. Speaking(feed) /\ wpc = "idle"
  BY <1>1, <1>2, <1>3 DEF SpeechInv, Exhausted, TypeOK, TaskInv
<1>5. ready' = JustWorker /\ padLeft = 0
  <2>1. ready \in {<<>>, JustWorker}
    BY Zenon, <1>1, <1>2, <1>4 DEF TaskInv
  <2>2. ready \notin {JustPad, PadThenWorker}
    BY Zenon, <2>1, Distinct
  <2>3. padLeft = 0
    BY <2>2, <1>2 DEF TaskInv, TypeOK
  <2> QED
    BY Zenon, <2>1, <2>3, <1>1, <1>4, WakeShape
<1>6. res \in [len : 1..MaxGen, fin : BOOLEAN]
  BY Zenon, <1>3
<1>7. /\ q0' \in Seq([len : 1..MaxGen, fin : BOOLEAN]) /\ Len(q0') = Len(q0) + 1
      /\ \A i \in 1..Len(q0) : q0'[i] = q0[i]
      /\ q0'[Len(q0) + 1] = res
  <2>1. q0 \in Seq([len : 1..MaxGen, fin : BOOLEAN])
    BY Zenon, <1>2 DEF TypeOK
  <2> HIDE DEF res
  <2> QED
    BY <2>1, <1>6, <1>1, Appended
<1>8. TypeOK'
  <2>1. ready' \in Seq(Tasks)
    <3>1. Worker \in Tasks
      BY Zenon, TaskKinds
    <3> QED
      BY <3>1, <1>5 DEF JustWorker
  <2>2. shown' \in 0..gen' /\ told' \in 0..shown'
    BY <1>1, <1>2, <1>3 DEF TypeOK
  <2> QED
    BY Zenon, <2>1, <2>2, <1>1, <1>2, <1>7 DEF TypeOK
<1>9. ResultsInv'
  <2>1. Len(q0) \in Nat /\ told \in Nat /\ told <= shown
    BY <1>2, <1>3, LenProperties DEF TypeOK
  <2>2. \A i \in 1..Len(q0) :
          /\ told < q0[i].len /\ q0[i].len <= shown /\ q0[i].len \in Nat
          /\ ~q0[i].fin
    <3>1. \A i \in 1..Len(q0) : told < q0[i].len /\ q0[i].len <= shown
      BY Zenon, <1>2 DEF ResultsInv
    <3>2. \A i \in 1..Len(q0) : q0[i].len \in Nat
      <4>0. q0 \in Seq([len : 1..MaxGen, fin : BOOLEAN])
        BY Zenon, <1>2 DEF TypeOK
      <4>1. \A i \in 1..Len(q0) : q0[i] \in [len : 1..MaxGen, fin : BOOLEAN]
        BY Zenon, <4>0, Elements
      <4> QED
        BY <4>1, <1>3
    <3>3. \A i \in 1..Len(q0) : ~q0[i].fin
      BY <3>1, <3>2, <1>1, <1>2, <1>3 DEF ResultsInv
    <3> QED
      BY Zenon, <3>1, <3>2, <3>3
  <2>3. \A i \in 1..Len(q0') : i \in 1..Len(q0) \/ i = Len(q0) + 1
    BY <2>1, <1>7
  <2>4. \A i \in 1..Len(q0') :
          /\ told < q0'[i].len /\ q0'[i].len <= shown'
          /\ q0'[i].fin => i = Len(q0') /\ ended /\ q0'[i].len = gen
    <3>1. \A i \in 1..Len(q0) :
            /\ told < q0'[i].len /\ q0'[i].len <= shown' /\ ~q0'[i].fin
      BY <2>2, <1>7, <1>1, <1>3
    <3>2. /\ told < q0'[Len(q0) + 1].len /\ q0'[Len(q0) + 1].len = gen
          /\ q0'[Len(q0) + 1].fin = ended
      BY <2>1, <1>7, <1>1, <1>3
    <3> QED
      BY <3>1, <3>2, <2>3, <1>1, <1>3, <1>7
  <2>5. ASSUME NEW i \in 1..Len(q0'), NEW j \in 1..Len(q0'), i < j
        PROVE  q0'[i].len < q0'[j].len
    <3>1. i \in 1..Len(q0) /\ q0'[i] = q0[i]
      BY <2>5, <2>1, <1>7
    <3>2. CASE j \in 1..Len(q0)
      BY Zenon, <3>1, <3>2, <2>5, <1>2, <1>7 DEF ResultsInv
    <3>3. CASE j = Len(q0) + 1
      BY <3>1, <3>3, <2>2, <1>1, <1>3, <1>7
    <3> QED
      BY Zenon, <3>2, <3>3, <2>3
  <2> QED
    BY Zenon, <2>4, <2>5, <1>1, <1>2 DEF ResultsInv
<1>10. TaskInv'
  <2>1. JustWorker \notin {JustPad, PadThenWorker}
    BY Zenon, Distinct
  <2> QED
    BY Zenon, <2>1, <1>1, <1>2, <1>4, <1>5 DEF TaskInv
<1>11. SpeechInv'
  BY Zenon, <1>1, <1>2, <1>4 DEF SpeechInv, Speaking
<1>12. WellFed(feed)'
  BY Zenon, <1>1, <1>2 DEF WellFed
<1> QED
  BY Zenon, <1>8, <1>9, <1>10, <1>11, <1>12 DEF IInv

(* What the worker finds when it takes a result.                           *)
LEMMA Taken ==
  ASSUME IInv, TakeResult, UNCHANGED <<gen, ended, shown>>
  PROVE  /\ ready = JustWorker /\ Tail(ready) = <<>> /\ padLeft = 0
         /\ Speaking(feed) /\ phase = "running" /\ wpc = "idle"
         /\ Head(q0).len \in 1..MaxGen /\ Head(q0).fin \in BOOLEAN
         /\ told < Head(q0).len /\ Head(q0).len <= shown
         /\ Head(q0).fin => q0' = <<>> /\ ended /\ Head(q0).len = gen /\ shown = gen
         /\ q0' \in Seq([len : 1..MaxGen, fin : BOOLEAN])
         /\ told' \in {told, Head(q0).len} => ResultsInv'
<1> DEFINE R == [len : 1..MaxGen, fin : BOOLEAN]
<1>1. /\ ready # <<>> /\ Head(ready) = Worker /\ phase = "running"
      /\ wpc = "idle" /\ q0 # <<>> /\ q0' = Tail(q0)
  BY Zenon DEF TakeResult
<1>2. TypeOK /\ ResultsInv /\ TaskInv /\ SpeechInv
  BY Zenon DEF IInv
<1>3. q0 \in Seq(R) /\ shown \in Nat /\ gen \in Nat /\ told \in Nat /\ shown <= gen
      /\ MaxGen \in Nat
  BY <1>2, GenAssumption DEF TypeOK
<1> HIDE DEF R
<1>4. ready = JustWorker /\ Tail(ready) = <<>> /\ padLeft = 0
  <2>1. ready \in {<<>>, JustWorker, JustPad}
    BY Zenon, <1>1, <1>2 DEF TaskInv
  <2>2. /\ Head(JustPad) = Pad /\ Worker # Pad /\ Tail(JustWorker) = <<>>
        /\ JustWorker \notin {JustPad, PadThenWorker}
    BY Zenon, Shapes, TaskKinds, Distinct
  <2>3. ready = JustWorker
    BY Zenon, <2>1, <2>2, <1>1
  <2>4. padLeft = 0
    BY <2>2, <2>3, <1>2 DEF TaskInv, TypeOK
  <2> QED
    BY Zenon, <2>2, <2>3, <2>4
<1>5. Speaking(feed)
  BY Zenon, <1>1, <1>2 DEF SpeechInv, Exhausted
<1>6. /\ Head(q0) \in R /\ Head(q0) = q0[1] /\ 1 \in 1..Len(q0)
      /\ q0' \in Seq(R) /\ Len(q0') = Len(q0) - 1
      /\ \A i \in 1..Len(q0') : i + 1 \in 1..Len(q0) /\ q0'[i] = q0[i + 1]
  BY Zenon, <1>1, <1>3, TakeFirst
<1>7. \A i \in 1..Len(q0) : q0[i].len \in Nat /\ q0[i].fin \in BOOLEAN
  <2>1. \A i \in 1..Len(q0) : q0[i] \in R
    BY <1>3
  <2> QED
    BY <2>1, <1>3 DEF R
<1>8. Head(q0).len \in 1..MaxGen /\ Head(q0).fin \in BOOLEAN
  BY Zenon, <1>6 DEF R
<1>9. told < Head(q0).len /\ Head(q0).len <= shown
  BY Zenon, <1>2, <1>6 DEF ResultsInv
<1>10. Head(q0).fin => q0' = <<>> /\ ended /\ Head(q0).len = gen /\ shown = gen
  <2> SUFFICES ASSUME Head(q0).fin
               PROVE  q0' = <<>> /\ ended /\ Head(q0).len = gen /\ shown = gen
    BY Zenon
  <2>1. 1 = Len(q0) /\ ended /\ Head(q0).len = gen
    BY Zenon, <1>2, <1>6 DEF ResultsInv
  <2>2. shown = gen
    BY <2>1, <1>3, <1>9
  <2>3. Len(q0') = 0
    BY <2>1, <1>6
  <2>4. q0' = <<>>
    BY Zenon, <2>3, <1>6, EmptySeq
  <2> QED
    BY Zenon, <2>1, <2>2, <2>4
<1>11. ASSUME told' \in {told, Head(q0).len}
       PROVE  ResultsInv'
  <2>1. \A i, j \in 1..Len(q0') : i < j => q0'[i].len < q0'[j].len
    <3> SUFFICES ASSUME NEW i \in 1..Len(q0'), NEW j \in 1..Len(q0'), i < j
                 PROVE  q0'[i].len < q0'[j].len
      BY Zenon
    <3>1. /\ i + 1 \in 1..Len(q0) /\ j + 1 \in 1..Len(q0) /\ i + 1 < j + 1
          /\ q0'[i] = q0[i + 1] /\ q0'[j] = q0[j + 1]
      BY <1>6
    <3> QED
      BY Zenon, <3>1, <1>2 DEF ResultsInv
  <2>2. ASSUME NEW i \in 1..Len(q0')
        PROVE  /\ told' < q0'[i].len /\ q0'[i].len <= shown
               /\ q0'[i].fin => i = Len(q0') /\ ended /\ q0'[i].len = gen
    <3>1. i + 1 \in 1..Len(q0) /\ q0'[i] = q0[i + 1] /\ 1 < i + 1
      BY <1>6
    <3>2. /\ told < q0[i + 1].len /\ q0[i + 1].len <= shown
          /\ q0[i + 1].fin => i + 1 = Len(q0) /\ ended /\ q0[i + 1].len = gen
          /\ q0[1].len < q0[i + 1].len
      BY Zenon, <3>1, <1>2, <1>6 DEF ResultsInv
    <3>3. q0'[i].fin => i = Len(q0') /\ ended /\ q0'[i].len = gen
      <4>1. Len(q0) \in Nat
        BY Zenon, <1>3, LenProperties
      <4> QED
        BY <4>1, <3>1, <3>2, <1>6
    <3> QED
      BY Zenon, <3>1, <3>2, <3>3, <1>6, <1>11
  <2> QED
    BY Zenon, <2>1, <2>2, <1>2 DEF ResultsInv
<1> QED
  BY Zenon, <1>1, <1>4, <1>5, <1>6, <1>8, <1>9, <1>10, <1>11 DEF R

(* get returns at once while there is more, else the worker waits.         *)
LEMMA ContinueShape ==
  ASSUME Continue, ready = JustWorker, Tail(ready) = <<>>
  PROVE  /\ ready' \in {<<>>, JustWorker} /\ ready' \in Seq(Tasks)
         /\ ready' \notin {JustPad, PadThenWorker}
<1>1. ready' \in {<<>>, JustWorker}
  BY Zenon DEF Continue
<1>2. JustWorker \in Seq(Tasks) /\ <<>> \in Seq(Tasks)
  <2>1. Worker \in Tasks
    BY Zenon, TaskKinds
  <2> QED
    BY <2>1 DEF JustWorker
<1>3. /\ JustWorker \notin {JustPad, PadThenWorker} /\ <<>> \notin {JustPad, PadThenWorker}
  BY Zenon, Distinct
<1> QED
  BY Zenon, <1>1, <1>2, <1>3

(* A result with too little text changes only the text of the client.      *)
LEMMA SkipResultKeeps == IInv /\ SkipResult => IInv'
<1> SUFFICES ASSUME IInv, SkipResult
             PROVE  IInv'
  BY Zenon
<1>1. /\ TakeResult /\ Continue /\ told' = Head(q0).len
      /\ gen' = gen /\ ended' = ended
      /\ UNCHANGED <<shown, wpc, row, len, lastIdx, prefilled, havePad,
                     chunkSeq, padLeft, feed, routes, phase>>
  BY Zenon DEF SkipResult, thinker
<1>2. TypeOK /\ ResultsInv /\ TaskInv /\ SpeechInv /\ WellFed(feed)
  BY Zenon DEF IInv
<1>3. /\ ready = JustWorker /\ Tail(ready) = <<>> /\ padLeft = 0
      /\ Speaking(feed) /\ phase = "running" /\ wpc = "idle"
      /\ Head(q0).len \in 1..MaxGen
      /\ told < Head(q0).len /\ Head(q0).len <= shown
      /\ q0' \in Seq([len : 1..MaxGen, fin : BOOLEAN])
      /\ ResultsInv'
  BY Zenon, <1>1, Taken
<1>4. /\ ready' \in {<<>>, JustWorker} /\ ready' \in Seq(Tasks)
      /\ ready' \notin {JustPad, PadThenWorker}
  BY Zenon, <1>1, <1>3, ContinueShape
<1>5. TypeOK'
  <2>1. told' \in 0..shown'
    BY <1>1, <1>2, <1>3, GenAssumption DEF TypeOK
  <2> QED
    BY Zenon, <2>1, <1>1, <1>2, <1>3, <1>4 DEF TypeOK
<1>6. TaskInv'
  BY Zenon, <1>1, <1>2, <1>3, <1>4 DEF TaskInv
<1>7. SpeechInv'
  <2>1. wpc' = "idle" /\ prefilled' =>
          lastIdx' = Len(feed') - 1 /\ lastIdx' + 2 <= told'
    <3>1. prefilled => lastIdx = Len(feed) - 1 /\ lastIdx + 2 <= told
      BY Zenon, <1>2, <1>3 DEF SpeechInv
    <3> QED
      BY <3>1, <1>1, <1>2, <1>3 DEF TypeOK
  <2> QED
    BY Zenon, <2>1, <1>1, <1>2, <1>3 DEF SpeechInv, Speaking
<1>8. WellFed(feed)'
  BY <1>1, <1>2 DEF WellFed
<1> QED
  BY Zenon, <1>3, <1>5, <1>6, <1>7, <1>8 DEF IInv

(* What is sent is registered under its ids.                               *)
LEMMA SendTypes ==
  ASSUME NEW subs \in Seq(Subs), Send(subs), routes \subseteq Nat
  PROVE  feed' = feed \o subs /\ routes' \subseteq Nat
<1>1. \A i \in DOMAIN subs : subs[i].id \in Nat
  <2>1. \A i \in DOMAIN subs : subs[i] \in Subs
    OBVIOUS
  <2> QED
    BY Zenon, <2>1 DEF Subs
<1> QED
  BY Zenon, <1>1 DEF Send

(* Appending behind what is concatenated.                                  *)
LEMMA AppendBehind ==
  ASSUME NEW S, NEW f \in Seq(S), NEW g \in Seq(S), NEW x \in S
  PROVE  f \o Append(g, x) = Append(f \o g, x)
<1>1. /\ g \o <<x>> = Append(g, x) /\ <<x>> \in Seq(S)
  BY Appended
<1>2. f \o g \in Seq(S)
  BY Zenon, ConcatProperties
<1>3. (f \o g) \o <<x>> = Append(f \o g, x)
  BY <1>2, Appended
<1>4. (f \o g) \o <<x>> = f \o (g \o <<x>>)
  BY <1>1, ConcatAssociative
<1> QED
  BY Zenon, <1>1, <1>3, <1>4

(* The finished branch: as long as a row is left a task is spawned for it, *)
(* else the marker follows exactly the last row of the answer.             *)
LEMMA CatchUpKeeps ==
  ASSUME IInv, phase = "running", padLeft = 0,
         NEW subs \in Seq(Subs), NEW seq \in Nat, NEW r \in Nat, NEW n \in Nat,
         NEW pad \in BOOLEAN,
         CatchUp(subs, seq, r, n, pad, <<>>),
         UNCHANGED <<gen, ended, shown, phase>>,
         WellFed(feed \o subs), Speaking(feed \o subs), Len(feed \o subs) = seq,
         r = seq, r <= n - 1, r > 0, n = gen, ended, shown = gen, q0' = <<>>,
         pad => seq > 1,
         prefilled' = TRUE, havePad' = pad, lastIdx' \in Nat
  PROVE  IInv'
<1> DEFINE f == feed \o subs
<1>1. TypeOK /\ ResultsInv /\ TaskInv /\ SpeechInv
  BY Zenon DEF IInv
<1>2. gen \in 0..MaxGen /\ MaxGen \in Nat /\ feed \in Seq(Subs) /\ routes \subseteq Nat
      /\ BURST \in Nat /\ BURST > 0
  BY <1>1, GenAssumption DEF TypeOK
<1>3. f \in Seq(Subs) /\ Len(f) = seq /\ WellFed(f) /\ Speaking(f)
  BY Zenon, <1>2, ConcatProperties
<1> HIDE DEF f
<1>4. Exhausted'
  BY Zenon DEF Exhausted
<1>5. ResultsInv'
  <2>1. 1..Len(<<>>) = {}
    OBVIOUS
  <2>2. gen' = MaxGen => ended'
    BY Zenon
  <2> QED
    BY Zenon, <2>1, <2>2 DEF ResultsInv
<1>6. q0' \in Seq([len : 1..MaxGen, fin : BOOLEAN])
  OBVIOUS
<1>7. CASE /\ RowLeft(r, n) /\ Send(subs) /\ Spawn(<<>>, seq, r, n)
           /\ wpc' = "loop" /\ row' = r + 1 /\ len' = n /\ chunkSeq' = seq
           /\ UNCHANGED <<padLeft, told>>
  <2>1. feed' = f /\ routes' \subseteq Nat
    BY Zenon, <1>2, <1>7, SendTypes DEF f
  <2>2. ready' = SendWorker(seq, r, n)
    BY <1>7, Shapes DEF Spawn
  <2>3. ready' \in Seq(Tasks)
    <3>1. Worker \in Tasks /\ Task("send", seq, r, n) \in Tasks
      BY Zenon, TaskKinds
    <3> QED
      BY <3>1, <2>2 DEF SendWorker
  <2>4. r < n - 1
    BY Zenon, <1>7 DEF RowLeft
  <2>5. TypeOK'
    <3>1. row' \in Nat /\ len' \in 0..MaxGen /\ wpc' \in {"idle", "loop", "done", "dead"}
      BY <1>2, <1>7
    <3>2. chunkSeq' \in Nat /\ feed' \in Seq(Subs)
      BY Zenon, <2>1, <1>3, <1>7
    <3> QED
      BY Zenon, <3>1, <3>2, <2>1, <2>3, <1>1, <1>6, <1>7 DEF TypeOK
  <2>6. SendThenWorker' = SendWorker(seq, r, n)
    <3>1. row' - 1 = r
      BY <1>7
    <3> QED
      BY <3>1, <1>7 DEF SendThenWorker
  <2>7. ready' \notin {JustWorker, JustPad, PadThenWorker}
    BY <2>2, Distinct
  <2>8. TaskInv'
    BY <2>2, <2>6, <2>7, <1>7 DEF TaskInv
  <2>9. Speaking(feed)' /\ WellFed(feed)'
    BY <2>1, <1>3 DEF WellFed, Speaking
  <2>10. SpeechInv'
    <3>1. row' \in 2..len' - 1 /\ len' = gen' /\ row' = chunkSeq' + 1
      BY <2>4, <1>7
    <3>2. chunkSeq' = Len(feed') /\ Len(feed') > 0
      BY Zenon, <2>1, <1>3, <1>7
    <3> QED
      BY Zenon, <3>1, <3>2, <2>7, <2>9, <1>4, <1>7 DEF SpeechInv
  <2> QED
    BY <2>5, <2>8, <2>9, <2>10, <1>5 DEF IInv
<1>8. CASE /\ ~RowLeft(r, n) /\ pad /\ Send(Append(subs, Sub(seq, "eos", 0, n)))
           /\ ready' = Append(<<>>, Pad) /\ wpc' = "idle" /\ padLeft' = BURST
           /\ chunkSeq' = seq + 1 /\ told' = n /\ UNCHANGED <<row, len>>
  <2> DEFINE e == Sub(seq, "eos", 0, n)
  <2>1. e \in Subs /\ e.kind = "eos" /\ e.id = seq
    BY DEF Sub, Subs
  <2> HIDE DEF e
  <2>2. r = n - 1 /\ seq > 1
    BY <1>8 DEF RowLeft
  <2>3. Follows(f, e)
    BY Zenon, <2>1, <2>2, <1>3 DEF Follows
  <2>4. Append(subs, e) \in Seq(Subs)
    BY Zenon, <2>1, Appended
  <2>5. feed' = Append(f, e) /\ routes' \subseteq Nat
    <3>1. feed' = feed \o Append(subs, e) /\ routes' \subseteq Nat
      BY Zenon, <2>4, <1>2, <1>8, SendTypes DEF e
    <3> QED
      BY <3>1, <2>1, <1>2, AppendBehind DEF f
  <2>6. /\ feed' \in Seq(Subs) /\ Len(feed') = seq + 1 /\ feed'[seq + 1] = e
        /\ WellFed(Append(f, e)) /\ ~Speaking(Append(f, e))
    <3>1. gen \in Nat
      BY Zenon, <1>2
    <3> QED
      BY <3>1, <2>1, <2>3, <2>5, <1>3, OneMore
  <2>7. ready' = JustPad /\ ready' \in Seq(Tasks)
    <3>1. Pad \in Tasks /\ Append(<<>>, Pad) = JustPad
      BY Zenon, TaskKinds, Shapes
    <3> QED
      BY <3>1, <1>8 DEF JustPad
  <2>8. TypeOK'
    <3>1. chunkSeq' \in Nat /\ padLeft' \in 0..BURST /\ told' \in 0..shown'
      BY <1>2, <1>8
    <3> QED
      BY Zenon, <3>1, <2>5, <2>6, <2>7, <1>1, <1>6, <1>8 DEF TypeOK
  <2>9. ~Speaking(feed)' /\ WellFed(feed)'
    BY ZenonT(40), <2>5, <2>6 DEF WellFed, Speaking
  <2>10. TaskInv'
    <3>1. JustPad # PadThenWorker /\ padLeft' > 0
      BY Zenon, <1>2, <1>8, Distinct
    <3> QED
      BY Zenon, <3>1, <2>7, <2>9, <1>8 DEF TaskInv
  <2>11. SpeechInv'
    <3>1. /\ chunkSeq' = Len(feed') /\ Len(feed') > 1
          /\ feed'[Len(feed')].kind = "eos"
      <4>1. chunkSeq' = seq + 1
        BY <1>8
      <4>2. Len(feed') = seq + 1 /\ feed'[seq + 1] = e
        BY Zenon, <2>6
      <4>3. feed'[Len(feed')].kind = "eos"
        BY Zenon, <4>2, <2>1
      <4>4. Len(feed') > 1
        BY <4>2, <2>2
      <4> QED
        BY Zenon, <4>1, <4>2, <4>3, <4>4
    <3>2. Len(feed') > 0
      BY <2>6
    <3> QED
      BY Zenon, <3>1, <3>2, <2>9, <1>4, <1>8 DEF SpeechInv
  <2> QED
    BY Zenon, <2>8, <2>9, <2>10, <2>11, <1>5 DEF IInv
<1>9. CASE /\ ~RowLeft(r, n) /\ ~pad /\ Send(subs) /\ ready' = <<>>
           /\ wpc' = "dead" /\ chunkSeq' = seq
           /\ UNCHANGED <<row, len, padLeft, told>>
  <2>1. feed' = f /\ routes' \subseteq Nat
    BY <1>2, <1>9, SendTypes DEF f
  <2>2. TypeOK'
    <3>1. ready' \in Seq(Tasks) /\ feed' \in Seq(Subs)
      BY <2>1, <1>3, <1>9
    <3> QED
      BY Zenon, <3>1, <2>1, <1>1, <1>6, <1>9 DEF TypeOK
  <2>3. Speaking(feed)' /\ WellFed(feed)'
    BY <2>1, <1>3 DEF WellFed, Speaking
  <2>4. TaskInv'
    <3>1. <<>> \notin {JustPad, PadThenWorker}
      BY Zenon, Distinct
    <3> QED
      BY <3>1, <2>3, <1>9 DEF TaskInv
  <2>5. SpeechInv'
    <3>1. chunkSeq' = Len(feed') /\ Len(feed') > 0
      BY Zenon, <2>1, <1>3, <1>9
    <3> QED
      BY Zenon, <3>1, <2>3, <1>4, <1>9 DEF SpeechInv
  <2> QED
    BY Zenon, <2>2, <2>3, <2>4, <2>5, <1>5 DEF IInv
<1> QED
  BY Zenon, <1>7, <1>8, <1>9 DEF CatchUp

(* The first result with enough text is the prefill; every later one is    *)
(* longer than the one before, so it has the next row.                     *)
LEMMA TossResultKeeps == IInv /\ TossResult => IInv'
<1> SUFFICES ASSUME IInv, TossResult
             PROVE  IInv'
  BY Zenon
<1> DEFINE n == Head(q0).len
           nxt == IF prefilled THEN lastIdx + 1 ELSE 0
           sub == Sub(chunkSeq, IF prefilled THEN "row" ELSE "prefill", nxt, n)
<1>1. /\ TakeResult /\ ShouldToss(n) /\ prefilled' = TRUE /\ lastIdx' = nxt
      /\ havePad' = PadCaptured
      /\ UNCHANGED <<gen, ended, shown, phase>>
      /\ Head(q0).fin => CatchUp(<<sub>>, chunkSeq + 1, nxt + 1, n, havePad', Tail(ready))
      /\ ~Head(q0).fin => /\ Send(<<sub>>) /\ chunkSeq' = chunkSeq + 1
                          /\ Continue /\ told' = n
                          /\ UNCHANGED <<wpc, row, len, padLeft>>
  BY Zenon DEF TossResult, thinker
<1>2. TypeOK /\ ResultsInv /\ TaskInv /\ SpeechInv /\ WellFed(feed)
  BY Zenon DEF IInv
<1>3. /\ ready = JustWorker /\ Tail(ready) = <<>> /\ padLeft = 0
      /\ Speaking(feed) /\ phase = "running" /\ wpc = "idle"
      /\ n \in 1..MaxGen /\ Head(q0).fin \in BOOLEAN
      /\ told < n /\ n <= shown
      /\ Head(q0).fin => q0' = <<>> /\ ended /\ n = gen /\ shown = gen
      /\ q0' \in Seq([len : 1..MaxGen, fin : BOOLEAN])
      /\ told' \in {told, n} => ResultsInv'
  BY <1>1, Taken
<1>4. /\ feed \in Seq(Subs) /\ chunkSeq \in Nat /\ lastIdx \in Nat /\ told \in Nat
      /\ prefilled \in BOOLEAN /\ havePad \in BOOLEAN /\ routes \subseteq Nat
      /\ gen \in Nat /\ MaxGen \in Nat /\ shown \in Nat /\ shown <= gen
  BY <1>2, GenAssumption DEF TypeOK
<1>5. /\ chunkSeq = Len(feed) /\ (prefilled <=> Len(feed) > 0) /\ (havePad => prefilled)
      /\ prefilled => lastIdx = Len(feed) - 1 /\ lastIdx + 2 <= told
      /\ ~prefilled => lastIdx = 0
  BY Zenon, <1>2, <1>3 DEF SpeechInv
<1>6. nxt = chunkSeq /\ nxt < n - 1 /\ nxt \in Nat /\ n \in Nat
  <2>1. CASE prefilled
    BY <2>1, <1>3, <1>4, <1>5
  <2>2. CASE ~prefilled
    <3>1. n - lastIdx >= 2
      BY <2>2, <1>1 DEF ShouldToss
    <3> QED
      BY <3>1, <2>2, <1>3, <1>4, <1>5
  <2> QED
    BY <2>1, <2>2
<1>7. /\ sub \in Subs /\ sub.id = Len(feed) /\ sub.row = Len(feed)
      /\ sub.row < sub.have
      /\ sub.kind = IF prefilled THEN "row" ELSE "prefill"
  <2> HIDE DEF nxt, n
  <2>1. n - 1 \in Nat
    BY <1>6
  <2> QED
    BY Zenon, <2>1, <1>4, <1>5, <1>6 DEF Sub, Subs
<1>8. havePad' \in BOOLEAN /\ (havePad' <=> prefilled)
  BY Zenon, <1>1, <1>4, <1>5 DEF PadCaptured
<1> HIDE DEF nxt, sub, n
<1>9. Follows(feed, sub)
  <2>1. CASE prefilled
    BY Zenon, <2>1, <1>3, <1>5, <1>7 DEF Follows
  <2>2. CASE ~prefilled
    <3>1. Len(feed) = 0
      BY <2>2, <1>4, <1>5
    <3> QED
      BY Zenon, <3>1, <2>2, <1>7 DEF Follows
  <2> QED
    BY Zenon, <2>1, <2>2
<1>10. /\ <<sub>> \in Seq(Subs) /\ feed \o <<sub>> = Append(feed, sub)
       /\ feed \o <<sub>> \in Seq(Subs)
       /\ Len(feed \o <<sub>>) = chunkSeq + 1
       /\ WellFed(feed \o <<sub>>) /\ Speaking(feed \o <<sub>>)
  <2>1. feed \o <<sub>> = Append(feed, sub) /\ <<sub>> \in Seq(Subs)
    BY <1>4, <1>7, Appended
  <2>2. /\ Append(feed, sub) \in Seq(Subs) /\ Len(Append(feed, sub)) = chunkSeq + 1
        /\ WellFed(Append(feed, sub))
        /\ Speaking(Append(feed, sub)) <=> Speaking(feed) /\ sub.kind \in {"prefill", "row"}
    BY Zenon, <1>2, <1>4, <1>5, <1>7, <1>9, OneMore
  <2> QED
    BY Zenon, <2>1, <2>2, <1>3, <1>7
<1>11. CASE Head(q0).fin
  <2>1. CatchUp(<<sub>>, chunkSeq + 1, nxt + 1, n, havePad', <<>>)
    BY Zenon, <1>1, <1>3, <1>11
  <2>2. /\ q0' = <<>> /\ ended /\ n = gen /\ shown = gen
    BY Zenon, <1>3, <1>11
  <2>3. /\ chunkSeq + 1 \in Nat /\ nxt + 1 \in Nat /\ nxt + 1 = chunkSeq + 1
        /\ nxt + 1 <= n - 1 /\ nxt + 1 > 0 /\ (havePad' => chunkSeq + 1 > 1)
    BY <1>4, <1>5, <1>6, <1>8
  <2>4. lastIdx' \in Nat /\ prefilled' = TRUE
    BY Zenon, <1>1, <1>6
  <2> QED
    BY Zenon, <2>1, <2>2, <2>3, <2>4, <1>1, <1>3, <1>6, <1>8, <1>10, CatchUpKeeps
<1>12. CASE ~Head(q0).fin
  <2>1. /\ Send(<<sub>>) /\ chunkSeq' = chunkSeq + 1 /\ Continue /\ told' = n
        /\ UNCHANGED <<wpc, row, len, padLeft>>
    BY Zenon, <1>1, <1>12
  <2>2. feed' = feed \o <<sub>> /\ routes' \subseteq Nat
    BY Zenon, <2>1, <1>4, <1>10, SendTypes
  <2>3. /\ ready' \in {<<>>, JustWorker} /\ ready' \in Seq(Tasks)
        /\ ready' \notin {JustPad, PadThenWorker}
    BY Zenon, <2>1, <1>3, ContinueShape
  <2>4. /\ feed' \in Seq(Subs) /\ Len(feed') = chunkSeq'
        /\ Speaking(feed)' /\ WellFed(feed)'
    BY Zenon, <2>1, <2>2, <1>1, <1>10 DEF Speaking, WellFed
  <2>5. TypeOK'
    <3>1. /\ told' \in 0..shown' /\ chunkSeq' \in Nat /\ lastIdx' \in Nat
          /\ prefilled' \in BOOLEAN
      BY <2>1, <1>1, <1>3, <1>4, <1>6
    <3> QED
      BY Zenon, <3>1, <2>1, <2>2, <2>3, <2>4, <1>1, <1>2, <1>3, <1>8 DEF TypeOK
  <2>6. ResultsInv'
    BY Zenon, <2>1, <1>3
  <2>7. TaskInv'
    BY Zenon, <2>1, <2>3, <1>1, <1>2, <1>3 DEF TaskInv
  <2>8. SpeechInv'
    <3>1. Len(feed') > 0 /\ lastIdx' = Len(feed') - 1 /\ lastIdx' + 2 <= told'
      BY <2>1, <2>4, <1>1, <1>3, <1>4, <1>6
    <3> QED
      BY Zenon, <3>1, <2>1, <2>4, <1>1, <1>3 DEF SpeechInv
  <2> QED
    BY <2>4, <2>5, <2>6, <2>7, <2>8 DEF IInv
<1> QED
  BY Zenon, <1>11, <1>12

(* The worker comes back from sleep(0) behind the task it spawned.         *)
LEMMA ResumeLoopKeeps == IInv /\ ResumeLoop => IInv'
<1> SUFFICES ASSUME IInv, ResumeLoop
             PROVE  IInv'
  BY Zenon
<1>1. /\ ready # <<>> /\ Head(ready) = Worker /\ phase = "running" /\ wpc = "loop"
      /\ CatchUp(<<>>, chunkSeq, row, len, havePad, Tail(ready))
      /\ UNCHANGED <<gen, ended, q0, shown, lastIdx, prefilled, havePad, phase>>
  BY Zenon DEF ResumeLoop, thinker
<1>2. TypeOK /\ ResultsInv /\ TaskInv /\ SpeechInv /\ WellFed(feed)
  BY Zenon DEF IInv
<1>3. /\ len = gen /\ row \in 2..len - 1 /\ Exhausted /\ Speaking(feed)
      /\ chunkSeq = Len(feed) /\ prefilled = TRUE
      /\ ready = JustWorker => row = chunkSeq
  <2>1. row \in Nat /\ chunkSeq \in Nat /\ prefilled \in BOOLEAN
    BY Zenon, <1>2 DEF TypeOK
  <2>2. /\ len = gen /\ row \in 2..len - 1 /\ Exhausted /\ Speaking(feed)
        /\ chunkSeq = Len(feed) /\ (prefilled <=> Len(feed) > 0)
        /\ ready = JustWorker => row = chunkSeq
        /\ ready # JustWorker => row = chunkSeq + 1
    BY Zenon, <1>1, <1>2 DEF SpeechInv
  <2>3. len \in Nat
    BY <1>2, GenAssumption DEF TypeOK
  <2>4. Len(feed) > 0
    BY <2>1, <2>2, <2>3
  <2> QED
    BY Zenon, <2>1, <2>2, <2>4
<1>4. /\ feed \in Seq(Subs) /\ chunkSeq \in Nat /\ row \in Nat /\ len \in Nat
      /\ havePad \in BOOLEAN /\ lastIdx \in Nat
  BY <1>2, GenAssumption DEF TypeOK
<1>5. ready = JustWorker /\ Tail(ready) = <<>> /\ padLeft = 0
  <2>1. ready \in {JustWorker, SendThenWorker}
    BY Zenon, <1>1, <1>2 DEF TaskInv
  <2>2. row - 1 \in Nat
    BY <1>3, <1>4
  <2>3. /\ Head(SendThenWorker) = Task("send", chunkSeq, row - 1, len)
        /\ Tail(JustWorker) = <<>>
    <3>1. /\ Head(SendWorker(chunkSeq, row - 1, len)) = Task("send", chunkSeq, row - 1, len)
          /\ Tail(JustWorker) = <<>>
      <4>1. chunkSeq \in Nat /\ len \in Nat
        BY Zenon, <1>4
      <4> QED
        BY Zenon, <4>1, <2>2, Shapes
    <3> QED
      BY Zenon, <3>1 DEF SendThenWorker
  <2>4. Worker # Task("send", chunkSeq, row - 1, len)
    BY <2>2, <1>4, TaskKinds
  <2>5. ready = JustWorker
    BY Zenon, <2>1, <2>3, <2>4, <1>1
  <2>6. JustWorker \notin {JustPad, PadThenWorker}
    BY Zenon, Distinct
  <2>7. padLeft = 0
    BY <2>5, <2>6, <1>2 DEF TaskInv, TypeOK
  <2> QED
    BY Zenon, <2>3, <2>5, <2>7
<1>6. /\ feed \o <<>> = feed /\ <<>> \in Seq(Subs)
  BY <1>4, ConcatEmptySeq
<1>7. CatchUp(<<>>, chunkSeq, row, len, havePad, <<>>)
  BY Zenon, <1>1, <1>5
<1>8. /\ WellFed(feed \o <<>>) /\ Speaking(feed \o <<>>) /\ Len(feed \o <<>>) = chunkSeq
  BY Zenon, <1>2, <1>3, <1>6
<1>9. /\ row = chunkSeq /\ row <= len - 1 /\ row > 0 /\ chunkSeq > 1
  BY <1>3, <1>4, <1>5
<1>10. ended /\ shown = gen /\ q0' = <<>> /\ lastIdx' \in Nat /\ havePad' = havePad
       /\ prefilled' = TRUE
  BY Zenon, <1>1, <1>3, <1>4 DEF Exhausted
<1> QED
  BY Zenon, <1>1, <1>3, <1>4, <1>5, <1>6, <1>7, <1>8, <1>9, <1>10, CatchUpKeeps

(* A spawned task runs before the worker goes on: chunk_seq is still what  *)
(* its id was made from, and its row is the next one.                      *)
LEMMA ProcessAndSendKeeps == IInv /\ ProcessAndSend => IInv'
<1> SUFFICES ASSUME IInv, ProcessAndSend
             PROVE  IInv'
  BY Zenon
<1> DEFINE t == Head(ready)
           sub == Sub(t.id, "row", t.row, t.have)
<1>1. /\ ready # <<>> /\ t.task = "send" /\ Send(<<sub>>)
      /\ chunkSeq' = chunkSeq + 1 /\ ready' = Tail(ready)
      /\ UNCHANGED <<gen, ended, q0, shown, wpc, row, len, lastIdx, prefilled,
                     havePad, padLeft, told, phase>>
  BY Zenon DEF ProcessAndSend, thinker
<1>2. TypeOK /\ ResultsInv /\ TaskInv /\ SpeechInv /\ WellFed(feed)
  BY Zenon DEF IInv
<1>3. /\ feed \in Seq(Subs) /\ chunkSeq \in Nat /\ row \in Nat /\ len \in Nat
      /\ routes \subseteq Nat /\ gen \in Nat
      /\ wpc \in {"idle", "loop", "done", "dead"}
  BY <1>2, GenAssumption DEF TypeOK
<1>4. wpc = "loop" /\ ready # JustWorker
  <2>1. /\ Head(JustWorker) = Worker /\ Head(JustPad) = Pad
        /\ Head(PadThenWorker) = Pad
    BY Zenon, Shapes
  <2>2. Worker.task # "send" /\ Pad.task # "send"
    BY Zenon, TaskKinds
  <2>3. ready \notin {<<>>, JustWorker, JustPad, PadThenWorker}
    BY Zenon, <2>1, <2>2, <1>1
  <2> QED
    BY Zenon, <2>3, <1>2, <1>3 DEF TaskInv
<1>5. /\ ready = SendThenWorker /\ len = gen /\ row \in 2..len - 1 /\ Exhausted
      /\ Speaking(feed) /\ chunkSeq = Len(feed) /\ row = chunkSeq + 1
      /\ prefilled /\ (havePad => prefilled)
  <2>1. ready = SendThenWorker
    BY Zenon, <1>2, <1>4 DEF TaskInv
  <2>2. /\ len = gen /\ row \in 2..len - 1 /\ Exhausted
        /\ Speaking(feed) /\ chunkSeq = Len(feed) /\ row = chunkSeq + 1
        /\ (prefilled <=> Len(feed) > 0) /\ (havePad => prefilled)
    BY Zenon, <1>2, <1>4 DEF SpeechInv
  <2>3. Len(feed) > 0
    BY <2>2, <1>3
  <2> QED
    BY <2>1, <2>2, <2>3
<1>6. /\ t = Task("send", chunkSeq, row - 1, len) /\ ready' = JustWorker
  <2>1. row - 1 \in Nat
    BY <1>3, <1>5
  <2>2. /\ Head(SendWorker(chunkSeq, row - 1, len)) = Task("send", chunkSeq, row - 1, len)
        /\ Tail(SendWorker(chunkSeq, row - 1, len)) = JustWorker
    <3>1. chunkSeq \in Nat /\ len \in Nat
      BY Zenon, <1>3
    <3> QED
      BY ZenonT(40), <3>1, <2>1, Shapes
  <2> QED
    BY Zenon, <2>2, <1>1, <1>5 DEF SendThenWorker
<1>7. t.id = chunkSeq /\ t.row = row - 1 /\ t.have = len
  BY <1>6 DEF Task
<1>8. /\ sub \in Subs /\ sub.id = Len(feed) /\ sub.row = Len(feed)
      /\ sub.row < sub.have /\ sub.kind = "row"
  <2> HIDE DEF t
  <2>1. len - 1 \in Nat /\ row - 1 \in Nat /\ row - 1 = chunkSeq /\ chunkSeq < len - 1
    BY <1>3, <1>5
  <2> QED
    BY Zenon, <2>1, <1>3, <1>5, <1>7 DEF Sub, Subs
<1> HIDE DEF sub
<1>9. Len(feed) > 0 /\ Len(feed) \in Nat
  BY <1>3, <1>5
<1>10. Follows(feed, sub)
  BY Zenon, <1>5, <1>8, <1>9 DEF Follows
<1>11. /\ feed' \in Seq(Subs) /\ Len(feed') = Len(feed) + 1
       /\ WellFed(feed)' /\ Speaking(feed)' /\ routes' \subseteq Nat
  <2>1. feed \o <<sub>> = Append(feed, sub) /\ <<sub>> \in Seq(Subs)
    BY <1>3, <1>8, Appended
  <2>2. feed' = Append(feed, sub) /\ routes' \subseteq Nat
    BY Zenon, <2>1, <1>1, <1>3, SendTypes
  <2>3. /\ Append(feed, sub) \in Seq(Subs) /\ Len(Append(feed, sub)) = Len(feed) + 1
        /\ WellFed(Append(feed, sub))
        /\ Speaking(Append(feed, sub)) <=> Speaking(feed) /\ sub.kind \in {"prefill", "row"}
    BY Zenon, <1>2, <1>3, <1>8, <1>10, OneMore
  <2>4. Speaking(Append(feed, sub))
    BY Zenon, <2>3, <1>5, <1>8
  <2> QED
    BY Zenon, <2>2, <2>3, <2>4, <1>1 DEF Speaking, WellFed
<1>12. TypeOK'
  <2>1. ready' \in Seq(Tasks)
    <3>1. Worker \in Tasks
      BY Zenon, TaskKinds
    <3> QED
      BY <3>1, <1>6 DEF JustWorker
  <2>2. chunkSeq' \in Nat
    BY <1>1, <1>3
  <2> QED
    BY <2>1, <2>2, <1>1, <1>2, <1>11 DEF TypeOK
<1>13. ResultsInv'
  BY Zenon, <1>1, <1>2 DEF ResultsInv
<1>14. TaskInv'
  <2>1. JustWorker \notin {JustPad, PadThenWorker}
    BY Zenon, Distinct
  <2>2. ready \notin {JustPad, PadThenWorker}
    <3>1. row - 1 \in Nat
      BY <1>3, <1>5
    <3>2. SendWorker(chunkSeq, row - 1, len) \notin {JustPad, PadThenWorker}
      BY Zenon, <3>1, <1>3, Distinct
    <3> QED
      BY Zenon, <3>2, <1>5 DEF SendThenWorker
  <2>3. phase # "closed"
    BY Zenon, <1>2, <1>4 DEF TaskInv
  <2> QED
    BY Zenon, <2>1, <2>2, <2>3, <1>1, <1>2, <1>4, <1>6 DEF TaskInv
<1>15. SpeechInv'
  <2>1. Len(feed') > 0 /\ chunkSeq' = Len(feed') /\ row' = chunkSeq'
    BY <1>1, <1>5, <1>9, <1>11
  <2>2. Exhausted'
    BY Zenon, <1>1, <1>5 DEF Exhausted
  <2> QED
    BY Zenon, <2>1, <2>2, <1>1, <1>4, <1>5, <1>6, <1>11 DEF SpeechInv
<1> QED
  BY Zenon, <1>11, <1>12, <1>13, <1>14, <1>15 DEF IInv

(* The padding task only adds paddings behind the end of speech.           *)
LEMMA PaddingBurstKeeps == IInv /\ PaddingBurst => IInv'
<1> SUFFICES ASSUME IInv, PaddingBurst
             PROVE  IInv'
  BY Zenon
<1> DEFINE sub == Sub(chunkSeq, "pad", 0, 1)
<1>1. /\ ready # <<>> /\ Head(ready) = Pad /\ phase = "running" /\ Send(<<sub>>)
      /\ chunkSeq' = chunkSeq + 1 /\ padLeft' = padLeft - 1
      /\ ready' = Tail(ready) \o (IF MorePads THEN <<Pad>> ELSE <<>>)
      /\ UNCHANGED <<gen, ended, q0, shown, wpc, row, len, lastIdx, prefilled,
                     havePad, told, phase>>
  BY Zenon DEF PaddingBurst, thinker
<1>2. TypeOK /\ ResultsInv /\ TaskInv /\ SpeechInv /\ WellFed(feed)
  BY Zenon DEF IInv
<1>3. /\ feed \in Seq(Subs) /\ chunkSeq \in Nat /\ row \in Nat /\ len \in Nat
      /\ routes \subseteq Nat /\ gen \in Nat /\ padLeft \in 0..BURST /\ BURST \in Nat
      /\ wpc \in {"idle", "loop", "done", "dead"}
  BY <1>2, GenAssumption DEF TypeOK
<1>4. ready = JustPad /\ wpc = "idle"
  <2>1. /\ Head(JustWorker) = Worker /\ Worker # Pad
    BY Zenon, Shapes, TaskKinds
  <2>2. CASE wpc = "idle"
    BY Zenon, <2>1, <2>2, <1>1, <1>2 DEF TaskInv
  <2>3. CASE wpc = "loop"
    <3>1. row - 1 \in Nat
      <4>1. row \in 2..len - 1
        BY Zenon, <2>3, <1>2 DEF SpeechInv
      <4> QED
        BY <4>1, <1>3
    <3>2. Head(SendWorker(chunkSeq, row - 1, len)) = Task("send", chunkSeq, row - 1, len)
      <4>1. chunkSeq \in Nat /\ len \in Nat
        BY Zenon, <1>3
      <4>2. \A r \in Nat : Head(SendWorker(chunkSeq, r, len)) = Task("send", chunkSeq, r, len)
        BY Zenon, <4>1, Shapes
      <4> QED
        BY Zenon, <4>2, <3>1
    <3>3. Pad # Task("send", chunkSeq, row - 1, len)
      BY <3>1, <1>3, TaskKinds
    <3>4. ready \in {JustWorker, SendThenWorker}
      BY Zenon, <2>3, <1>2 DEF TaskInv
    <3> QED
      BY Zenon, <3>2, <3>3, <3>4, <2>1, <1>1 DEF SendThenWorker
  <2>4. CASE wpc \in {"done", "dead"}
    BY Zenon, <2>4, <1>1, <1>2 DEF TaskInv
  <2> QED
    BY Zenon, <2>2, <2>3, <2>4, <1>3
<1>5. /\ ~Speaking(feed) /\ padLeft > 0 /\ Exhausted /\ chunkSeq = Len(feed)
      /\ Len(feed) > 1 /\ feed[Len(feed)].kind \in {"eos", "pad"}
      /\ (prefilled <=> Len(feed) > 0) /\ (havePad => prefilled)
      /\ (~prefilled => lastIdx = 0)
  <2>1. ~Speaking(feed) /\ padLeft > 0
    BY Zenon, <1>2, <1>4 DEF TaskInv
  <2> QED
    BY Zenon, <2>1, <1>2, <1>4 DEF SpeechInv
<1>6. sub \in Subs /\ sub.id = Len(feed) /\ sub.kind = "pad"
  BY <1>3, <1>5 DEF Sub, Subs
<1> HIDE DEF sub
<1>7. Follows(feed, sub)
  BY Zenon, <1>5, <1>6 DEF Follows
<1>8. /\ feed' \in Seq(Subs) /\ Len(feed') = Len(feed) + 1 /\ feed'[Len(feed) + 1] = sub
      /\ WellFed(feed)' /\ ~Speaking(feed)' /\ routes' \subseteq Nat
  <2>1. feed \o <<sub>> = Append(feed, sub) /\ <<sub>> \in Seq(Subs)
    BY <1>3, <1>6, Appended
  <2>2. feed' = Append(feed, sub) /\ routes' \subseteq Nat
    BY Zenon, <2>1, <1>1, <1>3, SendTypes
  <2>3. /\ Append(feed, sub) \in Seq(Subs) /\ Len(Append(feed, sub)) = Len(feed) + 1
        /\ Append(feed, sub)[Len(feed) + 1] = sub
        /\ WellFed(Append(feed, sub))
        /\ Speaking(Append(feed, sub)) <=> Speaking(feed) /\ sub.kind \in {"prefill", "row"}
    BY Zenon, <1>2, <1>3, <1>6, <1>7, OneMore
  <2>4. ~Speaking(Append(feed, sub))
    BY Zenon, <2>3, <1>5
  <2> QED
    BY Zenon, <2>2, <2>3, <2>4, <1>1 DEF Speaking, WellFed
<1>9. /\ padLeft' \in 0..BURST
      /\ padLeft' > 0 => ready' = JustPad
      /\ padLeft' = 0 => ready' = <<>>
  <2>1. Tail(JustPad) = <<>> /\ <<>> \o <<Pad>> = JustPad /\ <<>> \o <<>> = <<>>
    BY Shapes
  <2>2. MorePads => ready' = JustPad
    BY Zenon, <2>1, <1>1, <1>4
  <2>3. ~MorePads => ready' = <<>>
    BY Zenon, <2>1, <1>1, <1>4
  <2>4. padLeft' \in 0..BURST /\ (padLeft' > 0 => MorePads) /\ (padLeft' = 0 => ~MorePads)
    BY <1>1, <1>3, <1>5 DEF MorePads
  <2> QED
    BY Zenon, <2>2, <2>3, <2>4
<1>10. ready' \in {<<>>, JustPad} /\ (padLeft' > 0 <=> ready' = JustPad)
  <2>1. JustPad # <<>>
    BY Zenon, Distinct
  <2>2. padLeft' > 0 \/ padLeft' = 0
    BY <1>3, <1>9
  <2> QED
    BY Zenon, <2>1, <2>2, <1>9
<1>11. TypeOK'
  <2>1. ready' \in Seq(Tasks)
    <3>1. Pad \in Tasks
      BY Zenon, TaskKinds
    <3> QED
      <4>1. JustPad \in Seq(Tasks) /\ <<>> \in Seq(Tasks)
        BY <3>1 DEF JustPad
      <4> QED
        BY Zenon, <4>1, <1>10
  <2>2. chunkSeq' \in Nat
    BY <1>1, <1>3
  <2> QED
    BY Zenon, <2>1, <2>2, <1>1, <1>2, <1>8, <1>9 DEF TypeOK
<1>12. ResultsInv'
  BY Zenon, <1>1, <1>2 DEF ResultsInv
<1>13. TaskInv'
  <2>1. PadThenWorker \notin {<<>>, JustPad}
    BY Zenon, Distinct
  <2> QED
    BY Zenon, <2>1, <1>1, <1>4, <1>8, <1>10 DEF TaskInv
<1>14. SpeechInv'
  <2>1. /\ Len(feed') > 1 /\ Len(feed') > 0 /\ chunkSeq' = Len(feed')
        /\ feed'[Len(feed')].kind = "pad"
    BY <1>1, <1>3, <1>5, <1>6, <1>8
  <2>2. Exhausted'
    BY <1>1, <1>5 DEF Exhausted
  <2>3. prefilled'
    BY <1>1, <1>3, <1>5
  <2> QED
    BY Zenon, <2>1, <2>2, <2>3, <1>1, <1>4, <1>5, <1>8 DEF SpeechInv
<1> QED
  BY Zenon, <1>8, <1>11, <1>12, <1>13, <1>14 DEF IInv

(* Cancelling the worker wakes it where it waits.                          *)
LEMMA StopKeeps == IInv /\ Stop => IInv'
<1> SUFFICES ASSUME IInv, Stop
             PROVE  IInv'
  BY Zenon
<1>1. /\ phase = "running" /\ phase' = "closing" /\ Wake
      /\ UNCHANGED <<gen, ended, q0, shown, wpc, row, len, lastIdx, prefilled,
                     havePad, chunkSeq, padLeft, feed, routes, told>>
  BY Zenon DEF Stop, thinker
<1>2. TypeOK /\ ResultsInv /\ TaskInv /\ SpeechInv /\ WellFed(feed)
  BY Zenon DEF IInv
<1>3. /\ wpc # "idle" => ready' = ready
      /\ wpc = "idle" => /\ ready' \in {JustWorker, PadThenWorker}
                         /\ ready \in {JustPad, PadThenWorker} <=> ready' = PadThenWorker
  <2>1. /\ wpc # "idle" => ready' = ready
        /\ ready = <<>> /\ wpc = "idle" => ready' = JustWorker
        /\ ready = JustPad /\ wpc = "idle" => ready' = PadThenWorker
        /\ ready \in {JustWorker, PadThenWorker} => ready' = ready
    BY Zenon, <1>1, WakeShape
  <2>2. /\ JustWorker \notin {<<>>, JustPad, PadThenWorker}
        /\ PadThenWorker \notin {<<>>, JustPad} /\ JustPad # <<>>
    BY Zenon, Distinct
  <2>3. wpc = "idle" => ready \in {<<>>, JustWorker, JustPad, PadThenWorker}
    BY Zenon, <1>2 DEF TaskInv
  <2> QED
    BY Zenon, <2>1, <2>2, <2>3
<1>4. TypeOK'
  <2>1. Worker \in Tasks /\ Pad \in Tasks
    BY Zenon, TaskKinds
  <2>2. JustWorker \in Seq(Tasks) /\ PadThenWorker \in Seq(Tasks)
    BY <2>1 DEF JustWorker, PadThenWorker
  <2>3. ready' \in Seq(Tasks)
    BY Zenon, <2>2, <1>2, <1>3 DEF TypeOK
  <2> QED
    BY Zenon, <2>3, <1>1, <1>2 DEF TypeOK
<1>5. ResultsInv'
  BY Zenon, <1>1, <1>2 DEF ResultsInv
<1>6. TaskInv'
  <2>1. JustWorker # JustPad /\ JustWorker # PadThenWorker /\ JustPad # PadThenWorker
    BY Zenon, Distinct
  <2>2. CASE wpc = "idle"
    <3>1. padLeft > 0 <=> ready' \in {JustPad, PadThenWorker}
      BY Zenon, <2>1, <2>2, <1>2, <1>3 DEF TaskInv
    <3>2. ready' \in {JustPad, PadThenWorker} => ~Speaking(feed)
      BY Zenon, <2>1, <2>2, <1>2, <1>3 DEF TaskInv
    <3> QED
      BY Zenon, <3>1, <3>2, <2>2, <1>1, <1>3 DEF TaskInv, Speaking
  <2>3. CASE wpc # "idle"
    <3>1. SendThenWorker' = SendThenWorker /\ ready' = ready
      BY Zenon, <2>3, <1>1, <1>3 DEF SendThenWorker
    <3> QED
      BY Zenon, <3>1, <2>3, <1>1, <1>2 DEF TaskInv, Speaking
  <2> QED
    BY Zenon, <2>2, <2>3
<1>7. SpeechInv'
  <2>1. Exhausted' <=> Exhausted
    BY Zenon, <1>1 DEF Exhausted
  <2>2. Speaking(feed)' <=> Speaking(feed)
    BY <1>1 DEF Speaking
  <2> QED
    BY Zenon, <2>1, <2>2, <1>1, <1>2, <1>3 DEF SpeechInv
<1>8. WellFed(feed)'
  BY <1>1, <1>2 DEF WellFed
<1> QED
  BY Zenon, <1>4, <1>5, <1>6, <1>7, <1>8 DEF IInv

(* CancelledError takes the worker or the padding task off the queue.  The *)
(* worker is the last in it.                                               *)
LEMMA CancelledKeeps == IInv /\ Cancelled => IInv'
<1> SUFFICES ASSUME IInv, Cancelled
             PROVE  IInv'
  BY Zenon
<1>1. /\ phase = "closing" /\ ready # <<>> /\ Head(ready) \in {Worker, Pad}
      /\ ready' = Tail(ready)
      /\ Head(ready) = Worker => wpc' = "done" /\ padLeft' = padLeft
      /\ Head(ready) # Worker => padLeft' = 0 /\ wpc' = wpc
      /\ UNCHANGED <<gen, ended, q0, shown, row, len, lastIdx, prefilled, havePad,
                     chunkSeq, feed, routes, told, phase>>
  BY Zenon DEF Cancelled, thinker
<1>2. TypeOK /\ ResultsInv /\ TaskInv /\ SpeechInv /\ WellFed(feed)
  BY Zenon DEF IInv
<1>3. /\ chunkSeq \in Nat /\ row \in Nat /\ len \in Nat /\ padLeft \in 0..BURST
      /\ BURST \in Nat /\ wpc \in {"idle", "loop", "done", "dead"}
  BY <1>2, GenAssumption DEF TypeOK
<1>4. /\ Head(JustWorker) = Worker /\ Tail(JustWorker) = <<>>
      /\ Head(JustPad) = Pad /\ Tail(JustPad) = <<>>
      /\ Head(PadThenWorker) = Pad /\ Tail(PadThenWorker) = JustWorker
      /\ Worker # Pad
  BY Zenon, Shapes, TaskKinds
<1>5. /\ JustWorker \notin {<<>>, JustPad, PadThenWorker}
      /\ JustPad \notin {<<>>, PadThenWorker} /\ PadThenWorker # <<>>
  BY Zenon, Distinct
<1>6. /\ ready \in {JustWorker, JustPad, PadThenWorker}
      /\ ready # JustWorker => wpc = "idle"
  <2>1. CASE wpc = "idle"
    BY Zenon, <2>1, <1>1, <1>2 DEF TaskInv
  <2>2. CASE wpc = "loop"
    <3>1. row - 1 \in Nat
      <4>1. row \in 2..len - 1
        BY Zenon, <2>2, <1>2 DEF SpeechInv
      <4> QED
        BY <4>1, <1>3
    <3>2. chunkSeq \in Nat /\ len \in Nat
      BY Zenon, <1>3
    <3>3. Head(SendWorker(chunkSeq, row - 1, len)) = Task("send", chunkSeq, row - 1, len)
      BY Zenon, <3>1, <3>2, Shapes
    <3>4. Task("send", chunkSeq, row - 1, len) \notin {Worker, Pad}
      BY <3>1, <3>2, TaskKinds
    <3>5. ready \in {JustWorker, SendThenWorker}
      BY Zenon, <2>2, <1>2 DEF TaskInv
    <3> QED
      BY Zenon, <3>3, <3>4, <3>5, <1>1 DEF SendThenWorker
  <2>3. CASE wpc \in {"done", "dead"}
    BY Zenon, <2>3, <1>1, <1>2 DEF TaskInv
  <2> QED
    BY Zenon, <2>1, <2>2, <2>3, <1>3
<1>7. \/ /\ ready = JustWorker /\ ready' = <<>> /\ wpc' = "done" /\ padLeft' = 0
      \/ /\ ready \in {JustPad, PadThenWorker} /\ ready' \in {<<>>, JustWorker}
         /\ wpc = "idle" /\ wpc' = "idle" /\ padLeft' = 0
  <2>1. ready = JustWorker => padLeft = 0
    BY <1>2, <1>3, <1>5 DEF TaskInv
  <2> QED
    BY Zenon, <2>1, <1>1, <1>4, <1>6
<1>8. ready' \in {<<>>, JustWorker} /\ padLeft' = 0 /\ wpc' \in {"idle", "done"}
      /\ (wpc' = "done" => ready' = <<>>) /\ (wpc' = "idle" => wpc = "idle")
  BY Zenon, <1>7
<1>9. TypeOK'
  <2>1. Worker \in Tasks
    BY Zenon, TaskKinds
  <2>2. JustWorker \in Seq(Tasks) /\ <<>> \in Seq(Tasks)
    BY <2>1 DEF JustWorker
  <2>3. ready' \in Seq(Tasks) /\ padLeft' \in 0..BURST
    <3>1. ready' \in Seq(Tasks)
      BY Zenon, <2>2, <1>8
    <3>2. padLeft' \in 0..BURST
      BY <1>3, <1>8
    <3> QED
      BY Zenon, <3>1, <3>2
  <2> QED
    BY Zenon, <2>3, <1>1, <1>2, <1>8 DEF TypeOK
<1>10. ResultsInv'
  BY Zenon, <1>1, <1>2 DEF ResultsInv
<1>11. TaskInv'
  <2>1. ready' \notin {JustPad, PadThenWorker}
    BY Zenon, <1>5, <1>8
  <2>2. ~(padLeft' > 0)
    BY <1>8
  <2>3. phase' = "closing"
    BY Zenon, <1>1
  <2>4. wpc' = "idle" \/ (wpc' = "done" /\ ready' = <<>>)
    BY Zenon, <1>8
  <2>5. ready' \in {<<>>, JustWorker, JustPad, PadThenWorker}
    BY Zenon, <1>8
  <2> QED
    BY Zenon, <2>1, <2>2, <2>3, <2>4, <2>5 DEF TaskInv
<1>12. SpeechInv'
  <2>1. Exhausted' <=> Exhausted
    BY Zenon, <1>1 DEF Exhausted
  <2>2. Speaking(feed)' <=> Speaking(feed)
    BY Zenon, <1>1 DEF Speaking
  <2> QED
    BY Zenon, <2>1, <2>2, <1>1, <1>2, <1>8 DEF SpeechInv
<1>13. WellFed(feed)'
  BY <1>1, <1>2 DEF WellFed
<1> QED
  BY Zenon, <1>9, <1>10, <1>11, <1>12, <1>13 DEF IInv

(* When gather has returned no task is left that could send.               *)
LEMMA CloseKeeps == IInv /\ Close => IInv'
<1> SUFFICES ASSUME IInv, Close
             PROVE  IInv'
  BY Zenon
<1>1. /\ wpc \in {"done", "dead"} /\ phase' = "closed" /\ routes' = {}
      /\ UNCHANGED <<gen, ended, q0, shown, ready, wpc, row, len, lastIdx, prefilled,
                     havePad, chunkSeq, padLeft, feed, told>>
  BY Zenon DEF Close, TasksDone, thinker
<1>2. TypeOK /\ ResultsInv /\ TaskInv /\ SpeechInv /\ WellFed(feed)
  BY Zenon DEF IInv
<1>3. TypeOK'
  BY Zenon, <1>1, <1>2 DEF TypeOK
<1>4. ResultsInv'
  BY Zenon, <1>1, <1>2 DEF ResultsInv
<1>5. TaskInv'
  BY Zenon, <1>1, <1>2 DEF TaskInv, Speaking
<1>6. SpeechInv'
  <2>1. Exhausted' <=> Exhausted
    BY Zenon, <1>1 DEF Exhausted
  <2>2. Speaking(feed)' <=> Speaking(feed)
    BY Zenon, <1>1 DEF Speaking
  <2> QED
    BY Zenon, <2>1, <2>2, <1>1, <1>2 DEF SpeechInv
<1>7. WellFed(feed)'
  BY <1>1, <1>2 DEF WellFed
<1> QED
  BY Zenon, <1>3, <1>4, <1>5, <1>6, <1>7 DEF IInv

-----------------------------------------------------------------------------
(* The invariant holds before stage 0 has generated anything.              *)
LEMMA InitHolds == Init => IInv
<1> SUFFICES ASSUME Init
             PROVE  IInv
  BY Zenon
<1>1. Len(<<>>) = 0 /\ 1..Len(<<>>) = {}
  OBVIOUS
<1>2. TypeOK
  <2>1. /\ <<>> \in Seq([len : 1..MaxGen, fin : BOOLEAN]) /\ <<>> \in Seq(Tasks)
        /\ <<>> \in Seq(Subs)
    OBVIOUS
  <2>2. 0 \in 0..MaxGen /\ 0 \in 0..BURST /\ 0 \in 0..0
    BY GenAssumption
  <2> QED
    BY Zenon, <2>1, <2>2 DEF Init, TypeOK
<1>3. ResultsInv
  BY Zenon, <1>1, GenAssumption DEF Init, ResultsInv
<1>4. Speaking(feed) /\ WellFed(feed)
  BY Zenon, <1>1 DEF Init, Speaking, WellFed
<1>5. TaskInv
  <2>1. <<>> \notin {JustPad, PadThenWorker}
    BY Zenon, Distinct
  <2> QED
    BY <2>1 DEF Init, TaskInv
<1>6. SpeechInv
  BY <1>1, <1>4 DEF Init, SpeechInv
<1> QED
  BY Zenon, <1>2, <1>3, <1>4, <1>5, <1>6 DEF IInv

(* Every step of the thinker, the router, the event loop and the cleanup   *)
(* keeps the invariant.                                                    *)
LEMMA NextKeeps == IInv /\ [Next]_vars => IInv'
<1> SUFFICES ASSUME IInv, [Next]_vars
             PROVE  IInv'
  BY Zenon
<1>1. CASE UNCHANGED vars
  <2>1. TypeOK' /\ ResultsInv'
    BY <1>1 DEF vars, IInv, TypeOK, ResultsInv
  <2>2. TaskInv'
    BY Zenon, <1>1 DEF vars, IInv, TaskInv, Speaking, SendThenWorker
  <2>3. SpeechInv'
    BY Zenon, <1>1 DEF vars, IInv, SpeechInv, Speaking, Exhausted
  <2>4. WellFed(feed)'
    BY <1>1 DEF vars, IInv, WellFed
  <2> QED
    BY Zenon, <2>1, <2>2, <2>3, <2>4 DEF IInv
<1>2. CASE Next
  BY Zenon, <1>2, ThinkerStepKeeps, DeliverKeeps, SkipResultKeeps, TossResultKeeps,
     ResumeLoopKeeps, ProcessAndSendKeeps, PaddingBurstKeeps, StopKeeps,
     CancelledKeeps, CloseKeeps
     DEF Next, EventLoop
<1> QED
  BY Zenon, <1>1, <1>2

(* The invariant of worker_0to1 and its tasks holds for every length of    *)
(* the answer, every grouping of its tokens into results and every moment  *)
(* of a barge-in.                                                          *)
THEOREM FeedInvariance == Spec => []IInv
BY InitHolds, NextKeeps, PTL DEF Spec

(* The variables of worker_0to1 keep their types: no length or row index   *)
(* goes negative and no send task is made of anything but numbers.         *)
THEOREM FeedTypes == Spec => []TypeOK
<1>1. IInv => TypeOK
  BY Zenon DEF IInv
<1> QED
  BY <1>1, FeedInvariance, PTL

(* Stage 1 is fed in order and nothing twice, although ids are made by the *)
(* worker and used by the tasks it spawns.                                 *)
THEOREM FedInOrder == Spec => []FeedInOrder
<1>1. IInv => FeedInOrder
  BY Zenon DEF IInv, WellFed, FeedInOrder
<1> QED
  BY <1>1, FeedInvariance, PTL

(* No sub-request is cut from beyond the end of the embeddings.            *)
THEOREM NoEmptySlice == Spec => []RowAvailable
<1>1. IInv => RowAvailable
  BY Zenon DEF IInv, WellFed, RowAvailable
<1> QED
  BY <1>1, FeedInvariance, PTL

(* The end-of-speech marker comes after all rows of the whole answer.      *)
THEOREM AllSpoken == Spec => []WholeAnswerSpoken
<1>1. IInv => WholeAnswerSpoken
  BY Zenon DEF IInv, WellFed, WholeAnswerSpoken
<1> QED
  BY <1>1, FeedInvariance, PTL

(* After the cleanup of a turn no send task brings a route back.           *)
THEOREM NoLateRoute == Spec => []NoRouteAfterClose
<1>1. IInv => NoRouteAfterClose
  BY Zenon DEF IInv, TaskInv, NoRouteAfterClose
<1> QED
  BY <1>1, FeedInvariance, PTL
=============================================================================
