------------------------- MODULE StageWorkerProofs -------------------------
(***************************************************************************)
(* Proofs about StageWorker, for every number of sessions, turns, requests *)
(* and aborts: the types, and, for a worker that serves one session, that  *)
(* an abort costs no live turn an output or a request and that requests of *)
(* a turn start in order.                                                  *)
(*                                                                         *)
(* While an ABORT is on its way, all that is before it in the queue, and   *)
(* all that the worker has started, is of turns that were given up: hence  *)
(* no drain, which is for a turn still wanted, ever meets an ABORT, and    *)
(* what the worker takes for aborted was.                                  *)
(***************************************************************************)
EXTENDS StageWorker, FiniteSetTheorems, TLAPS

(* Everything on its way to the worker, the next message first. *)
Q == pipe \o feeder

IsGen(m) == m.type = "generate"

(* The worker serves one session. *)
OneSession == \A a, b \in Sessions : a = b

(* The request has been submitted, in a turn that has begun. *)
MadeIn(r, turns, counts) == r.t <= turns[r.s] /\ r.k <= counts[TurnOf(r)]

Made(r) == MadeIn(r, turn, sent)

(* The requests of which there is a trace in the worker. *)
Traced == Range(outQ) \cup Range(batch) \cup Range(started) \cup answered

(* What waits was submitted, is there once, and has not been started. *)
QueueInv ==
  /\ \A i \in 1..Len(Q) :
       IsGen(Q[i]) => Made(Q[i].rid) /\ st[Q[i].rid] = "none"
  /\ \A i, j \in 1..Len(Q) :
       IsGen(Q[i]) /\ IsGen(Q[j]) /\ i # j => Q[i].rid # Q[j].rid
  /\ \A r \in Rids : st[r] # "none" => Made(r)
  /\ \A r \in Traced : st[r] # "none"
  /\ \/ lastTurn = WarmUp
     \/ lastTurn = NoTurn /\ ~WarmedUp
     \/ lastTurn \in Turns /\ lastTurn[2] <= turn[lastTurn[1]]

(* A done callback is scheduled once per task. *)
CallbackInv == callbacks <= Cardinality({r \in Rids : st[r] = "done"})

(* All that the worker has started belongs to turns that were aborted. *)
AllDropped == \A r \in Rids : st[r] # "none" => TurnOf(r) \in dropped

LastDropped == lastTurn \in dropped \cup {WarmUp, NoTurn}

(* While an ABORT is on its way, all that is before it was aborted. *)
AbortsCover ==
  \A j \in 1..Len(Q) : Q[j].type = "abort" =>
    /\ \A i \in 1..j - 1 : IsGen(Q[i]) => TurnOf(Q[i].rid) \in dropped
    /\ AllDropped
    /\ LastDropped

AbortInv ==
  /\ AbortsCover
  /\ taskType = "abort" => AllDropped
  /\ WarmedUp /\ aborted # {} => LastDropped
  /\ OnlyAbortedDiscarded
  /\ NewTurnNotSkipped

(* In the order of submission, if the turns follow each other. *)
Before(q, r) == q.t < r.t \/ (q.t = r.t /\ q.k < r.k)

OrderInv ==
  /\ \A i, j \in 1..Len(Q) :
       IsGen(Q[i]) /\ IsGen(Q[j]) /\ i < j => Before(Q[i].rid, Q[j].rid)
  /\ \A i \in 1..Len(Q) : \A r \in Rids :
       IsGen(Q[i]) /\ st[r] # "none" => Before(r, Q[i].rid)
  /\ \A i, j \in 1..Len(started) : i < j => Before(started[i], started[j])

(* The inductive invariant. *)
IInv ==
  /\ TypeOK
  /\ QueueInv
  /\ CallbackInv
  /\ OneSession => AbortInv
  /\ OneSession /\ ~Overlap => OrderInv

-----------------------------------------------------------------------------
(* The order of the natural numbers, as a relation. *)
NatLess == {p \in Nat \X Nat : p[1] < p[2]}

(* The library's theorem takes the order as a parameter; this is the same  *)
(* for the relation.                                                       *)
LEMMA NatLessWellFounded == IsWellFoundedOn(NatLess, Nat)
  BY NatLessThanWellFounded, Zenon DEF NatLess, OpToRel

(* Every set of natural numbers has a least element: induction, in the     *)
(* form the provers can use.                                               *)
LEMMA Least ==
  ASSUME NEW T, T \subseteq Nat, T # {}
  PROVE  \E x \in T : \A y \in T : x <= y
<1>1. PICK x \in T : \A y \in T : <<y, x>> \notin NatLess
  BY Zenon, NatLessWellFounded, WFMin
<1>2. \A y \in T : ~(y < x)
  BY Zenon, <1>1 DEF NatLess
<1> QED BY <1>2

(* A finite set of positions of a sequence.                                *)
Positions(K) == K \subseteq Nat \ {0} /\ IsFiniteSet(K)

(* The positions up to i are finitely many, and i counts if it is one. *)
LEMMA RankStep ==
  ASSUME NEW K, Positions(K), NEW i \in Nat
  PROVE  /\ Rank(K, i) \in Nat /\ Rank(K, 0) = 0
         /\ Rank(K, i + 1) = IF i + 1 \in K THEN Rank(K, i) + 1 ELSE Rank(K, i)
<1> DEFINE U(j) == {h \in K : h <= j}
<1>1. \A h \in K : h \in Nat /\ 1 <= h
  BY DEF Positions
<1>2. IsFiniteSet(U(i)) /\ Cardinality(U(i)) \in Nat
  BY Zenon, FS_Subset, FS_CardinalityType DEF Positions
<1>3. U(0) = {}
  BY <1>1
<1>4. \A h \in K : h <= i + 1 <=> h <= i \/ h = i + 1
  BY <1>1
<1>5. i + 1 \in K => U(i + 1) = U(i) \cup {i + 1}
  BY <1>4, Zenon
<1>6. i + 1 \notin U(i)
  OBVIOUS
<1>7. i + 1 \notin K => U(i + 1) = U(i)
  BY <1>4, Zenon
<1> HIDE DEF U
<1>8. i + 1 \in K => Cardinality(U(i + 1)) = Cardinality(U(i)) + 1
  BY Zenon, <1>2, <1>5, <1>6, FS_AddElement
<1>9. Cardinality(U(0)) = 0
  BY Zenon, <1>3, FS_EmptySet
<1>10. \A j : Rank(K, j) = Cardinality(U(j))
  BY Zenon DEF Rank, U
<1> QED BY Zenon, <1>2, <1>7, <1>8, <1>9, <1>10

(* More positions up to a later one. *)
LEMMA RankMonotone ==
  ASSUME NEW K, Positions(K), NEW i \in Nat, NEW j \in Nat, i <= j
  PROVE  /\ Rank(K, i) <= Rank(K, j)
         /\ i < j /\ j \in K => Rank(K, i) < Rank(K, j)
<1> DEFINE U(h) == {x \in K : x <= h}
<1>1. \A h \in K : h \in Nat
  BY Zenon DEF Positions
<1>2. IsFiniteSet(U(j)) /\ IsFiniteSet(U(i))
  BY Zenon, FS_Subset DEF Positions
<1>3. U(i) \subseteq U(j)
  BY <1>1
<1>4. i < j /\ j \in K => j \in U(j) /\ j \notin U(i)
  OBVIOUS
<1> HIDE DEF U
<1>5. Cardinality(U(i)) \in Nat /\ Cardinality(U(j)) \in Nat
  BY Zenon, <1>2, FS_CardinalityType
<1>6. Cardinality(U(i)) <= Cardinality(U(j))
      /\ (Cardinality(U(j)) = Cardinality(U(i)) => U(j) = U(i))
  BY Zenon, <1>2, <1>3, FS_Subset
<1>7. \A h : Rank(K, h) = Cardinality(U(h))
  BY Zenon DEF Rank, U
<1> QED BY <1>4, <1>5, <1>6, <1>7

(* All of them, in the end. *)
LEMMA RankAll ==
  ASSUME NEW n \in Nat, NEW K, K \subseteq 1..n
  PROVE  /\ Positions(K) /\ Cardinality(K) \in Nat
         /\ Rank(K, n) = Cardinality(K)
<1>1. \A h \in K : h \in Nat /\ h # 0 /\ h <= n
  OBVIOUS
<1>2. IsFiniteSet(1..n)
  BY FS_Interval
<1>3. IsFiniteSet(K)
  BY Zenon, <1>2, FS_Subset
<1>4. {h \in K : h <= n} = K
  BY <1>1, Zenon
<1> QED BY Zenon, <1>1, <1>3, <1>4, FS_CardinalityType DEF Positions, Rank

(* Every rank is taken. *)
LEMMA RankTaken ==
  ASSUME NEW K, Positions(K), NEW n \in Nat, NEW j \in Nat, j # 0,
         j <= Rank(K, n)
  PROVE  \E i \in K : Rank(K, i) = j
<1> DEFINE T == {i \in Nat : j <= Rank(K, i)}
<1>1. PICK x \in T : \A y \in T : x <= y
  <2>1. T \subseteq Nat /\ n \in T
    BY Zenon
  <2> HIDE DEF T
  <2> QED BY Zenon, <2>1, Least
<1>2. x # 0
  <2>1. Rank(K, 0) = 0
    BY Zenon, RankStep
  <2> QED BY <2>1
<1>3. x \in Nat /\ x - 1 \in Nat /\ (x - 1) + 1 = x
  BY <1>2
<1>4. x - 1 \notin T
  BY <1>1, <1>3
<1>5. /\ Rank(K, x) = IF x \in K THEN Rank(K, x - 1) + 1 ELSE Rank(K, x - 1)
      /\ Rank(K, x - 1) \in Nat
  <2> DEFINE w == x - 1
  <2>1. w \in Nat /\ w + 1 = x
    BY Zenon, <1>3
  <2> HIDE DEF w
  <2>2. /\ Rank(K, w) \in Nat
        /\ Rank(K, w + 1) = IF w + 1 \in K THEN Rank(K, w) + 1 ELSE Rank(K, w)
    BY Zenon, <2>1, RankStep
  <2>3. Rank(K, x) = (IF x \in K THEN Rank(K, w) + 1 ELSE Rank(K, w))
    BY Zenon, <2>1, <2>2
  <2> QED BY Zenon, <2>2, <2>3 DEF w
<1>6. Rank(K, x - 1) < j /\ j <= Rank(K, x)
  BY <1>3, <1>4, <1>5
<1> QED BY <1>5, <1>6

(* f shows where in s the entries of q come from: the positions K, in order. *)
Embeds(f, q, s, K) ==
  /\ f \in [1..Len(q) -> K]
  /\ \A j \in 1..Len(q) : q[j] = s[f[j]]
  /\ \A i, j \in 1..Len(q) : i < j => f[i] < f[j]
  /\ \A i \in K : \E j \in 1..Len(q) : f[j] = i

(* What is kept: the entries at the positions K, each once, in order. *)
LEMMA Kept ==
  ASSUME NEW S, NEW s \in Seq(S), NEW K, K \subseteq 1..Len(s)
  PROVE  /\ Keep(s, K) \in Seq(S)
         /\ \E f : Embeds(f, Keep(s, K), s, K)
<1> DEFINE n == Len(s)
           c == Cardinality(K)
           at(j) == CHOOSE i \in K : Rank(K, i) = j
           f == [j \in 1..c |-> at(j)]
<1>1. n \in Nat /\ c \in Nat /\ Positions(K) /\ Rank(K, n) = c
  <2>1. n \in Nat
    OBVIOUS
  <2> QED BY Zenon, <2>1, RankAll
<1>2. \A j \in 1..c : f[j] \in K /\ Rank(K, f[j]) = j
  <2> SUFFICES ASSUME NEW j \in 1..c  PROVE f[j] \in K /\ Rank(K, f[j]) = j
    BY Zenon
  <2>1. j \in Nat /\ j # 0 /\ j <= Rank(K, n)
    BY <1>1
  <2>2. \E i \in K : Rank(K, i) = j
    BY Zenon, <1>1, <2>1, RankTaken
  <2> QED BY Zenon, <2>2
<1>3. Keep(s, K) = [j \in 1..c |-> s[f[j]]]
  BY DEF Keep
<1>4. \A i \in K : i \in Nat /\ i # 0 /\ i <= n
  BY <1>1
<1> HIDE DEF f
<1>5. \A j \in 1..c : s[f[j]] \in S
  <2>1. \A i \in K : s[i] \in S
    BY <1>4
  <2> QED BY Zenon, <1>2, <2>1
<1>6. Keep(s, K) \in Seq(S) /\ Len(Keep(s, K)) = c
  <2> DEFINE g == [j \in 1..c |-> s[f[j]]]
  <2>1. g \in [1..c -> S]
    BY Zenon, <1>5
  <2>2. g \in Seq(S) /\ Len(g) = c
    BY <1>1, <2>1
  <2> QED BY Zenon, <1>3, <2>2
<1>7. ASSUME NEW i \in 1..c, NEW j \in 1..c, i < j  PROVE f[i] < f[j]
  <2>1. f[i] \in Nat /\ f[j] \in Nat /\ Rank(K, f[i]) = i /\ Rank(K, f[j]) = j
    BY Zenon, <1>2, <1>4
  <2>2. ASSUME f[j] <= f[i]  PROVE FALSE
    <3>1. Rank(K, f[j]) <= Rank(K, f[i])
      BY Zenon, <1>1, <2>1, <2>2, RankMonotone
    <3> QED BY <1>7, <2>1, <3>1, <1>1
  <2> QED BY <2>1, <2>2
<1>8. ASSUME NEW i \in K  PROVE \E j \in 1..c : f[j] = i
  <2>1. i \in Nat /\ i <= n
    BY Zenon, <1>4
  <2>2. Rank(K, 0) = 0 /\ Rank(K, i) \in Nat
    BY Zenon, <1>1, <2>1, RankStep
  <2>3. Rank(K, 0) < Rank(K, i)
    <3>1. 0 \in Nat /\ 0 <= i /\ 0 < i
      BY <1>4
    <3> QED BY Zenon, <1>1, <2>1, <3>1, RankMonotone
  <2>4. Rank(K, i) <= c
    BY Zenon, <1>1, <2>1, RankMonotone
  <2>5. Rank(K, i) \in 1..c
    BY <1>1, <2>2, <2>3, <2>4
  <2>6. ASSUME NEW h \in K, Rank(K, h) = Rank(K, i)  PROVE h = i
    <3>1. h \in Nat
      BY Zenon, <1>4
    <3>2. ~(h < i)
      <4>1. h < i => Rank(K, h) < Rank(K, i)
        BY <1>1, <2>1, <3>1, RankMonotone
      <4> QED BY <2>2, <2>6, <4>1
    <3>3. ~(i < h)
      <4>1. i < h => Rank(K, i) < Rank(K, h)
        BY <1>1, <2>1, <3>1, RankMonotone
      <4> QED BY <2>2, <2>6, <4>1
    <3> QED BY <2>1, <3>1, <3>2, <3>3
  <2>7. f[Rank(K, i)] = i
    BY Zenon, <1>2, <2>5, <2>6
  <2> QED BY Zenon, <2>5, <2>7
<1>9. f \in [1..c -> K]
  BY Zenon, <1>2 DEF f
<1> QED
  <2>1. \A j \in 1..c : Keep(s, K)[j] = s[f[j]]
    BY Zenon, <1>3
  <2> HIDE DEF c
  <2>2. Embeds(f, Keep(s, K), s, K)
    BY Zenon, <1>6, <1>7, <1>8, <1>9, <2>1 DEF Embeds
  <2> QED BY Zenon, <1>6, <2>2

-----------------------------------------------------------------------------
(* What is assumed of the constants.                                       *)
LEMMA Constants ==
  /\ IsFiniteSet(Sessions)
  /\ MaxTurn \in Nat \ {0} /\ MaxReq \in Nat \ {0} /\ MaxOut \in Nat \ {0}
  /\ MaxAborts \in Nat /\ Overlap \in BOOLEAN /\ WarmedUp \in BOOLEAN
  BY Zenon, StageAssumption

(* There are finitely many requests. *)
LEMMA RidsFinite == IsFiniteSet(Rids)
<1> DEFINE P == Sessions \X (1..MaxTurn)
           S == P \X (1..MaxReq)
           f == [p \in S |-> [s |-> p[1][1], t |-> p[1][2], k |-> p[2]]]
<1>1. IsFiniteSet(Sessions) /\ IsFiniteSet(1..MaxTurn) /\ IsFiniteSet(1..MaxReq)
  BY Constants, FS_Interval
<1>2. IsFiniteSet(P)
  BY Zenon, <1>1, FS_Product
<1>3. IsFiniteSet(S)
  <2> HIDE DEF P
  <2> QED BY Zenon, <1>1, <1>2, FS_Product
<1>4. f \in [S -> Rids]
  BY Zenon DEF Rids
<1>5. ASSUME NEW r \in Rids  PROVE \E p \in S : f[p] = r
  <2>1. r = [s |-> r.s, t |-> r.t, k |-> r.k] /\ r.s \in Sessions
        /\ r.t \in 1..MaxTurn /\ r.k \in 1..MaxReq
    BY Zenon DEF Rids
  <2>2. <<<<r.s, r.t>>, r.k>> \in S
    BY Zenon, <2>1
  <2>3. f[<<<<r.s, r.t>>, r.k>>] = [s |-> r.s, t |-> r.t, k |-> r.k]
    BY Zenon, <2>2
  <2> QED BY Zenon, <2>1, <2>2, <2>3
<1>6. f \in Surjection(S, Rids)
  <2> HIDE DEF f, S
  <2> QED BY Zenon, <1>4, <1>5 DEF Surjection
<1> HIDE DEF f, S
<1> QED BY Zenon, <1>3, <1>6, FS_Surjection

(* The counters are numbers. *)
LEMMA Counters ==
  /\ \A f \in [Sessions -> 1..MaxTurn] : \A s \in Sessions : f[s] \in Nat
  /\ \A f \in [Turns -> 0..MaxReq] : \A x \in Turns : f[x] \in Nat
<1>1. 1..MaxTurn \subseteq Nat /\ 0..MaxReq \subseteq Nat
  BY Constants
<1> QED BY Zenon, <1>1

(* What a message is. *)
LEMMA Message ==
  ASSUME NEW m \in Messages
  PROVE  /\ IsGen(m) => m.rid \in Rids
         /\ m.type = "abort" => m.rid.s \in Sessions
         /\ m.type \in {"generate", "abort", "shutdown"}
  BY DEF Messages, IsGen, Abort, Shutdown

(* The three messages the orchestrator puts.                               *)
LEMMA Sendable ==
  /\ \A r \in Rids : /\ Generate(r) \in Messages /\ IsGen(Generate(r))
                     /\ Generate(r).rid = r /\ Generate(r).type = "generate"
  /\ \A s \in Sessions : /\ Abort(s) \in Messages /\ ~IsGen(Abort(s))
                         /\ Abort(s).type = "abort"
  /\ Shutdown \in Messages /\ ~IsGen(Shutdown) /\ Shutdown.type # "abort"
  BY Zenon DEF Messages, IsGen, Abort, Shutdown, Generate

(* The parts of a request id.                                              *)
LEMMA Rid ==
  ASSUME NEW r \in Rids
  PROVE  /\ r.s \in Sessions /\ r.t \in 1..MaxTurn /\ r.k \in 1..MaxReq
         /\ r.t \in Nat /\ r.k \in Nat
         /\ TurnOf(r) = <<r.s, r.t>> /\ TurnOf(r) \in Turns
         /\ TurnOf(r) # WarmUp /\ TurnOf(r) # NoTurn
         /\ TurnOf(r)[1] = r.s /\ TurnOf(r)[2] = r.t
  BY Constants DEF Rids, TurnOf, Turns, WarmUp, NoTurn

(* The parts of a turn.                                                    *)
LEMMA TurnParts ==
  ASSUME NEW x \in Turns
  PROVE  x = <<x[1], x[2]>> /\ x[1] \in Sessions /\ x[2] \in 1..MaxTurn
  BY DEF Turns

(* The queue in both halves. *)
LEMMA QueueParts ==
  ASSUME pipe \in Seq(Messages), feeder \in Seq(Messages)
  PROVE  /\ Q \in Seq(Messages)
         /\ Len(Q) = Len(pipe) + Len(feeder)
         /\ \A i \in 1..Len(pipe) : Q[i] = pipe[i]
         /\ \A i \in 1..Len(feeder) : Q[Len(pipe) + i] = feeder[i]
  BY DEF Q

(* A put adds a message at the end. *)
LEMMA QueueAppend ==
  ASSUME pipe \in Seq(Messages), feeder \in Seq(Messages), NEW m \in Messages,
         feeder' = Append(feeder, m), pipe' = pipe
  PROVE  /\ Len(Q') = Len(Q) + 1 /\ Len(Q) \in Nat
         /\ Q'[Len(Q) + 1] = m
         /\ \A i \in 1..Len(Q) : Q'[i] = Q[i]
  BY DEF Q

(* The feeder thread changes nothing in the order. *)
LEMMA QueueFed ==
  ASSUME pipe \in Seq(Messages), feeder \in Seq(Messages), FeederStep
  PROVE  Q' = Q
<1>1. feeder # <<>> /\ pipe' = Append(pipe, Head(feeder)) /\ feeder' = Tail(feeder)
  BY Zenon DEF FeederStep
<1>2. Q' = Append(pipe, Head(feeder)) \o Tail(feeder)
  BY Zenon, <1>1 DEF Q
<1>3. Len(Append(pipe, Head(feeder)) \o Tail(feeder)) = Len(pipe \o feeder)
  BY <1>1
<1>4. \A i \in 1..Len(pipe \o feeder) :
        (Append(pipe, Head(feeder)) \o Tail(feeder))[i] = (pipe \o feeder)[i]
  BY <1>1
<1> QED BY <1>1, <1>2, <1>3, <1>4 DEF Q

(* The worker takes the first message. *)
LEMMA QueueTake ==
  ASSUME pipe \in Seq(Messages), feeder \in Seq(Messages), pipe # <<>>,
         pipe' = Tail(pipe), feeder' = feeder
  PROVE  /\ Len(Q) \in Nat /\ 1 \in 1..Len(Q) /\ Q[1] = Head(pipe)
         /\ Head(pipe) \in Messages
         /\ Len(Q') = Len(Q) - 1
         /\ \A i \in 1..Len(Q') : i + 1 \in 1..Len(Q) /\ Q'[i] = Q[i + 1]
  BY DEF Q

(* A drain leaves messages that were there, none twice: the feeder's in    *)
(* their order, and behind them those it keeps of the pipe's.              *)
LEMMA QueueDrain ==
  ASSUME pipe \in Seq(Messages), feeder \in Seq(Messages),
         NEW K, K \subseteq 1..Len(pipe),
         feeder' = feeder \o Keep(pipe, K), pipe' = <<>>
  PROVE  /\ feeder' \in Seq(Messages)
         /\ \E g \in [1..Len(Q') -> 1..Len(Q)] :
              /\ \A i \in 1..Len(Q') : Q'[i] = Q[g[i]]
              /\ \A i, j \in 1..Len(Q') : i # j => g[i] # g[j]
              /\ \A i \in 1..Len(Q') : g[i] \in K \/ g[i] = Len(pipe) + i
<1> DEFINE R == Keep(pipe, K)
           n == Len(feeder)
           p == Len(pipe)
<1>1. R \in Seq(Messages) /\ \E h : Embeds(h, R, pipe, K)
  BY Zenon, Kept
<1> HIDE DEF R
<1>2. PICK h \in [1..Len(R) -> K] :
           /\ \A j \in 1..Len(R) : R[j] = pipe[h[j]]
           /\ \A i, j \in 1..Len(R) : i < j => h[i] < h[j]
  BY Zenon, <1>1 DEF Embeds
<1>3. n \in Nat /\ p \in Nat /\ Len(R) \in Nat
  BY <1>1
<1>4. feeder' = feeder \o R /\ pipe' = <<>>
  BY Zenon DEF R
<1>5. Q' = feeder \o R
  <2>1. feeder \o R \in Seq(Messages)
    BY <1>1
  <2>2. Q' = <<>> \o (feeder \o R)
    BY Zenon, <1>4 DEF Q
  <2> QED BY <2>1, <2>2
<1>6. Len(Q') = n + Len(R)
  BY <1>1, <1>5
<1>7. \A i \in 1..n : Q'[i] = Q[p + i] /\ p + i \in 1..Len(Q)
  BY <1>1, <1>5 DEF Q
<1>8. ASSUME NEW i \in 1..Len(Q'), i > n
      PROVE  i - n \in 1..Len(R) /\ Q'[i] = Q[h[i - n]] /\ h[i - n] \in K
             /\ h[i - n] \in 1..Len(Q) /\ h[i - n] \in 1..p
  <2>1. i - n \in 1..Len(R)
    BY <1>3, <1>6, <1>8
  <2>2. Q'[i] = R[i - n]
    BY <1>1, <1>5, <1>6, <1>8
  <2>3. h[i - n] \in K /\ R[i - n] = pipe[h[i - n]]
    BY Zenon, <1>2, <2>1
  <2>4. h[i - n] \in 1..p /\ Len(Q) = p + n
    BY Zenon, <2>3, QueueParts
  <2>5. Q[h[i - n]] = pipe[h[i - n]]
    BY Zenon, <2>4, QueueParts
  <2> QED BY <1>3, <2>1, <2>2, <2>3, <2>4, <2>5
<1> DEFINE g == [i \in 1..Len(Q') |-> IF i <= n THEN p + i ELSE h[i - n]]
<1>9. g \in [1..Len(Q') -> 1..Len(Q)]
  <2>1. \A i \in 1..Len(Q') : i <= n => p + i \in 1..Len(Q)
    BY <1>3, <1>6, <1>7
  <2>2. \A i \in 1..Len(Q') : ~(i <= n) => h[i - n] \in 1..Len(Q)
    BY SMT, SMTT(20), <1>3, <1>6, <1>8
  <2> QED BY Zenon, <2>1, <2>2
<1>10. \A i \in 1..Len(Q') : Q'[i] = Q[g[i]]
  BY <1>3, <1>6, <1>7, <1>8
<1>11. \A i \in 1..Len(Q') : g[i] \in K \/ g[i] = Len(pipe) + i
  BY <1>3, <1>6, <1>8
<1>12. ASSUME NEW i \in 1..Len(Q'), NEW j \in 1..Len(Q'), i < j
       PROVE  g[i] # g[j]
  <2>1. i \in Nat /\ j \in Nat
    BY <1>3, <1>6
  <2>2. CASE j <= n
    BY <1>3, <1>12, <2>1, <2>2
  <2>3. CASE i <= n /\ n < j
    <3>1. g[i] = p + i /\ g[j] = h[j - n] /\ h[j - n] \in 1..p
      BY <1>3, <1>8, <2>1, <2>3
    <3> QED BY <1>3, <2>1, <3>1
  <2>4. CASE n < i
    <3>1. g[i] = h[i - n] /\ g[j] = h[j - n]
      BY <1>3, <1>12, <2>1, <2>4
    <3>2. i - n \in 1..Len(R) /\ j - n \in 1..Len(R) /\ i - n < j - n
      BY <1>3, <1>8, <1>12, <2>1, <2>4
    <3>3. h[i - n] < h[j - n]
      BY Zenon, <1>2, <3>2
    <3>4. h[i - n] \in 1..p
      BY Zenon, <1>8, <2>4
    <3> QED BY <3>1, <3>3, <3>4
  <2> QED BY <1>3, <2>1, <2>2, <2>3, <2>4, <1>12
<1>13. \A i, j \in 1..Len(Q') : i # j => g[i] # g[j]
  <2>1. \A i \in 1..Len(Q') : i \in Nat
    BY <1>3, <1>6
  <2> HIDE DEF g
  <2> QED BY <1>12, <2>1
<1>14. feeder' \in Seq(Messages)
  BY <1>1, <1>4
<1> HIDE DEF g
<1> QED BY Zenon, <1>9, <1>10, <1>11, <1>13, <1>14
-----------------------------------------------------------------------------
Done == {r \in Rids : st[r] = "done"}

(* The tasks that are done are finitely many. *)
LEMMA DoneBound ==
  ASSUME TypeOK
  PROVE  /\ IsFiniteSet(Done) /\ Cardinality(Done) \in Nat
         /\ Cardinality(Rids) \in Nat /\ Cardinality(Done) <= Cardinality(Rids)
<1>1. Done \in SUBSET Rids
  BY Zenon DEF Done
<1> QED BY Zenon, <1>1, RidsFinite, FS_Subset, FS_CardinalityType

(* No more callbacks wait than there are requests.                         *)
LEMMA Callbacks ==
  ASSUME st' \in [Rids -> {"none", "run", "flushed", "cancelled", "done"}],
         callbacks' \in Nat, CallbackInv'
  PROVE  callbacks' \in 0..Cardinality(Rids)
<1>1. Done' \in SUBSET Rids
  BY Zenon DEF Done
<1>2. Cardinality(Rids) \in Nat /\ Cardinality(Done') <= Cardinality(Rids)
      /\ Cardinality(Done') \in Nat
  BY Zenon, <1>1, RidsFinite, FS_Subset, FS_CardinalityType
<1> QED BY <1>2 DEF CallbackInv, Done

(* Actions that end no task and run no callback. *)
LEMMA SameCallbacks ==
  ASSUME TypeOK, CallbackInv, callbacks' = callbacks,
         \A r \in Rids : st'[r] = "done" <=> st[r] = "done"
  PROVE  CallbackInv'
<1>1. Done' = Done
  BY Zenon DEF Done
<1> QED BY Zenon, <1>1 DEF CallbackInv, Done

(* The orchestrator's actions keep the types. *)
LEMMA ClientTypes ==
  ASSUME IInv,
         \/ \E s \in Sessions, t \in 1..MaxTurn : Submit(s, t)
         \/ \E s \in Sessions : NewTurn(s) \/ SubmitAbort(s)
         \/ SubmitShutdown
         \/ FeederStep
         \/ \E r \in Rids : SelectiveDrain(r)
  PROVE  TypeOK' /\ CallbackInv'
<1>1. ASSUME NEW s \in Sessions, NEW t \in 1..MaxTurn, Submit(s, t)
      PROVE  TypeOK'
  <2>1. <<s, t>> \in Turns /\ sent[<<s, t>>] \in 0..MaxReq /\ sent[<<s, t>>] < MaxReq
        /\ sent' = [sent EXCEPT ![<<s, t>>] = @ + 1]
    BY Zenon, <1>1 DEF Submit, IInv, TypeOK, Turns
  <2>2. sent'[<<s, t>>] \in 1..MaxReq /\ sent' \in [Turns -> 0..MaxReq]
    <3>1. sent \in [Turns -> 0..MaxReq] /\ MaxReq \in Nat
      BY Zenon, Constants DEF IInv, TypeOK
    <3>2. sent[<<s, t>>] + 1 \in 1..MaxReq
      BY <2>1, <3>1
    <3> QED BY <2>1, <3>1, <3>2
  <2>3. [s |-> s, t |-> t, k |-> sent'[<<s, t>>]] \in Rids
    BY Zenon, <2>2 DEF Rids
  <2>4. feeder' \in Seq(Messages)
    <3>1. feeder' = Append(feeder, Generate([s |-> s, t |-> t, k |-> sent'[<<s, t>>]]))
      BY Zenon, <1>1 DEF Submit
    <3>2. feeder \in Seq(Messages)
      BY Zenon DEF IInv, TypeOK
    <3> QED BY <2>3, <3>1, <3>2, Sendable
  <2>5. late' \subseteq Sessions
    BY Zenon, <1>1 DEF Submit, IInv, TypeOK
  <2> QED BY Zenon, <1>1, <2>2, <2>4, <2>5
          DEF Submit, IInv, TypeOK, tasks, loop, results
<1>2. ASSUME NEW s \in Sessions, NewTurn(s)
      PROVE  TypeOK'
  <2>1. turn' \in [Sessions -> 1..MaxTurn]
    <3>1. turn \in [Sessions -> 1..MaxTurn] /\ turn[s] < MaxTurn
          /\ turn' = [turn EXCEPT ![s] = @ + 1] /\ MaxTurn \in Nat
      BY Zenon, <1>2, Constants DEF NewTurn, IInv, TypeOK
    <3>2. turn[s] + 1 \in 1..MaxTurn
      BY <3>1
    <3> QED BY Zenon, <3>1, <3>2
  <2>2. late' \subseteq Sessions
    BY Zenon, <1>2 DEF NewTurn, IInv, TypeOK
  <2> QED BY Zenon, <1>2, <2>1, <2>2 DEF NewTurn, IInv, TypeOK, tasks, loop, results
<1>3. ASSUME NEW s \in Sessions, SubmitAbort(s)
      PROVE  TypeOK'
  <2>1. feeder' \in Seq(Messages)
    <3>1. feeder \in Seq(Messages) /\ Abort(s) \in Messages
      BY Zenon, Sendable DEF IInv, TypeOK
    <3>2. feeder' = Append(feeder, Abort(s))
      BY Zenon, <1>3 DEF SubmitAbort
    <3> QED BY <3>1, <3>2
  <2>2. dropped' \subseteq Turns
    <3>1. turn[s] \in 1..MaxTurn /\ MaxTurn \in Nat /\ dropped \subseteq Turns
      BY Zenon, Constants DEF IInv, TypeOK
    <3>2. \A t \in 1..turn[s] : t \in 1..MaxTurn
      BY <3>1
    <3>3. \A t \in 1..turn[s] : <<s, t>> \in Turns
      BY Zenon, <3>2 DEF Turns
    <3> QED BY Zenon, <1>3, <3>1, <3>3 DEF SubmitAbort
  <2>3. aborts' \in [Sessions -> 0..MaxAborts]
    <3>1. aborts \in [Sessions -> 0..MaxAborts] /\ aborts[s] < MaxAborts
          /\ aborts' = [aborts EXCEPT ![s] = @ + 1] /\ MaxAborts \in Nat
      BY Zenon, <1>3, Constants DEF SubmitAbort, IInv, TypeOK
    <3>2. aborts[s] + 1 \in 0..MaxAborts
      BY <3>1
    <3> QED BY Zenon, <3>1, <3>2
  <2> QED BY Zenon, <1>3, <2>1, <2>2, <2>3
          DEF SubmitAbort, IInv, TypeOK, tasks, loop, results
<1>4. ASSUME SubmitShutdown  PROVE TypeOK'
  BY <1>4, Sendable DEF SubmitShutdown, IInv, TypeOK, tasks, loop, results
<1>5. ASSUME FeederStep  PROVE TypeOK'
  <2>1. pipe' \in Seq(Messages) /\ feeder' \in Seq(Messages)
    <3>1. feeder \in Seq(Messages) /\ pipe \in Seq(Messages)
      BY Zenon DEF IInv, TypeOK
    <3>2. feeder # <<>> /\ pipe' = Append(pipe, Head(feeder)) /\ feeder' = Tail(feeder)
      BY Zenon, <1>5 DEF FeederStep
    <3> QED BY <3>1, <3>2
  <2>2. UNCHANGED <<client, pc, active, tasks, loop, results>>
    BY Zenon, <1>5 DEF FeederStep
  <2> QED BY Zenon, <2>1, <2>2 DEF IInv, TypeOK, client, tasks, loop, results
<1>6. ASSUME NEW r \in Rids, SelectiveDrain(r)  PROVE TypeOK'
  <2>1. pipe' = <<>> /\ feeder' \in Seq(Messages)
    <3> DEFINE K == {i \in 1..Len(pipe) : ~DrainTarget(pipe[i], r)}
    <3>1. K \subseteq 1..Len(pipe)
      BY Zenon
    <3>2. feeder' = feeder \o Keep(pipe, K) /\ pipe' = <<>>
      BY Zenon, <1>6 DEF SelectiveDrain
    <3> HIDE DEF K
    <3> QED BY Zenon, <3>1, <3>2, QueueDrain DEF IInv, TypeOK
  <2>2. UNCHANGED <<client, pc, active, tasks, loop, results>>
    BY Zenon, <1>6 DEF SelectiveDrain
  <2>3. pipe' \in Seq(Messages)
    BY <2>1
  <2> QED BY Zenon, <2>1, <2>2, <2>3 DEF IInv, TypeOK, client, tasks, loop, results
<1>7. callbacks' = callbacks /\ st' = st
  BY Zenon DEF Submit, NewTurn, SubmitAbort, SubmitShutdown, FeederStep,
         SelectiveDrain, tasks
<1>8. CallbackInv'
  BY Zenon, <1>7, SameCallbacks DEF IInv
<1> QED BY Zenon, <1>1, <1>2, <1>3, <1>4, <1>5, <1>6, <1>8

(* What the worker takes. *)
LEMMA Taken ==
  ASSUME IInv, pipe # <<>>
  PROVE  /\ Head(pipe) \in Messages /\ Head(pipe) = Q[1] /\ 1 \in 1..Len(Q)
         /\ IsGen(Head(pipe)) =>
              Head(pipe).rid \in Rids /\ st[Head(pipe).rid] = "none"
<1>1. Head(pipe) \in Messages /\ Head(pipe) = Q[1] /\ 1 \in 1..Len(Q)
  BY DEF IInv, TypeOK, Q
<1> QED BY Zenon, <1>1, Message DEF IInv, QueueInv

(* The outputs in the batch are of requests. *)
LEMMA CollectTypes ==
  ASSUME IInv, NEW r \in Rids \cup {NoRid}, Collect(r)
  PROVE  /\ batch' \in Seq(Rids) /\ outQ' \in Seq(Rids)
         /\ loopRid' \in Rids \cup {NoRid} /\ pc' = "sleep"
<1>1. outQ \in Seq(Rids)
  BY Zenon DEF IInv, TypeOK
<1>2. outQ # <<>> => outQ[Len(outQ)] \in Rids
  BY <1>1
<1> QED BY <1>1, <1>2 DEF Collect

(* The main loop's actions keep the types. *)
LEMMA LoopTypes ==
  ASSUME IInv, MainLoop
  PROVE  TypeOK' /\ CallbackInv'
<1> USE DEF IsGen
<1>1. ASSUME TakeGenerate  PROVE TypeOK' /\ CallbackInv'
  <2> DEFINE r == Head(pipe).rid
  <2>1. r \in Rids /\ st[r] = "none" /\ TurnOf(r) \in Turns
    BY Zenon, <1>1, Taken, Rid DEF TakeGenerate
  <2> HIDE DEF r
  <2>2. pipe' \in Seq(Messages) /\ feeder' \in Seq(Messages)
    BY <1>1 DEF TakeGenerate, IInv, TypeOK
  <2>3. aborted' \subseteq Sessions /\ lastTurn' \in Turns /\ taskType' = "generate"
    BY Zenon, <1>1, <2>1 DEF TakeGenerate, IInv, TypeOK, AbortList, r
  <2>4. CASE r.s \in aborted'
    <3>1. /\ loopRid' = r /\ skipped' = skipped \cup {r}
          /\ UNCHANGED <<pc, active, st, outQ, batch, started>>
      BY Zenon, <1>1, <2>4 DEF TakeGenerate, r
    <3>2. TypeOK'
      <4>1. UNCHANGED <<client, feeder, produced, callbacks, discarded, results>>
        BY Zenon, <1>1 DEF TakeGenerate
      <4> QED BY Zenon, <4>1, <2>1, <2>2, <2>3, <3>1 DEF IInv, TypeOK, client, results
    <3> QED BY Zenon, <1>1, <3>1, <3>2, SameCallbacks DEF TakeGenerate, IInv
  <2>5. CASE r.s \notin aborted'
    <3>1. /\ active' = active \cup {r} /\ st' = [st EXCEPT ![r] = "run"]
          /\ started' = Append(started, r) /\ Collect(r) /\ skipped' = skipped
      BY Zenon, <1>1, <2>5 DEF TakeGenerate, r
    <3>2. /\ batch' \in Seq(Rids) /\ outQ' \in Seq(Rids)
          /\ loopRid' \in Rids \cup {NoRid} /\ pc' = "sleep"
      BY Zenon, <2>1, <3>1, CollectTypes
    <3>3. st' \in [Rids -> {"none", "run", "flushed", "cancelled", "done"}]
          /\ \A q \in Rids : st'[q] = IF q = r THEN "run" ELSE st[q]
      BY Zenon, <2>1, <3>1 DEF IInv, TypeOK
    <3>4. active' \subseteq {q \in Rids : st'[q] \in {"run", "flushed"}}
      BY Zenon, <2>1, <3>1, <3>3 DEF IInv, TypeOK
    <3>5. started' \in Seq(Rids)
      BY <2>1, <3>1 DEF IInv, TypeOK
    <3>6. TypeOK'
      BY Zenon, <1>1, <2>2, <2>3, <3>1, <3>2, <3>3, <3>4, <3>5
         DEF TakeGenerate, IInv, TypeOK, client, results
    <3>7. CallbackInv'
      BY Zenon, <1>1, <2>1, <3>3, SameCallbacks DEF TakeGenerate, IInv
    <3> QED BY Zenon, <3>6, <3>7
  <2> QED BY Zenon, <2>4, <2>5
<1>2. ASSUME TakeAbort  PROVE TypeOK' /\ CallbackInv'
  <2> DEFINE s == Head(pipe).rid.s
  <2>1. s \in Sessions
    BY Zenon, <1>2, Taken, Message DEF TakeAbort
  <2>2. pipe' \in Seq(Messages) /\ feeder' \in Seq(Messages)
    BY <1>2 DEF TakeAbort, IInv, TypeOK
  <2>3. /\ st' = [r \in Rids |-> IF r \in active /\ r.s = s THEN "cancelled"
                                 ELSE st[r]]
        /\ active' = {r \in active : r.s # s} /\ aborted' = aborted \cup {s}
        /\ Collect(NoRid)
    BY Zenon, <1>2 DEF TakeAbort
  <2> HIDE DEF s
  <2>4. /\ batch' \in Seq(Rids) /\ outQ' \in Seq(Rids)
        /\ loopRid' \in Rids \cup {NoRid} /\ pc' = "sleep"
    BY Zenon, <2>3, CollectTypes
  <2>5. st' \in [Rids -> {"none", "run", "flushed", "cancelled", "done"}]
    BY Zenon, <2>3 DEF IInv, TypeOK
  <2>6. active' \subseteq {q \in Rids : st'[q] \in {"run", "flushed"}}
    BY Zenon, <2>3 DEF IInv, TypeOK
  <2>7. \A r \in Rids : st'[r] = "done" <=> st[r] = "done"
    BY Zenon, <2>3 DEF IInv, TypeOK
  <2>8. TypeOK'
    BY Zenon, <1>2, <2>1, <2>2, <2>3, <2>4, <2>5, <2>6
       DEF TakeAbort, IInv, TypeOK, client, results
  <2> QED BY Zenon, <1>2, <2>7, <2>8, SameCallbacks DEF TakeAbort, IInv
<1>3. ASSUME TakeShutdown \/ TakeNothing  PROVE TypeOK' /\ CallbackInv'
  <2>1. TypeOK'
    <3>1. /\ UNCHANGED <<client, feeder, active, tasks, loop, results>>
          /\ pc' \in {"exit", "empty"}
          /\ pipe' = pipe \/ (pipe # <<>> /\ pipe' = Tail(pipe))
      BY <1>3 DEF TakeShutdown, TakeNothing
    <3>2. pipe' \in Seq(Messages)
      <4>1. pipe \in Seq(Messages)
        BY Zenon DEF IInv, TypeOK
      <4>2. pipe # <<>> => Tail(pipe) \in Seq(Messages)
        BY <4>1
      <4> QED BY Zenon, <3>1, <4>1, <4>2
    <3> QED BY Zenon, <3>1, <3>2 DEF IInv, TypeOK, client, tasks, loop, results
  <2> QED BY Zenon, <1>3, <2>1, SameCallbacks DEF TakeShutdown, TakeNothing, IInv, tasks
<1>4. ASSUME CollectAfterEmpty  PROVE TypeOK' /\ CallbackInv'
  <2>1. loopRid \in Rids \cup {NoRid} /\ Collect(loopRid)
    BY Zenon, <1>4 DEF CollectAfterEmpty, IInv, TypeOK
  <2>2. /\ batch' \in Seq(Rids) /\ outQ' \in Seq(Rids)
        /\ loopRid' \in Rids \cup {NoRid} /\ pc' = "sleep"
    BY Zenon, <2>1, CollectTypes
  <2>3. TypeOK'
    BY Zenon, <1>4, <2>2 DEF CollectAfterEmpty, IInv, TypeOK, client, results
  <2> QED BY <1>4, <2>3, SameCallbacks DEF CollectAfterEmpty, IInv
<1>5. ASSUME Dispatch  PROVE TypeOK' /\ CallbackInv'
  <2>1. {batch[i] : i \in 1..Len(batch)} \subseteq Rids
    <3>1. batch \in Seq(Rids)
      BY Zenon DEF IInv, TypeOK
    <3> QED BY <3>1
  <2>2. answered' \subseteq Rids /\ discarded' \subseteq Rids /\ batch' = <<>>
    BY Zenon, <1>5, <2>1 DEF Dispatch, IInv, TypeOK
  <2>3. batch' \in Seq(Rids)
    BY <2>2
  <2>4. /\ pc' = "top"
        /\ UNCHANGED <<client, feeder, pipe, active, tasks>>
        /\ UNCHANGED <<aborted, lastTurn, taskType, loopRid, skipped, started, failed>>
    BY Zenon, <1>5 DEF Dispatch
  <2>5. TypeOK'
    BY <2>2, <2>3, <2>4 DEF IInv, TypeOK, client, tasks
  <2> QED BY <2>4, <2>5, SameCallbacks DEF IInv, tasks
<1> QED BY Zenon, <1>1, <1>2, <1>3, <1>4, <1>5 DEF MainLoop

(* So do those of the tasks and of their callbacks. *)
LEMMA TaskTypes ==
  ASSUME IInv, GenTasks \/ DoneCallback
  PROVE  TypeOK' /\ CallbackInv'
<1>1. ASSUME NEW r \in Rids, GenOutput(r) \/ GenStop(r)
      PROVE  TypeOK' /\ CallbackInv'
  <2>1. produced' \in [Rids -> 0..MaxOut]
    <3>1. produced \in [Rids -> 0..MaxOut] /\ produced[r] < MaxOut
          /\ produced' = [produced EXCEPT ![r] = @ + 1] /\ MaxOut \in Nat
      BY Zenon, <1>1, Constants DEF GenOutput, GenStop, IInv, TypeOK
    <3>2. produced[r] + 1 \in 0..MaxOut
      BY <3>1
    <3> QED BY Zenon, <3>1, <3>2
  <2>2. outQ' \in Seq(Rids)
    <3>1. outQ \in Seq(Rids) /\ outQ' = Append(outQ, r)
      BY Zenon, <1>1 DEF GenOutput, GenStop, IInv, TypeOK
    <3> QED BY <3>1
  <2>3. /\ st' \in [Rids -> {"none", "run", "flushed", "cancelled", "done"}]
        /\ \A q \in Rids : st'[q] = st[q] \/ (st[q] = "run" /\ st'[q] = "flushed")
    BY <1>1 DEF GenOutput, GenStop, IInv, TypeOK
  <2>4. active' = active
    BY Zenon, <1>1 DEF GenOutput, GenStop
  <2>5. active' \subseteq {q \in Rids : st'[q] \in {"run", "flushed"}}
    BY Zenon, <2>3, <2>4 DEF IInv, TypeOK
  <2>6. TypeOK'
    BY Zenon, <1>1, <2>1, <2>2, <2>3, <2>4, <2>5
       DEF GenOutput, GenStop, IInv, TypeOK, client, loop, results
  <2>7. CallbackInv'
    BY Zenon, <1>1, <2>3, SameCallbacks DEF GenOutput, GenStop, IInv
  <2> QED BY Zenon, <2>6, <2>7
<1>2. ASSUME NEW r \in Rids, NEW e \in {"run", "cancelled"}, GenEnd(r, e),
             failed' \subseteq Rids
      PROVE  TypeOK' /\ CallbackInv'
  <2>1. /\ st' \in [Rids -> {"none", "run", "flushed", "cancelled", "done"}]
        /\ \A q \in Rids : st'[q] = IF q = r THEN "done" ELSE st[q]
        /\ st[r] # "done"
    BY Zenon, <1>2 DEF GenEnd, IInv, TypeOK
  <2>2. active' \subseteq {q \in Rids : st'[q] \in {"run", "flushed"}}
    BY Zenon, <1>2, <2>1 DEF GenEnd, EntryPopped, IInv, TypeOK
  <2>3. Done' = Done \cup {r} /\ r \notin Done
    BY Zenon, <2>1 DEF Done
  <2>4. Cardinality(Done') = Cardinality(Done) + 1
    BY Zenon, <2>3, DoneBound, FS_AddElement DEF IInv
  <2>5. callbacks' = callbacks + 1 /\ callbacks \in Nat /\ callbacks <= Cardinality(Done)
    <3>1. callbacks' = callbacks + 1
      BY Zenon, <1>2 DEF GenEnd
    <3>2. callbacks \in 0..Cardinality(Rids) /\ callbacks <= Cardinality(Done)
      BY Zenon DEF IInv, TypeOK, CallbackInv, Done
    <3> QED BY <3>1, <3>2
  <2>6. callbacks' <= Cardinality(Done') /\ callbacks' \in Nat
    BY <2>4, <2>5, DoneBound DEF IInv
  <2>7. CallbackInv'
    BY Zenon, <2>6 DEF CallbackInv, Done
  <2>8. callbacks' \in 0..Cardinality(Rids)
    BY Zenon, <2>1, <2>6, <2>7, Callbacks
  <2>9. UNCHANGED <<client, feeder, pipe, pc, produced, outQ, loop, answered>>
    BY Zenon, <1>2 DEF GenEnd
  <2>10. failed' \subseteq Rids
    BY Zenon, <1>2
  <2>11. TypeOK'
    BY Zenon, <2>1, <2>2, <2>8, <2>9, <2>10 DEF IInv, TypeOK, client, loop
  <2> QED BY Zenon, <2>7, <2>11
<1>3. ASSUME NEW r \in Rids, GenFinish(r) \/ GenError(r) \/ GenCancelled(r)
      PROVE  TypeOK' /\ CallbackInv'
  <2>1. failed' \subseteq Rids
    BY Zenon, <1>3 DEF GenFinish, GenError, GenCancelled, IInv, TypeOK
  <2>2. GenEnd(r, "run") \/ GenEnd(r, "cancelled")
    BY Zenon, <1>3 DEF GenFinish, GenError, GenCancelled
  <2> QED BY Zenon, <1>2, <2>1, <2>2
<1>4. ASSUME DoneCallback  PROVE TypeOK' /\ CallbackInv'
  <2>1. callbacks \in Nat /\ callbacks > 0 /\ callbacks' = callbacks - 1 /\ st' = st
    BY <1>4, DoneBound DEF DoneCallback, IInv, TypeOK
  <2>2. CallbackInv'
    BY <2>1, DoneBound DEF IInv, CallbackInv, Done
  <2>3. callbacks' \in 0..Cardinality(Rids)
    BY <2>1, <2>2, Callbacks DEF IInv, TypeOK
  <2>4. TypeOK'
    BY Zenon, <1>4, <2>3 DEF DoneCallback, IInv, TypeOK, client, loop, results
  <2> QED BY Zenon, <2>2, <2>4
<1> QED BY Zenon, <1>1, <1>3, <1>4 DEF GenTasks, GenTask

-----------------------------------------------------------------------------
(* The requests that wait are requests. *)
LEMMA QueuedRids ==
  ASSUME IInv
  PROVE  /\ Len(Q) \in Nat
         /\ \A i \in 1..Len(Q) : Q[i] \in Messages
         /\ \A i \in 1..Len(Q) : IsGen(Q[i]) => Q[i].rid \in Rids
<1>1. pipe \in Seq(Messages) /\ feeder \in Seq(Messages)
  BY Zenon DEF IInv, TypeOK
<1>2. Q \in Seq(Messages)
  BY Zenon, <1>1, QueueParts
<1>3. Len(Q) \in Nat /\ \A i \in 1..Len(Q) : Q[i] \in Messages
  BY <1>2
<1> QED BY Zenon, <1>3, Message

(* The invariants about what waits. *)
Invs ==
  /\ QueueInv
  /\ OneSession => AbortInv
  /\ OneSession /\ ~Overlap => OrderInv

(* Steps that neither put nor take a message, nor start a request. *)
Quiet ==
  /\ Q' = Q /\ sent' = sent
  /\ \A s \in Sessions : turn[s] <= turn'[s]
  /\ UNCHANGED <<started, lastTurn, taskType, aborted, skipped, dropped>>
  /\ \A r \in Rids : st'[r] = "none" <=> st[r] = "none"
  /\ \A r \in Traced' : r \in Rids /\ st[r] # "none"
  /\ OneSession => \A r \in discarded' : TurnOf(r) \in dropped

(* Such a step keeps the invariants.                                       *)
LEMMA QuietKeeps ==
  ASSUME IInv, TypeOK', Quiet
  PROVE  Invs'
<1>1. \A r \in Rids : Made(r) => MadeIn(r, turn', sent')
  <2>1. \A s \in Sessions : turn[s] \in Nat /\ turn'[s] \in Nat
    <3>1. turn \in [Sessions -> 1..MaxTurn] /\ turn' \in [Sessions -> 1..MaxTurn]
      BY Zenon DEF IInv, TypeOK
    <3> QED BY Zenon, <3>1, Counters
  <2>2. sent' = sent /\ \A s \in Sessions : turn[s] <= turn'[s]
    BY Zenon DEF Quiet
  <2>3. ASSUME NEW r \in Rids, Made(r)  PROVE MadeIn(r, turn', sent')
    <3>1. r.s \in Sessions /\ r.t \in Nat
      BY Rid, Constants
    <3> QED BY <2>1, <2>2, <2>3, <3>1 DEF Made, MadeIn
  <2> QED BY Zenon, <2>3
<1>3. \A i \in 1..Len(Q) : IsGen(Q[i]) => Q[i].rid \in Rids
  BY QueuedRids
<1>4. QueueInv'
  <2>1. \A i \in 1..Len(Q) : IsGen(Q[i]) =>
          MadeIn(Q[i].rid, turn', sent') /\ st'[Q[i].rid] = "none"
    BY Zenon, <1>1, <1>3 DEF IInv, QueueInv, Quiet
  <2>2. \A r \in Rids : st'[r] # "none" => MadeIn(r, turn', sent')
    BY Zenon, <1>1 DEF IInv, QueueInv, Quiet
  <2>3. lastTurn \in Turns /\ lastTurn[2] <= turn[lastTurn[1]] =>
          lastTurn[2] <= turn'[lastTurn[1]]
    <3> SUFFICES ASSUME lastTurn \in Turns, lastTurn[2] <= turn[lastTurn[1]]
                 PROVE  lastTurn[2] <= turn'[lastTurn[1]]
      BY Zenon
    <3>1. lastTurn[1] \in Sessions /\ lastTurn[2] \in Nat
      BY Constants DEF Turns
    <3>2. turn[lastTurn[1]] \in Nat /\ turn'[lastTurn[1]] \in Nat
          /\ turn[lastTurn[1]] <= turn'[lastTurn[1]]
      <4>1. turn \in [Sessions -> 1..MaxTurn] /\ turn' \in [Sessions -> 1..MaxTurn]
        BY Zenon DEF IInv, TypeOK
      <4> QED BY Zenon, <3>1, <4>1, Counters DEF Quiet
    <3> QED BY <3>1, <3>2
  <2>4. \A r \in Traced' : st'[r] # "none"
    BY Zenon DEF Quiet
  <2>5. Q' = Q /\ lastTurn' = lastTurn
    BY Zenon DEF Quiet
  <2> QED BY Zenon, <2>1, <2>2, <2>3, <2>4, <2>5 DEF IInv, QueueInv, Made
<1>5. OneSession => AbortInv'
  <2> SUFFICES ASSUME OneSession  PROVE AbortInv'
    BY Zenon
  <2>1. AbortInv
    BY Zenon DEF IInv
  <2>2. AllDropped => AllDropped'
    BY Zenon DEF AllDropped, Quiet
  <2>3. LastDropped => LastDropped'
    BY Zenon DEF LastDropped, Quiet
  <2>4. OnlyAbortedDiscarded'
    BY Zenon DEF OnlyAbortedDiscarded, Quiet
  <2>5. NewTurnNotSkipped'
    BY Zenon, <2>1 DEF AbortInv, NewTurnNotSkipped, Quiet
  <2>6. Q' = Q /\ dropped' = dropped /\ taskType' = taskType /\ aborted' = aborted
    BY Zenon DEF Quiet
  <2>7. AbortsCover'
    BY <2>1, <2>2, <2>3, <2>6 DEF AbortInv, AbortsCover
  <2> QED BY Zenon, <2>1, <2>2, <2>3, <2>4, <2>5, <2>6, <2>7 DEF AbortInv
<1>6. OneSession /\ ~Overlap => OrderInv'
  <2> SUFFICES ASSUME OrderInv  PROVE OrderInv'
    BY Zenon DEF IInv
  <2> QED BY Zenon DEF OrderInv, Quiet
<1> QED BY <1>4, <1>5, <1>6 DEF Invs, OneSession

(* A put that starts nothing: an ABORT or the SHUTDOWN, or a request. *)
Puts(m) ==
  /\ feeder' = Append(feeder, m) /\ pipe' = pipe
  /\ UNCHANGED <<turn, active, tasks, loop, results>>
  /\ dropped \subseteq dropped'
  /\ \A x \in Turns : sent[x] <= sent'[x]
  /\ IsGen(m) => /\ MadeIn(m.rid, turn', sent') /\ m.rid.k > sent[TurnOf(m.rid)]
                 /\ dropped' = dropped
                 /\ (~Overlap => m.rid.t = turn[m.rid.s])
  /\ m.type = "abort" =>
       \A s \in Sessions, t \in 1..MaxTurn :
         OneSession /\ t <= turn[s] => <<s, t>> \in dropped'

(* Such a put keeps the invariants.                                        *)
LEMMA PutKeeps ==
  ASSUME IInv, TypeOK', NEW m \in Messages, Puts(m)
  PROVE  Invs'
<1> DEFINE n == Len(Q)
<1>1. /\ Len(Q') = n + 1 /\ n \in Nat /\ Q'[n + 1] = m
      /\ \A i \in 1..n : Q'[i] = Q[i]
  <2>1. /\ pipe \in Seq(Messages) /\ feeder \in Seq(Messages)
        /\ feeder' = Append(feeder, m) /\ pipe' = pipe
    BY Zenon DEF IInv, TypeOK, Puts
  <2> QED BY Zenon, <2>1, QueueAppend
<1>2. \A i \in 1..n + 1 : i = n + 1 \/ i \in 1..n
  <2> HIDE DEF n
  <2> QED BY <1>1
<1>3. \A i \in 1..n : IsGen(Q[i]) => Q[i].rid \in Rids
  BY Zenon, QueuedRids
<1> HIDE DEF n
<1>4. /\ UNCHANGED <<turn, st, started, lastTurn, taskType, aborted, skipped>>
      /\ discarded' = discarded /\ Traced' = Traced
  <2>1. UNCHANGED <<turn, tasks, loop, results>>
    BY Zenon DEF Puts
  <2> QED BY <2>1 DEF tasks, loop, results, Traced
<1>5. \A x \in Turns : sent[x] \in Nat /\ sent'[x] \in Nat /\ sent[x] <= sent'[x]
  <2>1. sent \in [Turns -> 0..MaxReq] /\ sent' \in [Turns -> 0..MaxReq]
    BY Zenon DEF IInv, TypeOK
  <2>2. \A x \in Turns : sent[x] <= sent'[x]
    BY Zenon DEF Puts
  <2> QED BY Zenon, <2>1, <2>2, Counters
<1>6. \A r \in Rids : Made(r) => MadeIn(r, turn', sent')
  <2> SUFFICES ASSUME NEW r \in Rids, Made(r)  PROVE MadeIn(r, turn', sent')
    BY Zenon
  <2>1. r.k \in Nat /\ TurnOf(r) \in Turns
    BY Rid, Constants
  <2> QED BY <2>1, <1>4, <1>5 DEF Made, MadeIn
<1>7. IsGen(m) => /\ m.rid \in Rids /\ st[m.rid] = "none"
                  /\ \A r \in Rids : Made(r) => r # m.rid
  <2> SUFFICES ASSUME IsGen(m)
               PROVE  /\ m.rid \in Rids /\ st[m.rid] = "none"
                      /\ \A r \in Rids : Made(r) => r # m.rid
    BY Zenon
  <2>1. m.rid \in Rids /\ m.rid.k > sent[TurnOf(m.rid)]
    BY Zenon, Message DEF Puts
  <2>2. ~Made(m.rid)
    <3>1. m.rid.k \in Nat /\ sent[TurnOf(m.rid)] \in Nat
      BY Zenon, <2>1, <1>5, Rid, Constants
    <3> QED BY <2>1, <3>1 DEF Made, MadeIn
  <2>3. st[m.rid] = "none"
    BY Zenon, <2>1, <2>2 DEF IInv, QueueInv
  <2> QED BY Zenon, <2>1, <2>2, <2>3
<1>8. QueueInv'
  <2>1. \A i \in 1..n : /\ IsGen(Q[i]) =>
                            MadeIn(Q[i].rid, turn', sent') /\ st[Q[i].rid] = "none"
                        /\ IsGen(Q[i]) /\ IsGen(m) => Q[i].rid # m.rid
    BY Zenon, <1>3, <1>6, <1>7 DEF IInv, QueueInv, n
  <2>2. IsGen(m) => MadeIn(m.rid, turn', sent') /\ st[m.rid] = "none"
    BY Zenon, <1>7 DEF Puts
  <2>3. \A i \in 1..Len(Q') : IsGen(Q'[i]) =>
          MadeIn(Q'[i].rid, turn', sent') /\ st'[Q'[i].rid] = "none"
    BY Zenon, <1>1, <1>2, <1>4, <2>1, <2>2
  <2>4. \A i, j \in 1..Len(Q') :
          IsGen(Q'[i]) /\ IsGen(Q'[j]) /\ i # j => Q'[i].rid # Q'[j].rid
    <3>1. \A i, j \in 1..n :
            IsGen(Q[i]) /\ IsGen(Q[j]) /\ i # j => Q[i].rid # Q[j].rid
      BY Zenon DEF IInv, QueueInv, n
    <3> QED BY Zenon, <1>1, <1>2, <2>1, <3>1
  <2>5. \A r \in Rids : st'[r] # "none" => MadeIn(r, turn', sent')
    BY Zenon, <1>4, <1>6 DEF IInv, QueueInv
  <2> QED BY Zenon, <2>3, <2>4, <2>5, <1>4 DEF IInv, QueueInv, Made
<1>9. OneSession => AbortInv'
  <2> SUFFICES ASSUME OneSession  PROVE AbortInv'
    BY Zenon
  <2>1. AbortInv
    BY DEF IInv
  <2>2. dropped \subseteq dropped'
    BY Zenon DEF Puts
  <2>3. AllDropped => AllDropped'
    BY Zenon, <1>4, <2>2 DEF AllDropped
  <2>4. LastDropped => LastDropped'
    BY Zenon, <1>4, <2>2 DEF LastDropped
  <2>5. ASSUME m.type = "abort"
        PROVE  /\ AllDropped' /\ LastDropped'
               /\ \A i \in 1..n : IsGen(Q[i]) => TurnOf(Q[i].rid) \in dropped'
    <3>1. \A s \in Sessions, t \in 1..MaxTurn : t <= turn[s] => <<s, t>> \in dropped'
      BY Zenon, <2>5 DEF Puts
    <3>2. \A r \in Rids : Made(r) => TurnOf(r) \in dropped'
      BY Zenon, <3>1, Rid DEF Made, MadeIn
    <3>3. AllDropped'
      BY Zenon, <1>4, <3>2 DEF AllDropped, IInv, QueueInv
    <3>4. LastDropped'
      <4>1. CASE lastTurn \in Turns /\ lastTurn[2] <= turn[lastTurn[1]]
        <5>1. lastTurn = <<lastTurn[1], lastTurn[2]>> /\ lastTurn[1] \in Sessions
              /\ lastTurn[2] \in 1..MaxTurn
          BY Zenon, <4>1, TurnParts
        <5>2. lastTurn \in dropped'
          BY Zenon, <3>1, <4>1, <5>1
        <5> QED BY Zenon, <1>4, <5>2 DEF LastDropped
      <4>2. CASE lastTurn \in {WarmUp, NoTurn}
        BY Zenon, <1>4, <4>2 DEF LastDropped
      <4> QED BY Zenon, <4>1, <4>2 DEF IInv, QueueInv
    <3>5. \A i \in 1..n : IsGen(Q[i]) => TurnOf(Q[i].rid) \in dropped'
      BY Zenon, <1>3, <3>2 DEF IInv, QueueInv, n
    <3> QED BY Zenon, <3>3, <3>4, <3>5
  <2>6. ASSUME NEW j \in 1..Len(Q'), Q'[j].type = "abort"
        PROVE  /\ \A i \in 1..j - 1 : IsGen(Q'[i]) => TurnOf(Q'[i].rid) \in dropped'
               /\ AllDropped'
               /\ LastDropped'
    <3>1. CASE j = n + 1
      <4>1. m.type = "abort"
        BY Zenon, <1>1, <2>6, <3>1
      <4>2. j - 1 = n
        BY <1>1, <3>1
      <4> QED BY Zenon, <1>1, <2>5, <4>1, <4>2
    <3>2. CASE j \in 1..n
      <4>1. Q[j].type = "abort"
        BY Zenon, <1>1, <2>6, <3>2
      <4>2. \A i \in 1..j - 1 : i \in 1..n
        BY <1>1, <3>2
      <4>3. /\ \A i \in 1..j - 1 : IsGen(Q[i]) => TurnOf(Q[i].rid) \in dropped
            /\ AllDropped /\ LastDropped
        BY Zenon, <2>1, <3>2, <4>1 DEF AbortInv, AbortsCover, n
      <4> QED BY Zenon, <1>1, <2>2, <2>3, <2>4, <4>2, <4>3
    <3> QED BY Zenon, <1>1, <1>2, <3>1, <3>2
  <2>7. AbortsCover'
    BY Zenon, <2>6 DEF AbortsCover
  <2>8. /\ taskType' = "abort" => AllDropped'
        /\ WarmedUp /\ aborted' # {} => LastDropped'
    BY Zenon, <1>4, <2>1, <2>3, <2>4 DEF AbortInv
  <2>9. OnlyAbortedDiscarded' /\ NewTurnNotSkipped'
    BY Zenon, <1>4, <2>1, <2>2 DEF AbortInv, OnlyAbortedDiscarded, NewTurnNotSkipped
  <2> QED BY Zenon, <2>7, <2>8, <2>9 DEF AbortInv
<1>10. OneSession /\ ~Overlap => OrderInv'
  <2> SUFFICES ASSUME OneSession, ~Overlap  PROVE OrderInv'
    BY Zenon
  <2>1. OrderInv
    BY Zenon DEF IInv
  <2>2. ASSUME IsGen(m), NEW r \in Rids, Made(r)  PROVE Before(r, m.rid)
    <3> DEFINE q == m.rid
    <3>1. q \in Rids /\ q.t = turn[q.s] /\ q.k > sent[TurnOf(q)]
      BY Zenon, <1>7, <2>2 DEF Puts
    <3> HIDE DEF q
    <3>2. r.s = q.s
      BY Zenon, <3>1, Rid DEF OneSession
    <3>3. r.t <= q.t /\ r.k <= sent[TurnOf(r)]
      BY Zenon, <2>2, <3>1, <3>2 DEF Made, MadeIn
    <3>4. r.t = q.t => TurnOf(r) = TurnOf(q)
      BY Zenon, <3>2 DEF TurnOf
    <3>5. r.t \in Nat /\ q.t \in Nat /\ r.k \in Nat /\ q.k \in Nat
      BY Zenon, <3>1, Rid
    <3>6. sent[TurnOf(r)] \in Nat
      BY Zenon, <1>5, Rid
    <3>7. Before(r, q)
      BY <3>1, <3>3, <3>4, <3>5, <3>6 DEF Before
    <3> QED BY Zenon, <3>7 DEF q
  <2>3. ASSUME NEW i \in 1..Len(Q'), NEW j \in 1..Len(Q'),
               IsGen(Q'[i]), IsGen(Q'[j]), i < j
        PROVE  Before(Q'[i].rid, Q'[j].rid)
    <3>1. i \in 1..n
      BY <1>1, <2>3
    <3>2. Q'[i] = Q[i] /\ IsGen(Q[i])
      BY Zenon, <1>1, <2>3, <3>1
    <3>3. Q[i].rid \in Rids /\ Made(Q[i].rid)
      BY Zenon, <1>3, <3>1, <3>2 DEF IInv, QueueInv, n
    <3>4. CASE j = n + 1
      BY Zenon, <1>1, <2>2, <2>3, <3>2, <3>3, <3>4
    <3>5. CASE j \in 1..n
      BY Zenon, <1>1, <2>1, <2>3, <3>1, <3>2, <3>5 DEF OrderInv, n
    <3> QED BY Zenon, <1>1, <1>2, <3>4, <3>5
  <2>4. ASSUME NEW i \in 1..Len(Q'), NEW r \in Rids, IsGen(Q'[i]), st'[r] # "none"
        PROVE  Before(r, Q'[i].rid)
    <3>1. Made(r) /\ st[r] # "none"
      BY Zenon, <1>4, <2>4 DEF IInv, QueueInv
    <3>2. CASE i = n + 1
      BY Zenon, <1>1, <2>2, <2>4, <3>1, <3>2
    <3>3. CASE i \in 1..n
      BY Zenon, <1>1, <2>1, <2>4, <3>1, <3>3 DEF OrderInv, n
    <3> QED BY Zenon, <1>1, <1>2, <3>2, <3>3
  <2> QED BY Zenon, <1>4, <2>1, <2>3, <2>4 DEF OrderInv
<1> QED BY Zenon, <1>8, <1>9, <1>10 DEF Invs, OneSession

(* A drain happens only while no ABORT is on its way: it is for a turn     *)
(* that was not given up.                                                  *)
LEMMA DrainKeeps ==
  ASSUME IInv, TypeOK', NEW r \in Rids, SelectiveDrain(r)
  PROVE  Invs'
<1> DEFINE K == {i \in 1..Len(pipe) : ~DrainTarget(pipe[i], r)}
           n == Len(Q)
           n1 == Len(Q')
<1>1. PICK g \in [1..n1 -> 1..n] :
         /\ \A i \in 1..n1 : Q'[i] = Q[g[i]]
         /\ \A i, j \in 1..n1 : i # j => g[i] # g[j]
         /\ \A i \in 1..n1 : g[i] \in K \/ g[i] = Len(pipe) + i
  <2>1. K \subseteq 1..Len(pipe)
    BY Zenon
  <2>2. feeder' = feeder \o Keep(pipe, K) /\ pipe' = <<>>
    BY Zenon DEF SelectiveDrain
  <2>3. pipe \in Seq(Messages) /\ feeder \in Seq(Messages)
    BY Zenon DEF IInv, TypeOK
  <2> HIDE DEF K
  <2> QED BY Zenon, <2>1, <2>2, <2>3, QueueDrain
<1>2. UNCHANGED <<client, pc, active, tasks, loop, results>>
  BY Zenon DEF SelectiveDrain
<1>3. /\ UNCHANGED <<turn, sent, dropped, st, started, lastTurn, taskType, aborted>>
      /\ UNCHANGED <<skipped, discarded>> /\ Traced' = Traced
  BY Zenon, <1>2 DEF client, tasks, loop, results, Traced
<1>4. st[r] # "none" /\ TurnOf(r) \notin dropped
  BY Zenon DEF SelectiveDrain, IInv, QueueInv, Traced
<1>5. Q \in Seq(Messages) /\ n \in Nat /\ n1 \in Nat /\ Len(pipe) \in Nat
      /\ n = Len(pipe) + Len(feeder) /\ \A i \in 1..Len(pipe) : Q[i] = pipe[i]
  <2>1. pipe \in Seq(Messages) /\ feeder \in Seq(Messages)
    BY Zenon DEF IInv, TypeOK
  <2>2. pipe' \in Seq(Messages) /\ feeder' \in Seq(Messages)
    BY Zenon DEF TypeOK
  <2>3. n1 \in Nat
    BY <2>2 DEF Q
  <2> QED BY <2>1, <2>3, QueueParts
<1>6. \A i \in 1..n : IsGen(Q[i]) => Q[i].rid \in Rids
  BY Zenon, QueuedRids
<1>7. \A x \in Rids : MadeIn(x, turn', sent') <=> Made(x)
  BY Zenon, <1>3 DEF Made, MadeIn
<1>8. QueueInv'
  <2>1. \A i \in 1..n1 : IsGen(Q'[i]) => MadeIn(Q'[i].rid, turn', sent') /\ st'[Q'[i].rid] = "none"
    <3>1. \A i \in 1..n : IsGen(Q[i]) => MadeIn(Q[i].rid, turn', sent') /\ st[Q[i].rid] = "none"
      BY Zenon, <1>6, <1>7 DEF IInv, QueueInv
    <3> HIDE DEF n, n1, K
    <3>2. ASSUME NEW i \in 1..n1 PROVE g[i] \in 1..n /\ Q'[i] = Q[g[i]]
      BY Zenon, <1>1
    <3> QED BY Zenon, <1>3, <3>1, <3>2
  <2>2. \A i, j \in 1..n1 :
          IsGen(Q'[i]) /\ IsGen(Q'[j]) /\ i # j => Q'[i].rid # Q'[j].rid
    <3>1. \A i, j \in 1..n :
            IsGen(Q[i]) /\ IsGen(Q[j]) /\ i # j => Q[i].rid # Q[j].rid
      BY Zenon DEF IInv, QueueInv
    <3> HIDE DEF n, n1, K
    <3> QED BY <1>1, <3>1
  <2>3. \A x \in Rids : st'[x] # "none" => MadeIn(x, turn', sent')
    BY Zenon, <1>3, <1>7 DEF IInv, QueueInv
  <2> QED BY Zenon, <1>3, <2>1, <2>2, <2>3 DEF IInv, QueueInv, Made
<1>9. OneSession => AbortInv'
  <2> SUFFICES ASSUME OneSession  PROVE AbortInv'
    BY Zenon
  <2>1. AbortInv
    BY Zenon DEF IInv
  <2>2. ~AllDropped
    BY Zenon, <1>4 DEF AllDropped
  <2>3. \A j \in 1..n : Q[j].type # "abort"
    BY Zenon, <2>1, <2>2 DEF AbortInv, AbortsCover
  <2>4. \A j \in 1..n1 : Q'[j].type # "abort"
    <3> HIDE DEF n, n1, K
    <3> QED BY <1>1, <2>3
  <2>5. taskType' # "abort"
    BY Zenon, <1>3, <2>1, <2>2 DEF AbortInv
  <2>6. WarmedUp /\ aborted' # {} => LastDropped'
    BY Zenon, <1>3, <2>1 DEF AbortInv, LastDropped
  <2>7. OnlyAbortedDiscarded' /\ NewTurnNotSkipped'
    BY Zenon, <1>3, <2>1 DEF AbortInv, OnlyAbortedDiscarded, NewTurnNotSkipped
  <2> QED BY Zenon, <2>4, <2>5, <2>6, <2>7 DEF AbortInv, AbortsCover
<1>10. OneSession /\ ~Overlap => OrderInv'
  <2> SUFFICES ASSUME OneSession, ~Overlap  PROVE OrderInv'
    BY Zenon
  <2>1. OrderInv
    BY Zenon DEF IInv
  <2>2. r.t = turn[r.s]
    BY Zenon DEF SelectiveDrain, Current
  <2>3. ASSUME NEW i \in 1..n, IsGen(Q[i])
        PROVE  TurnOf(Q[i].rid) = TurnOf(r) /\ Q[i].rid.k > r.k
    <3> DEFINE q == Q[i].rid
    <3>1. q \in Rids /\ Made(q) /\ Before(r, q)
      BY Zenon, <1>4, <1>6, <2>1, <2>3 DEF IInv, QueueInv, OrderInv
    <3> HIDE DEF q
    <3>2. q.s = r.s
      BY Zenon, <3>1, Rid DEF OneSession
    <3>3. q.t <= r.t
      BY Zenon, <2>2, <3>1, <3>2 DEF Made, MadeIn
    <3>4. r.t \in Nat /\ q.t \in Nat /\ r.k \in Nat /\ q.k \in Nat
      BY Zenon, <3>1, Rid, Constants
    <3>5. q.t = r.t /\ q.k > r.k
      BY <3>1, <3>3, <3>4 DEF Before
    <3>6. TurnOf(q) = TurnOf(r)
      BY Zenon, <3>2, <3>5 DEF TurnOf
    <3> QED BY Zenon, <3>5, <3>6 DEF q
  <2>4. \A i \in K : ~IsGen(Q[i])
    <3>1. \A i \in K : i \in 1..Len(pipe) /\ i \in 1..n /\ Q[i] = pipe[i]
                       /\ ~DrainTarget(pipe[i], r)
      BY <1>5
    <3> QED BY <2>3, <3>1 DEF DrainTarget, IsGen
  <2> HIDE DEF K
  <2>5. \A i \in 1..n1 : IsGen(Q'[i]) => g[i] = Len(pipe) + i
    BY Zenon, <1>1, <2>4
  <2>6. ASSUME NEW i \in 1..n1, NEW j \in 1..n1, IsGen(Q'[i]), IsGen(Q'[j]), i < j
        PROVE  Before(Q'[i].rid, Q'[j].rid)
    <3>1. g[i] = Len(pipe) + i /\ g[j] = Len(pipe) + j
      BY Zenon, <2>5, <2>6
    <3>2. g[i] < g[j] /\ g[i] \in 1..n /\ g[j] \in 1..n
          /\ Q'[i] = Q[g[i]] /\ Q'[j] = Q[g[j]]
      BY <1>1, <1>5, <2>6, <3>1
    <3> QED BY Zenon, <2>1, <2>6, <3>2 DEF OrderInv
  <2>7. \A i \in 1..n1 : \A x \in Rids :
          IsGen(Q'[i]) /\ st'[x] # "none" => Before(x, Q'[i].rid)
    <3>1. \A i \in 1..n : \A x \in Rids :
            IsGen(Q[i]) /\ st[x] # "none" => Before(x, Q[i].rid)
      BY Zenon, <2>1 DEF OrderInv
    <3> HIDE DEF n, n1
    <3> QED BY Zenon, <1>1, <1>3, <3>1
  <2> QED BY Zenon, <1>3, <2>1, <2>6, <2>7 DEF OrderInv
<1> QED BY Zenon, <1>8, <1>9, <1>10 DEF Invs, OneSession
(* The worker takes the first message and may start the request in it. *)
Takes(m) ==
  /\ pipe # <<>> /\ pipe' = Tail(pipe) /\ feeder' = feeder /\ m = Head(pipe)
  /\ UNCHANGED <<client, discarded>>
  /\ \A r \in Rids :
       st'[r] # "none" => st[r] # "none" \/ (IsGen(m) /\ r = m.rid)
  /\ \A r \in Traced' : r \in Rids /\ st'[r] # "none"
  /\ lastTurn' = lastTurn \/ (IsGen(m) /\ lastTurn' = TurnOf(m.rid))
  /\ started' = started \/ (IsGen(m) /\ started' = Append(started, m.rid))

(* What taking a message does to the queue and to the pending ABORTs.      *)
LEMMA TakeKeeps ==
  ASSUME IInv, TypeOK', NEW m, Takes(m)
  PROVE  /\ QueueInv'
         /\ OneSession => AbortsCover' /\ OnlyAbortedDiscarded'
         /\ OneSession /\ ~Overlap => OrderInv'
<1> DEFINE n == Len(Q)
           n1 == Len(Q')
<1>1. /\ n \in Nat /\ 1 \in 1..n /\ Q[1] = m /\ m \in Messages /\ n1 = n - 1
      /\ \A i \in 1..n1 : i + 1 \in 1..n /\ Q'[i] = Q[i + 1]
  <2>1. /\ pipe \in Seq(Messages) /\ feeder \in Seq(Messages)
        /\ pipe # <<>> /\ pipe' = Tail(pipe) /\ feeder' = feeder /\ m = Head(pipe)
    BY Zenon DEF IInv, TypeOK, Takes
  <2> QED BY Zenon, <2>1, QueueTake
<1>2. \A i \in 1..n : IsGen(Q[i]) => Q[i].rid \in Rids
  BY Zenon, QueuedRids
<1> HIDE DEF n, n1
<1>3. n1 \in Nat /\ \A i \in 1..n1 : i \in Nat /\ i > 0 /\ i + 1 # 1
  BY <1>1
<1>4. /\ turn' = turn /\ sent' = sent /\ dropped' = dropped
      /\ discarded' = discarded
  BY Zenon DEF Takes, client
<1>5. \A r \in Rids :
        st'[r] # "none" => st[r] # "none" \/ (IsGen(m) /\ r = m.rid)
  BY Zenon DEF Takes
<1>6. IsGen(m) => m.rid \in Rids /\ Made(m.rid) /\ st[m.rid] = "none"
  BY Zenon, <1>1, <1>2 DEF IInv, QueueInv, n
<1>7. \A i \in 1..n1 : IsGen(Q'[i]) =>
        /\ Q'[i].rid \in Rids /\ Made(Q'[i].rid) /\ st[Q'[i].rid] = "none"
        /\ IsGen(m) => Q'[i].rid # m.rid
  <2> SUFFICES ASSUME NEW i \in 1..n1, IsGen(Q'[i])
               PROVE  /\ Q'[i].rid \in Rids /\ Made(Q'[i].rid)
                      /\ st[Q'[i].rid] = "none"
                      /\ IsGen(m) => Q'[i].rid # m.rid
    BY Zenon
  <2>1. i + 1 \in 1..n /\ Q'[i] = Q[i + 1] /\ i + 1 # 1 /\ 1 \in 1..n /\ Q[1] = m
    BY Zenon, <1>1, <1>3
  <2>2. Q'[i].rid \in Rids /\ Made(Q'[i].rid) /\ st[Q'[i].rid] = "none"
    BY Zenon, <1>2, <2>1 DEF IInv, QueueInv, n
  <2>3. IsGen(m) => Q'[i].rid # m.rid
    BY <2>1, Zenon DEF IInv, QueueInv, n
  <2> QED BY Zenon, <2>2, <2>3
<1>8. QueueInv'
  <2>1. \A i \in 1..n1 : IsGen(Q'[i]) =>
          MadeIn(Q'[i].rid, turn', sent') /\ st'[Q'[i].rid] = "none"
    BY Zenon, <1>4, <1>5, <1>7 DEF Made
  <2>2. ASSUME NEW i \in 1..n1, NEW j \in 1..n1, IsGen(Q'[i]), IsGen(Q'[j]), i # j
        PROVE  Q'[i].rid # Q'[j].rid
    <3>1. i + 1 # j + 1
      BY <1>3, <2>2
    <3>2. i + 1 \in 1..n /\ Q'[i] = Q[i + 1] /\ j + 1 \in 1..n /\ Q'[j] = Q[j + 1]
      BY Zenon, <1>1
    <3> QED BY <2>2, <3>1, <3>2, Zenon DEF IInv, QueueInv, n
  <2>3. \A r \in Rids : st'[r] # "none" => MadeIn(r, turn', sent')
    BY Zenon, <1>4, <1>5, <1>6 DEF IInv, QueueInv, Made
  <2>4. \/ lastTurn' = WarmUp
        \/ lastTurn' = NoTurn /\ ~WarmedUp
        \/ lastTurn' \in Turns /\ lastTurn'[2] <= turn'[lastTurn'[1]]
    <3>1. CASE lastTurn' = lastTurn
      BY Zenon, <1>4, <3>1 DEF IInv, QueueInv
    <3>2. CASE IsGen(m) /\ lastTurn' = TurnOf(m.rid)
      BY Zenon, <1>4, <1>6, <3>2, Rid DEF Made, MadeIn
    <3> QED BY Zenon, <3>1, <3>2 DEF Takes
  <2>5. \A r \in Traced' : st'[r] # "none"
    BY Zenon DEF Takes
  <2> QED BY Zenon, <2>1, <2>2, <2>3, <2>4, <2>5 DEF QueueInv, Made, n1
<1>9. ASSUME OneSession, NEW j \in 1..n1, Q'[j].type = "abort"
      PROVE  /\ \A i \in 1..j - 1 : IsGen(Q'[i]) => TurnOf(Q'[i].rid) \in dropped'
             /\ AllDropped'
             /\ LastDropped'
  <2>1. j \in Nat /\ j + 1 \in 1..n /\ Q[j + 1].type = "abort"
    BY Zenon, <1>1, <1>3, <1>9
  <2>2. /\ \A i \in 1..(j + 1) - 1 : IsGen(Q[i]) => TurnOf(Q[i].rid) \in dropped
        /\ AllDropped /\ LastDropped
    BY Zenon, <1>9, <2>1 DEF IInv, AbortInv, AbortsCover, n
  <2>3. 1 \in 1..(j + 1) - 1
    BY <1>3, <2>1
  <2>4. IsGen(m) => TurnOf(m.rid) \in dropped
    BY Zenon, <1>1, <2>2, <2>3
  <2>5. AllDropped'
    BY Zenon, <1>4, <1>5, <2>2, <2>4 DEF AllDropped
  <2>6. LastDropped'
    BY Zenon, <1>4, <2>2, <2>4 DEF LastDropped, Takes
  <2>7. ASSUME NEW i \in 1..j - 1, IsGen(Q'[i])  PROVE TurnOf(Q'[i].rid) \in dropped'
    <3>1. i + 1 \in 1..(j + 1) - 1 /\ i \in 1..n1
      BY <1>3, <2>1
    <3>2. Q'[i] = Q[i + 1]
      BY Zenon, <1>1, <3>1
    <3> QED BY Zenon, <1>4, <2>2, <2>7, <3>1, <3>2
  <2> QED BY Zenon, <2>5, <2>6, <2>7
<1>10. OneSession => AbortsCover'
  BY Zenon, <1>9 DEF AbortsCover, n1
<1>11. OneSession => OnlyAbortedDiscarded'
  BY Zenon, <1>4 DEF IInv, AbortInv, OnlyAbortedDiscarded
<1>12. OneSession /\ ~Overlap => OrderInv'
  <2> SUFFICES ASSUME OrderInv  PROVE OrderInv'
    BY Zenon DEF IInv
  <2>1. ASSUME NEW i \in 1..n1, NEW j \in 1..n1, IsGen(Q'[i]), IsGen(Q'[j]), i < j
        PROVE  Before(Q'[i].rid, Q'[j].rid)
    <3>1. i + 1 < j + 1
      BY <1>3, <2>1
    <3>2. i + 1 \in 1..n /\ Q'[i] = Q[i + 1] /\ j + 1 \in 1..n /\ Q'[j] = Q[j + 1]
      BY Zenon, <1>1
    <3> QED BY <2>1, <3>1, <3>2, Zenon DEF OrderInv, n
  <2>2. ASSUME NEW i \in 1..n1, NEW r \in Rids, IsGen(Q'[i]), st'[r] # "none"
        PROVE  Before(r, Q'[i].rid)
    <3>1. 1 < i + 1
      BY <1>3
    <3>2. i + 1 \in 1..n /\ Q'[i] = Q[i + 1] /\ 1 \in 1..n /\ Q[1] = m
      BY Zenon, <1>1
    <3>3. CASE st[r] # "none"
      BY <2>2, <3>2, <3>3, Zenon DEF OrderInv, n
    <3>4. CASE IsGen(m) /\ r = m.rid
      BY <2>2, <3>1, <3>2, <3>4, Zenon DEF OrderInv, n
    <3> QED BY Zenon, <1>5, <2>2, <3>3, <3>4
  <2>3. ASSUME NEW i \in 1..Len(started'), NEW j \in 1..Len(started'), i < j
        PROVE  Before(started'[i], started'[j])
    <3>1. CASE started' = started
      BY Zenon, <2>3, <3>1 DEF OrderInv
    <3>2. CASE IsGen(m) /\ started' = Append(started, m.rid)
      <4>1. started \in Seq(Rids)
        BY Zenon DEF IInv, TypeOK
      <4>2. /\ Len(started') = Len(started) + 1 /\ Len(started) \in Nat
            /\ started'[Len(started) + 1] = m.rid
            /\ \A k \in 1..Len(started) : started'[k] = started[k] /\ started[k] \in Rids
        BY <3>2, <4>1
      <4>3. i \in 1..Len(started) /\ (j \in 1..Len(started) \/ j = Len(started) + 1)
        BY <2>3, <4>2
      <4>4. CASE j \in 1..Len(started)
        BY Zenon, <2>3, <4>2, <4>3, <4>4 DEF OrderInv
      <4>5. CASE j = Len(started) + 1
        <5>1. started'[j] = m.rid /\ started'[i] = started[i] /\ started[i] \in Rids
          BY Zenon, <4>2, <4>3, <4>5
        <5>2. started[i] \in Traced
          BY <4>1, <4>3 DEF Traced, Range
        <5>3. st[started[i]] # "none"
          BY Zenon, <5>2 DEF IInv, QueueInv
        <5> QED BY Zenon, <1>1, <3>2, <5>1, <5>3 DEF OrderInv, n
      <4> QED BY Zenon, <4>3, <4>4, <4>5
    <3> QED BY Zenon, <3>1, <3>2 DEF Takes
  <2> QED BY Zenon, <2>1, <2>2, <2>3 DEF OrderInv, n1
<1> QED BY Zenon, <1>8, <1>10, <1>11, <1>12

(* What an append adds. *)
LEMMA RangeAppend ==
  ASSUME NEW S, NEW q \in Seq(S), NEW x \in S
  PROVE  Range(Append(q, x)) \subseteq Range(q) \cup {x}
  BY DEF Range

(* What goes into the batch was started. *)
LEMMA CollectTraced ==
  ASSUME IInv, NEW r, Collect(r)
  PROVE  Range(batch') \cup Range(outQ') \subseteq Range(outQ)
<1>1. batch' = outQ /\ outQ' = <<>>
  BY Zenon DEF Collect
<1> QED BY <1>1 DEF Range

(* The requests of which there is a trace are requests. *)
LEMMA TracedRids ==
  ASSUME IInv
  PROVE  \A r \in Traced : r \in Rids /\ st[r] # "none"
<1>1. outQ \in Seq(Rids) /\ batch \in Seq(Rids) /\ started \in Seq(Rids)
      /\ answered \subseteq Rids
  BY Zenon DEF IInv, TypeOK
<1>2. Range(outQ) \subseteq Rids /\ Range(batch) \subseteq Rids
      /\ Range(started) \subseteq Rids
  BY <1>1 DEF Range
<1> QED BY Zenon, <1>1, <1>2 DEF IInv, QueueInv, Traced

(* The SHUTDOWN is taken last, and starts nothing.                         *)
LEMMA TakeShutdownKeeps ==
  ASSUME IInv, TypeOK', TakeShutdown
  PROVE  Invs'
<1> DEFINE m == Head(pipe)
<1>1. pipe # <<>> /\ m.type = "shutdown" /\ pipe' = Tail(pipe)
      /\ UNCHANGED <<client, feeder, active, tasks, loop, results>>
  BY Zenon DEF TakeShutdown
<1>2. /\ UNCHANGED <<st, lastTurn, started, discarded, taskType, aborted, skipped>>
      /\ dropped' = dropped /\ Traced' = Traced
  BY Zenon, <1>1 DEF client, tasks, loop, results, Traced
<1>3. \A r \in Traced' : r \in Rids /\ st'[r] # "none"
  BY Zenon, <1>2, TracedRids
<1> HIDE DEF m
<1>4. /\ QueueInv'
      /\ OneSession => AbortsCover' /\ OnlyAbortedDiscarded'
      /\ OneSession /\ ~Overlap => OrderInv'
  <2>1. Takes(m)
    BY Zenon, <1>1, <1>2, <1>3 DEF m, Takes
  <2> QED BY Zenon, <2>1, TakeKeeps
<1>5. OneSession => AbortInv'
  <2>1. OneSession => /\ taskType' = "abort" => AllDropped'
                      /\ WarmedUp /\ aborted' # {} => LastDropped'
                      /\ NewTurnNotSkipped'
    BY Zenon, <1>2 DEF IInv, AbortInv, AllDropped, LastDropped, NewTurnNotSkipped
  <2> QED BY Zenon, <1>4, <2>1 DEF AbortInv
<1> QED BY Zenon, <1>4, <1>5 DEF Invs, OneSession

(* The main loop takes an ABORT: what it cancels was of dropped turns.     *)
LEMMA TakeAbortKeeps ==
  ASSUME IInv, TypeOK', TakeAbort
  PROVE  Invs'
<1> DEFINE m == Head(pipe)
<1>1. /\ pipe # <<>> /\ m.type = "abort" /\ pipe' = Tail(pipe) /\ Collect(NoRid)
      /\ UNCHANGED <<client, feeder, lastTurn, discarded, skipped, started, results>>
      /\ st' = [r \in Rids |-> IF r \in active /\ r.s = m.rid.s THEN "cancelled"
                               ELSE st[r]]
      /\ aborted' = aborted \cup {m.rid.s} /\ taskType' = "abort"
  BY Zenon DEF TakeAbort
<1> HIDE DEF m
<1>2. \A r \in Rids : st'[r] # "none" <=> st[r] # "none"
  BY Zenon, <1>1 DEF IInv, TypeOK
<1>3. \A r \in Traced' : r \in Rids /\ st'[r] # "none"
  <2>1. Traced' \subseteq Traced
    BY Zenon, <1>1, CollectTraced DEF Traced, results
  <2> QED BY Zenon, <1>2, <2>1, TracedRids
<1>4. /\ QueueInv'
      /\ OneSession => AbortsCover' /\ OnlyAbortedDiscarded'
      /\ OneSession /\ ~Overlap => OrderInv'
  <2>1. Takes(m)
    BY Zenon, <1>1, <1>2, <1>3 DEF m, Takes
  <2> QED BY Zenon, <2>1, TakeKeeps
<1>5. OneSession => AbortInv'
  <2> SUFFICES ASSUME OneSession  PROVE AbortInv'
    BY Zenon
  <2>1. 1 \in 1..Len(Q) /\ Q[1].type = "abort"
    BY Zenon, <1>1, Taken DEF m
  <2>2. AllDropped /\ LastDropped
    BY Zenon, <2>1 DEF IInv, AbortInv, AbortsCover
  <2>3. dropped' = dropped
    BY Zenon, <1>1 DEF client
  <2>4. AllDropped' /\ LastDropped'
    BY Zenon, <1>1, <1>2, <2>2, <2>3 DEF AllDropped, LastDropped
  <2>5. NewTurnNotSkipped'
    BY Zenon, <1>1, <2>3 DEF IInv, AbortInv, NewTurnNotSkipped
  <2> QED BY Zenon, <1>4, <2>4, <2>5 DEF AbortInv
<1> QED BY Zenon, <1>4, <1>5 DEF Invs, OneSession

(* The main loop takes a request that does not make it drain the queue.    *)
LEMMA TakeGenerateKeeps ==
  ASSUME IInv, TypeOK', TakeGenerate
  PROVE  Invs'
<1> DEFINE m == Head(pipe)
           r == m.rid
<1>1. /\ pipe # <<>> /\ IsGen(m) /\ pipe' = Tail(pipe) /\ taskType' = "generate"
      /\ lastTurn' = TurnOf(r) /\ aborted' = AbortList(r)
      /\ UNCHANGED <<client, feeder, discarded, results>>
      /\ \/ /\ r.s \in aborted' /\ skipped' = skipped \cup {r}
            /\ UNCHANGED <<st, outQ, batch, started>>
         \/ /\ st' = [st EXCEPT ![r] = "run"] /\ started' = Append(started, r)
            /\ Collect(r) /\ skipped' = skipped
  BY Zenon DEF TakeGenerate, IsGen
<1>2. r \in Rids /\ st[r] = "none"
  BY Zenon, <1>1, Taken
<1> HIDE DEF m
<1>3. \A q \in Rids : (st'[q] # "none" => st[q] # "none" \/ q = r)
                      /\ (st[q] # "none" => st'[q] # "none")
  BY Zenon, <1>1, <1>2 DEF IInv, TypeOK
<1>4. \A q \in Traced' : q \in Rids /\ st'[q] # "none"
  <2>1. CASE UNCHANGED <<st, outQ, batch, started>>
    BY Zenon, <1>1, <2>1, TracedRids DEF Traced, results
  <2>2. CASE /\ st' = [st EXCEPT ![r] = "run"] /\ started' = Append(started, r)
             /\ Collect(r)
    <3>1. Range(batch') \cup Range(outQ') \subseteq Range(outQ)
      BY Zenon, <2>2, CollectTraced
    <3>2. Range(started') \subseteq Range(started) \cup {r}
      <4>1. started \in Seq(Rids)
        BY Zenon DEF IInv, TypeOK
      <4> QED BY Zenon, <1>2, <2>2, <4>1, RangeAppend
    <3>3. Traced' \subseteq Traced \cup {r}
      BY Zenon, <1>1, <3>1, <3>2 DEF Traced, results
    <3>4. st'[r] = "run"
      BY Zenon, <1>2, <2>2 DEF IInv, TypeOK
    <3> QED BY <1>2, <1>3, <3>3, <3>4, TracedRids
  <2> QED BY Zenon, <1>1, <2>1, <2>2
<1>5. /\ QueueInv'
      /\ OneSession => AbortsCover' /\ OnlyAbortedDiscarded'
      /\ OneSession /\ ~Overlap => OrderInv'
  <2>1. Takes(m)
    BY Zenon, <1>1, <1>3, <1>4 DEF m, Takes
  <2> QED BY <2>1, TakeKeeps
<1>6. OneSession => AbortInv'
  <2> SUFFICES ASSUME OneSession  PROVE AbortInv'
    BY Zenon
  <2>1. dropped' = dropped
    BY <1>1 DEF client
  <2>2. ASSUME WarmedUp, aborted' # {}
        PROVE  TurnOf(r) \in dropped
    <3>1. lastTurn \in {NoTurn, TurnOf(r)} /\ aborted' = aborted
      BY Zenon, <1>1, <2>2 DEF AbortList
    <3>2. LastDropped
      BY Zenon, <2>2, <3>1 DEF IInv, AbortInv
    <3>3. lastTurn # NoTurn
      <4>1. TurnOf(r) # NoTurn /\ WarmUp # NoTurn
        BY Zenon, <1>2, Rid DEF WarmUp, NoTurn
      <4> QED BY <2>2, <4>1 DEF IInv, QueueInv, Turns, NoTurn
    <3>4. TurnOf(r) # NoTurn /\ TurnOf(r) # WarmUp
      BY Zenon, <1>2, Rid
    <3> QED BY Zenon, <3>1, <3>2, <3>3, <3>4 DEF LastDropped
  <2>3. WarmedUp /\ aborted' # {} => LastDropped'
    BY Zenon, <1>1, <2>1, <2>2 DEF LastDropped
  <2>4. NewTurnNotSkipped'
    <3>1. NewTurnNotSkipped
      BY Zenon DEF IInv, AbortInv
    <3>2. skipped' = skipped \/ (aborted' # {} /\ skipped' = skipped \cup {r})
      BY Zenon, <1>1
    <3> QED BY Zenon, <2>1, <2>2, <3>1, <3>2 DEF NewTurnNotSkipped
  <2>5. taskType' # "abort"
    BY Zenon, <1>1
  <2> QED BY Zenon, <1>5, <2>3, <2>4, <2>5 DEF AbortInv
<1> QED BY Zenon, <1>5, <1>6 DEF Invs, OneSession

(* The orchestrator puts a request, an ABORT or the SHUTDOWN.              *)
LEMMA SubmitKeeps ==
  ASSUME IInv, TypeOK', NEW s \in Sessions, NEW t \in 1..MaxTurn, Submit(s, t)
  PROVE  Invs'
<1> DEFINE r == [s |-> s, t |-> t, k |-> sent'[<<s, t>>]]
           m == Generate(r)
<1>1. /\ feeder' = Append(feeder, m) /\ pipe' = pipe /\ dropped' = dropped
      /\ sent' = [sent EXCEPT ![<<s, t>>] = sent[<<s, t>>] + 1]
      /\ UNCHANGED <<turn, active, tasks, loop, results>>
      /\ Current(s, t) /\ sent[<<s, t>>] < MaxReq
  <2>1. feeder' = Append(feeder, m)
    BY Zenon DEF Submit
  <2>2. sent' = [sent EXCEPT ![<<s, t>>] = sent[<<s, t>>] + 1]
    BY Zenon DEF Submit
  <2>3. pipe' = pipe /\ dropped' = dropped /\ Current(s, t) /\ sent[<<s, t>>] < MaxReq
    BY Zenon DEF Submit
  <2>4. UNCHANGED <<turn, active, tasks, loop, results>>
    BY Zenon DEF Submit
  <2> QED BY Zenon, <2>1, <2>2, <2>3, <2>4
<1> HIDE DEF r, m
<1>2. /\ turn \in [Sessions -> 1..MaxTurn] /\ sent \in [Turns -> 0..MaxReq]
      /\ <<s, t>> \in Turns
  <2>1. turn \in [Sessions -> 1..MaxTurn] /\ sent \in [Turns -> 0..MaxReq]
    BY Zenon DEF IInv, TypeOK
  <2>2. <<s, t>> \in Turns
    BY Zenon DEF Turns
  <2> QED BY Zenon, <2>1, <2>2
<1>3. /\ turn[s] \in Nat /\ t \in Nat /\ sent[<<s, t>>] \in Nat
      /\ \A x \in Turns : sent[x] \in Nat
  BY <1>2, Constants, Counters
<1>4. t <= turn[s] /\ (~Overlap => t = turn[s])
  BY <1>1, <1>3 DEF Current
<1>5. /\ sent'[<<s, t>>] = sent[<<s, t>>] + 1
      /\ \A x \in Turns : x # <<s, t>> => sent'[x] = sent[x]
  BY Zenon, <1>1, <1>2
<1>6. \A x \in Turns : sent[x] <= sent'[x]
  BY <1>3, <1>5
<1>7. sent'[<<s, t>>] \in 1..MaxReq
  <2>1. sent[<<s, t>>] < MaxReq /\ MaxReq \in Nat
    BY <1>1, Constants
  <2>2. sent[<<s, t>>] + 1 \in 1..MaxReq
    BY <2>1, <1>3
  <2> QED BY Zenon, <2>2, <1>5
<1>8. r \in Rids /\ r.s = s /\ r.t = t /\ r.k = sent'[<<s, t>>] /\ TurnOf(r) = <<s, t>>
  BY Zenon, <1>7 DEF Rids, TurnOf, r
<1>9. m \in Messages /\ m.rid = r /\ m.type = "generate"
  BY Zenon, <1>8, Sendable DEF m
<1>10. /\ MadeIn(r, turn', sent') /\ r.k > sent[TurnOf(r)]
       /\ ~Overlap => r.t = turn[r.s]
  <2>1. sent[<<s, t>>] < sent'[<<s, t>>] /\ sent'[<<s, t>>] <= sent'[<<s, t>>]
    BY <1>3, <1>5
  <2>2. turn' = turn
    BY Zenon, <1>1
  <2> QED BY Zenon, <1>4, <1>8, <2>1, <2>2 DEF MadeIn
<1>11. /\ IsGen(m) => /\ MadeIn(m.rid, turn', sent') /\ m.rid.k > sent[TurnOf(m.rid)]
                      /\ dropped' = dropped
                      /\ (~Overlap => m.rid.t = turn[m.rid.s])
       /\ m.type # "abort" /\ dropped \subseteq dropped'
  BY Zenon, <1>1, <1>9, <1>10
<1>12. Puts(m)
  BY Zenon, <1>1, <1>6, <1>11 DEF Puts
<1> QED BY Zenon, <1>9, <1>12, PutKeeps

(* An ABORT is put behind all requests of the turns it drops.              *)
LEMMA SubmitAbortKeeps ==
  ASSUME IInv, TypeOK', NEW s \in Sessions, SubmitAbort(s)
  PROVE  Invs'
<1> DEFINE m == Abort(s)
<1>1. /\ feeder' = Append(feeder, m) /\ pipe' = pipe /\ sent' = sent
      /\ dropped' = dropped \cup {<<s, t>> : t \in 1..turn[s]}
      /\ UNCHANGED <<turn, active, tasks, loop, results>>
  <2>1. UNCHANGED <<turn, active, tasks, loop, results>>
    BY Zenon DEF SubmitAbort
  <2>2. feeder' = Append(feeder, m) /\ pipe' = pipe /\ sent' = sent
    BY Zenon DEF SubmitAbort
  <2>3. dropped' = dropped \cup {<<s, t>> : t \in 1..turn[s]}
    BY Zenon DEF SubmitAbort
  <2> QED BY Zenon, <2>1, <2>2, <2>3
<1>2. m \in Messages /\ ~IsGen(m)
  BY Zenon, Sendable
<1> HIDE DEF m
<1>3. turn \in [Sessions -> 1..MaxTurn] /\ sent \in [Turns -> 0..MaxReq]
  BY Zenon DEF IInv, TypeOK
<1>4. \A x \in Turns : sent[x] <= sent'[x]
  <2>1. sent' = sent /\ \A x \in Turns : sent[x] \in Nat
    BY Zenon, <1>1, <1>3, Counters
  <2> QED BY <2>1
<1>5. ASSUME NEW a \in Sessions, NEW t \in 1..MaxTurn, OneSession, t <= turn[a]
      PROVE  <<a, t>> \in dropped'
  <2>1. a = s
    BY Zenon, <1>5 DEF OneSession
  <2>2. t \in 1..turn[s]
    BY <1>3, <1>5, <2>1, Constants, Counters
  <2> QED BY Zenon, <1>1, <2>1, <2>2
<1>6. dropped \subseteq dropped'
  BY Zenon, <1>1
<1>7. Puts(m)
  BY Zenon, <1>1, <1>2, <1>4, <1>5, <1>6 DEF Puts
<1> QED BY Zenon, <1>2, <1>7, PutKeeps

(* The SHUTDOWN is put.                                                    *)
LEMMA SubmitShutdownKeeps ==
  ASSUME IInv, TypeOK', SubmitShutdown
  PROVE  Invs'
<1>1. /\ feeder' = Append(feeder, Shutdown) /\ pipe' = pipe /\ sent' = sent
      /\ dropped' = dropped
      /\ UNCHANGED <<turn, active, tasks, loop, results>>
  BY Zenon DEF SubmitShutdown
<1>2. Shutdown \in Messages /\ ~IsGen(Shutdown) /\ Shutdown.type # "abort"
  BY Zenon, Sendable
<1>3. \A x \in Turns : sent[x] <= sent'[x]
  <2>1. sent \in [Turns -> 0..MaxReq]
    BY Zenon DEF IInv, TypeOK
  <2> QED BY <1>1, <2>1, Counters
<1>4. Puts(Shutdown)
  BY Zenon, <1>1, <1>2, <1>3 DEF Puts
<1> QED BY Zenon, <1>2, <1>4, PutKeeps

(* A session starts another turn, or the feeder thread writes.             *)
LEMMA NewTurnKeeps ==
  ASSUME IInv, TypeOK', (\E s \in Sessions : NewTurn(s)) \/ FeederStep
  PROVE  Invs'
<1>1. UNCHANGED <<sent, dropped, tasks, loop, results>>
  <2>1. CASE FeederStep
    BY Zenon, <2>1 DEF FeederStep, client
  <2>2. CASE \E s \in Sessions : NewTurn(s)
    BY Zenon, <2>2 DEF NewTurn
  <2> QED BY Zenon, <2>1, <2>2
<1>2. Q' = Q
  <2>1. CASE FeederStep
    BY Zenon, <2>1, QueueFed DEF IInv, TypeOK
  <2>2. CASE \E s \in Sessions : NewTurn(s)
    BY Zenon, <2>2 DEF NewTurn, Q
  <2> QED BY Zenon, <2>1, <2>2
<1>3. \A s \in Sessions : turn[s] <= turn'[s]
  <2>1. turn \in [Sessions -> 1..MaxTurn]
    BY Zenon DEF IInv, TypeOK
  <2>2. CASE FeederStep
    BY <2>1, <2>2, Counters DEF FeederStep, client
  <2>3. ASSUME NEW s \in Sessions, NewTurn(s)
        PROVE  \A a \in Sessions : turn[a] <= turn'[a]
    <3>1. turn' = [turn EXCEPT ![s] = turn[s] + 1]
      BY Zenon, <2>3 DEF NewTurn
    <3>2. \A a \in Sessions : turn[a] \in Nat
      BY Zenon, <2>1, Counters
    <3> QED BY <2>1, <3>1, <3>2
  <2> QED BY Zenon, <2>2, <2>3
<1>4. Traced' = Traced /\ st' = st /\ discarded' = discarded
      /\ UNCHANGED <<started, lastTurn, taskType, aborted, skipped, dropped>>
  BY Zenon, <1>1 DEF Traced, tasks, loop, results
<1>5. OneSession => \A r \in discarded : TurnOf(r) \in dropped
  BY Zenon DEF IInv, AbortInv, OnlyAbortedDiscarded
<1>6. \A r \in Traced' : r \in Rids /\ st[r] # "none"
  BY Zenon, <1>4, TracedRids
<1>7. Quiet
  BY Zenon, <1>1, <1>2, <1>3, <1>4, <1>5, <1>6 DEF Quiet
<1> QED BY Zenon, <1>7, QuietKeeps

(* The main loop finds nothing, or collects what the tasks have put.       *)
LEMMA IdleKeeps ==
  ASSUME IInv, TypeOK', TakeNothing \/ CollectAfterEmpty
  PROVE  Invs'
<1>1. /\ UNCHANGED <<client, feeder, pipe, st, discarded, results>>
      /\ UNCHANGED <<started, lastTurn, taskType, aborted, skipped>>
  <2>1. CASE TakeNothing
    BY Zenon, <2>1 DEF TakeNothing, tasks, loop
  <2>2. CASE CollectAfterEmpty
    BY Zenon, <2>2 DEF CollectAfterEmpty
  <2> QED BY Zenon, <2>1, <2>2
<1>2. Range(batch') \cup Range(outQ') \subseteq Range(batch) \cup Range(outQ)
  <2>1. CASE TakeNothing
    BY Zenon, <2>1 DEF TakeNothing, tasks, loop
  <2>2. CASE CollectAfterEmpty
    <3>1. Collect(loopRid)
      BY Zenon, <2>2 DEF CollectAfterEmpty
    <3> QED BY Zenon, <3>1, CollectTraced
  <2> QED BY Zenon, <2>1, <2>2
<1>3. Traced' \subseteq Traced
  BY Zenon, <1>1, <1>2 DEF Traced, results
<1>4. \A r \in Traced' : r \in Rids /\ st[r] # "none"
  BY Zenon, <1>3, TracedRids
<1>5. OneSession => \A r \in discarded' : TurnOf(r) \in dropped
  BY Zenon, <1>1 DEF IInv, AbortInv, OnlyAbortedDiscarded
<1>6. Q' = Q /\ sent' = sent /\ dropped' = dropped /\ turn' = turn
  BY Zenon, <1>1 DEF Q, client
<1>7. \A s \in Sessions : turn[s] <= turn'[s]
  <2>1. turn \in [Sessions -> 1..MaxTurn]
    BY Zenon DEF IInv, TypeOK
  <2> QED BY <1>6, <2>1, Counters
<1>8. Quiet
  BY Zenon, <1>1, <1>4, <1>5, <1>6, <1>7 DEF Quiet
<1> QED BY Zenon, <1>8, QuietKeeps

(* Only while task_type is "abort" does the loop discard an output, and    *)
(* then all that it has started was aborted.                               *)
LEMMA DispatchKeeps ==
  ASSUME IInv, TypeOK', Dispatch
  PROVE  Invs'
<1> DEFINE rs == {batch[i] : i \in 1..Len(batch)}
<1>1. /\ answered' \subseteq answered \cup rs
      /\ discarded' \subseteq discarded \cup rs
      /\ discarded' = discarded \/ taskType # "generate"
      /\ batch' = <<>>
      /\ UNCHANGED <<client, feeder, pipe, tasks>>
      /\ UNCHANGED <<started, lastTurn, taskType, aborted, skipped>>
  <2>1. /\ answered' = answered \cup {r \in rs : ~Discard(r)}
        /\ discarded' = discarded \cup {r \in rs : Discard(r)}
    BY Zenon DEF Dispatch
  <2>2. /\ batch' = <<>>
        /\ UNCHANGED <<client, feeder, pipe, tasks>>
        /\ UNCHANGED <<started, lastTurn, taskType, aborted, skipped>>
    BY Zenon DEF Dispatch
  <2> HIDE DEF rs
  <2>3. answered' \subseteq answered \cup rs /\ discarded' \subseteq discarded \cup rs
    BY Zenon, <2>1
  <2>4. taskType = "generate" => discarded' = discarded
    BY Zenon, <2>1 DEF Discard
  <2> QED BY Zenon, <2>2, <2>3, <2>4
<1>2. \A r \in rs : r \in Traced
  <2>1. batch \in Seq(Rids)
    BY Zenon DEF IInv, TypeOK
  <2> QED BY <2>1 DEF Traced, Range
<1> HIDE DEF rs
<1>3. \A r \in rs : r \in Rids /\ st[r] # "none"
  BY Zenon, <1>2, TracedRids
<1>4. Traced' \subseteq Traced \cup rs
  <2>1. Range(batch') = {}
    BY <1>1 DEF Range
  <2> QED BY Zenon, <1>1, <2>1 DEF Traced, tasks
<1>5. \A r \in Traced' : r \in Rids /\ st[r] # "none"
  BY Zenon, <1>3, <1>4, TracedRids
<1>6. ASSUME OneSession, NEW r \in discarded'  PROVE TurnOf(r) \in dropped
  <2>1. CASE r \in discarded
    BY Zenon, <1>6, <2>1 DEF IInv, AbortInv, OnlyAbortedDiscarded
  <2>2. CASE r \notin discarded
    <3>1. taskType = "abort"
      BY Zenon, <1>1, <1>6, <2>2 DEF IInv, TypeOK
    <3>2. AllDropped
      BY Zenon, <1>6, <3>1 DEF IInv, AbortInv
    <3>3. r \in rs
      BY Zenon, <1>1, <1>6, <2>2
    <3> QED BY Zenon, <1>3, <3>2, <3>3 DEF AllDropped
  <2> QED BY Zenon, <2>1, <2>2
<1>7. Q' = Q /\ sent' = sent /\ dropped' = dropped /\ turn' = turn /\ st' = st
  BY Zenon, <1>1 DEF Q, client, tasks
<1>8. \A s \in Sessions : turn[s] <= turn'[s]
  <2>1. turn \in [Sessions -> 1..MaxTurn]
    BY Zenon DEF IInv, TypeOK
  <2> QED BY <1>7, <2>1, Counters
<1>9. Quiet
  BY Zenon, <1>1, <1>5, <1>6, <1>7, <1>8 DEF Quiet
<1> QED BY Zenon, <1>9, QuietKeeps

(* The generation tasks and the done callbacks move no message.            *)
LEMMA TasksKeep ==
  ASSUME IInv, TypeOK', GenTasks \/ DoneCallback
  PROVE  Invs'
<1>1. /\ UNCHANGED <<client, feeder, pipe, loop, answered>>
      /\ \A r \in Rids : st'[r] = "none" <=> st[r] = "none"
      /\ \A r \in Range(outQ') : r \in Range(outQ) \/ (r \in Rids /\ st[r] = "run")
  <2>1. CASE DoneCallback
    BY Zenon, <2>1 DEF DoneCallback, results
  <2>2. ASSUME NEW r \in Rids, GenOutput(r) \/ GenStop(r)
        PROVE  /\ UNCHANGED <<client, feeder, pipe, loop, answered>>
               /\ \A q \in Rids : st'[q] = "none" <=> st[q] = "none"
               /\ \A q \in Range(outQ') : q \in Range(outQ) \/ q = r
               /\ st[r] = "run"
    <3>1. UNCHANGED <<client, feeder, pipe, loop, answered>> /\ st[r] = "run"
          /\ outQ' = Append(outQ, r)
      BY Zenon, <2>2 DEF GenOutput, GenStop, results
    <3>2. \A q \in Rids : st'[q] = "none" <=> st[q] = "none"
      <4>1. CASE GenOutput(r)
        BY Zenon, <4>1 DEF GenOutput
      <4>2. CASE GenStop(r)
        <5>1. \A q \in Rids : st'[q] = st[q] \/ (st'[q] = "flushed" /\ st[q] = "run")
          BY Zenon, <4>2 DEF GenStop
        <5> QED BY Zenon, <5>1
      <4> QED BY Zenon, <2>2, <4>1, <4>2
    <3>3. \A q \in Range(outQ') : q \in Range(outQ) \/ q = r
      <4>1. outQ \in Seq(Rids)
        BY Zenon DEF IInv, TypeOK
      <4> QED BY Zenon, <3>1, <4>1, RangeAppend
    <3> QED BY Zenon, <3>1, <3>2, <3>3
  <2>3. ASSUME NEW r \in Rids, NEW e \in {"run", "cancelled"}, GenEnd(r, e)
        PROVE  /\ UNCHANGED <<client, feeder, pipe, loop, answered, outQ>>
               /\ \A q \in Rids : st'[q] = "none" <=> st[q] = "none"
    <3>1. /\ UNCHANGED <<client, feeder, pipe, loop, answered, outQ>>
          /\ st[r] = e /\ st' = [st EXCEPT ![r] = "done"]
      BY Zenon, <2>3 DEF GenEnd
    <3>2. st \in [Rids -> {"none", "run", "flushed", "cancelled", "done"}]
      BY Zenon DEF IInv, TypeOK
    <3> QED BY Zenon, <3>1, <3>2
  <2>4. ASSUME NEW r \in Rids, GenTask(r)
        PROVE  \/ GenOutput(r) \/ GenStop(r)
               \/ \E e \in {"run", "cancelled"} : GenEnd(r, e)
    BY Zenon, <2>4 DEF GenTask, GenFinish, GenError, GenCancelled
  <2> QED BY Zenon, <2>1, <2>2, <2>3, <2>4 DEF GenTasks
<1>2. \A r \in Traced' : r \in Rids /\ st[r] # "none"
  <2>1. \A r \in Traced' : r \in Traced \/ (r \in Rids /\ st[r] = "run")
    BY Zenon, <1>1 DEF Traced, loop
  <2> QED BY Zenon, <2>1, TracedRids
<1>3. /\ Q' = Q /\ sent' = sent /\ dropped' = dropped /\ turn' = turn
      /\ discarded' = discarded
      /\ UNCHANGED <<started, lastTurn, taskType, aborted, skipped>>
  BY Zenon, <1>1 DEF Q, client, loop
<1>4. OneSession => \A r \in discarded' : TurnOf(r) \in dropped
  BY Zenon, <1>3 DEF IInv, AbortInv, OnlyAbortedDiscarded
<1>5. \A s \in Sessions : turn[s] <= turn'[s]
  <2>1. turn \in [Sessions -> 1..MaxTurn]
    BY Zenon DEF IInv, TypeOK
  <2> QED BY <1>3, <2>1, Counters
<1>6. Quiet
  BY Zenon, <1>1, <1>2, <1>3, <1>4, <1>5 DEF Quiet
<1> QED BY Zenon, <1>6, QuietKeeps

-----------------------------------------------------------------------------
(* The invariant holds when the worker starts.                             *)
LEMMA InitHolds ==
  ASSUME Init
  PROVE  IInv
<1>1. /\ turn = [s \in Sessions |-> 1] /\ sent = [x \in Turns |-> 0]
      /\ aborts = [s \in Sessions |-> 0] /\ late = {}
      /\ closing = FALSE /\ dropped = {} /\ feeder = <<>> /\ pipe = <<>>
      /\ pc = "top" /\ active = {}
      /\ st = [r \in Rids |-> "none"] /\ produced = [r \in Rids |-> 0]
      /\ callbacks = 0 /\ outQ = <<>> /\ aborted = {}
      /\ lastTurn = (IF WarmedUp THEN WarmUp ELSE NoTurn) /\ taskType = "generate"
      /\ loopRid = NoRid /\ batch = <<>>
      /\ discarded = {} /\ skipped = {} /\ started = <<>>
      /\ answered = {} /\ failed = {}
  BY Zenon DEF Init
<1>2. 1 \in 1..MaxTurn /\ 0 \in 0..MaxReq /\ 0 \in 0..MaxAborts /\ 0 \in 0..MaxOut
  BY Constants
<1>3. Cardinality(Rids) \in Nat /\ 0 \in 0..Cardinality(Rids)
  BY RidsFinite, FS_CardinalityType
<1>4. TypeOK
  <2>1. /\ turn \in [Sessions -> 1..MaxTurn] /\ sent \in [Turns -> 0..MaxReq]
        /\ aborts \in [Sessions -> 0..MaxAborts] /\ produced \in [Rids -> 0..MaxOut]
    BY Zenon, <1>1, <1>2
  <2>2. lastTurn \in Turns \cup {WarmUp, NoTurn}
    BY Zenon, <1>1
  <2>3. st \in [Rids -> {"none", "run", "flushed", "cancelled", "done"}]
    BY Zenon, <1>1
  <2>4. /\ feeder \in Seq(Messages) /\ pipe \in Seq(Messages)
        /\ outQ \in Seq(Rids) /\ batch \in Seq(Rids) /\ started \in Seq(Rids)
    BY <1>1
  <2>5. callbacks \in 0..Cardinality(Rids)
    BY Zenon, <1>1, <1>3
  <2>6. UNION {answered, failed, discarded, skipped} \subseteq Rids
    BY Zenon, <1>1
  <2> QED BY Zenon, <1>1, <2>1, <2>2, <2>3, <2>4, <2>5, <2>6 DEF TypeOK
<1>5. Len(Q) = 0 /\ 1..Len(Q) = {} /\ Traced = {}
  <2>1. Len(Q) = 0
    BY <1>1 DEF Q
  <2>2. Traced = {}
    BY <1>1 DEF Traced, Range
  <2> QED BY <2>1, <2>2
<1>6. \A r \in Rids : st[r] = "none"
  BY Zenon, <1>1
<1>7. QueueInv
  BY Zenon, <1>1, <1>5, <1>6 DEF QueueInv
<1>8. CallbackInv
  <2>1. {r \in Rids : st[r] = "done"} = {}
    BY Zenon, <1>6
  <2>2. Cardinality({r \in Rids : st[r] = "done"}) = 0
    BY Zenon, <2>1, FS_EmptySet
  <2> QED BY <1>1, <2>2 DEF CallbackInv
<1>9. AbortInv
  BY Zenon, <1>1, <1>5 DEF AbortInv, AbortsCover, OnlyAbortedDiscarded, NewTurnNotSkipped
<1>10. OrderInv
  <2>1. 1..Len(started) = {}
    BY <1>1
  <2> QED BY Zenon, <1>5, <2>1 DEF OrderInv
<1> QED BY Zenon, <1>4, <1>7, <1>8, <1>9, <1>10 DEF IInv

(* Every step keeps it.                                                    *)
LEMMA NextKeeps ==
  ASSUME IInv, [Next]_vars
  PROVE  IInv'
<1>1. ASSUME Next  PROVE IInv'
  <2>1. TypeOK' /\ CallbackInv'
    <3>1. CASE \/ \E s \in Sessions, t \in 1..MaxTurn : Submit(s, t)
               \/ \E s \in Sessions : NewTurn(s) \/ SubmitAbort(s)
               \/ SubmitShutdown \/ FeederStep
               \/ \E r \in Rids : SelectiveDrain(r)
      BY Zenon, <3>1, ClientTypes
    <3>2. CASE MainLoop
      BY Zenon, <3>2, LoopTypes
    <3>3. CASE GenTasks \/ DoneCallback
      BY Zenon, <3>3, TaskTypes
    <3> QED BY <1>1, <3>1, <3>2, <3>3, Zenon DEF Next
  <2>2. Invs'
    <3>1. CASE \E s \in Sessions, t \in 1..MaxTurn : Submit(s, t)
      BY Zenon, <2>1, <3>1, SubmitKeeps
    <3>2. CASE \E s \in Sessions : SubmitAbort(s)
      BY Zenon, <2>1, <3>2, SubmitAbortKeeps
    <3>3. CASE SubmitShutdown
      BY Zenon, <2>1, <3>3, SubmitShutdownKeeps
    <3>4. CASE (\E s \in Sessions : NewTurn(s)) \/ FeederStep
      BY Zenon, <2>1, <3>4, NewTurnKeeps
    <3>5. CASE \E r \in Rids : SelectiveDrain(r)
      BY Zenon, <2>1, <3>5, DrainKeeps
    <3>6. CASE TakeGenerate
      BY Zenon, <2>1, <3>6, TakeGenerateKeeps
    <3>7. CASE TakeAbort
      BY Zenon, <2>1, <3>7, TakeAbortKeeps
    <3>8. CASE TakeShutdown
      BY Zenon, <2>1, <3>8, TakeShutdownKeeps
    <3>9. CASE TakeNothing \/ CollectAfterEmpty
      BY Zenon, <2>1, <3>9, IdleKeeps
    <3>10. CASE Dispatch
      BY Zenon, <2>1, <3>10, DispatchKeeps
    <3>11. CASE GenTasks \/ DoneCallback
      BY Zenon, <2>1, <3>11, TasksKeep
    <3> QED BY Zenon, <1>1, <3>1, <3>2, <3>3, <3>4, <3>5, <3>6, <3>7, <3>8, <3>9, <3>10,
               <3>11, Zenon DEF Next, MainLoop
  <2> QED BY Zenon, <2>1, <2>2 DEF IInv, Invs
<1>2. ASSUME UNCHANGED vars  PROVE IInv'
  <2>1. UNCHANGED <<client, feeder, pipe, pc, active, tasks, loop, results>>
    BY Zenon, <1>2 DEF vars
  <2>2. TypeOK'
    BY Zenon, <2>1 DEF IInv, TypeOK, client, tasks, loop, results
  <2>3. CallbackInv'
    BY Zenon, <2>1 DEF IInv, CallbackInv, tasks
  <2>4. /\ Q' = Q /\ sent' = sent /\ dropped' = dropped /\ turn' = turn
        /\ discarded' = discarded /\ st' = st /\ Traced' = Traced
        /\ UNCHANGED <<started, lastTurn, taskType, aborted, skipped>>
    BY Zenon, <2>1 DEF Q, Traced, client, tasks, loop, results
  <2>5. OneSession => \A r \in discarded' : TurnOf(r) \in dropped
    BY Zenon, <2>4 DEF IInv, AbortInv, OnlyAbortedDiscarded
  <2>6. \A s \in Sessions : turn[s] <= turn'[s]
    <3>1. turn \in [Sessions -> 1..MaxTurn]
      BY Zenon DEF IInv, TypeOK
    <3> QED BY <2>4, <3>1, Counters
  <2>7. \A r \in Traced' : r \in Rids /\ st[r] # "none"
    BY Zenon, <2>4, TracedRids
  <2>8. Quiet
    BY Zenon, <2>4, <2>5, <2>6, <2>7 DEF Quiet
  <2>9. Invs'
    BY Zenon, <2>2, <2>8, QuietKeeps
  <2> QED BY Zenon, <2>2, <2>3, <2>9 DEF IInv, Invs
<1> QED BY Zenon, <1>1, <1>2

(* The inductive invariant of the stage worker holds in every state.       *)
THEOREM StageInvariance == Spec => []IInv
<1>1. Init => IInv
  BY Zenon, InitHolds
<1>2. IInv /\ [Next]_vars => IInv'
  BY Zenon, NextKeeps
<1> QED BY <1>1, <1>2, PTL DEF Spec

(* Every variable of the worker and of its queue keeps its type; a done    *)
(* callback is scheduled at most once per request.                         *)
THEOREM StageTypes == Spec => []TypeOK
<1>1. IInv => TypeOK
  BY Zenon DEF IInv
<1> QED BY <1>1, StageInvariance, PTL

(* A worker that serves one session discards outputs of aborted turns      *)
(* only, although it tells them by a task_type that may be left over from  *)
(* an earlier message (the `task_type != GENERATE` test of the batch).     *)
THEOREM AbortDiscardsOwn == OneSession => (Spec => []OnlyAbortedDiscarded)
<1> SUFFICES ASSUME OneSession  PROVE Spec => []OnlyAbortedDiscarded
  BY Zenon
<1>1. IInv => OnlyAbortedDiscarded
  BY Zenon DEF IInv, AbortInv
<1> QED BY <1>1, StageInvariance, PTL

(* A worker that serves one session, and has been warmed up, skips no      *)
(* request of a turn that was not aborted: the turn after a barge-in       *)
(* empties aborted_sessions in time.                                       *)
THEOREM NextTurnServed == OneSession => (Spec => []NewTurnNotSkipped)
<1> SUFFICES ASSUME OneSession  PROVE Spec => []NewTurnNotSkipped
  BY Zenon
<1>1. IInv => NewTurnNotSkipped
  BY Zenon DEF IInv, AbortInv
<1> QED BY <1>1, StageInvariance, PTL

(* If the turns of the one session follow each other, the worker starts    *)
(* the requests of a turn in the order they were submitted, however often  *)
(* selective_drain takes messages out and puts them back.                  *)
THEOREM RequestsInOrder == OneSession /\ ~Overlap => (Spec => []StartedInOrder)
<1> SUFFICES ASSUME OneSession, ~Overlap  PROVE Spec => []StartedInOrder
  BY Zenon
<1>1. IInv => StartedInOrder
  <2> SUFFICES ASSUME IInv, NEW i \in 1..Len(started), NEW j \in 1..Len(started),
                      i < j, TurnOf(started[i]) = TurnOf(started[j])
               PROVE  started[i].k < started[j].k
    BY Zenon DEF StartedInOrder
  <2>1. Before(started[i], started[j])
    BY Zenon DEF IInv, OrderInv
  <2>2. started[i] \in Rids /\ started[j] \in Rids
    BY DEF IInv, TypeOK
  <2>3. started[i].t = started[j].t /\ started[i].t \in Nat
    BY <2>2, Constants DEF TurnOf, Rids
  <2> QED BY <2>1, <2>3 DEF Before
<1> QED BY <1>1, StageInvariance, PTL
=============================================================================
