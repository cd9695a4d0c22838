-------------------------- MODULE TurnAudioProofs --------------------------
(***************************************************************************)
(* Proofs about TurnAudio, for every chunk size, overlap, number of        *)
(* stage-1 sub-requests and number of lost sends.                          *)
(*                                                                         *)
(* The invariants of interest are not inductive: that audio is gapless     *)
(* needs the requests given to stage 2 to be linked each to the next, that *)
(* needs the cursor stg1_sent_idx to be one step past the last of them,    *)
(* and that the FINAL chunk fits needs the bound on the codes waiting.     *)
(*                                                                         *)
(* That TurnAudio implements AudioStream needs two facts more: an answer   *)
(* without a code can only be the first one worker_1to2 takes, and every   *)
(* chunk but the FINAL one ends before the code that came with the stop    *)
(* token.  The first of them also gives the number of chunks.              *)
(***************************************************************************)
EXTENDS TurnAudio, SequenceTheorems, TLAPS

(* stg1_sent_idx against the buffer: the overlap of a chunk that was sent  *)
(* is still waiting, and before the stop token less than a chunk is.       *)
CursorInv ==
  /\ sentIdx <= total
  /\ sentCount = 0 => sentIdx = 0
  /\ sentCount > 0 /\ expected = -1 => sentIdx + OVERLAP_SIZE <= total
  /\ stops = 0 => total < sentIdx + CHUNK_UNIT

(* What the stop token leaves behind, up to the first one. *)
StopInv ==
  /\ stg1Finished <=> stops > 0
  /\ stops = 0 => expected = -1
  /\ stops <= 1 => alive
  /\ stops = 1 => IF codesAtStop > 0 THEN expected > 0 ELSE expected = -1

(* The three places in the log of stage 2. *)
QueueInv ==
  /\ recvCount <= answered
  /\ answered <= Len(stg2)

(* The requests stage 2 was given, when none was lost: each starts Step    *)
(* codes after the one before, up to the FINAL one, which ends at the last *)
(* code buffered at the stop token.                                        *)
LogInv ==
  Regular =>
    /\ Len(stg2) = sentCount
    /\ expected <= Len(stg2)
    /\ Len(stg2) > 0 => stg2[1].from = 0
    /\ \A i \in 1..Len(stg2) :
         i > 1 /\ (expected > 0 => i <= expected) =>
           stg2[i].from = stg2[i-1].from + Step
    /\ expected = -1 /\ Len(stg2) > 0 => sentIdx = stg2[Len(stg2)].from + Step
    /\ \A i \in 1..Len(stg2) : stg2[i].final <=> i = expected
    /\ expected > 0 =>
         /\ codesAtStop = stg2[expected].from + lastLen
         /\ lastLen \in 1..CHUNK_UNIT
         /\ expected > 1 => OVERLAP_SIZE <= lastLen

(* What has been delivered: the end of the last request received, or, once *)
(* that was the expected one, the end of the buffer.                       *)
DeliveryInv ==
  Regular =>
    /\ recvCount = 0 => span.hi = 0
    /\ phase = "running" /\ recvCount > 0 =>
         span.hi = stg2[recvCount].from + CHUNK_UNIT
    /\ phase = "running" /\ expected > 0 => recvCount < expected
    /\ phase = "final" => span.hi = codesAtStop /\ expected > 0

IInv ==
  /\ TypeOK
  /\ CursorInv
  /\ StopInv
  /\ QueueInv
  /\ LogInv
  /\ DeliveryInv

-----------------------------------------------------------------------------
(* A turn starts with nothing buffered, sent or delivered. *)
LEMMA InitIInv == Init => IInv
<1> SUFFICES ASSUME Init PROVE IInv
  OBVIOUS
<1> USE ChunkAssumption DEF Init
<1>1. TypeOK
  <2>1. stg1 \in Seq(Nat) /\ out1 \in Seq(Answers) /\ q1 \in Seq(Answers)
          /\ stg2 \in Seq(Chunk)
    OBVIOUS
  <2> QED BY <2>1, Zenon DEF TypeOK
<1>2. CursorInv /\ StopInv /\ QueueInv
  BY DEF CursorInv, StopInv, QueueInv
<1>3. LogInv /\ DeliveryInv
  BY DEF LogInv, DeliveryInv, Regular
<1> QED BY <1>1, <1>2, <1>3 DEF IInv

(* An answer worker_1to2 takes adds at most one code to the buffer. *)
LEMMA TakeAnswerFacts ==
  ASSUME TypeOK, TakeAnswer
  PROVE  /\ q1' \in Seq(Answers)
         /\ total' = Buffered
         /\ Buffered \in Nat
         /\ total <= Buffered
         /\ Buffered <= total + 1
         /\ Waiting \in Int
         /\ Waiting = Buffered - sentIdx
<1>1. Head(q1) \in Answers /\ Tail(q1) \in Seq(Answers)
  BY HeadTailProperties DEF TypeOK, TakeAnswer
<1>2. Head(q1).codes \in {0, 1}
  BY <1>1 DEF Answers
<1>3. total \in Nat /\ sentIdx \in Nat
  BY DEF TypeOK
<1>4. Buffered = total + Head(q1).codes /\ Waiting = Buffered - sentIdx
  BY DEF Buffered, Waiting
<1>5. Buffered \in Nat /\ total <= Buffered /\ Buffered <= total + 1
  BY <1>2, <1>3, <1>4
<1>6. Waiting \in Int
  BY <1>3, <1>4, <1>5
<1>7. q1' = Tail(q1) /\ total' = Buffered
  BY DEF TakeAnswer
<1> QED BY <1>1, <1>4, <1>5, <1>6, <1>7

(* The requests and the answers of stage 2 are well typed, one by one. *)
LEMMA LogTypes ==
  ASSUME TypeOK
  PROVE  /\ Len(stg2) \in Nat
         /\ Step \in Nat
         /\ \A i \in 1..Len(stg2) : stg2[i].from \in Nat
<1>1. \A c \in Chunk : c.from \in Nat
  BY DEF Chunk
<1>2. \A i \in 1..Len(stg2) : stg2[i] \in Chunk
  BY DEF TypeOK
<1>3. Len(stg2) \in Nat
  BY DEF TypeOK
<1>4. Step \in Nat
  BY ChunkAssumption DEF Step
<1> QED BY <1>1, <1>2, <1>3, <1>4

(* A send appends one request to the log of stage 2, or is lost. *)
LEMMA SendFacts ==
  ASSUME TypeOK, NEW from \in Nat, NEW len \in 1..CHUNK_UNIT,
         NEW final \in BOOLEAN, SendToVocoder(from, len, final)
  PROVE  /\ sentCount' = sentCount + 1
         /\ stg2' \in Seq(Chunk)
         /\ lost' \in Nat
         /\ Len(stg2) <= Len(stg2')
         /\ \A i \in 1..Len(stg2) : stg2'[i] = stg2[i]
         /\ lost' = 0 =>
              /\ lost = 0
              /\ Len(stg2') = Len(stg2) + 1
              /\ stg2'[Len(stg2) + 1].from = from
              /\ stg2'[Len(stg2) + 1].final = final
<1> DEFINE req == [from |-> from, len |-> len, final |-> final]
<1>1. req \in Chunk
  BY DEF Chunk
<1>2. CASE stg2' = Append(stg2, req) /\ lost' = lost
  <2> HIDE DEF req
  <2>1. /\ stg2' \in Seq(Chunk)
        /\ Len(stg2') = Len(stg2) + 1
        /\ \A i \in 1..Len(stg2) : stg2'[i] = stg2[i]
        /\ stg2'[Len(stg2) + 1] = req
    BY <1>1, <1>2, AppendProperties DEF TypeOK
  <2>2. req.from = from /\ req.final = final
    BY DEF req
  <2> QED BY <1>2, <2>1, <2>2 DEF TypeOK, SendToVocoder
<1>3. CASE lost' = lost + 1 /\ stg2' = stg2
  BY <1>3 DEF TypeOK, SendToVocoder
<1> QED BY <1>2, <1>3 DEF SendToVocoder

(* The audio cut out of a chunk is an interval of codes that starts behind *)
(* the overlap, unless the chunk is the first, and that ends with the      *)
(* chunk, or with its last_chunk_actual_len codes if it is the FINAL one.  *)
LEMMA CleanAudioFacts ==
  ASSUME NEW req, NEW nth \in Nat, req.from \in Nat, lastLen \in Nat
  PROVE  LET a == CleanAudio(req, nth)
         IN  /\ a \in [lo : Nat, hi : Nat]
             /\ nth <= 1 => a.lo = req.from
             /\ nth > 1 => a.lo = req.from + OVERLAP_SIZE
             /\ ~req.final => a.hi = req.from + CHUNK_UNIT
             /\ /\ req.final
                /\ lastLen <= CHUNK_UNIT
                /\ nth > 1 => OVERLAP_SIZE <= lastLen
                => a.hi = req.from + lastLen
<1> DEFINE len == IF req.final /\ lastLen < CHUNK_UNIT THEN lastLen ELSE CHUNK_UNIT
           cut == IF nth > 1 THEN OVERLAP_SIZE ELSE 0
           lo == req.from + cut
           hi == req.from + (IF cut > len THEN cut ELSE len)
<1>1. len \in Nat /\ cut \in Nat /\ cut < CHUNK_UNIT
  BY ChunkAssumption
<1>2. CleanAudio(req, nth) = [lo |-> lo, hi |-> hi]
  BY DEF CleanAudio
<1>3. lo \in Nat /\ hi \in Nat /\ (cut <= len => hi = req.from + len)
  <2> HIDE DEF len, cut
  <2> QED BY <1>1
<1>4. (nth <= 1 => cut = 0) /\ (nth > 1 => cut = OVERLAP_SIZE)
  OBVIOUS
<1>5. ~req.final => len = CHUNK_UNIT
  OBVIOUS
<1>6. req.final /\ lastLen <= CHUNK_UNIT => len = lastLen
  BY ChunkAssumption
<1>7. /\ ~req.final => hi = req.from + CHUNK_UNIT
      /\ /\ req.final
         /\ lastLen <= CHUNK_UNIT
         /\ nth > 1 => OVERLAP_SIZE <= lastLen
         => hi = req.from + lastLen
  <2> HIDE DEF len, cut, hi
  <2> QED BY <1>1, <1>3, <1>4, <1>5, <1>6, ChunkAssumption
<1>8. (nth <= 1 => lo = req.from) /\ (nth > 1 => lo = req.from + OVERLAP_SIZE)
  <2> HIDE DEF cut
  <2> QED BY <1>1, <1>4
<1> HIDE DEF lo, hi
<1> QED BY <1>2, <1>3, <1>7, <1>8

(* Every action keeps the types; the only subtle ones are the length of    *)
(* the FINAL chunk and the audio cut out of a chunk.                       *)
LEMMA TypeStep ==
  ASSUME IInv, [Next]_vars
  PROVE  TypeOK'
<1> USE ChunkAssumption DEF vars, talker, chunker, vocoder, speaker
<1>0. TypeOK /\ CursorInv /\ QueueInv
  BY DEF IInv
<1>1. CASE SendToTalker
  BY <1>0, <1>1, AppendProperties DEF SendToTalker, TypeOK
<1>2. CASE TalkerStep
  <2>1. Head(stg1) \in Nat /\ Tail(stg1) \in Seq(Nat)
    BY <1>0, <1>2, HeadTailProperties DEF TalkerStep, TypeOK
  <2>2. \A stop \in BOOLEAN : Answer(Head(stg1), stop) \in Answers
    BY <2>1 DEF Answer, Answers
  <2>3. out1' \in Seq(Answers)
    BY <1>0, <1>2, <2>2, AppendProperties DEF TalkerStep, TypeOK
  <2> QED BY <1>0, <1>2, <2>1, <2>3 DEF TalkerStep, TypeOK
<1>3. CASE Harvest
  <2>1. Head(out1) \in Answers /\ Tail(out1) \in Seq(Answers)
    BY <1>0, <1>3, HeadTailProperties DEF Harvest, TypeOK
  <2>2. q1' \in Seq(Answers)
    BY <1>0, <1>3, <2>1, AppendProperties DEF Harvest, TypeOK
  <2> QED BY <1>0, <1>3, <2>1, <2>2 DEF Harvest, TypeOK
<1>4. CASE CollectCode
  BY <1>0, <1>4, TakeAnswerFacts DEF CollectCode, TypeOK
<1>5. CASE SendChunk
  <2>1. /\ stg2' \in Seq(Chunk)
        /\ lost' \in Nat
        /\ sentCount' \in Nat
    <3>1. sentIdx \in Nat /\ CHUNK_UNIT \in 1..CHUNK_UNIT /\ sentCount \in Nat
      BY <1>0 DEF TypeOK
    <3>2. SendToVocoder(sentIdx, CHUNK_UNIT, FALSE)
      BY <1>5, Zenon DEF SendChunk
    <3>3. sentCount' = sentCount + 1 /\ stg2' \in Seq(Chunk) /\ lost' \in Nat
      BY <1>0, <3>1, <3>2, SendFacts, Zenon
    <3> QED BY <3>1, <3>3
  <2>2. sentIdx' \in Nat
    BY <1>0, <1>5 DEF SendChunk, Step, TypeOK
  <2> QED BY <1>0, <1>5, <2>1, <2>2, TakeAnswerFacts DEF SendChunk, TypeOK
<1>6. CASE StopToken
  <2>1. /\ q1' \in Seq(Answers) /\ total' = Buffered /\ Buffered \in Nat
        /\ total <= Buffered /\ Waiting = Buffered - sentIdx
    BY <1>0, <1>6, TakeAnswerFacts DEF StopToken
  <2>2. stg1' \in Seq(Nat) /\ routes' \subseteq Nat
    <3>1. PICK kept \in 0..Len(stg1) : stg1' = SubSeq(stg1, 1, kept)
      BY <1>6 DEF StopToken, FlushTalker
    <3>2. \A i \in 1..kept : stg1[i] \in Nat
      BY <1>0 DEF TypeOK
    <3>3. SubSeq(stg1, 1, kept) \in Seq(Nat)
      BY <3>2, SubSeqProperties
    <3> QED BY <1>6, <3>1, <3>3 DEF StopToken, FlushTalker
  <2>3. Waiting \in Nat /\ lastLen' \in Nat
    <3>1. sentIdx \in Nat /\ total \in Nat /\ sentIdx <= total /\ lastLen \in Nat
      BY <1>0 DEF TypeOK, CursorInv
    <3>2. lastLen' = lastLen \/ lastLen' = Waiting
      BY <1>6, Zenon DEF StopToken
    <3> QED BY <2>1, <3>1, <3>2
  <2>4. stg2' \in Seq(Chunk) /\ lost' \in Nat /\ sentCount' \in Nat
    <3>1. CASE /\ Waiting > 0
               /\ Waiting <= CHUNK_UNIT
               /\ SendToVocoder(sentIdx, Waiting, TRUE)
      <4>1. sentIdx \in Nat /\ Waiting \in 1..CHUNK_UNIT /\ sentCount \in Nat
        BY <1>0, <2>3, <3>1 DEF TypeOK
      <4>2. sentCount' = sentCount + 1 /\ stg2' \in Seq(Chunk) /\ lost' \in Nat
        BY <1>0, <3>1, <4>1, SendFacts, Zenon
      <4> QED BY <4>1, <4>2
    <3>2. CASE UNCHANGED <<sentCount, stg2, lost>>
      BY <1>0, <3>2 DEF TypeOK
    <3> QED BY <1>6, <3>1, <3>2, Zenon DEF StopToken
  <2>5. expected' \in Nat \cup {-1} /\ alive' \in BOOLEAN
    BY <1>0, <1>6, <2>4, Zenon DEF StopToken, TypeOK
  <2>6. codesAtStop' \in Nat /\ stops' \in Nat
    BY <1>0, <1>6, <2>1 DEF StopToken, TypeOK
  <2> QED BY <1>0, <1>6, <2>1, <2>2, <2>3, <2>4, <2>5, <2>6
          DEF StopToken, FlushTalker, TypeOK
<1>7. CASE VocoderStep
  BY <1>0, <1>7 DEF VocoderStep, TypeOK
<1>8. CASE Worker2toServer
  <2>1. stg2[recvCount'] \in Chunk
    BY <1>0, <1>8 DEF Worker2toServer, QueueInv, TypeOK
  <2>2. stg2[recvCount'].from \in Nat
    BY <2>1 DEF Chunk
  <2>3. lastLen \in Nat
    BY <1>0 DEF TypeOK
  <2>4. recvCount' \in Nat
    BY <1>0, <1>8 DEF Worker2toServer, TypeOK
  <2>5. CleanAudio(stg2[recvCount'], recvCount') \in [lo : Nat, hi : Nat]
    BY <2>2, <2>3, <2>4, CleanAudioFacts
  <2> QED BY <1>0, <1>8, <2>4, <2>5 DEF Worker2toServer, TypeOK
<1>9. CASE Finish \/ Cancel
  BY <1>0, <1>9, Zenon DEF Finish, Cancel, Close, TypeOK
<1>10. CASE UNCHANGED vars
  BY <1>0, <1>10 DEF TypeOK
<1> QED BY <1>1, <1>2, <1>3, <1>4, <1>5, <1>6, <1>7, <1>8, <1>9, <1>10 DEF Next

(* The state the other invariants speak about; the talker, the harvester   *)
(* and a stutter leave it alone.                                           *)
core == <<total, sentIdx, sentCount, stg1Finished, lastLen, expected, alive,
          stops, codesAtStop, stg2, answered, lost, recvCount, span, phase>>

(* Feeding the talker, its answers and the harvester leave the audio alone. *)
LEMMA QuietStep ==
  ASSUME IInv,
         SendToTalker \/ TalkerStep \/ Harvest \/ UNCHANGED vars
  PROVE  UNCHANGED core
BY DEF SendToTalker, TalkerStep, Harvest, core, vars, talker, chunker,
       vocoder, speaker

(* stg1_sent_idx and the counters keep in step with the codes buffered.   *)
LEMMA CursorStep ==
  ASSUME IInv, [Next]_vars
  PROVE  CursorInv' /\ StopInv' /\ QueueInv'
<1> USE ChunkAssumption DEF talker, chunker, vocoder, speaker
<1>0. TypeOK /\ CursorInv /\ StopInv /\ QueueInv
  BY DEF IInv
<1>n. /\ total \in Nat /\ sentIdx \in Nat /\ sentCount \in Nat /\ stops \in Nat
      /\ expected \in Nat \cup {-1} /\ codesAtStop \in Nat
      /\ answered \in Nat /\ recvCount \in Nat
      /\ Len(stg2) \in Nat
  BY <1>0 DEF TypeOK
<1>1. CASE SendToTalker \/ TalkerStep \/ Harvest \/ UNCHANGED vars
  BY <1>0, <1>1, QuietStep DEF core, CursorInv, StopInv, QueueInv
<1>2. CASE CollectCode
  <2>1. /\ total' = Buffered /\ Buffered \in Nat /\ total <= Buffered
        /\ Waiting = Buffered - sentIdx
    BY <1>0, <1>2, TakeAnswerFacts DEF CollectCode
  <2>2. Waiting < CHUNK_UNIT
    BY <1>2, <2>1, <1>n DEF CollectCode, ChunkReady
  <2>3. UNCHANGED <<sentIdx, sentCount, stg1Finished, expected, alive, stops,
                    codesAtStop, stg2, answered, recvCount>>
    BY <1>2 DEF CollectCode
  <2> QED BY <1>0, <1>n, <2>1, <2>2, <2>3 DEF CursorInv, StopInv, QueueInv
<1>3. CASE SendChunk
  <2>1. /\ total' = Buffered /\ Buffered \in Nat /\ total <= Buffered
        /\ Buffered <= total + 1 /\ Waiting = Buffered - sentIdx
    BY <1>0, <1>3, TakeAnswerFacts DEF SendChunk
  <2>2. sentIdx \in Nat /\ CHUNK_UNIT \in 1..CHUNK_UNIT
    BY <1>n
  <2>3. SendToVocoder(sentIdx, CHUNK_UNIT, FALSE)
    BY <1>3, Zenon DEF SendChunk
  <2>4. sentCount' = sentCount + 1 /\ Len(stg2) <= Len(stg2') /\ stg2' \in Seq(Chunk)
    BY <1>0, <2>2, <2>3, SendFacts, Zenon
  <2>5. CursorInv'
    <3>1. /\ Waiting >= CHUNK_UNIT
          /\ sentIdx' = sentIdx + Step
          /\ UNCHANGED <<stops, expected>>
      BY <1>3 DEF SendChunk, ChunkReady
    <3> QED BY <1>0, <1>n, <2>1, <2>4, <3>1 DEF Step, CursorInv
  <2>6. StopInv'
    BY <1>0, <1>3 DEF SendChunk, StopInv
  <2>7. QueueInv'
    BY <1>0, <1>n, <1>3, <2>4 DEF SendChunk, QueueInv
  <2> QED BY <2>5, <2>6, <2>7
<1>4. CASE StopToken
  <2>1. /\ total' = Buffered /\ Buffered \in Nat /\ total <= Buffered
        /\ Buffered <= total + 1 /\ Waiting = Buffered - sentIdx
        /\ Waiting \in Int
    BY <1>0, <1>4, TakeAnswerFacts DEF StopToken
  <2>2. /\ UNCHANGED <<sentIdx, answered, recvCount>>
        /\ stops' = stops + 1
        /\ stg1Finished' = TRUE
        /\ codesAtStop' = IF stops = 0 THEN Buffered ELSE codesAtStop
    BY <1>4 DEF StopToken
  <2>3. CASE Buffered = 0 /\ UNCHANGED <<lastLen, sentCount, expected, alive, stg2, lost>>
    BY <1>0, <1>n, <2>1, <2>2, <2>3 DEF CursorInv, StopInv, QueueInv
  <2>4. CASE /\ Buffered > 0
             /\ Waiting <= CHUNK_UNIT
             /\ IF Waiting > 0
                THEN SendToVocoder(sentIdx, Waiting, TRUE)
                ELSE UNCHANGED <<sentCount, stg2, lost>>
             /\ expected' = sentCount'
             /\ alive' = alive
    <3>1. /\ sentCount' \in Nat
          /\ sentCount <= sentCount'
          /\ Len(stg2) <= Len(stg2')
          /\ stg2' \in Seq(Chunk)
          /\ Waiting > 0 => sentCount' > 0
      <4>1. CASE Waiting > 0
        <5>1. sentIdx \in Nat /\ Waiting \in 1..CHUNK_UNIT /\ sentCount \in Nat
          BY <1>n, <2>1, <2>4, <4>1
        <5>2. SendToVocoder(sentIdx, Waiting, TRUE)
          BY <2>4, <4>1, Zenon
        <5>3. sentCount' = sentCount + 1 /\ Len(stg2) <= Len(stg2') /\ stg2' \in Seq(Chunk)
          BY <1>0, <5>1, <5>2, SendFacts, Zenon
        <5> QED BY <5>1, <5>3
      <4>2. CASE ~(Waiting > 0)
        BY <1>0, <1>n, <2>4, <4>2 DEF TypeOK
      <4> QED BY <4>1, <4>2
    <3>2. CursorInv'
      BY <1>0, <1>n, <2>1, <2>2, <2>4, <3>1 DEF CursorInv
    <3>3. stops = 0 => expected' > 0
      <4>1. stops = 0 => Waiting > 0
        BY <1>0, <1>n, <2>1, <2>4 DEF CursorInv, StopInv
      <4> QED BY <2>4, <3>1, <4>1
    <3>4. StopInv'
      <4>1. stops' > 0 /\ (stops' <= 1 => stops = 0)
        BY <1>n, <2>2
      <4>2. stops = 0 => alive
        BY <1>0, <1>n DEF StopInv
      <4>3. stops' <= 1 => alive'
        BY <2>4, <4>1, <4>2
      <4>4. stops' = 1 =>
              IF codesAtStop' > 0 THEN expected' > 0 ELSE expected' = -1
        BY <1>n, <2>1, <2>2, <2>4, <3>3
      <4> QED BY <1>n, <2>2, <4>1, <4>3, <4>4 DEF StopInv
    <3>5. QueueInv'
      BY <1>0, <1>n, <2>2, <3>1 DEF QueueInv
    <3> QED BY <3>2, <3>4, <3>5
  <2>5. CASE /\ Waiting > CHUNK_UNIT
             /\ alive' = FALSE
             /\ UNCHANGED <<sentCount, expected, stg2, lost>>
    <3>1. stops # 0
      BY <1>0, <1>n, <2>1, <2>5 DEF CursorInv
    <3> QED BY <1>0, <1>n, <2>1, <2>2, <2>5, <3>1
            DEF CursorInv, StopInv, QueueInv
  <2> QED BY <1>4, <2>3, <2>4, <2>5, Zenon DEF StopToken
<1>5. CASE VocoderStep
  BY <1>0, <1>5 DEF VocoderStep, TypeOK, CursorInv, StopInv, QueueInv
<1>6. CASE Worker2toServer
  BY <1>0, <1>6 DEF Worker2toServer, TypeOK, CursorInv, StopInv, QueueInv
<1>7. CASE Finish \/ Cancel
  BY <1>0, <1>7 DEF Finish, Cancel, Close, CursorInv, StopInv, QueueInv
<1> QED BY <1>1, <1>2, <1>3, <1>4, <1>5, <1>6, <1>7 DEF Next

(* The links between consecutive requests survive a send: it starts where  *)
(* stg1_sent_idx points.                                                   *)
LEMMA LogStep ==
  ASSUME IInv, [Next]_vars
  PROVE  LogInv'
<1> USE ChunkAssumption DEF talker, chunker, vocoder, speaker
<1>0. TypeOK /\ CursorInv /\ StopInv /\ LogInv
  BY DEF IInv
<1>n. /\ total \in Nat /\ sentIdx \in Nat /\ sentCount \in Nat /\ stops \in Nat
      /\ expected \in Nat \cup {-1} /\ codesAtStop \in Nat /\ lastLen \in Nat
      /\ lost \in Nat /\ Len(stg2) \in Nat /\ Step \in Nat
      /\ \A i \in 1..Len(stg2) : stg2[i].from \in Nat
  BY <1>0, LogTypes DEF TypeOK
<1>e. stops <= 1 => expected = -1 \/ expected > 0
  BY <1>0, <1>n DEF StopInv
<1>1. CASE UNCHANGED <<sentIdx, sentCount, lastLen, expected, stops, codesAtStop, stg2, lost>>
  BY <1>0, <1>1 DEF LogInv, Regular, Step
<1>2. CASE SendChunk
  <2> SUFFICES ASSUME Regular' PROVE LogInv'
    BY DEF LogInv
  <2>1. sentIdx \in Nat /\ CHUNK_UNIT \in 1..CHUNK_UNIT
    BY <1>n
  <2>2. SendToVocoder(sentIdx, CHUNK_UNIT, FALSE)
    BY <1>2, Zenon DEF SendChunk
  <2>3. lost' = 0
    BY DEF Regular
  <2>4. /\ sentCount' = sentCount + 1
        /\ \A i \in 1..Len(stg2) : stg2'[i] = stg2[i]
        /\ lost = 0
        /\ Len(stg2') = Len(stg2) + 1
        /\ stg2'[Len(stg2) + 1].from = sentIdx
        /\ stg2'[Len(stg2) + 1].final = FALSE
    BY <1>0, <2>1, <2>2, <2>3, SendFacts, Zenon
  <2>5. /\ sentIdx' = sentIdx + Step
        /\ UNCHANGED <<stops, expected, lastLen, codesAtStop>>
    BY <1>2 DEF SendChunk
  <2>6. Regular
    BY <2>4, <2>5 DEF Regular
  <2>7. /\ Len(stg2') = sentCount'
        /\ expected' <= Len(stg2')
        /\ expected = -1 \/ expected > 0
        /\ expected <= Len(stg2)
    BY <1>0, <1>n, <1>e, <2>4, <2>5, <2>6 DEF LogInv, Regular
  <2>8. stg2'[1].from = 0
    BY <1>0, <1>n, <2>4, <2>6 DEF LogInv, CursorInv
  <2>9. ASSUME NEW i \in 1..Len(stg2'), i > 1, expected > 0 => i <= expected
        PROVE  stg2'[i].from = stg2'[i-1].from + Step
    <3>1. CASE i = Len(stg2) + 1
      BY <1>0, <1>n, <2>4, <2>6, <2>7, <2>9, <3>1 DEF LogInv
    <3>2. CASE i # Len(stg2) + 1
      <4>1. i \in 1..Len(stg2) /\ i - 1 \in 1..Len(stg2)
        BY <1>n, <2>4, <2>9, <3>2
      <4>2. stg2[i].from = stg2[i-1].from + Step
        BY <1>0, <2>6, <2>9, <4>1 DEF LogInv
      <4> QED BY <2>4, <4>1, <4>2
    <3> QED BY <3>1, <3>2
  <2>10. ASSUME NEW i \in 1..Len(stg2')
         PROVE  stg2'[i].final <=> i = expected
    <3>1. CASE i = Len(stg2) + 1
      <4>1. i # expected
        BY <1>n, <2>7, <3>1
      <4> QED BY <2>4, <3>1, <4>1
    <3>2. CASE i # Len(stg2) + 1
      <4>1. i \in 1..Len(stg2)
        BY <1>n, <2>4, <3>2
      <4> QED BY <1>0, <2>4, <2>6, <4>1 DEF LogInv
    <3> QED BY <3>1, <3>2
  <2>11. expected > 0 =>
           /\ codesAtStop = stg2'[expected].from + lastLen
           /\ lastLen \in 1..CHUNK_UNIT
           /\ expected > 1 => OVERLAP_SIZE <= lastLen
    <3>1. expected > 0 => expected \in 1..Len(stg2)
      BY <1>n, <2>7
    <3> QED BY <1>0, <2>4, <2>6, <3>1 DEF LogInv
  <2>12. sentIdx' = stg2'[Len(stg2')].from + Step
    BY <2>4, <2>5
  <2> QED BY <2>5, <2>7, <2>8, <2>9, <2>10, <2>11, <2>12 DEF LogInv, Step
<1>3. CASE StopToken
  <2> SUFFICES ASSUME Regular' PROVE LogInv'
    BY DEF LogInv
  <2>1. /\ Buffered \in Nat /\ total <= Buffered /\ Buffered <= total + 1
        /\ Waiting = Buffered - sentIdx /\ Waiting \in Int
    BY <1>0, <1>3, TakeAnswerFacts DEF StopToken
  <2>2. /\ sentIdx' = sentIdx
        /\ stops' = stops + 1
        /\ codesAtStop' = IF stops = 0 THEN Buffered ELSE codesAtStop
    BY <1>3 DEF StopToken
  <2>3. lost' = 0 /\ stops = 0 /\ codesAtStop' = Buffered
    BY <1>n, <2>2 DEF Regular
  <2>4. expected = -1 /\ Waiting <= CHUNK_UNIT
    BY <1>0, <1>n, <2>1, <2>3 DEF StopInv, CursorInv
  <2>5. CASE Buffered = 0 /\ UNCHANGED <<lastLen, sentCount, expected, alive, stg2, lost>>
    <3>1. Regular
      BY <2>3, <2>5 DEF Regular
    <3> QED BY <1>0, <1>n, <2>2, <2>4, <2>5, <3>1 DEF LogInv
  <2>6. CASE /\ Buffered > 0
             /\ lastLen' = Waiting
             /\ IF Waiting > 0
                THEN SendToVocoder(sentIdx, Waiting, TRUE)
                ELSE UNCHANGED <<sentCount, stg2, lost>>
             /\ expected' = sentCount'
    <3>1. Waiting > 0
      BY <1>0, <1>n, <2>1, <2>4, <2>6 DEF CursorInv
    <3>2. sentIdx \in Nat /\ Waiting \in 1..CHUNK_UNIT
      BY <1>n, <2>1, <2>4, <3>1
    <3>3. SendToVocoder(sentIdx, Waiting, TRUE)
      BY <2>6, <3>1, Zenon
    <3>4. /\ sentCount' = sentCount + 1
          /\ \A i \in 1..Len(stg2) : stg2'[i] = stg2[i]
          /\ lost = 0
          /\ Len(stg2') = Len(stg2) + 1
          /\ stg2'[Len(stg2) + 1].from = sentIdx
          /\ stg2'[Len(stg2) + 1].final = TRUE
      BY <1>0, <2>3, <3>2, <3>3, SendFacts, Zenon
    <3>5. Regular
      BY <2>3, <3>4 DEF Regular
    <3>6. /\ Len(stg2) = sentCount
          /\ Len(stg2') = sentCount'
          /\ expected' = Len(stg2) + 1
      BY <1>0, <1>n, <2>6, <3>4, <3>5 DEF LogInv
    <3>7. stg2'[1].from = 0
      BY <1>0, <1>n, <3>4, <3>5 DEF LogInv, CursorInv
    <3>8. ASSUME NEW i \in 1..Len(stg2'), i > 1
          PROVE  stg2'[i].from = stg2'[i-1].from + Step
      <4>1. CASE i = Len(stg2) + 1
        BY <1>0, <1>n, <2>4, <3>4, <3>5, <3>8, <4>1 DEF LogInv
      <4>2. CASE i # Len(stg2) + 1
        <5>1. i \in 1..Len(stg2) /\ i - 1 \in 1..Len(stg2)
          BY <1>n, <3>4, <3>8, <4>2
        <5>2. stg2[i].from = stg2[i-1].from + Step
          BY <1>0, <2>4, <3>5, <3>8, <5>1 DEF LogInv
        <5> QED BY <3>4, <5>1, <5>2
      <4> QED BY <4>1, <4>2
    <3>9. ASSUME NEW i \in 1..Len(stg2')
          PROVE  stg2'[i].final <=> i = Len(stg2) + 1
      <4>1. CASE i = Len(stg2) + 1
        BY <3>4, <4>1
      <4>2. CASE i # Len(stg2) + 1
        <5>1. i \in 1..Len(stg2) /\ i # expected
          BY <1>n, <2>4, <3>4, <4>2
        <5> QED BY <1>0, <3>4, <3>5, <4>2, <5>1 DEF LogInv
      <4> QED BY <4>1, <4>2
    <3>10. Buffered = sentIdx + Waiting /\ (Len(stg2) > 0 => OVERLAP_SIZE <= Waiting)
      BY <1>0, <1>n, <2>1, <2>4, <3>6 DEF CursorInv
    <3>11. /\ codesAtStop' = stg2'[Len(stg2) + 1].from + Waiting
           /\ Len(stg2) + 1 > 1 => OVERLAP_SIZE <= Waiting
      BY <1>n, <2>3, <3>4, <3>10
    <3> QED BY <1>n, <2>6, <3>2, <3>4, <3>6, <3>7, <3>8, <3>9, <3>11 DEF LogInv, Step
  <2>7. CASE Waiting > CHUNK_UNIT
    BY <1>n, <2>1, <2>4, <2>7
  <2> QED BY <1>3, <2>5, <2>6, <2>7, Zenon DEF StopToken
<1>4. CASE SendToTalker \/ TalkerStep \/ Harvest \/ UNCHANGED vars
  BY <1>1, <1>4, QuietStep DEF core
<1>5. CASE CollectCode \/ VocoderStep \/ Worker2toServer
  BY <1>1, <1>5 DEF CollectCode, VocoderStep, Worker2toServer
<1>6. CASE Finish \/ Cancel
  BY <1>1, <1>6 DEF Finish, Cancel, Close
<1> QED BY <1>2, <1>3, <1>4, <1>5, <1>6 DEF Next

(* Delivery follows the log one request behind the other, and stops with   *)
(* the FINAL one.                                                          *)
LEMMA DeliveryStep ==
  ASSUME IInv, [Next]_vars
  PROVE  /\ DeliveryInv'
         /\ recvCount' # recvCount /\ Regular => span'.lo = span.hi
<1> USE ChunkAssumption DEF talker, chunker, vocoder, speaker
<1>0. TypeOK /\ CursorInv /\ StopInv /\ QueueInv /\ LogInv /\ DeliveryInv
  BY DEF IInv
<1>n. /\ stops \in Nat /\ expected \in Nat \cup {-1} /\ codesAtStop \in Nat
      /\ lastLen \in Nat /\ lost \in Nat /\ Len(stg2) \in Nat /\ Step \in Nat
      /\ recvCount \in Nat /\ answered \in Nat /\ sentCount \in Nat
      /\ recvCount <= Len(stg2)
      /\ \A i \in 1..Len(stg2) : stg2[i].from \in Nat
  BY <1>0, LogTypes DEF TypeOK, QueueInv
<1>e. stops <= 1 => expected = -1 \/ expected > 0
  BY <1>0, <1>n DEF StopInv
<1>1. CASE UNCHANGED <<recvCount, span, phase, expected, stops, codesAtStop, stg2, lost>>
  BY <1>0, <1>1 DEF DeliveryInv, Regular
<1>2. CASE SendChunk
  <2>1. UNCHANGED <<recvCount, span, phase, expected, stops, codesAtStop>>
    BY <1>2 DEF SendChunk
  <2>2. sentIdx \in Nat /\ CHUNK_UNIT \in 1..CHUNK_UNIT
    BY <1>0 DEF TypeOK
  <2>3. SendToVocoder(sentIdx, CHUNK_UNIT, FALSE)
    BY <1>2, Zenon DEF SendChunk
  <2>4. /\ \A i \in 1..Len(stg2) : stg2'[i] = stg2[i]
        /\ lost' = 0 => lost = 0
    BY <1>0, <2>2, <2>3, SendFacts, Zenon
  <2>5. recvCount > 0 => stg2'[recvCount] = stg2[recvCount]
    BY <1>n, <2>4
  <2> QED BY <1>0, <1>n, <2>1, <2>4, <2>5 DEF DeliveryInv, Regular
<1>3. CASE StopToken
  <2>1. UNCHANGED <<recvCount, span, phase>> /\ stops' = stops + 1
    BY <1>3 DEF StopToken
  <2> SUFFICES ASSUME Regular' PROVE DeliveryInv'
    BY <2>1 DEF DeliveryInv
  <2>2. stops = 0 /\ expected = -1 /\ lost' = 0
    BY <1>0, <1>n, <2>1 DEF Regular, StopInv
  <2>3. CASE UNCHANGED <<expected, stg2, lost>>
    <3>1. Regular
      BY <2>2, <2>3 DEF Regular
    <3> QED BY <1>0, <1>n, <2>1, <2>2, <2>3, <3>1 DEF DeliveryInv
  <2>4. CASE /\ Waiting > 0
             /\ Waiting <= CHUNK_UNIT
             /\ SendToVocoder(sentIdx, Waiting, TRUE)
             /\ expected' = sentCount'
    <3>1. Waiting \in Int
      BY <1>0, <1>3, TakeAnswerFacts DEF StopToken
    <3>2. sentIdx \in Nat /\ Waiting \in 1..CHUNK_UNIT
      BY <1>0, <2>4, <3>1 DEF TypeOK
    <3>3. SendToVocoder(sentIdx, Waiting, TRUE)
      BY <2>4, Zenon
    <3>4. /\ \A i \in 1..Len(stg2) : stg2'[i] = stg2[i]
          /\ sentCount' = sentCount + 1
          /\ lost = 0
      BY <1>0, <2>2, <3>2, <3>3, SendFacts, Zenon
    <3>5. Regular
      BY <2>2, <3>4 DEF Regular
    <3>6. expected' = Len(stg2) + 1 /\ expected' > recvCount
      BY <1>0, <1>n, <2>4, <3>4, <3>5 DEF LogInv
    <3>7. phase = "running"
      BY <1>0, <1>3, <2>2, <3>5 DEF DeliveryInv, StopToken, TakeAnswer, TypeOK
    <3>8. recvCount > 0 =>
            /\ stg2'[recvCount] = stg2[recvCount]
            /\ span.hi = stg2[recvCount].from + CHUNK_UNIT
      BY <1>0, <1>n, <2>2, <3>4, <3>5, <3>7 DEF DeliveryInv
    <3> QED BY <1>0, <1>n, <2>1, <3>5, <3>6, <3>7, <3>8 DEF DeliveryInv
  <2>5. CASE /\ Buffered > 0
             /\ ~(Waiting > 0)
    <3>1. /\ Buffered \in Nat /\ total <= Buffered
          /\ Waiting = Buffered - sentIdx
      BY <1>0, <1>3, TakeAnswerFacts DEF StopToken
    <3>2. total \in Nat /\ sentIdx \in Nat
      BY <1>0 DEF TypeOK
    <3> QED BY <1>0, <1>n, <2>2, <2>5, <3>1, <3>2 DEF CursorInv
  <2> QED BY <1>3, <2>3, <2>4, <2>5, Zenon DEF StopToken
<1>4. CASE Worker2toServer
  <2>1. /\ phase = "running"
        /\ recvCount' = recvCount + 1
        /\ recvCount' \in 1..Len(stg2)
        /\ UNCHANGED <<stg1Finished, lastLen, expected, stops, codesAtStop, stg2, lost>>
    BY <1>0, <1>n, <1>4 DEF Worker2toServer, QueueInv
  <2> SUFFICES ASSUME Regular
               PROVE  DeliveryInv' /\ span'.lo = span.hi
    BY <2>1 DEF DeliveryInv, Regular
  <2> DEFINE n == recvCount + 1
             req == stg2[n]
  <2>2. /\ span' = CleanAudio(req, n)
        /\ phase' = IF IsFinalChunk(n) THEN "final" ELSE "running"
        /\ n \in 1..Len(stg2)
    BY <2>1, <1>4 DEF Worker2toServer
  <2>3. req.from \in Nat
    BY <1>n, <2>2
  <2>4. expected > 0 => n <= expected /\ expected <= Len(stg2) /\ stops = 1
    <3>1. expected > 0 => recvCount < expected
      BY <1>0, <2>1 DEF DeliveryInv
    <3>2. expected <= Len(stg2)
      BY <1>0 DEF LogInv
    <3>3. stops <= 1
      BY DEF Regular
    <3>4. expected > 0 => stops # 0
      BY <1>0 DEF StopInv
    <3> QED BY <1>n, <3>1, <3>2, <3>3, <3>4
  <2>5. IsFinalChunk(n) <=> n = expected
    BY <1>0, <1>n, <2>4 DEF IsFinalChunk, StopInv
  <2>6. req.final <=> n = expected
    BY <1>0, <2>2 DEF LogInv
  <2>c. /\ n <= 1 => span'.lo = req.from
        /\ n > 1 => span'.lo = req.from + OVERLAP_SIZE
        /\ ~req.final => span'.hi = req.from + CHUNK_UNIT
        /\ /\ req.final
           /\ lastLen <= CHUNK_UNIT
           /\ n > 1 => OVERLAP_SIZE <= lastLen
           => span'.hi = req.from + lastLen
    <3> HIDE DEF req
    <3> QED BY <1>n, <2>2, <2>3, CleanAudioFacts
  <2>7. span'.lo = span.hi
    <3>1. CASE recvCount = 0
      <4>1. span.hi = 0
        BY <1>0, <3>1 DEF DeliveryInv
      <4>2. n = 1 /\ Len(stg2) > 0
        BY <1>n, <2>2, <3>1
      <4>3. stg2[1].from = 0
        BY <1>0, <4>2 DEF LogInv
      <4>4. span'.lo = req.from
        BY <2>c, <4>2
      <4> QED BY <4>1, <4>2, <4>3, <4>4
    <3>2. CASE recvCount > 0
      <4>1. span.hi = stg2[recvCount].from + CHUNK_UNIT /\ recvCount \in 1..Len(stg2)
        BY <1>0, <1>n, <2>1, <3>2 DEF DeliveryInv
      <4>2. req.from = stg2[n-1].from + Step
        BY <1>0, <1>n, <2>2, <2>4, <3>2 DEF LogInv
      <4>3. span'.lo = req.from + OVERLAP_SIZE
        BY <1>n, <2>c, <3>2
      <4>4. stg2[n-1].from = stg2[recvCount].from /\ stg2[recvCount].from \in Nat
        BY <1>n, <4>1
      <4> QED BY <4>1, <4>2, <4>3, <4>4 DEF Step
    <3> QED BY <1>n, <3>1, <3>2
  <2>8. CASE n = expected
    <3>1. /\ codesAtStop = req.from + lastLen
          /\ lastLen \in 1..CHUNK_UNIT
          /\ n > 1 => OVERLAP_SIZE <= lastLen
      BY <1>0, <1>n, <2>8 DEF LogInv
    <3>2. span'.hi = req.from + lastLen
      BY <2>6, <2>8, <2>c, <3>1
    <3>3. phase' = "final" /\ expected > 0
      BY <1>n, <2>2, <2>5, <2>8
    <3> QED BY <1>n, <2>1, <2>7, <3>1, <3>2, <3>3 DEF DeliveryInv, Regular
  <2>9. CASE n # expected
    <3>1. phase' = "running" /\ ~req.final
      BY <2>2, <2>5, <2>6, <2>9
    <3>2. span'.hi = req.from + CHUNK_UNIT
      BY <2>c, <3>1
    <3>3. expected > 0 => n < expected
      BY <1>n, <2>2, <2>4, <2>9
    <3>4. span'.hi = stg2'[recvCount'].from + CHUNK_UNIT
      BY <2>1, <3>2
    <3> QED BY <1>n, <2>1, <2>7, <3>1, <3>3, <3>4 DEF DeliveryInv, Regular
  <2> QED BY <2>8, <2>9
<1>5. CASE Finish \/ Cancel
  <2>1. /\ phase' = "closed"
        /\ UNCHANGED <<recvCount, span, expected, stops, codesAtStop, stg2, lost>>
    BY <1>5 DEF Finish, Cancel, Close
  <2> QED BY <1>0, <1>n, <2>1 DEF DeliveryInv, Regular
<1>6. CASE SendToTalker \/ TalkerStep \/ Harvest \/ UNCHANGED vars
  BY <1>1, <1>6, QuietStep DEF core
<1>7. CASE CollectCode \/ VocoderStep
  BY <1>1, <1>7 DEF CollectCode, VocoderStep
<1> QED BY <1>2, <1>3, <1>4, <1>5, <1>6, <1>7 DEF Next

-----------------------------------------------------------------------------
(* The inductive invariant holds in every state of every turn. *)
THEOREM Invariance == Spec => []IInv
<1>1. Init => IInv
  BY InitIInv
<1>2. IInv /\ [Next]_vars => IInv'
  BY TypeStep, CursorStep, LogStep, DeliveryStep DEF IInv
<1> QED BY <1>1, <1>2, PTL DEF Spec

(* The state of a turn is well typed; in particular the FINAL chunk is     *)
(* never longer than CHUNK_UNIT and never empty.                           *)
THEOREM TypeCorrect == Spec => []TypeOK
<1>1. IInv => TypeOK
  BY DEF IInv
<1> QED BY <1>1, Invariance, PTL

(* worker_2toServer delivers audio without a gap and without repeating a   *)
(* code, for every chunk size and overlap, as long as one stop token is    *)
(* processed and no chunk is lost.                                         *)
THEOREM Gapless == Spec => GaplessDelivery
<1>1. IInv /\ [Next]_vars =>
        [recvCount' # recvCount /\ Regular => span'.lo = span.hi]_vars
  BY DeliveryStep
<1> QED BY <1>1, Invariance, PTL DEF Spec, GaplessDelivery

(* When the turn is declared finished, everything that was buffered at the *)
(* stop token has been delivered, and nothing of the padding.              *)
THEOREM Complete == Spec => []CompleteAtFinish
<1>1. IInv => CompleteAtFinish
  BY DEF IInv, DeliveryInv, CompleteAtFinish
<1> QED BY <1>1, Invariance, PTL

(* worker_1to2 survives the first stop token: its padding is never         *)
(* negative.                                                               *)
THEOREM Survives == Spec => []ChunkerSurvives
<1>1. IInv => ChunkerSurvives
  BY DEF IInv, StopInv, ChunkerSurvives
<1> QED BY <1>1, Invariance, PTL

(* After one stop token with a non-empty buffer, the chunk expected last   *)
(* is the FINAL one, stage 2 has it, and no other chunk is FINAL.          *)
THEOREM OneFinal == Spec => []OneFinalChunk
<1>1. IInv => OneFinalChunk
  <2> SUFFICES ASSUME IInv, stops = 1, lost = 0, codesAtStop > 0
               PROVE  /\ expected \in 1..Len(stg2)
                      /\ \A i \in 1..Len(stg2) : stg2[i].final <=> i = expected
    BY DEF OneFinalChunk
  <2>1. Regular /\ LogInv /\ expected > 0
    BY DEF IInv, Regular, StopInv
  <2>2. expected \in Nat \cup {-1} /\ Len(stg2) \in Nat
    BY LogTypes DEF IInv, TypeOK
  <2>3. /\ expected <= Len(stg2)
        /\ \A i \in 1..Len(stg2) : stg2[i].final <=> i = expected
    BY <2>1 DEF LogInv
  <2>4. expected \in 1..Len(stg2)
    BY <2>1, <2>2, <2>3
  <2> QED BY <2>3, <2>4
<1> QED BY <1>1, Invariance, PTL

-----------------------------------------------------------------------------
(* Only the prefill has no code, and nothing overtakes it. *)
OrderInv ==
  /\ \A i \in 1..Len(q1) : q1[i].codes = 0 => i = 1 /\ total = 0
  /\ \A i \in 1..Len(out1) :
       out1[i].codes = 0 => i = 1 /\ q1 = <<>> /\ total = 0
  /\ \A i \in 1..Len(stg1) :
       stg1[i] = 0 => i = 1 /\ out1 = <<>> /\ q1 = <<>> /\ total = 0
  /\ sent1 = 0 => stg1 = <<>> /\ out1 = <<>> /\ q1 = <<>> /\ total = 0

(* A chunk renders codes that are buffered; the ones before the FINAL one  *)
(* do not reach the last code of the turn.                                 *)
SupplyInv ==
  Regular =>
    /\ codesAtStop <= total
    /\ \A i \in 1..Len(stg2) :
         ~stg2[i].final => stg2[i].from + CHUNK_UNIT <= total
    /\ \A i \in 1..Len(stg2) :
         i < expected => stg2[i].from + CHUNK_UNIT < codesAtStop

RInv == IInv /\ OrderInv /\ SupplyInv

-----------------------------------------------------------------------------
(* The queues between stage 1 and worker_1to2 keep their order. *)
LEMMA OrderStep ==
  ASSUME TypeOK, OrderInv, [Next]_vars
  PROVE  OrderInv'
<1> USE DEF talker, chunker, vocoder, speaker
<1>n. /\ stg1 \in Seq(Nat) /\ out1 \in Seq(Answers) /\ q1 \in Seq(Answers)
      /\ sent1 \in Nat /\ total \in Nat
  BY DEF TypeOK
<1>1. CASE UNCHANGED <<sent1, stg1, out1, q1, total>>
  BY <1>1 DEF OrderInv
<1>2. CASE SendToTalker
  <2>1. /\ stg1' = Append(stg1, sent1) /\ sent1' = sent1 + 1
        /\ UNCHANGED <<out1, q1, total>>
    BY <1>2 DEF SendToTalker
  <2>2. ASSUME NEW i \in 1..Len(stg1'), stg1'[i] = 0
        PROVE  i = 1 /\ out1 = <<>> /\ q1 = <<>> /\ total = 0
    <3>1. CASE i = Len(stg1) + 1
      BY <1>n, <2>1, <2>2, <3>1 DEF OrderInv
    <3>2. CASE i \in 1..Len(stg1)
      <4>1. stg1[i] = 0
        BY <1>n, <2>1, <2>2, <3>2
      <4> QED BY <3>2, <4>1 DEF OrderInv
    <3> QED BY <1>n, <2>1, <3>1, <3>2
  <2> QED BY <1>n, <2>1, <2>2 DEF OrderInv
<1>3. CASE TalkerStep
  <2>1. PICK stop \in BOOLEAN : out1' = Append(out1, Answer(Head(stg1), stop))
    BY <1>3 DEF TalkerStep
  <2>2. /\ stg1 # <<>> /\ stg1' = Tail(stg1)
        /\ UNCHANGED <<sent1, q1, total>>
    BY <1>3 DEF TalkerStep
  <2>3. /\ Len(stg1) >= 1 /\ Head(stg1) = stg1[1]
        /\ Len(stg1') = Len(stg1) - 1
        /\ \A i \in 1..Len(stg1') : i + 1 \in 1..Len(stg1) /\ stg1'[i] = stg1[i+1]
    BY <1>n, <2>2
  <2>4. ASSUME NEW i \in 1..Len(stg1') PROVE stg1'[i] # 0
    <3>1. i + 1 \in 1..Len(stg1) /\ stg1'[i] = stg1[i+1] /\ i + 1 # 1
      BY <2>3
    <3>2. stg1[i+1] # 0
      BY <3>1 DEF OrderInv
    <3> QED BY <3>1, <3>2
  <2>5. Answer(Head(stg1), stop).codes = 0 => stg1[1] = 0
    BY <2>3 DEF Answer
  <2>6. ASSUME NEW i \in 1..Len(out1'), out1'[i].codes = 0
        PROVE  i = 1 /\ q1 = <<>> /\ total = 0
    <3>1. CASE i = Len(out1) + 1
      <4>1. out1'[i] = Answer(Head(stg1), stop)
        BY <1>n, <2>1, <3>1
      <4>2. stg1[1] = 0
        BY <2>5, <2>6, <4>1
      <4>3. out1 = <<>> /\ q1 = <<>> /\ total = 0
        BY <1>n, <2>3, <4>2 DEF OrderInv
      <4> QED BY <3>1, <4>3
    <3>2. CASE i \in 1..Len(out1)
      <4>1. out1'[i] = out1[i]
        BY <1>n, <2>1, <3>2
      <4> QED BY <2>6, <3>2, <4>1 DEF OrderInv
    <3>3. Len(out1') = Len(out1) + 1 /\ Len(out1) \in Nat
      BY <1>n, <2>1
    <3> QED BY <3>1, <3>2, <3>3
  <2>7. sent1 # 0
    BY <2>2 DEF OrderInv
  <2> QED BY <2>2, <2>4, <2>6, <2>7 DEF OrderInv
<1>4. CASE Harvest
  <2>1. /\ out1 # <<>> /\ out1' = Tail(out1)
        /\ UNCHANGED <<sent1, stg1, total>>
        /\ q1' = q1 \/ q1' = Append(q1, Head(out1))
    BY <1>4 DEF Harvest
  <2>2. /\ Len(out1) >= 1 /\ Head(out1) = out1[1]
        /\ Len(out1') = Len(out1) - 1
        /\ \A i \in 1..Len(out1') : i + 1 \in 1..Len(out1) /\ out1'[i] = out1[i+1]
    BY <1>n, <2>1
  <2>3. ASSUME NEW i \in 1..Len(out1') PROVE out1'[i].codes # 0
    <3>1. i + 1 \in 1..Len(out1) /\ out1'[i] = out1[i+1] /\ i + 1 # 1
      BY <2>2
    <3>2. out1[i+1].codes # 0
      BY <3>1 DEF OrderInv
    <3> QED BY <3>1, <3>2
  <2>4. \A i \in 1..Len(stg1) : stg1[i] # 0
    BY <2>1 DEF OrderInv
  <2>5. ASSUME NEW i \in 1..Len(q1'), q1'[i].codes = 0
        PROVE  i = 1 /\ total = 0
    <3>1. CASE q1' = q1
      BY <2>5, <3>1 DEF OrderInv
    <3>2. CASE q1' = Append(q1, Head(out1)) /\ i = Len(q1) + 1
      <4>1. q1'[i] = out1[1]
        BY <1>n, <2>2, <3>2
      <4>2. q1 = <<>> /\ total = 0
        BY <1>n, <2>2, <2>5, <4>1 DEF OrderInv
      <4> QED BY <3>2, <4>2
    <3>3. CASE q1' = Append(q1, Head(out1)) /\ i \in 1..Len(q1)
      <4>1. q1'[i] = q1[i]
        BY <1>n, <3>3
      <4> QED BY <2>5, <3>3, <4>1 DEF OrderInv
    <3>4. q1' = Append(q1, Head(out1)) => Len(q1') = Len(q1) + 1 /\ Len(q1) \in Nat
      BY <1>n
    <3> QED BY <2>1, <3>1, <3>2, <3>3, <3>4
  <2>6. sent1 # 0
    BY <2>1 DEF OrderInv
  <2> QED BY <2>1, <2>3, <2>4, <2>5, <2>6 DEF OrderInv
<1>5. CASE CollectCode \/ SendChunk \/ StopToken
  <2>1. /\ q1 # <<>> /\ q1' = Tail(q1)
        /\ UNCHANGED <<sent1, out1>>
    BY <1>5, Zenon DEF CollectCode, SendChunk, StopToken, TakeAnswer, FlushTalker
  <2>2. \A i \in 1..Len(q1') : i + 1 \in 1..Len(q1) /\ q1'[i] = q1[i+1]
    BY <1>n, <2>1
  <2>3. ASSUME NEW i \in 1..Len(q1') PROVE q1'[i].codes # 0
    <3>1. i + 1 \in 1..Len(q1) /\ q1'[i] = q1[i+1] /\ i + 1 # 1
      BY <2>2
    <3>2. q1[i+1].codes # 0
      BY <3>1 DEF OrderInv
    <3> QED BY <3>1, <3>2
  <2>4. /\ \A i \in 1..Len(out1) : out1[i].codes # 0
        /\ \A i \in 1..Len(stg1) : stg1[i] # 0
        /\ sent1 # 0
    BY <2>1 DEF OrderInv
  <2>5. \A i \in 1..Len(stg1') : i \in 1..Len(stg1) /\ stg1'[i] = stg1[i]
    <3>1. CASE UNCHANGED stg1
      BY <3>1
    <3>2. CASE StopToken
      <4>1. PICK kept \in 0..Len(stg1) : stg1' = SubSeq(stg1, 1, kept)
        BY <3>2 DEF StopToken, FlushTalker
      <4>2. kept \in Nat /\ Len(stg1) \in Nat /\ kept <= Len(stg1)
        BY <1>n, <4>1
      <4>3. Len(stg1') = kept /\ \A i \in 1..kept : stg1'[i] = stg1[i]
        BY <1>n, <4>1, <4>2
      <4> QED BY <4>2, <4>3
    <3> QED BY <1>5, <3>1, <3>2, Zenon DEF CollectCode, SendChunk
  <2> QED BY <2>1, <2>3, <2>4, <2>5 DEF OrderInv
<1>6. CASE VocoderStep \/ Worker2toServer \/ Finish \/ Cancel \/ UNCHANGED vars
  BY <1>1, <1>6 DEF VocoderStep, Worker2toServer, Finish, Cancel, Close, vars
<1> QED BY <1>2, <1>3, <1>4, <1>5, <1>6 DEF Next

(* The buffer only grows, and the answer that brings the stop token brings *)
(* a code unless it is the prefill, when no chunk has been sent yet.       *)
LEMMA SupplyStep ==
  ASSUME IInv, OrderInv, SupplyInv, [Next]_vars
  PROVE  SupplyInv'
<1> USE ChunkAssumption DEF talker, chunker, vocoder, speaker
<1>0. TypeOK /\ CursorInv /\ StopInv /\ LogInv
  BY DEF IInv
<1>n. /\ stops \in Nat /\ expected \in Nat \cup {-1} /\ codesAtStop \in Nat
      /\ lost \in Nat /\ Len(stg2) \in Nat /\ total \in Nat /\ sentIdx \in Nat
      /\ sentCount \in Nat
      /\ \A i \in 1..Len(stg2) : stg2[i].from \in Nat
  BY <1>0, LogTypes DEF TypeOK
<1>1. CASE UNCHANGED <<total, expected, stops, codesAtStop, stg2, lost>>
  BY <1>1 DEF SupplyInv, Regular
<1>2. CASE CollectCode
  <2>1. /\ total' \in Nat /\ total <= total'
        /\ UNCHANGED <<expected, stops, codesAtStop, stg2, lost>>
    BY <1>0, <1>2, TakeAnswerFacts DEF CollectCode
  <2> QED BY <1>n, <2>1 DEF SupplyInv, Regular
<1>3. CASE SendChunk
  <2>1. /\ total' \in Nat /\ total <= total' /\ total' = Buffered
        /\ Waiting = Buffered - sentIdx
        /\ Waiting >= CHUNK_UNIT
        /\ UNCHANGED <<expected, stops, codesAtStop>>
    BY <1>0, <1>3, TakeAnswerFacts DEF SendChunk, ChunkReady
  <2>2. SendToVocoder(sentIdx, CHUNK_UNIT, FALSE)
    BY <1>3, Zenon DEF SendChunk
  <2>r. CHUNK_UNIT \in 1..CHUNK_UNIT
    OBVIOUS
  <2> SUFFICES ASSUME Regular' PROVE SupplyInv'
    BY DEF SupplyInv
  <2>3. lost' = 0
    BY DEF Regular
  <2>4. /\ \A i \in 1..Len(stg2) : stg2'[i] = stg2[i]
        /\ lost = 0
        /\ Len(stg2') = Len(stg2) + 1
        /\ stg2'[Len(stg2) + 1].from = sentIdx
    BY <1>0, <1>n, <2>2, <2>r, <2>3, SendFacts, Zenon
  <2>5. Regular
    BY <2>1, <2>4 DEF Regular
  <2>6. sentIdx + CHUNK_UNIT <= total'
    BY <1>n, <2>1
  <2>7. ASSUME NEW i \in 1..Len(stg2'), ~stg2'[i].final
        PROVE  stg2'[i].from + CHUNK_UNIT <= total'
    <3>1. CASE i = Len(stg2) + 1
      BY <2>4, <2>6, <3>1
    <3>2. CASE i \in 1..Len(stg2)
      <4>1. stg2[i].from + CHUNK_UNIT <= total /\ stg2[i].from \in Nat
        BY <1>n, <2>4, <2>5, <2>7, <3>2 DEF SupplyInv
      <4> QED BY <1>n, <2>1, <2>4, <3>2, <4>1
    <3> QED BY <1>n, <2>4, <3>1, <3>2
  <2>8. ASSUME NEW i \in 1..Len(stg2'), i < expected
        PROVE  stg2'[i].from + CHUNK_UNIT < codesAtStop
    <3>1. expected <= Len(stg2)
      BY <1>0, <2>5 DEF LogInv
    <3>2. i \in 1..Len(stg2)
      BY <1>n, <2>4, <2>8, <3>1
    <3> QED BY <2>4, <2>5, <2>8, <3>2 DEF SupplyInv
  <2>9. codesAtStop <= total'
    BY <1>n, <2>1, <2>5 DEF SupplyInv
  <2> QED BY <2>1, <2>7, <2>8, <2>9 DEF SupplyInv
<1>4. CASE StopToken
  <2>1. /\ total' = Buffered /\ Buffered \in Nat /\ total <= Buffered
        /\ Waiting = Buffered - sentIdx /\ Waiting \in Int
    BY <1>0, <1>4, TakeAnswerFacts DEF StopToken
  <2>2. stops' = stops + 1 /\ codesAtStop' = IF stops = 0 THEN Buffered ELSE codesAtStop
    BY <1>4 DEF StopToken
  <2> SUFFICES ASSUME Regular' PROVE SupplyInv'
    BY DEF SupplyInv
  <2>3. stops = 0 /\ lost' = 0 /\ codesAtStop' = Buffered
    BY <1>n, <2>2 DEF Regular
  <2>4. expected = -1
    BY <1>0, <2>3 DEF StopInv
  <2>5. total > 0 => total < Buffered
    <3>1. q1 # <<>> /\ q1 \in Seq(Answers)
      BY <1>0, <1>4 DEF StopToken, TakeAnswer, TypeOK
    <3>2. 1 \in 1..Len(q1) /\ Head(q1) = q1[1] /\ Head(q1) \in Answers
      BY <3>1, HeadTailProperties
    <3>3. Head(q1).codes \in {0, 1}
      BY <3>2 DEF Answers
    <3>4. total > 0 => Head(q1).codes # 0
      BY <1>n, <3>2 DEF OrderInv
    <3> QED BY <1>n, <3>3, <3>4 DEF Buffered
  <2>6. /\ Len(stg2') \in Nat /\ Len(stg2) <= Len(stg2')
        /\ \A i \in 1..Len(stg2) : stg2'[i] = stg2[i]
        /\ lost = 0
        /\ \/ Len(stg2') = Len(stg2)
           \/ /\ Len(stg2') = Len(stg2) + 1
              /\ stg2'[Len(stg2) + 1].final = TRUE
        /\ expected' = -1 \/ expected' = sentCount + 1
    <3>1. CASE UNCHANGED <<expected, stg2, lost>>
      BY <1>n, <2>3, <2>4, <3>1
    <3>2. CASE /\ Waiting > 0
               /\ Waiting <= CHUNK_UNIT
               /\ SendToVocoder(sentIdx, Waiting, TRUE)
               /\ expected' = sentCount'
      <4>1. Waiting \in 1..CHUNK_UNIT
        BY <2>1, <3>2
      <4>2. SendToVocoder(sentIdx, Waiting, TRUE)
        BY <3>2, Zenon
      <4>3. /\ sentCount' = sentCount + 1
            /\ \A i \in 1..Len(stg2) : stg2'[i] = stg2[i]
            /\ lost = 0
            /\ Len(stg2') = Len(stg2) + 1
            /\ stg2'[Len(stg2) + 1].final = TRUE
        BY <1>0, <1>n, <2>3, <4>1, <4>2, SendFacts, Zenon
      <4> QED BY <1>n, <3>2, <4>3
    <3>3. CASE Buffered > 0 /\ ~(Waiting > 0)
      BY <1>0, <1>n, <2>1, <2>3, <2>4, <3>3 DEF CursorInv
    <3> QED BY <1>4, <3>1, <3>2, <3>3, Zenon DEF StopToken
  <2>7. Regular
    BY <2>3, <2>6 DEF Regular
  <2>8. ASSUME NEW i \in 1..Len(stg2)
        PROVE  stg2'[i].from + CHUNK_UNIT < Buffered
    <3>1. ~stg2[i].final
      BY <1>0, <1>n, <2>4, <2>7 DEF LogInv
    <3>2. stg2[i].from + CHUNK_UNIT <= total /\ stg2[i].from \in Nat
      BY <1>n, <2>7, <3>1 DEF SupplyInv
    <3> QED BY <1>n, <2>1, <2>5, <2>6, <3>2
  <2>9. ASSUME NEW i \in 1..Len(stg2'), ~stg2'[i].final
        PROVE  i \in 1..Len(stg2)
    BY <1>n, <2>6, <2>9
  <2>10. ASSUME NEW i \in 1..Len(stg2'), i < expected'
         PROVE  i \in 1..Len(stg2)
    <3>1. sentCount = Len(stg2)
      BY <1>0, <2>7 DEF LogInv
    <3> QED BY <1>n, <2>6, <2>10, <3>1
  <2>11. ASSUME NEW i \in 1..Len(stg2'), ~stg2'[i].final
         PROVE  stg2'[i].from + CHUNK_UNIT <= total'
    <3>1. i \in 1..Len(stg2)
      BY <2>9, <2>11
    <3>2. stg2'[i].from + CHUNK_UNIT < Buffered /\ stg2'[i].from \in Nat
      BY <1>n, <2>6, <2>8, <3>1
    <3> QED BY <2>1, <3>2
  <2>12. codesAtStop' <= total'
    BY <2>1, <2>3
  <2> QED BY <2>3, <2>8, <2>10, <2>11, <2>12 DEF SupplyInv
<1>5. CASE SendToTalker \/ TalkerStep \/ Harvest \/ UNCHANGED vars
  BY <1>1, <1>5 DEF SendToTalker, TalkerStep, Harvest, vars
<1>6. CASE VocoderStep \/ Worker2toServer \/ Finish \/ Cancel
  BY <1>1, <1>6 DEF VocoderStep, Worker2toServer, Finish, Cancel, Close
<1> QED BY <1>2, <1>3, <1>4, <1>5, <1>6 DEF Next

(* What is delivered next lies in the buffer, and reaches the last code    *)
(* exactly when worker_2toServer takes the chunk for the final one.        *)
LEMMA HearStep ==
  ASSUME IInv, SupplyInv, Regular, Worker2toServer
  PROVE  /\ span'.lo <= span'.hi
         /\ span'.hi <= total
         /\ phase' = "final" <=> stops # 0 /\ span'.hi = codesAtStop
         /\ phase' \in {"running", "final"}
<1> USE ChunkAssumption
<1> DEFINE n == recvCount + 1
           req == stg2[n]
<1>0. TypeOK /\ StopInv /\ QueueInv /\ LogInv /\ DeliveryInv
  BY DEF IInv
<1>n. /\ stops \in Nat /\ expected \in Nat \cup {-1} /\ codesAtStop \in Nat
      /\ lastLen \in Nat /\ Len(stg2) \in Nat /\ total \in Nat
      /\ recvCount \in Nat /\ answered \in Nat
      /\ \A i \in 1..Len(stg2) : stg2[i].from \in Nat
  BY <1>0, LogTypes DEF TypeOK
<1>1. /\ span' = CleanAudio(req, n)
      /\ phase' = IF IsFinalChunk(n) THEN "final" ELSE "running"
      /\ phase = "running"
      /\ recvCount < answered
  BY DEF Worker2toServer
<1>2. n \in 1..Len(stg2) /\ n \in Nat
  BY <1>0, <1>n, <1>1 DEF QueueInv
<1>3. req.from \in Nat
  BY <1>n, <1>2
<1>4. /\ expected > 0 => n <= expected /\ stops = 1
      /\ expected <= Len(stg2)
  <2>1. /\ expected > 0 => recvCount < expected
        /\ expected <= Len(stg2)
    BY <1>0, <1>1 DEF DeliveryInv, LogInv
  <2>2. stops <= 1 /\ (expected > 0 => stops # 0)
    BY <1>0 DEF Regular, StopInv
  <2> QED BY <1>n, <2>1, <2>2
<1>5. IsFinalChunk(n) <=> n = expected
  BY <1>0, <1>n, <1>2, <1>4 DEF IsFinalChunk, StopInv
<1>6. req.final <=> n = expected
  BY <1>0, <1>2 DEF LogInv
<1>7. /\ n <= 1 => span'.lo = req.from
      /\ n > 1 => span'.lo = req.from + OVERLAP_SIZE
      /\ ~req.final => span'.hi = req.from + CHUNK_UNIT
      /\ /\ req.final
         /\ lastLen <= CHUNK_UNIT
         /\ n > 1 => OVERLAP_SIZE <= lastLen
         => span'.hi = req.from + lastLen
  <2> HIDE DEF req, n
  <2> QED BY <1>n, <1>1, <1>2, <1>3, CleanAudioFacts
<1>8. CASE n = expected
  <2>1. /\ codesAtStop = req.from + lastLen
        /\ lastLen \in 1..CHUNK_UNIT
        /\ n > 1 => OVERLAP_SIZE <= lastLen
    BY <1>0, <1>n, <1>8, <1>2 DEF LogInv
  <2>2. span'.hi = codesAtStop
    BY <1>6, <1>7, <1>8, <2>1
  <2>3. codesAtStop <= total
    BY DEF SupplyInv
  <2>4. phase' = "final" /\ stops # 0
    BY <1>1, <1>2, <1>4, <1>5, <1>8
  <2>5. span'.lo <= req.from + lastLen
    BY <1>2, <1>3, <1>7, <2>1
  <2> QED BY <2>1, <2>2, <2>3, <2>4, <2>5
<1>9. CASE n # expected
  <2>1. phase' = "running" /\ span'.hi = req.from + CHUNK_UNIT
    BY <1>1, <1>5, <1>6, <1>7, <1>9
  <2>2. req.from + CHUNK_UNIT <= total
    BY <1>2, <1>6, <1>9 DEF SupplyInv
  <2>3. span'.lo <= req.from + CHUNK_UNIT
    BY <1>2, <1>3, <1>7
  <2>4. stops # 0 => span'.hi # codesAtStop
    <3>1. CASE expected > 0
      <4>1. n < expected
        BY <1>n, <1>2, <1>4, <1>9, <3>1
      <4>2. req.from + CHUNK_UNIT < codesAtStop
        BY <1>2, <4>1 DEF SupplyInv
      <4> QED BY <1>n, <1>3, <2>1, <4>2
    <3>2. CASE ~(expected > 0)
      <4>1. stops # 0 => codesAtStop = 0
        BY <1>0, <1>n, <3>2 DEF StopInv, Regular
      <4> QED BY <1>3, <2>1, <4>1
    <3> QED BY <3>1, <3>2
  <2> QED BY <2>1, <2>2, <2>3, <2>4
<1> QED BY <1>8, <1>9

(* Every step of a turn is a step of the stream, or leaves it alone. *)
LEMMA StreamStep ==
  ASSUME RInv, [Next]_vars
  PROVE  [Stream!Next]_(Stream!vars)
<1> USE DEF talker, chunker, vocoder, speaker
<1> DEFINE end == IF stops = 0 THEN -1 ELSE codesAtStop
<1>0. IInv /\ TypeOK /\ SupplyInv
  BY DEF RInv, IInv
<1>n. /\ stops \in Nat /\ lost \in Nat /\ total \in Nat
      /\ stg2 \in Seq(Chunk) /\ sentIdx \in Nat /\ codesAtStop \in Nat
  BY <1>0 DEF TypeOK
<1>1. CASE UNCHANGED <<total, stops, codesAtStop, span, phase, lost>>
  BY <1>1 DEF Stream!vars, Regular
<1>2. CASE CollectCode \/ SendChunk \/ StopToken
  <2>1. total' \in Nat /\ total <= total' /\ UNCHANGED <<span, phase>>
    <3>1. TakeAnswer /\ UNCHANGED <<span, phase>>
      BY <1>2, Zenon DEF CollectCode, SendChunk, StopToken
    <3> QED BY <1>0, <3>1, TakeAnswerFacts
  <2>2. end' = end \/ (end = -1 /\ end' = total')
    <3>1. CASE CollectCode \/ SendChunk
      BY <3>1, Zenon DEF CollectCode, SendChunk
    <3>2. CASE StopToken
      <4>1. /\ stops' = stops + 1
            /\ codesAtStop' = IF stops = 0 THEN Buffered ELSE codesAtStop
            /\ total' = Buffered
        BY <3>2 DEF StopToken, TakeAnswer
      <4>2. stops' # 0
        BY <1>n, <4>1
      <4> QED BY <4>1, <4>2
    <3> QED BY <1>2, <3>1, <3>2
  <2>3. stops' = stops \/ stops' = stops + 1
    BY <1>2, Zenon DEF CollectCode, SendChunk, StopToken
  <2>4. lost' = lost \/ lost' = lost + 1
    BY <1>2 DEF CollectCode, SendChunk, StopToken, SendToVocoder
  <2>5. Regular' => Regular
    BY <1>n, <2>3, <2>4 DEF Regular
  <2>6. CASE Regular'
    <3>1. Stream!Speak
      <4>1. Regular' = Regular
        BY <2>5, <2>6 DEF Regular
      <4> QED BY <2>1, <2>2, <4>1 DEF Stream!Speak
    <3> QED BY <3>1 DEF Stream!Next
  <2>7. CASE ~Regular'
    BY <2>7 DEF Stream!Next, Stream!Spoil
  <2> QED BY <2>6, <2>7
<1>3. CASE Worker2toServer
  <2>1. UNCHANGED <<total, stops, codesAtStop, lost>> /\ phase = "running"
    BY <1>3 DEF Worker2toServer
  <2>2. Regular' = Regular /\ end' = end
    BY <2>1 DEF Regular
  <2>3. CASE Regular
    <3>1. /\ span'.lo <= span'.hi
          /\ span'.hi <= total
          /\ phase' = "final" <=> stops # 0 /\ span'.hi = codesAtStop
          /\ phase' \in {"running", "final"}
      BY <1>0, <1>3, <2>3, HearStep
    <3>2. span'.lo = span.hi
      <4>1. recvCount' # recvCount
        BY <1>0, <1>3 DEF Worker2toServer, TypeOK
      <4> QED BY <1>0, <2>3, <4>1, DeliveryStep
    <3>3. span'.hi = end <=> stops # 0 /\ span'.hi = codesAtStop
      <4>1. span'.hi # -1
        BY <1>0, TypeStep DEF TypeOK
      <4> QED BY <4>1
    <3>4. phase' = IF span'.hi = end THEN "final" ELSE "running"
      BY <3>1, <3>3
    <3> HIDE DEF end
    <3>5. Stream!Hear
      BY <2>1, <2>2, <2>3, <3>1, <3>2, <3>4 DEF Stream!Hear, end
    <3> QED BY <3>5 DEF Stream!Next
  <2>4. CASE ~Regular
    BY <2>2, <2>4 DEF Stream!Next, Stream!Spoil
  <2> QED BY <2>3, <2>4
<1>4. CASE Finish \/ Cancel
  <2>1. /\ phase' = "closed"
        /\ UNCHANGED <<total, stops, codesAtStop, span, lost>>
    BY <1>4 DEF Finish, Cancel, Close
  <2>2. Stream!Close
    BY <2>1 DEF Stream!Close, Regular
  <2> QED BY <2>2 DEF Stream!Next
<1>5. CASE SendToTalker \/ TalkerStep \/ Harvest \/ VocoderStep \/ UNCHANGED vars
  BY <1>1, <1>5 DEF SendToTalker, TalkerStep, Harvest, VocoderStep, vars
<1> QED BY <1>2, <1>3, <1>4, <1>5 DEF Next

-----------------------------------------------------------------------------
(* Nothing is buffered or in any queue when the turn starts. *)
LEMMA InitRInv == Init => RInv
<1> SUFFICES ASSUME Init PROVE RInv
  OBVIOUS
<1>1. IInv
  BY InitIInv
<1>2. OrderInv /\ SupplyInv
  BY DEF Init, OrderInv, SupplyInv
<1> QED BY <1>1, <1>2 DEF RInv

(* The two facts that the refinement needs hold beside the invariant. *)
LEMMA RInvariance == Spec => []RInv
<1>1. RInv /\ [Next]_vars => RInv'
  <2> SUFFICES ASSUME RInv, [Next]_vars PROVE RInv'
    OBVIOUS
  <2>1. IInv /\ OrderInv /\ SupplyInv /\ TypeOK
    BY DEF RInv, IInv
  <2>2. IInv'
    BY <2>1, TypeStep, CursorStep, LogStep, DeliveryStep DEF IInv
  <2>3. OrderInv'
    BY <2>1, OrderStep
  <2>4. SupplyInv'
    BY <2>1, SupplyStep
  <2> QED BY <2>2, <2>3, <2>4 DEF RInv
<1> QED BY <1>1, InitRInv, PTL DEF Spec

(* A turn of generate_realtime_final implements the stream its listener is *)
(* promised: pieces that follow each other, of codes that were spoken, and *)
(* the end exactly with the last code, for every chunk size and overlap.   *)
THEOREM Refinement == Spec => StreamImplemented
<1>1. Init => Stream!Init
  BY DEF Init, Stream!Init, Regular
<1>2. RInv /\ [Next]_vars => [Stream!Next]_(Stream!vars)
  BY StreamStep
<1> QED BY <1>1, <1>2, RInvariance, PTL DEF Spec, StreamImplemented, Stream!Spec

-----------------------------------------------------------------------------
(* A quotient rounded up. *)
LEMMA Ceiling ==
  ASSUME NEW n \in Nat, NEW s \in Nat \ {0}, NEW x \in Nat,
         n * s < x, x <= n * s + s
  PROVE  (x + s - 1) \div s = n + 1
<1> DEFINE q == (x + s - 1) \div s
<1>1. q \in Int /\ s * q <= x + s - 1 /\ x + s - 1 < s * q + s
  OBVIOUS
<1> QED BY <1>1

(* Before the stop token the cursor is where the chunks sent have brought  *)
(* it.                                                                     *)
FormulaInv == (stops = 0 => sentIdx = sentCount * Step) /\ ExpectedByFormula

(* The chunk sent at the stop token makes the count what the formula says: *)
(* an answer that comes after a chunk brings a code beyond its overlap.    *)
LEMMA StopFormula ==
  ASSUME RInv, FormulaInv, StopToken, stops = 0, Buffered > 0
  PROVE  ExpectedByFormula'
<1>0. /\ TypeOK /\ CursorInv /\ OrderInv /\ TakeAnswer
      /\ CHUNK_UNIT \in Nat /\ OVERLAP_SIZE \in Nat /\ 0 < OVERLAP_SIZE
      /\ OVERLAP_SIZE < CHUNK_UNIT
  BY ChunkAssumption DEF RInv, IInv, StopToken
<1>n. /\ total \in Nat /\ sentIdx \in Nat /\ sentCount \in Nat
      /\ q1 \in Seq(Answers) /\ q1 # <<>> /\ expected = -1
  BY <1>0 DEF TypeOK, TakeAnswer, RInv, IInv, StopInv
<1>1. /\ Buffered \in Nat /\ Buffered <= total + 1 /\ total <= Buffered
      /\ Waiting = Buffered - sentIdx
  BY <1>0, TakeAnswerFacts
<1>2. total > 0 => Buffered = total + 1
  <2>1. Head(q1) = q1[1] /\ 1 \in 1..Len(q1) /\ q1[1] \in Answers
    BY <1>n
  <2>2. q1[1].codes = 0 => total = 0
    BY <1>0, <2>1 DEF OrderInv
  <2>3. q1[1].codes \in {0, 1}
    BY <2>1 DEF Answers
  <2> QED BY <1>n, <2>1, <2>2, <2>3 DEF Buffered
<1>3. /\ sentIdx = sentCount * Step /\ Step \in Nat \ {0}
      /\ Step = CHUNK_UNIT - OVERLAP_SIZE
  BY <1>0 DEF FormulaInv, Step
<1>4. /\ sentCount = 0 => sentIdx = 0
      /\ sentCount > 0 => sentIdx + OVERLAP_SIZE <= total
      /\ total < sentIdx + CHUNK_UNIT
  BY <1>0, <1>n DEF CursorInv
<1>5. Waiting \in 1..CHUNK_UNIT
  BY <1>0, <1>n, <1>1, <1>4
<1>6. /\ expected' = sentCount + 1 /\ codesAtStop' = Buffered /\ stops' = 1
  BY <1>5, <1>0 DEF StopToken, SendToVocoder
<1>7. CASE sentCount = 0
  <2>1. Buffered <= CHUNK_UNIT /\ expected' = 1
    BY <1>1, <1>4, <1>5, <1>6, <1>7
  <2>2. CASE Buffered <= OVERLAP_SIZE
    BY <2>1, <2>2, <1>6 DEF ExpectedByFormula
  <2>3. CASE ~(Buffered <= OVERLAP_SIZE)
    <3> DEFINE x == Buffered - OVERLAP_SIZE
    <3>1. x \in Nat /\ 0 * Step < x /\ x <= 0 * Step + Step
      BY <2>1, <2>3, <1>0, <1>1, <1>3
    <3>2. (x + Step - 1) \div Step = 0 + 1
      BY <3>1, <1>3, Ceiling
    <3> QED BY <2>1, <2>3, <3>2, <1>3, <1>6 DEF ExpectedByFormula
  <2> QED BY <2>2, <2>3
<1>8. CASE sentCount > 0
  <2> DEFINE x == Buffered - OVERLAP_SIZE
  <2>1. /\ Buffered > OVERLAP_SIZE /\ Buffered > sentIdx + OVERLAP_SIZE
        /\ Buffered <= sentIdx + CHUNK_UNIT
    BY <1>0, <1>n, <1>1, <1>2, <1>4, <1>8
  <2>2. x \in Nat /\ sentIdx < x /\ x <= sentIdx + Step
    BY <2>1, <1>0, <1>n, <1>1, <1>3
  <2>3. (x + Step - 1) \div Step = sentCount + 1
    BY <2>2, <1>n, <1>3, Ceiling
  <2> QED BY <2>1, <2>3, <1>3, <1>6, <1>0, <1>1 DEF ExpectedByFormula
<1> QED BY <1>n, <1>7, <1>8

(* Every step keeps the count in line with the formula. *)
LEMMA FormulaStep ==
  ASSUME RInv, FormulaInv, [Next]_vars
  PROVE  FormulaInv'
<1> USE DEF talker, chunker, vocoder, speaker
<1>n. /\ sentIdx \in Nat /\ sentCount \in Nat /\ stops \in Nat /\ Step \in Nat
      /\ total \in Nat /\ TypeOK
  BY ChunkAssumption DEF RInv, IInv, TypeOK, Step
<1>1. CASE UNCHANGED <<sentIdx, sentCount, stops, expected, codesAtStop>>
  BY <1>1 DEF FormulaInv, ExpectedByFormula, Step
<1>2. CASE SendChunk
  <2>1. /\ sentIdx' = sentIdx + Step /\ sentCount' = sentCount + 1
        /\ UNCHANGED <<stops, expected, codesAtStop>>
    BY <1>2 DEF SendChunk, SendToVocoder
  <2>2. (sentCount + 1) * Step = sentCount * Step + Step
    BY <1>n
  <2> QED BY <2>1, <2>2 DEF FormulaInv, ExpectedByFormula, Step
<1>3. CASE StopToken
  <2>1. /\ stops' = stops + 1 /\ TakeAnswer
        /\ codesAtStop' = IF stops = 0 THEN Buffered ELSE codesAtStop
    BY <1>3 DEF StopToken
  <2>2. stops' # 0 /\ (stops' = 1 <=> stops = 0)
    BY <2>1, <1>n
  <2>3. ExpectedByFormula'
    <3>1. CASE stops = 0 /\ Buffered > 0
      BY <3>1, <1>3, StopFormula
    <3>2. CASE ~(stops = 0 /\ Buffered > 0)
      BY <3>2, <2>1, <2>2 DEF ExpectedByFormula
    <3> QED BY <3>1, <3>2
  <2> QED BY <2>2, <2>3 DEF FormulaInv
<1>4. CASE ~(SendChunk \/ StopToken)
  BY <1>1, <1>4 DEF Next, vars, SendToTalker, TalkerStep, Harvest, CollectCode,
                    VocoderStep, Worker2toServer, Finish, Cancel, Close
<1> QED BY <1>2, <1>3, <1>4

(* worker_2toServer waits for as many chunks as the formula at             *)
(* duplex_engine.py:646 gives, for every chunk size and overlap, also when *)
(* sends are lost.                                                         *)
THEOREM ChunkFormula == Spec => []ExpectedByFormula
<1>1. Init => FormulaInv
  BY ChunkAssumption DEF Init, FormulaInv, ExpectedByFormula, Step
<1>2. RInv /\ FormulaInv /\ [Next]_vars => FormulaInv'
  BY FormulaStep
<1>3. FormulaInv => ExpectedByFormula
  BY DEF FormulaInv
<1> QED BY <1>1, <1>2, <1>3, RInvariance, PTL DEF Spec
=============================================================================
