----------------------------- MODULE TurnAudio -----------------------------
(***************************************************************************)
(* The audio half of one duplex turn, as generate_realtime_final runs it   *)
(* (vllm_omni/entrypoints/lgws/duplex_engine.py).                          *)
(*                                                                         *)
(*   worker_0to1 --> stage 1 (talker) --> harvester --> worker_1to2        *)
(*       --> stage 2 (code2wav) --> worker_2toServer --> consumer          *)
(*                                                                         *)
(* Stage 1 answers each sub-request {turn}_stage_1_k with one audio code   *)
(* (the prefill, k = 0, with none) and may sample the stop token 2150 in   *)
(* any answer, also after it has sampled it once.  worker_1to2 buffers     *)
(* the codes and cuts the buffer into overlapping chunks; worker_2toServer *)
(* cuts the overlap off the audio of each chunk and decides when the turn  *)
(* is over.  Codes are abstracted to their index in the buffer, audio to   *)
(* the interval of codes it renders.                                       *)
(***************************************************************************)
EXTENDS Integers, Sequences

CONSTANTS
  CHUNK_UNIT,     \* codes in one vocoder chunk
  OVERLAP_SIZE,   \* codes a chunk shares with the chunk before it
  MaxRequests,    \* bound: stage-1 sub-requests of the turn
  MaxLost         \* bound: stage-2 sends the connector may lose

ASSUME ChunkAssumption ==
  /\ CHUNK_UNIT \in Nat
  /\ OVERLAP_SIZE \in Nat
  /\ 0 < OVERLAP_SIZE
  /\ OVERLAP_SIZE < CHUNK_UNIT

ASSUME BoundAssumption ==
  /\ MaxRequests \in Nat
  /\ MaxLost \in Nat

VARIABLES
  sent1,        \* chunk_seq: stage-1 sub-requests sent so far
  stg1,         \* sub-requests in stage 1, oldest first
  out1,         \* answers in stage 1's output queue
  routes,       \* stage-1 sub-requests registered in request_states
  q1,           \* answers in stage_queues[1]
  total,        \* codes in stg1_audio_buffer
  sentIdx,      \* stg1_sent_idx
  sentCount,    \* stg2_sent_count
  stg1Finished, \* stg1_is_finished
  lastLen,      \* last_chunk_actual_len
  expected,     \* total_vocoder_expected, -1 until it is set
  alive,        \* worker_1to2 has not died of an exception
  stg2,         \* log of the requests stage 2 was given, in order
  answered,     \* how many of them stage 2 has answered
  recvCount,    \* stg2_recv_count
  span,         \* the codes of the audio delivered last
  phase,        \* running; final: last audio delivered; closed: torn down
  stops,        \* history: stop tokens worker_1to2 has processed
  codesAtStop,  \* history: codes buffered when the first was processed
  lost          \* history: sends to stage 2 that failed

talker == <<sent1, stg1, out1, routes>>
chunker == <<q1, total, sentIdx, sentCount, stg1Finished, lastLen, expected,
             alive, stops, codesAtStop>>
vocoder == <<stg2, answered, lost>>
speaker == <<recvCount, span, phase>>
vars == <<talker, chunker, vocoder, speaker>>

(* Mutant: the cursor jumps over the overlap. *)
StepWholeChunk == CHUNK_UNIT

Step == CHUNK_UNIT - OVERLAP_SIZE

Answer(seq, stop) ==
  [seq |-> seq, codes |-> IF seq = 0 THEN 0 ELSE 1, stop |-> stop]

Init ==
  /\ sent1 = 0 /\ stg1 = <<>> /\ out1 = <<>> /\ routes = {}
  /\ q1 = <<>> /\ total = 0 /\ sentIdx = 0 /\ sentCount = 0
  /\ stg1Finished = FALSE /\ lastLen = CHUNK_UNIT /\ expected = -1
  /\ alive = TRUE
  /\ stg2 = <<>> /\ answered = 0 /\ lost = 0
  /\ recvCount = 0 /\ span = [lo |-> 0, hi |-> 0] /\ phase = "running"
  /\ stops = 0 /\ codesAtStop = 0

-----------------------------------------------------------------------------
(* worker_0to1, process_and_send or the padding burst registers one more   *)
(* stage-1 sub-request and submits it.                                     *)
SendToTalker ==
  /\ phase # "closed"
  /\ sent1 < MaxRequests
  /\ routes' = routes \cup {sent1}
  /\ stg1' = Append(stg1, sent1)
  /\ sent1' = sent1 + 1
  /\ UNCHANGED <<out1, chunker, vocoder, speaker>>

(* Stage 1 answers its oldest sub-request. *)
TalkerStep ==
  /\ stg1 # <<>>
  /\ \E stop \in BOOLEAN : out1' = Append(out1, Answer(Head(stg1), stop))
  /\ stg1' = Tail(stg1)
  /\ UNCHANGED <<sent1, routes, chunker, vocoder, speaker>>

(* stage_harvester hands the answer to the turn, or drops it when the      *)
(* sub-request is no longer in request_states; router_task moves it on.    *)
Harvest ==
  /\ out1 # <<>>
  /\ out1' = Tail(out1)
  /\ q1' = IF Head(out1).seq \in routes THEN Append(q1, Head(out1)) ELSE q1
  /\ UNCHANGED <<sent1, stg1, routes, total, sentIdx, sentCount,
                 stg1Finished, lastLen, expected, alive, stops, codesAtStop,
                 vocoder, speaker>>

-----------------------------------------------------------------------------
(* The codes buffered once the next answer is, and those of them that wait *)
(* to be sent.                                                             *)
Buffered == total + Head(q1).codes

(* Mutant: takes the overlap for codes that need not be sent again. *)
WaitingBeyondOverlap == Buffered - sentIdx - OVERLAP_SIZE

Waiting == Buffered - sentIdx

(* Mutant: one code too many before a chunk is sent. *)
ChunkReadyLate == Waiting > CHUNK_UNIT

ChunkReady == Waiting >= CHUNK_UNIT

(* worker_1to2 takes the next answer and appends its codes to the buffer. *)
TakeAnswer ==
  /\ alive
  /\ phase # "closed"
  /\ q1 # <<>>
  /\ q1' = Tail(q1)
  /\ total' = Buffered

(* Mutant: the FINAL chunk is not counted. *)
SendToVocoderUncounted(from, len, final) ==
  /\ sentCount' = IF final THEN sentCount ELSE sentCount + 1
  /\ stg2' = Append(stg2, [from |-> from, len |-> len, final |-> final])
  /\ lost' = lost

(* try_send_via_connector: its result is not looked at, so a failed send   *)
(* is counted like any other.                                              *)
SendToVocoder(from, len, final) ==
  /\ sentCount' = sentCount + 1
  /\ \/ /\ stg2' = Append(stg2, [from |-> from, len |-> len, final |-> final])
        /\ lost' = lost
     \/ /\ lost < MaxLost
        /\ lost' = lost + 1
        /\ stg2' = stg2

(* Fewer than CHUNK_UNIT codes are waiting: keep collecting. *)
CollectCode ==
  /\ TakeAnswer
  /\ ~Head(q1).stop
  /\ ~ChunkReady
  /\ UNCHANGED <<talker, sentIdx, sentCount, stg1Finished, lastLen, expected,
                 alive, stops, codesAtStop, vocoder, speaker>>

(* A whole chunk is waiting: send it, keep its last OVERLAP_SIZE codes. *)
SendChunk ==
  /\ TakeAnswer
  /\ ~Head(q1).stop
  /\ ChunkReady
  /\ SendToVocoder(sentIdx, CHUNK_UNIT, FALSE)
  /\ sentIdx' = sentIdx + Step
  /\ UNCHANGED <<talker, stg1Finished, lastLen, expected, alive, stops,
                 codesAtStop, answered, speaker>>

(* selective_drain takes the later sub-requests that are still in stage    *)
(* 1's input queue; the ones its engine already holds stay.  Every         *)
(* stage-1 route goes.                                                     *)
FlushTalker ==
  /\ \E kept \in 0..Len(stg1) : stg1' = SubSeq(stg1, 1, kept)
  /\ routes' = {}
  /\ UNCHANGED <<sent1, out1>>

(* The stop token: what has not been sent becomes the padded FINAL chunk.  *)
(* More than CHUNK_UNIT codes give a negative padding, and the exception   *)
(* ends worker_1to2; with an empty buffer nothing is sent or expected.     *)
StopToken ==
  /\ TakeAnswer
  /\ Head(q1).stop
  /\ FlushTalker
  /\ stg1Finished' = TRUE
  /\ stops' = stops + 1
  /\ codesAtStop' = IF stops = 0 THEN Buffered ELSE codesAtStop
  /\ \/ /\ Buffered = 0
        /\ UNCHANGED <<lastLen, sentCount, expected, alive, stg2, lost>>
     \/ /\ Buffered > 0
        /\ Waiting <= CHUNK_UNIT
        /\ lastLen' = Waiting
        /\ IF Waiting > 0
           THEN SendToVocoder(sentIdx, Waiting, TRUE)
           ELSE UNCHANGED <<sentCount, stg2, lost>>
        /\ expected' = sentCount'
        /\ alive' = alive
     \/ /\ Waiting > CHUNK_UNIT
        /\ lastLen' = Waiting
        /\ alive' = FALSE
        /\ UNCHANGED <<sentCount, expected, stg2, lost>>
  /\ UNCHANGED <<sentIdx, answered, speaker>>

-----------------------------------------------------------------------------
(* Stage 2 answers its oldest request: CHUNK_UNIT codes' worth of audio. *)
VocoderStep ==
  /\ answered < Len(stg2)
  /\ answered' = answered + 1
  /\ UNCHANGED <<talker, chunker, stg2, lost, speaker>>

(* Mutant: the padding of a FINAL chunk is not trimmed. *)
CleanAudioPadded(req, nth) ==
  LET cut == IF nth > 1 THEN OVERLAP_SIZE ELSE 0
  IN  [lo |-> req.from + cut, hi |-> req.from + CHUNK_UNIT]

(* The codes whose audio the client gets: a FINAL chunk is trimmed to      *)
(* last_chunk_actual_len as it is now, and every chunk but the first one   *)
(* received loses its first OVERLAP_SIZE codes.                            *)
CleanAudio(req, nth) ==
  LET len == IF req.final /\ lastLen < CHUNK_UNIT THEN lastLen ELSE CHUNK_UNIT
      cut == IF nth > 1 THEN OVERLAP_SIZE ELSE 0
  IN  [lo |-> req.from + cut,
       hi |-> req.from + (IF cut > len THEN cut ELSE len)]

(* Mutant: waits for one chunk more than is expected. *)
IsFinalChunkLate(nth) == stg1Finished /\ expected > 0 /\ nth > expected

IsFinalChunk(nth) == stg1Finished /\ expected > 0 /\ nth >= expected

(* worker_2toServer takes the next answer, trims it, delivers it, and      *)
(* returns once it was the last one expected.                              *)
Worker2toServer ==
  /\ phase = "running"
  /\ recvCount < answered
  /\ recvCount' = recvCount + 1
  /\ span' = CleanAudio(stg2[recvCount'], recvCount')
  /\ phase' = IF IsFinalChunk(recvCount') THEN "final" ELSE "running"
  /\ UNCHANGED <<talker, chunker, vocoder>>

(* The consumer of final_output_q sees the finished stage-2 output, or is  *)
(* cancelled: it cancels the workers and forgets the turn's routes.        *)
Close ==
  /\ phase' = "closed"
  /\ routes' = {}
  /\ UNCHANGED <<sent1, stg1, out1, chunker, vocoder, recvCount, span>>

Finish == phase = "final" /\ Close

Cancel == phase # "closed" /\ Close

Next ==
  \/ SendToTalker
  \/ TalkerStep
  \/ Harvest
  \/ CollectCode
  \/ SendChunk
  \/ StopToken
  \/ VocoderStep
  \/ Worker2toServer
  \/ Finish
  \/ Cancel

(* The event loop runs every ready task, and stage 2 answers what it was   *)
(* given.  Nothing obliges the talker to sample a stop token.              *)
Fairness ==
  /\ WF_vars(VocoderStep)
  /\ WF_vars(Worker2toServer)
  /\ WF_vars(Finish)

Spec == Init /\ [][Next]_vars

FairSpec == Spec /\ Fairness

-----------------------------------------------------------------------------
Answers == [seq : Nat, codes : {0, 1}, stop : BOOLEAN]

Chunk == [from : Nat, len : 1..CHUNK_UNIT, final : BOOLEAN]

(* The type invariant of the turn's state. *)
TypeOK ==
  /\ sent1 \in Nat
  /\ stg1 \in Seq(Nat)
  /\ out1 \in Seq(Answers)
  /\ routes \subseteq Nat
  /\ q1 \in Seq(Answers)
  /\ total \in Nat
  /\ sentIdx \in Nat
  /\ sentCount \in Nat
  /\ stg1Finished \in BOOLEAN
  /\ lastLen \in Nat
  /\ expected \in Nat \cup {-1}
  /\ alive \in BOOLEAN
  /\ stg2 \in Seq(Chunk)
  /\ answered \in Nat
  /\ recvCount \in Nat
  /\ span \in [lo : Nat, hi : Nat]
  /\ phase \in {"running", "final", "closed"}
  /\ stops \in Nat
  /\ codesAtStop \in Nat
  /\ lost \in Nat

(* The turns the delivery promises are about: worker_1to2 has processed at *)
(* most one stop token, and the connector lost no chunk.                   *)
Regular == stops <= 1 /\ lost = 0

(* Audio is delivered gapless and without repetition: what                 *)
(* worker_2toServer delivers begins with the code after the last one       *)
(* delivered before it, whatever answers stage 1 still gives after its     *)
(* stop token.                                                             *)
GaplessDelivery ==
  [][recvCount' # recvCount /\ Regular => span'.lo = span.hi]_vars

(* When worker_2toServer declares the turn finished, the client has been   *)
(* given every code that was buffered when the stop token came, and no     *)
(* padding.                                                                *)
CompleteAtFinish ==
  phase = "final" /\ Regular => span.hi = codesAtStop

(* worker_1to2 is never killed by a negative padding length: at the stop   *)
(* token at most CHUNK_UNIT codes are waiting, although each answer sends  *)
(* at most one chunk.                                                      *)
ChunkerSurvives == stops <= 1 => alive

(* The number of chunks worker_2toServer waits for is the one the formula  *)
(* kept as a comment at duplex_engine.py:646 gives,                        *)
(*   ceil((total - OVERLAP_SIZE) / (CHUNK_UNIT - OVERLAP_SIZE)),           *)
(* or one when no code lies beyond the first overlap.                      *)
ExpectedByFormula ==
  stops = 1 /\ codesAtStop > 0 =>
    expected = IF codesAtStop <= OVERLAP_SIZE THEN 1
               ELSE (codesAtStop - OVERLAP_SIZE + (CHUNK_UNIT - OVERLAP_SIZE) - 1)
                      \div (CHUNK_UNIT - OVERLAP_SIZE)

(* The FINAL chunk is the expected-th request stage 2 is given, the only   *)
(* FINAL one, and it is never missing when codes were buffered.            *)
OneFinalChunk ==
  stops = 1 /\ lost = 0 /\ codesAtStop > 0 =>
    /\ expected \in 1..Len(stg2)
    /\ \A i \in 1..Len(stg2) : stg2[i].final <=> i = expected

(* Once worker_1to2 has set the number of chunks to expect, the turn is    *)
(* torn down, also when stage 1 goes on answering and sampling stop        *)
(* tokens, unless the connector loses a chunk.                             *)
TurnCompletes == expected > 0 ~> phase = "closed" \/ lost > 0

(* The listener's view of the turn. *)
Stream == INSTANCE AudioStream WITH
  made <- total,
  end <- IF stops = 0 THEN -1 ELSE codesAtStop,
  good <- Regular

(* The chunks, their overlap and their trimming, the three queues and the  *)
(* two counters of generate_realtime_final together implement the stream   *)
(* the listener is promised.                                               *)
StreamImplemented == Stream!Spec
=============================================================================
