---------------------------- MODULE SampleClient ----------------------------
(***************************************************************************)
(* The browser client (sample/app.js): who holds the floor, which audio is *)
(* played and which is dropped.  The server is reduced to what module      *)
(* DuplexSession shows of it: the chunks of a turn in order, the           *)
(* end_of_response right before the last one, silence after a barge-in.    *)
(* Both directions of the WebSocket are first in, first out.               *)
(***************************************************************************)
EXTENDS Integers, Sequences

CONSTANTS
  Chunks,       \* audio chunks of a response
  MaxTurns,     \* bound: utterances
  SlowNetwork   \* what the server sent before a barge-in may arrive after
                \* the end of the utterance that caused it

ASSUME ClientAssumption ==
  /\ {Chunks, MaxTurns} \subseteq Nat \ {0}
  /\ SlowNetwork \in BOOLEAN

VARIABLES
  connected,
  isUserSpeaking, isAITurn, isAIProcessing,
  activeSources,  \* chunks scheduled for playback, in order
  stopped,        \* sources stopped by stopAllPlayback, onended still due
  turn,           \* utterances ended so far: the turn the client is in
  up, down,       \* the WebSocket
  serving,        \* the server: [turn, sent], sent = Chunks when idle
  interrupted,    \* history: turns the user interrupted
  dropped         \* history: chunks playAudioChunk returned without playing

floor == <<isUserSpeaking, isAITurn, isAIProcessing>>
playback == <<activeSources, stopped>>
vars == <<connected, floor, playback, turn, up, down, serving, interrupted, dropped>>

Idle(n) == [turn |-> n, sent |-> Chunks]

Init ==
  /\ connected = TRUE
  /\ isUserSpeaking = FALSE /\ isAITurn = FALSE /\ isAIProcessing = FALSE
  /\ activeSources = <<>> /\ stopped = 0
  /\ turn = 0 /\ up = <<>> /\ down = <<>> /\ serving = Idle(0)
  /\ interrupted = {} /\ dropped = {}

stopAllPlayback ==
  /\ stopped' = stopped + Len(activeSources)
  /\ activeSources' = <<>>

handleUserBargeIn ==
  /\ stopAllPlayback
  /\ isAIProcessing' = FALSE /\ isAITurn' = FALSE
  /\ up' = Append(up, "barge_in")
  /\ interrupted' = interrupted \cup {turn}

(* Mutant: speech during a turn is not taken as a barge-in. *)
SpeechIgnored == UNCHANGED <<isAITurn, isAIProcessing, playback, up, interrupted>>

(* What the start of speech does: a barge-in if it is the AI's turn. *)
SpeechStarts ==
  \/ isAITurn /\ handleUserBargeIn
  \/ /\ ~isAITurn
     /\ UNCHANGED <<isAITurn, isAIProcessing, playback, up, interrupted>>

(* onAudioProcess: VAD_WINDOW_SIZE loud frames. *)
StartSpeaking ==
  /\ connected /\ ~isUserSpeaking /\ turn < MaxTurns
  /\ isUserSpeaking' = TRUE
  /\ SpeechStarts
  /\ UNCHANGED <<connected, turn, down, serving, dropped>>

(* onAudioProcess: VAD_SILENCE_TIMEOUT silent frames after speech.  The    *)
(* onended events of stopped sources have long come by then.               *)
EndSpeaking ==
  /\ connected /\ isUserSpeaking /\ stopped = 0
  /\ SlowNetwork \/ (up = <<>> /\ down = <<>>)
  /\ isUserSpeaking' = FALSE
  /\ isAIProcessing' = TRUE /\ isAITurn' = TRUE
  /\ turn' = turn + 1
  /\ up' = Append(up, "end_of_utterance")
  /\ UNCHANGED <<connected, playback, down, serving, interrupted, dropped>>

(* The server takes a message. *)
ServerReceive ==
  /\ up # <<>>
  /\ up' = Tail(up)
  /\ serving' = IF Head(up) = "barge_in" THEN Idle(serving.turn)
                ELSE [turn |-> serving.turn + 1, sent |-> 0]
  /\ UNCHANGED <<connected, floor, playback, turn, down, interrupted, dropped>>

(* queue_generator sends the next chunk; before the last, the end. *)
ServerSend ==
  LET c == [turn |-> serving.turn, chunk |-> serving.sent + 1]
  IN  /\ connected /\ serving.sent < Chunks
      /\ serving' = [serving EXCEPT !.sent = @ + 1]
      /\ down' = IF c.chunk = Chunks
                 THEN down \o <<[c EXCEPT !.chunk = 0], c>> ELSE Append(down, c)
      /\ UNCHANGED <<connected, floor, playback, turn, up, interrupted, dropped>>

(* socket.onmessage for end_of_response, which is chunk 0 here. *)
onEndOfResponse ==
  /\ connected /\ down # <<>> /\ Head(down).chunk = 0
  /\ down' = Tail(down)
  /\ isAIProcessing' = FALSE
  /\ UNCHANGED <<connected, isUserSpeaking, isAITurn, playback, turn, up,
                 serving, interrupted, dropped>>

(* Mutant: chunks are played whoever holds the floor. *)
PlayAlways == TRUE

Playable == isAITurn

(* playAudioChunk.  The second check of the code (the user speaks, and     *)
(* loudly) never drops a chunk: OneSpeaker.                                *)
playAudioChunk ==
  /\ connected /\ down # <<>> /\ Head(down).chunk # 0
  /\ down' = Tail(down)
  /\ \/ /\ Playable
        /\ activeSources' = Append(activeSources, Head(down))
        /\ UNCHANGED dropped
     \/ /\ ~Playable
        /\ dropped' = dropped \cup {Head(down)}
        /\ UNCHANGED activeSources
  /\ UNCHANGED <<connected, floor, stopped, turn, up, serving, interrupted>>

(* Mutant: the end of the last source does not end the turn. *)
TurnOverNever(rest) == FALSE

TurnOver(rest) == ~isAIProcessing /\ rest = <<>>

(* source.onended, of the source that plays or of one that was stopped. *)
onended ==
  /\ \/ /\ activeSources # <<>>
        /\ activeSources' = Tail(activeSources) /\ UNCHANGED stopped
     \/ /\ stopped > 0
        /\ stopped' = stopped - 1 /\ UNCHANGED activeSources
  /\ isAITurn' = (isAITurn /\ ~TurnOver(activeSources'))
  /\ UNCHANGED <<connected, isUserSpeaking, isAIProcessing, turn, up, down,
                 serving, interrupted, dropped>>

(* socket.onclose; the messages on the way are lost. *)
onclose ==
  /\ connected
  /\ connected' = FALSE
  /\ isAIProcessing' = FALSE /\ isAITurn' = FALSE
  /\ stopAllPlayback
  /\ up' = <<>> /\ down' = <<>>
  /\ UNCHANGED <<isUserSpeaking, turn, serving, interrupted, dropped>>

Next ==
  \/ StartSpeaking
  \/ EndSpeaking
  \/ ServerReceive
  \/ ServerSend
  \/ onEndOfResponse
  \/ playAudioChunk
  \/ onended
  \/ onclose

Spec == Init /\ [][Next]_vars

(* Messages arrive, the server answers, playback goes on.  The user is     *)
(* free to stay silent.                                                    *)
FairSpec ==
  /\ Spec
  /\ WF_vars(ServerReceive) /\ WF_vars(ServerSend)
  /\ WF_vars(onEndOfResponse) /\ WF_vars(playAudioChunk) /\ WF_vars(onended)

-----------------------------------------------------------------------------
(* The user and the AI never hold the floor together, so that the check of *)
(* isUserSpeaking in playAudioChunk is never reached with effect.          *)
OneSpeaker == ~(isUserSpeaking /\ isAITurn)

(* What is played belongs to the turn the client is in: the leftovers of a *)
(* turn the user interrupted are dropped, not played into the next one.    *)
OnlyCurrentPlayed ==
  \A i \in 1..Len(activeSources) :
    activeSources[i].turn = turn /\ turn \notin interrupted

(* Chunks are dropped as leftovers after a barge-in, and no others.        *)
DroppedOnlyAfterBargeIn ==
  connected => \A c \in dropped : c.turn \in interrupted

(* The AI gives the floor back: a turn the client waits for ends.          *)
FloorReturned == isAITurn ~> ~isAITurn
=============================================================================
