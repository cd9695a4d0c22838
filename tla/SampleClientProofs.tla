------------------------- MODULE SampleClientProofs -------------------------
(***************************************************************************)
(* Proofs about SampleClient, for every number of chunks and turns: the    *)
(* two speakers never overlap, and, on a network that delivers the         *)
(* leftovers of a turn before the next utterance ends, nothing but the     *)
(* turn the client is in is played.                                        *)
(***************************************************************************)
EXTENDS SampleClient, SequenceTheorems, TLAPS

(* What may be on its way to the server.                                   *)
OnlyEnd == <<"end_of_utterance">>

OnlyBarge == <<"barge_in">>

EndThenBarge == <<"end_of_utterance", "barge_in">>

Words == {"end_of_utterance", "barge_in"}

Chunk == [turn : Nat, chunk : 0..Chunks]

(* At most the end of an utterance and a barge-in after it.                *)
UpInv == up \in {<<>>, OnlyEnd, EndThenBarge, OnlyBarge}

Announced == up = OnlyEnd \/ up = EndThenBarge

(* The server is in the client's turn, or one behind if it has not seen    *)
(* the end of the utterance; then it has nothing left to send.             *)
ServerInv ==
  /\ turn \in Nat /\ serving.turn \in Nat /\ serving.sent \in 0..Chunks
  /\ serving = [turn |-> serving.turn, sent |-> serving.sent]
  /\ connected => turn = IF Announced THEN serving.turn + 1 ELSE serving.turn
  /\ Announced => serving.sent = Chunks /\ down = <<>>
  /\ ~connected => up = <<>> /\ down = <<>>

(* What is on its way to the client is the server's turn; the end of a     *)
(* response is among it only when all of it has been sent.                 *)
DownInv ==
  /\ down \in Seq(Chunk)
  /\ \A i \in 1..Len(down) :
       /\ down[i].turn = serving.turn
       /\ down[i].chunk = 0 => serving.sent = Chunks

(* The floor: the AI holds it only in a turn nobody interrupted, and gives *)
(* it up without a barge-in only when everything has been sent.            *)
FloorInv ==
  /\ isUserSpeaking \in BOOLEAN /\ isAITurn \in BOOLEAN
  /\ isAIProcessing \in BOOLEAN /\ connected \in BOOLEAN
  /\ ~(isUserSpeaking /\ isAITurn)
  /\ \A t \in interrupted : t \in Nat /\ t <= turn
  /\ isAITurn => connected /\ turn \notin interrupted /\ up \in {<<>>, OnlyEnd}
  /\ up = OnlyEnd => isAITurn
  /\ isAITurn /\ ~isAIProcessing => up = <<>> /\ serving.sent = Chunks
  /\ ~isAITurn /\ up = <<>> /\ connected => serving.sent = Chunks

PlayInv ==
  /\ activeSources \in Seq(Chunk)
  /\ activeSources # <<>> => isAITurn
  /\ \A i \in 1..Len(activeSources) : activeSources[i].turn = turn

CInv == UpInv /\ ServerInv /\ DownInv /\ FloorInv /\ PlayInv

-----------------------------------------------------------------------------
(* How the messages of onAudioProcess and handleUserBargeIn queue up, and  *)
(* what the server finds at the head of the queue.                         *)
LEMMA Wire ==
  /\ <<>> # OnlyEnd /\ <<>> # EndThenBarge /\ <<>> # OnlyBarge
  /\ OnlyEnd # EndThenBarge /\ OnlyEnd # OnlyBarge /\ EndThenBarge # OnlyBarge
  /\ Append(<<>>, "end_of_utterance") = OnlyEnd
  /\ Append(<<>>, "barge_in") = OnlyBarge
  /\ Append(OnlyEnd, "barge_in") = EndThenBarge
  /\ Tail(OnlyEnd) = <<>> /\ Tail(OnlyBarge) = <<>> /\ Tail(EndThenBarge) = OnlyBarge
  /\ Head(OnlyEnd) = "end_of_utterance" /\ Head(EndThenBarge) = "end_of_utterance"
  /\ Head(OnlyBarge) = "barge_in"
<1>1. Len(<<>>) = 0 /\ Len(OnlyEnd) = 1 /\ Len(OnlyBarge) = 1 /\ Len(EndThenBarge) = 2
  BY DEF OnlyEnd, OnlyBarge, EndThenBarge
<1>2. /\ OnlyEnd[1] = "end_of_utterance" /\ OnlyBarge[1] = "barge_in"
      /\ EndThenBarge[1] = "end_of_utterance"
  BY DEF OnlyEnd, OnlyBarge, EndThenBarge
<1>3. "end_of_utterance" # "barge_in"
  OBVIOUS
<1>4. /\ <<>> # OnlyEnd /\ <<>> # EndThenBarge /\ <<>> # OnlyBarge
      /\ OnlyEnd # EndThenBarge /\ OnlyEnd # OnlyBarge /\ EndThenBarge # OnlyBarge
  BY <1>1, <1>2, <1>3
<1>5. /\ Append(<<>>, "end_of_utterance") = OnlyEnd
      /\ Append(<<>>, "barge_in") = OnlyBarge
      /\ Append(OnlyEnd, "barge_in") = EndThenBarge
  <2>0. "end_of_utterance" \in Words /\ "barge_in" \in Words
    BY DEF Words
  <2>1. /\ <<>> \in Seq(Words) /\ OnlyEnd \in Seq(Words)
        /\ OnlyBarge \in Seq(Words) /\ EndThenBarge \in Seq(Words)
    BY DEF OnlyEnd, OnlyBarge, EndThenBarge, Words
  <2>2. EndThenBarge[2] = "barge_in"
    BY DEF EndThenBarge
  <2>3. Append(<<>>, "end_of_utterance") = OnlyEnd
    <3>1. /\ Append(<<>>, "end_of_utterance") \in Seq(Words)
          /\ Len(Append(<<>>, "end_of_utterance")) = 1
          /\ Append(<<>>, "end_of_utterance")[1] = "end_of_utterance"
      BY <2>1, <2>0, <1>1, <1>2, AppendProperties, SMT
    <3> QED
      BY <3>1, <2>1, <1>1, <1>2, SeqEqual
  <2>4. Append(<<>>, "barge_in") = OnlyBarge
    <3>1. /\ Append(<<>>, "barge_in") \in Seq(Words)
          /\ Len(Append(<<>>, "barge_in")) = 1
          /\ Append(<<>>, "barge_in")[1] = "barge_in"
      BY <2>1, <2>0, <1>1, <1>2, AppendProperties, SMT
    <3> QED
      BY <3>1, <2>1, <1>1, <1>2, SeqEqual
  <2>5. Append(OnlyEnd, "barge_in") = EndThenBarge
    <3>1. /\ Append(OnlyEnd, "barge_in") \in Seq(Words)
          /\ Len(Append(OnlyEnd, "barge_in")) = 2
          /\ Append(OnlyEnd, "barge_in")[1] = OnlyEnd[1]
          /\ Append(OnlyEnd, "barge_in")[2] = "barge_in"
      <4>1. /\ Append(OnlyEnd, "barge_in") \in Seq(Words)
            /\ Len(Append(OnlyEnd, "barge_in")) = Len(OnlyEnd) + 1
            /\ \A i \in 1..Len(OnlyEnd) : Append(OnlyEnd, "barge_in")[i] = OnlyEnd[i]
            /\ Append(OnlyEnd, "barge_in")[Len(OnlyEnd) + 1] = "barge_in"
        BY <2>0, <2>1, AppendProperties
      <4>2. Len(OnlyEnd) + 1 = 2 /\ 1 \in 1..Len(OnlyEnd)
        BY <1>1
      <4> QED
        BY <4>1, <4>2
    <3> QED
      BY <3>1, <2>1, <2>2, <1>1, <1>2, SeqEqual
  <2> QED
    BY <2>3, <2>4, <2>5
<1>6. Tail(OnlyEnd) = <<>> /\ Tail(OnlyBarge) = <<>> /\ Tail(EndThenBarge) = OnlyBarge
  BY DEF OnlyEnd, OnlyBarge, EndThenBarge
<1>7. /\ Head(OnlyEnd) = "end_of_utterance" /\ Head(EndThenBarge) = "end_of_utterance"
      /\ Head(OnlyBarge) = "barge_in"
  BY DEF OnlyEnd, OnlyBarge, EndThenBarge
<1> QED
  BY <1>4, <1>5, <1>6, <1>7

(* What taking the first message off a queue leaves: socket.onmessage and  *)
(* source.onended.                                                         *)
LEMMA TakeFirst ==
  ASSUME NEW S, NEW q \in Seq(S), q # <<>>
  PROVE  /\ Head(q) \in S /\ Head(q) = q[1] /\ 1 \in 1..Len(q)
         /\ Tail(q) \in Seq(S)
         /\ \A i \in 1..Len(Tail(q)) : i + 1 \in 1..Len(q) /\ Tail(q)[i] = q[i + 1]
  OBVIOUS

(* Whatever the network does, the user and the AI never hold the floor     *)
(* together: the second check of playAudioChunk is never needed.           *)
THEOREM FloorExclusive == Spec => []OneSpeaker
<1>1. Init => OneSpeaker
  BY DEF Init, OneSpeaker
<1>2. OneSpeaker /\ [Next]_vars => OneSpeaker'
  BY Zenon DEF OneSpeaker, Next, vars, floor, StartSpeaking, SpeechStarts,
     handleUserBargeIn, EndSpeaking, ServerReceive, ServerSend,
     onEndOfResponse, playAudioChunk, onended, onclose
<1> QED
  BY <1>1, <1>2, PTL DEF Spec

(* The initial state of the client satisfies the inductive invariant.      *)
LEMMA InitCInv == Init => CInv
<1> SUFFICES ASSUME Init PROVE CInv
  OBVIOUS
<1>1. Chunks \in Nat /\ <<>> \in Seq(Chunk) /\ 1..Len(<<>>) = {}
  BY ClientAssumption
<1>2. /\ up = <<>> /\ down = <<>> /\ activeSources = <<>> /\ ~Announced
      /\ turn = 0 /\ serving.turn = 0 /\ serving.sent = Chunks
      /\ serving = [turn |-> serving.turn, sent |-> serving.sent]
  BY Wire DEF Init, Idle, Announced
<1>3. UpInv /\ ServerInv
  BY <1>1, <1>2 DEF Init, UpInv, ServerInv
<1>4. DownInv /\ PlayInv
  BY <1>1, <1>2 DEF DownInv, PlayInv
<1>5. FloorInv
  BY <1>2, Wire, Zenon DEF Init, FloorInv
<1> QED
  BY <1>3, <1>4, <1>5 DEF CInv

(* The start of speech: a barge-in empties the playback and ends the AI's  *)
(* turn.                                                                   *)
LEMMA StartSpeakingStep == ASSUME CInv, StartSpeaking PROVE CInv'
<1>1. /\ connected /\ connected' = connected /\ turn' = turn /\ down' = down
      /\ serving' = serving /\ isUserSpeaking' = TRUE
  BY DEF StartSpeaking
<1>2. UpInv /\ ServerInv /\ DownInv /\ FloorInv /\ PlayInv
  BY DEF CInv
<1>3. DownInv'
  BY <1>1, <1>2 DEF DownInv
<1>4. CASE isAITurn /\ handleUserBargeIn
  <2>1. /\ activeSources' = <<>> /\ isAIProcessing' = FALSE /\ isAITurn' = FALSE
        /\ up' = Append(up, "barge_in") /\ interrupted' = interrupted \cup {turn}
    BY <1>4 DEF handleUserBargeIn, stopAllPlayback
  <2>2. up = <<>> \/ up = OnlyEnd
    BY <1>2, <1>4 DEF FloorInv
  <2>3. (up = <<>> /\ up' = OnlyBarge) \/ (up = OnlyEnd /\ up' = EndThenBarge)
    BY <2>1, <2>2, Wire
  <2>4. UpInv' /\ up' # <<>> /\ Announced' = Announced
    BY <2>3, Wire DEF UpInv, Announced
  <2>5. ServerInv'
    BY <1>1, <1>2, <2>4 DEF ServerInv
  <2>6. \A t \in interrupted' : t \in Nat /\ t <= turn'
    BY <1>1, <1>2, <2>1 DEF FloorInv, ServerInv
  <2>7. FloorInv'
    BY <1>1, <1>2, <2>1, <2>3, <2>4, <2>6, Wire, Zenon DEF FloorInv
  <2>8. PlayInv'
    BY <2>1, 1..Len(<<>>) = {}, <<>> \in Seq(Chunk) DEF PlayInv
  <2> QED
    BY <1>3, <2>4, <2>5, <2>7, <2>8 DEF CInv
<1>5. CASE ~isAITurn /\ UNCHANGED <<isAITurn, isAIProcessing, playback, up, interrupted>>
  <2>1. /\ activeSources' = activeSources /\ isAIProcessing' = isAIProcessing
        /\ isAITurn' = isAITurn /\ up' = up /\ interrupted' = interrupted
    BY <1>5 DEF playback
  <2>2. UpInv' /\ ServerInv'
    BY <1>1, <1>2, <2>1 DEF UpInv, ServerInv, Announced
  <2>3. FloorInv'
    BY <1>1, <1>2, <1>5, <2>1 DEF FloorInv
  <2>4. PlayInv'
    BY <1>1, <1>2, <2>1 DEF PlayInv
  <2> QED
    BY <1>3, <2>2, <2>3, <2>4 DEF CInv
<1> QED
  BY <1>4, <1>5 DEF StartSpeaking, SpeechStarts

(* The end of an utterance: the network is empty, so the server is idle    *)
(* and the new turn starts with nothing of an old one under way.           *)
LEMMA EndSpeakingStep == ASSUME ~SlowNetwork, CInv, EndSpeaking PROVE CInv'
<1>1. /\ connected /\ isUserSpeaking /\ up = <<>> /\ down = <<>>
      /\ isUserSpeaking' = FALSE /\ isAIProcessing' = TRUE /\ isAITurn' = TRUE
      /\ turn' = turn + 1 /\ connected' = connected /\ down' = down
      /\ activeSources' = activeSources /\ serving' = serving
      /\ interrupted' = interrupted /\ up' = Append(up, "end_of_utterance")
  BY DEF EndSpeaking, playback
<1>2. UpInv /\ ServerInv /\ DownInv /\ FloorInv /\ PlayInv
  BY DEF CInv
<1>3. up' = OnlyEnd /\ Announced' /\ ~Announced
  BY <1>1, Wire DEF Announced
<1>4. ~isAITurn /\ serving.sent = Chunks /\ activeSources = <<>>
  BY <1>1, <1>2 DEF FloorInv, PlayInv
<1>5. UpInv'
  BY <1>3 DEF UpInv
<1>6. ServerInv'
  BY <1>1, <1>2, <1>3, <1>4 DEF ServerInv
<1>7. DownInv'
  BY <1>1, <1>2 DEF DownInv
<1>8. turn' \notin interrupted' /\ \A t \in interrupted' : t \in Nat /\ t <= turn'
  BY <1>1, <1>2 DEF FloorInv, ServerInv
<1>9. FloorInv'
  BY <1>1, <1>2, <1>3, <1>8, Zenon DEF FloorInv
<1>10. PlayInv'
  BY <1>1, <1>4, 1..Len(<<>>) = {}, <<>> \in Seq(Chunk) DEF PlayInv
<1> QED
  BY <1>5, <1>6, <1>7, <1>9, <1>10 DEF CInv

(* The server takes a message: the end of the utterance starts the turn    *)
(* the client is in, a barge-in silences the one it was in.                *)
LEMMA ServerReceiveStep == ASSUME CInv, ServerReceive PROVE CInv'
<1>1. /\ connected' = connected /\ turn' = turn /\ down' = down /\ up # <<>>
      /\ activeSources' = activeSources /\ interrupted' = interrupted
      /\ isUserSpeaking' = isUserSpeaking /\ isAITurn' = isAITurn
      /\ isAIProcessing' = isAIProcessing /\ up' = Tail(up)
  BY DEF ServerReceive, floor, playback
<1>2. UpInv /\ ServerInv /\ DownInv /\ FloorInv /\ PlayInv
  BY DEF CInv
<1>3. connected /\ Chunks \in Nat
  BY <1>1, <1>2, ClientAssumption DEF ServerInv
<1>4. PlayInv'
  BY <1>1, <1>2 DEF PlayInv
<1>5. CASE Announced
  <2>1. /\ up' = <<>> \/ up' = OnlyBarge
        /\ Head(up) = "end_of_utterance" /\ ~Announced'
        /\ up' = <<>> => up = OnlyEnd
    BY <1>1, <1>5, Wire DEF Announced
  <2>2. "end_of_utterance" # "barge_in"
    OBVIOUS
  <2>3. serving' = [turn |-> serving.turn + 1, sent |-> 0]
    BY <2>1, <2>2 DEF ServerReceive
  <2>4. serving'.turn = turn /\ serving'.sent = 0 /\ down = <<>> /\ turn \in Nat
    BY <1>2, <1>3, <1>5, <2>3 DEF ServerInv
  <2>5. UpInv'
    BY <2>1 DEF UpInv
  <2>6. ServerInv'
    BY <1>1, <1>3, <2>1, <2>3, <2>4 DEF ServerInv
  <2>7. DownInv'
    BY <1>1, <1>2, <2>4, 1..Len(<<>>) = {} DEF DownInv
  <2>8. isAITurn => up = OnlyEnd /\ isAIProcessing
    BY <1>1, <1>2, <1>5, Wire DEF FloorInv, Announced
  <2>9. up' = <<>> => isAITurn
    BY <1>2, <2>1 DEF FloorInv
  <2>10. FloorInv'
    BY <1>1, <1>2, <2>1, <2>8, <2>9, Wire DEF FloorInv
  <2> QED
    BY <1>4, <2>5, <2>6, <2>7, <2>10 DEF CInv
<1>6. CASE up = OnlyBarge
  <2>1. up' = <<>> /\ Head(up) = "barge_in" /\ ~Announced /\ ~Announced' /\ ~isAITurn
    BY <1>1, <1>2, <1>6, Wire DEF Announced, FloorInv
  <2>2. serving' = [turn |-> serving.turn, sent |-> Chunks]
    BY <2>1 DEF ServerReceive, Idle
  <2>3. serving'.turn = serving.turn /\ serving'.sent = Chunks
    BY <2>2
  <2>4. UpInv'
    BY <2>1 DEF UpInv
  <2>5. ServerInv'
    BY <1>1, <1>2, <1>3, <2>1, <2>2, <2>3 DEF ServerInv
  <2>6. DownInv'
    BY <1>1, <1>2, <2>3 DEF DownInv
  <2>7. FloorInv'
    BY <1>1, <1>2, <2>1, <2>3, Wire DEF FloorInv
  <2> QED
    BY <1>4, <2>4, <2>5, <2>6, <2>7 DEF CInv
<1> QED
  BY <1>1, <1>2, <1>5, <1>6 DEF UpInv, Announced

(* The server sends a chunk of its turn, which is the client's: it is idle *)
(* while the end of an utterance is under way.                             *)
LEMMA ServerSendStep == ASSUME CInv, ServerSend PROVE CInv'
<1> DEFINE c == [turn |-> serving.turn, chunk |-> serving.sent + 1]
           e == [turn |-> serving.turn, chunk |-> 0]
<1>1. /\ connected' = connected /\ turn' = turn /\ up' = up /\ connected
      /\ activeSources' = activeSources /\ interrupted' = interrupted
      /\ isUserSpeaking' = isUserSpeaking /\ isAITurn' = isAITurn
      /\ isAIProcessing' = isAIProcessing /\ serving.sent < Chunks
  BY DEF ServerSend, floor, playback
<1>2. UpInv /\ ServerInv /\ DownInv /\ FloorInv /\ PlayInv
  BY DEF CInv
<1>3. /\ Chunks \in Nat /\ serving.sent \in Nat /\ serving.turn \in Nat
      /\ serving = [turn |-> serving.turn, sent |-> serving.sent]
  BY <1>2, ClientAssumption DEF ServerInv
<1>4. serving' = [turn |-> serving.turn, sent |-> serving.sent + 1]
  BY <1>3 DEF ServerSend
<1>5. serving'.turn = serving.turn /\ serving'.sent = serving.sent + 1
  BY <1>4
<1>6. ~Announced /\ ~Announced'
  BY <1>1, <1>2, <1>3 DEF ServerInv, Announced
<1>7. UpInv' /\ PlayInv'
  BY <1>1, <1>2 DEF UpInv, PlayInv
<1>8. ServerInv'
  BY <1>1, <1>2, <1>3, <1>4, <1>5, <1>6 DEF ServerInv
<1>9. c \in Chunk /\ e \in Chunk /\ c.turn = serving.turn /\ e.turn = serving.turn
      /\ c.chunk # 0 /\ e.chunk = 0 /\ c.chunk = serving.sent + 1
  BY <1>1, <1>3 DEF Chunk
<1>10. \A i \in 1..Len(down) : down[i].turn = serving.turn /\ down[i].chunk # 0
  BY <1>1, <1>2, <1>3 DEF DownInv
<1>11. DownInv'
  <2> HIDE DEF c, e
  <2>1. down \in Seq(Chunk)
    BY <1>2 DEF DownInv
  <2>2. CASE serving.sent + 1 = Chunks
    <3>1. down' = down \o <<e, c>>
      BY <2>2 DEF ServerSend, c, e
    <3>2. <<e, c>> \in Seq(Chunk) /\ Len(<<e, c>>) = 2
      BY <1>9
    <3>3. down' \in Seq(Chunk) /\ Len(down') = Len(down) + 2
      BY <2>1, <3>1, <3>2, ConcatProperties
    <3>4. \A i \in 1..Len(down') : (i \in 1..Len(down) /\ down'[i] = down[i])
                                    \/ down'[i] = e \/ down'[i] = c
      BY <2>1, <3>1, <3>3
    <3> QED
      BY <1>5, <1>9, <1>10, <2>2, <3>3, <3>4 DEF DownInv
  <2>3. CASE serving.sent + 1 # Chunks
    <3>1. down' = Append(down, c)
      BY <2>3 DEF ServerSend, c
    <3>2. down' \in Seq(Chunk) /\ Len(down') = Len(down) + 1
      BY <1>9, <2>1, <3>1
    <3>3. \A i \in 1..Len(down') : (i \in 1..Len(down) /\ down'[i] = down[i])
                                    \/ down'[i] = c
      BY <1>9, <2>1, <3>1, <3>2
    <3> QED
      BY <1>5, <1>9, <1>10, <3>2, <3>3 DEF DownInv
  <2> QED
    BY <2>2, <2>3
<1>12. FloorInv'
  BY <1>1, <1>2, <1>3, <1>5 DEF FloorInv
<1> QED
  BY <1>7, <1>8, <1>11, <1>12 DEF CInv

(* socket.onmessage for the end of a response: all of it has been sent.    *)
LEMMA onEndOfResponseStep == ASSUME CInv, onEndOfResponse PROVE CInv'
<1>1. /\ connected' = connected /\ turn' = turn /\ up' = up /\ serving' = serving
      /\ activeSources' = activeSources /\ interrupted' = interrupted
      /\ isUserSpeaking' = isUserSpeaking /\ isAITurn' = isAITurn
      /\ isAIProcessing' = FALSE /\ down # <<>> /\ Head(down).chunk = 0
      /\ down' = Tail(down)
  BY DEF onEndOfResponse, playback
<1>2. UpInv /\ ServerInv /\ DownInv /\ FloorInv /\ PlayInv
  BY DEF CInv
<1>3. UpInv' /\ PlayInv'
  BY <1>1, <1>2 DEF UpInv, PlayInv
<1>4. ~Announced /\ ~Announced'
  BY <1>1, <1>2 DEF ServerInv, Announced
<1>5. ServerInv'
  BY <1>1, <1>2, <1>4 DEF ServerInv
<1>6. DownInv'
  <2>1. down \in Seq(Chunk)
    BY <1>2 DEF DownInv
  <2>2. /\ down' \in Seq(Chunk)
        /\ \A i \in 1..Len(down') : i + 1 \in 1..Len(down) /\ down'[i] = down[i + 1]
    BY <1>1, <2>1, TakeFirst
  <2> QED
    BY <1>1, <1>2, <2>2 DEF DownInv
<1>7. serving.sent = Chunks
  <2>1. down \in Seq(Chunk)
    BY <1>2 DEF DownInv
  <2>2. Head(down) = down[1] /\ 1 \in 1..Len(down)
    BY <1>1, <2>1, TakeFirst
  <2> QED
    BY <1>1, <1>2, <2>2 DEF DownInv
<1>8. isAITurn => up = <<>>
  BY <1>2, <1>4 DEF FloorInv, Announced
<1>9. FloorInv'
  BY <1>1, <1>2, <1>7, <1>8, Zenon DEF FloorInv
<1> QED
  BY <1>3, <1>5, <1>6, <1>9 DEF CInv

(* playAudioChunk: a chunk that arrives in the AI's turn is of the turn    *)
(* the client is in.                                                       *)
LEMMA playAudioChunkStep == ASSUME CInv, playAudioChunk PROVE CInv'
<1>1. /\ connected' = connected /\ turn' = turn /\ up' = up /\ serving' = serving
      /\ interrupted' = interrupted /\ isUserSpeaking' = isUserSpeaking
      /\ isAITurn' = isAITurn /\ isAIProcessing' = isAIProcessing
      /\ connected /\ down # <<>> /\ down' = Tail(down)
  BY DEF playAudioChunk, floor
<1>2. UpInv /\ ServerInv /\ DownInv /\ FloorInv /\ PlayInv
  BY DEF CInv
<1>3. UpInv' /\ FloorInv'
  BY <1>1, <1>2 DEF UpInv, FloorInv
<1>4. ~Announced /\ ~Announced'
  BY <1>1, <1>2 DEF ServerInv, Announced
<1>5. ServerInv'
  BY <1>1, <1>2, <1>4 DEF ServerInv
<1>6. DownInv'
  <2>1. down \in Seq(Chunk)
    BY <1>2 DEF DownInv
  <2>2. /\ down' \in Seq(Chunk)
        /\ \A i \in 1..Len(down') : i + 1 \in 1..Len(down) /\ down'[i] = down[i + 1]
    BY <1>1, <2>1, TakeFirst
  <2> QED
    BY <1>1, <1>2, <2>2 DEF DownInv
<1>7. Head(down) \in Chunk /\ Head(down).turn = turn
  <2>1. down \in Seq(Chunk)
    BY <1>2 DEF DownInv
  <2>2. Head(down) \in Chunk /\ Head(down) = down[1] /\ 1 \in 1..Len(down)
    BY <1>1, <2>1, TakeFirst
  <2>3. Head(down).turn = serving.turn
    BY <1>2, <2>2 DEF DownInv
  <2> QED
    BY <1>1, <1>2, <1>4, <2>2, <2>3 DEF ServerInv
<1>8. PlayInv'
  <2>1. CASE isAITurn /\ activeSources' = Append(activeSources, Head(down))
    <3>1. activeSources \in Seq(Chunk)
      BY <1>2 DEF PlayInv
    <3>2. activeSources' \in Seq(Chunk) /\ Len(activeSources') = Len(activeSources) + 1
      BY <1>7, <2>1, <3>1
    <3>3. \A i \in 1..Len(activeSources') :
            \/ i \in 1..Len(activeSources) /\ activeSources'[i] = activeSources[i]
            \/ activeSources'[i] = Head(down)
      BY <1>7, <2>1, <3>1, <3>2
    <3> QED
      BY <1>1, <1>2, <1>7, <2>1, <3>2, <3>3 DEF PlayInv
  <2>2. CASE activeSources' = activeSources
    BY <1>1, <1>2, <2>2 DEF PlayInv
  <2> QED
    BY <2>1, <2>2 DEF playAudioChunk, Playable
<1> QED
  BY <1>3, <1>5, <1>6, <1>8 DEF CInv

(* source.onended: the turn ends only when the end of the response has     *)
(* been received and nothing is left to play.                              *)
LEMMA onendedStep == ASSUME CInv, onended PROVE CInv'
<1>1. /\ connected' = connected /\ turn' = turn /\ up' = up /\ serving' = serving
      /\ interrupted' = interrupted /\ isUserSpeaking' = isUserSpeaking
      /\ down' = down /\ isAIProcessing' = isAIProcessing
      /\ isAITurn' = (isAITurn /\ ~(~isAIProcessing /\ activeSources' = <<>>))
  BY DEF onended, TurnOver
<1>2. UpInv /\ ServerInv /\ DownInv /\ FloorInv /\ PlayInv
  BY DEF CInv
<1>3. UpInv' /\ ServerInv' /\ DownInv'
  BY <1>1, <1>2 DEF UpInv, ServerInv, DownInv, Announced
<1>4. isAITurn' \in BOOLEAN /\ (isAITurn' => isAITurn)
  BY <1>1, Zenon
<1>5. isAITurn /\ ~isAITurn' => ~isAIProcessing
  BY <1>1, Zenon
<1>6. FloorInv'
  BY <1>1, <1>2, <1>4, <1>5, Wire DEF FloorInv
<1>7. activeSources' # <<>> => isAITurn'
  <2>1. activeSources' # <<>> => activeSources # <<>>
    BY <1>2 DEF onended, PlayInv
  <2> QED
    BY <1>1, <1>2, <2>1, Zenon DEF PlayInv
<1>8. PlayInv'
  <2>1. CASE activeSources # <<>> /\ activeSources' = Tail(activeSources)
    <3>1. activeSources \in Seq(Chunk)
      BY <1>2 DEF PlayInv
    <3>2. /\ activeSources' \in Seq(Chunk)
          /\ \A i \in 1..Len(activeSources') :
               /\ i + 1 \in 1..Len(activeSources)
               /\ activeSources'[i] = activeSources[i + 1]
      BY <2>1, <3>1, TakeFirst
    <3>3. \A i \in 1..Len(activeSources') : activeSources'[i].turn = turn
      BY <1>2, <3>2 DEF PlayInv
    <3> QED
      BY <1>1, <1>7, <3>2, <3>3 DEF PlayInv
  <2>2. CASE activeSources' = activeSources
    BY <1>1, <1>2, <1>7, <2>2 DEF PlayInv
  <2> QED
    BY <2>1, <2>2 DEF onended
<1> QED
  BY <1>3, <1>6, <1>8 DEF CInv

(* socket.onclose: nothing is under way, nothing plays.                    *)
LEMMA oncloseStep == ASSUME CInv, onclose PROVE CInv'
<1>1. /\ connected' = FALSE /\ turn' = turn /\ serving' = serving
      /\ interrupted' = interrupted /\ isUserSpeaking' = isUserSpeaking
      /\ up' = <<>> /\ down' = <<>> /\ activeSources' = <<>>
      /\ isAIProcessing' = FALSE /\ isAITurn' = FALSE
  BY DEF onclose, stopAllPlayback
<1>2. ServerInv /\ FloorInv
  BY DEF CInv
<1>3. <<>> \in Seq(Chunk) /\ 1..Len(<<>>) = {}
  OBVIOUS
<1>4. ~Announced'
  BY <1>1, Wire DEF Announced
<1>5. UpInv' /\ ServerInv'
  BY <1>1, <1>2, <1>4 DEF UpInv, ServerInv
<1>6. DownInv' /\ PlayInv'
  BY <1>1, <1>3 DEF DownInv, PlayInv
<1>7. FloorInv'
  BY <1>1, <1>2, Wire, Zenon DEF FloorInv
<1> QED
  BY <1>5, <1>6, <1>7 DEF CInv

(* With a network that is quicker than a spoken utterance, the inductive   *)
(* invariant holds in every state of the client and its server.            *)
THEOREM ClientInvariant == ASSUME ~SlowNetwork PROVE Spec => []CInv
<1>1. CInv /\ [Next]_vars => CInv'
  <2> SUFFICES ASSUME CInv, [Next]_vars PROVE CInv'
    OBVIOUS
  <2>1. CASE Next
    BY <2>1, StartSpeakingStep, EndSpeakingStep, ServerReceiveStep, ServerSendStep,
       onEndOfResponseStep, playAudioChunkStep, onendedStep, oncloseStep DEF Next
  <2>2. CASE UNCHANGED vars
    BY <2>2 DEF vars, floor, playback, CInv, UpInv, Announced, ServerInv,
       DownInv, FloorInv, PlayInv
  <2> QED
    BY <2>1, <2>2
<1> QED
  BY InitCInv, <1>1, PTL DEF Spec

(* playAudioChunk plays nothing but the turn the client is in, and nothing *)
(* of a turn the user interrupted, whatever the length of a response and   *)
(* the number of turns.                                                    *)
THEOREM CurrentPlayed == ASSUME ~SlowNetwork PROVE Spec => []OnlyCurrentPlayed
<1>1. CInv => OnlyCurrentPlayed
  BY DEF CInv, FloorInv, PlayInv, OnlyCurrentPlayed
<1> QED
  BY ClientInvariant, <1>1, PTL
=============================================================================
