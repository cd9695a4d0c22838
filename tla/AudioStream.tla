---------------------------- MODULE AudioStream ----------------------------
(***************************************************************************)
(* What the audio of one turn promises its listener, whatever chunks,      *)
(* queues and stages produce it (generate_realtime_final in                *)
(* vllm_omni/entrypoints/lgws/duplex_engine.py): codes are spoken; audio   *)
(* is heard in pieces, each of which begins where the last one ended and   *)
(* renders only codes that were spoken; and the turn is declared finished  *)
(* exactly with the last code.  The promise holds until it is spoilt, by a *)
(* second stop token or a chunk that a connector lost.                     *)
(***************************************************************************)
EXTENDS Integers

VARIABLES
  made,   \* codes spoken so far
  end,    \* codes of the whole turn, -1 until it is known
  span,   \* the codes of the piece heard last
  phase,  \* running; final: declared finished; closed: torn down
  good    \* nothing has spoilt the turn

vars == <<made, end, span, phase, good>>

Init ==
  /\ made = 0 /\ end = -1 /\ span = [lo |-> 0, hi |-> 0]
  /\ phase = "running" /\ good = TRUE

(* Codes are spoken; the last of them may be known to be the last. *)
Speak ==
  /\ good' = good
  /\ made' \in Nat /\ made <= made'
  /\ end' = end \/ (end = -1 /\ end' = made')
  /\ UNCHANGED <<span, phase>>

(* The next piece is heard; with the last code the turn is finished. *)
Hear ==
  /\ phase = "running" /\ good
  /\ span'.lo = span.hi
  /\ span'.lo <= span'.hi /\ span'.hi <= made
  /\ phase' = IF span'.hi = end THEN "final" ELSE "running"
  /\ UNCHANGED <<made, end, good>>

Close ==
  /\ phase' = "closed"
  /\ UNCHANGED <<made, end, span, good>>

(* A turn that is spoilt promises nothing. *)
Spoil == ~good'

Next == Speak \/ Hear \/ Close \/ Spoil

Spec == Init /\ [][Next]_vars
=============================================================================
