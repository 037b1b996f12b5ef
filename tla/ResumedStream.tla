----------------------------- MODULE ResumedStream ----------------------------
(***************************************************************************)
(* What a stateless stream promises the session that pushes into it,       *)
(* without the tier, the workers and Bifrost that keep the promise: each   *)
(* answer covers every chunk offered since the utterance began, once and   *)
(* in order, or the stream ends.  The model's state may have changed hands *)
(* between two chunks, where it loses the few samples its extractor held   *)
(* back: which answer shows which of those places is not promised, and two *)
(* answers in turn need not agree about them.                              *)
(***************************************************************************)
EXTENDS Naturals, Sequences

CONSTANTS Sessions, Seqs, None

VARIABLES
  offered,   \* the chunk an answer is awaited for
  heard,     \* the chunks the last answer covers
  cuts,      \* after how many of them its state had changed hands
  phase      \* "off", "idle", "push", "flush", "flushed" or "ended"

streamVars == <<offered, heard, cuts, phase>>

Moves(s, from, to) == phase[s] = from /\ phase' = [phase EXCEPT ![s] = to]
\* The state an answer is made from has changed hands after some of the chunks
\* that were answered before.
HandedOver(s) == \E c \in SUBSET (1..Len(heard[s])) : cuts' = [cuts EXCEPT ![s] = c]

StreamInit ==
  /\ offered = [s \in Sessions |-> None]
  /\ heard = [s \in Sessions |-> << >>]
  /\ cuts = [s \in Sessions |-> {}]
  /\ phase = [s \in Sessions |-> "off"]

Start(s) ==
  /\ Moves(s, "off", "idle")
  /\ UNCHANGED <<offered, heard, cuts>>

Offer(s, n) ==
  /\ Moves(s, "idle", "push")
  /\ offered' = [offered EXCEPT ![s] = n]
  /\ UNCHANGED <<heard, cuts>>

Hear(s) ==
  /\ Moves(s, "push", "idle")
  /\ heard' = [heard EXCEPT ![s] = Append(@, offered[s])]
  /\ HandedOver(s)
  /\ offered' = [offered EXCEPT ![s] = None]

\* A final says what was heard already.
AskFinal(s) == Moves(s, "idle", "flush") /\ UNCHANGED <<offered, heard, cuts>>
Say(s)      == /\ phase[s] = "flush"
               /\ \E p \in {"flushed", "ended"} : phase' = [phase EXCEPT ![s] = p]
               /\ HandedOver(s)
               /\ UNCHANGED <<offered, heard>>

\* The next utterance inherits nothing.
Anew(s) ==
  /\ Moves(s, "flushed", "idle")
  /\ heard' = [heard EXCEPT ![s] = << >>]
  /\ cuts' = [cuts EXCEPT ![s] = {}]
  /\ UNCHANGED offered

End(s) ==
  /\ phase[s] # "off"
  /\ phase' = [phase EXCEPT ![s] = "ended"]
  /\ offered' = [offered EXCEPT ![s] = None]
  /\ UNCHANGED <<heard, cuts>>

StreamNext ==
  \E s \in Sessions :
    \/ Start(s) \/ Hear(s) \/ AskFinal(s) \/ Say(s) \/ Anew(s) \/ End(s)
    \/ \E n \in Seqs : Offer(s, n)

StreamSpec == StreamInit /\ [][StreamNext]_streamVars
===============================================================================
