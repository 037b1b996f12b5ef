-------------------------- MODULE TranscriptContract --------------------------
(***************************************************************************)
(* What a client may rely on in the transcript events of one session       *)
(* (docs/PROTOCOL.md): revisions rise within an utterance, a failover is   *)
(* always announced by a reset that raises the epoch, nothing follows an   *)
(* utterance's final but the next utterance, and acknowledgements only     *)
(* advance.                                                                *)
(***************************************************************************)
EXTENDS Naturals

CONSTANT Nobody   \* the source before any partial

VARIABLES
  utt,      \* the utterance of the newest transcript event
  rev,      \* the newest revision shown for it
  epoch,    \* the newest failover epoch shown
  closed,   \* whether its final was delivered
  acked,    \* highest_contiguous_seq of the newest ack
  source    \* whose model the newest partial was read from

contractVars == <<utt, rev, epoch, closed, acked, source>>

ContractInit ==
  /\ utt = 1 /\ rev = 0 /\ epoch = 0
  /\ closed = FALSE /\ acked = 0 /\ source = Nobody

\* A partial of the open utterance, with the ack that follows it; text from
\* another model appears only behind a reset.
ShowPartial ==
  /\ ~closed
  /\ rev' > rev
  /\ acked' >= acked
  /\ source = Nobody \/ source' = source
  /\ UNCHANGED <<utt, epoch, closed>>

\* A failover: the partial shown so far is void.
ShowReset ==
  /\ ~closed
  /\ epoch' > epoch
  /\ rev' > rev
  /\ UNCHANGED <<utt, closed, acked>>

ShowFinal == ~closed /\ closed' = TRUE /\ UNCHANGED <<utt, rev, epoch, acked, source>>

\* The next utterance, announced by its speech.start or by its own final.
ShowNext ==
  /\ closed
  /\ utt' = utt + 1
  /\ rev' = 0
  /\ closed' \in BOOLEAN
  /\ UNCHANGED <<epoch, acked, source>>

ContractNext == ShowPartial \/ ShowReset \/ ShowFinal \/ ShowNext

ContractSpec == ContractInit /\ [][ContractNext]_contractVars
===============================================================================
