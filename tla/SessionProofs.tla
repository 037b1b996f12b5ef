----------------------------- MODULE SessionProofs -----------------------------
(***************************************************************************)
(* The binding ledger and the generations of a session, what a recovery    *)
(* can replay, the types, and that the client's view implements the        *)
(* contract of the transcript events: for every fleet, journal, number of  *)
(* attempts and pattern of failures.                                       *)
(*                                                                         *)
(* LedgerBalances alone is not inductive: it has to be known who owns the  *)
(* session while a recovery has a candidate installed in st, that the      *)
(* candidate is never the owner, and that the state a failed attempt puts  *)
(* back is the owner's.                                                    *)
(***************************************************************************)
EXTENDS Session, PipelineTheorems

Recovering == pc \in {"pick", "restore", "open", "replay"}

\* The fields the ledger depends on exist.
HasFields ==
  /\ "worker" \in DOMAIN st
  /\ {"owner", "excluded", "target", "prev"} \subseteq DOMAIN fo

\* A session that is neither new nor gone has a worker.
HasWorker == pc \notin {"init", "done"} => st.worker \in Workers

\* Outside a recovery there is no owner but st.worker.
OwnerIsSet == IF Recovering THEN fo.owner \in Workers ELSE fo.owner = None

\* A recovery remembers the owner's state, and never picks the owner.
OwnerIsKept ==
  Recovering => /\ fo.owner \in fo.excluded
                /\ "worker" \in DOMAIN fo.prev
                /\ fo.prev.worker = fo.owner

\* st names the owner until a candidate is installed, and then the candidate.
CandidateIsOther ==
  /\ pc \in {"pick", "restore", "open"} => st.worker = fo.owner
  /\ pc \in {"restore", "open", "replay"} => fo.target \in Workers \ fo.excluded
  /\ pc = "replay" => st.worker = fo.target

LedgerInv ==
  /\ HasFields /\ HasWorker /\ OwnerIsSet /\ OwnerIsKept /\ CandidateIsOther
  /\ LedgerBalances

-------------------------------------------------------------------------------
(* The ledger.                                                             *)

USE SessionAssumption DEF SessionAssumption

LEMMA LedgerInit == Init => LedgerInv
BY DEF Init, LedgerInv, HasFields, HasWorker, OwnerIsSet, OwnerIsKept,
       CandidateIsOther, LedgerBalances, Recovering, NoFailover

\* Between two frames and during a call the session keeps its worker.
Resting == pc \notin {"init", "done"} /\ ~Recovering

LEMMA KeepsWorker ==
  ASSUME LedgerInv, Resting, Resting', UNCHANGED <<fo, bound>>,
         "worker" \in DOMAIN st', st'.worker = st.worker
  PROVE  LedgerInv'
BY DEF LedgerInv, HasFields, HasWorker, OwnerIsSet, OwnerIsKept,
       CandidateIsOther, LedgerBalances, Recovering, Resting

\* What does not touch the session's goroutine does not touch the ledger.
LEMMA OthersKeepLedger ==
  ASSUME LedgerInv, UNCHANGED <<pc, st, fo, bound>>
  PROVE  LedgerInv'
BY DEF LedgerInv, HasFields, HasWorker, OwnerIsSet, OwnerIsKept,
       CandidateIsOther, LedgerBalances, Recovering

\* A new session binds the worker it opened on, a refused one binds nobody.
LEMMA BeginKeepsLedger == LedgerInv /\ Begin => LedgerInv'
<1> SUFFICES ASSUME LedgerInv, Begin PROVE LedgerInv'
  OBVIOUS
<1>1. ASSUME NEW w \in Workers, Start(w) PROVE LedgerInv'
  BY <1>1 DEF Start, LedgerInv, HasFields, HasWorker, OwnerIsSet, OwnerIsKept,
              CandidateIsOther, LedgerBalances, Recovering
<1>2. CASE StartRefused
  BY <1>2 DEF StartRefused, LedgerInv, HasFields, HasWorker, OwnerIsSet,
              OwnerIsKept, CandidateIsOther, LedgerBalances, Recovering
<1> QED
  BY <1>1, <1>2 DEF Begin

\* Frames are received at rest and leave the session there.
LEMMA ReceiveKeepsLedger == LedgerInv /\ Receive => LedgerInv'
<1> SUFFICES ASSUME LedgerInv, Receive PROVE LedgerInv'
  OBVIOUS
<1> USE DEF LedgerInv, HasFields
<1>1. ASSUME NEW voiced \in BOOLEAN, ReceiveFrame(voiced) PROVE LedgerInv'
  <2>1. Resting /\ Resting' /\ UNCHANGED <<fo, bound>>
    BY <1>1 DEF ReceiveFrame, Resting, Recovering, Onward
  <2>2. "worker" \in DOMAIN st' /\ st'.worker = st.worker
    BY <1>1 DEF ReceiveFrame
  <2> QED
    BY <2>1, <2>2, KeepsWorker
<1>2. CASE ReceiveEnd
  BY <1>2, KeepsWorker DEF ReceiveEnd, Resting, Recovering
<1>3. CASE ReceiveClosed
  BY <1>3, KeepsWorker DEF ReceiveClosed, Resting, Recovering
<1> QED
  BY <1>1, <1>2, <1>3 DEF Receive

\* A push that is answered leaves the session at rest; one that fails starts a
\* recovery with the owner's state to go back to.
LEMMA DispatchKeepsLedger == LedgerInv /\ Dispatch => LedgerInv'
<1> SUFFICES ASSUME LedgerInv, Dispatch PROVE LedgerInv'
  OBVIOUS
<1> USE DEF LedgerInv, HasFields
<1>1. CASE AllDispatched
  BY <1>1, KeepsWorker DEF AllDispatched, Resting, Recovering
<1>2. CASE PushInfer
  BY <1>2, KeepsWorker DEF PushInfer, Calling, Resting, Recovering
<1>3. ASSUME NEW h, Applied(h), pc \in {"dispatch", "pushing"} PROVE LedgerInv'
  BY <1>3, KeepsWorker DEF Applied, Mirrored, Onward, Resting, Recovering
<1>4. CASE PushCommit
  BY <1>3, <1>4 DEF PushCommit
<1>5. CASE PushRepeated
  BY <1>3, <1>5 DEF PushRepeated, Calling
<1>6. CASE PushFails
  <2>1. /\ ~Recovering /\ pc' = "pick" /\ UNCHANGED st
        /\ bound' = bound
    BY <1>6 DEF PushFails, Calling, Recovering, BoundOnFailure
  <2>2. /\ st.worker \in Workers
        /\ fo'.owner = st.worker /\ fo'.excluded = {st.worker} /\ fo'.prev = st
        /\ {"owner", "excluded", "target", "prev"} \subseteq DOMAIN fo'
    BY <1>6 DEF PushFails, Calling, NoFailover, HasWorker
  <2> QED
    BY <2>1, <2>2, <1>6 DEF HasWorker, OwnerIsSet, OwnerIsKept, CandidateIsOther,
                       LedgerBalances, Recovering, PushFails, Calling
<1> QED
  BY <1>1, <1>2, <1>4, <1>5, <1>6 DEF Dispatch

\* Picking, restoring, opening and replaying touch the candidate only; a
\* failed attempt puts the owner back, and taking over moves the bind.
LEMMA RecoveryKeepsLedger == LedgerInv /\ Recovery => LedgerInv'
<1> SUFFICES ASSUME LedgerInv, Recovery PROVE LedgerInv'
  OBVIOUS
<1> USE DEF LedgerInv, HasFields, HasWorker, OwnerIsSet, OwnerIsKept,
            CandidateIsOther, LedgerBalances, Recovering
<1>1. ASSUME NEW w \in Workers, Pick(w) PROVE LedgerInv'
  BY <1>1 DEF Pick
<1>2. CASE GiveUp
  BY <1>2 DEF GiveUp, NoFailover
<1>3. CASE Restore
  <2>1. st'.worker = fo.target /\ "worker" \in DOMAIN st'
    BY <1>3 DEF Restore, Installed
  <2>2. /\ DOMAIN fo' = DOMAIN fo /\ fo'.owner = fo.owner /\ fo'.prev = fo.prev
        /\ fo'.excluded = fo.excluded /\ fo'.target = fo.target
    BY <1>3 DEF Restore
  <2> QED
    BY <2>1, <2>2, <1>3 DEF Restore
<1>4. CASE RestoreFails
  BY <1>4 DEF RestoreFails
<1>5. CASE Open
  <2>1. st'.worker = fo.target /\ "worker" \in DOMAIN st'
    BY <1>5 DEF Open, Installed
  <2>2. /\ DOMAIN fo' = DOMAIN fo /\ fo'.owner = fo.owner /\ fo'.prev = fo.prev
        /\ fo'.excluded = fo.excluded /\ fo'.target = fo.target
    BY <1>5 DEF Open
  <2> QED
    BY <2>1, <2>2, <1>5 DEF Open
<1>6. CASE Replay
  <2>1. st'.worker = st.worker /\ "worker" \in DOMAIN st'
    BY <1>6 DEF Replay
  <2>2. /\ DOMAIN fo' = DOMAIN fo /\ fo'.owner = fo.owner /\ fo'.prev = fo.prev
        /\ fo'.excluded = fo.excluded /\ fo'.target = fo.target
    BY <1>6 DEF Replay
  <2> QED
    BY <2>1, <2>2, <1>6 DEF Replay
<1>7. CASE AttemptFails
  <2>1. pc \in {"open", "replay"} /\ pc' = "pick" /\ bound' = bound
    BY <1>7 DEF AttemptFails
  <2>2. st' = fo.prev
    BY <1>7 DEF AttemptFails, RolledBack
  <2>3. /\ DOMAIN fo' = DOMAIN fo /\ fo'.owner = fo.owner /\ fo'.prev = fo.prev
        /\ fo'.excluded = fo.excluded \cup {fo.target}
    BY <1>7 DEF AttemptFails, Excluding
  <2> QED
    BY <2>1, <2>2, <2>3
<1>8. CASE TakeOver
  <2>1. /\ pc = "replay" /\ pc' \in {"dispatch", "ended"}
        /\ bound' = [bound EXCEPT ![fo.target] = @ + 1, ![fo.owner] = @ - 1]
    BY <1>8 DEF TakeOver, Onward
  <2>2. st'.worker = fo.target /\ "worker" \in DOMAIN st'
    BY <1>8 DEF TakeOver
  <2>3. fo' = NoFailover
    BY <1>8 DEF TakeOver
  <2>4. bound' = [w \in Workers |-> IF w = fo.target THEN 1 ELSE 0]
    BY <2>1
  <2> QED
    BY <2>1, <2>2, <2>3, <2>4 DEF NoFailover
<1> QED
  BY <1>1, <1>2, <1>3, <1>4, <1>5, <1>6, <1>7, <1>8 DEF Recovery

\* The cleanup returns the bind; whatever comes before it keeps the worker.
LEMMA EndingKeepsLedger == LedgerInv /\ Ending => LedgerInv'
<1> SUFFICES ASSUME LedgerInv, Ending PROVE LedgerInv'
  OBVIOUS
<1> USE DEF LedgerInv, HasFields
<1>1. CASE Finalize
  BY <1>1, KeepsWorker DEF Finalize, Resting, Recovering
<1>2. CASE FinalizeFails
  BY <1>2, KeepsWorker DEF FinalizeFails, Resting, Recovering
<1>3. CASE Renew
  BY <1>3, KeepsWorker DEF Renew, Renewed, Resting, Recovering
<1>4. CASE RenewFails
  BY <1>4, KeepsWorker DEF RenewFails, Resting, Recovering
<1>5. CASE Cleanup
  BY <1>5 DEF Cleanup, HasWorker, OwnerIsSet, OwnerIsKept, CandidateIsOther,
              LedgerBalances, Recovering
<1> QED
  BY <1>1, <1>2, <1>3, <1>4, <1>5 DEF Ending

LEMMA LedgerStep == LedgerInv /\ [Next]_vars => LedgerInv'
<1> SUFFICES ASSUME LedgerInv, [Next]_vars PROVE LedgerInv'
  OBVIOUS
<1>1. CASE Goroutine
  BY <1>1, BeginKeepsLedger, ReceiveKeepsLedger, DispatchKeepsLedger,
     RecoveryKeepsLedger, EndingKeepsLedger DEF Goroutine
<1>2. CASE Checkpoints
  BY <1>2, OthersKeepLedger
     DEF Checkpoints, CheckpointTaken, CheckpointStored, CheckpointFails
<1>3. CASE World
  BY <1>3, OthersKeepLedger DEF World, Crash, Restart, Corrupt, Disconnect
<1>4. CASE UNCHANGED vars
  BY <1>4, OthersKeepLedger DEF vars
<1> QED
  BY <1>1, <1>2, <1>3, <1>4 DEF Next

\* A session counts once, on its owner, from its start to its cleanup, however
\* often and in whatever way calls fail (HandleBackendFailure, sessionLoop).
THEOREM LedgerAlwaysBalances == Spec => []LedgerBalances
<1>1. LedgerInv => LedgerBalances
  BY DEF LedgerInv
<1> QED
  BY LedgerInit, LedgerStep, <1>1, PTL DEF Spec
-------------------------------------------------------------------------------
(* Generations.  The session's copy of the generation agrees with its       *)
(* handle's record whenever it may push, so the one error that would end a  *)
(* session without a recovery never happens.                                *)

Pushing == {"idle", "dispatch", "pushing", "replay"}

StateHasFields ==
  /\ {"gen", "handle"} \subseteq DOMAIN st
  /\ "prev" \in DOMAIN fo
  /\ Recovering => {"gen", "handle"} \subseteq DOMAIN fo.prev

RecordsHaveFields == \A h \in DOMAIN handles : "gen" \in DOMAIN handles[h]

\* Stronger than NeverStale, whose premise a restart could make true.
Mirrors ==
  /\ pc = "init" => st.gen = 0
  /\ pc \in Pushing /\ st.handle \in DOMAIN handles
       => st.gen = handles[st.handle].gen

GenInv == StateHasFields /\ RecordsHaveFields /\ Mirrors

LEMMA GenInit == Init => GenInv
BY DEF Init, GenInv, StateHasFields, RecordsHaveFields, Mirrors, NoFailover,
       Recovering, Pushing

\* Opening puts one record of generation zero beside those that stay, and the
\* state that points to it has generation zero as well.
LEMMA NewHandleMirrored ==
  ASSUME RecordsHaveFields, StateHasFields',
         \A h \in DOMAIN handles' \ {minted + 1} :
            h \in DOMAIN handles /\ handles'[h] = handles[h],
         "gen" \in DOMAIN handles'[minted + 1], handles'[minted + 1].gen = 0,
         st'.handle = minted + 1, st'.gen = 0
  PROVE  GenInv'
BY DEF GenInv, RecordsHaveFields, Mirrors

\* What changes neither generations nor handles.
LEMMA SameHandles ==
  ASSUME GenInv, UNCHANGED <<fo, handles>>, {"gen", "handle"} \subseteq DOMAIN st',
         st'.gen = st.gen, st'.handle = st.handle,
         pc' = pc \/ pc \in Pushing \/ pc' \notin Pushing,
         pc' # "init" \/ pc = "init", Recovering' => Recovering
  PROVE  GenInv'
BY DEF GenInv, StateHasFields, RecordsHaveFields, Mirrors, Pushing

\* A session starts on a new handle, or not at all.
LEMMA BeginKeepsGen == GenInv /\ Begin => GenInv'
<1> SUFFICES ASSUME GenInv, Begin PROVE GenInv'
  OBVIOUS
<1>1. ASSUME NEW w \in Workers, Start(w) PROVE GenInv'
  <2>1. StateHasFields' /\ st'.handle = minted + 1 /\ st'.gen = 0
    BY <1>1 DEF Start, GenInv, StateHasFields, Mirrors, Recovering
  <2>2. /\ "gen" \in DOMAIN handles'[minted + 1] /\ handles'[minted + 1].gen = 0
        /\ \A h \in DOMAIN handles' \ {minted + 1} :
              h \in DOMAIN handles /\ handles'[h] = handles[h]
    BY <1>1 DEF Start, NewHandle, Added, Opened
  <2> QED
    BY <2>1, <2>2, NewHandleMirrored DEF GenInv
<1>2. CASE StartRefused
  BY <1>2, SameHandles DEF StartRefused, calls, GenInv, StateHasFields, Pushing, Recovering
<1> QED
  BY <1>1, <1>2 DEF Begin

\* Received frames leave handles alone.
LEMMA ReceiveKeepsGen == GenInv /\ Receive => GenInv'
<1> SUFFICES ASSUME GenInv, Receive PROVE GenInv'
  OBVIOUS
<1> USE DEF Pushing, Recovering, calls
<1>1. ASSUME NEW voiced \in BOOLEAN, ReceiveFrame(voiced) PROVE GenInv'
  <2>1. /\ pc = "idle" /\ pc' \in {"dispatch", "ended"}
        /\ UNCHANGED <<fo, handles>>
    BY <1>1 DEF ReceiveFrame, Onward
  <2>2. /\ {"gen", "handle"} \subseteq DOMAIN st'
        /\ st'.gen = st.gen /\ st'.handle = st.handle
    BY <1>1 DEF ReceiveFrame, GenInv, StateHasFields
  <2> QED
    BY <2>1, <2>2, SameHandles
<1>2. CASE ReceiveEnd
  BY <1>2, SameHandles DEF ReceiveEnd, GenInv, StateHasFields
<1>3. CASE ReceiveClosed
  BY <1>3, SameHandles DEF ReceiveClosed, GenInv, StateHasFields
<1> QED
  BY <1>1, <1>2, <1>3 DEF Receive

\* A commit raises the record's generation, and the answer the session's.
LEMMA DispatchKeepsGen == GenInv /\ Dispatch => GenInv'
<1> SUFFICES ASSUME GenInv, Dispatch PROVE GenInv'
  OBVIOUS
<1> USE DEF Pushing, Recovering
<1>1. CASE AllDispatched
  BY <1>1, SameHandles DEF AllDispatched, calls, GenInv, StateHasFields
<1>2. CASE PushInfer
  <2>1. /\ DOMAIN handles' = DOMAIN handles
        /\ \A h \in DOMAIN handles :
              DOMAIN handles'[h] = DOMAIN handles[h] /\
              ("gen" \in DOMAIN handles[h] => handles'[h].gen = handles[h].gen)
    BY <1>2 DEF PushInfer
  <2>2. UNCHANGED <<st, fo>> /\ pc = "dispatch" /\ pc' = "pushing"
    BY <1>2 DEF PushInfer, Calling
  <2> QED
    BY <2>1, <2>2 DEF GenInv, StateHasFields, RecordsHaveFields, Mirrors
<1>3. CASE PushCommit
  <2>1. /\ st.handle \in DOMAIN handles /\ pc' \in {"dispatch", "ended"} /\ fo' = fo
        /\ handles' = [handles EXCEPT ![st.handle] = Committed(@)]
    BY <1>3 DEF PushCommit, Answers, Applied, Onward
  <2>2. /\ DOMAIN st' = DOMAIN st /\ st'.handle = st.handle
        /\ st'.gen = Committed(Owner).gen
    BY <1>3 DEF PushCommit, Applied, Mirrored, GenInv, StateHasFields
  <2>3. handles'[st.handle] = Committed(Owner) /\ "gen" \in DOMAIN Committed(Owner)
    BY <2>1 DEF Owner, Committed, GenInv, RecordsHaveFields
  <2> QED
    BY <2>1, <2>2, <2>3 DEF GenInv, StateHasFields, RecordsHaveFields, Mirrors
<1>4. CASE PushRepeated
  <2>1. /\ pc' \in {"dispatch", "ended"} /\ UNCHANGED <<fo, handles>>
        /\ DOMAIN st' = DOMAIN st /\ st'.handle = st.handle /\ st'.gen = Owner.gen
    BY <1>4 DEF PushRepeated, Applied, Onward, Mirrored, GenInv, StateHasFields
  <2> QED
    BY <2>1 DEF Owner, GenInv, StateHasFields, RecordsHaveFields, Mirrors
<1>5. CASE PushFails
  <2>1. /\ pc' = "pick" /\ st' = st /\ fo'.prev = st /\ "prev" \in DOMAIN fo'
    BY <1>5 DEF PushFails, NoFailover
  <2>2. \/ handles' = handles
        \/ handles' = [handles EXCEPT ![st.handle] = Committed(@)]
    BY <1>5 DEF PushFails
  <2>3. RecordsHaveFields'
    BY <2>2 DEF GenInv, RecordsHaveFields, Committed
  <2> QED
    BY <2>1, <2>3 DEF GenInv, StateHasFields, Mirrors
<1> QED
  BY <1>1, <1>2, <1>3, <1>4, <1>5 DEF Dispatch
\* A recovery is on a handle of its own, opened or restored for it.
LEMMA RecoveryKeepsGen == GenInv /\ Recovery => GenInv'
<1> SUFFICES ASSUME GenInv, Recovery PROVE GenInv'
  OBVIOUS
<1> USE DEF Pushing, Recovering
<1>1. ASSUME NEW w \in Workers, Pick(w) PROVE GenInv'
  BY <1>1 DEF Pick, calls, GenInv, StateHasFields, RecordsHaveFields, Mirrors
<1>2. CASE GiveUp
  BY <1>2 DEF GiveUp, NoFailover, calls, GenInv, StateHasFields, RecordsHaveFields, Mirrors
<1>3. CASE Restore
  <2>1. /\ DOMAIN st' = DOMAIN st /\ st'.handle = minted + 1 /\ st'.gen = 0
        /\ DOMAIN fo' = DOMAIN fo /\ fo'.prev = fo.prev /\ pc = "restore"
    BY <1>3 DEF Restore, Installed, GenInv, StateHasFields
  <2>2. /\ "gen" \in DOMAIN handles'[minted + 1] /\ handles'[minted + 1].gen = 0
        /\ \A h \in DOMAIN handles' \ {minted + 1} :
              h \in DOMAIN handles /\ handles'[h] = handles[h]
    BY <1>3 DEF Restore, NewHandle, Added, Opened
  <2> QED
    BY <2>1, <2>2, NewHandleMirrored DEF GenInv, StateHasFields
<1>4. CASE RestoreFails
  BY <1>4 DEF RestoreFails, calls, GenInv, StateHasFields, RecordsHaveFields, Mirrors
<1>5. CASE Open
  <2>1. /\ DOMAIN st' = DOMAIN st /\ st'.handle = minted + 1 /\ st'.gen = 0
        /\ DOMAIN fo' = DOMAIN fo /\ fo'.prev = fo.prev /\ pc = "open"
    BY <1>5 DEF Open, Installed, GenInv, StateHasFields
  <2>2. /\ "gen" \in DOMAIN handles'[minted + 1] /\ handles'[minted + 1].gen = 0
        /\ \A h \in DOMAIN handles' \ {minted + 1} :
              h \in DOMAIN handles /\ handles'[h] = handles[h]
    BY <1>5 DEF Open, NewHandle, Added, Opened
  <2> QED
    BY <2>1, <2>2, NewHandleMirrored DEF GenInv, StateHasFields
<1>6. CASE Replay
  <2>1. /\ st.handle \in DOMAIN handles /\ pc = "replay" /\ pc' = pc
        /\ DOMAIN fo' = DOMAIN fo /\ fo'.prev = fo.prev
        /\ DOMAIN st' = DOMAIN st /\ st'.handle = st.handle
    BY <1>6 DEF Replay, Answers, GenInv, StateHasFields
  <2>2. CASE handles' = handles /\ st'.gen = Owner.gen
    BY <2>1, <2>2 DEF Owner, GenInv, StateHasFields, RecordsHaveFields, Mirrors
  <2> DEFINE chunk == SeqsIn(Head(fo.replay))
             grown == Absorbed(handles[st.handle], chunk)
  <2>3. CASE /\ st'.gen = st.gen + 1
             /\ handles' = [handles EXCEPT ![st.handle] = Absorbed(@, chunk)]
    <3>1. "gen" \in DOMAIN grown /\ grown.gen = handles[st.handle].gen + 1
      BY <2>1 DEF Absorbed, GenInv, RecordsHaveFields
    <3>2. st.gen = handles[st.handle].gen
      BY <2>1 DEF GenInv, Mirrors
    <3> HIDE DEF grown, chunk
    <3>3. RecordsHaveFields' /\ handles'[st.handle] = grown
      BY <2>1, <2>3, <3>1 DEF grown, GenInv, RecordsHaveFields
    <3> QED
      BY <2>1, <2>3, <3>1, <3>2, <3>3 DEF GenInv, StateHasFields, Mirrors
  <2> QED
    BY <1>6, <2>2, <2>3 DEF Replay, GenInv, StateHasFields
<1>7. CASE AttemptFails
  <2>1. /\ pc \in {"open", "replay"} /\ pc' = "pick" /\ st' = fo.prev
        /\ DOMAIN fo' = DOMAIN fo /\ fo'.prev = fo.prev
    BY <1>7 DEF AttemptFails, RolledBack, Excluding
  <2>2. RecordsHaveFields'
    BY <1>7 DEF AttemptFails, CloseSent, Closed, GenInv, RecordsHaveFields
  <2> QED
    BY <2>1, <2>2 DEF GenInv, StateHasFields, Mirrors
<1>8. CASE TakeOver
  <2>1. /\ pc = "replay" /\ pc' \in {"dispatch", "ended"} /\ handles' = handles
        /\ fo' = NoFailover
    BY <1>8 DEF TakeOver, Onward, calls
  <2>2. DOMAIN st' = DOMAIN st /\ st'.gen = st.gen /\ st'.handle = st.handle
    BY <1>8 DEF TakeOver, GenInv, StateHasFields
  <2> QED
    BY <2>1, <2>2 DEF NoFailover, GenInv, StateHasFields, RecordsHaveFields, Mirrors
<1> QED
  BY <1>1, <1>2, <1>3, <1>4, <1>5, <1>6, <1>7, <1>8 DEF Recovery
\* The next utterance starts on a new handle of generation zero.
LEMMA EndingKeepsGen == GenInv /\ Ending => GenInv'
<1> SUFFICES ASSUME GenInv, Ending PROVE GenInv'
  OBVIOUS
<1> USE DEF Pushing, Recovering
<1>1. CASE Finalize
  <2>1. /\ DOMAIN st' = DOMAIN st /\ st'.gen = st.gen /\ st'.handle = st.handle
        /\ pc = "final" /\ pc' \in {"ended", "renew"} /\ UNCHANGED <<fo, handles>>
    BY <1>1 DEF Finalize, calls, GenInv, StateHasFields
  <2> QED
    BY <2>1, SameHandles DEF GenInv, StateHasFields
<1>2. CASE FinalizeFails
  BY <1>2, SameHandles DEF FinalizeFails, calls, GenInv, StateHasFields
<1>3. CASE Renew
  <2>1. /\ DOMAIN st' = DOMAIN st /\ st'.handle = minted + 1 /\ st'.gen = 0
        /\ fo' = fo /\ pc' = "idle"
    BY <1>3 DEF Renew, Renewed, GenInv, StateHasFields
  <2>2. /\ "gen" \in DOMAIN handles'[minted + 1] /\ handles'[minted + 1].gen = 0
        /\ \A h \in DOMAIN handles' \ {minted + 1} :
              h \in DOMAIN handles /\ handles'[h] = handles[h]
    BY <1>3 DEF Renew, Added, Closed, Opened
  <2> QED
    BY <2>1, <2>2, NewHandleMirrored DEF GenInv, StateHasFields
<1>4. CASE RenewFails
  BY <1>4 DEF RenewFails, CloseSent, Closed, GenInv, StateHasFields, RecordsHaveFields, Mirrors
<1>5. CASE Cleanup
  BY <1>5 DEF Cleanup, Closed, GenInv, StateHasFields, RecordsHaveFields, Mirrors
<1> QED
  BY <1>1, <1>2, <1>3, <1>4, <1>5 DEF Ending

LEMMA GenStep == GenInv /\ [Next]_vars => GenInv'
<1> SUFFICES ASSUME GenInv, [Next]_vars PROVE GenInv'
  OBVIOUS
<1>1. CASE Goroutine
  BY <1>1, BeginKeepsGen, ReceiveKeepsGen, DispatchKeepsGen, RecoveryKeepsGen,
     EndingKeepsGen DEF Goroutine
<1>2. CASE UNCHANGED <<pc, st, fo, handles>>
  BY <1>2 DEF GenInv, StateHasFields, RecordsHaveFields, Mirrors, Recovering
<1>3. CASE Checkpoints
  BY <1>2, <1>3
     DEF Checkpoints, CheckpointTaken, CheckpointStored, CheckpointFails
<1>4. CASE World
  <2>1. ASSUME NEW w \in Workers, Crash(w) PROVE GenInv'
    BY <2>1 DEF Crash, GenInv, StateHasFields, RecordsHaveFields, Mirrors, Recovering
  <2>2. ASSUME NEW w \in Workers, Restart(w) PROVE GenInv'
    BY <2>2, <1>2 DEF Restart, calls
  <2>3. ASSUME Corrupt \/ Disconnect PROVE GenInv'
    BY <2>3, <1>2 DEF Corrupt, Disconnect, calls
  <2> QED
    BY <1>4, <2>1, <2>2, <2>3 DEF World
<1>5. CASE UNCHANGED vars
  BY <1>2, <1>5 DEF vars, calls
<1> QED
  BY <1>1, <1>3, <1>4, <1>5 DEF Next

\* Whenever the session may push, the generation it sends is its record's, so
\* the worker never answers with a conflict (dispatchChunk, compare_and_commit).
THEOREM GenerationNeverStale == Spec => []NeverStale
<1>1. GenInv => NeverStale
  BY DEF GenInv, Mirrors, Pushing, NeverStale, Answers, Owner
<1> QED
  BY GenInit, GenStep, <1>1, PTL DEF Spec

-------------------------------------------------------------------------------
(* What was dispatched can be replayed.  The floor that a final commits     *)
(* stays below everything the next utterance may send: what the pipeline    *)
(* keeps for its pre-roll, what is cut and not yet dispatched, and so what  *)
(* is dispatched.  That the floor never runs ahead of the journal needs     *)
(* every sequence number the session, its handles and its checkpoints hold  *)
(* to be one that came.                                                     *)

USE CapacityAssumption, SeqsAssumption, SessionAssumption
    DEF CapacityAssumption, SeqsAssumption, SessionAssumption

Newest == IF retained = << >> THEN 0 ELSE Last(retained)
Came   == 1..Newest
Over   == pc \in {"ended", "done"}

\* What came and may still be replayed, while the session goes on.
Safe       == {s \in Came : trimmed /\ ~Over => floor < s}
Framing(N) == {r \in Recorded : r.seq \in N}
CameFrames == Framing(Came)
SafeFrames == Framing(Safe)

LogKept ==
  /\ retained \in Seq(Seqs) /\ retained \in Seq(Came) /\ Came \subseteq Seqs
  /\ floor \in 0..Newest /\ trimmed \in BOOLEAN
  /\ frames \in [Came -> CameFrames] /\ \A s \in Came : frames[s].seq = s

PipelineKept ==
  /\ pipe \in PipeOf(SafeFrames) /\ pipe.ready = << >>
  /\ Short(pipe) /\ Rising(pipe.preRoll)

\* The chunks in hand, of frames in N.
Cutting(N) == [frames : Cut(N), forced : BOOLEAN]
TodoKept ==
  /\ todo \in Seq(Cutting(Safe))
  /\ pc \in {"init", "idle", "final", "renew"} => todo = << >>
  /\ pc = "pushing" \/ Recovering => todo # << >>

AfterKept ==
  /\ after \in {"idle", "endpoint", "end"}
  /\ after = "endpoint" => pipe.pending = << >>
  /\ pc = "final" => after # "idle"
  /\ pc = "renew" => after = "endpoint"

\* A record, if there is one, whose field is a sequence number that came.
Reaches(r, field) == field \in DOMAIN r /\ r[field] \in 0..Newest

CoveredKept ==
  /\ Reaches(st, "last") /\ "finalized" \in DOMAIN st
  /\ {"prev", "replay"} \subseteq DOMAIN fo
  /\ Recovering => /\ Reaches(fo.prev, "last")
                   /\ "finalized" \in DOMAIN fo.prev /\ fo.prev.finalized = FALSE
  /\ pc = "replay" => fo.replay \in Seq(Cut(CameFrames))
  /\ \A h \in DOMAIN handles : Reaches(handles[h], "last")
  /\ cp # None => Reaches(cp, "seq")
  /\ pc = "restore" => Reaches(cp, "seq")
  /\ \A j \in jobs : "taken" \in DOMAIN j /\ (j.taken # None => Reaches(j.taken, "seq"))

\* Frames above the floor, or of a final that has been sent.
Owed == {s \in Came : trimmed /\ ~st.finalized => floor < s}

DispatchedKept ==
  /\ st.finalized \in BOOLEAN
  /\ st.finalized => pc = "renew" \/ Over
  /\ dispatched \in Seq(Owed)

RecoverableInv ==
  LogKept /\ PipelineKept /\ TodoKept /\ AfterKept /\ CoveredKept /\ DispatchedKept

LEMMA NewestNat == LogKept => Newest \in Nat
<1> SUFFICES ASSUME LogKept PROVE Newest \in Nat
  OBVIOUS
<1>1. CASE retained = << >>
  BY <1>1 DEF Newest
<1>2. CASE retained # << >>
  <2>1. Len(retained) \in 1..Len(retained)
    BY <1>2, LenProperties, EmptySeq DEF LogKept
  <2>2. retained[Len(retained)] \in Seqs
    BY <2>1, ElementOfSeq DEF LogKept
  <2> QED
    BY <1>2, <2>1, <2>2 DEF Newest, Last
<1> QED
  BY <1>1, <1>2

\* What came stays so as long as nothing comes and nothing is trimmed.
LEMMA LogSame ==
  ASSUME LogKept, UNCHANGED <<frames, logVars>>, Over => Over'
  PROVE  /\ LogKept' /\ Newest' = Newest /\ Came' = Came /\ CameFrames' = CameFrames
         /\ Safe \subseteq Safe' /\ SafeFrames \subseteq SafeFrames'
<1>1. Newest' = Newest /\ Came' = Came /\ CameFrames' = CameFrames
  BY DEF logVars, Newest, Came, CameFrames, Framing
<1>2. Safe \subseteq Safe'
  BY <1>1 DEF logVars, Safe
<1>3. SafeFrames \subseteq SafeFrames'
  BY <1>2 DEF SafeFrames, Framing
<1>4. LogKept'
  BY <1>1 DEF LogKept, logVars
<1> QED
  BY <1>1, <1>2, <1>3, <1>4

LEMMA CutGrows ==
  ASSUME NEW F, NEW G, F \subseteq G
  PROVE  Cut(F) \subseteq Cut(G)
BY SeqGrows DEF Cut

LEMMA CuttingGrows ==
  ASSUME NEW M, NEW N, M \subseteq N
  PROVE  \A s \in Seq(Cutting(M)) : s \in Seq(Cutting(N))
<1>1. Cutting(M) \subseteq Cutting(N)
  BY CutGrows DEF Cutting
<1> QED
  BY <1>1, SeqGrows

\* A step that neither feeds the pipeline nor trims.
LEMMA AudioSame ==
  ASSUME RecoverableInv, UNCHANGED <<pipe, frames, after, logVars>>, Over => Over',
         todo' = todo \/ (todo # << >> /\ todo' = Tail(todo))
  PROVE  LogKept' /\ PipelineKept' /\ todo' \in Seq(Cutting(Safe'))
<1>1. /\ LogKept' /\ Safe \subseteq Safe' /\ SafeFrames \subseteq SafeFrames'
  BY LogSame DEF RecoverableInv
<1>2. PipelineKept'
  <2>1. pipe \in PipeOf(SafeFrames)
    BY DEF RecoverableInv, PipelineKept
  <2>2. pipe \in PipeOf(SafeFrames')
    BY <1>1, <2>1, PipeGrows
  <2>3. pipe' \in PipeOf(SafeFrames)'
    BY <2>2 DEF PipeOf, Cut, Event
  <2> QED
    BY <2>3 DEF RecoverableInv, PipelineKept, Short, Rising
<1>3. todo' \in Seq(Cutting(Safe))
  <2>1. todo \in Seq(Cutting(Safe))
    BY DEF RecoverableInv, TodoKept
  <2> QED
    BY <2>1, HeadTailProperties
<1>4. todo' \in Seq(Cutting(Safe'))
  BY <1>1, <1>3, CuttingGrows
<1> QED
  BY <1>1, <1>2, <1>4

\* Nor does it dispatch anything.
LEMMA DispatchedSame ==
  ASSUME RecoverableInv, UNCHANGED <<frames, logVars>>, dispatched' = dispatched, Over => Over',
         "finalized" \in DOMAIN st', st'.finalized = st.finalized,
         st.finalized => pc' = "renew" \/ Over'
  PROVE  DispatchedKept'
<1>1. Came' = Came
  BY LogSame DEF RecoverableInv
<1>2. Owed' = Owed
  BY <1>1 DEF Owed, logVars
<1> QED
  BY <1>2 DEF RecoverableInv, DispatchedKept

\* Records that stay reach what they reached.
LEMMA CoveredSame ==
  ASSUME RecoverableInv, UNCHANGED <<frames, logVars>>, Over => Over',
         UNCHANGED <<fo, cp, jobs>>, Recovering' => Recovering,
         pc' \in {"restore", "replay"} => pc' = pc,
         Reaches(st', "last"), "finalized" \in DOMAIN st',
         \A h \in DOMAIN handles' : Reaches(handles'[h], "last")
  PROVE  CoveredKept'
<1>1. Newest' = Newest /\ CameFrames' = CameFrames
  BY LogSame DEF RecoverableInv
<1>2. \A r, f : Reaches(r, f)' <=> Reaches(r, f)
  BY <1>1 DEF Reaches
<1> QED
  BY <1>1, <1>2 DEF RecoverableInv, CoveredKept

LEMMA RecoverableInit == Init => RecoverableInv
<1> SUFFICES ASSUME Init PROVE RecoverableInv
  OBVIOUS
<1>1. /\ retained = << >> /\ floor = 0 /\ trimmed = FALSE /\ frames = << >>
      /\ pipe = Fresh /\ todo = << >> /\ after = "idle" /\ pc = "init"
      /\ fo = NoFailover /\ cp = None /\ jobs = {} /\ handles = << >>
      /\ dispatched = << >> /\ st.last = 0 /\ st.finalized = FALSE
      /\ {"last", "finalized"} \subseteq DOMAIN st
  BY DEF Init, LogInit
<1>2. Newest = 0 /\ Came = {}
  BY <1>1 DEF Newest, Came
<1>3. LogKept
  <2>1. frames \in [{} -> CameFrames]
    BY <1>1
  <2>2. << >> \in Seq(Seqs) /\ << >> \in Seq({})
    BY EmptySeq
  <2>3. retained \in Seq(Seqs) /\ retained \in Seq(Came)
    BY <1>1, <1>2, <2>2
  <2>4. floor \in 0..Newest
    BY <1>1, <1>2
  <2>5. frames \in [Came -> CameFrames]
    BY <1>2, <2>1
  <2> QED
    BY <1>1, <1>2, <2>3, <2>4, <2>5 DEF LogKept
<1>4. PipelineKept
  <2>1. /\ pipe.ready = << >> /\ pipe.pending = << >> /\ pipe.preRoll = << >>
    BY <1>1 DEF Fresh
  <2> QED
    BY <1>1, <2>1, FreshHolds, ShortWhenEmpty, RisingWhenEmpty DEF PipelineKept
<1>5. TodoKept
  BY <1>1, EmptySeq DEF TodoKept, Recovering
<1>6. AfterKept
  BY <1>1 DEF AfterKept
<1>7. CoveredKept
  BY <1>1, <1>2 DEF CoveredKept, Reaches, Recovering, NoFailover
<1>8. DispatchedKept
  BY <1>1, EmptySeq DEF DispatchedKept
<1> QED
  BY <1>3, <1>4, <1>5, <1>6, <1>7, <1>8 DEF RecoverableInv

\* A session starts on an empty handle, or not at all.
LEMMA BeginKeepsRecoverable == RecoverableInv /\ Begin => RecoverableInv'
<1> SUFFICES ASSUME RecoverableInv, Begin PROVE RecoverableInv'
  OBVIOUS
<1>1. /\ pc = "init" /\ pc' \in {"idle", "done"}
      /\ UNCHANGED <<fo, cp, jobs, dispatched, pipe, frames, todo, after, logVars>>
      /\ DOMAIN st' = DOMAIN st /\ st'.last = st.last /\ st'.finalized = st.finalized
      /\ \A h \in DOMAIN handles' : \/ h \in DOMAIN handles /\ handles'[h] = handles[h]
                                    \/ "last" \in DOMAIN handles'[h] /\ handles'[h].last = 0
  <2>1. ASSUME NEW w \in Workers, Start(w)
        PROVE  /\ pc = "init" /\ pc' = "idle"
               /\ UNCHANGED <<fo, cp, jobs, dispatched, pipe, frames, todo, after, logVars>>
               /\ DOMAIN st' = DOMAIN st /\ st'.last = st.last /\ st'.finalized = st.finalized
               /\ \A h \in DOMAIN handles' :
                    \/ h \in DOMAIN handles /\ handles'[h] = handles[h]
                    \/ "last" \in DOMAIN handles'[h] /\ handles'[h].last = 0
    <3>1. st' = [st EXCEPT !.worker = w, !.handle = minted + 1, !.key = Key[w]]
      BY <2>1 DEF Start
    <3>2. handles' = Added(handles, minted + 1, Opened(w, << >>, 0))
      BY <2>1 DEF Start, NewHandle
    <3>3. DOMAIN st' = DOMAIN st /\ st'.last = st.last /\ st'.finalized = st.finalized
      BY <3>1 DEF RecoverableInv, CoveredKept, Reaches
    <3>4. \A h \in DOMAIN handles' : \/ h \in DOMAIN handles /\ handles'[h] = handles[h]
                                     \/ "last" \in DOMAIN handles'[h] /\ handles'[h].last = 0
      BY <3>2 DEF Added, Opened
    <3> QED
      BY <2>1, <3>3, <3>4 DEF Start, audioVars, ghosts
  <2>2. CASE StartRefused
    BY <2>2 DEF StartRefused, audioVars, ghosts, calls
  <2> QED
    BY <2>1, <2>2 DEF Begin
<1>2. Over => Over'
  BY <1>1 DEF Over
<1>3. LogKept' /\ PipelineKept' /\ todo' \in Seq(Cutting(Safe'))
  BY <1>1, <1>2, AudioSame
<1>4. TodoKept'
  <2>1. todo' \in Seq(Cutting(Safe))'
    BY <1>3 DEF Cutting, Cut
  <2> QED
    BY <1>1, <2>1 DEF RecoverableInv, TodoKept, Recovering
<1>5. AfterKept'
  BY <1>1 DEF RecoverableInv, AfterKept
<1>6. DispatchedKept'
  BY <1>1, <1>2, DispatchedSame DEF RecoverableInv, CoveredKept, DispatchedKept, Over
<1>7. CoveredKept'
  <2>1. Reaches(st', "last") /\ "finalized" \in DOMAIN st'
    BY <1>1 DEF RecoverableInv, CoveredKept, Reaches
  <2>2. \A h \in DOMAIN handles' : Reaches(handles'[h], "last")
    <3>1. 0 \in 0..Newest
      BY NewestNat DEF RecoverableInv
    <3> QED
      BY <1>1, <3>1 DEF RecoverableInv, CoveredKept, Reaches
  <2> QED
    BY <1>1, <1>2, <2>1, <2>2, CoveredSame DEF Recovering
<1> QED
  BY <1>3, <1>4, <1>5, <1>6, <1>7 DEF RecoverableInv

\* The sequence numbers of recorded frames.
LEMMA SeqsInHolds ==
  ASSUME NEW N, NEW recs \in Seq(Framing(N))
  PROVE  /\ SeqsIn(recs) \in Seq(N) /\ Len(SeqsIn(recs)) = Len(recs)
         /\ recs # << >> => SeqsIn(recs) \in Cut(N)
<1>1. Len(recs) \in Nat /\ \A i \in 1..Len(recs) : recs[i].seq \in N
  BY LenProperties, ElementOfSeq DEF Framing
<1>2. SeqsIn(recs) \in [1..Len(recs) -> N]
  BY <1>1 DEF SeqsIn
<1>3. SeqsIn(recs) \in Seq(N) /\ Len(SeqsIn(recs)) = Len(recs)
  BY <1>1, <1>2, SeqDef, LenProperties
<1>4. ASSUME recs # << >> PROVE SeqsIn(recs) \in Cut(N)
  <2>1. Len(recs) # 0
    BY <1>4, EmptySeq
  <2>2. Len(<< >>) = 0
    OBVIOUS
  <2>3. SeqsIn(recs) # << >>
    BY <1>3, <2>1, <2>2
  <2> QED
    BY <1>3, <2>3 DEF Cut
<1> QED
  BY <1>3, <1>4

LEMMA ChunksHold ==
  ASSUME NEW N, NEW cut \in Seq(Cut(Framing(N)))
  PROVE  Chunks(cut) \in Seq(Cutting(N))
<1>1. Len(cut) \in Nat
  BY LenProperties
<1>2. ASSUME NEW i \in 1..Len(cut) PROVE SeqsIn(cut[i]) \in Cut(N)
  <2>1. cut[i] \in Cut(Framing(N))
    BY ElementOfSeq
  <2>2. cut[i] \in Seq(Framing(N)) /\ cut[i] # << >>
    BY <2>1 DEF Cut
  <2> QED
    BY <2>2, SeqsInHolds
<1>3. Chunks(cut) \in [1..Len(cut) -> Cutting(N)]
  BY <1>2 DEF Chunks, Cutting
<1> QED
  BY <1>1, <1>3, SeqDef

LEMMA ForcedHolds ==
  ASSUME NEW N, NEW p, p.pending \in Seq(Framing(N))
  PROVE  Forced(p) \in Seq(Cutting(N))
<1>1. CASE p.pending = << >>
  BY <1>1, EmptySeq DEF Forced
<1>2. CASE p.pending # << >>
  <2> DEFINE c == [frames |-> SeqsIn(p.pending), forced |-> TRUE]
  <2>1. c \in Cutting(N)
    BY <1>2, SeqsInHolds DEF Cutting
  <2> HIDE DEF c
  <2>2. << c >> \in Seq(Cutting(N))
    BY <2>1
  <2>3. Forced(p) = << c >>
    BY <1>2 DEF Forced, c
  <2> QED
    BY <2>2, <2>3
<1> QED
  BY <1>1, <1>2

LEMMA LastAppended ==
  ASSUME NEW A, NEW s \in Seq(A), NEW x
  PROVE  Append(s, x) # << >> /\ Last(Append(s, x)) = x
<1>1. Len(s) \in Nat /\ Append(s, x) \in Seq(A \cup {x}) /\ Len(Append(s, x)) = Len(s) + 1
      /\ Append(s, x)[Len(s) + 1] = x
  <2>1. s \in Seq(A \cup {x})
    BY SeqGrows
  <2> QED
    BY <2>1, AppendProperties, LenProperties
<1>2. Append(s, x) # << >>
  BY <1>1, EmptySeq
<1> QED
  BY <1>1, <1>2 DEF Last

\* The journal with the next frame in it.
SafeWith == {s \in 1..Newest + 1 : trimmed => floor < s}

LEMMA FrameCame ==
  ASSUME RecoverableInv, NEW voiced \in BOOLEAN, ReceiveFrame(voiced)
  PROVE  LET f == [seq |-> Newest + 1, dur |-> FrameUs, voiced |-> voiced]
         IN  /\ LogKept' /\ Newest' = Newest + 1 /\ f \in Framing(SafeWith)
             /\ Safe \subseteq SafeWith /\ SafeWith \subseteq Safe' /\ Came \subseteq Came'
<1> DEFINE n == Newest + 1
           f == [seq |-> n, dur |-> FrameUs, voiced |-> voiced]
<1>1. /\ retained \in Seq(Seqs) /\ retained \in Seq(Came) /\ Came \subseteq Seqs
      /\ floor \in 0..Newest /\ trimmed \in BOOLEAN /\ Newest \in Nat
      /\ frames \in [Came -> CameFrames] /\ \A s \in Came : frames[s].seq = s
  BY NewestNat DEF RecoverableInv, LogKept
<1>2. /\ n \in Seqs /\ pc = "idle" /\ UNCHANGED <<floor, trimmed>>
      /\ frames' = Added(frames, n, f)
      /\ retained' = IF Len(retained) < Capacity THEN Append(retained, n)
                                                 ELSE Append(Tail(retained), n)
  <2>1. n = IF retained = << >> THEN 1 ELSE Last(retained) + 1
    BY DEF Newest
  <2> QED
    BY <2>1 DEF ReceiveFrame, Record
<1> HIDE DEF f
<1>3. f \in Recorded /\ f.seq = n
  BY <1>1, <1>2 DEF f, Recorded
<1> HIDE DEF n
<1>4. n \in Nat /\ n = Newest + 1
  BY <1>1 DEF n
<1>5. \E s : s \in Seq(Seqs) /\ s \in Seq(Came) /\ retained' = Append(s, n)
  <2>1. CASE Len(retained) < Capacity
    BY <1>1, <1>2, <2>1
  <2>2. CASE ~(Len(retained) < Capacity)
    <3>1. retained # << >>
      BY <1>1, <2>2, EmptySeq
    <3>2. Tail(retained) \in Seq(Seqs) /\ Tail(retained) \in Seq(Came)
      BY <1>1, <3>1, HeadTailProperties
    <3> QED
      BY <1>2, <2>2, <3>2
  <2> QED
    BY <2>1, <2>2
<1>6. PICK s : s \in Seq(Seqs) /\ s \in Seq(Came) /\ retained' = Append(s, n)
  BY <1>5
<1>7. Newest' = n
  BY <1>6, LastAppended DEF Newest
<1>8. Came' = Came \cup {n}
  BY <1>1, <1>4, <1>7 DEF Came
<1>9. retained' \in Seq(Seqs) /\ retained' \in Seq(Came')
  <2>1. s \in Seq(Came')
    BY <1>6, <1>8, SeqGrows
  <2>2. n \in Seqs /\ n \in Came'
    BY <1>2, <1>8
  <2> HIDE DEF Came
  <2> QED
    BY <1>6, <2>1, <2>2, AppendProperties
<1>10. frames' \in [Came' -> CameFrames'] /\ \A x \in Came' : frames'[x].seq = x
  <2>1. frames' = [x \in Came' |-> IF x = n THEN f ELSE frames[x]]
    BY <1>1, <1>2, <1>8 DEF Added
  <2>2. CameFrames \subseteq CameFrames' /\ f \in CameFrames'
    BY <1>3, <1>8 DEF CameFrames, Framing
  <2> QED
    BY <1>1, <1>3, <1>8, <2>1, <2>2
<1>11. LogKept'
  <2>1. Came' \subseteq Seqs
    BY <1>1, <1>2, <1>8
  <2>2. floor' \in 0..Newest'
    BY <1>1, <1>2, <1>4, <1>7
  <2> HIDE DEF Came
  <2> QED
    BY <1>1, <1>2, <1>9, <1>10, <2>1, <2>2 DEF LogKept
<1>12. SafeWith = {x \in Came' : trimmed => floor < x}
  BY <1>4, <1>7 DEF SafeWith, Came
<1>13. Safe \subseteq SafeWith
  BY <1>2, <1>8, <1>12 DEF Safe, Over
<1>14. SafeWith \subseteq Safe'
  BY <1>2, <1>12 DEF Safe
<1>15. f \in Framing(SafeWith)
  <2>1. n \in SafeWith
    BY <1>1, <1>4, <1>8, <1>12
  <2> QED
    BY <1>3, <2>1 DEF Framing
<1> QED
  BY <1>4, <1>7, <1>8, <1>11, <1>13, <1>14, <1>15 DEF n, f

\* What the pipeline makes of the next frame.
LEMMA FrameFed ==
  ASSUME RecoverableInv, NEW f \in Framing(SafeWith), f.seq = Newest + 1,
         Safe \subseteq SafeWith
  PROVE  LET q == ApplyHysteresis(pipe, f)
         IN  q \in PipeOf(Framing(SafeWith)) /\ Short(q) /\ Rising(q.preRoll)
<1> DEFINE F == Framing(SafeWith)
           q == ApplyHysteresis(pipe, f)
<1>1. F \subseteq Recorded /\ SafeFrames \subseteq F
  BY DEF SafeFrames, Framing
<1>2. pipe \in PipeOf(SafeFrames) /\ Short(pipe) /\ Rising(pipe.preRoll)
  BY DEF RecoverableInv, PipelineKept
<1>3. UpToSeq(pipe.preRoll, f.seq)
  <2>1. pipe.preRoll \in Seq(SafeFrames)
    BY <1>2 DEF PipeOf
  <2>2. ASSUME NEW i \in 1..Len(pipe.preRoll) PROVE pipe.preRoll[i].seq <= Newest + 1
    <3>1. pipe.preRoll[i] \in SafeFrames
      BY <2>1, ElementOfSeq
    <3> QED
      BY <3>1, NewestNat DEF RecoverableInv, SafeFrames, Framing, Safe, Came
  <2> QED
    BY <2>2 DEF UpToSeq
<1> HIDE DEF F
<1>4. pipe \in PipeOf(F)
  BY <1>1, <1>2, PipeGrows
<1>5. f \in F
  BY DEF F
<1>6. Stays(F, pipe, f, q)
  BY <1>1, <1>2, <1>4, <1>5, HysteresisStays
<1> QED
  BY <1>2, <1>3, <1>6 DEF Stays, F

\* The pipeline after its queues were drained, its tail cut or not.
LEMMA FrameLeaves ==
  ASSUME NEW F, NEW q \in PipeOf(F), Short(q), Rising(q.preRoll), NEW p,
         p = Drained(q) \/ p = Drained(AfterForceCut(q))
  PROVE  /\ p \in PipeOf(F) /\ p.ready = << >> /\ Short(p) /\ Rising(p.preRoll)
         /\ p = Drained(AfterForceCut(q)) => p.pending = << >>
<1>1. CASE p = Drained(q)
  <2>1. /\ p \in PipeOf(F) /\ p.ready = << >> /\ p.pending = q.pending /\ p.preRoll = q.preRoll
    BY <1>1, DrainedHolds
  <2>2. Short(p)
    BY <2>1 DEF Short
  <2>3. ASSUME p = Drained(AfterForceCut(q)) PROVE p.pending = << >>
    BY <2>3, AfterForceCutHolds, DrainedHolds
  <2> QED
    BY <2>1, <2>2, <2>3
<1>2. CASE p = Drained(AfterForceCut(q))
  <2>1. /\ AfterForceCut(q) \in PipeOf(F) /\ AfterForceCut(q).pending = << >>
        /\ AfterForceCut(q).preRoll = q.preRoll
    BY AfterForceCutHolds
  <2>2. /\ p \in PipeOf(F) /\ p.ready = << >> /\ p.pending = << >> /\ p.preRoll = q.preRoll
    BY <1>2, <2>1, DrainedHolds
  <2> QED
    BY <2>2, ShortWhenEmpty
<1> QED
  BY <1>1, <1>2

\* A frame, without the locals of its handler.
LEMMA FrameReceived ==
  ASSUME RecoverableInv, NEW voiced \in BOOLEAN, ReceiveFrame(voiced)
  PROVE  /\ LogKept' /\ PipelineKept' /\ todo' \in Seq(Cutting(Safe'))
         /\ after' = "idle" \/ (after' = "endpoint" /\ pipe'.pending = << >>)
         /\ Came \subseteq Came' /\ Newest' = Newest + 1
<1> DEFINE f == [seq |-> Newest + 1, dur |-> FrameUs, voiced |-> voiced]
           q == ApplyHysteresis(pipe, f)
           ended == \E i \in DOMAIN q.events : q.events[i].type = "endpoint"
<1>1. /\ LogKept' /\ Newest' = Newest + 1 /\ f \in Framing(SafeWith)
      /\ Safe \subseteq SafeWith /\ SafeWith \subseteq Safe' /\ Came \subseteq Came'
  BY FrameCame
<1>2. f.seq = Newest + 1
  OBVIOUS
<1>3. /\ pipe' = Drained(IF ended THEN AfterForceCut(q) ELSE q)
      /\ todo' = Chunks(q.ready) \o IF ended THEN Forced(q) ELSE << >>
      /\ after' = IF ended THEN "endpoint" ELSE "idle"
  <2>1. Newest + 1 = IF retained = << >> THEN 1 ELSE Last(retained) + 1
    BY DEF Newest
  <2> QED
    BY <2>1 DEF ReceiveFrame
<1> HIDE DEF f
<1>4. q \in PipeOf(Framing(SafeWith)) /\ Short(q) /\ Rising(q.preRoll)
  BY <1>1, <1>2, FrameFed
<1> HIDE DEF q, ended
<1>5. /\ pipe' \in PipeOf(Framing(SafeWith)) /\ pipe'.ready = << >>
      /\ Short(pipe') /\ Rising(pipe'.preRoll)
      /\ ended => pipe'.pending = << >>
  <2>1. pipe' = IF ended THEN Drained(AfterForceCut(q)) ELSE Drained(q)
    BY <1>3
  <2> QED
    BY <1>4, <2>1, FrameLeaves
<1>6. PipelineKept'
  <2>1. Framing(SafeWith) \subseteq SafeFrames'
    BY <1>1 DEF SafeFrames, Framing
  <2>2. pipe' \in PipeOf(SafeFrames')
    BY <1>5, <2>1, PipeGrows
  <2>3. pipe' \in PipeOf(SafeFrames)'
    BY <2>2 DEF PipeOf, Cut, Event
  <2> QED
    BY <1>5, <2>3 DEF PipelineKept, Short, Rising
<1>7. todo' \in Seq(Cutting(SafeWith))
  <2>1. q.ready \in Seq(Cut(Framing(SafeWith))) /\ q.pending \in Seq(Framing(SafeWith))
    BY <1>4 DEF PipeOf
  <2>2. Chunks(q.ready) \in Seq(Cutting(SafeWith)) /\ Forced(q) \in Seq(Cutting(SafeWith))
    BY <2>1, ChunksHold, ForcedHolds
  <2>3. << >> \in Seq(Cutting(SafeWith))
    BY EmptySeq
  <2> QED
    BY <1>3, <2>2, <2>3, ConcatProperties
<1>8. todo' \in Seq(Cutting(Safe'))
  BY <1>1, <1>7, CuttingGrows
<1> QED
  BY <1>1, <1>3, <1>5, <1>6, <1>8

\* Frames are received at rest; a frame is newer than the floor, and so is
\* every frame that is cut with it.
LEMMA ReceiveKeepsRecoverable == RecoverableInv /\ Receive => RecoverableInv'
<1> SUFFICES ASSUME RecoverableInv, Receive PROVE RecoverableInv'
  OBVIOUS
<1>1. ASSUME NEW voiced \in BOOLEAN, ReceiveFrame(voiced) PROVE RecoverableInv'
  <2>1. /\ LogKept' /\ PipelineKept' /\ todo' \in Seq(Cutting(Safe'))
        /\ after' = "idle" \/ (after' = "endpoint" /\ pipe'.pending = << >>)
        /\ Came \subseteq Came' /\ Newest' = Newest + 1
    BY <1>1, FrameReceived
  <2>2. /\ pc = "idle" /\ pc' \in {"dispatch", "ended"}
        /\ UNCHANGED <<fo, cp, jobs, handles, dispatched, floor, trimmed>>
        /\ DOMAIN st' = DOMAIN st /\ st'.last = st.last /\ st'.finalized = st.finalized
    <3>1. /\ pc = "idle" /\ pc' \in {"dispatch", "ended"}
          /\ UNCHANGED <<fo, cp, jobs, handles, dispatched, floor, trimmed>>
      BY <1>1 DEF ReceiveFrame, Onward, calls, ghosts, Record
    <3>2. DOMAIN st' = DOMAIN st /\ st'.last = st.last /\ st'.finalized = st.finalized
      BY <1>1 DEF ReceiveFrame, RecoverableInv, CoveredKept, Reaches
    <3> QED
      BY <3>1, <3>2
  <2>3. TodoKept'
    <3>1. todo' \in Seq(Cutting(Safe))'
      BY <2>1 DEF Cutting, Cut
    <3> QED
      BY <2>2, <3>1 DEF TodoKept, Recovering
  <2>4. AfterKept'
    BY <2>1, <2>2 DEF AfterKept
  <2>5. CoveredKept'
    <3>1. Newest \in Nat
      BY NewestNat DEF RecoverableInv
    <3>2. \A r, field : Reaches(r, field) => Reaches(r, field)'
      BY <2>1, <3>1 DEF Reaches
    <3>3. Reaches(st, "last")' /\ "finalized" \in DOMAIN st'
      BY <2>2, <3>1, <2>1 DEF RecoverableInv, CoveredKept, Reaches
    <3>4. ~Recovering' /\ pc' \notin {"restore", "replay"}
      BY <2>2 DEF Recovering
    <3>5. \A h \in DOMAIN handles' : Reaches(handles[h], "last")'
      BY <2>2, <3>2 DEF RecoverableInv, CoveredKept
    <3>6. cp' # None => Reaches(cp, "seq")'
      <4>1. cp # None => Reaches(cp, "seq")
        BY DEF RecoverableInv, CoveredKept
      <4> QED
        BY <2>1, <2>2, <3>1, <4>1 DEF Reaches
    <3>7. \A j \in jobs' : "taken" \in DOMAIN j /\ (j.taken # None => Reaches(j.taken, "seq")')
      BY <2>2, <3>2 DEF RecoverableInv, CoveredKept
    <3> QED
      BY <2>2, <3>3, <3>4, <3>5, <3>6, <3>7 DEF RecoverableInv, CoveredKept
  <2>6. DispatchedKept'
    <3>1. Owed \subseteq Owed'
      BY <2>1, <2>2 DEF Owed
    <3>2. dispatched \in Seq(Owed')
      BY <3>1, SeqGrows DEF RecoverableInv, DispatchedKept
    <3> QED
      BY <2>2, <3>2 DEF RecoverableInv, DispatchedKept, Over
  <2> QED
    BY <2>1, <2>3, <2>4, <2>5, <2>6 DEF RecoverableInv
<1>2. CASE ReceiveEnd
  <2>1. /\ todo' = Forced(pipe) /\ pipe' = AfterForceCut(pipe) /\ after' = "end"
        /\ pc = "idle" /\ pc' = "dispatch"
        /\ UNCHANGED <<st, fo, cp, jobs, handles, dispatched, frames, logVars>>
    BY <1>2 DEF ReceiveEnd, calls, ghosts
  <2>2. Over => Over'
    BY <2>1 DEF Over
  <2>3. /\ LogKept' /\ Safe \subseteq Safe' /\ SafeFrames \subseteq SafeFrames'
    BY <2>1, <2>2, LogSame DEF RecoverableInv
  <2>4. PipelineKept'
    <3>1. pipe \in PipeOf(SafeFrames) /\ pipe.ready = << >> /\ Rising(pipe.preRoll)
      BY DEF RecoverableInv, PipelineKept
    <3>2. /\ pipe' \in PipeOf(SafeFrames) /\ pipe'.pending = << >> /\ pipe'.ready = << >>
          /\ pipe'.preRoll = pipe.preRoll
      BY <2>1, <3>1, AfterForceCutHolds
    <3>3. pipe' \in PipeOf(SafeFrames')
      BY <2>3, <3>2, PipeGrows
    <3>4. pipe' \in PipeOf(SafeFrames)'
      BY <3>3 DEF PipeOf, Cut, Event
    <3>5. Short(pipe')
      BY <3>2, ShortWhenEmpty
    <3> QED
      BY <3>1, <3>2, <3>4, <3>5 DEF PipelineKept, Short, Rising
  <2>5. TodoKept'
    <3>1. pipe.pending \in Seq(Framing(Safe))
      BY DEF RecoverableInv, PipelineKept, PipeOf, SafeFrames
    <3>2. todo' \in Seq(Cutting(Safe'))
      BY <2>1, <2>3, <3>1, ForcedHolds, CuttingGrows
    <3>3. todo' \in Seq(Cutting(Safe))'
      BY <3>2 DEF Cutting, Cut
    <3> QED
      BY <2>1, <3>3 DEF TodoKept, Recovering
  <2>6. AfterKept'
    BY <2>1 DEF AfterKept
  <2>7. CoveredKept'
    BY <2>1, <2>2, CoveredSame DEF RecoverableInv, CoveredKept, Recovering
  <2>8. DispatchedKept'
    BY <2>1, <2>2, DispatchedSame DEF RecoverableInv, CoveredKept, DispatchedKept, Over
  <2> QED
    BY <2>3, <2>4, <2>5, <2>6, <2>7, <2>8 DEF RecoverableInv
<1>3. CASE ReceiveClosed
  <2>1. /\ pc = "idle" /\ pc' = "ended"
        /\ UNCHANGED <<st, fo, cp, jobs, handles, dispatched, pipe, frames, todo, after, logVars>>
    BY <1>3 DEF ReceiveClosed, calls, ghosts, audioVars
  <2>2. Over => Over'
    BY <2>1 DEF Over
  <2>3. LogKept' /\ PipelineKept' /\ todo' \in Seq(Cutting(Safe'))
    BY <2>1, <2>2, AudioSame
  <2>4. TodoKept'
    <3>1. todo' \in Seq(Cutting(Safe))'
      BY <2>3 DEF Cutting, Cut
    <3> QED
      BY <2>1, <3>1 DEF TodoKept, Recovering
  <2>5. AfterKept'
    BY <2>1 DEF RecoverableInv, AfterKept
  <2>6. CoveredKept'
    BY <2>1, <2>2, CoveredSame DEF RecoverableInv, CoveredKept, Recovering
  <2>7. DispatchedKept'
    BY <2>1, <2>2, DispatchedSame DEF RecoverableInv, CoveredKept, DispatchedKept, Over
  <2> QED
    BY <2>3, <2>4, <2>5, <2>6, <2>7 DEF RecoverableInv
<1> QED
  BY <1>1, <1>2, <1>3 DEF Receive

\* What a step must still show if it leaves the pipeline and the journal alone.
LEMMA StepKeeps ==
  ASSUME RecoverableInv, UNCHANGED <<pipe, frames, after, logVars>>, Over => Over',
         todo' = todo \/ (todo # << >> /\ todo' = Tail(todo)),
         pc' \in {"init", "idle", "final", "renew"} => todo' = << >>,
         pc' = "pushing" \/ Recovering' => todo' # << >>,
         pc' = "final" => pc = "final" \/ after # "idle",
         pc' = "renew" => pc = "renew",
         CoveredKept', DispatchedKept'
  PROVE  RecoverableInv'
<1>1. LogKept' /\ PipelineKept' /\ todo' \in Seq(Cutting(Safe'))
  BY AudioSame
<1>2. todo' \in Seq(Cutting(Safe))'
  BY <1>1 DEF Cutting, Cut
<1>3. TodoKept'
  BY <1>2 DEF TodoKept, Recovering
<1>4. AfterKept'
  BY DEF RecoverableInv, AfterKept
<1> QED
  BY <1>1, <1>3, <1>4 DEF RecoverableInv

\* A chunk in hand is of frames that came and are above the floor.
LEMMA ChunkInHand ==
  ASSUME RecoverableInv, todo # << >>
  PROVE  /\ Chunk.frames \in Cut(Safe) /\ SeqEnd(Chunk) \in Safe
         /\ SeqEnd(Chunk) \in 0..Newest
<1>1. Chunk \in Cutting(Safe)
  BY HeadTailProperties DEF RecoverableInv, TodoKept, Chunk
<1>2. Chunk.frames \in Seq(Safe) /\ Chunk.frames # << >>
  BY <1>1 DEF Cutting, Cut
<1>3. Len(Chunk.frames) \in 1..Len(Chunk.frames)
  BY <1>2, LenProperties, EmptySeq
<1>4. Last(Chunk.frames) \in Safe
  BY <1>2, <1>3, ElementOfSeq DEF Last
<1> QED
  BY <1>2, <1>4, NewestNat DEF RecoverableInv, SeqEnd, Cut, Safe, Came

\* Dispatching a chunk while the session goes on.
LEMMA DueKept ==
  ASSUME RecoverableInv, todo # << >>, ~Over, UNCHANGED <<frames, logVars>>, Over => Over',
         dispatched' = Due,
         "finalized" \in DOMAIN st', st'.finalized = st.finalized, ~st.finalized
  PROVE  DispatchedKept'
<1>1. Came' = Came
  BY LogSame DEF RecoverableInv
<1>2. Owed' = Owed
  BY <1>1 DEF Owed, logVars
<1>3. Safe \subseteq Owed
  BY DEF Safe, Owed
<1>4. Chunk.frames \in Seq(Owed)
  <2>1. Chunk.frames \in Seq(Safe)
    BY ChunkInHand DEF Cut
  <2> QED
    BY <1>3, <2>1, SeqGrows
<1>5. dispatched' \in Seq(Owed)
  <2>1. dispatched \in Seq(Owed)
    BY DEF RecoverableInv, DispatchedKept
  <2> QED
    BY <1>4, <2>1, ConcatProperties DEF Due
<1> QED
  BY <1>2, <1>5 DEF DispatchedKept, RecoverableInv

\* An answered push: what the worker covers, the session mirrors.
LEMMA AppliedKeeps ==
  ASSUME RecoverableInv, NEW h, Applied(h), Reaches(h, "last"), todo # << >>,
         pc \in {"dispatch", "pushing"},
         \A x \in DOMAIN handles' : Reaches(handles'[x], "last")
  PROVE  RecoverableInv'
<1>1. /\ UNCHANGED <<fo, cp, pipe, frames, after, logVars>>
      /\ todo' = Tail(todo) /\ dispatched' = Due /\ pc' \in {"dispatch", "ended"}
      /\ jobs' \subseteq jobs \cup {[id |-> st.rev + 1, key |-> st.key, handle |-> st.handle,
                                     taken |-> None]}
  BY DEF Applied, Onward
<1>2. ~Over /\ ~Recovering' /\ pc' \notin {"restore", "replay"} /\ ~Recovering
  BY <1>1 DEF Over, Recovering
<1>3. DOMAIN st' = DOMAIN st /\ st'.finalized = st.finalized /\ st'.last = h.last
  BY DEF Applied, Mirrored, RecoverableInv, CoveredKept, Reaches
<1>4. ~st.finalized
  BY <1>2 DEF RecoverableInv, DispatchedKept
<1>5. DispatchedKept'
  BY <1>1, <1>2, <1>3, <1>4, DueKept DEF RecoverableInv, CoveredKept
<1>6. CoveredKept'
  <2>1. Newest' = Newest
    BY <1>1, <1>2, LogSame DEF RecoverableInv
  <2>2. \A r, f : Reaches(r, f)' <=> Reaches(r, f)
    BY <2>1 DEF Reaches
  <2>3. Reaches(st', "last")
    BY <1>3 DEF Reaches, RecoverableInv, CoveredKept
  <2>4. \A j \in jobs' : "taken" \in DOMAIN j /\ (j.taken # None => Reaches(j.taken, "seq"))
    BY <1>1 DEF RecoverableInv, CoveredKept
  <2> QED
    BY <1>1, <1>2, <1>3, <2>2, <2>3, <2>4 DEF RecoverableInv, CoveredKept
<1> QED
  BY <1>1, <1>2, <1>5, <1>6, StepKeeps

\* A push advances what is covered to the end of its chunk, dispatches what was
\* in hand, or leaves both to a recovery.
LEMMA DispatchKeepsRecoverable == RecoverableInv /\ Dispatch => RecoverableInv'
<1> SUFFICES ASSUME RecoverableInv, Dispatch PROVE RecoverableInv'
  OBVIOUS
<1>0. \A h \in DOMAIN handles : Reaches(handles[h], "last")
  BY DEF RecoverableInv, CoveredKept
<1>1. CASE AllDispatched
  <2>1. /\ pc = "dispatch" /\ todo = << >> /\ pc' = IF after = "idle" THEN "idle" ELSE "final"
        /\ UNCHANGED <<st, fo, cp, jobs, handles, dispatched, pipe, frames, todo, after, logVars>>
    BY <1>1 DEF AllDispatched, calls, ghosts, audioVars
  <2>2. ~Over /\ ~Over' /\ ~Recovering /\ ~Recovering' /\ pc' \notin {"restore", "replay"}
    BY <2>1 DEF Over, Recovering
  <2>3. CoveredKept'
    BY <1>0, <2>1, <2>2, CoveredSame DEF RecoverableInv, CoveredKept
  <2>4. DispatchedKept'
    BY <2>1, <2>2, DispatchedSame DEF RecoverableInv, CoveredKept, DispatchedKept
  <2> QED
    BY <2>1, <2>2, <2>3, <2>4, StepKeeps
<1>2. CASE PushInfer
  <2>1. /\ pc = "dispatch" /\ todo # << >> /\ pc' = "pushing"
        /\ UNCHANGED <<st, fo, cp, jobs, dispatched, pipe, frames, todo, after, logVars>>
        /\ handles' = [handles EXCEPT ![st.handle].model = @ \o Chunk.frames]
    BY <1>2 DEF PushInfer, Calling, ghosts, audioVars
  <2>2. ~Over /\ ~Over' /\ ~Recovering /\ ~Recovering' /\ pc' \notin {"restore", "replay"}
    BY <2>1 DEF Over, Recovering
  <2>3. \A h \in DOMAIN handles' : Reaches(handles'[h], "last")
    BY <1>0, <2>1 DEF Reaches
  <2>4. CoveredKept'
    BY <2>1, <2>2, <2>3, CoveredSame DEF RecoverableInv, CoveredKept
  <2>5. DispatchedKept'
    BY <2>1, <2>2, DispatchedSame DEF RecoverableInv, CoveredKept, DispatchedKept
  <2> QED
    BY <2>1, <2>2, <2>4, <2>5, StepKeeps
<1>3. CASE PushCommit
  <2>1. pc = "pushing" /\ st.handle \in DOMAIN handles /\ Applied(Committed(Owner))
        /\ handles' = [handles EXCEPT ![st.handle] = Committed(@)]
    BY <1>3 DEF PushCommit, Answers
  <2>2. todo # << >>
    BY <2>1 DEF RecoverableInv, TodoKept
  <2>3. \A h \in DOMAIN handles : Reaches(Committed(handles[h]), "last")
    BY <1>0, <2>2, ChunkInHand DEF Committed, Reaches
  <2>4. Reaches(Committed(Owner), "last")
    BY <2>1, <2>3 DEF Owner
  <2>5. \A h \in DOMAIN handles' : Reaches(handles'[h], "last")
    BY <1>0, <2>1, <2>3
  <2> QED
    BY <2>1, <2>2, <2>4, <2>5, AppliedKeeps
<1>4. CASE PushRepeated
  <2>1. /\ pc = "dispatch" /\ todo # << >> /\ st.handle \in DOMAIN handles /\ Applied(Owner)
        /\ handles' = handles
    BY <1>4 DEF PushRepeated, Calling, Answers
  <2>2. Reaches(Owner, "last")
    BY <1>0, <2>1 DEF Owner
  <2> QED
    BY <1>0, <2>1, <2>2, AppliedKeeps
<1>5. CASE PushFails
  <2>1. /\ pc \in {"dispatch", "pushing"} /\ pc' = "pick" /\ todo # << >>
        /\ UNCHANGED <<st, cp, jobs, dispatched, pipe, frames, todo, after, logVars>>
        /\ \/ handles' = handles \/ handles' = [handles EXCEPT ![st.handle] = Committed(@)]
        /\ fo'.prev = st /\ {"prev", "replay"} \subseteq DOMAIN fo'
    BY <1>5 DEF PushFails, Calling, ghosts, audioVars, NoFailover, RecoverableInv, TodoKept
  <2>2. ~Over /\ ~Over' /\ ~Recovering /\ pc' \notin {"restore", "replay"}
    BY <2>1 DEF Over, Recovering
  <2>3. \A h \in DOMAIN handles' : Reaches(handles'[h], "last")
    <3>1. \A h \in DOMAIN handles : Reaches(Committed(handles[h]), "last")
      BY <1>0, <2>1, ChunkInHand DEF Committed, Reaches
    <3> QED
      BY <1>0, <2>1, <3>1
  <2>4. CoveredKept'
    <3>1. Newest' = Newest
      BY <2>1, <2>2, LogSame DEF RecoverableInv
    <3>2. \A r, f : Reaches(r, f)' <=> Reaches(r, f)
      BY <3>1 DEF Reaches
    <3>3. st.finalized = FALSE
      <4>1. st.finalized \in BOOLEAN
        BY DEF RecoverableInv, DispatchedKept
      <4>2. ~st.finalized
        BY <2>1, <2>2 DEF RecoverableInv, DispatchedKept
      <4> QED
        BY <4>1, <4>2, Zenon
    <3> QED
      BY <2>1, <2>2, <2>3, <3>2, <3>3 DEF RecoverableInv, CoveredKept
  <2>5. DispatchedKept'
    BY <2>1, <2>2, DispatchedSame DEF RecoverableInv, CoveredKept, DispatchedKept
  <2> QED
    BY <2>1, <2>2, <2>4, <2>5, StepKeeps
<1> QED
  BY <1>1, <1>2, <1>3, <1>4, <1>5 DEF Dispatch

\* The journal's records replay into chunks of frames that came.
LEMMA ReplayHolds ==
  ASSUME LogKept, NEW seqs \in Seq(Came)
  PROVE  Recut(TRUE, Records(seqs)) \in Seq(Cut(CameFrames))
<1>1. Len(seqs) \in Nat
  BY LenProperties
<1>2. ASSUME NEW i \in 1..Len(seqs) PROVE frames[seqs[i]] \in CameFrames
  BY ElementOfSeq DEF LogKept
<1>3. Records(seqs) \in [1..Len(seqs) -> CameFrames]
  BY <1>2 DEF Records
<1>4. Records(seqs) \in Seq(CameFrames)
  BY <1>1, <1>3, SeqDef
<1>5. CameFrames \subseteq Recorded
  BY DEF CameFrames, Framing
<1> QED
  BY <1>4, <1>5, RecutHolds

LEMMA ReplayedCame ==
  ASSUME LogKept
  PROVE  AboveFloor \in Seq(Came) /\ \A s : RetainedAfter(s) \in Seq(Came)
<1>1. retained \in Seq(Came)
  BY DEF LogKept
<1>2. \A s : RetainedAfter(s) \in Seq(Came)
  BY <1>1, DroppingSelects DEF RetainedAfter
<1> QED
  BY <1>1, <1>2 DEF AboveFloor

\* The end of a chunk of frames that came.
LEMMA ReplayedEnd ==
  ASSUME LogKept, NEW cut \in Cut(CameFrames)
  PROVE  Last(SeqsIn(cut)) \in 0..Newest
<1>1. cut \in Seq(Framing(Came)) /\ cut # << >>
  BY DEF Cut, CameFrames
<1>2. SeqsIn(cut) \in Seq(Came) /\ SeqsIn(cut) # << >>
  BY <1>1, SeqsInHolds DEF Cut
<1>3. Len(SeqsIn(cut)) \in 1..Len(SeqsIn(cut))
  BY <1>2, LenProperties, EmptySeq
<1>4. Last(SeqsIn(cut)) \in Came
  BY <1>2, <1>3, ElementOfSeq DEF Last
<1> QED
  BY <1>4, NewestNat DEF Came

\* A recovery's step, while it has not dispatched anything: the session's last
\* and those of its handles came, and so do the chunks of a replay.
LEMMA RecoveringKeeps ==
  ASSUME RecoverableInv, Recovering,
         UNCHANGED <<cp, jobs, dispatched, pipe, frames, todo, after, logVars>>,
         Recovering' \/ pc' = "ended",
         Reaches(st', "last"), "finalized" \in DOMAIN st', st'.finalized = FALSE,
         {"prev", "replay"} \subseteq DOMAIN fo', Recovering' => fo'.prev = fo.prev,
         pc' = "restore" => Reaches(cp, "seq"),
         pc' = "replay" => fo'.replay \in Seq(Cut(CameFrames)),
         \A h \in DOMAIN handles' : Reaches(handles'[h], "last")
  PROVE  RecoverableInv'
<1>1. ~Over /\ pc' \notin {"init", "idle", "final", "renew", "pushing"}
  BY DEF Over, Recovering
<1>2. ~st.finalized /\ st.finalized \in BOOLEAN
  BY DEF RecoverableInv, DispatchedKept, Over, Recovering
<1>3. DispatchedKept'
  <2>1. Came' = Came
    BY <1>1, LogSame DEF RecoverableInv
  <2>2. Owed' = Owed
    BY <1>2, <2>1 DEF Owed, logVars
  <2>3. st'.finalized \in BOOLEAN /\ ~st'.finalized
    OBVIOUS
  <2> QED
    BY <2>2, <2>3 DEF RecoverableInv, DispatchedKept
<1>4. CoveredKept'
  <2>1. Newest' = Newest /\ CameFrames' = CameFrames
    BY <1>1, LogSame DEF RecoverableInv
  <2>2. \A r, f : Reaches(r, f)' <=> Reaches(r, f)
    BY <2>1 DEF Reaches
  <2>3. fo'.replay \in Seq(Cut(CameFrames)) => (fo.replay \in Seq(Cut(CameFrames)))'
    BY <2>1 DEF Cut
  <2> QED
    BY <2>1, <2>2, <2>3 DEF RecoverableInv, CoveredKept
<1>5. todo # << >>
  BY DEF RecoverableInv, TodoKept
<1> QED
  BY <1>1, <1>3, <1>4, <1>5, StepKeeps

LEMMA RecoveryKeepsRecoverable == RecoverableInv /\ Recovery => RecoverableInv'
<1> SUFFICES ASSUME RecoverableInv, Recovery PROVE RecoverableInv'
  OBVIOUS
<1>0. /\ \A h \in DOMAIN handles : Reaches(handles[h], "last")
      /\ Reaches(st, "last") /\ "finalized" \in DOMAIN st /\ {"prev", "replay"} \subseteq DOMAIN fo
      /\ Recovering => /\ Reaches(fo.prev, "last") /\ "finalized" \in DOMAIN fo.prev
                       /\ fo.prev.finalized = FALSE
      /\ cp # None => Reaches(cp, "seq")
      /\ LogKept /\ Newest \in Nat
  BY NewestNat DEF RecoverableInv, CoveredKept
<1>00. Recovering => st.finalized = FALSE
  <2> SUFFICES ASSUME Recovering PROVE st.finalized = FALSE
    OBVIOUS
  <2>1. st.finalized \in BOOLEAN
    BY DEF RecoverableInv, DispatchedKept
  <2>2. ~st.finalized
    BY DEF RecoverableInv, DispatchedKept, Recovering, Over
  <2> QED
    BY <2>1, <2>2, Zenon
<1>1. ASSUME NEW w \in Workers, Pick(w) PROVE RecoverableInv'
  <2>1. /\ pc = "pick" /\ pc' \in {"restore", "open"}
        /\ UNCHANGED <<st, handles, cp, jobs, dispatched, pipe, frames, todo, after, logVars>>
        /\ DOMAIN fo' = DOMAIN fo /\ fo'.prev = fo.prev
    BY <1>0, <1>1 DEF Pick, calls, ghosts, audioVars
  <2>2. Recovering /\ Recovering' /\ pc' # "replay"
    BY <2>1 DEF Recovering
  <2>3. pc' = "restore" => Reaches(cp, "seq")
    BY <1>0, <1>1 DEF Pick, CanRestore
  <2> QED
    BY <1>0, <1>00, <2>1, <2>2, <2>3, RecoveringKeeps
<1>2. CASE GiveUp
  <2>1. /\ pc = "pick" /\ pc' = "ended" /\ fo' = NoFailover
        /\ UNCHANGED <<st, handles, cp, jobs, dispatched, pipe, frames, todo, after, logVars>>
    BY <1>2 DEF GiveUp, calls, ghosts, audioVars
  <2>2. Recovering /\ ~Recovering' /\ pc' \notin {"restore", "replay"} /\ {"prev", "replay"} \subseteq DOMAIN fo'
    BY <2>1 DEF Recovering, NoFailover
  <2> QED
    BY <1>0, <1>00, <2>1, <2>2, RecoveringKeeps
<1>3. CASE Restore
  <2> DEFINE chunks == Recut(TRUE, Records(TailAfter(cp.seq)))
             new == Opened(fo.target, cp.model, cp.seq)
  <2>1. /\ pc = "restore" /\ pc' = "replay"
        /\ UNCHANGED <<cp, jobs, dispatched, pipe, frames, todo, after, logVars>>
        /\ st' = Installed(fo.target, minted + 1, cp.seq)
        /\ fo' = [fo EXCEPT !.replay = chunks]
        /\ handles' = Added(handles, minted + 1, new)
    BY <1>3 DEF Restore, NewHandle, audioVars
  <2>2. chunks \in Seq(Cut(CameFrames))
    BY <1>0, ReplayHolds, ReplayedCame DEF TailAfter
  <2> HIDE DEF chunks
  <2>3. Reaches(cp, "seq")
    BY <1>0, <2>1 DEF RecoverableInv, CoveredKept
  <2>4. /\ Reaches(st', "last") /\ "finalized" \in DOMAIN st' /\ st'.finalized = st.finalized
    BY <1>0, <2>1, <2>3 DEF Installed, Reaches
  <2>5. \A h \in DOMAIN handles' : Reaches(handles'[h], "last")
    BY <1>0, <2>1, <2>3 DEF Added, Opened, Reaches
  <2>6. DOMAIN fo' = DOMAIN fo /\ fo'.prev = fo.prev /\ fo'.replay = chunks
    BY <1>0, <2>1
  <2>7. Recovering /\ Recovering'
    BY <2>1 DEF Recovering
  <2> QED
    BY <1>0, <1>00, <2>1, <2>2, <2>4, <2>5, <2>6, <2>7, RecoveringKeeps
<1>4. CASE RestoreFails
  <2>1. /\ pc = "restore" /\ pc' = "open"
        /\ UNCHANGED <<st, fo, handles, cp, jobs, dispatched, pipe, frames, todo, after, logVars>>
    BY <1>4 DEF RestoreFails, calls, ghosts, audioVars
  <2>2. Recovering /\ Recovering'
    BY <2>1 DEF Recovering
  <2> QED
    BY <1>0, <1>00, <2>1, <2>2, RecoveringKeeps
<1>5. CASE Open
  <2> DEFINE chunks == Recut(TRUE, Records(ReplayFrom))
             new == Opened(fo.target, << >>, 0)
  <2>1. /\ pc = "open" /\ pc' = "replay"
        /\ UNCHANGED <<cp, jobs, dispatched, pipe, frames, todo, after, logVars>>
        /\ st' = Installed(fo.target, minted + 1, st.last)
        /\ fo' = [fo EXCEPT !.replay = chunks]
        /\ handles' = Added(handles, minted + 1, new)
    BY <1>5 DEF Open, NewHandle, audioVars, ghosts
  <2>2. chunks \in Seq(Cut(CameFrames))
    BY <1>0, ReplayHolds, ReplayedCame DEF ReplayFrom
  <2> HIDE DEF chunks
  <2>4. /\ Reaches(st', "last") /\ "finalized" \in DOMAIN st' /\ st'.finalized = st.finalized
    BY <1>0, <2>1 DEF Installed, Reaches
  <2>5. \A h \in DOMAIN handles' : Reaches(handles'[h], "last")
    BY <1>0, <2>1 DEF Added, Opened, Reaches
  <2>6. DOMAIN fo' = DOMAIN fo /\ fo'.prev = fo.prev /\ fo'.replay = chunks
    BY <1>0, <2>1
  <2>7. Recovering /\ Recovering'
    BY <2>1 DEF Recovering
  <2> QED
    BY <1>0, <1>00, <2>1, <2>2, <2>4, <2>5, <2>6, <2>7, RecoveringKeeps
<1>6. CASE Replay
  <2> DEFINE chunk == SeqsIn(Head(fo.replay))
  <2>1. /\ pc = "replay" /\ pc' = "replay" /\ fo.replay # << >> /\ st.handle \in DOMAIN handles
        /\ UNCHANGED <<cp, jobs, dispatched, pipe, frames, todo, after, logVars>>
        /\ fo' = [fo EXCEPT !.replay = Tail(@), !.text = TRUE]
        /\ \/ /\ handles' = handles
              /\ st' = [st EXCEPT !.gen = Owner.gen, !.last = Owner.last]
           \/ /\ handles' = [handles EXCEPT ![st.handle] = Absorbed(@, chunk)]
              /\ st' = [st EXCEPT !.gen = @ + 1, !.last = Last(chunk)]
    BY <1>6 DEF Replay, Answers, audioVars, ghosts
  <2>2. Head(fo.replay) \in Cut(CameFrames) /\ Tail(fo.replay) \in Seq(Cut(CameFrames))
    BY <2>1, HeadTailProperties DEF RecoverableInv, CoveredKept
  <2>3. Last(chunk) \in 0..Newest
    BY <1>0, <2>2, ReplayedEnd
  <2> HIDE DEF chunk
  <2>4. \A h \in DOMAIN handles : Reaches(Absorbed(handles[h], chunk), "last")
    BY <1>0, <2>3 DEF Absorbed, Reaches
  <2>5. \A h \in DOMAIN handles' : Reaches(handles'[h], "last")
    BY <1>0, <2>1, <2>4
  <2>6. Owner.last \in 0..Newest
    BY <1>0, <2>1 DEF Owner, Reaches
  <2>7. /\ Reaches(st', "last") /\ "finalized" \in DOMAIN st' /\ st'.finalized = st.finalized
    BY <1>0, <2>1, <2>3, <2>6 DEF Reaches
  <2>8. DOMAIN fo' = DOMAIN fo /\ fo'.prev = fo.prev /\ fo'.replay = Tail(fo.replay)
    BY <1>0, <2>1
  <2>9. Recovering /\ Recovering'
    BY <2>1 DEF Recovering
  <2> QED
    BY <1>0, <1>00, <2>1, <2>2, <2>5, <2>7, <2>8, <2>9, RecoveringKeeps
<1>7. CASE AttemptFails
  <2>1. /\ pc \in {"open", "replay"} /\ pc' = "pick" /\ st' = fo.prev /\ fo' = Excluding
        /\ handles' = handles \/ handles' = Closed(st.handle)
        /\ UNCHANGED <<cp, jobs, dispatched, pipe, frames, todo, after, logVars>>
    BY <1>7 DEF AttemptFails, CloseSent, RolledBack, audioVars, ghosts
  <2>2. Recovering /\ Recovering'
    BY <2>1 DEF Recovering
  <2>3. \A h \in DOMAIN handles' : Reaches(handles'[h], "last")
    BY <1>0, <2>1 DEF Closed
  <2>4. DOMAIN fo' = DOMAIN fo /\ fo'.prev = fo.prev
    BY <1>0, <2>1 DEF Excluding
  <2> QED
    BY <1>0, <2>1, <2>2, <2>3, <2>4, RecoveringKeeps
<1>8. CASE TakeOver
  <2>1. /\ pc = "replay" /\ pc' \in {"dispatch", "ended"} /\ fo' = NoFailover
        /\ UNCHANGED <<handles, cp, jobs, pipe, frames, after, logVars>>
        /\ todo' = Tail(todo) /\ dispatched' = Due
        /\ st' = [st EXCEPT !.rev = IF fo.text THEN @ + 1 ELSE @]
    BY <1>8 DEF TakeOver, Onward, calls
  <2>2. /\ DOMAIN st' = DOMAIN st /\ st'.last = st.last /\ st'.finalized = st.finalized
    BY <1>0, <2>1 DEF Reaches
  <2>3. Recovering /\ ~Recovering' /\ ~Over /\ pc' \notin {"restore", "replay"}
    BY <2>1 DEF Recovering, Over
  <2>4. todo # << >>
    BY <2>3 DEF RecoverableInv, TodoKept
  <2>5. DispatchedKept'
    BY <1>0, <1>00, <2>1, <2>2, <2>3, <2>4, DueKept
  <2>6. CoveredKept'
    <3>1. Newest' = Newest
      BY <2>1, <2>3, LogSame DEF RecoverableInv
    <3>2. \A r, f : Reaches(r, f)' <=> Reaches(r, f)
      BY <3>1 DEF Reaches
    <3>3. Reaches(st', "last") /\ "finalized" \in DOMAIN st'
      BY <1>0, <2>2 DEF Reaches
    <3>4. {"prev", "replay"} \subseteq DOMAIN fo'
      BY <2>1 DEF NoFailover
    <3> QED
      BY <1>0, <2>1, <2>3, <3>2, <3>3, <3>4 DEF RecoverableInv, CoveredKept
  <2> QED
    BY <2>1, <2>3, <2>4, <2>5, <2>6, StepKeeps
<1> QED
  BY <1>1, <1>2, <1>3, <1>4, <1>5, <1>6, <1>7, <1>8 DEF Recovery

\* A pipeline that holds nothing but its pre-roll.
LEMMA OnlyPreRoll ==
  ASSUME NEW F, NEW G, NEW p \in PipeOf(F), p.ready = << >>, p.pending = << >>,
         p.preRoll \in Seq(G)
  PROVE  p \in PipeOf(G)
<1>1. p.pending \in Seq(G) /\ p.ready \in Seq(Cut(G))
  BY EmptySeq
<1> HIDE DEF Cut, Event
<1> QED
  BY <1>1 DEF PipeOf

\* The floor of a final is below what the pipeline keeps for the next one.
LEMMA FloorBelowPreRoll ==
  ASSUME RecoverableInv, after = "endpoint" \/ after = "end"
  PROVE  /\ TrimFloor \in 0..Newest
         /\ after = "endpoint" =>
              \A i \in 1..Len(pipe.preRoll) : TrimFloor < pipe.preRoll[i].seq
<1>1. /\ st.last \in 0..Newest /\ Newest \in Nat
      /\ pipe.preRoll \in Seq(SafeFrames) /\ Rising(pipe.preRoll)
  BY NewestNat DEF RecoverableInv, CoveredKept, Reaches, PipelineKept, PipeOf
<1>2. \A i \in 1..Len(pipe.preRoll) : pipe.preRoll[i].seq \in 1..Newest
  BY <1>1, ElementOfSeq DEF SafeFrames, Framing, Safe, Came
<1>3. CASE HasRetention(pipe)
  <2>1. 1 \in 1..Len(pipe.preRoll)
    BY <1>1, <1>3, EmptySeq, LenProperties DEF HasRetention
  <2>2. /\ RetentionStart(pipe) \in 1..Newest
        /\ \A i \in 1..Len(pipe.preRoll) : RetentionStart(pipe) <= pipe.preRoll[i].seq
    <3>1. RetentionStart(pipe) = pipe.preRoll[1].seq
      BY DEF RetentionStart
    <3>2. \A i \in 1..Len(pipe.preRoll) : pipe.preRoll[1].seq <= pipe.preRoll[i].seq
      BY <1>1, <1>2, <2>1 DEF Rising
    <3> QED
      BY <1>2, <2>1, <3>1, <3>2
  <2>3. TrimFloor = IF after = "endpoint" /\ RetentionStart(pipe) - 1 < st.last
                    THEN RetentionStart(pipe) - 1 ELSE st.last
    BY <1>3 DEF TrimFloor
  <2> HIDE DEF TrimFloor
  <2>4. ASSUME NEW start \in 1..Newest, start = RetentionStart(pipe) PROVE TrimFloor \in 0..Newest
    BY <1>1, <2>3, <2>4
  <2>5. after = "endpoint" => TrimFloor < RetentionStart(pipe)
    BY <1>1, <2>2, <2>3
  <2> QED
    BY <1>1, <1>2, <2>2, <2>4, <2>5
<1>4. CASE ~HasRetention(pipe)
  <2>1. TrimFloor = st.last
    BY <1>4 DEF TrimFloor
  <2>2. 1..Len(pipe.preRoll) = {}
    BY <1>4 DEF HasRetention
  <2> QED
    BY <1>1, <2>1, <2>2
<1> QED
  BY <1>3, <1>4

LEMMA FinalizeKeepsRecoverable ==
  ASSUME RecoverableInv, Finalize
  PROVE  RecoverableInv'
<1>1. /\ pc = "final" /\ pc' = IF after = "end" THEN "ended" ELSE "renew"
      /\ UNCHANGED <<fo, cp, jobs, handles, dispatched, pipe, frames, todo, after, retained>>
      /\ st' = [st EXCEPT !.finalized = TRUE] /\ floor' = TrimFloor /\ trimmed' = TRUE
  BY DEF Finalize, Commit, calls
<1>2. /\ after \in {"endpoint", "end"} /\ todo = << >> /\ Newest \in Nat
      /\ after = "endpoint" => pipe.pending = << >>
  BY <1>1, NewestNat DEF RecoverableInv, AfterKept, TodoKept
<1>3. /\ TrimFloor \in 0..Newest
      /\ after = "endpoint" => \A i \in 1..Len(pipe.preRoll) : TrimFloor < pipe.preRoll[i].seq
  BY <1>2, FloorBelowPreRoll
<1>4. Newest' = Newest /\ Came' = Came /\ CameFrames' = CameFrames
  BY <1>1 DEF Newest, Came, CameFrames, Framing
<1>5. LogKept'
  BY <1>1, <1>3, <1>4 DEF RecoverableInv, LogKept
<1>6. /\ pipe \in PipeOf(SafeFrames) /\ pipe.ready = << >>
      /\ Short(pipe) /\ Rising(pipe.preRoll)
  BY DEF RecoverableInv, PipelineKept
<1>7. pipe \in PipeOf(SafeFrames')
  <2>1. CASE after = "end"
    <3>1. SafeFrames \subseteq SafeFrames'
      BY <1>1, <1>4, <2>1 DEF SafeFrames, Framing, Safe, Over
    <3> QED
      BY <1>6, <3>1, PipeGrows
  <2>2. CASE after = "endpoint"
    <3>1. pipe.preRoll \in Seq(SafeFrames)
      BY <1>6 DEF PipeOf
    <3>2. SafeFrames \subseteq Recorded
      BY DEF SafeFrames, Framing
    <3>3. ASSUME NEW i \in 1..Len(pipe.preRoll) PROVE pipe.preRoll[i] \in SafeFrames'
      <4>1. pipe.preRoll[i] \in SafeFrames
        BY <3>1, ElementOfSeq
      <4>2. TrimFloor < pipe.preRoll[i].seq
        BY <1>3, <2>2
      <4> QED
        BY <1>1, <1>4, <4>1, <4>2 DEF SafeFrames, Framing, Safe
    <3>4. pipe.preRoll \in Seq(SafeFrames')
      BY <3>1, <3>2, <3>3, AmongHolds
    <3> QED
      BY <1>2, <1>6, <2>2, <3>4, OnlyPreRoll
  <2> QED
    BY <1>2, <2>1, <2>2
<1>8. PipelineKept'
  <2>1. pipe' \in PipeOf(SafeFrames)'
    BY <1>1, <1>7 DEF PipeOf, Cut, Event
  <2> QED
    BY <1>1, <1>6, <2>1 DEF PipelineKept, Short, Rising
<1>9. TodoKept'
  BY <1>1, <1>2, EmptySeq DEF TodoKept, Recovering
<1>10. AfterKept'
  BY <1>1, <1>2 DEF AfterKept
<1>11. /\ DOMAIN st' = DOMAIN st /\ st'.last = st.last /\ st'.finalized = TRUE
  BY <1>1 DEF RecoverableInv, CoveredKept, Reaches
<1>12. CoveredKept'
  <2>1. \A r, f : Reaches(r, f)' <=> Reaches(r, f)
    BY <1>4 DEF Reaches
  <2>2. Reaches(st', "last") /\ "finalized" \in DOMAIN st'
    BY <1>11 DEF RecoverableInv, CoveredKept, Reaches
  <2>3. ~Recovering' /\ pc' \notin {"restore", "replay"}
    BY <1>1 DEF Recovering
  <2> QED
    BY <1>1, <2>1, <2>2, <2>3 DEF RecoverableInv, CoveredKept
<1>13. DispatchedKept'
  <2>1. Owed' = Came /\ Owed \subseteq Came
    BY <1>4, <1>11 DEF Owed
  <2>2. dispatched \in Seq(Came)
    BY <2>1, SeqGrows DEF RecoverableInv, DispatchedKept
  <2>3. st'.finalized \in BOOLEAN
    BY <1>11
  <2>4. pc' = "renew" \/ Over'
    BY <1>1 DEF Over
  <2> QED
    BY <1>1, <2>1, <2>2, <2>3, <2>4 DEF DispatchedKept
<1> QED
  BY <1>5, <1>8, <1>9, <1>10, <1>12, <1>13 DEF RecoverableInv

\* A final trims below the next pre-roll, and the next utterance owes nothing.
LEMMA EndingKeepsRecoverable == RecoverableInv /\ Ending => RecoverableInv'
<1> SUFFICES ASSUME RecoverableInv, Ending PROVE RecoverableInv'
  OBVIOUS
<1>0. /\ \A h \in DOMAIN handles : Reaches(handles[h], "last")
      /\ Reaches(st, "last") /\ "finalized" \in DOMAIN st
      /\ Newest \in Nat
  BY NewestNat DEF RecoverableInv, CoveredKept
<1>1. CASE Finalize
  BY <1>1, FinalizeKeepsRecoverable
<1>2. CASE FinalizeFails
  <2>1. /\ pc = "final" /\ pc' = "ended"
        /\ UNCHANGED <<st, fo, cp, jobs, handles, dispatched, pipe, frames, todo, after, logVars>>
    BY <1>2 DEF FinalizeFails, calls, ghosts, audioVars
  <2>2. ~Over /\ Over' /\ ~Recovering' /\ pc' \notin {"restore", "replay"}
    BY <2>1 DEF Over, Recovering
  <2>3. CoveredKept'
    BY <1>0, <2>1, <2>2, CoveredSame
  <2>4. DispatchedKept'
    BY <1>0, <2>1, <2>2, DispatchedSame
  <2> QED
    BY <2>1, <2>2, <2>3, <2>4, StepKeeps
<1>3. CASE Renew
  <2>1. /\ pc = "renew" /\ pc' = "idle" /\ cp' = None /\ dispatched' = << >>
        /\ UNCHANGED <<fo, jobs, pipe, frames, todo, after, logVars>>
        /\ st' = [Renewed EXCEPT !.handle = minted + 1, !.gen = 0]
        /\ handles' = Added(Closed(st.handle), minted + 1, Opened(st.worker, << >>, 0))
    BY <1>3 DEF Renew, audioVars
  <2>2. ~Over /\ ~Over' /\ ~Recovering' /\ pc' \notin {"restore", "replay"} /\ todo = << >>
    BY <2>1 DEF Over, Recovering, RecoverableInv, TodoKept
  <2>3. /\ DOMAIN st' = DOMAIN st /\ st'.last = st.last /\ st'.finalized = FALSE
    BY <1>0, <2>1 DEF Renewed, Reaches
  <2>4. \A h \in DOMAIN handles' : Reaches(handles'[h], "last")
    BY <1>0, <2>1 DEF Added, Closed, Opened, Reaches
  <2>5. Newest' = Newest
    BY <2>1, <2>2, LogSame DEF RecoverableInv
  <2>6. CoveredKept'
    <3>1. \A r, f : Reaches(r, f)' <=> Reaches(r, f)
      BY <2>5 DEF Reaches
    <3>2. Reaches(st', "last")
      BY <1>0, <2>3 DEF Reaches
    <3> QED
      BY <1>0, <2>1, <2>2, <2>3, <2>4, <3>1, <3>2 DEF RecoverableInv, CoveredKept
  <2>7. DispatchedKept'
    <3>1. st'.finalized \in BOOLEAN /\ ~st'.finalized
      BY <2>3
    <3> QED
      BY <2>1, <3>1, EmptySeq DEF DispatchedKept
  <2> QED
    BY <2>1, <2>2, <2>6, <2>7, StepKeeps
<1>4. CASE RenewFails
  <2>1. /\ pc = "renew" /\ pc' = "ended" /\ handles' \in {handles, Closed(st.handle)}
        /\ UNCHANGED <<st, fo, cp, jobs, dispatched, pipe, frames, todo, after, logVars>>
    BY <1>4 DEF RenewFails, CloseSent, ghosts, audioVars
  <2>2. ~Over /\ Over' /\ ~Recovering' /\ pc' \notin {"restore", "replay"}
    BY <2>1 DEF Over, Recovering
  <2>3. \A h \in DOMAIN handles' : Reaches(handles'[h], "last")
    BY <1>0, <2>1 DEF Closed
  <2>4. CoveredKept'
    BY <1>0, <2>1, <2>2, <2>3, CoveredSame
  <2>5. DispatchedKept'
    BY <1>0, <2>1, <2>2, DispatchedSame
  <2> QED
    BY <2>1, <2>2, <2>4, <2>5, StepKeeps
<1>5. CASE Cleanup
  <2>1. /\ pc = "ended" /\ pc' = "done" /\ cp' = None
        /\ handles' = handles \/ handles' = Closed(st.handle)
        /\ UNCHANGED <<st, fo, jobs, dispatched, pipe, frames, todo, after, logVars>>
    BY <1>5 DEF Cleanup, ghosts, audioVars
  <2>2. Over /\ Over' /\ ~Recovering' /\ pc' \notin {"restore", "replay"}
    BY <2>1 DEF Over, Recovering
  <2>3. \A h \in DOMAIN handles' : Reaches(handles'[h], "last")
    BY <1>0, <2>1 DEF Closed
  <2>4. CoveredKept'
    <3>1. Newest' = Newest
      BY <2>1, <2>2, LogSame DEF RecoverableInv
    <3>2. \A r, f : Reaches(r, f)' <=> Reaches(r, f)
      BY <3>1 DEF Reaches
    <3> QED
      BY <1>0, <2>1, <2>2, <2>3, <3>2 DEF RecoverableInv, CoveredKept
  <2>5. DispatchedKept'
    BY <1>0, <2>1, <2>2, DispatchedSame
  <2> QED
    BY <2>1, <2>2, <2>4, <2>5, StepKeeps
<1> QED
  BY <1>1, <1>2, <1>3, <1>4, <1>5 DEF Ending

\* What happens beside the session's goroutine: a checkpoint reaches what its
\* handle reached.
LEMMA BesideKeeps ==
  ASSUME RecoverableInv,
         UNCHANGED <<pc, st, fo, dispatched, pipe, frames, todo, after, logVars>>,
         \A h \in DOMAIN handles' : Reaches(handles'[h], "last"),
         cp' # None => Reaches(cp', "seq"), Reaches(cp, "seq") => Reaches(cp', "seq"),
         \A j \in jobs' : "taken" \in DOMAIN j /\ (j.taken # None => Reaches(j.taken, "seq"))
  PROVE  RecoverableInv'
<1>1. Over' = Over /\ Recovering' = Recovering
  BY DEF Over, Recovering
<1>2. Newest' = Newest /\ CameFrames' = CameFrames
  BY <1>1, LogSame DEF RecoverableInv
<1>3. \A r, f : Reaches(r, f)' <=> Reaches(r, f)
  BY <1>2 DEF Reaches
<1>4. CoveredKept'
  <2>1. fo'.replay \in Seq(Cut(CameFrames)) => (fo.replay \in Seq(Cut(CameFrames)))'
    BY <1>2 DEF Cut
  <2> QED
    BY <1>1, <1>3, <2>1 DEF RecoverableInv, CoveredKept
<1>5. DispatchedKept'
  BY <1>1, DispatchedSame DEF RecoverableInv, CoveredKept, DispatchedKept
<1> QED
  BY <1>1, <1>4, <1>5, StepKeeps DEF RecoverableInv, TodoKept

LEMMA BesideKeepsRecoverable == RecoverableInv /\ (Checkpoints \/ World) => RecoverableInv'
<1> SUFFICES ASSUME RecoverableInv, Checkpoints \/ World PROVE RecoverableInv'
  OBVIOUS
<1>0. /\ \A h \in DOMAIN handles : Reaches(handles[h], "last")
      /\ cp # None => Reaches(cp, "seq")
      /\ \A j \in jobs : "taken" \in DOMAIN j /\ (j.taken # None => Reaches(j.taken, "seq"))
  BY DEF RecoverableInv, CoveredKept
<1>1. ASSUME NEW j \in jobs, CheckpointTaken(j) PROVE RecoverableInv'
  <2> DEFINE seen == [key |-> j.key, seq |-> handles[j.handle].last,
                      model |-> handles[j.handle].model, intact |-> TRUE]
             done == [j EXCEPT !.taken = seen]
  <2>1. /\ j.handle \in DOMAIN handles /\ jobs' = (jobs \ {j}) \cup {done}
        /\ UNCHANGED <<pc, st, fo, dispatched, pipe, frames, todo, after, logVars, handles, cp>>
    BY <1>1 DEF CheckpointTaken, CheckpointResp, ghosts, audioVars
  <2>2. Reaches(seen, "seq")
    BY <1>0, <2>1 DEF Reaches
  <2> HIDE DEF seen
  <2>3. "taken" \in DOMAIN done /\ done.taken = seen
    BY <1>0
  <2> HIDE DEF done
  <2>4. \A x \in jobs' : "taken" \in DOMAIN x /\ (x.taken # None => Reaches(x.taken, "seq"))
    BY <1>0, <2>1, <2>2, <2>3
  <2> QED
    BY <1>0, <2>1, <2>4, BesideKeeps
<1>2. ASSUME NEW j \in jobs, CheckpointStored(j) PROVE RecoverableInv'
  BY <1>0, <1>2, BesideKeeps DEF CheckpointStored, ghosts, audioVars
<1>3. ASSUME NEW j \in jobs, CheckpointFails(j) PROVE RecoverableInv'
  BY <1>0, <1>3, BesideKeeps DEF CheckpointFails, ghosts, audioVars
<1>4. ASSUME NEW w \in Workers, Crash(w) PROVE RecoverableInv'
  BY <1>0, <1>4, BesideKeeps DEF Crash, ghosts, audioVars
<1>5. ASSUME NEW w \in Workers, Restart(w) PROVE RecoverableInv'
  BY <1>0, <1>5, BesideKeeps DEF Restart, calls, ghosts, audioVars
<1>6. CASE Corrupt
  <2>1. /\ cp # None /\ cp' = [cp EXCEPT !.intact = FALSE]
        /\ UNCHANGED <<pc, st, fo, dispatched, pipe, frames, todo, after, logVars, handles, jobs>>
    BY <1>6 DEF Corrupt, ghosts, audioVars
  <2>2. Reaches(cp', "seq")
    BY <1>0, <2>1 DEF Reaches
  <2> QED
    BY <1>0, <2>1, <2>2, BesideKeeps
<1>7. CASE Disconnect
  BY <1>0, <1>7, BesideKeeps DEF Disconnect, calls, ghosts, audioVars
<1> QED
  BY <1>1, <1>2, <1>3, <1>4, <1>5, <1>6, <1>7 DEF Checkpoints, World

LEMMA RecoverableStep == RecoverableInv /\ [Next]_vars => RecoverableInv'
<1> SUFFICES ASSUME RecoverableInv, [Next]_vars PROVE RecoverableInv'
  OBVIOUS
<1>1. CASE Goroutine
  BY <1>1, BeginKeepsRecoverable, ReceiveKeepsRecoverable, DispatchKeepsRecoverable,
     RecoveryKeepsRecoverable, EndingKeepsRecoverable DEF Goroutine
<1>2. CASE Checkpoints \/ World
  BY <1>2, BesideKeepsRecoverable
<1>3. CASE UNCHANGED vars
  BY <1>3, BesideKeeps DEF vars, calls, ghosts, audioVars, RecoverableInv, CoveredKept
<1> QED
  BY <1>1, <1>2, <1>3 DEF Next

\* No final trims what an open utterance has been acknowledged for, nor what
\* its next pre-roll may hold (finalText, RetentionStart): whatever fails, the
\* journal still has it above the floor that a replay starts from.
THEOREM DispatchedStaysRecoverable == Spec => []DispatchedIsRecoverable
<1>1. RecoverableInv => DispatchedIsRecoverable
  <2> SUFFICES ASSUME RecoverableInv, trimmed, ~st.finalized, NEW i \in 1..Len(dispatched)
               PROVE  dispatched[i] > floor
    BY DEF DispatchedIsRecoverable
  <2>1. dispatched[i] \in Owed
    BY ElementOfSeq DEF RecoverableInv, DispatchedKept
  <2>2. floor \in Nat /\ dispatched[i] \in Nat /\ floor < dispatched[i]
    BY <2>1, NewestNat DEF RecoverableInv, LogKept, Owed, Came
  <2> QED
    BY <2>2
<1> QED
  BY RecoverableInit, RecoverableStep, <1>1, PTL DEF Spec

-------------------------------------------------------------------------------
(* Types.  A recovery counts its attempts and never makes one too many; the *)
(* goroutines of a session stay within their bound; and whatever state a    *)
(* failed attempt puts back names a handle there was.                       *)

WorldTyped == alive \subseteq Workers /\ faults \in 0..MaxFaults

JobsTyped == IsFiniteSet(jobs) /\ Cardinality(jobs) <= MaxJobs

Names(s) == /\ {"worker", "handle"} \subseteq DOMAIN s
            /\ s.worker \in Workers \cup {None} /\ s.handle \in 0..minted

PlaceTyped == minted \in Nat /\ Names(st) /\ (Recovering => Names(fo.prev))

AttemptTyped ==
  /\ {"attempt", "excluded", "target", "replay", "prev"} \subseteq DOMAIN fo
  /\ fo.attempt \in 0..MaxAttempts + 1 /\ fo.excluded \subseteq Workers
  /\ pc \in {"restore", "open", "replay"} => fo.attempt <= MaxAttempts
  /\ pc \in {"init", "idle", "dispatch", "pushing", "pick", "restore", "open",
             "replay", "final", "renew", "ended", "done"}

TypesInv == WorldTyped /\ JobsTyped /\ PlaceTyped /\ AttemptTyped

LEMMA TypesInit == Init => TypesInv
<1> SUFFICES ASSUME Init PROVE TypesInv
  OBVIOUS
<1>1. WorldTyped
  BY DEF Init, WorldTyped
<1>2. JobsTyped
  BY FS_EmptySet DEF Init, JobsTyped
<1>3. PlaceTyped
  BY DEF Init, PlaceTyped, Names, Recovering
<1>4. AttemptTyped
  BY DEF Init, AttemptTyped, NoFailover
<1> QED
  BY <1>1, <1>2, <1>3, <1>4 DEF TypesInv

\* A fault is counted only while there is one left.
LEMMA WorldKept == WorldTyped /\ [Next]_vars => WorldTyped'
<1> SUFFICES ASSUME WorldTyped, [Next]_vars PROVE WorldTyped'
  OBVIOUS
<1>1. CASE UNCHANGED <<alive, faults>>
  BY <1>1 DEF WorldTyped
<1>2. CASE UNCHANGED alive /\ faults < MaxFaults /\ faults' = faults + 1
  BY <1>2 DEF WorldTyped
<1>3. CASE Begin \/ Receive \/ Checkpoints \/ UNCHANGED vars
  BY <1>1, <1>3 DEF Begin, Receive, Checkpoints, Start, StartRefused, ReceiveFrame, ReceiveEnd,
                    ReceiveClosed, CheckpointTaken, CheckpointStored, CheckpointFails, vars, world
<1>4. CASE Dispatch
  BY <1>1, <1>2, <1>4 DEF Dispatch, AllDispatched, PushInfer, PushCommit, PushRepeated, Applied,
                          PushFails, CallFails, Fails, world
<1>5. CASE Recovery
  BY <1>1, <1>2, <1>5 DEF Recovery, Pick, GiveUp, Restore, RestoreFails, Open, Replay, AttemptFails,
                          TakeOver, CallFails, OpenFails, RestoreCallFails, Fails, world
<1>6. CASE Ending
  BY <1>1, <1>2, <1>6 DEF Ending, Finalize, FinalizeFails, Renew, RenewFails, Cleanup,
                          FlushFails, OpenFails, Fails, world
<1>7. CASE World
  <2>1. ASSUME NEW w \in Workers, Crash(w) PROVE WorldTyped'
    <3>1. alive' = alive \ {w} /\ faults < MaxFaults /\ faults' = faults + 1
      BY <2>1 DEF Crash
    <3> QED
      BY <3>1 DEF WorldTyped
  <2>2. ASSUME NEW w \in Workers, Restart(w) PROVE WorldTyped'
    <3>1. alive' = alive \cup {w} /\ faults' = faults
      BY <2>2 DEF Restart
    <3> QED
      BY <3>1, <2>2 DEF WorldTyped
  <2>3. CASE Corrupt
    BY <1>2, <2>3 DEF Corrupt
  <2>4. CASE Disconnect
    BY <1>1, <1>2, <2>4 DEF Disconnect
  <2> QED
    BY <1>7, <2>1, <2>2, <2>3, <2>4 DEF World
<1> QED
  BY <1>3, <1>4, <1>5, <1>6, <1>7 DEF Next, Goroutine

\* A goroutine is started only below the bound, and one that has its
\* checkpoint is the same goroutine.
LEMMA JobsKept == JobsTyped /\ [Next]_vars => JobsTyped'
<1> SUFFICES ASSUME JobsTyped, [Next]_vars PROVE JobsTyped'
  OBVIOUS
<1>1. CASE UNCHANGED jobs
  BY <1>1 DEF JobsTyped
<1>2. ASSUME NEW j, jobs' = jobs \cup {j}, Cardinality(jobs) < MaxJobs PROVE JobsTyped'
  <2>1. IsFiniteSet(jobs') /\ Cardinality(jobs) \in Nat
        /\ Cardinality(jobs') \in {Cardinality(jobs), Cardinality(jobs) + 1}
    BY <1>2, FS_AddElement, FS_CardinalityType DEF JobsTyped
  <2> QED
    BY <1>2, <2>1 DEF JobsTyped
<1>3. ASSUME NEW j \in jobs, NEW k, jobs' = jobs \ {j} \/ jobs' = (jobs \ {j}) \cup {k}
      PROVE  JobsTyped'
  <2>1. /\ IsFiniteSet(jobs \ {j}) /\ Cardinality(jobs \ {j}) = Cardinality(jobs) - 1
        /\ Cardinality(jobs) \in Nat
    BY FS_RemoveElement, FS_CardinalityType DEF JobsTyped
  <2>2. /\ IsFiniteSet((jobs \ {j}) \cup {k})
        /\ Cardinality((jobs \ {j}) \cup {k}) \in {Cardinality(jobs) - 1, Cardinality(jobs) - 1 + 1}
    BY <2>1, FS_AddElement
  <2>3. Cardinality((jobs \ {j}) \cup {k}) <= MaxJobs
    BY <2>1, <2>2 DEF JobsTyped
  <2>4. Cardinality(jobs \ {j}) <= MaxJobs
    BY <2>1 DEF JobsTyped
  <2>5. CASE jobs' = jobs \ {j}
    BY <2>1, <2>4, <2>5 DEF JobsTyped
  <2>6. CASE jobs' = (jobs \ {j}) \cup {k}
    BY <2>2, <2>3, <2>6 DEF JobsTyped
  <2> QED
    BY <1>3, <2>5, <2>6
<1>4. CASE Begin \/ Receive \/ World \/ UNCHANGED vars
  BY <1>1, <1>4 DEF Begin, Receive, World, Start, StartRefused, ReceiveFrame, ReceiveEnd,
                    ReceiveClosed, Crash, Restart, Corrupt, Disconnect, vars, calls
<1>5. CASE Dispatch
  BY <1>1, <1>2, <1>5 DEF Dispatch, AllDispatched, PushInfer, PushCommit, PushRepeated, Applied,
                          PushFails, calls
<1>6. CASE Recovery
  BY <1>1, <1>6 DEF Recovery, Pick, GiveUp, Restore, RestoreFails, Open, Replay, AttemptFails,
                    TakeOver, calls
<1>7. CASE Ending
  BY <1>1, <1>7 DEF Ending, Finalize, FinalizeFails, Renew, RenewFails, Cleanup, calls
<1>8. CASE Checkpoints
  BY <1>3, <1>8 DEF Checkpoints, CheckpointTaken, CheckpointStored, CheckpointFails
<1> QED
  BY <1>4, <1>5, <1>6, <1>7, <1>8 DEF Next, Goroutine

\* A recovery goes on only with an attempt left, and excludes workers only.
LEMMA AttemptKept == LedgerInv /\ AttemptTyped /\ [Next]_vars => AttemptTyped'
<1> SUFFICES ASSUME LedgerInv, AttemptTyped, [Next]_vars PROVE AttemptTyped'
  OBVIOUS
<1> USE DEF AttemptTyped
<1>1. CASE Begin
  BY <1>1 DEF Begin, Start, StartRefused
<1>2. CASE Receive
  BY <1>2 DEF Receive, ReceiveFrame, ReceiveEnd, ReceiveClosed, Onward
<1>3. CASE Dispatch
  <2>1. CASE PushFails
    <3>1. st.worker \in Workers
      BY <2>1 DEF PushFails, Calling, LedgerInv, HasWorker
    <3>2. /\ pc' = "pick"
          /\ fo' = [NoFailover EXCEPT !.owner = st.worker, !.excluded = {st.worker},
                                      !.attempt = 1, !.prev = st]
      BY <2>1 DEF PushFails
    <3> QED
      BY <3>1, <3>2 DEF NoFailover
  <2>2. CASE AllDispatched \/ PushInfer \/ PushCommit \/ PushRepeated
    BY <2>2 DEF AllDispatched, PushInfer, PushCommit, PushRepeated, Applied, Onward
  <2> QED
    BY <1>3, <2>1, <2>2 DEF Dispatch
<1>4. CASE Recovery
  <2>1. ASSUME NEW w \in Workers, Pick(w) PROVE AttemptTyped'
    BY <2>1 DEF Pick
  <2>2. CASE GiveUp
    BY <2>2 DEF GiveUp, NoFailover
  <2>3. CASE Restore \/ Open \/ Replay \/ RestoreFails
    BY <2>3 DEF Restore, Open, Replay, RestoreFails
  <2>4. CASE AttemptFails
    <3>1. pc \in {"open", "replay"} /\ pc' = "pick" /\ fo' = Excluding
      BY <2>4 DEF AttemptFails
    <3>2. fo.target \in Workers
      BY <3>1 DEF LedgerInv, CandidateIsOther
    <3> QED
      BY <3>1, <3>2 DEF Excluding
  <2>5. CASE TakeOver
    BY <2>5 DEF TakeOver, Onward, NoFailover
  <2> QED
    BY <1>4, <2>1, <2>2, <2>3, <2>4, <2>5 DEF Recovery
<1>5. CASE Ending
  BY <1>5 DEF Ending, Finalize, FinalizeFails, Renew, RenewFails, Cleanup
<1>6. CASE Checkpoints \/ World \/ UNCHANGED vars
  BY <1>6 DEF Checkpoints, World, CheckpointTaken, CheckpointStored, CheckpointFails, Crash,
              Restart, Corrupt, Disconnect, vars
<1> QED
  BY <1>1, <1>2, <1>3, <1>4, <1>5, <1>6 DEF Next, Goroutine

\* The state names a worker, and a handle that was made.
LEMMA PlaceKept == LedgerInv /\ AttemptTyped /\ PlaceTyped /\ [Next]_vars => PlaceTyped'
<1> SUFFICES ASSUME LedgerInv, AttemptTyped, PlaceTyped, [Next]_vars PROVE PlaceTyped'
  OBVIOUS
<1> USE DEF PlaceTyped, Names
<1>1. ASSUME UNCHANGED <<minted, fo>>, Recovering' => Recovering, DOMAIN st' = DOMAIN st,
             st'.worker = st.worker, st'.handle = st.handle
      PROVE  PlaceTyped'
  BY <1>1
<1>2. CASE Begin
  <2>1. ASSUME NEW w \in Workers, Start(w) PROVE PlaceTyped'
    <3>1. /\ st' = [st EXCEPT !.worker = w, !.handle = minted + 1, !.key = Key[w]]
          /\ minted' = minted + 1 /\ pc' = "idle"
      BY <2>1 DEF Start, NewHandle
    <3>2. /\ DOMAIN st' = DOMAIN st /\ st'.worker = w /\ st'.handle = minted + 1
          /\ ~Recovering'
      BY <3>1 DEF Recovering
    <3> QED
      BY <3>1, <3>2
  <2>2. CASE StartRefused
    BY <2>2 DEF StartRefused, Recovering, calls
  <2> QED
    BY <1>2, <2>1, <2>2 DEF Begin
<1>3. CASE Receive
  BY <1>3 DEF Receive, ReceiveFrame, ReceiveEnd, ReceiveClosed, Onward, Recovering, calls
<1>4. CASE Dispatch
  <2>1. CASE PushFails
    <3>1. pc' = "pick" /\ fo'.prev = st /\ UNCHANGED <<st, minted>>
      BY <2>1 DEF PushFails, NoFailover
    <3> QED
      BY <3>1
  <2>2. CASE AllDispatched \/ PushInfer
    BY <2>2 DEF AllDispatched, PushInfer, Calling, Recovering, calls
  <2>3. ASSUME NEW h, Applied(h) PROVE PlaceTyped'
    BY <2>3 DEF Applied, Mirrored, Onward, Recovering
  <2> QED
    BY <1>4, <2>1, <2>2, <2>3 DEF Dispatch, PushCommit, PushRepeated
<1>5. CASE Recovery
  <2>1. ASSUME NEW w \in Workers, Pick(w) PROVE PlaceTyped'
    BY <2>1 DEF Pick, Recovering, calls, AttemptTyped
  <2>2. CASE GiveUp \/ RestoreFails
    BY <2>2 DEF GiveUp, RestoreFails, Recovering, calls
  <2>3. CASE Restore \/ Open
    <3>1. /\ Recovering /\ fo.target \in Workers /\ minted' = minted + 1
          /\ \E last : st' = Installed(fo.target, minted + 1, last)
          /\ fo'.prev = fo.prev
      BY <2>3 DEF Restore, Open, NewHandle, Recovering, LedgerInv, CandidateIsOther, AttemptTyped
    <3>2. DOMAIN st' = DOMAIN st /\ st'.worker = fo.target /\ st'.handle = minted + 1
      BY <3>1 DEF Installed
    <3> QED
      BY <3>1, <3>2
  <2>4. CASE Replay
    <3>1. /\ Recovering /\ minted' = minted /\ fo'.prev = fo.prev
      BY <2>4 DEF Replay, Recovering, AttemptTyped
    <3>2. DOMAIN st' = DOMAIN st /\ st'.worker = st.worker /\ st'.handle = st.handle
      BY <2>4 DEF Replay
    <3> QED
      BY <3>1, <3>2
  <2>5. CASE AttemptFails
    <3>1. Recovering /\ st' = fo.prev /\ minted' = minted /\ fo'.prev = fo.prev
      BY <2>5 DEF AttemptFails, RolledBack, Excluding, Recovering, AttemptTyped
    <3> QED
      BY <3>1
  <2>6. CASE TakeOver
    BY <2>6 DEF TakeOver, Onward, Recovering, calls
  <2> QED
    BY <1>5, <2>1, <2>2, <2>3, <2>4, <2>5, <2>6 DEF Recovery
<1>6. CASE Ending
  <2>1. CASE Renew
    <3>1. /\ pc' = "idle" /\ minted' = minted + 1
          /\ st' = [Renewed EXCEPT !.handle = minted + 1, !.gen = 0]
      BY <2>1 DEF Renew
    <3> QED
      BY <3>1 DEF Renewed, Recovering
  <2>2. CASE Finalize \/ FinalizeFails \/ RenewFails \/ Cleanup
    BY <2>2 DEF Finalize, FinalizeFails, RenewFails, Cleanup, Recovering, calls
  <2> QED
    BY <1>6, <2>1, <2>2 DEF Ending
<1>7. CASE Checkpoints \/ World \/ UNCHANGED vars
  BY <1>7 DEF Checkpoints, World, CheckpointTaken, CheckpointStored, CheckpointFails, Crash,
              Restart, Corrupt, Disconnect, vars, calls, Recovering
<1> QED
  BY <1>2, <1>3, <1>4, <1>5, <1>6, <1>7 DEF Next, Goroutine

\* The types hold: a recovery makes at most MaxAttempts attempts, checkpoint
\* goroutines stay within their bound, and dispatched frames are a client's.
THEOREM SessionTypes == Spec => []TypeOK
<1>1. TypesInv /\ LedgerInv /\ RecoverableInv => TypeOK
  <2> SUFFICES ASSUME TypesInv, LedgerInv, RecoverableInv PROVE TypeOK
    OBVIOUS
  <2>1. ToSet(dispatched) \subseteq Seqs
    <3>1. Owed \subseteq Seqs
      BY DEF RecoverableInv, LogKept, Owed
    <3>2. \A i \in 1..Len(dispatched) : dispatched[i] \in Owed
      BY ElementOfSeq DEF RecoverableInv, DispatchedKept
    <3>3. DOMAIN dispatched = 1..Len(dispatched)
      BY LenProperties DEF RecoverableInv, DispatchedKept
    <3> QED
      BY <3>1, <3>2, <3>3 DEF ToSet
  <2>2. bound \in [Workers -> Nat]
    BY DEF LedgerInv, LedgerBalances
  <2> QED
    BY <2>1, <2>2 DEF TypeOK, TypesInv, WorldTyped, JobsTyped, PlaceTyped, Names, AttemptTyped
<1>2. LedgerInv /\ TypesInv /\ [Next]_vars => TypesInv'
  BY WorldKept, JobsKept, AttemptKept, PlaceKept DEF TypesInv
<1> QED
  BY TypesInit, LedgerInit, LedgerStep, RecoverableInit, RecoverableStep, <1>1, <1>2, PTL DEF Spec
-------------------------------------------------------------------------------
(* The client's view.  Revisions, epochs and finals follow from what the    *)
(* session's state has counted; that acknowledgements only advance does     *)
(* not: a recovery covers what its replay covered, the chunks still in hand *)
(* are then pushed to a worker that is already past them, and their answers *)
(* acknowledge what the worker holds.  So it has to be known that neither   *)
(* the client nor the worker is ahead of what the pipeline will cut next,   *)
(* and that no more than three chunks are ever in hand.                     *)

\* The pre-roll of an onset lasts less than four chunks, 160 ms of it against
\* chunks of 160 ms in the gateway.
OnsetCutsFewChunks == PreRollMs < 4 * ChunkMs

\* What the session's worker covers, while the session has one.
Holding == ~Recovering /\ st.handle \in DOMAIN handles
Cover   == IF Holding THEN Owner.last ELSE 0

\* The pipeline between two frames.
Ordered ==
  /\ Settled(pipe) /\ InOrder(pipe, 0, Newest)
  /\ after = "endpoint" => pipe.active = FALSE

\* The chunks in hand end one after the other, at most three of them; behind a
\* frame's chunks nothing but newer frames is held, and a forced tail is alone.
EndsRise == \A i, j \in 1..Len(todo) : i <= j => SeqEnd(todo[i]) <= SeqEnd(todo[j])
FrameCut == pipe.active = TRUE /\ pipe.preRoll = << >> /\ FedUpTo(pipe, Newest)
TailCut  == Len(todo) = 1 /\ pipe.pending = << >> /\ Ahead(pipe, SeqEnd(Chunk), Newest)
TodoPaced ==
  /\ Len(todo) <= 3 /\ EndsRise
  /\ todo # << >> => IF after = "idle" THEN FrameCut ELSE TailCut

\* Neither the newest acknowledgement nor the worker is ahead of the pipeline.
AckAhead == sent.acked \in Nat /\ Ahead(pipe, sent.acked, Newest)
CoverAhead ==
  /\ after = "idle" \/ todo # << >> \/ pc = "idle" => Ahead(pipe, Cover, Newest)
  /\ pc = "idle" \/ after = "idle" => pipe.active = TRUE \/ Cover = 0

\* Nor is the acknowledgement ahead of the chunks in hand, unless the worker is
\* as well and there is but one.
TailAhead ==
  todo # << >> /\ after # "idle" => sent.acked <= SeqEnd(Chunk) /\ Cover <= SeqEnd(Chunk)
TodoAhead ==
  /\ \/ \A i \in 1..Len(todo) : sent.acked <= SeqEnd(todo[i])
     \/ Len(todo) <= 1 /\ (Holding => sent.acked <= Owner.last)
  /\ Len(todo) = 3 => Cover = 0
  /\ pc = "pushing" => Cover < SeqEnd(Chunk)

PaceInv ==
  ~Over => Ordered /\ TodoPaced /\ AckAhead /\ CoverAhead /\ TailAhead /\ TodoAhead

\* The counters of a session's state and of the client's view.
Counts(s) == /\ {"utt", "rev", "epoch", "worker", "last"} \subseteq DOMAIN s
             /\ s.utt \in Nat /\ s.rev \in Nat /\ s.epoch \in Nat
View == [utt : Nat, rev : Nat, epoch : Nat, closed : BOOLEAN, acked : Nat,
         from : Workers \cup {None}]
ViewTyped == sent \in View /\ Counts(st) /\ (Recovering => Counts(fo.prev))

\* Nothing held is behind a worker that covers nothing.
LEMMA NothingIsAhead ==
  ASSUME NEW F, F \subseteq Recorded, NEW p \in PipeOf(F), NEW n \in Nat
  PROVE  Ahead(p, 0, n)
<1>1. p.pending \in Seq(F) /\ p.preRoll \in Seq(F)
  BY DEF PipeOf
<1>2. p.pending # << >> => Last(p.pending).seq \in Nat
  <2> SUFFICES ASSUME p.pending # << >> PROVE Last(p.pending).seq \in Nat
    OBVIOUS
  <2>1. Len(p.pending) \in 1..Len(p.pending)
    BY <1>1, LenProperties, EmptySeq
  <2>2. Last(p.pending) \in F
    BY <1>1, <2>1, ElementOfSeq DEF Last
  <2> QED
    BY <2>2 DEF Recorded
<1>3. \A i \in 1..Len(p.preRoll) : p.preRoll[i].seq \in Nat
  BY <1>1, ElementOfSeq DEF Recorded
<1> QED
  BY <1>2, <1>3 DEF Ahead

LEMMA CoverIsNat == RecoverableInv => Cover \in 0..Newest
<1> SUFFICES ASSUME RecoverableInv PROVE Cover \in 0..Newest
  OBVIOUS
<1>1. Newest \in Nat /\ \A h \in DOMAIN handles : Reaches(handles[h], "last")
  BY NewestNat DEF RecoverableInv, CoveredKept
<1> QED
  BY <1>1 DEF Cover, Holding, Owner, Reaches

\* Every end of a chunk in hand is a frame that came.
LEMMA EndsCame ==
  ASSUME RecoverableInv
  PROVE  /\ todo \in Seq(Cutting(Safe)) /\ Len(todo) \in Nat
         /\ \A i \in 1..Len(todo) : SeqEnd(todo[i]) \in 1..Newest
<1>1. todo \in Seq(Cutting(Safe)) /\ Newest \in Nat
  BY NewestNat DEF RecoverableInv, TodoKept
<1>2. ASSUME NEW i \in 1..Len(todo) PROVE SeqEnd(todo[i]) \in 1..Newest
  <2>1. todo[i] \in Cutting(Safe)
    BY <1>1, ElementOfSeq
  <2> DEFINE fs == todo[i].frames
  <2>2. fs \in Seq(Safe) /\ fs # << >>
    BY <2>1 DEF Cutting, Cut
  <2> HIDE DEF fs
  <2>3. Len(fs) \in 1..Len(fs)
    BY <2>2, LenProperties, EmptySeq
  <2>4. Last(fs) \in Safe
    BY <2>2, <2>3, ElementOfSeq DEF Last
  <2> QED
    BY <2>4 DEF SeqEnd, fs, Safe, Came
<1> QED
  BY <1>1, <1>2, LenProperties

\* The first chunk in hand, and those behind it.
LEMMA FirstInHand ==
  ASSUME RecoverableInv, todo # << >>
  PROVE  /\ Len(todo) >= 1 /\ Chunk = todo[1]
         /\ Len(Tail(todo)) = Len(todo) - 1
         /\ \A i \in 1..Len(Tail(todo)) : i + 1 \in 1..Len(todo) /\ Tail(todo)[i] = todo[i + 1]
<1>1. todo \in Seq(Cutting(Safe)) /\ Len(todo) \in Nat
  BY EndsCame
<1> HIDE DEF Cutting
<1>2. Len(todo) # 0
  BY <1>1, EmptySeq
<1>3. /\ Head(todo) = todo[1] /\ Len(Tail(todo)) = Len(todo) - 1
      /\ \A i \in 1..Len(Tail(todo)) : Tail(todo)[i] = todo[i + 1]
  BY <1>1, HeadTailProperties
<1> QED
  BY <1>1, <1>2, <1>3 DEF Chunk

\* What a step must still show if it neither feeds the pipeline, nor takes a
\* chunk out of hand, nor acknowledges.
LEMMA PaceSame ==
  ASSUME RecoverableInv, PaceInv, Over => Over', UNCHANGED <<pipe, todo, after, retained>>,
         sent'.acked = sent.acked,
         Cover' = Cover \/ Cover' = 0,
         Holding' => todo = << >> \/ (Holding /\ handles'[st'.handle].last = Owner.last),
         pc' = "idle" => pc = "idle" \/ after = "idle" \/ Cover' = 0,
         pc' = "pushing" => pc = "pushing" \/ (todo # << >> /\ Cover < SeqEnd(Chunk))
  PROVE  PaceInv'
<1> SUFFICES ASSUME ~Over' PROVE PaceInv'
  BY DEF PaceInv
<1>1. Ordered /\ TodoPaced /\ AckAhead /\ CoverAhead /\ TailAhead /\ TodoAhead
  BY DEF PaceInv
<1>2. Newest' = Newest /\ Chunk' = Chunk /\ Newest \in Nat
  BY NewestNat DEF Newest, Chunk, RecoverableInv
<1>3. Cover \in Nat /\ Cover' \in Nat /\ Cover' <= Cover
  BY <1>2, CoverIsNat
<1>4. todo # << >> => SeqEnd(Chunk) \in 1..Newest
  BY EndsCame, FirstInHand
<1>5. Ordered' /\ AckAhead'
  BY <1>1, <1>2 DEF Ordered, AckAhead, Settled, Short, Rolled, InOrder, Reached, Ahead
<1>6. TodoPaced'
  BY <1>1, <1>2 DEF TodoPaced, EndsRise, FrameCut, TailCut, FedUpTo, Ahead, SeqEnd
<1>7. Ahead(pipe, Cover, Newest) => Ahead(pipe, Cover', Newest)
  <2>1. CASE Cover' = Cover
    BY <2>1
  <2>2. CASE Cover' = 0
    <3>1. pipe \in PipeOf(SafeFrames) /\ SafeFrames \subseteq Recorded
      BY DEF RecoverableInv, PipelineKept, SafeFrames, Framing
    <3> QED
      BY <1>2, <2>2, <3>1, NothingIsAhead
  <2> QED
    BY <2>1, <2>2
<1>8. CoverAhead'
  <2>1. Ahead(pipe, 0, Newest)
    <3>1. pipe \in PipeOf(SafeFrames) /\ SafeFrames \subseteq Recorded
      BY DEF RecoverableInv, PipelineKept, SafeFrames, Framing
    <3> QED
      BY <1>2, <3>1, NothingIsAhead
  <2>2. after = "idle" \/ todo # << >> \/ pc' = "idle" => Ahead(pipe, Cover', Newest)
    BY <1>1, <1>7, <2>1 DEF CoverAhead
  <2>3. pc' = "idle" \/ after = "idle" => pipe.active = TRUE \/ Cover' = 0
    BY <1>1 DEF CoverAhead
  <2> HIDE DEF Cover
  <2> QED
    BY <1>2, <2>2, <2>3 DEF CoverAhead, Ahead
<1>9. TailAhead'
  <2>1. todo # << >> /\ after # "idle" => sent.acked <= SeqEnd(Chunk) /\ Cover' <= SeqEnd(Chunk)
    BY <1>1, <1>3, <1>4 DEF TailAhead
  <2> HIDE DEF Cover
  <2> QED
    BY <1>2, <2>1 DEF TailAhead, SeqEnd
<1>10. TodoAhead'
  <2>1. \/ \A i \in 1..Len(todo) : sent.acked <= SeqEnd(todo[i])
        \/ Len(todo) <= 1 /\ (Holding => sent.acked <= Owner.last)
    BY <1>1 DEF TodoAhead
  <2>2. \/ \A i \in 1..Len(todo) : sent.acked <= SeqEnd(todo[i])
        \/ Len(todo) <= 1 /\ (Holding' => sent.acked <= Owner'.last)
    <3>1. CASE todo = << >>
      BY <3>1
    <3>2. CASE todo # << >>
      BY <2>1, <3>2 DEF Owner
    <3> QED
      BY <3>1, <3>2
  <2>3. Len(todo) = 3 => Cover' = 0
    BY <1>1 DEF TodoAhead
  <2>4. pc' = "pushing" => Cover' < SeqEnd(Chunk)
    <3> SUFFICES ASSUME pc' = "pushing" PROVE Cover' < SeqEnd(Chunk)
      OBVIOUS
    <3>1. Cover < SeqEnd(Chunk) /\ todo # << >>
      BY <1>1 DEF TodoAhead, RecoverableInv, TodoKept
    <3> QED
      BY <1>3, <1>4, <3>1
  <2> HIDE DEF Cover, Holding, Owner
  <2> QED
    BY <1>2, <2>2, <2>3, <2>4 DEF TodoAhead, SeqEnd
<1> QED
  BY <1>5, <1>6, <1>8, <1>9, <1>10 DEF PaceInv

\* Whatever a worker covers, behind a frame's chunks nothing older is held.
LEMMA BehindFrames ==
  ASSUME RecoverableInv, FrameCut, NEW x \in 0..Newest
  PROVE  Ahead(pipe, x, Newest)
<1>1. Newest \in Nat
  BY NewestNat DEF RecoverableInv
<1> QED
  BY <1>1, FedIsAhead DEF FrameCut

\* The chunks behind the first are paced as they were.
LEMMA TailPaced ==
  ASSUME RecoverableInv, TodoPaced, todo # << >>,
         UNCHANGED <<pipe, after, retained>>, todo' = Tail(todo)
  PROVE  TodoPaced' /\ Len(Tail(todo)) # 3
<1>1. Newest' = Newest
  BY DEF Newest
<1>2. /\ Len(todo) \in Nat /\ Len(Tail(todo)) = Len(todo) - 1
      /\ \A i \in 1..Len(Tail(todo)) : i + 1 \in 1..Len(todo) /\ Tail(todo)[i] = todo[i + 1]
  BY EndsCame, FirstInHand
<1>3. Len(Tail(todo)) <= 3 /\ Len(Tail(todo)) # 3
  <2>1. Len(todo) <= 3
    BY DEF TodoPaced
  <2> DEFINE m == Len(todo)
             n == Len(Tail(todo))
  <2>2. m \in Nat /\ n = m - 1 /\ m <= 3
    BY <1>2, <2>1
  <2> HIDE DEF m, n
  <2>3. n <= 3 /\ n # 3
    BY <2>2
  <2> QED
    BY <2>3 DEF n
<1>4. ASSUME NEW i \in 1..Len(Tail(todo)), NEW j \in 1..Len(Tail(todo)), i <= j
      PROVE  SeqEnd(Tail(todo)[i]) <= SeqEnd(Tail(todo)[j])
  <2>1. /\ i + 1 \in 1..Len(todo) /\ Tail(todo)[i] = todo[i + 1]
        /\ j + 1 \in 1..Len(todo) /\ Tail(todo)[j] = todo[j + 1] /\ i + 1 <= j + 1
    BY <1>2, <1>4
  <2> QED
    BY <2>1 DEF TodoPaced, EndsRise
<1>5. EndsRise'
  BY <1>4 DEF EndsRise, SeqEnd
<1>6. after = "idle" => FrameCut'
  BY <1>1 DEF TodoPaced, FrameCut, FedUpTo
<1>7. after # "idle" => Tail(todo) = << >>
  <2>1. after # "idle" => Len(Tail(todo)) = 0
    BY <1>2 DEF TodoPaced, TailCut
  <2>2. Tail(todo) # << >> => Len(Tail(todo)) # 0
    BY <1>2
  <2> QED
    BY <2>1, <2>2
<1> QED
  BY <1>3, <1>5, <1>6, <1>7 DEF TodoPaced

\* An answered push acknowledges what the worker covers, which is the end of
\* its chunk or beyond, and never less than before.
LEMMA AppliedPaces ==
  ASSUME RecoverableInv, PaceInv, ~Over, todo # << >>, pc' = "dispatch" \/ Over',
         UNCHANGED <<pipe, after, retained>>, todo' = Tail(todo),
         NEW x, sent'.acked = x, Holding', handles'[st'.handle].last = x,
         Holding, \/ pc = "pushing" /\ x = SeqEnd(Chunk)
                  \/ x = Cover /\ SeqEnd(Chunk) <= x
  PROVE  PaceInv' /\ sent.acked <= x
<1>1. Ordered /\ TodoPaced /\ AckAhead /\ CoverAhead /\ TailAhead /\ TodoAhead
  BY DEF PaceInv
<1>2. Newest' = Newest /\ Newest \in Nat
  BY NewestNat DEF Newest, RecoverableInv
<1>3. /\ Cover \in 0..Newest /\ Cover = Owner.last
      /\ Cover' = x /\ Owner'.last = x
  BY CoverIsNat DEF Cover, Owner
<1>4. /\ Len(todo) \in Nat /\ Len(todo) >= 1 /\ Chunk = todo[1] /\ Len(Tail(todo)) = Len(todo) - 1
      /\ \A i \in 1..Len(todo) : SeqEnd(todo[i]) \in 1..Newest
      /\ \A i \in 1..Len(Tail(todo)) : i + 1 \in 1..Len(todo) /\ Tail(todo)[i] = todo[i + 1]
  BY EndsCame, FirstInHand
<1>5. SeqEnd(Chunk) \in 1..Newest /\ x \in 1..Newest
  BY <1>2, <1>3, <1>4
<1>6. sent.acked <= x /\ sent.acked \in Nat
  <2>1. \/ \A i \in 1..Len(todo) : sent.acked <= SeqEnd(todo[i])
        \/ sent.acked <= Cover
    BY <1>1, <1>3 DEF TodoAhead
  <2>2. sent.acked \in Nat
    BY <1>1 DEF AckAhead
  <2>3. CASE \A i \in 1..Len(todo) : sent.acked <= SeqEnd(todo[i])
    <3>1. sent.acked <= SeqEnd(Chunk)
      BY <1>4, <2>3
    <3> QED
      BY <1>3, <1>5, <2>2, <3>1
  <2>4. CASE sent.acked <= Cover
    <3>1. pc = "pushing" => Cover < SeqEnd(Chunk)
      BY <1>1 DEF TodoAhead
    <3> QED
      BY <1>3, <1>5, <2>2, <2>4, <3>1
  <2> QED
    BY <2>1, <2>2, <2>3, <2>4
<1>7. Ahead(pipe, x, Newest)
  <2>1. CASE after = "idle"
    BY <1>1, <1>5, <2>1, BehindFrames DEF TodoPaced
  <2>2. CASE after # "idle"
    <3>1. Ahead(pipe, SeqEnd(Chunk), Newest) /\ Cover <= SeqEnd(Chunk)
      BY <1>1, <2>2 DEF TodoPaced, TailCut, TailAhead
    <3>2. x = SeqEnd(Chunk)
      BY <1>3, <1>5, <3>1
    <3> QED
      BY <3>1, <3>2
  <2> QED
    BY <2>1, <2>2
<1>8. after = "idle" => FrameCut
  BY <1>1 DEF TodoPaced
<1>9. after # "idle" => Len(Tail(todo)) = 0
  BY <1>1, <1>4 DEF TodoPaced, TailCut
<1>10. Tail(todo) # << >> => Len(Tail(todo)) # 0
  BY <1>4
<1> SUFFICES ASSUME ~Over' PROVE PaceInv'
  BY <1>6 DEF PaceInv
<1>11. Ordered' /\ AckAhead'
  BY <1>1, <1>2, <1>5, <1>7 DEF Ordered, AckAhead, Settled, Short, Rolled, InOrder, Reached, Ahead
<1>12. TodoPaced'
  BY <1>1, TailPaced
<1>13. CoverAhead'
  <2>1. after = "idle" => pipe.active = TRUE
    BY <1>8 DEF FrameCut
  <2>2. pc' # "idle"
    BY DEF Over
  <2>3. Ahead(pipe, x, Newest)'
    BY <1>2, <1>3, <1>7 DEF Ahead
  <2> QED
    BY <1>3, <2>1, <2>2, <2>3 DEF CoverAhead, Ahead
<1>14. TailAhead'
  BY <1>9, <1>10 DEF TailAhead
<1>15. TodoAhead'
  <2>1. Len(Tail(todo)) # 3 /\ pc' # "pushing"
    BY <1>1, TailPaced
  <2>2. CASE Len(todo) <= 2
    BY <1>3, <1>4, <2>1, <2>2 DEF TodoAhead
  <2>3. CASE Len(todo) > 2
    <3>1. Cover = 0
      BY <1>1, <1>4, <2>3 DEF TodoPaced, TodoAhead
    <3>2. x = SeqEnd(Chunk)
      BY <1>3, <1>5, <3>1
    <3>3. ASSUME NEW i \in 1..Len(Tail(todo)) PROVE x <= SeqEnd(Tail(todo)[i])
      <4>1. i + 1 \in 1..Len(todo) /\ Tail(todo)[i] = todo[i + 1] /\ 1 \in 1..Len(todo) /\ 1 <= i + 1
        BY <1>4
      <4>2. SeqEnd(todo[1]) <= SeqEnd(todo[i + 1])
        BY <1>1, <4>1 DEF TodoPaced, EndsRise
      <4> QED
        BY <1>4, <3>2, <4>1, <4>2
    <3> QED
      BY <2>1, <3>3 DEF TodoAhead, SeqEnd
  <2> QED
    BY <1>4, <2>2, <2>3
<1> QED
  BY <1>11, <1>12, <1>13, <1>14, <1>15 DEF PaceInv

\* A recovery that takes over covers what came, whatever it replayed, and takes
\* the chunk that failed out of hand.
LEMMA TakeOverPaces ==
  ASSUME RecoverableInv, RecoverableInv', PaceInv, ~Over, todo # << >>, pc' = "dispatch" \/ Over',
         UNCHANGED <<pipe, after, retained>>, todo' = Tail(todo), sent'.acked = sent.acked
  PROVE  PaceInv'
<1>1. Ordered /\ TodoPaced /\ AckAhead /\ CoverAhead /\ TailAhead /\ TodoAhead
  BY DEF PaceInv
<1>2. Newest' = Newest /\ Newest \in Nat
  BY NewestNat DEF Newest, RecoverableInv
<1>3. Cover' \in 0..Newest
  <2>1. (RecoverableInv => Cover \in 0..Newest)'
    BY CoverIsNat, PTL
  <2> HIDE DEF Cover
  <2> QED
    BY <1>2, <2>1
<1>4. /\ Len(todo) \in Nat /\ Len(todo) >= 1 /\ Len(Tail(todo)) = Len(todo) - 1
      /\ \A i \in 1..Len(todo) : SeqEnd(todo[i]) \in 1..Newest
      /\ \A i \in 1..Len(Tail(todo)) : i + 1 \in 1..Len(todo) /\ Tail(todo)[i] = todo[i + 1]
  BY EndsCame, FirstInHand
<1>8. after = "idle" => FrameCut
  BY <1>1 DEF TodoPaced
<1>9. after # "idle" => Len(Tail(todo)) = 0
  BY <1>1, <1>4 DEF TodoPaced, TailCut
<1>10. Tail(todo) # << >> => Len(Tail(todo)) # 0
  BY <1>4
<1> SUFFICES ASSUME ~Over' PROVE PaceInv'
  BY DEF PaceInv
<1>11. Ordered' /\ AckAhead'
  BY <1>1, <1>2 DEF Ordered, AckAhead, Settled, Short, Rolled, InOrder, Reached, Ahead
<1>12. TodoPaced'
  BY <1>1, TailPaced
<1>13. CoverAhead'
  <2>1. after = "idle" => pipe.active = TRUE
    BY <1>8 DEF FrameCut
  <2>2. pc' # "idle"
    BY DEF Over
  <2>3. after = "idle" => Ahead(pipe, Cover', Newest)
    BY <1>3, <1>8, BehindFrames
  <2> HIDE DEF Cover
  <2>4. after = "idle" => Ahead(pipe, Cover, Newest)'
    BY <1>2, <2>3 DEF Ahead
  <2> QED
    <3>1. CASE after = "idle"
      BY <2>1, <2>4, <3>1 DEF CoverAhead
    <3>2. CASE after # "idle"
      BY <1>9, <1>10, <2>2, <3>2 DEF CoverAhead
    <3> QED
      BY <3>1, <3>2
<1>14. TailAhead'
  BY <1>9, <1>10 DEF TailAhead
<1>15. TodoAhead'
  <2>1. Len(Tail(todo)) # 3 /\ pc' # "pushing"
    BY <1>1, TailPaced
  <2>2. \A i \in 1..Len(Tail(todo)) : sent.acked <= SeqEnd(Tail(todo)[i])
    BY <1>1, <1>4 DEF TodoAhead
  <2> QED
    BY <2>1, <2>2 DEF TodoAhead, SeqEnd
<1> QED
  BY <1>11, <1>12, <1>13, <1>14, <1>15 DEF PaceInv

\* The frame a step receives, and what the pipeline makes of it.
Incoming(voiced) == [seq |-> Newest + 1, dur |-> FrameUs, voiced |-> voiced]
Hearing(voiced)  == ApplyHysteresis(pipe, Incoming(voiced))

LEMMA AheadLater ==
  ASSUME NEW p, NEW x \in Nat, NEW m \in Nat, NEW n \in Nat, m <= n, Ahead(p, x, m)
  PROVE  Ahead(p, x, n)
BY DEF Ahead

\* Hearing it keeps the pipeline's order and the pace of whatever was not
\* ahead of it.
LEMMA FrameHeard ==
  ASSUME RecoverableInv, Ordered, NEW voiced \in BOOLEAN, ReceiveFrame(voiced)
  PROVE  LET f == Incoming(voiced)
             q == Hearing(voiced)
         IN  /\ Newest' = Newest + 1 /\ q \in PipeOf(Framing(SafeWith))
             /\ Short(q) /\ Rolled(q) /\ InOrder(q, 0, Newest + 1) /\ Moves(pipe, q)
             /\ \A x \in Nat : Ahead(pipe, x, Newest) => Paces(pipe, f, q, x)
<1> DEFINE f == Incoming(voiced)
           q == Hearing(voiced)
           F == Framing(SafeWith)
<1>1. Newest' = Newest + 1 /\ f \in F /\ f.seq = Newest + 1 /\ Safe \subseteq SafeWith
  BY FrameCame DEF Incoming
<1>2. F \subseteq Recorded /\ SafeFrames \subseteq F
  BY <1>1 DEF SafeFrames, Framing
<1>3. Newest \in Nat /\ Newest + 1 \in Nat /\ Newest <= Newest + 1
  BY NewestNat DEF RecoverableInv
<1> HIDE DEF F, f
<1>4. pipe \in PipeOf(F) /\ Rising(pipe.preRoll) /\ Settled(pipe)
  BY <1>2, PipeGrows DEF RecoverableInv, PipelineKept, Ordered
<1>5. InOrder(pipe, 0, f.seq)
  BY <1>1, <1>2, <1>3, <1>4, InOrderLater DEF Ordered
<1>6. UpToSeq(pipe.preRoll, f.seq)
  BY <1>5 DEF InOrder, UpToSeq
<1>7. q = ApplyHysteresis(pipe, f)
  BY DEF Hearing, f
<1> HIDE DEF q
<1>8. Holds(F, pipe, f, q) /\ Moves(pipe, q)
  BY <1>1, <1>2, <1>4, <1>7, HysteresisHolds
<1>9. InOrder(q, 0, f.seq)
  BY <1>1, <1>2, <1>4, <1>5, <1>7, FrameInOrder
<1>10. ASSUME NEW x \in Nat, Ahead(pipe, x, Newest) PROVE Paces(pipe, f, q, x)
  <2>1. Ahead(pipe, x, f.seq)
    BY <1>1, <1>3, <1>10, AheadLater
  <2> QED
    BY <1>1, <1>2, <1>4, <1>6, <1>7, <2>1, HysteresisPaces
<1> QED
  BY <1>1, <1>8, <1>9, <1>10 DEF Holds, q, f, F

\* The ends of what is cut.
LEMMA LastOfSeqs ==
  ASSUME NEW N, NEW recs \in Cut(Framing(N))
  PROVE  Last(SeqsIn(recs)) = Last(recs).seq
<1>1. recs \in Seq(Framing(N)) /\ recs # << >>
  BY DEF Cut
<1>2. Len(recs) \in 1..Len(recs) /\ Len(SeqsIn(recs)) = Len(recs)
  BY <1>1, LenProperties, EmptySeq, SeqsInHolds
<1> QED
  BY <1>2 DEF Last, SeqsIn

LEMMA ChunksEnd ==
  ASSUME NEW N, NEW cut \in Seq(Cut(Framing(N)))
  PROVE  /\ Len(Chunks(cut)) = Len(cut)
         /\ \A i \in 1..Len(cut) : SeqEnd(Chunks(cut)[i]) = Last(cut[i]).seq
<1>1. Len(cut) \in Nat
  BY LenProperties
<1>2. Len(Chunks(cut)) = Len(cut)
  <2>1. DOMAIN Chunks(cut) = 1..Len(cut) /\ Chunks(cut) \in Seq(Cutting(N))
    BY ChunksHold DEF Chunks
  <2> QED
    BY <1>1, <2>1, LenProperties
<1>3. ASSUME NEW i \in 1..Len(cut) PROVE SeqEnd(Chunks(cut)[i]) = Last(cut[i]).seq
  <2>1. cut[i] \in Cut(Framing(N))
    BY ElementOfSeq
  <2>2. Chunks(cut)[i].frames = SeqsIn(cut[i])
    BY DEF Chunks
  <2> QED
    BY <2>1, <2>2, LastOfSeqs DEF SeqEnd
<1> QED
  BY <1>2, <1>3

LEMMA ForcedEnd ==
  ASSUME NEW N, NEW p, p.pending \in Seq(Framing(N))
  PROVE  /\ p.pending = << >> => Forced(p) = << >>
         /\ p.pending # << >> => /\ Forced(p) # << >> /\ Len(Forced(p)) = 1
                                 /\ SeqEnd(Forced(p)[1]) = Last(p.pending).seq
                                 /\ SeqEnd(Head(Forced(p))) = Last(p.pending).seq
<1>1. CASE p.pending = << >>
  BY <1>1 DEF Forced
<1>2. CASE p.pending # << >>
  <2> DEFINE c == [frames |-> SeqsIn(p.pending), forced |-> TRUE]
  <2>1. Forced(p) = << c >>
    BY <1>2 DEF Forced
  <2>2. p.pending \in Cut(Framing(N))
    BY <1>2 DEF Cut
  <2>3. SeqEnd(c) = Last(p.pending).seq
    BY <2>2, LastOfSeqs DEF SeqEnd
  <2> HIDE DEF c
  <2>4. Len(<< c >>) = 1 /\ << c >>[1] = c /\ Head(<< c >>) = c /\ << c >> # << >>
    OBVIOUS
  <2> QED
    BY <1>2, <2>1, <2>3, <2>4
<1> QED
  BY <1>1, <1>2

\* What its handler leaves, whether it ended the utterance or not.
LEMMA FrameLeft ==
  ASSUME RecoverableInv, Ordered, NEW voiced \in BOOLEAN, ReceiveFrame(voiced)
  PROVE  LET q == Hearing(voiced)
         IN  /\ Settled(pipe)' /\ pipe'.active = q.active /\ pipe'.preRoll = q.preRoll
             /\ HasEnded(q) =>
                  /\ after' = "endpoint" /\ q.active = FALSE /\ q.ready = << >>
                  /\ pipe'.pending = << >> /\ todo' = Forced(q)
             /\ ~HasEnded(q) =>
                  after' = "idle" /\ pipe'.pending = q.pending /\ todo' = Chunks(q.ready)
<1> DEFINE q == Hearing(voiced)
           F == Framing(SafeWith)
<1>1. /\ pipe' = Drained(IF HasEnded(q) THEN AfterForceCut(q) ELSE q)
      /\ todo' = Chunks(q.ready) \o IF HasEnded(q) THEN Forced(q) ELSE << >>
      /\ after' = IF HasEnded(q) THEN "endpoint" ELSE "idle"
  <2>1. Newest + 1 = IF retained = << >> THEN 1 ELSE Last(retained) + 1
    BY DEF Newest
  <2> QED
    BY <2>1 DEF ReceiveFrame, Hearing, Incoming, HasEnded
<1>2. q \in PipeOf(F) /\ Short(q) /\ Rolled(q) /\ Moves(pipe, q)
  BY FrameHeard
<1> HIDE DEF q, F
<1>3. q.ready \in Seq(Cut(F)) /\ q.pending \in Seq(F) /\ q.active \in BOOLEAN
  BY <1>2 DEF PipeOf
<1>4. Chunks(q.ready) \in Seq(Cutting(SafeWith)) /\ Forced(q) \in Seq(Cutting(SafeWith))
  BY <1>3, ChunksHold, ForcedHolds DEF F
<1>5. CASE HasEnded(q)
  <2>1. q.active = FALSE /\ q.ready = << >>
    <3>1. q.events # << >>
      BY <1>5 DEF HasEnded
    <3>2. ~q.active /\ q.ready = << >>
      BY <1>2, <1>5, <3>1, Zenon DEF Moves
    <3> QED
      BY <1>3, <3>2, Zenon
  <2>2. Chunks(q.ready) = << >>
    BY <2>1 DEF Chunks
  <2>3. todo' = Forced(q)
    <3> DEFINE tail == Forced(q)
    <3>1. tail \in Seq(Cutting(SafeWith))
      BY <1>4
    <3>2. todo' = << >> \o tail
      BY <1>1, <1>5, <2>2
    <3> HIDE DEF tail
    <3> QED
      BY <3>1, <3>2 DEF tail
  <2>4. LET d == AfterForceCut(q)
        IN  /\ d \in PipeOf(F) /\ d.pending = << >> /\ d.active = q.active
            /\ d.preRoll = q.preRoll
    BY <1>2, AfterForceCutHolds
  <2>5. /\ pipe'.ready = << >> /\ pipe'.events = << >> /\ pipe'.pending = << >>
        /\ pipe'.active = q.active /\ pipe'.preRoll = q.preRoll
    BY <1>1, <1>5, <2>4, DrainedHolds
  <2>6. Settled(pipe)'
    BY <1>2, <2>5, ShortWhenEmpty DEF Settled, Rolled, Short
  <2> QED
    BY <1>1, <1>5, <2>1, <2>3, <2>5, <2>6 DEF q
<1>6. CASE ~HasEnded(q)
  <2>1. todo' = Chunks(q.ready)
    <3> DEFINE cut == Chunks(q.ready)
    <3>1. cut \in Seq(Cutting(SafeWith))
      BY <1>4
    <3>2. todo' = cut \o << >>
      BY <1>1, <1>6
    <3> HIDE DEF cut
    <3>3. todo' = cut
      BY <3>1, <3>2, ConcatEmptySeq
    <3> QED
      BY <3>3 DEF cut
  <2>2. /\ pipe'.ready = << >> /\ pipe'.events = << >> /\ pipe'.pending = q.pending
        /\ pipe'.active = q.active /\ pipe'.preRoll = q.preRoll
    BY <1>1, <1>2, <1>6, DrainedHolds
  <2>3. ~q.active => q.pending = << >>
    BY <1>2, <1>6, Zenon DEF Moves
  <2>4. Settled(pipe)'
    <3>1. Short(pipe') /\ Rolled(pipe')
      BY <1>2, <2>2 DEF Rolled, Short
    <3> QED
      BY <2>2, <2>3, <3>1 DEF Settled, Rolled, Short
  <2> QED
    BY <1>1, <1>6, <2>1, <2>2, <2>4 DEF q
<1> QED
  BY <1>5, <1>6

\* What was drained, its tail cut or not, is in order as it was.
LEMMA DrainedInOrder ==
  ASSUME NEW F, F \subseteq Recorded, NEW q \in PipeOf(F), NEW n \in Nat, InOrder(q, 0, n),
         NEW p, p.ready = << >>, p.preRoll = q.preRoll,
         p.pending = q.pending \/ p.pending = << >>
  PROVE  InOrder(p, 0, n)
<1>1. q.pending \in Seq(F) /\ q.preRoll \in Seq(F)
  BY DEF PipeOf
<1>2. /\ \A i \in 1..Len(q.pending) : q.pending[i].seq \in Nat
      /\ \A i \in 1..Len(q.preRoll) : q.preRoll[i].seq \in Nat
  <2>1. ASSUME NEW s \in Seq(F), NEW i \in 1..Len(s) PROVE s[i].seq \in Nat
    BY ElementOfSeq DEF Recorded
  <2> QED
    BY <1>1, <2>1
<1>3. AppliedOf(p.ready, 0) = 0
  BY DEF AppliedOf
<1>4. \A i \in 1..Len(q.pending) : 0 <= q.pending[i].seq /\ q.pending[i].seq <= n
  BY <1>2 DEF InOrder, Reached
<1>5. \A i \in 1..Len(q.preRoll) :
         /\ 0 <= q.preRoll[i].seq /\ q.preRoll[i].seq <= n
         /\ \A j \in 1..Len(q.pending) : q.pending[j].seq <= q.preRoll[i].seq
  BY <1>2 DEF InOrder
<1>6. 1..Len(p.pending) = {} \/ p.pending = q.pending
  BY DEF Reached
<1>7. Reached(p, 0, n)
  BY <1>3, <1>4, <1>6 DEF Reached
<1>8. \A i \in 1..Len(p.preRoll) :
         /\ 0 <= p.preRoll[i].seq /\ p.preRoll[i].seq <= n
         /\ \A j \in 1..Len(p.pending) : p.pending[j].seq <= p.preRoll[i].seq
  BY <1>5, <1>6
<1> QED
  BY <1>3, <1>7, <1>8 DEF InOrder

\* An onset cuts three chunks at the most.
LEMMA FewAtOnce ==
  ASSUME OnsetCutsFewChunks, NEW n \in Nat, n <= 1 \/ n * ChunkUs <= PreRollMs * 1000
  PROVE  n <= 3
<1> SUFFICES ASSUME ~(n <= 3), n * ChunkUs <= PreRollMs * 1000 PROVE FALSE
  OBVIOUS
<1>1. ChunkUs \in Nat /\ PreRollMs * 1000 < 4 * ChunkUs /\ PreRollMs * 1000 \in Nat
  BY PipelineAssumption DEF OnsetCutsFewChunks, ChunkUs, PipelineAssumption
<1>2. n - 1 \in Nat /\ n - 2 \in Nat /\ n - 3 \in Nat /\ n - 4 \in Nat
  OBVIOUS
<1>3. /\ (n - 4 + 1) * ChunkUs = (n - 4) * ChunkUs + ChunkUs /\ (n - 4) * ChunkUs \in Nat
      /\ (n - 3 + 1) * ChunkUs = (n - 3) * ChunkUs + ChunkUs
      /\ (n - 2 + 1) * ChunkUs = (n - 2) * ChunkUs + ChunkUs
      /\ (n - 1 + 1) * ChunkUs = (n - 1) * ChunkUs + ChunkUs
  BY <1>1, <1>2, OneMoreTimes
<1>4. n - 4 + 1 = n - 3 /\ n - 3 + 1 = n - 2 /\ n - 2 + 1 = n - 1 /\ n - 1 + 1 = n
  OBVIOUS
<1> DEFINE d == (n - 4) * ChunkUs
           a == n * ChunkUs
           t == PreRollMs * 1000
<1>5. a = d + ChunkUs + ChunkUs + ChunkUs + ChunkUs
  BY <1>1, <1>3, <1>4
<1>6. d \in Nat /\ a <= t /\ t < 4 * ChunkUs /\ t \in Nat /\ ChunkUs \in Nat
  BY <1>1, <1>3
<1> HIDE DEF a, d, t, ChunkUs
<1> QED
  BY <1>5, <1>6

\* A tail that is cut ends where nothing held is behind it, and neither the
\* client nor the worker is past its end.
LEMMA TailPaces ==
  ASSUME NEW N, NEW q \in PipeOf(Framing(N)), NEW n \in Nat, InOrder(q, 0, n),
         NEW a \in Nat, NEW c \in Nat, Ahead(q, a, n), Ahead(q, c, n),
         Newest' = n, sent'.acked = a, Cover' = c, pc' = "dispatch", after' # "idle",
         todo' = Forced(q), pipe'.pending = << >>, pipe'.preRoll = q.preRoll
  PROVE  TodoPaced' /\ AckAhead' /\ CoverAhead' /\ TailAhead' /\ TodoAhead'
<1>1. q.pending \in Seq(Framing(N)) /\ q.preRoll \in Seq(Framing(N))
  BY DEF PipeOf
<1>2. /\ q.pending = << >> => todo' = << >>
      /\ q.pending # << >> => /\ todo' # << >> /\ Len(todo') = 1
                             /\ SeqEnd(todo'[1]) = Last(q.pending).seq
                             /\ SeqEnd(Head(todo')) = Last(q.pending).seq
  BY <1>1, ForcedEnd
<1>3. Ahead(pipe', a, n) /\ Ahead(pipe', c, n)
  BY DEF Ahead
<1> HIDE DEF Cover
<1>4. AckAhead' /\ CoverAhead'
  BY <1>3 DEF AckAhead, CoverAhead
<1>5. CASE q.pending = << >>
  <2>1. todo' = << >> /\ Len(todo') = 0
    BY <1>2, <1>5
  <2>2. TodoPaced'
    BY <2>1 DEF TodoPaced, EndsRise
  <2>3. TailAhead' /\ TodoAhead'
    BY <2>1 DEF TailAhead, TodoAhead
  <2> QED
    BY <1>4, <2>2, <2>3
<1>6. CASE q.pending # << >>
  <2> DEFINE end == Last(q.pending).seq
  <2>1. Len(q.pending) \in 1..Len(q.pending)
    BY <1>1, <1>6, LenProperties, EmptySeq
  <2>2. q.pending[Len(q.pending)] \in Framing(N)
    BY <1>1, <2>1, ElementOfSeq
  <2>3. end \in Nat /\ end = q.pending[Len(q.pending)].seq
    BY <2>2 DEF Last, Framing, Recorded
  <2>4. end <= n /\ \A i \in 1..Len(q.preRoll) : end <= q.preRoll[i].seq
    BY <2>1, <2>3 DEF InOrder, Reached
  <2>5. a <= end /\ c <= end
    BY <1>6 DEF Ahead
  <2>6. /\ todo' # << >> /\ Len(todo') = 1
        /\ SeqEnd(todo'[1]) = end /\ SeqEnd(Head(todo')) = end
    BY <1>2, <1>6
  <2> HIDE DEF end
  <2>7. Ahead(pipe', end, n)
    BY <2>4 DEF Ahead
  <2>8. TailCut'
    BY <2>6, <2>7 DEF TailCut, Chunk, Ahead, SeqEnd
  <2>9. EndsRise'
    BY <2>3, <2>6 DEF EndsRise, SeqEnd
  <2>10. TodoPaced'
    BY <2>6, <2>8, <2>9 DEF TodoPaced
  <2>11. TailAhead'
    BY <2>5, <2>6 DEF TailAhead, Chunk, SeqEnd
  <2>12. \A i \in 1..Len(todo') : sent'.acked <= SeqEnd(todo'[i])
    BY <2>5, <2>6
  <2>13. TodoAhead'
    BY <2>6, <2>12 DEF TodoAhead, SeqEnd
  <2> QED
    BY <1>4, <2>10, <2>11, <2>13
<1> QED
  BY <1>5, <1>6

\* The chunks of a frame that goes on with its utterance, or opens it.
LEMMA FrameCuts ==
  ASSUME OnsetCutsFewChunks, SafeWith \subseteq Nat, pipe.active \in BOOLEAN,
         NEW q \in PipeOf(Framing(SafeWith)), Moves(pipe, q), ~HasEnded(q),
         NEW f, f.seq \in Nat, Newest' = f.seq, NEW a \in Nat, NEW c \in Nat,
         Paces(pipe, f, q, a), Paces(pipe, f, q, c), pipe.active = TRUE \/ c = 0,
         sent'.acked = a, Cover' = c, pc' = "dispatch", after' = "idle",
         todo' = Chunks(q.ready), pipe'.pending = q.pending, pipe'.preRoll = q.preRoll,
         pipe'.active = q.active
  PROVE  TodoPaced' /\ AckAhead' /\ CoverAhead' /\ TailAhead' /\ TodoAhead'
<1> DEFINE n == f.seq
<1>1. q.ready \in Seq(Cut(Framing(SafeWith))) /\ q.active \in BOOLEAN
  BY DEF PipeOf
<1>2. /\ Len(todo') = Len(q.ready) /\ Len(q.ready) \in Nat
      /\ \A i \in 1..Len(q.ready) : /\ SeqEnd(todo'[i]) = Last(q.ready[i]).seq
                                    /\ SeqEnd(todo'[i]) \in Nat
  <2>1. /\ Len(todo') = Len(q.ready)
        /\ \A i \in 1..Len(q.ready) : SeqEnd(todo'[i]) = Last(q.ready[i]).seq
    BY <1>1, ChunksEnd
  <2>2. ASSUME NEW i \in 1..Len(q.ready) PROVE Last(q.ready[i]).seq \in Nat
    <3> DEFINE cut == q.ready[i]
    <3>1. cut \in Seq(Framing(SafeWith)) /\ cut # << >>
      <4>1. cut \in Cut(Framing(SafeWith))
        BY <1>1, ElementOfSeq
      <4> QED
        BY <4>1 DEF Cut
    <3> HIDE DEF cut
    <3>2. Len(cut) \in 1..Len(cut)
      BY <3>1, LenProperties, EmptySeq
    <3>3. Last(cut) \in Framing(SafeWith)
      BY <3>1, <3>2, ElementOfSeq DEF Last
    <3> QED
      BY <3>3 DEF Framing, cut
  <2> QED
    BY <1>1, <2>1, <2>2, LenProperties
<1>3. q.ready = << >> <=> todo' = << >>
  <2>1. q.ready = << >> => todo' = << >>
    BY DEF Chunks
  <2>2. todo' = << >> => Len(q.ready) = 0
    BY <1>2
  <2> QED
    BY <1>1, <2>1, <2>2, EmptySeq
<1>4. q.ready # << >> => q.active = TRUE
  <2>1. q.ready # << >> => q.active
    BY Zenon DEF Moves
  <2> QED
    BY <1>1, <2>1, Zenon
<1>5. q.active = TRUE \/ c = 0
  <2>1. q.active \/ ~pipe.active
    BY Zenon DEF Moves
  <2> QED
    BY <1>1, <2>1, Zenon
<1>6. Len(q.ready) <= 3 /\ (Len(q.ready) = 3 => c = 0)
  <2> DEFINE m == Len(q.ready)
  <2>1. /\ pipe.active => m <= 1
        /\ ~pipe.active => m * ChunkUs <= PreRollMs * 1000
    BY Zenon DEF Paces
  <2>2. m \in Nat
    BY <1>2
  <2> HIDE DEF m
  <2>3. m <= 1 \/ m * ChunkUs <= PreRollMs * 1000
    BY <2>1, Zenon
  <2>4. m <= 3
    BY <2>2, <2>3, FewAtOnce
  <2>5. m = 3 => ~(m <= 1)
    OBVIOUS
  <2>6. m = 3 => c = 0
    BY <2>1, <2>5, Zenon
  <2> QED
    BY <2>4, <2>6 DEF m
<1>7. /\ Ahead(q, a, n) /\ EndsFrom(q.ready, a, n) /\ Ahead(q, c, n)
      /\ q.ready # << >> => q.preRoll = << >> /\ FedUpTo(q, n)
  BY Zenon DEF Paces
<1>8. Ahead(pipe', a, n) /\ Ahead(pipe', c, n)
  BY <1>7 DEF Ahead
<1> HIDE DEF Cover
<1>9. AckAhead'
  BY <1>8 DEF AckAhead
<1>10. CoverAhead'
  BY <1>5, <1>8 DEF CoverAhead
<1>11. TodoPaced'
  <2>1. ASSUME NEW i \in 1..Len(todo'), NEW j \in 1..Len(todo'), i <= j
        PROVE  SeqEnd(todo'[i]) <= SeqEnd(todo'[j])
    BY <1>2, <1>7, <2>1 DEF EndsFrom
  <2>2. EndsRise'
    BY <2>1 DEF EndsRise, SeqEnd
  <2>3. todo' # << >> => FrameCut'
    BY <1>3, <1>4, <1>7 DEF FrameCut, FedUpTo
  <2> QED
    BY <1>2, <1>6, <2>2, <2>3 DEF TodoPaced
<1>12. TailAhead'
  BY DEF TailAhead
<1>13. TodoAhead'
  <2>1. \A i \in 1..Len(todo') : sent'.acked <= SeqEnd(todo'[i])
    BY <1>2, <1>7 DEF EndsFrom
  <2>2. Len(todo') = 3 => Cover' = 0
    BY <1>2, <1>6
  <2> QED
    BY <2>1, <2>2 DEF TodoAhead, SeqEnd
<1> QED
  BY <1>9, <1>10, <1>11, <1>12, <1>13

\* A frame keeps the pace: neither the client nor the worker was ahead of what
\* the pipeline held, and whatever is cut now reaches as far.
LEMMA FramePaces ==
  ASSUME RecoverableInv, PaceInv, OnsetCutsFewChunks, "handle" \in DOMAIN st,
         NEW voiced \in BOOLEAN, ReceiveFrame(voiced), sent'.acked = sent.acked
  PROVE  PaceInv'
<1> SUFFICES ASSUME ~Over' PROVE PaceInv'
  BY DEF PaceInv
<1> DEFINE q == Hearing(voiced)
           f == Incoming(voiced)
           n == Newest + 1
<1>1. /\ pc = "idle" /\ pc' = "dispatch" /\ handles' = handles /\ st'.handle = st.handle
  BY DEF ReceiveFrame, Onward, Over, calls
<1>2. Ordered /\ AckAhead /\ CoverAhead
  BY <1>1 DEF PaceInv, Over
<1>3. Cover' = Cover
  BY <1>1 DEF Cover, Holding, Owner, Recovering
<1>4. Cover \in Nat /\ sent.acked \in Nat /\ n \in Nat
  BY <1>2, CoverIsNat, NewestNat DEF RecoverableInv, AckAhead
<1>5. /\ Newest' = n /\ q \in PipeOf(Framing(SafeWith))
      /\ InOrder(q, 0, n) /\ Moves(pipe, q)
      /\ \A x \in Nat : Ahead(pipe, x, Newest) => Paces(pipe, f, q, x)
  BY <1>2, FrameHeard
<1>6. /\ Settled(pipe)' /\ pipe'.active = q.active /\ pipe'.preRoll = q.preRoll
      /\ HasEnded(q) =>
           /\ after' = "endpoint" /\ q.active = FALSE /\ q.ready = << >>
           /\ pipe'.pending = << >> /\ todo' = Forced(q)
      /\ ~HasEnded(q) =>
           after' = "idle" /\ pipe'.pending = q.pending /\ todo' = Chunks(q.ready)
  BY <1>2, FrameLeft
<1>7. f.seq = n
  BY DEF Incoming
<1>8. pipe.active \in BOOLEAN /\ SafeWith \subseteq Nat /\ Framing(SafeWith) \subseteq Recorded
  <2>1. pipe.active \in BOOLEAN
    BY DEF RecoverableInv, PipelineKept, PipeOf
  <2>2. SafeWith \subseteq Nat
    BY <1>4 DEF SafeWith
  <2> QED
    BY <2>1, <2>2 DEF Framing
<1>8a. PICK a \in Nat : a = sent.acked
  BY <1>4
<1>8c. PICK c \in Nat : c = Cover
  BY <1>4
<1>9. /\ Cover' = c /\ sent'.acked = a
      /\ Ahead(pipe, a, Newest) /\ Ahead(pipe, c, Newest)
      /\ pipe.active = TRUE \/ c = 0
  BY <1>1, <1>2, <1>3, <1>8a, <1>8c DEF AckAhead, CoverAhead
<1> HIDE DEF q, f, n, Cover
<1>10. Paces(pipe, f, q, a) /\ Paces(pipe, f, q, c)
  <2>1. \A x \in Nat : Ahead(pipe, x, Newest) => Paces(pipe, f, q, x)
    BY <1>5
  <2>2. a \in Nat /\ Ahead(pipe, a, Newest)
    BY <1>9
  <2>3. c \in Nat /\ Ahead(pipe, c, Newest)
    BY <1>9
  <2>4. Paces(pipe, f, q, a)
    BY <2>1, <2>2
  <2>5. Paces(pipe, f, q, c)
    BY <2>1, <2>3
  <2> QED
    BY <2>4, <2>5
<1>11. TodoPaced' /\ AckAhead' /\ CoverAhead' /\ TailAhead' /\ TodoAhead'
  <2>1. CASE HasEnded(q)
    <3>1. Ahead(q, a, n) /\ Ahead(q, c, n)
      BY <1>7, <1>10, Zenon DEF Paces
    <3>2. after' # "idle" /\ todo' = Forced(q) /\ pipe'.pending = << >> /\ pipe'.preRoll = q.preRoll
      BY <1>6, <2>1
    <3>3. /\ q \in PipeOf(Framing(SafeWith)) /\ n \in Nat /\ InOrder(q, 0, n)
          /\ a \in Nat /\ c \in Nat /\ Newest' = n /\ sent'.acked = a /\ Cover' = c
      BY <1>4, <1>5, <1>9
    <3> QED
      BY <1>1, <3>1, <3>2, <3>3, TailPaces
  <2>2. CASE ~HasEnded(q)
    <3>1. after' = "idle" /\ todo' = Chunks(q.ready) /\ pipe'.pending = q.pending
      BY <1>6, <2>2
    <3>2. pipe'.preRoll = q.preRoll /\ pipe'.active = q.active
      BY <1>6
    <3>3. q \in PipeOf(Framing(SafeWith)) /\ Moves(pipe, q) /\ Newest' = n
      BY <1>5
    <3>4. pipe.active \in BOOLEAN /\ SafeWith \subseteq Nat
      BY <1>8
    <3> QED
      BY <1>1, <1>4, <1>7, <1>9, <1>10, <2>2, <3>1, <3>2, <3>3, <3>4, FrameCuts
  <2> QED
    BY <2>1, <2>2
<1>12. Ordered'
  <2>1. pipe'.pending = q.pending \/ pipe'.pending = << >>
    BY <1>6
  <2>2. pipe'.ready = << >>
    BY <1>6 DEF Settled
  <2>3. InOrder(pipe', 0, n)
    BY <1>4, <1>5, <1>6, <1>8, <2>1, <2>2, DrainedInOrder
  <2>4. InOrder(pipe, 0, Newest)'
    BY <1>5, <2>3 DEF InOrder, Reached
  <2>5. after' = "endpoint" => pipe'.active = FALSE
    <3>1. CASE HasEnded(q)
      BY <1>6, <3>1
    <3>2. CASE ~HasEnded(q)
      BY <1>6, <3>2
    <3> QED
      BY <3>1, <3>2
  <2> QED
    BY <1>6, <2>4, <2>5 DEF Ordered
<1> QED
  BY <1>11, <1>12 DEF PaceInv

\* The session's end cuts the tail, and keeps the pace as well.
LEMMA EndPaces ==
  ASSUME RecoverableInv, PaceInv, ReceiveEnd
  PROVE  PaceInv'
<1>1. /\ pc = "idle" /\ pc' = "dispatch" /\ after' = "end"
      /\ todo' = Forced(pipe) /\ pipe' = AfterForceCut(pipe)
      /\ UNCHANGED <<st, sent, handles, retained>>
  BY DEF ReceiveEnd, logVars, calls
<1>2. Ordered /\ AckAhead /\ CoverAhead
  BY <1>1 DEF PaceInv, Over
<1>3. Cover' = Cover /\ Newest' = Newest
  BY <1>1 DEF Cover, Holding, Owner, Recovering, Newest
<1> DEFINE a == sent.acked
           c == Cover
           n == Newest
<1>4. /\ a \in Nat /\ c \in Nat /\ n \in Nat /\ Cover' = c /\ sent'.acked = a /\ Newest' = n
      /\ Ahead(pipe, a, n) /\ Ahead(pipe, c, n)
  BY <1>1, <1>2, <1>3, CoverIsNat, NewestNat DEF RecoverableInv, AckAhead, CoverAhead
<1>5. pipe \in PipeOf(Framing(Safe)) /\ Framing(Safe) \subseteq Recorded
  BY DEF RecoverableInv, PipelineKept, SafeFrames, Framing
<1>6. /\ pipe'.pending = << >> /\ pipe'.preRoll = pipe.preRoll /\ pipe'.active = pipe.active
      /\ pipe'.ready = << >> /\ pipe'.events = << >>
  <2>1. /\ pipe'.pending = << >> /\ pipe'.preRoll = pipe.preRoll /\ pipe'.active = pipe.active
        /\ pipe'.ready = pipe.ready /\ pipe'.events = pipe.events
    BY <1>1, <1>5 DEF AfterForceCut, PipeOf
  <2> QED
    BY <1>2, <2>1 DEF Ordered, Settled
<1>7. InOrder(pipe, 0, n)
  BY <1>2 DEF Ordered
<1> HIDE DEF a, c, n, Cover
<1>8. TodoPaced' /\ AckAhead' /\ CoverAhead' /\ TailAhead' /\ TodoAhead'
  <2>1. after' # "idle"
    BY <1>1
  <2> QED
    BY <1>1, <1>4, <1>5, <1>6, <1>7, <2>1, TailPaces
<1>9. Ordered'
  <2>1. InOrder(pipe', 0, n)
    BY <1>4, <1>5, <1>6, <1>7, DrainedInOrder
  <2>2. InOrder(pipe, 0, Newest)'
    BY <1>4, <2>1 DEF InOrder, Reached
  <2>3. Settled(pipe)'
    BY <1>2, <1>6, ShortWhenEmpty DEF Ordered, Settled, Rolled, Short
  <2> QED
    BY <1>1, <2>2, <2>3 DEF Ordered
<1> QED
  BY <1>8, <1>9 DEF PaceInv

\* Outside a recovery the session covers what its handle's record covers.
LEMMA CoverSame ==
  ASSUME Recovering' <=> Recovering, st'.handle = st.handle, handles' = handles
  PROVE  Cover' = Cover /\ (Holding' => Holding /\ handles'[st'.handle].last = Owner.last)
BY DEF Cover, Holding, Owner

LEMMA NoCover ==
  ASSUME Recovering'
  PROVE  Cover' = 0 /\ ~Holding'
BY DEF Cover, Holding

LEMMA NewCover ==
  ASSUME st'.handle = minted + 1, handles'[minted + 1].last = 0
  PROVE  Cover' = 0
BY DEF Cover, Holding, Owner

\* Nothing is in hand yet, and nothing was acknowledged.
LEMMA PaceInit == Init => PaceInv
<1> SUFFICES ASSUME Init PROVE PaceInv
  OBVIOUS
<1>1. /\ pipe = Fresh /\ todo = << >> /\ after = "idle" /\ pc = "init" /\ retained = << >>
      /\ st.handle = 0 /\ handles = << >> /\ sent.acked = 0
  BY DEF Init, LogInit
<1>2. /\ pipe.ready = << >> /\ pipe.events = << >> /\ pipe.pending = << >>
      /\ pipe.preRoll = << >> /\ pipe.active = FALSE
  BY <1>1 DEF Fresh
<1>3. Newest = 0 /\ Cover = 0 /\ Len(todo) = 0 /\ Len(pipe.preRoll) = 0 /\ Len(pipe.pending) = 0
  BY <1>1, <1>2 DEF Newest, Cover, Holding
<1>4. Ordered
  <2>1. Settled(pipe)
    BY <1>2, ShortWhenEmpty, RolledWhenEmpty DEF Settled
  <2>2. AppliedOf(pipe.ready, 0) = 0
    BY <1>2 DEF AppliedOf
  <2>3. InOrder(pipe, 0, Newest)
    BY <1>3, <2>2 DEF InOrder, Reached
  <2> QED
    BY <1>1, <2>1, <2>3 DEF Ordered
<1>5. Ahead(pipe, 0, 0)
  BY <1>2, <1>3 DEF Ahead
<1> HIDE DEF Cover
<1> QED
  BY <1>1, <1>3, <1>4, <1>5
     DEF PaceInv, TodoPaced, EndsRise, AckAhead, CoverAhead, TailAhead, TodoAhead

LEMMA BeginPaces ==
  ASSUME RecoverableInv, PaceInv, PlaceTyped, Begin
  PROVE  PaceInv'
<1>1. ASSUME NEW w \in Workers, Start(w) PROVE PaceInv'
  <2>1. /\ pc = "init" /\ pc' = "idle" /\ todo = << >>
        /\ UNCHANGED <<pipe, todo, after, retained, sent>>
        /\ handles' = Added(handles, minted + 1, Opened(w, << >>, 0))
    BY <1>1 DEF Start, NewHandle, audioVars, logVars, RecoverableInv, TodoKept
  <2>2. st'.handle = minted + 1
    BY <1>1 DEF Start, PlaceTyped, Names
  <2>3. handles'[minted + 1].last = 0
    BY <2>1 DEF Added, Opened
  <2>4. Cover' = 0
    BY <2>2, <2>3, NewCover
  <2> HIDE DEF Cover, Holding
  <2> QED
    BY <2>1, <2>4, PaceSame DEF Over
<1>2. CASE StartRefused
  BY <1>2 DEF StartRefused, PaceInv, Over
<1> QED
  BY <1>1, <1>2 DEF Begin

LEMMA ReceivePaces ==
  ASSUME RecoverableInv, PaceInv, PlaceTyped, ViewTyped, OnsetCutsFewChunks, Receive
  PROVE  PaceInv'
<1>1. ASSUME NEW voiced \in BOOLEAN, ReceiveFrame(voiced) PROVE PaceInv'
  <2>1. sent'.acked = sent.acked
    <3>1. sent' = sent \/ sent' = Announced
      BY <1>1 DEF ReceiveFrame, Shows
    <3> QED
      BY <3>1 DEF Announced, ViewTyped, View
  <2> QED
    BY <1>1, <2>1, FramePaces DEF PlaceTyped, Names
<1>2. CASE ReceiveEnd
  BY <1>2, EndPaces
<1>3. CASE ReceiveClosed
  BY <1>3 DEF ReceiveClosed, PaceInv, Over
<1> QED
  BY <1>1, <1>2, <1>3 DEF Receive

\* What the client sees after an answered push.
LEMMA AppliedShows ==
  ASSUME ViewTyped, ~gone, NEW h, Applied(h)
  PROVE  /\ sent' = [Announced EXCEPT !.rev = st.rev + 1, !.acked = h.last, !.from = st.worker]
         /\ Announced \in View /\ sent'.acked = h.last
         /\ todo' = Tail(todo) /\ (pc' = "dispatch" \/ Over')
         /\ UNCHANGED <<pipe, after, retained>>
<1>1. sent' = [Announced EXCEPT !.rev = st.rev + 1, !.acked = h.last, !.from = st.worker]
  BY DEF Applied, Shows
<1>2. Announced \in View
  BY DEF Announced, ViewTyped, View, Counts
<1>3. sent'.acked = h.last
  BY <1>1, <1>2 DEF View
<1> QED
  BY <1>1, <1>2, <1>3 DEF Applied, Onward, Over, logVars

LEMMA DispatchPaces ==
  ASSUME RecoverableInv, PaceInv, PlaceTyped, ViewTyped, Dispatch
  PROVE  PaceInv' /\ sent.acked <= sent'.acked
<1> USE DEF PlaceTyped, Names
<1>0. sent' = sent => sent.acked <= sent'.acked
  BY DEF ViewTyped, View
<1>1. CASE AllDispatched
  <2>1. /\ pc = "dispatch" /\ todo = << >> /\ pc' = IF after = "idle" THEN "idle" ELSE "final"
        /\ UNCHANGED <<st, handles, pipe, todo, after, retained, sent>>
    BY <1>1 DEF AllDispatched, audioVars, logVars, calls
  <2>2. Cover' = Cover
    BY <2>1, CoverSame DEF Recovering
  <2> HIDE DEF Cover, Holding
  <2> QED
    BY <1>0, <2>1, <2>2, PaceSame DEF Over
<1>2. CASE PushInfer
  <2>1. /\ pc = "dispatch" /\ todo # << >> /\ pc' = "pushing"
        /\ UNCHANGED <<st, pipe, todo, after, retained, sent>>
        /\ handles' = [handles EXCEPT ![st.handle].model = @ \o Chunk.frames]
        /\ st.handle \in DOMAIN handles /\ ~Covered(Owner, SeqEnd(Chunk))
    BY <1>2 DEF PushInfer, Calling, Answers, audioVars, logVars
  <2>2. "last" \in DOMAIN Owner
    BY <2>1 DEF RecoverableInv, CoveredKept, Reaches, Owner
  <2>3. handles'[st'.handle].last = Owner.last /\ st'.handle \in DOMAIN handles'
    BY <2>1, <2>2 DEF Owner
  <2>4. Cover = Owner.last /\ Cover' = Cover /\ Holding
    BY <2>1, <2>3 DEF Cover, Holding, Owner, Recovering
  <2>5. SeqEnd(Chunk) \in Nat
    BY <2>1, EndsCame, FirstInHand
  <2>6. Cover < SeqEnd(Chunk)
    <3>1. Cover \in Nat
      BY CoverIsNat, NewestNat DEF RecoverableInv
    <3> QED
      BY <2>1, <2>4, <2>5, <3>1 DEF Covered
  <2> HIDE DEF Cover, Holding
  <2> QED
    BY <1>0, <2>1, <2>3, <2>4, <2>6, PaceSame DEF Over
<1>3. CASE PushCommit
  <2>1. /\ pc = "pushing" /\ ~gone /\ st.handle \in DOMAIN handles /\ todo # << >>
        /\ handles' = [handles EXCEPT ![st.handle] = Committed(@)]
        /\ Applied(Committed(Owner))
    BY <1>3 DEF PushCommit, Answers, RecoverableInv, TodoKept
  <2>2. "last" \in DOMAIN Owner
    BY <2>1 DEF RecoverableInv, CoveredKept, Reaches, Owner
  <2> DEFINE x == SeqEnd(Chunk)
  <2>3. Committed(Owner).last = x
    BY <2>2 DEF Committed
  <2>4. st'.handle = st.handle /\ pc' \in {"dispatch", "ended"}
    BY <2>1 DEF Applied, Mirrored, Onward
  <2>5. Holding /\ Holding' /\ handles'[st'.handle].last = x
    BY <2>1, <2>3, <2>4 DEF Holding, Owner, Recovering
  <2>6. /\ sent'.acked = x /\ todo' = Tail(todo) /\ (pc' = "dispatch" \/ Over')
        /\ UNCHANGED <<pipe, after, retained>>
    BY <2>1, <2>3, AppliedShows
  <2>7. ~Over
    BY <2>1 DEF Over
  <2> HIDE DEF Holding, x
  <2>8. PICK y : y = x
    OBVIOUS
  <2>9. sent'.acked = y /\ handles'[st'.handle].last = y /\ y = SeqEnd(Chunk)
    BY <2>5, <2>6, <2>8 DEF x
  <2> QED
    BY <2>1, <2>5, <2>6, <2>7, <2>9, AppliedPaces
<1>4. CASE PushRepeated
  <2>1. /\ pc = "dispatch" /\ ~gone /\ st.handle \in DOMAIN handles /\ todo # << >>
        /\ handles' = handles /\ Applied(Owner) /\ SeqEnd(Chunk) <= Owner.last
    BY <1>4 DEF PushRepeated, Calling, Answers, Covered
  <2>2. st'.handle = st.handle /\ pc' \in {"dispatch", "ended"}
    BY <2>1 DEF Applied, Mirrored, Onward
  <2>3. PICK y : y = Owner.last
    OBVIOUS
  <2>4. Holding /\ Holding' /\ handles'[st'.handle].last = y /\ Cover = y
    BY <2>1, <2>2, <2>3 DEF Cover, Holding, Owner, Recovering
  <2>5. /\ sent'.acked = y /\ todo' = Tail(todo) /\ (pc' = "dispatch" \/ Over')
        /\ UNCHANGED <<pipe, after, retained>>
    BY <2>1, <2>3, AppliedShows
  <2>6. ~Over
    BY <2>1 DEF Over
  <2> HIDE DEF Holding, Cover
  <2> QED
    BY <2>1, <2>3, <2>4, <2>5, <2>6, AppliedPaces
<1>5. CASE PushFails
  <2>1. /\ pc' = "pick" /\ ~Over /\ UNCHANGED <<pipe, todo, after, retained, sent>>
    BY <1>5 DEF PushFails, Calling, Over, audioVars, logVars
  <2>2. Cover' = 0 /\ ~Holding'
    BY <2>1, NoCover DEF Recovering
  <2> HIDE DEF Cover, Holding
  <2> QED
    BY <1>0, <2>1, <2>2, PaceSame DEF Over
<1> QED
  BY <1>1, <1>2, <1>3, <1>4, <1>5 DEF Dispatch

LEMMA RecoveryPaces ==
  ASSUME RecoverableInv, RecoverableInv', PaceInv, ViewTyped, Recovery
  PROVE  PaceInv'
<1>1. CASE TakeOver
  <2>1. /\ pc = "replay" /\ ~Over /\ todo # << >> /\ (pc' = "dispatch" \/ Over')
        /\ UNCHANGED <<pipe, after, retained>> /\ todo' = Tail(todo)
    BY <1>1 DEF TakeOver, Onward, Over, logVars, RecoverableInv, TodoKept, Recovering
  <2>2. sent'.acked = sent.acked
    <3>1. Announced \in View /\ Announced.acked = sent.acked
      BY DEF Announced, ViewTyped, View, Counts
    <3>2. \/ sent' = sent
          \/ sent' = [Announced EXCEPT !.rev = st'.rev, !.epoch = st.epoch, !.from = st.worker]
      BY <1>1 DEF TakeOver, Shows
    <3> QED
      BY <3>1, <3>2 DEF View
  <2> QED
    BY <2>1, <2>2, TakeOverPaces
<1>2. CASE GiveUp
  BY <1>2 DEF GiveUp, PaceInv, Over
<1>3. CASE (\E w \in Workers : Pick(w)) \/ Restore \/ RestoreFails \/ Open \/ Replay \/ AttemptFails
  <2>1. Recovering /\ Recovering' /\ UNCHANGED <<pipe, todo, after, retained, sent>>
    BY <1>3 DEF Pick, Restore, RestoreFails, Open, Replay, AttemptFails, Recovering,
                audioVars, logVars
  <2>2. Cover' = 0 /\ ~Holding'
    BY <2>1, NoCover
  <2>3. ~Over /\ pc' \notin {"idle", "pushing"}
    BY <2>1 DEF Recovering, Over
  <2> HIDE DEF Cover, Holding
  <2> QED
    BY <2>1, <2>2, <2>3, PaceSame
<1> QED
  BY <1>1, <1>2, <1>3 DEF Recovery

LEMMA EndingPaces ==
  ASSUME RecoverableInv, PaceInv, PlaceTyped, ViewTyped, Ending
  PROVE  PaceInv'
<1> USE DEF PlaceTyped, Names
<1>1. CASE Finalize
  <2>1. /\ pc = "final" /\ pc' \in {"renew", "ended"} /\ todo = << >>
        /\ UNCHANGED <<handles, pipe, todo, after, retained>>
    BY <1>1 DEF Finalize, Commit, calls, RecoverableInv, TodoKept
  <2>2. st'.handle = st.handle
    BY <1>1 DEF Finalize
  <2>3. sent'.acked = sent.acked
    <3>1. Announced \in View /\ Announced.acked = sent.acked
      BY DEF Announced, ViewTyped, View, Counts
    <3>2. sent' = sent \/ sent' = [Announced EXCEPT !.closed = TRUE]
      BY <1>1 DEF Finalize, Shows
    <3> QED
      BY <3>1, <3>2 DEF View
  <2>4. Cover' = Cover
    BY <2>1, <2>2, CoverSame DEF Recovering
  <2> HIDE DEF Cover, Holding
  <2> QED
    BY <2>1, <2>3, <2>4, PaceSame DEF Over
<1>2. CASE FinalizeFails \/ RenewFails \/ Cleanup
  BY <1>2 DEF FinalizeFails, RenewFails, Cleanup, PaceInv, Over
<1>3. CASE Renew
  <2>1. /\ pc = "renew" /\ pc' = "idle" /\ todo = << >>
        /\ UNCHANGED <<pipe, todo, after, retained, sent>>
        /\ handles' = Added(Closed(st.handle), minted + 1, Opened(st.worker, << >>, 0))
    BY <1>3 DEF Renew, audioVars, logVars, RecoverableInv, TodoKept
  <2>2. st'.handle = minted + 1
    BY <1>3 DEF Renew, Renewed
  <2>3. handles'[minted + 1].last = 0
    BY <2>1 DEF Added, Opened
  <2>4. Cover' = 0
    BY <2>2, <2>3, NewCover
  <2> HIDE DEF Cover, Holding
  <2> QED
    BY <2>1, <2>4, PaceSame DEF Over
<1> QED
  BY <1>1, <1>2, <1>3 DEF Ending

\* Whatever happens beside the session's goroutine, its worker covers what it
\* covered or is lost.
LEMMA BesidePaces ==
  ASSUME RecoverableInv, PaceInv, Checkpoints \/ World \/ UNCHANGED vars
  PROVE  PaceInv'
<1>1. UNCHANGED <<pc, st, sent, pipe, todo, after, retained>>
  BY DEF Checkpoints, World, CheckpointTaken, CheckpointStored, CheckpointFails, Crash, Restart,
         Corrupt, Disconnect, vars, audioVars, logVars
<1>2. \/ handles' = handles
      \/ \E w : handles' = [h \in {x \in DOMAIN handles : handles[x].worker # w} |-> handles[h]]
  BY DEF Checkpoints, World, CheckpointTaken, CheckpointStored, CheckpointFails, Crash, Restart,
         Corrupt, Disconnect, vars, calls
<1>3. /\ Cover' = Cover \/ Cover' = 0
      /\ Holding' => Holding /\ handles'[st'.handle].last = Owner.last
  BY <1>1, <1>2 DEF Cover, Holding, Owner, Recovering
<1>4. pc = "pushing" /\ ~Over => todo # << >> /\ Cover < SeqEnd(Chunk)
  BY DEF PaceInv, TodoAhead, RecoverableInv, TodoKept
<1> HIDE DEF Cover, Holding
<1> QED
  BY <1>1, <1>3, <1>4, PaceSame DEF Over

LEMMA PaceStep ==
  ASSUME RecoverableInv, RecoverableInv', PaceInv, PlaceTyped, ViewTyped, OnsetCutsFewChunks,
         [Next]_vars
  PROVE  PaceInv'
BY BeginPaces, ReceivePaces, DispatchPaces, RecoveryPaces, EndingPaces, BesidePaces
   DEF Next, Goroutine

-------------------------------------------------------------------------------
(* What the client was shown agrees with the state the session goes back to *)
(* should its recovery fail: it is in the same utterance, or still in the   *)
(* one before, whose final it has, while nothing of the next was heard.     *)

Base == IF Recovering THEN fo.prev ELSE st

\* A recovery changes nothing of the state until it installs its candidate,
\* which is one epoch and one revision further.
Candidate ==
  /\ pc = "init" => st.worker = None
  /\ pc \in {"pick", "restore", "open"} => st = fo.prev
  /\ pc = "replay" => /\ st.utt = fo.prev.utt
                      /\ st.epoch = fo.prev.epoch + 1 /\ st.rev = fo.prev.rev + 1

\* Nothing is open and nothing is in hand.
Quiet == pipe.active = FALSE /\ todo = << >>

SameUtt == /\ sent.utt = Base.utt /\ sent.rev <= Base.rev
           /\ sent.closed = TRUE => pc = "renew"
           /\ pc = "renew" => sent.closed = TRUE
NextUtt == sent.utt + 1 = Base.utt /\ sent.closed = TRUE /\ pc # "renew" /\ Quiet

Shown == ~gone /\ ~Over =>
           /\ sent.epoch <= Base.epoch /\ sent.from \in {None, Base.worker}
           /\ SameUtt \/ NextUtt

ClientInv == ViewTyped /\ Candidate /\ Shown

ContractStep == [Contract!ContractNext]_<<sent.utt, sent.rev, sent.epoch, sent.closed,
                                          sent.acked, sent.from>>

LEMMA ClientInit == Init => ClientInv /\ Contract!ContractInit
<1> SUFFICES ASSUME Init PROVE ClientInv /\ Contract!ContractInit
  OBVIOUS
<1>1. /\ sent = [utt |-> 1, rev |-> 0, epoch |-> 0, closed |-> FALSE, acked |-> 0, from |-> None]
      /\ pc = "init" /\ gone = FALSE
      /\ st = [worker |-> None, handle |-> 0, key |-> None, gen |-> 0, last |-> 0,
               epoch |-> 0, utt |-> 1, uttStart |-> 0, rev |-> 0, finalized |-> FALSE]
  BY DEF Init
<1>2. ~Recovering /\ Base = st
  BY <1>1 DEF Base, Recovering
<1>3. ViewTyped
  BY <1>1, <1>2 DEF ViewTyped, View, Counts
<1>4. Candidate
  BY <1>1 DEF Candidate
<1>5. Shown
  BY <1>1, <1>2 DEF Shown, SameUtt
<1>6. Contract!ContractInit
  BY <1>1 DEF Contract!ContractInit
<1> QED
  BY <1>3, <1>4, <1>5, <1>6 DEF ClientInv

\* A step that shows nothing and leaves the state's counters alone.
LEMMA NothingShown ==
  ASSUME ClientInv, sent' = sent, gone' = gone \/ gone' = TRUE, Over => Over',
         Counts(st)', Recovering' => Counts(fo.prev)', Candidate',
         ~Over' => /\ Base'.utt = Base.utt /\ Base'.rev = Base.rev
                   /\ Base'.epoch = Base.epoch
                   /\ Base'.worker = Base.worker \/ Base.worker = None
                   /\ pc' = "renew" <=> pc = "renew"
                   /\ Quiet => Quiet'
  PROVE  ClientInv' /\ ContractStep
<1>1. ContractStep
  BY DEF ContractStep
<1>2. ViewTyped'
  BY DEF ClientInv, ViewTyped, View
<1>3. Shown'
  <2> SUFFICES ASSUME ~gone', ~Over' PROVE Shown'
    BY DEF Shown
  <2>1. /\ sent.epoch <= Base.epoch /\ sent.from \in {None, Base.worker}
        /\ SameUtt \/ NextUtt
    BY DEF ClientInv, Shown
  <2> HIDE DEF Base, Quiet
  <2>2. SameUtt => SameUtt'
    BY DEF SameUtt
  <2>3. NextUtt => NextUtt'
    BY DEF NextUtt
  <2> QED
    BY <2>1, <2>2, <2>3 DEF Shown
<1> QED
  BY <1>1, <1>2, <1>3 DEF ClientInv

\* A step after which the client is in the session's utterance.
LEMMA SomethingShown ==
  ASSUME sent' \in View, Counts(st)', ~Recovering', pc' # "init",
         sent'.epoch <= st'.epoch, sent'.from \in {None, st'.worker},
         sent'.utt = st'.utt, sent'.rev <= st'.rev,
         ~Over' => (sent'.closed = TRUE <=> pc' = "renew")
  PROVE  ClientInv'
<1>1. ViewTyped'
  BY DEF ViewTyped, View
<1>2. Candidate'
  BY DEF Candidate, Recovering
<1>3. Shown'
  BY DEF Shown, SameUtt, Base
<1> QED
  BY <1>1, <1>2, <1>3 DEF ClientInv

LEMMA BeginShows ==
  ASSUME ClientInv, PlaceTyped, Begin
  PROVE  ClientInv' /\ ContractStep
<1>1. ASSUME NEW w \in Workers, Start(w) PROVE ClientInv' /\ ContractStep
  <2>1. /\ st' = [st EXCEPT !.worker = w, !.handle = minted + 1, !.key = Key[w]]
        /\ pc = "init" /\ pc' = "idle" /\ UNCHANGED <<pipe, todo, sent, gone>>
    BY <1>1 DEF Start, audioVars, world
  <2>2. ~Recovering /\ ~Recovering' /\ ~Over
    BY <2>1 DEF Recovering, Over
  <2>3. Counts(st) /\ st.worker = None
    BY <2>1 DEF ClientInv, ViewTyped, Candidate
  <2>4. /\ Counts(st)' /\ st'.utt = st.utt /\ st'.rev = st.rev /\ st'.epoch = st.epoch
    BY <2>1, <2>3 DEF Counts
  <2>5. Candidate'
    BY <2>1 DEF Candidate
  <2>6. Quiet => Quiet'
    BY <2>1 DEF Quiet
  <2>7. Base = st /\ Base' = st'
    BY <2>2 DEF Base
  <2> HIDE DEF Base, Quiet
  <2> QED
    BY <2>1, <2>2, <2>3, <2>4, <2>5, <2>6, <2>7, NothingShown
<1>2. CASE StartRefused
  <2>1. /\ pc = "init" /\ pc' = "done" /\ UNCHANGED <<st, sent, gone>>
    BY <1>2 DEF StartRefused, world
  <2>2. Counts(st)' /\ Candidate' /\ ~Recovering' /\ Over' /\ ~Over
    BY <2>1 DEF ClientInv, ViewTyped, Counts, Candidate, Recovering, Over
  <2> QED
    BY <2>1, <2>2, NothingShown
<1> QED
  BY <1>1, <1>2 DEF Begin

\* While no frame opens the next utterance, the pipeline stays quiet.
LEMMA FrameIsQuiet ==
  ASSUME RecoverableInv, Ordered, NEW voiced \in BOOLEAN, ReceiveFrame(voiced),
         ~HasStarted(Hearing(voiced)), Quiet
  PROVE  Quiet'
<1> DEFINE q == Hearing(voiced)
<1>1. q \in PipeOf(Framing(SafeWith)) /\ Moves(pipe, q)
  BY FrameHeard
<1>2. /\ pipe'.active = q.active
      /\ ~HasEnded(q) => todo' = Chunks(q.ready)
  BY FrameLeft
<1> HIDE DEF q
<1>3. ~pipe.active
  BY Zenon DEF Quiet
<1>4. ~HasStarted(q)
  BY DEF q
<1>5. ~q.active /\ q.events = << >> /\ q.ready = << >>
  BY <1>1, <1>3, <1>4, Zenon DEF Moves
<1>6. q.active = FALSE
  <2>1. q.active \in BOOLEAN
    BY <1>1 DEF PipeOf
  <2> QED
    BY <1>5, <2>1, Zenon
<1>7. ~HasEnded(q)
  BY <1>5 DEF HasEnded
<1>8. todo' = << >>
  BY <1>2, <1>5, <1>7 DEF Chunks
<1> QED
  BY <1>2, <1>6, <1>8 DEF Quiet

\* What an event shows if the client is in the session's utterance already.
LEMMA AlreadyAnnounced ==
  ASSUME ClientInv, ~gone, ~Over, ~Recovering, ~Quiet \/ SameUtt, pc # "renew"
  PROVE  /\ sent \in View /\ Counts(st)
         /\ sent.utt = st.utt /\ sent.rev <= st.rev /\ sent.closed = FALSE
         /\ sent.epoch <= st.epoch /\ sent.from \in {None, st.worker}
         /\ Announced = sent
<1>1. Base = st
  BY DEF Base
<1>2. sent \in View /\ Counts(st)
  BY DEF ClientInv, ViewTyped
<1>3. SameUtt /\ sent.epoch <= st.epoch /\ sent.from \in {None, st.worker}
  BY <1>1 DEF ClientInv, Shown, NextUtt
<1>4. sent.utt = st.utt /\ sent.rev <= st.rev /\ sent.closed # TRUE
  BY <1>1, <1>3 DEF SameUtt
<1>5. sent.closed = FALSE
  BY <1>2, <1>4 DEF View
<1> QED
  BY <1>2, <1>3, <1>4, <1>5 DEF Announced

\* The frame that confirms an onset announces the session's utterance.
LEMMA OnsetShows ==
  ASSUME ClientInv, Over' \/ pc' = "dispatch", pc = "idle", NEW s,
         st' = [st EXCEPT !.uttStart = s], Shows(Announced), gone' = gone
  PROVE  ClientInv' /\ ContractStep
<1>1. ~Over /\ ~Recovering /\ ~Recovering' /\ pc' \notin {"init", "renew"}
  BY DEF Over, Recovering
<1>2. Counts(st) /\ sent \in View
  BY DEF ClientInv, ViewTyped
<1>3. /\ Counts(st)' /\ st'.utt = st.utt /\ st'.rev = st.rev
      /\ st'.epoch = st.epoch /\ st'.worker = st.worker
  BY <1>2 DEF Counts
<1>4. Candidate'
  BY <1>1 DEF Candidate, Recovering
<1>5. CASE gone
  <2>1. sent' = sent
    BY <1>5 DEF Shows
  <2>2. ClientInv'
    BY <1>2, <1>3, <1>4, <1>1, <1>5, <2>1 DEF ClientInv, ViewTyped, Shown, View
  <2> QED
    BY <2>1, <2>2 DEF ContractStep
<1>6. CASE ~gone /\ SameUtt
  <2>1. /\ sent.utt = st.utt /\ sent.rev <= st.rev /\ sent.closed = FALSE
        /\ sent.epoch <= st.epoch /\ sent.from \in {None, st.worker} /\ Announced = sent
    BY <1>1, <1>6, AlreadyAnnounced
  <2>2. sent' = sent
    BY <1>6, <2>1 DEF Shows
  <2>3. ClientInv'
    BY <1>1, <1>2, <1>3, <2>1, <2>2, SomethingShown DEF View
  <2> QED
    BY <2>2, <2>3 DEF ContractStep
<1>7. CASE ~gone /\ ~SameUtt
  <2>1. Base = st
    BY <1>1 DEF Base
  <2>2. /\ sent.utt + 1 = st.utt /\ sent.closed = TRUE
        /\ sent.epoch <= st.epoch /\ sent.from \in {None, st.worker}
    BY <1>1, <1>7, <2>1 DEF ClientInv, Shown, NextUtt
  <2>3. sent.utt # st.utt
    <3>1. sent.utt \in Nat
      BY <1>2 DEF View
    <3> QED
      BY <2>2, <3>1
  <2>4. sent' = [sent EXCEPT !.utt = st.utt, !.rev = 0, !.closed = FALSE]
    BY <1>7, <2>3 DEF Shows, Announced
  <2>5. /\ sent'.utt = sent.utt + 1 /\ sent'.rev = 0 /\ sent'.closed = FALSE
        /\ sent'.epoch = sent.epoch /\ sent'.acked = sent.acked /\ sent'.from = sent.from
    BY <1>2, <2>2, <2>4 DEF View
  <2>6. sent' \in View
    BY <1>2, <1>3, <2>4 DEF View, Counts
  <2>7. ContractStep
    BY <2>2, <2>5 DEF ContractStep, Contract!ContractNext, Contract!ShowNext
  <2>8. ClientInv'
    <3>1. sent'.utt = st'.utt /\ sent'.rev <= st'.rev
      BY <1>2, <1>3, <2>2, <2>5 DEF Counts
    <3>2. sent'.epoch <= st'.epoch /\ sent'.from \in {None, st'.worker}
      BY <1>3, <2>2, <2>5
    <3> QED
      BY <1>1, <1>3, <2>5, <2>6, <3>1, <3>2, SomethingShown
  <2> QED
    BY <2>7, <2>8
<1> QED
  BY <1>5, <1>6, <1>7

LEMMA ReceiveShows ==
  ASSUME ClientInv, RecoverableInv, PaceInv, Receive
  PROVE  ClientInv' /\ ContractStep
<1>1. Counts(st) /\ pc = "idle" /\ ~Over /\ ~Recovering /\ Ordered
  BY DEF ClientInv, ViewTyped, Receive, ReceiveFrame, ReceiveEnd, ReceiveClosed, Over,
         Recovering, PaceInv
<1>2. ASSUME UNCHANGED <<st, sent, gone>>, Quiet => Quiet', pc' \in {"dispatch", "ended"}
      PROVE  ClientInv' /\ ContractStep
  <2>1. /\ Counts(st)' /\ ~Recovering' /\ Base = st /\ Base' = st'
        /\ Candidate'
    BY <1>1, <1>2 DEF Counts, Recovering, Base, Candidate
  <2> HIDE DEF Base, Quiet
  <2> QED
    BY <1>1, <1>2, <2>1, NothingShown
<1>3. ASSUME NEW voiced \in BOOLEAN, ReceiveFrame(voiced) PROVE ClientInv' /\ ContractStep
  <2> DEFINE q == Hearing(voiced)
             s == Newest + 1
  <2>1. /\ IF HasStarted(q)
           THEN st' = [st EXCEPT !.uttStart = s] /\ Shows(Announced) /\ pc' \in Onward("dispatch")
           ELSE UNCHANGED <<st, sent>> /\ pc' = "dispatch"
        /\ gone' = gone
    <3>1. s = IF retained = << >> THEN 1 ELSE Last(retained) + 1
      BY DEF Newest
    <3> HIDE DEF s
    <3>2. q = ApplyHysteresis(pipe, [seq |-> s, dur |-> FrameUs, voiced |-> voiced])
      BY DEF Hearing, Incoming, s
    <3> HIDE DEF q
    <3> QED
      BY <1>3, <3>1, <3>2 DEF ReceiveFrame, HasStarted, world
  <2>2. CASE HasStarted(q)
    <3>1. Over' \/ pc' = "dispatch"
      BY <2>1, <2>2 DEF Onward, Over
    <3> HIDE DEF q, s
    <3> QED
      BY <1>1, <2>1, <2>2, <3>1, OnsetShows
  <2>3. CASE ~HasStarted(q)
    <3>1. Quiet => Quiet'
      BY <1>1, <1>3, <2>3, FrameIsQuiet
    <3> HIDE DEF q, s, Quiet
    <3> QED
      BY <1>2, <2>1, <2>3, <3>1
  <2> QED
    BY <2>2, <2>3
<1>4. CASE ReceiveEnd
  <2>1. /\ todo' = Forced(pipe) /\ pipe' = AfterForceCut(pipe) /\ pc' = "dispatch"
        /\ UNCHANGED <<st, sent, gone>>
    BY <1>4 DEF ReceiveEnd, world
  <2>2. ASSUME Quiet PROVE Quiet'
    <3>1. pipe.pending = << >>
      <4>1. ~pipe.active
        BY <2>2, Zenon DEF Quiet
      <4> QED
        BY <1>1, <4>1, Zenon DEF Ordered, Settled
    <3>2. todo' = << >>
      BY <2>1, <3>1 DEF Forced
    <3>3. pipe'.active = pipe.active
      BY <2>1 DEF AfterForceCut, RecoverableInv, PipelineKept, PipeOf
    <3> QED
      BY <2>2, <3>2, <3>3 DEF Quiet
  <2> QED
    BY <1>2, <2>1, <2>2
<1>5. CASE ReceiveClosed
  <2>1. UNCHANGED <<st, sent, gone, pipe, todo>> /\ pc' = "ended"
    BY <1>5 DEF ReceiveClosed, world, audioVars
  <2>2. Quiet => Quiet'
    BY <2>1 DEF Quiet
  <2> QED
    BY <1>2, <2>1, <2>2
<1> QED
  BY <1>3, <1>4, <1>5 DEF Receive

\* An answered push shows a partial of the worker the client knows, and an
\* acknowledgement no older than the last.
LEMMA AnswerShows ==
  ASSUME ClientInv, PlaceTyped, ~gone, todo # << >>, pc \in {"dispatch", "pushing"},
         NEW h, h.last \in Nat, Applied(h), sent.acked <= sent'.acked
  PROVE  ClientInv' /\ ContractStep
<1>1. ~Over /\ ~Recovering /\ ~Quiet /\ pc # "renew"
  BY DEF Over, Recovering, Quiet
<1>2. /\ sent \in View /\ Counts(st)
      /\ sent.utt = st.utt /\ sent.rev <= st.rev /\ sent.closed = FALSE
      /\ sent.epoch <= st.epoch /\ sent.from \in {None, st.worker}
      /\ Announced = sent
  BY <1>1, AlreadyAnnounced
<1>3. sent' = [sent EXCEPT !.rev = st.rev + 1, !.acked = h.last, !.from = st.worker]
  BY <1>2 DEF Applied, Shows
<1>4. /\ sent'.utt = sent.utt /\ sent'.rev = st.rev + 1 /\ sent'.closed = FALSE
      /\ sent'.epoch = sent.epoch /\ sent'.from = st.worker
  BY <1>2, <1>3 DEF View
<1>5. sent' \in View
  <2>1. sent \in View /\ st.rev + 1 \in Nat /\ st.worker \in Workers \cup {None}
    BY <1>2 DEF Counts, PlaceTyped, Names
  <2> QED
    BY <1>3, <2>1 DEF View
<1>6. /\ Counts(st)' /\ st'.utt = st.utt /\ st'.rev = st.rev + 1
      /\ st'.epoch = st.epoch /\ st'.worker = st.worker
  BY <1>2 DEF Applied, Mirrored, Counts
<1>7. pc' \in {"dispatch", "ended"}
  BY DEF Applied, Onward
<1>8. ClientInv'
  <2>1. ~Recovering' /\ pc' \notin {"init", "renew"}
    BY <1>7 DEF Recovering
  <2>2. sent'.rev <= st'.rev /\ sent'.utt = st'.utt
    BY <1>2, <1>4, <1>6 DEF Counts
  <2>3. sent'.epoch <= st'.epoch /\ sent'.from \in {None, st'.worker}
    BY <1>2, <1>4, <1>6
  <2> QED
    BY <1>4, <1>5, <1>6, <2>1, <2>2, <2>3, SomethingShown
<1>9. ContractStep
  <2>1. sent'.rev > sent.rev
    BY <1>2, <1>4 DEF Counts, View
  <2>2. sent'.acked >= sent.acked
    BY <1>2, <1>5 DEF View
  <2>3. sent.from = None \/ sent'.from = sent.from
    BY <1>2, <1>4
  <2> QED
    BY <1>2, <1>4, <2>1, <2>2, <2>3 DEF ContractStep, Contract!ContractNext, Contract!ShowPartial
<1> QED
  BY <1>8, <1>9

LEMMA DispatchShows ==
  ASSUME ClientInv, RecoverableInv, PaceInv, PlaceTyped, Dispatch
  PROVE  ClientInv' /\ ContractStep
<1>1. Counts(st) /\ ~Over /\ ~Recovering /\ pc # "renew" /\ sent.acked <= sent'.acked
  <2>1. Counts(st) /\ ViewTyped
    BY DEF ClientInv, ViewTyped
  <2>2. pc \in {"dispatch", "pushing"}
    BY DEF Dispatch, AllDispatched, PushInfer, PushCommit, PushRepeated, PushFails, Calling
  <2>3. sent.acked <= sent'.acked
    BY <2>1, DispatchPaces
  <2> QED
    BY <2>1, <2>2, <2>3 DEF Over, Recovering
<1>2. CASE AllDispatched \/ PushInfer
  <2>1. UNCHANGED <<st, sent, gone, pipe, todo>> /\ pc' \in {"idle", "final", "pushing"}
    BY <1>2 DEF AllDispatched, PushInfer, world, audioVars
  <2>2. /\ Counts(st)' /\ ~Recovering' /\ Base = st /\ Base' = st' /\ Candidate'
        /\ Quiet => Quiet'
    BY <1>1, <2>1 DEF Counts, Recovering, Base, Candidate, Quiet
  <2> HIDE DEF Base, Quiet
  <2> QED
    BY <1>1, <2>1, <2>2, NothingShown
<1>3. CASE PushCommit
  <2>1. /\ ~gone /\ pc = "pushing" /\ todo # << >> /\ Applied(Committed(Owner))
        /\ st.handle \in DOMAIN handles
    BY <1>3 DEF PushCommit, Answers, RecoverableInv, TodoKept
  <2>2. Committed(Owner).last \in Nat
    <3>1. "last" \in DOMAIN Owner
      BY <2>1 DEF RecoverableInv, CoveredKept, Reaches, Owner
    <3>2. Committed(Owner).last = SeqEnd(Chunk)
      BY <3>1 DEF Committed
    <3> QED
      BY <2>1, <3>2, EndsCame, FirstInHand
  <2> QED
    BY <1>1, <2>1, <2>2, AnswerShows
<1>4. CASE PushRepeated
  <2>1. /\ ~gone /\ pc = "dispatch" /\ todo # << >> /\ Applied(Owner)
        /\ st.handle \in DOMAIN handles
    BY <1>4 DEF PushRepeated, Calling, Answers
  <2>2. Owner.last \in Nat
    BY <2>1, NewestNat DEF RecoverableInv, CoveredKept, Reaches, Owner
  <2> QED
    BY <1>1, <2>1, <2>2, AnswerShows
<1>5. CASE PushFails
  <2>1. UNCHANGED <<st, sent, gone, pipe, todo>> /\ pc' = "pick" /\ fo'.prev = st
    BY <1>5 DEF PushFails, audioVars, NoFailover
  <2>2. /\ Counts(st)' /\ Base = st /\ Base' = st /\ Candidate' /\ Counts(fo.prev)'
        /\ Quiet => Quiet'
    BY <1>1, <2>1 DEF Counts, Recovering, Base, Candidate, Quiet
  <2> HIDE DEF Base, Quiet
  <2> QED
    BY <1>1, <2>1, <2>2, NothingShown
<1> QED
  BY <1>2, <1>3, <1>4, <1>5 DEF Dispatch

\* Until it takes over a recovery shows nothing, and whatever it installs it
\* can put back.
LEMMA AttemptShows ==
  ASSUME ClientInv, AttemptTyped,
         (\E w \in Workers : Pick(w)) \/ Restore \/ RestoreFails \/ Open \/ Replay \/ AttemptFails
  PROVE  ClientInv' /\ ContractStep
<1>1. Recovering /\ Recovering' /\ UNCHANGED <<sent, gone, pipe, todo>>
  BY DEF Pick, Restore, RestoreFails, Open, Replay, AttemptFails, Recovering, audioVars, world
<1>2. Counts(st) /\ Counts(fo.prev)
  BY <1>1 DEF ClientInv, ViewTyped
<1>3. fo'.prev = fo.prev /\ Counts(st)' /\ Candidate'
  <2>1. ASSUME NEW w \in Workers, Pick(w) PROVE fo'.prev = fo.prev /\ Counts(st)' /\ Candidate'
    <3>1. /\ fo'.prev = fo.prev /\ UNCHANGED st /\ pc = "pick" /\ pc' \in {"restore", "open"}
      BY <2>1 DEF Pick, AttemptTyped
    <3> QED
      BY <1>2, <3>1 DEF Counts, Candidate, ClientInv
  <2>2. CASE RestoreFails
    BY <1>2, <2>2 DEF RestoreFails, Counts, Candidate, ClientInv
  <2>3. CASE Restore \/ Open
    <3>1. /\ fo'.prev = fo.prev /\ pc \in {"restore", "open"} /\ pc' = "replay"
          /\ \E w, last : st' = Installed(w, minted + 1, last)
      BY <2>3 DEF Restore, Open, AttemptTyped
    <3>2. Counts(st)' /\ st'.utt = st.utt /\ st'.epoch = st.epoch + 1 /\ st'.rev = st.rev + 1
      BY <1>2, <3>1 DEF Installed, Counts
    <3>3. st = fo.prev
      BY <3>1 DEF ClientInv, Candidate
    <3> QED
      BY <3>1, <3>2, <3>3 DEF Candidate
  <2>4. CASE Replay
    <3>1. fo'.prev = fo.prev /\ pc = "replay" /\ pc' = "replay"
      BY <2>4 DEF Replay, AttemptTyped
    <3>2. \E g, last : st' = [st EXCEPT !.gen = g, !.last = last]
      BY <2>4 DEF Replay
    <3>3. Counts(st)' /\ st'.utt = st.utt /\ st'.epoch = st.epoch /\ st'.rev = st.rev
      BY <1>2, <3>2 DEF Counts
    <3> QED
      BY <3>1, <3>3 DEF Candidate, ClientInv
  <2>5. CASE AttemptFails
    <3>1. st' = fo.prev /\ fo'.prev = fo.prev /\ pc' = "pick"
      BY <2>5 DEF AttemptFails, RolledBack, Excluding, AttemptTyped
    <3> QED
      BY <1>2, <3>1 DEF Counts, Candidate
  <2> QED
    BY <2>1, <2>2, <2>3, <2>4, <2>5
<1>4. Base = fo.prev /\ Base' = Base /\ Counts(fo.prev)' /\ (Quiet => Quiet')
  BY <1>1, <1>2, <1>3 DEF Base, Counts, Quiet
<1>5. pc # "renew" /\ pc' # "renew" /\ ~Over
  BY <1>1 DEF Recovering, Over
<1> HIDE DEF Base, Quiet
<1> QED
  BY <1>1, <1>3, <1>4, <1>5, NothingShown

\* A recovery that takes over shows its reset, one epoch and at least one
\* revision further.
LEMMA TakeOverShows ==
  ASSUME ClientInv, RecoverableInv, PlaceTyped, TakeOver
  PROVE  ClientInv' /\ ContractStep
<1>1. /\ pc = "replay" /\ Recovering /\ ~Over /\ pc' \in {"dispatch", "ended"} /\ gone' = gone
      /\ todo # << >>
      /\ st' = [st EXCEPT !.rev = IF fo.text THEN @ + 1 ELSE @]
      /\ Shows([Announced EXCEPT !.rev = st'.rev, !.epoch = st.epoch, !.from = st.worker])
  BY DEF TakeOver, Onward, Recovering, Over, world, RecoverableInv, TodoKept
<1>2. sent \in View /\ Counts(st) /\ Counts(fo.prev) /\ st.worker \in Workers \cup {None}
  BY <1>1 DEF ClientInv, ViewTyped, PlaceTyped, Names
<1>3. /\ Counts(st)' /\ st'.utt = st.utt /\ st'.epoch = st.epoch /\ st'.worker = st.worker
      /\ st'.rev \in {st.rev, st.rev + 1}
  BY <1>1, <1>2 DEF Counts
<1>4. st.utt = fo.prev.utt /\ st.epoch = fo.prev.epoch + 1 /\ st.rev = fo.prev.rev + 1
  BY <1>1 DEF ClientInv, Candidate
<1>5. ~Recovering' /\ pc' \notin {"init", "renew"}
  BY <1>1 DEF Recovering
<1>6. CASE gone
  <2>1. sent' = sent
    BY <1>1, <1>6 DEF Shows
  <2>2. Candidate'
    BY <1>5 DEF Candidate, Recovering
  <2>3. ClientInv'
    BY <1>1, <1>2, <1>3, <1>5, <1>6, <2>1, <2>2 DEF ClientInv, ViewTyped, Shown, View
  <2> QED
    BY <2>1, <2>3 DEF ContractStep
<1>7. CASE ~gone
  <2>1. Base = fo.prev /\ ~Quiet
    BY <1>1 DEF Base, Quiet
  <2>2. SameUtt /\ sent.epoch <= fo.prev.epoch
    BY <1>1, <1>7, <2>1 DEF ClientInv, Shown, NextUtt
  <2>3. sent.utt = st.utt /\ sent.rev <= fo.prev.rev /\ sent.closed = FALSE
    <3>1. sent.utt = st.utt /\ sent.rev <= fo.prev.rev /\ sent.closed # TRUE
      BY <1>1, <1>4, <2>1, <2>2 DEF SameUtt
    <3> QED
      BY <1>2, <3>1 DEF View
  <2>4. sent' = [sent EXCEPT !.rev = st'.rev, !.epoch = st.epoch, !.from = st.worker]
    BY <1>1, <1>7, <2>3 DEF Shows, Announced
  <2>5. /\ sent'.utt = sent.utt /\ sent'.rev = st'.rev /\ sent'.closed = sent.closed
        /\ sent'.epoch = st.epoch /\ sent'.from = st.worker /\ sent'.acked = sent.acked
    BY <1>2, <2>4 DEF View
  <2>6. sent' \in View
    <3>1. sent \in View /\ st'.rev \in Nat /\ st.epoch \in Nat
      BY <1>2, <1>3 DEF Counts
    <3> QED
      BY <1>2, <2>4, <3>1 DEF View
  <2>7. sent'.rev > sent.rev /\ sent'.epoch > sent.epoch
    BY <1>2, <1>3, <1>4, <2>2, <2>3, <2>5 DEF Counts, View
  <2>8. ContractStep
    BY <2>3, <2>5, <2>7 DEF ContractStep, Contract!ContractNext, Contract!ShowReset
  <2>9. ClientInv'
    <3>1. sent'.rev <= st'.rev /\ sent'.epoch <= st'.epoch
      BY <1>2, <1>3, <2>5, <2>6 DEF View, Counts
    <3>2. sent'.utt = st'.utt /\ sent'.from \in {None, st'.worker} /\ sent'.closed # TRUE
      BY <1>3, <2>3, <2>5
    <3> QED
      BY <1>3, <1>5, <2>6, <3>1, <3>2, SomethingShown
  <2> QED
    BY <2>8, <2>9
<1> QED
  BY <1>6, <1>7

LEMMA RecoveryShows ==
  ASSUME ClientInv, RecoverableInv, PlaceTyped, AttemptTyped, Recovery
  PROVE  ClientInv' /\ ContractStep
<1>1. CASE GiveUp
  <2>1. UNCHANGED <<st, sent, gone>> /\ pc' = "ended" /\ pc = "pick"
    BY <1>1 DEF GiveUp, world
  <2>2. Counts(st)' /\ Candidate' /\ ~Recovering' /\ Over'
    BY <2>1 DEF ClientInv, ViewTyped, Counts, Candidate, Recovering, Over
  <2> QED
    BY <2>1, <2>2, NothingShown
<1> QED
  BY <1>1, AttemptShows, TakeOverShows DEF Recovery

\* A final closes the utterance the client is in, or opens and closes one that
\* nothing was heard of.
LEMMA FinalizeShows ==
  ASSUME ClientInv, Finalize
  PROVE  ClientInv' /\ ContractStep
<1>1. /\ pc = "final" /\ pc' \in {"renew", "ended"} /\ ~gone /\ gone' = gone
      /\ st' = [st EXCEPT !.finalized = TRUE]
      /\ sent' = [Announced EXCEPT !.closed = TRUE]
  BY DEF Finalize, Shows, world
<1>2. ~Over /\ ~Recovering /\ ~Recovering' /\ Base = st
  BY <1>1 DEF Over, Recovering, Base
<1>3. sent \in View /\ Counts(st)
  BY DEF ClientInv, ViewTyped
<1>4. /\ Counts(st)' /\ st'.utt = st.utt /\ st'.rev = st.rev
      /\ st'.epoch = st.epoch /\ st'.worker = st.worker
  BY <1>1, <1>3 DEF Counts
<1>5. sent.epoch <= st.epoch /\ sent.from \in {None, st.worker} /\ (SameUtt \/ NextUtt)
  BY <1>1, <1>2 DEF ClientInv, Shown
<1>6. CASE SameUtt
  <2>1. /\ sent.utt = st.utt /\ sent.rev <= st.rev /\ sent.closed = FALSE /\ Announced = sent
    BY <1>1, <1>2, <1>6, AlreadyAnnounced
  <2>2. sent' = [sent EXCEPT !.closed = TRUE]
    BY <1>1, <2>1
  <2>3. /\ sent'.utt = sent.utt /\ sent'.rev = sent.rev /\ sent'.closed = TRUE
        /\ sent'.epoch = sent.epoch /\ sent'.from = sent.from /\ sent'.acked = sent.acked
        /\ sent' \in View
    BY <1>3, <2>2 DEF View
  <2>4. ContractStep
    BY <2>1, <2>3 DEF ContractStep, Contract!ContractNext, Contract!ShowFinal
  <2>5. ClientInv'
    BY <1>1, <1>2, <1>4, <1>5, <2>1, <2>3, SomethingShown DEF Over
  <2> QED
    BY <2>4, <2>5
<1>7. CASE NextUtt
  <2>1. sent.utt + 1 = st.utt /\ sent.closed = TRUE /\ sent.utt \in Nat
    BY <1>2, <1>3, <1>7 DEF NextUtt, View
  <2>2. Announced = [sent EXCEPT !.utt = st.utt, !.rev = 0, !.closed = FALSE]
    BY <2>1 DEF Announced
  <2>3. Announced \in View
    BY <1>3, <2>2 DEF View, Counts
  <2>4. /\ sent'.utt = sent.utt + 1 /\ sent'.rev = 0 /\ sent'.closed = TRUE
        /\ sent'.epoch = sent.epoch /\ sent'.from = sent.from /\ sent'.acked = sent.acked
    BY <1>1, <1>3, <2>1, <2>2 DEF View
  <2>5. sent' \in View
    BY <1>1, <2>3 DEF View
  <2>6. ContractStep
    BY <2>1, <2>4 DEF ContractStep, Contract!ContractNext, Contract!ShowNext
  <2>7. ClientInv'
    <3>1. sent'.rev <= st'.rev /\ sent'.utt = st'.utt
      BY <1>3, <1>4, <2>1, <2>4 DEF Counts
    <3>2. sent'.epoch <= st'.epoch /\ sent'.from \in {None, st'.worker}
      BY <1>4, <1>5, <2>4
    <3> QED
      BY <1>1, <1>2, <1>4, <2>4, <2>5, <3>1, <3>2, SomethingShown DEF Over
  <2> QED
    BY <2>6, <2>7
<1> QED
  BY <1>5, <1>6, <1>7

\* A renewal leaves the client behind, in an utterance that is closed, and
\* nothing of the next was heard.
LEMMA RenewShows ==
  ASSUME ClientInv, RecoverableInv, PaceInv, Renew
  PROVE  ClientInv' /\ ContractStep
<1>1. /\ pc = "renew" /\ pc' = "idle" /\ ~gone
      /\ UNCHANGED <<sent, pipe, todo>>
      /\ st' = [Renewed EXCEPT !.handle = minted + 1, !.gen = 0]
  BY DEF Renew, audioVars
<1>2. ~Over /\ ~Recovering /\ ~Recovering' /\ Base = st /\ Base' = st'
  BY <1>1 DEF Over, Recovering, Base
<1>3. sent \in View /\ Counts(st)
  BY DEF ClientInv, ViewTyped
<1>4. /\ Counts(st)' /\ st'.utt = st.utt + 1 /\ st'.epoch = st.epoch /\ st'.worker = st.worker
  <2>1. Counts(Renewed) /\ Renewed.utt = st.utt + 1 /\ Renewed.epoch = st.epoch
        /\ Renewed.worker = st.worker
    BY <1>3 DEF Renewed, Counts
  <2> QED
    BY <1>1, <2>1 DEF Counts
<1>5. /\ sent.epoch <= st.epoch /\ sent.from \in {None, st.worker}
      /\ sent.utt = st.utt /\ sent.closed = TRUE
  BY <1>1, <1>2 DEF ClientInv, Shown, SameUtt, NextUtt
<1>6. Quiet
  <2>1. todo = << >> /\ after = "endpoint"
    BY <1>1 DEF RecoverableInv, TodoKept, AfterKept
  <2> QED
    BY <1>2, <2>1 DEF PaceInv, Ordered, Quiet
<1>7. ViewTyped'
  BY <1>1, <1>2, <1>3, <1>4 DEF ViewTyped, View
<1>8. Candidate'
  BY <1>1 DEF Candidate
<1>9. Quiet'
  BY <1>1, <1>6 DEF Quiet
<1>10. NextUtt'
  <2> HIDE DEF Quiet, Base
  <2> QED
    BY <1>1, <1>2, <1>4, <1>5, <1>9 DEF NextUtt
<1>11. Shown'
  <2> HIDE DEF NextUtt, Base
  <2> QED
    BY <1>1, <1>2, <1>4, <1>5, <1>10 DEF Shown
<1> QED
  BY <1>1, <1>7, <1>8, <1>11 DEF ClientInv, ContractStep

LEMMA EndingShows ==
  ASSUME ClientInv, RecoverableInv, PaceInv, Ending
  PROVE  ClientInv' /\ ContractStep
<1>1. CASE FinalizeFails \/ RenewFails \/ Cleanup
  <2>1. /\ UNCHANGED <<st, sent, gone>> /\ pc' \in {"ended", "done"}
        /\ pc \in {"final", "renew", "ended"}
    BY <1>1 DEF FinalizeFails, RenewFails, Cleanup, world
  <2>2. Counts(st)' /\ Candidate' /\ ~Recovering' /\ Over'
    BY <2>1 DEF ClientInv, ViewTyped, Counts, Candidate, Recovering, Over
  <2> QED
    BY <2>1, <2>2, NothingShown
<1> QED
  BY <1>1, FinalizeShows, RenewShows DEF Ending

LEMMA BesideShows ==
  ASSUME ClientInv, Checkpoints \/ World \/ UNCHANGED vars
  PROVE  ClientInv' /\ ContractStep
<1>1. UNCHANGED <<pc, st, fo, sent, pipe, todo>> /\ (gone' = gone \/ gone' = TRUE)
  <2>1. UNCHANGED <<pc, st, fo, sent, pipe, todo>>
    BY DEF Checkpoints, World, CheckpointTaken, CheckpointStored, CheckpointFails, Crash, Restart,
           Corrupt, Disconnect, vars, audioVars
  <2>2. gone' = gone \/ gone' = TRUE
    BY DEF Checkpoints, World, CheckpointTaken, CheckpointStored, CheckpointFails, Crash, Restart,
           Corrupt, Disconnect, vars, world
  <2> QED
    BY <2>1, <2>2
<1>2. /\ Counts(st)' /\ Candidate' /\ (Recovering' => Counts(fo.prev)') /\ (Quiet => Quiet')
      /\ Base' = Base /\ (Over' <=> Over)
  BY <1>1 DEF ClientInv, ViewTyped, Counts, Candidate, Recovering, Quiet, Base, Over
<1> HIDE DEF Base, Quiet
<1> QED
  BY <1>1, <1>2, NothingShown

LEMMA ClientStep ==
  ASSUME ClientInv, RecoverableInv, PaceInv, TypesInv, [Next]_vars
  PROVE  ClientInv' /\ ContractStep
<1>1. PlaceTyped /\ AttemptTyped
  BY DEF TypesInv
<1> QED
  BY <1>1, BeginShows, ReceiveShows, DispatchShows, RecoveryShows, EndingShows, BesideShows
     DEF Next, Goroutine

\* What the client sees of a session obeys the contract of the transcript
\* events (docs/PROTOCOL.md), however often it fails over, as long as an
\* onset's pre-roll lasts less than four chunks: revisions rise, a reset
\* announces every other worker's text, nothing follows a final but the next
\* utterance, and no acknowledgement is taken back.
THEOREM ClientViewKeepsContract == OnsetCutsFewChunks => (Spec => KeepsContract)
<1> SUFFICES ASSUME OnsetCutsFewChunks PROVE Spec => KeepsContract
  OBVIOUS
<1>1. Init => RecoverableInv /\ LedgerInv /\ TypesInv /\ PaceInv /\ ClientInv
  BY RecoverableInit, LedgerInit, TypesInit, PaceInit, ClientInit
<1>2. Init => Contract!ContractInit
  BY ClientInit
<1>3. LedgerInv /\ TypesInv /\ [Next]_vars => TypesInv'
  BY WorldKept, JobsKept, AttemptKept, PlaceKept DEF TypesInv
<1>4. RecoverableInv /\ RecoverableInv' /\ TypesInv /\ PaceInv /\ ClientInv /\ [Next]_vars
        => PaceInv'
  BY PaceStep DEF TypesInv, ClientInv
<1>5. RecoverableInv /\ TypesInv /\ PaceInv /\ ClientInv /\ [Next]_vars
        => ClientInv' /\ ContractStep
  BY ClientStep
<1>6. ContractStep <=> [Contract!ContractNext]_(Contract!contractVars)
  BY DEF ContractStep, Contract!contractVars
<1> QED
  BY <1>1, <1>2, <1>3, <1>4, <1>5, <1>6, RecoverableStep, LedgerStep, PTL
     DEF Spec, KeepsContract, Contract!ContractSpec
===============================================================================
