--------------------------- MODULE TaskQueueProofs ---------------------------
(***************************************************************************)
(* A tracked task for any number of messages, processes and crashes: types, *)
(* the completeness of the index, and that a terminal status comes last, is *)
(* final and keeps a failure.                                               *)
(***************************************************************************)
EXTENDS TaskQueue, TLAPS

-----------------------------------------------------------------------------
(* The inductive invariant *)

\* Where a worker is tells where its message is.
RowOK ==
    \A m \in Msg :
        /\ wpc[m] \in {"got", "start", "register", "run", "raised", "returned", "finalize", "ack"} =>
               row[m] = "processing"
        /\ wpc[m] \in {"acked", "end"} => row[m] = "gone"
        /\ wpc[m] = "stuck" => row[m] \in {"processing", "gone"}

\* A write left behind by a cancelled await is that of a discarded enqueue or of an
\* acknowledgement that was rolled back.
LateOK ==
    \A m \in late : wpc[m] = "stuck" \/ (row[m] = "new" /\ enq[m] = NoProc /\ m \in orphan)

\* A message on its way to the queue is on the index; one on its way out is in prep.
EnqIndexed == \A m \in Msg : enq[m] # NoProc /\ row[m] = "new" => m \in work
AckPrepared == \A m \in Msg \ orphan : wpc[m] \in {"finalize", "ack"} => m \in prep

\* Only a cancellation of the task stops its handlers.
CancelOnly == orphan # {} \/ hit # {} => CancellationRequested

\* The lock of the task: one writer, and what it writes follows from the record.
OneWriter == \A p, q \in Proc : call[p].at = "write" /\ call[q].at = "write" => p = q
WriteOK ==
    \A p \in Proc : call[p].at = "write" =>
        /\ rec.status \in ActiveStatus /\ (rec.error => call[p].new.error)
        /\ call[p].new.status # "absent"
        /\ (rec.status = "cancelling" => call[p].new.status = "cancelled")
        /\ (call[p].new.status = "cancelled" => rec.status = "cancelling")
        /\ (call[p].new.status = "completed" => rec.result /\ ~(crashes = 0 /\ erred))
        /\ (call[p].new.status = "failed" => rec.error \/ failed)
        /\ (call[p].op \in {"finalize", "settle"} => call[p].new.status \in Terminal)
        /\ (call[p].op = "cancel" => call[p].new.status = "cancelling")

\* Workers are signalled only in a task that is being cancelled.
SignalOK == \A p \in Proc : call[p].at = "signal" => CancellationRequested

\* While a terminal status is being written nothing of the task is left to do.
Quiet ==
    \A m \in Msg \ orphan : /\ Unacked(m) => wpc[m] \in Handled
                            /\ enq[m] # NoProc => row[m] # "new"
QuietWrite ==
    \A p \in Proc : call[p].at = "write" /\ call[p].new.status \in Terminal => Quiet

\* Before its first message the task has no work, no outcome and no caller but the
\* one that cancels it.
Fresh ==
    cpc \in {"idle", "created"} /\ Enqueuing(Client) = {} =>
        /\ \A m \in Msg : row[m] = "new" /\ enq[m] = NoProc /\ wpc[m] = "none"
        /\ late = {} /\ ~failed /\ ~rec.result /\ ~rec.error /\ ~erred
        /\ \A p \in Proc : /\ call[p].op \in {"none", "cancel", "finalize"}
                           /\ ~call[p].new.result /\ ~call[p].new.error
EarlyOK == cpc = "idle" => /\ rec = NoRecord /\ Enqueuing(Client) = {}
                           /\ \A p \in Proc : call[p] = NoCall

\* A failed work item leaves a trace until the task is terminal.
FailureNoted ==
    crashes = 0 /\ erred => /\ rec.status # "completed"
                            /\ CancellationRequested \/ rec.status = "failed" \/ rec.error \/ failed

IInv == /\ TypeOK /\ RowOK /\ LateOK /\ EnqIndexed /\ AckPrepared /\ IndexComplete /\ CancelOnly
        /\ OneWriter /\ WriteOK /\ SignalOK /\ QuietWrite /\ Fresh /\ EarlyOK /\ FailureNoted
-----------------------------------------------------------------------------
(* Types *)

\* The empty record and the calls of the tracker are well typed.
LEMMA CallTypes ==
    /\ NoRecord \in Record /\ NoCall \in Call
    /\ \A op \in Op, at \in {"check", "lock", "write", "signal", "none"} : At(op, at) \in Call
  BY DEF NoRecord, Record, Status, ActiveStatus, Open, Terminal, NoCall, Call, At, Op

\* Updates of a record leave a record.
LEMMA RecordTypes ==
    ASSUME NEW r \in Record, NEW s \in Status, NEW e \in BOOLEAN, NEW f \in BOOLEAN
    PROVE  /\ [r EXCEPT !.status = s] \in Record
           /\ [r EXCEPT !.result = e, !.error = f] \in Record
           /\ [r EXCEPT !.error = e] \in Record
  BY DEF Record

\* The record a finalization writes: terminal, or the record as it is.
LEMMA FinalizedRecord ==
    ASSUME TypeOK, rec.status \in ActiveStatus, Finalized # rec
    PROVE  /\ Finalized \in Record /\ Finalized.status \in Terminal
           /\ rec.error => Finalized.error
           /\ rec.status = "cancelling" <=> Finalized.status = "cancelled"
           /\ Finalized.status = "completed" => rec.result /\ ~rec.error /\ ~failed
           /\ Finalized.status = "failed" => rec.error \/ failed
           /\ Finalized.result = rec.result
           /\ Finalized.error => rec.error \/ failed
  <1> DEFINE r == [rec EXCEPT !.error = @ \/ (failed /\ rec.status # "cancelling")]
  <1>1. /\ r \in Record /\ r.status = rec.status /\ r.result = rec.result
        /\ r.error <=> rec.error \/ (failed /\ rec.status # "cancelling")
    BY DEF TypeOK, Record
  <1>2. CASE r.status = "cancelling"
    <2>1. Finalized = [r EXCEPT !.status = "cancelled"]
      BY <1>2 DEF Finalized, Open
    <2> QED
      BY <1>1, <1>2, <2>1 DEF Record, Status, Terminal, ActiveStatus, Open
  <1>3. CASE r.status \in Open /\ r.error
    <2>1. Finalized = [r EXCEPT !.status = "failed"]
      BY <1>3 DEF Finalized, Open
    <2> QED
      BY <1>1, <1>3, <2>1 DEF Record, Status, Terminal, ActiveStatus, Open
  <1>4. CASE r.status \in Open /\ ~r.error /\ r.result
    <2>1. Finalized = [r EXCEPT !.status = "completed"]
      BY <1>4 DEF Finalized, Open
    <2> QED
      BY <1>1, <1>4, <2>1 DEF Record, Status, Terminal, ActiveStatus, Open
  <1>5. CASE r.status \in Open /\ ~r.error /\ ~r.result
    BY <1>5 DEF Finalized, Open
  <1> QED
    BY <1>1, <1>2, <1>3, <1>4, <1>5 DEF ActiveStatus

\* What a call that holds the lock of the task may write.
Writes(p, r) ==
    /\ rec.status \in ActiveStatus /\ (rec.error => r.error)
    /\ r.status # "absent"
    /\ rec.status = "cancelling" <=> r.status = "cancelled"
    /\ r.status = "completed" => rec.result /\ ~rec.error /\ ~failed
    /\ r.status = "failed" => rec.error \/ failed
    /\ call[p].op \in {"finalize", "settle"} => r.status \in Terminal
    /\ call[p].op = "cancel" => r.status = "cancelling"
    /\ r.status \in Terminal => ~HasWork
    /\ call[p].op \in {"none", "cancel", "finalize"} =>
           (r.error => rec.error \/ failed) /\ (r.result => rec.result)
Moved(p, d) == call' = [call EXCEPT ![p] = d]
Written(p, r) == [call[p] EXCEPT !.at = "write", !.new = r]

\* A tracker call that got the lock goes on to write its record.
LEMMA WriteBackIs ==
    ASSUME TypeOK, NEW p \in Proc, NEW r \in Record
    PROVE  /\ WriteBack(p, r) => Moved(p, Written(p, r))
           /\ Written(p, r) \in Call
           /\ Written(p, r).op = call[p].op /\ Written(p, r).at = "write" /\ Written(p, r).new = r
  <1>1. WriteBack(p, r) => Moved(p, Written(p, r))
    BY DEF WriteBack, Set, Moved, Written
  <1>2. call[p] \in [op : Op \cup {"none"}, at : {"check", "lock", "write", "signal", "none"}, new : Record]
    BY DEF TypeOK, Call
  <1> QED
    BY <1>1, <1>2 DEF Call, Written

\* Under the lock a call ends without a write, or writes what Writes allows.
LEMMA LockResult ==
    ASSUME TypeOK, NEW p \in Proc, LockTask(p)
    PROVE  \/ \E d \in Call : /\ Moved(p, d) /\ d.at # "write" /\ d.new = NoRecord
                              /\ d.op \in {"none", "cancel", "finalize"}
                              /\ d.at = "signal" => rec.status = "cancelling"
           \/ \E r \in Record : Moved(p, Written(p, r)) /\ Written(p, r) \in Call /\ Writes(p, r)
  <1> DEFINE Goal == \/ \E d \in Call : /\ Moved(p, d) /\ d.at # "write" /\ d.new = NoRecord
                                        /\ d.op \in {"none", "cancel", "finalize"}
                                        /\ d.at = "signal" => rec.status = "cancelling"
                     \/ \E r \in Record : Moved(p, Written(p, r)) /\ Written(p, r) \in Call /\ Writes(p, r)
  <1>0. rec \in Record /\ failed \in BOOLEAN /\ rec.error \in BOOLEAN /\ rec.result \in BOOLEAN
    BY DEF TypeOK, Record
  <1>1. ASSUME \/ Set(p, NoCall) \/ Set(p, At("finalize", "check"))
               \/ Set(p, At("cancel", "signal")) /\ rec.status = "cancelling"
        PROVE  Goal
    BY <1>1, CallTypes DEF Set, Moved, NoCall, At, Op
  <1>2. ASSUME NEW r \in Record, WriteBack(p, r), Writes(p, r) PROVE Goal
    BY <1>2, WriteBackIs
  <1>3. CASE call[p].op = "start"
    <2>1. StartTask(p)
      BY <1>3 DEF LockTask
    <2> DEFINE r == [rec EXCEPT !.status = "running"]
    <2>2. CASE rec.status \in Open
      <3>1. r \in Record /\ r.status = "running" /\ r.error = rec.error
        BY <1>0 DEF Record, Status, ActiveStatus, Open
      <3>2. WriteBack(p, r)
        BY <2>1, <2>2 DEF StartTask
      <3>3. Writes(p, r)
        BY <1>0, <1>3, <2>2, <3>1 DEF Writes, ActiveStatus, Open, Terminal
      <3> QED
        BY <1>2, <3>1, <3>2, <3>3
    <2> QED
      BY <1>1, <2>1, <2>2 DEF StartTask
  <1>4. CASE call[p].op \in {"complete", "fail"}
    <2>1. RecordOutcome(p)
      BY <1>4 DEF LockTask
    <2> DEFINE r == [rec EXCEPT !.result = @ \/ call[p].op = "complete",
                                !.error = @ \/ failed \/ call[p].op = "fail"]
    <2>2. CASE rec.status \in Open
      <3>1. r \in Record /\ r.status = rec.status /\ (rec.error => r.error)
        BY <1>0 DEF Record
      <3>2. WriteBack(p, r)
        BY <2>1, <2>2 DEF RecordOutcome
      <3>3. Writes(p, r)
        BY <1>0, <1>4, <2>2, <3>1 DEF Writes, ActiveStatus, Open, Terminal
      <3> QED
        BY <1>2, <3>1, <3>2, <3>3
    <2> QED
      BY <1>1, <2>1, <2>2 DEF RecordOutcome
  <1>5. CASE call[p].op = "cancel"
    <2>1. RecordCancel(p)
      BY <1>5 DEF LockTask
    <2> DEFINE r == [rec EXCEPT !.status = "cancelling"]
    <2>2. CASE rec.status \in Open
      <3>1. r \in Record /\ r.status = "cancelling" /\ r.error = rec.error /\ r.result = rec.result
        BY <1>0 DEF Record, Status, ActiveStatus, Open
      <3>2. WriteBack(p, r)
        BY <2>1, <2>2 DEF RecordCancel, Open
      <3>3. Writes(p, r)
        BY <1>0, <1>5, <2>2, <3>1 DEF Writes, ActiveStatus, Open, Terminal
      <3> QED
        BY <1>2, <3>1, <3>2, <3>3
    <2> QED
      BY <1>1, <2>1, <2>2 DEF RecordCancel
  <1>6. CASE call[p].op \notin {"start", "complete", "fail", "cancel"}
    <2>1. Finalize(p)
      BY <1>6 DEF LockTask
    <2>2. CASE rec.status \in ActiveStatus /\ ~HasWork /\ Finalized # rec
      <3>1. WriteBack(p, Finalized)
        BY <2>1, <2>2 DEF Finalize
      <3>2. Writes(p, Finalized) /\ Finalized \in Record
        BY <1>6, <2>2, FinalizedRecord DEF Writes, Terminal
      <3> QED
        BY <1>2, <3>1, <3>2
    <2> QED
      BY <1>1, <2>1, <2>2 DEF Finalize
  <1> QED
    BY <1>3, <1>4, <1>5, <1>6
\* The initial state is well typed.
LEMMA TypeInit == Init => TypeOK
  <1> SUFFICES ASSUME Init PROVE TypeOK
    OBVIOUS
  <1>1. call \in [Proc -> Call] /\ rec \in Record
    BY CallTypes DEF Init
  <1>2. crashes \in 0..MaxCrash /\ wpc \in [Msg -> WPC]
    BY FaultAssumption DEF Init, WPC
  <1> QED
    BY <1>1, <1>2 DEF Init, TypeOK

\* Every step keeps the types.
LEMMA TypeStep == TypeOK /\ [Next]_vars => TypeOK'
  <1> SUFFICES ASSUME TypeOK, [Next]_vars PROVE TypeOK'
    OBVIOUS
  <1>0. Msg \subseteq Proc /\ Client \in Proc /\ Canceller \in Proc /\ NoProc \notin Proc
    BY ProcAssumption DEF Proc
  <1>a. ASSUME NEW m \in Msg, NEW l \in WPC, Goto(m, l) PROVE wpc' \in [Msg -> WPC]
    BY <1>a DEF Goto, TypeOK
  <1>b. ASSUME NEW p \in Proc, NEW d \in Call, Set(p, d) PROVE call' \in [Proc -> Call]
    BY <1>b DEF Set, TypeOK
  <1>c. /\ {"none", "got", "start", "register", "run", "raised", "end", "returned", "finalize", "ack",
            "acked", "stuck"} \subseteq WPC
        /\ {"start", "complete", "fail", "cancel", "finalize", "settle"} \subseteq Op
    BY DEF WPC, Handled, Op
  <1>1. CASE Create
    <2>1. rec' \in Record
      BY <1>1, CallTypes, RecordTypes DEF Create, Status, ActiveStatus, Open
    <2> QED
      BY <1>1, <2>1 DEF Create, TypeOK, queueVars, indexVars, workerVars, history
  <1>2. CASE CancelTask
    <2>1. call' \in [Proc -> Call]
      BY <1>0, <1>b, <1>c, <1>2, CallTypes DEF CancelTask
    <2> QED
      BY <1>2, <2>1 DEF CancelTask, TypeOK, queueVars, indexVars, workerVars, history
  <1>3. CASE Restart
    <2>1. row' \in [Msg -> {"new", "pending", "processing", "gone"}]
      BY <1>3 DEF Restart, RecoverStale, TypeOK
    <2>2. wpc' \in [Msg -> WPC] /\ enq' \in [Msg -> Proc \cup {NoProc}] /\ call' \in [Proc -> Call]
      BY <1>3, <1>c, CallTypes DEF Restart
    <2>3. crashes' \in 0..MaxCrash
      BY <1>3, FaultAssumption DEF Restart, TypeOK
    <2> QED
      BY <1>3, <2>1, <2>2, <2>3 DEF Restart, Rebuild, TypeOK
  <1>4. CASE EnqueueRejected
    BY <1>4 DEF EnqueueRejected, TypeOK, queueVars, indexVars, workerVars, history
  <1>5. CASE ClientFails
    <2>1. call' \in [Proc -> Call]
      BY <1>0, <1>b, <1>c, <1>5, CallTypes DEF ClientFails
    <2> QED
      BY <1>5, <2>1 DEF ClientFails, TypeOK, queueVars, indexVars, workerVars, history
  <1>6. ASSUME NEW p \in Proc, NEW m \in Msg, EnqueueStart(p, m) PROVE TypeOK'
    BY <1>6 DEF EnqueueStart, Register, TypeOK, queueVars, workerVars
  <1>7. ASSUME NEW m \in Msg, EnqueueWrite(m) \/ EnqueueReturn(m) PROVE TypeOK'
    BY <1>7 DEF EnqueueWrite, EnqueueReturn, TypeOK, queueVars, indexVars, workerVars, history
  <1>8. ASSUME NEW m \in Msg, EnqueueFails(m) PROVE TypeOK'
    <2>1. call' \in [Proc -> Call]
      BY <1>b, <1>c, <1>8, CallTypes DEF EnqueueFails, TypeOK
    <2> QED
      BY <1>8, <2>1 DEF EnqueueFails, TypeOK, queueVars, workerVars, history
  <1>9. ASSUME NEW m \in Msg, LateEnqueue(m) \/ LateAck(m) PROVE TypeOK'
    BY <1>9 DEF LateEnqueue, LateAck, TypeOK, indexVars, workerVars, history
  <1>10. ASSUME NEW m \in Msg, Dequeue(m) \/ AckWrite(m) PROVE TypeOK'
    <2>1. wpc' \in [Msg -> WPC]
      BY <1>a, <1>c, <1>10 DEF Dequeue, AckWrite
    <2> QED
      BY <1>10, <2>1 DEF Dequeue, AckWrite, TypeOK, indexVars, history
  <1>11. ASSUME NEW m \in Msg, Dispatch(m) \/ StartHandler(m) \/ FinalizeDone(m) \/ AckReturn(m) PROVE TypeOK'
    <2>1. wpc' \in [Msg -> WPC]
      BY <1>a, <1>c, <1>11 DEF Dispatch, StartHandler, FinalizeDone, AckReturn
    <2> QED
      BY <1>11, <2>1 DEF Dispatch, StartHandler, FinalizeDone, AckReturn, TypeOK, queueVars, indexVars, history
  <1>12. ASSUME NEW m \in Msg, RegisterActive(m) PROVE TypeOK'
    <2>1. wpc' \in [Msg -> WPC]
      BY <1>a, <1>c, <1>12 DEF RegisterActive
    <2> QED
      BY <1>12, <2>1 DEF RegisterActive, TypeOK, queueVars, history
  <1>13. ASSUME NEW m \in Msg, PrepareAck(m) PROVE TypeOK'
    <2>1. wpc' \in [Msg -> WPC] /\ call' \in [Proc -> Call]
      BY <1>0, <1>a, <1>b, <1>c, <1>13, CallTypes DEF PrepareAck, TypeOK
    <2> QED
      BY <1>13, <2>1 DEF PrepareAck, TypeOK, queueVars, history
  <1>14. ASSUME NEW m \in Msg, CancelHandler(m) PROVE TypeOK'
    <2>1. wpc' \in [Msg -> WPC] /\ call' \in [Proc -> Call]
      BY <1>0, <1>a, <1>b, <1>c, <1>14, CallTypes DEF CancelHandler
    <2>2. enq' \in [Msg -> Proc \cup {NoProc}] /\ Enqueuing(m) \subseteq Msg
      BY <1>14 DEF CancelHandler, Enqueuing, TypeOK
    <2> QED
      BY <1>14, <2>1, <2>2 DEF CancelHandler, TypeOK
  <1>15. ASSUME NEW m \in Msg, CancelAck(m) PROVE TypeOK'
    <2>1. wpc' \in [Msg -> WPC] /\ call' \in [Proc -> Call]
      BY <1>0, <1>a, <1>b, <1>c, <1>15, CallTypes DEF CancelAck, RollbackAck
    <2> QED
      BY <1>15, <2>1 DEF CancelAck, RollbackAck, TypeOK, history
  <1>16. ASSUME NEW m \in Msg, AckFails(m) PROVE TypeOK'
    <2>1. wpc' \in [Msg -> WPC]
      BY <1>a, <1>c, <1>16 DEF AckFails, RollbackAck
    <2> QED
      BY <1>16, <2>1 DEF AckFails, RollbackAck, TypeOK, queueVars, history
  <1>17. ASSUME NEW m \in Msg, NEW op \in {"start", "complete", "fail"}, TrackerCall(m, op) PROVE TypeOK'
    <2>1. call' \in [Proc -> Call]
      BY <1>0, <1>b, <1>c, <1>17, CallTypes DEF TrackerCall
    <2> QED
      BY <1>17, <2>1 DEF TrackerCall, TypeOK, queueVars, indexVars, workerVars, history
  <1>18. ASSUME NEW m \in Msg, HandlerReturns(m) \/ HandlerReportsError(m) \/ HandlerRaises(m) PROVE TypeOK'
    <2>1. wpc' \in [Msg -> WPC]
      BY <1>a, <1>c, <1>18 DEF HandlerReturns, HandlerReportsError, HandlerRaises
    <2>2. active' \in SUBSET Msg /\ failed' \in BOOLEAN /\ erred' \in BOOLEAN
      BY <1>18 DEF HandlerReturns, HandlerReportsError, HandlerRaises, NoteError, TypeOK, history
    <2> QED
      BY <1>18, <2>1, <2>2 DEF HandlerReturns, HandlerReportsError, HandlerRaises, TypeOK, queueVars, history
  <1>19. ASSUME NEW p \in Proc, FinalizeCheck(p) PROVE TypeOK'
    <2>1. call' \in [Proc -> Call]
      <3>1. NoCall \in Call /\ At(call[p].op, "lock") \in Call
        BY CallTypes DEF TypeOK, Call, At
      <3> QED
        BY <1>b, <1>19, <3>1 DEF FinalizeCheck
    <2> QED
      BY <1>19, <2>1 DEF FinalizeCheck, TypeOK, queueVars, indexVars, workerVars, history
  <1>20. ASSUME NEW p \in Proc, LockTask(p) PROVE TypeOK'
    <2>1. call' \in [Proc -> Call]
      BY <1>20, LockResult DEF Moved, TypeOK
    <2> QED
      BY <1>20, <2>1 DEF LockTask, TypeOK, queueVars, indexVars, workerVars, history
  <1>21. ASSUME NEW p \in Proc, Persist(p) PROVE TypeOK'
    <2>1. call' \in [Proc -> Call]
      BY <1>b, <1>c, <1>21, CallTypes DEF Persist
    <2>2. rec' \in Record /\ failed' \in BOOLEAN
      BY <1>21 DEF Persist, TypeOK, Call
    <2> QED
      BY <1>21, <2>1, <2>2 DEF Persist, TypeOK, queueVars, workerVars, history
  <1>22. ASSUME NEW p \in Proc, PersistFails(p) PROVE TypeOK'
    <2>1. call' \in [Proc -> Call]
      BY <1>b, <1>22, CallTypes DEF PersistFails
    <2>2. wpc' \in [Msg -> WPC] /\ work' \in SUBSET Msg /\ prep' \in SUBSET Msg
      BY <1>a, <1>c, <1>22 DEF PersistFails, RollbackAck, TypeOK
    <2> QED
      BY <1>22, <2>1, <2>2 DEF PersistFails, TypeOK, queueVars, history
  <1>23. ASSUME NEW p \in Proc, SignalActive(p) PROVE TypeOK'
    <2>1. call' \in [Proc -> Call]
      BY <1>b, <1>c, <1>23, CallTypes DEF SignalActive
    <2> QED
      BY <1>23, <2>1 DEF SignalActive, TypeOK, queueVars, indexVars, history
  <1>24. CASE UNCHANGED vars
    BY <1>24 DEF vars, TypeOK, queueVars, indexVars, workerVars, history
  <1> QED
    BY <1>1, <1>2, <1>3, <1>4, <1>5, <1>6, <1>7, <1>8, <1>9, <1>10, <1>11, <1>12, <1>13, <1>14, <1>15,
       <1>16, <1>17, <1>18, <1>19, <1>20, <1>21, <1>22, <1>23, <1>24
    DEF Next, WorkerStep, HandlerStep, EnqueueStep, TrackerStep

\* Every variable of the tracked task keeps its type, for any number of messages
\* and crashes.
THEOREM TaskTypes == Spec => []TypeOK
  BY TypeInit, TypeStep, PTL DEF Spec
-----------------------------------------------------------------------------
(* Messages and the index *)

Index == RowOK /\ LateOK /\ EnqIndexed /\ AckPrepared /\ IndexComplete

\* The index loses no message when one is entered, stored, taken out or put back.
LEMMA IndexStep == TypeOK /\ Index /\ [Next]_vars => Index'
  <1> SUFFICES ASSUME TypeOK, Index, [Next]_vars PROVE Index'
    OBVIOUS
  <1> USE DEF TypeOK, Index, RowOK, LateOK, EnqIndexed, AckPrepared, IndexComplete, Unacked
  <1>1. CASE UNCHANGED <<row, wpc, late, enq, orphan, work, prep>>
    BY <1>1
  <1>2. CASE Restart
    BY <1>2 DEF Restart, RecoverStale, Rebuild
  <1>3. ASSUME NEW p \in Proc, NEW m \in Msg, EnqueueStart(p, m) PROVE Index'
    BY <1>3 DEF EnqueueStart, Register, queueVars, workerVars
  <1>4. ASSUME NEW m \in Msg, EnqueueWrite(m) PROVE Index'
    BY <1>4 DEF EnqueueWrite, indexVars, workerVars, history
  <1>5. ASSUME NEW m \in Msg, EnqueueReturn(m) PROVE Index'
    BY <1>5 DEF EnqueueReturn, queueVars, indexVars, workerVars, history
  <1>6. ASSUME NEW m \in Msg, EnqueueFails(m) PROVE Index'
    BY <1>6 DEF EnqueueFails, queueVars, workerVars, history
  <1>7. ASSUME NEW m \in Msg, LateEnqueue(m) PROVE Index'
    BY <1>7 DEF LateEnqueue, indexVars, workerVars, history
  <1>8. ASSUME NEW m \in Msg, LateAck(m) PROVE Index'
    BY <1>8 DEF LateAck, indexVars, workerVars, history
  <1>9. ASSUME NEW m \in Msg, Dequeue(m) PROVE Index'
    BY <1>9 DEF Dequeue, Goto, indexVars, history
  <1>10. ASSUME NEW m \in Msg, Dispatch(m) \/ StartHandler(m) \/ FinalizeDone(m) PROVE Index'
    BY <1>10 DEF Dispatch, StartHandler, FinalizeDone, Goto, queueVars, indexVars, history
  <1>11. ASSUME NEW m \in Msg, RegisterActive(m) PROVE Index'
    BY <1>11 DEF RegisterActive, Goto, queueVars, history
  <1>12. ASSUME NEW m \in Msg, HandlerReturns(m) \/ HandlerReportsError(m) \/ HandlerRaises(m) PROVE Index'
    BY <1>12 DEF HandlerReturns, HandlerReportsError, HandlerRaises, AtRest, Goto, queueVars, history
  <1>13. ASSUME NEW m \in Msg, CancelHandler(m) PROVE Index'
    BY <1>13 DEF CancelHandler, Enqueuing, Goto
  <1>14. ASSUME NEW m \in Msg, PrepareAck(m) PROVE Index'
    BY <1>14 DEF PrepareAck, Goto, queueVars, history
  <1>15. ASSUME NEW m \in Msg, AckWrite(m) PROVE Index'
    BY <1>15 DEF AckWrite, Goto, indexVars, history
  <1>16. ASSUME NEW m \in Msg, AckReturn(m) PROVE Index'
    BY <1>16 DEF AckReturn, Goto, queueVars, indexVars, history
  <1>17. ASSUME NEW m \in Msg, AckFails(m) PROVE Index'
    BY <1>17 DEF AckFails, RollbackAck, Goto, queueVars, history
  <1>18. ASSUME NEW m \in Msg, CancelAck(m) PROVE Index'
    BY <1>18 DEF CancelAck, RollbackAck, Goto, history
  <1>19. ASSUME NEW p \in Proc, PersistFails(p) PROVE Index'
    BY <1>19, <1>1 DEF PersistFails, RollbackAck, Goto, queueVars, history
  <1> HIDE DEF TypeOK, Index, RowOK, LateOK, EnqIndexed, AckPrepared, IndexComplete, Unacked
  <1> QED
    BY <1>1, <1>2, <1>3, <1>4, <1>5, <1>6, <1>7, <1>8, <1>9, <1>10, <1>11, <1>12, <1>13, <1>14, <1>15,
       <1>16, <1>17, <1>18, <1>19
    DEF Next, WorkerStep, HandlerStep, EnqueueStep, TrackerStep, Create, CancelTask, EnqueueRejected,
        ClientFails, TrackerCall, FinalizeCheck, LockTask, Persist, SignalActive, vars, queueVars, indexVars,
        workerVars, history
-----------------------------------------------------------------------------
(* The tracker and its lock *)

\* What changes the record.
LEMMA RecordChanges ==
    ASSUME [Next]_vars
    PROVE  rec' = rec \/ Create \/ \E p \in Proc : Persist(p)
  BY DEF Next, WorkerStep, HandlerStep, EnqueueStep, TrackerStep, CancelTask, Restart, EnqueueRejected,
         ClientFails, EnqueueStart, Dequeue, Dispatch, StartHandler, RegisterActive, PrepareAck,
         FinalizeDone, AckWrite, AckReturn, CancelHandler, CancelAck, TrackerCall, HandlerReturns,
         HandlerReportsError, HandlerRaises, EnqueueWrite, EnqueueReturn, EnqueueFails, LateEnqueue,
         LateAck, AckFails, FinalizeCheck, LockTask, SignalActive, PersistFails, vars

\* What changes the traces of a failure.
LEMMA FailureChanges ==
    ASSUME [Next]_vars
    PROVE  \/ failed' = failed /\ erred' = erred /\ crashes' = crashes
           \/ Restart \/ \E p \in Proc : Persist(p)
           \/ \E m \in Msg : HandlerReportsError(m) \/ HandlerRaises(m)
  BY DEF Next, WorkerStep, HandlerStep, EnqueueStep, TrackerStep, Create, CancelTask, EnqueueRejected,
         ClientFails, EnqueueStart, Dequeue, Dispatch, StartHandler, RegisterActive, PrepareAck,
         FinalizeDone, AckWrite, AckReturn, CancelHandler, CancelAck, TrackerCall, HandlerReturns,
         EnqueueWrite, EnqueueReturn, EnqueueFails, LateEnqueue, LateAck, AckFails, FinalizeCheck,
         LockTask, SignalActive, PersistFails, vars, indexVars, history

\* What changes a call: it is left alone, moves on, or begins to write.
LEMMA CallChanges ==
    ASSUME TypeOK, [Next]_vars, NEW q \in Proc
    PROVE  \/ call'[q] = call[q] /\ ~Persist(q)
           \/ /\ call'[q].at # "write" /\ call'[q].new = NoRecord
              /\ (call'[q].at = "signal" => rec.status = "cancelling" \/ (Persist(q) /\ call[q].op = "cancel"))
           \/ /\ LockTask(q) /\ Busy = {} /\ \A p \in Proc : p # q => call'[p] = call[p]
              /\ \E r \in Record : call'[q] = Written(q, r) /\ Writes(q, r)
  <1> DEFINE Goal == \/ call'[q] = call[q] /\ ~Persist(q)
                     \/ /\ call'[q].at # "write" /\ call'[q].new = NoRecord
                        /\ (call'[q].at = "signal" => rec.status = "cancelling" \/ (Persist(q) /\ call[q].op = "cancel"))
                     \/ /\ LockTask(q) /\ Busy = {} /\ \A p \in Proc : p # q => call'[p] = call[p]
                        /\ \E r \in Record : call'[q] = Written(q, r) /\ Writes(q, r)
  <1> SUFFICES Goal
    OBVIOUS
  <1>a. ASSUME NEW p \in Proc, NEW d, Set(p, d), d.at # "write", d.new = NoRecord, q = p \/ ~Persist(q),
               d.at = "signal" => rec.status = "cancelling"
        PROVE  Goal
    BY <1>a DEF Set, TypeOK
  <1>b. ASSUME NEW op, NEW at PROVE At(op, at).at = at /\ At(op, at).new = NoRecord
    BY DEF At
  <1>c. NoCall.at = "none" /\ NoCall.new = NoRecord
    BY DEF NoCall
  <1>d. Msg \subseteq Proc /\ Client \in Proc /\ Canceller \in Proc /\ NoProc \notin Proc
    BY ProcAssumption DEF Proc
  <1>e. Persist(q) => call' = [call EXCEPT ![q] = CASE call[q].op \in {"complete", "fail"} -> At("settle", "check")
                                                    [] call[q].op = "cancel" -> At("cancel", "signal")
                                                    [] OTHER -> NoCall]
    BY DEF Persist, Set
  <1>1. CASE Persist(q)
    BY <1>1, <1>b, <1>c, <1>e DEF TypeOK
  <1>2. CASE ~Persist(q)
    <2>1. CASE UNCHANGED call
      BY <1>2, <2>1
    <2>2. CASE Restart
      BY <1>c, <2>2 DEF Restart
    <2>3. CASE CancelTask \/ ClientFails
      BY <1>2, <1>a, <1>b, <1>d, <2>3 DEF CancelTask, ClientFails
    <2>4. ASSUME NEW m \in Msg, EnqueueFails(m) PROVE Goal
      BY <1>2, <1>a, <1>b, <2>1, <2>4 DEF EnqueueFails, TypeOK
    <2>5. ASSUME NEW m \in Msg, PrepareAck(m) PROVE Goal
      BY <1>2, <1>a, <1>b, <1>d, <2>1, <2>5 DEF PrepareAck
    <2>6. ASSUME NEW m \in Msg, CancelHandler(m) \/ CancelAck(m) PROVE Goal
      BY <1>2, <1>a, <1>c, <1>d, <2>6 DEF CancelHandler, CancelAck
    <2>7. ASSUME NEW m \in Msg, NEW op \in {"start", "complete", "fail"}, TrackerCall(m, op) PROVE Goal
      BY <1>2, <1>a, <1>b, <1>d, <2>7 DEF TrackerCall
    <2>8. ASSUME NEW p \in Proc, FinalizeCheck(p) \/ PersistFails(p) \/ SignalActive(p) PROVE Goal
      BY <1>2, <1>a, <1>b, <1>c, <2>8 DEF FinalizeCheck, PersistFails, SignalActive
    <2>9. ASSUME NEW p \in Proc, LockTask(p) PROVE Goal
      <3>1. CASE p # q
        BY <1>2, <2>9, <3>1, LockResult DEF Moved, TypeOK
      <3>2. CASE p = q
        <4>1. CASE \E d \in Call : /\ Moved(p, d) /\ d.at # "write" /\ d.new = NoRecord
                                   /\ d.at = "signal" => rec.status = "cancelling"
          BY <1>2, <1>a, <3>2, <4>1 DEF Moved, Set
        <4>2. CASE \E r \in Record : Moved(p, Written(p, r)) /\ Writes(p, r)
          BY <2>9, <3>2, <4>2 DEF Moved, TypeOK, LockTask
        <4> QED
          BY <2>9, <4>1, <4>2, LockResult
      <3> QED
        BY <3>1, <3>2
    <2>10. ASSUME NEW p \in Proc, Persist(p) PROVE Goal
      BY <1>2, <2>10 DEF Persist, Set, TypeOK
    <2> QED
      BY <2>1, <2>2, <2>3, <2>4, <2>5, <2>6, <2>7, <2>8, <2>9, <2>10
      DEF Next, WorkerStep, HandlerStep, EnqueueStep, TrackerStep, Create, EnqueueRejected, EnqueueStart,
          Dequeue, Dispatch, StartHandler, RegisterActive, FinalizeDone, AckWrite, AckReturn,
          HandlerReturns, HandlerReportsError, HandlerRaises, EnqueueWrite, EnqueueReturn, LateEnqueue,
          LateAck, AckFails, vars
  <1> QED
    BY <1>1, <1>2

\* Every step leaves at most one writer of the record.
LEMMA OneWriterStep == IInv /\ [Next]_vars => OneWriter'
  <1> SUFFICES ASSUME IInv, [Next]_vars, NEW p \in Proc, NEW q \in Proc,
                      call'[p].at = "write", call'[q].at = "write"
               PROVE  p = q
    BY DEF OneWriter
  <1>0. TypeOK /\ OneWriter
    BY DEF IInv
  <1>1. \A i, j \in Proc : call[i].at = "write" /\ Busy = {} => FALSE
    BY DEF Busy
  <1> QED
    BY <1>0, <1>1, CallChanges DEF OneWriter

\* A writer keeps the record, and the traces of a failure, from changing.
LEMMA WriterHolds ==
    ASSUME IInv, [Next]_vars, NEW q \in Proc, call[q].at = "write", call'[q].at = "write"
    PROVE  /\ call'[q] = call[q] /\ rec' = rec /\ crashes' = crashes /\ (failed => failed')
           /\ erred' = erred \/ (\E m \in Msg : HandlerReportsError(m) \/ HandlerRaises(m))
  <1>0. TypeOK /\ OneWriter /\ EarlyOK
    BY DEF IInv
  <1>1. call'[q] = call[q] /\ ~Persist(q)
    BY <1>0, CallChanges DEF Busy
  <1>2. \A p \in Proc : ~Persist(p)
    BY <1>0, <1>1 DEF Persist, OneWriter
  <1>3. ~Create
    BY <1>0 DEF Create, EarlyOK, NoCall
  <1>4. ~Restart
    BY <1>0 DEF Restart, NoCall
  <1>5. (\E m \in Msg : HandlerReportsError(m) \/ HandlerRaises(m)) => failed' /\ crashes' = crashes
    BY DEF HandlerReportsError, HandlerRaises
  <1> QED
    BY <1>1, <1>2, <1>3, <1>4, <1>5, RecordChanges, FailureChanges
\* While a terminal status is written, only a task that is being cancelled has
\* handlers running, and theirs are the messages of discarded enqueues.
LEMMA NobodyRuns ==
    ASSUME IInv, NEW q \in Proc, call[q].at = "write", call[q].new.status \in Terminal
    PROVE  /\ \A m \in Msg : wpc[m] = "run" => m \in orphan /\ rec.status = "cancelling"
           /\ ~(\E p \in Proc : \E m \in Msg : EnqueueStart(p, m))
  <1>0. TypeOK /\ RowOK /\ CancelOnly /\ WriteOK /\ Quiet /\ Fresh
    BY DEF IInv, QuietWrite
  <1>1. rec.status \in ActiveStatus
    BY <1>0 DEF WriteOK
  <1>2. \A m \in Msg : wpc[m] = "run" => m \in orphan /\ rec.status = "cancelling"
    BY <1>0, <1>1 DEF RowOK, Quiet, Unacked, Handled, CancelOnly, CancellationRequested, ActiveStatus, Open
  <1>3. ASSUME NEW p \in Proc, NEW m \in Msg, EnqueueStart(p, m) PROVE FALSE
    <2>1. ~CancellationRequested /\ MayEnqueue(p)
      BY <1>3 DEF EnqueueStart, Register
    <2>2. p = Client /\ cpc = "created" /\ Enqueuing(Client) = {}
      BY <1>2, <2>1 DEF MayEnqueue, CancellationRequested
    <2>3. ~failed /\ ~rec.result /\ ~rec.error
      BY <1>0, <2>2 DEF Fresh
    <2>4. call[q].new.status = "cancelled"
      BY <1>0, <2>3 DEF WriteOK, Terminal
    <2> QED
      BY <1>0, <2>1, <2>4 DEF WriteOK, CancellationRequested
  <1> QED
    BY <1>2, <1>3

\* Every step keeps what is about to be written in line with the record.
LEMMA WriteStep == IInv /\ [Next]_vars => WriteOK'
  <1> SUFFICES ASSUME IInv, [Next]_vars, NEW q \in Proc, call'[q].at = "write"
               PROVE  /\ rec'.status \in ActiveStatus /\ (rec'.error => call'[q].new.error)
                      /\ call'[q].new.status # "absent"
                      /\ (rec'.status = "cancelling" => call'[q].new.status = "cancelled")
                      /\ (call'[q].new.status = "cancelled" => rec'.status = "cancelling")
                      /\ (call'[q].new.status = "completed" => rec'.result /\ ~(crashes' = 0 /\ erred'))
                      /\ (call'[q].new.status = "failed" => rec'.error \/ failed')
                      /\ (call'[q].op \in {"finalize", "settle"} => call'[q].new.status \in Terminal)
                      /\ (call'[q].op = "cancel" => call'[q].new.status = "cancelling")
    BY DEF WriteOK
  <1>0. TypeOK /\ WriteOK /\ FailureNoted
    BY DEF IInv
  <1>1. CASE call[q].at = "write"
    <2>1. call'[q] = call[q] /\ rec' = rec /\ crashes' = crashes /\ (failed => failed')
      BY <1>1, WriterHolds
    <2>2. call[q].new.status = "completed" => erred' = erred
      <3> SUFFICES ASSUME call[q].new.status = "completed", erred' # erred PROVE FALSE
        OBVIOUS
      <3>1. PICK m \in Msg : HandlerReportsError(m) \/ HandlerRaises(m)
        BY <1>1, WriterHolds
      <3>2. wpc[m] = "run"
        BY <3>1 DEF HandlerReportsError, HandlerRaises, AtRest
      <3>3. rec.status = "cancelling"
        BY <1>1, <3>2, NobodyRuns DEF Terminal
      <3> QED
        BY <1>0, <1>1, <3>3 DEF WriteOK
    <2> QED
      BY <1>0, <1>1, <2>1, <2>2 DEF WriteOK
  <1>2. CASE call[q].at # "write"
    <2>1. LockTask(q) /\ \E r \in Record : call'[q] = Written(q, r) /\ Writes(q, r)
      BY <1>0, <1>2, CallChanges
    <2>2. PICK r \in Record : call'[q] = Written(q, r) /\ Writes(q, r)
      BY <2>1
    <2>3. rec' = rec /\ failed' = failed /\ crashes' = crashes /\ erred' = erred
      BY <2>1 DEF LockTask, indexVars, history
    <2>4. call'[q].new = r /\ call'[q].op = call[q].op
      BY <1>0, <2>2, WriteBackIs
    <2>5. r.status = "completed" => ~(crashes = 0 /\ erred)
      BY <1>0, <2>2 DEF Writes, FailureNoted, CancellationRequested, ActiveStatus, Open
    <2> QED
      BY <2>2, <2>3, <2>4, <2>5 DEF Writes
  <1> QED
    BY <1>1, <1>2

\* Nothing becomes pending while a terminal status is written.
LEMMA QuietKept ==
    ASSUME IInv, [Next]_vars, NEW q \in Proc, call[q].at = "write", call[q].new.status \in Terminal,
           call'[q].at = "write"
    PROVE  Quiet'
  <1>0. TypeOK /\ RowOK /\ LateOK /\ Quiet
    BY DEF IInv, QuietWrite
  <1> USE <1>0 DEF TypeOK, RowOK, Quiet, Unacked, Handled
  <1>1. CASE UNCHANGED <<row, wpc, enq, orphan>>
    BY <1>1
  <1>2. ~Restart
    BY DEF Restart, NoCall
  <1>3. ~(\E p \in Proc : \E m \in Msg : EnqueueStart(p, m))
    BY NobodyRuns
  <1>4. ASSUME NEW m \in Msg, EnqueueWrite(m) PROVE Quiet'
    BY <1>4 DEF EnqueueWrite, workerVars, history
  <1>5. ASSUME NEW m \in Msg, EnqueueReturn(m) PROVE Quiet'
    BY <1>5 DEF EnqueueReturn, queueVars, workerVars, history
  <1>6. ASSUME NEW m \in Msg, EnqueueFails(m) PROVE Quiet'
    BY <1>6 DEF EnqueueFails, queueVars, workerVars, history
  <1>7. ASSUME NEW m \in Msg, LateEnqueue(m) PROVE Quiet'
    <2>1. m \in orphan
      BY <1>7 DEF LateEnqueue, LateOK
    <2> QED
      BY <1>7, <2>1 DEF LateEnqueue, workerVars, history
  <1>8. ASSUME NEW m \in Msg, LateAck(m) PROVE Quiet'
    BY <1>8 DEF LateAck, workerVars, history
  <1>9. ASSUME NEW m \in Msg, Dequeue(m) PROVE Quiet'
    BY <1>9 DEF Dequeue, Goto, history
  <1>10. ASSUME NEW m \in Msg, Dispatch(m) \/ StartHandler(m) \/ FinalizeDone(m) PROVE Quiet'
    BY <1>10 DEF Dispatch, StartHandler, FinalizeDone, Goto, queueVars, history
  <1>11. ASSUME NEW m \in Msg, RegisterActive(m) PROVE Quiet'
    BY <1>11 DEF RegisterActive, Goto, queueVars, history
  <1>12. ASSUME NEW m \in Msg, HandlerReturns(m) \/ HandlerReportsError(m) \/ HandlerRaises(m) PROVE Quiet'
    BY <1>12 DEF HandlerReturns, HandlerReportsError, HandlerRaises, AtRest, Goto, queueVars, history
  <1>13. ASSUME NEW m \in Msg, CancelHandler(m) PROVE Quiet'
    BY <1>13 DEF CancelHandler, Enqueuing, Goto
  <1>14. ASSUME NEW m \in Msg, PrepareAck(m) PROVE Quiet'
    BY <1>14 DEF PrepareAck, Goto, queueVars, history
  <1>15. ASSUME NEW m \in Msg, AckWrite(m) PROVE Quiet'
    BY <1>15 DEF AckWrite, Goto, history
  <1>16. ASSUME NEW m \in Msg, AckReturn(m) PROVE Quiet'
    BY <1>16 DEF AckReturn, Goto, queueVars, history
  <1>17. ASSUME NEW m \in Msg, AckFails(m) \/ CancelAck(m) PROVE Quiet'
    BY <1>17 DEF AckFails, CancelAck, RollbackAck, Goto, queueVars, history
  <1>18. ASSUME NEW p \in Proc, PersistFails(p) PROVE Quiet'
    BY <1>18, <1>1 DEF PersistFails, RollbackAck, Goto, queueVars, history
  <1> HIDE <1>0 DEF TypeOK, RowOK, Quiet, Unacked, Handled
  <1> QED
    BY <1>1, <1>2, <1>3, <1>4, <1>5, <1>6, <1>7, <1>8, <1>9, <1>10, <1>11, <1>12, <1>13, <1>14, <1>15,
       <1>16, <1>17, <1>18
    DEF Next, WorkerStep, HandlerStep, EnqueueStep, TrackerStep, Create, CancelTask, EnqueueRejected,
        ClientFails, TrackerCall, FinalizeCheck, LockTask, Persist, SignalActive, vars, queueVars, indexVars,
        workerVars, history

\* Every step keeps the task quiet while its terminal status is being written.
LEMMA QuietStep == IInv /\ [Next]_vars => QuietWrite'
  <1> SUFFICES ASSUME IInv, [Next]_vars, NEW q \in Proc, call'[q].at = "write", call'[q].new.status \in Terminal
               PROVE  Quiet'
    BY DEF QuietWrite
  <1>0. TypeOK /\ EnqIndexed /\ IndexComplete
    BY DEF IInv
  <1>1. CASE call[q].at = "write"
    BY <1>1, WriterHolds, QuietKept
  <1>2. CASE call[q].at # "write"
    <2>1. LockTask(q)
      BY <1>0, <1>2, CallChanges
    <2>2. PICK r \in Record : call'[q] = Written(q, r) /\ Writes(q, r)
      BY <1>0, <1>2, CallChanges
    <2>3. call'[q].new = r
      BY <1>0, <2>2, WriteBackIs
    <2>4. work = {}
      BY <2>2, <2>3 DEF Writes, HasWork
    <2>5. Quiet
      BY <1>0, <2>4 DEF Quiet, EnqIndexed, IndexComplete, Handled
    <2> QED
      BY <2>1, <2>5 DEF LockTask, Quiet, Unacked, queueVars, workerVars, history
  <1> QED
    BY <1>1, <1>2
\* A task that is being cancelled stays so.
LEMMA CancellationStays ==
    ASSUME IInv, [Next]_vars, CancellationRequested
    PROVE  CancellationRequested'
  <1>0. WriteOK /\ EarlyOK
    BY DEF IInv
  <1>1. ~Create
    BY <1>0 DEF Create, EarlyOK, NoRecord, CancellationRequested
  <1>2. ASSUME NEW p \in Proc, Persist(p) PROVE CancellationRequested'
    BY <1>0, <1>2 DEF Persist, WriteOK, CancellationRequested, ActiveStatus, Open
  <1> QED
    BY <1>1, <1>2, RecordChanges DEF CancellationRequested

\* Every step stops handlers only in a task that is being cancelled.
LEMMA CancelStep == IInv /\ [Next]_vars => CancelOnly'
  <1> SUFFICES ASSUME IInv, [Next]_vars PROVE CancelOnly'
    OBVIOUS
  <1>0. CancelOnly /\ SignalOK
    BY DEF IInv
  <1>1. CASE CancellationRequested
    BY <1>1, CancellationStays DEF CancelOnly
  <1>2. CASE ~CancellationRequested
    <2>1. orphan = {} /\ hit = {}
      BY <1>0, <1>2 DEF CancelOnly
    <2>2. \A p \in Proc : ~SignalActive(p)
      BY <1>0, <1>2 DEF SignalOK, SignalActive
    <2>3. orphan' = {} /\ hit' = {}
      BY <1>2, <2>1, <2>2
      DEF Next, WorkerStep, HandlerStep, EnqueueStep, TrackerStep, Create, CancelTask, Restart,
          EnqueueRejected, ClientFails, EnqueueStart, Dequeue, Dispatch, StartHandler, RegisterActive,
          PrepareAck, FinalizeDone, AckWrite, AckReturn, CancelHandler, CancelAck, TrackerCall,
          HandlerReturns, HandlerReportsError, HandlerRaises, EnqueueWrite, EnqueueReturn, EnqueueFails,
          LateEnqueue, LateAck, AckFails, FinalizeCheck, LockTask, Persist, PersistFails, vars, queueVars,
          indexVars, workerVars, history
    <2> QED
      BY <2>3 DEF CancelOnly
  <1> QED
    BY <1>1, <1>2
\* Every step signals workers only in a task that is being cancelled.
LEMMA SignalStep == IInv /\ [Next]_vars => SignalOK'
  <1> SUFFICES ASSUME IInv, [Next]_vars, NEW q \in Proc, call'[q].at = "signal" PROVE CancellationRequested'
    BY DEF SignalOK
  <1>0. TypeOK /\ WriteOK /\ SignalOK
    BY DEF IInv
  <1>1. CASE Persist(q) /\ call[q].op = "cancel"
    BY <1>0, <1>1 DEF Persist, WriteOK, CancellationRequested
  <1>2. CASE rec.status = "cancelling" \/ call[q].at = "signal"
    BY <1>0, <1>2, CancellationStays DEF SignalOK, CancellationRequested
  <1>3. \A r \in Record : call'[q] # Written(q, r)
    BY <1>0, WriteBackIs
  <1> QED
    BY <1>0, <1>1, <1>2, <1>3, CallChanges
\* Before the first message only the caller that cancels is in a call.
LEMMA FreshStep == IInv /\ [Next]_vars => Fresh'
  <1> SUFFICES ASSUME IInv, [Next]_vars, cpc' \in {"idle", "created"}, Enqueuing(Client)' = {}
               PROVE  /\ \A m \in Msg : row'[m] = "new" /\ enq'[m] = NoProc /\ wpc'[m] = "none"
                      /\ late' = {} /\ ~failed' /\ ~rec'.result /\ ~rec'.error /\ ~erred'
                      /\ \A p \in Proc : /\ call'[p].op \in {"none", "cancel", "finalize"}
                                         /\ ~call'[p].new.result /\ ~call'[p].new.error
    BY DEF Fresh
  <1>0. /\ TypeOK /\ Fresh /\ NoProc \notin Proc /\ Client \notin Msg /\ Msg \subseteq Proc
        /\ Canceller \in Proc /\ Client \in Proc /\ Client # NoProc
    BY ProcAssumption DEF IInv, Proc
  <1>1. cpc \in {"idle", "created"}
    BY DEF Next, WorkerStep, HandlerStep, EnqueueStep, TrackerStep, Create, CancelTask, Restart,
           EnqueueRejected, ClientFails, EnqueueStart, Dequeue, Dispatch, StartHandler, RegisterActive,
           PrepareAck, FinalizeDone, AckWrite, AckReturn, CancelHandler, CancelAck, TrackerCall,
           HandlerReturns, HandlerReportsError, HandlerRaises, EnqueueWrite, EnqueueReturn, EnqueueFails,
           LateEnqueue, LateAck, AckFails, FinalizeCheck, LockTask, Persist, PersistFails, SignalActive, vars
  <1>2. Enqueuing(Client) = {}
    <2>1. CASE enq' = enq
      BY <2>1 DEF Enqueuing
    <2>2. ASSUME NEW p \in Proc, NEW m \in Msg, EnqueueStart(p, m) PROVE Enqueuing(Client) = {}
      BY <1>0, <2>2 DEF EnqueueStart, Enqueuing, TypeOK
    <2>3. ASSUME NEW m \in Msg, EnqueueReturn(m) \/ EnqueueFails(m) PROVE Enqueuing(Client) = {}
      BY <1>0, <2>3 DEF EnqueueReturn, EnqueueFails, Enqueuing, TypeOK
    <2>4. ASSUME NEW m \in Msg, CancelHandler(m) PROVE Enqueuing(Client) = {}
      BY <1>0, <2>4 DEF CancelHandler, Enqueuing, TypeOK
    <2>5. ~Restart
      BY DEF Restart
    <2> QED
      BY <2>1, <2>2, <2>3, <2>4, <2>5
      DEF Next, WorkerStep, HandlerStep, EnqueueStep, TrackerStep, Create, CancelTask, EnqueueRejected,
          ClientFails, Dequeue, Dispatch, StartHandler, RegisterActive, PrepareAck, FinalizeDone, AckWrite,
          AckReturn, CancelAck, TrackerCall, HandlerReturns, HandlerReportsError, HandlerRaises,
          EnqueueWrite, LateEnqueue, LateAck, AckFails, FinalizeCheck, LockTask, Persist, PersistFails,
          SignalActive, vars
  <1>3. /\ \A m \in Msg : row[m] = "new" /\ enq[m] = NoProc /\ wpc[m] = "none"
        /\ late = {} /\ ~failed /\ ~rec.result /\ ~rec.error /\ ~erred
        /\ \A p \in Proc : /\ call[p].op \in {"none", "cancel", "finalize"}
                           /\ ~call[p].new.result /\ ~call[p].new.error
    BY <1>0, <1>1, <1>2 DEF Fresh
  <1>4. \A m \in Msg : /\ ~WorkerStep(m) /\ ~HandlerStep(m) /\ ~EnqueueStep(m) /\ ~EnqueueFails(m)
                       /\ ~LateEnqueue(m) /\ ~LateAck(m) /\ ~AckFails(m)
    BY <1>3
    DEF WorkerStep, HandlerStep, EnqueueStep, Dequeue, Dispatch, StartHandler, RegisterActive, PrepareAck,
        FinalizeDone, AckWrite, AckReturn, CancelHandler, CancelAck, TrackerCall, HandlerReturns,
        HandlerReportsError, HandlerRaises, AtRest, EnqueueWrite, EnqueueReturn, EnqueueFails, LateEnqueue,
        LateAck, AckFails
  <1>5. ASSUME NEW p \in Proc, NEW m \in Msg, EnqueueStart(p, m) PROVE FALSE
    <2>1. p = Client
      BY <1>3, <1>5 DEF EnqueueStart, MayEnqueue
    <2>2. enq'[m] = Client
      BY <1>0, <1>5, <2>1 DEF EnqueueStart, TypeOK
    <2> QED
      BY <2>2 DEF Enqueuing
  <1>6. ~Restart /\ ~EnqueueRejected /\ ~ClientFails
    BY DEF Restart, EnqueueRejected, ClientFails
  <1>7. UNCHANGED <<row, wpc, late, enq, erred>>
    <2>1. \A p \in Proc : PersistFails(p) => UNCHANGED <<row, wpc, late, enq, erred>>
      BY <1>3 DEF PersistFails, queueVars, history
    <2> QED
      BY <1>4, <1>5, <1>6, <2>1
      DEF Next, TrackerStep, Create, CancelTask, FinalizeCheck, LockTask, Persist, SignalActive,
          vars, queueVars, workerVars, history
  <1>8. /\ \A m \in Msg : row'[m] = "new" /\ enq'[m] = NoProc /\ wpc'[m] = "none"
        /\ late' = {} /\ ~erred'
    BY <1>3, <1>7
  <1>9. ~failed'
    BY <1>3, <1>4, <1>5, <1>6
    DEF Next, TrackerStep, Create, CancelTask, FinalizeCheck, LockTask, Persist, PersistFails, SignalActive,
        vars, indexVars
  <1>10. ~rec'.result /\ ~rec'.error
    BY <1>3, RecordChanges DEF Create, Persist, NoRecord
  <1>11. ASSUME NEW p \in Proc
         PROVE  /\ call'[p].op \in {"none", "cancel", "finalize"}
                /\ ~call'[p].new.result /\ ~call'[p].new.error
    <2> DEFINE Free(d) == d.op \in {"none", "cancel", "finalize"} /\ ~d.new.result /\ ~d.new.error
    <2>1. /\ Free(NoCall) /\ Free(At("cancel", "lock")) /\ Free(At("finalize", "check"))
          /\ Free(At("cancel", "signal")) /\ \A i \in Proc : Free(At(call[i].op, "lock")) /\ Free(call[i])
      BY <1>3 DEF NoCall, At, NoRecord
    <2>2. CASE call' = call
      BY <2>1, <2>2
    <2>3. ASSUME NEW i \in Proc, NEW d, Set(i, d), Free(d) PROVE Free(call'[p])
      BY <2>1, <2>3 DEF Set, TypeOK, IInv
    <2>4. CASE CancelTask
      BY <1>0, <2>1, <2>3, <2>4 DEF CancelTask
    <2>5. ASSUME NEW i \in Proc, FinalizeCheck(i) \/ SignalActive(i) \/ PersistFails(i) PROVE Free(call'[p])
      BY <2>1, <2>3, <2>5 DEF FinalizeCheck, SignalActive, PersistFails
    <2>6. ASSUME NEW i \in Proc, Persist(i) PROVE Free(call'[p])
      <3>1. Set(i, IF call[i].op = "cancel" THEN At("cancel", "signal") ELSE NoCall)
        BY <1>3, <2>6 DEF Persist
      <3> QED
        BY <2>1, <2>3, <3>1
    <2>7. ASSUME NEW i \in Proc, LockTask(i) PROVE Free(call'[p])
      <3>1. ASSUME NEW d \in Call, Moved(i, d), d.new = NoRecord, d.op \in {"none", "cancel", "finalize"}
            PROVE  Free(call'[p])
        <4>1. Free(d)
          BY <3>1 DEF NoRecord
        <4> QED
          BY <2>3, <3>1, <4>1 DEF Moved, Set
      <3>2. ASSUME NEW r \in Record, Moved(i, Written(i, r)), Writes(i, r) PROVE Free(call'[p])
        <4>1. Written(i, r).op = call[i].op /\ Written(i, r).new = r
          BY <1>0, WriteBackIs
        <4>2. ~r.error /\ ~r.result
          BY <1>3, <3>2 DEF Writes
        <4> QED
          BY <1>3, <2>3, <3>2, <4>1, <4>2 DEF Moved, Set
      <3> QED
        BY <1>0, <2>7, <3>1, <3>2, LockResult
    <2> QED
      BY <1>4, <1>5, <1>6, <2>2, <2>4, <2>5, <2>6, <2>7
      DEF Next, TrackerStep, Create, vars
  <1> QED
    BY <1>8, <1>9, <1>10, <1>11

\* Every step leaves the task untouched before its creation.
LEMMA EarlyStep == IInv /\ [Next]_vars => EarlyOK'
  <1> SUFFICES ASSUME IInv, [Next]_vars, cpc' = "idle" PROVE UNCHANGED vars
    BY DEF IInv, EarlyOK, Enqueuing, vars
  <1>0. TypeOK /\ Fresh /\ EarlyOK
    BY DEF IInv
  <1>1. cpc = "idle"
    BY DEF Next, WorkerStep, HandlerStep, EnqueueStep, TrackerStep, Create, CancelTask, Restart,
           EnqueueRejected, ClientFails, EnqueueStart, Dequeue, Dispatch, StartHandler, RegisterActive,
           PrepareAck, FinalizeDone, AckWrite, AckReturn, CancelHandler, CancelAck, TrackerCall,
           HandlerReturns, HandlerReportsError, HandlerRaises, EnqueueWrite, EnqueueReturn, EnqueueFails,
           LateEnqueue, LateAck, AckFails, FinalizeCheck, LockTask, Persist, PersistFails, SignalActive, vars
  <1>2. /\ \A m \in Msg : row[m] = "new" /\ enq[m] = NoProc /\ wpc[m] = "none"
        /\ late = {} /\ \A p \in Proc : call[p] = NoCall
    BY <1>0, <1>1 DEF Fresh, EarlyOK
  <1>3. \A m \in Msg : /\ ~WorkerStep(m) /\ ~HandlerStep(m) /\ ~EnqueueStep(m) /\ ~EnqueueFails(m)
                       /\ ~LateEnqueue(m) /\ ~LateAck(m) /\ ~AckFails(m)
    BY <1>2
    DEF WorkerStep, HandlerStep, EnqueueStep, Dequeue, Dispatch, StartHandler, RegisterActive, PrepareAck,
        FinalizeDone, AckWrite, AckReturn, CancelHandler, CancelAck, TrackerCall, HandlerReturns,
        HandlerReportsError, HandlerRaises, AtRest, EnqueueWrite, EnqueueReturn, EnqueueFails, LateEnqueue,
        LateAck, AckFails
  <1>4. \A p \in Proc : ~TrackerStep(p) /\ ~PersistFails(p)
    <2>1. \A p \in Proc : call[p].at = "none"
      BY <1>2 DEF NoCall
    <2> QED
      BY <2>1 DEF TrackerStep, FinalizeCheck, LockTask, Persist, SignalActive, PersistFails
  <1>5. \A p \in Proc, m \in Msg : ~EnqueueStart(p, m)
    BY <1>1, <1>2 DEF EnqueueStart, MayEnqueue
  <1> QED
    BY <1>1, <1>3, <1>4, <1>5
    DEF Next, Create, CancelTask, Restart, EnqueueRejected, MayEnqueue, ClientFails

\* Every step keeps the trace of a failed work item.
LEMMA FailureStep == IInv /\ [Next]_vars => FailureNoted'
  <1> SUFFICES ASSUME IInv, [Next]_vars, crashes' = 0, erred'
               PROVE  /\ rec'.status # "completed"
                      /\ CancellationRequested' \/ rec'.status = "failed" \/ rec'.error \/ failed'
    BY DEF FailureNoted
  <1>0. TypeOK /\ FailureNoted /\ WriteOK /\ Fresh /\ EarlyOK
    BY DEF IInv
  <1>1. CASE rec' = rec /\ failed' = failed /\ erred' = erred /\ crashes' = crashes
    BY <1>0, <1>1 DEF FailureNoted, CancellationRequested
  <1>2. ASSUME NEW m \in Msg, HandlerReportsError(m) \/ HandlerRaises(m)
        PROVE  rec'.status # "completed" /\ failed'
    BY <1>0, <1>2
    DEF HandlerReportsError, HandlerRaises, NoteError, FailureNoted, ActiveStatus, Open
  <1>3. ASSUME NEW p \in Proc, Persist(p)
        PROVE  /\ rec'.status # "completed"
               /\ CancellationRequested' \/ rec'.status = "failed" \/ rec'.error \/ failed'
    <2>1. rec' = call[p].new /\ erred /\ crashes = 0 /\ call[p].at = "write"
      BY <1>3 DEF Persist, history
    <2>2. rec'.status # "completed"
      BY <1>0, <2>1 DEF WriteOK
    <2>3. CASE CancellationRequested
      BY <2>2, <2>3, CancellationStays
    <2>4. CASE rec.error
      BY <1>0, <2>1, <2>4 DEF WriteOK
    <2>5. CASE failed
      BY <1>0, <1>3, <2>1, <2>2, <2>5 DEF Persist, WriteOK, Terminal, CancellationRequested
    <2>6. rec.status # "failed"
      BY <1>0, <2>1 DEF WriteOK, ActiveStatus, Open
    <2> QED
      BY <1>0, <2>1, <2>2, <2>3, <2>4, <2>5, <2>6 DEF FailureNoted
  <1>4. ~Restart
    <2>1. crashes \in Nat
      BY <1>0, FaultAssumption DEF TypeOK
    <2>2. Restart => crashes' = crashes + 1
      BY DEF Restart
    <2> QED
      BY <2>1, <2>2
  <1>5. ~Create
    BY <1>0 DEF Create, Fresh, EarlyOK, history
  <1> QED
    BY <1>1, <1>2, <1>3, <1>4, <1>5, RecordChanges, FailureChanges
-----------------------------------------------------------------------------
(* The theorems *)

\* The invariant holds at first.
LEMMA InvariantInit == Init => IInv
  <1> SUFFICES ASSUME Init PROVE IInv
    OBVIOUS
  <1>1. TypeOK
    BY TypeInit
  <1>2. /\ \A m \in Msg : row[m] = "new" /\ wpc[m] = "none" /\ enq[m] = NoProc
        /\ work = {} /\ late = {} /\ orphan = {} /\ hit = {} /\ ~failed /\ ~erred /\ rec = NoRecord
        /\ \A p \in Proc : call[p] = NoCall
    BY DEF Init
  <1>3. RowOK /\ LateOK /\ EnqIndexed /\ AckPrepared /\ IndexComplete /\ CancelOnly
    BY <1>2 DEF RowOK, LateOK, EnqIndexed, AckPrepared, IndexComplete, CancelOnly, Unacked
  <1>4. OneWriter /\ WriteOK /\ SignalOK /\ QuietWrite
    BY <1>2 DEF OneWriter, WriteOK, SignalOK, QuietWrite, NoCall
  <1>5. Fresh
    BY <1>2 DEF Fresh, NoCall, NoRecord
  <1>6. Enqueuing(Client) = {}
    BY <1>2, ProcAssumption DEF Enqueuing, Proc
  <1> QED
    BY <1>1, <1>2, <1>3, <1>4, <1>5, <1>6 DEF IInv, EarlyOK, FailureNoted

\* Every step keeps the invariant.
LEMMA InvariantStep == IInv /\ [Next]_vars => IInv'
  <1> SUFFICES ASSUME IInv, [Next]_vars PROVE IInv'
    OBVIOUS
  <1>1. TypeOK' /\ Index'
    BY TypeStep, IndexStep DEF IInv, Index
  <1> QED
    BY <1>1, OneWriterStep, WriteStep, SignalStep, QuietStep, CancelStep, FreshStep, EarlyStep, FailureStep
    DEF IInv, Index

\* The invariant holds throughout.
LEMMA Invariant == Spec => []IInv
  BY InvariantInit, InvariantStep, PTL DEF Spec

\* register, prepare_ack, rollback_ack, discard and rebuild together never lose a
\* stored, unacknowledged message from the index.
THEOREM IndexKept == Spec => []IndexComplete
  BY Invariant, PTL DEF IInv

\* _finalize_task_on_owner makes a task terminal only when nothing of it is left to
\* handle, although the work it looked for may be added while it waits and writes.
THEOREM SettledFirst == Spec => SettledBeforeTerminal
  <1>1. IInv /\ [Next]_vars => (BecomesTerminal => \A m \in Msg \ orphan : Unacked(m) => wpc[m] \in Handled)
    <2> SUFFICES ASSUME IInv, [Next]_vars, BecomesTerminal
                 PROVE  \A m \in Msg \ orphan : Unacked(m) => wpc[m] \in Handled
      OBVIOUS
    <2>1. ~Create
      BY DEF Create, NoRecord, BecomesTerminal, Terminal
    <2>2. PICK p \in Proc : Persist(p)
      BY <2>1, RecordChanges DEF BecomesTerminal
    <2> QED
      BY <2>2 DEF Persist, BecomesTerminal, IInv, QuietWrite, Quiet
  <1>2. IInv /\ [Next]_vars =>
            [BecomesTerminal => \A m \in Msg \ orphan : Unacked(m) => wpc[m] \in Handled]_vars
    BY <1>1
  <1> QED
    BY <1>2, Invariant, PTL DEF Spec, SettledBeforeTerminal

\* A terminal record is never written again: every write starts from an active status
\* under the lock of the task, and nothing else writes while it is held.
THEOREM TerminalFinal == Spec => TerminalStays
  <1>1. IInv /\ [Next]_vars => [rec.status \in Terminal => rec' = rec]_vars
    <2> SUFFICES ASSUME IInv, [Next]_vars, rec.status \in Terminal PROVE rec' = rec
      OBVIOUS
    <2>1. ~Create
      BY DEF Create, IInv, EarlyOK, NoRecord, Terminal
    <2>2. \A p \in Proc : ~Persist(p)
      BY DEF Persist, IInv, WriteOK, Terminal, ActiveStatus, Open
    <2> QED
      BY <2>1, <2>2, RecordChanges
  <1> QED
    BY <1>1, Invariant, PTL DEF Spec, TerminalStays

\* A failed work item keeps the task from completing, whichever item ends last and
\* however the reports interleave with the finalization.
THEOREM FailureSticks == Spec => []FailureKept
  <1>1. IInv => FailureKept
    BY DEF IInv, FailureNoted, FailureKept
  <1> QED
    BY <1>1, Invariant, PTL
=============================================================================
