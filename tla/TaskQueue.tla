----------------------------- MODULE TaskQueue -----------------------------
(***************************************************************************)
(* One tracked background task and the durable queue messages it owns:      *)
(* NamedQueue and the concurrent worker of QueueManager, the TaskWorkIndex  *)
(* that counts a task's unsettled work, and the TaskTracker that turns a    *)
(* recorded outcome or a cancellation into a terminal status once no work   *)
(* is left.                                                                 *)
(*                                                                          *)
(* Workers run on the event loops of their queues, the tracker on its owner *)
(* loop; a step ends where the code awaits or another thread can get in.    *)
(* The messages may sit in different queues, so any pending one is next.    *)
(***************************************************************************)
EXTENDS Naturals, FiniteSets

CONSTANTS
    Msg,        \* bound: the messages this task may ever own
    Client,     \* the caller that creates the task and enqueues its first message
    Canceller,  \* the caller that cancels it
    NoProc,     \* nobody
    Faults,     \* which of "cancel", "raise", "io" may happen
    MaxCrash    \* bound: number of crashes

Proc == Msg \cup {Client, Canceller}

ASSUME ProcAssumption == {Client, Canceller} \cap Msg = {} /\ NoProc \notin Proc
ASSUME FaultAssumption ==
    Faults \subseteq {"cancel", "raise", "io"} /\ MaxCrash \in Nat

VARIABLES
    row,      \* QueueFS: "new" (never stored), "pending", "processing", "gone"
    rec,      \* the task record, in the store and in the tracker's cache
    work,     \* TaskWorkIndex._work of the task
    active,   \* TaskWorkIndex._active: messages whose worker can be cancelled
    failed,   \* TaskWorkIndex._failures has the task
    wpc,      \* where the worker coroutine of each message is
    prep,     \* messages prepare_ack took out of the index
    hit,      \* workers whose Task.cancel is scheduled and not delivered
    enq,      \* who awaits the enqueue of each message
    late,     \* durable calls left running in a thread by a cancelled await
    call,     \* the tracker call each process is in
    cpc,      \* the client: "idle", "created", "failing", "done"
    crashes,  \* number of crashes so far
    orphan,   \* history: messages taken off the index by a cancelled enqueue
    erred     \* history: a work item failed before the task was terminal

queueVars == <<row, late>>
indexVars == <<work, active, failed>>
workerVars == <<wpc, prep, hit>>
history == <<orphan, erred>>
vars == <<queueVars, rec, indexVars, workerVars, enq, call, cpc, crashes, history>>

-----------------------------------------------------------------------------
(* The task record *)

Open == {"pending", "running"}
ActiveStatus == Open \cup {"cancelling"}
Terminal == {"completed", "failed", "cancelled"}
Status == ActiveStatus \cup Terminal \cup {"absent"}
Record == [status : Status, result : BOOLEAN, error : BOOLEAN]
NoRecord == [status |-> "absent", result |-> FALSE, error |-> FALSE]

CancellationRequested == rec.status \in {"cancelling", "cancelled"}

\* Mutant: only running handlers count, not queued messages.
HasWorkActiveOnly == active # {}
\* has_work
HasWork == work # {} \/ active # {}

\* The record _finalize_task_on_owner writes; the same record if none is due.
Finalized ==
    LET r == [rec EXCEPT !.error = @ \/ (failed /\ rec.status # "cancelling")] IN
    CASE r.status = "cancelling" -> [r EXCEPT !.status = "cancelled"]
      [] r.status \in Open /\ r.error -> [r EXCEPT !.status = "failed"]
      [] r.status \in Open /\ ~r.error /\ r.result -> [r EXCEPT !.status = "completed"]
      [] OTHER -> rec

-----------------------------------------------------------------------------
(* Tracker calls.  "settle" is the finalization after a persisted outcome,  *)
(* which run_to_completion shields from cancellation of the caller.         *)

Op == {"start", "complete", "fail", "cancel", "finalize", "settle"}
Call == [op : Op \cup {"none"}, at : {"check", "lock", "write", "signal", "none"},
         new : Record]
NoCall == [op |-> "none", at |-> "none", new |-> NoRecord]
At(op, at) == [op |-> op, at |-> at, new |-> NoRecord]

Idle(p) == call[p] = NoCall
Busy == {p \in Proc : call[p].at = "write"}   \* holds the lock of the task
Set(p, c) == call' = [call EXCEPT ![p] = c]
\* A cancellation of the caller takes effect here.
Interruptible(c) == c.op # "settle" /\ c.at # "write"

-----------------------------------------------------------------------------
(* Workers *)

\* The handler has returned; what is left is the acknowledgement.
Handled == {"returned", "finalize", "ack", "acked", "stuck"}
WPC == {"none", "got", "start", "register", "run", "raised", "end"} \cup Handled

Unacked(m) == row[m] \in {"pending", "processing"}
Enqueuing(p) == {m \in Msg : enq[m] = p}
Goto(m, l) == wpc' = [wpc EXCEPT ![m] = l]

-----------------------------------------------------------------------------
Init ==
    /\ row = [m \in Msg |-> "new"]
    /\ rec = NoRecord
    /\ work = {} /\ active = {} /\ failed = FALSE
    /\ wpc = [m \in Msg |-> "none"]
    /\ prep = {} /\ hit = {} /\ late = {}
    /\ enq = [m \in Msg |-> NoProc]
    /\ call = [p \in Proc |-> NoCall]
    /\ cpc = "idle" /\ crashes = 0
    /\ orphan = {} /\ erred = FALSE

-----------------------------------------------------------------------------
(* The client *)

Create ==
    /\ cpc = "idle"
    /\ rec' = [NoRecord EXCEPT !.status = "pending"]
    /\ cpc' = "created"
    /\ UNCHANGED <<queueVars, indexVars, workerVars, enq, call, crashes, history>>

CancelTask ==
    /\ "cancel" \in Faults
    /\ cpc # "idle" /\ Idle(Canceller)
    /\ Set(Canceller, At("cancel", "lock"))
    /\ UNCHANGED <<queueVars, rec, indexVars, workerVars, enq, cpc, crashes, history>>

-----------------------------------------------------------------------------
(* NamedQueue.enqueue *)

\* Who may enqueue work of the task: the creator once, then its own handlers.
MayEnqueue(p) ==
    IF p = Client THEN cpc = "created" /\ Enqueuing(Client) = {}
                  ELSE p \in Msg /\ wpc[p] = "run" /\ Idle(p)

\* Mutant: the message is not entered in the index.
RegisterNothing(m) == work' = work
\* register: rejected when the task is being cancelled.
Register(m) == ~CancellationRequested /\ work' = work \cup {m}

EnqueueStart(p, m) ==
    /\ MayEnqueue(p)
    /\ row[m] = "new" /\ enq[m] = NoProc /\ m \notin late
    /\ Register(m)
    /\ enq' = [enq EXCEPT ![m] = p]
    /\ orphan' = IF p \in orphan THEN orphan \cup {m} ELSE orphan
    /\ UNCHANGED <<queueVars, rec, active, failed, workerVars, call, cpc, crashes, erred>>

\* The write of the message in a thread of the AGFS client.
EnqueueWrite(m) ==
    /\ enq[m] # NoProc /\ row[m] = "new"
    /\ row' = [row EXCEPT ![m] = "pending"]
    /\ UNCHANGED <<late, rec, indexVars, workerVars, enq, call, cpc, crashes, history>>

EnqueueReturn(m) ==
    /\ enq[m] # NoProc /\ row[m] # "new"
    /\ enq' = [enq EXCEPT ![m] = NoProc]
    /\ cpc' = IF enq[m] = Client THEN "done" ELSE cpc
    /\ UNCHANGED <<queueVars, rec, indexVars, workerVars, call, crashes, history>>

\* A write error: discard takes the message off the index again and finalizes
\* the task if that was the last work.
EnqueueFails(m) ==
    /\ "io" \in Faults
    /\ enq[m] # NoProc /\ row[m] = "new" /\ Idle(enq[m])
    /\ enq' = [enq EXCEPT ![m] = NoProc]
    /\ cpc' = IF enq[m] = Client THEN "failing" ELSE cpc
    /\ work' = work \ {m}
    /\ IF work' = {} /\ active = {} THEN Set(enq[m], At("finalize", "check"))
                                    ELSE UNCHANGED call
    /\ UNCHANGED <<queueVars, rec, active, failed, workerVars, crashes, history>>

\* TaskWorkRejected: the task was cancelled before its first message.
EnqueueRejected ==
    /\ MayEnqueue(Client) /\ CancellationRequested
    /\ cpc' = "failing"
    /\ UNCHANGED <<queueVars, rec, indexVars, workerVars, enq, call, crashes, history>>

\* The client fails the task whose first message it could not enqueue.
ClientFails ==
    /\ cpc = "failing" /\ Idle(Client)
    /\ Set(Client, At("fail", "lock"))
    /\ cpc' = "done"
    /\ UNCHANGED <<queueVars, rec, indexVars, workerVars, enq, crashes, history>>

\* A write whose await was cancelled still lands.
LateEnqueue(m) ==
    /\ m \in late /\ row[m] = "new"
    /\ row' = [row EXCEPT ![m] = "pending"]
    /\ late' = late \ {m}
    /\ UNCHANGED <<rec, indexVars, workerVars, enq, call, cpc, crashes, history>>

-----------------------------------------------------------------------------
(* _worker_async_concurrent and NamedQueue.process_dequeued *)

\* dequeue_raw in a thread: the backend marks the message.
Dequeue(m) ==
    /\ row[m] = "pending" /\ wpc[m] = "none"
    /\ row' = [row EXCEPT ![m] = "processing"]
    /\ Goto(m, "got")
    /\ UNCHANGED <<late, rec, indexVars, prep, hit, enq, call, cpc, crashes, history>>

\* The loop resumes: _on_dequeue_start, then a task for process_one.
Dispatch(m) ==
    /\ wpc[m] = "got"
    /\ Goto(m, "start")
    /\ UNCHANGED <<queueVars, rec, indexVars, prep, hit, enq, call, cpc, crashes, history>>

\* Work of a cancelled task is dropped (on_cancelled reports success) before its handler starts.
StartHandler(m) ==
    /\ wpc[m] = "start"
    /\ Goto(m, IF CancellationRequested THEN "returned" ELSE "register")
    /\ UNCHANGED <<queueVars, rec, indexVars, prep, hit, enq, call, cpc, crashes, history>>

\* register_active looks again, under the lock of the index.
RegisterActive(m) ==
    /\ wpc[m] = "register"
    /\ Goto(m, "run")
    /\ IF CancellationRequested
         THEN hit' = hit \cup {m} /\ UNCHANGED active
         ELSE active' = active \cup {m} /\ UNCHANGED hit
    /\ UNCHANGED <<queueVars, rec, work, failed, prep, enq, call, cpc, crashes, history>>

\* A handler calls tracker.start, complete or fail and awaits it.
TrackerCall(m, op) ==
    /\ wpc[m] = "run" /\ Idle(m) /\ Enqueuing(m) = {}
    /\ Set(m, At(op, "lock"))
    /\ UNCHANGED <<queueVars, rec, indexVars, workerVars, enq, cpc, crashes, history>>

AtRest(m) == wpc[m] = "run" /\ Idle(m) /\ Enqueuing(m) = {}
NoteError == erred' = (erred \/ rec.status \in ActiveStatus)

\* report_success and return.
HandlerReturns(m) ==
    /\ AtRest(m)
    /\ active' = active \ {m}
    /\ Goto(m, "returned")
    /\ UNCHANGED <<queueVars, rec, work, failed, prep, hit, enq, call, cpc, crashes, history>>

\* Mutant: a reported error is not recorded for the task.
ReportsNothing(m) ==
    /\ AtRest(m)
    /\ active' = active \ {m}
    /\ NoteError
    /\ Goto(m, "returned")
    /\ UNCHANGED <<queueVars, rec, work, failed, prep, hit, enq, call, cpc, crashes, orphan>>

\* report_error and return: the message is acknowledged all the same.
HandlerReportsError(m) ==
    /\ AtRest(m)
    /\ active' = active \ {m}
    /\ failed' = TRUE /\ NoteError
    /\ Goto(m, "returned")
    /\ UNCHANGED <<queueVars, rec, work, prep, hit, enq, call, cpc, crashes, orphan>>

\* An exception: recorded, and the message stays unacknowledged.
HandlerRaises(m) ==
    /\ "raise" \in Faults
    /\ AtRest(m)
    /\ active' = active \ {m}
    /\ failed' = TRUE /\ NoteError
    /\ Goto(m, "raised")
    /\ UNCHANGED <<queueVars, rec, work, prep, hit, enq, call, cpc, crashes, orphan>>

\* Task.cancel reaches the handler: enqueues it awaits are discarded (their
\* writes go on), and process_dequeued returns as if it had succeeded.
CancelHandler(m) ==
    /\ m \in hit /\ wpc[m] = "run" /\ Interruptible(call[m])
    /\ hit' = hit \ {m}
    /\ Set(m, NoCall)
    /\ active' = active \ {m}
    /\ work' = work \ Enqueuing(m)
    /\ orphan' = orphan \cup Enqueuing(m)
    /\ late' = late \cup {e \in Enqueuing(m) : row[e] = "new"}
    /\ enq' = [e \in Msg |-> IF enq[e] = m THEN NoProc ELSE enq[e]]
    /\ Goto(m, IF CancellationRequested THEN "returned" ELSE "raised")
    /\ UNCHANGED <<row, rec, failed, prep, cpc, crashes, erred>>

-----------------------------------------------------------------------------
(* NamedQueue.ack *)

\* Mutant: the durable ACK comes first, the task is finalized by nobody.
PrepareAckNoFinalize(m) ==
    /\ wpc[m] = "returned"
    /\ work' = work \ {m}
    /\ prep' = prep \cup (work \cap {m})
    /\ Goto(m, "ack")
    /\ UNCHANGED <<queueVars, rec, active, failed, hit, enq, call, cpc, crashes, history>>

\* prepare_ack: off the index; the last work item finalizes the task first.
PrepareAck(m) ==
    /\ wpc[m] = "returned"
    /\ work' = work \ {m}
    /\ prep' = prep \cup (work \cap {m})
    /\ IF m \in work /\ work' = {} /\ active = {}
         THEN Goto(m, "finalize") /\ Set(m, At("finalize", "check"))
         ELSE Goto(m, "ack") /\ UNCHANGED call
    /\ UNCHANGED <<queueVars, rec, active, failed, hit, enq, cpc, crashes, history>>

FinalizeDone(m) ==
    /\ wpc[m] = "finalize" /\ Idle(m)
    /\ Goto(m, "ack")
    /\ UNCHANGED <<queueVars, rec, indexVars, prep, hit, enq, call, cpc, crashes, history>>

AckWrite(m) ==
    /\ wpc[m] = "ack"
    /\ row' = [row EXCEPT ![m] = "gone"]
    /\ Goto(m, "acked")
    /\ UNCHANGED <<late, rec, indexVars, prep, hit, enq, call, cpc, crashes, history>>

AckReturn(m) ==
    /\ wpc[m] = "acked"
    /\ Goto(m, "end")
    /\ prep' = prep \ {m}
    /\ UNCHANGED <<queueVars, rec, indexVars, hit, enq, call, cpc, crashes, history>>

\* rollback_ack: the message is back on the index and nobody acknowledges it.
RollbackAck(m) ==
    /\ work' = work \cup (prep \cap {m})
    /\ prep' = prep \ {m}
    /\ Goto(m, "stuck")

AckFails(m) ==
    /\ "io" \in Faults
    /\ wpc[m] = "ack"
    /\ RollbackAck(m)
    /\ UNCHANGED <<queueVars, rec, active, failed, hit, enq, call, cpc, crashes, history>>

\* A Task.cancel scheduled while the handler was active arrives during the
\* acknowledgement; a write it interrupts goes on in its thread.
CancelAck(m) ==
    /\ m \in hit /\ wpc[m] \in {"finalize", "ack", "acked"} /\ Interruptible(call[m])
    /\ hit' = hit \ {m}
    /\ Set(m, NoCall)
    /\ RollbackAck(m)
    /\ late' = IF wpc[m] = "ack" THEN late \cup {m} ELSE late
    /\ UNCHANGED <<row, rec, active, failed, enq, cpc, crashes, history>>

LateAck(m) ==
    /\ m \in late /\ row[m] = "processing"
    /\ row' = [row EXCEPT ![m] = "gone"]
    /\ late' = late \ {m}
    /\ UNCHANGED <<rec, indexVars, workerVars, enq, call, cpc, crashes, history>>

-----------------------------------------------------------------------------
(* TaskTracker, serialised by the lock of the task *)

\* The check of _finalize_task_on_owner before the lock.
FinalizeCheck(p) ==
    /\ call[p].at = "check"
    /\ Set(p, IF HasWork THEN NoCall ELSE At(call[p].op, "lock"))
    /\ UNCHANGED <<queueVars, rec, indexVars, workerVars, enq, cpc, crashes, history>>

\* The updated copy is on its way to the task file (_write_task); the lock of
\* the task stays held until Persist or PersistFails.
WriteBack(p, r) == Set(p, [call[p] EXCEPT !.at = "write", !.new = r])

\* Mutant: start does not look at the status.
StartAny(p) == WriteBack(p, [rec EXCEPT !.status = "running"])
\* _start_on_owner
StartTask(p) ==
    IF rec.status \in Open THEN WriteBack(p, [rec EXCEPT !.status = "running"])
                           ELSE Set(p, NoCall)

\* _record_outcome_on_owner
RecordOutcome(p) ==
    IF rec.status \in Open
      THEN WriteBack(p, [rec EXCEPT !.result = @ \/ call[p].op = "complete",
                                    !.error = @ \/ failed \/ call[p].op = "fail"])
      ELSE Set(p, At("finalize", "check"))

\* _cancel_on_owner: idempotent while cancelling, an error once terminal.
RecordCancel(p) ==
    CASE rec.status \in Open -> WriteBack(p, [rec EXCEPT !.status = "cancelling"])
      [] rec.status = "cancelling" -> Set(p, At("cancel", "signal"))
      [] OTHER -> Set(p, NoCall)

\* _finalize_task_on_owner, under the lock
Finalize(p) ==
    IF rec.status \in ActiveStatus /\ ~HasWork /\ Finalized # rec
      THEN WriteBack(p, Finalized)
      ELSE Set(p, NoCall)

LockTask(p) ==
    /\ call[p].at = "lock" /\ Busy = {}
    /\ CASE call[p].op = "start" -> StartTask(p)
         [] call[p].op \in {"complete", "fail"} -> RecordOutcome(p)
         [] call[p].op = "cancel" -> RecordCancel(p)
         [] OTHER -> Finalize(p)
    /\ UNCHANGED <<queueVars, rec, indexVars, workerVars, enq, cpc, crashes, history>>

\* _persist_and_publish, and what the call does after it released the lock.
Persist(p) ==
    /\ call[p].at = "write"
    /\ rec' = call[p].new
    /\ failed' = IF call[p].op \in {"finalize", "settle"} THEN FALSE ELSE failed
    /\ Set(p, CASE call[p].op \in {"complete", "fail"} -> At("settle", "check")
                [] call[p].op = "cancel" -> At("cancel", "signal")
                [] OTHER -> NoCall)
    /\ UNCHANGED <<queueVars, work, active, workerVars, enq, cpc, crashes, history>>

\* A store error: the record stays, the caller gets an exception.
PersistFails(p) ==
    /\ "io" \in Faults
    /\ call[p].at = "write"
    /\ Set(p, NoCall)
    /\ IF p \in Msg /\ wpc[p] = "finalize" THEN RollbackAck(p)
                                           ELSE UNCHANGED <<work, wpc, prep>>
    /\ UNCHANGED <<queueVars, rec, active, failed, hit, enq, cpc, crashes, history>>

\* cancel_active, then the finalization of cancel.
SignalActive(p) ==
    /\ call[p].at = "signal"
    /\ hit' = hit \cup active
    /\ Set(p, At("finalize", "check"))
    /\ UNCHANGED <<queueVars, rec, indexVars, wpc, prep, enq, cpc, crashes, history>>

-----------------------------------------------------------------------------
(* Crash and restart: recover_stale, then the index is rebuilt from every   *)
(* unacknowledged message before a consumer starts.                         *)

\* Mutant: recovered messages get a status that dequeue does not select.
RecoverMisnamed == row' = [m \in Msg |-> IF row[m] = "processing" THEN "recovered" ELSE row[m]]
\* Mutant: messages that were being processed are not made pending again.
RecoverNothing == row' = row
\* recover_stale
RecoverStale == row' = [m \in Msg |-> IF row[m] = "processing" THEN "pending" ELSE row[m]]

\* rebuild: every message of the queue not yet acknowledged is work again.
Rebuild ==
    /\ work' = {m \in Msg : Unacked(m)}
    /\ failed' = FALSE

Restart ==
    /\ crashes < MaxCrash /\ cpc # "idle"
    /\ crashes' = crashes + 1
    /\ RecoverStale
    /\ Rebuild /\ active' = {}
    /\ wpc' = [m \in Msg |-> "none"]
    /\ prep' = {} /\ hit' = {} /\ late' = {}
    /\ enq' = [m \in Msg |-> NoProc]
    /\ call' = [p \in Proc |-> NoCall]
    /\ cpc' = "done" /\ orphan' = {}
    /\ UNCHANGED <<rec, erred>>

-----------------------------------------------------------------------------
WorkerStep(m) ==
    \/ Dequeue(m) \/ Dispatch(m) \/ StartHandler(m) \/ RegisterActive(m)
    \/ PrepareAck(m) \/ FinalizeDone(m) \/ AckWrite(m) \/ AckReturn(m)
    \/ CancelHandler(m) \/ CancelAck(m)

HandlerStep(m) ==
    \/ \E op \in {"start", "complete", "fail"} : TrackerCall(m, op)
    \/ HandlerReturns(m) \/ HandlerReportsError(m) \/ HandlerRaises(m)

EnqueueStep(m) == EnqueueWrite(m) \/ EnqueueReturn(m)

TrackerStep(p) ==
    FinalizeCheck(p) \/ LockTask(p) \/ Persist(p) \/ SignalActive(p)

Next ==
    \/ Create \/ CancelTask \/ Restart \/ EnqueueRejected \/ ClientFails
    \/ \E p \in Proc, m \in Msg : EnqueueStart(p, m)
    \/ \E m \in Msg : WorkerStep(m) \/ HandlerStep(m) \/ EnqueueStep(m)
                      \/ EnqueueFails(m) \/ LateEnqueue(m) \/ LateAck(m) \/ AckFails(m)
    \/ \E p \in Proc : TrackerStep(p) \/ PersistFails(p)

Spec == Init /\ [][Next]_vars

\* Event loops and threads keep running and a handler returns at last; nobody
\* has to crash, cancel, fail, enqueue or report an outcome.
Fairness ==
    /\ \A m \in Msg : /\ WF_vars(WorkerStep(m))
                      /\ WF_vars(EnqueueStep(m))
                      /\ WF_vars(LateEnqueue(m) \/ LateAck(m))
                      /\ SF_vars(HandlerReturns(m))
    /\ \A p \in Proc : WF_vars(TrackerStep(p)) /\ SF_vars(LockTask(p))

FairSpec == Spec /\ Fairness

-----------------------------------------------------------------------------
\* Every variable has its type.
TypeOK ==
    /\ row \in [Msg -> {"new", "pending", "processing", "gone"}]
    /\ rec \in Record
    /\ work \in SUBSET Msg /\ active \in SUBSET Msg /\ failed \in BOOLEAN
    /\ wpc \in [Msg -> WPC]
    /\ prep \in SUBSET Msg /\ hit \in SUBSET Msg /\ late \in SUBSET Msg
    /\ enq \in [Msg -> Proc \cup {NoProc}]
    /\ call \in [Proc -> Call]
    /\ cpc \in {"idle", "created", "failing", "done"}
    /\ crashes \in 0..MaxCrash
    /\ orphan \in SUBSET Msg /\ erred \in BOOLEAN

\* The index never loses work: a message that is stored and unacknowledged is
\* on the index unless its own acknowledgement is under way, across failed and
\* cancelled acknowledgements, discarded enqueues and restarts.
IndexComplete ==
    \A m \in Msg \ orphan :
      Unacked(m) => m \in work \/ wpc[m] \in {"finalize", "ack", "acked"}

BecomesTerminal == rec.status \notin Terminal /\ rec'.status \in Terminal

\* The task turns terminal only when the handlers of all its messages have
\* returned: no message of it is queued, being handled, or was left behind by
\* a handler that raised, whoever else enqueues, acknowledges or fails while
\* the finalization looks, waits for the lock and writes.
SettledBeforeTerminal ==
    [][BecomesTerminal =>
         \A m \in Msg \ orphan : Unacked(m) => wpc[m] \in Handled]_vars

\* A terminal status is final: no late start, outcome, cancellation,
\* redelivered message or restart changes it.
TerminalStays == [][rec.status \in Terminal => rec' = rec]_vars

\* As long as the process does not crash, a task one of whose work items
\* failed does not complete, whichever item finishes last.
FailureKept == crashes = 0 /\ erred => rec.status # "completed"

Outcome == rec.status \in Open /\ (rec.result \/ rec.error)
\* A task with a recorded outcome becomes terminal, also across crashes: the
\* last message is acknowledged only after the final status is persisted.
OutcomeSettles == Outcome ~> rec.status \in Terminal

\* A stored message is handled and acknowledged, also across crashes.
Delivered == \A m \in Msg : row[m] = "pending" ~> row[m] = "gone"

=============================================================================
