---------------------------- MODULE SessionCommit ----------------------------
(* A session's commits: phase 1 moves messages from the live file into an     *)
(* archive under the session lock and stores a queue message; phase 2, run by *)
(* the queue workers, extracts memories from one archive after the other.     *)
EXTENDS Naturals, FiniteSets

CONSTANTS MaxMsg,       \* bound: messages appended
          MaxArchive,   \* bound: archives of the session
          MaxCopy,      \* bound: copies of one message in the queue
          MaxLate,      \* bound: writes of cancelled calls that are under way
          MaxFault      \* bound: errors, cancellations and crashes

ASSUME SessionAssumption ==
    /\ MaxMsg \in Nat /\ MaxArchive \in Nat /\ MaxCopy \in Nat \ {0}
    /\ MaxLate \in Nat /\ MaxFault \in Nat

Msg == 1..MaxMsg
Archive == 1..MaxArchive
Copy == 1..MaxCopy
Entry == Archive \X Copy     \* the copies of the archives' queue messages

VARIABLES
    root,       \* ids in messages.jsonl
    sent,       \* messages appended so far; ids grow with the appends
    count,      \* commit_count of the session's .meta.json
    arch,       \* the archive directories
    queue,      \* the session_commit messages
    wpc,        \* the handler of each message
    c,          \* the commit that holds the session lock
    late,       \* writes whose awaiting coroutine was cancelled: they run on
    faults,     \* errors, cancellations and crashes so far
    applied,    \* history: archives whose commit rewrote the live file
    overtaken,  \* history: archives still preparing when another commit rewrote it
    rejected,   \* history: archives whose rewrite the recovery denied
    doubled,    \* history: archives with two messages after a crash or a lost acknowledgement
    exposed,    \* history: messages that were live while a cancelled write ran on
    stray       \* history: whether a cancelled write has landed

history == <<applied, overtaken, rejected>>
lateness == <<late, exposed, stray>>
vars == <<root, sent, count, arch, queue, wpc, c, faults, history, doubled, lateness>>

Marker == {"none", "preparing", "ready"}
Dir == [marker : Marker, out : SUBSET Msg, kept : SUBSET Msg, raw : SUBSET Msg,
        done : BOOLEAN, failed : BOOLEAN]
NoDir == [marker |-> "none", out |-> {}, kept |-> {}, raw |-> {},
          done |-> FALSE, failed |-> FALSE]
Part == {"marker", "raw"}
Write == [to : Part \cup {"enqueue", "rewrite", "meta", "ready", "fail", "done"},
          k : 0..MaxArchive, out : SUBSET Msg, kept : SUBSET Msg]
NoCommit == [pc |-> "idle", k |-> 0, out |-> {}, kept |-> {}, todo |-> {}, ok |-> TRUE]

-----------------------------------------------------------------------------
(* Archive directories *)

Exists(k) == arch[k].marker # "none" \/ arch[k].raw # {} \/ arch[k].failed
Terminal(k) == arch[k].done \/ arch[k].failed
Copies(k) == {q \in Entry : q[1] = k /\ queue[q] # "none"}
HasWork(k) == Copies(k) # {}
LockIgnored == TRUE    \* mutant: nobody waits for the session lock
LockFree == c.pc = "idle"
Fault == faults < MaxFault /\ faults' = faults + 1

\* The number after commit_count that no directory has.
NextArchive(k) == k > count /\ ~Exists(k) /\ \A j \in (count + 1)..(k - 1) : Exists(j)

\* How commit_async divides the live messages: the newest are kept; a partial
\* turn keeps its anchor, which is archived as well.
Splits ==
    {[out |-> {m \in root : m <= cut}, kept |-> {m \in root : m > cut} \cup A] :
        cut \in root, A \in {{}} \cup {{a} : a \in root}}
SplitOK(s) == \A a \in s.out \cap s.kept : \E m \in s.out \ s.kept : m > a

\* Mutant: messages that should have left the live file are not looked for.
AppliedByPrefix(k) ==
    \A m \in arch[k].kept : m \in root /\ \A n \in root : n < m => n \in arch[k].kept
\* The live file starts with the retained messages and has none of the others.
Phase1Applied(k) ==
    /\ \A m \in arch[k].kept : m \in root /\ \A n \in root : n < m => n \in arch[k].kept
    /\ (arch[k].out \ arch[k].kept) \cap root = {}

-----------------------------------------------------------------------------
Init ==
    /\ root = {} /\ sent = 0 /\ count = 0
    /\ arch = [k \in Archive |-> NoDir]
    /\ queue = [q \in Entry |-> "none"]
    /\ wpc = [q \in Entry |-> "none"]
    /\ c = NoCommit /\ late = {} /\ faults = 0
    /\ applied = {} /\ overtaken = {} /\ rejected = {} /\ doubled = {}
    /\ exposed = {} /\ stray = FALSE

\* _append_messages_authoritatively
Append ==
    /\ LockFree /\ sent < MaxMsg
    /\ sent' = sent + 1 /\ root' = root \cup {sent + 1}
    /\ exposed' = IF late = {} THEN exposed ELSE exposed \cup {sent + 1}
    /\ UNCHANGED <<count, arch, queue, wpc, c, faults, history, doubled, late, stray>>

-----------------------------------------------------------------------------
(* Phase 1 *)

\* commit_async up to the division of the messages.  A commit with nothing to
\* archive changes neither messages nor archives.
Commit ==
    /\ LockFree
    /\ \E k \in Archive, s \in Splits :
        /\ NextArchive(k) /\ SplitOK(s)
        /\ c' = [pc |-> "persist", k |-> k, out |-> s.out, kept |-> s.kept,
                 todo |-> Part, ok |-> TRUE]
    /\ UNCHANGED <<root, sent, count, arch, queue, wpc, faults, history, doubled, lateness>>

Written(part) ==
    IF part = "raw" THEN [arch[c.k] EXCEPT !.raw = c.out]
    ELSE [arch[c.k] EXCEPT !.marker = "preparing", !.out = c.out, !.kept = c.kept]

\* Mutant: the results of the two writes are not looked at.
PersistedUnchecked(todo, ok) == IF todo # {} THEN "persist" ELSE "enqueue"
Persisted(todo, ok) == IF todo # {} THEN "persist" ELSE IF ok THEN "enqueue" ELSE "fail"

\* The intent and the archived messages are written concurrently (gather).
Persist(part, ok) ==
    /\ c.pc = "persist" /\ part \in c.todo
    /\ IF ok THEN UNCHANGED faults ELSE Fault
    /\ arch' = IF ok THEN [arch EXCEPT ![c.k] = Written(part)] ELSE arch
    /\ c' = [c EXCEPT !.todo = @ \ {part}, !.ok = @ /\ ok,
                      !.pc = Persisted(c.todo \ {part}, c.ok /\ ok)]
    /\ UNCHANGED <<root, sent, count, queue, wpc, history, doubled, lateness>>

\* The message is stored, then the record of its task, which the consumer creates
\* as well.
Enqueue ==
    /\ c.pc = "enqueue"
    /\ queue' = [queue EXCEPT ![<<c.k, 1>>] = "queued"]
    /\ c' = [c EXCEPT !.pc = "rewrite"]
    /\ UNCHANGED <<root, sent, count, arch, wpc, faults, history, doubled, lateness>>

RewriteNothing == root' = root    \* mutant: the retained messages are not written
RewriteRoot == root' = c.kept
Rewrite ==
    /\ c.pc = "rewrite" /\ RewriteRoot
    /\ c' = [c EXCEPT !.pc = "meta"]
    /\ applied' = applied \cup {c.k}
    /\ overtaken' = overtaken \cup
           {j \in Archive \ {c.k} : arch[j].marker = "preparing" /\ ~Terminal(j)}
    /\ UNCHANGED <<sent, count, arch, queue, wpc, faults, rejected, doubled, lateness>>

CountNext(k) == count' = k + 1    \* mutant: off by one
Counted(k) == count' = IF k > count THEN k ELSE count
SaveMeta ==
    /\ c.pc = "meta" /\ Counted(c.k)
    /\ c' = [c EXCEPT !.pc = "ready"]
    /\ UNCHANGED <<root, sent, arch, queue, wpc, faults, history, doubled, lateness>>

MarkReady ==
    /\ c.pc = "ready"
    /\ arch' = [arch EXCEPT ![c.k].marker = "ready"]
    /\ c' = NoCommit
    /\ UNCHANGED <<root, sent, count, queue, wpc, faults, history, doubled, lateness>>

\* An exception of any of these steps.
StepFails ==
    /\ c.pc \in {"enqueue", "rewrite", "meta", "ready"}
    /\ Fault /\ c' = [c EXCEPT !.pc = "fail"]
    /\ UNCHANGED <<root, sent, count, arch, queue, wpc, history, doubled, lateness>>

RootBack == root' = root \cup c.out    \* mutant: the handler restores the live file
RootLeft == root' = root
\* The handler of the exception; the marker may not be written either.
MarkFailed(ok) ==
    /\ c.pc = "fail" /\ RootLeft
    /\ IF ok THEN UNCHANGED faults ELSE Fault
    /\ arch' = IF ok THEN [arch EXCEPT ![c.k].failed = TRUE] ELSE arch
    /\ c' = NoCommit
    /\ UNCHANGED <<sent, count, queue, wpc, history, doubled, lateness>>

-----------------------------------------------------------------------------
(* Cancellation.  It releases the session lock, but a storage call runs in a  *)
(* thread of its own and is not stopped.                                      *)

LateWrites(S) ==
    \E T \in SUBSET S :
        /\ Cardinality(late \cup T) <= MaxLate /\ late' = late \cup T
        /\ exposed' = IF T = {} THEN exposed ELSE exposed \cup root \cup c.out \cup c.kept
        /\ UNCHANGED stray

\* CancelledError is no Exception: no marker is written.
Abandon ==
    /\ Fault /\ ~LockFree /\ c' = NoCommit
    /\ LateWrites({[to |-> x, k |-> c.k, out |-> c.out, kept |-> c.kept] :
                      x \in IF c.pc = "persist" THEN c.todo ELSE {c.pc}})
    /\ UNCHANGED <<root, sent, count, arch, queue, wpc, history, doubled>>

\* An append, which writes the whole file.  Its own message was not acknowledged to
\* anyone and is not followed.
AbandonAppend ==
    /\ Fault /\ LockFree
    /\ LateWrites({[to |-> "rewrite", k |-> 0, out |-> {}, kept |-> root]})
    /\ UNCHANGED <<root, sent, count, arch, queue, wpc, c, history, doubled>>

Landed(w) ==
    CASE w.to = "raw" -> [arch[w.k] EXCEPT !.raw = w.out]
      [] w.to = "marker" -> [arch[w.k] EXCEPT !.marker = "preparing", !.out = w.out, !.kept = w.kept]
      [] w.to = "ready" -> [arch[w.k] EXCEPT !.marker = "ready"]
      [] w.to = "fail" -> [arch[w.k] EXCEPT !.failed = TRUE]
      [] w.to = "done" -> [arch[w.k] EXCEPT !.done = TRUE]
\* The write takes effect, whoever holds the lock by now.
Land(w) ==
    /\ w \in late /\ late' = late \ {w} /\ stray' = TRUE
    /\ root' = IF w.to = "rewrite" THEN w.kept ELSE root
    /\ count' = IF w.to = "meta" THEN w.k ELSE count
    /\ arch' = IF w.to \in Part \cup {"ready", "fail", "done"}
               THEN [arch EXCEPT ![w.k] = Landed(w)] ELSE arch
    /\ IF w.to = "enqueue"
       THEN \E i \in Copy : /\ queue[<<w.k, i>>] = "none"
                            /\ queue' = [queue EXCEPT ![<<w.k, i>>] = "queued"]
       ELSE UNCHANGED queue
    /\ UNCHANGED <<sent, wpc, c, faults, history, doubled, exposed>>

-----------------------------------------------------------------------------
(* Phase 2: the handler of one queue message *)

Move(q, at) == wpc' = [wpc EXCEPT ![q] = at]
Fail(k) == arch' = [arch EXCEPT ![k].failed = TRUE]

\* The message is dequeued and resume_queued_commit reads the archive's state.
Deliver(q) ==
    /\ queue[q] = "queued"
    /\ queue' = [queue EXCEPT ![q] = "running"]
    /\ Move(q, IF Terminal(q[1]) THEN "ack"
               ELSE IF arch[q[1]].marker = "preparing" THEN "recover" ELSE "pred")
    /\ UNCHANGED <<root, sent, count, arch, c, faults, history, doubled, lateness>>

\* _ensure_phase1_ready(j) under the session lock.
EnsureReady(j) ==
    LET settled == arch[j].marker = "ready" \/ arch[j].failed
        holds == HasWork(j) /\ Phase1Applied(j)
    IN  /\ LockFree
        /\ arch' = IF settled THEN arch
                   ELSE IF holds THEN [arch EXCEPT ![j].marker = "ready"]
                   ELSE [arch EXCEPT ![j].failed = TRUE]
        /\ IF ~settled /\ holds THEN Counted(j) ELSE UNCHANGED count
        /\ rejected' = IF ~settled /\ HasWork(j) /\ ~holds THEN rejected \cup {j}
                                                          ELSE rejected
        /\ UNCHANGED <<root, sent, c, faults, applied, overtaken, doubled, lateness>>

Recover(q) ==
    /\ wpc[q] = "recover" /\ EnsureReady(q[1])
    /\ Move(q, IF arch'[q[1]].marker = "ready" THEN "pred" ELSE "ack")
    /\ UNCHANGED queue

\* The processor stores the message once more; this copy is acknowledged afterwards.
\* With MaxCopy copies in the queue the two steps are one.
Requeue(q) ==
    \/ \E i \in Copy :
        /\ queue[<<q[1], i>>] = "none"
        /\ queue' = [queue EXCEPT ![<<q[1], i>>] = "queued"] /\ Move(q, "ack")
    \/ /\ \A i \in Copy : queue[<<q[1], i>>] # "none"
       /\ queue' = [queue EXCEPT ![q] = "queued"] /\ Move(q, "none")

\* Mutant: a predecessor whose phase 1 is ready counts as finished.
RunsWhenReady(k) == IF k = 1 THEN TRUE ELSE arch[k - 1].marker \in {"none", "ready"}
\* _can_run_archive
MayRun(k) == IF k = 1 THEN TRUE ELSE ~Exists(k - 1) \/ Terminal(k - 1)

RunNext(q) ==
    /\ wpc[q] = "pred" /\ MayRun(q[1]) /\ Move(q, "extract")
    /\ UNCHANGED <<root, sent, count, arch, queue, c, faults, history, doubled, lateness>>

\* The predecessor has no phase 1 metadata at all.
WaitForPredecessor(q) ==
    /\ wpc[q] = "pred" /\ ~MayRun(q[1]) /\ arch[q[1] - 1].marker = "none" /\ Requeue(q)
    /\ UNCHANGED <<root, sent, count, arch, c, faults, history, doubled, lateness>>

RecoverPredecessor(q) ==
    /\ wpc[q] = "pred" /\ ~MayRun(q[1]) /\ arch[q[1] - 1].marker = "preparing"
    /\ EnsureReady(q[1] - 1)
    /\ IF arch'[q[1] - 1].marker = "ready" THEN Requeue(q)
                                           ELSE Move(q, "extract") /\ UNCHANGED queue

\* The predecessor's phase 1 is ready: whether it has work is looked at next.
SeePending(q) ==
    /\ wpc[q] = "pred" /\ ~MayRun(q[1]) /\ arch[q[1] - 1].marker = "ready" /\ Move(q, "pending")
    /\ UNCHANGED <<root, sent, count, arch, queue, c, faults, history, doubled, lateness>>

OrphanNever(j) == FALSE           \* mutant: lost work of the predecessor is waited for
Orphan(j) == ~HasWork(j)
WaitForWork(q) ==
    /\ wpc[q] = "pending" /\ ~Orphan(q[1] - 1) /\ Requeue(q)
    /\ UNCHANGED <<root, sent, count, arch, c, faults, history, doubled, lateness>>
SkipOrphan(q) ==
    /\ wpc[q] = "pending" /\ Orphan(q[1] - 1) /\ Fail(q[1] - 1) /\ Move(q, "extract")
    /\ UNCHANGED <<root, sent, count, queue, c, faults, history, doubled, lateness>>

\* The memory extraction of _run_memory_extraction, then its session metadata
\* under the session lock, then the marker.
Extract(q) ==
    /\ wpc[q] = "extract"
    /\ IF arch[q[1]].raw = {} THEN Fail(q[1]) /\ Move(q, "ack")
                              ELSE Move(q, "merge") /\ UNCHANGED arch
    /\ UNCHANGED <<root, sent, count, queue, c, faults, history, doubled, lateness>>

MergeMeta(q) ==
    /\ wpc[q] = "merge" /\ LockFree /\ Counted(q[1]) /\ Move(q, "finish")
    /\ UNCHANGED <<root, sent, arch, queue, c, faults, history, doubled, lateness>>

WriteDone(q) ==
    /\ wpc[q] = "finish"
    /\ arch' = [arch EXCEPT ![q[1]].done = TRUE] /\ Move(q, "complete")
    /\ UNCHANGED <<root, sent, count, queue, c, faults, history, doubled, lateness>>

\* What a handler may be writing when it is cancelled.
HandlerWrites(q) ==
    {w \in [to : {"ready", "fail", "meta", "done"}, k : {q[1] - 1, q[1]} \ {0}, out : {{}}, kept : {{}}] :
        \/ wpc[q] \in {"recover", "pred", "pending"} /\ w.to \in {"ready", "fail", "meta"}
        \/ wpc[q] = "merge" /\ w.to = "meta"
        \/ wpc[q] = "finish" /\ w.to = "done" /\ w.k = q[1]}

\* An exception or a cancellation inside _run_memory_extraction, also of the
\* task's completion when the marker .done is written.
ExtractFails(q) ==
    /\ wpc[q] \in {"extract", "merge", "finish", "complete"} /\ Fault /\ Fail(q[1]) /\ Move(q, "ack")
    /\ LateWrites(HandlerWrites(q))
    /\ UNCHANGED <<root, sent, count, queue, c, history, doubled>>

\* A cancellation of the task before that leaves no marker.
CancelEarly(q) ==
    /\ wpc[q] \in {"recover", "pred", "pending"} /\ Fault /\ Move(q, "ack")
    /\ LateWrites(HandlerWrites(q))
    /\ UNCHANGED <<root, sent, count, arch, queue, c, history, doubled>>

\* on_cancelled: the task was cancelled while its message waited.
CancelQueued(q) ==
    /\ queue[q] = "queued" /\ Fault /\ Fail(q[1])
    /\ queue' = [queue EXCEPT ![q] = "running"] /\ Move(q, "ack")
    /\ UNCHANGED <<root, sent, count, c, history, doubled, lateness>>

Ack(q) ==
    /\ wpc[q] \in {"complete", "ack"}
    /\ queue' = [queue EXCEPT ![q] = "none"] /\ Move(q, "none")
    /\ UNCHANGED <<root, sent, count, arch, c, faults, history, doubled, lateness>>

\* A storage error, also of a marker or of the acknowledgement, or the wait for the
\* session lock times out: the message is not delivered again before the next start.
HandlerRaises(q) ==
    /\ wpc[q] # "none" /\ Fault
    /\ queue' = [queue EXCEPT ![q] = "stuck"] /\ Move(q, "none")
    /\ doubled' = IF Copies(q[1]) = {q} THEN doubled ELSE doubled \cup {q[1]}
    /\ UNCHANGED <<root, sent, count, arch, c, history, lateness>>

Crash ==
    /\ Fault
    /\ queue' = [q \in Entry |-> IF queue[q] = "none" THEN "none" ELSE "queued"]
    /\ wpc' = [q \in Entry |-> "none"] /\ c' = NoCommit /\ late' = {}
    /\ doubled' = doubled \cup {k \in Archive : \E q, r \in Copies(k) : q # r}
    /\ UNCHANGED <<root, sent, count, arch, history, exposed, stray>>

-----------------------------------------------------------------------------
CommitStep ==
    \/ \E part \in Part, ok \in BOOLEAN : Persist(part, ok)
    \/ Enqueue \/ Rewrite \/ SaveMeta \/ MarkReady
    \/ \E ok \in BOOLEAN : MarkFailed(ok)

HandlerStep(q) ==
    \/ Deliver(q) \/ Recover(q) \/ RunNext(q) \/ WaitForPredecessor(q)
    \/ RecoverPredecessor(q) \/ SeePending(q) \/ WaitForWork(q) \/ SkipOrphan(q)
    \/ Extract(q) \/ MergeMeta(q) \/ WriteDone(q) \/ Ack(q)

Next ==
    \/ Append \/ Commit \/ CommitStep \/ StepFails \/ Abandon \/ AbandonAppend \/ Crash
    \/ \E w \in late : Land(w)
    \/ \E q \in Entry :
        HandlerStep(q) \/ ExtractFails(q) \/ CancelEarly(q) \/ CancelQueued(q)
            \/ HandlerRaises(q)

\* A commit that began runs on and ends; the workers poll for good, and a handler
\* that does not get the session lock in time raises.
Fairness ==
    /\ WF_vars(CommitStep \/ StepFails)
    /\ \A q \in Entry : WF_vars(HandlerStep(q) \/ HandlerRaises(q) \/ ExtractFails(q))
Spec == Init /\ [][Next]_vars
LiveSpec == Spec /\ Fairness

-----------------------------------------------------------------------------
(* Properties *)

\* The variables have their types; commit_count stays within the archives there are.
TypeOK ==
    /\ root \subseteq Msg /\ sent \in 0..MaxMsg /\ count \in 0..MaxArchive
    /\ arch \in [Archive -> Dir]
    /\ queue \in [Entry -> {"none", "queued", "running", "stuck"}]
    /\ wpc \in [Entry -> {"none", "recover", "pred", "pending", "extract", "merge",
                          "finish", "complete", "ack"}]
    /\ c \in [pc : {"idle", "persist", "enqueue", "rewrite", "meta", "ready",
                    "fail"},
              k : 0..MaxArchive, out : SUBSET Msg, kept : SUBSET Msg,
              todo : SUBSET Part, ok : BOOLEAN]
    /\ late \subseteq Write /\ \A w \in late : w.to # "rewrite" => w.k \in Archive
    /\ faults \in 0..MaxFault
    /\ applied \subseteq Archive /\ overtaken \subseteq Archive /\ rejected \subseteq Archive
    /\ doubled \subseteq Archive /\ exposed \subseteq Msg /\ stray \in BOOLEAN

\* An appended message is in the live file or in the messages.jsonl of an archive,
\* whatever write fails, wherever the process ends and wherever a call is cancelled;
\* except messages that were live while a write of a cancelled call ran on.
NothingLost == \A m \in (1..sent) \ exposed : m \in root \/ \E k \in Archive : m \in arch[k].raw

\* _ensure_phase1_ready decides from message ids whether the live file had been
\* rewritten.  It is right unless another commit rewrote the file meanwhile: an
\* archive it makes ready was rewritten, one it rejects was not.  This and the
\* following hold for as long as no write of a cancelled call lands late.
RecoveryExact ==
    ~stray =>
        \A k \in Archive \ overtaken :
            /\ arch[k].marker = "ready" => k \in applied
            /\ k \in rejected => k \notin applied

\* No message leaves the live file through two archives that phase 2 accepts, but
\* for archives another commit overtook.
ReadyDisjoint ==
    ~stray =>
        \A j, k \in Archive \ overtaken :
            j # k /\ arch[j].marker = "ready" /\ arch[k].marker = "ready" =>
                (arch[j].out \ arch[j].kept) \cap (arch[k].out \ arch[k].kept) = {}

\* _can_run_archive looks at the direct predecessor only.  Still no archive is
\* extracted while an older one is pending, unless one between them failed.
InOrder ==
    ~stray =>
        \A j \in Archive, q \in Entry :
            /\ j < q[1] /\ wpc[q] \in {"extract", "merge", "finish"}
            /\ Exists(j) /\ ~Terminal(j)
            => \E i \in (j + 1)..(q[1] - 1) : arch[i].failed

PlaceOf(m) ==
    IF m > sent THEN "unsent"
    ELSE IF m \in root THEN "live"
    ELSE IF \E k \in Archive : m \in arch[k].raw /\ arch[k].done THEN "extracted"
    ELSE IF \E k \in Archive : m \in arch[k].raw /\ ~Terminal(k) THEN "archived"
    ELSE "dropped"

Log == INSTANCE SessionLog
       WITH place <- [m \in Msg |-> PlaceOf(m)],
            again <- {m \in Msg : \E k \in doubled : m \in arch[k].raw},
            astray <- stray

\* Commits, recoveries, failures and crashes never move a message backwards and
\* never change the outcome an archive gave it, but that of two handlers of one
\* archive a success outlives a failure; until a write of a cancelled call lands late.
ImplementsLog == Log!Spec

\* No archive keeps a queue message for ever: it is worked off, unless it or an older one
\* waits for a restart or an older one has a directory without phase 1 metadata.
ArchiveSettles ==
    \A k \in Archive :
        []<>(\/ ~HasWork(k)
             \/ \E r \in Entry : r[1] <= k /\ queue[r] = "stuck"
             \/ \E j \in 1..k : Exists(j) /\ arch[j].marker = "none" /\ ~Terminal(j))

\* The same without the last exception: an interrupted archive write leaves the
\* next commits unaffected.
NextCommitUnaffected ==
    \A k \in Archive :
        []<>(~HasWork(k) \/ \E r \in Entry : r[1] <= k /\ queue[r] = "stuck")
=============================================================================
