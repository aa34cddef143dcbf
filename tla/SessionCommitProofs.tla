------------------------- MODULE SessionCommitProofs -------------------------
(***************************************************************************)
(* The commits of a session for any number of messages, archives, copies,   *)
(* cancelled writes and faults: types, the safety properties of             *)
(* SessionCommit, and that it implements SessionLog.                        *)
(***************************************************************************)
EXTENDS SessionCommit, TLAPS

-----------------------------------------------------------------------------
(* The inductive invariant.  HasArchive and Kept hold whatever lands late; the *)
(* parts of Core hold until then.                                              *)

\* A commit that holds the lock has an archive, an archive that waits a predecessor.
HasArchive ==
    /\ c.pc # "idle" => c.k \in Archive
    /\ \A q \in Entry : wpc[q] = "pending" => q[1] - 1 \in Archive

\* What is known of messages that are not exposed to a cancelled write.
Kept ==
    /\ late # {} => root \subseteq exposed /\ (c.pc # "idle" => c.out \cup c.kept \subseteq exposed)
    /\ \A w \in late : /\ w.out \cup w.kept \subseteq exposed
                       /\ w.to = "raw" => arch[w.k].raw \subseteq exposed
    /\ c.pc \in {"persist", "enqueue", "rewrite"} => root \subseteq c.out \cup c.kept \cup exposed
    /\ c.pc \in {"enqueue", "rewrite"} \/ (c.pc = "persist" /\ "raw" \notin c.todo /\ c.ok) =>
           c.out \subseteq arch[c.k].raw \cup exposed
    /\ c.pc = "persist" /\ "raw" \in c.todo => arch[c.k].raw \subseteq exposed

\* The messages that leave the live file through archive k.
Leaving(k) == arch[k].out \ arch[k].kept

RootSent == root \subseteq 1..sent /\ \A k \in Archive : arch[k].out \cup arch[k].kept \subseteq 1..sent

\* Archives are numbered without gaps, and commit_count is the number of one.
Contiguous ==
    \A k \in Archive : /\ k <= count => Exists(k)
                       /\ Exists(k) => \A j \in 1..(k - 1) : Exists(j)

\* What holds while a commit has the session lock.
SnapshotOK ==
    c.pc # "idle" =>
        /\ c.k \in Archive /\ \A j \in 1..(c.k - 1) : Exists(j)
        /\ c.k \notin rejected /\ c.out \cup c.kept \subseteq 1..sent
        /\ arch[c.k].marker # "ready"
        /\ arch[c.k].marker # "none" => arch[c.k].out = c.out /\ arch[c.k].kept = c.kept
        /\ c.k \notin doubled
        /\ \A q \in Entry : q[1] = c.k /\ queue[q] # "none" =>
               q = <<c.k, 1>> /\ (wpc[q] = "recover" => ~arch[c.k].failed)
PhaseOK ==
    /\ c.pc \in {"persist", "enqueue", "rewrite"} =>
           root = c.out \cup c.kept /\ c.out \ c.kept # {}
    /\ c.pc \in {"persist", "enqueue"} => \A q \in Entry : q[1] = c.k => queue[q] = "none"
    /\ c.pc = "persist" =>
           /\ IF "raw" \in c.todo THEN arch[c.k].raw = {} ELSE c.ok => arch[c.k].raw = c.out
           /\ IF "marker" \in c.todo THEN arch[c.k].marker = "none"
                                     ELSE c.ok => arch[c.k].marker = "preparing"
    /\ c.pc \in {"enqueue", "rewrite", "meta", "ready"} =>
           arch[c.k].marker = "preparing" /\ arch[c.k].raw = c.out
    /\ c.pc \in {"meta", "ready"} => c.k \in applied

\* What the handlers and the markers of an archive tell about one another.
HandlerOK ==
    \A q \in Entry :
        /\ queue[q] # "none" => arch[q[1]].marker # "none"
        /\ wpc[q] # "none" => queue[q] = "running"
        /\ wpc[q] \in {"pred", "pending", "extract", "merge", "finish", "complete"} =>
               arch[q[1]].marker = "ready"
        /\ wpc[q] \in {"pred", "pending", "extract", "merge", "finish"} =>
               ~arch[q[1]].failed \/ q[1] \in doubled
        /\ wpc[q] = "recover" /\ arch[q[1]].marker = "ready" => ~arch[q[1]].failed \/ q[1] \in doubled
        /\ wpc[q] = "pending" => arch[q[1] - 1].marker = "ready"
MarkersOK ==
    \A k \in Archive :
        /\ arch[k].done => arch[k].marker = "ready"
        /\ k \in applied \cup rejected \cup doubled => arch[k].marker # "none"

\* Of two copies of a message one is about to be acknowledged, unless a crash or a
\* lost acknowledgement left both.
OneRuns ==
    \A q, r \in Entry :
        q # r /\ q[1] = r[1] /\ q[1] \notin doubled /\ queue[q] # "none" /\ queue[r] # "none"
            => wpc[q] = "ack" \/ wpc[r] = "ack"

\* Whether an interrupted commit rewrote the live file can be read off the ids
\* in it, for as long as no other commit rewrites it.
Readable ==
    \A k \in Archive \ overtaken :
        arch[k].marker = "preparing" /\ ~arch[k].failed =>
            IF k \in applied THEN Phase1Applied(k) ELSE Leaving(k) # {} /\ Leaving(k) \subseteq root
Decided ==
    \A k \in Archive \ overtaken :
        /\ arch[k].marker = "ready" => k \in applied
        /\ k \in rejected => k \notin applied

\* A message leaves the live file once and does not come back.
LeavesOnce ==
    /\ \A k \in applied : Leaving(k) \cap root = {}
    /\ \A j, k \in applied : j # k => Leaving(j) \cap Leaving(k) = {}

\* Every archive before k is terminal, or one between them failed.
Ordered(k) ==
    \A j \in 1..(k - 1) : Exists(j) /\ ~Terminal(j) => \E i \in (j + 1)..(k - 1) : arch[i].failed
InTurn ==
    /\ \A q \in Entry : wpc[q] \in {"extract", "merge", "finish", "complete"} => Ordered(q[1])
    /\ \A k \in Archive : arch[k].done => Ordered(k)

Core == /\ RootSent /\ Contiguous /\ SnapshotOK /\ PhaseOK /\ HandlerOK /\ MarkersOK /\ OneRuns
        /\ Readable /\ Decided /\ LeavesOnce /\ InTurn
IInv == /\ TypeOK /\ HasArchive /\ Kept /\ NothingLost
        /\ ~stray => Core

\* A state and a step that no late write has reached.
CInv == TypeOK /\ HasArchive /\ Core
Sound == [Next]_vars /\ ~stray'
-----------------------------------------------------------------------------
(* Types *)

\* The copies of an archive's message.
LEMMA EntryParts ==
    /\ \A q \in Entry : q[1] \in Archive /\ q[2] \in Copy /\ q = <<q[1], q[2]>>
    /\ \A k \in Archive, i \in Copy : <<k, i>> \in Entry /\ <<k, i>>[1] = k /\ <<k, i>>[2] = i
    /\ 1 \in Copy
  BY SessionAssumption DEF Entry, Copy

\* The initial state is well typed.
LEMMA TypeInit == Init => TypeOK /\ HasArchive
  <1> SUFFICES ASSUME Init PROVE TypeOK /\ HasArchive
    OBVIOUS
  <1> USE SessionAssumption
  <1>1. arch \in [Archive -> Dir]
    BY DEF Init, NoDir, Dir, Marker
  <1>2. c \in [pc : {"idle", "persist", "enqueue", "rewrite", "meta", "ready", "fail"},
               k : 0..MaxArchive, out : SUBSET Msg, kept : SUBSET Msg,
               todo : SUBSET Part, ok : BOOLEAN]
    BY DEF Init, NoCommit
  <1>3. queue \in [Entry -> {"none", "queued", "running", "stuck"}]
    BY DEF Init
  <1>4. /\ wpc \in [Entry -> {"none", "recover", "pred", "pending", "extract", "merge",
                            "finish", "complete", "ack"}]
        /\ \A q \in Entry : wpc[q] = "none"
    BY DEF Init
  <1>5. root \subseteq Msg /\ sent \in 0..MaxMsg /\ count \in 0..MaxArchive /\ faults \in 0..MaxFault
    BY DEF Init
  <1>6. late = {} /\ c.pc = "idle"
    BY DEF Init, NoCommit
  <1> QED
    BY <1>1, <1>2, <1>3, <1>4, <1>5, <1>6 DEF Init, TypeOK, HasArchive

\* The division of the live messages.
LEMMA SplitTypes ==
    ASSUME TypeOK, NEW s \in Splits
    PROVE  /\ s.out \subseteq root /\ s.kept \subseteq root /\ root = s.out \cup s.kept
  <1>1. PICK cut \in root, A \in {{}} \cup {{a} : a \in root} :
            s = [out |-> {m \in root : m <= cut}, kept |-> {m \in root : m > cut} \cup A]
    BY DEF Splits
  <1>2. A \subseteq root /\ \A m \in root : m <= cut \/ m > cut
    BY DEF TypeOK, Msg
  <1> QED
    BY <1>1, <1>2

\* What the writes to an archive directory leave of its type.
LEMMA DirTypes ==
    ASSUME NEW d \in Dir, NEW out \in SUBSET Msg, NEW kept \in SUBSET Msg
    PROVE  /\ [d EXCEPT !.raw = out] \in Dir
           /\ [d EXCEPT !.marker = "preparing", !.out = out, !.kept = kept] \in Dir
           /\ [d EXCEPT !.marker = "ready"] \in Dir
           /\ [d EXCEPT !.failed = TRUE] \in Dir
           /\ [d EXCEPT !.done = TRUE] \in Dir
  BY DEF Dir, Marker

\* Marking an archive failed keeps its type.
LEMMA FailType == ASSUME TypeOK, NEW j \in Archive, Fail(j) PROVE arch' \in [Archive -> Dir]
  BY DirTypes DEF Fail, TypeOK

\* _ensure_phase1_ready keeps the types of what it writes.
LEMMA EnsureReadyTypes ==
    ASSUME TypeOK, NEW j \in Archive, EnsureReady(j)
    PROVE  /\ arch' \in [Archive -> Dir] /\ count' \in 0..MaxArchive /\ rejected' \subseteq Archive
  <1>1. arch' \in [Archive -> Dir]
    BY DirTypes DEF EnsureReady, TypeOK
  <1> QED
    BY <1>1, SessionAssumption DEF EnsureReady, TypeOK, Counted, Archive

\* The writes a cancellation leaves behind are well typed.
LEMMA LateTypes ==
    ASSUME TypeOK, NEW S, LateWrites(S), S \subseteq Write, \A w \in S : w.to # "rewrite" => w.k \in Archive
    PROVE  /\ late' \subseteq Write /\ \A w \in late' : w.to # "rewrite" => w.k \in Archive
           /\ exposed' \subseteq Msg /\ stray' \in BOOLEAN
  BY DEF TypeOK, LateWrites

\* What a handler may be writing is well typed.
LEMMA HandlerWriteTypes ==
    ASSUME NEW q \in Entry
    PROVE  /\ HandlerWrites(q) \subseteq Write
           /\ \A w \in HandlerWrites(q) : w.k \in Archive /\ w.out = {} /\ w.kept = {} /\ w.to # "raw"
  <1>1. q[1] \in Archive /\ \A j \in {q[1] - 1, q[1]} \ {0} : j \in Archive /\ j \in 0..MaxArchive
    BY EntryParts, SessionAssumption DEF Archive
  <1> QED
    BY <1>1 DEF HandlerWrites, Write, Part

\* Storing a message once more keeps the types.
LEMMA RequeueTypes ==
    ASSUME TypeOK, NEW q \in Entry, Requeue(q)
    PROVE  /\ queue' \in [Entry -> {"none", "queued", "running", "stuck"}]
           /\ wpc' = [wpc EXCEPT ![q] = "ack"] \/ wpc' = [wpc EXCEPT ![q] = "none"]
  <1>1. \A i \in Copy : <<q[1], i>> \in Entry
    BY EntryParts
  <1> QED
    BY <1>1 DEF TypeOK, Requeue, Move

\* An archive that may not run has a predecessor.
LEMMA PredArchive ==
    ASSUME NEW k \in Archive, ~MayRun(k)
    PROVE  k - 1 \in Archive
  BY SessionAssumption DEF MayRun, Archive

\* Every step keeps the types.
LEMMA TypeStep == TypeOK /\ HasArchive /\ [Next]_vars => TypeOK' /\ HasArchive'
  <1> SUFFICES ASSUME TypeOK, HasArchive, [Next]_vars PROVE TypeOK' /\ HasArchive'
    OBVIOUS
  <1> USE SessionAssumption
  <1> DEFINE Places == {"none", "recover", "pred", "pending", "extract", "merge", "finish", "complete", "ack"}
  <1>w. wpc \in [Entry -> Places]
    BY DEF TypeOK
  <1>m. ASSUME NEW q \in Entry, NEW at \in Places, wpc' = [wpc EXCEPT ![q] = at],
               at = "pending" => q[1] - 1 \in Archive
        PROVE  /\ wpc' \in [Entry -> Places]
               /\ \A r \in Entry : wpc'[r] = "pending" => r[1] - 1 \in Archive
    BY <1>w, <1>m DEF HasArchive
  <1>1. CASE Append
    BY <1>1 DEF Append, TypeOK, HasArchive, history, Msg
  <1>2. CASE Commit
    <2>1. c' \in [pc : {"idle", "persist", "enqueue", "rewrite", "meta", "ready", "fail"},
                  k : 0..MaxArchive, out : SUBSET Msg, kept : SUBSET Msg,
                  todo : SUBSET Part, ok : BOOLEAN] /\ c'.k \in Archive
      BY <1>2, SplitTypes DEF Commit, TypeOK, Archive
    <2> QED
      BY <1>2, <2>1 DEF Commit, TypeOK, HasArchive, history, lateness
  <1>3. ASSUME NEW part \in Part, NEW ok \in BOOLEAN, Persist(part, ok) PROVE TypeOK' /\ HasArchive'
    <2>1. arch' \in [Archive -> Dir]
      BY <1>3, DirTypes DEF Persist, Written, TypeOK, HasArchive
    <2>2. c' \in [pc : {"idle", "persist", "enqueue", "rewrite", "meta", "ready", "fail"},
                  k : 0..MaxArchive, out : SUBSET Msg, kept : SUBSET Msg,
                  todo : SUBSET Part, ok : BOOLEAN] /\ c'.k = c.k
      BY <1>3 DEF Persist, Persisted, TypeOK
    <2>3. faults' \in 0..MaxFault
      BY <1>3 DEF Persist, Fault, TypeOK
    <2> QED
      BY <1>3, <2>1, <2>2, <2>3 DEF Persist, TypeOK, HasArchive, history, lateness
  <1>4. CASE Enqueue
    <2>1. c.k \in Archive
      BY <1>4 DEF Enqueue, HasArchive
    <2> QED
      BY <1>4, <2>1, EntryParts DEF Enqueue, TypeOK, HasArchive, history, lateness
  <1>5. CASE Rewrite
    <2>1. c.k \in Archive
      BY <1>5 DEF Rewrite, HasArchive
    <2> QED
      BY <1>5, <2>1 DEF Rewrite, RewriteRoot, TypeOK, HasArchive, history, lateness
  <1>6. CASE SaveMeta
    BY <1>6 DEF SaveMeta, Counted, TypeOK, HasArchive, history, lateness
  <1>7. CASE MarkReady
    <2>1. arch' \in [Archive -> Dir]
      BY <1>7, DirTypes DEF MarkReady, TypeOK
    <2> QED
      BY <1>7, <2>1 DEF MarkReady, NoCommit, TypeOK, HasArchive, history, lateness
  <1>8. ASSUME NEW ok \in BOOLEAN, MarkFailed(ok) PROVE TypeOK' /\ HasArchive'
    <2>1. arch' \in [Archive -> Dir]
      BY <1>8, DirTypes DEF MarkFailed, TypeOK
    <2> QED
      BY <1>8, <2>1 DEF MarkFailed, RootLeft, Fault, NoCommit, TypeOK, HasArchive, history, lateness
  <1>9. CASE StepFails
    BY <1>9 DEF StepFails, Fault, TypeOK, HasArchive, history, lateness
  <1>10. CASE Abandon
    <2> DEFINE S == {[to |-> x, k |-> c.k, out |-> c.out, kept |-> c.kept] :
                         x \in IF c.pc = "persist" THEN c.todo ELSE {c.pc}}
    <2>1. LateWrites(S) /\ c.k \in Archive
      BY <1>10 DEF Abandon, HasArchive, LockFree
    <2>2. S \subseteq Write /\ \A w \in S : w.k \in Archive
      <3>1. \A x \in IF c.pc = "persist" THEN c.todo ELSE {c.pc} :
                x \in Part \cup {"enqueue", "rewrite", "meta", "ready", "fail", "done"}
        BY <1>10 DEF Abandon, LockFree, TypeOK
      <3>2. c.k \in 0..MaxArchive /\ c.out \in SUBSET Msg /\ c.kept \in SUBSET Msg
        BY DEF TypeOK
      <3> QED
        BY <2>1, <3>1, <3>2 DEF Write
    <2>3. /\ late' \subseteq Write /\ \A w \in late' : w.to # "rewrite" => w.k \in Archive
          /\ exposed' \subseteq Msg /\ stray' \in BOOLEAN
      BY <2>1, <2>2, LateTypes
    <2> QED
      BY <1>10, <2>3 DEF Abandon, Fault, NoCommit, TypeOK, HasArchive, history
  <1>11. CASE AbandonAppend
    <2> DEFINE S == {[to |-> "rewrite", k |-> 0, out |-> {}, kept |-> root]}
    <2>1. LateWrites(S) /\ S \subseteq Write /\ \A w \in S : w.to = "rewrite"
      BY <1>11 DEF AbandonAppend, Write, TypeOK
    <2>2. /\ late' \subseteq Write /\ \A w \in late' : w.to # "rewrite" => w.k \in Archive
          /\ exposed' \subseteq Msg /\ stray' \in BOOLEAN
      BY <2>1, LateTypes
    <2> QED
      BY <1>11, <2>2 DEF AbandonAppend, Fault, TypeOK, HasArchive, history
  <1>12. ASSUME NEW w \in late, Land(w) PROVE TypeOK' /\ HasArchive'
    <2>1. /\ w.out \in SUBSET Msg /\ w.kept \in SUBSET Msg /\ w.k \in 0..MaxArchive
          /\ w.to # "rewrite" => w.k \in Archive
      BY <1>12 DEF TypeOK, Write
    <2>2. arch' \in [Archive -> Dir]
      <3>1. CASE w.to \notin Part \cup {"ready", "fail", "done"}
        BY <1>12, <3>1 DEF Land, TypeOK
      <3>2. CASE w.to \in Part \cup {"ready", "fail", "done"}
        <4>1. w.k \in Archive /\ arch[w.k] \in Dir
          BY <2>1, <3>2 DEF TypeOK, Part
        <4>2. Landed(w) \in Dir
          BY <2>1, <3>2, <4>1, DirTypes DEF Landed, Part
        <4> QED
          BY <1>12, <3>2, <4>1, <4>2 DEF Land, TypeOK
      <3> QED
        BY <3>1, <3>2
    <2>3. queue' \in [Entry -> {"none", "queued", "running", "stuck"}]
      <3>1. CASE w.to = "enqueue"
        <4>1. \A i \in Copy : <<w.k, i>> \in Entry
          BY <2>1, <3>1, EntryParts
        <4> QED
          BY <1>12, <3>1, <4>1 DEF Land, TypeOK
      <3>2. CASE w.to # "enqueue"
        BY <1>12, <3>2 DEF Land, TypeOK
      <3> QED
        BY <3>1, <3>2
    <2>4. root' \subseteq Msg /\ count' \in 0..MaxArchive
      BY <1>12, <2>1 DEF Land, TypeOK
    <2> QED
      BY <1>12, <2>2, <2>3, <2>4 DEF Land, TypeOK, HasArchive, history
  <1>13. CASE Crash
    BY <1>13 DEF Crash, Fault, NoCommit, TypeOK, HasArchive, history
  <1>14. ASSUME NEW q \in Entry, Deliver(q) \/ RunNext(q) \/ SeePending(q) \/ Ack(q)
         PROVE  TypeOK' /\ HasArchive'
    <2>1. \E at \in Places : wpc' = [wpc EXCEPT ![q] = at] /\ (at = "pending" => q[1] - 1 \in Archive)
      BY <1>14, PredArchive, EntryParts DEF Deliver, RunNext, SeePending, Ack, Move
    <2>2. queue' \in [Entry -> {"none", "queued", "running", "stuck"}]
      BY <1>14 DEF Deliver, RunNext, SeePending, Ack, TypeOK
    <2> QED
      BY <1>14, <1>m, <2>1, <2>2 DEF Deliver, RunNext, SeePending, Ack, TypeOK, HasArchive, history, lateness
  <1>15. ASSUME NEW q \in Entry, WaitForPredecessor(q) \/ WaitForWork(q) PROVE TypeOK' /\ HasArchive'
    <2>1. Requeue(q)
      BY <1>15 DEF WaitForPredecessor, WaitForWork
    <2>2. \E at \in Places : wpc' = [wpc EXCEPT ![q] = at] /\ at # "pending"
      BY <2>1, RequeueTypes
    <2> QED
      BY <1>15, <1>m, <2>1, <2>2, RequeueTypes
      DEF WaitForPredecessor, WaitForWork, TypeOK, HasArchive, history, lateness
  <1>16. ASSUME NEW q \in Entry, Recover(q) PROVE TypeOK' /\ HasArchive'
    <2>0. q[1] \in Archive
      BY EntryParts
    <2>1. \E at \in Places : wpc' = [wpc EXCEPT ![q] = at] /\ at # "pending"
      BY <1>16 DEF Recover, Move
    <2> QED
      BY <1>16, <1>m, <2>0, <2>1, EnsureReadyTypes DEF Recover, EnsureReady, TypeOK, HasArchive, lateness
  <1>17. ASSUME NEW q \in Entry, RecoverPredecessor(q) PROVE TypeOK' /\ HasArchive'
    <2>1. q[1] - 1 \in Archive
      BY <1>17, PredArchive, EntryParts DEF RecoverPredecessor
    <2>2. \E at \in Places : wpc' = [wpc EXCEPT ![q] = at] /\ at # "pending"
      BY <1>17, RequeueTypes DEF RecoverPredecessor, Move
    <2>3. queue' \in [Entry -> {"none", "queued", "running", "stuck"}]
      BY <1>17, RequeueTypes DEF RecoverPredecessor, TypeOK
    <2> QED
      BY <1>17, <1>m, <2>1, <2>2, <2>3, EnsureReadyTypes
      DEF RecoverPredecessor, EnsureReady, TypeOK, HasArchive, lateness
  <1>18. ASSUME NEW q \in Entry, SkipOrphan(q) \/ Extract(q) \/ ExtractFails(q) \/ CancelQueued(q) \/ CancelEarly(q)
         PROVE  TypeOK' /\ HasArchive'
    <2>0. (SkipOrphan(q) => q[1] - 1 \in Archive) /\ q[1] \in Archive
      BY EntryParts DEF SkipOrphan, HasArchive
    <2>1. arch' \in [Archive -> Dir]
      BY <1>18, <2>0, FailType DEF SkipOrphan, Extract, ExtractFails, CancelQueued, CancelEarly, TypeOK
    <2>2. \E at \in Places : wpc' = [wpc EXCEPT ![q] = at] /\ at # "pending"
      BY <1>18 DEF SkipOrphan, Extract, ExtractFails, CancelQueued, CancelEarly, Move
    <2>3. /\ faults' \in 0..MaxFault
          /\ queue' \in [Entry -> {"none", "queued", "running", "stuck"}]
      BY <1>18 DEF SkipOrphan, Extract, ExtractFails, CancelQueued, CancelEarly, Fault, TypeOK
    <2>4. /\ late' \subseteq Write /\ \A w \in late' : w.to # "rewrite" => w.k \in Archive
          /\ exposed' \subseteq Msg /\ stray' \in BOOLEAN
      <3>1. CASE LateWrites(HandlerWrites(q))
        BY <3>1, LateTypes, HandlerWriteTypes
      <3>2. CASE UNCHANGED lateness
        BY <3>2 DEF lateness, TypeOK
      <3> QED
        BY <1>18, <3>1, <3>2 DEF SkipOrphan, Extract, ExtractFails, CancelQueued, CancelEarly
    <2> QED
      BY <1>18, <1>m, <2>1, <2>2, <2>3, <2>4
      DEF SkipOrphan, Extract, ExtractFails, CancelQueued, CancelEarly, TypeOK, HasArchive, history
  <1>19. ASSUME NEW q \in Entry, MergeMeta(q) \/ WriteDone(q) \/ HandlerRaises(q) PROVE TypeOK' /\ HasArchive'
    <2>0. q[1] \in Archive /\ q[1] \in 0..MaxArchive
      BY EntryParts DEF Archive
    <2>1. arch' \in [Archive -> Dir]
      <3>1. [arch[q[1]] EXCEPT !.done = TRUE] \in Dir
        BY <2>0, DirTypes DEF TypeOK
      <3>2. [arch EXCEPT ![q[1]].done = TRUE] \in [Archive -> Dir]
        BY <2>0, <3>1 DEF TypeOK
      <3> QED
        BY <1>19, <3>2 DEF MergeMeta, WriteDone, HandlerRaises, TypeOK
    <2>2. \E at \in Places : wpc' = [wpc EXCEPT ![q] = at] /\ at # "pending"
      BY <1>19 DEF MergeMeta, WriteDone, HandlerRaises, Move
    <2>3. /\ faults' \in 0..MaxFault /\ count' \in 0..MaxArchive /\ doubled' \subseteq Archive
          /\ queue' \in [Entry -> {"none", "queued", "running", "stuck"}]
      BY <1>19, <2>0 DEF MergeMeta, WriteDone, HandlerRaises, Fault, Counted, TypeOK
    <2> QED
      BY <1>19, <1>m, <2>1, <2>2, <2>3 DEF MergeMeta, WriteDone, HandlerRaises, TypeOK, HasArchive, history, lateness
  <1>20. CASE UNCHANGED vars
    BY <1>20 DEF vars, TypeOK, HasArchive, history, lateness
  <1> QED
    BY <1>1, <1>2, <1>3, <1>4, <1>5, <1>6, <1>7, <1>8, <1>9, <1>10, <1>11, <1>12, <1>13, <1>14,
       <1>15, <1>16, <1>17, <1>18, <1>19, <1>20 DEF Next, CommitStep, HandlerStep

\* Every variable of the session keeps its type; commit_count never passes the
\* highest archive, whichever of phase 1, recovery and phase 2 writes it.
THEOREM SessionTypes == Spec => []TypeOK
  BY TypeInit, TypeStep, PTL DEF Spec
-----------------------------------------------------------------------------
(* What a step does to the archive directories *)

Persists == \E part \in Part, ok \in BOOLEAN : Persist(part, ok)

\* What the failed marker changes of the archives.
LEMMA FailEffect ==
    ASSUME TypeOK, NEW j \in Archive, arch' = [arch EXCEPT ![j].failed = TRUE]
    PROVE  /\ \A k \in Archive : k # j => arch'[k] = arch[k]
           /\ arch'[j].failed
           /\ \A k \in Archive : /\ arch'[k].marker = arch[k].marker /\ arch'[k].out = arch[k].out
                                 /\ arch'[k].kept = arch[k].kept /\ arch'[k].raw = arch[k].raw
                                 /\ arch'[k].done = arch[k].done
                                 /\ arch[k].failed => arch'[k].failed
  BY DEF TypeOK, Dir

\* What the ready marker changes of the archives.
LEMMA ReadyEffect ==
    ASSUME TypeOK, NEW j \in Archive, arch' = [arch EXCEPT ![j].marker = "ready"]
    PROVE  /\ \A k \in Archive : k # j => arch'[k] = arch[k]
           /\ arch'[j].marker = "ready"
           /\ \A k \in Archive : /\ arch'[k].out = arch[k].out /\ arch'[k].failed = arch[k].failed
                                 /\ arch'[k].kept = arch[k].kept /\ arch'[k].raw = arch[k].raw
                                 /\ arch'[k].done = arch[k].done
  BY DEF TypeOK, Dir

\* What the done marker changes of the archives.
LEMMA DoneEffect ==
    ASSUME TypeOK, NEW j \in Archive, arch' = [arch EXCEPT ![j].done = TRUE]
    PROVE  /\ \A k \in Archive : k # j => arch'[k] = arch[k]
           /\ arch'[j].done
           /\ \A k \in Archive : /\ arch'[k].marker = arch[k].marker /\ arch'[k].out = arch[k].out
                                 /\ arch'[k].kept = arch[k].kept /\ arch'[k].raw = arch[k].raw
                                 /\ arch'[k].failed = arch[k].failed
                                 /\ arch[k].done => arch'[k].done
  BY DEF TypeOK, Dir

\* What one of the two concurrent writes of phase 1 changes of the archives.
LEMMA PersistEffect ==
    ASSUME TypeOK, NEW part \in Part, NEW ok \in BOOLEAN, Persist(part, ok), c.k \in Archive
    PROVE  /\ \A k \in Archive : k # c.k => arch'[k] = arch[k]
           /\ arch'[c.k].done = arch[c.k].done /\ arch'[c.k].failed = arch[c.k].failed
           /\ IF part = "raw" /\ ok THEN arch'[c.k].raw = c.out
                                    ELSE arch'[c.k].raw = arch[c.k].raw
           /\ IF part = "marker" /\ ok
              THEN /\ arch'[c.k].marker = "preparing"
                   /\ arch'[c.k].out = c.out /\ arch'[c.k].kept = c.kept
              ELSE /\ arch'[c.k].marker = arch[c.k].marker
                   /\ arch'[c.k].out = arch[c.k].out /\ arch'[c.k].kept = arch[c.k].kept
  BY DEF Persist, Written, TypeOK, Dir, Part

\* The recovery settles a preparing archive of which nothing failed.
LEMMA EnsureEffect ==
    ASSUME TypeOK, NEW j \in Archive, EnsureReady(j)
    PROVE  \/ /\ arch[j].marker = "ready" \/ arch[j].failed
              /\ arch' = arch /\ count' = count /\ rejected' = rejected
           \/ /\ arch[j].marker # "ready" /\ ~arch[j].failed /\ HasWork(j) /\ Phase1Applied(j)
              /\ arch' = [arch EXCEPT ![j].marker = "ready"] /\ rejected' = rejected
              /\ count' = IF j > count THEN j ELSE count
           \/ /\ arch[j].marker # "ready" /\ ~arch[j].failed /\ ~(HasWork(j) /\ Phase1Applied(j))
              /\ arch' = [arch EXCEPT ![j].failed = TRUE] /\ count' = count
              /\ rejected' = IF HasWork(j) THEN rejected \cup {j} ELSE rejected
  BY DEF EnsureReady, Counted, TypeOK


\* The predecessor that a waiting handler looks at.
LEMMA Predecessor ==
    ASSUME HasArchive, NEW q \in Entry, RecoverPredecessor(q) \/ SeePending(q) \/ SkipOrphan(q)
    PROVE  q[1] \in Archive /\ q[1] - 1 \in Archive
  BY EntryParts, PredArchive DEF RecoverPredecessor, SeePending, SkipOrphan, HasArchive

\* The steps that do not touch an archive directory.
Quiet == /\ arch' = arch
         /\ \/ Append \/ Commit \/ Enqueue \/ Rewrite \/ SaveMeta \/ StepFails \/ Abandon \/ AbandonAppend \/ Crash
            \/ UNCHANGED vars
            \/ \E q \in Entry : \/ Deliver(q) \/ RunNext(q) \/ WaitForPredecessor(q) \/ SeePending(q)
                                \/ WaitForWork(q) \/ MergeMeta(q) \/ Ack(q) \/ CancelEarly(q) \/ HandlerRaises(q)

\* Every step is quiet, or one of those that write to an archive.
LEMMA Writers ==
    ASSUME [Next]_vars
    PROVE  \/ Quiet \/ Persists \/ MarkReady \/ \E ok \in BOOLEAN : MarkFailed(ok)
           \/ \E w \in late : Land(w)
           \/ \E q \in Entry : \/ Recover(q) \/ RecoverPredecessor(q) \/ SkipOrphan(q) \/ Extract(q)
                               \/ WriteDone(q) \/ ExtractFails(q) \/ CancelQueued(q)
  <1>1. CASE UNCHANGED vars
    BY <1>1 DEF Quiet, vars
  <1>2. CASE Append \/ Commit \/ Enqueue \/ Rewrite \/ SaveMeta \/ StepFails \/ Abandon \/ AbandonAppend \/ Crash
    BY <1>2 DEF Quiet, Append, Commit, Enqueue, Rewrite, SaveMeta, StepFails, Abandon, AbandonAppend, Crash
  <1>3. ASSUME NEW q \in Entry,
               \/ Deliver(q) \/ RunNext(q) \/ WaitForPredecessor(q) \/ SeePending(q)
               \/ WaitForWork(q) \/ MergeMeta(q) \/ Ack(q) \/ CancelEarly(q) \/ HandlerRaises(q)
        PROVE  Quiet
    BY <1>3 DEF Quiet, Deliver, RunNext, WaitForPredecessor, SeePending, WaitForWork, MergeMeta, Ack,
                CancelEarly, HandlerRaises
  <1> QED
    BY <1>1, <1>2, <1>3 DEF Next, CommitStep, HandlerStep, Persists

\* The archived messages are written by phase 1 alone, also when it was cancelled.
LEMMA RawFrame ==
    ASSUME TypeOK, HasArchive, [Next]_vars
    PROVE  \/ \A k \in Archive : arch'[k].raw = arch[k].raw
           \/ Persist("raw", TRUE)
           \/ \E w \in late : Land(w) /\ w.to = "raw"
  <1> DEFINE Same == \A k \in Archive : arch'[k].raw = arch[k].raw
  <1>a. ASSUME NEW j \in Archive, EnsureReady(j) PROVE Same
    BY <1>a, EnsureEffect, FailEffect, ReadyEffect
  <1>1. ASSUME NEW part \in Part, NEW ok \in BOOLEAN, Persist(part, ok) PROVE Same \/ Persist("raw", TRUE)
    <2>1. c.k \in Archive
      BY <1>1 DEF Persist, HasArchive
    <2> QED
      BY <1>1, <2>1, PersistEffect
  <1>2. CASE MarkReady
    <2>1. c.k \in Archive /\ arch' = [arch EXCEPT ![c.k].marker = "ready"]
      BY <1>2 DEF MarkReady, HasArchive
    <2> QED
      BY <2>1, ReadyEffect
  <1>3. ASSUME NEW ok \in BOOLEAN, MarkFailed(ok) PROVE Same
    <2>1. c.k \in Archive /\ (arch' = arch \/ arch' = [arch EXCEPT ![c.k].failed = TRUE])
      BY <1>3 DEF MarkFailed, HasArchive
    <2> QED
      BY <2>1, FailEffect
  <1>4. ASSUME NEW w \in late, Land(w), w.to # "raw" PROVE Same
    <2>1. CASE w.to \notin {"marker", "ready", "fail", "done"}
      BY <1>4, <2>1 DEF Land, Part
    <2>2. CASE w.to \in {"marker", "ready", "fail", "done"}
      <3>1. w.k \in Archive /\ arch[w.k] \in Dir /\ arch' = [arch EXCEPT ![w.k] = Landed(w)]
        BY <1>4, <2>2 DEF Land, TypeOK, Part
      <3>2. Landed(w).raw = arch[w.k].raw
        BY <2>2, <3>1 DEF Landed, Dir
      <3> QED
        BY <3>1, <3>2 DEF TypeOK
    <2> QED
      BY <1>4, <2>1, <2>2
  <1>5. ASSUME NEW q \in Entry, \/ Recover(q) \/ RecoverPredecessor(q) \/ SkipOrphan(q) \/ Extract(q)
                                \/ WriteDone(q) \/ ExtractFails(q) \/ CancelQueued(q)
        PROVE Same
    <2>1. q[1] \in Archive
      BY EntryParts
    <2>2. CASE Recover(q) \/ RecoverPredecessor(q)
      BY <1>a, <2>1, <2>2, Predecessor DEF Recover, RecoverPredecessor
    <2>3. CASE SkipOrphan(q)
      <3>1. q[1] - 1 \in Archive /\ arch' = [arch EXCEPT ![q[1] - 1].failed = TRUE]
        BY <2>3, Predecessor DEF SkipOrphan, Fail
      <3> QED
        BY <3>1, FailEffect
    <2>4. CASE WriteDone(q)
      BY <2>1, <2>4, DoneEffect DEF WriteDone
    <2>5. CASE Extract(q) \/ ExtractFails(q) \/ CancelQueued(q)
      BY <2>1, <2>5, FailEffect DEF Extract, ExtractFails, CancelQueued, Fail
    <2> QED
      BY <1>5, <2>2, <2>3, <2>4, <2>5
  <1>6. CASE Quiet
    BY <1>6 DEF Quiet
  <1> QED
    BY <1>1, <1>2, <1>3, <1>4, <1>5, <1>6, Writers DEF Persists
-----------------------------------------------------------------------------
(* No message is lost, whatever lands late *)

\* What every step keeps of the messages and of the writes that run on.
LEMMA KeptStep ==
    TypeOK /\ HasArchive /\ Kept /\ NothingLost /\ [Next]_vars => Kept' /\ NothingLost'
  <1> SUFFICES ASSUME TypeOK, HasArchive, Kept, NothingLost, [Next]_vars PROVE Kept' /\ NothingLost'
    OBVIOUS
  <1> DEFINE Same == \A k \in Archive : arch'[k].raw = arch[k].raw
  <1>0. /\ sent \in Nat /\ c.out \subseteq Msg /\ c.kept \subseteq Msg
        /\ c.pc # "idle" => c.k \in Archive
        /\ \A w \in late : w.to = "raw" => w.k \in Archive
    BY DEF TypeOK, HasArchive
  <1>f. /\ late # {} => root \subseteq exposed /\ (c.pc # "idle" => c.out \cup c.kept \subseteq exposed)
        /\ \A w \in late : /\ w.out \cup w.kept \subseteq exposed
                           /\ w.to = "raw" => arch[w.k].raw \subseteq exposed
        /\ c.pc \in {"persist", "enqueue", "rewrite"} => root \subseteq c.out \cup c.kept \cup exposed
        /\ c.pc \in {"enqueue", "rewrite"} \/ (c.pc = "persist" /\ "raw" \notin c.todo /\ c.ok) =>
               c.out \subseteq arch[c.k].raw \cup exposed
        /\ c.pc = "persist" /\ "raw" \in c.todo => arch[c.k].raw \subseteq exposed
    BY DEF Kept
  <1>a. ASSUME c' = c \/ c' = NoCommit, root' = root, sent' = sent, Same,
               (late' = late /\ exposed' = exposed) \/ (late' = {} /\ exposed' = exposed)
        PROVE  Kept' /\ NothingLost'
    <2>1. NothingLost'
      BY <1>a DEF NothingLost
    <2>w. /\ late' # {} => late # {}
          /\ \A w \in late' : /\ w.out \cup w.kept \subseteq exposed'
                              /\ w.to = "raw" => arch'[w.k].raw \subseteq exposed'
      BY <1>0, <1>f, <1>a
    <2>e. exposed' = exposed /\ (c.pc # "idle" => arch'[c.k].raw = arch[c.k].raw)
      BY <1>0, <1>a
    <2>r. root' = root /\ (late' # {} => root' \subseteq exposed')
      BY <1>f, <1>a, <2>w, <2>e
    <2>2. CASE c' = c
      BY <1>f, <2>1, <2>2, <2>w, <2>e, <2>r DEF Kept
    <2>3. CASE c' = NoCommit
      <3>1. c'.pc = "idle"
        BY <2>3 DEF NoCommit
      <3> QED
        BY <2>1, <3>1, <2>w, <2>r DEF Kept
    <2> QED
      BY <1>a, <2>1, <2>2, <2>3
  <1>b. ASSUME NEW S, LateWrites(S), c' = c \/ c' = NoCommit, root' = root, sent' = sent, Same,
               \A w \in S : /\ w.out \cup w.kept \subseteq root \cup c.out \cup c.kept
                            /\ w.to = "raw" => w.k \in Archive /\ arch[w.k].raw \subseteq exposed
        PROVE  Kept' /\ NothingLost'
    <2>1. PICK T \in SUBSET S : /\ late' = late \cup T
                                /\ exposed' = IF T = {} THEN exposed ELSE exposed \cup root \cup c.out \cup c.kept
      BY <1>b DEF LateWrites
    <2>2. CASE T = {}
      BY <1>a, <1>b, <2>1, <2>2
    <2>3. CASE T # {}
      <3>1. exposed' = exposed \cup root \cup c.out \cup c.kept
        BY <2>1, <2>3
      <3>2. \A w \in late' : /\ w.out \cup w.kept \subseteq exposed'
                             /\ w.to = "raw" => arch'[w.k].raw \subseteq exposed'
        BY <1>0, <1>f, <1>b, <2>1, <3>1
      <3>3. NothingLost'
        BY <1>b, <3>1 DEF NothingLost
      <3>4. CASE c' = c
        BY <1>0, <1>f, <1>b, <3>1, <3>2, <3>3, <3>4 DEF Kept
      <3>5. CASE c' = NoCommit
        <4>1. c'.pc = "idle"
          BY <3>5 DEF NoCommit
        <4> QED
          BY <1>b, <3>1, <3>2, <3>3, <4>1 DEF Kept
      <3> QED
        BY <1>b, <3>4, <3>5
    <2> QED
      BY <2>2, <2>3
  <1>1. CASE Append
    <2>1. /\ sent' = sent + 1 /\ root' = root \cup {sent + 1} /\ arch' = arch /\ c' = c /\ late' = late
          /\ exposed' = IF late = {} THEN exposed ELSE exposed \cup {sent + 1}
          /\ c.pc = "idle"
      BY <1>1 DEF Append, LockFree
    <2>2. NothingLost'
      <3>1. \A m \in 1..(sent + 1) : m \in 1..sent \/ m = sent + 1
        BY <1>0
      <3> QED
        BY <2>1, <3>1 DEF NothingLost
    <2> QED
      BY <1>f, <2>1, <2>2 DEF Kept
  <1>2. CASE Commit
    <2>1. PICK k \in Archive, s \in Splits :
            NextArchive(k) /\ c' = [pc |-> "persist", k |-> k, out |-> s.out, kept |-> s.kept,
                                    todo |-> Part, ok |-> TRUE]
      BY <1>2 DEF Commit
    <2>2. arch[k].raw = {} /\ root = s.out \cup s.kept
      BY <2>1, SplitTypes DEF NextArchive, Exists
    <2>3. c'.pc = "persist" /\ c'.k = k /\ c'.out = s.out /\ c'.kept = s.kept /\ "raw" \in c'.todo
      BY <2>1 DEF Part
    <2>4. root' = root /\ sent' = sent /\ arch' = arch /\ late' = late /\ exposed' = exposed
      BY <1>2 DEF Commit, lateness
    <2> QED
      BY <1>f, <2>2, <2>3, <2>4 DEF Kept, NothingLost
  <1>3. ASSUME NEW part \in Part, NEW ok \in BOOLEAN, Persist(part, ok) PROVE Kept' /\ NothingLost'
    <2>1. /\ c.pc = "persist" /\ c.k \in Archive /\ part \in c.todo /\ root' = root /\ sent' = sent
          /\ c'.k = c.k /\ c'.out = c.out /\ c'.kept = c.kept
          /\ c'.todo = c.todo \ {part} /\ c'.ok = (c.ok /\ ok)
          /\ c'.pc = Persisted(c.todo \ {part}, c.ok /\ ok) /\ late' = late /\ exposed' = exposed
      BY <1>0, <1>3 DEF Persist, TypeOK, lateness
    <2>2. CASE part = "raw" /\ ok
      <3>1. /\ arch'[c.k].raw = c.out /\ arch[c.k].raw \subseteq exposed
            /\ \A k \in Archive : k # c.k => arch'[k].raw = arch[k].raw
        BY <1>3, <1>f, <2>1, <2>2, PersistEffect
      <3>2. NothingLost'
        BY <2>1, <3>1 DEF NothingLost
      <3>3. \A w \in late' : /\ w.out \cup w.kept \subseteq exposed'
                             /\ w.to = "raw" => arch'[w.k].raw \subseteq exposed'
        BY <1>0, <1>f, <2>1, <3>1
      <3>4. "raw" \notin c'.todo /\ c'.pc \in {"persist", "enqueue", "fail"}
        BY <2>1, <2>2 DEF Persisted
      <3> QED
        BY <1>f, <2>1, <3>1, <3>2, <3>3, <3>4 DEF Kept
    <2>3. CASE ~(part = "raw" /\ ok)
      <3>1. Same
        BY <1>3, <2>1, <2>3, PersistEffect
      <3>2. NothingLost'
        BY <2>1, <3>1 DEF NothingLost
      <3>3. \A w \in late' : /\ w.out \cup w.kept \subseteq exposed'
                             /\ w.to = "raw" => arch'[w.k].raw \subseteq exposed'
        BY <1>0, <1>f, <2>1, <3>1
      <3>4. \/ c'.pc = "persist" \/ c'.pc = "fail"
            \/ c'.pc = "enqueue" /\ c'.todo = {} /\ c'.ok
        BY <2>1 DEF Persisted
      <3>5. "raw" \in c'.todo => "raw" \in c.todo
        BY <2>1
      <3>6. "raw" \notin c'.todo /\ c'.ok => "raw" \notin c.todo /\ c.ok
        BY <2>1, <2>3
      <3> QED
        BY <1>f, <2>1, <3>1, <3>2, <3>3, <3>4, <3>5, <3>6 DEF Kept
    <2> QED
      BY <2>2, <2>3
  <1>4. CASE Enqueue \/ SaveMeta \/ StepFails
    <2>1. /\ c'.k = c.k /\ c'.out = c.out /\ c'.kept = c.kept /\ arch' = arch
          /\ root' = root /\ sent' = sent /\ late' = late /\ exposed' = exposed
          /\ c.pc # "idle" /\ (c'.pc = "rewrite" => c.pc = "enqueue")
          /\ c'.pc \in {"rewrite", "ready", "fail"}
      BY <1>4 DEF Enqueue, SaveMeta, StepFails, lateness, TypeOK
    <2> QED
      BY <1>f, <2>1 DEF Kept, NothingLost
  <1>5. CASE Rewrite
    <2>1. /\ c'.k = c.k /\ c'.out = c.out /\ c'.kept = c.kept /\ arch' = arch
          /\ root' = c.kept /\ sent' = sent /\ late' = late /\ exposed' = exposed
          /\ c.pc = "rewrite" /\ c'.pc = "meta"
      BY <1>5 DEF Rewrite, RewriteRoot, lateness, TypeOK
    <2>2. NothingLost'
      BY <1>0, <1>f, <2>1 DEF NothingLost
    <2> QED
      BY <1>f, <2>1, <2>2 DEF Kept
  <1>6. CASE Abandon
    <2> DEFINE S == {[to |-> x, k |-> c.k, out |-> c.out, kept |-> c.kept] :
                         x \in IF c.pc = "persist" THEN c.todo ELSE {c.pc}}
    <2>1. LateWrites(S) /\ c.k \in Archive /\ c' = NoCommit /\ root' = root /\ sent' = sent /\ arch' = arch
      BY <1>0, <1>6 DEF Abandon, LockFree
    <2>2. c.pc # "raw"
      BY DEF TypeOK
    <2>3. \A w \in S : /\ w.out \cup w.kept \subseteq root \cup c.out \cup c.kept
                       /\ w.to = "raw" => w.k \in Archive /\ arch[w.k].raw \subseteq exposed
      BY <1>f, <2>1, <2>2
    <2> QED
      BY <1>b, <2>1, <2>3
  <1>7. CASE AbandonAppend
    <2> DEFINE S == {[to |-> "rewrite", k |-> 0, out |-> {}, kept |-> root]}
    <2>1. LateWrites(S) /\ c' = c /\ root' = root /\ sent' = sent /\ arch' = arch
      BY <1>7 DEF AbandonAppend
    <2>2. \A w \in S : /\ w.out \cup w.kept \subseteq root \cup c.out \cup c.kept
                       /\ w.to # "raw"
      OBVIOUS
    <2> QED
      BY <1>b, <2>1, <2>2
  <1>8. ASSUME NEW w \in late, Land(w) PROVE Kept' /\ NothingLost'
    <2>1. /\ late' = late \ {w} /\ exposed' = exposed /\ sent' = sent /\ c' = c
          /\ root' = IF w.to = "rewrite" THEN w.kept ELSE root
      BY <1>8 DEF Land
    <2>2. root \subseteq exposed /\ root' \subseteq exposed /\ w.out \subseteq exposed
      BY <1>f, <2>1
    <2>3. CASE Same
      <3>1. NothingLost'
        BY <2>1, <2>2, <2>3 DEF NothingLost
      <3> QED
        BY <1>0, <1>f, <2>1, <2>2, <2>3, <3>1 DEF Kept
    <2>4. CASE ~Same
      <3>0. w.to = "raw"
        <4>1. ~Persist("raw", TRUE)
          BY <1>8, <2>1 DEF Persist, lateness
        <4>2. PICK v \in late : Land(v) /\ v.to = "raw"
          BY <2>4, <4>1, RawFrame
        <4>3. late' = late \ {v}
          BY <4>2 DEF Land
        <4>4. v = w
          BY <2>1, <4>3
        <4> QED
          BY <4>2, <4>4
      <3>1. w.k \in Archive /\ arch[w.k] \in Dir /\ arch' = [arch EXCEPT ![w.k] = Landed(w)]
        BY <1>0, <1>8, <3>0 DEF Land, Part, TypeOK
      <3>2. /\ arch'[w.k].raw = w.out /\ arch[w.k].raw \subseteq exposed
            /\ \A k \in Archive : k # w.k => arch'[k].raw = arch[k].raw
        <4>1. Landed(w).raw = w.out
          BY <3>0, <3>1 DEF Landed, Dir
        <4> QED
          BY <1>f, <3>0, <3>1, <4>1 DEF TypeOK
      <3>3. NothingLost'
        BY <2>1, <2>2, <3>0, <3>2 DEF NothingLost
      <3>4. \A v \in late' : /\ v.out \cup v.kept \subseteq exposed'
                             /\ v.to = "raw" => arch'[v.k].raw \subseteq exposed'
        BY <1>0, <1>f, <2>1, <2>2, <3>2
      <3> QED
        BY <1>0, <1>f, <2>1, <2>2, <3>2, <3>3, <3>4 DEF Kept
    <2> QED
      BY <2>3, <2>4
  <1>9. ASSUME NEW q \in Entry, ExtractFails(q) \/ CancelEarly(q) PROVE Kept' /\ NothingLost'
    <2>1. LateWrites(HandlerWrites(q)) /\ c' = c /\ root' = root /\ sent' = sent
      BY <1>9 DEF ExtractFails, CancelEarly
    <2>2. Same
      <3>1. ~Persist("raw", TRUE)
        BY <1>9, <1>0 DEF Persist, ExtractFails, CancelEarly, Move, Fault, TypeOK
      <3>2. \A w \in late : ~Land(w)
        BY <1>9, <1>0 DEF Land, ExtractFails, CancelEarly, Fault, TypeOK
      <3> QED
        BY <3>1, <3>2, RawFrame
    <2> QED
      BY <1>b, <2>1, <2>2, HandlerWriteTypes
  <1>10. CASE MarkReady \/ (\E ok \in BOOLEAN : MarkFailed(ok)) \/ Crash \/ UNCHANGED vars
    <2>1. /\ c' = c \/ c' = NoCommit
          /\ root' = root /\ sent' = sent /\ exposed' = exposed /\ (late' = late \/ late' = {})
      BY <1>10 DEF MarkReady, MarkFailed, RootLeft, Crash, vars, lateness
    <2>2. ~Persist("raw", TRUE)
      <3>1. CASE Crash
        BY <3>1 DEF Crash, Persist, Fault, TypeOK
      <3>2. CASE UNCHANGED vars
        BY <3>2 DEF vars, Persist, TypeOK
      <3> QED
        BY <1>10, <3>1, <3>2 DEF Persist, MarkReady, MarkFailed
    <2>3. \A w \in late : ~Land(w)
      BY <1>10 DEF Land, MarkReady, MarkFailed, Crash, Fault, vars, lateness, TypeOK
    <2> QED
      BY <1>a, <2>1, <2>2, <2>3, RawFrame
  <1>11. ASSUME NEW q \in Entry, HandlerStep(q) \/ CancelQueued(q) \/ HandlerRaises(q) PROVE Kept' /\ NothingLost'
    <2>1. c' = c /\ root' = root /\ sent' = sent /\ exposed' = exposed /\ late' = late
      BY <1>11 DEF HandlerStep, Deliver, Recover, RunNext, WaitForPredecessor, RecoverPredecessor, SeePending,
                   WaitForWork, SkipOrphan, Extract, MergeMeta, WriteDone, Ack, CancelQueued, HandlerRaises,
                   EnsureReady, lateness
    <2>2. ~Persist("raw", TRUE)
      BY <2>1, <1>0 DEF Persist, TypeOK
    <2>3. \A w \in late : ~Land(w)
      BY <2>1 DEF Land
    <2> QED
      BY <1>a, <2>1, <2>2, <2>3, RawFrame
  <1> QED
    BY <1>1, <1>2, <1>3, <1>4, <1>5, <1>6, <1>7, <1>8, <1>9, <1>10, <1>11 DEF Next, CommitStep
-----------------------------------------------------------------------------
(* What a step does to the archive directories while nothing has landed late *)

\* A directory only gains: markers and messages are added, none is taken back, and
\* a new directory is that of the commit that holds the lock.  The messages and the
\* intent are written by Persist alone; while it has the
\* lock its directory is not made ready and only a cancelled message makes it fail.
Grows(k) ==
    /\ arch[k].done => arch'[k].done
    /\ arch[k].failed => arch'[k].failed
    /\ arch[k].raw # {} => arch'[k].raw = arch[k].raw
    /\ arch[k].marker # "none" =>
           arch'[k].marker # "none" /\ arch'[k].out = arch[k].out /\ arch'[k].kept = arch[k].kept
    /\ arch[k].marker = "ready" => arch'[k].marker = "ready"
    /\ Exists(k) => Exists(k)'
    /\ Exists(k)' => Exists(k) \/ (c.pc # "idle" /\ k = c.k)
    /\ \/ Persists /\ k = c.k
       \/ /\ arch'[k].out = arch[k].out /\ arch'[k].kept = arch[k].kept /\ arch'[k].raw = arch[k].raw
          /\ arch[k].marker = "none" => arch'[k].marker = "none"
    /\ c'.pc # "idle" /\ arch'[k].marker = "ready" => arch[k].marker = "ready"
    /\ c'.pc # "idle" /\ arch'[k].failed =>
           arch[k].failed \/ arch[k].marker = "ready" \/ \E q \in Entry : q[1] = k /\ CancelQueued(q)

\* A sound step is no late write.
LEMMA NoLand == Sound => [Next]_vars /\ \A w \in late : ~Land(w)
  BY DEF Sound, Land

\* No step takes back a marker, or changes what an archive holds once it is marked.
LEMMA ArchiveGrows == CInv /\ Sound => \A k \in Archive : Grows(k)
  <1> SUFFICES ASSUME CInv, Sound, NEW k \in Archive PROVE Grows(k)
    OBVIOUS
  <1>0. TypeOK /\ HasArchive /\ PhaseOK /\ HandlerOK /\ (c.pc # "idle" => c.k \in Archive)
    BY DEF CInv, Core, HasArchive
  <1>a. ASSUME NEW j \in Archive, arch' = [arch EXCEPT ![j].failed = TRUE],
               Exists(j) \/ (c.pc # "idle" /\ j = c.k),
               c'.pc = "idle" \/ arch[j].marker = "ready" \/ \E q \in Entry : q[1] = j /\ CancelQueued(q)
        PROVE  Grows(k)
    BY <1>0, <1>a, FailEffect DEF Grows, Exists
  <1>b. ASSUME NEW j \in Archive, arch' = [arch EXCEPT ![j].marker = "ready"],
               arch[j].marker # "none", c'.pc = "idle"
        PROVE  Grows(k)
    BY <1>0, <1>b, ReadyEffect DEF Grows, Exists
  <1>c. ASSUME NEW j \in Archive, EnsureReady(j), arch[j].marker # "none" PROVE Grows(k)
    <2>1. CASE arch' = arch
      BY <2>1 DEF Grows, Exists
    <2>2. c'.pc = "idle" /\ Exists(j)
      BY <1>c DEF EnsureReady, LockFree, Exists
    <2> QED
      BY <1>0, <1>a, <1>b, <1>c, <2>1, <2>2, EnsureEffect
  <1>d. CASE arch' = arch
    BY <1>d DEF Grows, Exists
  <1>1. ASSUME NEW part \in Part, NEW ok \in BOOLEAN, Persist(part, ok) PROVE Grows(k)
    <2>1. c.pc = "persist" /\ c.k \in Archive /\ part \in c.todo
      BY <1>0, <1>1 DEF Persist
    <2>2. /\ part = "raw" => arch[c.k].raw = {}
          /\ part = "marker" => arch[c.k].marker = "none"
      BY <1>0, <2>1 DEF PhaseOK
    <2> QED
      BY <1>0, <1>1, <2>1, <2>2, PersistEffect DEF Grows, Exists, Persists
  <1>2. CASE MarkReady
    <2>1. c.k \in Archive /\ arch[c.k].marker # "none" /\ c'.pc = "idle"
      BY <1>0, <1>2 DEF MarkReady, PhaseOK, NoCommit
    <2> QED
      BY <1>2, <1>b, <2>1 DEF MarkReady
  <1>3. ASSUME NEW ok \in BOOLEAN, MarkFailed(ok) PROVE Grows(k)
    <2>1. c'.pc = "idle"
      BY <1>3 DEF MarkFailed, NoCommit
    <2> QED
      BY <1>0, <1>3, <1>a, <1>d, <2>1 DEF MarkFailed
  <1>4. ASSUME NEW h \in Entry, Recover(h) PROVE Grows(k)
    <2>1. h[1] \in Archive /\ arch[h[1]].marker # "none"
      BY <1>0, <1>4, EntryParts DEF Recover, HandlerOK
    <2> QED
      BY <1>4, <1>c, <2>1 DEF Recover
  <1>5. ASSUME NEW h \in Entry, RecoverPredecessor(h) PROVE Grows(k)
    BY <1>0, <1>5, <1>c, Predecessor DEF RecoverPredecessor
  <1>6. ASSUME NEW h \in Entry, SkipOrphan(h) PROVE Grows(k)
    <2>1. h[1] - 1 \in Archive /\ arch[h[1] - 1].marker = "ready"
      BY <1>0, <1>6, Predecessor DEF SkipOrphan, HandlerOK
    <2> QED
      BY <1>6, <1>a, <2>1 DEF SkipOrphan, Fail, Exists
  <1>7. ASSUME NEW h \in Entry, Extract(h) \/ ExtractFails(h) \/ CancelQueued(h) PROVE Grows(k)
    <2>1. h[1] \in Archive /\ Exists(h[1]) /\ (arch[h[1]].marker = "ready" \/ CancelQueued(h))
      BY <1>0, <1>7, EntryParts DEF Extract, ExtractFails, CancelQueued, HandlerOK, Exists
    <2> QED
      BY <1>7, <1>a, <1>d, <2>1 DEF Extract, ExtractFails, CancelQueued, Fail
  <1>8. ASSUME NEW h \in Entry, WriteDone(h) PROVE Grows(k)
    <2>1. h[1] \in Archive /\ arch' = [arch EXCEPT ![h[1]].done = TRUE]
      BY <1>8, EntryParts DEF WriteDone
    <2> QED
      BY <1>0, <2>1, DoneEffect DEF Grows, Exists
  <1> QED
    BY <1>d, <1>1, <1>2, <1>3, <1>4, <1>5, <1>6, <1>7, <1>8, NoLand, Writers DEF Persists, Quiet
-----------------------------------------------------------------------------
(* Which steps change what *)

\* Which steps change the live file, the history, the count and the commit.
LEMMA Frame ==
    ASSUME Sound
    PROVE  /\ (root' = root /\ sent' = sent) \/ Append \/ Rewrite
           /\ (applied' = applied /\ overtaken' = overtaken) \/ Rewrite
           /\ count' = count \/ SaveMeta
                \/ \E q \in Entry : Recover(q) \/ RecoverPredecessor(q) \/ MergeMeta(q)
           /\ rejected' = rejected \/ \E q \in Entry : Recover(q) \/ RecoverPredecessor(q)
           /\ c' = c \/ Commit \/ Persists \/ Enqueue \/ Rewrite \/ SaveMeta \/ StepFails \/ c' = NoCommit
           /\ doubled' = doubled \/ Crash \/ \E q \in Entry : HandlerRaises(q)
  <1> DEFINE Goal ==
           /\ (root' = root /\ sent' = sent) \/ Append \/ Rewrite
           /\ (applied' = applied /\ overtaken' = overtaken) \/ Rewrite
           /\ count' = count \/ SaveMeta
                \/ \E q \in Entry : Recover(q) \/ RecoverPredecessor(q) \/ MergeMeta(q)
           /\ rejected' = rejected \/ \E q \in Entry : Recover(q) \/ RecoverPredecessor(q)
           /\ c' = c \/ Commit \/ Persists \/ Enqueue \/ Rewrite \/ SaveMeta \/ StepFails \/ c' = NoCommit
           /\ doubled' = doubled \/ Crash \/ \E q \in Entry : HandlerRaises(q)
  <1> SUFFICES Goal
    OBVIOUS
  <1>1. CASE UNCHANGED vars
    BY <1>1 DEF vars, history
  <1>2. CASE Append \/ Commit \/ CommitStep \/ StepFails \/ Abandon \/ AbandonAppend \/ Crash
    BY <1>2 DEF CommitStep, Persists, Persist, Append, Commit, Enqueue, Rewrite, SaveMeta,
                MarkReady, MarkFailed, RootLeft, StepFails, Abandon, AbandonAppend, Crash, history
  <1>3. ASSUME NEW q \in Entry, Recover(q) \/ RecoverPredecessor(q) PROVE Goal
    BY <1>3 DEF Recover, RecoverPredecessor, EnsureReady
  <1>4. ASSUME NEW q \in Entry, \/ HandlerStep(q) /\ ~Recover(q) /\ ~RecoverPredecessor(q)
                                \/ ExtractFails(q) \/ CancelEarly(q) \/ CancelQueued(q) \/ HandlerRaises(q)
        PROVE  Goal
    BY <1>4 DEF HandlerStep, Deliver, RunNext, WaitForPredecessor, SeePending, WaitForWork, SkipOrphan,
                Extract, MergeMeta, WriteDone, Ack, ExtractFails, CancelEarly, CancelQueued, HandlerRaises, history
  <1> QED
    BY <1>1, <1>2, <1>3, <1>4, NoLand DEF Next, HandlerStep

\* The recovery of an archive, by its own handler or by that of the next one.
LEMMA Recovers ==
    ASSUME CInv, NEW q \in Entry, Recover(q) \/ RecoverPredecessor(q)
    PROVE  \E j \in Archive : EnsureReady(j) /\ arch[j].marker # "none" /\ (j = q[1] \/ j = q[1] - 1)
  <1>1. CASE Recover(q)
    BY <1>1, EntryParts DEF Recover, CInv, Core, HandlerOK
  <1>2. CASE RecoverPredecessor(q)
    BY <1>2, Predecessor DEF RecoverPredecessor, CInv
  <1> QED
    BY <1>1, <1>2

\* The places of a handler: what moves it, other than to its end.
LEMMA Moves ==
    ASSUME TypeOK, Sound, NEW q \in Entry
    PROVE  \/ wpc'[q] = wpc[q] \/ wpc'[q] \in {"none", "ack"}
           \/ Deliver(q) \/ Recover(q) \/ RunNext(q) \/ SeePending(q) \/ SkipOrphan(q) \/ RecoverPredecessor(q)
           \/ Extract(q) \/ MergeMeta(q) \/ WriteDone(q)
  <1>1. ASSUME NEW h \in Entry, h # q,
               HandlerStep(h) \/ ExtractFails(h) \/ CancelEarly(h) \/ CancelQueued(h) \/ HandlerRaises(h)
        PROVE  wpc'[q] = wpc[q]
    BY <1>1 DEF HandlerStep, Deliver, Recover, RunNext, WaitForPredecessor, Requeue, SeePending, WaitForWork,
                SkipOrphan, RecoverPredecessor, Extract, MergeMeta, WriteDone, Ack, ExtractFails, CancelEarly,
                CancelQueued, HandlerRaises, Move, TypeOK
  <1>2. CASE \/ WaitForPredecessor(q) \/ WaitForWork(q) \/ Ack(q) \/ ExtractFails(q) \/ CancelEarly(q)
             \/ CancelQueued(q) \/ HandlerRaises(q) \/ Crash
    BY <1>2 DEF WaitForPredecessor, WaitForWork, Requeue, Ack, ExtractFails, CancelEarly, CancelQueued,
                HandlerRaises, Crash, Move, TypeOK
  <1>3. CASE Append \/ Commit \/ CommitStep \/ StepFails \/ Abandon \/ AbandonAppend \/ UNCHANGED vars
    BY <1>3 DEF Append, Commit, CommitStep, Persist, Enqueue, Rewrite, SaveMeta, MarkReady, MarkFailed,
                StepFails, Abandon, AbandonAppend, vars
  <1> QED
    BY <1>1, <1>2, <1>3, NoLand DEF Next, HandlerStep

\* Where the steps of a handler take it.
LEMMA MovesTo ==
    ASSUME TypeOK, NEW q \in Entry
    PROVE  /\ Deliver(q) => wpc'[q] \in {"ack", "recover", "pred"}
           /\ Recover(q) => wpc[q] = "recover" /\ wpc'[q] \in {"ack", "pred"}
           /\ RecoverPredecessor(q) => wpc[q] = "pred" /\ wpc'[q] \in {"ack", "none", "extract"}
           /\ RunNext(q) => wpc[q] = "pred" /\ wpc'[q] = "extract"
           /\ SeePending(q) => wpc[q] = "pred" /\ wpc'[q] = "pending"
           /\ SkipOrphan(q) => wpc[q] = "pending" /\ wpc'[q] = "extract"
           /\ Extract(q) => wpc[q] = "extract" /\ wpc'[q] \in {"ack", "merge"}
           /\ MergeMeta(q) => wpc[q] = "merge" /\ wpc'[q] = "finish"
           /\ WriteDone(q) => wpc[q] = "finish" /\ wpc'[q] = "complete"
  <1>0. \A at : Move(q, at) => wpc'[q] = at
    BY DEF Move, TypeOK
  <1>1. RecoverPredecessor(q) => wpc[q] = "pred" /\ wpc'[q] \in {"ack", "none", "extract"}
    <2> SUFFICES ASSUME RecoverPredecessor(q) PROVE wpc[q] = "pred" /\ wpc'[q] \in {"ack", "none", "extract"}
      OBVIOUS
    <2>1. \E at \in {"ack", "none", "extract"} : wpc' = [wpc EXCEPT ![q] = at]
      BY RequeueTypes DEF RecoverPredecessor, Move
    <2> QED
      BY <2>1 DEF TypeOK, RecoverPredecessor
  <1> QED
    BY <1>0, <1>1 DEF Deliver, Recover, RunNext, SeePending, SkipOrphan, Extract, MergeMeta, WriteDone

\* A handler stores the message of its archive once more, in place q.
Stores(r, q) ==
    /\ r[1] = q[1] /\ r # q /\ queue[q] = "none" /\ wpc[r] \in {"pred", "pending"}
    /\ queue' = [queue EXCEPT ![q] = "queued"] /\ wpc' = [wpc EXCEPT ![r] = "ack"]

\* A message is stored by the commit or by a handler of the archive; a handler has
\* the message it runs for.
LEMMA Delivered ==
    ASSUME CInv, Sound, NEW q \in Entry
    PROVE  /\ queue'[q] # "none" =>
                 \/ queue[q] # "none" \/ (Enqueue /\ q = <<c.k, 1>>) \/ \E r \in Entry : Stores(r, q)
           /\ wpc'[q] # "none" => queue'[q] = "running" /\ queue[q] # "none"
  <1>0. TypeOK /\ HasArchive /\ \A r \in Entry : wpc[r] # "none" => queue[r] = "running"
    BY DEF CInv, Core, HandlerOK
  <1> DEFINE Goal == /\ queue'[q] # "none" =>
                            \/ queue[q] # "none" \/ (Enqueue /\ q = <<c.k, 1>>) \/ \E r \in Entry : Stores(r, q)
                     /\ wpc'[q] # "none" => queue'[q] = "running" /\ queue[q] # "none"
  <1> SUFFICES Goal
    OBVIOUS
  <1>1. CASE queue'[q] = queue[q] /\ wpc'[q] = wpc[q]
    BY <1>0, <1>1
  <1>2. CASE Enqueue
    <2>1. c.k \in Archive /\ <<c.k, 1>> \in Entry /\ <<c.k, 1>>[1] = c.k
      BY <1>0, <1>2, EntryParts DEF Enqueue, HasArchive
    <2>2. wpc' = wpc /\ c.pc = "enqueue" /\ queue' = [queue EXCEPT ![<<c.k, 1>>] = "queued"]
      BY <1>2 DEF Enqueue
    <2>3. queue[<<c.k, 1>>] = "none"
      BY <2>1, <2>2 DEF CInv, Core, PhaseOK
    <2>4. wpc[<<c.k, 1>>] = "none"
      BY <1>0, <2>1, <2>3
    <2> QED
      BY <1>0, <1>1, <1>2, <2>1, <2>2, <2>3, <2>4 DEF TypeOK
  <1>3. CASE Crash
    BY <1>0, <1>3 DEF Crash, TypeOK
  <1>4. ASSUME NEW h \in Entry, Requeue(h), wpc[h] \in {"pred", "pending"} PROVE Goal
    <2>1. queue[h] = "running"
      BY <1>0, <1>4
    <2>2. CASE \A i \in Copy : queue[<<h[1], i>>] # "none"
      <3>1. queue' = [queue EXCEPT ![h] = "queued"] /\ wpc' = [wpc EXCEPT ![h] = "none"]
        BY <1>4, <2>2 DEF Requeue, Move
      <3> QED
        BY <1>0, <1>1, <2>1, <3>1 DEF TypeOK
    <2>3. CASE ~\A i \in Copy : queue[<<h[1], i>>] # "none"
      <3>1. PICK i \in Copy : /\ queue[<<h[1], i>>] = "none"
                              /\ queue' = [queue EXCEPT ![<<h[1], i>>] = "queued"] /\ wpc' = [wpc EXCEPT ![h] = "ack"]
        BY <1>4, <2>3 DEF Requeue, Move
      <3>2. PICK e \in Entry : e = <<h[1], i>> /\ e[1] = h[1] /\ e # h
        BY <2>1, <3>1, EntryParts
      <3>3. queue[e] = "none" /\ queue' = [queue EXCEPT ![e] = "queued"] /\ wpc[e] = "none"
        BY <1>0, <3>1, <3>2
      <3>4. CASE q = e
        <4>1. Stores(h, q)
          BY <1>4, <3>1, <3>2, <3>3, <3>4 DEF Stores
        <4>2. wpc'[q] = "none"
          BY <1>0, <3>1, <3>2, <3>3, <3>4 DEF TypeOK
        <4> QED
          BY <4>1, <4>2
      <3>5. CASE q = h
        BY <1>0, <2>1, <3>1, <3>2, <3>3, <3>5 DEF TypeOK
      <3>6. CASE q # e /\ q # h
        BY <1>0, <1>1, <3>1, <3>3, <3>6 DEF TypeOK
      <3> QED
        BY <3>4, <3>5, <3>6
    <2> QED
      BY <2>2, <2>3
  <1>5. ASSUME NEW h \in Entry, WaitForPredecessor(h) \/ WaitForWork(h) \/ RecoverPredecessor(h) PROVE Goal
    <2>1. CASE Requeue(h)
      BY <1>4, <1>5, <2>1 DEF WaitForPredecessor, WaitForWork, RecoverPredecessor
    <2>2. CASE ~Requeue(h)
      <3>1. queue' = queue /\ wpc' = [wpc EXCEPT ![h] = "extract"] /\ wpc[h] # "none"
        BY <1>5, <2>2 DEF WaitForPredecessor, WaitForWork, RecoverPredecessor, Move
      <3> QED
        BY <1>0, <1>1, <3>1 DEF TypeOK
    <2> QED
      BY <2>1, <2>2
  <1>6. ASSUME NEW h \in Entry,
               \/ Deliver(h) \/ Recover(h) \/ RunNext(h) \/ SeePending(h) \/ SkipOrphan(h)
               \/ Extract(h) \/ MergeMeta(h) \/ WriteDone(h) \/ Ack(h)
               \/ ExtractFails(h) \/ CancelEarly(h) \/ CancelQueued(h) \/ HandlerRaises(h)
        PROVE  Goal
    <2>1. CASE h # q
      BY <1>0, <1>1, <1>6, <2>1
      DEF Deliver, Recover, RunNext, SeePending, SkipOrphan, Extract, MergeMeta, WriteDone, Ack, ExtractFails,
          CancelEarly, CancelQueued, HandlerRaises, Move, TypeOK
    <2>2. CASE h = q
      BY <1>0, <1>6, <2>2
      DEF Deliver, Recover, RunNext, SeePending, SkipOrphan, Extract, MergeMeta, WriteDone, Ack, ExtractFails,
          CancelEarly, CancelQueued, HandlerRaises, Move, TypeOK
    <2> QED
      BY <2>1, <2>2
  <1>7. CASE \/ Append \/ Commit \/ Persists \/ Rewrite \/ SaveMeta \/ MarkReady \/ StepFails \/ Abandon
             \/ AbandonAppend \/ UNCHANGED vars \/ \E ok \in BOOLEAN : MarkFailed(ok)
    BY <1>1, <1>7 DEF Append, Commit, Persists, Persist, Rewrite, SaveMeta, MarkReady, MarkFailed,
        StepFails, Abandon, AbandonAppend, vars
  <1> QED
    BY <1>2, <1>3, <1>5, <1>6, <1>7, NoLand DEF Next, CommitStep, HandlerStep, Persists
-----------------------------------------------------------------------------
(* Preservation, one part of the invariant after the other *)

\* Every step keeps RootSent: files hold only messages that were sent.
LEMMA RootSentStep == CInv /\ Sound => RootSent'
  <1> SUFFICES ASSUME CInv, Sound PROVE RootSent'
    OBVIOUS
  <1>0. /\ TypeOK /\ RootSent /\ \A k \in Archive : Grows(k)
        /\ c.pc # "idle" => c.k \in Archive /\ c.out \cup c.kept \subseteq 1..sent
    BY ArchiveGrows DEF CInv, Core, SnapshotOK
  <1>1. CASE Append
    BY <1>0, <1>1 DEF Append, RootSent, TypeOK
  <1>2. CASE Rewrite
    BY <1>0, <1>2 DEF Rewrite, RewriteRoot, RootSent
  <1>3. ASSUME NEW part \in Part, NEW ok \in BOOLEAN, Persist(part, ok) PROVE RootSent'
    <2>1. c.k \in Archive /\ c.out \cup c.kept \subseteq 1..sent
      BY <1>0, <1>3 DEF Persist
    <2>2. \A k \in Archive : arch'[k].out \cup arch'[k].kept \subseteq 1..sent
      BY <1>0, <1>3, <2>1, PersistEffect DEF RootSent
    <2> QED
      BY <1>0, <1>3, <2>2 DEF Persist, RootSent
  <1>4. CASE ~Persists /\ root' = root /\ sent' = sent
    BY <1>0, <1>4 DEF Grows, RootSent
  <1> QED
    BY <1>1, <1>2, <1>3, <1>4, Frame DEF Persists

\* A commit numbers its archive after the last one.
LEMMA NumberedNext ==
    ASSUME CInv, NEW k \in Archive, NextArchive(k)
    PROVE  \A j \in 1..(k - 1) : Exists(j)
  BY SessionAssumption DEF CInv, Core, TypeOK, Contiguous, NextArchive, Archive

\* Counting up to an existing archive leaves no gap below the count.
LEMMA CountedKeeps ==
    ASSUME CInv, NEW n \in Archive, Exists(n), count' = IF n > count THEN n ELSE count
    PROVE  \A k \in Archive : k <= count' => Exists(k)
  BY SessionAssumption DEF CInv, Core, TypeOK, Contiguous, Archive

\* Every step keeps the archives contiguous.
LEMMA ContiguousStep == CInv /\ Sound => Contiguous'
  <1> SUFFICES ASSUME CInv, Sound PROVE Contiguous'
    OBVIOUS
  <1>0. TypeOK /\ Contiguous /\ \A k \in Archive : Grows(k)
    BY ArchiveGrows DEF CInv, Core
  <1>1. \A k \in Archive : k <= count' => Exists(k)
    <2>1. CASE SaveMeta
      BY <2>1, CountedKeeps DEF SaveMeta, Counted, CInv, Core, SnapshotOK, PhaseOK, Exists
    <2>2. ASSUME NEW q \in Entry, MergeMeta(q) PROVE \A i \in Archive : i <= count' => Exists(i)
      BY <2>2, CountedKeeps, EntryParts DEF MergeMeta, Counted, CInv, Core, HandlerOK, Exists
    <2>3. ASSUME NEW q \in Entry, Recover(q) \/ RecoverPredecessor(q)
          PROVE  \A i \in Archive : i <= count' => Exists(i)
      <3>1. PICK j \in Archive : EnsureReady(j) /\ arch[j].marker # "none"
        BY <2>3, Recovers
      <3>2. count' = count \/ count' = IF j > count THEN j ELSE count
        BY <1>0, <3>1, EnsureEffect
      <3> QED
        BY <1>0, <3>1, <3>2, CountedKeeps DEF Contiguous, Exists
    <2>4. CASE count' = count
      BY <1>0, <2>4 DEF Contiguous
    <2> QED
      BY <2>1, <2>2, <2>3, <2>4, Frame
  <1>2. \A k \in Archive : Exists(k)' => \A j \in 1..(k - 1) : Exists(j)
    <2>1. c.pc # "idle" => \A j \in 1..(c.k - 1) : Exists(j)
      BY DEF CInv, Core, SnapshotOK
    <2> QED
      BY <1>0, <2>1 DEF Grows, Contiguous
  <1>3. \A k \in Archive : \A j \in 1..(k - 1) : j \in Archive
    BY SessionAssumption DEF Archive
  <1>4. \A k \in Archive : Exists(k) => Exists(k)'
    BY <1>0 DEF Grows
  <1> QED
    BY <1>1, <1>2, <1>3, <1>4 DEF Contiguous

\* Every step keeps what holds while a commit has the lock.
LEMMA SnapshotStep == CInv /\ Sound => SnapshotOK'
  <1> SUFFICES ASSUME CInv, Sound, c'.pc # "idle" PROVE SnapshotOK'
    BY DEF SnapshotOK
  <1>0. /\ TypeOK /\ RootSent /\ HandlerOK /\ MarkersOK /\ TypeOK' /\ HasArchive /\ HasArchive'
        /\ \A k \in Archive : Grows(k) /\ (Exists(k) => Exists(k)')
    BY ArchiveGrows, TypeStep DEF CInv, Core, Sound, Grows
  <1>a. \A k \in Archive : \A j \in 1..(k - 1) : j \in Archive
    BY SessionAssumption DEF Archive
  <1>1. CASE Commit
    <2>1. PICK k \in Archive, s \in Splits :
            NextArchive(k) /\ c' = [pc |-> "persist", k |-> k, out |-> s.out, kept |-> s.kept,
                                    todo |-> Part, ok |-> TRUE]
      BY <1>1 DEF Commit
    <2>2. arch[k].marker = "none" /\ k \notin rejected /\ k \notin doubled
      BY <1>0, <2>1 DEF NextArchive, Exists, MarkersOK
    <2>7. \A q \in Entry : q[1] = k => queue[q] = "none"
      BY <1>0, <2>2 DEF HandlerOK
    <2>3. s.out \cup s.kept \subseteq 1..sent
      BY <1>0, SplitTypes DEF RootSent
    <2>4. \A j \in 1..(k - 1) : Exists(j)
      BY <2>1, NumberedNext
    <2>5. arch' = arch /\ queue' = queue /\ rejected' = rejected /\ sent' = sent /\ doubled' = doubled
      BY <1>1 DEF Commit, history
    <2>6. c'.k = k /\ c'.out = s.out /\ c'.kept = s.kept
      BY <2>1
    <2> QED
      BY <2>2, <2>3, <2>4, <2>5, <2>6, <2>7 DEF SnapshotOK, Exists
  <1>2. CASE ~Commit
    <2>1. c.pc # "idle" /\ c'.k = c.k /\ c'.out = c.out /\ c'.kept = c.kept
      <3>1. CASE Persists
        BY <1>0, <3>1 DEF Persists, Persist, TypeOK
      <3>2. CASE Enqueue \/ Rewrite \/ SaveMeta \/ StepFails
        BY <1>0, <3>2 DEF Enqueue, Rewrite, SaveMeta, StepFails, TypeOK
      <3>3. c' # NoCommit
        BY DEF NoCommit
      <3> QED
        BY <1>2, <3>1, <3>2, <3>3, Frame
    <2>2. /\ c.k \in Archive /\ \A j \in 1..(c.k - 1) : Exists(j)
          /\ c.k \notin rejected /\ c.out \cup c.kept \subseteq 1..sent
          /\ arch[c.k].marker # "ready"
          /\ arch[c.k].marker # "none" => arch[c.k].out = c.out /\ arch[c.k].kept = c.kept
          /\ c.k \notin doubled
          /\ \A q \in Entry : q[1] = c.k /\ queue[q] # "none" =>
                 q = <<c.k, 1>> /\ (wpc[q] = "recover" => ~arch[c.k].failed)
      BY <2>1 DEF CInv, Core, SnapshotOK
    <2>3. \A j \in 1..(c.k - 1) : Exists(j)'
      BY <1>0, <1>a, <2>2
    <2>4. rejected' = rejected /\ sent' = sent
      BY <2>1, Frame DEF Append, Rewrite, Recover, RecoverPredecessor, EnsureReady, LockFree
    <2>5. arch'[c.k].marker # "ready"
      BY <1>0, <2>2 DEF Grows
    <2>6. arch'[c.k].marker # "none" => arch'[c.k].out = c.out /\ arch'[c.k].kept = c.kept
      <3>1. CASE Persists
        BY <1>0, <2>2, <3>1, PersistEffect DEF Persists
      <3>2. CASE ~Persists
        BY <1>0, <2>2, <3>2 DEF Grows
      <3> QED
        BY <3>1, <3>2
    <2>7. c.k \notin doubled'
      <3>1. ~Crash
        BY DEF Crash, NoCommit
      <3>2. ASSUME NEW q \in Entry, HandlerRaises(q), q[1] = c.k PROVE Copies(q[1]) = {q}
        <4>1. queue[q] # "none"
          BY <1>0, <3>2 DEF HandlerRaises, HandlerOK
        <4> QED
          BY <2>2, <3>2, <4>1 DEF Copies
      <3> QED
        BY <2>2, <3>1, <3>2, Frame DEF HandlerRaises
    <2>8. ASSUME NEW q \in Entry, q[1] = c.k, queue'[q] # "none"
          PROVE  q = <<c.k, 1>> /\ (wpc'[q] = "recover" => ~arch'[c.k].failed)
      <3>1. q = <<c.k, 1>>
        <4>1. \A r \in Entry : ~Stores(r, q)
          BY <1>0, <2>2, <2>8 DEF Stores, HandlerOK
        <4> QED
          BY <2>2, <2>8, <4>1, Delivered
      <3>2. ASSUME wpc'[q] = "recover", arch'[c.k].failed PROVE FALSE
        <4>1. queue[q] # "none"
          BY <3>2, Delivered
        <4>2. ASSUME NEW r \in Entry, r[1] = c.k, CancelQueued(r) PROVE FALSE
          <5>1. queue[r] # "none"
            BY <4>2 DEF CancelQueued
          <5>2. r = q
            BY <2>2, <3>1, <4>2, <5>1
          <5> QED
            BY <1>0, <3>2, <4>2, <5>2 DEF CancelQueued, Move, TypeOK
        <4>3. arch[c.k].failed
          BY <1>0, <2>2, <3>2, <4>2 DEF Grows
        <4>4. wpc[q] # "recover"
          BY <2>2, <2>8, <4>1, <4>3
        <4>5. ~Deliver(q)
          BY <1>0, <2>8, <3>2, <4>3 DEF Deliver, Move, Terminal, TypeOK
        <4> QED
          BY <1>0, <3>2, <4>4, <4>5, Moves, MovesTo
      <3> QED
        BY <3>1, <3>2
    <2> QED
      BY <2>1, <2>2, <2>3, <2>4, <2>5, <2>6, <2>7, <2>8 DEF SnapshotOK
  <1> QED
    BY <1>1, <1>2

\* What makes an archive ready, failed or done.
ReadyCause(k) ==
    \/ MarkReady /\ k = c.k
    \/ EnsureReady(k) /\ arch[k].marker # "none" /\ ~arch[k].failed /\ HasWork(k) /\ Phase1Applied(k)
FailCause(k) ==
    \/ c.pc = "fail" /\ k = c.k /\ arch'[k].marker = arch[k].marker
    \/ arch[k].marker = "preparing" /\ arch'[k].marker = "preparing"
    \/ ~HasWork(k)
    \/ \E r \in Entry : /\ r[1] = k /\ queue[r] # "none" /\ wpc[r] # "ack"
                        /\ wpc' = [wpc EXCEPT ![r] = "ack"]

\* A marker that appears was written by one of the steps that may write it.
LEMMA Causes ==
    ASSUME CInv, Sound, NEW k \in Archive
    PROVE  /\ arch'[k].marker = "ready" /\ arch[k].marker # "ready" => ReadyCause(k)
           /\ arch'[k].failed /\ ~arch[k].failed => FailCause(k)
           /\ arch'[k].done /\ ~arch[k].done => \E q \in Entry : q[1] = k /\ WriteDone(q)
  <1> DEFINE Goal == /\ arch'[k].marker = "ready" /\ arch[k].marker # "ready" => ReadyCause(k)
                     /\ arch'[k].failed /\ ~arch[k].failed => FailCause(k)
                     /\ arch'[k].done /\ ~arch[k].done => \E q \in Entry : q[1] = k /\ WriteDone(q)
  <1> SUFFICES Goal
    OBVIOUS
  <1>0. TypeOK /\ HasArchive /\ HandlerOK /\ (c.pc # "idle" => c.k \in Archive)
    BY DEF CInv, Core, HasArchive
  <1>1. CASE arch'[k] = arch[k]
    BY <1>1
  <1>2. ASSUME NEW part \in Part, NEW ok \in BOOLEAN, Persist(part, ok) PROVE Goal
    <2>1. c.k \in Archive
      BY <1>0, <1>2 DEF Persist
    <2> QED
      BY <1>0, <1>2, <2>1, PersistEffect
  <1>3. CASE MarkReady
    <2>1. c.k \in Archive /\ arch' = [arch EXCEPT ![c.k].marker = "ready"]
      BY <1>0, <1>3 DEF MarkReady
    <2> QED
      BY <1>0, <1>3, <2>1, ReadyEffect DEF ReadyCause
  <1>4. ASSUME NEW ok \in BOOLEAN, MarkFailed(ok) PROVE Goal
    <2>1. /\ c.pc = "fail" /\ c.k \in Archive
          /\ arch' = [arch EXCEPT ![c.k].failed = TRUE] \/ arch' = arch
      BY <1>0, <1>4 DEF MarkFailed
    <2> QED
      BY <1>0, <1>1, <2>1, FailEffect DEF FailCause
  <1>5. ASSUME NEW h \in Entry, Recover(h) \/ RecoverPredecessor(h) PROVE Goal
    <2>1. PICK j \in Archive : EnsureReady(j) /\ arch[j].marker # "none"
      BY <1>5, Recovers
    <2>2. CASE arch' = arch
      BY <1>1, <2>2
    <2>3. CASE arch' = [arch EXCEPT ![j].marker = "ready"] /\ ~arch[j].failed /\ HasWork(j) /\ Phase1Applied(j)
      BY <1>0, <2>1, <2>3, ReadyEffect DEF ReadyCause
    <2>4. CASE arch' = [arch EXCEPT ![j].failed = TRUE] /\ arch[j].marker # "ready"
      <3>1. arch[j].marker = "preparing"
        BY <1>0, <2>1, <2>4 DEF TypeOK, Dir, Marker
      <3> QED
        BY <1>0, <2>1, <2>4, <3>1, FailEffect DEF FailCause
    <2> QED
      BY <1>0, <2>1, <2>2, <2>3, <2>4, EnsureEffect
  <1>6. ASSUME NEW h \in Entry, SkipOrphan(h) PROVE Goal
    <2>1. /\ h[1] - 1 \in Archive /\ arch' = [arch EXCEPT ![h[1] - 1].failed = TRUE] /\ ~HasWork(h[1] - 1)
      BY <1>0, <1>6, Predecessor DEF SkipOrphan, Fail, Orphan
    <2> QED
      BY <1>0, <2>1, FailEffect DEF FailCause
  <1>7. ASSUME NEW h \in Entry, Extract(h) \/ ExtractFails(h) \/ CancelQueued(h) PROVE Goal
    <2>1. h[1] \in Archive /\ (CancelQueued(h) => wpc[h] # "ack")
      BY <1>0, EntryParts DEF CancelQueued, HandlerOK
    <2>2. \/ arch' = arch
          \/ /\ arch' = [arch EXCEPT ![h[1]].failed = TRUE] /\ wpc' = [wpc EXCEPT ![h] = "ack"]
             /\ queue[h] # "none" /\ wpc[h] # "ack"
      BY <1>0, <1>7, <2>1 DEF Extract, ExtractFails, CancelQueued, Fail, Move, HandlerOK
    <2> QED
      BY <1>0, <1>1, <2>1, <2>2, FailEffect DEF FailCause
  <1>8. ASSUME NEW h \in Entry, WriteDone(h) PROVE Goal
    <2>1. h[1] \in Archive /\ arch' = [arch EXCEPT ![h[1]].done = TRUE]
      BY <1>8, EntryParts DEF WriteDone
    <2> QED
      BY <1>0, <1>8, <2>1, DoneEffect
  <1>9. CASE arch' = arch
    BY <1>1, <1>9
  <1> QED
    BY <1>2, <1>3, <1>4, <1>5, <1>6, <1>7, <1>8, <1>9, NoLand, Writers DEF Quiet, Persists

\* Every step keeps what each stage of phase 1 has written.
LEMMA PhaseStep == CInv /\ Sound => PhaseOK'
  <1> SUFFICES ASSUME CInv, Sound PROVE PhaseOK'
    OBVIOUS
  <1>0. /\ TypeOK /\ TypeOK' /\ SnapshotOK /\ PhaseOK /\ HandlerOK /\ \A k \in Archive : Grows(k)
        /\ c.pc # "idle" => c.k \in Archive
    BY ArchiveGrows, TypeStep DEF CInv, Core, HasArchive, Sound
  <1>1. CASE Commit
    <2>1. PICK k \in Archive, s \in Splits :
            /\ NextArchive(k) /\ SplitOK(s)
            /\ c' = [pc |-> "persist", k |-> k, out |-> s.out, kept |-> s.kept, todo |-> Part, ok |-> TRUE]
      BY <1>1 DEF Commit
    <2>2. arch' = arch /\ root' = root /\ arch[k].marker = "none" /\ arch[k].raw = {}
          /\ \A q \in Entry : q[1] = k => queue'[q] = "none"
      BY <1>0, <1>1, <2>1 DEF Commit, NextArchive, Exists, HandlerOK
    <2>3. root = s.out \cup s.kept
      BY <1>0, SplitTypes
    <2>4. s.out \ s.kept # {}
      <3>1. \E m \in s.out : m \in s.out
        BY <1>0 DEF Splits, TypeOK, Msg
      <3> QED
        BY <2>1, <3>1 DEF SplitOK
    <2>5. c'.pc = "persist" /\ c'.k = k /\ c'.out = s.out /\ c'.kept = s.kept /\ c'.todo = Part
      BY <2>1
    <2> QED
      BY <2>2, <2>3, <2>4, <2>5 DEF PhaseOK, Part
  <1>2. ASSUME NEW part \in Part, NEW ok \in BOOLEAN, Persist(part, ok) PROVE PhaseOK'
    <2>1. /\ c.pc = "persist" /\ c.k \in Archive /\ part \in c.todo /\ root' = root
          /\ c'.k = c.k /\ c'.out = c.out /\ c'.kept = c.kept
          /\ c'.todo = c.todo \ {part} /\ c'.ok = (c.ok /\ ok)
          /\ c'.pc = Persisted(c.todo \ {part}, c.ok /\ ok) /\ queue' = queue
      BY <1>0, <1>2 DEF Persist, TypeOK
    <2>2. root' = c'.out \cup c'.kept /\ c'.out \ c'.kept # {} /\ \A q \in Entry : q[1] = c.k => queue'[q] = "none"
      BY <1>0, <2>1 DEF PhaseOK
    <2>3. IF "raw" \in c'.todo THEN arch'[c.k].raw = {} ELSE c'.ok => arch'[c.k].raw = c.out
      BY <1>0, <1>2, <2>1, PersistEffect DEF PhaseOK, TypeOK
    <2>4. IF "marker" \in c'.todo THEN arch'[c.k].marker = "none"
                                  ELSE c'.ok => arch'[c.k].marker = "preparing"
      BY <1>0, <1>2, <2>1, PersistEffect DEF PhaseOK, TypeOK
    <2>5. c'.pc \in {"persist", "fail"} \/ (c'.pc = "enqueue" /\ c'.todo = {} /\ c'.ok)
      BY <2>1 DEF Persisted
    <2> QED
      BY <2>1, <2>2, <2>3, <2>4, <2>5 DEF PhaseOK
  <1>3. CASE Enqueue
    BY <1>0, <1>3 DEF Enqueue, PhaseOK, TypeOK
  <1>4. CASE Rewrite
    BY <1>0, <1>4 DEF Rewrite, PhaseOK, TypeOK
  <1>5. CASE SaveMeta
    BY <1>0, <1>5 DEF SaveMeta, PhaseOK, TypeOK, history
  <1>6. CASE StepFails
    BY <1>0, <1>6 DEF StepFails, PhaseOK, TypeOK
  <1>7. CASE c' = NoCommit
    BY <1>7 DEF NoCommit, PhaseOK
  <1>8. CASE c' = c /\ c.pc # "idle" /\ ~Persists
    <2>1. root' = root /\ applied' = applied
      BY <1>0, <1>8, Frame DEF Append, Rewrite, LockFree, TypeOK
    <2>3. c.pc \in {"persist", "enqueue"} => \A q \in Entry : q[1] = c.k => queue'[q] = "none"
      <3> SUFFICES ASSUME c.pc \in {"persist", "enqueue"}, NEW q \in Entry, q[1] = c.k PROVE queue'[q] = "none"
        OBVIOUS
      <3>1. ~Enqueue
        BY <1>0, <1>8 DEF Enqueue, TypeOK
      <3>2. queue[q] = "none" /\ \A r \in Entry : r[1] = c.k => wpc[r] = "none"
        BY <1>0 DEF PhaseOK, HandlerOK
      <3>3. \A r \in Entry : ~Stores(r, q)
        BY <3>2 DEF Stores
      <3> QED
        BY <3>1, <3>2, <3>3, Delivered
    <2>2. arch'[c.k].raw = arch[c.k].raw /\ arch'[c.k].marker = arch[c.k].marker
      <3>1. arch'[c.k].marker # "ready" /\ arch[c.k].marker # "ready"
        BY <1>0, <1>8 DEF Grows, SnapshotOK
      <3> QED
        BY <1>0, <1>8, <3>1 DEF Grows, TypeOK, Dir, Marker
    <2> QED
      BY <1>0, <1>8, <2>1, <2>2, <2>3 DEF PhaseOK
  <1>9. CASE c' = c /\ c.pc = "idle"
    BY <1>9 DEF PhaseOK
  <1> QED
    BY <1>1, <1>2, <1>3, <1>4, <1>5, <1>6, <1>7, <1>8, <1>9, Frame DEF Persists

\* The archives with two handlers stay marked as such.
LEMMA DoubledGrows == Sound => doubled \subseteq doubled'
  <1> SUFFICES ASSUME Sound PROVE doubled \subseteq doubled'
    OBVIOUS
  <1>1. CASE Crash
    BY <1>1 DEF Crash
  <1>2. ASSUME NEW q \in Entry, HandlerRaises(q) PROVE doubled \subseteq doubled'
    BY <1>2 DEF HandlerRaises
  <1> QED
    BY <1>1, <1>2, Frame

\* An archive of one running handler fails by that handler's own step only.
LEMMA OwnFailure ==
    ASSUME CInv, Sound, NEW q \in Entry, ~arch[q[1]].failed, arch'[q[1]].failed,
           q[1] \notin doubled', arch'[q[1]].marker = "ready", wpc'[q] \notin {"none", "ack"}
    PROVE  FALSE
  <1>1. q[1] \in Archive /\ queue[q] # "none" /\ q[1] \notin doubled
    BY Delivered, EntryParts, DoubledGrows
  <1>2. FailCause(q[1])
    BY <1>1, Causes
  <1>3. HasWork(q[1])
    BY <1>1 DEF HasWork, Copies
  <1>4. ~(c.pc = "fail" /\ q[1] = c.k /\ arch'[q[1]].marker = arch[q[1]].marker)
    BY DEF CInv, Core, SnapshotOK
  <1>5. PICK r \in Entry : /\ r[1] = q[1] /\ queue[r] # "none" /\ wpc[r] # "ack"
                           /\ wpc' = [wpc EXCEPT ![r] = "ack"]
    BY <1>2, <1>3, <1>4 DEF FailCause
  <1>6. r # q /\ wpc'[q] = wpc[q]
    BY <1>5 DEF CInv, TypeOK
  <1> QED
    BY <1>1, <1>5, <1>6 DEF CInv, Core, OneRuns

\* Every step keeps handlers and markers consistent.
LEMMA HandlerStepKeeps == CInv /\ Sound => HandlerOK'
  <1> SUFFICES ASSUME CInv, Sound, NEW q \in Entry
               PROVE  /\ queue'[q] # "none" => arch'[q[1]].marker # "none"
                      /\ wpc'[q] # "none" => queue'[q] = "running"
                      /\ wpc'[q] \in {"pred", "pending", "extract", "merge", "finish", "complete"} =>
                             arch'[q[1]].marker = "ready"
                      /\ wpc'[q] \in {"pred", "pending", "extract", "merge", "finish"} =>
                             ~arch'[q[1]].failed \/ q[1] \in doubled'
                      /\ wpc'[q] = "recover" /\ arch'[q[1]].marker = "ready" =>
                             ~arch'[q[1]].failed \/ q[1] \in doubled'
                      /\ wpc'[q] = "pending" => arch'[q[1] - 1].marker = "ready"
    BY DEF HandlerOK
  <1>k. q[1] \in Archive /\ doubled \subseteq doubled'
    BY EntryParts, DoubledGrows
  <1>0. /\ TypeOK /\ HasArchive /\ TypeOK' /\ SnapshotOK /\ PhaseOK /\ HandlerOK /\ Grows(q[1])
        /\ c.pc # "idle" => c.k \in Archive
        /\ queue[q] # "none" => arch[q[1]].marker # "none"
        /\ wpc[q] # "none" => queue[q] = "running"
        /\ wpc[q] \in {"pred", "pending", "extract", "merge", "finish", "complete"} => arch[q[1]].marker = "ready"
        /\ wpc[q] \in {"pred", "pending", "extract", "merge", "finish"} => ~arch[q[1]].failed \/ q[1] \in doubled
        /\ wpc[q] = "recover" /\ arch[q[1]].marker = "ready" => ~arch[q[1]].failed \/ q[1] \in doubled
        /\ wpc[q] = "pending" => arch[q[1] - 1].marker = "ready"
    BY <1>k, ArchiveGrows, TypeStep DEF CInv, Core, HasArchive, HandlerOK, Sound
  <1>1. queue'[q] # "none" => arch'[q[1]].marker # "none"
    <2>1. CASE queue[q] # "none"
      BY <1>0, <2>1 DEF Grows
    <2>2. CASE Enqueue /\ q = <<c.k, 1>>
      <3>1. q[1] = c.k
        BY <2>2
      <3> QED
        BY <1>0, <2>2, <3>1 DEF Enqueue, PhaseOK
    <2>3. ASSUME NEW r \in Entry, Stores(r, q) PROVE arch'[q[1]].marker # "none"
      BY <1>0, <2>3 DEF Stores, HandlerOK, Grows
    <2> QED
      BY <2>1, <2>2, <2>3, Delivered
  <1>2. wpc'[q] # "none" => queue'[q] = "running"
    BY Delivered
  <1>3. wpc'[q] \in {"pred", "pending", "extract", "merge", "finish", "complete"} => arch'[q[1]].marker = "ready"
    <2>1. CASE Deliver(q)
      BY <1>0, <1>k, <2>1 DEF Deliver, Move, TypeOK, Dir, Marker
    <2>2. CASE Recover(q)
      BY <1>0, <2>2 DEF Recover, Move, TypeOK
    <2>3. CASE \/ RunNext(q) \/ SeePending(q) \/ SkipOrphan(q) \/ RecoverPredecessor(q) \/ Extract(q)
               \/ MergeMeta(q) \/ WriteDone(q)
      <3>1. arch[q[1]].marker = "ready"
        BY <1>0, <2>3 DEF RunNext, SeePending, SkipOrphan, RecoverPredecessor, Extract, MergeMeta, WriteDone
      <3> QED
        BY <1>0, <3>1 DEF Grows
    <2>4. CASE wpc'[q] = wpc[q] \/ wpc'[q] \in {"none", "ack"}
      BY <1>0, <2>4 DEF Grows
    <2> QED
      BY <1>0, <2>1, <2>2, <2>3, <2>4, Moves
  <1>4. wpc'[q] \in {"pred", "pending", "extract", "merge", "finish"} => ~arch'[q[1]].failed \/ q[1] \in doubled'
    <2> SUFFICES ASSUME wpc'[q] \in {"pred", "pending", "extract", "merge", "finish"}, arch'[q[1]].failed,
                        q[1] \notin doubled'
                 PROVE  FALSE
      OBVIOUS
    <2>1. arch'[q[1]].marker = "ready"
      BY <1>3
    <2>2. CASE arch[q[1]].failed
      <3>1. wpc[q] \notin {"pred", "pending", "extract", "merge", "finish"} /\ ~Deliver(q)
        BY <1>0, <1>k, <2>2 DEF Deliver, Move, Terminal, TypeOK
      <3>2. CASE Recover(q)
        <4>1. wpc[q] = "recover" /\ EnsureReady(q[1]) /\ arch[q[1]].marker # "ready"
          BY <1>0, <1>k, <2>2, <3>2 DEF Recover
        <4> QED
          BY <1>0, <1>k, <2>1, <2>2, <4>1, EnsureEffect
      <3>3. /\ ~RunNext(q) /\ ~SeePending(q) /\ ~SkipOrphan(q) /\ ~RecoverPredecessor(q) /\ ~Extract(q)
            /\ ~MergeMeta(q) /\ ~WriteDone(q)
        BY <3>1 DEF RunNext, SeePending, SkipOrphan, RecoverPredecessor, Extract, MergeMeta, WriteDone
      <3> QED
        BY <1>0, <3>1, <3>2, <3>3, Moves
    <2>3. CASE ~arch[q[1]].failed
      BY <2>1, <2>3, OwnFailure
    <2> QED
      BY <2>2, <2>3
  <1>5. wpc'[q] = "recover" /\ arch'[q[1]].marker = "ready" => ~arch'[q[1]].failed \/ q[1] \in doubled'
    <2> SUFFICES ASSUME wpc'[q] = "recover", arch'[q[1]].marker = "ready", arch'[q[1]].failed, q[1] \notin doubled'
                 PROVE  FALSE
      OBVIOUS
    <2>1. CASE Deliver(q)
      BY <1>0, <2>1 DEF Deliver, Move, TypeOK
    <2>2. CASE wpc[q] = "recover"
      <3>1. CASE arch[q[1]].failed
        <4>1. arch[q[1]].marker # "ready" /\ queue[q] # "none"
          BY <1>0, <1>k, <2>2, <3>1
        <4>2. MarkReady /\ q[1] = c.k
          BY <1>k, <3>1, <4>1, Causes DEF ReadyCause
        <4> QED
          BY <1>0, <2>2, <3>1, <4>1, <4>2 DEF MarkReady, SnapshotOK
      <3>2. CASE ~arch[q[1]].failed
        BY <3>2, OwnFailure
      <3> QED
        BY <3>1, <3>2
    <2> QED
      BY <1>0, <2>1, <2>2, Moves, MovesTo
  <1>6. wpc'[q] = "pending" => arch'[q[1] - 1].marker = "ready"
    <2> SUFFICES ASSUME wpc'[q] = "pending" PROVE arch'[q[1] - 1].marker = "ready"
      OBVIOUS
    <2>1. CASE wpc[q] = "pending"
      <3>1. q[1] - 1 \in Archive /\ arch[q[1] - 1].marker = "ready"
        BY <1>0, <2>1 DEF HasArchive
      <3> QED
        BY <3>1, ArchiveGrows DEF Grows
    <2>2. CASE SeePending(q)
      BY <2>2 DEF SeePending
    <2> QED
      BY <1>0, <2>1, <2>2, Moves, MovesTo
  <1> QED
    BY <1>1, <1>2, <1>3, <1>4, <1>5, <1>6

\* Every step keeps the markers of the archives that have a history.
LEMMA MarkersStep == CInv /\ Sound => MarkersOK'
  <1> SUFFICES ASSUME CInv, Sound, NEW k \in Archive
               PROVE  /\ arch'[k].done => arch'[k].marker = "ready"
                      /\ k \in applied' \cup rejected' \cup doubled' => arch'[k].marker # "none"
    BY DEF MarkersOK
  <1>0. /\ TypeOK /\ PhaseOK /\ HandlerOK /\ Grows(k)
        /\ arch[k].done => arch[k].marker = "ready"
        /\ k \in applied \cup rejected \cup doubled => arch[k].marker # "none"
    BY ArchiveGrows DEF CInv, Core, MarkersOK
  <1>1. arch'[k].done => arch'[k].marker = "ready"
    <2>1. ASSUME NEW q \in Entry, q[1] = k, WriteDone(q) PROVE arch[k].marker = "ready"
      BY <1>0, <2>1 DEF WriteDone, HandlerOK
    <2> QED
      BY <1>0, <2>1, Causes DEF Grows
  <1>2. k \in applied' \cup rejected' \cup doubled' => arch'[k].marker # "none"
    <2>1. CASE k \in applied \cup rejected \cup doubled
      BY <1>0, <2>1 DEF Grows
    <2>2. CASE Rewrite /\ k = c.k
      BY <1>0, <2>2 DEF Rewrite, PhaseOK, Grows
    <2>3. ASSUME NEW h \in Entry, Recover(h) \/ RecoverPredecessor(h), k \in rejected' \ rejected
          PROVE  arch'[k].marker # "none"
      <3>1. PICK j \in Archive : EnsureReady(j) /\ arch[j].marker # "none"
        BY <2>3, Recovers
      <3>2. k = j
        BY <1>0, <2>3, <3>1, EnsureEffect
      <3> QED
        BY <1>0, <3>1, <3>2 DEF Grows
    <2>4. k \in applied' \ applied => Rewrite /\ k = c.k
      BY Frame DEF Rewrite
    <2>5. ASSUME k \in doubled' \ doubled PROVE arch'[k].marker # "none"
      <3>1. \E q \in Entry : q[1] = k /\ queue[q] # "none"
        <4>1. CASE Crash
          BY <2>5, <4>1 DEF Crash, Copies
        <4>2. ASSUME NEW q \in Entry, HandlerRaises(q) PROVE \E r \in Entry : r[1] = k /\ queue[r] # "none"
          BY <1>0, <2>5, <4>2 DEF HandlerRaises, HandlerOK
        <4> QED
          BY <2>5, <4>1, <4>2, Frame
      <3> QED
        BY <1>0, <3>1 DEF HandlerOK, Grows
    <2> QED
      BY <2>1, <2>2, <2>3, <2>4, <2>5, Frame
  <1> QED
    BY <1>1, <1>2

\* A copy that is about to be acknowledged stays so, or its archive has two handlers.
LEMMA AckStays ==
    ASSUME CInv, Sound, NEW q \in Entry, NEW r \in Entry, q # r, q[1] = r[1], wpc[q] = "ack",
           queue[q] # "none", queue[r] # "none", queue'[q] # "none", q[1] \notin doubled'
    PROVE  wpc'[q] = "ack"
  <1>0. TypeOK /\ q[1] \in Archive /\ q \in Copies(q[1]) /\ r \in Copies(q[1])
    BY EntryParts DEF CInv, Copies
  <1>1. ~Crash
    BY <1>0 DEF Crash
  <1>2. ~HandlerRaises(q)
    BY <1>0 DEF HandlerRaises
  <1>3. ~Ack(q)
    BY <1>0 DEF Ack, TypeOK
  <1>4. ASSUME NEW h \in Entry, h # q,
               HandlerStep(h) \/ ExtractFails(h) \/ CancelEarly(h) \/ CancelQueued(h) \/ HandlerRaises(h)
        PROVE  wpc'[q] = wpc[q]
    BY <1>0, <1>4 DEF HandlerStep, Deliver, Recover, RunNext, WaitForPredecessor, Requeue, SeePending, WaitForWork,
                SkipOrphan, RecoverPredecessor, Extract, MergeMeta, WriteDone, Ack, ExtractFails, CancelEarly,
                CancelQueued, HandlerRaises, Move, TypeOK
  <1>5. CASE \/ HandlerStep(q) \/ ExtractFails(q) \/ CancelEarly(q) \/ CancelQueued(q)
    <2>1. CancelQueued(q)
      BY <1>3, <1>5 DEF HandlerStep, Deliver, Recover, RunNext, WaitForPredecessor, SeePending, WaitForWork,
                SkipOrphan, RecoverPredecessor, Extract, MergeMeta, WriteDone, ExtractFails, CancelEarly,
                CInv, Core, HandlerOK
    <2> QED
      BY <1>0, <2>1 DEF CancelQueued, Move, TypeOK
  <1>6. CASE Append \/ Commit \/ CommitStep \/ StepFails \/ Abandon \/ AbandonAppend \/ UNCHANGED vars
    BY <1>6 DEF Append, Commit, CommitStep, Persist, Enqueue, Rewrite, SaveMeta, MarkReady, MarkFailed,
                StepFails, Abandon, AbandonAppend, vars
  <1> QED
    BY <1>1, <1>2, <1>4, <1>5, <1>6, NoLand DEF Next

\* Every step keeps one running handler for an archive that is not doubled.
LEMMA OneRunsStep == CInv /\ Sound => OneRuns'
  <1> SUFFICES ASSUME CInv, Sound, NEW q \in Entry, NEW r \in Entry, q # r, q[1] = r[1], q[1] \notin doubled',
                      queue'[q] # "none", queue'[r] # "none"
               PROVE  wpc'[q] = "ack" \/ wpc'[r] = "ack"
    BY DEF OneRuns
  <1>0. TypeOK /\ OneRuns /\ PhaseOK /\ q[1] \notin doubled
    BY DoubledGrows DEF CInv, Core
  <1>1. CASE queue[q] # "none" /\ queue[r] # "none"
    BY <1>0, <1>1, AckStays DEF OneRuns
  <1>2. CASE Enqueue
    <2>1. c.pc = "enqueue" /\ queue' = [queue EXCEPT ![<<c.k, 1>>] = "queued"]
      BY <1>2 DEF Enqueue
    <2>2. \A e \in Entry : e # <<c.k, 1>> => queue'[e] = queue[e]
      BY <1>0, <2>1 DEF TypeOK
    <2>3. CASE q[1] = c.k
      BY <1>0, <2>1, <2>2, <2>3 DEF PhaseOK
    <2>4. CASE q[1] # c.k
      <3>1. q # <<c.k, 1>> /\ r # <<c.k, 1>>
        BY <2>4
      <3> QED
        BY <1>1, <2>2, <3>1
    <2> QED
      BY <2>3, <2>4
  <1>3. ASSUME NEW x \in Entry, NEW y \in Entry, x # y, x[1] = y[1], x[1] \notin doubled, queue[x] = "none",
               queue'[y] # "none", NEW s \in Entry, Stores(s, x)
        PROVE  wpc'[y] = "ack"
    <2>1. queue' = [queue EXCEPT ![x] = "queued"] /\ wpc' = [wpc EXCEPT ![s] = "ack"] /\ s[1] = x[1]
          /\ wpc[s] \in {"pred", "pending"}
      BY <1>3 DEF Stores
    <2>2. queue[y] # "none" /\ queue[s] # "none"
      BY <1>0, <1>3, <2>1 DEF TypeOK, CInv, Core, HandlerOK
    <2>3. CASE y = s
      BY <1>0, <2>1, <2>3 DEF TypeOK
    <2>4. CASE y # s
      <3>1. wpc[y] = "ack"
        BY <1>0, <1>3, <2>1, <2>2, <2>4 DEF OneRuns
      <3> QED
        BY <1>0, <2>1, <2>4, <3>1 DEF TypeOK
    <2> QED
      BY <2>3, <2>4
  <1> QED
    BY <1>0, <1>1, <1>2, <1>3, Delivered
\* Every step keeps interrupted commits readable.
LEMMA ReadableStep == CInv /\ Sound => Readable'
  <1> SUFFICES ASSUME CInv, Sound, NEW k \in Archive, k \notin overtaken',
                      arch'[k].marker = "preparing", ~arch'[k].failed
               PROVE  IF k \in applied' THEN Phase1Applied(k)' ELSE Leaving(k)' # {} /\ Leaving(k)' \subseteq root'
    BY DEF Readable
  <1>0. /\ TypeOK /\ RootSent /\ SnapshotOK /\ PhaseOK /\ Grows(k) /\ ~arch[k].failed
        /\ c.pc # "idle" => c.k \in Archive
        /\ k \in applied => arch[k].marker # "none"
        /\ arch[k].done => arch[k].marker = "ready"
        /\ arch[k].marker \in {"none", "preparing"}
    BY ArchiveGrows DEF CInv, Core, SnapshotOK, MarkersOK, Grows, TypeOK, Dir, Marker
  <1>1. k \notin overtaken
    BY Frame DEF Rewrite
  <1>2. CASE arch[k].marker = "none"
    <2>1. Persists /\ k = c.k
      BY <1>0, <1>2 DEF Grows
    <2>2. c.pc = "persist" /\ root' = root /\ applied' = applied
      BY <2>1 DEF Persists, Persist, history
    <2>3. arch'[k].out = c.out /\ arch'[k].kept = c.kept
      BY <1>0, <1>2, <2>1, PersistEffect DEF Persists
    <2>4. root = c.out \cup c.kept /\ c.out \ c.kept # {}
      BY <1>0, <2>2 DEF PhaseOK
    <2> QED
      BY <1>0, <1>2, <2>2, <2>3, <2>4 DEF Leaving
  <1>3. CASE arch[k].marker = "preparing"
    <2>1. arch'[k].out = arch[k].out /\ arch'[k].kept = arch[k].kept
      BY <1>0, <1>3 DEF Grows
    <2>2. IF k \in applied THEN Phase1Applied(k) ELSE Leaving(k) # {} /\ Leaving(k) \subseteq root
      BY <1>0, <1>1, <1>3 DEF CInv, Core, Readable
    <2>3. CASE Append
      <3>1. root' = root \cup {sent + 1} /\ applied' = applied
        BY <2>3 DEF Append, history
      <3>2. sent \in Nat /\ arch[k].out \subseteq 1..sent /\ arch[k].kept \subseteq 1..sent
        BY <1>0 DEF RootSent, TypeOK
      <3>3. sent + 1 \notin arch[k].out /\ \A m \in arch[k].kept : ~(sent + 1 < m)
        BY <3>2
      <3> QED
        BY <2>1, <2>2, <3>1, <3>3 DEF Phase1Applied, Leaving
    <2>4. CASE Rewrite
      <3>1. k = c.k
        BY <1>0, <1>3, <2>4 DEF Rewrite, Terminal
      <3>2. k \in applied' /\ root' = arch[k].kept
        BY <1>0, <1>3, <2>4, <3>1 DEF Rewrite, RewriteRoot, SnapshotOK
      <3> QED
        BY <2>1, <3>2 DEF Phase1Applied
    <2>5. CASE root' = root /\ applied' = applied
      BY <2>1, <2>2, <2>5 DEF Phase1Applied, Leaving
    <2> QED
      BY <2>3, <2>4, <2>5, Frame
  <1> QED
    BY <1>0, <1>2, <1>3

\* Every step keeps the decisions of the recovery right: they are taken from Readable.
LEMMA RecoveryStep == CInv /\ Sound => Decided'
  <1> SUFFICES ASSUME CInv, Sound, NEW k \in Archive, k \notin overtaken'
               PROVE  /\ arch'[k].marker = "ready" => k \in applied'
                      /\ k \in rejected' => k \notin applied'
    BY DEF Decided
  <1>0. /\ TypeOK /\ SnapshotOK /\ PhaseOK /\ k \notin overtaken /\ applied \subseteq applied'
        /\ c.pc # "idle" => c.k \in Archive
    BY Frame DEF CInv, Core, SnapshotOK, Rewrite
  <1>1. /\ arch[k].marker = "ready" => k \in applied
        /\ k \in rejected => k \notin applied
        /\ arch[k].marker = "preparing" /\ ~arch[k].failed =>
              IF k \in applied THEN Phase1Applied(k) ELSE Leaving(k) # {} /\ Leaving(k) \subseteq root
    BY <1>0 DEF CInv, Core, Decided, Readable
  <1>2. arch'[k].marker = "ready" => k \in applied'
    <2>1. CASE arch[k].marker = "ready"
      BY <1>0, <1>1, <2>1
    <2>2. CASE MarkReady /\ k = c.k
      BY <1>0, <2>2 DEF MarkReady, PhaseOK
    <2>3. CASE arch[k].marker = "preparing" /\ ~arch[k].failed /\ Phase1Applied(k)
      BY <1>0, <1>1, <2>3 DEF Phase1Applied, Leaving
    <2> QED
      BY <1>0, <2>1, <2>2, <2>3, Causes DEF ReadyCause, TypeOK, Dir, Marker
  <1>3. k \in rejected' => k \notin applied'
    <2>1. CASE k \in rejected
      BY <1>0, <1>1, <2>1, Frame DEF Rewrite, SnapshotOK
    <2>2. CASE k \in rejected' \ rejected
      <3>1. PICK h \in Entry : Recover(h) \/ RecoverPredecessor(h)
        BY <2>2, Frame
      <3>2. PICK j \in Archive : EnsureReady(j) /\ arch[j].marker # "none"
        BY <3>1, Recovers
      <3>3. k = j /\ arch[k].marker = "preparing" /\ ~arch[k].failed /\ ~Phase1Applied(k)
        BY <1>0, <2>2, <3>2, EnsureEffect DEF TypeOK, Dir, Marker
      <3>4. applied' = applied
        BY <3>2 DEF EnsureReady
      <3> QED
        BY <1>1, <3>3, <3>4
    <2> QED
      BY <2>1, <2>2
  <1> QED
    BY <1>2, <1>3

\* Every step keeps the messages from leaving twice: out of the live file, or not.
LEMMA LeavesStep == CInv /\ Sound => LeavesOnce'
  <1> SUFFICES ASSUME CInv, Sound PROVE LeavesOnce'
    OBVIOUS
  <1>0. /\ TypeOK /\ RootSent /\ SnapshotOK /\ PhaseOK /\ LeavesOnce /\ \A k \in Archive : Grows(k)
        /\ c.pc # "idle" => c.k \in Archive
        /\ applied \subseteq Archive /\ \A k \in applied : arch[k].marker # "none"
    BY ArchiveGrows DEF CInv, Core, SnapshotOK, MarkersOK, TypeOK
  <1>1. \A k \in applied : Leaving(k)' = Leaving(k)
    BY <1>0 DEF Grows, Leaving
  <1>2. CASE Append
    <2>1. root' = root \cup {sent + 1} /\ applied' = applied
      BY <1>2 DEF Append, history
    <2>2. \A k \in Archive : sent + 1 \notin Leaving(k)
      BY <1>0 DEF RootSent, Leaving, TypeOK
    <2> QED
      BY <1>0, <1>1, <2>1, <2>2 DEF LeavesOnce
  <1>3. CASE Rewrite
    <2>0. PICK n \in Archive : n = c.k
      BY <1>0, <1>3 DEF Rewrite
    <2>1. root' = c.kept /\ applied' = applied \cup {n} /\ arch' = arch
      BY <1>3, <2>0 DEF Rewrite, RewriteRoot
    <2>2. root = c.out \cup c.kept /\ arch[n].out = c.out /\ arch[n].kept = c.kept
      BY <1>0, <1>3, <2>0 DEF Rewrite, PhaseOK, SnapshotOK
    <2>3. Leaving(n)' = Leaving(n) /\ Leaving(n) \cap root' = {} /\ Leaving(n) \subseteq root
      BY <2>1, <2>2 DEF Leaving
    <2>4. \A k \in applied : Leaving(k) \cap root' = {} /\ Leaving(k) \cap Leaving(n) = {}
      BY <1>0, <2>1, <2>2, <2>3 DEF LeavesOnce
    <2> QED
      BY <1>0, <1>1, <2>1, <2>3, <2>4 DEF LeavesOnce
  <1>4. CASE root' = root /\ applied' = applied
    BY <1>0, <1>1, <1>4 DEF LeavesOnce
  <1> QED
    BY <1>2, <1>3, <1>4, Frame


\* An archive whose predecessors are settled stays so: markers stay.
LEMMA OrderedKeeps ==
    ASSUME CInv, Sound, NEW k \in Archive, Exists(k), Ordered(k)
    PROVE  Ordered(k)'
  <1>1. \A j \in 1..(k - 1) : j \in Archive /\ Exists(j) /\ \A i \in (j + 1)..(k - 1) : i \in Archive
    BY SessionAssumption DEF CInv, Core, Contiguous, Archive
  <1>2. \A j \in Archive : (Terminal(j) => Terminal(j)') /\ (arch[j].failed => arch'[j].failed)
    BY ArchiveGrows DEF Grows, Terminal
  <1> QED
    BY <1>1, <1>2 DEF Ordered

\* An archive whose predecessor has failed is in turn.
LEMMA OrderedAfterFailure ==
    ASSUME NEW k \in Archive, k - 1 \in Archive, arch'[k - 1].failed
    PROVE  Ordered(k)'
  BY SessionAssumption DEF Ordered, Terminal, Archive

\* Every step lets archives run in turn only.
LEMMA InTurnStep == CInv /\ Sound => InTurn'
  <1> SUFFICES ASSUME CInv, Sound PROVE InTurn'
    OBVIOUS
  <1>0. /\ TypeOK /\ HasArchive /\ InTurn /\ \A j \in Archive : Grows(j)
        /\ \A q \in Entry : /\ q[1] \in Archive
                            /\ wpc[q] \in {"pred", "pending", "extract", "merge", "finish", "complete"} => Exists(q[1])
        /\ \A k \in Archive : arch[k].done => Exists(k)
    BY ArchiveGrows, EntryParts DEF CInv, Core, HandlerOK, MarkersOK, Exists
  <1>1. ASSUME NEW q \in Entry, wpc[q] \in {"extract", "merge", "finish", "complete"} PROVE Ordered(q[1])'
    BY <1>0, <1>1, OrderedKeeps DEF InTurn
  <1>2. ASSUME NEW q \in Entry, wpc'[q] \in {"extract", "merge", "finish", "complete"} PROVE Ordered(q[1])'
    <2>0. PICK k \in Archive : k = q[1]
      BY <1>0
    <2>1. CASE RunNext(q)
      <3>1. Exists(k) /\ MayRun(k)
        BY <1>0, <2>0, <2>1 DEF RunNext
      <3>2. Ordered(k)
        <4>1. CASE k = 1
          BY <4>1 DEF Ordered
        <4>2. CASE k # 1
          <5>1. k - 1 \in Archive /\ Exists(k - 1)
            BY <3>1, <4>2, SessionAssumption DEF CInv, Core, Contiguous, Archive
          <5>2. Terminal(k - 1)
            BY <3>1, <4>2, <5>1 DEF MayRun
          <5>3. CASE arch[k - 1].failed
            BY <5>1, <5>3, SessionAssumption DEF Ordered, Terminal, Archive
          <5>4. CASE arch[k - 1].done
            <6>1. Ordered(k - 1)
              BY <1>0, <5>1, <5>4 DEF InTurn
            <6> QED
              BY <5>1, <5>2, <6>1, SessionAssumption DEF Ordered, Archive
          <5> QED
            BY <5>2, <5>3, <5>4 DEF Terminal
        <4> QED
          BY <4>1, <4>2
      <3>3. Ordered(k)'
        BY <3>1, <3>2, OrderedKeeps
      <3> QED
        BY <2>0, <3>3
    <2>2. CASE SkipOrphan(q)
      <3>1. k - 1 \in Archive /\ arch' = [arch EXCEPT ![k - 1].failed = TRUE]
        BY <1>0, <2>0, <2>2, Predecessor DEF SkipOrphan, Fail
      <3>2. Ordered(k)'
        BY <1>0, <3>1, FailEffect, OrderedAfterFailure
      <3> QED
        BY <2>0, <3>2
    <2>3. CASE RecoverPredecessor(q)
      <3>0. wpc'[q] = "extract"
        BY <1>0, <1>2, <2>3, MovesTo
      <3>1. ~(arch'[k - 1].marker = "ready")
        <4>1. ASSUME Requeue(q) PROVE FALSE
          BY <1>0, <3>0, <4>1, RequeueTypes DEF TypeOK
        <4> QED
          BY <2>0, <2>3, <4>1 DEF RecoverPredecessor
      <3>2. /\ k - 1 \in Archive /\ EnsureReady(k - 1) /\ arch[k - 1].marker = "preparing"
            /\ ~arch[k - 1].failed
        BY <1>0, <2>0, <2>3, Predecessor DEF RecoverPredecessor, MayRun, Terminal
      <3>3. arch'[k - 1].failed
        BY <1>0, <3>1, <3>2, EnsureEffect, ReadyEffect, FailEffect
      <3>4. Ordered(k)'
        BY <3>2, <3>3, OrderedAfterFailure
      <3> QED
        BY <2>0, <3>4
    <2>4. CASE wpc[q] \in {"extract", "merge", "finish", "complete"}
      BY <1>1, <2>4
    <2> QED
      BY <1>0, <1>2, <2>1, <2>2, <2>3, <2>4, Moves, MovesTo
  <1>3. ASSUME NEW k \in Archive, arch'[k].done PROVE Ordered(k)'
    <2>1. CASE arch[k].done
      BY <1>0, <2>1, OrderedKeeps DEF InTurn
    <2>2. CASE ~arch[k].done
      <3>1. PICK q \in Entry : q[1] = k /\ WriteDone(q)
        BY <1>3, <2>2, Causes
      <3>2. wpc[q] = "finish"
        BY <3>1 DEF WriteDone
      <3> QED
        BY <1>1, <3>1, <3>2
    <2> QED
      BY <2>1, <2>2
  <1> QED
    BY <1>2, <1>3 DEF InTurn

-----------------------------------------------------------------------------
(* The theorems *)

\* A write that landed late stays a fact.
LEMMA StrayStays == [Next]_vars => stray' = stray \/ stray' = TRUE
  <1> SUFFICES ASSUME [Next]_vars PROVE stray' = stray \/ stray' = TRUE
    OBVIOUS
  <1>1. CASE UNCHANGED vars
    BY <1>1 DEF vars, lateness
  <1>2. CASE Append \/ Commit \/ CommitStep \/ StepFails \/ Crash \/ Abandon \/ AbandonAppend
    BY <1>2 DEF Append, Commit, CommitStep, Persist, Enqueue, Rewrite, SaveMeta, MarkReady, MarkFailed,
                StepFails, Crash, Abandon, AbandonAppend, LateWrites, lateness
  <1>3. ASSUME NEW w \in late, Land(w) PROVE stray' = TRUE
    BY <1>3 DEF Land
  <1>4. ASSUME NEW q \in Entry,
               HandlerStep(q) \/ ExtractFails(q) \/ CancelEarly(q) \/ CancelQueued(q) \/ HandlerRaises(q)
        PROVE  stray' = stray
    BY <1>4 DEF HandlerStep, Deliver, Recover, RunNext, WaitForPredecessor, RecoverPredecessor, SeePending,
                WaitForWork, SkipOrphan, Extract, MergeMeta, WriteDone, Ack, ExtractFails, CancelEarly,
                CancelQueued, HandlerRaises, EnsureReady, LateWrites, lateness
  <1> QED
    BY <1>1, <1>2, <1>3, <1>4 DEF Next

\* The invariant holds at first.
LEMMA InvariantInit == Init => IInv
  <1> SUFFICES ASSUME Init PROVE IInv
    OBVIOUS
  <1>1. TypeOK /\ HasArchive
    BY TypeInit
  <1>2. /\ \A k \in Archive : arch[k] = NoDir
        /\ \A q \in Entry : q[1] \in Archive /\ queue[q] = "none" /\ wpc[q] = "none"
    BY EntryParts DEF Init
  <1>3. /\ root = {} /\ sent = 0 /\ count = 0 /\ c.pc = "idle" /\ late = {}
        /\ applied = {} /\ overtaken = {} /\ rejected = {} /\ doubled = {}
    BY DEF Init, NoCommit
  <1>4. \A k \in Archive : ~Exists(k) /\ arch[k].marker = "none" /\ arch[k].out = {} /\ arch[k].kept = {}
                          /\ ~arch[k].done
    BY <1>2 DEF Exists, NoDir
  <1>5. RootSent /\ SnapshotOK /\ PhaseOK /\ HandlerOK /\ MarkersOK /\ OneRuns
    BY <1>2, <1>3, <1>4 DEF RootSent, SnapshotOK, PhaseOK, HandlerOK, MarkersOK, OneRuns
  <1>6. Contiguous
    BY <1>3, <1>4 DEF Contiguous, Archive
  <1>7. Readable /\ Decided /\ LeavesOnce /\ InTurn
    BY <1>2, <1>3, <1>4 DEF Readable, Decided, LeavesOnce, InTurn
  <1>8. Kept /\ NothingLost
    BY <1>3 DEF Kept, NothingLost
  <1> QED
    BY <1>1, <1>5, <1>6, <1>7, <1>8 DEF IInv, Core

\* A step that no late write has reached begins in a state that none has reached.
LEMMA SoundStep == IInv /\ Sound => CInv
  BY StrayStays DEF IInv, CInv, Sound

\* Every step keeps the invariant.
LEMMA InvariantStep == IInv /\ [Next]_vars => IInv'
  <1> SUFFICES ASSUME IInv, [Next]_vars PROVE IInv'
    OBVIOUS
  <1>1. TypeOK' /\ HasArchive' /\ Kept' /\ NothingLost'
    BY TypeStep, KeptStep DEF IInv
  <1>2. ASSUME ~stray' PROVE Core'
    <2>1. CInv /\ Sound
      BY <1>2, SoundStep DEF Sound
    <2> QED
      BY <2>1, RootSentStep, ContiguousStep, SnapshotStep, PhaseStep, HandlerStepKeeps, MarkersStep, OneRunsStep,
         ReadableStep, RecoveryStep, LeavesStep, InTurnStep DEF Core
  <1> QED
    BY <1>1, <1>2 DEF IInv

\* The invariant holds throughout.
LEMMA Invariant == Spec => []IInv
  BY InvariantInit, InvariantStep, PTL DEF Spec

\* An appended message that was not live while a write of a cancelled call ran on is in
\* the live file or in the messages.jsonl of an archive in every state of commit_async:
\* each archive write that fails, each exception, cancellation and crash between two of
\* its writes, and each write that lands after the lock was released included.
THEOREM MessagesKept == Spec => []NothingLost
  BY Invariant, PTL DEF IInv

\* The decision _ensure_phase1_ready takes from message ids alone is right for every
\* archive that no other commit overtook, as long as no cancelled write lands late.
THEOREM RecoveryRight == Spec => []RecoveryExact
  <1>1. IInv => RecoveryExact
    BY DEF IInv, Core, Decided, RecoveryExact
  <1> QED
    BY <1>1, Invariant, PTL

\* Two archives that phase 2 accepts and no other commit overtook never take the same
\* message out of the live file, however commits and recoveries interleave, as long as
\* no cancelled write lands late.
THEOREM ArchivesDisjoint == Spec => []ReadyDisjoint
  <1>1. IInv => ReadyDisjoint
    BY DEF IInv, Core, Decided, LeavesOnce, Leaving, ReadyDisjoint
  <1> QED
    BY <1>1, Invariant, PTL

\* The look at the direct predecessor in _can_run_archive is enough to keep the
\* archives in order up to one that failed, for any number of archives, handlers and
\* copies of their messages, as long as no cancelled write lands late.
THEOREM ExtractedInOrder == Spec => []InOrder
  <1>1. ASSUME IInv PROVE InOrder
    <2>1. \A q \in Entry : q[1] \in Archive
      BY EntryParts
    <2>2. ~stray => \A q \in Entry : wpc[q] \in {"extract", "merge", "finish"} => Ordered(q[1])
      BY <1>1 DEF IInv, Core, InTurn
    <2> QED
      BY <2>1, <2>2, SessionAssumption DEF Ordered, InOrder, Archive
  <1> QED
    BY <1>1, Invariant, PTL
-----------------------------------------------------------------------------
(* The commits implement SessionLog *)

Places == [m \in Msg |-> PlaceOf(m)]
Again == {m \in Msg : \E k \in doubled : m \in arch[k].raw}
LogSame == UNCHANGED <<Places, Again, stray>>

\* The place of a message tells whether it was sent and whether it is live.
LEMMA PlaceOfSent ==
    ASSUME TypeOK, RootSent, NEW m \in Msg
    PROVE  /\ PlaceOf(m) = "unsent" <=> m > sent
           /\ PlaceOf(m) = "live" <=> m \in root
           /\ PlaceOf(m) \in {"unsent", "live", "archived", "extracted", "dropped"}
  <1>1. sent \in Nat /\ (m \in root => ~(m > sent))
    BY SessionAssumption DEF TypeOK, RootSent, Msg
  <1> QED
    BY <1>1 DEF PlaceOf

\* The initial files are an initial log.
LEMMA LogInit == Init => Log!Init
  <1> SUFFICES ASSUME Init PROVE Log!Init
    OBVIOUS
  <1>1. \A m \in Msg : PlaceOf(m) = "unsent"
    BY DEF Init, PlaceOf, Msg
  <1>2. Again = {} /\ stray = FALSE
    BY DEF Init, Again
  <1> QED
    BY <1>1, <1>2 DEF Log!Init, Again

\* Archives with an outcome change places in one way.
LEMMA SettleOrStutter ==
    ASSUME NEW e \in {"extracted", "dropped"}, Again' = Again, stray' = stray,
           \A m \in Msg : \/ PlaceOf(m)' = PlaceOf(m)
                          \/ /\ PlaceOf(m)' = e
                             /\ \/ PlaceOf(m) = "archived"
                                \/ PlaceOf(m) = "dropped" /\ m \in Again /\ e = "extracted"
    PROVE  Log!Next \/ LogSame
  <1> DEFINE S == {m \in Msg : PlaceOf(m)' # PlaceOf(m)}
  <1>1. CASE S = {}
    BY <1>1 DEF LogSame, Places
  <1>2. CASE S # {}
    <2>1. /\ S \in SUBSET {m \in Msg : \/ Places[m] = "archived"
                                       \/ Places[m] = "dropped" /\ m \in Again /\ e = "extracted"}
          /\ e \in Log!Ended
      BY DEF Log!Ended, Places
    <2>2. Places' = [m \in Msg |-> IF m \in S THEN e ELSE Places[m]]
      BY DEF Places
    <2>3. Log!Settle
      BY <1>2, <2>1, <2>2 DEF Log!Settle, Places, Again
    <2> QED
      BY <2>3 DEF Log!Next, Again
  <1> QED
    BY <1>1, <1>2

\* Every step that no late write has reached is a step of the log, or none.
LEMMA SoundLogStep == CInv /\ Sound /\ stray' = stray => Log!Next \/ LogSame
  <1> SUFFICES ASSUME CInv, Sound, stray' = stray PROVE Log!Next \/ LogSame
    OBVIOUS
  <1>0. /\ TypeOK /\ TypeOK' /\ RootSent /\ RootSent' /\ PhaseOK /\ HandlerOK /\ SnapshotOK
        /\ c.pc # "idle" => c.k \in Archive
        /\ \A k \in Archive : Grows(k)
        /\ doubled \subseteq Archive
    BY ArchiveGrows, RootSentStep, TypeStep DEF CInv, Core, HasArchive, Sound, TypeOK
  <1>r. \A k \in doubled : arch'[k].raw = arch[k].raw
    <2>1. CASE Persists
      <3>1. c.k \in Archive /\ c.k \notin doubled
        BY <1>0, <2>1 DEF Persists, Persist, SnapshotOK
      <3> QED
        BY <1>0, <2>1, <3>1, PersistEffect DEF Persists
    <2>2. CASE ~Persists
      BY <1>0, <2>2 DEF Grows
    <2> QED
      BY <2>1, <2>2
  <1>1. CASE doubled' # doubled
    <2>1. root' = root /\ sent' = sent /\ arch' = arch
      <3>1. CASE Crash
        BY <3>1 DEF Crash
      <3>2. ASSUME NEW q \in Entry, HandlerRaises(q) PROVE root' = root /\ sent' = sent /\ arch' = arch
        BY <3>2 DEF HandlerRaises
      <3> QED
        BY <1>1, <3>1, <3>2, Frame
    <2>2. Places' = Places
      BY <2>1 DEF Places, PlaceOf, Terminal
    <2>3. Again \subseteq Again' /\ Again' \subseteq Msg
      BY <2>1, DoubledGrows DEF Again
    <2> QED
      BY <2>2, <2>3 DEF Log!Next, Log!Repeat, Places, Again
  <1>a. ASSUME doubled' = doubled PROVE Again' = Again
    BY <1>r, <1>a DEF Again
  <1>2. CASE Append
    <2>1. /\ sent + 1 \in Msg /\ sent' = sent + 1 /\ root' = root \cup {sent + 1} /\ arch' = arch /\ sent \in Nat
          /\ doubled' = doubled
      BY <1>0, <1>2, SessionAssumption DEF Append, TypeOK, Msg
    <2>2. \A m \in Msg : PlaceOf(m)' = IF m = sent + 1 THEN "live" ELSE PlaceOf(m)
      BY <1>0, <2>1, SessionAssumption DEF PlaceOf, Terminal, RootSent, Msg
    <2>3. PlaceOf(sent + 1) = "unsent" /\ \A n \in Msg : PlaceOf(n) = "unsent" => n >= sent + 1
      BY <1>0, <2>1, PlaceOfSent, SessionAssumption DEF Msg
    <2>4. Log!Append
      BY <2>1, <2>2, <2>3 DEF Log!Append
    <2> QED
      BY <1>a, <2>1, <2>4 DEF Log!Next, Again
  <1>3. CASE Rewrite
    <2> DEFINE S == root \ c.kept
    <2>1. /\ root' = c.kept /\ sent' = sent /\ arch' = arch /\ c.kept \subseteq root /\ S # {}
          /\ doubled' = doubled
      BY <1>0, <1>3 DEF Rewrite, RewriteRoot, PhaseOK
    <2>2. S \in SUBSET {m \in Msg : Places[m] = "live"}
      BY <1>0, PlaceOfSent DEF TypeOK, Places
    <2>3. \A m \in S : PlaceOf(m)' \in {"archived"} \cup Log!Ended
      BY <1>0, <2>1 DEF PlaceOf, Log!Ended, RootSent, TypeOK, Msg
    <2>4. \A m \in Msg \ S : PlaceOf(m)' = PlaceOf(m)
      BY <2>1 DEF PlaceOf, Terminal
    <2> DEFINE to == [m \in S |-> PlaceOf(m)']
    <2>5. to \in [S -> {"archived"} \cup Log!Ended]
      BY <2>3
    <2>6. Places' = [m \in Msg |-> IF m \in S THEN to[m] ELSE Places[m]]
      BY <2>4 DEF Places
    <2>7. Log!Archive
      BY <2>1, <2>2, <2>5, <2>6 DEF Log!Archive, Places
    <2> QED
      BY <1>a, <2>1, <2>7 DEF Log!Next, Again
  <1>4. CASE root' = root /\ sent' = sent /\ doubled' = doubled
    <2>0. Again' = Again
      BY <1>4, <1>a
    <2>1. \A k \in Archive : \A m \in Msg : m \notin root => (m \in arch'[k].raw <=> m \in arch[k].raw)
      <3>1. CASE ~Persists
        BY <1>0, <3>1 DEF Grows
      <3>2. CASE Persists
        <4>1. c.k \in Archive /\ c.out \subseteq root
          BY <1>0, <3>2 DEF Persists, Persist, PhaseOK
        <4>2. arch'[c.k].raw = arch[c.k].raw \/ (arch[c.k].raw = {} /\ arch'[c.k].raw = c.out)
          BY <1>0, <3>2, <4>1, PersistEffect DEF Persists, Persist, PhaseOK
        <4> QED
          BY <1>0, <4>1, <4>2, <3>2, PersistEffect DEF Persists
      <3> QED
        BY <3>1, <3>2
    <2>2. CASE \A k \in Archive : arch'[k].done = arch[k].done
      <3>1. ASSUME NEW m \in Msg
            PROVE  PlaceOf(m)' = PlaceOf(m) \/ (PlaceOf(m) = "archived" /\ PlaceOf(m)' = "dropped")
        <4>1. \A k \in Archive : Terminal(k) => Terminal(k)'
          BY <1>0 DEF Grows, Terminal
        <4> QED
          BY <1>4, <2>1, <2>2, <4>1 DEF PlaceOf
      <3> QED
        BY <2>0, <3>1, SettleOrStutter
    <2>3. ASSUME NEW q \in Entry, WriteDone(q)
          PROVE  Log!Next \/ LogSame
      <3>0. PICK j \in Archive : j = q[1]
        BY EntryParts
      <3>1. (~arch[j].failed \/ j \in doubled) /\ arch' = [arch EXCEPT ![j].done = TRUE]
        BY <1>0, <2>3, <3>0 DEF WriteDone, HandlerOK
      <3>2. \A k \in Archive : /\ arch'[k].failed = arch[k].failed /\ arch'[k].raw = arch[k].raw
                               /\ k # j => arch'[k] = arch[k]
        BY <1>0, <3>1, DoneEffect
      <3>3. arch'[j].done
        BY <1>0, <3>1, DoneEffect
      <3>4. \A k \in Archive : (k # j => (Terminal(k)' <=> Terminal(k))) /\ Terminal(j)'
        BY <3>2, <3>3 DEF Terminal
      <3>5. ASSUME NEW m \in Msg
            PROVE  \/ PlaceOf(m)' = PlaceOf(m)
                   \/ /\ PlaceOf(m)' = "extracted"
                      /\ PlaceOf(m) = "archived" \/ (PlaceOf(m) = "dropped" /\ m \in Again)
        <4>1. CASE m \in root \/ m > sent
          BY <1>4, <4>1 DEF PlaceOf
        <4>2. CASE m \notin root /\ ~(m > sent) /\ m \in arch[j].raw
          <5>1. PlaceOf(m)' = "extracted"
            BY <1>4, <3>2, <3>3, <4>2 DEF PlaceOf
          <5>2. PlaceOf(m) \in {"extracted", "archived", "dropped"}
            BY <4>2 DEF PlaceOf
          <5>3. CASE j \in doubled
            <6>1. m \in Again
              BY <4>2, <5>3 DEF Again
            <6> QED
              BY <5>1, <5>2, <6>1
          <5>4. CASE ~arch[j].failed
            BY <4>2, <5>1, <5>4 DEF PlaceOf, Terminal
          <5> QED
            BY <3>1, <5>3, <5>4
        <4>3. CASE m \notin root /\ ~(m > sent) /\ m \notin arch[j].raw
          <5>1. \A k \in Archive : m \in arch[k].raw \/ m \in arch'[k].raw => k # j
            BY <3>2, <4>3
          <5>2. \A k \in Archive : m \in arch'[k].raw /\ arch'[k].done <=> m \in arch[k].raw /\ arch[k].done
            BY <3>2, <5>1
          <5>3. \A k \in Archive : m \in arch'[k].raw /\ ~Terminal(k)' <=> m \in arch[k].raw /\ ~Terminal(k)
            BY <3>2, <3>4, <5>1
          <5> QED
            BY <1>4, <5>2, <5>3 DEF PlaceOf
        <4> QED
          BY <4>1, <4>2, <4>3
      <3> QED
        BY <2>0, <3>5, SettleOrStutter
    <2>4. (\A k \in Archive : arch'[k].done = arch[k].done) \/ \E q \in Entry : WriteDone(q)
      <3>1. \A k \in Archive : arch[k].done \in BOOLEAN /\ arch'[k].done \in BOOLEAN
        BY <1>0 DEF TypeOK, Dir
      <3> QED
        BY <1>0, <3>1, Causes DEF Grows
    <2> QED
      BY <2>2, <2>3, <2>4
  <1> QED
    BY <1>1, <1>2, <1>3, <1>4, Frame

\* Every step of the files is a step of the log, or none.
LEMMA LogStep == IInv /\ [Next]_vars => [Log!Next]_Log!logvars
  <1> SUFFICES ASSUME IInv, [Next]_vars PROVE Log!Next \/ LogSame
    BY DEF Log!logvars, LogSame, Places, Again
  <1>1. stray \in BOOLEAN /\ stray' \in BOOLEAN
    BY TypeStep DEF IInv, TypeOK
  <1>2. CASE stray'
    BY <1>1, <1>2 DEF Log!Next, Log!Stray
  <1>3. CASE ~stray'
    <2>1. Sound /\ CInv /\ stray' = stray
      BY <1>1, <1>3, SoundStep, StrayStays DEF Sound
    <2> QED
      BY <2>1, SoundLogStep
  <1> QED
    BY <1>2, <1>3

\* The commits, recoveries, handlers and crashes of a session implement SessionLog: no
\* message moves backwards and no outcome is taken back, but that of two handlers of one
\* archive a success outlives a failure; until a cancelled write lands late.
THEOREM SessionImplementsLog == Spec => ImplementsLog
  BY LogInit, LogStep, Invariant, PTL DEF Spec, ImplementsLog, Log!Spec
=============================================================================
