------------------------ MODULE WatchSchedulerProofs ------------------------
(* Proofs about WatchScheduler, for any watches, moves, permits, executions,   *)
(* requests and faults.                                                        *)
EXTENDS WatchScheduler, FiniteSetTheorems, SequenceTheorems, TLAPS

-----------------------------------------------------------------------------
(* The inductive invariant *)

Active == move.pc \in {"held", "moved", "undo"}

MoveNamed == move.pc # "idle" => move.from # Gone /\ move.to # Gone

\* No execution holds a lease of a URI that an active move touches.
LeasesApart == Active => MoveFree

\* After it was compared, the target of a watch stays what its execution read.
TargetHeld ==
    \A r \in Run : run[r].pc \in {"check", "import"} => table[run[r].w].to = run[r].uri

\* The plan of a move stays valid until the table is rewritten.
PlanValid == Active => ~Conflict

\* Memory and storage have the same targets, and after a failed save the storage has
\* no watch that memory has not, except those left behind.
SavedFollows ==
    \A w \in Watch :
        saved[w].to = table[w].to /\ (w \notin lost /\ saved[w].exists => table[w].exists)
SavedDistinct ==
    \A w, x \in Watch : w # x /\ saved[w].exists /\ saved[x].exists => saved[w].to # saved[x].to

\* Between the move of the files and that of the table a resource is where the
\* rewrite will point its watch, and moving the files back undoes it.
InTransit ==
    move.pc \in {"moved", "undo"} =>
        \A w \in Watch \ lost : table[w].exists => \A u \in at[w] :
            u = Rewritten(table[w].to) /\ ~Under(table[w].to, move.to)

\* An import that holds no lease writes to the target of its watch, and outside of
\* what a move has moved, except for watches left behind.
LateInPlace ==
    \A i \in late : i[1] \notin lost =>
        i[2] = table[i[1]].to /\ (move.pc \in {"moved", "undo"} => ~Touches(i[2]))

\* Who runs a round of a watch owns its mark.
Marked ==
    \A w \in Watch \ stolen :
        /\ job[w] = "held" => w \in executing
        /\ \A r \in Run : run[r].pc # "idle" /\ run[r].w = w =>
            /\ w \in executing /\ job[w] # "held"
            /\ \A q \in Run : run[q].pc # "idle" /\ run[q].w = w => q = r

Leases == TypeOK /\ MoveNamed /\ LeasesApart /\ TargetHeld
IInv == /\ Leases /\ Marked /\ PlanValid /\ TargetsDistinct /\ SavedDistinct /\ SavedFollows
        /\ LateInPlace /\ InTransit /\ WatchFollows /\ RefreshAtTarget

-----------------------------------------------------------------------------
(* URIs *)

\* IsPrefix, position by position.
LEMMA PrefixMeans ==
    ASSUME NEW p \in Seq(Name), NEW u \in Seq(Name)
    PROVE  IsPrefix(p, u) <=> Len(p) <= Len(u) /\ \A i \in 1..Len(p) : p[i] = u[i]
  <1>1. CASE Len(p) <= Len(u)
    <2>1. SubSeq(p, 1, Len(p)) = [i \in 1..Len(p) |-> p[i]]
      OBVIOUS
    <2>2. SubSeq(u, 1, Len(p)) = [i \in 1..Len(p) |-> u[i]]
      BY <1>1
    <2> QED
      BY <1>1, <2>1, <2>2 DEF IsPrefix
  <1> QED
    BY <1>1 DEF IsPrefix

Swap(u, p, q) == q \o SubSeq(u, Len(p) + 1, Len(u))

\* A URI below p, rewritten to lie below q.
LEMMA SwapMeans ==
    ASSUME NEW p \in Seq(Name), NEW q \in Seq(Name), NEW u \in Seq(Name), IsPrefix(p, u)
    PROVE  /\ Swap(u, p, q) \in Seq(Name) /\ Len(Swap(u, p, q)) = Len(q) + Len(u) - Len(p)
           /\ \A i \in 1..Len(q) : Swap(u, p, q)[i] = q[i]
           /\ \A i \in 1..(Len(u) - Len(p)) : Swap(u, p, q)[Len(q) + i] = u[Len(p) + i]
  <1> DEFINE t == SubSeq(u, Len(p) + 1, Len(u))
  <1>1. Len(p) \in Nat /\ Len(q) \in Nat /\ Len(u) \in Nat /\ Len(p) <= Len(u)
    BY PrefixMeans
  <1>2. \A i \in (Len(p) + 1)..Len(u) : u[i] \in Name
    BY <1>1
  <1>3. /\ t \in Seq(Name) /\ Len(t) = Len(u) - Len(p)
        /\ \A i \in 1..(Len(u) - Len(p)) : t[i] = u[Len(p) + i]
    BY <1>1, <1>2, SubSeqProperties
  <1> HIDE DEF t
  <1>4. /\ q \o t \in Seq(Name) /\ Len(q \o t) = Len(q) + Len(t)
        /\ \A i \in 1..(Len(q) + Len(t)) : (q \o t)[i] = IF i <= Len(q) THEN q[i] ELSE t[i - Len(q)]
    BY <1>3, ConcatProperties
  <1>5. Swap(u, p, q) = q \o t
    BY DEF Swap, t
  <1>6. \A i \in 1..Len(q) : (q \o t)[i] = q[i]
    BY <1>1, <1>3, <1>4
  <1>7. \A i \in 1..Len(t) : (q \o t)[Len(q) + i] = t[i]
    BY <1>1, <1>3, <1>4
  <1> QED
    BY <1>1, <1>3, <1>4, <1>5, <1>6, <1>7

\* Rewriting back undoes a rewrite.
LEMMA SwapBack ==
    ASSUME NEW p \in Seq(Name), NEW q \in Seq(Name), NEW u \in Seq(Name), IsPrefix(p, u)
    PROVE  IsPrefix(q, Swap(u, p, q)) /\ Swap(Swap(u, p, q), q, p) = u
  <1> DEFINE x == Swap(u, p, q)  y == Swap(x, q, p)
  <1>1. Len(p) \in Nat /\ Len(q) \in Nat /\ Len(u) \in Nat /\ Len(p) <= Len(u)
        /\ \A i \in 1..Len(p) : p[i] = u[i]
    BY PrefixMeans
  <1>2. /\ x \in Seq(Name) /\ Len(x) = Len(q) + Len(u) - Len(p)
        /\ \A i \in 1..Len(q) : x[i] = q[i]
        /\ \A i \in 1..(Len(u) - Len(p)) : x[Len(q) + i] = u[Len(p) + i]
    BY SwapMeans
  <1> HIDE DEF x
  <1>3. IsPrefix(q, x)
    BY <1>1, <1>2, PrefixMeans
  <1>4. /\ y \in Seq(Name) /\ Len(y) = Len(p) + Len(x) - Len(q)
        /\ \A i \in 1..Len(p) : y[i] = p[i]
        /\ \A i \in 1..(Len(x) - Len(q)) : y[Len(p) + i] = x[Len(q) + i]
    BY <1>2, <1>3, SwapMeans
  <1> HIDE DEF y
  <1>5. Len(y) = Len(u)
    BY <1>1, <1>2, <1>4
  <1>6. ASSUME NEW i \in 1..Len(u) PROVE y[i] = u[i]
    <2>1. CASE i <= Len(p)
      BY <1>1, <1>4, <2>1
    <2>2. CASE i > Len(p)
      <3>1. i - Len(p) \in 1..(Len(u) - Len(p)) /\ Len(p) + (i - Len(p)) = i
        BY <1>1, <2>2
      <3>a. Len(x) - Len(q) = Len(u) - Len(p)
        BY <1>1, <1>2
      <3>2. y[Len(p) + (i - Len(p))] = x[Len(q) + (i - Len(p))]
        BY <1>4, <3>1, <3>a
      <3>3. x[Len(q) + (i - Len(p))] = u[Len(p) + (i - Len(p))]
        BY <1>2, <3>1
      <3> QED
        BY <3>1, <3>2, <3>3
    <2> QED
      BY <1>1, <2>1, <2>2
  <1>7. y = u
    BY <1>4, <1>5, <1>6, SeqEqual
  <1> QED
    BY <1>3, <1>7 DEF x, y

\* What the rewrite of the running move does to a URI.
LEMMA RewriteMeans ==
    ASSUME TypeOK, move.to # Gone, NEW u \in Seq(Name)
    PROVE  /\ Rewritten(u) \in Seq(Name) /\ (Rewritten(u) = Gone <=> u = Gone)
           /\ Under(u, move.from) => Under(Rewritten(u), move.to) /\ Back(Rewritten(u)) = u
           /\ ~Under(u, move.to) => Back(Rewritten(u)) = u
  <1>1. move.from \in Seq(Name) /\ move.to \in Seq(Name)
    BY DEF TypeOK
  <1>2. CASE ~Under(u, move.from)
    <2>1. Rewritten(u) = u
      BY <1>2 DEF Rewritten
    <2> QED
      BY <1>2, <2>1 DEF Back
  <1>3. CASE Under(u, move.from)
    <2>1. IsPrefix(move.from, u) /\ u # Gone /\ Rewritten(u) = Swap(u, move.from, move.to)
      BY <1>3 DEF Rewritten, Under, Swap
    <2>2. /\ Rewritten(u) \in Seq(Name) /\ IsPrefix(move.to, Rewritten(u))
          /\ Swap(Rewritten(u), move.to, move.from) = u
      <3>1. Swap(u, move.from, move.to) \in Seq(Name)
        BY <1>1, <2>1, SwapMeans
      <3>2. /\ IsPrefix(move.to, Swap(u, move.from, move.to))
            /\ Swap(Swap(u, move.from, move.to), move.to, move.from) = u
        BY <1>1, <2>1, SwapBack
      <3> QED
        BY <2>1, <3>1, <3>2
    <2>3. Rewritten(u) # Gone
      <3>1. Len(move.to) <= Len(Rewritten(u)) /\ Len(move.to) # 0 /\ Len(move.to) \in Nat
        BY <1>1, <2>2, PrefixMeans, EmptySeq DEF Gone
      <3> QED
        BY <3>1 DEF Gone
    <2>4. Under(Rewritten(u), move.to)
      BY <2>2, <2>3 DEF Under
    <2>5. Back(Rewritten(u)) = u
      BY <2>2, <2>4 DEF Back, Swap
    <2> QED
      BY <2>1, <2>2, <2>3, <2>4, <2>5
  <1> QED
    BY <1>2, <1>3

\* Nothing happens to a URI the move does not touch.
LEMMA Untouched ==
    ASSUME NEW u, ~Touches(u)
    PROVE  /\ ~Under(u, move.from) /\ ~Under(u, move.to)
           /\ Rewritten(u) = u /\ Back(u) = u
  <1>1. ~Under(u, move.from) /\ ~Under(u, move.to)
    BY DEF Touches, Overlap, Under
  <1> QED
    BY <1>1 DEF Rewritten, Back

-----------------------------------------------------------------------------
(* Types *)

Task == [exists : BOOLEAN, to : Uri, active : BOOLEAN]
Execution ==
    [pc : Admitted \cup {"idle", "queued"}, w : Watch, uri : Seq(Name), off : BOOLEAN]

\* URIs are not empty; the empty sequence stands for a resource that is gone.
LEMMA Uris == Uri \subseteq Seq(Name) /\ Gone \notin Uri /\ Gone \in Seq(Name)
  BY DEF Uri, Gone

\* An execution that has not begun.
LEMMA IdleRun == Idle \in Execution /\ Idle.pc = "idle" /\ Idle.uri = Gone /\ Idle.off = FALSE
  <1>1. (CHOOSE w \in Watch : TRUE) \in Watch
    BY WatchAssumption
  <1> QED
    BY <1>1, Uris DEF Idle, Execution, Admitted

\* An execution that has just been created.
LEMMA QueuedRun ==
    ASSUME NEW w \in Watch
    PROVE  /\ [Idle EXCEPT !.pc = "queued", !.w = w] \in Execution
           /\ [Idle EXCEPT !.pc = "queued", !.w = w].pc = "queued"
           /\ [Idle EXCEPT !.pc = "queued", !.w = w].w = w
  BY IdleRun DEF Execution

\* No move is under way.
LEMMA Cancelled == NoMove.pc = "idle" /\ NoMove.from = Gone /\ NoMove.to = Gone
  BY DEF NoMove

\* A failed or a successful save keeps the counter of the faults and the copy in
\* their types.
LEMMA SaveTypes ==
    ASSUME TypeOK, table' \in [Watch -> Task], Save \/ SaveFails \/ UNCHANGED <<saved, faults>>
    PROVE  saved' \in [Watch -> Task] /\ faults' \in 0..MaxFault
  <1>1. saved \in [Watch -> Task] /\ faults \in 0..MaxFault /\ MaxFault \in Nat
    BY WatchAssumption DEF TypeOK, Task
  <1>2. SaveFails => faults < MaxFault /\ faults' = faults + 1 /\ saved' = saved
    BY DEF SaveFails, Fault
  <1> QED
    BY <1>1, <1>2 DEF Save

\* What each kind of step does to one execution.
RunMove(r) ==
    \/ run'[r] = run[r]
    \/ run'[r] = Idle
    \/ \E w \in Watch :
        /\ run[r].pc = "idle" /\ w \notin executing /\ executing' = executing \cup {w}
        /\ run'[r] = [Idle EXCEPT !.pc = "queued", !.w = w]
    \/ /\ run[r].pc \in {"queued", "look"} /\ (run[r].pc = "queued" => Enter(r))
       /\ run'[r] = [run[r] EXCEPT !.pc = "wait", !.uri = table[run[r].w].to]
    \/ /\ run[r].pc = "wait" /\ ~Blocked(run[r].uri)
       /\ run'[r] = [run[r] EXCEPT !.pc = "look"]
    \/ /\ run[r].pc = "look" /\ table[run[r].w].exists /\ table[run[r].w].to = run[r].uri
       /\ run'[r] = [run[r] EXCEPT !.pc = "check"]
    \/ /\ run[r].pc = "check"
       /\ run'[r] = [run[r] EXCEPT !.pc = "import"]
    \/ \E pc \in {"record", "off", "leave"}, b \in BOOLEAN :
        /\ run[r].pc \in Leased
        /\ run'[r] = [run[r] EXCEPT !.pc = pc, !.off = b]

\* Every step does one of these to an execution.
LEMMA RunSteps ==
    ASSUME TypeOK, [Next]_vars
    PROVE  run' \in [Run -> Execution] /\ \A r \in Run : RunMove(r)
  <1> USE DEF RunMove
  <1>0. run \in [Run -> Execution]
    BY DEF TypeOK, Execution
  <1>1. CASE UNCHANGED run
    BY <1>0, <1>1
  <1>2. ASSUME NEW w \in Watch, Start(w)
        PROVE run' \in [Run -> Execution] /\ \A r \in Run : RunMove(r)
    <2>1. PICK r \in Run :
            /\ run[r].pc = "idle" /\ TryMark(w)
            /\ run' = [run EXCEPT ![r] = [Idle EXCEPT !.pc = "queued", !.w = w]]
      BY <1>2 DEF Start
    <2>2. [Idle EXCEPT !.pc = "queued", !.w = w] \in Execution
      BY QueuedRun
    <2> QED
      BY <1>0, <2>1, <2>2 DEF TryMark
  <1>3. ASSUME NEW r \in Run, Enter(r)
        PROVE run' \in [Run -> Execution] /\ \A q \in Run : RunMove(q)
    <2>1. table[run[r].w].to \in Seq(Name)
      BY <1>0, Uris DEF TypeOK, Execution
    <2>2. /\ run[r].pc = "queued"
          /\ run' = [run EXCEPT ![r] = [run[r] EXCEPT !.pc = "wait", !.uri = table[run[r].w].to]]
      BY <1>0, <1>3 DEF Enter, Execution
    <2> QED
      BY <1>0, <1>3, <2>1, <2>2 DEF Execution, Admitted
  <1>4. ASSUME NEW r \in Run, NEW pc \in {"record", "off", "leave"}, run[r].pc \in Leased,
               \/ run' = [run EXCEPT ![r].pc = pc]
               \/ \E b \in BOOLEAN : run' = [run EXCEPT ![r].pc = pc, ![r].off = b]
        PROVE run' \in [Run -> Execution] /\ \A q \in Run : RunMove(q)
    <2>1. run[r] \in Execution /\ run[r].off \in BOOLEAN
      BY <1>0 DEF Execution
    <2>a. [run[r] EXCEPT !.pc = pc] = [run[r] EXCEPT !.pc = pc, !.off = run[r].off]
      BY <2>1 DEF Execution
    <2>b. \/ run' = [run EXCEPT ![r] = [run[r] EXCEPT !.pc = pc]]
          \/ \E b \in BOOLEAN : run' = [run EXCEPT ![r] = [run[r] EXCEPT !.pc = pc, !.off = b]]
      BY <1>4, <2>1
    <2>2. PICK b \in BOOLEAN : run' = [run EXCEPT ![r] = [run[r] EXCEPT !.pc = pc, !.off = b]]
      BY <2>1, <2>a, <2>b
    <2>3. pc \in Leased
      BY DEF Leased
    <2>4. [run[r] EXCEPT !.pc = pc, !.off = b] \in Execution
      BY <1>0, <2>3 DEF Execution, Admitted
    <2>5. run'[r] = [run[r] EXCEPT !.pc = pc, !.off = b] /\ \A q \in Run \ {r} : run'[q] = run[q]
      BY <1>0, <2>2
    <2> QED
      BY <1>0, <1>4, <2>2, <2>4, <2>5
  <1>5. ASSUME NEW r \in Run, run' = [run EXCEPT ![r] = Idle]
        PROVE run' \in [Run -> Execution] /\ \A q \in Run : RunMove(q)
    BY <1>0, <1>5, IdleRun
  <1>6. ASSUME NEW r \in Run, Access(r)
        PROVE run' \in [Run -> Execution] /\ \A q \in Run : RunMove(q)
    BY <1>0, <1>6 DEF Access, Goto, Execution, Admitted, Leased
  <1>7. ASSUME NEW r \in Run, Look(r)
        PROVE run' \in [Run -> Execution] /\ \A q \in Run : RunMove(q)
    <2>1. table[run[r].w].to \in Seq(Name)
      BY <1>0, Uris DEF TypeOK, Execution
    <2>2. CASE Goto(r, "leave")
      BY <1>4, <1>7, <2>2 DEF Look, Goto, Leased
    <2>3. CASE table[run[r].w].exists /\ Stable(r) /\ Goto(r, "check")
      BY <1>0, <1>7, <2>3 DEF Look, Goto, Stable, Execution, Admitted, Leased
    <2>4. CASE run' = [run EXCEPT ![r].pc = "wait", ![r].uri = table[run[r].w].to]
      BY <1>0, <1>7, <2>1, <2>4 DEF Look, Execution, Admitted, Leased
    <2> QED
      BY <1>7, <2>2, <2>3, <2>4 DEF Look
  <1>8. ASSUME NEW r \in Run, Check(r)
        PROVE run' \in [Run -> Execution] /\ \A q \in Run : RunMove(q)
    <2>1. CASE run' = [run EXCEPT ![r].pc = "record", ![r].off = TRUE]
      BY <1>4, <1>8, <2>1 DEF Check, Leased
    <2>2. CASE Goto(r, "import")
      BY <1>0, <1>8, <2>2 DEF Check, Goto, Execution, Admitted, Leased
    <2> QED
      BY <1>8, <2>1, <2>2 DEF Check
  <1>9. ASSUME NEW r \in Run, Import(r) \/ Record(r) \/ TurnOff(r)
        PROVE run' \in [Run -> Execution] /\ \A q \in Run : RunMove(q)
    <2>1. run[r].pc \in Leased
      BY <1>9 DEF Import, Record, TurnOff, Leased
    <2>2. \/ Goto(r, "record") \/ Goto(r, "off") \/ Goto(r, "leave")
          \/ \E b \in BOOLEAN : run' = [run EXCEPT ![r].pc = "record", ![r].off = b]
      BY <1>9 DEF Import, Record, TurnOff
    <2> QED
      BY <1>4, <2>1, <2>2 DEF Goto
  <1>10. CASE Restart
    BY <1>10, IdleRun DEF Restart
  <1>11. ASSUME NEW w \in Watch, \/ Tick(w) \/ HeldImport(w) \/ DurableImport(w) \/ JobEnds(w)
                                 \/ DeleteTask(w) \/ \E b \in BOOLEAN : SetActive(w, b)
         PROVE UNCHANGED run
    BY <1>11 DEF Tick, HeldImport, DurableImport, Upsert, JobEnds, DeleteTask, SetActive
  <1>12. CASE MoveRequest \/ MoveStep \/ MoveCancelled \/ RmFiles \/ SyncAfterRm \/ UNCHANGED vars
    BY <1>1, <1>12 DEF MoveRequest, MoveStep, MoveStart, MoveFiles, RewriteTargets, MoveBack, MoveCancelled,
                       RmFiles, SyncAfterRm, Moving, Advance, vars
  <1>13. ASSUME NEW w \in Watch, Pick(w) \/ ScheduleTask(w)
         PROVE Start(w)
    BY <1>13 DEF Pick, ScheduleTask
  <1>14. ASSUME NEW r \in Run, Leave(r) \/ Cancel(r)
         PROVE run' = [run EXCEPT ![r] = Idle]
    BY <1>14 DEF Leave, Cancel
  <1>15. ASSUME NEW i \in late, Deliver(i) \/ EndImport(i)
         PROVE UNCHANGED run
    BY <1>15 DEF Deliver, EndImport
  <1> HIDE DEF RunMove
  <1> QED
    BY <1>1, <1>2, <1>3, <1>5, <1>6, <1>7, <1>8, <1>9, <1>10, <1>11, <1>12, <1>13, <1>14, <1>15
    DEF Next, RunStep

\* An execution is admitted by Enter only, when there is a permit.
LEMMA Permits ==
    ASSUME TypeOK, [Next]_vars
    PROVE  Cardinality({r \in Run : run'[r].pc \in Admitted}) <= MaxConcurrency
  <1> DEFINE A == {r \in Run : run[r].pc \in Admitted}  B == {r \in Run : run'[r].pc \in Admitted}
  <1>1. IsFiniteSet(A) /\ Cardinality(A) \in Nat /\ Cardinality(A) <= MaxConcurrency
    <2>1. IsFiniteSet(Run)
      BY WatchAssumption, FS_Interval DEF Run
    <2> QED
      BY <2>1, FS_Subset, FS_CardinalityType DEF TypeOK
  <1>2. run \in [Run -> Execution] /\ \A r \in Run : RunMove(r)
    BY RunSteps DEF TypeOK, Execution
  <1>3. CASE \E r \in Run : Enter(r)
    <2>1. PICK r \in Run : Enter(r)
      BY <1>3
    <2>2. run' = [run EXCEPT ![r].pc = "wait", ![r].uri = table[run[r].w].to] /\ run[r].pc = "queued"
          /\ Permit
      BY <2>1 DEF Enter
    <2>3. B = A \cup {r} /\ r \notin A
      BY <1>2, <2>2 DEF Admitted, Leased
    <2>4. Cardinality(A \cup {r}) = Cardinality(A) + 1
      BY <1>1, <2>3, FS_AddElement
    <2>5. Cardinality(A) < MaxConcurrency
      BY <2>2 DEF Permit
    <2> HIDE DEF A, B
    <2>6. Cardinality(B) <= MaxConcurrency
      BY <1>1, <2>3, <2>4, <2>5, WatchAssumption
    <2> QED
      BY <2>6 DEF B
  <1>4. CASE ~\E r \in Run : Enter(r)
    <2>1. ASSUME NEW r \in Run, run'[r].pc \in Admitted PROVE run[r].pc \in Admitted
      <3>1. RunMove(r) /\ ~Enter(r) /\ run[r] \in Execution
        BY <1>2, <1>4
      <3>2. CASE run[r].pc = "idle"
        <4>1. run'[r] = run[r] \/ run'[r] = Idle
              \/ \E w \in Watch : run'[r] = [Idle EXCEPT !.pc = "queued", !.w = w]
          BY <3>1, <3>2 DEF RunMove, Leased
        <4>2. run'[r].pc \in {"idle", "queued"}
          BY <3>2, <4>1, IdleRun, QueuedRun
        <4> QED
          BY <2>1, <4>2 DEF Admitted, Leased
      <3>3. CASE run[r].pc = "queued"
        BY <2>1, <3>1, <3>3, IdleRun DEF RunMove, Execution, Admitted, Leased
      <3> QED
        BY <3>1, <3>2, <3>3 DEF Execution
    <2>2. B \subseteq A
      BY <2>1
    <2> HIDE DEF A, B
    <2>3. Cardinality(B) <= Cardinality(A) /\ Cardinality(B) \in Nat
      BY <1>1, <2>2, FS_Subset, FS_CardinalityType
    <2> QED
      BY <1>1, <2>3, WatchAssumption DEF B
  <1> QED
    BY <1>3, <1>4

\* The table and its copy keep their types.
LEMMA TablesTyped ==
    ASSUME TypeOK, MoveNamed, [Next]_vars
    PROVE  table' \in [Watch -> Task] /\ saved' \in [Watch -> Task] /\ faults' \in 0..MaxFault
  <1>0. /\ table \in [Watch -> Task] /\ saved \in [Watch -> Task] /\ faults \in 0..MaxFault
        /\ MaxFault \in Nat /\ run \in [Run -> Execution]
    BY WatchAssumption DEF TypeOK, Task, Execution
  <1>1. ASSUME Fault PROVE faults' \in 0..MaxFault
    BY <1>0, <1>1 DEF Fault
  <1>2. ASSUME NEW ws, table' = Deactivated(ws) PROVE table' \in [Watch -> Task]
    BY <1>0, <1>2 DEF Deactivated, Task
  <1>3. ASSUME NEW w \in Watch, RecordExecution(w)
        PROVE table' = table /\ (Save \/ SaveFails \/ UNCHANGED <<saved, faults>>)
    BY <1>3 DEF RecordExecution, SaveOrNot
  <1>4. ASSUME NEW w \in Watch, Tick(w) \/ Pick(w) \/ ScheduleTask(w)
        PROVE UNCHANGED <<table, saved, faults>>
    BY <1>4 DEF Tick, Pick, ScheduleTask, Start
  <1>5. ASSUME NEW w \in Watch, HeldImport(w) \/ DurableImport(w)
        PROVE table' \in [Watch -> Task] /\ (Save \/ SaveFails)
    <2>1. Upsert(w) /\ (Save \/ SaveFails)
      BY <1>5 DEF HeldImport, DurableImport
    <2> QED
      BY <1>0, <2>1 DEF Upsert, Task
  <1>6. ASSUME NEW w \in Watch, JobEnds(w)
        PROVE table' = table /\ (Save \/ SaveFails \/ UNCHANGED <<saved, faults>>)
    BY <1>3, <1>6 DEF JobEnds
  <1>7. ASSUME NEW w \in Watch, DeleteTask(w)
        PROVE table' \in [Watch -> Task] /\ (Save \/ SaveFails)
    BY <1>0, <1>7 DEF DeleteTask, Task
  <1>8. ASSUME NEW w \in Watch, NEW b \in BOOLEAN, SetActive(w, b)
        PROVE table' \in [Watch -> Task] /\ (Save \/ SaveFails)
    BY <1>0, <1>8 DEF SetActive, SaveOrNot, Task
  <1>9. ASSUME NEW r \in Run, \/ Enter(r) \/ Access(r) \/ Look(r) \/ Check(r)
                              \/ Import(r) \/ Leave(r)
        PROVE UNCHANGED <<table, saved>> /\ (Fault \/ UNCHANGED faults)
    BY <1>9 DEF Enter, Access, Look, Check, Import, Leave
  <1>10. ASSUME NEW r \in Run, Record(r)
         PROVE table' = table /\ (Save \/ SaveFails \/ UNCHANGED <<saved, faults>>)
    <2>1. run[r].w \in Watch
      BY <1>0 DEF Execution
    <2> QED
      BY <1>3, <1>10, <2>1 DEF Record
  <1>11. ASSUME NEW r \in Run, TurnOff(r)
         PROVE table' \in [Watch -> Task] /\ (Save \/ SaveFails \/ UNCHANGED <<saved, faults>>)
    BY <1>0, <1>2, <1>11 DEF TurnOff, SaveOrNot
  <1>12. ASSUME NEW r \in Run, Cancel(r) PROVE UNCHANGED table /\ saved' \in {table, saved} /\ Fault
    BY <1>12 DEF Cancel
  <1>13. CASE MoveRequest \/ MoveStart \/ MoveFiles \/ MoveCancelled \/ RmFiles \/ UNCHANGED vars
    <2>1. UNCHANGED <<table, saved>> /\ (Fault \/ UNCHANGED faults)
      BY <1>13 DEF MoveRequest, MoveStart, MoveFiles, MoveCancelled, RmFiles, vars
    <2> QED
      BY <1>0, <1>1, <2>1
  <1>14. CASE RewriteTargets
    <2>1. move.to # Gone
      BY <1>14 DEF RewriteTargets, MoveNamed
    <2>2. \A w \in Watch : Rewritten(table[w].to) \in Uri
      BY <1>0, <2>1, RewriteMeans DEF Task, Uri, Gone
    <2>3. \/ table' = [w \in Watch |-> IF w \in Matching(move.from)
                                       THEN [table[w] EXCEPT !.to = Rewritten(table[w].to)] ELSE table[w]]
          \/ table' = table
      BY <1>14 DEF RewriteTargets
    <2>4. table' \in [Watch -> Task]
      BY <1>0, <2>2, <2>3 DEF Task
    <2>5. Save \/ SaveFails \/ UNCHANGED <<saved, faults>>
      BY <1>14 DEF RewriteTargets
    <2> QED
      BY <2>4, <2>5, SaveTypes
  <1>15. CASE MoveBack
    BY <1>0, <1>1, <1>15 DEF MoveBack
  <1>16. CASE SyncAfterRm
    <2>1. table' = Deactivated(Matching(rm)) /\ (Save \/ SaveFails \/ UNCHANGED <<saved, faults>>)
      BY <1>16 DEF SyncAfterRm, SaveOrNot
    <2> QED
      BY <1>2, <2>1, SaveTypes
  <1>17. CASE Restart
    BY <1>0, <1>1, <1>17 DEF Restart
  <1>18. ASSUME table' \in [Watch -> Task], Save \/ SaveFails \/ UNCHANGED <<saved, faults>>
         PROVE table' \in [Watch -> Task] /\ saved' \in [Watch -> Task] /\ faults' \in 0..MaxFault
    BY <1>18, SaveTypes
  <1>19. ASSUME NEW w \in Watch, \/ Tick(w) \/ Pick(w) \/ ScheduleTask(w)
                                 \/ HeldImport(w) \/ DurableImport(w) \/ JobEnds(w)
                                 \/ DeleteTask(w) \/ \E b \in BOOLEAN : SetActive(w, b)
         PROVE table' \in [Watch -> Task] /\ saved' \in [Watch -> Task] /\ faults' \in 0..MaxFault
    BY <1>0, <1>4, <1>5, <1>6, <1>7, <1>8, <1>18, <1>19
  <1>20. ASSUME NEW r \in Run, Enter(r) \/ RunStep(r) \/ Cancel(r)
         PROVE table' \in [Watch -> Task] /\ saved' \in [Watch -> Task] /\ faults' \in 0..MaxFault
    BY <1>0, <1>1, <1>9, <1>10, <1>11, <1>12, <1>18, <1>20 DEF RunStep
  <1>21. ASSUME NEW i \in late, Deliver(i) \/ EndImport(i)
         PROVE table' \in [Watch -> Task] /\ saved' \in [Watch -> Task] /\ faults' \in 0..MaxFault
    BY <1>0, <1>21 DEF Deliver, EndImport
  <1> QED
    BY <1>13, <1>14, <1>15, <1>16, <1>17, <1>19, <1>20, <1>21 DEF Next, MoveStep

\* Places and broken off moves of them are sets of URIs.
LEMMA PlacesTyped ==
    ASSUME TypeOK, move.to # Gone
    PROVE  /\ Relocated \in [Watch -> SUBSET Seq(Name)] /\ Returned \in [Watch -> SUBSET Seq(Name)]
           /\ Torn(Relocated) \subseteq [Watch -> SUBSET Seq(Name)]
           /\ Torn(Returned) \subseteq [Watch -> SUBSET Seq(Name)]
  <1>0. at \in [Watch -> SUBSET Seq(Name)] /\ move.from \in Seq(Name) /\ move.to \in Seq(Name)
    BY DEF TypeOK
  <1>1. \A u \in Seq(Name) : Rewritten(u) \in Seq(Name)
    BY RewriteMeans
  <1>2. ASSUME NEW u \in Seq(Name) PROVE Back(u) \in Seq(Name)
    <2>1. CASE Under(u, move.to)
      BY <1>0, <2>1, SwapMeans DEF Back, Under, Swap
    <2> QED
      BY <2>1 DEF Back
  <1>3. Relocated \in [Watch -> SUBSET Seq(Name)]
    BY <1>0, <1>1 DEF Relocated
  <1>4. Returned \in [Watch -> SUBSET Seq(Name)]
    BY <1>0, <1>2 DEF Returned
  <1>5. ASSUME NEW new \in [Watch -> SUBSET Seq(Name)] PROVE Torn(new) \subseteq [Watch -> SUBSET Seq(Name)]
    <2>1. \A w \in Watch : at[w] \cup new[w] \in SUBSET Seq(Name)
      BY <1>0
    <2>2. [w \in Watch |-> at[w] \cup new[w]] \in [Watch -> SUBSET Seq(Name)]
      BY <2>1
    <2> QED
      BY <2>2 DEF Torn
  <1> QED
    BY <1>3, <1>4, <1>5

\* A resource put at a URI.
LEMMA PutTyped ==
    ASSUME TypeOK, NEW w \in Watch, NEW u \in Seq(Name), Put(w, u)
    PROVE  /\ at' \in [Watch -> SUBSET Seq(Name)]
           /\ at'[w] = at[w] \cup {u} /\ \A x \in Watch \ {w} : at'[x] = at[x]
  <1>1. at \in [Watch -> SUBSET Seq(Name)] /\ at' = [at EXCEPT ![w] = at[w] \cup {u}]
    BY DEF TypeOK, Put
  <1> QED
    BY <1>1

\* The resources, the imports, the move and the removal keep their types.
LEMMA FilesTyped ==
    ASSUME TypeOK, MoveNamed, [Next]_vars
    PROVE  /\ at' \in [Watch -> SUBSET Seq(Name)] /\ rm' \in Seq(Name)
           /\ late' \subseteq Watch \X Seq(Name)
           /\ move' \in [pc : {"idle", "wait", "held", "moved", "undo"}, from : Seq(Name), to : Seq(Name)]
           /\ MoveNamed'
  <1> DEFINE Move == [pc : {"idle", "wait", "held", "moved", "undo"}, from : Seq(Name), to : Seq(Name)]
             Places == [Watch -> SUBSET Seq(Name)]
             Late == Watch \X Seq(Name)
             Goal == /\ at' \in Places /\ rm' \in Seq(Name) /\ late' \subseteq Late
                     /\ move' \in Move /\ MoveNamed'
  <1>0. /\ at \in Places /\ rm \in Seq(Name) /\ move \in Move /\ late \subseteq Late
        /\ table \in [Watch -> Task] /\ run \in [Run -> Execution]
    BY DEF TypeOK, Task, Execution
  <1>a. \A pc \in {"held", "moved", "undo"} : move.pc # "idle" /\ move' = [move EXCEPT !.pc = pc]
            => move' \in Move /\ MoveNamed'
    BY <1>0 DEF MoveNamed
  <1>b. move' = NoMove => move' \in Move /\ MoveNamed'
    BY Uris DEF NoMove, MoveNamed
  <1>c. move' = move => move' \in Move /\ MoveNamed'
    BY <1>0 DEF MoveNamed
  <1>d. \A r \in Run : run[r].uri \in Seq(Name) /\ run[r].w \in Watch /\ <<run[r].w, run[r].uri>> \in Late
    BY <1>0 DEF Execution
  <1>e. \A w \in Watch : table[w].to \in Seq(Name) /\ <<w, table[w].to>> \in Late
    BY <1>0, Uris DEF Task
  <1> SUFFICES Goal
    OBVIOUS
  <1> HIDE DEF Move, Places, Late
  <1>1. CASE UNCHANGED files
    BY <1>0, <1>1, <1>c DEF files
  <1>2. ASSUME NEW w \in Watch, HeldImport(w) \/ DurableImport(w) PROVE Goal
    <2>1. /\ UNCHANGED <<move, rm>> /\ (UNCHANGED at \/ Put(w, table[w].to))
          /\ late' = late \/ late' = late \cup {<<w, table[w].to>>}
      BY <1>2 DEF HeldImport, DurableImport, Upsert
    <2>2. at' \in Places
      BY <1>0, <1>e, <2>1, PutTyped DEF Places
    <2> QED
      BY <1>0, <1>c, <1>e, <2>1, <2>2
  <1>3. ASSUME NEW r \in Run, Import(r) PROVE Goal
    <2>1. /\ UNCHANGED <<move, rm>> /\ (UNCHANGED at \/ Put(run[r].w, run[r].uri))
          /\ late' = late \/ late' = late \cup {<<run[r].w, run[r].uri>>}
      BY <1>3 DEF Import
    <2>2. at' \in Places
      BY <1>0, <1>d, <2>1, PutTyped DEF Places
    <2> QED
      BY <1>0, <1>c, <1>d, <2>1, <2>2
  <1>4. CASE MoveRequest
    <2>1. PICK m \in Moves : move' = [pc |-> "wait", from |-> m[1], to |-> m[2]] /\ UNCHANGED <<rm, at, late>>
      BY <1>4 DEF MoveRequest, Moving
    <2>2. m[1] \in Uri /\ m[2] \in Uri
      BY WatchAssumption
    <2> QED
      BY <1>0, <2>1, <2>2, Uris DEF MoveNamed, Move
  <1>5. CASE MoveStart
    BY <1>0, <1>a, <1>b, <1>5 DEF MoveStart, Moving, Advance
  <1>6. CASE MoveFiles
    <2>1. move.to # Gone /\ move.pc # "idle"
      BY <1>6 DEF MoveFiles, MoveNamed
    <2>2. at' \in Places /\ UNCHANGED <<rm, late>>
      BY <1>0, <1>6, <2>1, PlacesTyped DEF MoveFiles, Moving, Advance, Places
    <2>3. move' = NoMove \/ move' = [move EXCEPT !.pc = "moved"]
      BY <1>6 DEF MoveFiles, Moving, Advance
    <2> QED
      BY <1>0, <1>a, <1>b, <2>1, <2>2, <2>3
  <1>7. CASE RewriteTargets
    BY <1>0, <1>a, <1>b, <1>7 DEF RewriteTargets, Moving, Advance
  <1>8. CASE MoveBack
    <2>1. move.to # Gone
      BY <1>8 DEF MoveBack, MoveNamed
    <2>2. at' \in Places /\ UNCHANGED <<rm, late>> /\ move' = NoMove
      BY <1>0, <1>8, <2>1, PlacesTyped DEF MoveBack, Moving, Places
    <2> QED
      BY <1>0, <1>b, <2>2
  <1>9. CASE RmFiles
    <2>1. PICK w \in Watch : \E u \in at[w] : rm' = u
      BY <1>9 DEF RmFiles
    <2>2. rm' \in Seq(Name)
      BY <1>0, <2>1 DEF Places
    <2>3. UNCHANGED <<move, late>> /\ at' = [x \in Watch |-> {u \in at[x] : ~Under(u, rm')}]
      BY <1>9 DEF RmFiles
    <2>4. at' \in Places
      BY <1>0, <2>3 DEF Places
    <2> QED
      BY <1>0, <1>c, <2>2, <2>3, <2>4
  <1>10. CASE SyncAfterRm
    BY <1>0, <1>c, <1>10, Uris DEF SyncAfterRm
  <1>11. CASE Restart
    <2>1. at' = at \/ (move.pc = "held" /\ at' \in Torn(Relocated))
      BY <1>11 DEF Restart
    <2>2. at' \in Places
      BY <1>0, <2>1, PlacesTyped DEF MoveNamed, Places
    <2>3. late' \subseteq Late
      BY <1>0, <1>d, <1>11 DEF Restart
    <2> QED
      BY <1>b, <1>11, <2>2, <2>3, Uris DEF Restart
  <1>12. ASSUME NEW w \in Watch, \/ Tick(w) \/ Pick(w) \/ ScheduleTask(w) \/ JobEnds(w)
                                 \/ DeleteTask(w) \/ \E b \in BOOLEAN : SetActive(w, b)
         PROVE UNCHANGED files
    BY <1>12 DEF Tick, Pick, ScheduleTask, Start, JobEnds, DeleteTask, SetActive
  <1>13. ASSUME NEW r \in Run, \/ Enter(r) \/ Access(r) \/ Look(r) \/ Check(r) \/ Record(r)
                               \/ TurnOff(r) \/ Leave(r)
         PROVE UNCHANGED files
    BY <1>13 DEF Enter, Access, Look, Check, Record, TurnOff, Leave, Same
  <1>14. ASSUME NEW r \in Run, Cancel(r) PROVE Goal
    <2>1. UNCHANGED <<at, move, rm>> /\ (late' = late \/ late' = late \cup {<<run[r].w, run[r].uri>>})
      BY <1>14 DEF Cancel
    <2> QED
      BY <1>0, <1>c, <1>d, <2>1
  <1>15. ASSUME NEW i \in late, Deliver(i) \/ EndImport(i) PROVE Goal
    <2>1. /\ UNCHANGED <<move, rm>> /\ late' \subseteq late
          /\ UNCHANGED at \/ Put(i[1], i[2])
      BY <1>15 DEF Deliver, EndImport
    <2>2. i[1] \in Watch /\ i[2] \in Seq(Name)
      BY <1>0 DEF Late
    <2>3. at' \in Places
      BY <1>0, <2>1, <2>2, PutTyped DEF Places
    <2> QED
      BY <1>0, <1>c, <2>1, <2>3
  <1>16. CASE MoveCancelled
    BY <1>0, <1>b, <1>16 DEF MoveCancelled, Moving
  <1>17. CASE UNCHANGED vars
    BY <1>1, <1>17 DEF vars
  <1> HIDE DEF Goal
  <1>18. Goal
    BY <1>1, <1>2, <1>3, <1>4, <1>5, <1>6, <1>7, <1>8, <1>9, <1>10, <1>11, <1>12, <1>13, <1>14, <1>15,
       <1>16, <1>17
    DEF Next, RunStep, MoveStep
  <1> QED
    BY <1>18

\* The marks, the imports and the histories keep their types.
LEMMA MarksTyped ==
    ASSUME TypeOK, [Next]_vars
    PROVE  /\ due' \subseteq Watch /\ executing' \subseteq Watch
           /\ job' \in [Watch -> {"none", "held", "free"}] /\ asks' \in 0..MaxAsk
           /\ stolen' \subseteq Watch /\ lost' \subseteq Watch
  <1> DEFINE Goal == /\ due' \subseteq Watch /\ executing' \subseteq Watch
                     /\ job' \in [Watch -> {"none", "held", "free"}] /\ asks' \in 0..MaxAsk
                     /\ stolen' \subseteq Watch /\ lost' \subseteq Watch
  <1>0. /\ due \subseteq Watch /\ executing \subseteq Watch /\ job \in [Watch -> {"none", "held", "free"}]
        /\ asks \in 0..MaxAsk /\ MaxAsk \in Nat /\ stolen \subseteq Watch /\ lost \subseteq Watch
    BY WatchAssumption DEF TypeOK
  <1>a. Ask => asks' \in 0..MaxAsk
    BY <1>0 DEF Ask
  <1>b. \A u : Matching(u) \subseteq Watch
    BY DEF Matching
  <1>1. ASSUME NEW w \in Watch, Tick(w) \/ Pick(w) \/ ScheduleTask(w) PROVE Goal
    BY <1>0, <1>a, <1>1 DEF Tick, Pick, ScheduleTask, Start, TryMark, history
  <1>2. ASSUME NEW w \in Watch, HeldImport(w) \/ DurableImport(w) PROVE Goal
    BY <1>0, <1>a, <1>2 DEF HeldImport, DurableImport, Upsert, TryMark, history
  <1>3. ASSUME NEW w \in Watch, JobEnds(w) PROVE Goal
    BY <1>0, <1>3 DEF JobEnds, RecordExecution, Discard
  <1>4. ASSUME NEW w \in Watch, DeleteTask(w) \/ \E b \in BOOLEAN : SetActive(w, b) PROVE Goal
    BY <1>0, <1>a, <1>4 DEF DeleteTask, SetActive, history
  <1>5. ASSUME NEW r \in Run, Enter(r) \/ RunStep(r) \/ Cancel(r) PROVE Goal
    BY <1>0, <1>5 DEF RunStep, Enter, Access, Look, Check, Import, Record, RecordExecution, TurnOff,
                      Leave, Cancel, Discard, Same, history
  <1>c. Outrun \subseteq Watch
    BY DEF Outrun
  <1>6. CASE MoveRequest \/ MoveStep \/ MoveCancelled
    BY <1>0, <1>a, <1>b, <1>c, <1>6 DEF MoveRequest, MoveStep, MoveStart, MoveFiles, RewriteTargets, MoveBack,
                                  MoveCancelled, Moving, Advance
  <1>7. CASE RmFiles \/ SyncAfterRm
    BY <1>0, <1>a, <1>7 DEF RmFiles, SyncAfterRm, history
  <1>8. CASE Restart
    BY <1>0, <1>b, <1>8 DEF Restart
  <1>9. CASE UNCHANGED vars
    BY <1>0, <1>9 DEF vars, history
  <1>10. ASSUME NEW i \in late, Deliver(i) \/ EndImport(i) PROVE Goal
    BY <1>0, <1>10 DEF Deliver, EndImport, history
  <1> HIDE DEF Goal
  <1>11. Goal
    BY <1>1, <1>2, <1>3, <1>4, <1>5, <1>6, <1>7, <1>8, <1>9, <1>10 DEF Next, Goal
  <1> QED
    BY <1>11 DEF Goal

\* All variables keep their types.
LEMMA TypeStep == TypeOK /\ MoveNamed /\ [Next]_vars => TypeOK' /\ MoveNamed'
  BY RunSteps, Permits, TablesTyped, FilesTyped, MarksTyped DEF TypeOK, Task, Execution

-----------------------------------------------------------------------------
(* Leases *)

\* Who holds a lease held it, or has just been given it by Access.
LEMMA LeasesFrom ==
    ASSUME TypeOK, [Next]_vars, NEW r \in Run, run'[r].pc \in Leased
    PROVE  /\ run'[r].uri = run[r].uri /\ run'[r].w = run[r].w
           /\ run[r].pc \in Leased \/ (run[r].pc = "wait" /\ ~Blocked(run[r].uri))
  <1>1. RunMove(r) /\ run[r] \in Execution
    BY RunSteps DEF TypeOK, Execution
  <1>2. run'[r] # Idle /\ \A w \in Watch : run'[r] # [Idle EXCEPT !.pc = "queued", !.w = w]
    BY IdleRun, QueuedRun DEF Leased
  <1> QED
    BY <1>1, <1>2 DEF RunMove, Execution, Leased

\* An active move was active, or has just been given its lease and validated.
LEMMA MovesFrom ==
    ASSUME TypeOK, [Next]_vars, Active'
    PROVE  /\ move'.from = move.from /\ move'.to = move.to
           /\ \/ Active
              \/ /\ move.pc = "wait" /\ move'.pc = "held" /\ MoveFree /\ ~Conflict
                 /\ UNCHANGED <<run, table, at, lost>>
  <1> DEFINE Goal == /\ move'.from = move.from /\ move'.to = move.to
                     /\ \/ Active
                        \/ /\ move.pc = "wait" /\ move'.pc = "held" /\ MoveFree /\ ~Conflict
                           /\ UNCHANGED <<run, table, at, lost>>
  <1>0. DOMAIN move = {"pc", "from", "to"}
    BY DEF TypeOK
  <1>a. move' = move => Goal
    BY DEF Active
  <1>b. move' # NoMove
    BY Cancelled DEF Active
  <1>1. ASSUME NEW w \in Watch, \/ Tick(w) \/ Pick(w) \/ ScheduleTask(w)
                                \/ HeldImport(w) \/ DurableImport(w) \/ JobEnds(w)
                                \/ DeleteTask(w) \/ \E b \in BOOLEAN : SetActive(w, b)
        PROVE move' = move
    BY <1>1 DEF Tick, Pick, ScheduleTask, Start, HeldImport, DurableImport, Upsert, JobEnds,
                DeleteTask, SetActive, files
  <1>2. ASSUME NEW r \in Run, Enter(r) \/ RunStep(r) \/ Cancel(r) PROVE move' = move
    BY <1>2 DEF RunStep, Enter, Access, Look, Check, Import, Record, TurnOff, Leave, Cancel, Same, files
  <1>3. CASE MoveRequest
    BY <1>3 DEF MoveRequest, Moving, Active
  <1>4. CASE MoveStart
    <2>1. Advance("held") /\ ~Conflict
      BY <1>4, <1>b DEF MoveStart, Moving
    <2> QED
      BY <1>0, <1>4, <2>1 DEF MoveStart, Advance, Moving
  <1>5. CASE MoveFiles
    <2>1. Advance("moved") /\ Active
      BY <1>5, <1>b DEF MoveFiles, Moving, Active
    <2> QED
      BY <1>0, <2>1 DEF Advance, Moving
  <1>6. CASE RewriteTargets
    <2>1. Advance("undo") /\ Active
      BY <1>6, <1>b DEF RewriteTargets, Moving, Active
    <2> QED
      BY <1>0, <2>1 DEF Advance, Moving
  <1>7. CASE MoveBack \/ MoveCancelled \/ Restart
    BY <1>b, <1>7 DEF MoveBack, MoveCancelled, Moving, Restart
  <1>8. CASE RmFiles \/ SyncAfterRm \/ UNCHANGED vars
    BY <1>a, <1>8 DEF RmFiles, SyncAfterRm, vars, files
  <1>9. ASSUME NEW i \in late, Deliver(i) \/ EndImport(i) PROVE move' = move
    BY <1>9 DEF Deliver, EndImport
  <1> HIDE DEF Goal
  <1>10. Goal
    BY <1>a, <1>1, <1>2, <1>3, <1>4, <1>5, <1>6, <1>7, <1>8, <1>9 DEF Next, MoveStep, Goal
  <1> QED
    BY <1>10 DEF Goal

\* Leases and an active move stay apart.
LEMMA ApartStep == TypeOK /\ LeasesApart /\ [Next]_vars => LeasesApart'
  <1> SUFFICES ASSUME TypeOK, LeasesApart, [Next]_vars, Active', NEW r \in Run, run'[r].pc \in Leased
               PROVE  ~Overlap(run'[r].uri, move'.from) /\ ~Overlap(run'[r].uri, move'.to)
    BY DEF LeasesApart, MoveFree, Touches, Overlap
  <1>1. move'.from = move.from /\ move'.to = move.to /\ run'[r].uri = run[r].uri
    BY MovesFrom, LeasesFrom
  <1>2. ~Touches(run[r].uri)
    <2>1. CASE Active /\ run[r].pc \in Leased
      BY <2>1 DEF LeasesApart, MoveFree
    <2>2. CASE Active /\ run[r].pc \notin Leased
      BY <2>2, LeasesFrom DEF Blocked, Active
    <2>3. CASE ~Active
      BY <2>3, MovesFrom DEF MoveFree
    <2> QED
      BY <2>1, <2>2, <2>3
  <1> QED
    BY <1>1, <1>2 DEF Touches

-----------------------------------------------------------------------------
(* What the other steps do *)

\* A step that moves no resource and leaves targets and existence of the watches.
Plain ==
    /\ UNCHANGED <<at, move, lost>> /\ saved' \in {saved, table'}
    /\ \A w \in Watch : table'[w].to = table[w].to /\ table'[w].exists = table[w].exists

\* A resource arrives at a URI: at the end of a refresh, or from an import that
\* holds no lease.
Lands(w, u) ==
    /\ Put(w, u) /\ UNCHANGED <<table, saved, move, lost>>
    /\ \/ \E r \in Run : run[r].pc = "import" /\ run[r].w = w /\ run[r].uri = u
       \/ <<w, u>> \in late
Imports(w) == HeldImport(w) \/ DurableImport(w)

\* Every step is plain or one of those that are not.
LEMMA Kinds ==
    ASSUME TypeOK, [Next]_vars
    PROVE  \/ Plain
           \/ \E w \in Watch, u \in Seq(Name) : Lands(w, u)
           \/ \E w \in Watch : Imports(w) \/ DeleteTask(w)
           \/ MoveRequest \/ MoveStep \/ MoveCancelled \/ RmFiles \/ Restart
  <1>0. table \in [Watch -> Task] /\ run \in [Run -> Execution] /\ late \subseteq Watch \X Seq(Name)
    BY DEF TypeOK, Task, Execution
  <1>a. ASSUME UNCHANGED <<at, move, lost, table>>, saved' \in {saved, table'} PROVE Plain
    BY <1>a DEF Plain
  <1>b. SaveOrNot => saved' \in {saved, table'}
    BY DEF SaveOrNot, Save, SaveFails
  <1>c. ASSUME NEW ws, table' = Deactivated(ws), UNCHANGED <<at, move, lost>>, saved' \in {saved, table'}
        PROVE Plain
    BY <1>0, <1>c DEF Plain, Deactivated, Task
  <1>1. ASSUME NEW w \in Watch, Tick(w) \/ Pick(w) \/ ScheduleTask(w) PROVE Plain
    BY <1>a, <1>1 DEF Tick, Pick, ScheduleTask, Start, files, history
  <1>2. ASSUME NEW w \in Watch, HeldImport(w) \/ DurableImport(w) PROVE Imports(w)
    BY <1>2 DEF Imports
  <1>3. ASSUME NEW w \in Watch, JobEnds(w) PROVE Plain
    BY <1>a, <1>b, <1>3 DEF JobEnds, RecordExecution, files
  <1>4. ASSUME NEW w \in Watch, NEW b \in BOOLEAN, SetActive(w, b) PROVE Plain
    BY <1>0, <1>b, <1>4 DEF SetActive, files, history, Plain, Task
  <1>5. ASSUME NEW r \in Run, Enter(r) \/ Access(r) \/ Look(r) \/ Check(r) \/ Leave(r) \/ Cancel(r)
        PROVE Plain
    BY <1>a, <1>5 DEF Enter, Access, Look, Check, Leave, Cancel, Same, files, history
  <1>6. ASSUME NEW r \in Run, Record(r) PROVE Plain
    BY <1>a, <1>b, <1>6 DEF Record, RecordExecution, Same, files, history
  <1>7. ASSUME NEW r \in Run, TurnOff(r) PROVE Plain
    BY <1>a, <1>b, <1>c, <1>7 DEF TurnOff, Same, files, history
  <1>8. CASE SyncAfterRm
    BY <1>b, <1>c, <1>8 DEF SyncAfterRm, history
  <1>9. CASE UNCHANGED vars
    BY <1>a, <1>9 DEF vars, files, history
  <1>10. ASSUME NEW r \in Run, Import(r)
         PROVE Plain \/ \E w \in Watch, u \in Seq(Name) : Lands(w, u)
    <2>1. run[r].w \in Watch /\ run[r].uri \in Seq(Name)
      BY <1>0 DEF Execution
    <2>2. CASE UNCHANGED at
      BY <1>a, <1>10, <2>2 DEF Import, history
    <2>3. CASE Put(run[r].w, run[r].uri)
      <3>1. Lands(run[r].w, run[r].uri)
        BY <1>10, <2>3 DEF Import, Lands, history
      <3> QED
        BY <2>1, <3>1
    <2> QED
      BY <1>10, <2>2, <2>3 DEF Import
  <1>11. ASSUME NEW i \in late, Deliver(i) PROVE \E w \in Watch, u \in Seq(Name) : Lands(w, u)
    <2>1. i[1] \in Watch /\ i[2] \in Seq(Name) /\ i = <<i[1], i[2]>>
      BY <1>0
    <2>2. Lands(i[1], i[2])
      BY <1>11, <2>1 DEF Deliver, Lands, history
    <2> QED
      BY <2>1, <2>2
  <1>12. ASSUME NEW i \in late, EndImport(i) PROVE Plain
    BY <1>a, <1>12 DEF EndImport, history
  <1> QED
    BY <1>1, <1>2, <1>3, <1>4, <1>5, <1>6, <1>7, <1>8, <1>9, <1>10, <1>11, <1>12 DEF Next, RunStep

\* Only the resource that arrives changes its places.
LEMMA LandsDoes ==
    ASSUME TypeOK, NEW w \in Watch, NEW u \in Seq(Name), Lands(w, u)
    PROVE  /\ UNCHANGED <<table, saved, move, lost>>
           /\ at'[w] = at[w] \cup {u} /\ \A x \in Watch \ {w} : at'[x] = at[x]
  BY PutTyped DEF Lands

\* The creation or the update of a watch by an import.
LEMMA ImportsDoes ==
    ASSUME TypeOK, NEW w \in Watch, Imports(w)
    PROVE  /\ ~Blocked(table[w].to)
           /\ table[w].exists \/ (Free(table[w].to) /\ at[w] \subseteq {table[w].to})
           /\ UNCHANGED <<run, move, lost>> /\ saved' \in {saved, table'}
           /\ table'[w].exists /\ \A x \in Watch \ {w} : table'[x] = table[x] /\ at'[x] = at[x]
           /\ table'[w].to = table[w].to
           /\ at'[w] = at[w] \/ at'[w] = at[w] \cup {table[w].to}
  <1>1. table \in [Watch -> Task] /\ table[w].to \in Seq(Name)
    BY Uris DEF TypeOK, Task
  <1>2. Upsert(w) /\ (Save \/ SaveFails) /\ (UNCHANGED at \/ Put(w, table[w].to))
    BY DEF Imports, HeldImport, DurableImport
  <1>3. /\ UNCHANGED at \/ (at'[w] = at[w] \cup {table[w].to} /\ \A x \in Watch \ {w} : at'[x] = at[x])
    BY <1>1, <1>2, PutTyped
  <1>4. PICK b \in BOOLEAN : table' = [table EXCEPT ![w].exists = TRUE, ![w].active = b]
    BY <1>2 DEF Upsert
  <1>5. /\ table'[w].exists /\ table'[w].to = table[w].to
        /\ \A x \in Watch \ {w} : table'[x] = table[x]
    BY <1>1, <1>4 DEF Task
  <1> QED
    BY <1>2, <1>3, <1>5 DEF Upsert, Save, SaveFails, history

\* The deletion of a watch.
LEMMA DeleteDoes ==
    ASSUME TypeOK, NEW w \in Watch, DeleteTask(w)
    PROVE  /\ UNCHANGED <<run, move, at>> /\ ~table'[w].exists
           /\ (saved' = table' /\ lost' = lost) \/ (saved' = saved /\ lost' = lost \cup {w})
           /\ \A x \in Watch \ {w} : table'[x] = table[x]
           /\ table'[w].to = table[w].to
  <1>1. table \in [Watch -> Task]
    BY DEF TypeOK, Task
  <1> QED
    BY <1>1 DEF DeleteTask, Save, SaveFails, files, Task

\* The rewrite of the targets: all of them, or none.
LEMMA RewriteDoes ==
    ASSUME TypeOK, RewriteTargets
    PROVE  /\ move.pc = "moved" /\ UNCHANGED <<run, at, lost>>
           /\ \/ /\ move' = NoMove /\ (saved' = table' \/ (saved' = saved /\ table' = table))
                 /\ \A w \in Watch :
                     /\ table'[w].exists = table[w].exists
                     /\ table'[w].to = IF w \in Matching(move.from)
                                       THEN Rewritten(table[w].to) ELSE table[w].to
              \/ move' = [move EXCEPT !.pc = "undo"] /\ UNCHANGED <<table, saved>>
  <1>1. table \in [Watch -> Task] /\ move.pc = "moved" /\ UNCHANGED <<run, at, lost>>
    BY DEF TypeOK, Task, RewriteTargets, Moving, Advance
  <1>2. CASE UNCHANGED table /\ SaveFails /\ Advance("undo")
    BY <1>1, <1>2 DEF SaveFails, Advance, Moving
  <1>3. CASE /\ table' = [w \in Watch |->
                    IF w \in Matching(move.from)
                    THEN [table[w] EXCEPT !.to = Rewritten(table[w].to)] ELSE table[w]]
             /\ (IF Matching(move.from) = {} THEN UNCHANGED <<saved, faults>> ELSE Save)
             /\ Moving(NoMove)
    <2>1. Matching(move.from) = {} => table' = table
      BY <1>1, <1>3
    <2>2. \A w \in Watch : /\ table'[w].exists = table[w].exists
                           /\ table'[w].to = IF w \in Matching(move.from)
                                             THEN Rewritten(table[w].to) ELSE table[w].to
      BY <1>1, <1>3 DEF Task
    <2> QED
      BY <1>1, <1>3, <2>1, <2>2 DEF Save, Moving
  <1> QED
    BY <1>2, <1>3 DEF RewriteTargets

\* Only a rewrite and a restart change a target.
LEMMA TargetsFixed ==
    ASSUME TypeOK, [Next]_vars, NEW w \in Watch
    PROVE  \/ table'[w].to = table[w].to
           \/ RewriteTargets /\ w \in Matching(move.from)
           \/ Restart
  <1>1. CASE Plain
    BY <1>1 DEF Plain
  <1>2. CASE \E x \in Watch, u \in Seq(Name) : Lands(x, u)
    BY <1>2 DEF Lands
  <1>3. CASE \E x \in Watch : Imports(x) \/ DeleteTask(x)
    <2>1. PICK x \in Watch : Imports(x) \/ DeleteTask(x)
      BY <1>3
    <2> QED
      BY <2>1, ImportsDoes, DeleteDoes
  <1>4. CASE MoveRequest \/ MoveStart \/ MoveFiles \/ MoveBack \/ MoveCancelled \/ RmFiles
    BY <1>4 DEF MoveRequest, MoveStart, MoveFiles, MoveBack, MoveCancelled, RmFiles
  <1>5. CASE RewriteTargets
    BY <1>5, RewriteDoes
  <1> QED
    BY <1>1, <1>2, <1>3, <1>4, <1>5, Kinds DEF MoveStep

\* An execution past the comparison of its target holds its lease, and the target
\* is still the one it compared.
LEMMA HeldFrom ==
    ASSUME TypeOK, TargetHeld, [Next]_vars, NEW r \in Run, run'[r].pc \in {"check", "import"}
    PROVE  /\ run[r].pc \in Leased /\ run'[r].uri = run[r].uri /\ run'[r].w = run[r].w
           /\ table[run[r].w].to = run[r].uri
  <1>1. RunMove(r) /\ run[r] \in Execution
    BY RunSteps DEF TypeOK, Execution
  <1>2. run'[r] # Idle /\ \A w \in Watch : run'[r] # [Idle EXCEPT !.pc = "queued", !.w = w]
    BY IdleRun, QueuedRun
  <1>3. CASE run'[r] = run[r]
    BY <1>3 DEF TargetHeld, Leased
  <1>4. CASE run'[r] # run[r]
    BY <1>1, <1>2, <1>4 DEF RunMove, Execution, TargetHeld, Leased
  <1> QED
    BY <1>3, <1>4

\* A target stays what the execution under the lease compared.
LEMMA HeldStep ==
    TypeOK /\ LeasesApart /\ TargetHeld /\ [Next]_vars => TargetHeld'
  <1> SUFFICES ASSUME TypeOK, LeasesApart, TargetHeld, [Next]_vars,
                      NEW r \in Run, run'[r].pc \in {"check", "import"}
               PROVE  table'[run'[r].w].to = run'[r].uri
    BY DEF TargetHeld
  <1>1. /\ run[r].pc \in Leased /\ run'[r].uri = run[r].uri /\ run'[r].w = run[r].w
        /\ table[run[r].w].to = run[r].uri /\ run[r].w \in Watch
    BY HeldFrom DEF TypeOK
  <1>2. CASE RewriteTargets /\ run[r].w \in Matching(move.from)
    <2>1. ~Touches(run[r].uri)
      BY <1>1, <1>2 DEF RewriteTargets, LeasesApart, Active, MoveFree
    <2>2. Under(run[r].uri, move.from)
      BY <1>1, <1>2 DEF Matching
    <2> QED
      BY <2>1, <2>2, Untouched
  <1>3. CASE Restart
    <2>1. run'[r].pc = "idle"
      BY <1>3, IdleRun DEF Restart
    <2> QED
      BY <2>1
  <1> QED
    BY <1>1, <1>2, <1>3, TargetsFixed

-----------------------------------------------------------------------------
(* The table *)

\* The copy stays or becomes the table.
LEMMA SavedFrom ==
    ASSUME TypeOK, [Next]_vars
    PROVE  saved' = saved \/ saved' = table'
  <1>1. CASE \E x \in Watch : Imports(x) \/ DeleteTask(x)
    <2>1. PICK x \in Watch : Imports(x) \/ DeleteTask(x)
      BY <1>1
    <2> QED
      BY <2>1, ImportsDoes, DeleteDoes
  <1>2. CASE \E x \in Watch, u \in Seq(Name) : Lands(x, u)
    BY <1>2 DEF Lands
  <1>3. CASE MoveRequest \/ MoveStart \/ MoveFiles \/ MoveBack \/ MoveCancelled \/ RmFiles \/ Restart
    BY <1>3 DEF MoveRequest, MoveStart, MoveFiles, MoveBack, MoveCancelled, RmFiles, Restart
  <1>4. CASE RewriteTargets
    BY <1>4, RewriteDoes
  <1> QED
    BY <1>1, <1>2, <1>3, <1>4, Kinds DEF MoveStep, Plain

\* A watch is created by an import only.
LEMMA ExistedBefore ==
    ASSUME TypeOK, [Next]_vars, ~Restart, NEW w \in Watch, table'[w].exists
    PROVE  table[w].exists \/ Imports(w)
  <1>1. CASE \E x \in Watch : Imports(x) \/ DeleteTask(x)
    <2>1. PICK x \in Watch : Imports(x) \/ DeleteTask(x)
      BY <1>1
    <2> QED
      BY <2>1, ImportsDoes, DeleteDoes
  <1>2. CASE \E x \in Watch, u \in Seq(Name) : Lands(x, u)
    BY <1>2 DEF Lands
  <1>3. CASE MoveRequest \/ MoveStart \/ MoveFiles \/ MoveBack \/ MoveCancelled \/ RmFiles
    BY <1>3 DEF MoveRequest, MoveStart, MoveFiles, MoveBack, MoveCancelled, RmFiles
  <1>4. CASE RewriteTargets
    BY <1>4, RewriteDoes
  <1> QED
    BY <1>1, <1>2, <1>3, <1>4, Kinds DEF MoveStep, Plain

\* A validated plan stays valid while the move is active.
LEMMA PlanStep ==
    TypeOK /\ MoveNamed /\ PlanValid /\ [Next]_vars => PlanValid'
  <1> SUFFICES ASSUME TypeOK, MoveNamed, PlanValid, [Next]_vars, Active',
                      NEW w \in Watch, NEW x \in Watch, x # w,
                      table'[w].exists, Under(table'[w].to, move'.from),
                      table'[x].exists, table'[x].to = Rewritten(table[w].to)'
               PROVE  FALSE
    BY DEF PlanValid, Conflict, Matching
  <1>1. move'.from = move.from /\ move'.to = move.to
    BY MovesFrom
  <1>2. CASE ~Active
    <2>1. ~Conflict /\ table' = table
      BY <1>2, MovesFrom
    <2>2. Rewritten(table[w].to)' = Rewritten(table[w].to)
      BY <1>1, <2>1 DEF Rewritten
    <2> QED
      BY <1>1, <2>1, <2>2 DEF Conflict, Matching
  <1>3. CASE Active
    <2>1. move' # NoMove /\ move.pc # "idle" /\ move.to # Gone
      BY <1>3, Cancelled DEF Active, MoveNamed
    <2>2. ~Restart /\ (RewriteTargets => table' = table)
      BY <2>1, RewriteDoes DEF Restart
    <2>3. table'[w].to = table[w].to /\ table'[x].to = table[x].to
      BY <2>2, TargetsFixed
    <2>4. Rewritten(table[w].to)' = Rewritten(table[w].to)
      BY <1>1, <2>3 DEF Rewritten
    <2>5. table[x].to = Rewritten(table[w].to) /\ Under(table[w].to, move.from)
      BY <1>1, <2>3, <2>4
    <2>6. ~Conflict
      BY <1>3 DEF PlanValid
    <2>7. table[w].to \in Seq(Name)
      BY Uris DEF TypeOK
    <2>8. CASE table[w].exists /\ table[x].exists
      BY <2>5, <2>6, <2>8 DEF Conflict, Matching
    <2>9. CASE Imports(w)
      <3>1. ~Touches(table[w].to)
        BY <1>3, <2>9, ImportsDoes DEF Blocked, Active
      <3> QED
        BY <2>5, <3>1, Untouched
    <2>10. CASE Imports(x)
      <3>1. ~Touches(table[x].to)
        BY <1>3, <2>10, ImportsDoes DEF Blocked, Active
      <3>2. Under(table[x].to, move.to)
        BY <2>1, <2>5, <2>7, RewriteMeans
      <3> QED
        BY <3>1, <3>2, Untouched
    <2> QED
      BY <2>2, <2>8, <2>9, <2>10, ExistedBefore
  <1> QED
    BY <1>2, <1>3

\* No step gives two watches one target.
LEMMA DistinctStep ==
    TypeOK /\ MoveNamed /\ PlanValid /\ TargetsDistinct /\ SavedDistinct /\ [Next]_vars => TargetsDistinct'
  <1> SUFFICES ASSUME TypeOK, MoveNamed, PlanValid, TargetsDistinct, SavedDistinct, [Next]_vars,
                      NEW w \in Watch, NEW x \in Watch, w # x, table'[w].exists, table'[x].exists,
                      table'[w].to = table'[x].to
               PROVE  FALSE
    BY DEF TargetsDistinct
  <1>1. CASE Restart
    BY <1>1 DEF Restart, SavedDistinct
  <1>2. CASE RewriteTargets
    <2>1. /\ move.pc = "moved" /\ move.to # Gone /\ ~Conflict
          /\ table[w].to \in Seq(Name) /\ table[x].to \in Seq(Name)
      BY <1>2, RewriteDoes, Uris DEF TypeOK, MoveNamed, PlanValid, Active
    <2>2. CASE table' = table
      BY <2>2 DEF TargetsDistinct
    <2>3. CASE table' # table
      <3>1. \A y \in Watch : /\ table'[y].exists = table[y].exists
                             /\ table'[y].to = IF y \in Matching(move.from)
                                               THEN Rewritten(table[y].to) ELSE table[y].to
        BY <1>2, <2>3, RewriteDoes
      <3>2. table[w].exists /\ table[x].exists /\ table[w].to # table[x].to
        BY <3>1 DEF TargetsDistinct
      <3>3. CASE w \in Matching(move.from) /\ x \in Matching(move.from)
        <4>1. Back(Rewritten(table[w].to)) = table[w].to /\ Back(Rewritten(table[x].to)) = table[x].to
          BY <2>1, <3>3, RewriteMeans DEF Matching
        <4> QED
          BY <3>1, <3>2, <3>3, <4>1
      <3>4. CASE ~(w \in Matching(move.from) /\ x \in Matching(move.from))
        BY <2>1, <3>1, <3>2, <3>4 DEF Conflict
      <3> QED
        BY <3>3, <3>4
    <2> QED
      BY <2>2, <2>3
  <1>3. CASE ~Restart /\ ~RewriteTargets
    <2>1. table'[w].to = table[w].to /\ table'[x].to = table[x].to
      BY <1>3, TargetsFixed
    <2>2. ASSUME NEW y \in Watch, NEW z \in Watch, y # z, Imports(y), table'[z].exists PROVE table[y].to # table[z].to
      BY <2>2, ImportsDoes DEF Free, TargetsDistinct
    <2>3. CASE table[w].exists /\ table[x].exists
      BY <2>1, <2>3 DEF TargetsDistinct
    <2>4. CASE Imports(w) \/ Imports(x)
      BY <2>1, <2>2, <2>4
    <2> QED
      BY <1>3, <2>3, <2>4, ExistedBefore
  <1> QED
    BY <1>1, <1>2, <1>3

\* The copy has distinct targets because the table has.
LEMMA SavedDistinctStep ==
    TypeOK /\ SavedDistinct /\ TargetsDistinct' /\ [Next]_vars => SavedDistinct'
  <1> SUFFICES ASSUME TypeOK, SavedDistinct, TargetsDistinct', [Next]_vars PROVE SavedDistinct'
    OBVIOUS
  <1>1. CASE saved' = saved
    BY <1>1 DEF SavedDistinct
  <1>2. CASE saved' = table'
    BY <1>2 DEF SavedDistinct, TargetsDistinct
  <1> QED
    BY <1>1, <1>2, SavedFrom

\* A watch left behind stays in the history.
LEMMA LostGrows ==
    ASSUME TypeOK, [Next]_vars
    PROVE  lost \subseteq lost'
  <1>1. CASE \E x \in Watch : Imports(x) \/ DeleteTask(x)
    <2>1. PICK x \in Watch : Imports(x) \/ DeleteTask(x)
      BY <1>1
    <2> QED
      BY <2>1, ImportsDoes, DeleteDoes
  <1>2. CASE \E x \in Watch, u \in Seq(Name) : Lands(x, u)
    BY <1>2 DEF Lands
  <1>3. CASE MoveRequest \/ MoveStart \/ MoveFiles \/ MoveBack \/ MoveCancelled \/ RmFiles \/ Restart
    BY <1>3 DEF MoveRequest, MoveStart, MoveFiles, MoveBack, MoveCancelled, RmFiles, Restart, history
  <1>4. CASE RewriteTargets
    BY <1>4, RewriteDoes
  <1> QED
    BY <1>1, <1>2, <1>3, <1>4, Kinds DEF MoveStep, Plain

\* A save that fails changes no target, and leaves in the storage no watch that is
\* gone from the table, unless it is left behind.
LEMMA SavedFollowsStep ==
    TypeOK /\ SavedFollows /\ [Next]_vars => SavedFollows'
  <1> SUFFICES ASSUME TypeOK, SavedFollows, [Next]_vars PROVE SavedFollows'
    OBVIOUS
  <1>0. lost \subseteq lost'
    BY LostGrows
  <1>1. CASE Plain
    BY <1>1 DEF Plain, SavedFollows
  <1>2. CASE \E w \in Watch, u \in Seq(Name) : Lands(w, u)
    <2>1. UNCHANGED <<table, saved, lost>>
      BY <1>2 DEF Lands
    <2> QED
      BY <1>0, <2>1 DEF SavedFollows
  <1>3. ASSUME NEW w \in Watch, Imports(w) PROVE SavedFollows'
    <2>1. /\ saved' \in {saved, table'} /\ table'[w].exists /\ table'[w].to = table[w].to
          /\ \A x \in Watch \ {w} : table'[x] = table[x]
      BY <1>3, ImportsDoes
    <2> QED
      BY <1>0, <2>1 DEF SavedFollows
  <1>4. ASSUME NEW w \in Watch, DeleteTask(w) PROVE SavedFollows'
    BY <1>0, <1>4, DeleteDoes DEF SavedFollows
  <1>5. CASE MoveRequest \/ MoveStart \/ MoveFiles \/ MoveBack \/ MoveCancelled \/ RmFiles
    <2>1. UNCHANGED <<table, saved>>
      BY <1>5 DEF MoveRequest, MoveStart, MoveFiles, MoveBack, MoveCancelled, RmFiles
    <2> QED
      BY <1>0, <2>1 DEF SavedFollows
  <1>6. CASE RewriteTargets
    BY <1>0, <1>6, RewriteDoes DEF SavedFollows
  <1>7. CASE Restart
    <2>1. table' = saved /\ saved' = saved
      BY <1>7 DEF Restart
    <2> QED
      BY <1>0, <2>1 DEF SavedFollows
  <1> QED
    BY <1>1, <1>2, <1>3, <1>4, <1>5, <1>6, <1>7, Kinds DEF MoveStep

-----------------------------------------------------------------------------
(* Where the resources are *)

\* An execution that imports, or a watch that is created, is out of the way of an
\* active move.
LEMMA OutOfTheWay ==
    ASSUME Active, NEW u,
           \/ ~Blocked(u)
           \/ LeasesApart /\ \E r \in Run : run[r].pc \in Leased /\ run[r].uri = u
    PROVE  ~Touches(u)
  BY DEF Active, Blocked, LeasesApart, MoveFree

\* A resource arrives at the target of its watch, and outside of what a move has
\* moved, unless the watch is left behind.
LEMMA LandsAt ==
    ASSUME Leases, LateInPlace, NEW w \in Watch, NEW u \in Seq(Name), Lands(w, u), w \notin lost
    PROVE  u = table[w].to /\ (move.pc \in {"moved", "undo"} => ~Touches(u))
  <1>1. CASE <<w, u>> \in late
    BY <1>1 DEF LateInPlace
  <1>2. ASSUME NEW r \in Run, run[r].pc = "import", run[r].w = w, run[r].uri = u
        PROVE  u = table[w].to /\ (move.pc \in {"moved", "undo"} => ~Touches(u))
    <2>1. u = table[w].to
      BY <1>2 DEF Leases, TargetHeld
    <2>2. Active => ~Touches(u)
      BY <1>2, OutOfTheWay DEF Leases, Leased
    <2> QED
      BY <2>1, <2>2 DEF Active
  <1> QED
    BY <1>1, <1>2 DEF Lands

\* Where an import that holds no lease comes from.
LEMMA LateFrom ==
    ASSUME TypeOK, [Next]_vars, NEW i \in late'
    PROVE  \/ i \in late
           \/ \E r \in Run : run[r].pc = "import" /\ i = <<run[r].w, run[r].uri>>
           \/ \E w \in Watch : Imports(w) /\ i = <<w, table[w].to>>
  <1> DEFINE Goal == \/ i \in late
                     \/ \E r \in Run : run[r].pc = "import" /\ i = <<run[r].w, run[r].uri>>
                     \/ \E w \in Watch : Imports(w) /\ i = <<w, table[w].to>>
  <1> SUFFICES Goal
    OBVIOUS
  <1>a. UNCHANGED late => Goal
    OBVIOUS
  <1>1. ASSUME NEW w \in Watch, \/ Tick(w) \/ Pick(w) \/ ScheduleTask(w) \/ JobEnds(w)
                                \/ DeleteTask(w) \/ \E b \in BOOLEAN : SetActive(w, b)
        PROVE Goal
    BY <1>a, <1>1 DEF Tick, Pick, ScheduleTask, Start, JobEnds, DeleteTask, SetActive, files
  <1>2. ASSUME NEW w \in Watch, HeldImport(w) \/ DurableImport(w) PROVE Goal
    BY <1>2 DEF HeldImport, DurableImport, Imports
  <1>3. ASSUME NEW r \in Run, \/ Enter(r) \/ Access(r) \/ Look(r) \/ Check(r) \/ Record(r)
                              \/ TurnOff(r) \/ Leave(r)
        PROVE Goal
    BY <1>a, <1>3 DEF Enter, Access, Look, Check, Record, TurnOff, Leave, Same, files
  <1>4. ASSUME NEW r \in Run, Import(r) \/ Cancel(r) PROVE Goal
    BY <1>4 DEF Import, Cancel
  <1>5. ASSUME NEW j \in late, Deliver(j) \/ EndImport(j) PROVE Goal
    BY <1>5 DEF Deliver, EndImport
  <1>6. CASE MoveRequest \/ MoveStep \/ MoveCancelled \/ RmFiles \/ SyncAfterRm \/ UNCHANGED vars
    BY <1>a, <1>6 DEF MoveRequest, MoveStep, MoveStart, MoveFiles, RewriteTargets, MoveBack,
                      MoveCancelled, RmFiles, SyncAfterRm, Moving, Advance, vars, files
  <1>7. CASE Restart
    BY <1>7 DEF Restart
  <1> HIDE DEF Goal
  <1> QED
    BY <1>1, <1>2, <1>3, <1>4, <1>5, <1>6, <1>7 DEF Next, RunStep

\* Imports that hold no lease keep their target, because a move that meets one
\* leaves its watch behind.
LEMMA LateStep ==
    Leases /\ SavedFollows /\ LateInPlace /\ [Next]_vars => LateInPlace'
  <1> SUFFICES ASSUME Leases, SavedFollows, LateInPlace, [Next]_vars, NEW i \in late', i[1] \notin lost'
               PROVE  /\ i[2] = table'[i[1]].to
                      /\ move'.pc \in {"moved", "undo"} => ~Touches(i[2])'
    BY DEF LateInPlace
  <1>0. TypeOK /\ MoveNamed /\ LeasesApart /\ TargetHeld /\ lost \subseteq lost'
        /\ late \subseteq Watch \X Seq(Name) /\ run \in [Run -> Execution]
    BY LostGrows DEF Leases, TypeOK, Execution
  <1>1. i[1] \in Watch /\ i[2] = table[i[1]].to /\ i[1] \notin lost
    <2>1. CASE i \in late
      <3>1. i[1] \in Watch
        BY <1>0, <2>1
      <3> QED
        BY <1>0, <2>1, <3>1 DEF LateInPlace
    <2>2. ASSUME NEW r \in Run, run[r].pc = "import", i = <<run[r].w, run[r].uri>>
          PROVE i[1] \in Watch /\ i[2] = table[i[1]].to /\ i[1] \notin lost
      <3>1. run[r].w \in Watch /\ table[run[r].w].to = run[r].uri
        BY <1>0, <2>2 DEF TargetHeld, Execution
      <3> QED
        BY <1>0, <2>2, <3>1
    <2>3. ASSUME NEW w \in Watch, i = <<w, table[w].to>>
          PROVE i[1] \in Watch /\ i[2] = table[i[1]].to /\ i[1] \notin lost
      BY <1>0, <2>3
    <2> QED
      BY <1>0, <2>1, <2>2, <2>3, LateFrom
  \* Outside of what the move moves from the moment the files are moved.
  <1>2. ASSUME move.pc \in {"moved", "undo"} PROVE ~Touches(i[2])
    <2>0. Active
      BY <1>2 DEF Active
    <2>1. CASE i \in late
      BY <1>1, <1>2, <2>1 DEF LateInPlace
    <2>2. ASSUME NEW r \in Run, run[r].pc = "import", i = <<run[r].w, run[r].uri>>
          PROVE ~Touches(i[2])
      <3>1. i[2] = run[r].uri /\ run[r].pc \in Leased
        BY <2>2 DEF Leased
      <3> QED
        BY <1>0, <2>0, <3>1, OutOfTheWay
    <2>3. ASSUME NEW w \in Watch, Imports(w), i = <<w, table[w].to>> PROVE ~Touches(i[2])
      <3>1. i[2] = table[w].to /\ ~Blocked(table[w].to)
        BY <1>0, <2>3, ImportsDoes
      <3> QED
        BY <2>0, <3>1, OutOfTheWay
    <2> QED
      BY <1>0, <2>1, <2>2, <2>3, LateFrom
  <1>3. i[2] = table'[i[1]].to
    <2>1. CASE RewriteTargets /\ i[1] \in Matching(move.from)
      <3>1. ~Touches(i[2]) /\ Under(i[2], move.from)
        BY <1>1, <1>2, <2>1 DEF RewriteTargets, Matching
      <3> QED
        BY <3>1, Untouched
    <2>2. CASE Restart
      BY <1>1, <2>2 DEF Restart, SavedFollows
    <2> QED
      BY <1>0, <1>1, <2>1, <2>2, TargetsFixed
  <1>4. ASSUME move'.pc \in {"moved", "undo"} PROVE ~Touches(i[2])'
    <2>1. move'.from = move.from /\ move'.to = move.to /\ Active
      BY <1>0, <1>4, MovesFrom DEF Active
    <2>2. ~Touches(i[2])
      <3>1. CASE MoveFiles
        <4>1. lost' = lost \cup Outrun /\ UNCHANGED late
          BY <1>4, <3>1, Cancelled DEF MoveFiles, Moving, Advance
        <4>2. i[1] \notin Outrun /\ i \in late
          BY <4>1
        <4> QED
          BY <1>1, <4>2 DEF Outrun
      <3>2. CASE ~MoveFiles /\ move.pc = "held"
        <4>1. move' = move
          <5>1. move' # NoMove
            BY <1>4, Cancelled
          <5>2. Plain \/ (\E w \in Watch, u \in Seq(Name) : Lands(w, u)) \/ RmFiles => move' = move
            BY DEF Plain, Lands, RmFiles
          <5>3. \A w \in Watch : Imports(w) \/ DeleteTask(w) => move' = move
            BY <1>0, ImportsDoes, DeleteDoes
          <5>4. ~MoveRequest /\ ~MoveStart /\ ~RewriteTargets /\ ~MoveBack /\ ~MoveCancelled /\ ~Restart
            BY <3>2, <5>1 DEF MoveRequest, MoveStart, RewriteTargets, MoveBack, MoveCancelled, Restart
          <5> QED
            BY <1>0, <3>2, <5>2, <5>3, <5>4, Kinds DEF MoveStep
        <4> QED
          BY <1>4, <3>2, <4>1
      <3> QED
        BY <1>2, <2>1, <3>1, <3>2 DEF Active
    <2> QED
      BY <2>1, <2>2 DEF Touches
  <1> QED
    BY <1>3, <1>4

\* While the files are at the new place and the table is not, every watch is where
\* the rewrite will look for it.
LEMMA TransitStep ==
    Leases /\ LateInPlace /\ WatchFollows /\ InTransit /\ [Next]_vars => InTransit'
  <1> SUFFICES ASSUME Leases, LateInPlace, WatchFollows, InTransit, [Next]_vars,
                      move'.pc \in {"moved", "undo"}, NEW w \in Watch, w \notin lost', table'[w].exists,
                      NEW u \in at'[w]
               PROVE  u = Rewritten(table[w].to)' /\ ~Under(table'[w].to, move'.to)
    BY DEF InTransit
  <1> DEFINE Goal == u = Rewritten(table[w].to)' /\ ~Under(table'[w].to, move'.to)
  <1> HIDE DEF Goal
  <1> SUFFICES Goal
    BY DEF Goal
  <1>0. TypeOK /\ MoveNamed /\ LeasesApart /\ TargetHeld /\ lost \subseteq lost'
    BY LostGrows DEF Leases
  <1>1. move'.from = move.from /\ move'.to = move.to /\ Active
    BY <1>0, MovesFrom DEF Active
  <1>2. /\ table[w].to \in Seq(Name) /\ at[w] \subseteq Seq(Name) /\ move.to # Gone
        /\ table \in [Watch -> Task] /\ run \in [Run -> Execution]
    BY <1>0, <1>1, Uris DEF TypeOK, MoveNamed, Active, Task, Execution
  <1>3. ASSUME table'[w].to = table[w].to,
               u = Rewritten(table[w].to) /\ ~Under(table[w].to, move.to)
        PROVE  Goal
    BY <1>1, <1>3 DEF Rewritten, Goal
  <1>4. ASSUME move'.pc = move.pc \/ move.pc = "moved", table[w].exists, table'[w].to = table[w].to,
               u \in at[w]
        PROVE  Goal
    BY <1>0, <1>3, <1>4 DEF InTransit
  <1>5. ASSUME table'[w].to = table[w].to, u = table[w].to, ~Touches(table[w].to) PROVE Goal
    <2>1. u = Rewritten(table[w].to) /\ ~Under(table[w].to, move.to)
      BY <1>5, Untouched
    <2> QED
      BY <1>3, <1>5, <2>1
  <1>6. CASE Plain
    BY <1>4, <1>6 DEF Plain
  <1>7. ASSUME NEW x \in Watch, NEW v \in Seq(Name), Lands(x, v) PROVE Goal
    <2>1. UNCHANGED <<table, move, lost>> /\ (u \in at[w] \/ (x = w /\ u = v))
      BY <1>0, <1>7, LandsDoes
    <2>2. CASE u \in at[w]
      BY <1>4, <2>1, <2>2
    <2>3. CASE x = w /\ u = v
      <3>1. u = table[w].to /\ ~Touches(u)
        BY <1>7, <2>1, <2>3, LandsAt
      <3> QED
        BY <1>5, <2>1, <3>1
    <2> QED
      BY <2>1, <2>2, <2>3
  <1>8. ASSUME NEW x \in Watch, Imports(x) PROVE Goal
    <2>1. ~Touches(table[x].to) /\ UNCHANGED <<move, lost>>
      BY <1>0, <1>1, <1>8, ImportsDoes, OutOfTheWay
    <2>2. CASE x = w
      <3>1. table'[w].to = table[w].to /\ (table[w].exists \/ at[w] \subseteq {table[w].to})
            /\ (u \in at[w] \/ u = table[w].to)
        BY <1>0, <1>8, <2>2, ImportsDoes
      <3> QED
        BY <1>4, <1>5, <2>1, <2>2, <3>1
    <2>3. CASE x # w
      <3>1. table'[w] = table[w] /\ at'[w] = at[w]
        BY <1>0, <1>8, <2>3, ImportsDoes
      <3> QED
        BY <1>4, <2>1, <3>1
    <2> QED
      BY <2>2, <2>3
  <1>9. ASSUME NEW x \in Watch, DeleteTask(x) PROVE Goal
    <2>1. x # w /\ table'[w] = table[w] /\ UNCHANGED <<at, move>>
      BY <1>0, <1>9, DeleteDoes
    <2> QED
      BY <1>4, <2>1
  <1>10. CASE MoveRequest \/ MoveStart \/ MoveBack \/ MoveCancelled \/ Restart
    <2>1. move' = NoMove \/ move'.pc = "wait" \/ Advance("held")
      BY <1>10 DEF MoveRequest, MoveStart, MoveBack, MoveCancelled, Restart, Moving
    <2>2. move'.pc \notin {"moved", "undo"}
      BY <1>0, <2>1, Cancelled DEF Advance, Moving, TypeOK
    <2> QED
      BY <2>2
  <1>11. CASE MoveFiles
    <2>1. /\ move.pc = "held" /\ ~Present(move.to) /\ at' = Relocated /\ UNCHANGED table
      BY <1>11, Cancelled DEF MoveFiles, Moving
    <2>2. PICK v \in at[w] : u = Rewritten(v)
      BY <2>1 DEF Relocated
    <2>3. table[w].to = v
      BY <1>0, <2>1, <2>2 DEF WatchFollows
    <2>4. ~Under(v, move.to)
      BY <2>1, <2>2 DEF Present
    <2> QED
      BY <1>3, <2>1, <2>2, <2>3, <2>4
  <1>12. CASE RewriteTargets
    <2>1. UNCHANGED <<at, lost, table>> /\ move.pc = "moved"
      BY <1>0, <1>12, RewriteDoes, Cancelled
    <2> QED
      BY <1>4, <2>1
  <1>13. CASE RmFiles
    <2>1. /\ UNCHANGED <<table, move>> /\ at' = [x \in Watch |-> {v \in at[x] : ~Under(v, rm')}]
      BY <1>13 DEF RmFiles, history
    <2>2. u \in at[w]
      BY <2>1
    <2> QED
      BY <1>4, <2>1, <2>2
  <1> QED
    BY <1>0, <1>6, <1>7, <1>8, <1>9, <1>10, <1>11, <1>12, <1>13, Kinds DEF MoveStep

\* The end of a move, either way, leaves every watch at its resource.
LEMMA FollowsStep ==
    Leases /\ LateInPlace /\ SavedFollows /\ InTransit /\ WatchFollows /\ [Next]_vars => WatchFollows'
  <1> SUFFICES ASSUME Leases, LateInPlace, SavedFollows, InTransit, WatchFollows, [Next]_vars,
                      move'.pc \notin {"moved", "undo"},
                      NEW w \in Watch, w \notin lost', table'[w].exists, NEW u \in at'[w]
               PROVE  u = table'[w].to
    BY DEF WatchFollows
  <1>0. TypeOK /\ MoveNamed /\ LeasesApart /\ TargetHeld /\ w \notin lost
    BY LostGrows DEF Leases
  <1>1. /\ table[w].to \in Seq(Name) /\ at[w] \subseteq Seq(Name)
        /\ table \in [Watch -> Task] /\ run \in [Run -> Execution]
    BY <1>0, Uris DEF TypeOK, Task, Execution
  <1>2. ASSUME move.pc \notin {"moved", "undo"}, table[w].exists, table'[w].to = table[w].to, u \in at[w]
        PROVE  u = table'[w].to
    BY <1>0, <1>2 DEF WatchFollows
  \* What a resource that is neither moved nor to be moved back is in transit.
  <1>a. ASSUME move.pc \in {"moved", "undo"}, table[w].exists, w \notin Matching(move.from), NEW v \in at[w]
        PROVE  v = table[w].to /\ Back(v) = v
    <2>1. v = Rewritten(table[w].to) /\ ~Under(table[w].to, move.to)
      BY <1>0, <1>a DEF InTransit
    <2>2. ~Under(table[w].to, move.from)
      BY <1>a DEF Matching
    <2> QED
      BY <2>1, <2>2 DEF Rewritten, Back
  <1>3. CASE Plain
    BY <1>2, <1>3 DEF Plain
  <1>4. ASSUME NEW x \in Watch, NEW v \in Seq(Name), Lands(x, v) PROVE u = table'[w].to
    <2>1. UNCHANGED <<table, move>> /\ (u \in at[w] \/ (x = w /\ u = v))
      BY <1>0, <1>4, LandsDoes
    <2>2. CASE x = w /\ u = v
      BY <1>0, <1>4, <2>1, <2>2, LandsAt
    <2> QED
      BY <1>2, <2>1, <2>2
  <1>5. ASSUME NEW x \in Watch, Imports(x) \/ DeleteTask(x) PROVE u = table'[w].to
    <2>1. CASE x = w
      <3>1. Imports(w)
        BY <1>0, <1>5, <2>1, DeleteDoes
      <3>2. /\ UNCHANGED move /\ table'[w].to = table[w].to /\ (u \in at[w] \/ u = table[w].to)
            /\ table[w].exists \/ at[w] \subseteq {table[w].to}
        BY <1>0, <3>1, ImportsDoes
      <3> QED
        BY <1>2, <3>2
    <2>2. CASE x # w
      <3>1. table'[w] = table[w] /\ at'[w] = at[w] /\ UNCHANGED move
        BY <1>0, <1>5, <2>2, ImportsDoes, DeleteDoes
      <3> QED
        BY <1>2, <3>1
    <2> QED
      BY <2>1, <2>2
  <1>6. CASE MoveRequest \/ MoveStart
    <2>1. UNCHANGED <<table, at>> /\ move.pc \notin {"moved", "undo"}
      BY <1>6 DEF MoveRequest, MoveStart
    <2> QED
      BY <1>2, <2>1
  <1>7. CASE MoveFiles
    <2>1. ~Advance("moved")
      BY <1>0 DEF Advance, Moving, TypeOK
    <2>2. UNCHANGED table /\ move.pc = "held" /\ at'[w] = at[w]
      BY <1>7, <2>1 DEF MoveFiles
    <2> QED
      BY <1>2, <2>2
  <1>8. CASE RewriteTargets
    <2>1. move.pc = "moved" /\ UNCHANGED <<at, lost>>
      BY <1>0, <1>8, RewriteDoes
    <2>2. move' # [move EXCEPT !.pc = "undo"]
      BY <1>0 DEF TypeOK
    <2>3. /\ table[w].exists
          /\ table'[w].to = IF w \in Matching(move.from) THEN Rewritten(table[w].to) ELSE table[w].to
      BY <1>0, <1>8, <2>2, RewriteDoes
    <2>4. u = Rewritten(table[w].to)
      BY <1>0, <2>1, <2>3 DEF InTransit
    <2>5. w \notin Matching(move.from) => Rewritten(table[w].to) = table[w].to
      BY <2>3 DEF Matching, Rewritten
    <2> QED
      BY <2>3, <2>4, <2>5
  <1>9. CASE MoveBack
    <2>1. move.pc = "undo" /\ UNCHANGED table /\ move.to # Gone /\ table[w].exists
      BY <1>0, <1>9 DEF MoveBack, MoveNamed
    <2>2. CASE at' = Returned /\ UNCHANGED lost
      <3>1. PICK v \in at[w] : u = Back(v)
        BY <2>2 DEF Returned
      <3>2. v = Rewritten(table[w].to) /\ ~Under(table[w].to, move.to)
        BY <1>0, <2>1, <3>1 DEF InTransit
      <3>3. Back(Rewritten(table[w].to)) = table[w].to
        BY <1>0, <1>1, <2>1, <3>2, RewriteMeans
      <3> QED
        BY <2>1, <3>1, <3>2, <3>3
    <2>3. CASE lost' = lost \cup Matching(move.from) /\ at' \in {at} \cup Torn(Returned)
      <3>1. w \notin Matching(move.from)
        BY <2>3
      <3>2. u \in at[w] \/ \E v \in at[w] : u = Back(v)
        BY <2>3 DEF Torn, Returned
      <3> QED
        BY <1>a, <2>1, <3>1, <3>2
    <2> QED
      BY <1>9, <2>2, <2>3 DEF MoveBack
  <1>10. CASE MoveCancelled
    <2>1. move.pc = "moved" /\ UNCHANGED <<table, at>> /\ w \notin Matching(move.from)
      BY <1>10 DEF MoveCancelled
    <2> QED
      BY <1>a, <2>1
  <1>11. CASE RmFiles
    <2>1. /\ UNCHANGED <<table, move>> /\ at' = [x \in Watch |-> {v \in at[x] : ~Under(v, rm')}]
      BY <1>11 DEF RmFiles
    <2>2. u \in at[w]
      BY <2>1
    <2> QED
      BY <1>2, <2>1, <2>2
  <1>12. CASE Restart
    <2>1. table' = saved
      BY <1>12 DEF Restart
    <2>2. table[w].exists /\ table'[w].to = table[w].to
      BY <1>0, <2>1 DEF SavedFollows
    <2>3. CASE /\ UNCHANGED at
               /\ lost' = IF move.pc \in {"moved", "undo"} THEN lost \cup Matching(move.from) ELSE lost
      <3>1. CASE move.pc \in {"moved", "undo"}
        <4>1. w \notin Matching(move.from)
          BY <2>3, <3>1
        <4> QED
          BY <1>a, <2>2, <2>3, <3>1, <4>1
      <3> QED
        BY <1>2, <2>2, <2>3, <3>1
    <2>4. CASE move.pc = "held" /\ lost' = lost \cup {x \in Watch : at'[x] # at[x]}
      BY <1>2, <2>2, <2>4
    <2> QED
      BY <1>12, <2>3, <2>4 DEF Restart
  <1> QED
    BY <1>0, <1>3, <1>4, <1>5, <1>6, <1>7, <1>8, <1>9, <1>10, <1>11, <1>12, Kinds DEF MoveStep

\* Under the lease, outside of what a move moves, a watch that is not left behind
\* has its resource at the target the execution compared.
LEMMA RefreshStep ==
    Leases /\ LateInPlace /\ InTransit /\ WatchFollows /\ RefreshAtTarget /\ [Next]_vars => RefreshAtTarget'
  <1> SUFFICES ASSUME Leases, LateInPlace, InTransit, WatchFollows, RefreshAtTarget, [Next]_vars
               PROVE  RefreshAtTarget'
    OBVIOUS
  <1>b. TargetHeld'
    BY HeldStep DEF Leases
  <1> SUFFICES ASSUME NEW r \in Run, run'[r].pc \in {"check", "import"}, run'[r].w \notin lost',
                      NEW v \in at'[run'[r].w]
               PROVE  v = run'[r].uri
    BY <1>b DEF RefreshAtTarget, TargetHeld
  <1> DEFINE w == run[r].w  u == run[r].uri
  <1>0. TypeOK /\ MoveNamed /\ LeasesApart /\ TargetHeld /\ w \in Watch /\ at[w] \subseteq Seq(Name)
    BY DEF Leases, TypeOK
  <1>1. run[r].pc \in Leased /\ run'[r].uri = u /\ run'[r].w = w /\ table[w].to = u /\ w \notin lost
    BY <1>0, HeldFrom, LostGrows
  <1>2. Active => ~Touches(u)
    BY <1>0, <1>1, OutOfTheWay
  \* Nothing is new about the execution, or it has just compared its target.
  <1>3. at[w] \subseteq {u}
    <2>1. RunMove(r) /\ run[r] \in Execution /\ run'[r] # Idle
          /\ \A x \in Watch : run'[r] # [Idle EXCEPT !.pc = "queued", !.w = x]
      BY <1>0, RunSteps, IdleRun, QueuedRun DEF TypeOK, Execution
    <2>2. \/ run[r].pc = "look" /\ table[w].exists
          \/ run[r].pc \in {"check", "import"}
      BY <2>1 DEF RunMove, Execution
    <2>3. CASE run[r].pc \in {"check", "import"}
      BY <1>1, <2>3 DEF RefreshAtTarget
    <2>4. CASE run[r].pc = "look" /\ table[w].exists
      <3>1. ASSUME move.pc \in {"moved", "undo"}, NEW x \in at[w] PROVE x = u
        <4>1. x = Rewritten(u)
          BY <1>0, <1>1, <2>4, <3>1 DEF InTransit
        <4> QED
          BY <1>2, <3>1, <4>1, Untouched DEF Active
      <3>2. CASE move.pc \notin {"moved", "undo"}
        BY <1>0, <1>1, <2>4, <3>2 DEF WatchFollows
      <3> QED
        BY <3>1, <3>2
    <2> QED
      BY <2>2, <2>3, <2>4
  <1> SUFFICES v = u
    BY <1>1
  <1>a. v \in at'[w]
    BY <1>1
  <1> HIDE DEF w, u
  <1>4. CASE at'[w] = at[w]
    BY <1>3, <1>4, <1>a
  <1>5. ASSUME NEW x \in Watch, NEW y \in Seq(Name), Lands(x, y) PROVE v = u
    <2>1. v \in at[w] \/ (x = w /\ v = y)
      BY <1>0, <1>5, <1>a, LandsDoes
    <2>2. x = w => y = table[w].to
      BY <1>1, <1>5, LandsAt
    <2> QED
      BY <1>1, <1>3, <2>1, <2>2
  <1>6. ASSUME NEW x \in Watch, Imports(x) \/ DeleteTask(x) PROVE v = u
    <2>1. v \in at[w] \/ v = table[w].to
      BY <1>0, <1>6, <1>a, ImportsDoes, DeleteDoes
    <2> QED
      BY <1>1, <1>3, <2>1
  <1>7. CASE MoveFiles
    <2>0. w \notin lost'
      BY <1>1 DEF w
    <2>1. at'[w] = at[w] \/ at' = Relocated
      BY <1>0, <1>7, <2>0 DEF MoveFiles
    <2>2. CASE at' = Relocated
      <3>1. PICK x \in at[w] : v = Rewritten(x)
        BY <1>0, <1>a, <2>2 DEF Relocated
      <3>2. ~Touches(u) /\ x = u
        BY <1>2, <1>3, <1>7, <3>1 DEF MoveFiles, Active
      <3> QED
        BY <3>1, <3>2, Untouched
    <2> QED
      BY <1>4, <2>1, <2>2
  <1>8. CASE MoveBack
    <2>1. v \in at[w] \/ \E x \in at[w] : v = Back(x)
      BY <1>0, <1>8, <1>a DEF MoveBack, Torn, Returned
    <2>2. ~Touches(u)
      BY <1>2, <1>8 DEF MoveBack, Active
    <2> QED
      BY <1>3, <2>1, <2>2, Untouched
  <1>9. CASE RmFiles
    <2>1. at' = [x \in Watch |-> {y \in at[x] : ~Under(y, rm')}]
      BY <1>9 DEF RmFiles
    <2> QED
      BY <1>0, <1>3, <1>a, <2>1
  <1>10. Plain \/ MoveRequest \/ MoveStart \/ RewriteTargets \/ MoveCancelled => UNCHANGED at
    BY DEF Plain, MoveRequest, MoveStart, RewriteTargets, MoveCancelled
  <1>11. CASE Restart
    <2>1. run'[r].pc = "idle"
      BY <1>11, IdleRun DEF Restart
    <2> QED
      BY <2>1
  <1> QED
    BY <1>0, <1>4, <1>5, <1>6, <1>7, <1>8, <1>9, <1>10, <1>11, Kinds DEF MoveStep

-----------------------------------------------------------------------------
(* Marks *)

\* The marks, the rounds and the histories stay, or fewer executions are busy.
LEMMA MarksStay ==
    ASSUME Marked, UNCHANGED <<executing, job, stolen>>,
           \A r \in Run : run'[r].pc # "idle" => run[r].pc # "idle" /\ run'[r].w = run[r].w
    PROVE  Marked'
  BY DEF Marked

\* A mark is discarded by its owner, or its watch is in the history.
LEMMA MarkedStep == TypeOK /\ Marked /\ [Next]_vars => Marked'
  <1> SUFFICES ASSUME TypeOK, Marked, [Next]_vars PROVE Marked'
    OBVIOUS
  <1>0. run \in [Run -> Execution] /\ job \in [Watch -> {"none", "held", "free"}]
    BY DEF TypeOK, Execution
  <1>1. ASSUME UNCHANGED <<executing, job, stolen, run>> PROVE Marked'
    BY <1>1, MarksStay
  <1>2. ASSUME NEW w \in Watch, Pick(w) \/ ScheduleTask(w) PROVE Marked'
    <2>1. Start(w) /\ UNCHANGED stolen
      BY <1>2 DEF Pick, ScheduleTask, Start, history
    <2>2. PICK r \in Run : /\ run[r].pc = "idle" /\ w \notin executing /\ executing' = executing \cup {w}
                          /\ run' = [run EXCEPT ![r] = [Idle EXCEPT !.pc = "queued", !.w = w]]
                          /\ UNCHANGED job
      BY <2>1 DEF Start, TryMark
    <2>3. run'[r].w = w /\ \A q \in Run \ {r} : run'[q] = run[q]
      BY <1>0, <2>2, QueuedRun
    <2> QED
      BY <2>1, <2>2, <2>3 DEF Marked
  <1>3. ASSUME NEW r \in Run,
               Enter(r) \/ Access(r) \/ Look(r) \/ Check(r) \/ Import(r) \/ Record(r) \/ TurnOff(r)
        PROVE Marked'
    <2>1. UNCHANGED <<executing, job, stolen>> /\ run[r].pc # "idle"
      BY <1>3 DEF Enter, Access, Look, Check, Import, Record, TurnOff, Same, history
    <2>2. (\A q \in Run \ {r} : run'[q] = run[q]) /\ run'[r].w = run[r].w
      BY <1>0, <1>3 DEF Enter, Access, Look, Check, Import, Record, TurnOff, Goto, Execution
    <2> QED
      BY <2>1, <2>2, MarksStay
  <1>4. ASSUME NEW r \in Run, Leave(r) \/ Cancel(r) PROVE Marked'
    <2>1. /\ run[r].pc # "idle" /\ executing' = executing \ {run[r].w} /\ UNCHANGED <<job, stolen>>
          /\ run' = [run EXCEPT ![r] = Idle]
      BY <1>4 DEF Leave, Cancel, Discard, history
    <2>2. run'[r].pc = "idle" /\ \A q \in Run \ {r} : run'[q] = run[q]
      BY <1>0, <2>1, IdleRun
    <2> QED
      BY <2>1, <2>2 DEF Marked
  <1>5. ASSUME NEW w \in Watch, HeldImport(w) PROVE Marked'
    <2>1. UNCHANGED <<run, stolen>>
      BY <1>5 DEF HeldImport, Upsert, history
    <2>2. CASE UNCHANGED <<executing, job>>
      BY <1>1, <2>1, <2>2
    <2>3. CASE w \notin executing /\ executing' = executing \cup {w} /\ job' = [job EXCEPT ![w] = "held"]
      BY <1>0, <2>1, <2>3 DEF Marked
    <2> QED
      BY <1>5, <2>2, <2>3 DEF HeldImport, TryMark
  <1>6. ASSUME NEW w \in Watch, DurableImport(w) PROVE Marked'
    <2>1. UNCHANGED <<executing, run, stolen>> /\ (job' = job \/ job' = [job EXCEPT ![w] = "free"])
      BY <1>6 DEF DurableImport, Upsert, history
    <2> QED
      BY <1>0, <2>1 DEF Marked
  <1>7. ASSUME NEW w \in Watch, JobEnds(w) PROVE Marked'
    <2>1. /\ job[w] \in {"held", "free"} /\ job' = [job EXCEPT ![w] = "none"]
          /\ executing' = executing \ {w} /\ UNCHANGED run
          /\ stolen' = IF job[w] = "free" /\ w \in executing THEN stolen \cup {w} ELSE stolen
      BY <1>0, <1>7 DEF JobEnds, Discard
    <2>2. ASSUME NEW x \in Watch \ stolen', NEW r \in Run, run[r].pc # "idle", run[r].w = x PROVE x # w
      BY <2>1, <2>2 DEF Marked
    <2> QED
      BY <1>0, <2>1, <2>2 DEF Marked
  <1>8. ASSUME NEW w \in Watch, Tick(w) \/ DeleteTask(w) \/ \E b \in BOOLEAN : SetActive(w, b) PROVE Marked'
    BY <1>1, <1>8 DEF Tick, DeleteTask, SetActive, history
  <1>9. CASE MoveRequest \/ MoveStep \/ MoveCancelled \/ RmFiles \/ SyncAfterRm \/ UNCHANGED vars
    BY <1>1, <1>9 DEF MoveRequest, MoveStep, MoveStart, MoveFiles, RewriteTargets, MoveBack, MoveCancelled,
                      Moving, Advance, RmFiles, SyncAfterRm, history, vars
  <1>10. CASE Restart
    <2>1. job' = [w \in Watch |-> "none"] /\ \A r \in Run : run'[r].pc = "idle"
      BY <1>10, IdleRun DEF Restart
    <2> QED
      BY <2>1 DEF Marked
  <1>11. ASSUME NEW i \in late, Deliver(i) \/ EndImport(i) PROVE Marked'
    BY <1>1, <1>11 DEF Deliver, EndImport, history
  <1> QED
    BY <1>2, <1>3, <1>4, <1>5, <1>6, <1>7, <1>8, <1>9, <1>10, <1>11 DEF Next, RunStep

\* One owner of the mark is one round.
LEMMA MarkedMeansOne == TypeOK /\ Marked => OneRound
  <1> SUFFICES ASSUME TypeOK, Marked, NEW w \in Watch \ stolen PROVE Rounds(w) <= 1
    BY DEF OneRound
  <1> DEFINE Busy == {r \in Run : run[r].pc # "idle" /\ run[r].w = w}
  <1>1. CASE Busy = {}
    <2>1. Cardinality(Busy) = 0
      BY <1>1, FS_EmptySet
    <2> QED
      BY <2>1 DEF Rounds
  <1>2. CASE Busy # {}
    <2>1. PICK r \in Busy : TRUE
      BY <1>2
    <2>2. Busy = {r} /\ job[w] # "held"
      BY <2>1 DEF Marked
    <2>3. Cardinality(Busy) = 1
      BY <2>2, FS_Singleton
    <2> QED
      BY <2>2, <2>3 DEF Rounds
  <1> QED
    BY <1>1, <1>2

-----------------------------------------------------------------------------
(* Theorems *)

\* The inductive invariant holds at first ...
LEMMA Initially == Init => IInv
  <1> SUFFICES ASSUME Init PROVE IInv
    OBVIOUS
  <1>0. /\ \A w \in Watch : /\ table[w] = [exists |-> TRUE, to |-> InitAt[w], active |-> TRUE]
                             /\ InitAt[w] \in Uri /\ at[w] = {InitAt[w]} /\ job[w] = "none"
        /\ saved = table /\ \A r \in Run : run[r] = Idle
        /\ move = NoMove /\ MaxAsk \in Nat /\ MaxFault \in Nat /\ MaxConcurrency \in Nat
    BY WatchAssumption DEF Init
  <1>1. TypeOK
    <2>1. {r \in Run : run[r].pc \in Admitted} = {}
      BY <1>0, IdleRun DEF Admitted, Leased
    <2>2. Cardinality({r \in Run : run[r].pc \in Admitted}) = 0
      BY <2>1, FS_EmptySet
    <2>3. table \in [Watch -> [exists : BOOLEAN, to : Uri, active : BOOLEAN]] /\ saved = table
      BY <1>0 DEF Init
    <2>4. run \in [Run -> Execution] /\ at \in [Watch -> SUBSET Seq(Name)]
          /\ job \in [Watch -> {"none", "held", "free"}]
      BY <1>0, IdleRun, Uris, WatchAssumption DEF Init
    <2>5. /\ move \in [pc : {"idle", "wait", "held", "moved", "undo"}, from : Seq(Name), to : Seq(Name)]
          /\ rm \in Seq(Name) /\ late = {} /\ due = {} /\ executing = {} /\ stolen = {} /\ lost = {}
          /\ asks \in 0..MaxAsk /\ faults \in 0..MaxFault
      BY <1>0, Uris DEF Init, NoMove
    <2> QED
      BY <1>0, <2>2, <2>3, <2>4, <2>5 DEF TypeOK, Execution
  <1>2. MoveNamed /\ LeasesApart /\ PlanValid /\ InTransit /\ LateInPlace
    BY <1>0, Cancelled DEF Init, MoveNamed, LeasesApart, PlanValid, InTransit, LateInPlace, Active
  <1>3. TargetHeld /\ Marked /\ RefreshAtTarget
    BY <1>0, IdleRun DEF TargetHeld, Marked, RefreshAtTarget
  <1>4. TargetsDistinct /\ SavedDistinct /\ SavedFollows /\ WatchFollows
    <2>1. ASSUME NEW w \in Watch
          PROVE  table[w].exists = TRUE /\ table[w].to = InitAt[w] /\ at[w] = {InitAt[w]}
      <3>1. table[w] = [exists |-> TRUE, to |-> InitAt[w], active |-> TRUE]
        BY DEF Init
      <3> QED
        BY <3>1 DEF Init
    <2>2. \A w, x \in Watch : w # x => InitAt[w] # InitAt[x]
      BY WatchAssumption
    <2> QED
      BY <2>1, <2>2 DEF Init, TargetsDistinct, SavedDistinct, SavedFollows, WatchFollows
  <1> QED
    BY <1>1, <1>2, <1>3, <1>4 DEF IInv, Leases

\* ... and is kept by every step.
LEMMA Inductive == IInv /\ [Next]_vars => IInv'
  <1> SUFFICES ASSUME IInv, [Next]_vars PROVE IInv'
    OBVIOUS
  <1>1. Leases'
    BY TypeStep, ApartStep, HeldStep DEF IInv, Leases
  <1>2. Marked' /\ PlanValid'
    BY MarkedStep, PlanStep DEF IInv, Leases
  <1>3. TargetsDistinct'
    BY DistinctStep DEF IInv, Leases
  <1>4. SavedDistinct' /\ SavedFollows'
    BY <1>3, SavedDistinctStep, SavedFollowsStep DEF IInv, Leases
  <1>5. LateInPlace' /\ InTransit' /\ WatchFollows' /\ RefreshAtTarget'
    BY LateStep, TransitStep, FollowsStep, RefreshStep DEF IInv
  <1> QED
    BY <1>1, <1>2, <1>3, <1>4, <1>5 DEF IInv

\* It holds in every state of every behaviour.
LEMMA Always == Spec => []IInv
  BY Initially, Inductive, PTL DEF Spec

\* The variables keep their types, and whatever enters or leaves the semaphore of
\* the scheduler, no more executions are admitted than it has permits.
THEOREM WatchTypes == Spec => []TypeOK
  <1>1. IInv => TypeOK
    BY DEF IInv, Leases
  <1> QED
    BY <1>1, Always, PTL

\* _executing_tasks keeps the rounds of a watch apart, whether the scheduler,
\* schedule_task or an import starts them, until a durable import discards a mark
\* it does not own.
THEOREM OneRoundAtATime == Spec => []OneRound
  <1>1. IInv => OneRound
    BY MarkedMeansOne DEF IInv, Leases
  <1> QED
    BY <1>1, Always, PTL

\* _execute_task refreshes a resource where its watch points: the leases of the
\* coordinator and the second comparison of the target keep moves out between the
\* check and the end of the refresh, late imports by a connector included; the
\* resource is nowhere else unless a move was broken off, met such an import, or a
\* deletion was not saved.
THEOREM RefreshedInPlace == Spec => []RefreshAtTarget
  <1>1. IInv => RefreshAtTarget
    BY DEF IInv
  <1> QED
    BY <1>1, Always, PTL

\* Outside a move every watch points at its resource, for any number of moves,
\* failed saves, moves back, connector imports and restarts, unless a move was
\* broken off (cancelled, torn, not undone), met an import under way that holds no
\* lease, or a deletion was not saved.
THEOREM WatchesFollow == Spec => []WatchFollows
  <1>1. IInv => WatchFollows
    BY DEF IInv
  <1> QED
    BY <1>1, Always, PTL

\* The validated rewrite never gives two watches one target.
THEOREM TargetsApart == Spec => []TargetsDistinct
  <1>1. IInv => TargetsDistinct
    BY DEF IInv
  <1> QED
    BY <1>1, Always, PTL

=============================================================================
