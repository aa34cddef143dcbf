--------------------------- MODULE WatchScheduler ---------------------------
(* Resource watches: the scheduler that imports due resources again, the table *)
(* of watches, moves and removals of the watched resources, and imports that   *)
(* create a watch and record its first round.  One account.  An import by an   *)
(* external connector holds no lease and may outlive the round that waits for  *)
(* it.                                                                         *)
EXTENDS Naturals, FiniteSets, Sequences, SequencesExt

CONSTANTS Watch,            \* watch tasks
          Name,             \* names in URIs
          InitAt,           \* where the watched resources are at first
          Moves,            \* pairs of URIs somebody moves
          MaxConcurrency,   \* permits of the scheduler's semaphore
          MaxRun,           \* bound: executions at a time
          MaxAsk,           \* bound: imports, and requests about watches and their resources
          MaxFault          \* bound: failed saves, moves and looks, time-outs, cancellations, restarts

Uri == Seq(Name) \ {<<>>}

ASSUME WatchAssumption ==
    /\ Watch # {} /\ InitAt \in [Watch -> Uri] /\ Moves \subseteq Uri \X Uri
    /\ \A w, x \in Watch : InitAt[w] = InitAt[x] => w = x
    /\ MaxConcurrency \in Nat \ {0} /\ MaxRun \in Nat /\ MaxAsk \in Nat /\ MaxFault \in Nat

VARIABLES
    table,      \* WatchManager._tasks: the target, whether the watch exists and is active
    saved,      \* the copy of the table in the storage
    due,        \* watches whose next_execution_time has passed
    at,         \* the places of each watched resource: one, none when it is removed,
                \* or several when a broken off move or a late import left copies
    late,       \* imports to a URI that go on under no lease
    executing,  \* _executing_tasks
    run,        \* executions, of the scheduler loop and of schedule_task
    move,       \* the move of a resource, with the mutation lease it takes
    rm,         \* the URI whose removal has not reached the table yet
    job,        \* imports that record a round of a watch at their end
    asks, faults,
    stolen,     \* history: watches whose mark was discarded by another than its owner
    lost        \* history: watches a broken off move or deletion left behind, or whose
                \* resource was moved during an import that holds no lease

files == <<at, late, move, rm>>
history == <<stolen, lost>>
vars == <<table, saved, due, files, executing, run, job, asks, faults, history>>

Run == 1 .. MaxRun
Gone == <<>>
Idle == [pc |-> "idle", w |-> CHOOSE w \in Watch : TRUE, uri |-> Gone, off |-> FALSE]
NoMove == [pc |-> "idle", from |-> Gone, to |-> Gone]
Leased == {"look", "check", "import", "record", "off", "leave"}  \* with an access lease
Admitted == Leased \cup {"wait"}                                 \* with a permit

-----------------------------------------------------------------------------
(* The URI coordinator *)

Under(u, p) == u # Gone /\ IsPrefix(p, u)
Overlap(u, v) == IsPrefix(u, v) \/ IsPrefix(v, u)
Touches(u) == Overlap(u, move.from) \/ Overlap(u, move.to)
\* Mutant: a mutation that waits goes before new accesses.
BlockedByWaiter(u) == move.pc # "idle" /\ Touches(u)
\* _has_blocker of an access: only active mutations count.
Blocked(u) == move.pc \notin {"idle", "wait"} /\ Touches(u)
\* _has_blocker of a mutation.
MoveFree == \A r \in Run : run[r].pc \in Leased => ~Touches(run[r].uri)

-----------------------------------------------------------------------------
(* The table and the marks *)

Fault == faults < MaxFault /\ faults' = faults + 1
Ask == asks < MaxAsk /\ asks' = asks + 1
\* _save_tasks, at the end of every change of the table; it may raise.
Save == saved' = table' /\ UNCHANGED faults
SaveFails == UNCHANGED saved /\ Fault
SaveOrNot == Save \/ SaveFails

\* get_task and update_task find the watch under a stable target.
Found(w) == table[w].exists /\ ~Blocked(table[w].to)
Deactivated(ws) == [w \in Watch |-> IF w \in ws THEN [table[w] EXCEPT !.active = FALSE] ELSE table[w]]

MarkTwice(w) == executing' = executing \cup {w}               \* mutant: no check
TryMark(w) == w \notin executing /\ executing' = executing \cup {w}
Discard(w) == executing' = executing \ {w}

Init ==
    /\ table = [w \in Watch |-> [exists |-> TRUE, to |-> InitAt[w], active |-> TRUE]]
    /\ saved = table /\ due = {} /\ at = [w \in Watch |-> {InitAt[w]}] /\ late = {}
    /\ executing = {} /\ run = [r \in Run |-> Idle]
    /\ move = NoMove /\ rm = Gone
    /\ job = [w \in Watch |-> "none"]
    /\ asks = 0 /\ faults = 0
    /\ stolen = {} /\ lost = {}

\* The interval of an active watch has passed.
Tick(w) ==
    /\ table[w].exists /\ table[w].active /\ w \notin due
    /\ due' = due \cup {w}
    /\ UNCHANGED <<table, saved, files, executing, run, job, asks, faults, history>>

-----------------------------------------------------------------------------
(* An execution *)

Start(w) ==
    \E r \in Run :
        /\ run[r].pc = "idle" /\ \A q \in 1 .. r - 1 : run[q].pc # "idle"
        /\ run' = [run EXCEPT ![r] = [Idle EXCEPT !.pc = "queued", !.w = w]]
        /\ TryMark(w)
        /\ UNCHANGED <<table, saved, due, files, job, faults, history>>
\* _check_and_execute_due_tasks
Pick(w) == w \in due /\ Start(w) /\ UNCHANGED asks
\* schedule_task: any watch, due or not, active or not
ScheduleTask(w) == Found(w) /\ Start(w) /\ Ask

AnyNumber == TRUE                         \* mutant: no semaphore
Permit == Cardinality({r \in Run : run[r].pc \in Admitted}) < MaxConcurrency

Goto(r, pc) == run' = [run EXCEPT ![r].pc = pc]
Same == UNCHANGED <<executing, files, job, asks, history>>

\* A permit is taken; only now is the target of the watch read.
Enter(r) ==
    /\ run[r].pc = "queued" /\ Permit
    /\ run' = [run EXCEPT ![r].pc = "wait", ![r].uri = table[run[r].w].to]
    /\ Same /\ UNCHANGED <<table, saved, due, faults>>

Access(r) ==
    /\ run[r].pc = "wait" /\ ~Blocked(run[r].uri)
    /\ Goto(r, "look")
    /\ Same /\ UNCHANGED <<table, saved, due, faults>>

StableAlways(r) == TRUE                   \* mutant: the target is not compared
Stable(r) == table[run[r].w].to = run[r].uri
\* The loop of _execute_task, under the access lease of the target it read.
Look(r) ==
    LET w == run[r].w IN
    /\ run[r].pc = "look"
    /\ table[w].exists => ~Blocked(table[w].to)      \* nested access of get_task
    /\ \/ ~table[w].exists /\ Goto(r, "leave")
       \/ table[w].exists /\ Stable(r) /\ Goto(r, "check")
       \/ table[w].exists /\ ~Stable(r)
          /\ run' = [run EXCEPT ![r].pc = "wait", ![r].uri = table[w].to]
    /\ Same /\ UNCHANGED <<table, saved, due, faults>>

TargetAlways(r) == TRUE                   \* mutant: the target is taken to exist
TargetExists(r) == run[r].uri \in at[run[r].w]
\* The checks of _execute_stable_task before the import: the source may have
\* disappeared, the target may have been removed; a look that fails stops nothing.
Check(r) ==
    /\ run[r].pc = "check"
    /\ \/ run' = [run EXCEPT ![r].pc = "record", ![r].off = TRUE] /\ UNCHANGED faults
       \/ TargetExists(r) /\ Goto(r, "import") /\ UNCHANGED faults
       \/ ~TargetExists(r) /\ Goto(r, "import") /\ Fault
    /\ Same /\ UNCHANGED <<table, saved, due>>

Put(w, u) == at' = [at EXCEPT ![w] = @ \cup {u}]
\* refresh_resource and the wait for its task: it completes, and puts the
\* resource (back) at the target; it fails, perhaps for want of the resource; or
\* it times out, and goes on where it runs.
Import(r) ==
    LET w == run[r].w
        u == run[r].uri IN
    /\ run[r].pc = "import"
    /\ \/ Put(w, u) /\ UNCHANGED <<late, faults>> /\ Goto(r, "record")
       \/ /\ UNCHANGED <<at, late, faults>>
          /\ \E b \in BOOLEAN : run' = [run EXCEPT ![r].pc = "record", ![r].off = b]
       \/ UNCHANGED at /\ late' = late \cup {<<w, u>>} /\ Fault /\ Goto(r, "record")
    /\ UNCHANGED <<table, saved, due, executing, move, rm, job, asks, history>>

\* record_execution: an unknown watch is ignored; otherwise the next time is set
\* and the table saved.  An error skips the deactivation.
RecordExecution(w) ==
    /\ due' = due \ {w}
    /\ UNCHANGED table
    /\ IF table[w].exists THEN SaveOrNot ELSE UNCHANGED <<saved, faults>>
Record(r) ==
    /\ run[r].pc = "record"
    /\ RecordExecution(run[r].w)
    /\ Goto(r, IF run[r].off /\ faults' = faults THEN "off" ELSE "leave")
    /\ Same
\* update_task(is_active=False), inside the lease the execution holds.
TurnOff(r) ==
    LET w == run[r].w IN
    /\ run[r].pc = "off" /\ (table[w].exists => Found(w))
    /\ \/ ~table[w].exists /\ UNCHANGED <<table, saved, due, faults>>
       \/ table[w].exists /\ table' = Deactivated({w}) /\ due' = due \ {w} /\ SaveOrNot
    /\ Goto(r, "leave") /\ Same

Leave(r) ==
    /\ run[r].pc = "leave"
    /\ run' = [run EXCEPT ![r] = Idle] /\ Discard(run[r].w)
    /\ UNCHANGED <<table, saved, due, files, job, asks, faults, history>>

\* The execution is cancelled, by stop or by whoever called schedule_task.  Its
\* import goes on; so does record_execution, but no deactivation follows it.
Cancel(r) ==
    LET w == run[r].w IN
    /\ run[r].pc \in {"queued", "wait", "look", "check", "import", "record"}
    /\ run' = [run EXCEPT ![r] = Idle] /\ Discard(w)
    /\ Fault
    /\ late' = IF run[r].pc = "import" THEN late \cup {<<w, run[r].uri>>} ELSE late
    /\ due' = IF run[r].pc = "record" THEN due \ {w} ELSE due
    /\ saved' = IF run[r].pc = "record" /\ table[w].exists THEN table ELSE saved
    /\ UNCHANGED <<table, at, move, rm, job, asks, history>>

RunStep(r) == Access(r) \/ Look(r) \/ Check(r) \/ Import(r) \/ Record(r) \/ TurnOff(r) \/ Leave(r)

-----------------------------------------------------------------------------
(* Imports that create or update the watch of their resource *)

Free(u) == \A w \in Watch : table[w].exists => table[w].to # u
\* _handle_watch_task_creation: the watch of the target is created, active or not,
\* or the existing one updated.  A new watch is for a resource that is nowhere else.
Upsert(w) ==
    LET u == table[w].to IN
    /\ Ask /\ job[w] = "none" /\ ~Blocked(u)
    /\ table[w].exists \/ (Free(u) /\ at[w] \subseteq {u})
    /\ \E b \in BOOLEAN : table' = [table EXCEPT ![w].exists = TRUE, ![w].active = b]
    /\ due' = due \ {w}
    /\ UNCHANGED <<move, rm, run, history>>
\* Connector import: the watch is there, and held, before the first round is
\* handed to the connector, which delivers under no lease of the coordinator.
HeldImport(w) ==
    /\ Upsert(w) /\ UNCHANGED at
    /\ \/ Save /\ TryMark(w) /\ job' = [job EXCEPT ![w] = "held"]
          /\ late' = late \cup {<<w, table[w].to>>}
       \/ SaveFails /\ UNCHANGED <<executing, job, late>>
\* Import of the durable queue: the resource is at the target, under the path lock
\* of the import, before the watch is created; nothing is held.
DurableImport(w) ==
    /\ Upsert(w) /\ Put(w, table[w].to)
    /\ \/ Save /\ job' = [job EXCEPT ![w] = "free"]
       \/ SaveFails /\ UNCHANGED job
    /\ UNCHANGED <<executing, late>>
\* The connector writes to the target it was given, and again, until it is done
\* or fails; whoever waited for it may have given up.
Deliver(i) ==
    /\ Put(i[1], i[2])
    /\ UNCHANGED <<table, saved, due, late, move, rm, executing, run, job, asks, faults, history>>
EndImport(i) ==
    /\ late' = late \ {i}
    /\ UNCHANGED <<table, saved, due, at, move, rm, executing, run, job, asks, faults, history>>
\* record_watch_execution: record the round, then release the mark, whoever set it.
JobEnds(w) ==
    /\ job[w] # "none" /\ job' = [job EXCEPT ![w] = "none"]
    /\ RecordExecution(w)
    /\ Discard(w)
    /\ stolen' = IF job[w] = "free" /\ w \in executing THEN stolen \cup {w} ELSE stolen
    /\ UNCHANGED <<files, run, asks, lost>>

-----------------------------------------------------------------------------
(* Requests about watches *)

\* delete_task; when the save fails the watch is gone from memory only.
DeleteTask(w) ==
    /\ Found(w) /\ Ask
    /\ table' = [table EXCEPT ![w].exists = FALSE] /\ due' = due \ {w}
    /\ \/ Save /\ UNCHANGED lost
       \/ SaveFails /\ lost' = lost \cup {w}
    /\ UNCHANGED <<files, executing, run, job, stolen>>
\* update_task(is_active)
SetActive(w, b) ==
    /\ Found(w) /\ table[w].active # b /\ Ask
    /\ table' = [table EXCEPT ![w].active = b] /\ due' = due \ {w}
    /\ SaveOrNot
    /\ UNCHANGED <<files, executing, run, job, history>>

-----------------------------------------------------------------------------
(* Moves and removals *)

\* _rewrite_uri_prefix
Rewritten(u) ==
    IF Under(u, move.from) THEN move.to \o SubSeq(u, Len(move.from) + 1, Len(u)) ELSE u
Back(u) ==
    IF Under(u, move.to) THEN move.from \o SubSeq(u, Len(move.to) + 1, Len(u)) ELSE u
Matching(u) == {w \in Watch : table[w].exists /\ Under(table[w].to, u)}
NeverConflict == FALSE                    \* mutant: the plan is not validated
\* _plan_target_prefix_rewrite_unlocked raises.
Conflict ==
    \E w \in Matching(move.from), x \in Watch :
        x # w /\ table[x].exists /\ table[x].to = Rewritten(table[w].to)

Moving(new) == UNCHANGED <<due, executing, run, rm, job, late, stolen>> /\ move' = new
Advance(pc) == Moving([move EXCEPT !.pc = pc])

MoveRequest ==
    \E m \in Moves :
        /\ move.pc = "idle" /\ Ask
        /\ Moving([pc |-> "wait", from |-> m[1], to |-> m[2]])
        /\ UNCHANGED <<table, saved, at, faults, lost>>
\* The mutation lease is taken and the rewrite of the table validated.
MoveStart ==
    /\ move.pc = "wait" /\ MoveFree
    /\ IF Conflict THEN Moving(NoMove) ELSE Advance("held")
    /\ UNCHANGED <<table, saved, at, asks, faults, lost>>
Present(p) == \E w \in Watch : \E u \in at[w] : Under(u, p)
Relocated == [w \in Watch |-> {Rewritten(u) : u \in at[w]}]
Returned == [w \in Watch |-> {Back(u) : u \in at[w]}]
\* What a viking_fs.mv to the places new leaves that raises after it has copied: its
\* own rollback or the release of its lock failed.
Torn(new) == {new, [w \in Watch |-> at[w] \cup new[w]]}
\* Imports that hold no lease run in what is moved.
Outrun == {w \in Watch : \E i \in late : i[1] = w /\ Touches(i[2])}
\* viking_fs.mv; it raises when there is nothing to move or the target exists, and
\* leaves everything in place, or is broken off.
MoveFiles ==
    /\ move.pc = "held"
    /\ \/ /\ Present(move.from) /\ ~Present(move.to)
          /\ \/ /\ at' = Relocated /\ Advance("moved")
                /\ lost' = lost \cup Outrun /\ UNCHANGED faults
             \/ /\ at' \in Torn(Relocated) /\ Fault /\ Moving(NoMove)
                /\ lost' = lost \cup {w \in Watch : at'[w] # at[w]}
       \/ UNCHANGED <<at, faults, lost>> /\ Moving(NoMove)
    /\ UNCHANGED <<table, saved, asks>>
RewriteKept ==                            \* mutant: a failed save leaves the new targets
    /\ move.pc = "moved"
    /\ table' = [w \in Watch |->
                   IF w \in Matching(move.from)
                   THEN [table[w] EXCEPT !.to = Rewritten(table[w].to)] ELSE table[w]]
    /\ \/ Save /\ Moving(NoMove)
       \/ SaveFails /\ Advance("undo")
    /\ UNCHANGED <<at, asks, lost>>
\* rewrite_target_prefix_internal: all targets in memory and in the storage, or,
\* when the save fails, none.
RewriteTargets ==
    /\ move.pc = "moved"
    /\ \/ /\ table' = [w \in Watch |->
                         IF w \in Matching(move.from)
                         THEN [table[w] EXCEPT !.to = Rewritten(table[w].to)] ELSE table[w]]
          /\ (IF Matching(move.from) = {} THEN UNCHANGED <<saved, faults>> ELSE Save)
          /\ Moving(NoMove)
       \/ UNCHANGED table /\ SaveFails /\ Matching(move.from) # {} /\ Advance("undo")
    /\ UNCHANGED <<at, asks, lost>>
\* The files are moved back; if that fails too, because an import has come to the
\* old place or otherwise, the watches stay behind.
MoveBack ==
    /\ move.pc = "undo" /\ Moving(NoMove)
    /\ \/ ~Present(move.from) /\ at' = Returned /\ UNCHANGED <<faults, lost>>
       \/ /\ \/ Present(move.from) /\ UNCHANGED <<at, faults>>
             \/ at' \in {at} \cup Torn(Returned) /\ Fault
          /\ lost' = lost \cup Matching(move.from)
    /\ UNCHANGED <<table, saved, asks>>
\* The transaction is cancelled after the files were moved: nothing is undone.
MoveCancelled ==
    /\ move.pc = "moved" /\ Fault /\ Moving(NoMove)
    /\ lost' = lost \cup Matching(move.from)
    /\ UNCHANGED <<table, saved, at, asks>>

\* rm of a resource, which takes no lease of the coordinator ...
RmFiles ==
    /\ rm = Gone /\ Ask
    /\ \E w \in Watch : \E u \in at[w] : rm' = u
    /\ at' = [w \in Watch |-> {u \in at[w] : ~Under(u, rm')}]
    /\ UNCHANGED <<table, saved, due, late, move, executing, run, job, faults, history>>
\* ... and then _sync_watch_after_rm.
SyncAfterRm ==
    /\ rm # Gone /\ ~Blocked(rm) /\ rm' = Gone
    /\ table' = Deactivated(Matching(rm)) /\ due' = due \ Matching(rm)
    /\ IF Matching(rm) = {} THEN UNCHANGED <<saved, faults>> ELSE SaveOrNot
    /\ UNCHANGED <<at, late, move, executing, run, job, asks, history>>

-----------------------------------------------------------------------------
(* The process dies; the table is loaded again.  Imports under way go on in    *)
(* their service or start over.                                                *)
Restart ==
    /\ Fault
    /\ table' = saved
    /\ due' = {w \in due : saved[w].exists /\ saved[w].active}
    /\ executing' = {} /\ run' = [r \in Run |-> Idle]
    /\ move' = NoMove /\ rm' = Gone /\ job' = [w \in Watch |-> "none"]
    /\ late' = late \cup {<<run[r].w, run[r].uri>> : r \in {q \in Run : run[q].pc = "import"}}
    /\ \/ /\ UNCHANGED at
          /\ lost' = IF move.pc \in {"moved", "undo"} THEN lost \cup Matching(move.from) ELSE lost
       \/ /\ move.pc = "held" /\ Present(move.from) /\ ~Present(move.to)
          /\ at' \in Torn(Relocated)
          /\ lost' = lost \cup {w \in Watch : at'[w] # at[w]}
    /\ UNCHANGED <<saved, asks, stolen>>

MoveStep == MoveStart \/ MoveFiles \/ RewriteTargets \/ MoveBack
Next ==
    \/ \E w \in Watch : \/ Tick(w) \/ Pick(w) \/ ScheduleTask(w)
                        \/ HeldImport(w) \/ DurableImport(w) \/ JobEnds(w)
                        \/ DeleteTask(w) \/ \E b \in BOOLEAN : SetActive(w, b)
    \/ \E r \in Run : Enter(r) \/ RunStep(r) \/ Cancel(r)
    \/ \E i \in late : Deliver(i) \/ EndImport(i)
    \/ MoveRequest \/ MoveStep \/ MoveCancelled \/ RmFiles \/ SyncAfterRm \/ Restart

Spec == Init /\ [][Next]_vars

(* Time passes, the scheduler loop comes round and the executions of a watch    *)
(* run on; asyncio.Semaphore serves waiters in order, hence strong fairness.    *)
(* What was asked for, of which there is a bounded number, goes on when it can. *)
(* Nothing makes a waiting mutation be served before later accesses.            *)
Round(w) ==
    Tick(w) \/ Pick(w) \/ \E r \in Run : run[r].w = w /\ (Enter(r) \/ RunStep(r))
Fairness ==
    /\ \A w \in Watch : SF_vars(Round(w))
    /\ WF_vars(MoveStep \/ SyncAfterRm \/ \E w \in Watch : JobEnds(w))
LiveSpec == Spec /\ Fairness

-----------------------------------------------------------------------------
(* Properties *)

\* The variables have their types, and no more executions are admitted than the
\* scheduler has permits.
TypeOK ==
    /\ \A t \in {table, saved} : t \in [Watch -> [exists : BOOLEAN, to : Uri, active : BOOLEAN]]
    /\ due \subseteq Watch /\ executing \subseteq Watch
    /\ at \in [Watch -> SUBSET Seq(Name)] /\ late \subseteq Watch \X Seq(Name)
    /\ job \in [Watch -> {"none", "held", "free"}]
    /\ run \in [Run -> [pc : Admitted \cup {"idle", "queued"}, w : Watch, uri : Seq(Name), off : BOOLEAN]]
    /\ move \in [pc : {"idle", "wait", "held", "moved", "undo"}, from : Seq(Name), to : Seq(Name)]
    /\ rm \in Seq(Name)
    /\ asks \in 0 .. MaxAsk /\ faults \in 0 .. MaxFault
    /\ stolen \subseteq Watch /\ lost \subseteq Watch
    /\ Cardinality({r \in Run : run[r].pc \in Admitted}) <= MaxConcurrency

Rounds(w) ==
    Cardinality({r \in Run : run[r].pc # "idle" /\ run[r].w = w})
        + (IF job[w] = "held" THEN 1 ELSE 0)

\* A watch has one round at a time, of the scheduler, of schedule_task or of the
\* import that created it, for as long as nobody discards a mark that is not its
\* own; the durable import, which holds nothing, can.
OneRound == \A w \in Watch \ stolen : Rounds(w) <= 1

\* From the check of its target to the end of the refresh an execution works on
\* the target its watch has, and the watch's resource is nowhere else: moves,
\* deletions, failed saves, restarts and late imports since it was scheduled
\* neither make it import to an old place nor deactivate a watch that only moved.
\* A removal may come in between.  The resource of a watch in lost may be elsewhere.
RefreshAtTarget ==
    \A r \in Run :
        run[r].pc \in {"check", "import"} =>
            /\ table[run[r].w].to = run[r].uri
            /\ run[r].w \notin lost => at[run[r].w] \subseteq {run[r].uri}

\* Outside a move every watch points at its resource, failed saves, moves rolled
\* back, late imports and restarts included, unless a move or a deletion was broken
\* off for good, or the move met an import that holds no lease.
WatchFollows ==
    \A w \in Watch \ lost :
        move.pc \notin {"moved", "undo"} /\ table[w].exists => at[w] \subseteq {table[w].to}

\* Two watches never have one target.
TargetsDistinct ==
    \A w, x \in Watch : /\ w # x /\ table[w].exists /\ table[x].exists
                        => table[w].to # table[x].to

\* No watch stays due for ever: it is run, or stops being due; no mark is left behind,
\* and moves, accesses inside accesses and the semaphore do not wait for one another.
DueSettles == \A w \in Watch : []<>(w \notin due)

\* The watch of a resource that was removed, or never delivered, does not stay active: it
\* is deactivated by the removal or, when a move came in between or the save failed, by
\* its next execution.
RemovedStops ==
    \A w \in Watch : []<>(at[w] # {} \/ ~table[w].exists \/ ~table[w].active)

=============================================================================
