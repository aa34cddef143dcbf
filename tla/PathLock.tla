------------------------------ MODULE PathLock ------------------------------
(***************************************************************************)
(* The path-lock token protocol of crates/ragfs/src/lock: owners acquire    *)
(* batches of EXACT and TREE locks by checking the tokens that conflict,    *)
(* writing their own token, and checking again before the lease is          *)
(* published.  Every provider call is one step, so the calls of different   *)
(* owners interleave; the calls of one owner are serialised by its mutex.   *)
(*                                                                          *)
(* A lock file is a slot <<path, side>>: side "dir" is {path}/.path.ovlock, *)
(* side "side" is {parent}/.exact.ovlock.<name>.<hash>.                     *)
(***************************************************************************)
EXTENDS Naturals, Sequences, FiniteSets

CONSTANTS
    Owner,       \* owner ids: one per OwnerState of some process
    NoOwner,     \* the owner field of a cell that holds no token
    Path,        \* paths that may be locked
    Anc,         \* Anc[p]: the strict ancestors of p
    Files,       \* paths that are regular files throughout
    InitDirs,    \* directories that exist initially
    Batches,     \* normalised request batches callers may ask for
    LeaseId,     \* bound: lease slots per owner (reentrant leases)
    Provider,    \* "memory" or "filesystem"
    Crashable,   \* owners whose process may crash
    Stallable,   \* owners whose process may stall past lock_expire
    Patient      \* owners whose calls set no deadline on acquire

Kind == {"E", "T"}
Side == {"dir", "side"}
Slot == Path \X Side
Request == [path : Path, kind : Kind]

ASSUME OwnerAssumption == NoOwner \notin Owner
ASSUME TreeAssumption ==
    /\ Anc \in [Path -> SUBSET Path]
    /\ \A p \in Path : p \notin Anc[p]
    /\ \A p, q \in Path : q \in Anc[p] => Anc[q] \subseteq Anc[p]
    /\ \A p \in Path : Anc[p] \cap Files = {}
    /\ InitDirs \in SUBSET (Path \ Files)
ASSUME BatchAssumption ==
    /\ Batches \subseteq Seq(Request)
    /\ \A b \in Batches :
         /\ Len(b) > 0
         /\ \A i, j \in 1..Len(b) : b[i].path = b[j].path => i = j
ASSUME EnvAssumption ==
    /\ Provider \in {"memory", "filesystem"}
    /\ Crashable \in SUBSET Owner
    /\ Stallable \in SUBSET Owner
    /\ Patient \in SUBSET Owner
ASSUME LeaseIdAssumption == 0 \notin LeaseId

VARIABLES
    token,    \* the lock files: [Slot -> Cell]
    dirs,     \* directories that exist
    pc,       \* where each owner's acquire call is
    batch,    \* the batch it is acquiring
    cap,      \* lease whose capability it presented, 0 for a new owner
    idx,      \* request of the batch it is at
    side,     \* lock file resolved for that request ("none" before stat)
    todo,     \* lock files still to be read
    acq,      \* token changes of this attempt
    conf,     \* lock file of a conflict met before the tokens were verified
    victim,   \* owner of the stale token it is removing
    fatal,    \* the error that stopped the attempt is not retryable
    leases,   \* OwnerRegistry entries: [LeaseId -> set of grants]
    rel,      \* lease a release holds the owner mutex for, 0 if none
    drop,     \* lock files that release has still to handle
    lapsed,   \* history: owners that had a token expire under them
    torn      \* history: a provider call destroyed a token it did not aim at

acqVars == <<pc, batch, cap, idx, side, todo, acq, conf, victim, fatal>>
vars == <<token, dirs, acqVars, leases, rel, drop, lapsed, torn>>

-----------------------------------------------------------------------------
(* Tokens *)

\* file: the owner that created the file at this path (its identity).
Cell == [owner : Owner \cup {NoOwner}, kind : Kind \cup {"empty", "none"},
         stale : BOOLEAN, file : Owner \cup {NoOwner}]
NoToken == [owner |-> NoOwner, kind |-> "none", stale |-> FALSE,
            file |-> NoOwner]
EmptyFile(o) == [owner |-> NoOwner, kind |-> "empty", stale |-> FALSE,
                 file |-> o]
\* The token o writes now into the lock file c.
Fresh(c, o, k) == [owner |-> o, kind |-> k, stale |-> FALSE, file |-> c.file]

IsToken(c) == c.kind \in Kind
IsStaleInverted(c) == ~c.stale   \* mutant: the age comparison is reversed
IsStaleNever(c) == FALSE         \* mutant: tokens never expire
IsStale(c) == c.stale
\* read_token answers EmptyToken while a created file has no content yet.
ReadFails(c) == c.kind = "empty" /\ ~c.stale

Grant == [slot : Slot, kind : Kind]
Held(o) == UNION {leases[o][l] : l \in LeaseId}
Slots(gs) == {g.slot : g \in gs}
AtLeast(k, want) == want = "T" => k = "T"

Change == [i : Nat, slot : Slot, kind : Kind,
           how : {"created", "reentrant", "upgraded"}, was : BOOLEAN]
GrantsOf(as) == {[slot |-> a.slot, kind |-> a.kind] : a \in as}

-----------------------------------------------------------------------------
(* Which lock files a request has to look at *)

AncSlots(r) == {<<a, "dir">> : a \in Anc[r.path]}
OwnSlots(r) == {r.path} \X Side
DescSlots(r) == IF r.kind = "T" THEN {p \in Path : r.path \in Anc[p]} \X Side
                                ELSE {}
CheckSlots(r) == AncSlots(r) \cup OwnSlots(r) \cup DescSlots(r)

\* The three checks run one after the other: ancestors, the path, descendants.
NextReads(r, left) ==
    IF left \cap AncSlots(r) # {} THEN left \cap AncSlots(r)
    ELSE IF left \cap OwnSlots(r) # {} THEN left \cap OwnSlots(r)
    ELSE left

\* A live token of another owner; on an ancestor only TREE counts.
Blocks(o, r, s) ==
    /\ IsToken(token[s])
    /\ token[s].owner # o
    /\ ~IsStale(token[s])
    /\ s \in AncSlots(r) => token[s].kind = "T"

Req(o) == batch[o][idx[o]]
Target(o) == <<Req(o).path, side[o]>>

\* Mutant: a TREE lock on a file is placed as if it were a directory.
ResolveNoFile(r) ==
    IF r.kind = "E" THEN (IF r.path \in dirs THEN "dir" ELSE "side") ELSE "dir"

\* resolve_exact_paths / resolve_tree_lock_path: which file one stat selects.
Resolve(r) ==
    IF r.kind = "E" THEN (IF r.path \in dirs THEN "dir" ELSE "side")
                    ELSE (IF r.path \in Files THEN "side" ELSE "dir")

Dead == {o \in Owner : pc[o] = "dead"}
\* No acquire attempt and no release is inside the owner's mutex.
MutexFree(o) ==
    rel[o] = 0 /\ pc[o] \in {"idle", "clean", "sweep", "sweepUnlink", "backoff"}

-----------------------------------------------------------------------------
Init ==
    /\ token = [s \in Slot |-> NoToken]
    /\ dirs = InitDirs
    /\ pc = [o \in Owner |-> "idle"]
    /\ batch = [o \in Owner |-> <<>>]
    /\ cap = [o \in Owner |-> 0]
    /\ idx = [o \in Owner |-> 1]
    /\ side = [o \in Owner |-> "none"]
    /\ todo = [o \in Owner |-> {}]
    /\ acq = [o \in Owner |-> {}]
    /\ conf = [o \in Owner |-> {}]
    /\ victim = [o \in Owner |-> NoOwner]
    /\ fatal = [o \in Owner |-> FALSE]
    /\ leases = [o \in Owner |-> [l \in LeaseId |-> {}]]
    /\ rel = [o \in Owner |-> 0]
    /\ drop = [o \in Owner |-> {}]
    /\ lapsed = {}
    /\ torn = FALSE

-----------------------------------------------------------------------------
(* acquire_batch *)

Goto(o, l) == pc' = [pc EXCEPT ![o] = l]

\* acquire_batch returns; the locals of the call are gone.
Return(o) ==
    /\ Goto(o, "idle")
    /\ batch' = [batch EXCEPT ![o] = <<>>]
    /\ cap' = [cap EXCEPT ![o] = 0]
    /\ idx' = [idx EXCEPT ![o] = 1]
    /\ side' = [side EXCEPT ![o] = "none"]
    /\ todo' = [todo EXCEPT ![o] = {}]
    /\ acq' = [acq EXCEPT ![o] = {}]
    /\ conf' = [conf EXCEPT ![o] = {}]
    /\ fatal' = [fatal EXCEPT ![o] = FALSE]
    /\ victim' = [victim EXCEPT ![o] = NoOwner]

\* try_acquire_batch_once from the first request on.
StartAttempt(o, b) ==
    /\ Goto(o, "check")
    /\ idx' = [idx EXCEPT ![o] = 1]
    /\ side' = [side EXCEPT ![o] = "none"]
    /\ todo' = [todo EXCEPT ![o] = CheckSlots(b[1])]
    /\ acq' = [acq EXCEPT ![o] = {}]
    /\ conf' = [conf EXCEPT ![o] = {}]
    /\ fatal' = [fatal EXCEPT ![o] = FALSE]
    /\ victim' = [victim EXCEPT ![o] = NoOwner]

\* resolve_owner_state: a call without capability makes a new owner, one with
\* a capability is reentrant under the owner of that lease.
Begin(o, b, c) ==
    /\ pc[o] = "idle" /\ rel[o] = 0
    /\ \E l \in LeaseId : leases[o][l] = {}
    /\ IF Held(o) = {} THEN c = 0 ELSE c \in LeaseId /\ leases[o][c] # {}
    /\ batch' = [batch EXCEPT ![o] = b]
    /\ cap' = [cap EXCEPT ![o] = c]
    /\ StartAttempt(o, b)
    /\ UNCHANGED <<token, dirs, leases, rel, drop, lapsed, torn>>

\* An error of the attempt; conf is kept for a conflict met before verification.
Fail(o, conflict, isFatal) ==
    /\ Goto(o, "rollback")
    /\ conf' = [conf EXCEPT ![o] = conflict]
    /\ fatal' = [fatal EXCEPT ![o] = isFatal]

Stat(o) ==
    /\ pc[o] = "check" /\ side[o] = "none"
    /\ todo[o] = IF Req(o).kind = "E" THEN OwnSlots(Req(o))
                                      ELSE CheckSlots(Req(o))
    /\ side' = [side EXCEPT ![o] = Resolve(Req(o))]
    /\ UNCHANGED <<token, dirs, pc, batch, cap, idx, todo, acq, conf, victim,
                   fatal, leases, rel, drop, lapsed, torn>>

\* check_ancestor_tree_locks, check_lock_paths, check_descendant_locks: one
\* read_token.  Before the tokens are written and, as verification, after.
CheckRead(o, s) ==
    /\ pc[o] \in {"check", "verify"}
    /\ s \in NextReads(Req(o), todo[o])
    /\ pc[o] = "check" /\ side[o] = "none" =>
         Req(o).kind = "E" /\ s \in AncSlots(Req(o))
    /\ \/ /\ Blocks(o, Req(o), s)
          /\ Fail(o, IF pc[o] = "check" THEN {s} ELSE {}, FALSE)
          /\ UNCHANGED todo
       \/ /\ ReadFails(token[s])
          /\ Fail(o, {}, FALSE)
          /\ UNCHANGED todo
       \/ /\ ~Blocks(o, Req(o), s) /\ ~ReadFails(token[s])
          /\ todo' = [todo EXCEPT ![o] = @ \ {s}]
          /\ UNCHANGED <<pc, conf, fatal>>
    /\ UNCHANGED <<token, dirs, batch, cap, idx, side, acq, victim, leases, rel, drop,
                   lapsed, torn>>

\* ensure_lock_dir creates the missing directories above the lock file.
EnsureLockDir(o) ==
    /\ pc[o] = "check" /\ side[o] # "none" /\ todo[o] = {}
    /\ dirs' = dirs \cup Anc[Req(o).path]
                    \cup (IF side[o] = "dir" THEN {Req(o).path} ELSE {})
    /\ Goto(o, "take")
    /\ UNCHANGED <<token, batch, cap, idx, side, todo, acq, conf, victim, fatal,
                   leases, rel, drop, lapsed, torn>>

\* Mutant: the batch is not verified after its tokens are written.
AcquiredUnverified(o, how, was) ==
    /\ acq' = [acq EXCEPT ![o] = @ \cup {[i |-> idx[o], slot |-> Target(o),
                 kind |-> Req(o).kind, how |-> how, was |-> was]}]
    /\ IF idx[o] < Len(batch[o])
         THEN /\ Goto(o, "check")
              /\ idx' = [idx EXCEPT ![o] = @ + 1]
              /\ todo' = [todo EXCEPT ![o] = CheckSlots(batch[o][idx[o] + 1])]
         ELSE /\ Goto(o, "verify")
              /\ todo' = [todo EXCEPT ![o] = {}]
              /\ UNCHANGED idx
    /\ side' = [side EXCEPT ![o] = "none"]

\* The request is acquired: go on with the next one, or verify them all.
Acquired(o, how, was) ==
    /\ acq' = [acq EXCEPT ![o] = @ \cup {[i |-> idx[o], slot |-> Target(o),
                 kind |-> Req(o).kind, how |-> how, was |-> was]}]
    /\ IF idx[o] < Len(batch[o])
         THEN /\ Goto(o, "check")
              /\ idx' = [idx EXCEPT ![o] = @ + 1]
              /\ todo' = [todo EXCEPT ![o] = CheckSlots(batch[o][idx[o] + 1])]
         ELSE /\ Goto(o, "verify")
              /\ idx' = [idx EXCEPT ![o] = 1]
              /\ todo' = [todo EXCEPT ![o] = CheckSlots(batch[o][1])]
    /\ side' = [side EXCEPT ![o] = "none"]

\* try_acquire_one: look at the token that is there.
TakeRead(o) ==
    /\ pc[o] = "take"
    /\ LET c == token[Target(o)] IN
       \/ /\ ReadFails(c)
          /\ Fail(o, {}, FALSE)
          /\ UNCHANGED <<idx, todo, acq, side, victim>>
       \/ /\ ~IsToken(c) /\ ~ReadFails(c)
          /\ Goto(o, "create")
          /\ UNCHANGED <<idx, todo, acq, side, victim, conf, fatal>>
       \/ /\ IsToken(c) /\ c.owner = o /\ AtLeast(c.kind, Req(o).kind)
          /\ Acquired(o, "reentrant", c.stale)
          /\ UNCHANGED <<conf, fatal, victim>>
       \/ /\ IsToken(c) /\ c.owner = o /\ ~AtLeast(c.kind, Req(o).kind)
          /\ Goto(o, "upgrade")
          /\ UNCHANGED <<idx, todo, acq, side, victim, conf, fatal>>
       \/ /\ IsToken(c) /\ c.owner # o /\ ~IsStale(c)
          /\ Fail(o, {Target(o)}, FALSE)
          /\ UNCHANGED <<idx, todo, acq, side, victim>>
       \/ /\ IsToken(c) /\ c.owner # o /\ IsStale(c)
          /\ Goto(o, "remove")
          /\ victim' = [victim EXCEPT ![o] = c.owner]
          /\ UNCHANGED <<idx, todo, acq, side, conf, fatal>>
    /\ UNCHANGED <<token, dirs, batch, cap, leases, rel, drop, lapsed, torn>>

\* compare_and_write_token from the EXACT token that was read to TREE.
Upgrade(o) ==
    /\ pc[o] = "upgrade"
    /\ IF token[Target(o)].owner = o
         THEN /\ token' = [token EXCEPT ![Target(o)] = Fresh(@, o, "T")]
              /\ Acquired(o, "upgraded", token[Target(o)].stale)
              /\ UNCHANGED <<conf, fatal>>
         ELSE /\ Fail(o, {Target(o)}, FALSE)
              /\ UNCHANGED <<token, idx, todo, acq, side>>
    /\ UNCHANGED <<dirs, batch, cap, victim, leases, rel, drop, lapsed, torn>>

\* remove_token(force = true): the memory provider compares the owner and
\* removes in one step; the filesystem provider reads, then unlinks whatever
\* is there.
RemoveToken(o, s, unlink, next) ==
    \/ /\ Provider = "memory"
       /\ token' = [token EXCEPT ![s] =
                      IF @.owner = victim[o] THEN NoToken ELSE @]
       /\ Goto(o, next)
    \/ /\ Provider = "filesystem" /\ token[s].kind # "empty"
       /\ Goto(o, IF token[s].owner = victim[o] THEN unlink ELSE next)
       /\ UNCHANGED token

\* An empty file does not decode, which is not retryable.
RemoveFails(s) == Provider = "filesystem" /\ token[s].kind = "empty"

UnlinkToken(o, s, next) ==
    /\ token' = [token EXCEPT ![s] = NoToken]
    /\ torn' = (torn \/ (token[s].kind # "none" /\ token[s].owner # victim[o]))
    /\ Goto(o, next)

TakeRemove(o) ==
    /\ pc[o] = "remove"
    /\ \/ RemoveToken(o, Target(o), "unlink", "create") /\ UNCHANGED <<conf, fatal>>
       \/ RemoveFails(Target(o)) /\ Fail(o, {}, TRUE) /\ UNCHANGED token
    /\ UNCHANGED <<dirs, batch, cap, idx, side, todo, acq, victim, leases, rel, drop,
                   lapsed, torn>>

TakeUnlink(o) ==
    /\ pc[o] = "unlink"
    /\ UnlinkToken(o, Target(o), "create")
    /\ UNCHANGED <<dirs, batch, cap, idx, side, todo, acq, conf, victim, fatal,
                   leases, rel, drop, lapsed>>

\* try_create_token: memory inserts the token; a file is first created empty,
\* and an expired empty file is filled by compare_and_write.
Create(o) ==
    /\ pc[o] = "create"
    /\ LET s == Target(o)  c == token[s] IN
       \/ /\ c.kind = "none" /\ Provider = "filesystem"
          /\ token' = [token EXCEPT ![s] = EmptyFile(o)]
          /\ Goto(o, "write")
          /\ UNCHANGED <<idx, todo, acq, side, conf, fatal>>
       \/ /\ \/ c.kind = "none" /\ Provider = "memory"
             \/ c.kind = "empty" /\ c.stale
          /\ token' = [token EXCEPT ![s] = Fresh(@, o, Req(o).kind)]
          /\ Acquired(o, "created", FALSE)
          /\ UNCHANGED <<conf, fatal>>
       \/ /\ IsToken(c)
          /\ Fail(o, {s}, FALSE)
          /\ UNCHANGED <<token, idx, todo, acq, side>>
       \/ /\ ReadFails(c)
          /\ Fail(o, {}, FALSE)
          /\ UNCHANGED <<token, idx, todo, acq, side>>
    /\ UNCHANGED <<dirs, batch, cap, victim, leases, rel, drop, lapsed, torn>>

\* The content is written through the handle that created the file, whatever
\* that file holds by then; if it was unlinked meanwhile the write is lost.
Write(o) ==
    /\ pc[o] = "write"
    /\ token' = [token EXCEPT ![Target(o)] =
                   IF @.file = o THEN Fresh(@, o, Req(o).kind) ELSE @]
    /\ torn' = (torn \/ (token[Target(o)].file = o /\ IsToken(token[Target(o)])))
    /\ Acquired(o, "created", FALSE)
    /\ UNCHANGED <<dirs, batch, cap, conf, victim, fatal, leases, rel, drop, lapsed>>

VerifyNext(o) ==
    /\ pc[o] = "verify" /\ todo[o] = {} /\ idx[o] < Len(batch[o])
    /\ idx' = [idx EXCEPT ![o] = @ + 1]
    /\ todo' = [todo EXCEPT ![o] = CheckSlots(batch[o][idx[o] + 1])]
    /\ UNCHANGED <<token, dirs, pc, batch, cap, side, acq, conf, victim, fatal,
                   leases, rel, drop, lapsed, torn>>

\* OwnerRegistry::insert and LeaseRegistry::publish, still under the mutex.
Publish(o, l) ==
    /\ pc[o] = "verify" /\ todo[o] = {} /\ idx[o] = Len(batch[o])
    /\ leases[o][l] = {}
    /\ leases' = [leases EXCEPT ![o][l] = GrantsOf(acq[o])]
    /\ Return(o)
    /\ UNCHANGED <<token, dirs, rel, drop, lapsed, torn>>

\* Mutant: an attempt that fails leaves the tokens it wrote.
RollbackKeeps(o) ==
    /\ pc[o] = "rollback" /\ acq[o] # {}
    /\ acq' = [acq EXCEPT ![o] = {}]
    /\ UNCHANGED <<token, dirs, pc, batch, cap, idx, side, todo, conf, victim,
                   fatal, leases, rel, drop, lapsed, torn>>

\* rollback_acquisitions undoes the changes last to first.  A token that is
\* gone or another owner's is left alone; a missed downgrade is an error.
Rollback(o) ==
    /\ pc[o] = "rollback" /\ acq[o] # {}
    /\ \E a \in acq[o] :
         /\ \A b \in acq[o] : b.i <= a.i
         /\ acq' = [acq EXCEPT ![o] = @ \ {a}]
         /\ LET mine == token[a.slot].owner = o IN
            /\ token' = [token EXCEPT ![a.slot] =
                 IF mine /\ a.how = "created" THEN NoToken
                 ELSE IF mine /\ a.how = "upgraded"
                      THEN [@ EXCEPT !.kind = "E", !.stale = a.was]
                 ELSE @]
            /\ fatal' = [fatal EXCEPT ![o] = @ \/ (a.how = "upgraded" /\ ~mine)]
    /\ UNCHANGED <<dirs, pc, batch, cap, idx, side, todo, conf, victim, leases,
                   rel, drop, lapsed, torn>>

\* The attempt failed: give up, or drop the mutex and wait.
RolledBack(o) ==
    /\ pc[o] = "rollback" /\ acq[o] = {}
    /\ \/ /\ fatal[o]
          /\ Return(o)
       \/ /\ ~fatal[o]
          /\ Goto(o, IF conf[o] # {} THEN "clean" ELSE "backoff")
          /\ UNCHANGED <<batch, cap, idx, side, todo, acq, conf, victim, fatal>>
    /\ UNCHANGED <<token, dirs, leases, rel, drop, lapsed, torn>>

\* After a conflict met before verification: a token that is stale by now is
\* removed before the next attempt.  An error here ends the call.
CleanRead(o) ==
    /\ pc[o] = "clean"
    /\ \E s \in conf[o] :
         \/ /\ IsToken(token[s]) /\ IsStale(token[s])
            /\ Goto(o, "sweep")
            /\ victim' = [victim EXCEPT ![o] = token[s].owner]
            /\ UNCHANGED <<batch, cap, idx, side, todo, acq, conf, fatal>>
         \/ /\ ~(IsToken(token[s]) /\ IsStale(token[s])) /\ ~ReadFails(token[s])
            /\ Goto(o, "backoff")
            /\ UNCHANGED <<batch, cap, idx, side, todo, acq, conf, victim, fatal>>
         \/ ReadFails(token[s]) /\ Return(o)
    /\ UNCHANGED <<token, dirs, leases, rel, drop, lapsed, torn>>

Sweep(o) ==
    /\ pc[o] = "sweep"
    /\ \E s \in conf[o] :
         \/ /\ RemoveToken(o, s, "sweepUnlink", "backoff")
            /\ UNCHANGED <<batch, cap, idx, side, todo, acq, conf, victim, fatal>>
         \/ RemoveFails(s) /\ Return(o) /\ UNCHANGED token
    /\ UNCHANGED <<dirs, leases, rel, drop, lapsed, torn>>

SweepUnlink(o) ==
    /\ pc[o] = "sweepUnlink"
    /\ \E s \in conf[o] : UnlinkToken(o, s, "backoff")
    /\ UNCHANGED <<dirs, batch, cap, idx, side, todo, acq, conf, victim, fatal,
                   leases, rel, drop, lapsed>>

\* The retry takes the mutex again and revalidates the capability.
Retry(o) ==
    /\ pc[o] = "backoff" /\ rel[o] = 0
    /\ IF cap[o] # 0 /\ leases[o][cap[o]] = {}
         THEN Return(o)
         ELSE StartAttempt(o, batch[o]) /\ UNCHANGED <<batch, cap>>
    /\ UNCHANGED <<token, dirs, leases, rel, drop, lapsed, torn>>

\* Mutant: the deadline is only looked at before the stale-token cleanup.
TimeOutBeforeClean(o) ==
    /\ o \notin Patient
    /\ pc[o] = "clean"
    /\ Return(o)
    /\ UNCHANGED <<token, dirs, leases, rel, drop, lapsed, torn>>

TimeOut(o) ==
    /\ o \notin Patient
    /\ pc[o] \in {"clean", "sweep", "backoff"}
    /\ Return(o)
    /\ UNCHANGED <<token, dirs, leases, rel, drop, lapsed, torn>>

-----------------------------------------------------------------------------
(* release, release_selected and the background release of stale leases:    *)
(* the same release_lease_paths_with, under the owner mutex.                *)

ReleaseStart(o, l, sel) ==
    /\ MutexFree(o)
    /\ sel # {} /\ sel \subseteq Slots(leases[o][l])
    /\ rel' = [rel EXCEPT ![o] = l]
    /\ drop' = [drop EXCEPT ![o] = sel]
    /\ UNCHANGED <<token, dirs, acqVars, leases, lapsed, torn>>

\* ref_count == 1: no other lease of the owner uses the lock file.
LastRef(o, s) == \A l \in LeaseId \ {rel[o]} : s \notin Slots(leases[o][l])
KindIn(o, l, s, k) == [slot |-> s, kind |-> k] \in leases[o][l]
MustDowngradeNever(o, s) == FALSE   \* mutant: TREE tokens are never reduced
\* The lease being released is the last TREE one; EXACT ones remain.
MustDowngrade(o, s) ==
    /\ KindIn(o, rel[o], s, "T")
    /\ \A l \in LeaseId \ {rel[o]} : ~KindIn(o, l, s, "T")

DropGrant(gs, s) == {g \in gs : g.slot # s}

\* What the provider answers for one lock file of the lease: "ok" and "lost"
\* (gone to another owner) end the grant, "error" keeps it.
ReleaseOutcome(o, s) ==
    LET c == token[s] IN
    IF LastRef(o, s) THEN
      IF c.owner = o \/ c.kind = "none" THEN "ok"
      ELSE IF c.kind = "empty" THEN "error" ELSE "lost"
    ELSE IF MustDowngrade(o, s) THEN
      IF c.owner = o THEN "ok" ELSE IF ReadFails(c) THEN "error" ELSE "lost"
    ELSE "ok"

ReleasePath(o, s) ==
    /\ rel[o] # 0 /\ s \in drop[o]
    /\ drop' = [drop EXCEPT ![o] = @ \ {s}]
    /\ rel' = [rel EXCEPT ![o] = IF drop[o] = {s} THEN 0 ELSE @]
    /\ token' = [token EXCEPT ![s] =
         IF @.owner # o THEN @
         ELSE IF LastRef(o, s) THEN NoToken
         ELSE IF MustDowngrade(o, s) THEN [@ EXCEPT !.kind = "E"]
         ELSE @]
    /\ leases' = [leases EXCEPT ![o] = [l \in LeaseId |->
         CASE ReleaseOutcome(o, s) = "ok" /\ l = rel[o] -> DropGrant(@[l], s)
           [] ReleaseOutcome(o, s) = "lost" -> DropGrant(@[l], s)
           [] OTHER -> @[l]]]
    /\ UNCHANGED <<dirs, acqVars, lapsed, torn>>

-----------------------------------------------------------------------------
(* Refresh, expiry, crashes and the directories others create *)

\* refresh and the background refresher: refresh_token on a lease's lock file.
Refresh(o, s) ==
    /\ MutexFree(o)
    /\ s \in Slots(Held(o))
    /\ token[s].owner = o /\ token[s].stale
    /\ token' = [token EXCEPT ![s].stale = FALSE]
    /\ UNCHANGED <<dirs, acqVars, leases, rel, drop, lapsed, torn>>

\* Owners that still count on the lock file.
Users(s) ==
    {o \in Owner \ Dead : \/ token[s].owner = o
                          \/ token[s].kind = "empty" /\ token[s].file = o
                             /\ pc[o] = "write"}

\* The file grows older than lock_expire.  A running process refreshes its
\* leases every third of that, so only a stalled or crashed one lets it happen.
Expire(s) ==
    /\ token[s].kind # "none" /\ ~token[s].stale
    /\ Users(s) \subseteq Stallable
    /\ token' = [token EXCEPT ![s].stale = TRUE]
    /\ lapsed' = lapsed \cup Users(s)
    /\ UNCHANGED <<dirs, acqVars, leases, rel, drop, torn>>

Crash(o) ==
    /\ o \in Crashable /\ pc[o] # "dead"
    /\ pc' = [pc EXCEPT ![o] = "dead"]
    /\ leases' = [leases EXCEPT ![o] = [l \in LeaseId |-> {}]]
    /\ rel' = [rel EXCEPT ![o] = 0]
    /\ drop' = [drop EXCEPT ![o] = {}]
    /\ acq' = [acq EXCEPT ![o] = {}]
    /\ UNCHANGED <<token, dirs, batch, cap, idx, side, todo, conf, victim,
                   fatal, lapsed, torn>>

\* Any writer may create a directory: mkdir takes no path lock.
Mkdir(p) ==
    /\ p \notin dirs \cup Files
    /\ Anc[p] \subseteq dirs
    /\ dirs' = dirs \cup {p}
    /\ UNCHANGED <<token, acqVars, leases, rel, drop, lapsed, torn>>

-----------------------------------------------------------------------------
AcquireStep(o) ==
    \/ Stat(o) \/ EnsureLockDir(o) \/ TakeRead(o) \/ Upgrade(o)
    \/ \E s \in Slot : CheckRead(o, s)
    \/ TakeRemove(o) \/ TakeUnlink(o) \/ Create(o) \/ Write(o)
    \/ VerifyNext(o) \/ \E l \in LeaseId : Publish(o, l)
    \/ Rollback(o) \/ RolledBack(o)
    \/ CleanRead(o) \/ Sweep(o) \/ SweepUnlink(o) \/ Retry(o)

OwnerStep(o) ==
    \/ \E b \in Batches, c \in LeaseId \cup {0} : Begin(o, b, c)
    \/ AcquireStep(o)
    \/ TimeOut(o)
    \/ \E l \in LeaseId, sel \in SUBSET Slot : ReleaseStart(o, l, sel)
    \/ \E s \in Slot : ReleasePath(o, s)
    \/ \E s \in Slot : Refresh(o, s)
    \/ Crash(o)

Next ==
    \/ \E o \in Owner : OwnerStep(o)
    \/ \E s \in Slot : Expire(s)
    \/ \E p \in Path : Mkdir(p)

Spec == Init /\ [][Next]_vars

\* The runtime keeps running every task; acquire sleeps between attempts, so a
\* deadline is reached sooner or later; clocks advance past lock_expire.
Fairness ==
    /\ \A o \in Owner :
         /\ WF_vars(AcquireStep(o))
         /\ SF_vars(TimeOut(o))
         /\ WF_vars(\E s \in Slot : ReleasePath(o, s))
    /\ \A s \in Slot : WF_vars(Users(s) = {} /\ Expire(s))

FairSpec == Spec /\ Fairness

-----------------------------------------------------------------------------
PC == {"idle", "check", "take", "upgrade", "remove", "unlink", "create",
       "write", "verify", "rollback", "clean", "sweep", "sweepUnlink",
       "backoff", "dead"}

\* Every variable has its type.
TypeOK ==
    /\ token \in [Slot -> Cell]
    /\ dirs \in SUBSET (Path \ Files)
    /\ pc \in [Owner -> PC]
    /\ batch \in [Owner -> Batches \cup {<<>>}]
    /\ cap \in [Owner -> LeaseId \cup {0}]
    /\ idx \in [Owner -> Nat \ {0}]
    /\ side \in [Owner -> Side \cup {"none"}]
    /\ todo \in [Owner -> SUBSET Slot]
    /\ acq \in [Owner -> SUBSET Change]
    /\ conf \in [Owner -> SUBSET Slot]
    /\ victim \in [Owner -> Owner \cup {NoOwner}]
    /\ fatal \in [Owner -> BOOLEAN]
    /\ leases \in [Owner -> [LeaseId -> SUBSET Grant]]
    /\ rel \in [Owner -> LeaseId \cup {0}]
    /\ drop \in [Owner -> SUBSET Slot]
    /\ lapsed \in SUBSET Owner
    /\ torn \in BOOLEAN

\* EXACT and TREE grants that must not be held by two owners at once:
\* the same path, or a TREE above the other path.
Conflicts(g, h) ==
    \/ g.slot[1] = h.slot[1]
    \/ g.kind = "T" /\ g.slot[1] \in Anc[h.slot[1]]
    \/ h.kind = "T" /\ h.slot[1] \in Anc[g.slot[1]]

\* Two owners whose tokens never expired under them hold no conflicting
\* leases, as long as no provider call destroyed a token it did not aim at:
\* the check, write, check again protocol of try_acquire_batch_once excludes.
MutualExclusion ==
    ~torn => \A o1, o2 \in Owner \ lapsed :
               o1 # o2 => \A g \in Held(o1), h \in Held(o2) : ~Conflicts(g, h)

\* Between operations an owner's tokens are exactly those of its leases, of
\* the strongest kind its leases need: rollback, partial release, upgrade and
\* downgrade leak no token, drop none, and leave no TREE behind.
Backed(o, g) == token[g.slot].owner = o /\ AtLeast(token[g.slot].kind, g.kind)
TokensMatchLeases ==
    \A o \in Owner \ (lapsed \cup Dead) : MutexFree(o) /\ ~torn =>
      /\ \A g \in Held(o) : Backed(o, g)
      /\ \A s \in Slot : token[s].owner = o =>
           [slot |-> s, kind |-> token[s].kind] \in Held(o)

KeepsToken ==
    \A s \in Slot, o \in Owner \ (lapsed \cup Dead) :
      token[s].owner = o /\ token'[s].owner # o /\ ~torn'
        => rel[o] # 0 \/ pc[o] = "rollback"

\* A live token leaves its owner only by the owner's own release or rollback:
\* no takeover, cleanup or late write of another owner removes it.
TokenKept == [][KeepsToken]_vars

\* An acquire call with a deadline returns: with a lease, an error or a
\* timeout, however the others contend, wait and crash.
AcquireReturns == \A o \in Owner \ Patient : []<>(pc[o] \in {"idle", "dead"})

\* The lock of a crashed owner does not block forever: the only owner left,
\* at the start of an attempt or waiting for the next and in no hurry, gets
\* its lease once the orphaned tokens have expired.
OrphansRecovered ==
    \A o \in Patient : Dead = Owner \ {o} /\ pc[o] \in {"check", "backoff"}
                          ~> Held(o) # {}

-----------------------------------------------------------------------------
(* The inductive invariant behind MutualExclusion *)

Taking == {"take", "upgrade", "remove", "unlink", "create", "write"}
Unlocked == {"idle", "clean", "sweep", "sweepUnlink", "backoff", "dead"}

\* Files have their lock in the sidecar, and TREE locks only files.
WellPlaced(g) ==
    /\ g.slot[2] = "dir" => g.slot[1] \notin Files
    /\ g.kind = "T" /\ g.slot[2] = "side" => g.slot[1] \in Files

\* The locals of an acquire call fit together.
LocalOK(o) ==
    /\ pc[o] \notin {"idle", "dead"} => batch[o] \in Batches /\ idx[o] \in 1..Len(batch[o])
    /\ pc[o] \in Taking => side[o] \in Side
    /\ pc[o] \in Taking \cup {"check"} =>
         /\ side[o] \in Side => WellPlaced([slot |-> Target(o), kind |-> Req(o).kind])
         /\ \A a \in acq[o] : a.i < idx[o]
    /\ pc[o] \in Unlocked => acq[o] = {}
    /\ \A a \in acq[o] : /\ a.i \in 1..Len(batch[o])
                         /\ a.slot[1] = batch[o][a.i].path
                         /\ a.kind = batch[o][a.i].kind
                         /\ WellPlaced([slot |-> a.slot, kind |-> a.kind])
                         /\ a.was => o \in lapsed
    /\ \A a, b \in acq[o] : a.i = b.i => a = b
    /\ rel[o] # 0 => pc[o] \in Unlocked /\ drop[o] \subseteq Slots(leases[o][rel[o]])
    /\ pc[o] = "dead" => Held(o) = {}
    /\ \A g \in Held(o) : WellPlaced(g)

\* Only owners that lapsed or crashed have stale tokens or are evicted.
TokenOK ==
    /\ \A s \in Slot : IF IsToken(token[s]) THEN token[s].owner \in Owner
                                            ELSE token[s].owner = NoOwner
    /\ \A s \in Slot : IsToken(token[s]) /\ token[s].stale =>
         token[s].owner \in lapsed \cup Dead
    /\ \A o \in Owner : pc[o] \in {"remove", "unlink", "sweep", "sweepUnlink"} =>
         victim[o] \in lapsed \cup Dead

Placed(o) == Held(o) \cup GrantsOf(acq[o])

\* What an owner that never lapsed has placed is still there.
OwnOK(o) ==
    /\ \A g \in Placed(o) : Backed(o, g)
    /\ pc[o] = "write" => token[Target(o)] = EmptyFile(o)
    /\ pc[o] = "upgrade" => token[Target(o)].owner = o /\ token[Target(o)].kind = "E"
    /\ \A a \in acq[o], g \in Held(o) : a.slot = g.slot =>
         a.how # "created" /\ (a.how = "upgraded" => g.kind = "E")

\* g is placed by o and o has verified it against the lock file s.
Cleared(o, g, s) ==
    \/ g \in Held(o)
    \/ /\ pc[o] = "verify"
       /\ \E a \in acq[o] : /\ g = [slot |-> a.slot, kind |-> a.kind]
                            /\ a.i < idx[o] \/ (a.i = idx[o] /\ s \notin todo[o])

\* Of two conflicting grants one has not been verified against the other.
PairOK(p, q) ==
    \A g, h \in Grant : Conflicts(g, h) =>
      ~(Cleared(p, g, h.slot) /\ Cleared(q, h, g.slot))

\* Types, the locals of every call, and the tokens.
BaseInv == TypeOK /\ (\A o \in Owner : LocalOK(o)) /\ TokenOK

\* Owners that never lapsed: their tokens, and the order of verification.
Exclusive ==
    ~torn => /\ \A o \in Owner \ lapsed : OwnOK(o)
             /\ \A p, q \in Owner \ lapsed : p # q => PairOK(p, q)

IInv == BaseInv /\ Exclusive

-----------------------------------------------------------------------------
(* What the documentation says of the protocol and the code does not do. *)

\* docs/en/concepts/09-transaction.md:13 "Path locks ensure only one write
\* operation can operate on a path at a time": no two owners hold conflicting
\* leases whose tokens are theirs and not stale.
WriteExclusive ==
    \A o1, o2 \in Owner : o1 # o2 =>
      \A g \in Held(o1), h \in Held(o2) :
        ~ /\ Conflicts(g, h)
          /\ Backed(o1, g) /\ ~token[g.slot].stale
          /\ Backed(o2, h) /\ ~token[h.slot].stale

=============================================================================
