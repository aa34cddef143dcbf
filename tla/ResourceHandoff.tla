--------------------------- MODULE ResourceHandoff ---------------------------
(***************************************************************************)
(* The lock of an add-resource job on its way from the request that took it *)
(* to the queue worker that does the work: _enqueue_add_resource_job stores *)
(* the message and parks the lease (PathLockManager::handoff), and          *)
(* AddResourceProcessor adopts it (PathLockManager::adopt), takes a fresh   *)
(* lock instead, or requeues the message.                                   *)
(*                                                                          *)
(* There is one target path.  Acquiring it is one step here: what that step *)
(* hides is module PathLock.  The queue delivers at least once.             *)
(***************************************************************************)
EXTENDS Naturals

CONSTANTS
    Msg,        \* bound: messages of the job that exist at a time
    Producer,   \* owner id and lease of the request
    Other,      \* owner id and lease of another process that wants the path
    Lost,       \* the lease of an acquire or adopt nobody waited for
    NoOwner,    \* no token, or no lease
    Cancels,    \* TRUE: the task may be cancelled
    MaxCrash    \* bound: number of crashes

Owner == Msg \cup {Producer, Other}
Ref == Owner \cup {Lost}

ASSUME HandoffAssumption ==
    /\ Producer \notin {Other, Lost, NoOwner} /\ Other \notin {Lost, NoOwner} /\ Lost # NoOwner
    /\ {Producer, Other, Lost, NoOwner} \cap Msg = {}
    /\ Cancels \in BOOLEAN /\ MaxCrash \in Nat

VARIABLES
    tok,       \* owner of the token on the path
    stale,     \* that token is older than lock_expire
    holds,     \* LeaseRegistry: the owner of each lease
    parked,    \* pending_handoff of the request's lease
    consumed,  \* its ref is in consumed_handoff_refs of its owner
    prod,      \* the request: "idle", "locked", "queued", "done"
    st,        \* messages: "free" (none), "pending", "processing"
    retry,     \* their lock_handoff_retry
    wpc,       \* where the worker of each message is
    dropping,  \* workers that only clean up after a cancelled task
    task,      \* "open", "result" (recorded), "cancelled"
    crashes    \* number of crashes so far

lockVars == <<tok, stale, holds, parked, consumed>>
queueVars == <<st, retry>>
workVars == <<wpc, dropping>>
vars == <<lockVars, prod, queueVars, workVars, task, crashes>>

RetryLimit == 2   \* deliveries after the first
WPC == {"none", "adopt", "refresh", "reacquire", "work", "failed", "release",
        "ack", "stuck"}

Goto(m, l) == wpc' = [wpc EXCEPT ![m] = l]
\* A lock that is free, or whose token is stale, can be taken.
Free == tok = NoOwner \/ stale
Leases(o) == {r \in Ref : holds[r] = o}

Init ==
    /\ tok = NoOwner /\ stale = FALSE
    /\ holds = [r \in Ref |-> NoOwner]
    /\ parked = FALSE /\ consumed = FALSE
    /\ prod = "idle"
    /\ st = [m \in Msg |-> "free"] /\ retry = [m \in Msg |-> 0]
    /\ wpc = [m \in Msg |-> "none"] /\ dropping = {}
    /\ task = "open" /\ crashes = 0

-----------------------------------------------------------------------------
(* Leases of the path *)

\* acquire_tree without waiting: owner o, lease r.
Acquire(o, r) ==
    /\ Free
    /\ tok' = o /\ stale' = FALSE
    /\ holds' = [holds EXCEPT ![r] = o]
    /\ UNCHANGED <<parked, consumed>>

\* release: the token goes if it is still the owner's; the state of an owner
\* without leases is dropped, and with it what it remembers of handoffs.
Release(r) ==
    /\ holds' = [holds EXCEPT ![r] = NoOwner]
    /\ tok' = IF tok = holds[r] THEN NoOwner ELSE tok
    /\ stale' = (stale /\ tok # holds[r])
    /\ consumed' = (consumed /\ \E q \in Ref \ {r} : holds[q] = Producer)
    /\ UNCHANGED parked

\* The background task refreshes every published lease, the parked one too, so
\* only a token without a lease in the registry grows stale.
Expire ==
    /\ tok # NoOwner /\ ~stale /\ Leases(tok) = {}
    /\ stale' = TRUE
    /\ UNCHANGED <<tok, holds, parked, consumed, prod, queueVars, workVars, task, crashes>>

OtherAcquires ==
    /\ holds[Other] = NoOwner
    /\ Acquire(Other, Other)
    /\ UNCHANGED <<prod, queueVars, workVars, task, crashes>>

OtherReleases ==
    /\ holds[Other] # NoOwner
    /\ Release(Other)
    /\ UNCHANGED <<prod, queueVars, workVars, task, crashes>>

-----------------------------------------------------------------------------
(* The request: ResourceService._enqueue_add_resource_job *)

Lock ==
    /\ prod = "idle"
    /\ Acquire(Producer, Producer)
    /\ prod' = "locked"
    /\ UNCHANGED <<queueVars, workVars, task, crashes>>

Enqueue(m) ==
    /\ prod = "locked" /\ task # "cancelled" /\ st[m] = "free"
    /\ st' = [st EXCEPT ![m] = "pending"]
    /\ retry' = [retry EXCEPT ![m] = 0]
    /\ prod' = "queued"
    /\ UNCHANGED <<lockVars, workVars, task, crashes>>

\* mark_pending_handoff
Handoff ==
    /\ holds[Producer] = Producer
    /\ parked' = TRUE
    /\ UNCHANGED <<tok, stale, holds, consumed>>

Park ==
    /\ prod = "queued"
    /\ Handoff
    /\ prod' = "done"
    /\ UNCHANGED <<queueVars, workVars, task, crashes>>

\* The enqueue failed or was rejected, or the request was cancelled before its
\* lease was parked: the lock is released.  A message that was stored stays.
Abort ==
    /\ prod \in {"locked", "queued"}
    /\ Release(Producer)
    /\ prod' = "done"
    /\ UNCHANGED <<queueVars, workVars, task, crashes>>

Cancel ==
    /\ Cancels /\ prod # "idle" /\ task # "cancelled"
    /\ task' = "cancelled"
    /\ UNCHANGED <<lockVars, prod, queueVars, workVars, crashes>>

-----------------------------------------------------------------------------
(* The worker: AddResourceProcessor *)

\* A job with a result is only completed again; a cancelled one is cleaned up.
Deliver(m) ==
    /\ st[m] = "pending"
    /\ st' = [st EXCEPT ![m] = "processing"]
    /\ Goto(m, IF task = "result" THEN "ack" ELSE "adopt")
    /\ dropping' = IF task = "cancelled" THEN dropping \cup {m} ELSE dropping
    /\ UNCHANGED <<lockVars, prod, retry, task, crashes>>

Adopted(m) == IF m \in dropping THEN "release" ELSE "work"
NotAdopted(m) == IF m \in dropping THEN "ack" ELSE "reacquire"

\* adopt of a lease in the registry: it must be parked; it gets a new ref.
AdoptLocal(r) ==
    /\ holds[Producer] = Producer /\ parked
    /\ holds' = [holds EXCEPT ![Producer] = NoOwner, ![r] = Producer]
    /\ parked' = FALSE /\ consumed' = TRUE
    /\ UNCHANGED <<tok, stale>>

\* Mutant: nobody remembers that the handoff was adopted.
MayAdoptToken == holds[Producer] = NoOwner /\ tok = Producer
\* adopt of a lease that is not in the registry: once per owner state, and
\* only while its token is there.
AdoptFromToken == holds[Producer] = NoOwner /\ ~consumed /\ tok = Producer

\* The owner mutex is held from here to the publication of the new lease.
Adopt(m) ==
    /\ wpc[m] = "adopt" /\ \A n \in Msg : wpc[n] # "refresh"
    /\ IF holds[Producer] = Producer /\ parked
         THEN AdoptLocal(m) /\ Goto(m, Adopted(m))
         ELSE /\ Goto(m, IF AdoptFromToken THEN "refresh" ELSE NotAdopted(m))
              /\ UNCHANGED lockVars
    /\ UNCHANGED <<prod, queueVars, dropping, task, crashes>>

\* Mutant: the token is refreshed without comparing its owner.
RefreshAny(m) ==
    /\ stale' = FALSE
    /\ holds' = [holds EXCEPT ![m] = Producer]
    /\ consumed' = TRUE
    /\ Goto(m, Adopted(m))
    /\ UNCHANGED <<tok, parked>>

\* refresh_token compares the owner and revives the token; then the lease.
RefreshAdopted(m) ==
    IF tok = Producer
      THEN /\ stale' = FALSE
           /\ holds' = [holds EXCEPT ![m] = Producer]
           /\ consumed' = TRUE
           /\ Goto(m, Adopted(m))
           /\ UNCHANGED <<tok, parked>>
      ELSE Goto(m, NotAdopted(m)) /\ UNCHANGED lockVars

AdoptRefresh(m) ==
    /\ wpc[m] = "refresh"
    /\ RefreshAdopted(m)
    /\ UNCHANGED <<prod, queueVars, dropping, task, crashes>>

\* reacquire_add_resource_job_lock: a new owner, without waiting.
Reacquire(m) ==
    /\ wpc[m] = "reacquire"
    /\ IF Free THEN Acquire(m, m) /\ Goto(m, "work")
               ELSE Goto(m, "failed") /\ UNCHANGED lockVars
    /\ UNCHANGED <<prod, queueVars, dropping, task, crashes>>

\* Mutant: one retry too many.
MayRetryOneMore(m) == retry[m] <= RetryLimit
\* The message may be requeued once more.
MayRetry(m) == retry[m] < RetryLimit

\* Mutant: the copy starts with no retry counted.
RetriesOf(m) == retry[m]
\* lock_handoff_retry of the copy
NextRetry(m) == retry[m] + 1

\* _requeue_lock_handoff: a copy of the message; work of a cancelled task is
\* rejected, and the exception leaves the message unacknowledged.
Requeue(m, n) ==
    /\ wpc[m] = "failed" /\ MayRetry(m) /\ st[n] = "free"
    /\ IF task = "cancelled"
         THEN Goto(m, "stuck") /\ UNCHANGED queueVars
         ELSE /\ st' = [st EXCEPT ![n] = "pending"]
              /\ retry' = [retry EXCEPT ![n] = NextRetry(m)]
              /\ Goto(m, "ack")
    /\ UNCHANGED <<lockVars, prod, dropping, task, crashes>>

\* The job fails with "Invalid lock_handoff".
GiveUp(m) ==
    /\ wpc[m] = "failed" /\ ~MayRetry(m)
    /\ Goto(m, "ack")
    /\ UNCHANGED <<lockVars, prod, queueVars, dropping, task, crashes>>

\* execute_add_resource_job returns a result, reports an error or raises.
Finish(m) ==
    /\ wpc[m] = "work"
    /\ task' \in {task} \cup (IF task = "open" THEN {"result"} ELSE {})
    /\ Goto(m, "release")
    /\ UNCHANGED <<lockVars, prod, queueVars, dropping, crashes>>

ReleaseLock(m) ==
    /\ wpc[m] = "release"
    /\ Release(m)
    /\ Goto(m, "ack")
    /\ UNCHANGED <<prod, queueVars, dropping, task, crashes>>

Ack(m) ==
    /\ wpc[m] = "ack"
    /\ st' = [st EXCEPT ![m] = "free"]
    /\ Goto(m, "none")
    /\ dropping' = dropping \ {m}
    /\ UNCHANGED <<lockVars, prod, retry, task, crashes>>

\* The cancellation of the task reaches a worker that works: the lock goes.
CancelWork(m) ==
    /\ task = "cancelled" /\ wpc[m] = "work"
    /\ Goto(m, "release")
    /\ UNCHANGED <<lockVars, prod, queueVars, dropping, task, crashes>>

\* ... or one that awaits a lock: the call goes on in its thread, and a lease
\* it gets is nobody's.
CancelLoad(m) ==
    /\ task = "cancelled" /\ m \notin dropping
    /\ holds[Lost] = NoOwner
    /\ \/ wpc[m] = "adopt" /\ AdoptLocal(Lost)
       \/ wpc[m] = "reacquire" /\ Acquire(m, Lost)
       \/ wpc[m] \in {"adopt", "reacquire"} /\ UNCHANGED lockVars
    /\ Goto(m, "ack")
    /\ UNCHANGED <<prod, queueVars, dropping, task, crashes>>

-----------------------------------------------------------------------------
\* The server crashes: leases are gone, tokens and messages are not.
Restart ==
    /\ crashes < MaxCrash /\ prod # "idle"
    /\ crashes' = crashes + 1
    /\ holds' = [r \in Ref |-> IF r = Other THEN holds[r] ELSE NoOwner]
    /\ parked' = FALSE /\ consumed' = FALSE
    /\ prod' = "done"
    /\ st' = [m \in Msg |-> IF st[m] = "processing" THEN "pending" ELSE st[m]]
    /\ wpc' = [m \in Msg |-> "none"] /\ dropping' = {}
    /\ UNCHANGED <<tok, stale, retry, task>>

Worker(m) ==
    \/ Deliver(m) \/ Adopt(m) \/ AdoptRefresh(m) \/ Reacquire(m)
    \/ (\E n \in Msg : Requeue(m, n)) \/ GiveUp(m)
    \/ Finish(m) \/ ReleaseLock(m) \/ Ack(m)

Request == Lock \/ (\E m \in Msg : Enqueue(m)) \/ Park \/ Abort \/ Cancel

Next ==
    \/ Request \/ OtherAcquires \/ OtherReleases \/ Expire \/ Restart
    \/ \E m \in Msg : Worker(m) \/ CancelWork(m) \/ CancelLoad(m)

Spec == Init /\ [][Next]_vars

\* Workers and the request run on, and clocks advance; the other process may
\* keep the lock, and nobody has to cancel, abort or crash.
Fairness ==
    /\ \A m \in Msg : WF_vars(Worker(m))
    /\ WF_vars(Park)
    /\ WF_vars(Expire)

FairSpec == Spec /\ Fairness

-----------------------------------------------------------------------------
\* Every variable has its type.
TypeOK ==
    /\ tok \in Owner \cup {NoOwner} /\ stale \in BOOLEAN
    /\ holds \in [Ref -> Owner \cup {NoOwner}]
    /\ parked \in BOOLEAN /\ consumed \in BOOLEAN
    /\ prod \in {"idle", "locked", "queued", "done"}
    /\ st \in [Msg -> {"free", "pending", "processing"}]
    /\ retry \in [Msg -> 0..RetryLimit]
    /\ wpc \in [Msg -> WPC] /\ dropping \in SUBSET Msg
    /\ task \in {"open", "result", "cancelled"}
    /\ crashes \in 0..MaxCrash

\* A worker that works on the target has a lease, and the token of the lease's
\* owner is in place and live: no takeover of a stale token, late release of
\* the request, redelivery or restart takes the lock away under it.
WorkLocked ==
    \A m \in Msg : wpc[m] = "work" => /\ holds[m] # NoOwner
                                      /\ tok = holds[m] /\ ~stale

\* The handoff is adopted at most once at a time: copies of the message that
\* a crash, a retry or a restart delivers together never work at the same time,
\* nor while another process has the path.
OneHolder ==
    /\ \A m, n \in Msg : wpc[m] = "work" /\ wpc[n] = "work" => m = n
    /\ holds[Other] # NoOwner => \A m \in Msg : wpc[m] # "work"

Settled == \A m \in Msg : st[m] = "free" \/ wpc[m] = "stuck"

\* Retries end: the messages of the job are all acknowledged in the end (or
\* left for the next start), also when the lock stays taken for good.
JobSettles == ~Settled ~> Settled

-----------------------------------------------------------------------------
(* What the documentation says and the code does not do. *)

\* docs/en/concepts/09-transaction.md:362 "Handles that still own lock files but
\* have been inactive for longer than lock_expire are force-released": once the
\* request and all messages are done, the lock of the request is free again.
LockFreed == (prod = "done" /\ Settled) ~> (tok # Producer \/ stale)
=============================================================================
