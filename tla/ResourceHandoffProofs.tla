------------------------ MODULE ResourceHandoffProofs ------------------------
(***************************************************************************)
(* The lock of a job for any number of copies of its message and of         *)
(* crashes: types, WorkLocked and OneHolder.                                *)
(***************************************************************************)
EXTENDS ResourceHandoff, TLAPS

-----------------------------------------------------------------------------
(* The inductive invariant *)

\* A lease in the registry has its token, which the refresher keeps alive.
LeaseLive == \A r \in Ref : holds[r] # NoOwner => tok = holds[r] /\ ~stale

\* There is one lease of the path at a time.
OneLease == \A r, q \in Ref : holds[r] # NoOwner /\ holds[q] # NoOwner => r = q

\* An adoption from the token is under way only while the request's owner has no
\* lease, and only one at a time: the owner mutex is held.
AdoptingAlone ==
    \A m \in Msg : wpc[m] = "refresh" =>
        /\ \A r \in Ref : holds[r] # Producer
        /\ \A n \in Msg : wpc[n] = "refresh" => n = m

\* A handoff whose lease lives on under another ref is remembered; the other
\* process never has it.
Remembered ==
    /\ \A r \in Ref \ {Producer} : holds[r] = Producer => consumed
    /\ holds[Other] # Producer

\* A worker that works has its lease; before the request there are no messages.
WorkerLeased == \A m \in Msg : wpc[m] = "work" => holds[m] # NoOwner
NothingEarly == prod = "idle" => \A m \in Msg : st[m] = "free" /\ wpc[m] = "none"

IInv == /\ TypeOK /\ LeaseLive /\ OneLease /\ AdoptingAlone
        /\ Remembered /\ WorkerLeased /\ NothingEarly

Registry == LeaseLive /\ OneLease /\ Remembered

-----------------------------------------------------------------------------
(* Types *)

\* What the three operations on leases leave of the types.
LEMMA LeaseTypes ==
    ASSUME TypeOK, NEW o \in Owner, NEW r \in Ref,
           Acquire(o, r) \/ Release(r) \/ AdoptLocal(r) \/ Handoff
    PROVE  /\ tok' \in Owner \cup {NoOwner} /\ stale' \in BOOLEAN
           /\ holds' \in [Ref -> Owner \cup {NoOwner}]
           /\ parked' \in BOOLEAN /\ consumed' \in BOOLEAN
  <1> USE HandoffAssumption DEF TypeOK, Owner, Ref
  <1>1. CASE Acquire(o, r)
    BY <1>1 DEF Acquire
  <1>2. CASE Release(r)
    BY <1>2 DEF Release
  <1>3. CASE AdoptLocal(r)
    BY <1>3 DEF AdoptLocal
  <1>4. CASE Handoff
    BY <1>4 DEF Handoff
  <1> QED
    BY <1>1, <1>2, <1>3, <1>4

\* The initial state is well typed.
LEMMA TypeInit == Init => TypeOK
  <1> SUFFICES ASSUME Init PROVE TypeOK
    OBVIOUS
  <1>1. tok \in Owner \cup {NoOwner} /\ holds \in [Ref -> Owner \cup {NoOwner}]
    BY DEF Init
  <1>2. wpc \in [Msg -> WPC] /\ retry \in [Msg -> 0..RetryLimit] /\ crashes \in 0..MaxCrash
    BY HandoffAssumption DEF Init, WPC, RetryLimit
  <1> QED
    BY <1>1, <1>2 DEF Init, TypeOK

\* Every step keeps the types.
LEMMA TypeStep == TypeOK /\ [Next]_vars => TypeOK'
  <1> SUFFICES ASSUME TypeOK, [Next]_vars PROVE TypeOK'
    OBVIOUS
  <1> USE HandoffAssumption
  <1>0. Producer \in Owner /\ Other \in Owner /\ Producer \in Ref /\ Other \in Ref /\ Lost \in Ref
        /\ \A m \in Msg : m \in Owner /\ m \in Ref
    BY DEF Owner, Ref
  <1>1. CASE Lock
    BY <1>0, <1>1, LeaseTypes DEF Lock, TypeOK, queueVars, workVars
  <1>2. ASSUME NEW m \in Msg, Enqueue(m) PROVE TypeOK'
    BY <1>2 DEF Enqueue, TypeOK, lockVars, workVars, RetryLimit
  <1>3. CASE Park
    BY <1>0, <1>3, LeaseTypes DEF Park, TypeOK, queueVars, workVars
  <1>4. CASE Abort
    BY <1>0, <1>4, LeaseTypes DEF Abort, TypeOK, queueVars, workVars
  <1>5. CASE Cancel
    BY <1>5 DEF Cancel, TypeOK, lockVars, queueVars, workVars
  <1>6. CASE OtherAcquires
    BY <1>0, <1>6, LeaseTypes DEF OtherAcquires, TypeOK, queueVars, workVars
  <1>7. CASE OtherReleases
    BY <1>0, <1>7, LeaseTypes DEF OtherReleases, TypeOK, queueVars, workVars
  <1>8. CASE Expire
    BY <1>8 DEF Expire, TypeOK, queueVars, workVars
  <1>9. CASE Restart
    <2>1. /\ holds' \in [Ref -> Owner \cup {NoOwner}]
          /\ wpc' \in [Msg -> WPC] /\ st' \in [Msg -> {"free", "pending", "processing"}]
      BY <1>9 DEF Restart, TypeOK, WPC
    <2>2. crashes' \in 0..MaxCrash
      BY <1>9 DEF Restart, TypeOK
    <2> QED
      BY <1>9, <2>1, <2>2 DEF Restart, TypeOK
  <1>10. ASSUME NEW m \in Msg, Deliver(m) PROVE TypeOK'
    BY <1>10 DEF Deliver, Goto, TypeOK, lockVars, WPC
  <1>11. ASSUME NEW m \in Msg, Adopt(m) PROVE TypeOK'
    <2>1. wpc' \in [Msg -> WPC]
      BY <1>11 DEF Adopt, Goto, Adopted, NotAdopted, TypeOK, WPC
    <2> QED
      BY <1>0, <1>11, <2>1, LeaseTypes DEF Adopt, TypeOK, lockVars, queueVars
  <1>12. ASSUME NEW m \in Msg, AdoptRefresh(m) PROVE TypeOK'
    <2>1. wpc' \in [Msg -> WPC]
      BY <1>12 DEF AdoptRefresh, RefreshAdopted, Goto, Adopted, NotAdopted, TypeOK, WPC
    <2> QED
      BY <1>0, <1>12, <2>1 DEF AdoptRefresh, RefreshAdopted, TypeOK, lockVars, queueVars
  <1>13. ASSUME NEW m \in Msg, Reacquire(m) PROVE TypeOK'
    <2>1. wpc' \in [Msg -> WPC]
      BY <1>13 DEF Reacquire, Goto, TypeOK, WPC
    <2> QED
      BY <1>0, <1>13, <2>1, LeaseTypes DEF Reacquire, TypeOK, lockVars, queueVars
  <1>14. ASSUME NEW m \in Msg, NEW n \in Msg, Requeue(m, n) PROVE TypeOK'
    BY <1>14 DEF Requeue, MayRetry, NextRetry, RetryLimit, Goto, TypeOK, lockVars, queueVars, WPC
  <1>15. ASSUME NEW m \in Msg, GiveUp(m) \/ Finish(m) \/ CancelWork(m) PROVE TypeOK'
    BY <1>15 DEF GiveUp, Finish, CancelWork, Goto, TypeOK, lockVars, queueVars, WPC
  <1>16. ASSUME NEW m \in Msg, ReleaseLock(m) PROVE TypeOK'
    <2>1. wpc' \in [Msg -> WPC]
      BY <1>16 DEF ReleaseLock, Goto, TypeOK, WPC
    <2> QED
      BY <1>0, <1>16, <2>1, LeaseTypes DEF ReleaseLock, TypeOK, queueVars
  <1>17. ASSUME NEW m \in Msg, Ack(m) PROVE TypeOK'
    BY <1>17 DEF Ack, Goto, TypeOK, lockVars, WPC
  <1>18. ASSUME NEW m \in Msg, CancelLoad(m) PROVE TypeOK'
    <2>1. wpc' \in [Msg -> WPC]
      BY <1>18 DEF CancelLoad, Goto, TypeOK, WPC
    <2> QED
      BY <1>0, <1>18, <2>1, LeaseTypes DEF CancelLoad, TypeOK, lockVars, queueVars
  <1>19. CASE UNCHANGED vars
    BY <1>19 DEF vars, TypeOK, lockVars, queueVars, workVars
  <1> QED
    BY <1>1, <1>2, <1>3, <1>4, <1>5, <1>6, <1>7, <1>8, <1>9, <1>10, <1>11, <1>12, <1>13,
       <1>14, <1>15, <1>16, <1>17, <1>18, <1>19 DEF Next, Request, Worker

\* Every variable of the handoff keeps its type; lock_handoff_retry stays within
\* its limit however often a message is requeued or delivered again.
THEOREM HandoffTypes == Spec => []TypeOK
  BY TypeInit, TypeStep, PTL DEF Spec

-----------------------------------------------------------------------------
(* Leases *)

\* A path that can be taken has no lease, so taking it makes the only one.
LEMMA AcquireKeeps ==
    ASSUME TypeOK, Registry, NEW o \in Owner, NEW r \in Ref, Acquire(o, r),
           o = Producer => r = Producer
    PROVE  Registry' /\ \A q \in Ref : holds[q] = NoOwner
  <1>1. \A q \in Ref : holds[q] = NoOwner
    BY DEF Registry, LeaseLive, Acquire, Free
  <1>2. \A q \in Ref : holds'[q] = IF q = r THEN o ELSE NoOwner
    BY <1>1 DEF Acquire, TypeOK
  <1>3. o # NoOwner
    BY HandoffAssumption DEF Owner
  <1>4. LeaseLive' /\ OneLease'
    BY <1>2 DEF Acquire, LeaseLive, OneLease
  <1>5. Remembered'
    BY <1>2, HandoffAssumption DEF Remembered, Ref, Owner
  <1> QED
    BY <1>1, <1>4, <1>5 DEF Registry

\* A release ends one lease and its token.
LEMMA ReleaseKeeps ==
    ASSUME TypeOK, Registry, NEW r \in Ref, Release(r)
    PROVE  Registry'
  <1>1. \A q \in Ref : holds'[q] = IF q = r THEN NoOwner ELSE holds[q]
    BY DEF Release, TypeOK
  <1>2. \A q \in Ref \ {r} : holds[q] # NoOwner => holds[r] = NoOwner
    BY DEF Registry, OneLease
  <1>3. LeaseLive'
    BY <1>1, <1>2 DEF Release, Registry, LeaseLive
  <1>4. OneLease'
    BY <1>1 DEF Registry, OneLease
  <1>5. Remembered'
    <2>1. consumed /\ (\E q \in Ref \ {r} : holds[q] = Producer) => consumed'
      BY DEF Release
    <2>2. \A q \in Ref \ {Producer} : holds'[q] = Producer => q \in Ref \ {r} /\ holds[q] = Producer
      BY <1>1, HandoffAssumption
    <2>3. holds'[Other] # Producer
      BY <1>1, HandoffAssumption DEF Registry, Remembered, Ref, Owner
    <2> QED
      BY <2>1, <2>2, <2>3 DEF Registry, Remembered
  <1> QED
    BY <1>3, <1>4, <1>5 DEF Registry

\* The request's lease gets another ref.
LEMMA AdoptKeeps ==
    ASSUME TypeOK, Registry, NEW r \in Ref \ {Producer, Other}, AdoptLocal(r)
    PROVE  Registry' /\ holds[Producer] = Producer
  <1>1. \A q \in Ref : holds'[q] = IF q = r THEN Producer ELSE NoOwner
    BY HandoffAssumption DEF AdoptLocal, TypeOK, Registry, OneLease, Ref, Owner
  <1>2. tok = Producer /\ ~stale
    BY HandoffAssumption DEF AdoptLocal, Registry, LeaseLive, Ref, Owner
  <1>3. LeaseLive' /\ OneLease'
    BY <1>1, <1>2 DEF AdoptLocal, LeaseLive, OneLease
  <1>4. Remembered'
    BY <1>1, HandoffAssumption DEF AdoptLocal, Remembered, Ref, Owner
  <1> QED
    BY <1>3, <1>4 DEF AdoptLocal, Registry

\* The token is the request's and no lease of the path is left, so the revived
\* token gets the only one.
LEMMA RefreshKeeps ==
    ASSUME TypeOK, Registry, NEW m \in Msg, RefreshAdopted(m),
           \A r \in Ref : holds[r] # Producer
    PROVE  Registry' /\ wpc' \in {[wpc EXCEPT ![m] = Adopted(m)], [wpc EXCEPT ![m] = NotAdopted(m)]}
           /\ (wpc'[m] = "work" => holds'[m] # NoOwner)
  <1>0. m \in Ref /\ Other \in Ref /\ m \notin {Producer, Other} /\ Producer # NoOwner
    BY HandoffAssumption DEF Ref, Owner
  <1>1. CASE tok = Producer
    <2>1. \A q \in Ref : holds[q] = NoOwner
      BY <1>1 DEF Registry, LeaseLive
    <2>2. \A q \in Ref : holds'[q] = IF q = m THEN Producer ELSE NoOwner
      BY <1>0, <1>1, <2>1 DEF RefreshAdopted, TypeOK
    <2> QED
      BY <1>0, <1>1, <2>2 DEF RefreshAdopted, Goto, Registry, LeaseLive, OneLease, Remembered
  <1>2. CASE tok # Producer
    BY <1>2 DEF RefreshAdopted, Goto, lockVars, Registry, LeaseLive, OneLease, Remembered,
               NotAdopted, TypeOK
  <1> QED
    BY <1>1, <1>2

-----------------------------------------------------------------------------
(* The invariant *)

\* The invariant holds at first.
LEMMA IInvInit == Init => IInv
  <1> SUFFICES ASSUME Init PROVE IInv
    OBVIOUS
  <1>1. TypeOK
    BY TypeInit
  <1>2. LeaseLive /\ OneLease /\ Remembered
    BY HandoffAssumption DEF Init, LeaseLive, OneLease, Remembered, Ref, Owner
  <1>3. AdoptingAlone /\ WorkerLeased /\ NothingEarly
    BY DEF Init, AdoptingAlone, WorkerLeased, NothingEarly
  <1> QED
    BY <1>1, <1>2, <1>3 DEF IInv

\* Every step keeps the invariant.
LEMMA IInvStep == IInv /\ [Next]_vars => IInv'
  <1> SUFFICES ASSUME IInv, [Next]_vars PROVE IInv'
    OBVIOUS
  <1>0. TypeOK /\ TypeOK' /\ Registry
    BY TypeStep DEF IInv, Registry
  <1> SUFFICES Registry' /\ AdoptingAlone' /\ WorkerLeased' /\ NothingEarly'
    BY <1>0 DEF IInv, Registry
  <1>a. /\ Producer \in Owner /\ Other \in Owner /\ Producer \in Ref /\ Other \in Ref /\ Lost \in Ref
        /\ Producer # NoOwner /\ Producer # Other /\ Producer # Lost
        /\ \A m \in Msg : m \in Owner /\ m \in Ref /\ m \notin {Producer, Other, Lost}
    BY HandoffAssumption DEF Owner, Ref
  <1> DEFINE Workers == AdoptingAlone /\ WorkerLeased /\ NothingEarly
  <1>b. Workers
    BY DEF IInv
  <1>1. CASE Lock
    <2>1. Registry'
      BY <1>0, <1>a, <1>1, AcquireKeeps DEF Lock
    <2>2. \A m \in Msg : wpc'[m] = "none"
      BY <1>b, <1>1 DEF Lock, NothingEarly, workVars
    <2> QED
      BY <1>1, <2>1, <2>2 DEF Lock, AdoptingAlone, WorkerLeased, NothingEarly
  <1>2. ASSUME NEW m \in Msg, Enqueue(m) PROVE Registry' /\ Workers'
    BY <1>0, <1>b, <1>2 DEF Enqueue, lockVars, workVars, Registry, LeaseLive, OneLease, Remembered,
                 AdoptingAlone, WorkerLeased, NothingEarly
  <1>3. CASE Park
    BY <1>0, <1>b, <1>3 DEF Park, Handoff, queueVars, workVars, Registry, LeaseLive, OneLease,
                 Remembered, AdoptingAlone, WorkerLeased, NothingEarly
  <1>4. CASE Abort
    <2>1. Registry'
      BY <1>0, <1>a, <1>4, ReleaseKeeps DEF Abort
    <2>2. \A r \in Ref \ {Producer} : holds'[r] = holds[r]
      BY <1>0, <1>4 DEF Abort, Release, TypeOK
    <2>3. holds'[Producer] = NoOwner
      BY <1>0, <1>4, <1>a DEF Abort, Release, TypeOK
    <2> QED
      BY <1>4, <1>a, <1>b, <2>1, <2>2, <2>3 DEF Abort, workVars, AdoptingAlone, WorkerLeased,
         NothingEarly
  <1>5. CASE Cancel
    BY <1>0, <1>b, <1>5 DEF Cancel, lockVars, queueVars, workVars, Registry, LeaseLive, OneLease,
                 Remembered, AdoptingAlone, WorkerLeased, NothingEarly
  <1>6. CASE OtherAcquires
    <2>1. Registry' /\ \A q \in Ref : holds[q] = NoOwner
      BY <1>0, <1>a, <1>6, AcquireKeeps DEF OtherAcquires
    <2>2. \A m \in Msg : wpc'[m] # "work"
      BY <1>a, <1>b, <1>6, <2>1 DEF OtherAcquires, workVars, WorkerLeased
    <2>3. \A q \in Ref : holds'[q] # Producer
      BY <1>0, <1>a, <1>6, <2>1 DEF OtherAcquires, Acquire, TypeOK
    <2> QED
      BY <1>6, <1>b, <2>1, <2>2, <2>3 DEF OtherAcquires, queueVars, workVars, AdoptingAlone, WorkerLeased,
         NothingEarly
  <1>7. CASE OtherReleases
    <2>1. Registry'
      BY <1>0, <1>a, <1>7, ReleaseKeeps DEF OtherReleases
    <2>2. \A r \in Ref : holds'[r] = IF r = Other THEN NoOwner ELSE holds[r]
      BY <1>0, <1>7 DEF OtherReleases, Release, TypeOK
    <2> QED
      BY <1>7, <1>a, <1>b, <2>1, <2>2 DEF OtherReleases, queueVars, workVars, AdoptingAlone,
         WorkerLeased, NothingEarly
  <1>8. CASE Expire
    <2>1. \A r \in Ref : holds[r] = NoOwner
      BY <1>0, <1>8 DEF Expire, Leases, Registry, LeaseLive
    <2> QED
      BY <1>8, <1>0, <1>b, <2>1 DEF Expire, queueVars, workVars, Registry, LeaseLive, OneLease, Remembered,
         AdoptingAlone, WorkerLeased, NothingEarly
  <1>9. CASE Restart
    <2>1. \A r \in Ref : holds'[r] = IF r = Other THEN holds[Other] ELSE NoOwner
      BY <1>9 DEF Restart
    <2>2. Registry'
      BY <1>9, <1>0, <1>a, <2>1 DEF Restart, Registry, LeaseLive, OneLease, Remembered
    <2> QED
      BY <1>9, <2>2 DEF Restart, AdoptingAlone, WorkerLeased, NothingEarly
  <1>10. ASSUME NEW m \in Msg, Deliver(m) PROVE Registry' /\ Workers'
    BY <1>0, <1>b, <1>10 DEF Deliver, Goto, TypeOK, lockVars, Registry, LeaseLive, OneLease,
                 Remembered, AdoptingAlone, WorkerLeased, NothingEarly
  <1>11. ASSUME NEW m \in Msg, Adopt(m) PROVE Registry' /\ Workers'
    <2>1. prod' # "idle"
      BY <1>b, <1>11 DEF Adopt, NothingEarly
    <2>2. CASE holds[Producer] = Producer /\ parked
      <3>1. Registry'
        BY <1>0, <1>a, <1>11, <2>2, AdoptKeeps DEF Adopt
      <3>2. \A n \in Msg : wpc'[n] # "refresh"
        BY <1>0, <1>11, <2>2 DEF Adopt, Goto, Adopted, TypeOK
      <3>3. \A n \in Msg : holds'[n] = IF n = m THEN Producer ELSE holds[n]
        BY <1>0, <1>a, <1>11, <2>2 DEF Adopt, AdoptLocal, TypeOK
      <3>4. WorkerLeased'
        BY <1>0, <1>a, <1>b, <1>11, <2>2, <3>3 DEF Adopt, Goto, WorkerLeased, TypeOK
      <3> QED
        BY <2>1, <3>1, <3>2, <3>4 DEF AdoptingAlone, NothingEarly
    <2>3. CASE ~(holds[Producer] = Producer /\ parked)
      <3>1. UNCHANGED lockVars /\ Goto(m, IF AdoptFromToken THEN "refresh" ELSE NotAdopted(m))
        BY <1>11, <2>3 DEF Adopt
      <3>2. Registry'
        BY <1>0, <3>1 DEF lockVars, Registry, LeaseLive, OneLease, Remembered
      <3>3. AdoptFromToken => \A r \in Ref : holds[r] # Producer
        BY <1>0, <1>a DEF AdoptFromToken, Registry, Remembered
      <3>4. \A n \in Msg \ {m} : wpc'[n] # "refresh"
        BY <1>0, <1>11, <3>1 DEF Adopt, Goto, TypeOK
      <3>5. AdoptingAlone'
        BY <1>0, <3>1, <3>3, <3>4 DEF Goto, NotAdopted, lockVars, AdoptingAlone, TypeOK
      <3>6. WorkerLeased'
        BY <1>0, <1>b, <3>1 DEF Goto, NotAdopted, lockVars, WorkerLeased, TypeOK
      <3> QED
        BY <2>1, <3>2, <3>5, <3>6 DEF NothingEarly
    <2> QED
      BY <2>2, <2>3
  <1>12. ASSUME NEW m \in Msg, AdoptRefresh(m) PROVE Registry' /\ Workers'
    <2>1. \A r \in Ref : holds[r] # Producer
      BY <1>b, <1>12 DEF AdoptRefresh, AdoptingAlone
    <2>2. /\ Registry'
          /\ wpc' \in {[wpc EXCEPT ![m] = Adopted(m)], [wpc EXCEPT ![m] = NotAdopted(m)]}
          /\ wpc'[m] = "work" => holds'[m] # NoOwner
      BY <1>0, <1>12, <2>1, RefreshKeeps DEF AdoptRefresh
    <2>3. \A n \in Msg : wpc'[n] # "refresh"
      BY <1>0, <1>b, <1>12, <2>2 DEF AdoptRefresh, AdoptingAlone, Adopted, NotAdopted, TypeOK
    <2>4. \A n \in Msg \ {m} : holds'[n] = holds[n] /\ wpc'[n] = wpc[n]
      BY <1>0, <1>a, <1>12, <2>2 DEF AdoptRefresh, RefreshAdopted, lockVars, TypeOK
    <2>5. prod' # "idle"
      BY <1>b, <1>12 DEF AdoptRefresh, NothingEarly
    <2> QED
      BY <1>b, <2>2, <2>3, <2>4, <2>5 DEF AdoptingAlone, WorkerLeased, NothingEarly
  <1>13. ASSUME NEW m \in Msg, Reacquire(m) PROVE Registry' /\ Workers'
    <2>0. prod' # "idle"
      BY <1>b, <1>13 DEF Reacquire, NothingEarly
    <2>1. CASE Free
      <3>1. Registry' /\ \A q \in Ref : holds[q] = NoOwner
        BY <1>0, <1>a, <1>13, <2>1, AcquireKeeps DEF Reacquire
      <3>2. \A q \in Ref : holds'[q] = IF q = m THEN m ELSE NoOwner
        BY <1>0, <1>a, <1>13, <2>1, <3>1 DEF Reacquire, Acquire, TypeOK
      <3>3. \A n \in Msg : wpc'[n] = IF n = m THEN "work" ELSE wpc[n]
        BY <1>0, <1>13, <2>1 DEF Reacquire, Goto, TypeOK
      <3>4. \A n \in Msg : wpc[n] # "work"
        BY <1>a, <1>b, <3>1 DEF WorkerLeased
      <3>5. m # NoOwner
        BY HandoffAssumption
      <3> QED
        BY <1>a, <1>b, <2>0, <3>1, <3>2, <3>3, <3>4, <3>5 DEF AdoptingAlone, WorkerLeased, NothingEarly
    <2>2. CASE ~Free
      BY <1>0, <1>b, <1>13, <2>0, <2>2 DEF Reacquire, Goto, TypeOK, lockVars, Registry, LeaseLive, OneLease,
         Remembered, AdoptingAlone, WorkerLeased, NothingEarly
    <2> QED
      BY <2>1, <2>2
  <1>14. ASSUME NEW m \in Msg, (\E n \in Msg : Requeue(m, n)) \/ GiveUp(m) \/ Finish(m) \/ CancelWork(m)
                                  \/ Ack(m)
         PROVE  Registry' /\ Workers'
    <2>1. UNCHANGED <<lockVars, prod>> /\ wpc[m] # "none" /\ \E l \in {"stuck", "ack", "release", "none"} : Goto(m, l)
      BY <1>14 DEF Requeue, GiveUp, Finish, CancelWork, Ack
    <2> QED
      BY <1>0, <1>b, <2>1 DEF Goto, TypeOK, lockVars, Registry, LeaseLive, OneLease,
         Remembered, AdoptingAlone, WorkerLeased, NothingEarly
  <1>15. ASSUME NEW m \in Msg, ReleaseLock(m) PROVE Registry' /\ Workers'
    <2>1. Registry'
      BY <1>0, <1>a, <1>15, ReleaseKeeps DEF ReleaseLock
    <2>2. \A r \in Ref : holds'[r] = IF r = m THEN NoOwner ELSE holds[r]
      BY <1>0, <1>15 DEF ReleaseLock, Release, TypeOK
    <2>3. \A n \in Msg : wpc'[n] = IF n = m THEN "ack" ELSE wpc[n]
      BY <1>0, <1>15 DEF ReleaseLock, Goto, TypeOK
    <2>4. prod' # "idle"
      BY <1>b, <1>15 DEF ReleaseLock, NothingEarly
    <2> QED
      BY <1>a, <1>b, <2>1, <2>2, <2>3, <2>4 DEF AdoptingAlone, WorkerLeased, NothingEarly
  <1>16. ASSUME NEW m \in Msg, CancelLoad(m) PROVE Registry' /\ Workers'
    <2>0. prod' # "idle"
      BY <1>b, <1>16 DEF CancelLoad, NothingEarly
    <2>1. \A n \in Msg : wpc'[n] = IF n = m THEN "ack" ELSE wpc[n]
      BY <1>0, <1>16 DEF CancelLoad, Goto, TypeOK
    <2>2. CASE AdoptLocal(Lost)
      <3>1. Registry' /\ holds[Producer] = Producer
        BY <1>0, <1>a, <2>2, AdoptKeeps, HandoffAssumption
      <3>2. \A n \in Msg : wpc[n] # "refresh"
        BY <1>a, <1>b, <3>1 DEF AdoptingAlone
      <3>3. \A n \in Msg : holds'[n] = holds[n]
        BY <1>0, <1>a, <2>2 DEF AdoptLocal, TypeOK
      <3> QED
        BY <1>b, <2>0, <2>1, <3>1, <3>2, <3>3 DEF AdoptingAlone, WorkerLeased, NothingEarly
    <2>3. CASE Acquire(m, Lost)
      <3>1. Registry' /\ \A q \in Ref : holds[q] = NoOwner
        BY <1>0, <1>a, <2>3, AcquireKeeps
      <3>2. \A q \in Ref : holds'[q] = IF q = Lost THEN m ELSE NoOwner
        BY <1>0, <1>a, <2>3, <3>1 DEF Acquire, TypeOK
      <3>3. \A n \in Msg : wpc[n] # "work"
        BY <1>a, <1>b, <3>1 DEF WorkerLeased
      <3> QED
        BY <1>a, <1>b, <2>0, <2>1, <3>1, <3>2, <3>3 DEF AdoptingAlone, WorkerLeased, NothingEarly
    <2>4. CASE UNCHANGED lockVars
      BY <1>0, <1>b, <2>0, <2>1, <2>4 DEF lockVars, Registry, LeaseLive, OneLease,
         Remembered, AdoptingAlone, WorkerLeased, NothingEarly
    <2> QED
      BY <1>16, <2>2, <2>3, <2>4 DEF CancelLoad
  <1>17. CASE UNCHANGED vars
    BY <1>0, <1>b, <1>17 DEF vars, lockVars, queueVars, workVars, Registry, LeaseLive, OneLease,
       Remembered, AdoptingAlone, WorkerLeased, NothingEarly
  <1> QED
    BY <1>1, <1>2, <1>3, <1>4, <1>5, <1>6, <1>7, <1>8, <1>9, <1>10, <1>11, <1>12, <1>13,
       <1>14, <1>15, <1>16, <1>17 DEF Next, Request, Worker

\* A worker works only under a lease whose token is in place and live: neither
\* takeovers, late releases and redeliveries nor restarts take the lock away.
THEOREM Locked == Spec => []WorkLocked
  <1>1. IInv => WorkLocked
    BY DEF IInv, WorkLocked, LeaseLive, WorkerLeased, Ref, Owner
  <1> QED
    BY <1>1, IInvInit, IInvStep, PTL DEF Spec

\* However many copies of the message there are, at most one works at a time,
\* and none while another process holds the path.
THEOREM AdoptedOnce == Spec => []OneHolder
  <1>1. IInv => OneHolder
    BY HandoffAssumption DEF IInv, OneHolder, OneLease, WorkerLeased, Ref, Owner
  <1> QED
    BY <1>1, IInvInit, IInvStep, PTL DEF Spec
=============================================================================
