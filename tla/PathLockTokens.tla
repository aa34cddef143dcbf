-------------------------- MODULE PathLockTokens --------------------------
(* Proof that between operations the tokens of an owner are those of its       *)
(* leases: TokensMatchLeases, on top of the invariant of the exclusion.        *)
EXTENDS PathLockExclusion

-----------------------------------------------------------------------------
(* The inductive invariant *)

\* Every token of the owner is that of a lease, or one the attempt in flight
\* wrote; what it upgraded was the token of a lease.
Explained(o) ==
    /\ \A s \in Slot : token[s].owner = o =>
         \/ [slot |-> s, kind |-> token[s].kind] \in Held(o)
         \/ \E a \in acq[o] : /\ a.slot = s /\ a.kind = token[s].kind
                              /\ a.how # "reentrant"
    /\ \A a \in acq[o] : a.how = "upgraded" => [slot |-> a.slot, kind |-> "E"] \in Held(o)
    /\ pc[o] = "upgrade" => Req(o).kind = "T"

\* No token of a running owner that never lapsed is left unexplained.
NoneLeft == ~torn => \A o \in Owner \ (lapsed \cup Dead) : Explained(o)

-----------------------------------------------------------------------------
(* Steps of others *)

\* Nobody writes a token for somebody else.
LEMMA OthersGive ==
    ASSUME BaseInv, NEW o \in Owner, NEW q \in Owner, OwnerStep(o), q # o,
           NEW s \in Slot, token'[s].owner = q
    PROVE  token[s].owner = q /\ token'[s].kind = token[s].kind
  <1> USE DEF BaseInv
  <1>1. token \in [Slot -> Cell] /\ q # NoOwner
    BY OwnerAssumption DEF TypeOK
  <1>2. NoToken.owner = NoOwner /\ EmptyFile(o).owner = NoOwner /\ \A c, k : Fresh(c, o, k).owner = o
    BY DEF NoToken, EmptyFile, Fresh
  <1>3. CASE UNCHANGED token
    BY <1>3
  <1>4. CASE Upgrade(o)
    <2>1. token' = token \/ token' = [token EXCEPT ![Target(o)] = Fresh(token[Target(o)], o, "T")]
      BY <1>4 DEF Upgrade
    <2> QED
      BY <1>1, <1>2, <2>1
  <1>5. CASE TakeRemove(o)
    BY <1>1, <1>2, <1>5 DEF TakeRemove, RemoveToken
  <1>6. CASE TakeUnlink(o)
    BY <1>1, <1>2, <1>6 DEF TakeUnlink, UnlinkToken
  <1>7. CASE Create(o)
    <2>1. \/ token' = token \/ token' = [token EXCEPT ![Target(o)] = EmptyFile(o)]
          \/ token' = [token EXCEPT ![Target(o)] = Fresh(token[Target(o)], o, Req(o).kind)]
      BY <1>7 DEF Create
    <2> QED
      BY <1>1, <1>2, <2>1
  <1>8. CASE Write(o)
    BY <1>1, <1>2, <1>8 DEF Write
  <1>9. CASE Rollback(o)
    <2>1. PICK a \in acq[o] : token' = [token EXCEPT ![a.slot] =
                 IF token[a.slot].owner = o /\ a.how = "created" THEN NoToken
                 ELSE IF token[a.slot].owner = o /\ a.how = "upgraded"
                      THEN [token[a.slot] EXCEPT !.kind = "E", !.stale = a.was]
                 ELSE token[a.slot]]
      BY <1>9 DEF Rollback
    <2>2. token[s].owner = o => [token[s] EXCEPT !.kind = "E", !.stale = a.was].owner = o
      BY <1>1 DEF Cell
    <2> QED
      BY <1>1, <1>2, <2>1, <2>2
  <1>10. CASE Sweep(o)
    BY <1>1, <1>2, <1>10 DEF Sweep, RemoveToken
  <1>11. CASE SweepUnlink(o)
    BY <1>1, <1>2, <1>11 DEF SweepUnlink, UnlinkToken
  <1>12. CASE \E x \in Slot : ReleasePath(o, x)
    <2>1. PICK x \in Slot : token' = [token EXCEPT ![x] =
             IF token[x].owner # o THEN token[x]
             ELSE IF LastRef(o, x) THEN NoToken
             ELSE IF MustDowngrade(o, x) THEN [token[x] EXCEPT !.kind = "E"]
             ELSE token[x]]
      BY <1>12 DEF ReleasePath
    <2>2. token[s].owner = o => [token[s] EXCEPT !.kind = "E"].owner = o
      BY <1>1 DEF Cell
    <2> QED
      BY <1>1, <1>2, <2>1, <2>2
  <1>13. CASE \E x \in Slot : Refresh(o, x)
    BY <1>1, <1>13 DEF Refresh, Cell
  <1>14. ASSUME \/ Stat(o) \/ EnsureLockDir(o) \/ TakeRead(o) \/ VerifyNext(o) \/ RolledBack(o)
                \/ CleanRead(o) \/ Retry(o) \/ TimeOut(o) \/ Crash(o)
                \/ \E x \in Slot : CheckRead(o, x)
                \/ \E l \in LeaseId : Publish(o, l)
                \/ \E b \in Batches, c \in LeaseId \cup {0} : Begin(o, b, c)
                \/ \E l \in LeaseId, sel \in SUBSET Slot : ReleaseStart(o, l, sel)
         PROVE  UNCHANGED token
    BY <1>14 DEF Stat, EnsureLockDir, TakeRead, VerifyNext, RolledBack, CleanRead, Retry, TimeOut,
                 Crash, CheckRead, Publish, Begin, ReleaseStart
  <1> QED
    BY <1>3, <1>4, <1>5, <1>6, <1>7, <1>8, <1>9, <1>10, <1>11, <1>12, <1>13, <1>14
    DEF OwnerStep, AcquireStep

\* Where neither leases nor the attempt change and no token is new.
LEMMA ExplainedMove ==
    ASSUME NEW o \in Owner, Explained(o), Held(o)' = Held(o), acq'[o] = acq[o],
           pc'[o] = "upgrade" => Req(o)'.kind = "T",
           \A s \in Slot : token'[s].owner = o =>
             token[s].owner = o /\ token'[s].kind = token[s].kind
    PROVE  Explained(o)'
  BY DEF Explained

\* A step of another owner explains away nothing.
LEMMA ExplainedFrame ==
    ASSUME BaseInv, NEW o \in Owner, NEW q \in Owner, OwnerStep(o), q # o, Explained(q)
    PROVE  Explained(q)'
  <1>1. SameLocals(q)
    BY Frame DEF BaseInv
  <1>2. Held(q)' = Held(q) /\ acq'[q] = acq[q] /\ pc'[q] = pc[q] /\ Req(q)' = Req(q)
    BY <1>1 DEF SameLocals, Held, Req
  <1>3. \A s \in Slot : token'[s].owner = q => token[s].owner = q /\ token'[s].kind = token[s].kind
    BY OthersGive
  <1> QED
    BY <1>2, <1>3, ExplainedMove DEF Explained

-----------------------------------------------------------------------------
(* Steps of the owner *)

\* The slot of the request in hand is not one the attempt has already handled.
LEMMA TargetNew ==
    ASSUME BaseInv, NEW o \in Owner, pc[o] \in Taking, NEW a \in acq[o]
    PROVE  a.slot # Target(o)
  <1> SUFFICES ASSUME a.slot = Target(o) PROVE FALSE
    OBVIOUS
  <1>1. LocalOK(o) /\ pc[o] \notin {"idle", "dead"}
    BY DEF BaseInv, Taking
  <1>2. /\ batch[o] \in Batches /\ idx[o] \in 1..Len(batch[o]) /\ a.i \in 1..Len(batch[o])
        /\ a.slot[1] = batch[o][a.i].path /\ a.i < idx[o]
    BY <1>1 DEF LocalOK
  <1>3. a.slot[1] = batch[o][idx[o]].path
    BY DEF Target, Req
  <1>4. a.i = idx[o]
    BY <1>2, <1>3, BatchAssumption
  <1> QED
    BY <1>2, <1>4, BatchAssumption

\* The end of one request of the attempt.
LEMMA AcquiredExplained ==
    ASSUME BaseInv, NEW o \in Owner, Explained(o), pc[o] \in Taking,
           NEW h \in {"created", "reentrant", "upgraded"}, NEW w \in BOOLEAN,
           Acquired(o, h, w), leases' = leases,
           h = "upgraded" => [slot |-> Target(o), kind |-> "E"] \in Held(o),
           \A s \in Slot : token'[s].owner = o =>
             \/ token[s].owner = o /\ token'[s].kind = token[s].kind
             \/ s = Target(o) /\ token'[s].kind = Req(o).kind /\ h # "reentrant"
    PROVE  Explained(o)'
  <1> DEFINE c == [i |-> idx[o], slot |-> Target(o), kind |-> Req(o).kind,
                   how |-> h, was |-> w]
  <1>1. acq'[o] = acq[o] \cup {c} /\ Held(o)' = Held(o)
    BY DEF Acquired, BaseInv, TypeOK, Held
  <1>2. pc'[o] \in {"check", "verify"}
    BY DEF Acquired, BaseInv, TypeOK, Goto
  <1>3. c.slot = Target(o) /\ c.how = h /\ c.kind = Req(o).kind
    OBVIOUS
  <1> HIDE DEF c
  <1>4. ASSUME NEW s \in Slot, token'[s].owner = o
        PROVE  \/ [slot |-> s, kind |-> token'[s].kind] \in Held(o)'
               \/ \E a \in acq'[o] : a.slot = s /\ a.kind = token'[s].kind /\ a.how # "reentrant"
    <2>1. CASE token[s].owner = o /\ token'[s].kind = token[s].kind
      BY <1>1, <2>1 DEF Explained
    <2>2. CASE s = Target(o) /\ token'[s].kind = Req(o).kind /\ h # "reentrant"
      BY <1>1, <1>3, <2>2
    <2> QED
      BY <1>4, <2>1, <2>2
  <1>5. \A a \in acq'[o] : a.how = "upgraded" => [slot |-> a.slot, kind |-> "E"] \in Held(o)'
    BY <1>1, <1>3 DEF Explained
  <1> QED
    BY <1>2, <1>4, <1>5 DEF Explained

\* Release of one lock file: a shared token is kept, and reduced to EXACT with
\* its last TREE lease.
LEMMA ReleaseExplained ==
    ASSUME BaseInv, NEW o \in Owner, OwnOK(o), Explained(o), NEW s \in Slot, ReleasePath(o, s)
    PROVE  Explained(o)'
  <1>1. /\ token \in [Slot -> Cell] /\ leases \in [Owner -> [LeaseId -> SUBSET Grant]]
        /\ rel[o] \in LeaseId /\ s \in Slots(leases[o][rel[o]]) /\ pc[o] \in Unlocked
        /\ acq[o] = {} /\ acq' = acq /\ pc' = pc
    BY DEF ReleasePath, BaseInv, LocalOK, acqVars, TypeOK
  <1>2. \A g \in Held(o) : Backed(o, g)
    BY DEF OwnOK, Placed
  <1>3. token[s].owner = o
    <2>1. PICK g \in leases[o][rel[o]] : g.slot = s
      BY <1>1 DEF Slots
    <2> QED
      BY <1>1, <1>2, <2>1 DEF Held, Backed
  <1>4. ReleaseOutcome(o, s) = "ok"
    BY <1>3 DEF ReleaseOutcome
  <1>5. \A l \in LeaseId : leases'[o][l] = IF l = rel[o] THEN DropGrant(leases[o][l], s) ELSE leases[o][l]
    BY <1>1, <1>4 DEF ReleasePath
  <1>6. \A x \in Slot \ {s} : token'[x] = token[x]
    BY <1>1 DEF ReleasePath
  <1>7. ASSUME NEW x \in Slot \ {s}, token'[x].owner = o
        PROVE  [slot |-> x, kind |-> token'[x].kind] \in Held(o)'
    <2>1. PICK l \in LeaseId : [slot |-> x, kind |-> token[x].kind] \in leases[o][l]
      BY <1>1, <1>6, <1>7 DEF Explained, Held
    <2>2. [slot |-> x, kind |-> token[x].kind] \in leases'[o][l]
      BY <1>5, <1>7, <2>1 DEF DropGrant
    <2> QED
      BY <1>6, <2>2 DEF Held
  <1>8. ASSUME token'[s].owner = o PROVE [slot |-> s, kind |-> token'[s].kind] \in Held(o)'
    <2>1. ~LastRef(o, s)
      <3>1. LastRef(o, s) => token'[s] = NoToken
        BY <1>1, <1>3 DEF ReleasePath
      <3> QED
        BY <1>8, <3>1, OwnerAssumption DEF NoToken
    <2>0. PICK l \in LeaseId \ {rel[o]} : s \in Slots(leases[o][l])
      BY <2>1 DEF LastRef
    <2>2. PICK g \in leases[o][l] : g.slot = s
      BY <2>0 DEF Slots
    <2>3. g \in Held(o) /\ g \in Held(o)' /\ g = [slot |-> s, kind |-> g.kind] /\ g.kind \in Kind
      <3>1. g \in Grant /\ leases'[o][l] = leases[o][l]
        BY <1>1, <1>5, <2>2
      <3> QED
        BY <2>2, <3>1 DEF Held, Grant
    <2>4. AtLeast(token[s].kind, g.kind)
      BY <1>2, <2>2, <2>3 DEF Backed
    <2>5. token[s].kind \in Kind
      BY <1>3, OwnerAssumption DEF BaseInv, TokenOK, IsToken
    <2>6. CASE MustDowngrade(o, s)
      <3>1. token'[s] = [token[s] EXCEPT !.kind = "E"]
        BY <1>1, <1>3, <2>1, <2>6 DEF ReleasePath
      <3>2. token'[s].kind = "E"
        BY <1>1, <3>1 DEF Cell
      <3>3. g.kind = "E"
        BY <2>2, <2>3, <2>6 DEF MustDowngrade, KindIn, Kind
      <3> QED
        BY <2>3, <3>2, <3>3
    <2>7. CASE ~MustDowngrade(o, s)
      <3>1. token'[s] = token[s]
        BY <1>1, <1>3, <2>1, <2>7 DEF ReleasePath
      <3>2. CASE token[s].kind = "E"
        BY <2>3, <2>4, <3>1, <3>2 DEF AtLeast, Kind
      <3>3. CASE token[s].kind = "T" /\ KindIn(o, rel[o], s, "T")
        <4>1. PICK k \in LeaseId \ {rel[o]} : KindIn(o, k, s, "T")
          BY <2>7, <3>3 DEF MustDowngrade
        <4>2. [slot |-> s, kind |-> "T"] \in leases'[o][k]
          BY <1>5, <4>1 DEF KindIn
        <4> QED
          BY <3>1, <3>3, <4>2 DEF Held
      <3>4. CASE token[s].kind = "T" /\ ~KindIn(o, rel[o], s, "T")
        <4>1. PICK k \in LeaseId : [slot |-> s, kind |-> "T"] \in leases[o][k]
          BY <1>1, <1>3, <3>4 DEF Explained, Held
        <4>2. k # rel[o]
          BY <3>4, <4>1 DEF KindIn
        <4>3. [slot |-> s, kind |-> "T"] \in leases'[o][k]
          BY <1>5, <4>1, <4>2
        <4> QED
          BY <3>1, <3>4, <4>3 DEF Held
      <3> QED
        BY <2>5, <3>2, <3>3, <3>4 DEF Kind
    <2> QED
      BY <2>6, <2>7
  <1> QED
    BY <1>1, <1>7, <1>8 DEF Explained, Unlocked

\* Steps of the owner that write no token for it and leave what it acquired.
LEMMA QuietExplained ==
    ASSUME BaseInv, NEW o \in Owner, Explained(o),
           \/ Stat(o) \/ EnsureLockDir(o) \/ VerifyNext(o) \/ RolledBack(o) \/ CleanRead(o)
           \/ TakeRemove(o) \/ TakeUnlink(o) \/ Sweep(o) \/ SweepUnlink(o)
           \/ Retry(o) \/ TimeOut(o)
           \/ \E s \in Slot : CheckRead(o, s) \/ Refresh(o, s)
           \/ \E b \in Batches, c \in LeaseId \cup {0} : Begin(o, b, c)
           \/ \E l \in LeaseId, sel \in SUBSET Slot : ReleaseStart(o, l, sel)
    PROVE  Explained(o)'
  <1>1. /\ token \in [Slot -> Cell] /\ pc \in [Owner -> PC] /\ acq \in [Owner -> SUBSET Change]
        /\ (pc[o] \in Unlocked => acq[o] = {}) /\ NoToken.owner # o
    BY OwnerAssumption DEF BaseInv, TypeOK, LocalOK, NoToken
  <1> SUFFICES /\ leases' = leases /\ acq'[o] = acq[o] /\ pc'[o] # "upgrade"
               /\ \A s \in Slot : token'[s].owner = o =>
                    token[s].owner = o /\ token'[s].kind = token[s].kind
    <2> SUFFICES ASSUME leases' = leases PROVE Held(o)' = Held(o)
      BY ExplainedMove
    <2> QED
      BY DEF Held
  <1>2. CASE Stat(o) \/ EnsureLockDir(o) \/ VerifyNext(o)
    BY <1>1, <1>2 DEF Stat, EnsureLockDir, VerifyNext, Goto
  <1>3. CASE RolledBack(o)
    BY <1>1, <1>3 DEF RolledBack, Return, Goto
  <1>4. CASE CleanRead(o)
    BY <1>1, <1>4 DEF CleanRead, Return, Goto, Unlocked
  <1>5. CASE TakeRemove(o)
    BY <1>1, <1>5 DEF TakeRemove, RemoveToken, Fail, Goto
  <1>6. CASE TakeUnlink(o)
    BY <1>1, <1>6 DEF TakeUnlink, UnlinkToken, Goto
  <1>7. CASE Sweep(o)
    <2>1. acq'[o] = acq[o] /\ leases' = leases /\ pc'[o] # "upgrade"
      BY <1>1, <1>7 DEF Sweep, RemoveToken, Return, Goto, Unlocked
    <2>2. \A s \in Slot : token'[s] = token[s] \/ token'[s] = NoToken
      BY <1>1, <1>7 DEF Sweep, RemoveToken
    <2> QED
      BY <1>1, <2>1, <2>2
  <1>8. CASE SweepUnlink(o)
    BY <1>1, <1>8 DEF SweepUnlink, UnlinkToken, Goto
  <1>9. CASE Retry(o)
    BY <1>1, <1>9 DEF Retry, Return, StartAttempt, Goto, Unlocked
  <1>10. CASE TimeOut(o)
    BY <1>1, <1>10 DEF TimeOut, Return, Goto, Unlocked
  <1>11. CASE \E s \in Slot : CheckRead(o, s)
    BY <1>1, <1>11 DEF CheckRead, Fail, Goto
  <1>12. CASE \E s \in Slot : Refresh(o, s)
    <2>1. \A s \in Slot : token'[s].owner = token[s].owner /\ token'[s].kind = token[s].kind
      BY <1>1, <1>12 DEF Refresh, Cell
    <2> QED
      BY <1>1, <1>12, <2>1 DEF Refresh, MutexFree, acqVars
  <1>13. CASE \E b \in Batches, c \in LeaseId \cup {0} : Begin(o, b, c)
    BY <1>1, <1>13 DEF Begin, StartAttempt, Goto, Unlocked
  <1>14. CASE \E l \in LeaseId, sel \in SUBSET Slot : ReleaseStart(o, l, sel)
    BY <1>1, <1>14 DEF ReleaseStart, MutexFree, acqVars
  <1> QED
    BY <1>2, <1>3, <1>4, <1>5, <1>6, <1>7, <1>8, <1>9, <1>10, <1>11, <1>12, <1>13, <1>14

\* Rollback removes what was created and reduces what was upgraded.
LEMMA RollbackExplained ==
    ASSUME BaseInv, NEW o \in Owner, OwnOK(o), Explained(o), Rollback(o)
    PROVE  Explained(o)'
  <1>1. token \in [Slot -> Cell] /\ acq \in [Owner -> SUBSET Change] /\ NoToken.owner # o
    BY OwnerAssumption DEF BaseInv, TypeOK, NoToken
  <1>2. PICK a \in acq[o] :
          /\ acq' = [acq EXCEPT ![o] = acq[o] \ {a}]
          /\ token' = [token EXCEPT ![a.slot] =
               IF token[a.slot].owner = o /\ a.how = "created" THEN NoToken
               ELSE IF token[a.slot].owner = o /\ a.how = "upgraded"
                    THEN [token[a.slot] EXCEPT !.kind = "E", !.stale = a.was]
               ELSE token[a.slot]]
    BY DEF Rollback
  <1>3. a \in Change /\ a.slot \in Slot
    BY <1>1 DEF Change
  <1>4. acq'[o] = acq[o] \ {a} /\ Held(o)' = Held(o) /\ pc'[o] = "rollback"
    BY <1>1, <1>2 DEF Rollback, Held
  <1>5. \A b \in acq[o] : b.slot = a.slot => b = a
    <2> SUFFICES ASSUME NEW b \in acq[o], b.slot = a.slot PROVE b = a
      OBVIOUS
    <2>1. LocalOK(o) /\ pc[o] = "rollback"
      BY DEF BaseInv, Rollback
    <2>2. /\ batch[o] \in Batches /\ a.i \in 1..Len(batch[o]) /\ b.i \in 1..Len(batch[o])
          /\ a.slot[1] = batch[o][a.i].path /\ b.slot[1] = batch[o][b.i].path
      BY <2>1 DEF LocalOK
    <2>3. a.i = b.i
      BY <2>2, BatchAssumption
    <2> QED
      BY <2>1, <2>3 DEF LocalOK
  <1>6. ASSUME NEW s \in Slot \ {a.slot}, token'[s].owner = o
        PROVE  \/ [slot |-> s, kind |-> token'[s].kind] \in Held(o)'
               \/ \E b \in acq'[o] : b.slot = s /\ b.kind = token'[s].kind /\ b.how # "reentrant"
    <2>1. token'[s] = token[s]
      BY <1>1, <1>2
    <2>2. CASE [slot |-> s, kind |-> token[s].kind] \in Held(o)
      BY <1>4, <2>1, <2>2
    <2>3. CASE \E b \in acq[o] : b.slot = s /\ b.kind = token[s].kind /\ b.how # "reentrant"
      BY <1>4, <2>1, <2>3
    <2> QED
      BY <1>6, <2>1, <2>2, <2>3 DEF Explained
  <1>7. ASSUME token'[a.slot].owner = o
        PROVE  [slot |-> a.slot, kind |-> token'[a.slot].kind] \in Held(o)'
    <2>1. token[a.slot].owner = o
      <3>1. [slot |-> a.slot, kind |-> a.kind] \in Placed(o)
        BY DEF Placed, GrantsOf
      <3> QED
        BY <3>1 DEF Backed, OwnOK
    <2>2. a.how # "created"
      BY <1>1, <1>2, <1>3, <1>7, <2>1
    <2>3. CASE a.how = "upgraded"
      <3>1. token'[a.slot] = [token[a.slot] EXCEPT !.kind = "E", !.stale = a.was]
        BY <1>1, <1>2, <1>3, <2>1, <2>3
      <3>2. token'[a.slot].kind = "E"
        BY <1>1, <1>3, <3>1 DEF Cell
      <3> QED
        BY <1>4, <2>3, <3>2 DEF Explained
    <2>4. CASE a.how = "reentrant"
      <3>1. token'[a.slot] = token[a.slot]
        BY <1>1, <1>2, <1>3, <2>4
      <3>2. ~\E b \in acq[o] : b.slot = a.slot /\ b.kind = token[a.slot].kind /\ b.how # "reentrant"
        BY <1>5, <2>4
      <3> QED
        BY <1>3, <1>4, <2>1, <3>1, <3>2 DEF Explained
    <2> QED
      BY <1>3, <2>2, <2>3, <2>4 DEF Change
  <1>8. \A b \in acq'[o] : b.how = "upgraded" => [slot |-> b.slot, kind |-> "E"] \in Held(o)'
    BY <1>4 DEF Explained
  <1> QED
    BY <1>4, <1>6, <1>7, <1>8 DEF Explained

\* Publication turns what the attempt placed into a lease.
LEMMA PublishExplained ==
    ASSUME BaseInv, NEW o \in Owner, Explained(o), NEW l \in LeaseId, Publish(o, l)
    PROVE  Explained(o)'
  <1>1. acq'[o] = {} /\ pc'[o] = "idle" /\ token' = token
    BY DEF Publish, Return, Goto, BaseInv, TypeOK
  <1>2. \A k \in LeaseId : leases'[o][k] = IF k = l THEN GrantsOf(acq[o]) ELSE leases[o][k]
    BY DEF Publish, BaseInv, TypeOK
  <1>3. Held(o) \cup GrantsOf(acq[o]) \subseteq Held(o)'
    <2>1. GrantsOf(acq[o]) \subseteq Held(o)'
      BY <1>2 DEF Held
    <2>2. ASSUME NEW g \in Held(o) PROVE g \in Held(o)'
      <3>1. PICK k \in LeaseId : g \in leases[o][k]
        BY <2>2 DEF Held
      <3>2. k # l
        BY <3>1 DEF Publish
      <3> QED
        BY <1>2, <3>1, <3>2 DEF Held
    <2> QED
      BY <2>1, <2>2
  <1>4. ASSUME NEW s \in Slot, token[s].owner = o
        PROVE  [slot |-> s, kind |-> token[s].kind] \in Held(o) \cup GrantsOf(acq[o])
    BY <1>4 DEF Explained, GrantsOf
  <1> QED
    BY <1>1, <1>3, <1>4 DEF Explained

\* Every step of an owner that stays alive.
LEMMA ExplainedStep ==
    ASSUME BaseInv, NEW o \in Owner, OwnerStep(o), ~Crash(o), OwnOK(o), Explained(o)
    PROVE  Explained(o)'
  <1>1. /\ token \in [Slot -> Cell] /\ pc \in [Owner -> PC] /\ acq \in [Owner -> SUBSET Change]
    BY DEF BaseInv, TypeOK
  <1>2. pc[o] \in Taking => Target(o) \in Slot /\ Req(o) \in Request
    BY TargetType, ReqType DEF BaseInv, Taking
  <1>3. CASE TakeRead(o)
    <2> DEFINE c == token[Target(o)]
    <2>1. Target(o) \in Slot /\ Req(o) \in Request /\ pc[o] \in Taking
      BY <1>2, <1>3 DEF TakeRead, Taking
    <2>2. c.stale \in BOOLEAN /\ token' = token /\ leases' = leases /\ batch' = batch
      BY <1>1, <1>3, <2>1 DEF TakeRead, Cell
    <2>3. Held(o)' = Held(o)
      BY <2>2 DEF Held
    <2>4. CASE Acquired(o, "reentrant", c.stale)
      BY <2>1, <2>2, <2>4, AcquiredExplained
    <2>5. CASE UNCHANGED <<idx, acq, side>> /\ pc'[o] # "upgrade"
      BY <2>2, <2>3, <2>5, ExplainedMove
    <2>6. CASE UNCHANGED <<idx, acq, side>> /\ ~AtLeast(c.kind, Req(o).kind)
      <3>1. Req(o)' = Req(o) /\ Req(o).kind = "T"
        BY <2>2, <2>6 DEF Req, AtLeast
      <3> QED
        BY <2>2, <2>3, <2>6, <3>1, ExplainedMove
    <2> QED
      BY <1>1, <1>3, <2>4, <2>5, <2>6 DEF TakeRead, Fail, Goto
  <1>4. CASE Upgrade(o)
    <2>1. Target(o) \in Slot /\ Req(o) \in Request /\ pc[o] \in Taking
      BY <1>2, <1>4 DEF Upgrade, Taking
    <2>2. token[Target(o)].owner = o /\ token[Target(o)].kind = "E" /\ Req(o).kind = "T"
      BY <1>4 DEF Upgrade, OwnOK, Explained
    <2>3. /\ Acquired(o, "upgraded", token[Target(o)].stale) /\ leases' = leases
          /\ token' = [token EXCEPT ![Target(o)] = Fresh(token[Target(o)], o, "T")]
          /\ token[Target(o)].stale \in BOOLEAN
      BY <1>1, <1>4, <2>1, <2>2 DEF Upgrade, Cell
    <2>4. [slot |-> Target(o), kind |-> "E"] \in Held(o)
      <3>1. ~\E a \in acq[o] : a.slot = Target(o)
        BY <2>1, TargetNew
      <3> QED
        BY <2>1, <2>2, <3>1 DEF Explained
    <2>5. token'[Target(o)].kind = Req(o).kind /\ \A s \in Slot \ {Target(o)} : token'[s] = token[s]
      BY <1>1, <2>1, <2>2, <2>3 DEF Fresh
    <2>6. \A s \in Slot : token'[s].owner = o =>
             \/ token[s].owner = o /\ token'[s].kind = token[s].kind
             \/ s = Target(o) /\ token'[s].kind = Req(o).kind /\ "upgraded" # "reentrant"
      BY <2>5
    <2> QED
      BY <2>1, <2>3, <2>4, <2>6, AcquiredExplained
  <1>5. CASE Create(o)
    <2>1. Target(o) \in Slot /\ Req(o) \in Request /\ pc[o] \in Taking
      BY <1>2, <1>5 DEF Create, Taking
    <2>2. leases' = leases /\ Held(o)' = Held(o)
      BY <1>5 DEF Create, Held
    <2>3. CASE /\ token' = [token EXCEPT ![Target(o)] = EmptyFile(o)]
               /\ pc'[o] = "write" /\ acq' = acq
      <3>1. EmptyFile(o).owner # o
        BY OwnerAssumption DEF EmptyFile
      <3>2. \A s \in Slot : token'[s].owner = o => token'[s] = token[s]
        BY <1>1, <2>1, <2>3, <3>1
      <3> QED
        BY <2>2, <2>3, <3>2, ExplainedMove
    <2>4. CASE /\ token' = [token EXCEPT ![Target(o)] = Fresh(token[Target(o)], o, Req(o).kind)]
               /\ Acquired(o, "created", FALSE)
      <3>1. token'[Target(o)].kind = Req(o).kind /\ \A s \in Slot \ {Target(o)} : token'[s] = token[s]
        BY <1>1, <2>1, <2>4 DEF Fresh
      <3>2. \A s \in Slot : token'[s].owner = o =>
               \/ token[s].owner = o /\ token'[s].kind = token[s].kind
               \/ s = Target(o) /\ token'[s].kind = Req(o).kind /\ "created" # "reentrant"
        BY <3>1
      <3> QED
        BY <2>1, <2>2, <2>4, <3>2, AcquiredExplained
    <2>5. CASE pc'[o] = "rollback" /\ UNCHANGED <<token, acq>>
      BY <2>2, <2>5, ExplainedMove
    <2> QED
      BY <1>1, <1>5, <2>3, <2>4, <2>5 DEF Create, Fail, Goto
  <1>6. CASE Write(o)
    <2>1. Target(o) \in Slot /\ Req(o) \in Request /\ pc[o] \in Taking
      BY <1>2, <1>6 DEF Write, Taking
    <2>2. token[Target(o)] = EmptyFile(o) /\ Acquired(o, "created", FALSE) /\ leases' = leases
      BY <1>6 DEF Write, OwnOK
    <2>3. token' = [token EXCEPT ![Target(o)] = Fresh(token[Target(o)], o, Req(o).kind)]
      BY <1>1, <1>6, <2>1, <2>2 DEF Write, EmptyFile
    <2>4. token'[Target(o)].kind = Req(o).kind /\ \A s \in Slot \ {Target(o)} : token'[s] = token[s]
      BY <1>1, <2>1, <2>3 DEF Fresh
    <2>5. \A s \in Slot : token'[s].owner = o =>
             \/ token[s].owner = o /\ token'[s].kind = token[s].kind
             \/ s = Target(o) /\ token'[s].kind = Req(o).kind /\ "created" # "reentrant"
      BY <2>4
    <2> QED
      BY <2>1, <2>2, <2>5, AcquiredExplained
  <1> QED
    BY <1>3, <1>4, <1>5, <1>6, QuietExplained, RollbackExplained, PublishExplained, ReleaseExplained
    DEF OwnerStep, AcquireStep

-----------------------------------------------------------------------------
(* The invariant *)

\* No token has an owner at first.
LEMMA NoneLeftInit == Init => NoneLeft
  <1> SUFFICES ASSUME Init, NEW o \in Owner PROVE Explained(o)
    BY DEF NoneLeft
  <1>1. (\A s \in Slot : token[s].owner # o) /\ acq[o] = {} /\ pc[o] = "idle"
    BY OwnerAssumption DEF Init, NoToken
  <1> QED
    BY <1>1 DEF Explained

\* Every step of the system keeps the tokens explained.
LEMMA NoneLeftStep == IInv /\ NoneLeft /\ [Next]_vars => NoneLeft'
  <1> SUFFICES ASSUME IInv, NoneLeft, [Next]_vars, ~torn',
                      NEW q \in Owner, q \notin lapsed', q \notin Dead'
               PROVE  Explained(q)'
    BY DEF NoneLeft
  <1>1. BaseInv /\ Exclusive
    BY DEF IInv
  <1>2. CASE \E o \in Owner : OwnerStep(o)
    <2>1. PICK o \in Owner : OwnerStep(o)
      BY <1>2
    <2>2. ~torn
      BY <1>1, <2>1, TornStays DEF BaseInv
    <2>3. q \notin lapsed /\ q \notin Dead
      BY <1>1, <2>1, DeadGrows, Frame DEF BaseInv
    <2>4. OwnOK(q) /\ Explained(q)
      BY <1>1, <2>2, <2>3 DEF Exclusive, NoneLeft
    <2>5. CASE q = o
      <3>1. ~Crash(o)
        BY <1>1, <2>5 DEF Crash, Dead, BaseInv, TypeOK
      <3> QED
        BY <1>1, <2>1, <2>4, <2>5, <3>1, ExplainedStep
    <2>6. CASE q # o
      BY <1>1, <2>1, <2>4, <2>6, ExplainedFrame
    <2> QED
      BY <2>5, <2>6
  <1>3. CASE (\E s \in Slot : Expire(s)) \/ (\E p \in Path : Mkdir(p)) \/ UNCHANGED vars
    <2>1. acqVars' = acqVars /\ leases' = leases /\ lapsed \subseteq lapsed' /\ torn' = torn
      BY <1>3 DEF Expire, Mkdir, vars, acqVars
    <2>2. \A s \in Slot : token'[s].owner = token[s].owner /\ token'[s].kind = token[s].kind
      <3>1. token \in [Slot -> Cell]
        BY <1>1 DEF BaseInv, TypeOK
      <3> QED
        BY <1>3, <3>1 DEF Expire, Mkdir, vars, Cell
    <2>3. q \notin lapsed /\ q \notin Dead /\ ~torn
      BY <2>1 DEF Dead, acqVars
    <2>4. Explained(q)
      BY <2>3 DEF NoneLeft
    <2>5. Held(q)' = Held(q) /\ acq'[q] = acq[q] /\ pc'[q] = pc[q] /\ Req(q)' = Req(q)
      BY <2>1 DEF Held, Req, acqVars
    <2> QED
      BY <2>2, <2>4, <2>5, ExplainedMove DEF Explained
  <1> QED
    BY <1>2, <1>3 DEF Next

\* TokensMatchLeases for every set of owners, paths, batches and leases: while
\* an owner's mutex is free its lock files are exactly those of its leases, of
\* the strongest kind they need.
THEOREM TokensMatch == Spec => []TokensMatchLeases
  <1>1. Init => IInv /\ NoneLeft
    BY BaseInit, ExclusiveInit, NoneLeftInit DEF IInv
  <1>2. IInv /\ NoneLeft /\ [Next]_vars => (IInv /\ NoneLeft)'
    <2> SUFFICES ASSUME IInv, NoneLeft, [Next]_vars PROVE IInv' /\ NoneLeft'
      OBVIOUS
    <2>1. BaseInv' /\ Exclusive'
      BY BaseStep, ExclusiveStep DEF IInv
    <2> QED
      BY <2>1, NoneLeftStep DEF IInv
  <1>3. IInv /\ NoneLeft => TokensMatchLeases
    <2> SUFFICES ASSUME IInv, NoneLeft, NEW o \in Owner, o \notin lapsed \cup Dead,
                        MutexFree(o), ~torn
                 PROVE  /\ \A g \in Held(o) : Backed(o, g)
                        /\ \A s \in Slot : token[s].owner = o =>
                             [slot |-> s, kind |-> token[s].kind] \in Held(o)
      BY DEF TokensMatchLeases
    <2>1. OwnOK(o) /\ Explained(o)
      BY DEF IInv, Exclusive, NoneLeft
    <2>2. acq[o] = {}
      BY DEF MutexFree, IInv, BaseInv, LocalOK, Unlocked
    <2>3. \A g \in Held(o) : Backed(o, g)
      BY <2>1 DEF OwnOK, Placed
    <2> QED
      BY <2>1, <2>2, <2>3 DEF Explained
  <1> QED
    BY <1>1, <1>2, <1>3, PTL DEF Spec

===========================================================================
