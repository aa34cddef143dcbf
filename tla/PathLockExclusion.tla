------------------------ MODULE PathLockExclusion ------------------------
(* Proof that the check, write, check again protocol excludes: MutualExclusion *)
(* from the inductive invariant IInv.                                          *)
EXTENDS PathLockProofs

-----------------------------------------------------------------------------
(* An owner that never lapsed keeps its tokens *)

\* The token at s is o's, or the empty file o is about to fill.
Mine(o, s) == token[s].owner = o \/ (pc[o] = "write" /\ token[s] = EmptyFile(o))

\* Removals aim at owners that lapsed or crashed; whatever else is destroyed
\* sets torn.
LEMMA OthersKeep ==
    ASSUME BaseInv, NEW o \in Owner, NEW q \in Owner, OwnerStep(o), q # o,
           q \notin lapsed \cup Dead, ~torn', NEW s \in Slot, Mine(q, s)
    PROVE  token'[s] = token[s]
  <1> USE DEF BaseInv
  <1>1. token \in [Slot -> Cell] /\ token[s].owner \in {q, NoOwner} /\ q # NoOwner
    BY OwnerAssumption DEF Mine, EmptyFile, TypeOK
  <1>2. pc[o] \in Evicting => victim[o] # q /\ victim[o] # NoOwner
    BY OwnerAssumption DEF TokenOK, Evicting, Dead, TypeOK
  <1>3. token[s].kind # "none" /\ (token[s].kind = "empty" => ~token[s].stale /\ token[s].file = q)
        /\ (IsToken(token[s]) => token[s].owner = q) /\ (~IsToken(token[s]) => token[s].kind = "empty")
    BY <1>1 DEF Mine, EmptyFile, TokenOK, IsToken, Kind, TypeOK, Cell
  <1>4. token[s].owner # o /\ (IsToken(token[s]) => token[s].owner = q)
    BY <1>1, <1>3, OwnerAssumption
  <1>5. CASE Stat(o)
    BY <1>5 DEF Stat
  <1>6. CASE EnsureLockDir(o)
    BY <1>6 DEF EnsureLockDir
  <1>7. CASE TakeRead(o)
    BY <1>7 DEF TakeRead
  <1>8. CASE Upgrade(o)
    BY <1>8, <1>1, <1>4 DEF Upgrade
  <1>9. CASE \E x \in Slot : CheckRead(o, x)
    BY <1>9 DEF CheckRead
  <1>10. CASE TakeRemove(o)
    BY <1>10, <1>1, <1>2 DEF TakeRemove, RemoveToken, Evicting
  <1>11. CASE TakeUnlink(o)
    BY <1>11, <1>1, <1>2, <1>3 DEF TakeUnlink, UnlinkToken, Evicting
  <1>12. CASE Create(o)
    BY <1>12, <1>1, <1>3 DEF Create
  <1>13. CASE Write(o)
    BY <1>13, <1>1, <1>3 DEF Write
  <1>14. CASE VerifyNext(o)
    BY <1>14 DEF VerifyNext
  <1>15. CASE \E l \in LeaseId : Publish(o, l)
    BY <1>15 DEF Publish
  <1>16. CASE Rollback(o)
    BY <1>16, <1>1, <1>4 DEF Rollback
  <1>17. CASE RolledBack(o)
    BY <1>17 DEF RolledBack
  <1>18. CASE CleanRead(o)
    BY <1>18 DEF CleanRead
  <1>19. CASE Sweep(o)
    BY <1>19, <1>1, <1>2 DEF Sweep, RemoveToken, Evicting
  <1>20. CASE SweepUnlink(o)
    BY <1>20, <1>1, <1>2, <1>3 DEF SweepUnlink, UnlinkToken, Evicting
  <1>21. CASE Retry(o)
    BY <1>21 DEF Retry
  <1>22. CASE \E b \in Batches, c \in LeaseId \cup {0} : Begin(o, b, c)
    BY <1>22 DEF Begin
  <1>23. CASE TimeOut(o)
    BY <1>23 DEF TimeOut
  <1>24. CASE \E l \in LeaseId, sel \in SUBSET Slot : ReleaseStart(o, l, sel)
    BY <1>24 DEF ReleaseStart
  <1>25. CASE \E x \in Slot : ReleasePath(o, x)
    BY <1>25, <1>1, <1>4 DEF ReleasePath
  <1>26. CASE \E x \in Slot : Refresh(o, x)
    BY <1>26, <1>1, <1>4 DEF Refresh
  <1>27. CASE Crash(o)
    BY <1>27 DEF Crash
  <1> QED
    BY <1>5, <1>6, <1>7, <1>8, <1>9, <1>10, <1>11, <1>12, <1>13, <1>14,
       <1>15, <1>16, <1>17, <1>18, <1>19, <1>20, <1>21, <1>22, <1>23, <1>24, <1>25, <1>26, <1>27 DEF OwnerStep, AcquireStep

\* The damage of a torn token is never forgotten.
LEMMA TornStays ==
    ASSUME TypeOK, NEW o \in Owner, OwnerStep(o), ~torn'
    PROVE  ~torn
  <1>1. CASE Stat(o)
    BY <1>1 DEF Stat
  <1>2. CASE EnsureLockDir(o)
    BY <1>2 DEF EnsureLockDir
  <1>3. CASE TakeRead(o)
    BY <1>3 DEF TakeRead
  <1>4. CASE Upgrade(o)
    BY <1>4 DEF Upgrade
  <1>5. CASE \E s \in Slot : CheckRead(o, s)
    BY <1>5 DEF CheckRead
  <1>6. CASE TakeRemove(o)
    BY <1>6 DEF TakeRemove
  <1>7. CASE TakeUnlink(o)
    BY <1>7 DEF TakeUnlink, UnlinkToken
  <1>8. CASE Create(o)
    BY <1>8 DEF Create
  <1>9. CASE Write(o)
    BY <1>9 DEF Write
  <1>10. CASE VerifyNext(o)
    BY <1>10 DEF VerifyNext
  <1>11. CASE \E l \in LeaseId : Publish(o, l)
    BY <1>11 DEF Publish
  <1>12. CASE Rollback(o)
    BY <1>12 DEF Rollback
  <1>13. CASE RolledBack(o)
    BY <1>13 DEF RolledBack
  <1>14. CASE CleanRead(o)
    BY <1>14 DEF CleanRead
  <1>15. CASE Sweep(o)
    BY <1>15 DEF Sweep
  <1>16. CASE SweepUnlink(o)
    BY <1>16 DEF SweepUnlink, UnlinkToken
  <1>17. CASE Retry(o)
    BY <1>17 DEF Retry
  <1>18. CASE \E b \in Batches, c \in LeaseId \cup {0} : Begin(o, b, c)
    BY <1>18 DEF Begin
  <1>19. CASE TimeOut(o)
    BY <1>19 DEF TimeOut
  <1>20. CASE \E l \in LeaseId, sel \in SUBSET Slot : ReleaseStart(o, l, sel)
    BY <1>20 DEF ReleaseStart, acqVars
  <1>21. CASE \E s \in Slot : ReleasePath(o, s)
    BY <1>21 DEF ReleasePath, acqVars
  <1>22. CASE \E s \in Slot : Refresh(o, s)
    BY <1>22 DEF Refresh, acqVars
  <1>23. CASE Crash(o)
    BY <1>23 DEF Crash
  <1> QED
    BY <1>1, <1>2, <1>3, <1>4, <1>5, <1>6, <1>7, <1>8, <1>9, <1>10,
       <1>11, <1>12, <1>13, <1>14, <1>15, <1>16, <1>17, <1>18, <1>19, <1>20, <1>21, <1>22, <1>23 DEF OwnerStep, AcquireStep

\* A step of another owner leaves OwnOK(q) alone.
LEMMA OwnFrame ==
    ASSUME BaseInv, NEW o \in Owner, NEW q \in Owner, OwnerStep(o), q # o,
           q \notin lapsed, ~torn', OwnOK(q)
    PROVE  OwnOK(q)'
  <1>1. SameLocals(q)
    BY Frame DEF BaseInv
  <1>2. Held(q)' = Held(q) /\ Placed(q)' = Placed(q) /\ Target(q)' = Target(q)
    BY <1>1 DEF SameLocals, Held, Placed, Target, Req, GrantsOf
  <1>3. CASE pc[q] = "dead"
    <2>1. Placed(q) = {} /\ acq[q] = {}
      BY <1>3 DEF BaseInv, LocalOK, Placed, GrantsOf, Unlocked
    <2> QED
      BY <1>1, <1>2, <1>3, <2>1 DEF OwnOK, SameLocals
  <1>4. CASE pc[q] # "dead"
    <2>1. q \notin lapsed \cup Dead
      BY <1>4 DEF Dead
    <2>2. \A g \in Placed(q) : g.slot \in Slot
      BY DEF Placed, Held, GrantsOf, BaseInv, TypeOK, Grant, Change
    <2>3. \A g \in Placed(q) : Backed(q, g)'
      BY <1>2, <2>1, <2>2, OthersKeep DEF OwnOK, Backed, Mine
    <2>4. pc[q] \in Taking => Target(q) \in Slot
      BY TargetType DEF BaseInv
    <2>5. pc'[q] = "write" => token'[Target(q)] = EmptyFile(q)
      BY <1>1, <2>1, <2>4, OthersKeep DEF OwnOK, Mine, SameLocals, Taking
    <2>6. pc'[q] = "upgrade" => token'[Target(q)].owner = q /\ token'[Target(q)].kind = "E"
      BY <1>1, <2>1, <2>4, OthersKeep DEF OwnOK, Mine, SameLocals, Taking
    <2>7. acq'[q] = acq[q]
      BY <1>1 DEF SameLocals
    <2> QED
      BY <1>2, <2>3, <2>5, <2>6, <2>7 DEF OwnOK
  <1> QED
    BY <1>3, <1>4

\* A grant an owner placed names a lock file, and the token there is a token.
LEMMA PlacedType ==
    ASSUME BaseInv, NEW o \in Owner, NEW g \in Placed(o)
    PROVE  g \in Grant /\ g.slot \in Slot /\ WellPlaced(g)
  <1>1. g \in Grant /\ g.slot \in Slot
    BY DEF Placed, Held, GrantsOf, BaseInv, TypeOK, Grant, Change
  <1>2. WellPlaced(g)
    BY DEF Placed, GrantsOf, BaseInv, LocalOK
  <1> QED
    BY <1>1, <1>2

\* The owner places nothing new, and its tokens keep owner and kind.
LEMMA OwnMove ==
    ASSUME BaseInv, NEW o \in Owner, OwnOK(o),
           Held(o)' \subseteq Placed(o),
           acq'[o] = {} \/ (acq'[o] = acq[o] /\ Held(o)' \subseteq Held(o)),
           pc'[o] \notin {"write", "upgrade"},
           \A s \in Slot : token[s].owner = o =>
             token'[s].owner = o /\ token'[s].kind = token[s].kind
    PROVE  OwnOK(o)'
  <1>1. Placed(o)' \subseteq Placed(o)
    BY DEF Placed, GrantsOf
  <1>2. \A g \in Placed(o)' : Backed(o, g)'
    BY <1>1, PlacedType DEF OwnOK, Backed
  <1>3. \A a \in acq'[o], g \in Held(o)' : a.slot = g.slot =>
          a.how # "created" /\ (a.how = "upgraded" => g.kind = "E")
    BY DEF OwnOK
  <1> QED
    BY <1>2, <1>3 DEF OwnOK

\* The end of one request: its token is in place, next to those of the others.
LEMMA AcquiredOwn ==
    ASSUME BaseInv, NEW o \in Owner, OwnOK(o), pc[o] \in Taking,
           NEW h \in {"created", "reentrant", "upgraded"}, NEW w \in BOOLEAN,
           Acquired(o, h, w), leases' = leases,
           \A g \in Placed(o) : Backed(o, g)',
           token'[Target(o)].owner = o, AtLeast(token'[Target(o)].kind, Req(o).kind),
           \A g \in Held(o) : g.slot = Target(o) =>
             h # "created" /\ (h = "upgraded" => g.kind = "E")
    PROVE  OwnOK(o)'
  <1> DEFINE c == [i |-> idx[o], slot |-> Target(o), kind |-> Req(o).kind,
                   how |-> h, was |-> w]
  <1>1. acq'[o] = acq[o] \cup {c} /\ Held(o)' = Held(o)
    BY DEF Acquired, BaseInv, TypeOK, Held
  <1>2. pc'[o] \in {"check", "verify"}
    BY DEF Acquired, BaseInv, TypeOK, Goto
  <1>3. \A g \in Placed(o)' : g \in Placed(o) \/ g = [slot |-> Target(o), kind |-> Req(o).kind]
    BY <1>1 DEF Placed, GrantsOf
  <1>4. \A g \in Placed(o)' : Backed(o, g)'
    BY <1>3 DEF Backed
  <1>5. \A a \in acq'[o], g \in Held(o)' : a.slot = g.slot =>
          a.how # "created" /\ (a.how = "upgraded" => g.kind = "E")
    <2>1. c.slot = Target(o) /\ c.how = h
      OBVIOUS
    <2> HIDE DEF c
    <2> QED
      BY <1>1, <2>1 DEF OwnOK
  <1> QED
    BY <1>2, <1>4, <1>5 DEF OwnOK

\* Any step of the owner keeps its tokens in place.
LEMMA OwnStep ==
    ASSUME BaseInv, NEW o \in Owner, OwnerStep(o), o \notin lapsed, ~torn', OwnOK(o)
    PROVE  OwnOK(o)'
  <1>1. /\ token \in [Slot -> Cell] /\ pc \in [Owner -> PC] /\ acq \in [Owner -> SUBSET Change]
        /\ leases \in [Owner -> [LeaseId -> SUBSET Grant]]
    BY DEF BaseInv, TypeOK
  <1>2. pc[o] \in Taking => Target(o) \in Slot /\ Req(o) \in Request
    BY TargetType, ReqType DEF BaseInv, Taking
  <1>3. Held(o) \subseteq Placed(o) /\ \A g \in Placed(o) : g.slot \in Slot
    BY PlacedType DEF Placed
  <1>4. \A s \in Slot : token[s].owner = o => IsToken(token[s])
    BY OwnerAssumption DEF BaseInv, TokenOK
  <1>5. \A g \in Placed(o) : Backed(o, g)
    BY DEF OwnOK
  <1>6. LocalOK(o) /\ TokenOK
    BY DEF BaseInv
  <1>7. CASE Stat(o)
    <2>1. Held(o)' = Held(o) /\ (acq'[o] = acq[o] \/ acq'[o] = {}) /\ token' = token
      BY <1>7, <1>1 DEF Stat, Held
    <2>2. pc'[o] \notin {"write", "upgrade"}
      BY <1>7, <1>1, <1>6 DEF Stat
    <2> QED
      BY <1>3, <2>1, <2>2, OwnMove
  <1>8. CASE EnsureLockDir(o)
    <2>1. Held(o)' = Held(o) /\ (acq'[o] = acq[o] \/ acq'[o] = {}) /\ token' = token
      BY <1>8, <1>1 DEF EnsureLockDir, Held, Goto
    <2>2. pc'[o] \notin {"write", "upgrade"}
      BY <1>8, <1>1, <1>6 DEF EnsureLockDir, Goto
    <2> QED
      BY <1>3, <2>1, <2>2, OwnMove
  <1>9. CASE TakeRead(o)
    <2> DEFINE c == token[Target(o)]
    <2>1. Target(o) \in Slot /\ Req(o) \in Request /\ pc[o] \in Taking
      BY <1>9, <1>2 DEF TakeRead, Taking
    <2>2. CASE /\ IsToken(c) /\ c.owner = o /\ AtLeast(c.kind, Req(o).kind)
               /\ Acquired(o, "reentrant", c.stale)
      <3>1. c.stale \in BOOLEAN /\ token' = token /\ leases' = leases
        BY <1>9, <1>1, <2>1 DEF TakeRead, Cell
      <3>2. \A g \in Placed(o) : Backed(o, g)'
        BY <1>5, <3>1 DEF Backed
      <3> QED
        BY <2>1, <2>2, <3>1, <3>2, AcquiredOwn
    <2>3. CASE UNCHANGED <<idx, acq, side>> /\ pc'[o] \in {"rollback", "create", "remove"}
      <3>1. Held(o)' = Held(o) /\ acq'[o] = acq[o] /\ token' = token
        BY <1>9, <2>3 DEF TakeRead, Held
      <3> QED
        BY <1>3, <2>3, <3>1, OwnMove
    <2>4. CASE UNCHANGED <<idx, acq, side>> /\ pc'[o] = "upgrade"
               /\ IsToken(c) /\ c.owner = o /\ ~AtLeast(c.kind, Req(o).kind)
      <3>1. Held(o)' = Held(o) /\ acq'[o] = acq[o] /\ token' = token /\ Target(o)' = Target(o)
            /\ Placed(o)' = Placed(o)
        BY <1>9, <2>4 DEF TakeRead, Held, Target, Req, Placed
      <3>2. c.kind = "E"
        BY <2>4 DEF AtLeast, IsToken, Kind
      <3> QED
        BY <2>4, <3>1, <3>2 DEF OwnOK, Backed
    <2> QED
      BY <1>9, <1>1, <2>2, <2>3, <2>4 DEF TakeRead, Fail, Goto
  <1>10. CASE Upgrade(o)
    <2>1. Target(o) \in Slot /\ Req(o) \in Request /\ pc[o] \in Taking
      BY <1>10, <1>2 DEF Upgrade, Taking
    <2>2. token[Target(o)].owner = o /\ token[Target(o)].kind = "E"
      BY <1>10 DEF Upgrade, OwnOK
    <2>3. /\ Acquired(o, "upgraded", token[Target(o)].stale) /\ leases' = leases
          /\ token' = [token EXCEPT ![Target(o)] = Fresh(@, o, "T")]
          /\ token[Target(o)].stale \in BOOLEAN
      BY <1>10, <1>1, <2>1, <2>2 DEF Upgrade, Cell
    <2>4. token'[Target(o)].owner = o /\ token'[Target(o)].kind = "T"
      BY <1>1, <2>1, <2>3 DEF Fresh
    <2>5. \A s \in Slot \ {Target(o)} : token'[s] = token[s]
      BY <1>1, <2>3
    <2>6. \A g \in Placed(o) : Backed(o, g)'
      BY <1>3, <1>5, <2>4, <2>5 DEF Backed, AtLeast
    <2>7. \A g \in Held(o) : g.slot = Target(o) => g.kind = "E"
      <3>1. \A g \in Held(o) : g.kind \in Kind
        BY <1>1 DEF Held, Grant
      <3> QED
        BY <1>3, <1>5, <2>2, <3>1 DEF Backed, AtLeast, Kind
    <2> QED
      BY <2>1, <2>3, <2>4, <2>6, <2>7, AcquiredOwn DEF AtLeast
  <1>11. CASE \E s \in Slot : CheckRead(o, s)
    <2>1. Held(o)' = Held(o) /\ (acq'[o] = acq[o] \/ acq'[o] = {}) /\ token' = token
      BY <1>11, <1>1 DEF CheckRead, Held, Fail, Goto
    <2>2. pc'[o] \notin {"write", "upgrade"}
      BY <1>11, <1>1, <1>6 DEF CheckRead, Fail, Goto
    <2> QED
      BY <1>3, <2>1, <2>2, OwnMove
  <1>12. CASE TakeRemove(o)
    <2>1. Held(o)' = Held(o) /\ (acq'[o] = acq[o] \/ acq'[o] = {})
      BY <1>12, <1>1 DEF TakeRemove, Held, Return
    <2>2. pc'[o] \notin {"write", "upgrade"}
      BY <1>12, <1>1 DEF TakeRemove, RemoveToken, Goto, Fail, Return
    <2>3. victim[o] # o
      BY <1>12, <1>6 DEF TakeRemove, TokenOK, Dead
    <2>4. \A s \in Slot : token[s].owner = o => token'[s] = token[s]
      BY <1>12, <1>1, <1>4, <2>3 DEF TakeRemove, RemoveToken, IsToken, Kind
    <2> QED
      BY <1>3, <2>1, <2>2, <2>4, OwnMove
  <1>13. CASE TakeUnlink(o)
    <2>1. Held(o)' = Held(o) /\ (acq'[o] = acq[o] \/ acq'[o] = {})
      BY <1>13, <1>1 DEF TakeUnlink, Held, Return
    <2>2. pc'[o] \notin {"write", "upgrade"}
      BY <1>13, <1>1 DEF TakeUnlink, UnlinkToken, Goto, Fail, Return
    <2>3. victim[o] # o
      BY <1>13, <1>6 DEF TakeUnlink, TokenOK, Dead
    <2>4. \A s \in Slot : token[s].owner = o => token'[s] = token[s]
      BY <1>13, <1>1, <1>4, <2>3 DEF TakeUnlink, UnlinkToken, IsToken, Kind
    <2> QED
      BY <1>3, <2>1, <2>2, <2>4, OwnMove
  <1>14. CASE Create(o)
    <2>1. Target(o) \in Slot /\ Req(o) \in Request /\ pc[o] \in Taking
      BY <1>14, <1>2 DEF Create, Taking
    <2>2. CASE ~IsToken(token[Target(o)])
      <3>1. \A g \in Placed(o) : g.slot # Target(o)
        BY <1>4, <1>5, <2>1, <2>2 DEF Backed
      <3>2. \A s \in Slot \ {Target(o)} : token'[s] = token[s]
        BY <1>14, <1>1 DEF Create
      <3>3. \A g \in Placed(o) : Backed(o, g)'
        BY <1>3, <1>5, <3>1, <3>2 DEF Backed
      <3>4. CASE token' = [token EXCEPT ![Target(o)] = EmptyFile(o)]
                 /\ Goto(o, "write") /\ UNCHANGED <<idx, todo, acq, side, conf, fatal>>
        <4>1. Held(o)' = Held(o) /\ acq'[o] = acq[o] /\ Target(o)' = Target(o)
              /\ Placed(o)' = Placed(o) /\ pc'[o] = "write" /\ token'[Target(o)] = EmptyFile(o)
          BY <1>14, <1>1, <2>1, <3>4 DEF Create, Held, Target, Req, Placed, Goto
        <4> QED
          BY <3>3, <4>1 DEF OwnOK
      <3>5. CASE token' = [token EXCEPT ![Target(o)] = Fresh(@, o, Req(o).kind)]
                 /\ Acquired(o, "created", FALSE)
        <4>1. token'[Target(o)].owner = o /\ token'[Target(o)].kind = Req(o).kind
          BY <1>1, <2>1, <3>5 DEF Fresh
        <4>2. leases' = leases
          BY <1>14 DEF Create
        <4> QED
          BY <1>3, <2>1, <3>1, <3>3, <3>5, <4>1, <4>2, AcquiredOwn DEF AtLeast
      <3>6. CASE pc'[o] = "rollback" /\ UNCHANGED <<token, idx, todo, acq, side>>
        <4>1. Held(o)' = Held(o)
          BY <1>14 DEF Create, Held
        <4> QED
          BY <1>3, <3>6, <4>1, OwnMove
      <3> QED
        BY <1>14, <1>1, <3>4, <3>5, <3>6 DEF Create, Fail, Goto
    <2>3. CASE IsToken(token[Target(o)])
      <3>1. pc'[o] = "rollback" /\ UNCHANGED <<token, acq, leases>>
        BY <1>14, <1>1, <2>3 DEF Create, Fail, Goto, IsToken, Kind, ReadFails
      <3>2. Held(o)' = Held(o)
        BY <3>1 DEF Held
      <3> QED
        BY <1>3, <3>1, <3>2, OwnMove
    <2> QED
      BY <2>2, <2>3
  <1>15. CASE Write(o)
    <2>1. Target(o) \in Slot /\ Req(o) \in Request /\ pc[o] \in Taking
      BY <1>15, <1>2 DEF Write, Taking
    <2>2. token[Target(o)] = EmptyFile(o) /\ Acquired(o, "created", FALSE) /\ leases' = leases
      BY <1>15 DEF Write, OwnOK
    <2>3. token' = [token EXCEPT ![Target(o)] = Fresh(@, o, Req(o).kind)]
      BY <1>15, <1>1, <2>1, <2>2 DEF Write, EmptyFile
    <2>4. token'[Target(o)].owner = o /\ token'[Target(o)].kind = Req(o).kind
      BY <1>1, <2>1, <2>3 DEF Fresh
    <2>5. \A g \in Placed(o) : g.slot # Target(o)
      BY <1>5, <2>2, OwnerAssumption DEF Backed, EmptyFile
    <2>6. \A g \in Placed(o) : Backed(o, g)'
      BY <1>1, <1>3, <1>5, <2>3, <2>5 DEF Backed
    <2> QED
      BY <1>3, <2>1, <2>2, <2>4, <2>5, <2>6, AcquiredOwn DEF AtLeast
  <1>16. CASE VerifyNext(o)
    <2>1. Held(o)' = Held(o) /\ (acq'[o] = acq[o] \/ acq'[o] = {}) /\ token' = token
      BY <1>16, <1>1 DEF VerifyNext, Held
    <2>2. pc'[o] \notin {"write", "upgrade"}
      BY <1>16, <1>1, <1>6 DEF VerifyNext
    <2> QED
      BY <1>3, <2>1, <2>2, OwnMove
  <1>17. CASE \E l \in LeaseId : Publish(o, l)
    <2>1. Held(o)' \subseteq Placed(o) /\ acq'[o] = {} /\ token' = token
      BY <1>17, <1>1 DEF Publish, Return, Held, Placed
    <2>2. pc'[o] = "idle"
      BY <1>17, <1>1 DEF Publish, Return, Goto
    <2> QED
      BY <2>1, <2>2, OwnMove
  <1>18. CASE Rollback(o)
    <2>1. PICK a \in acq[o] :
            /\ acq' = [acq EXCEPT ![o] = @ \ {a}]
            /\ token' = [token EXCEPT ![a.slot] =
                 IF token[a.slot].owner = o /\ a.how = "created" THEN NoToken
                 ELSE IF token[a.slot].owner = o /\ a.how = "upgraded"
                      THEN [@ EXCEPT !.kind = "E", !.stale = a.was]
                 ELSE @]
      BY <1>18 DEF Rollback
    <2>2. a \in Change /\ a.slot \in Slot
      BY <1>1 DEF Change
    <2>3. acq'[o] = acq[o] \ {a} /\ Held(o)' = Held(o) /\ pc'[o] = "rollback"
      BY <1>18, <1>1, <2>1 DEF Rollback, Held
    <2>4. \A b \in acq'[o] : b.slot # a.slot
      <3> SUFFICES ASSUME NEW b \in acq[o], b.slot = a.slot PROVE b = a
        BY <2>3
      <3>1. /\ batch[o] \in Batches /\ a.i \in 1..Len(batch[o]) /\ b.i \in 1..Len(batch[o])
            /\ a.slot[1] = batch[o][a.i].path /\ b.slot[1] = batch[o][b.i].path
        BY <1>18, <1>6 DEF LocalOK, Rollback
      <3>2. a.i = b.i
        BY <3>1, BatchAssumption
      <3> QED
        BY <1>6, <3>2 DEF LocalOK
    <2>5. token[a.slot].owner = o
      <3>1. [slot |-> a.slot, kind |-> a.kind] \in Placed(o)
        BY DEF Placed, GrantsOf
      <3> QED
        BY <1>5, <3>1 DEF Backed
    <2>6. \A s \in Slot \ {a.slot} : token'[s] = token[s]
      BY <1>1, <2>1
    <2>7. \A g \in Held(o) : g.slot = a.slot => Backed(o, g)'
      <3> SUFFICES ASSUME NEW g \in Held(o), g.slot = a.slot PROVE Backed(o, g)'
        OBVIOUS
      <3>1. a.how # "created" /\ (a.how = "upgraded" => g.kind = "E")
        BY DEF OwnOK
      <3>2. CASE a.how = "upgraded"
        <4>1. token'[a.slot] = [token[a.slot] EXCEPT !.kind = "E", !.stale = a.was]
          BY <1>1, <2>1, <2>2, <2>5, <3>2
        <4>2. token'[a.slot].owner = o
          BY <1>1, <2>2, <2>5, <4>1 DEF Cell
        <4> QED
          BY <3>1, <3>2, <4>2 DEF Backed, AtLeast
      <3>3. CASE a.how = "reentrant"
        <4>1. token'[a.slot] = token[a.slot]
          BY <1>1, <2>1, <2>2, <3>3
        <4> QED
          BY <1>3, <1>5, <4>1 DEF Backed
      <3> QED
        BY <2>2, <3>1, <3>2, <3>3 DEF Change
    <2>8. \A g \in Placed(o)' : Backed(o, g)'
      <3> SUFFICES ASSUME NEW g \in Placed(o)' PROVE Backed(o, g)'
        OBVIOUS
      <3>1. g \in Placed(o)
        BY <2>3 DEF Placed, GrantsOf
      <3>2. g \in Held(o) \/ g.slot # a.slot
        BY <2>3, <2>4 DEF Placed, GrantsOf
      <3> QED
        BY <1>3, <1>5, <2>6, <2>7, <3>1, <3>2 DEF Backed
    <2>9. \A b \in acq'[o], g \in Held(o)' : b.slot = g.slot =>
            b.how # "created" /\ (b.how = "upgraded" => g.kind = "E")
      BY <2>3 DEF OwnOK
    <2> QED
      BY <2>3, <2>8, <2>9 DEF OwnOK
  <1>19. CASE RolledBack(o)
    <2>1. Held(o)' = Held(o) /\ (acq'[o] = acq[o] \/ acq'[o] = {}) /\ token' = token
      BY <1>19, <1>1 DEF RolledBack, Held, Return, Goto
    <2>2. pc'[o] \notin {"write", "upgrade"}
      BY <1>19, <1>1, <1>6 DEF RolledBack, Return, Goto
    <2> QED
      BY <1>3, <2>1, <2>2, OwnMove
  <1>20. CASE CleanRead(o)
    <2>1. Held(o)' = Held(o) /\ (acq'[o] = acq[o] \/ acq'[o] = {}) /\ token' = token
      BY <1>20, <1>1 DEF CleanRead, Held, Return, Goto
    <2>2. pc'[o] \notin {"write", "upgrade"}
      BY <1>20, <1>1, <1>6 DEF CleanRead, Return, Goto
    <2> QED
      BY <1>3, <2>1, <2>2, OwnMove
  <1>21. CASE Sweep(o)
    <2>1. Held(o)' = Held(o) /\ (acq'[o] = acq[o] \/ acq'[o] = {})
      BY <1>21, <1>1 DEF Sweep, Held, Return
    <2>2. pc'[o] \notin {"write", "upgrade"}
      BY <1>21, <1>1 DEF Sweep, RemoveToken, Goto, Fail, Return
    <2>3. victim[o] # o
      BY <1>21, <1>6 DEF Sweep, TokenOK, Dead
    <2>4. \A s \in Slot : token[s].owner = o => token'[s] = token[s]
      BY <1>21, <1>1, <1>4, <2>3 DEF Sweep, RemoveToken, IsToken, Kind
    <2> QED
      BY <1>3, <2>1, <2>2, <2>4, OwnMove
  <1>22. CASE SweepUnlink(o)
    <2>1. Held(o)' = Held(o) /\ (acq'[o] = acq[o] \/ acq'[o] = {})
      BY <1>22, <1>1 DEF SweepUnlink, Held, Return
    <2>2. pc'[o] \notin {"write", "upgrade"}
      BY <1>22, <1>1 DEF SweepUnlink, UnlinkToken, Goto, Fail, Return
    <2>3. victim[o] # o
      BY <1>22, <1>6 DEF SweepUnlink, TokenOK, Dead
    <2>4. \A s \in Slot : token[s].owner = o => token'[s] = token[s]
      BY <1>22, <1>1, <1>4, <2>3 DEF SweepUnlink, UnlinkToken, IsToken, Kind
    <2> QED
      BY <1>3, <2>1, <2>2, <2>4, OwnMove
  <1>23. CASE Retry(o)
    <2>1. Held(o)' = Held(o) /\ (acq'[o] = acq[o] \/ acq'[o] = {}) /\ token' = token
      BY <1>23, <1>1 DEF Retry, Held, Return, StartAttempt, Goto
    <2>2. pc'[o] \notin {"write", "upgrade"}
      BY <1>23, <1>1, <1>6 DEF Retry, Return, StartAttempt, Goto
    <2> QED
      BY <1>3, <2>1, <2>2, OwnMove
  <1>24. CASE \E b \in Batches, c \in LeaseId \cup {0} : Begin(o, b, c)
    <2>1. Held(o)' = Held(o) /\ (acq'[o] = acq[o] \/ acq'[o] = {}) /\ token' = token
      BY <1>24, <1>1 DEF Begin, Held, StartAttempt, Goto
    <2>2. pc'[o] \notin {"write", "upgrade"}
      BY <1>24, <1>1, <1>6 DEF Begin, StartAttempt, Goto
    <2> QED
      BY <1>3, <2>1, <2>2, OwnMove
  <1>25. CASE TimeOut(o)
    <2>1. Held(o)' = Held(o) /\ (acq'[o] = acq[o] \/ acq'[o] = {}) /\ token' = token
      BY <1>25, <1>1 DEF TimeOut, Held, Return, Goto
    <2>2. pc'[o] \notin {"write", "upgrade"}
      BY <1>25, <1>1, <1>6 DEF TimeOut, Return, Goto
    <2> QED
      BY <1>3, <2>1, <2>2, OwnMove
  <1>26. CASE \E l \in LeaseId, sel \in SUBSET Slot : ReleaseStart(o, l, sel)
    <2>1. Held(o)' = Held(o) /\ (acq'[o] = acq[o] \/ acq'[o] = {}) /\ token' = token
      BY <1>26, <1>1 DEF ReleaseStart, Held, acqVars, MutexFree
    <2>2. pc'[o] \notin {"write", "upgrade"}
      BY <1>26, <1>1, <1>6 DEF ReleaseStart, acqVars, MutexFree
    <2> QED
      BY <1>3, <2>1, <2>2, OwnMove
  <1>27. CASE \E s \in Slot : ReleasePath(o, s)
    <2>1. PICK s \in Slot : ReleasePath(o, s)
      BY <1>27
    <2>2. /\ rel[o] \in LeaseId /\ s \in Slots(leases[o][rel[o]]) /\ pc[o] \in Unlocked
          /\ acq[o] = {} /\ acq' = acq /\ pc' = pc
      BY <1>6, <2>1 DEF ReleasePath, LocalOK, acqVars, BaseInv, TypeOK
    <2>3. \A x \in Slot \ {s} : token'[x] = token[x]
      BY <1>1, <2>1 DEF ReleasePath
    <2>4. \A l \in LeaseId : leases'[o][l] \subseteq leases[o][l]
      BY <1>1, <2>1 DEF ReleasePath, DropGrant
    <2>5. Placed(o)' \subseteq Held(o) /\ Held(o)' \subseteq Held(o) /\ Held(o) = Placed(o)
      BY <2>2, <2>4 DEF Placed, Held, GrantsOf
    <2>6. token[s].owner = o
      <3>1. PICK g \in leases[o][rel[o]] : g.slot = s
        BY <2>2 DEF Slots
      <3>2. g \in Held(o)
        BY <2>2 DEF Held
      <3> QED
        BY <1>5, <2>5, <3>1, <3>2 DEF Backed
    <2>7. CASE LastRef(o, s)
      <3>1. ReleaseOutcome(o, s) = "ok"
        BY <2>6, <2>7 DEF ReleaseOutcome
      <3>2. leases'[o][rel[o]] = DropGrant(leases[o][rel[o]], s)
        BY <1>1, <2>1, <2>2, <3>1 DEF ReleasePath
      <3>3. \A l \in LeaseId : s \notin Slots(leases'[o][l])
        BY <2>4, <2>7, <3>2 DEF LastRef, Slots, DropGrant
      <3>4. \A g \in Held(o)' : g.slot # s
        BY <3>3 DEF Held, Slots
      <3>5. \A g \in Placed(o)' : Backed(o, g)'
        <4>1. Placed(o)' = Held(o)'
          BY <2>2 DEF Placed, GrantsOf
        <4> QED
          BY <1>3, <1>5, <2>3, <2>5, <3>4, <4>1 DEF Backed
      <3> QED
        BY <2>2, <3>5 DEF OwnOK, Unlocked
    <2>8. CASE ~LastRef(o, s) /\ MustDowngrade(o, s)
      <3>1. ReleaseOutcome(o, s) = "ok"
        BY <2>6, <2>8 DEF ReleaseOutcome
      <3>2. leases'[o][rel[o]] = DropGrant(leases[o][rel[o]], s)
        BY <1>1, <2>1, <2>2, <3>1 DEF ReleasePath
      <3>3. \A l \in LeaseId : ~KindIn(o, l, s, "T")'
        BY <2>4, <2>8, <3>2 DEF MustDowngrade, KindIn, DropGrant
      <3>4. ASSUME NEW g \in Held(o)', g.slot = s PROVE g.kind = "E"
        <4>1. PICK l \in LeaseId : g \in leases'[o][l]
          BY DEF Held
        <4>2. g \in Grant
          BY <1>1, <2>4, <4>1
        <4>3. g.kind \in Kind /\ g = [slot |-> g.slot, kind |-> g.kind]
          BY <4>2 DEF Grant
        <4> QED
          BY <3>3, <3>4, <4>1, <4>3 DEF KindIn, Kind
      <3>5. token'[s].owner = o
        <4>1. token'[s] = [token[s] EXCEPT !.kind = "E"]
          BY <1>1, <2>1, <2>6, <2>8 DEF ReleasePath
        <4> QED
          BY <1>1, <2>6, <4>1 DEF Cell
      <3>6. \A g \in Placed(o)' : Backed(o, g)'
        <4>1. Placed(o)' = Held(o)'
          BY <2>2 DEF Placed, GrantsOf
        <4>2. ASSUME NEW g \in Held(o)', g.slot = s PROVE Backed(o, g)'
          BY <3>4, <3>5, <4>2 DEF Backed, AtLeast
        <4>3. ASSUME NEW g \in Held(o)', g.slot # s PROVE Backed(o, g)'
          BY <1>3, <1>5, <2>3, <2>5, <4>3 DEF Backed
        <4> QED
          BY <4>1, <4>2, <4>3
      <3> QED
        BY <2>2, <3>6 DEF OwnOK, Unlocked
    <2>9. CASE ~LastRef(o, s) /\ ~MustDowngrade(o, s)
      <3>1. token' = token
        BY <1>1, <2>1, <2>9 DEF ReleasePath
      <3> QED
        BY <1>3, <2>2, <2>5, <3>1, OwnMove DEF Unlocked
    <2> QED
      BY <2>7, <2>8, <2>9
  <1>28. CASE \E s \in Slot : Refresh(o, s)
    <2>1. PICK s \in Slot : Refresh(o, s)
      BY <1>28
    <2>2. Held(o)' = Held(o) /\ acq' = acq /\ pc' = pc /\ pc[o] \notin {"write", "upgrade"}
      BY <2>1 DEF Refresh, acqVars, Held, MutexFree
    <2>3. \A x \in Slot : token'[x].owner = token[x].owner /\ token'[x].kind = token[x].kind
      <3>1. token'[s].owner = token[s].owner /\ token'[s].kind = token[s].kind
        BY <1>1, <2>1 DEF Refresh, Cell
      <3>2. \A x \in Slot \ {s} : token'[x] = token[x]
        BY <1>1, <2>1 DEF Refresh
      <3> QED
        BY <3>1, <3>2
    <2> QED
      BY <1>3, <2>2, <2>3, OwnMove
  <1>29. CASE Crash(o)
    <2>1. Held(o)' = {} /\ acq'[o] = {} /\ token' = token /\ pc'[o] = "dead"
      BY <1>29, <1>1 DEF Crash, Held
    <2> QED
      BY <2>1, OwnMove
  <1> QED
    BY <1>7, <1>8, <1>9, <1>10, <1>11, <1>12, <1>13, <1>14, <1>15, <1>16,
       <1>17, <1>18, <1>19, <1>20, <1>21, <1>22, <1>23, <1>24, <1>25, <1>26, <1>27, <1>28, <1>29 DEF OwnerStep, AcquireStep

-----------------------------------------------------------------------------
(* The second check *)

\* The checks of a request read the lock file of every conflicting grant: a
\* TREE grant above it is in the directory's own file, because only files
\* have their TREE token in a sidecar and nothing lies below a file.
LEMMA Covered ==
    ASSUME NEW g \in Grant, NEW h \in Grant, WellPlaced(h), Conflicts(g, h),
           NEW r \in Request, r.path = g.slot[1], r.kind = g.kind
    PROVE  h.slot \in CheckSlots(r)
  <1>1. /\ h.slot = <<h.slot[1], h.slot[2]>> /\ h.slot[1] \in Path /\ h.slot[2] \in Side
        /\ g.slot[1] \in Path /\ r.path \in Path
    BY DEF Grant, Slot, Request
  <1>2. CASE g.slot[1] = h.slot[1]
    BY <1>1, <1>2 DEF CheckSlots, OwnSlots
  <1>3. CASE g.kind = "T" /\ g.slot[1] \in Anc[h.slot[1]]
    BY <1>1, <1>3 DEF CheckSlots, DescSlots
  <1>4. CASE h.kind = "T" /\ h.slot[1] \in Anc[g.slot[1]]
    <2>1. h.slot[2] = "dir"
      BY <1>1, <1>4, TreeAssumption DEF WellPlaced, Side
    <2> QED
      BY <1>1, <1>4, <2>1 DEF CheckSlots, AncSlots
  <1> QED
    BY <1>2, <1>3, <1>4 DEF Conflicts

\* A conflicting token that is in place and not stale blocks the reader.
LEMMA BlockedBy ==
    ASSUME BaseInv, NEW o \in Owner, NEW q \in Owner, q # o,
           q \notin lapsed \cup Dead,
           NEW g \in Grant, NEW h \in Grant, Conflicts(g, h), Backed(q, h),
           NEW r \in Request, r.path = g.slot[1], r.kind = g.kind
    PROVE  Blocks(o, r, h.slot)
  <1>1. h.slot \in Slot /\ h.slot[1] \in Path /\ g.slot[1] \in Path /\ h.kind \in Kind
    BY DEF Grant, Slot
  <1>2. IsToken(token[h.slot]) /\ token[h.slot].owner = q /\ ~token[h.slot].stale
    BY <1>1, OwnerAssumption DEF BaseInv, TokenOK, Backed
  <1>3. h.slot \in AncSlots(r) => h.kind = "T"
    <2> SUFFICES ASSUME h.slot \in AncSlots(r) PROVE h.kind = "T"
      OBVIOUS
    <2>1. h.slot[1] \in Anc[g.slot[1]]
      BY DEF AncSlots
    <2>2. g.slot[1] # h.slot[1] /\ g.slot[1] \notin Anc[h.slot[1]]
      BY <1>1, <2>1, TreeAssumption
    <2> QED
      BY <2>2 DEF Conflicts
  <1>4. h.slot \in AncSlots(r) => token[h.slot].kind = "T"
    BY <1>3 DEF Backed, AtLeast
  <1> QED
    BY <1>2, <1>4 DEF Blocks, IsStale

\* Who has cleared a grant has placed it, and is alive.
LEMMA ClearedPlaced ==
    ASSUME BaseInv, NEW q \in Owner, NEW h, NEW s, Cleared(q, h, s)
    PROVE  h \in Placed(q) /\ pc[q] # "dead"
  <1>1. h \in Placed(q)
    BY DEF Cleared, Placed, GrantsOf
  <1>2. pc[q] # "dead"
    BY DEF Cleared, BaseInv, LocalOK
  <1> QED
    BY <1>1, <1>2

\* The request at index i of o's batch is the one change a is for.
LEMMA ChangeReq ==
    ASSUME BaseInv, NEW o \in Owner, pc[o] \notin {"idle", "dead"}, NEW a \in acq[o]
    PROVE  /\ a.i \in 1..Len(batch[o]) /\ batch[o][a.i] \in Request
           /\ batch[o][a.i].path = a.slot[1] /\ batch[o][a.i].kind = a.kind
           /\ [slot |-> a.slot, kind |-> a.kind] \in Grant
  <1>1. LocalOK(o) /\ TypeOK /\ a \in Change
    BY DEF BaseInv, TypeOK
  <1>2. /\ a.i \in 1..Len(batch[o]) /\ batch[o][a.i].path = a.slot[1]
        /\ batch[o][a.i].kind = a.kind
    BY <1>1 DEF LocalOK
  <1>3. \A i \in 1..Len(batch[o]) : batch[o][i] \in Request
    BY <1>1, ReqType
  <1> QED
    BY <1>1, <1>2, <1>3 DEF Change, Grant

\* A grant that verification has just cleared against a conflicting one was
\* cleared before: the read that clears it would have met the token.
LEMMA ClearedStep ==
    ASSUME BaseInv, BaseInv', NEW o \in Owner, NEW q \in Owner, q # o, OwnerStep(o),
           q \notin lapsed, OwnOK(q),
           NEW g \in Grant, NEW h \in Grant, Conflicts(g, h),
           Cleared(q, h, g.slot), Cleared(o, g, h.slot)'
    PROVE  Cleared(o, g, h.slot)
  <1>1. /\ pc \in [Owner -> PC] /\ acq \in [Owner -> SUBSET Change]
        /\ idx \in [Owner -> Nat \ {0}] /\ todo \in [Owner -> SUBSET Slot]
        /\ leases \in [Owner -> [LeaseId -> SUBSET Grant]]
    BY DEF BaseInv, TypeOK
  <1>2. h \in Placed(q) /\ WellPlaced(h) /\ Backed(q, h) /\ q \notin lapsed \cup Dead
    BY ClearedPlaced, PlacedType DEF OwnOK, Dead
  <1>3. \A r \in Request : r.path = g.slot[1] /\ r.kind = g.kind =>
          h.slot \in CheckSlots(r) /\ Blocks(o, r, h.slot)
    BY <1>2, Covered, BlockedBy
  <1>4. LocalOK(o) /\ TypeOK
    BY DEF BaseInv
  <1>5. ASSUME Held(o)' \subseteq Held(o), pc'[o] # "verify" PROVE Cleared(o, g, h.slot)
    BY <1>5 DEF Cleared
  \* Entering verification of the first request clears nothing.
  <1>6. ASSUME pc[o] \in Taking, leases' = leases, batch' = batch, pc'[o] = "verify",
               idx'[o] = 1, todo'[o] = CheckSlots(batch[o][1])
        PROVE  Cleared(o, g, h.slot)
    <2>1. Held(o)' = Held(o)
      BY <1>6 DEF Held
    <2>2. CASE g \in Held(o)
      BY <2>2 DEF Cleared
    <2>3. CASE g \notin Held(o)
      <3>1. PICK a \in acq'[o] : g = [slot |-> a.slot, kind |-> a.kind]
              /\ (a.i < 1 \/ (a.i = 1 /\ h.slot \notin todo'[o]))
        BY <1>6, <2>1, <2>3 DEF Cleared
      <3>2. a.i \in 1..Len(batch[o]) /\ Len(batch[o]) \in Nat
            /\ a.slot[1] = batch[o][a.i].path /\ a.kind = batch[o][a.i].kind
        <4>1. LocalOK(o)'
          BY DEF BaseInv
        <4>2. a.i \in 1..Len(batch[o])
              /\ a.slot[1] = batch[o][a.i].path /\ a.kind = batch[o][a.i].kind
          BY <1>6, <4>1 DEF LocalOK
        <4>3. Len(batch[o]) \in Nat
          BY <1>4, <1>6, ReqType DEF Taking
        <4> QED
          BY <4>2, <4>3
      <3>3. a.i = 1 /\ h.slot \notin CheckSlots(batch[o][1])
        BY <1>6, <3>1, <3>2
      <3>4. batch[o][1] \in Request
        BY <1>4, <1>6, <3>2, <3>3, ReqType DEF Taking
      <3> QED
        BY <1>3, <3>1, <3>2, <3>3, <3>4
    <2> QED
      BY <2>2, <2>3
  <1>7. CASE Stat(o)
    <2>1. Held(o)' \subseteq Held(o) /\ pc'[o] # "verify"
      BY <1>7, <1>1, <1>4 DEF Held, Stat
    <2> QED
      BY <1>5, <2>1
  <1>8. CASE EnsureLockDir(o)
    <2>1. Held(o)' \subseteq Held(o) /\ pc'[o] # "verify"
      BY <1>8, <1>1, <1>4 DEF Held, EnsureLockDir, Goto
    <2> QED
      BY <1>5, <2>1
  <1>9. CASE TakeRead(o)
    <2>1. pc[o] \in Taking /\ leases' = leases /\ batch' = batch
      BY <1>9 DEF TakeRead, Taking
    <2>2. \/ pc'[o] # "verify"
          \/ pc'[o] = "verify" /\ idx'[o] = 1 /\ todo'[o] = CheckSlots(batch[o][1])
      BY <1>9, <1>1 DEF TakeRead, Acquired, Fail, Goto
    <2> QED
      BY <1>5, <1>6, <2>1, <2>2 DEF Held
  <1>10. CASE Upgrade(o)
    <2>1. pc[o] \in Taking /\ leases' = leases /\ batch' = batch
      BY <1>10 DEF Upgrade, Taking
    <2>2. \/ pc'[o] # "verify"
          \/ pc'[o] = "verify" /\ idx'[o] = 1 /\ todo'[o] = CheckSlots(batch[o][1])
      BY <1>10, <1>1 DEF Upgrade, Acquired, Fail, Goto
    <2> QED
      BY <1>5, <1>6, <2>1, <2>2 DEF Held
  <1>11. CASE \E s \in Slot : CheckRead(o, s)
    <2>1. PICK s \in Slot : CheckRead(o, s)
      BY <1>11
    <2>2. Held(o)' = Held(o) /\ acq' = acq /\ idx' = idx /\ batch' = batch
      BY <2>1 DEF CheckRead, Held
    <2>3. CASE pc'[o] # "verify" \/ g \in Held(o)
      BY <1>5, <2>2, <2>3 DEF Cleared
    <2>4. CASE pc'[o] = "verify" /\ g \notin Held(o)
      <3>1. /\ ~Blocks(o, Req(o), s) /\ todo'[o] = todo[o] \ {s} /\ pc[o] = "verify"
        BY <1>1, <2>1, <2>4 DEF CheckRead, Fail, Goto
      <3>2. PICK a \in acq[o] : g = [slot |-> a.slot, kind |-> a.kind]
              /\ (a.i < idx[o] \/ (a.i = idx[o] /\ h.slot \notin todo'[o]))
        BY <2>2, <2>4 DEF Cleared
      <3>3. CASE a.i < idx[o] \/ h.slot \notin todo[o]
        BY <3>1, <3>2, <3>3 DEF Cleared
      <3>4. CASE a.i = idx[o] /\ h.slot = s
        <4>1. Req(o) \in Request /\ Req(o).path = g.slot[1] /\ Req(o).kind = g.kind
          BY <3>1, <3>2, <3>4, ChangeReq DEF Req
        <4> QED
          BY <1>3, <3>1, <3>4, <4>1
      <3> QED
        BY <3>1, <3>2, <3>3, <3>4
    <2> QED
      BY <2>3, <2>4
  <1>12. CASE TakeRemove(o)
    <2>1. Held(o)' \subseteq Held(o) /\ pc'[o] # "verify"
      BY <1>12, <1>1, <1>4 DEF Held, TakeRemove, RemoveToken, Fail, Goto
    <2> QED
      BY <1>5, <2>1
  <1>13. CASE TakeUnlink(o)
    <2>1. Held(o)' \subseteq Held(o) /\ pc'[o] # "verify"
      BY <1>13, <1>1, <1>4 DEF Held, TakeUnlink, UnlinkToken, Goto
    <2> QED
      BY <1>5, <2>1
  <1>14. CASE Create(o)
    <2>1. pc[o] \in Taking /\ leases' = leases /\ batch' = batch
      BY <1>14 DEF Create, Taking
    <2>2. \/ pc'[o] # "verify"
          \/ pc'[o] = "verify" /\ idx'[o] = 1 /\ todo'[o] = CheckSlots(batch[o][1])
      BY <1>14, <1>1 DEF Create, Acquired, Fail, Goto
    <2> QED
      BY <1>5, <1>6, <2>1, <2>2 DEF Held
  <1>15. CASE Write(o)
    <2>1. pc[o] \in Taking /\ leases' = leases /\ batch' = batch
      BY <1>15 DEF Write, Taking
    <2>2. \/ pc'[o] # "verify"
          \/ pc'[o] = "verify" /\ idx'[o] = 1 /\ todo'[o] = CheckSlots(batch[o][1])
      BY <1>15, <1>1 DEF Write, Acquired, Fail, Goto
    <2> QED
      BY <1>5, <1>6, <2>1, <2>2 DEF Held
  <1>16. CASE VerifyNext(o)
    <2>1. /\ Held(o)' = Held(o) /\ acq' = acq /\ pc' = pc /\ pc[o] = "verify" /\ todo[o] = {}
          /\ idx'[o] = idx[o] + 1 /\ todo'[o] = CheckSlots(batch[o][idx[o] + 1])
      BY <1>16, <1>1 DEF VerifyNext, Held
    <2>2. CASE g \in Held(o)
      BY <2>2 DEF Cleared
    <2>3. CASE g \notin Held(o)
      <3>1. PICK a \in acq[o] : g = [slot |-> a.slot, kind |-> a.kind]
              /\ (a.i < idx[o] + 1 \/ (a.i = idx[o] + 1 /\ h.slot \notin todo'[o]))
        BY <2>1, <2>3 DEF Cleared
      <3>2. a.i \in Nat /\ idx[o] \in Nat
        BY <1>1 DEF Change
      <3>3. a.i # idx[o] + 1 \/ h.slot \in todo'[o]
        <4> SUFFICES ASSUME a.i = idx[o] + 1 PROVE h.slot \in todo'[o]
          OBVIOUS
        <4>1. batch[o][a.i] \in Request /\ batch[o][a.i].path = g.slot[1]
              /\ batch[o][a.i].kind = g.kind
          BY <2>1, <3>1, ChangeReq
        <4> QED
          BY <1>3, <2>1, <4>1
      <3>4. a.i < idx[o] \/ a.i = idx[o]
        BY <3>1, <3>2, <3>3
      <3> QED
        BY <2>1, <3>1, <3>4 DEF Cleared
    <2> QED
      BY <2>2, <2>3
  <1>17. CASE \E l \in LeaseId : Publish(o, l)
    <2>1. PICK l \in LeaseId : Publish(o, l)
      BY <1>17
    <2>2. pc'[o] = "idle" /\ pc[o] = "verify" /\ todo[o] = {} /\ idx[o] = Len(batch[o])
      BY <1>1, <2>1 DEF Publish, Return, Goto
    <2>3. g \in Held(o)'
      BY <2>2 DEF Cleared
    <2>4. g \in Held(o) \/ g \in GrantsOf(acq[o])
      BY <1>1, <2>1, <2>3 DEF Publish, Held
    <2>5. CASE g \in GrantsOf(acq[o])
      <3>1. PICK a \in acq[o] : g = [slot |-> a.slot, kind |-> a.kind]
        BY <2>5 DEF GrantsOf
      <3>2. a.i \in 1..Len(batch[o]) /\ Len(batch[o]) \in Nat
        BY <1>4, <2>2, ChangeReq, ReqType
      <3>3. a.i < idx[o] \/ a.i = idx[o]
        BY <2>2, <3>2
      <3> QED
        BY <2>2, <3>1, <3>3 DEF Cleared
    <2> QED
      BY <2>4, <2>5 DEF Cleared
  <1>18. CASE Rollback(o)
    <2>1. Held(o)' \subseteq Held(o) /\ pc'[o] # "verify"
      BY <1>18, <1>1, <1>4 DEF Held, Rollback
    <2> QED
      BY <1>5, <2>1
  <1>19. CASE RolledBack(o)
    <2>1. Held(o)' \subseteq Held(o) /\ pc'[o] # "verify"
      BY <1>19, <1>1, <1>4 DEF Held, RolledBack, Return, Goto
    <2> QED
      BY <1>5, <2>1
  <1>20. CASE CleanRead(o)
    <2>1. Held(o)' \subseteq Held(o) /\ pc'[o] # "verify"
      BY <1>20, <1>1, <1>4 DEF Held, CleanRead, Return, Goto
    <2> QED
      BY <1>5, <2>1
  <1>21. CASE Sweep(o)
    <2>1. Held(o)' \subseteq Held(o) /\ pc'[o] # "verify"
      BY <1>21, <1>1, <1>4 DEF Held, Sweep, RemoveToken, Return, Goto
    <2> QED
      BY <1>5, <2>1
  <1>22. CASE SweepUnlink(o)
    <2>1. Held(o)' \subseteq Held(o) /\ pc'[o] # "verify"
      BY <1>22, <1>1, <1>4 DEF Held, SweepUnlink, UnlinkToken, Goto
    <2> QED
      BY <1>5, <2>1
  <1>23. CASE Retry(o)
    <2>1. Held(o)' \subseteq Held(o) /\ pc'[o] # "verify"
      BY <1>23, <1>1, <1>4 DEF Held, Retry, Return, StartAttempt, Goto
    <2> QED
      BY <1>5, <2>1
  <1>24. CASE \E b \in Batches, c \in LeaseId \cup {0} : Begin(o, b, c)
    <2>1. Held(o)' \subseteq Held(o) /\ pc'[o] # "verify"
      BY <1>24, <1>1, <1>4 DEF Held, Begin, StartAttempt, Goto
    <2> QED
      BY <1>5, <2>1
  <1>25. CASE TimeOut(o)
    <2>1. Held(o)' \subseteq Held(o) /\ pc'[o] # "verify"
      BY <1>25, <1>1, <1>4 DEF Held, TimeOut, Return, Goto
    <2> QED
      BY <1>5, <2>1
  <1>26. CASE \E l \in LeaseId, sel \in SUBSET Slot : ReleaseStart(o, l, sel)
    <2>1. Held(o)' \subseteq Held(o) /\ pc'[o] # "verify"
      BY <1>26, <1>1, <1>4 DEF Held, ReleaseStart, MutexFree, acqVars
    <2> QED
      BY <1>5, <2>1
  <1>27. CASE \E s \in Slot : ReleasePath(o, s)
    <2>1. \A l \in LeaseId : leases'[o][l] \subseteq leases[o][l]
      BY <1>27, <1>1 DEF ReleasePath, DropGrant
    <2>2. Held(o)' \subseteq Held(o)
      BY <2>1 DEF Held
    <2>3. pc'[o] # "verify"
      BY <1>27, <1>4 DEF ReleasePath, LocalOK, Unlocked, acqVars
    <2> QED
      BY <1>5, <2>2, <2>3
  <1>28. CASE \E s \in Slot : Refresh(o, s)
    <2>1. Held(o)' \subseteq Held(o) /\ pc'[o] # "verify"
      BY <1>28, <1>1, <1>4 DEF Held, Refresh, MutexFree, acqVars
    <2> QED
      BY <1>5, <2>1
  <1>29. CASE Crash(o)
    <2>1. Held(o)' \subseteq Held(o) /\ pc'[o] # "verify"
      BY <1>29, <1>1, <1>4 DEF Held, Crash
    <2> QED
      BY <1>5, <2>1
  <1> QED
    BY <1>7, <1>8, <1>9, <1>10, <1>11, <1>12, <1>13, <1>14, <1>15, <1>16,
       <1>17, <1>18, <1>19, <1>20, <1>21, <1>22, <1>23, <1>24, <1>25, <1>26, <1>27, <1>28, <1>29 DEF OwnerStep, AcquireStep

\* Of two owners it does not matter which comes first.
LEMMA PairSym ==
    ASSUME NEW p \in Owner, NEW q \in Owner, PairOK(p, q) PROVE PairOK(q, p)
  BY DEF PairOK, Conflicts

\* What an owner has verified depends on its own locals and leases.
LEMMA ClearedFrame ==
    ASSUME NEW q \in Owner, pc'[q] = pc[q], idx'[q] = idx[q], todo'[q] = todo[q],
           acq'[q] = acq[q], leases'[q] = leases[q], NEW g, NEW s
    PROVE  Cleared(q, g, s)' = Cleared(q, g, s)
  BY DEF Cleared, Held

\* A step of one owner verifies no grant against a conflicting verified one.
LEMMA PairStep ==
    ASSUME BaseInv, BaseInv', NEW o \in Owner, NEW q \in Owner, q # o, OwnerStep(o),
           q \notin lapsed, OwnOK(q), PairOK(o, q)
    PROVE  PairOK(o, q)'
  <1> SUFFICES ASSUME NEW g \in Grant, NEW h \in Grant, Conflicts(g, h),
                      Cleared(o, g, h.slot)', Cleared(q, h, g.slot)'
               PROVE  FALSE
    BY DEF PairOK, Conflicts
  <1>1. Cleared(q, h, g.slot)
    BY Frame, ClearedFrame DEF SameLocals, BaseInv
  <1>2. Cleared(o, g, h.slot)
    BY <1>1, ClearedStep
  <1> QED
    BY <1>1, <1>2 DEF PairOK

-----------------------------------------------------------------------------
(* The inductive invariant *)

\* Steps that change neither calls nor leases, nor whose token it is.
LEMMA ExclusiveFrame ==
    ASSUME BaseInv, Exclusive, acqVars' = acqVars, leases' = leases, lapsed \subseteq lapsed',
           torn' = torn,
           \A s \in Slot : token'[s].owner = token[s].owner /\ token'[s].kind = token[s].kind,
           \A o \in Owner \ lapsed' : pc[o] = "write" => token'[Target(o)] = token[Target(o)]
    PROVE  Exclusive'
  <1> SUFFICES ASSUME ~torn' PROVE Exclusive'
    BY DEF Exclusive
  <1>1. ASSUME NEW o \in Owner \ lapsed' PROVE OwnOK(o)'
    <2>1. OwnOK(o) /\ Held(o)' = Held(o) /\ Placed(o)' = Placed(o) /\ Target(o)' = Target(o)
          /\ pc' = pc /\ acq' = acq
      BY DEF Exclusive, acqVars, Held, Placed, Target, Req
    <2>2. \A g \in Placed(o) : Backed(o, g)'
      BY <2>1, PlacedType DEF OwnOK, Backed
    <2>3. pc[o] \in Taking => Target(o) \in Slot
      BY TargetType DEF BaseInv
    <2> QED
      BY <2>1, <2>2, <2>3 DEF OwnOK, Taking
  <1>2. ASSUME NEW p \in Owner \ lapsed', NEW q \in Owner \ lapsed', p # q PROVE PairOK(p, q)'
    <2>1. PairOK(p, q)
      BY <1>2 DEF Exclusive
    <2>2. \A g, s : /\ Cleared(p, g, s)' = Cleared(p, g, s)
                    /\ Cleared(q, g, s)' = Cleared(q, g, s)
      BY DEF Cleared, Held, acqVars
    <2> QED
      BY <2>1, <2>2 DEF PairOK, Conflicts
  <1> QED
    BY <1>1, <1>2 DEF Exclusive

\* Every step keeps Exclusive.
LEMMA ExclusiveStep == BaseInv /\ Exclusive /\ [Next]_vars => Exclusive'
  <1> SUFFICES ASSUME BaseInv, Exclusive, [Next]_vars PROVE Exclusive'
    OBVIOUS
  <1>1. BaseInv'
    BY BaseStep
  <1>2. ASSUME NEW o \in Owner, OwnerStep(o) PROVE Exclusive'
    <2> SUFFICES ASSUME ~torn' PROVE Exclusive'
      BY DEF Exclusive
    <2>1. ~torn /\ lapsed' = lapsed
      BY <1>2, TornStays, Frame DEF BaseInv
    <2>2. ASSUME NEW q \in Owner \ lapsed' PROVE OwnOK(q)'
      <3>1. OwnOK(q) /\ q \notin lapsed
        BY <2>1 DEF Exclusive
      <3>2. CASE q = o
        BY <1>2, <3>1, <3>2, OwnStep
      <3>3. CASE q # o
        BY <1>2, <3>1, <3>3, OwnFrame
      <3> QED
        BY <3>2, <3>3
    <2>3. ASSUME NEW p \in Owner \ lapsed', NEW q \in Owner \ lapsed', p # q PROVE PairOK(p, q)'
      <3>1. OwnOK(p) /\ OwnOK(q) /\ PairOK(p, q) /\ PairOK(q, p) /\ p \notin lapsed /\ q \notin lapsed
        BY <2>1, <2>3 DEF Exclusive
      <3>2. CASE p = o
        BY <1>1, <1>2, <2>3, <3>1, <3>2, PairStep
      <3>3. CASE q = o
        <4>1. PairOK(q, p)'
          BY <1>1, <1>2, <2>3, <3>1, <3>3, PairStep
        <4> QED
          BY <4>1 DEF PairOK, Conflicts
      <3>4. CASE p # o /\ q # o
        <4>1. SameLocals(p) /\ SameLocals(q)
          BY <1>2, <3>4, Frame DEF BaseInv
        <4>2. \A g, s : /\ Cleared(p, g, s)' = Cleared(p, g, s)
                        /\ Cleared(q, g, s)' = Cleared(q, g, s)
          BY <4>1 DEF Cleared, Held, SameLocals
        <4> QED
          BY <3>1, <4>2 DEF PairOK, Conflicts
      <3> QED
        BY <3>2, <3>3, <3>4
    <2> QED
      BY <2>2, <2>3 DEF Exclusive
  <1>3. ASSUME NEW s \in Slot, Expire(s) PROVE Exclusive'
    <2>1. /\ token \in [Slot -> Cell] /\ token'[s] = [token[s] EXCEPT !.stale = TRUE]
          /\ \A x \in Slot \ {s} : token'[x] = token[x]
      BY <1>3 DEF Expire, BaseInv, TypeOK
    <2>2. \A x \in Slot : token'[x].owner = token[x].owner /\ token'[x].kind = token[x].kind
      BY <2>1 DEF Cell
    <2>3. /\ acqVars' = acqVars /\ leases' = leases /\ torn' = torn
          /\ lapsed' = lapsed \cup Users(s)
      BY <1>3 DEF Expire
    <2>4. CASE torn
      BY <2>3, <2>4 DEF Exclusive
    <2>5. CASE ~torn
      <3>1. ASSUME NEW o \in Owner \ lapsed', pc[o] = "write" PROVE token'[Target(o)] = token[Target(o)]
        <4>1. token[Target(o)] = EmptyFile(o) /\ Target(o) \in Slot
          BY <2>3, <2>5, <3>1, TargetType DEF Exclusive, OwnOK, BaseInv, Taking
        <4>2. Target(o) # s
          BY <2>3, <3>1, <4>1 DEF Users, EmptyFile, Dead
        <4> QED
          BY <2>1, <4>1, <4>2
      <3> QED
        BY <2>2, <2>3, <3>1, ExclusiveFrame
    <2> QED
      BY <2>4, <2>5
  <1>4. ASSUME NEW p \in Path, Mkdir(p) PROVE Exclusive'
    <2>1. acqVars' = acqVars /\ leases' = leases /\ torn' = torn /\ lapsed' = lapsed /\ token' = token
      BY <1>4 DEF Mkdir
    <2> QED
      BY <2>1, ExclusiveFrame
  <1>5. CASE UNCHANGED vars
    <2>1. acqVars' = acqVars /\ leases' = leases /\ torn' = torn /\ lapsed' = lapsed /\ token' = token
      BY <1>5 DEF vars
    <2> QED
      BY <2>1, ExclusiveFrame
  <1> QED
    BY <1>2, <1>3, <1>4, <1>5 DEF Next

\* Exclusive holds at first.
LEMMA ExclusiveInit == Init => Exclusive
  <1> SUFFICES ASSUME Init PROVE Exclusive
    OBVIOUS
  <1>1. \A o \in Owner : Held(o) = {} /\ acq[o] = {} /\ pc[o] = "idle"
    BY DEF Init, Held
  <1> QED
    BY <1>1 DEF Exclusive, OwnOK, PairOK, Cleared, Placed, GrantsOf

\* Two owners whose tokens never expired under them never hold conflicting
\* leases while no provider call destroyed a token it did not aim at: the
\* exclusion of acquire_batch, for every tree, batch, number of owners and
\* leases, on both providers, with crashes and stalls of the others.
THEOREM Exclusion == Spec => []MutualExclusion
  <1>1. IInv => MutualExclusion
    <2> SUFFICES ASSUME IInv, ~torn,
                        NEW p \in Owner \ lapsed, NEW q \in Owner \ lapsed, p # q,
                        NEW g \in Held(p), NEW h \in Held(q)
                 PROVE  ~Conflicts(g, h)
      BY DEF MutualExclusion
    <2>1. g \in Grant /\ h \in Grant
      BY DEF IInv, BaseInv, TypeOK, Held
    <2>2. Cleared(p, g, h.slot) /\ Cleared(q, h, g.slot)
      BY DEF Cleared
    <2> QED
      BY <2>1, <2>2 DEF IInv, Exclusive, PairOK
  <1>2. Init => IInv
    BY BaseInit, ExclusiveInit DEF IInv
  <1>3. IInv /\ [Next]_vars => IInv'
    BY BaseStep, ExclusiveStep DEF IInv
  <1> QED
    BY <1>1, <1>2, <1>3, PTL DEF Spec

\* The owner's own steps, outside release and rollback, keep its tokens.
LEMMA OwnStepKeeps ==
    ASSUME BaseInv, NEW o \in Owner, OwnerStep(o), o \notin lapsed \cup Dead,
           rel[o] = 0, pc[o] # "rollback", NEW s \in Slot, token[s].owner = o, ~torn'
    PROVE  token'[s].owner = o
  <1>1. token \in [Slot -> Cell] /\ IsToken(token[s])
    BY OwnerAssumption DEF BaseInv, TypeOK, TokenOK
  <1>2. pc[o] \in Evicting => victim[o] # o
    BY DEF BaseInv, TokenOK, Evicting
  <1>3. CASE Stat(o)
    BY <1>3 DEF Stat
  <1>4. CASE EnsureLockDir(o)
    BY <1>4 DEF EnsureLockDir
  <1>5. CASE TakeRead(o)
    BY <1>5 DEF TakeRead
  <1>6. CASE Upgrade(o)
    <2>1. token' = token \/ token' = [token EXCEPT ![Target(o)] = Fresh(token[Target(o)], o, "T")]
      BY <1>6 DEF Upgrade
    <2>2. Fresh(token[Target(o)], o, "T").owner = o
      BY DEF Fresh
    <2> QED
      BY <1>1, <2>1, <2>2
  <1>7. CASE \E x \in Slot : CheckRead(o, x)
    BY <1>7 DEF CheckRead
  <1>8. CASE TakeRemove(o)
    BY <1>8, <1>1, <1>2 DEF TakeRemove, RemoveToken, Evicting
  <1>9. CASE TakeUnlink(o)
    BY <1>9, <1>1, <1>2 DEF TakeUnlink, UnlinkToken, Evicting, IsToken, Kind
  <1>10. CASE Create(o)
    BY <1>10, <1>1 DEF Create, Fresh, IsToken, Kind
  <1>11. CASE Write(o)
    BY <1>11, <1>1 DEF Write, Fresh
  <1>12. CASE VerifyNext(o)
    BY <1>12 DEF VerifyNext
  <1>13. CASE \E l \in LeaseId : Publish(o, l)
    BY <1>13 DEF Publish
  <1>14. CASE Rollback(o)
    BY <1>14 DEF Rollback
  <1>15. CASE RolledBack(o)
    BY <1>15 DEF RolledBack
  <1>16. CASE CleanRead(o)
    BY <1>16 DEF CleanRead
  <1>17. CASE Sweep(o)
    BY <1>17, <1>1, <1>2 DEF Sweep, RemoveToken, Evicting
  <1>18. CASE SweepUnlink(o)
    BY <1>18, <1>1, <1>2 DEF SweepUnlink, UnlinkToken, Evicting, IsToken, Kind
  <1>19. CASE Retry(o)
    BY <1>19 DEF Retry
  <1>20. CASE \E b \in Batches, c \in LeaseId \cup {0} : Begin(o, b, c)
    BY <1>20 DEF Begin
  <1>21. CASE TimeOut(o)
    BY <1>21 DEF TimeOut
  <1>22. CASE \E l \in LeaseId, sel \in SUBSET Slot : ReleaseStart(o, l, sel)
    BY <1>22 DEF ReleaseStart
  <1>23. CASE \E x \in Slot : ReleasePath(o, x)
    BY <1>23 DEF ReleasePath
  <1>24. CASE \E x \in Slot : Refresh(o, x)
    <2>1. PICK x \in Slot : Refresh(o, x)
      BY <1>24
    <2>2. token' = [token EXCEPT ![x].stale = FALSE]
      BY <2>1 DEF Refresh
    <2> QED
      BY <1>1, <2>2 DEF Cell
  <1>25. CASE Crash(o)
    BY <1>25 DEF Crash
  <1> QED
    BY <1>3, <1>4, <1>5, <1>6, <1>7, <1>8, <1>9, <1>10, <1>11, <1>12,
       <1>13, <1>14, <1>15, <1>16, <1>17, <1>18, <1>19, <1>20, <1>21, <1>22, <1>23, <1>24, <1>25 DEF OwnerStep, AcquireStep

\* No step of another owner, and no step of its own but release and rollback,
\* takes the token of an owner that neither lapsed nor crashed: remove_token
\* only ever aims at owners whose token was found stale.
THEOREM TokensStay == Spec => TokenKept
  <1>1. BaseInv /\ [Next]_vars => [KeepsToken]_vars
    <2> SUFFICES ASSUME BaseInv, Next PROVE KeepsToken
      OBVIOUS
    <2> SUFFICES ASSUME NEW s \in Slot, NEW q \in Owner, q \notin lapsed \cup Dead,
                        token[s].owner = q, ~torn', rel[q] = 0, pc[q] # "rollback"
                 PROVE  token'[s].owner = q
      BY DEF KeepsToken
    <2>1. token \in [Slot -> Cell] /\ IsToken(token[s])
      BY OwnerAssumption DEF BaseInv, TypeOK, TokenOK
    <2>2. ASSUME NEW o \in Owner, OwnerStep(o) PROVE token'[s].owner = q
      <3>1. CASE o # q
        BY <2>2, <3>1, OthersKeep DEF Mine
      <3>2. CASE o = q
        BY <2>1, <2>2, <3>2, OwnStepKeeps
      <3> QED
        BY <3>1, <3>2
    <2>3. ASSUME NEW x \in Slot, Expire(x) PROVE token'[s].owner = q
      BY <2>1, <2>3 DEF Expire, Cell
    <2>4. ASSUME NEW p \in Path, Mkdir(p) PROVE token'[s].owner = q
      BY <2>4 DEF Mkdir
    <2> QED
      BY <2>2, <2>3, <2>4 DEF Next
  <1> QED
    BY <1>1, BaseInit, BaseStep, PTL DEF Spec, TokenKept

=============================================================================
