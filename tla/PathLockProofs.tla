--------------------------- MODULE PathLockProofs ---------------------------
(* Proofs about the path-lock token protocol: its types and mutual exclusion. *)
EXTENDS PathLock, TLAPS

\* A call that is neither idle nor dead is at a request of its batch.
LEMMA ReqType ==
    ASSUME TypeOK, NEW o \in Owner, LocalOK(o), pc[o] \notin {"idle", "dead"}
    PROVE  /\ batch[o] \in Seq(Request) /\ Len(batch[o]) \in Nat
           /\ \A i \in 1..Len(batch[o]) : batch[o][i] \in Request
           /\ idx[o] \in 1..Len(batch[o])
           /\ Req(o) \in Request
  <1>1. batch[o] \in Seq(Request) /\ idx[o] \in 1..Len(batch[o])
    BY BatchAssumption DEF LocalOK
  <1> QED
    BY <1>1 DEF Req

\* The lock file of the request in hand is one.
LEMMA TargetType ==
    ASSUME TypeOK, NEW o \in Owner, LocalOK(o), pc[o] \in Taking
    PROVE  Target(o) \in Slot
  BY ReqType DEF Target, Slot, LocalOK, Taking, Request

\* What a request looks at are lock files.
LEMMA CheckSlotsType ==
    ASSUME NEW r \in Request
    PROVE  /\ CheckSlots(r) \in SUBSET Slot
           /\ OwnSlots(r) \in SUBSET Slot /\ AncSlots(r) \in SUBSET Slot
  BY TreeAssumption DEF CheckSlots, AncSlots, OwnSlots, DescSlots, Slot, Side, Request

\* The initial state is well typed.
LEMMA InitType == Init => TypeOK
  <1> SUFFICES ASSUME Init PROVE TypeOK
    OBVIOUS
  <1>1. token \in [Slot -> Cell]
    BY DEF Init, NoToken, Cell
  <1>2. dirs \in SUBSET (Path \ Files)
    BY TreeAssumption DEF Init
  <1>3. pc \in [Owner -> PC] /\ batch \in [Owner -> Batches \cup {<<>>}]
        /\ cap \in [Owner -> LeaseId \cup {0}] /\ idx \in [Owner -> Nat \ {0}]
    BY DEF Init, PC
  <1>4. side \in [Owner -> Side \cup {"none"}] /\ todo \in [Owner -> SUBSET Slot]
        /\ acq \in [Owner -> SUBSET Change] /\ conf \in [Owner -> SUBSET Slot]
        /\ victim \in [Owner -> Owner \cup {NoOwner}]
    BY DEF Init
  <1>5. fatal \in [Owner -> BOOLEAN] /\ torn \in BOOLEAN
    BY DEF Init
  <1>6. leases \in [Owner -> [LeaseId -> SUBSET Grant]]
        /\ rel \in [Owner -> LeaseId \cup {0}] /\ drop \in [Owner -> SUBSET Slot]
        /\ lapsed \in SUBSET Owner
    BY DEF Init
  <1> QED
    BY <1>1, <1>2, <1>3, <1>4, <1>5, <1>6 DEF TypeOK

\* The end of a call keeps the types of its locals.
LEMMA ReturnType ==
    ASSUME TypeOK, NEW o \in Owner, Return(o)
    PROVE  /\ pc' \in [Owner -> PC] /\ batch' \in [Owner -> Batches \cup {<<>>}]
           /\ cap' \in [Owner -> LeaseId \cup {0}] /\ idx' \in [Owner -> Nat \ {0}]
           /\ side' \in [Owner -> Side \cup {"none"}] /\ todo' \in [Owner -> SUBSET Slot]
           /\ acq' \in [Owner -> SUBSET Change] /\ conf' \in [Owner -> SUBSET Slot]
           /\ victim' \in [Owner -> Owner \cup {NoOwner}] /\ fatal' \in [Owner -> BOOLEAN]
  BY DEF TypeOK, Return, Goto, PC

\* The end of one request keeps the types of the locals.
LEMMA AcquiredType ==
    ASSUME TypeOK, NEW o \in Owner, LocalOK(o), pc[o] \in Taking,
           NEW h \in {"created", "reentrant", "upgraded"}, NEW w \in BOOLEAN,
           Acquired(o, h, w)
    PROVE  /\ pc' \in [Owner -> PC] /\ idx' \in [Owner -> Nat \ {0}]
           /\ side' \in [Owner -> Side \cup {"none"}] /\ todo' \in [Owner -> SUBSET Slot]
           /\ acq' \in [Owner -> SUBSET Change]
  <1>1. Target(o) \in Slot /\ Req(o) \in Request /\ idx[o] \in 1..Len(batch[o])
        /\ Len(batch[o]) \in Nat /\ \A i \in 1..Len(batch[o]) : batch[o][i] \in Request
    BY ReqType, TargetType DEF Taking
  <1>2. [i |-> idx[o], slot |-> Target(o), kind |-> Req(o).kind, how |-> h, was |-> w] \in Change
    BY <1>1 DEF Change, Request
  <1>3. acq' \in [Owner -> SUBSET Change]
    BY <1>2 DEF TypeOK, Acquired
  <1>4. side' \in [Owner -> Side \cup {"none"}]
    BY DEF TypeOK, Acquired
  <1>5. pc' \in [Owner -> PC]
    BY DEF TypeOK, Acquired, Goto, PC
  <1>6. idx' \in [Owner -> Nat \ {0}]
    BY DEF TypeOK, Acquired
  <1>7. CheckSlots(batch[o][1]) \in SUBSET Slot
        /\ (idx[o] < Len(batch[o]) => CheckSlots(batch[o][idx[o] + 1]) \in SUBSET Slot)
    <2>1. batch[o][1] \in Request
          /\ (idx[o] < Len(batch[o]) => batch[o][idx[o] + 1] \in Request)
      BY <1>1
    <2> QED
      BY <2>1, CheckSlotsType
  <1>8. todo' \in [Owner -> SUBSET Slot]
    BY <1>7 DEF TypeOK, Acquired
  <1> QED
    BY <1>3, <1>4, <1>5, <1>6, <1>8

\* One lemma for each action: it keeps the types.
LEMMA StatType ==
    ASSUME TypeOK, NEW o \in Owner, LocalOK(o), Stat(o)
    PROVE  TypeOK'
  <1>1. side' \in [Owner -> Side \cup {"none"}]
    BY DEF TypeOK, Stat, Resolve, Side
  <1> QED
    BY <1>1 DEF TypeOK, Stat

\* An error keeps the types of what it sets.
LEMMA FailType ==
    ASSUME TypeOK, NEW o \in Owner, NEW c \in SUBSET Slot, NEW f \in BOOLEAN,
           Fail(o, c, f)
    PROVE  /\ pc' \in [Owner -> PC] /\ conf' \in [Owner -> SUBSET Slot]
           /\ fatal' \in [Owner -> BOOLEAN]
  BY DEF TypeOK, Fail, Goto, PC

\* check_ancestor_tree_locks, check_lock_paths, check_descendant_locks.
LEMMA CheckReadType ==
    ASSUME TypeOK, NEW o \in Owner, NEW s \in Slot, CheckRead(o, s)
    PROVE  TypeOK'
  <1>1. todo' \in [Owner -> SUBSET Slot]
    <2>1. UNCHANGED todo \/ todo' = [todo EXCEPT ![o] = @ \ {s}]
      BY DEF CheckRead
    <2>2. todo \in [Owner -> SUBSET Slot]
      BY DEF TypeOK
    <2> QED
      BY <2>1, <2>2
  <1>2. CASE Fail(o, IF pc[o] = "check" THEN {s} ELSE {}, FALSE)
    BY <1>1, <1>2, FailType DEF TypeOK, CheckRead
  <1>3. CASE Fail(o, {}, FALSE)
    BY <1>1, <1>3, FailType DEF TypeOK, CheckRead
  <1>4. CASE UNCHANGED <<pc, conf, fatal>>
    BY <1>1, <1>4 DEF TypeOK, CheckRead
  <1> QED
    BY <1>2, <1>3, <1>4 DEF CheckRead

\* ensure_lock_dir.
LEMMA EnsureLockDirType ==
    ASSUME TypeOK, NEW o \in Owner, LocalOK(o), EnsureLockDir(o)
    PROVE  TypeOK'
  <1>1. Req(o) \in Request /\ pc[o] \notin {"idle", "dead"}
    BY ReqType DEF EnsureLockDir
  <1>2. Req(o).path \in Path /\ Anc[Req(o).path] \in SUBSET (Path \ Files)
    BY <1>1, TreeAssumption DEF Request
  <1>3. side[o] = "dir" => Req(o).path \notin Files
    BY <1>1 DEF LocalOK, EnsureLockDir, WellPlaced, Target, Side
  <1>4. dirs' \in SUBSET (Path \ Files)
    BY <1>2, <1>3 DEF TypeOK, EnsureLockDir
  <1>5. pc' \in [Owner -> PC]
    BY DEF TypeOK, EnsureLockDir, Goto, PC
  <1> QED
    BY <1>4, <1>5 DEF TypeOK, EnsureLockDir

\* try_acquire_one, the token it finds.
LEMMA TakeReadType ==
    ASSUME TypeOK, NEW o \in Owner, LocalOK(o), TakeRead(o)
    PROVE  TypeOK'
  <1>1. Target(o) \in Slot /\ pc[o] \in Taking
    BY TargetType DEF Taking, TakeRead
  <1>2. token[Target(o)].stale \in BOOLEAN /\ token[Target(o)].owner \in Owner \cup {NoOwner}
    BY <1>1 DEF TypeOK, Cell
  <1>3. CASE Acquired(o, "reentrant", token[Target(o)].stale) /\ UNCHANGED <<conf, fatal, victim>>
    <2>1. /\ pc' \in [Owner -> PC] /\ idx' \in [Owner -> Nat \ {0}]
          /\ side' \in [Owner -> Side \cup {"none"}] /\ todo' \in [Owner -> SUBSET Slot]
          /\ acq' \in [Owner -> SUBSET Change]
      BY <1>1, <1>2, <1>3, AcquiredType
    <2> QED
      BY <1>3, <2>1 DEF TypeOK, TakeRead
  <1>4. CASE /\ \/ Fail(o, {}, FALSE)
                \/ Fail(o, {Target(o)}, FALSE)
             /\ UNCHANGED <<idx, todo, acq, side, victim>>
    <2>1. /\ pc' \in [Owner -> PC] /\ conf' \in [Owner -> SUBSET Slot]
          /\ fatal' \in [Owner -> BOOLEAN]
      BY <1>1, <1>4, FailType
    <2> QED
      BY <1>4, <2>1 DEF TypeOK, TakeRead
  <1>5. CASE /\ \/ Goto(o, "create") /\ UNCHANGED victim
                \/ Goto(o, "upgrade") /\ UNCHANGED victim
                \/ Goto(o, "remove") /\ victim' = [victim EXCEPT ![o] = token[Target(o)].owner]
             /\ UNCHANGED <<idx, todo, acq, side, conf, fatal>>
    <2>1. pc' \in [Owner -> PC]
      BY <1>5 DEF TypeOK, Goto, PC
    <2>2. victim' \in [Owner -> Owner \cup {NoOwner}]
      BY <1>2, <1>5 DEF TypeOK
    <2> QED
      BY <1>5, <2>1, <2>2 DEF TypeOK, TakeRead
  <1> QED
    BY <1>3, <1>4, <1>5 DEF TakeRead

\* try_acquire_one, EXACT to TREE.
LEMMA UpgradeType ==
    ASSUME TypeOK, NEW o \in Owner, LocalOK(o), Upgrade(o)
    PROVE  TypeOK'
  <1>1. Target(o) \in Slot /\ pc[o] \in Taking
    BY TargetType DEF Taking, Upgrade
  <1>2. token[Target(o)] \in Cell /\ token[Target(o)].stale \in BOOLEAN
    BY <1>1 DEF TypeOK, Cell
  <1>3. token' \in [Slot -> Cell]
    <2>1. Fresh(token[Target(o)], o, "T") \in Cell
      BY <1>2 DEF Fresh, Cell, Kind
    <2> QED
      BY <2>1 DEF TypeOK, Upgrade
  <1>4. CASE token[Target(o)].owner = o
    <2>1. Acquired(o, "upgraded", token[Target(o)].stale)
      BY <1>4 DEF Upgrade
    <2>2. /\ pc' \in [Owner -> PC] /\ idx' \in [Owner -> Nat \ {0}]
          /\ side' \in [Owner -> Side \cup {"none"}] /\ todo' \in [Owner -> SUBSET Slot]
          /\ acq' \in [Owner -> SUBSET Change]
      BY <1>1, <1>2, <2>1, AcquiredType
    <2> QED
      BY <1>3, <1>4, <2>2 DEF TypeOK, Upgrade
  <1>5. CASE token[Target(o)].owner # o
    <2>1. Fail(o, {Target(o)}, FALSE) /\ UNCHANGED <<token, idx, todo, acq, side>>
      BY <1>5 DEF Upgrade
    <2>2. /\ pc' \in [Owner -> PC] /\ conf' \in [Owner -> SUBSET Slot]
          /\ fatal' \in [Owner -> BOOLEAN]
      BY <1>1, <2>1, FailType
    <2> QED
      BY <2>1, <2>2 DEF TypeOK, Upgrade
  <1> QED
    BY <1>4, <1>5

\* The cell of a lock file that is not there.
LEMMA NoTokenType == NoToken \in Cell
  BY DEF NoToken, Cell, Kind

\* Writing the kind or the age of a token leaves a token.
LEMMA CellUpdate ==
    ASSUME NEW c \in Cell, NEW k \in Kind, NEW b \in BOOLEAN
    PROVE  /\ [c EXCEPT !.kind = k] \in Cell
           /\ [c EXCEPT !.stale = b] \in Cell
           /\ [c EXCEPT !.kind = k, !.stale = b] \in Cell
  BY DEF Cell

\* remove_token with force, of either provider.
LEMMA RemoveTokenType ==
    ASSUME TypeOK, NEW o \in Owner, NEW s \in Slot, NEW u \in PC, NEW n \in PC,
           RemoveToken(o, s, u, n)
    PROVE  token' \in [Slot -> Cell] /\ pc' \in [Owner -> PC]
  <1>1. token' \in [Slot -> Cell]
    BY NoTokenType DEF TypeOK, RemoveToken
  <1>2. pc' \in [Owner -> PC]
    BY DEF TypeOK, RemoveToken, Goto, PC
  <1> QED
    BY <1>1, <1>2

\* Takeover of a stale token: the comparison.
LEMMA TakeRemoveType ==
    ASSUME TypeOK, NEW o \in Owner, LocalOK(o), TakeRemove(o)
    PROVE  TypeOK'
  <1>1. Target(o) \in Slot
    BY TargetType DEF Taking, TakeRemove
  <1>2. CASE RemoveToken(o, Target(o), "unlink", "create") /\ UNCHANGED <<conf, fatal>>
    <2>1. token' \in [Slot -> Cell] /\ pc' \in [Owner -> PC]
      BY <1>1, <1>2, RemoveTokenType DEF PC
    <2> QED
      BY <1>2, <2>1 DEF TypeOK, TakeRemove
  <1>3. CASE Fail(o, {}, TRUE) /\ UNCHANGED token
    BY <1>3, FailType DEF TypeOK, TakeRemove
  <1> QED
    BY <1>2, <1>3 DEF TakeRemove

\* Takeover of a stale token: the unlink.
LEMMA TakeUnlinkType ==
    ASSUME TypeOK, NEW o \in Owner, LocalOK(o), TakeUnlink(o)
    PROVE  TypeOK'
  <1>1. token' \in [Slot -> Cell]
    BY NoTokenType DEF TypeOK, TakeUnlink, UnlinkToken
  <1>2. pc' \in [Owner -> PC]
    BY DEF TypeOK, TakeUnlink, UnlinkToken, Goto, PC
  <1>3. torn' \in BOOLEAN
    BY DEF TakeUnlink, UnlinkToken
  <1> QED
    BY <1>1, <1>2, <1>3 DEF TypeOK, TakeUnlink

\* Cleanup between attempts: the comparison.
LEMMA SweepType ==
    ASSUME TypeOK, NEW o \in Owner, Sweep(o)
    PROVE  TypeOK'
  <1>1. PICK s \in Slot :
           \/ /\ RemoveToken(o, s, "sweepUnlink", "backoff")
              /\ UNCHANGED <<batch, cap, idx, side, todo, acq, conf, victim, fatal>>
           \/ Return(o) /\ UNCHANGED token
    BY DEF TypeOK, Sweep
  <1>2. CASE /\ RemoveToken(o, s, "sweepUnlink", "backoff")
             /\ UNCHANGED <<batch, cap, idx, side, todo, acq, conf, victim, fatal>>
    <2>1. token' \in [Slot -> Cell] /\ pc' \in [Owner -> PC]
      BY <1>2, RemoveTokenType DEF PC
    <2> QED
      BY <1>2, <2>1 DEF TypeOK, Sweep
  <1>3. CASE Return(o) /\ UNCHANGED token
    BY <1>3, ReturnType DEF TypeOK, Sweep
  <1> QED
    BY <1>1, <1>2, <1>3

\* Cleanup between attempts: the unlink.
LEMMA SweepUnlinkType ==
    ASSUME TypeOK, NEW o \in Owner, SweepUnlink(o)
    PROVE  TypeOK'
  <1>1. token' \in [Slot -> Cell]
    BY NoTokenType DEF TypeOK, SweepUnlink, UnlinkToken
  <1>2. pc' \in [Owner -> PC]
    BY DEF TypeOK, SweepUnlink, UnlinkToken, Goto, PC
  <1>3. torn' \in BOOLEAN
    BY DEF SweepUnlink, UnlinkToken
  <1> QED
    BY <1>1, <1>2, <1>3 DEF TypeOK, SweepUnlink

\* The start of an attempt keeps the types of the locals.
LEMMA StartAttemptType ==
    ASSUME TypeOK, NEW o \in Owner, NEW b \in Batches, StartAttempt(o, b)
    PROVE  /\ pc' \in [Owner -> PC] /\ idx' \in [Owner -> Nat \ {0}]
           /\ side' \in [Owner -> Side \cup {"none"}] /\ todo' \in [Owner -> SUBSET Slot]
           /\ acq' \in [Owner -> SUBSET Change] /\ conf' \in [Owner -> SUBSET Slot]
           /\ victim' \in [Owner -> Owner \cup {NoOwner}] /\ fatal' \in [Owner -> BOOLEAN]
  <1>1. b[1] \in Request
    BY BatchAssumption
  <1>2. CheckSlots(b[1]) \in SUBSET Slot
    BY <1>1, CheckSlotsType
  <1>3. todo' \in [Owner -> SUBSET Slot]
    BY <1>2 DEF TypeOK, StartAttempt
  <1> QED
    BY <1>3 DEF TypeOK, StartAttempt, Goto, PC

\* acquire_batch begins.
LEMMA BeginType ==
    ASSUME TypeOK, NEW o \in Owner, NEW b \in Batches, NEW c \in LeaseId \cup {0},
           Begin(o, b, c)
    PROVE  TypeOK'
  <1>1. batch' \in [Owner -> Batches \cup {<<>>}]
    BY DEF TypeOK, Begin
  <1>2. cap' \in [Owner -> LeaseId \cup {0}]
    BY DEF TypeOK, Begin
  <1> QED
    BY <1>1, <1>2, StartAttemptType DEF TypeOK, Begin

\* try_create_token.
LEMMA CreateType ==
    ASSUME TypeOK, NEW o \in Owner, LocalOK(o), Create(o)
    PROVE  TypeOK'
  <1>1. Target(o) \in Slot /\ Req(o) \in Request /\ pc[o] \in Taking
    BY TargetType, ReqType DEF Taking, Create
  <1>2. token[Target(o)] \in Cell
    BY <1>1 DEF TypeOK
  <1>3. Fresh(token[Target(o)], o, Req(o).kind) \in Cell /\ EmptyFile(o) \in Cell
    BY <1>1, <1>2 DEF Fresh, Cell, Request, EmptyFile
  <1>4. token' \in [Slot -> Cell]
    BY <1>1, <1>3 DEF TypeOK, Create
  <1>5. CASE Goto(o, "write") /\ UNCHANGED <<idx, todo, acq, side, conf, fatal>>
    <2>1. pc' \in [Owner -> PC]
      BY <1>5 DEF TypeOK, Goto, PC
    <2> QED
      BY <1>4, <1>5, <2>1 DEF TypeOK, Create
  <1>6. CASE Acquired(o, "created", FALSE) /\ UNCHANGED <<conf, fatal>>
    <2>1. /\ pc' \in [Owner -> PC] /\ idx' \in [Owner -> Nat \ {0}]
          /\ side' \in [Owner -> Side \cup {"none"}] /\ todo' \in [Owner -> SUBSET Slot]
          /\ acq' \in [Owner -> SUBSET Change]
      BY <1>1, <1>6, AcquiredType
    <2> QED
      BY <1>4, <1>6, <2>1 DEF TypeOK, Create
  <1>7. CASE /\ \/ Fail(o, {}, FALSE)
                \/ Fail(o, {Target(o)}, FALSE)
             /\ UNCHANGED <<token, idx, todo, acq, side>>
    <2>1. /\ pc' \in [Owner -> PC] /\ conf' \in [Owner -> SUBSET Slot]
          /\ fatal' \in [Owner -> BOOLEAN]
      BY <1>1, <1>7, FailType
    <2> QED
      BY <1>7, <2>1 DEF TypeOK, Create
  <1> QED
    BY <1>5, <1>6, <1>7 DEF Create

\* The content of a file that was created empty.
LEMMA WriteType ==
    ASSUME TypeOK, NEW o \in Owner, LocalOK(o), Write(o)
    PROVE  TypeOK'
  <1>1. Target(o) \in Slot /\ Req(o) \in Request /\ pc[o] \in Taking
    BY TargetType, ReqType DEF Taking, Write
  <1>2. Fresh(token[Target(o)], o, Req(o).kind) \in Cell
    BY <1>1 DEF Fresh, Cell, Request, TypeOK
  <1>3. token' \in [Slot -> Cell]
    BY <1>1, <1>2 DEF TypeOK, Write
  <1>4. torn' \in BOOLEAN
    BY DEF Write
  <1>5. /\ pc' \in [Owner -> PC] /\ idx' \in [Owner -> Nat \ {0}]
        /\ side' \in [Owner -> Side \cup {"none"}] /\ todo' \in [Owner -> SUBSET Slot]
        /\ acq' \in [Owner -> SUBSET Change]
    <2>1. Acquired(o, "created", FALSE)
      BY DEF Write
    <2> QED
      BY <1>1, <2>1, AcquiredType
  <1> QED
    BY <1>3, <1>4, <1>5 DEF TypeOK, Write

\* The second check goes on to the next request.
LEMMA VerifyNextType ==
    ASSUME TypeOK, NEW o \in Owner, LocalOK(o), VerifyNext(o)
    PROVE  TypeOK'
  <1>1. idx[o] \in Nat \ {0} /\ Len(batch[o]) \in Nat /\ idx[o] < Len(batch[o])
        /\ \A i \in 1..Len(batch[o]) : batch[o][i] \in Request
    BY ReqType DEF VerifyNext
  <1>2. CheckSlots(batch[o][idx[o] + 1]) \in SUBSET Slot
    <2>1. batch[o][idx[o] + 1] \in Request
      BY <1>1
    <2> QED
      BY <2>1, CheckSlotsType
  <1>3. idx' \in [Owner -> Nat \ {0}]
    BY <1>1 DEF TypeOK, VerifyNext
  <1>4. todo' \in [Owner -> SUBSET Slot]
    BY <1>2 DEF TypeOK, VerifyNext
  <1> QED
    BY <1>3, <1>4 DEF TypeOK, VerifyNext

\* The lease enters the registries.
LEMMA PublishType ==
    ASSUME TypeOK, NEW o \in Owner, NEW l \in LeaseId, Publish(o, l)
    PROVE  TypeOK'
  <1>1. GrantsOf(acq[o]) \in SUBSET Grant
    BY DEF TypeOK, GrantsOf, Change, Grant
  <1>2. leases' \in [Owner -> [LeaseId -> SUBSET Grant]]
    BY <1>1 DEF TypeOK, Publish
  <1>3. Return(o)
    BY DEF Publish
  <1> QED
    BY <1>2, <1>3, ReturnType DEF TypeOK, Publish

\* rollback_acquisitions, one change.
LEMMA RollbackType ==
    ASSUME TypeOK, NEW o \in Owner, Rollback(o)
    PROVE  TypeOK'
  <1>1. PICK a \in acq[o] :
          /\ acq' = [acq EXCEPT ![o] = @ \ {a}]
          /\ token' = [token EXCEPT ![a.slot] =
               IF token[a.slot].owner = o /\ a.how = "created" THEN NoToken
               ELSE IF token[a.slot].owner = o /\ a.how = "upgraded"
                    THEN [@ EXCEPT !.kind = "E", !.stale = a.was]
               ELSE @]
          /\ fatal' = [fatal EXCEPT ![o] = @ \/ (a.how = "upgraded" /\ ~(token[a.slot].owner = o))]
    BY DEF Rollback
  <1>2. a \in Change /\ a.slot \in Slot /\ a.was \in BOOLEAN
    BY DEF TypeOK, Change
  <1>3. [token[a.slot] EXCEPT !.kind = "E", !.stale = a.was] \in Cell
    BY <1>2, CellUpdate DEF TypeOK, Kind
  <1>4. token' \in [Slot -> Cell]
    BY <1>1, <1>3, NoTokenType DEF TypeOK
  <1>5. acq' \in [Owner -> SUBSET Change]
    BY <1>1 DEF TypeOK
  <1>6. fatal' \in [Owner -> BOOLEAN]
    BY <1>1 DEF TypeOK
  <1> QED
    BY <1>4, <1>5, <1>6 DEF TypeOK, Rollback

\* The attempt is over.
LEMMA RolledBackType ==
    ASSUME TypeOK, NEW o \in Owner, RolledBack(o)
    PROVE  TypeOK'
  <1>1. CASE Return(o)
    BY <1>1, ReturnType DEF TypeOK, RolledBack
  <1>2. CASE Goto(o, IF conf[o] # {} THEN "clean" ELSE "backoff")
             /\ UNCHANGED <<batch, cap, idx, side, todo, acq, conf, victim, fatal>>
    <2>1. pc' \in [Owner -> PC]
      BY <1>2 DEF TypeOK, Goto, PC
    <2> QED
      BY <1>2, <2>1 DEF TypeOK, RolledBack
  <1> QED
    BY <1>1, <1>2 DEF RolledBack

\* The look at the conflict met before verification.
LEMMA CleanReadType ==
    ASSUME TypeOK, NEW o \in Owner, CleanRead(o)
    PROVE  TypeOK'
  <1>1. CASE Return(o)
    BY <1>1, ReturnType DEF TypeOK, CleanRead
  <1>2. CASE UNCHANGED <<batch, cap, idx, side, todo, acq, conf, fatal>>
    <2>1. PICK s \in Slot :
            \/ Goto(o, "sweep") /\ victim' = [victim EXCEPT ![o] = token[s].owner]
            \/ Goto(o, "backoff") /\ UNCHANGED victim
            \/ Return(o)
      BY DEF CleanRead, TypeOK
    <2>2. token[s].owner \in Owner \cup {NoOwner}
      BY DEF TypeOK, Cell
    <2>3. victim' \in [Owner -> Owner \cup {NoOwner}]
      BY <2>1, <2>2 DEF TypeOK, Return
    <2>4. pc' \in [Owner -> PC]
      BY <2>1 DEF TypeOK, Goto, PC, Return
    <2> QED
      BY <1>2, <2>3, <2>4 DEF TypeOK, CleanRead
  <1> QED
    BY <1>1, <1>2 DEF CleanRead

\* The next attempt.
LEMMA RetryType ==
    ASSUME TypeOK, NEW o \in Owner, LocalOK(o), Retry(o)
    PROVE  TypeOK'
  <1>1. CASE Return(o)
    BY <1>1, ReturnType DEF TypeOK, Retry
  <1>2. CASE StartAttempt(o, batch[o]) /\ UNCHANGED <<batch, cap>>
    <2>1. batch[o] \in Batches
      BY DEF LocalOK, Retry
    <2> QED
      BY <1>2, <2>1, StartAttemptType DEF TypeOK, Retry
  <1> QED
    BY <1>1, <1>2 DEF Retry

\* The deadline of the call.
LEMMA TimeOutType ==
    ASSUME TypeOK, NEW o \in Owner, TimeOut(o)
    PROVE  TypeOK'
  BY ReturnType DEF TypeOK, TimeOut

\* A release takes the owner mutex.
LEMMA ReleaseStartType ==
    ASSUME TypeOK, NEW o \in Owner, NEW l \in LeaseId, NEW sel \in SUBSET Slot,
           ReleaseStart(o, l, sel)
    PROVE  TypeOK'
  <1>1. rel' \in [Owner -> LeaseId \cup {0}]
    BY DEF TypeOK, ReleaseStart
  <1>2. drop' \in [Owner -> SUBSET Slot]
    BY DEF TypeOK, ReleaseStart
  <1> QED
    BY <1>1, <1>2 DEF TypeOK, ReleaseStart, acqVars

\* A release of one lock file.
LEMMA ReleasePathType ==
    ASSUME TypeOK, NEW o \in Owner, NEW s \in Slot, ReleasePath(o, s)
    PROVE  TypeOK'
  <1>1. [token[s] EXCEPT !.kind = "E"] \in Cell
    BY CellUpdate DEF TypeOK, Kind
  <1>2. token' \in [Slot -> Cell]
    BY <1>1, NoTokenType DEF TypeOK, ReleasePath
  <1>3. rel' \in [Owner -> LeaseId \cup {0}] /\ drop' \in [Owner -> SUBSET Slot]
    BY DEF TypeOK, ReleasePath
  <1>4. leases' \in [Owner -> [LeaseId -> SUBSET Grant]]
    <2> DEFINE new == [l \in LeaseId |->
         CASE ReleaseOutcome(o, s) = "ok" /\ l = rel[o] -> DropGrant(leases[o][l], s)
           [] ReleaseOutcome(o, s) = "lost" -> DropGrant(leases[o][l], s)
           [] OTHER -> leases[o][l]]
    <2>1. \A l \in LeaseId : leases[o][l] \in SUBSET Grant
                             /\ DropGrant(leases[o][l], s) \in SUBSET Grant
      BY DEF TypeOK, DropGrant
    <2>2. new \in [LeaseId -> SUBSET Grant]
      BY <2>1
    <2>3. leases' = [leases EXCEPT ![o] = new]
      BY DEF ReleasePath
    <2> HIDE DEF new
    <2> QED
      BY <2>2, <2>3 DEF TypeOK
  <1> QED
    BY <1>2, <1>3, <1>4 DEF TypeOK, ReleasePath, acqVars

\* refresh_token.
LEMMA RefreshType ==
    ASSUME TypeOK, NEW o \in Owner, NEW s \in Slot, Refresh(o, s)
    PROVE  TypeOK'
  <1>1. [token[s] EXCEPT !.stale = FALSE] \in Cell
    BY CellUpdate DEF TypeOK, Kind
  <1>2. token' \in [Slot -> Cell]
    BY <1>1 DEF TypeOK, Refresh
  <1> QED
    BY <1>2 DEF TypeOK, Refresh, acqVars

\* A token grows stale.
LEMMA ExpireType ==
    ASSUME TypeOK, NEW s \in Slot, Expire(s)
    PROVE  TypeOK'
  <1>1. [token[s] EXCEPT !.stale = TRUE] \in Cell
    BY CellUpdate DEF TypeOK, Kind
  <1>2. token' \in [Slot -> Cell]
    BY <1>1 DEF TypeOK, Expire
  <1>3. lapsed' \in SUBSET Owner
    BY DEF TypeOK, Expire, Users
  <1> QED
    BY <1>2, <1>3 DEF TypeOK, Expire, acqVars

\* The process of an owner ends.
LEMMA CrashType ==
    ASSUME TypeOK, NEW o \in Owner, Crash(o)
    PROVE  TypeOK'
  <1>1. pc' \in [Owner -> PC]
    BY DEF TypeOK, Crash, PC
  <1>2. leases' \in [Owner -> [LeaseId -> SUBSET Grant]]
    BY DEF TypeOK, Crash
  <1>3. rel' \in [Owner -> LeaseId \cup {0}] /\ drop' \in [Owner -> SUBSET Slot]
    BY DEF TypeOK, Crash
  <1>4. acq' \in [Owner -> SUBSET Change]
    BY DEF TypeOK, Crash
  <1> QED
    BY <1>1, <1>2, <1>3, <1>4 DEF TypeOK, Crash

\* A writer without a lock makes a directory.
LEMMA MkdirType ==
    ASSUME TypeOK, NEW p \in Path, Mkdir(p)
    PROVE  TypeOK'
  BY DEF TypeOK, Mkdir, acqVars

-----------------------------------------------------------------------------
(* The locals of the acquire calls *)

\* LocalOK(q) depends on the locals of q only, and on lapsed that grows.
LEMMA LocalFrame ==
    ASSUME NEW q \in Owner, LocalOK(q), lapsed \subseteq lapsed',
           pc'[q] = pc[q], batch'[q] = batch[q], idx'[q] = idx[q],
           side'[q] = side[q], acq'[q] = acq[q], leases'[q] = leases[q],
           rel'[q] = rel[q], drop'[q] = drop[q]
    PROVE  LocalOK(q)'
  BY DEF LocalOK, Held, Req, Target, Slots

\* A step of the call that only moves its program counter.
LEMMA MoveLocal ==
    ASSUME NEW o \in Owner, LocalOK(o), lapsed \subseteq lapsed',
           batch'[o] = batch[o], idx'[o] = idx[o], side'[o] = side[o],
           acq'[o] = acq[o], leases'[o] = leases[o],
           rel'[o] = rel[o], drop'[o] = drop[o],
           pc[o] \notin {"idle", "dead"}, pc'[o] \notin {"idle", "dead"},
           pc'[o] \in Taking \cup {"check"} => pc[o] \in Taking \cup {"check"},
           pc'[o] \in Taking => side[o] \in Side,
           pc'[o] \in Unlocked => acq[o] = {},
           pc[o] \in Unlocked => pc'[o] \in Unlocked
    PROVE  LocalOK(o)'
  BY DEF LocalOK, Held, Req, Target, Slots

\* The locals of a call that returned fit together.
LEMMA ReturnLocal ==
    ASSUME TypeOK, NEW o \in Owner, LocalOK(o), Return(o), lapsed' = lapsed,
           rel'[o] = rel[o], drop'[o] = drop[o],
           leases'[o] = leases[o] \/ rel[o] = 0,
           \A g \in Held(o)' : WellPlaced(g)
    PROVE  LocalOK(o)'
  <1>1. pc'[o] = "idle" /\ acq'[o] = {}
    BY DEF Return, Goto, TypeOK
  <1> QED
    BY <1>1 DEF LocalOK, Unlocked, Taking, Slots

\* The locals of an attempt that starts fit together.
LEMMA StartAttemptLocal ==
    ASSUME TypeOK, NEW o \in Owner, LocalOK(o), NEW b \in Batches,
           StartAttempt(o, b), batch'[o] = b,
           lapsed' = lapsed, rel[o] = 0, rel'[o] = 0, leases'[o] = leases[o]
    PROVE  LocalOK(o)'
  <1>1. pc'[o] = "check" /\ acq'[o] = {} /\ side'[o] = "none" /\ idx'[o] = 1
    BY DEF StartAttempt, Goto, TypeOK
  <1>2. 1 \in 1..Len(b)
    BY BatchAssumption
  <1>3. Held(o)' = Held(o)
    BY DEF Held
  <1> QED
    BY <1>1, <1>2, <1>3 DEF LocalOK, Unlocked, Taking, Side

\* The locals fit together when a request is done: the next one, or verification.
LEMMA AcquiredLocal ==
    ASSUME TypeOK, NEW o \in Owner, LocalOK(o), pc[o] \in Taking,
           NEW h \in {"created", "reentrant", "upgraded"}, NEW w \in BOOLEAN,
           w => o \in lapsed, Acquired(o, h, w),
           lapsed' = lapsed, batch' = batch, leases' = leases, rel' = rel, drop' = drop
    PROVE  LocalOK(o)'
  <1> DEFINE c == [i |-> idx[o], slot |-> Target(o), kind |-> Req(o).kind,
                   how |-> h, was |-> w]
  <1>1. idx[o] \in 1..Len(batch[o]) /\ Len(batch[o]) \in Nat /\ batch[o] \in Batches
    BY ReqType DEF LocalOK, Taking
  <1>2. acq'[o] = acq[o] \cup {c} /\ side'[o] = "none"
    BY DEF Acquired, TypeOK
  <1>3. \/ pc'[o] = "check" /\ idx[o] < Len(batch[o]) /\ idx'[o] = idx[o] + 1
        \/ pc'[o] = "verify" /\ idx'[o] = 1
    BY DEF Acquired, TypeOK, Goto
  <1>4. idx'[o] \in 1..Len(batch[o])
    BY <1>1, <1>3
  <1>5. rel[o] = 0
    BY DEF LocalOK, Taking, Unlocked
  <1>6. Held(o)' = Held(o)
    BY DEF Held
  <1>7. WellPlaced([slot |-> c.slot, kind |-> c.kind])
    BY DEF LocalOK, Taking
  <1>8. /\ c.i = idx[o] /\ c.slot[1] = batch[o][c.i].path
        /\ c.kind = batch[o][c.i].kind /\ (c.was => o \in lapsed)
    BY DEF Target, Req
  <1>9. \A a \in acq[o] : a.i < idx[o]
    BY DEF LocalOK, Taking
  <1> HIDE DEF c
  <1>10. pc'[o] \in Taking \cup {"check"} => \A a \in acq'[o] : a.i < idx'[o]
    <2> SUFFICES ASSUME pc'[o] \in Taking \cup {"check"}, NEW a \in acq'[o]
                 PROVE  a.i < idx'[o]
      OBVIOUS
    <2>1. idx'[o] = idx[o] + 1
      BY <1>3 DEF Taking
    <2>2. CASE a \in acq[o]
      <3>1. a.i \in Nat
        BY <2>2 DEF TypeOK, Change
      <3> QED
        BY <2>1, <2>2, <3>1, <1>9, <1>1
    <2>3. CASE a = c
      BY <2>1, <2>3, <1>8, <1>1
    <2> QED
      BY <2>2, <2>3, <1>2
  <1>11. \A a \in acq'[o] : /\ a.i \in 1..Len(batch[o])
                            /\ a.slot[1] = batch[o][a.i].path
                            /\ a.kind = batch[o][a.i].kind
                            /\ WellPlaced([slot |-> a.slot, kind |-> a.kind])
                            /\ a.was => o \in lapsed
    BY <1>1, <1>2, <1>7, <1>8 DEF LocalOK
  <1>12. \A a, b \in acq'[o] : a.i = b.i => a = b
    <2>1. \A a \in acq[o] : a.i # c.i
      <3>1. \A a \in acq[o] : a.i \in Nat
        BY DEF TypeOK, Change
      <3> QED
        BY <3>1, <1>1, <1>8, <1>9
    <2>2. \A a, b \in acq[o] : a.i = b.i => a = b
      BY DEF LocalOK
    <2> QED
      BY <1>2, <2>1, <2>2
  <1> QED
    BY <1>1, <1>2, <1>3, <1>4, <1>5, <1>6, <1>10, <1>11, <1>12 DEF LocalOK, Taking, Unlocked, Side

-----------------------------------------------------------------------------
(* Steps leave the locals of other owners alone *)

SameLocals(q) ==
    /\ pc'[q] = pc[q] /\ batch'[q] = batch[q] /\ idx'[q] = idx[q]
    /\ side'[q] = side[q] /\ todo'[q] = todo[q] /\ acq'[q] = acq[q]
    /\ victim'[q] = victim[q] /\ leases'[q] = leases[q]
    /\ rel'[q] = rel[q] /\ drop'[q] = drop[q]

\* A step of an owner touches its own locals only, and lets nobody lapse.
LEMMA Frame ==
    ASSUME TypeOK, NEW o \in Owner, OwnerStep(o)
    PROVE  lapsed' = lapsed /\ \A q \in Owner \ {o} : SameLocals(q)
  <1> USE DEF TypeOK
  <1>1. CASE Stat(o)
    BY <1>1 DEF SameLocals, Stat
  <1>2. CASE EnsureLockDir(o)
    BY <1>2 DEF SameLocals, EnsureLockDir, Goto
  <1>3. CASE TakeRead(o)
    BY <1>3 DEF SameLocals, TakeRead, Fail, Goto, Acquired
  <1>4. CASE Upgrade(o)
    BY <1>4 DEF SameLocals, Upgrade, Fail, Goto, Acquired
  <1>5. CASE \E s \in Slot : CheckRead(o, s)
    BY <1>5 DEF SameLocals, CheckRead, Fail, Goto
  <1>6. CASE TakeRemove(o)
    BY <1>6 DEF SameLocals, TakeRemove, RemoveToken, Fail, Goto
  <1>7. CASE TakeUnlink(o)
    BY <1>7 DEF SameLocals, TakeUnlink, UnlinkToken, Goto
  <1>8. CASE Create(o)
    BY <1>8 DEF SameLocals, Create, Fail, Goto, Acquired
  <1>9. CASE Write(o)
    BY <1>9 DEF SameLocals, Write, Acquired, Goto
  <1>10. CASE VerifyNext(o)
    BY <1>10 DEF SameLocals, VerifyNext
  <1>11. CASE \E l \in LeaseId : Publish(o, l)
    BY <1>11 DEF SameLocals, Publish, Return, Goto
  <1>12. CASE Rollback(o)
    BY <1>12 DEF SameLocals, Rollback
  <1>13. CASE RolledBack(o)
    BY <1>13 DEF SameLocals, RolledBack, Return, Goto
  <1>14. CASE CleanRead(o)
    BY <1>14 DEF SameLocals, CleanRead, Return, Goto
  <1>15. CASE Sweep(o)
    BY <1>15 DEF SameLocals, Sweep, RemoveToken, Return, Goto
  <1>16. CASE SweepUnlink(o)
    BY <1>16 DEF SameLocals, SweepUnlink, UnlinkToken, Goto
  <1>17. CASE Retry(o)
    BY <1>17 DEF SameLocals, Retry, Return, StartAttempt, Goto
  <1>18. CASE \E b \in Batches, c \in LeaseId \cup {0} : Begin(o, b, c)
    BY <1>18 DEF SameLocals, Begin, StartAttempt, Goto
  <1>19. CASE TimeOut(o)
    BY <1>19 DEF SameLocals, TimeOut, Return, Goto
  <1>20. CASE \E l \in LeaseId, sel \in SUBSET Slot : ReleaseStart(o, l, sel)
    BY <1>20 DEF SameLocals, ReleaseStart, acqVars
  <1>21. CASE \E s \in Slot : ReleasePath(o, s)
    BY <1>21 DEF SameLocals, ReleasePath, acqVars
  <1>22. CASE \E s \in Slot : Refresh(o, s)
    BY <1>22 DEF SameLocals, Refresh, acqVars
  <1>23. CASE Crash(o)
    BY <1>23 DEF SameLocals, Crash
  <1> QED
    BY <1>1, <1>2, <1>3, <1>4, <1>5, <1>6, <1>7, <1>8, <1>9, <1>10,
       <1>11, <1>12, <1>13, <1>14, <1>15, <1>16, <1>17, <1>18, <1>19, <1>20, <1>21, <1>22, <1>23 DEF OwnerStep, AcquireStep

\* Any step of the owner keeps its own locals consistent.
LEMMA LocalStep ==
    ASSUME TypeOK, TokenOK, NEW o \in Owner, LocalOK(o), OwnerStep(o)
    PROVE  LocalOK(o)'
  <1>1. CASE Stat(o)
    <2>1. Req(o) \in Request
      BY <1>1, ReqType DEF Stat
    <2>2. side'[o] \in Side /\ WellPlaced([slot |-> <<Req(o).path, side'[o]>>, kind |-> Req(o).kind])
      BY <1>1, <2>1 DEF Stat, TypeOK, Resolve, Side, WellPlaced, Request, Kind
    <2>3. Req(o)' = Req(o) /\ Target(o)' = <<Req(o).path, side'[o]>> /\ Held(o)' = Held(o)
      BY <1>1 DEF Stat, Req, Target, Held
    <2> QED
      BY <1>1, <2>2, <2>3 DEF Stat, LocalOK, Taking, Unlocked
  <1>2. CASE EnsureLockDir(o)
    BY <1>2, MoveLocal DEF TypeOK, LocalOK, Taking, Unlocked, EnsureLockDir, Goto
  <1>3. CASE TakeRead(o)
    <2>1. Target(o) \in Slot /\ pc[o] = "take"
      BY <1>3, TargetType DEF Taking, TakeRead
    <2>2. token[Target(o)].stale \in BOOLEAN
      BY <2>1 DEF TypeOK, Cell
    <2>3. IsToken(token[Target(o)]) /\ token[Target(o)].owner = o /\ token[Target(o)].stale
            => o \in lapsed
      BY <2>1 DEF TokenOK, Dead
    <2>4. CASE IsToken(token[Target(o)]) /\ token[Target(o)].owner = o
               /\ Acquired(o, "reentrant", token[Target(o)].stale)
      BY <1>3, <2>1, <2>2, <2>3, <2>4, AcquiredLocal DEF TakeRead, Taking
    <2>5. CASE UNCHANGED <<idx, acq, side>> /\ pc'[o] \in {"rollback", "create", "upgrade", "remove"}
      BY <1>3, <2>5, MoveLocal DEF TakeRead, LocalOK, Taking, Unlocked
    <2>6. pc \in [Owner -> PC]
      BY DEF TypeOK
    <2> QED
      BY <1>3, <2>4, <2>5, <2>6 DEF TakeRead, Fail, Goto
  <1>4. CASE Upgrade(o)
    <2>1. Target(o) \in Slot /\ pc[o] = "upgrade"
      BY <1>4, TargetType DEF Taking, Upgrade
    <2>2. token[Target(o)].stale \in BOOLEAN
      BY <2>1 DEF TypeOK, Cell
    <2>3. token[Target(o)].owner = o /\ token[Target(o)].stale => o \in lapsed
      BY <2>1, OwnerAssumption DEF TokenOK, Dead
    <2>4. CASE token[Target(o)].owner = o
      BY <1>4, <2>1, <2>2, <2>3, <2>4, AcquiredLocal DEF Upgrade, Taking
    <2>5. CASE token[Target(o)].owner # o
      <3>1. pc'[o] = "rollback"
        BY <1>4, <2>5 DEF TypeOK, Upgrade, Fail, Goto
      <3> QED
        BY <1>4, <2>5, <3>1, MoveLocal DEF Upgrade, LocalOK, Taking, Unlocked
    <2> QED
      BY <2>4, <2>5
  <1>5. CASE \E s \in Slot : CheckRead(o, s)
    <2>1. pc'[o] = pc[o] \/ pc'[o] = "rollback"
      BY <1>5 DEF TypeOK, CheckRead, Fail, Goto
    <2> QED
      BY <1>5, <2>1, MoveLocal DEF LocalOK, CheckRead, Taking, Unlocked
  <1>6. CASE TakeRemove(o)
    <2>1. pc'[o] \in {"create", "unlink", "rollback"}
      BY <1>6 DEF TypeOK, TakeRemove, RemoveToken, Fail, Goto
    <2> QED
      BY <1>6, <2>1, MoveLocal DEF LocalOK, TakeRemove, Taking, Unlocked
  <1>7. CASE TakeUnlink(o)
    BY <1>7, MoveLocal DEF TypeOK, LocalOK, Taking, Unlocked, TakeUnlink, UnlinkToken, Goto
  <1>8. CASE Create(o)
    <2>1. pc[o] \in Taking
      BY <1>8 DEF Taking, Create
    <2>2. CASE Acquired(o, "created", FALSE)
      BY <1>8, <2>1, <2>2, AcquiredLocal DEF Create
    <2>3. CASE UNCHANGED <<idx, acq, side>> /\ pc'[o] \in {"write", "rollback"}
      BY <1>8, <2>3, MoveLocal DEF Create, LocalOK, Taking, Unlocked
    <2>4. pc \in [Owner -> PC]
      BY DEF TypeOK
    <2> QED
      BY <1>8, <2>2, <2>3, <2>4 DEF Create, Fail, Goto
  <1>9. CASE Write(o)
    BY <1>9, AcquiredLocal DEF Write, Taking
  <1>10. CASE VerifyNext(o)
    <2>1. idx[o] \in Nat /\ idx'[o] = idx[o] + 1 /\ Len(batch[o]) \in Nat /\ idx[o] < Len(batch[o])
      BY <1>10, ReqType DEF TypeOK, VerifyNext
    <2>2. idx'[o] \in 1..Len(batch[o]) /\ Held(o)' = Held(o)
      BY <1>10, <2>1 DEF VerifyNext, Held
    <2> QED
      BY <1>10, <2>2 DEF VerifyNext, LocalOK, Taking, Unlocked
  <1>11. CASE \E l \in LeaseId : Publish(o, l)
    <2>1. PICK l \in LeaseId : Publish(o, l)
      BY <1>11
    <2>2. rel[o] = 0 /\ Return(o)
      BY <2>1 DEF Publish, LocalOK, Unlocked
    <2>3. \A g \in Held(o)' : WellPlaced(g)
      <3> SUFFICES ASSUME NEW g \in Held(o)' PROVE WellPlaced(g)
        OBVIOUS
      <3>1. g \in Held(o) \/ g \in GrantsOf(acq[o])
        BY <2>1 DEF Held, Publish, TypeOK
      <3>2. \A a \in acq[o] : WellPlaced([slot |-> a.slot, kind |-> a.kind])
        BY DEF LocalOK
      <3> QED
        BY <3>1, <3>2 DEF LocalOK, GrantsOf
    <2> QED
      BY <2>1, <2>2, <2>3, ReturnLocal DEF Publish
  <1>12. CASE Rollback(o)
    <2>1. acq'[o] \subseteq acq[o] /\ Held(o)' = Held(o)
      BY <1>12 DEF Rollback, TypeOK, Held
    <2> QED
      BY <1>12, <2>1 DEF Rollback, LocalOK, Taking, Unlocked
  <1>13. CASE RolledBack(o)
    <2>1. CASE Return(o)
      <3>1. Held(o)' = Held(o)
        BY <1>13 DEF Held, RolledBack
      <3> QED
        BY <1>13, <2>1, <3>1, ReturnLocal DEF RolledBack, LocalOK
    <2>2. CASE pc'[o] \in {"clean", "backoff"} /\ UNCHANGED <<batch, cap, idx, side, todo, acq>>
      BY <1>13, <2>2, MoveLocal DEF RolledBack, Taking, Unlocked
    <2>3. pc \in [Owner -> PC]
      BY DEF TypeOK
    <2> QED
      BY <1>13, <2>1, <2>2, <2>3 DEF RolledBack, Goto
  <1>14. CASE CleanRead(o)
    <2>1. CASE Return(o)
      <3>1. Held(o)' = Held(o)
        BY <1>14 DEF Held, CleanRead
      <3> QED
        BY <1>14, <2>1, <3>1, ReturnLocal DEF CleanRead, LocalOK
    <2>2. CASE pc'[o] \in {"sweep", "backoff"} /\ UNCHANGED <<batch, cap, idx, side, todo, acq>>
      BY <1>14, <2>2, MoveLocal DEF LocalOK, CleanRead, Taking, Unlocked
    <2>3. pc \in [Owner -> PC]
      BY DEF TypeOK
    <2> QED
      BY <1>14, <2>1, <2>2, <2>3 DEF CleanRead, Goto
  <1>15. CASE Sweep(o)
    <2>1. CASE Return(o)
      <3>1. Held(o)' = Held(o)
        BY <1>15 DEF Held, Sweep
      <3> QED
        BY <1>15, <2>1, <3>1, ReturnLocal DEF Sweep, LocalOK
    <2>2. CASE pc'[o] \in {"sweepUnlink", "backoff"} /\ UNCHANGED <<batch, cap, idx, side, todo, acq>>
      BY <1>15, <2>2, MoveLocal DEF LocalOK, Sweep, Taking, Unlocked
    <2>3. pc \in [Owner -> PC]
      BY DEF TypeOK
    <2> QED
      BY <1>15, <2>1, <2>2, <2>3 DEF Sweep, RemoveToken, Goto
  <1>16. CASE SweepUnlink(o)
    <2>1. pc'[o] = "backoff"
      BY <1>16 DEF TypeOK, SweepUnlink, UnlinkToken, Goto
    <2> QED
      BY <1>16, <2>1, MoveLocal DEF LocalOK, SweepUnlink, Taking, Unlocked
  <1>17. CASE Retry(o)
    <2>1. CASE Return(o)
      <3>1. Held(o)' = Held(o)
        BY <1>17 DEF Held, Retry
      <3> QED
        BY <1>17, <2>1, <3>1, ReturnLocal DEF Retry, LocalOK
    <2>2. CASE StartAttempt(o, batch[o]) /\ UNCHANGED <<batch, cap>>
      <3>1. batch[o] \in Batches
        BY <1>17 DEF Retry, LocalOK
      <3> QED
        BY <1>17, <2>2, <3>1, StartAttemptLocal DEF Retry
    <2> QED
      BY <1>17, <2>1, <2>2 DEF Retry
  <1>18. CASE \E b \in Batches, c \in LeaseId \cup {0} : Begin(o, b, c)
    <2>1. PICK b \in Batches, c \in LeaseId \cup {0} : Begin(o, b, c)
      BY <1>18
    <2>2. batch'[o] = b
      BY <2>1 DEF Begin, TypeOK
    <2> QED
      BY <2>1, <2>2, StartAttemptLocal DEF Begin
  <1>19. CASE TimeOut(o)
    <2>1. Held(o)' = Held(o)
      BY <1>19 DEF Held, TimeOut
    <2> QED
      BY <1>19, <2>1, ReturnLocal DEF TimeOut, LocalOK
  <1>20. CASE \E l \in LeaseId, sel \in SUBSET Slot : ReleaseStart(o, l, sel)
    <2>1. PICK l \in LeaseId, sel \in SUBSET Slot : ReleaseStart(o, l, sel)
      BY <1>20
    <2>2. pc[o] \in Unlocked /\ rel'[o] = l /\ drop'[o] = sel /\ sel \subseteq Slots(leases[o][l])
      BY <2>1 DEF ReleaseStart, MutexFree, Unlocked, TypeOK
    <2>3. Held(o)' = Held(o) /\ Req(o)' = Req(o) /\ Target(o)' = Target(o)
      BY <2>1 DEF ReleaseStart, Held, Req, Target, acqVars
    <2> QED
      BY <2>1, <2>2, <2>3 DEF ReleaseStart, LocalOK, acqVars, Slots
  <1>21. CASE \E s \in Slot : ReleasePath(o, s)
    <2>1. PICK s \in Slot : ReleasePath(o, s)
      BY <1>21
    <2>2. pc[o] \in Unlocked /\ drop'[o] = drop[o] \ {s} /\ (rel'[o] = rel[o] \/ rel'[o] = 0)
          /\ drop[o] \subseteq Slots(leases[o][rel[o]]) /\ rel[o] \in LeaseId
      BY <2>1 DEF ReleasePath, LocalOK, TypeOK
    <2>3. \A l \in LeaseId : leases'[o][l] = leases[o][l] \/ leases'[o][l] = DropGrant(leases[o][l], s)
      BY <2>1 DEF ReleasePath, TypeOK
    <2>4. Held(o)' \subseteq Held(o)
      BY <2>3 DEF Held, DropGrant
    <2>5. drop'[o] \subseteq Slots(leases'[o][rel[o]])
      BY <2>2, <2>3 DEF Slots, DropGrant
    <2>6. Req(o)' = Req(o) /\ Target(o)' = Target(o)
      BY <2>1 DEF ReleasePath, Req, Target, acqVars
    <2> QED
      BY <2>1, <2>2, <2>4, <2>5, <2>6 DEF ReleasePath, LocalOK, acqVars, Slots
  <1>22. CASE \E s \in Slot : Refresh(o, s)
    BY <1>22, LocalFrame DEF Refresh, acqVars
  <1>23. CASE Crash(o)
    <2>1. pc'[o] = "dead" /\ Held(o)' = {} /\ rel'[o] = 0 /\ acq'[o] = {}
      BY <1>23 DEF Crash, Held, TypeOK
    <2> QED
      BY <2>1 DEF LocalOK, Taking, Unlocked
  <1> QED
    BY <1>1, <1>2, <1>3, <1>4, <1>5, <1>6, <1>7, <1>8, <1>9, <1>10,
       <1>11, <1>12, <1>13, <1>14, <1>15, <1>16, <1>17, <1>18, <1>19, <1>20, <1>21, <1>22, <1>23 DEF OwnerStep, AcquireStep

-----------------------------------------------------------------------------
(* Tokens and victims *)

\* Crashed owners stay crashed.
LEMMA DeadGrows ==
    ASSUME TypeOK, NEW o \in Owner, OwnerStep(o)
    PROVE  Dead \subseteq Dead'
  <1>1. CASE Stat(o)
    BY <1>1 DEF TypeOK, Dead, Stat
  <1>2. CASE EnsureLockDir(o)
    BY <1>2 DEF TypeOK, Dead, EnsureLockDir, Goto
  <1>3. CASE TakeRead(o)
    BY <1>3 DEF TypeOK, Dead, TakeRead, Fail, Goto, Acquired
  <1>4. CASE Upgrade(o)
    BY <1>4 DEF TypeOK, Dead, Upgrade, Fail, Goto, Acquired
  <1>5. CASE \E s \in Slot : CheckRead(o, s)
    BY <1>5 DEF TypeOK, Dead, CheckRead, Fail, Goto
  <1>6. CASE TakeRemove(o)
    BY <1>6 DEF TypeOK, Dead, TakeRemove, RemoveToken, Fail, Goto
  <1>7. CASE TakeUnlink(o)
    BY <1>7 DEF TypeOK, Dead, TakeUnlink, UnlinkToken, Goto
  <1>8. CASE Create(o)
    BY <1>8 DEF TypeOK, Dead, Create, Fail, Goto, Acquired
  <1>9. CASE Write(o)
    BY <1>9 DEF TypeOK, Dead, Write, Acquired, Goto
  <1>10. CASE VerifyNext(o)
    BY <1>10 DEF TypeOK, Dead, VerifyNext
  <1>11. CASE \E l \in LeaseId : Publish(o, l)
    BY <1>11 DEF TypeOK, Dead, Publish, Return, Goto
  <1>12. CASE Rollback(o)
    BY <1>12 DEF TypeOK, Dead, Rollback
  <1>13. CASE RolledBack(o)
    BY <1>13 DEF TypeOK, Dead, RolledBack, Return, Goto
  <1>14. CASE CleanRead(o)
    BY <1>14 DEF TypeOK, Dead, CleanRead, Return, Goto
  <1>15. CASE Sweep(o)
    BY <1>15 DEF TypeOK, Dead, Sweep, RemoveToken, Return, Goto
  <1>16. CASE SweepUnlink(o)
    BY <1>16 DEF TypeOK, Dead, SweepUnlink, UnlinkToken, Goto
  <1>17. CASE Retry(o)
    BY <1>17 DEF TypeOK, Dead, Retry, Return, StartAttempt, Goto
  <1>18. CASE \E b \in Batches, c \in LeaseId \cup {0} : Begin(o, b, c)
    BY <1>18 DEF TypeOK, Dead, Begin, StartAttempt, Goto
  <1>19. CASE TimeOut(o)
    BY <1>19 DEF TypeOK, Dead, TimeOut, Return, Goto
  <1>20. CASE \E l \in LeaseId, sel \in SUBSET Slot : ReleaseStart(o, l, sel)
    BY <1>20 DEF TypeOK, Dead, ReleaseStart, MutexFree, acqVars
  <1>21. CASE \E s \in Slot : ReleasePath(o, s)
    BY <1>21 DEF TypeOK, Dead, ReleasePath, acqVars
  <1>22. CASE \E s \in Slot : Refresh(o, s)
    BY <1>22 DEF TypeOK, Dead, Refresh, MutexFree, acqVars
  <1>23. CASE Crash(o)
    BY <1>23 DEF TypeOK, Dead, Crash
  <1> QED
    BY <1>1, <1>2, <1>3, <1>4, <1>5, <1>6, <1>7, <1>8, <1>9, <1>10,
       <1>11, <1>12, <1>13, <1>14, <1>15, <1>16, <1>17, <1>18, <1>19, <1>20, <1>21, <1>22, <1>23 DEF OwnerStep, AcquireStep

CellOK(c) ==
    /\ IF IsToken(c) THEN c.owner \in Owner ELSE c.owner = NoOwner
    /\ IsToken(c) /\ c.stale => c.owner \in lapsed \cup Dead

\* The absence of a token is consistent.
LEMMA NoTokenOK == CellOK(NoToken)
  BY DEF CellOK, NoToken, IsToken, Kind

\* What the owner writes into a lock file is well formed and not stale,
\* unless it lapsed.
LEMMA CellsStep ==
    ASSUME TypeOK, NEW o \in Owner, LocalOK(o), OwnerStep(o),
           \A s \in Slot : CellOK(token[s])
    PROVE  \A s \in Slot : CellOK(token'[s])
  <1>1. CASE Stat(o)
    BY <1>1 DEF Stat
  <1>2. CASE EnsureLockDir(o)
    BY <1>2 DEF EnsureLockDir
  <1>3. CASE TakeRead(o)
    BY <1>3 DEF TakeRead
  <1>4. CASE Upgrade(o)
    <2>1. CellOK(Fresh(token[Target(o)], o, "T"))
      BY DEF CellOK, Fresh, IsToken, Kind
    <2>2. \A s \in Slot : token'[s] \in {token[s], Fresh(token[Target(o)], o, "T")}
      BY <1>4 DEF Upgrade, TypeOK
    <2> QED
      BY <2>1, <2>2
  <1>5. CASE \E s \in Slot : CheckRead(o, s)
    BY <1>5 DEF CheckRead
  <1>6. CASE TakeRemove(o)
    BY <1>6, NoTokenOK DEF TakeRemove, RemoveToken, TypeOK
  <1>7. CASE TakeUnlink(o)
    BY <1>7, NoTokenOK DEF TakeUnlink, UnlinkToken, TypeOK
  <1>8. CASE Create(o)
    <2>1. Req(o) \in Request
      BY <1>8, ReqType DEF Create
    <2>2. CellOK(Fresh(token[Target(o)], o, Req(o).kind)) /\ CellOK(EmptyFile(o))
      BY <2>1 DEF CellOK, Fresh, EmptyFile, IsToken, Kind, Request
    <2>3. \A s \in Slot : token'[s] \in {token[s], EmptyFile(o), Fresh(token[Target(o)], o, Req(o).kind)}
      BY <1>8 DEF Create, TypeOK
    <2> QED
      BY <2>2, <2>3
  <1>9. CASE Write(o)
    <2>1. Req(o) \in Request
      BY <1>9, ReqType DEF Write
    <2>2. CellOK(Fresh(token[Target(o)], o, Req(o).kind))
      BY <2>1 DEF CellOK, Fresh, IsToken, Kind, Request
    <2>3. \A s \in Slot : token'[s] \in {token[s], Fresh(token[Target(o)], o, Req(o).kind)}
      BY <1>9 DEF Write, TypeOK
    <2> QED
      BY <2>2, <2>3
  <1>10. CASE VerifyNext(o)
    BY <1>10 DEF VerifyNext
  <1>11. CASE \E l \in LeaseId : Publish(o, l)
    BY <1>11 DEF Publish
  <1>12. CASE Rollback(o)
    <2>1. PICK a \in acq[o] : token' = [token EXCEPT ![a.slot] =
               IF token[a.slot].owner = o /\ a.how = "created" THEN NoToken
               ELSE IF token[a.slot].owner = o /\ a.how = "upgraded"
                    THEN [@ EXCEPT !.kind = "E", !.stale = a.was]
               ELSE @]
      BY <1>12 DEF Rollback
    <2>2. a.slot \in Slot /\ a.was \in BOOLEAN /\ (a.was => o \in lapsed)
      <3>1. a \in Change
        BY DEF TypeOK
      <3>2. a.was => o \in lapsed
        BY DEF LocalOK
      <3> QED
        BY <3>1, <3>2 DEF Change
    <2>3. token[a.slot].owner = o => CellOK([token[a.slot] EXCEPT !.kind = "E", !.stale = a.was])
      BY <2>2 DEF CellOK, IsToken, Kind, TypeOK, Cell
    <2>4. \A s \in Slot \ {a.slot} : token'[s] = token[s]
      BY <2>1 DEF TypeOK
    <2>5. CellOK(token'[a.slot])
      BY <2>1, <2>2, <2>3, NoTokenOK DEF TypeOK
    <2> QED
      BY <2>4, <2>5
  <1>13. CASE RolledBack(o)
    BY <1>13 DEF RolledBack
  <1>14. CASE CleanRead(o)
    BY <1>14 DEF CleanRead
  <1>15. CASE Sweep(o)
    BY <1>15, NoTokenOK DEF Sweep, RemoveToken, TypeOK
  <1>16. CASE SweepUnlink(o)
    BY <1>16, NoTokenOK DEF SweepUnlink, UnlinkToken, TypeOK
  <1>17. CASE Retry(o)
    BY <1>17 DEF Retry
  <1>18. CASE \E b \in Batches, c \in LeaseId \cup {0} : Begin(o, b, c)
    BY <1>18 DEF Begin
  <1>19. CASE TimeOut(o)
    BY <1>19 DEF TimeOut
  <1>20. CASE \E l \in LeaseId, sel \in SUBSET Slot : ReleaseStart(o, l, sel)
    BY <1>20 DEF ReleaseStart
  <1>21. CASE \E s \in Slot : ReleasePath(o, s)
    <2>1. PICK s \in Slot : ReleasePath(o, s)
      BY <1>21
    <2>2. CellOK(token[s]) /\ token[s].owner = o => CellOK([token[s] EXCEPT !.kind = "E"])
      BY OwnerAssumption DEF CellOK, IsToken, Kind, TypeOK, Cell
    <2>3. \A x \in Slot \ {s} : token'[x] = token[x]
      BY <2>1 DEF ReleasePath, TypeOK
    <2>4. CellOK(token'[s])
      BY <2>1, <2>2, NoTokenOK DEF ReleasePath, TypeOK
    <2> QED
      BY <2>3, <2>4
  <1>22. CASE \E s \in Slot : Refresh(o, s)
    <2>1. PICK s \in Slot : Refresh(o, s)
      BY <1>22
    <2>2. CellOK(token[s]) => CellOK([token[s] EXCEPT !.stale = FALSE])
      BY DEF CellOK, IsToken, Kind, TypeOK, Cell
    <2>3. \A x \in Slot \ {s} : token'[x] = token[x]
      BY <2>1 DEF Refresh, TypeOK
    <2>4. CellOK(token'[s])
      BY <2>1, <2>2 DEF Refresh, TypeOK
    <2> QED
      BY <2>3, <2>4
  <1>23. CASE Crash(o)
    BY <1>23 DEF Crash
  <1> QED
    BY <1>1, <1>2, <1>3, <1>4, <1>5, <1>6, <1>7, <1>8, <1>9, <1>10,
       <1>11, <1>12, <1>13, <1>14, <1>15, <1>16, <1>17, <1>18, <1>19, <1>20, <1>21, <1>22, <1>23 DEF OwnerStep, AcquireStep

Evicting == {"remove", "unlink", "sweep", "sweepUnlink"}
VictimOK(o) == pc[o] \in Evicting => victim[o] \in lapsed \cup Dead

\* A call evicts the owner of a token it found stale.
LEMMA VictimStep ==
    ASSUME TypeOK, NEW o \in Owner, LocalOK(o), OwnerStep(o), VictimOK(o),
           \A s \in Slot : CellOK(token[s])
    PROVE  pc'[o] \in Evicting => victim'[o] \in lapsed \cup Dead
  <1>1. CASE Stat(o)
    BY <1>1 DEF TypeOK, VictimOK, Evicting, Stat
  <1>2. CASE EnsureLockDir(o)
    BY <1>2 DEF TypeOK, VictimOK, Evicting, EnsureLockDir, Goto
  <1>3. CASE TakeRead(o)
    <2>1. Target(o) \in Slot
      BY <1>3, TargetType DEF TakeRead, Taking
    <2>2. CASE pc'[o] = "remove"
      BY <1>3, <2>1, <2>2 DEF TakeRead, Fail, Goto, Acquired, TypeOK, CellOK, IsStale
    <2>3. pc'[o] \in {"remove", "rollback", "create", "upgrade", "check", "verify"}
      BY <1>3 DEF TakeRead, Fail, Goto, Acquired, TypeOK
    <2> QED
      BY <2>2, <2>3 DEF Evicting
  <1>4. CASE Upgrade(o)
    BY <1>4 DEF TypeOK, VictimOK, Evicting, Upgrade, Fail, Goto, Acquired
  <1>5. CASE \E s \in Slot : CheckRead(o, s)
    BY <1>5 DEF TypeOK, VictimOK, Evicting, CheckRead, Fail, Goto
  <1>6. CASE TakeRemove(o)
    BY <1>6 DEF TakeRemove, VictimOK, Evicting
  <1>7. CASE TakeUnlink(o)
    BY <1>7 DEF TypeOK, VictimOK, Evicting, TakeUnlink, UnlinkToken, Goto
  <1>8. CASE Create(o)
    BY <1>8 DEF TypeOK, VictimOK, Evicting, Create, Fail, Goto, Acquired
  <1>9. CASE Write(o)
    BY <1>9 DEF TypeOK, VictimOK, Evicting, Write, Acquired, Goto
  <1>10. CASE VerifyNext(o)
    BY <1>10 DEF TypeOK, VictimOK, Evicting, VerifyNext
  <1>11. CASE \E l \in LeaseId : Publish(o, l)
    BY <1>11 DEF TypeOK, VictimOK, Evicting, Publish, Return, Goto
  <1>12. CASE Rollback(o)
    BY <1>12 DEF TypeOK, VictimOK, Evicting, Rollback
  <1>13. CASE RolledBack(o)
    BY <1>13 DEF TypeOK, VictimOK, Evicting, RolledBack, Return, Goto
  <1>14. CASE CleanRead(o)
    <2>1. PICK s \in Slot :
            \/ /\ IsToken(token[s]) /\ IsStale(token[s])
               /\ victim' = [victim EXCEPT ![o] = token[s].owner]
            \/ Goto(o, "backoff")
            \/ Return(o)
      BY <1>14 DEF CleanRead, TypeOK
    <2> QED
      BY <2>1 DEF Goto, Return, TypeOK, CellOK, IsStale, Evicting
  <1>15. CASE Sweep(o)
    <2>1. victim' = victim \/ pc'[o] = "idle"
      BY <1>15 DEF Sweep, Return, Goto, TypeOK
    <2> QED
      BY <1>15, <2>1 DEF Sweep, VictimOK, Evicting
  <1>16. CASE SweepUnlink(o)
    BY <1>16 DEF TypeOK, VictimOK, Evicting, SweepUnlink, UnlinkToken, Goto
  <1>17. CASE Retry(o)
    BY <1>17 DEF TypeOK, VictimOK, Evicting, Retry, Return, StartAttempt, Goto
  <1>18. CASE \E b \in Batches, c \in LeaseId \cup {0} : Begin(o, b, c)
    BY <1>18 DEF TypeOK, VictimOK, Evicting, Begin, StartAttempt, Goto
  <1>19. CASE TimeOut(o)
    BY <1>19 DEF TypeOK, VictimOK, Evicting, TimeOut, Return, Goto
  <1>20. CASE \E l \in LeaseId, sel \in SUBSET Slot : ReleaseStart(o, l, sel)
    BY <1>20 DEF TypeOK, VictimOK, Evicting, ReleaseStart, MutexFree, acqVars
  <1>21. CASE \E s \in Slot : ReleasePath(o, s)
    BY <1>21 DEF TypeOK, VictimOK, Evicting, ReleasePath, acqVars
  <1>22. CASE \E s \in Slot : Refresh(o, s)
    BY <1>22 DEF TypeOK, VictimOK, Evicting, Refresh, MutexFree, acqVars
  <1>23. CASE Crash(o)
    BY <1>23 DEF TypeOK, VictimOK, Evicting, Crash
  <1> QED
    BY <1>1, <1>2, <1>3, <1>4, <1>5, <1>6, <1>7, <1>8, <1>9, <1>10,
       <1>11, <1>12, <1>13, <1>14, <1>15, <1>16, <1>17, <1>18, <1>19, <1>20, <1>21, <1>22, <1>23 DEF OwnerStep, AcquireStep

\* Every step of an owner keeps TokenOK.
LEMMA TokenStep ==
    ASSUME TypeOK, TokenOK, NEW o \in Owner, LocalOK(o), OwnerStep(o)
    PROVE  TokenOK'
  <1>1. Dead \subseteq Dead' /\ lapsed' = lapsed
    BY DeadGrows, Frame
  <1>2. \A s \in Slot : CellOK(token[s])
    BY DEF TokenOK, CellOK
  <1>3. \A s \in Slot : CellOK(token'[s])
    BY <1>2, CellsStep
  <1>4. \A q \in Owner : pc'[q] \in Evicting => victim'[q] \in lapsed \cup Dead
    <2>1. \A q \in Owner : VictimOK(q)
      BY DEF TokenOK, VictimOK, Evicting
    <2>2. \A q \in Owner \ {o} : pc'[q] = pc[q] /\ victim'[q] = victim[q]
      BY Frame DEF SameLocals
    <2>3. pc'[o] \in Evicting => victim'[o] \in lapsed \cup Dead
      BY <1>2, <2>1, VictimStep
    <2> QED
      BY <2>1, <2>2, <2>3 DEF VictimOK
  <1> QED
    BY <1>1, <1>3, <1>4 DEF TokenOK, CellOK, Evicting

-----------------------------------------------------------------------------
(* Types, locals and tokens together are inductive *)

\* Every step of an owner keeps the types.
LEMMA TypeStep ==
    ASSUME TypeOK, NEW o \in Owner, LocalOK(o), OwnerStep(o)
    PROVE  TypeOK'
  <1>1. CASE Stat(o)
    BY <1>1, StatType
  <1>2. CASE EnsureLockDir(o)
    BY <1>2, EnsureLockDirType
  <1>3. CASE TakeRead(o)
    BY <1>3, TakeReadType
  <1>4. CASE Upgrade(o)
    BY <1>4, UpgradeType
  <1>5. CASE \E s \in Slot : CheckRead(o, s)
    BY <1>5, CheckReadType
  <1>6. CASE TakeRemove(o)
    BY <1>6, TakeRemoveType
  <1>7. CASE TakeUnlink(o)
    BY <1>7, TakeUnlinkType
  <1>8. CASE Create(o)
    BY <1>8, CreateType
  <1>9. CASE Write(o)
    BY <1>9, WriteType
  <1>10. CASE VerifyNext(o)
    BY <1>10, VerifyNextType
  <1>11. CASE \E l \in LeaseId : Publish(o, l)
    BY <1>11, PublishType
  <1>12. CASE Rollback(o)
    BY <1>12, RollbackType
  <1>13. CASE RolledBack(o)
    BY <1>13, RolledBackType
  <1>14. CASE CleanRead(o)
    BY <1>14, CleanReadType
  <1>15. CASE Sweep(o)
    BY <1>15, SweepType
  <1>16. CASE SweepUnlink(o)
    BY <1>16, SweepUnlinkType
  <1>17. CASE Retry(o)
    BY <1>17, RetryType
  <1>18. CASE \E b \in Batches, c \in LeaseId \cup {0} : Begin(o, b, c)
    BY <1>18, BeginType
  <1>19. CASE TimeOut(o)
    BY <1>19, TimeOutType
  <1>20. CASE \E l \in LeaseId, sel \in SUBSET Slot : ReleaseStart(o, l, sel)
    BY <1>20, ReleaseStartType
  <1>21. CASE \E s \in Slot : ReleasePath(o, s)
    BY <1>21, ReleasePathType
  <1>22. CASE \E s \in Slot : Refresh(o, s)
    BY <1>22, RefreshType
  <1>23. CASE Crash(o)
    BY <1>23, CrashType
  <1> QED
    BY <1>1, <1>2, <1>3, <1>4, <1>5, <1>6, <1>7, <1>8, <1>9, <1>10,
       <1>11, <1>12, <1>13, <1>14, <1>15, <1>16, <1>17, <1>18, <1>19, <1>20, <1>21, <1>22, <1>23 DEF OwnerStep, AcquireStep

\* BaseInv holds at first.
LEMMA BaseInit == Init => BaseInv
  <1> SUFFICES ASSUME Init PROVE BaseInv
    OBVIOUS
  <1>1. TypeOK
    BY InitType
  <1>2. ASSUME NEW o \in Owner PROVE LocalOK(o)
    BY DEF Init, LocalOK, Held, Taking, Unlocked, Slots
  <1>3. TokenOK
    BY DEF Init, TokenOK, NoToken, IsToken, Kind
  <1> QED
    BY <1>1, <1>2, <1>3 DEF BaseInv

\* Every step keeps BaseInv.
LEMMA BaseStep == BaseInv /\ [Next]_vars => BaseInv'
  <1> SUFFICES ASSUME BaseInv, [Next]_vars PROVE BaseInv'
    OBVIOUS
  <1> USE DEF BaseInv
  <1>1. ASSUME NEW o \in Owner, OwnerStep(o) PROVE BaseInv'
    <2>1. TypeOK'
      BY <1>1, TypeStep
    <2>2. TokenOK'
      BY <1>1, TokenStep
    <2>3. LocalOK(o)'
      BY <1>1, LocalStep
    <2>4. ASSUME NEW q \in Owner \ {o} PROVE LocalOK(q)'
      <3>1. SameLocals(q) /\ lapsed' = lapsed
        BY <1>1, Frame
      <3> QED
        BY <3>1, LocalFrame DEF SameLocals
    <2> QED
      BY <2>1, <2>2, <2>3, <2>4
  <1>2. ASSUME NEW s \in Slot, Expire(s) PROVE BaseInv'
    <2>1. TypeOK'
      BY <1>2, ExpireType
    <2>2. ASSUME NEW q \in Owner PROVE LocalOK(q)'
      BY <1>2, LocalFrame DEF Expire, acqVars
    <2>3. TokenOK'
      <3>1. /\ \A x \in Slot \ {s} : token'[x] = token[x]
            /\ token'[s] = [token[s] EXCEPT !.stale = TRUE]
            /\ lapsed' = lapsed \cup Users(s) /\ Dead' = Dead
            /\ pc' = pc /\ victim' = victim
        BY <1>2 DEF Expire, TypeOK, Dead, acqVars
      <3>2. /\ token'[s].owner = token[s].owner /\ token'[s].kind = token[s].kind
        BY <3>1 DEF TypeOK, Cell
      <3>3. IsToken(token[s]) => token[s].owner \in Users(s) \cup Dead
        BY DEF TokenOK, Users
      <3>4. ASSUME NEW x \in Slot
            PROVE  /\ IF IsToken(token'[x]) THEN token'[x].owner \in Owner
                                             ELSE token'[x].owner = NoOwner
                   /\ IsToken(token'[x]) /\ token'[x].stale =>
                        token'[x].owner \in lapsed' \cup Dead'
        BY <3>1, <3>2, <3>3 DEF TokenOK, IsToken
      <3> QED
        BY <3>1, <3>4 DEF TokenOK
    <2> QED
      BY <2>1, <2>2, <2>3
  <1>3. ASSUME NEW p \in Path, Mkdir(p) PROVE BaseInv'
    <2>1. TypeOK'
      BY <1>3, MkdirType
    <2>2. ASSUME NEW q \in Owner PROVE LocalOK(q)'
      BY <1>3, LocalFrame DEF Mkdir, acqVars
    <2>3. TokenOK'
      BY <1>3 DEF Mkdir, acqVars, TokenOK, Dead
    <2> QED
      BY <2>1, <2>2, <2>3
  <1>4. CASE UNCHANGED vars
    <2>1. TypeOK'
      BY <1>4 DEF vars, acqVars, TypeOK
    <2>2. ASSUME NEW q \in Owner PROVE LocalOK(q)'
      BY <1>4, LocalFrame DEF vars, acqVars
    <2>3. TokenOK'
      BY <1>4 DEF vars, acqVars, TokenOK, Dead
    <2> QED
      BY <2>1, <2>2, <2>3
  <1> QED
    BY <1>1, <1>2, <1>3, <1>4 DEF Next

\* Every reachable state of the lock protocol is well typed, for any tree of
\* paths, batches, owners, provider, and any pattern of crashes and stalls.
THEOREM TypeCorrect == Spec => []TypeOK
  <1>1. BaseInv => TypeOK
    BY DEF BaseInv
  <1> QED
    BY <1>1, BaseInit, BaseStep, PTL DEF Spec

=============================================================================
