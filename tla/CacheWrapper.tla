---------------------------- MODULE CacheWrapper ----------------------------
(* CachedFileSystem: a read-through cache, kept by a provider that may fail    *)
(* or forget, in front of a filesystem with a single writing process.          *)
EXTENDS Naturals, Sequences, FiniteSets, SequencesExt

CONSTANTS Path,       \* paths, as sequences of names; <<>> is the root
          Files,      \* those of files; the others are directories
          Data,       \* contents of files
          InitFs,     \* the filesystem the first process starts on
          Admitted,   \* objects the CachePolicy caches: kind and path
          MaxOp,      \* bound: changes of the filesystem
          MaxFault,   \* bound: errors and evictions
          MaxStart    \* bound: starts of the process

\* Path is a finite tree of which files are leaves; a name is either that of files
\* or that of directories, so that a move keeps them apart.
ASSUME CacheAssumption ==
    /\ IsFiniteSet(Path) /\ \A p \in Path : p \in Seq(Range(p))
    /\ <<>> \in Path /\ \A p \in Path \ {<<>>} : Front(p) \in Path
    /\ Files \subseteq Path /\ \A p \in Path, f \in Files : IsPrefix(f, p) => p = f
    /\ \A p, q \in Path \ {<<>>} : Last(p) = Last(q) => (p \in Files <=> q \in Files)
    /\ {"none", "dir"} \cap Data = {}
    /\ InitFs \in [Path -> {"none", "dir"} \cup Data]
    /\ \A p \in Path : InitFs[p] \in Data => p \in Files
    /\ Admitted \subseteq {"file", "dir"} \X Path
    /\ MaxOp \in Nat /\ MaxFault \in Nat /\ MaxStart \in Nat \ {0}

VARIABLES
    fs,         \* the backend: what is at each path
    cache,      \* the provider's envelope of each object
    gen,        \* the provider's subtree generations
    local,      \* generations: the last values this process saw
    start,      \* number of this start, which stands for generation_epoch
    bypass,     \* bypass_scopes
    todo,       \* steps left of the change that holds operation_lock
    raw,        \* steps left of the raw write, which does not hold it
    fill,       \* per object: what a reader got from the backend and will put
    ops, faults,
    suspect,    \* history: objects that changed without being invalidated
    raced       \* history: objects changed by a raw write during a read of them

vars == <<fs, cache, gen, local, start, bypass, todo, raw, fill, ops, faults, suspect, raced>>

-----------------------------------------------------------------------------
(* Paths, objects and steps *)

Parent(p) == IF p = <<>> THEN <<>> ELSE Front(p)
Under(p, s) == IsPrefix(s, p)              \* is_same_or_descendant
Scopes(p) == {s \in Path : Under(p, s)}    \* ancestor_scopes
Children(p) == {q \in Path \ {<<>>} : Parent(q) = p}

Object == {"file", "dir"} \X Path
Content(o) == [q \in IF o[1] = "file" THEN {o[2]} ELSE Children(o[2]) |-> fs[q]]
Readable(o) == IF o[1] = "file" THEN fs[o[2]] \in Data ELSE fs[o[2]] = "dir"
None == [none |-> TRUE]                    \* no envelope, no value
Gen == (1..MaxStart) \X (0..(2 * MaxOp))
NoGen == <<0, 0>>

Step == {"bump", "file", "dir", "fill"} \X Path
PathObjects(p) == <<<<"file", p>>, <<"dir", p>>>>
ParentDirectory(p) == <<<<"dir", Parent(p)>>>>
\* The objects a sequence of steps is to invalidate.
Affected(steps) ==
    {o \in Object : \E i \in 1..Len(steps) :
        \/ o = steps[i]
        \/ steps[i][1] = "bump" /\ Under(o[2], steps[i][2])}

Cached(objects) == {o \in objects : cache[o] # None}

-----------------------------------------------------------------------------
(* Bypass and generations *)

MarkBypass(p) ==
    IF \E s \in bypass : Under(p, s) THEN bypass ELSE {s \in bypass : ~Under(s, p)} \cup {p}
Bypassed(p) == \E s \in bypass : Under(p, s)

MissingIsZero(s) == IF gen[s] # NoGen THEN gen[s] ELSE local[s]  \* mutant: no epoch
\* current_generation: the provider's, else the last one seen, else the epoch.
Current(s) ==
    IF gen[s] # NoGen THEN gen[s] ELSE IF local[s] # NoGen THEN local[s] ELSE <<start, 0>>
Snapshot(p) == [s \in Scopes(p) |-> Current(s)]
Matches(o) == \A s \in Scopes(o[2]) : cache[o].gens[s] = Current(s)

\* current_generations remembers what it returns, and puts what the provider had
\* forgotten; that this put fails looks like forgetting once more.
Learn(p) ==
    /\ local' = [s \in Path |-> IF s \in Scopes(p) THEN Current(s) ELSE local[s]]
    /\ gen' = [s \in Path |-> IF s \in Scopes(p) THEN Current(s) ELSE gen[s]]

Envelope(o, val) == [val |-> val, gens |-> Snapshot(o[2])]
Drop(o) == cache' = [cache EXCEPT ![o] = None]
Clean(o) ==
    /\ suspect' = suspect \ {o}
    /\ raced' = IF fill[o] = None THEN raced \ {o} ELSE raced
Fault == faults < MaxFault /\ faults' = faults + 1

-----------------------------------------------------------------------------
Init ==
    /\ fs = InitFs
    /\ cache = [o \in Object |-> None] /\ fill = [o \in Object |-> None]
    /\ gen = [p \in Path |-> NoGen] /\ local = [p \in Path |-> NoGen]
    /\ start = 1 /\ bypass = {} /\ todo = <<>> /\ raw = <<>>
    /\ ops = 0 /\ faults = 0 /\ suspect = {} /\ raced = {}

-----------------------------------------------------------------------------
(* Changes: the backend's part under operation_lock, then the steps *)

\* Writers exclude each other and every reader between its probe and its fill.
WriteLock == todo = <<>> /\ \A o \in Object : fill[o] = None

\* The backend carried the change out, or failed half way: then the operations
\* other than remove_all return before they invalidate anything.
Change(fs2, steps, always) ==
    /\ WriteLock /\ ops < MaxOp /\ ops' = ops + 1
    /\ fs' = fs2
    /\ \/ todo' = steps /\ UNCHANGED <<faults, suspect>>
       \/ /\ ~always /\ Fault
          /\ suspect' = suspect \cup Cached(Affected(steps)) /\ UNCHANGED todo
    /\ UNCHANGED <<cache, gen, local, start, bypass, raw, fill, raced>>

Put(p, x) == [fs EXCEPT ![p] = x]
Without(p) == [q \in Path |-> IF Under(q, p) THEN "none" ELSE fs[q]]
Present(p) == fs[p] # "none"

Create(p) ==
    /\ p \in Files /\ ~Present(p) /\ fs[Parent(p)] = "dir"
    /\ \E x \in Data : Change(Put(p, x), PathObjects(p) \o ParentDirectory(p), FALSE)

Mkdir(p) ==
    /\ p \notin Files /\ ~Present(p) /\ fs[Parent(p)] = "dir"
    /\ Change(Put(p, "dir"), <<<<"bump", p>>, <<"dir", p>>>> \o ParentDirectory(p), FALSE)

RemoveNoBump(p) == PathObjects(p) \o ParentDirectory(p)     \* mutant: no bump
RemoveSteps(p) == <<<<"bump", p>>>> \o PathObjects(p) \o ParentDirectory(p)
RemoveOne(p) ==
    /\ p # <<>> /\ Present(p) /\ \A q \in Children(p) : ~Present(q)
    /\ Change(Put(p, "none"), RemoveSteps(p), FALSE)
RemoveAll(p) ==
    /\ p # <<>> /\ Present(p) /\ Change(Without(p), RemoveSteps(p), TRUE)

\* A file written as a whole, which may be new, is put into the cache as well;
\* truncate and writes at an offset only delete.
Write(p, whole) ==
    /\ p \in Files /\ (Present(p) \/ fs[Parent(p)] = "dir")
    /\ \E x \in Data :
        Change(Put(p, x),
               <<<<"file", p>>>> \o (IF whole THEN <<<<"fill", p>>>> ELSE <<>>)
                   \o ParentDirectory(p), FALSE)

Moved(p, q) ==
    [r \in Path |-> IF Under(r, q) /\ (p \o SubSeq(r, Len(q) + 1, Len(r))) \in Path
                    THEN fs[p \o SubSeq(r, Len(q) + 1, Len(r))]
                    ELSE IF Under(r, p) THEN "none" ELSE fs[r]]
\* rename; replace differs in the backend only.
Rename(p, q) ==
    /\ q # <<>> /\ (p \in Files <=> q \in Files) /\ Present(p) /\ ~Under(q, p) /\ ~Under(p, q)
    /\ fs[Parent(q)] = "dir" /\ (Present(q) => fs[p] \in Data /\ fs[q] \in Data)
    /\ Change(Moved(p, q),
              <<<<"bump", p>>, <<"bump", q>>>> \o PathObjects(p) \o PathObjects(q)
                  \o ParentDirectory(p) \o ParentDirectory(q), FALSE)

\* ensure_parent_dirs of a path below p
EnsureDirs(p) ==
    /\ p \notin Files
    /\ \E s \in Scopes(p) : ~Present(s)
    /\ Change([s \in Path |-> IF s \in Scopes(p) THEN "dir" ELSE fs[s]],
              SetToSeq({<<"dir", s>> : s \in Scopes(p)}), FALSE)

\* A change of the raw backend, without operation_lock.  A success is followed by
\* invalidate_external_write: the path and its parent, whatever else has changed.  A
\* copy within a multi-write mount is followed by nothing, nor is an error.
RawChange(p, fs2) ==
    /\ raw = <<>> /\ ops < MaxOp /\ ops' = ops + 1 /\ fs' = fs2
    /\ LET changed == {o \in Object : Content(o)' # Content(o)}
       IN  /\ \/ raw' = PathObjects(p) \o ParentDirectory(p) /\ UNCHANGED faults
              \/ raw' = <<>> /\ (Fault \/ UNCHANGED faults)
           /\ suspect' = suspect \cup Cached(changed \ Affected(raw'))
           /\ raced' = raced \cup {o \in changed : fill[o] # None}
    /\ UNCHANGED <<cache, gen, local, start, bypass, todo, fill>>

\* copy_within_mount, which also makes the directories above its target, and
\* compare_and_write.
RawWrite(p) ==
    /\ p \in Files
    /\ \E x \in Data :
        RawChange(p, [q \in Path |-> IF q = p THEN x ELSE IF Under(p, q) THEN "dir" ELSE fs[q]])
\* compare_and_remove
RawRemove(p) == p \in Files /\ Present(p) /\ RawChange(p, Put(p, "none"))

-----------------------------------------------------------------------------
(* The steps of a change *)

\* cache_delete; a failure puts the path into bypass.
Delete(o) ==
    \/ Drop(o) /\ Clean(o) /\ UNCHANGED <<faults, bypass>>
    \/ Fault /\ bypass' = MarkBypass(o[2]) /\ UNCHANGED <<cache, suspect, raced>>

\* bump_generation: the read or the put of the generation may fail.
Bump(p) ==
    LET next == <<Current(p)[1], Current(p)[2] + 1>>
    IN  \/ /\ local' = [local EXCEPT ![p] = next] /\ gen' = [gen EXCEPT ![p] = next]
           /\ UNCHANGED <<faults, bypass>>
        \/ /\ Fault /\ bypass' = MarkBypass(p)
           /\ \/ UNCHANGED <<local, gen>>
              \/ local' = [local EXCEPT ![p] = next] /\ gen' = [gen EXCEPT ![p] = Current(p)]

\* fill_file and fill_directory: put an envelope with the present generations,
\* which may not be readable.
FillWith(o, val) ==
    \/ /\ Learn(o[2])
       /\ \/ /\ cache' = [cache EXCEPT ![o] = Envelope(o, val)]
             /\ suspect' = suspect \ {o} /\ UNCHANGED <<faults, bypass>>
          \/ Fault /\ bypass' = MarkBypass(o[2]) /\ UNCHANGED <<cache, suspect>>
    \/ Fault /\ UNCHANGED <<cache, gen, local, bypass, suspect>>

Take ==
    /\ todo # <<>> /\ todo' = Tail(todo)
    /\ LET s == Head(todo)
           o == <<"file", s[2]>>
       IN  CASE s[1] = "bump" -> Bump(s[2]) /\ UNCHANGED <<cache, suspect, raced>>
             [] s[1] \in {"file", "dir"} -> Delete(s) /\ UNCHANGED <<local, gen>>
             [] s[1] = "fill" ->
                    IF Bypassed(s[2]) \/ o \notin Admitted
                    THEN UNCHANGED <<cache, gen, local, bypass, faults, suspect, raced>>
                    ELSE FillWith(o, Content(o)) /\ UNCHANGED raced
    /\ UNCHANGED <<fs, start, raw, fill, ops>>

TakeRaw ==
    /\ raw # <<>> /\ raw' = Tail(raw) /\ Delete(Head(raw))
    /\ UNCHANGED <<fs, gen, local, start, todo, fill, ops>>

-----------------------------------------------------------------------------
(* Reads, under the shared operation_lock; one reader per object (inflight) *)

MayProbe(o) == o \in Admitted /\ todo = <<>> /\ ~Bypassed(o[2]) /\ fill[o] = None

\* A hit returns the envelope's value.
Hit(o) ==
    /\ MayProbe(o) /\ cache[o] # None /\ Matches(o) /\ Learn(o[2])
    /\ UNCHANGED <<fs, cache, start, bypass, todo, raw, fill, ops, faults, suspect, raced>>

\* A miss, a stale envelope or an error of the provider: the backend is read.
Miss(o) ==
    /\ MayProbe(o) /\ Readable(o) /\ fill' = [fill EXCEPT ![o] = [val |-> Content(o)]]
    /\ \/ cache[o] = None /\ UNCHANGED <<cache, gen, local, faults, bypass, suspect>>
       \/ /\ cache[o] # None /\ ~Matches(o) /\ Learn(o[2])
          /\ \/ Drop(o) /\ suspect' = suspect \ {o} /\ UNCHANGED <<faults, bypass>>
             \/ Fault /\ bypass' = MarkBypass(o[2]) /\ UNCHANGED <<cache, suspect>>
       \/ Fault /\ bypass' = MarkBypass(o[2]) /\ UNCHANGED <<cache, gen, local, suspect>>
    /\ UNCHANGED <<fs, start, todo, raw, ops, raced>>

\* The reader puts what it read and releases the locks.
Fill(o) ==
    /\ fill[o] # None /\ FillWith(o, fill[o].val) /\ fill' = [fill EXCEPT ![o] = None]
    /\ UNCHANGED <<fs, start, todo, raw, ops, raced>>

-----------------------------------------------------------------------------
(* The provider and the process *)

\* Time to live or memory pressure of the provider.
Evict(o) ==
    /\ cache[o] # None /\ Drop(o) /\ Clean(o) /\ Fault
    /\ UNCHANGED <<fs, gen, local, start, bypass, todo, raw, fill, ops>>
EvictGeneration(p) ==
    /\ gen[p] # NoGen /\ gen' = [gen EXCEPT ![p] = NoGen] /\ Fault
    /\ UNCHANGED <<fs, cache, local, start, bypass, todo, raw, fill, ops, suspect, raced>>

SameEpoch == start' = start                \* mutant: every start has the same epoch
NewEpoch == start' = start + 1
Restart ==
    /\ start < MaxStart /\ NewEpoch
    /\ suspect' = suspect \cup Cached(Affected(todo) \cup Affected(raw)
                                          \cup {o \in Object : Bypassed(o[2])})
    /\ local' = [p \in Path |-> NoGen] /\ bypass' = {} /\ todo' = <<>> /\ raw' = <<>>
    /\ fill' = [o \in Object |-> None]
    /\ UNCHANGED <<fs, cache, gen, ops, faults, raced>>

Next ==
    \/ \E p \in Path :
        \/ Create(p) \/ Mkdir(p) \/ RemoveOne(p) \/ RemoveAll(p) \/ EnsureDirs(p)
        \/ RawWrite(p) \/ RawRemove(p)
        \/ \E whole \in BOOLEAN : Write(p, whole)
        \/ \E q \in Path : Rename(p, q)
        \/ EvictGeneration(p)
    \/ Take \/ TakeRaw \/ Restart
    \/ \E o \in Object : Hit(o) \/ Miss(o) \/ Fill(o) \/ Evict(o)

Spec == Init /\ [][Next]_vars

-----------------------------------------------------------------------------
(* Properties *)

\* The variables have their types; every generation belongs to a start of the
\* process, so that none is mistaken for an older one.
TypeOK ==
    /\ fs \in [Path -> {"none", "dir"} \cup Data]
    /\ \A o \in Object : cache[o] # None => cache[o].gens \in [Scopes(o[2]) -> Gen]
    /\ gen \in [Path -> Gen \cup {NoGen}] /\ local \in [Path -> Gen \cup {NoGen}]
    /\ bypass \subseteq Path
    /\ todo \in Seq(Step) /\ raw \in Seq(Step)
    /\ start \in 1..MaxStart /\ ops \in 0..MaxOp /\ faults \in 0..MaxFault
    /\ suspect \subseteq Object /\ raced \subseteq Object

Serves(o) == cache[o] # None /\ ~Bypassed(o[2]) /\ Matches(o)

\* With operation_lock free no hit differs from the backend: whatever the provider
\* failed to do or forgot, however a path was moved, removed and made again.  Except
\* objects whose invalidation was skipped, by a backend error, by the end of the
\* process or because the raw write that changed them has none, and those a raw write
\* changed under a reader.
HitsCurrent ==
    todo = <<>> =>
        \A o \in Object \ (suspect \cup raced \cup Affected(raw)) :
            Serves(o) => cache[o].val = Content(o)

\* An envelope that failed the generation check never passes it later: neither a
\* failed put of a generation nor a forgotten one nor a new start brings it back.
StaleStaysStale ==
    [][\A o \in Object :
        cache[o] # None /\ cache'[o] = cache[o] /\ ~Matches(o) => ~Matches(o)']_vars
=============================================================================
