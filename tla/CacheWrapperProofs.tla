------------------------- MODULE CacheWrapperProofs -------------------------
(* Proofs about CacheWrapper, for every tree of paths and any number of       *)
(* changes, errors, evictions and starts of the process.                      *)
EXTENDS CacheWrapper, FiniteSetTheorems, SequenceTheorems, TLAPS

USE DEF Object

-----------------------------------------------------------------------------
(* The inductive invariant *)

\* Generations are ordered by start, then by count.
Leq(g, h) == g[1] < h[1] \/ (g[1] = h[1] /\ g[2] <= h[2])

\* What a change may still have to do: bumps come first, at most two of them, and
\* only files are put back.
StepsOK(st) ==
    /\ st \in Seq(Step)
    /\ \A i \in 3..Len(st) : st[i][1] # "bump"
    /\ Len(st) >= 2 /\ st[2][1] = "bump" => st[1][1] = "bump"
    /\ \A i \in 1..Len(st) : st[i][1] = "fill" => st[i][2] \in Files
Bumps(st) ==
    IF Len(st) >= 2 /\ st[2][1] = "bump" THEN 2
    ELSE IF Len(st) >= 1 /\ st[1][1] = "bump" THEN 1 ELSE 0

\* Envelopes and reads in flight are kept per object; data are at the paths of files.
Shape ==
    /\ cache = [o \in Object |-> cache[o]] /\ fill = [o \in Object |-> fill[o]]
    /\ \A p \in Path \ Files :
        fs[p] \notin Data /\ cache[<<"file", p>>] = None /\ fill[<<"file", p>>] = None

Pending == StepsOK(todo) /\ raw \in Seq(Object)

\* There are no more bumps than changes asked for.
Counted == \A s \in Path : /\ gen[s][2] + Bumps(todo) <= 2 * ops
                           /\ local[s][2] + Bumps(todo) <= 2 * ops

\* The provider is never ahead of what the process has seen; what it has not seen is
\* of an earlier start.
Ordered ==
    \A s \in Path :
        /\ gen[s][1] <= start /\ local[s][1] <= start
        /\ gen[s] # NoGen /\ local[s] # NoGen => Leq(gen[s], local[s])
        /\ gen[s] # NoGen /\ local[s] = NoGen => gen[s][1] < start

\* No envelope carries a generation that is still to come.
Past ==
    \A o \in Object : cache[o] # None =>
        \A s \in Scopes(o[2]) :
            /\ Leq(cache[o].gens[s], Current(s))
            /\ local[s] = NoGen => cache[o].gens[s][1] < start

\* What a reader is about to put is still what the backend has.
ReadsFresh == \A o \in Object \ raced : fill[o] # None => fill[o].val = Content(o)

\* Also in the middle of a change, what it does not affect is served rightly.
Truthful ==
    \A o \in Object \ (suspect \cup raced \cup Affected(raw) \cup Affected(todo)) :
        Serves(o) => cache[o].val = Content(o)

Base == TypeOK /\ Shape /\ Pending /\ Counted /\ Ordered
IInv == Base /\ Past /\ ReadsFresh /\ Truthful

-----------------------------------------------------------------------------
(* Paths *)

\* A path is a function on 1..Len, a prefix agrees with it as far as it goes.
LEMMA PathSeq ==
    ASSUME NEW p \in Path
    PROVE  Len(p) \in Nat /\ p = [i \in 1..Len(p) |-> p[i]]
  <1>1. p \in Seq(Range(p))
    BY CacheAssumption
  <1> QED
    BY <1>1

\* Being below a path, position by position.
LEMMA UnderMeans ==
    ASSUME NEW p \in Path, NEW s \in Path
    PROVE  Under(p, s) <=> Len(s) <= Len(p) /\ \A i \in 1..Len(s) : s[i] = p[i]
  <1>1. p \in Seq(Range(p)) /\ s \in Seq(Range(s))
    BY CacheAssumption
  <1>2. CASE Len(s) <= Len(p)
    <2>1. SubSeq(s, 1, Len(s)) = [i \in 1..Len(s) |-> s[i]]
      BY <1>1
    <2>2. SubSeq(p, 1, Len(s)) = [i \in 1..Len(s) |-> p[i]]
      BY <1>1, <1>2
    <2> QED
      BY <1>1, <1>2, <2>1, <2>2 DEF Under, IsPrefix
  <1> QED
    BY <1>2 DEF Under, IsPrefix

\* A path is below itself.
LEMMA UnderSelf ==
    ASSUME NEW p \in Path
    PROVE  Under(p, p)
  BY UnderMeans, PathSeq

\* What is below a path is below everything above that path.
LEMMA UnderTrans ==
    ASSUME NEW p \in Path, NEW q \in Path, NEW r \in Path, Under(p, q), Under(q, r)
    PROVE  Under(p, r)
  BY UnderMeans, PathSeq

\* The parent of a path, as a sequence.
LEMMA ParentMeans ==
    ASSUME NEW p \in Path, p # <<>>
    PROVE  /\ Parent(p) \in Path /\ Len(p) > 0 /\ Len(Parent(p)) = Len(p) - 1
           /\ \A i \in 1..(Len(p) - 1) : Parent(p)[i] = p[i]
  <1>1. p \in Seq(Range(p))
    BY CacheAssumption
  <1>2. Len(p) > 0
    BY <1>1
  <1>3. Parent(p) = SubSeq(p, 1, Len(p) - 1) /\ Parent(p) \in Path
    BY CacheAssumption DEF Parent, Front
  <1>4. SubSeq(p, 1, Len(p) - 1) = [i \in 1..(Len(p) - 1) |-> p[i]]
    BY <1>1, <1>2
  <1>5. Len(SubSeq(p, 1, Len(p) - 1)) = Len(p) - 1
    BY <1>1, <1>2
  <1> QED
    BY <1>2, <1>3, <1>4, <1>5

\* The parent of a path is a path above it.
LEMMA ParentPath ==
    ASSUME NEW p \in Path
    PROVE  Parent(p) \in Path /\ Under(p, Parent(p))
  <1>1. CASE p = <<>>
    BY <1>1, UnderSelf DEF Parent
  <1>2. CASE p # <<>>
    BY <1>2, ParentMeans, UnderMeans, PathSeq
  <1> QED
    BY <1>1, <1>2

\* What lies strictly below a path has its parent at or below it.
LEMMA ParentBelow ==
    ASSUME NEW p \in Path, NEW q \in Path, Under(q, p), q # p
    PROVE  q # <<>> /\ Under(Parent(q), p)
  <1>1. Len(p) <= Len(q) /\ \A i \in 1..Len(p) : p[i] = q[i]
    BY UnderMeans
  <1>2. Len(p) < Len(q)
    BY <1>1, PathSeq
  <1>3. q # <<>>
    BY <1>2, PathSeq
  <1> QED
    BY <1>1, <1>2, <1>3, ParentMeans, UnderMeans, PathSeq

\* A move keeps files files: below the moved path names stay.
LEMMA MovedKind ==
    ASSUME NEW p \in Path, NEW q \in Path, NEW r \in Path, q # <<>>, p # <<>>,
           p \in Files <=> q \in Files, Under(r, q),
           (p \o SubSeq(r, Len(q) + 1, Len(r))) \in Path
    PROVE  (p \o SubSeq(r, Len(q) + 1, Len(r))) \in Files <=> r \in Files
  <1> DEFINE x == p \o SubSeq(r, Len(q) + 1, Len(r))
  <1>0. p \in Seq(Range(p)) /\ q \in Seq(Range(q)) /\ r \in Seq(Range(r))
    BY CacheAssumption
  <1>1. Len(q) <= Len(r) /\ \A i \in 1..Len(q) : q[i] = r[i]
    BY UnderMeans
  <1>2. CASE Len(q) = Len(r)
    <2>1. r = q
      BY <1>1, <1>2, PathSeq
    <2>2. SubSeq(r, Len(q) + 1, Len(r)) = <<>>
      BY <1>0, <1>2
    <2>3. x = p
      BY <1>0, <2>2, ConcatEmptySeq
    <2> QED
      BY <2>1, <2>3
  <1>3. CASE Len(q) < Len(r)
    <2> DEFINE t == SubSeq(r, Len(q) + 1, Len(r))  N == Range(p) \cup Range(r)
    <2>1. \A i \in (Len(q) + 1)..Len(r) : r[i] \in Range(r)
      BY <1>0
    <2>2. /\ t \in Seq(Range(r)) /\ Len(t) = Len(r) - Len(q)
          /\ \A i \in 1..(Len(r) - Len(q)) : t[i] = r[Len(q) + i]
      BY <1>0, <1>3, <2>1, SubSeqProperties
    <2>3. p \in Seq(N) /\ t \in Seq(N)
      BY <1>0, <2>2
    <2>4. x = p \o t
      OBVIOUS
    <2> HIDE DEF t, N, x
    <2>5. /\ Len(p \o t) = Len(p) + Len(t)
          /\ \A i \in 1..(Len(p) + Len(t)) :
                (p \o t)[i] = IF i <= Len(p) THEN p[i] ELSE t[i - Len(p)]
      BY <2>3, ConcatProperties
    <2>a. Len(p) \in Nat /\ Len(t) \in Nat /\ Len(t) > 0 /\ Len(t) = Len(r) - Len(q) /\ Len(q) \in Nat
      BY <1>0, <1>3, <2>2
    <2>b. (p \o t)[Len(p) + Len(t)] = t[Len(t)]
      BY <2>5, <2>a
    <2>c. t[Len(t)] = r[Len(r)]
      BY <1>0, <2>2, <2>a
    <2>6. Len(x) > 0 /\ Last(x) = Last(r)
      BY <2>4, <2>5, <2>a, <2>b, <2>c DEF Last
    <2>7. x # <<>> /\ r # <<>>
      BY <1>0, <1>3, <2>6
    <2> QED
      BY <2>6, <2>7, CacheAssumption DEF x
  <1> QED
    BY <1>0, <1>1, <1>2, <1>3

-----------------------------------------------------------------------------
(* Steps of changes *)

\* A set in some order: its members and no others.
LEMMA InSomeOrder ==
    ASSUME NEW S, IsFiniteSet(S)
    PROVE  /\ SetToSeq(S) \in Seq(S)
           /\ \A x \in S : \E i \in 1..Len(SetToSeq(S)) : SetToSeq(S)[i] = x
  <1> DEFINE n == Cardinality(S)  f == SetToSeq(S)
  <1>1. n \in Nat /\ ExistsBijection(1..n, S)
    BY FS_CardinalityType
  <1>2. \E g \in [1..n -> S] : IsInjective(g)
    BY <1>1 DEF ExistsBijection, Bijection, Injection, IsInjective
  <1>3. f \in [1..n -> S] /\ IsInjective(f)
    BY <1>2 DEF SetToSeq
  <1>4. f \in Injection(1..n, S)
    BY <1>3 DEF Injection, IsInjective
  <1>5. Cardinality(1..n) = n
    BY <1>1, FS_Interval
  <1>6. f \in Surjection(1..n, S)
    BY <1>4, <1>5, FS_Injection
  <1> QED
    BY <1>1, <1>3, <1>6 DEF Surjection

NoBump(st) == StepsOK(st) /\ \A i \in 1..Len(st) : st[i][1] # "bump"

\* Deletions after the steps of a change are steps of the change.
LEMMA Extended ==
    ASSUME NEW s, NEW t, StepsOK(s), NoBump(t)
    PROVE  /\ StepsOK(s \o t) /\ (NoBump(s) => NoBump(s \o t))
           /\ Affected(s) \cup Affected(t) \subseteq Affected(s \o t)
  <1>1. /\ s \in Seq(Step) /\ t \in Seq(Step) /\ s \o t \in Seq(Step)
        /\ Len(s) \in Nat /\ Len(t) \in Nat /\ Len(s \o t) = Len(s) + Len(t)
        /\ \A i \in 1..(Len(s) + Len(t)) :
                (s \o t)[i] = IF i <= Len(s) THEN s[i] ELSE t[i - Len(s)]
    BY ConcatProperties DEF StepsOK, NoBump
  <1>2. /\ \A i \in 1..Len(s) : i \in 1..Len(s \o t) /\ (s \o t)[i] = s[i]
        /\ \A i \in 1..Len(t) : Len(s) + i \in 1..Len(s \o t) /\ (s \o t)[Len(s) + i] = t[i]
        /\ \A i \in 1..Len(s \o t) :
                \/ i \in 1..Len(s) /\ (s \o t)[i] = s[i]
                \/ i > Len(s) /\ \E j \in 1..Len(t) : (s \o t)[i] = t[j]
    <2>1. ASSUME NEW i \in 1..Len(s \o t), i > Len(s)
          PROVE  \E j \in 1..Len(t) : (s \o t)[i] = t[j]
      <3>1. i - Len(s) \in 1..Len(t) /\ (s \o t)[i] = t[i - Len(s)]
        BY <1>1, <2>1
      <3> QED
        BY <3>1
    <2> QED
      BY <1>1, <2>1
  <1>3. StepsOK(s \o t)
    BY <1>1, <1>2 DEF StepsOK, NoBump
  <1>4. NoBump(s) => NoBump(s \o t)
    BY <1>2, <1>3 DEF NoBump
  <1>5. Affected(s) \cup Affected(t) \subseteq Affected(s \o t)
    <2>1. ASSUME NEW o \in Affected(s) PROVE o \in Affected(s \o t)
      <3>1. PICK i \in 1..Len(s) : o = s[i] \/ (s[i][1] = "bump" /\ Under(o[2], s[i][2]))
        BY DEF Affected
      <3> QED
        BY <1>2, <3>1 DEF Affected
    <2>2. ASSUME NEW o \in Affected(t) PROVE o \in Affected(s \o t)
      <3>1. PICK i \in 1..Len(t) : o = t[i] \/ (t[i][1] = "bump" /\ Under(o[2], t[i][2]))
        BY DEF Affected
      <3> QED
        BY <1>2, <3>1 DEF Affected
    <2> QED
      BY <2>1, <2>2
  <1> QED
    BY <1>3, <1>4, <1>5

\* The pieces that the operations put together.
LEMMA Pieces ==
    ASSUME NEW p \in Path
    PROVE  /\ NoBump(PathObjects(p)) /\ {<<"file", p>>, <<"dir", p>>} \subseteq Affected(PathObjects(p))
           /\ NoBump(ParentDirectory(p)) /\ <<"dir", Parent(p)>> \in Affected(ParentDirectory(p))
           /\ NoBump(<<<<"file", p>>>>) /\ <<"file", p>> \in Affected(<<<<"file", p>>>>)
           /\ p \in Files => NoBump(<<<<"fill", p>>>>)
           /\ NoBump(<<>>)
           /\ StepsOK(<<<<"bump", p>>>>) /\ StepsOK(<<<<"bump", p>>, <<"dir", p>>>>)
           /\ \A o \in Object : Under(o[2], p) => /\ o \in Affected(<<<<"bump", p>>>>)
                                                  /\ o \in Affected(<<<<"bump", p>>, <<"dir", p>>>>)
  <1>1. /\ NoBump(PathObjects(p)) /\ NoBump(ParentDirectory(p)) /\ NoBump(<<<<"file", p>>>>)
        /\ p \in Files => NoBump(<<<<"fill", p>>>>)
        /\ NoBump(<<>>)
        /\ StepsOK(<<<<"bump", p>>>>) /\ StepsOK(<<<<"bump", p>>, <<"dir", p>>>>)
    BY ParentPath DEF NoBump, StepsOK, Step, PathObjects, ParentDirectory
  <1>2. /\ {<<"file", p>>, <<"dir", p>>} \subseteq Affected(PathObjects(p))
        /\ <<"dir", Parent(p)>> \in Affected(ParentDirectory(p))
        /\ <<"file", p>> \in Affected(<<<<"file", p>>>>)
    BY ParentPath DEF Affected, PathObjects, ParentDirectory
  <1>3. ASSUME NEW o \in Object, Under(o[2], p)
        PROVE  o \in Affected(<<<<"bump", p>>>>) /\ o \in Affected(<<<<"bump", p>>, <<"dir", p>>>>)
    BY <1>3 DEF Affected
  <1> QED
    BY <1>1, <1>2, <1>3

\* Two bumps affect every object below either of their scopes.
LEMMA TwoBumps ==
    ASSUME NEW p \in Path, NEW q \in Path
    PROVE  /\ StepsOK(<<<<"bump", p>>, <<"bump", q>>>>)
           /\ \A o \in Object : Under(o[2], p) \/ Under(o[2], q) =>
                o \in Affected(<<<<"bump", p>>, <<"bump", q>>>>)
  <1>1. StepsOK(<<<<"bump", p>>, <<"bump", q>>>>)
    BY DEF StepsOK, Step
  <1>2. ASSUME NEW o \in Object, Under(o[2], p) \/ Under(o[2], q)
        PROVE  o \in Affected(<<<<"bump", p>>, <<"bump", q>>>>)
    BY <1>2 DEF Affected
  <1> QED
    BY <1>1, <1>2

\* What is left of a change after its first step.
LEMMA TailSteps ==
    ASSUME NEW st, StepsOK(st), st # <<>>
    PROVE  /\ Head(st) = st[1] /\ Head(st) \in Step
           /\ StepsOK(Tail(st)) /\ Bumps(Tail(st)) + (IF Head(st)[1] = "bump" THEN 1 ELSE 0) <= Bumps(st)
           /\ \A o \in Affected(st) : \/ o \in Affected(Tail(st)) \/ o = Head(st)
                                      \/ (Head(st)[1] = "bump" /\ Under(o[2], Head(st)[2]))
  <1>1. /\ st \in Seq(Step) /\ Len(st) \in Nat /\ Len(st) > 0 /\ Head(st) = st[1] /\ Head(st) \in Step
        /\ Tail(st) \in Seq(Step) /\ Len(Tail(st)) = Len(st) - 1
        /\ \A i \in 1..(Len(st) - 1) : Tail(st)[i] = st[i + 1]
    BY HeadTailProperties DEF StepsOK
  <1>2. StepsOK(Tail(st))
    BY <1>1 DEF StepsOK
  <1>3. Bumps(Tail(st)) + (IF Head(st)[1] = "bump" THEN 1 ELSE 0) <= Bumps(st)
    BY <1>1 DEF StepsOK, Bumps
  <1>4. ASSUME NEW o \in Affected(st)
        PROVE  \/ o \in Affected(Tail(st)) \/ o = Head(st)
               \/ (Head(st)[1] = "bump" /\ Under(o[2], Head(st)[2]))
    <2>1. PICK i \in 1..Len(st) : o = st[i] \/ (st[i][1] = "bump" /\ Under(o[2], st[i][2]))
      BY DEF Affected
    <2>2. CASE i = 1
      BY <1>1, <2>1, <2>2
    <2>3. CASE i > 1
      <3>1. i - 1 \in 1..Len(Tail(st)) /\ Tail(st)[i - 1] = st[i]
        BY <1>1, <2>3
      <3> QED
        BY <2>1, <3>1 DEF Affected
    <2> QED
      BY <2>2, <2>3
  <1> QED
    BY <1>1, <1>2, <1>3, <1>4

-----------------------------------------------------------------------------
(* Every operation invalidates what it changes *)

Tree == [Path -> {"none", "dir"} \cup Data]

\* The paths whose state an object shows.
Shown(o) == IF o[1] = "file" THEN {o[2]} ELSE Children(o[2])

\* A cached object that shows a path of which the operation changed the state is among
\* those its steps invalidate.
Covers(fs2, st) ==
    /\ fs2 \in Tree /\ StepsOK(st)
    /\ \A p \in Path \ Files : fs2[p] \notin Data
    /\ \A o \in Object \ Affected(st) :
        cache[o] = None \/ \A q \in Shown(o) : fs2[q] = fs[q]

Changes == \E fs2 \in Tree, st \in Seq(Step) : Covers(fs2, st) /\ Change(fs2, st, FALSE)

\* Where a path's state shows: in its file and in the listing of its parent.
LEMMA ShownIn ==
    ASSUME NEW o \in Object, NEW q \in Shown(o)
    PROVE  q \in Path /\ (o = <<"file", q>> \/ o = <<"dir", Parent(q)>>)
  BY DEF Shown, Children

\* A created file is announced: everything it shows is to be invalidated.
LEMMA CreateCovers ==
    ASSUME Base, NEW p \in Path, Create(p)
    PROVE  Changes
  <1> DEFINE st == PathObjects(p) \o ParentDirectory(p)
  <1>1. PICK x \in Data : Change(Put(p, x), st, FALSE)
    BY DEF Create
  <1>2. StepsOK(st) /\ {<<"file", p>>, <<"dir", Parent(p)>>} \subseteq Affected(st)
    BY Pieces, Extended DEF NoBump
  <1>3. Put(p, x) \in Tree /\ \A q \in Path : q # p => Put(p, x)[q] = fs[q]
    BY DEF Put, Tree, Base, TypeOK
  <1>4. \A q \in Path \ Files : Put(p, x)[q] \notin Data
    BY <1>3 DEF Create, Base, Shape
  <1> HIDE DEF st
  <1>5. Covers(Put(p, x), st)
    BY <1>2, <1>3, <1>4, ShownIn DEF Covers
  <1> QED
    BY <1>1, <1>2, <1>3, <1>5 DEF Changes, StepsOK

\* So is a new directory.
LEMMA MkdirCovers ==
    ASSUME Base, NEW p \in Path, Mkdir(p)
    PROVE  Changes
  <1> DEFINE st == <<<<"bump", p>>, <<"dir", p>>>> \o ParentDirectory(p)
  <1>1. Change(Put(p, "dir"), st, FALSE)
    BY DEF Mkdir
  <1>2. /\ StepsOK(st) /\ <<"dir", Parent(p)>> \in Affected(st)
        /\ \A o \in Object : Under(o[2], p) => o \in Affected(st)
    BY Pieces, Extended
  <1>3. Put(p, "dir") \in Tree /\ \A q \in Path : q # p => Put(p, "dir")[q] = fs[q]
    BY DEF Put, Tree, Base, TypeOK
  <1>4. \A q \in Path \ Files : Put(p, "dir")[q] \notin Data
    BY <1>3, CacheAssumption DEF Put, Base, Shape, TypeOK
  <1> HIDE DEF st
  <1>5. Covers(Put(p, "dir"), st)
    BY <1>2, <1>3, <1>4, ShownIn, UnderSelf DEF Covers
  <1> QED
    BY <1>1, <1>2, <1>3, <1>5 DEF Changes, StepsOK

\* Removals change nothing but what lies below the path.
LEMMA RemoveCovers ==
    ASSUME Base, NEW p \in Path, RemoveOne(p) \/ RemoveAll(p)
    PROVE  Changes
  <1> DEFINE st == RemoveSteps(p)
  <1>1. PICK fs2 : Change(fs2, st, FALSE) /\ (fs2 = Put(p, "none") \/ fs2 = Without(p))
    BY DEF RemoveOne, RemoveAll, Change
  <1>2. /\ StepsOK(st) /\ <<"dir", Parent(p)>> \in Affected(st)
        /\ \A o \in Object : Under(o[2], p) => o \in Affected(st)
    <2>1. /\ StepsOK(<<<<"bump", p>>>> \o PathObjects(p))
          /\ \A o \in Object : Under(o[2], p) => o \in Affected(<<<<"bump", p>>>> \o PathObjects(p))
      BY Pieces, Extended
    <2> QED
      BY <2>1, Pieces, Extended DEF RemoveSteps
  <1>3. /\ fs2 \in Tree /\ \A q \in Path : ~Under(q, p) => fs2[q] = fs[q]
        /\ \A q \in Path : fs2[q] = fs[q] \/ fs2[q] = "none"
    BY <1>1, UnderSelf DEF Put, Without, Tree, Base, TypeOK
  <1>4. \A q \in Path \ Files : fs2[q] \notin Data
    BY <1>3, CacheAssumption DEF Base, Shape
  <1> HIDE DEF st
  <1>5. ASSUME NEW o \in Object, NEW q \in Shown(o), Under(q, p)
        PROVE  o \in Affected(st)
    <2>1. CASE o = <<"file", q>>
      BY <1>2, <1>5, <2>1, ShownIn
    <2>2. CASE o = <<"dir", Parent(q)>> /\ q = p
      BY <1>2, <2>2
    <2>3. CASE o = <<"dir", Parent(q)>> /\ q # p
      BY <1>2, <1>5, <2>3, ShownIn, ParentBelow
    <2> QED
      BY <2>1, <2>2, <2>3, ShownIn
  <1>6. Covers(fs2, st)
    BY <1>2, <1>3, <1>4, <1>5, ShownIn DEF Covers
  <1> QED
    BY <1>1, <1>2, <1>3, <1>6 DEF Changes, StepsOK

\* So is a write, whether its content is put back or dropped.
LEMMA WriteCovers ==
    ASSUME Base, NEW p \in Path, NEW whole \in BOOLEAN, Write(p, whole)
    PROVE  Changes
  <1> DEFINE st == <<<<"file", p>>>> \o (IF whole THEN <<<<"fill", p>>>> ELSE <<>>) \o ParentDirectory(p)
  <1>0. p \in Files
    BY DEF Write, Base, Shape
  <1>1. PICK x \in Data : Change(Put(p, x), st, FALSE)
    BY DEF Write
  <1>2. StepsOK(st) /\ {<<"file", p>>, <<"dir", Parent(p)>>} \subseteq Affected(st)
    <2> DEFINE f == IF whole THEN <<<<"fill", p>>>> ELSE <<>>
    <2>1. NoBump(f)
      BY <1>0, Pieces
    <2> HIDE DEF f
    <2>2. NoBump(<<<<"file", p>>>> \o f) /\ <<"file", p>> \in Affected(<<<<"file", p>>>> \o f)
      BY <2>1, Pieces, Extended DEF NoBump
    <2>3. /\ StepsOK((<<<<"file", p>>>> \o f) \o ParentDirectory(p))
          /\ {<<"file", p>>, <<"dir", Parent(p)>>} \subseteq Affected((<<<<"file", p>>>> \o f) \o ParentDirectory(p))
      BY <2>2, Pieces, Extended DEF NoBump
    <2> QED
      BY <2>3 DEF f
  <1>3. Put(p, x) \in Tree /\ \A q \in Path : q # p => Put(p, x)[q] = fs[q]
    BY DEF Put, Tree, Base, TypeOK
  <1>4. \A q \in Path \ Files : Put(p, x)[q] \notin Data
    BY <1>0, <1>3 DEF Base, Shape
  <1> HIDE DEF st
  <1>5. Covers(Put(p, x), st)
    BY <1>2, <1>3, <1>4, ShownIn DEF Covers
  <1> QED
    BY <1>1, <1>2, <1>3, <1>5 DEF Changes, StepsOK

\* A move changes what lies below the two paths, and files stay files.
LEMMA RenameCovers ==
    ASSUME Base, NEW p \in Path, NEW q \in Path, Rename(p, q)
    PROVE  Changes
  <1> DEFINE st == <<<<"bump", p>>, <<"bump", q>>>> \o PathObjects(p) \o PathObjects(q)
                       \o ParentDirectory(p) \o ParentDirectory(q)
             src(r) == p \o SubSeq(r, Len(q) + 1, Len(r))
  <1>1. Change(Moved(p, q), st, FALSE)
    BY DEF Rename
  <1>2. /\ StepsOK(st) /\ <<"dir", Parent(p)>> \in Affected(st) /\ <<"dir", Parent(q)>> \in Affected(st)
        /\ \A o \in Object : Under(o[2], p) \/ Under(o[2], q) => o \in Affected(st)
    <2> DEFINE s1 == <<<<"bump", p>>, <<"bump", q>>>> \o PathObjects(p)
               s2 == s1 \o PathObjects(q)
               s3 == s2 \o ParentDirectory(p)
    <2>1. StepsOK(s1) /\ \A o \in Object : Under(o[2], p) \/ Under(o[2], q) => o \in Affected(s1)
      BY TwoBumps, Pieces, Extended
    <2> HIDE DEF s1
    <2>2. StepsOK(s2) /\ \A o \in Object : Under(o[2], p) \/ Under(o[2], q) => o \in Affected(s2)
      BY <2>1, Pieces, Extended
    <2> HIDE DEF s2
    <2>3. /\ StepsOK(s3) /\ <<"dir", Parent(p)>> \in Affected(s3)
          /\ \A o \in Object : Under(o[2], p) \/ Under(o[2], q) => o \in Affected(s3)
      BY <2>2, Pieces, Extended
    <2> HIDE DEF s3
    <2>4. st = s3 \o ParentDirectory(q)
      BY DEF s1, s2, s3
    <2> HIDE DEF st
    <2> QED
      BY <2>3, <2>4, Pieces, Extended
  <1>3. /\ Moved(p, q) \in Tree
        /\ \A r \in Path : ~Under(r, p) /\ ~Under(r, q) => Moved(p, q)[r] = fs[r]
        /\ \A r \in Path : \/ Moved(p, q)[r] \in {fs[r], "none"}
                           \/ Under(r, q) /\ src(r) \in Path /\ Moved(p, q)[r] = fs[src(r)]
    BY DEF Moved, Tree, Base, TypeOK
  <1>4. ASSUME NEW r \in Path \ Files
        PROVE  Moved(p, q)[r] \notin Data
    <2>0. p # <<>> /\ q # <<>> /\ (p \in Files <=> q \in Files)
      <3>1. ~Under(q, p) /\ q # <<>> /\ (p \in Files <=> q \in Files)
        BY DEF Rename
      <3>2. p = <<>> => Under(q, p)
        BY UnderMeans, PathSeq
      <3> QED
        BY <3>1, <3>2
    <2>1. CASE Moved(p, q)[r] \in {fs[r], "none"}
      BY <2>1, CacheAssumption DEF Base, Shape
    <2>2. CASE Under(r, q) /\ src(r) \in Path /\ Moved(p, q)[r] = fs[src(r)]
      <3>1. src(r) \notin Files
        BY <2>0, <2>2, MovedKind
      <3> QED
        BY <2>2, <3>1 DEF Base, Shape
    <2> QED
      BY <1>3, <2>1, <2>2
  <1> HIDE DEF st
  <1>5. ASSUME NEW o \in Object, NEW r \in Shown(o), Under(r, p) \/ Under(r, q)
        PROVE  o \in Affected(st)
    <2>1. CASE o = <<"file", r>>
      BY <1>2, <1>5, <2>1, ShownIn
    <2>2. CASE o = <<"dir", Parent(r)>> /\ (r = p \/ r = q)
      BY <1>2, <2>2
    <2>3. CASE o = <<"dir", Parent(r)>> /\ r # p /\ r # q
      BY <1>2, <1>5, <2>3, ShownIn, ParentBelow
    <2> QED
      BY <2>1, <2>2, <2>3, ShownIn
  <1>6. Covers(Moved(p, q), st)
    BY <1>2, <1>3, <1>4, <1>5, ShownIn DEF Covers
  <1> QED
    BY <1>1, <1>2, <1>3, <1>6 DEF Changes, StepsOK

\* ensure_parent_dirs deletes listings only: no file was cached at a directory's path.
LEMMA EnsureCovers ==
    ASSUME Base, NEW p \in Path, EnsureDirs(p)
    PROVE  Changes
  <1> DEFINE D == {<<"dir", s>> : s \in Scopes(p)}
             st == SetToSeq(D)
             fs2 == [s \in Path |-> IF s \in Scopes(p) THEN "dir" ELSE fs[s]]
  <1>1. Change(fs2, st, FALSE)
    BY DEF EnsureDirs
  <1>2. Scopes(p) \subseteq Path /\ D \subseteq Object
    BY DEF Scopes
  <1>3. IsFiniteSet(D)
    <2>1. IsFiniteSet(Scopes(p))
      BY <1>2, CacheAssumption, FS_Subset
    <2> DEFINE f == [s \in Scopes(p) |-> <<"dir", s>>]
    <2>2. f \in Surjection(Scopes(p), D)
      BY DEF Surjection
    <2> QED
      BY <2>1, <2>2, FS_Surjection
  <1>4. st \in Seq(D) /\ \A x \in D : \E i \in 1..Len(st) : st[i] = x
    BY <1>3, InSomeOrder
  <1> HIDE DEF D, st
  <1>5. \A i \in 1..Len(st) : st[i] \in D
    BY <1>4
  <1>6. StepsOK(st)
    <2>1. D \subseteq Step /\ \A x \in D : x[1] = "dir"
      BY <1>2 DEF D, Step
    <2>2. st \in Seq(Step)
      BY <1>4, <2>1
    <2>3. Len(st) \in Nat
      BY <1>4
    <2> QED
      BY <1>5, <2>1, <2>2, <2>3 DEF StepsOK
  <1>7. D \subseteq Affected(st)
    BY <1>2, <1>4 DEF Affected
  <1>8. \A s \in Scopes(p) : s \notin Files
    BY CacheAssumption DEF EnsureDirs, Scopes, Under
  <1>9. fs2 \in Tree /\ \A q \in Path \ Files : fs2[q] \notin Data
    BY <1>8, CacheAssumption DEF Tree, Base, TypeOK, Shape
  <1>10. ASSUME NEW o \in Object, NEW q \in Shown(o), q \in Scopes(p)
         PROVE  o \in Affected(st) \/ cache[o] = None
    <2>1. CASE o = <<"file", q>>
      BY <1>2, <1>8, <1>10, <2>1 DEF Base, Shape
    <2>2. CASE o = <<"dir", Parent(q)>>
      <3>1. Parent(q) \in Scopes(p)
        BY <1>2, <1>10, ParentPath, UnderTrans DEF Scopes
      <3> QED
        BY <1>7, <2>2, <3>1 DEF D
    <2> QED
      BY <2>1, <2>2, ShownIn
  <1>11. Covers(fs2, st)
    BY <1>6, <1>9, <1>10, ShownIn DEF Covers
  <1> QED
    BY <1>1, <1>6, <1>9, <1>11 DEF Changes, StepsOK

\* A change of the raw backend keeps files and directories apart.
Raw(p) == \E fs2 \in Tree : (\A q \in Path \ Files : fs2[q] \notin Data) /\ RawChange(p, fs2)

\* A raw write and a raw removal are such changes.
LEMMA RawKinds ==
    ASSUME Base, NEW p \in Path, RawWrite(p) \/ RawRemove(p)
    PROVE  Raw(p)
  <1>0. p \in Files /\ fs \in Tree /\ \A q \in Path \ Files : fs[q] \notin Data
    BY DEF RawWrite, RawRemove, Base, TypeOK, Shape, Tree
  <1>1. CASE RawWrite(p)
    <2> DEFINE G(x) == [q \in Path |-> IF q = p THEN x ELSE IF Under(p, q) THEN "dir" ELSE fs[q]]
    <2>1. PICK x \in Data : RawChange(p, G(x))
      BY <1>1 DEF RawWrite
    <2>2. G(x) \in Tree /\ \A q \in Path \ Files : G(x)[q] \notin Data
      BY <1>0, CacheAssumption DEF Tree
    <2> QED
      BY <2>1, <2>2 DEF Raw
  <1>2. CASE RawRemove(p)
    <2>1. Put(p, "none") \in Tree /\ \A q \in Path \ Files : Put(p, "none")[q] \notin Data
      BY <1>0, CacheAssumption DEF Tree, Put
    <2> QED
      BY <1>2, <2>1 DEF RawRemove, Raw
  <1> QED
    BY <1>1, <1>2

\* The steps there are: a change, a raw write, a step of either, a read, the provider
\* and the process.
LEMMA Kinds ==
    ASSUME Base, [Next]_vars
    PROVE  \/ Changes \/ Take \/ TakeRaw \/ Restart \/ UNCHANGED vars
           \/ \E p \in Path : Raw(p) \/ EvictGeneration(p)
           \/ \E o \in Object : Hit(o) \/ Miss(o) \/ Fill(o) \/ Evict(o)
  BY CreateCovers, MkdirCovers, RemoveCovers, WriteCovers, RenameCovers, EnsureCovers, RawKinds DEF Next

\* What the first step of a change can be.
LEMMA TakeKinds ==
    ASSUME Base, Take
    PROVE  /\ todo # <<>> /\ todo' = Tail(todo) /\ UNCHANGED <<fs, start, raw, fill, ops>>
           /\ \/ \E p \in Path : /\ Head(todo) = <<"bump", p>> /\ Bump(p)
                                 /\ UNCHANGED <<cache, suspect, raced>>
              \/ \E o \in Object : Head(todo) = o /\ Delete(o) /\ UNCHANGED <<local, gen>>
              \/ \E p \in Files :
                    /\ Head(todo) = <<"fill", p>> /\ <<"file", p>> \in Object
                    /\ \/ UNCHANGED <<cache, gen, local, bypass, faults, suspect, raced>>
                       \/ FillWith(<<"file", p>>, Content(<<"file", p>>)) /\ UNCHANGED raced
  <1>1. todo # <<>> /\ todo' = Tail(todo) /\ UNCHANGED <<fs, start, raw, fill, ops>>
    BY DEF Take
  <1>2. Head(todo) = todo[1] /\ Head(todo) \in Step /\ 1 \in 1..Len(todo)
    <2>1. todo \in Seq(Step)
      BY DEF Base, Pending, StepsOK
    <2> QED
      BY <1>1, <2>1, TailSteps DEF Base, Pending
  <1>3. PICK k \in {"bump", "file", "dir", "fill"}, p \in Path : Head(todo) = <<k, p>>
    BY <1>2 DEF Step
  <1>4. Head(todo)[1] = k /\ Head(todo)[2] = p
    BY <1>3
  <1>5. CASE k = "bump"
    <2>1. Bump(Head(todo)[2]) /\ UNCHANGED <<cache, suspect, raced>>
      BY <1>4, <1>5 DEF Take
    <2> QED
      BY <1>1, <1>3, <1>4, <1>5, <2>1
  <1>6. CASE k \in {"file", "dir"}
    <2>1. Delete(Head(todo)) /\ UNCHANGED <<local, gen>>
      BY <1>4, <1>6 DEF Take
    <2>2. Head(todo) \in Object
      BY <1>3, <1>6
    <2> QED
      BY <1>1, <2>1, <2>2
  <1>7. CASE k = "fill"
    <2>1. p \in Files /\ <<"file", p>> \in Object
      BY <1>2, <1>3, <1>7, CacheAssumption DEF Base, Pending, StepsOK
    <2> DEFINE o == <<"file", Head(todo)[2]>>
    <2>2. IF Bypassed(Head(todo)[2]) \/ o \notin Admitted
          THEN UNCHANGED <<cache, gen, local, bypass, faults, suspect, raced>>
          ELSE FillWith(o, Content(o)) /\ UNCHANGED raced
      BY <1>4, <1>7 DEF Take
    <2>3. o = <<"file", p>>
      BY <1>4
    <2> HIDE DEF o
    <2> QED
      BY <1>1, <1>3, <1>7, <2>1, <2>2, <2>3
  <1> QED
    BY <1>3, <1>5, <1>6, <1>7

-----------------------------------------------------------------------------
(* Generations *)

Bumped(g) == <<g[1], g[2] + 1>>

\* The generation a put would carry is of some start so far and counts no bump twice.
LEMMA CurrentGen ==
    ASSUME Base, NEW s \in Path
    PROVE  /\ Current(s) \in Gen /\ Current(s)[1] \in 1..start /\ Current(s)[2] + Bumps(todo) <= 2 * ops
           /\ Current(s) # NoGen
  <1>1. /\ gen[s] \in Gen \cup {NoGen} /\ local[s] \in Gen \cup {NoGen} /\ start \in 1..MaxStart
        /\ ops \in 0..MaxOp
    BY DEF Base, TypeOK
  <1>2. Gen = (1..MaxStart) \X (0..(2 * MaxOp)) /\ MaxStart \in Nat /\ MaxOp \in Nat
    BY CacheAssumption DEF Gen
  <1>3. /\ gen[s][1] <= start /\ local[s][1] <= start
        /\ gen[s][2] + Bumps(todo) <= 2 * ops /\ local[s][2] + Bumps(todo) <= 2 * ops
    BY DEF Base, Ordered, Counted
  <1>4. Bumps(todo) \in 0..2
    BY DEF Bumps
  <1>5. NoGen = <<0, 0>>
    BY DEF NoGen
  <1>6. CASE gen[s] # NoGen
    BY <1>1, <1>2, <1>3, <1>5, <1>6 DEF Current
  <1>7. CASE gen[s] = NoGen /\ local[s] # NoGen
    BY <1>1, <1>2, <1>3, <1>5, <1>7 DEF Current
  <1>8. CASE gen[s] = NoGen /\ local[s] = NoGen
    BY <1>1, <1>2, <1>3, <1>4, <1>5, <1>8 DEF Current
  <1> QED
    BY <1>6, <1>7, <1>8

\* What a step may do to the generation of one scope.
GenMove(s) ==
    \/ gen'[s] = gen[s] /\ local'[s] = local[s] /\ start' = start
    \/ gen'[s] = Current(s) /\ local'[s] = Current(s) /\ start' = start
    \/ /\ todo # <<>> /\ Head(todo)[1] = "bump" /\ todo' = Tail(todo) /\ ops' = ops /\ start' = start
       /\ local'[s] = Bumped(Current(s)) /\ gen'[s] \in {Current(s), Bumped(Current(s))}
    \/ gen'[s] = NoGen /\ local'[s] = local[s] /\ start' = start
    \/ gen'[s] = gen[s] /\ local'[s] = NoGen /\ start' = start + 1 /\ start < MaxStart

\* Every step leaves the generation of a scope, or moves it as GenMove allows.
LEMMA GenMoves ==
    ASSUME Base, [Next]_vars, NEW s \in Path
    PROVE  GenMove(s)
  <1>0. gen \in [Path -> Gen \cup {NoGen}] /\ local \in [Path -> Gen \cup {NoGen}]
    BY DEF Base, TypeOK
  <1>1. CASE Changes \/ TakeRaw \/ UNCHANGED vars \/ \E p \in Path : Raw(p)
    BY <1>1 DEF Changes, Change, TakeRaw, Raw, RawChange, vars, GenMove
  <1>2. CASE Take
    <2>1. ASSUME NEW p \in Path, Head(todo) = <<"bump", p>>, Bump(p)
          PROVE  GenMove(s)
      <3>1. todo # <<>> /\ todo' = Tail(todo) /\ ops' = ops /\ start' = start /\ Head(todo)[1] = "bump"
        BY <1>2, <2>1, TakeKinds
      <3>2. CASE s = p
        BY <1>0, <2>1, <3>1, <3>2 DEF Bump, Bumped, GenMove
      <3>3. CASE s # p
        BY <1>0, <2>1, <3>1, <3>3 DEF Bump, GenMove
      <3> QED
        BY <3>2, <3>3
    <2>2. CASE UNCHANGED <<local, gen>>
      BY <1>2, <2>2 DEF Take, GenMove
    <2>3. ASSUME NEW o \in Object, FillWith(o, Content(o))
          PROVE  GenMove(s)
      BY <1>2, <2>3 DEF Take, FillWith, Learn, GenMove
    <2> QED
      BY <1>2, <2>1, <2>2, <2>3, TakeKinds
  <1>3. CASE Restart
    BY <1>3 DEF Restart, NewEpoch, GenMove
  <1>4. ASSUME NEW p \in Path, EvictGeneration(p)
        PROVE  GenMove(s)
    BY <1>0, <1>4 DEF EvictGeneration, GenMove
  <1>5. ASSUME NEW o \in Object, Hit(o) \/ Miss(o) \/ Fill(o) \/ Evict(o)
        PROVE  GenMove(s)
    BY <1>5 DEF Hit, Miss, Fill, FillWith, Evict, Learn, GenMove
  <1> QED
    BY <1>1, <1>2, <1>3, <1>4, <1>5, Kinds

\* The bumps left never outgrow the changes there have been.
LEMMA BumpsLeft ==
    ASSUME Base, [Next]_vars
    PROVE  /\ ops' \in 0..MaxOp /\ Pending'
           /\ Bumps(todo') + 2 * ops <= Bumps(todo) + 2 * ops'
  <1>0. ops \in 0..MaxOp /\ MaxOp \in Nat /\ StepsOK(todo) /\ raw \in Seq(Object) /\ Bumps(todo) \in 0..2
    BY CacheAssumption DEF Base, TypeOK, Pending, Bumps
  <1>e. StepsOK(<<>>) /\ Bumps(<<>>) = 0 /\ <<>> \in Seq(Object)
    BY DEF StepsOK, Bumps
  <1>1. CASE todo' = todo /\ ops' = ops /\ raw' = raw
    BY <1>0, <1>1 DEF Pending
  <1>2. CASE Changes
    <2>1. PICK fs2 \in Tree, st \in Seq(Step) : Covers(fs2, st) /\ Change(fs2, st, FALSE)
      BY <1>2 DEF Changes
    <2>2. ops' = ops + 1 /\ ops < MaxOp /\ raw' = raw /\ (todo' = st \/ todo' = todo)
      BY <2>1 DEF Change
    <2>3. StepsOK(st) /\ Bumps(st) \in 0..2
      BY <2>1 DEF Covers, Bumps
    <2> QED
      BY <1>0, <2>2, <2>3 DEF Pending
  <1>3. CASE Take
    <2>1. todo # <<>> /\ todo' = Tail(todo) /\ ops' = ops /\ raw' = raw
      BY <1>3, TakeKinds
    <2>2. StepsOK(todo') /\ Bumps(todo') \in 0..2 /\ Bumps(todo') <= Bumps(todo)
      <3>1. StepsOK(Tail(todo)) /\ Bumps(Tail(todo)) + (IF Head(todo)[1] = "bump" THEN 1 ELSE 0) <= Bumps(todo)
        BY <1>0, <2>1, TailSteps
      <3>2. Bumps(Tail(todo)) \in 0..2
        BY DEF Bumps
      <3> QED
        BY <1>0, <2>1, <3>1, <3>2
    <2> QED
      BY <1>0, <2>1, <2>2 DEF Pending
  <1>4. CASE TakeRaw
    <2>1. raw # <<>> /\ raw' = Tail(raw) /\ todo' = todo /\ ops' = ops
      BY <1>4 DEF TakeRaw
    <2> QED
      BY <1>0, <2>1 DEF Pending
  <1>5. CASE Restart
    BY <1>0, <1>e, <1>5 DEF Restart, Pending
  <1>6. ASSUME NEW p \in Path, Raw(p)
        PROVE  todo' = todo /\ ops' = ops + 1 /\ ops < MaxOp /\ raw' \in Seq(Object)
    <2>1. PathObjects(p) \o ParentDirectory(p) \in Seq(Object)
      <3>1. PathObjects(p) \in Seq(Object) /\ ParentDirectory(p) \in Seq(Object)
        BY ParentPath DEF PathObjects, ParentDirectory
      <3> QED
        BY <3>1, ConcatProperties
    <2> QED
      BY <1>0, <1>6, <2>1 DEF Raw, RawChange
  <1>7. CASE \E p \in Path : Raw(p)
    BY <1>0, <1>6, <1>7 DEF Pending
  <1>8. CASE \/ UNCHANGED vars \/ \E p \in Path : EvictGeneration(p)
             \/ \E o \in Object : Hit(o) \/ Miss(o) \/ Fill(o) \/ Evict(o)
    <2>1. todo' = todo /\ ops' = ops /\ raw' = raw
      BY <1>8 DEF vars, EvictGeneration, Hit, Miss, Fill, Evict
    <2> QED
      BY <1>1, <2>1
  <1> QED
    BY <1>2, <1>3, <1>4, <1>5, <1>7, <1>8, Kinds

\* The generations of a scope after a step, and that they only advance.
LEMMA GenStep ==
    ASSUME Base, [Next]_vars, NEW s \in Path
    PROVE  /\ gen'[s] \in Gen \cup {NoGen} /\ local'[s] \in Gen \cup {NoGen} /\ start' \in 1..MaxStart
           /\ gen'[s][2] + Bumps(todo') <= 2 * ops' /\ local'[s][2] + Bumps(todo') <= 2 * ops'
           /\ gen'[s][1] <= start' /\ local'[s][1] <= start'
           /\ gen'[s] # NoGen /\ local'[s] # NoGen => Leq(gen'[s], local'[s])
           /\ gen'[s] # NoGen /\ local'[s] = NoGen => gen'[s][1] < start'
           /\ Leq(Current(s), Current(s)')
  <1>1. /\ gen[s] \in Gen \cup {NoGen} /\ local[s] \in Gen \cup {NoGen} /\ start \in 1..MaxStart
        /\ ops \in 0..MaxOp /\ ops' \in 0..MaxOp
        /\ MaxStart \in Nat /\ MaxOp \in Nat
        /\ Bumps(todo) \in 0..2 /\ Bumps(todo') \in 0..2
        /\ Bumps(todo') + 2 * ops <= Bumps(todo) + 2 * ops'
    BY BumpsLeft, CacheAssumption DEF Base, TypeOK, Bumps
  <1>2. Gen = (1..MaxStart) \X (0..(2 * MaxOp)) /\ NoGen = <<0, 0>>
    BY DEF Gen, NoGen
  <1>3. /\ gen[s][1] <= start /\ local[s][1] <= start
        /\ gen[s] # NoGen /\ local[s] # NoGen => Leq(gen[s], local[s])
        /\ gen[s] # NoGen /\ local[s] = NoGen => gen[s][1] < start
        /\ gen[s][2] + Bumps(todo) <= 2 * ops /\ local[s][2] + Bumps(todo) <= 2 * ops
    BY DEF Base, Ordered, Counted
  <1>4. /\ Current(s) \in Gen /\ Current(s)[1] \in 1..start /\ Current(s)[2] + Bumps(todo) <= 2 * ops
        /\ Current(s) # NoGen
    BY CurrentGen
  <1>5. Current(s) = IF gen[s] # NoGen THEN gen[s] ELSE IF local[s] # NoGen THEN local[s] ELSE <<start, 0>>
    BY DEF Current
  <1>6. Current(s)' = IF gen'[s] # NoGen THEN gen'[s] ELSE IF local'[s] # NoGen THEN local'[s] ELSE <<start', 0>>
    BY DEF Current
  <1>7. CASE gen'[s] = gen[s] /\ local'[s] = local[s] /\ start' = start
    BY <1>1, <1>2, <1>3, <1>4, <1>5, <1>6, <1>7 DEF Leq
  <1>8. CASE gen'[s] = Current(s) /\ local'[s] = Current(s) /\ start' = start
    BY <1>1, <1>2, <1>4, <1>6, <1>8 DEF Leq
  <1>9. CASE /\ todo # <<>> /\ Head(todo)[1] = "bump" /\ todo' = Tail(todo) /\ ops' = ops /\ start' = start
             /\ local'[s] = Bumped(Current(s)) /\ gen'[s] \in {Current(s), Bumped(Current(s))}
    <2>1. Bumps(todo') + 1 <= Bumps(todo)
      BY <1>9, TailSteps DEF Base, Pending
    <2>2. /\ Bumped(Current(s)) \in Gen /\ Bumped(Current(s)) # NoGen
          /\ Bumped(Current(s))[1] = Current(s)[1] /\ Bumped(Current(s))[2] = Current(s)[2] + 1
      BY <1>1, <1>2, <1>4, <2>1 DEF Bumped
    <2> QED
      BY <1>1, <1>2, <1>4, <1>6, <1>9, <2>1, <2>2 DEF Leq
  <1>10. CASE gen'[s] = NoGen /\ local'[s] = local[s] /\ start' = start
    BY <1>1, <1>2, <1>3, <1>4, <1>5, <1>6, <1>10 DEF Leq
  <1>11. CASE gen'[s] = gen[s] /\ local'[s] = NoGen /\ start' = start + 1 /\ start < MaxStart
    BY <1>1, <1>2, <1>3, <1>4, <1>5, <1>6, <1>11 DEF Leq
  <1> QED
    BY <1>7, <1>8, <1>9, <1>10, <1>11, GenMoves DEF GenMove

-----------------------------------------------------------------------------
(* Types *)

\* What a step may do to the envelope of an object: keep it, drop it, or put one with
\* the generations of the moment, which the process then remembers.
CacheMove(o) ==
    \/ cache'[o] = cache[o] \/ cache'[o] = None
    \/ /\ \E v : cache'[o] = Envelope(o, v)
       /\ start' = start /\ (o[1] = "file" => o[2] \in Files)
       /\ \A s \in Scopes(o[2]) : gen'[s] = Current(s) /\ local'[s] = Current(s)

\* A fill changes one envelope, and only as CacheMove allows.
LEMMA FillMoves ==
    ASSUME Base, NEW o \in Object, NEW v, FillWith(o, v), start' = start,
           o[1] = "file" => o[2] \in Files
    PROVE  /\ cache' = [x \in Object |-> cache'[x]]
           /\ \A x \in Object : CacheMove(x) /\ (x # o => cache'[x] = cache[x])
  <1>1. cache = [x \in Object |-> cache[x]]
    BY DEF Base, Shape
  <1>2. CASE cache' = cache
    BY <1>1, <1>2 DEF CacheMove
  <1>3. CASE Learn(o[2]) /\ cache' = [cache EXCEPT ![o] = Envelope(o, v)]
    <2>1. \A s \in Scopes(o[2]) : gen'[s] = Current(s) /\ local'[s] = Current(s)
      BY <1>3 DEF Learn, Scopes
    <2>2. cache' = [x \in Object |-> IF x = o THEN Envelope(o, v) ELSE cache[x]]
      BY <1>1, <1>3
    <2> QED
      BY <2>1, <2>2 DEF CacheMove
  <1> QED
    BY <1>2, <1>3 DEF FillWith

\* Every step leaves an envelope, drops it, or puts one with current generations.
LEMMA CacheMoves ==
    ASSUME Base, [Next]_vars
    PROVE  cache' = [x \in Object |-> cache'[x]] /\ \A x \in Object : CacheMove(x)
  <1>1. cache = [x \in Object |-> cache[x]]
    BY DEF Base, Shape
  <1>2. CASE cache' = cache
    BY <1>1, <1>2 DEF CacheMove
  <1>3. ASSUME NEW o \in Object, Drop(o)
        PROVE  cache' = [x \in Object |-> cache'[x]] /\ \A x \in Object : CacheMove(x)
    BY <1>1, <1>3 DEF Drop, CacheMove
  <1>4. CASE Take
    <2>1. ASSUME NEW o \in Object, Delete(o)
          PROVE  cache' = [x \in Object |-> cache'[x]] /\ \A x \in Object : CacheMove(x)
      BY <1>2, <1>3, <2>1 DEF Delete
    <2>2. ASSUME NEW p \in Files, <<"file", p>> \in Object, FillWith(<<"file", p>>, Content(<<"file", p>>))
          PROVE  cache' = [x \in Object |-> cache'[x]] /\ \A x \in Object : CacheMove(x)
      BY <1>4, <2>2, FillMoves DEF Take
    <2> QED
      BY <1>2, <1>4, <2>1, <2>2, TakeKinds
  <1>5. CASE TakeRaw
    <2>1. raw # <<>> /\ raw \in Seq(Object) /\ Delete(Head(raw))
      BY <1>5 DEF TakeRaw, Base, Pending
    <2>2. Head(raw) \in Object
      BY <2>1
    <2> QED
      BY <1>2, <1>3, <2>1, <2>2 DEF Delete
  <1>6. ASSUME NEW o \in Object, Hit(o) \/ Miss(o) \/ Evict(o)
        PROVE  cache' = [x \in Object |-> cache'[x]] /\ \A x \in Object : CacheMove(x)
    BY <1>2, <1>3, <1>6 DEF Hit, Miss, Evict
  <1>7. ASSUME NEW o \in Object, Fill(o)
        PROVE  cache' = [x \in Object |-> cache'[x]] /\ \A x \in Object : CacheMove(x)
    <2>1. o[1] = "file" => o[2] \in Files
      <3>1. o[1] = "file" => o = <<"file", o[2]>> /\ o[2] \in Path
        OBVIOUS
      <3>2. fill[o] # None
        BY <1>7 DEF Fill
      <3> QED
        BY <3>1, <3>2 DEF Base, Shape
    <2> QED
      BY <1>7, <2>1, FillMoves DEF Fill
  <1>8. CASE \/ Changes \/ Restart \/ UNCHANGED vars \/ \E p \in Path : Raw(p) \/ EvictGeneration(p)
    BY <1>2, <1>8 DEF Changes, Change, Restart, vars, Raw, RawChange, EvictGeneration
  <1> QED
    BY <1>4, <1>5, <1>6, <1>7, <1>8, Kinds

\* The backend changes through operations and raw writes only.
LEMMA TreeMoves ==
    ASSUME Base, [Next]_vars
    PROVE  /\ fs' \in Tree /\ \A p \in Path \ Files : fs'[p] \notin Data
           /\ fs' = fs \/ Changes \/ \E p \in Path : Raw(p)
  <1>1. CASE Changes
    BY <1>1 DEF Changes, Change, Covers
  <1>2. ASSUME NEW p \in Path, Raw(p)
        PROVE  fs' \in Tree /\ \A q \in Path \ Files : fs'[q] \notin Data
    BY <1>2 DEF Raw, RawChange
  <1>3. CASE fs' = fs
    BY <1>3 DEF Base, TypeOK, Shape, Tree
  <1>4. CASE Take
    BY <1>3, <1>4, TakeKinds
  <1>5. CASE \/ TakeRaw \/ Restart \/ UNCHANGED vars
             \/ \E p \in Path : EvictGeneration(p)
             \/ \E o \in Object : Hit(o) \/ Miss(o) \/ Fill(o) \/ Evict(o)
    BY <1>3, <1>5 DEF TakeRaw, Restart, vars, EvictGeneration, Hit, Miss, Fill, Evict
  <1> QED
    BY <1>1, <1>2, <1>4, <1>5, Kinds

\* A read in flight ends, or starts with what the backend shows.
FillMove(o) ==
    fill'[o] = fill[o] \/ fill'[o] = None \/ (fill'[o] = [val |-> Content(o)] /\ Readable(o) /\ fs' = fs)

\* Every step leaves a read in flight, ends it, or starts one with what the backend has.
LEMMA ReadMoves ==
    ASSUME Base, [Next]_vars
    PROVE  fill' = [x \in Object |-> fill'[x]] /\ \A x \in Object : FillMove(x)
  <1>1. fill = [x \in Object |-> fill[x]]
    BY DEF Base, Shape
  <1>2. CASE fill' = fill
    BY <1>1, <1>2 DEF FillMove
  <1>3. CASE Restart
    BY <1>3 DEF Restart, FillMove
  <1>4. ASSUME NEW o \in Object, Miss(o) \/ Fill(o)
        PROVE  fill' = [x \in Object |-> fill'[x]] /\ \A x \in Object : FillMove(x)
    BY <1>1, <1>4 DEF Miss, Fill, FillMove
  <1>5. CASE Take
    BY <1>2, <1>5, TakeKinds
  <1>6. CASE \/ Changes \/ TakeRaw \/ UNCHANGED vars \/ \E p \in Path : Raw(p) \/ EvictGeneration(p)
             \/ \E o \in Object : Hit(o) \/ Evict(o)
    BY <1>2, <1>6 DEF Changes, Change, TakeRaw, vars, Raw, RawChange, EvictGeneration, Hit, Evict
  <1> QED
    BY <1>3, <1>4, <1>5, <1>6, Kinds

\* What is bypassed are paths.
LEMMA BypassType ==
    ASSUME Base, NEW p \in Path
    PROVE  MarkBypass(p) \subseteq Path
  BY DEF MarkBypass, Base, TypeOK

\* The rest of the state.
LEMMA RestType ==
    ASSUME Base, [Next]_vars
    PROVE  /\ gen' = [p \in Path |-> gen'[p]] /\ local' = [p \in Path |-> local'[p]]
           /\ bypass' \subseteq Path /\ faults' \in 0..MaxFault
           /\ suspect' \subseteq Object /\ raced' \subseteq Object
  <1>0. /\ gen = [p \in Path |-> gen[p]] /\ local = [p \in Path |-> local[p]]
        /\ bypass \subseteq Path /\ faults \in 0..MaxFault /\ MaxFault \in Nat
        /\ suspect \subseteq Object /\ raced \subseteq Object
    BY CacheAssumption DEF Base, TypeOK
  <1>1. CASE Changes
    BY <1>0, <1>1 DEF Changes, Change, Fault, Affected, Cached
  <1>2. ASSUME NEW p \in Path, Raw(p) \/ EvictGeneration(p)
        PROVE  /\ gen' = [q \in Path |-> gen'[q]] /\ local' = [q \in Path |-> local'[q]]
               /\ bypass' \subseteq Path /\ faults' \in 0..MaxFault
               /\ suspect' \subseteq Object /\ raced' \subseteq Object
    BY <1>0, <1>2 DEF Raw, RawChange, EvictGeneration, Fault, Affected, Cached
  <1>3. ASSUME NEW p \in Path, Bump(p), UNCHANGED <<suspect, raced>>
        PROVE  /\ gen' = [q \in Path |-> gen'[q]] /\ local' = [q \in Path |-> local'[q]]
               /\ bypass' \subseteq Path /\ faults' \in 0..MaxFault
               /\ suspect' \subseteq Object /\ raced' \subseteq Object
    BY <1>0, <1>3, BypassType DEF Bump, Fault
  <1>4. ASSUME NEW o \in Object, Delete(o), UNCHANGED <<local, gen>>
        PROVE  /\ gen' = [q \in Path |-> gen'[q]] /\ local' = [q \in Path |-> local'[q]]
               /\ bypass' \subseteq Path /\ faults' \in 0..MaxFault
               /\ suspect' \subseteq Object /\ raced' \subseteq Object
    BY <1>0, <1>4, BypassType DEF Delete, Clean, Fault
  <1>5. ASSUME NEW o \in Object, NEW v, FillWith(o, v), UNCHANGED raced
        PROVE  /\ gen' = [q \in Path |-> gen'[q]] /\ local' = [q \in Path |-> local'[q]]
               /\ bypass' \subseteq Path /\ faults' \in 0..MaxFault
               /\ suspect' \subseteq Object /\ raced' \subseteq Object
    BY <1>0, <1>5, BypassType DEF FillWith, Learn, Fault
  <1>6. CASE Take
    <2>1. CASE UNCHANGED <<cache, gen, local, bypass, faults, suspect, raced>>
      BY <1>0, <2>1
    <2> QED
      BY <1>3, <1>4, <1>5, <1>6, <2>1, TakeKinds
  <1>7. CASE TakeRaw
    <2>1. Delete(Head(raw)) /\ UNCHANGED <<local, gen>> /\ raw # <<>> /\ raw \in Seq(Object)
      BY <1>7 DEF TakeRaw, Base, Pending
    <2>2. Head(raw) \in Object
      BY <2>1
    <2> QED
      BY <1>4, <2>1, <2>2
  <1>8. CASE Restart
    BY <1>0, <1>8 DEF Restart, Affected, Cached
  <1>9. ASSUME NEW o \in Object, Hit(o) \/ Evict(o)
        PROVE  /\ gen' = [q \in Path |-> gen'[q]] /\ local' = [q \in Path |-> local'[q]]
               /\ bypass' \subseteq Path /\ faults' \in 0..MaxFault
               /\ suspect' \subseteq Object /\ raced' \subseteq Object
    BY <1>0, <1>9, BypassType DEF Hit, Evict, Learn, Clean, Fault
  <1>10. ASSUME NEW o \in Object, Miss(o)
         PROVE  /\ gen' = [q \in Path |-> gen'[q]] /\ local' = [q \in Path |-> local'[q]]
                /\ bypass' \subseteq Path /\ faults' \in 0..MaxFault
                /\ suspect' \subseteq Object /\ raced' \subseteq Object
    BY <1>0, <1>10, BypassType DEF Miss, Learn, Fault
  <1>11. CASE \E o \in Object : Fill(o)
    BY <1>5, <1>11 DEF Fill
  <1>12. CASE UNCHANGED vars
    BY <1>0, <1>12 DEF vars
  <1> QED
    BY <1>1, <1>2, <1>6, <1>7, <1>8, <1>9, <1>10, <1>11, <1>12, Kinds

\* A snapshot has the current generation of every scope above the path.
LEMMA SnapshotType ==
    ASSUME Base, NEW p \in Path
    PROVE  Snapshot(p) \in [Scopes(p) -> Gen] /\ \A s \in Scopes(p) : Snapshot(p)[s] = Current(s)
  BY CurrentGen DEF Snapshot, Scopes

\* The types and the order of generations hold at first.
LEMMA BaseInit == Init => Base
  <1> SUFFICES ASSUME Init PROVE Base
    OBVIOUS
  <1>1. StepsOK(<<>>) /\ Bumps(<<>>) = 0 /\ <<>> \in Seq(Object) /\ <<>> \in Seq(Step)
    BY DEF StepsOK, Bumps
  <1>2. TypeOK
    BY <1>1, CacheAssumption DEF Init, TypeOK
  <1>3. Shape
    BY CacheAssumption DEF Init, Shape
  <1>4. Pending
    BY <1>1 DEF Init, Pending
  <1>5. Counted
    BY <1>1 DEF Init, Counted, NoGen
  <1>6. Ordered
    BY DEF Init, Ordered, NoGen
  <1> QED
    BY <1>2, <1>3, <1>4, <1>5, <1>6 DEF Base

\* Every step keeps the types, the shape of pending work and the order of generations.
LEMMA BaseStep == Base /\ [Next]_vars => Base'
  <1> SUFFICES ASSUME Base, [Next]_vars PROVE Base'
    OBVIOUS
  <1>1. Shape'
    <2>1. ASSUME NEW p \in Path \ Files
          PROVE  cache'[<<"file", p>>] = None /\ fill'[<<"file", p>>] = None
      <3>1. /\ <<"file", p>> \in Object /\ <<"file", p>>[1] = "file" /\ <<"file", p>>[2] = p
            /\ cache[<<"file", p>>] = None /\ fill[<<"file", p>>] = None /\ fs[p] \notin Data
        BY DEF Base, Shape
      <3>2. CacheMove(<<"file", p>>) /\ FillMove(<<"file", p>>)
        BY <3>1, CacheMoves, ReadMoves
      <3> QED
        BY <3>1, <3>2 DEF CacheMove, FillMove, Readable
    <2> QED
      BY <2>1, CacheMoves, ReadMoves, TreeMoves DEF Shape
  <1>2. Pending' /\ Counted' /\ Ordered'
    BY BumpsLeft, GenStep DEF Counted, Ordered
  <1>3. TypeOK'
    <2>1. ASSUME NEW o \in Object, cache'[o] # None
          PROVE  cache'[o].gens \in [Scopes(o[2]) -> Gen]
      <3>1. CacheMove(o)
        BY CacheMoves
      <3>2. CASE cache'[o] = cache[o]
        BY <2>1, <3>2 DEF Base, TypeOK
      <3>3. ASSUME NEW v, cache'[o] = Envelope(o, v)
            PROVE  cache'[o].gens \in [Scopes(o[2]) -> Gen]
        BY <3>3, SnapshotType DEF Envelope
      <3> QED
        BY <2>1, <3>1, <3>2, <3>3 DEF CacheMove
    <2>2. gen' \in [Path -> Gen \cup {NoGen}] /\ local' \in [Path -> Gen \cup {NoGen}] /\ start' \in 1..MaxStart
      <3>1. start' \in 1..MaxStart
        BY GenStep, CacheAssumption
      <3> QED
        BY <3>1, GenStep, RestType
    <2>3. todo' \in Seq(Step) /\ raw' \in Seq(Step) /\ ops' \in 0..MaxOp
      <3>1. raw' \in Seq(Object) /\ Object \subseteq Step
        BY BumpsLeft DEF Pending, Step
      <3> QED
        BY <3>1, BumpsLeft, SeqMonotonic DEF Pending, StepsOK
    <2> QED
      BY <2>1, <2>2, <2>3, RestType, TreeMoves DEF TypeOK, Tree
  <1> QED
    BY <1>1, <1>2, <1>3 DEF Base

\* Every variable keeps its type; the generations of a scope stay within those its
\* start and the changes so far account for, whatever the provider forgets.
THEOREM CacheTypes == Spec => []TypeOK
  <1>1. Spec => []Base
    BY BaseInit, BaseStep, PTL DEF Spec
  <1> QED
    BY <1>1, PTL DEF Base

-----------------------------------------------------------------------------
(* Envelopes and generations *)

\* Generations are ordered transitively, and antisymmetrically in between.
LEMMA LeqOrder ==
    ASSUME NEW f \in Gen, NEW g \in Gen, NEW h \in Gen, Leq(f, g), Leq(g, h)
    PROVE  Leq(f, h) /\ (f = h => f = g)
  BY CacheAssumption DEF Gen, Leq

\* An envelope has a generation for every scope of its path.
LEMMA EnvelopeGens ==
    ASSUME Base, NEW o \in Object, cache[o] # None, NEW s \in Scopes(o[2])
    PROVE  s \in Path /\ cache[o].gens[s] \in Gen
  BY DEF Base, TypeOK, Scopes

\* No step brings back a generation that an envelope carries from later on.
LEMMA PastStep ==
    ASSUME Base, Past, [Next]_vars
    PROVE  Past'
  <1> SUFFICES ASSUME NEW o \in Object, cache'[o] # None, NEW s \in Scopes(o[2])
               PROVE  /\ Leq(cache'[o].gens[s], Current(s)')
                      /\ local'[s] = NoGen => cache'[o].gens[s][1] < start'
    BY DEF Past
  <1>0. s \in Path
    BY DEF Scopes
  <1>1. Current(s) \in Gen /\ Current(s)' \in Gen /\ Leq(Current(s), Current(s)')
    <2>1. /\ gen'[s] \in Gen \cup {NoGen} /\ local'[s] \in Gen \cup {NoGen} /\ start' \in 1..MaxStart
          /\ Leq(Current(s), Current(s)')
      BY <1>0, GenStep
    <2>2. \A n \in 1..MaxStart : <<n, 0>> \in Gen
      BY CacheAssumption DEF Gen
    <2>3. Current(s)' \in Gen
      BY <2>1, <2>2 DEF Current
    <2> QED
      BY <1>0, <2>1, <2>3, CurrentGen
  <1>2. CASE cache'[o] = cache[o]
    <2>1. /\ cache[o].gens[s] \in Gen /\ Leq(cache[o].gens[s], Current(s))
          /\ local[s] = NoGen => cache[o].gens[s][1] < start
      BY <1>2, EnvelopeGens DEF Past
    <2>2. Leq(cache[o].gens[s], Current(s)')
      BY <1>1, <2>1, LeqOrder
    <2>3. ASSUME local'[s] = NoGen
          PROVE  cache[o].gens[s][1] < start'
      <3>1. CASE local[s] = NoGen /\ start' = start
        BY <2>1, <3>1
      <3>2. CASE start' = start + 1
        <4>1. Current(s)[1] \in 1..start /\ start \in 1..MaxStart
          BY <1>0, CurrentGen DEF Base, TypeOK
        <4> QED
          BY <1>1, <2>1, <3>2, <4>1, CacheAssumption DEF Leq, Gen
      <3>3. Bumped(Current(s)) # NoGen /\ Current(s) # NoGen
        BY <1>0, <1>1, CurrentGen, CacheAssumption DEF Bumped, NoGen, Gen
      <3> QED
        BY <1>0, <2>3, <3>1, <3>2, <3>3, GenMoves DEF GenMove
    <2> QED
      BY <1>2, <2>2, <2>3
  <1>3. CASE cache'[o] # cache[o]
    <2>1. CacheMove(o)
      BY CacheMoves
    <2>2. PICK v : cache'[o] = Envelope(o, v)
      BY <1>3, <2>1 DEF CacheMove
    <2>3. gen'[s] = Current(s) /\ local'[s] = Current(s) /\ start' = start
      BY <1>3, <2>1 DEF CacheMove
    <2>4. cache'[o].gens[s] = Current(s)
      BY <2>2, SnapshotType DEF Envelope
    <2> QED
      BY <1>0, <1>1, <2>3, <2>4, CurrentGen
  <1> QED
    BY <1>2, <1>3

\* An envelope that matches after a step matched before it.
LEMMA Unmatched ==
    ASSUME Base, Past, [Next]_vars, NEW o \in Object, cache[o] # None, cache'[o] = cache[o], Matches(o)'
    PROVE  Matches(o)
  <1> SUFFICES ASSUME NEW s \in Scopes(o[2]) PROVE cache[o].gens[s] = Current(s)
    BY DEF Matches
  <1>1. s \in Path /\ cache[o].gens[s] \in Gen /\ Leq(cache[o].gens[s], Current(s))
    BY EnvelopeGens DEF Past
  <1>2. Leq(Current(s), Current(s)') /\ Current(s) \in Gen
    BY <1>1, GenStep, CurrentGen
  <1>3. cache[o].gens[s] = Current(s)'
    BY DEF Matches
  <1> QED
    BY <1>1, <1>2, <1>3, LeqOrder

-----------------------------------------------------------------------------
(* Hits *)

\* The content of an object depends on the paths it shows only.
LEMMA ContentSame ==
    ASSUME NEW o \in Object, \A q \in Shown(o) : fs'[q] = fs[q]
    PROVE  Content(o)' = Content(o)
  BY DEF Content, Shown

\* mark_bypass only widens what is bypassed, to all that is below the path.
LEMMA Bypasses ==
    ASSUME Base, NEW p \in Path, bypass' = MarkBypass(p), NEW q \in Path
    PROVE  (Bypassed(q) => Bypassed(q)') /\ (Under(q, p) => Bypassed(q)')
  <1>0. bypass \subseteq Path
    BY DEF Base, TypeOK
  <1>1. CASE \E s \in bypass : Under(p, s)
    <2>1. bypass' = bypass
      BY <1>1 DEF MarkBypass
    <2> QED
      BY <1>0, <1>1, <2>1, UnderTrans DEF Bypassed
  <1>2. CASE ~ \E s \in bypass : Under(p, s)
    <2>1. bypass' = {s \in bypass : ~Under(s, p)} \cup {p}
      BY <1>2 DEF MarkBypass
    <2> QED
      BY <1>0, <2>1, UnderTrans DEF Bypassed
  <1> QED
    BY <1>1, <1>2

\* What an object was excused for before the step, or what it served, carries over.
LEMMA StillTrue ==
    ASSUME Base, Past, Truthful, [Next]_vars, NEW o \in Object,
           o \notin suspect \cup raced \cup Affected(raw) \cup Affected(todo),
           cache'[o] = cache[o], Content(o)' = Content(o),
           Bypassed(o[2]) => Bypassed(o[2])', Serves(o)'
    PROVE  cache'[o].val = Content(o)'
  <1>1. cache[o] # None /\ ~Bypassed(o[2]) /\ Matches(o)'
    BY DEF Serves
  <1>2. Serves(o)
    BY <1>1, Unmatched DEF Serves
  <1> QED
    BY <1>2 DEF Truthful

\* A delete, whether it succeeds or bypasses, leaves no wrong hit.
LEMMA DeleteTrue ==
    ASSUME Base, Past, Truthful, [Next]_vars, NEW x \in Object, Delete(x), fs' = fs,
           NEW o \in Object, o \notin suspect' \cup raced',
           o # x => o \notin Affected(raw) \cup Affected(todo), Serves(o)'
    PROVE  cache'[o].val = Content(o)'
  <1>0. cache = [y \in Object |-> cache[y]]
    BY DEF Base, Shape
  <1>1. Content(o)' = Content(o)
    BY DEF Content
  <1>2. CASE Drop(x) /\ Clean(x) /\ UNCHANGED <<faults, bypass>>
    <2>1. o # x
      BY <1>0, <1>2 DEF Drop, Serves
    <2>2. cache'[o] = cache[o] /\ o \notin suspect \cup raced
      BY <1>0, <1>2, <2>1 DEF Drop, Clean
    <2>3. Bypassed(o[2])' = Bypassed(o[2])
      BY <1>2 DEF Bypassed
    <2> QED
      BY <1>1, <2>1, <2>2, <2>3, StillTrue
  <1>3. CASE bypass' = MarkBypass(x[2]) /\ UNCHANGED <<cache, suspect, raced>>
    <2>1. (Bypassed(o[2]) => Bypassed(o[2])') /\ (Under(o[2], x[2]) => Bypassed(o[2])')
      BY <1>3, Bypasses
    <2>2. o # x
      BY <2>1, UnderSelf DEF Serves
    <2> QED
      BY <1>1, <1>3, <2>1, <2>2, StillTrue
  <1> QED
    BY <1>2, <1>3 DEF Delete

\* A fill with the content of the backend makes no wrong hit.
LEMMA FillTrue ==
    ASSUME Base, Past, Truthful, [Next]_vars, NEW x \in Object, NEW v, FillWith(x, v), fs' = fs,
           NEW o \in Object, o \notin suspect' \cup raced \cup Affected(raw) \cup Affected(todo),
           o = x => v = Content(x), Serves(o)'
    PROVE  cache'[o].val = Content(o)'
  <1>0. cache = [y \in Object |-> cache[y]]
    BY DEF Base, Shape
  <1>1. Content(o)' = Content(o)
    BY DEF Content
  <1>2. CASE /\ cache' = [cache EXCEPT ![x] = Envelope(x, v)]
             /\ suspect' = suspect \ {x} /\ UNCHANGED <<faults, bypass>>
    <2>1. CASE o = x
      BY <1>0, <1>1, <1>2, <2>1 DEF Envelope
    <2>2. CASE o # x
      <3>1. cache'[o] = cache[o] /\ o \notin suspect
        BY <1>0, <1>2, <2>2
      <3>2. Bypassed(o[2])' = Bypassed(o[2])
        BY <1>2 DEF Bypassed
      <3> QED
        BY <1>1, <3>1, <3>2, StillTrue
    <2> QED
      BY <2>1, <2>2
  <1>3. CASE bypass' = MarkBypass(x[2]) /\ UNCHANGED <<cache, suspect>>
    <2>1. Bypassed(o[2]) => Bypassed(o[2])'
      BY <1>3, Bypasses
    <2> QED
      BY <1>1, <1>3, <2>1, StillTrue
  <1>4. CASE UNCHANGED <<cache, gen, local, bypass, suspect>>
    <2>1. Bypassed(o[2])' = Bypassed(o[2])
      BY <1>4 DEF Bypassed
    <2> QED
      BY <1>1, <1>4, <2>1, StillTrue
  <1> QED
    BY <1>2, <1>3, <1>4 DEF FillWith

\* Without pending steps nothing is affected.
LEMMA NothingAffected == Affected(<<>>) = {}
  BY DEF Affected

\* A change leaves the hits outside what it announces right.
LEMMA ChangeTrue ==
    ASSUME Base, Past, Truthful, [Next]_vars, Changes,
           NEW o \in Object, o \notin suspect' \cup raced' \cup Affected(raw') \cup Affected(todo'), Serves(o)'
    PROVE  cache'[o].val = Content(o)'
  <1>1. PICK fs2 \in Tree, st \in Seq(Step) : Covers(fs2, st) /\ Change(fs2, st, FALSE)
    BY DEF Changes
  <1>2. /\ fs' = fs2 /\ todo = <<>> /\ (todo' = st \/ suspect' = suspect \cup Cached(Affected(st)))
        /\ suspect \subseteq suspect' /\ UNCHANGED <<cache, bypass, raw, raced>>
    BY <1>1 DEF Change, WriteLock
  <1>3. cache[o] # None
    BY <1>2 DEF Serves
  <1>4. o \notin Affected(st) /\ o \notin suspect \cup raced \cup Affected(raw) \cup Affected(todo)
    BY <1>2, <1>3, NothingAffected DEF Cached
  <1>5. Content(o)' = Content(o)
    BY <1>1, <1>2, <1>4, <1>3, ContentSame DEF Covers
  <1>6. Bypassed(o[2])' = Bypassed(o[2])
    BY <1>2 DEF Bypassed
  <1> QED
    BY <1>2, <1>4, <1>5, <1>6, StillTrue

\* So does a raw change: what it changed without announcing it is suspect.
LEMMA RawTrue ==
    ASSUME Base, Past, Truthful, [Next]_vars, NEW p \in Path, Raw(p),
           NEW o \in Object, o \notin suspect' \cup raced' \cup Affected(raw') \cup Affected(todo'), Serves(o)'
    PROVE  cache'[o].val = Content(o)'
  <1>1. /\ raw = <<>> /\ suspect \subseteq suspect' /\ raced \subseteq raced'
        /\ UNCHANGED <<cache, bypass, todo>>
    BY DEF Raw, RawChange
  <1>2. o \notin suspect \cup raced \cup Affected(raw) \cup Affected(todo)
    BY <1>1, NothingAffected
  <1>3. Content(o)' = Content(o)
    <2>1. cache[o] # None
      BY <1>1 DEF Serves
    <2> QED
      BY <2>1 DEF Raw, RawChange, Cached
  <1>4. Bypassed(o[2])' = Bypassed(o[2])
    BY <1>1 DEF Bypassed
  <1> QED
    BY <1>1, <1>2, <1>3, <1>4, StillTrue

\* A bump leaves no envelope below its path that would be served: those that were put
\* have older generations, or the path is bypassed.
LEMMA BumpTrue ==
    ASSUME Base, Past, Truthful, [Next]_vars, NEW p \in Path, Bump(p),
           UNCHANGED <<cache, suspect, raced, fs, start>>,
           NEW o \in Object, o \notin suspect' \cup raced' \cup Affected(raw),
           ~Under(o[2], p) => o \notin Affected(todo), Serves(o)'
    PROVE  cache'[o].val = Content(o)'
  <1>1. Content(o)' = Content(o)
    BY DEF Content
  <1>2. gen \in [Path -> Gen \cup {NoGen}]
    BY DEF Base, TypeOK
  <1>3. CASE bypass' = MarkBypass(p)
    <2>1. (Bypassed(o[2]) => Bypassed(o[2])') /\ (Under(o[2], p) => Bypassed(o[2])')
      BY <1>3, Bypasses
    <2>2. ~Under(o[2], p)
      BY <2>1 DEF Serves
    <2> QED
      BY <1>1, <2>1, <2>2, StillTrue
  <1>4. CASE gen' = [gen EXCEPT ![p] = Bumped(Current(p))] /\ UNCHANGED bypass
    <2>1. Bypassed(o[2])' = Bypassed(o[2])
      BY <1>4 DEF Bypassed
    <2>2. CASE Under(o[2], p)
      <3>1. p \in Scopes(o[2]) /\ cache[o] # None
        BY <2>2 DEF Scopes, Serves
      <3>2. cache[o].gens[p] \in Gen /\ Leq(cache[o].gens[p], Current(p)) /\ Current(p) \in Gen
        BY <3>1, EnvelopeGens, CurrentGen DEF Past
      <3>3. Current(p)' = Bumped(Current(p))
        <4>1. gen'[p] = Bumped(Current(p))
          BY <1>2, <1>4
        <4>2. Bumped(Current(p)) # NoGen
          BY <3>2, CacheAssumption DEF Bumped, NoGen, Gen
        <4> QED
          BY <4>1, <4>2 DEF Current
      <3>4. cache[o].gens[p] = Current(p)'
        BY <3>1 DEF Serves, Matches
      <3> QED
        BY <3>2, <3>3, <3>4, CacheAssumption DEF Leq, Bumped, Gen
    <2>3. CASE ~Under(o[2], p)
      BY <1>1, <2>1, <2>3, StillTrue
    <2> QED
      BY <2>2, <2>3
  <1> QED
    BY <1>3, <1>4 DEF Bump, Bumped

\* One step of a pending invalidation makes right what it takes off the list.
LEMMA TakeTrue ==
    ASSUME Base, Past, Truthful, [Next]_vars, Take,
           NEW o \in Object, o \notin suspect' \cup raced' \cup Affected(raw') \cup Affected(todo'), Serves(o)'
    PROVE  cache'[o].val = Content(o)'
  <1>1. todo # <<>> /\ todo' = Tail(todo) /\ UNCHANGED <<fs, start, raw, fill, ops>>
    BY TakeKinds
  <1>2. \/ o \notin Affected(todo) \/ o = Head(todo)
        \/ (Head(todo)[1] = "bump" /\ Under(o[2], Head(todo)[2]))
    BY <1>1, TailSteps DEF Base, Pending
  <1>3. ASSUME NEW p \in Path, Head(todo) = <<"bump", p>>, Bump(p), UNCHANGED <<cache, suspect, raced>>
        PROVE  cache'[o].val = Content(o)'
    <2>1. o # Head(todo) /\ Head(todo)[2] = p
      BY <1>3
    <2> QED
      BY <1>1, <1>2, <1>3, <2>1, BumpTrue
  <1>4. ASSUME NEW x \in Object, Head(todo) = x, Delete(x)
        PROVE  cache'[o].val = Content(o)'
    <2>1. Head(todo)[1] # "bump"
      BY <1>4
    <2> QED
      BY <1>1, <1>2, <1>4, <2>1, DeleteTrue
  <1>5. ASSUME NEW p \in Files, Head(todo) = <<"fill", p>>, <<"file", p>> \in Object
        PROVE  o \notin Affected(todo)
    <2>1. Head(todo)[1] # "bump" /\ o # Head(todo)
      BY <1>5
    <2> QED
      BY <1>2, <2>1
  <1>6. ASSUME NEW p \in Files, Head(todo) = <<"fill", p>>, <<"file", p>> \in Object,
               FillWith(<<"file", p>>, Content(<<"file", p>>)), UNCHANGED raced
        PROVE  cache'[o].val = Content(o)'
    BY <1>1, <1>5, <1>6, FillTrue
  <1>7. ASSUME NEW p \in Files, Head(todo) = <<"fill", p>>, <<"file", p>> \in Object,
               UNCHANGED <<cache, gen, local, bypass, faults, suspect, raced>>
        PROVE  cache'[o].val = Content(o)'
    <2>1. Content(o)' = Content(o) /\ Bypassed(o[2])' = Bypassed(o[2])
      BY <1>1, <1>7 DEF Content, Bypassed
    <2> QED
      BY <1>1, <1>5, <1>7, <2>1, StillTrue
  <1> QED
    BY <1>3, <1>4, <1>6, <1>7, TakeKinds

\* So does one step of the invalidation after a raw write.
LEMMA TakeRawTrue ==
    ASSUME Base, Past, Truthful, [Next]_vars, TakeRaw,
           NEW o \in Object, o \notin suspect' \cup raced' \cup Affected(raw') \cup Affected(todo'), Serves(o)'
    PROVE  cache'[o].val = Content(o)'
  <1>1. raw # <<>> /\ raw' = Tail(raw) /\ raw \in Seq(Object) /\ Delete(Head(raw)) /\ UNCHANGED <<fs, todo>>
    BY DEF TakeRaw, Base, Pending
  <1>2. StepsOK(raw)
    <2>1. /\ raw \in Seq(Step) /\ Len(raw) \in Nat
          /\ \A i \in 1..Len(raw) : raw[i] \in Object
      BY <1>1, SeqMonotonic DEF Step
    <2>2. \A i \in 1..Len(raw) : raw[i][1] # "bump" /\ raw[i][1] # "fill"
      BY <2>1
    <2>3. \A i \in 3..Len(raw) : i \in 1..Len(raw)
      BY <2>1
    <2>4. Len(raw) >= 2 => 2 \in 1..Len(raw)
      BY <2>1
    <2> QED
      BY <2>1, <2>2, <2>3, <2>4 DEF StepsOK
  <1>3. Head(raw) \in Object /\ Head(raw)[1] # "bump"
    BY <1>1
  <1>4. o # Head(raw) => o \notin Affected(raw)
    BY <1>1, <1>2, <1>3, TailSteps
  <1> QED
    BY <1>1, <1>3, <1>4, DeleteTrue

\* A restart serves only what is not suspect: cut off invalidations are.
LEMMA RestartTrue ==
    ASSUME Base, Past, Truthful, [Next]_vars, Restart,
           NEW o \in Object, o \notin suspect' \cup raced' \cup Affected(raw') \cup Affected(todo'), Serves(o)'
    PROVE  cache'[o].val = Content(o)'
  <1>0. cache' = cache /\ cache[o] # None
    BY DEF Restart, Serves
  <1>1. /\ o \notin suspect \cup raced \cup Affected(raw) \cup Affected(todo)
        /\ cache' = cache /\ fs' = fs /\ ~Bypassed(o[2])
    BY <1>0 DEF Restart, Cached
  <1>2. cache[o] # None /\ Matches(o)
    BY <1>1, Unmatched DEF Serves
  <1>3. Serves(o)
    BY <1>1, <1>2 DEF Serves
  <1>4. Content(o)' = Content(o)
    BY <1>1 DEF Content
  <1> QED
    BY <1>1, <1>3, <1>4 DEF Truthful

\* Reads, fills and evictions make no wrong hit.
LEMMA ReadTrue ==
    ASSUME Base, Past, ReadsFresh, Truthful, [Next]_vars, NEW x \in Object,
           Hit(x) \/ Miss(x) \/ Fill(x) \/ Evict(x),
           NEW o \in Object, o \notin suspect' \cup raced' \cup Affected(raw') \cup Affected(todo'), Serves(o)'
    PROVE  cache'[o].val = Content(o)'
  <1>0. cache = [y \in Object |-> cache[y]]
    BY DEF Base, Shape
  <1>1. fs' = fs /\ todo' = todo /\ raw' = raw
    BY DEF Hit, Miss, Fill, Evict
  <1>2. Content(o)' = Content(o)
    BY <1>1 DEF Content
  <1>3. CASE Fill(x)
    <2>1. FillWith(x, fill[x].val) /\ fill[x] # None /\ raced' = raced
      BY <1>3 DEF Fill
    <2>2. o = x => fill[x].val = Content(x)
      BY <2>1 DEF ReadsFresh
    <2> QED
      BY <1>1, <2>1, <2>2, FillTrue
  <1>4. CASE /\ cache' = cache /\ suspect' = suspect /\ raced' = raced
             /\ bypass' = bypass \/ bypass' = MarkBypass(x[2])
    <2>1. Bypassed(o[2]) => Bypassed(o[2])'
      <3>1. CASE bypass' = bypass
        BY <3>1 DEF Bypassed
      <3>2. CASE bypass' = MarkBypass(x[2])
        BY <3>2, Bypasses
      <3> QED
        BY <1>4, <3>1, <3>2
    <2> QED
      BY <1>1, <1>2, <1>4, <2>1, StillTrue
  <1>5. CASE /\ Drop(x) /\ suspect' = suspect \ {x} /\ bypass' = bypass
             /\ raced \subseteq raced' \cup {x}
    <2>1. o # x
      BY <1>0, <1>5 DEF Drop, Serves
    <2>2. cache'[o] = cache[o] /\ o \notin suspect \cup raced
      BY <1>0, <1>5, <2>1 DEF Drop
    <2>3. Bypassed(o[2])' = Bypassed(o[2])
      BY <1>5 DEF Bypassed
    <2> QED
      BY <1>1, <1>2, <2>2, <2>3, StillTrue
  <1>6. CASE Hit(x)
    BY <1>4, <1>6 DEF Hit
  <1>7. CASE Miss(x)
    BY <1>4, <1>5, <1>7 DEF Miss
  <1>8. CASE Evict(x)
    BY <1>5, <1>8 DEF Evict, Clean
  <1> QED
    BY <1>3, <1>6, <1>7, <1>8

\* Every step keeps the hits right.
LEMMA TruthfulStep ==
    ASSUME IInv, [Next]_vars
    PROVE  Truthful'
  <1>0. Base /\ Past /\ ReadsFresh /\ Truthful
    BY DEF IInv
  <1> SUFFICES ASSUME NEW o \in Object,
                      o \notin suspect' \cup raced' \cup Affected(raw') \cup Affected(todo'), Serves(o)'
               PROVE  cache'[o].val = Content(o)'
    BY DEF Truthful, Affected
  <1>1. CASE UNCHANGED vars \/ \E p \in Path : EvictGeneration(p)
    <2>1. /\ UNCHANGED <<fs, cache, bypass, todo, raw, suspect, raced>>
      BY <1>1 DEF vars, EvictGeneration
    <2>2. Content(o)' = Content(o) /\ Bypassed(o[2])' = Bypassed(o[2])
      BY <2>1 DEF Content, Bypassed
    <2> QED
      BY <1>0, <2>1, <2>2, StillTrue
  <1> QED
    BY <1>0, <1>1, ChangeTrue, RawTrue, TakeTrue, TakeRawTrue, RestartTrue, ReadTrue, Kinds

\* An object that a raw write changed under its reader stays marked until it is put.
LEMMA RacedKept ==
    ASSUME Base, [Next]_vars, NEW o \in Object, o \in raced, fill[o] # None
    PROVE  o \in raced'
  <1>1. \A x \in Object : Clean(x) => o \in raced'
    BY DEF Clean
  <1>2. CASE raced' = raced
    BY <1>2
  <1>3. CASE Take
    BY <1>1, <1>2, <1>3, TakeKinds DEF Delete
  <1>4. CASE TakeRaw
    <2>1. Head(raw) \in Object /\ Delete(Head(raw))
      BY <1>4 DEF TakeRaw, Base, Pending
    <2> QED
      BY <1>1, <1>2, <2>1 DEF Delete
  <1>5. CASE \E p \in Path : Raw(p)
    BY <1>5 DEF Raw, RawChange
  <1>6. CASE \E x \in Object : Evict(x)
    BY <1>1, <1>6 DEF Evict
  <1>7. CASE \/ Changes \/ Restart \/ UNCHANGED vars \/ \E p \in Path : EvictGeneration(p)
             \/ \E x \in Object : Hit(x) \/ Miss(x) \/ Fill(x)
    BY <1>2, <1>7 DEF Changes, Change, Restart, vars, EvictGeneration, Hit, Miss, Fill
  <1> QED
    BY <1>3, <1>4, <1>5, <1>6, <1>7, Kinds

\* Every step keeps the reads in flight current, or marks them as raced.
LEMMA ReadsFreshStep ==
    ASSUME IInv, [Next]_vars
    PROVE  ReadsFresh'
  <1>0. Base /\ ReadsFresh
    BY DEF IInv
  <1> SUFFICES ASSUME NEW o \in Object, o \notin raced', fill'[o] # None
               PROVE  fill'[o].val = Content(o)'
    BY DEF ReadsFresh
  <1>1. FillMove(o)
    BY <1>0, ReadMoves
  <1>2. CASE fill'[o] = [val |-> Content(o)] /\ fs' = fs
    <2>1. Content(o)' = Content(o)
      BY <1>2 DEF Content
    <2> QED
      BY <1>2, <2>1
  <1>3. CASE fill'[o] = fill[o]
    <2>1. fill[o] # None /\ o \notin raced
      BY <1>0, <1>3, RacedKept
    <2>2. Content(o)' = Content(o)
      <3>1. ~Changes
        BY <2>1 DEF Changes, Change, WriteLock
      <3>2. ASSUME NEW p \in Path, Raw(p), Content(o)' # Content(o)
            PROVE  FALSE
        BY <2>1, <3>2 DEF Raw, RawChange
      <3>3. CASE fs' = fs
        BY <3>3 DEF Content
      <3> QED
        BY <1>0, <3>1, <3>2, <3>3, TreeMoves
    <2> QED
      BY <1>0, <1>3, <2>1, <2>2 DEF ReadsFresh
  <1> QED
    BY <1>1, <1>2, <1>3 DEF FillMove

-----------------------------------------------------------------------------
(* Theorems *)

\* The invariant holds at first.
LEMMA InvariantInit == Init => IInv
  BY BaseInit DEF Init, IInv, Past, ReadsFresh, Truthful, Serves

\* Every step keeps the invariant.
LEMMA InvariantStep == IInv /\ [Next]_vars => IInv'
  BY BaseStep, PastStep, ReadsFreshStep, TruthfulStep DEF IInv

\* The invariant holds throughout.
LEMMA Invariant == Spec => []IInv
  BY InvariantInit, InvariantStep, PTL DEF Spec

\* A hit returns what the backend has, for every tree, any number of changes, failing
\* invalidations, forgotten envelopes and generations, and restarts: but for the objects
\* whose invalidation was skipped, by a backend error, by the end of the process or
\* because the raw write that changed them has none, and those a raw write changed
\* under their reader.
THEOREM HitsRight == Spec => []HitsCurrent
  <1>1. IInv => HitsCurrent
    BY NothingAffected DEF IInv, Truthful, HitsCurrent
  <1> QED
    BY <1>1, Invariant, PTL

\* A generation never comes back: an envelope that failed the check of
\* current_generations fails it for as long as it is kept.
THEOREM StaleForGood == Spec => StaleStaysStale
  <1>1. ASSUME IInv, [Next]_vars
        PROVE  \A o \in Object :
                 cache[o] # None /\ cache'[o] = cache[o] /\ ~Matches(o) => ~Matches(o)'
    BY <1>1, Unmatched DEF IInv
  <1>2. IInv /\ [Next]_vars =>
          [\A o \in Object :
             cache[o] # None /\ cache'[o] = cache[o] /\ ~Matches(o) => ~Matches(o)']_vars
    BY <1>1
  <1> QED
    BY <1>2, Invariant, PTL DEF Spec, StaleStaysStale

=============================================================================
