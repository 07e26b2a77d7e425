-------------------------- MODULE ModQueriesProofs --------------------------
(***************************************************************************)
(* Every answer about mods is right, and a reader of the pages sees all,   *)
(* for any jars, sizes of a page and batches: first what is true of every  *)
(* range and page, then the list and its order, the reader who turns the   *)
(* pages (ReadersSeeAll), and what is asked (AnswersAreRight).             *)
(***************************************************************************)
EXTENDS ModQueries, FiniteSetTheorems, FunctionTheorems, SequenceTheorems, TLAPS

\* A union is read as the pair of the texts around its first comma.
TakenFor(r) == IF r.form = "union" THEN [r EXCEPT !.form = "pair"] ELSE r

\* A dependency is met by exactly the versions that its written range allows, but
\* for the empty version and a "(" with nothing after it, which the parser takes
\* for the exclusion of the empty version, and but for a union, whose versions are
\* those of the one pair it is taken for (parse_mod_ext and resolve_deps).
THEOREM RangesMeanWhatTheySay ==
  ASSUME NEW versions \in SUBSET Nat, NEW r \in Ranges(versions), Parses(r),
         NEW v \in Nat, ~(Bare(r) /\ v = 0)
  PROVE  LET met == Above(v, LowBound(r)) /\ Below(v, HighBound(r))
         IN  /\ r.form # "union" => (met <=> Means(r, v))
             /\ r.form = "union" => (met <=> Means([r EXCEPT !.form = "pair"], v))
<1> SUFFICES Above(v, LowBound(r)) /\ Below(v, HighBound(r)) <=> Means(TakenFor(r), v)
  BY DEF TakenFor
<1>1. CASE r.form = "none"
  BY <1>1 DEF TakenFor, Ranges, LowBound, HighBound, Unbounded, Bound, Above, Below, Means
<1>2. CASE r.form = "single"
  <2>1. r.lo \in Nat
    BY <1>2 DEF Ranges
  <2>2. LowBound(r) = Bound("included", r.lo) /\ HighBound(r) = Bound("included", r.lo)
    BY <1>2 DEF LowBound, HighBound, IsPair
  <2> QED
    BY <1>2, <2>1, <2>2 DEF TakenFor, Bound, Above, Below, Means
<1>3. CASE IsPair(r)
  <2>1. r.lo \in Nat /\ r.hi \in Nat /\ r.open \in {"[", "("} /\ r.close \in {"]", ")"}
    BY <1>3 DEF Ranges, Parses, IsPair
  <2>2. Above(v, LowBound(r)) <=> r.lo = 0 \/ v > r.lo \/ (v = r.lo /\ r.open = "[")
    <3>1. CASE r.open = "["
      <4>1. LowBound(r) = IF r.lo = 0 THEN Unbounded ELSE Bound("included", r.lo)
        BY <1>3, <3>1 DEF LowBound, IsPair
      <4> QED
        BY <2>1, <3>1, <4>1 DEF Unbounded, Bound, Above
    <3>2. CASE r.open = "("
      <4>1. LowBound(r) = Bound("excluded", r.lo)
        BY <1>3, <3>2 DEF LowBound, IsPair
      <4>2. r.lo = 0 => v # 0
        BY <1>3, <3>2 DEF Bare
      <4> QED
        BY <2>1, <3>2, <4>1, <4>2 DEF Bound, Above
    <3> QED
      BY <2>1, <3>1, <3>2
  <2>3. Below(v, HighBound(r)) <=> r.hi = 0 \/ v < r.hi \/ (v = r.hi /\ r.close = "]")
    <3>1. HighBound(r) = IF r.hi = 0 THEN Unbounded
                         ELSE Bound(IF r.close = "]" THEN "included" ELSE "excluded", r.hi)
      BY <1>3 DEF HighBound, IsPair
    <3> QED
      BY <2>1, <3>1 DEF Unbounded, Bound, Below
  <2> QED
    <3>1. /\ TakenFor(r).form = "pair" /\ TakenFor(r).lo = r.lo /\ TakenFor(r).hi = r.hi
          /\ TakenFor(r).open = r.open /\ TakenFor(r).close = r.close
      BY <1>3 DEF TakenFor, IsPair, Ranges
    <3> QED
      BY <2>2, <2>3, <3>1 DEF Means
<1> QED
  BY <1>1, <1>2, <1>3 DEF Ranges, IsPair

\* A page whose bounds do not overflow is never a panic: it is the stretch of the
\* list that its number says, cut at the end of the list, and it is the last one
\* exactly if it is not full (list_mods_paged).
THEOREM PagesAreCutRight ==
  ASSUME NEW mods, Len(mods) \in Nat,
         NEW perPage \in Nat \ {0}, NEW page \in Nat, ~Overflows(perPage, page)
  PROVE  LET start == Least(perPage * page, Len(mods))
             end   == Least(perPage * page + perPage, Len(mods))
             p     == Page(mods, perPage, page)
         IN  /\ ~p.panic
             /\ p.mods = SubSeq(mods, start + 1, end)
             /\ p.finished \in BOOLEAN
             /\ p.finished <=> Len(mods) < perPage * page + perPage
<1> DEFINE k     == perPage * page
           n     == Len(mods)
           start == Least(k, n)
           end   == Least(k + perPage, n)
<1>1. k \in Nat /\ n \in Nat
  OBVIOUS
<1>2. k + perPage < Width /\ k < Width /\ Width \in Nat \ {0}
  BY <1>1, WidthAssumption DEF Overflows
<1>3. Page(mods, perPage, page) =
        LET offset == k % Width
            first  == Least(offset, n)
            last   == Least((offset + perPage) % Width, n)
        IN  IF last < first THEN [panic |-> TRUE, mods |-> << >>, finished |-> FALSE]
            ELSE [panic    |-> FALSE,
                  mods     |-> SubSeq(mods, first + 1, last),
                  finished |-> last - first < perPage]
  BY DEF Page, Finished
<1> HIDE DEF k, n
<1>4. k % Width = k /\ (k + perPage) % Width = k + perPage
  BY <1>1, <1>2
<1>5. /\ start \in Nat /\ end \in Nat /\ ~(end < start)
      /\ (end - start < perPage) <=> (n < k + perPage)
  BY <1>1 DEF Least
<1>6. Page(mods, perPage, page) =
        IF end < start THEN [panic |-> TRUE, mods |-> << >>, finished |-> FALSE]
        ELSE [panic    |-> FALSE,
              mods     |-> SubSeq(mods, start + 1, end),
              finished |-> end - start < perPage]
  BY <1>3, <1>4
<1> HIDE DEF start, end
<1>7. Page(mods, perPage, page) = [panic    |-> FALSE,
                                   mods     |-> SubSeq(mods, start + 1, end),
                                   finished |-> end - start < perPage]
  BY <1>5, <1>6
<1> DEFINE p == Page(mods, perPage, page)
<1>8. p = [panic |-> FALSE, mods |-> SubSeq(mods, start + 1, end),
           finished |-> end - start < perPage]
  BY <1>7
<1> HIDE DEF p
<1>9. p.panic = FALSE
  BY <1>8
<1>10. p.mods = SubSeq(mods, start + 1, end)
  BY <1>8
<1>11. p.finished = (end - start < perPage)
  BY <1>8
<1>12. p.finished \in BOOLEAN
  BY <1>5, <1>11
<1> QED
  BY <1>5, <1>9, <1>10, <1>11, <1>12, Zenon DEF p, k, n, start, end
-----------------------------------------------------------------------------
(***************************************************************************)
(* The invariant.  What is known of a list is put in terms of ids and the  *)
(* rank of an id among them, which is its place in the list.               *)
(***************************************************************************)
Smaller(I, x) == {y \in I : y < x}
Rank(I, x)    == Cardinality(Smaller(I, x))

Installed(jars) == Base \union {k \in jars : Readable(k)}
IdsOf(jars)     == {j.id : j \in Installed(jars)}

DistinctIds(jars) == \A j, k \in jars : j.id = k.id => j = k

\* Every change of the folder leaves one jar of a mod, and the list is made of jars
\* of the folder.
FolderInv == folder \subseteq Jars /\ DistinctIds(folder) /\ opened \subseteq folder

\* What a reader of a list of these ids has seen when he has turned w.page pages.
Shown(w, ids, id) == w.done \/ Rank(ids, id) < w.page * w.perPage
Seen(w)           == {w.seen[i] : i \in DOMAIN w.seen}

WalkTypeOK(w) ==
  w \in [perPage : Sizes, page : Nat, seen : Seq(AllIds), done : BOOLEAN,
         kept : SUBSET AllIds, came : BOOLEAN, gone : BOOLEAN]

\* A mod that came late may have pushed others on, and one that went may have
\* pulled them back: what was listed all the while is between them.
WalkInv(w, ids) ==
  /\ WalkTypeOK(w)
  /\ w.kept \subseteq ids
  /\ ~w.done => w.page * w.perPage <= Cardinality(AllIds)
  /\ ~w.gone => \A id \in w.kept : Shown(w, ids, id) => id \in Seen(w)
  /\ ~w.came => /\ \A i, j \in DOMAIN w.seen : i # j => w.seen[i] # w.seen[j]
                /\ ids \subseteq w.kept
                /\ \A id \in Seen(w) \intersect ids : Shown(w, ids, id)
  /\ ~w.came /\ ~w.gone /\ w.perPage > 0 =>
       /\ w.page * w.perPage <= Cardinality(w.kept) + w.perPage
       /\ ~w.done => w.page * w.perPage <= Cardinality(w.kept)

QueriesInv == FolderInv /\ (walk # None => WalkInv(walk, IdsOf(opened)))

-----------------------------------------------------------------------------
(***************************************************************************)
(* Ranks in finite sets of numbers, and sorted lists                       *)
(***************************************************************************)
\* As many are smaller as the rank says, and for a member not all are.
LEMMA RankFacts ==
  ASSUME NEW I \in SUBSET Int, IsFiniteSet(I), NEW x \in Int
  PROVE  /\ Rank(I, x) \in Nat /\ Cardinality(I) \in Nat
         /\ Rank(I, x) <= Cardinality(I)
         /\ x \in I => Rank(I, x) < Cardinality(I)
<1>1. Smaller(I, x) \in SUBSET I
  BY DEF Smaller
<1>2. IsFiniteSet(Smaller(I, x)) /\ Rank(I, x) <= Cardinality(I)
      /\ (Cardinality(I) = Rank(I, x) => I = Smaller(I, x))
  BY <1>1, FS_Subset DEF Rank
<1>3. Rank(I, x) \in Nat /\ Cardinality(I) \in Nat
  BY <1>2, FS_CardinalityType DEF Rank
<1>4. x \in I => I # Smaller(I, x)
  BY DEF Smaller
<1> QED
  BY <1>2, <1>3, <1>4

\* A larger number has a larger rank.
LEMMA RankOrder ==
  ASSUME NEW I \in SUBSET Int, IsFiniteSet(I), NEW x \in I, NEW y \in Int, x < y
  PROVE  Rank(I, x) < Rank(I, y)
<1>1. Smaller(I, x) \in SUBSET Smaller(I, y)
  <2>1. \A z \in I : z < x => z < y
    <3> SUFFICES ASSUME NEW z \in I, z < x PROVE z < y
      OBVIOUS
    <3>1. z \in Int /\ x \in Int
      OBVIOUS
    <3> QED
      BY <3>1
  <2> QED
    BY <2>1 DEF Smaller
<1>2. IsFiniteSet(Smaller(I, y))
  BY FS_Subset DEF Smaller
<1>3. x \in Smaller(I, y) /\ x \notin Smaller(I, x)
  BY DEF Smaller
<1>4. Rank(I, x) <= Rank(I, y) /\ (Rank(I, y) = Rank(I, x) => Smaller(I, y) = Smaller(I, x))
  BY <1>1, <1>2, FS_Subset DEF Rank
<1>5. Rank(I, x) # Rank(I, y)
  BY <1>3, <1>4
<1> QED
  BY <1>4, <1>5, RankFacts

\* What is added to a set pushes nothing back.
LEMMA RankGrows ==
  ASSUME NEW J \in SUBSET Int, IsFiniteSet(J), NEW I \in SUBSET J, NEW x \in Int
  PROVE  Rank(I, x) <= Rank(J, x)
<1>1. Smaller(I, x) \in SUBSET Smaller(J, x)
  BY DEF Smaller
<1>2. IsFiniteSet(Smaller(J, x))
  BY FS_Subset DEF Smaller
<1> QED
  BY <1>1, <1>2, FS_Subset DEF Rank

\* Every place below the size of a set is the rank of one of its elements.
LEMMA RankOnto ==
  ASSUME NEW I \in SUBSET Int, IsFiniteSet(I)
  PROVE  /\ \A r \in 0 .. Cardinality(I) - 1 : \E x \in I : Rank(I, x) = r
         /\ \A x, y \in I : Rank(I, x) = Rank(I, y) => x = y
<1> DEFINE n == Cardinality(I)
           f == [x \in I |-> Rank(I, x)]
<1>1. n \in Nat
  BY FS_CardinalityType
<1>2. \A x \in I : Rank(I, x) \in 0 .. n - 1
  <2> SUFFICES ASSUME NEW x \in I PROVE Rank(I, x) \in 0 .. n - 1
    OBVIOUS
  <2>1. x \in Int
    OBVIOUS
  <2> QED
    BY <1>1, <2>1, RankFacts
<1>3. \A x, y \in I : Rank(I, x) = Rank(I, y) => x = y
  <2> SUFFICES ASSUME NEW x \in I, NEW y \in I, x # y PROVE Rank(I, x) # Rank(I, y)
    OBVIOUS
  <2>1. x \in Int /\ y \in Int /\ Rank(I, x) \in Nat /\ Rank(I, y) \in Nat
    BY <1>1, <1>2
  <2>2. x < y \/ y < x
    BY <2>1
  <2>3. CASE x < y
    BY <2>1, <2>3, RankOrder
  <2>4. CASE y < x
    BY <2>1, <2>4, RankOrder
  <2> QED
    BY <2>2, <2>3, <2>4
<1>4. f \in Injection(I, 0 .. n - 1)
  <2>1. f \in [I -> 0 .. n - 1]
    BY <1>2
  <2>2. \A x, y \in I : f[x] = f[y] => x = y
    BY <1>3
  <2> HIDE DEF f, n
  <2> QED
    BY <2>1, <2>2, Fun_IsInj
<1>5. IsFiniteSet(0 .. n - 1) /\ Cardinality(0 .. n - 1) = n
  <2>1. 0 \in Int /\ n - 1 \in Int
    BY <1>1
  <2>2. /\ IsFiniteSet(0 .. n - 1)
        /\ Cardinality(0 .. n - 1) = IF 0 > n - 1 THEN 0 ELSE n - 1 - 0 + 1
    BY <2>1, FS_Interval
  <2> QED
    BY <1>1, <2>2
<1>6. f \in Surjection(I, 0 .. n - 1)
  BY <1>4, <1>5, FS_Injection
<1>7. \A r \in 0 .. n - 1 : \E x \in I : f[x] = r
  <2> DEFINE J == 0 .. n - 1
  <2>1. f \in Surjection(I, J)
    BY <1>6
  <2> HIDE DEF f, J
  <2>2. \A r \in J : \E x \in I : f[x] = r
    BY <2>1, Fun_SurjectionProperties
  <2> QED
    BY <2>2 DEF J
<1> QED
  BY <1>3, <1>7

\* Counting things that have different ids, and counting their ids, is the same.
LEMMA CountIds ==
  ASSUME NEW T, IsFiniteSet(T), \A j, k \in T : j.id = k.id => j = k
  PROVE  /\ IsFiniteSet({j.id : j \in T})
         /\ Cardinality({j.id : j \in T}) = Cardinality(T)
<1> DEFINE f == [j \in T |-> j.id]
           I == {j.id : j \in T}
<1>1. /\ f \in [T -> I]
      /\ \A j, k \in T : f[j] = f[k] => j = k
      /\ \A i \in I : \E j \in T : f[j] = i
  OBVIOUS
<1> HIDE DEF f, I
<1>2. f \in Injection(T, I) /\ f \in Surjection(T, I)
  BY <1>1, Fun_IsInj, Fun_IsSurj
<1>3. IsFiniteSet(I) /\ Cardinality(I) = Cardinality(T)
  BY <1>2, FS_Surjection
<1> QED
  BY <1>3 DEF I


-----------------------------------------------------------------------------
(***************************************************************************)
(* The list of a folder                                                    *)
(***************************************************************************)
\* Jars with different ids are no more than there are ids.
LEMMA DistinctFinite ==
  ASSUME NEW T, T \subseteq Jars \union Base, DistinctIds(T)
  PROVE  IsFiniteSet(T)
<1> DEFINE f == [j \in T |-> j.id]
<1>1. f \in [T -> AllIds] /\ \A j, k \in T : f[j] = f[k] => j = k
  BY DEF AllIds, DistinctIds
<1> HIDE DEF f
<1>2. f \in Injection(T, AllIds)
  BY <1>1, Fun_IsInj
<1> QED
  BY <1>2, FS_Injection, SizeAssumption

\* What list_mods reads: jars that parse, one of an id, those of minecraft and
\* forge among them.
LEMMA InstalledFacts ==
  ASSUME NEW jars, jars \subseteq Jars, DistinctIds(jars)
  PROVE  /\ Installed(jars) \subseteq Jars \union Base
         /\ DistinctIds(Installed(jars)) /\ IsFiniteSet(Installed(jars))
         /\ \A j \in Installed(jars) : IsJar(j) /\ Readable(j)
         /\ IdsOf(jars) \in SUBSET Int /\ IdsOf(jars) \subseteq AllIds
         /\ IsFiniteSet(IdsOf(jars))
<1>1. Installed(jars) \subseteq Jars \union Base
  BY DEF Installed
<1>2. DistinctIds(Installed(jars))
  <2> SUFFICES ASSUME NEW j \in Installed(jars), NEW k \in Installed(jars), j.id = k.id
               PROVE  j = k
    BY DEF DistinctIds
  <2>1. j \in Base \union jars /\ k \in Base \union jars
    BY DEF Installed
  <2>2. CASE j \in Base /\ k \in Base
    BY <2>2, ReservedAssumption
  <2>3. CASE j \in jars /\ k \in jars
    BY <2>3 DEF DistinctIds
  <2>4. CASE j \in Base /\ k \in jars
    BY <2>4, ReservedAssumption
  <2>5. CASE j \in jars /\ k \in Base
    BY <2>5, ReservedAssumption
  <2> QED
    BY <2>1, <2>2, <2>3, <2>4, <2>5
<1>3. IsFiniteSet(Installed(jars))
  BY <1>1, <1>2, DistinctFinite
<1>4. \A j \in Installed(jars) : IsJar(j) /\ Readable(j)
  BY JarsAssumption DEF Installed
<1>5. IdsOf(jars) \in SUBSET Int
  BY <1>4 DEF IdsOf, IsJar
<1>6. IdsOf(jars) \subseteq AllIds
  BY <1>1 DEF IdsOf, AllIds
<1>7. IsFiniteSet(IdsOf(jars))
  BY <1>6, FS_Subset, SizeAssumption
<1> QED
  BY <1>1, <1>2, <1>3, <1>4, <1>5, <1>6, <1>7

\* parse_mod_ext keeps the id and the version that it finds.
LEMMA ParsedFields ==
  ASSUME NEW j
  PROVE  Parsed(j).id = j.id /\ Parsed(j).version = j.version
BY DEF Parsed

\* The mod at place i of the list is the one whose id has rank i - 1.
LEMMA ListedFacts ==
  ASSUME NEW jars, jars \subseteq Jars, DistinctIds(jars)
  PROVE  /\ Cardinality(IdsOf(jars)) \in Nat
         /\ DOMAIN Listed(jars) = 1 .. Cardinality(IdsOf(jars))
         /\ Len(Listed(jars)) = Cardinality(IdsOf(jars))
         /\ Listed(jars) \in Seq({Parsed(j) : j \in Installed(jars)})
         /\ \A i \in 1 .. Cardinality(IdsOf(jars)) : \E j \in Installed(jars) :
              Listed(jars)[i] = Parsed(j) /\ Rank(IdsOf(jars), j.id) = i - 1
<1> DEFINE inst == Installed(jars)
           ids  == IdsOf(jars)
           all  == {Parsed(j) : j \in inst}
           n    == Cardinality(all)
           T(m) == {l \in all : l.id < m.id}
<1>1. IsFiniteSet(all)
  <2> DEFINE f == [j \in inst |-> Parsed(j)]
  <2>1. f \in [inst -> all] /\ \A m \in all : \E j \in inst : f[j] = m
    OBVIOUS
  <2>2. IsFiniteSet(inst)
    BY InstalledFacts
  <2> HIDE DEF f, all, inst
  <2>3. f \in Surjection(inst, all)
    BY <2>1, Fun_IsSurj
  <2> QED
    BY <2>2, <2>3, FS_Surjection
<1>2. \A l, m \in all : l.id = m.id => l = m
  BY InstalledFacts, ParsedFields DEF DistinctIds
<1>3. {m.id : m \in all} = ids
  BY ParsedFields DEF IdsOf
<1>4. ids \in SUBSET Int /\ IsFiniteSet(ids)
  BY InstalledFacts
<1> HIDE DEF all, ids
<1>5. n = Cardinality(ids) /\ n \in Nat
  BY <1>1, <1>2, <1>3, CountIds, FS_CardinalityType
<1>6. \A m \in all : Cardinality(T(m)) = Rank(ids, m.id)
  <2> SUFFICES ASSUME NEW m \in all PROVE Cardinality(T(m)) = Rank(ids, m.id)
    OBVIOUS
  <2>1. IsFiniteSet(T(m)) /\ \A k, l \in T(m) : k.id = l.id => k = l
    BY <1>1, <1>2, FS_Subset
  <2>2. Cardinality({l.id : l \in T(m)}) = Cardinality(T(m))
    <3> HIDE DEF T
    <3> QED
      BY <2>1, CountIds
  <2>3. {l.id : l \in T(m)} = Smaller(ids, m.id)
    BY <1>3 DEF Smaller
  <2> QED
    BY <2>2, <2>3 DEF Rank
<1>7. Listed(jars) = [i \in 1 .. n |-> CHOOSE m \in all : Cardinality(T(m)) = i - 1]
  BY DEF Listed, Installed, all
<1>8. \A i \in 1 .. n : Listed(jars)[i] \in all /\ Rank(ids, Listed(jars)[i].id) = i - 1
  <2> SUFFICES ASSUME NEW i \in 1 .. n
               PROVE  Listed(jars)[i] \in all /\ Rank(ids, Listed(jars)[i].id) = i - 1
    OBVIOUS
  <2>1. i - 1 \in 0 .. Cardinality(ids) - 1
    BY <1>5
  <2>2. PICK x \in ids : Rank(ids, x) = i - 1
    BY <1>4, <2>1, RankOnto
  <2>3. PICK m \in all : m.id = x
    BY <1>3
  <2>4. Cardinality(T(m)) = i - 1
    BY <1>6, <2>2, <2>3
  <2>5. Listed(jars)[i] = CHOOSE l \in all : Cardinality(T(l)) = i - 1
    BY <1>7
  <2> HIDE DEF T
  <2>6. Listed(jars)[i] \in all /\ Cardinality(T(Listed(jars)[i])) = i - 1
    BY <2>4, <2>5
  <2> QED
    BY <1>6, <2>6
<1>9. Listed(jars) \in [1 .. n -> all]
  BY <1>7, <1>8
<1>10. Listed(jars) \in Seq(all) /\ Len(Listed(jars)) = n
  <2>1. Listed(jars) \in Seq(all)
    BY <1>5, <1>9, SeqDef
  <2>2. Len(Listed(jars)) \in Nat /\ 1 .. Len(Listed(jars)) = 1 .. n
    BY <1>9, <2>1, LenProperties
  <2> QED
    BY <1>5, <2>1, <2>2
<1>11. \A i \in 1 .. n : \E j \in inst :
         Listed(jars)[i] = Parsed(j) /\ Rank(ids, j.id) = i - 1
  BY <1>8, ParsedFields DEF all
<1> QED
  BY <1>5, <1>9, <1>10, <1>11 DEF all, ids

\* Every jar installed is on the list, at the place of its rank.
LEMMA ListedHas ==
  ASSUME NEW jars, jars \subseteq Jars, DistinctIds(jars), NEW j \in Installed(jars)
  PROVE  /\ Rank(IdsOf(jars), j.id) \in 0 .. Cardinality(IdsOf(jars)) - 1
         /\ Listed(jars)[Rank(IdsOf(jars), j.id) + 1] = Parsed(j)
<1> DEFINE r == Rank(IdsOf(jars), j.id)
<1>1. IdsOf(jars) \in SUBSET Int /\ IsFiniteSet(IdsOf(jars)) /\ j.id \in IdsOf(jars)
  BY InstalledFacts DEF IdsOf
<1>2. r \in 0 .. Cardinality(IdsOf(jars)) - 1
  BY <1>1, RankFacts
<1>3. r + 1 \in 1 .. Cardinality(IdsOf(jars)) /\ r + 1 - 1 = r
  BY <1>1, <1>2, RankFacts
<1> DEFINE place == r + 1
<1>4. PICK k \in Installed(jars) :
        Listed(jars)[place] = Parsed(k) /\ Rank(IdsOf(jars), k.id) = place - 1
  <2>1. place \in 1 .. Cardinality(IdsOf(jars))
    BY <1>3
  <2> HIDE DEF place, r
  <2>2. \A i \in 1 .. Cardinality(IdsOf(jars)) : \E k \in Installed(jars) :
          Listed(jars)[i] = Parsed(k) /\ Rank(IdsOf(jars), k.id) = i - 1
    BY ListedFacts
  <2> QED
    BY <2>1, <2>2
<1>5. k.id \in IdsOf(jars) /\ Rank(IdsOf(jars), k.id) = r
  <2>1. k.id \in IdsOf(jars)
    BY DEF IdsOf
  <2>2. place - 1 = r
    <3>1. r \in Nat
      BY <1>1, <1>2, RankFacts
    <3> HIDE DEF r
    <3> QED
      BY <3>1
  <2> HIDE DEF place, r
  <2> QED
    BY <1>4, <2>1, <2>2
<1>6. k.id = j.id
  BY <1>1, <1>5, RankOnto
<1>7. k = j
  BY <1>6, InstalledFacts DEF DistinctIds
<1> QED
  BY <1>2, <1>4, <1>7

\* What the list holds, place by place and jar by jar.
LEMMA ListedShows ==
  ASSUME NEW jars, jars \subseteq Jars, DistinctIds(jars)
  PROVE  /\ \A i \in DOMAIN Listed(jars) : \E j \in Installed(jars) : Listed(jars)[i] = Parsed(j)
         /\ \A j \in Installed(jars) : \E i \in DOMAIN Listed(jars) : Listed(jars)[i] = Parsed(j)
<1> DEFINE L == Listed(jars)
           n == Cardinality(IdsOf(jars))
<1>1. DOMAIN L = 1 .. n /\ n \in Nat
  BY ListedFacts
<1>2. \A i \in 1 .. n : \E j \in Installed(jars) : L[i] = Parsed(j)
  BY ListedFacts
<1>3. \A j \in Installed(jars) : \E i \in 1 .. n : L[i] = Parsed(j)
  <2> SUFFICES ASSUME NEW j \in Installed(jars) PROVE \E i \in 1 .. n : L[i] = Parsed(j)
    OBVIOUS
  <2> DEFINE r == Rank(IdsOf(jars), j.id)
  <2>1. r \in 0 .. n - 1 /\ L[r + 1] = Parsed(j)
    BY ListedHas
  <2> HIDE DEF n, r
  <2>2. r + 1 \in 1 .. n
    BY <1>1, <2>1
  <2> QED
    BY <2>1, <2>2
<1> HIDE DEF L, n
<1> QED
  BY <1>1, <1>2, <1>3 DEF L


-----------------------------------------------------------------------------
(***************************************************************************)
(* Pages of the list                                                       *)
(***************************************************************************)
\* The quotient says on which page a place is.
LEMMA PageOfPlace ==
  ASSUME NEW r \in Nat, NEW p \in Nat \ {0}, NEW k \in Nat
  PROVE  (r \div p = k) <=> (p * k <= r /\ r < p * k + p)
<1> DEFINE q == r \div p
           m == r % p
<1>1. q \in Nat /\ m \in 0 .. p - 1 /\ r = p * q + m
  OBVIOUS
<1> HIDE DEF q, m
<1>2. q = k => p * k <= r /\ r < p * k + p
  BY <1>1
<1>3. ASSUME q < k PROVE r < p * k
  <2>1. PICK d \in Nat : k = q + 1 + d
    <3>1. k - q - 1 \in Nat /\ k = q + 1 + (k - q - 1)
      BY <1>1, <1>3
    <3> QED
      BY <3>1
  <2>2. p * k = p * q + p + p * d /\ p * d \in Nat /\ p * q \in Nat
    BY <1>1, <2>1
  <2> QED
    BY <1>1, <2>2
<1>4. ASSUME k < q PROVE p * k + p <= r
  <2>1. PICK d \in Nat : q = k + 1 + d
    <3>1. q - k - 1 \in Nat /\ q = k + 1 + (q - k - 1)
      BY <1>1, <1>4
    <3> QED
      BY <3>1
  <2>2. p * q = p * k + p + p * d /\ p * d \in Nat /\ p * k \in Nat
    BY <1>1, <2>1
  <2> QED
    BY <1>1, <2>2
<1>5. p * k \in Nat
  OBVIOUS
<1>6. q = k <=> (p * k <= r /\ r < p * k + p)
  BY <1>1, <1>2, <1>3, <1>4, <1>5
<1> QED
  BY <1>6 DEF q

\* The ranks on a page, and the first of them.
OnPage(p, k, r)   == p = 0 \/ (p * k <= r /\ r < p * k + p)
FirstOnPage(p, k) == IF p = 0 THEN 0 ELSE p * k

\* Without an overflow a page holds the mods whose rank is on it, in their order,
\* and it is the last one if none is beyond it.
LEMMA PageFacts ==
  ASSUME NEW jars, jars \subseteq Jars, DistinctIds(jars),
         NEW p \in Nat, NEW k \in Nat, ~Overflows(p, k)
  PROVE  LET pg   == Page(Listed(jars), p, k)
             ids  == IdsOf(jars)
         IN  /\ ~pg.panic
             /\ pg.mods \in Seq({Parsed(j) : j \in Installed(jars)})
             /\ \A j \in Installed(jars) : OnPage(p, k, Rank(ids, j.id)) =>
                  \E i \in DOMAIN pg.mods : pg.mods[i] = Parsed(j)
             /\ \A i \in DOMAIN pg.mods : \E j \in Installed(jars) :
                  /\ pg.mods[i] = Parsed(j) /\ OnPage(p, k, Rank(ids, j.id))
                  /\ Rank(ids, j.id) = FirstOnPage(p, k) + i - 1
             /\ pg.finished \in BOOLEAN
             /\ pg.finished <=> (p = 0 \/ Cardinality(ids) < p * k + p)
<1> DEFINE L    == Listed(jars)
           ids  == IdsOf(jars)
           inst == Installed(jars)
           all  == {Parsed(j) : j \in inst}
           n    == Cardinality(ids)
           pg   == Page(L, p, k)
           On(r) == OnPage(p, k, r)
           Rk(j) == Rank(ids, j.id)
<1>1. n \in Nat /\ Len(L) = n /\ L \in Seq(all) /\ DOMAIN L = 1 .. n
  BY ListedFacts
<1>2. \A i \in 1 .. n : \E j \in inst : L[i] = Parsed(j) /\ Rk(j) = i - 1
  BY ListedFacts
<1>3. \A j \in inst : Rk(j) \in 0 .. n - 1 /\ L[Rk(j) + 1] = Parsed(j)
  BY ListedHas
<1> HIDE DEF L, ids, inst, all, n, Rk
<1> DEFINE Goal ==
             /\ ~pg.panic
             /\ pg.mods \in Seq(all)
             /\ \A j \in inst : On(Rk(j)) => \E i \in DOMAIN pg.mods : pg.mods[i] = Parsed(j)
             /\ \A i \in DOMAIN pg.mods : \E j \in inst :
                  /\ pg.mods[i] = Parsed(j) /\ On(Rk(j))
                  /\ Rk(j) = FirstOnPage(p, k) + i - 1
             /\ pg.finished \in BOOLEAN
             /\ pg.finished <=> (p = 0 \/ n < p * k + p)
<1>4. ASSUME p = 0 PROVE Goal
  <2>1. pg = [panic |-> FALSE, mods |-> L, finished |-> TRUE]
    BY <1>4 DEF Page
  <2>2. \A j \in inst : \E i \in DOMAIN L : L[i] = Parsed(j)
    <3> SUFFICES ASSUME NEW j \in inst PROVE \E i \in DOMAIN L : L[i] = Parsed(j)
      OBVIOUS
    <3>1. Rk(j) + 1 \in 1 .. n
      BY <1>1, <1>3
    <3> QED
      BY <1>1, <1>3, <3>1
  <2>3. \A i \in DOMAIN L : \E j \in inst : L[i] = Parsed(j) /\ Rk(j) = 0 + i - 1
    BY <1>1, <1>2
  <2>4. \A r : On(r)
    BY <1>4 DEF OnPage
  <2>5. FirstOnPage(p, k) = 0
    BY <1>4 DEF FirstOnPage
  <2> HIDE DEF pg, On
  <2>6. ~pg.panic /\ pg.mods = L /\ pg.finished = TRUE
    BY <2>1
  <2>7. \A i \in DOMAIN pg.mods : \E j \in inst :
          /\ pg.mods[i] = Parsed(j) /\ On(Rk(j))
          /\ Rk(j) = FirstOnPage(p, k) + i - 1
    BY <2>3, <2>4, <2>5, <2>6
  <2>8. \A j \in inst : On(Rk(j)) => \E i \in DOMAIN pg.mods : pg.mods[i] = Parsed(j)
    BY <2>2, <2>6
  <2>9. pg.mods \in Seq(all)
    BY <1>1, <2>6
  <2> QED
    BY <1>4, <2>6, <2>7, <2>8, <2>9
<1>5. ASSUME p # 0 PROVE Goal
  <2> DEFINE start == Least(p * k, n)
             end   == Least(p * k + p, n)
  <2>1. p \in Nat \ {0} /\ p * k \in Nat
    BY <1>5
  <2>2. /\ ~pg.panic
        /\ pg.mods = SubSeq(L, start + 1, end)
        /\ pg.finished <=> n < p * k + p
    BY <1>1, <2>1, PagesAreCutRight
  <2>3. start \in Nat /\ end \in Nat /\ start <= end /\ end <= n
    BY <1>1, <2>1 DEF Least
  <2>4. start < end => start = p * k
    BY <1>1, <2>1 DEF Least
  <2>5. \A r \in 0 .. n - 1 : On(r) <=> start + 1 <= r + 1 /\ r + 1 <= end
    BY <1>1, <1>5, <2>1 DEF Least, OnPage
  <2>6. pg.finished \in BOOLEAN
    BY <1>1, <2>1, PagesAreCutRight
  <2> HIDE DEF start, end, On, pg
  <2>7. \A i \in start + 1 .. end : L[i] \in all
    BY <1>1, <2>3
  <2>8. /\ SubSeq(L, start + 1, end) \in Seq(all)
        /\ Len(SubSeq(L, start + 1, end)) = IF start + 1 <= end THEN end - (start + 1) + 1 ELSE 0
        /\ \A i \in 1 .. end - (start + 1) + 1 : SubSeq(L, start + 1, end)[i] = L[start + 1 + i - 1]
    BY <2>3, <2>7, SubSeqProperties
  <2>9. /\ pg.mods \in Seq(all) /\ DOMAIN pg.mods = 1 .. end - start
        /\ \A i \in 1 .. end - start : pg.mods[i] = L[start + i]
    <3>1. pg.mods \in Seq(all) /\ Len(pg.mods) = end - start
      BY <2>2, <2>3, <2>8
    <3>2. DOMAIN pg.mods = 1 .. end - start
      BY <3>1
    <3>3. end - (start + 1) + 1 = end - start
      BY <2>3
    <3>4. \A i \in 1 .. end - start : start + 1 + i - 1 = start + i
      BY <2>3
    <3> QED
      BY <2>2, <2>8, <3>1, <3>2, <3>3, <3>4
  <2>10. \A j \in inst : On(Rk(j)) => \E i \in DOMAIN pg.mods : pg.mods[i] = Parsed(j)
    <3> SUFFICES ASSUME NEW j \in inst, On(Rk(j))
                 PROVE  \E i \in DOMAIN pg.mods : pg.mods[i] = Parsed(j)
      OBVIOUS
    <3>1. Rk(j) \in 0 .. n - 1 /\ start + 1 <= Rk(j) + 1 /\ Rk(j) + 1 <= end
      BY <1>3, <2>5
    <3>2. Rk(j) + 1 - start \in 1 .. end - start /\ start + (Rk(j) + 1 - start) = Rk(j) + 1
      BY <1>1, <2>3, <3>1
    <3> QED
      BY <1>3, <2>9, <3>2
  <2>11. \A i \in DOMAIN pg.mods : \E j \in inst :
           /\ pg.mods[i] = Parsed(j) /\ On(Rk(j))
           /\ Rk(j) = p * k + i - 1
    <3> SUFFICES ASSUME NEW i \in 1 .. end - start
                 PROVE  \E j \in inst : /\ pg.mods[i] = Parsed(j) /\ On(Rk(j))
                                        /\ Rk(j) = p * k + i - 1
      BY <2>9
    <3>1. start + i \in 1 .. n /\ start < end
      BY <1>1, <2>3
    <3> DEFINE place == start + i
    <3>2. PICK j \in inst : L[place] = Parsed(j) /\ Rk(j) = place - 1
      <4>1. place \in 1 .. n
        BY <3>1
      <4> HIDE DEF place
      <4> QED
        BY <1>2, <4>1
    <3>3. Rk(j) \in 0 .. n - 1 /\ start + 1 <= Rk(j) + 1 /\ Rk(j) + 1 <= end
      BY <1>1, <2>3, <3>1, <3>2
    <3>4. pg.mods[i] = Parsed(j)
      BY <2>9, <3>2
    <3>5. On(Rk(j))
      BY <2>5, <3>3
    <3>6. Rk(j) = p * k + i - 1
      BY <2>4, <3>1, <3>2
    <3> QED
      BY <3>4, <3>5, <3>6
  <2>12. pg.finished <=> (p = 0 \/ n < p * k + p)
    BY <1>5, <2>2
  <2>13. FirstOnPage(p, k) = p * k
    BY <1>5 DEF FirstOnPage
  <2>14. \A i \in DOMAIN pg.mods : \E j \in inst :
           /\ pg.mods[i] = Parsed(j) /\ On(Rk(j))
           /\ Rk(j) = FirstOnPage(p, k) + i - 1
    BY <2>11, <2>13
  <2> QED
    BY <2>2, <2>6, <2>9, <2>10, <2>12, <2>14
<1>6. Goal
  BY <1>4, <1>5
<1> QED
  BY <1>6 DEF L, ids, inst, all, n, Rk

-----------------------------------------------------------------------------
(***************************************************************************)
(* The reader who turns the pages                                          *)
(***************************************************************************)
\* Any ids are finitely many integers, and no more than all of them.
LEMMA AllIdsFacts ==
  /\ AllIds \in SUBSET Int /\ IsFiniteSet(AllIds) /\ Cardinality(AllIds) \in Nat
  /\ \A I \in SUBSET AllIds : /\ I \in SUBSET Int /\ IsFiniteSet(I) /\ Cardinality(I) \in Nat
                              /\ Cardinality(I) <= Cardinality(AllIds)
<1>1. AllIds \in SUBSET Int /\ IsFiniteSet(AllIds)
  BY JarsAssumption, SizeAssumption DEF AllIds, IsJar
<1>2. Cardinality(AllIds) \in Nat
  BY <1>1, FS_CardinalityType
<1>3. \A I \in SUBSET AllIds : /\ IsFiniteSet(I) /\ Cardinality(I) \in Nat
                               /\ Cardinality(I) <= Cardinality(AllIds)
  BY <1>1, FS_Subset, FS_CardinalityType
<1> QED
  BY <1>1, <1>2, <1>3

\* The size of a page is a usize.
LEMMA SizesAreSmall == \A p \in Sizes : p \in Nat /\ p < Width
<1>1. Width \in Nat /\ Sizes \subseteq 0 .. Width - 1
  BY SizeAssumption, WidthAssumption
<1>2. \A p \in 0 .. Width - 1 : p \in Nat /\ p < Width
  BY <1>1
<1> QED
  BY <1>1, <1>2

\* The list changes under the reader from one set of ids to another.
ChangedUnder(w, before, after) == [w EXCEPT !.kept = @ \intersect after,
                                            !.came = @ \/ ~(after \subseteq before),
                                            !.gone = @ \/ ~(before \subseteq after)]

\* What is known of a reader stays true: if no mod comes ranks can only fall, and if
\* none goes they can only rise.
LEMMA WalkSurvivesChange ==
  ASSUME NEW before \in SUBSET AllIds, NEW after \in SUBSET AllIds, NEW w, WalkInv(w, before)
  PROVE  WalkInv(ChangedUnder(w, before, after), after)
<1> DEFINE v == ChangedUnder(w, before, after)
<1>1. WalkTypeOK(w)
  BY DEF WalkInv
<1>2. /\ v.perPage = w.perPage /\ v.page = w.page /\ v.seen = w.seen /\ v.done = w.done
      /\ v.kept = w.kept \intersect after
      /\ v.came = (w.came \/ ~(after \subseteq before))
      /\ v.gone = (w.gone \/ ~(before \subseteq after))
  BY <1>1 DEF WalkTypeOK, ChangedUnder
<1>3. WalkTypeOK(v)
  BY <1>1 DEF WalkTypeOK, ChangedUnder
<1> HIDE DEF v
<1>4. Seen(v) = Seen(w)
  BY <1>2 DEF Seen
<1>5. w.perPage \in Nat /\ w.page \in Nat /\ w.page * w.perPage \in Nat /\ w.kept \in SUBSET AllIds
  <2>1. w.perPage \in Sizes /\ w.page \in Nat /\ w.kept \in SUBSET AllIds
    BY <1>1 DEF WalkTypeOK
  <2>2. w.perPage \in Nat
    BY <2>1, SizesAreSmall
  <2> QED
    BY <2>1, <2>2
<1>6. \A id \in AllIds : Rank(before, id) \in Nat /\ Rank(after, id) \in Nat
  BY AllIdsFacts, RankFacts
<1>7. before \subseteq after => \A id \in AllIds : Rank(before, id) <= Rank(after, id)
  BY AllIdsFacts, RankGrows
<1>8. after \subseteq before => \A id \in AllIds : Rank(after, id) <= Rank(before, id)
  BY AllIdsFacts, RankGrows
<1>9. ASSUME before \subseteq after
      PROVE  \A id \in AllIds : Shown(v, after, id) => Shown(w, before, id)
  <2> SUFFICES ASSUME NEW id \in AllIds, Shown(v, after, id) PROVE Shown(w, before, id)
    OBVIOUS
  <2>1. Rank(before, id) <= Rank(after, id)
    BY <1>7, <1>9
  <2> QED
    BY <1>2, <1>5, <1>6, <2>1 DEF Shown
<1>10. ASSUME after \subseteq before
       PROVE  \A id \in AllIds : Shown(w, before, id) => Shown(v, after, id)
  <2> SUFFICES ASSUME NEW id \in AllIds, Shown(w, before, id) PROVE Shown(v, after, id)
    OBVIOUS
  <2>1. Rank(after, id) <= Rank(before, id)
    BY <1>8, <1>10
  <2> QED
    BY <1>2, <1>5, <1>6, <2>1 DEF Shown
<1>11. v.kept \subseteq after
  BY <1>2
<1>12. ~v.done => v.page * v.perPage <= Cardinality(AllIds)
  BY <1>2 DEF WalkInv
<1>13. ASSUME ~v.gone PROVE \A id \in v.kept : Shown(v, after, id) => id \in Seen(v)
  <2>1. ~w.gone /\ before \subseteq after
    BY <1>2, <1>13
  <2>2. \A id \in w.kept : Shown(w, before, id) => id \in Seen(w)
    BY <2>1 DEF WalkInv
  <2> QED
    BY <1>2, <1>4, <1>5, <1>9, <2>1, <2>2
<1>14. ASSUME ~v.came
       PROVE  /\ \A i, j \in DOMAIN v.seen : i # j => v.seen[i] # v.seen[j]
              /\ after \subseteq v.kept
              /\ \A id \in Seen(v) \intersect after : Shown(v, after, id)
  <2>1. ~w.came /\ after \subseteq before
    BY <1>2, <1>14
  <2>2. /\ \A i, j \in DOMAIN w.seen : i # j => w.seen[i] # w.seen[j]
        /\ before \subseteq w.kept
        /\ \A id \in Seen(w) \intersect before : Shown(w, before, id)
    BY <2>1 DEF WalkInv
  <2>3. \A id \in Seen(v) \intersect after : Shown(v, after, id)
    BY <1>4, <1>10, <2>1, <2>2
  <2> QED
    BY <1>2, <2>1, <2>2, <2>3
<1>15. ASSUME ~v.came, ~v.gone, v.perPage > 0
       PROVE  /\ v.page * v.perPage <= Cardinality(v.kept) + v.perPage
              /\ ~v.done => v.page * v.perPage <= Cardinality(v.kept)
  <2>1. ~w.came /\ ~w.gone /\ w.perPage > 0 /\ before \subseteq after
    BY <1>2, <1>15
  <2>2. v.kept = w.kept
    BY <1>2, <2>1 DEF WalkInv
  <2>3. /\ w.page * w.perPage <= Cardinality(w.kept) + w.perPage
        /\ ~w.done => w.page * w.perPage <= Cardinality(w.kept)
    BY <2>1 DEF WalkInv
  <2> QED
    BY <1>2, <2>2, <2>3
<1>16. WalkInv(v, after)
  BY <1>3, <1>11, <1>12, <1>13, <1>14, <1>15 DEF WalkInv
<1> QED
  BY <1>16 DEF v

\* The reader turns a page of a list that holds still.
LEMMA WalkSurvivesTurn ==
  ASSUME NEW jars, jars \subseteq Jars, DistinctIds(jars),
         NEW w, WalkInv(w, IdsOf(jars)), ~w.done
  PROVE  LET p == Page(Listed(jars), w.perPage, w.page)
         IN  WalkInv([w EXCEPT !.page = @ + 1, !.done = p.finished,
                               !.seen = @ \o [i \in DOMAIN p.mods |-> p.mods[i].id]],
                     IdsOf(jars))
<1> DEFINE ids  == IdsOf(jars)
           inst == Installed(jars)
           size == w.perPage
           k    == w.page
           n    == Cardinality(ids)
           p    == Page(Listed(jars), size, k)
           new  == [i \in DOMAIN p.mods |-> p.mods[i].id]
           v    == [w EXCEPT !.page = @ + 1, !.done = p.finished, !.seen = @ \o new]
           On(r) == OnPage(size, k, r)
           first == FirstOnPage(size, k)
<1>1. /\ WalkTypeOK(w)
      /\ w.perPage \in Sizes /\ w.page \in Nat /\ w.kept \in SUBSET AllIds
      /\ w.seen \in Seq(AllIds) /\ w.done \in BOOLEAN /\ w.came \in BOOLEAN /\ w.gone \in BOOLEAN
  BY DEF WalkInv, WalkTypeOK
<1>2. size \in Nat /\ k \in Nat /\ size * k \in Nat /\ size < Width /\ k * size = size * k
  <2>1. size \in Nat /\ size < Width /\ k \in Nat
    BY <1>1, SizesAreSmall
  <2> QED
    BY <2>1
<1>3. ids \in SUBSET AllIds /\ n \in Nat /\ n <= Cardinality(AllIds) /\ Cardinality(AllIds) \in Nat
  BY InstalledFacts, AllIdsFacts
<1>4. size * k <= Cardinality(AllIds)
  BY <1>2 DEF WalkInv
<1>5. ~Overflows(size, k)
  <2>1. CASE k = 0
    <3>1. size * k = 0
      BY <1>2, <2>1
    <3> QED
      BY <1>2, <3>1, WidthAssumption DEF Overflows
  <2>2. CASE k # 0
    <3>1. PICK d \in Nat : k = d + 1
      <4>1. k - 1 \in Nat /\ k = (k - 1) + 1
        BY <1>2, <2>2
      <4> QED
        BY <4>1
    <3>2. size * k = size * d + size /\ size * d \in Nat
      BY <1>2, <3>1
    <3>3. size <= size * k
      BY <1>2, <3>2
    <3> QED
      BY <1>2, <1>3, <1>4, <3>3, SizeAssumption, WidthAssumption DEF Overflows
  <2> QED
    BY <2>1, <2>2
<1>6. /\ p.mods \in Seq({Parsed(j) : j \in inst})
      /\ \A j \in inst : On(Rank(ids, j.id)) => \E i \in DOMAIN p.mods : p.mods[i] = Parsed(j)
      /\ \A i \in DOMAIN p.mods : \E j \in inst :
           /\ p.mods[i] = Parsed(j) /\ On(Rank(ids, j.id))
           /\ Rank(ids, j.id) = first + i - 1
      /\ p.finished \in BOOLEAN
      /\ p.finished <=> (size = 0 \/ n < size * k + size)
  <2> HIDE DEF size, k
  <2>1. size \in Nat /\ k \in Nat /\ ~Overflows(size, k)
    BY <1>2, <1>5
  <2> DEFINE pg == Page(Listed(jars), size, k)
  <2>2. /\ ~pg.panic
        /\ pg.mods \in Seq({Parsed(j) : j \in Installed(jars)})
        /\ \A j \in Installed(jars) : OnPage(size, k, Rank(IdsOf(jars), j.id)) =>
             \E i \in DOMAIN pg.mods : pg.mods[i] = Parsed(j)
        /\ \A i \in DOMAIN pg.mods : \E j \in Installed(jars) :
             /\ pg.mods[i] = Parsed(j) /\ OnPage(size, k, Rank(IdsOf(jars), j.id))
             /\ Rank(IdsOf(jars), j.id) = FirstOnPage(size, k) + i - 1
        /\ pg.finished \in BOOLEAN
        /\ pg.finished <=> (size = 0 \/ Cardinality(IdsOf(jars)) < size * k + size)
    BY <2>1, PageFacts, Zenon
  <2> QED
    BY <2>2
<1>7. \A id \in ids : Rank(ids, id) \in Nat /\ Rank(ids, id) < n
  BY <1>3, AllIdsFacts, RankFacts
<1> HIDE DEF p, On, ids, n, first
\* What the page shows, as ids.
<1>8. /\ new \in Seq(ids) /\ DOMAIN new = DOMAIN p.mods /\ Len(new) \in Nat
      /\ DOMAIN new = 1 .. Len(new)
  <2>1. Len(p.mods) \in Nat /\ DOMAIN p.mods = 1 .. Len(p.mods)
    BY <1>6, LenProperties
  <2>2. \A i \in DOMAIN p.mods : p.mods[i].id \in ids
    BY <1>6, ParsedFields DEF ids, IdsOf
  <2>3. new \in [1 .. Len(p.mods) -> ids]
    BY <2>1, <2>2
  <2>4. new \in Seq(ids)
    BY <2>1, <2>3, SeqDef
  <2> QED
    BY <2>4, LenProperties
<1>9. \A i \in DOMAIN new : /\ new[i] \in ids /\ On(Rank(ids, new[i]))
                            /\ Rank(ids, new[i]) = first + i - 1
  <2> SUFFICES ASSUME NEW i \in DOMAIN new
               PROVE  /\ new[i] \in ids /\ On(Rank(ids, new[i]))
                      /\ Rank(ids, new[i]) = first + i - 1
    OBVIOUS
  <2>1. PICK j \in inst : /\ p.mods[i] = Parsed(j) /\ On(Rank(ids, j.id))
                          /\ Rank(ids, j.id) = first + i - 1
    BY <1>6, <1>8
  <2>2. new[i] = j.id
    BY <1>8, <2>1, ParsedFields
  <2> QED
    BY <2>1, <2>2 DEF ids, IdsOf
<1>10. \A id \in ids : On(Rank(ids, id)) => \E i \in DOMAIN new : new[i] = id
  <2> SUFFICES ASSUME NEW id \in ids, On(Rank(ids, id)) PROVE \E i \in DOMAIN new : new[i] = id
    OBVIOUS
  <2>1. PICK j \in inst : j.id = id
    BY DEF ids, IdsOf
  <2>2. PICK i \in DOMAIN p.mods : p.mods[i] = Parsed(j)
    BY <1>6, <2>1
  <2> QED
    BY <1>8, <2>1, <2>2, ParsedFields
<1> HIDE DEF new
\* The walk after the page.
<1>11. /\ v.perPage = size /\ v.page = k + 1 /\ v.seen = w.seen \o new /\ v.done = p.finished
       /\ v.kept = w.kept /\ v.came = w.came /\ v.gone = w.gone
  BY <1>1 DEF WalkTypeOK
<1>12. /\ w.seen \o new \in Seq(AllIds)
       /\ Len(w.seen) \in Nat /\ DOMAIN w.seen = 1 .. Len(w.seen)
       /\ DOMAIN (w.seen \o new) = 1 .. Len(w.seen) + Len(new)
       /\ \A i \in 1 .. Len(w.seen) : (w.seen \o new)[i] = w.seen[i]
       /\ \A i \in 1 .. Len(new) : (w.seen \o new)[Len(w.seen) + i] = new[i]
  <2>1. new \in Seq(AllIds)
    BY <1>3, <1>8
  <2>2. w.seen \o new \in Seq(AllIds) /\ Len(w.seen \o new) = Len(w.seen) + Len(new)
    BY <1>1, <2>1, ConcatProperties
  <2>3. Len(w.seen) \in Nat /\ DOMAIN w.seen = 1 .. Len(w.seen)
    BY <1>1, LenProperties
  <2>4. DOMAIN (w.seen \o new) = 1 .. Len(w.seen \o new)
    BY <2>2, LenProperties
  <2>5. \A i \in 1 .. Len(w.seen) + Len(new) :
          (w.seen \o new)[i] = IF i <= Len(w.seen) THEN w.seen[i] ELSE new[i - Len(w.seen)]
    BY <1>1, <2>1, ConcatProperties
  <2>6. \A i \in 1 .. Len(w.seen) : (w.seen \o new)[i] = w.seen[i]
    BY <1>8, <2>3, <2>5
  <2>7. \A i \in 1 .. Len(new) : (w.seen \o new)[Len(w.seen) + i] = new[i]
    <3> SUFFICES ASSUME NEW i \in 1 .. Len(new)
                 PROVE  (w.seen \o new)[Len(w.seen) + i] = new[i]
      OBVIOUS
    <3> DEFINE place == Len(w.seen) + i
    <3>1. /\ place \in 1 .. Len(w.seen) + Len(new) /\ ~(place <= Len(w.seen))
          /\ place - Len(w.seen) = i
      BY <1>8, <2>3
    <3>2. (w.seen \o new)[place] = new[place - Len(w.seen)]
      <4> HIDE DEF place
      <4> QED
        BY <2>5, <3>1
    <3> QED
      BY <3>1, <3>2
  <2> QED
    BY <2>2, <2>3, <2>4, <2>6, <2>7
<1>13. WalkTypeOK(v)
  <2>1. w.page + 1 \in Nat /\ p.finished \in BOOLEAN /\ w.seen \o new \in Seq(AllIds)
    BY <1>1, <1>6, <1>12
  <2> DEFINE pages == w.page + 1
             seen  == w.seen \o new
             done  == p.finished
             u     == [w EXCEPT !.page = pages, !.done = done, !.seen = seen]
  <2>2. v = u
    OBVIOUS
  <2> HIDE DEF pages, seen, done, v
  <2>3. WalkTypeOK(u)
    BY <1>1, <2>1 DEF WalkTypeOK, pages, seen, done
  <2> QED
    BY <2>2, <2>3
<1> HIDE DEF v
<1>14. /\ \A id \in Seen(w) : id \in Seen(v)
       /\ \A i \in DOMAIN new : new[i] \in Seen(v)
       /\ \A id \in Seen(v) : id \in Seen(w) \/ \E i \in DOMAIN new : id = new[i]
  <2>1. \A id \in Seen(w) : id \in Seen(v)
    <3> SUFFICES ASSUME NEW i \in DOMAIN w.seen PROVE w.seen[i] \in Seen(v)
      BY DEF Seen
    <3>1. i \in DOMAIN (w.seen \o new) /\ (w.seen \o new)[i] = w.seen[i]
      BY <1>8, <1>12
    <3> QED
      BY <1>11, <3>1 DEF Seen
  <2>2. \A i \in DOMAIN new : new[i] \in Seen(v)
    <3> SUFFICES ASSUME NEW i \in DOMAIN new PROVE new[i] \in Seen(v)
      OBVIOUS
    <3>1. Len(w.seen) + i \in DOMAIN (w.seen \o new) /\ (w.seen \o new)[Len(w.seen) + i] = new[i]
      BY <1>8, <1>12
    <3> QED
      BY <1>11, <3>1 DEF Seen
  <2>3. \A id \in Seen(v) : id \in Seen(w) \/ \E i \in DOMAIN new : id = new[i]
    <3> SUFFICES ASSUME NEW i \in DOMAIN (w.seen \o new)
                 PROVE  \/ (w.seen \o new)[i] \in Seen(w)
                        \/ \E l \in DOMAIN new : (w.seen \o new)[i] = new[l]
      BY <1>11 DEF Seen
    <3>1. CASE i \in DOMAIN w.seen
      BY <1>12, <3>1 DEF Seen
    <3>2. CASE i \notin DOMAIN w.seen
      <4>1. i - Len(w.seen) \in 1 .. Len(new) /\ Len(w.seen) + (i - Len(w.seen)) = i
        BY <1>8, <1>12, <3>2
      <4>2. (w.seen \o new)[Len(w.seen) + (i - Len(w.seen))] = new[i - Len(w.seen)]
        BY <1>12, <4>1
      <4> QED
        BY <1>8, <4>1, <4>2
    <3> QED
      BY <3>1, <3>2
  <2> QED
    BY <2>1, <2>2, <2>3
<1>15. (k + 1) * size = size * k + size
  BY <1>2
<1>16. \A id \in ids : Shown(w, ids, id) <=> Rank(ids, id) < size * k
  BY <1>2 DEF Shown
<1>17. \A id \in ids : Shown(v, ids, id) <=> size = 0 \/ Rank(ids, id) < size * k + size
  BY <1>2, <1>3, <1>6, <1>7, <1>11, <1>15 DEF Shown
<1>18. \A id \in ids : Shown(v, ids, id) => Shown(w, ids, id) \/ On(Rank(ids, id))
  BY <1>2, <1>7, <1>16, <1>17 DEF On, OnPage
<1>19. \A id \in ids : Shown(w, ids, id) \/ On(Rank(ids, id)) => Shown(v, ids, id)
  BY <1>2, <1>7, <1>16, <1>17 DEF On, OnPage
<1>20. \A id \in ids : ~(Shown(w, ids, id) /\ On(Rank(ids, id)))
  <2>1. size = 0 => size * k = 0
    BY <1>2
  <2> QED
    BY <1>2, <1>7, <1>16, <2>1 DEF On, OnPage
<1>21. ~v.done => v.page * v.perPage <= n /\ size # 0
  BY <1>2, <1>3, <1>6, <1>11, <1>15
<1>22. ASSUME ~v.gone PROVE \A id \in v.kept : Shown(v, ids, id) => id \in Seen(v)
  <2>1. w.kept \subseteq ids /\ \A id \in w.kept : Shown(w, ids, id) => id \in Seen(w)
    BY <1>11, <1>22 DEF WalkInv, ids
  <2> QED
    BY <1>10, <1>11, <1>14, <1>18, <2>1
<1>23. ASSUME ~v.came
       PROVE  /\ \A i, j \in DOMAIN v.seen : i # j => v.seen[i] # v.seen[j]
              /\ ids \subseteq v.kept
              /\ \A id \in Seen(v) \intersect ids : Shown(v, ids, id)
  <2>1. /\ \A i, j \in DOMAIN w.seen : i # j => w.seen[i] # w.seen[j]
        /\ ids \subseteq w.kept
        /\ \A id \in Seen(w) \intersect ids : Shown(w, ids, id)
    BY <1>11, <1>23 DEF WalkInv, ids
  <2>2. \A id \in Seen(v) \intersect ids : Shown(v, ids, id)
    BY <1>9, <1>14, <1>19, <2>1
  <2>3. \A i \in DOMAIN w.seen, j \in DOMAIN new : w.seen[i] # new[j]
    <3> SUFFICES ASSUME NEW i \in DOMAIN w.seen, NEW j \in DOMAIN new, w.seen[i] = new[j]
                 PROVE  FALSE
      OBVIOUS
    <3>1. new[j] \in ids /\ On(Rank(ids, new[j])) /\ new[j] \in Seen(w)
      BY <1>9 DEF Seen
    <3> QED
      BY <1>20, <2>1, <3>1
  <2>4. \A i, j \in DOMAIN new : i # j => new[i] # new[j]
    <3> SUFFICES ASSUME NEW i \in DOMAIN new, NEW j \in DOMAIN new, new[i] = new[j] PROVE i = j
      OBVIOUS
    <3>1. first + i - 1 = first + j - 1
      BY <1>9
    <3>2. first \in Nat /\ i \in Nat /\ j \in Nat
      BY <1>2, <1>8 DEF first, FirstOnPage
    <3> QED
      BY <3>1, <3>2
  <2>5. \A i \in DOMAIN (w.seen \o new) :
          \/ i \in DOMAIN w.seen /\ (w.seen \o new)[i] = w.seen[i]
          \/ /\ i \notin DOMAIN w.seen /\ i - Len(w.seen) \in DOMAIN new
             /\ (w.seen \o new)[i] = new[i - Len(w.seen)]
    <3> SUFFICES ASSUME NEW i \in DOMAIN (w.seen \o new), i \notin DOMAIN w.seen
                 PROVE  /\ i - Len(w.seen) \in DOMAIN new
                        /\ (w.seen \o new)[i] = new[i - Len(w.seen)]
      BY <1>12
    <3>1. i - Len(w.seen) \in 1 .. Len(new) /\ Len(w.seen) + (i - Len(w.seen)) = i
      BY <1>8, <1>12
    <3>2. (w.seen \o new)[Len(w.seen) + (i - Len(w.seen))] = new[i - Len(w.seen)]
      BY <1>12, <3>1
    <3> QED
      BY <1>8, <3>1, <3>2
  <2>6. \A i, j \in DOMAIN (w.seen \o new) : i # j => (w.seen \o new)[i] # (w.seen \o new)[j]
    <3> SUFFICES ASSUME NEW i \in DOMAIN (w.seen \o new), NEW j \in DOMAIN (w.seen \o new), i # j
                 PROVE  (w.seen \o new)[i] # (w.seen \o new)[j]
      OBVIOUS
    <3>1. i \in Nat /\ j \in Nat /\ i - Len(w.seen) # j - Len(w.seen)
      BY <1>8, <1>12
    <3>2. CASE i \in DOMAIN w.seen /\ j \in DOMAIN w.seen
      BY <2>1, <2>5, <3>2
    <3>3. CASE i \in DOMAIN w.seen /\ j \notin DOMAIN w.seen
      BY <2>3, <2>5, <3>3
    <3>4. CASE i \notin DOMAIN w.seen /\ j \in DOMAIN w.seen
      BY <2>3, <2>5, <3>4
    <3>5. CASE i \notin DOMAIN w.seen /\ j \notin DOMAIN w.seen
      BY <2>4, <2>5, <3>1, <3>5
    <3> QED
      BY <3>2, <3>3, <3>4, <3>5
  <2> QED
    BY <1>11, <2>1, <2>2, <2>6
<1>24. ASSUME ~v.came, ~v.gone, v.perPage > 0
       PROVE  /\ v.page * v.perPage <= Cardinality(v.kept) + v.perPage
              /\ ~v.done => v.page * v.perPage <= Cardinality(v.kept)
  <2>1. w.kept = ids /\ k * size <= Cardinality(w.kept)
    BY <1>11, <1>24 DEF WalkInv, ids
  <2>2. v.kept = ids /\ size * k <= n
    BY <1>2, <1>11, <2>1 DEF n
  <2>3. v.page * v.perPage = size * k + size /\ v.perPage = size
    BY <1>11, <1>15
  <2> QED
    BY <1>2, <1>3, <1>21, <2>2, <2>3 DEF n
<1>25. v.kept \subseteq ids
  BY <1>11 DEF WalkInv, ids
<1>26. ~v.done => v.page * v.perPage <= Cardinality(AllIds)
  <2>1. v.page * v.perPage \in Nat
    BY <1>2, <1>11, <1>15
  <2> QED
    BY <1>3, <1>21, <2>1
<1>27. WalkInv(v, ids)
  BY <1>13, <1>22, <1>23, <1>24, <1>25, <1>26 DEF WalkInv
<1> QED
  BY <1>27 DEF v, new, p, ids

\* The ids on the list are those of the jars installed.
LEMMA IdsOfListed ==
  ASSUME NEW jars, jars \subseteq Jars, DistinctIds(jars)
  PROVE  Ids(Listed(jars)) = IdsOf(jars) /\ IdsOf(jars) \in SUBSET AllIds
<1> DEFINE L == Listed(jars)
<1>1. \A i \in DOMAIN L : \E j \in Installed(jars) : L[i] = Parsed(j)
  BY ListedShows
<1>2. \A j \in Installed(jars) : \E i \in DOMAIN L : L[i] = Parsed(j)
  BY ListedShows
<1> HIDE DEF L
<1>3. Ids(L) = IdsOf(jars)
  <2>1. ASSUME NEW x \in Ids(L) PROVE x \in IdsOf(jars)
    <3>1. PICK i \in DOMAIN L : x = L[i].id
      BY <2>1 DEF Ids
    <3>2. PICK j \in Installed(jars) : L[i] = Parsed(j)
      BY <1>1
    <3> QED
      BY <3>1, <3>2, ParsedFields DEF IdsOf
  <2>2. ASSUME NEW x \in IdsOf(jars) PROVE x \in Ids(L)
    <3>1. PICK j \in Installed(jars) : x = j.id
      BY <2>2 DEF IdsOf
    <3>2. PICK i \in DOMAIN L : L[i] = Parsed(j)
      BY <1>2
    <3> QED
      BY <3>1, <3>2, ParsedFields DEF Ids
  <2> QED
    BY <2>1, <2>2
<1> QED
  BY <1>3, InstalledFacts DEF L

\* One jar is added for an id that had none, or goes, or takes the place of its like.
LEMMA FolderStaysDistinct ==
  ASSUME FolderInv, FolderChanges
  PROVE  FolderInv'
<1>1. folder \subseteq Jars /\ \A j, k \in folder : j.id = k.id => j = k
  BY DEF FolderInv, DistinctIds
<1>2. \/ folder' = folder
      \/ \E j \in Jars : (\A l \in folder : l.id # j.id) /\ folder' = folder \union {j}
      \/ \E j \in folder : folder' = folder \ {j}
      \/ \E j \in folder, k \in Jars : j.id = k.id /\ folder' = (folder \ {j}) \union {k}
  <2>1. PICK new \in {folder} \union {folder \union {j} : j \in {k \in Jars : \A l \in folder : l.id # k.id}}
                       \union {folder \ {j} : j \in folder}
                       \union {(folder \ {p[1]}) \union {p[2]} :
                                 p \in {q \in folder \X Jars : q[1].id = q[2].id}} :
          folder' = new
    BY DEF FolderChanges
  <2>5. CASE new = folder
    BY <2>1, <2>5
  <2>2. CASE new \in {folder \union {j} : j \in {k \in Jars : \A l \in folder : l.id # k.id}}
    BY <2>1, <2>2
  <2>3. CASE new \in {folder \ {j} : j \in folder}
    BY <2>1, <2>3
  <2>4. CASE new \in {(folder \ {p[1]}) \union {p[2]} :
                        p \in {q \in folder \X Jars : q[1].id = q[2].id}}
    <3>1. PICK p \in folder \X Jars : p[1].id = p[2].id /\ new = (folder \ {p[1]}) \union {p[2]}
      BY <2>4
    <3>2. p[1] \in folder /\ p[2] \in Jars
      BY <3>1
    <3> QED
      BY <2>1, <3>1, <3>2
  <2> QED
    BY <2>1, <2>2, <2>3, <2>4, <2>5
<1>6. opened' \subseteq folder'
  BY DEF FolderChanges
<1>7. CASE folder' = folder
  BY <1>1, <1>6, <1>7 DEF FolderInv, DistinctIds
<1>3. CASE \E j \in Jars : (\A l \in folder : l.id # j.id) /\ folder' = folder \union {j}
  BY <1>1, <1>3, <1>6 DEF FolderInv, DistinctIds
<1>4. CASE \E j \in folder : folder' = folder \ {j}
  BY <1>1, <1>4, <1>6 DEF FolderInv, DistinctIds
<1>5. CASE \E j \in folder, k \in Jars : j.id = k.id /\ folder' = (folder \ {j}) \union {k}
  BY <1>1, <1>5, <1>6 DEF FolderInv, DistinctIds
<1> QED
  BY <1>2, <1>3, <1>4, <1>5, <1>7

\* A reader who begins has seen nothing.
LEMMA WalkBegins ==
  ASSUME NEW ids \in SUBSET AllIds, NEW size \in Sizes
  PROVE  WalkInv([perPage |-> size, page |-> 0, seen |-> << >>, done |-> FALSE,
                  kept |-> ids, came |-> FALSE, gone |-> FALSE], ids)
<1> DEFINE w == [perPage |-> size, page |-> 0, seen |-> << >>, done |-> FALSE,
                 kept |-> ids, came |-> FALSE, gone |-> FALSE]
<1>1. << >> \in Seq(AllIds) /\ DOMAIN << >> = {}
  OBVIOUS
<1>2. WalkTypeOK(w)
  BY <1>1 DEF WalkTypeOK
<1>3. size \in Nat /\ Cardinality(ids) \in Nat /\ Cardinality(AllIds) \in Nat
  BY SizesAreSmall, AllIdsFacts
<1>4. /\ w.perPage = size /\ w.page = 0 /\ w.done = FALSE /\ w.kept = ids /\ w.seen = << >>
      /\ w.gone = FALSE /\ w.came = FALSE
  OBVIOUS
<1> HIDE DEF w
<1>5. w.page * w.perPage = 0
  BY <1>3, <1>4
<1>6. \A id \in ids : ~Shown(w, ids, id)
  <2>1. \A id \in ids : Rank(ids, id) \in Nat
    BY AllIdsFacts, RankFacts
  <2> QED
    BY <1>4, <1>5, <2>1 DEF Shown
<1>7. Seen(w) = {}
  BY <1>1, <1>4 DEF Seen
<1>8. \A i, j \in DOMAIN w.seen : i # j => w.seen[i] # w.seen[j]
  BY <1>1, <1>4
<1>9. WalkInv(w, ids)
  BY <1>2, <1>3, <1>4, <1>5, <1>6, <1>7, <1>8 DEF WalkInv
<1> QED
  BY <1>9 DEF w

\* The invariant holds of an empty folder that nobody reads.
LEMMA QueriesInvInit == Init => QueriesInv
BY DEF Init, QueriesInv, FolderInv, DistinctIds

\* Only a change of the folder, and opening and turning the pages, can disturb it.
LEMMA QueriesInvNext == QueriesInv /\ [Next]_vars => QueriesInv'
<1> SUFFICES ASSUME QueriesInv, [Next]_vars PROVE QueriesInv'
  OBVIOUS
<1>1. FolderInv /\ opened \subseteq Jars /\ DistinctIds(opened)
      /\ (walk # None => WalkInv(walk, IdsOf(opened)))
  BY DEF QueriesInv, FolderInv, DistinctIds
<1>2. ASSUME folder' = folder, opened' = opened, walk' = None \/ walk' = walk PROVE QueriesInv'
  BY <1>1, <1>2 DEF QueriesInv, FolderInv
<1>3. CASE FolderChanges
  <2>1. FolderInv' /\ opened' \subseteq Jars /\ DistinctIds(opened')
    BY <1>1, <1>3, FolderStaysDistinct DEF FolderInv, DistinctIds
  <2> DEFINE before == IdsOf(opened)
             after  == IdsOf(opened')
  <2>2. /\ Ids(Listed(opened)) = before /\ Ids(Listed(opened')) = after
        /\ before \in SUBSET AllIds /\ after \in SUBSET AllIds
    BY <1>1, <2>1, IdsOfListed
  <2> HIDE DEF before, after
  <2>3. walk' = IF walk = None THEN None ELSE ChangedUnder(walk, before, after)
    BY <1>3, <2>2 DEF FolderChanges, ChangedUnder
  <2>4. walk' # None => WalkInv(walk', after)
    <3>1. SUFFICES ASSUME walk # None PROVE WalkInv(walk', after)
      BY <2>3
    <3>2. WalkInv(walk, before)
      BY <1>1, <3>1 DEF before
    <3>3. WalkInv(ChangedUnder(walk, before, after), after)
      BY <2>2, <3>2, WalkSurvivesChange
    <3> QED
      BY <2>3, <3>1, <3>3
  <2> QED
    BY <2>1, <2>4 DEF QueriesInv, after
<1>4. ASSUME NEW perPage \in Sizes, NEW page \in Numbers, ListMods(perPage, page) PROVE QueriesInv'
  BY <1>2, <1>4 DEF ListMods
<1>5. ASSUME NEW id, QueryMod(id) PROVE QueriesInv'
  BY <1>2, <1>5 DEF QueryMod
<1>6. ASSUME NEW batch, NEW mode, ResolveDeps(batch, mode) PROVE QueriesInv'
  BY <1>2, <1>6 DEF ResolveDeps
<1>7. ASSUME NEW perPage \in Sizes, OpenList(perPage) PROVE QueriesInv'
  <2>1. IdsOf(opened) \in SUBSET AllIds /\ Ids(Listed(opened)) = IdsOf(opened)
    BY <1>1, IdsOfListed
  <2>2. /\ folder' = folder /\ opened' = opened
        /\ walk' = [perPage |-> perPage, page |-> 0, seen |-> << >>, done |-> FALSE,
                    kept |-> IdsOf(opened), came |-> FALSE, gone |-> FALSE]
    BY <1>7, <2>1 DEF OpenList
  <2>3. WalkInv(walk', IdsOf(opened))
    BY <2>1, <2>2, WalkBegins
  <2> QED
    BY <1>1, <2>2, <2>3 DEF QueriesInv, FolderInv
<1>8. CASE TurnPage
  <2>1. walk # None /\ ~walk.done /\ folder' = folder /\ opened' = opened
    BY <1>8 DEF TurnPage
  <2>2. walk' = LET p == Page(Listed(opened), walk.perPage, walk.page)
                IN  [walk EXCEPT !.page = @ + 1, !.done = p.finished,
                                 !.seen = @ \o [i \in DOMAIN p.mods |-> p.mods[i].id]]
    BY <1>8 DEF TurnPage
  <2>3. WalkInv(walk', IdsOf(opened))
    BY <1>1, <2>1, <2>2, WalkSurvivesTurn
  <2> QED
    BY <1>1, <2>1, <2>3 DEF QueriesInv, FolderInv
<1>9. CASE CloseList
  BY <1>2, <1>9 DEF CloseList
<1>10. CASE UNCHANGED vars
  BY <1>2, <1>10 DEF vars
<1> QED
  BY <1>3, <1>4, <1>5, <1>6, <1>7, <1>8, <1>9, <1>10 DEF Next

\* A reader of the pages misses nothing that was listed all the while, unless a mod
\* went, sees nothing twice, unless one came, and turns no more pages than there are,
\* but one; the folder may change between any two of the pages (list_mods_paged).
THEOREM ReadersSeeAll == Spec => []WalkSeesAll
<1>1. QueriesInv => WalkSeesAll
  <2> SUFFICES ASSUME QueriesInv, walk # None PROVE WalkSeesAll
    BY DEF WalkSeesAll
  <2>1. WalkInv(walk, IdsOf(opened))
    BY DEF QueriesInv
  <2>2. ASSUME walk.done, ~walk.gone
        PROVE  \A id \in walk.kept : \E i \in DOMAIN walk.seen : walk.seen[i] = id
    <3>1. \A id \in walk.kept : id \in Seen(walk)
      BY <2>1, <2>2 DEF WalkInv, Shown
    <3> QED
      BY <3>1 DEF Seen
  <2>3. ~walk.came => \A i, j \in DOMAIN walk.seen : i # j => walk.seen[i] # walk.seen[j]
    BY <2>1 DEF WalkInv
  <2>4. ~walk.came /\ ~walk.gone /\ walk.perPage > 0 =>
          walk.page * walk.perPage <= Cardinality(walk.kept) + walk.perPage
    BY <2>1 DEF WalkInv
  <2> QED
    BY <2>2, <2>3, <2>4 DEF WalkSeesAll
<1> QED
  BY <1>1, QueriesInvInit, QueriesInvNext, PTL DEF Spec

-----------------------------------------------------------------------------
(***************************************************************************)
(* Answers about the list                                                  *)
(***************************************************************************)
\* No two places of a list hold mods with the same id.
OneOfEach(mods) ==
  DOMAIN mods \subseteq Int /\ \A i, k \in DOMAIN mods : mods[i].id = mods[k].id => i = k

\* Then the first of an id is the only one.
LEMMA FindOnly ==
  ASSUME NEW mods, OneOfEach(mods), NEW i \in DOMAIN mods
  PROVE  Find(mods, mods[i].id) = mods[i]
<1> DEFINE P(l) == /\ mods[l].id = mods[i].id
                   /\ \A j \in DOMAIN mods : mods[j].id = mods[i].id => l <= j
<1>1. \A j \in DOMAIN mods : mods[j].id = mods[i].id => j = i
  BY DEF OneOfEach
<1>2. i <= i
  BY DEF OneOfEach
<1>3. P(i) /\ \A l \in DOMAIN mods : P(l) => l = i
  BY <1>1, <1>2
<1>4. Find(mods, mods[i].id) = mods[CHOOSE l \in DOMAIN mods : P(l)]
  BY DEF Find
<1> HIDE DEF P
<1>5. (CHOOSE l \in DOMAIN mods : P(l)) = i
  BY <1>3
<1> QED
  BY <1>4, <1>5

\* list_mods lists an id once.
LEMMA ListedOneOfEach ==
  ASSUME NEW jars, jars \subseteq Jars, DistinctIds(jars)
  PROVE  OneOfEach(Listed(jars))
<1> DEFINE L == Listed(jars)
           n == Cardinality(IdsOf(jars))
<1>1. DOMAIN L = 1 .. n /\ n \in Nat
  BY ListedFacts
<1>2. \A i \in 1 .. n : \E j \in Installed(jars) :
        L[i] = Parsed(j) /\ Rank(IdsOf(jars), j.id) = i - 1
  BY ListedFacts
<1> HIDE DEF L, n
<1>3. ASSUME NEW i \in 1 .. n, NEW k \in 1 .. n, L[i].id = L[k].id PROVE i = k
  <2>1. PICK j \in Installed(jars) : L[i] = Parsed(j) /\ Rank(IdsOf(jars), j.id) = i - 1
    BY <1>2
  <2>2. PICK l \in Installed(jars) : L[k] = Parsed(l) /\ Rank(IdsOf(jars), l.id) = k - 1
    BY <1>2
  <2>3. j.id = l.id
    BY <1>3, <2>1, <2>2, ParsedFields
  <2>4. i - 1 = k - 1
    BY <2>1, <2>2, <2>3
  <2> QED
    BY <1>1, <2>4
<1>4. DOMAIN L \subseteq Int
  BY <1>1
<1> QED
  BY <1>1, <1>3, <1>4 DEF OneOfEach, L

\* A list of what is read out of the jars of a set, one place for each.
Lists(mods, T) == /\ OneOfEach(mods)
                  /\ \A i \in DOMAIN mods : \E j \in T : mods[i] = Parsed(j)
                  /\ \A j \in T : \E i \in DOMAIN mods : mods[i] = Parsed(j)

\* It finds just these jars.
LEMMA FindsJars ==
  ASSUME NEW mods, NEW T, Lists(mods, T)
  PROVE  /\ \A id : Has(mods, id) <=> \E j \in T : j.id = id
         /\ \A j \in T : Find(mods, j.id) = Parsed(j)
<1>1. ASSUME NEW id, Has(mods, id) PROVE \E j \in T : j.id = id
  <2>1. PICK i \in DOMAIN mods : mods[i].id = id
    BY <1>1 DEF Has
  <2>2. PICK j \in T : mods[i] = Parsed(j)
    BY DEF Lists
  <2> QED
    BY <2>1, <2>2, ParsedFields
<1>2. ASSUME NEW j \in T PROVE Has(mods, j.id) /\ Find(mods, j.id) = Parsed(j)
  <2>1. PICK i \in DOMAIN mods : mods[i] = Parsed(j)
    BY DEF Lists
  <2>2. mods[i].id = j.id
    BY <2>1, ParsedFields
  <2> QED
    BY <2>1, <2>2, FindOnly DEF Has, Lists
<1> QED
  BY <1>1, <1>2

\* A look for an id in the list finds the jar installed for it.
LEMMA ListedFinds ==
  ASSUME NEW jars, jars \subseteq Jars, DistinctIds(jars)
  PROVE  /\ Lists(Listed(jars), Installed(jars))
         /\ \A id : Has(Listed(jars), id) <=> \E j \in Installed(jars) : j.id = id
         /\ \A j \in Installed(jars) : Find(Listed(jars), j.id) = Parsed(j)
<1>1. Lists(Listed(jars), Installed(jars))
  BY ListedOneOfEach, ListedShows DEF Lists
<1> QED
  BY <1>1, FindsJars

\* QueryMod tells of the one mod that has the id, if there is one.
LEMMA QueryIsRight ==
  ASSUME NEW jars, jars \subseteq Jars, DistinctIds(jars), NEW id
  PROVE  (IF Has(Listed(jars), id) THEN {Find(Listed(jars), id)} ELSE {})
           = {Parsed(j) : j \in {k \in Installed(jars) : k.id = id}}
<1> DEFINE S == {k \in Installed(jars) : k.id = id}
<1>1. CASE \E j \in Installed(jars) : j.id = id
  <2>1. PICK j \in Installed(jars) : j.id = id
    BY <1>1
  <2>2. \A k \in Installed(jars) : k.id = id => k = j
    BY <2>1, InstalledFacts DEF DistinctIds
  <2>3. S = {j}
    BY <2>1, <2>2
  <2>4. Has(Listed(jars), id) /\ Find(Listed(jars), id) = Parsed(j)
    BY <2>1, ListedFinds
  <2> QED
    BY <2>3, <2>4
<1>2. CASE ~ \E j \in Installed(jars) : j.id = id
  <2>1. ~Has(Listed(jars), id) /\ S = {}
    BY <1>2, ListedFinds
  <2> QED
    BY <2>1
<1> QED
  BY <1>1, <1>2

\* The jars whose ids are smaller number as many as the rank says.
LEMMA RankCounts ==
  ASSUME NEW jars, jars \subseteq Jars, DistinctIds(jars), NEW x \in Int
  PROVE  Cardinality({l \in Installed(jars) : l.id < x}) = Rank(IdsOf(jars), x)
<1> DEFINE T == {l \in Installed(jars) : l.id < x}
<1>1. IsFiniteSet(T) /\ \A j, k \in T : j.id = k.id => j = k
  BY InstalledFacts, FS_Subset DEF DistinctIds
<1>2. {l.id : l \in T} = Smaller(IdsOf(jars), x)
  BY DEF Smaller, IdsOf
<1> HIDE DEF T
<1>3. Cardinality({l.id : l \in T}) = Cardinality(T)
  BY <1>1, CountIds
<1> QED
  BY <1>2, <1>3 DEF T, Rank

\* The jars whose place, by the order of the ids, is on a page.
PageHolds(jars, p, k) ==
  {h \in Installed(jars) :
     p = 0 \/ Cardinality({l \in Installed(jars) : l.id < h.id}) \div p = k}

\* They are what ListMods shows.
LEMMA PageIsRight ==
  ASSUME NEW jars, jars \subseteq Jars, DistinctIds(jars),
         NEW p \in Nat, NEW k \in Nat, ~Overflows(p, k)
  PROVE  LET pg == Page(Listed(jars), p, k)
         IN  /\ ~pg.panic
             /\ {m.id : m \in {pg.mods[i] : i \in DOMAIN pg.mods}}
                  = {j.id : j \in PageHolds(jars, p, k)}
<1> DEFINE pg   == Page(Listed(jars), p, k)
           inst == Installed(jars)
           ids  == IdsOf(jars)
           shown == PageHolds(jars, p, k)
<1>1. /\ ~pg.panic
      /\ pg.mods \in Seq({Parsed(j) : j \in Installed(jars)})
      /\ \A j \in Installed(jars) : OnPage(p, k, Rank(IdsOf(jars), j.id)) =>
           \E i \in DOMAIN pg.mods : pg.mods[i] = Parsed(j)
      /\ \A i \in DOMAIN pg.mods : \E j \in Installed(jars) :
           /\ pg.mods[i] = Parsed(j) /\ OnPage(p, k, Rank(IdsOf(jars), j.id))
           /\ Rank(IdsOf(jars), j.id) = FirstOnPage(p, k) + i - 1
      /\ pg.finished \in BOOLEAN
      /\ pg.finished <=> (p = 0 \/ Cardinality(IdsOf(jars)) < p * k + p)
  BY PageFacts, Zenon
<1>2. ASSUME NEW h \in inst
      PROVE  (p = 0 \/ Cardinality({l \in inst : l.id < h.id}) \div p = k)
               <=> OnPage(p, k, Rank(ids, h.id))
  <2>1. h.id \in Int /\ ids \in SUBSET Int /\ IsFiniteSet(ids)
    BY InstalledFacts DEF IsJar
  <2>2. Cardinality({l \in inst : l.id < h.id}) = Rank(ids, h.id)
    BY <2>1, RankCounts
  <2>3. Rank(ids, h.id) \in Nat
    BY <2>1, RankFacts
  <2> DEFINE r == Rank(ids, h.id)
  <2> HIDE DEF r
  <2>4. p # 0 => ((r \div p = k) <=> (p * k <= r /\ r < p * k + p))
    BY <2>3, PageOfPlace DEF r
  <2>5. (p = 0 \/ r \div p = k) <=> OnPage(p, k, r)
    BY <2>4 DEF OnPage
  <2> QED
    BY <2>2, <2>5 DEF r
<1>3. \A h \in inst : h \in shown <=> OnPage(p, k, Rank(ids, h.id))
  BY <1>2 DEF PageHolds
<1>4. \A h \in shown : h \in inst
  BY DEF PageHolds
<1> HIDE DEF pg, inst, ids, shown
<1>5. \A j \in shown : \E i \in DOMAIN pg.mods : pg.mods[i] = Parsed(j)
  BY <1>1, <1>3, <1>4 DEF inst, ids
<1>6. \A i \in DOMAIN pg.mods : \E j \in shown : pg.mods[i] = Parsed(j)
  BY <1>1, <1>3 DEF inst, ids
<1>7. {m.id : m \in {pg.mods[i] : i \in DOMAIN pg.mods}} = {j.id : j \in shown}
  <2>1. ASSUME NEW i \in DOMAIN pg.mods PROVE pg.mods[i].id \in {j.id : j \in shown}
    BY <1>6, ParsedFields
  <2>2. ASSUME NEW j \in shown
        PROVE  j.id \in {m.id : m \in {pg.mods[i] : i \in DOMAIN pg.mods}}
    <3>1. PICK i \in DOMAIN pg.mods : pg.mods[i] = Parsed(j)
      BY <1>5
    <3> QED
      BY <3>1, ParsedFields
  <2> QED
    BY <2>1, <2>2
<1> QED
  BY <1>1, <1>7 DEF pg, inst, shown

-----------------------------------------------------------------------------
(***************************************************************************)
(* Answers about dependencies                                              *)
(***************************************************************************)
\* What is read of a dependency lets a version pass just if the text does.
LEMMA DependencyMet ==
  ASSUME NEW r \in Ranges(Nat), Parses(r), NEW v \in Nat
  PROVE  Above(v, LowBound(r)) /\ Below(v, HighBound(r)) <=>
           Means(TakenFor(r), v) /\ ~(Bare(r) /\ v = 0)
<1>1. CASE Bare(r) /\ v = 0
  <2>1. LowBound(r) = Bound("excluded", 0)
    BY <1>1 DEF Bare, IsPair, LowBound
  <2> QED
    BY <1>1, <2>1 DEF Bound, Above
<1>2. CASE ~(Bare(r) /\ v = 0)
  <2>1. Nat \in SUBSET Nat
    OBVIOUS
  <2> QED
    BY <1>2, <2>1, RangesMeanWhatTheySay DEF TakenFor
<1> QED
  BY <1>1, <1>2

\* All that some jars are read to depend on is there.
CompleteAsRead(jars) ==
  \A j \in jars : \A i \in Foreign(j) :
    \E k \in jars : /\ k.id = j.deps[i].id
                    /\ Means(TakenFor(j.deps[i].range), k.version)
                    /\ ~(Bare(j.deps[i].range) /\ k.version = 0)

\* It is what they depend on, as far as the text does not say it by a union.
LEMMA ReadIsMeant ==
  ASSUME NEW T
  PROVE  /\ CompleteAsRead(T) => Complete(T)
         /\ Complete(T) /\ (\A j \in T : Unions(j) = {}) => CompleteAsRead(T)
<1>1. \A j \in T : \A i \in Foreign(j) : i \notin Unions(j) <=> j.deps[i].range.form # "union"
  BY DEF Unions
<1>2. ASSUME CompleteAsRead(T) PROVE Complete(T)
  BY <1>1, <1>2 DEF CompleteAsRead, Complete, TakenFor
<1>3. ASSUME Complete(T), \A j \in T : Unions(j) = {} PROVE CompleteAsRead(T)
  BY <1>1, <1>3 DEF CompleteAsRead, Complete, TakenFor
<1> QED
  BY <1>2, <1>3

\* Nothing is unmet in a list of what is read out of some jars just if the jars
\* have among them all that they depend on.
LEMMA UnmetIsIncomplete ==
  ASSUME NEW mods, NEW T, Lists(mods, T), \A j \in T : IsJar(j) /\ Readable(j)
  PROVE  AllUnmet(mods) = {} <=> CompleteAsRead(T)
<1> DEFINE Met(j, i) == \E k \in T : /\ k.id = j.deps[i].id
                                     /\ Means(TakenFor(j.deps[i].range), k.version)
                                     /\ ~(Bare(j.deps[i].range) /\ k.version = 0)
           Dep(j, i) == [id |-> j.deps[i].id, low |-> LowBound(j.deps[i].range),
                         high |-> HighBound(j.deps[i].range)]
<1>1. /\ \A id : Has(mods, id) <=> \E j \in T : j.id = id
      /\ \A j \in T : Find(mods, j.id) = Parsed(j)
  BY FindsJars
<1>2. ASSUME NEW j \in T, NEW i \in Foreign(j) PROVE Unmet(mods, Dep(j, i)) = {} <=> Met(j, i)
  <2> DEFINE d == Dep(j, i)
             r == j.deps[i].range
  <2>1. r \in Ranges(Nat) /\ Parses(r)
    <3>1. i \in DOMAIN j.deps /\ j.deps \in Seq([id : Int, range : Ranges(Nat)])
      BY DEF Foreign, IsJar
    <3>2. j.deps[i] \in [id : Int, range : Ranges(Nat)]
      BY <3>1, LenProperties, ElementOfSeq
    <3> QED
      BY <3>2 DEF Readable
  <2>2. d.id = j.deps[i].id /\ d.low = LowBound(r) /\ d.high = HighBound(r)
    OBVIOUS
  <2> HIDE DEF d, r
  <2>3. CASE ~Has(mods, d.id)
    <3>1. Unmet(mods, d) # {}
      BY <2>3 DEF Unmet
    <3>2. ~Met(j, i)
      BY <1>1, <2>2, <2>3
    <3> QED
      BY <3>1, <3>2 DEF d
  <2>4. CASE Has(mods, d.id)
    <3>1. PICK k \in T : k.id = d.id
      BY <1>1, <2>4
    <3>2. Find(mods, d.id).version = k.version /\ k.version \in Nat
      BY <1>1, <3>1, ParsedFields DEF IsJar
    <3>3. Unmet(mods, d) = {} <=> Above(k.version, d.low) /\ Below(k.version, d.high)
      BY <2>4, <3>2 DEF Unmet
    <3>4. Unmet(mods, d) = {} <=> Means(TakenFor(r), k.version) /\ ~(Bare(r) /\ k.version = 0)
      BY <2>1, <2>2, <3>2, <3>3, DependencyMet
    <3>5. \A l \in T : l.id = d.id => l.version = k.version
      <4> SUFFICES ASSUME NEW l \in T, l.id = d.id PROVE l.version = k.version
        OBVIOUS
      <4>1. Parsed(l) = Parsed(k)
        BY <1>1, <3>1
      <4> QED
        BY <4>1, ParsedFields
    <3>6. Met(j, i) <=> Means(TakenFor(r), k.version) /\ ~(Bare(r) /\ k.version = 0)
      BY <2>2, <3>1, <3>5 DEF r
    <3> QED
      BY <3>4, <3>6 DEF d
  <2> QED
    BY <2>3, <2>4
<1>3. \A j \in T : Parsed(j).deps = {Dep(j, i) : i \in Foreign(j)}
  BY DEF Parsed
<1> HIDE DEF Met, Dep
<1>4. CompleteAsRead(T) <=> \A j \in T : \A i \in Foreign(j) : Met(j, i)
  BY DEF CompleteAsRead, Met
<1>5. AllUnmet(mods) = {} <=> \A l \in DOMAIN mods : \A d \in mods[l].deps : Unmet(mods, d) = {}
  <2> DEFINE AllOf(l) == UNION {Unmet(mods, d) : d \in mods[l].deps}
  <2>1. \A l : AllOf(l) = {} <=> \A d \in mods[l].deps : Unmet(mods, d) = {}
    <3> SUFFICES ASSUME NEW l PROVE AllOf(l) = {} <=> \A d \in mods[l].deps : Unmet(mods, d) = {}
      OBVIOUS
    <3> QED
      OBVIOUS
  <2> HIDE DEF AllOf
  <2>2. UNION {AllOf(l) : l \in DOMAIN mods} = {} <=> \A l \in DOMAIN mods : AllOf(l) = {}
    OBVIOUS
  <2>3. AllUnmet(mods) = UNION {AllOf(l) : l \in DOMAIN mods}
    BY DEF AllUnmet, AllOf
  <2> QED
    BY <2>1, <2>2, <2>3
<1>6. ASSUME \A l \in DOMAIN mods : \A d \in mods[l].deps : Unmet(mods, d) = {},
             NEW j \in T, NEW i \in Foreign(j)
      PROVE  Met(j, i)
  <2>1. PICK l \in DOMAIN mods : mods[l] = Parsed(j)
    BY DEF Lists
  <2>2. Dep(j, i) \in mods[l].deps
    BY <1>3, <2>1
  <2> QED
    BY <1>2, <1>6, <2>2
<1>7. ASSUME \A j \in T : \A i \in Foreign(j) : Met(j, i),
             NEW l \in DOMAIN mods, NEW d \in mods[l].deps
      PROVE  Unmet(mods, d) = {}
  <2>1. PICK j \in T : mods[l] = Parsed(j)
    BY DEF Lists
  <2>2. PICK i \in Foreign(j) : d = Dep(j, i)
    BY <1>3, <2>1
  <2> QED
    BY <1>2, <1>7, <2>2
<1> QED
  BY <1>4, <1>5, <1>6, <1>7


\* The mods a batch names, as ResolveDeps reads them.
ReadAll(batch) == [i \in DOMAIN batch |-> Parsed(batch[i])]
JarsOf(batch)  == {batch[i] : i \in DOMAIN batch}

DifferentMods(batch) == \A i, j \in DOMAIN batch : i # j => batch[i].id # batch[j].id

\* A batch of different mods has one place for each of its jars.
LEMMA BatchLists ==
  ASSUME NEW n \in Nat, NEW S, NEW batch \in [1 .. n -> S], DifferentMods(batch)
  PROVE  Lists(ReadAll(batch), JarsOf(batch))
<1>1. DOMAIN ReadAll(batch) = DOMAIN batch /\ DOMAIN batch \subseteq Int
  BY DEF ReadAll
<1>2. \A i \in DOMAIN batch : ReadAll(batch)[i] = Parsed(batch[i])
  BY DEF ReadAll
<1>3. OneOfEach(ReadAll(batch))
  BY <1>1, <1>2, ParsedFields DEF OneOfEach, DifferentMods
<1> QED
  BY <1>1, <1>2, <1>3 DEF Lists, JarsOf

\* An installation adds the jars named, when none of their ids is there yet.
LEMMA InstallationLists ==
  ASSUME NEW S, NEW all \in Seq(S), NEW batch \in Seq(S),
         NEW T, NEW U, Lists(all, T), Lists(batch, U),
         \A j \in U : \A k \in T : k.id # j.id
  PROVE  Lists(all \o batch, T \union U)
<1> DEFINE both == all \o batch
           l    == Len(all)
           n    == Len(batch)
<1>1. l \in Nat /\ n \in Nat /\ DOMAIN all = 1 .. l /\ DOMAIN batch = 1 .. n
  BY LenProperties
<1>2. /\ both \in Seq(S) /\ Len(both) = l + n
      /\ \A i \in 1 .. l + n : both[i] = IF i <= l THEN all[i] ELSE batch[i - l]
  BY ConcatProperties
<1>3. DOMAIN both = 1 .. l + n
  BY <1>2, LenProperties
<1> HIDE DEF both, l, n
<1>4. \A i \in DOMAIN both : \/ i \in DOMAIN all /\ both[i] = all[i]
                             \/ i > l /\ i - l \in DOMAIN batch /\ both[i] = batch[i - l]
  <2> SUFFICES ASSUME NEW i \in 1 .. l + n
               PROVE  \/ i \in DOMAIN all /\ both[i] = all[i]
                      \/ i > l /\ i - l \in DOMAIN batch /\ both[i] = batch[i - l]
    BY <1>3
  <2>1. both[i] = IF i <= l THEN all[i] ELSE batch[i - l]
    BY <1>2
  <2>2. CASE i <= l
    BY <1>1, <2>1, <2>2
  <2>3. CASE ~(i <= l)
    <3>1. i > l /\ i - l \in 1 .. n
      BY <1>1, <2>3
    <3> QED
      BY <1>1, <2>1, <2>3, <3>1
  <2> QED
    BY <2>2, <2>3
<1>5. \A i \in DOMAIN all : i \in DOMAIN both /\ both[i] = all[i]
  BY <1>1, <1>2, <1>3
<1>6. \A i \in DOMAIN batch : l + i \in DOMAIN both /\ both[l + i] = batch[i]
  <2> SUFFICES ASSUME NEW i \in 1 .. n PROVE l + i \in DOMAIN both /\ both[l + i] = batch[i]
    BY <1>1
  <2> DEFINE place == l + i
  <2>1. place \in 1 .. l + n /\ ~(place <= l) /\ place - l = i
    BY <1>1
  <2>2. both[place] = batch[place - l]
    <3> HIDE DEF place
    <3> QED
      BY <1>2, <2>1
  <2> QED
    BY <1>3, <2>1, <2>2
<1>7. \A i \in DOMAIN all, k \in DOMAIN batch : all[i].id # batch[k].id
  <2> SUFFICES ASSUME NEW i \in DOMAIN all, NEW k \in DOMAIN batch PROVE all[i].id # batch[k].id
    OBVIOUS
  <2>1. PICK j \in T : all[i] = Parsed(j)
    BY DEF Lists
  <2>2. PICK m \in U : batch[k] = Parsed(m)
    BY DEF Lists
  <2> QED
    BY <2>1, <2>2, ParsedFields
<1>8. OneOfEach(both)
  <2>1. DOMAIN both \subseteq Int
    BY <1>1, <1>3
  <2>2. ASSUME NEW i \in DOMAIN both, NEW k \in DOMAIN both, both[i].id = both[k].id PROVE i = k
    <3>1. CASE i \in DOMAIN all /\ both[i] = all[i] /\ k \in DOMAIN all /\ both[k] = all[k]
      BY <2>2, <3>1 DEF Lists, OneOfEach
    <3>2. CASE /\ i - l \in DOMAIN batch /\ both[i] = batch[i - l]
               /\ k - l \in DOMAIN batch /\ both[k] = batch[k - l]
      <4>1. i - l = k - l
        BY <2>2, <3>2 DEF Lists, OneOfEach
      <4>2. i \in Int /\ k \in Int
        BY <2>1
      <4> QED
        BY <1>1, <4>1, <4>2
    <3> QED
      BY <1>4, <1>7, <2>2, <3>1, <3>2
  <2> QED
    BY <2>1, <2>2 DEF OneOfEach
<1>9. \A i \in DOMAIN both : \E j \in T \union U : both[i] = Parsed(j)
  BY <1>4 DEF Lists
<1>10. \A j \in T \union U : \E i \in DOMAIN both : both[i] = Parsed(j)
  <2>1. ASSUME NEW j \in T PROVE \E i \in DOMAIN both : both[i] = Parsed(j)
    BY <1>5 DEF Lists
  <2>2. ASSUME NEW j \in U PROVE \E i \in DOMAIN both : both[i] = Parsed(j)
    <3>1. PICK i \in DOMAIN batch : batch[i] = Parsed(j)
      BY DEF Lists
    <3> QED
      BY <1>6, <3>1
  <2> QED
    BY <2>1, <2>2
<1> QED
  BY <1>8, <1>9, <1>10 DEF Lists, both

\* A removal leaves the jars whose ids are not named.
LEMMA RemovalLists ==
  ASSUME NEW all, NEW batch, NEW T, NEW U, Lists(all, T), Lists(batch, U)
  PROVE  Lists([i \in {k \in DOMAIN all : ~Has(batch, all[k].id)} |-> all[i]],
               {k \in T : \A j \in U : j.id # k.id})
<1> DEFINE left == {k \in DOMAIN all : ~Has(batch, all[k].id)}
           mods == [i \in left |-> all[i]]
           V    == {k \in T : \A j \in U : j.id # k.id}
<1>1. DOMAIN mods = left /\ (\A i \in left : mods[i] = all[i]) /\ left \subseteq DOMAIN all
  OBVIOUS
<1>2. \A id : Has(batch, id) <=> \E j \in U : j.id = id
  BY FindsJars
<1>3. \A i \in DOMAIN all, k \in T : all[i] = Parsed(k) => (i \in left <=> k \in V)
  BY <1>2, ParsedFields
<1>4. V \subseteq T
  OBVIOUS
<1> HIDE DEF left, mods, V
<1>5. OneOfEach(mods)
  BY <1>1 DEF Lists, OneOfEach
<1>6. \A i \in DOMAIN mods : \E j \in V : mods[i] = Parsed(j)
  BY <1>1, <1>3 DEF Lists
<1>7. \A j \in V : \E i \in DOMAIN mods : mods[i] = Parsed(j)
  BY <1>1, <1>3, <1>4 DEF Lists
<1>8. Lists(mods, V)
  BY <1>5, <1>6, <1>7 DEF Lists
<1> QED
  BY <1>8 DEF mods, left, V

\* An update puts the jars named in the places of those with their ids.
LEMMA UpdateLists ==
  ASSUME NEW all, NEW batch, NEW T, NEW U, Lists(all, T), Lists(batch, U),
         \A j \in U : \E k \in T : k.id = j.id
  PROVE  Lists([i \in DOMAIN all |-> IF Has(batch, all[i].id) THEN Find(batch, all[i].id)
                                     ELSE all[i]],
               {k \in T : \A j \in U : j.id # k.id} \union U)
<1> DEFINE mods == [i \in DOMAIN all |-> IF Has(batch, all[i].id) THEN Find(batch, all[i].id)
                                         ELSE all[i]]
           V    == {k \in T : \A j \in U : j.id # k.id}
<1>1. /\ DOMAIN mods = DOMAIN all
      /\ \A i \in DOMAIN all : Has(batch, all[i].id) => mods[i] = Find(batch, all[i].id)
      /\ \A i \in DOMAIN all : ~Has(batch, all[i].id) => mods[i] = all[i]
  OBVIOUS
<1>2. /\ \A id : Has(batch, id) <=> \E j \in U : j.id = id
      /\ \A j \in U : Find(batch, j.id) = Parsed(j)
  BY FindsJars
<1>3. \A k : k \in V <=> k \in T /\ \A j \in U : j.id # k.id
  OBVIOUS
<1> HIDE DEF mods, V
<1>4. \A i \in DOMAIN all, j \in U : all[i].id = j.id => mods[i] = Parsed(j)
  BY <1>1, <1>2
<1>5. \A i \in DOMAIN all, k \in V : all[i] = Parsed(k) => mods[i] = Parsed(k)
  BY <1>1, <1>2, <1>3, ParsedFields
<1>6. \A i \in DOMAIN all : \E j \in V \union U : mods[i] = Parsed(j) /\ all[i].id = j.id
  <2> SUFFICES ASSUME NEW i \in DOMAIN all
               PROVE  \E j \in V \union U : mods[i] = Parsed(j) /\ all[i].id = j.id
    OBVIOUS
  <2>1. PICK k \in T : all[i] = Parsed(k)
    BY DEF Lists
  <2>2. CASE k \in V
    BY <1>5, <2>1, <2>2, ParsedFields
  <2>3. CASE k \notin V
    <3>1. PICK j \in U : j.id = k.id
      BY <1>3, <2>3
    <3> QED
      BY <1>4, <2>1, <3>1, ParsedFields
  <2> QED
    BY <2>2, <2>3
<1>7. OneOfEach(mods)
  <2>1. \A i \in DOMAIN all : mods[i].id = all[i].id
    BY <1>6, ParsedFields
  <2> QED
    BY <1>1, <2>1 DEF Lists, OneOfEach
<1>8. \A j \in V \union U : \E i \in DOMAIN all : mods[i] = Parsed(j)
  <2>1. ASSUME NEW j \in V PROVE \E i \in DOMAIN all : mods[i] = Parsed(j)
    BY <1>3, <1>5 DEF Lists
  <2>2. ASSUME NEW j \in U PROVE \E i \in DOMAIN all : mods[i] = Parsed(j)
    <3>1. PICK k \in T : k.id = j.id
      OBVIOUS
    <3>2. PICK i \in DOMAIN all : all[i] = Parsed(k)
      BY DEF Lists
    <3> QED
      BY <1>4, <3>1, <3>2, ParsedFields
  <2> QED
    BY <2>1, <2>2
<1>9. Lists(mods, V \union U)
  BY <1>1, <1>6, <1>7, <1>8 DEF Lists
<1> QED
  BY <1>9 DEF mods, V


\* A mod is refused just if something is in the way of the change it asks for.
LEMMA RefusedIsInapplicable ==
  ASSUME NEW all, NEW T, Lists(all, T), \A j \in T : IsJar(j), NEW m, IsJar(m), NEW mode \in Modes
  PROVE  Refused(all, Parsed(m), mode) = {} <=> Applicable(T, {m}, mode)
<1>1. /\ \A id : Has(all, id) <=> \E j \in T : j.id = id
      /\ \A j \in T : Find(all, j.id) = Parsed(j)
  BY FindsJars
<1>2. Parsed(m).id = m.id /\ Parsed(m).version = m.version /\ m.version \in Nat
  BY ParsedFields DEF IsJar
<1>3. CASE mode = "Installation"
  <2>1. Refused(all, Parsed(m), mode) = {} <=> ~Has(all, m.id)
    BY <1>2, <1>3 DEF Refused
  <2>2. Applicable(T, {m}, mode) <=> \A k \in T : k.id # m.id
    BY <1>3 DEF Applicable
  <2> QED
    BY <1>1, <2>1, <2>2
<1>4. CASE mode = "Removal"
  <2>1. Refused(all, Parsed(m), mode) = {} <=> Has(all, m.id)
    BY <1>2, <1>4 DEF Refused
  <2>2. Applicable(T, {m}, mode) <=> \E k \in T : k.id = m.id
    BY <1>4 DEF Applicable
  <2> QED
    BY <1>1, <2>1, <2>2
<1>5. CASE mode = "Update"
  <2>1. Refused(all, Parsed(m), mode) = {}
          <=> Has(all, m.id) /\ ~(m.version <= Find(all, m.id).version)
    BY <1>2, <1>5 DEF Refused
  <2>2. Applicable(T, {m}, mode) <=> \E k \in T : k.id = m.id /\ k.version < m.version
    BY <1>5 DEF Applicable
  <2>3. \A k \in T : k.id = m.id => Find(all, m.id).version = k.version /\ k.version \in Nat
    BY <1>1, ParsedFields DEF IsJar
  <2>4. \A k \in T : k.id = m.id =>
          (k.version < m.version <=> ~(m.version <= Find(all, m.id).version))
    BY <1>2, <2>3
  <2> QED
    BY <1>1, <2>1, <2>2, <2>4
<1> QED
  BY <1>3, <1>4, <1>5 DEF Modes

\* In each mode the list that resolve_deps looks at is what the change would leave.
LEMMA HypotheticalLists ==
  ASSUME NEW S, NEW all \in Seq(S), NEW batch \in Seq(S),
         NEW T, NEW new, Lists(all, T), Lists(batch, new),
         NEW mode \in Modes, Applicable(T, new, mode)
  PROVE  Lists(Hypothetical(all, batch, mode), Changed(T, new, mode))
<1>1. CASE mode = "Installation"
  <2>1. Hypothetical(all, batch, mode) = all \o batch
    BY <1>1 DEF Hypothetical
  <2>2. Changed(T, new, mode) = T \union new
    BY <1>1 DEF Changed
  <2>3. \A j \in new : \A k \in T : k.id # j.id
    BY <1>1 DEF Applicable
  <2> QED
    BY <2>1, <2>2, <2>3, InstallationLists
<1>2. CASE mode = "Removal"
  <2>1. Hypothetical(all, batch, mode) =
          [i \in {k \in DOMAIN all : ~Has(batch, all[k].id)} |-> all[i]]
    BY <1>2 DEF Hypothetical
  <2>2. Changed(T, new, mode) = {k \in T : \A j \in new : j.id # k.id}
    BY <1>2 DEF Changed
  <2> QED
    BY <2>1, <2>2, RemovalLists
<1>3. CASE mode = "Update"
  <2>1. Hypothetical(all, batch, mode) =
          [i \in DOMAIN all |-> IF Has(batch, all[i].id) THEN Find(batch, all[i].id) ELSE all[i]]
    BY <1>3 DEF Hypothetical
  <2>2. Changed(T, new, mode) = {k \in T : \A j \in new : j.id # k.id} \union new
    BY <1>3 DEF Changed
  <2>3. \A j \in new : \E k \in T : k.id = j.id
    BY <1>3 DEF Applicable
  <2> QED
    BY <2>1, <2>2, <2>3, UpdateLists
<1> QED
  BY <1>1, <1>2, <1>3 DEF Modes

\* ResolveDeps is content just with a change that can be made and leaves nothing
\* that depends on what is not there.
LEMMA ResolveIsRight ==
  ASSUME NEW jars, jars \subseteq Jars, DistinctIds(jars), NEW n \in Nat,
         NEW batch \in [1 .. n -> Jars \union Base], \A i \in DOMAIN batch : Readable(batch[i]),
         NEW mode \in Modes
  PROVE  LET T     == Installed(jars)
             new   == JarsOf(batch)
             reply == Unsatisfied(Listed(jars), ReadAll(batch), mode)
         IN  /\ (\E j \in new : j.id \in Reserved) => reply # {}
             /\ ~(\E j \in new : j.id \in Reserved) /\ DifferentMods(batch) =>
                  (reply = {} <=> /\ Applicable(T, new, mode)
                                  /\ CompleteAsRead(Changed(T, new, mode)))
<1> DEFINE T     == Installed(jars)
           new   == JarsOf(batch)
           all   == Listed(jars)
           read  == ReadAll(batch)
           hyp   == Hypothetical(all, read, mode)
           refused == UNION {Refused(all, read[i], mode) : i \in DOMAIN read}
           reply == Unsatisfied(all, read, mode)
<1>1. DOMAIN read = DOMAIN batch /\ DOMAIN batch = 1 .. n
      /\ \A i \in DOMAIN batch : read[i] = Parsed(batch[i])
  BY DEF ReadAll
<1>2. reply = IF Invalid(read) THEN {<<"", "InvalidInput">>}
              ELSE IF refused # {} THEN refused ELSE AllUnmet(hyp)
  BY DEF Unsatisfied
<1> HIDE DEF read, reply
<1>3. ASSUME \E j \in new : j.id \in Reserved PROVE reply # {}
  <2>1. PICK i \in DOMAIN batch : batch[i].id \in Reserved
    BY <1>3 DEF JarsOf
  <2>2. Invalid(read)
    BY <1>1, <2>1, ParsedFields DEF Invalid
  <2> QED
    BY <1>2, <2>2
<1>4. ASSUME ~(\E j \in new : j.id \in Reserved), DifferentMods(batch)
      PROVE  reply = {} <=> /\ Applicable(T, new, mode)
                            /\ CompleteAsRead(Changed(T, new, mode))
  <2>1. Lists(read, new)
    BY <1>4, BatchLists DEF read
  <2>2. Lists(all, T) /\ \A j \in T : IsJar(j) /\ Readable(j)
    BY ListedFinds, InstalledFacts
  <2>3. \A j \in new : IsJar(j) /\ Readable(j)
    BY <1>1, JarsAssumption DEF JarsOf
  <2> DEFINE S == {Parsed(j) : j \in T \union new}
  <2>4. all \in Seq(S) /\ read \in Seq(S)
    <3>1. all \in Seq({Parsed(j) : j \in T})
      BY ListedFacts
    <3>2. {Parsed(j) : j \in T} \subseteq S
      OBVIOUS
    <3>3. read \in [1 .. n -> S]
      BY <1>1 DEF JarsOf, read, ReadAll
    <3> HIDE DEF S, T, all
    <3>4. all \in Seq(S)
      BY <3>1, <3>2
    <3>5. read \in Seq(S)
      BY <3>3, SeqDef
    <3> QED
      BY <3>4, <3>5
  <2>5. ~Invalid(read)
    <3>1. \A i \in DOMAIN read : read[i].id \notin Reserved
      BY <1>1, <1>4, ParsedFields DEF JarsOf
    <3>2. ~Duplicated(read)
      BY <1>1, <2>1 DEF Lists, OneOfEach, Duplicated
    <3> QED
      BY <3>1, <3>2 DEF Invalid
  <2> HIDE DEF S, T, new, all, hyp
  <2>6. refused = {} <=> Applicable(T, new, mode)
    <3>1. refused = {} <=> \A i \in DOMAIN read : Refused(all, read[i], mode) = {}
      OBVIOUS
    <3>2. (\A i \in DOMAIN read : Refused(all, read[i], mode) = {})
            <=> \A j \in new : Refused(all, Parsed(j), mode) = {}
      BY <2>1 DEF Lists
    <3>3. \A j \in new : Refused(all, Parsed(j), mode) = {} <=> Applicable(T, {j}, mode)
      BY <2>2, <2>3, RefusedIsInapplicable
    <3>4. Applicable(T, new, mode) <=> \A j \in new : Applicable(T, {j}, mode)
      BY DEF Applicable
    <3> QED
      BY <3>1, <3>2, <3>3, <3>4
  <2> HIDE DEF refused
  <2>7. ASSUME Applicable(T, new, mode)
        PROVE  AllUnmet(hyp) = {} <=> CompleteAsRead(Changed(T, new, mode))
    <3>1. Lists(hyp, Changed(T, new, mode))
      BY <2>1, <2>2, <2>4, <2>7, HypotheticalLists DEF hyp
    <3>2. \A j \in Changed(T, new, mode) : IsJar(j) /\ Readable(j)
      BY <2>2, <2>3 DEF Changed
    <3> QED
      BY <3>1, <3>2, UnmetIsIncomplete
  <2> QED
    BY <1>2, <2>5, <2>6, <2>7
<1> QED
  BY <1>3, <1>4 DEF reply, read

\* The answer to ListMods is right.
LEMMA ListModsRight ==
  ASSUME NEW jars, jars \subseteq Jars, DistinctIds(jars), NEW p \in Nat, NEW k \in Nat
  PROVE  RightAnswer([question |-> "ListMods", perPage |-> p, page |-> k,
                      reply |-> Page(Listed(jars), p, k)], jars)
<1> DEFINE pg == Page(Listed(jars), p, k)
           a  == [question |-> "ListMods", perPage |-> p, page |-> k, reply |-> pg]
<1>1. ASSUME ~Overflows(p, k)
      PROVE  /\ ~pg.panic
             /\ {m.id : m \in {pg.mods[i] : i \in DOMAIN pg.mods}}
                  = {j.id : j \in PageHolds(jars, p, k)}
  BY <1>1, PageIsRight, Zenon
<1> HIDE DEF pg
<1>2. a.question = "ListMods" /\ a.perPage = p /\ a.page = k /\ a.reply = pg
  OBVIOUS
<1> HIDE DEF a
<1>3. RightAnswer(a, jars)
  BY <1>1, <1>2 DEF RightAnswer, Installed, PageHolds
<1> QED
  BY <1>3 DEF a, pg

\* The answer to QueryMod is right.
LEMMA QueryModRight ==
  ASSUME NEW jars, jars \subseteq Jars, DistinctIds(jars), NEW id
  PROVE  RightAnswer([question |-> "QueryMod", id |-> id,
                      reply |-> IF Has(Listed(jars), id) THEN {Find(Listed(jars), id)} ELSE {}],
                     jars)
<1> DEFINE reply == IF Has(Listed(jars), id) THEN {Find(Listed(jars), id)} ELSE {}
           a     == [question |-> "QueryMod", id |-> id, reply |-> reply]
<1>1. reply = {Parsed(j) : j \in {k \in Installed(jars) : k.id = id}}
  BY QueryIsRight
<1> HIDE DEF reply
<1>2. a.question = "QueryMod" /\ a.id = id /\ a.reply = reply
  OBVIOUS
<1> HIDE DEF a
<1>3. RightAnswer(a, jars)
  BY <1>1, <1>2 DEF RightAnswer, Installed
<1> QED
  BY <1>3 DEF a, reply

\* The answer to ResolveDeps is right.
LEMMA ResolveDepsRight ==
  ASSUME NEW jars, jars \subseteq Jars, DistinctIds(jars), NEW batch \in Batches,
         \A i \in DOMAIN batch : Readable(batch[i]), NEW mode \in Modes
  PROVE  RightAnswer([question |-> "ResolveDeps", batch |-> batch, mode |-> mode,
                      reply |-> Unsatisfied(Listed(jars),
                                            [i \in DOMAIN batch |-> Parsed(batch[i])], mode)],
                     jars)
<1> DEFINE reply == Unsatisfied(Listed(jars), ReadAll(batch), mode)
           a     == [question |-> "ResolveDeps", batch |-> batch, mode |-> mode, reply |-> reply]
<1>1. PICK n \in Nat : batch \in [1 .. n -> Jars \union Base]
  <2>1. PICK n \in 1 .. MaxBatch : batch \in [1 .. n -> Jars \union Base]
    BY DEF Batches
  <2> QED
    BY <2>1, SizeAssumption
<1>2. /\ (\E j \in JarsOf(batch) : j.id \in Reserved) => reply # {}
      /\ ~(\E j \in JarsOf(batch) : j.id \in Reserved) /\ DifferentMods(batch) =>
           (reply = {} <=> /\ Applicable(Installed(jars), JarsOf(batch), mode)
                           /\ CompleteAsRead(Changed(Installed(jars), JarsOf(batch), mode)))
  BY <1>1, ResolveIsRight
<1> DEFINE new   == JarsOf(batch)
           after == Changed(Installed(jars), new, mode)
           right == Applicable(Installed(jars), new, mode) /\ Complete(after)
<1> HIDE DEF reply
<1>3. a.question = "ResolveDeps" /\ a.batch = batch /\ a.mode = mode /\ a.reply = reply
  OBVIOUS
<1> HIDE DEF a
<1>4. /\ (\E j \in new : j.id \in Reserved) => reply # {}
      /\ ~(\E j \in new : j.id \in Reserved) /\ DifferentMods(batch) =>
           /\ reply = {} => right
           /\ right => reply = {} \/ \E j \in after : Unions(j) # {}
  <2> DEFINE complete == CompleteAsRead(after)
  <2>1. /\ complete => Complete(after)
        /\ Complete(after) /\ (\A j \in after : Unions(j) = {}) => complete
    BY ReadIsMeant
  <2> QED
    BY <1>2, <2>1
<1>5. RightAnswer(a, jars)
  BY <1>3, <1>4 DEF RightAnswer, Installed, JarsOf, DifferentMods
<1> QED
  BY <1>5 DEF a, reply, ReadAll

\* Every answer to ListMods, QueryMod and ResolveDeps is right of the jars that could
\* be read when the list was made: pages hold the mods their numbers say, and a
\* change is called satisfied just if it can be made and leaves nothing that depends
\* on what is not there, as far as no union of ranges is involved.
THEOREM AnswersAreRight == Spec => []AnswersRight
<1> DEFINE Inv == FolderInv /\ AnswersRight
<1>1. Init => Inv
  BY DEF Init, FolderInv, DistinctIds, AnswersRight
<1>2. Inv /\ [Next]_vars => Inv'
  <2> SUFFICES ASSUME FolderInv, AnswersRight, [Next]_vars PROVE Inv'
    OBVIOUS
  <2>1. opened \subseteq Jars /\ DistinctIds(opened)
    BY DEF FolderInv, DistinctIds
  <2>2. ASSUME folder' = folder, opened' = opened, AnswersRight' PROVE Inv'
    BY <2>1, <2>2 DEF FolderInv
  <2>3. ASSUME folder' = folder, opened' = opened, answer' = answer PROVE Inv'
    BY <2>2, <2>3 DEF AnswersRight
  <2>4. ASSUME folder' = folder, opened' = opened, RightAnswer(answer', opened) PROVE Inv'
    BY <2>2, <2>4 DEF AnswersRight
  <2>5. CASE FolderChanges
    <3>1. answer' = None
      BY <2>5 DEF FolderChanges
    <3> QED
      BY <2>5, <3>1, FolderStaysDistinct DEF AnswersRight
  <2>6. ASSUME NEW perPage \in Sizes, NEW page \in Numbers, ListMods(perPage, page) PROVE Inv'
    <3>1. perPage \in Nat /\ page \in Nat
      BY SizesAreSmall, SizeAssumption
    <3>2. RightAnswer(answer', opened) /\ folder' = folder /\ opened' = opened
      BY <2>1, <2>6, <3>1, ListModsRight DEF ListMods
    <3> QED
      BY <2>4, <3>2
  <2>7. ASSUME NEW id, QueryMod(id) PROVE Inv'
    <3>1. RightAnswer(answer', opened) /\ folder' = folder /\ opened' = opened
      BY <2>1, <2>7, QueryModRight DEF QueryMod
    <3> QED
      BY <2>4, <3>1
  <2>8. ASSUME NEW batch \in Batches, NEW mode \in Modes, ResolveDeps(batch, mode) PROVE Inv'
    <3>1. RightAnswer(answer', opened) /\ folder' = folder /\ opened' = opened
      BY <2>1, <2>8, ResolveDepsRight DEF ResolveDeps
    <3> QED
      BY <2>4, <3>1
  <2>9. ASSUME NEW perPage \in Sizes, OpenList(perPage) PROVE Inv'
    BY <2>3, <2>9 DEF OpenList
  <2>10. CASE TurnPage
    BY <2>3, <2>10 DEF TurnPage
  <2>11. CASE CloseList
    BY <2>3, <2>11 DEF CloseList
  <2>12. CASE UNCHANGED vars
    BY <2>3, <2>12 DEF vars
  <2> QED
    BY <2>5, <2>6, <2>7, <2>8, <2>9, <2>10, <2>11, <2>12 DEF Next
<1>3. Inv => AnswersRight
  OBVIOUS
<1> QED
  BY <1>1, <1>2, <1>3, PTL DEF Spec
=============================================================================
