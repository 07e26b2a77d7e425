------------------------------ MODULE ModRules ------------------------------
(***************************************************************************)
(* What is decided about mods without changing anything: how the metadata  *)
(* of a jar is read (parse_mod_ext, yapper/src/mod_parser.rs), and how     *)
(* sv_manage pages its list of mods and resolves dependencies              *)
(* (list_mods_paged, resolve_deps, server_loop.rs).                        *)
(*                                                                         *)
(* A version is a number that gives its place in the order of              *)
(* ComparableVersion; 0 is the place of the empty text and of a            *)
(* placeholder nobody filled in.  A range of versions is kept as written.  *)
(***************************************************************************)
EXTENDS Integers, Sequences

CONSTANTS Reserved,  \* "minecraft" and "forge"
          Width      \* 2 to the number of bits of a usize

ASSUME WidthAssumption == Width \in Nat \ {0}

(***************************************************************************)
(* Version ranges                                                          *)
(***************************************************************************)
\* As written: nothing; one version in brackets; two, either of which may be left
\* out (0), with the characters around them; or a union of such ranges, with more
\* than one comma.  The text of a union falls into what stands before its first
\* comma and what stands after it, as "[1" and "2),[3,4)" of "[1,2),[3,4)": `lo`
\* and `hi` are the places of these two texts, taken for versions, which have
\* nothing to do with the versions its parts admit.
Opening == {"[", "(", "?"}
Closing == {"]", ")", "?"}

Ranges(versions) ==
  [form : {"none"}, open : {"["}, lo : {0}, hi : {0}, close : {"]"}]
    \union [form : {"single"}, open : Opening, lo : versions, hi : {0}, close : Closing]
    \union [form : {"pair", "union"}, open : Opening, lo : versions, hi : versions,
            close : Closing]

\* split_once: a union is taken for a pair.
IsPair(r) == r.form \in {"pair", "union"}

Parses(r) ==
  \/ r.form = "none"
  \/ r.form = "single" /\ r.open = "[" /\ r.close = "]"
  \/ IsPair(r) /\ r.open \in {"[", "("} /\ r.close \in {"]", ")"}

Bound(kind, v) == [kind |-> kind, at |-> v]
Unbounded      == Bound("unbounded", 0)

\* The branch for "(" asks whether the text is "[", so a "(" alone excludes the
\* empty version where it should leave the range open.
LowBound(r) ==
  CASE r.form = "none"                -> Unbounded
    [] r.form = "single"              -> Bound("included", r.lo)
    [] IsPair(r) /\ r.open = "["      -> IF r.lo = 0 THEN Unbounded ELSE Bound("included", r.lo)
    [] OTHER                          -> Bound("excluded", r.lo)

HighBound(r) ==
  CASE r.form = "none"   -> Unbounded
    [] r.form = "single" -> Bound("included", r.lo)
    [] OTHER             -> IF r.hi = 0 THEN Unbounded
                            ELSE Bound(IF r.close = "]" THEN "included" ELSE "excluded", r.hi)

Above(v, b) ==
  \/ b.kind = "included" /\ v >= b.at
  \/ b.kind = "excluded" /\ v > b.at
  \/ b.kind = "unbounded"

Below(v, b) ==
  \/ b.kind = "included" /\ v <= b.at
  \/ b.kind = "excluded" /\ v < b.at
  \/ b.kind = "unbounded"

(***************************************************************************)
(* A jar and what is read out of it                                        *)
(***************************************************************************)
\* The version stands in mods.toml, or there is a placeholder for the manifest's
\* (0 if the manifest does not say) or for forge's own, which is not known here.
VersionKnown(jar) == jar.from \in {"toml", "manifest"}

\* Dependencies that are read: all but those of a mod on itself.
Foreign(jar) == {i \in DOMAIN jar.deps : jar.deps[i].id # jar.id}

Readable(jar) ==
  /\ jar.entries = 1
  /\ VersionKnown(jar)
  /\ \A i \in Foreign(jar) :
       /\ Parses(jar.deps[i].range)
       /\ \A j \in Foreign(jar) : j < i => jar.deps[j].id # jar.deps[i].id

\* Whether a dependency is mandatory, and on which side, is read but never used.
Parsed(jar) ==
  [id |-> jar.id, version |-> jar.version,
   deps |-> {[id |-> d.id, low |-> LowBound(d.range), high |-> HighBound(d.range)] :
              d \in {jar.deps[i] : i \in Foreign(jar)}}]

(***************************************************************************)
(* Pages                                                                   *)
(***************************************************************************)
Least(a, b) == IF a <= b THEN a ELSE b

Overflows(perPage, page) == perPage * page + perPage >= Width

\* A page that is not full is the last one.
FinishedWhenFull(start, end, perPage) == end - start <= perPage   \* variant
Finished(start, end, perPage)         == end - start < perPage

\* The sum and the product wrap around in a release build; a slice that would
\* end before it starts is a panic, as is any overflow in a debug build.
Page(mods, perPage, page) ==
  IF perPage = 0 THEN [panic |-> FALSE, mods |-> mods, finished |-> TRUE]
  ELSE LET offset == (perPage * page) % Width
           start  == Least(offset, Len(mods))
           end    == Least((offset + perPage) % Width, Len(mods))
       IN  IF end < start THEN [panic |-> TRUE, mods |-> << >>, finished |-> FALSE]
           ELSE [panic    |-> FALSE,
                 mods     |-> SubSeq(mods, start + 1, end),
                 finished |-> Finished(start, end, perPage)]

(***************************************************************************)
(* Dependencies                                                            *)
(***************************************************************************)
Has(mods, id)  == \E i \in DOMAIN mods : mods[i].id = id

\* The first one.
Find(mods, id) ==
  mods[CHOOSE i \in DOMAIN mods :
         mods[i].id = id /\ \A j \in DOMAIN mods : mods[j].id = id => i <= j]

\* sort_by the id, then dedup: only equal neighbours are found.
Duplicated(batch) ==
  \E i, j \in DOMAIN batch :
    /\ i < j /\ batch[i] = batch[j]
    /\ \A k \in i .. j : batch[k].id = batch[i].id => batch[k] = batch[i]

Invalid(batch) == Duplicated(batch) \/ \E i \in DOMAIN batch : batch[i].id \in Reserved

Refused(all, m, mode) ==
  CASE mode = "Installation" -> IF Has(all, m.id) THEN {<<m.id, "AlreadyInstalled">>} ELSE {}
    [] mode = "Removal"      -> IF Has(all, m.id) THEN {} ELSE {<<m.id, "AlreadyInstalled">>}
    [] mode = "Update"       -> IF ~Has(all, m.id) THEN {<<m.id, "NotInstalled">>}
                                ELSE IF m.version <= Find(all, m.id).version
                                     THEN {<<m.id, "AlreadyInstalled">>} ELSE {}

\* Variant: an update is added to what is there, a removal taken as done.
HypotheticalAdds(all, batch, mode) == IF mode = "Removal" THEN all ELSE all \o batch

\* Mods that are left after a removal keep their places; only their order counts.
Hypothetical(all, batch, mode) ==
  CASE mode = "Installation" -> all \o batch
    [] mode = "Removal"      -> [i \in {k \in DOMAIN all : ~Has(batch, all[k].id)} |-> all[i]]
    [] mode = "Update"       -> [i \in DOMAIN all |-> IF Has(batch, all[i].id)
                                                     THEN Find(batch, all[i].id) ELSE all[i]]

Unmet(mods, d) ==
  IF ~Has(mods, d.id) THEN {<<d.id, "NotInstalled">>}
  ELSE LET v == Find(mods, d.id).version
       IN  IF Above(v, d.low) /\ Below(v, d.high) THEN {} ELSE {<<d.id, "VersionMismatch">>}

AllUnmet(mods) == UNION {UNION {Unmet(mods, d) : d \in mods[i].deps} : i \in DOMAIN mods}

\* What is wrong with the change: nothing means DepSatisfied.
Unsatisfied(all, batch, mode) ==
  LET refused == UNION {Refused(all, batch[i], mode) : i \in DOMAIN batch}
  IN  IF Invalid(batch) THEN {<<"", "InvalidInput">>}
      ELSE IF refused # {} THEN refused
      ELSE AllUnmet(Hypothetical(all, batch, mode))
=============================================================================
