----------------------------- MODULE ModQueries -----------------------------
(***************************************************************************)
(* The questions about mods that the thread of a server answers without    *)
(* changing anything (ListMods, QueryMod and ResolveDeps of command,       *)
(* server_loop.rs), asked between any changes of the mods folder, and a    *)
(* reader that turns the pages of the list one after the other.            *)
(*                                                                         *)
(* Installing, updating and removing are modelled step by step, with the   *)
(* cache of the list, in ServerFiles; here the folder only changes.        *)
(***************************************************************************)
EXTENDS ModRules, FiniteSets

CONSTANTS Jars,      \* every jar that may be put in the mods folder
          Base,      \* the jars of minecraft and forge, which the list always has
          Sizes,     \* sizes of a page that are asked for
          Numbers,   \* numbers of pages that are asked for
          MaxBatch,  \* how many mods one ResolveDeps names
          MaxTurns,  \* bound: pages one reader turns
          MaxSkips,  \* bound: jars that one list lacks since reading them failed
          None

Modes == {"Installation", "Removal", "Update"}

ASSUME ReservedAssumption == /\ {j.id : j \in Base} = Reserved
                             /\ \A j, k \in Base : j.id = k.id => j = k
                             /\ \A j \in Jars : j.id \notin Reserved

\* What the metadata of a jar holds; list_mods fails if forge's own cannot be read.
IsJar(j) == /\ j.id \in Int /\ j.version \in Nat
            /\ j.deps \in Seq([id : Int, range : Ranges(Nat)])

ASSUME JarsAssumption == /\ \A j \in Jars \union Base : IsJar(j)
                         /\ \A j \in Base : Readable(j)

\* Sizes and numbers of pages are usizes, and so is the number of bytes that a list
\* of mods takes.
AllIds == {j.id : j \in Jars \union Base}

ASSUME SizeAssumption == /\ Sizes \subseteq 0 .. Width - 1 /\ Numbers \subseteq Nat
                         /\ MaxBatch \in Nat /\ MaxTurns \in Nat /\ MaxSkips \in Nat
                         /\ IsFiniteSet(AllIds) /\ 2 * Cardinality(AllIds) < Width

VARIABLES folder,  \* the jars in the mods folder
          opened,  \* those of them that could be read when the list was made
          answer,  \* the last question and what was answered, None once the folder changed
          walk     \* the reader of the pages

vars == <<folder, opened, answer, walk>>

\* list_mods: a jar whose metadata is rejected is passed over; ids are in order.
Listed(jars) ==
  LET all == {Parsed(j) : j \in Base \union {k \in jars : Readable(k)}}
  IN  [i \in 1 .. Cardinality(all) |->
         CHOOSE m \in all : Cardinality({n \in all : n.id < m.id}) = i - 1]

Ids(mods) == {mods[i].id : i \in DOMAIN mods}

Init == folder = {} /\ opened = {} /\ answer = None /\ walk = None

\* What install_mod, update_mod and uninstall_mod do in the end, or a restart of the
\* daemon, which leaves the folder alone: the list is made anew.  It lacks the jars
\* that could not be opened or read at that moment, and is kept all the same.  A
\* mod that gets into two jars because the list lacked one is left to ServerFiles.
\* A reader keeps turning pages: `kept` are the mods listed all the while.
FolderChanges ==
  \E new \in {folder} \union {folder \union {j} : j \in {k \in Jars : \A l \in folder : l.id # k.id}}
               \union {folder \ {j} : j \in folder}
               \union {(folder \ {p[1]}) \union {p[2]} :
                         p \in {q \in folder \X Jars : q[1].id = q[2].id}} :
    /\ folder' = new
    /\ opened' \in SUBSET new /\ Cardinality(new \ opened') <= MaxSkips
    /\ answer' = None
    /\ LET before == Ids(Listed(opened))  after == Ids(Listed(opened'))
       IN  walk' = IF walk = None THEN None
                   ELSE [walk EXCEPT !.kept = @ \intersect after,
                                     !.came = @ \/ ~(after \subseteq before),
                                     !.gone = @ \/ ~(before \subseteq after)]

\* An answer depends on nothing but the list, so one at a time is asked, and not
\* while the reader reads.
Free == answer = None /\ walk = None

ListMods(perPage, page) ==
  /\ Free
  /\ answer' = [question |-> "ListMods", perPage |-> perPage, page |-> page,
                reply |-> Page(Listed(opened), perPage, page)]
  /\ UNCHANGED <<folder, opened, walk>>

\* An id that is not listed is an error.
QueryMod(id) ==
  /\ Free
  /\ answer' = [question |-> "QueryMod", id |-> id,
                reply |-> IF Has(Listed(opened), id) THEN {Find(Listed(opened), id)} ELSE {}]
  /\ UNCHANGED <<folder, opened, walk>>

\* The one who asks has read the jars with the same parser.
ResolveDeps(batch, mode) ==
  /\ Free
  /\ \A i \in DOMAIN batch : Readable(batch[i])
  /\ answer' = [question |-> "ResolveDeps", batch |-> batch, mode |-> mode,
                reply |-> Unsatisfied(Listed(opened), [i \in DOMAIN batch |-> Parsed(batch[i])],
                                      mode)]
  /\ UNCHANGED <<folder, opened, walk>>

\* One reader at a time: page after page, until a page is the last.
OpenList(perPage) ==
  /\ Free
  /\ walk' = [perPage |-> perPage, page |-> 0, seen |-> << >>, done |-> FALSE,
              kept |-> Ids(Listed(opened)), came |-> FALSE, gone |-> FALSE]
  /\ UNCHANGED <<folder, opened, answer>>

TurnPage ==
  /\ walk # None /\ ~walk.done /\ walk.page < MaxTurns
  /\ LET p == Page(Listed(opened), walk.perPage, walk.page)
     IN  walk' = [walk EXCEPT !.page = @ + 1, !.done = p.finished,
                              !.seen = @ \o [i \in DOMAIN p.mods |-> p.mods[i].id]]
  /\ UNCHANGED <<folder, opened, answer>>

CloseList == walk # None /\ walk' = None /\ UNCHANGED <<folder, opened, answer>>

Batches == UNION {[1 .. n -> Jars \union Base] : n \in 1 .. MaxBatch}

Next ==
  \/ FolderChanges
  \/ \E perPage \in Sizes, page \in Numbers : ListMods(perPage, page)
  \/ \E id \in {j.id : j \in Jars \union Base} : QueryMod(id)
  \/ \E batch \in Batches, mode \in Modes : ResolveDeps(batch, mode)
  \/ \E perPage \in Sizes : OpenList(perPage)
  \/ TurnPage
  \/ CloseList

Spec == Init /\ [][Next]_vars

(***************************************************************************)
(* Properties                                                              *)
(***************************************************************************)
\* A reader who turned all the pages has seen every mod that was listed all the
\* while, unless a mod was removed under him, and none of them twice, unless one
\* was added; and if the list stayed the same he turned the pages it has and at
\* most one more, an empty one.
WalkSeesAll ==
  walk # None =>
    /\ walk.done /\ ~walk.gone => \A id \in walk.kept : \E i \in DOMAIN walk.seen : walk.seen[i] = id
    /\ ~walk.came => \A i, j \in DOMAIN walk.seen : i # j => walk.seen[i] # walk.seen[j]
    /\ ~walk.came /\ ~walk.gone /\ walk.perPage > 0 =>
         walk.page * walk.perPage <= Cardinality(walk.kept) + walk.perPage

\* What the text of a range means: a bound that is left out is no bound.
Means(r, v) ==
  /\ r.form = "single" => v = r.lo
  /\ r.form = "pair" =>
       /\ r.lo = 0 \/ v > r.lo \/ (v = r.lo /\ r.open = "[")
       /\ r.hi = 0 \/ v < r.hi \/ (v = r.hi /\ r.close = "]")

\* Two texts are misread: a "(" with nothing after it leaves out the empty version,
\* and of a union nobody can say which versions it leaves out.
Bare(r)   == IsPair(r) /\ r.open = "(" /\ r.lo = 0
Unions(j) == {i \in Foreign(j) : j.deps[i].range.form = "union"}

\* All that the jars of a set depend on is there, in a version they allow unless
\* they say so by a union.
Complete(jars) ==
  \A j \in jars : \A i \in Foreign(j) :
    \E k \in jars : /\ k.id = j.deps[i].id
                    /\ i \notin Unions(j) =>
                         /\ Means(j.deps[i].range, k.version)
                         /\ ~(Bare(j.deps[i].range) /\ k.version = 0)

\* The change a batch asks for, and whether there is anything in its way.
Applicable(jars, new, mode) ==
  \A j \in new :
    CASE mode = "Installation" -> \A k \in jars : k.id # j.id
      [] mode = "Removal"      -> \E k \in jars : k.id = j.id
      [] mode = "Update"       -> \E k \in jars : k.id = j.id /\ k.version < j.version

Changed(jars, new, mode) ==
  {k \in jars : mode = "Installation" \/ \A j \in new : j.id # k.id}
    \union IF mode = "Removal" THEN {} ELSE new

RightAnswer(a, jars) ==
  LET installed == Base \union {j \in jars : Readable(j)}
  IN  /\ a.question = "ResolveDeps" =>
           LET batch == a.batch
               new   == {batch[i] : i \in DOMAIN batch}
           IN  IF \E j \in new : j.id \in Reserved THEN a.reply # {}
               ELSE LET right == /\ Applicable(installed, new, a.mode)
                                 /\ Complete(Changed(installed, new, a.mode))
                    IN  (\A i, j \in DOMAIN batch : i # j => batch[i].id # batch[j].id) =>
                          /\ a.reply = {} => right
                          /\ right => \/ a.reply = {}
                                      \/ \E j \in Changed(installed, new, a.mode) : Unions(j) # {}
      /\ a.question = "ListMods" /\ ~Overflows(a.perPage, a.page) =>
           /\ ~a.reply.panic
           /\ {m.id : m \in {a.reply.mods[i] : i \in DOMAIN a.reply.mods}}
                = {j.id : j \in {k \in installed :
                    a.perPage = 0 \/
                    Cardinality({l \in installed : l.id < k.id}) \div a.perPage = a.page}}
      /\ a.question = "QueryMod" =>
           a.reply = {Parsed(j) : j \in {k \in installed : k.id = a.id}}

\* ResolveDeps says that a change is satisfied exactly if it can be made to the mods
\* that could be read and leaves nothing that depends on what is not there, as long
\* as the mods named are different ones; a batch that names minecraft or forge never
\* is.  Where a range is a union, the mod it is about must be there, but a change
\* may be called satisfied or refused wrongly (mod_parser.rs:386).  A page holds the
\* mods its number says, and only an overflow can make the answer a panic.
AnswersRight == answer # None => RightAnswer(answer, opened)
=============================================================================
