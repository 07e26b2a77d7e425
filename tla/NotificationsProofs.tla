------------------------ MODULE NotificationsProofs ------------------------
(***************************************************************************)
(* Proofs about Notifications, for any servers and accounts, any number of *)
(* changes and losses: every invariant of the run "notifications".         *)
(*                                                                         *)
(* A notification is pushed to the end of todo or of a queue, taken from   *)
(* the front of todo or of a batch, or replaced where it stands; the first *)
(* lemmas say what each of these does to what a sequence says.             *)
(***************************************************************************)
EXTENDS Notifications, SequenceTheorems, TLAPS

Copies == {"BackingUp", "Packaging"}

About(n, s) == n.kind = "status" /\ n.server = s

\* What a thread still pushes, and what can be in the queue of an account.
Own(s)     == {n \in Notices : n.server = s /\ n.kind # "progress"}
Allowed(a) == {n \in Notices : AccountOf[n.server] = a
                                 /\ (n.kind = "progress" => n.old \in Copies)}

LEMMA NoticeFacts ==
  ASSUME NEW n \in Notices
  PROVE  /\ n.kind \in {"status", "progress", "outcome"}
         /\ n.server \in Servers /\ n.old \in Status /\ n.new \in Status
         /\ n.kind \in {"progress", "outcome"} => n.old \in Works
  BY DEF Notices, Changed, Progress, Outcome, Status, Works

LEMMA ChangedIsNotice ==
  \A s \in Servers, o, n \in Status : Changed(s, o, n) \in Notices
  BY DEF Notices

LEMMA OwnAllowed ==
  ASSUME NEW s \in Servers
  PROVE  Own(s) \subseteq Allowed(AccountOf[s]) /\ Own(s) \subseteq Notices
  BY DEF Own, Allowed

-----------------------------------------------------------------------------
(***************************************************************************)
(* Chains of changes                                                       *)
(***************************************************************************)
LEMMA LeadsEmpty ==
  \A s, x, y : Leads(<< >>, s, x, y) <=> x = y
  BY DEF Leads

LEMMA LeadsAppendOther ==
  ASSUME NEW q \in Seq(Notices), NEW n \in Notices, NEW s, NEW x, NEW y,
         ~About(n, s), Leads(q, s, x, y)
  PROVE  Leads(Append(q, n), s, x, y)
<1> DEFINE r == Append(q, n)
           steps == {i \in DOMAIN q : q[i].kind = "status" /\ q[i].server = s}
<1>1. /\ DOMAIN q = 1 .. Len(q) /\ DOMAIN r = 1 .. Len(q) + 1 /\ Len(q) \in Nat
      /\ \A i \in DOMAIN q : r[i] = q[i]
      /\ r[Len(q) + 1] = n
  OBVIOUS
<1> HIDE DEF r
<1>2. steps = {i \in DOMAIN r : r[i].kind = "status" /\ r[i].server = s}
  BY <1>1 DEF About
<1>3. \A i \in steps : r[i] = q[i]
  BY <1>1
<1> QED
  BY <1>2, <1>3 DEF Leads, r

LEMMA LeadsAppend ==
  ASSUME NEW q \in Seq(Notices), NEW n \in Notices, NEW s, NEW x, NEW y,
         About(n, s), n.old = y, Leads(q, s, x, y)
  PROVE  Leads(Append(q, n), s, x, n.new)
<1> DEFINE r == Append(q, n)
           m == Len(q) + 1
           old == {i \in DOMAIN q : q[i].kind = "status" /\ q[i].server = s}
           new == {i \in DOMAIN r : r[i].kind = "status" /\ r[i].server = s}
<1>1. /\ DOMAIN q = 1 .. Len(q) /\ DOMAIN r = 1 .. m /\ Len(q) \in Nat
      /\ \A i \in DOMAIN q : r[i] = q[i]
      /\ r[m] = n
  OBVIOUS
<1> HIDE DEF r
<1>2. /\ new = old \union {m}
      /\ \A i \in old : i \in Nat /\ i < m /\ r[i] = q[i]
      /\ m \in Nat
  BY <1>1 DEF About
<1>3. /\ old = {} => x = y
      /\ \A i \in old : /\ (\A j \in old : i <= j) => q[i].old = x
                        /\ (\A j \in old : j <= i) => q[i].new = y
      /\ \A i, j \in old : (i < j /\ \A k \in old : k <= i \/ j <= k) => q[i].new = q[j].old
  BY DEF Leads
<1> HIDE DEF old, m
<1>4. ASSUME NEW i \in new
      PROVE  /\ (\A j \in new : i <= j) => r[i].old = x
             /\ (\A j \in new : j <= i) => r[i].new = n.new
  BY <1>1, <1>2, <1>3
<1>5. ASSUME NEW i \in new, NEW j \in new, i < j, \A k \in new : k <= i \/ j <= k
      PROVE  r[i].new = r[j].old
  <2>1. i \in old
    BY <1>2, <1>5
  <2>2. CASE j \in old
    BY <2>1, <2>2, <1>2, <1>3, <1>5
  <2>3. CASE j = m
    <3>1. \A k \in old : k <= i
      BY <2>1, <2>3, <1>2, <1>5
    <3> QED
      BY <2>1, <2>3, <3>1, <1>1, <1>2, <1>3
  <2> QED
    BY <2>2, <2>3, <1>2
<1>6. new # {}
  BY <1>2
<1> QED
  BY <1>4, <1>5, <1>6 DEF Leads, r

LEMMA TailFacts ==
  ASSUME NEW S, NEW q \in Seq(S), q # << >>
  PROVE  /\ Tail(q) \in Seq(S) /\ Head(q) \in S /\ Head(q) = q[1]
         /\ Len(q) \in Nat /\ Len(q) >= 1
         /\ DOMAIN q = 1 .. Len(q) /\ DOMAIN Tail(q) = 1 .. Len(q) - 1
         /\ \A i \in 1 .. Len(q) - 1 : Tail(q)[i] = q[i + 1]
  OBVIOUS

LEMMA LeadsTail ==
  ASSUME NEW q \in Seq(Notices), q # << >>, NEW s, NEW x, NEW y, Leads(q, s, x, y)
  PROVE  /\ ~About(Head(q), s) => Leads(Tail(q), s, x, y)
         /\ About(Head(q), s) => Head(q).old = x /\ Leads(Tail(q), s, Head(q).new, y)
<1> DEFINE r == Tail(q)
           old == {i \in DOMAIN q : q[i].kind = "status" /\ q[i].server = s}
           new == {i \in DOMAIN r : r[i].kind = "status" /\ r[i].server = s}
<1>1. /\ Head(q) = q[1] /\ Len(q) \in Nat /\ Len(q) >= 1
      /\ DOMAIN q = 1 .. Len(q) /\ DOMAIN r = 1 .. Len(q) - 1
      /\ \A i \in 1 .. Len(q) - 1 : r[i] = q[i + 1]
  BY TailFacts
<1> HIDE DEF r
<1>2. /\ \A i \in new : i \in Nat /\ i >= 1 /\ i + 1 \in old /\ r[i] = q[i + 1]
      /\ \A i \in old : i \in Nat /\ i >= 1 /\ (i # 1 => i - 1 \in new)
      /\ 1 \in old <=> About(Head(q), s)
  BY <1>1 DEF About
<1>3. /\ old = {} => x = y
      /\ \A i \in old : /\ (\A j \in old : i <= j) => q[i].old = x
                        /\ (\A j \in old : j <= i) => q[i].new = y
      /\ \A i, j \in old : (i < j /\ \A k \in old : k <= i \/ j <= k) => q[i].new = q[j].old
  BY DEF Leads
<1> HIDE DEF old, new
<1>4. ASSUME NEW i \in new, NEW j \in new, i < j, \A k \in new : k <= i \/ j <= k
      PROVE  r[i].new = r[j].old
  <2>1. /\ i + 1 \in old /\ j + 1 \in old /\ i + 1 < j + 1
        /\ r[i] = q[i + 1] /\ r[j] = q[j + 1]
    BY <1>2, <1>4
  <2>2. \A k \in old : k <= i + 1 \/ j + 1 <= k
    <3> SUFFICES ASSUME NEW k \in old
                 PROVE  k <= i + 1 \/ j + 1 <= k
      OBVIOUS
    <3>1. CASE k = 1
      BY <3>1, <1>2
    <3>2. CASE k # 1
      <4>1. k - 1 \in new /\ k \in Nat /\ i \in Nat /\ j \in Nat
        BY <3>2, <1>2
      <4>2. k - 1 <= i \/ j <= k - 1
        BY <4>1, <1>4
      <4> QED
        BY <4>1, <4>2
    <3> QED
      BY <3>1, <3>2
  <2> QED
    BY <2>1, <2>2, <1>3
<1>5. ASSUME NEW i \in new, \A j \in new : j <= i
      PROVE  r[i].new = y
  <2>1. \A j \in old : j <= i + 1
    BY <1>2, <1>5
  <2> QED
    BY <2>1, <1>2, <1>3
<1>6. CASE ~About(Head(q), s)
  <2>1. ASSUME NEW i \in new, \A j \in new : i <= j
        PROVE  r[i].old = x
    <3>1. \A j \in old : i + 1 <= j
      BY <1>2, <1>6, <2>1
    <3> QED
      BY <3>1, <1>2, <1>3
  <2>2. new = {} => x = y
    BY <1>2, <1>3, <1>6
  <2> QED
    BY <1>4, <1>5, <1>6, <2>1, <2>2 DEF Leads, r, new
<1>7. CASE About(Head(q), s)
  <2>1. \A j \in old : 1 <= j
    BY <1>2
  <2>2. q[1].old = x
    BY <1>2, <1>3, <1>7, <2>1
  <2>3. ASSUME NEW i \in new, \A j \in new : i <= j
        PROVE  r[i].old = q[1].new
    <3>1. \A k \in old : k <= 1 \/ i + 1 <= k
      BY <1>2, <2>3
    <3>2. 1 \in old /\ i + 1 \in old /\ 1 < i + 1
      BY <1>2, <1>7
    <3> QED
      BY <3>1, <3>2, <1>2, <1>3
  <2>4. new = {} => q[1].new = y
    <3> SUFFICES ASSUME new = {}
                 PROVE  q[1].new = y
      OBVIOUS
    <3>1. \A j \in old : j <= 1
      BY <1>2
    <3> QED
      BY <3>1, <1>2, <1>3, <1>7
  <2> QED
    BY <1>1, <1>4, <1>5, <1>7, <2>2, <2>3, <2>4 DEF Leads, r, new
<1> QED
  BY <1>6, <1>7

LEMMA LeadsReplace ==
  ASSUME NEW q \in Seq(Notices), NEW i \in DOMAIN q, NEW n \in Notices, NEW s, NEW x, NEW y,
         q[i].kind = "progress", n.kind = "progress", Leads(q, s, x, y)
  PROVE  Leads([q EXCEPT ![i] = n], s, x, y)
<1> DEFINE r == [q EXCEPT ![i] = n]
           steps == {j \in DOMAIN q : q[j].kind = "status" /\ q[j].server = s}
<1>1. /\ DOMAIN r = DOMAIN q /\ r[i] = n
      /\ \A j \in DOMAIN q : j # i => r[j] = q[j]
  OBVIOUS
<1> HIDE DEF r
<1>2. steps = {j \in DOMAIN r : r[j].kind = "status" /\ r[j].server = s}
  BY <1>1
<1>3. \A j \in steps : r[j] = q[j]
  BY <1>1
<1> QED
  BY <1>2, <1>3 DEF Leads, r

-----------------------------------------------------------------------------
(***************************************************************************)
(* Messages and what closes them                                           *)
(***************************************************************************)
\* The message of a copy is closed by the next status, that of a zip by its end.
Closes(n, w) ==
  IF w = "BackingUp" THEN n.kind = "status" /\ n.new # "Restoring"
  ELSE n.kind = "outcome" /\ n.old = "Packaging"

Closer(n, s, w) == n.server = s /\ Closes(n, w)
Opener(n, s, w) == n.server = s /\ n.kind = "progress" /\ n.old = w

HasCloser(q, s, w) == \E i \in DOMAIN q : Closer(q[i], s, w)

AllClosed(q, s, w) ==
  \A i \in DOMAIN q : Opener(q[i], s, w) =>
    \E j \in DOMAIN q : i < j /\ Closer(q[j], s, w)

LEMMA ClosedEmpty ==
  \A s, w : ~HasCloser(<< >>, s, w) /\ AllClosed(<< >>, s, w)
  BY DEF HasCloser, AllClosed

LEMMA NotBoth ==
  \A n, s, w : ~(Opener(n, s, w) /\ Closer(n, s, w))
  BY DEF Opener, Closer, Closes

LEMMA ClosedAppend ==
  ASSUME NEW S, NEW q \in Seq(S), NEW n \in S, NEW s, NEW w
  PROVE  /\ HasCloser(q, s, w) \/ Closer(n, s, w) <=> HasCloser(Append(q, n), s, w)
         /\ Closer(n, s, w) => AllClosed(Append(q, n), s, w)
         /\ ~Opener(n, s, w) /\ AllClosed(q, s, w) => AllClosed(Append(q, n), s, w)
<1> DEFINE r == Append(q, n)
           m == Len(q) + 1
<1>1. /\ DOMAIN q = 1 .. Len(q) /\ DOMAIN r = 1 .. m /\ Len(q) \in Nat
      /\ \A i \in DOMAIN q : r[i] = q[i]
      /\ r[m] = n
  OBVIOUS
<1> HIDE DEF r
<1>2. /\ DOMAIN r = DOMAIN q \union {m} /\ m \in Nat
      /\ \A i \in DOMAIN q : i \in Nat /\ i < m
  BY <1>1
<1> HIDE DEF m
<1>3. HasCloser(q, s, w) \/ Closer(n, s, w) <=> HasCloser(r, s, w)
  BY <1>1, <1>2 DEF HasCloser
<1>4. Closer(n, s, w) => AllClosed(r, s, w)
  <2> SUFFICES ASSUME Closer(n, s, w), NEW i \in DOMAIN r, Opener(r[i], s, w)
               PROVE  \E j \in DOMAIN r : i < j /\ Closer(r[j], s, w)
    BY DEF AllClosed
  <2>1. i # m
    BY <1>1, NotBoth
  <2> QED
    BY <2>1, <1>1, <1>2
<1>5. ~Opener(n, s, w) /\ AllClosed(q, s, w) => AllClosed(r, s, w)
  BY <1>1, <1>2 DEF AllClosed
<1> QED
  BY <1>3, <1>4, <1>5 DEF r

LEMMA ClosedTail ==
  ASSUME NEW S, NEW q \in Seq(S), q # << >>, NEW s, NEW w
  PROVE  /\ HasCloser(q, s, w) => Closer(Head(q), s, w) \/ HasCloser(Tail(q), s, w)
         /\ AllClosed(q, s, w) => AllClosed(Tail(q), s, w)
         /\ AllClosed(q, s, w) /\ Opener(Head(q), s, w) => HasCloser(Tail(q), s, w)
<1> DEFINE r == Tail(q)
<1>1. /\ Head(q) = q[1] /\ Len(q) \in Nat /\ Len(q) >= 1
      /\ DOMAIN q = 1 .. Len(q) /\ DOMAIN r = 1 .. Len(q) - 1
      /\ \A i \in 1 .. Len(q) - 1 : r[i] = q[i + 1]
  BY TailFacts
<1> HIDE DEF r
<1>2. /\ \A i \in DOMAIN r : i \in Nat /\ i >= 1 /\ i + 1 \in DOMAIN q /\ r[i] = q[i + 1]
      /\ \A i \in DOMAIN q : /\ i \in Nat /\ i >= 1
                             /\ i # 1 => i - 1 \in DOMAIN r /\ r[i - 1] = q[i]
      /\ 1 \in DOMAIN q
  BY <1>1
<1>3. \A j \in DOMAIN q : 1 < j /\ Closer(q[j], s, w) => HasCloser(r, s, w)
  BY <1>2 DEF HasCloser
<1>4. HasCloser(q, s, w) => Closer(Head(q), s, w) \/ HasCloser(r, s, w)
  <2> SUFFICES ASSUME NEW j \in DOMAIN q, Closer(q[j], s, w), j # 1
               PROVE  HasCloser(r, s, w)
    BY <1>1 DEF HasCloser
  <2>1. 1 < j
    BY <1>2
  <2> QED
    BY <2>1, <1>3
<1>5. AllClosed(q, s, w) => AllClosed(r, s, w)
  <2> SUFFICES ASSUME AllClosed(q, s, w), NEW i \in DOMAIN r, Opener(r[i], s, w)
               PROVE  \E j \in DOMAIN r : i < j /\ Closer(r[j], s, w)
    BY DEF AllClosed
  <2>1. PICK j \in DOMAIN q : i + 1 < j /\ Closer(q[j], s, w)
    BY <1>2 DEF AllClosed
  <2>2. j - 1 \in DOMAIN r /\ r[j - 1] = q[j] /\ i < j - 1
    BY <2>1, <1>2
  <2> QED
    BY <2>1, <2>2
<1>6. AllClosed(q, s, w) /\ Opener(Head(q), s, w) => HasCloser(r, s, w)
  BY <1>1, <1>2, <1>3 DEF AllClosed
<1> QED
  BY <1>4, <1>5, <1>6 DEF r

\* Progress that is replaced was no closer, nor is what replaces it.
LEMMA ClosedReplace ==
  ASSUME NEW S, NEW q \in Seq(S), NEW i \in DOMAIN q, NEW n \in S, NEW s, NEW w,
         q[i].kind = "progress", n.kind = "progress"
  PROVE  /\ HasCloser(q, s, w) => HasCloser([q EXCEPT ![i] = n], s, w)
         /\ ~Opener(n, s, w) /\ AllClosed(q, s, w) => AllClosed([q EXCEPT ![i] = n], s, w)
<1> DEFINE r == [q EXCEPT ![i] = n]
<1>1. /\ DOMAIN r = DOMAIN q /\ r[i] = n
      /\ \A j \in DOMAIN q : j # i => r[j] = q[j]
  OBVIOUS
<1> HIDE DEF r
<1>2. ~Closer(q[i], s, w)
  BY DEF Closer, Closes
<1>3. \A j \in DOMAIN q : Closer(q[j], s, w) => Closer(r[j], s, w)
  BY <1>1, <1>2
<1> QED
  BY <1>1, <1>3 DEF HasCloser, AllClosed, r

-----------------------------------------------------------------------------
(***************************************************************************)
(* The invariant                                                           *)
(***************************************************************************)
\* Who pushes what, and where it goes; no progress of a restoration gets there.
Sorted ==
  /\ \A s \in Servers : todo[s] \in Seq(Own(s))
  /\ \A a \in Accounts : queue[a] \in Seq(Allowed(a)) /\ batch[a] \in Seq(Allowed(a))
  /\ \A s \in Servers : pc[s] = "work" => status[s] \in Works

Chain(s) ==
  \E handled, taken, queued \in Status :
    /\ s \notin unseen => handled = told[s]
    /\ Leads(batch[AccountOf[s]], s, handled, taken)
    /\ Leads(queue[AccountOf[s]], s, taken, queued)
    /\ Leads(todo[s], s, queued, status[s])

\* What opens a message of s is followed by what closes it, on whatever part of
\* the way each of them is.
Shut(s, w) ==
  LET a == AccountOf[s] IN
    /\ AllClosed(queue[a], s, w) \/ HasCloser(todo[s], s, w)
    /\ AllClosed(batch[a], s, w) \/ HasCloser(queue[a], s, w) \/ HasCloser(todo[s], s, w)
    /\ \/ Group(w) \notin open[s]
       \/ HasCloser(batch[a], s, w) \/ HasCloser(queue[a], s, w) \/ HasCloser(todo[s], s, w)

UnderWay(s, w) == pc[s] = "work" /\ status[s] = w

Shutting ==
  /\ \A s \in Servers : "backup" \notin open[s]
  /\ \A s \in Servers, w \in Copies :
       AccountOf[s] \notin lost => UnderWay(s, w) \/ Shut(s, w)

NotifInv == NotifTypeOK /\ Sorted /\ StatusChain /\ OneProgressPerKind /\ Shutting

LEMMA ChainIs == StatusChain <=> \A s \in Servers : AccountOf[s] \notin lost => Chain(s)
  BY DEF StatusChain, Chain

LEMMA AccountFact == \A s \in Servers : AccountOf[s] \in Accounts
  BY AccountAssumption

LEMMA WorkStatus == /\ Works \subseteq Status /\ "Idle" \in Status /\ "Idle" \notin Works
                    /\ Jobs \subseteq Works /\ Quiet \subseteq Status
                    /\ Copies \subseteq Works
  BY JobsAssumption, QuietAssumption DEF Status, Works, Copies

Contains(q, n) == \E i \in DOMAIN q : q[i] = n

\* What update_status leaves to be pushed, with the outcome that may follow.
LEMMA SwapTodo ==
  ASSUME NotifInv, NEW s \in Servers, NEW new \in Status, NEW andThen,
         andThen = << >> \/ \E w \in Works : andThen = <<Outcome(s, w)>>,
         todo[s] = << >>, Swap(s, new, andThen)
  PROVE  /\ status' = [status EXCEPT ![s] = new]
         /\ \A u \in Servers : u # s => todo'[u] = todo[u]
         /\ todo'[s] \in Seq(Own(s))
         /\ Leads(todo'[s], s, status[s], new)
         /\ new # status[s] => Contains(todo'[s], Changed(s, status[s], new))
         /\ \A w \in Works :
              andThen = <<Outcome(s, w)>> => Contains(todo'[s], Outcome(s, w))
<1> DEFINE c == Changed(s, status[s], new)
<1>1. todo \in [Servers -> Seq(Notices)] /\ status[s] \in Status
  BY DEF NotifInv, NotifTypeOK
<1>2. /\ status' = [status EXCEPT ![s] = new]
      /\ \A u \in Servers : u # s => todo'[u] = todo[u]
      /\ todo'[s] = (IF status[s] = new THEN << >> ELSE <<c>>) \o andThen
  BY <1>1 DEF Swap
<1>3. c \in Own(s) /\ About(c, s) /\ c.old = status[s] /\ c.new = new
  <2>1. c \in Notices
    BY <1>1, ChangedIsNotice
  <2>2. c.kind = "status" /\ c.server = s /\ c.old = status[s] /\ c.new = new
    BY DEF Changed
  <2> QED
    BY <2>1, <2>2 DEF Own, About
<1>4. \A w \in Works : Outcome(s, w) \in Own(s) /\ ~About(Outcome(s, w), s)
  BY DEF Own, Notices, Outcome, About
<1>5. Leads(<< >>, s, status[s], status[s])
  BY LeadsEmpty
<1>8. << >> \in Seq(Notices)
  OBVIOUS
<1> HIDE DEF c
<1>6. CASE andThen = << >>
  <2>1. CASE status[s] = new
    <3>1. todo'[s] = << >>
      BY <1>2, <1>6, <2>1
    <3> QED
      BY <3>1, <1>2, <1>5, <1>6, <2>1
  <2>2. CASE status[s] # new
    <3>1. todo'[s] = <<c>> /\ <<c>> = Append(<< >>, c)
      BY <1>2, <1>6, <2>2
    <3>2. Leads(Append(<< >>, c), s, status[s], new)
      BY <1>3, <1>5, <1>8, LeadsAppend, OwnAllowed
    <3>3. <<c>> \in Seq(Own(s)) /\ Contains(<<c>>, c)
      BY <1>3 DEF Contains
    <3> QED
      BY <3>1, <3>2, <3>3, <1>2, <1>6 DEF c
  <2> QED
    BY <2>1, <2>2
<1>7. ASSUME NEW w \in Works, andThen = <<Outcome(s, w)>>
      PROVE  /\ todo'[s] \in Seq(Own(s))
             /\ Leads(todo'[s], s, status[s], new)
             /\ new # status[s] => Contains(todo'[s], c)
             /\ Contains(todo'[s], Outcome(s, w))
  <2> DEFINE o == Outcome(s, w)
  <2>1. o \in Own(s) /\ o \in Notices /\ ~About(o, s)
    BY <1>4, OwnAllowed
  <2>0. andThen = <<o>>
    BY <1>7
  <2> HIDE DEF o
  <2>2. CASE status[s] = new
    <3>1. todo'[s] = <<o>> /\ <<o>> = Append(<< >>, o)
      BY <1>2, <2>0, <2>2
    <3>2. Leads(Append(<< >>, o), s, status[s], new)
      BY <2>1, <2>2, <1>5, <1>8, LeadsAppendOther
    <3>3. <<o>> \in Seq(Own(s)) /\ Contains(<<o>>, o)
      BY <2>1 DEF Contains
    <3> QED
      BY <3>1, <3>2, <3>3, <2>2 DEF o
  <2>3. CASE status[s] # new
    <3>1. todo'[s] = <<c, o>> /\ <<c, o>> = Append(Append(<< >>, c), o)
      <4>1. <<c, o>> = Append(<<c>>, o) /\ <<c>> = Append(<< >>, c) /\ <<c>> \in Seq({c, o})
        OBVIOUS
      <4>2. <<c>> \o <<o>> = Append(<<c>>, o)
        BY <4>1, AppendIsConcat
      <4> QED
        BY <4>1, <4>2, <1>2, <2>0, <2>3
    <3>2. Leads(Append(<< >>, c), s, status[s], new)
      BY <1>3, <1>5, <1>8, LeadsAppend, OwnAllowed
    <3>3. Append(<< >>, c) \in Seq(Notices)
      BY <1>3, OwnAllowed
    <3>4. Leads(Append(Append(<< >>, c), o), s, status[s], new)
      BY <2>1, <3>2, <3>3, LeadsAppendOther
    <3>5. <<c, o>> \in Seq(Own(s)) /\ Contains(<<c, o>>, c) /\ Contains(<<c, o>>, o)
      <4>1. /\ 1 \in DOMAIN <<c, o>> /\ <<c, o>>[1] = c
            /\ 2 \in DOMAIN <<c, o>> /\ <<c, o>>[2] = o
        OBVIOUS
      <4> QED
        BY <4>1, <1>3, <2>1 DEF Contains
    <3> QED
      BY <3>1, <3>4, <3>5 DEF o
  <2> QED
    BY <2>2, <2>3
<1>9. /\ todo'[s] \in Seq(Own(s))
      /\ Leads(todo'[s], s, status[s], new)
      /\ new # status[s] => Contains(todo'[s], c)
  BY <1>6, <1>7 DEF c
<1>10. ASSUME NEW w \in Works, andThen = <<Outcome(s, w)>>
       PROVE  Contains(todo'[s], Outcome(s, w))
  BY <1>7, <1>10
<1> QED
  BY <1>2, <1>9, <1>10 DEF c

\* A step that sets a status of one thread keeps the invariant, if what it leaves
\* to be pushed closes the message of a work that it ends.
LEMMA SwapStep ==
  ASSUME NotifInv, NEW s \in Servers, NEW new \in Status, NEW andThen,
         andThen = << >> \/ \E w \in Works : andThen = <<Outcome(s, w)>>,
         ~Waiting(s), Swap(s, new, andThen),
         pc' \in [Servers -> {"rest", "work", "locked"}],
         \A u \in Servers : u # s => pc'[u] = pc[u],
         pc'[s] = "work" => new \in Works,
         changes' \in 0 .. MaxChanges,
         UNCHANGED <<lock, queue, bot>>,
         \A w \in Copies : UnderWay(s, w) => HasCloser(todo'[s], s, w)
  PROVE  NotifInv'
<1>1. todo[s] = << >> /\ status[s] \in Status
  BY DEF Waiting, NotifInv, NotifTypeOK
<1>2. /\ status' = [status EXCEPT ![s] = new]
      /\ \A u \in Servers : u # s => todo'[u] = todo[u]
      /\ todo'[s] \in Seq(Own(s))
      /\ Leads(todo'[s], s, status[s], new)
  BY <1>1, SwapTodo
<1>3. UNCHANGED <<lock, queue, batch, open, told, unseen, lost, losses>>
  BY DEF bot
<1>4. status' \in [Servers -> Status] /\ status'[s] = new
      /\ \A u \in Servers : u # s => status'[u] = status[u]
  BY <1>2 DEF NotifInv, NotifTypeOK
<1>5. todo' \in [Servers -> Seq(Notices)]
  <2>1. todo' = [todo EXCEPT ![s] = todo'[s]]
    BY DEF Swap, NotifInv, NotifTypeOK
  <2>2. todo'[s] \in Seq(Notices)
    BY <1>2, OwnAllowed, SeqMonotonic
  <2> QED
    BY <2>1, <2>2 DEF NotifInv, NotifTypeOK
<1>6. NotifTypeOK'
  BY <1>3, <1>4, <1>5 DEF NotifInv, NotifTypeOK
<1>7. Sorted'
  BY <1>2, <1>3, <1>4 DEF NotifInv, Sorted, Own, Allowed
<1>8. StatusChain'
  <2> SUFFICES ASSUME NEW u \in Servers, AccountOf[u] \notin lost
               PROVE  Chain(u)'
    BY <1>3, ChainIs DEF StatusChain, Chain
  <2>1. Chain(u)
    BY ChainIs DEF NotifInv
  <2>2. CASE u = s
    <3>1. PICK handled \in Status, taken \in Status, queued \in Status :
            /\ s \notin unseen => handled = told[s]
            /\ Leads(batch[AccountOf[s]], s, handled, taken)
            /\ Leads(queue[AccountOf[s]], s, taken, queued)
            /\ Leads(todo[s], s, queued, status[s])
      BY <2>1, <2>2 DEF Chain
    <3>2. queued = status[s]
      BY <3>1, <1>1, LeadsEmpty
    <3> QED
      BY <3>1, <3>2, <2>2, <1>2, <1>3, <1>4 DEF Chain
  <2>3. CASE u # s
    BY <2>1, <2>3, <1>2, <1>3, <1>4 DEF Chain
  <2> QED
    BY <2>2, <2>3
<1>9. OneProgressPerKind'
  BY <1>3 DEF NotifInv, OneProgressPerKind, SameProgress
<1>10. Shutting'
  <2>1. \A u \in Servers : "backup" \notin open'[u]
    BY <1>3 DEF NotifInv, Shutting
  <2>2. ASSUME NEW u \in Servers, NEW w \in Copies, AccountOf[u] \notin lost'
        PROVE  UnderWay(u, w)' \/ Shut(u, w)'
    <3>1. UnderWay(u, w) \/ Shut(u, w)
      BY <2>2, <1>3 DEF NotifInv, Shutting
    <3>2. CASE u # s
      BY <3>1, <3>2, <1>2, <1>3, <1>4 DEF UnderWay, Shut
    <3>3. CASE u = s
      <4>1. CASE HasCloser(todo'[s], s, w)
        BY <4>1, <3>3, <1>3 DEF Shut
      <4>2. CASE ~UnderWay(s, w)
        <5>1. ~HasCloser(todo[s], s, w)
          BY <1>1, ClosedEmpty
        <5> QED
          BY <5>1, <4>2, <3>1, <3>3, <1>3 DEF Shut
      <4> QED
        BY <4>1, <4>2
    <3> QED
      BY <3>2, <3>3
  <2> QED
    BY <2>1, <2>2 DEF Shutting
<1> QED
  BY <1>6, <1>7, <1>8, <1>9, <1>10 DEF NotifInv

-----------------------------------------------------------------------------
(***************************************************************************)
(* The threads                                                             *)
(***************************************************************************)
LEMMA SpendKeeps ==
  ASSUME NotifTypeOK, Spend
  PROVE  changes' \in 0 .. MaxChanges
  BY BoundAssumption DEF NotifTypeOK, Spend

\* A thread at rest sets a status: no work of its own is under way.
LEMMA RestStep ==
  ASSUME NotifInv, NEW s \in Servers,
         \/ \E w \in Jobs : Begin(s, w) \/ Skip(s, w)
         \/ \E new \in Quiet \union {"Idle"} : Move(s, new)
  PROVE  NotifInv'
<1>1. \A w : ~UnderWay(s, w)
  BY DEF Begin, Move, Skip, UnderWay
<1>2. pc \in [Servers -> {"rest", "work", "locked"}] /\ changes \in 0 .. MaxChanges
  BY DEF NotifInv, NotifTypeOK
<1>3. ASSUME NEW w \in Jobs, Begin(s, w)
      PROVE  NotifInv'
  <2>1. /\ ~Waiting(s) /\ Swap(s, w, << >>) /\ changes' \in 0 .. MaxChanges
        /\ UNCHANGED <<lock, queue, bot>>
        /\ pc' = [pc EXCEPT ![s] = "work"]
    BY <1>3, SpendKeeps DEF Begin, NotifInv
  <2>2. /\ pc' \in [Servers -> {"rest", "work", "locked"}]
        /\ \A u \in Servers : u # s => pc'[u] = pc[u]
    BY <2>1, <1>2
  <2> QED
    BY <2>1, <2>2, <1>1, WorkStatus, SwapStep
<1>4. ASSUME NEW new \in Quiet \union {"Idle"}, Move(s, new)
      PROVE  NotifInv'
  <2>1. /\ ~Waiting(s) /\ Swap(s, new, << >>) /\ changes' \in 0 .. MaxChanges
        /\ UNCHANGED <<lock, queue, bot>>
        /\ pc' = pc /\ pc[s] = "rest"
    BY <1>2, <1>4, SpendKeeps DEF Move, NotifInv
  <2> QED
    BY <2>1, <1>1, <1>2, WorkStatus, SwapStep
<1>5. ASSUME NEW w \in Jobs, Skip(s, w)
      PROVE  NotifInv'
  <2>1. /\ ~Waiting(s) /\ Swap(s, "Idle", <<Outcome(s, w)>>) /\ changes' \in 0 .. MaxChanges
        /\ UNCHANGED <<lock, queue, bot>>
        /\ pc' = pc /\ pc[s] = "rest"
    BY <1>5, SpendKeeps DEF Skip, NotifInv
  <2>2. w \in Works /\ "Idle" \in Status
    BY WorkStatus
  <2> QED
    BY <2>1, <2>2, <1>1, <1>2, SwapStep
<1> QED
  BY <1>3, <1>4, <1>5

\* What is pushed when a work ends closes its message: Idle that of a copy, and
\* a zip always has an outcome.
LEMMA EndStep ==
  ASSUME NotifInv, NEW s \in Servers, End(s)
  PROVE  NotifInv'
<1>1. PICK result \in {<<Outcome(s, status[s])>>} \union
                        (IF status[s] = "Packaging" THEN {} ELSE {<< >>}) :
        Swap(s, "Idle", result)
  BY DEF End, EndFirst
<1>2. /\ pc[s] = "work" /\ ~Waiting(s) /\ pc' = [pc EXCEPT ![s] = "rest"]
      /\ UNCHANGED <<changes, lock, queue, bot>>
  BY DEF End, EndFirst
<1>3. /\ status[s] \in Works /\ status[s] # "Idle"
      /\ result = << >> \/ result = <<Outcome(s, status[s])>>
  BY <1>1, <1>2, WorkStatus DEF NotifInv, Sorted
<1>4. \A w \in Copies : UnderWay(s, w) => HasCloser(todo'[s], s, w)
  <2> SUFFICES ASSUME NEW w \in Copies, status[s] = w
               PROVE  HasCloser(todo'[s], s, w)
    BY DEF UnderWay
  <2>1. /\ Contains(todo'[s], Changed(s, status[s], "Idle"))
        /\ result = <<Outcome(s, status[s])>> => Contains(todo'[s], Outcome(s, status[s]))
    <3>1. todo[s] = << >> /\ "Idle" \in Status
      BY <1>2, WorkStatus DEF Waiting
    <3>2. result = << >> \/ \E v \in Works : result = <<Outcome(s, v)>>
      BY <1>3
    <3> QED
      BY <1>1, <1>3, <3>1, <3>2, SwapTodo
  <2>2. CASE w = "BackingUp"
    <3>1. Closer(Changed(s, status[s], "Idle"), s, w)
      BY <2>2 DEF Closer, Closes, Changed
    <3> QED
      BY <3>1, <2>1 DEF HasCloser, Contains
  <2>3. CASE w = "Packaging"
    <3>1. Closer(Outcome(s, status[s]), s, w)
      BY <2>3 DEF Closer, Closes, Outcome
    <3>2. result = <<Outcome(s, status[s])>>
      BY <2>3, <1>1
    <3> QED
      BY <3>1, <3>2, <2>1 DEF HasCloser, Contains
  <2> QED
    BY <2>2, <2>3 DEF Copies
<1>5. /\ pc' \in [Servers -> {"rest", "work", "locked"}]
      /\ \A u \in Servers : u # s => pc'[u] = pc[u]
      /\ pc'[s] # "work"
      /\ changes' \in 0 .. MaxChanges
  BY <1>2 DEF NotifInv, NotifTypeOK
<1> QED
  BY <1>1, <1>2, <1>3, <1>4, <1>5, WorkStatus, SwapStep

\* A notification moves from the end of what is to be pushed to that of the queue.
LEMMA PushStep ==
  ASSUME NotifInv, NEW s \in Servers, Push(s)
  PROVE  NotifInv'
<1> DEFINE a == AccountOf[s]
           n == Head(todo[s])
<1>1. /\ todo[s] # << >> /\ todo[s] \in Seq(Own(s)) /\ todo[s] \in Seq(Notices)
      /\ a \in Accounts /\ queue[a] \in Seq(Allowed(a)) /\ queue[a] \in Seq(Notices)
  BY AccountFact DEF Push, Waiting, NotifInv, NotifTypeOK, Sorted
<1>2. /\ queue' = [queue EXCEPT ![a] = Append(queue[a], n)]
      /\ todo' = [todo EXCEPT ![s] = Tail(todo[s])]
      /\ UNCHANGED <<status, pc, changes, lock, batch, open, told, unseen, lost, losses>>
  BY DEF Push, bot
<1>3. /\ n \in Own(s) /\ n \in Allowed(a) /\ n \in Notices
      /\ n.server = s /\ n.kind # "progress"
      /\ Tail(todo[s]) \in Seq(Own(s)) /\ Tail(todo[s]) \in Seq(Notices)
  <2>1. n \in Own(s) /\ Tail(todo[s]) \in Seq(Own(s)) /\ Tail(todo[s]) \in Seq(Notices)
    BY <1>1, TailFacts
  <2> QED
    BY <2>1, OwnAllowed DEF Own
<1>4. /\ queue'[a] = Append(queue[a], n)
      /\ \A b \in Accounts : b # a => queue'[b] = queue[b]
      /\ todo'[s] = Tail(todo[s])
      /\ \A u \in Servers : u # s => todo'[u] = todo[u]
      /\ Append(queue[a], n) \in Seq(Allowed(a)) /\ Append(queue[a], n) \in Seq(Notices)
  BY <1>1, <1>2, <1>3 DEF NotifInv, NotifTypeOK
<1> HIDE DEF n
<1>5. NotifTypeOK'
  BY <1>2, <1>3, <1>4 DEF NotifInv, NotifTypeOK
<1>6. Sorted'
  <2>1. \A u \in Servers : todo'[u] \in Seq(Own(u))
    BY <1>3, <1>4 DEF NotifInv, Sorted
  <2>2. \A b \in Accounts : queue'[b] \in Seq(Allowed(b)) /\ batch'[b] \in Seq(Allowed(b))
    BY <1>2, <1>4 DEF NotifInv, Sorted
  <2>3. \A u \in Servers : pc'[u] = "work" => status'[u] \in Works
    BY <1>2 DEF NotifInv, Sorted
  <2> QED
    BY <2>1, <2>2, <2>3 DEF Sorted, Own, Allowed
<1>7. StatusChain'
  <2> SUFFICES ASSUME NEW u \in Servers, AccountOf[u] \notin lost
               PROVE  Chain(u)'
    BY <1>2, ChainIs DEF StatusChain, Chain
  <2>1. PICK handled \in Status, taken \in Status, queued \in Status :
          /\ u \notin unseen => handled = told[u]
          /\ Leads(batch[AccountOf[u]], u, handled, taken)
          /\ Leads(queue[AccountOf[u]], u, taken, queued)
          /\ Leads(todo[u], u, queued, status[u])
    BY ChainIs DEF NotifInv, Chain
  <2>2. CASE u # s
    <3>1. Leads(queue'[AccountOf[u]], u, taken, queued)
      <4>1. CASE AccountOf[u] = a
        <5>1. ~About(n, u)
          BY <2>2, <1>3 DEF About
        <5> QED
          BY <5>1, <4>1, <2>1, <1>1, <1>3, <1>4, LeadsAppendOther
      <4>2. CASE AccountOf[u] # a
        BY <4>2, <2>1, <1>4, AccountFact
      <4> QED
        BY <4>1, <4>2
    <3> QED
      BY <2>1, <2>2, <3>1, <1>2, <1>4 DEF Chain
  <2>3. CASE u = s
    <3>1. CASE About(n, s)
      <4>1. n.old = queued /\ Leads(Tail(todo[s]), s, n.new, status[s])
        BY <3>1, <2>1, <2>3, <1>1, LeadsTail DEF n
      <4>2. Leads(Append(queue[a], n), s, taken, n.new)
        BY <3>1, <4>1, <2>1, <2>3, <1>1, <1>3, LeadsAppend
      <4>3. n.new \in Status
        BY <1>3, NoticeFacts
      <4> QED
        BY <4>1, <4>2, <4>3, <2>1, <2>3, <1>2, <1>4 DEF Chain
    <3>2. CASE ~About(n, s)
      <4>1. Leads(Tail(todo[s]), s, queued, status[s])
        BY <3>2, <2>1, <2>3, <1>1, LeadsTail DEF n
      <4>2. Leads(Append(queue[a], n), s, taken, queued)
        BY <3>2, <2>1, <2>3, <1>1, <1>3, LeadsAppendOther
      <4> QED
        BY <4>1, <4>2, <2>1, <2>3, <1>2, <1>4 DEF Chain
    <3> QED
      BY <3>1, <3>2
  <2> QED
    BY <2>2, <2>3
<1>8. OneProgressPerKind'
  <2> SUFFICES ASSUME NEW b \in Accounts, NEW i \in DOMAIN queue'[b], NEW j \in DOMAIN queue'[b],
                      SameProgress(queue'[b][i], queue'[b][j].old),
                      queue'[b][j].kind = "progress"
               PROVE  i = j
    BY DEF OneProgressPerKind, SameProgress
  <2>1. CASE b # a
    BY <2>1, <1>4 DEF NotifInv, OneProgressPerKind
  <2>2. CASE b = a
    <3>1. /\ DOMAIN queue[a] = 1 .. Len(queue[a]) /\ Len(queue[a]) \in Nat
          /\ DOMAIN queue'[a] = 1 .. Len(queue[a]) + 1
          /\ \A k \in DOMAIN queue[a] : queue'[a][k] = queue[a][k]
          /\ queue'[a][Len(queue[a]) + 1] = n
      BY <1>1, <1>3, <1>4
    <3>2. i \in DOMAIN queue[a] /\ j \in DOMAIN queue[a]
      <4>1. queue'[a][i].kind = "progress" /\ queue'[a][j].kind = "progress"
        BY <2>2 DEF SameProgress
      <4>2. i # Len(queue[a]) + 1 /\ j # Len(queue[a]) + 1
        BY <4>1, <3>1, <1>3
      <4>3. i \in DOMAIN queue'[a] /\ j \in DOMAIN queue'[a]
        BY <2>2
      <4> QED
        BY <4>2, <4>3, <3>1
    <3> QED
      BY <3>1, <3>2, <2>2 DEF NotifInv, OneProgressPerKind
  <2> QED
    BY <2>1, <2>2
<1>9. Shutting'
  <2>1. \A u \in Servers : "backup" \notin open'[u]
    BY <1>2 DEF NotifInv, Shutting
  <2>2. ASSUME NEW u \in Servers, NEW w \in Copies, AccountOf[u] \notin lost'
        PROVE  UnderWay(u, w)' \/ Shut(u, w)'
    <3>1. UnderWay(u, w) \/ Shut(u, w)
      BY <2>2, <1>2 DEF NotifInv, Shutting
    <3>2. CASE UnderWay(u, w)
      BY <3>2, <1>2 DEF UnderWay
    <3>3. CASE Shut(u, w) /\ AccountOf[u] # a
      BY <3>3, <1>2, <1>4, AccountFact DEF Shut
    <3>4. CASE Shut(u, w) /\ AccountOf[u] = a
      <4>1. ~Opener(n, u, w)
        BY <1>3 DEF Opener
      <4>2. /\ HasCloser(queue[a], u, w) \/ Closer(n, u, w) <=> HasCloser(queue'[a], u, w)
            /\ Closer(n, u, w) => AllClosed(queue'[a], u, w)
            /\ AllClosed(queue[a], u, w) => AllClosed(queue'[a], u, w)
        BY <4>1, <1>1, <1>3, <1>4, ClosedAppend
      <4>3. HasCloser(todo[u], u, w) => Closer(n, u, w) \/ HasCloser(todo'[u], u, w)
        <5>1. CASE u = s
          BY <5>1, <1>1, <1>4, ClosedTail DEF n
        <5>2. CASE u # s
          BY <5>2, <1>4
        <5> QED
          BY <5>1, <5>2
      <4> QED
        BY <3>4, <4>2, <4>3, <1>2 DEF Shut
    <3> QED
      BY <3>1, <3>2, <3>3, <3>4
  <2> QED
    BY <2>1, <2>2 DEF Shutting
<1> QED
  BY <1>5, <1>6, <1>7, <1>8, <1>9 DEF NotifInv

\* Where a progress notification is put: at the end, or where the one of its kind is.
LEMMA ReplaceFacts ==
  ASSUME NEW q \in Seq(Notices), NEW n,
         \A i, j \in DOMAIN q :
           (SameProgress(q[i], q[j].old) /\ q[j].kind = "progress") => i = j
  PROVE  \/ /\ \A i \in DOMAIN q : ~SameProgress(q[i], n.old)
            /\ ReplaceOrPush(q, n) = Append(q, n)
         \/ \E i \in DOMAIN q : /\ SameProgress(q[i], n.old)
                                /\ \A j \in DOMAIN q : SameProgress(q[j], n.old) => j = i
                                /\ ReplaceOrPush(q, n) = [q EXCEPT ![i] = n]
<1>1. CASE \A i \in DOMAIN q : ~SameProgress(q[i], n.old)
  BY <1>1 DEF ReplaceOrPush
<1>2. ASSUME NEW i \in DOMAIN q, SameProgress(q[i], n.old)
      PROVE  /\ \A j \in DOMAIN q : SameProgress(q[j], n.old) => j = i
             /\ ReplaceOrPush(q, n) = [q EXCEPT ![i] = n]
  <2>1. \A j \in DOMAIN q : SameProgress(q[j], n.old) => j = i
    BY <1>2 DEF SameProgress
  <2> DEFINE First(k) == /\ SameProgress(q[k], n.old)
                         /\ \A j \in DOMAIN q : SameProgress(q[j], n.old) => k <= j
  <2>2. First(i)
    BY <1>2, <2>1
  <2>3. \A k \in DOMAIN q : First(k) => k = i
    BY <2>1
  <2>4. (CHOOSE k \in DOMAIN q : First(k)) = i
    <3> HIDE DEF First
    <3> QED
      BY <2>2, <2>3
  <2>5. ReplaceOrPush(q, n) = [q EXCEPT ![CHOOSE k \in DOMAIN q : First(k)] = n]
    BY <1>2 DEF ReplaceOrPush
  <2> HIDE DEF First
  <2> QED
    BY <2>1, <2>4, <2>5
<1> QED
  BY <1>1, <1>2

LEMMA CallbackStep ==
  ASSUME NotifInv, NEW s \in Servers, Callback(s)
  PROVE  NotifInv'
<1> DEFINE a == AccountOf[s]
           n == Progress(s, status[s])
           q == queue[a]
           r == ReplaceOrPush(q, n)
<1>1. /\ UnderWay(s, status[s]) /\ status[s] \in Copies
      /\ queue' = [queue EXCEPT ![a] = r]
      /\ UNCHANGED <<status, pc, todo, changes, lock, batch, open, told, unseen, lost, losses>>
  BY DEF Callback, UnderWay, Copies, threads, bot
<1>2. /\ n \in Notices /\ n \in Allowed(a) /\ n.kind = "progress" /\ n.server = s
      /\ n.old = status[s]
  <2>1. n \in Notices
    BY <1>1, WorkStatus DEF Notices
  <2>2. n.kind = "progress" /\ n.server = s /\ n.old = status[s]
    BY DEF Progress
  <2> QED
    BY <2>1, <2>2, <1>1 DEF Allowed
<1>3. a \in Accounts /\ q \in Seq(Allowed(a)) /\ q \in Seq(Notices)
  BY AccountFact DEF NotifInv, NotifTypeOK, Sorted
<1> HIDE DEF n
<1>4. \A i, j \in DOMAIN q :
        (SameProgress(q[i], q[j].old) /\ q[j].kind = "progress") => i = j
  BY <1>3 DEF NotifInv, OneProgressPerKind
<1> HIDE DEF q
<1>5. /\ r \in Seq(Allowed(a)) /\ r \in Seq(Notices)
      /\ \A i, j \in DOMAIN r :
           (SameProgress(r[i], r[j].old) /\ r[j].kind = "progress") => i = j
      /\ \A u, x, y : Leads(q, u, x, y) => Leads(r, u, x, y)
      /\ \A u, w : /\ HasCloser(q, u, w) => HasCloser(r, u, w)
                   /\ ~Opener(n, u, w) /\ AllClosed(q, u, w) => AllClosed(r, u, w)
  <2>1. CASE /\ \A i \in DOMAIN q : ~SameProgress(q[i], n.old)
             /\ r = Append(q, n)
    <3>1. /\ DOMAIN q = 1 .. Len(q) /\ Len(q) \in Nat
          /\ DOMAIN r = 1 .. Len(q) + 1
          /\ \A k \in DOMAIN q : r[k] = q[k]
          /\ r[Len(q) + 1] = n
      BY <1>2, <1>3, <2>1
    <3>2. r \in Seq(Allowed(a)) /\ r \in Seq(Notices)
      BY <1>2, <1>3, <2>1
    <3>3. ASSUME NEW i \in DOMAIN r, NEW j \in DOMAIN r, SameProgress(r[i], r[j].old),
                 r[j].kind = "progress"
          PROVE  i = j
      <4>1. CASE i \in DOMAIN q /\ j \in DOMAIN q
        BY <4>1, <3>1, <3>3, <1>4
      <4>2. CASE i \in DOMAIN q /\ j = Len(q) + 1
        BY <4>2, <3>1, <3>3, <2>1
      <4>3. CASE i = Len(q) + 1 /\ j \in DOMAIN q
        BY <4>3, <3>1, <3>3, <2>1 DEF SameProgress
      <4> QED
        BY <4>1, <4>2, <4>3, <3>1
    <3>4. \A u, x, y : Leads(q, u, x, y) => Leads(r, u, x, y)
      <4>1. \A u : ~About(n, u)
        BY <1>2 DEF About
      <4> QED
        BY <4>1, <1>2, <1>3, <2>1, LeadsAppendOther
    <3>5. \A u, w : /\ HasCloser(q, u, w) => HasCloser(r, u, w)
                    /\ ~Opener(n, u, w) /\ AllClosed(q, u, w) => AllClosed(r, u, w)
      BY <1>2, <1>3, <2>1, ClosedAppend
    <3> QED
      BY <3>2, <3>3, <3>4, <3>5
  <2>2. ASSUME NEW i \in DOMAIN q, SameProgress(q[i], n.old),
               \A j \in DOMAIN q : SameProgress(q[j], n.old) => j = i,
               r = [q EXCEPT ![i] = n]
        PROVE  /\ r \in Seq(Allowed(a)) /\ r \in Seq(Notices)
               /\ \A k, j \in DOMAIN r :
                    (SameProgress(r[k], r[j].old) /\ r[j].kind = "progress") => k = j
               /\ \A u, x, y : Leads(q, u, x, y) => Leads(r, u, x, y)
               /\ \A u, w : /\ HasCloser(q, u, w) => HasCloser(r, u, w)
                            /\ ~Opener(n, u, w) /\ AllClosed(q, u, w) => AllClosed(r, u, w)
    <3>1. /\ DOMAIN r = DOMAIN q /\ r[i] = n /\ i \in 1 .. Len(q)
          /\ \A k \in DOMAIN q : k # i => r[k] = q[k]
          /\ q[i].kind = "progress" /\ q[i].old = n.old
      BY <1>3, <2>2 DEF SameProgress
    <3>2. r \in Seq(Allowed(a)) /\ r \in Seq(Notices)
      BY <1>2, <1>3, <2>2, <3>1, ExceptSeq
    <3>3. ASSUME NEW k \in DOMAIN r, NEW j \in DOMAIN r, SameProgress(r[k], r[j].old),
                 r[j].kind = "progress"
          PROVE  k = j
      <4>1. CASE k # i /\ j # i
        BY <4>1, <3>1, <3>3, <1>4
      <4>2. CASE k # i /\ j = i
        BY <4>2, <3>1, <3>3, <2>2
      <4>3. CASE k = i /\ j # i
        BY <4>3, <3>1, <3>3, <2>2 DEF SameProgress
      <4> QED
        BY <4>1, <4>2, <4>3
    <3>4. \A u, x, y : Leads(q, u, x, y) => Leads(r, u, x, y)
      <4> SUFFICES ASSUME NEW u, NEW x, NEW y, Leads(q, u, x, y)
                   PROVE  Leads(r, u, x, y)
        OBVIOUS
      <4>1. q[i].kind = "progress" /\ n.kind = "progress" /\ n \in Notices
        BY <1>2, <3>1
      <4>2. Leads([q EXCEPT ![i] = n], u, x, y)
        BY <4>1, <1>3, LeadsReplace
      <4> QED
        BY <4>2, <2>2
    <3>5. \A u, w : /\ HasCloser(q, u, w) => HasCloser(r, u, w)
                    /\ ~Opener(n, u, w) /\ AllClosed(q, u, w) => AllClosed(r, u, w)
      <4> SUFFICES ASSUME NEW u, NEW w
                   PROVE  /\ HasCloser(q, u, w) => HasCloser(r, u, w)
                          /\ ~Opener(n, u, w) /\ AllClosed(q, u, w) => AllClosed(r, u, w)
        OBVIOUS
      <4>1. q[i].kind = "progress" /\ n.kind = "progress" /\ n \in Notices
        BY <1>2, <3>1
      <4>2. /\ HasCloser(q, u, w) => HasCloser([q EXCEPT ![i] = n], u, w)
            /\ ~Opener(n, u, w) /\ AllClosed(q, u, w) => AllClosed([q EXCEPT ![i] = n], u, w)
        BY <4>1, <1>3, ClosedReplace
      <4> QED
        BY <4>2, <2>2
    <3> QED
      BY <3>2, <3>3, <3>4, <3>5
  <2> QED
    BY <2>1, <2>2, <1>3, <1>4, ReplaceFacts
<1>6. /\ queue'[a] = r
      /\ \A b \in Accounts : b # a => queue'[b] = queue[b]
      /\ queue' \in [Accounts -> Seq(Notices)]
  BY <1>1, <1>3, <1>5 DEF NotifInv, NotifTypeOK
<1> HIDE DEF r
<1>7. NotifTypeOK'
  BY <1>1, <1>6 DEF NotifInv, NotifTypeOK
<1>8. Sorted'
  <2>1. \A b \in Accounts : queue'[b] \in Seq(Allowed(b)) /\ batch'[b] \in Seq(Allowed(b))
    BY <1>1, <1>5, <1>6 DEF NotifInv, Sorted
  <2>2. \A u \in Servers : /\ todo'[u] \in Seq(Own(u))
                           /\ pc'[u] = "work" => status'[u] \in Works
    BY <1>1 DEF NotifInv, Sorted
  <2> QED
    BY <2>1, <2>2 DEF Sorted, Own, Allowed
<1>9. StatusChain'
  <2> SUFFICES ASSUME NEW u \in Servers, AccountOf[u] \notin lost
               PROVE  Chain(u)'
    BY <1>1, ChainIs DEF StatusChain, Chain
  <2>1. PICK handled \in Status, taken \in Status, queued \in Status :
          /\ u \notin unseen => handled = told[u]
          /\ Leads(batch[AccountOf[u]], u, handled, taken)
          /\ Leads(queue[AccountOf[u]], u, taken, queued)
          /\ Leads(todo[u], u, queued, status[u])
    BY ChainIs DEF NotifInv, Chain
  <2>2. Leads(queue'[AccountOf[u]], u, taken, queued)
    BY <2>1, <1>5, <1>6, AccountFact DEF q
  <2> QED
    BY <2>1, <2>2, <1>1 DEF Chain
<1>10. OneProgressPerKind'
  BY <1>5, <1>6 DEF NotifInv, OneProgressPerKind, SameProgress
<1>11. Shutting'
  <2>1. \A u \in Servers : "backup" \notin open'[u]
    BY <1>1 DEF NotifInv, Shutting
  <2>2. ASSUME NEW u \in Servers, NEW w \in Copies, AccountOf[u] \notin lost'
        PROVE  UnderWay(u, w)' \/ Shut(u, w)'
    <3>1. UnderWay(u, w) \/ Shut(u, w)
      BY <2>2, <1>1 DEF NotifInv, Shutting
    <3>2. CASE UnderWay(u, w)
      BY <3>2, <1>1 DEF UnderWay
    <3>3. CASE Shut(u, w) /\ ~UnderWay(u, w)
      <4>1. ~Opener(n, u, w)
        BY <3>3, <1>1, <1>2 DEF Opener, UnderWay
      <4>2. /\ HasCloser(queue[AccountOf[u]], u, w) => HasCloser(queue'[AccountOf[u]], u, w)
            /\ AllClosed(queue[AccountOf[u]], u, w) => AllClosed(queue'[AccountOf[u]], u, w)
        BY <4>1, <1>5, <1>6, AccountFact DEF q
      <4> QED
        BY <3>3, <4>2, <1>1 DEF Shut
    <3> QED
      BY <3>1, <3>2, <3>3
  <2> QED
    BY <2>1, <2>2 DEF Shutting
<1> QED
  BY <1>7, <1>8, <1>9, <1>10, <1>11 DEF NotifInv

\* A step that leaves status, notifications and messages alone.
LEMMA LeftAlone ==
  ASSUME NotifInv, UNCHANGED <<status, todo, queue, batch, open, told, unseen, lost>>,
         \A s \in Servers : pc'[s] = pc[s] \/ (pc'[s] # "work" /\ status[s] \notin Copies),
         NotifTypeOK'
  PROVE  NotifInv'
<1>1. Sorted'
  <2>1. \A a \in Accounts : queue'[a] \in Seq(Allowed(a)) /\ batch'[a] \in Seq(Allowed(a))
    BY DEF NotifInv, Sorted
  <2>2. \A u \in Servers : /\ todo'[u] \in Seq(Own(u))
                           /\ pc'[u] = "work" => status'[u] \in Works
    BY DEF NotifInv, Sorted
  <2> QED
    BY <2>1, <2>2 DEF Sorted, Own, Allowed
<1>2. StatusChain' /\ OneProgressPerKind'
  BY DEF NotifInv, StatusChain, OneProgressPerKind, SameProgress
<1>3. Shutting'
  <2>1. ASSUME NEW u \in Servers, NEW w \in Copies, AccountOf[u] \notin lost
        PROVE  (UnderWay(u, w) \/ Shut(u, w))'
    <3>1. UnderWay(u, w) \/ Shut(u, w)
      BY <2>1 DEF NotifInv, Shutting
    <3> QED
      BY <3>1 DEF UnderWay, Shut
  <2> QED
    BY <2>1 DEF NotifInv, Shutting
<1> QED
  BY <1>1, <1>2, <1>3 DEF NotifInv

LEMMA RestoreStep ==
  ASSUME NotifInv, NEW s \in Servers, RestoreCallback(s)
  PROVE  NotifInv'
<1>1. /\ status[s] \notin Copies /\ pc' = [pc EXCEPT ![s] = "locked"] /\ lock' = s
      /\ UNCHANGED <<status, todo, changes, queue, batch, open, told, unseen, lost, losses>>
  BY DEF RestoreCallback, Copies, bot
<1>2. NotifTypeOK'
  BY <1>1 DEF NotifInv, NotifTypeOK
<1>3. \A u \in Servers : pc'[u] = pc[u] \/ (pc'[u] # "work" /\ status[u] \notin Copies)
  BY <1>1 DEF NotifInv, NotifTypeOK
<1> QED
  BY <1>1, <1>2, <1>3, LeftAlone

-----------------------------------------------------------------------------
(***************************************************************************)
(* The bot                                                                 *)
(***************************************************************************)
\* The queue becomes the batch, which was empty.
LEMMA DrainStep ==
  ASSUME NotifInv, NEW a \in Accounts, Drain(a)
  PROVE  NotifInv'
<1>1. /\ batch[a] = << >>
      /\ batch' = [batch EXCEPT ![a] = queue[a]]
      /\ queue' = [queue EXCEPT ![a] = << >>]
      /\ UNCHANGED <<status, pc, todo, changes, lock, open, told, unseen, lost, losses>>
  BY DEF Drain, DrainLeaving, threads
<1>2. /\ batch'[a] = queue[a] /\ queue'[a] = << >>
      /\ \A b \in Accounts : b # a => batch'[b] = batch[b] /\ queue'[b] = queue[b]
      /\ batch' \in [Accounts -> Seq(Notices)] /\ queue' \in [Accounts -> Seq(Notices)]
  BY <1>1 DEF NotifInv, NotifTypeOK
<1>3. NotifTypeOK'
  BY <1>1, <1>2 DEF NotifInv, NotifTypeOK
<1>4. Sorted'
  <2>1. \A b \in Accounts : queue'[b] \in Seq(Allowed(b)) /\ batch'[b] \in Seq(Allowed(b))
    <3> SUFFICES ASSUME NEW b \in Accounts
                 PROVE  queue'[b] \in Seq(Allowed(b)) /\ batch'[b] \in Seq(Allowed(b))
      OBVIOUS
    <3>1. /\ queue[b] \in Seq(Allowed(b)) /\ batch[b] \in Seq(Allowed(b))
          /\ << >> \in Seq(Allowed(b))
      BY DEF NotifInv, Sorted
    <3> QED
      BY <3>1, <1>2
  <2>2. \A u \in Servers : /\ todo'[u] \in Seq(Own(u))
                           /\ pc'[u] = "work" => status'[u] \in Works
    BY <1>1 DEF NotifInv, Sorted
  <2> QED
    BY <2>1, <2>2 DEF Sorted, Own, Allowed
<1>5. StatusChain'
  <2> SUFFICES ASSUME NEW u \in Servers, AccountOf[u] \notin lost
               PROVE  Chain(u)'
    BY <1>1, ChainIs DEF StatusChain, Chain
  <2>1. PICK handled \in Status, taken \in Status, queued \in Status :
          /\ u \notin unseen => handled = told[u]
          /\ Leads(batch[AccountOf[u]], u, handled, taken)
          /\ Leads(queue[AccountOf[u]], u, taken, queued)
          /\ Leads(todo[u], u, queued, status[u])
    BY ChainIs DEF NotifInv, Chain
  <2>2. CASE AccountOf[u] = a
    <3>1. handled = taken
      BY <2>1, <2>2, <1>1, LeadsEmpty
    <3>2. Leads(queue'[a], u, queued, queued)
      BY <1>2, LeadsEmpty
    <3> QED
      BY <2>1, <2>2, <3>1, <3>2, <1>1, <1>2 DEF Chain
  <2>3. CASE AccountOf[u] # a
    BY <2>1, <2>3, <1>1, <1>2, AccountFact DEF Chain
  <2> QED
    BY <2>2, <2>3
<1>6. OneProgressPerKind'
  <2> SUFFICES ASSUME NEW b \in Accounts, NEW i \in DOMAIN queue'[b], NEW j \in DOMAIN queue'[b],
                      SameProgress(queue'[b][i], queue'[b][j].old),
                      queue'[b][j].kind = "progress"
               PROVE  i = j
    BY DEF OneProgressPerKind, SameProgress
  <2>1. b # a
    BY <1>2
  <2> QED
    BY <2>1, <1>2 DEF NotifInv, OneProgressPerKind
<1>7. Shutting'
  <2>1. ASSUME NEW u \in Servers, NEW w \in Copies, AccountOf[u] \notin lost
        PROVE  (UnderWay(u, w) \/ Shut(u, w))'
    <3>1. UnderWay(u, w) \/ Shut(u, w)
      BY <2>1 DEF NotifInv, Shutting
    <3>2. CASE UnderWay(u, w)
      BY <3>2, <1>1 DEF UnderWay
    <3>3. CASE Shut(u, w) /\ AccountOf[u] = a
      BY <3>3, <1>1, <1>2, ClosedEmpty DEF Shut
    <3>4. CASE Shut(u, w) /\ AccountOf[u] # a
      BY <3>4, <1>1, <1>2, AccountFact DEF Shut
    <3> QED
      BY <3>1, <3>2, <3>3, <3>4
  <2> QED
    BY <2>1, <1>1 DEF NotifInv, Shutting
<1> QED
  BY <1>3, <1>4, <1>5, <1>6, <1>7 DEF NotifInv

\* The first notification of the batch is shown: a message it opens has its closer
\* behind it, and one it closes needs none.
LEMMA ShowStep ==
  ASSUME NotifInv, NEW a \in Accounts, Show(a)
  PROVE  NotifInv'
<1> DEFINE q == batch[a]
           n == Head(q)
<1>1. /\ q # << >> /\ q \in Seq(Allowed(a)) /\ q \in Seq(Notices)
      /\ batch' = [batch EXCEPT ![a] = Tail(q)]
      /\ Sent(n) \/ Refused(n)
      /\ UNCHANGED <<status, pc, todo, changes, lock, queue, lost>>
  BY DEF Show, threads, NotifInv, NotifTypeOK, Sorted
<1>2. /\ n \in Allowed(a) /\ n \in Notices
      /\ Tail(q) \in Seq(Allowed(a)) /\ Tail(q) \in Seq(Notices)
  BY <1>1, TailFacts
<1>3. /\ n.server \in Servers /\ n.new \in Status /\ AccountOf[n.server] = a
      /\ n.kind \in {"status", "progress", "outcome"}
      /\ n.kind = "progress" => n.old \in Copies
  BY <1>2, NoticeFacts DEF Allowed
<1>4. /\ batch'[a] = Tail(q)
      /\ \A b \in Accounts : b # a => batch'[b] = batch[b]
      /\ batch' \in [Accounts -> Seq(Notices)]
  BY <1>1, <1>2 DEF NotifInv, NotifTypeOK
<1>5. /\ open[n.server] \subseteq {"backup", "restore", "zip"}
      /\ "backup" \notin open[n.server]
  BY <1>3 DEF NotifInv, NotifTypeOK, Shutting
<1>6. /\ OpenAfter(n) \subseteq {"backup", "restore", "zip"}
      /\ "backup" \notin OpenAfter(n)
      /\ \A w \in Copies : Group(w) \in OpenAfter(n) =>
           \/ Opener(n, n.server, w)
           \/ Group(w) \in open[n.server] /\ ~Closer(n, n.server, w)
  <2>1. CASE n.kind = "progress"
    BY <2>1, <1>3, <1>5 DEF OpenAfter, Group, Copies, Opener, Closer, Closes
  <2>2. CASE n.kind = "outcome"
    BY <2>2, <1>5 DEF OpenAfter, Group, Copies, Closer, Closes
  <2>3. CASE n.kind = "status"
    BY <2>3, <1>5 DEF OpenAfter, Reset, Group, Copies, Closer, Closes
  <2> QED
    BY <1>3, <2>1, <2>2, <2>3
<1> HIDE DEF n
<1>7. /\ open' \in [Servers -> SUBSET {"backup", "restore", "zip"}]
      /\ open'[n.server] \in {OpenAfter(n)} \union
                               (IF n.kind = "progress" THEN {open[n.server]} ELSE {})
      /\ \A u \in Servers : u # n.server => open'[u] = open[u]
  <2>1. open \in [Servers -> SUBSET {"backup", "restore", "zip"}]
    BY DEF NotifInv, NotifTypeOK
  <2>2. \/ open' = [open EXCEPT ![n.server] = OpenAfter(n)]
        \/ n.kind = "progress" /\ open' = open
    BY <1>1 DEF Sent, Refused
  <2> QED
    BY <2>1, <2>2, <1>3, <1>6
<1>70. /\ told' \in [Servers -> Status] /\ unseen' \subseteq Servers
       /\ losses' \in 0 .. MaxLosses
       /\ \A u \in Servers :
            IF About(n, u) THEN u \in unseen' \/ told'[u] = n.new
            ELSE told'[u] = told[u] /\ (u \in unseen' <=> u \in unseen)
  <2>1. told \in [Servers -> Status] /\ unseen \subseteq Servers /\ losses \in 0 .. MaxLosses
    BY DEF NotifInv, NotifTypeOK
  <2>2. CASE Sent(n)
    BY <2>1, <2>2, <1>3 DEF Sent, About
  <2>3. CASE Refused(n)
    BY <2>1, <2>3, <1>3, BoundAssumption DEF Refused, Fault, About
  <2> QED
    BY <2>2, <2>3, <1>1
<1>71. \A w \in Copies : Group(w) \in open'[n.server] =>
         \/ Opener(n, n.server, w)
         \/ Group(w) \in open[n.server] /\ ~Closer(n, n.server, w)
  BY <1>6, <1>7 DEF Closer, Closes
<1> HIDE DEF q
<1>8. NotifTypeOK'
  BY <1>1, <1>4, <1>7, <1>70 DEF NotifInv, NotifTypeOK
<1>9. Sorted'
  <2>1. \A b \in Accounts : queue'[b] \in Seq(Allowed(b)) /\ batch'[b] \in Seq(Allowed(b))
    BY <1>1, <1>2, <1>4 DEF NotifInv, Sorted
  <2>2. \A u \in Servers : /\ todo'[u] \in Seq(Own(u))
                           /\ pc'[u] = "work" => status'[u] \in Works
    BY <1>1 DEF NotifInv, Sorted
  <2> QED
    BY <2>1, <2>2 DEF Sorted, Own, Allowed
<1>10. StatusChain'
  <2> SUFFICES ASSUME NEW u \in Servers, AccountOf[u] \notin lost
               PROVE  Chain(u)'
    BY <1>1, ChainIs DEF StatusChain, Chain
  <2>1. PICK handled \in Status, taken \in Status, queued \in Status :
          /\ u \notin unseen => handled = told[u]
          /\ Leads(batch[AccountOf[u]], u, handled, taken)
          /\ Leads(queue[AccountOf[u]], u, taken, queued)
          /\ Leads(todo[u], u, queued, status[u])
    BY ChainIs DEF NotifInv, Chain
  <2>2. ASSUME AccountOf[u] = a
        PROVE  Chain(u)'
    <3>1. Leads(q, u, handled, taken)
      BY <2>1, <2>2 DEF q
    <3>2. CASE About(n, u)
      <4>1. Leads(Tail(q), u, n.new, taken)
        BY <3>1, <3>2, <1>1, LeadsTail DEF n
      <4>2. u \notin unseen' => n.new = told'[u]
        BY <3>2, <1>70
      <4> QED
        BY <4>1, <4>2, <2>1, <2>2, <1>1, <1>3, <1>4 DEF Chain
    <3>3. CASE ~About(n, u)
      <4>1. Leads(Tail(q), u, handled, taken)
        BY <3>1, <3>3, <1>1, LeadsTail DEF n
      <4>2. u \notin unseen' => handled = told'[u]
        BY <3>3, <2>1, <1>70
      <4> QED
        BY <4>1, <4>2, <2>1, <2>2, <1>1, <1>4 DEF Chain
    <3> QED
      BY <3>2, <3>3
  <2>3. ASSUME AccountOf[u] # a
        PROVE  Chain(u)'
    <3>1. ~About(n, u)
      BY <2>3, <1>3 DEF About
    <3>2. u \notin unseen' => handled = told'[u]
      BY <3>1, <2>1, <1>70
    <3> QED
      BY <3>2, <2>1, <2>3, <1>1, <1>4, AccountFact DEF Chain
  <2> QED
    BY <2>2, <2>3
<1>11. OneProgressPerKind'
  BY <1>1 DEF NotifInv, OneProgressPerKind, SameProgress
<1>12. Shutting'
  <2>1. \A u \in Servers : "backup" \notin open'[u]
    BY <1>5, <1>6, <1>7 DEF NotifInv, Shutting
  <2>2. ASSUME NEW u \in Servers, NEW w \in Copies, AccountOf[u] \notin lost
        PROVE  (UnderWay(u, w) \/ Shut(u, w))'
    <3>1. UnderWay(u, w) \/ Shut(u, w)
      BY <2>2 DEF NotifInv, Shutting
    <3>2. CASE UnderWay(u, w)
      BY <3>2, <1>1 DEF UnderWay
    <3>3. CASE Shut(u, w) /\ AccountOf[u] # a
      <4>1. u # n.server
        BY <3>3, <1>3
      <4> QED
        BY <3>3, <4>1, <1>1, <1>4, <1>7, AccountFact DEF Shut
    <3>4. CASE Shut(u, w) /\ AccountOf[u] = a
      <4>1. /\ HasCloser(q, u, w) => Closer(n, u, w) \/ HasCloser(Tail(q), u, w)
            /\ AllClosed(q, u, w) => AllClosed(Tail(q), u, w)
            /\ AllClosed(q, u, w) /\ Opener(n, u, w) => HasCloser(Tail(q), u, w)
        BY <1>1, ClosedTail DEF n
      <4>2. Group(w) \in open'[u] =>
              Opener(n, u, w) \/ (Group(w) \in open[u] /\ ~Closer(n, u, w))
        <5>1. CASE u = n.server
          BY <5>1, <1>71
        <5>2. CASE u # n.server
          BY <5>2, <1>7 DEF Closer
        <5> QED
          BY <5>1, <5>2
      <4>3. /\ AllClosed(queue[a], u, w) \/ HasCloser(todo[u], u, w)
            /\ AllClosed(q, u, w) \/ HasCloser(queue[a], u, w) \/ HasCloser(todo[u], u, w)
            /\ \/ Group(w) \notin open[u]
               \/ HasCloser(q, u, w) \/ HasCloser(queue[a], u, w) \/ HasCloser(todo[u], u, w)
        BY <3>4 DEF Shut, q
      <4>4. /\ AllClosed(Tail(q), u, w) \/ HasCloser(queue[a], u, w) \/ HasCloser(todo[u], u, w)
            /\ \/ Group(w) \notin open'[u]
               \/ HasCloser(Tail(q), u, w) \/ HasCloser(queue[a], u, w)
               \/ HasCloser(todo[u], u, w)
        BY <4>1, <4>2, <4>3
      <4> QED
        BY <3>4, <4>3, <4>4, <1>1, <1>4 DEF Shut
    <3> QED
      BY <3>1, <3>2, <3>3, <3>4
  <2> QED
    BY <2>1, <2>2, <1>1 DEF Shutting
<1> QED
  BY <1>8, <1>9, <1>10, <1>11, <1>12 DEF NotifInv

\* Notifications of an account are lost: nothing is claimed of its chain any more.
LEMMA LossStep ==
  ASSUME NotifInv, NEW a \in Accounts, LoseAnswer(a) \/ BotDies(a)
  PROVE  NotifInv'
<1>1. /\ UNCHANGED <<status, pc, todo, changes, lock, told, unseen>>
      /\ lost' = lost \union {a} /\ losses' \in 0 .. MaxLosses
  BY BoundAssumption DEF LoseAnswer, BotDies, Fault, threads, NotifInv, NotifTypeOK
<1>2. /\ queue'[a] = queue[a] \/ queue'[a] = << >>
      /\ batch'[a] = batch[a] \/ batch'[a] = << >>
      /\ \A b \in Accounts : b # a => batch'[b] = batch[b] /\ queue'[b] = queue[b]
      /\ batch' \in [Accounts -> Seq(Notices)] /\ queue' \in [Accounts -> Seq(Notices)]
  <2>1. /\ queue' = queue \/ queue' = [queue EXCEPT ![a] = << >>]
        /\ batch' = batch \/ batch' = [batch EXCEPT ![a] = << >>]
    BY DEF LoseAnswer, BotDies
  <2>2. << >> \in Seq(Notices)
    OBVIOUS
  <2>3. queue \in [Accounts -> Seq(Notices)] /\ batch \in [Accounts -> Seq(Notices)]
    BY DEF NotifInv, NotifTypeOK
  <2>4. /\ queue' \in [Accounts -> Seq(Notices)]
        /\ queue'[a] = queue[a] \/ queue'[a] = << >>
        /\ \A b \in Accounts : b # a => queue'[b] = queue[b]
    BY <2>1, <2>2, <2>3
  <2>5. /\ batch' \in [Accounts -> Seq(Notices)]
        /\ batch'[a] = batch[a] \/ batch'[a] = << >>
        /\ \A b \in Accounts : b # a => batch'[b] = batch[b]
    BY <2>1, <2>2, <2>3
  <2> QED
    BY <2>4, <2>5
<1>3. /\ open' \in [Servers -> SUBSET {"backup", "restore", "zip"}]
      /\ \A u \in Servers : /\ open'[u] \subseteq open[u]
                            /\ AccountOf[u] # a => open'[u] = open[u]
  BY DEF LoseAnswer, BotDies, NotifInv, NotifTypeOK
<1>4. NotifTypeOK'
  BY <1>1, <1>2, <1>3 DEF NotifInv, NotifTypeOK
<1>5. Sorted'
  <2>1. \A b \in Accounts : queue'[b] \in Seq(Allowed(b)) /\ batch'[b] \in Seq(Allowed(b))
    <3> SUFFICES ASSUME NEW b \in Accounts
                 PROVE  queue'[b] \in Seq(Allowed(b)) /\ batch'[b] \in Seq(Allowed(b))
      OBVIOUS
    <3>1. /\ queue[b] \in Seq(Allowed(b)) /\ batch[b] \in Seq(Allowed(b))
          /\ << >> \in Seq(Allowed(b))
      BY DEF NotifInv, Sorted
    <3> QED
      BY <3>1, <1>2
  <2>2. \A u \in Servers : /\ todo'[u] \in Seq(Own(u))
                           /\ pc'[u] = "work" => status'[u] \in Works
    BY <1>1 DEF NotifInv, Sorted
  <2> QED
    BY <2>1, <2>2 DEF Sorted, Own, Allowed
<1>6. StatusChain'
  <2> SUFFICES ASSUME NEW u \in Servers, AccountOf[u] \notin lost, AccountOf[u] # a
               PROVE  Chain(u)'
    BY <1>1, ChainIs DEF StatusChain, Chain
  <2> QED
    BY <1>1, <1>2, ChainIs, AccountFact DEF NotifInv, Chain
<1>7. OneProgressPerKind'
  <2> SUFFICES ASSUME NEW b \in Accounts, NEW i \in DOMAIN queue'[b], NEW j \in DOMAIN queue'[b],
                      SameProgress(queue'[b][i], queue'[b][j].old),
                      queue'[b][j].kind = "progress"
               PROVE  i = j
    BY DEF OneProgressPerKind, SameProgress
  <2>1. queue'[b] = queue[b]
    BY <1>2
  <2> QED
    BY <2>1 DEF NotifInv, OneProgressPerKind
<1>8. Shutting'
  <2>1. ASSUME NEW u \in Servers, NEW w \in Copies, AccountOf[u] \notin lost'
        PROVE  (UnderWay(u, w) \/ Shut(u, w))'
    <3>1. UnderWay(u, w) \/ Shut(u, w)
      BY <2>1, <1>1 DEF NotifInv, Shutting
    <3>2. AccountOf[u] # a
      BY <2>1, <1>1
    <3> QED
      BY <3>1, <3>2, <1>1, <1>2, <1>3, AccountFact DEF UnderWay, Shut
  <2> QED
    BY <2>1, <1>3 DEF NotifInv, Shutting
<1> QED
  BY <1>4, <1>5, <1>6, <1>7, <1>8 DEF NotifInv

\* The daemon starts again: of no account anything is claimed any more but what
\* the queues and the bot's messages look like.
LEMMA DaemonStep ==
  ASSUME NotifInv, DaemonRestarts
  PROVE  NotifInv'
<1>1. /\ UNCHANGED <<changes, batch, open, told, unseen>>
      /\ status' = [s \in Servers |-> "Idle"] /\ pc' = [s \in Servers |-> "rest"]
      /\ todo' = [s \in Servers |-> << >>] /\ queue' = [a \in Accounts |-> << >>]
      /\ lock' = Nobody /\ lost' = Accounts /\ losses' \in 0 .. MaxLosses
  BY BoundAssumption DEF DaemonRestarts, Fault, NotifInv, NotifTypeOK
<1>2. << >> \in Seq(Notices) /\ \A S : << >> \in Seq(S)
  OBVIOUS
<1>3. NotifTypeOK'
  BY <1>1, <1>2, WorkStatus DEF NotifInv, NotifTypeOK
<1>4. Sorted'
  <2>1. \A a \in Accounts : queue'[a] \in Seq(Allowed(a)) /\ batch'[a] \in Seq(Allowed(a))
    BY <1>1, <1>2 DEF NotifInv, Sorted
  <2>2. \A u \in Servers : todo'[u] \in Seq(Own(u)) /\ pc'[u] # "work"
    BY <1>1, <1>2
  <2> QED
    BY <2>1, <2>2 DEF Sorted, Own, Allowed
<1>5. \A s \in Servers : AccountOf[s] \in lost'
  BY <1>1, AccountFact
<1>6. OneProgressPerKind'
  BY <1>1 DEF OneProgressPerKind
<1> QED
  BY <1>1, <1>3, <1>4, <1>5, <1>6 DEF NotifInv, StatusChain, Shutting

-----------------------------------------------------------------------------
(***************************************************************************)
(* The invariant holds, and with it the properties                         *)
(***************************************************************************)
LEMMA InvInit == Init => NotifInv
<1> SUFFICES ASSUME Init PROVE NotifInv
  OBVIOUS
<1>1. NotifTypeOK
  BY WorkStatus, BoundAssumption DEF Init, NotifTypeOK
<1>2. Sorted
  BY DEF Init, Sorted
<1>3. StatusChain
  <2> SUFFICES ASSUME NEW s \in Servers
               PROVE  Chain(s)
    BY ChainIs
  <2> QED
    BY LeadsEmpty, WorkStatus, AccountFact DEF Init, Chain
<1>4. OneProgressPerKind
  BY DEF Init, OneProgressPerKind
<1>5. Shutting
  BY ClosedEmpty, AccountFact DEF Init, Shutting, Shut
<1> QED
  BY <1>1, <1>2, <1>3, <1>4, <1>5 DEF NotifInv

LEMMA InvStep == NotifInv /\ [Next]_vars => NotifInv'
<1> SUFFICES ASSUME NotifInv, [Next]_vars PROVE NotifInv'
  OBVIOUS
<1>1. ASSUME NEW s \in Servers,
             \/ \E w \in Jobs : Begin(s, w)
             \/ \E new \in Quiet \union {"Idle"} : Move(s, new)
             \/ \E w \in Jobs : Skip(s, w)
      PROVE  NotifInv'
  BY <1>1, RestStep
<1>2. ASSUME NEW s \in Servers, ThreadStep(s)
      PROVE  NotifInv'
  BY <1>2, PushStep, CallbackStep, RestoreStep, EndStep DEF ThreadStep
<1>3. ASSUME NEW a \in Accounts, BotStep(a) \/ LoseAnswer(a) \/ BotDies(a)
      PROVE  NotifInv'
  BY <1>3, DrainStep, ShowStep, LossStep DEF BotStep
<1>4. CASE DaemonRestarts
  BY <1>4, DaemonStep
<1>5. CASE UNCHANGED vars
  <2>1. UNCHANGED <<status, pc, todo, changes, lock, queue, batch, open, told, unseen, lost, losses>>
    BY <1>5 DEF vars, threads, bot
  <2>2. NotifTypeOK'
    BY <2>1 DEF NotifInv, NotifTypeOK
  <2> QED
    BY <2>1, <2>2, LeftAlone
<1> QED
  BY <1>1, <1>2, <1>3, <1>4, <1>5 DEF Next

\* Whatever is pushed, replaced, delivered or lost, the parts above hold together.
THEOREM NotificationsInvariant == Spec => []NotifInv
<1> QED
  BY InvInit, InvStep, PTL DEF Spec

\* Threads, queues and the bot keep their shape, whatever is lost.
THEOREM NotificationsTypeCorrect == Spec => []NotifTypeOK
<1>1. NotifInv => NotifTypeOK
  BY DEF NotifInv
<1> QED
  BY <1>1, NotificationsInvariant, PTL

\* The bot handles every change of a status, once and in order, however many
\* servers push into its queue, whatever progress is replaced in it and whatever
\* message Discord refuses, until an answer, the bot or the daemon itself is lost
\* (server_loop.rs:78-136).
THEOREM ChangesInOrder == Spec => []StatusChain
<1>1. NotifInv => StatusChain
  BY DEF NotifInv
<1> QED
  BY <1>1, NotificationsInvariant, PTL

\* A queue that nobody asks for does not grow with the files that are copied
\* (server_loop.rs:93-108).
THEOREM ProgressBounded == Spec => []OneProgressPerKind
<1>1. NotifInv => OneProgressPerKind
  BY DEF NotifInv
<1> QED
  BY <1>1, NotificationsInvariant, PTL

\* A bot that has been told all, and lost nothing, is left with no message to
\* edit, although progress overtakes other notifications in the queue
\* (bot.rs:1632-1664).
THEOREM MessagesAreClosed == Spec => []MessagesSettle
<1>1. NotifInv => MessagesSettle
  <2> SUFFICES ASSUME NotifInv, NEW s \in Servers, Settled(s)
               PROVE  open[s] = {}
    BY DEF MessagesSettle
  <2> DEFINE a == AccountOf[s]
  <2>1. /\ pc[s] = "rest" /\ todo[s] = << >> /\ a \notin lost
        /\ \A i \in DOMAIN queue[a] : queue[a][i].server # s
        /\ \A i \in DOMAIN batch[a] : batch[a][i].server # s
    BY DEF Settled, Waiting
  <2>2. \A w \in Copies : /\ ~UnderWay(s, w) /\ ~HasCloser(todo[s], s, w)
                          /\ ~HasCloser(queue[a], s, w) /\ ~HasCloser(batch[a], s, w)
    BY <2>1, ClosedEmpty DEF UnderWay, HasCloser, Closer
  <2>3. \A w \in Copies : Group(w) \notin open[s]
    BY <2>1, <2>2 DEF NotifInv, Shutting, Shut
  <2>4. "restore" \notin open[s] /\ "zip" \notin open[s] /\ "backup" \notin open[s]
    BY <2>3 DEF Group, Copies, NotifInv, Shutting
  <2> QED
    BY <2>4 DEF NotifInv, NotifTypeOK
<1> QED
  BY <1>1, NotificationsInvariant, PTL
=============================================================================
