---------------------------- MODULE MenusProofs -----------------------------
(***************************************************************************)
(* Proofs about Menus for every set of servers, mods and messages and      *)
(* every bound.                                                            *)
(***************************************************************************)
EXTENDS Menus, TLAPS

Histories == [history : Seq(Urls), current : Urls]

Root(url) == url.kind = "Page" /\ url.url \in {"dashboard", "install", "mods"}

\* WellFormed without the appended sequence.
Way2(h) ==
  LET n == Len(h.history)
  IN  IF n = 0 THEN Root(h.current)
      ELSE /\ Root(h.history[1])
           /\ \A i \in 1 .. n - 1 : Step(h.history[i], h.history[i + 1])
           /\ Step(h.history[n], h.current)

LEMMA WellFormedAlt ==
  ASSUME NEW h \in Histories
  PROVE  WellFormed(h) <=> Way2(h)
<1> DEFINE n == Len(h.history)
           way == Append(h.history, h.current)
<1>1. h.history \in Seq(Urls) /\ h.current \in Urls /\ n \in Nat /\ DOMAIN h.history = 1 .. n
  BY DEF Histories
<1>2. (\A i \in 1 .. n : way[i] = h.history[i]) /\ way[n + 1] = h.current
  BY <1>1
<1>3. WellFormed(h) <=> Root(way[1]) /\ \A i \in 1 .. n : Step(way[i], way[i + 1])
  BY <1>1 DEF WellFormed, Root, Histories
<1> HIDE DEF way
<1>4. CASE n = 0
  BY <1>2, <1>3, <1>4 DEF Way2
<1>5. CASE n > 0
  <2>1. way[1] = h.history[1] /\ way[n] = h.history[n]
    BY <1>1, <1>2, <1>5
  <2>2. \A i \in 1 .. n - 1 : way[i] = h.history[i] /\ way[i + 1] = h.history[i + 1]
    BY <1>1, <1>2, <1>5
  <2>3. (\A i \in 1 .. n : Step(way[i], way[i + 1]))
          <=> (\A i \in 1 .. n - 1 : Step(way[i], way[i + 1])) /\ Step(way[n], way[n + 1])
    <3>1. \A i \in 1 .. n : i \in 1 .. n - 1 \/ i = n
      BY <1>1, <1>5
    <3>2. (\A i \in 1 .. n - 1 : i \in 1 .. n) /\ n \in 1 .. n
      BY <1>1, <1>5
    <3> QED
      BY <3>1, <3>2, Zenon
  <2>4. WellFormed(h) <=> /\ Root(h.history[1])
                          /\ \A i \in 1 .. n - 1 : Step(h.history[i], h.history[i + 1])
                          /\ Step(h.history[n], h.current)
    BY <1>2, <1>3, <2>1, <2>2, <2>3, Zenon
  <2>5. n # 0
    BY <1>5
  <2> QED
    BY <2>4, <2>5, Zenon DEF Way2
<1> QED
  BY <1>1, <1>4, <1>5

\* Entering what a page really leads to.
LEMMA EnterWellFormed ==
  ASSUME NEW h, WellFormed(h), NEW url \in Urls, Step(h.current, url)
  PROVE  WellFormed(EnterPage(h, url))
<1> DEFINE n == Len(h.history)
           g == EnterPage(h, url)
<1>1. h \in Histories /\ Way2(h)
  BY WellFormedAlt DEF WellFormed, Histories
<1>2. h.history \in Seq(Urls) /\ h.current \in Urls /\ n \in Nat
  BY <1>1 DEF Histories
<1>3. g.history = Append(h.history, h.current) /\ g.current = url
  BY DEF EnterPage
<1>4. g \in Histories
  BY <1>2 DEF EnterPage, Histories
<1>5. /\ Len(g.history) = n + 1 /\ g.history[n + 1] = h.current
      /\ \A i \in 1 .. n : g.history[i] = h.history[i]
  BY <1>2, <1>3
<1>6. Root(g.history[1]) /\ \A i \in 1 .. n : Step(g.history[i], g.history[i + 1])
  <2>1. CASE n = 0
    BY <1>1, <1>5, <2>1 DEF Way2
  <2>2. CASE n > 0
    <3>1. /\ Root(h.history[1]) /\ Step(h.history[n], h.current)
          /\ \A i \in 1 .. n - 1 : Step(h.history[i], h.history[i + 1])
      BY <1>1, <2>2 DEF Way2
    <3>2. ASSUME NEW i \in 1 .. n
          PROVE  Step(g.history[i], g.history[i + 1])
      <4>1. CASE i = n
        BY <1>2, <1>5, <2>2, <3>1, <4>1
      <4>2. CASE i # n
        <5>1. i \in 1 .. n - 1 /\ i + 1 \in 1 .. n
          BY <1>2, <4>2
        <5> QED
          BY <1>5, <3>1, <5>1
      <4> QED
        BY <4>1, <4>2
    <3>3. g.history[1] = h.history[1]
      BY <1>2, <1>5, <2>2
    <3> QED
      BY <3>1, <3>2, <3>3
  <2> QED
    BY <1>2, <2>1, <2>2
<1>7. Way2(g)
  <2>1. Len(g.history) # 0 /\ Len(g.history) - 1 = n
    BY <1>2, <1>5
  <2>2. Step(g.history[Len(g.history)], g.current)
    BY <1>3, <1>5
  <2> HIDE DEF g, n
  <2> QED
    BY <1>6, <2>1, <2>2 DEF Way2
<1> QED
  BY <1>4, <1>7, WellFormedAlt

\* Back: every entry is a page, so it is the last one that is left for.
LEMMA ExitWellFormed ==
  ASSUME NEW h, WellFormed(h), CanExit(h)
  PROVE  /\ WellFormed(ExitPage(h)) /\ ExitPage(h).current.kind = "Page"
         /\ Step(ExitPage(h).current, h.current)
<1> DEFINE n == Len(h.history)
           g == ExitPage(h)
<1>1. h \in Histories /\ Way2(h)
  BY WellFormedAlt DEF WellFormed, Histories
<1>2. h.history \in Seq(Urls) /\ n \in Nat /\ DOMAIN h.history = 1 .. n
  BY <1>1 DEF Histories
<1>3. n > 0
  BY <1>2 DEF CanExit, PagesPassed
<1>4. /\ Root(h.history[1]) /\ Step(h.history[n], h.current)
      /\ \A i \in 1 .. n - 1 : Step(h.history[i], h.history[i + 1])
  BY <1>1, <1>3 DEF Way2
<1>5. h.history[n].kind = "Page"
  BY <1>4 DEF Step
<1>6. n \in PagesPassed(h) /\ \A j \in PagesPassed(h) : j \in Nat /\ j <= n
  BY <1>2, <1>3, <1>5 DEF PagesPassed
<1>7. (CHOOSE i \in PagesPassed(h) : \A j \in PagesPassed(h) : j <= i) = n
  <2> DEFINE P(i) == \A j \in PagesPassed(h) : j <= i
             c == CHOOSE i \in PagesPassed(h) : P(i)
  <2>1. P(n)
    BY <1>6
  <2>2. c \in PagesPassed(h) /\ P(c)
    BY <1>6, <2>1, Zenon
  <2>3. c <= n /\ n <= c /\ c \in Nat
    BY <1>6, <2>2
  <2> QED
    BY <1>2, <2>3
<1>8. g = [history |-> SubSeq(h.history, 1, n - 1), current |-> h.history[n]]
  BY <1>7 DEF ExitPage
<1>9. /\ g \in Histories /\ Len(g.history) = n - 1 /\ g.current = h.history[n]
      /\ \A i \in 1 .. n - 1 : g.history[i] = h.history[i]
  <2>1. h.history[n] \in Urls /\ SubSeq(h.history, 1, n - 1) \in Seq(Urls)
    BY <1>2, <1>3
  <2>2. g \in Histories
    BY <1>8, <2>1 DEF Histories
  <2>3. g.history = SubSeq(h.history, 1, n - 1) /\ g.current = h.history[n]
    BY <1>8
  <2> HIDE DEF g
  <2> QED
    BY <1>2, <1>3, <2>2, <2>3
<1>10. Way2(g)
  <2> HIDE DEF g, n
  <2>1. CASE n = 1
    BY <1>4, <1>9, <2>1 DEF Way2
  <2>2. CASE n # 1
    <3>1. n - 1 # 0 /\ 1 \in 1 .. n - 1 /\ n - 1 \in 1 .. n - 1 /\ n - 1 + 1 = n
      BY <1>2, <1>3, <2>2
    <3>2. g.history[1] = h.history[1] /\ g.history[n - 1] = h.history[n - 1]
      BY <1>9, <3>1
    <3>3. Step(g.history[n - 1], g.current)
      BY <1>4, <1>9, <3>1, <3>2
    <3>4. ASSUME NEW i \in 1 .. (n - 1) - 1
          PROVE  Step(g.history[i], g.history[i + 1])
      <4>1. i \in 1 .. n - 1 /\ i + 1 \in 1 .. n - 1
        BY <1>2, <1>3
      <4> QED
        BY <1>4, <1>9, <4>1
    <3> QED
      BY <1>4, <1>9, <3>1, <3>2, <3>3, <3>4 DEF Way2
  <2> QED
    BY <2>1, <2>2
<1> QED
  BY <1>4, <1>5, <1>9, <1>10, WellFormedAlt

\* Another page of the same list, in the place of this one.
LEMMA BesideWellFormed ==
  ASSUME NEW h, WellFormed(h), NEW s \in Servers, NEW page \in Nat,
         h.current.kind = "Page", h.current.url = "mods", h.current.arguments[1] = s
  PROVE  WellFormed([h EXCEPT !.current = PageUrl("mods", <<s, page>>)])
<1> DEFINE u == PageUrl("mods", <<s, page>>)
           g == [h EXCEPT !.current = u]
<1>1. h \in Histories /\ Way2(h)
  BY WellFormedAlt DEF WellFormed, Histories
<1>2. u \in Urls
  BY DEF PageUrl, Urls
<1>3. u.kind = "Page" /\ u.url = "mods" /\ u.arguments[1] = s
  BY DEF PageUrl
<1> HIDE DEF u
<1>4. g \in Histories /\ g.history = h.history /\ g.current = u
  BY <1>1, <1>2 DEF Histories
<1>5. \A from : from.url # "mod" /\ Step(from, h.current) => Step(from, u)
  BY <1>3 DEF Step
<1>6. \A from : Step(from, h.current) => from.url # "mod"
  BY DEF Step, Leads
<1>7. Root(u)
  BY <1>3 DEF Root
<1> HIDE DEF g
<1>8. Way2(g)
  <2>1. CASE Len(h.history) = 0
    BY <1>4, <1>7, <2>1 DEF Way2
  <2>2. CASE Len(h.history) # 0
    BY <1>1, <1>4, <1>5, <1>6, <2>2 DEF Way2
  <2> QED
    BY <2>1, <2>2
<1> QED
  BY <1>4, <1>8, WellFormedAlt DEF g, u

(***************************************************************************)
(* The buttons of each menu                                                *)
(***************************************************************************)
\* A button that leads along a way, to an action only under its name, and never back to
\* the page that offers a file to be installed.
Meant(h, by) ==
  h.current.kind = "Action" => by.label = h.current.url /\ by.server = h.current.arguments[1]

Offer(url) == url.kind = "Page" /\ url.url = "install"

Good(b) == WellFormed(b.means) /\ Meant(b.means, b) /\ ~Offer(b.means.current)

LEMMA MenuGood ==
  ASSUME NEW h, WellFormed(h), NEW refresh \in BOOLEAN, refresh => h.current.kind = "Page",
         h.current.url # "install" \/ (~CanExit(h) /\ ~refresh),
         NEW buttons, \A b \in buttons : Good(b)
  PROVE  \A b \in Menu(h, refresh, buttons) : Good(b)
<1>1. CanExit(h) => Good(Way("Back", ExitPage(h)))
  <2>1. SUFFICES ASSUME CanExit(h)
                 PROVE  Good(Way("Back", ExitPage(h)))
    OBVIOUS
  <2>2. /\ WellFormed(ExitPage(h)) /\ ExitPage(h).current.kind = "Page"
        /\ Step(ExitPage(h).current, h.current)
    BY <2>1, ExitWellFormed
  <2>3. ~Offer(ExitPage(h).current)
    BY <2>1, <2>2 DEF Step, Leads, Offer
  <2> QED
    BY <2>2, <2>3 DEF Good, Way, Meant
<1>2. refresh => Good(Way("Refresh", h))
  BY DEF Good, Way, Meant, Offer
<1> QED
  BY <1>1, <1>2 DEF Menu

LEMMA ActGood ==
  ASSUME NEW h, WellFormed(h), NEW url, NEW args, ActionUrl(url, args) \in Urls,
         Step(h.current, ActionUrl(url, args))
  PROVE  Good(Act(h, url, args))
<1>1. WellFormed(EnterPage(h, ActionUrl(url, args)))
  BY EnterWellFormed
<1> QED
  BY <1>1 DEF Good, Act, Meant, Offer, EnterPage, ActionUrl

LEMMA GoGood ==
  ASSUME NEW h, WellFormed(h), NEW url, NEW args, PageUrl(url, args) \in Urls,
         Step(h.current, PageUrl(url, args)), url # "install"
  PROVE  Good(Go(h, url, args))
<1>1. WellFormed(EnterPage(h, PageUrl(url, args)))
  BY EnterWellFormed
<1> QED
  BY <1>1 DEF Good, Go, Meant, Offer, EnterPage, PageUrl

LEMMA ResultGood ==
  ASSUME NEW h, WellFormed(h), h.current.url # "install"
  PROVE  \A b \in ResultMenu(h) : Good(b)
BY MenuGood DEF ResultMenu

LEMMA DashboardGood ==
  ASSUME NEW h, WellFormed(h), h.current.kind = "Page", h.current.url = "dashboard"
  PROVE  \A b \in DashboardMenu(h) : Good(b)
<1>1. ASSUME NEW s \in Servers
      PROVE  Good(Go(h, "menu", <<s>>))
  <2>1. PageUrl("menu", <<s>>) \in Urls
    BY DEF PageUrl, Urls, Named
  <2>2. Step(h.current, PageUrl("menu", <<s>>))
    BY DEF Step, Leads, PageUrl
  <2> QED
    BY <2>1, <2>2, GoGood
<1> QED
  BY <1>1, MenuGood DEF DashboardMenu

LEMMA ServerGood ==
  ASSUME NEW h, WellFormed(h), h.current.kind = "Page", h.current.url = "menu",
         NEW s \in Servers, h.current.arguments[1] = s, NEW status
  PROVE  \A b \in ServerMenu(h, s, status) : Good(b)
<1> DEFINE Acts == {"start", "stop", "reboot", "zip", "command", "backup", "restore"}
           actions == {"reboot"}
                   \union (IF status \in {"Idle", "Stopping"} THEN {"start"} ELSE {})
                   \union (IF status \in {"Running", "Starting"} THEN {"stop"} ELSE {})
                   \union (IF status = "Running" THEN {"command"} ELSE {})
                   \union (IF status = "Idle" THEN {"backup", "restore"} ELSE {})
                   \union (IF status # "Modding" THEN {"zip"} ELSE {})
           buttons == {Act(h, a, <<s>>) : a \in actions}
                        \union (IF status = "Idle" THEN {Go(h, "mods", <<s, 0>>)} ELSE {})
<1>1. ASSUME NEW a \in Acts
      PROVE  Good(Act(h, a, <<s>>))
  <2>1. ActionUrl(a, <<s>>) \in Urls
    BY DEF ActionUrl, Urls, Named
  <2>2. Step(h.current, ActionUrl(a, <<s>>))
    BY DEF Step, Leads, ActionUrl
  <2> QED
    BY <2>1, <2>2, ActGood
<1>2. Good(Go(h, "mods", <<s, 0>>))
  <2>1. PageUrl("mods", <<s, 0>>) \in Urls
    BY DEF PageUrl, Urls
  <2>2. Step(h.current, PageUrl("mods", <<s, 0>>))
    BY DEF Step, Leads, PageUrl
  <2> QED
    BY <2>1, <2>2, GoGood
<1>3. actions \subseteq Acts
  OBVIOUS
<1>4. ServerMenu(h, s, status) = Menu(h, TRUE, buttons)
  BY DEF ServerMenu
<1> HIDE DEF actions, Acts
<1>5. \A b \in buttons : Good(b)
  BY <1>1, <1>2, <1>3
<1> HIDE DEF buttons
<1> QED
  BY <1>4, <1>5, MenuGood

LEMMA ModsGood ==
  ASSUME NEW h, WellFormed(h), h.current.kind = "Page", h.current.url = "mods",
         NEW s \in Servers, h.current.arguments[1] = s, NEW page \in Nat,
         NEW mods \in SUBSET Mods, NEW finished \in BOOLEAN
  PROVE  \A b \in ModMenu(h, s, page, mods, finished) : Good(b)
<1> DEFINE buttons == {Go(h, "mod", <<s, m>>) : m \in mods}
                  \union (IF page # 0 THEN {Beside(h, "Previous", s, page - 1)} ELSE {})
                  \union (IF finished THEN {} ELSE {Beside(h, "Next", s, page + 1)})
<1>1. ASSUME NEW m \in mods
      PROVE  Good(Go(h, "mod", <<s, m>>))
  <2>1. PageUrl("mod", <<s, m>>) \in Urls
    BY DEF PageUrl, Urls
  <2>2. Step(h.current, PageUrl("mod", <<s, m>>))
    BY DEF Step, Leads, PageUrl
  <2> QED
    BY <2>1, <2>2, GoGood
<1>2. ASSUME NEW k \in Nat, NEW label
      PROVE  Good(Beside(h, label, s, k))
  <2>1. WellFormed([h EXCEPT !.current = PageUrl("mods", <<s, k>>)])
    BY BesideWellFormed
  <2>2. [h EXCEPT !.current = PageUrl("mods", <<s, k>>)].current = PageUrl("mods", <<s, k>>)
    <3>1. h \in Histories
      BY DEF WellFormed, Histories
    <3> QED
      BY <3>1 DEF Histories
  <2>3. PageUrl("mods", <<s, k>>).kind = "Page" /\ PageUrl("mods", <<s, k>>).url = "mods"
    BY DEF PageUrl
  <2> DEFINE g == [h EXCEPT !.current = PageUrl("mods", <<s, k>>)]
  <2>4. WellFormed(g) /\ g.current.kind = "Page" /\ g.current.url = "mods"
    BY <2>1, <2>2, <2>3
  <2>5. Beside(h, label, s, k).means = g
    BY DEF Beside, Way
  <2> HIDE DEF g
  <2> QED
    BY <2>4, <2>5 DEF Good, Meant, Offer
<1>3. ModMenu(h, s, page, mods, finished) = Menu(h, TRUE, buttons)
  BY DEF ModMenu
<1>4. page # 0 => Good(Beside(h, "Previous", s, page - 1))
  <2>1. page # 0 => page - 1 \in Nat
    OBVIOUS
  <2> QED
    BY <1>2, <2>1
<1>5. Good(Beside(h, "Next", s, page + 1))
  BY <1>2
<1>6. \A b \in buttons : Good(b)
  BY <1>1, <1>4, <1>5
<1> HIDE DEF buttons
<1> QED
  BY <1>3, <1>6, MenuGood

LEMMA SingleModGood ==
  ASSUME NEW h, WellFormed(h), h.current.kind = "Page", h.current.url = "mod",
         NEW s \in Servers, NEW m \in Mods, h.current.arguments = <<s, m>>
  PROVE  \A b \in SingleModMenu(h, s, m) : Good(b)
<1>1. ActionUrl("uninstall", <<s, m>>) \in Urls
  BY DEF ActionUrl, Urls
<1>2. Step(h.current, ActionUrl("uninstall", <<s, m>>))
  BY DEF Step, Leads, ActionUrl
<1>3. Good(Act(h, "uninstall", <<s, m>>))
  BY <1>1, <1>2, ActGood
<1> QED
  BY <1>3, MenuGood DEF SingleModMenu

LEMMA InstallGood ==
  ASSUME NEW h, WellFormed(h), h.current.kind = "Page", h.current.url = "install", ~CanExit(h)
  PROVE  \A b \in InstallModMenu(h) : Good(b)
<1>1. ASSUME NEW s \in Servers
      PROVE  Good(Act(h, "install", <<s, File>>))
  <2>1. ActionUrl("install", <<s, File>>) \in Urls
    BY DEF ActionUrl, Urls
  <2>2. Step(h.current, ActionUrl("install", <<s, File>>))
    BY DEF Step, Leads, ActionUrl
  <2> QED
    BY <2>1, <2>2, ActGood
<1> QED
  BY <1>1, MenuGood DEF InstallModMenu

(***************************************************************************)
(* The inductive invariant                                                 *)
(***************************************************************************)
\* What stands on a message or a form: an id of this life is in the map, an id of an
\* earlier one never comes back.
Kept(b, ids, life) ==
  /\ b.id.of = b.means
  /\ b.id.life \in Nat /\ b.id.life <= life
  /\ b.id.life = life => b.id \in ids

MapInv      == \A id \in remembered : WellFormed(id.of) /\ id.life = restarts
ShownInv    == /\ shown = [s \in Slots |-> shown[s]]
               /\ \A s \in Slots : \A b \in shown[s] : Good(b) /\ Kept(b, remembered, restarts)
FormsInv    == \A f \in forms : f.slot \in Slots /\ Good(f) /\ Kept(f, remembered, restarts)
HandlersInv == \A t \in handlers : /\ t.slot \in Slots /\ WellFormed(t.h)
                                   /\ ~Panics(t.h) /\ Meant(t.h, t.by)
                                   /\ t.h.current.url # "install"
DiedInv     == died \subseteq {PageUrl("mods", <<s>>) : s \in Servers}

MenusInv ==
  restarts \in Nat /\ MapInv /\ ShownInv /\ FormsInv /\ HandlersInv /\ DiedInv /\ CommandsAreMeant

LEMMA ToIdRight ==
  ASSUME restarts \in Nat, MapInv, NEW h
  PROVE  ToId(h).of = h /\ ToId(h).life = restarts
<1>1. CASE Known(h) # {}
  <2>1. ToId(h) = CHOOSE id \in Known(h) : TRUE
    BY <1>1 DEF ToId
  <2>2. ToId(h) \in Known(h)
    BY <1>1, <2>1
  <2> QED
    BY <2>2 DEF Known, MapInv
<1>2. CASE Known(h) = {}
  BY <1>2 DEF ToId
<1> QED
  BY <1>1, <1>2

\* Putting good buttons on a message keeps the map, the messages and the forms right.
LEMMA PutKeeps ==
  ASSUME MenusInv, NEW slot \in Slots, NEW buttons, \A b \in buttons : Good(b),
         Put(slot, buttons), restarts' = restarts
  PROVE  /\ MapInv' /\ ShownInv'
         /\ forms' \subseteq forms => FormsInv'
<1> DEFINE new == {[label |-> b.label, server |-> b.server,
                    means |-> b.means, id |-> ToId(b.means)] : b \in buttons}
<1>1. /\ remembered' = remembered \union {b.id : b \in new}
      /\ shown' = shown \/ shown' = [shown EXCEPT ![slot] = new]
  BY DEF Put
<1>2. ASSUME NEW b \in new
      PROVE  Good(b) /\ Kept(b, remembered', restarts) /\ WellFormed(b.id.of) /\ b.id.life = restarts
  <2>1. PICK c \in buttons : b = [label |-> c.label, server |-> c.server,
                                  means |-> c.means, id |-> ToId(c.means)]
    OBVIOUS
  <2>2. /\ b.label = c.label /\ b.server = c.server /\ b.means = c.means
        /\ b.id = ToId(c.means)
    BY <2>1
  <2>3. b.id.of = c.means /\ b.id.life = restarts /\ restarts \in Nat
    BY <2>2, ToIdRight DEF MenusInv
  <2>4. b.id \in remembered'
    BY <1>1
  <2>5. Good(c)
    OBVIOUS
  <2>6. Good(b) /\ WellFormed(b.id.of)
    BY <2>2, <2>3, <2>5 DEF Good, Meant
  <2>7. Kept(b, remembered', restarts)
    BY <2>2, <2>3, <2>4 DEF Kept
  <2> QED
    BY <2>3, <2>6, <2>7
<1> HIDE DEF new
<1>3. MapInv'
  BY <1>1, <1>2 DEF MenusInv, MapInv
<1>4. \A b : Kept(b, remembered, restarts) => Kept(b, remembered', restarts)
  BY <1>1 DEF Kept
<1>5. ShownInv'
  <2>1. CASE shown' = shown
    BY <1>4, <2>1 DEF MenusInv, ShownInv
  <2>2. CASE shown' = [shown EXCEPT ![slot] = new]
    <3>1. shown' = [s \in Slots |-> shown'[s]]
      BY <2>2 DEF MenusInv, ShownInv
    <3>2. \A s \in Slots : shown'[s] = IF s = slot THEN new ELSE shown[s]
      BY <2>2 DEF MenusInv, ShownInv
    <3>3. ASSUME NEW s \in Slots, NEW b \in shown'[s]
          PROVE  Good(b) /\ Kept(b, remembered', restarts)
      BY <1>2, <1>4, <3>2 DEF MenusInv, ShownInv
    <3> QED
      BY <3>1, <3>3 DEF ShownInv
  <2> QED
    BY <1>1, <2>1, <2>2
<1>6. forms' \subseteq forms => FormsInv'
  BY <1>4 DEF MenusInv, FormsInv
<1> QED
  BY <1>3, <1>5, <1>6

\* What is found under the id of a button or a form.
LEMMA Found ==
  ASSUME MenusInv, NEW b, Good(b), Kept(b, remembered, restarts)
  PROVE  /\ FromId(b.id) = IF b.id.life = restarts THEN b.means ELSE NewHistory("broken")
         /\ \/ FromId(b.id).current.kind = "Action"
            \/ FromId(b.id).current.url # "broken"
            => /\ WellFormed(FromId(b.id)) /\ Meant(FromId(b.id), b)
               /\ ~Offer(FromId(b.id).current)
<1>1. b.id \in remembered <=> b.id.life = restarts
  BY DEF MenusInv, MapInv, Kept
<1>2. FromId(b.id) = IF b.id.life = restarts THEN b.means ELSE NewHistory("broken")
  BY <1>1 DEF FromId, Kept
<1>3. NewHistory("broken").current.url = "broken" /\ NewHistory("broken").current.kind = "Page"
  BY DEF NewHistory, PageUrl
<1> QED
  BY <1>2, <1>3 DEF Good

\* Only the page of /mods lacks an argument.
LEMMA PanicsOnlyAtMods ==
  ASSUME NEW u \in Urls, u.url \in DOMAIN Reads, Len(u.arguments) < Reads[u.url],
         ~Offer(u)
  PROVE  u \in {PageUrl("mods", <<s>>) : s \in Servers}
<1>1. CASE u \in [kind : {"Page"}, url : {"menu"}, arguments : Named]
  <2>1. PICK s \in Servers : u.arguments = <<s>>
    BY <1>1 DEF Named
  <2>2. Len(u.arguments) = 1 /\ u.url = "menu"
    BY <1>1, <2>1
  <2> QED
    BY <2>2 DEF Reads
<1>2. CASE u \in [kind : {"Page"}, url : {"mods"}, arguments : Named \union (Servers \X Nat)]
  <2>1. u.url = "mods" /\ Reads["mods"] = 2
    BY <1>2 DEF Reads
  <2>2. ASSUME u.arguments \in Servers \X Nat
        PROVE  FALSE
    <3>1. PICK s \in Servers, k \in Nat : u.arguments = <<s, k>>
      BY <2>2
    <3>2. Len(u.arguments) = 2
      BY <3>1
    <3> QED
      BY <2>1, <3>2
  <2>3. PICK s \in Servers : u.arguments = <<s>>
    BY <1>2, <2>2 DEF Named
  <2>4. u = PageUrl("mods", <<s>>)
    BY <1>2, <2>3 DEF PageUrl
  <2> QED
    BY <2>4
<1>3. CASE u \in [kind : {"Page"}, url : {"mod"}, arguments : Servers \X Mods]
  <2>1. PICK s \in Servers, m \in Mods : u.arguments = <<s, m>>
    BY <1>3
  <2>2. Len(u.arguments) = 2 /\ u.url = "mod"
    BY <1>3, <2>1
  <2> QED
    BY <2>2 DEF Reads
<1>4. CASE u.url = "dashboard" \/ Offer(u)
  BY <1>4 DEF Reads
<1>5. CASE u \in [kind : {"Action"}, arguments : Named,
                 url : {"start", "stop", "reboot", "zip", "command", "backup", "restore"}]
  <2>1. PICK s \in Servers : u.arguments = <<s>>
    BY <1>5 DEF Named
  <2>2. Len(u.arguments) = 1
    BY <2>1
  <2> QED
    BY <1>5, <2>2 DEF Reads
<1>6. CASE u \in [kind : {"Action"}, url : {"uninstall"}, arguments : Servers \X Mods]
  <2>1. PICK s \in Servers, m \in Mods : u.arguments = <<s, m>>
    BY <1>6
  <2>2. Len(u.arguments) = 2
    BY <2>1
  <2> QED
    BY <1>6, <2>2 DEF Reads
<1>7. CASE u \in [kind : {"Action"}, url : {"install"}, arguments : Servers \X {File}]
  <2>1. PICK s \in Servers : u.arguments = <<s, File>>
    BY <1>7
  <2>2. Len(u.arguments) = 2
    BY <2>1
  <2> QED
    BY <1>7, <2>2 DEF Reads
<1>8. CASE u \in [kind : {"Page"}, url : {"dashboard", "install"}, arguments : {<< >>}]
  BY <1>4, <1>8 DEF Offer
<1> QED
  BY <1>1, <1>2, <1>3, <1>5, <1>6, <1>7, <1>8 DEF Urls

\* What may be shown for a press that was handled.
LEMMA ShowGood ==
  ASSUME NEW slot, NEW h, WellFormed(h), ~Panics(h), h.current.url # "install", Show(slot, h)
  PROVE  \E buttons : Put(slot, buttons) /\ \A b \in buttons : Good(b)
<1> DEFINE args == h.current.arguments
<1>1. h.current \in Urls
  BY DEF WellFormed
<1>2. CASE Put(slot, ResultMenu(h))
  BY <1>2, ResultGood
<1>3. CASE h.current.url = "dashboard" /\ Put(slot, DashboardMenu(h))
  <2>1. h.current.kind = "Page"
    BY <1>1, <1>3 DEF Urls
  <2> QED
    BY <1>3, <2>1, DashboardGood
<1>4. CASE h.current.url = "menu" /\ \E status \in Statuses : Put(slot, ServerMenu(h, args[1], status))
  <2>1. h.current.kind = "Page" /\ args \in Named
    BY <1>1, <1>4 DEF Urls
  <2>2. args[1] \in Servers
    BY <2>1 DEF Named
  <2> QED
    BY <1>4, <2>1, <2>2, ServerGood
<1>5. CASE /\ h.current.url = "mods"
           /\ \E mods \in SUBSET Mods, finished \in BOOLEAN :
                (finished \/ args[2] < MaxPage) /\ Put(slot, ModMenu(h, args[1], args[2], mods, finished))
  <2>1. h.current.kind = "Page" /\ args \in Named \union (Servers \X Nat)
    BY <1>1, <1>5 DEF Urls
  <2>2. args \notin Named
    <3>1. Reads["mods"] = 2 /\ "mods" \in DOMAIN Reads
      BY DEF Reads
    <3>2. ~(Len(args) < 2)
      BY <1>5, <3>1 DEF Panics
    <3>3. \A s \in Servers : Len(<<s>>) < 2
      OBVIOUS
    <3> QED
      BY <3>2, <3>3 DEF Named
  <2>3. args[1] \in Servers /\ args[2] \in Nat
    BY <2>1, <2>2
  <2> QED
    BY <1>5, <2>1, <2>3, ModsGood
<1>6. CASE h.current.url = "mod" /\ Put(slot, SingleModMenu(h, args[1], args[2]))
  <2>1. h.current.kind = "Page" /\ args \in Servers \X Mods
    BY <1>1, <1>6 DEF Urls
  <2>2. args[1] \in Servers /\ args[2] \in Mods /\ args = <<args[1], args[2]>>
    BY <2>1
  <2> QED
    BY <1>6, <2>1, <2>2, SingleModGood
<1> QED
  BY <1>2, <1>3, <1>4, <1>5, <1>6 DEF Show

(***************************************************************************)
(* Steps                                                                   *)
(***************************************************************************)
LEMMA InitMenus == Init => MenusInv
  BY DEF Init, MenusInv, MapInv, ShownInv, FormsInv, HandlersInv, DiedInv, CommandsAreMeant

LEMMA AskKeeps ==
  ASSUME MenusInv, NEW slot \in Slots, Ask(slot)
  PROVE  MenusInv'
<1>1. /\ forms' = forms /\ handlers' = handlers /\ sent' = sent /\ died' = died
      /\ restarts' = restarts
  BY DEF Ask
<1>2. \E buttons : Put(slot, buttons) /\ \A b \in buttons : Good(b)
  <2>1. CASE Put(slot, DashboardMenu(NewHistory("dashboard")))
    <3>1. WellFormed(NewHistory("dashboard"))
      <4>1. NewHistory("dashboard") \in Histories /\ Way2(NewHistory("dashboard"))
        BY DEF NewHistory, PageUrl, Histories, Urls, Way2, Root
      <4> QED
        BY <4>1, WellFormedAlt
    <3>2. NewHistory("dashboard").current.kind = "Page" /\ NewHistory("dashboard").current.url = "dashboard"
      BY DEF NewHistory, PageUrl
    <3> QED
      BY <2>1, <3>1, <3>2, DashboardGood
  <2>2. CASE \E s \in Servers, ms \in SUBSET Mods, f \in BOOLEAN :
               LET h == [history |-> << >>, current |-> PageUrl("mods", <<s>>)]
               IN  Put(slot, ModMenu(h, s, 0, ms, f))
    <3>1. PICK s \in Servers, ms \in SUBSET Mods, f \in BOOLEAN :
            Put(slot, ModMenu([history |-> << >>, current |-> PageUrl("mods", <<s>>)], s, 0, ms, f))
      BY <2>2
    <3> DEFINE h == [history |-> << >>, current |-> PageUrl("mods", <<s>>)]
    <3>2. WellFormed(h)
      <4>1. h \in Histories /\ Way2(h)
        BY DEF PageUrl, Histories, Urls, Named, Way2, Root
      <4> QED
        BY <4>1, WellFormedAlt
    <3>3. h.current.kind = "Page" /\ h.current.url = "mods" /\ h.current.arguments[1] = s
      BY DEF PageUrl
    <3> HIDE DEF h
    <3>4. \A b \in ModMenu(h, s, 0, ms, f) : Good(b)
      BY <3>2, <3>3, ModsGood
    <3> QED
      BY <3>1, <3>4 DEF h
  <2>3. CASE Put(slot, InstallModMenu(NewHistory("install")))
    <3>1. WellFormed(NewHistory("install"))
      <4>1. NewHistory("install") \in Histories /\ Way2(NewHistory("install"))
        BY DEF NewHistory, PageUrl, Histories, Urls, Way2, Root
      <4> QED
        BY <4>1, WellFormedAlt
    <3>2. /\ NewHistory("install").current.kind = "Page"
          /\ NewHistory("install").current.url = "install"
          /\ ~CanExit(NewHistory("install"))
      BY DEF NewHistory, PageUrl, CanExit, PagesPassed
    <3> QED
      BY <2>3, <3>1, <3>2, InstallGood
  <2> QED
    BY <2>1, <2>2, <2>3 DEF Ask
<1>3. MapInv' /\ ShownInv' /\ FormsInv'
  BY <1>1, <1>2, PutKeeps
<1> QED
  BY <1>1, <1>3 DEF MenusInv, HandlersInv, DiedInv, CommandsAreMeant

\* A form sent or given up.
LEMMA FewerForms ==
  ASSUME MenusInv, forms' \subseteq forms, remembered' = remembered, restarts' = restarts
  PROVE  FormsInv'
BY DEF MenusInv, FormsInv

\* A press that waits for its answer.
LEMMA AwaitKeeps ==
  ASSUME MenusInv, NEW slot \in Slots, NEW h, NEW by, Await(slot, h, by),
         WellFormed(h), ~Panics(h), Meant(h, by), h.current.url # "install"
  PROVE  HandlersInv'
BY DEF MenusInv, HandlersInv, Await

LEMMA PressPageKeeps ==
  ASSUME MenusInv, NEW slot \in Slots, NEW b \in shown[slot], PressPage(slot, b)
  PROVE  MenusInv'
<1> DEFINE h == FromId(b.id)
<1>1. Good(b) /\ Kept(b, remembered, restarts)
  BY DEF MenusInv, ShownInv
<1>2. h.current.url # "broken" => WellFormed(h) /\ Meant(h, b) /\ ~Offer(h.current)
  BY <1>1, Found
<1>3. h.current.kind = "Page" /\ forms' = forms /\ sent' = sent /\ restarts' = restarts
  BY DEF PressPage
<1> HIDE DEF h
<1>4. CASE h.current.url = "broken"
  <2>1. Put(slot, NoButtons) /\ handlers' = handlers /\ died' = died
    BY <1>4 DEF PressPage, h
  <2>2. MapInv' /\ ShownInv' /\ FormsInv'
    BY <1>3, <2>1, PutKeeps DEF NoButtons
  <2> QED
    BY <1>3, <2>1, <2>2 DEF MenusInv, HandlersInv, DiedInv, CommandsAreMeant
<1>5. CASE h.current.url # "broken"
  <2>1. /\ ~Panics(h) /\ Await(slot, h, b)
        /\ remembered' = remembered /\ shown' = shown /\ died' = died
    BY <1>5 DEF PressPage, h
  <2>2. HandlersInv'
    BY <1>2, <1>3, <1>5, <2>1, AwaitKeeps DEF Offer
  <2> QED
    BY <1>3, <2>1, <2>2 DEF MenusInv, MapInv, ShownInv, FormsInv, DiedInv, CommandsAreMeant
<1> QED
  BY <1>4, <1>5

\* Only the url of /mods lacks an argument, whatever is pressed or sent.
LEMMA PressPanicsKeeps ==
  ASSUME MenusInv, NEW by, Good(by), Kept(by, remembered, restarts), PressPanics(by)
  PROVE  MenusInv'
<1> DEFINE h == FromId(by.id)
<1>1. /\ Panics(h) /\ died' = died \union {h.current} /\ remembered' = remembered
      /\ shown' = shown /\ forms' = forms /\ handlers' = handlers /\ sent' = sent
      /\ restarts' = restarts
  BY DEF PressPanics
<1>2. WellFormed(h) /\ ~Offer(h.current)
  BY <1>1, Found DEF Panics, Reads
<1> HIDE DEF h
<1>3. h.current \in Urls /\ h.current.url \in DOMAIN Reads
  BY <1>1, <1>2 DEF WellFormed, Panics
<1>4. h.current \in {PageUrl("mods", <<s>>) : s \in Servers}
  BY <1>1, <1>2, <1>3, PanicsOnlyAtMods DEF Panics
<1> QED
  BY <1>1, <1>4 DEF MenusInv, MapInv, ShownInv, FormsInv, HandlersInv, DiedInv, CommandsAreMeant

LEMMA PressActionKeeps ==
  ASSUME MenusInv, NEW slot \in Slots, NEW b \in shown[slot], PressAction(slot, b)
  PROVE  MenusInv'
<1> DEFINE h   == FromId(b.id)
           url == h.current.url
<1>1. Good(b) /\ Kept(b, remembered, restarts)
  BY DEF MenusInv, ShownInv
<1>2. h.current.kind = "Action" /\ ~Panics(h) /\ died' = died /\ restarts' = restarts
  BY DEF PressAction
<1>3. WellFormed(h) /\ Meant(h, b) /\ ~Offer(h.current)
  BY <1>1, <1>2, Found
<1>4. b.label = url /\ b.server = h.current.arguments[1]
  BY <1>2, <1>3 DEF Meant
<1> HIDE DEF h
<1>5. CASE /\ url \in {"start", "stop", "reboot", "zip"}
           /\ Sends(url, h, b) /\ Await(slot, h, b)
           /\ UNCHANGED <<remembered, shown, forms>>
  <2>1. HandlersInv'
    BY <1>2, <1>3, <1>5, AwaitKeeps
  <2>2. CommandsAreMeant'
    BY <1>4, <1>5 DEF Sends, CommandsAreMeant
  <2> QED
    BY <1>2, <1>5, <2>1, <2>2 DEF MenusInv, MapInv, ShownInv, FormsInv, DiedInv
<1>6. CASE /\ url = "uninstall" /\ Await(slot, h, b)
           /\ UNCHANGED <<remembered, shown, forms, sent>>
  <2>1. HandlersInv'
    BY <1>2, <1>3, <1>6, AwaitKeeps
  <2> QED
    BY <1>2, <1>6, <2>1 DEF MenusInv, MapInv, ShownInv, FormsInv, DiedInv, CommandsAreMeant
<1>7. CASE /\ url = "install" /\ (Sends(url, h, b) \/ UNCHANGED sent)
           /\ shown' \in {shown, [shown EXCEPT ![slot] = {}]}
           /\ UNCHANGED <<remembered, forms, handlers>>
  <2>1. CommandsAreMeant'
    BY <1>4, <1>7 DEF Sends, CommandsAreMeant, MenusInv
  <2>2. ShownInv'
    BY <1>2, <1>7 DEF MenusInv, ShownInv
  <2> QED
    BY <1>2, <1>7, <2>1, <2>2 DEF MenusInv, MapInv, FormsInv, HandlersInv, DiedInv
<1>8. CASE /\ url \in {"command", "backup", "restore"}
           /\ forms' = forms \union {[slot |-> slot, label |-> url, id |-> ToId(h),
                                      server |-> h.current.arguments[1], means |-> h]}
           /\ remembered' = remembered \union {ToId(h)}
           /\ UNCHANGED <<shown, handlers, sent>>
  <2> DEFINE f == [slot |-> slot, label |-> url, id |-> ToId(h),
                   server |-> h.current.arguments[1], means |-> h]
  <2>1. ToId(h).of = h /\ ToId(h).life = restarts /\ restarts \in Nat
    BY ToIdRight DEF MenusInv
  <2>2. MapInv'
    BY <1>2, <1>3, <1>8, <2>1 DEF MenusInv, MapInv
  <2>3. \A x : Kept(x, remembered, restarts) => Kept(x, remembered', restarts)
    BY <1>8 DEF Kept
  <2>4. ShownInv'
    BY <1>2, <1>8, <2>3 DEF MenusInv, ShownInv
  <2>5. /\ f.slot = slot /\ f.label = url /\ f.id = ToId(h)
        /\ f.server = h.current.arguments[1] /\ f.means = h
    OBVIOUS
  <2>6. forms' = forms \union {f}
    BY <1>8
  <2> HIDE DEF f
  <2>7. Good(f)
    BY <1>3, <2>5 DEF Good, Meant
  <2>8. Kept(f, remembered', restarts)
    BY <1>8, <2>1, <2>5 DEF Kept
  <2>9. FormsInv'
    BY <1>2, <2>3, <2>5, <2>6, <2>7, <2>8 DEF MenusInv, FormsInv
  <2> QED
    BY <1>2, <1>8, <2>2, <2>4, <2>9 DEF MenusInv, HandlersInv, DiedInv, CommandsAreMeant
<1> QED
  BY <1>5, <1>6, <1>7, <1>8 DEF PressAction, h

LEMMA SendFormKeeps ==
  ASSUME MenusInv, NEW form \in forms, NEW phrases \in BOOLEAN, NEW name,
         SendForm(form, phrases, name)
  PROVE  MenusInv'
<1> DEFINE h   == FromId(form.id)
           url == h.current.url
<1>1. Good(form) /\ Kept(form, remembered, restarts) /\ form.slot \in Slots
  BY DEF MenusInv, FormsInv
<1>2. forms' = forms \ {form} /\ died' = died /\ restarts' = restarts
  BY DEF SendForm
<1>3. url # "broken" => WellFormed(h) /\ Meant(h, form) /\ ~Offer(h.current)
  BY <1>1, Found
<1> HIDE DEF h
<1>4. CASE h.current.kind = "Page" /\ UNCHANGED <<remembered, shown, handlers, sent>>
  BY <1>2, <1>4, FewerForms
    DEF MenusInv, MapInv, ShownInv, HandlersInv, DiedInv, CommandsAreMeant
<1>5. CASE /\ url = "command" \/ (url \in {"backup", "restore"} /\ phrases
                                     /\ name = h.current.arguments[1])
           /\ Sends(url, h, form) /\ Await(form.slot, h, form)
           /\ UNCHANGED <<remembered, shown>>
  <2>1. WellFormed(h) /\ Meant(h, form) /\ h.current \in Urls
    BY <1>3, <1>5 DEF WellFormed
  <2>2. h.current.kind = "Action" /\ h.current.arguments \in Named
    BY <1>5, <2>1 DEF Urls
  <2>3. ~Panics(h)
    <3>1. \A s \in Servers : Len(<<s>>) = 1
      OBVIOUS
    <3>2. Len(h.current.arguments) = 1
      BY <2>2, <3>1 DEF Named
    <3> QED
      BY <1>5, <3>2 DEF Panics, Reads
  <2>4. HandlersInv'
    BY <1>1, <1>5, <2>1, <2>3, AwaitKeeps
  <2>5. CommandsAreMeant'
    BY <1>5, <2>1, <2>2 DEF Sends, CommandsAreMeant, Meant
  <2> QED
    BY <1>2, <1>5, <2>4, <2>5, FewerForms DEF MenusInv, MapInv, ShownInv, DiedInv
<1>6. CASE /\ url \in {"backup", "restore"} /\ ~(phrases /\ name = h.current.arguments[1])
           /\ Put(form.slot, ResultMenu(h))
           /\ UNCHANGED <<handlers, sent>>
  <2>1. \A b \in ResultMenu(h) : Good(b)
    BY <1>3, <1>6, ResultGood
  <2>2. MapInv' /\ ShownInv' /\ FormsInv'
    BY <1>1, <1>2, <1>6, <2>1, PutKeeps
  <2> QED
    BY <1>2, <1>6, <2>2 DEF MenusInv, HandlersInv, DiedInv, CommandsAreMeant
<1> QED
  BY <1>4, <1>5, <1>6 DEF SendForm, h

LEMMA AnswerKeeps ==
  ASSUME MenusInv, NEW t \in handlers, Answer(t)
  PROVE  MenusInv'
<1>1. /\ t.slot \in Slots /\ WellFormed(t.h) /\ ~Panics(t.h) /\ Meant(t.h, t.by)
      /\ t.h.current.url # "install"
  BY DEF MenusInv, HandlersInv
<1>2. handlers' = handlers \ {t} /\ forms' = forms /\ died' = died /\ restarts' = restarts
  BY DEF Answer
<1>3. HandlersInv'
  BY <1>2 DEF MenusInv, HandlersInv
<1>4. CASE Show(t.slot, t.h) /\ UNCHANGED sent
  <2>1. MapInv' /\ ShownInv' /\ FormsInv'
    BY <1>1, <1>2, <1>4, ShowGood, PutKeeps
  <2> QED
    BY <1>2, <1>3, <1>4, <2>1 DEF MenusInv, DiedInv, CommandsAreMeant
<1>5. CASE t.h.current.url = "uninstall" /\ Sends("uninstall", t.h, t.by) /\ UNCHANGED <<remembered, shown>>
  <2>1. t.h.current.kind = "Action"
    BY <1>1, <1>5 DEF WellFormed, Urls
  <2>2. CommandsAreMeant'
    BY <1>1, <1>5, <2>1 DEF Meant, Sends, CommandsAreMeant
  <2> QED
    BY <1>2, <1>3, <1>5, <2>2 DEF MenusInv, MapInv, ShownInv, FormsInv, DiedInv
<1> QED
  BY <1>4, <1>5 DEF Answer

LEMMA RestartKeeps ==
  ASSUME MenusInv, Restart
  PROVE  MenusInv'
<1>1. /\ restarts' = restarts + 1 /\ restarts \in Nat /\ remembered' = {} /\ handlers' = {}
      /\ sent' = None /\ shown' = shown /\ forms' = forms /\ died' = died
  BY DEF Restart, MenusInv
<1>2. \A b : Kept(b, remembered, restarts) => Kept(b, remembered', restarts')
  BY <1>1 DEF Kept
<1> QED
  BY <1>1, <1>2 DEF MenusInv, MapInv, ShownInv, FormsInv, HandlersInv, DiedInv, CommandsAreMeant

LEMMA StepMenus == MenusInv /\ [Next]_vars => MenusInv'
<1> SUFFICES ASSUME MenusInv, [Next]_vars PROVE MenusInv'
  OBVIOUS
<1>1. CASE \E slot \in Slots : Ask(slot)
  BY <1>1, AskKeeps
<1>2. CASE \E slot \in Slots : \E b \in shown[slot] : PressPage(slot, b) \/ PressAction(slot, b)
  BY <1>2, PressPageKeeps, PressActionKeeps
<1>3. CASE \E form \in forms : \E phrases \in BOOLEAN, name \in Servers : SendForm(form, phrases, name)
  BY <1>3, SendFormKeeps
<1>4. CASE \E form \in forms : Cancel(form)
  <2>1. /\ forms' \subseteq forms /\ remembered' = remembered /\ shown' = shown
        /\ handlers' = handlers /\ sent' = sent /\ died' = died /\ restarts' = restarts
    BY <1>4 DEF Cancel
  <2> QED
    BY <2>1, FewerForms DEF MenusInv, MapInv, ShownInv, HandlersInv, DiedInv, CommandsAreMeant
<1>5. CASE \E t \in handlers : Answer(t)
  BY <1>5, AnswerKeeps
<1>6. CASE Restart
  BY <1>6, RestartKeeps
<1>7. CASE \E by \in Pressable : PressPanics(by)
  BY <1>7, PressPanicsKeeps DEF MenusInv, ShownInv, FormsInv, Pressable
<1>8. CASE UNCHANGED vars
  BY <1>8 DEF vars, MenusInv, MapInv, ShownInv, FormsInv, HandlersInv, DiedInv, CommandsAreMeant
<1> QED
  BY <1>1, <1>2, <1>3, <1>4, <1>5, <1>6, <1>7, <1>8 DEF Next

LEMMA MenusInvariant == Spec => []MenusInv
<1> QED
  BY InitMenus, StepMenus, PTL DEF Spec

(***************************************************************************)
(* The theorems                                                            *)
(***************************************************************************)
\* The map of menus holds only ways that the pages offer, with the arguments their
\* handlers read, and no handler panics but at the page of /mods.
THEOREM HistoriesAreWays == Spec => []MenusWellFormed
<1>1. MenusInv => MenusWellFormed
  BY DEF MenusInv, MapInv, HandlersInv, DiedInv, MenusWellFormed
<1> QED
  BY <1>1, MenusInvariant, PTL

\* A button or a form does what it was shown for in the life it was shown in, and
\* nothing in a later one (MenuHistory::to_id and from_id).
THEOREM ButtonsKeepMeaning == Spec => []ButtonsMean
<1>1. MenusInv => ButtonsMean
  <2> SUFFICES ASSUME MenusInv, NEW b \in Pressable
               PROVE  FromId(b.id) = IF b.id.life = restarts THEN b.means ELSE NewHistory("broken")
    BY DEF ButtonsMean
  <2>0. b \in forms \/ b \in UNION {shown[s] : s \in Slots}
    BY DEF Pressable
  <2>1. CASE b \in forms
    BY <2>1, Found DEF MenusInv, FormsInv
  <2>2. CASE b \in UNION {shown[s] : s \in Slots}
    <3>1. PICK s \in Slots : b \in shown[s]
      BY <2>2
    <3>2. Good(b) /\ Kept(b, remembered, restarts)
      BY <3>1 DEF MenusInv, ShownInv
    <3> QED
      BY <3>2, Found
  <2> QED
    BY <2>0, <2>1, <2>2
<1> QED
  BY <1>1, MenusInvariant, PTL

\* No way through the menus sends a command that no button of that name on a menu of
\* that server asked for.
THEOREM CommandsAskedFor == Spec => []CommandsAreMeant
<1>1. MenusInv => CommandsAreMeant
  BY DEF MenusInv
<1> QED
  BY <1>1, MenusInvariant, PTL
=============================================================================
