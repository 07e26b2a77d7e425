------------------------------- MODULE Menus --------------------------------
(***************************************************************************)
(* The menus of the bot (MENUS, MenuHistory, ProcessedMenu, the pages and  *)
(* interaction_create, mcayb/src/bot.rs).  A button carries only an id: a  *)
(* random number that stands, in a map that lives as long as the process,  *)
(* for the page or action it leads to and the pages passed on the way.     *)
(*                                                                         *)
(* A press is handled in two steps: the command is sent, and the message   *)
(* is changed once sv_manage has answered; other presses, and a restart of *)
(* the bot, come in between.  What sv_manage answers is left open.         *)
(***************************************************************************)
EXTENDS Integers, Sequences

CONSTANTS Servers, Mods,
          ReservedMods,  \* minecraft and forge
          File,          \* the channel and the message of an uploaded file
          Slots,         \* messages of the bot that can still be pressed
          MaxPage,       \* bound: pages of the list of mods
          MaxPresses,    \* bound: presses, forms sent and menus asked for
          MaxRestarts,   \* bound: restarts of the bot
          None

ASSUME ReservedModsAssumption == ReservedMods \subseteq Mods
ASSUME MaxPageAssumption == MaxPage \in Nat

VARIABLES remembered,  \* MENUS: the ids given out, each with what it stands for
          shown,       \* the buttons of each message
          forms,       \* the forms that are open
          handlers,    \* presses whose command is not answered yet
          sent,        \* the last command that changes something, and what asked for it
          died,        \* urls at which a handler has panicked
          restarts, presses

vars == <<remembered, shown, forms, handlers, sent, died, restarts, presses>>

(***************************************************************************)
(* MenuUrl and MenuHistory                                                 *)
(***************************************************************************)
PageUrl(url, args)   == [kind |-> "Page", url |-> url, arguments |-> args]
ActionUrl(url, args) == [kind |-> "Action", url |-> url, arguments |-> args]

NewHistory(main) == [history |-> << >>, current |-> PageUrl(main, << >>)]

EnterPage(h, url) == [history |-> Append(h.history, h.current), current |-> url]

PagesPassed(h) == {i \in DOMAIN h.history : h.history[i].kind = "Page"}

\* Variant: the page is left but stays in the history.
ExitKeepsHistory(h) ==
  [h EXCEPT !.current = h.history[CHOOSE i \in PagesPassed(h) : \A j \in PagesPassed(h) : j <= i]]

\* The last page passed, with what lies before it; only if CanExit.
CanExit(h)  == PagesPassed(h) # {}
ExitPage(h) ==
  LET last == CHOOSE i \in PagesPassed(h) : \A j \in PagesPassed(h) : j <= i
  IN  [history |-> SubSeq(h.history, 1, last - 1), current |-> h.history[last]]

\* Variant: an id is looked up by the page alone.
ToIdByPage(h) ==
  LET alike == {id \in remembered : id.of.current = h.current}
  IN  IF alike # {} THEN CHOOSE id \in alike : TRUE ELSE [life |-> restarts, of |-> h]

\* An id is never drawn twice, not by two lives of the bot either.  to_id looks for
\* an id that already stands for this history.
Known(h) == {id \in remembered : id.of = h}
ToId(h)  == IF Known(h) # {} THEN CHOOSE id \in Known(h) : TRUE ELSE [life |-> restarts, of |-> h]

\* An id that is not in the map stands for a page called broken.
FromId(id) == IF id \in remembered THEN id.of ELSE NewHistory("broken")

(***************************************************************************)
(* What is on a message                                                    *)
(***************************************************************************)
Way(label, h)     == [label |-> label, server |-> None, means |-> h]
Act(h, url, args) == [label |-> url, server |-> args[1], means |-> EnterPage(h, ActionUrl(url, args))]
Go(h, url, args)  == [label |-> url, server |-> args[1], means |-> EnterPage(h, PageUrl(url, args))]

\* ProcessedMenu: Back leads to the page before, Refresh to the page itself.
Menu(h, refresh, buttons) ==
  buttons \union (IF CanExit(h) THEN {Way("Back", ExitPage(h))} ELSE {})
          \union (IF refresh THEN {Way("Refresh", h)} ELSE {})

ResultRefreshed(h) == Menu(h, TRUE, {})   \* variant: a result can be refreshed
ResultMenu(h) == Menu(h, FALSE, {})

\* info_menu and wtf_bad_bot
NoButtons == {}

\* ListServers names all the servers.
DashboardMenu(h) == Menu(h, TRUE, {Go(h, "menu", <<s>>) : s \in Servers})

Statuses == {"Idle", "Starting", "Running", "Stopping", "BackingUp", "Modding"}

ServerMenu(h, s, status) ==
  LET actions == {"reboot"}
                   \union (IF status \in {"Idle", "Stopping"} THEN {"start"} ELSE {})
                   \union (IF status \in {"Running", "Starting"} THEN {"stop"} ELSE {})
                   \union (IF status = "Running" THEN {"command"} ELSE {})
                   \union (IF status = "Idle" THEN {"backup", "restore"} ELSE {})
                   \union (IF status # "Modding" THEN {"zip"} ELSE {})
  IN  Menu(h, TRUE, {Act(h, a, <<s>>) : a \in actions}
                      \union (IF status = "Idle" THEN {Go(h, "mods", <<s, 0>>)} ELSE {}))

\* Previous and Next stand beside the page, they do not lead deeper.
Beside(h, label, s, page) == Way(label, [h EXCEPT !.current = PageUrl("mods", <<s, page>>)])

ModMenu(h, s, page, mods, finished) ==
  Menu(h, TRUE, {Go(h, "mod", <<s, m>>) : m \in mods}
                  \union (IF page # 0 THEN {Beside(h, "Previous", s, page - 1)} ELSE {})
                  \union (IF finished THEN {} ELSE {Beside(h, "Next", s, page + 1)}))

SingleModMenu(h, s, m) ==
  Menu(h, FALSE, IF m \in ReservedMods THEN {} ELSE {Act(h, "uninstall", <<s, m>>)})

InstallModMenu(h) == Menu(h, FALSE, {Act(h, "install", <<s, File>>) : s \in Servers})

\* A message is given its buttons, each with the id of what it means; the call to
\* Discord may fail, or come too late.
Put(slot, buttons) ==
  LET new == {[label |-> b.label, server |-> b.server,
               means |-> b.means, id |-> ToId(b.means)] : b \in buttons}
  IN  /\ remembered' = remembered \union {b.id : b \in new}
      /\ shown' \in {shown, [shown EXCEPT ![slot] = new]}

\* What may be on the message once sv_manage has answered, or failed to.
Show(slot, h) ==
  LET args == h.current.arguments
  IN  \/ Put(slot, ResultMenu(h))
      \/ h.current.url = "dashboard" /\ Put(slot, DashboardMenu(h))
      \/ h.current.url = "menu" /\ \E status \in Statuses : Put(slot, ServerMenu(h, args[1], status))
      \/ /\ h.current.url = "mods"
         /\ \E mods \in SUBSET Mods, finished \in BOOLEAN :
              (finished \/ args[2] < MaxPage) /\ Put(slot, ModMenu(h, args[1], args[2], mods, finished))
      \/ h.current.url = "mod" /\ Put(slot, SingleModMenu(h, args[1], args[2]))

(***************************************************************************)
(* The commands of users, presses and forms                                *)
(***************************************************************************)
Init ==
  /\ remembered = {} /\ shown = [s \in Slots |-> {}] /\ forms = {} /\ handlers = {}
  /\ sent = None /\ died = {} /\ restarts = 0 /\ presses = 0

Count == presses < MaxPresses /\ presses' = presses + 1

\* /dashboard, /mods, and a message that mentions the bot and has a file: a new
\* message of the bot, for one nobody looks at any more.  /mods leaves out the number
\* of the page.
Ask(slot) ==
  /\ Count
  /\ \A x \in handlers \union forms : x.slot # slot
  /\ \/ Put(slot, DashboardMenu(NewHistory("dashboard")))
     \/ \E s \in Servers, ms \in SUBSET Mods, f \in BOOLEAN :
          LET h == [history |-> << >>, current |-> PageUrl("mods", <<s>>)]
          IN  Put(slot, ModMenu(h, s, 0, ms, f))
     \/ Put(slot, InstallModMenu(NewHistory("install")))
  /\ UNCHANGED <<forms, handlers, sent, died, restarts>>

\* The arguments that the handler of a url reads.
Reads == [menu |-> 1, mods |-> 2, mod |-> 2, start |-> 1, stop |-> 1, reboot |-> 1, zip |-> 1,
          command |-> 1, backup |-> 1, restore |-> 1, uninstall |-> 2, install |-> 2]

Panics(h) == h.current.url \in DOMAIN Reads /\ Len(h.current.arguments) < Reads[h.current.url]

Sends(command, h, by) == sent' = [command |-> command, server |-> h.current.arguments[1], by |-> by]

\* Waiting for an answer.
Await(slot, h, by) == handlers' = handlers \union {[slot |-> slot, h |-> h, by |-> by]}

Pressable == (UNION {shown[s] : s \in Slots}) \union forms

\* The handler of a button or form reads an argument that is not there.
PressPanics(by) ==
  LET h == FromId(by.id)
  IN  /\ Panics(h) /\ Count
      /\ died' = died \union {h.current}
      /\ UNCHANGED <<remembered, shown, forms, handlers, sent, restarts>>

PressPage(slot, b) ==
  LET h == FromId(b.id)
  IN  /\ h.current.kind = "Page" /\ ~Panics(h) /\ Count
      /\ IF h.current.url = "broken" THEN Put(slot, NoButtons) /\ UNCHANGED handlers
         ELSE Await(slot, h, b) /\ UNCHANGED <<remembered, shown>>
      /\ UNCHANGED <<forms, sent, died, restarts>>

\* The message of a file to be installed is deleted, if Discord does so; the file is
\* downloaded if it is still there.
PressAction(slot, b) ==
  LET h   == FromId(b.id)
      url == h.current.url
  IN  /\ h.current.kind = "Action" /\ ~Panics(h) /\ Count
      /\ \/ /\ url \in {"start", "stop", "reboot", "zip"}
            /\ Sends(url, h, b) /\ Await(slot, h, b)
            /\ UNCHANGED <<remembered, shown, forms>>
         \/ /\ url = "uninstall"
            /\ Await(slot, h, b)
            /\ UNCHANGED <<remembered, shown, forms, sent>>
         \/ /\ url = "install"
            /\ Sends(url, h, b) \/ UNCHANGED sent
            /\ shown' \in {shown, [shown EXCEPT ![slot] = {}]}
            /\ UNCHANGED <<remembered, forms, handlers>>
         \/ /\ url \in {"command", "backup", "restore"}
            /\ forms' = forms \union {[slot |-> slot, label |-> url, id |-> ToId(h),
                                       server |-> h.current.arguments[1], means |-> h]}
            /\ remembered' = remembered \union {ToId(h)}
            /\ UNCHANGED <<shown, handlers, sent>>
      /\ UNCHANGED <<died, restarts>>

\* A form is sent: the two phrases are right or not, and a name was typed.
SendForm(form, phrases, name) ==
  LET h   == FromId(form.id)
      url == h.current.url
  IN  /\ form \in forms /\ ~Panics(h) /\ Count
      /\ forms' = forms \ {form}
      /\ \/ /\ h.current.kind = "Page"  \* a form of an earlier life: a message with no buttons
            /\ UNCHANGED <<remembered, shown, handlers, sent>>
         \/ /\ url = "command" \/ (url \in {"backup", "restore"} /\ phrases
                                     /\ name = h.current.arguments[1])
            /\ Sends(url, h, form) /\ Await(form.slot, h, form)
            /\ UNCHANGED <<remembered, shown>>
         \/ /\ url \in {"backup", "restore"} /\ ~(phrases /\ name = h.current.arguments[1])
            /\ Put(form.slot, ResultMenu(h))
            /\ UNCHANGED <<handlers, sent>>
      /\ UNCHANGED <<died, restarts>>

Cancel(form) ==
  /\ form \in forms /\ forms' = forms \ {form}
  /\ UNCHANGED <<remembered, shown, handlers, sent, died, restarts, presses>>

\* The answer arrives and the message is changed, if it can be.
Answer(t) ==
  /\ t \in handlers /\ handlers' = handlers \ {t}
  /\ \/ Show(t.slot, t.h) /\ UNCHANGED sent
     \/ t.h.current.url = "uninstall" /\ Sends("uninstall", t.h, t.by) /\ UNCHANGED <<remembered, shown>>
  /\ UNCHANGED <<forms, died, restarts, presses>>

\* The bot is killed and started anew; the messages and the open forms stay.
Restart ==
  /\ restarts < MaxRestarts /\ restarts' = restarts + 1
  /\ remembered' = {} /\ handlers' = {} /\ sent' = None
  /\ UNCHANGED <<shown, forms, died, presses>>

Next ==
  \/ \E slot \in Slots : Ask(slot)
  \/ \E slot \in Slots : \E b \in shown[slot] : PressPage(slot, b) \/ PressAction(slot, b)
  \/ \E form \in forms : \/ \E phrases \in BOOLEAN, name \in Servers : SendForm(form, phrases, name)
                         \/ Cancel(form)
  \/ \E by \in Pressable : PressPanics(by)
  \/ \E t \in handlers : Answer(t)
  \/ Restart

Spec == Init /\ [][Next]_vars

(***************************************************************************)
(* Properties                                                              *)
(***************************************************************************)
\* Where a page leads.
Leads ==
  {<<"dashboard", "Page", "menu">>, <<"menu", "Page", "mods">>, <<"mods", "Page", "mod">>,
   <<"mod", "Action", "uninstall">>, <<"install", "Action", "install">>}
    \union ({"menu"} \X {"Action"} \X
              {"start", "stop", "reboot", "zip", "command", "backup", "restore"})

\* The urls an id may stand for: their handlers find the arguments they read, except
\* at the page of /mods, which names no number.
Named == {<<s>> : s \in Servers}
Urls ==
  [kind : {"Page"}, url : {"dashboard", "install"}, arguments : {<< >>}]
    \union [kind : {"Page"}, url : {"menu"}, arguments : Named]
    \union [kind : {"Page"}, url : {"mods"}, arguments : Named \union (Servers \X Nat)]
    \union [kind : {"Page"}, url : {"mod"}, arguments : Servers \X Mods]
    \union [kind : {"Action"}, arguments : Named,
            url : {"start", "stop", "reboot", "zip", "command", "backup", "restore"}]
    \union [kind : {"Action"}, url : {"uninstall"}, arguments : Servers \X Mods]
    \union [kind : {"Action"}, url : {"install"}, arguments : Servers \X {File}]

Step(from, to) ==
  /\ from.kind = "Page"
  /\ <<from.url, to.kind, to.url>> \in Leads
  /\ from.url \in {"menu", "mods", "mod"} => to.arguments[1] = from.arguments[1]
  /\ from.url = "mod" => to.arguments = from.arguments

\* A history is a way that the pages really offer, from one a user asked for: it
\* passes no action, stays with one server and never grows by going back and forth.
WellFormed(h) ==
  LET way == Append(h.history, h.current)
  IN  /\ h \in [history : Seq(Urls), current : Urls]
      /\ way[1].kind = "Page" /\ way[1].url \in {"dashboard", "install", "mods"}
      /\ \A i \in DOMAIN h.history : Step(way[i], way[i + 1])

\* Whatever is pressed in whatever order, on fresh or stale messages, the map holds
\* only ways that the pages offer, and no handler fails but that of Refresh and Back
\* to the menu that /mods shows, whose url lacks the number of the page.
MenusWellFormed ==
  /\ \A id \in remembered : WellFormed(id.of) /\ id.life = restarts
  /\ \A t \in handlers : WellFormed(t.h)
  /\ died \subseteq {PageUrl("mods", <<s>>) : s \in Servers}

\* A button does what it was shown for as long as the bot lives, and after a restart
\* it is outdated: it never leads anywhere else.  So does a form.
ButtonsMean ==
  \A b \in Pressable :
    FromId(b.id) = IF b.id.life = restarts THEN b.means ELSE NewHistory("broken")

\* A command that changes something is sent only for a button, or a form opened by a
\* button, of that name on a menu of that server: no Back, Refresh or page brings an
\* action about a second time.
CommandsAreMeant ==
  sent # None => sent.command = sent.by.label /\ sent.server = sent.by.server
=============================================================================
