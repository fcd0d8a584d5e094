----------------------------- MODULE TileLayout -----------------------------
(***************************************************************************)
(* The panes of one workspace of the tiling manager: a tree of slots, each *)
(* a stack of an empty-slot widget and, above it, an application or a fork *)
(* of two slots (node_veer in tile.hpp).  Splits and closes are jobs that  *)
(* run later, one after the other, while the user goes on; a history of    *)
(* the focus names slots by weak pointers (focus_history_t).               *)
(***************************************************************************)
EXTENDS Naturals, Sequences, FiniteSets, SequencesExt

CONSTANTS
  MaxSlots,  \* slots at any time
  App,       \* applications
  MaxJobs    \* jobs that are waiting when another is added

ASSUME TileAssumption ==
  /\ MaxSlots \in Nat \ {0} /\ MaxJobs \in Nat
  /\ App \cap {"free", "empty", "fork", "none"} = {}

Slot == 1..MaxSlots
Root == 1
Nobody == 0       \* an expired weak pointer

VARIABLES
  item,             \* the top of each slot: "free", "empty", "fork" or an application
  kids,             \* the two slots of its fork
  appSlot,          \* focus_history_t::owners, of applications ...
  emptySlot,        \* ... and of the empty-slot widget at the bottom of each slot
  active, previous, \* focus_history_t::current and previous, for one user
  zoomed,           \* the application on top of the root, and where it came from
  jobs,             \* base::enqueue
  open              \* the applications that were created and have not ended

history  == <<active, previous>>
owners   == <<appSlot, emptySlot>>
tree     == <<item, kids>>
tileVars == <<tree, owners, history, zoomed, jobs, open>>

NotZoomed == [app |-> "none", from |-> Nobody]

Live    == {s \in Slot : item[s] # "free"}
Leaf    == {s \in Live : item[s] # "fork"}
Filled  == {s \in Live : item[s] \in App}

TileInit ==
  /\ item = [s \in Slot |-> IF s = Root THEN "empty" ELSE "free"]
  /\ kids = [s \in Slot |-> <<>>]
  /\ appSlot = [a \in App |-> Nobody]
  /\ emptySlot = [s \in Slot |-> IF s = Root THEN Root ELSE Nobody]
  /\ active = Nobody /\ previous = Nobody
  /\ zoomed = NotZoomed /\ jobs = <<>> /\ open = {}

-----------------------------------------------------------------------------
(* focus_history_t                                                         *)

\* remember: a slot of the history is followed by the next one.
Remember(s) ==
  /\ active' = s
  /\ previous' = IF active \notin {s, Nobody} THEN active ELSE previous

\* Mutant: a split does not move the history.
ReplaceNothing(old, new) == UNCHANGED history

\* replace
Replace(old, new) ==
  /\ active'   = IF active = old THEN new ELSE active
  /\ previous' = IF previous = old THEN new ELSE previous

-----------------------------------------------------------------------------
(* Jobs.                                                                   *)

Job(op, app, slot) == [op |-> op, app |-> app, slot |-> slot]

\* A job whose pane or slot is gone does nothing when its turn comes.
Current(js, slots, apps) ==
  [k \in DOMAIN js |->
     IF IF js[k].app = "none" THEN js[k].slot \in slots ELSE js[k].app \in apps
     THEN js[k] ELSE Job("nothing", "none", Nobody)]

\* A job that splits an empty slot goes where its widget goes.
Follow(js, to) ==
  [k \in DOMAIN js |-> IF js[k].op = "split empty" THEN [js[k] EXCEPT !.slot = to[@]] ELSE js[k]]

\* The neighbours of s in a sequence that ends where it begins.
Index(seq, s)  == CHOOSE i \in DOMAIN seq : seq[i] = s
Before(seq, s) == seq[IF Index(seq, s) = 1 THEN Len(seq) ELSE Index(seq, s) - 1]
After(seq, s)  == seq[IF Index(seq, s) = Len(seq) THEN 1 ELSE Index(seq, s) + 1]

\* Nothing but the next job.
Stay(later) == jobs' = later /\ UNCHANGED <<tree, owners, history, zoomed, open>>

\* createby: an application in an empty slot, unless it is one that may not be there.
CreateIn(s, from, ownersOf) ==
  \/ \E a \in App \ open :
       /\ item' = [from EXCEPT ![s] = a] /\ appSlot' = [ownersOf EXCEPT ![a] = s]
       /\ open' = open \cup {a}
  \/ item' = from /\ appSlot' = ownersOf /\ UNCHANGED open

\* Which slot a new one is does not matter.
AnyOf(set) == CHOOSE x \in set : TRUE

\* The split of slot s: its application, or its empty-slot widget, goes to the first of
\* two new slots, and a new application to the second.
SplitSlot(s, later) ==
  LET l   == AnyOf(Slot \ Live)
      r   == AnyOf(Slot \ (Live \cup {l}))
      was == item[s]
  IN  IF Cardinality(Slot \ Live) < 2
      THEN Stay(later)
      ELSE /\ kids' = [kids EXCEPT ![s] = <<l, r>>, ![l] = kids[s]]
           /\ emptySlot' = [emptySlot EXCEPT ![l] = l, ![r] = r, ![s] = IF was = "empty" THEN s ELSE @]
           /\ CreateIn(r, [item EXCEPT ![s] = "fork", ![l] = was, ![r] = "empty"],
                       [a \in App |-> IF a = was THEN l ELSE appSlot[a]])
           /\ Replace(s, l)
           /\ jobs' = IF was = "empty" THEN Follow(later, [x \in Slot |-> IF x = s THEN l ELSE x]) ELSE later
           /\ UNCHANGED zoomed

\* Mutant: the sibling's application is not handed over.
HandedOverNothing(t) == "empty"

\* request swap: what the parallel slot gives up.
HandedOver(t) == item[t]

\* The empty slot s is closed: its fork is replaced by what the parallel slot t held.
Collapse(p, s, t, later) ==
  LET up   == HandedOver(t)
      gone == {s, t}
      old  == IF up \in App THEN appSlot[up] ELSE Nobody
      to(h) == IF h # Nobody /\ h = old THEN p ELSE IF h \in gone THEN Nobody ELSE h
  IN  /\ item' = [x \in Slot |-> IF x \in gone THEN "free" ELSE IF x = p THEN up ELSE item[x]]
      /\ kids' = [x \in Slot |-> IF x \in gone THEN <<>> ELSE IF x = p THEN kids[t] ELSE kids[x]]
      /\ appSlot' = [a \in App |-> IF a = up THEN p ELSE appSlot[a]]
      /\ emptySlot' = [x \in Slot |-> IF x \in gone THEN Nobody ELSE emptySlot[x]]
      /\ active' = to(active) /\ previous' = to(previous)
      /\ jobs' = Current(later, Live \ gone, open)
      /\ UNCHANGED <<zoomed, open>>

\* release quit at a slot: an application is thrown away, an empty slot is closed.  The
\* root is left to the workspaces.
Quit(s, later) ==
  CASE item[s] \in App ->
         /\ item' = [item EXCEPT ![s] = "empty"] /\ open' = open \ {item[s]}
         /\ appSlot' = [appSlot EXCEPT ![item[s]] = Nobody]
         /\ jobs' = Current(later, Live, open')
         /\ UNCHANGED <<kids, emptySlot, history, zoomed>>
    [] item[s] = "empty" /\ s # Root ->
         \E p \in Live : \E i \in DOMAIN kids[p] :
           kids[p][i] = s /\ Collapse(p, s, kids[p][3 - i], later)
    [] OTHER ->
         jobs' = later /\ UNCHANGED <<tree, owners, history, zoomed, open>>

\* An application that ends while it is zoomed is restored first.
QuitApp(a, later) ==
  IF zoomed.app = a
  THEN /\ zoomed' = NotZoomed /\ open' = open \ {a}
       /\ appSlot' = [appSlot EXCEPT ![a] = Nobody]
       /\ jobs' = Current(later, Live, open')
       /\ UNCHANGED <<tree, emptySlot, history>>
  ELSE \E s \in Filled : item[s] = a /\ Quit(s, later)

\* The next job.
RunJob ==
  /\ jobs # <<>>
  /\ LET j == Head(jobs)
         later == Tail(jobs)
     IN CASE j.op = "split"       -> \E s \in Filled : item[s] = j.app /\ SplitSlot(s, later)
          [] j.op = "split empty" -> SplitSlot(j.slot, later)
          [] j.op = "quit"        -> QuitApp(j.app, later)
          [] j.op = "drop"        -> Quit(j.slot, later)
          [] j.op = "drop if empty" ->
               IF item[j.slot] = "empty" THEN Quit(j.slot, later) ELSE Stay(later)
          [] j.op = "create" ->
               IF item[j.slot] = "empty"
               THEN /\ CreateIn(j.slot, item, appSlot)
                    /\ jobs' = later
                    /\ UNCHANGED <<kids, emptySlot, history, zoomed>>
               ELSE Stay(later)
          [] j.op = "nothing" -> Stay(later)

-----------------------------------------------------------------------------
(* The user.  Every action but the zoom restores a zoomed pane first.      *)

AddJobs(js) ==
  /\ Len(jobs) < MaxJobs
  /\ jobs' = jobs \o js
  /\ UNCHANGED <<tree, owners, history, zoomed, open>>

AtUser == zoomed = NotZoomed

\* focus::on at a pane: the history has the slot that owns it.
Focus(s) ==
  /\ s \in Leaf
  /\ LET own == IF item[s] \in App THEN appSlot[item[s]] ELSE emptySlot[s]
     IN  own # Nobody /\ own # active /\ Remember(own)
  /\ UNCHANGED <<tree, owners, zoomed, jobs, open>>

SplitPane(s) ==
  /\ AtUser /\ s \in Leaf
  /\ AddJobs(<<IF item[s] = "empty" THEN Job("split empty", "none", s)
               ELSE Job("split", item[s], Nobody)>>)

ClosePane(s) ==
  /\ AtUser /\ s \in Leaf
  /\ AddJobs(<<IF item[s] = "empty" THEN Job("drop", "none", s) ELSE Job("quit", item[s], Nobody)>>)

\* The x of an empty slot closes it at once.
CloseEmpty(s) == AtUser /\ s \in Leaf /\ item[s] = "empty" /\ s # Root /\ Quit(s, jobs)

CloseSlot(s) ==
  /\ AtUser /\ s \in Filled
  /\ AddJobs(<<Job("quit", item[s], Nobody), Job("drop if empty", "none", s)>>)

ReRun(s) ==
  /\ AtUser /\ s \in Filled
  /\ AddJobs(<<Job("quit", item[s], Nobody), Job("create", "none", s)>>)

Create(s) ==
  /\ AtUser /\ s \in Leaf /\ item[s] = "empty"
  /\ CreateIn(s, item, appSlot) /\ open' # open
  /\ UNCHANGED <<kids, emptySlot, history, zoomed, jobs>>

\* An application ends by itself.
AppEnds(a) == a \in open /\ AddJobs(<<Job("quit", a, Nobody)>>)

\* Mutant: one side of the fork is written before it is read.
SwapInSplitLate(p) ==
  /\ AtUser /\ item[p] = "fork"
  /\ kids' = [kids EXCEPT ![p] = <<@[2], @[2]>>]
  /\ UNCHANGED <<item, owners, history, zoomed, jobs, open>>

\* swap of one pane: with the other side of its fork.
SwapInSplit(p) ==
  /\ AtUser /\ item[p] = "fork"
  /\ kids' = [kids EXCEPT ![p] = <<@[2], @[1]>>]
  /\ UNCHANGED <<item, owners, history, zoomed, jobs, open>>

\* Each empty-slot widget is bound to the slot it goes to.
RotatedWidgets(sel) == [s \in Slot |-> IF s \in ToSet(sel) THEN s ELSE emptySlot[s]]

\* swap of several panes: each goes to the next slot, with its empty-slot widget.
SwapPanes(sel) ==
  LET moved == [s \in Slot |-> IF s \in ToSet(sel) THEN item[Before(sel, s)] ELSE item[s]]
  IN  /\ AtUser
      /\ item' = moved
      /\ appSlot' = [a \in App |-> IF \E s \in ToSet(sel) : moved[s] = a
                                   THEN CHOOSE s \in ToSet(sel) : moved[s] = a ELSE appSlot[a]]
      /\ emptySlot' = RotatedWidgets(sel)
      /\ jobs' = Follow(jobs, [x \in Slot |-> IF x \in ToSet(sel) THEN After(sel, x) ELSE x])
      /\ UNCHANGED <<kids, history, zoomed, open>>

\* A pane on top of all others, and back.  No job is on its way meanwhile.
Zoom(s) ==
  /\ AtUser /\ jobs = <<>> /\ s \in Filled \ {Root}
  /\ zoomed' = [app |-> item[s], from |-> s]
  /\ item' = [item EXCEPT ![s] = "empty"]
  /\ UNCHANGED <<kids, owners, history, jobs, open>>

Restore ==
  /\ ~AtUser
  /\ item' = [item EXCEPT ![zoomed.from] = zoomed.app]
  /\ zoomed' = NotZoomed
  /\ UNCHANGED <<kids, owners, history, jobs, open>>

-----------------------------------------------------------------------------
\* The panes in the order foreach meets them, ...
PanesOf[s \in Slot] ==
  IF item[s] = "fork" THEN PanesOf[kids[s][1]] \o PanesOf[kids[s][2]] ELSE <<s>>

\* ... and some of them, in that order: those that have the focus.
Selections ==
  LET panes == PanesOf[Root]
  IN  {sel \in UNION {[1..n -> Leaf] : n \in 2..Cardinality(Leaf)} :
         \A i, j \in DOMAIN sel :
           i < j => sel[i] # sel[j] /\ Index(panes, sel[i]) < Index(panes, sel[j])}

TileNext ==
  \/ RunJob \/ Restore
  \/ \E s \in Slot : \/ Focus(s) \/ SplitPane(s) \/ ClosePane(s) \/ CloseEmpty(s) \/ CloseSlot(s)
                     \/ ReRun(s) \/ Create(s) \/ SwapInSplit(s) \/ Zoom(s)
  \/ \E a \in App : AppEnds(a)
  \/ \E sel \in Selections : SwapPanes(sel)

TileSpec == TileInit /\ [][TileNext]_tileVars

-----------------------------------------------------------------------------
\* The panes are a tree: every live slot but the root is one of the two of one fork, and
\* every slot has an empty-slot widget of its own.
TileTypeOK ==
  /\ item \in [Slot -> {"free", "empty", "fork"} \cup App]
  /\ \A s \in Slot : item[s] = "fork" <=> Len(kids[s]) = 2
  /\ \A s \in Live \ {Root} :
       Cardinality({side \in Live \X {1, 2} :
                      side[2] \in DOMAIN kids[side[1]] /\ kids[side[1]][side[2]] = s}) = 1
  /\ Root \in Live
  /\ active \in {Nobody} \cup Slot /\ previous \in {Nobody} \cup Slot
  /\ open \subseteq App /\ Len(jobs) <= MaxJobs + 1
  /\ zoomed # NotZoomed => item[zoomed.from] = "empty"

\* No application is lost: each one that runs is in exactly one pane or zoomed, whatever
\* is split, closed, swapped and zoomed around it.
AppsKept ==
  \A a \in App : Cardinality({s \in Live : item[s] = a}) + (IF zoomed.app = a THEN 1 ELSE 0)
                   = IF a \in open THEN 1 ELSE 0

\* The history can be followed: every pane is owned by the slot it is in (or will be back
\* in), and what the history names is a pane, never a slot that became a fork.
FocusFollowsPanes ==
  /\ \A s \in Filled : appSlot[item[s]] = s
  /\ zoomed # NotZoomed => appSlot[zoomed.app] = zoomed.from
  /\ \A s \in Live : emptySlot[s] = s
  /\ {active, previous} \subseteq Leaf \cup {Nobody}
=============================================================================
