-------------------------- MODULE TileLayoutProofs --------------------------
(* Proofs of what TileLayout promises, for any number of slots, apps and   *)
(* jobs: the panes are a tree, no application is lost, and the history of  *)
(* the focus can be followed.                                              *)
EXTENDS TileLayout, FiniteSetTheorems, TLAPS

Things == {"free", "empty", "fork"} \cup App
Places == {Nobody} \cup Slot
JobRecords ==
  [op : {"split", "split empty", "quit", "drop", "drop if empty", "create", "nothing"},
   app : App \cup {"none"}, slot : Places]

Types ==
  /\ item \in [Slot -> Things] /\ kids \in [Slot -> {<<>>} \cup (Slot \X Slot)]
  /\ appSlot \in [App -> Places] /\ emptySlot \in [Slot -> Places]
  /\ active \in Places /\ previous \in Places
  /\ zoomed \in [app : App \cup {"none"}, from : Places]
  /\ jobs \in Seq(JobRecords) /\ Len(jobs) <= MaxJobs + 1 /\ open \subseteq App

\* Slot s is one of the two of the fork p.
Kid(ks, p, s) == ks[p] # <<>> /\ (ks[p][1] = s \/ ks[p][2] = s)

\* The slots that hold something are a tree below the root: a slot is deeper than its fork.
IsTree(it, ks) ==
  /\ it[Root] # "free"
  /\ \A s \in Slot : it[s] = "fork" <=> ks[s] # <<>>
  /\ \A p \in Slot : ks[p] # <<>> => ks[p][1] # ks[p][2]
  /\ \A p, s \in Slot : Kid(ks, p, s) => s # Root /\ it[s] # "free"
  /\ \A p, q, s \in Slot : Kid(ks, p, s) /\ Kid(ks, q, s) => p = q
  /\ \A s \in Slot \ {Root} : it[s] # "free" => \E p \in Slot : Kid(ks, p, s)
  /\ \E depth \in [Slot -> Nat] : \A p, s \in Slot : Kid(ks, p, s) => depth[p] < depth[s]

\* An application that runs is somewhere, and the owners of applications and empty slots
\* are where they are.
OwnersOK ==
  /\ \A s \in Slot : item[s] \in App => appSlot[item[s]] = s
  /\ \A s \in Slot : item[s] # "free" => emptySlot[s] = s
  /\ \A a \in App : a \in open <=> (\E s \in Slot : item[s] = a) \/ zoomed.app = a

\* Nothing but the end of applications is on its way while one is zoomed.
ZoomOK ==
  zoomed # NotZoomed =>
    /\ zoomed.app \in App /\ zoomed.from \in Slot
    /\ item[zoomed.from] = "empty" /\ appSlot[zoomed.app] = zoomed.from
    /\ \A k \in DOMAIN jobs : jobs[k].op \in {"quit", "nothing"}

\* A job is about an application that runs or a slot that is in use.
Fits(js, it, apps) ==
  \A k \in DOMAIN js :
    IF js[k].op \in {"split", "quit"} THEN js[k].app \in apps
    ELSE /\ js[k].app = "none"
         /\ js[k].op # "nothing" => js[k].slot \in Slot /\ it[js[k].slot] # "free"

HistoryOK == {active, previous} \subseteq Leaf \cup {Nobody}

Tile ==
  Types /\ IsTree(item, kids) /\ OwnersOK /\ ZoomOK /\ Fits(jobs, item, open) /\ HistoryOK

-----------------------------------------------------------------------------
(* Trees.                                                                  *)

\* The names are different, and Root is a slot.
LEMMA Names ==
  /\ Root \in Slot /\ Nobody \notin Slot
  /\ App \cap {"free", "empty", "fork", "none"} = {}
BY TileAssumption DEF Root, Slot, Nobody

\* What is a leaf stays one.
LEMMA SameTree ==
  ASSUME NEW it, NEW ks, IsTree(it, ks), NEW it2, NEW ks2,
         \A s \in Slot : it2[s] = it[s] \/ {it[s], it2[s]} \subseteq App \cup {"empty"},
         \A s \in Slot : ks2[s] = ks[s]
  PROVE  IsTree(it2, ks2)
<1>1. \A p, s \in Slot : Kid(ks2, p, s) <=> Kid(ks, p, s)
  BY DEF Kid
<1>2. \A s \in Slot : /\ it2[s] = "fork" <=> it[s] = "fork"
                      /\ it2[s] = "free" <=> it[s] = "free"
  BY Names
<1> QED
  BY <1>1, <1>2, Names DEF IsTree

\* The two sides of a fork change places.
LEMMA SwapTree ==
  ASSUME NEW it, NEW ks \in [Slot -> {<<>>} \cup (Slot \X Slot)], IsTree(it, ks),
         NEW p \in Slot, ks[p] # <<>>,
         NEW ks2, ks2 = [ks EXCEPT ![p] = <<@[2], @[1]>>]
  PROVE  IsTree(it, ks2) /\ ks2 \in [Slot -> {<<>>} \cup (Slot \X Slot)]
<1>1. ks[p] \in Slot \X Slot /\ ks2[p] = <<ks[p][2], ks[p][1]>>
  OBVIOUS
<1>2. ks2[p] # <<>> /\ ks2[p][1] = ks[p][2] /\ ks2[p][2] = ks[p][1] /\ ks2[p] \in Slot \X Slot
  BY <1>1
<1>3. \A q \in Slot : q # p => ks2[q] = ks[q]
  OBVIOUS
<1>4. \A q, s \in Slot : Kid(ks2, q, s) <=> Kid(ks, q, s)
  BY <1>2, <1>3 DEF Kid
<1>5. \A q \in Slot : ks2[q] # <<>> <=> ks[q] # <<>>
  BY <1>2, <1>3
<1>6. \A q \in Slot : ks2[q] # <<>> => ks2[q][1] # ks2[q][2]
  BY <1>2, <1>3, <1>5 DEF IsTree
<1>7. IsTree(it, ks2)
  BY <1>4, <1>5, <1>6 DEF IsTree
<1> QED
  BY <1>2, <1>7

\* A slot that is split moves down into a new one, beside another.
Splits(it, ks, s, l, r, it2, ks2) ==
  /\ l # r /\ it[s] # "free" /\ it[l] = "free" /\ it[r] = "free"
  /\ it2[s] = "fork" /\ it2[l] = it[s] /\ it2[r] \in App \cup {"empty"}
  /\ \A x \in Slot \ {s, l, r} : it2[x] = it[x]
  /\ ks2[s] = <<l, r>> /\ ks2[l] = ks[s] /\ \A x \in Slot \ {s, l} : ks2[x] = ks[x]

\* The result is a tree again.
LEMMA SplitTree ==
  ASSUME NEW it, NEW ks, IsTree(it, ks), NEW s \in Slot, NEW l \in Slot, NEW r \in Slot,
         NEW it2, NEW ks2, Splits(it, ks, s, l, r, it2, ks2)
  PROVE  IsTree(it2, ks2)
<1> USE DEF Splits
<1>1. s # l /\ s # r /\ ks[r] = <<>> /\ ks[l] = <<>> /\ it2[r] \notin {"free", "fork"}
  BY Names DEF IsTree
<1>2. ks2[s] # <<>> /\ ks2[s][1] = l /\ ks2[s][2] = r
  OBVIOUS
<1>3. \A p, x \in Slot : Kid(ks2, p, x) <=> IF p = s THEN x \in {l, r}
                                          ELSE IF p = l THEN Kid(ks, s, x)
                                          ELSE Kid(ks, p, x)
  BY <1>1, <1>2 DEF Kid
<1>4. \A p, x \in Slot : Kid(ks, p, x) => x \notin {l, r} /\ p \notin {l, r}
  <2>1. \A p, x \in Slot : Kid(ks, p, x) => it[x] # "free"
    BY DEF IsTree
  <2>2. \A p, x \in Slot : Kid(ks, p, x) => p # l /\ p # r
    BY <1>1 DEF Kid
  <2> QED
    BY <2>1, <2>2
<1>5. it2[Root] # "free"
  BY <1>1, Names DEF IsTree
<1>6. \A x \in Slot : it2[x] = "fork" <=> ks2[x] # <<>>
  <2>1. it2[s] = "fork" /\ ks2[s] # <<>>
    BY <1>2
  <2>2. it2[l] = "fork" <=> ks2[l] # <<>>
    BY DEF IsTree
  <2>3. it2[r] # "fork" /\ ks2[r] = <<>>
    BY <1>1
  <2>4. \A x \in Slot \ {s, l, r} : it2[x] = "fork" <=> ks2[x] # <<>>
    BY DEF IsTree
  <2> QED
    BY <2>1, <2>2, <2>3, <2>4
<1>7. \A p \in Slot : ks2[p] # <<>> => ks2[p][1] # ks2[p][2]
  BY <1>1, <1>2 DEF IsTree
<1>8. \A p, x \in Slot : Kid(ks2, p, x) => x # Root /\ it2[x] # "free"
  BY <1>1, <1>3, <1>4, Names DEF IsTree
<1>9. \A p, q, x \in Slot : Kid(ks2, p, x) /\ Kid(ks2, q, x) => p = q
  BY <1>1, <1>3, <1>4 DEF IsTree
<1>10. \A x \in Slot \ {Root} : it2[x] # "free" => \E p \in Slot : Kid(ks2, p, x)
  <2> SUFFICES ASSUME NEW x \in Slot \ {Root}, it2[x] # "free" PROVE \E p \in Slot : Kid(ks2, p, x)
    OBVIOUS
  <2>1. CASE x \in {l, r}
    BY <1>3, <2>1
  <2>2. CASE x \notin {l, r}
    <3>1. it[x] # "free"
      BY <2>2
    <3>2. PICK p \in Slot : Kid(ks, p, x)
      BY <3>1 DEF IsTree
    <3>3. Kid(ks2, IF p = s THEN l ELSE p, x)
      BY <1>1, <1>3, <1>4, <3>2
    <3> QED
      BY <3>3
  <2> QED
    BY <2>1, <2>2
<1>11. \E depth \in [Slot -> Nat] : \A p, x \in Slot : Kid(ks2, p, x) => depth[p] < depth[x]
  <2>1. PICK depth \in [Slot -> Nat] : \A p, x \in Slot : Kid(ks, p, x) => depth[p] < depth[x]
    BY DEF IsTree
  <2> DEFINE deeper == [x \in Slot |-> IF x \in {l, r} THEN 2 * depth[s] + 1 ELSE 2 * depth[x]]
  <2>2. deeper \in [Slot -> Nat]
    OBVIOUS
  <2>3. ASSUME NEW p \in Slot, NEW x \in Slot, Kid(ks2, p, x) PROVE deeper[p] < deeper[x]
    <3>1. CASE p = s
      BY <1>1, <1>3, <2>3, <3>1
    <3>2. CASE p = l
      <4>1. Kid(ks, s, x) /\ x \notin {l, r}
        BY <1>1, <1>3, <1>4, <2>3, <3>2
      <4>2. depth[s] < depth[x] /\ depth[s] \in Nat /\ depth[x] \in Nat
        BY <2>1, <4>1
      <4>3. deeper[p] = 2 * depth[s] + 1 /\ deeper[x] = 2 * depth[x]
        BY <3>2, <4>1
      <4> QED
        BY <4>2, <4>3
    <3>3. CASE p \notin {s, l}
      <4>1. Kid(ks, p, x) /\ x \notin {l, r} /\ p \notin {l, r}
        BY <1>3, <1>4, <2>3, <3>3
      <4>2. depth[p] < depth[x] /\ depth[p] \in Nat /\ depth[x] \in Nat
        BY <2>1, <4>1
      <4>3. deeper[p] = 2 * depth[p] /\ deeper[x] = 2 * depth[x]
        BY <4>1
      <4> QED
        BY <4>2, <4>3
    <3> QED
      BY <3>1, <3>2, <3>3
  <2> HIDE DEF deeper
  <2> QED
    BY <2>2, <2>3
<1> QED
  BY <1>5, <1>6, <1>7, <1>8, <1>9, <1>10, <1>11 DEF IsTree

\* A fork whose slot s is closed becomes what the other slot t held.
Collapses(it, ks, p, s, t, it2, ks2) ==
  /\ s # t /\ Kid(ks, p, s) /\ Kid(ks, p, t) /\ it[s] \in App \cup {"empty"}
  /\ \A x \in Slot :
       /\ it2[x] = IF x \in {s, t} THEN "free" ELSE IF x = p THEN it[t] ELSE it[x]
       /\ ks2[x] = IF x \in {s, t} THEN <<>> ELSE IF x = p THEN ks[t] ELSE ks[x]

\* The result is a tree again.
LEMMA CollapseTree ==
  ASSUME NEW it, NEW ks, IsTree(it, ks), NEW p \in Slot, NEW s \in Slot, NEW t \in Slot,
         NEW it2, NEW ks2, Collapses(it, ks, p, s, t, it2, ks2)
  PROVE  IsTree(it2, ks2) /\ p \notin {s, t} /\ it[p] = "fork" /\ it[t] # "free"
<1> USE DEF Collapses
<1>0. PICK depth \in [Slot -> Nat] : \A q, x \in Slot : Kid(ks, q, x) => depth[q] < depth[x]
  BY DEF IsTree
<1>1. p # s /\ p # t /\ s # Root /\ t # Root /\ it[t] # "free" /\ it[p] = "fork" /\ ks[s] = <<>>
  <2>1. p # s /\ p # t
    BY <1>0
  <2>2. s # Root /\ t # Root /\ it[t] # "free"
    BY DEF IsTree
  <2>3. ks[p] # <<>>
    BY DEF Kid
  <2>4. it[p] = "fork" /\ ks[s] = <<>>
    BY <2>3, Names DEF IsTree
  <2> QED
    BY <2>1, <2>2, <2>4
<1>2. \A q, x \in Slot : Kid(ks2, q, x) <=> /\ q \notin {s, t}
                                            /\ IF q = p THEN Kid(ks, t, x) ELSE Kid(ks, q, x)
  BY <1>1 DEF Kid
<1>3. \A q, x \in Slot : Kid(ks2, q, x) => x \notin {s, t, p} \/ (x = p /\ q # p)
  <2>1. \A x \in Slot : Kid(ks, t, x) => x # s /\ x # t /\ x # p
    <3>1. \A x \in Slot : Kid(ks, t, x) => depth[p] < depth[t] /\ depth[t] < depth[x]
      BY <1>0
    <3>2. \A x \in Slot : Kid(ks, t, x) => x # s
      BY <1>1 DEF IsTree
    <3> QED
      BY <3>1, <3>2
  <2>2. \A q, x \in Slot : Kid(ks, q, x) /\ q # p => x # s /\ x # t
    BY DEF IsTree
  <2> QED
    BY <1>2, <2>1, <2>2
<1>4. it2[Root] # "free" /\ \A x \in Slot : it2[x] = "free" => x \in {s, t} \/ it[x] = "free"
  BY <1>1, Names DEF IsTree
<1>5. \A x \in Slot : it2[x] = "fork" <=> ks2[x] # <<>>
  BY <1>1 DEF IsTree
<1>6. \A q \in Slot : ks2[q] # <<>> => ks2[q][1] # ks2[q][2]
  BY DEF IsTree
<1>7. \A q, x \in Slot : Kid(ks2, q, x) => x # Root /\ it2[x] # "free"
  BY <1>1, <1>2, <1>3, <1>4 DEF IsTree
<1>8. \A q1, q2, x \in Slot : Kid(ks2, q1, x) /\ Kid(ks2, q2, x) => q1 = q2
  <2>1. \A q1, q2, x \in Slot : Kid(ks, q1, x) /\ Kid(ks, q2, x) => q1 = q2
    BY DEF IsTree
  <2> QED
    BY <1>2, <2>1
<1>9. \A x \in Slot \ {Root} : it2[x] # "free" => \E q \in Slot : Kid(ks2, q, x)
  <2> SUFFICES ASSUME NEW x \in Slot \ {Root}, it2[x] # "free" PROVE \E q \in Slot : Kid(ks2, q, x)
    OBVIOUS
  <2>1. x \notin {s, t} /\ it[x] # "free"
    BY <1>1
  <2>2. PICK q \in Slot : Kid(ks, q, x)
    BY <2>1 DEF IsTree
  <2>3. q # s /\ q # p
    <3>1. q # s
      BY <1>1, <2>2 DEF Kid
    <3>3. \A y \in Slot : Kid(ks, p, y) => y \in {s, t}
      BY DEF Kid
    <3> QED
      BY <2>1, <2>2, <3>1, <3>3
  <2>4. Kid(ks2, IF q = t THEN p ELSE q, x)
    BY <1>1, <1>2, <2>2, <2>3
  <2> QED
    BY <2>4
<1>10. \A q, x \in Slot : Kid(ks2, q, x) => depth[q] < depth[x]
  <2> SUFFICES ASSUME NEW q \in Slot, NEW x \in Slot, Kid(ks2, q, x) PROVE depth[q] < depth[x]
    OBVIOUS
  <2>1. CASE q = p
    <3>1. Kid(ks, t, x)
      BY <1>2, <2>1
    <3>2. depth[p] < depth[t] /\ depth[t] < depth[x]
      BY <1>0, <3>1
    <3> QED
      BY <2>1, <3>2
  <2>2. CASE q # p
    BY <1>0, <1>2, <2>2
  <2> QED
    BY <2>1, <2>2
<1> QED
  BY <1>1, <1>4, <1>5, <1>6, <1>7, <1>8, <1>9, <1>10 DEF IsTree

-----------------------------------------------------------------------------
(* Jobs.                                                                   *)

\* What may be done later.
LaterOK(js, it, apps) ==
  /\ js \in Seq(JobRecords) /\ Len(js) <= MaxJobs + 1 /\ Fits(js, it, apps)
  /\ zoomed # NotZoomed => \A k \in DOMAIN js : js[k].op \in {"quit", "nothing"}

\* The jobs on their way are in order.
LEMMA JobsLater == ASSUME Tile PROVE LaterOK(jobs, item, open)
BY DEF Tile, Types, ZoomOK, LaterOK

\* The jobs after the first.
LEMMA TailLater ==
  ASSUME Tile, jobs # <<>>
  PROVE  LaterOK(Tail(jobs), item, open) /\ Head(jobs) \in JobRecords /\ Head(jobs) = jobs[1]
         /\ 1 \in DOMAIN jobs
<1>1. jobs \in Seq(JobRecords) /\ Len(jobs) \in Nat /\ Len(jobs) <= MaxJobs + 1 /\ MaxJobs \in Nat
  BY TileAssumption DEF Tile, Types
<1>2. /\ Tail(jobs) \in Seq(JobRecords) /\ Len(Tail(jobs)) = Len(jobs) - 1
      /\ Head(jobs) \in JobRecords /\ Head(jobs) = jobs[1] /\ 1 \in DOMAIN jobs
  BY <1>1
<1>3. \A k \in DOMAIN Tail(jobs) : k + 1 \in DOMAIN jobs /\ Tail(jobs)[k] = jobs[k + 1]
  BY <1>1
<1>4. Fits(Tail(jobs), item, open)
  BY <1>3 DEF Fits, Tile
<1>5. zoomed # NotZoomed => \A k \in DOMAIN Tail(jobs) : Tail(jobs)[k].op \in {"quit", "nothing"}
  BY <1>3 DEF Tile, ZoomOK
<1> QED
  BY <1>1, <1>2, <1>4, <1>5 DEF LaterOK

\* The jobs that are still about something.
LEMMA CurrentLater ==
  ASSUME NEW js, NEW it, NEW apps \in SUBSET App, LaterOK(js, it, apps),
         NEW slots, NEW kept, NEW it2, \A s \in slots : it2[s] # "free"
  PROVE  LaterOK(Current(js, slots, kept), it2, kept)
<1> DEFINE left == Current(js, slots, kept)
           none == Job("nothing", "none", Nobody)
<1>1. none \in JobRecords /\ none.op = "nothing" /\ none.app = "none"
  BY DEF Job, JobRecords, Places
<1>2. js \in Seq(JobRecords) /\ Len(js) <= MaxJobs + 1 /\ Fits(js, it, apps)
  BY DEF LaterOK
<1>3. DOMAIN left = DOMAIN js /\ DOMAIN js = 1..Len(js) /\ Len(js) \in Nat
  BY <1>2 DEF Current
<1>4. ASSUME NEW k \in DOMAIN js
      PROVE  \/ left[k] = none
             \/ left[k] = js[k] /\ IF js[k].app = "none" THEN js[k].slot \in slots ELSE js[k].app \in kept
  BY DEF Current
<1> HIDE DEF left, none
<1>5. left \in Seq(JobRecords) /\ Len(left) = Len(js)
  <2>1. \A k \in 1..Len(js) : left[k] \in JobRecords
    BY <1>1, <1>2, <1>3, <1>4
  <2>2. left = [k \in 1..Len(js) |-> left[k]]
    BY <1>3 DEF left, Current
  <2> QED
    BY <1>3, <2>1, <2>2
<1>6. Fits(left, it2, kept)
  <2> SUFFICES ASSUME NEW k \in DOMAIN js
               PROVE  IF left[k].op \in {"split", "quit"} THEN left[k].app \in kept
                      ELSE /\ left[k].app = "none"
                           /\ left[k].op # "nothing" => left[k].slot \in Slot /\ it2[left[k].slot] # "free"
    BY <1>3 DEF Fits
  <2>1. CASE left[k] = none
    BY <1>1, <2>1
  <2>2. CASE left[k] # none
    <3>1. left[k] = js[k] /\ IF js[k].app = "none" THEN js[k].slot \in slots ELSE js[k].app \in kept
      BY <1>4, <2>2
    <3>2. IF js[k].op \in {"split", "quit"} THEN js[k].app \in apps
          ELSE js[k].app = "none" /\ (js[k].op # "nothing" => js[k].slot \in Slot)
      BY <1>2 DEF Fits
    <3>3. js[k].op \in {"split", "quit"} => js[k].app # "none"
      BY <3>2, Names
    <3> QED
      BY <3>1, <3>2, <3>3
  <2> QED
    BY <2>1, <2>2
<1>7. zoomed # NotZoomed => \A k \in DOMAIN left : left[k].op \in {"quit", "nothing"}
  BY <1>1, <1>3, <1>4 DEF LaterOK
<1> QED
  BY <1>2, <1>5, <1>6, <1>7 DEF LaterOK, left

\* Jobs go where the empty slots they are about go.
LEMMA FollowLater ==
  ASSUME NEW js, NEW it, NEW apps, LaterOK(js, it, apps), NEW to \in [Slot -> Slot], NEW it2,
         \A s \in Slot : it[s] # "free" => it2[s] # "free" /\ it2[to[s]] # "free"
  PROVE  LaterOK(Follow(js, to), it2, apps)
<1> DEFINE led == Follow(js, to)
<1>2. js \in Seq(JobRecords) /\ Len(js) <= MaxJobs + 1 /\ Fits(js, it, apps)
  BY DEF LaterOK
<1>3. DOMAIN led = DOMAIN js /\ DOMAIN js = 1..Len(js) /\ Len(js) \in Nat
  BY <1>2 DEF Follow
<1>4. ASSUME NEW k \in DOMAIN js
      PROVE  /\ led[k] \in JobRecords /\ led[k].op = js[k].op /\ led[k].app = js[k].app
             /\ led[k].op \notin {"split", "quit", "nothing"} =>
                  led[k].slot \in Slot /\ it2[led[k].slot] # "free"
  <2>1. js[k] \in JobRecords
    BY <1>2
  <2>2. js[k].op \notin {"split", "quit", "nothing"} => js[k].slot \in Slot /\ it[js[k].slot] # "free"
    BY <1>2 DEF Fits
  <2>3. CASE js[k].op = "split empty"
    <3>1. led[k] = [js[k] EXCEPT !.slot = to[js[k].slot]]
      BY <2>3 DEF Follow
    <3>2. js[k].slot \in Slot /\ to[js[k].slot] \in Slot /\ it2[to[js[k].slot]] # "free"
      BY <2>2, <2>3
    <3> QED
      BY <2>1, <3>1, <3>2 DEF JobRecords, Places
  <2>4. CASE js[k].op # "split empty"
    <3>1. led[k] = js[k]
      BY <2>4 DEF Follow
    <3> QED
      BY <2>1, <2>2, <3>1
  <2> QED
    BY <2>3, <2>4
<1> HIDE DEF led
<1>5. led \in Seq(JobRecords) /\ Len(led) = Len(js)
  <2>1. led = [k \in 1..Len(js) |-> led[k]]
    BY <1>3 DEF led, Follow
  <2> QED
    BY <1>3, <1>4, <2>1
<1>6. Fits(led, it2, apps)
  BY <1>2, <1>3, <1>4 DEF Fits
<1>7. zoomed # NotZoomed => \A k \in DOMAIN led : led[k].op \in {"quit", "nothing"}
  BY <1>3, <1>4 DEF LaterOK
<1> QED
  BY <1>2, <1>5, <1>6, <1>7 DEF LaterOK, led

\* Jobs that stay as they are while slots and applications are added.
LEMMA StillLater ==
  ASSUME NEW js, NEW it, NEW apps, LaterOK(js, it, apps), NEW it2, NEW apps2, apps \subseteq apps2,
         \A s \in Slot : it[s] # "free" => it2[s] # "free"
  PROVE  LaterOK(js, it2, apps2)
BY DEF LaterOK, Fits

\* Jobs are added.
LEMMA AddedLater ==
  ASSUME Tile, NEW js \in Seq(JobRecords), Len(js) \in {1, 2}, Len(jobs) < MaxJobs,
         Fits(js, item, open), zoomed # NotZoomed => \A k \in DOMAIN js : js[k].op = "quit"
  PROVE  LaterOK(jobs \o js, item, open)
<1>1. jobs \in Seq(JobRecords) /\ Len(jobs) \in Nat /\ Len(js) \in Nat /\ MaxJobs \in Nat
  BY TileAssumption DEF Tile, Types
<1>2. jobs \o js \in Seq(JobRecords) /\ Len(jobs \o js) = Len(jobs) + Len(js)
  BY <1>1
<1>3. ASSUME NEW k \in DOMAIN (jobs \o js)
      PROVE  \/ k \in DOMAIN jobs /\ (jobs \o js)[k] = jobs[k]
             \/ k - Len(jobs) \in DOMAIN js /\ (jobs \o js)[k] = js[k - Len(jobs)]
  BY <1>1, <1>2
<1>4. Fits(jobs \o js, item, open)
  BY <1>3 DEF Fits, Tile
<1>5. zoomed # NotZoomed => \A k \in DOMAIN (jobs \o js) : (jobs \o js)[k].op \in {"quit", "nothing"}
  BY <1>3 DEF Tile, ZoomOK
<1>6. Len(jobs \o js) <= MaxJobs + 1
  <2>1. \A m, n \in Nat : n \in {1, 2} /\ m < MaxJobs => m + n <= MaxJobs + 1
    BY <1>1
  <2>2. Len(jobs) + Len(js) <= MaxJobs + 1
    BY <1>1, <2>1
  <2> QED
    BY <1>2, <2>2
<1> QED
  BY <1>2, <1>4, <1>5, <1>6 DEF LaterOK

-----------------------------------------------------------------------------
(* Splits.                                                                 *)

\* Nothing but the next job.
LEMMA StayTile ==
  ASSUME Tile, NEW later, LaterOK(later, item, open), Stay(later) PROVE Tile'
<1>1. UNCHANGED <<item, kids, appSlot, emptySlot, active, previous, zoomed, open>> /\ jobs' = later
  BY DEF Stay, tree, owners, history
<1>2. Types' /\ Fits(jobs', item', open') /\ ZoomOK'
  BY <1>1 DEF Tile, Types, LaterOK, ZoomOK
<1> QED
  BY <1>1, <1>2 DEF Tile, OwnersOK, HistoryOK, Leaf, Live

\* An empty slot stays empty or gets an application that did not run.
LEMMA CreateInIs ==
  ASSUME Types, NEW s \in Slot, NEW from \in [Slot -> Things], NEW ownersOf \in [App -> Places],
         from[s] = "empty", CreateIn(s, from, ownersOf)
  PROVE  /\ item' \in [Slot -> Things] /\ item'[s] \in App \cup {"empty"}
         /\ \A x \in Slot \ {s} : item'[x] = from[x]
         /\ appSlot' \in [App -> Places] /\ open' \in SUBSET App /\ open \subseteq open'
         /\ \A a \in App : a \in open' <=> a \in open \/ item'[s] = a
         /\ item'[s] \in App => item'[s] \notin open /\ appSlot'[item'[s]] = s
         /\ \A a \in App : a # item'[s] => appSlot'[a] = ownersOf[a]
<1>1. CASE item' = from /\ appSlot' = ownersOf /\ UNCHANGED open
  BY <1>1, Names DEF Types
<1>2. ASSUME NEW a \in App \ open, item' = [from EXCEPT ![s] = a],
             appSlot' = [ownersOf EXCEPT ![a] = s], open' = open \cup {a}
      PROVE  /\ item' \in [Slot -> Things] /\ item'[s] = a
             /\ \A x \in Slot \ {s} : item'[x] = from[x]
             /\ appSlot' \in [App -> Places] /\ open' \in SUBSET App /\ open \subseteq open'
             /\ \A b \in App : b \in open' <=> b \in open \/ a = b
             /\ a \notin open /\ appSlot'[a] = s
             /\ \A b \in App : b # a => appSlot'[b] = ownersOf[b]
  BY <1>2 DEF Types, Things, Places
<1> QED
  BY <1>1, <1>2 DEF CreateIn

\* A new application in an empty slot.
LEMMA CreateTile ==
  ASSUME Tile, zoomed = NotZoomed, NEW s \in Slot, item[s] = "empty", CreateIn(s, item, appSlot),
         NEW later, LaterOK(later, item, open), jobs' = later,
         UNCHANGED <<kids, emptySlot, active, previous, zoomed>>
  PROVE  Tile'
<1>1. Types
  BY DEF Tile
<1>2. /\ item' \in [Slot -> Things] /\ item'[s] \in App \cup {"empty"}
      /\ \A x \in Slot \ {s} : item'[x] = item[x]
      /\ appSlot' \in [App -> Places] /\ open' \in SUBSET App /\ open \subseteq open'
      /\ \A a \in App : a \in open' <=> a \in open \/ item'[s] = a
      /\ item'[s] \in App => item'[s] \notin open /\ appSlot'[item'[s]] = s
      /\ \A a \in App : a # item'[s] => appSlot'[a] = appSlot[a]
  BY <1>1, CreateInIs DEF Types
<1>3. LaterOK(jobs', item', open')
  <2>1. \A x \in Slot : item[x] # "free" => item'[x] # "free"
    BY <1>2, Names
  <2> QED
    BY <1>2, <2>1, StillLater
<1>4. Types'
  BY <1>1, <1>2, <1>3 DEF Types, LaterOK
<1>5. IsTree(item', kids')
  <2>1. \A x \in Slot : item'[x] = item[x] \/ {item[x], item'[x]} \subseteq App \cup {"empty"}
    BY <1>2
  <2> QED
    BY <2>1, SameTree DEF Tile
<1>6. OwnersOK'
  <2>1. ASSUME NEW x \in Slot, item'[x] \in App PROVE appSlot'[item'[x]] = x
    <3>1. CASE x = s
      BY <1>2, <2>1, <3>1
    <3>2. CASE x # s
      <4>1. item'[x] = item[x] /\ item[x] \in open /\ appSlot[item[x]] = x
        BY <1>2, <2>1, <3>2 DEF Tile, OwnersOK
      <4> QED
        BY <1>2, <2>1, <4>1
    <3> QED
      BY <3>1, <3>2
  <2>2. \A x \in Slot : item'[x] # "free" => emptySlot'[x] = x
    BY <1>2 DEF Tile, OwnersOK
  <2>3. ASSUME NEW a \in App
        PROVE  a \in open' <=> (\E x \in Slot : item'[x] = a) \/ zoomed'.app = a
    <3>1. a \in open <=> \E x \in Slot : item[x] = a
      BY Names DEF Tile, OwnersOK, NotZoomed
    <3>2. (\E x \in Slot : item[x] = a) <=> (\E x \in Slot \ {s} : item[x] = a)
      BY Names
    <3>3. zoomed'.app # a
      BY Names DEF NotZoomed
    <3> QED
      BY <1>2, <3>1, <3>2, <3>3
  <2> QED
    BY <2>1, <2>2, <2>3 DEF OwnersOK
<1>7. HistoryOK' /\ ZoomOK'
  BY <1>2, Names DEF Tile, HistoryOK, ZoomOK, Leaf, Live
<1> QED
  BY <1>3, <1>4, <1>5, <1>6, <1>7 DEF Tile, LaterOK

\* Two slots are free when there are.
LEMMA TwoFree ==
  ASSUME ~(Cardinality(Slot \ Live) < 2), NEW l, l = AnyOf(Slot \ Live)
  PROVE  /\ l \in Slot \ Live
         /\ AnyOf(Slot \ (Live \cup {l})) \in Slot \ (Live \cup {l})
<1> DEFINE S == Slot \ Live
<1>1. IsFiniteSet(S)
  <2>1. IsFiniteSet(Slot)
    BY FS_Interval, TileAssumption DEF Slot
  <2>2. S \in SUBSET Slot
    OBVIOUS
  <2> HIDE DEF S
  <2> QED
    BY <2>1, <2>2, FS_Subset
<1>2. ~(Cardinality(S) < 2)
  OBVIOUS
<1>3. Slot \ (Live \cup {l}) = S \ {l} /\ l = AnyOf(S)
  OBVIOUS
<1> HIDE DEF S
<1>4. Cardinality(S) \in Nat
  BY <1>1, FS_CardinalityType
<1>5. S # {}
  BY <1>2, <1>4, FS_EmptySet
<1>6. l \in S
  BY <1>3, <1>5 DEF AnyOf
<1>7. IsFiniteSet(S \ {l}) /\ Cardinality(S \ {l}) = Cardinality(S) - 1
  BY <1>1, <1>6, FS_RemoveElement
<1>8. S \ {l} # {}
  <2>1. Cardinality(S \ {l}) # 0
    BY <1>2, <1>4, <1>7
  <2> QED
    BY <2>1, FS_EmptySet
<1>9. AnyOf(S \ {l}) \in S \ {l}
  BY <1>8 DEF AnyOf
<1> QED
  BY <1>3, <1>6, <1>9 DEF S

\* A slot is split, whatever it holds.
LEMMA SplitSlotTile ==
  ASSUME Tile, zoomed = NotZoomed, NEW s \in Slot, item[s] # "free",
         NEW later, LaterOK(later, item, open), SplitSlot(s, later)
  PROVE  Tile'
<1> DEFINE l == AnyOf(Slot \ Live)
           r == AnyOf(Slot \ (Live \cup {l}))
           from == [item EXCEPT ![s] = "fork", ![l] = item[s], ![r] = "empty"]
           ownersOf == [a \in App |-> IF a = item[s] THEN l ELSE appSlot[a]]
<1>1. CASE Cardinality(Slot \ Live) < 2
  BY <1>1, StayTile DEF SplitSlot
<1>2. CASE ~(Cardinality(Slot \ Live) < 2)
  <2>0. Types
    BY DEF Tile
  <2>1. /\ kids' = [kids EXCEPT ![s] = <<l, r>>, ![l] = kids[s]]
        /\ emptySlot' = [emptySlot EXCEPT ![l] = l, ![r] = r,
                                          ![s] = IF item[s] = "empty" THEN s ELSE @]
        /\ CreateIn(r, from, ownersOf)
        /\ Replace(s, l)
        /\ jobs' = IF item[s] = "empty"
                   THEN Follow(later, [x \in Slot |-> IF x = s THEN l ELSE x]) ELSE later
        /\ UNCHANGED zoomed
    BY <1>2 DEF SplitSlot
  <2>2. l \in Slot /\ r \in Slot /\ item[l] = "free" /\ item[r] = "free" /\ l # r
    BY <1>2, TwoFree DEF Live
  <2> HIDE DEF l, r
  <2>3. s # l /\ s # r
    BY <2>2
  <2>4. /\ from \in [Slot -> Things] /\ from[r] = "empty" /\ from[s] = "fork" /\ from[l] = item[s]
        /\ \A x \in Slot \ {s, l, r} : from[x] = item[x]
        /\ ownersOf \in [App -> Places]
    BY <2>0, <2>2, <2>3 DEF Types, Things, Places
  <2>5. \A a \in App : ownersOf[a] = IF a = item[s] THEN l ELSE appSlot[a]
    OBVIOUS
  <2> HIDE DEF from, ownersOf
  <2>6. /\ item' \in [Slot -> Things] /\ item'[r] \in App \cup {"empty"}
        /\ \A x \in Slot \ {r} : item'[x] = from[x]
        /\ appSlot' \in [App -> Places] /\ open' \in SUBSET App /\ open \subseteq open'
        /\ \A a \in App : a \in open' <=> a \in open \/ item'[r] = a
        /\ item'[r] \in App => item'[r] \notin open /\ appSlot'[item'[r]] = r
        /\ \A a \in App : a # item'[r] => appSlot'[a] = ownersOf[a]
    BY <2>0, <2>1, <2>2, <2>4, CreateInIs
  <2>7. /\ item'[s] = "fork" /\ item'[l] = item[s]
        /\ \A x \in Slot \ {s, l, r} : item'[x] = item[x]
    BY <2>2, <2>3, <2>4, <2>6
  <2>8. IsTree(item', kids') /\ kids' \in [Slot -> {<<>>} \cup (Slot \X Slot)]
    <3>1. kids \in [Slot -> {<<>>} \cup (Slot \X Slot)] /\ IsTree(item, kids)
      BY DEF Tile, Types
    <3>2. /\ kids'[s] = <<l, r>> /\ kids'[l] = kids[s] /\ \A x \in Slot \ {s, l} : kids'[x] = kids[x]
          /\ kids' \in [Slot -> {<<>>} \cup (Slot \X Slot)]
      BY <2>1, <2>2, <2>3, <3>1
    <3>3. item'[s] = "fork" /\ item'[l] = item[s] /\ item'[r] \in App \cup {"empty"}
      BY <2>6, <2>7
    <3>4. IsTree(item', kids')
      <4>1. Splits(item, kids, s, l, r, item', kids')
        BY <2>2, <2>7, <3>2, <3>3 DEF Splits
      <4> QED
        BY <2>2, <3>1, <4>1, SplitTree
    <3> QED
      BY <3>2, <3>4
  <2>9. \A x \in Slot : item[x] # "free" => item'[x] # "free"
    BY <2>2, <2>7, Names
  <2>10. LaterOK(jobs', item', open')
    <3>1. LaterOK(later, item', open')
      BY <2>6, <2>9, StillLater
    <3>2. CASE item[s] = "empty"
      <4> DEFINE to == [x \in Slot |-> IF x = s THEN l ELSE x]
      <4>1. to \in [Slot -> Slot] /\ \A x \in Slot : to[x] = IF x = s THEN l ELSE x
        BY <2>2
      <4>2. jobs' = Follow(later, to)
        BY <2>1, <3>2
      <4> HIDE DEF to
      <4>3. \A x \in Slot : item[x] # "free" => item'[x] # "free" /\ item'[to[x]] # "free"
        BY <2>7, <2>9, <4>1
      <4>4. LaterOK(Follow(later, to), item', open)
        BY <4>1, <4>3, FollowLater
      <4>5. LaterOK(Follow(later, to), item', open')
        BY <2>6, <4>4, StillLater
      <4> QED
        BY <4>2, <4>5
    <3>3. CASE item[s] # "empty"
      BY <2>1, <3>1, <3>3
    <3> QED
      BY <3>2, <3>3
  <2>11. emptySlot' \in [Slot -> Places] /\ \A x \in Slot : item'[x] # "free" => emptySlot'[x] = x
    <3>1. emptySlot' \in [Slot -> Places]
      BY <2>0, <2>1, <2>2 DEF Types, Places
    <3>2. emptySlot'[l] = l /\ emptySlot'[r] = r
      BY <2>0, <2>1, <2>2, <2>3 DEF Types
    <3>3. emptySlot[s] = s
      BY DEF Tile, OwnersOK
    <3>4. emptySlot'[s] = s /\ \A x \in Slot \ {s, l, r} : emptySlot'[x] = emptySlot[x]
      BY <2>0, <2>1, <2>2, <2>3, <3>3 DEF Types
    <3> QED
      BY <2>7, <3>1, <3>2, <3>4 DEF Tile, OwnersOK
  <2>12. OwnersOK'
    <3>1. ASSUME NEW x \in Slot, item'[x] \in App PROVE appSlot'[item'[x]] = x
      <4>1. CASE x = r
        BY <2>6, <3>1, <4>1
      <4>2. CASE x # r
        <5>1. x # s
          BY <2>7, <3>1, Names
        <5>2. item'[x] = (IF x = l THEN item[s] ELSE item[x])
          BY <2>7, <4>2, <5>1
        <5>3. item'[x] \in open /\ ownersOf[item'[x]] = x
          <6>1. CASE x = l
            BY <2>5, <3>1, <5>2, <6>1 DEF Tile, OwnersOK
          <6>2. CASE x # l
            <7>1. item[x] \in App /\ appSlot[item[x]] = x /\ item[x] \in open
              BY <3>1, <5>2, <6>2 DEF Tile, OwnersOK
            <7>2. item[x] # item[s]
              BY <5>1, <7>1 DEF Tile, OwnersOK
            <7> QED
              BY <2>5, <5>2, <6>2, <7>1, <7>2
          <6> QED
            BY <6>1, <6>2
        <5> QED
          BY <2>6, <3>1, <5>3
      <4> QED
        BY <4>1, <4>2
    <3>2. ASSUME NEW a \in App PROVE a \in open' <=> (\E x \in Slot : item'[x] = a) \/ zoomed'.app = a
      <4>1. zoomed.app # a /\ zoomed'.app # a
        BY <2>1, Names DEF NotZoomed
      <4>2. a \in open <=> \E x \in Slot : item[x] = a
        BY <4>1 DEF Tile, OwnersOK
      <4>3. (\E x \in Slot : item[x] = a) <=> (\E x \in Slot \ {r} : item'[x] = a)
        <5>1. ASSUME NEW x \in Slot, item[x] = a PROVE \E y \in Slot \ {r} : item'[y] = a
          <6>1. x \notin {l, r}
            BY <2>2, <5>1, Names
          <6>2. CASE x = s
            BY <2>2, <2>7, <5>1, <6>2
          <6>3. CASE x # s
            BY <2>7, <5>1, <6>1, <6>3
          <6> QED
            BY <6>2, <6>3
        <5>2. ASSUME NEW y \in Slot \ {r}, item'[y] = a PROVE \E x \in Slot : item[x] = a
          BY <2>7, <5>2, Names
        <5> QED
          BY <5>1, <5>2
      <4> QED
        BY <2>2, <2>6, <4>1, <4>2, <4>3
    <3> QED
      BY <2>11, <3>1, <3>2 DEF OwnersOK
  <2>13. HistoryOK' /\ active' \in Places /\ previous' \in Places
    <3>1. {active, previous} \subseteq Leaf \cup {Nobody}
      BY DEF Tile, HistoryOK
    <3>2. \A x \in Slot : x \in Leaf /\ x # s => item'[x] \notin {"free", "fork"}
      BY <2>2, <2>7 DEF Leaf, Live
    <3>3. s \in Leaf => item'[l] \notin {"free", "fork"}
      BY <2>7 DEF Leaf, Live
    <3>4. Leaf \subseteq Slot /\ \A x \in Slot : item'[x] \notin {"free", "fork"} => x \in Leaf'
      BY DEF Leaf, Live
    <3>5. ASSUME NEW h \in Leaf \cup {Nobody}
          PROVE  (IF h = s THEN l ELSE h) \in (Leaf' \cup {Nobody}) \cap Places
      <4>1. CASE h = s
        <5>1. h # Nobody
          BY <4>1, Names
        <5> QED
          BY <2>2, <3>3, <3>4, <3>5, <4>1, <5>1 DEF Places
      <4>2. CASE h # s /\ h \in Leaf
        BY <3>2, <3>4, <4>2 DEF Places
      <4>3. CASE h = Nobody /\ h # s
        BY <4>3 DEF Places
      <4> QED
        BY <3>5, <4>1, <4>2, <4>3
    <3>6. /\ active' = (IF active = s THEN l ELSE active)
          /\ previous' = (IF previous = s THEN l ELSE previous)
      BY <2>1 DEF Replace
    <3> QED
      BY <3>1, <3>5, <3>6 DEF HistoryOK
  <2>14. Types' /\ ZoomOK'
    BY <2>0, <2>1, <2>6, <2>8, <2>10, <2>11, <2>13 DEF Types, LaterOK, ZoomOK
  <2> QED
    BY <2>8, <2>10, <2>12, <2>13, <2>14 DEF Tile, LaterOK
<1> QED
  BY <1>1, <1>2

-----------------------------------------------------------------------------
(* Closes.                                                                 *)

\* An application in a pane ends: an empty slot is left.
LEMMA QuitFilled ==
  ASSUME Tile, NEW s \in Slot, item[s] \in App, NEW later, LaterOK(later, item, open), Quit(s, later)
  PROVE  Tile'
<1>1. /\ item' = [item EXCEPT ![s] = "empty"] /\ open' = open \ {item[s]}
      /\ appSlot' = [appSlot EXCEPT ![item[s]] = Nobody]
      /\ jobs' = Current(later, Live, open')
      /\ UNCHANGED <<kids, emptySlot, active, previous, zoomed>>
  BY Names DEF Quit, history
<1>2. Types
  BY DEF Tile
<1>3. item' \in [Slot -> Things] /\ item'[s] = "empty" /\ \A x \in Slot \ {s} : item'[x] = item[x]
  BY <1>1, <1>2 DEF Types, Things
<1>4. LaterOK(jobs', item', open')
  <2>1. open \in SUBSET App
    BY <1>2 DEF Types
  <2>2. \A x \in Live : item'[x] # "free"
    BY <1>3, Names DEF Live
  <2>3. LaterOK(Current(later, Live, open'), item', open')
    BY <2>1, <2>2, CurrentLater
  <2> QED
    BY <1>1, <2>3
<1>5. Types'
  <2>1. appSlot' \in [App -> Places]
    BY <1>1, <1>2 DEF Types, Places
  <2> QED
    BY <1>1, <1>2, <1>3, <1>4, <2>1 DEF Types, LaterOK
<1>6. IsTree(item', kids')
  <2>1. \A x \in Slot : item'[x] = item[x] \/ {item[x], item'[x]} \subseteq App \cup {"empty"}
    BY <1>3
  <2> QED
    <3>1. IsTree(item, kids) /\ \A x \in Slot : kids'[x] = kids[x]
      BY <1>1 DEF Tile
    <3> QED
      BY <2>1, <3>1, SameTree
<1>7. OwnersOK'
  <2>1. ASSUME NEW x \in Slot, item'[x] \in App PROVE appSlot'[item'[x]] = x
    <3>1. x # s
      BY <1>3, <2>1, Names
    <3>2. item'[x] = item[x] /\ appSlot[item[x]] = x /\ appSlot[item[s]] = s
      BY <1>3, <2>1, <3>1 DEF Tile, OwnersOK
    <3>3. item[x] # item[s]
      BY <3>1, <3>2
    <3> QED
      BY <1>1, <1>2, <2>1, <3>2, <3>3 DEF Types
  <2>2. \A x \in Slot : item'[x] # "free" => emptySlot'[x] = x
    BY <1>1, <1>3, Names DEF Tile, OwnersOK
  <2>3. ASSUME NEW a \in App
        PROVE  a \in open' <=> (\E x \in Slot : item'[x] = a) \/ zoomed'.app = a
    <3>1. a \in open <=> (\E x \in Slot : item[x] = a) \/ zoomed.app = a
      BY DEF Tile, OwnersOK
    <3>2. CASE a = item[s]
      <4>1. \A x \in Slot : item[x] = a => x = s
        BY <3>2 DEF Tile, OwnersOK
      <4>2. ~ \E x \in Slot : item'[x] = a
        BY <1>3, <4>1, Names
      <4>3. zoomed.app # a
        <5>1. CASE zoomed = NotZoomed
          BY <5>1, Names DEF NotZoomed
        <5>2. CASE zoomed # NotZoomed
          <6>1. item[zoomed.from] = "empty" /\ appSlot[zoomed.app] = zoomed.from
            BY <5>2 DEF Tile, ZoomOK
          <6>2. appSlot[a] = s
            BY <3>2 DEF Tile, OwnersOK
          <6> QED
            BY <3>2, <6>1, <6>2, Names
        <5> QED
          BY <5>1, <5>2
      <4> QED
        BY <1>1, <3>2, <4>2, <4>3
    <3>3. CASE a # item[s]
      <4>1. (\E x \in Slot : item'[x] = a) <=> (\E x \in Slot : item[x] = a)
        BY <1>3, <3>3, Names
      <4> QED
        BY <1>1, <3>1, <3>3, <4>1
    <3> QED
      BY <3>2, <3>3
  <2> QED
    BY <2>1, <2>2, <2>3 DEF OwnersOK
<1>8. HistoryOK'
  <2>1. Leaf \subseteq Leaf'
    BY <1>3, Names DEF Leaf, Live
  <2> QED
    BY <1>1, <2>1 DEF Tile, HistoryOK
<1>9. ZoomOK'
  <2> SUFFICES ASSUME zoomed # NotZoomed
               PROVE  /\ zoomed.app \in App /\ zoomed.from \in Slot
                      /\ item'[zoomed.from] = "empty" /\ appSlot'[zoomed.app] = zoomed.from
                      /\ \A k \in DOMAIN jobs' : jobs'[k].op \in {"quit", "nothing"}
    BY <1>1 DEF ZoomOK
  <2>1. /\ zoomed.app \in App /\ zoomed.from \in Slot
        /\ item[zoomed.from] = "empty" /\ appSlot[zoomed.app] = zoomed.from
    BY DEF Tile, ZoomOK
  <2>2. zoomed.from # s /\ appSlot[item[s]] = s
    BY <2>1, Names DEF Tile, OwnersOK
  <2>3. zoomed.app # item[s]
    BY <2>1, <2>2
  <2>4. appSlot'[zoomed.app] = zoomed.from
    BY <1>1, <1>2, <2>1, <2>3 DEF Types
  <2> QED
    BY <1>3, <1>4, <2>1, <2>2, <2>4 DEF LaterOK
<1> QED
  BY <1>4, <1>5, <1>6, <1>7, <1>8, <1>9 DEF Tile, LaterOK

\* An application that is zoomed ends.
LEMMA QuitZoomed ==
  ASSUME Tile, NEW later, LaterOK(later, item, open), zoomed.app \in App,
         QuitApp(zoomed.app, later)
  PROVE  Tile'
<1>1. /\ zoomed' = NotZoomed /\ open' = open \ {zoomed.app}
      /\ appSlot' = [appSlot EXCEPT ![zoomed.app] = Nobody]
      /\ jobs' = Current(later, Live, open')
      /\ UNCHANGED <<item, kids, emptySlot, active, previous>>
  BY DEF QuitApp, tree, history
<1>2. Types
  BY DEF Tile
<1>3. zoomed # NotZoomed
  BY Names DEF NotZoomed
<1>4. LaterOK(jobs', item', open')
  <2>1. open \in SUBSET App
    BY <1>2 DEF Types
  <2>2. \A x \in Live : item'[x] # "free"
    BY <1>1 DEF Live
  <2>3. LaterOK(Current(later, Live, open'), item', open')
    BY <2>1, <2>2, CurrentLater
  <2> QED
    BY <1>1, <2>3
<1>5. Types'
  <2>1. appSlot' \in [App -> Places]
    BY <1>1, <1>2 DEF Types, Places
  <2>2. zoomed' \in [app : App \cup {"none"}, from : Places]
    BY <1>1 DEF NotZoomed, Places
  <2> QED
    BY <1>1, <1>2, <1>4, <2>1, <2>2 DEF Types, LaterOK
<1>6. \A x \in Slot : item[x] # zoomed.app
  BY <1>3, Names DEF Tile, OwnersOK, ZoomOK
<1>7. OwnersOK'
  <2>1. ASSUME NEW x \in Slot, item'[x] \in App PROVE appSlot'[item'[x]] = x
    BY <1>1, <1>2, <1>6, <2>1 DEF Tile, Types, OwnersOK
  <2>2. ASSUME NEW a \in App
        PROVE  a \in open' <=> (\E x \in Slot : item'[x] = a) \/ zoomed'.app = a
    <3>1. a \in open <=> (\E x \in Slot : item[x] = a) \/ zoomed.app = a
      BY DEF Tile, OwnersOK
    <3>2. zoomed'.app # a
      BY <1>1, Names DEF NotZoomed
    <3> QED
      BY <1>1, <1>6, <3>1, <3>2
  <2>3. \A x \in Slot : item'[x] # "free" => emptySlot'[x] = x
    BY <1>1 DEF Tile, OwnersOK
  <2> QED
    BY <2>1, <2>2, <2>3 DEF OwnersOK
<1>8. IsTree(item', kids') /\ HistoryOK' /\ ZoomOK'
  BY <1>1 DEF Tile, HistoryOK, ZoomOK, Leaf, Live
<1> QED
  BY <1>4, <1>5, <1>7, <1>8 DEF Tile, LaterOK

\* An empty slot is closed: its fork becomes what the other slot of the fork held.
LEMMA CollapseTile ==
  ASSUME Tile, zoomed = NotZoomed, NEW s \in Slot, item[s] = "empty",
         NEW p \in Slot, NEW i \in DOMAIN kids[p], kids[p][i] = s,
         NEW later, LaterOK(later, item, open), Collapse(p, s, kids[p][3 - i], later)
  PROVE  Tile'
<1>0. Types
  BY DEF Tile
<1>1. PICK t \in Slot : t = kids[p][3 - i] /\ Kid(kids, p, t) /\ Kid(kids, p, s) /\ s # t
  <2>1. kids[p] \in {<<>>} \cup (Slot \X Slot)
    BY <1>0 DEF Types
  <2>2. DOMAIN <<>> = {}
    OBVIOUS
  <2>3. kids[p] \in Slot \X Slot /\ kids[p] # <<>>
    BY <2>1, <2>2
  <2>4. i \in {1, 2}
    BY <2>3
  <2>5. kids[p][1] # kids[p][2]
    BY <2>3 DEF Tile, IsTree
  <2>6. CASE i = 1
    <3>1. kids[p][3 - i] = kids[p][2]
      BY <2>6
    <3> QED
      BY <2>3, <2>5, <2>6, <3>1 DEF Kid
  <2>7. CASE i = 2
    <3>1. kids[p][3 - i] = kids[p][1]
      BY <2>7
    <3> QED
      BY <2>3, <2>5, <2>7, <3>1 DEF Kid
  <2> QED
    BY <2>4, <2>6, <2>7
<1> DEFINE old == IF item[t] \in App THEN appSlot[item[t]] ELSE Nobody
           to(h) == IF h # Nobody /\ h = old THEN p ELSE IF h \in {s, t} THEN Nobody ELSE h
<1>2. /\ item' = [x \in Slot |-> IF x \in {s, t} THEN "free" ELSE IF x = p THEN item[t] ELSE item[x]]
      /\ kids' = [x \in Slot |-> IF x \in {s, t} THEN <<>> ELSE IF x = p THEN kids[t] ELSE kids[x]]
      /\ appSlot' = [a \in App |-> IF a = item[t] THEN p ELSE appSlot[a]]
      /\ emptySlot' = [x \in Slot |-> IF x \in {s, t} THEN Nobody ELSE emptySlot[x]]
      /\ active' = to(active) /\ previous' = to(previous)
      /\ jobs' = Current(later, Live \ {s, t}, open)
      /\ UNCHANGED <<zoomed, open>>
  BY <1>1 DEF Collapse, HandedOver
<1> HIDE DEF old, to
<1>3. \A x \in Slot :
        /\ item'[x] = IF x \in {s, t} THEN "free" ELSE IF x = p THEN item[t] ELSE item[x]
        /\ kids'[x] = IF x \in {s, t} THEN <<>> ELSE IF x = p THEN kids[t] ELSE kids[x]
  BY <1>2
<1>4. IsTree(item', kids') /\ p \notin {s, t} /\ item[p] = "fork" /\ item[t] # "free"
  <2>1. Collapses(item, kids, p, s, t, item', kids')
    BY <1>1, <1>3 DEF Collapses
  <2> QED
    BY <2>1, CollapseTree DEF Tile
<1>5. LaterOK(jobs', item', open')
  <2>1. open \in SUBSET App
    BY <1>0 DEF Types
  <2>2. \A x \in Live \ {s, t} : item'[x] # "free"
    BY <1>3, <1>4 DEF Live
  <2>3. LaterOK(Current(later, Live \ {s, t}, open), item', open)
    BY <2>1, <2>2, CurrentLater
  <2> QED
    BY <1>2, <2>3
<1>6. item[t] \in App => old = t
  BY DEF Tile, OwnersOK, old
<1>7. OwnersOK'
  <2>1. ASSUME NEW x \in Slot, item'[x] \in App PROVE appSlot'[item'[x]] = x
    <3>1. x \notin {s, t}
      BY <1>3, <2>1, Names
    <3>2. CASE x = p
      BY <1>2, <1>3, <2>1, <3>1, <3>2
    <3>3. CASE x # p
      <4>1. item'[x] = item[x] /\ appSlot[item[x]] = x
        BY <1>3, <2>1, <3>1, <3>3 DEF Tile, OwnersOK
      <4>2. item[x] # item[t]
        BY <2>1, <3>1, <4>1 DEF Tile, OwnersOK
      <4> QED
        BY <1>2, <2>1, <4>1, <4>2
    <3> QED
      BY <3>2, <3>3
  <2>2. \A x \in Slot : item'[x] # "free" => emptySlot'[x] = x
    <3>1. \A x \in Slot : item'[x] # "free" => x \notin {s, t} /\ item[x] # "free"
      BY <1>3, <1>4
    <3> QED
      BY <1>2, <3>1 DEF Tile, OwnersOK
  <2>3. ASSUME NEW a \in App
        PROVE  a \in open' <=> (\E x \in Slot : item'[x] = a) \/ zoomed'.app = a
    <3>1. a \in open <=> (\E x \in Slot : item[x] = a) \/ zoomed.app = a
      BY DEF Tile, OwnersOK
    <3>2. ASSUME NEW x \in Slot, item[x] = a PROVE \E y \in Slot : item'[y] = a
      <4>1. x # s /\ x # p
        BY <1>4, <3>2, Names
      <4>2. CASE x = t
        BY <1>3, <1>4, <3>2, <4>2
      <4>3. CASE x # t
        BY <1>3, <3>2, <4>1, <4>3
      <4> QED
        BY <4>2, <4>3
    <3>3. ASSUME NEW y \in Slot, item'[y] = a PROVE \E x \in Slot : item[x] = a
      BY <1>3, <3>3, Names
    <3> QED
      BY <1>2, <3>1, <3>2, <3>3
  <2> QED
    BY <2>1, <2>2, <2>3 DEF OwnersOK
<1>8. HistoryOK' /\ active' \in Places /\ previous' \in Places
  <2>1. ASSUME NEW h \in Leaf \cup {Nobody} PROVE to(h) \in (Leaf' \cup {Nobody}) \cap Places
    <3>1. Leaf' = {x \in Slot : item'[x] # "free" /\ item'[x] # "fork"}
      BY DEF Leaf, Live
    <3>2. CASE h # Nobody /\ h = old
      <4>1. item[t] \in App /\ to(h) = p
        BY <3>2 DEF old, to
      <4>2. item'[p] = item[t]
        BY <1>3, <1>4
      <4>3. p \in Leaf'
        BY <3>1, <4>1, <4>2, Names
      <4> QED
        BY <4>1, <4>3 DEF Places
    <3>3. CASE ~(h # Nobody /\ h = old) /\ h \in {s, t} \cup {Nobody}
      BY <3>3 DEF to, Places
    <3>4. CASE ~(h # Nobody /\ h = old) /\ h \notin {s, t} \cup {Nobody}
      <4>1. to(h) = h /\ h \in Slot /\ item[h] \notin {"free", "fork"}
        BY <2>1, <3>4 DEF to, Leaf, Live
      <4>2. h # p
        BY <1>4, <4>1
      <4>3. item'[h] = item[h]
        BY <1>3, <3>4, <4>1, <4>2
      <4> QED
        BY <3>1, <4>1, <4>3 DEF Places
    <3> QED
      BY <3>2, <3>3, <3>4
  <2>2. {active, previous} \subseteq Leaf \cup {Nobody}
    BY DEF Tile, HistoryOK
  <2> QED
    BY <1>2, <2>1, <2>2 DEF HistoryOK
<1>9. Types'
  <2>1. item' \in [Slot -> Things] /\ kids' \in [Slot -> {<<>>} \cup (Slot \X Slot)]
    BY <1>0, <1>2 DEF Types, Things
  <2>2. appSlot' \in [App -> Places] /\ emptySlot' \in [Slot -> Places]
    BY <1>0, <1>2 DEF Types, Places
  <2> QED
    BY <1>0, <1>2, <1>5, <1>8, <2>1, <2>2 DEF Types, LaterOK
<1>10. ZoomOK'
  BY <1>2 DEF ZoomOK
<1> QED
  BY <1>4, <1>5, <1>7, <1>8, <1>9, <1>10 DEF Tile, LaterOK

\* A slot is closed, or what is in it.
LEMMA QuitTile ==
  ASSUME Tile, NEW s \in Slot, zoomed = NotZoomed \/ item[s] \in App,
         NEW later, LaterOK(later, item, open), Quit(s, later)
  PROVE  Tile'
<1>1. CASE item[s] \in App
  BY <1>1, QuitFilled
<1>2. CASE item[s] \notin App /\ item[s] = "empty" /\ s # Root
  <2>1. PICK p \in Live : \E i \in DOMAIN kids[p] :
                            kids[p][i] = s /\ Collapse(p, s, kids[p][3 - i], later)
    BY <1>2 DEF Quit
  <2>2. PICK i \in DOMAIN kids[p] : kids[p][i] = s /\ Collapse(p, s, kids[p][3 - i], later)
    BY <2>1
  <2>3. p \in Slot
    BY DEF Live
  <2> QED
    BY <1>2, <2>2, <2>3, CollapseTile
<1>3. CASE item[s] \notin App /\ ~(item[s] = "empty" /\ s # Root)
  <2>1. Stay(later)
    BY <1>3 DEF Quit, Stay
  <2> QED
    BY <2>1, StayTile
<1> QED
  BY <1>1, <1>2, <1>3

\* An application ends, wherever it is.
LEMMA QuitAppTile ==
  ASSUME Tile, NEW a \in App, NEW later, LaterOK(later, item, open), QuitApp(a, later)
  PROVE  Tile'
<1>1. CASE zoomed.app = a
  BY <1>1, QuitZoomed
<1>2. CASE zoomed.app # a
  <2>1. PICK s \in Filled : item[s] = a /\ Quit(s, later)
    BY <1>2 DEF QuitApp
  <2>2. s \in Slot
    BY DEF Filled, Live
  <2> QED
    BY <2>1, <2>2, QuitTile
<1> QED
  BY <1>1, <1>2

-----------------------------------------------------------------------------
(* The user and the jobs.                                                  *)

\* The next job.
LEMMA RunJobTile == ASSUME Tile, RunJob PROVE Tile'
<1> DEFINE j == Head(jobs)
           later == Tail(jobs)
<1>1. jobs # <<>>
  BY DEF RunJob
<1>2. LaterOK(later, item, open) /\ j \in JobRecords /\ j = jobs[1] /\ 1 \in DOMAIN jobs
  BY <1>1, TailLater
<1>3. /\ j.op \in {"split", "quit"} => j.app \in open
      /\ j.op \in {"split empty", "drop", "drop if empty", "create"} =>
           j.slot \in Slot /\ item[j.slot] # "free"
      /\ zoomed # NotZoomed => j.op \in {"quit", "nothing"}
  BY <1>2 DEF Tile, Fits, ZoomOK
<1>4. open \subseteq App
  BY DEF Tile, Types
<1>5. /\ j.op = "split" => \E s \in Filled : item[s] = j.app /\ SplitSlot(s, later)
      /\ j.op = "split empty" => SplitSlot(j.slot, later)
      /\ j.op = "quit" => QuitApp(j.app, later)
      /\ j.op = "drop" => Quit(j.slot, later)
      /\ j.op = "drop if empty" => Quit(j.slot, later) \/ Stay(later)
      /\ j.op = "create" =>
           \/ /\ item[j.slot] = "empty" /\ CreateIn(j.slot, item, appSlot) /\ jobs' = later
              /\ UNCHANGED <<kids, emptySlot, history, zoomed>>
           \/ Stay(later)
      /\ j.op = "nothing" => Stay(later)
  BY DEF RunJob
<1> HIDE DEF j, later
<1>6. CASE j.op = "split"
  <2>1. PICK s \in Filled : SplitSlot(s, later)
    BY <1>5, <1>6
  <2>2. s \in Slot /\ item[s] # "free" /\ zoomed = NotZoomed
    BY <1>3, <1>6 DEF Filled, Live
  <2> QED
    BY <1>2, <2>1, <2>2, SplitSlotTile
<1>7. CASE j.op = "split empty"
  BY <1>2, <1>3, <1>5, <1>7, SplitSlotTile
<1>8. CASE j.op = "quit"
  BY <1>2, <1>3, <1>4, <1>5, <1>8, QuitAppTile
<1>9. CASE j.op \in {"drop", "drop if empty"}
  <2>1. j.slot \in Slot /\ zoomed = NotZoomed /\ (Quit(j.slot, later) \/ Stay(later))
    BY <1>3, <1>5, <1>9
  <2> QED
    BY <1>2, <2>1, QuitTile, StayTile
<1>10. CASE j.op = "create"
  <2>1. j.slot \in Slot /\ zoomed = NotZoomed
    BY <1>3, <1>10
  <2>2. CASE Stay(later)
    BY <1>2, <2>2, StayTile
  <2>3. CASE /\ item[j.slot] = "empty" /\ CreateIn(j.slot, item, appSlot) /\ jobs' = later
             /\ UNCHANGED <<kids, emptySlot, history, zoomed>>
    <3>1. UNCHANGED <<kids, emptySlot, active, previous, zoomed>>
      BY <2>3 DEF history
    <3> QED
      BY <1>2, <2>1, <2>3, <3>1, CreateTile
  <2> QED
    BY <1>5, <1>10, <2>2, <2>3
<1>11. CASE j.op = "nothing"
  BY <1>2, <1>5, <1>11, StayTile
<1> QED
  BY <1>2, <1>6, <1>7, <1>8, <1>9, <1>10, <1>11 DEF JobRecords

\* The user or an application adds jobs.
LEMMA AddJobsTile ==
  ASSUME Tile, NEW js \in Seq(JobRecords), Len(js) \in {1, 2}, Fits(js, item, open),
         zoomed # NotZoomed => \A k \in DOMAIN js : js[k].op = "quit", AddJobs(js)
  PROVE  Tile'
<1>1. Len(jobs) < MaxJobs /\ jobs' = jobs \o js
      /\ UNCHANGED <<item, kids, appSlot, emptySlot, active, previous, zoomed, open>>
  BY DEF AddJobs, tree, owners, history
<1>2. LaterOK(jobs', item, open)
  BY <1>1, AddedLater
<1>3. Types' /\ Fits(jobs', item', open') /\ ZoomOK'
  BY <1>1, <1>2 DEF Tile, Types, LaterOK, ZoomOK
<1> QED
  BY <1>1, <1>3 DEF Tile, OwnersOK, HistoryOK, Leaf, Live

\* One or two jobs.
LEMMA ShortSeq ==
  ASSUME NEW S, NEW x \in S, NEW y \in S
  PROVE  /\ <<x>> \in Seq(S) /\ Len(<<x>>) = 1 /\ \A k \in DOMAIN <<x>> : <<x>>[k] = x
         /\ <<x, y>> \in Seq(S) /\ Len(<<x, y>>) = 2
         /\ \A k \in DOMAIN <<x, y>> : <<x, y>>[k] \in {x, y}
<1>1. <<x>> \in Seq(S) /\ Len(<<x>>) = 1 /\ <<x>>[1] = x
  OBVIOUS
<1>2. <<x, y>> \in Seq(S) /\ Len(<<x, y>>) = 2 /\ <<x, y>>[1] = x /\ <<x, y>>[2] = y
  OBVIOUS
<1>3. (\A k \in DOMAIN <<x>> : k = 1) /\ (\A k \in DOMAIN <<x, y>> : k \in {1, 2})
  OBVIOUS
<1> QED
  BY <1>1, <1>2, <1>3

\* One job of a pane: about its application, or about the slot.
LEMMA OneJob ==
  ASSUME Tile, NEW op \in {"split", "quit", "split empty", "drop"},
         NEW a \in App \cup {"none"}, NEW s \in Places,
         op \in {"split", "quit"} => a \in open,
         op \in {"split empty", "drop"} => a = "none" /\ s \in Slot /\ item[s] # "free",
         zoomed # NotZoomed => op = "quit", AddJobs(<<Job(op, a, s)>>)
  PROVE  Tile'
<1> DEFINE j == Job(op, a, s)
<1>1. j \in JobRecords /\ j.op = op /\ j.app = a /\ j.slot = s
  BY DEF Job, JobRecords
<1>2. AddJobs(<<j>>)
  OBVIOUS
<1> HIDE DEF j
<1>3. <<j>> \in Seq(JobRecords) /\ Len(<<j>>) = 1 /\ \A k \in DOMAIN <<j>> : <<j>>[k] = j
  BY <1>1, ShortSeq
<1>4. Fits(<<j>>, item, open)
  BY <1>1, <1>3 DEF Fits
<1> QED
  BY <1>1, <1>2, <1>3, <1>4, AddJobsTile

\* Two jobs of a pane: its application ends, and then something is done to its slot.
LEMMA TwoJobs ==
  ASSUME Tile, zoomed = NotZoomed, NEW s \in Slot, item[s] \in App,
         NEW op \in {"drop if empty", "create"},
         AddJobs(<<Job("quit", item[s], Nobody), Job(op, "none", s)>>)
  PROVE  Tile'
<1> DEFINE i == Job("quit", item[s], Nobody)
           j == Job(op, "none", s)
<1>1. /\ i \in JobRecords /\ i.op = "quit" /\ i.app = item[s]
      /\ j \in JobRecords /\ j.op = op /\ j.app = "none" /\ j.slot = s
  BY DEF Job, JobRecords, Places
<1>2. AddJobs(<<i, j>>)
  OBVIOUS
<1> HIDE DEF i, j
<1>3. /\ <<i, j>> \in Seq(JobRecords) /\ Len(<<i, j>>) = 2
      /\ \A k \in DOMAIN <<i, j>> : <<i, j>>[k] \in {i, j}
  BY <1>1, ShortSeq
<1>4. item[s] \in open /\ item[s] # "free"
  BY Names DEF Tile, OwnersOK
<1>5. Fits(<<i, j>>, item, open)
  BY <1>1, <1>3, <1>4 DEF Fits
<1> QED
  BY <1>2, <1>3, <1>5, AddJobsTile

\* A pane gets the focus.
LEMMA FocusTile == ASSUME Tile, NEW s \in Slot, Focus(s) PROVE Tile'
<1> DEFINE own == IF item[s] \in App THEN appSlot[item[s]] ELSE emptySlot[s]
<1>1. /\ s \in Leaf /\ Remember(own)
      /\ UNCHANGED <<item, kids, appSlot, emptySlot, zoomed, jobs, open>>
  BY DEF Focus, tree, owners
<1>2. own = s
  BY <1>1, Names DEF Tile, OwnersOK, Leaf, Live
<1> HIDE DEF own
<1>3. active' = s /\ previous' \in {active, previous}
  BY <1>1, <1>2 DEF Remember
<1>4. Leaf' = Leaf /\ Leaf \subseteq Slot
  BY <1>1 DEF Leaf, Live
<1>5. HistoryOK' /\ active' \in Places /\ previous' \in Places
  BY <1>1, <1>3, <1>4 DEF Tile, HistoryOK, Places
<1>6. Types'
  BY <1>1, <1>5 DEF Tile, Types
<1>7. OwnersOK' /\ ZoomOK' /\ IsTree(item', kids') /\ Fits(jobs', item', open')
  BY <1>1 DEF Tile, OwnersOK, ZoomOK
<1> QED
  BY <1>5, <1>6, <1>7 DEF Tile

\* The two sides of a fork change places.
LEMMA SwapInSplitTile == ASSUME Tile, NEW p \in Slot, SwapInSplit(p) PROVE Tile'
<1>1. /\ item[p] = "fork" /\ kids' = [kids EXCEPT ![p] = <<@[2], @[1]>>]
      /\ UNCHANGED <<item, appSlot, emptySlot, active, previous, zoomed, jobs, open>>
  BY DEF SwapInSplit, owners, history
<1>2. kids[p] # <<>> /\ kids \in [Slot -> {<<>>} \cup (Slot \X Slot)] /\ IsTree(item, kids)
  BY <1>1 DEF Tile, Types, IsTree
<1>3. IsTree(item, kids') /\ kids' \in [Slot -> {<<>>} \cup (Slot \X Slot)]
  BY <1>1, <1>2, SwapTree
<1>4. Types'
  BY <1>1, <1>3 DEF Tile, Types
<1> QED
  BY <1>1, <1>3, <1>4 DEF Tile, OwnersOK, ZoomOK, HistoryOK, Leaf, Live

\* A pane is put on top of the others.
LEMMA ZoomTile == ASSUME Tile, NEW s \in Slot, Zoom(s) PROVE Tile'
<1>1. /\ zoomed = NotZoomed /\ jobs = <<>> /\ s \in Filled
      /\ zoomed' = [app |-> item[s], from |-> s] /\ item' = [item EXCEPT ![s] = "empty"]
      /\ UNCHANGED <<kids, appSlot, emptySlot, active, previous, jobs, open>>
  BY DEF Zoom, AtUser, owners, history
<1>2. item[s] \in App /\ item \in [Slot -> Things]
  BY <1>1 DEF Filled, Tile, Types
<1>3. item'[s] = "empty" /\ (\A x \in Slot \ {s} : item'[x] = item[x]) /\ item' \in [Slot -> Things]
  BY <1>1, <1>2 DEF Things
<1>4. zoomed'.app = item[s] /\ zoomed'.from = s /\ zoomed' \in [app : App \cup {"none"}, from : Places]
  BY <1>1, <1>2 DEF Places
<1>5. IsTree(item', kids')
  <2>1. \A x \in Slot : item'[x] = item[x] \/ {item[x], item'[x]} \subseteq App \cup {"empty"}
    BY <1>2, <1>3
  <2>2. IsTree(item, kids) /\ \A x \in Slot : kids'[x] = kids[x]
    BY <1>1 DEF Tile
  <2> QED
    BY <2>1, <2>2, SameTree
<1>6. OwnersOK'
  <2>1. \A x \in Slot : item'[x] \in App => appSlot'[item'[x]] = x
    BY <1>1, <1>3, Names DEF Tile, OwnersOK
  <2>2. \A x \in Slot : item'[x] # "free" => emptySlot'[x] = x
    BY <1>1, <1>2, <1>3, Names DEF Tile, OwnersOK
  <2>3. ASSUME NEW a \in App
        PROVE  a \in open' <=> (\E x \in Slot : item'[x] = a) \/ zoomed'.app = a
    <3>1. a \in open <=> (\E x \in Slot : item[x] = a)
      BY <1>1, Names DEF Tile, OwnersOK, NotZoomed
    <3>2. (\E x \in Slot : item[x] = a) <=> (\E x \in Slot : item'[x] = a) \/ item[s] = a
      BY <1>3, Names
    <3> QED
      BY <1>1, <1>4, <3>1, <3>2
  <2> QED
    BY <2>1, <2>2, <2>3 DEF OwnersOK
<1>7. ZoomOK' /\ Fits(jobs', item', open')
  <2>1. DOMAIN jobs' = {}
    BY <1>1
  <2>2. appSlot[item[s]] = s
    BY <1>2 DEF Tile, OwnersOK
  <2> QED
    BY <1>1, <1>2, <1>3, <1>4, <2>1, <2>2 DEF ZoomOK, Fits
<1>8. HistoryOK'
  <2>1. Leaf \subseteq Leaf'
    BY <1>3, Names DEF Leaf, Live
  <2> QED
    BY <1>1, <2>1 DEF Tile, HistoryOK
<1>9. Types'
  BY <1>1, <1>3, <1>4 DEF Tile, Types
<1> QED
  BY <1>5, <1>6, <1>7, <1>8, <1>9 DEF Tile

\* A zoomed pane goes back where it was.
LEMMA RestoreTile == ASSUME Tile, Restore PROVE Tile'
<1> DEFINE s == zoomed.from
           a == zoomed.app
<1>1. /\ zoomed # NotZoomed /\ zoomed' = NotZoomed /\ item' = [item EXCEPT ![s] = a]
      /\ UNCHANGED <<kids, appSlot, emptySlot, active, previous, jobs, open>>
  BY DEF Restore, AtUser, owners, history
<1>2. a \in App /\ s \in Slot /\ item[s] = "empty" /\ appSlot[a] = s /\ item \in [Slot -> Things]
  BY <1>1 DEF Tile, ZoomOK, Types
<1>0. a = zoomed.app
  OBVIOUS
<1> HIDE DEF s, a
<1>3. item'[s] = a /\ (\A x \in Slot \ {s} : item'[x] = item[x]) /\ item' \in [Slot -> Things]
  BY <1>1, <1>2 DEF Things
<1>4. \A x \in Slot : item[x] # a
  BY <1>2, Names DEF Tile, OwnersOK
<1>5. IsTree(item', kids')
  <2>1. \A x \in Slot : item'[x] = item[x] \/ {item[x], item'[x]} \subseteq App \cup {"empty"}
    BY <1>2, <1>3
  <2>2. IsTree(item, kids) /\ \A x \in Slot : kids'[x] = kids[x]
    BY <1>1 DEF Tile
  <2> QED
    BY <2>1, <2>2, SameTree
<1>6. OwnersOK'
  <2>1. \A x \in Slot : item'[x] \in App => appSlot'[item'[x]] = x
    BY <1>1, <1>2, <1>3 DEF Tile, OwnersOK
  <2>2. \A x \in Slot : item'[x] # "free" => emptySlot'[x] = x
    BY <1>1, <1>2, <1>3, Names DEF Tile, OwnersOK
  <2>3. ASSUME NEW b \in App
        PROVE  b \in open' <=> (\E x \in Slot : item'[x] = b) \/ zoomed'.app = b
    <3>1. b \in open <=> (\E x \in Slot : item[x] = b) \/ a = b
      BY <1>0 DEF Tile, OwnersOK
    <3>2. (\E x \in Slot : item'[x] = b) <=> (\E x \in Slot : item[x] = b) \/ a = b
      BY <1>2, <1>3, Names
    <3>3. zoomed'.app # b
      BY <1>1, Names DEF NotZoomed
    <3> QED
      BY <1>1, <3>1, <3>2, <3>3
  <2> QED
    BY <2>1, <2>2, <2>3 DEF OwnersOK
<1>7. ZoomOK' /\ Fits(jobs', item', open')
  <2>1. \A x \in Slot : item[x] # "free" => item'[x] # "free"
    BY <1>2, <1>3, Names
  <2> QED
    BY <1>1, <2>1 DEF ZoomOK, Tile, Fits
<1>8. HistoryOK'
  <2>1. Leaf \subseteq Leaf'
    BY <1>2, <1>3, Names DEF Leaf, Live
  <2> QED
    BY <1>1, <2>1 DEF Tile, HistoryOK
<1>9. Types'
  <2>1. zoomed' \in [app : App \cup {"none"}, from : Places]
    BY <1>1 DEF NotZoomed, Places
  <2> QED
    BY <1>1, <1>3, <2>1 DEF Tile, Types
<1> QED
  BY <1>5, <1>6, <1>7, <1>8, <1>9 DEF Tile

-----------------------------------------------------------------------------
(* Panes that go around.                                                   *)

\* Panes that are selected are different leaves.
LEMMA SelectionIs ==
  ASSUME NEW sel \in Selections
  PROVE  \E n \in Nat : /\ n > 1 /\ sel \in [1..n -> Leaf]
                        /\ \A i, j \in 1..n : sel[i] = sel[j] => i = j
<1>1. PICK n \in 2..Cardinality(Leaf) :
        /\ sel \in [1..n -> Leaf]
        /\ \A i, j \in DOMAIN sel : i < j => sel[i] # sel[j]
  BY DEF Selections
<1>2. n \in Nat /\ n > 1
  <2>1. IsFiniteSet(Slot)
    BY FS_Interval, TileAssumption DEF Slot
  <2>2. Leaf \in SUBSET Slot
    BY DEF Leaf, Live
  <2>3. Cardinality(Leaf) \in Nat
    BY <2>1, <2>2, FS_Subset, FS_CardinalityType
  <2> QED
    BY <2>3
<1>3. ASSUME NEW i \in 1..n, NEW j \in 1..n, sel[i] = sel[j] PROVE i = j
  <2>1. DOMAIN sel = 1..n
    BY <1>1
  <2>2. ~(i < j) /\ ~(j < i)
    BY <1>1, <1>3, <2>1
  <2> QED
    BY <1>2, <2>2
<1> QED
  BY <1>1, <1>2, <1>3

\* Each goes to the next place, and the last to the first: nothing is lost or doubled.
LEMMA GoesAround ==
  ASSUME NEW S, NEW n \in Nat, n > 1, NEW sel \in [1..n -> S],
         \A i, j \in 1..n : sel[i] = sel[j] => i = j
  PROVE  /\ ToSet(sel) \subseteq S
         /\ \A s \in ToSet(sel) : Before(sel, s) \in ToSet(sel) /\ After(sel, s) \in ToSet(sel)
         /\ \A s, t \in ToSet(sel) : Before(sel, s) = Before(sel, t) => s = t
         /\ \A t \in ToSet(sel) : \E s \in ToSet(sel) : Before(sel, s) = t
<1>1. DOMAIN sel = 1..n /\ Len(sel) = n /\ ToSet(sel) = {sel[i] : i \in 1..n}
  <2>1. sel \in Seq(S) /\ Len(sel) = n
    OBVIOUS
  <2> QED
    BY <2>1 DEF ToSet
<1>2. \A s \in ToSet(sel) : Index(sel, s) \in 1..n /\ sel[Index(sel, s)] = s
  BY <1>1 DEF Index
<1> DEFINE last(i) == IF i = 1 THEN n ELSE i - 1
           next(i) == IF i = n THEN 1 ELSE i + 1
<1>3. \A i \in 1..n : last(i) \in 1..n /\ next(i) \in 1..n /\ last(next(i)) = i
  OBVIOUS
<1>4. \A i, j \in 1..n : last(i) = last(j) => i = j
  OBVIOUS
<1>5. \A s \in ToSet(sel) : /\ Before(sel, s) = sel[last(Index(sel, s))]
                            /\ After(sel, s) = sel[next(Index(sel, s))]
  BY <1>1 DEF Before, After
<1> HIDE DEF last, next
<1>6. \A i \in 1..n : sel[i] \in ToSet(sel) /\ sel[i] \in S /\ Index(sel, sel[i]) = i
  BY <1>1, <1>2
<1>7. \A s \in ToSet(sel) : Before(sel, s) \in ToSet(sel) /\ After(sel, s) \in ToSet(sel)
  BY <1>2, <1>3, <1>5, <1>6
<1>8. ASSUME NEW s \in ToSet(sel), NEW t \in ToSet(sel), Before(sel, s) = Before(sel, t) PROVE s = t
  <2>1. last(Index(sel, s)) = last(Index(sel, t))
    BY <1>2, <1>3, <1>5, <1>8
  <2>2. Index(sel, s) = Index(sel, t)
    BY <1>2, <1>4, <2>1
  <2> QED
    BY <1>2, <2>2
<1>9. ASSUME NEW t \in ToSet(sel) PROVE \E s \in ToSet(sel) : Before(sel, s) = t
  <2>1. PICK i \in 1..n : i = Index(sel, t) /\ sel[i] = t
    BY <1>2
  <2>2. next(i) \in 1..n /\ last(next(i)) = i
    BY <1>3
  <2>3. sel[next(i)] \in ToSet(sel) /\ Before(sel, sel[next(i)]) = t
    BY <1>5, <1>6, <2>1, <2>2
  <2> QED
    BY <2>3
<1> QED
  BY <1>1, <1>6, <1>7, <1>8, <1>9

\* Panes are exchanged with the next.
LEMMA SwapPanesTile == ASSUME Tile, NEW sel \in Selections, SwapPanes(sel) PROVE Tile'
<1> DEFINE set == ToSet(sel)
           to == [x \in Slot |-> IF x \in set THEN After(sel, x) ELSE x]
<1>0. Types
  BY DEF Tile
<1>1. /\ set \subseteq Leaf
      /\ \A s \in set : Before(sel, s) \in set /\ After(sel, s) \in set
      /\ \A s, t \in set : Before(sel, s) = Before(sel, t) => s = t
      /\ \A t \in set : \E s \in set : Before(sel, s) = t
  <2>1. PICK n \in Nat : /\ n > 1 /\ sel \in [1..n -> Leaf]
                         /\ \A i, j \in 1..n : sel[i] = sel[j] => i = j
    BY SelectionIs
  <2> QED
    BY <2>1, GoesAround
<1>2. Leaf \subseteq Slot /\ \A x \in Leaf : item[x] \in App \cup {"empty"}
  BY <1>0 DEF Leaf, Live, Types, Things
<1>3. /\ zoomed = NotZoomed
      /\ item' = [s \in Slot |-> IF s \in set THEN item[Before(sel, s)] ELSE item[s]]
      /\ emptySlot' = [s \in Slot |-> IF s \in set THEN s ELSE emptySlot[s]]
      /\ jobs' = Follow(jobs, to)
      /\ UNCHANGED <<kids, active, previous, zoomed, open>>
  BY DEF SwapPanes, AtUser, RotatedWidgets, history
<1>4. appSlot' = [a \in App |-> IF \E s \in set : item'[s] = a
                                THEN CHOOSE s \in set : item'[s] = a ELSE appSlot[a]]
  <2>1. \A s \in set : item'[s] = IF s \in set THEN item[Before(sel, s)] ELSE item[s]
    BY <1>1, <1>2, <1>3
  <2> QED
    BY DEF SwapPanes
<1> HIDE DEF set
<1>5. /\ \A s \in set : s \in Slot /\ item'[s] = item[Before(sel, s)]
      /\ \A s \in Slot \ set : item'[s] = item[s]
      /\ \A s \in Slot : item'[s] = item[s] \/ {item[s], item'[s]} \subseteq App \cup {"empty"}
  <2>1. \A s \in set : s \in Slot /\ item'[s] = item[Before(sel, s)]
    BY <1>1, <1>2, <1>3
  <2>2. \A s \in Slot \ set : item'[s] = item[s]
    BY <1>3
  <2> QED
    BY <1>1, <1>2, <2>1, <2>2
<1>6. \A s \in Slot : /\ item'[s] = "free" <=> item[s] = "free"
                      /\ item'[s] = "fork" <=> item[s] = "fork"
  BY <1>5, Names
<1>7. IsTree(item', kids')
  <2>1. IsTree(item, kids) /\ \A x \in Slot : kids'[x] = kids[x]
    BY <1>3 DEF Tile
  <2> QED
    BY <1>5, <2>1, SameTree
<1>8. LaterOK(jobs', item', open')
  <2>1. to \in [Slot -> Slot] /\ \A x \in Slot : to[x] = IF x \in set THEN After(sel, x) ELSE x
    BY <1>1, <1>2
  <2> HIDE DEF to
  <2>2. \A x \in Slot : item[x] # "free" => item'[x] # "free" /\ item'[to[x]] # "free"
    <3>1. \A x \in set : item[After(sel, x)] # "free" /\ After(sel, x) \in Slot
      BY <1>1, <1>2, Names
    <3> QED
      BY <1>6, <2>1, <3>1
  <2>3. LaterOK(Follow(jobs, to), item', open)
    BY <2>1, <2>2, JobsLater, FollowLater
  <2> QED
    BY <1>3, <2>3
<1>9. \A s, t \in Slot : item[s] \in App /\ item[s] = item[t] => s = t
  BY DEF Tile, OwnersOK
<1>10. OwnersOK'
  <2>1. ASSUME NEW x \in Slot, item'[x] \in App PROVE appSlot'[item'[x]] = x
    <3>1. CASE x \in set
      <4>1. ASSUME NEW s \in set, item'[s] = item'[x] PROVE s = x
        <5>1. item[Before(sel, s)] = item[Before(sel, x)] /\ item[Before(sel, x)] \in App
          BY <1>5, <2>1, <3>1, <4>1
        <5>2. Before(sel, s) = Before(sel, x)
          BY <1>1, <1>2, <1>9, <3>1, <5>1
        <5> QED
          BY <1>1, <3>1, <5>2
      <4>2. (CHOOSE s \in set : item'[s] = item'[x]) = x
        BY <3>1, <4>1
      <4> QED
        BY <1>4, <2>1, <3>1, <4>2
    <3>2. CASE x \notin set
      <4>1. item'[x] = item[x] /\ appSlot[item[x]] = x
        BY <1>5, <2>1, <3>2 DEF Tile, OwnersOK
      <4>2. ASSUME NEW s \in set, item'[s] = item'[x] PROVE FALSE
        <5>1. Before(sel, s) \in set /\ item[Before(sel, s)] = item[x] /\ item[x] \in App
          BY <1>1, <1>5, <2>1, <4>1, <4>2
        <5>2. Before(sel, s) = x
          BY <1>1, <1>2, <1>9, <5>1
        <5> QED
          BY <3>2, <5>1, <5>2
      <4> QED
        BY <1>4, <2>1, <4>1, <4>2
    <3> QED
      BY <3>1, <3>2
  <2>2. \A x \in Slot : item'[x] # "free" => emptySlot'[x] = x
    BY <1>3, <1>6 DEF Tile, OwnersOK
  <2>3. ASSUME NEW a \in App
        PROVE  a \in open' <=> (\E x \in Slot : item'[x] = a) \/ zoomed'.app = a
    <3>1. a \in open <=> (\E x \in Slot : item[x] = a) \/ zoomed.app = a
      BY DEF Tile, OwnersOK
    <3>2. ASSUME NEW x \in Slot, item[x] = a PROVE \E y \in Slot : item'[y] = a
      <4>1. CASE x \in set
        <5>1. PICK y \in set : Before(sel, y) = x
          BY <1>1, <4>1
        <5> QED
          BY <1>5, <3>2, <5>1
      <4>2. CASE x \notin set
        BY <1>5, <3>2, <4>2
      <4> QED
        BY <4>1, <4>2
    <3>3. ASSUME NEW y \in Slot, item'[y] = a PROVE \E x \in Slot : item[x] = a
      BY <1>1, <1>2, <1>5, <3>3
    <3> QED
      BY <1>3, <3>1, <3>2, <3>3
  <2> QED
    BY <2>1, <2>2, <2>3 DEF OwnersOK
<1>11. HistoryOK'
  <2>1. Leaf' = Leaf
    BY <1>6 DEF Leaf, Live
  <2> QED
    BY <1>3, <2>1 DEF Tile, HistoryOK
<1>12. Types' /\ ZoomOK'
  <2>1. item' \in [Slot -> Things] /\ emptySlot' \in [Slot -> Places]
    BY <1>0, <1>1, <1>2, <1>3 DEF Types, Things, Places
  <2>2. appSlot' \in [App -> Places]
    <3>1. \A a \in App : (\E s \in set : item'[s] = a) => (CHOOSE s \in set : item'[s] = a) \in Slot
      BY <1>5
    <3> QED
      BY <1>0, <1>4, <3>1 DEF Types, Places
  <2> QED
    BY <1>0, <1>3, <1>8, <2>1, <2>2 DEF Types, LaterOK, ZoomOK
<1> QED
  BY <1>7, <1>8, <1>10, <1>11, <1>12 DEF Tile, LaterOK

-----------------------------------------------------------------------------
(* Together.                                                               *)

\* At first there is one empty slot.
LEMMA InitTile == TileInit => Tile
<1> SUFFICES ASSUME TileInit PROVE Tile
  OBVIOUS
<1>1. /\ item \in [Slot -> Things] /\ item[Root] = "empty" /\ \A s \in Slot \ {Root} : item[s] = "free"
      /\ kids = [s \in Slot |-> <<>>]
      /\ emptySlot \in [Slot -> Places] /\ emptySlot[Root] = Root
  BY Names DEF TileInit, Things, Places
<1>2. Types
  <2>1. jobs \in Seq(JobRecords) /\ Len(jobs) = 0 /\ 0 <= MaxJobs + 1
    BY TileAssumption DEF TileInit
  <2>2. zoomed \in [app : App \cup {"none"}, from : Places]
    BY DEF TileInit, NotZoomed, Places
  <2> QED
    BY <1>1, <2>1, <2>2 DEF TileInit, Types, Places
<1>3. IsTree(item, kids)
  <2>1. \A p, s : p \in Slot => ~Kid(kids, p, s)
    BY <1>1 DEF Kid
  <2>2. [s \in Slot |-> 0] \in [Slot -> Nat]
    OBVIOUS
  <2>3. \E depth \in [Slot -> Nat] : \A p, s \in Slot : Kid(kids, p, s) => depth[p] < depth[s]
    BY <2>1, <2>2
  <2>4. \A s \in Slot : item[s] # "fork" /\ kids[s] = <<>>
    BY <1>1
  <2> QED
    BY <1>1, <2>1, <2>3, <2>4, Names DEF IsTree
<1>4. OwnersOK
  BY <1>1, Names DEF TileInit, OwnersOK, NotZoomed
<1>5. ZoomOK /\ HistoryOK
  BY DEF TileInit, ZoomOK, HistoryOK
<1>6. Fits(jobs, item, open)
  <2>1. DOMAIN jobs = {}
    BY DEF TileInit
  <2> QED
    BY <2>1 DEF Fits
<1> QED
  BY <1>2, <1>3, <1>4, <1>5, <1>6 DEF Tile

\* No step breaks it.
LEMMA NextTile == ASSUME Tile, [TileNext]_tileVars PROVE Tile'
<1>0. /\ \A s \in Slot : item[s] \in App => item[s] \in open
      /\ open \subseteq App /\ Nobody \in Places /\ Slot \subseteq Places
      /\ \A s \in Leaf : s \in Slot /\ item[s] # "free" /\ item[s] \in App \cup {"empty"}
  BY DEF Tile, OwnersOK, Types, Places, Leaf, Live, Things
<1>1. ASSUME NEW s \in Slot, SplitPane(s) PROVE Tile'
  <2>1. s \in Leaf /\ zoomed = NotZoomed
    BY <1>1 DEF SplitPane, AtUser
  <2>2. CASE item[s] = "empty"
    <3>1. AddJobs(<<Job("split empty", "none", s)>>)
      BY <1>1, <2>2 DEF SplitPane
    <3> QED
      BY <1>0, <2>1, <3>1, OneJob
  <2>3. CASE item[s] # "empty"
    <3>1. AddJobs(<<Job("split", item[s], Nobody)>>) /\ item[s] \in App
      BY <1>0, <1>1, <2>1, <2>3 DEF SplitPane
    <3> QED
      BY <1>0, <2>1, <3>1, OneJob
  <2> QED
    BY <2>2, <2>3
<1>2. ASSUME NEW s \in Slot, ClosePane(s) PROVE Tile'
  <2>1. s \in Leaf /\ zoomed = NotZoomed
    BY <1>2 DEF ClosePane, AtUser
  <2>2. CASE item[s] = "empty"
    <3>1. AddJobs(<<Job("drop", "none", s)>>)
      BY <1>2, <2>2 DEF ClosePane
    <3> QED
      BY <1>0, <2>1, <3>1, OneJob
  <2>3. CASE item[s] # "empty"
    <3>1. AddJobs(<<Job("quit", item[s], Nobody)>>) /\ item[s] \in App
      BY <1>0, <1>2, <2>1, <2>3 DEF ClosePane
    <3> QED
      BY <1>0, <2>1, <3>1, OneJob
  <2> QED
    BY <2>2, <2>3
<1>3. ASSUME NEW s \in Slot, CloseEmpty(s) PROVE Tile'
  BY <1>3, JobsLater, QuitTile DEF CloseEmpty, AtUser
<1>4. ASSUME NEW s \in Slot, CloseSlot(s) \/ ReRun(s) PROVE Tile'
  <2>1. zoomed = NotZoomed /\ item[s] \in App
    BY <1>4 DEF CloseSlot, ReRun, AtUser, Filled
  <2>2. \/ AddJobs(<<Job("quit", item[s], Nobody), Job("drop if empty", "none", s)>>)
        \/ AddJobs(<<Job("quit", item[s], Nobody), Job("create", "none", s)>>)
    BY <1>4 DEF CloseSlot, ReRun
  <2> QED
    BY <2>1, <2>2, TwoJobs
<1>5. ASSUME NEW s \in Slot, Create(s) PROVE Tile'
  BY <1>5, JobsLater, CreateTile DEF Create, AtUser, history
<1>6. ASSUME NEW a \in App, AppEnds(a) PROVE Tile'
  BY <1>0, <1>6, OneJob DEF AppEnds
<1>7. CASE UNCHANGED tileVars
  BY <1>7 DEF tileVars, tree, owners, history, Tile, Types, OwnersOK, ZoomOK, HistoryOK, Leaf, Live
<1> QED
  BY <1>1, <1>2, <1>3, <1>4, <1>5, <1>6, <1>7, RunJobTile, RestoreTile, FocusTile, SwapInSplitTile,
     ZoomTile, SwapPanesTile
  DEF TileNext

\* The panes, their owners, the history and the jobs fit together in every reachable state.
THEOREM TileHolds == TileSpec => []Tile
<1>1. Tile /\ [TileNext]_tileVars => Tile'
  BY NextTile
<1> QED
  BY <1>1, InitTile, PTL DEF TileSpec

\* The panes are a tree: every live slot but the root is one of the two of one fork, and a
\* zoomed pane left an empty slot behind.
THEOREM PanesAreTree == TileSpec => []TileTypeOK
<1>1. ASSUME Tile PROVE TileTypeOK
  <2>1. Types /\ IsTree(item, kids)
    BY <1>1 DEF Tile
  <2>2. \A s \in Slot : item[s] = "fork" <=> Len(kids[s]) = 2
    <3>1. Len(<<>>) = 0 /\ \A ks \in Slot \X Slot : Len(ks) = 2
      OBVIOUS
    <3>2. \A s \in Slot : kids[s] = <<>> \/ kids[s] \in Slot \X Slot
      BY <2>1 DEF Types
    <3> QED
      BY <2>1, <3>1, <3>2 DEF IsTree
  <2>3. ASSUME NEW s \in Live \ {Root}
        PROVE  Cardinality({side \in Live \X {1, 2} :
                              side[2] \in DOMAIN kids[side[1]] /\ kids[side[1]][side[2]] = s}) = 1
    <3> DEFINE sides == {side \in Live \X {1, 2} :
                           side[2] \in DOMAIN kids[side[1]] /\ kids[side[1]][side[2]] = s}
    <3>1. s \in Slot
      BY DEF Live
    <3>2. PICK p \in Slot : Kid(kids, p, s)
      BY <2>1, <3>1 DEF IsTree, Live
    <3>3. kids[p] \in Slot \X Slot /\ kids[p][1] # kids[p][2] /\ p \in Live
      BY <2>1, <3>2, Names DEF Types, IsTree, Kid, Live
    <3>4. PICK i \in {1, 2} : kids[p][i] = s
      BY <3>2 DEF Kid
    <3>5. <<p, i>> \in sides
      BY <3>3, <3>4
    <3>6. ASSUME NEW side \in sides PROVE side = <<p, i>>
      <4>1. PICK q \in Live, j \in {1, 2} : side = <<q, j>> /\ j \in DOMAIN kids[q] /\ kids[q][j] = s
        OBVIOUS
      <4>2. q \in Slot /\ kids[q] # <<>>
        BY <4>1 DEF Live
      <4>3. Kid(kids, q, s)
        BY <4>1, <4>2 DEF Kid
      <4>4. q = p
        BY <2>1, <3>1, <3>2, <4>2, <4>3 DEF IsTree
      <4>5. j = i
        BY <3>3, <3>4, <4>1, <4>4
      <4> QED
        BY <4>1, <4>4, <4>5
    <3>7. sides = {<<p, i>>}
      BY <3>5, <3>6
    <3> QED
      BY <3>7, FS_Singleton
  <2>4. zoomed # NotZoomed => item[zoomed.from] = "empty"
    BY <1>1 DEF Tile, ZoomOK
  <2> QED
    BY <2>1, <2>2, <2>3, <2>4, Names DEF TileTypeOK, Types, Things, Places, IsTree, Live
<1> QED
  BY <1>1, TileHolds, PTL

\* No application is lost: each one that runs is in exactly one pane or zoomed, and one that
\* ended is in none.
THEOREM AppsAreKept == TileSpec => []AppsKept
<1>1. ASSUME Tile, NEW a \in App
      PROVE  Cardinality({s \in Live : item[s] = a}) + (IF zoomed.app = a THEN 1 ELSE 0)
               = IF a \in open THEN 1 ELSE 0
  <2> DEFINE at == {s \in Live : item[s] = a}
  <2>1. a \in open <=> (\E s \in Slot : item[s] = a) \/ zoomed.app = a
    BY <1>1 DEF Tile, OwnersOK
  <2>2. \A s, t \in Slot : item[s] = a /\ item[t] = a => s = t
    BY <1>1 DEF Tile, OwnersOK
  <2>3. \A s \in Slot : item[s] = a => s \in at
    BY Names DEF Live
  <2>4. \A s \in at : s \in Slot /\ item[s] = a
    BY DEF Live
  <2> HIDE DEF at
  <2>5. CASE \E s \in Slot : item[s] = a
    <3>1. PICK s \in Slot : item[s] = a
      BY <2>5
    <3>2. at = {s}
      BY <2>2, <2>3, <2>4, <3>1
    <3>3. zoomed.app # a
      BY <1>1, <3>1, Names DEF Tile, ZoomOK, OwnersOK, NotZoomed
    <3>4. Cardinality(at) = 1
      BY <3>2, FS_Singleton
    <3> QED
      BY <2>1, <3>1, <3>3, <3>4 DEF at
  <2>6. CASE ~ \E s \in Slot : item[s] = a
    <3>1. at = {}
      BY <2>4, <2>6
    <3>2. Cardinality(at) = 0
      BY <3>1, FS_EmptySet
    <3> QED
      BY <2>1, <2>6, <3>2 DEF at
  <2> QED
    BY <2>5, <2>6
<1>2. Tile => AppsKept
  BY <1>1 DEF AppsKept
<1> QED
  BY <1>2, TileHolds, PTL

\* The history can be followed: every pane is owned by its slot, and what the history names
\* is a pane.
THEOREM FocusFollows == TileSpec => []FocusFollowsPanes
<1>1. Tile => FocusFollowsPanes
  BY DEF Tile, OwnersOK, ZoomOK, HistoryOK, FocusFollowsPanes, Filled, Live
<1> QED
  BY <1>1, TileHolds, PTL
=============================================================================
