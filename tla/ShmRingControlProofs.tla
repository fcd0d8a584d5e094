------------------------ MODULE ShmRingControlProofs ------------------------
(* Who does what when in ShmRing, and what is on the pipes meanwhile: the  *)
(* part of its inductive invariant that is about control, for rings and    *)
(* files of any size.  ShmRingProofs goes on with slots, units and the     *)
(* refinement.                                                             *)
EXTENDS ShmRing, FiniteSetTheorems, SequenceTheorems, TLAPS

\* Lines of a pipe, by their kinds.
Heads(q, k)     == q # <<>> /\ Head(q).kind = k
Kinds(q, ks)    == \A i \in 1..Len(q) : q[i].kind \in ks
Has(q, k)       == \E i \in 1..Len(q) : q[i].kind = k
Ends(q, ks, ls) == q # <<>> /\ q[Len(q)].kind \in ls /\ \A i \in 1..Len(q) - 1 : q[i].kind \in ks
Among(q, ks, k) ==
  \E i \in 1..Len(q) : q[i].kind = k /\ \A j \in 1..Len(q) : j # i => q[j].kind \in ks

\* What may follow what on the way to the application: the helper waits for the answer to
\* all lines but a filled slot, and in credit mode may hear of an error before its finalize
\* is answered.
Next2(a, b, m) ==
  /\ m = "credit"
  /\ \/ a.kind = "next" /\ b.kind \in {"next", "quota", "final", "done"}
     \/ a.kind = "final" /\ b.kind = "done"
Follows(q, m) == \A i \in 1..Len(q) - 1 : Next2(q[i], q[i + 1], m)

IoOf(m)   == IF m = "credit" THEN {"grant", "error"} ELSE {}
NextOf(m) == IF m = "credit" THEN {"next"} ELSE {}

HelperLines ==
  {m \in [kind : {"get", "refused", "map", "grant", "slot", "error", "eof", "kept", "lost", "quota"},
          slot : 0..Slots, n : 0..SlotUnits] :
     m.kind \in {"grant", "slot"} => m.slot \in RingSlot /\ m.n > 0}
AppLines ==
  {m \in [kind : {"open", "next", "quota", "final", "done"}, slot : 0..Slots, n : 0..SlotUnits] :
     m.kind \in {"next", "final"} /\ m.n > 0 => m.slot \in RingSlot}

-----------------------------------------------------------------------------
(* Who does what when.                                                     *)

Alive   == helper.pc # "gone"
Idle    == helper.pc \in {"command", "gone"}
Holding == helper.pc \in {"run", "quota"}
Moves   == helper.pc \in {"run", "ask", "quota", "final"}
Mapped  == helper.pc = "open" /\ Heads(toHelper, "map")
Started == Moves \/ Mapped

ContextTypes ==
  /\ flow \in Flows /\ mode \in {"upload", flow} /\ whole \in BOOLEAN /\ length \in 0..MaxLen
  /\ mode # "upload" => whole
RingTypes == free \in Seq(RingSlot) /\ ready \in Seq(SlotLines) /\ lent \in 0..Slots
FlagTypes ==
  eof \in BOOLEAN /\ final \in BOOLEAN /\ broken \in BOOLEAN /\ barred \in BOOLEAN /\ halt \in BOOLEAN
Flushers ==
  [pc : {"none", "wait", "flush", "grant", "excuse", "finish", "fill", "over"},
   slot : 0..Slots, n : 0..SlotUnits, at : 0..MaxLen]
Helpers ==
  [pc : {"gone", "command", "open", "run", "ask", "quota", "final", "report"},
   slot : 0..Slots, fill : 0..SlotUnits, grants : Seq(RingSlot), moved : Nat,
   ok : BOOLEAN, asked : BOOLEAN]

ThreadTypes ==
  /\ flusher \in Flushers
  /\ reader \in {"read", "open", "start", "next", "final", "over"}
  /\ boss \in [pc : {"ready", "context", "wait", "kill", "signal", "join", "drop", "stopped"},
               outcome : {"none", "ok", "fail"}]
  /\ helper \in Helpers
PipeTypes == toHelper \in Seq(HelperLines) /\ toApp \in Seq(AppLines) /\ inbox \in Seq(AppLines)
Types ==
  ContextTypes /\ RingTypes /\ FlagTypes /\ ThreadTypes /\ PipeTypes

\* The I/O thread has a slot while it works on one, and it works for the mode it is in.
FlusherOK ==
  /\ flusher.slot \in RingSlot <=> flusher.pc \in {"flush", "grant", "excuse", "fill"}
  /\ flusher.pc = "fill" => mode = "upload"
  /\ flusher.pc \in {"flush", "finish"} => mode # "upload"
  /\ flusher.pc \in {"grant", "excuse"} => mode = "credit"
  /\ flusher.pc = "flush" => flusher.n > 0
  /\ flusher.pc = "excuse" => broken
  /\ flusher.pc \in {"wait", "fill"} /\ mode = "upload" => flusher.at <= length

\* A command on the wire finds everything at rest.
GetState ==
  /\ helper.pc = "command" /\ toHelper = <<Line("get")>> /\ toApp = <<>> /\ inbox = <<>>
  /\ reader = "read" /\ FlusherOver /\ landed = <<>> /\ boss.outcome = "none"
  /\ boss.pc \in {"wait", "kill"}

\* What is on the wires while the helper waits for ...
CommandWire == Alive /\ Has(toHelper, "get") => GetState      \* ... a command, ...
OpenWire ==                                                   \* ... the mapping, ...
  helper.pc = "open" =>
    \/ reader = "read" /\ toApp = <<Line("open")>> /\ toHelper = <<>>
    \/ reader \in {"open", "start"} /\ toApp = <<>> /\ toHelper = <<>>
    \/ reader = "read" /\ toApp = <<>> /\ toHelper = <<Line("refused")>> /\ FlusherOver
    \/ reader = "read" /\ toApp = <<>> /\ Mapped /\ Kinds(Tail(toHelper), IoOf(mode))
RunWire ==                                                    \* ... nothing or a grant, ...
  helper.pc = "run" \/ (helper.pc = "ask" /\ mode = "credit") =>
    reader = "read" /\ Kinds(toApp, NextOf(mode)) /\ Kinds(toHelper, IoOf(mode))
QuotaWire ==                                                  \* ... its quota, ...
  helper.pc = "quota" =>
    /\ reader = "read"
    /\ \/ Ends(toApp, NextOf(mode), {"quota"}) /\ Kinds(toHelper, IoOf(mode))
       \/ toApp = <<>> /\ Among(toHelper, IoOf(mode), "quota")
AskWire ==                                                    \* ... the next slot, ...
  helper.pc = "ask" /\ mode # "credit" =>
    \/ /\ reader = "read" /\ toHelper = <<>>
       /\ toApp = <<SlotLine("next", helper.slot, helper.fill)>> /\ helper.slot = lent
    \/ reader = "next" /\ toApp = <<>> /\ toHelper = <<>> /\ lent = None
    \/ /\ reader = "read" /\ toApp = <<>> /\ lent # None
       /\ \E n \in 1..SlotUnits : toHelper = <<SlotLine("slot", lent, n)>>
    \/ /\ reader = "read" /\ toApp = <<>> /\ lent = None
       /\ toHelper = <<Line("error")>> \/ (toHelper = <<Line("eof")>> /\ mode = "upload")
FinalWire ==                                                  \* ... and the verdict.
  helper.pc = "final" =>
    /\ mode # "upload"
    /\ \/ reader = "read" /\ Ends(toApp, NextOf(mode), {"final"}) /\ Kinds(toHelper, IoOf(mode))
       \/ reader = "final" /\ toApp = <<>> /\ Kinds(toHelper, IoOf(mode)) /\ final
       \/ /\ reader = "read" /\ toApp = <<>> /\ FlusherOver /\ final
          /\ Ends(toHelper, IoOf(mode), {"kept", "lost"})
ReportWire ==                                                 \* Nothing more is said.
  helper.pc = "report" => Kinds(toApp, {"next", "final"}) /\ (mode # "credit" => toApp = <<>>)
Wires == CommandWire /\ OpenWire /\ RunWire /\ QuotaWire /\ AskWire /\ FinalWire /\ ReportWire

\* What the UI thread knows of the others.
BossOK ==
  /\ boss.pc \in {"signal", "join", "drop", "stopped"} => helper.pc = "gone"
  /\ boss.pc \in {"drop", "stopped"} => reader = "over"
  /\ boss.pc = "stopped" => FlusherOver /\ inbox = <<>>
  /\ boss.pc \in {"ready", "context"} =>
       /\ Idle /\ toApp = <<>> /\ inbox = <<>> /\ reader \in {"read", "over"}
       /\ Alive => toHelper = <<>>
       /\ Download => FlusherOver
  /\ ~Idle => boss.pc \in {"wait", "kill"} /\ inbox = <<>> /\ boss.outcome = "none"
  /\ boss.pc = "wait" => boss.outcome = "none"

Opening == reader \in {"open", "start"} \/ Has(toApp, "open")

\* The reader, and the lines to it, whether or not the helper lives.
ReaderOK ==
  /\ Follows(toApp, mode)
  /\ Opening => /\ landed = <<>> /\ FlusherOver /\ inbox = <<>> /\ boss.outcome = "none"
                /\ helper.pc \in {"open", "gone"}
  /\ reader \in {"open", "start", "next", "over"} => toApp = <<>>
  /\ reader = "over" => helper.pc = "gone"
  /\ reader = "final" => /\ Download /\ final /\ Kinds(toApp, {"done"})
                         /\ helper.pc \in {"final", "report", "command", "gone"}
  /\ reader = "next" => mode # "credit" /\ helper.pc \in {"ask", "gone"} /\ lent = None
  /\ helper.pc = "report" => reader \in {"read", "final"}
  /\ Has(toApp, "final") => /\ Download /\ reader = "read"
                            /\ helper.pc \in {"final", "report", "command", "gone"}
  /\ Has(toApp, "quota") => helper.pc \in {"quota", "gone"}
  /\ Has(toApp, "next") /\ mode # "credit" => helper.pc \in {"ask", "gone"}
  /\ mode # "credit" =>
       \A k \in 1..Len(toApp) : toApp[k].kind \in {"next", "final"} => toApp[k].slot = lent

\* The ring is in use once it is mapped.
FlagsOK ==
  /\ Started => ~halt /\ flusher.pc # "none"
  /\ Started /\ final => helper.pc = "final" /\ toApp = <<>>

\* The helper's slot.
HelperOK ==
  /\ helper.slot = None => helper.fill = 0
  /\ mode # "credit" /\ Holding => helper.slot = lent
  /\ helper.pc = "open" => helper.fill = 0 /\ helper.moved = 0 /\ helper.slot = None
  /\ helper.pc = "open" /\ Download => helper.grants = <<>>
  /\ Mapped /\ mode # "credit" => lent = None
  /\ helper.pc = "final" /\ helper.ok => helper.moved >= length
  /\ ~Download /\ helper.pc = "ask" => helper.fill = 0

\* All is quiet once a transfer is done.
Quiet == (Download => FlusherOver) /\ (Alive => toHelper = <<>>) /\ reader \in {"read", "over"}
DoneOK ==
  /\ helper.pc = "report" /\ helper.ok => Quiet /\ toApp = <<>>
  /\ Has(toApp, "done") => inbox = <<>> /\ Idle
  /\ \A k \in 1..Len(toApp) : toApp[k].kind = "done" /\ toApp[k].n = 1 => Quiet /\ Len(toApp) = 1
  /\ inbox # <<>> => Len(inbox) = 1 /\ toApp = <<>> /\ reader \in {"read", "over"} /\ Idle
  /\ inbox # <<>> /\ Head(inbox).n = 1 => Quiet
  /\ boss.outcome = "ok" => Quiet /\ toApp = <<>> /\ inbox = <<>>

Control == Types /\ FlusherOK /\ Wires /\ BossOK /\ ReaderOK /\ FlagsOK /\ HelperOK /\ DoneOK

-----------------------------------------------------------------------------
(* Lines.                                                                  *)

\* An empty pipe.
LEMMA EmptyLines ==
  ASSUME NEW S
  PROVE  /\ <<>> \in Seq(S) /\ Len(<<>>) = 0
         /\ \A ks : Kinds(<<>>, ks)
         /\ \A k : ~Has(<<>>, k) /\ ~Heads(<<>>, k)
         /\ \A ks, ls : ~Ends(<<>>, ks, ls)
         /\ \A ks, k : ~Among(<<>>, ks, k)
         /\ \A m : Follows(<<>>, m)
  BY EmptySeq DEF Kinds, Has, Heads, Ends, Among, Follows

\* A pipe with one line.
LEMMA OneLine ==
  ASSUME NEW x
  PROVE  /\ <<x>> # <<>> /\ Len(<<x>>) = 1
         /\ Head(<<x>>) = x /\ Tail(<<x>>) = <<>> /\ <<x>>[1] = x
         /\ \A k : Has(<<x>>, k) <=> x.kind = k
         /\ \A k : Heads(<<x>>, k) <=> x.kind = k
         /\ \A ks : Kinds(<<x>>, ks) <=> x.kind \in ks
         /\ \A m : Follows(<<x>>, m)
<1>0. x \in {x}
  OBVIOUS
<1>1. <<x>> \in Seq({x}) /\ <<x>> # <<>> /\ Len(<<x>>) = 1 /\ Head(<<x>>) = x /\ <<x>>[1] = x
  BY <1>0
<1>2. Tail(<<x>>) = <<>>
  BY <1>1
<1>3. 1..Len(<<x>>) = {1} /\ 1..Len(<<x>>) - 1 = {}
  BY <1>1
<1> QED
  BY <1>1, <1>2, <1>3 DEF Kinds, Has, Heads, Follows

\* A line more.
LEMMA AppendLines ==
  ASSUME NEW S, NEW q \in Seq(S), NEW x \in S
  PROVE  /\ Append(q, x) \in Seq(S) /\ Append(q, x) # <<>>
         /\ q \o <<x>> = Append(q, x)
         /\ \A k : Has(Append(q, x), k) <=> Has(q, k) \/ x.kind = k
         /\ \A k : Heads(Append(q, x), k) <=> IF q = <<>> THEN x.kind = k ELSE Heads(q, k)
         /\ \A ks : Kinds(Append(q, x), ks) <=> Kinds(q, ks) /\ x.kind \in ks
         /\ \A ks, ls : Kinds(q, ks) /\ x.kind \in ls => Ends(Append(q, x), ks, ls)
         /\ \A ks, k : Among(q, ks, k) /\ x.kind \in ks => Among(Append(q, x), ks, k)
         /\ \A ks, k : Kinds(q, ks) /\ x.kind = k => Among(Append(q, x), ks, k)
         /\ q = <<>> => Tail(Append(q, x)) = <<>> /\ Append(q, x) = <<x>>
         /\ q # <<>> => Tail(Append(q, x)) = Append(Tail(q), x)
<1> DEFINE a == Append(q, x)
<1>1. PICK n \in Nat : n = Len(q)
  OBVIOUS
<1>2. /\ a \in Seq(S) /\ a # <<>> /\ Len(a) = n + 1 /\ a[n + 1] = x
      /\ \A i \in 1..n : a[i] = q[i]
  BY <1>1
<1>3. 1..Len(a) = 1..n \cup {n + 1} /\ 1..Len(a) - 1 = 1..n /\ n + 1 \notin 1..n
  BY <1>1, <1>2
<1>4. q \o <<x>> = a
  OBVIOUS
<1>5. q = <<>> => Tail(a) = <<>> /\ a = <<x>>
  OBVIOUS
<1>6. q # <<>> => Tail(a) = Append(Tail(q), x) /\ Head(a) = Head(q)
  <2> SUFFICES ASSUME q # <<>> PROVE Tail(a) = Append(Tail(q), x) /\ Head(a) = Head(q)
    OBVIOUS
  <2>1. /\ Tail(a) \in Seq(S) /\ Len(Tail(a)) = n
        /\ \A i \in 1..n : Tail(a)[i] = a[i + 1]
    BY <1>2, <1>1, HeadTailProperties
  <2>0. n # 0
    BY <1>1, EmptySeq
  <2>3. PICK m \in Nat : n = m + 1
    BY <2>0, <1>1
  <2> DEFINE t == Tail(q)
  <2>2. t \in Seq(S) /\ Len(t) = m /\ \A i \in 1..m : t[i] = q[i + 1]
    <3>1. t \in Seq(S) /\ Len(t) = n - 1 /\ \A i \in 1..Len(t) : t[i] = q[i + 1]
      BY <1>1, HeadTailProperties
    <3> QED
      BY <3>1, <2>3, <1>1
  <2> HIDE DEF t
  <2>4. /\ Append(t, x) \in Seq(S) /\ Len(Append(t, x)) = n /\ Append(t, x)[n] = x
        /\ \A i \in 1..m : Append(t, x)[i] = t[i]
    BY <2>2, <2>3
  <2>5. ASSUME NEW i \in 1..n PROVE Tail(a)[i] = Append(t, x)[i]
    <3>1. CASE i = n
      BY <3>1, <2>1, <2>4, <1>2
    <3>2. CASE i # n
      <4>1. i \in 1..m /\ i \in 1..n - 1 /\ i + 1 \in 1..n
        BY <3>2, <2>3
      <4>2. Append(t, x)[i] = q[i + 1] /\ Tail(a)[i] = q[i + 1]
        BY <4>1, <2>1, <2>2, <2>4, <1>2
      <4> QED
        BY <4>2
    <3> QED
      BY <3>1, <3>2
  <2>6. Tail(a) = Append(Tail(q), x)
    BY <2>1, <2>2, <2>4, <2>5, SeqEqual DEF t
  <2>7. 1 \in 1..n
    BY <2>3
  <2> QED
    BY <2>6, <2>7, <1>2, <1>1 DEF t
<1>7. \A k : Has(a, k) <=> Has(q, k) \/ x.kind = k
  BY <1>1, <1>2, <1>3 DEF Has
<1>8. \A ks : Kinds(a, ks) <=> Kinds(q, ks) /\ x.kind \in ks
  BY <1>1, <1>2, <1>3 DEF Kinds
<1>9. \A ks, ls : Kinds(q, ks) /\ x.kind \in ls => Ends(a, ks, ls)
  BY <1>1, <1>2, <1>3 DEF Kinds, Ends
<1>10. \A ks, k : Among(q, ks, k) /\ x.kind \in ks => Among(a, ks, k)
  <2> SUFFICES ASSUME NEW ks, NEW k, Among(q, ks, k), x.kind \in ks PROVE Among(a, ks, k)
    OBVIOUS
  <2>1. PICK i \in 1..n : q[i].kind = k /\ \A j \in 1..n : j # i => q[j].kind \in ks
    BY <1>1 DEF Among
  <2>2. i \in 1..Len(a) /\ a[i].kind = k /\ \A j \in 1..Len(a) : j # i => a[j].kind \in ks
    BY <2>1, <1>2, <1>3
  <2> QED
    BY <2>2 DEF Among
<1>11. \A ks, k : Kinds(q, ks) /\ x.kind = k => Among(a, ks, k)
  <2> SUFFICES ASSUME NEW ks, NEW k, Kinds(q, ks), x.kind = k PROVE Among(a, ks, k)
    OBVIOUS
  <2>1. n + 1 \in 1..Len(a) /\ a[n + 1].kind = k
        /\ \A j \in 1..Len(a) : j # n + 1 => a[j].kind \in ks
    BY <1>1, <1>2, <1>3 DEF Kinds
  <2> QED
    BY <2>1 DEF Among
<1>12. \A k : Heads(a, k) <=> IF q = <<>> THEN x.kind = k ELSE Heads(q, k)
  BY <1>2, <1>5, <1>6 DEF Heads
<1> QED
  BY <1>2, <1>4, <1>5, <1>6, <1>7, <1>8, <1>9, <1>10, <1>11, <1>12

\* A line less.
LEMMA TailLines ==
  ASSUME NEW S, NEW q \in Seq(S), q # <<>>
  PROVE  /\ Tail(q) \in Seq(S) /\ Head(q) \in S /\ Has(q, Head(q).kind)
         /\ \A k : Has(Tail(q), k) => Has(q, k)
         /\ \A ks : Kinds(q, ks) => Head(q).kind \in ks /\ Kinds(Tail(q), ks)
         /\ \A ks, ls : Ends(q, ks, ls) =>
              \/ Tail(q) = <<>> /\ Head(q).kind \in ls
              \/ Head(q).kind \in ks /\ Ends(Tail(q), ks, ls)
         /\ \A ks, k : Among(q, ks, k) =>
              \/ Head(q).kind = k /\ Kinds(Tail(q), ks)
              \/ Head(q).kind \in ks /\ Among(Tail(q), ks, k)
<1> DEFINE t == Tail(q)
<1>1. PICK n \in Nat : n = Len(q) /\ n # 0
  BY EmptySeq
<1>2. /\ t \in Seq(S) /\ Len(t) = n - 1 /\ Head(q) \in S /\ Head(q) = q[1]
      /\ \A i \in 1..n - 1 : t[i] = q[i + 1]
  BY <1>1, HeadTailProperties
<1>3. \A i \in 1..n : i = 1 \/ (i - 1 \in 1..n - 1 /\ q[i] = t[i - 1])
  BY <1>1, <1>2
<1>4. \A i \in 1..n - 1 : i + 1 \in 1..n /\ i + 1 # 1
  BY <1>1
<1>5. 1 \in 1..n
  BY <1>1
<1>6. Has(q, Head(q).kind) /\ \A k : Has(t, k) => Has(q, k)
  BY <1>1, <1>2, <1>4, <1>5 DEF Has
<1>7. \A ks : Kinds(q, ks) => Head(q).kind \in ks /\ Kinds(t, ks)
  BY <1>1, <1>2, <1>4, <1>5 DEF Kinds
<1>8. ASSUME NEW ks, NEW ls, Ends(q, ks, ls)
      PROVE  \/ t = <<>> /\ Head(q).kind \in ls
             \/ Head(q).kind \in ks /\ Ends(t, ks, ls)
  <2>1. q[n].kind \in ls /\ \A i \in 1..n - 1 : q[i].kind \in ks
    BY <1>8, <1>1 DEF Ends
  <2>2. CASE n = 1
    <3>1. Len(t) = 0
      BY <2>2, <1>2
    <3>2. t = <<>>
      BY <3>1, <1>2, EmptySeq
    <3> QED
      BY <3>2, <2>1, <2>2, <1>2
  <2>3. CASE n # 1
    <3>1. t # <<>> /\ Len(t) \in 1..Len(t) /\ Len(t) = n - 1 /\ t[Len(t)] = q[n]
      <4>1. Len(t) # 0 /\ Len(t) = n - 1 /\ n - 1 \in 1..n - 1
        BY <2>3, <1>1, <1>2
      <4>2. t # <<>>
        BY <4>1, EmptySeq
      <4>3. t[n - 1] = q[n]
        BY <4>1, <1>2, <1>1
      <4> QED
        BY <4>1, <4>2, <4>3
    <3>2. \A i \in 1..Len(t) - 1 : t[i].kind \in ks
      BY <1>1, <1>2, <2>1
    <3>3. q[1].kind \in ks
      BY <1>1, <2>1, <2>3
    <3> QED
      BY <3>1, <3>2, <3>3, <2>1, <1>2 DEF Ends
  <2> QED
    BY <2>2, <2>3
<1>9. ASSUME NEW ks, NEW k, Among(q, ks, k)
      PROVE  \/ Head(q).kind = k /\ Kinds(t, ks)
             \/ Head(q).kind \in ks /\ Among(t, ks, k)
  <2>1. PICK i \in 1..n : q[i].kind = k /\ \A j \in 1..n : j # i => q[j].kind \in ks
    BY <1>9, <1>1 DEF Among
  <2>2. CASE i = 1
    BY <2>1, <2>2, <1>1, <1>2, <1>4 DEF Kinds
  <2>3. CASE i # 1
    <3>1. i - 1 \in 1..Len(t) /\ t[i - 1].kind = k
      BY <2>1, <2>3, <1>2, <1>3
    <3>2. ASSUME NEW j \in 1..Len(t), j # i - 1 PROVE t[j].kind \in ks
      <4>1. j + 1 \in 1..n /\ j + 1 # i /\ t[j] = q[j + 1]
        BY <3>2, <1>1, <1>2
      <4> QED
        BY <4>1, <2>1
    <3>3. Head(q).kind \in ks
      BY <2>1, <2>3, <1>2, <1>5
    <3> QED
      BY <3>1, <3>2, <3>3 DEF Among
  <2> QED
    BY <2>2, <2>3
<1> QED
  BY <1>2, <1>6, <1>7, <1>8, <1>9

\* What a pipe holds that holds lines of some kinds only.
LEMMA OnlyLines ==
  ASSUME NEW S, NEW q \in Seq(S)
  PROVE  /\ Kinds(q, {}) => q = <<>>
         /\ \A ks, k : Kinds(q, ks) /\ k \notin ks => ~Has(q, k) /\ ~Heads(q, k)
         /\ \A ks, ls, k : Ends(q, ks, ls) /\ k \notin ks /\ k \notin ls => ~Has(q, k)
         /\ \A ks, ls : Kinds(q, ks) /\ ks \subseteq ls => Kinds(q, ls)
         /\ \A k : Heads(q, k) => q # <<>> /\ Has(q, k)
<1>1. PICK n \in Nat : n = Len(q)
  OBVIOUS
<1>2. q = <<>> \/ 1 \in 1..n
  BY <1>1, EmptySeq
<1>3. Kinds(q, {}) => q = <<>>
  BY <1>1, <1>2 DEF Kinds
<1>4. \A k : Heads(q, k) => q # <<>> /\ Has(q, k)
  BY <1>1, <1>2 DEF Heads, Has
<1>5. \A ks, k : Kinds(q, ks) /\ k \notin ks => ~Has(q, k)
  BY DEF Kinds, Has
<1>6. ASSUME NEW ks, NEW ls, NEW k, Ends(q, ks, ls), k \notin ks, k \notin ls PROVE ~Has(q, k)
  <2>1. \A i \in 1..n : i = n \/ i \in 1..n - 1
    BY <1>1
  <2> QED
    BY <1>6, <2>1, <1>1 DEF Ends, Has
<1>7. \A ks, ls : Kinds(q, ks) /\ ks \subseteq ls => Kinds(q, ls)
  BY DEF Kinds
<1> QED
  BY <1>3, <1>4, <1>5, <1>6, <1>7

\* What follows the head of the lines to the application.
LEMMA FollowsTail ==
  ASSUME NEW S, NEW q \in Seq(S), q # <<>>, NEW m, Follows(q, m)
  PROVE  /\ Follows(Tail(q), m)
         /\ Head(q).kind \notin {"next", "final"} \/ m # "credit" => Tail(q) = <<>> /\ Len(q) = 1
         /\ Head(q).kind = "final" => Kinds(Tail(q), {"done"})
<1> DEFINE t == Tail(q)
<1>1. PICK n \in Nat : n = Len(q) /\ n # 0
  BY EmptySeq
<1>2. /\ t \in Seq(S) /\ Len(t) = n - 1 /\ Head(q) = q[1]
      /\ \A i \in 1..n - 1 : t[i] = q[i + 1]
  BY <1>1, HeadTailProperties
<1>3. \A i \in 1..n - 1 : Next2(q[i], q[i + 1], m)
  BY <1>1 DEF Follows
<1>4. ASSUME NEW i \in 1..Len(t) - 1 PROVE Next2(t[i], t[i + 1], m)
  <2>1. i \in 1..n - 1 /\ i + 1 \in 1..n - 1 /\ t[i] = q[i + 1] /\ t[i + 1] = q[(i + 1) + 1]
    BY <1>1, <1>2
  <2> QED
    BY <2>1, <1>3
<1>5. ASSUME Head(q).kind \notin {"next", "final"} \/ m # "credit" PROVE t = <<>> /\ Len(q) = 1
  <2>1. ~Next2(q[1], q[2], m)
    BY <1>5, <1>2 DEF Next2
  <2>2. 1 \notin 1..n - 1
    BY <2>1, <1>3
  <2>3. n = 1 /\ Len(t) = 0
    BY <2>2, <1>1, <1>2
  <2> QED
    BY <2>3, <1>1, <1>2, EmptySeq
<1>6. ASSUME Head(q).kind = "final" PROVE Kinds(t, {"done"})
  <2>1. 1 \in 1..n - 1 => q[2].kind = "done"
    BY <1>6, <1>2, <1>3 DEF Next2
  <2>2. 2 \notin 1..n - 1
    <3>1. SUFFICES ASSUME 2 \in 1..n - 1 PROVE FALSE
      OBVIOUS
    <3>2. q[2].kind = "done" /\ Next2(q[2], q[3], m)
      BY <3>1, <2>1, <1>3, <1>1
    <3> QED
      BY <3>2 DEF Next2
  <2>3. \A i \in 1..Len(t) : i = 1 /\ 1 \in 1..n - 1 /\ t[i] = q[2]
    BY <2>2, <1>1, <1>2
  <2> QED
    BY <2>1, <2>3 DEF Kinds
<1> QED
  BY <1>4, <1>5, <1>6 DEF Follows

\* What the helper may say next.
LEMMA FollowsAppend ==
  ASSUME NEW S, NEW q \in Seq(S), NEW x \in S, NEW m, Follows(q, m),
         \/ q = <<>>
         \/ /\ m = "credit"
            /\ \/ Kinds(q, {"next"}) /\ x.kind \in {"next", "quota", "final", "done"}
               \/ Kinds(q, {"next", "final"}) /\ x.kind = "done"
  PROVE  Follows(Append(q, x), m)
<1> DEFINE a == Append(q, x)
<1>1. PICK n \in Nat : n = Len(q)
  OBVIOUS
<1>2. Len(a) = n + 1 /\ a[n + 1] = x /\ \A i \in 1..n : a[i] = q[i]
  BY <1>1
<1>3. ASSUME NEW i \in 1..Len(a) - 1 PROVE Next2(a[i], a[i + 1], m)
  <2>1. i \in 1..n /\ q # <<>> /\ a[i] = q[i]
    BY <1>1, <1>2, EmptySeq
  <2>2. CASE i = n
    BY <2>1, <2>2, <1>1, <1>2 DEF Kinds, Next2
  <2>3. CASE i # n
    BY <2>1, <2>3, <1>1, <1>2 DEF Follows
  <2> QED
    BY <2>2, <2>3
<1> QED
  BY <1>3 DEF Follows

-----------------------------------------------------------------------------
(* The lines that are said are lines.                                      *)

\* What a line says.
LEMMA Said ==
  /\ \A k : Line(k).kind = k
  /\ \A k, s, n : SlotLine(k, s, n).kind = k /\ SlotLine(k, s, n).slot = s /\ SlotLine(k, s, n).n = n
BY DEF Line, SlotLine

\* Every line that is said to the helper is one of its lines.
LEMMA SaidToHelper ==
  /\ \A k \in {"get", "refused", "map", "error", "eof", "kept", "lost", "quota"} : Line(k) \in HelperLines
  /\ \A s \in RingSlot : \A n \in 1..SlotUnits :
       SlotLine("slot", s, n) \in HelperLines /\ SlotLine("slot", s, n) \in SlotLines
  /\ \A s \in RingSlot : SlotLine("grant", s, SlotUnits) \in HelperLines
BY RingAssumption DEF Line, SlotLine, HelperLines, SlotLines, RingSlot, None

\* Every line that the helper says is one of the application's lines.
LEMMA SaidToApp ==
  /\ \A k \in {"open", "quota"} : Line(k) \in AppLines
  /\ \A k \in {"next", "final"} : \A s \in 0..Slots : \A n \in 0..SlotUnits :
       (s = None => n = 0) => SlotLine(k, s, n) \in AppLines
  /\ \A n \in {0, 1} : SlotLine("done", None, n) \in AppLines
BY RingAssumption DEF Line, SlotLine, AppLines, RingSlot, None

\* Pipes with one line.
LEMMA LoneLines ==
  /\ \A k : Has(<<Line(k)>>, k) /\ Heads(<<Line(k)>>, k) /\ <<Line(k)>> # <<>> /\ Len(<<Line(k)>>) = 1
           /\ Head(<<Line(k)>>) = Line(k) /\ Tail(<<Line(k)>>) = <<>>
  /\ \A k, s, n : LET q == <<SlotLine(k, s, n)>>
                IN  /\ Has(q, k) /\ Heads(q, k) /\ q # <<>> /\ Len(q) = 1
                    /\ Head(q) = SlotLine(k, s, n) /\ Tail(q) = <<>>
<1>1. ASSUME NEW k PROVE /\ Has(<<Line(k)>>, k) /\ Heads(<<Line(k)>>, k) /\ <<Line(k)>> # <<>>
                         /\ Len(<<Line(k)>>) = 1 /\ Head(<<Line(k)>>) = Line(k) /\ Tail(<<Line(k)>>) = <<>>
  BY OneLine, Said
<1>2. ASSUME NEW k, NEW s, NEW n
      PROVE  /\ Has(<<SlotLine(k, s, n)>>, k) /\ Heads(<<SlotLine(k, s, n)>>, k)
             /\ <<SlotLine(k, s, n)>> # <<>> /\ Len(<<SlotLine(k, s, n)>>) = 1
             /\ Head(<<SlotLine(k, s, n)>>) = SlotLine(k, s, n) /\ Tail(<<SlotLine(k, s, n)>>) = <<>>
  BY OneLine, Said
<1> QED
  BY <1>1, <1>2

\* An empty pipe.
LEMMA Nothing ==
  /\ 1..Len(<<>>) = {} /\ Len(<<>>) = 0
  /\ \A ks : Kinds(<<>>, ks)
  /\ \A k : ~Has(<<>>, k) /\ ~Heads(<<>>, k)
  /\ \A ks, ls : ~Ends(<<>>, ks, ls)
  /\ \A ks, k : ~Among(<<>>, ks, k)
  /\ \A m : Follows(<<>>, m)
BY EmptyLines

\* The slots.
LEMMA SlotFacts ==
  /\ None \in 0..Slots /\ None \notin RingSlot /\ RingSlot \subseteq 0..Slots
  /\ 0 \in 0..SlotUnits /\ 0 \in 0..MaxLen /\ 1..SlotUnits \subseteq 0..SlotUnits
  /\ SlotUnits \in 1..SlotUnits
  /\ \A s \in 0..Slots : s # None => s \in RingSlot
  /\ \A n \in 0..SlotUnits : n # 0 => n \in 1..SlotUnits
BY RingAssumption DEF None, RingSlot

\* The I/O thread f does pc, ...
Flushing(f, pc, s, n, a) == f \in Flushers /\ f.pc = pc /\ f.slot = s /\ f.n = n /\ f.at = a

\* The I/O thread steps.
LEMMA FlusherTo ==
  ASSUME flusher \in Flushers, NEW s \in 0..Slots, NEW n \in 0..SlotUnits, NEW a \in 0..MaxLen,
         NEW pc \in {"none", "wait", "flush", "grant", "excuse", "finish", "fill", "over"}
  PROVE  /\ Flushing([flusher EXCEPT !.pc = pc], pc, flusher.slot, flusher.n, flusher.at)
         /\ Flushing([flusher EXCEPT !.pc = pc, !.slot = s], pc, s, flusher.n, flusher.at)
         /\ Flushing([flusher EXCEPT !.pc = pc, !.slot = s, !.n = n], pc, s, n, flusher.at)
         /\ Flushing([flusher EXCEPT !.at = a, !.slot = s, !.pc = pc], pc, s, flusher.n, a)
         /\ Flushing([pc |-> pc, slot |-> s, n |-> n, at |-> a], pc, s, n, a)
BY DEF Flushers, Flushing

\* What the I/O thread keeps.
LEMMA FlusherFields ==
  ASSUME flusher \in Flushers
  PROVE  /\ flusher.pc \in {"none", "wait", "flush", "grant", "excuse", "finish", "fill", "over"}
         /\ flusher.slot \in 0..Slots /\ flusher.n \in 0..SlotUnits /\ flusher.at \in 0..MaxLen
BY DEF Flushers

\* The I/O thread ends.
LEMMA Dismissed ==
  ASSUME flusher \in Flushers, Dismiss PROVE Flushing(flusher', "over", None, 0, flusher.at)
BY FlusherTo, FlusherFields, SlotFacts DEF Dismiss

\* The helper h does pc, ...
Helping(h, pc, s, fill, grants, moved, ok, asked) ==
  /\ h \in Helpers /\ h.pc = pc /\ h.slot = s /\ h.fill = fill /\ h.grants = grants
  /\ h.moved = moved /\ h.ok = ok /\ h.asked = asked

HelperPlaces == {"gone", "command", "open", "run", "ask", "quota", "final", "report"}

\* What the helper keeps.
LEMMA HelperFields ==
  ASSUME helper \in Helpers
  PROVE  /\ helper.pc \in HelperPlaces /\ helper.slot \in 0..Slots /\ helper.fill \in 0..SlotUnits
         /\ helper.grants \in Seq(RingSlot) /\ helper.moved \in Nat
         /\ helper.ok \in BOOLEAN /\ helper.asked \in BOOLEAN
BY DEF Helpers, HelperPlaces

\* The helper steps.
LEMMA HelperTo ==
  ASSUME helper \in Helpers, NEW s \in 0..Slots, NEW fill \in 0..SlotUnits,
         NEW grants \in Seq(RingSlot), NEW moved \in Nat, NEW ok \in BOOLEAN, NEW asked \in BOOLEAN,
         NEW pc \in HelperPlaces
  PROVE  /\ Helping([helper EXCEPT !.pc = pc, !.slot = s, !.fill = fill, !.moved = moved, !.ok = ok,
                                   !.asked = asked, !.grants = grants],
                    pc, s, fill, grants, moved, ok, asked)
         /\ Helping([helper EXCEPT !.pc = pc, !.slot = s, !.fill = fill, !.grants = grants],
                    pc, s, fill, grants, helper.moved, helper.ok, helper.asked)
         /\ Helping([helper EXCEPT !.pc = pc, !.slot = s, !.fill = fill],
                    pc, s, fill, helper.grants, helper.moved, helper.ok, helper.asked)
         /\ Helping([helper EXCEPT !.grants = grants], helper.pc, helper.slot, helper.fill, grants,
                    helper.moved, helper.ok, helper.asked)
         /\ Helping([helper EXCEPT !.fill = fill, !.moved = moved], helper.pc, helper.slot, fill,
                    helper.grants, moved, helper.ok, helper.asked)
         /\ Helping([helper EXCEPT !.pc = pc, !.asked = asked], pc, helper.slot, helper.fill,
                    helper.grants, helper.moved, helper.ok, asked)
BY DEF Helpers, Helping, HelperPlaces

\* The helper goes on, or fails.
LEMMA Turned ==
  ASSUME helper \in Helpers, NEW pc \in HelperPlaces
  PROVE  /\ Turn(pc) => Helping(helper', pc, helper.slot, helper.fill, helper.grants, helper.moved,
                                helper.ok, helper.asked)
         /\ Fails(pc) => Helping(helper', pc, helper.slot, helper.fill, helper.grants, helper.moved,
                                 FALSE, helper.asked)
BY DEF Helpers, Helping, HelperPlaces, Turn, Fails

\* A helper that is gone has nothing.
LEMMA NoHelperIs == /\ NoHelper \in Helpers /\ NoHelper.pc = "gone" /\ NoHelper.slot = None /\ NoHelper.fill = 0
  /\ NoHelper.grants = <<>> /\ NoHelper.moved = 0
BY SlotFacts, EmptySeq DEF Helpers, NoHelper

\* A pipe r is q with line x after it, ...
Grown(q, x, r) ==
  /\ r # <<>>
  /\ q = <<>> => r = <<x>> /\ Tail(r) = <<>> /\ Len(r) = 1
  /\ \A i \in 1..Len(r) : r[i] = x \/ \E j \in 1..Len(q) : r[i] = q[j]
  /\ \A k : Has(r, k) <=> Has(q, k) \/ x.kind = k
  /\ \A k : Heads(r, k) <=> IF q = <<>> THEN x.kind = k ELSE Heads(q, k)
  /\ \A ks : Kinds(r, ks) <=> Kinds(q, ks) /\ x.kind \in ks
  /\ \A ks, ls : Kinds(q, ks) /\ x.kind \in ls => Ends(r, ks, ls)
  /\ \A ks, k : Among(q, ks, k) /\ x.kind \in ks => Among(r, ks, k)
  /\ \A ks, k : Kinds(q, ks) /\ x.kind = k => Among(r, ks, k)
  /\ \A ks : q # <<>> /\ Kinds(Tail(q), ks) /\ x.kind \in ks => Kinds(Tail(r), ks)

\* ... or without its first line.
Shrunk(q, r) ==
  /\ q # <<>> /\ Has(q, Head(q).kind) /\ \E j \in 1..Len(q) : q[j] = Head(q)
  /\ \A i \in 1..Len(r) : Len(q) # 1 /\ \E j \in 1..Len(q) : r[i] = q[j]
  /\ \A k : Has(r, k) => Has(q, k)
  /\ \A k : Heads(q, k) <=> Head(q).kind = k
  /\ \A ks : Kinds(q, ks) => Head(q).kind \in ks /\ Kinds(r, ks)
  /\ \A ks, ls : Ends(q, ks, ls) =>
       \/ r = <<>> /\ Head(q).kind \in ls
       \/ Head(q).kind \in ks /\ Ends(r, ks, ls)
  /\ \A ks, k : Among(q, ks, k) =>
       \/ Head(q).kind = k /\ Kinds(r, ks)
       \/ Head(q).kind \in ks /\ Among(r, ks, k)
  /\ \A m : Follows(q, m) =>
       /\ Follows(r, m)
       /\ Head(q).kind \notin {"next", "final"} \/ m # "credit" => r = <<>> /\ Len(q) = 1
       /\ Head(q).kind = "final" => Kinds(r, {"done"})

\* Append adds a line.
LEMMA AppendGrows ==
  ASSUME NEW S, NEW q \in Seq(S), NEW x \in S
  PROVE  /\ Append(q, x) \in Seq(S) /\ q \o <<x>> = Append(q, x)
         /\ Grown(q, x, Append(q, x))
<1>1. ASSUME NEW ks, q # <<>>, Kinds(Tail(q), ks), x.kind \in ks PROVE Kinds(Tail(Append(q, x)), ks)
  <2>1. Tail(q) \in Seq(S) /\ Tail(Append(q, x)) = Append(Tail(q), x)
    BY <1>1, AppendLines, TailLines
  <2> QED
    BY <1>1, <2>1, AppendLines
<1>2. PICK n \in Nat : n = Len(q)
  OBVIOUS
<1>3. Len(Append(q, x)) = n + 1 /\ Append(q, x)[n + 1] = x /\ \A i \in 1..n : Append(q, x)[i] = q[i]
  BY <1>2
<1>4. \A i \in 1..n + 1 : i = n + 1 \/ i \in 1..n
  BY <1>2
<1>5. \A i \in 1..Len(Append(q, x)) : Append(q, x)[i] = x \/ \E j \in 1..Len(q) : Append(q, x)[i] = q[j]
  BY <1>2, <1>3, <1>4
<1>6. q = <<>> => Len(Append(q, x)) = 1
  BY <1>2, <1>3
<1> QED
  BY <1>1, <1>5, <1>6, AppendLines DEF Grown

\* Tail takes a line.
LEMMA TailShrinks ==
  ASSUME NEW S, NEW q \in Seq(S), q # <<>>
  PROVE  Tail(q) \in Seq(S) /\ Head(q) \in S /\ Shrunk(q, Tail(q))
<1>1. PICK n \in Nat : n = Len(q) /\ n # 0
  BY EmptySeq
<1>2. Len(Tail(q)) = n - 1 /\ Head(q) = q[1] /\ \A i \in 1..n - 1 : Tail(q)[i] = q[i + 1]
  BY <1>1, HeadTailProperties
<1>3. \A i \in 1..n - 1 : n # 1 /\ i + 1 \in 1..n
  BY <1>1
<1>4. \A i \in 1..Len(Tail(q)) : Len(q) # 1 /\ \E j \in 1..Len(q) : Tail(q)[i] = q[j]
  BY <1>1, <1>2, <1>3
<1>5. \E j \in 1..Len(q) : q[j] = Head(q)
  <2>1. 1 \in 1..n
    BY <1>1
  <2> QED
    BY <2>1, <1>1, <1>2
<1> QED
  BY <1>4, <1>5, TailLines, FollowsTail DEF Shrunk, Heads

\* What is said to the helper, if it lives.
LEMMA SaysGrows ==
  ASSUME toHelper \in Seq(HelperLines), NEW x \in HelperLines, Says(<<x>>)
  PROVE  /\ toHelper' \in Seq(HelperLines)
         /\ helper.pc # "gone" => Grown(toHelper, x, toHelper')
         /\ helper.pc = "gone" => toHelper' = toHelper
BY AppendGrows DEF Says

\* What is said to the application.
LEMMA TellsGrows ==
  ASSUME toApp \in Seq(AppLines), NEW x \in AppLines, Tells(x)
  PROVE  toApp' \in Seq(AppLines) /\ Grown(toApp, x, toApp') /\ toApp' = Append(toApp, x)
BY AppendGrows DEF Tells

\* The application reads a line.
LEMMA ReadShrinks ==
  ASSUME toApp \in Seq(AppLines), NEW k, Read(k), Consume
  PROVE  /\ toApp' \in Seq(AppLines) /\ Shrunk(toApp, toApp') /\ Head(toApp) \in AppLines
         /\ Head(toApp).kind = k /\ reader = "read"
BY TailShrinks DEF Consume, Read

\* The helper reads a line.
LEMMA TakeShrinks ==
  ASSUME toHelper \in Seq(HelperLines), NEW k, Hears(k), Take
  PROVE  /\ toHelper' \in Seq(HelperLines) /\ Shrunk(toHelper, toHelper')
         /\ Head(toHelper) \in HelperLines /\ Head(toHelper).kind = k
BY TailShrinks DEF Take, Hears

USE DEF contextVars, ringState, flagVars, pipeVars, boundVars

\* A filled slot is taken from the queue.
LEMMA FlushWaitCtl == ASSUME Control, FlushWait PROVE Control'
<1>a. ready # <<>> => /\ Head(ready).slot \in RingSlot /\ Head(ready).n \in 1..SlotUnits
                       /\ Tail(ready) \in Seq(SlotLines)
  <2>1. ready # <<>> => Head(ready) \in SlotLines /\ Tail(ready) \in Seq(SlotLines)
    BY TailShrinks DEF Control, Types, RingTypes
  <2> QED
    BY <2>1 DEF SlotLines
<1>b. /\ flusher' \in Flushers /\ flusher'.pc \in {"over", "flush", "finish"}
      /\ flusher'.pc = "flush" => flusher'.slot \in RingSlot /\ flusher'.n \in 1..SlotUnits
      /\ flusher'.pc # "flush" => flusher'.slot \notin RingSlot
  <2>1. flusher \in Flushers /\ flusher.slot \notin RingSlot
    BY DEF Control, Types, ThreadTypes, FlusherOK, FlushWait
  <2>2. CASE Dismiss
    BY <2>1, <2>2, Dismissed, SlotFacts DEF Flushing
  <2>3. CASE flusher' = [flusher EXCEPT !.pc = "finish"]
    <3>1. Flushing(flusher', "finish", flusher.slot, flusher.n, flusher.at)
      BY <2>1, <2>3, FlusherTo, FlusherFields, SlotFacts
    <3> QED
      BY <3>1, <2>1 DEF Flushing
  <2>4. CASE /\ ready # <<>>
             /\ flusher' = [flusher EXCEPT !.pc = "flush", !.slot = Head(ready).slot, !.n = Head(ready).n]
    <3>1. Flushing(flusher', "flush", Head(ready).slot, Head(ready).n, flusher.at)
      BY <2>1, <2>4, <1>a, FlusherTo, FlusherFields, SlotFacts
    <3> QED
      BY <3>1, <2>4, <1>a DEF Flushing
  <2> QED
    BY <2>2, <2>3, <2>4 DEF FlushWait
<1>c. UNCHANGED <<contextVars, free, lent, flagVars, reader, boss, pipeVars, helper, landed, boundVars>>
      /\ flusher.pc = "wait" /\ Download /\ ready' \in Seq(SlotLines)
  BY <1>a DEF Control, Types, RingTypes, FlushWait
<1>1. Types'
  BY <1>b, <1>c DEF Control, Types, ContextTypes, RingTypes, FlagTypes, ThreadTypes,
    PipeTypes, FlushWait, Dismiss
<1>2. FlusherOK'
  BY <1>b, <1>c DEF Control, Types, ContextTypes, RingTypes, FlagTypes, ThreadTypes,
    FlusherOK, Download, FlushWait, Dismiss
<1>3. Wires'
  BY <1>b, <1>c DEF Control, Types, ContextTypes, ThreadTypes, PipeTypes, Wires, CommandWire,
    OpenWire, RunWire, QuotaWire, AskWire, FinalWire, ReportWire, GetState, Alive, Mapped,
    FlusherOver, FlushWait, Dismiss
<1>4. BossOK'
  BY <1>b, <1>c DEF Control, Types, ThreadTypes, BossOK, Alive, Idle, FlusherOver, Download,
    FlushWait, Dismiss
<1>5. ReaderOK'
  BY <1>b, <1>c DEF Control, Types, ThreadTypes, PipeTypes, ReaderOK, Opening, FlusherOver,
    Download, FlushWait, Dismiss
<1>6. FlagsOK'
  BY <1>b, <1>c DEF Control, Types, ThreadTypes, FlagsOK, Started, Moves, Mapped, FlushWait,
    Dismiss
<1>7. HelperOK'
  BY <1>b, <1>c DEF Control, Types, ThreadTypes, HelperOK, Holding, Mapped, Download,
    FlushWait, Dismiss
<1>8. DoneOK'
  BY <1>b, <1>c DEF Control, Types, ThreadTypes, PipeTypes, DoneOK, Quiet, Alive, Idle,
    FlusherOver, Download, FlushWait, Dismiss
<1> QED
  BY <1>1, <1>2, <1>3, <1>4, <1>5, <1>6, <1>7, <1>8 DEF Control

\* The last fflush.
LEMMA FlushFinishCtl == ASSUME Control, FlushFinish PROVE Control'
<1>b. flusher' \in Flushers /\ flusher'.pc = "over" /\ flusher'.slot = None
  BY Dismissed DEF Control, Types, ThreadTypes, FlushFinish, Flushing
<1>1. Types'
  <2>1. FlagTypes'
    BY DEF Control, Types, FlagTypes, FlushFinish
  <2> QED
    BY <1>b, SlotFacts, <2>1 DEF Control, Types, ContextTypes, RingTypes, ThreadTypes,
      PipeTypes, FlushFinish, Smooth, Mishap
<1>2. FlusherOK'
  BY <1>b, SlotFacts DEF Control, Types, ContextTypes, RingTypes, FlagTypes, ThreadTypes,
    FlusherOK, Download, FlushFinish, Smooth, Mishap
<1>3. Wires'
  BY <1>b, SlotFacts DEF Control, Types, ContextTypes, ThreadTypes, PipeTypes, Wires,
    CommandWire, OpenWire, RunWire, QuotaWire, AskWire, FinalWire, ReportWire, GetState,
    Alive, Mapped, FlusherOver, FlushFinish, Smooth, Mishap
<1>4. BossOK'
  BY <1>b, SlotFacts DEF Control, Types, ThreadTypes, BossOK, Alive, Idle, FlusherOver,
    Download, FlushFinish, Smooth, Mishap
<1>5. ReaderOK'
  BY <1>b, SlotFacts DEF Control, Types, ThreadTypes, PipeTypes, ReaderOK, Opening,
    FlusherOver, Download, FlushFinish, Smooth, Mishap
<1>6. FlagsOK'
  BY <1>b, SlotFacts DEF Control, Types, ThreadTypes, FlagsOK, Started, Moves, Mapped,
    FlushFinish, Smooth, Mishap
<1>7. HelperOK'
  BY <1>b, SlotFacts DEF Control, Types, ThreadTypes, HelperOK, Holding, Mapped, Download,
    FlushFinish, Smooth, Mishap
<1>8. DoneOK'
  BY <1>b, SlotFacts DEF Control, Types, ThreadTypes, PipeTypes, DoneOK, Quiet, Alive, Idle,
    FlusherOver, Download, FlushFinish, Smooth, Mishap
<1> QED
  BY <1>1, <1>2, <1>3, <1>4, <1>5, <1>6, <1>7, <1>8 DEF Control

\* A slot is written.
LEMMA FlushWriteCtl == ASSUME Control, FlushWrite PROVE Control'
<1>a. flusher \in Flushers /\ flusher.slot \in RingSlot /\ free' \in Seq(RingSlot)
  BY AppendGrows DEF Control, Types, RingTypes, ThreadTypes, FlusherOK, FlushWrite
<1>b. \/ mode = "credit" /\ Flushing(flusher', "grant", flusher.slot, flusher.n, flusher.at)
      \/ mode = "credit" /\ Flushing(flusher', "excuse", flusher.slot, flusher.n, flusher.at) /\ broken'
      \/ mode # "credit" /\ Flushing(flusher', "wait", None, 0, flusher.at)
      \/ Flushing(flusher', "over", None, 0, flusher.at)
  <2>1. CASE Dismiss
    BY <1>a, <2>1, Dismissed
  <2>2. CASE mode = "credit" /\ flusher' = [flusher EXCEPT !.pc = "grant"]
    BY <1>a, <2>2, FlusherTo, FlusherFields
  <2>3. CASE mode = "credit" /\ flusher' = [flusher EXCEPT !.pc = "excuse"] /\ broken'
    BY <1>a, <2>3, FlusherTo, FlusherFields
  <2>4. CASE mode # "credit" /\ flusher' = [flusher EXCEPT !.pc = "wait", !.slot = None, !.n = 0]
    BY <1>a, <2>4, FlusherTo, FlusherFields, SlotFacts
  <2> QED
    BY <2>1, <2>2, <2>3, <2>4 DEF FlushWrite
<1>c. /\ flusher' \in Flushers /\ flusher'.pc \in {"grant", "excuse", "wait", "over"}
      /\ flusher'.slot \in RingSlot <=> flusher'.pc \in {"grant", "excuse"}
      /\ flusher'.pc \in {"grant", "excuse"} => mode = "credit"
      /\ flusher'.pc = "excuse" => broken'
  BY <1>a, <1>b, SlotFacts DEF Flushing
<1>1. Types'
  <2>1. FlagTypes'
    BY DEF Control, Types, FlagTypes, FlushWrite
  <2> QED
    BY <1>a, <1>c, SlotFacts, <2>1 DEF Control, Types, ContextTypes, RingTypes, ThreadTypes,
      PipeTypes, FlushWrite, Smooth, Mishap
<1>2. FlusherOK'
  BY <1>a, <1>c, SlotFacts DEF Control, Types, ContextTypes, RingTypes, FlagTypes,
    ThreadTypes, FlusherOK, Download, FlushWrite, Smooth, Mishap
<1>3. Wires'
  BY <1>a, <1>c, SlotFacts DEF Control, Types, ContextTypes, ThreadTypes, PipeTypes, Wires,
    CommandWire, OpenWire, RunWire, QuotaWire, AskWire, FinalWire, ReportWire, GetState,
    Alive, Mapped, FlusherOver, FlushWrite, Smooth, Mishap
<1>4. BossOK'
  BY <1>a, <1>c, SlotFacts DEF Control, Types, ThreadTypes, BossOK, Alive, Idle, FlusherOver,
    Download, FlushWrite, Smooth, Mishap
<1>5. ReaderOK'
  BY <1>a, <1>c, SlotFacts DEF Control, Types, ThreadTypes, PipeTypes, ReaderOK, Opening,
    FlusherOver, Download, FlushWrite, Smooth, Mishap
<1>6. FlagsOK'
  BY <1>a, <1>c, SlotFacts DEF Control, Types, ThreadTypes, FlagsOK, Started, Moves, Mapped,
    FlushWrite, Smooth, Mishap
<1>7. HelperOK'
  BY <1>a, <1>c, SlotFacts DEF Control, Types, ThreadTypes, HelperOK, Holding, Mapped,
    Download, FlushWrite, Smooth, Mishap
<1>8. DoneOK'
  BY <1>a, <1>c, SlotFacts DEF Control, Types, ThreadTypes, PipeTypes, DoneOK, Quiet, Alive,
    Idle, FlusherOver, Download, FlushWrite, Smooth, Mishap
<1> QED
  BY <1>1, <1>2, <1>3, <1>4, <1>5, <1>6, <1>7, <1>8 DEF Control

\* A slot is granted again.
LEMMA FlushGrantCtl == ASSUME Control, FlushGrant PROVE Control'
<1>a. /\ flusher \in Flushers /\ flusher.slot \in RingSlot /\ mode = "credit"
      /\ toHelper \in Seq(HelperLines) /\ flusher.pc \in {"grant", "excuse"}
  BY DEF Control, Types, ThreadTypes, PipeTypes, FlusherOK, FlushGrant
<1>b. /\ flusher' \in Flushers /\ flusher'.pc \in {"wait", "over"} /\ flusher'.slot = None
  <2>1. CASE Dismiss
    BY <1>a, <2>1, Dismissed DEF Flushing
  <2>2. CASE flusher' = [flusher EXCEPT !.pc = "wait", !.slot = None, !.n = 0]
    <3>1. Flushing(flusher', "wait", None, 0, flusher.at)
      BY <1>a, <2>2, FlusherTo, FlusherFields, SlotFacts
    <3> QED
      BY <3>1 DEF Flushing
  <2> QED
    BY <2>1, <2>2 DEF FlushGrant
<1>c. PICK x \in HelperLines : Says(<<x>>) /\ x.kind \in {"grant", "error"}
  <2>1. CASE flusher.pc = "grant"
    <3>1. Says(<<SlotLine("grant", flusher.slot, SlotUnits)>>)
      BY <2>1 DEF FlushGrant
    <3>2. /\ SlotLine("grant", flusher.slot, SlotUnits) \in HelperLines
          /\ SlotLine("grant", flusher.slot, SlotUnits).kind = "grant"
      BY <1>a, Said, SaidToHelper
    <3> QED
      BY <3>1, <3>2
  <2>2. CASE flusher.pc = "excuse"
    <3>1. Says(<<Line("error")>>)
      BY <2>2 DEF FlushGrant
    <3> QED
      BY <3>1, Said, SaidToHelper
  <2> QED
    BY <1>a, <2>1, <2>2
<1>d. /\ toHelper' \in Seq(HelperLines)
      /\ Alive => Grown(toHelper, x, toHelper')
      /\ ~Alive => toHelper' = toHelper
  BY <1>a, <1>c, SaysGrows DEF Alive
<1>1. Types'
  BY <1>a, <1>b, <1>c, <1>d, SlotFacts DEF Control, Types, ContextTypes, RingTypes, FlagTypes,
    ThreadTypes, PipeTypes, FlushGrant
<1>2. FlusherOK'
  BY <1>a, <1>b, <1>c, <1>d, SlotFacts DEF Control, Types, ContextTypes, RingTypes, FlagTypes,
    ThreadTypes, FlusherOK, Download, FlushGrant
<1>3. Wires'
  <2>1. CommandWire'
    BY <1>a, <1>b, <1>c, <1>d, SlotFacts DEF Control, Types, ContextTypes, ThreadTypes,
      PipeTypes, Wires, CommandWire, GetState, Alive, FlusherOver, FlushGrant, Grown, IoOf
  <2>2. OpenWire'
    <3>1. helper.pc = "open" =>
            reader = "read" /\ toApp = <<>> /\ Mapped /\ Kinds(Tail(toHelper), IoOf(mode))
      BY <1>a, LoneLines DEF Control, Wires, OpenWire, ReaderOK, Opening, FlusherOver
    <3> QED
      BY <3>1, <1>a, <1>c, <1>d DEF OpenWire, Mapped, Alive, Grown, IoOf, Heads, FlushGrant
  <2>3. RunWire'
    BY <1>a, <1>b, <1>c, <1>d, SlotFacts DEF Control, Types, ContextTypes, ThreadTypes,
      PipeTypes, Wires, RunWire, FlushGrant, Grown, IoOf
  <2>4. QuotaWire'
    BY <1>a, <1>b, <1>c, <1>d, SlotFacts DEF Control, Types, ContextTypes, ThreadTypes,
      PipeTypes, Wires, QuotaWire, FlushGrant, Grown, IoOf
  <2>5. FinalWire'
    BY <1>a, <1>b, <1>c, <1>d, SlotFacts DEF Control, Types, ContextTypes, ThreadTypes,
      PipeTypes, Wires, FinalWire, FlusherOver, FlushGrant, Grown, IoOf
  <2>6. AskWire' /\ ReportWire'
    BY <1>a, <1>b, <1>c, <1>d, SlotFacts DEF Control, Types, ContextTypes, ThreadTypes,
      PipeTypes, Wires, AskWire, ReportWire, FlushGrant
  <2> QED
    BY <2>1, <2>2, <2>3, <2>4, <2>5, <2>6 DEF Wires
<1>4. BossOK'
  BY <1>a, <1>b, <1>c, <1>d, SlotFacts DEF Control, Types, ThreadTypes, BossOK, Alive, Idle,
    FlusherOver, Download, FlushGrant
<1>5. ReaderOK'
  BY <1>a, <1>b, <1>c, <1>d, SlotFacts DEF Control, Types, ThreadTypes, PipeTypes, ReaderOK,
    Opening, FlusherOver, Download, FlushGrant
<1>6. FlagsOK'
  BY <1>a, <1>b, <1>c, <1>d, SlotFacts DEF Control, Types, ThreadTypes, FlagsOK, Started,
    Moves, Mapped, FlushGrant, Grown
<1>7. HelperOK'
  BY <1>a, <1>b, <1>c, <1>d, SlotFacts DEF Control, Types, ThreadTypes, HelperOK, Holding,
    Mapped, Download, FlushGrant
<1>8. DoneOK'
  BY <1>a, <1>b, <1>c, <1>d, SlotFacts DEF Control, Types, ThreadTypes, PipeTypes, DoneOK,
    Quiet, Alive, Idle, FlusherOver, Download, FlushGrant
<1> QED
  BY <1>1, <1>2, <1>3, <1>4, <1>5, <1>6, <1>7, <1>8 DEF Control

\* A free slot is taken.
LEMMA FillWaitCtl == ASSUME Control, FillWait PROVE Control'
<1>a. free # <<>> => Head(free) \in RingSlot /\ Tail(free) \in Seq(RingSlot)
  BY TailShrinks DEF Control, Types, RingTypes
<1>b. /\ flusher \in Flushers /\ flusher.pc = "wait" /\ mode = "upload" /\ flusher.at <= length
      /\ free' \in Seq(RingSlot)
  BY <1>a DEF Control, Types, RingTypes, ThreadTypes, FlusherOK, FillWait, Download
<1>c. /\ flusher' \in Flushers /\ flusher'.pc \in {"fill", "over"} /\ flusher'.at = flusher.at
      /\ flusher'.slot \in RingSlot <=> flusher'.pc = "fill"
  <2>1. CASE Dismiss
    BY <1>b, <2>1, Dismissed, SlotFacts DEF Flushing
  <2>2. CASE free # <<>> /\ flusher' = [flusher EXCEPT !.pc = "fill", !.slot = Head(free)]
    <3>1. Flushing(flusher', "fill", Head(free), flusher.n, flusher.at)
      BY <1>a, <1>b, <2>2, FlusherTo, FlusherFields, SlotFacts
    <3> QED
      BY <3>1, <1>a, <2>2 DEF Flushing
  <2> QED
    BY <2>1, <2>2 DEF FillWait
<1>1. Types'
  BY <1>b, <1>c, SlotFacts DEF Control, Types, ContextTypes, RingTypes, FlagTypes,
    ThreadTypes, PipeTypes, FillWait
<1>2. FlusherOK'
  BY <1>b, <1>c, SlotFacts DEF Control, Types, ContextTypes, RingTypes, FlagTypes,
    ThreadTypes, FlusherOK, Download, FillWait
<1>3. Wires'
  BY <1>b, <1>c, SlotFacts DEF Control, Types, ContextTypes, ThreadTypes, PipeTypes, Wires,
    CommandWire, OpenWire, RunWire, QuotaWire, AskWire, FinalWire, ReportWire, GetState,
    Alive, Mapped, FlusherOver, FillWait
<1>4. BossOK'
  BY <1>b, <1>c, SlotFacts DEF Control, Types, ThreadTypes, BossOK, Alive, Idle, FlusherOver,
    Download, FillWait
<1>5. ReaderOK'
  BY <1>b, <1>c, SlotFacts DEF Control, Types, ThreadTypes, PipeTypes, ReaderOK, Opening,
    FlusherOver, Download, FillWait
<1>6. FlagsOK'
  BY <1>b, <1>c, SlotFacts DEF Control, Types, ThreadTypes, FlagsOK, Started, Moves, Mapped,
    FillWait
<1>7. HelperOK'
  BY <1>b, <1>c, SlotFacts DEF Control, Types, ThreadTypes, HelperOK, Holding, Mapped,
    Download, FillWait
<1>8. DoneOK'
  BY <1>b, <1>c, SlotFacts DEF Control, Types, ThreadTypes, PipeTypes, DoneOK, Quiet, Alive,
    Idle, FlusherOver, Download, FillWait
<1> QED
  BY <1>1, <1>2, <1>3, <1>4, <1>5, <1>6, <1>7, <1>8 DEF Control

\* A slot is filled.
LEMMA FillReadCtl == ASSUME Control, FillRead PROVE Control'
<1>a. /\ flusher \in Flushers /\ flusher.slot \in RingSlot /\ mode = "upload"
      /\ length \in 0..MaxLen /\ flusher.at \in 0..MaxLen /\ flusher.at <= length
      /\ free \in Seq(RingSlot) /\ ready \in Seq(SlotLines)
      /\ eof \in BOOLEAN /\ whole \in BOOLEAN /\ broken \in BOOLEAN
  BY FlusherFields DEF Control, Types, ContextTypes, RingTypes, FlagTypes, ThreadTypes, FlusherOK, FillRead
<1> DEFINE left == length - flusher.at
           want == IF whole THEN SlotUnits ELSE Lesser(SlotUnits, left)
<1>b. PICK n \in 0..Lesser(want, left) :
        /\ ready' = IF n > 0 THEN Append(ready, SlotLine("slot", flusher.slot, n)) ELSE ready
        /\ free' = IF n > 0 THEN free ELSE Append(free, flusher.slot)
        /\ eof' = (eof \/ n < want \/ (~whole /\ n = left))
        /\ flusher' = [flusher EXCEPT !.at = @ + n, !.slot = None, !.pc = IF eof' THEN "over" ELSE "wait"]
  BY DEF FillRead
<1>c. n \in 0..SlotUnits /\ flusher.at + n \in 0..MaxLen /\ flusher.at + n <= length
  <2>1. left \in Nat /\ want \in Nat /\ want <= SlotUnits
    BY <1>a, RingAssumption DEF Lesser
  <2>2. n \in Nat /\ n <= want /\ n <= left
    BY <2>1 DEF Lesser
  <2> QED
    BY <1>a, <2>1, <2>2, RingAssumption
<1>d. ready' \in Seq(SlotLines) /\ free' \in Seq(RingSlot)
  BY <1>a, <1>b, <1>c, AppendGrows, SaidToHelper
<1>e. /\ flusher' \in Flushers /\ flusher'.pc \in {"wait", "over"} /\ flusher'.slot = None
      /\ flusher'.at <= length
  <2>1. Flushing(flusher', IF eof' THEN "over" ELSE "wait", None, flusher.n, flusher.at + n)
    BY <1>a, <1>b, <1>c, FlusherTo, FlusherFields, SlotFacts
  <2> QED
    BY <2>1, <1>c DEF Flushing
<1>f. eof' \in BOOLEAN /\ broken' \in BOOLEAN
  <2>1. eof' \in BOOLEAN
    BY <1>b
  <2> QED
    BY <2>1, <1>a DEF FillRead
<1>1. Types'
  BY <1>a, <1>d, <1>e, <1>f, SlotFacts DEF Control, Types, ContextTypes, RingTypes, FlagTypes,
    ThreadTypes, PipeTypes, FillRead, Smooth, Mishap
<1>2. FlusherOK'
  BY <1>a, <1>d, <1>e, <1>f, SlotFacts DEF Control, Types, ContextTypes, RingTypes, FlagTypes,
    ThreadTypes, FlusherOK, Download, FillRead, Smooth, Mishap
<1>3. Wires'
  BY <1>a, <1>d, <1>e, <1>f, SlotFacts DEF Control, Types, ContextTypes, ThreadTypes,
    PipeTypes, Wires, CommandWire, OpenWire, RunWire, QuotaWire, AskWire, FinalWire,
    ReportWire, GetState, Alive, Mapped, FlusherOver, FillRead, Smooth, Mishap
<1>4. BossOK'
  BY <1>a, <1>d, <1>e, <1>f, SlotFacts DEF Control, Types, ThreadTypes, BossOK, Alive, Idle,
    FlusherOver, Download, FillRead, Smooth, Mishap
<1>5. ReaderOK'
  BY <1>a, <1>d, <1>e, <1>f, SlotFacts DEF Control, Types, ThreadTypes, PipeTypes, ReaderOK,
    Opening, FlusherOver, Download, FillRead, Smooth, Mishap
<1>6. FlagsOK'
  BY <1>a, <1>d, <1>e, <1>f, SlotFacts DEF Control, Types, ThreadTypes, FlagsOK, Started,
    Moves, Mapped, FillRead, Smooth, Mishap
<1>7. HelperOK'
  BY <1>a, <1>d, <1>e, <1>f, SlotFacts DEF Control, Types, ThreadTypes, HelperOK, Holding,
    Mapped, Download, FillRead, Smooth, Mishap
<1>8. DoneOK'
  BY <1>a, <1>d, <1>e, <1>f, SlotFacts DEF Control, Types, ThreadTypes, PipeTypes, DoneOK,
    Quiet, Alive, Idle, FlusherOver, Download, FillRead, Smooth, Mishap
<1> QED
  BY <1>1, <1>2, <1>3, <1>4, <1>5, <1>6, <1>7, <1>8 DEF Control

\* A quota request is granted.
LEMMA OnQuotaCtl == ASSUME Control, OnQuota PROVE Control'
<1>a. toApp' \in Seq(AppLines) /\ Shrunk(toApp, toApp') /\ Head(toApp) \in AppLines
      /\ Head(toApp).kind = "quota" /\ reader = "read"
  BY ReadShrinks DEF Control, Types, PipeTypes, OnQuota
<1>b. /\ toApp' = <<>> /\ helper.pc \in {"quota", "gone"} /\ toHelper \in Seq(HelperLines)
      /\ toApp # <<>>
  BY <1>a DEF Control, Types, PipeTypes, ReaderOK, Shrunk
<1>c. /\ toHelper' \in Seq(HelperLines)
      /\ Alive => Grown(toHelper, Line("quota"), toHelper')
      /\ ~Alive => toHelper' = toHelper
  BY <1>b, SaysGrows, SaidToHelper DEF Alive, OnQuota
<1>1. Types'
  BY <1>a, <1>b, <1>c, Nothing DEF Control, Types, ContextTypes, RingTypes, FlagTypes,
    ThreadTypes, PipeTypes, OnQuota
<1>2. FlusherOK'
  BY <1>a, <1>b, <1>c, Nothing DEF Control, Types, ContextTypes, RingTypes, FlagTypes,
    ThreadTypes, FlusherOK, Download, OnQuota
<1>3. Wires'
  <2>1. CommandWire'
    BY <1>a, <1>b, <1>c, Nothing, Said DEF Control, Types, ContextTypes, ThreadTypes,
      PipeTypes, Wires, CommandWire, GetState, Alive, FlusherOver, OnQuota, Grown
  <2>2. QuotaWire'
    <3>1. helper.pc = "quota" => Kinds(toHelper, IoOf(mode))
      BY <1>b, Nothing, <1>a DEF Control, Wires, QuotaWire
    <3> QED
      BY <3>1, <1>a, <1>b, <1>c, Said DEF QuotaWire, Alive, Grown, OnQuota
  <2>3. OpenWire' /\ RunWire' /\ AskWire' /\ FinalWire' /\ ReportWire'
    BY <1>a, <1>b, <1>c, Nothing DEF Control, Types, ContextTypes, ThreadTypes, PipeTypes,
      Wires, OpenWire, RunWire, AskWire, FinalWire, ReportWire, Mapped, FlusherOver, OnQuota
  <2> QED
    BY <2>1, <2>2, <2>3 DEF Wires
<1>4. BossOK'
  BY <1>a, <1>b, <1>c, Nothing DEF Control, Types, ThreadTypes, BossOK, Alive, Idle,
    FlusherOver, Download, OnQuota
<1>5. ReaderOK'
  BY <1>a, <1>b, <1>c, Nothing DEF Control, Types, ThreadTypes, PipeTypes, ReaderOK, Opening,
    FlusherOver, Download, OnQuota
<1>6. FlagsOK'
  BY <1>a, <1>b, <1>c, Nothing DEF Control, Types, ThreadTypes, FlagsOK, Started, Moves,
    Mapped, OnQuota
<1>7. HelperOK'
  BY <1>a, <1>b, <1>c, Nothing DEF Control, Types, ThreadTypes, HelperOK, Holding, Mapped,
    Download, OnQuota
<1>8. DoneOK'
  BY <1>a, <1>b, <1>c, Nothing DEF Control, Types, ThreadTypes, PipeTypes, DoneOK, Quiet,
    Alive, Idle, FlusherOver, Download, OnQuota
<1> QED
  BY <1>1, <1>2, <1>3, <1>4, <1>5, <1>6, <1>7, <1>8 DEF Control

\* A result is for the UI.
LEMMA OnResultCtl == ASSUME Control, OnResult PROVE Control'
<1>a. toApp' \in Seq(AppLines) /\ Shrunk(toApp, toApp') /\ Head(toApp) \in AppLines
      /\ Head(toApp).kind = "done" /\ reader = "read"
  BY ReadShrinks DEF Control, Types, PipeTypes, OnResult
<1>b. /\ toApp' = <<>> /\ Idle /\ inbox = <<>> /\ Len(toApp) = 1 /\ toApp[1] = Head(toApp)
      /\ inbox' = <<Head(toApp)>> /\ inbox' \in Seq(AppLines) /\ Len(inbox') = 1
      /\ Head(inbox') = Head(toApp) /\ toApp # <<>> /\ 1 \in 1..Len(toApp)
  <2>1. toApp' = <<>> /\ Idle /\ inbox = <<>> /\ Len(toApp) = 1 /\ toApp # <<>>
    BY <1>a DEF Control, Types, PipeTypes, ReaderOK, DoneOK, Shrunk
  <2>2. toApp \in Seq(AppLines) /\ inbox' = Append(inbox, Head(toApp))
    BY DEF Control, Types, PipeTypes, OnResult
  <2>3. toApp[1] = Head(toApp)
    BY <2>1, <2>2
  <2>4. inbox' = <<Head(toApp)>> /\ inbox' \in Seq(AppLines)
    BY <2>1, <2>2, <1>a, EmptySeq, AppendLines
  <2> QED
    BY <2>1, <2>3, <2>4, OneLine
<1>1. Types'
  BY <1>a, <1>b, Nothing DEF Control, Types, ContextTypes, RingTypes, FlagTypes, ThreadTypes,
    PipeTypes, OnResult
<1>2. FlusherOK'
  BY <1>a, <1>b, Nothing DEF Control, Types, ContextTypes, RingTypes, FlagTypes, ThreadTypes,
    FlusherOK, Download, OnResult
<1>3. Wires'
  <2>1. CommandWire'
    BY <1>a, <1>b, Nothing DEF Control, Types, ContextTypes, ThreadTypes, PipeTypes, Wires,
      CommandWire, GetState, Alive, FlusherOver, OnResult, Idle
  <2>2. OpenWire'
    BY <1>a, <1>b, Nothing DEF Control, Types, ContextTypes, ThreadTypes, PipeTypes, Wires,
      OpenWire, Mapped, OnResult, Idle
  <2>3. RunWire'
    BY <1>a, <1>b, Nothing DEF Control, Types, ContextTypes, ThreadTypes, PipeTypes, Wires,
      RunWire, OnResult, Idle
  <2>4. QuotaWire'
    BY <1>a, <1>b, Nothing DEF Control, Types, ContextTypes, ThreadTypes, PipeTypes, Wires,
      QuotaWire, OnResult, Idle
  <2>5. AskWire'
    BY <1>a, <1>b, Nothing DEF Control, Types, ContextTypes, ThreadTypes, PipeTypes, Wires,
      AskWire, OnResult, Idle
  <2>6. FinalWire'
    BY <1>a, <1>b, Nothing DEF Control, Types, ContextTypes, ThreadTypes, PipeTypes, Wires,
      FinalWire, FlusherOver, OnResult, Idle
  <2>7. ReportWire'
    BY <1>a, <1>b, Nothing DEF Control, Types, ContextTypes, ThreadTypes, PipeTypes, Wires,
      ReportWire, OnResult, Idle
  <2> QED
    BY <2>1, <2>2, <2>3, <2>4, <2>5, <2>6, <2>7 DEF Wires
<1>4. BossOK'
  BY <1>a, <1>b, Nothing DEF Control, Types, ThreadTypes, BossOK, Alive, Idle, FlusherOver,
    Download, OnResult
<1>5. ReaderOK'
  BY <1>a, <1>b, Nothing DEF Control, Types, ThreadTypes, PipeTypes, ReaderOK, Opening,
    FlusherOver, Download, OnResult
<1>6. FlagsOK'
  BY <1>a, <1>b, Nothing DEF Control, Types, ThreadTypes, FlagsOK, Started, Moves, Mapped,
    OnResult
<1>7. HelperOK'
  BY <1>a, <1>b, Nothing DEF Control, Types, ThreadTypes, HelperOK, Holding, Mapped, Download,
    OnResult
<1>8. DoneOK'
  BY <1>a, <1>b, Nothing DEF Control, Types, ThreadTypes, PipeTypes, DoneOK, Quiet, Alive,
    Idle, FlusherOver, Download, OnResult
<1> QED
  BY <1>1, <1>2, <1>3, <1>4, <1>5, <1>6, <1>7, <1>8 DEF Control

\* The transfer before is stopped.
LEMMA OnOpenCtl == ASSUME Control, OnOpen PROVE Control'
<1>a. toApp' \in Seq(AppLines) /\ Shrunk(toApp, toApp') /\ Head(toApp) \in AppLines
      /\ Head(toApp).kind = "open" /\ reader = "read"
  BY ReadShrinks DEF Control, Types, PipeTypes, OnOpen
<1>b. /\ toApp' = <<>> /\ helper.pc \in {"open", "gone"} /\ toApp # <<>> /\ Has(toApp, "open")
  BY <1>a DEF Control, ReaderOK, Opening, Shrunk
<1>c. helper.pc = "open" => toHelper = <<>>
  BY <1>a, <1>b DEF Control, Wires, OpenWire
<1>1. Types'
  <2>1. FlagTypes'
    BY DEF Control, Types, FlagTypes, OnOpen
  <2> QED
    BY <1>a, <1>b, <1>c, Nothing, <2>1 DEF Control, Types, ContextTypes, RingTypes,
      ThreadTypes, PipeTypes, OnOpen, Goto
<1>2. FlusherOK'
  BY <1>a, <1>b, <1>c, Nothing DEF Control, Types, ContextTypes, RingTypes, FlagTypes,
    ThreadTypes, FlusherOK, Download, OnOpen, Goto
<1>3. Wires'
  BY <1>a, <1>b, <1>c, Nothing DEF Control, Types, ContextTypes, ThreadTypes, PipeTypes,
    Wires, CommandWire, OpenWire, RunWire, QuotaWire, AskWire, FinalWire, ReportWire,
    GetState, Alive, Mapped, FlusherOver, OnOpen, Goto
<1>4. BossOK'
  BY <1>a, <1>b, <1>c, Nothing DEF Control, Types, ThreadTypes, BossOK, Alive, Idle,
    FlusherOver, Download, OnOpen, Goto
<1>5. ReaderOK'
  BY <1>a, <1>b, <1>c, Nothing DEF Control, Types, ThreadTypes, PipeTypes, ReaderOK, Opening,
    FlusherOver, Download, OnOpen, Goto
<1>6. FlagsOK'
  BY <1>a, <1>b, <1>c, Nothing DEF Control, Types, ThreadTypes, FlagsOK, Started, Moves,
    Mapped, OnOpen, Goto
<1>7. HelperOK'
  BY <1>a, <1>b, <1>c, Nothing DEF Control, Types, ThreadTypes, HelperOK, Holding, Mapped,
    Download, OnOpen, Goto
<1>8. DoneOK'
  BY <1>a, <1>b, <1>c, Nothing DEF Control, Types, ThreadTypes, PipeTypes, DoneOK, Quiet,
    Alive, Idle, FlusherOver, Download, OnOpen, Goto
<1> QED
  BY <1>1, <1>2, <1>3, <1>4, <1>5, <1>6, <1>7, <1>8 DEF Control

\* The file is opened, or not.
LEMMA OnOpenFileCtl == ASSUME Control, OnOpenFile PROVE Control'
<1>a. /\ toApp = <<>> /\ helper.pc \in {"open", "gone"} /\ toHelper \in Seq(HelperLines)
      /\ helper.pc = "open" => toHelper = <<>>
  BY DEF Control, Types, PipeTypes, Wires, OpenWire, ReaderOK, Opening, OnOpenFile
<1>b. \/ reader' = "start" /\ UNCHANGED <<toHelper, barred>>
      \/ reader' = "read" /\ barred' = TRUE /\ Says(<<Line("refused")>>)
  BY DEF OnOpenFile, Goto, ReadOn
<1>c. /\ toHelper' \in Seq(HelperLines)
      /\ ~Alive => toHelper' = toHelper
      /\ Alive /\ reader' = "read" => toHelper' = <<Line("refused")>>
      /\ Alive /\ reader' = "start" => toHelper' = <<>>
  BY <1>a, <1>b, SaysGrows, SaidToHelper DEF Alive, Grown
<1>d. Alive => ~Heads(toHelper', "map") /\ ~Has(toHelper', "get")
  BY <1>b, <1>c, OneLine, Nothing, Said
<1>1. Types'
  <2>1. FlagTypes'
    BY DEF Control, Types, FlagTypes, OnOpenFile
  <2> QED
    BY <1>a, <1>b, <1>c, <1>d, Nothing, <2>1 DEF Control, Types, ContextTypes, RingTypes,
      ThreadTypes, PipeTypes, OnOpenFile, Goto, ReadOn
<1>2. FlusherOK'
  BY <1>a, <1>b, <1>c, <1>d, Nothing DEF Control, Types, ContextTypes, RingTypes, FlagTypes,
    ThreadTypes, FlusherOK, Download, OnOpenFile, Goto, ReadOn
<1>3. Wires'
  <2>1. OpenWire'
    BY <1>a, <1>b, <1>c, <1>d, Nothing DEF Control, Types, ContextTypes, ThreadTypes,
      PipeTypes, Wires, OpenWire, Mapped, OnOpenFile, Goto, ReadOn, FlusherOver, Alive
  <2>2. CommandWire' /\ RunWire' /\ QuotaWire' /\ AskWire' /\ FinalWire' /\ ReportWire'
    BY <1>a, <1>b, <1>c, <1>d, Nothing DEF Control, Types, ContextTypes, ThreadTypes,
      PipeTypes, Wires, CommandWire, RunWire, QuotaWire, AskWire, FinalWire, ReportWire,
      GetState, Alive, FlusherOver, OnOpenFile, Goto, ReadOn
  <2> QED
    BY <2>1, <2>2 DEF Wires
<1>4. BossOK'
  BY <1>a, <1>b, <1>c, <1>d, Nothing DEF Control, Types, ThreadTypes, BossOK, Alive, Idle,
    FlusherOver, Download, OnOpenFile, Goto, ReadOn
<1>5. ReaderOK'
  BY <1>a, <1>b, <1>c, <1>d, Nothing DEF Control, Types, ThreadTypes, PipeTypes, ReaderOK,
    Opening, FlusherOver, Download, OnOpenFile, Goto, ReadOn
<1>6. FlagsOK'
  BY <1>a, <1>b, <1>c, <1>d, Nothing DEF Control, Types, ThreadTypes, FlagsOK, Started, Moves,
    Mapped, OnOpenFile, Goto, ReadOn
<1>7. HelperOK'
  BY <1>a, <1>b, <1>c, <1>d, Nothing DEF Control, Types, ThreadTypes, HelperOK, Holding,
    Mapped, Download, OnOpenFile, Goto, ReadOn
<1>8. DoneOK'
  BY <1>a, <1>b, <1>c, <1>d, Nothing DEF Control, Types, ThreadTypes, PipeTypes, DoneOK,
    Quiet, Alive, Idle, FlusherOver, Download, OnOpenFile, Goto, ReadOn
<1> QED
  BY <1>1, <1>2, <1>3, <1>4, <1>5, <1>6, <1>7, <1>8 DEF Control

\* The ring is mapped, and its slots are granted.
LEMMA OnOpenStartCtl == ASSUME Control, OnOpenStart PROVE Control'
<1> DEFINE grants == IF mode = "credit" THEN [i \in 1..Slots |-> SlotLine("grant", i - 1, SlotUnits)]
                     ELSE <<>>
           lines == <<Line("map")>> \o grants
<1>a. /\ toApp = <<>> /\ helper.pc \in {"open", "gone"} /\ toHelper \in Seq(HelperLines)
      /\ helper.pc = "open" => toHelper = <<>>
  BY DEF Control, Types, PipeTypes, Wires, OpenWire, ReaderOK, Opening, OnOpenStart
<1>b. grants \in Seq(HelperLines) /\ Kinds(grants, IoOf(mode))
  <2>1. CASE mode = "credit"
    <3>1. \A i \in 1..Slots : i - 1 \in RingSlot
      BY RingAssumption DEF RingSlot
    <3>2. \A i \in 1..Slots : SlotLine("grant", i - 1, SlotUnits) \in HelperLines
      BY <3>1, SaidToHelper
    <3>3. grants \in [1..Slots -> HelperLines]
      BY <2>1, <3>2
    <3>4. grants \in Seq(HelperLines) /\ Len(grants) = Slots
      BY <3>3, RingAssumption
    <3>5. \A i \in 1..Slots : grants[i].kind = "grant"
      BY <2>1, Said
    <3> QED
      BY <2>1, <3>4, <3>5 DEF Kinds, IoOf
  <2>2. CASE mode # "credit"
    BY <2>2, EmptySeq, Nothing
  <2> QED
    BY <2>1, <2>2
<1>c. /\ lines \in Seq(HelperLines) /\ Heads(lines, "map") /\ Tail(lines) = grants /\ ~Has(lines, "get")
  <2>1. Line("map") \in HelperLines /\ Line("map").kind = "map"
    BY SaidToHelper, Said
  <2> HIDE DEF grants
  <2>2. PICK m \in Nat : m = Len(grants) /\ grants \in [1..m -> HelperLines]
    BY <1>b, LenProperties
  <2>3. /\ lines \in Seq(HelperLines) /\ Len(lines) = 1 + m /\ lines[1] = Line("map")
        /\ \A i \in 2..1 + m : lines[i] = grants[i - 1]
    BY <2>1, <2>2, <1>b
  <2>4. lines # <<>> /\ Head(lines) = Line("map")
    BY <2>2, <2>3, EmptySeq
  <2>5. Tail(lines) \in Seq(HelperLines) /\ Len(Tail(lines)) = m /\ \A i \in 1..m : Tail(lines)[i] = grants[i]
    BY <2>2, <2>3, <2>4, HeadTailProperties
  <2>6. Tail(lines) = grants
    BY <2>2, <2>5, <1>b, SeqEqual
  <2>7. \A i \in 1..1 + m : i = 1 \/ (i - 1 \in 1..m /\ lines[i] = grants[i - 1])
    BY <2>2, <2>3
  <2>8. \A i \in 1..m : grants[i].kind # "get"
    BY <2>2, <1>b DEF Kinds, IoOf
  <2> QED
    BY <2>1, <2>2, <2>3, <2>4, <2>6, <2>7, <2>8 DEF Heads, Has
<1> HIDE DEF lines, grants
<1>d. /\ toHelper' \in Seq(HelperLines)
      /\ ~Alive => toHelper' = toHelper
      /\ Alive => toHelper' = lines
  <2>1. Says(lines)
    BY DEF OnOpenStart, lines, grants
  <2>2. <<>> \o lines = lines
    BY <1>c, ConcatEmptySeq
  <2> QED
    BY <1>a, <1>c, <2>1, <2>2, HelperFields DEF Says, Alive, Control, Types, ThreadTypes
<1>e. Flushing(flusher', "wait", None, 0, 0)
  BY FlusherTo, SlotFacts DEF Control, Types, ThreadTypes, OnOpenStart
<1>f. AllFree \in Seq(RingSlot)
  <2>1. AllFree \in [1..Slots -> RingSlot]
    BY RingAssumption DEF AllFree, RingSlot
  <2> QED
    BY <2>1, RingAssumption
<1>g. flusher' \in Flushers /\ flusher'.pc = "wait" /\ flusher'.slot = None /\ flusher'.at <= length
  BY <1>e, SlotFacts DEF Flushing, Control, Types, ContextTypes
<1>h. reader' = "read" /\ reader = "start" /\ FlusherOver /\ inbox = <<>> /\ boss.outcome = "none"
  BY DEF OnOpenStart, ReadOn, Control, ReaderOK, Opening
<1>1. Types'
  <2>1. RingTypes'
    BY <1>f, SlotFacts, EmptySeq DEF Control, Types, RingTypes, OnOpenStart
  <2>2. FlagTypes'
    BY DEF Control, Types, FlagTypes, OnOpenStart
  <2> QED
    BY <1>a, <1>b, <1>c, <1>d, <1>g, <1>h, Nothing, SlotFacts, <2>1, <2>2 DEF Control,
      Types, ContextTypes, ThreadTypes, PipeTypes, OnOpenStart, ReadOn
<1>2. FlusherOK'
  BY <1>a, <1>b, <1>c, <1>d, <1>g, <1>h, Nothing, SlotFacts DEF Control, Types, ContextTypes,
    RingTypes, FlagTypes, ThreadTypes, FlusherOK, Download, OnOpenStart, ReadOn
<1>3. Wires'
  BY <1>a, <1>b, <1>c, <1>d, <1>g, <1>h, Nothing, SlotFacts DEF Control, Types, ContextTypes,
    ThreadTypes, PipeTypes, Wires, CommandWire, OpenWire, RunWire, QuotaWire, AskWire,
    FinalWire, ReportWire, GetState, Alive, Mapped, FlusherOver, OnOpenStart, ReadOn
<1>4. BossOK'
  BY <1>a, <1>b, <1>c, <1>d, <1>g, <1>h, Nothing, SlotFacts DEF Control, Types, ThreadTypes,
    BossOK, Alive, Idle, FlusherOver, Download, OnOpenStart, ReadOn
<1>5. ReaderOK'
  BY <1>a, <1>b, <1>c, <1>d, <1>g, <1>h, Nothing, SlotFacts DEF Control, Types, ThreadTypes,
    PipeTypes, ReaderOK, Opening, FlusherOver, Download, OnOpenStart, ReadOn
<1>6. FlagsOK'
  BY <1>a, <1>b, <1>c, <1>d, <1>g, <1>h, Nothing, SlotFacts DEF Control, Types, ThreadTypes,
    FlagsOK, Started, Moves, Mapped, OnOpenStart, ReadOn
<1>7. HelperOK'
  BY <1>a, <1>b, <1>c, <1>d, <1>g, <1>h, Nothing, SlotFacts DEF Control, Types, ThreadTypes,
    HelperOK, Holding, Mapped, Download, OnOpenStart, ReadOn
<1>8. DoneOK'
  BY <1>a, <1>b, <1>c, <1>d, <1>g, <1>h, Nothing, SlotFacts DEF Control, Types, ThreadTypes,
    PipeTypes, DoneOK, Quiet, Alive, Idle, FlusherOver, Download, OnOpenStart, ReadOn
<1> QED
  BY <1>1, <1>2, <1>3, <1>4, <1>5, <1>6, <1>7, <1>8 DEF Control

\* A filled slot is queued.
LEMMA OnNextCreditCtl == ASSUME Control, OnNextCredit PROVE Control'
<1>a. toApp' \in Seq(AppLines) /\ Shrunk(toApp, toApp') /\ Head(toApp) \in AppLines
      /\ Head(toApp).kind = "next" /\ reader = "read"
  BY ReadShrinks DEF Control, Types, PipeTypes, OnNextCredit
<1>b. /\ toApp # <<>> /\ mode = "credit" /\ Has(toApp, "next") /\ Follows(toApp', mode)
      /\ \A k : Has(toApp', k) => Has(toApp, k)
      /\ \A ks : Kinds(toApp, ks) => Kinds(toApp', ks)
      /\ \A ks, ls : Ends(toApp, ks, ls) /\ "next" \notin ls => Ends(toApp', ks, ls)
      /\ \A i \in 1..Len(toApp') : Len(toApp) # 1 /\ \E j \in 1..Len(toApp) : toApp'[i] = toApp[j]
  BY <1>a DEF Control, ReaderOK, OnNextCredit, Shrunk
<1>c. ready' \in Seq(SlotLines)
  <2>1. Head(toApp).n > 0 => SlotLine("slot", Head(toApp).slot, Head(toApp).n) \in SlotLines
    BY <1>a, RingAssumption DEF AppLines, SlotLine, SlotLines
  <2> QED
    BY <2>1, AppendLines DEF Control, Types, RingTypes, OnNextCredit, ReadyWith
<1>1. Types'
  BY <1>a, <1>b, <1>c DEF Control, Types, ContextTypes, RingTypes, FlagTypes, ThreadTypes,
    PipeTypes, OnNextCredit
<1>2. FlusherOK'
  BY <1>a, <1>b, <1>c DEF Control, Types, ContextTypes, RingTypes, FlagTypes, ThreadTypes,
    FlusherOK, Download, OnNextCredit
<1>3. Wires'
  <2>1. CommandWire'
    BY <1>a, <1>b, <1>c DEF Control, Types, ContextTypes, ThreadTypes, PipeTypes, Wires,
      CommandWire, GetState, Alive, FlusherOver, OnNextCredit
  <2>2. OpenWire'
    BY <1>a, <1>b, <1>c, LoneLines, Said DEF Control, Types, ContextTypes, ThreadTypes,
      PipeTypes, Wires, OpenWire, Mapped, OnNextCredit
  <2>3. RunWire'
    BY <1>a, <1>b, <1>c DEF Control, Types, ContextTypes, ThreadTypes, PipeTypes, Wires,
      RunWire, OnNextCredit
  <2>4. QuotaWire'
    BY <1>a, <1>b, <1>c DEF Control, Types, ContextTypes, ThreadTypes, PipeTypes, Wires,
      QuotaWire, OnNextCredit
  <2>5. AskWire'
    BY <1>a, <1>b, <1>c DEF Control, Types, ContextTypes, ThreadTypes, PipeTypes, Wires,
      AskWire, OnNextCredit
  <2>6. FinalWire'
    BY <1>a, <1>b, <1>c DEF Control, Types, ContextTypes, ThreadTypes, PipeTypes, Wires,
      FinalWire, FlusherOver, OnNextCredit
  <2>7. ReportWire'
    BY <1>a, <1>b, <1>c DEF Control, Types, ContextTypes, ThreadTypes, PipeTypes, Wires,
      ReportWire, OnNextCredit
  <2> QED
    BY <2>1, <2>2, <2>3, <2>4, <2>5, <2>6, <2>7 DEF Wires
<1>4. BossOK'
  BY <1>a, <1>b, <1>c DEF Control, Types, ThreadTypes, BossOK, Alive, Idle, FlusherOver,
    Download, OnNextCredit
<1>5. ReaderOK'
  BY <1>a, <1>b, <1>c DEF Control, Types, ThreadTypes, PipeTypes, ReaderOK, Opening,
    FlusherOver, Download, OnNextCredit
<1>6. FlagsOK'
  BY <1>a, <1>b, <1>c DEF Control, Types, ThreadTypes, FlagsOK, Started, Moves, Mapped,
    OnNextCredit
<1>7. HelperOK'
  BY <1>a, <1>b, <1>c DEF Control, Types, ThreadTypes, HelperOK, Holding, Mapped, Download,
    OnNextCredit
<1>8. DoneOK'
  BY <1>a, <1>b, <1>c DEF Control, Types, ThreadTypes, PipeTypes, DoneOK, Quiet, Alive, Idle,
    FlusherOver, Download, OnNextCredit
<1> QED
  BY <1>1, <1>2, <1>3, <1>4, <1>5, <1>6, <1>7, <1>8 DEF Control

\* The slot goes back, or to the queue.
LEMMA OnNextReturnCtl == ASSUME Control, OnNextReturn PROVE Control'
<1>p. /\ flusher \in Flushers /\ helper \in Helpers /\ toHelper \in Seq(HelperLines) /\ toApp \in Seq(AppLines)
      /\ inbox \in Seq(AppLines) /\ free \in Seq(RingSlot) /\ ready \in Seq(SlotLines) /\ lent \in 0..Slots
  BY DEF Control, Types, RingTypes, ThreadTypes, PipeTypes
<1>a. toApp' \in Seq(AppLines) /\ Shrunk(toApp, toApp') /\ Head(toApp) \in AppLines
      /\ Head(toApp).kind = "next" /\ reader = "read"
  BY ReadShrinks DEF Control, Types, PipeTypes, OnNextReturn
<1>b. /\ toApp # <<>> /\ mode # "credit" /\ Has(toApp, "next") /\ toApp' = <<>>
      /\ helper.pc \in {"ask", "gone"}
      /\ lent' = None /\ reader' = "next"
  BY <1>a DEF Control, ReaderOK, OnNextReturn, Goto, Shrunk
<1>c. ready' \in Seq(SlotLines) /\ free' \in Seq(RingSlot)
  <2>1. Head(toApp).n > 0 /\ lent # None => SlotLine("slot", lent, Head(toApp).n) \in SlotLines
    BY <1>a, <1>p, SlotFacts, RingAssumption DEF AppLines, SlotLine, SlotLines
  <2>2. lent # None => lent \in RingSlot
    BY <1>p, SlotFacts
  <2>3. ready' = IF lent # None /\ Download /\ Head(toApp).n > 0 THEN ReadyWith(lent, Head(toApp).n) ELSE ready
    BY DEF OnNextReturn
  <2>4. free' = IF lent # None /\ ~(Download /\ Head(toApp).n > 0) THEN Append(free, lent) ELSE free
    BY DEF OnNextReturn
  <2>5. ready' \in Seq(SlotLines)
    BY <1>p, <2>1, <2>3, AppendLines DEF ReadyWith
  <2>6. free' \in Seq(RingSlot)
    BY <1>p, <2>2, <2>4, AppendGrows
  <2> QED
    BY <2>5, <2>6
<1>d. helper.pc = "ask" => toHelper = <<>>
  BY <1>a, <1>b DEF Control, Wires, AskWire
<1>1. Types'
  BY <1>a, <1>b, <1>c, <1>d, Nothing, SlotFacts DEF Control, Types, ContextTypes, RingTypes,
    FlagTypes, ThreadTypes, PipeTypes, OnNextReturn, Goto
<1>2. FlusherOK'
  BY <1>a, <1>b, <1>c, <1>d, Nothing, SlotFacts DEF Control, Types, ContextTypes, RingTypes,
    FlagTypes, ThreadTypes, FlusherOK, Download, OnNextReturn, Goto
<1>3. Wires'
  <2>1. CommandWire'
    BY <1>a, <1>b, <1>c, <1>d, Nothing, SlotFacts DEF Control, Types, ContextTypes,
      ThreadTypes, PipeTypes, Wires, CommandWire, GetState, Alive, FlusherOver,
      OnNextReturn, Goto
  <2>2. OpenWire'
    BY <1>a, <1>b, <1>c, <1>d, Nothing, SlotFacts DEF Control, Types, ContextTypes,
      ThreadTypes, PipeTypes, Wires, OpenWire, Mapped, OnNextReturn, Goto
  <2>3. RunWire'
    BY <1>a, <1>b, <1>c, <1>d, Nothing, SlotFacts DEF Control, Types, ContextTypes,
      ThreadTypes, PipeTypes, Wires, RunWire, OnNextReturn, Goto
  <2>4. QuotaWire'
    BY <1>a, <1>b, <1>c, <1>d, Nothing, SlotFacts DEF Control, Types, ContextTypes,
      ThreadTypes, PipeTypes, Wires, QuotaWire, OnNextReturn, Goto
  <2>5. AskWire'
    BY <1>a, <1>b, <1>c, <1>d, Nothing, SlotFacts DEF Control, Types, ContextTypes,
      ThreadTypes, PipeTypes, Wires, AskWire, OnNextReturn, Goto
  <2>6. FinalWire'
    BY <1>a, <1>b, <1>c, <1>d, Nothing, SlotFacts DEF Control, Types, ContextTypes,
      ThreadTypes, PipeTypes, Wires, FinalWire, FlusherOver, OnNextReturn, Goto
  <2>7. ReportWire'
    BY <1>a, <1>b, <1>c, <1>d, Nothing, SlotFacts DEF Control, Types, ContextTypes,
      ThreadTypes, PipeTypes, Wires, ReportWire, OnNextReturn, Goto
  <2> QED
    BY <2>1, <2>2, <2>3, <2>4, <2>5, <2>6, <2>7 DEF Wires
<1>4. BossOK'
  BY <1>a, <1>b, <1>c, <1>d, Nothing, SlotFacts DEF Control, Types, ThreadTypes, BossOK,
    Alive, Idle, FlusherOver, Download, OnNextReturn, Goto
<1>5. ReaderOK'
  BY <1>a, <1>b, <1>c, <1>d, Nothing, SlotFacts DEF Control, Types, ThreadTypes, PipeTypes,
    ReaderOK, Opening, FlusherOver, Download, OnNextReturn, Goto
<1>6. FlagsOK'
  BY <1>a, <1>b, <1>c, <1>d, Nothing, SlotFacts DEF Control, Types, ThreadTypes, FlagsOK,
    Started, Moves, Mapped, OnNextReturn, Goto
<1>7. HelperOK'
  BY <1>a, <1>b, <1>c, <1>d, Nothing, SlotFacts DEF Control, Types, ThreadTypes, HelperOK,
    Holding, Mapped, Download, OnNextReturn, Goto
<1>8. DoneOK'
  BY <1>a, <1>b, <1>c, <1>d, Nothing, SlotFacts DEF Control, Types, ThreadTypes, PipeTypes,
    DoneOK, Quiet, Alive, Idle, FlusherOver, Download, OnNextReturn, Goto
<1> QED
  BY <1>1, <1>2, <1>3, <1>4, <1>5, <1>6, <1>7, <1>8 DEF Control

\* The reader lends the next slot.
LEMMA OnNextLendCtl == ASSUME Control, OnNextLend PROVE Control'
<1>p. /\ flusher \in Flushers /\ helper \in Helpers /\ toHelper \in Seq(HelperLines) /\ toApp \in Seq(AppLines)
      /\ inbox \in Seq(AppLines) /\ free \in Seq(RingSlot) /\ ready \in Seq(SlotLines) /\ lent \in 0..Slots
  BY DEF Control, Types, RingTypes, ThreadTypes, PipeTypes
<1>a. /\ reader = "next" /\ reader' = "read" /\ toApp = <<>> /\ mode # "credit" /\ helper.pc \in {"ask", "gone"} /\ lent = None
      /\ helper.pc = "ask" => toHelper = <<>>
  BY DEF Control, Wires, AskWire, ReaderOK, OnNextLend, ReadOn
<1>b. PICK x \in HelperLines :
        /\ Says(<<x>>) /\ ready' \in Seq(SlotLines) /\ free' \in Seq(RingSlot) /\ lent' \in 0..Slots
        /\ \/ lent' = None /\ x = Line("error")
           \/ lent' = None /\ x = Line("eof") /\ mode = "upload"
           \/ lent' # None /\ \E n \in 1..SlotUnits : x = SlotLine("slot", lent', n)
  <2>1. CASE Says(<<Line("error")>>) /\ UNCHANGED ringState
    BY <1>a, <1>p, <2>1, SaidToHelper
  <2>2. CASE Says(<<Line("eof")>>) /\ UNCHANGED ringState /\ ~Download
    BY <1>a, <1>p, <2>2, SaidToHelper DEF Download
  <2>3. CASE /\ free # <<>> /\ lent' = Head(free) /\ free' = Tail(free)
             /\ Says(<<SlotLine("slot", Head(free), SlotUnits)>>) /\ UNCHANGED ready
    <3>1. Head(free) \in RingSlot /\ Tail(free) \in Seq(RingSlot)
      BY <2>3, <1>p, TailShrinks
    <3>2. SlotLine("slot", Head(free), SlotUnits) \in HelperLines
      BY <3>1, SaidToHelper, SlotFacts
    <3> QED
      BY <2>3, <3>1, <3>2, <1>p, SlotFacts
  <2>4. CASE /\ ready # <<>> /\ lent' = Head(ready).slot /\ ready' = Tail(ready)
             /\ Says(<<SlotLine("slot", Head(ready).slot, Head(ready).n)>>) /\ UNCHANGED free
    <3>1. Head(ready) \in SlotLines /\ Tail(ready) \in Seq(SlotLines)
      BY <2>4, <1>p, TailShrinks
    <3>2. Head(ready).slot \in RingSlot /\ Head(ready).n \in 1..SlotUnits
      BY <3>1 DEF SlotLines
    <3>3. SlotLine("slot", Head(ready).slot, Head(ready).n) \in HelperLines
      BY <3>2, SaidToHelper
    <3> QED
      BY <2>4, <3>1, <3>2, <3>3, <1>p, SlotFacts
  <2> QED
    BY <2>1, <2>2, <2>3, <2>4 DEF OnNextLend
<1>c. /\ toHelper' \in Seq(HelperLines)
      /\ ~Alive => toHelper' = toHelper
      /\ Alive => helper.pc = "ask" /\ toHelper' = <<x>>
  BY <1>a, <1>b, <1>p, SaysGrows DEF Alive, Grown
<1>1. Types'
  BY <1>a, <1>b, <1>c, Nothing, SlotFacts DEF Control, Types, ContextTypes, RingTypes,
    FlagTypes, ThreadTypes, PipeTypes, OnNextLend, ReadOn
<1>2. FlusherOK'
  BY <1>a, <1>b, <1>c, Nothing, SlotFacts DEF Control, Types, ContextTypes, RingTypes,
    FlagTypes, ThreadTypes, FlusherOK, Download, OnNextLend, ReadOn
<1>3. Wires'
  <2>1. CommandWire'
    <3>1. Alive => ~Has(toHelper', "get")
      BY <1>b, <1>c, OneLine, Said
    <3> QED
      BY <3>1 DEF CommandWire, Alive, OnNextLend
  <2>2. OpenWire'
    BY <1>a, <1>b, <1>c, Nothing, SlotFacts, Said DEF Control, Types, ContextTypes,
      ThreadTypes, PipeTypes, Wires, OpenWire, Mapped, OnNextLend, ReadOn
  <2>3. RunWire'
    BY <1>a, <1>b, <1>c, Nothing, SlotFacts, Said DEF Control, Types, ContextTypes,
      ThreadTypes, PipeTypes, Wires, RunWire, OnNextLend, ReadOn
  <2>4. QuotaWire'
    BY <1>a, <1>b, <1>c, Nothing, SlotFacts, Said DEF Control, Types, ContextTypes,
      ThreadTypes, PipeTypes, Wires, QuotaWire, OnNextLend, ReadOn
  <2>5. AskWire'
    <3>1. helper' = helper /\ mode' = mode /\ toApp' = toApp
      BY DEF OnNextLend
    <3>2. helper.pc = "ask" => toHelper' = <<x>>
      BY <1>c DEF Alive
    <3> QED
      BY <1>a, <1>b, <3>1, <3>2 DEF AskWire
  <2>6. FinalWire'
    BY <1>a, <1>b, <1>c, Nothing, SlotFacts, Said DEF Control, Types, ContextTypes,
      ThreadTypes, PipeTypes, Wires, FinalWire, FlusherOver, OnNextLend, ReadOn
  <2>7. ReportWire'
    BY <1>a, <1>b, <1>c, Nothing, SlotFacts, Said DEF Control, Types, ContextTypes,
      ThreadTypes, PipeTypes, Wires, ReportWire, OnNextLend, ReadOn
  <2> QED
    BY <2>1, <2>2, <2>3, <2>4, <2>5, <2>6, <2>7 DEF Wires
<1>4. BossOK'
  BY <1>a, <1>b, <1>c, Nothing, SlotFacts DEF Control, Types, ThreadTypes, BossOK, Alive,
    Idle, FlusherOver, Download, OnNextLend, ReadOn
<1>5. ReaderOK'
  BY <1>a, <1>b, <1>c, Nothing, SlotFacts DEF Control, Types, ThreadTypes, PipeTypes,
    ReaderOK, Opening, FlusherOver, Download, OnNextLend, ReadOn
<1>6. FlagsOK'
  BY <1>a, <1>b, <1>c, Nothing, SlotFacts DEF Control, Types, ThreadTypes, FlagsOK, Started,
    Moves, Mapped, OnNextLend, ReadOn
<1>7. HelperOK'
  BY <1>a, <1>b, <1>c, Nothing, SlotFacts DEF Control, Types, ThreadTypes, HelperOK, Holding,
    Mapped, Download, OnNextLend, ReadOn
<1>8. DoneOK'
  BY <1>a, <1>b, <1>c, Nothing, SlotFacts DEF Control, Types, ThreadTypes, PipeTypes, DoneOK,
    Quiet, Alive, Idle, FlusherOver, Download, OnNextLend, ReadOn
<1> QED
  BY <1>1, <1>2, <1>3, <1>4, <1>5, <1>6, <1>7, <1>8 DEF Control

\* The trailing slot is queued.
LEMMA OnFinalizeCtl == ASSUME Control, OnFinalize PROVE Control'
<1>p. /\ flusher \in Flushers /\ helper \in Helpers /\ toHelper \in Seq(HelperLines) /\ toApp \in Seq(AppLines)
      /\ inbox \in Seq(AppLines) /\ free \in Seq(RingSlot) /\ ready \in Seq(SlotLines) /\ lent \in 0..Slots
  BY DEF Control, Types, RingTypes, ThreadTypes, PipeTypes
<1>a. toApp' \in Seq(AppLines) /\ Shrunk(toApp, toApp') /\ Head(toApp) \in AppLines
      /\ Head(toApp).kind = "final" /\ reader = "read"
  BY ReadShrinks DEF Control, Types, PipeTypes, OnFinalize
<1>b. /\ toApp # <<>> /\ Has(toApp, "final") /\ reader' = "final" /\ lent' = None /\ final'
      /\ Download /\ Kinds(toApp', {"done"}) /\ Follows(toApp', mode)
      /\ helper.pc \in {"final", "report", "command", "gone"}
      /\ \A i \in 1..Len(toApp') : Len(toApp) # 1 /\ \E j \in 1..Len(toApp) : toApp'[i] = toApp[j]
      /\ \A k : Has(toApp', k) => Has(toApp, k) /\ k = "done"
      /\ mode # "credit" => toApp' = <<>>
  <2>1. /\ toApp # <<>> /\ Has(toApp, "final") /\ Kinds(toApp', {"done"}) /\ Follows(toApp', mode)
        /\ mode # "credit" => toApp' = <<>>
        /\ \A k : Has(toApp', k) => Has(toApp, k)
        /\ \A i \in 1..Len(toApp') : Len(toApp) # 1 /\ \E j \in 1..Len(toApp) : toApp'[i] = toApp[j]
    BY <1>a DEF Control, ReaderOK, Shrunk
  <2>2. \A k : Has(toApp', k) => k = "done"
    BY <2>1 DEF Kinds, Has
  <2>3. Has(toApp, "final")
    BY <2>1
  <2>4. Download /\ helper.pc \in {"final", "report", "command", "gone"}
    BY <2>3 DEF Control, ReaderOK
  <2>5. reader' = "final" /\ lent' = None /\ final'
    BY DEF OnFinalize, Goto
  <2> QED
    BY <2>1, <2>2, <2>4, <2>5
<1>c. ready' \in Seq(SlotLines)
  <2>1. Head(toApp).n > 0 => SlotLine("slot", Head(toApp).slot, Head(toApp).n) \in SlotLines
    BY <1>a, RingAssumption DEF AppLines, SlotLine, SlotLines
  <2>2. Head(toApp).n > 0 /\ lent # None => SlotLine("slot", lent, Head(toApp).n) \in SlotLines
    BY <1>a, <1>p, SlotFacts, RingAssumption DEF AppLines, SlotLine, SlotLines
  <2> QED
    BY <1>p, <2>1, <2>2, AppendLines DEF OnFinalize, ReadyWith
<1>d. helper.pc = "final" => /\ toApp' = <<>> /\ Kinds(toHelper, IoOf(mode))
  <2>1. helper.pc = "final" => Ends(toApp, NextOf(mode), {"final"}) /\ Kinds(toHelper, IoOf(mode))
    BY <1>a, <1>b DEF Control, Wires, FinalWire
  <2>2. Head(toApp).kind \notin NextOf(mode)
    BY <1>a DEF NextOf
  <2> QED
    BY <2>1, <2>2, <1>a DEF Shrunk
<1>e. helper.pc # "command" \/ toHelper = <<>> \/ ~Has(toHelper, "get")
  BY <1>b DEF Control, Wires, CommandWire, GetState, Alive
<1>f. boss.outcome # "ok" /\ inbox = <<>> /\ ~(helper.pc = "report" /\ helper.ok)
  BY <1>a, <1>b DEF Control, DoneOK, Shrunk
<1>1. Types'
  BY <1>a, <1>b, <1>c, <1>d, Nothing, SlotFacts DEF Control, Types, ContextTypes, RingTypes,
    FlagTypes, ThreadTypes, PipeTypes, OnFinalize, Goto
<1>2. FlusherOK'
  BY <1>a, <1>b, <1>c, <1>d, Nothing, SlotFacts DEF Control, Types, ContextTypes, RingTypes,
    FlagTypes, ThreadTypes, FlusherOK, Download, OnFinalize, Goto
<1>3. Wires'
  <2>1. CommandWire'
    BY <1>a, <1>b, <1>c, <1>d, Nothing, SlotFacts, OnlyLines DEF Control, Types,
      ContextTypes, ThreadTypes, PipeTypes, Wires, CommandWire, GetState, Alive,
      FlusherOver, OnFinalize, Goto
  <2>2. OpenWire'
    BY <1>a, <1>b, <1>c, <1>d, Nothing, SlotFacts, OnlyLines DEF Control, Types,
      ContextTypes, ThreadTypes, PipeTypes, Wires, OpenWire, Mapped, OnFinalize, Goto
  <2>3. RunWire'
    BY <1>a, <1>b, <1>c, <1>d, Nothing, SlotFacts, OnlyLines DEF Control, Types,
      ContextTypes, ThreadTypes, PipeTypes, Wires, RunWire, OnFinalize, Goto
  <2>4. QuotaWire'
    BY <1>a, <1>b, <1>c, <1>d, Nothing, SlotFacts, OnlyLines DEF Control, Types,
      ContextTypes, ThreadTypes, PipeTypes, Wires, QuotaWire, OnFinalize, Goto
  <2>5. AskWire'
    BY <1>a, <1>b, <1>c, <1>d, Nothing, SlotFacts, OnlyLines DEF Control, Types,
      ContextTypes, ThreadTypes, PipeTypes, Wires, AskWire, OnFinalize, Goto
  <2>6. FinalWire'
    BY <1>a, <1>b, <1>c, <1>d, Nothing, SlotFacts, OnlyLines DEF Control, Types,
      ContextTypes, ThreadTypes, PipeTypes, Wires, FinalWire, FlusherOver, OnFinalize, Goto
  <2>7. ReportWire'
    <3>1. helper.pc = "report" => Kinds(toApp', {"next", "final"}) /\ (mode # "credit" => toApp' = <<>>)
      BY <1>a, <1>b DEF Control, Wires, ReportWire, Shrunk
    <3> QED
      BY <3>1 DEF ReportWire, OnFinalize
  <2> QED
    BY <2>1, <2>2, <2>3, <2>4, <2>5, <2>6, <2>7 DEF Wires
<1>4. BossOK'
  BY <1>a, <1>b, <1>c, <1>d, Nothing, SlotFacts DEF Control, Types, ThreadTypes, BossOK,
    Alive, Idle, FlusherOver, Download, OnFinalize, Goto
<1>5. ReaderOK'
  BY <1>a, <1>b, <1>c, <1>d, Nothing, SlotFacts DEF Control, Types, ThreadTypes, PipeTypes,
    ReaderOK, Opening, FlusherOver, Download, OnFinalize, Goto
<1>6. FlagsOK'
  BY <1>a, <1>b, <1>c, <1>d, Nothing, SlotFacts DEF Control, Types, ThreadTypes, FlagsOK,
    Started, Moves, Mapped, OnFinalize, Goto
<1>7. HelperOK'
  BY <1>a, <1>b, <1>c, <1>d, Nothing, SlotFacts DEF Control, Types, ThreadTypes, HelperOK,
    Holding, Mapped, Download, OnFinalize, Goto
<1>8. DoneOK'
  BY <1>a, <1>b, <1>c, <1>d, Nothing, SlotFacts, <1>f DEF Control, Types, ThreadTypes,
    PipeTypes, DoneOK, Quiet, Alive, Idle, FlusherOver, Download, OnFinalize, Goto
<1> QED
  BY <1>1, <1>2, <1>3, <1>4, <1>5, <1>6, <1>7, <1>8 DEF Control

\* The verdict is said.
LEMMA OnFinalizeJoinCtl == ASSUME Control, OnFinalizeJoin PROVE Control'
<1>p. /\ flusher \in Flushers /\ helper \in Helpers /\ toHelper \in Seq(HelperLines) /\ toApp \in Seq(AppLines)
      /\ inbox \in Seq(AppLines) /\ free \in Seq(RingSlot) /\ ready \in Seq(SlotLines) /\ lent \in 0..Slots
  BY DEF Control, Types, RingTypes, ThreadTypes, PipeTypes
<1>a. PICK x \in HelperLines : Says(<<x>>) /\ x.kind \in {"kept", "lost"}
  <2>1. /\ Line(IF broken THEN "lost" ELSE "kept") \in HelperLines
        /\ Line(IF broken THEN "lost" ELSE "kept").kind \in {"kept", "lost"}
    BY SaidToHelper, Said
  <2> QED
    BY <2>1 DEF OnFinalizeJoin
<1>b. /\ toHelper' \in Seq(HelperLines)
      /\ ~Alive => toHelper' = toHelper
      /\ Alive => Grown(toHelper, x, toHelper')
  BY <1>a, <1>p, SaysGrows DEF Alive
<1>c. /\ reader = "final" /\ reader' = "read" /\ final /\ Download /\ FlusherOver
      /\ helper.pc \in {"final", "report", "command", "gone"} /\ boss.pc \notin {"ready", "context", "drop", "stopped"}
      /\ UNCHANGED <<contextVars, ringState, flagVars, memory, flusher, boss, toApp, inbox, helper, landed, boundVars>>
  <2>1. reader = "final" /\ reader' = "read"
    BY DEF OnFinalizeJoin, ReadOn
  <2>2. final /\ Download /\ helper.pc \in {"final", "report", "command", "gone"}
    BY <2>1 DEF Control, ReaderOK
  <2>3. boss.pc \notin {"ready", "context", "drop", "stopped"}
    BY <2>1 DEF Control, BossOK
  <2> QED
    BY <2>1, <2>2, <2>3 DEF OnFinalizeJoin
<1>d. Alive => ~Has(toHelper, "get")
  BY <1>c DEF Control, Wires, CommandWire, GetState
<1>e. ~Quiet
  BY <1>c DEF Quiet
<1>1. Types'
  BY <1>p, <1>a, <1>b, <1>c DEF Control, Types, ContextTypes, RingTypes, FlagTypes,
    ThreadTypes, PipeTypes, OnFinalizeJoin, ReadOn
<1>2. FlusherOK'
  BY <1>p, <1>a, <1>b, <1>c DEF Control, Types, ContextTypes, RingTypes, FlagTypes,
    ThreadTypes, FlusherOK, Download, OnFinalizeJoin, ReadOn
<1>3. Wires'
  <2>1. CommandWire'
    BY <1>a, <1>b, <1>c, <1>d DEF CommandWire, Grown, Alive
  <2>2. OpenWire'
    BY <1>p, <1>a, <1>b, <1>c DEF Control, Types, ContextTypes, ThreadTypes, PipeTypes,
      Wires, OpenWire, Mapped, OnFinalizeJoin, ReadOn
  <2>3. RunWire'
    BY <1>p, <1>a, <1>b, <1>c DEF Control, Types, ContextTypes, ThreadTypes, PipeTypes,
      Wires, RunWire, OnFinalizeJoin, ReadOn
  <2>4. QuotaWire'
    BY <1>p, <1>a, <1>b, <1>c DEF Control, Types, ContextTypes, ThreadTypes, PipeTypes,
      Wires, QuotaWire, OnFinalizeJoin, ReadOn
  <2>5. AskWire'
    BY <1>p, <1>a, <1>b, <1>c DEF Control, Types, ContextTypes, ThreadTypes, PipeTypes,
      Wires, AskWire, OnFinalizeJoin, ReadOn
  <2>6. FinalWire'
    <3>1. helper.pc = "final" => toApp = <<>> /\ Kinds(toHelper, IoOf(mode))
      BY <1>c DEF Control, Wires, FinalWire
    <3>2. helper.pc = "final" => Ends(toHelper', IoOf(mode), {"kept", "lost"})
      BY <3>1, <1>a, <1>b, <1>c DEF Grown, Alive
    <3> QED
      BY <3>1, <3>2, <1>c DEF FinalWire, FlusherOver, Download
  <2>7. ReportWire'
    BY <1>p, <1>a, <1>b, <1>c DEF Control, Types, ContextTypes, ThreadTypes, PipeTypes,
      Wires, ReportWire, OnFinalizeJoin, ReadOn
  <2> QED
    BY <2>1, <2>2, <2>3, <2>4, <2>5, <2>6, <2>7 DEF Wires
<1>4. BossOK'
  BY <1>p, <1>a, <1>b, <1>c DEF Control, Types, ThreadTypes, BossOK, Alive, Idle, FlusherOver,
    Download, OnFinalizeJoin, ReadOn
<1>5. ReaderOK'
  BY <1>p, <1>a, <1>b, <1>c DEF Control, Types, ThreadTypes, PipeTypes, ReaderOK, Opening,
    FlusherOver, Download, OnFinalizeJoin, ReadOn
<1>6. FlagsOK'
  BY <1>p, <1>a, <1>b, <1>c DEF Control, Types, ThreadTypes, FlagsOK, Started, Moves, Mapped,
    OnFinalizeJoin, ReadOn
<1>7. HelperOK'
  BY <1>p, <1>a, <1>b, <1>c DEF Control, Types, ThreadTypes, HelperOK, Holding, Mapped,
    Download, OnFinalizeJoin, ReadOn
<1>8. DoneOK'
  BY <1>c, <1>e DEF Control, DoneOK, Quiet, Idle
<1> QED
  BY <1>1, <1>2, <1>3, <1>4, <1>5, <1>6, <1>7, <1>8 DEF Control

\* The reader ends.
LEMMA OnEndCtl == ASSUME Control, OnEnd PROVE Control'
<1>1. Types'
  BY Nothing DEF Control, Types, ContextTypes, RingTypes, FlagTypes, ThreadTypes, PipeTypes,
    OnEnd, Goto
<1>2. FlusherOK'
  BY Nothing DEF Control, Types, ContextTypes, RingTypes, FlagTypes, ThreadTypes, FlusherOK,
    Download, OnEnd, Goto
<1>3. Wires'
  BY Nothing DEF Control, Types, ContextTypes, ThreadTypes, PipeTypes, Wires, CommandWire,
    OpenWire, RunWire, QuotaWire, AskWire, FinalWire, ReportWire, GetState, Alive, Mapped,
    FlusherOver, OnEnd, Goto
<1>4. BossOK'
  BY Nothing DEF Control, Types, ThreadTypes, BossOK, Alive, Idle, FlusherOver, Download,
    OnEnd, Goto
<1>5. ReaderOK'
  BY Nothing DEF Control, Types, ThreadTypes, PipeTypes, ReaderOK, Opening, FlusherOver,
    Download, OnEnd, Goto
<1>6. FlagsOK'
  BY Nothing DEF Control, Types, ThreadTypes, FlagsOK, Started, Moves, Mapped, OnEnd, Goto
<1>7. HelperOK'
  BY Nothing DEF Control, Types, ThreadTypes, HelperOK, Holding, Mapped, Download, OnEnd, Goto
<1>8. DoneOK'
  BY Nothing DEF Control, Types, ThreadTypes, PipeTypes, DoneOK, Quiet, Alive, Idle,
    FlusherOver, Download, OnEnd, Goto
<1> QED
  BY <1>1, <1>2, <1>3, <1>4, <1>5, <1>6, <1>7, <1>8 DEF Control

\* The helper gives up.
LEMMA StrayLineCtl == ASSUME Control, StrayLine PROVE Control'
<1>p. /\ flusher \in Flushers /\ helper \in Helpers /\ toHelper \in Seq(HelperLines) /\ toApp \in Seq(AppLines)
      /\ inbox \in Seq(AppLines) /\ free \in Seq(RingSlot) /\ ready \in Seq(SlotLines) /\ lent \in 0..Slots
  BY DEF Control, Types, RingTypes, ThreadTypes, PipeTypes
<1>a. /\ helper' \in Helpers /\ helper'.pc = "gone" /\ helper'.slot = None /\ helper'.fill = 0
      /\ helper'.grants = <<>> /\ helper'.moved = 0
  BY NoHelperIs DEF StrayLine
<1>b. ~Started'
  BY <1>a DEF Started, Moves, Mapped
<1>1. Types'
  BY <1>p, <1>a, <1>b DEF Control, Types, ContextTypes, RingTypes, FlagTypes, ThreadTypes,
    PipeTypes, StrayLine, HelperOnly, BossGoes
<1>2. FlusherOK'
  BY <1>p, <1>a, <1>b DEF Control, Types, ContextTypes, RingTypes, FlagTypes, ThreadTypes,
    FlusherOK, Download, StrayLine, HelperOnly, BossGoes
<1>3. Wires'
  BY <1>p, <1>a, <1>b DEF Control, Types, ContextTypes, ThreadTypes, PipeTypes, Wires,
    CommandWire, OpenWire, RunWire, QuotaWire, AskWire, FinalWire, ReportWire, GetState,
    Alive, Mapped, FlusherOver, StrayLine, HelperOnly, BossGoes
<1>4. BossOK'
  BY <1>p, <1>a, <1>b DEF Control, Types, ThreadTypes, BossOK, Alive, Idle, FlusherOver,
    Download, StrayLine, HelperOnly, BossGoes
<1>5. ReaderOK'
  BY <1>p, <1>a, <1>b DEF Control, Types, ThreadTypes, PipeTypes, ReaderOK, Opening,
    FlusherOver, Download, StrayLine, HelperOnly, BossGoes
<1>6. FlagsOK'
  BY <1>p, <1>a, <1>b DEF Control, Types, ThreadTypes, FlagsOK, Started, Moves, Mapped,
    StrayLine, HelperOnly, BossGoes
<1>7. HelperOK'
  BY <1>p, <1>a, <1>b DEF Control, Types, ThreadTypes, HelperOK, Holding, Mapped, Download,
    StrayLine, HelperOnly, BossGoes
<1>8. DoneOK'
  BY <1>p, <1>a, <1>b DEF Control, Types, ThreadTypes, PipeTypes, DoneOK, Quiet, Alive, Idle,
    FlusherOver, Download, StrayLine, HelperOnly, BossGoes
<1> QED
  BY <1>1, <1>2, <1>3, <1>4, <1>5, <1>6, <1>7, <1>8 DEF Control

\* The helper dies.
LEMMA HelperDiesCtl == ASSUME Control, HelperDies PROVE Control'
<1>p. /\ flusher \in Flushers /\ helper \in Helpers /\ toHelper \in Seq(HelperLines) /\ toApp \in Seq(AppLines)
      /\ inbox \in Seq(AppLines) /\ free \in Seq(RingSlot) /\ ready \in Seq(SlotLines) /\ lent \in 0..Slots
  BY DEF Control, Types, RingTypes, ThreadTypes, PipeTypes
<1>a. /\ helper' \in Helpers /\ helper'.pc = "gone" /\ helper'.slot = None /\ helper'.fill = 0
      /\ helper'.grants = <<>> /\ helper'.moved = 0
  BY NoHelperIs DEF HelperDies
<1>b. ~Started'
  BY <1>a DEF Started, Moves, Mapped
<1>1. Types'
  BY <1>p, <1>a, <1>b DEF Control, Types, ContextTypes, RingTypes, FlagTypes, ThreadTypes,
    PipeTypes, HelperDies, HelperOnly, BossGoes
<1>2. FlusherOK'
  BY <1>p, <1>a, <1>b DEF Control, Types, ContextTypes, RingTypes, FlagTypes, ThreadTypes,
    FlusherOK, Download, HelperDies, HelperOnly, BossGoes
<1>3. Wires'
  BY <1>p, <1>a, <1>b DEF Control, Types, ContextTypes, ThreadTypes, PipeTypes, Wires,
    CommandWire, OpenWire, RunWire, QuotaWire, AskWire, FinalWire, ReportWire, GetState,
    Alive, Mapped, FlusherOver, HelperDies, HelperOnly, BossGoes
<1>4. BossOK'
  BY <1>p, <1>a, <1>b DEF Control, Types, ThreadTypes, BossOK, Alive, Idle, FlusherOver,
    Download, HelperDies, HelperOnly, BossGoes
<1>5. ReaderOK'
  BY <1>p, <1>a, <1>b DEF Control, Types, ThreadTypes, PipeTypes, ReaderOK, Opening,
    FlusherOver, Download, HelperDies, HelperOnly, BossGoes
<1>6. FlagsOK'
  BY <1>p, <1>a, <1>b DEF Control, Types, ThreadTypes, FlagsOK, Started, Moves, Mapped,
    HelperDies, HelperOnly, BossGoes
<1>7. HelperOK'
  BY <1>p, <1>a, <1>b DEF Control, Types, ThreadTypes, HelperOK, Holding, Mapped, Download,
    HelperDies, HelperOnly, BossGoes
<1>8. DoneOK'
  BY <1>p, <1>a, <1>b DEF Control, Types, ThreadTypes, PipeTypes, DoneOK, Quiet, Alive, Idle,
    FlusherOver, Download, HelperDies, HelperOnly, BossGoes
<1> QED
  BY <1>1, <1>2, <1>3, <1>4, <1>5, <1>6, <1>7, <1>8 DEF Control

\* The helper is killed.
LEMMA StopKillCtl == ASSUME Control, StopKill PROVE Control'
<1>p. /\ flusher \in Flushers /\ helper \in Helpers /\ toHelper \in Seq(HelperLines) /\ toApp \in Seq(AppLines)
      /\ inbox \in Seq(AppLines) /\ free \in Seq(RingSlot) /\ ready \in Seq(SlotLines) /\ lent \in 0..Slots
  BY DEF Control, Types, RingTypes, ThreadTypes, PipeTypes
<1>a. /\ helper' \in Helpers /\ helper'.pc = "gone" /\ helper'.slot = None /\ helper'.fill = 0
      /\ helper'.grants = <<>> /\ helper'.moved = 0
  BY NoHelperIs DEF StopKill
<1>b. ~Started'
  BY <1>a DEF Started, Moves, Mapped
<1>1. Types'
  BY <1>p, <1>a, <1>b DEF Control, Types, ContextTypes, RingTypes, FlagTypes, ThreadTypes,
    PipeTypes, StopKill, HelperOnly, BossGoes
<1>2. FlusherOK'
  BY <1>p, <1>a, <1>b DEF Control, Types, ContextTypes, RingTypes, FlagTypes, ThreadTypes,
    FlusherOK, Download, StopKill, HelperOnly, BossGoes
<1>3. Wires'
  BY <1>p, <1>a, <1>b DEF Control, Types, ContextTypes, ThreadTypes, PipeTypes, Wires,
    CommandWire, OpenWire, RunWire, QuotaWire, AskWire, FinalWire, ReportWire, GetState,
    Alive, Mapped, FlusherOver, StopKill, HelperOnly, BossGoes
<1>4. BossOK'
  BY <1>p, <1>a, <1>b DEF Control, Types, ThreadTypes, BossOK, Alive, Idle, FlusherOver,
    Download, StopKill, HelperOnly, BossGoes
<1>5. ReaderOK'
  BY <1>p, <1>a, <1>b DEF Control, Types, ThreadTypes, PipeTypes, ReaderOK, Opening,
    FlusherOver, Download, StopKill, HelperOnly, BossGoes
<1>6. FlagsOK'
  BY <1>p, <1>a, <1>b DEF Control, Types, ThreadTypes, FlagsOK, Started, Moves, Mapped,
    StopKill, HelperOnly, BossGoes
<1>7. HelperOK'
  BY <1>p, <1>a, <1>b DEF Control, Types, ThreadTypes, HelperOK, Holding, Mapped, Download,
    StopKill, HelperOnly, BossGoes
<1>8. DoneOK'
  BY <1>p, <1>a, <1>b DEF Control, Types, ThreadTypes, PipeTypes, DoneOK, Quiet, Alive, Idle,
    FlusherOver, Download, StopKill, HelperOnly, BossGoes
<1> QED
  BY <1>1, <1>2, <1>3, <1>4, <1>5, <1>6, <1>7, <1>8 DEF Control

\* A grant is put aside.
LEMMA SiphonCtl == ASSUME Control, Siphon PROVE Control'
<1>p. /\ flusher \in Flushers /\ helper \in Helpers /\ toHelper \in Seq(HelperLines) /\ toApp \in Seq(AppLines)
      /\ inbox \in Seq(AppLines) /\ free \in Seq(RingSlot) /\ ready \in Seq(SlotLines) /\ lent \in 0..Slots
  BY DEF Control, Types, RingTypes, ThreadTypes, PipeTypes
<1>a. /\ toHelper' \in Seq(HelperLines) /\ Shrunk(toHelper, toHelper') /\ Head(toHelper) \in HelperLines
      /\ Head(toHelper).kind = "grant" /\ Heads(toHelper, "grant") /\ toHelper # <<>> /\ Has(toHelper, "grant")
  BY <1>p, TakeShrinks DEF Siphon, Hears, Heads, Shrunk
<1>b. Head(toHelper).slot \in RingSlot /\ Append(helper.grants, Head(toHelper).slot) \in Seq(RingSlot)
  <2>1. Head(toHelper).slot \in RingSlot
    BY <1>a DEF HelperLines
  <2> QED
    BY <2>1, <1>p, HelperFields, AppendLines
<1>c. /\ Helping(helper', helper.pc, helper.slot, helper.fill, Append(helper.grants, Head(toHelper).slot),
                 helper.moved, helper.ok, helper.asked)
      /\ helper.pc \in {"open", "ask", "quota", "final"}
  BY <1>p, <1>b, HelperTo, HelperFields DEF Siphon
<1>d. /\ helper' \in Helpers /\ helper'.pc = helper.pc /\ helper'.slot = helper.slot
      /\ helper'.fill = helper.fill /\ helper'.moved = helper.moved /\ helper'.ok = helper.ok
  BY <1>c DEF Helping
<1>e. helper.pc # "open" /\ mode = "credit"
  <2>1. helper.pc # "open"
    BY <1>a, LoneLines, Said DEF Control, Wires, OpenWire, Mapped, Heads
  <2>2. helper.pc = "ask" => mode = "credit"
    BY <1>a, <2>1, LoneLines, Said DEF Control, Wires, AskWire, Heads
  <2>3. helper.pc = "final" => mode = "credit"
    BY <1>a, OnlyLines DEF Control, Wires, FinalWire, IoOf, Shrunk
  <2>4. helper.pc = "quota" => mode = "credit"
    BY <1>a DEF Control, Wires, QuotaWire, IoOf, Shrunk, Kinds
  <2> QED
    BY <1>c, <2>1, <2>2, <2>3, <2>4
<1>1. Types'
  BY <1>p, <1>a, <1>c, <1>d, <1>e DEF Control, Types, ContextTypes, RingTypes, FlagTypes,
    ThreadTypes, PipeTypes, Siphon, HelperOnly
<1>2. FlusherOK'
  BY <1>p, <1>a, <1>c, <1>d, <1>e DEF Control, Types, ContextTypes, RingTypes, FlagTypes,
    ThreadTypes, FlusherOK, Download, Siphon, HelperOnly
<1>3. Wires'
  <2>1. CommandWire'
    BY <1>p, <1>a, <1>c, <1>d, <1>e DEF Control, Types, ContextTypes, ThreadTypes,
      PipeTypes, Wires, CommandWire, GetState, Alive, FlusherOver, Siphon, HelperOnly,
      Shrunk
  <2>2. OpenWire'
    BY <1>p, <1>a, <1>c, <1>d, <1>e DEF Control, Types, ContextTypes, ThreadTypes,
      PipeTypes, Wires, OpenWire, Mapped, Siphon, HelperOnly, Shrunk
  <2>3. RunWire'
    BY <1>p, <1>a, <1>c, <1>d, <1>e DEF Control, Types, ContextTypes, ThreadTypes,
      PipeTypes, Wires, RunWire, Siphon, HelperOnly, Shrunk
  <2>4. QuotaWire'
    BY <1>p, <1>a, <1>c, <1>d, <1>e DEF Control, Types, ContextTypes, ThreadTypes,
      PipeTypes, Wires, QuotaWire, Siphon, HelperOnly, Shrunk
  <2>5. AskWire'
    BY <1>p, <1>a, <1>c, <1>d, <1>e DEF Control, Types, ContextTypes, ThreadTypes,
      PipeTypes, Wires, AskWire, Siphon, HelperOnly, Shrunk
  <2>6. FinalWire'
    BY <1>p, <1>a, <1>c, <1>d, <1>e DEF Control, Types, ContextTypes, ThreadTypes,
      PipeTypes, Wires, FinalWire, FlusherOver, Siphon, HelperOnly, Shrunk
  <2>7. ReportWire'
    BY <1>p, <1>a, <1>c, <1>d, <1>e DEF Control, Types, ContextTypes, ThreadTypes,
      PipeTypes, Wires, ReportWire, Siphon, HelperOnly, Shrunk
  <2> QED
    BY <2>1, <2>2, <2>3, <2>4, <2>5, <2>6, <2>7 DEF Wires
<1>4. BossOK'
  BY <1>p, <1>a, <1>c, <1>d, <1>e DEF Control, Types, ThreadTypes, BossOK, Alive, Idle,
    FlusherOver, Download, Siphon, HelperOnly
<1>5. ReaderOK'
  BY <1>p, <1>a, <1>c, <1>d, <1>e DEF Control, Types, ThreadTypes, PipeTypes, ReaderOK,
    Opening, FlusherOver, Download, Siphon, HelperOnly
<1>6. FlagsOK'
  BY <1>p, <1>a, <1>c, <1>d, <1>e DEF Control, Types, ThreadTypes, FlagsOK, Started, Moves,
    Mapped, Siphon, HelperOnly
<1>7. HelperOK'
  BY <1>p, <1>a, <1>c, <1>d, <1>e DEF Control, Types, ThreadTypes, HelperOK, Holding, Mapped,
    Download, Siphon, HelperOnly
<1>8. DoneOK'
  BY <1>p, <1>a, <1>c, <1>d, <1>e DEF Control, Types, ThreadTypes, PipeTypes, DoneOK, Quiet,
    Alive, Idle, FlusherOver, Download, Siphon, HelperOnly
<1> QED
  BY <1>1, <1>2, <1>3, <1>4, <1>5, <1>6, <1>7, <1>8 DEF Control

\* The helper hears of the mapping.
LEMMA OpenedCtl == ASSUME Control, Opened PROVE Control'
<1>p. /\ flusher \in Flushers /\ helper \in Helpers /\ toHelper \in Seq(HelperLines) /\ toApp \in Seq(AppLines)
      /\ inbox \in Seq(AppLines) /\ free \in Seq(RingSlot) /\ ready \in Seq(SlotLines) /\ lent \in 0..Slots
  BY DEF Control, Types, RingTypes, ThreadTypes, PipeTypes
<1>a. PICK k \in {"map", "refused"} :
        /\ Hears(k) /\ Take
        /\ k = "map" => Turn("run")
        /\ k = "refused" => Fails("report")
  BY DEF Opened
<1>b. /\ toHelper' \in Seq(HelperLines) /\ Shrunk(toHelper, toHelper') /\ Heads(toHelper, k) /\ toHelper # <<>>
      /\ toHelper' = Tail(toHelper) /\ Head(toHelper).kind = k
  BY <1>a, <1>p, TakeShrinks DEF Hears, Heads, Take
<1>c. /\ helper' \in Helpers /\ helper'.slot = helper.slot /\ helper'.fill = helper.fill
      /\ helper'.grants = helper.grants /\ helper'.moved = helper.moved
      /\ k = "map" => helper'.pc = "run"
      /\ k = "refused" => helper'.pc = "report" /\ ~helper'.ok
  BY <1>p, <1>a, Turned DEF Helping, HelperPlaces
<1>d. /\ helper.pc = "open" /\ reader = "read" /\ toApp = <<>>
      /\ k = "map" => Mapped /\ Kinds(toHelper', IoOf(mode))
      /\ k = "refused" => toHelper' = <<>>
  <2>1. helper.pc = "open" /\ k # "refused" => ~Heads(toHelper, "refused")
    BY <1>b DEF Opened, Heads
  <2>2. helper.pc = "open"
    BY DEF Opened
  <2>3. toHelper = <<Line("refused")>> => k = "refused" /\ toHelper' = <<>>
    BY <1>b, LoneLines, Said
  <2>4. Mapped => k = "map"
    BY <1>b DEF Mapped, Heads
  <2> QED
    BY <1>b, <2>2, <2>3, <2>4 DEF Control, Wires, OpenWire
<1>e. ~Has(toHelper', "get")
  BY <1>a, <1>b, <1>d, OnlyLines, Nothing DEF IoOf
<1>1. Types'
  BY <1>p, <1>a, <1>b, <1>c, <1>d, <1>e, Nothing DEF Control, Types, ContextTypes, RingTypes,
    FlagTypes, ThreadTypes, PipeTypes, Opened, HelperOnly
<1>2. FlusherOK'
  BY <1>p, <1>a, <1>b, <1>c, <1>d, <1>e, Nothing DEF Control, Types, ContextTypes, RingTypes,
    FlagTypes, ThreadTypes, FlusherOK, Download, Opened, HelperOnly
<1>3. Wires'
  <2>1. CommandWire'
    BY <1>p, <1>a, <1>b, <1>c, <1>d, <1>e, Nothing DEF Control, Types, ContextTypes,
      ThreadTypes, PipeTypes, Wires, CommandWire, GetState, Alive, FlusherOver, Opened,
      HelperOnly
  <2>2. OpenWire'
    BY <1>p, <1>a, <1>b, <1>c, <1>d, <1>e, Nothing DEF Control, Types, ContextTypes,
      ThreadTypes, PipeTypes, Wires, OpenWire, Mapped, Opened, HelperOnly
  <2>3. RunWire'
    BY <1>p, <1>a, <1>b, <1>c, <1>d, <1>e, Nothing DEF Control, Types, ContextTypes,
      ThreadTypes, PipeTypes, Wires, RunWire, Opened, HelperOnly
  <2>4. QuotaWire'
    BY <1>p, <1>a, <1>b, <1>c, <1>d, <1>e, Nothing DEF Control, Types, ContextTypes,
      ThreadTypes, PipeTypes, Wires, QuotaWire, Opened, HelperOnly
  <2>5. AskWire'
    BY <1>p, <1>a, <1>b, <1>c, <1>d, <1>e, Nothing DEF Control, Types, ContextTypes,
      ThreadTypes, PipeTypes, Wires, AskWire, Opened, HelperOnly
  <2>6. FinalWire'
    BY <1>p, <1>a, <1>b, <1>c, <1>d, <1>e, Nothing DEF Control, Types, ContextTypes,
      ThreadTypes, PipeTypes, Wires, FinalWire, FlusherOver, Opened, HelperOnly
  <2>7. ReportWire'
    BY <1>p, <1>a, <1>b, <1>c, <1>d, <1>e, Nothing DEF Control, Types, ContextTypes,
      ThreadTypes, PipeTypes, Wires, ReportWire, Opened, HelperOnly
  <2> QED
    BY <2>1, <2>2, <2>3, <2>4, <2>5, <2>6, <2>7 DEF Wires
<1>4. BossOK'
  BY <1>p, <1>a, <1>b, <1>c, <1>d, <1>e, Nothing DEF Control, Types, ThreadTypes, BossOK,
    Alive, Idle, FlusherOver, Download, Opened, HelperOnly
<1>5. ReaderOK'
  BY <1>p, <1>a, <1>b, <1>c, <1>d, <1>e, Nothing DEF Control, Types, ThreadTypes, PipeTypes,
    ReaderOK, Opening, FlusherOver, Download, Opened, HelperOnly
<1>6. FlagsOK'
  BY <1>p, <1>a, <1>b, <1>c, <1>d, <1>e, Nothing DEF Control, Types, ThreadTypes, FlagsOK,
    Started, Moves, Mapped, Opened, HelperOnly
<1>7. HelperOK'
  BY <1>p, <1>a, <1>b, <1>c, <1>d, <1>e, Nothing DEF Control, Types, ThreadTypes, HelperOK,
    Holding, Mapped, Download, Opened, HelperOnly
<1>8. DoneOK'
  BY <1>p, <1>a, <1>b, <1>c, <1>d, <1>e, Nothing DEF Control, Types, ThreadTypes, PipeTypes,
    DoneOK, Quiet, Alive, Idle, FlusherOver, Download, Opened, HelperOnly
<1> QED
  BY <1>1, <1>2, <1>3, <1>4, <1>5, <1>6, <1>7, <1>8 DEF Control

\* A unit is stored.
LEMMA StoreCtl == ASSUME Control, Store PROVE Control'
<1>p. /\ flusher \in Flushers /\ helper \in Helpers /\ toHelper \in Seq(HelperLines) /\ toApp \in Seq(AppLines)
      /\ inbox \in Seq(AppLines) /\ free \in Seq(RingSlot) /\ ready \in Seq(SlotLines) /\ lent \in 0..Slots
  BY DEF Control, Types, RingTypes, ThreadTypes, PipeTypes
<1>a. /\ helper.pc = "run" /\ helper.slot # None /\ helper.fill \in 0..SlotUnits /\ helper.fill # SlotUnits
      /\ helper.moved \in Nat
  BY <1>p, HelperFields DEF Store, Full
<1>b. helper.fill + 1 \in 0..SlotUnits /\ helper.moved + 1 \in Nat
  BY <1>a, RingAssumption
<1>c. Helping(helper', helper.pc, helper.slot, helper.fill + 1, helper.grants, helper.moved + 1, helper.ok, helper.asked)
  BY <1>p, <1>b, HelperTo, HelperFields DEF Store
<1>d. /\ helper' \in Helpers /\ helper'.pc = helper.pc /\ helper'.slot = helper.slot
      /\ helper'.grants = helper.grants /\ helper'.ok = helper.ok
  BY <1>c DEF Helping
<1>1. Types'
  BY <1>p, <1>a, <1>d DEF Control, Types, ContextTypes, RingTypes, FlagTypes, ThreadTypes,
    PipeTypes, Store, HelperOnly
<1>2. FlusherOK'
  BY <1>p, <1>a, <1>d DEF Control, Types, ContextTypes, RingTypes, FlagTypes, ThreadTypes,
    FlusherOK, Download, Store, HelperOnly
<1>3. Wires'
  BY <1>p, <1>a, <1>d DEF Control, Types, ContextTypes, ThreadTypes, PipeTypes, Wires,
    CommandWire, OpenWire, RunWire, QuotaWire, AskWire, FinalWire, ReportWire, GetState,
    Alive, Mapped, FlusherOver, Store, HelperOnly
<1>4. BossOK'
  BY <1>p, <1>a, <1>d DEF Control, Types, ThreadTypes, BossOK, Alive, Idle, FlusherOver,
    Download, Store, HelperOnly
<1>5. ReaderOK'
  BY <1>p, <1>a, <1>d DEF Control, Types, ThreadTypes, PipeTypes, ReaderOK, Opening,
    FlusherOver, Download, Store, HelperOnly
<1>6. FlagsOK'
  BY <1>p, <1>a, <1>d DEF Control, Types, ThreadTypes, FlagsOK, Started, Moves, Mapped, Store,
    HelperOnly
<1>7. HelperOK'
  BY <1>p, <1>a, <1>d DEF Control, Types, ThreadTypes, HelperOK, Holding, Mapped, Download,
    Store, HelperOnly
<1>8. DoneOK'
  BY <1>p, <1>a, <1>d DEF Control, Types, ThreadTypes, PipeTypes, DoneOK, Quiet, Alive, Idle,
    FlusherOver, Download, Store, HelperOnly
<1> QED
  BY <1>1, <1>2, <1>3, <1>4, <1>5, <1>6, <1>7, <1>8 DEF Control

\* A unit is sent.
LEMMA SendCtl == ASSUME Control, Send PROVE Control'
<1>p. /\ flusher \in Flushers /\ helper \in Helpers /\ toHelper \in Seq(HelperLines) /\ toApp \in Seq(AppLines)
      /\ inbox \in Seq(AppLines) /\ free \in Seq(RingSlot) /\ ready \in Seq(SlotLines) /\ lent \in 0..Slots
  BY DEF Control, Types, RingTypes, ThreadTypes, PipeTypes
<1>a. helper.pc = "run" /\ helper.fill \in 0..SlotUnits /\ helper.fill > 0 /\ helper.moved \in Nat
  BY <1>p, HelperFields DEF Send
<1>b. helper.fill - 1 \in 0..SlotUnits /\ helper.moved + 1 \in Nat
  BY <1>a, RingAssumption
<1>c. Helping(helper', helper.pc, helper.slot, helper.fill - 1, helper.grants, helper.moved + 1, helper.ok, helper.asked)
  BY <1>p, <1>b, HelperTo, HelperFields DEF Send
<1>d. /\ helper' \in Helpers /\ helper'.pc = helper.pc /\ helper'.slot = helper.slot
      /\ helper'.grants = helper.grants /\ helper'.ok = helper.ok
      /\ helper.slot # None
  BY <1>a, <1>c DEF Helping, Control, HelperOK
<1>1. Types'
  BY <1>p, <1>a, <1>d DEF Control, Types, ContextTypes, RingTypes, FlagTypes, ThreadTypes,
    PipeTypes, Send, HelperOnly
<1>2. FlusherOK'
  BY <1>p, <1>a, <1>d DEF Control, Types, ContextTypes, RingTypes, FlagTypes, ThreadTypes,
    FlusherOK, Download, Send, HelperOnly
<1>3. Wires'
  BY <1>p, <1>a, <1>d DEF Control, Types, ContextTypes, ThreadTypes, PipeTypes, Wires,
    CommandWire, OpenWire, RunWire, QuotaWire, AskWire, FinalWire, ReportWire, GetState,
    Alive, Mapped, FlusherOver, Send, HelperOnly
<1>4. BossOK'
  BY <1>p, <1>a, <1>d DEF Control, Types, ThreadTypes, BossOK, Alive, Idle, FlusherOver,
    Download, Send, HelperOnly
<1>5. ReaderOK'
  BY <1>p, <1>a, <1>d DEF Control, Types, ThreadTypes, PipeTypes, ReaderOK, Opening,
    FlusherOver, Download, Send, HelperOnly
<1>6. FlagsOK'
  BY <1>p, <1>a, <1>d DEF Control, Types, ThreadTypes, FlagsOK, Started, Moves, Mapped, Send,
    HelperOnly
<1>7. HelperOK'
  BY <1>p, <1>a, <1>d DEF Control, Types, ThreadTypes, HelperOK, Holding, Mapped, Download,
    Send, HelperOnly
<1>8. DoneOK'
  BY <1>p, <1>a, <1>d DEF Control, Types, ThreadTypes, PipeTypes, DoneOK, Quiet, Alive, Idle,
    FlusherOver, Download, Send, HelperOnly
<1> QED
  BY <1>1, <1>2, <1>3, <1>4, <1>5, <1>6, <1>7, <1>8 DEF Control

\* A grant is used.
LEMMA NextGrantCtl == ASSUME Control, NextGrant PROVE Control'
<1>p. /\ flusher \in Flushers /\ helper \in Helpers /\ toHelper \in Seq(HelperLines) /\ toApp \in Seq(AppLines)
      /\ inbox \in Seq(AppLines) /\ free \in Seq(RingSlot) /\ ready \in Seq(SlotLines) /\ lent \in 0..Slots
  BY DEF Control, Types, RingTypes, ThreadTypes, PipeTypes
<1>a. /\ helper.pc = "ask" /\ mode = "credit" /\ Head(helper.grants) \in RingSlot
      /\ Tail(helper.grants) \in Seq(RingSlot)
  BY <1>p, HelperFields, TailLines DEF NextGrant
<1>b. Helping(helper', "run", Head(helper.grants), 0, Tail(helper.grants), helper.moved, helper.ok, helper.asked)
  BY <1>p, <1>a, HelperTo, HelperFields, SlotFacts DEF NextGrant, HelperPlaces
<1>c. /\ helper' \in Helpers /\ helper'.pc = "run" /\ helper'.slot # None /\ helper'.ok = helper.ok
  BY <1>a, <1>b, SlotFacts DEF Helping
<1>1. Types'
  BY <1>p, <1>a, <1>c DEF Control, Types, ContextTypes, RingTypes, FlagTypes, ThreadTypes,
    PipeTypes, NextGrant, HelperOnly
<1>2. FlusherOK'
  BY <1>p, <1>a, <1>c DEF Control, Types, ContextTypes, RingTypes, FlagTypes, ThreadTypes,
    FlusherOK, Download, NextGrant, HelperOnly
<1>3. Wires'
  BY <1>p, <1>a, <1>c DEF Control, Types, ContextTypes, ThreadTypes, PipeTypes, Wires,
    CommandWire, OpenWire, RunWire, QuotaWire, AskWire, FinalWire, ReportWire, GetState,
    Alive, Mapped, FlusherOver, NextGrant, HelperOnly
<1>4. BossOK'
  BY <1>p, <1>a, <1>c DEF Control, Types, ThreadTypes, BossOK, Alive, Idle, FlusherOver,
    Download, NextGrant, HelperOnly
<1>5. ReaderOK'
  BY <1>p, <1>a, <1>c DEF Control, Types, ThreadTypes, PipeTypes, ReaderOK, Opening,
    FlusherOver, Download, NextGrant, HelperOnly
<1>6. FlagsOK'
  BY <1>p, <1>a, <1>c DEF Control, Types, ThreadTypes, FlagsOK, Started, Moves, Mapped,
    NextGrant, HelperOnly
<1>7. HelperOK'
  BY <1>p, <1>a, <1>c DEF Control, Types, ThreadTypes, HelperOK, Holding, Mapped, Download,
    NextGrant, HelperOnly
<1>8. DoneOK'
  BY <1>p, <1>a, <1>c DEF Control, Types, ThreadTypes, PipeTypes, DoneOK, Quiet, Alive, Idle,
    FlusherOver, Download, NextGrant, HelperOnly
<1> QED
  BY <1>1, <1>2, <1>3, <1>4, <1>5, <1>6, <1>7, <1>8 DEF Control

\* A transfer begins.
LEMMA CommandCtl == ASSUME Control, Command PROVE Control'
<1>p. /\ flusher \in Flushers /\ helper \in Helpers /\ toHelper \in Seq(HelperLines) /\ toApp \in Seq(AppLines)
      /\ inbox \in Seq(AppLines) /\ free \in Seq(RingSlot) /\ ready \in Seq(SlotLines) /\ lent \in 0..Slots
  BY DEF Control, Types, RingTypes, ThreadTypes, PipeTypes
<1>a. /\ toHelper' \in Seq(HelperLines) /\ Shrunk(toHelper, toHelper') /\ Head(toHelper) \in HelperLines
      /\ Head(toHelper).kind = "get" /\ Heads(toHelper, "get") /\ toHelper # <<>> /\ Has(toHelper, "get")
  BY <1>p, TakeShrinks DEF Command, Hears, Heads, Shrunk
<1>b. GetState /\ Alive /\ toHelper' = <<>>
  <2>1. Alive
    BY DEF Command, Alive
  <2>2. GetState
    BY <2>1, <1>a DEF Control, Wires, CommandWire
  <2> QED
    BY <2>1, <2>2, LoneLines DEF Command, Take, GetState
<1>c. PICK pc \in {"open", "report"} :
        /\ helper' \in Helpers /\ helper'.pc = pc
        /\ pc = "open" => /\ helper'.slot = None /\ helper'.fill = 0 /\ helper'.moved = 0
                          /\ Download => helper'.grants = <<>>
                          /\ toApp' = <<Line("open")>>
        /\ pc = "report" => helper'.slot = helper.slot /\ helper'.fill = helper.fill /\ ~helper'.ok /\ toApp' = <<>>
  <2>1. CASE Fails("report") /\ UNCHANGED toApp
    BY <2>1, <1>b, <1>p, Turned DEF Helping, HelperPlaces, GetState
  <2>2. CASE /\ helper' = [helper EXCEPT !.pc = "open", !.slot = None, !.fill = 0, !.moved = 0,
                                    !.ok = TRUE, !.asked = FALSE,
                                    !.grants = IF Download THEN <<>> ELSE @]
             /\ Tells(Line("open"))
    <3> DEFINE g == IF Download THEN <<>> ELSE helper.grants
    <3>1. g \in Seq(RingSlot)
      BY <1>p, HelperFields, EmptySeq
    <3>2. helper' = [helper EXCEPT !.pc = "open", !.slot = None, !.fill = 0, !.moved = 0,
                                    !.ok = TRUE, !.asked = FALSE, !.grants = g]
      BY <2>2, <1>p DEF Helpers
    <3> HIDE DEF g
    <3>3. Helping(helper', "open", None, 0, g, 0, TRUE, FALSE)
      BY <3>1, <3>2, <1>p, HelperTo, SlotFacts DEF HelperPlaces
    <3>4. toApp' = <<Line("open")>>
      <4>1. Line("open") \in AppLines
        BY SaidToApp
      <4> QED
        BY <4>1, <2>2, <1>p, <1>b, TellsGrows DEF Grown, GetState
    <3> QED
      BY <3>3, <3>4 DEF Helping, g
  <2> QED
    BY <2>1, <2>2 DEF Command
<1>d. toApp' \in Seq(AppLines) /\ \A m : Follows(toApp', m)
  <2>1. Line("open") \in AppLines
    BY SaidToApp
  <2>2. <<Line("open")>> \in Seq(AppLines)
    BY <2>1
  <2>3. \A m : Follows(<<Line("open")>>, m) /\ Follows(<<>>, m)
    BY OneLine, Nothing
  <2>4. toApp' \in {<<>>, <<Line("open")>>}
    BY <1>c
  <2> QED
    BY <2>2, <2>3, <2>4, EmptySeq
<1>e. ~Has(toApp', "done") /\ ~Has(toApp', "final") /\ ~Has(toApp', "quota") /\ ~Has(toApp', "next")
      /\ (pc = "report" => ~Has(toApp', "open"))
      /\ \A i \in 1..Len(toApp') : toApp'[i].kind = "open"
  BY <1>c, OneLine, Nothing, Said DEF Kinds
<1>1. Types'
  BY <1>p, <1>b, <1>c, <1>d, <1>e, Nothing, SlotFacts DEF Control, Types, ContextTypes,
    RingTypes, FlagTypes, ThreadTypes, PipeTypes, Command, HelperOnly
<1>2. FlusherOK'
  BY <1>p, <1>b, <1>c, <1>d, <1>e, Nothing, SlotFacts DEF Control, Types, ContextTypes,
    RingTypes, FlagTypes, ThreadTypes, FlusherOK, Download, Command, HelperOnly
<1>3. Wires'
  <2>1. CommandWire'
    BY <1>p, <1>b, <1>c, <1>d, <1>e, Nothing, SlotFacts DEF Control, Types, ContextTypes,
      ThreadTypes, PipeTypes, Wires, CommandWire, GetState, Alive, FlusherOver, Command,
      HelperOnly
  <2>2. OpenWire'
    BY <1>p, <1>b, <1>c, <1>d, <1>e, Nothing, SlotFacts DEF Control, Types, ContextTypes,
      ThreadTypes, PipeTypes, Wires, OpenWire, Mapped, Command, HelperOnly, GetState
  <2>3. RunWire'
    BY <1>p, <1>b, <1>c, <1>d, <1>e, Nothing, SlotFacts DEF Control, Types, ContextTypes,
      ThreadTypes, PipeTypes, Wires, RunWire, Command, HelperOnly, GetState
  <2>4. QuotaWire'
    BY <1>p, <1>b, <1>c, <1>d, <1>e, Nothing, SlotFacts DEF Control, Types, ContextTypes,
      ThreadTypes, PipeTypes, Wires, QuotaWire, Command, HelperOnly, GetState
  <2>5. AskWire'
    BY <1>p, <1>b, <1>c, <1>d, <1>e, Nothing, SlotFacts DEF Control, Types, ContextTypes,
      ThreadTypes, PipeTypes, Wires, AskWire, Command, HelperOnly, GetState
  <2>6. FinalWire'
    BY <1>p, <1>b, <1>c, <1>d, <1>e, Nothing, SlotFacts DEF Control, Types, ContextTypes,
      ThreadTypes, PipeTypes, Wires, FinalWire, FlusherOver, Command, HelperOnly, GetState
  <2>7. ReportWire'
    BY <1>p, <1>b, <1>c, <1>d, <1>e, Nothing, SlotFacts DEF Control, Types, ContextTypes,
      ThreadTypes, PipeTypes, Wires, ReportWire, Command, HelperOnly, GetState
  <2> QED
    BY <2>1, <2>2, <2>3, <2>4, <2>5, <2>6, <2>7 DEF Wires
<1>4. BossOK'
  BY <1>p, <1>b, <1>c, <1>d, <1>e, Nothing, SlotFacts DEF Control, Types, ThreadTypes, BossOK,
    Alive, Idle, FlusherOver, Download, Command, HelperOnly, GetState
<1>5. ReaderOK'
  BY <1>p, <1>b, <1>c, <1>d, <1>e, Nothing, SlotFacts DEF Control, Types, ThreadTypes,
    PipeTypes, ReaderOK, Opening, FlusherOver, Download, Command, HelperOnly, GetState
<1>6. FlagsOK'
  BY <1>p, <1>b, <1>c, <1>d, <1>e, Nothing, SlotFacts DEF Control, Types, ThreadTypes,
    FlagsOK, Started, Moves, Mapped, Command, HelperOnly, GetState
<1>7. HelperOK'
  BY <1>p, <1>b, <1>c, <1>d, <1>e, Nothing, SlotFacts DEF Control, Types, ThreadTypes,
    HelperOK, Holding, Mapped, Download, Command, HelperOnly, GetState
<1>8. DoneOK'
  BY <1>p, <1>b, <1>c, <1>d, <1>e, Nothing, SlotFacts DEF Control, Types, ThreadTypes,
    PipeTypes, DoneOK, Quiet, Alive, Idle, FlusherOver, Download, Command, HelperOnly,
    GetState
<1> QED
  BY <1>1, <1>2, <1>3, <1>4, <1>5, <1>6, <1>7, <1>8 DEF Control

\* The next slot is asked for.
LEMMA AskCtl == ASSUME Control, Ask PROVE Control'
<1>p. /\ flusher \in Flushers /\ helper \in Helpers /\ toHelper \in Seq(HelperLines) /\ toApp \in Seq(AppLines)
      /\ inbox \in Seq(AppLines) /\ free \in Seq(RingSlot) /\ ready \in Seq(SlotLines) /\ lent \in 0..Slots
  BY DEF Control, Types, RingTypes, ThreadTypes, PipeTypes
<1>a. SlotLine("next", helper.slot, helper.fill) \in AppLines
  BY <1>p, HelperFields, SaidToApp DEF Control, HelperOK
<1>b. \/ mode = "credit" /\ helper.slot = None /\ UNCHANGED toApp
      \/ Tells(SlotLine("next", helper.slot, helper.fill))
  BY DEF Ask
<1>c. /\ toApp' \in Seq(AppLines)
      /\ \/ mode = "credit" /\ toApp' = toApp
         \/ /\ Grown(toApp, SlotLine("next", helper.slot, helper.fill), toApp')
            /\ toApp' = Append(toApp, SlotLine("next", helper.slot, helper.fill))
  BY <1>p, <1>a, <1>b, TellsGrows
<1>d. /\ helper' \in Helpers /\ helper'.pc = "ask" /\ helper'.slot = helper.slot /\ helper'.fill = helper.fill
      /\ helper'.grants = helper.grants /\ helper'.moved = helper.moved
      /\ helper.pc = "run" /\ reader = "read" /\ Kinds(toApp, NextOf(mode)) /\ Kinds(toHelper, IoOf(mode))
      /\ mode # "credit" => toApp = <<>> /\ toHelper = <<>> /\ helper.slot = lent
      /\ ~Download => helper.fill = 0
  <2>1. Helping(helper', "ask", helper.slot, helper.fill, helper.grants, helper.moved, helper.ok, helper.asked)
    BY <1>p, Turned DEF Ask, HelperPlaces
  <2>2. helper.pc = "run" /\ reader = "read" /\ Kinds(toApp, NextOf(mode)) /\ Kinds(toHelper, IoOf(mode))
    BY DEF Ask, Control, Wires, RunWire
  <2>3. mode # "credit" => toApp = <<>> /\ toHelper = <<>> /\ helper.slot = lent
    BY <2>2, <1>p, OnlyLines DEF NextOf, IoOf, Control, HelperOK, Holding
  <2> QED
    BY <2>1, <2>2, <2>3 DEF Helping, Ask
<1>e. /\ Kinds(toApp', NextOf(mode)) \/ mode # "credit"
      /\ Follows(toApp', mode)
      /\ mode # "credit" => toApp' = <<SlotLine("next", helper.slot, helper.fill)>>
  <2>1. mode # "credit" => toApp' = <<SlotLine("next", helper.slot, helper.fill)>>
    BY <1>c, <1>d DEF Grown
  <2>2. mode = "credit" => Kinds(toApp', NextOf(mode))
    BY <1>c, <1>d, Said DEF Grown, NextOf
  <2>3. Follows(toApp, mode)
    BY DEF Control, ReaderOK
  <2>4. mode = "credit" => Kinds(toApp, {"next"})
    BY <1>d DEF NextOf
  <2>5. CASE toApp' = toApp
    BY <2>1, <2>2, <2>3, <2>5
  <2>6. CASE toApp' = Append(toApp, SlotLine("next", helper.slot, helper.fill))
    <3>1. SlotLine("next", helper.slot, helper.fill).kind = "next" /\ (toApp = <<>> \/ mode = "credit")
      BY <1>d, Said
    <3>2. Follows(Append(toApp, SlotLine("next", helper.slot, helper.fill)), mode)
      BY <1>p, <1>a, <3>1, <2>3, <2>4, FollowsAppend
    <3> QED
      BY <2>1, <2>2, <2>6, <3>2
  <2> QED
    BY <1>c, <2>5, <2>6
<1>f. (\A k : Has(toApp', k) => k = "next") /\ \A i \in 1..Len(toApp') : toApp'[i].kind = "next"
  <2>1. Kinds(toApp', {"next"})
    BY <1>d, <1>e, Said, OneLine DEF NextOf
  <2> QED
    BY <2>1 DEF Kinds, Has
<1>g. inbox = <<>> /\ boss.outcome = "none" /\ inbox' = inbox /\ boss' = boss
  BY <1>d DEF Control, BossOK, Idle, Ask, HelperOnly
<1>1. Types'
  BY <1>p, <1>c, <1>d, <1>e, <1>f DEF Control, Types, ContextTypes, RingTypes, FlagTypes,
    ThreadTypes, PipeTypes, Ask, HelperOnly
<1>2. FlusherOK'
  BY <1>p, <1>c, <1>d, <1>e, <1>f DEF Control, Types, ContextTypes, RingTypes, FlagTypes,
    ThreadTypes, FlusherOK, Download, Ask, HelperOnly
<1>3. Wires'
  <2>1. CommandWire'
    BY <1>p, <1>c, <1>d, <1>e, <1>f DEF Control, Types, ContextTypes, ThreadTypes,
      PipeTypes, Wires, CommandWire, GetState, Alive, FlusherOver, Ask, HelperOnly
  <2>2. OpenWire'
    BY <1>p, <1>c, <1>d, <1>e, <1>f DEF Control, Types, ContextTypes, ThreadTypes,
      PipeTypes, Wires, OpenWire, Mapped, Ask, HelperOnly
  <2>3. RunWire'
    BY <1>p, <1>c, <1>d, <1>e, <1>f DEF Control, Types, ContextTypes, ThreadTypes,
      PipeTypes, Wires, RunWire, Ask, HelperOnly
  <2>4. QuotaWire'
    BY <1>p, <1>c, <1>d, <1>e, <1>f DEF Control, Types, ContextTypes, ThreadTypes,
      PipeTypes, Wires, QuotaWire, Ask, HelperOnly
  <2>5. AskWire'
    BY <1>p, <1>c, <1>d, <1>e, <1>f DEF Control, Types, ContextTypes, ThreadTypes,
      PipeTypes, Wires, AskWire, Ask, HelperOnly
  <2>6. FinalWire'
    BY <1>p, <1>c, <1>d, <1>e, <1>f DEF Control, Types, ContextTypes, ThreadTypes,
      PipeTypes, Wires, FinalWire, FlusherOver, Ask, HelperOnly
  <2>7. ReportWire'
    BY <1>p, <1>c, <1>d, <1>e, <1>f DEF Control, Types, ContextTypes, ThreadTypes,
      PipeTypes, Wires, ReportWire, Ask, HelperOnly
  <2> QED
    BY <2>1, <2>2, <2>3, <2>4, <2>5, <2>6, <2>7 DEF Wires
<1>4. BossOK'
  BY <1>p, <1>c, <1>d, <1>e, <1>f DEF Control, Types, ThreadTypes, BossOK, Alive, Idle,
    FlusherOver, Download, Ask, HelperOnly
<1>5. ReaderOK'
  BY <1>p, <1>c, <1>d, <1>e, <1>f, OneLine, Said DEF Control, Types, ThreadTypes, PipeTypes,
    ReaderOK, Opening, FlusherOver, Download, Ask, HelperOnly
<1>6. FlagsOK'
  BY <1>p, <1>c, <1>d, <1>e, <1>f DEF Control, Types, ThreadTypes, FlagsOK, Started, Moves,
    Mapped, Ask, HelperOnly
<1>7. HelperOK'
  BY <1>p, <1>c, <1>d, <1>e, <1>f DEF Control, Types, ThreadTypes, HelperOK, Holding, Mapped,
    Download, Ask, HelperOnly
<1>8. DoneOK'
  BY <1>d, <1>f, <1>g DEF DoneOK, Idle
<1> QED
  BY <1>1, <1>2, <1>3, <1>4, <1>5, <1>6, <1>7, <1>8 DEF Control

\* The helper gets a slot.
LEMMA NextLentCtl == ASSUME Control, NextLent PROVE Control'
<1>p. /\ flusher \in Flushers /\ helper \in Helpers /\ toHelper \in Seq(HelperLines) /\ toApp \in Seq(AppLines)
      /\ inbox \in Seq(AppLines) /\ free \in Seq(RingSlot) /\ ready \in Seq(SlotLines) /\ lent \in 0..Slots
  BY DEF Control, Types, RingTypes, ThreadTypes, PipeTypes
<1>a. /\ toHelper' \in Seq(HelperLines) /\ Shrunk(toHelper, toHelper') /\ Head(toHelper) \in HelperLines
      /\ Head(toHelper).kind = "slot" /\ Heads(toHelper, "slot") /\ toHelper # <<>> /\ Has(toHelper, "slot")
  BY <1>p, TakeShrinks DEF NextLent, Hears, Heads, Shrunk
<1>b. /\ helper.pc = "ask" /\ mode # "credit" /\ reader = "read" /\ toApp = <<>> /\ lent # None
      /\ Head(toHelper).slot = lent /\ Head(toHelper).n \in 1..SlotUnits /\ toHelper' = <<>>
  <2>1. helper.pc = "ask" /\ mode # "credit" /\ toHelper' = Tail(toHelper)
    BY DEF NextLent, Take
  <2>2. /\ reader = "read" /\ toApp = <<>> /\ lent # None
        /\ \E n \in 1..SlotUnits : toHelper = <<SlotLine("slot", lent, n)>>
    BY <1>a, <2>1, LoneLines, Said DEF Control, Wires, AskWire, Heads
  <2>3. PICK n \in 1..SlotUnits : toHelper = <<SlotLine("slot", lent, n)>>
    BY <2>2
  <2>4. Head(toHelper) = SlotLine("slot", lent, n) /\ Tail(toHelper) = <<>>
    BY <2>3, LoneLines
  <2> QED
    BY <2>1, <2>2, <2>4, Said
<1>c. PICK fill \in 0..SlotUnits :
        /\ Helping(helper', "run", lent, fill, helper.grants, helper.moved, helper.ok, helper.asked)
        /\ Download => fill = 0
  <2> DEFINE fill == IF Download THEN 0 ELSE Head(toHelper).n
  <2>1. fill \in 0..SlotUnits
    BY <1>b, SlotFacts
  <2>2. helper' = [helper EXCEPT !.pc = "run", !.slot = lent, !.fill = fill]
    BY <1>b DEF NextLent
  <2> HIDE DEF fill
  <2>3. Helping(helper', "run", lent, fill, helper.grants, helper.moved, helper.ok, helper.asked)
    BY <2>1, <2>2, <1>p, HelperTo, HelperFields DEF HelperPlaces
  <2>4. Download => fill = 0
    BY DEF fill
  <2> QED
    BY <2>1, <2>3, <2>4
<1>d. /\ helper' \in Helpers /\ helper'.pc = "run" /\ helper'.slot = lent
      /\ helper'.grants = helper.grants /\ helper'.ok = helper.ok
  BY <1>c DEF Helping
<1>1. Types'
  BY <1>p, <1>b, <1>d, Nothing DEF Control, Types, ContextTypes, RingTypes, FlagTypes,
    ThreadTypes, PipeTypes, NextLent, HelperOnly
<1>2. FlusherOK'
  BY <1>p, <1>b, <1>d, Nothing DEF Control, Types, ContextTypes, RingTypes, FlagTypes,
    ThreadTypes, FlusherOK, Download, NextLent, HelperOnly
<1>3. Wires'
  <2>1. CommandWire'
    BY <1>p, <1>b, <1>d, Nothing DEF Control, Types, ContextTypes, ThreadTypes, PipeTypes,
      Wires, CommandWire, GetState, Alive, FlusherOver, NextLent, HelperOnly
  <2>2. OpenWire'
    BY <1>p, <1>b, <1>d, Nothing DEF Control, Types, ContextTypes, ThreadTypes, PipeTypes,
      Wires, OpenWire, Mapped, NextLent, HelperOnly
  <2>3. RunWire'
    BY <1>p, <1>b, <1>d, Nothing DEF Control, Types, ContextTypes, ThreadTypes, PipeTypes,
      Wires, RunWire, NextLent, HelperOnly
  <2>4. QuotaWire'
    BY <1>p, <1>b, <1>d, Nothing DEF Control, Types, ContextTypes, ThreadTypes, PipeTypes,
      Wires, QuotaWire, NextLent, HelperOnly
  <2>5. AskWire'
    BY <1>p, <1>b, <1>d, Nothing DEF Control, Types, ContextTypes, ThreadTypes, PipeTypes,
      Wires, AskWire, NextLent, HelperOnly
  <2>6. FinalWire'
    BY <1>p, <1>b, <1>d, Nothing DEF Control, Types, ContextTypes, ThreadTypes, PipeTypes,
      Wires, FinalWire, FlusherOver, NextLent, HelperOnly
  <2>7. ReportWire'
    BY <1>p, <1>b, <1>d, Nothing DEF Control, Types, ContextTypes, ThreadTypes, PipeTypes,
      Wires, ReportWire, NextLent, HelperOnly
  <2> QED
    BY <2>1, <2>2, <2>3, <2>4, <2>5, <2>6, <2>7 DEF Wires
<1>4. BossOK'
  BY <1>p, <1>b, <1>d, Nothing DEF Control, Types, ThreadTypes, BossOK, Alive, Idle,
    FlusherOver, Download, NextLent, HelperOnly
<1>5. ReaderOK'
  BY <1>p, <1>b, <1>d, Nothing DEF Control, Types, ThreadTypes, PipeTypes, ReaderOK, Opening,
    FlusherOver, Download, NextLent, HelperOnly
<1>6. FlagsOK'
  BY <1>p, <1>b, <1>d, Nothing DEF Control, Types, ThreadTypes, FlagsOK, Started, Moves,
    Mapped, NextLent, HelperOnly
<1>7. HelperOK'
  BY <1>p, <1>b, <1>d, Nothing DEF Control, Types, ThreadTypes, HelperOK, Holding, Mapped,
    Download, NextLent, HelperOnly
<1>8. DoneOK'
  BY <1>p, <1>b, <1>d, Nothing DEF Control, Types, ThreadTypes, PipeTypes, DoneOK, Quiet,
    Alive, Idle, FlusherOver, Download, NextLent, HelperOnly
<1> QED
  BY <1>1, <1>2, <1>3, <1>4, <1>5, <1>6, <1>7, <1>8 DEF Control

\* The helper gets no slot.
LEMMA NextNoneCtl == ASSUME Control, NextNone PROVE Control'
<1>p. /\ flusher \in Flushers /\ helper \in Helpers /\ toHelper \in Seq(HelperLines) /\ toApp \in Seq(AppLines)
      /\ inbox \in Seq(AppLines) /\ free \in Seq(RingSlot) /\ ready \in Seq(SlotLines) /\ lent \in 0..Slots
  BY DEF Control, Types, RingTypes, ThreadTypes, PipeTypes
<1>a. PICK k \in {"eof", "error"} :
        /\ Hears(k) /\ Take
        /\ k = "eof" => Turn("report")
        /\ k = "error" => Fails("report")
  BY DEF NextNone
<1>b. /\ toHelper' \in Seq(HelperLines) /\ Shrunk(toHelper, toHelper') /\ Heads(toHelper, k) /\ toHelper # <<>>
      /\ Has(toHelper, k) /\ toHelper' = Tail(toHelper) /\ Head(toHelper).kind = k
  BY <1>a, <1>p, TakeShrinks DEF Hears, Heads, Take, Shrunk
<1>c. /\ toHelper' \in Seq(HelperLines)
      /\ helper' \in Helpers /\ helper'.pc = "report" /\ helper'.slot = helper.slot /\ helper'.fill = helper.fill
      /\ helper'.grants = helper.grants /\ helper'.moved = helper.moved
      /\ k = "error" => ~helper'.ok
  BY <1>p, <1>a, <1>b, Turned DEF Helping, HelperPlaces
<1>d. /\ helper.pc = "ask" /\ reader = "read"
      /\ mode # "credit" => toApp = <<>> /\ toHelper' = <<>>
      /\ mode = "credit" => Kinds(toApp, {"next"}) /\ Kinds(toHelper', IoOf(mode)) /\ Kinds(toHelper, IoOf(mode))
      /\ k = "eof" => mode = "upload"
  <2>1. helper.pc = "ask"
    BY DEF NextNone
  <2>2. CASE mode = "credit"
    <3>1. reader = "read" /\ Kinds(toApp, {"next"}) /\ Kinds(toHelper, {"grant", "error"})
      BY <2>1, <2>2 DEF Control, Wires, RunWire, NextOf, IoOf
    <3>2. k # "eof" /\ Kinds(toHelper', {"grant", "error"})
      BY <3>1, <1>b DEF Shrunk
    <3> QED
      BY <2>1, <2>2, <3>1, <3>2 DEF IoOf
  <2>3. CASE mode # "credit"
    <3>1. \/ toHelper = <<Line("error")>>
          \/ toHelper = <<Line("eof")>> /\ mode = "upload"
      BY <2>1, <2>3, <1>b, LoneLines, Said DEF Control, Wires, AskWire, Heads
    <3>2. reader = "read" /\ toApp = <<>>
      BY <2>1, <2>3, <1>b, LoneLines, Said DEF Control, Wires, AskWire, Heads
    <3>3. toHelper' = <<>> /\ (k = "eof" => mode = "upload")
      BY <3>1, <1>b, LoneLines, Said
    <3> QED
      BY <2>1, <2>3, <3>2, <3>3
  <2> QED
    BY <2>2, <2>3
<1>e. ~Has(toHelper', "get") /\ ~Has(toApp, "final") /\ ~Has(toApp, "done") /\ ~Has(toApp, "quota")
      /\ ~Has(toApp, "open") /\ (mode # "credit" => ~Has(toApp, "next"))
      /\ Kinds(toApp, {"next", "final"})
      /\ \A i \in 1..Len(toApp) : toApp[i].kind # "done"
  BY <1>p, <1>b, <1>d, OnlyLines, Nothing DEF IoOf, Kinds, Has
<1>f. inbox = <<>> /\ boss.outcome = "none"
  BY <1>d DEF Control, BossOK, Idle
<1>g. helper'.ok => mode = "upload" /\ toHelper' = <<>> /\ toApp = <<>> /\ reader = "read"
  BY <1>c, <1>d
<1>h. UNCHANGED <<contextVars, ringState, flagVars, flusher, reader, boss, inbox, starts, toApp, memory, landed, mishaps>>
  BY DEF NextNone, HelperOnly
<1>1. Types'
  <2>1. FlagTypes'
    BY <1>h DEF Control, Types, FlagTypes
  <2> QED
    BY <1>p, <1>c, <1>d, <1>e, <1>f, <1>g, <1>h, <2>1 DEF Control, Types, ContextTypes,
      RingTypes, ThreadTypes, PipeTypes, NextNone, HelperOnly
<1>2. FlusherOK'
  BY <1>p, <1>c, <1>d, <1>e, <1>f, <1>g, <1>h DEF Control, Types, ContextTypes, RingTypes,
    FlagTypes, ThreadTypes, FlusherOK, Download, NextNone, HelperOnly
<1>3. Wires'
  <2>1. CommandWire'
    BY <1>p, <1>c, <1>d, <1>e, <1>f, <1>g, <1>h DEF Control, Types, ContextTypes,
      ThreadTypes, PipeTypes, Wires, CommandWire, GetState, Alive, FlusherOver, NextNone,
      HelperOnly
  <2>2. OpenWire'
    BY <1>p, <1>c, <1>d, <1>e, <1>f, <1>g, <1>h DEF Control, Types, ContextTypes,
      ThreadTypes, PipeTypes, Wires, OpenWire, Mapped, NextNone, HelperOnly
  <2>3. RunWire'
    BY <1>p, <1>c, <1>d, <1>e, <1>f, <1>g, <1>h DEF Control, Types, ContextTypes,
      ThreadTypes, PipeTypes, Wires, RunWire, NextNone, HelperOnly
  <2>4. QuotaWire'
    BY <1>p, <1>c, <1>d, <1>e, <1>f, <1>g, <1>h DEF Control, Types, ContextTypes,
      ThreadTypes, PipeTypes, Wires, QuotaWire, NextNone, HelperOnly
  <2>5. AskWire'
    BY <1>p, <1>c, <1>d, <1>e, <1>f, <1>g, <1>h DEF Control, Types, ContextTypes,
      ThreadTypes, PipeTypes, Wires, AskWire, NextNone, HelperOnly
  <2>6. FinalWire'
    BY <1>p, <1>c, <1>d, <1>e, <1>f, <1>g, <1>h DEF Control, Types, ContextTypes,
      ThreadTypes, PipeTypes, Wires, FinalWire, FlusherOver, NextNone, HelperOnly
  <2>7. ReportWire'
    BY <1>p, <1>c, <1>d, <1>e, <1>f, <1>g, <1>h DEF Control, Types, ContextTypes,
      ThreadTypes, PipeTypes, Wires, ReportWire, NextNone, HelperOnly
  <2> QED
    BY <2>1, <2>2, <2>3, <2>4, <2>5, <2>6, <2>7 DEF Wires
<1>4. BossOK'
  BY <1>p, <1>c, <1>d, <1>e, <1>f, <1>g, <1>h DEF Control, Types, ThreadTypes, BossOK, Alive,
    Idle, FlusherOver, Download, NextNone, HelperOnly
<1>5. ReaderOK'
  BY <1>p, <1>c, <1>d, <1>e, <1>f, <1>g, <1>h DEF Control, Types, ThreadTypes, PipeTypes,
    ReaderOK, Opening, FlusherOver, Download, NextNone, HelperOnly
<1>6. FlagsOK'
  BY <1>p, <1>c, <1>d, <1>e, <1>f, <1>g, <1>h DEF Control, Types, ThreadTypes, FlagsOK,
    Started, Moves, Mapped, NextNone, HelperOnly
<1>7. HelperOK'
  BY <1>p, <1>c, <1>d, <1>e, <1>f, <1>g, <1>h DEF Control, Types, ThreadTypes, HelperOK,
    Holding, Mapped, Download, NextNone, HelperOnly
<1>8. DoneOK'
  BY <1>p, <1>c, <1>d, <1>e, <1>f, <1>g, <1>h DEF Control, Types, ThreadTypes, PipeTypes,
    DoneOK, Quiet, Alive, Idle, FlusherOver, Download, NextNone, HelperOnly
<1> QED
  BY <1>1, <1>2, <1>3, <1>4, <1>5, <1>6, <1>7, <1>8 DEF Control

\* The helper gets the verdict.
LEMMA FinalizedCtl == ASSUME Control, Finalized PROVE Control'
<1>p. /\ flusher \in Flushers /\ helper \in Helpers /\ toHelper \in Seq(HelperLines) /\ toApp \in Seq(AppLines)
      /\ inbox \in Seq(AppLines) /\ free \in Seq(RingSlot) /\ ready \in Seq(SlotLines) /\ lent \in 0..Slots
  BY DEF Control, Types, RingTypes, ThreadTypes, PipeTypes
<1>a. PICK k \in {"kept", "lost", "error"} :
        /\ Hears(k) /\ Take
        /\ k = "kept" => Turn("report")
        /\ k # "kept" => Fails("report")
  BY DEF Finalized
<1>b. /\ toHelper' \in Seq(HelperLines) /\ Shrunk(toHelper, toHelper') /\ Heads(toHelper, k) /\ toHelper # <<>>
      /\ Has(toHelper, k) /\ toHelper' = Tail(toHelper) /\ Head(toHelper).kind = k
  BY <1>a, <1>p, TakeShrinks DEF Hears, Heads, Take, Shrunk
<1>c. /\ toHelper' \in Seq(HelperLines)
      /\ helper' \in Helpers /\ helper'.pc = "report" /\ helper'.slot = helper.slot /\ helper'.fill = helper.fill
      /\ helper'.grants = helper.grants /\ helper'.moved = helper.moved
      /\ k # "kept" => ~helper'.ok
  BY <1>p, <1>a, <1>b, Turned DEF Helping, HelperPlaces
<1>d. /\ helper.pc = "final" /\ Download
      /\ \/ /\ reader = "read" /\ Ends(toApp, NextOf(mode), {"final"}) /\ Kinds(toHelper, IoOf(mode))
         \/ reader = "final" /\ toApp = <<>> /\ Kinds(toHelper, IoOf(mode)) /\ final
         \/ /\ reader = "read" /\ toApp = <<>> /\ FlusherOver /\ final
            /\ Ends(toHelper, IoOf(mode), {"kept", "lost"})
  BY DEF Finalized, Control, Wires, FinalWire, Download
<1>e. /\ ~Has(toHelper', "get") /\ ~Has(toApp, "done") /\ ~Has(toApp, "quota") /\ ~Has(toApp, "open")
      /\ ~Has(toApp, "next") \/ mode = "credit"
  <2>1. ~Has(toHelper, "get")
    <3>1. "get" \notin IoOf(mode) /\ "get" \notin {"kept", "lost"}
      BY DEF IoOf
    <3>2. Kinds(toHelper, IoOf(mode)) \/ Ends(toHelper, IoOf(mode), {"kept", "lost"})
      BY <1>d
    <3> QED
      BY <3>1, <3>2, <1>p, OnlyLines
  <2>2. ~Has(toApp, "done") /\ ~Has(toApp, "quota") /\ ~Has(toApp, "open") /\ (~Has(toApp, "next") \/ mode = "credit")
    BY <1>p, <1>d, OnlyLines, Nothing DEF NextOf
  <2> QED
    BY <2>1, <2>2, <1>b DEF Shrunk
<1>f. inbox = <<>> /\ boss.outcome = "none" /\ boss.pc \in {"wait", "kill"}
  BY <1>d DEF Control, BossOK, Idle
<1>g. k = "kept" => toHelper' = <<>> /\ toApp = <<>> /\ reader = "read" /\ FlusherOver
  <2>1. k = "kept" => "kept" \notin IoOf(mode)
    BY DEF IoOf
  <2>2. k = "kept" => ~Kinds(toHelper, IoOf(mode))
    BY <2>1, <1>b DEF Shrunk
  <2>3. k = "kept" => toApp = <<>> /\ reader = "read" /\ FlusherOver /\ Ends(toHelper, IoOf(mode), {"kept", "lost"})
    BY <2>2, <1>d
  <2>4. ASSUME k = "kept" PROVE toHelper' = <<>>
    <3>1. Ends(toHelper, IoOf(mode), {"kept", "lost"}) /\ "kept" \notin IoOf(mode)
      BY <2>1, <2>3, <2>4
    <3> QED
      BY <3>1, <1>b, <2>4 DEF Shrunk
  <2> QED
    BY <2>3, <2>4
<1>h. UNCHANGED <<contextVars, ringState, flagVars, flusher, reader, boss, inbox, starts, toApp, memory, landed, mishaps>>
  BY DEF Finalized, HelperOnly
<1>i. /\ Kinds(toApp, {"next", "final"}) /\ (mode # "credit" => toApp = <<>> \/ reader = "read")
      /\ \A j \in 1..Len(toApp) : toApp[j].kind # "done"
  <2>1. CASE toApp = <<>>
    BY <2>1, Nothing
  <2>2. CASE Ends(toApp, NextOf(mode), {"final"}) /\ reader = "read"
    <3>1. \A j \in 1..Len(toApp) : j = Len(toApp) \/ j \in 1..Len(toApp) - 1
      BY <1>p
    <3>2. \A j \in 1..Len(toApp) : toApp[j].kind \in {"next", "final"}
      BY <3>1, <2>2 DEF Ends, NextOf
    <3> QED
      BY <3>2, <2>2 DEF Kinds
  <2> QED
    BY <2>1, <2>2, <1>d
<1>j. mode # "credit" => toApp = <<>>
  <2>1. mode # "credit" /\ Kinds(toHelper, IoOf(mode)) => toHelper = <<>>
    BY <1>p, OnlyLines DEF IoOf
  <2> QED
    BY <2>1, <1>b, <1>d
<1>1. Types'
  <2>1. FlagTypes'
    BY <1>h DEF Control, Types, FlagTypes
  <2> QED
    BY <1>p, <1>c, <1>d, <1>e, <1>f, <1>g, <1>h, <1>i, <1>j, <2>1 DEF Control, Types,
      ContextTypes, RingTypes, ThreadTypes, PipeTypes, Finalized, HelperOnly
<1>2. FlusherOK'
  BY <1>p, <1>c, <1>d, <1>e, <1>f, <1>g, <1>h, <1>i, <1>j DEF Control, Types, ContextTypes,
    RingTypes, FlagTypes, ThreadTypes, FlusherOK, Download, Finalized, HelperOnly
<1>3. Wires'
  <2>1. CommandWire'
    BY <1>p, <1>c, <1>d, <1>e, <1>f, <1>g, <1>h, <1>i, <1>j DEF Control, Types,
      ContextTypes, ThreadTypes, PipeTypes, Wires, CommandWire, GetState, Alive,
      FlusherOver, Finalized, HelperOnly
  <2>2. OpenWire'
    BY <1>p, <1>c, <1>d, <1>e, <1>f, <1>g, <1>h, <1>i, <1>j DEF Control, Types,
      ContextTypes, ThreadTypes, PipeTypes, Wires, OpenWire, Mapped, Finalized, HelperOnly
  <2>3. RunWire'
    BY <1>p, <1>c, <1>d, <1>e, <1>f, <1>g, <1>h, <1>i, <1>j DEF Control, Types,
      ContextTypes, ThreadTypes, PipeTypes, Wires, RunWire, Finalized, HelperOnly
  <2>4. QuotaWire'
    BY <1>p, <1>c, <1>d, <1>e, <1>f, <1>g, <1>h, <1>i, <1>j DEF Control, Types,
      ContextTypes, ThreadTypes, PipeTypes, Wires, QuotaWire, Finalized, HelperOnly
  <2>5. AskWire'
    BY <1>p, <1>c, <1>d, <1>e, <1>f, <1>g, <1>h, <1>i, <1>j DEF Control, Types,
      ContextTypes, ThreadTypes, PipeTypes, Wires, AskWire, Finalized, HelperOnly
  <2>6. FinalWire'
    BY <1>p, <1>c, <1>d, <1>e, <1>f, <1>g, <1>h, <1>i, <1>j DEF Control, Types,
      ContextTypes, ThreadTypes, PipeTypes, Wires, FinalWire, FlusherOver, Finalized,
      HelperOnly
  <2>7. ReportWire'
    BY <1>p, <1>c, <1>d, <1>e, <1>f, <1>g, <1>h, <1>i, <1>j DEF Control, Types,
      ContextTypes, ThreadTypes, PipeTypes, Wires, ReportWire, Finalized, HelperOnly
  <2> QED
    BY <2>1, <2>2, <2>3, <2>4, <2>5, <2>6, <2>7 DEF Wires
<1>4. BossOK'
  BY <1>p, <1>c, <1>d, <1>e, <1>f, <1>g, <1>h, <1>i, <1>j DEF Control, Types, ThreadTypes,
    BossOK, Alive, Idle, FlusherOver, Download, Finalized, HelperOnly
<1>5. ReaderOK'
  BY <1>p, <1>c, <1>d, <1>e, <1>f, <1>g, <1>h, <1>i, <1>j DEF Control, Types, ThreadTypes,
    PipeTypes, ReaderOK, Opening, FlusherOver, Download, Finalized, HelperOnly
<1>6. FlagsOK'
  BY <1>p, <1>c, <1>d, <1>e, <1>f, <1>g, <1>h, <1>i, <1>j DEF Control, Types, ThreadTypes,
    FlagsOK, Started, Moves, Mapped, Finalized, HelperOnly
<1>7. HelperOK'
  BY <1>p, <1>c, <1>d, <1>e, <1>f, <1>g, <1>h, <1>i, <1>j DEF Control, Types, ThreadTypes,
    HelperOK, Holding, Mapped, Download, Finalized, HelperOnly
<1>8. DoneOK'
  BY <1>p, <1>c, <1>d, <1>e, <1>f, <1>g, <1>h, <1>i, <1>j DEF Control, Types, ThreadTypes,
    PipeTypes, DoneOK, Quiet, Alive, Idle, FlusherOver, Download, Finalized, HelperOnly
<1> QED
  BY <1>1, <1>2, <1>3, <1>4, <1>5, <1>6, <1>7, <1>8 DEF Control

\* Quota is asked for.
LEMMA QuotaAskCtl == ASSUME Control, /\ helper.pc = "run" /\ Tells(Line("quota"))
         /\ helper' = [helper EXCEPT !.pc = "quota", !.asked = TRUE]
         /\ UNCHANGED <<toHelper, contextVars, ringState, flagVars, flusher, reader, boss, inbox, starts, memory, landed, mishaps>> PROVE Control'
<1>p. /\ flusher \in Flushers /\ helper \in Helpers /\ toHelper \in Seq(HelperLines) /\ toApp \in Seq(AppLines)
      /\ inbox \in Seq(AppLines) /\ free \in Seq(RingSlot) /\ ready \in Seq(SlotLines) /\ lent \in 0..Slots
  BY DEF Control, Types, RingTypes, ThreadTypes, PipeTypes
<1>a. Line("quota") \in AppLines /\ Line("quota").kind = "quota"
  BY SaidToApp, Said
<1>b. toApp' \in Seq(AppLines) /\ Grown(toApp, Line("quota"), toApp') /\ toApp' = Append(toApp, Line("quota"))
  BY <1>p, <1>a, TellsGrows
<1>c. /\ helper' \in Helpers /\ helper'.pc = "quota" /\ helper'.slot = helper.slot /\ helper'.fill = helper.fill
      /\ helper'.grants = helper.grants /\ helper'.moved = helper.moved
  <2>1. Helping(helper', "quota", helper.slot, helper.fill, helper.grants, helper.moved, helper.ok, TRUE)
    BY <1>p, HelperTo, HelperFields DEF HelperPlaces
  <2> QED
    BY <2>1 DEF Helping
<1>d. /\ helper.pc = "run" /\ reader = "read" /\ Kinds(toApp, NextOf(mode)) /\ Kinds(toHelper, IoOf(mode))
      /\ Ends(toApp', NextOf(mode), {"quota"}) /\ ~Has(toHelper, "get")
  <2>1. helper.pc = "run" /\ reader = "read" /\ Kinds(toApp, NextOf(mode)) /\ Kinds(toHelper, IoOf(mode))
    BY DEF Control, Wires, RunWire
  <2>2. "get" \notin IoOf(mode)
    BY DEF IoOf
  <2>3. Ends(toApp', NextOf(mode), {"quota"})
    BY <1>a, <1>b, <2>1 DEF Grown
  <2> QED
    BY <2>1, <2>2, <2>3, <1>p, OnlyLines
<1>e. /\ \A i \in 1..Len(toApp') : toApp'[i].kind \in {"next", "quota"}
      /\ \A k : Has(toApp', k) => k \in {"next", "quota"}
      /\ Has(toApp', "next") => mode = "credit"
      /\ mode # "credit" => \A i \in 1..Len(toApp') : toApp'[i].kind = "quota"
  <2>1. \A i \in 1..Len(toApp) : toApp[i].kind = "next" /\ mode = "credit"
    BY <1>d DEF Kinds, NextOf
  <2>2. \A i \in 1..Len(toApp') : toApp'[i].kind = "quota" \/ (toApp'[i].kind = "next" /\ mode = "credit")
    BY <2>1, <1>a, <1>b DEF Grown
  <2> QED
    BY <2>2 DEF Has
<1>f. Follows(toApp', mode)
  <2>1. Follows(toApp, mode)
    BY DEF Control, ReaderOK
  <2>2. toApp = <<>> \/ (mode = "credit" /\ Kinds(toApp, {"next"}))
    BY <1>d, <1>p, OnlyLines DEF NextOf
  <2>3. Follows(Append(toApp, Line("quota")), mode)
    BY <1>p, <1>a, <2>1, <2>2, FollowsAppend
  <2> QED
    BY <2>3, <1>b
<1>g. inbox = <<>> /\ boss.outcome = "none"
  BY <1>d DEF Control, BossOK, Idle
<1>i. inbox' = inbox /\ boss' = boss /\ reader' = reader /\ mode' = mode /\ lent' = lent
  OBVIOUS
<1>1. Types'
  BY <1>p, <1>b, <1>c, <1>d, <1>e, <1>f DEF Control, Types, ContextTypes, RingTypes,
    FlagTypes, ThreadTypes, PipeTypes
<1>2. FlusherOK'
  BY <1>p, <1>b, <1>c, <1>d, <1>e, <1>f DEF Control, Types, ContextTypes, RingTypes,
    FlagTypes, ThreadTypes, FlusherOK, Download
<1>3. Wires'
  <2>1. CommandWire'
    BY <1>p, <1>b, <1>c, <1>d, <1>e, <1>f DEF Control, Types, ContextTypes, ThreadTypes,
      PipeTypes, Wires, CommandWire, GetState, Alive, FlusherOver
  <2>2. OpenWire'
    BY <1>p, <1>b, <1>c, <1>d, <1>e, <1>f DEF Control, Types, ContextTypes, ThreadTypes,
      PipeTypes, Wires, OpenWire, Mapped
  <2>3. RunWire'
    BY <1>p, <1>b, <1>c, <1>d, <1>e, <1>f DEF Control, Types, ContextTypes, ThreadTypes,
      PipeTypes, Wires, RunWire
  <2>4. QuotaWire'
    BY <1>p, <1>b, <1>c, <1>d, <1>e, <1>f DEF Control, Types, ContextTypes, ThreadTypes,
      PipeTypes, Wires, QuotaWire
  <2>5. AskWire'
    BY <1>p, <1>b, <1>c, <1>d, <1>e, <1>f DEF Control, Types, ContextTypes, ThreadTypes,
      PipeTypes, Wires, AskWire
  <2>6. FinalWire'
    BY <1>p, <1>b, <1>c, <1>d, <1>e, <1>f DEF Control, Types, ContextTypes, ThreadTypes,
      PipeTypes, Wires, FinalWire, FlusherOver
  <2>7. ReportWire'
    BY <1>p, <1>b, <1>c, <1>d, <1>e, <1>f DEF Control, Types, ContextTypes, ThreadTypes,
      PipeTypes, Wires, ReportWire
  <2> QED
    BY <2>1, <2>2, <2>3, <2>4, <2>5, <2>6, <2>7 DEF Wires
<1>4. BossOK'
  BY <1>p, <1>b, <1>c, <1>d, <1>e, <1>f DEF Control, Types, ThreadTypes, BossOK, Alive, Idle,
    FlusherOver, Download
<1>5. ReaderOK'
  <2>1. \A i \in 1..Len(toApp') : toApp'[i].kind # "final" /\ (mode # "credit" => toApp'[i].kind = "quota")
    BY <1>e
  <2>2. ~Opening'
    BY <1>d, <1>e, <1>i DEF Opening
  <2> QED
    BY <1>c, <1>d, <1>e, <1>f, <1>i, <2>1, <2>2 DEF ReaderOK
<1>6. FlagsOK'
  BY <1>p, <1>b, <1>c, <1>d, <1>e, <1>f DEF Control, Types, ThreadTypes, FlagsOK, Started,
    Moves, Mapped
<1>7. HelperOK'
  BY <1>p, <1>b, <1>c, <1>d, <1>e, <1>f DEF Control, Types, ThreadTypes, HelperOK, Holding,
    Mapped, Download
<1>8. DoneOK'
  BY <1>c, <1>e, <1>g, <1>i DEF DoneOK, Idle
<1> QED
  BY <1>1, <1>2, <1>3, <1>4, <1>5, <1>6, <1>7, <1>8 DEF Control

\* Quota is granted.
LEMMA QuotaHeardCtl == ASSUME Control, /\ helper.pc = "quota" /\ Hears("quota") /\ Take /\ Turn("run")
         /\ UNCHANGED <<toApp, contextVars, ringState, flagVars, flusher, reader, boss, inbox, starts, memory, landed, mishaps>> PROVE Control'
<1>p. /\ flusher \in Flushers /\ helper \in Helpers /\ toHelper \in Seq(HelperLines) /\ toApp \in Seq(AppLines)
      /\ inbox \in Seq(AppLines) /\ free \in Seq(RingSlot) /\ ready \in Seq(SlotLines) /\ lent \in 0..Slots
  BY DEF Control, Types, RingTypes, ThreadTypes, PipeTypes
<1>a. /\ toHelper' \in Seq(HelperLines) /\ Shrunk(toHelper, toHelper') /\ Head(toHelper).kind = "quota"
  BY <1>p, TakeShrinks
<1>c. /\ helper' \in Helpers /\ helper'.pc = "run" /\ helper'.slot = helper.slot /\ helper'.fill = helper.fill
      /\ helper'.grants = helper.grants /\ helper'.moved = helper.moved
  BY <1>p, Turned DEF Helping, HelperPlaces
<1>d. /\ helper.pc = "quota" /\ reader = "read" /\ toApp = <<>> /\ Kinds(toHelper', IoOf(mode)) /\ ~Has(toHelper', "get")
  <2>1. "quota" \notin IoOf(mode) /\ "get" \notin IoOf(mode)
    BY DEF IoOf
  <2>2. /\ helper.pc = "quota" /\ reader = "read"
        /\ \/ Kinds(toHelper, IoOf(mode))
           \/ toApp = <<>> /\ Among(toHelper, IoOf(mode), "quota")
    BY DEF Control, Wires, QuotaWire
  <2>3. toApp = <<>> /\ Kinds(toHelper', IoOf(mode))
    BY <2>1, <2>2, <1>a DEF Shrunk
  <2> QED
    BY <2>1, <2>2, <2>3, <1>a, OnlyLines
<1>g. inbox = <<>> /\ boss.outcome = "none"
  BY <1>d DEF Control, BossOK, Idle
<1>1. Types'
  BY <1>p, <1>a, <1>c, <1>d, <1>g, Nothing DEF Control, Types, ContextTypes, RingTypes,
    FlagTypes, ThreadTypes, PipeTypes
<1>2. FlusherOK'
  BY <1>p, <1>a, <1>c, <1>d, <1>g, Nothing DEF Control, Types, ContextTypes, RingTypes,
    FlagTypes, ThreadTypes, FlusherOK, Download
<1>3. Wires'
  <2>1. CommandWire'
    BY <1>p, <1>a, <1>c, <1>d, <1>g, Nothing DEF Control, Types, ContextTypes, ThreadTypes,
      PipeTypes, Wires, CommandWire, GetState, Alive, FlusherOver
  <2>2. OpenWire'
    BY <1>p, <1>a, <1>c, <1>d, <1>g, Nothing DEF Control, Types, ContextTypes, ThreadTypes,
      PipeTypes, Wires, OpenWire, Mapped
  <2>3. RunWire'
    BY <1>p, <1>a, <1>c, <1>d, <1>g, Nothing DEF Control, Types, ContextTypes, ThreadTypes,
      PipeTypes, Wires, RunWire
  <2>4. QuotaWire'
    BY <1>p, <1>a, <1>c, <1>d, <1>g, Nothing DEF Control, Types, ContextTypes, ThreadTypes,
      PipeTypes, Wires, QuotaWire
  <2>5. AskWire'
    BY <1>p, <1>a, <1>c, <1>d, <1>g, Nothing DEF Control, Types, ContextTypes, ThreadTypes,
      PipeTypes, Wires, AskWire
  <2>6. FinalWire'
    BY <1>p, <1>a, <1>c, <1>d, <1>g, Nothing DEF Control, Types, ContextTypes, ThreadTypes,
      PipeTypes, Wires, FinalWire, FlusherOver
  <2>7. ReportWire'
    BY <1>p, <1>a, <1>c, <1>d, <1>g, Nothing DEF Control, Types, ContextTypes, ThreadTypes,
      PipeTypes, Wires, ReportWire
  <2> QED
    BY <2>1, <2>2, <2>3, <2>4, <2>5, <2>6, <2>7 DEF Wires
<1>4. BossOK'
  BY <1>p, <1>a, <1>c, <1>d, <1>g, Nothing DEF Control, Types, ThreadTypes, BossOK, Alive,
    Idle, FlusherOver, Download
<1>5. ReaderOK'
  BY <1>p, <1>a, <1>c, <1>d, <1>g, Nothing DEF Control, Types, ThreadTypes, PipeTypes,
    ReaderOK, Opening, FlusherOver, Download
<1>6. FlagsOK'
  BY <1>p, <1>a, <1>c, <1>d, <1>g, Nothing DEF Control, Types, ThreadTypes, FlagsOK, Started,
    Moves, Mapped
<1>7. HelperOK'
  BY <1>p, <1>a, <1>c, <1>d, <1>g, Nothing DEF Control, Types, ThreadTypes, HelperOK, Holding,
    Mapped, Download
<1>8. DoneOK'
  BY <1>p, <1>a, <1>c, <1>d, <1>g, Nothing DEF Control, Types, ThreadTypes, PipeTypes, DoneOK,
    Quiet, Alive, Idle, FlusherOver, Download
<1> QED
  BY <1>1, <1>2, <1>3, <1>4, <1>5, <1>6, <1>7, <1>8 DEF Control

\* An error line ends the helper.
LEMMA QuotaLostCtl == ASSUME Control, /\ helper' = NoHelper
         /\ UNCHANGED <<toHelper, toApp, contextVars, ringState, flagVars, flusher, reader, boss, inbox, starts, memory, landed, mishaps>> PROVE Control'
<1>p. /\ flusher \in Flushers /\ helper \in Helpers /\ toHelper \in Seq(HelperLines) /\ toApp \in Seq(AppLines)
      /\ inbox \in Seq(AppLines) /\ free \in Seq(RingSlot) /\ ready \in Seq(SlotLines) /\ lent \in 0..Slots
  BY DEF Control, Types, RingTypes, ThreadTypes, PipeTypes
<1>a. /\ helper' \in Helpers /\ helper'.pc = "gone" /\ helper'.slot = None /\ helper'.fill = 0
      /\ helper'.grants = <<>> /\ helper'.moved = 0
  BY NoHelperIs
<1>b. ~Started'
  BY <1>a DEF Started, Moves, Mapped
<1>1. Types'
  BY <1>p, <1>a, <1>b DEF Control, Types, ContextTypes, RingTypes, FlagTypes, ThreadTypes,
    PipeTypes
<1>2. FlusherOK'
  BY <1>p, <1>a, <1>b DEF Control, Types, ContextTypes, RingTypes, FlagTypes, ThreadTypes,
    FlusherOK, Download
<1>3. Wires'
  BY <1>p, <1>a, <1>b DEF Control, Types, ContextTypes, ThreadTypes, PipeTypes, Wires,
    CommandWire, OpenWire, RunWire, QuotaWire, AskWire, FinalWire, ReportWire, GetState,
    Alive, Mapped, FlusherOver
<1>4. BossOK'
  BY <1>p, <1>a, <1>b DEF Control, Types, ThreadTypes, BossOK, Alive, Idle, FlusherOver,
    Download
<1>5. ReaderOK'
  BY <1>p, <1>a, <1>b DEF Control, Types, ThreadTypes, PipeTypes, ReaderOK, Opening,
    FlusherOver, Download
<1>6. FlagsOK'
  BY <1>p, <1>a, <1>b DEF Control, Types, ThreadTypes, FlagsOK, Started, Moves, Mapped
<1>7. HelperOK'
  BY <1>p, <1>a, <1>b DEF Control, Types, ThreadTypes, HelperOK, Holding, Mapped, Download
<1>8. DoneOK'
  BY <1>p, <1>a, <1>b DEF Control, Types, ThreadTypes, PipeTypes, DoneOK, Quiet, Alive, Idle,
    FlusherOver, Download
<1> QED
  BY <1>1, <1>2, <1>3, <1>4, <1>5, <1>6, <1>7, <1>8 DEF Control

\* The helper is done with the data.
LEMMA FinalizeCtl == ASSUME Control, Finalize PROVE Control'
<1>p. /\ flusher \in Flushers /\ helper \in Helpers /\ toHelper \in Seq(HelperLines) /\ toApp \in Seq(AppLines)
      /\ inbox \in Seq(AppLines) /\ free \in Seq(RingSlot) /\ ready \in Seq(SlotLines) /\ lent \in 0..Slots
  BY DEF Control, Types, RingTypes, ThreadTypes, PipeTypes
<1>a. /\ Trailing \in AppLines /\ Trailing.kind = "final" /\ Trailing.slot = helper.slot
  BY <1>p, HelperFields, SaidToApp, SlotFacts, Said DEF Trailing
<1>b. /\ toApp' \in Seq(AppLines)
      /\ Download => Grown(toApp, Trailing, toApp') /\ toApp' = Append(toApp, Trailing)
      /\ ~Download => toApp' = toApp
  BY <1>p, <1>a, TellsGrows DEF Finalize
<1>c. /\ helper' \in Helpers /\ helper'.slot = helper.slot /\ helper'.fill = helper.fill
      /\ helper'.grants = helper.grants /\ helper'.moved = helper.moved
      /\ helper'.pc = IF Download THEN "final" ELSE "report"
      /\ helper'.ok => ~Expects
  <2>1. CASE Turn(IF Download THEN "final" ELSE "report") /\ ~Expects
    BY <2>1, <1>p, Turned DEF Helping, HelperPlaces
  <2>2. CASE Fails(IF Download THEN "final" ELSE "report")
    BY <2>2, <1>p, Turned DEF Helping, HelperPlaces
  <2> QED
    BY <2>1, <2>2 DEF Finalize
<1>d. /\ helper.pc = "run" /\ reader = "read" /\ Kinds(toApp, NextOf(mode)) /\ Kinds(toHelper, IoOf(mode))
      /\ Download => Ends(toApp', NextOf(mode), {"final"})
      /\ mode # "credit" => toApp = <<>> /\ toHelper = <<>> /\ helper.slot = lent
      /\ ~Has(toHelper, "get")
      /\ ~Download => mode = "upload" /\ toApp' = <<>>
  <2>1. helper.pc = "run" /\ reader = "read" /\ Kinds(toApp, NextOf(mode)) /\ Kinds(toHelper, IoOf(mode))
    BY DEF Finalize, Control, Wires, RunWire
  <2>2. Download => Ends(toApp', NextOf(mode), {"final"})
    BY <1>a, <1>b, <2>1 DEF Grown
  <2>3. mode # "credit" => toApp = <<>> /\ toHelper = <<>> /\ helper.slot = lent
    BY <2>1, <1>p, OnlyLines DEF NextOf, IoOf, Control, HelperOK, Holding
  <2>4. "get" \notin IoOf(mode)
    BY DEF IoOf
  <2>5. ~Has(toHelper, "get")
    BY <2>1, <2>4, <1>p, OnlyLines
  <2>6. ~Download => mode = "upload" /\ toApp' = <<>>
    BY <2>3, <1>b DEF Download
  <2> QED
    BY <2>1, <2>2, <2>3, <2>5, <2>6
<1>e. /\ \A i \in 1..Len(toApp') : \/ toApp'[i].kind = "next" /\ mode = "credit"
                                   \/ toApp'[i] = Trailing /\ toApp'[i].kind = "final" /\ Download
      /\ \A k : Has(toApp', k) => k \in {"next", "final"}
      /\ Has(toApp', "next") => mode = "credit"
      /\ Has(toApp', "final") => Download
  <2>1. \A i \in 1..Len(toApp) : toApp[i].kind = "next" /\ mode = "credit"
    BY <1>d DEF Kinds, NextOf
  <2>2. \A i \in 1..Len(toApp') : \/ toApp'[i].kind = "next" /\ mode = "credit"
                                  \/ toApp'[i] = Trailing /\ toApp'[i].kind = "final" /\ Download
    <3>1. CASE Download
      BY <2>1, <1>a, <1>b, <3>1 DEF Grown
    <3>2. CASE ~Download
      BY <2>1, <1>b, <3>2
    <3> QED
      BY <3>1, <3>2
  <2> QED
    BY <2>2 DEF Has
<1>f. Follows(toApp', mode)
  <2>1. Follows(toApp, mode)
    BY DEF Control, ReaderOK
  <2>2. toApp = <<>> \/ (mode = "credit" /\ Kinds(toApp, {"next"}))
    BY <1>d, <1>p, OnlyLines DEF NextOf
  <2>3. Follows(Append(toApp, Trailing), mode)
    BY <1>p, <1>a, <2>1, <2>2, FollowsAppend
  <2> QED
    BY <2>1, <2>3, <1>b
<1>g. inbox = <<>> /\ boss.outcome = "none"
  BY <1>d DEF Control, BossOK, Idle
<1>i. UNCHANGED <<contextVars, ringState, flagVars, flusher, reader, boss, inbox, starts, toHelper, memory, landed>>
  BY DEF Finalize, HelperOnly
<1>j. /\ Kinds(toApp', {"next", "final"})
      /\ mode = "upload" => toApp' = <<>> /\ toHelper = <<>>
  BY <1>d, <1>e DEF Kinds, Download
<1>k. helper'.ok /\ Download => helper.moved >= length
  BY <1>c, <1>p, HelperFields DEF Expects, Control, Types, ContextTypes
<1>1. Types'
  <2>1. FlagTypes'
    BY <1>i DEF Control, Types, FlagTypes
  <2>2. PipeTypes'
    BY <1>b, <1>i DEF Control, Types, PipeTypes
  <2> QED
    BY <1>p, <1>c, <1>d, <1>e, <1>f, <1>i, <1>j, <1>k, <2>1, <2>2 DEF Control, Types,
      ContextTypes, RingTypes, ThreadTypes, Finalize, HelperOnly
<1>2. FlusherOK'
  BY <1>p, <1>c, <1>d, <1>e, <1>f, <1>i, <1>j, <1>k DEF Control, Types, ContextTypes,
    RingTypes, FlagTypes, ThreadTypes, FlusherOK, Download, Finalize, HelperOnly
<1>3. Wires'
  <2>1. CommandWire'
    BY <1>p, <1>c, <1>d, <1>e, <1>f, <1>i, <1>j, <1>k, <1>b DEF Control, Types,
      ContextTypes, ThreadTypes, PipeTypes, Wires, CommandWire, GetState, Alive,
      FlusherOver, Finalize, HelperOnly
  <2>2. OpenWire'
    BY <1>p, <1>c, <1>d, <1>e, <1>f, <1>i, <1>j, <1>k, <1>b DEF Control, Types,
      ContextTypes, ThreadTypes, PipeTypes, Wires, OpenWire, Mapped, Finalize, HelperOnly
  <2>3. RunWire'
    BY <1>p, <1>c, <1>d, <1>e, <1>f, <1>i, <1>j, <1>k, <1>b DEF Control, Types,
      ContextTypes, ThreadTypes, PipeTypes, Wires, RunWire, Finalize, HelperOnly
  <2>4. QuotaWire'
    BY <1>p, <1>c, <1>d, <1>e, <1>f, <1>i, <1>j, <1>k, <1>b DEF Control, Types,
      ContextTypes, ThreadTypes, PipeTypes, Wires, QuotaWire, Finalize, HelperOnly
  <2>5. AskWire'
    BY <1>p, <1>c, <1>d, <1>e, <1>f, <1>i, <1>j, <1>k, <1>b DEF Control, Types,
      ContextTypes, ThreadTypes, PipeTypes, Wires, AskWire, Finalize, HelperOnly
  <2>6. FinalWire'
    BY <1>p, <1>c, <1>d, <1>e, <1>f, <1>i, <1>j, <1>k, <1>b DEF Control, Types,
      ContextTypes, ThreadTypes, PipeTypes, Wires, FinalWire, FlusherOver, Finalize,
      HelperOnly
  <2>7. ReportWire'
    BY <1>p, <1>c, <1>d, <1>e, <1>f, <1>i, <1>j, <1>k, <1>b DEF Control, Types,
      ContextTypes, ThreadTypes, PipeTypes, Wires, ReportWire, Finalize, HelperOnly
  <2> QED
    BY <2>1, <2>2, <2>3, <2>4, <2>5, <2>6, <2>7 DEF Wires
<1>4. BossOK'
  BY <1>p, <1>c, <1>d, <1>e, <1>f, <1>i, <1>j, <1>k DEF Control, Types, ThreadTypes, BossOK,
    Alive, Idle, FlusherOver, Download, Finalize, HelperOnly
<1>5. ReaderOK'
  <2>1. \A i \in 1..Len(toApp') : mode # "credit" => toApp'[i].slot = lent
    BY <1>a, <1>d, <1>e
  <2>2. ~Opening'
    BY <1>d, <1>e, <1>i DEF Opening
  <2> QED
    BY <1>c, <1>d, <1>e, <1>f, <1>i, <1>j, <2>1, <2>2 DEF ReaderOK, Download
<1>6. FlagsOK'
  <2>1. helper'.pc \in {"final", "report"} /\ helper.pc = "run" /\ Started
    BY <1>c, <1>d DEF Started, Moves
  <2>2. ~halt /\ flusher.pc # "none" /\ ~final
    BY <2>1, <1>d DEF Control, FlagsOK
  <2> QED
    BY <1>c, <1>i, <2>1, <2>2 DEF FlagsOK
<1>7. HelperOK'
  BY <1>p, <1>c, <1>d, <1>e, <1>f, <1>i, <1>j, <1>k DEF Control, Types, ThreadTypes, HelperOK,
    Holding, Mapped, Download, Finalize, HelperOnly
<1>8. DoneOK'
  BY <1>c, <1>d, <1>e, <1>g, <1>i, <1>j DEF DoneOK, Idle, Quiet, Download
<1> QED
  BY <1>1, <1>2, <1>3, <1>4, <1>5, <1>6, <1>7, <1>8 DEF Control

\* The result is told.
LEMMA ReportDoneCtl == ASSUME Control, ReportDone PROVE Control'
<1>p. /\ flusher \in Flushers /\ helper \in Helpers /\ toHelper \in Seq(HelperLines) /\ toApp \in Seq(AppLines)
      /\ inbox \in Seq(AppLines) /\ free \in Seq(RingSlot) /\ ready \in Seq(SlotLines) /\ lent \in 0..Slots
  BY DEF Control, Types, RingTypes, ThreadTypes, PipeTypes
<1> DEFINE x == SlotLine("done", None, IF helper.ok THEN 1 ELSE 0)
<1>a. x \in AppLines /\ x.kind = "done" /\ (x.n = 1 => helper.ok)
  BY <1>p, HelperFields, SaidToApp, Said
<1>a2. Tells(x)
  BY DEF ReportDone
<1> HIDE DEF x
<1>b. /\ toApp' \in Seq(AppLines) /\ Grown(toApp, x, toApp') /\ toApp' = Append(toApp, x)
  BY <1>p, <1>a, <1>a2, TellsGrows
<1>c. /\ helper' \in Helpers /\ helper'.slot = helper.slot /\ helper'.fill = helper.fill
      /\ helper'.grants = helper.grants /\ helper'.moved = helper.moved /\ helper'.pc = "command"
  BY <1>p, Turned DEF ReportDone, Helping, HelperPlaces
<1>d. /\ helper.pc = "report" /\ Kinds(toApp, {"next", "final"}) /\ (mode # "credit" => toApp = <<>>)
      /\ reader \in {"read", "final"} /\ inbox = <<>> /\ boss.outcome = "none" /\ boss.pc \in {"wait", "kill"}
      /\ ~Has(toHelper, "get") /\ (reader = "final" => Kinds(toApp, {"done"}) /\ toApp = <<>>)
  <2>1. helper.pc = "report"
    BY DEF ReportDone
  <2>2. Kinds(toApp, {"next", "final"}) /\ (mode # "credit" => toApp = <<>>) /\ reader \in {"read", "final"}
    BY <2>1 DEF Control, Wires, ReportWire, ReaderOK
  <2>3. inbox = <<>> /\ boss.outcome = "none" /\ boss.pc \in {"wait", "kill"}
    BY <2>1 DEF Control, BossOK, Idle
  <2>4. ~Has(toHelper, "get")
    BY <2>1 DEF Control, Wires, CommandWire, Alive, GetState
  <2>5. reader = "final" => Kinds(toApp, {"done"})
    BY DEF Control, ReaderOK
  <2>6. reader = "final" => Kinds(toApp, {})
    BY <2>2, <2>5 DEF Kinds
  <2> QED
    BY <2>1, <2>2, <2>3, <2>4, <2>5, <2>6, <1>p, OnlyLines
<1>e. /\ \A i \in 1..Len(toApp') : \/ toApp'[i] = x
                                   \/ mode = "credit" /\ reader = "read" /\ \E j \in 1..Len(toApp) : toApp'[i] = toApp[j]
      /\ \A k : Has(toApp', k) => k = "done" \/ (k \in {"next", "final"} /\ mode = "credit" /\ Has(toApp, k))
      /\ reader = "final" => Kinds(toApp', {"done"})
  <2>1. toApp # <<>> => mode = "credit" /\ reader = "read"
    BY <1>d
  <2>2. \A i \in 1..Len(toApp) : toApp[i].kind \in {"next", "final"} /\ toApp # <<>>
    BY <1>d, Nothing DEF Kinds
  <2>3. \A i \in 1..Len(toApp') : \/ toApp'[i] = x
                                  \/ mode = "credit" /\ reader = "read" /\ \E j \in 1..Len(toApp) : toApp'[i] = toApp[j]
    BY <2>1, <2>2, <1>b DEF Grown
  <2>4. \A k : Has(toApp', k) => k = "done" \/ (k \in {"next", "final"} /\ mode = "credit" /\ Has(toApp, k))
    BY <2>1, <2>2, <1>a, <1>b DEF Grown, Has
  <2>5. reader = "final" => Kinds(toApp', {"done"})
    BY <1>a, <1>b, <1>d DEF Grown
  <2> QED
    BY <2>3, <2>4, <2>5
<1>f. Follows(toApp', mode)
  <2>1. Follows(toApp, mode)
    BY DEF Control, ReaderOK
  <2>2. Follows(Append(toApp, x), mode)
    BY <1>p, <1>a, <2>1, <1>d, FollowsAppend
  <2> QED
    BY <2>2, <1>b
<1>i. UNCHANGED <<contextVars, ringState, flagVars, flusher, reader, boss, inbox, starts, toHelper, memory, landed, mishaps>>
  BY DEF ReportDone, HelperOnly
<1>j. \A i \in 1..Len(toApp) : toApp[i].kind \in {"next", "final"}
  BY <1>d DEF Kinds
<1>k. helper.ok => Quiet /\ toApp = <<>> /\ Len(toApp') = 1
  BY <1>d, <1>b DEF Control, DoneOK, Grown
<1>1. Types'
  <2>1. FlagTypes'
    BY <1>i DEF Control, Types, FlagTypes
  <2>2. PipeTypes'
    BY <1>b, <1>i DEF Control, Types, PipeTypes
  <2> QED
    BY <1>p, <1>c, <1>d, <1>e, <1>f, <1>i, <2>1, <2>2 DEF Control, Types, ContextTypes,
      RingTypes, ThreadTypes, ReportDone, HelperOnly
<1>2. FlusherOK'
  BY <1>p, <1>c, <1>d, <1>e, <1>f, <1>i DEF Control, Types, ContextTypes, RingTypes,
    FlagTypes, ThreadTypes, FlusherOK, Download, ReportDone, HelperOnly
<1>3. Wires'
  <2>1. CommandWire'
    BY <1>p, <1>c, <1>d, <1>e, <1>f, <1>i DEF Control, Types, ContextTypes, ThreadTypes,
      PipeTypes, Wires, CommandWire, GetState, Alive, FlusherOver, ReportDone, HelperOnly
  <2>2. OpenWire'
    BY <1>p, <1>c, <1>d, <1>e, <1>f, <1>i DEF Control, Types, ContextTypes, ThreadTypes,
      PipeTypes, Wires, OpenWire, Mapped, ReportDone, HelperOnly
  <2>3. RunWire'
    BY <1>p, <1>c, <1>d, <1>e, <1>f, <1>i DEF Control, Types, ContextTypes, ThreadTypes,
      PipeTypes, Wires, RunWire, ReportDone, HelperOnly
  <2>4. QuotaWire'
    BY <1>p, <1>c, <1>d, <1>e, <1>f, <1>i DEF Control, Types, ContextTypes, ThreadTypes,
      PipeTypes, Wires, QuotaWire, ReportDone, HelperOnly
  <2>5. AskWire'
    BY <1>p, <1>c, <1>d, <1>e, <1>f, <1>i DEF Control, Types, ContextTypes, ThreadTypes,
      PipeTypes, Wires, AskWire, ReportDone, HelperOnly
  <2>6. FinalWire'
    BY <1>p, <1>c, <1>d, <1>e, <1>f, <1>i DEF Control, Types, ContextTypes, ThreadTypes,
      PipeTypes, Wires, FinalWire, FlusherOver, ReportDone, HelperOnly
  <2>7. ReportWire'
    BY <1>p, <1>c, <1>d, <1>e, <1>f, <1>i DEF Control, Types, ContextTypes, ThreadTypes,
      PipeTypes, Wires, ReportWire, ReportDone, HelperOnly
  <2> QED
    BY <2>1, <2>2, <2>3, <2>4, <2>5, <2>6, <2>7 DEF Wires
<1>4. BossOK'
  BY <1>p, <1>c, <1>d, <1>e, <1>f, <1>i DEF Control, Types, ThreadTypes, BossOK, Alive, Idle,
    FlusherOver, Download, ReportDone, HelperOnly
<1>5. ReaderOK'
  <2>1. \A i \in 1..Len(toApp') : mode # "credit" => toApp'[i].kind = "done"
    BY <1>a, <1>e
  <2>2. ~Opening'
    BY <1>d, <1>e, <1>i DEF Opening
  <2>3. Has(toApp', "final") => Download /\ reader = "read"
    BY <1>e DEF Control, ReaderOK
  <2>4. ReaderOK
    BY DEF Control
  <2>5. reader \notin {"open", "start", "next", "over"} /\ ~Has(toApp', "quota")
    BY <1>d, <1>e
  <2>6. reader = "final" => Download /\ final
    BY <2>4 DEF ReaderOK
  <2> QED
    BY <1>c, <1>d, <1>e, <1>f, <1>i, <2>1, <2>2, <2>3, <2>5, <2>6 DEF ReaderOK, Download
<1>6. FlagsOK'
  BY <1>p, <1>c, <1>d, <1>e, <1>f, <1>i DEF Control, Types, ThreadTypes, FlagsOK, Started,
    Moves, Mapped, ReportDone, HelperOnly
<1>7. HelperOK'
  BY <1>p, <1>c, <1>d, <1>e, <1>f, <1>i DEF Control, Types, ThreadTypes, HelperOK, Holding,
    Mapped, Download, ReportDone, HelperOnly
<1>8. DoneOK'
  <2>1. helper.ok => Quiet'
    BY <1>c, <1>i, <1>k, <1>d DEF Quiet, Download, FlusherOver, Alive
  <2>2. \A i \in 1..Len(toApp') : toApp'[i].kind = "done" /\ toApp'[i].n = 1 => helper.ok
    BY <1>a, <1>e, <1>j
  <2> QED
    BY <1>c, <1>d, <1>e, <1>i, <1>k, <2>1, <2>2 DEF DoneOK, Idle
<1> QED
  BY <1>1, <1>2, <1>3, <1>4, <1>5, <1>6, <1>7, <1>8 DEF Control

\* A helper is started.
LEMMA LaunchCtl == ASSUME Control, Launch PROVE Control'
<1>p. /\ flusher \in Flushers /\ helper \in Helpers /\ toHelper \in Seq(HelperLines) /\ toApp \in Seq(AppLines)
      /\ inbox \in Seq(AppLines) /\ free \in Seq(RingSlot) /\ ready \in Seq(SlotLines) /\ lent \in 0..Slots
  BY DEF Control, Types, RingTypes, ThreadTypes, PipeTypes
<1>a. /\ helper' \in Helpers /\ helper'.pc = "command" /\ helper'.slot = None /\ helper'.fill = 0
      /\ helper'.grants = <<>> /\ helper'.moved = 0
  BY NoHelperIs DEF Launch, Helpers
<1>b. helper.pc = "gone" /\ reader = "over" /\ FlusherOver /\ inbox = <<>>
  BY DEF Launch, Control, BossOK
<1>c. ~Started'
  BY <1>a DEF Started, Moves, Mapped
<1>1. Types'
  BY <1>p, <1>a, <1>b, <1>c, Nothing, EmptySeq DEF Control, Types, ContextTypes, RingTypes,
    FlagTypes, ThreadTypes, PipeTypes, Launch, ReadOn, BossGoes
<1>2. FlusherOK'
  BY <1>p, <1>a, <1>b, <1>c, Nothing, EmptySeq DEF Control, Types, ContextTypes, RingTypes,
    FlagTypes, ThreadTypes, FlusherOK, Download, Launch, ReadOn, BossGoes
<1>3. Wires'
  <2>1. CommandWire'
    BY <1>p, <1>a, <1>b, <1>c, Nothing, EmptySeq DEF Control, Types, ContextTypes,
      ThreadTypes, PipeTypes, Wires, CommandWire, GetState, Alive, FlusherOver, Launch,
      ReadOn, BossGoes
  <2>2. OpenWire'
    BY <1>p, <1>a, <1>b, <1>c, Nothing, EmptySeq DEF Control, Types, ContextTypes,
      ThreadTypes, PipeTypes, Wires, OpenWire, Mapped, Launch, ReadOn, BossGoes
  <2>3. RunWire'
    BY <1>p, <1>a, <1>b, <1>c, Nothing, EmptySeq DEF Control, Types, ContextTypes,
      ThreadTypes, PipeTypes, Wires, RunWire, Launch, ReadOn, BossGoes
  <2>4. QuotaWire'
    BY <1>p, <1>a, <1>b, <1>c, Nothing, EmptySeq DEF Control, Types, ContextTypes,
      ThreadTypes, PipeTypes, Wires, QuotaWire, Launch, ReadOn, BossGoes
  <2>5. AskWire'
    BY <1>p, <1>a, <1>b, <1>c, Nothing, EmptySeq DEF Control, Types, ContextTypes,
      ThreadTypes, PipeTypes, Wires, AskWire, Launch, ReadOn, BossGoes
  <2>6. FinalWire'
    BY <1>p, <1>a, <1>b, <1>c, Nothing, EmptySeq DEF Control, Types, ContextTypes,
      ThreadTypes, PipeTypes, Wires, FinalWire, FlusherOver, Launch, ReadOn, BossGoes
  <2>7. ReportWire'
    BY <1>p, <1>a, <1>b, <1>c, Nothing, EmptySeq DEF Control, Types, ContextTypes,
      ThreadTypes, PipeTypes, Wires, ReportWire, Launch, ReadOn, BossGoes
  <2> QED
    BY <2>1, <2>2, <2>3, <2>4, <2>5, <2>6, <2>7 DEF Wires
<1>4. BossOK'
  BY <1>p, <1>a, <1>b, <1>c, Nothing, EmptySeq DEF Control, Types, ThreadTypes, BossOK, Alive,
    Idle, FlusherOver, Download, Launch, ReadOn, BossGoes
<1>5. ReaderOK'
  BY <1>p, <1>a, <1>b, <1>c, Nothing, EmptySeq DEF Control, Types, ThreadTypes, PipeTypes,
    ReaderOK, Opening, FlusherOver, Download, Launch, ReadOn, BossGoes
<1>6. FlagsOK'
  BY <1>p, <1>a, <1>b, <1>c, Nothing, EmptySeq DEF Control, Types, ThreadTypes, FlagsOK,
    Started, Moves, Mapped, Launch, ReadOn, BossGoes
<1>7. HelperOK'
  BY <1>p, <1>a, <1>b, <1>c, Nothing, EmptySeq DEF Control, Types, ThreadTypes, HelperOK,
    Holding, Mapped, Download, Launch, ReadOn, BossGoes
<1>8. DoneOK'
  BY <1>p, <1>a, <1>b, <1>c, Nothing, EmptySeq DEF Control, Types, ThreadTypes, PipeTypes,
    DoneOK, Quiet, Alive, Idle, FlusherOver, Download, Launch, ReadOn, BossGoes
<1> QED
  BY <1>1, <1>2, <1>3, <1>4, <1>5, <1>6, <1>7, <1>8 DEF Control

\* The I/O thread is stopped.
LEMMA SetIoContextCtl == ASSUME Control, SetIoContext PROVE Control'
<1>p. /\ flusher \in Flushers /\ helper \in Helpers /\ toHelper \in Seq(HelperLines) /\ toApp \in Seq(AppLines)
      /\ inbox \in Seq(AppLines) /\ free \in Seq(RingSlot) /\ ready \in Seq(SlotLines) /\ lent \in 0..Slots
  BY DEF Control, Types, RingTypes, ThreadTypes, PipeTypes
<1>b. Idle /\ toApp = <<>> /\ inbox = <<>> /\ reader \in {"read", "over"} /\ (Alive => toHelper = <<>>)
  BY DEF SetIoContext, Control, BossOK
<1>c. ~Started
  BY <1>b DEF Started, Moves, Mapped, Idle
<1>1. Types'
  <2>1. FlagTypes'
    BY DEF Control, Types, FlagTypes, SetIoContext
  <2> QED
    BY <1>p, <1>b, <1>c, Nothing, <2>1 DEF Control, Types, ContextTypes, RingTypes,
      ThreadTypes, PipeTypes, SetIoContext, BossGoes
<1>2. FlusherOK'
  BY <1>p, <1>b, <1>c, Nothing DEF Control, Types, ContextTypes, RingTypes, FlagTypes,
    ThreadTypes, FlusherOK, Download, SetIoContext, BossGoes
<1>3. Wires'
  BY <1>p, <1>b, <1>c, Nothing DEF Control, Types, ContextTypes, ThreadTypes, PipeTypes,
    Wires, CommandWire, OpenWire, RunWire, QuotaWire, AskWire, FinalWire, ReportWire,
    GetState, Alive, Mapped, FlusherOver, SetIoContext, BossGoes
<1>4. BossOK'
  BY <1>p, <1>b, <1>c, Nothing DEF Control, Types, ThreadTypes, BossOK, Alive, Idle,
    FlusherOver, Download, SetIoContext, BossGoes
<1>5. ReaderOK'
  BY <1>p, <1>b, <1>c, Nothing DEF Control, Types, ThreadTypes, PipeTypes, ReaderOK, Opening,
    FlusherOver, Download, SetIoContext, BossGoes
<1>6. FlagsOK'
  BY <1>p, <1>b, <1>c, Nothing DEF Control, Types, ThreadTypes, FlagsOK, Started, Moves,
    Mapped, SetIoContext, BossGoes
<1>7. HelperOK'
  BY <1>p, <1>b, <1>c, Nothing DEF Control, Types, ThreadTypes, HelperOK, Holding, Mapped,
    Download, SetIoContext, BossGoes
<1>8. DoneOK'
  BY <1>p, <1>b, <1>c, Nothing DEF Control, Types, ThreadTypes, PipeTypes, DoneOK, Quiet,
    Alive, Idle, FlusherOver, Download, SetIoContext, BossGoes
<1> QED
  BY <1>1, <1>2, <1>3, <1>4, <1>5, <1>6, <1>7, <1>8 DEF Control

\* The command is sent.
LEMMA SendXferCtl == ASSUME Control, SendXfer PROVE Control'
<1>p. /\ flusher \in Flushers /\ helper \in Helpers /\ toHelper \in Seq(HelperLines) /\ toApp \in Seq(AppLines)
      /\ inbox \in Seq(AppLines) /\ free \in Seq(RingSlot) /\ ready \in Seq(SlotLines) /\ lent \in 0..Slots
  BY DEF Control, Types, RingTypes, ThreadTypes, PipeTypes
<1>b. /\ Idle /\ toApp = <<>> /\ inbox = <<>> /\ reader \in {"read", "over"} /\ (Alive => toHelper = <<>>)
      /\ reader = "over" => helper.pc = "gone"
      /\ FlusherOver /\ landed' = <<>>
  BY DEF SendXfer, Control, BossOK, ReaderOK
<1>c. Line("get") \in HelperLines
  BY SaidToHelper
<1>d. toHelper' \in Seq(HelperLines) /\ (Alive => toHelper' = <<Line("get")>>) /\ (~Alive => toHelper' = toHelper)
  BY <1>b, <1>c, <1>p, SaysGrows DEF SendXfer, Grown, Alive
<1>e. helper.pc \in {"command", "gone"} /\ ~Started /\ ~Started' /\ ~Opening /\ ~Opening' /\ ~Mapped'
  BY <1>b, Nothing DEF SendXfer, Started, Moves, Mapped, Idle, Opening
<1>f. mode' \in {"upload", flow} /\ whole' \in BOOLEAN /\ length' \in 0..MaxLen /\ (mode' # "upload" => whole')
      /\ flow' = flow
  <2>1. whole' \in (IF mode' = "upload" THEN BOOLEAN ELSE {TRUE})
    BY DEF SendXfer
  <2>2. CASE mode' = "upload"
    BY <2>1, <2>2 DEF SendXfer
  <2>3. CASE mode' # "upload"
    BY <2>1, <2>3 DEF SendXfer
  <2> QED
    BY <2>2, <2>3
<1>g. flusher.pc \in {"none", "over"} /\ flusher' = flusher /\ flusher.slot \notin RingSlot
  BY <1>b DEF FlusherOver, SendXfer, Control, FlusherOK
<1>h. boss' = [pc |-> "wait", outcome |-> "none"] /\ boss'.pc = "wait" /\ boss'.outcome = "none"
  BY DEF SendXfer
<1>i. reader' = reader /\ toApp' = toApp /\ inbox' = inbox /\ helper' = helper /\ lent' = lent
  BY DEF SendXfer
<1>1. Types'
  <2>1. ContextTypes'
    BY <1>f DEF Control, Types, ContextTypes
  <2>2. FlagTypes'
    BY DEF Control, Types, FlagTypes, SendXfer
  <2>3. ThreadTypes'
    BY <1>g, <1>i, <1>h DEF Control, Types, ThreadTypes
  <2> QED
    BY <1>b, <1>d, <1>e, <1>f, <1>g, Nothing, SlotFacts, <2>1, <2>2, <2>3 DEF Control,
      Types, RingTypes, PipeTypes, SendXfer
<1>2. FlusherOK'
  BY <1>b, <1>d, <1>e, <1>f, <1>g, Nothing, SlotFacts DEF Control, Types, ContextTypes,
    RingTypes, FlagTypes, ThreadTypes, FlusherOK, Download, SendXfer
<1>3. Wires'
  <2>1. CommandWire'
    BY <1>b, <1>d, <1>e, <1>g, <1>h, <1>i DEF CommandWire, GetState, Alive, FlusherOver
  <2>2. OpenWire'
    BY <1>b, <1>d, <1>e, <1>f, <1>g, Nothing, SlotFacts DEF Control, Types, ContextTypes,
      ThreadTypes, PipeTypes, Wires, OpenWire, Mapped, SendXfer, Idle
  <2>3. RunWire'
    BY <1>b, <1>d, <1>e, <1>f, <1>g, Nothing, SlotFacts DEF Control, Types, ContextTypes,
      ThreadTypes, PipeTypes, Wires, RunWire, SendXfer, Idle
  <2>4. QuotaWire'
    BY <1>b, <1>d, <1>e, <1>f, <1>g, Nothing, SlotFacts DEF Control, Types, ContextTypes,
      ThreadTypes, PipeTypes, Wires, QuotaWire, SendXfer, Idle
  <2>5. AskWire'
    BY <1>b, <1>d, <1>e, <1>f, <1>g, Nothing, SlotFacts DEF Control, Types, ContextTypes,
      ThreadTypes, PipeTypes, Wires, AskWire, SendXfer, Idle
  <2>6. FinalWire'
    BY <1>b, <1>d, <1>e, <1>f, <1>g, Nothing, SlotFacts DEF Control, Types, ContextTypes,
      ThreadTypes, PipeTypes, Wires, FinalWire, FlusherOver, SendXfer, Idle
  <2>7. ReportWire'
    BY <1>b, <1>d, <1>e, <1>f, <1>g, Nothing, SlotFacts DEF Control, Types, ContextTypes,
      ThreadTypes, PipeTypes, Wires, ReportWire, SendXfer, Idle
  <2> QED
    BY <2>1, <2>2, <2>3, <2>4, <2>5, <2>6, <2>7 DEF Wires
<1>4. BossOK'
  BY <1>b, <1>d, <1>e, <1>f, <1>g, Nothing, SlotFacts DEF Control, Types, ThreadTypes, BossOK,
    Alive, Idle, FlusherOver, Download, SendXfer
<1>5. ReaderOK'
  BY <1>b, <1>d, <1>e, <1>f, <1>g, Nothing, SlotFacts DEF Control, Types, ThreadTypes,
    PipeTypes, ReaderOK, Opening, FlusherOver, Download, SendXfer
<1>6. FlagsOK'
  BY <1>b, <1>d, <1>e, <1>f, <1>g, Nothing, SlotFacts DEF Control, Types, ThreadTypes,
    FlagsOK, Started, Moves, Mapped, SendXfer
<1>7. HelperOK'
  BY <1>b, <1>d, <1>e, <1>f, <1>g, Nothing, SlotFacts DEF Control, Types, ThreadTypes,
    HelperOK, Holding, Mapped, Download, SendXfer
<1>8. DoneOK'
  BY <1>b, <1>d, <1>e, <1>f, <1>g, Nothing, SlotFacts DEF Control, Types, ThreadTypes,
    PipeTypes, DoneOK, Quiet, Alive, Idle, FlusherOver, Download, SendXfer
<1> QED
  BY <1>1, <1>2, <1>3, <1>4, <1>5, <1>6, <1>7, <1>8 DEF Control

\* The result is taken.
LEMMA ResultCtl == ASSUME Control, Result PROVE Control'
<1>p. /\ flusher \in Flushers /\ helper \in Helpers /\ toHelper \in Seq(HelperLines) /\ toApp \in Seq(AppLines)
      /\ inbox \in Seq(AppLines) /\ free \in Seq(RingSlot) /\ ready \in Seq(SlotLines) /\ lent \in 0..Slots
  BY DEF Control, Types, RingTypes, ThreadTypes, PipeTypes
<1>a. /\ inbox # <<>> /\ boss.pc = "wait" /\ toApp = <<>> /\ Len(inbox) = 1 /\ reader \in {"read", "over"} /\ Idle
      /\ Head(inbox).n = 1 => Quiet
  BY DEF Result, Control, DoneOK
<1>b. inbox' = <<>>
  BY <1>a, <1>p, TailLines, EmptySeq DEF Result
<1>c. \/ boss' = [pc |-> "ready", outcome |-> "ok"] /\ Quiet
      \/ boss' = [pc |-> "kill", outcome |-> "fail"]
  BY <1>a DEF Result
<1>d. \/ boss'.pc = "ready" /\ boss'.outcome = "ok" /\ Quiet
      \/ boss'.pc = "kill" /\ boss'.outcome = "fail"
  BY <1>c
<1>e. ~Started
  BY <1>a DEF Started, Moves, Mapped, Idle
<1>f. UNCHANGED <<contextVars, ringState, flagVars, memory, flusher, reader, toHelper, toApp,
                 helper, landed, boundVars>>
  BY DEF Result
<1>g. ~(Has(toHelper, "get") /\ Alive)
  BY <1>a DEF Control, Wires, CommandWire, GetState
<1>h. ~Opening
  BY <1>a, Nothing DEF Opening
<1>i. Quiet' <=> Quiet
  BY <1>f DEF Quiet, Download, FlusherOver, Alive
<1>1. Types'
  <2>1. FlagTypes'
    BY <1>f DEF Control, Types, FlagTypes
  <2>2. ThreadTypes'
    BY <1>c, <1>f DEF Control, Types, ThreadTypes
  <2> QED
    BY <1>p, <1>a, <1>b, <1>d, <1>e, <1>f, <1>h, Nothing, <2>1, <2>2 DEF Control, Types,
      ContextTypes, RingTypes, PipeTypes, Result
<1>2. FlusherOK'
  BY <1>p, <1>a, <1>b, <1>d, <1>e, <1>f, <1>h, Nothing DEF Control, Types, ContextTypes,
    RingTypes, FlagTypes, ThreadTypes, FlusherOK, Download, Result
<1>3. Wires'
  <2>1. CommandWire'
    BY <1>f, <1>g DEF CommandWire, Alive
  <2>2. OpenWire'
    BY <1>p, <1>a, <1>b, <1>d, <1>e, <1>f, <1>h, Nothing DEF Control, Types, ContextTypes,
      ThreadTypes, PipeTypes, Wires, OpenWire, Mapped, Result, Idle
  <2>3. RunWire'
    BY <1>p, <1>a, <1>b, <1>d, <1>e, <1>f, <1>h, Nothing DEF Control, Types, ContextTypes,
      ThreadTypes, PipeTypes, Wires, RunWire, Result, Idle
  <2>4. QuotaWire'
    BY <1>p, <1>a, <1>b, <1>d, <1>e, <1>f, <1>h, Nothing DEF Control, Types, ContextTypes,
      ThreadTypes, PipeTypes, Wires, QuotaWire, Result, Idle
  <2>5. AskWire'
    BY <1>p, <1>a, <1>b, <1>d, <1>e, <1>f, <1>h, Nothing DEF Control, Types, ContextTypes,
      ThreadTypes, PipeTypes, Wires, AskWire, Result, Idle
  <2>6. FinalWire'
    BY <1>p, <1>a, <1>b, <1>d, <1>e, <1>f, <1>h, Nothing DEF Control, Types, ContextTypes,
      ThreadTypes, PipeTypes, Wires, FinalWire, FlusherOver, Result, Idle
  <2>7. ReportWire'
    BY <1>p, <1>a, <1>b, <1>d, <1>e, <1>f, <1>h, Nothing DEF Control, Types, ContextTypes,
      ThreadTypes, PipeTypes, Wires, ReportWire, Result, Idle
  <2> QED
    BY <2>1, <2>2, <2>3, <2>4, <2>5, <2>6, <2>7 DEF Wires
<1>4. BossOK'
  BY <1>a, <1>b, <1>d, <1>f DEF Control, BossOK, Quiet, Alive, Idle, FlusherOver, Download
<1>5. ReaderOK'
  BY <1>p, <1>a, <1>b, <1>d, <1>e, <1>f, <1>h, Nothing DEF Control, Types, ThreadTypes,
    PipeTypes, ReaderOK, Opening, FlusherOver, Download, Result
<1>6. FlagsOK'
  BY <1>p, <1>a, <1>b, <1>d, <1>e, <1>f, <1>h, Nothing DEF Control, Types, ThreadTypes,
    FlagsOK, Started, Moves, Mapped, Result
<1>7. HelperOK'
  BY <1>p, <1>a, <1>b, <1>d, <1>e, <1>f, <1>h, Nothing DEF Control, Types, ThreadTypes,
    HelperOK, Holding, Mapped, Download, Result
<1>8. DoneOK'
  <2>1. helper.pc = "report" /\ helper.ok => Quiet /\ toApp = <<>>
    BY <1>a DEF Idle
  <2> QED
    BY <1>a, <1>b, <1>d, <1>f, <1>i, <2>1, Nothing DEF DoneOK, Idle
<1> QED
  BY <1>1, <1>2, <1>3, <1>4, <1>5, <1>6, <1>7, <1>8 DEF Control

\* The helper is gone.
LEMMA ConnectionClosedCtl == ASSUME Control, ConnectionClosed PROVE Control'
<1>p. /\ flusher \in Flushers /\ helper \in Helpers /\ toHelper \in Seq(HelperLines) /\ toApp \in Seq(AppLines)
      /\ inbox \in Seq(AppLines) /\ free \in Seq(RingSlot) /\ ready \in Seq(SlotLines) /\ lent \in 0..Slots
  BY DEF Control, Types, RingTypes, ThreadTypes, PipeTypes
<1>a. /\ boss.pc = "wait" /\ reader = "over" /\ boss'.pc = "kill" /\ boss'.outcome = "fail"
      /\ helper.pc = "gone" /\ toApp = <<>>
  BY DEF ConnectionClosed, Control, ReaderOK
<1>1. Types'
  BY <1>p, <1>a, Nothing DEF Control, Types, ContextTypes, RingTypes, FlagTypes, ThreadTypes,
    PipeTypes, ConnectionClosed
<1>2. FlusherOK'
  BY <1>p, <1>a, Nothing DEF Control, Types, ContextTypes, RingTypes, FlagTypes, ThreadTypes,
    FlusherOK, Download, ConnectionClosed
<1>3. Wires'
  <2>1. CommandWire'
    BY <1>p, <1>a, Nothing DEF Control, Types, ContextTypes, ThreadTypes, PipeTypes, Wires,
      CommandWire, GetState, Alive, FlusherOver, ConnectionClosed
  <2>2. OpenWire'
    BY <1>p, <1>a, Nothing DEF Control, Types, ContextTypes, ThreadTypes, PipeTypes, Wires,
      OpenWire, Mapped, ConnectionClosed
  <2>3. RunWire'
    BY <1>p, <1>a, Nothing DEF Control, Types, ContextTypes, ThreadTypes, PipeTypes, Wires,
      RunWire, ConnectionClosed
  <2>4. QuotaWire'
    BY <1>p, <1>a, Nothing DEF Control, Types, ContextTypes, ThreadTypes, PipeTypes, Wires,
      QuotaWire, ConnectionClosed
  <2>5. AskWire'
    BY <1>p, <1>a, Nothing DEF Control, Types, ContextTypes, ThreadTypes, PipeTypes, Wires,
      AskWire, ConnectionClosed
  <2>6. FinalWire'
    BY <1>p, <1>a, Nothing DEF Control, Types, ContextTypes, ThreadTypes, PipeTypes, Wires,
      FinalWire, FlusherOver, ConnectionClosed
  <2>7. ReportWire'
    BY <1>p, <1>a, Nothing DEF Control, Types, ContextTypes, ThreadTypes, PipeTypes, Wires,
      ReportWire, ConnectionClosed
  <2> QED
    BY <2>1, <2>2, <2>3, <2>4, <2>5, <2>6, <2>7 DEF Wires
<1>4. BossOK'
  BY <1>p, <1>a, Nothing DEF Control, Types, ThreadTypes, BossOK, Alive, Idle, FlusherOver,
    Download, ConnectionClosed
<1>5. ReaderOK'
  BY <1>p, <1>a, Nothing DEF Control, Types, ThreadTypes, PipeTypes, ReaderOK, Opening,
    FlusherOver, Download, ConnectionClosed
<1>6. FlagsOK'
  BY <1>p, <1>a, Nothing DEF Control, Types, ThreadTypes, FlagsOK, Started, Moves, Mapped,
    ConnectionClosed
<1>7. HelperOK'
  BY <1>p, <1>a, Nothing DEF Control, Types, ThreadTypes, HelperOK, Holding, Mapped, Download,
    ConnectionClosed
<1>8. DoneOK'
  BY <1>p, <1>a, Nothing DEF Control, Types, ThreadTypes, PipeTypes, DoneOK, Quiet, Alive,
    Idle, FlusherOver, Download, ConnectionClosed
<1> QED
  BY <1>1, <1>2, <1>3, <1>4, <1>5, <1>6, <1>7, <1>8 DEF Control

\* The user stops the transfer.
LEMMA PauseCtl == ASSUME Control, Pause PROVE Control'
<1>p. /\ flusher \in Flushers /\ helper \in Helpers /\ toHelper \in Seq(HelperLines) /\ toApp \in Seq(AppLines)
      /\ inbox \in Seq(AppLines) /\ free \in Seq(RingSlot) /\ ready \in Seq(SlotLines) /\ lent \in 0..Slots
  BY DEF Control, Types, RingTypes, ThreadTypes, PipeTypes
<1>a. /\ boss.pc \in {"wait", "ready"} /\ boss'.pc = "kill" /\ boss'.outcome = boss.outcome
  BY DEF Pause, BossGoes, Control, Types, ThreadTypes
<1>b. boss.pc = "ready" => Idle /\ toApp = <<>>
  BY DEF Control, BossOK
<1>1. Types'
  BY <1>p, <1>a, <1>b, Nothing DEF Control, Types, ContextTypes, RingTypes, FlagTypes,
    ThreadTypes, PipeTypes, Pause, BossGoes
<1>2. FlusherOK'
  BY <1>p, <1>a, <1>b, Nothing DEF Control, Types, ContextTypes, RingTypes, FlagTypes,
    ThreadTypes, FlusherOK, Download, Pause, BossGoes
<1>3. Wires'
  <2>1. CommandWire'
    BY <1>p, <1>a, <1>b, Nothing DEF Control, Types, ContextTypes, ThreadTypes, PipeTypes,
      Wires, CommandWire, GetState, Alive, FlusherOver, Pause, BossGoes
  <2>2. OpenWire'
    <3>1. OpenWire
      BY DEF Control, Wires
    <3> QED
      BY <3>1 DEF OpenWire, Mapped, FlusherOver, Pause
  <2>3. RunWire'
    BY <1>p, <1>a, <1>b, Nothing DEF Control, Types, ContextTypes, ThreadTypes, PipeTypes,
      Wires, RunWire, Pause, BossGoes
  <2>4. QuotaWire'
    BY <1>p, <1>a, <1>b, Nothing DEF Control, Types, ContextTypes, ThreadTypes, PipeTypes,
      Wires, QuotaWire, Pause, BossGoes
  <2>5. AskWire'
    BY <1>p, <1>a, <1>b, Nothing DEF Control, Types, ContextTypes, ThreadTypes, PipeTypes,
      Wires, AskWire, Pause, BossGoes
  <2>6. FinalWire'
    BY <1>p, <1>a, <1>b, Nothing DEF Control, Types, ContextTypes, ThreadTypes, PipeTypes,
      Wires, FinalWire, FlusherOver, Pause, BossGoes
  <2>7. ReportWire'
    BY <1>p, <1>a, <1>b, Nothing DEF Control, Types, ContextTypes, ThreadTypes, PipeTypes,
      Wires, ReportWire, Pause, BossGoes
  <2> QED
    BY <2>1, <2>2, <2>3, <2>4, <2>5, <2>6, <2>7 DEF Wires
<1>4. BossOK'
  BY <1>p, <1>a, <1>b, Nothing DEF Control, Types, ThreadTypes, BossOK, Alive, Idle,
    FlusherOver, Download, Pause, BossGoes
<1>5. ReaderOK'
  BY <1>p, <1>a, <1>b, Nothing DEF Control, Types, ThreadTypes, PipeTypes, ReaderOK, Opening,
    FlusherOver, Download, Pause, BossGoes
<1>6. FlagsOK'
  BY <1>p, <1>a, <1>b, Nothing DEF Control, Types, ThreadTypes, FlagsOK, Started, Moves,
    Mapped, Pause, BossGoes
<1>7. HelperOK'
  BY <1>p, <1>a, <1>b, Nothing DEF Control, Types, ThreadTypes, HelperOK, Holding, Mapped,
    Download, Pause, BossGoes
<1>8. DoneOK'
  BY <1>p, <1>a, <1>b, Nothing DEF Control, Types, ThreadTypes, PipeTypes, DoneOK, Quiet,
    Alive, Idle, FlusherOver, Download, Pause, BossGoes
<1> QED
  BY <1>1, <1>2, <1>3, <1>4, <1>5, <1>6, <1>7, <1>8 DEF Control

\* The I/O thread is woken.
LEMMA StopSignalCtl == ASSUME Control, StopSignal PROVE Control'
<1>p. /\ flusher \in Flushers /\ helper \in Helpers /\ toHelper \in Seq(HelperLines) /\ toApp \in Seq(AppLines)
      /\ inbox \in Seq(AppLines) /\ free \in Seq(RingSlot) /\ ready \in Seq(SlotLines) /\ lent \in 0..Slots
  BY DEF Control, Types, RingTypes, ThreadTypes, PipeTypes
<1>b. helper.pc = "gone"
  BY DEF StopSignal, Control, BossOK
<1>1. Types'
  <2>1. FlagTypes'
    BY DEF Control, Types, FlagTypes, StopSignal
  <2> QED
    BY <1>p, <1>b, <2>1 DEF Control, Types, ContextTypes, RingTypes, ThreadTypes, PipeTypes,
      StopSignal, BossGoes
<1>2. FlusherOK'
  BY <1>p, <1>b DEF Control, Types, ContextTypes, RingTypes, FlagTypes, ThreadTypes,
    FlusherOK, Download, StopSignal, BossGoes
<1>3. Wires'
  <2>1. CommandWire'
    BY <1>p, <1>b DEF Control, Types, ContextTypes, ThreadTypes, PipeTypes, Wires,
      CommandWire, GetState, Alive, FlusherOver, StopSignal, BossGoes
  <2>2. OpenWire'
    BY <1>p, <1>b DEF Control, Types, ContextTypes, ThreadTypes, PipeTypes, Wires, OpenWire,
      Mapped, StopSignal, BossGoes
  <2>3. RunWire'
    BY <1>p, <1>b DEF Control, Types, ContextTypes, ThreadTypes, PipeTypes, Wires, RunWire,
      StopSignal, BossGoes
  <2>4. QuotaWire'
    BY <1>p, <1>b DEF Control, Types, ContextTypes, ThreadTypes, PipeTypes, Wires,
      QuotaWire, StopSignal, BossGoes
  <2>5. AskWire'
    BY <1>p, <1>b DEF Control, Types, ContextTypes, ThreadTypes, PipeTypes, Wires, AskWire,
      StopSignal, BossGoes
  <2>6. FinalWire'
    BY <1>p, <1>b DEF Control, Types, ContextTypes, ThreadTypes, PipeTypes, Wires,
      FinalWire, FlusherOver, StopSignal, BossGoes
  <2>7. ReportWire'
    BY <1>p, <1>b DEF Control, Types, ContextTypes, ThreadTypes, PipeTypes, Wires,
      ReportWire, StopSignal, BossGoes
  <2> QED
    BY <2>1, <2>2, <2>3, <2>4, <2>5, <2>6, <2>7 DEF Wires
<1>4. BossOK'
  BY <1>p, <1>b DEF Control, Types, ThreadTypes, BossOK, Alive, Idle, FlusherOver, Download,
    StopSignal, BossGoes
<1>5. ReaderOK'
  BY <1>p, <1>b DEF Control, Types, ThreadTypes, PipeTypes, ReaderOK, Opening, FlusherOver,
    Download, StopSignal, BossGoes
<1>6. FlagsOK'
  BY <1>p, <1>b DEF Control, Types, ThreadTypes, FlagsOK, Started, Moves, Mapped, StopSignal,
    BossGoes
<1>7. HelperOK'
  BY <1>p, <1>b DEF Control, Types, ThreadTypes, HelperOK, Holding, Mapped, Download,
    StopSignal, BossGoes
<1>8. DoneOK'
  BY <1>p, <1>b DEF Control, Types, ThreadTypes, PipeTypes, DoneOK, Quiet, Alive, Idle,
    FlusherOver, Download, StopSignal, BossGoes
<1> QED
  BY <1>1, <1>2, <1>3, <1>4, <1>5, <1>6, <1>7, <1>8 DEF Control

\* The reader is joined.
LEMMA StopJoinCtl == ASSUME Control, StopJoin PROVE Control'
<1>p. /\ flusher \in Flushers /\ helper \in Helpers /\ toHelper \in Seq(HelperLines) /\ toApp \in Seq(AppLines)
      /\ inbox \in Seq(AppLines) /\ free \in Seq(RingSlot) /\ ready \in Seq(SlotLines) /\ lent \in 0..Slots
  BY DEF Control, Types, RingTypes, ThreadTypes, PipeTypes
<1>b. helper.pc = "gone"
  BY DEF StopJoin, Control, BossOK
<1>1. Types'
  <2>1. FlagTypes'
    BY DEF Control, Types, FlagTypes, StopJoin
  <2> QED
    BY <1>p, <1>b, <2>1 DEF Control, Types, ContextTypes, RingTypes, ThreadTypes, PipeTypes,
      StopJoin, BossGoes
<1>2. FlusherOK'
  BY <1>p, <1>b DEF Control, Types, ContextTypes, RingTypes, FlagTypes, ThreadTypes,
    FlusherOK, Download, StopJoin, BossGoes
<1>3. Wires'
  <2>1. CommandWire'
    BY <1>p, <1>b DEF Control, Types, ContextTypes, ThreadTypes, PipeTypes, Wires,
      CommandWire, GetState, Alive, FlusherOver, StopJoin, BossGoes
  <2>2. OpenWire'
    BY <1>p, <1>b DEF Control, Types, ContextTypes, ThreadTypes, PipeTypes, Wires, OpenWire,
      Mapped, StopJoin, BossGoes
  <2>3. RunWire'
    BY <1>p, <1>b DEF Control, Types, ContextTypes, ThreadTypes, PipeTypes, Wires, RunWire,
      StopJoin, BossGoes
  <2>4. QuotaWire'
    BY <1>p, <1>b DEF Control, Types, ContextTypes, ThreadTypes, PipeTypes, Wires,
      QuotaWire, StopJoin, BossGoes
  <2>5. AskWire'
    BY <1>p, <1>b DEF Control, Types, ContextTypes, ThreadTypes, PipeTypes, Wires, AskWire,
      StopJoin, BossGoes
  <2>6. FinalWire'
    BY <1>p, <1>b DEF Control, Types, ContextTypes, ThreadTypes, PipeTypes, Wires,
      FinalWire, FlusherOver, StopJoin, BossGoes
  <2>7. ReportWire'
    BY <1>p, <1>b DEF Control, Types, ContextTypes, ThreadTypes, PipeTypes, Wires,
      ReportWire, StopJoin, BossGoes
  <2> QED
    BY <2>1, <2>2, <2>3, <2>4, <2>5, <2>6, <2>7 DEF Wires
<1>4. BossOK'
  BY <1>p, <1>b DEF Control, Types, ThreadTypes, BossOK, Alive, Idle, FlusherOver, Download,
    StopJoin, BossGoes
<1>5. ReaderOK'
  BY <1>p, <1>b DEF Control, Types, ThreadTypes, PipeTypes, ReaderOK, Opening, FlusherOver,
    Download, StopJoin, BossGoes
<1>6. FlagsOK'
  BY <1>p, <1>b DEF Control, Types, ThreadTypes, FlagsOK, Started, Moves, Mapped, StopJoin,
    BossGoes
<1>7. HelperOK'
  BY <1>p, <1>b DEF Control, Types, ThreadTypes, HelperOK, Holding, Mapped, Download,
    StopJoin, BossGoes
<1>8. DoneOK'
  BY <1>p, <1>b DEF Control, Types, ThreadTypes, PipeTypes, DoneOK, Quiet, Alive, Idle,
    FlusherOver, Download, StopJoin, BossGoes
<1> QED
  BY <1>1, <1>2, <1>3, <1>4, <1>5, <1>6, <1>7, <1>8 DEF Control

\* The results are forgotten.
LEMMA StopDropCtl == ASSUME Control, StopDrop PROVE Control'
<1>p. /\ flusher \in Flushers /\ helper \in Helpers /\ toHelper \in Seq(HelperLines) /\ toApp \in Seq(AppLines)
      /\ inbox \in Seq(AppLines) /\ free \in Seq(RingSlot) /\ ready \in Seq(SlotLines) /\ lent \in 0..Slots
  BY DEF Control, Types, RingTypes, ThreadTypes, PipeTypes
<1>b. helper.pc = "gone" /\ reader = "over" /\ toApp = <<>>
  BY DEF StopDrop, Control, BossOK, ReaderOK
<1>1. Types'
  BY <1>p, <1>b, Nothing, EmptySeq DEF Control, Types, ContextTypes, RingTypes, FlagTypes,
    ThreadTypes, PipeTypes, StopDrop, BossGoes
<1>2. FlusherOK'
  BY <1>p, <1>b, Nothing, EmptySeq DEF Control, Types, ContextTypes, RingTypes, FlagTypes,
    ThreadTypes, FlusherOK, Download, StopDrop, BossGoes
<1>3. Wires'
  <2>1. CommandWire'
    BY <1>p, <1>b, Nothing, EmptySeq DEF Control, Types, ContextTypes, ThreadTypes,
      PipeTypes, Wires, CommandWire, GetState, Alive, FlusherOver, StopDrop, BossGoes
  <2>2. OpenWire'
    BY <1>p, <1>b, Nothing, EmptySeq DEF Control, Types, ContextTypes, ThreadTypes,
      PipeTypes, Wires, OpenWire, Mapped, StopDrop, BossGoes
  <2>3. RunWire'
    BY <1>p, <1>b, Nothing, EmptySeq DEF Control, Types, ContextTypes, ThreadTypes,
      PipeTypes, Wires, RunWire, StopDrop, BossGoes
  <2>4. QuotaWire'
    BY <1>p, <1>b, Nothing, EmptySeq DEF Control, Types, ContextTypes, ThreadTypes,
      PipeTypes, Wires, QuotaWire, StopDrop, BossGoes
  <2>5. AskWire'
    BY <1>p, <1>b, Nothing, EmptySeq DEF Control, Types, ContextTypes, ThreadTypes,
      PipeTypes, Wires, AskWire, StopDrop, BossGoes
  <2>6. FinalWire'
    BY <1>p, <1>b, Nothing, EmptySeq DEF Control, Types, ContextTypes, ThreadTypes,
      PipeTypes, Wires, FinalWire, FlusherOver, StopDrop, BossGoes
  <2>7. ReportWire'
    BY <1>p, <1>b, Nothing, EmptySeq DEF Control, Types, ContextTypes, ThreadTypes,
      PipeTypes, Wires, ReportWire, StopDrop, BossGoes
  <2> QED
    BY <2>1, <2>2, <2>3, <2>4, <2>5, <2>6, <2>7 DEF Wires
<1>4. BossOK'
  BY <1>p, <1>b, Nothing, EmptySeq DEF Control, Types, ThreadTypes, BossOK, Alive, Idle,
    FlusherOver, Download, StopDrop, BossGoes
<1>5. ReaderOK'
  BY <1>p, <1>b, Nothing, EmptySeq DEF Control, Types, ThreadTypes, PipeTypes, ReaderOK,
    Opening, FlusherOver, Download, StopDrop, BossGoes
<1>6. FlagsOK'
  BY <1>p, <1>b, Nothing, EmptySeq DEF Control, Types, ThreadTypes, FlagsOK, Started, Moves,
    Mapped, StopDrop, BossGoes
<1>7. HelperOK'
  BY <1>p, <1>b, Nothing, EmptySeq DEF Control, Types, ThreadTypes, HelperOK, Holding, Mapped,
    Download, StopDrop, BossGoes
<1>8. DoneOK'
  BY <1>p, <1>b, Nothing, EmptySeq DEF Control, Types, ThreadTypes, PipeTypes, DoneOK, Quiet,
    Alive, Idle, FlusherOver, Download, StopDrop, BossGoes
<1> QED
  BY <1>1, <1>2, <1>3, <1>4, <1>5, <1>6, <1>7, <1>8 DEF Control

\* Nothing happens.
LEMMA RestCtl == ASSUME Control, UNCHANGED ringVars PROVE Control'
<1>a. UNCHANGED <<contextVars, ringState, flagVars, memory, flusher, reader, boss, pipeVars, helper, landed, boundVars>>
  BY DEF ringVars
<1>1. Types'
  BY <1>a DEF Control, Types, ContextTypes, RingTypes, FlagTypes, ThreadTypes, PipeTypes,
    ringVars
<1>2. FlusherOK'
  BY <1>a DEF Control, Types, ContextTypes, RingTypes, FlagTypes, ThreadTypes, FlusherOK,
    Download, ringVars
<1>3. Wires'
  <2>1. CommandWire'
    BY <1>a DEF Control, Types, ContextTypes, ThreadTypes, PipeTypes, Wires, CommandWire,
      GetState, Alive, FlusherOver, ringVars
  <2>2. OpenWire'
    <3>1. OpenWire
      BY DEF Control, Wires
    <3> QED
      BY <3>1, <1>a DEF OpenWire, Mapped, FlusherOver
  <2>3. RunWire'
    BY <1>a DEF Control, Types, ContextTypes, ThreadTypes, PipeTypes, Wires, RunWire,
      ringVars
  <2>4. QuotaWire'
    BY <1>a DEF Control, Types, ContextTypes, ThreadTypes, PipeTypes, Wires, QuotaWire,
      ringVars
  <2>5. AskWire'
    BY <1>a DEF Control, Types, ContextTypes, ThreadTypes, PipeTypes, Wires, AskWire,
      ringVars
  <2>6. FinalWire'
    BY <1>a DEF Control, Types, ContextTypes, ThreadTypes, PipeTypes, Wires, FinalWire,
      FlusherOver, ringVars
  <2>7. ReportWire'
    BY <1>a DEF Control, Types, ContextTypes, ThreadTypes, PipeTypes, Wires, ReportWire,
      ringVars
  <2> QED
    BY <2>1, <2>2, <2>3, <2>4, <2>5, <2>6, <2>7 DEF Wires
<1>4. BossOK'
  BY <1>a DEF Control, Types, ThreadTypes, BossOK, Alive, Idle, FlusherOver, Download,
    ringVars
<1>5. ReaderOK'
  BY <1>a DEF Control, Types, ThreadTypes, PipeTypes, ReaderOK, Opening, FlusherOver,
    Download, ringVars
<1>6. FlagsOK'
  BY <1>a DEF Control, Types, ThreadTypes, FlagsOK, Started, Moves, Mapped, ringVars
<1>7. HelperOK'
  BY <1>a DEF Control, Types, ThreadTypes, HelperOK, Holding, Mapped, Download, ringVars
<1>8. DoneOK'
  BY <1>a DEF Control, Types, ThreadTypes, PipeTypes, DoneOK, Quiet, Alive, Idle, FlusherOver,
    Download, ringVars
<1> QED
  BY <1>1, <1>2, <1>3, <1>4, <1>5, <1>6, <1>7, <1>8 DEF Control

\* The first state.
LEMMA InitCtl == RingInit => Control
<1> SUFFICES ASSUME RingInit PROVE Control
  OBVIOUS
<1>a. /\ helper \in Helpers /\ helper.pc = "gone" /\ helper.slot = None /\ helper.fill = 0 /\ helper = NoHelper
  BY NoHelperIs DEF RingInit
<1>b. flusher \in Flushers /\ flusher.pc = "none" /\ flusher.slot = None
  BY SlotFacts DEF RingInit, Flushers
<1>c. boss.pc = "stopped" /\ boss.outcome = "none" /\ reader = "over"
  BY DEF RingInit
<1>1. Types
  <2>1. ContextTypes
    BY SlotFacts, RingAssumption DEF RingInit, ContextTypes
  <2>2. RingTypes
    BY SlotFacts, EmptySeq DEF RingInit, RingTypes
  <2>3. FlagTypes
    BY DEF RingInit, FlagTypes
  <2>4. ThreadTypes
    BY <1>a, <1>b DEF RingInit, ThreadTypes
  <2>5. PipeTypes
    BY EmptySeq DEF RingInit, PipeTypes
  <2> QED
    BY <2>1, <2>2, <2>3, <2>4, <2>5 DEF Types
<1>2. FlusherOK
  BY <1>b, SlotFacts DEF FlusherOK
<1>3. Wires
  BY <1>a DEF Wires, CommandWire, OpenWire, RunWire, QuotaWire, AskWire, FinalWire, ReportWire,
     Alive
<1>4. BossOK
  BY <1>a, <1>b, <1>c DEF RingInit, BossOK, FlusherOver, Idle
<1>5. ReaderOK
  BY <1>a, <1>b, <1>c, Nothing DEF RingInit, ReaderOK, Opening, FlusherOver
<1>6. FlagsOK
  BY <1>a DEF FlagsOK, Started, Moves, Mapped
<1>7. HelperOK
  BY <1>a DEF HelperOK, Holding, Mapped
<1>8. DoneOK
  BY <1>a, <1>b, <1>c, Nothing DEF RingInit, DoneOK
<1> QED
  BY <1>1, <1>2, <1>3, <1>4, <1>5, <1>6, <1>7, <1>8 DEF Control

\* Control holds in every state.
LEMMA NextCtl == ASSUME Control, [RingNext]_ringVars PROVE Control'
<1>1. CASE Flusher
  BY <1>1, FlushWaitCtl, FlushFinishCtl, FlushWriteCtl, FlushGrantCtl, FillWaitCtl, FillReadCtl
     DEF Flusher
<1>2. CASE Reader
  BY <1>2, OnQuotaCtl, OnResultCtl, OnOpenCtl, OnOpenFileCtl, OnOpenStartCtl, OnNextCreditCtl,
     OnNextReturnCtl, OnNextLendCtl, OnFinalizeCtl, OnFinalizeJoinCtl, OnEndCtl DEF Reader
<1>3. CASE Quota
  BY <1>3, QuotaAskCtl, QuotaHeardCtl, QuotaLostCtl DEF Quota, HelperOnly
<1>4. CASE HelperStep
  BY <1>4, <1>3, CommandCtl, StrayLineCtl, SiphonCtl, OpenedCtl, StoreCtl, SendCtl, AskCtl,
     NextGrantCtl, NextLentCtl, NextNoneCtl, FinalizeCtl, FinalizedCtl, ReportDoneCtl DEF
     HelperStep
<1> QED
  BY <1>1, <1>2, <1>3, <1>4, HelperDiesCtl, LaunchCtl, SetIoContextCtl, SendXferCtl, ResultCtl,
     ConnectionClosedCtl, PauseCtl, StopKillCtl, StopSignalCtl, StopJoinCtl, StopDropCtl,
     RestCtl
  DEF RingNext, BossPolls, Stop

\* Who does what when, and what is on the pipes meanwhile: in every reachable state of the ring,
\* for any number of slots, file lengths, transfers and mishaps.
THEOREM ControlInvariant == RingSpec => []Control
BY InitCtl, NextCtl, PTL DEF RingSpec
==============================================================================
